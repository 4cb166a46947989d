-------------------------------- MODULE Requests --------------------------------
(***************************************************************************)
(* The HTTP requests that verify: BatchVerify behind the idempotency       *)
(* pre-handler (middleware/idempotency.middleware.ts,                      *)
(* services/idempotency.service.ts), in a process that is shut down        *)
(* (server.ts) or crashes.                                                 *)
(*                                                                         *)
(* A retry is another request with the same header, path and body.  Each   *)
(* action runs from one await of the handler to the next; Redis and the    *)
(* memory store are asked in between.                                      *)
(***************************************************************************)
EXTENDS BatchVerify

CONSTANTS
    HeadOf,    \* request -> {tenant, header, path}; header "none" if there is none
    RedisModes \* how Redis may behave in a run: subset of RedisMode

\* "out": REDIS_URL is not set or every call fails; "flaky": each may fail or work;
\* "silent": no call is answered, and the client has no timer for one.
RedisMode == {"out", "up", "flaky", "silent"}

ASSUME RequestsAssumption ==
    /\ RedisModes \subseteq RedisMode
    /\ DOMAIN HeadOf = Request
    /\ \A r \in Request : HeadOf[r] = [tenant |-> HeadOf[r].tenant, header |-> HeadOf[r].header,
                                     path |-> HeadOf[r].path]

VARIABLES
    redis,      \* how Redis behaves
    serving,    \* FALSE: the server is closing
    phase,      \* request -> where its handler is
    stored,     \* store -> key -> the response it holds
    reply,      \* request -> the response it was answered with
    retry,      \* history: requests posted when their key had been answered before
    forgotten   \* history: keys of which a stored response was lost

requestVars == <<redis, serving, phase, stored, reply, retry, forgotten>>
vars == <<requestVars, batchVars>>

Store == {"redis", "memory"}
InFlight == {"held", "looking", "executing", "storing"}
Phase == {"new", "answered", "refused", "cut"} \cup InFlight
NoResponse == <<>>

\* Mutant: the body is left out of the key.
KeyOfHead(r) == <<HeadOf[r].tenant, HeadOf[r].header, HeadOf[r].path>>

\* buildIdempotencyKey: the tenant, the header, the path and the raw body.
KeyOf(r) == <<HeadOf[r].tenant, HeadOf[r].header, HeadOf[r].path, RowsOf[r]>>

Key == {KeyOf(r) : r \in Request}
HasKey(r) == HeadOf[r].header # "none"

\* Where a call to the store ends up: in memory when Redis is absent or throws, and
\* nowhere while it is not answered.
Reached ==
    CASE redis = "out" -> {"memory"}
      [] redis = "up" -> {"redis"}
      [] redis = "flaky" -> Store
      [] redis = "silent" -> {}

-----------------------------------------------------------------------------
(* A request *)

Goto(r, where) == phase' = [phase EXCEPT ![r] = where]

Answer(r, response) ==
    /\ Goto(r, "answered")
    /\ reply' = [reply EXCEPT ![r] = response]

History == <<retry, forgotten>>

\* The request arrives while Redis is silent: the rate limiter, which comes first and
\* counts in Redis, never lets it through.
Held(r) ==
    /\ phase[r] = "new" /\ serving /\ redis = "silent"
    /\ Goto(r, "held")
    /\ UNCHANGED <<redis, serving, stored, reply, History, batchVars>>

\* Past the rate limiter a request is looked up, or executed at once without a key.
\* A closing server refuses it before.
Post(r) ==
    /\ phase[r] = "new" /\ (serving => redis # "silent")
    /\ \/ /\ serving /\ HasKey(r)
          /\ Goto(r, "looking")
          /\ retry' = IF \E q \in Request : phase[q] = "answered" /\ KeyOf(q) = KeyOf(r)
                      THEN retry \cup {r}
                      ELSE retry
          /\ UNCHANGED batchVars
       \/ /\ serving /\ ~HasKey(r)
          /\ Goto(r, "executing")
          /\ Accept(r)
          /\ UNCHANGED retry
       \/ /\ ~serving
          /\ Goto(r, "refused")
          /\ UNCHANGED <<retry, batchVars>>
    /\ UNCHANGED <<redis, serving, stored, reply, forgotten>>

\* idempotencyReadPreHandler resumes: a hit is the answer, a miss goes on to the
\* handler.
LookedUp(r) ==
    /\ phase[r] = "looking"
    /\ \E s \in Reached :
          \/ /\ stored[s][KeyOf(r)] # NoResponse
             /\ Answer(r, stored[s][KeyOf(r)])
             /\ UNCHANGED batchVars
          \/ /\ stored[s][KeyOf(r)] = NoResponse
             /\ Goto(r, "executing")
             /\ Accept(r)
             /\ UNCHANGED reply
    /\ UNCHANGED <<redis, serving, stored, History>>

StartNext == Start /\ UNCHANGED requestVars

\* Mutant: the last verification keeps its slot until the response is stored.
ItemVerifiedInSlot(r, e) ==
    /\ Verified(r, e)
    /\ Finished(item'[r]) /\ HasKey(r) => Reached # {}
    /\ \/ ~Finished(item'[r]) /\ UNCHANGED <<phase, reply>>
       \/ Finished(item'[r]) /\ HasKey(r) /\ Goto(r, "storing") /\ UNCHANGED reply
       \/ Finished(item'[r]) /\ ~HasKey(r) /\ Answer(r, Response(r, item'[r]))
    /\ UNCHANGED <<redis, serving, stored, History>>

\* A verification is over; with the last one the response is complete, and stored
\* before it is sent if the request has a key.
ItemVerified(r, e) ==
    /\ Verified(r, e)
    /\ \/ ~Finished(item'[r]) /\ UNCHANGED <<phase, reply>>
       \/ Finished(item'[r]) /\ HasKey(r) /\ Goto(r, "storing") /\ UNCHANGED reply
       \/ Finished(item'[r]) /\ ~HasKey(r) /\ Answer(r, Response(r, item'[r]))
    /\ UNCHANGED <<redis, serving, stored, History>>

\* Mutant: the response is sent before it is stored, and the store is not waited for.
SavedNowhere(r) ==
    /\ phase[r] = "storing"
    /\ Answer(r, Response(r, item[r]))
    /\ UNCHANGED <<redis, serving, stored, History, batchVars>>

\* idempotencyStoreSuccessIfNeeded resumes.  A write that Redis made but did not
\* confirm is made in memory as well.
Saved(r) ==
    /\ phase[r] = "storing"
    /\ \E made \in (SUBSET Reached) \ {{}} :
          stored' = [s \in Store |-> IF s \in made
                                    THEN [stored[s] EXCEPT ![KeyOf(r)] = Response(r, item[r])]
                                    ELSE stored[s]]
    /\ Answer(r, Response(r, item[r]))
    /\ UNCHANGED <<redis, serving, History, batchVars>>

-----------------------------------------------------------------------------
(* Around the requests *)

\* A Redis that worked stops answering, without closing its connections, and does not
\* come back.
Stall ==
    /\ redis = "up" /\ "silent" \in RedisModes
    /\ redis' = "silent"
    /\ UNCHANGED <<serving, phase, stored, reply, History, batchVars>>

\* A stored response reaches its lifetime, or is evicted at the size limit.
Forget(s, k) ==
    /\ stored[s][k] # NoResponse
    /\ stored' = [stored EXCEPT ![s][k] = NoResponse]
    /\ forgotten' = forgotten \cup {k}
    /\ UNCHANGED <<redis, serving, phase, reply, retry, batchVars>>

\* The process ends and another one starts: requests in flight are cut off and the
\* memory store is empty.
Exit ==
    /\ serving' = TRUE
    /\ phase' = [r \in Request |-> IF phase[r] \in InFlight THEN "cut" ELSE phase[r]]
    /\ item' = [r \in Request |-> [e \in Email |-> "none"]]
    /\ line' = <<>>
    /\ stored' = [stored EXCEPT !["memory"] = [k \in Key |-> NoResponse]]
    /\ forgotten' = forgotten \cup {k \in Key : stored["memory"][k] # NoResponse}
    /\ UNCHANGED <<redis, reply, retry>>

NothingInFlight == \A r \in Request : phase[r] \notin InFlight

\* shutdown, on SIGTERM or SIGINT: a second signal does nothing.
Signal ==
    /\ serving
    /\ serving' = FALSE
    /\ UNCHANGED <<redis, phase, stored, reply, History, batchVars>>

\* app.close has waited for the requests, or the grace period is over and their
\* connections are closed; then process.exit.
Drained == ~serving /\ NothingInFlight /\ Exit
GraceOver == ~serving /\ ~NothingInFlight /\ Exit

Crash == Exit

Init ==
    /\ BatchInit
    /\ redis \in RedisModes \ {"silent"}
    /\ serving = TRUE
    /\ phase = [r \in Request |-> "new"]
    /\ stored = [s \in Store |-> [k \in Key |-> NoResponse]]
    /\ reply = [r \in Request |-> NoResponse]
    /\ retry = {}
    /\ forgotten = {}

Step(r) ==
    \/ LookedUp(r)
    \/ \E e \in Email : ItemVerified(r, e)
    \/ Saved(r)

Next ==
    \/ \E r \in Request : Held(r) \/ Post(r) \/ Step(r)
    \/ StartNext
    \/ Stall
    \/ \E s \in Store, k \in Key : Forget(s, k)
    \/ Signal
    \/ Drained
    \/ GraceOver
    \/ Crash

\* The event loop runs what is ready, every verification ends (its sessions and
\* lookups are under timers) and so does every call to a Redis that is not silent,
\* with an answer or an error.  LookedUp and Saved are not enabled while it is silent:
\* nothing times those calls.  Nothing is assumed of clients, signals or crashes, nor
\* of the order in which what is ready is run.
Fairness == WF_vars(\E r \in Request : Step(r)) /\ WF_vars(StartNext)

Spec == Init /\ [][Next]_vars /\ Fairness

-----------------------------------------------------------------------------
(* Properties *)

Executed(r) == \E e \in Email : item[r][e] # "none"

\* The types of the variables; a request executes exactly while it has verifications
\* left, and none is left behind when it is over.
TypeOK ==
    /\ item \in [Request -> [Email -> ItemState]]
    /\ redis \in RedisModes
    /\ serving \in BOOLEAN
    /\ phase \in [Request -> Phase]
    /\ \A r \in Request : phase[r] = "executing" <=> \E e \in Email : item[r][e] \in Unfinished
    /\ \A r \in Request : Executed(r) => phase[r] \in {"executing", "storing", "answered"}
    /\ retry \subseteq Request /\ forgotten \subseteq Key

\* Every request is answered with its own results: one per row, in order, with the
\* options of the first row of the address, found out by a request of the same
\* tenant with the same header, path and body (docs/API.md, section on idempotency).
\* Neither duplicate rows, nor another request under way, nor a store that fails in
\* between mixes them up.
AnswersAreOwn ==
    \A r \in Request : phase[r] = "answered" =>
        /\ DOMAIN reply[r] = RowIds(r)
        /\ \A i \in RowIds(r) :
              LET x == reply[r][i]
                  first == {j \in RowIds(r) : j <= i /\ IsRowOf(r, j, x.email)}
              IN  /\ IsRowOf(r, i, x.email)
                  /\ x.result = "done"
                  /\ \E j \in first : x.opts = RowsOf[r][j].opts /\ \A k \in first : j <= k
                  /\ x.by = r \/ /\ HasKey(r)
                                 /\ HeadOf[x.by] = HeadOf[r] /\ RowsOf[x.by] = RowsOf[r]

\* A retry sent after an answer is not executed again while that answer is kept:
\* with Redis out for the whole time, or working for as long as it answers, and then
\* across crashes.
\* Requests that overlap are both executed, and when Redis fails now and then the
\* answer is looked for where it was not put; docs/API.md:142 promises the same
\* body without saying so.
RetriesAreReplayed ==
    \A r \in retry :
        redis # "flaky" /\ KeyOf(r) \notin forgotten => ~Executed(r)

\* Waiting for a Redis that does not answer: at the rate limiter, or with a key.
WaitsForRedis(r) ==
    /\ redis = "silent"
    /\ phase[r] = "held" \/ (HasKey(r) /\ phase[r] \in {"looking", "storing"})

\* Every request comes to an end, whatever the limiters, the other requests and a
\* shutdown do, or waits for a Redis that fell silent.  Such a Redis holds up only the
\* requests that ask it: they hold no slot of a limiter, so a request that executes goes
\* on all the same.
EveryRequestEnds ==
    \A r \in Request :
        phase[r] \in InFlight ~> phase[r] \notin InFlight \/ WaitsForRedis(r)

=============================================================================
