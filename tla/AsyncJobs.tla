-------------------------------- MODULE AsyncJobs --------------------------------
(***************************************************************************)
(* The in-process queue behind POST /v1/verify/jobs                        *)
(* (services/async-verify-jobs.service.ts): a Map of jobs, a queue of      *)
(* their ids, a flag, and a pump that is scheduled with setImmediate and   *)
(* works off one job at a time, webhook included.                          *)
(***************************************************************************)
EXTENDS Integers, Sequences, FiniteSets

CONSTANTS
    Id,           \* job identifiers (randomBytes: never drawn twice)
    Max,          \* ASYNC_JOBS_MAX
    HasSecret     \* a webhook secret is configured

ASSUME JobsAssumption == Max \in Nat \ {0} /\ HasSecret \in BOOLEAN

VARIABLES
    status,    \* job -> "new", the field of the same name, "evicted" or "lost"
    born,      \* job -> its place in the Map's insertion order (createdAt)
    url,       \* the jobs with a callbackUrl
    queue,     \* queue
    running,   \* running
    task,      \* the job the pump's task works on, as a set of at most one
    at,        \* what it awaits: "verify", "webhook", "posted"; or "idle"
    pumps,     \* pumps scheduled with setImmediate
    told       \* the jobs whose callback received the POST

vars == <<status, born, url, queue, running, task, at, pumps, told>>

Terminal == {"completed", "failed"}
Status == {"new", "pending", "processing", "evicted", "lost"} \cup Terminal

Stored == {i \in Id : status[i] \in {"pending", "processing"} \cup Terminal}
Finished == {i \in Id : status[i] \in Terminal}

-----------------------------------------------------------------------------

\* Mutant: what is evicted is the oldest job, answered or not.
VictimsAny ==
    {i \in Stored :
        Cardinality(Stored) - Cardinality({j \in Stored : born[j] < born[i]}) >= Max}

\* evictOldTerminalIfNeeded: the loop takes the oldest answer until there is
\* room, or no answer is left.
Victims ==
    {i \in Finished :
        Cardinality(Stored) - Cardinality({j \in Finished : born[j] < born[i]}) >= Max}

\* Mutant: a full store is not refused.
EnqueueUnchecked(i, withUrl) ==
    /\ status[i] = "new"
    /\ status' = [j \in Id |->
          IF j = i THEN "pending" ELSE IF j \in Victims THEN "evicted" ELSE status[j]]
    /\ born' = [born EXCEPT ![i] = 1 + Cardinality({j \in Id : born[j] # 0})]
    /\ url' = IF withUrl THEN url \cup {i} ELSE url
    /\ queue' = Append(queue, i)
    /\ pumps' = pumps + 1
    /\ UNCHANGED <<running, task, at, told>>

\* enqueueAsyncVerify; a store full of unfinished jobs answers queue_full, which
\* changes nothing.
Enqueue(i, withUrl) ==
    /\ status[i] = "new"
    /\ Cardinality(Stored \ Victims) < Max
    /\ status' = [j \in Id |->
          IF j = i THEN "pending" ELSE IF j \in Victims THEN "evicted" ELSE status[j]]
    /\ born' = [born EXCEPT ![i] = 1 + Cardinality({j \in Id : born[j] # 0})]
    /\ url' = IF withUrl THEN url \cup {i} ELSE url
    /\ queue' = Append(queue, i)
    /\ pumps' = pumps + 1
    /\ UNCHANGED <<running, task, at, told>>

Start(i) ==
    /\ status' = [status EXCEPT ![i] = "processing"]
    /\ running' = TRUE
    /\ task' = {i}
    /\ at' = "verify"
    /\ pumps' = pumps - 1

\* An id without a pending job is dropped, and the pump is scheduled again.
Skip == UNCHANGED <<status, running, task, at, pumps>>

\* pump
Pump ==
    /\ pumps > 0
    /\ \/ /\ running \/ queue = <<>>
          /\ pumps' = pumps - 1
          /\ UNCHANGED <<status, queue, running, task, at>>
       \/ /\ ~running
          /\ queue # <<>>
          /\ queue' = Tail(queue)
          /\ IF status[Head(queue)] = "pending" THEN Start(Head(queue)) ELSE Skip
    /\ UNCHANGED <<born, url, told>>

\* verifyOne returns or throws.
Verified ==
    /\ at = "verify"
    /\ \E i \in task, s \in Terminal : status' = [status EXCEPT ![i] = s]
    /\ at' = "webhook"
    /\ UNCHANGED <<born, url, queue, running, task, pumps, told>>

\* postWebhook: the POST arrives at the callback.
PostArrives ==
    /\ at = "webhook"
    /\ HasSecret
    /\ task \subseteq url
    /\ told' = told \cup task
    /\ at' = "posted"
    /\ UNCHANGED <<status, born, url, queue, running, task, pumps>>

\* Mutant: the end of a task schedules nothing.
TaskEndsUnscheduled ==
    /\ at \in {"webhook", "posted"}
    /\ running' = FALSE
    /\ task' = {}
    /\ at' = "idle"
    /\ UNCHANGED <<status, born, url, queue, pumps, told>>

\* Mutant: the flag is cleared only when a job is waiting.
TaskEndsBusy ==
    /\ at \in {"webhook", "posted"}
    /\ running' = (queue = <<>>)
    /\ task' = {}
    /\ at' = "idle"
    /\ pumps' = IF queue # <<>> THEN pumps + 1 ELSE pumps
    /\ UNCHANGED <<status, born, url, queue, told>>

\* postWebhook has returned: the callback answered, the POST failed and was
\* logged, or none was made.
TaskEnds ==
    /\ at \in {"webhook", "posted"}
    /\ running' = FALSE
    /\ task' = {}
    /\ at' = "idle"
    /\ pumps' = IF queue # <<>> THEN pumps + 1 ELSE pumps
    /\ UNCHANGED <<status, born, url, queue, told>>

\* The process exits and is started again; nothing of the queue is on disk.
Restart ==
    /\ status' = [i \in Id |-> IF i \in Stored THEN "lost" ELSE status[i]]
    /\ queue' = <<>>
    /\ running' = FALSE
    /\ task' = {}
    /\ at' = "idle"
    /\ pumps' = 0
    /\ UNCHANGED <<born, url, told>>

Init ==
    /\ status = [i \in Id |-> "new"]
    /\ born = [i \in Id |-> 0]
    /\ url = {}
    /\ queue = <<>>
    /\ running = FALSE
    /\ task = {}
    /\ at = "idle"
    /\ pumps = 0
    /\ told = {}

Next ==
    \/ \E i \in Id, withUrl \in BOOLEAN : Enqueue(i, withUrl)
    \/ Pump
    \/ Verified
    \/ PostArrives
    \/ TaskEnds
    \/ Restart

\* setImmediate callbacks run, every verification ends (its sleeps, probes and
\* sessions are bounded by timers) and fetch is under AbortSignal.timeout.
Fairness == WF_vars(Pump) /\ WF_vars(Verified) /\ WF_vars(TaskEnds)

Spec == Init /\ [][Next]_vars /\ Fairness

-----------------------------------------------------------------------------
(* Properties *)

InQueue == {queue[n] : n \in DOMAIN queue}

\* The types of the variables, and the flag agrees with what is awaited.
TypeOK ==
    /\ status \in [Id -> Status]
    /\ born \in [Id -> Nat]
    /\ url \in SUBSET Id
    /\ queue \in Seq(Id)
    /\ running \in BOOLEAN
    /\ task \in SUBSET Id
    /\ at \in {"idle", "verify", "webhook", "posted"}
    /\ pumps \in Nat
    /\ told \in SUBSET url
    /\ running <=> at # "idle"
    /\ running <=> task # {}

\* The queue holds exactly the pending jobs, in the order of acceptance: an
\* eviction never leaves a dangling id behind, so the branch of pump that skips
\* one is never taken.
QueueHoldsPending ==
    /\ InQueue = {i \in Id : status[i] = "pending"}
    /\ \A m, n \in DOMAIN queue : m < n => born[queue[m]] < born[queue[n]]

\* No wakeup is lost: while jobs wait, a pump is scheduled or the task that will
\* schedule one is running.
PumpScheduled == queue # <<>> => running \/ pumps > 0

\* Every accepted job is answered, unless the process exits first.
EveryJobAnswered ==
    \A i \in Id : status[i] = "pending" ~> status[i] \in Terminal \cup {"evicted", "lost"}

\* The queue implements the abstract store: one job at a time, first come first
\* served, never more than Max jobs, only answers are evicted, the oldest first,
\* and no callback is called twice or before there is an answer.
Store == INSTANCE JobStore WITH Id <- Id, Max <- Max, status <- status, born <- born, told <- told
ImplementsStore == Store!Spec

=============================================================================
