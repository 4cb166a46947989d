----------------------------- MODULE DisposableList -----------------------------
(***************************************************************************)
(* The list of disposable domains: the daily job that merges the upstream  *)
(* lists into a file and reloads it (jobs/disposable-list-scheduler.ts,    *)
(* jobs/mergeDisposableDomainSources.ts), the CLI that does the same merge *)
(* in a process of its own (cli/update-disposable-list.ts), and the        *)
(* verifications that read the set (services/disposable.service.ts).       *)
(*                                                                         *)
(* The set is cleared at once and filled across awaits, the file is        *)
(* truncated and rewritten across awaits, and mergeChain orders the merges *)
(* of one process only.  A list is a set of domains; of the header only    *)
(* the date matters.  One verification at a time is followed.              *)
(***************************************************************************)
EXTENDS Integers, FiniteSets

CONSTANTS
    Lists,        \* what the two upstream lists may add up to
    Extra,        \* the domains of DISPOSABLE_LIST_PATH
    Load,         \* readDisposableFiles calls that may be under way together
    MaxQueued,    \* bound: merges of the server waiting for the one under way
    MaxChanges,   \* bound: changes upstream
    MaxCliRuns,   \* bound: runs of the CLI
    MaxRestarts   \* bound: restarts of the server

ASSUME ListAssumption ==
    /\ Lists # {} /\ Load # {}
    /\ {MaxQueued, MaxChanges, MaxCliRuns, MaxRestarts} \subseteq Nat

VARIABLES
    upstream,     \* what upstream publishes
    ticked,       \* the job of today has been started
    file,         \* disposable-domains.txt: {list, today, whole}
    clobbered,    \* both processes have written into it since it was truncated
    merge,        \* process -> its merge under way: {step, list}
    queued,       \* merges of the server behind it, in mergeChain
    fileLoaded,   \* the set in memory
    load,         \* call -> the file it is reading
    spoiled,      \* call -> the file was not whole at some time since it started
    current,      \* the call behind loadFilePromise
    awaiting,     \* the call the verification waits for; NoLoad if none
    seen,         \* the set it has just read, as <<{list, tainted}>>; else <<>>
    tainted,      \* history: fileLoaded holds what a spoiled or overtaken call read
    spent         \* how much of each bound is used up

serverVars == <<fileLoaded, load, spoiled, current, awaiting, seen, tainted>>
mergeVars == <<file, clobbered, merge, queued>>
vars == <<upstream, ticked, serverVars, mergeVars, spent>>

Process == {"server", "cli"}
NoLoad == "none"
Domain == (UNION Lists) \cup Extra
Other(p) == CHOOSE q \in Process : q # p

Torn == [list |-> {}, today |-> FALSE, whole |-> FALSE]
Idle == [step |-> "none", list |-> {}]
Fetching == [step |-> "fetching", list |-> {}]

Spend(what, bound) == spent[what] < bound /\ spent' = [spent EXCEPT ![what] = @ + 1]
Writing(p) == merge[p].step = "writing"

-----------------------------------------------------------------------------
(* disposable.service: reading the files *)

Busy(i) == load[i] # "none"

\* Mutant: verifications do not wait for a reload.
StartLoadUnannounced(i) ==
    /\ fileLoaded' = {}
    /\ load' = [load EXCEPT ![i] = "data"]
    /\ spoiled' = [spoiled EXCEPT ![i] = ~file'.whole]
    /\ current' = current
    /\ tainted' = \E j \in Load : Busy(j)

\* readDisposableFiles up to its first await, behind a new loadFilePromise.
StartLoad(i) ==
    /\ fileLoaded' = {}
    /\ load' = [load EXCEPT ![i] = "data"]
    /\ spoiled' = [spoiled EXCEPT ![i] = ~file'.whole]
    /\ current' = i
    /\ tainted' = \E j \in Load : Busy(j)

\* The list of the data directory has been read; a file that was written meanwhile
\* gives any part of it, and perhaps a line that is cut short.
ReadData(i) ==
    /\ load[i] = "data"
    /\ \E got \in IF spoiled[i] THEN SUBSET Domain ELSE {file.list} :
          fileLoaded' = fileLoaded \cup got
    /\ load' = [load EXCEPT ![i] = "extra"]
    /\ tainted' = (tainted \/ spoiled[i])
    /\ seen' = <<>>
    /\ UNCHANGED <<upstream, ticked, spoiled, current, awaiting, mergeVars, spent>>

Reading(set) == seen' = <<[list |-> set, tainted |-> tainted]>>

\* The file of the operator has been read.  The verification that waits for this call
\* runs before anything else does.
ReadExtra(i) ==
    /\ load[i] = "extra"
    /\ fileLoaded' = fileLoaded \cup Extra
    /\ load' = [load EXCEPT ![i] = "none"]
    /\ IF awaiting = i
       THEN awaiting' = NoLoad /\ Reading(fileLoaded')
       ELSE awaiting' = awaiting /\ seen' = <<>>
    /\ UNCHANGED <<upstream, ticked, spoiled, current, tainted, mergeVars, spent>>

\* verifyOne: ensureDisposableListLoaded, then isDisposableDomainSync.
Verify ==
    /\ awaiting = NoLoad
    /\ IF Busy(current)
       THEN awaiting' = current /\ seen' = <<>>
       ELSE awaiting' = NoLoad /\ Reading(fileLoaded)
    /\ UNCHANGED <<upstream, ticked, fileLoaded, load, spoiled, current, tainted, mergeVars, spent>>

-----------------------------------------------------------------------------
(* mergeDisposableDomainSources *)

\* Mutant: a merge that fails leaves the chain rejected.
MergeFailedForGood(p) == merge' = [merge EXCEPT ![p] = Idle] /\ queued' = queued

\* The next merge in the chain of the process, if there is one.
MergeOver(p) ==
    \/ /\ p = "server" /\ queued > 0
       /\ merge' = [merge EXCEPT ![p] = Fetching]
       /\ queued' = queued - 1
    \/ /\ p = "cli" \/ queued = 0
       /\ merge' = [merge EXCEPT ![p] = Idle]
       /\ queued' = queued

MergeFailed(p) == MergeOver(p)

\* Promise.all over the sources: one that fails ends the merge.
FetchFails(p) ==
    /\ merge[p].step = "fetching"
    /\ MergeFailed(p)
    /\ seen' = <<>>
    /\ UNCHANGED <<upstream, ticked, file, clobbered, fileLoaded, load, spoiled, current, awaiting,
                   tainted, spent>>

Fetched(p) ==
    /\ merge[p].step = "fetching"
    /\ merge' = [merge EXCEPT ![p] = [step |-> "comparing", list |-> upstream]]
    /\ seen' = <<>>
    /\ UNCHANGED <<upstream, ticked, file, clobbered, queued, fileLoaded, load, spoiled, current,
                   awaiting, tainted, spent>>

\* Mutant: the header carries no date.
SameDomains(domains) == file.whole /\ file.list = domains

\* digest(previous) = digest(body): the header carries the date of the merge.
SameBody(domains) == file.whole /\ file.list = domains /\ file.today

\* previous has been read: nothing to do, or the file is to be written.
Compared(p) ==
    /\ merge[p].step = "comparing"
    /\ \/ SameBody(merge[p].list) /\ MergeOver(p)
       \/ /\ ~SameBody(merge[p].list)
          /\ merge' = [merge EXCEPT ![p].step = "opening"]
          /\ UNCHANGED queued
    /\ seen' = <<>>
    /\ UNCHANGED <<upstream, ticked, file, clobbered, fileLoaded, load, spoiled, current, awaiting,
                   tainted, spent>>

\* writeFile opens the file and truncates it.
Opened(p) ==
    /\ merge[p].step = "opening"
    /\ merge' = [merge EXCEPT ![p].step = "writing"]
    /\ file' = Torn
    /\ clobbered' = Writing(Other(p))
    /\ spoiled' = [i \in Load |-> spoiled[i] \/ load[i] = "data"]
    /\ seen' = <<>>
    /\ UNCHANGED <<upstream, ticked, queued, fileLoaded, load, current, awaiting, tainted, spent>>

\* What the file is when p has written its last byte.
FileAfter(p) ==
    LET body == [list |-> merge[p].list, today |-> TRUE, whole |-> TRUE]
    IN  CASE Writing(Other(p)) -> {Torn}
          [] ~Writing(Other(p)) /\ clobbered -> {Torn, body}
          [] OTHER -> {body}

\* writeFile is done; the job of the server reloads the file.
Written(p) ==
    /\ Writing(p)
    /\ file' \in FileAfter(p)
    /\ clobbered' = (clobbered /\ Writing(Other(p)))
    /\ MergeOver(p)
    /\ \/ p = "server" /\ \E i \in Load : ~Busy(i) /\ StartLoad(i)
       \/ p = "cli" /\ UNCHANGED <<fileLoaded, load, spoiled, current, tainted>>
    /\ seen' = <<>>
    /\ UNCHANGED <<upstream, ticked, awaiting, spent>>

-----------------------------------------------------------------------------
(* What starts merges, and what ends processes *)

\* node-cron, once a day.
Tick ==
    /\ ~ticked /\ ticked' = TRUE
    /\ \/ /\ merge["server"] = Idle
          /\ merge' = [merge EXCEPT !["server"] = Fetching]
          /\ UNCHANGED queued
       \/ /\ merge["server"] # Idle /\ queued < MaxQueued
          /\ queued' = queued + 1
          /\ UNCHANGED merge
    /\ seen' = <<>>
    /\ UNCHANGED <<upstream, file, clobbered, fileLoaded, load, spoiled, current, awaiting, tainted,
                   spent>>

\* npm run update:disposable-list.
CliStarts ==
    /\ merge["cli"] = Idle
    /\ Spend("cli", MaxCliRuns)
    /\ merge' = [merge EXCEPT !["cli"] = Fetching]
    /\ seen' = <<>>
    /\ UNCHANGED <<upstream, ticked, file, clobbered, queued, fileLoaded, load, spoiled, current,
                   awaiting, tainted>>

CliDies ==
    /\ merge["cli"] # Idle
    /\ merge' = [merge EXCEPT !["cli"] = Idle]
    /\ clobbered' = (clobbered \/ (Writing("cli") /\ Writing("server")))
    /\ seen' = <<>>
    /\ UNCHANGED <<upstream, ticked, file, queued, fileLoaded, load, spoiled, current, awaiting,
                   tainted, spent>>

\* The server ends, whatever it was doing, and starts: buildApp reads the files.
Restart(i) ==
    /\ Spend("restarts", MaxRestarts)
    /\ merge' = [merge EXCEPT !["server"] = Idle]
    /\ queued' = 0
    /\ clobbered' = (clobbered \/ (Writing("cli") /\ Writing("server")))
    /\ fileLoaded' = {}
    /\ load' = [j \in Load |-> IF j = i THEN "data" ELSE "none"]
    /\ spoiled' = [j \in Load |-> j = i /\ ~file.whole]
    /\ current' = i
    /\ awaiting' = NoLoad
    /\ tainted' = FALSE
    /\ seen' = <<>>
    /\ UNCHANGED <<upstream, ticked, file>>

Publish ==
    /\ Spend("changes", MaxChanges)
    /\ upstream' \in Lists \ {upstream}
    /\ seen' = <<>>
    /\ UNCHANGED <<ticked, mergeVars, fileLoaded, load, spoiled, current, awaiting, tainted>>

\* Midnight (UTC).  Work on local files does not last until then.
NewDay ==
    /\ ticked /\ ticked' = FALSE
    /\ \A i \in Load : ~Busy(i)
    /\ \A p \in Process : merge[p] \in {Idle, Fetching}
    /\ file' = [file EXCEPT !.today = FALSE]
    /\ seen' = <<>>
    /\ UNCHANGED <<upstream, clobbered, merge, queued, fileLoaded, load, spoiled, current, awaiting,
                   tainted, spent>>

\* The file comes with the repository, and the server has just started.
Init ==
    /\ upstream \in Lists
    /\ ticked = FALSE
    /\ \E l \in Lists : file = [list |-> l, today |-> FALSE, whole |-> TRUE]
    /\ clobbered = FALSE
    /\ merge = [p \in Process |-> Idle]
    /\ queued = 0
    /\ fileLoaded = {}
    /\ current \in Load
    /\ load = [i \in Load |-> IF i = current THEN "data" ELSE "none"]
    /\ spoiled = [i \in Load |-> FALSE]
    /\ awaiting = NoLoad
    /\ seen = <<>>
    /\ tainted = FALSE
    /\ spent = [w \in {"cli", "restarts", "changes"} |-> 0]

Work(p) == FetchFails(p) \/ Fetched(p) \/ Compared(p) \/ Opened(p) \/ Written(p)
LoadStep(i) == ReadData(i) \/ ReadExtra(i)

Next ==
    \/ \E p \in Process : Work(p)
    \/ \E i \in Load : LoadStep(i) \/ Restart(i)
    \/ Verify
    \/ Tick
    \/ CliStarts
    \/ CliDies
    \/ Publish
    \/ NewDay

\* File operations end, a fetch ends (undici gives up after five minutes), days pass,
\* and upstream can be reached again and again.
Fairness ==
    /\ \A p \in Process : WF_vars(Work(p))
    /\ \A i \in Load : WF_vars(LoadStep(i))
    /\ WF_vars(Tick) /\ WF_vars(NewDay)
    /\ SF_vars(Fetched("server"))

Spec == Init /\ [][Next]_vars /\ Fairness

-----------------------------------------------------------------------------
(* Properties *)

Steps == {"none", "fetching", "comparing", "opening", "writing"}

\* The types of the variables; a merge that waits in the chain waits for one that is
\* under way, also after one has failed.
TypeOK ==
    /\ upstream \in Lists /\ ticked \in BOOLEAN /\ clobbered \in BOOLEAN /\ tainted \in BOOLEAN
    /\ file \in [list : SUBSET Domain, today : BOOLEAN, whole : BOOLEAN]
    /\ merge \in [Process -> [step : Steps, list : SUBSET Domain]]
    /\ queued \in 0 .. MaxQueued
    /\ queued > 0 => merge["server"] # Idle
    /\ fileLoaded \subseteq Domain
    /\ load \in [Load -> {"none", "data", "extra"}]
    /\ spoiled \in [Load -> BOOLEAN]
    /\ current \in Load /\ awaiting \in Load \cup {NoLoad}
    /\ awaiting # NoLoad => Busy(awaiting)

\* A reload goes unnoticed: a verification reads a list that upstream published, with
\* the domains of the operator, whole, although the set is cleared and filled
\* while it runs.  Not so for a list that was read while a process wrote the file, or
\* while another reload was under way.
VerdictsFromWholeLists ==
    seen # <<>> =>
        \/ seen[1].tainted
        \/ \E l \in Lists : seen[1].list = l \cup Extra

\* "the app uses node-cron to fetch both upstream lists, write ... and reload the
\* in-memory set" (README.md:127): once upstream, the CLI and restarts have come to
\* rest the server serves what upstream publishes, whatever was lost on the way: a
\* file left half written, a list read from it, a change that the CLI wrote first and
\* the job of the same day found in place.
ServerCatchesUp == <>[](~Busy(current) => fileLoaded = upstream \cup Extra)

=============================================================================
