------------------------------- MODULE SmtpProbe -------------------------------
(***************************************************************************)
(* One RCPT probe over the MX hosts of a domain (probeRcptUnscoped in      *)
(* services/smtp.service.ts): which host gets a session next, when a       *)
(* session is retried, which answer is returned, and what is recorded      *)
(* about the failure.  A session is one step; SmtpSession looks inside.    *)
(***************************************************************************)
EXTENDS SmtpReply, Sequences

CONSTANTS
    Replies,    \* what the hosts may reply
    MaxHosts,   \* bound: the longest MX list
    Retries,    \* SMTP_RETRIES
    MaxExtra    \* MX_RCPT_TRANSIENT_FALLBACK_MAX_EXTRA

ASSUME ProbeAssumption ==
    /\ Replies \subseteq Reply
    /\ MaxHosts \in Nat \ {0} /\ Retries \in Nat /\ MaxExtra \in Nat

\* RcptResult: a reply, or a failure.
Rcpt(r) == [kind |-> "rcpt", reply |-> r]
MxFail(error, errno) == [kind |-> "mx_fail", error |-> error, errno |-> errno]
NoResult == [kind |-> "none"]
Result == {Rcpt(r) : r \in Replies} \cup {MxFail(f.error, f.errno) : f \in Failure}

\* The loop tells these apart: a reply that may or may not be passed over, a
\* failure the session returned, and those it threw, by the errno list of the
\* catch clause.
Answers == {"final", "transient"}
Failures == {"protocol", "timeout", "listed", "unlisted"}

OutcomeOf(x) ==
    CASE x.kind = "rcpt" -> IF SuitableForNextMx(x.reply) THEN "transient" ELSE "final"
      [] x.kind = "mx_fail" /\ x.error = "connect" ->
            IF x.errno \in Listed THEN "listed" ELSE "unlisted"
      [] OTHER -> x.error

Session == [host : 1 .. MaxHosts, out : Answers \cup Failures]

NoJob == [hosts |-> 0, big |-> FALSE, hop |-> FALSE]

VARIABLES
    job,       \* {hosts, big, hop}: length of the MX list, whether the provider
               \* is throttled, whether a transient answer may try the next MX
    mxi,       \* host in turn
    attempt,   \* retries made on it
    hops,      \* extraTransientHops
    pc,        \* "idle"; "open": a session runs; "done": the probe returned
    result,    \* what it returned
    recorded,  \* the kind given to recordSmtpNetworkFailure
    health,    \* the host whose failure setMxHealthCache was told (0: none)
    log        \* the sessions so far

probeVars == <<job, mxi, attempt, hops, pc, result, recorded, health, log>>

Last(s) == s[Len(s)]

-----------------------------------------------------------------------------

\* The session in turn ends in x.
Ends(x) ==
    /\ pc = "open"
    /\ log' = Append(log, [host |-> mxi, out |-> OutcomeOf(x)])
    /\ UNCHANGED job

Return(x) ==
    /\ pc' = "done"
    /\ result' = x
    /\ UNCHANGED <<mxi, attempt, hops>>

\* return lastFail inside the catch clause: nothing is recorded.
GiveUp(x) == Return(x) /\ UNCHANGED <<recorded, health>>

\* The end of the loop: the failure of the last host is recorded.
Conclude(x) ==
    /\ Return(x)
    /\ health' = mxi
    /\ recorded' = IF ~job.big THEN "none" ELSE IF x.error = "timeout" THEN "timeout" ELSE "connect"

LastHost == mxi = job.hosts

NextHost ==
    /\ ~LastHost
    /\ mxi' = mxi + 1
    /\ attempt' = 0
    /\ UNCHANGED <<hops, pc, result, recorded, health>>

\* Mutant: the attempt counter is compared after the retry it allows.
RetryOnceMore ==
    /\ attempt <= Retries
    /\ attempt' = attempt + 1
    /\ UNCHANGED <<mxi, hops, pc, result, recorded, health>>

RetryHost ==
    /\ attempt < Retries
    /\ attempt' = attempt + 1
    /\ UNCHANGED <<mxi, hops, pc, result, recorded, health>>

\* Mutant: a definite answer is passed over as well.
MayHopOnAny(r) == job.hop /\ ~LastHost /\ hops < MaxExtra

\* allowTransientMx, isTransientRcptSuitableForNextMx, canTryAnotherMxForTransient
MayHop(r) == job.hop /\ SuitableForNextMx(r) /\ ~LastHost /\ hops < MaxExtra

Answered(r) ==
    /\ ~NoReplyClass(r)
    /\ ~MayHop(r)
    /\ Ends(Rcpt(r))
    /\ Return(Rcpt(r))
    /\ UNCHANGED <<recorded, health>>

\* continue mx
HopToNextMx(r) ==
    /\ ~NoReplyClass(r)
    /\ MayHop(r)
    /\ Ends(Rcpt(r))
    /\ mxi' = mxi + 1
    /\ attempt' = 0
    /\ hops' = hops + 1
    /\ UNCHANGED <<pc, result, recorded, health>>

\* mx_fail returned by the session: the host closed early, greeted with other than
\* 220, refused HELO, or replied with no known code.  The next host, or a retry on
\* the last one.
ProtocolFailure ==
    LET x == MxFail("protocol", "none")
    IN  /\ Ends(x)
        /\ \/ NextHost
           \/ LastHost /\ RetryHost
           \/ LastHost /\ attempt >= Retries /\ Conclude(x)

\* Mutant: the last retry of a host gives up instead of moving on.
TimedOutGivesUp ==
    LET x == MxFail("timeout", "none")
    IN  /\ Ends(x)
        /\ \/ RetryHost
           \/ attempt >= Retries /\ GiveUp(x)

\* TimeoutError: retries on the same host come before the next host.
TimedOut ==
    LET x == MxFail("timeout", "none")
    IN  /\ Ends(x)
        /\ \/ RetryHost
           \/ attempt >= Retries /\ NextHost
           \/ attempt >= Retries /\ LastHost /\ GiveUp(x)

\* Any other error of the connection: those on the list end the host, and the
\* rest are returned from the last one.
ListedError(errno) ==
    LET x == MxFail("connect", errno)
    IN  /\ errno \in Listed
        /\ Ends(x)
        /\ \/ NextHost
           \/ LastHost /\ Conclude(x)

\* Mutant: an unlisted error is retried on the last host.
OtherErrorRetried(errno) ==
    /\ errno \notin Listed
    /\ Ends(MxFail("connect", errno))
    /\ \/ NextHost
       \/ LastHost /\ RetryHost

OtherError(errno) ==
    LET x == MxFail("connect", errno)
    IN  /\ errno \notin Listed
        /\ Ends(x)
        /\ \/ NextHost
           \/ LastHost /\ GiveUp(x)

ProbeInit ==
    /\ job = NoJob
    /\ mxi = 1
    /\ attempt = 0
    /\ hops = 0
    /\ pc = "idle"
    /\ result = NoResult
    /\ recorded = "none"
    /\ health = 0
    /\ log = <<>>

\* probeRcpt is called with at least one host, and may hop only for a provider
\* that is not throttled (verification.service.ts:519).
Probe(j) ==
    /\ pc = "idle"
    /\ j.hosts > 0 /\ ~(j.big /\ j.hop)
    /\ pc' = "open"
    /\ job' = j
    /\ UNCHANGED <<mxi, attempt, hops, result, recorded, health, log>>

SessionEnds ==
    \/ \E r \in Replies : Answered(r) \/ HopToNextMx(r)
    \/ ProtocolFailure
    \/ TimedOut
    \/ \E errno \in Errno : ListedError(errno) \/ OtherError(errno)

-----------------------------------------------------------------------------
(* Properties *)

\* The types of the variables.
ProbeTypeOK ==
    /\ job \in [hosts : 0 .. MaxHosts, big : BOOLEAN, hop : BOOLEAN]
    /\ mxi \in 1 .. MaxHosts /\ (pc # "idle" => mxi <= job.hosts)
    /\ attempt \in 0 .. Retries
    /\ hops \in 0 .. MaxExtra
    /\ pc \in {"idle", "open", "done"}
    /\ result \in Result \cup {NoResult}
    /\ recorded \in {"none", "timeout", "connect"}
    /\ health \in 0 .. MaxHosts
    /\ log \in Seq(Session)

\* A definite answer is never passed over: when one arrives it is returned at
\* once, and what is returned is the outcome of the last session, never that of
\* a host tried earlier.
AnswerIsReturned ==
    /\ \A i \in DOMAIN log : log[i].out = "final" => i = Len(log) /\ pc = "done"
    /\ pc = "done" => OutcomeOf(result) = Last(log).out

\* No MX is skipped and none is asked twice for what it answered: hosts are
\* tried in order without a gap, and only a timeout, or a protocol failure of
\* the last host, opens a second session on the same host.
HostsInOrder ==
    \A i \in 2 .. Len(log) :
        LET before == log[i - 1]
        IN  \/ log[i].host = before.host + 1
            \/ /\ log[i].host = before.host
               /\ \/ before.out = "timeout"
                  \/ before.out = "protocol" /\ before.host = job.hosts

\* A failed probe has tried every host of the list.
AllHostsTried ==
    pc = "done" /\ result.kind = "mx_fail" => Last(log).host = job.hosts

\* A probe opens a bounded number of sessions per host, and passes over at most
\* MaxExtra transient answers.
SessionsBounded ==
    /\ \A i \in DOMAIN log : i > Retries + 1 => log[i].host # log[i - (Retries + 1)].host
    /\ hops <= MaxExtra

\* A probe of a throttled provider that timed out is recorded as such: repeated
\* SMTP timeouts are to apply a cooldown (provider-cooldown.service.ts:14,
\* README.md section 11).  The code does not keep this.
TimeoutsAreRecorded ==
    pc = "done" /\ job.big /\ OutcomeOf(result) = "timeout" => recorded = "timeout"

=============================================================================
