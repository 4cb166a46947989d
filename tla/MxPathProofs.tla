------------------------------ MODULE MxPathProofs ------------------------------
(* Theorems about MxPath and the probe in it, for MX lists of any length, any   *)
(* set of replies, and any number of retries, hops and DNS retries.             *)
EXTENDS MxPath, FiniteSetTheorems, TLAPS

-----------------------------------------------------------------------------
(* Invariant of the probe *)

Outcome == Answers \cup Failures

\* Where the search is: every session before the retries of the host in turn was with
\* an earlier host.
SearchIsOrdered ==
    /\ \A i \in DOMAIN log : log[i].host <= mxi
    /\ pc = "open" => \A i \in DOMAIN log : i <= Len(log) - attempt => log[i].host < mxi

\* Why there is another session: the last one gave no definite answer, and either it
\* was with the host before, or it is repeated.
SearchGoesOn ==
    pc = "open" /\ log # <<>> =>
        /\ Last(log).out # "final"
        /\ \/ mxi = Last(log).host + 1
           \/ /\ mxi = Last(log).host
              /\ \/ Last(log).out = "timeout"
                 \/ Last(log).out = "protocol" /\ mxi = job.hosts

\* Before the probe starts nothing has happened, and when it is over something has.
ProbeIsFresh ==
    /\ pc = "idle" => log = <<>> /\ mxi = 1 /\ attempt = 0 /\ result = NoResult
    /\ pc = "done" => log # <<>> /\ result \in Result

ProbeInv ==
    /\ ProbeTypeOK
    /\ ProbeIsFresh
    /\ SearchIsOrdered
    /\ SearchGoesOn
    /\ AnswerIsReturned
    /\ HostsInOrder
    /\ AllHostsTried
    /\ SessionsBounded

-----------------------------------------------------------------------------
(* What a session does to the search *)

\* The search ends with x.
Stops(x) ==
    /\ pc' = "done" /\ result' = x
    /\ UNCHANGED <<mxi, attempt, hops>>
    /\ x.kind = "mx_fail" => mxi = job.hosts

\* The search moves on to the next host.
MovesOn(o) ==
    /\ o # "final" /\ mxi # job.hosts
    /\ mxi' = mxi + 1 /\ attempt' = 0 /\ hops' \in 0 .. MaxExtra
    /\ UNCHANGED <<pc, result>>

\* The host gets another session.
Repeats(o) ==
    /\ o = "timeout" \/ (o = "protocol" /\ mxi = job.hosts)
    /\ attempt < Retries /\ attempt' = attempt + 1
    /\ UNCHANGED <<mxi, hops, pc, result>>

\* The outcome of a session that failed is the kind of its failure.
LEMMA FailureOutcomes ==
    /\ OutcomeOf(MxFail("protocol", "none")) = "protocol"
    /\ OutcomeOf(MxFail("timeout", "none")) = "timeout"
    /\ \A e \in Errno : OutcomeOf(MxFail("connect", e)) =
                            IF e \in Listed THEN "listed" ELSE "unlisted"
    /\ \A error \in {"connect", "timeout", "protocol"}, e \in Errno : MxFail(error, e) \in Result
    /\ \A error, e : MxFail(error, e).kind = "mx_fail"
    /\ "none" \in Errno
    <1>1. ASSUME NEW error \in {"connect", "timeout", "protocol"}, NEW e \in Errno
          PROVE  MxFail(error, e) \in Result
        <2> DEFINE f == [error |-> error, errno |-> e]
        <2>1. f \in Failure /\ f.error = error /\ f.errno = e
            BY <1>1 DEF Failure
        <2>2. QED
            BY <2>1 DEF Result
    <1>2. "none" \in Errno
        BY DEF Errno
    <1>3. QED
        BY <1>1, <1>2 DEF OutcomeOf, MxFail

\* The outcome of a session with a reply is whether it may be passed over.
LEMMA ReplyOutcomes ==
    ASSUME NEW r \in Replies
    PROVE  /\ OutcomeOf(Rcpt(r)) = IF SuitableForNextMx(r) THEN "transient" ELSE "final"
           /\ Rcpt(r) \in Result /\ Rcpt(r).kind = "rcpt" /\ Rcpt(r).reply = r
    BY DEF OutcomeOf, Rcpt, Result

\* Whatever the session did, it was logged, and the search ends, moves on or repeats.
LEMMA SessionSteps ==
    ASSUME ProbeInv, SessionEnds
    PROVE  \E x \in Result :
              /\ Ends(x)
              /\ OutcomeOf(x) \in Outcome
              /\ Stops(x) \/ MovesOn(OutcomeOf(x)) \/ Repeats(OutcomeOf(x))
    <1>0. hops \in 0 .. MaxExtra /\ MaxExtra \in Nat
        BY ProbeAssumption DEF ProbeInv, ProbeTypeOK
    <1>1. CASE \E r \in Replies : Answered(r) \/ HopToNextMx(r)
        <2>1. PICK r \in Replies : Answered(r) \/ HopToNextMx(r)
            BY <1>1
        <2>2. CASE Answered(r)
            BY <2>2, ReplyOutcomes DEF Answered, Return, Stops, Outcome, Answers
        <2>3. CASE HopToNextMx(r)
            <3>1. SuitableForNextMx(r) /\ mxi # job.hosts /\ hops < MaxExtra
                BY <2>3 DEF HopToNextMx, MayHop, LastHost
            <3>2. hops' \in 0 .. MaxExtra
                BY <1>0, <2>3, <3>1 DEF HopToNextMx
            <3>3. QED
                BY <2>3, <3>1, <3>2, ReplyOutcomes DEF HopToNextMx, MovesOn, Outcome, Answers
        <2>4. QED
            BY <2>1, <2>2, <2>3
    <1>2. CASE ProtocolFailure
        BY <1>0, <1>2, FailureOutcomes
        DEF ProtocolFailure, NextHost, LastHost, RetryHost, Conclude, Return, Stops, MovesOn,
            Repeats, Outcome, Failures
    <1>3. CASE TimedOut
        BY <1>0, <1>3, FailureOutcomes
        DEF TimedOut, NextHost, LastHost, RetryHost, GiveUp, Return, Stops, MovesOn,
            Repeats, Outcome, Failures
    <1>4. CASE \E errno \in Errno : ListedError(errno) \/ OtherError(errno)
        <2>1. PICK errno \in Errno : ListedError(errno) \/ OtherError(errno)
            BY <1>4
        <2>2. OutcomeOf(MxFail("connect", errno)) \in Failures /\ MxFail("connect", errno) \in Result
            BY FailureOutcomes DEF Failures
        <2>3. OutcomeOf(MxFail("connect", errno)) # "final"
            BY FailureOutcomes
        <2>4. QED
            BY <1>0, <2>1, <2>2, <2>3, FailureOutcomes
            DEF ListedError, OtherError, NextHost, LastHost, Conclude, GiveUp, Return, Stops,
                MovesOn, Outcome
    <1>5. QED
        BY <1>1, <1>2, <1>3, <1>4 DEF SessionEnds

-----------------------------------------------------------------------------
(* A session keeps the invariant of the probe *)

\* What a session adds to the log.
LEMMA LogGrows ==
    ASSUME ProbeInv, NEW x \in Result, Ends(x), OutcomeOf(x) \in Outcome
    PROVE  /\ pc = "open" /\ UNCHANGED job
           /\ log \in Seq(Session) /\ log' \in Seq(Session) /\ log' # <<>>
           /\ Len(log) \in Nat /\ Len(log') = Len(log) + 1
           /\ DOMAIN log = 1 .. Len(log) /\ DOMAIN log' = 1 .. Len(log) + 1
           /\ \A i \in DOMAIN log : log'[i] = log[i] /\ log[i] \in Session
           /\ log'[Len(log) + 1].host = mxi /\ log'[Len(log) + 1].out = OutcomeOf(x)
    <1>1. pc = "open" /\ UNCHANGED job
        BY DEF Ends
    <1>2. [host |-> mxi, out |-> OutcomeOf(x)] \in Session
        BY DEF ProbeInv, ProbeTypeOK, Session, Outcome
    <1>3. log \in Seq(Session) /\ log' = Append(log, [host |-> mxi, out |-> OutcomeOf(x)])
        BY DEF Ends, ProbeInv, ProbeTypeOK
    <1>4. QED
        BY <1>1, <1>2, <1>3

\* The numbers of the probe, as far as its invariant says.
LEMMA Numbers ==
    ASSUME ProbeInv
    PROVE  /\ mxi \in Nat /\ attempt \in Nat /\ attempt <= Retries /\ Retries \in Nat
           /\ job.hosts \in Nat /\ job.hosts <= MaxHosts /\ MaxHosts \in Nat
           /\ MaxExtra \in Nat /\ hops \in 0 .. MaxExtra
    BY ProbeAssumption DEF ProbeInv, ProbeTypeOK

\* The session that just ended was with the host in turn, and none with a later one.
LEMMA LogIsBehind ==
    ASSUME ProbeInv, NEW x \in Result, Ends(x), OutcomeOf(x) \in Outcome,
           NEW i \in DOMAIN log'
    PROVE  log'[i].host \in Nat /\ log'[i].host <= mxi
    <1>1. CASE i \in DOMAIN log
        <2>1. log'[i] = log[i] /\ log[i] \in Session
            BY <1>1, LogGrows
        <2>2. log[i].host <= mxi
            BY <1>1 DEF ProbeInv, SearchIsOrdered
        <2>3. log[i].host \in Nat
            BY <2>1, Numbers DEF Session
        <2>4. QED
            BY <2>1, <2>2, <2>3
    <1>2. CASE i = Len(log) + 1
        BY <1>2, LogGrows, Numbers
    <1>3. QED
        BY <1>1, <1>2, LogGrows

\* The session in turn is with the host before's successor, or repeats it for cause.
LEMMA OrderKept ==
    ASSUME ProbeInv, NEW x \in Result, Ends(x), OutcomeOf(x) \in Outcome
    PROVE  HostsInOrder'
    <1>1. SUFFICES ASSUME NEW i \in 2 .. Len(log')
                   PROVE  \/ log'[i].host = log'[i - 1].host + 1
                          \/ /\ log'[i].host = log'[i - 1].host
                             /\ \/ log'[i - 1].out = "timeout"
                                \/ log'[i - 1].out = "protocol" /\ log'[i - 1].host = job'.hosts
        BY DEF HostsInOrder
    <1>2. CASE i \in 2 .. Len(log)
        <2>1. i \in DOMAIN log /\ i - 1 \in DOMAIN log
            BY <1>2, LogGrows
        <2>2. QED
            BY <1>2, <2>1, LogGrows DEF ProbeInv, HostsInOrder
    <1>3. CASE i = Len(log) + 1
        <2>1. i - 1 = Len(log) /\ i - 1 \in DOMAIN log /\ log # <<>>
            BY <1>1, <1>3, LogGrows
        <2>2. log'[i - 1] = Last(log) /\ log'[i].host = mxi
            BY <1>3, <2>1, LogGrows DEF Last
        <2>3. QED
            BY <2>1, <2>2, LogGrows DEF ProbeInv, SearchGoesOn
    <1>4. QED
        BY <1>1, <1>2, <1>3, LogGrows

\* The session in turn is one of at most Retries + 1 with its host.
LEMMA BoundKept ==
    ASSUME ProbeInv, NEW x \in Result, Ends(x), OutcomeOf(x) \in Outcome,
           hops' \in 0 .. MaxExtra
    PROVE  SessionsBounded'
    <1>1. hops' <= MaxExtra
        BY Numbers
    <1>2. SUFFICES ASSUME NEW i \in DOMAIN log', i > Retries + 1
                   PROVE  log'[i].host # log'[i - (Retries + 1)].host
        BY <1>1 DEF SessionsBounded
    <1>3. i - (Retries + 1) \in DOMAIN log
        BY <1>2, LogGrows, Numbers
    <1>4. CASE i \in DOMAIN log
        BY <1>2, <1>3, <1>4, LogGrows DEF ProbeInv, SessionsBounded
    <1>5. CASE i = Len(log) + 1
        <2>1. i - (Retries + 1) <= Len(log) - attempt
            BY <1>5, LogGrows, Numbers
        <2>2. log[i - (Retries + 1)].host < mxi
            BY <1>3, <2>1, LogGrows DEF ProbeInv, SearchIsOrdered
        <2>3. log[i - (Retries + 1)] \in Session
            BY <1>3, LogGrows
        <2>4. log[i - (Retries + 1)].host \in Nat
            BY <2>3, Numbers DEF Session
        <2>5. log[i - (Retries + 1)].host # mxi
            BY <2>2, <2>4, Numbers
        <2>6. log'[i - (Retries + 1)] = log[i - (Retries + 1)] /\ log'[i].host = mxi
            BY <1>3, <1>5, LogGrows
        <2>7. QED
            BY <2>5, <2>6
    <1>6. QED
        BY <1>2, <1>4, <1>5, LogGrows

LEMMA StopKeeps ==
    ASSUME ProbeInv, NEW x \in Result, Ends(x), OutcomeOf(x) \in Outcome, Stops(x),
           recorded' \in {"none", "timeout", "connect"}, health' \in 0 .. MaxHosts
    PROVE  ProbeInv'
    <1>1. /\ pc' = "done" /\ result' = x /\ UNCHANGED <<mxi, attempt, hops>>
          /\ x.kind = "mx_fail" => mxi = job.hosts
        BY DEF Stops
    <1>2. ProbeTypeOK' /\ ProbeIsFresh'
        BY <1>1, LogGrows DEF ProbeInv, ProbeTypeOK, ProbeIsFresh
    <1>3. \A i \in DOMAIN log' : log'[i].host <= mxi'
        BY <1>1, LogIsBehind
    <1>4. Last(log') = log'[Len(log) + 1]
        BY LogGrows DEF Last
    <1>5. AnswerIsReturned' /\ AllHostsTried'
        <2>1. \A i \in DOMAIN log : log[i].out # "final"
            BY LogGrows DEF ProbeInv, AnswerIsReturned
        <2>2. \A i \in DOMAIN log' : log'[i].out = "final" => i = Len(log')
            BY <2>1, LogGrows
        <2>3. OutcomeOf(result)' = OutcomeOf(x)
            BY <1>1 DEF OutcomeOf
        <2>4. Last(log)' = log'[Len(log) + 1]
            BY <1>4 DEF Last
        <2>5. QED
            BY <1>1, <2>2, <2>3, <2>4, LogGrows DEF AnswerIsReturned, AllHostsTried
    <1>6. SearchIsOrdered' /\ SearchGoesOn'
        BY <1>1, <1>3 DEF SearchIsOrdered, SearchGoesOn
    <1>7. HostsInOrder' /\ SessionsBounded'
        BY <1>1, Numbers, OrderKept, BoundKept
    <1>8. QED
        BY <1>2, <1>5, <1>6, <1>7 DEF ProbeInv

LEMMA MoveKeeps ==
    ASSUME ProbeInv, NEW x \in Result, Ends(x), OutcomeOf(x) \in Outcome, MovesOn(OutcomeOf(x)),
           recorded' \in {"none", "timeout", "connect"}, health' \in 0 .. MaxHosts
    PROVE  ProbeInv'
    <1>1. /\ OutcomeOf(x) # "final" /\ mxi # job.hosts /\ mxi' = mxi + 1 /\ attempt' = 0
          /\ hops' \in 0 .. MaxExtra /\ UNCHANGED <<pc, result>>
        BY DEF MovesOn
    <1>2. mxi <= job.hosts
        BY LogGrows DEF ProbeInv, ProbeTypeOK
    <1>3. mxi' \in 1 .. MaxHosts /\ mxi' <= job.hosts /\ attempt' \in 0 .. Retries
        BY <1>1, <1>2, Numbers
    <1>4. ProbeTypeOK' /\ ProbeIsFresh'
        BY <1>1, <1>3, LogGrows DEF ProbeInv, ProbeTypeOK, ProbeIsFresh
    <1>5. \A i \in DOMAIN log' : log'[i].host < mxi' /\ log'[i].host <= mxi'
        <2>1. SUFFICES ASSUME NEW i \in DOMAIN log'
                       PROVE  log'[i].host < mxi' /\ log'[i].host <= mxi'
            OBVIOUS
        <2>2. log'[i].host \in Nat /\ log'[i].host <= mxi
            BY LogIsBehind
        <2>3. QED
            BY <1>1, <2>2, Numbers
    <1>6. Last(log)' = log'[Len(log) + 1]
        BY LogGrows DEF Last
    <1>7. SearchGoesOn'
        BY <1>1, <1>6, LogGrows DEF SearchGoesOn
    <1>8. AnswerIsReturned' /\ AllHostsTried'
        <2>1. \A i \in DOMAIN log : log[i].out # "final"
            BY LogGrows DEF ProbeInv, AnswerIsReturned
        <2>2. \A i \in DOMAIN log' : log'[i].out # "final"
            BY <1>1, <2>1, LogGrows
        <2>3. QED
            BY <1>1, <2>2, LogGrows DEF AnswerIsReturned, AllHostsTried
    <1>9. QED
        BY <1>1, <1>4, <1>5, <1>7, <1>8, OrderKept, BoundKept DEF ProbeInv, SearchIsOrdered

LEMMA RepeatKeeps ==
    ASSUME ProbeInv, NEW x \in Result, Ends(x), OutcomeOf(x) \in Outcome, Repeats(OutcomeOf(x)),
           recorded' \in {"none", "timeout", "connect"}, health' \in 0 .. MaxHosts
    PROVE  ProbeInv'
    <1>1. /\ OutcomeOf(x) = "timeout" \/ (OutcomeOf(x) = "protocol" /\ mxi = job.hosts)
          /\ attempt < Retries /\ attempt' = attempt + 1
          /\ UNCHANGED <<mxi, hops, pc, result>>
        BY DEF Repeats
    <1>2. attempt' \in 0 .. Retries
        BY <1>1, Numbers
    <1>3. ProbeTypeOK' /\ ProbeIsFresh'
        BY <1>1, <1>2, LogGrows DEF ProbeInv, ProbeTypeOK, ProbeIsFresh
    <1>4. \A i \in DOMAIN log' : log'[i].host <= mxi'
        BY <1>1, LogIsBehind
    <1>5. \A i \in DOMAIN log' : i <= Len(log') - attempt' => log'[i].host < mxi'
        <2>1. SUFFICES ASSUME NEW i \in DOMAIN log', i <= Len(log') - attempt'
                       PROVE  log'[i].host < mxi'
            OBVIOUS
        <2>2. i \in DOMAIN log /\ i <= Len(log) - attempt
            BY <1>1, <2>1, LogGrows, Numbers, SMTT(30)
        <2>3. log[i].host < mxi
            BY <2>2, LogGrows DEF ProbeInv, SearchIsOrdered
        <2>4. QED
            BY <1>1, <2>2, <2>3, LogGrows
    <1>6. Last(log)' = log'[Len(log) + 1]
        BY LogGrows DEF Last
    <1>7. SearchGoesOn'
        BY <1>1, <1>6, LogGrows DEF SearchGoesOn
    <1>8. AnswerIsReturned' /\ AllHostsTried'
        <2>1. \A i \in DOMAIN log : log[i].out # "final"
            BY LogGrows DEF ProbeInv, AnswerIsReturned
        <2>2. \A i \in DOMAIN log' : log'[i].out # "final"
            BY <1>1, <2>1, LogGrows
        <2>3. QED
            BY <1>1, <2>2, LogGrows DEF AnswerIsReturned, AllHostsTried
    <1>9. QED
        BY <1>1, <1>3, <1>4, <1>5, <1>7, <1>8, Numbers, OrderKept, BoundKept
        DEF ProbeInv, SearchIsOrdered

LEMMA SessionKeeps ==
    ASSUME ProbeInv, SessionEnds
    PROVE  ProbeInv' /\ pc = "open" /\ UNCHANGED job /\ pc' \in {"open", "done"}
    <1>1. PICK x \in Result : /\ Ends(x)
                              /\ OutcomeOf(x) \in Outcome
                              /\ Stops(x) \/ MovesOn(OutcomeOf(x)) \/ Repeats(OutcomeOf(x))
        BY SessionSteps
    <1>2. recorded' \in {"none", "timeout", "connect"} /\ health' \in 0 .. MaxHosts
        <2>1. /\ recorded \in {"none", "timeout", "connect"} /\ health \in 0 .. MaxHosts
              /\ mxi \in 0 .. MaxHosts
            BY Numbers DEF ProbeInv, ProbeTypeOK
        <2>2. QED
            BY <2>1 DEF SessionEnds, Answered, HopToNextMx, ProtocolFailure, TimedOut,
                        ListedError, OtherError, NextHost, RetryHost, Conclude, GiveUp
    <1>3. ProbeInv'
        BY <1>1, <1>2, StopKeeps, MoveKeeps, RepeatKeeps
    <1>4. QED
        BY <1>1, <1>3 DEF Ends, Stops, MovesOn, Repeats

\* The probe is called with a list of hosts.
LEMMA ProbeStarts ==
    ASSUME ProbeInv, NEW n \in 1 .. MaxHosts, NEW big \in BOOLEAN, NEW hop \in BOOLEAN,
           Probe([hosts |-> n, big |-> big, hop |-> hop])
    PROVE  ProbeInv' /\ pc' = "open" /\ job'.hosts = n
    <1>1. /\ pc = "idle" /\ pc' = "open" /\ job' = [hosts |-> n, big |-> big, hop |-> hop]
          /\ UNCHANGED <<mxi, attempt, hops, result, recorded, health, log>>
        BY DEF Probe
    <1>2. log = <<>> /\ mxi = 1 /\ result = NoResult
        BY <1>1 DEF ProbeInv, ProbeIsFresh
    <1>3. job' \in [hosts : 0 .. MaxHosts, big : BOOLEAN, hop : BOOLEAN]
        BY <1>1, Numbers
    <1>4. ProbeTypeOK'
        BY <1>1, <1>2, <1>3, Numbers DEF ProbeInv, ProbeTypeOK
    <1>5. QED
        BY <1>1, <1>2, <1>4
        DEF ProbeInv, ProbeIsFresh, SearchIsOrdered, SearchGoesOn, AnswerIsReturned, HostsInOrder,
            AllHostsTried, SessionsBounded

LEMMA ProbeUntouched ==
    ASSUME ProbeInv, UNCHANGED probeVars
    PROVE  ProbeInv'
    BY DEF probeVars, ProbeInv, ProbeTypeOK, ProbeIsFresh, SearchIsOrdered, SearchGoesOn,
           AnswerIsReturned, HostsInOrder, AllHostsTried, SessionsBounded

-----------------------------------------------------------------------------
(* Invariant of the verification *)

\* While DNS is asked: nothing is probed or answered, every query so far failed, and
\* the layer is empty.
LookupIsOpen ==
    /\ mode \in Mode
    /\ asks \in Seq(DnsFailure \cup DnsAnswer)
    /\ dns \in Entries
    /\ mx \in 0 .. MaxHosts
    /\ stage = "start" => asks = <<>>
    /\ stage = "lookup" =>
          /\ dns = NoEntry
          /\ Len(asks) <= DnsRetries
          /\ \A i \in DOMAIN asks : asks[i] \in DnsFailure

\* Where the verification is determines what it has done.
StageIsTrue ==
    /\ stage \in Stage
    /\ mxHosts \in SUBSET Host
    /\ stage \in {"start", "lookup", "hosts"} => pc = "idle" /\ mxHosts = {}
    /\ stage # "over" => answer = NoAnswer
    /\ stage = "hosts" => mx > 0
    /\ stage = "probe" => pc = "open" /\ mxHosts # {}
    /\ pc # "idle" => stage \in {"probe", "over"} /\ job.hosts = Cardinality(mxHosts)

PathInv ==
    /\ LookupIsOpen
    /\ StageIsTrue
    /\ LookupConcludes
    /\ UndeliverableForCause
    /\ ValidIsAccepted
    /\ CountedFailures
    /\ ScoreAgrees

IInv == ProbeInv /\ PathInv

-----------------------------------------------------------------------------
(* What replies and failures come to *)

\* The score says of an answer what its code says.
Agrees(x) ==
    \A free \in BOOLEAN :
        LET s == ScoreOf(x.code, x.reason, free, "risky")
        IN  /\ s.deliverability = "omitted" <=>
                  x.code \in {"retry_later", "greylisted"} \/ x.reason = "smtp_252"
            /\ s.deliverability = "undeliverable" <=> x.code = "undeliverable"
            /\ s.deliverability \in {"deliverable", "risky"} <=> x.code = "valid"

\* The outcomes that are not valid are scored as their code says, whatever the provider.
LEMMA ScoresAgree ==
    /\ \A reason, counts : Agrees(Answer("retry_later", reason, counts))
    /\ \A reason, counts : Agrees(Answer("greylisted", reason, counts))
    /\ \A reason, counts : reason # "smtp_252" => Agrees(Answer("undeliverable", reason, counts))
    /\ \A reason \in {"smtp_551", "smtp_risky", "smtp_252", "smtp_skipped"} :
          Agrees(Plain("unknown", reason))
    /\ Agrees(Plain("valid", "none"))
    <1>1. \A reason, counts : Agrees(Answer("retry_later", reason, counts))
        BY DEF Agrees, Answer, ScoreOf, OmitsScore, Unscored
    <1>2. \A reason, counts : Agrees(Answer("greylisted", reason, counts))
        BY DEF Agrees, Answer, ScoreOf, OmitsScore, Unscored
    <1>3. \A reason, counts : reason # "smtp_252" => Agrees(Answer("undeliverable", reason, counts))
        BY DEF Agrees, Answer, ScoreOf, OmitsScore, Scored
    <1>4. Agrees(Plain("unknown", "smtp_551")) /\ Agrees(Plain("unknown", "smtp_risky"))
        BY DEF Agrees, Plain, Answer, ScoreOf, OmitsScore, Scored
    <1>5. Agrees(Plain("unknown", "smtp_252"))
        BY DEF Agrees, Plain, Answer, ScoreOf, OmitsScore, Unscored
    <1>6. Agrees(Plain("unknown", "smtp_skipped"))
        <2>1. FromScore(Clamp(OnRoute)) = "unknown"
            BY DEF FromScore, Clamp, OnRoute
        <2>2. QED
            BY <2>1 DEF Agrees, Plain, Answer, ScoreOf, OmitsScore, Graded, Scored
    <1>7. Agrees(Plain("valid", "none"))
        <2>1. \A s \in {Accepting, Accepting - 5} : FromScore(Clamp(s)) \in {"deliverable", "risky"}
            BY DEF FromScore, Clamp, Accepting, Connected, OnRoute
        <2>2. QED
            BY <2>1 DEF Agrees, Plain, Answer, ScoreOf, OmitsScore, Graded, Scored
    <1>8. QED
        BY <1>1, <1>2, <1>3, <1>4, <1>5, <1>6, <1>7

\* A 5xx as in Refuses rejects the mailbox or the sender, or asks to try again.
LEMMA RefusalsAreCauses ==
    ASSUME NEW r, Refuses(r)
    PROVE  RejectsMailbox(r) \/ RejectsSender(r) \/ AsksAgain(r)
    BY DEF RejectsMailbox, RejectsSender, AsksAgain

\* A reply is mapped to valid only if it accepts, to undeliverable only if it refuses
\* the transaction as in Refuses, and never counts against the domain.
LEMMA RepliesAreRead ==
    ASSUME NEW r \in Reply
    PROVE  /\ MapReply(r).code = "valid" => r.code \in 200 .. 299 \ {252}
           /\ MapReply(r).code = "undeliverable" => Refuses(r)
           /\ MapReply(r).counts = "none"
           /\ MapReply(r).reason # "mx_lookup"
    <1>0. r.code \in 0 .. 999
        BY DEF Reply
    <1>1. CASE AboutStation(r)
        BY <1>1 DEF MapReply, Plain, Answer
    <1>2. CASE ~AboutStation(r) /\ Class(r) = "accept"
        <2>1. r.code \in 200 .. 299 \ {252}
            BY <1>0, <1>2 DEF Class
        <2>2. MapReply(r) = Plain("valid", "none")
            BY <1>2 DEF MapReply
        <2>3. QED
            BY <2>1, <2>2 DEF Plain, Answer
    <1>3. CASE ~AboutStation(r) /\ Class(r) # "accept"
        <2>1. MapReply(r) = MapSemantic(r)
            BY <1>3 DEF MapReply
        <2>2. /\ MapSemantic(r).counts = "none" /\ MapSemantic(r).reason # "mx_lookup"
              /\ MapSemantic(r).code # "valid"
            BY DEF MapSemantic, MapNotLocal, MapLimit, Plain, Answer
        <2>3. ASSUME MapSemantic(r).code = "undeliverable"
              PROVE  Refuses(r)
            <3>1. \/ Semantic(r) \in {"reject_mailbox", "reject_invalid", "reject_not_local",
                                      "transaction_failed"}
                  \/ Class(r) = "permanent_reject"
                BY <2>3 DEF MapSemantic, MapNotLocal, MapLimit, Plain, Answer
            <3>2. r.code \in 500 .. 599 \ {552}
                BY <1>0, <3>1 DEF Semantic, Class
            <3>3. ~Blocks(r)
                BY <1>3, <3>2 DEF AboutStation, Class
            <3>4. ~(r.code = 551 /\ "routing" \in r.says /\ "nouser" \notin r.says)
                <4>1. SUFFICES ASSUME r.code = 551, "routing" \in r.says, "nouser" \notin r.says
                               PROVE  FALSE
                    OBVIOUS
                <4>2. Semantic(r) = "reject_not_local"
                    BY <4>1 DEF Semantic
                <4>3. MapSemantic(r) = Plain("unknown", "smtp_551")
                    BY <4>1, <4>2 DEF MapSemantic, MapNotLocal
                <4>4. QED
                    BY <2>3, <4>3 DEF Plain, Answer
            <3>5. QED
                BY <3>2, <3>3, <3>4 DEF Refuses
        <2>4. QED
            BY <2>1, <2>2, <2>3
    <1>4. QED
        BY <1>1, <1>2, <1>3

LEMMA RepliesScore ==
    ASSUME NEW r \in Reply
    PROVE  Agrees(MapReply(r))
    <1>1. \A reason : Agrees(Plain("retry_later", reason)) /\ Agrees(Plain("greylisted", reason))
        BY ScoresAgree DEF Plain
    <1>2. \A reason : reason # "smtp_252" => Agrees(Plain("undeliverable", reason))
        BY ScoresAgree DEF Plain
    <1>3. \/ \E reason : MapReply(r) = Plain("retry_later", reason)
          \/ \E reason : MapReply(r) = Plain("greylisted", reason)
          \/ \E reason : reason # "smtp_252" /\ MapReply(r) = Plain("undeliverable", reason)
          \/ \E reason \in {"smtp_551", "smtp_risky", "smtp_252"} :
                 MapReply(r) = Plain("unknown", reason)
          \/ MapReply(r) = Plain("valid", "none")
        BY DEF MapReply, MapSemantic, MapNotLocal, MapLimit
    <1>4. QED
        BY <1>1, <1>2, <1>3, ScoresAgree

\* A failure is never a verdict, and does not count if the session or the socket timed
\* out.
LEMMA FailuresAreTransient ==
    ASSUME NEW f
    PROVE  /\ MapFailure(f).code = "retry_later"
           /\ MapFailure(f).reason # "mx_lookup"
           /\ MapFailure(f).counts \in {"none", "smtp"}
           /\ MapFailure(f).counts = "smtp" => SocketReason(f) # "smtp_timeout"
           /\ Agrees(MapFailure(f))
    <1>1. \E reason, counts : MapFailure(f) = Answer("retry_later", reason, counts)
        BY DEF MapFailure, Plain
    <1>2. Agrees(MapFailure(f))
        BY <1>1, ScoresAgree
    <1>3. SocketReason(f) # "mx_lookup"
        BY DEF SocketReason
    <1>4. QED
        BY <1>2, <1>3 DEF MapFailure, Plain, Answer

-----------------------------------------------------------------------------
(* Steps of the verification *)

LEMMA EntriesAre ==
    ASSUME NEW e \in Entries
    PROVE  /\ e.kind \in {"none", "nodata", "nxdomain", "records"}
           /\ e.kind = "none" => e = NoEntry
           /\ e.kind = "records" => e.hosts \in Host /\ e = Entry("records", e.hosts)
           /\ NoEntry \in Entries /\ NoEntry.kind = "none"
    BY DEF Entries, NoEntry, Entry

\* The cause of an undeliverable address that was not probed.
NoRoute ==
    \/ dns.kind \in {"nxdomain", "nodata"}
    \/ asks # <<>> /\ Last(asks) = "refused"
    \/ mx > 0 /\ \A h \in 1 .. mx : addr[h].a = "no" /\ addr[h].aaaa = "no"

\* No host has an address, and not all of them definitely have none.
Unrouted ==
    /\ \A h \in 1 .. mx : addr[h].a # "addr" /\ addr[h].aaaa # "addr"
    /\ \E h \in 1 .. mx : addr[h].a # "no" \/ addr[h].aaaa # "no"

\* A verification ends without a probe.
LEMMA FinishKeeps ==
    ASSUME IInv, stage \in {"start", "lookup", "hosts"}, NEW x, Finish(x), Agrees(x),
           LookupIsOpen', LookupConcludes',
           mxHosts' \in SUBSET Host,
           x.code # "valid", x.code = "undeliverable" => NoRoute',
           \/ x.counts = "none"
           \/ x.counts = "mx_host_dns" /\ x.code = "retry_later" /\ mxHosts' = {} /\ Unrouted'
    PROVE  IInv'
    <1>1. stage' = "over" /\ answer' = x /\ UNCHANGED probeVars /\ UNCHANGED pc
        BY DEF Finish, probeVars
    <1>2. pc = "idle" /\ log = <<>> /\ log' = <<>>
        BY <1>1 DEF IInv, PathInv, StageIsTrue, ProbeInv, ProbeIsFresh, probeVars
    <1>3. ProbeInv'
        BY <1>1, ProbeUntouched DEF IInv
    <1>4. StageIsTrue'
        BY <1>1, <1>2 DEF StageIsTrue, Stage
    <1>5. UndeliverableForCause'
        BY <1>1 DEF UndeliverableForCause, NoRoute
    <1>6. ValidIsAccepted' /\ CountedFailures'
        BY <1>1, <1>2 DEF ValidIsAccepted, CountedFailures, Unrouted
    <1>7. ScoreAgrees'
        BY <1>1 DEF ScoreAgrees, Agrees, Scores
    <1>8. QED
        BY <1>3, <1>4, <1>5, <1>6, <1>7 DEF IInv, PathInv

\* A verification that has no answer yet satisfies what is said of answers.
LEMMA UnansweredKeeps ==
    ASSUME ProbeInv', LookupIsOpen', StageIsTrue', LookupConcludes', stage' # "over"
    PROVE  IInv'
    <1>1. answer' = NoAnswer
        BY DEF StageIsTrue
    <1>2. UndeliverableForCause' /\ ValidIsAccepted' /\ CountedFailures' /\ ScoreAgrees'
        BY <1>1 DEF UndeliverableForCause, ValidIsAccepted, CountedFailures, ScoreAgrees,
                    NoAnswer, Plain, Answer
    <1>3. QED
        BY <1>2 DEF IInv, PathInv

\* What verifyOne does with the entry of lookupMx is no failure of the lookup.
LEMMA LookedUpSays ==
    ASSUME IInv, stage \in {"start", "lookup"}, NEW kind, NEW hosts, LookedUp(kind, hosts)
    PROVE  /\ answer'.reason # "mx_lookup" /\ stage' # "start"
           /\ kind = "records" => mx' = hosts
    <1>1. answer.reason # "mx_lookup"
        BY DEF IInv, PathInv, StageIsTrue, NoAnswer, Plain, Answer
    <1>2. QED
        BY <1>1 DEF LookedUp, Finish, Plain, Answer

\* verifyOne goes on with the entry of lookupMx.
LEMMA LookedUpKeeps ==
    ASSUME IInv, stage \in {"start", "lookup"}, NEW kind, NEW hosts,
           LookedUp(kind, hosts), dns'.kind = kind,
           kind = "records" => hosts \in Host,
           asks' \in Seq(DnsFailure \cup DnsAnswer), dns' \in Entries,
           UNCHANGED <<mode, mxHosts>>, LookupConcludes'
    PROVE  IInv'
    <1>1. /\ mx \in 0 .. MaxHosts /\ mxHosts = {} /\ pc = "idle" /\ answer = NoAnswer
          /\ mode' \in Mode
        BY DEF IInv, PathInv, LookupIsOpen, StageIsTrue
    <1>2. CASE kind = "nxdomain"
        <2>1. Finish(Plain("undeliverable", "domain_invalid")) /\ UNCHANGED mx
            BY <1>2 DEF LookedUp
        <2>2. Agrees(Plain("undeliverable", "domain_invalid"))
            BY ScoresAgree DEF Plain
        <2>3. stage' = "over"
            BY <2>1 DEF Finish
        <2>4. LookupIsOpen'
            BY <1>1, <2>1, <2>3 DEF LookupIsOpen
        <2>5. QED
            BY <1>1, <1>2, <2>1, <2>2, <2>3, <2>4, FinishKeeps DEF NoRoute, Plain, Answer
    <1>3. CASE kind = "nodata"
        <2>1. Finish(Plain("undeliverable", "no_mx")) /\ UNCHANGED mx
            BY <1>3 DEF LookedUp
        <2>2. Agrees(Plain("undeliverable", "no_mx"))
            BY ScoresAgree DEF Plain
        <2>3. stage' = "over"
            BY <2>1 DEF Finish
        <2>4. LookupIsOpen'
            BY <1>1, <2>1, <2>3 DEF LookupIsOpen
        <2>5. QED
            BY <1>1, <1>3, <2>1, <2>2, <2>3, <2>4, FinishKeeps DEF NoRoute, Plain, Answer
    <1>4. CASE kind = "records"
        <2>1. stage' = "hosts" /\ mx' = hosts /\ UNCHANGED <<answer, probeVars>>
            BY <1>4 DEF LookedUp
        <2>2. ProbeInv' /\ UNCHANGED pc /\ UNCHANGED answer
            BY <2>1, ProbeUntouched DEF IInv, probeVars
        <2>3. mx' \in 0 .. MaxHosts /\ mx' > 0
            BY <1>4, <2>1, Numbers DEF IInv, Host
        <2>4. StageIsTrue'
            BY <1>1, <2>1, <2>2, <2>3 DEF StageIsTrue, Stage
        <2>5. LookupIsOpen'
            BY <1>1, <2>1, <2>3 DEF LookupIsOpen
        <2>6. QED
            BY <1>1, <2>1, <2>2, <2>4, <2>5, UnansweredKeeps
    <1>5. QED
        BY <1>2, <1>3, <1>4 DEF LookedUp

LEMMA ConsultKeeps ==
    ASSUME IInv, Consult
    PROVE  IInv'
    <1>1. stage = "start" /\ asks = <<>> /\ UNCHANGED <<mode, asks, addr, mxHosts>>
        BY DEF Consult, IInv, PathInv, LookupIsOpen
    <1>2. CASE mode.force \/ dns = NoEntry
        <2>1. dns' = NoEntry /\ stage' = "lookup" /\ UNCHANGED <<mx, answer, probeVars>>
            BY <1>2 DEF Consult
        <2>2. ProbeInv' /\ UNCHANGED pc
            BY <2>1, ProbeUntouched DEF IInv, probeVars
        <2>3. LookupIsOpen'
            <3>1. Len(asks') <= DnsRetries /\ dns' \in Entries
                BY <1>1, <2>1, PathAssumption DEF Entries
            <3>2. QED
                BY <1>1, <2>1, <3>1 DEF IInv, PathInv, LookupIsOpen
        <2>4. StageIsTrue'
            BY <1>1, <2>1, <2>2 DEF IInv, PathInv, StageIsTrue, Stage
        <2>5. LookupConcludes'
            BY <1>1, <2>1 DEF IInv, PathInv, StageIsTrue, LookupConcludes, NoAnswer, Plain, Answer
        <2>6. QED
            BY <2>1, <2>2, <2>3, <2>4, <2>5, UnansweredKeeps
    <1>3. CASE ~mode.force /\ dns # NoEntry
        <2>1. LookedUp(dns.kind, dns.hosts) /\ UNCHANGED dns
            BY <1>3 DEF Consult
        <2>2. dns \in Entries
            BY DEF IInv, PathInv, LookupIsOpen
        <2>3. LookupConcludes'
            BY <1>1, <1>3, <2>1, LookedUpSays DEF LookupConcludes
        <2>4. asks' \in Seq(DnsFailure \cup DnsAnswer)
            BY <1>1 DEF IInv, PathInv, LookupIsOpen
        <2>5. QED
            BY <1>1, <2>1, <2>2, <2>3, <2>4, EntriesAre, LookedUpKeeps
    <1>4. QED
        BY <1>2, <1>3 DEF Consult

\* The queries so far, with one more.
LEMMA AsksGrow ==
    ASSUME IInv, NEW o \in DnsFailure \cup DnsAnswer, asks' = Append(asks, o)
    PROVE  /\ asks' \in Seq(DnsFailure \cup DnsAnswer) /\ asks' # <<>>
           /\ Len(asks) \in Nat /\ Len(asks') = Len(asks) + 1
           /\ DOMAIN asks = 1 .. Len(asks) /\ DOMAIN asks' = 1 .. Len(asks) + 1
           /\ \A i \in DOMAIN asks : asks'[i] = asks[i]
           /\ asks'[Len(asks) + 1] = o /\ Last(asks') = o
    <1>1. asks \in Seq(DnsFailure \cup DnsAnswer)
        BY DEF IInv, PathInv, LookupIsOpen
    <1>2. QED
        BY <1>1 DEF Last

LEMMA MxAnsweredKeeps ==
    ASSUME IInv, NEW kind \in DnsAnswer, NEW hosts \in 0 .. MaxHosts, MxAnswered(kind, hosts)
    PROVE  IInv'
    <1>1. /\ stage = "lookup" /\ (kind = "records" <=> hosts > 0)
          /\ dns' = Entry(kind, hosts)
          /\ asks' = (IF kind = "records" THEN <<>> ELSE Append(asks, kind))
          /\ LookedUp(kind, hosts)
          /\ UNCHANGED <<mode, addr, mxHosts>>
        BY DEF MxAnswered
    <1>2. (kind = "records" => hosts \in Host) /\ (kind # "records" => hosts = 0)
        BY <1>1, Numbers DEF IInv, Host
    <1>3. dns' \in Entries /\ dns'.kind = kind
        BY <1>1, <1>2 DEF Entries, Entry, DnsAnswer
    <1>4. asks' \in Seq(DnsFailure \cup DnsAnswer)
        BY <1>1, AsksGrow
    <1>5. LookupConcludes'
        <2>1. CASE kind = "records"
            BY <1>1, <2>1, LookedUpSays DEF LookupConcludes
        <2>2. CASE kind # "records"
            <3>1. \A i \in DOMAIN asks : asks[i] \in DnsFailure
                BY <1>1 DEF IInv, PathInv, LookupIsOpen
            <3>2. \A i \in DOMAIN asks' : asks'[i] \in DnsAnswer => i = Len(asks') /\ asks'[i] = kind
                BY <1>1, <2>2, <3>1, AsksGrow DEF DnsFailure, DnsAnswer
            <3>3. Last(asks)' = kind
                BY <1>1, <2>2, AsksGrow DEF Last
            <3>4. QED
                BY <1>1, <1>2, <1>3, <2>2, <3>2, <3>3, LookedUpSays, AsksGrow DEF LookupConcludes
        <2>3. QED
            BY <2>1, <2>2
    <1>6. QED
        BY <1>1, <1>2, <1>3, <1>4, <1>5, LookedUpKeeps

LEMMA MxFailedKeeps ==
    ASSUME IInv, NEW o \in DnsFailure, MxFailed(o)
    PROVE  IInv'
    <1>1. /\ stage = "lookup" /\ asks' = Append(asks, o)
          /\ UNCHANGED <<mode, dns, mx, addr, mxHosts>>
        BY DEF MxFailed
    <1>2. /\ dns = NoEntry /\ Len(asks) <= DnsRetries /\ \A i \in DOMAIN asks : asks[i] \in DnsFailure
          /\ answer = NoAnswer /\ mxHosts = {} /\ pc = "idle" /\ mx \in 0 .. MaxHosts
        BY <1>1 DEF IInv, PathInv, LookupIsOpen, StageIsTrue
    <1>3. \A i \in DOMAIN asks' : asks'[i] \in DnsFailure /\ asks'[i] \notin DnsAnswer
        BY <1>1, <1>2, AsksGrow DEF DnsFailure, DnsAnswer
    <1>4. CASE Len(asks) < DnsRetries /\ UNCHANGED <<stage, answer, probeVars>>
        <2>1. ProbeInv' /\ UNCHANGED pc
            BY <1>4, ProbeUntouched DEF IInv, probeVars
        <2>2. LookupIsOpen'
            <3>1. Len(asks') <= DnsRetries
                BY <1>1, <1>4, AsksGrow, PathAssumption
            <3>2. QED
                BY <1>1, <1>2, <1>3, <1>4, <3>1, AsksGrow DEF IInv, PathInv, LookupIsOpen
        <2>3. StageIsTrue' /\ stage' # "over"
            BY <1>1, <1>2, <1>4, <2>1 DEF IInv, PathInv, StageIsTrue
        <2>4. LookupConcludes'
            BY <1>1, <1>2, <1>3, <1>4 DEF LookupConcludes, NoAnswer, Plain, Answer
        <2>5. QED
            BY <2>1, <2>2, <2>3, <2>4, UnansweredKeeps
    <1>5. CASE /\ Len(asks) = DnsRetries
               /\ Finish(Plain(IF o = "refused" THEN "undeliverable" ELSE "retry_later", "mx_lookup"))
        <2> DEFINE x == Plain(IF o = "refused" THEN "undeliverable" ELSE "retry_later", "mx_lookup")
        <2>1. stage' = "over" /\ answer' = x /\ Finish(x)
            BY <1>5 DEF Finish
        <2>2. Agrees(x)
            BY ScoresAgree DEF Plain
        <2>3. LookupIsOpen'
            BY <1>1, <1>2, <2>1, AsksGrow DEF IInv, PathInv, LookupIsOpen
        <2>4. LookupConcludes'
            BY <1>1, <1>2, <1>3, <1>5, <2>1, AsksGrow DEF LookupConcludes
        <2>5. x.code \in {"undeliverable", "retry_later"} /\ x.counts = "none"
            BY DEF Plain, Answer
        <2>6. x.code = "undeliverable" => NoRoute'
            <3>1. x.code = "undeliverable" => o = "refused"
                BY DEF Plain, Answer
            <3>2. Last(asks)' = o
                BY <1>1, AsksGrow DEF Last
            <3>3. QED
                BY <1>1, <3>1, <3>2, AsksGrow DEF NoRoute
        <2> HIDE DEF x
        <2>7. QED
            BY <1>1, <1>2, <2>1, <2>2, <2>3, <2>4, <2>5, <2>6, FinishKeeps
    <1>6. QED
        BY <1>4, <1>5 DEF MxFailed

\* A step of the address check leaves what DNS said of the domain.
LEMMA LookupKept ==
    ASSUME IInv, stage \in {"hosts", "probe"}, UNCHANGED <<mode, dns, asks, mx>>,
           stage' \in {"hosts", "probe", "over"}, answer'.reason # "mx_lookup"
    PROVE  LookupIsOpen' /\ LookupConcludes'
    BY DEF IInv, PathInv, LookupIsOpen, LookupConcludes

LEMMA RoutedKeeps ==
    ASSUME IInv, stage = "hosts", UNCHANGED <<mode, dns, asks, mx>>, NEW known, Routed(known)
    PROVE  IInv'
    <1>1. /\ mxHosts = {} /\ pc = "idle" /\ answer = NoAnswer /\ mx \in 0 .. MaxHosts /\ mx > 0
          /\ mode.big \in BOOLEAN /\ mode.hop \in BOOLEAN
        BY DEF IInv, PathInv, LookupIsOpen, StageIsTrue, Mode
    <1>2. Having(known) \in SUBSET (1 .. mx) /\ Having(known) \in SUBSET Host
        BY <1>1, Numbers DEF IInv, Having, Host
    <1>3. CASE Having(known) = {}
        <2> DEFINE x == IF \A h \in 1 .. mx : NoAddress(known[h])
                        THEN Plain("undeliverable", "mx_unreachable")
                        ELSE Answer("retry_later", "mx_unreachable", "mx_host_dns")
        <2>1. addr' = known /\ Finish(x) /\ UNCHANGED mxHosts
            BY <1>3 DEF Routed
        <2>2. Agrees(x)
            BY ScoresAgree DEF Plain
        <2>3. x.code = "undeliverable" => \A h \in 1 .. mx : NoAddress(known[h])
            BY DEF Plain, Answer
        <2>4. /\ x.code # "valid" /\ x.reason # "mx_lookup"
              /\ \/ x.counts = "none"
                 \/ /\ x.counts = "mx_host_dns" /\ x.code = "retry_later"
                    /\ \E h \in 1 .. mx : ~NoAddress(known[h])
            BY DEF Plain, Answer
        <2> HIDE DEF x
        <2>5. stage' = "over" /\ answer' = x
            BY <2>1 DEF Finish
        <2>6. LookupIsOpen' /\ LookupConcludes'
            BY <2>4, <2>5, LookupKept
        <2>7. x.code = "undeliverable" => NoRoute'
            BY <1>1, <2>1, <2>3 DEF NoRoute, NoAddress
        <2>8. x.counts = "mx_host_dns" => Unrouted'
            <3>1. \A h \in 1 .. mx : known[h].a # "addr" /\ known[h].aaaa # "addr"
                BY <1>3 DEF Having, HasAddr
            <3>2. QED
                BY <1>1, <2>1, <2>4, <3>1 DEF Unrouted, NoAddress
        <2>9. QED
            BY <1>1, <2>1, <2>2, <2>4, <2>6, <2>7, <2>8, FinishKeeps
    <1>4. CASE Having(known) # {} /\ mode.skip
        <2> DEFINE x == Plain("unknown", "smtp_skipped")
        <2>1. Finish(x) /\ mxHosts' = Having(known) /\ stage' = "over" /\ answer' = x
            BY <1>4 DEF Routed, Finish
        <2>2. Agrees(x) /\ x.code = "unknown" /\ x.counts = "none" /\ x.reason # "mx_lookup"
            BY ScoresAgree DEF Plain, Answer
        <2> HIDE DEF x
        <2>3. LookupIsOpen' /\ LookupConcludes'
            BY <2>1, <2>2, LookupKept
        <2>4. QED
            BY <1>2, <2>1, <2>2, <2>3, FinishKeeps
    <1>5. CASE Having(known) # {} /\ ~mode.skip
        <2> DEFINE n == Cardinality(Having(known))
        <2>1. /\ mxHosts' = Having(known) /\ stage' = "probe" /\ UNCHANGED answer
              /\ Probe([hosts |-> n, big |-> mode.big, hop |-> mode.hop])
            BY <1>5 DEF Routed
        <2>2. n \in 1 .. MaxHosts
            <3>1. IsFiniteSet(1 .. mx) /\ Cardinality(1 .. mx) = mx
                BY <1>1, Numbers, FS_Interval DEF IInv
            <3>2. IsFiniteSet(Having(known)) /\ n <= mx
                BY <1>2, <3>1, FS_Subset
            <3>3. n \in Nat /\ n # 0
                BY <1>5, <3>2, FS_CardinalityType, FS_EmptySet
            <3>4. QED
                BY <1>1, <3>2, <3>3, Numbers DEF IInv
        <2> HIDE DEF n
        <2>3. ProbeInv' /\ pc' = "open" /\ job'.hosts = n
            BY <1>1, <2>1, <2>2, ProbeStarts DEF IInv
        <2>4. LookupIsOpen' /\ LookupConcludes'
            BY <1>1, <2>1, LookupKept DEF NoAnswer, Plain, Answer
        <2>5. StageIsTrue'
            BY <1>1, <1>2, <1>5, <2>1, <2>3 DEF StageIsTrue, Stage, n
        <2>6. QED
            BY <2>1, <2>3, <2>4, <2>5, UnansweredKeeps
    <1>6. QED
        BY <1>3, <1>4, <1>5

LEMMA ResolvedKeeps ==
    ASSUME IInv, stage = "hosts", NEW q, Resolved(q)
    PROVE  IInv'
    <1> DEFINE known == [addr EXCEPT ![InTurn] = q]
    <1>1. UNCHANGED <<mode, dns, asks, mx>>
        BY DEF Resolved
    <1>2. CASE UNCHANGED <<stage, mxHosts, answer, probeVars>>
        <2>1. ProbeInv' /\ UNCHANGED pc
            BY <1>2, ProbeUntouched DEF IInv, probeVars
        <2>2. answer = NoAnswer
            BY DEF IInv, PathInv, StageIsTrue
        <2>3. LookupIsOpen' /\ LookupConcludes'
            BY <1>1, <1>2, <2>2, LookupKept DEF NoAnswer, Plain, Answer
        <2>4. StageIsTrue' /\ stage' # "over"
            BY <1>1, <1>2, <2>1 DEF IInv, PathInv, StageIsTrue
        <2>5. QED
            BY <2>1, <2>3, <2>4, UnansweredKeeps
    <1>3. CASE Routed(known)
        BY <1>1, <1>3, RoutedKeeps
    <1>4. QED
        BY <1>2, <1>3 DEF Resolved

\* The probe ends, and its result is the answer.
LEMMA ProbeKeeps ==
    ASSUME IInv, ProbeGoesOn
    PROVE  IInv'
    <1>1. stage = "probe" /\ SessionEnds /\ UNCHANGED <<mode, dns, asks, mx, addr, mxHosts>>
        BY DEF ProbeGoesOn
    <1>2. ProbeInv' /\ pc = "open" /\ UNCHANGED job /\ pc' \in {"open", "done"}
        BY <1>1, SessionKeeps DEF IInv
    <1>3. /\ answer = NoAnswer /\ mxHosts # {} /\ mxHosts \in SUBSET Host
          /\ job.hosts = Cardinality(mxHosts)
        BY <1>1, <1>2 DEF IInv, PathInv, StageIsTrue
    <1>4. CASE pc' = "open" /\ UNCHANGED <<stage, answer>>
        <2>1. LookupIsOpen' /\ LookupConcludes'
            BY <1>1, <1>3, <1>4, LookupKept DEF NoAnswer, Plain, Answer
        <2>2. StageIsTrue' /\ stage' # "over"
            BY <1>1, <1>2, <1>3, <1>4 DEF IInv, PathInv, StageIsTrue
        <2>3. QED
            BY <1>2, <2>1, <2>2, UnansweredKeeps
    <1>5. CASE pc' = "done" /\ stage' = "over" /\ answer' = MapResult(result')
        <2>1. /\ result' \in Result /\ OutcomeOf(result)' = Last(log)'.out /\ log' # <<>>
              /\ result'.kind = "mx_fail" => Last(log)'.host = job.hosts
            BY <1>2, <1>5 DEF ProbeInv, ProbeIsFresh, AnswerIsReturned, AllHostsTried
        <2>2. StageIsTrue'
            BY <1>1, <1>2, <1>3, <1>5 DEF StageIsTrue, Stage
        <2>3. CASE \E r \in Replies : result' = Rcpt(r)
            <3>1. PICK r \in Replies : result' = Rcpt(r)
                BY <2>3
            <3>2. r \in Reply /\ result'.kind = "rcpt" /\ result'.reply = r
                BY <3>1, ProbeAssumption DEF Rcpt
            <3>3. answer' = MapReply(r)
                BY <1>5, <3>2 DEF MapResult
            <3>4. /\ answer'.code = "valid" => r.code \in 200 .. 299 \ {252}
                  /\ answer'.code = "undeliverable" => Refuses(r)
                  /\ answer'.counts = "none" /\ answer'.reason # "mx_lookup"
                  /\ Agrees(answer')
                BY <3>2, <3>3, RepliesAreRead, RepliesScore
            <3>5. LookupIsOpen' /\ LookupConcludes'
                BY <1>1, <1>5, <3>4, LookupKept
            <3>6. UndeliverableForCause' /\ ValidIsAccepted' /\ CountedFailures'
                BY <1>1, <1>3, <3>2, <3>4, RefusalsAreCauses
                DEF UndeliverableForCause, ValidIsAccepted, CountedFailures
            <3>7. ScoreAgrees'
                BY <3>4 DEF ScoreAgrees, Agrees, Scores
            <3>8. QED
                BY <1>2, <2>2, <3>5, <3>6, <3>7 DEF IInv, PathInv
        <2>4. CASE \E f \in Failure : result' = MxFail(f.error, f.errno)
            <3>1. PICK f \in Failure : result' = MxFail(f.error, f.errno)
                BY <2>4
            <3>2. /\ result'.kind = "mx_fail" /\ result'.error = f.error /\ result'.errno = f.errno
                  /\ f.error \in {"connect", "timeout", "protocol"} /\ f.errno \in Errno
                BY <3>1 DEF MxFail, Failure
            <3> DEFINE g == [error |-> f.error, errno |-> f.errno]
            <3>3. answer' = MapFailure(g)
                BY <1>5, <3>2 DEF MapResult
            <3>4. /\ answer'.code = "retry_later" /\ answer'.reason # "mx_lookup"
                  /\ answer'.counts \in {"none", "smtp"}
                  /\ answer'.counts = "smtp" => SocketReason(g) # "smtp_timeout"
                  /\ Agrees(answer')
                BY <3>3, FailuresAreTransient
            <3>5. LookupIsOpen' /\ LookupConcludes'
                BY <1>1, <1>5, <3>4, LookupKept
            <3>6. answer'.counts = "smtp" => Last(log)'.out \notin Answers \cup {"timeout"}
                <4>1. OutcomeOf(result)' = OutcomeOf(MxFail(f.error, f.errno))
                    BY <3>1 DEF OutcomeOf
                <4>2. SocketReason(g) # "smtp_timeout" => f.error # "timeout"
                    BY DEF SocketReason
                <4>3. f.error # "timeout" =>
                          OutcomeOf(MxFail(f.error, f.errno)) \in {"protocol", "listed", "unlisted"}
                    <5>1. CASE f.error = "protocol"
                        BY <5>1 DEF OutcomeOf, MxFail
                    <5>2. CASE f.error = "connect"
                        BY <3>2, <5>2, FailureOutcomes
                    <5>3. QED
                        BY <3>2, <5>1, <5>2
                <4>4. QED
                    BY <2>1, <3>4, <4>1, <4>2, <4>3 DEF Answers
            <3>7. CountedFailures'
                <4>1. SocketReason([error |-> result.error, errno |-> result.errno])'
                          = SocketReason(g)
                    BY <3>2 DEF SocketReason
                <4>2. Last(log)'.host = Cardinality(mxHosts')
                    BY <1>1, <1>3, <2>1, <3>2
                <4>3. answer'.counts = "smtp" => \A i \in DOMAIN log' : log'[i].out # "final"
                    <5>1. \A i \in DOMAIN log' : log'[i].out = "final" => i = Len(log')
                        BY <1>2 DEF ProbeInv, AnswerIsReturned
                    <5>2. Last(log)' = log'[Len(log')]
                        BY DEF Last
                    <5>3. QED
                        BY <3>6, <5>1, <5>2 DEF Answers
                <4>4. QED
                    BY <3>4, <3>6, <4>1, <4>2, <4>3 DEF CountedFailures
            <3>8. UndeliverableForCause' /\ ValidIsAccepted'
                BY <3>4 DEF UndeliverableForCause, ValidIsAccepted
            <3>9. ScoreAgrees'
                BY <3>4 DEF ScoreAgrees, Agrees, Scores
            <3>10. QED
                BY <1>2, <2>2, <3>5, <3>7, <3>8, <3>9 DEF IInv, PathInv
        <2>5. QED
            BY <2>1, <2>3, <2>4 DEF Result
    <1>6. QED
        BY <1>4, <1>5 DEF ProbeGoesOn

-----------------------------------------------------------------------------
(* The invariant holds *)

LEMMA InitEstablishes == Init => IInv
    <1> SUFFICES ASSUME Init PROVE IInv
        OBVIOUS
    <1>1. ProbeInv
        <2>1. NoJob \in [hosts : 0 .. MaxHosts, big : BOOLEAN, hop : BOOLEAN]
            BY ProbeAssumption DEF NoJob
        <2>2. mxi \in 1 .. MaxHosts /\ attempt \in 0 .. Retries /\ hops \in 0 .. MaxExtra
            BY ProbeAssumption DEF Init, ProbeInit
        <2>3. log \in Seq(Session) /\ log = <<>> /\ health \in 0 .. MaxHosts
            BY ProbeAssumption DEF Init, ProbeInit
        <2>4. ProbeTypeOK
            BY <2>1, <2>2, <2>3 DEF Init, ProbeInit, ProbeTypeOK
        <2>5. SessionsBounded
            BY <2>2, <2>3, ProbeAssumption DEF SessionsBounded
        <2>6. QED
            BY <2>3, <2>4, <2>5
            DEF Init, ProbeInit, ProbeInv, ProbeIsFresh, SearchIsOrdered, SearchGoesOn,
                AnswerIsReturned, HostsInOrder, AllHostsTried
    <1>2. LookupIsOpen
        <2>1. asks \in Seq(DnsFailure \cup DnsAnswer)
            BY DEF Init
        <2>2. QED
            BY <2>1, ProbeAssumption DEF Init, LookupIsOpen
    <1>3. StageIsTrue /\ stage # "over"
        BY DEF Init, ProbeInit, StageIsTrue, Stage
    <1>4. LookupConcludes
        BY DEF Init, LookupConcludes, NoAnswer, Plain, Answer
    <1>5. UndeliverableForCause /\ ValidIsAccepted /\ CountedFailures /\ ScoreAgrees
        BY <1>3 DEF Init, UndeliverableForCause, ValidIsAccepted, CountedFailures, ScoreAgrees,
                    NoAnswer, Plain, Answer
    <1>6. QED
        BY <1>1, <1>2, <1>3, <1>4, <1>5 DEF IInv, PathInv

LEMMA StutterKeeps ==
    ASSUME IInv, UNCHANGED vars
    PROVE  IInv'
    <1>1. ProbeInv' /\ UNCHANGED <<pc, job, log, result>>
        BY ProbeUntouched DEF vars, IInv, probeVars
    <1>2. LookupIsOpen' /\ StageIsTrue' /\ LookupConcludes'
        BY <1>1 DEF vars, pathVars, IInv, PathInv, LookupIsOpen, StageIsTrue, LookupConcludes
    <1>3. UndeliverableForCause' /\ ValidIsAccepted'
        BY <1>1 DEF vars, pathVars, IInv, PathInv, UndeliverableForCause, ValidIsAccepted
    <1>4. CountedFailures' /\ ScoreAgrees'
        BY <1>1 DEF vars, pathVars, IInv, PathInv, CountedFailures, ScoreAgrees, Scores
    <1>5. QED
        BY <1>1, <1>2, <1>3, <1>4 DEF IInv, PathInv

LEMMA NextKeeps == IInv /\ [Next]_vars => IInv'
    <1> SUFFICES ASSUME IInv, [Next]_vars PROVE IInv'
        OBVIOUS
    <1>1. CASE Consult
        BY <1>1, ConsultKeeps
    <1>2. CASE \E kind \in DnsAnswer, hosts \in 0 .. MaxHosts : MxAnswered(kind, hosts)
        BY <1>2, MxAnsweredKeeps
    <1>3. CASE \E o \in DnsFailure : MxFailed(o)
        BY <1>3, MxFailedKeeps
    <1>4. CASE stage = "hosts" /\ \E o \in AddrOutcome : ResolveA(o) \/ ResolveAAAA(o)
        BY <1>4, ResolvedKeeps DEF ResolveA, ResolveAAAA
    <1>5. CASE ProbeGoesOn
        BY <1>5, ProbeKeeps
    <1>6. CASE UNCHANGED vars
        BY <1>6, StutterKeeps
    <1>7. QED
        BY <1>1, <1>2, <1>3, <1>4, <1>5, <1>6 DEF Next

LEMMA InvariantHolds == Spec => []IInv
    BY InitEstablishes, NextKeeps, PTL DEF Spec

-----------------------------------------------------------------------------
(* Theorems *)

\* probeRcptUnscoped returns a definite answer at once, and what it returns is the
\* outcome of the last session it opened.
THEOREM AnswersAreReturned == Spec => []AnswerIsReturned
    <1>1. IInv => AnswerIsReturned
        BY DEF IInv, ProbeInv
    <1>2. QED
        BY <1>1, InvariantHolds, PTL

\* The hosts of the MX list are tried in order, without a gap, and only a timeout or a
\* protocol failure of the last one is tried again on the same host.
THEOREM HostsAreTriedInOrder == Spec => []HostsInOrder
    <1>1. IInv => HostsInOrder
        BY DEF IInv, ProbeInv
    <1>2. QED
        BY <1>1, InvariantHolds, PTL

\* A probe that fails has tried every host of the list.
THEOREM FailureTriedAll == Spec => []AllHostsTried
    <1>1. IInv => AllHostsTried
        BY DEF IInv, ProbeInv
    <1>2. QED
        BY <1>1, InvariantHolds, PTL

\* No host gets more than Retries + 1 sessions, and no probe passes over more than
\* MaxExtra transient answers.
THEOREM SessionsAreBounded == Spec => []SessionsBounded
    <1>1. IInv => SessionsBounded
        BY DEF IInv, ProbeInv
    <1>2. QED
        BY <1>1, InvariantHolds, PTL

\* lookupMx reports an error only after all its tries, and what its layer holds is what
\* DNS said last.
THEOREM LookupsConclude == Spec => []LookupConcludes
    <1>1. IInv => LookupConcludes
        BY DEF IInv, PathInv
    <1>2. QED
        BY <1>1, InvariantHolds, PTL

\* verifyOne calls an address undeliverable only if its domain or MX do not exist, no
\* host has an address, a host rejected the mailbox, or for one of the three causes that
\* a document excludes or does not know of: a DNS error that is not on the list, a
\* refusal of MAIL, a 5xx that asks to try again.  Whatever the hosts may reply and in
\* whatever order things fail.
THEOREM CondemnedWithReason == Spec => []UndeliverableForCause
    <1>1. IInv => UndeliverableForCause
        BY DEF IInv, PathInv
    <1>2. QED
        BY <1>1, InvariantHolds, PTL

\* verifyOne calls an address valid only if a host with an address accepted it.
THEOREM ValidWasAccepted == Spec => []ValidIsAccepted
    <1>1. IInv => ValidIsAccepted
        BY DEF IInv, PathInv
    <1>2. QED
        BY <1>1, InvariantHolds, PTL

\* recordMxPathFailure is called only if no host turned out to have an address, or if
\* the probe reached the last host without a definite answer to MAIL or RCPT and its
\* last session failed, other than by a timeout.
THEOREM OnlyPathFailuresCount == Spec => []CountedFailures
    <1>1. IInv => CountedFailures
        BY DEF IInv, PathInv
    <1>2. QED
        BY <1>1, InvariantHolds, PTL

\* The score of a result never contradicts its code.
THEOREM ScoresFollowCodes == Spec => []ScoreAgrees
    <1>1. IInv => ScoreAgrees
        BY DEF IInv, PathInv
    <1>2. QED
        BY <1>1, InvariantHolds, PTL

=============================================================================
