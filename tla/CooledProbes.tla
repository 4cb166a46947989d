------------------------------ MODULE CooledProbes ------------------------------
(***************************************************************************)
(* Verifications of addresses at throttled providers: ProviderCooldown     *)
(* composed with its callers.  verifyOne (services/verification.service.ts)*)
(* looks at the cooldown, may sleep for the spacing of probes, waits in    *)
(* the p-limit queue of the provider                                       *)
(* (services/provider-smtp-concurrency.service.ts) and records what the    *)
(* probe saw only when it is over; other verifications run at every await  *)
(* in between.                                                             *)
(***************************************************************************)
EXTENDS ProviderCooldown

CONSTANTS
    Verification,    \* the requests in flight at one time
    ProviderOf,      \* verification -> provider of its domain
    MaxConcurrent    \* MAX_CONCURRENT_PER_PROVIDER

ASSUME FlowAssumption ==
    /\ ProviderOf \in [Verification -> Provider]
    /\ MaxConcurrent \in Nat \ {0}

VARIABLES
    phase,   \* verification -> where verifyOne is
    wake,    \* verification -> when its sleep is over (0: it does not sleep)
    line,    \* provider -> the verifications waiting in its p-limit queue
    passed   \* history: the waiting verifications since whose look at the spacing
             \* another use of their provider was recorded

flowVars == <<phase, wake, line, passed>>
allVars == <<vars, flowVars>>

\* "answered": the probe ended in a reply that is not recorded yet;
\* "failed": it ended in a failure, recorded by the probe itself or not at all.
Phase == {"idle", "spacing", "queued", "probing", "answered", "failed"}

In(p, ph) == {v \in Verification : ProviderOf[v] = p /\ phase[v] = ph}

\* The verifications past the gate whose outcome the cooldown may still hear of.
Pending(p) == UNION {In(p, ph) : ph \in {"spacing", "queued", "probing", "answered"}}

-----------------------------------------------------------------------------

Goto(v, ph) == phase' = [phase EXCEPT ![v] = ph]

\* Mutant: the pipeline goes on whatever the gate says.
VerifyUngated(v) ==
    LET p == ProviderOf[v]
    IN  /\ up
        /\ phase[v] = "idle"
        /\ cool[p].blockCount + Cardinality(Pending(p)) < MaxBlocks
        /\ now + WaitFor(p) <= MaxNow
        /\ Goto(v, "queued")
        /\ line' = [line EXCEPT ![p] = Append(@, v)]
        /\ UNCHANGED <<vars, wake, passed>>

\* verifyOne up to its first await after the gate: while the provider cools it
\* returns retry_later at once (a step that changes nothing); else it sleeps,
\* or calls probeRcpt, which queues it.  The bounds: what is pending may still
\* raise blockCount, and a sleep ends before the clock stops.
Verify(v) ==
    LET p == ProviderOf[v]
    IN  /\ up
        /\ phase[v] = "idle"
        /\ ~Blocked(p)
        /\ cool[p].blockCount + Cardinality(Pending(p)) < MaxBlocks
        /\ now + WaitFor(p) <= MaxNow
        /\ \/ /\ WaitFor(p) > 0
              /\ Goto(v, "spacing")
              /\ wake' = [wake EXCEPT ![v] = now + WaitFor(p)]
              /\ UNCHANGED line
           \/ /\ WaitFor(p) = 0
              /\ Goto(v, "queued")
              /\ line' = [line EXCEPT ![p] = Append(@, v)]
              /\ UNCHANGED wake
        /\ UNCHANGED <<vars, passed>>

\* Mutant: the first turn of the event loop resumes the sleeper.
WakeEarly(v) ==
    /\ phase[v] = "spacing"
    /\ Goto(v, "queued")
    /\ wake' = [wake EXCEPT ![v] = 0]
    /\ line' = [line EXCEPT ![ProviderOf[v]] = Append(@, v)]
    /\ UNCHANGED <<vars, passed>>

\* The sleep is over: neither the cooldown nor the spacing is looked at again.
Wake(v) ==
    /\ phase[v] = "spacing"
    /\ now >= wake[v]
    /\ Goto(v, "queued")
    /\ wake' = [wake EXCEPT ![v] = 0]
    /\ line' = [line EXCEPT ![ProviderOf[v]] = Append(@, v)]
    /\ UNCHANGED <<vars, passed>>

\* Mutant: the limit is compared before the probe that starts is counted.
OpenOneMore(p) ==
    /\ line[p] # <<>>
    /\ Cardinality(In(p, "probing")) <= MaxConcurrent
    /\ Goto(Head(line[p]), "probing")
    /\ line' = [line EXCEPT ![p] = Tail(@)]
    /\ passed' = passed \ {Head(line[p])}
    /\ UNCHANGED <<vars, wake>>

\* p-limit starts the head of the queue when a slot is free.
Open(p) ==
    /\ line[p] # <<>>
    /\ Cardinality(In(p, "probing")) < MaxConcurrent
    /\ Goto(Head(line[p]), "probing")
    /\ line' = [line EXCEPT ![p] = Tail(@)]
    /\ passed' = passed \ {Head(line[p])}
    /\ UNCHANGED <<vars, wake>>

\* The probe returns and frees its slot: with a reply; with a failure that it
\* records (SmtpProbe: every one but a timeout, or an unlisted error of the
\* last host); or with one that it does not.
ProbeAnswered(v) ==
    /\ phase[v] = "probing"
    /\ Goto(v, "answered")
    /\ UNCHANGED <<vars, wake, line, passed>>

ProbeRefused(v) ==
    /\ phase[v] = "probing"
    /\ RecordConnectFailure(ProviderOf[v])
    /\ Goto(v, "failed")
    /\ UNCHANGED <<now, up, wake, line, passed>>

ProbeTimedOut(v) ==
    /\ phase[v] = "probing"
    /\ Goto(v, "failed")
    /\ UNCHANGED <<vars, wake, line, passed>>

\* Mutant: only a reply resumes the caller.
SettleAnswered(v) ==
    LET p == ProviderOf[v]
    IN  /\ phase[v] = "answered"
        /\ \E r \in Reply : r.sort # "protocol" /\ RecordReply(p, r, Touched(p))
        /\ Goto(v, "idle")
        /\ passed' = passed \cup In(p, "spacing") \cup In(p, "queued")
        /\ UNCHANGED <<now, up, wake, line>>

\* verifyOne resumes after the await: recordProviderSmtpUse, then
\* mapSmtpToResult, which records a reply; one run of the event loop.
\* toRcpt turns a protocol_error into a failure, so none is recorded here.
Settle(v) ==
    LET p == ProviderOf[v]
    IN  /\ \/ phase[v] = "failed" /\ RecordUse(p)
           \/ /\ phase[v] = "answered"
              /\ \E r \in Reply : r.sort # "protocol" /\ RecordReply(p, r, Touched(p))
        /\ Goto(v, "idle")
        /\ passed' = passed \cup In(p, "spacing") \cup In(p, "queued")
        /\ UNCHANGED <<now, up, wake, line>>

\* An operator's reset and the clock leave the requests alone; a crash ends them.
Around ==
    /\ (\E p \in Provider : Reset(p)) \/ ResetAll \/ Tick \/ Boot
    /\ UNCHANGED flowVars

Down ==
    /\ Crash
    /\ phase' = [v \in Verification |-> "idle"]
    /\ wake' = [v \in Verification |-> 0]
    /\ line' = [p \in Provider |-> <<>>]
    /\ passed' = {}

FlowInit ==
    /\ Init
    /\ phase = [v \in Verification |-> "idle"]
    /\ wake = [v \in Verification |-> 0]
    /\ line = [p \in Provider |-> <<>>]
    /\ passed = {}

Return(v) == ProbeAnswered(v) \/ ProbeRefused(v) \/ ProbeTimedOut(v)

FlowNext ==
    \/ \E v \in Verification : Verify(v) \/ Wake(v) \/ Return(v) \/ Settle(v)
    \/ \E p \in Provider : Open(p)
    \/ Around
    \/ Down

\* Time passes, timers fire, p-limit dequeues, every session is under timers
\* (SMTP_SESSION_MAX_MS), and promises that are resolved are resumed.  Nothing
\* is assumed of requests, operators, or crashes.
Fairness ==
    /\ WF_allVars(Tick /\ UNCHANGED flowVars)
    /\ \A v \in Verification :
          WF_allVars(Wake(v)) /\ WF_allVars(Return(v)) /\ WF_allVars(Settle(v))
    /\ \A p \in Provider : WF_allVars(Open(p))

FlowSpec == FlowInit /\ [][FlowNext]_allVars /\ Fairness

-----------------------------------------------------------------------------
(* Properties *)

\* Nobody is lost or probed twice: the queue of a provider holds exactly its
\* waiting verifications, each once, and no more probes run than the limit
\* allows, whatever crashes and resets happen meanwhile.
LineHoldsTheWaiting ==
    \A p \in Provider :
        /\ {line[p][i] : i \in DOMAIN line[p]} = In(p, "queued")
        /\ Len(line[p]) = Cardinality(In(p, "queued"))
        /\ Cardinality(In(p, "probing")) <= MaxConcurrent

\* What a running cooldown can still be charged with is what was past the gate
\* when it began: while it runs no new probe is admitted, and each pending one
\* raises the block count at most once.
EscalationCharged ==
    [][\A p \in Provider :
          Blocked(p) /\ Blocked(p)' =>
              cool'[p].blockCount + Cardinality(Pending(p)')
                  <= cool[p].blockCount + Cardinality(Pending(p))]_allVars

\* Every verification comes to an end: nobody sleeps, waits or probes for ever.
EveryVerificationEnds == \A v \in Verification : phase[v] # "idle" ~> phase[v] = "idle"

\* The minimum spacing of probes (env.ts:129) holds of every use that was known
\* when a verification looked: one that starts within the interval since the
\* last use was passed by it, in its sleep or in the queue.  More does not hold:
\* the spacing is looked at before the queue and the use is recorded after the
\* probe, so probes that overlap start back to back.
SpacedFromKnownUse ==
    [][\A p \in Provider :
          Open(p) /\ WaitFor(p) > 0 => Head(line[p]) \in passed]_allVars

=============================================================================
