--------------------------------- MODULE MxPath ---------------------------------
(***************************************************************************)
(* One verification of an address whose domain no cache layer answers for: *)
(* lookupMx and checkMxExchangesAddressable (services/mx.service.ts), then *)
(* SmtpProbe over the hosts that have an address, then mapSmtpToResult     *)
(* (SmtpReply) and the score (Scoring).  DomainVerdicts is about the other *)
(* layers and about requests that overlap.                                 *)
(*                                                                         *)
(* Hosts are numbered in the order of normalizeMxRecords, by priority.     *)
(* Each action runs from one await of the pipeline to the next.            *)
(***************************************************************************)
EXTENDS SmtpProbe, Scoring, FiniteSets

CONSTANT DnsRetries   \* DNS_RETRIES

ASSUME PathAssumption == DnsRetries \in Nat

VARIABLES
    mode,     \* {force, skip, big, hop}: forceRefresh, skipSmtp, and whether the
              \* provider is throttled or may be asked at another MX
    stage,    \* what the verification awaits; "over" once it has its answer
    dns,      \* {kind, hosts}: the entry of the domain in the layer of lookupMx
    asks,     \* how the MX queries so far ended
    mx,       \* number of hosts in the MX records
    addr,     \* host -> {a, aaaa}: how its A query ended, and its AAAA query
    mxHosts,  \* routableExchanges, the hosts that have an address
    answer    \* {code, reason, counts}

pathVars == <<mode, stage, dns, asks, mx, addr, mxHosts, answer>>
vars == <<pathVars, probeVars>>

Host == 1 .. MaxHosts
Stage == {"start", "lookup", "hosts", "probe", "over"}
Mode == [force : BOOLEAN, skip : BOOLEAN, big : BOOLEAN, hop : BOOLEAN]

\* How an MX query ends: "nxdomain" is ENOTFOUND or EAI_NONAME, "nodata" is ENODATA
\* or an empty list; "servfail" stands for ESERVFAIL, EAI_AGAIN, ETIMEOUT and errors
\* without a code, "refused" for all other codes.
DnsFailure == {"timeout", "servfail", "refused"}
DnsAnswer == {"records", "nodata", "nxdomain"}

\* How an A or AAAA query ends: "no" is ENOTFOUND, EAI_NONAME or ENODATA, "timeout"
\* MX_HOST_DNS_TIMEOUT_MS, "fail" any other error.
AddrOutcome == {"addr", "empty", "no", "timeout", "fail"}

Entry(kind, hosts) == [kind |-> kind, hosts |-> hosts]
NoEntry == Entry("none", 0)
Entries == {NoEntry, Entry("nodata", 0), Entry("nxdomain", 0)} \cup {Entry("records", n) : n \in Host}

NoAnswer == Plain("none", "none")
Unasked == [a |-> "unasked", aaaa |-> "unasked"]
AllUnasked == [h \in Host |-> Unasked]

-----------------------------------------------------------------------------

Finish(x) ==
    /\ stage' = "over"
    /\ answer' = x
    /\ UNCHANGED probeVars

\* verifyOne goes on with what lookupMx returned.
LookedUp(kind, hosts) ==
    \/ /\ kind = "nxdomain"
       /\ Finish(Plain("undeliverable", "domain_invalid"))
       /\ UNCHANGED mx
    \/ /\ kind = "nodata"
       /\ Finish(Plain("undeliverable", "no_mx"))
       /\ UNCHANGED mx
    \/ /\ kind = "records"
       /\ stage' = "hosts"
       /\ mx' = hosts
       /\ UNCHANGED <<answer, probeVars>>

\* Mutant: a forced lookup leaves the old entry where it is.
ConsultKeeping ==
    /\ stage = "start"
    /\ \/ /\ mode.force \/ dns = NoEntry
          /\ stage' = "lookup"
          /\ UNCHANGED <<dns, mx, answer, probeVars>>
       \/ /\ ~mode.force /\ dns # NoEntry
          /\ LookedUp(dns.kind, dns.hosts)
          /\ UNCHANGED dns
    /\ UNCHANGED <<mode, asks, addr, mxHosts>>

\* lookupMx up to its first await: forceRefresh deletes the entry.
Consult ==
    /\ stage = "start"
    /\ \/ /\ mode.force \/ dns = NoEntry
          /\ dns' = NoEntry
          /\ stage' = "lookup"
          /\ UNCHANGED <<mx, answer, probeVars>>
       \/ /\ ~mode.force /\ dns # NoEntry
          /\ LookedUp(dns.kind, dns.hosts)
          /\ UNCHANGED dns
    /\ UNCHANGED <<mode, asks, addr, mxHosts>>

\* The query is answered, and the answer is cached.
MxAnswered(kind, hosts) ==
    /\ stage = "lookup"
    /\ kind = "records" <=> hosts > 0
    /\ dns' = Entry(kind, hosts)
    /\ asks' = IF kind = "records" THEN <<>> ELSE Append(asks, kind)
    /\ LookedUp(kind, hosts)
    /\ UNCHANGED <<mode, addr, mxHosts>>

\* Mutant: an error that is not transient ends the lookup at once.
MxFailedAtOnce(o) ==
    /\ stage = "lookup"
    /\ asks' = Append(asks, o)
    /\ \/ /\ Len(asks) < DnsRetries /\ o # "refused"
          /\ UNCHANGED <<stage, answer, probeVars>>
       \/ /\ Len(asks) = DnsRetries \/ o = "refused"
          /\ Finish(Plain(IF o = "refused" THEN "undeliverable" ELSE "retry_later", "mx_lookup"))
    /\ UNCHANGED <<mode, dns, mx, addr, mxHosts>>

\* The query failed: another try, or an error that the last failure alone makes
\* transient or not.  Nothing is cached.
MxFailed(o) ==
    /\ stage = "lookup"
    /\ asks' = Append(asks, o)
    /\ \/ /\ Len(asks) < DnsRetries
          /\ UNCHANGED <<stage, answer, probeVars>>
       \/ /\ Len(asks) = DnsRetries
          /\ Finish(Plain(IF o = "refused" THEN "undeliverable" ELSE "retry_later", "mx_lookup"))
    /\ UNCHANGED <<mode, dns, mx, addr, mxHosts>>

-----------------------------------------------------------------------------
(* checkMxExchangesAddressable *)

HasAddr(q) == q.a = "addr" \/ q.aaaa = "addr"

\* Both queries were made, or the first gave an address.
Known(q) == HasAddr(q) \/ q.aaaa # "unasked"

\* Mutant: one of the two queries is enough to give the host up.
NoAddressEither(q) == q.a = "no" \/ q.aaaa = "no"

\* Only two definite answers make a failure permanent: a host without an A
\* record may still have an AAAA record.
NoAddress(q) == q.a = "no" /\ q.aaaa = "no"

\* The host whose addresses are being looked up.
InTurn == Cardinality({h \in Host : Known(addr[h])}) + 1

Having(known) == {h \in 1 .. mx : HasAddr(known[h])}

\* All hosts are known: verifyOne answers, or probes those that have an address.
Routed(known) ==
    \/ /\ Having(known) = {}
       /\ addr' = known
       /\ Finish(IF \A h \in 1 .. mx : NoAddress(known[h])
                 THEN Plain("undeliverable", "mx_unreachable")
                 ELSE Answer("retry_later", "mx_unreachable", "mx_host_dns"))
       /\ UNCHANGED mxHosts
    \/ /\ Having(known) # {}
       /\ addr' = AllUnasked
       /\ mxHosts' = Having(known)
       /\ \/ mode.skip /\ Finish(Plain("unknown", "smtp_skipped"))
          \/ /\ ~mode.skip
             /\ stage' = "probe"
             /\ Probe([hosts |-> Cardinality(Having(known)), big |-> mode.big, hop |-> mode.hop])
             /\ UNCHANGED answer

\* A query about the host in turn ended, and its records are now q.  After the
\* last one verifyOne goes on.
Resolved(q) ==
    LET known == [addr EXCEPT ![InTurn] = q]
    IN  /\ \/ /\ ~Known(q) \/ InTurn < mx
              /\ addr' = known
              /\ UNCHANGED <<stage, mxHosts, answer, probeVars>>
           \/ /\ Known(q) /\ InTurn = mx
              /\ Routed(known)
        /\ UNCHANGED <<mode, dns, asks, mx>>

\* resolveMxHostAddrs: resolve4, then resolve6 unless it has an address.
ResolveA(o) == addr[InTurn].a = "unasked" /\ Resolved([Unasked EXCEPT !.a = o])
ResolveAAAA(o) == addr[InTurn].a # "unasked" /\ Resolved([addr[InTurn] EXCEPT !.aaaa = o])

-----------------------------------------------------------------------------
(* The probe *)

\* mapSmtpToResult.  A failure that counts makes the result undeliverable when it
\* is one of many (DomainVerdicts!PathFailure); here it stays retry_later.
MapResult(x) ==
    IF x.kind = "rcpt"
    THEN MapReply(x.reply)
    ELSE MapFailure([error |-> x.error, errno |-> x.errno])

ProbeGoesOn ==
    /\ stage = "probe"
    /\ SessionEnds
    /\ \/ pc' = "open" /\ UNCHANGED <<stage, answer>>
       \/ /\ pc' = "done"
          /\ stage' = "over"
          /\ answer' = MapResult(result')
    /\ UNCHANGED <<mode, dns, asks, mx, addr, mxHosts>>

\* The layer of lookupMx may hold anything an earlier verification left there.
Init ==
    /\ ProbeInit
    /\ mode \in Mode
    /\ ~(mode.big /\ mode.hop) /\ (mode.skip => ~mode.big /\ ~mode.hop)
    /\ stage = "start"
    /\ dns \in Entries
    /\ asks = <<>>
    /\ mx = 0
    /\ addr = AllUnasked
    /\ mxHosts = {}
    /\ answer = NoAnswer

Next ==
    \/ Consult
    \/ \E kind \in DnsAnswer, hosts \in 0 .. MaxHosts : MxAnswered(kind, hosts)
    \/ \E o \in DnsFailure : MxFailed(o)
    \/ stage = "hosts" /\ \E o \in AddrOutcome : ResolveA(o) \/ ResolveAAAA(o)
    \/ ProbeGoesOn

Spec == Init /\ [][Next]_vars

-----------------------------------------------------------------------------
(* Properties *)

\* Failed queries are tried again and definite ones are not: the lookup reports an
\* error only after DnsRetries more queries failed as well, and a definite answer
\* ends it.  What the layer holds afterwards is what DNS just said; after a forced
\* lookup it is never what it held before (mx.service.ts:42).
LookupConcludes ==
    /\ \A i \in DOMAIN asks : asks[i] \in DnsAnswer => i = Len(asks) /\ dns = Entry(asks[i], 0)
    /\ answer.reason = "mx_lookup" => Len(asks) = DnsRetries + 1
    /\ stage # "start" /\ (mode.force \/ asks # <<>>) =>
          \/ dns = NoEntry
          \/ asks # <<>> /\ Last(asks) = dns.kind
          \/ dns = Entry("records", mx)

\* A 5xx that is not about the station's reputation or rate, nor a 552, nor a 551 that
\* names another route.
Refuses(r) ==
    /\ r.code \in 500 .. 599 \ {552}
    /\ ~Blocks(r)
    /\ ~(r.code = 551 /\ "routing" \in r.says /\ "nouser" \notin r.says)

RejectsMailbox(r) == Refuses(r) /\ r.at = "RCPT" /\ "later" \notin r.says
RejectsSender(r) == Refuses(r) /\ r.at # "RCPT"
AsksAgain(r) == Refuses(r) /\ "later" \in r.says

\* The address is called undeliverable for these causes only: the domain or its MX do
\* not exist; every MX host has neither an A nor an AAAA record; a host rejected the
\* mailbox; and three that the code makes no difference of.  The last MX query failed
\* with an error that is not on the list of transient ones (mx.service.ts:88).  A host
\* refused MAIL FROM, although only mailbox rejects are meant to become undeliverable
\* (verification.service.ts:97).  A host asked in a 5xx to try again, which is not meant
\* to be a permanent reject (smtp-code-parser.service.ts:98).  A 4xx, a text about the
\* station, a failed session and a host of which one address query failed never are a
\* cause, whatever came before.
UndeliverableForCause ==
    answer.code = "undeliverable" =>
        \/ dns.kind \in {"nxdomain", "nodata"}
        \/ mx > 0 /\ \A h \in 1 .. mx : addr[h].a = "no" /\ addr[h].aaaa = "no"
        \/ result.kind = "rcpt" /\ RejectsMailbox(result.reply)
        \/ asks # <<>> /\ Last(asks) = "refused"
        \/ result.kind = "rcpt" /\ RejectsSender(result.reply)
        \/ result.kind = "rcpt" /\ AsksAgain(result.reply)

\* The address is called valid only when a host with an address accepted it, with
\* 2xx that is not the noncommittal 252.
ValidIsAccepted ==
    answer.code = "valid" =>
        /\ mxHosts # {}
        /\ result.kind = "rcpt" /\ result.reply.code \in 200 .. 299 \ {252}

\* A failure counts against the domain (recordMxPathFailure) only when the result is
\* to be tried again, and for two reasons.  Either no host has an address, though not
\* all of them definitely have none, and nothing was probed; here a query that timed
\* out counts like one that failed otherwise, although env.ts:201 and
\* mx-failure-tracker.service.ts:12 say that timeouts are not counted.  Or the probe
\* went to the last routable host without a definite answer to MAIL or RCPT, and its
\* last session failed, other than by a timeout of the session or the socket; a host
\* that greets with other than 220 or refuses HELO fails its session as a closed one
\* does.
CountedFailures ==
    answer.counts # "none" =>
        /\ answer.code = "retry_later"
        /\ \/ /\ answer.counts = "mx_host_dns" /\ mxHosts = {} /\ log = <<>>
              /\ \A h \in 1 .. mx : addr[h].a # "addr" /\ addr[h].aaaa # "addr"
              /\ \E h \in 1 .. mx : addr[h].a # "no" \/ addr[h].aaaa # "no"
           \/ /\ answer.counts = "smtp"
              /\ Last(log).host = Cardinality(mxHosts)
              /\ \A i \in DOMAIN log : log[i].out # "final"
              /\ Last(log).out \notin Answers \cup {"timeout"}
              /\ SocketReason([error |-> result.error, errno |-> result.errno]) # "smtp_timeout"

Scores(free) == ScoreOf(answer.code, answer.reason, free, "risky")

\* Two tables that know nothing of each other agree: an outcome to be tried again
\* carries no score, only an undeliverable address is in that class, and only a
\* valid one is better than unknown (README.md section 9).
ScoreAgrees ==
    stage = "over" => \A free \in BOOLEAN :
        /\ Scores(free).deliverability = "omitted" <=>
              answer.code \in {"retry_later", "greylisted"} \/ answer.reason = "smtp_252"
        /\ Scores(free).deliverability = "undeliverable" <=> answer.code = "undeliverable"
        /\ Scores(free).deliverability \in {"deliverable", "risky"} <=> answer.code = "valid"

=============================================================================
