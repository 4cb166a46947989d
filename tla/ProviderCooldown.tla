---------------------------- MODULE ProviderCooldown ----------------------------
(***************************************************************************)
(* The SMTP cooldown of the big mail providers                             *)
(* (services/provider-cooldown.service.ts) and its SQLite table            *)
(* (repositories/cooldown-persist.repository.ts).                          *)
(*                                                                         *)
(* The environment is every caller of the exported functions: they are     *)
(* called in any order and at any time, as the unit tests call them;       *)
(* CooledProbes composes the module with the pipeline that really calls    *)
(* it.  Every function runs to completion on the event loop, so each one   *)
(* is a single step.  The provider "other" is left out: each function      *)
(* returns early for it.                                                   *)
(***************************************************************************)
EXTENDS Integers, Sequences, FiniteSets

CONSTANTS
    Provider,        \* the throttled providers (BigProviderId without "other")
    TierMin,         \* tier -> the shortest duration durationForTier can draw
    TierMax,         \* tier -> the longest one
    Window,          \* kind of stamp -> length of its sliding window
    Limit,           \* kind of stamp -> the count that applies a cooldown
    Gap,             \* minimum interval between two uses of a provider (0: off)
    PersistEnabled,  \* PROVIDER_COOLDOWN_PERSIST
    DbFaults,        \* TRUE: a SQLite write may fail (it is logged and ignored)
    MaxNow,          \* bound: the clock stops here
    MaxBlocks        \* bound: no event is offered to a provider blocked this often

Tier == 1 .. 4
Kind == {"timeout", "temp451", "unknown"}

ASSUME TiersAssumption ==
    /\ TierMin \in [Tier -> Nat \ {0}]
    /\ TierMax \in [Tier -> Nat \ {0}]
    /\ \A t \in Tier : TierMin[t] <= TierMax[t]
    /\ \A t \in 1 .. 3 : TierMax[t] < TierMin[t + 1]

ASSUME WindowsAssumption ==
    /\ Window \in [Kind -> Nat \ {0}]
    /\ Limit \in [Kind -> Nat \ {0}]

ASSUME BoundsAssumption ==
    /\ Gap \in Nat
    /\ PersistEnabled \in BOOLEAN
    /\ DbFaults \in BOOLEAN
    /\ MaxNow \in Nat \ {0}
    /\ MaxBlocks \in Nat

VARIABLES
    now,      \* Date.now(), never 0
    up,       \* the process runs (memory is lost when it does not)
    cool,     \* provider -> {until, blockCount, lastSmtpAt} held in memory
    stamps,   \* provider -> kind -> the times of the recent soft failures
    greyAt,   \* lastIndex of the shared /greylist/gi pattern is not 0
    row       \* provider -> the same three fields in the provider_cooldown table

cooldownVars == <<cool, stamps, greyAt, row>>
vars == <<now, up, cool, stamps, greyAt, row>>

CoolState == [until : Nat, blockCount : Nat, lastSmtpAt : Nat]

\* What getOrInit creates.  A provider without an entry (or without a row)
\* answers every query as this one does, so the two are not told apart.
Fresh == [until |-> 0, blockCount |-> 0, lastSmtpAt |-> 0]
NoStamps == [k \in Kind |-> <<>>]

-----------------------------------------------------------------------------
(* Queries *)

Blocked(p) == cool[p].until > now

\* providerSmtpAllowNow: 0 stands for { ok: true }.
WaitFor(p) ==
    LET elapsed == now - cool[p].lastSmtpAt
    IN  IF cool[p].lastSmtpAt # 0 /\ elapsed < Gap THEN Gap - elapsed ELSE 0

\* The tier of a provider that is being blocked for the n-th time.
TierOf(n) == IF n <= 1 THEN 1 ELSE IF n >= 4 THEN 4 ELSE n

\* Stamps are appended in clock order: what the filter "t > now - windowMs"
\* keeps is what is left after the expired prefix.
Prune(s, w) == SubSeq(s, 1 + Cardinality({i \in DOMAIN s : s[i] <= now - w}), Len(s))

-----------------------------------------------------------------------------
(* Steps shared by the handlers.  s is the record of p as the handler finds  *)
(* it: cool[p], or cool[p] just touched by a call earlier in the same step.  *)

\* persistIfEnabled: the row follows the memory unless SQLite fails.
Persist(p, s) ==
    \/ PersistEnabled /\ row' = [row EXCEPT ![p] = s]
    \/ (~PersistEnabled \/ DbFaults) /\ UNCHANGED row

\* Mutant: after a write the other providers take what the table holds.
StoreReloading(p, s) ==
    /\ cool' = [q \in Provider |-> IF q = p THEN s ELSE row[q]]
    /\ Persist(p, s)

Store(p, s) ==
    /\ cool' = [cool EXCEPT ![p] = s]
    /\ Persist(p, s)

\* The handler has nothing to add to s.
Keep(p, s) == IF s = cool[p] THEN UNCHANGED <<cool, row>> ELSE Store(p, s)

\* Mutant: the duration is added to what is left of the previous block.
BumpExtending(p, s) ==
    LET n == s.blockCount + 1
        from == IF s.until > now THEN s.until ELSE now
    IN  \E d \in TierMin[TierOf(n)] .. TierMax[TierOf(n)] :
            Store(p, [s EXCEPT !.until = from + d, !.blockCount = n])

\* Mutant: the operands of the deadline are swapped into a difference.
BumpDifference(p, s) ==
    LET n == s.blockCount + 1
    IN  \E d \in TierMin[TierOf(n)] .. TierMax[TierOf(n)] :
            Store(p, [s EXCEPT !.until = d - now, !.blockCount = n])

\* bumpCooldown: one block more, and a duration drawn from its tier.
Bump(p, s) ==
    LET n == s.blockCount + 1
    IN  \E d \in TierMin[TierOf(n)] .. TierMax[TierOf(n)] :
            Store(p, [s EXCEPT !.until = now + d, !.blockCount = n])

\* Mutant: the window is not emptied when it applies a cooldown.
StampKeeping(p, k, s) ==
    LET recent == Append(Prune(stamps[p][k], Window[k]), now)
    IN  /\ stamps' = [stamps EXCEPT ![p][k] = recent]
        /\ IF Len(recent) >= Limit[k] THEN Bump(p, s) ELSE Keep(p, s)

\* A soft failure: the one that fills its window applies a cooldown.
Stamp(p, k, s) ==
    LET recent == Append(Prune(stamps[p][k], Window[k]), now)
    IN  \/ /\ Len(recent) >= Limit[k]
           /\ Bump(p, s)
           /\ stamps' = [stamps EXCEPT ![p][k] = <<>>]
        \/ /\ Len(recent) < Limit[k]
           /\ stamps' = [stamps EXCEPT ![p][k] = recent]
           /\ Keep(p, s)

-----------------------------------------------------------------------------
(* Replies, reduced to what recordSmtpApplicationResult tells apart *)

Sort == {"accept", "policy", "421", "450_451", "adverse", "protocol"}
Text == {"plain", "rate", "greylist"}
Reply == [sort : Sort, text : Text]

\* code >= 400, or class "temporary" or "permanent_reject"
Adverse(r) == r.sort \notin {"accept", "protocol"}

\* Whether one of RATE_OR_POLICY matches the text.  Only /greylist/gi has the
\* g flag: after a match the next test() starts at lastIndex, where the word
\* may lie behind it (FALSE) or still ahead (TRUE).
TextHits(r) ==
    CASE r.text = "plain" -> {FALSE}
      [] r.text = "rate" -> {TRUE}
      [] r.text = "greylist" -> IF greyAt THEN BOOLEAN ELSE {TRUE}

\* lastIndex after the scan: a hit on an earlier pattern of an adverse reply
\* returns before the shared pattern is tested.
GreyAfter(r, hit) ==
    CASE r.text = "greylist" -> hit
      [] r.text = "rate" /\ Adverse(r) -> greyAt
      [] OTHER -> FALSE

\* What the reply code alone asks for.
ByCode(p, r, s) ==
    \/ r.sort = "421" /\ Bump(p, s) /\ UNCHANGED stamps
    \/ r.sort = "450_451" /\ Stamp(p, "temp451", s)
    \/ r.sort = "protocol" /\ Stamp(p, "unknown", s)
    \/ r.sort \in {"accept", "adverse"} /\ Keep(p, s) /\ UNCHANGED stamps

\* recordSmtpApplicationResult
RecordReply(p, r, s) ==
    \/ /\ r.sort = "policy"
       /\ Bump(p, s)
       /\ UNCHANGED <<stamps, greyAt>>
    \/ /\ r.sort # "policy"
       /\ \E hit \in TextHits(r) :
             /\ greyAt' = GreyAfter(r, hit)
             /\ \/ hit /\ Adverse(r) /\ Bump(p, s) /\ UNCHANGED stamps
                \/ ~(hit /\ Adverse(r)) /\ ByCode(p, r, s)

\* recordSmtpNetworkFailure of kind "timeout", and of the kinds of connect errors
RecordTimeout(p) == Stamp(p, "timeout", cool[p]) /\ UNCHANGED greyAt

RecordConnectFailure(p) == Bump(p, cool[p]) /\ UNCHANGED <<stamps, greyAt>>

\* Mutant: the time of use stays in memory only.
RecordUseUnsaved(p) ==
    /\ cool' = [cool EXCEPT ![p].lastSmtpAt = now]
    /\ UNCHANGED <<stamps, greyAt, row>>

\* recordProviderSmtpUse
Touched(p) == [cool[p] EXCEPT !.lastSmtpAt = now]

RecordUse(p) ==
    /\ Store(p, Touched(p))
    /\ UNCHANGED <<stamps, greyAt>>

\* resetProviderCooldown: memory and rows; the rows stay if SQLite fails.
ClearProviders(S) ==
    /\ cool' = [p \in Provider |-> IF p \in S THEN Fresh ELSE cool[p]]
    /\ stamps' = [p \in Provider |-> IF p \in S THEN NoStamps ELSE stamps[p]]
    /\ \/ /\ PersistEnabled
          /\ row' = [p \in Provider |-> IF p \in S THEN Fresh ELSE row[p]]
       \/ (~PersistEnabled \/ DbFaults) /\ UNCHANGED row
    /\ UNCHANGED greyAt

-----------------------------------------------------------------------------
(* Actions *)

Serving(p) == up /\ cool[p].blockCount < MaxBlocks

ApplicationResult(p, r) == Serving(p) /\ RecordReply(p, r, cool[p]) /\ UNCHANGED <<now, up>>
NetworkTimeout(p) == Serving(p) /\ RecordTimeout(p) /\ UNCHANGED <<now, up>>
ConnectFailure(p) == Serving(p) /\ RecordConnectFailure(p) /\ UNCHANGED <<now, up>>
SmtpUse(p) == up /\ RecordUse(p) /\ UNCHANGED <<now, up>>

\* POST /v1/cooldown/reset, for one provider or for all of them.
Reset(p) == up /\ ClearProviders({p}) /\ UNCHANGED <<now, up>>
ResetAll == up /\ ClearProviders(Provider) /\ UNCHANGED <<now, up>>

Tick ==
    /\ now < MaxNow
    /\ now' = now + 1
    /\ UNCHANGED <<up, cooldownVars>>

\* The process exits: what only the memory holds is gone.
Crash ==
    /\ up
    /\ up' = FALSE
    /\ cool' = [p \in Provider |-> Fresh]
    /\ stamps' = [p \in Provider |-> NoStamps]
    /\ greyAt' = FALSE
    /\ UNCHANGED <<now, row>>

\* Mutant: an expired row is dropped together with its block count.
LoadedFresh(s) == IF s.until <= now THEN Fresh ELSE s

\* Mutant: the deadline is trimmed without looking at the clock.
LoadedUnblocked(s) == IF s.blockCount > 0 THEN [s EXCEPT !.until = 0] ELSE s

\* A row read back: a block that ran out meanwhile keeps only its count.
Loaded(s) == IF s.until <= now /\ s.blockCount > 0 THEN [s EXCEPT !.until = 0] ELSE s

\* initializeProviderCooldownModule, before the server listens.  A table that
\* cannot be read is logged and the process serves with an empty memory.
Boot ==
    /\ ~up
    /\ up' = TRUE
    /\ \/ PersistEnabled /\ cool' = [p \in Provider |-> Loaded(row[p])]
       \/ (~PersistEnabled \/ DbFaults) /\ UNCHANGED cool
    /\ UNCHANGED <<now, stamps, greyAt, row>>

Init ==
    /\ now = 1
    /\ up = TRUE
    /\ cool = [p \in Provider |-> Fresh]
    /\ stamps = [p \in Provider |-> NoStamps]
    /\ greyAt = FALSE
    /\ row = [p \in Provider |-> Fresh]

Next ==
    \/ \E p \in Provider :
          \/ \E r \in Reply : ApplicationResult(p, r)
          \/ NetworkTimeout(p)
          \/ ConnectFailure(p)
          \/ SmtpUse(p)
          \/ Reset(p)
    \/ ResetAll
    \/ Tick
    \/ Crash
    \/ Boot

Spec == Init /\ [][Next]_vars

-----------------------------------------------------------------------------
(* Properties *)

\* The types of the variables.
TypeOK ==
    /\ now \in Nat \ {0}
    /\ up \in BOOLEAN
    /\ cool \in [Provider -> CoolState]
    /\ stamps \in [Provider -> [Kind -> Seq(Nat)]]
    /\ greyAt \in BOOLEAN
    /\ row \in [Provider -> CoolState]

\* What of a record still has an effect.
Effect(s) == [s EXCEPT !.until = IF @ > now THEN @ ELSE 0]

\* The table is never behind the memory: a crash at any moment loses no
\* running cooldown, no step of the escalation and no time of last use
\* (docs/DOCKER.md: behaviour is stable across restarts).  Holds when
\* persistence is on and SQLite writes succeed.
DurableView == up => \A p \in Provider : Effect(cool[p]) = Effect(row[p])

\* The record that will govern a provider: memory, or the table while down.
Governing(p) == IF up THEN cool[p] ELSE row[p]

\* A provider is never blocked for longer than the tier of its blockCount
\* allows, in memory and after a restart, whatever was recorded meanwhile.
BoundedBlock ==
    \A p \in Provider : \A s \in {cool[p], row[p]} :
        s.until > now => /\ s.blockCount > 0
                         /\ s.until <= now + TierMax[TierOf(s.blockCount)]

\* The escalation memory: across bumps, expiry, crashes and restarts the block
\* count of a provider only grows, until an operator resets it.
EscalationKept ==
    [][\A p \in Provider :
          \/ Governing(p)'.blockCount >= Governing(p).blockCount
          \/ Reset(p)
          \/ ResetAll]_vars

\* A running cooldown is never cut short: until it is over it ends earlier
\* only by a reset, or by a further block that is already in the open-ended
\* tier, where the new random duration may be the shorter one.
NeverCutShort ==
    [][\A p \in Provider :
          Governing(p).until > now' =>
              \/ Governing(p)'.until >= Governing(p).until
              \/ Reset(p)
              \/ ResetAll
              \/ Governing(p).blockCount >= 4]_vars

\* The same promise when SQLite writes may fail and providers are reset one by
\* one: as long as the process runs, memory alone keeps a cooldown in force,
\* and nothing done for another provider ends it.
HeldInMemory ==
    [][up /\ up' => \A p \in Provider :
          cool[p].until > now' =>
              \/ cool'[p].until >= cool[p].until
              \/ Reset(p)
              \/ ResetAll
              \/ cool[p].blockCount >= 4]_vars

\* The times of a window are in clock order and none lies ahead.
Ordered(s) ==
    /\ \A i \in 1 .. Len(s) : s[i] <= now
    /\ \A i, j \in 1 .. Len(s) : i <= j => s[i] <= s[j]

\* The sliding windows are sane: a window that fills is emptied by the cooldown
\* it applies, and stamps are in clock order, so pruning a prefix is filtering.
WindowsBelowLimit ==
    \A p \in Provider, k \in Kind :
        LET s == stamps[p][k]
        IN  Len(s) < Limit[k] /\ Ordered(s)

=============================================================================
