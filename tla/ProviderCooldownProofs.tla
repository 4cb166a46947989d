------------------------- MODULE ProviderCooldownProofs -------------------------
(* Theorems about ProviderCooldown, for every set of providers, every table of *)
(* durations and windows that satisfies its assumptions, and every bound.      *)
EXTENDS ProviderCooldown, FiniteSetTheorems, SequenceTheorems, TLAPS

-----------------------------------------------------------------------------
(* The tables of durations *)

\* Every block count names a tier with a positive range of durations.
LEMMA TierRange ==
    ASSUME NEW n \in Nat
    PROVE  /\ TierOf(n) \in Tier
           /\ TierMin[TierOf(n)] \in Nat \ {0}
           /\ TierMax[TierOf(n)] \in Nat \ {0}
    BY TiersAssumption DEF TierOf, Tier

\* Below the open-ended tier, the next block is longer than the running one can
\* still last.
LEMMA NextTierLonger ==
    ASSUME NEW n \in Nat, n > 0, n < 4
    PROVE  TierMax[TierOf(n)] < TierMin[TierOf(n + 1)]
    <1>1. n \in 1 .. 3
        OBVIOUS
    <1>2. TierOf(n) = n /\ TierOf(n + 1) = n + 1
        BY <1>1 DEF TierOf
    <1>3. QED
        BY <1>1, <1>2, TiersAssumption

-----------------------------------------------------------------------------
(* Pruning a window *)

\* Pruning keeps a suffix: nothing new appears and the order stays.
LEMMA PruneSuffix ==
    ASSUME NEW s \in Seq(Nat), NEW w \in Nat, now \in Nat
    PROVE  \E d \in 0 .. Len(s) :
              /\ Prune(s, w) \in Seq(Nat)
              /\ Len(Prune(s, w)) = Len(s) - d
              /\ \A i \in 1 .. Len(s) - d : Prune(s, w)[i] = s[i + d]
    <1> DEFINE old == {i \in DOMAIN s : s[i] <= now - w}
               d == Cardinality(old)
    <1>0. Len(s) \in Nat
        OBVIOUS
    <1>1. IsFiniteSet(1 .. Len(s)) /\ Cardinality(1 .. Len(s)) = Len(s)
        <2>1. /\ IsFiniteSet(1 .. Len(s))
              /\ Cardinality(1 .. Len(s)) = IF 1 > Len(s) THEN 0 ELSE Len(s) - 1 + 1
            BY <1>0, FS_Interval, 1 \in Int, Len(s) \in Int
        <2>2. QED
            BY <1>0, <2>1
    <1>2. old \in SUBSET (1 .. Len(s))
        OBVIOUS
    <1>3. IsFiniteSet(old) /\ d <= Len(s)
        BY <1>1, <1>2, FS_Subset
    <1>4. d \in 0 .. Len(s)
        BY <1>3, FS_CardinalityType
    <1> HIDE DEF d
    <1>5. \A i \in 1 + d .. Len(s) : s[i] \in Nat
        BY <1>4
    <1>6. /\ SubSeq(s, 1 + d, Len(s)) \in Seq(Nat)
          /\ Len(SubSeq(s, 1 + d, Len(s))) = Len(s) - d
          /\ \A i \in 1 .. Len(s) - d : SubSeq(s, 1 + d, Len(s))[i] = s[i + d]
        BY <1>4, <1>5, SubSeqProperties
    <1>7. Prune(s, w) = SubSeq(s, 1 + d, Len(s))
        BY DEF Prune, d
    <1>8. QED
        BY <1>4, <1>6, <1>7

\* Stamping a window keeps it a sequence of times in clock order.
LEMMA RecentOrdered ==
    ASSUME NEW s \in Seq(Nat), NEW w \in Nat, now \in Nat, Ordered(s)
    PROVE  /\ Append(Prune(s, w), now) \in Seq(Nat)
           /\ Ordered(Append(Prune(s, w), now))
    <1>1. PICK d \in 0 .. Len(s) :
              /\ Prune(s, w) \in Seq(Nat)
              /\ Len(Prune(s, w)) = Len(s) - d
              /\ \A i \in 1 .. Len(s) - d : Prune(s, w)[i] = s[i + d]
        BY PruneSuffix
    <1> DEFINE q == Prune(s, w)
    <1> HIDE DEF q
    <1>2. /\ q \in Seq(Nat) /\ Len(q) = Len(s) - d
          /\ \A i \in 1 .. Len(q) : q[i] = s[i + d]
        BY <1>1 DEF q
    <1>3. Ordered(q)
        <2>1. \A i \in 1 .. Len(q) : i + d \in 1 .. Len(s)
            BY <1>2
        <2>2. \A i \in 1 .. Len(q) : q[i] <= now
            BY <1>2, <2>1 DEF Ordered
        <2>3. \A i, j \in 1 .. Len(q) : i <= j => q[i] <= q[j]
            <3> SUFFICES ASSUME NEW i \in 1 .. Len(q), NEW j \in 1 .. Len(q), i <= j
                         PROVE  s[i + d] <= s[j + d]
                BY <1>2
            <3>1. i + d <= j + d
                OBVIOUS
            <3>2. QED
                BY <2>1, <3>1 DEF Ordered
        <2>4. QED
            BY <2>2, <2>3 DEF Ordered
    <1> DEFINE r == Append(q, now)
    <1> HIDE DEF r
    <1>4. /\ r \in Seq(Nat) /\ Len(r) = Len(q) + 1
          /\ \A i \in 1 .. Len(q) : r[i] = q[i]
          /\ r[Len(q) + 1] = now
        BY <1>2, AppendProperties DEF r
    <1>5. Len(q) \in Nat /\ (\A i \in 1 .. Len(q) : q[i] \in Nat /\ q[i] <= now)
        BY <1>2, <1>3, SMTT(30) DEF Ordered
    <1>6. r[Len(r)] = now
        BY <1>4
    <1>7. Ordered(r)
        <2> DEFINE n == Len(q)
        <2> HIDE DEF n
        <2>0. n \in Nat /\ Len(r) = n + 1
            BY <1>4, <1>5 DEF n
        <2>1. \A i \in 1 .. Len(r) : i = Len(r) \/ i \in 1 .. Len(q)
            BY <2>0 DEF n
        <2>2. \A i \in 1 .. Len(r) : r[i] <= now
            BY <2>1, <1>4, <1>5, <1>6
        <2>3. ASSUME NEW i \in 1 .. Len(r), NEW j \in 1 .. Len(r), i <= j
              PROVE  r[i] <= r[j]
            <3>1. CASE j = Len(r)
                BY <2>2, <1>6, <3>1
            <3>2. CASE j \in 1 .. Len(q)
                <4>1. i \in 1 .. Len(q)
                    BY <2>3, <3>2, <1>4, <1>5
                <4>2. QED
                    BY <4>1, <3>2, <2>3, <1>3, <1>4, <1>5 DEF Ordered
            <3>3. QED
                BY <2>1, <3>1, <3>2
        <2>4. QED
            BY <2>2, <2>3 DEF Ordered
    <1>8. QED
        BY <1>4, <1>7 DEF q, r

-----------------------------------------------------------------------------
(* What one step does to the cooldown records *)

\* s is what a further block makes of the record of p.
Raised(p, s) ==
    /\ s.blockCount = cool[p].blockCount + 1
    /\ s.lastSmtpAt = cool[p].lastSmtpAt
    /\ s.until >= now + TierMin[TierOf(s.blockCount)]
    /\ s.until <= now + TierMax[TierOf(s.blockCount)]

\* s is what a use of p makes of its record.
Used(p, s) == s = Touched(p)

\* A bump stores a raised record.
LEMMA BumpRaises ==
    ASSUME TypeOK, NEW p \in Provider, Bump(p, cool[p])
    PROVE  \E s \in CoolState : Raised(p, s) /\ Store(p, s)
    <1> DEFINE n == cool[p].blockCount + 1
    <1>1. cool[p] \in CoolState /\ now \in Nat /\ n \in Nat
        BY DEF TypeOK, CoolState
    <1>2. PICK d \in TierMin[TierOf(n)] .. TierMax[TierOf(n)] :
              Store(p, [cool[p] EXCEPT !.until = now + d, !.blockCount = n])
        BY DEF Bump
    <1>3. d \in Nat
        BY <1>1, <1>2, TierRange
    <1> DEFINE s == [cool[p] EXCEPT !.until = now + d, !.blockCount = n]
    <1>4. /\ s \in CoolState /\ s.until = now + d
          /\ s.blockCount = n /\ s.lastSmtpAt = cool[p].lastSmtpAt
        <2>1. now + d \in Nat
            BY <1>1, <1>3
        <2>2. QED
            BY <1>1, <2>1 DEF CoolState
    <1>5. Raised(p, s)
        <2>1. TierMin[TierOf(n)] \in Nat /\ TierMax[TierOf(n)] \in Nat
            BY <1>1, TierRange
        <2>2. s.until >= now + TierMin[TierOf(n)] /\ s.until <= now + TierMax[TierOf(n)]
            BY <1>1, <1>3, <1>4, <2>1
        <2>3. QED
            BY <1>4, <2>2 DEF Raised
    <1>6. QED
        BY <1>2, <1>4, <1>5

\* A stamp leaves the records alone or applies one bump.
LEMMA StampRaises ==
    ASSUME TypeOK, NEW p \in Provider, NEW k \in Kind, Stamp(p, k, cool[p])
    PROVE  \/ UNCHANGED <<cool, row>>
           \/ \E s \in CoolState : Raised(p, s) /\ Store(p, s)
    BY BumpRaises DEF Stamp, Keep

\* Every step of the running process other than the clock stores one record,
\* clears some of them for an operator, or leaves them all alone.
LEMMA CoolStep ==
    ASSUME TypeOK, Next
    PROVE  \/ Tick
           \/ Crash
           \/ Boot
           \/ /\ up /\ UNCHANGED <<now, up>>
              /\ UNCHANGED <<cool, row>>
           \/ /\ up /\ UNCHANGED <<now, up>>
              /\ \E p \in Provider : \E s \in CoolState :
                    (Raised(p, s) \/ Used(p, s)) /\ Store(p, s)
           \/ /\ up /\ UNCHANGED <<now, up>>
              /\ \E S \in SUBSET Provider :
                    ClearProviders(S) /\ (\A p \in S : Reset(p) \/ ResetAll)
    <1>1. ASSUME NEW p \in Provider, NEW r \in Reply, ApplicationResult(p, r)
          PROVE  /\ up /\ UNCHANGED <<now, up>>
                 /\ \/ UNCHANGED <<cool, row>>
                    \/ \E s \in CoolState : Raised(p, s) /\ Store(p, s)
        <2>1. CASE Bump(p, cool[p])
            BY <1>1, <2>1, BumpRaises DEF ApplicationResult, Serving
        <2>2. CASE ~Bump(p, cool[p])
            <3>1. \E hit \in TextHits(r) : ByCode(p, r, cool[p])
                BY <1>1, <2>2 DEF ApplicationResult, RecordReply
            <3>2. \/ Stamp(p, "temp451", cool[p])
                  \/ Stamp(p, "unknown", cool[p])
                  \/ UNCHANGED <<cool, row>>
                BY <2>2, <3>1 DEF ByCode, Keep
            <3>3. QED
                BY <1>1, <3>2, StampRaises DEF ApplicationResult, Serving, Kind
        <2>3. QED
            BY <2>1, <2>2
    <1>2. ASSUME NEW p \in Provider, NetworkTimeout(p)
          PROVE  /\ up /\ UNCHANGED <<now, up>>
                 /\ \/ UNCHANGED <<cool, row>>
                    \/ \E s \in CoolState : Raised(p, s) /\ Store(p, s)
        BY <1>2, StampRaises DEF NetworkTimeout, RecordTimeout, Serving, Kind
    <1>3. ASSUME NEW p \in Provider, ConnectFailure(p)
          PROVE  /\ up /\ UNCHANGED <<now, up>>
                 /\ \E s \in CoolState : Raised(p, s) /\ Store(p, s)
        BY <1>3, BumpRaises DEF ConnectFailure, RecordConnectFailure, Serving
    <1>4. ASSUME NEW p \in Provider, SmtpUse(p)
          PROVE  /\ up /\ UNCHANGED <<now, up>>
                 /\ \E s \in CoolState : Used(p, s) /\ Store(p, s)
        <2>1. Touched(p) \in CoolState
            BY DEF TypeOK, CoolState, Touched
        <2>2. QED
            BY <1>4, <2>1 DEF SmtpUse, RecordUse, Used
    <1>5. ASSUME NEW p \in Provider, Reset(p)
          PROVE  /\ up /\ UNCHANGED <<now, up>>
                 /\ ClearProviders({p}) /\ {p} \in SUBSET Provider
        BY <1>5 DEF Reset
    <1>6. ASSUME ResetAll
          PROVE  up /\ UNCHANGED <<now, up>> /\ ClearProviders(Provider)
        BY <1>6 DEF ResetAll
    <1>7. QED
        BY <1>1, <1>2, <1>3, <1>4, <1>5, <1>6 DEF Next

-----------------------------------------------------------------------------
(* Types and windows *)

\* A step keeps the records and the rows well formed.
LEMMA CoolTyped ==
    ASSUME TypeOK, [Next]_vars
    PROVE  cool' \in [Provider -> CoolState] /\ row' \in [Provider -> CoolState]
    <1> USE DEF TypeOK
    <1>0. Fresh \in CoolState
        BY DEF Fresh, CoolState
    <1>1. CASE Tick
        BY <1>1 DEF Tick, cooldownVars
    <1>2. CASE Crash
        BY <1>0, <1>2 DEF Crash
    <1>3. CASE Boot
        <2>1. \A p \in Provider : Loaded(row[p]) \in CoolState
            BY DEF Loaded, CoolState
        <2>2. QED
            BY <1>3, <2>1 DEF Boot
    <1>4. CASE UNCHANGED <<cool, row>>
        BY <1>4
    <1>5. ASSUME NEW p \in Provider, NEW s \in CoolState, Store(p, s)
          PROVE  cool' \in [Provider -> CoolState] /\ row' \in [Provider -> CoolState]
        BY <1>5 DEF Store, Persist
    <1>6. ASSUME NEW S \in SUBSET Provider, ClearProviders(S)
          PROVE  cool' \in [Provider -> CoolState] /\ row' \in [Provider -> CoolState]
        BY <1>0, <1>6 DEF ClearProviders
    <1>7. CASE UNCHANGED vars
        BY <1>7 DEF vars
    <1>8. QED
        BY <1>1, <1>2, <1>3, <1>4, <1>5, <1>6, <1>7, CoolStep

\* Every window is a sequence of times, in clock order, not yet full.
WindowOK(s, k) == s \in Seq(Nat) /\ Len(s) < Limit[k] /\ Ordered(s)

\* The clock only moves forward, so a window that is in order stays so.
LEMMA OrderedLater ==
    ASSUME NEW s \in Seq(Nat), now \in Nat, now' \in Nat, now <= now', Ordered(s)
    PROVE  Ordered(s)'
    <1>1. \A i \in 1 .. Len(s) : s[i] \in Nat
        OBVIOUS
    <1>2. \A i \in 1 .. Len(s) : s[i] <= now'
        BY <1>1 DEF Ordered
    <1>3. QED
        BY <1>2 DEF Ordered

\* The empty window is sane.
LEMMA EmptyWindow ==
    ASSUME NEW k \in Kind
    PROVE  WindowOK(<<>>, k) /\ WindowOK(<<>>, k)'
    <1>1. Len(<<>>) < Limit[k]
        BY WindowsAssumption
    <1>2. QED
        BY <1>1 DEF WindowOK, Ordered

\* A stamp leaves every window sane: the one it fills is emptied.
LEMMA StampWindows ==
    ASSUME TypeOK, NEW p \in Provider, NEW k \in Kind, Stamp(p, k, cool[p]), now' = now,
           \A q \in Provider, j \in Kind : WindowOK(stamps[q][j], j)
    PROVE  /\ stamps' \in [Provider -> [Kind -> Seq(Nat)]]
           /\ \A q \in Provider, j \in Kind : WindowOK(stamps[q][j], j)'
    <1> DEFINE recent == Append(Prune(stamps[p][k], Window[k]), now)
    <1>1. /\ stamps[p][k] \in Seq(Nat) /\ now \in Nat
          /\ Ordered(stamps[p][k]) /\ Window[k] \in Nat
        BY WindowsAssumption DEF TypeOK, WindowOK
    <1>2. recent \in Seq(Nat) /\ Ordered(recent)
        BY <1>1, RecentOrdered
    <1> HIDE DEF recent
    <1>3. PICK v : /\ stamps' = [stamps EXCEPT ![p][k] = v]
                   /\ v = <<>> \/ (v = recent /\ Len(recent) < Limit[k])
        BY DEF Stamp, recent
    <1>4. v \in Seq(Nat) /\ WindowOK(v, k)
        BY <1>2, <1>3, EmptyWindow DEF WindowOK
    <1>5. stamps' \in [Provider -> [Kind -> Seq(Nat)]]
        BY <1>3, <1>4 DEF TypeOK
    <1>6. ASSUME NEW q \in Provider, NEW j \in Kind
          PROVE  WindowOK(stamps'[q][j], j)
        BY <1>3, <1>4 DEF TypeOK
    <1>7. QED
        BY <1>5, <1>6 DEF WindowOK, Ordered

\* What the windows are after a step: stamped, cleared or as they were.
LEMMA StampStep ==
    ASSUME Next
    PROVE  \/ UNCHANGED stamps /\ now' \in {now, now + 1}
           \/ now' = now /\ \E p \in Provider, k \in Kind : Stamp(p, k, cool[p])
           \/ now' = now /\ \E S \in SUBSET Provider :
                stamps' = [p \in Provider |-> IF p \in S THEN NoStamps ELSE stamps[p]]
    <1>1. ASSUME NEW p \in Provider, NEW r \in Reply, ApplicationResult(p, r)
          PROVE  /\ now' = now
                 /\ UNCHANGED stamps \/ \E k \in Kind : Stamp(p, k, cool[p])
        BY <1>1 DEF ApplicationResult, RecordReply, ByCode, Kind
    <1>2. ASSUME NEW p \in Provider, NetworkTimeout(p)
          PROVE  now' = now /\ \E k \in Kind : Stamp(p, k, cool[p])
        BY <1>2 DEF NetworkTimeout, RecordTimeout, Kind
    <1>3. ASSUME NEW p \in Provider, ConnectFailure(p) \/ SmtpUse(p)
          PROVE  now' = now /\ UNCHANGED stamps
        BY <1>3 DEF ConnectFailure, RecordConnectFailure, SmtpUse, RecordUse
    <1>4. ASSUME NEW p \in Provider, Reset(p)
          PROVE  now' = now /\ \E S \in SUBSET Provider :
                stamps' = [q \in Provider |-> IF q \in S THEN NoStamps ELSE stamps[q]]
        <2>1. {p} \in SUBSET Provider
            OBVIOUS
        <2>2. QED
            BY <1>4, <2>1 DEF Reset, ClearProviders
    <1>5. ASSUME ResetAll \/ Crash
          PROVE  now' = now /\ \E S \in SUBSET Provider :
                stamps' = [q \in Provider |-> IF q \in S THEN NoStamps ELSE stamps[q]]
        <2>1. stamps' = [q \in Provider |-> IF q \in Provider THEN NoStamps ELSE stamps[q]]
            BY <1>5 DEF ResetAll, Crash, ClearProviders
        <2>2. QED
            BY <1>5, <2>1 DEF ResetAll, Crash
    <1>6. ASSUME Tick \/ Boot
          PROVE  UNCHANGED stamps /\ now' \in {now, now + 1}
        BY <1>6 DEF Tick, Boot, cooldownVars
    <1>7. QED
        BY <1>1, <1>2, <1>3, <1>4, <1>5, <1>6 DEF Next

\* A step keeps every window sane.
LEMMA WindowsKept ==
    ASSUME TypeOK, WindowsBelowLimit, [Next]_vars
    PROVE  /\ stamps' \in [Provider -> [Kind -> Seq(Nat)]]
           /\ WindowsBelowLimit'
    <1>1. \A q \in Provider, j \in Kind : WindowOK(stamps[q][j], j)
        BY DEF TypeOK, WindowsBelowLimit, WindowOK
    <1>2. /\ stamps' \in [Provider -> [Kind -> Seq(Nat)]]
          /\ \A q \in Provider, j \in Kind : WindowOK(stamps[q][j], j)'
        <2>1. CASE UNCHANGED stamps /\ now' \in {now, now + 1}
            <3>1. now \in Nat /\ now' \in Nat /\ now <= now'
                BY <2>1 DEF TypeOK
            <3>2. ASSUME NEW q \in Provider, NEW j \in Kind
                  PROVE  WindowOK(stamps[q][j], j)'
                <4>1. stamps[q][j] \in Seq(Nat) /\ Ordered(stamps[q][j])
                    BY <1>1 DEF WindowOK
                <4>2. \A i \in 1 .. Len(stamps[q][j]) : stamps[q][j][i] \in Nat
                    BY <4>1
                <4>3. \A i \in 1 .. Len(stamps[q][j]) : stamps[q][j][i] <= now'
                    BY <3>1, <4>1, <4>2 DEF Ordered
                <4>4. QED
                    BY <1>1, <2>1, <4>3 DEF WindowOK, Ordered
            <3>3. QED
                BY <2>1, <3>2 DEF TypeOK
        <2>2. CASE now' = now /\ \E p \in Provider, k \in Kind : Stamp(p, k, cool[p])
            BY <1>1, <2>2, StampWindows
        <2>3. ASSUME now' = now, NEW S \in SUBSET Provider,
                     stamps' = [p \in Provider |-> IF p \in S THEN NoStamps ELSE stamps[p]]
              PROVE  /\ stamps' \in [Provider -> [Kind -> Seq(Nat)]]
                     /\ \A q \in Provider, j \in Kind : WindowOK(stamps[q][j], j)'
            <3>1. NoStamps \in [Kind -> Seq(Nat)] /\ \A j \in Kind : NoStamps[j] = <<>>
                BY DEF NoStamps
            <3>2. ASSUME NEW q \in Provider, NEW j \in Kind
                  PROVE  WindowOK(stamps[q][j], j)'
                <4>1. stamps'[q][j] = <<>> \/ stamps'[q][j] = stamps[q][j]
                    BY <2>3, <3>1
                <4>2. WindowOK(stamps'[q][j], j)
                    BY <1>1, <4>1, EmptyWindow
                <4>3. QED
                    BY <2>3, <4>2 DEF WindowOK, Ordered
            <3>3. QED
                BY <2>3, <3>1, <3>2 DEF TypeOK
        <2>4. CASE UNCHANGED vars
            BY <2>1, <2>4 DEF vars
        <2>5. QED
            BY <2>1, <2>2, <2>3, <2>4, StampStep
    <1>3. QED
        BY <1>2 DEF WindowsBelowLimit, WindowOK

\* The remaining variables keep their types.
LEMMA RestTyped ==
    ASSUME TypeOK, [Next]_vars
    PROVE  now' \in Nat \ {0} /\ up' \in BOOLEAN /\ greyAt' \in BOOLEAN
    <1> USE DEF TypeOK
    <1>1. ASSUME NEW p \in Provider, NEW r \in Reply, ApplicationResult(p, r)
          PROVE  now' \in Nat \ {0} /\ up' \in BOOLEAN /\ greyAt' \in BOOLEAN
        <2>1. UNCHANGED greyAt \/ \E hit \in TextHits(r) : greyAt' = GreyAfter(r, hit)
            BY <1>1 DEF ApplicationResult, RecordReply
        <2>2. \A hit \in TextHits(r) : hit \in BOOLEAN
            BY DEF TextHits, Reply, Text
        <2>3. greyAt' \in BOOLEAN
            BY <2>1, <2>2 DEF GreyAfter
        <2>4. QED
            BY <1>1, <2>3 DEF ApplicationResult
    <1>2. ASSUME NEW p \in Provider,
                 NetworkTimeout(p) \/ ConnectFailure(p) \/ SmtpUse(p) \/ Reset(p)
          PROVE  now' \in Nat \ {0} /\ up' \in BOOLEAN /\ greyAt' \in BOOLEAN
        BY <1>2 DEF NetworkTimeout, RecordTimeout, ConnectFailure, RecordConnectFailure,
                    SmtpUse, RecordUse, Reset, ClearProviders
    <1>3. CASE ResetAll \/ Crash \/ Boot
        BY <1>3 DEF ResetAll, ClearProviders, Crash, Boot
    <1>4. CASE Tick
        BY <1>4 DEF Tick, cooldownVars
    <1>5. CASE UNCHANGED vars
        BY <1>5 DEF vars
    <1>6. QED
        BY <1>1, <1>2, <1>3, <1>4, <1>5 DEF Next

\* The type invariant and the sanity of the windows are inductive together.
THEOREM TypeCorrect == Spec => [](TypeOK /\ WindowsBelowLimit)
    <1>1. Init => TypeOK /\ WindowsBelowLimit
        <2> SUFFICES ASSUME Init PROVE TypeOK /\ WindowsBelowLimit
            OBVIOUS
        <2>1. Fresh \in CoolState /\ NoStamps \in [Kind -> Seq(Nat)]
            BY DEF Fresh, CoolState, NoStamps
        <2>2. TypeOK
            <3>1. now \in Nat \ {0} /\ (up \in BOOLEAN /\ greyAt \in BOOLEAN)
                <4>1. now = 1 /\ up = TRUE /\ greyAt = FALSE
                    BY DEF Init
                <4>2. now \in Nat \ {0}
                    BY <4>1
                <4>3. up \in BOOLEAN /\ greyAt \in BOOLEAN
                    BY <4>1, Zenon
                <4>4. QED
                    BY <4>2, <4>3
            <3>2. cool \in [Provider -> CoolState] /\ row \in [Provider -> CoolState]
                BY <2>1, Zenon DEF Init
            <3>3. stamps \in [Provider -> [Kind -> Seq(Nat)]]
                BY <2>1, Zenon DEF Init
            <3>4. QED
                BY <3>1, <3>2, <3>3 DEF TypeOK
        <2>3. \A p \in Provider, k \in Kind : stamps[p][k] = <<>>
            BY DEF Init, NoStamps
        <2>4. WindowsBelowLimit
            BY <2>3, EmptyWindow DEF WindowsBelowLimit, WindowOK
        <2>5. QED
            BY <2>2, <2>4
    <1>2. TypeOK /\ WindowsBelowLimit /\ [Next]_vars => (TypeOK /\ WindowsBelowLimit)'
        <2> SUFFICES ASSUME TypeOK, WindowsBelowLimit, [Next]_vars
                     PROVE  TypeOK' /\ WindowsBelowLimit'
            OBVIOUS
        <2>1. TypeOK'
            <3>1. cool' \in [Provider -> CoolState] /\ row' \in [Provider -> CoolState]
                BY CoolTyped
            <3>2. now' \in Nat \ {0} /\ up' \in BOOLEAN /\ greyAt' \in BOOLEAN
                BY RestTyped
            <3>3. stamps' \in [Provider -> [Kind -> Seq(Nat)]]
                BY WindowsKept
            <3>4. QED
                BY <3>1, <3>2, <3>3 DEF TypeOK
        <2>2. WindowsBelowLimit'
            BY WindowsKept
        <2>3. QED
            BY <2>1, <2>2
    <1>3. QED
        BY <1>1, <1>2, PTL DEF Spec

\* TypeOK on its own: the windows are what keeps the stamps well formed.
THEOREM TypesHold == Spec => []TypeOK
    BY TypeCorrect, PTL

-----------------------------------------------------------------------------
(* How long a provider can be blocked *)

\* A record that still blocks does so within the longest duration of its tier.
Within(s) ==
    s.until > now => s.blockCount > 0 /\ s.until <= now + TierMax[TierOf(s.blockCount)]

\* A block recorded now lasts within its tier; a use changes nothing about it.
LEMMA StoredWithin ==
    ASSUME TypeOK, NEW p \in Provider, NEW s \in CoolState,
           Raised(p, s) \/ Used(p, s), Within(cool[p])
    PROVE  Within(s)
    <1>1. cool[p] \in CoolState
        BY DEF TypeOK
    <1>2. CASE Raised(p, s)
        BY <1>1, <1>2 DEF Raised, Within, CoolState
    <1>3. CASE Used(p, s)
        BY <1>1, <1>3 DEF Used, Touched, Within, CoolState
    <1>4. QED
        BY <1>2, <1>3

\* What blocked within its tier blocks within it later too.
LEMMA LaterWithin ==
    ASSUME NEW s \in CoolState, now \in Nat, now' \in Nat, now <= now', Within(s)
    PROVE  Within(s)'
    <1>1. s.until \in Nat /\ s.blockCount \in Nat
        BY DEF CoolState
    <1>2. TierMax[TierOf(s.blockCount)] \in Nat
        BY <1>1, TierRange
    <1>3. QED
        BY <1>1, <1>2 DEF Within

\* BoundedBlock holds for every table of durations, with or without
\* persistence and even when SQLite writes fail.
THEOREM BlocksAreBounded == Spec => []BoundedBlock
    <1>1. Init => BoundedBlock
        BY DEF Init, BoundedBlock, Fresh
    <1>2. TypeOK /\ BoundedBlock /\ [Next]_vars => BoundedBlock'
        <2> SUFFICES ASSUME TypeOK, BoundedBlock, [Next]_vars
                     PROVE  BoundedBlock'
            OBVIOUS
        <2>1. \A p \in Provider : /\ cool[p] \in CoolState /\ row[p] \in CoolState
                                  /\ Within(cool[p]) /\ Within(row[p])
            BY DEF BoundedBlock, Within, TypeOK
        <2>2. now \in Nat /\ now' \in Nat /\ now <= now' /\ ~(Fresh.until > now')
            <3>1. now \in Nat /\ now' \in Nat
                BY RestTyped DEF TypeOK
            <3>2. now' \in {now, now + 1}
                BY CoolStep DEF Tick, Crash, Boot, vars
            <3>3. QED
                BY <3>1, <3>2 DEF Fresh
        <2>3. SUFFICES ASSUME NEW p \in Provider
                       PROVE  Within(cool[p])' /\ Within(row[p])'
            BY <2>3 DEF BoundedBlock, Within
        <2>4. Within(cool[p])' \/ cool'[p] # cool[p]
            BY <2>1, <2>2, LaterWithin DEF Within
        <2>5. Within(row[p])' \/ row'[p] # row[p]
            BY <2>1, <2>2, LaterWithin DEF Within
        <2>6. CASE UNCHANGED <<cool, row>>
            BY <2>4, <2>5, <2>6
        <2>7. CASE Tick
            BY <2>6, <2>7 DEF Tick, cooldownVars
        <2>8. CASE Crash
            BY <2>2, <2>5, <2>8 DEF Crash, Within
        <2>9. CASE Boot
            <3>1. Within(Loaded(row[p])) /\ now' = now
                BY <2>1, <2>9 DEF Boot, Loaded, Within, CoolState, TypeOK
            <3>2. cool'[p] = Loaded(row[p]) \/ cool'[p] = cool[p]
                BY <2>9 DEF Boot
            <3>3. QED
                BY <2>4, <2>5, <2>9, <3>1, <3>2 DEF Boot, Within
        <2>10. ASSUME now' = now, NEW q \in Provider, NEW s \in CoolState,
                      Raised(q, s) \/ Used(q, s), Store(q, s)
               PROVE  Within(cool[p])' /\ Within(row[p])'
            <3>1. Within(s)
                BY <2>1, <2>10, StoredWithin
            <3>2. cool'[p] \in {s, cool[p]} /\ row'[p] \in {s, row[p]}
                BY <2>10 DEF Store, Persist, TypeOK
            <3>3. QED
                BY <2>4, <2>5, <2>10, <3>1, <3>2 DEF Within
        <2>11. ASSUME now' = now, NEW S \in SUBSET Provider, ClearProviders(S)
               PROVE  Within(cool[p])' /\ Within(row[p])'
            <3>1. cool'[p] \in {Fresh, cool[p]} /\ row'[p] \in {Fresh, row[p]}
                BY <2>11 DEF ClearProviders
            <3>2. QED
                BY <2>2, <2>4, <2>5, <3>1 DEF Within
        <2>12. CASE UNCHANGED vars
            BY <2>6, <2>12 DEF vars
        <2>13. QED
            BY <2>6, <2>7, <2>8, <2>9, <2>10, <2>11, <2>12, CoolStep
    <1>3. QED
        BY <1>1, <1>2, TypeCorrect, PTL DEF Spec

-----------------------------------------------------------------------------
(* What a restart keeps: persistence on, SQLite writes succeed *)

\* A step that stores or clears records does the same to the rows.
LEMMA RowFollows ==
    ASSUME PersistEnabled, ~DbFaults
    PROVE  /\ \A p, s : Store(p, s) =>
                /\ cool' = [cool EXCEPT ![p] = s]
                /\ row' = [row EXCEPT ![p] = s]
           /\ \A S : ClearProviders(S) =>
                /\ cool' = [p \in Provider |-> IF p \in S THEN Fresh ELSE cool[p]]
                /\ row' = [p \in Provider |-> IF p \in S THEN Fresh ELSE row[p]]
           /\ Boot => cool' = [p \in Provider |-> Loaded(row[p])]
    BY DEF Store, Persist, ClearProviders, Boot

\* What has an effect later already had the same effect before: the clock
\* only lets blocks run out.
LEMMA EffectLater ==
    ASSUME NEW s \in CoolState, NEW t \in CoolState,
           now \in Nat, now' \in Nat, now <= now', Effect(s) = Effect(t)
    PROVE  (Effect(s) = Effect(t))'
    <1>1. /\ s.blockCount = t.blockCount /\ s.lastSmtpAt = t.lastSmtpAt
          /\ s.until = t.until \/ (s.until <= now /\ t.until <= now)
        BY DEF Effect, CoolState
    <1>2. s.until \in Nat /\ t.until \in Nat
        BY DEF CoolState
    <1>3. s.until = t.until \/ (~(s.until > now') /\ ~(t.until > now'))
        BY <1>1, <1>2
    <1>4. QED
        BY <1>1, <1>3 DEF Effect, CoolState

\* A row read back has the effect it was written with.
LEMMA LoadedEffect ==
    ASSUME NEW s \in CoolState, now \in Nat
    PROVE  Effect(Loaded(s)) = Effect(s) /\ Loaded(s).blockCount = s.blockCount
    BY DEF Effect, Loaded, CoolState

\* DurableView: whenever the process serves, the table would give back the
\* same blocks, counts and times of use.
THEOREM RestartLosesNothing ==
    ASSUME PersistEnabled, ~DbFaults
    PROVE  Spec => []DurableView
    <1>1. Init => DurableView
        BY DEF Init, DurableView
    <1>2. TypeOK /\ DurableView /\ [Next]_vars => DurableView'
        <2> SUFFICES ASSUME TypeOK, DurableView, [Next]_vars, up', NEW p \in Provider
                     PROVE  (Effect(cool[p]) = Effect(row[p]))'
            BY DEF DurableView
        <2>1. cool[p] \in CoolState /\ row[p] \in CoolState /\ now \in Nat
            BY DEF TypeOK
        <2>2. ASSUME up, cool'[p] = cool[p], row'[p] = row[p], now' \in {now, now + 1}
              PROVE  (Effect(cool[p]) = Effect(row[p]))'
            <3>1. Effect(cool[p]) = Effect(row[p]) /\ now' \in Nat /\ now <= now'
                BY <2>1, <2>2 DEF DurableView
            <3>2. QED
                BY <2>1, <2>2, <3>1, EffectLater DEF Effect
        <2>3. ASSUME cool'[p] = row'[p]
              PROVE  (Effect(cool[p]) = Effect(row[p]))'
            BY <2>3 DEF Effect
        <2>4. CASE UNCHANGED <<cool, row, now, up>>
            BY <2>2, <2>4
        <2>5. CASE Tick
            BY <2>2, <2>5 DEF Tick, cooldownVars
        <2>6. CASE Crash
            BY <2>6 DEF Crash
        <2>7. CASE Boot
            <3>1. cool'[p] = Loaded(row[p]) /\ row'[p] = row[p] /\ now' = now
                BY <2>7, RowFollows DEF Boot
            <3>2. QED
                BY <2>1, <3>1, LoadedEffect DEF Effect
        <2>8. ASSUME up, UNCHANGED <<now, up>>, NEW q \in Provider, NEW s, Store(q, s)
              PROVE  (Effect(cool[p]) = Effect(row[p]))'
            BY <2>2, <2>3, <2>8, RowFollows DEF TypeOK
        <2>9. ASSUME up, UNCHANGED <<now, up>>, NEW S, ClearProviders(S)
              PROVE  (Effect(cool[p]) = Effect(row[p]))'
            BY <2>2, <2>3, <2>9, RowFollows
        <2>10. CASE UNCHANGED vars
            BY <2>4, <2>10 DEF vars
        <2>11. QED
            BY <2>4, <2>5, <2>6, <2>7, <2>8, <2>9, <2>10, CoolStep
    <1>3. QED
        BY <1>1, <1>2, TypeCorrect, PTL DEF Spec

\* What governs a provider changes, in a step, to a later view of itself, to a
\* further block or use of it, or to what an operator clears.
LEMMA GoverningStep ==
    ASSUME PersistEnabled, ~DbFaults, TypeOK, DurableView, [Next]_vars,
           NEW p \in Provider
    PROVE  /\ Governing(p) \in CoolState
           /\ now' = now \/ now' = now + 1
           /\ \/ /\ Governing(p)'.blockCount = Governing(p).blockCount
                 /\ Governing(p).until > now' => Governing(p)'.until = Governing(p).until
              \/ /\ now' = now
                 /\ Governing(p) = cool[p]
                 /\ Governing(p)'.blockCount \in Nat
                 /\ Raised(p, Governing(p)')
              \/ Reset(p)
              \/ ResetAll
    <1>1. cool[p] \in CoolState /\ row[p] \in CoolState /\ now \in Nat /\ up \in BOOLEAN
        BY DEF TypeOK
    <1>2. now' = now \/ now' = now + 1
        BY CoolStep DEF Tick, Crash, Boot, vars
    <1> DEFINE Same ==
            /\ Governing(p)'.blockCount = Governing(p).blockCount
            /\ Governing(p).until > now' => Governing(p)'.until = Governing(p).until
    <1>3. CASE UNCHANGED <<up, cool, row>>
        <2>1. Same
            BY <1>3 DEF Governing
        <2>2. QED
            BY <1>1, <1>2, <2>1 DEF Governing
    <1>4. CASE Tick
        BY <1>3, <1>4 DEF Tick, cooldownVars
    <1>5. CASE Crash
        <2>1. /\ Governing(p) = cool[p] /\ Governing(p)' = row[p] /\ now' = now
              /\ Effect(cool[p]) = Effect(row[p])
            BY <1>5 DEF Crash, Governing, DurableView
        <2>2. Same
            BY <1>1, <2>1 DEF Effect, CoolState
        <2>3. QED
            BY <1>1, <1>2, <2>1, <2>2
    <1>6. CASE Boot
        <2>1. Governing(p) = row[p] /\ Governing(p)' = Loaded(row[p]) /\ now' = now
            BY <1>6, RowFollows DEF Boot, Governing
        <2>2. Same
            BY <1>1, <2>1 DEF Loaded, CoolState
        <2>3. QED
            BY <1>1, <1>2, <2>1, <2>2
    <1>7. ASSUME up, UNCHANGED <<now, up>>, NEW q \in Provider, NEW s \in CoolState,
                 Raised(q, s) \/ Used(q, s), Store(q, s)
          PROVE  Same \/ (Governing(p)' \in CoolState /\ Raised(p, Governing(p)'))
        <2>1. Governing(p) = cool[p] /\ Governing(p)' = cool'[p]
            BY <1>7 DEF Governing
        <2>2. CASE q # p
            BY <1>7, <2>1, <2>2, RowFollows DEF TypeOK
        <2>3. CASE q = p
            <3>1. cool'[p] = s
                BY <1>7, <2>3, RowFollows DEF TypeOK
            <3>2. QED
                BY <1>1, <1>7, <2>1, <2>3, <3>1 DEF Used, Touched, CoolState
        <2>4. QED
            BY <2>2, <2>3
    <1>8. ASSUME up, UNCHANGED <<now, up>>, NEW S \in SUBSET Provider,
                 ClearProviders(S), \A q \in S : Reset(q) \/ ResetAll
          PROVE  Same \/ Reset(p) \/ ResetAll
        <2>1. Governing(p) = cool[p] /\ Governing(p)' = cool'[p]
            BY <1>8 DEF Governing
        <2>2. p \notin S => cool'[p] = cool[p]
            BY <1>8, RowFollows
        <2>3. QED
            BY <1>8, <2>1, <2>2
    <1>9. CASE UNCHANGED vars
        BY <1>3, <1>9 DEF vars
    <1>10. Governing(p) \in CoolState /\ (up => Governing(p) = cool[p])
        BY <1>1 DEF Governing
    <1>11. ASSUME up, UNCHANGED <<now, up>>, UNCHANGED <<cool, row>>
           PROVE  Same
        BY <1>11 DEF Governing
    <1>12. QED
        BY <1>2, <1>3, <1>4, <1>5, <1>6, <1>7, <1>8, <1>9, <1>10, <1>11, CoolStep
           DEF CoolState

\* EscalationKept, across crashes and restarts.
THEOREM EscalationIsKept ==
    ASSUME PersistEnabled, ~DbFaults
    PROVE  Spec => EscalationKept
    <1>1. ASSUME TypeOK, DurableView, [Next]_vars, NEW p \in Provider
          PROVE  \/ Governing(p)'.blockCount >= Governing(p).blockCount
                 \/ Reset(p)
                 \/ ResetAll
        <2>1. Governing(p).blockCount \in Nat
            BY <1>1, GoverningStep DEF CoolState
        <2>2. QED
            BY <1>1, <2>1, GoverningStep DEF Raised
    <1>2. TypeOK /\ DurableView /\ [Next]_vars =>
            [\A p \in Provider :
                \/ Governing(p)'.blockCount >= Governing(p).blockCount
                \/ Reset(p)
                \/ ResetAll]_vars
        BY <1>1
    <1>3. QED
        BY <1>2, TypeCorrect, RestartLosesNothing, PTL DEF Spec, EscalationKept

\* NeverCutShort: below the open-ended tier a further block lasts longer than
\* the running one, which no use, restart or other provider touches.
THEOREM CooldownsRunTheirTime ==
    ASSUME PersistEnabled, ~DbFaults
    PROVE  Spec => NeverCutShort
    <1>1. ASSUME TypeOK, BoundedBlock, DurableView, [Next]_vars, NEW p \in Provider,
                 Governing(p).until > now'
          PROVE  \/ Governing(p)'.until >= Governing(p).until
                 \/ Reset(p)
                 \/ ResetAll
                 \/ Governing(p).blockCount >= 4
        <2> DEFINE g == Governing(p)
                   n == Governing(p).blockCount
        <2>1. g.until \in Nat /\ n \in Nat /\ now \in Nat
            BY <1>1, GoverningStep DEF CoolState, TypeOK
        <2>2. CASE g'.until = g.until
            BY <2>1, <2>2
        <2>3. ASSUME now' = now, g = cool[p], Raised(p, g'), ~(n >= 4)
              PROVE  g'.until >= g.until
            <3>1. n > 0 /\ g.until <= now + TierMax[TierOf(n)]
                BY <1>1, <2>3 DEF BoundedBlock
            <3>2. n < 4 /\ TierMax[TierOf(n)] < TierMin[TierOf(n + 1)]
                BY <2>1, <2>3, <3>1, NextTierLonger
            <3>3. g'.until >= now + TierMin[TierOf(n + 1)]
                BY <2>3 DEF Raised
            <3>4. TierMax[TierOf(n)] \in Nat /\ TierMin[TierOf(n + 1)] \in Nat
                BY <2>1, TierRange
            <3>5. g'.until \in Int
                BY <2>3, <1>1, CoolTyped DEF Governing, Raised, CoolState, TypeOK
            <3>6. QED
                BY <2>1, <3>1, <3>2, <3>3, <3>4, <3>5
        <2>4. QED
            BY <1>1, <2>1, <2>2, <2>3, GoverningStep
    <1>2. TypeOK /\ BoundedBlock /\ DurableView /\ [Next]_vars =>
            [\A p \in Provider :
                Governing(p).until > now' =>
                    \/ Governing(p)'.until >= Governing(p).until
                    \/ Reset(p)
                    \/ ResetAll
                    \/ Governing(p).blockCount >= 4]_vars
        BY <1>1
    <1>3. QED
        BY <1>2, TypeCorrect, BlocksAreBounded, RestartLosesNothing, PTL
           DEF Spec, NeverCutShort

-----------------------------------------------------------------------------
(* What memory alone keeps: any persistence, writes that fail *)

\* While the process runs, what memory holds of a provider survives a step, or
\* the provider is blocked once more, or an operator clears it.
LEMMA MemoryStep ==
    ASSUME TypeOK, [Next]_vars, up, up', NEW p \in Provider
    PROVE  \/ cool'[p].until = cool[p].until
           \/ now' = now /\ cool'[p] \in CoolState /\ Raised(p, cool'[p])
           \/ Reset(p)
           \/ ResetAll
    <1>1. cool[p] \in CoolState
        BY DEF TypeOK
    <1>2. CASE UNCHANGED cool
        BY <1>2
    <1>3. CASE Tick
        BY <1>2, <1>3 DEF Tick, cooldownVars
    <1>4. CASE Crash \/ Boot
        BY <1>4 DEF Crash, Boot
    <1>5. ASSUME UNCHANGED <<now, up>>, NEW q \in Provider, NEW s \in CoolState,
                 Raised(q, s) \/ Used(q, s), Store(q, s)
          PROVE  \/ cool'[p].until = cool[p].until
                 \/ now' = now /\ cool'[p] \in CoolState /\ Raised(p, cool'[p])
        <2>1. cool' = [cool EXCEPT ![q] = s]
            BY <1>5 DEF Store
        <2>2. CASE q # p
            BY <2>1, <2>2 DEF TypeOK
        <2>3. CASE q = p
            <3>1. cool'[p] = s
                BY <2>1, <2>3 DEF TypeOK
            <3>2. QED
                BY <1>1, <1>5, <2>3, <3>1 DEF Used, Touched, CoolState
        <2>4. QED
            BY <2>2, <2>3
    <1>6. ASSUME NEW S \in SUBSET Provider, ClearProviders(S),
                 \A q \in S : Reset(q) \/ ResetAll
          PROVE  cool'[p].until = cool[p].until \/ Reset(p) \/ ResetAll
        BY <1>6 DEF ClearProviders
    <1>7. CASE UNCHANGED vars
        BY <1>2, <1>7 DEF vars
    <1>8. QED
        BY <1>2, <1>3, <1>4, <1>5, <1>6, <1>7, CoolStep

\* HeldInMemory: nothing a running process does, for this provider or another,
\* ends a cooldown early, whatever SQLite does.
THEOREM MemoryHoldsCooldowns == Spec => HeldInMemory
    <1>1. ASSUME TypeOK, BoundedBlock, [Next]_vars, up, up', NEW p \in Provider,
                 cool[p].until > now'
          PROVE  \/ cool'[p].until >= cool[p].until
                 \/ Reset(p)
                 \/ ResetAll
                 \/ cool[p].blockCount >= 4
        <2> DEFINE g == cool[p]
                   n == cool[p].blockCount
        <2>1. g.until \in Nat /\ n \in Nat /\ now \in Nat
            BY <1>1 DEF CoolState, TypeOK
        <2>2. CASE g'.until = g.until
            BY <2>1, <2>2
        <2>3. ASSUME now' = now, g' \in CoolState, Raised(p, g'), ~(n >= 4)
              PROVE  g'.until >= g.until
            <3>1. n > 0 /\ g.until <= now + TierMax[TierOf(n)]
                BY <1>1, <2>3 DEF BoundedBlock
            <3>2. n < 4 /\ TierMax[TierOf(n)] < TierMin[TierOf(n + 1)]
                BY <2>1, <2>3, <3>1, NextTierLonger
            <3>3. g'.until >= now + TierMin[TierOf(n + 1)]
                BY <2>3 DEF Raised
            <3>4. TierMax[TierOf(n)] \in Nat /\ TierMin[TierOf(n + 1)] \in Nat
                BY <2>1, TierRange
            <3>5. g'.until \in Nat
                BY <2>3 DEF CoolState
            <3>6. QED
                BY <2>1, <3>1, <3>2, <3>3, <3>4, <3>5
        <2>4. QED
            BY <1>1, <2>2, <2>3, MemoryStep
    <1>2. TypeOK /\ BoundedBlock /\ [Next]_vars =>
            [up /\ up' => \A p \in Provider :
                cool[p].until > now' =>
                    \/ cool'[p].until >= cool[p].until
                    \/ Reset(p)
                    \/ ResetAll
                    \/ cool[p].blockCount >= 4]_vars
        BY <1>1
    <1>3. QED
        BY <1>2, TypeCorrect, BlocksAreBounded, PTL DEF Spec, HeldInMemory

=============================================================================
