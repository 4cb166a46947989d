--------------------------- MODULE CooledProbesProofs ---------------------------
(* Theorems about CooledProbes, for every set of verifications, every limit on *)
(* concurrent probes and every table that ProviderCooldown assumes.            *)
EXTENDS CooledProbes, ProviderCooldownProofs

-----------------------------------------------------------------------------
(* A queue that holds a set *)

\* The elements of s are those of S, each once.
Holds(s, S) ==
    /\ \A i \in 1 .. Len(s) : s[i] \in S
    /\ \A x \in S : \E i \in 1 .. Len(s) : s[i] = x
    /\ \A i, j \in 1 .. Len(s) : s[i] = s[j] => i = j

\* Who joins at the back is held too.
LEMMA HoldsAppend ==
    ASSUME NEW X, NEW s \in Seq(X), NEW S, Holds(s, S), NEW v \in X, v \notin S
    PROVE  /\ Append(s, v) \in Seq(X)
           /\ Len(Append(s, v)) = Len(s) + 1
           /\ Holds(Append(s, v), S \cup {v})
    <1> DEFINE t == Append(s, v)
    <1>1. /\ t \in Seq(X) /\ Len(t) = Len(s) + 1 /\ Len(s) \in Nat
          /\ t[Len(s) + 1] = v
          /\ \A i \in 1 .. Len(s) : t[i] = s[i]
        BY AppendProperties, LenProperties
    <1> HIDE DEF t
    <1>2. \A i \in 1 .. Len(t) : i = Len(s) + 1 \/ i \in 1 .. Len(s)
        BY <1>1
    <1>3. 1 .. Len(s) \subseteq 1 .. Len(t) /\ Len(s) + 1 \in 1 .. Len(t)
        BY <1>1
    <1>4. \A i \in 1 .. Len(t) : t[i] \in S \cup {v}
        BY <1>1, <1>2 DEF Holds
    <1>5. \A x \in S \cup {v} : \E i \in 1 .. Len(t) : t[i] = x
        BY <1>1, <1>3 DEF Holds
    <1>6. \A i, j \in 1 .. Len(t) : t[i] = t[j] => i = j
        BY <1>1, <1>2 DEF Holds
    <1>7. QED
        BY <1>1, <1>4, <1>5, <1>6 DEF Holds, t

\* Who leaves at the front was held and is no more.
LEMMA HoldsTail ==
    ASSUME NEW X, NEW s \in Seq(X), NEW S, Holds(s, S), s # <<>>
    PROVE  /\ Head(s) \in S /\ Head(s) \in X
           /\ Tail(s) \in Seq(X)
           /\ Len(Tail(s)) = Len(s) - 1
           /\ Holds(Tail(s), S \ {Head(s)})
    <1> DEFINE t == Tail(s)
    <1>1. /\ Len(s) \in Nat /\ Len(s) > 0 /\ Head(s) = s[1]
          /\ t \in Seq(X) /\ Len(t) = Len(s) - 1
          /\ \A i \in 1 .. Len(t) : t[i] = s[i + 1]
        OBVIOUS
    <1> HIDE DEF t
    <1>2. 1 \in 1 .. Len(s) /\ \A i \in 1 .. Len(t) : i + 1 \in 1 .. Len(s) /\ i + 1 # 1
        BY <1>1
    <1>3. \A i \in 1 .. Len(s) : i = 1 \/ (i - 1 \in 1 .. Len(t) /\ (i - 1) + 1 = i)
        BY <1>1
    <1>4. \A i \in 1 .. Len(t) : t[i] \in S \ {s[1]}
        BY <1>1, <1>2 DEF Holds
    <1>5. \A x \in S \ {s[1]} : \E i \in 1 .. Len(t) : t[i] = x
        <2> TAKE x \in S \ {s[1]}
        <2>1. PICK i \in 1 .. Len(s) : s[i] = x
            BY DEF Holds
        <2>2. i - 1 \in 1 .. Len(t) /\ t[i - 1] = x
            BY <1>1, <1>3, <2>1
        <2>3. QED
            BY <2>2
    <1>6. \A i, j \in 1 .. Len(t) : t[i] = t[j] => i = j
        <2> SUFFICES ASSUME NEW i \in 1 .. Len(t), NEW j \in 1 .. Len(t), t[i] = t[j]
                     PROVE  i = j
            OBVIOUS
        <2>1. i + 1 = j + 1
            BY <1>1, <1>2 DEF Holds
        <2>2. QED
            BY <2>1
    <1>7. QED
        BY <1>1, <1>2, <1>4, <1>5, <1>6 DEF Holds, t

\* The range of a queue is the set it holds.
LEMMA HoldsRange ==
    ASSUME NEW X, NEW s \in Seq(X), NEW S, Holds(s, S)
    PROVE  {s[i] : i \in DOMAIN s} = S
    <1>1. DOMAIN s = 1 .. Len(s)
        OBVIOUS
    <1>2. QED
        BY <1>1 DEF Holds

-----------------------------------------------------------------------------
(* What a step writes in the cooldown records *)

\* The record of p becomes one that comes from s by at most one further block.
StoredFrom(p, s) ==
    \E t \in CoolState :
        /\ t.lastSmtpAt = s.lastSmtpAt
        /\ t.blockCount = s.blockCount \/ t.blockCount = s.blockCount + 1
        /\ cool' = [cool EXCEPT ![p] = t]
        /\ row' = row \/ row' = [row EXCEPT ![p] = t]

LEMMA BumpStores ==
    ASSUME NEW p \in Provider, NEW s \in CoolState, now \in Nat, Bump(p, s)
    PROVE  StoredFrom(p, s)
    <1> DEFINE n == s.blockCount + 1
    <1>1. n \in Nat
        BY DEF CoolState
    <1>2. PICK d \in TierMin[TierOf(n)] .. TierMax[TierOf(n)] :
              Store(p, [s EXCEPT !.until = now + d, !.blockCount = n])
        BY DEF Bump
    <1>3. d \in Nat
        BY <1>1, <1>2, TierRange
    <1> DEFINE t == [s EXCEPT !.until = now + d, !.blockCount = n]
    <1>4. t \in CoolState /\ t.lastSmtpAt = s.lastSmtpAt /\ t.blockCount = s.blockCount + 1
        <2>1. now + d \in Nat
            BY <1>3
        <2>2. QED
            BY <1>1, <2>1 DEF CoolState
    <1>5. QED
        BY <1>2, <1>4 DEF StoredFrom, Store, Persist

LEMMA KeepStores ==
    ASSUME NEW p \in Provider, NEW s \in CoolState, Keep(p, s),
           cool \in [Provider -> CoolState]
    PROVE  StoredFrom(p, s)
    <1>1. CASE s = cool[p]
        <2>1. cool' = [cool EXCEPT ![p] = s] /\ row' = row
            BY <1>1 DEF Keep
        <2>2. QED
            BY <2>1 DEF StoredFrom
    <1>2. CASE s # cool[p]
        BY <1>2 DEF Keep, Store, Persist, StoredFrom
    <1>3. QED
        BY <1>1, <1>2

\* A reply recorded on top of s, whatever its code and its text.
LEMMA ReplyStores ==
    ASSUME NEW p \in Provider, NEW r \in Reply, NEW s \in CoolState, now \in Nat,
           cool \in [Provider -> CoolState], RecordReply(p, r, s)
    PROVE  StoredFrom(p, s)
    <1>1. ASSUME NEW k \in Kind, Stamp(p, k, s)
          PROVE  Bump(p, s) \/ Keep(p, s)
        BY <1>1 DEF Stamp
    <1>2. Bump(p, s) \/ Keep(p, s)
        BY <1>1 DEF RecordReply, ByCode, Kind
    <1>3. QED
        BY <1>2, BumpStores, KeepStores

LEMMA TouchedTyped ==
    ASSUME NEW p \in Provider, cool \in [Provider -> CoolState], now \in Nat
    PROVE  /\ Touched(p) \in CoolState
           /\ Touched(p).lastSmtpAt = now
           /\ Touched(p).blockCount = cool[p].blockCount
    BY DEF Touched, CoolState

-----------------------------------------------------------------------------
(* Types *)

\* The types of the variables that the arguments below use.
FlowTypeOK ==
    /\ now \in Nat
    /\ cool \in [Provider -> CoolState]
    /\ row \in [Provider -> CoolState]
    /\ phase \in [Verification -> Phase]
    /\ wake \in [Verification -> Nat]
    /\ line \in [Provider -> Seq(Verification)]

\* What a step that is not a crash does to the cooldown records.
LEMMA RecordsStep ==
    ASSUME FlowTypeOK, [FlowNext]_allVars
    PROVE  /\ now' \in Nat
           /\ cool' \in [Provider -> CoolState]
           /\ row' \in [Provider -> CoolState]
    <1> USE DEF FlowTypeOK
    <1>0. Fresh \in CoolState
        BY DEF Fresh, CoolState
    <1>1. ASSUME NEW v \in Verification, Settle(v)
          PROVE  now' = now /\ \E p \in Provider, s \in CoolState : StoredFrom(p, s)
        <2> DEFINE p == ProviderOf[v]
        <2>1. p \in Provider
            BY FlowAssumption
        <2>2. Touched(p) \in CoolState
            BY <2>1, TouchedTyped
        <2>3. StoredFrom(p, Touched(p))
            <3>1. CASE RecordUse(p)
                BY <2>2, <3>1 DEF RecordUse, Store, Persist, StoredFrom
            <3>2. ASSUME NEW r \in Reply, RecordReply(p, r, Touched(p))
                  PROVE  StoredFrom(p, Touched(p))
                BY <2>1, <2>2, <3>2, ReplyStores
            <3>3. QED
                BY <1>1, <3>1, <3>2 DEF Settle
        <2>4. QED
            BY <1>1, <2>1, <2>2, <2>3 DEF Settle
    <1>2. ASSUME NEW v \in Verification, ProbeRefused(v)
          PROVE  now' = now /\ \E p \in Provider, s \in CoolState : StoredFrom(p, s)
        <2> DEFINE p == ProviderOf[v]
        <2>1. p \in Provider /\ cool[p] \in CoolState
            BY FlowAssumption
        <2>2. StoredFrom(p, cool[p])
            BY <1>2, <2>1, BumpStores DEF ProbeRefused, RecordConnectFailure
        <2>3. QED
            BY <1>2, <2>1, <2>2 DEF ProbeRefused
    <1>3. ASSUME NEW p \in Provider, NEW s \in CoolState, StoredFrom(p, s)
          PROVE  cool' \in [Provider -> CoolState] /\ row' \in [Provider -> CoolState]
        BY <1>3 DEF StoredFrom
    <1>4. ASSUME NEW S, ClearProviders(S)
          PROVE  cool' \in [Provider -> CoolState] /\ row' \in [Provider -> CoolState]
        BY <1>0, <1>4 DEF ClearProviders
    <1>5. ASSUME Boot
          PROVE  cool' \in [Provider -> CoolState] /\ row' \in [Provider -> CoolState]
        <2>1. \A p \in Provider : Loaded(row[p]) \in CoolState
            BY DEF Loaded, CoolState
        <2>2. QED
            BY <1>5, <2>1 DEF Boot
    <1>6. ASSUME Around
          PROVE  /\ now' \in Nat
                 /\ cool' \in [Provider -> CoolState] /\ row' \in [Provider -> CoolState]
        <2>1. ASSUME NEW p \in Provider, Reset(p) PROVE now' = now /\ ClearProviders({p})
            BY <2>1 DEF Reset
        <2>2. ASSUME ResetAll PROVE now' = now /\ ClearProviders(Provider)
            BY <2>2 DEF ResetAll
        <2>3. ASSUME Tick PROVE now' \in Nat /\ UNCHANGED <<cool, row>>
            BY <2>3 DEF Tick, cooldownVars
        <2>4. ASSUME Boot PROVE now' = now
            BY <2>4 DEF Boot
        <2>5. QED
            BY <1>4, <1>5, <1>6, <2>1, <2>2, <2>3, <2>4 DEF Around
    <1>7. ASSUME Down
          PROVE  /\ now' \in Nat
                 /\ cool' \in [Provider -> CoolState] /\ row' \in [Provider -> CoolState]
        BY <1>0, <1>7 DEF Down, Crash
    <1>8. ASSUME UNCHANGED vars
          PROVE  /\ now' \in Nat
                 /\ cool' \in [Provider -> CoolState] /\ row' \in [Provider -> CoolState]
        BY <1>8 DEF vars
    <1>9. ASSUME NEW v \in Verification, Verify(v) \/ Wake(v) \/ ProbeAnswered(v) \/ ProbeTimedOut(v)
          PROVE  UNCHANGED vars
        BY <1>9 DEF Verify, Wake, ProbeAnswered, ProbeTimedOut
    <1>10. ASSUME NEW p \in Provider, Open(p)
           PROVE  UNCHANGED vars
        BY <1>10 DEF Open
    <1>11. QED
        BY <1>1, <1>2, <1>3, <1>6, <1>7, <1>8, <1>9, <1>10 DEF FlowNext, Return, allVars

\* How a step moves the verifications: one joins its queue, one goes elsewhere,
\* one starts its probe, none moves, or a crash ends them all.
Joins(v) ==
    /\ phase[v] \in {"idle", "spacing"}
    /\ phase' = [phase EXCEPT ![v] = "queued"]
    /\ line' = [line EXCEPT ![ProviderOf[v]] = Append(@, v)]

Moves(v, from, to) ==
    /\ phase[v] = from
    /\ phase' = [phase EXCEPT ![v] = to]
    /\ line' = line

Elsewhere == {<<"idle", "spacing">>, <<"probing", "answered">>, <<"probing", "failed">>,
              <<"answered", "idle">>, <<"failed", "idle">>}

Ends ==
    /\ phase' = [v \in Verification |-> "idle"]
    /\ line' = [p \in Provider |-> <<>>]

LEMMA PhaseStep ==
    ASSUME [FlowNext]_allVars
    PROVE  \/ \E v \in Verification : Joins(v)
           \/ \E v \in Verification : \E m \in Elsewhere : Moves(v, m[1], m[2])
           \/ \E p \in Provider : Open(p)
           \/ UNCHANGED <<phase, line>>
           \/ Ends
    <1>1. ASSUME NEW v \in Verification, Verify(v)
          PROVE  Joins(v) \/ Moves(v, "idle", "spacing")
        BY <1>1 DEF Verify, Goto, Joins, Moves
    <1>2. ASSUME NEW v \in Verification, Wake(v)
          PROVE  Joins(v)
        BY <1>2 DEF Wake, Goto, Joins
    <1>3. ASSUME NEW v \in Verification, Return(v)
          PROVE  Moves(v, "probing", "answered") \/ Moves(v, "probing", "failed")
        BY <1>3 DEF Return, ProbeAnswered, ProbeRefused, ProbeTimedOut, Goto, Moves
    <1>4. ASSUME NEW v \in Verification, Settle(v)
          PROVE  Moves(v, "answered", "idle") \/ Moves(v, "failed", "idle")
        BY <1>4 DEF Settle, Goto, Moves
    <1>5. CASE Around \/ UNCHANGED allVars
        BY <1>5 DEF Around, flowVars, allVars
    <1>6. CASE Down
        BY <1>6 DEF Down, Ends
    <1>7. \A a, b : <<a, b>> \in Elsewhere => <<a, b>>[1] = a /\ <<a, b>>[2] = b
        OBVIOUS
    <1>8. ASSUME NEW v \in Verification, NEW a, NEW b, <<a, b>> \in Elsewhere, Moves(v, a, b)
          PROVE  \E m \in Elsewhere : Moves(v, m[1], m[2])
        BY <1>8
    <1>9. /\ <<"idle", "spacing">> \in Elsewhere /\ <<"probing", "answered">> \in Elsewhere
          /\ <<"probing", "failed">> \in Elsewhere /\ <<"answered", "idle">> \in Elsewhere
          /\ <<"failed", "idle">> \in Elsewhere
        BY DEF Elsewhere
    <1>10. QED
        BY <1>1, <1>2, <1>3, <1>4, <1>5, <1>6, <1>8, <1>9 DEF FlowNext

\* A step keeps the types.
LEMMA FlowTypesKept ==
    ASSUME FlowTypeOK, [FlowNext]_allVars
    PROVE  FlowTypeOK'
    <1> USE DEF FlowTypeOK
    <1>1. /\ now' \in Nat
          /\ cool' \in [Provider -> CoolState]
          /\ row' \in [Provider -> CoolState]
        BY RecordsStep
    <1>2. /\ phase' \in [Verification -> Phase]
          /\ line' \in [Provider -> Seq(Verification)]
        <2>1. ASSUME NEW v \in Verification, Joins(v)
              PROVE  /\ phase' \in [Verification -> Phase]
                     /\ line' \in [Provider -> Seq(Verification)]
            <3>1. ProviderOf[v] \in Provider
                BY FlowAssumption
            <3>2. Append(line[ProviderOf[v]], v) \in Seq(Verification)
                BY <3>1, AppendProperties
            <3>3. QED
                BY <2>1, <3>2 DEF Joins, Phase
        <2>2. ASSUME NEW v \in Verification, NEW m \in Elsewhere, Moves(v, m[1], m[2])
              PROVE  /\ phase' \in [Verification -> Phase]
                     /\ line' \in [Provider -> Seq(Verification)]
            <3>1. m[2] \in Phase
                BY DEF Elsewhere, Phase
            <3>2. QED
                BY <2>2, <3>1 DEF Moves
        <2>3. ASSUME NEW p \in Provider, Open(p)
              PROVE  /\ phase' \in [Verification -> Phase]
                     /\ line' \in [Provider -> Seq(Verification)]
            <3>1. line[p] # <<>> /\ line[p] \in Seq(Verification)
                BY <2>3 DEF Open
            <3>2. Tail(line[p]) \in Seq(Verification)
                BY <3>1
            <3>3. QED
                BY <2>3, <3>2 DEF Open, Goto, Phase
        <2>4. ASSUME Ends
              PROVE  /\ phase' \in [Verification -> Phase]
                     /\ line' \in [Provider -> Seq(Verification)]
            BY <2>4 DEF Ends, Phase
        <2>5. QED
            BY <2>1, <2>2, <2>3, <2>4, PhaseStep
    <1>3. wake' \in [Verification -> Nat]
        <2>1. ASSUME NEW v \in Verification, Verify(v)
              PROVE  wake' \in [Verification -> Nat]
            <3>1. /\ ProviderOf[v] \in Provider /\ cool[ProviderOf[v]].lastSmtpAt \in Nat
                  /\ Gap \in Nat
                BY FlowAssumption, BoundsAssumption DEF CoolState
            <3>2. WaitFor(ProviderOf[v]) > 0 => now + WaitFor(ProviderOf[v]) \in Nat
                BY <3>1 DEF WaitFor
            <3>3. QED
                BY <2>1, <3>2 DEF Verify
        <2>2. ASSUME NEW v \in Verification, Wake(v)
              PROVE  wake' \in [Verification -> Nat]
            BY <2>2 DEF Wake
        <2>3. ASSUME NEW v \in Verification, Return(v) \/ Settle(v)
              PROVE  UNCHANGED wake
            BY <2>3 DEF Return, ProbeAnswered, ProbeRefused, ProbeTimedOut, Settle
        <2>4. ASSUME Around \/ (\E p \in Provider : Open(p)) \/ UNCHANGED allVars
              PROVE  UNCHANGED wake
            BY <2>4 DEF Around, Open, flowVars, allVars
        <2>5. ASSUME Down
              PROVE  wake' \in [Verification -> Nat]
            BY <2>5 DEF Down
        <2>6. QED
            BY <2>1, <2>2, <2>3, <2>4, <2>5 DEF FlowNext
    <1>4. QED
        BY <1>1, <1>2, <1>3

-----------------------------------------------------------------------------
(* The queues *)

\* The phases of Pending.
Waits == {"spacing", "queued", "probing", "answered"}

LEMMA PendingIs ==
    ASSUME NEW p
    PROVE  /\ Pending(p) = {v \in Verification : ProviderOf[v] = p /\ phase[v] \in Waits}
           /\ Pending(p)' = {v \in Verification : ProviderOf[v] = p /\ phase'[v] \in Waits}
    BY DEF Pending, In, Waits

\* Where a verification that moves is found afterwards.
LEMMA MovedIn ==
    ASSUME FlowTypeOK, NEW v \in Verification, NEW to, phase[v] # to,
           phase' = [phase EXCEPT ![v] = to], NEW p
    PROVE  /\ \A ph : In(p, ph)' =
                 IF ProviderOf[v] # p \/ ph \notin {phase[v], to} THEN In(p, ph)
                 ELSE IF ph = to THEN In(p, ph) \cup {v}
                 ELSE In(p, ph) \ {v}
           /\ ProviderOf[v] = p => v \notin In(p, to)
    BY DEF In, FlowTypeOK

LEMMA MovedPending ==
    ASSUME FlowTypeOK, NEW v \in Verification, NEW to,
           phase' = [phase EXCEPT ![v] = to], NEW p
    PROVE  Pending(p)' = IF ProviderOf[v] # p THEN Pending(p)
                         ELSE IF to \in Waits THEN Pending(p) \cup {v}
                         ELSE Pending(p) \ {v}
    <1>1. \A u \in Verification : phase'[u] = IF u = v THEN to ELSE phase[u]
        BY DEF FlowTypeOK
    <1>2. CASE ProviderOf[v] # p
        BY <1>1, <1>2, PendingIs
    <1>3. CASE ProviderOf[v] = p /\ to \in Waits
        BY <1>1, <1>3, PendingIs
    <1>4. CASE ProviderOf[v] = p /\ to \notin Waits
        BY <1>1, <1>4, PendingIs
    <1>5. QED
        BY <1>2, <1>3, <1>4

\* The queue of p is its waiting verifications, and its probes keep the limit.
LineOK(p) ==
    /\ Holds(line[p], In(p, "queued"))
    /\ Len(line[p]) = Cardinality(In(p, "queued"))
    /\ IsFiniteSet(Pending(p))
    /\ Cardinality(In(p, "probing")) <= MaxConcurrent

\* What a provider is pending for is finite, so its parts can be counted.
LEMMA PartsFinite ==
    ASSUME NEW p, IsFiniteSet(Pending(p))
    PROVE  /\ IsFiniteSet(In(p, "queued")) /\ Cardinality(In(p, "queued")) \in Nat
           /\ IsFiniteSet(In(p, "probing")) /\ Cardinality(In(p, "probing")) \in Nat
    <1>1. In(p, "queued") \in SUBSET Pending(p) /\ In(p, "probing") \in SUBSET Pending(p)
        BY PendingIs DEF In, Waits
    <1>2. QED
        BY <1>1, FS_Subset, FS_CardinalityType

\* A step keeps every queue in order.
LEMMA LinesKept ==
    ASSUME FlowTypeOK, \A q \in Provider : LineOK(q), [FlowNext]_allVars,
           NEW p \in Provider
    PROVE  LineOK(p)'
    <1>0. /\ line[p] \in Seq(Verification) /\ LineOK(p) /\ MaxConcurrent \in Nat
          /\ Len(line[p]) \in Nat
        BY FlowAssumption DEF FlowTypeOK
    <1>1. /\ IsFiniteSet(In(p, "queued")) /\ Cardinality(In(p, "queued")) \in Nat
          /\ IsFiniteSet(In(p, "probing")) /\ Cardinality(In(p, "probing")) \in Nat
          /\ IsFiniteSet(Pending(p))
        BY <1>0, PartsFinite DEF LineOK
    <1>2. CASE /\ line'[p] = line[p]
               /\ \A ph \in {"queued", "probing"} : In(p, ph)' = In(p, ph)
               /\ Pending(p)' = Pending(p)
        BY <1>0, <1>2 DEF LineOK
    <1>3. ASSUME NEW v \in Verification, Joins(v)
          PROVE  LineOK(p)'
        <2>1. PICK from \in {"idle", "spacing"} : phase[v] = from
            BY <1>3 DEF Joins
        <2>2. /\ phase' = [phase EXCEPT ![v] = "queued"] /\ from # "queued"
              /\ line' = [line EXCEPT ![ProviderOf[v]] = Append(@, v)]
            BY <1>3, <2>1 DEF Joins
        <2>3. /\ \A ph : In(p, ph)' =
                 IF ProviderOf[v] # p \/ ph \notin {phase[v], "queued"} THEN In(p, ph)
                 ELSE IF ph = "queued" THEN In(p, ph) \cup {v}
                 ELSE In(p, ph) \ {v}
              /\ ProviderOf[v] = p => v \notin In(p, "queued")
            BY <2>1, <2>2, MovedIn
        <2>4. In(p, "probing")' = In(p, "probing")
            BY <2>1, <2>3
        <2>5. CASE ProviderOf[v] # p
            <3>1. Pending(p)' = Pending(p)
                BY <2>2, <2>5, MovedPending
            <3>2. line'[p] = line[p]
                BY <2>2, <2>5 DEF FlowTypeOK
            <3>3. QED
                BY <1>2, <2>3, <2>5, <3>1, <3>2
        <2>6. CASE ProviderOf[v] = p
            <3>1. Pending(p)' = Pending(p) \cup {v}
                BY <2>2, <2>6, MovedPending DEF Waits
            <3>2. line'[p] = Append(line[p], v)
                BY <2>2, <2>6 DEF FlowTypeOK
            <3>3. In(p, "queued")' = In(p, "queued") \cup {v} /\ v \notin In(p, "queued")
                BY <2>3, <2>6
            <3>4. /\ Len(Append(line[p], v)) = Len(line[p]) + 1
                  /\ Holds(Append(line[p], v), In(p, "queued") \cup {v})
                BY <1>0, <3>3, HoldsAppend DEF LineOK
            <3>5. IsFiniteSet(Pending(p) \cup {v})
                BY <1>1, FS_AddElement
            <3>6. Cardinality(In(p, "queued") \cup {v}) = Cardinality(In(p, "queued")) + 1
                BY <1>1, <3>3, FS_AddElement
            <3>7. QED
                BY <1>0, <2>4, <3>1, <3>2, <3>3, <3>4, <3>5, <3>6 DEF LineOK, Holds
        <2>7. QED
            BY <2>5, <2>6
    <1>4. ASSUME NEW v \in Verification, NEW m \in Elsewhere, Moves(v, m[1], m[2])
          PROVE  LineOK(p)'
        <2> DEFINE from == m[1]
                   to == m[2]
        <2>1. /\ from # to /\ to \notin {"queued", "probing"} /\ from # "queued"
            BY DEF Elsewhere
        <2>2. phase[v] = from /\ phase' = [phase EXCEPT ![v] = to] /\ line' = line
            BY <1>4 DEF Moves
        <2> HIDE DEF from, to
        <2>3. \A ph : In(p, ph)' =
                 IF ProviderOf[v] # p \/ ph \notin {from, to} THEN In(p, ph)
                 ELSE IF ph = to THEN In(p, ph) \cup {v}
                 ELSE In(p, ph) \ {v}
            BY <2>1, <2>2, MovedIn, ZenonT(60)
        <2>4. In(p, "queued")' = In(p, "queued")
            BY <2>1, <2>3
        <2>5. In(p, "probing")' \in SUBSET In(p, "probing")
            BY <2>1, <2>3
        <2>6. Cardinality(In(p, "probing")') <= MaxConcurrent
            <3>1. /\ IsFiniteSet(In(p, "probing")')
                  /\ Cardinality(In(p, "probing")') <= Cardinality(In(p, "probing"))
                BY <1>1, <2>5, FS_Subset
            <3>2. Cardinality(In(p, "probing")') \in Nat
                BY <3>1, FS_CardinalityType
            <3>3. QED
                BY <1>0, <1>1, <3>1, <3>2 DEF LineOK
        <2>7. IsFiniteSet(Pending(p)')
            <3>1. Pending(p)' \in {Pending(p), Pending(p) \cup {v}, Pending(p) \ {v}}
                BY <2>2, MovedPending
            <3>2. QED
                BY <1>1, <3>1, FS_AddElement, FS_RemoveElement
        <2>8. QED
            BY <1>0, <2>2, <2>4, <2>6, <2>7 DEF LineOK, Holds
    <1>5. ASSUME NEW q \in Provider, Open(q)
          PROVE  LineOK(p)'
        <2> DEFINE v == Head(line[q])
        <2>1. /\ line[q] \in Seq(Verification) /\ LineOK(q) /\ line[q] # <<>>
            BY <1>5 DEF Open, FlowTypeOK
        <2>2. /\ v \in In(q, "queued") /\ v \in Verification
              /\ Len(Tail(line[q])) = Len(line[q]) - 1
              /\ Holds(Tail(line[q]), In(q, "queued") \ {v})
            BY <2>1, HoldsTail DEF LineOK
        <2>3. /\ phase[v] = "queued" /\ ProviderOf[v] = q
              /\ phase' = [phase EXCEPT ![v] = "probing"]
              /\ line' = [line EXCEPT ![q] = Tail(@)]
              /\ Cardinality(In(q, "probing")) < MaxConcurrent
            BY <1>5, <2>2 DEF Open, Goto, In
        <2> HIDE DEF v
        <2>4. /\ \A ph : In(p, ph)' =
                 IF ProviderOf[v] # p \/ ph \notin {phase[v], "probing"} THEN In(p, ph)
                 ELSE IF ph = "probing" THEN In(p, ph) \cup {v}
                 ELSE In(p, ph) \ {v}
              /\ ProviderOf[v] = p => v \notin In(p, "probing")
            BY <2>2, <2>3, MovedIn
        <2>5. CASE q # p
            <3>1. Pending(p)' = Pending(p)
                BY <2>2, <2>3, <2>5, MovedPending
            <3>2. line'[p] = line[p]
                BY <2>3, <2>5 DEF FlowTypeOK
            <3>3. QED
                BY <1>2, <2>3, <2>4, <2>5, <3>1, <3>2
        <2>6. CASE q = p
            <3>1. Pending(p)' = Pending(p) \cup {v}
                BY <2>2, <2>3, <2>6, MovedPending DEF Waits
            <3>2. line'[p] = Tail(line[p])
                BY <2>3, <2>6 DEF FlowTypeOK
            <3>3. /\ In(p, "queued")' = In(p, "queued") \ {v} /\ v \in In(p, "queued")
                  /\ In(p, "probing")' = In(p, "probing") \cup {v} /\ v \notin In(p, "probing")
                BY <2>2, <2>3, <2>4, <2>6
            <3>4. IsFiniteSet(Pending(p) \cup {v})
                BY <1>1, FS_AddElement
            <3>5. Cardinality(In(p, "queued") \ {v}) = Cardinality(In(p, "queued")) - 1
                BY <1>1, <3>3, FS_RemoveElement
            <3>6. Cardinality(In(p, "probing") \cup {v}) <= MaxConcurrent
                <4>1. Cardinality(In(p, "probing") \cup {v}) = Cardinality(In(p, "probing")) + 1
                    BY <1>1, <3>3, FS_AddElement
                <4>2. QED
                    BY <1>0, <1>1, <2>3, <2>6, <4>1
            <3>7. Len(Tail(line[p])) = Cardinality(In(p, "queued") \ {v})
                BY <1>0, <2>2, <2>6, <3>5 DEF LineOK
            <3>8. Holds(Tail(line[p]), In(p, "queued") \ {v})
                BY <2>2, <2>6
            <3>9. Holds(line'[p], In(p, "queued")')
                BY <3>2, <3>3, <3>8
            <3>10. QED
                BY <3>1, <3>2, <3>3, <3>4, <3>6, <3>7, <3>9 DEF LineOK, Holds
        <2>7. QED
            BY <2>5, <2>6
    <1>6. ASSUME UNCHANGED <<phase, line>>
          PROVE  LineOK(p)'
        <2>1. \A ph : In(p, ph)' = In(p, ph)
            BY <1>6 DEF In
        <2>2. Pending(p)' = Pending(p)
            BY <1>6, PendingIs
        <2>3. QED
            BY <1>2, <1>6, <2>1, <2>2
    <1>7. ASSUME Ends
          PROVE  LineOK(p)'
        <2>1. /\ line'[p] = <<>> /\ In(p, "queued")' = {} /\ In(p, "probing")' = {}
              /\ Pending(p)' = {}
            BY <1>7, PendingIs DEF Ends, In, Waits
        <2>2. Holds(<<>>, {}) /\ Len(<<>>) = 0
            BY DEF Holds
        <2>3. Holds(line'[p], In(p, "queued")')
            BY <2>1, <2>2
        <2>4. IsFiniteSet(Pending(p)') /\ Cardinality({}) = 0 /\ 0 <= MaxConcurrent
            BY <1>0, <2>1, FS_EmptySet
        <2>5. QED
            BY <2>1, <2>2, <2>3, <2>4 DEF LineOK, Holds
    <1>8. QED
        BY <1>3, <1>4, <1>5, <1>6, <1>7, PhaseStep

\* A process that is down verifies nothing and has nothing in memory.
DownIdle ==
    ~up => /\ \A v \in Verification : phase[v] = "idle"
           /\ \A p \in Provider : cool[p] = Fresh

LEMMA DownKept ==
    ASSUME FlowTypeOK, \A q \in Provider : LineOK(q), DownIdle, [FlowNext]_allVars
    PROVE  DownIdle'
    <1>1. ASSUME NEW v \in Verification, Verify(v) \/ Wake(v) \/ Return(v) \/ Settle(v)
          PROVE  up /\ up' = up
        <2>1. Verify(v) => up /\ up' = up
            BY DEF Verify, vars
        <2>2. Wake(v) => phase[v] # "idle" /\ up' = up
            BY DEF Wake, vars
        <2>3. Return(v) => phase[v] # "idle" /\ up' = up
            BY DEF Return, ProbeAnswered, ProbeRefused, ProbeTimedOut, vars
        <2>4. Settle(v) => phase[v] # "idle" /\ up' = up
            BY DEF Settle
        <2>5. QED
            BY <1>1, <2>1, <2>2, <2>3, <2>4 DEF DownIdle
    <1>2. ASSUME NEW q \in Provider, Open(q)
          PROVE  up /\ up' = up
        <2>1. line[q] \in Seq(Verification) /\ line[q] # <<>> /\ up' = up
            BY <1>2 DEF Open, vars, FlowTypeOK
        <2>2. Head(line[q]) \in In(q, "queued")
            BY <2>1, HoldsTail DEF LineOK
        <2>3. QED
            BY <2>1, <2>2 DEF DownIdle, In
    <1>3. CASE Around
        <2>1. CASE Boot
            BY <2>1 DEF Boot, DownIdle
        <2>2. CASE Tick
            BY <1>3, <2>2 DEF Around, Tick, cooldownVars, flowVars, DownIdle
        <2>3. CASE (\E p \in Provider : Reset(p)) \/ ResetAll
            <3>1. up /\ up' = up
                BY <2>3 DEF Reset, ResetAll
            <3>2. QED
                BY <3>1 DEF DownIdle
        <2>4. QED
            BY <1>3, <2>1, <2>2, <2>3 DEF Around
    <1>4. CASE Down
        BY <1>4 DEF Down, Crash, DownIdle
    <1>5. CASE UNCHANGED allVars
        BY <1>5 DEF allVars, vars, flowVars, DownIdle
    <1>6. (up /\ up' = up) => DownIdle'
        BY DEF DownIdle
    <1>7. QED
        BY <1>1, <1>2, <1>3, <1>4, <1>5, <1>6 DEF FlowNext

-----------------------------------------------------------------------------
(* The invariant of the queues *)

QueuesOK == FlowTypeOK /\ (\A p \in Provider : LineOK(p)) /\ DownIdle

LEMMA QueuesKept ==
    ASSUME QueuesOK, [FlowNext]_allVars
    PROVE  QueuesOK'
    <1>1. FlowTypeOK'
        BY FlowTypesKept DEF QueuesOK
    <1>2. \A p \in Provider : LineOK(p)'
        BY LinesKept DEF QueuesOK
    <1>3. DownIdle'
        BY DownKept DEF QueuesOK
    <1>4. QED
        BY <1>1, <1>2, <1>3 DEF QueuesOK

LEMMA QueuesInit ==
    ASSUME FlowInit
    PROVE  QueuesOK
    <1>1. now = 1 /\ up = TRUE
        BY DEF FlowInit, Init
    <1>2. /\ cool = [p \in Provider |-> Fresh] /\ row = [p \in Provider |-> Fresh]
          /\ phase = [v \in Verification |-> "idle"]
          /\ wake = [v \in Verification |-> 0]
          /\ line = [p \in Provider |-> <<>>]
        BY DEF FlowInit, Init
    <1>3. FlowTypeOK
        <2>1. Fresh \in CoolState
            BY DEF Fresh, CoolState
        <2>2. "idle" \in Phase
            BY DEF Phase
        <2>3. QED
            BY <1>1, <1>2, <2>1, <2>2 DEF FlowTypeOK
    <1>4. ASSUME NEW p \in Provider
          PROVE  LineOK(p)
        <2>1. /\ line[p] = <<>> /\ In(p, "queued") = {} /\ In(p, "probing") = {}
              /\ Pending(p) = {}
            BY <1>2, PendingIs DEF In, Waits
        <2>2. Holds(<<>>, {}) /\ Len(<<>>) = 0
            BY DEF Holds
        <2>3. IsFiniteSet({}) /\ Cardinality({}) = 0 /\ 0 <= MaxConcurrent
            BY FlowAssumption, FS_EmptySet
        <2>4. QED
            BY <2>1, <2>2, <2>3 DEF LineOK
    <1>5. DownIdle
        BY <1>1 DEF DownIdle
    <1>6. QED
        BY <1>3, <1>4, <1>5 DEF QueuesOK

LEMMA QueuesCorrect == FlowSpec => []QueuesOK
    BY QueuesInit, QueuesKept, PTL DEF FlowSpec

\* LineHoldsTheWaiting: p-limit loses nobody, starts nobody twice and never
\* runs more probes than the limit.
THEOREM LinesAreRight == FlowSpec => []LineHoldsTheWaiting
    <1>1. QueuesOK => LineHoldsTheWaiting
        <2> SUFFICES ASSUME QueuesOK, NEW p \in Provider
                     PROVE  /\ {line[p][i] : i \in DOMAIN line[p]} = In(p, "queued")
                            /\ Len(line[p]) = Cardinality(In(p, "queued"))
                            /\ Cardinality(In(p, "probing")) <= MaxConcurrent
            BY DEF LineHoldsTheWaiting
        <2>1. line[p] \in Seq(Verification) /\ LineOK(p)
            BY DEF QueuesOK, FlowTypeOK
        <2>2. {line[p][i] : i \in DOMAIN line[p]} = In(p, "queued")
            BY <2>1, HoldsRange DEF LineOK
        <2>3. QED
            BY <2>1, <2>2 DEF LineOK
    <1>2. QED
        BY <1>1, QueuesCorrect, PTL

-----------------------------------------------------------------------------
(* What a running cooldown is charged with *)

\* Taking the one that was pending out makes room for one block.
LEMMA ChargedOnce ==
    ASSUME NEW S, IsFiniteSet(S), NEW v \in S, NEW a \in Nat, NEW b,
           b = a \/ b = a + 1
    PROVE  b + Cardinality(S \ {v}) <= a + Cardinality(S)
    <1>1. Cardinality(S) \in Nat /\ Cardinality(S \ {v}) = Cardinality(S) - 1
        BY FS_RemoveElement, FS_CardinalityType
    <1>2. QED
        BY <1>1

\* A step that moves nobody past the gate and blocks nobody charges nothing.
LEMMA ChargedNothing ==
    ASSUME QueuesOK, NEW p \in Provider,
           cool'[p].blockCount = cool[p].blockCount,
           Pending(p)' \in SUBSET Pending(p)
    PROVE  cool'[p].blockCount + Cardinality(Pending(p)')
               <= cool[p].blockCount + Cardinality(Pending(p))
    <1>1. IsFiniteSet(Pending(p)) /\ cool[p].blockCount \in Nat
        BY DEF QueuesOK, LineOK, FlowTypeOK, CoolState
    <1>2. /\ Cardinality(Pending(p)') <= Cardinality(Pending(p))
          /\ Cardinality(Pending(p)') \in Nat /\ Cardinality(Pending(p)) \in Nat
        BY <1>1, FS_Subset, FS_CardinalityType
    <1>3. QED
        BY <1>1, <1>2

\* One step of one verification, while the provider stays blocked.
LEMMA ChargedStep ==
    ASSUME QueuesOK, [FlowNext]_allVars, NEW p \in Provider, Blocked(p), Blocked(p)'
    PROVE  cool'[p].blockCount + Cardinality(Pending(p)')
               <= cool[p].blockCount + Cardinality(Pending(p))
    <1> DEFINE Goal == cool'[p].blockCount + Cardinality(Pending(p)')
                           <= cool[p].blockCount + Cardinality(Pending(p))
    <1>0. /\ FlowTypeOK /\ IsFiniteSet(Pending(p)) /\ cool[p] \in CoolState
          /\ cool[p].blockCount \in Nat /\ now \in Nat
        BY DEF QueuesOK, LineOK, FlowTypeOK, CoolState
    <1>1. ASSUME NEW v \in Verification, NEW to, phase' = [phase EXCEPT ![v] = to],
                 to \in Waits => phase[v] \in Waits \/ ProviderOf[v] # p, cool' = cool
          PROVE  Goal
        <2>1. Pending(p)' \in SUBSET Pending(p)
            BY <1>0, <1>1, MovedPending, PendingIs
        <2>2. QED
            BY <1>1, <2>1, ChargedNothing
    <1>2. ASSUME NEW v \in Verification, Verify(v)
          PROVE  Goal
        <2>1. /\ ProviderOf[v] # p /\ cool' = cool
              /\ \E to : phase' = [phase EXCEPT ![v] = to]
            BY <1>2 DEF Verify, Goto, vars
        <2>2. QED
            BY <1>1, <2>1
    <1>3. ASSUME NEW v \in Verification, Wake(v)
          PROVE  Goal
        <2>1. /\ phase[v] \in Waits /\ cool' = cool
              /\ phase' = [phase EXCEPT ![v] = "queued"]
            BY <1>3 DEF Wake, Goto, vars, Waits
        <2>2. QED
            BY <1>1, <2>1
    <1>4. ASSUME NEW v \in Verification, ProbeAnswered(v) \/ ProbeTimedOut(v)
          PROVE  Goal
        <2>1. /\ phase[v] \in Waits /\ cool' = cool
              /\ \E to : phase' = [phase EXCEPT ![v] = to]
            BY <1>4 DEF ProbeAnswered, ProbeTimedOut, Goto, vars, Waits
        <2>2. QED
            BY <1>1, <2>1
    <1>5. ASSUME NEW q \in Provider, Open(q)
          PROVE  Goal
        <2> DEFINE v == Head(line[q])
        <2>1. v \in In(q, "queued")
            BY <1>5, HoldsTail DEF Open, QueuesOK, LineOK, FlowTypeOK
        <2>2. /\ v \in Verification /\ phase[v] \in Waits /\ cool' = cool
              /\ phase' = [phase EXCEPT ![v] = "probing"]
            BY <1>5, <2>1 DEF Open, Goto, vars, Waits, In
        <2>3. QED
            BY <1>1, <2>2
    <1>6. ASSUME NEW v \in Verification, NEW s \in CoolState, NEW to, to \notin Waits,
                 s.blockCount = cool[ProviderOf[v]].blockCount,
                 phase[v] \in Waits, phase' = [phase EXCEPT ![v] = to],
                 StoredFrom(ProviderOf[v], s)
          PROVE  Goal
        <2>1. ProviderOf[v] \in Provider
            BY FlowAssumption
        <2>2. PICK t \in CoolState :
                 /\ t.blockCount = s.blockCount \/ t.blockCount = s.blockCount + 1
                 /\ cool' = [cool EXCEPT ![ProviderOf[v]] = t]
            BY <1>6 DEF StoredFrom
        <2>3. CASE ProviderOf[v] # p
            <3>1. cool'[p] = cool[p] /\ Pending(p)' = Pending(p)
                BY <1>0, <1>6, <2>2, <2>3, MovedPending DEF FlowTypeOK
            <3>2. QED
                BY <3>1, ChargedNothing
        <2>4. CASE ProviderOf[v] = p
            <3>1. cool'[p] = t
                BY <1>0, <2>2, <2>4 DEF FlowTypeOK
            <3>2. Pending(p)' = Pending(p) \ {v} /\ v \in Pending(p)
                <4>1. Pending(p)' = IF ProviderOf[v] # p THEN Pending(p)
                                    ELSE IF to \in Waits THEN Pending(p) \cup {v}
                                    ELSE Pending(p) \ {v}
                    BY <1>0, <1>6, MovedPending
                <4>2. v \in Pending(p)
                    BY <1>6, <2>4, PendingIs
                <4>3. QED
                    BY <1>6, <2>4, <4>1, <4>2
            <3>3. cool'[p].blockCount = cool[p].blockCount
                  \/ cool'[p].blockCount = cool[p].blockCount + 1
                BY <1>6, <2>2, <2>4, <3>1
            <3>4. QED
                BY <1>0, <3>2, <3>3, ChargedOnce
        <2>5. QED
            BY <2>3, <2>4
    <1>7. ASSUME NEW v \in Verification, ProbeRefused(v)
          PROVE  Goal
        <2>1. /\ ProviderOf[v] \in Provider /\ cool[ProviderOf[v]] \in CoolState
            BY <1>0, FlowAssumption DEF FlowTypeOK
        <2>2. StoredFrom(ProviderOf[v], cool[ProviderOf[v]])
            BY <1>0, <1>7, <2>1, BumpStores DEF ProbeRefused, RecordConnectFailure
        <2>3. /\ phase[v] \in Waits /\ phase' = [phase EXCEPT ![v] = "failed"]
              /\ "failed" \notin Waits
            BY <1>7 DEF ProbeRefused, Goto, Waits
        <2>4. QED
            BY <1>6, <2>1, <2>2, <2>3
    <1>8. ASSUME NEW v \in Verification, Settle(v)
          PROVE  Goal
        <2> DEFINE q == ProviderOf[v]
        <2>1. /\ q \in Provider /\ Touched(q) \in CoolState
              /\ Touched(q).blockCount = cool[q].blockCount
            BY <1>0, FlowAssumption, TouchedTyped DEF FlowTypeOK
        <2>2. phase' = [phase EXCEPT ![v] = "idle"] /\ "idle" \notin Waits
            BY <1>8 DEF Settle, Goto, Waits
        <2>3. CASE phase[v] = "failed" /\ RecordUse(q)
            <3>1. cool'[p].blockCount = cool[p].blockCount
                BY <1>0, <2>1, <2>3 DEF RecordUse, Store, FlowTypeOK
            <3>2. Pending(p)' \in SUBSET Pending(p)
                <4>1. Pending(p)' = IF ProviderOf[v] # p THEN Pending(p)
                                    ELSE IF "idle" \in Waits THEN Pending(p) \cup {v}
                                    ELSE Pending(p) \ {v}
                    BY <1>0, <2>2, MovedPending
                <4>2. QED
                    BY <2>2, <4>1
            <3>3. QED
                BY <3>1, <3>2, ChargedNothing
        <2>4. ASSUME phase[v] = "answered", NEW r \in Reply, RecordReply(q, r, Touched(q))
              PROVE  Goal
            <3>1. StoredFrom(q, Touched(q))
                BY <1>0, <2>1, <2>4, ReplyStores DEF FlowTypeOK
            <3>2. phase[v] \in Waits
                BY <2>4 DEF Waits
            <3>3. QED
                BY <1>6, <2>1, <2>2, <3>1, <3>2
        <2>5. QED
            BY <1>8, <2>3, <2>4 DEF Settle
    <1>9. ASSUME Around
          PROVE  Goal
        <2>1. Pending(p)' = Pending(p)
            BY <1>9, PendingIs DEF Around, flowVars
        <2>2. ASSUME NEW S, ClearProviders(S)
              PROVE  cool'[p] = cool[p] \/ cool'[p] = Fresh
            BY <2>2 DEF ClearProviders
        <2>3. cool'[p] # Fresh
            <3>1. now' \in Nat
                BY <1>0, RecordsStep
            <3>2. QED
                BY <3>1 DEF Blocked, Fresh
        <2>4. ASSUME Boot PROVE FALSE
            BY <1>0, <2>4 DEF Boot, Blocked, QueuesOK, DownIdle, Fresh
        <2>5. cool'[p] = cool[p]
            BY <1>9, <2>2, <2>3, <2>4 DEF Around, Reset, ResetAll, Tick, cooldownVars
        <2>6. QED
            BY <2>1, <2>5, ChargedNothing
    <1>10. ASSUME Down
           PROVE  Goal
        <2>1. cool'[p] = Fresh /\ now' \in Nat
            BY <1>0, <1>10 DEF Down, Crash
        <2>2. QED
            BY <2>1 DEF Blocked, Fresh
    <1>11. ASSUME UNCHANGED allVars
           PROVE  Goal
        <2>1. Pending(p)' = Pending(p) /\ cool' = cool
            BY <1>11, PendingIs DEF allVars, flowVars, vars
        <2>2. QED
            BY <2>1, ChargedNothing
    <1>12. QED
        BY <1>2, <1>3, <1>4, <1>5, <1>7, <1>8, <1>9, <1>10, <1>11 DEF FlowNext, Return

\* EscalationCharged: while a cooldown runs, the block count can still rise by
\* no more than the probes that were past the gate when it began.
THEOREM EscalationIsCharged == FlowSpec => EscalationCharged
    <1>1. QueuesOK /\ [FlowNext]_allVars =>
            [\A p \in Provider :
                Blocked(p) /\ Blocked(p)' =>
                    cool'[p].blockCount + Cardinality(Pending(p)')
                        <= cool[p].blockCount + Cardinality(Pending(p))]_allVars
        BY ChargedStep
    <1>2. QED
        BY <1>1, QueuesCorrect, PTL DEF FlowSpec, EscalationCharged

-----------------------------------------------------------------------------
(* The spacing of probes *)

\* At time t the interval since the last use that s records is over.
SpacedAt(s, t) == s.lastSmtpAt = 0 \/ t - s.lastSmtpAt >= Gap

\* Whom no use passed is spaced: in the queue now, in its sleep when it wakes.
Spaced(v) ==
    v \notin passed =>
        /\ phase[v] = "queued" => SpacedAt(cool[ProviderOf[v]], now)
        /\ phase[v] = "spacing" => SpacedAt(cool[ProviderOf[v]], wake[v])

LEMMA WaitForIs ==
    ASSUME NEW p \in Provider, cool[p] \in CoolState, now \in Nat
    PROVE  /\ WaitFor(p) = 0 => SpacedAt(cool[p], now)
           /\ WaitFor(p) > 0 => ~SpacedAt(cool[p], now) /\ SpacedAt(cool[p], now + WaitFor(p))
    <1>1. cool[p].lastSmtpAt \in Nat /\ Gap \in Nat
        BY BoundsAssumption DEF CoolState
    <1>2. QED
        BY <1>1 DEF WaitFor, SpacedAt

\* What is spaced stays so as long as no later use is recorded.
LEMMA SpacedLater ==
    ASSUME QueuesOK, NEW v \in Verification, Spaced(v),
           now' \in Nat, now <= now',
           \/ cool'[ProviderOf[v]].lastSmtpAt = cool[ProviderOf[v]].lastSmtpAt
           \/ cool'[ProviderOf[v]].lastSmtpAt = 0,
           phase'[v] = phase[v], wake'[v] = wake[v],
           v \in passed => v \in passed'
    PROVE  Spaced(v)'
    <1>1. /\ ProviderOf[v] \in Provider /\ cool[ProviderOf[v]].lastSmtpAt \in Nat
          /\ Gap \in Nat /\ now \in Nat /\ wake[v] \in Nat
        BY FlowAssumption, BoundsAssumption DEF QueuesOK, FlowTypeOK, CoolState
    <1>2. \A t, u \in Nat : t <= u /\ SpacedAt(cool[ProviderOf[v]], t) =>
                               SpacedAt(cool'[ProviderOf[v]], u)
        BY <1>1 DEF SpacedAt
    <1>3. QED
        BY <1>1, <1>2 DEF Spaced, SpacedAt

\* Who is in neither of the two phases need not be spaced.
LEMMA SpacedElsewhere ==
    ASSUME NEW v \in Verification, phase'[v] \notin {"queued", "spacing"} \/ v \in passed'
    PROVE  Spaced(v)'
    BY DEF Spaced

LEMMA SpacedKept ==
    ASSUME QueuesOK, [FlowNext]_allVars, NEW v \in Verification, Spaced(v)
    PROVE  Spaced(v)'
    <1>0. /\ FlowTypeOK /\ now \in Nat /\ ProviderOf[v] \in Provider
          /\ cool[ProviderOf[v]] \in CoolState /\ wake[v] \in Nat
        BY FlowAssumption DEF QueuesOK, FlowTypeOK
    <1>1. CASE UNCHANGED allVars
        BY <1>0, <1>1, SpacedLater DEF allVars, vars, flowVars
    <1>2. ASSUME NEW u \in Verification, Verify(u)
          PROVE  Spaced(v)'
        <2>1. CASE u # v
            BY <1>0, <1>2, <2>1, SpacedLater DEF Verify, Goto, vars, FlowTypeOK
        <2>2. CASE u = v /\ phase' = [phase EXCEPT ![v] = "spacing"]
            <3>1. /\ phase'[v] = "spacing" /\ cool' = cool
                  /\ WaitFor(ProviderOf[v]) > 0 /\ wake'[v] = now + WaitFor(ProviderOf[v])
                BY <1>0, <1>2, <2>2 DEF Verify, Goto, vars, FlowTypeOK
            <3>2. SpacedAt(cool[ProviderOf[v]], wake'[v])
                BY <1>0, <3>1, WaitForIs
            <3>3. QED
                BY <3>1, <3>2 DEF Spaced, SpacedAt
        <2>3. CASE u = v /\ phase' = [phase EXCEPT ![v] = "queued"]
            <3>1. /\ phase'[v] = "queued" /\ cool' = cool /\ now' = now
                  /\ WaitFor(ProviderOf[v]) = 0
                BY <1>0, <1>2, <2>3 DEF Verify, Goto, vars, FlowTypeOK
            <3>2. SpacedAt(cool[ProviderOf[v]], now)
                BY <1>0, <3>1, WaitForIs
            <3>3. QED
                BY <3>1, <3>2 DEF Spaced, SpacedAt
        <2>4. QED
            BY <1>2, <2>1, <2>2, <2>3 DEF Verify, Goto
    <1>3. ASSUME NEW u \in Verification, Wake(u)
          PROVE  Spaced(v)'
        <2>1. CASE u # v
            BY <1>0, <1>3, <2>1, SpacedLater DEF Wake, Goto, vars, FlowTypeOK
        <2>2. CASE u = v
            <3>1. /\ phase[v] = "spacing" /\ phase'[v] = "queued" /\ cool' = cool
                  /\ now' = now /\ now >= wake[v] /\ passed' = passed
                BY <1>0, <1>3, <2>2 DEF Wake, Goto, vars, FlowTypeOK
            <3>2. Gap \in Nat /\ cool[ProviderOf[v]].lastSmtpAt \in Nat
                BY <1>0, BoundsAssumption DEF CoolState
            <3>3. SpacedAt(cool[ProviderOf[v]], wake[v]) => SpacedAt(cool[ProviderOf[v]], now)
                BY <1>0, <3>1, <3>2 DEF SpacedAt
            <3>4. QED
                BY <3>1, <3>3 DEF Spaced, SpacedAt
        <2>3. QED
            BY <2>1, <2>2
    <1>4. ASSUME NEW p \in Provider, Open(p)
          PROVE  Spaced(v)'
        <2> DEFINE h == Head(line[p])
        <2>1. h \in Verification
            BY <1>4, HoldsTail DEF Open, QueuesOK, LineOK, FlowTypeOK
        <2>2. /\ phase' = [phase EXCEPT ![h] = "probing"] /\ passed' = passed \ {h}
              /\ cool' = cool /\ now' = now /\ wake' = wake
            BY <1>4 DEF Open, Goto, vars
        <2> HIDE DEF h
        <2>3. CASE h = v
            <3>1. phase'[v] = "probing"
                BY <1>0, <2>2, <2>3 DEF FlowTypeOK
            <3>2. QED
                BY <3>1, SpacedElsewhere
        <2>4. CASE h # v
            BY <1>0, <2>2, <2>4, SpacedLater DEF FlowTypeOK
        <2>5. QED
            BY <2>3, <2>4
    <1>5. ASSUME NEW u \in Verification, Return(u)
          PROVE  Spaced(v)'
        <2>1. PICK to \in {"answered", "failed"} : phase' = [phase EXCEPT ![u] = to]
            BY <1>5 DEF Return, ProbeAnswered, ProbeRefused, ProbeTimedOut, Goto
        <2>2. now' = now /\ wake' = wake /\ passed' = passed
            BY <1>5 DEF Return, ProbeAnswered, ProbeRefused, ProbeTimedOut, vars
        <2>3. cool'[ProviderOf[v]].lastSmtpAt = cool[ProviderOf[v]].lastSmtpAt
            <3>1. CASE ProbeRefused(u)
                <4>1. ProviderOf[u] \in Provider /\ cool[ProviderOf[u]] \in CoolState
                    BY <1>0, FlowAssumption DEF FlowTypeOK
                <4>2. StoredFrom(ProviderOf[u], cool[ProviderOf[u]])
                    BY <1>0, <3>1, <4>1, BumpStores DEF ProbeRefused, RecordConnectFailure
                <4>3. QED
                    BY <1>0, <4>1, <4>2 DEF StoredFrom, FlowTypeOK
            <3>2. CASE ~ProbeRefused(u)
                BY <1>5, <3>2 DEF Return, ProbeAnswered, ProbeTimedOut, vars
            <3>3. QED
                BY <3>1, <3>2
        <2>4. CASE u = v
            <3>1. phase'[v] \notin {"queued", "spacing"}
                BY <1>0, <2>1, <2>4 DEF FlowTypeOK
            <3>2. QED
                BY <3>1, SpacedElsewhere
        <2>5. CASE u # v
            <3>1. phase'[v] = phase[v]
                BY <1>0, <2>1, <2>5 DEF FlowTypeOK
            <3>2. QED
                BY <1>0, <2>2, <2>3, <3>1, SpacedLater
        <2>6. QED
            BY <2>4, <2>5
    <1>6. ASSUME NEW u \in Verification, Settle(u)
          PROVE  Spaced(v)'
        <2> DEFINE p == ProviderOf[u]
        <2>1. /\ phase' = [phase EXCEPT ![u] = "idle"] /\ now' = now /\ wake' = wake
              /\ passed' = passed \cup In(p, "spacing") \cup In(p, "queued")
            BY <1>6 DEF Settle, Goto
        <2>2. \A w \in Verification : phase'[w] = IF w = u THEN "idle" ELSE phase[w]
            BY <1>0, <2>1 DEF FlowTypeOK
        <2>3. CASE u = v
            BY <2>2, <2>3, SpacedElsewhere
        <2>4. CASE u # v /\ ProviderOf[v] = p
            <3>1. phase[v] \in {"queued", "spacing"} => v \in passed'
                BY <2>1, <2>4 DEF In
            <3>2. QED
                BY <2>2, <2>4, <3>1, SpacedElsewhere
        <2>5. CASE u # v /\ ProviderOf[v] # p
            <3>1. p \in Provider /\ Touched(p) \in CoolState
                BY <1>0, FlowAssumption, TouchedTyped DEF FlowTypeOK
            <3>2. RecordUse(p) => cool' = [cool EXCEPT ![p] = Touched(p)]
                BY DEF RecordUse, Store
            <3>3. ASSUME NEW r \in Reply, RecordReply(p, r, Touched(p))
                  PROVE  StoredFrom(p, Touched(p))
                BY <1>0, <3>1, <3>3, ReplyStores DEF FlowTypeOK
            <3>4. \E t : cool' = [cool EXCEPT ![p] = t]
                BY <1>6, <3>2, <3>3 DEF Settle, StoredFrom
            <3>5. cool'[ProviderOf[v]] = cool[ProviderOf[v]]
                BY <1>0, <2>5, <3>4 DEF FlowTypeOK
            <3>6. phase'[v] = phase[v] /\ wake'[v] = wake[v] /\ now' = now
                BY <2>1, <2>2, <2>5
            <3>7. v \in passed => v \in passed'
                BY <2>1
            <3>8. QED
                BY <1>0, <3>5, <3>6, <3>7, SpacedLater
        <2>6. QED
            BY <2>3, <2>4, <2>5
    <1>7. ASSUME Around
          PROVE  Spaced(v)'
        <2>1. phase' = phase /\ wake' = wake /\ passed' = passed
            BY <1>7 DEF Around, flowVars
        <2>2. CASE Boot
            <3>1. phase'[v] = "idle"
                BY <2>1, <2>2 DEF Boot, QueuesOK, DownIdle
            <3>2. QED
                BY <3>1, SpacedElsewhere
        <2>3. CASE ~Boot
            <3>1. ASSUME NEW S, ClearProviders(S)
                  PROVE  cool'[ProviderOf[v]] \in {cool[ProviderOf[v]], Fresh}
                BY <1>0, <3>1 DEF ClearProviders
            <3>2. cool'[ProviderOf[v]] \in {cool[ProviderOf[v]], Fresh}
                BY <1>7, <2>3, <3>1 DEF Around, Reset, ResetAll, Tick, cooldownVars
            <3>3. now' = now \/ now' = now + 1
                BY <1>7, <2>3 DEF Around, Reset, ResetAll, Tick
            <3>4. now' \in Nat /\ now <= now' /\ Fresh.lastSmtpAt = 0
                BY <1>0, <3>3 DEF Fresh
            <3>5. \/ cool'[ProviderOf[v]].lastSmtpAt = cool[ProviderOf[v]].lastSmtpAt
                  \/ cool'[ProviderOf[v]].lastSmtpAt = 0
                BY <3>2, <3>4
            <3>6. QED
                BY <2>1, <3>4, <3>5, SpacedLater
        <2>4. QED
            BY <2>2, <2>3
    <1>8. ASSUME Down
          PROVE  Spaced(v)'
        <2>1. phase'[v] = "idle"
            BY <1>8 DEF Down
        <2>2. QED
            BY <2>1, SpacedElsewhere
    <1>9. QED
        BY <1>1, <1>2, <1>3, <1>4, <1>5, <1>6, <1>7, <1>8 DEF FlowNext

\* SpacedFromKnownUse: a probe that starts too soon after the last use was
\* already waiting when that use was recorded.
THEOREM ProbesAreSpaced == FlowSpec => SpacedFromKnownUse
    <1> DEFINE AllSpaced == \A v \in Verification : Spaced(v)
    <1>1. FlowInit => AllSpaced
        BY DEF FlowInit, Spaced
    <1>2. QueuesOK /\ AllSpaced /\ [FlowNext]_allVars => AllSpaced'
        BY SpacedKept
    <1>3. QueuesOK /\ AllSpaced /\ [FlowNext]_allVars =>
            [\A p \in Provider :
                Open(p) /\ WaitFor(p) > 0 => Head(line[p]) \in passed]_allVars
        <2> SUFFICES ASSUME QueuesOK, AllSpaced, NEW p \in Provider,
                            Open(p), WaitFor(p) > 0
                     PROVE  Head(line[p]) \in passed
            OBVIOUS
        <2>1. Head(line[p]) \in In(p, "queued")
            BY HoldsTail DEF Open, QueuesOK, LineOK, FlowTypeOK
        <2>2. ~SpacedAt(cool[p], now)
            BY WaitForIs DEF QueuesOK, FlowTypeOK
        <2>3. QED
            BY <2>1, <2>2 DEF Spaced, In
    <1> HIDE DEF AllSpaced
    <1>4. QED
        BY <1>1, <1>2, <1>3, QueuesCorrect, PTL DEF FlowSpec, SpacedFromKnownUse

=============================================================================
