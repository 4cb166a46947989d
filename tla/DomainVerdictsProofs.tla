-------------------------- MODULE DomainVerdictsProofs --------------------------
(* Theorems about DomainVerdicts, for every number of requests and addresses,  *)
(* both backends, and every threshold, window and lifetime.                    *)
EXTENDS DomainVerdicts, FiniteSetTheorems, SequenceTheorems, TLAPS

-----------------------------------------------------------------------------
(* The inductive invariant *)

\* A request under way is about an address of the domain: what it remembers
\* cannot land in a layer.
RequestsNameAddresses ==
    /\ pc \in [Slot -> {"idle"} \cup Await]
    /\ DOMAIN req = Slot
    /\ \A s \in Slot : pc[s] # "idle" => req[s].address \in Address

\* Once an RCPT was accepted after the condemnation, the persistent layer is empty,
\* not merely expired: this is what every step keeps.
RefutedIsCleared ==
    /\ DOMAIN cache = Key
    /\ refuted => cache["mx_persistent"].v = "none"

IInv == RequestsNameAddresses /\ RefutedIsCleared

-----------------------------------------------------------------------------
(* What the operations on the caches do to the persistent layer *)

\* The layers are keys, and none of them is an address.
LEMMA Keys ==
    /\ "mx_persistent" \in Key /\ "dead" \in Key /\ "catchall" \in Key /\ "mx" \in Key
    /\ Address \subseteq Key
    /\ "mx_persistent" \notin Address
    BY VerdictsAssumption DEF Key, Layer

\* Only a write under its own key changes the persistent layer.
LEMMA PutElsewhere ==
    ASSUME NEW c, DOMAIN c = Key, NEW k \in Key, NEW v
    PROVE  /\ DOMAIN Put(c, k, v) = Key
           /\ k # "mx_persistent" =>
                 Put(c, k, v)["mx_persistent"] = c["mx_persistent"]
    BY Keys DEF Put

\* A hit changes the expiry of its entry and nothing of what it says.
LEMMA TouchKeepsValues ==
    ASSUME NEW c, DOMAIN c = Key, NEW k \in Key
    PROVE  /\ DOMAIN Touch(c, k) = Key
           /\ k # "mx_persistent" =>
                 Touch(c, k)["mx_persistent"] = c["mx_persistent"]
    BY Keys DEF Touch

\* A result is stored under the address of its request.
LEMMA RememberElsewhere ==
    ASSUME NEW c, DOMAIN c = Key, NEW s, req[s].address \in Address, NEW v
    PROVE  /\ DOMAIN Remember(c, s, v) = Key
           /\ Remember(c, s, v)["mx_persistent"] = c["mx_persistent"]
    BY Keys, PutElsewhere DEF Remember

\* Dropping keys empties them and leaves the others.
LEMMA DropClears ==
    ASSUME NEW c, NEW K
    PROVE  /\ DOMAIN Drop(c, K) = Key
           /\ \/ Drop(c, K)["mx_persistent"] = c["mx_persistent"]
              \/ Drop(c, K)["mx_persistent"].v = "none"
           /\ "mx_persistent" \in K => Drop(c, K)["mx_persistent"].v = "none"
           /\ "mx_persistent" \notin K =>
                 Drop(c, K)["mx_persistent"] = c["mx_persistent"]
    BY Keys DEF Drop, NoEntry

-----------------------------------------------------------------------------
(* Steps *)

\* A request moves on or ends: the others stay where they are.
LEMMA GotoKeepsRequests ==
    ASSUME RequestsNameAddresses, NEW s \in Slot, pc[s] # "idle",
           NEW where \in Await, Goto(s, where)
    PROVE  RequestsNameAddresses'
    BY DEF RequestsNameAddresses, Goto

LEMMA FinishKeepsRequests ==
    ASSUME RequestsNameAddresses, NEW s \in Slot, NEW v, NEW t, NEW cached,
           Finish(s, v, t, cached)
    PROVE  RequestsNameAddresses'
    BY DEF RequestsNameAddresses, Finish

\* A path failure writes the persistent layer only together with the verdict that
\* makes the condemnation new.
LEMMA PathFailureKeeps ==
    ASSUME IInv, NEW s \in Slot, pc[s] # "idle", NEW keep \in BOOLEAN,
           PathFailure(s, keep)
    PROVE  IInv'
    <1> DEFINE next == Append(Recent(events), now)
               v == IF Len(next) >= Threshold THEN "persistent" ELSE "soft"
               marked == IF v = "persistent"
                         THEN Put(Put(cache, "dead", v), "mx_persistent", v)
                         ELSE cache
    <1>0. req[s].address \in Address /\ DOMAIN cache = Key
        BY DEF IInv, RequestsNameAddresses, RefutedIsCleared
    <1>1. /\ refuted' = (refuted /\ v # "persistent")
          /\ cache' = IF keep THEN Remember(marked, s, v) ELSE marked
          /\ Finish(s, v, now, FALSE)
        BY DEF PathFailure
    <1> HIDE DEF v
    <1>2. DOMAIN marked = Key
        BY <1>0, Keys, PutElsewhere
    <1>3. v # "persistent" => marked = cache
        OBVIOUS
    <1> HIDE DEF marked
    <1>4. DOMAIN cache' = Key /\ cache'["mx_persistent"] = marked["mx_persistent"]
        BY <1>0, <1>1, <1>2, RememberElsewhere
    <1>5. refuted' => cache'["mx_persistent"].v = "none"
        BY <1>1, <1>3, <1>4 DEF IInv, RefutedIsCleared
    <1>6. RequestsNameAddresses'
        BY <1>1, FinishKeepsRequests DEF IInv
    <1>7. QED
        BY <1>4, <1>5, <1>6 DEF IInv, RefutedIsCleared

\* A step that neither writes the persistent layer nor touches the verdicts.
LEMMA LayerUntouched ==
    ASSUME IInv, RequestsNameAddresses', DOMAIN cache' = Key,
           cache'["mx_persistent"] = cache["mx_persistent"], refuted' = refuted
    PROVE  IInv'
    BY DEF IInv, RefutedIsCleared

LEMMA BeginKeeps ==
    ASSUME IInv, NEW s \in Slot, Begin(s)
    PROVE  IInv'
    <1>0. DOMAIN cache = Key
        BY DEF IInv, RefutedIsCleared
    <1>1. refuted' = refuted
        BY DEF Begin, History
    <1>2. PICK a \in Address, o \in Options :
              \/ cache' = Touch(cache, a) /\ UNCHANGED <<pc, req>>
              \/ /\ pc' = [pc EXCEPT ![s] = "lists"]
                 /\ req' = [req EXCEPT ![s] = [address |-> a, opts |-> o]]
                 /\ UNCHANGED cache
        BY DEF Begin
    <1>3. RequestsNameAddresses'
        BY <1>2 DEF IInv, RequestsNameAddresses, Await
    <1>4. DOMAIN cache' = Key /\ cache'["mx_persistent"] = cache["mx_persistent"]
        BY <1>0, <1>2, Keys, TouchKeepsValues
    <1>5. QED
        BY <1>1, <1>3, <1>4, LayerUntouched

LEMMA LookupMxKeeps ==
    ASSUME IInv, NEW s \in Slot, pc[s] # "idle", LookupMx(s), UNCHANGED refuted
    PROVE  IInv'
    <1>0. DOMAIN cache = Key
        BY DEF IInv, RefutedIsCleared
    <1>1. /\ DOMAIN cache' = Key
          /\ cache'["mx_persistent"] = cache["mx_persistent"]
        <2>1. CASE cache' = Drop(cache, {"mx"})
            BY <2>1, DropClears
        <2>2. CASE UNCHANGED cache
            BY <1>0, <2>2
        <2>3. CASE cache' = Touch(cache, "mx")
            BY <1>0, <2>3, Keys, TouchKeepsValues
        <2>4. CASE cache' = [Touch(cache, "mx") EXCEPT !["dead"] =
                                [v |-> "no_domain", at |-> cache["mx"].at,
                                 until |-> now + Lifetime("dead", "no_domain")]]
            <3>1. /\ DOMAIN Touch(cache, "mx") = Key
                  /\ Touch(cache, "mx")["mx_persistent"] = cache["mx_persistent"]
                BY <1>0, Keys, TouchKeepsValues
            <3>2. QED
                BY <2>4, <3>1, Keys
        <2>5. QED
            BY <2>1, <2>2, <2>3, <2>4 DEF LookupMx
    <1>2. RequestsNameAddresses'
        <2>1. CASE Goto(s, "mx") \/ Goto(s, "addr")
            BY <2>1, GotoKeepsRequests DEF IInv, Await
        <2>2. CASE Finish(s, "no_domain", cache["mx"].at, TRUE)
            BY <2>2, FinishKeepsRequests DEF IInv
        <2>3. QED
            BY <2>1, <2>2 DEF LookupMx
    <1>3. QED
        BY <1>1, <1>2, LayerUntouched

\* A hit in the persistent layer renews an entry that stands.
LEMMA LayersKeeps ==
    ASSUME IInv, NEW s \in Slot, Layers(s)
    PROVE  IInv'
    <1>0. /\ DOMAIN cache = Key /\ pc[s] # "idle" /\ refuted' = refuted
        BY DEF IInv, RefutedIsCleared, Layers, History
    <1>1. CASE Live("mx_persistent") /\ ServeLayer(s, "mx_persistent", "persistent")
        <2>1. ~refuted
            BY <1>1 DEF Live, IInv, RefutedIsCleared
        <2>2. DOMAIN cache' = Key
            BY <1>0, <1>1, Keys, TouchKeepsValues DEF ServeLayer
        <2>3. RequestsNameAddresses'
            BY <1>1, FinishKeepsRequests DEF ServeLayer, IInv
        <2>4. QED
            BY <1>0, <2>1, <2>2, <2>3 DEF IInv, RefutedIsCleared
    <1>2. CASE ServeLayer(s, "dead", cache["dead"].v)
        <2>1. /\ DOMAIN cache' = Key
              /\ cache'["mx_persistent"] = cache["mx_persistent"]
            BY <1>0, <1>2, Keys, TouchKeepsValues DEF ServeLayer
        <2>2. RequestsNameAddresses'
            BY <1>2, FinishKeepsRequests DEF ServeLayer, IInv
        <2>3. QED
            BY <1>0, <2>1, <2>2, LayerUntouched
    <1>3. CASE LookupMx(s)
        BY <1>0, <1>3, LookupMxKeeps
    <1>4. QED
        BY <1>1, <1>2, <1>3 DEF Layers

LEMMA MxAnsweredKeeps ==
    ASSUME IInv, NEW s \in Slot, MxAnswered(s)
    PROVE  IInv'
    <1>0. /\ DOMAIN cache = Key /\ pc[s] # "idle" /\ refuted' = refuted
        BY DEF IInv, RefutedIsCleared, MxAnswered, History
    <1>1. /\ DOMAIN cache' = Key
          /\ cache'["mx_persistent"] = cache["mx_persistent"]
        <2> DEFINE known == Put(cache, "mx", "no_domain")
        <2>1. \/ cache' = cache
              \/ cache' = Put(cache, "mx", "routes")
              \/ cache' = known
              \/ cache' = Put(known, "dead", "no_domain")
            BY DEF MxAnswered
        <2>2. /\ DOMAIN known = Key
              /\ known["mx_persistent"] = cache["mx_persistent"]
            BY <1>0, Keys, PutElsewhere
        <2>3. /\ DOMAIN Put(cache, "mx", "routes") = Key
              /\ Put(cache, "mx", "routes")["mx_persistent"] = cache["mx_persistent"]
            BY <1>0, Keys, PutElsewhere
        <2> HIDE DEF known
        <2>4. /\ DOMAIN Put(known, "dead", "no_domain") = Key
              /\ Put(known, "dead", "no_domain")["mx_persistent"] = known["mx_persistent"]
            BY <2>2, Keys, PutElsewhere
        <2>5. QED
            BY <1>0, <2>1, <2>2, <2>3, <2>4
    <1>2. RequestsNameAddresses'
        <2>1. CASE Goto(s, "addr")
            BY <1>0, <2>1, GotoKeepsRequests DEF IInv, Await
        <2>2. CASE \E v \in {"no_domain", "soft", "rejected"} : Finish(s, v, now, FALSE)
            BY <2>2, FinishKeepsRequests DEF IInv
        <2>3. QED
            BY <2>1, <2>2 DEF MxAnswered
    <1>3. QED
        BY <1>0, <1>1, <1>2, LayerUntouched

LEMMA RoutableKeeps ==
    ASSUME IInv, NEW s \in Slot, pc[s] # "idle", Routable(s), UNCHANGED refuted
    PROVE  IInv'
    <1>0. DOMAIN cache = Key /\ req[s].address \in Address
        BY DEF IInv, RefutedIsCleared, RequestsNameAddresses
    <1>1. /\ \/ cache' = Remember(cache, s, "soft")
             \/ cache' = Touch(cache, "catchall")
             \/ UNCHANGED cache
          /\ \/ Finish(s, "soft", now, FALSE)
             \/ Goto(s, "main")
             \/ Goto(s, "catchall")
        BY DEF Routable
    <1>2. /\ DOMAIN cache' = Key
          /\ cache'["mx_persistent"] = cache["mx_persistent"]
        <2>1. /\ DOMAIN Remember(cache, s, "soft") = Key
              /\ Remember(cache, s, "soft")["mx_persistent"] = cache["mx_persistent"]
            BY <1>0, RememberElsewhere
        <2>2. /\ DOMAIN Touch(cache, "catchall") = Key
              /\ Touch(cache, "catchall")["mx_persistent"] = cache["mx_persistent"]
            BY <1>0, Keys, TouchKeepsValues
        <2>3. QED
            BY <1>0, <1>1, <2>1, <2>2
    <1>3. RequestsNameAddresses'
        BY <1>1, GotoKeepsRequests, FinishKeepsRequests DEF IInv, Await
    <1>4. QED
        BY <1>2, <1>3, LayerUntouched

LEMMA AddrAnsweredKeeps ==
    ASSUME IInv, NEW s \in Slot, AddrAnswered(s)
    PROVE  IInv'
    <1>0. pc[s] # "idle"
        BY DEF AddrAnswered
    <1>1. CASE Finish(s, "rejected", now, FALSE) /\ UNCHANGED <<cache, events, History>>
        <2>1. RequestsNameAddresses'
            BY <1>1, FinishKeepsRequests DEF IInv
        <2>2. QED
            BY <1>1, <2>1, LayerUntouched DEF IInv, RefutedIsCleared, History
    <1>2. CASE PathFailure(s, FALSE)
        BY <1>0, <1>2, PathFailureKeeps
    <1>3. CASE Routable(s) /\ UNCHANGED <<events, History>>
        BY <1>0, <1>3, RoutableKeeps DEF History
    <1>4. QED
        BY <1>1, <1>2, <1>3 DEF AddrAnswered

LEMMA CatchAllAnsweredKeeps ==
    ASSUME IInv, NEW s \in Slot, CatchAllAnswered(s)
    PROVE  IInv'
    <1>0. /\ DOMAIN cache = Key /\ req[s].address \in Address
          /\ pc[s] # "idle" /\ refuted' = refuted
        BY DEF IInv, RefutedIsCleared, RequestsNameAddresses, CatchAllAnswered, History
    <1>1. /\ \/ cache' = Remember(cache, s, "catch_all")
             \/ cache' = Put(cache, "catchall", "not_catch_all")
             \/ UNCHANGED cache
          /\ Finish(s, "catch_all", now, FALSE) \/ Goto(s, "main")
        BY DEF CatchAllAnswered
    <1>2. /\ DOMAIN cache' = Key
          /\ cache'["mx_persistent"] = cache["mx_persistent"]
        BY <1>0, <1>1, Keys, RememberElsewhere, PutElsewhere
    <1>3. RequestsNameAddresses'
        BY <1>0, <1>1, GotoKeepsRequests, FinishKeepsRequests DEF IInv, Await
    <1>4. QED
        BY <1>0, <1>2, <1>3, LayerUntouched

LEMMA MainAnsweredKeeps ==
    ASSUME IInv, NEW s \in Slot, MainAnswered(s)
    PROVE  IInv'
    <1>0. /\ DOMAIN cache = Key /\ req[s].address \in Address /\ pc[s] # "idle"
        BY DEF IInv, RefutedIsCleared, RequestsNameAddresses, MainAnswered
    <1>1. CASE Accepted(s)
        <2> DEFINE cleared == Drop(cache, {"mx_persistent"})
        <2>1. DOMAIN cleared = Key /\ cleared["mx_persistent"].v = "none"
            BY DropClears
        <2>2. cache' = Remember(cleared, s, "valid")
            BY <1>1 DEF Accepted
        <2> HIDE DEF cleared
        <2>3. DOMAIN cache' = Key /\ cache'["mx_persistent"].v = "none"
            BY <1>0, <2>1, <2>2, RememberElsewhere
        <2>4. RequestsNameAddresses'
            BY <1>1, FinishKeepsRequests DEF IInv, Accepted
        <2>5. QED
            BY <2>3, <2>4 DEF IInv, RefutedIsCleared
    <1>2. CASE /\ \E v \in {"rejected", "soft"} :
                     cache' = Remember(cache, s, v) /\ Finish(s, v, now, FALSE)
               /\ UNCHANGED <<events, History>>
        <2>1. /\ DOMAIN cache' = Key
              /\ cache'["mx_persistent"] = cache["mx_persistent"]
            BY <1>0, <1>2, RememberElsewhere
        <2>2. RequestsNameAddresses'
            BY <1>2, FinishKeepsRequests DEF IInv
        <2>3. QED
            BY <1>2, <2>1, <2>2, LayerUntouched DEF History
    <1>3. CASE PathFailure(s, TRUE)
        BY <1>0, <1>3, PathFailureKeeps
    <1>4. QED
        BY <1>1, <1>2, <1>3 DEF MainAnswered

\* A clear, a restart and the clock only drop entries.
LEMMA AroundKeeps ==
    ASSUME IInv, ClearCaches \/ Restart \/ Tick
    PROVE  IInv'
    <1>1. /\ \/ \E K : cache' = Drop(cache, K)
             \/ cache' = cache
          /\ refuted' = refuted
        BY DEF ClearCaches, Restart, Tick, History
    <1>2. RefutedIsCleared'
        BY <1>1, DropClears DEF IInv, RefutedIsCleared
    <1>3. RequestsNameAddresses'
        <2>1. CASE UNCHANGED <<pc, req>>
            BY <2>1 DEF IInv, RequestsNameAddresses
        <2>2. CASE /\ pc' = [s \in Slot |-> "idle"]
                   /\ req' = [s \in Slot |-> NoRequest]
            BY <2>2 DEF RequestsNameAddresses
        <2>3. QED
            BY <2>1, <2>2 DEF ClearCaches, Restart, Tick
    <1>4. QED
        BY <1>2, <1>3 DEF IInv

-----------------------------------------------------------------------------

\* While the persistent layer condemns the domain, no RCPT was accepted since the
\* failures that condemned it: clearMxPathFailures and withMxPersistent keep count
\* and layer together under every order of the answers of overlapping requests,
\* with both backends, across cache clears and restarts.
THEOREM CondemnationIsCurrent == Spec => []CondemnationStands
    <1>1. Init => IInv
        BY DEF Init, IInv, RequestsNameAddresses, RefutedIsCleared
    <1>2. IInv /\ [Next]_vars => IInv'
        <2> SUFFICES ASSUME IInv, [Next]_vars
                     PROVE  IInv'
            OBVIOUS
        <2>1. CASE UNCHANGED vars
            BY <2>1 DEF vars, IInv, RequestsNameAddresses, RefutedIsCleared
        <2>2. CASE \E s \in Slot :
                       \/ Begin(s) \/ Layers(s) \/ MxAnswered(s)
                       \/ AddrAnswered(s) \/ CatchAllAnswered(s) \/ MainAnswered(s)
            BY <2>2, BeginKeeps, LayersKeeps, MxAnsweredKeeps, AddrAnsweredKeeps,
               CatchAllAnsweredKeeps, MainAnsweredKeeps
        <2>3. CASE ClearCaches \/ Restart \/ Tick
            BY <2>3, AroundKeeps
        <2>4. QED
            BY <2>1, <2>2, <2>3 DEF Next
    <1>3. IInv => CondemnationStands
        BY DEF IInv, RefutedIsCleared, CondemnationStands, Live
    <1>4. QED
        BY <1>1, <1>2, <1>3, PTL DEF Spec

-----------------------------------------------------------------------------
(* The entries of the caches *)

\* What a key can say: results are the verdicts that are remembered, and every
\* layer has its own answers.
Says(k, v) ==
    /\ k \in Address => v \in Verdict \ {"no_domain"}
    /\ k = "mx" => v \in {"routes", "no_domain"}
    /\ k = "dead" => v \in {"no_domain", "persistent"}
    /\ k = "mx_persistent" => v = "persistent"
    /\ k = "catchall" => v = "not_catch_all"

\* How far an entry can reach past the moment its value was found out: the dead
\* layer repeats an answer of lookupMx that is as old as the layer of lookupMx.
Span(k, v) == IF k = "dead" /\ v = "no_domain" THEN 2 * Ttl["dead"] ELSE Lifetime(k, v)

\* At time t the entry is a value of its key, found out by then, that lasts one
\* lifetime at most; in SQLite it also lasts no longer than its span.
EntryOK(k, e, t) ==
    \/ e = NoEntry
    \/ /\ e \in [v : Value, at : Nat, until : Nat]
       /\ Says(k, e.v)
       /\ e.at <= t
       /\ e.until <= t + Lifetime(k, e.v)
       /\ Backend = "sqlite" => e.until <= e.at + Span(k, e.v)

CacheOK(c, t) == DOMAIN c = Key /\ c = [k \in Key |-> c[k]] /\ \A k \in Key : EntryOK(k, c[k], t)

LEMMA SaysIsValue ==
    ASSUME NEW k \in Key, NEW v, Says(k, v)
    PROVE  v \in Value
    BY DEF Key, Layer, Value, Verdict, Says

\* Every key is an address or one of the four layers, never both.
LEMMA KeyKinds ==
    ASSUME NEW k \in Key
    PROVE  \/ k \in Address /\ k \notin {"mx", "dead", "mx_persistent", "catchall"}
           \/ k \notin Address /\ k \in {"mx", "dead", "mx_persistent", "catchall"}
    BY VerdictsAssumption DEF Key, Layer

\* Every lifetime is one of the configured ones.
LEMMA Lifetimes ==
    ASSUME NEW k \in Key, NEW v, Says(k, v)
    PROVE  /\ \E t \in IF k \in Address THEN ResultTtl ELSE {k, "dead"} :
                  Lifetime(k, v) = Ttl[t] /\ Ttl[t] \in Nat
           /\ Lifetime(k, v) \in Nat
           /\ Span(k, v) \in Nat
           /\ Lifetime(k, v) <= Span(k, v)
    <1>1. \A t \in Layer \cup ResultTtl : Ttl[t] \in Nat
        BY VerdictsAssumption
    <1>2. CASE k \in Address
        <2>1. v \in Verdict \ {"no_domain"}
            BY <1>2 DEF Says
        <2>2. ResultClass(v) \in ResultTtl
            BY <2>1 DEF ResultClass, ResultTtl, Verdict
        <2>3. Lifetime(k, v) = Ttl[ResultClass(v)] /\ k # "dead"
            BY <1>2, KeyKinds DEF Lifetime
        <2>4. QED
            BY <1>1, <1>2, <2>2, <2>3 DEF Span
    <1>3. CASE k \notin Address
        <2>1. k \in Layer
            BY <1>3, KeyKinds DEF Layer
        <2>2. Lifetime(k, v) = Ttl[k] \/ (k = "mx" /\ Lifetime(k, v) = Ttl["dead"])
            BY <1>3, <2>1 DEF Lifetime
        <2>3. k = "dead" => Lifetime(k, v) = Ttl["dead"]
            BY <2>2
        <2>4. Ttl["dead"] \in Nat /\ Ttl[k] \in Nat
            BY <1>1, <2>1 DEF Layer
        <2>5. QED
            BY <1>3, <2>2, <2>3, <2>4 DEF Span
    <1>4. QED
        BY <1>2, <1>3

\* An entry made now is in order.
LEMMA PutOK ==
    ASSUME NEW c, CacheOK(c, now), now \in Nat, NEW k \in Key, NEW v, Says(k, v)
    PROVE  CacheOK(Put(c, k, v), now)
    <1> DEFINE e == [v |-> v, at |-> now, until |-> now + Lifetime(k, v)]
    <1>1. Lifetime(k, v) \in Nat /\ Span(k, v) \in Nat /\ Lifetime(k, v) <= Span(k, v)
        BY Lifetimes
    <1>2. v \in Value
        BY SaysIsValue
    <1>3. e \in [v : Value, at : Nat, until : Nat]
        BY <1>1, <1>2
    <1>4. EntryOK(k, e, now)
        BY <1>1, <1>3 DEF EntryOK
    <1>5. Put(c, k, v) = [c EXCEPT ![k] = e]
        BY DEF Put
    <1> HIDE DEF e
    <1>6. QED
        BY <1>4, <1>5 DEF CacheOK

\* A hit renews an entry of the memory backend and leaves one of SQLite alone.
LEMMA TouchOK ==
    ASSUME NEW c, CacheOK(c, now), now \in Nat, NEW k \in Key, c[k].v # "none"
    PROVE  CacheOK(Touch(c, k), now)
    <1>1. CASE Backend = "memory"
        <2> DEFINE u == now + Lifetime(k, c[k].v)
                   e == [c[k] EXCEPT !.until = u]
        <2>1. /\ c[k] \in [v : Value, at : Nat, until : Nat]
              /\ Says(k, c[k].v) /\ c[k].at <= now
            BY DEF CacheOK, EntryOK, NoEntry
        <2>2. u \in Nat
            BY <2>1, Lifetimes
        <2>3. Backend # "sqlite"
            BY <1>1
        <2>4. EntryOK(k, e, now)
            BY <2>1, <2>2, <2>3 DEF EntryOK
        <2>5. Touch(c, k) = [c EXCEPT ![k] = e]
            BY <1>1 DEF Touch, CacheOK
        <2> HIDE DEF e
        <2>6. QED
            BY <2>4, <2>5 DEF CacheOK
    <1>2. CASE Backend # "memory"
        BY <1>2 DEF Touch
    <1>3. QED
        BY <1>1, <1>2

LEMMA DropOK ==
    ASSUME NEW c, NEW t, CacheOK(c, t), NEW K
    PROVE  CacheOK(Drop(c, K), t)
    BY DEF CacheOK, Drop, EntryOK

LEMMA RememberOK ==
    ASSUME NEW c, CacheOK(c, now), now \in Nat, NEW s, req[s].address \in Address,
           NEW v \in Verdict \ {"no_domain"}
    PROVE  CacheOK(Remember(c, s, v), now)
    <1>1. req[s].address \in Key /\ Says(req[s].address, v)
        BY KeyKinds DEF Key, Says
    <1>2. QED
        BY <1>1, PutOK DEF Remember

\* The clock moves on: nothing in a cache is newer for it.
LEMMA LaterOK ==
    ASSUME NEW c, NEW t \in Nat, NEW u \in Nat, t <= u, CacheOK(c, t)
    PROVE  CacheOK(c, u)
    <1> SUFFICES ASSUME NEW k \in Key PROVE EntryOK(k, c[k], u)
        BY DEF CacheOK
    <1>1. EntryOK(k, c[k], t)
        BY DEF CacheOK
    <1>2. CASE c[k] = NoEntry
        BY <1>2 DEF EntryOK
    <1>3. CASE c[k] # NoEntry
        <2>1. /\ c[k].at \in Nat /\ c[k].until \in Nat
              /\ c[k].at <= t /\ c[k].until <= t + Lifetime(k, c[k].v)
              /\ Lifetime(k, c[k].v) \in Nat
            BY <1>1, <1>3, Lifetimes DEF EntryOK
        <2>2. c[k].at <= u /\ c[k].until <= u + Lifetime(k, c[k].v)
            BY <2>1
        <2>3. QED
            BY <1>1, <1>3, <2>2 DEF EntryOK
    <1>4. QED
        BY <1>2, <1>3

\* An empty answer of lookupMx that is remembered as dead once more: the layer
\* of lookupMx had not expired, so two lifetimes bound how old it can get.
LEMMA DeadAgainOK ==
    ASSUME NEW c, CacheOK(c, now), now \in Nat, NEW at,
           at = cache["mx"].at, CacheOK(cache, now), Live("mx"),
           cache["mx"].v = "no_domain"
    PROVE  CacheOK([c EXCEPT !["dead"] =
                       [v |-> "no_domain", at |-> at,
                        until |-> now + Lifetime("dead", "no_domain")]], now)
    <1> DEFINE u == now + Lifetime("dead", "no_domain")
               e == [v |-> "no_domain", at |-> at, until |-> u]
    <1>1. "dead" \in Key /\ "mx" \in Key /\ "mx" \notin Address /\ "dead" \notin Address
        BY Keys, KeyKinds
    <1>2. /\ Lifetime("dead", "no_domain") = Ttl["dead"] /\ Ttl["dead"] \in Nat
          /\ Lifetime("mx", "no_domain") = Ttl["dead"]
        BY <1>1, VerdictsAssumption DEF Lifetime, Layer
    <1>3. /\ cache["mx"].at \in Nat /\ cache["mx"].until \in Nat
          /\ cache["mx"].at <= now /\ now <= cache["mx"].until
          /\ Backend = "sqlite" => cache["mx"].until <= cache["mx"].at + Ttl["dead"]
        <2>1. EntryOK("mx", cache["mx"], now) /\ cache["mx"] # NoEntry
            BY <1>1 DEF CacheOK, NoEntry
        <2>2. Span("mx", "no_domain") = Ttl["dead"]
            BY <1>2 DEF Span
        <2>3. cache["mx"].until \in Nat /\ cache["mx"].until >= now
            BY <2>1 DEF EntryOK, Live
        <2>4. QED
            BY <2>1, <2>2, <2>3 DEF EntryOK
    <1>4. u \in Nat /\ at \in Nat /\ at <= now
        BY <1>2, <1>3
    <1>5. Backend = "sqlite" => u <= at + 2 * Ttl["dead"]
        BY <1>2, <1>3
    <1>6. Says("dead", "no_domain") /\ "no_domain" \in Value
        BY <1>1, SaysIsValue DEF Says
    <1>7. e \in [v : Value, at : Nat, until : Nat]
        BY <1>4, <1>6
    <1>8. EntryOK("dead", e, now)
        BY <1>2, <1>4, <1>5, <1>6, <1>7 DEF EntryOK, Span
    <1> HIDE DEF e
    <1>9. QED
        BY <1>1, <1>8 DEF CacheOK, e

-----------------------------------------------------------------------------
(* The answers *)

LEMMA MaxAges ==
    ASSUME NEW v \in Verdict
    PROVE  /\ MaxAge(v) \in Nat
           /\ v = "valid" => MaxAge(v) = Ttl["valid"]
           /\ v = "soft" => MaxAge(v) = Ttl["soft"]
           /\ v \in {"rejected", "catch_all"} => MaxAge(v) = Ttl["negative"]
           /\ v = "no_domain" => MaxAge(v) = 2 * Ttl["dead"]
           /\ v = "persistent" => /\ Ttl["negative"] <= MaxAge(v)
                                  /\ Ttl["dead"] <= MaxAge(v)
                                  /\ Ttl["mx_persistent"] <= MaxAge(v)
    <1> DEFINE a == Ttl["negative"]
               b == Ttl["dead"]
               c == Ttl["mx_persistent"]
    <1>1. /\ a \in Nat /\ b \in Nat /\ c \in Nat
          /\ Ttl["valid"] \in Nat /\ Ttl["soft"] \in Nat
        BY VerdictsAssumption DEF Layer, ResultTtl
    <1>2. \E t \in {a, b, c} : \A u \in {a, b, c} : u <= t
        BY <1>1
    <1>3. CASE v = "persistent"
        <2> DEFINE m == CHOOSE t \in {a, b, c} : \A u \in {a, b, c} : u <= t
        <2>1. m \in {a, b, c} /\ \A u \in {a, b, c} : u <= m
            BY <1>2
        <2>2. MaxAge(v) = m
            BY <1>3 DEF MaxAge
        <2> HIDE DEF m
        <2>3. QED
            BY <1>1, <1>3, <2>1, <2>2
    <1>4. CASE v # "persistent"
        BY <1>1, <1>4 DEF MaxAge, Verdict
    <1>5. QED
        BY <1>3, <1>4

\* What an entry of SQLite can still say is no older than its verdict may be.
LEMMA EntryIsFresh ==
    ASSUME NEW k \in Key, k # "mx" \/ cache[k].v # "routes", k # "catchall",
           EntryOK(k, cache[k], now), Live(k), now \in Nat
    PROVE  /\ cache[k].v \in Verdict
           /\ cache[k].at \in Nat /\ cache[k].at <= now
           /\ Backend = "sqlite" => now - cache[k].at <= MaxAge(cache[k].v)
    <1> DEFINE v == cache[k].v
    <1>1. /\ cache[k].at \in Nat /\ cache[k].until \in Nat /\ Says(k, v)
          /\ cache[k].at <= now /\ now <= cache[k].until
          /\ Backend = "sqlite" => cache[k].until <= cache[k].at + Span(k, v)
        <2>1. cache[k] # NoEntry
            BY DEF Live, NoEntry
        <2>2. cache[k].until \in Nat /\ cache[k].until >= now
            BY <2>1 DEF EntryOK, Live
        <2>3. QED
            BY <2>1, <2>2 DEF EntryOK
    <1>2. v \in Verdict
        BY <1>1, KeyKinds DEF Says, Verdict
    <1>3. Span(k, v) \in Nat /\ Span(k, v) <= MaxAge(v)
        <2>0. \A t \in Layer \cup ResultTtl : Ttl[t] \in Nat
            BY VerdictsAssumption
        <2>1. CASE k \in Address
            <3>1. Span(k, v) = Ttl[ResultClass(v)] /\ v # "no_domain"
                BY <1>1, <2>1, KeyKinds DEF Span, Lifetime, Says
            <3>2. \/ v = "valid" /\ ResultClass(v) = "valid"
                  \/ v = "soft" /\ ResultClass(v) = "soft"
                  \/ v \in {"rejected", "persistent", "catch_all"} /\ ResultClass(v) = "negative"
                BY <1>2, <3>1 DEF ResultClass, Verdict
            <3>3. Ttl["valid"] \in Nat /\ Ttl["soft"] \in Nat /\ Ttl["negative"] \in Nat
                BY <2>0 DEF ResultTtl
            <3>4. QED
                BY <1>2, <3>1, <3>2, <3>3, MaxAges
        <2>2. CASE k \notin Address /\ k = "mx"
            <3>1. v = "no_domain" /\ Span(k, v) = Ttl["dead"] /\ Ttl["dead"] \in Nat
                BY <1>1, <2>0, <2>2 DEF Says, Span, Lifetime, Layer
            <3>2. QED
                BY <1>2, <3>1, MaxAges
        <2>3. CASE k \notin Address /\ k = "dead"
            <3>1. Ttl["dead"] \in Nat
                BY <2>0 DEF Layer
            <3>2. Span(k, v) = IF v = "no_domain" THEN 2 * Ttl["dead"] ELSE Ttl["dead"]
                BY <2>3 DEF Span, Lifetime
            <3>3. v = "no_domain" \/ v = "persistent"
                BY <1>1, <2>3 DEF Says
            <3>4. QED
                BY <1>2, <3>1, <3>2, <3>3, MaxAges
        <2>4. CASE k \notin Address /\ k = "mx_persistent"
            <3>1. /\ v = "persistent" /\ Span(k, v) = Ttl["mx_persistent"]
                  /\ Ttl["mx_persistent"] \in Nat
                BY <1>1, <2>0, <2>4 DEF Says, Span, Lifetime, Layer
            <3>2. QED
                BY <1>2, <3>1, MaxAges
        <2>5. QED
            BY <2>1, <2>2, <2>3, <2>4, KeyKinds
    <1>4. MaxAge(v) \in Nat
        BY <1>2, MaxAges
    <1>5. QED
        BY <1>1, <1>2, <1>3, <1>4

-----------------------------------------------------------------------------
(* Requests and answers, step by step *)

\* Every request under way names its address and its options.
RequestsOK ==
    /\ pc \in [Slot -> {"idle"} \cup Await]
    /\ DOMAIN req = Slot
    /\ \A s \in Slot : IF pc[s] = "idle"
                       THEN req[s] = NoRequest
                       ELSE req[s] \in [address : Address, opts : Options]

\* The last answer, if one was given, is a verdict that was found out by now and,
\* with SQLite, not longer ago than it may be repeated.
AnswerOK ==
    /\ out.v \in Verdict \cup {"none"}
    /\ out.age \in 0 .. now
    /\ Backend = "sqlite" => AnswersAreFresh

\* Path failures: the count is made of the last ones of the history, in order.
FailuresOK ==
    /\ events \in Seq(1 .. now)
    /\ fails \in Seq(1 .. now)
    /\ Len(events) <= Len(fails)
    /\ \A i \in 1 .. Len(events) : events[i] = fails[(Len(fails) - Len(events)) + i]
    /\ \A i, j \in 1 .. Len(events) : i <= j => events[i] <= events[j]

TInv ==
    /\ now \in Nat \ {0}
    /\ RequestsOK
    /\ CacheOK(cache, now)
    /\ refuted \in BOOLEAN
    /\ AnswerOK
    /\ FailuresOK

\* A request that goes on says nothing yet.
LEMMA GotoOK ==
    ASSUME TInv, UNCHANGED now, NEW s \in Slot, pc[s] # "idle",
           NEW where \in Await, Goto(s, where)
    PROVE  RequestsOK' /\ AnswerOK' /\ out'.v = "none"
    <1>1. RequestsOK'
        BY DEF TInv, RequestsOK, Goto, Await
    <1>2. out' = Silent /\ now \in Nat
        BY DEF Goto, TInv
    <1>3. AnswerOK' /\ out'.v = "none"
        BY <1>2 DEF AnswerOK, AnswersAreFresh, Silent
    <1>4. QED
        BY <1>1, <1>3

\* A request that ends answers with a verdict that is not stale.
LEMMA FinishOK ==
    ASSUME TInv, UNCHANGED now, NEW s \in Slot, NEW v \in Verdict, NEW t \in Nat, t <= now,
           Backend = "sqlite" => now - t <= MaxAge(v),
           NEW cached, Finish(s, v, t, cached)
    PROVE  RequestsOK' /\ AnswerOK' /\ out'.v = v /\ out'.cached = cached
    <1>1. RequestsOK'
        BY DEF TInv, RequestsOK, Finish
    <1>2. out' = [v |-> v, age |-> now - t, cached |-> cached] /\ now \in Nat
        BY DEF Finish, TInv
    <1>3. AnswerOK'
        BY <1>2 DEF AnswerOK, AnswersAreFresh
    <1>4. out'.v = v /\ out'.cached = cached
        BY <1>2
    <1>5. QED
        BY <1>1, <1>3, <1>4

\* What was found out in this very step is fresh.
LEMMA FoundNow ==
    ASSUME TInv, UNCHANGED now, NEW s \in Slot, NEW v \in Verdict, Finish(s, v, now, FALSE)
    PROVE  RequestsOK' /\ AnswerOK' /\ out'.v = v
    <1> DEFINE t == now
    <1>1. t \in Nat /\ MaxAge(v) \in Nat
        BY MaxAges DEF TInv
    <1>2. t <= now /\ now - t <= MaxAge(v)
        BY <1>1
    <1>3. Finish(s, v, t, FALSE)
        OBVIOUS
    <1> HIDE DEF t
    <1>4. QED
        BY <1>1, <1>2, <1>3, FinishOK

\* A layer that is still live answers with what it says.
LEMMA ServeLayerOK ==
    ASSUME TInv, UNCHANGED now, NEW s \in Slot, NEW k \in {"mx_persistent", "dead"},
           Live(k), ServeLayer(s, k, cache[k].v)
    PROVE  RequestsOK' /\ AnswerOK' /\ CacheOK(cache, now)' /\ out'.cached = TRUE
    <1>1. k \in Key /\ now \in Nat /\ CacheOK(cache, now)
        BY Keys DEF TInv
    <1>2. EntryOK(k, cache[k], now) /\ cache[k].v # "none"
        BY <1>1 DEF CacheOK, Live
    <1>3. /\ cache[k].v \in Verdict /\ cache[k].at \in Nat /\ cache[k].at <= now
          /\ Backend = "sqlite" => now - cache[k].at <= MaxAge(cache[k].v)
        BY <1>1, <1>2, EntryIsFresh
    <1>4. RequestsOK' /\ AnswerOK' /\ out'.cached = TRUE
        BY <1>3, FinishOK DEF ServeLayer
    <1>5. CacheOK(Touch(cache, k), now)
        BY <1>1, <1>2, TouchOK
    <1>6. QED
        BY <1>4, <1>5 DEF ServeLayer

-----------------------------------------------------------------------------
(* The count of path failures *)

\* Pruning keeps what lies within the window, in its order, and nothing else:
\* the expired times are a prefix because the times are in clock order.
LEMMA RecentIsFilter ==
    ASSUME NEW s \in Seq(1 .. now), now \in Nat,
           \A i, j \in 1 .. Len(s) : i <= j => s[i] <= s[j]
    PROVE  \E d \in 0 .. Len(s) :
              /\ Recent(s) \in Seq(1 .. now)
              /\ Len(Recent(s)) = Len(s) - d
              /\ \A i \in 1 .. Len(s) - d : Recent(s)[i] = s[i + d]
              /\ \A i \in 1 .. Len(s) : i > d <=> s[i] > now - Window
    <1> DEFINE old == {i \in DOMAIN s : s[i] <= now - Window}
               d == Cardinality(old)
    <1>0. Len(s) \in Nat /\ DOMAIN s = 1 .. Len(s) /\ Window \in Nat
          /\ \A i \in 1 .. Len(s) : s[i] \in 1 .. now
        BY VerdictsAssumption
    <1>1. \A n \in Nat : IsFiniteSet(1 .. n) /\ Cardinality(1 .. n) = n
        <2> TAKE n \in Nat
        <2>1. Cardinality(1 .. n) = IF 1 > n THEN 0 ELSE n - 1 + 1
            BY FS_Interval, 1 \in Int, n \in Int
        <2>2. IsFiniteSet(1 .. n)
            BY FS_Interval, 1 \in Int, n \in Int
        <2>3. QED
            BY <2>1, <2>2
    <1>2. old \in SUBSET (1 .. Len(s))
        BY <1>0
    <1>3. IsFiniteSet(old) /\ d \in Nat /\ d <= Len(s)
        BY <1>0, <1>1, <1>2, FS_Subset, FS_CardinalityType
    <1>4. ASSUME NEW i \in 1 .. Len(s), s[i] <= now - Window
          PROVE  i <= d
        <2>1. \A j \in 1 .. i : j \in 1 .. Len(s) /\ s[j] <= now - Window
            BY <1>0, <1>4
        <2>2. 1 .. i \in SUBSET old
            BY <1>0, <2>1
        <2>3. Cardinality(1 .. i) <= d
            BY <1>3, <2>2, FS_Subset
        <2>4. QED
            BY <1>1, <2>3
    <1>5. ASSUME NEW i \in 1 .. Len(s), s[i] > now - Window
          PROVE  i > d
        <2>1. \A j \in old : j \in 1 .. i - 1
            <3> SUFFICES ASSUME NEW j \in 1 .. Len(s), s[j] <= now - Window, j >= i
                         PROVE  FALSE
                BY <1>0
            <3>1. s[i] <= s[j]
                OBVIOUS
            <3>2. QED
                BY <1>0, <1>5, <3>1
        <2>2. old \in SUBSET (1 .. i - 1) /\ i - 1 \in Nat
            BY <2>1
        <2>3. d <= Cardinality(1 .. i - 1)
            BY <1>1, <2>2, FS_Subset
        <2>4. Cardinality(1 .. i - 1) = i - 1
            BY <1>1, <2>2
        <2>5. QED
            BY <1>3, <2>3, <2>4
    <1> HIDE DEF d
    <1>6. \A i \in 1 + d .. Len(s) : s[i] \in 1 .. now
        BY <1>0, <1>3
    <1>7. Recent(s) = SubSeq(s, 1 + d, Len(s))
        BY DEF Recent, d
    <1>8. /\ SubSeq(s, 1 + d, Len(s)) \in Seq(1 .. now)
          /\ Len(SubSeq(s, 1 + d, Len(s))) = Len(s) - d
          /\ \A i \in 1 .. Len(s) - d : SubSeq(s, 1 + d, Len(s))[i] = s[i + d]
        <2> DEFINE T == 1 .. now
        <2> HIDE DEF T
        <2>1. 1 + d \in Int /\ Len(s) \in Int /\ 1 + d <= Len(s) + 1
            BY <1>0, <1>3
        <2>2. \A i \in 1 + d .. Len(s) : s[i] \in T
            BY <1>6 DEF T
        <2>3. /\ SubSeq(s, 1 + d, Len(s)) \in Seq(T)
              /\ Len(SubSeq(s, 1 + d, Len(s))) =
                    IF 1 + d <= Len(s) THEN Len(s) - (1 + d) + 1 ELSE 0
              /\ \A i \in 1 .. Len(s) - (1 + d) + 1 :
                    SubSeq(s, 1 + d, Len(s))[i] = s[(1 + d) + i - 1]
            BY <2>1, <2>2, SubSeqProperties
        <2>4. Len(s) - (1 + d) + 1 = Len(s) - d
            BY <1>0, <1>3
        <2>5. \A i \in 1 .. Len(s) - d : (1 + d) + i - 1 = i + d
            BY <1>0, <1>3
        <2>6. \A i \in 1 .. Len(s) - d : SubSeq(s, 1 + d, Len(s))[i] = s[i + d]
            BY <2>3, <2>4, <2>5
        <2>7. Len(SubSeq(s, 1 + d, Len(s))) = Len(s) - d
            <3>1. \A a, b \in Nat : b <= a =>
                      (IF 1 + b <= a THEN a - (1 + b) + 1 ELSE 0) = a - b
                OBVIOUS
            <3>2. (IF 1 + d <= Len(s) THEN Len(s) - (1 + d) + 1 ELSE 0) = Len(s) - d
                BY <1>0, <1>3, <3>1
            <3>3. QED
                BY <2>3, <3>2
        <2>8. QED
            BY <2>3, <2>6, <2>7 DEF T
    <1>9. \A i \in 1 .. Len(s) : i > d <=> s[i] > now - Window
        BY <1>0, <1>3, <1>4, <1>5
    <1>10. d \in 0 .. Len(s)
        BY <1>0, <1>3
    <1>11. QED
        BY <1>7, <1>8, <1>9, <1>10

\* Recording a failure keeps the count and the history in step, and everything
\* that is counted lies within the window.
LEMMA FailureRecorded ==
    ASSUME FailuresOK, now \in Nat \ {0}, UNCHANGED now,
           events' = Append(Recent(events), now), fails' = Append(fails, now)
    PROVE  /\ FailuresOK'
           /\ \A i \in 1 .. Len(events') : events'[i] > now - Window
    <1>0. /\ Len(events) \in Nat /\ Len(fails) \in Nat /\ Len(events) <= Len(fails)
          /\ Window \in Nat \ {0} /\ events \in Seq(1 .. now)
        BY VerdictsAssumption DEF FailuresOK
    <1>1. PICK d \in 0 .. Len(events) :
              /\ Recent(events) \in Seq(1 .. now)
              /\ Len(Recent(events)) = Len(events) - d
              /\ \A i \in 1 .. Len(events) - d : Recent(events)[i] = events[i + d]
              /\ \A i \in 1 .. Len(events) : i > d <=> events[i] > now - Window
        BY RecentIsFilter DEF FailuresOK
    <1> DEFINE m == Len(events) - d
    <1>2. m \in Nat /\ d \in Nat /\ Len(events) = m + d
        BY <1>0, <1>1
    <1> HIDE DEF m
    <1>3. /\ events' \in Seq(1 .. now) /\ Len(events') = m + 1
          /\ \A i \in 1 .. m : events'[i] = events[i + d]
          /\ events'[m + 1] = now
        BY <1>0, <1>1, AppendProperties DEF m
    <1>4. /\ fails' \in Seq(1 .. now) /\ Len(fails') = Len(fails) + 1
          /\ \A i \in 1 .. Len(fails) : fails'[i] = fails[i]
          /\ fails'[Len(fails) + 1] = now
        BY <1>0, AppendProperties DEF FailuresOK
    <1>5. \A i \in 1 .. m : i + d \in 1 .. Len(events) /\ i + d > d
        BY <1>2
    <1>6. \A i \in 1 .. Len(events') : i = m + 1 \/ i \in 1 .. m
        BY <1>2, <1>3
    <1>7. \A i \in 1 .. Len(events') : events'[i] > now - Window
        <2>1. now > now - Window
            BY <1>0
        <2>2. \A i \in 1 .. m : events'[i] > now - Window
            BY <1>1, <1>3, <1>5
        <2>3. QED
            BY <1>3, <1>6, <2>1, <2>2
    <1>8. \A i \in 1 .. Len(events') : events'[i] <= now
        BY <1>3
    <1>9. ASSUME NEW i \in 1 .. Len(events'), NEW j \in 1 .. Len(events'), i <= j
          PROVE  events'[i] <= events'[j]
        <2>1. CASE j = m + 1
            BY <1>3, <1>8, <2>1
        <2>2. CASE j \in 1 .. m
            <3>1. i \in 1 .. m /\ i + d <= j + d
                BY <1>2, <1>9, <2>2
            <3>2. QED
                BY <1>3, <1>5, <2>2, <3>1 DEF FailuresOK
        <2>3. QED
            BY <1>6, <2>1, <2>2
    <1>10. ASSUME NEW i \in 1 .. Len(events')
           PROVE  events'[i] = fails'[(Len(fails') - Len(events')) + i]
        <2>1. CASE i = m + 1
            BY <1>0, <1>2, <1>3, <1>4, <2>1
        <2>2. CASE i \in 1 .. m
            <3>1. /\ events'[i] = events[i + d]
                  /\ events[i + d] = fails[(Len(fails) - Len(events)) + (i + d)]
                BY <1>3, <1>5, <2>2 DEF FailuresOK
            <3>2. /\ (Len(fails') - Len(events')) + i = (Len(fails) - Len(events)) + (i + d)
                  /\ (Len(fails) - Len(events)) + (i + d) \in 1 .. Len(fails)
                <4> DEFINE a == Len(fails)
                           b == Len(events)
                <4> HIDE DEF a, b
                <4>1. a \in Nat /\ b \in Nat /\ b = m + d /\ b <= a
                    BY <1>0, <1>2 DEF a, b
                <4>2. ((a + 1) - (m + 1)) + i = (a - b) + (i + d) /\ (a - b) + (i + d) \in 1 .. a
                    BY <1>2, <2>2, <4>1
                <4>3. QED
                    BY <1>3, <1>4, <4>2 DEF a, b
            <3>3. QED
                BY <1>4, <3>1, <3>2
        <2>3. QED
            BY <1>6, <2>1, <2>2
    <1>11. Len(events') <= Len(fails')
        BY <1>0, <1>2, <1>3, <1>4
    <1>12. QED
        BY <1>3, <1>4, <1>7, <1>9, <1>10, <1>11 DEF FailuresOK

\* What the count counts is in the history, each failure once.
LEMMA CountedWithin ==
    ASSUME NEW e, NEW f, NEW S, e \in Seq(S), f \in Seq(S), Len(e) <= Len(f),
           \A i \in 1 .. Len(e) : e[i] = f[(Len(f) - Len(e)) + i],
           NEW t, \A i \in 1 .. Len(e) : e[i] > t
    PROVE  Len(e) <= Within(f, t)
    <1> DEFINE k == Len(f) - Len(e)
               late == {i \in DOMAIN f : f[i] > t}
               tail == k + 1 .. Len(f)
    <1>0. k \in Nat /\ Len(e) \in Nat /\ Len(f) \in Nat /\ Len(f) = k + Len(e)
          /\ DOMAIN f = 1 .. Len(f)
        OBVIOUS
    <1> HIDE DEF k
    <1>1. ASSUME NEW i \in tail PROVE f[i] > t
        <2>1. i - k \in 1 .. Len(e) /\ k + (i - k) = i
            BY <1>0
        <2>2. QED
            BY <2>1 DEF k
    <1>2. tail \in SUBSET late
        BY <1>0, <1>1
    <1>3. late \in SUBSET (1 .. Len(f)) /\ IsFiniteSet(1 .. Len(f))
        BY <1>0, FS_Interval
    <1>4. IsFiniteSet(late)
        BY <1>3, FS_Subset
    <1>5. Cardinality(tail) = IF k + 1 > Len(f) THEN 0 ELSE Len(f) - (k + 1) + 1
        <2>1. k + 1 \in Int /\ Len(f) \in Int
            BY <1>0
        <2>2. QED
            BY <2>1, FS_Interval
    <1>6. Cardinality(tail) = Len(e)
        BY <1>0, <1>5
    <1>7. Cardinality(tail) <= Cardinality(late)
        BY <1>2, <1>4, FS_Subset
    <1>8. QED
        BY <1>6, <1>7 DEF Within

-----------------------------------------------------------------------------
(* The actions *)

\* A new condemnation has its cause in the history.
HasCause ==
    out'.v = "persistent" /\ ~out'.cached => Within(fails', now - Window) >= Threshold

Kept == TInv' /\ HasCause

\* A step that records no failure keeps the count.
LEMMA Quiet ==
    ASSUME TInv, UNCHANGED <<now, events, History>>, RequestsOK', CacheOK(cache, now)', AnswerOK',
           out'.v # "persistent" \/ out'.cached = TRUE
    PROVE  Kept
    <1>1. now' = now /\ events' = events /\ fails' = fails /\ refuted' = refuted
        BY DEF History
    <1>2. FailuresOK'
        BY <1>1 DEF TInv, FailuresOK
    <1>3. HasCause
        BY DEF HasCause
    <1>4. QED
        BY <1>1, <1>2, <1>3 DEF TInv, Kept

LEMMA PathFailureOK ==
    ASSUME TInv, UNCHANGED now, NEW s \in Slot, pc[s] # "idle", NEW keep \in BOOLEAN,
           PathFailure(s, keep)
    PROVE  Kept
    <1> DEFINE next == Append(Recent(events), now)
               v == IF Len(next) >= Threshold THEN "persistent" ELSE "soft"
               dead == Put(cache, "dead", v)
               both == Put(dead, "mx_persistent", v)
               marked == IF v = "persistent" THEN both ELSE cache
    <1>0. /\ now \in Nat \ {0} /\ now \in Nat /\ CacheOK(cache, now) /\ FailuresOK
          /\ req[s].address \in Address /\ refuted \in BOOLEAN
        BY DEF TInv, RequestsOK
    <1>1. /\ events' = next /\ fails' = Append(fails, now)
          /\ refuted' = (refuted /\ v # "persistent")
          /\ cache' = IF keep THEN Remember(marked, s, v) ELSE marked
          /\ Finish(s, v, now, FALSE)
        BY DEF PathFailure
    <1>2. FailuresOK' /\ \A i \in 1 .. Len(events') : events'[i] > now - Window
        BY <1>0, <1>1, FailureRecorded
    <1>3. v = "persistent" => Len(events') >= Threshold
        BY <1>1
    <1>4. v \in {"persistent", "soft"} /\ v \in Verdict \ {"no_domain"} /\ v \in Verdict
        BY DEF Verdict
    <1> HIDE DEF v
    <1>5. CacheOK(marked, now)
        <2>1. CASE v = "persistent"
            <3>1. Says("dead", v) /\ Says("mx_persistent", v)
                BY <2>1, Keys, KeyKinds DEF Says
            <3>2. CacheOK(dead, now)
                BY <1>0, <3>1, Keys, PutOK
            <3> HIDE DEF dead
            <3>3. CacheOK(both, now)
                BY <1>0, <3>1, <3>2, Keys, PutOK
            <3>4. QED
                BY <2>1, <3>3
        <2>2. CASE v # "persistent"
            BY <1>0, <2>2
        <2>3. QED
            BY <2>1, <2>2
    <1> HIDE DEF marked
    <1>6. CacheOK(cache', now)
        BY <1>0, <1>1, <1>4, <1>5, RememberOK
    <1>7. RequestsOK' /\ AnswerOK' /\ out'.v = v
        BY <1>1, <1>4, FoundNow
    <1>8. HasCause
        <2> SUFFICES ASSUME v = "persistent"
                     PROVE  Within(fails', now - Window) >= Threshold
            BY <1>7 DEF HasCause
        <2> DEFINE e == events'
                   f == fails'
                   t == now - Window
        <2>1. /\ e \in Seq(1 .. now) /\ f \in Seq(1 .. now) /\ Len(e) <= Len(f)
              /\ \A i \in 1 .. Len(e) : e[i] = f[(Len(f) - Len(e)) + i]
            BY <1>2 DEF FailuresOK
        <2>2. \A i \in 1 .. Len(e) : e[i] > t
            BY <1>2
        <2> HIDE DEF e, f, t
        <2>3. Len(e) <= Within(f, t)
            BY <2>1, <2>2, CountedWithin
        <2>4. Len(e) >= Threshold /\ Threshold \in Nat /\ Len(e) \in Nat
            BY <1>3, <2>1, VerdictsAssumption DEF e
        <2>5. IsFiniteSet(DOMAIN f) /\ {i \in DOMAIN f : f[i] > t} \in SUBSET DOMAIN f
            <3>1. DOMAIN f = 1 .. Len(f) /\ Len(f) \in Int
                BY <2>1
            <3>2. QED
                BY <3>1, FS_Interval
        <2>6. Within(f, t) \in Nat
            BY <2>5, FS_Subset, FS_CardinalityType DEF Within
        <2>7. Within(f, t) >= Threshold
            BY <2>3, <2>4, <2>6
        <2>8. QED
            BY <2>7 DEF f, t
    <1>9. QED
        BY <1>0, <1>1, <1>2, <1>6, <1>7, <1>8 DEF TInv, Kept

LEMMA BeginOK ==
    ASSUME TInv, NEW s \in Slot, Begin(s)
    PROVE  Kept
    <1>0. /\ now \in Nat /\ CacheOK(cache, now) /\ RequestsOK
          /\ UNCHANGED <<now, events, History>>
        BY DEF TInv, Begin
    <1>1. PICK a \in Address, o \in Options :
              \/ /\ Live(a)
                 /\ cache' = Touch(cache, a)
                 /\ out' = [v |-> cache[a].v, age |-> now - cache[a].at, cached |-> TRUE]
                 /\ UNCHANGED <<pc, req>>
              \/ /\ pc' = [pc EXCEPT ![s] = "lists"]
                 /\ req' = [req EXCEPT ![s] = [address |-> a, opts |-> o]]
                 /\ out' = Silent
                 /\ UNCHANGED cache
        BY DEF Begin
    <1>2. CASE /\ Live(a)
               /\ cache' = Touch(cache, a)
               /\ out' = [v |-> cache[a].v, age |-> now - cache[a].at, cached |-> TRUE]
               /\ UNCHANGED <<pc, req>>
        <2>1. a \in Key /\ a # "mx" /\ a # "catchall" /\ EntryOK(a, cache[a], now)
            BY <1>0, Keys, KeyKinds DEF CacheOK
        <2>2. /\ cache[a].v \in Verdict /\ cache[a].at \in Nat /\ cache[a].at <= now
              /\ Backend = "sqlite" => now - cache[a].at <= MaxAge(cache[a].v)
            BY <1>0, <1>2, <2>1, EntryIsFresh
        <2>3. AnswerOK'
            <3>1. out'.v = cache[a].v /\ out'.age = now - cache[a].at /\ now' = now
                BY <1>0, <1>2
            <3>2. out'.age \in 0 .. now'
                BY <1>0, <2>2, <3>1
            <3>3. QED
                BY <2>2, <3>1, <3>2 DEF AnswerOK, AnswersAreFresh
        <2>4. CacheOK(cache', now)
            BY <1>0, <1>2, <2>1, TouchOK DEF Live
        <2>5. RequestsOK' /\ out'.cached = TRUE
            BY <1>0, <1>2 DEF RequestsOK
        <2>6. QED
            BY <1>0, <2>3, <2>4, <2>5, Quiet
    <1>3. CASE /\ pc' = [pc EXCEPT ![s] = "lists"]
               /\ req' = [req EXCEPT ![s] = [address |-> a, opts |-> o]]
               /\ out' = Silent
               /\ UNCHANGED cache
        <2>1. RequestsOK'
            BY <1>0, <1>3 DEF RequestsOK, Await
        <2>2. AnswerOK' /\ out'.v # "persistent"
            BY <1>0, <1>3 DEF AnswerOK, AnswersAreFresh, Silent
        <2>3. QED
            BY <1>0, <1>3, <2>1, <2>2, Quiet
    <1>4. QED
        BY <1>1, <1>2, <1>3

LEMMA LookupMxOK ==
    ASSUME TInv, NEW s \in Slot, pc[s] # "idle", LookupMx(s),
           UNCHANGED <<now, events, History>>
    PROVE  Kept
    <1>0. now \in Nat /\ CacheOK(cache, now) /\ "mx" \in Key
        BY Keys DEF TInv
    <1>1. CASE Goto(s, "mx") /\ (cache' = Drop(cache, {"mx"}) \/ UNCHANGED cache)
        <2>1. RequestsOK' /\ AnswerOK' /\ out'.v = "none"
            BY <1>1, GotoOK DEF Await
        <2>2. CacheOK(cache', now)
            BY <1>0, <1>1, DropOK
        <2>3. QED
            BY <2>1, <2>2, Quiet
    <1>2. CASE Goto(s, "addr") /\ Live("mx") /\ cache' = Touch(cache, "mx")
        <2>1. RequestsOK' /\ AnswerOK' /\ out'.v = "none"
            BY <1>2, GotoOK DEF Await
        <2>2. CacheOK(cache', now)
            BY <1>0, <1>2, TouchOK DEF Live
        <2>3. QED
            BY <2>1, <2>2, Quiet
    <1>3. CASE /\ Live("mx") /\ cache["mx"].v = "no_domain"
               /\ cache' = [Touch(cache, "mx") EXCEPT !["dead"] =
                               [v |-> "no_domain", at |-> cache["mx"].at,
                                until |-> now + Lifetime("dead", "no_domain")]]
               /\ Finish(s, "no_domain", cache["mx"].at, TRUE)
        <2>1. EntryOK("mx", cache["mx"], now)
            BY <1>0 DEF CacheOK
        <2>2. /\ cache["mx"].v \in Verdict /\ cache["mx"].at \in Nat /\ cache["mx"].at <= now
              /\ Backend = "sqlite" => now - cache["mx"].at <= MaxAge(cache["mx"].v)
            BY <1>0, <1>3, <2>1, EntryIsFresh
        <2>3. "no_domain" \in Verdict
            BY DEF Verdict
        <2>4. RequestsOK' /\ AnswerOK' /\ out'.v = "no_domain"
            BY <1>3, <2>2, <2>3, FinishOK
        <2>5. CacheOK(Touch(cache, "mx"), now)
            BY <1>0, <1>3, TouchOK DEF Live
        <2>6. CacheOK(cache', now)
            BY <1>0, <1>3, <2>5, DeadAgainOK
        <2>7. QED
            BY <2>4, <2>6, Quiet
    <1>4. QED
        BY <1>1, <1>2, <1>3 DEF LookupMx

LEMMA LayersOK ==
    ASSUME TInv, NEW s \in Slot, Layers(s)
    PROVE  Kept
    <1>0. pc[s] # "idle" /\ UNCHANGED <<now, events, History>>
        BY DEF Layers
    <1>1. CASE Live("mx_persistent") /\ ServeLayer(s, "mx_persistent", "persistent")
        <2>1. cache["mx_persistent"].v = "persistent"
            BY <1>1, Keys DEF TInv, CacheOK, EntryOK, Says, Live, NoEntry
        <2>2. QED
            BY <1>0, <1>1, <2>1, ServeLayerOK, Quiet
    <1>2. CASE Live("dead") /\ ServeLayer(s, "dead", cache["dead"].v)
        BY <1>0, <1>2, ServeLayerOK, Quiet
    <1>3. CASE LookupMx(s)
        BY <1>0, <1>3, LookupMxOK
    <1>4. QED
        BY <1>1, <1>2, <1>3 DEF Layers

LEMMA MxAnsweredOK ==
    ASSUME TInv, NEW s \in Slot, MxAnswered(s)
    PROVE  Kept
    <1>0. /\ pc[s] # "idle" /\ UNCHANGED <<now, events, History>>
          /\ now \in Nat /\ CacheOK(cache, now)
        BY DEF MxAnswered, TInv
    <1>1. /\ "mx" \in Key /\ "dead" \in Key /\ Says("mx", "routes")
          /\ Says("mx", "no_domain") /\ Says("dead", "no_domain")
        BY Keys, KeyKinds DEF Says
    <1>2. CASE Goto(s, "addr") /\ cache' = Put(cache, "mx", "routes")
        <2>1. RequestsOK' /\ AnswerOK' /\ out'.v = "none"
            BY <1>0, <1>2, GotoOK DEF Await
        <2>2. CacheOK(cache', now)
            BY <1>0, <1>1, <1>2, PutOK
        <2>3. QED
            BY <1>0, <2>1, <2>2, Quiet
    <1>3. CASE /\ LET known == Put(cache, "mx", "no_domain")
                  IN  cache' = IF Forced(s) THEN known ELSE Put(known, "dead", "no_domain")
               /\ Finish(s, "no_domain", now, FALSE)
        <2> DEFINE known == Put(cache, "mx", "no_domain")
        <2>1. CacheOK(known, now)
            BY <1>0, <1>1, PutOK
        <2>2. cache' = known \/ cache' = Put(known, "dead", "no_domain")
            BY <1>3
        <2> HIDE DEF known
        <2>3. CacheOK(cache', now)
            BY <1>0, <1>1, <2>1, <2>2, PutOK
        <2>4. RequestsOK' /\ AnswerOK' /\ out'.v = "no_domain"
            BY <1>0, <1>3, FoundNow DEF Verdict
        <2>5. QED
            BY <1>0, <2>3, <2>4, Quiet
    <1>4. CASE (\E v \in {"soft", "rejected"} : Finish(s, v, now, FALSE)) /\ UNCHANGED cache
        <2>1. PICK v \in {"soft", "rejected"} : Finish(s, v, now, FALSE)
            BY <1>4
        <2>2. RequestsOK' /\ AnswerOK' /\ out'.v = v
            BY <1>0, <2>1, FoundNow DEF Verdict
        <2>3. QED
            BY <1>0, <1>4, <2>2, Quiet
    <1>5. QED
        BY <1>2, <1>3, <1>4 DEF MxAnswered

LEMMA RoutableOK ==
    ASSUME TInv, NEW s \in Slot, pc[s] # "idle", Routable(s),
           UNCHANGED <<now, events, History>>
    PROVE  Kept
    <1>0. /\ now \in Nat /\ CacheOK(cache, now) /\ req[s].address \in Address
          /\ "catchall" \in Key
        BY Keys DEF TInv, RequestsOK
    <1>1. CASE cache' = Remember(cache, s, "soft") /\ Finish(s, "soft", now, FALSE)
        <2>1. "soft" \in Verdict /\ "soft" \in Verdict \ {"no_domain"}
            BY DEF Verdict
        <2>2. RequestsOK' /\ AnswerOK' /\ out'.v = "soft"
            BY <1>1, <2>1, FoundNow
        <2>3. CacheOK(cache', now)
            BY <1>0, <1>1, <2>1, RememberOK
        <2>4. QED
            BY <2>2, <2>3, Quiet
    <1>2. CASE /\ Goto(s, "main") \/ Goto(s, "catchall")
               /\ UNCHANGED cache \/ (Live("catchall") /\ cache' = Touch(cache, "catchall"))
        <2>1. RequestsOK' /\ AnswerOK' /\ out'.v = "none"
            BY <1>2, GotoOK DEF Await
        <2>2. CacheOK(cache', now)
            BY <1>0, <1>2, TouchOK DEF Live
        <2>3. QED
            BY <2>1, <2>2, Quiet
    <1>3. QED
        BY <1>1, <1>2 DEF Routable

LEMMA AddrAnsweredOK ==
    ASSUME TInv, NEW s \in Slot, AddrAnswered(s)
    PROVE  Kept
    <1>0. pc[s] # "idle" /\ UNCHANGED now /\ CacheOK(cache, now)
        BY DEF AddrAnswered, TInv
    <1>1. CASE Finish(s, "rejected", now, FALSE) /\ UNCHANGED <<cache, events, History>>
        <2>1. RequestsOK' /\ AnswerOK' /\ out'.v = "rejected"
            BY <1>0, <1>1, FoundNow DEF Verdict
        <2>2. QED
            BY <1>0, <1>1, <2>1, Quiet
    <1>2. CASE PathFailure(s, FALSE)
        BY <1>0, <1>2, PathFailureOK
    <1>3. CASE Routable(s) /\ UNCHANGED <<events, History>>
        BY <1>0, <1>3, RoutableOK
    <1>4. QED
        BY <1>1, <1>2, <1>3 DEF AddrAnswered

LEMMA CatchAllAnsweredOK ==
    ASSUME TInv, NEW s \in Slot, CatchAllAnswered(s)
    PROVE  Kept
    <1>0. /\ pc[s] # "idle" /\ UNCHANGED <<now, events, History>>
          /\ now \in Nat /\ CacheOK(cache, now) /\ req[s].address \in Address
        BY DEF CatchAllAnswered, TInv, RequestsOK
    <1>1. CASE cache' = Remember(cache, s, "catch_all") /\ Finish(s, "catch_all", now, FALSE)
        <2>1. "catch_all" \in Verdict /\ "catch_all" \in Verdict \ {"no_domain"}
            BY DEF Verdict
        <2>2. RequestsOK' /\ AnswerOK' /\ out'.v = "catch_all"
            BY <1>0, <1>1, <2>1, FoundNow
        <2>3. CacheOK(cache', now)
            BY <1>0, <1>1, <2>1, RememberOK
        <2>4. QED
            BY <1>0, <2>2, <2>3, Quiet
    <1>2. CASE /\ cache' = IF Forced(s) THEN cache ELSE Put(cache, "catchall", "not_catch_all")
               /\ Goto(s, "main")
        <2>1. RequestsOK' /\ AnswerOK' /\ out'.v = "none"
            BY <1>0, <1>2, GotoOK DEF Await
        <2>2. "catchall" \in Key /\ Says("catchall", "not_catch_all")
            BY Keys, KeyKinds DEF Says
        <2>3. CacheOK(cache', now)
            BY <1>0, <1>2, <2>2, PutOK
        <2>4. QED
            BY <1>0, <2>1, <2>3, Quiet
    <1>3. QED
        BY <1>1, <1>2 DEF CatchAllAnswered

LEMMA MainAnsweredOK ==
    ASSUME TInv, NEW s \in Slot, MainAnswered(s)
    PROVE  Kept
    <1>0. /\ pc[s] # "idle" /\ UNCHANGED now
          /\ now \in Nat /\ CacheOK(cache, now) /\ req[s].address \in Address
        BY DEF MainAnswered, TInv, RequestsOK
    <1>1. CASE Accepted(s)
        <2> DEFINE cleared == Drop(cache, {"mx_persistent"})
        <2>1. CacheOK(cleared, now)
            BY <1>0, DropOK
        <2>2. /\ events' = <<>> /\ fails' = <<>> /\ refuted' = TRUE
              /\ cache' = Remember(cleared, s, "valid") /\ Finish(s, "valid", now, FALSE)
            BY <1>1 DEF Accepted
        <2> HIDE DEF cleared
        <2>3. "valid" \in Verdict /\ "valid" \in Verdict \ {"no_domain"}
            BY DEF Verdict
        <2>4. CacheOK(cache', now)
            BY <1>0, <2>1, <2>2, <2>3, RememberOK
        <2>5. RequestsOK' /\ AnswerOK' /\ out'.v = "valid"
            BY <1>0, <2>2, <2>3, FoundNow
        <2>6. FailuresOK'
            BY <2>2 DEF FailuresOK
        <2>7. QED
            BY <1>0, <2>2, <2>4, <2>5, <2>6 DEF TInv, Kept, HasCause
    <1>2. CASE /\ \E v \in {"rejected", "soft"} :
                     cache' = Remember(cache, s, v) /\ Finish(s, v, now, FALSE)
               /\ UNCHANGED <<events, History>>
        <2>1. PICK v \in {"rejected", "soft"} :
                     cache' = Remember(cache, s, v) /\ Finish(s, v, now, FALSE)
            BY <1>2
        <2>2. v \in Verdict /\ v \in Verdict \ {"no_domain"} /\ v # "persistent"
            BY DEF Verdict
        <2>3. RequestsOK' /\ AnswerOK' /\ out'.v = v
            BY <1>0, <2>1, <2>2, FoundNow
        <2>4. CacheOK(cache', now)
            BY <1>0, <2>1, <2>2, RememberOK
        <2>5. QED
            BY <1>0, <1>2, <2>2, <2>3, <2>4, Quiet
    <1>3. CASE PathFailure(s, TRUE)
        BY <1>0, <1>3, PathFailureOK
    <1>4. QED
        BY <1>1, <1>2, <1>3 DEF MainAnswered

LEMMA AroundOK ==
    ASSUME TInv, ClearCaches \/ Restart \/ Tick
    PROVE  Kept
    <1>0. /\ now \in Nat \ {0} /\ CacheOK(cache, now) /\ RequestsOK /\ FailuresOK
          /\ refuted \in BOOLEAN
        BY DEF TInv
    <1>1. out' = Silent /\ refuted' = refuted /\ now' \in {now, now + 1}
        BY DEF ClearCaches, Restart, Tick, History
    <1>2. now' \in Nat \ {0} /\ now <= now'
        BY <1>0, <1>1
    <1>3. AnswerOK' /\ HasCause
        BY <1>1, <1>2 DEF AnswerOK, AnswersAreFresh, Silent, HasCause
    <1>4. CacheOK(cache', now')
        <2>1. \/ \E K : cache' = Drop(cache, K)
              \/ cache' = cache
            BY DEF ClearCaches, Restart, Tick
        <2>2. CacheOK(cache', now)
            BY <1>0, <2>1, DropOK
        <2>3. QED
            BY <1>0, <1>2, <2>2, LaterOK
    <1>5. RequestsOK'
        <2>1. CASE UNCHANGED <<pc, req>>
            BY <1>0, <2>1 DEF RequestsOK
        <2>2. CASE /\ pc' = [s \in Slot |-> "idle"]
                   /\ req' = [s \in Slot |-> NoRequest]
            BY <2>2 DEF RequestsOK
        <2>3. QED
            BY <2>1, <2>2 DEF ClearCaches, Restart, Tick
    <1>6. FailuresOK'
        <2>1. CASE events' = <<>> /\ fails' = <<>>
            BY <2>1 DEF FailuresOK
        <2>2. CASE UNCHANGED <<events, fails>>
            <3>1. 1 .. now \subseteq 1 .. now'
                BY <1>0, <1>2
            <3>2. events \in Seq(1 .. now') /\ fails \in Seq(1 .. now')
                BY <1>0, <3>1, SeqMonotonic DEF FailuresOK
            <3>3. QED
                BY <1>0, <2>2, <3>2 DEF FailuresOK
        <2>3. QED
            BY <2>1, <2>2 DEF ClearCaches, Restart, Tick, History
    <1>7. QED
        BY <1>0, <1>1, <1>2, <1>3, <1>4, <1>5, <1>6 DEF TInv, Kept

-----------------------------------------------------------------------------
(* Types, freshness and cause *)

LEMMA TInvInit ==
    ASSUME Init
    PROVE  TInv
    <1>1. now = 1 /\ out = Silent /\ events = <<>> /\ fails = <<>> /\ refuted = FALSE
        BY DEF Init
    <1>2. CacheOK(cache, now)
        BY DEF Init, CacheOK, EntryOK
    <1>3. RequestsOK
        BY DEF Init, RequestsOK
    <1>4. AnswerOK
        BY <1>1 DEF AnswerOK, AnswersAreFresh, Silent
    <1>5. FailuresOK
        BY <1>1 DEF FailuresOK
    <1>6. now \in Nat \ {0}
        BY <1>1
    <1>7. refuted \in BOOLEAN
        BY <1>1, Zenon
    <1>8. QED
        BY <1>2, <1>3, <1>4, <1>5, <1>6, <1>7 DEF TInv

LEMMA NextKeeps ==
    ASSUME TInv, Next
    PROVE  Kept
    BY BeginOK, LayersOK, MxAnsweredOK, AddrAnsweredOK, CatchAllAnsweredOK,
       MainAnsweredOK, AroundOK DEF Next

LEMMA TInvKept ==
    ASSUME TInv, [Next]_vars
    PROVE  TInv'
    <1>1. CASE UNCHANGED vars
        BY <1>1 DEF vars, TInv, RequestsOK, AnswerOK, AnswersAreFresh, FailuresOK
    <1>2. CASE Next
        BY <1>2, NextKeeps DEF Kept
    <1>3. QED
        BY <1>1, <1>2

LEMMA TInvHolds == Spec => []TInv
    BY TInvInit, TInvKept, PTL DEF Spec

\* TypeOK, for both backends: requests, caches, count and answers are well
\* formed and no entry outlasts the lifetime of its layer.
THEOREM TypesHold == Spec => []TypeOK
    <1>1. TInv => TypeOK
        <2> SUFFICES ASSUME TInv PROVE TypeOK
            OBVIOUS
        <2>1. now \in Nat /\ CacheOK(cache, now)
            BY DEF TInv
        <2>2. ASSUME NEW k \in Key
              PROVE  /\ cache[k] \in Entry
                     /\ cache[k].at <= now
                     /\ \E t \in IF k \in Address THEN ResultTtl ELSE {k, "dead"} :
                           cache[k].until <= now + Ttl[t]
            <3>1. EntryOK(k, cache[k], now)
                BY <2>1 DEF CacheOK
            <3>2. CASE cache[k] = NoEntry
                <4>1. \E t \in IF k \in Address THEN ResultTtl ELSE {k, "dead"} : Ttl[t] \in Nat
                    <5>1. CASE k \in Address
                        BY <5>1, Lifetimes, KeyKinds DEF Says, Verdict
                    <5>2. CASE k \notin Address
                        BY <5>2, VerdictsAssumption DEF Layer
                    <5>3. QED
                        BY <5>1, <5>2
                <4>2. cache[k].at = 0 /\ cache[k].until = 0 /\ cache[k] \in Entry
                    BY <3>2 DEF NoEntry, Entry
                <4>3. QED
                    BY <2>1, <4>1, <4>2
            <3>3. CASE cache[k] # NoEntry
                <4>1. /\ cache[k] \in [v : Value, at : Nat, until : Nat]
                      /\ Says(k, cache[k].v) /\ cache[k].at <= now
                      /\ cache[k].until <= now + Lifetime(k, cache[k].v)
                    BY <3>1, <3>3 DEF EntryOK
                <4>2. \E t \in IF k \in Address THEN ResultTtl ELSE {k, "dead"} :
                          Lifetime(k, cache[k].v) = Ttl[t]
                    BY <4>1, Lifetimes
                <4>3. QED
                    BY <4>1, <4>2 DEF Entry
            <3>4. QED
                BY <3>2, <3>3
        <2>3. cache \in [Key -> Entry]
            BY <2>1, <2>2 DEF CacheOK
        <2>4. QED
            BY <2>2, <2>3 DEF TInv, RequestsOK, AnswerOK, FailuresOK, TypeOK
    <1>2. QED
        BY <1>1, TInvHolds, PTL

\* AnswersAreFresh with SQLite, for every choice of lifetimes: a verdict that
\* one layer repeats is never kept anew by another, except that the dead layer
\* takes over from the layer of lookupMx, once.
THEOREM AnswersStayFresh ==
    ASSUME Backend = "sqlite"
    PROVE  Spec => []AnswersAreFresh
    <1>1. TInv => AnswersAreFresh
        BY DEF TInv, AnswerOK
    <1>2. QED
        BY <1>1, TInvHolds, PTL

\* CondemnedForCause: what is counted when a domain is condemned is Threshold
\* failures of the last Window, none of them from before an accepted RCPT.
THEOREM CondemnationHasCause == Spec => CondemnedForCause
    <1>1. TInv /\ [Next]_vars =>
            [out'.v = "persistent" /\ ~out'.cached =>
                 Within(fails', now - Window) >= Threshold]_vars
        BY NextKeeps DEF Kept, HasCause
    <1>2. QED
        BY <1>1, TInvHolds, PTL DEF Spec, CondemnedForCause

=============================================================================
