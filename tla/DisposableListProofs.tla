-------------------------- MODULE DisposableListProofs --------------------------
(* Theorems about DisposableList, for lists and reloads of every number.        *)
EXTENDS DisposableList, TLAPS

-----------------------------------------------------------------------------
(* Types *)

MergeTyped ==
    /\ merge \in [Process -> [step : Steps, list : SUBSET Domain]]
    /\ queued \in 0 .. MaxQueued
    /\ queued > 0 => merge["server"] # Idle

FileTyped ==
    /\ upstream \in Lists /\ ticked \in BOOLEAN /\ clobbered \in BOOLEAN
    /\ file \in [list : SUBSET Domain, today : BOOLEAN, whole : BOOLEAN]

LoadTyped ==
    /\ fileLoaded \subseteq Domain
    /\ load \in [Load -> {"none", "data", "extra"}]
    /\ spoiled \in [Load -> BOOLEAN]
    /\ current \in Load /\ awaiting \in Load \cup {NoLoad}
    /\ awaiting # NoLoad => Busy(awaiting)
    /\ tainted \in BOOLEAN

LEMMA TypeParts == TypeOK <=> MergeTyped /\ FileTyped /\ LoadTyped
    BY DEF TypeOK, MergeTyped, FileTyped, LoadTyped

LEMMA ListsTyped == Extra \in SUBSET Domain /\ \A l \in Lists : l \in SUBSET Domain
    <1>1. Extra \subseteq Domain
        BY Zenon DEF Domain
    <1>2. \A l \in Lists : l \subseteq Domain
        BY Zenon DEF Domain
    <1>3. QED
        BY <1>1, <1>2

LEMMA TornTyped == Torn \in [list : SUBSET Domain, today : BOOLEAN, whole : BOOLEAN]
    BY DEF Torn

LEMMA MergesTyped ==
    /\ Idle \in [step : Steps, list : SUBSET Domain]
    /\ Fetching \in [step : Steps, list : SUBSET Domain]
    /\ Fetching # Idle
    BY DEF Idle, Fetching, Steps

\* A merge is put in its next step.
LEMMA MergeStepTyped ==
    ASSUME MergeTyped, NEW p \in Process, NEW m \in [step : Steps, list : SUBSET Domain],
           m # Idle, merge' = [merge EXCEPT ![p] = m], UNCHANGED queued
    PROVE  MergeTyped'
    <1>1. merge' \in [Process -> [step : Steps, list : SUBSET Domain]]
        BY DEF MergeTyped
    <1>2. merge'["server"] = m \/ merge'["server"] = merge["server"]
        BY DEF MergeTyped, Process
    <1>3. QED
        BY <1>1, <1>2 DEF MergeTyped

LEMMA MergeOverTyped ==
    ASSUME MergeTyped, NEW p \in Process, MergeOver(p)
    PROVE  MergeTyped'
    <1>1. CASE /\ p = "server" /\ queued > 0
               /\ merge' = [merge EXCEPT ![p] = Fetching]
               /\ queued' = queued - 1
        <2>1. queued' \in 0 .. MaxQueued
            BY <1>1, ListAssumption DEF MergeTyped
        <2>2. merge' \in [Process -> [step : Steps, list : SUBSET Domain]]
            BY <1>1, MergesTyped DEF MergeTyped
        <2>3. merge'["server"] # Idle
            BY <1>1, MergesTyped DEF MergeTyped, Process
        <2>4. QED
            BY <2>1, <2>2, <2>3 DEF MergeTyped
    <1>2. CASE /\ p = "cli" \/ queued = 0
               /\ merge' = [merge EXCEPT ![p] = Idle]
               /\ queued' = queued
        <2>1. merge' \in [Process -> [step : Steps, list : SUBSET Domain]]
            BY <1>2, MergesTyped DEF MergeTyped
        <2>2. p = "cli" => merge'["server"] = merge["server"]
            BY <1>2 DEF MergeTyped, Process
        <2>3. QED
            BY <1>2, <2>1, <2>2 DEF MergeTyped
    <1>3. QED
        BY <1>1, <1>2 DEF MergeOver

\* A load is started: the set is cleared.
LEMMA StartLoadTyped ==
    ASSUME LoadTyped, NEW i \in Load, StartLoad(i), UNCHANGED awaiting, file'.whole \in BOOLEAN
    PROVE  LoadTyped'
    <1>1. (~file'.whole) \in BOOLEAN /\ (\E j \in Load : Busy(j)) \in BOOLEAN
        BY Zenon
    <1>2. /\ load' \in [Load -> {"none", "data", "extra"}]
          /\ spoiled' \in [Load -> BOOLEAN]
        BY <1>1 DEF StartLoad, LoadTyped
    <1>3. tainted' \in BOOLEAN
        BY <1>1 DEF StartLoad
    <1>4. \A j \in Load : load'[j] = load[j] \/ load'[j] = "data"
        BY DEF StartLoad, LoadTyped
    <1>5. awaiting' # NoLoad => Busy(awaiting)'
        BY <1>4 DEF LoadTyped, Busy
    <1>6. QED
        BY <1>2, <1>3, <1>5 DEF StartLoad, LoadTyped

\* The steps of a merge.
LEMMA WorkTyped ==
    ASSUME TypeOK, NEW p \in Process, Work(p)
    PROVE  TypeOK'
    <1>0. MergeTyped /\ FileTyped /\ LoadTyped
        BY TypeParts
    <1>1. merge[p] \in [step : Steps, list : SUBSET Domain]
        BY <1>0 DEF MergeTyped
    <1>2. CASE UNCHANGED <<upstream, ticked, file, clobbered, fileLoaded, load, spoiled, current,
                           awaiting, tainted>> /\ MergeTyped'
        <2>1. FileTyped'
            BY <1>0, <1>2 DEF FileTyped
        <2>2. LoadTyped'
            BY <1>0, <1>2 DEF LoadTyped, Busy
        <2>3. QED
            BY <1>2, <2>1, <2>2 DEF TypeOK, MergeTyped, FileTyped, LoadTyped
    <1>3. CASE FetchFails(p)
        <2>1. MergeTyped'
            BY <1>0, <1>3, MergeOverTyped DEF FetchFails, MergeFailed
        <2>2. QED
            BY <1>2, <1>3, <2>1 DEF FetchFails
    <1>4. CASE Fetched(p)
        <2> DEFINE m == [step |-> "comparing", list |-> upstream]
        <2>1. m \in [step : Steps, list : SUBSET Domain] /\ m # Idle
            BY <1>0, ListsTyped DEF FileTyped, Steps, Idle
        <2>2. MergeTyped'
            BY <1>0, <1>4, <2>1, MergeStepTyped DEF Fetched
        <2>3. QED
            BY <1>2, <1>4, <2>2 DEF Fetched
    <1>5. CASE Compared(p)
        <2>1. CASE MergeOver(p)
            <3>1. MergeTyped'
                BY <1>0, <2>1, MergeOverTyped
            <3>2. QED
                BY <1>2, <1>5, <3>1 DEF Compared
        <2>2. CASE merge' = [merge EXCEPT ![p].step = "opening"] /\ UNCHANGED queued
            <3> DEFINE m == [merge[p] EXCEPT !.step = "opening"]
            <3>1. m \in [step : Steps, list : SUBSET Domain] /\ m # Idle /\ merge' = [merge EXCEPT ![p] = m]
                BY <1>1, <2>2 DEF Steps, Idle
            <3>2. MergeTyped'
                BY <1>0, <2>2, <3>1, MergeStepTyped
            <3>3. QED
                BY <1>2, <1>5, <3>2 DEF Compared
        <2>3. QED
            BY <1>5, <2>1, <2>2 DEF Compared
    <1>6. CASE Opened(p)
        <2> DEFINE m == [merge[p] EXCEPT !.step = "writing"]
        <2>1. m \in [step : Steps, list : SUBSET Domain] /\ m # Idle /\ merge' = [merge EXCEPT ![p] = m]
            BY <1>1, <1>6 DEF Steps, Idle, Opened
        <2>2. MergeTyped'
            BY <1>0, <1>6, <2>1, MergeStepTyped DEF Opened
        <2>3. Writing(Other(p)) \in BOOLEAN
            BY Zenon DEF Writing
        <2>4. FileTyped'
            BY <1>0, <1>6, <2>3, TornTyped DEF FileTyped, Opened
        <2>5. \A i \in Load : (spoiled[i] \/ load[i] = "data") \in BOOLEAN
            BY Zenon
        <2>6. LoadTyped'
            BY <1>0, <1>6, <2>5 DEF LoadTyped, Busy, Opened
        <2>7. QED
            BY <2>2, <2>4, <2>6 DEF TypeOK, MergeTyped, FileTyped, LoadTyped
    <1>7. CASE Written(p)
        <2>1. MergeTyped'
            BY <1>0, <1>7, MergeOverTyped DEF Written
        <2>2. file' \in [list : SUBSET Domain, today : BOOLEAN, whole : BOOLEAN]
            <3> DEFINE body == [list |-> merge[p].list, today |-> TRUE, whole |-> TRUE]
            <3>1. body \in [list : SUBSET Domain, today : BOOLEAN, whole : BOOLEAN]
                BY <1>1
            <3>2. FileAfter(p) \subseteq {Torn, body}
                BY DEF FileAfter
            <3>3. QED
                BY <1>7, <3>1, <3>2, TornTyped DEF Written
        <2>3. (clobbered /\ Writing(Other(p))) \in BOOLEAN
            BY Zenon
        <2>4. FileTyped'
            BY <1>0, <1>7, <2>2, <2>3 DEF FileTyped, Written
        <2>5. ASSUME \E i \in Load : StartLoad(i)
              PROVE  LoadTyped'
            BY <1>0, <1>7, <2>2, <2>5, StartLoadTyped DEF Written
        <2>6. ASSUME UNCHANGED <<fileLoaded, load, spoiled, current, tainted>>
              PROVE  LoadTyped'
            BY <1>0, <1>7, <2>6 DEF Written, LoadTyped, Busy
        <2>7. LoadTyped'
            BY <1>7, <2>5, <2>6 DEF Written
        <2>8. QED
            BY <2>1, <2>4, <2>7 DEF TypeOK, MergeTyped, FileTyped, LoadTyped
    <1>8. QED
        BY <1>3, <1>4, <1>5, <1>6, <1>7 DEF Work

\* The steps of a load, and of the verification that waits for it.
LEMMA ServerTyped ==
    ASSUME TypeOK, Verify \/ \E i \in Load : LoadStep(i)
    PROVE  TypeOK'
    <1>0. MergeTyped /\ FileTyped /\ LoadTyped
        BY TypeParts
    <1>1. UNCHANGED <<upstream, ticked, file, clobbered, merge, queued>>
        BY DEF Verify, LoadStep, ReadData, ReadExtra, mergeVars
    <1>2. MergeTyped' /\ FileTyped'
        BY <1>0, <1>1 DEF MergeTyped, FileTyped
    <1>3. ASSUME Verify
          PROVE  LoadTyped'
        <2>1. UNCHANGED <<fileLoaded, load, spoiled, current, tainted>>
            BY <1>3 DEF Verify
        <2>2. awaiting' = NoLoad \/ (awaiting' = current /\ Busy(current))
            BY <1>3 DEF Verify
        <2>3. QED
            BY <1>0, <2>1, <2>2 DEF LoadTyped, Busy
    <1>4. ASSUME NEW i \in Load, ReadData(i)
          PROVE  LoadTyped'
        <2>1. PICK read \in IF spoiled[i] THEN SUBSET Domain ELSE {file.list} : fileLoaded' = fileLoaded \cup read
            BY <1>4 DEF ReadData
        <2>2. read \subseteq Domain
            BY <1>0, <2>1 DEF FileTyped
        <2>3. (tainted \/ spoiled[i]) \in BOOLEAN
            BY Zenon
        <2>4. load' = [load EXCEPT ![i] = "extra"] /\ UNCHANGED <<spoiled, current, awaiting>>
              /\ tainted' \in BOOLEAN
            BY <1>4, <2>3 DEF ReadData
        <2>5. QED
            BY <1>0, <2>1, <2>2, <2>4 DEF LoadTyped, Busy
    <1>5. ASSUME NEW i \in Load, ReadExtra(i)
          PROVE  LoadTyped'
        <2>1. /\ load' = [load EXCEPT ![i] = "none"] /\ UNCHANGED <<spoiled, current, tainted>>
              /\ fileLoaded' = fileLoaded \cup Extra
            BY <1>5 DEF ReadExtra
        <2>2. awaiting' = NoLoad \/ (awaiting' = awaiting /\ awaiting # i)
            BY <1>5 DEF ReadExtra
        <2>3. fileLoaded' \subseteq Domain
            BY <1>0, <2>1, ListsTyped DEF LoadTyped
        <2>4. QED
            BY <1>0, <2>1, <2>2, <2>3 DEF LoadTyped, Busy
    <1>6. LoadTyped'
        BY <1>3, <1>4, <1>5 DEF LoadStep
    <1>7. QED
        BY <1>2, <1>6 DEF TypeOK, MergeTyped, FileTyped, LoadTyped

\* What starts merges, and what ends processes.
LEMMA OutsideTyped ==
    ASSUME TypeOK, Tick \/ CliStarts \/ CliDies \/ Publish \/ NewDay
    PROVE  TypeOK'
    <1>0. MergeTyped /\ FileTyped /\ LoadTyped
        BY TypeParts
    <1>1. UNCHANGED <<fileLoaded, load, spoiled, current, awaiting, tainted>>
        BY DEF Tick, CliStarts, CliDies, Publish, NewDay
    <1>2. LoadTyped'
        BY <1>0, <1>1 DEF LoadTyped, Busy
    <1>3. (clobbered \/ (Writing("cli") /\ Writing("server"))) \in BOOLEAN
        BY Zenon
    <1>4. ticked' \in BOOLEAN /\ clobbered' \in BOOLEAN /\ upstream' \in Lists
        BY <1>0, <1>3 DEF FileTyped, Tick, CliStarts, CliDies, Publish, NewDay, mergeVars
    <1>5. file' \in [list : SUBSET Domain, today : BOOLEAN, whole : BOOLEAN]
        BY <1>0 DEF FileTyped, Tick, CliStarts, CliDies, Publish, NewDay, mergeVars
    <1>6. ASSUME UNCHANGED <<merge, queued>>
          PROVE  MergeTyped'
        BY <1>0, <1>6 DEF MergeTyped
    <1>7. ASSUME CliStarts
          PROVE  MergeTyped'
        BY <1>0, <1>7, MergesTyped, MergeStepTyped DEF CliStarts, Process
    <1>8. ASSUME CliDies
          PROVE  MergeTyped'
        <2>1. merge' = [merge EXCEPT !["cli"] = Idle] /\ UNCHANGED queued
            BY <1>8 DEF CliDies
        <2>2. merge'["server"] = merge["server"]
            BY <1>0, <2>1 DEF MergeTyped, Process
        <2>3. QED
            BY <1>0, <2>1, <2>2, MergesTyped DEF MergeTyped
    <1>9. ASSUME Tick
          PROVE  MergeTyped'
        <2>1. CASE merge' = [merge EXCEPT !["server"] = Fetching] /\ UNCHANGED queued
            BY <1>0, <2>1, MergesTyped, MergeStepTyped DEF Process
        <2>2. CASE merge["server"] # Idle /\ queued < MaxQueued /\ queued' = queued + 1 /\ UNCHANGED merge
            BY <1>0, <2>2, ListAssumption DEF MergeTyped
        <2>3. QED
            BY <1>9, <2>1, <2>2 DEF Tick
    <1>10. MergeTyped'
        BY <1>6, <1>7, <1>8, <1>9 DEF Publish, NewDay, mergeVars
    <1>11. FileTyped'
        BY <1>4, <1>5 DEF FileTyped
    <1>12. QED
        BY <1>2, <1>10, <1>11 DEF TypeOK, MergeTyped, FileTyped, LoadTyped

LEMMA RestartTyped ==
    ASSUME TypeOK, NEW i \in Load, Restart(i)
    PROVE  TypeOK'
    <1>0. MergeTyped /\ FileTyped
        BY TypeParts
    <1>1. (clobbered \/ (Writing("cli") /\ Writing("server"))) \in BOOLEAN
        BY Zenon
    <1>2. FileTyped'
        BY <1>0, <1>1 DEF FileTyped, Restart
    <1>3. merge' = [merge EXCEPT !["server"] = Idle] /\ queued' = 0
        BY DEF Restart
    <1>4. MergeTyped'
        <2>1. merge' \in [Process -> [step : Steps, list : SUBSET Domain]]
            BY <1>0, <1>3, MergesTyped DEF MergeTyped
        <2>2. 0 \in 0 .. MaxQueued
            BY ListAssumption
        <2>3. QED
            BY <1>3, <2>1, <2>2 DEF MergeTyped
    <1>5. \A j \in Load : (j = i /\ ~file.whole) \in BOOLEAN
        BY Zenon
    <1>6. spoiled' \in [Load -> BOOLEAN]
        BY <1>5 DEF Restart
    <1>7. LoadTyped'
        BY <1>6 DEF LoadTyped, Restart
    <1>8. QED
        BY <1>2, <1>4, <1>7 DEF TypeOK, MergeTyped, FileTyped, LoadTyped

LEMMA InitTyped ==
    ASSUME Init
    PROVE  TypeOK
    <1>1. MergeTyped
        BY MergesTyped, ListAssumption DEF Init, MergeTyped
    <1>2. PICK l \in Lists : file = [list |-> l, today |-> FALSE, whole |-> TRUE]
        BY DEF Init
    <1>3. FileTyped
        BY <1>2, ListsTyped DEF Init, FileTyped
    <1>4. LoadTyped
        BY DEF Init, LoadTyped
    <1>5. QED
        BY <1>1, <1>3, <1>4, TypeParts

LEMMA StepTyped ==
    ASSUME TypeOK, [Next]_vars
    PROVE  TypeOK'
    <1>1. CASE UNCHANGED vars
        BY <1>1 DEF TypeOK, vars, serverVars, mergeVars, Busy
    <1>2. QED
        BY <1>1, WorkTyped, ServerTyped, OutsideTyped, RestartTyped DEF Next

\* TypeOK: whatever the merges, the reloads, the restarts and the CLI do to each
\* other, the file, the set and the chain keep their types, and the merges that wait
\* in the chain wait for one that is under way.
THEOREM TypesHold == Spec => []TypeOK
    BY InitTyped, StepTyped, PTL DEF Spec

-----------------------------------------------------------------------------
(* The set that a verification reads *)

\* A file that is whole holds what upstream published at some time; a file that a
\* process writes is not whole; and a load that saw the file whole all along still
\* does.
FilesWhole ==
    /\ file.whole => file.list \in Lists
    /\ \A p \in Process : merge[p].step \in {"comparing", "opening", "writing"} => merge[p].list \in Lists
    /\ \A p \in Process : Writing(p) => ~file.whole
    /\ \A i \in Load : load[i] = "data" /\ ~spoiled[i] => file.whole

\* How far the call behind loadFilePromise has filled the set.
Filled ==
    /\ load[current] = "data" => fileLoaded = {}
    /\ load[current] = "extra" => fileLoaded \in Lists
    /\ load[current] = "none" => \E l \in Lists : fileLoaded = l \cup Extra

\* As long as nothing has spoiled the set, one call fills it.
SetWhole ==
    ~tainted =>
        /\ \A i \in Load : Busy(i) => i = current
        /\ Filled

WholeInv == TypeOK /\ FilesWhole /\ SetWhole

LEMMA OtherOne == \A p \in Process : Other(p) \in Process /\ \A r \in Process : r = p \/ r = Other(p)
    <1> SUFFICES ASSUME NEW p \in Process
                 PROVE  Other(p) \in Process /\ \A r \in Process : r = p \/ r = Other(p)
        OBVIOUS
    <1>1. \E r \in Process : r # p
        BY DEF Process
    <1>2. Other(p) \in Process /\ Other(p) # p
        BY <1>1 DEF Other
    <1>3. QED
        BY <1>2 DEF Process

\* Nothing but merges, other than by writing, and outside the loads.
LEMMA QuietStep ==
    ASSUME FilesWhole, UNCHANGED <<file, load, spoiled>>,
           \A p \in Process : \/ merge'[p].step \in {"none", "fetching"}
                              \/ merge'[p].step # "writing" /\ merge'[p].list \in Lists
                              \/ merge'[p] = merge[p]
    PROVE  FilesWhole'
    BY DEF FilesWhole, Writing

LEMMA MergeOverSteps ==
    ASSUME TypeOK, NEW p \in Process, MergeOver(p)
    PROVE  /\ merge'[p].step \in {"none", "fetching"}
           /\ \A r \in Process : r # p => merge'[r] = merge[r]
    <1>1. merge \in [Process -> [step : Steps, list : SUBSET Domain]]
        BY DEF TypeOK
    <1>2. merge' = [merge EXCEPT ![p] = Idle] \/ merge' = [merge EXCEPT ![p] = Fetching]
        BY DEF MergeOver
    <1>3. QED
        BY <1>1, <1>2 DEF Idle, Fetching

\* The server does not touch the set.
LEMMA SetKept ==
    ASSUME SetWhole, UNCHANGED <<fileLoaded, load, current, tainted>>
    PROVE  SetWhole'
    BY DEF SetWhole, Filled, Busy

\* A new load clears the set; another one under way taints it.
LEMMA StartLoadWhole ==
    ASSUME TypeOK, NEW i \in Load, StartLoad(i)
    PROVE  SetWhole'
    <1>1. load \in [Load -> {"none", "data", "extra"}]
        BY DEF TypeOK
    <1>2. load' = [load EXCEPT ![i] = "data"] /\ fileLoaded' = {} /\ current' = i
          /\ (tainted' <=> \E j \in Load : Busy(j))
        BY DEF StartLoad
    <1>3. load'[i] = "data" /\ \A j \in Load : j # i => load'[j] = load[j]
        BY <1>1, <1>2
    <1>4. ~tainted' => \A j \in Load : Busy(j)' => j = i
        BY <1>2, <1>3 DEF Busy
    <1>5. QED
        BY <1>2, <1>3, <1>4 DEF SetWhole, Filled

LEMMA WorkWhole ==
    ASSUME WholeInv, NEW p \in Process, Work(p)
    PROVE  FilesWhole' /\ SetWhole'
    <1>0. TypeOK /\ FilesWhole /\ SetWhole
        BY DEF WholeInv
    <1>1. merge \in [Process -> [step : Steps, list : SUBSET Domain]]
        BY <1>0 DEF TypeOK
    <1>2. CASE FetchFails(p)
        <2>1. MergeOver(p) /\ UNCHANGED <<file, fileLoaded, load, spoiled, current, tainted>>
            BY <1>2 DEF FetchFails, MergeFailed
        <2>2. FilesWhole'
            BY <1>0, <2>1, MergeOverSteps, QuietStep
        <2>3. QED
            BY <1>0, <2>1, <2>2, SetKept
    <1>3. CASE Fetched(p)
        <2>1. /\ merge' = [merge EXCEPT ![p] = [step |-> "comparing", list |-> upstream]]
              /\ UNCHANGED <<file, fileLoaded, load, spoiled, current, tainted>>
            BY <1>3 DEF Fetched
        <2>2. upstream \in Lists
            BY <1>0 DEF TypeOK
        <2>3. \A r \in Process : \/ merge'[r].step # "writing" /\ merge'[r].list \in Lists
                                 \/ merge'[r] = merge[r]
            BY <1>1, <2>1, <2>2
        <2>4. FilesWhole'
            BY <1>0, <2>1, <2>3, QuietStep
        <2>5. QED
            BY <1>0, <2>1, <2>4, SetKept
    <1>4. CASE Compared(p)
        <2>1. UNCHANGED <<file, fileLoaded, load, spoiled, current, tainted>> /\ merge[p].step = "comparing"
            BY <1>4 DEF Compared
        <2>2. CASE MergeOver(p)
            <3>1. FilesWhole'
                BY <1>0, <2>1, <2>2, MergeOverSteps, QuietStep
            <3>2. QED
                BY <1>0, <2>1, <3>1, SetKept
        <2>3. CASE merge' = [merge EXCEPT ![p].step = "opening"]
            <3>1. merge[p].list \in Lists
                BY <1>0, <2>1 DEF FilesWhole
            <3>2. \A r \in Process : \/ merge'[r].step # "writing" /\ merge'[r].list \in Lists
                                     \/ merge'[r] = merge[r]
                BY <1>1, <2>3, <3>1
            <3>3. FilesWhole'
                BY <1>0, <2>1, <3>2, QuietStep
            <3>4. QED
                BY <1>0, <2>1, <3>3, SetKept
        <2>4. QED
            BY <1>4, <2>2, <2>3 DEF Compared
    <1>5. CASE Opened(p)
        <2>1. /\ merge' = [merge EXCEPT ![p].step = "writing"] /\ merge[p].step = "opening"
              /\ file' = Torn
              /\ spoiled' = [i \in Load |-> spoiled[i] \/ load[i] = "data"]
              /\ UNCHANGED <<fileLoaded, load, current, tainted>>
            BY <1>5 DEF Opened
        <2>2. ~file'.whole
            BY <2>1 DEF Torn
        <2>3. merge[p].list \in Lists
            BY <1>0, <2>1 DEF FilesWhole
        <2>4. \A r \in Process : merge'[r].list = merge[r].list /\ (r # p => merge'[r] = merge[r])
            BY <1>1, <2>1
        <2>5. \A r \in Process : merge'[r].step \in {"comparing", "opening", "writing"} => merge'[r].list \in Lists
            BY <1>0, <2>3, <2>4 DEF FilesWhole
        <2>6. \A i \in Load : load'[i] = "data" => spoiled'[i]
            BY <2>1
        <2>7. FilesWhole'
            BY <2>2, <2>5, <2>6 DEF FilesWhole
        <2>8. QED
            BY <1>0, <2>1, <2>7, SetKept
    <1>6. CASE Written(p)
        <2>1. Writing(p) /\ file' \in FileAfter(p) /\ MergeOver(p)
            BY <1>6 DEF Written
        <2>2. ~file.whole /\ merge[p].list \in Lists
            BY <1>0, <2>1 DEF FilesWhole, Writing
        <2>3. file'.whole => file'.list = merge[p].list /\ ~Writing(Other(p))
            BY <2>1 DEF FileAfter, Torn
        <2>4. \A i \in Load : load[i] = "data" => spoiled[i]
            BY <1>0, <2>2 DEF FilesWhole
        <2>5. /\ merge'[p].step \in {"none", "fetching"}
              /\ \A r \in Process : r # p => merge'[r] = merge[r]
            BY <1>0, <2>1, MergeOverSteps
        <2>6. \A r \in Process : merge'[r].step \in {"comparing", "opening", "writing"} => merge'[r].list \in Lists
            BY <1>0, <2>5 DEF FilesWhole
        <2>7. \A r \in Process : Writing(r)' => ~file'.whole
            BY <2>3, <2>5, OtherOne DEF Writing
        <2>8. CASE UNCHANGED <<fileLoaded, load, spoiled, current, tainted>>
            <3>1. FilesWhole'
                BY <2>2, <2>3, <2>4, <2>6, <2>7, <2>8 DEF FilesWhole
            <3>2. QED
                BY <1>0, <2>8, <3>1, SetKept
        <2>9. ASSUME NEW i \in Load, StartLoad(i)
              PROVE  FilesWhole' /\ SetWhole'
            <3>1. load' = [load EXCEPT ![i] = "data"] /\ spoiled' = [spoiled EXCEPT ![i] = ~file'.whole]
                BY <2>9 DEF StartLoad
            <3>2. load \in [Load -> {"none", "data", "extra"}] /\ spoiled \in [Load -> BOOLEAN]
                BY <1>0 DEF TypeOK
            <3>3. \A j \in Load : load'[j] = "data" /\ ~spoiled'[j] => file'.whole
                BY <2>4, <3>1, <3>2
            <3>4. FilesWhole'
                BY <2>2, <2>3, <2>6, <2>7, <3>3 DEF FilesWhole
            <3>5. QED
                BY <1>0, <2>9, <3>4, StartLoadWhole
        <2>10. QED
            BY <1>6, <2>8, <2>9 DEF Written
    <1>7. QED
        BY <1>2, <1>3, <1>4, <1>5, <1>6 DEF Work

LEMMA ReadDataWhole ==
    ASSUME WholeInv, NEW i \in Load, ReadData(i)
    PROVE  FilesWhole' /\ SetWhole'
    <1>0. TypeOK /\ FilesWhole /\ SetWhole /\ load \in [Load -> {"none", "data", "extra"}]
          /\ current \in Load
        BY DEF WholeInv, TypeOK
    <1>1. /\ load[i] = "data" /\ load' = [load EXCEPT ![i] = "extra"]
          /\ UNCHANGED <<spoiled, current, file, merge>>
          /\ (tainted' <=> tainted \/ spoiled[i])
        BY DEF ReadData, mergeVars
    <1>2. \A j \in Load : load'[j] = "data" => load[j] = "data"
        BY <1>0, <1>1
    <1>3. FilesWhole'
        BY <1>0, <1>1, <1>2 DEF FilesWhole, Writing
    <1>4. ASSUME ~tainted'
          PROVE  (\A j \in Load : Busy(j)' => j = current') /\ Filled'
        <2>1. ~tainted /\ ~spoiled[i] /\ (\A j \in Load : Busy(j) => j = current) /\ Filled
            BY <1>0, <1>1, <1>4 DEF SetWhole
        <2>2. i = current
            BY <1>1, <2>1 DEF Busy
        <2>3. fileLoaded = {} /\ file.whole /\ file.list \in Lists
            BY <1>0, <1>1, <2>1, <2>2 DEF Filled, FilesWhole
        <2>4. PICK read \in IF spoiled[i] THEN SUBSET Domain ELSE {file.list} : fileLoaded' = fileLoaded \cup read
            BY DEF ReadData
        <2>5. fileLoaded' = file.list
            BY <2>1, <2>3, <2>4
        <2>6. load'[i] = "extra" /\ \A j \in Load : j # i => load'[j] = load[j]
            BY <1>0, <1>1
        <2>7. Filled'
            BY <1>1, <2>2, <2>3, <2>5, <2>6 DEF Filled
        <2>8. \A j \in Load : Busy(j)' => j = current'
            BY <1>1, <2>1, <2>2, <2>6 DEF Busy
        <2>9. QED
            BY <2>7, <2>8
    <1>5. QED
        BY <1>3, <1>4 DEF SetWhole

LEMMA ReadExtraWhole ==
    ASSUME WholeInv, NEW i \in Load, ReadExtra(i)
    PROVE  FilesWhole' /\ SetWhole'
    <1>0. TypeOK /\ FilesWhole /\ SetWhole /\ load \in [Load -> {"none", "data", "extra"}]
          /\ current \in Load
        BY DEF WholeInv, TypeOK
    <1>1. /\ load[i] = "extra" /\ load' = [load EXCEPT ![i] = "none"]
          /\ UNCHANGED <<spoiled, current, file, merge, tainted>>
          /\ fileLoaded' = fileLoaded \cup Extra
        BY DEF ReadExtra, mergeVars
    <1>2. \A j \in Load : load'[j] = "data" => load[j] = "data"
        BY <1>0, <1>1
    <1>3. FilesWhole'
        BY <1>0, <1>1, <1>2 DEF FilesWhole, Writing
    <1>4. ASSUME ~tainted'
          PROVE  (\A j \in Load : Busy(j)' => j = current') /\ Filled'
        <2>1. (\A j \in Load : Busy(j) => j = current) /\ Filled
            BY <1>0, <1>1, <1>4 DEF SetWhole
        <2>2. i = current
            BY <1>1, <2>1 DEF Busy
        <2>3. fileLoaded \in Lists
            BY <1>1, <2>1, <2>2 DEF Filled
        <2>4. load'[i] = "none" /\ \A j \in Load : j # i => load'[j] = load[j]
            BY <1>0, <1>1
        <2>5. Filled'
            BY <1>1, <2>2, <2>3, <2>4 DEF Filled
        <2>6. \A j \in Load : Busy(j)' => j = current'
            BY <1>1, <2>1, <2>2, <2>4 DEF Busy
        <2>7. QED
            BY <2>5, <2>6
    <1>5. QED
        BY <1>3, <1>4 DEF SetWhole

LEMMA RestartWhole ==
    ASSUME WholeInv, NEW i \in Load, Restart(i)
    PROVE  FilesWhole' /\ SetWhole'
    <1>0. TypeOK /\ FilesWhole /\ merge \in [Process -> [step : Steps, list : SUBSET Domain]]
        BY DEF WholeInv, TypeOK
    <1>1. /\ merge' = [merge EXCEPT !["server"] = Idle] /\ UNCHANGED file
          /\ load' = [j \in Load |-> IF j = i THEN "data" ELSE "none"]
          /\ spoiled' = [j \in Load |-> j = i /\ ~file.whole]
          /\ fileLoaded' = {} /\ current' = i /\ tainted' = FALSE
        BY DEF Restart
    <1>2. \A r \in Process : merge'[r] = merge[r] \/ merge'[r].step = "none"
        BY <1>0, <1>1 DEF Idle
    <1>3. \A j \in Load : load'[j] = "data" /\ ~spoiled'[j] => file.whole
        BY <1>1
    <1>4. FilesWhole'
        BY <1>0, <1>1, <1>2, <1>3 DEF FilesWhole, Writing
    <1>5. load'[i] = "data" /\ \A j \in Load : load'[j] # "none" => j = i
        BY <1>1
    <1>6. SetWhole'
        BY <1>1, <1>5 DEF SetWhole, Filled, Busy
    <1>7. QED
        BY <1>4, <1>6

LEMMA OutsideWhole ==
    ASSUME WholeInv, Verify \/ Tick \/ CliStarts \/ CliDies \/ Publish \/ NewDay
    PROVE  FilesWhole' /\ SetWhole'
    <1>0. TypeOK /\ FilesWhole /\ SetWhole /\ merge \in [Process -> [step : Steps, list : SUBSET Domain]]
          /\ file \in [list : SUBSET Domain, today : BOOLEAN, whole : BOOLEAN]
        BY DEF WholeInv, TypeOK
    <1>1. UNCHANGED <<fileLoaded, load, spoiled, current, tainted>>
        BY DEF Verify, Tick, CliStarts, CliDies, Publish, NewDay
    <1>2. \A r \in Process : merge'[r] = merge[r] \/ merge'[r].step \in {"none", "fetching"}
        <2>1. \/ UNCHANGED merge
              \/ \E r \in Process : merge' = [merge EXCEPT ![r] = Idle] \/ merge' = [merge EXCEPT ![r] = Fetching]
            BY DEF Verify, Tick, CliStarts, CliDies, Publish, NewDay, mergeVars, Process
        <2>2. QED
            BY <1>0, <2>1 DEF Idle, Fetching
    <1>3. CASE UNCHANGED file
        BY <1>0, <1>1, <1>2, <1>3, QuietStep, SetKept
    <1>4. CASE NewDay
        <2>1. file' = [file EXCEPT !.today = FALSE] /\ UNCHANGED merge
            BY <1>4 DEF NewDay
        <2>2. file'.whole = file.whole /\ file'.list = file.list
            BY <1>0, <2>1
        <2>3. FilesWhole'
            BY <1>0, <1>1, <2>1, <2>2 DEF FilesWhole, Writing
        <2>4. QED
            BY <1>0, <1>1, <2>3, SetKept
    <1>5. QED
        BY <1>3, <1>4 DEF Verify, Tick, CliStarts, CliDies, Publish, mergeVars

\* A verification reads the set when no call is filling it, or right after the call it
\* waited for: Filled then says what it reads.
LEMMA ReadsWhole ==
    ASSUME WholeInv, WholeInv', VerdictsFromWholeLists, [Next]_vars
    PROVE  VerdictsFromWholeLists'
    <1>1. CASE Verify
        <2>1. CASE ~Busy(current) /\ Reading(fileLoaded)
            <3>1. seen' = <<[list |-> fileLoaded, tainted |-> tainted]>>
                BY <2>1 DEF Reading
            <3>2. tainted \/ \E l \in Lists : fileLoaded = l \cup Extra
                BY <2>1 DEF WholeInv, SetWhole, Filled, Busy
            <3>3. QED
                BY <3>1, <3>2 DEF VerdictsFromWholeLists
        <2>2. CASE seen' = <<>>
            BY <2>2 DEF VerdictsFromWholeLists
        <2>3. QED
            BY <1>1, <2>1, <2>2 DEF Verify
    <1>2. ASSUME NEW i \in Load, ReadExtra(i)
          PROVE  VerdictsFromWholeLists'
        <2>1. CASE seen' = <<>>
            BY <2>1 DEF VerdictsFromWholeLists
        <2>2. CASE Reading(fileLoaded')
            <3>1. seen' = <<[list |-> fileLoaded', tainted |-> tainted]>>
                BY <2>2 DEF Reading
            <3>2. ASSUME ~tainted
                  PROVE  \E l \in Lists : fileLoaded' = l \cup Extra
                <4>1. (\A j \in Load : Busy(j) => j = current) /\ Filled
                    BY <3>2 DEF WholeInv, SetWhole
                <4>2. load[i] = "extra" /\ fileLoaded' = fileLoaded \cup Extra
                    BY <1>2 DEF ReadExtra
                <4>3. i = current
                    BY <4>1, <4>2 DEF Busy
                <4>4. QED
                    BY <4>1, <4>2, <4>3 DEF Filled
            <3>3. QED
                BY <3>1, <3>2 DEF VerdictsFromWholeLists
        <2>3. QED
            BY <1>2, <2>1, <2>2 DEF ReadExtra
    <1>3. CASE UNCHANGED vars
        BY <1>3 DEF VerdictsFromWholeLists, vars, serverVars
    <1>4. ASSUME seen' = <<>>
          PROVE  VerdictsFromWholeLists'
        BY <1>4 DEF VerdictsFromWholeLists
    <1>5. \A p \in Process : Work(p) => seen' = <<>>
        BY DEF Work, FetchFails, Fetched, Compared, Opened, Written
    <1>6. \A i \in Load : ReadData(i) \/ Restart(i) => seen' = <<>>
        BY DEF ReadData, Restart
    <1>7. Tick \/ CliStarts \/ CliDies \/ Publish \/ NewDay => seen' = <<>>
        BY DEF Tick, CliStarts, CliDies, Publish, NewDay
    <1>8. QED
        BY <1>1, <1>2, <1>3, <1>4, <1>5, <1>6, <1>7 DEF Next, LoadStep

\* VerdictsFromWholeLists: the set is cleared at once and filled across awaits, and no
\* verification sees it on the way, unless the file was being written while it was
\* read or two reloads overlapped.
THEOREM WholeListsAreRead == Spec => []VerdictsFromWholeLists
    <1>1. Init => WholeInv /\ VerdictsFromWholeLists
        <2> SUFFICES ASSUME Init
                     PROVE  WholeInv /\ VerdictsFromWholeLists
            OBVIOUS
        <2>1. PICK l \in Lists : file = [list |-> l, today |-> FALSE, whole |-> TRUE]
            BY DEF Init
        <2>2. \A p \in Process : merge[p].step = "none"
            BY DEF Init, Idle
        <2>3. FilesWhole
            BY <2>1, <2>2 DEF FilesWhole, Writing
        <2>4. current \in Load /\ load = [i \in Load |-> IF i = current THEN "data" ELSE "none"]
              /\ fileLoaded = {}
            BY DEF Init
        <2>5. SetWhole
            BY <2>4 DEF SetWhole, Filled, Busy
        <2>6. TypeOK
            BY InitTyped
        <2>7. seen = <<>>
            BY DEF Init
        <2>8. QED
            BY <2>3, <2>5, <2>6, <2>7 DEF WholeInv, VerdictsFromWholeLists
    <1>2. WholeInv /\ [Next]_vars => WholeInv'
        <2> SUFFICES ASSUME WholeInv, [Next]_vars
                     PROVE  WholeInv'
            OBVIOUS
        <2>1. TypeOK'
            BY StepTyped DEF WholeInv
        <2>2. CASE UNCHANGED vars
            <3>1. UNCHANGED <<file, merge, fileLoaded, load, spoiled, current, tainted>>
                BY <2>2 DEF vars, serverVars, mergeVars
            <3>2. FilesWhole'
                BY <3>1, QuietStep DEF WholeInv
            <3>3. QED
                BY <2>1, <3>1, <3>2, SetKept DEF WholeInv
        <2>3. CASE Next
            <3>1. FilesWhole' /\ SetWhole'
                BY <2>3, WorkWhole, ReadDataWhole, ReadExtraWhole, RestartWhole, OutsideWhole DEF Next, LoadStep
            <3>2. QED
                BY <2>1, <3>1 DEF WholeInv
        <2>4. QED
            BY <2>2, <2>3
    <1>3. WholeInv /\ WholeInv' /\ VerdictsFromWholeLists /\ [Next]_vars => VerdictsFromWholeLists'
        BY ReadsWhole
    <1>4. QED
        BY <1>1, <1>2, <1>3, PTL DEF Spec

=============================================================================
