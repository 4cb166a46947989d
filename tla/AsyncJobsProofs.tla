---------------------------- MODULE AsyncJobsProofs ----------------------------
(* Theorems about AsyncJobs, for any set of identifiers and any size of the     *)
(* store: the invariants of the queue, and that it implements JobStore.         *)
EXTENDS AsyncJobs, FiniteSetTheorems, TLAPS

-----------------------------------------------------------------------------
(* The inductive invariant *)

Used == {i \in Id : born[i] # 0}
Processing == {i \in Id : status[i] = "processing"}

\* Places in the Map's order are handed out one after the other, once each, and
\* only to jobs that were accepted.
PlacesAreDistinct ==
    /\ IsFiniteSet(Used)
    /\ \A i \in Id : born[i] <= Cardinality(Used)
    /\ \A i, j \in Used : born[i] = born[j] => i = j
    /\ \A i \in Id : born[i] # 0 <=> status[i] # "new"

\* The store holds no more than it may.
StoreIsBounded == Cardinality(Stored) <= Max

\* The job in process is the one of the task, until its verification is over; a
\* callback is told of an answer, and before the POST of the task not of its job.
TaskIsInProcess ==
    /\ \A i, j \in task : i = j
    /\ Processing = (IF at = "verify" THEN task ELSE {})
    /\ \A i \in told : status[i] \in Terminal \cup {"evicted", "lost"}
    /\ at \in {"webhook", "posted"} => \A i \in task : status[i] \in Terminal \cup {"evicted"}
    /\ at = "webhook" => task \cap told = {}

IInv ==
    /\ TypeOK
    /\ PlacesAreDistinct
    /\ StoreIsBounded
    /\ TaskIsInProcess
    /\ QueueHoldsPending
    /\ PumpScheduled

-----------------------------------------------------------------------------
(* The store *)

\* Every stored job was accepted, so the store is a finite set.
LEMMA StoredIsFinite ==
    ASSUME IInv
    PROVE  /\ Stored \subseteq Used
           /\ \A S \in SUBSET Stored : IsFiniteSet(S) /\ Cardinality(S) \in Nat
    <1>1. Stored \subseteq Used
        BY DEF IInv, PlacesAreDistinct, Stored, Used, Terminal
    <1>2. IsFiniteSet(Used)
        BY DEF IInv, PlacesAreDistinct
    <1>3. ASSUME NEW S \in SUBSET Stored
          PROVE  IsFiniteSet(S) /\ Cardinality(S) \in Nat
        <2>1. S \in SUBSET Used
            BY <1>1
        <2>2. IsFiniteSet(S)
            BY <1>2, <2>1, FS_Subset
        <2>3. QED
            BY <2>2, FS_CardinalityType
    <1>4. QED
        BY <1>1, <1>3

\* The answers that are older than one.
Older(i) == {j \in Finished : born[j] < born[i]}

\* While there is room nothing is evicted.
LEMMA NothingEvicted ==
    ASSUME IInv, Cardinality(Stored) < Max
    PROVE  Victims = {}
    <1>1. SUFFICES ASSUME NEW i \in Finished, Cardinality(Stored) - Cardinality(Older(i)) >= Max
                   PROVE  FALSE
        BY DEF Victims, Older
    <1>2. Older(i) \in SUBSET Stored
        BY DEF Older, Finished, Stored
    <1>3. Cardinality(Older(i)) \in Nat /\ Cardinality(Stored) \in Nat
        BY <1>2, StoredIsFinite
    <1>4. QED
        BY <1>1, <1>3, JobsAssumption DEF JobsAssumption

\* In a full store an evicted answer is the oldest one.
LEMMA OldestEvicted ==
    ASSUME IInv, Cardinality(Stored) = Max, NEW i \in Victims
    PROVE  /\ i \in Finished
           /\ \A j \in Finished : born[i] <= born[j]
    <1>1. i \in Finished /\ Cardinality(Stored) - Cardinality(Older(i)) >= Max
        BY DEF Victims, Older
    <1>2. Older(i) \in SUBSET Stored
        BY DEF Older, Finished, Stored
    <1>3. IsFiniteSet(Older(i)) /\ Cardinality(Older(i)) \in Nat /\ Cardinality(Stored) \in Nat
        BY <1>2, StoredIsFinite
    <1>4. Cardinality(Older(i)) = 0
        BY <1>1, <1>3, JobsAssumption
    <1>5. Older(i) = {}
        BY <1>3, <1>4, FS_EmptySet
    <1>6. \A j \in Finished : born[j] \in Nat /\ born[i] \in Nat
        BY <1>1 DEF IInv, TypeOK, Finished
    <1>7. QED
        BY <1>1, <1>5, <1>6 DEF Older

-----------------------------------------------------------------------------
(* What the steps do to the store *)

\* A step after which the places are what they were, and no job is new that was not.
LEMMA PlacesKept ==
    ASSUME IInv, UNCHANGED born, \A i \in Id : status'[i] = "new" <=> status[i] = "new"
    PROVE  PlacesAreDistinct'
    BY DEF IInv, PlacesAreDistinct, Used

\* A step that stores no further job keeps the bound.
LEMMA StoreKept ==
    ASSUME IInv, Stored' \subseteq Stored
    PROVE  StoreIsBounded'
    <1>1. IsFiniteSet(Stored) /\ Cardinality(Stored) \in Nat
        BY StoredIsFinite
    <1>2. Cardinality(Stored') <= Cardinality(Stored) /\ Cardinality(Stored') \in Nat
        BY <1>1, StoredIsFinite, FS_Subset
    <1>3. QED
        BY <1>1, <1>2, JobsAssumption DEF IInv, StoreIsBounded

\* What an accepted job does to the store.
LEMMA EnqueueStores ==
    ASSUME IInv, NEW i \in Id, NEW u \in BOOLEAN, Enqueue(i, u)
    PROVE  /\ Victims \subseteq Finished /\ i \notin Victims
           /\ status' \in [Id -> Status]
           /\ status'[i] = "pending"
           /\ \A j \in Victims : status'[j] = "evicted"
           /\ \A j \in Id : j # i /\ j \notin Victims => status'[j] = status[j]
           /\ Stored' = (Stored \ Victims) \cup {i}
    <1>1. Victims \subseteq Finished /\ i \notin Victims
        BY DEF Victims, Finished, Terminal, Enqueue
    <1>2. status' = [j \in Id |->
              IF j = i THEN "pending" ELSE IF j \in Victims THEN "evicted" ELSE status[j]]
        BY DEF Enqueue
    <1>3. status' \in [Id -> Status]
        BY <1>2 DEF IInv, TypeOK, Status
    <1>4. Victims \subseteq Id
        BY <1>1 DEF Finished
    <1>5. Stored' = (Stored \ Victims) \cup {i}
        BY <1>1, <1>2, <1>4 DEF Stored, Terminal
    <1>6. QED
        BY <1>1, <1>2, <1>3, <1>4, <1>5

\* The place of an accepted job is the next one.
LEMMA EnqueuePlaces ==
    ASSUME IInv, NEW i \in Id, NEW u \in BOOLEAN, Enqueue(i, u)
    PROVE  /\ born' \in [Id -> Nat]
           /\ \A j \in Id \ {i} : born'[j] = born[j] /\ born[j] < born'[i]
           /\ born'[i] > 0
           /\ PlacesAreDistinct'
    <1>1. IsFiniteSet(Used) /\ Cardinality(Used) \in Nat
        BY FS_CardinalityType DEF IInv, PlacesAreDistinct
    <1>2. born' = [born EXCEPT ![i] = 1 + Cardinality(Used)] /\ born \in [Id -> Nat]
        BY DEF Enqueue, Used, IInv, TypeOK
    <1>3. born' \in [Id -> Nat] /\ born'[i] = 1 + Cardinality(Used)
        BY <1>1, <1>2
    <1>4. \A j \in Id \ {i} : born'[j] = born[j]
        BY <1>2
    <1>5. \A j \in Id : born[j] <= Cardinality(Used) /\ born[j] \in Nat
        BY <1>2 DEF IInv, PlacesAreDistinct
    <1>6. born[i] = 0
        BY DEF Enqueue, IInv, PlacesAreDistinct
    <1>7. Used' = Used \cup {i} /\ i \notin Used
        BY <1>1, <1>3, <1>4, <1>6 DEF Used
    <1>8. IsFiniteSet(Used') /\ Cardinality(Used') = 1 + Cardinality(Used)
        BY <1>1, <1>7, FS_AddElement
    <1>9. \A j \in Id : born'[j] # 0 <=> status'[j] # "new"
        <2>1. ASSUME NEW j \in Id PROVE status'[j] = "new" <=> j # i /\ status[j] = "new"
            BY <2>1, EnqueueStores DEF Finished, Terminal
        <2>2. born'[i] # 0
            BY <1>1, <1>3
        <2>3. QED
            BY <2>1, <2>2, <1>4 DEF IInv, PlacesAreDistinct
    <1>10. \A j, k \in Used' : born'[j] = born'[k] => j = k
        <2>1. \A j \in Used : born'[j] = born[j] /\ born[j] < born'[i]
            BY <1>1, <1>3, <1>4, <1>5, <1>7 DEF Used
        <2>2. QED
            BY <1>3, <1>5, <1>7, <2>1 DEF IInv, PlacesAreDistinct, Used
    <1>11. \A j \in Id : born'[j] <= Cardinality(Used')
        BY <1>1, <1>3, <1>4, <1>5, <1>8
    <1>12. QED
        BY <1>1, <1>3, <1>4, <1>5, <1>8, <1>9, <1>10, <1>11 DEF PlacesAreDistinct

-----------------------------------------------------------------------------
(* The steps *)

LEMMA EnqueueKeeps ==
    ASSUME IInv, NEW i \in Id, NEW u \in BOOLEAN, Enqueue(i, u)
    PROVE  IInv'
    <1>1. /\ queue' = Append(queue, i) /\ queue \in Seq(Id)
          /\ pumps' = pumps + 1 /\ pumps \in Nat
          /\ UNCHANGED <<running, task, at, told>>
          /\ url' = IF u THEN url \cup {i} ELSE url
        BY DEF Enqueue, IInv, TypeOK
    <1>2. TypeOK'
        <2>1. queue' \in Seq(Id) /\ pumps' \in Nat
            BY <1>1
        <2>2. url' \in SUBSET Id /\ told' \in SUBSET url'
            BY <1>1 DEF IInv, TypeOK
        <2>3. (running' <=> at' # "idle") /\ (running' <=> task' # {}) /\ running' \in BOOLEAN
            BY <1>1 DEF IInv, TypeOK
        <2>4. QED
            BY <1>1, <2>1, <2>2, <2>3, EnqueueStores, EnqueuePlaces DEF IInv, TypeOK
    <1>3. StoreIsBounded'
        <2>1. Stored \ Victims \in SUBSET Stored
            OBVIOUS
        <2>2. IsFiniteSet(Stored \ Victims) /\ Cardinality(Stored \ Victims) \in Nat
            BY <2>1, StoredIsFinite
        <2>3. Cardinality(Stored \ Victims) < Max
            BY DEF Enqueue
        <2>4. i \notin Stored \ Victims
            BY DEF Enqueue, Stored, Terminal
        <2>5. Cardinality((Stored \ Victims) \cup {i}) = Cardinality(Stored \ Victims) + 1
            BY <2>2, <2>4, FS_AddElement
        <2>6. Stored' = (Stored \ Victims) \cup {i}
            BY EnqueueStores
        <2>7. QED
            BY <2>2, <2>3, <2>5, <2>6, JobsAssumption DEF StoreIsBounded
    <1>4. TaskIsInProcess'
        <2>1. /\ Victims \subseteq Finished /\ status[i] = "new" /\ status'[i] = "pending"
              /\ \A j \in Victims : status'[j] = "evicted"
              /\ \A j \in Id : j # i /\ j \notin Victims => status'[j] = status[j]
            BY EnqueueStores DEF Enqueue
        <2>2. Processing' = Processing
            BY <2>1 DEF Processing, Finished, Terminal
        <2>3. \A j \in Id : status[j] \in Terminal \cup {"evicted"} =>
                                status'[j] \in Terminal \cup {"evicted"}
            BY <2>1 DEF Finished, Terminal
        <2>4. \A j \in Id : status[j] = "lost" => status'[j] = "lost"
            BY <2>1 DEF Finished, Terminal
        <2>5. task \subseteq Id /\ told \subseteq Id
            BY DEF IInv, TypeOK
        <2>6. QED
            BY <1>1, <2>2, <2>3, <2>4, <2>5 DEF IInv, TaskIsInProcess
    <1>5. QueueHoldsPending'
        <2>1. /\ Len(queue') = Len(queue) + 1 /\ Len(queue) \in Nat
              /\ DOMAIN queue = 1 .. Len(queue) /\ DOMAIN queue' = 1 .. Len(queue) + 1
              /\ \A n \in 1 .. Len(queue) : queue'[n] = queue[n] /\ queue[n] \in Id
              /\ queue'[Len(queue) + 1] = i
            BY <1>1
        <2>2. InQueue' = InQueue \cup {i}
            <3>1. \A n \in DOMAIN queue' : queue'[n] \in InQueue \cup {i}
                BY <2>1 DEF InQueue
            <3>2. \A n \in DOMAIN queue : n \in DOMAIN queue' /\ queue'[n] = queue[n]
                BY <2>1
            <3>3. Len(queue) + 1 \in DOMAIN queue'
                BY <2>1
            <3>4. QED
                BY <2>1, <3>1, <3>2, <3>3 DEF InQueue
        <2>3. {j \in Id : status'[j] = "pending"} = {j \in Id : status[j] = "pending"} \cup {i}
            BY EnqueueStores DEF Finished, Terminal
        <2>4. ASSUME NEW m \in DOMAIN queue', NEW n \in DOMAIN queue', m < n
              PROVE  born'[queue'[m]] < born'[queue'[n]]
            <3>1. m \in DOMAIN queue /\ queue'[m] = queue[m] /\ queue[m] \in Id /\ queue[m] # i
                <4>1. m \in DOMAIN queue /\ queue'[m] = queue[m] /\ queue[m] \in Id
                    BY <2>1, <2>4
                <4>2. status[queue[m]] = "pending"
                    BY <4>1 DEF IInv, QueueHoldsPending, InQueue
                <4>3. QED
                    BY <4>1, <4>2 DEF Enqueue
            <3>2. CASE n = Len(queue) + 1
                BY <2>1, <3>1, <3>2, EnqueuePlaces
            <3>3. CASE n # Len(queue) + 1
                <4>1. n \in DOMAIN queue /\ queue'[n] = queue[n] /\ queue[n] \in Id
                    BY <2>1, <2>4, <3>3
                <4>2. status[queue[n]] = "pending"
                    BY <4>1 DEF IInv, QueueHoldsPending, InQueue
                <4>3. queue[n] # i
                    BY <4>2 DEF Enqueue
                <4>4. born[queue[m]] < born[queue[n]]
                    BY <2>4, <3>1, <4>1 DEF IInv, QueueHoldsPending
                <4>5. QED
                    BY <3>1, <4>1, <4>3, <4>4, EnqueuePlaces
            <3>4. QED
                BY <3>2, <3>3
        <2>5. QED
            BY <2>2, <2>3, <2>4 DEF IInv, QueueHoldsPending
    <1>6. PumpScheduled'
        BY <1>1 DEF PumpScheduled
    <1>7. QED
        BY <1>2, <1>3, <1>4, <1>5, <1>6, EnqueuePlaces DEF IInv


\* A pump that starts the head of the queue.
LEMMA PumpKeeps ==
    ASSUME IInv, Pump
    PROVE  IInv'
    <1>1. CASE /\ running \/ queue = <<>>
               /\ pumps' = pumps - 1
               /\ UNCHANGED <<status, queue, running, task, at>>
        <2>1. pumps > 0 /\ UNCHANGED <<born, url, told>>
            BY DEF Pump
        <2>2. pumps' \in Nat
            BY <1>1, <2>1 DEF IInv, TypeOK
        <2>3. TypeOK'
            BY <1>1, <2>1, <2>2 DEF IInv, TypeOK
        <2>4. PlacesAreDistinct' /\ StoreIsBounded'
            BY <1>1, <2>1, PlacesKept, StoreKept DEF Stored
        <2>5. TaskIsInProcess' /\ QueueHoldsPending' /\ PumpScheduled'
            BY <1>1, <2>1 DEF IInv, TaskIsInProcess, Processing, QueueHoldsPending, InQueue, PumpScheduled
        <2>6. QED
            BY <2>3, <2>4, <2>5 DEF IInv
    <1>2. CASE /\ ~running
               /\ queue # <<>>
               /\ queue' = Tail(queue)
               /\ IF status[Head(queue)] = "pending" THEN Start(Head(queue)) ELSE Skip
        <2>1. /\ queue \in Seq(Id) /\ Len(queue) \in Nat /\ Len(queue) > 0
              /\ DOMAIN queue = 1 .. Len(queue)
              /\ \A n \in 1 .. Len(queue) : queue[n] \in Id
              /\ Head(queue) = queue[1] /\ Head(queue) \in Id
            BY <1>2 DEF IInv, TypeOK
        <2>2. /\ queue' \in Seq(Id)
              /\ DOMAIN queue' = 1 .. Len(queue) - 1
              /\ \A n \in 1 .. Len(queue) - 1 : queue'[n] = queue[n + 1]
            BY <1>2, <2>1
        <2> DEFINE h == Head(queue)
        <2>3. status[h] = "pending"
            BY <2>1 DEF IInv, QueueHoldsPending, InQueue
        <2>4. /\ status' = [status EXCEPT ![h] = "processing"]
              /\ running' = TRUE /\ task' = {h} /\ at' = "verify" /\ pumps' = pumps - 1
              /\ UNCHANGED <<born, url, told>>
            BY <1>2, <2>3 DEF Start, Pump
        <2>5. h \in Id /\ status \in [Id -> Status]
            BY <2>1 DEF IInv, TypeOK
        <2>6. /\ status' \in [Id -> Status] /\ status'[h] = "processing"
              /\ \A j \in Id \ {h} : status'[j] = status[j]
            BY <2>4, <2>5 DEF Status
        <2> HIDE DEF h
        <2>7. TypeOK'
            <3>1. pumps' \in Nat
                BY <2>4 DEF Pump, IInv, TypeOK
            <3>2. QED
                BY <2>2, <2>4, <2>5, <2>6, <3>1 DEF IInv, TypeOK
        <2>8. PlacesAreDistinct'
            BY <2>3, <2>4, <2>5, <2>6, PlacesKept
        <2>9. StoreIsBounded'
            BY <2>3, <2>5, <2>6, StoreKept DEF Stored
        <2>10. TaskIsInProcess'
            <3>1. Processing = {} /\ told \subseteq Id
                BY <1>2 DEF IInv, TypeOK, TaskIsInProcess
            <3>2. Processing' = {h}
                BY <2>5, <2>6, <3>1 DEF Processing
            <3>3. h \notin told
                BY <2>3 DEF IInv, TaskIsInProcess, Terminal
            <3>4. QED
                BY <2>4, <2>6, <3>1, <3>2, <3>3 DEF IInv, TaskIsInProcess
        <2>11. QueueHoldsPending'
            <3>1. ASSUME NEW n \in DOMAIN queue, n > 1
                  PROVE  queue[n] # h
                <4>1. 1 \in DOMAIN queue /\ queue[n] \in Id
                    BY <2>1
                <4>2. born[queue[1]] < born[queue[n]]
                    BY <3>1, <4>1, <2>1 DEF IInv, QueueHoldsPending
                <4>3. born[queue[n]] \in Nat /\ born[queue[1]] \in Nat
                    BY <2>1, <4>1 DEF IInv, TypeOK
                <4>4. QED
                    BY <2>1, <4>2, <4>3 DEF h
            <3>2. InQueue' = InQueue \ {h}
                <4>1. \A n \in DOMAIN queue' : n + 1 \in DOMAIN queue /\ n + 1 > 1
                                               /\ queue'[n] = queue[n + 1]
                    BY <2>1, <2>2
                <4>2. \A n \in DOMAIN queue : n > 1 =>
                          n - 1 \in DOMAIN queue' /\ queue'[n - 1] = queue[n]
                    BY <2>1, <2>2
                <4>3. \A n \in DOMAIN queue : n = 1 => queue[n] = h
                    BY <2>1 DEF h
                <4>4. \A n \in DOMAIN queue : n = 1 \/ n > 1
                    BY <2>1
                <4>5. InQueue' \subseteq InQueue \ {h}
                    BY <3>1, <4>1 DEF InQueue
                <4>6. InQueue \ {h} \subseteq InQueue'
                    BY <4>2, <4>3, <4>4 DEF InQueue
                <4>7. QED
                    BY <4>5, <4>6
            <3>3. {j \in Id : status'[j] = "pending"} = {j \in Id : status[j] = "pending"} \ {h}
                BY <2>5, <2>6
            <3>4. ASSUME NEW m \in DOMAIN queue', NEW n \in DOMAIN queue', m < n
                  PROVE  born'[queue'[m]] < born'[queue'[n]]
                <4>1. m + 1 \in DOMAIN queue /\ n + 1 \in DOMAIN queue /\ m + 1 < n + 1
                      /\ queue'[m] = queue[m + 1] /\ queue'[n] = queue[n + 1]
                    BY <2>1, <2>2, <3>4
                <4>2. born[queue[m + 1]] < born[queue[n + 1]]
                    BY <4>1 DEF IInv, QueueHoldsPending
                <4>3. QED
                    BY <2>4, <4>1, <4>2
            <3>5. QED
                BY <3>2, <3>3, <3>4 DEF IInv, QueueHoldsPending
        <2>12. PumpScheduled'
            BY <2>4 DEF PumpScheduled
        <2>13. QED
            BY <2>7, <2>8, <2>9, <2>10, <2>11, <2>12 DEF IInv
    <1>3. QED
        BY <1>1, <1>2 DEF Pump


\* A verification that ends moves the job of the task from processing to an answer.
LEMMA VerifiedEffect ==
    ASSUME IInv, Verified
    PROVE  \E i \in Id, s \in Terminal :
              /\ task = {i} /\ Processing = {i} /\ status[i] = "processing"
              /\ status' = [status EXCEPT ![i] = s]
              /\ status' \in [Id -> Status] /\ status'[i] = s
              /\ \A j \in Id \ {i} : status'[j] = status[j]
    <1>1. PICK i \in task, s \in Terminal : status' = [status EXCEPT ![i] = s]
        BY DEF Verified
    <1>2. task = {i} /\ Processing = {i} /\ i \in Id
        BY <1>1 DEF Verified, IInv, TaskIsInProcess, TypeOK
    <1>3. status[i] = "processing" /\ status \in [Id -> Status]
        BY <1>2 DEF Processing, IInv, TypeOK
    <1>4. status' \in [Id -> Status] /\ status'[i] = s /\ \A j \in Id \ {i} : status'[j] = status[j]
        BY <1>1, <1>2, <1>3 DEF Status, Terminal
    <1>5. QED
        BY <1>1, <1>2, <1>3, <1>4

LEMMA VerifiedKeeps ==
    ASSUME IInv, Verified
    PROVE  IInv'
    <1>1. /\ at = "verify" /\ at' = "webhook"
          /\ UNCHANGED <<born, url, queue, running, task, pumps, told>>
        BY DEF Verified
    <1>2. PICK i \in Id, s \in Terminal :
              /\ task = {i} /\ Processing = {i} /\ status[i] = "processing"
              /\ status' \in [Id -> Status] /\ status'[i] = s
              /\ \A j \in Id \ {i} : status'[j] = status[j]
        BY VerifiedEffect
    <1>3. TypeOK'
        BY <1>1, <1>2 DEF IInv, TypeOK
    <1>4. PlacesAreDistinct'
        BY <1>1, <1>2, PlacesKept DEF Terminal
    <1>5. StoreIsBounded'
        BY <1>2, StoreKept DEF Stored
    <1>6. TaskIsInProcess'
        <2>1. Processing' = {}
            BY <1>2 DEF Processing, Terminal
        <2>2. i \notin told /\ told \subseteq Id
            BY <1>2 DEF IInv, TaskIsInProcess, TypeOK, Terminal
        <2>3. \A j \in told : status'[j] = status[j]
            BY <1>2, <2>2
        <2>4. QED
            BY <1>1, <1>2, <2>1, <2>2, <2>3 DEF IInv, TaskIsInProcess
    <1>7. QueueHoldsPending' /\ PumpScheduled'
        <2>1. {j \in Id : status'[j] = "pending"} = {j \in Id : status[j] = "pending"}
            BY <1>2 DEF Terminal
        <2>2. QED
            BY <1>1, <2>1 DEF IInv, QueueHoldsPending, InQueue, PumpScheduled
    <1>8. QED
        BY <1>3, <1>4, <1>5, <1>6, <1>7 DEF IInv

LEMMA PostKeeps ==
    ASSUME IInv, PostArrives
    PROVE  IInv'
    <1>1. /\ at = "webhook" /\ at' = "posted" /\ task \subseteq url
          /\ told' = told \cup task
          /\ UNCHANGED <<status, born, url, queue, running, task, pumps>>
        BY DEF PostArrives
    <1>2. TypeOK'
        BY <1>1 DEF IInv, TypeOK
    <1>3. PlacesAreDistinct' /\ StoreIsBounded'
        BY <1>1, PlacesKept, StoreKept DEF Stored
    <1>4. TaskIsInProcess'
        BY <1>1 DEF IInv, TaskIsInProcess, Processing
    <1>5. QueueHoldsPending' /\ PumpScheduled'
        BY <1>1 DEF IInv, QueueHoldsPending, InQueue, PumpScheduled
    <1>6. QED
        BY <1>2, <1>3, <1>4, <1>5 DEF IInv

\* The end of a task schedules the pump for the jobs it found waiting.
LEMMA TaskEndsKeeps ==
    ASSUME IInv, TaskEnds
    PROVE  IInv'
    <1>1. /\ at \in {"webhook", "posted"} /\ at' = "idle" /\ running' = FALSE /\ task' = {}
          /\ pumps' = (IF queue # <<>> THEN pumps + 1 ELSE pumps)
          /\ UNCHANGED <<status, born, url, queue, told>>
        BY DEF TaskEnds
    <1>2. pumps' \in Nat /\ (queue # <<>> => pumps' > 0)
        BY <1>1 DEF IInv, TypeOK
    <1>3. TypeOK'
        BY <1>1, <1>2 DEF IInv, TypeOK
    <1>4. PlacesAreDistinct' /\ StoreIsBounded'
        BY <1>1, PlacesKept, StoreKept DEF Stored
    <1>5. TaskIsInProcess'
        BY <1>1 DEF IInv, TaskIsInProcess, Processing
    <1>6. QueueHoldsPending' /\ PumpScheduled'
        BY <1>1, <1>2 DEF IInv, QueueHoldsPending, InQueue, PumpScheduled
    <1>7. QED
        BY <1>3, <1>4, <1>5, <1>6 DEF IInv

LEMMA RestartKeeps ==
    ASSUME IInv, Restart
    PROVE  IInv'
    <1>1. /\ status' = [i \in Id |-> IF i \in Stored THEN "lost" ELSE status[i]]
          /\ queue' = <<>> /\ running' = FALSE /\ task' = {} /\ at' = "idle" /\ pumps' = 0
          /\ UNCHANGED <<born, url, told>>
        BY DEF Restart
    <1>2. /\ status' \in [Id -> Status]
          /\ \A i \in Id : status'[i] \in {"new", "evicted", "lost"}
        BY <1>1 DEF IInv, TypeOK, Status, Stored, Terminal
    <1>3. TypeOK'
        <2>1. queue' \in Seq(Id) /\ pumps' \in Nat
            BY <1>1
        <2>2. QED
            BY <1>1, <1>2, <2>1 DEF IInv, TypeOK
    <1>4. PlacesAreDistinct'
        BY <1>1, PlacesKept DEF Stored, Terminal
    <1>5. StoreIsBounded'
        BY <1>2, StoreKept DEF Stored, Terminal
    <1>6. TaskIsInProcess'
        <2>1. Processing' = {}
            BY <1>2 DEF Processing
        <2>2. \A i \in told : i \in Id /\ status'[i] \in {"evicted", "lost"}
            BY <1>1 DEF IInv, TypeOK, TaskIsInProcess, Stored
        <2>3. QED
            BY <1>1, <2>1, <2>2 DEF TaskIsInProcess
    <1>7. QueueHoldsPending' /\ PumpScheduled'
        <2>1. {j \in Id : status'[j] = "pending"} = {}
            BY <1>2
        <2>2. QED
            BY <1>1, <2>1 DEF QueueHoldsPending, InQueue, PumpScheduled
    <1>8. QED
        BY <1>3, <1>4, <1>5, <1>6, <1>7 DEF IInv

LEMMA InitEstablishes == Init => IInv
    <1> SUFFICES ASSUME Init PROVE IInv
        OBVIOUS
    <1>1. TypeOK
        <2>1. queue \in Seq(Id) /\ born \in [Id -> Nat] /\ pumps \in Nat
            BY DEF Init
        <2>2. status \in [Id -> Status]
            BY DEF Init, Status
        <2>3. QED
            BY <2>1, <2>2 DEF Init, TypeOK
    <1>2. PlacesAreDistinct
        <2>1. Used = {}
            BY DEF Init, Used
        <2>2. QED
            BY <2>1, FS_EmptySet DEF Init, PlacesAreDistinct
    <1>3. StoreIsBounded
        <2>1. Stored = {}
            BY DEF Init, Stored, Terminal
        <2>2. QED
            BY <2>1, FS_EmptySet, JobsAssumption DEF StoreIsBounded
    <1>4. TaskIsInProcess /\ QueueHoldsPending /\ PumpScheduled
        BY DEF Init, TaskIsInProcess, Processing, QueueHoldsPending, InQueue, PumpScheduled
    <1>5. QED
        BY <1>1, <1>2, <1>3, <1>4 DEF IInv

LEMMA StutterKeeps ==
    ASSUME IInv, UNCHANGED vars
    PROVE  IInv'
    <1>1. TypeOK' /\ PlacesAreDistinct' /\ StoreIsBounded'
        BY DEF vars, IInv, TypeOK, PlacesAreDistinct, Used, StoreIsBounded, Stored
    <1>2. TaskIsInProcess' /\ QueueHoldsPending' /\ PumpScheduled'
        BY DEF vars, IInv, TaskIsInProcess, Processing, QueueHoldsPending, InQueue, PumpScheduled
    <1>3. QED
        BY <1>1, <1>2 DEF IInv

LEMMA NextKeeps == IInv /\ [Next]_vars => IInv'
    <1> SUFFICES ASSUME IInv, [Next]_vars PROVE IInv'
        OBVIOUS
    <1>1. CASE \E i \in Id, withUrl \in BOOLEAN : Enqueue(i, withUrl)
        BY <1>1, EnqueueKeeps
    <1>2. CASE Pump
        BY <1>2, PumpKeeps
    <1>3. CASE Verified
        BY <1>3, VerifiedKeeps
    <1>4. CASE PostArrives
        BY <1>4, PostKeeps
    <1>5. CASE TaskEnds
        BY <1>5, TaskEndsKeeps
    <1>6. CASE Restart
        BY <1>6, RestartKeeps
    <1>7. CASE UNCHANGED vars
        BY <1>7, StutterKeeps
    <1>8. QED
        BY <1>1, <1>2, <1>3, <1>4, <1>5, <1>6, <1>7 DEF Next

LEMMA InvariantHolds == Spec => []IInv
    BY InitEstablishes, NextKeeps, PTL DEF Spec

-----------------------------------------------------------------------------
(* Refinement: every step is a step of JobStore or leaves its variables alone *)

\* JobStore has the same store, over the same variables.
LEMMA SameStore ==
    /\ \A S : Store!Cardinality(S) = Cardinality(S)
    /\ Store!Terminal = Terminal
    /\ Store!Stored = Stored
    /\ Store!With("processing") = Processing
    /\ Store!With("pending") = {i \in Id : status[i] = "pending"}
    <1>1. \A S : Store!Cardinality(S) = Cardinality(S)
        BY DEF Store!Cardinality, Cardinality
    <1>2. QED
        BY <1>1 DEF Store!Terminal, Store!Stored, Store!With, Terminal, Stored, Processing

\* In a full store the loop of evictOldTerminalIfNeeded evicts one answer.
LEMMA OneEvicted ==
    ASSUME IInv, NEW i \in Id, NEW u \in BOOLEAN, Enqueue(i, u), Cardinality(Stored) = Max
    PROVE  \E old \in Finished :
              /\ Victims = {old}
              /\ \A j \in Finished : born[old] <= born[j]
    <1>1. Victims # {}
        <2>1. Cardinality(Stored) \in Nat
            BY StoredIsFinite
        <2>2. Cardinality(Stored \ Victims) # Cardinality(Stored)
            BY <2>1, JobsAssumption DEF Enqueue
        <2>3. Victims = {} => Stored \ Victims = Stored
            OBVIOUS
        <2>4. QED
            BY <2>2, <2>3
    <1>2. PICK old \in Victims : TRUE
        BY <1>1
    <1>3. old \in Finished /\ \A j \in Finished : born[old] <= born[j]
        BY OldestEvicted
    <1>4. ASSUME NEW other \in Victims
          PROVE  other = old
        <2>1. other \in Finished /\ \A j \in Finished : born[other] <= born[j]
            BY OldestEvicted
        <2>2. born[other] \in Nat /\ born[old] \in Nat /\ other \in Used /\ old \in Used
            BY <1>3, <2>1, StoredIsFinite DEF IInv, TypeOK, Finished, Stored
        <2>3. born[other] = born[old]
            BY <1>3, <2>1, <2>2
        <2>4. QED
            BY <2>2, <2>3 DEF IInv, PlacesAreDistinct
    <1>5. QED
        BY <1>3, <1>4

LEMMA EnqueueAccepts ==
    ASSUME IInv, NEW i \in Id, NEW u \in BOOLEAN, Enqueue(i, u)
    PROVE  Store!Accept(i)
    <1>1. /\ status[i] = "new" /\ UNCHANGED told
          /\ status' = [j \in Id |->
                IF j = i THEN "pending" ELSE IF j \in Victims THEN "evicted" ELSE status[j]]
        BY DEF Enqueue
    <1>2. status \in [Id -> Status]
        BY DEF IInv, TypeOK
    <1>3. Cardinality(Stored) <= Max /\ Cardinality(Stored) \in Nat
        BY StoredIsFinite DEF IInv, StoreIsBounded
    <1>4. \/ /\ Cardinality(Stored) < Max
             /\ status' = [status EXCEPT ![i] = "pending"]
          \/ /\ Cardinality(Stored) = Max
             /\ \E old \in {j \in Id : status[j] \in Terminal} :
                   /\ \A j \in Id : status[j] \in Terminal => born[old] <= born[j]
                   /\ status' = [status EXCEPT ![i] = "pending", ![old] = "evicted"]
        <2>1. CASE Cardinality(Stored) < Max
            <3>1. Victims = {}
                BY <2>1, NothingEvicted
            <3>2. QED
                BY <1>1, <1>2, <2>1, <3>1
        <2>2. CASE Cardinality(Stored) = Max
            <3>1. PICK old \in Finished : /\ Victims = {old}
                                          /\ \A j \in Finished : born[old] <= born[j]
                BY <2>2, OneEvicted
            <3>2. old # i
                BY <1>1, <3>1 DEF Finished, Terminal
            <3>3. status' = [status EXCEPT ![i] = "pending", ![old] = "evicted"]
                BY <1>1, <1>2, <3>1, <3>2 DEF Finished
            <3>4. QED
                BY <2>2, <3>1, <3>3 DEF Finished
        <2>3. QED
            BY <1>3, <2>1, <2>2, JobsAssumption
    <1>5. /\ born'[i] > 0
          /\ \A j \in Id \ {i} : born'[j] = born[j] /\ born[j] < born'[i]
          /\ DOMAIN born' = Id
        BY EnqueuePlaces
    <1>6. QED
        BY <1>1, <1>4, <1>5, SameStore DEF Store!Accept

LEMMA PumpStarts ==
    ASSUME IInv, Pump
    PROVE  (\E i \in Id : Store!Start(i)) \/ UNCHANGED Store!vars
    <1>1. CASE UNCHANGED status
        BY <1>1 DEF Pump, Store!vars
    <1>2. CASE ~UNCHANGED status
        <2>1. /\ ~running /\ queue # <<>> /\ status[Head(queue)] = "pending"
              /\ status' = [status EXCEPT ![Head(queue)] = "processing"]
              /\ UNCHANGED <<born, told>>
            BY <1>2 DEF Pump, Start, Skip
        <2>2. /\ Len(queue) \in Nat /\ Len(queue) > 0 /\ DOMAIN queue = 1 .. Len(queue)
              /\ Head(queue) = queue[1] /\ queue[1] \in Id
              /\ \A n \in DOMAIN queue : queue[n] \in Id
            BY <2>1 DEF IInv, TypeOK
        <2>3. Processing = {}
            BY <2>1 DEF IInv, TypeOK, TaskIsInProcess
        <2>4. ASSUME NEW j \in Id, status[j] = "pending"
              PROVE  born[queue[1]] <= born[j]
            <3>1. PICK n \in DOMAIN queue : j = queue[n]
                BY <2>4 DEF IInv, QueueHoldsPending, InQueue
            <3>2. born[queue[1]] \in Nat /\ born[queue[n]] \in Nat
                BY <2>2 DEF IInv, TypeOK
            <3>3. n = 1 \/ (1 \in DOMAIN queue /\ 1 < n)
                BY <2>2
            <3>4. QED
                BY <3>1, <3>2, <3>3 DEF IInv, QueueHoldsPending
        <2>5. Store!Start(queue[1])
            BY <2>1, <2>2, <2>3, <2>4, SameStore DEF Store!Start
        <2>6. QED
            BY <2>2, <2>5
    <1>3. QED
        BY <1>1, <1>2

LEMMA VerifiedFinishes ==
    ASSUME IInv, Verified
    PROVE  \E i \in Id : Store!Finish(i)
    <1>1. PICK i \in Id, s \in Terminal :
              Processing = {i} /\ status' = [status EXCEPT ![i] = s]
        BY VerifiedEffect
    <1>2. UNCHANGED <<born, told>>
        BY DEF Verified
    <1>3. Store!Finish(i)
        BY <1>1, <1>2, SameStore DEF Store!Finish
    <1>4. QED
        BY <1>3

LEMMA PostTells ==
    ASSUME IInv, PostArrives
    PROVE  \E i \in Id : Store!Tell(i)
    <1>1. /\ at = "webhook" /\ told' = told \cup task /\ UNCHANGED <<status, born>>
        BY DEF PostArrives
    <1>2. PICK i \in task : TRUE
        BY <1>1 DEF IInv, TypeOK
    <1>3. task = {i} /\ i \in Id /\ i \notin told /\ status[i] \in Terminal \cup {"evicted"}
        BY <1>1, <1>2 DEF IInv, TypeOK, TaskIsInProcess
    <1>4. Store!Tell(i)
        BY <1>1, <1>3, SameStore DEF Store!Tell
    <1>5. QED
        BY <1>3, <1>4

LEMMA StepsImplement == IInv /\ [Next]_vars => [Store!Next]_(Store!vars)
    <1> SUFFICES ASSUME IInv, [Next]_vars PROVE Store!Next \/ UNCHANGED Store!vars
        OBVIOUS
    <1>1. CASE \E i \in Id, withUrl \in BOOLEAN : Enqueue(i, withUrl)
        BY <1>1, EnqueueAccepts DEF Store!Next
    <1>2. CASE Pump
        BY <1>2, PumpStarts DEF Store!Next
    <1>3. CASE Verified
        BY <1>3, VerifiedFinishes DEF Store!Next
    <1>4. CASE PostArrives
        BY <1>4, PostTells DEF Store!Next
    <1>5. CASE TaskEnds
        BY <1>5 DEF TaskEnds, Store!vars
    <1>6. CASE Restart
        BY <1>6, SameStore DEF Restart, Store!Lose, Store!Next
    <1>7. CASE UNCHANGED vars
        BY <1>7 DEF vars, Store!vars
    <1>8. QED
        BY <1>1, <1>2, <1>3, <1>4, <1>5, <1>6, <1>7 DEF Next

-----------------------------------------------------------------------------
(* Theorems *)

\* The types of the variables, and the flag `running` of the service agrees with what
\* its task awaits.
THEOREM JobsTypeCorrect == Spec => []TypeOK
    <1>1. IInv => TypeOK
        BY DEF IInv
    <1>2. QED
        BY <1>1, InvariantHolds, PTL

\* In every reachable state the queue of async-verify-jobs.service.ts holds exactly
\* the pending jobs, in the order of acceptance: evictions and restarts leave no
\* dangling id behind.
THEOREM QueueIsThePending == Spec => []QueueHoldsPending
    <1>1. IInv => QueueHoldsPending
        BY DEF IInv
    <1>2. QED
        BY <1>1, InvariantHolds, PTL

\* While jobs wait a pump is scheduled or a task is running that will schedule one.
THEOREM NoWakeupIsLost == Spec => []PumpScheduled
    <1>1. IInv => PumpScheduled
        BY DEF IInv
    <1>2. QED
        BY <1>1, InvariantHolds, PTL


\* The queue keeps the promise of the API that JobStore states: never more than Max
\* jobs, one at a time and first come first served, only answers are evicted, the
\* oldest first, and a callback is told at most once, of an answer.
THEOREM QueueImplementsStore == Spec => ImplementsStore
    <1>1. Init => Store!Init
        BY DEF Init, Store!Init
    <1>2. QED
        BY <1>1, InvariantHolds, StepsImplement, PTL DEF Spec, ImplementsStore, Store!Spec

=============================================================================
