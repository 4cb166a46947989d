-------------------------------- MODULE JobStore --------------------------------
(***************************************************************************)
(* What the async verification API promises of its jobs, without saying    *)
(* how: a bounded store of jobs that are worked off one at a time, in the  *)
(* order of their acceptance, whose answers stay until room is needed, and *)
(* which tell their callback at most once.  AsyncJobs implements it.       *)
(***************************************************************************)
EXTENDS Integers, FiniteSets

CONSTANTS
    Id,     \* job identifiers
    Max     \* ASYNC_JOBS_MAX

VARIABLES
    status,   \* job -> where it is in its life
    born,     \* job -> its place in the order of acceptance (0: none)
    told      \* the jobs whose callback was called

vars == <<status, born, told>>

Terminal == {"completed", "failed"}
Stored == {i \in Id : status[i] \in {"pending", "processing"} \cup Terminal}
With(s) == {i \in Id : status[i] = s}

Init ==
    /\ status = [i \in Id |-> "new"]
    /\ born = [i \in Id |-> 0]
    /\ told = {}

\* A new job is accepted while there is room, or by giving up the answer that
\* has been waiting longest.
Accept(i) ==
    /\ status[i] = "new"
    /\ \/ /\ Cardinality(Stored) < Max
          /\ status' = [status EXCEPT ![i] = "pending"]
       \/ /\ Cardinality(Stored) = Max
          /\ \E old \in {j \in Id : status[j] \in Terminal} :
                /\ \A j \in Id : status[j] \in Terminal => born[old] <= born[j]
                /\ status' = [status EXCEPT ![i] = "pending", ![old] = "evicted"]
    /\ born'[i] > 0
    /\ \A j \in Id \ {i} : born'[j] = born[j] /\ born[j] < born'[i]
    /\ DOMAIN born' = Id
    /\ UNCHANGED told

\* Work on a job starts when no other is worked on and none is older.
Start(i) ==
    /\ i \in With("pending")
    /\ With("processing") = {}
    /\ \A j \in With("pending") : born[i] <= born[j]
    /\ status' = [status EXCEPT ![i] = "processing"]
    /\ UNCHANGED <<born, told>>

Finish(i) ==
    /\ i \in With("processing")
    /\ \E s \in Terminal : status' = [status EXCEPT ![i] = s]
    /\ UNCHANGED <<born, told>>

Tell(i) ==
    /\ status[i] \in Terminal \cup {"evicted"}
    /\ i \notin told
    /\ told' = told \cup {i}
    /\ UNCHANGED <<status, born>>

\* The process exits: every job it stored is gone.
Lose ==
    /\ status' = [i \in Id |-> IF i \in Stored THEN "lost" ELSE status[i]]
    /\ UNCHANGED <<born, told>>

Next ==
    \/ \E i \in Id : Accept(i) \/ Start(i) \/ Finish(i) \/ Tell(i)
    \/ Lose

Spec == Init /\ [][Next]_vars

=============================================================================
