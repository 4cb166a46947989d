------------------------------- MODULE BatchVerify -------------------------------
(***************************************************************************)
(* Verifications that share the process: runBatchVerify                    *)
(* (services/batch-verify.service.ts) with its two limiters of its own     *)
(* inside the limiter of the process (services/concurrency.service.ts).    *)
(* POST /v1/verify takes the last one directly, as a batch of one row does.*)
(*                                                                         *)
(* p-limit is external: it starts its tasks in the order they were given,  *)
(* each as soon as a slot is free.  A verification is one step: safeVerify *)
(* always returns, and what it does is the subject of the other modules.   *)
(***************************************************************************)
EXTENDS Integers, Sequences, FiniteSets, Functions

CONSTANTS
    Request,          \* the requests
    Options,          \* what the options of a row may be
    RowsOf,           \* request -> its rows, {email, opts}: opts over the global ones
    DomainOf,         \* email -> its domain ("_invalid" when it cannot be parsed)
    DomainLimit,      \* BATCH_DOMAIN_CONCURRENCY
    InnerLimit,       \* BATCH_INNER_PER_DOMAIN_CONCURRENCY
    MaxConcurrency    \* MAX_CONCURRENCY

Email == DOMAIN DomainOf
Rows == Seq([email : Email, opts : Options]) \ {<<>>}

ASSUME BatchAssumption ==
    /\ RowsOf \in [Request -> Rows]
    /\ DomainLimit \in Nat \ {0} /\ InnerLimit \in Nat \ {0} /\ MaxConcurrency \in Nat \ {0}

VARIABLES
    item,    \* request -> email -> what became of its verification
    line     \* the queue of the limiter of the process, {r, e}

batchVars == <<item, line>>

\* "waiting": for a slot of its group or for its group; "queued": in line; "done":
\* it has a result, a system_error if something threw.
Unfinished == {"waiting", "queued", "running"}
ItemState == {"none", "done"} \cup Unfinished

-----------------------------------------------------------------------------
(* The rows of a request *)

RowIds(r) == DOMAIN RowsOf[r]
Emails(r) == {RowsOf[r][i].email : i \in RowIds(r)}
IsRowOf(r, i, e) == RowsOf[r][i].email = e

\* Where the email is in uniqueOrder, and its group in byDomain: by first rows.
FirstRow ==
    [r \in Request |-> [e \in Emails(r) |->
        CHOOSE i \in RowIds(r) : IsRowOf(r, i, e) /\ \A j \in 1 .. i - 1 : ~IsRowOf(r, j, e)]]

InGroup(r, d) == {e \in Emails(r) : DomainOf[e] = d}
Domains == [r \in Request |-> {DomainOf[e] : e \in Emails(r)}]
GroupRow ==
    [r \in Request |-> [d \in Domains[r] |->
        CHOOSE i \in {FirstRow[r][e] : e \in InGroup(r, d)} :
            \A e \in InGroup(r, d) : i <= FirstRow[r][e]]]

\* Mutant: a later row of the same address overwrites the options.
OptsOfLast(r, e) ==
    RowsOf[r][CHOOSE i \in RowIds(r) :
                  IsRowOf(r, i, e) /\ \A j \in RowIds(r) : j > i => ~IsRowOf(r, j, e)].opts

\* firstSeen: an address is verified once, with the options of its first row.
OptsOf(r, e) == RowsOf[r][FirstRow[r][e]].opts

-----------------------------------------------------------------------------
(* The limiters of a batch.  st is the item states of the request. *)

Unsettled(st, r, d) == \E e \in InGroup(r, d) : st[e] \in Unfinished

\* Mutant: a group is not looked at again once it has taken its slots.
MayStartFirst(st, r, e) ==
    /\ Cardinality({d \in Domains[r] :
                       GroupRow[r][d] <= GroupRow[r][DomainOf[e]]}) <= DomainLimit
    /\ Cardinality({f \in InGroup(r, DomainOf[e]) :
                       FirstRow[r][f] <= FirstRow[r][e] /\ st[f] \in Unfinished}) <= InnerLimit

\* groupLimit and innerDomainLimit: the first DomainLimit groups that are not
\* settled run, and in each the first InnerLimit items that are not.
MayStart(st, r, e) ==
    /\ Cardinality({d \in Domains[r] :
                       GroupRow[r][d] <= GroupRow[r][DomainOf[e]] /\ Unsettled(st, r, d)}) <= DomainLimit
    /\ Cardinality({f \in InGroup(r, DomainOf[e]) :
                       FirstRow[r][f] <= FirstRow[r][e] /\ st[f] \in Unfinished}) <= InnerLimit

\* domainEntries, and in each emailsInGroup: the order in which the limiters get
\* their tasks.
Sooner(r, e, f) ==
    LET d == GroupRow[r][DomainOf[e]]
        g == GroupRow[r][DomainOf[f]]
    IN  d < g \/ (d = g /\ FirstRow[r][e] < FirstRow[r][f])

\* The limiters start what they now may: it gets in line, in the order of the tasks.
Advance(r, st, rest) ==
    LET starts == {e \in Emails(r) : st[e] = "waiting" /\ MayStart(st, r, e)}
    IN  /\ item' = [item EXCEPT ![r] = [e \in Email |-> IF e \in starts THEN "queued" ELSE st[e]]]
        /\ \E order \in [1 .. Cardinality(starts) -> starts] :
              /\ Range(order) = starts
              /\ \A i, j \in DOMAIN order : i < j => Sooner(r, order[i], order[j])
              /\ line' = rest \o [i \in DOMAIN order |-> [r |-> r, e |-> order[i]]]

-----------------------------------------------------------------------------
(* Steps *)

\* runBatchVerify, or the handler of POST /v1/verify, up to its first await.
Accept(r) ==
    Advance(r, [e \in Email |-> IF e \in Emails(r) THEN "waiting" ELSE "none"], line)

RunningItems == {x \in Request \X Email : item[x[1]][x[2]] = "running"}

\* Mutant: getVerifyLimiter makes a limiter for each request.
StartPerRequest ==
    /\ line # <<>>
    /\ Cardinality({x \in RunningItems : x[1] = Head(line).r}) < MaxConcurrency
    /\ item' = [item EXCEPT ![Head(line).r][Head(line).e] = "running"]
    /\ line' = Tail(line)

\* The limiter of the process starts the head of its queue.
Start ==
    /\ line # <<>>
    /\ Cardinality(RunningItems) < MaxConcurrency
    /\ item' = [item EXCEPT ![Head(line).r][Head(line).e] = "running"]
    /\ line' = Tail(line)

\* verifyItemNeverThrows: whatever happened the slots are given back.
Verified(r, e) ==
    /\ item[r][e] = "running"
    /\ Advance(r, [item[r] EXCEPT ![e] = "done"], line)

\* Mutant: the batch ends with its first result.
FinishedFirst(st) ==
    (\E e \in Email : st[e] = "done") \/ \A e \in Email : st[e] \notin Unfinished

Finished(st) == \A e \in Email : st[e] \notin Unfinished

\* The response to a request: one result per row, in the order of the rows.  One that
\* is not "done" would be the row's "missing result after batch (internal)".
Response(r, st) ==
    [i \in RowIds(r) |->
        LET e == RowsOf[r][i].email
        IN  [email |-> e, opts |-> OptsOf(r, e), by |-> r, result |-> st[e]]]

BatchInit ==
    /\ item = [r \in Request |-> [e \in Email |-> "none"]]
    /\ line = <<>>

-----------------------------------------------------------------------------
(* Properties *)

\* No verification is lost between the three limiters or started twice: the line
\* holds exactly the queued items, each once, and the process runs no more of them
\* than it may, whatever requests overlap.
LineHoldsTheQueued ==
    /\ {<<line[i].r, line[i].e>> : i \in DOMAIN line} =
          {x \in Request \X Email : item[x[1]][x[2]] = "queued"}
    /\ \A i, j \in DOMAIN line : line[i] = line[j] => i = j
    /\ Cardinality(RunningItems) <= MaxConcurrency

=============================================================================
