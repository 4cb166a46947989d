------------------------------- MODULE MCRequests -------------------------------
(* A small instance of Requests for TLC: a batch of five rows over two domains, *)
(* with an address twice under different options; its retry; and a batch of one  *)
(* row, as POST /v1/verify is, under the same header.                           *)
EXTENDS Requests

CONSTANTS batch, again, single

MCOptions == {"plain", "forced"}
Row(e, o) == [email |-> e, opts |-> o]

MCDomainOf == [a |-> "x", b |-> "x", c |-> "y", d |-> "x"]

MCBatch == <<Row("a", "plain"), Row("c", "plain"), Row("a", "forced"), Row("b", "plain"),
             Row("d", "plain")>>

MCRowsOf == [r \in Request |-> IF r = single THEN <<Row("c", "forced")>> ELSE MCBatch]

MCHeadOf ==
    [r \in Request |-> [tenant |-> "t", header |-> "h", path |-> "/v1/verify/batch"]]

=============================================================================
