------------------------------- MODULE SmtpReply -------------------------------
(***************************************************************************)
(* What an SMTP reply or a failed session comes to: the classification of  *)
(* services/smtp-code-parser.service.ts and the mapping to a verification  *)
(* code of services/verification.service.ts, as operators.                 *)
(*                                                                         *)
(* A reply is the command it was read for, its code, and what its text     *)
(* says: "block" is isProviderBlockText; "nouser", "routing" and "storage" *)
(* are the patterns mapSmtpToResult looks for in the text of a 551 and a   *)
(* 552; "later" is a text that asks to try again, as greylisting does.     *)
(* The code reads neither "later" nor, once a session has returned, the    *)
(* command.                                                                *)
(***************************************************************************)
EXTENDS Integers

Hint == {"block", "nouser", "routing", "storage", "later"}

\* What ends a session that got an answer: any reply to RCPT, or a refusal of MAIL.
\* A line that is no status line has code 0.
Reply ==
    {r \in [at : {"MAIL", "RCPT"}, code : 0 .. 999, says : SUBSET Hint] :
        r.at = "MAIL" => r.code \notin 200 .. 299}

Blocks(r) == "block" \in r.says

-----------------------------------------------------------------------------
(* Classification *)

Semantic(r) ==
    CASE r.code \in {250, 251} -> "mailbox_ok"
      [] r.code = 252 -> "accept_deferred"
      [] r.code = 421 -> "service_unavailable"
      [] r.code = 450 -> "temp_mailbox"
      [] r.code = 451 -> "temp_local"
      [] r.code = 452 -> "insufficient_storage"
      [] r.code = 550 -> "reject_mailbox"
      [] r.code = 551 -> "reject_not_local"
      [] r.code = 552 -> "limit_exceeded"
      [] r.code = 553 -> "reject_invalid"
      [] r.code = 554 -> "transaction_failed"
      [] OTHER -> "other"

\* Mutant: the text is looked at for a rejected mailbox only.
ClassUnread(r) ==
    CASE r.code \in {252, 421, 552} -> "temporary"
      [] r.code \in 500 .. 599 \ {552} ->
            IF Blocks(r) /\ r.code = 550 THEN "provider_block" ELSE "permanent_reject"
      [] r.code \in 400 .. 499 \ {421} ->
            IF Blocks(r) /\ r.code \in {450, 451} THEN "provider_block" ELSE "temporary"
      [] r.code \in 200 .. 299 \ {252} -> "accept"
      [] OTHER -> "protocol_error"

\* Mutant: the whole 2xx range accepts, 252 included.
ClassEager(r) ==
    CASE r.code \in {421, 552} -> "temporary"
      [] r.code \in 500 .. 599 \ {552} ->
            IF Blocks(r) THEN "provider_block" ELSE "permanent_reject"
      [] r.code \in 400 .. 499 \ {421} ->
            IF Blocks(r) /\ r.code \in {450, 451} THEN "provider_block" ELSE "temporary"
      [] r.code \in 200 .. 299 -> "accept"
      [] OTHER -> "protocol_error"

\* classifySmtp.  A rejection whose text is about the station, not the mailbox,
\* is a block; of the 4xx only 450 and 451 are.
Class(r) ==
    CASE r.code \in {252, 421, 552} -> "temporary"
      [] r.code \in 500 .. 599 \ {552} ->
            IF Blocks(r) THEN "provider_block" ELSE "permanent_reject"
      [] r.code \in 400 .. 499 \ {421} ->
            IF Blocks(r) /\ r.code \in {450, 451} THEN "provider_block" ELSE "temporary"
      [] r.code \in 200 .. 299 \ {252} -> "accept"
      [] OTHER -> "protocol_error"

\* toRcpt makes a failed session of it.
NoReplyClass(r) == Class(r) = "protocol_error"

\* The reply is about this station or its rate: class provider_block, or
\* temporary with providerBlock set.
AboutStation(r) ==
    \/ Class(r) = "provider_block"
    \/ Class(r) = "temporary" /\ Blocks(r)

\* isTransientRcptSuitableForNextMx
SuitableForNextMx(r) ==
    /\ ~AboutStation(r)
    /\ Semantic(r) # "accept_deferred"
    /\ Class(r) = "temporary"

-----------------------------------------------------------------------------
(* Failures: {error, errno} of an mx_fail *)

Errno == {"none", "ECONNREFUSED", "EHOSTUNREACH", "ENETUNREACH", "ETIMEDOUT",
          "ECONNRESET", "EPIPE", "ECONNABORTED", "EOTHER"}

Failure == [error : {"connect", "timeout", "protocol"}, errno : Errno]

\* The errno values the catch clause of probeRcptUnscoped names.
Listed == {"ECONNREFUSED", "EHOSTUNREACH", "ENETUNREACH", "ETIMEDOUT", "ECONNRESET", "EPIPE"}

\* mapSmtpSocketErrno
SocketReason(f) ==
    CASE f.error = "timeout" -> "smtp_timeout"
      [] f.error = "protocol" -> "smtp_connect_failed"
      [] OTHER ->
            CASE f.errno = "ETIMEDOUT" -> "smtp_timeout"
              [] f.errno \in {"ECONNRESET", "EPIPE", "ECONNABORTED"} -> "smtp_connection_reset"
              [] f.errno \in {"EHOSTUNREACH", "ENETUNREACH"} -> "mx_unreachable"
              [] OTHER -> "smtp_connect_failed"

-----------------------------------------------------------------------------
(* Verification codes *)

\* {code, reason, counts}: the code and details.reason of the result, and what
\* recordMxPathFailure is called with (withMxPersistent).
Answer(code, reason, counts) == [code |-> code, reason |-> reason, counts |-> counts]
Plain(code, reason) == Answer(code, reason, "none")

\* Mutant: a timeout counts like the other failures of the path.
MapFailureCounting(f) ==
    Answer("retry_later",
           IF f.error = "protocol" THEN "smtp_protocol" ELSE SocketReason(f), "smtp")

\* mapSmtpToResult of an mx_fail: always to be tried again; a timeout says
\* nothing about the path and is not counted.
MapFailure(f) ==
    CASE SocketReason(f) = "smtp_timeout" -> Plain("retry_later", "smtp_timeout")
      [] f.error = "connect" /\ SocketReason(f) # "smtp_timeout" ->
            Answer("retry_later", SocketReason(f), "smtp")
      [] OTHER -> Answer("retry_later", "smtp_protocol", "smtp")

\* mapSmtpToResult of a 551 and of a 552, which depend on the text.
MapNotLocal(r) ==
    IF "routing" \in r.says /\ "nouser" \notin r.says
    THEN Plain("unknown", "smtp_551")
    ELSE Plain("undeliverable", "reject_not_local")

MapLimit(r) ==
    IF "storage" \in r.says
    THEN Plain("retry_later", "smtp_552_full")
    ELSE Plain("unknown", "smtp_risky")

\* By semantic, for the replies that neither block nor accept.
MapSemantic(r) ==
    CASE Semantic(r) = "accept_deferred" -> Plain("unknown", "smtp_252")
      [] Semantic(r) = "service_unavailable" -> Plain("retry_later", "smtp_421")
      [] Semantic(r) = "insufficient_storage" -> Plain("retry_later", "smtp_452")
      [] Semantic(r) \in {"temp_mailbox", "temp_local"} -> Plain("greylisted", "smtp_4xx_temporary")
      [] Semantic(r) \in {"reject_mailbox", "reject_invalid"} -> Plain("undeliverable", "smtp_550_553")
      [] Semantic(r) = "reject_not_local" -> MapNotLocal(r)
      [] Semantic(r) = "limit_exceeded" -> MapLimit(r)
      [] Semantic(r) = "transaction_failed" -> Plain("undeliverable", "smtp_554")
      [] OTHER -> IF Class(r) = "permanent_reject"
                  THEN Plain("undeliverable", "smtp_5xx")
                  ELSE Plain("greylisted", "none")

\* Mutant: the semantic is looked at before the text of the reply.
MapReplySemanticFirst(r) ==
    CASE Semantic(r) # "other" /\ Class(r) # "accept" -> MapSemantic(r)
      [] Semantic(r) = "other" /\ AboutStation(r) -> Plain("retry_later", "provider_smtp")
      [] Class(r) = "accept" -> Plain("valid", "none")
      [] OTHER -> MapSemantic(r)

\* mapSmtpToResult of a reply.
MapReply(r) ==
    CASE AboutStation(r) -> Plain("retry_later", "provider_smtp")
      [] ~AboutStation(r) /\ Class(r) = "accept" -> Plain("valid", "none")
      [] OTHER -> MapSemantic(r)

=============================================================================
