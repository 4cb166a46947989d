-------------------------------- MODULE Scoring --------------------------------
(***************************************************************************)
(* scoreVerificationResult (services/scoring.service.ts): the score and    *)
(* the deliverability class that go with a verification code and the       *)
(* reason in its details, as operators.                                    *)
(***************************************************************************)
EXTENDS Integers

Clamp(n) == IF n < 0 THEN 0 ELSE IF n > 100 THEN 100 ELSE n

\* Points: syntax and domain 10 each, mx 20, smtpConnected 15, and what is added
\* or taken away for the outcome.
OnRoute == 10 + 10 + 20
Connected == OnRoute + 15
Accepting == Connected + 35

FromScore(s) ==
    CASE s >= 90 -> "deliverable"
      [] s >= 60 /\ s < 90 -> "risky"
      [] s >= 30 /\ s < 60 -> "unknown"
      [] OTHER -> "undeliverable"

Scored(s, d) == [score |-> Clamp(s), deliverability |-> d]
Graded(s) == Scored(s, FromScore(Clamp(s)))
Unscored == [score |-> -1, deliverability |-> "omitted"]

\* Mutant: a greylisting is scored like other outcomes.
OmitsScoreFinal(code, reason) ==
    \/ code \in {"system_error", "retry_later", "provider_blocked"}
    \/ code = "unknown" /\ reason = "smtp_252"

\* shouldOmitScore: outcomes that say nothing about the mailbox.
OmitsScore(code, reason) ==
    \/ code \in {"system_error", "retry_later", "greylisted", "provider_blocked"}
    \/ code = "unknown" /\ reason = "smtp_252"

\* free: the provider gives away mailboxes; policy: what the station is configured
\* to say of role accounts and disposable domains.
ScoreOf(code, reason, free, policy) ==
    CASE OmitsScore(code, reason) -> Unscored
      [] code = "dead" -> Scored(0, "undeliverable")
      [] code = "undeliverable" ->
            IF reason \in {"smtp_550_553", "reject_not_local", "smtp_554", "smtp_5xx"}
            THEN Scored(Connected - 80, "undeliverable")
            ELSE Scored(0, "undeliverable")
      [] code = "invalid" -> Scored(Connected - 80, "undeliverable")
      [] code = "valid" -> Graded(IF free THEN Accepting - 5 ELSE Accepting)
      [] code = "catch_all" -> Scored(Accepting - 25, "risky")
      [] code = "role_account" ->
            IF policy = "undeliverable" THEN Scored(0, policy) ELSE Graded(OnRoute - 15)
      [] code = "disposable" ->
            IF policy = "undeliverable" THEN Scored(0, policy) ELSE Scored(65, "risky")
      [] code = "unknown" /\ reason = "smtp_skipped" -> Graded(OnRoute)
      [] code = "unknown" /\ reason \notin {"smtp_skipped", "smtp_252"} -> Scored(40, "unknown")
      [] code = "mx_unreachable" -> Scored(25, "undeliverable")
      [] OTHER -> Scored(30, "unknown")

=============================================================================
