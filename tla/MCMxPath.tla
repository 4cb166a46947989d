-------------------------------- MODULE MCMxPath --------------------------------
(* The replies MxPath is checked with: one of every class and semantic, with    *)
(* and without the texts that change what it means; a 554 that asks to try      *)
(* again; and refusals of MAIL.                                                 *)
EXTENDS MxPath

ToRcpt(code, what) == [at |-> "RCPT", code |-> code, says |-> what]
ToMail(code, what) == [at |-> "MAIL", code |-> code, says |-> what]

MCReplies ==
    {ToRcpt(c, {}) : c \in {250, 252, 421, 450, 452, 471, 550, 552, 554, 571}}
        \cup {ToRcpt(c, {"block"}) : c \in {421, 451, 553}}
        \cup {ToRcpt(551, {"routing"}), ToRcpt(551, {"nouser", "routing"}), ToRcpt(552, {"storage"})}
        \cup {ToRcpt(554, {"later"}), ToMail(550, {}), ToMail(450, {"later"})}

=============================================================================
