------------------------------ MODULE SmtpSession ------------------------------
(***************************************************************************)
(* One SMTP session with one mail host: runSmtpSession                     *)
(* (services/smtp.service.ts) and the line reader under it                 *)
(* (services/smtp-code-parser.service.ts).  The host, the network and      *)
(* Node's socket are external: a host answers commands in order, with one  *)
(* or several lines, and may close or reset the connection; lines arrive   *)
(* in chunks; a write on a closed socket is rejected; an "error" event     *)
(* nobody listens to and a rejection nobody handles end the process        *)
(* (process-safety.ts).                                                    *)
(***************************************************************************)
EXTENDS Integers, Sequences

CONSTANTS
    MaxLines,       \* bound: the longest reply of the host
    MaxMultiline    \* MAX_SMTP_MULTILINE_LINES

ASSUME SessionAssumption == MaxLines \in Nat \ {0} /\ MaxMultiline \in Nat

Command == {"banner", "ehlo", "helo", "mail", "rcpt"}

\* 220; any other 2xx; 4xx or 5xx; the rest, which classifySmtp calls
\* protocol_error and toRcpt turns into a failure.
Class == {"ready", "ok", "no", "odd"}
Success == {"ready", "ok"}
Line == [re : Command, class : Class, more : BOOLEAN, n : Nat]

VARIABLES
    pc,       \* "connect", "write", "wait" (a reader is registered), "line"
              \* (it was given one), "null" (it was given the end), "done"
    cmd,      \* the command whose reply is read
    taken,    \* lines of that reply so far
    got,      \* the line handed out last
    q,        \* LineReader.q
    ended,    \* LineReader.ended
    socket,   \* "connecting", "open", "closed" (by either side)
    exit,     \* why the process ended: "no", "quit", "error"
    result,   \* [kind, class, re] the session returned or threw
    asked,    \* commands the host has not answered
    wire,     \* lines on their way
    host      \* [closed, lines]: it has closed its side; lines it has sent

clientVars == <<pc, cmd, taken, got, q, ended, socket, exit, result>>
hostVars == <<asked, wire, host>>
vars == <<clientVars, hostVars>>

NoLine == [re |-> "banner", class |-> "odd", more |-> FALSE, n |-> 0]
NoResult == [kind |-> "none", line |-> NoLine]

-----------------------------------------------------------------------------
(* Steps of the client; one of them ends every action of the session *)

\* done(): QUIT is written and forgotten; on a socket that is closed already
\* its promise is rejected, which no try block around "void" can catch.
Done(kind) ==
    /\ pc' = "done"
    /\ result' = [kind |-> kind, line |-> IF kind = "rcpt" THEN got ELSE NoLine]
    /\ exit' = IF socket = "closed" THEN "quit" ELSE exit
    /\ UNCHANGED <<cmd, taken, q, ended, socket, hostVars>>

\* Mutant: the socket is left open when the session throws.
ThrowOpen(kind) ==
    /\ pc' = "done"
    /\ result' = [kind |-> kind, line |-> NoLine]
    /\ ended' = TRUE
    /\ UNCHANGED <<cmd, taken, q, socket, exit, hostVars>>

\* The catch clause.
Throw(kind) ==
    /\ pc' = "done"
    /\ result' = [kind |-> kind, line |-> NoLine]
    /\ ended' = TRUE
    /\ socket' = "closed"
    /\ UNCHANGED <<cmd, taken, q, exit, hostVars>>

\* await writeSocket
Write(c) ==
    \/ /\ socket = "open"
       /\ pc' = "write"
       /\ cmd' = c
       /\ asked' = Append(asked, c)
       /\ taken' = 0
       /\ UNCHANGED <<q, ended, socket, exit, result, wire, host>>
    \/ socket = "closed" /\ Throw("error")

\* readLine: a queued line, the end, or a reader that waits.
ReadLine ==
    \/ /\ q # <<>>
       /\ pc' = "line"
       /\ got' = Head(q)
       /\ q' = Tail(q)
    \/ /\ q = <<>>
       /\ pc' = IF ended THEN "null" ELSE "wait"
       /\ UNCHANGED <<got, q>>

\* The reply to cmd is an error: closed by the host, or longer than allowed.
ReplyError ==
    \/ cmd = "ehlo" /\ Write("helo")
    \/ cmd # "ehlo" /\ Done("protocol")

\* toRcpt
Verdict ==
    \/ got.class = "odd" /\ Done("protocol")
    \/ got.class # "odd" /\ Done("rcpt")

\* Mutant: the reply to MAIL, whatever it is, is taken for the verdict.
ReplyAccepting ==
    \/ cmd = "banner" /\ got.class = "ready" /\ Write("ehlo")
    \/ cmd = "banner" /\ got.class # "ready" /\ Done("protocol")
    \/ cmd = "ehlo" /\ Write("mail")
    \/ cmd = "helo" /\ Write("mail")
    \/ cmd \in {"mail", "rcpt"} /\ Verdict

\* The reply to cmd is complete, with the class of its last line.
Reply ==
    \/ cmd = "banner" /\ got.class = "ready" /\ Write("ehlo")
    \/ cmd = "banner" /\ got.class # "ready" /\ Done("protocol")
    \/ cmd = "ehlo" /\ got.class \in Success /\ Write("mail")
    \/ cmd = "ehlo" /\ got.class \notin Success /\ Write("helo")
    \/ cmd = "helo" /\ got.class \in Success /\ Write("mail")
    \/ cmd = "helo" /\ got.class \notin Success /\ Done("protocol")
    \/ cmd = "mail" /\ got.class \in Success /\ Write("rcpt")
    \/ cmd = "mail" /\ got.class \notin Success /\ Verdict
    \/ cmd = "rcpt" /\ Verdict

-----------------------------------------------------------------------------
(* Actions.  What a handed-out line resumes runs before the next event.  *)

Running == exit = "no" /\ pc # "done"
Resumed == pc \in {"line", "null"}

Connected ==
    /\ Running
    /\ pc = "connect"
    /\ socket' = "open"
    /\ pc' = "wait"
    /\ asked' = <<"banner">>
    /\ UNCHANGED <<cmd, taken, got, q, ended, exit, result, wire, host>>

\* Refused, unreachable, or out of SMTP_CONNECT_TIMEOUT_MS: the socket of an
\* attempt that timed out is not closed, and may still connect (LateConnect).
NotConnected ==
    /\ Running
    /\ pc = "connect"
    /\ pc' = "done"
    /\ \/ socket' = "closed" /\ result' = [kind |-> "error", line |-> NoLine]
       \/ UNCHANGED socket /\ result' = [kind |-> "timeout", line |-> NoLine]
    /\ UNCHANGED <<cmd, taken, got, q, ended, exit, hostVars>>

LateConnect ==
    /\ exit = "no"
    /\ pc = "done"
    /\ socket = "connecting"
    /\ socket' \in {"open", "closed"}
    /\ UNCHANGED <<pc, cmd, taken, got, q, ended, exit, result, hostVars>>

\* The write went out: the reply is read.
Written ==
    /\ Running
    /\ pc = "write"
    /\ ReadLine
    /\ UNCHANGED <<cmd, taken, ended, socket, exit, result, hostVars>>

\* readSmtpResponse is given a line: it is the last one of the reply, or one
\* more is read unless the reply is too long.
TakeLine ==
    /\ Running
    /\ pc = "line"
    /\ \/ ~got.more /\ Reply /\ UNCHANGED got
       \/ got.more /\ taken + 1 > MaxMultiline /\ ReplyError /\ UNCHANGED got
       \/ /\ got.more
          /\ taken + 1 <= MaxMultiline
          /\ taken' = taken + 1
          /\ ReadLine
          /\ UNCHANGED <<cmd, ended, socket, exit, result, hostVars>>

TakeNull ==
    /\ Running
    /\ pc = "null"
    /\ ReplyError
    /\ UNCHANGED got

\* Mutant: a chunk replaces what is queued.
DeliverReplacing ==
    /\ Running
    /\ socket = "open"
    /\ pc \in {"write", "wait"}
    /\ \E k \in 1 .. Len(wire) :
          /\ q' = SubSeq(wire, 1, k)
          /\ wire' = SubSeq(wire, k + 1, Len(wire))
    /\ \/ pc = "wait" /\ pc' = "line" /\ got' = Head(wire)
       \/ pc # "wait" /\ UNCHANGED <<pc, got>>
    /\ UNCHANGED <<cmd, taken, ended, socket, exit, result, asked, host>>

\* pushData: every line of the chunk is queued; the first is also given to the
\* reader that waits, and stays queued.
Deliver ==
    /\ Running
    /\ socket = "open"
    /\ pc \in {"write", "wait"}
    /\ \E k \in 1 .. Len(wire) :
          /\ q' = q \o SubSeq(wire, 1, k)
          /\ wire' = SubSeq(wire, k + 1, Len(wire))
    /\ \/ pc = "wait" /\ pc' = "line" /\ got' = Head(wire)
       \/ pc # "wait" /\ UNCHANGED <<pc, got>>
    /\ UNCHANGED <<cmd, taken, ended, socket, exit, result, asked, host>>

\* "end" and "close" events, the idle timeout and the timer of the session:
\* the socket is gone, and the reader is told.
SocketGone ==
    /\ Running
    /\ ~Resumed
    /\ socket = "open"
    /\ socket' = "closed"
    /\ ended' = TRUE
    /\ pc' = IF pc = "wait" THEN "null" ELSE pc
    /\ UNCHANGED <<cmd, taken, got, q, exit, result, hostVars>>

HostClosed == host.closed /\ wire = <<>> /\ SocketGone
SessionTimer == SocketGone

\* withTimeout around readLine.
ReadTimeout ==
    /\ Running
    /\ pc = "wait"
    /\ Throw("timeout")
    /\ UNCHANGED got

\* 30 ms after done().
Cleanup ==
    /\ exit = "no"
    /\ pc = "done"
    /\ socket = "open"
    /\ result.kind \in {"rcpt", "protocol"}
    /\ socket' = "closed"
    /\ ended' = TRUE
    /\ UNCHANGED <<pc, cmd, taken, got, q, exit, result, hostVars>>

\* The host answers the next command it received.
HostReplies ==
    /\ asked # <<>>
    /\ ~host.closed
    /\ \E c \in IF Head(asked) = "banner" THEN {"ready", "no"} ELSE {"ok", "no", "odd"}, k \in 1 .. MaxLines :
          /\ wire' = wire \o [i \in 1 .. k |->
                [re |-> Head(asked), class |-> c, more |-> i < k, n |-> host.lines + i]]
          /\ host' = [host EXCEPT !.lines = @ + k]
    /\ asked' = Tail(asked)
    /\ UNCHANGED clientVars

HostCloses ==
    /\ socket = "open"
    /\ ~host.closed
    /\ host' = [host EXCEPT !.closed = TRUE]
    /\ UNCHANGED <<clientVars, asked, wire>>

\* A reset after the connection is made: onConnect has removed the only
\* listener for "error".
HostResets ==
    /\ exit = "no"
    /\ socket = "open"
    /\ ~Resumed
    /\ exit' = "error"
    /\ UNCHANGED <<pc, cmd, taken, got, q, ended, socket, result, hostVars>>

Init ==
    /\ pc = "connect"
    /\ cmd = "banner"
    /\ taken = 0
    /\ got = NoLine
    /\ q = <<>>
    /\ ended = FALSE
    /\ socket = "connecting"
    /\ exit = "no"
    /\ result = NoResult
    /\ asked = <<>>
    /\ wire = <<>>
    /\ host = [closed |-> FALSE, lines |-> 0]

Next ==
    \/ Connected \/ NotConnected \/ LateConnect
    \/ Written \/ TakeLine \/ TakeNull
    \/ Deliver \/ HostClosed \/ SessionTimer \/ ReadTimeout \/ Cleanup
    \/ HostReplies \/ HostCloses \/ HostResets

\* Connecting ends one way or the other, writes are called back, resolved
\* promises are resumed, and timers fire.  Nothing is assumed of the host.
Fairness ==
    /\ WF_vars(Connected \/ NotConnected)
    /\ WF_vars(Written)
    /\ WF_vars(TakeLine)
    /\ WF_vars(TakeNull)
    /\ WF_vars(ReadTimeout)
    /\ WF_vars(Cleanup)

Spec == Init /\ [][Next]_vars /\ Fairness

-----------------------------------------------------------------------------
(* Properties *)

\* The reader loses nothing and keeps the order: the line handed out next is the
\* one handed out last or the one after it, however the lines were cut into
\* chunks and whenever the connection went away.
NothingSkipped ==
    [][got' # got => got'.n = got.n + 1]_vars

\* An address is never called accepted on a session that did not get as far as
\* its RCPT, and a verdict is always read from the last line of a reply.  Of which
\* command's reply is the matter of VerdictIsOwnReply.
AcceptedAfterRcpt ==
    result.kind = "rcpt" =>
        /\ ~result.line.more
        /\ result.line.class \in Success => cmd = "rcpt"

\* A session that was given its connection ends and gives it back, whatever the
\* host does or fails to do.
ConnectionReleased ==
    socket = "open" /\ pc # "done" ~> exit # "no" \/ (pc = "done" /\ socket = "closed")

\* The verdict is the reply to RCPT, or the reply that refused MAIL: "valid"
\* means that RCPT was accepted (README.md:365).  The code does not keep this.
VerdictIsOwnReply ==
    result.kind = "rcpt" =>
        \/ result.line.re = "rcpt"
        \/ result.line.re = "mail" /\ result.line.class \notin Success

\* A QUIT that cannot be written is of no consequence ("catch { // ignore }",
\* smtp.service.ts:106).  The code does not keep this.
QuitFailureIgnored == exit # "quit"

=============================================================================
