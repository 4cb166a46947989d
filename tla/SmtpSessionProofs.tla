--------------------------- MODULE SmtpSessionProofs ---------------------------
(* Theorems about SmtpSession, for replies and chunks of every length.         *)
EXTENDS SmtpSession, SequenceTheorems, TLAPS

-----------------------------------------------------------------------------
(* The verdict *)

\* A session that is under way has no result; the one that ends with a verdict
\* leaves the line it was read from and the command it had got to.
VerdictInv ==
    /\ pc # "done" => result = NoResult
    /\ AcceptedAfterRcpt

\* A client step that ends the session with something else than a verdict.
LEMMA NoVerdict ==
    ASSUME NEW kind, kind # "rcpt", result' = [kind |-> kind, line |-> NoLine], pc' = "done"
    PROVE  VerdictInv'
    BY DEF VerdictInv, AcceptedAfterRcpt

LEMMA WriteKeepsVerdict ==
    ASSUME VerdictInv, pc # "done", NEW c, Write(c)
    PROVE  VerdictInv'
    <1>1. CASE Throw("error")
        BY <1>1, NoVerdict DEF Throw
    <1>2. CASE pc' = "write" /\ UNCHANGED result
        BY <1>2 DEF VerdictInv, AcceptedAfterRcpt, NoResult
    <1>3. QED
        BY <1>1, <1>2 DEF Write

LEMMA ReplyErrorKeepsVerdict ==
    ASSUME VerdictInv, pc # "done", ReplyError
    PROVE  VerdictInv'
    <1>1. CASE Done("protocol")
        BY <1>1, NoVerdict DEF Done
    <1>2. CASE Write("helo")
        BY <1>2, WriteKeepsVerdict
    <1>3. QED
        BY <1>1, <1>2 DEF ReplyError

\* The verdict is taken from the line the reply ended with.
LEMMA VerdictIsSound ==
    ASSUME Verdict, ~got.more, got.class \in Success => cmd = "rcpt"
    PROVE  VerdictInv'
    <1>1. CASE Done("protocol")
        BY <1>1, NoVerdict DEF Done
    <1>2. CASE Done("rcpt")
        <2>1. result' = [kind |-> "rcpt", line |-> got] /\ cmd' = cmd /\ pc' = "done"
            BY <1>2 DEF Done
        <2>2. QED
            BY <2>1 DEF VerdictInv, AcceptedAfterRcpt
    <1>3. QED
        BY <1>1, <1>2 DEF Verdict

LEMMA ReplyKeepsVerdict ==
    ASSUME VerdictInv, pc # "done", ~got.more, Reply
    PROVE  VerdictInv'
    <1>1. CASE Done("protocol")
        BY <1>1, NoVerdict DEF Done
    <1>2. CASE \E c : Write(c)
        BY <1>2, WriteKeepsVerdict
    <1>3. CASE Verdict /\ (cmd = "rcpt" \/ got.class \notin Success)
        BY <1>3, VerdictIsSound
    <1>4. QED
        BY <1>1, <1>2, <1>3 DEF Reply

LEMMA TakeKeepsVerdict ==
    ASSUME VerdictInv, TakeLine \/ TakeNull
    PROVE  VerdictInv'
    <1>0. pc # "done"
        BY DEF TakeLine, TakeNull, Running
    <1>1. CASE ~got.more /\ Reply
        BY <1>0, <1>1, ReplyKeepsVerdict
    <1>2. CASE ReplyError
        BY <1>0, <1>2, ReplyErrorKeepsVerdict
    <1>3. CASE ReadLine /\ UNCHANGED <<cmd, result>>
        BY <1>0, <1>3 DEF ReadLine, VerdictInv, AcceptedAfterRcpt, NoResult
    <1>4. QED
        BY <1>1, <1>2, <1>3 DEF TakeLine, TakeNull

\* The other steps leave the result alone, or end the session without a verdict.
LEMMA OthersKeepVerdict ==
    ASSUME VerdictInv, [Next]_vars, ~TakeLine, ~TakeNull
    PROVE  VerdictInv'
    <1>1. CASE UNCHANGED <<pc, cmd, result>>
        BY <1>1 DEF VerdictInv, AcceptedAfterRcpt
    <1>2. CASE pc # "done" /\ UNCHANGED <<cmd, result>>
        BY <1>2 DEF VerdictInv, AcceptedAfterRcpt, NoResult
    <1>3. CASE Connected \/ Written \/ Deliver \/ HostClosed \/ SessionTimer
        BY <1>2, <1>3 DEF Connected, Written, Deliver, HostClosed, SessionTimer, SocketGone, Running
    <1>4. CASE NotConnected
        BY <1>4, NoVerdict DEF NotConnected
    <1>5. CASE ReadTimeout
        BY <1>5, NoVerdict DEF ReadTimeout, Throw
    <1>6. CASE LateConnect \/ Cleanup \/ HostResets
        BY <1>1, <1>6 DEF LateConnect, Cleanup, HostResets
    <1>7. CASE HostReplies \/ HostCloses \/ UNCHANGED vars
        BY <1>1, <1>7 DEF HostReplies, HostCloses, vars, clientVars
    <1>8. QED
        BY <1>3, <1>4, <1>5, <1>6, <1>7 DEF Next

\* AcceptedAfterRcpt: no path through the replies, multi-line or cut short, ends
\* with an accepted verdict before RCPT was written.  The reply that was read may be that
\* of an earlier command: VerdictIsOwnReply does not hold.
THEOREM VerdictsAreEarned == Spec => []AcceptedAfterRcpt
    <1>1. Init => VerdictInv
        BY DEF Init, VerdictInv, AcceptedAfterRcpt, NoResult
    <1>2. VerdictInv /\ [Next]_vars => VerdictInv'
        BY TakeKeepsVerdict, OthersKeepVerdict
    <1>3. VerdictInv => AcceptedAfterRcpt
        BY DEF VerdictInv
    <1>4. QED
        BY <1>1, <1>2, <1>3, PTL DEF Spec

-----------------------------------------------------------------------------
(* The lines *)

LinesTyped ==
    /\ q \in Seq(Line)
    /\ wire \in Seq(Line)
    /\ got \in Line
    /\ asked \in Seq(Command)
    /\ host.lines \in Nat
    /\ host = [closed |-> host.closed, lines |-> host.lines]

\* How many lines are neither queued nor on their way any more.
Taken == host.lines - (Len(q) + Len(wire))

\* The lines between the session and the host are the last ones the host sent, in
\* order.  The line handed out last is the one before them, or it is still at
\* the head of the queue: pushData gives it to the reader and queues it as well.
LinesInv ==
    /\ LinesTyped
    /\ \A i \in 1 .. Len(q) : q[i].n = Taken + i
    /\ \A i \in 1 .. Len(wire) : wire[i].n = (Taken + Len(q)) + i
    /\ got.n = Taken \/ (q # <<>> /\ got = Head(q))
    /\ pc \in {"connect", "wait"} => q = <<>>

\* What a step may do to the line handed out last.
NextOne == got' = got \/ got'.n = got.n + 1

\* Nothing moves between the host and the session.
LEMMA StillLines ==
    ASSUME LinesInv, UNCHANGED <<got, q, wire, asked>>,
           host'.lines = host.lines, host' = [closed |-> host'.closed, lines |-> host'.lines],
           pc' \in {"connect", "wait"} => q = <<>>
    PROVE  LinesInv' /\ NextOne
    BY DEF LinesInv, LinesTyped, Taken, NextOne

\* A command is written: one more reply to come.
LEMMA WriteLines ==
    ASSUME LinesInv, NEW c \in Command, Write(c), UNCHANGED got
    PROVE  LinesInv' /\ NextOne
    <1>1. /\ UNCHANGED <<q, wire, host>> /\ pc' \notin {"connect", "wait"}
          /\ asked' = Append(asked, c) \/ asked' = asked
        BY DEF Write, Throw, hostVars
    <1>2. asked' \in Seq(Command)
        <2>1. asked \in Seq(Command)
            BY DEF LinesInv, LinesTyped
        <2>2. Append(asked, c) \in Seq(Command)
            BY <2>1
        <2>3. QED
            BY <1>1, <2>1, <2>2
    <1>3. LinesTyped'
        BY <1>1, <1>2 DEF LinesInv, LinesTyped
    <1>4. QED
        BY <1>1, <1>3 DEF LinesInv, Taken, NextOne

LEMMA DoneLines ==
    ASSUME LinesInv, NEW kind, Done(kind) \/ Throw(kind), UNCHANGED got
    PROVE  LinesInv' /\ NextOne
    <1>1. UNCHANGED <<q, wire, asked, host>> /\ pc' = "done"
        BY DEF Done, Throw, hostVars
    <1>2. host' = [closed |-> host'.closed, lines |-> host'.lines] /\ host'.lines = host.lines
        BY <1>1 DEF LinesInv, LinesTyped
    <1>3. QED
        BY <1>1, <1>2, StillLines

\* A line is taken from the queue: the next one, or the one handed out already.
LEMMA ReadLineLines ==
    ASSUME LinesInv, ReadLine, UNCHANGED <<wire, asked, host>>
    PROVE  LinesInv' /\ NextOne
    <1>0. /\ q \in Seq(Line) /\ wire \in Seq(Line) /\ host.lines \in Nat
          /\ Len(q) \in Nat /\ Len(wire) \in Nat
        BY DEF LinesInv, LinesTyped
    <1>1. CASE q # <<>> /\ pc' = "line" /\ got' = Head(q) /\ q' = Tail(q)
        <2>1. /\ Len(q) > 0 /\ Head(q) = q[1] /\ Head(q) \in Line
              /\ Tail(q) \in Seq(Line) /\ Len(Tail(q)) = Len(q) - 1
              /\ \A i \in 1 .. Len(q) - 1 : Tail(q)[i] = q[i + 1]
            BY <1>0, <1>1
        <2>2. Taken \in Int /\ Taken' = Taken + 1
            BY <1>0, <1>1, <2>1 DEF Taken
        <2>3. got'.n = Taken + 1 /\ 1 \in 1 .. Len(q)
            BY <1>0, <1>1, <2>1 DEF LinesInv
        <2>4. got.n = Taken \/ got = q[1]
            BY <2>1 DEF LinesInv
        <2>5. NextOne
            BY <1>1, <2>1, <2>3, <2>4 DEF NextOne
        <2>6. LinesTyped'
            BY <1>1, <2>1 DEF LinesInv, LinesTyped
        <2>7. \A i \in 1 .. Len(q') : q'[i].n = Taken' + i
            <3> SUFFICES ASSUME NEW i \in 1 .. Len(q) - 1
                         PROVE  q[i + 1].n = Taken' + i
                BY <1>1, <2>1
            <3>1. i + 1 \in 1 .. Len(q)
                BY <1>0
            <3>2. q[i + 1].n = Taken + (i + 1)
                BY <3>1 DEF LinesInv
            <3>3. QED
                BY <2>2, <3>2
        <2>8. \A i \in 1 .. Len(wire') : wire'[i].n = (Taken' + Len(q')) + i
            <3> SUFFICES ASSUME NEW i \in 1 .. Len(wire)
                         PROVE  wire[i].n = (Taken' + (Len(q) - 1)) + i
                BY <1>1, <2>1
            <3>1. wire[i].n = (Taken + Len(q)) + i
                BY DEF LinesInv
            <3>2. QED
                BY <1>0, <2>2, <3>1
        <2>9. got'.n = Taken'
            BY <2>2, <2>3
        <2>10. QED
            BY <1>1, <2>5, <2>6, <2>7, <2>8, <2>9 DEF LinesInv
    <1>2. CASE q = <<>> /\ UNCHANGED <<got, q>>
        BY <1>2, StillLines DEF LinesInv, LinesTyped
    <1>3. QED
        BY <1>1, <1>2 DEF ReadLine

\* A chunk arrives: the waiting reader is given its first line.
LEMMA DeliverLines ==
    ASSUME LinesInv, Deliver
    PROVE  LinesInv' /\ NextOne
    <1>0. /\ q \in Seq(Line) /\ wire \in Seq(Line) /\ host.lines \in Nat
          /\ Len(q) \in Nat /\ Len(wire) \in Nat /\ UNCHANGED <<asked, host>>
        <2>1. q \in Seq(Line) /\ wire \in Seq(Line) /\ host.lines \in Nat
            BY DEF LinesInv, LinesTyped
        <2>2. UNCHANGED <<asked, host>>
            BY DEF Deliver
        <2>3. QED
            BY <2>1, <2>2
    <1>1. PICK k \in 1 .. Len(wire) :
              /\ q' = q \o SubSeq(wire, 1, k)
              /\ wire' = SubSeq(wire, k + 1, Len(wire))
        BY DEF Deliver
    <1> DEFINE chunk == SubSeq(wire, 1, k)
               rest == SubSeq(wire, k + 1, Len(wire))
    <1>2. /\ chunk \in Seq(Line) /\ Len(chunk) = k
          /\ \A i \in 1 .. k : chunk[i] = wire[i]
        BY <1>0
    <1>3. /\ rest \in Seq(Line) /\ Len(rest) = Len(wire) - k
          /\ \A i \in 1 .. Len(wire) - k : rest[i] = wire[k + i]
        BY <1>0
    <1> HIDE DEF chunk, rest
    <1>4. /\ q' \in Seq(Line) /\ Len(q') = Len(q) + k
          /\ \A i \in 1 .. Len(q') : q'[i] = IF i <= Len(q) THEN q[i] ELSE wire[i - Len(q)]
        <2>1. q' = q \o chunk
            BY <1>1 DEF chunk
        <2>2. /\ q \o chunk \in Seq(Line) /\ Len(q \o chunk) = Len(q) + Len(chunk)
              /\ \A i \in 1 .. Len(q) + Len(chunk) :
                     (q \o chunk)[i] = IF i <= Len(q) THEN q[i] ELSE chunk[i - Len(q)]
            BY <1>0, <1>2, ConcatProperties
        <2>3. \A i \in 1 .. Len(q) + k : i <= Len(q) \/ i - Len(q) \in 1 .. k
            BY <1>0
        <2>4. QED
            BY <1>2, <2>1, <2>2, <2>3
    <1>5. /\ wire' \in Seq(Line) /\ Len(wire') = Len(wire) - k
          /\ \A i \in 1 .. Len(wire) - k : wire'[i] = wire[k + i]
        BY <1>1, <1>3 DEF rest
    <1>6. Taken \in Int /\ Taken' = Taken
        BY <1>0, <1>4, <1>5 DEF Taken
    <1>7. Head(wire) = wire[1] /\ 1 \in 1 .. Len(wire) /\ wire[1] \in Line
        BY <1>0
    <1>8. \A i \in 1 .. Len(q') : q'[i].n = Taken' + i
        <2> SUFFICES ASSUME NEW i \in 1 .. Len(q')
                     PROVE  q'[i].n = Taken + i
            BY <1>6
        <2>1. CASE i <= Len(q)
            BY <1>0, <1>4, <2>1 DEF LinesInv
        <2>2. CASE ~(i <= Len(q))
            <3>1. i - Len(q) \in 1 .. Len(wire) /\ q'[i] = wire[i - Len(q)]
                BY <1>0, <1>4, <2>2
            <3>2. q'[i].n = (Taken + Len(q)) + (i - Len(q))
                BY <3>1 DEF LinesInv
            <3>3. QED
                BY <1>0, <1>6, <3>2
        <2>3. QED
            BY <2>1, <2>2
    <1>9. \A i \in 1 .. Len(wire') : wire'[i].n = (Taken' + Len(q')) + i
        <2> SUFFICES ASSUME NEW i \in 1 .. Len(wire) - k
                     PROVE  wire[k + i].n = (Taken + (Len(q) + k)) + i
            BY <1>4, <1>5, <1>6
        <2>1. k + i \in 1 .. Len(wire)
            BY <1>0
        <2>2. wire[k + i].n = (Taken + Len(q)) + (k + i)
            BY <2>1 DEF LinesInv
        <2>3. QED
            BY <1>0, <1>6, <2>2
    <1>10. CASE pc = "wait" /\ pc' = "line" /\ got' = Head(wire)
        <2>1. q = <<>> /\ Len(q) = 0
            BY <1>10 DEF LinesInv
        <2>2. got.n = Taken
            BY <2>1 DEF LinesInv
        <2>3. got'.n = got.n + 1
            BY <1>6, <1>7, <1>10, <2>1, <2>2 DEF LinesInv
        <2>4. q' # <<>> /\ Head(q') = q'[1] /\ q'[1] = wire[1]
            BY <1>0, <1>4, <2>1
        <2>5. LinesTyped'
            BY <1>0, <1>4, <1>5, <1>7, <1>10 DEF LinesInv, LinesTyped
        <2>6. QED
            BY <1>7, <1>8, <1>9, <1>10, <2>3, <2>4, <2>5 DEF LinesInv, NextOne
    <1>11. CASE pc # "wait" /\ UNCHANGED <<pc, got>>
        <2>1. pc' \notin {"connect", "wait"}
            BY <1>11 DEF Deliver
        <2>2. got.n = Taken \/ (q' # <<>> /\ got = Head(q'))
            <3>1. ASSUME q # <<>>, got = Head(q)
                  PROVE  q' # <<>> /\ Head(q') = got
                <4>1. Len(q) > 0 /\ Head(q) = q[1]
                    BY <1>0, <3>1
                <4>2. Len(q') > 0 /\ q'[1] = q[1] /\ q' # <<>>
                    BY <1>0, <1>4, <4>1
                <4>3. Head(q') = q'[1]
                    BY <1>4, <4>2
                <4>4. QED
                    BY <3>1, <4>1, <4>2, <4>3
            <3>2. QED
                BY <3>1 DEF LinesInv
        <2>3. LinesTyped'
            BY <1>0, <1>4, <1>5, <1>11 DEF LinesInv, LinesTyped
        <2>4. QED
            BY <1>6, <1>8, <1>9, <1>11, <2>1, <2>2, <2>3 DEF LinesInv, NextOne
    <1>12. QED
        BY <1>10, <1>11 DEF Deliver

\* The host sends the lines of one reply.
LEMMA HostRepliesLines ==
    ASSUME LinesInv, HostReplies
    PROVE  LinesInv' /\ NextOne
    <1>0. /\ q \in Seq(Line) /\ wire \in Seq(Line) /\ host.lines \in Nat
          /\ Len(q) \in Nat /\ Len(wire) \in Nat /\ asked \in Seq(Command) /\ asked # <<>>
        <2>1. q \in Seq(Line) /\ wire \in Seq(Line) /\ host.lines \in Nat /\ asked \in Seq(Command)
            BY DEF LinesInv, LinesTyped
        <2>2. asked # <<>>
            BY DEF HostReplies
        <2>3. QED
            BY <2>1, <2>2
    <1>1. PICK c \in Class, k \in 1 .. MaxLines :
              /\ wire' = wire \o [i \in 1 .. k |->
                    [re |-> Head(asked), class |-> c, more |-> i < k, n |-> host.lines + i]]
              /\ host' = [host EXCEPT !.lines = @ + k]
        BY DEF HostReplies, Class
    <1>2. /\ UNCHANGED <<pc, got, q>> /\ asked' = Tail(asked)
        BY DEF HostReplies, clientVars
    <1>3. Head(asked) \in Command /\ Tail(asked) \in Seq(Command)
        BY <1>0, HeadTailProperties
    <1>4. k \in Nat
        BY SessionAssumption
    <1> DEFINE reply == [i \in 1 .. k |->
                   [re |-> Head(asked), class |-> c, more |-> i < k, n |-> host.lines + i]]
    <1>5. reply \in [1 .. k -> Line]
        <2> SUFFICES ASSUME NEW i \in 1 .. k
                     PROVE  [re |-> Head(asked), class |-> c, more |-> i < k, n |-> host.lines + i] \in Line
            OBVIOUS
        <2>1. (i < k) \in BOOLEAN
            OBVIOUS
        <2>2. host.lines + i \in Nat
            BY <1>0
        <2>3. QED
            BY <1>3, <2>1, <2>2 DEF Line
    <1>6. \A i \in 1 .. k : reply[i].n = host.lines + i
        OBVIOUS
    <1> HIDE DEF reply
    <1>7. reply \in Seq(Line) /\ Len(reply) = k
        BY <1>4, <1>5
    <1>8. /\ wire' \in Seq(Line) /\ Len(wire') = Len(wire) + k
          /\ \A i \in 1 .. Len(wire') : wire'[i] = IF i <= Len(wire) THEN wire[i] ELSE reply[i - Len(wire)]
        <2>1. wire' = wire \o reply
            BY <1>1 DEF reply
        <2>2. /\ wire \o reply \in Seq(Line) /\ Len(wire \o reply) = Len(wire) + k
              /\ \A i \in 1 .. Len(wire) + k :
                     (wire \o reply)[i] = IF i <= Len(wire) THEN wire[i] ELSE reply[i - Len(wire)]
            BY <1>0, <1>7, ConcatProperties
        <2>3. QED
            BY <2>1, <2>2
    <1>9. host'.lines = host.lines + k /\ host' = [closed |-> host'.closed, lines |-> host'.lines]
        BY <1>1 DEF LinesInv, LinesTyped
    <1>10. Taken \in Int /\ Taken' = Taken
        BY <1>0, <1>2, <1>4, <1>8, <1>9 DEF Taken
    <1>11. \A i \in 1 .. Len(wire') : wire'[i].n = (Taken + Len(q)) + i
        <2> SUFFICES ASSUME NEW i \in 1 .. Len(wire')
                     PROVE  wire'[i].n = (Taken + Len(q)) + i
            OBVIOUS
        <2>1. CASE i <= Len(wire)
            BY <1>0, <1>8, <2>1 DEF LinesInv
        <2>2. CASE ~(i <= Len(wire))
            <3>1. i - Len(wire) \in 1 .. k
                BY <1>0, <1>4, <1>8, <2>2
            <3>2. wire'[i].n = host.lines + (i - Len(wire))
                BY <1>6, <1>8, <2>2, <3>1
            <3>3. QED
                BY <1>0, <3>2 DEF Taken
        <2>3. QED
            BY <2>1, <2>2
    <1>12. LinesTyped'
        BY <1>0, <1>2, <1>3, <1>4, <1>8, <1>9 DEF LinesInv, LinesTyped
    <1>13. QED
        BY <1>2, <1>10, <1>11, <1>12 DEF LinesInv, NextOne

\* What resumes the session: its reply is complete, too long, cut short, or goes on.
LEMMA TakeLines ==
    ASSUME LinesInv, TakeLine \/ TakeNull
    PROVE  LinesInv' /\ NextOne
    <1>1. CASE UNCHANGED got /\ \E c \in Command : Write(c)
        BY <1>1, WriteLines
    <1>2. CASE UNCHANGED got /\ (Done("protocol") \/ Done("rcpt"))
        BY <1>2, DoneLines
    <1>3. ReplyError => Done("protocol") \/ \E c \in Command : Write(c)
        BY DEF ReplyError, Command
    <1>4. Reply => Done("protocol") \/ Done("rcpt") \/ \E c \in Command : Write(c)
        BY DEF Reply, Verdict, Command
    <1>5. CASE ReadLine /\ UNCHANGED hostVars
        BY <1>5, ReadLineLines DEF hostVars
    <1>6. QED
        BY <1>1, <1>2, <1>3, <1>4, <1>5 DEF TakeLine, TakeNull

\* Connections are made, lost, reset and closed without a line being moved.
LEMMA ConnectionLines ==
    ASSUME LinesInv, [Next]_vars, ~TakeLine, ~TakeNull, ~Written, ~Deliver, ~HostReplies
    PROVE  LinesInv' /\ NextOne
    <1>0. /\ host = [closed |-> host.closed, lines |-> host.lines]
          /\ pc \in {"connect", "wait"} => q = <<>>
        BY DEF LinesInv, LinesTyped
    <1>1. CASE Connected
        <2>1. asked' = <<"banner">> /\ UNCHANGED <<got, q, wire, host>> /\ q = <<>>
            BY <1>0, <1>1 DEF Connected
        <2>2. asked' \in Seq(Command)
            BY <2>1 DEF Command
        <2>3. QED
            BY <2>1, <2>2 DEF LinesInv, LinesTyped, Taken, NextOne
    <1>2. CASE UNCHANGED <<got, q, asked, wire, host>> /\ (pc' \in {"connect", "wait"} => pc' = pc)
        BY <1>0, <1>2, StillLines
    <1>3. CASE NotConnected \/ LateConnect \/ Cleanup \/ HostResets
        BY <1>2, <1>3 DEF NotConnected, LateConnect, Cleanup, HostResets, hostVars
    <1>4. CASE ReadTimeout \/ HostClosed \/ SessionTimer
        BY <1>2, <1>4 DEF ReadTimeout, Throw, HostClosed, SessionTimer, SocketGone, hostVars
    <1>5. CASE HostCloses
        <2>1. UNCHANGED <<pc, got, q, asked, wire>> /\ host' = [host EXCEPT !.closed = TRUE]
            BY <1>5 DEF HostCloses, clientVars
        <2>2. host'.lines = host.lines /\ host' = [closed |-> host'.closed, lines |-> host'.lines]
            BY <1>0, <2>1
        <2>3. QED
            BY <1>0, <2>1, <2>2, StillLines
    <1>6. CASE UNCHANGED vars
        BY <1>2, <1>6 DEF vars, clientVars, hostVars
    <1>7. QED
        BY <1>1, <1>3, <1>4, <1>5, <1>6 DEF Next

\* NothingSkipped: however the replies are cut into chunks and whenever the
\* connection goes away, the reader hands out every line, once or twice, in the
\* order in which the host sent them.
THEOREM LinesInOrder == Spec => NothingSkipped
    <1>1. Init => LinesInv
        <2> SUFFICES ASSUME Init
                     PROVE  LinesInv
            OBVIOUS
        <2>1. got \in Line /\ got.n = 0
            BY DEF Init, NoLine, Line, Command, Class
        <2>2. host = [closed |-> FALSE, lines |-> 0] /\ q = <<>> /\ wire = <<>> /\ asked = <<>>
            BY DEF Init
        <2>3. Taken = 0
            BY <2>2 DEF Taken
        <2>4. LinesTyped
            BY <2>1, <2>2 DEF LinesTyped
        <2>5. QED
            BY <2>1, <2>2, <2>3, <2>4 DEF LinesInv
    <1>2. LinesInv /\ [Next]_vars => LinesInv' /\ NextOne
        <2> SUFFICES ASSUME LinesInv, [Next]_vars
                     PROVE  LinesInv' /\ NextOne
            OBVIOUS
        <2>1. CASE Written
            BY <2>1, ReadLineLines DEF Written, hostVars
        <2>2. QED
            BY <2>1, TakeLines, DeliverLines, HostRepliesLines, ConnectionLines
    <1>3. NextOne => [got' # got => got'.n = got.n + 1]_vars
        BY DEF NextOne
    <1>4. QED
        BY <1>1, <1>2, <1>3, PTL DEF Spec, NothingSkipped

=============================================================================
