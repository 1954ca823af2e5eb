----------------------------- MODULE ClientHandshake -----------------------------
(***************************************************************************)
(* The handshake of the clients: handshake.rs of linux-client,             *)
(* windows-client, android-native and apple-native.  They share the loop,  *)
(* with its deadline and its retransmissions, and differ in what they make *)
(* of a response that does not authenticate and in whether they can be     *)
(* stopped.  Computing takes no time; sleeping and waiting for a datagram  *)
(* do.                                                                     *)
(***************************************************************************)
EXTENDS Integers

CONSTANTS
    TIMEOUT,      \* HANDSHAKE_TIMEOUT
    RETRANSMIT,   \* HANDSHAKE_RETRANSMIT
    MaxCovers,    \* bound: cover datagrams of a prelude, one tick of jitter each
    MaxAttempts   \* bound: attempts, that is responses that do not authenticate

HandshakeAssumption == TIMEOUT > RETRANSMIT /\ RETRANSMIT > 0 /\ MaxCovers >= 0

Client == {"linux", "windows", "android", "apple"}

VARIABLES
    client,
    at,              \* where the call is; "done" and "failed" are its ends
    now,
    begun,           \* history: when negotiate was called
    deadline,
    started,         \* when this attempt started
    next_retransmit,
    covers,          \* datagrams of the prelude still to send
    session,         \* the attempt, whose session ID is fresh
    sent,            \* history: requests of this attempt
    answers,         \* responses under way: <<attempt, whether it authenticates>>
    stopping,        \* android: the flag of negotiate_interruptible
    stopped_at,      \* history: when it was set
    result           \* the attempt of the session that came out of it, or 0

clock == <<begun, deadline, started, next_retransmit>>
vars == <<client, at, now, clock, covers, session, sent, answers, stopping, stopped_at, result>>

Init ==
    /\ client \in Client /\ at = "attempt" /\ now = 0 /\ begun = 0
    /\ deadline = TIMEOUT /\ started = 0 /\ next_retransmit = 0
    /\ covers = 0 /\ session = 0 /\ sent = 0 /\ answers = {}
    /\ stopping = FALSE /\ stopped_at = 0 /\ result = 0

Running == at \notin {"done", "failed"}

-----------------------------------------------------------------------------
(* A fresh session ID and Noise state.  Linux has one deadline for all its *)
(* attempts and looks at it first; the others make one attempt.            *)
Attempts(until) ==
    /\ at = "attempt" /\ session < MaxAttempts
    /\ started' = now /\ deadline' = until
    /\ IF now >= until THEN at' = "failed" /\ UNCHANGED <<covers, session, sent>>
       ELSE at' = "prelude" /\ covers' \in 0 .. MaxCovers /\ session' = session + 1 /\ sent' = 0
    /\ UNCHANGED <<client, now, begun, next_retransmit, answers, stopping, stopped_at, result>>

linux_attempt_anew == Attempts(now + TIMEOUT)

linux_attempt == Attempts(begun + TIMEOUT)

only_attempt == session = 0 /\ Attempts(now + TIMEOUT)

(* A cover datagram and its jitter.  Any error of the socket here, even a  *)
(* stale refusal, ends the call.                                           *)
send_prelude ==
    /\ at = "prelude" /\ covers > 0
    /\ \/ covers' = covers - 1 /\ now' \in {now, now + 1} /\ UNCHANGED at
       \/ at' = "failed" /\ UNCHANGED <<covers, now>>
    /\ UNCHANGED <<client, clock, session, sent, answers, stopping, stopped_at, result>>

(* The request goes out.  The server may answer it; the answer may come    *)
(* late, more than once or never, and one that was damaged or made with    *)
(* another key does not authenticate.                                      *)
send_request ==
    /\ sent' = sent + 1
    /\ answers' \in {answers \cup new : new \in SUBSET {<<session, TRUE>>, <<session, FALSE>>}}

first_request ==
    /\ at = "prelude" /\ covers = 0
    /\ at' = "turn" /\ send_request /\ next_retransmit' = started + RETRANSMIT
    /\ UNCHANGED <<client, now, begun, deadline, started, covers, session, stopping, stopped_at, result>>

(* The top of the loop.                                                    *)
turn ==
    /\ at = "turn"
    /\ IF (client = "android" /\ stopping) \/ now >= deadline
       THEN at' = "failed" /\ UNCHANGED <<sent, answers, next_retransmit>>
       ELSE /\ at' = "receive"
            /\ IF now >= next_retransmit THEN send_request /\ next_retransmit' = now + RETRANSMIT
               ELSE UNCHANGED <<sent, answers, next_retransmit>>
    /\ UNCHANGED <<client, now, begun, deadline, started, covers, session, stopping, stopped_at, result>>

Wake == IF next_retransmit < deadline THEN next_retransmit ELSE deadline

(* Nothing yet.                                                            *)
Waits ==
    /\ at = "receive" /\ now < Wake /\ now' = now + 1
    /\ UNCHANGED <<client, at, clock, covers, session, sent, answers, stopping, stopped_at, result>>

(* The timeout, a retryable error, or a datagram that is none of ours.     *)
receive_nothing ==
    /\ at = "receive" /\ at' = "turn"
    /\ UNCHANGED <<client, now, clock, covers, session, sent, answers, stopping, stopped_at, result>>

(* Any other error of a send or a receive, or a response whose parameters  *)
(* cannot be read.                                                         *)
SocketFails ==
    /\ \/ at = "prelude" /\ covers = 0
       \/ at = "turn" /\ now >= next_retransmit /\ now < deadline
       \/ at = "receive"
    /\ at' = "failed"
    /\ UNCHANGED <<client, now, clock, covers, session, sent, answers, stopping, stopped_at, result>>

finish ==
    /\ at = "receive" /\ <<session, TRUE>> \in answers
    /\ at' = "done" /\ result' = session
    /\ UNCHANGED <<client, now, clock, covers, session, sent, answers, stopping, stopped_at>>

(* finish consumes the Noise state.  Linux tries again while there is      *)
(* time, the others give up.                                               *)
Invalid(next) ==
    /\ at = "receive" /\ <<session, FALSE>> \in answers /\ at' = next
    /\ UNCHANGED <<client, now, clock, covers, session, sent, answers, stopping, stopped_at, result>>

StopRequested ==
    /\ Running /\ ~stopping /\ stopping' = TRUE /\ stopped_at' = now
    /\ UNCHANGED <<client, at, now, clock, covers, session, sent, answers, result>>

Steps == send_prelude \/ first_request \/ turn \/ Waits \/ receive_nothing \/ SocketFails \/ finish

linux == client = "linux" /\ (linux_attempt \/ Steps \/ Invalid(IF now < deadline THEN "attempt" ELSE "failed"))
windows == client = "windows" /\ (only_attempt \/ Steps \/ Invalid("failed"))
android == client = "android" /\ (only_attempt \/ Steps \/ Invalid("failed") \/ StopRequested)
apple == client = "apple" /\ (only_attempt \/ Steps \/ Invalid("failed"))

Next == linux \/ windows \/ android \/ apple

Spec == Init /\ [][Next]_vars

-----------------------------------------------------------------------------
TypeOK ==
    /\ at \in {"attempt", "prelude", "turn", "receive", "done", "failed"}
    /\ now \in Nat /\ session \in 0 .. MaxAttempts /\ result \in 0 .. MaxAttempts

(* A call ends within its timeout and one prelude, however many responses  *)
(* fail to authenticate, and within one retransmission of a stop; until    *)
(* then a request goes out every RETRANSMIT, no sooner and no later, so    *)
(* one lost datagram never fails it; and what comes out is the session of  *)
(* the attempt that is being made.                                         *)
HandshakeBounded ==
    /\ TypeOK
    /\ now <= begun + TIMEOUT + MaxCovers
    /\ Running /\ stopping => now <= stopped_at + RETRANSMIT + MaxCovers
    /\ at = "receive" => /\ sent <= 1 + (now - started) \div RETRANSMIT
                         /\ sent >= (now - started) \div RETRANSMIT
    /\ at = "done" => result = session
===============================================================================
