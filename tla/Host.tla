------------------------------- MODULE Host --------------------------------
(***************************************************************************)
(* The host side of tlay2: tools that call the machine through             *)
(* tlay2_client.py, and tlay2_server.py, which shares one serial line      *)
(* among them.  The server has two threads.  udprecv numbers a request,    *)
(* waits until the last answer has come or 1.5 s have passed, and writes   *)
(* the request; the main thread reads answers and sends each to the        *)
(* connection that its number stands for.  They share the dictionary       *)
(* connections and the event my_mutex and take no lock.                    *)
(*                                                                         *)
(* The machine is its monitor (module Monitor): it takes frames in order   *)
(* and answers some.  A frame that is damaged on the line is dropped by    *)
(* either parser (module Tlay2), so here it is lost.  UDP on the loopback  *)
(* device loses nothing.                                                   *)
(***************************************************************************)
EXTENDS Monitor, Sequences, FiniteSets

CONSTANTS
    Clients,      \* the sockets of tools
    Interactive,  \* those whose user goes on after an exception
    Menu,         \* Menu[c]: the calls that client c may make
    MaxId,        \* numbers go from 1 to MaxId, 255 in the code
    MaxCalls,     \* bounds: MaxCalls[c] calls that c makes,
    MaxLost,      \* frames lost on the line,
    MaxRestarts   \* and times the server is started again

ASSUME HostAssumption ==
    /\ Interactive \subseteq Clients
    /\ MaxId \in Nat \ {0}
    /\ MaxCalls \in [Clients -> Nat] /\ MaxLost \in Nat /\ MaxRestarts \in Nat

VARIABLES
    at,           \* at[c], where client c is: idle, wait (in recv) or gone
    made, asked,  \* calls that it has made, and the last of them
    unpaired,     \* reasons for an answer that none of its recvs waits for
    sock,         \* sock[c]: answers in the socket of c, oldest first
    inbox,        \* requests in the socket of the server
    pc,           \* where udprecv is: recv, wait, clear or write
    frame,        \* the frame that udprecv has built
    curid,        \* the next number
    connections,  \* connections[i]: the client with number i, for the i used
    event,        \* my_mutex is set
    down, up,     \* frames on the line to the machine and back
    machine,      \* on, or off: powered off, or running something else
    reader,       \* the main thread: read, sendto or dead (an exception)
    answer,       \* the frame it holds between set() and sendto()
    \* What happened:
    numbered,     \* requests that were given a number
    timeouts,     \* times wait() ran out
    restarts, losses,
    delivered,    \* pairs: a call and the client that got the answer
    lost          \* calls whose request or answer is gone

clientVars == <<at, made, asked, unpaired, sock>>
sendVars   == <<pc, frame, curid, connections>>
lineVars   == <<down, up, machine>>
readVars   == <<reader, answer>>
counts     == <<numbered, timeouts, restarts, losses>>
fateVars   == <<delivered, lost>>
vars == <<at, made, asked, unpaired, sock, inbox, pc, frame, curid, connections,
          event, down, up, machine, reader, answer, numbered, timeouts, restarts,
          losses, delivered, lost>>

\* A call is known by its client and its place among the calls of that client.
Call(c, k, r) == [from |-> c, k |-> k, req |-> r]

\* A frame has a number and a call.  serial and epoch tell which of all the
\* requests it was, and under which start of the server: the code has neither.
Frame(i, call) ==
    [ctr |-> i, call |-> call, serial |-> numbered + 1, epoch |-> restarts]

NoFrame == [ctr |-> 0]

Init ==
    /\ at = [c \in Clients |-> "idle"]
    /\ made = [c \in Clients |-> 0] /\ asked = [c \in Clients |-> NoFrame]
    /\ unpaired = [c \in Clients |-> 0]
    /\ sock = [c \in Clients |-> <<>>]
    /\ inbox = <<>>
    /\ pc = "recv" /\ frame = NoFrame /\ curid = 1
    /\ connections = <<>>
    /\ event = FALSE
    /\ down = <<>> /\ up = <<>> /\ machine = "on"
    /\ reader = "read" /\ answer = NoFrame
    /\ numbered = 0 /\ timeouts = 0 /\ restarts = 0 /\ losses = 0
    /\ delivered = {} /\ lost = {}

-----------------------------------------------------------------------------
(* tlay2_client.py *)

\* msg: send, then wait for whatever comes first.  msgout: only send; an answer,
\* if one comes, stays in the socket.
call(c) ==
    /\ at[c] = "idle" /\ made[c] < MaxCalls[c]
    /\ made' = [made EXCEPT ![c] = @ + 1]
    /\ \E r \in Menu[c] :
        /\ asked' = [asked EXCEPT ![c] = Call(c, made'[c], r)]
        /\ at' = [at EXCEPT ![c] = IF r.waits THEN "wait" ELSE @]
        /\ unpaired' = [unpaired EXCEPT ![c] = IF r.waits THEN @ ELSE @ + 1]
    /\ inbox' = Append(inbox, asked'[c])
    /\ UNCHANGED <<sock, sendVars, event, lineVars, readVars, counts, fateVars>>

msg_return(c) ==
    /\ at[c] = "wait" /\ sock[c] # <<>>
    /\ at' = [at EXCEPT ![c] = "idle"]
    /\ sock' = [sock EXCEPT ![c] = Tail(@)]
    /\ UNCHANGED <<made, asked, unpaired, inbox, sendVars, event, lineVars, readVars,
                   counts, fateVars>>

\* recv raises an exception after 5 s.  No tool catches it; at a prompt the
\* user may go on with the same socket.
msg_timeout(c) ==
    /\ at[c] = "wait" /\ sock[c] = <<>>
    /\ at' = [at EXCEPT ![c] = IF c \in Interactive THEN "idle" ELSE "gone"]
    /\ unpaired' = [unpaired EXCEPT ![c] = @ + 1]
    /\ UNCHANGED <<made, asked, sock, inbox, sendVars, event, lineVars, readVars,
                   counts, fateVars>>

-----------------------------------------------------------------------------
(* tlay2_server.py, udprecv *)

\* Mutant of NextId: the number is set up anew for every request.
NextId_first(i) == 1

NextId(i) == IF i = MaxId THEN 1 ELSE i + 1

\* connections[i] = c, whoever had the number before.
Assign(i, c) ==
    [j \in DOMAIN connections \cup {i} |-> IF j = i THEN c ELSE connections[j]]

udp_recv ==
    /\ pc = "recv" /\ inbox # <<>>
    /\ frame' = Frame(curid, Head(inbox))
    /\ connections' = Assign(curid, Head(inbox).from)
    /\ curid' = NextId(curid)
    /\ inbox' = Tail(inbox)
    /\ pc' = "wait"
    /\ numbered' = numbered + 1
    /\ UNCHANGED <<clientVars, event, lineVars, readVars, timeouts, restarts, losses,
                   fateVars>>

wait_set ==
    /\ pc = "wait" /\ event
    /\ pc' = "clear"
    /\ UNCHANGED <<clientVars, inbox, frame, curid, connections, event, lineVars,
                   readVars, counts, fateVars>>

\* Mutant of wait_timeout: wait() without a time.
wait_timeout_never == FALSE /\ UNCHANGED vars

wait_timeout ==
    /\ pc = "wait" /\ ~event
    /\ pc' = "clear"
    /\ timeouts' = timeouts + 1
    /\ UNCHANGED <<clientVars, inbox, frame, curid, connections, event, lineVars,
                   readVars, numbered, restarts, losses, fateVars>>

\* Mutant of clear: the event stays set.
clear_not ==
    /\ pc = "clear"
    /\ pc' = "write"
    /\ UNCHANGED <<clientVars, inbox, frame, curid, connections, event, lineVars,
                   readVars, counts, fateVars>>

clear ==
    /\ pc = "clear"
    /\ pc' = "write"
    /\ event' = FALSE
    /\ UNCHANGED <<clientVars, inbox, frame, curid, connections, lineVars, readVars,
                   counts, fateVars>>

write ==
    /\ pc = "write"
    /\ pc' = "recv"
    /\ down' = Append(down, frame)
    /\ frame' = NoFrame
    /\ UNCHANGED <<clientVars, inbox, curid, connections, event, up, machine, readVars,
                   counts, fateVars>>

udprecv == udp_recv \/ wait_set \/ wait_timeout \/ clear \/ write

-----------------------------------------------------------------------------
(* The machine and the line. *)

\* One frame is taken, run to its end and answered.
process ==
    /\ machine = "on" /\ down # <<>>
    /\ LET f == Head(down) IN
        \/ /\ Reply(f.call.req) # NoReply
           /\ up' = Append(up, f)
           /\ UNCHANGED <<machine, lost>>
        \/ /\ Reply(f.call.req) = NoReply \/ Ends(f.call.req)
           /\ machine' = IF Ends(f.call.req) THEN "off" ELSE "on"
           /\ lost' = lost \cup {f.call}
           /\ up' = up
    /\ down' = Tail(down)
    /\ UNCHANGED <<clientVars, inbox, sendVars, event, readVars, counts, delivered>>

\* Nobody reads the line.
unread ==
    /\ machine = "off" /\ down # <<>>
    /\ lost' = lost \cup {Head(down).call}
    /\ down' = Tail(down)
    /\ UNCHANGED <<clientVars, inbox, sendVars, event, up, machine, readVars, counts,
                   delivered>>

boot ==
    /\ machine = "off"
    /\ machine' = "on"
    /\ UNCHANGED <<clientVars, inbox, sendVars, event, down, up, readVars, counts, fateVars>>

lose_request ==
    /\ losses < MaxLost /\ down # <<>>
    /\ losses' = losses + 1
    /\ lost' = lost \cup {Head(down).call}
    /\ down' = Tail(down)
    /\ UNCHANGED <<clientVars, inbox, sendVars, event, up, machine, readVars, numbered,
                   timeouts, restarts, delivered>>

lose_answer ==
    /\ losses < MaxLost /\ up # <<>>
    /\ losses' = losses + 1
    /\ lost' = lost \cup {Head(up).call}
    /\ up' = Tail(up)
    /\ UNCHANGED <<clientVars, inbox, sendVars, event, down, machine, readVars, numbered,
                   timeouts, restarts, delivered>>

-----------------------------------------------------------------------------
(* tlay2_server.py, the main thread *)

\* A frame with number 0 is a debug message: it is broadcast, is no answer and
\* leaves the event alone, so nothing here changes.
read_answer ==
    /\ reader = "read" /\ up # <<>>
    /\ event' = TRUE
    /\ answer' = Head(up)
    /\ up' = Tail(up)
    /\ reader' = "sendto"
    /\ UNCHANGED <<clientVars, inbox, sendVars, down, machine, counts, fateVars>>

\* A number that is not in connections raises an exception, which ends this
\* thread; udprecv goes on.
sendto ==
    /\ reader = "sendto"
    /\ IF answer.ctr \notin DOMAIN connections
       THEN /\ reader' = "dead"
            /\ lost' = lost \cup {answer.call}
            /\ UNCHANGED <<clientVars, delivered>>
       ELSE LET c == connections[answer.ctr] IN
            /\ reader' = "read"
            /\ sock' = IF at[c] = "gone" THEN sock
                       ELSE [sock EXCEPT ![c] = Append(@, answer.call)]
            /\ unpaired' = [unpaired EXCEPT ![c] = IF c = answer.call.from THEN @ ELSE @ + 1]
            /\ UNCHANGED <<at, made, asked>>
            /\ delivered' = delivered \cup {<<answer.call, c>>}
            /\ lost' = lost
    /\ answer' = NoFrame
    /\ UNCHANGED <<inbox, sendVars, event, lineVars, counts>>

main_thread == read_answer \/ sendto

\* The server is stopped and started again: what it held is gone, what is on the
\* line is not.
restart ==
    /\ restarts < MaxRestarts
    /\ restarts' = restarts + 1
    /\ lost' = lost \cup {inbox[i] : i \in DOMAIN inbox}
                    \cup (IF frame = NoFrame THEN {} ELSE {frame.call})
                    \cup (IF answer = NoFrame THEN {} ELSE {answer.call})
    /\ inbox' = <<>>
    /\ pc' = "recv" /\ frame' = NoFrame /\ curid' = 1
    /\ connections' = <<>>
    /\ event' = FALSE
    /\ reader' = "read" /\ answer' = NoFrame
    /\ UNCHANGED <<clientVars, lineVars, numbered, timeouts, losses, delivered>>

-----------------------------------------------------------------------------

Next ==
    \/ \E c \in Clients : call(c) \/ msg_return(c) \/ msg_timeout(c)
    \/ udprecv \/ main_thread
    \/ process \/ unread \/ boot \/ lose_request \/ lose_answer
    \/ restart

Spec == Init /\ [][Next]_vars

\* The threads of the server run, the wait of 1.5 s ends, and the machine comes
\* to the next request: each handler ends, unless it is one that Ends names.
Fairness == WF_vars(udprecv) /\ WF_vars(main_thread) /\ WF_vars(process) /\ WF_vars(unread)

FairSpec == Spec /\ Fairness

-----------------------------------------------------------------------------
(* Properties *)

CallType  == [from : Clients, k : Nat, req : UNION {Menu[c] : c \in Clients}]
FrameType == [ctr : 1 .. MaxId, call : CallType, serial : Nat, epoch : Nat]

ClientsOK ==
    /\ at \in [Clients -> {"idle", "wait", "gone"}]
    /\ made \in [Clients -> Nat] /\ asked \in [Clients -> CallType \cup {NoFrame}]
    /\ unpaired \in [Clients -> Nat]
    /\ sock \in [Clients -> Seq(CallType)]

SenderOK ==
    /\ inbox \in Seq(CallType)
    /\ pc \in {"recv", "wait", "clear", "write"}
    /\ IF pc = "recv" THEN frame = NoFrame ELSE frame \in FrameType
    /\ curid \in 1 .. MaxId
    /\ DOMAIN connections \subseteq 1 .. MaxId
    /\ \A i \in DOMAIN connections : connections[i] \in Clients
    /\ event \in BOOLEAN

LineOK ==
    /\ down \in Seq(FrameType) /\ up \in Seq(FrameType)
    /\ machine \in {"on", "off"}

ReaderOK ==
    /\ reader \in {"read", "sendto", "dead"}
    /\ IF reader = "sendto" THEN answer \in FrameType ELSE answer = NoFrame

\* The types of the variables of tlay2_server.py:11-73 and of its clients: a
\* thread that has a frame in hand really has one, and every number in
\* connections is from 1 to MaxId.
TypeOK ==
    /\ ClientsOK /\ SenderOK /\ LineOK /\ ReaderOK
    /\ numbered \in Nat /\ timeouts \in Nat /\ restarts \in Nat
    /\ delivered \subseteq CallType \X Clients /\ lost \subseteq CallType

\* What is on the line: requests written and not yet answered.
Outstanding == Len(down) + Len(up)

\* What udprecv may write now without another wait: it has passed the wait, or
\* the event is set and it will pass without one.
Passed ==
    (IF pc = "write" THEN 1 ELSE 0) + (IF pc = "clear" \/ event THEN 1 ELSE 0)

\* tlay2_server.py:46-48 against set() at line 69: the event is tested, cleared
\* and set by two threads with no lock.  Even so a request goes out early only
\* when a wait ran out: what is on the line, with what may still be written, is
\* never more than the waits that did.  (The first request always waits 1.5 s,
\* nothing sets the event before it.)
Paced == Outstanding + Passed <= timeouts

\* connections[curid] is overwritten when the numbers come round (lines 36-39),
\* while the answer of its old owner may still be on the way.  An answer goes
\* to a client that did not ask only after MaxId more requests were numbered,
\* or after the server was started again; and only then is its number unknown,
\* which ends the main thread (line 70).
Routed ==
    [][sendto => \/ /\ answer.ctr \in DOMAIN connections
                    /\ connections[answer.ctr] = answer.call.from
                 \/ numbered - answer.serial >= MaxId
                 \/ answer.epoch # restarts]_vars

\* msg (tlay2_client.py:24-26) takes the first datagram in the socket, which has
\* no number any more.  It is the answer to this call unless the client gave up
\* on an earlier call, got somebody else's answer, or used msgout as poweroff
\* does: then an old answer may be in front, and every later call gets the
\* answer to an earlier one.  And the answer to any call of the tools is as long
\* as its struct.unpack wants it.
Unpacks(t) == t.waits => Reply(t) # NoReply /\ t.expects \in {-1, Reply(t)}

OwnAnswer ==
    [][\A c \in Clients :
         (msg_return(c) /\ unpaired[c] = 0)
         => /\ Head(sock[c]) = asked[c]
            /\ \A t \in Tools : Unpacks(t)]_vars

\* A call that was sent and of which nothing has come yet.
Pending(c, k) ==
    /\ made[c] >= k
    /\ \A d \in delivered : <<d[1].from, d[1].k>> # <<c, k>>
    /\ \A l \in lost : <<l.from, l.k>> # <<c, k>>

\* Whatever the two threads of the server do to each other, no call is left
\* lying: it is answered, or lost with a frame, with the machine or with the
\* server - unless the main thread is dead.
Settled ==
    \A c \in Clients : \A k \in 1 .. MaxCalls[c] :
        Pending(c, k) ~> (~Pending(c, k) \/ reader = "dead")
=============================================================================
