----------------------------- MODULE HostProofs -----------------------------
(***************************************************************************)
(* The server of the host tools for any number of clients, of calls, of    *)
(* losses and of restarts.  Four results: how far the pacing of requests   *)
(* can be trusted (Paced), when an answer can go to the wrong client       *)
(* (Routed), when a call returns its own answer (OwnAnswer), and that      *)
(* every call is in one place or has come to one end (OneTraceEach).  Each *)
(* follows from an inductive invariant: what Routed needs is that a number *)
(* tells how many requests ago it was given, and what OwnAnswer needs is   *)
(* that of each client at most one thing is on its way.                    *)
(***************************************************************************)
EXTENDS Host, TLAPS

-----------------------------------------------------------------------------
(* Types *)

\* Taking from the front of a queue and adding to its end.
LEMMA QueueTail ==
    ASSUME NEW S, NEW q \in Seq(S), q # <<>>
    PROVE  Head(q) \in S /\ Tail(q) \in Seq(S) /\ Len(Tail(q)) = Len(q) - 1
OBVIOUS

LEMMA QueueAppend ==
    ASSUME NEW S, NEW q \in Seq(S), NEW x \in S
    PROVE  Append(q, x) \in Seq(S) /\ Len(Append(q, x)) = Len(q) + 1
OBVIOUS

\* NoFrame is no frame.
LEMMA NoFrameDiffers == NoFrame \notin FrameType /\ NoFrame.ctr = 0
BY DEF NoFrame, FrameType

\* A number is followed by a number.
LEMMA NextIdType ==
    ASSUME NEW i \in 1 .. MaxId
    PROVE  NextId(i) \in 1 .. MaxId
BY HostAssumption DEF NextId

LEMMA AssignType ==
    ASSUME NEW i \in 1 .. MaxId, NEW c \in Clients, SenderOK
    PROVE  /\ DOMAIN Assign(i, c) = DOMAIN connections \cup {i}
           /\ DOMAIN Assign(i, c) \subseteq 1 .. MaxId
           /\ \A j \in DOMAIN Assign(i, c) : Assign(i, c)[j] \in Clients
           /\ Assign(i, c)[i] = c
           /\ \A j \in DOMAIN connections \ {i} : Assign(i, c)[j] = connections[j]
BY DEF SenderOK, Assign

\* The parts that a step leaves alone.
LEMMA PartsStay ==
    /\ ClientsOK /\ UNCHANGED clientVars => ClientsOK'
    /\ SenderOK /\ UNCHANGED <<sendVars, inbox, event>> => SenderOK'
    /\ LineOK /\ UNCHANGED lineVars => LineOK'
    /\ ReaderOK /\ UNCHANGED readVars => ReaderOK'
<1>1. ClientsOK /\ UNCHANGED clientVars => ClientsOK'
  BY DEF ClientsOK, clientVars
<1>2. SenderOK /\ UNCHANGED <<sendVars, inbox, event>> => SenderOK'
  BY DEF SenderOK, sendVars
<1>3. LineOK /\ UNCHANGED lineVars => LineOK'
  BY DEF LineOK, lineVars
<1>4. ReaderOK /\ UNCHANGED readVars => ReaderOK'
  BY DEF ReaderOK, readVars
<1>5. QED
  BY <1>1, <1>2, <1>3, <1>4

LEMMA InitType == Init => TypeOK
<1> SUFFICES ASSUME Init PROVE TypeOK
  OBVIOUS
<1>1. ClientsOK
  BY DEF Init, ClientsOK
<1>2. SenderOK
  <2>1. DOMAIN connections = {} /\ inbox \in Seq(CallType)
    BY DEF Init
  <2>2. curid \in 1 .. MaxId
    BY HostAssumption DEF Init
  <2>3. QED
    BY <2>1, <2>2 DEF Init, SenderOK
<1>3. LineOK /\ ReaderOK
  BY DEF Init, LineOK, ReaderOK
<1>4. QED
  BY <1>1, <1>2, <1>3 DEF Init, TypeOK

LEMMA TypeCall ==
    ASSUME TypeOK, NEW c \in Clients, call(c)
    PROVE  TypeOK'
<1>1. PICK r \in Menu[c] :
        /\ asked' = [asked EXCEPT ![c] = Call(c, made'[c], r)]
        /\ at' = [at EXCEPT ![c] = IF r.waits THEN "wait" ELSE @]
        /\ unpaired' = [unpaired EXCEPT ![c] = IF r.waits THEN @ ELSE @ + 1]
  BY DEF call
<1>2. made' \in [Clients -> Nat]
  BY DEF TypeOK, ClientsOK, call
<1>3. Call(c, made'[c], r) \in CallType
  BY <1>2 DEF Call, CallType
<1>4. asked' \in [Clients -> CallType \cup {NoFrame}] /\ asked'[c] \in CallType
  BY <1>1, <1>3 DEF TypeOK, ClientsOK
<1>5. inbox' \in Seq(CallType)
  BY <1>4, QueueAppend DEF TypeOK, SenderOK, call
<1>6. /\ at' \in [Clients -> {"idle", "wait", "gone"}]
      /\ unpaired' \in [Clients -> Nat]
  BY <1>1 DEF TypeOK, ClientsOK
<1>7. ClientsOK'
  BY <1>2, <1>4, <1>6 DEF TypeOK, ClientsOK, call
<1>8. SenderOK'
  BY <1>5 DEF TypeOK, SenderOK, call, sendVars
<1>9. QED
  BY <1>7, <1>8, PartsStay DEF TypeOK, call, counts, fateVars

LEMMA TypeReturn ==
    ASSUME TypeOK, NEW c \in Clients, msg_return(c) \/ msg_timeout(c)
    PROVE  TypeOK'
<1>1. ClientsOK'
  <2>1. CASE msg_return(c)
    <3>1. Tail(sock[c]) \in Seq(CallType)
      BY <2>1, QueueTail DEF TypeOK, ClientsOK, msg_return
    <3>2. QED
      BY <2>1, <3>1 DEF TypeOK, ClientsOK, msg_return
  <2>2. CASE msg_timeout(c)
    BY <2>2 DEF TypeOK, ClientsOK, msg_timeout
  <2>3. QED
    BY <2>1, <2>2
<1>2. UNCHANGED <<inbox, sendVars, event, lineVars, readVars, counts, fateVars>>
  BY DEF msg_return, msg_timeout
<1>3. QED
  BY <1>1, <1>2, PartsStay DEF TypeOK, counts, fateVars

LEMMA TypeRecv ==
    ASSUME TypeOK, udp_recv
    PROVE  TypeOK'
<1>1. Head(inbox) \in CallType /\ inbox' \in Seq(CallType)
  BY QueueTail DEF TypeOK, SenderOK, udp_recv
<1>2. Head(inbox).from \in Clients
  BY <1>1 DEF CallType
<1>3. frame' \in FrameType
  BY <1>1 DEF TypeOK, SenderOK, udp_recv, Frame, FrameType
<1>4. curid' \in 1 .. MaxId
  BY NextIdType DEF TypeOK, SenderOK, udp_recv
<1>5. /\ DOMAIN connections' \subseteq 1 .. MaxId
      /\ \A i \in DOMAIN connections' : connections'[i] \in Clients
  <2>1. curid \in 1 .. MaxId /\ connections' = Assign(curid, Head(inbox).from)
    BY DEF TypeOK, SenderOK, udp_recv
  <2>2. QED
    BY <1>2, <2>1, AssignType DEF TypeOK
<1>6. SenderOK'
  BY <1>1, <1>3, <1>4, <1>5 DEF TypeOK, SenderOK, udp_recv
<1>7. QED
  BY <1>6, PartsStay DEF TypeOK, udp_recv, fateVars

LEMMA TypeSend ==
    ASSUME TypeOK, wait_set \/ wait_timeout \/ clear \/ write
    PROVE  TypeOK'
<1>1. CASE wait_set \/ wait_timeout \/ clear
  <2>1. SenderOK'
    BY <1>1 DEF TypeOK, SenderOK, wait_set, wait_timeout, clear
  <2>2. /\ timeouts' \in Nat
        /\ UNCHANGED <<clientVars, lineVars, readVars, numbered, restarts, fateVars>>
    BY <1>1 DEF TypeOK, wait_set, wait_timeout, clear, counts
  <2>3. QED
    BY <2>1, <2>2, PartsStay DEF TypeOK, fateVars
<1>2. CASE write
  <2>1. SenderOK'
    BY <1>2 DEF TypeOK, SenderOK, write
  <2>2. LineOK'
    <3>1. frame \in FrameType /\ down \in Seq(FrameType)
      BY <1>2 DEF TypeOK, SenderOK, LineOK, write
    <3>2. QED
      BY <1>2, <3>1, QueueAppend DEF TypeOK, LineOK, write
  <2>3. QED
    BY <1>2, <2>1, <2>2, PartsStay DEF TypeOK, write, counts, fateVars
<1>3. QED
  BY <1>1, <1>2

LEMMA TypeLine ==
    ASSUME TypeOK, process \/ unread \/ boot \/ lose_request \/ lose_answer
    PROVE  TypeOK'
<1>1. UNCHANGED <<clientVars, sendVars, inbox, event, readVars>>
      /\ UNCHANGED <<numbered, timeouts, restarts, delivered>>
  BY DEF process, unread, boot, lose_request, lose_answer, counts, fateVars
<1>2. LineOK' /\ lost' \subseteq CallType
  <2>1. CASE process \/ unread \/ lose_request
    <3>1. Head(down) \in FrameType /\ down' \in Seq(FrameType)
      BY <2>1, QueueTail DEF TypeOK, LineOK, process, unread, lose_request
    <3>2. Head(down).call \in CallType
      BY <3>1 DEF FrameType
    <3>3. Append(up, Head(down)) \in Seq(FrameType)
      BY <3>1, QueueAppend DEF TypeOK, LineOK
    <3>4. lost' \subseteq CallType
      BY <2>1, <3>2 DEF TypeOK, process, unread, lose_request
    <3>5. up' \in {up, Append(up, Head(down))} /\ machine' \in {"on", "off"}
      BY <2>1 DEF TypeOK, LineOK, process, unread, lose_request
    <3>6. QED
      BY <3>1, <3>3, <3>4, <3>5 DEF TypeOK, LineOK
  <2>2. CASE lose_answer
    <3>1. Head(up) \in FrameType /\ up' \in Seq(FrameType)
      BY <2>2, QueueTail DEF TypeOK, LineOK, lose_answer
    <3>2. Head(up).call \in CallType
      BY <3>1 DEF FrameType
    <3>3. QED
      BY <2>2, <3>1, <3>2 DEF TypeOK, LineOK, lose_answer
  <2>3. CASE boot
    BY <2>3 DEF TypeOK, LineOK, boot, fateVars
  <2>4. QED
    BY <2>1, <2>2, <2>3
<1>3. QED
  BY <1>1, <1>2, PartsStay DEF TypeOK

LEMMA TypeRead ==
    ASSUME TypeOK, read_answer \/ sendto
    PROVE  TypeOK'
<1>1. CASE read_answer
  <2>1. Head(up) \in FrameType /\ up' \in Seq(FrameType)
    BY <1>1, QueueTail DEF TypeOK, LineOK, read_answer
  <2>2. LineOK' /\ ReaderOK' /\ SenderOK'
    BY <1>1, <2>1 DEF TypeOK, LineOK, ReaderOK, SenderOK, read_answer, sendVars
  <2>3. QED
    BY <1>1, <2>2, PartsStay DEF TypeOK, read_answer, counts, fateVars
<1>2. CASE sendto
  <2>1. answer.call \in CallType
    BY <1>2 DEF TypeOK, ReaderOK, sendto, FrameType
  <2>2. ReaderOK'
    BY <1>2 DEF TypeOK, ReaderOK, sendto
  <2>3. CASE answer.ctr \notin DOMAIN connections
    <3>1. UNCHANGED clientVars /\ delivered' = delivered /\ lost' \subseteq CallType
      BY <1>2, <2>1, <2>3 DEF TypeOK, sendto
    <3>2. QED
      BY <1>2, <2>2, <3>1, PartsStay DEF TypeOK, sendto, counts
  <2>4. CASE answer.ctr \in DOMAIN connections
    <3> DEFINE c == connections[answer.ctr]
    <3>1. c \in Clients
      BY <2>4 DEF TypeOK, SenderOK
    <3>2. unpaired' = [unpaired EXCEPT ![c] = IF c = answer.call.from THEN @ ELSE @ + 1]
          /\ UNCHANGED <<at, made, asked>>
      BY <1>2, <2>4 DEF sendto
    <3>3. unpaired' \in [Clients -> Nat]
      BY <3>1, <3>2 DEF TypeOK, ClientsOK
    <3>4. Append(sock[c], answer.call) \in Seq(CallType)
      BY <2>1, <3>1, QueueAppend DEF TypeOK, ClientsOK
    <3>5. sock' \in {sock, [sock EXCEPT ![c] = Append(@, answer.call)]}
      BY <1>2, <2>4 DEF sendto
    <3>6. sock' \in [Clients -> Seq(CallType)]
      BY <3>1, <3>4, <3>5 DEF TypeOK, ClientsOK
    <3>7. ClientsOK'
      BY <3>2, <3>3, <3>6 DEF TypeOK, ClientsOK
    <3>8. delivered' \subseteq CallType \X Clients /\ lost' = lost
      BY <1>2, <2>1, <2>4, <3>1 DEF TypeOK, sendto
    <3>9. QED
      BY <1>2, <2>2, <3>7, <3>8, PartsStay DEF TypeOK, sendto, counts
  <2>5. QED
    BY <2>3, <2>4
<1>3. QED
  BY <1>1, <1>2

LEMMA TypeRestart ==
    ASSUME TypeOK, restart
    PROVE  TypeOK'
<1>1. lost' \subseteq CallType
  <2>1. \A i \in DOMAIN inbox : inbox[i] \in CallType
    BY DEF TypeOK, SenderOK
  <2>2. frame # NoFrame => frame.call \in CallType
    BY DEF TypeOK, SenderOK, FrameType
  <2>3. answer # NoFrame => answer.call \in CallType
    BY DEF TypeOK, ReaderOK, FrameType
  <2>4. QED
    BY <2>1, <2>2, <2>3 DEF TypeOK, restart
<1>2. SenderOK'
  <2>1. DOMAIN connections' = {} /\ inbox' \in Seq(CallType)
    BY DEF restart
  <2>2. curid' \in 1 .. MaxId
    BY HostAssumption DEF restart
  <2>3. QED
    BY <2>1, <2>2 DEF restart, SenderOK
<1>3. ReaderOK'
  BY DEF restart, ReaderOK
<1>4. QED
  BY <1>1, <1>2, <1>3, PartsStay DEF TypeOK, restart

LEMMA NextType ==
    ASSUME TypeOK, [Next]_vars
    PROVE  TypeOK'
<1>1. CASE UNCHANGED vars
  BY <1>1, PartsStay
     DEF TypeOK, vars, clientVars, sendVars, lineVars, readVars
<1>2. CASE Next
  BY <1>2, TypeCall, TypeReturn, TypeRecv, TypeSend, TypeLine, TypeRead, TypeRestart
     DEF Next, udprecv, main_thread
<1>3. QED
  BY <1>1, <1>2

\* Type correctness: in particular udprecv never writes, and the main thread
\* never sends, a frame that it does not have.
THEOREM HostTypeOK == Spec => []TypeOK
<1>1. QED
  BY InitType, NextType, PTL DEF Spec

-----------------------------------------------------------------------------
(* Pacing *)

\* Paced is inductive: what passes the wait is counted by the event or by a
\* wait that ran out, and what goes on the line has passed it.
LEMMA PacedQueues ==
    ASSUME TypeOK
    PROVE  Len(down) \in Nat /\ Len(up) \in Nat /\ timeouts \in Nat /\ event \in BOOLEAN
BY DEF TypeOK, LineOK, SenderOK

LEMMA NextPaced ==
    ASSUME TypeOK, Paced, [Next]_vars
    PROVE  Paced'
<1> USE DEF Paced, Outstanding, Passed
<1>0. Len(down) \in Nat /\ Len(up) \in Nat /\ timeouts \in Nat /\ event \in BOOLEAN
  BY PacedQueues
<1>1. CASE UNCHANGED vars \/ (\E c \in Clients : call(c) \/ msg_return(c) \/ msg_timeout(c))
  BY <1>1 DEF vars, call, msg_return, msg_timeout, sendVars, lineVars, counts
<1>2. CASE udp_recv
  BY <1>0, <1>2 DEF udp_recv, lineVars
<1>3. CASE wait_set
  BY <1>0, <1>3 DEF wait_set, lineVars, counts
<1>4. CASE wait_timeout
  BY <1>0, <1>4 DEF wait_timeout, lineVars
<1>5. CASE clear
  BY <1>0, <1>5 DEF clear, lineVars, counts
<1>6. CASE write
  <2>1. Len(down') = Len(down) + 1
    BY <1>6, QueueAppend DEF write, TypeOK, SenderOK, LineOK
  <2>2. QED
    BY <1>0, <1>6, <2>1 DEF write, counts
<1>7. CASE process
  <2>1. Len(down') = Len(down) - 1
    BY <1>7, QueueTail DEF process, TypeOK, LineOK
  <2>2. Len(up') \in {Len(up), Len(up) + 1}
    BY <1>7, QueueTail, QueueAppend DEF process, TypeOK, LineOK
  <2>3. QED
    BY <1>0, <1>7, <2>1, <2>2 DEF process, sendVars, counts
<1>8. CASE unread \/ lose_request
  <2>1. Len(down') = Len(down) - 1
    BY <1>8, QueueTail DEF unread, lose_request, TypeOK, LineOK
  <2>2. QED
    BY <1>0, <1>8, <2>1 DEF unread, lose_request, sendVars, counts
<1>9. CASE lose_answer
  <2>1. Len(up') = Len(up) - 1
    BY <1>9, QueueTail DEF lose_answer, TypeOK, LineOK
  <2>2. QED
    BY <1>0, <1>9, <2>1 DEF lose_answer, sendVars
<1>10. CASE boot \/ sendto
  BY <1>0, <1>10 DEF boot, sendto, sendVars, lineVars, counts
<1>11. CASE read_answer
  <2>1. Len(up') = Len(up) - 1
    BY <1>11, QueueTail DEF read_answer, TypeOK, LineOK
  <2>2. QED
    BY <1>0, <1>11, <2>1 DEF read_answer, sendVars, counts
<1>12. CASE restart
  BY <1>0, <1>12 DEF restart, lineVars
<1>13. QED
  BY <1>1, <1>2, <1>3, <1>4, <1>5, <1>6, <1>7, <1>8, <1>9, <1>10, <1>11, <1>12
     DEF Next, udprecv, main_thread

\* The two threads of the server test, clear and set the event with no lock
\* (tlay2_server.py:46-48, 69): whatever their order, with any losses and
\* restarts, the requests on the line are never more than the waits that ran
\* out.
THEOREM PacedAlways == Spec => []Paced
<1>1. Init => Paced
  BY DEF Init, Paced, Outstanding, Passed
<1>2. QED
  BY <1>1, InitType, NextType, NextPaced, PTL DEF Spec

-----------------------------------------------------------------------------
(* Routing *)

\* The frames that the server and the line hold.
Held ==
    {down[i] : i \in DOMAIN down} \cup {up[i] : i \in DOMAIN up}
    \cup ({frame, answer} \ {NoFrame})

\* With i the next number: the one that was given d requests before the last.
NumberBefore(i, d) == IF i - 1 - d >= 1 THEN i - 1 - d ELSE i - 1 - d + MaxId

\* A frame with fewer than MaxId requests behind it, of this start of the server,
\* has the number of its place, and the number is still its client's.
WellNumbered(f) ==
    /\ f.serial <= numbered /\ f.epoch <= restarts
    /\ f.epoch = restarts /\ numbered - f.serial < MaxId
       => /\ f.ctr = NumberBefore(curid, numbered - f.serial)
          /\ f.ctr \in DOMAIN connections
          /\ connections[f.ctr] = f.call.from

RouteInv == \A f \in Held : WellNumbered(f)

LEMMA HeldType ==
    ASSUME TypeOK
    PROVE  Held \subseteq FrameType
BY DEF TypeOK, Held, SenderOK, LineOK, ReaderOK

\* What a queue holds after a step at one of its ends.
LEMMA HeldTail ==
    ASSUME NEW S, NEW q \in Seq(S), q # <<>>
    PROVE  /\ Head(q) \in {q[i] : i \in DOMAIN q}
           /\ {Tail(q)[i] : i \in DOMAIN Tail(q)} \subseteq {q[i] : i \in DOMAIN q}
<1>1. Len(q) \in Nat \ {0} /\ DOMAIN q = 1 .. Len(q) /\ Head(q) = q[1]
  OBVIOUS
<1>2. Len(Tail(q)) = Len(q) - 1 /\ \A i \in 1 .. Len(q) - 1 : Tail(q)[i] = q[i + 1]
  OBVIOUS
<1>3. DOMAIN Tail(q) = 1 .. Len(q) - 1
  BY <1>1, <1>2
<1>4. \A i \in DOMAIN Tail(q) : i + 1 \in DOMAIN q /\ Tail(q)[i] = q[i + 1]
  BY <1>1, <1>2, <1>3
<1>5. QED
  BY <1>1, <1>4

LEMMA HeldAppend ==
    ASSUME NEW S, NEW q \in Seq(S), NEW x \in S
    PROVE  {Append(q, x)[i] : i \in DOMAIN Append(q, x)} = {q[i] : i \in DOMAIN q} \cup {x}
<1>1. DOMAIN q = 1 .. Len(q) /\ DOMAIN Append(q, x) = 1 .. Len(q) + 1 /\ Len(q) \in Nat
  OBVIOUS
<1>2. /\ \A i \in 1 .. Len(q) : Append(q, x)[i] = q[i]
      /\ Append(q, x)[Len(q) + 1] = x
  OBVIOUS
<1>3. QED
  BY <1>1, <1>2

\* Steps that number no request: what is held was held before.
LEMMA RouteStays ==
    ASSUME RouteInv, Held' \subseteq Held,
           UNCHANGED <<curid, connections, numbered, restarts>>
    PROVE  RouteInv'
BY DEF RouteInv, WellNumbered, NumberBefore

LEMMA HeldStays ==
    ASSUME TypeOK,
           \/ \E c \in Clients : call(c) \/ msg_return(c) \/ msg_timeout(c)
           \/ wait_set \/ wait_timeout \/ clear \/ boot
    PROVE  Held' \subseteq Held /\ UNCHANGED <<curid, connections, numbered, restarts>>
BY DEF call, msg_return, msg_timeout, wait_set, wait_timeout, clear, boot, Held,
       sendVars, lineVars, readVars, counts

LEMMA HeldMoves ==
    ASSUME TypeOK, write \/ process \/ unread \/ lose_request \/ lose_answer
                   \/ read_answer \/ sendto
    PROVE  Held' \subseteq Held /\ UNCHANGED <<curid, connections, numbered, restarts>>
<1>1. CASE write
  <2>1. frame \in FrameType /\ down \in Seq(FrameType) /\ frame # NoFrame
    BY <1>1, NoFrameDiffers DEF write, TypeOK, SenderOK, LineOK
  <2>2. {down'[i] : i \in DOMAIN down'} = {down[i] : i \in DOMAIN down} \cup {frame}
    BY <1>1, <2>1, HeldAppend DEF write
  <2>3. UNCHANGED <<up, answer, curid, connections, numbered, restarts>> /\ frame' = NoFrame
    BY <1>1 DEF write, readVars, counts
  <2>4. QED
    BY <2>1, <2>2, <2>3 DEF Held
<1>2. CASE process \/ unread \/ lose_request
  <2>1. /\ Head(down) \in {down[i] : i \in DOMAIN down}
        /\ {down'[i] : i \in DOMAIN down'} \subseteq {down[i] : i \in DOMAIN down}
    BY <1>2, HeldTail DEF process, unread, lose_request, TypeOK, LineOK
  <2>2. up' \in {up, Append(up, Head(down))}
    BY <1>2 DEF process, unread, lose_request
  <2>3. Head(down) \in FrameType /\ up \in Seq(FrameType)
    BY <1>2, QueueTail DEF process, unread, lose_request, TypeOK, LineOK
  <2>4. {up'[i] : i \in DOMAIN up'} \subseteq {up[i] : i \in DOMAIN up} \cup {Head(down)}
    BY <2>2, <2>3, HeldAppend
  <2>5. UNCHANGED <<frame, answer, curid, connections, numbered, restarts>>
    BY <1>2 DEF process, unread, lose_request, sendVars, readVars, counts
  <2>6. QED
    BY <2>1, <2>4, <2>5 DEF Held
<1>3. CASE lose_answer
  <2>1. {up'[i] : i \in DOMAIN up'} \subseteq {up[i] : i \in DOMAIN up}
    BY <1>3, HeldTail DEF lose_answer, TypeOK, LineOK
  <2>2. UNCHANGED <<down, frame, answer, curid, connections, numbered, restarts>>
    BY <1>3 DEF lose_answer, sendVars, readVars
  <2>3. QED
    BY <2>1, <2>2 DEF Held
<1>4. CASE read_answer
  <2>1. /\ Head(up) \in {up[i] : i \in DOMAIN up}
        /\ {up'[i] : i \in DOMAIN up'} \subseteq {up[i] : i \in DOMAIN up}
    BY <1>4, HeldTail DEF read_answer, TypeOK, LineOK
  <2>2. answer' = Head(up) /\ UNCHANGED <<down, frame, curid, connections, numbered, restarts>>
    BY <1>4 DEF read_answer, sendVars, counts
  <2>3. QED
    BY <2>1, <2>2 DEF Held
<1>5. CASE sendto
  <2>1. answer' = NoFrame /\ UNCHANGED <<down, up, frame, curid, connections, numbered, restarts>>
    BY <1>5 DEF sendto, sendVars, lineVars, counts
  <2>2. QED
    BY <2>1 DEF Held
<1>6. QED
  BY <1>1, <1>2, <1>3, <1>4, <1>5

\* A request is numbered: the frame that has its number now has MaxId requests
\* behind it, and every other one keeps its client.
LEMMA RouteNumbers ==
    ASSUME TypeOK, RouteInv, udp_recv
    PROVE  RouteInv'
<1>1. MaxId \in Nat \ {0} /\ curid \in 1 .. MaxId /\ numbered \in Nat /\ restarts \in Nat
  BY HostAssumption DEF TypeOK, SenderOK
<1>2. Head(inbox).from \in Clients
  <2>1. Head(inbox) \in CallType
    BY QueueTail DEF TypeOK, SenderOK, udp_recv
  <2>2. QED
    BY <2>1 DEF CallType
<1>3. /\ numbered' = numbered + 1 /\ curid' = NextId(curid) /\ restarts' = restarts
      /\ connections' = Assign(curid, Head(inbox).from)
      /\ frame' = Frame(curid, Head(inbox))
      /\ UNCHANGED <<down, up, answer>>
  BY DEF udp_recv, lineVars, readVars
<1>4. /\ DOMAIN connections' = DOMAIN connections \cup {curid}
      /\ connections'[curid] = Head(inbox).from
      /\ \A j \in DOMAIN connections \ {curid} : connections'[j] = connections[j]
  BY <1>1, <1>2, <1>3, AssignType DEF TypeOK
<1>5. SUFFICES ASSUME NEW f \in Held'
               PROVE  WellNumbered(f)'
  BY DEF RouteInv
<1>6. CASE f = frame'
  <2>1. f.serial = numbered + 1 /\ f.epoch = restarts /\ f.ctr = curid
        /\ f.call.from = Head(inbox).from
    BY <1>3, <1>6 DEF Frame
  <2>2. curid = NumberBefore(curid', 0)
    BY <1>1, <1>3 DEF NumberBefore, NextId
  <2>3. QED
    BY <1>1, <1>3, <1>4, <2>1, <2>2 DEF WellNumbered
<1>7. CASE f # frame'
  <2>1. f \in Held
    BY <1>3, <1>7 DEF Held
  <2>2. f \in FrameType /\ WellNumbered(f)
    BY <2>1, HeldType DEF RouteInv
  <2>3. f.serial \in Nat /\ f.epoch \in Nat /\ f.ctr \in 1 .. MaxId
    BY <2>2 DEF FrameType
  <2>4. SUFFICES ASSUME f.epoch = restarts, numbered + 1 - f.serial < MaxId
                 PROVE  /\ f.ctr = NumberBefore(curid', numbered + 1 - f.serial)
                        /\ f.ctr \in DOMAIN connections'
                        /\ connections'[f.ctr] = f.call.from
    BY <1>1, <1>3, <2>2, <2>3 DEF WellNumbered
  <2>5. /\ f.serial <= numbered
        /\ f.ctr = NumberBefore(curid, numbered - f.serial)
        /\ f.ctr \in DOMAIN connections
        /\ connections[f.ctr] = f.call.from
    BY <1>1, <2>2, <2>3, <2>4 DEF WellNumbered
  <2>6. PICK d \in Nat : d = numbered - f.serial
    BY <1>1, <2>3, <2>5
  <2>7. d + 1 < MaxId /\ numbered + 1 - f.serial = d + 1 /\ f.ctr = NumberBefore(curid, d)
    BY <1>1, <2>3, <2>4, <2>5, <2>6
  <2>8. f.ctr # curid /\ f.ctr = NumberBefore(curid', d + 1)
    BY <1>1, <1>3, <2>6, <2>7 DEF NumberBefore, NextId
  <2>9. QED
    BY <1>4, <2>5, <2>7, <2>8
<1>8. QED
  BY <1>6, <1>7

\* The server starts again: no frame is of this start.
LEMMA RouteRestarts ==
    ASSUME TypeOK, RouteInv, restart
    PROVE  RouteInv'
<1>1. Held' \subseteq Held /\ numbered' = numbered /\ restarts' = restarts + 1
  BY DEF restart, Held, lineVars
<1>2. \A f \in Held : f.serial <= numbered /\ f.epoch <= restarts
  BY DEF RouteInv, WellNumbered
<1>3. \A f \in Held : f.epoch \in Nat
  BY HeldType DEF FrameType
<1>4. restarts \in Nat
  BY DEF TypeOK
<1>5. QED
  BY <1>1, <1>2, <1>3, <1>4 DEF RouteInv, WellNumbered

LEMMA NextRoute ==
    ASSUME TypeOK, RouteInv, [Next]_vars
    PROVE  RouteInv'
<1>1. CASE UNCHANGED vars
  BY <1>1, RouteStays DEF vars, Held
<1>2. CASE Next
  BY <1>2, HeldStays, HeldMoves, RouteStays, RouteNumbers, RouteRestarts
     DEF Next, udprecv, main_thread
<1>3. QED
  BY <1>1, <1>2

\* connections[curid] is overwritten when the numbers come round
\* (tlay2_server.py:36-39): for any number of clients and of numbers, an answer
\* goes to a client that did not ask, or stops the main thread, only after MaxId
\* more requests or a restart.
THEOREM RoutedAlways == Spec => Routed
<1>1. Init => RouteInv
  BY DEF Init, RouteInv, Held
<1>2. ASSUME TypeOK, RouteInv, sendto
      PROVE  \/ /\ answer.ctr \in DOMAIN connections
                /\ connections[answer.ctr] = answer.call.from
             \/ numbered - answer.serial >= MaxId
             \/ answer.epoch # restarts
  <2>1. answer \in FrameType /\ answer \in Held
    BY <1>2, NoFrameDiffers DEF sendto, TypeOK, ReaderOK, Held
  <2>2. answer.serial \in Nat /\ numbered \in Nat /\ MaxId \in Nat
    BY <1>2, <2>1, HostAssumption DEF FrameType, TypeOK
  <2>3. QED
    BY <1>2, <2>1, <2>2 DEF RouteInv, WellNumbered
<1>3. QED
  BY <1>1, <1>2, InitType, NextType, NextRoute, PTL DEF Spec, Routed

-----------------------------------------------------------------------------
(* Pairing *)

\* Where something of client c can be: a request or an answer of its own on the
\* way, or whatever is in its socket.
Own(place, q, c) == {<<place, i, q[i]>> : i \in {i \in DOMAIN q : q[i].from = c}}
OwnFrames(place, q, c) ==
    {<<place, i, q[i].call>> : i \in {i \in DOMAIN q : q[i].call.from = c}}
OwnFrame(place, f, c) ==
    {<<place, 0, g.call>> : g \in {g \in {f} \ {NoFrame} : g.call.from = c}}
InSock(q) == {<<"sock", i, q[i]>> : i \in DOMAIN q}

Mine(c) ==
    Own("inbox", inbox, c) \cup OwnFrame("frame", frame, c)
    \cup OwnFrames("down", down, c) \cup OwnFrames("up", up, c)
    \cup OwnFrame("answer", answer, c) \cup InSock(sock[c])

\* A client that nothing has disturbed waits for the one thing that is on its
\* way, or has nothing on its way.
Paired(c) ==
    unpaired[c] = 0 =>
        /\ at[c] # "gone"
        /\ \A x, y \in Mine(c) : x = y
        /\ \A x \in Mine(c) : at[c] = "wait" /\ x[3] = asked[c]

PairInv == \A c \in Clients : Paired(c)

\* What is in a queue after a step at one of its ends, and where it was.
LEMMA OwnTail ==
    ASSUME NEW S, NEW q \in Seq(S), q # <<>>, NEW p, NEW c
    PROVE  /\ \A x \in Own(p, Tail(q), c) :
                 x = <<p, x[2], x[3]>> /\ x[2] \in Nat \ {0}
                 /\ <<p, x[2] + 1, x[3]>> \in Own(p, q, c)
           /\ \A x \in OwnFrames(p, Tail(q), c) :
                 x = <<p, x[2], x[3]>> /\ x[2] \in Nat \ {0}
                 /\ <<p, x[2] + 1, x[3]>> \in OwnFrames(p, q, c)
           /\ Head(q).from = c => <<p, 1, Head(q)>> \in Own(p, q, c)
           /\ Head(q).call.from = c => <<p, 1, Head(q).call>> \in OwnFrames(p, q, c)
<1>1. Len(q) \in Nat \ {0} /\ DOMAIN q = 1 .. Len(q) /\ Head(q) = q[1]
  OBVIOUS
<1>2. Len(Tail(q)) = Len(q) - 1 /\ \A i \in 1 .. Len(q) - 1 : Tail(q)[i] = q[i + 1]
  OBVIOUS
<1>3. DOMAIN Tail(q) = 1 .. Len(q) - 1
  BY <1>1, <1>2
<1>4. \A i \in DOMAIN Tail(q) :
         i \in Nat \ {0} /\ i + 1 \in DOMAIN q /\ Tail(q)[i] = q[i + 1]
  BY <1>1, <1>2, <1>3
<1>5. 1 \in DOMAIN q
  BY <1>1
<1>6. ASSUME NEW x \in Own(p, Tail(q), c)
      PROVE  x = <<p, x[2], x[3]>> /\ x[2] \in Nat \ {0}
             /\ <<p, x[2] + 1, x[3]>> \in Own(p, q, c)
  <2>1. PICK i \in DOMAIN Tail(q) : Tail(q)[i].from = c /\ x = <<p, i, Tail(q)[i]>>
    BY DEF Own
  <2>2. x[2] = i /\ x[3] = q[i + 1] /\ q[i + 1].from = c
    BY <1>4, <2>1
  <2>3. QED
    BY <1>4, <2>1, <2>2 DEF Own
<1>7. ASSUME NEW x \in OwnFrames(p, Tail(q), c)
      PROVE  x = <<p, x[2], x[3]>> /\ x[2] \in Nat \ {0}
             /\ <<p, x[2] + 1, x[3]>> \in OwnFrames(p, q, c)
  <2>1. PICK i \in DOMAIN Tail(q) :
           Tail(q)[i].call.from = c /\ x = <<p, i, Tail(q)[i].call>>
    BY DEF OwnFrames
  <2>2. x[2] = i /\ x[3] = q[i + 1].call /\ q[i + 1].call.from = c
    BY <1>4, <2>1
  <2>3. QED
    BY <1>4, <2>1, <2>2 DEF OwnFrames
<1>8. QED
  BY <1>1, <1>5, <1>6, <1>7 DEF Own, OwnFrames

LEMMA OwnAppend ==
    ASSUME NEW S, NEW q \in Seq(S), NEW e \in S, NEW p, NEW c
    PROVE  /\ \A x \in Own(p, Append(q, e), c) :
                 x \in Own(p, q, c) \/ (e.from = c /\ x = <<p, Len(q) + 1, e>>)
           /\ \A x \in OwnFrames(p, Append(q, e), c) :
                 x \in OwnFrames(p, q, c)
                 \/ (e.call.from = c /\ x = <<p, Len(q) + 1, e.call>>)
           /\ \A x \in InSock(Append(q, e)) : x \in InSock(q) \/ x = <<"sock", Len(q) + 1, e>>
<1>1. DOMAIN q = 1 .. Len(q) /\ DOMAIN Append(q, e) = 1 .. Len(q) + 1 /\ Len(q) \in Nat
  OBVIOUS
<1>2. /\ \A i \in 1 .. Len(q) : Append(q, e)[i] = q[i]
      /\ Append(q, e)[Len(q) + 1] = e
  OBVIOUS
<1>3. \A i \in DOMAIN Append(q, e) :
         \/ i \in DOMAIN q /\ Append(q, e)[i] = q[i]
         \/ i = Len(q) + 1 /\ Append(q, e)[i] = e
  BY <1>1, <1>2
<1>4. QED
  BY <1>3 DEF Own, OwnFrames, InSock

\* Everything is at the place that its name says.
LEMMA Places ==
    ASSUME NEW c
    PROVE  /\ \A q, p : \A x \in Own(p, q, c) : x[1] = p
           /\ \A q, p : \A x \in OwnFrames(p, q, c) : x[1] = p
           /\ \A f, p : \A x \in OwnFrame(p, f, c) : x[1] = p
           /\ \A q : \A x \in InSock(q) : x[1] = "sock"
BY DEF Own, OwnFrames, OwnFrame, InSock

\* The frame in hand.
LEMMA InHand ==
    ASSUME NEW p, NEW f, NEW c
    PROVE  /\ \A x \in OwnFrame(p, f, c) : x = <<p, 0, f.call>> /\ f # NoFrame /\ f.call.from = c
           /\ f # NoFrame /\ f.call.from = c => <<p, 0, f.call>> \in OwnFrame(p, f, c)
           /\ OwnFrame(p, NoFrame, c) = {}
BY DEF OwnFrame

\* A step that only moves what is on its way, or loses it.
LEMMA Moved ==
    ASSUME NEW c \in Clients, Paired(c),
           unpaired'[c] = unpaired[c], at'[c] = at[c], asked'[c] = asked[c],
           NEW f, \A x \in Mine(c)' : \E y \in Mine(c) : x = f[y] /\ x[3] = y[3]
    PROVE  Paired(c)'
<1>1. SUFFICES ASSUME unpaired'[c] = 0
               PROVE  /\ at'[c] # "gone"
                      /\ \A x, y \in Mine(c)' : x = y
                      /\ \A x \in Mine(c)' : at'[c] = "wait" /\ x[3] = asked'[c]
  BY DEF Paired
<1>2. /\ at[c] # "gone" /\ \A x, y \in Mine(c) : x = y
      /\ \A x \in Mine(c) : at[c] = "wait" /\ x[3] = asked[c]
  BY <1>1 DEF Paired
<1>3. QED
  BY <1>2

\* In particular one that only loses.
LEMMA Shrunk ==
    ASSUME NEW c \in Clients, Paired(c),
           unpaired'[c] = unpaired[c], at'[c] = at[c], asked'[c] = asked[c],
           Mine(c)' \subseteq Mine(c)
    PROVE  Paired(c)'
<1> DEFINE f == [y \in Mine(c) |-> y]
<1>1. \A x \in Mine(c)' : \E y \in Mine(c) : x = f[y] /\ x[3] = y[3]
  OBVIOUS
<1> HIDE DEF f
<1>2. QED
  BY <1>1, Moved

\* The requests and answers of other clients are not moved by a client.
LEMMA PairedReturns ==
    ASSUME TypeOK, PairInv, NEW d \in Clients, call(d) \/ msg_return(d) \/ msg_timeout(d),
           NEW c \in Clients
    PROVE  Paired(c)'
<1>1. UNCHANGED <<frame, down, up, answer>>
  BY DEF call, msg_return, msg_timeout, sendVars, lineVars, readVars
<1>2. Paired(c)
  BY DEF PairInv
<1>3. /\ at \in [Clients -> {"idle", "wait", "gone"}] /\ unpaired \in [Clients -> Nat]
      /\ asked \in [Clients -> CallType \cup {NoFrame}] /\ sock \in [Clients -> Seq(CallType)]
      /\ inbox \in Seq(CallType) /\ made \in [Clients -> Nat]
  BY DEF TypeOK, ClientsOK, SenderOK
<1>4. CASE call(d)
  <2>1. PICK r \in Menu[d] :
          /\ asked' = [asked EXCEPT ![d] = Call(d, made'[d], r)]
          /\ at' = [at EXCEPT ![d] = IF r.waits THEN "wait" ELSE @]
          /\ unpaired' = [unpaired EXCEPT ![d] = IF r.waits THEN @ ELSE @ + 1]
    BY <1>4 DEF call
  <2>2. inbox' = Append(inbox, asked'[d]) /\ sock' = sock /\ at[d] = "idle"
        /\ made' = [made EXCEPT ![d] = @ + 1]
    BY <1>4 DEF call
  <2>3. asked'[d].from = d /\ asked'[d] \in CallType
    BY <1>3, <2>1, <2>2 DEF Call, CallType
  <2>4. \A x \in Own("inbox", inbox', c) :
           \/ x \in Own("inbox", inbox, c)
           \/ d = c /\ x = <<"inbox", Len(inbox) + 1, asked'[d]>>
    BY <1>3, <2>2, <2>3, OwnAppend
  <2>5. CASE d # c
    <3>1. unpaired'[c] = unpaired[c] /\ at'[c] = at[c] /\ asked'[c] = asked[c]
      BY <1>3, <2>1, <2>5
    <3>2. Mine(c)' \subseteq Mine(c)
      BY <1>1, <2>2, <2>4, <2>5 DEF Mine
    <3>3. QED
      BY <1>2, <3>1, <3>2, Shrunk
  <2>6. CASE d = c
    <3>1. SUFFICES ASSUME unpaired'[c] = 0
                   PROVE  /\ at'[c] # "gone"
                          /\ \A x, y \in Mine(c)' : x = y
                          /\ \A x \in Mine(c)' : at'[c] = "wait" /\ x[3] = asked'[c]
      BY DEF Paired
    <3>2. unpaired[c] = 0 /\ at'[c] = "wait"
      BY <1>3, <2>1, <2>6, <3>1
    <3>3. Mine(c) = {}
      BY <1>2, <2>2, <2>6, <3>2 DEF Paired
    <3>4. \A x \in Mine(c)' : x = <<"inbox", Len(inbox) + 1, asked'[c]>>
      BY <1>1, <2>2, <2>4, <2>6, <3>3 DEF Mine
    <3>5. QED
      BY <3>2, <3>4
  <2>7. QED
    BY <2>5, <2>6
<1>5. CASE msg_return(d)
  <2>1. /\ at' = [at EXCEPT ![d] = "idle"] /\ sock' = [sock EXCEPT ![d] = Tail(sock[d])]
        /\ UNCHANGED <<unpaired, asked, inbox>> /\ sock[d] # <<>>
    BY <1>5 DEF msg_return
  <2>2. CASE d # c
    <3>1. unpaired'[c] = unpaired[c] /\ at'[c] = at[c] /\ asked'[c] = asked[c]
      BY <1>3, <2>1, <2>2
    <3>2. sock'[c] = sock[c] /\ inbox' = inbox
      BY <1>3, <2>1, <2>2
    <3>3. Mine(c)' \subseteq Mine(c)
      BY <1>1, <3>2 DEF Mine
    <3>4. QED
      BY <1>2, <3>1, <3>3, Shrunk
  <2>3. CASE d = c
    <3>1. SUFFICES ASSUME unpaired'[c] = 0
                   PROVE  /\ at'[c] # "gone"
                          /\ \A x, y \in Mine(c)' : x = y
                          /\ \A x \in Mine(c)' : at'[c] = "wait" /\ x[3] = asked'[c]
      BY DEF Paired
    <3>2. \A x, y \in Mine(c) : x = y
      BY <1>2, <2>1, <3>1 DEF Paired
    <3>3. at'[c] = "idle" /\ sock'[c] = Tail(sock[c]) /\ inbox' = inbox
      BY <1>3, <2>1, <2>3
    <3>4. 1 \in DOMAIN sock[c] /\ Len(sock[c]) \in Nat /\ DOMAIN sock[c] = 1 .. Len(sock[c])
      BY <1>3, <2>1, <2>3
    <3>5. <<"sock", 1, sock[c][1]>> \in InSock(sock[c])
      BY <3>4 DEF InSock
    <3>6. DOMAIN sock[c] = {1}
      <4>1. \A i \in DOMAIN sock[c] : <<"sock", i, sock[c][i]>> \in InSock(sock[c])
        BY DEF InSock
      <4>2. \A i \in DOMAIN sock[c] : <<"sock", i, sock[c][i]>> = <<"sock", 1, sock[c][1]>>
        BY <3>2, <3>5, <4>1 DEF Mine
      <4>3. QED
        BY <3>4, <4>2
    <3>7. DOMAIN Tail(sock[c]) = {}
      <4>1. Len(sock[c]) = 1 /\ sock[c] \in Seq(CallType)
        BY <1>3, <3>4, <3>6
      <4> DEFINE s == Tail(sock[c])
      <4>2. Len(s) = 0 /\ s \in Seq(CallType)
        BY <4>1
      <4> HIDE DEF s
      <4>3. DOMAIN s = 1 .. Len(s)
        BY <4>2
      <4>4. DOMAIN s = {}
        BY <4>2, <4>3
      <4>5. QED
        BY <4>4 DEF s
    <3>8. InSock(sock'[c]) = {}
      BY <3>3, <3>7 DEF InSock
    <3>9. \A x \in Mine(c) : x[1] = "sock"
      BY <3>2, <3>5 DEF Mine
    <3>10. Own("inbox", inbox, c) = {} /\ OwnFrame("frame", frame, c) = {}
           /\ OwnFrames("down", down, c) = {} /\ OwnFrames("up", up, c) = {}
           /\ OwnFrame("answer", answer, c) = {}
      BY <3>9, Places DEF Mine
    <3>11. Mine(c)' = {}
      BY <1>1, <3>3, <3>8, <3>10 DEF Mine
    <3>12. QED
      BY <3>3, <3>11
  <2>4. QED
    BY <2>2, <2>3
<1>6. CASE msg_timeout(d)
  <2>1. /\ at' = [at EXCEPT ![d] = IF d \in Interactive THEN "idle" ELSE "gone"]
        /\ unpaired' = [unpaired EXCEPT ![d] = @ + 1]
        /\ UNCHANGED <<asked, sock, inbox>>
    BY <1>6 DEF msg_timeout
  <2>2. CASE d # c
    <3>1. unpaired'[c] = unpaired[c] /\ at'[c] = at[c] /\ asked'[c] = asked[c]
      BY <1>3, <2>1, <2>2
    <3>2. Mine(c)' \subseteq Mine(c)
      BY <1>1, <2>1 DEF Mine
    <3>3. QED
      BY <1>2, <3>1, <3>2, Shrunk
  <2>3. CASE d = c
    <3>1. unpaired'[c] # 0
      BY <1>3, <2>1, <2>3
    <3>2. QED
      BY <3>1 DEF Paired
  <2>4. QED
    BY <2>2, <2>3
<1>7. QED
  BY <1>4, <1>5, <1>6

\* A request is numbered: what was at the head of the inbox is the frame in hand.
LEMMA PairedNumbers ==
    ASSUME TypeOK, udp_recv, NEW c \in Clients, Paired(c)
    PROVE  Paired(c)'
<1> DEFINE f == [y \in Mine(c) |->
                  IF y[1] = "inbox"
                  THEN IF y[2] = 1 THEN <<"frame", 0, y[3]>> ELSE <<"inbox", y[2] - 1, y[3]>>
                  ELSE y]
<1>1. /\ UNCHANGED <<at, asked, unpaired, sock, down, up, answer>>
      /\ inbox \in Seq(CallType) /\ inbox # <<>> /\ inbox' = Tail(inbox)
      /\ frame' = Frame(curid, Head(inbox))
  BY DEF udp_recv, clientVars, lineVars, readVars, TypeOK, SenderOK
<1>2. ASSUME NEW x \in Mine(c)'
      PROVE  \E y \in Mine(c) : x = f[y] /\ x[3] = y[3]
  <2>1. CASE x \in Own("inbox", inbox', c)
    <3> DEFINE y == <<"inbox", x[2] + 1, x[3]>>
    <3>1. x = <<"inbox", x[2], x[3]>> /\ x[2] \in Nat \ {0} /\ y \in Own("inbox", inbox, c)
      BY <1>1, <2>1, OwnTail
    <3>2. y \in Mine(c) /\ y[1] = "inbox" /\ y[2] = x[2] + 1 /\ y[3] = x[3]
      BY <3>1 DEF Mine
    <3>3. y[2] # 1 /\ y[2] - 1 = x[2]
      BY <3>1, <3>2
    <3> HIDE DEF y
    <3>4. f[y] = <<"inbox", x[2], x[3]>>
      BY <3>2, <3>3
    <3>5. QED
      BY <3>1, <3>2, <3>4
  <2>2. CASE x \in OwnFrame("frame", frame', c)
    <3> DEFINE y == <<"inbox", 1, Head(inbox)>>
    <3>1. frame'.call = Head(inbox)
      BY <1>1 DEF Frame
    <3>2. x = <<"frame", 0, Head(inbox)>> /\ Head(inbox).from = c
      <4>1. x = <<"frame", 0, frame'.call>> /\ frame'.call.from = c
        BY <2>2, InHand
      <4>2. QED
        BY <3>1, <4>1
    <3>3. y \in Own("inbox", inbox, c)
      BY <1>1, <3>2, OwnTail
    <3>4. y \in Mine(c) /\ y[1] = "inbox" /\ y[2] = 1 /\ y[3] = x[3] /\ x[3] = Head(inbox)
      BY <3>2, <3>3 DEF Mine
    <3> HIDE DEF y
    <3>5. f[y] = x
      BY <3>2, <3>4
    <3>6. QED
      BY <3>4, <3>5
  <2>3. CASE x \in OwnFrames("down", down, c) \cup OwnFrames("up", up, c)
                   \cup OwnFrame("answer", answer, c) \cup InSock(sock[c])
    <3>1. x \in Mine(c) /\ x[1] # "inbox"
      BY <2>3, Places DEF Mine
    <3>2. QED
      BY <3>1
  <2>4. QED
    BY <1>1, <2>1, <2>2, <2>3 DEF Mine
<1> HIDE DEF f
<1>3. QED
  BY <1>1, <1>2, Moved

\* The frame in hand goes to the end of the line.
LEMMA PairedWrites ==
    ASSUME TypeOK, write, NEW c \in Clients, Paired(c)
    PROVE  Paired(c)'
<1> DEFINE f == [y \in Mine(c) |->
                  IF y[1] = "frame" THEN <<"down", Len(down) + 1, y[3]>> ELSE y]
<1>1. /\ UNCHANGED <<at, asked, unpaired, sock, inbox, up, answer>>
      /\ down \in Seq(FrameType) /\ frame \in FrameType /\ frame # NoFrame
      /\ down' = Append(down, frame) /\ frame' = NoFrame
  BY NoFrameDiffers DEF write, clientVars, readVars, TypeOK, SenderOK, LineOK
<1>2. ASSUME NEW x \in Mine(c)'
      PROVE  \E y \in Mine(c) : x = f[y] /\ x[3] = y[3]
  <2>1. CASE x = <<"down", Len(down) + 1, frame.call>> /\ frame.call.from = c
    <3> DEFINE y == <<"frame", 0, frame.call>>
    <3>1. y \in OwnFrame("frame", frame, c)
      BY <1>1, <2>1, InHand
    <3>2. y \in Mine(c) /\ y[1] = "frame" /\ y[3] = frame.call /\ x[3] = frame.call
      BY <2>1, <3>1 DEF Mine
    <3> HIDE DEF y
    <3>3. f[y] = x
      BY <2>1, <3>2
    <3>4. QED
      BY <3>2, <3>3
  <2>2. CASE x \in Own("inbox", inbox, c) \cup OwnFrames("down", down, c)
                   \cup OwnFrames("up", up, c) \cup OwnFrame("answer", answer, c)
                   \cup InSock(sock[c])
    <3>1. x \in Mine(c) /\ x[1] # "frame"
      BY <2>2, Places DEF Mine
    <3>2. QED
      BY <3>1
  <2>3. x \in OwnFrames("down", down', c) =>
           \/ x \in OwnFrames("down", down, c)
           \/ x = <<"down", Len(down) + 1, frame.call>> /\ frame.call.from = c
    BY <1>1, OwnAppend
  <2>4. OwnFrame("frame", frame', c) = {}
    BY <1>1, InHand
  <2>5. QED
    BY <1>1, <2>1, <2>2, <2>3, <2>4 DEF Mine
<1> HIDE DEF f
<1>3. QED
  BY <1>1, <1>2, Moved

\* The first request on the line is answered, or nothing comes of it.
LEMMA PairedLine ==
    ASSUME TypeOK, process \/ unread \/ lose_request, NEW c \in Clients, Paired(c)
    PROVE  Paired(c)'
<1> DEFINE f == [y \in Mine(c) |->
                  IF y[1] = "down"
                  THEN IF y[2] = 1 THEN <<"up", Len(up) + 1, y[3]>>
                                   ELSE <<"down", y[2] - 1, y[3]>>
                  ELSE y]
<1>1. /\ UNCHANGED <<at, asked, unpaired, sock, inbox, frame, answer>>
      /\ down \in Seq(FrameType) /\ down # <<>> /\ down' = Tail(down)
      /\ up \in Seq(FrameType) /\ up' \in {up, Append(up, Head(down))}
  BY DEF process, unread, lose_request, clientVars, sendVars, readVars, TypeOK, LineOK
<1>2. Head(down) \in FrameType
  BY <1>1
<1>3. ASSUME NEW x \in Mine(c)'
      PROVE  \E y \in Mine(c) : x = f[y] /\ x[3] = y[3]
  <2>1. CASE x \in OwnFrames("down", down', c)
    <3> DEFINE y == <<"down", x[2] + 1, x[3]>>
    <3>1. x = <<"down", x[2], x[3]>> /\ x[2] \in Nat \ {0} /\ y \in OwnFrames("down", down, c)
      BY <1>1, <2>1, OwnTail
    <3>2. y \in Mine(c) /\ y[1] = "down" /\ y[2] = x[2] + 1 /\ y[3] = x[3]
      BY <3>1 DEF Mine
    <3>3. y[2] # 1 /\ y[2] - 1 = x[2]
      BY <3>1, <3>2
    <3> HIDE DEF y
    <3>4. f[y] = <<"down", x[2], x[3]>>
      BY <3>2, <3>3
    <3>5. QED
      BY <3>1, <3>2, <3>4
  <2>2. CASE x = <<"up", Len(up) + 1, Head(down).call>> /\ Head(down).call.from = c
    <3> DEFINE y == <<"down", 1, Head(down).call>>
    <3>1. y \in OwnFrames("down", down, c)
      BY <1>1, <2>2, OwnTail
    <3>2. y \in Mine(c) /\ y[1] = "down" /\ y[2] = 1 /\ y[3] = x[3] /\ x[3] = Head(down).call
      BY <2>2, <3>1 DEF Mine
    <3> HIDE DEF y
    <3>3. f[y] = x
      BY <2>2, <3>2
    <3>4. QED
      BY <3>2, <3>3
  <2>3. CASE x \in Own("inbox", inbox, c) \cup OwnFrame("frame", frame, c)
                   \cup OwnFrames("up", up, c) \cup OwnFrame("answer", answer, c)
                   \cup InSock(sock[c])
    <3>1. x \in Mine(c) /\ x[1] # "down"
      BY <2>3, Places DEF Mine
    <3>2. QED
      BY <3>1
  <2>4. x \in OwnFrames("up", up', c) =>
           \/ x \in OwnFrames("up", up, c)
           \/ x = <<"up", Len(up) + 1, Head(down).call>> /\ Head(down).call.from = c
    <3>1. CASE up' = up
      BY <3>1
    <3>2. CASE up' = Append(up, Head(down))
      BY <1>1, <1>2, <3>2, OwnAppend
    <3>3. QED
      BY <1>1, <3>1, <3>2
  <2>5. QED
    BY <1>1, <2>1, <2>2, <2>3, <2>4 DEF Mine
<1> HIDE DEF f
<1>4. QED
  BY <1>1, <1>3, Moved

\* The first answer on the line is read or lost.
LEMMA PairedReads ==
    ASSUME TypeOK, read_answer \/ lose_answer, NEW c \in Clients, Paired(c)
    PROVE  Paired(c)'
<1> DEFINE f == [y \in Mine(c) |->
                  IF y[1] = "up"
                  THEN IF y[2] = 1 THEN <<"answer", 0, y[3]>> ELSE <<"up", y[2] - 1, y[3]>>
                  ELSE y]
<1>1. /\ UNCHANGED <<at, asked, unpaired, sock, inbox, frame, down>>
      /\ up \in Seq(FrameType) /\ up # <<>> /\ up' = Tail(up)
      /\ answer' \in {answer, Head(up)}
  BY DEF read_answer, lose_answer, clientVars, sendVars, readVars, TypeOK, LineOK
<1>2. ASSUME NEW x \in Mine(c)'
      PROVE  \E y \in Mine(c) : x = f[y] /\ x[3] = y[3]
  <2>1. CASE x \in OwnFrames("up", up', c)
    <3> DEFINE y == <<"up", x[2] + 1, x[3]>>
    <3>1. x = <<"up", x[2], x[3]>> /\ x[2] \in Nat \ {0} /\ y \in OwnFrames("up", up, c)
      BY <1>1, <2>1, OwnTail
    <3>2. y \in Mine(c) /\ y[1] = "up" /\ y[2] = x[2] + 1 /\ y[3] = x[3]
      BY <3>1 DEF Mine
    <3>3. y[2] # 1 /\ y[2] - 1 = x[2]
      BY <3>1, <3>2
    <3> HIDE DEF y
    <3>4. f[y] = <<"up", x[2], x[3]>>
      BY <3>2, <3>3
    <3>5. QED
      BY <3>1, <3>2, <3>4
  <2>2. CASE x \in OwnFrame("answer", Head(up), c)
    <3> DEFINE y == <<"up", 1, Head(up).call>>
    <3>1. x = <<"answer", 0, Head(up).call>> /\ Head(up).call.from = c
      BY <2>2, InHand
    <3>2. y \in OwnFrames("up", up, c)
      BY <1>1, <3>1, OwnTail
    <3>3. y \in Mine(c) /\ y[1] = "up" /\ y[2] = 1 /\ y[3] = x[3] /\ x[3] = Head(up).call
      BY <3>1, <3>2 DEF Mine
    <3> HIDE DEF y
    <3>4. f[y] = x
      BY <3>1, <3>3
    <3>5. QED
      BY <3>3, <3>4
  <2>3. CASE x \in Own("inbox", inbox, c) \cup OwnFrame("frame", frame, c)
                   \cup OwnFrames("down", down, c) \cup OwnFrame("answer", answer, c)
                   \cup InSock(sock[c])
    <3>1. x \in Mine(c) /\ x[1] # "up"
      BY <2>3, Places DEF Mine
    <3>2. QED
      BY <3>1
  <2>4. QED
    BY <1>1, <2>1, <2>2, <2>3 DEF Mine
<1> HIDE DEF f
<1>3. QED
  BY <1>1, <1>2, Moved

\* The answer goes to the client that has its number.
LEMMA PairedSends ==
    ASSUME TypeOK, sendto, NEW c \in Clients, Paired(c)
    PROVE  Paired(c)'
<1> DEFINE d == connections[answer.ctr]
<1>1. /\ UNCHANGED <<at, asked, inbox, frame, down, up>>
      /\ answer \in FrameType /\ answer # NoFrame /\ answer' = NoFrame
      /\ answer.call \in CallType
      /\ sock \in [Clients -> Seq(CallType)] /\ unpaired \in [Clients -> Nat]
  BY NoFrameDiffers
     DEF sendto, clientVars, sendVars, lineVars, TypeOK, ReaderOK, ClientsOK, FrameType
<1>2. OwnFrame("answer", answer', c) = {}
  BY <1>1, InHand
<1>3. ASSUME unpaired'[c] = unpaired[c], sock'[c] = sock[c]
      PROVE  Paired(c)'
  <2>1. Mine(c)' \subseteq Mine(c)
    BY <1>1, <1>2, <1>3 DEF Mine
  <2>2. QED
    BY <1>1, <1>3, <2>1, Shrunk
<1>4. CASE answer.ctr \notin DOMAIN connections
  BY <1>3, <1>4 DEF sendto, clientVars
<1>5. CASE answer.ctr \in DOMAIN connections
  <2>1. d \in Clients
    BY <1>5 DEF TypeOK, SenderOK
  <2>2. /\ sock' = IF at[d] = "gone" THEN sock
                   ELSE [sock EXCEPT ![d] = Append(sock[d], answer.call)]
        /\ unpaired' = [unpaired EXCEPT ![d] =
                          IF d = answer.call.from THEN @ ELSE @ + 1]
    BY <1>5 DEF sendto
  <2> HIDE DEF d
  <2>3. CASE d # c
    <3>1. unpaired'[c] = unpaired[c] /\ sock'[c] = sock[c]
      BY <1>1, <2>1, <2>2, <2>3
    <3>2. QED
      BY <1>3, <3>1
  <2>4. CASE d = c /\ answer.call.from # c
    <3>1. unpaired'[c] # 0
      BY <1>1, <2>1, <2>2, <2>4
    <3>2. QED
      BY <3>1 DEF Paired
  <2>5. CASE d = c /\ answer.call.from = c
    <3>1. unpaired'[c] = unpaired[c]
      BY <1>1, <2>1, <2>2, <2>5
    <3>2. CASE at[d] = "gone"
      BY <1>3, <2>2, <3>1, <3>2
    <3>3. CASE at[d] # "gone"
      <4> DEFINE f == [y \in Mine(c) |->
                        IF y[1] = "answer" THEN <<"sock", Len(sock[c]) + 1, y[3]>> ELSE y]
      <4>1. sock'[c] = Append(sock[c], answer.call) /\ sock[c] \in Seq(CallType)
        BY <1>1, <2>1, <2>2, <2>5, <3>3
      <4>2. ASSUME NEW x \in Mine(c)'
            PROVE  \E y \in Mine(c) : x = f[y] /\ x[3] = y[3]
        <5>1. CASE x = <<"sock", Len(sock[c]) + 1, answer.call>>
          <6> DEFINE y == <<"answer", 0, answer.call>>
          <6>1. y \in OwnFrame("answer", answer, c)
            BY <1>1, <2>5, InHand
          <6>2. y \in Mine(c) /\ y[1] = "answer" /\ y[3] = answer.call /\ x[3] = answer.call
            BY <5>1, <6>1 DEF Mine
          <6> HIDE DEF y
          <6>3. f[y] = x
            BY <5>1, <6>2
          <6>4. QED
            BY <6>2, <6>3
        <5>2. CASE x \in Own("inbox", inbox, c) \cup OwnFrame("frame", frame, c)
                         \cup OwnFrames("down", down, c) \cup OwnFrames("up", up, c)
                         \cup InSock(sock[c])
          <6>1. x \in Mine(c) /\ x[1] # "answer"
            BY <5>2, Places DEF Mine
          <6>2. QED
            BY <6>1
        <5>3. x \in InSock(sock'[c]) =>
                 x \in InSock(sock[c]) \/ x = <<"sock", Len(sock[c]) + 1, answer.call>>
          BY <1>1, <4>1, OwnAppend
        <5>4. QED
          BY <1>1, <1>2, <5>1, <5>2, <5>3 DEF Mine
      <4> HIDE DEF f
      <4>3. QED
        BY <1>1, <3>1, <4>2, Moved
    <3>4. QED
      BY <3>2, <3>3
  <2>6. QED
    BY <2>3, <2>4, <2>5
<1>6. QED
  BY <1>4, <1>5

\* Steps that move nothing, and a restart, which loses what the server has.
LEMMA PairedStays ==
    ASSUME TypeOK, wait_set \/ wait_timeout \/ clear \/ boot \/ restart \/ UNCHANGED vars,
           NEW c \in Clients, Paired(c)
    PROVE  Paired(c)'
<1>1. UNCHANGED <<at, asked, unpaired, sock, down, up>>
  BY DEF wait_set, wait_timeout, clear, boot, restart, vars, clientVars, lineVars
<1>2. CASE restart
  <2>1. inbox' = <<>> /\ frame' = NoFrame /\ answer' = NoFrame
    BY <1>2 DEF restart
  <2>2. DOMAIN inbox' = {}
    BY <2>1
  <2>3. Own("inbox", inbox', c) = {}
    BY <2>2 DEF Own
  <2>4. Mine(c)' \subseteq Mine(c)
    BY <1>1, <2>1, <2>3, InHand DEF Mine
  <2>5. QED
    BY <1>1, <2>4, Shrunk
<1>3. CASE ~restart
  <2>1. UNCHANGED <<inbox, frame, answer>>
    BY <1>3 DEF wait_set, wait_timeout, clear, boot, vars, sendVars, readVars
  <2>2. Mine(c)' \subseteq Mine(c)
    BY <1>1, <2>1 DEF Mine
  <2>3. QED
    BY <1>1, <2>2, Shrunk
<1>4. QED
  BY <1>2, <1>3

\* Every step keeps the pairing.
LEMMA NextPaired ==
    ASSUME TypeOK, PairInv, [Next]_vars
    PROVE  PairInv'
<1>1. SUFFICES ASSUME NEW c \in Clients PROVE Paired(c)'
  BY DEF PairInv
<1>2. Paired(c)
  BY DEF PairInv
<1>3. CASE \E d \in Clients : call(d) \/ msg_return(d) \/ msg_timeout(d)
  BY <1>3, PairedReturns
<1>4. CASE udp_recv \/ write \/ process \/ unread \/ lose_request
  BY <1>2, <1>4, PairedNumbers, PairedWrites, PairedLine
<1>5. CASE read_answer \/ lose_answer \/ sendto
  BY <1>2, <1>5, PairedReads, PairedSends
<1>6. CASE wait_set \/ wait_timeout \/ clear \/ boot \/ restart \/ UNCHANGED vars
  BY <1>2, <1>6, PairedStays
<1>7. QED
  BY <1>3, <1>4, <1>5, <1>6 DEF Next, udprecv, main_thread

\* FixedSize is a function of the command.
LEMMA FixedSizes ==
    ASSUME NEW f \in FixedSize
    PROVE  (CHOOSE g \in FixedSize : g[1] = f[1]) = f
<1>1. \A g \in FixedSize : g[1] = f[1] => g = f
  BY DEF FixedSize
<1>2. QED
  BY <1>1

\* The answer to a request of fixed size.
LEMMA FixedReply ==
    ASSUME NEW r, NEW f \in FixedSize, r.pid = 1, r.cmd = f[1], r.len = f[2]
    PROVE  Reply(r) = f[3]
<1>1. Reply(r) = tlay2_monitor(r)
  BY DEF Reply
<1>2. r.cmd # 0
  BY DEF FixedSize
<1>3. r.cmd # 3 /\ r.cmd # 4 /\ r.cmd # 7 /\ r.cmd # 8
  BY DEF FixedSize
<1>4. \E g \in FixedSize : g[1] = r.cmd /\ g[2] = r.len
  OBVIOUS
<1>5. (CHOOSE g \in FixedSize : g[1] = r.cmd) = f
  BY FixedSizes
<1>6. QED
  BY <1>1, <1>2, <1>3, <1>4, <1>5 DEF tlay2_monitor

\* Every tool that waits is answered, with as much as it unpacks.
LEMMA ToolsUnpack == \A t \in Tools : Unpacks(t)
<1>1. \A t \in tlay2_monitor_py : Unpacks(t)
  BY FixedReply DEF tlay2_monitor_py, Tool, Unpacks, Reply, tlay2_monitor, FixedSize,
     monitor_functions, NoReply, Page
<1>2. \A t \in vgadisp_py : Unpacks(t)
  BY DEF vgadisp_py, Tool, Unpacks, Reply, tlay2_monitor, FixedSize, monitor_functions, NoReply
<1>3. \A t \in tlay2_v86_monitor_py : Unpacks(t)
  BY DEF tlay2_v86_monitor_py, Tool, Unpacks, Reply, tlay2_v86_monitor, NoReply
<1>4. \A t \in pnp_py : Unpacks(t)
  BY DEF pnp_py, Tool, Unpacks, Reply, tlay2_pnp_monitor, NoReply
<1>5. QED
  BY <1>1, <1>2, <1>3, <1>4 DEF Tools

\* msg (tlay2_client.py:24-26) takes the first datagram in the socket.  For any
\* number of clients and calls, with any losses and restarts of the server, that
\* is the answer to its own last call unless something has put the client out of
\* step; and the answer to every tool is as long as the tool unpacks.
THEOREM OwnAnswerAlways == Spec => OwnAnswer
<1>1. Init => PairInv
  <2> SUFFICES ASSUME Init, NEW c \in Clients PROVE Paired(c)
    BY DEF PairInv
  <2>1. DOMAIN inbox = {} /\ DOMAIN down = {} /\ DOMAIN up = {} /\ DOMAIN sock[c] = {}
    BY DEF Init
  <2>2. Own("inbox", inbox, c) = {} /\ OwnFrames("down", down, c) = {}
        /\ OwnFrames("up", up, c) = {} /\ InSock(sock[c]) = {}
    BY <2>1 DEF Own, OwnFrames, InSock
  <2>3. OwnFrame("frame", frame, c) = {} /\ OwnFrame("answer", answer, c) = {}
    BY InHand DEF Init
  <2>4. Mine(c) = {} /\ at[c] = "idle"
    BY <2>2, <2>3 DEF Mine, Init
  <2>5. QED
    BY <2>4 DEF Paired
<1>2. ASSUME TypeOK, PairInv, NEW c \in Clients, msg_return(c), unpaired[c] = 0
      PROVE  Head(sock[c]) = asked[c]
  <2>1. sock[c] \in Seq(CallType) /\ sock[c] # <<>>
    BY <1>2 DEF TypeOK, ClientsOK, msg_return
  <2>2. 1 \in DOMAIN sock[c] /\ Head(sock[c]) = sock[c][1]
    BY <2>1
  <2>3. <<"sock", 1, sock[c][1]>> \in Mine(c)
    BY <2>2 DEF Mine, InSock
  <2>4. <<"sock", 1, sock[c][1]>>[3] = asked[c]
    BY <1>2, <2>3 DEF PairInv, Paired
  <2>5. QED
    BY <2>2, <2>4
<1>3. TypeOK /\ PairInv
      => [\A c \in Clients :
            (msg_return(c) /\ unpaired[c] = 0)
            => /\ Head(sock[c]) = asked[c]
               /\ \A t \in Tools : Unpacks(t)]_vars
  BY <1>2, ToolsUnpack
<1>4. QED
  BY <1>1, <1>3, InitType, NextType, NextPaired, PTL DEF Spec, OwnAnswer
-----------------------------------------------------------------------------
(* Where each call is *)

\* The traces that the calls of client c have left: a datagram or a frame that
\* somebody holds, an answer that was sent to somebody, or a call that is gone.
Sent(c) == {<<"sent", d[2], d[1]>> : d \in {d \in delivered : d[1].from = c}}
Gone(c) == {<<"lost", 0, l>> : l \in {l \in lost : l.from = c}}

Traces(c) ==
    Own("inbox", inbox, c) \cup OwnFrame("frame", frame, c)
    \cup OwnFrames("down", down, c) \cup OwnFrames("up", up, c)
    \cup OwnFrame("answer", answer, c) \cup Sent(c) \cup Gone(c)

\* Every call made has left exactly one.
Traced(c) ==
    /\ \A x, y \in Traces(c) : x[3].k = y[3].k => x = y
    /\ \A k \in 1 .. made[c] : \E x \in Traces(c) : x[3].k = k
    /\ \A x \in Traces(c) : x[3].k \in 1 .. made[c]

\* A step that only carries them on.
LEMMA Carried ==
    ASSUME NEW c \in Clients, Traced(c), made'[c] = made[c], NEW f,
           \A x \in Traces(c)' : \E y \in Traces(c) : x = f[y] /\ x[3] = y[3],
           \A y \in Traces(c) : f[y] \in Traces(c)' /\ f[y][3] = y[3]
    PROVE  Traced(c)'
<1>1. \A x, y \in Traces(c)' : x[3].k = y[3].k => x = y
  <2> SUFFICES ASSUME NEW x \in Traces(c)', NEW y \in Traces(c)', x[3].k = y[3].k
               PROVE  x = y
    OBVIOUS
  <2>1. PICK v \in Traces(c) : x = f[v] /\ x[3] = v[3]
    OBVIOUS
  <2>2. PICK w \in Traces(c) : y = f[w] /\ y[3] = w[3]
    OBVIOUS
  <2>3. v = w
    BY <2>1, <2>2 DEF Traced
  <2>4. QED
    BY <2>1, <2>2, <2>3
<1>2. \A k \in 1 .. made'[c] : \E x \in Traces(c)' : x[3].k = k
  <2> SUFFICES ASSUME NEW k \in 1 .. made[c]
               PROVE  \E x \in Traces(c)' : x[3].k = k
    OBVIOUS
  <2>1. PICK y \in Traces(c) : y[3].k = k
    BY DEF Traced
  <2>2. f[y] \in Traces(c)' /\ f[y][3].k = k
    BY <2>1
  <2>3. QED
    BY <2>2
<1>3. \A x \in Traces(c)' : x[3].k \in 1 .. made'[c]
  <2> SUFFICES ASSUME NEW x \in Traces(c)' PROVE x[3].k \in 1 .. made[c]
    OBVIOUS
  <2>1. PICK y \in Traces(c) : x[3] = y[3]
    OBVIOUS
  <2>2. QED
    BY <2>1 DEF Traced
<1>4. QED
  BY <1>1, <1>2, <1>3 DEF Traced

\* In particular one that leaves them where they are.
LEMMA Untouched ==
    ASSUME NEW c \in Clients, Traced(c), made'[c] = made[c], Traces(c)' = Traces(c)
    PROVE  Traced(c)'
BY DEF Traced

\* What a step at one end of a queue does to the rest of it.
LEMMA OwnTailOn ==
    ASSUME NEW S, NEW q \in Seq(S), q # <<>>, NEW p, NEW c
    PROVE  /\ \A y \in Own(p, q, c) :
                 y[2] \in Nat
                 /\ IF y[2] = 1 THEN y[3] = Head(q)
                                ELSE <<p, y[2] - 1, y[3]>> \in Own(p, Tail(q), c)
           /\ \A y \in OwnFrames(p, q, c) :
                 y[2] \in Nat
                 /\ IF y[2] = 1 THEN y[3] = Head(q).call
                                ELSE <<p, y[2] - 1, y[3]>> \in OwnFrames(p, Tail(q), c)
<1>1. Len(q) \in Nat \ {0} /\ DOMAIN q = 1 .. Len(q) /\ Head(q) = q[1]
  OBVIOUS
<1>2. Len(Tail(q)) = Len(q) - 1 /\ \A i \in 1 .. Len(q) - 1 : Tail(q)[i] = q[i + 1]
  OBVIOUS
<1>3. DOMAIN Tail(q) = 1 .. Len(q) - 1
  BY <1>1, <1>2
<1>4. \A i \in DOMAIN q :
         i \in Nat /\ (i # 1 => i - 1 \in DOMAIN Tail(q) /\ Tail(q)[i - 1] = q[i])
  BY <1>1, <1>2, <1>3
<1>5. ASSUME NEW y \in Own(p, q, c)
      PROVE  /\ y[2] \in Nat
             /\ IF y[2] = 1 THEN y[3] = Head(q)
                            ELSE <<p, y[2] - 1, y[3]>> \in Own(p, Tail(q), c)
  <2>1. PICK i \in DOMAIN q : q[i].from = c /\ y = <<p, i, q[i]>>
    BY DEF Own
  <2>2. y[2] = i /\ y[3] = q[i]
    BY <2>1
  <2>3. i # 1 => <<p, i - 1, q[i]>> \in Own(p, Tail(q), c)
    BY <1>4, <2>1 DEF Own
  <2>4. QED
    BY <1>1, <1>4, <2>2, <2>3
<1>6. ASSUME NEW y \in OwnFrames(p, q, c)
      PROVE  /\ y[2] \in Nat
             /\ IF y[2] = 1 THEN y[3] = Head(q).call
                            ELSE <<p, y[2] - 1, y[3]>> \in OwnFrames(p, Tail(q), c)
  <2>1. PICK i \in DOMAIN q : q[i].call.from = c /\ y = <<p, i, q[i].call>>
    BY DEF OwnFrames
  <2>2. y[2] = i /\ y[3] = q[i].call
    BY <2>1
  <2>3. i # 1 => <<p, i - 1, q[i].call>> \in OwnFrames(p, Tail(q), c)
    BY <1>4, <2>1 DEF OwnFrames
  <2>4. QED
    BY <1>1, <1>4, <2>2, <2>3
<1>7. QED
  BY <1>5, <1>6

LEMMA OwnAppendOn ==
    ASSUME NEW S, NEW q \in Seq(S), NEW e \in S, NEW p, NEW c
    PROVE  /\ Own(p, Append(q, e), c)
                = Own(p, q, c) \cup (IF e.from = c THEN {<<p, Len(q) + 1, e>>} ELSE {})
           /\ OwnFrames(p, Append(q, e), c)
                = OwnFrames(p, q, c)
                  \cup (IF e.call.from = c THEN {<<p, Len(q) + 1, e.call>>} ELSE {})
<1>1. DOMAIN q = 1 .. Len(q) /\ DOMAIN Append(q, e) = 1 .. Len(q) + 1 /\ Len(q) \in Nat
  OBVIOUS
<1>2. /\ \A i \in DOMAIN q : i \in DOMAIN Append(q, e) /\ Append(q, e)[i] = q[i]
      /\ Append(q, e)[Len(q) + 1] = e /\ Len(q) + 1 \in DOMAIN Append(q, e)
  BY <1>1
<1>3. Own(p, q, c) \subseteq Own(p, Append(q, e), c)
  BY <1>2 DEF Own
<1>4. OwnFrames(p, q, c) \subseteq OwnFrames(p, Append(q, e), c)
  BY <1>2 DEF OwnFrames
<1>5. e.from = c => <<p, Len(q) + 1, e>> \in Own(p, Append(q, e), c)
  BY <1>2 DEF Own
<1>6. e.call.from = c => <<p, Len(q) + 1, e.call>> \in OwnFrames(p, Append(q, e), c)
  BY <1>2 DEF OwnFrames
<1>7. QED
  BY <1>3, <1>4, <1>5, <1>6, OwnAppend

\* The head of a queue at place p, a call h, goes to z; the others move up.
Dequeues(c, p, h, z, A, B, R) ==
    /\ made'[c] = made[c] /\ z[3] = h
    /\ Traces(c) = A \cup R
    /\ Traces(c)' = B \cup R \cup (IF h.from = c THEN {z} ELSE {})
    /\ \A x \in R : x[1] # p
    /\ \A y \in A : y[1] = p /\ y[2] \in Nat /\ y[3].from = c
                    /\ IF y[2] = 1 THEN y[3] = h ELSE <<p, y[2] - 1, y[3]>> \in B
    /\ \A x \in B : x = <<p, x[2], x[3]>> /\ x[2] \in Nat \ {0}
                    /\ <<p, x[2] + 1, x[3]>> \in A
    /\ h.from = c => <<p, 1, h>> \in A

LEMMA Dequeued ==
    ASSUME NEW c \in Clients, Traced(c), NEW p, NEW h, NEW z, NEW A, NEW B, NEW R,
           Dequeues(c, p, h, z, A, B, R)
    PROVE  Traced(c)'
<1> USE DEF Dequeues
<1> DEFINE f == [y \in Traces(c) |->
                  IF y[1] = p
                  THEN IF y[2] = 1 THEN z ELSE <<p, y[2] - 1, y[3]>>
                  ELSE y]
<1>1. ASSUME NEW x \in Traces(c)'
      PROVE  \E y \in Traces(c) : x = f[y] /\ x[3] = y[3]
  <2>1. CASE x \in R
    BY <2>1
  <2>2. CASE x \in B
    <3> DEFINE y == <<p, x[2] + 1, x[3]>>
    <3>1. x = <<p, x[2], x[3]>> /\ x[2] \in Nat \ {0} /\ y \in A
      BY <2>2
    <3>2. y \in Traces(c) /\ y[1] = p /\ y[2] # 1 /\ y[2] - 1 = x[2] /\ y[3] = x[3]
      BY <3>1
    <3> HIDE DEF y
    <3>3. f[y] = <<p, x[2], x[3]>>
      BY <3>2
    <3>4. QED
      BY <3>1, <3>2, <3>3
  <2>3. CASE x = z /\ h.from = c
    <3> DEFINE y == <<p, 1, h>>
    <3>1. y \in Traces(c) /\ y[1] = p /\ y[2] = 1 /\ y[3] = h
      BY <2>3
    <3> HIDE DEF y
    <3>2. f[y] = z
      BY <3>1
    <3>3. QED
      BY <2>3, <3>1, <3>2
  <2>4. QED
    BY <2>1, <2>2, <2>3
<1>2. ASSUME NEW y \in Traces(c)
      PROVE  f[y] \in Traces(c)' /\ f[y][3] = y[3]
  <2>1. CASE y \in R
    BY <2>1
  <2>2. CASE y \in A /\ y[2] = 1
    <3>1. f[y] = z /\ y[3] = h /\ h.from = c
      BY <2>2
    <3>2. QED
      BY <3>1
  <2>3. CASE y \in A /\ y[2] # 1
    <3>1. f[y] = <<p, y[2] - 1, y[3]>> /\ <<p, y[2] - 1, y[3]>> \in B
      BY <2>3
    <3>2. f[y][3] = y[3]
      BY <3>1
    <3>3. QED
      BY <3>1, <3>2
  <2>4. QED
    BY <2>1, <2>2, <2>3
<1> HIDE DEF f
<1>3. QED
  BY <1>1, <1>2, Carried

\* What is held at place p, a call h, goes to z.
Hands(c, p, h, z, R) ==
    /\ made'[c] = made[c] /\ z[3] = h
    /\ Traces(c) = R \cup (IF h.from = c THEN {<<p, 0, h>>} ELSE {})
    /\ Traces(c)' = R \cup (IF h.from = c THEN {z} ELSE {})
    /\ \A x \in R : x[1] # p

LEMMA HandedOn ==
    ASSUME NEW c \in Clients, Traced(c), NEW p, NEW h, NEW z, NEW R,
           Hands(c, p, h, z, R)
    PROVE  Traced(c)'
<1> USE DEF Hands
<1> DEFINE f == [y \in Traces(c) |-> IF y[1] = p THEN z ELSE y]
<1>1. <<p, 0, h>>[1] = p /\ <<p, 0, h>>[3] = h
  OBVIOUS
<1>2. ASSUME NEW x \in Traces(c)'
      PROVE  \E y \in Traces(c) : x = f[y] /\ x[3] = y[3]
  <2>1. CASE x \in R
    BY <2>1
  <2>2. CASE x = z /\ h.from = c
    <3>1. <<p, 0, h>> \in Traces(c)
      BY <2>2
    <3>2. f[<<p, 0, h>>] = z
      BY <1>1, <3>1
    <3>3. QED
      BY <1>1, <2>2, <3>1, <3>2
  <2>3. QED
    BY <2>1, <2>2
<1>3. ASSUME NEW y \in Traces(c)
      PROVE  f[y] \in Traces(c)' /\ f[y][3] = y[3]
  <2>1. CASE y \in R
    BY <2>1
  <2>2. CASE y = <<p, 0, h>> /\ h.from = c
    BY <1>1, <2>2
  <2>3. QED
    BY <2>1, <2>2
<1> HIDE DEF f
<1>4. QED
  BY <1>2, <1>3, Carried

\* What a call adds to what is sent or gone, and the places of all these.
LEMMA Fates ==
    ASSUME NEW c, NEW h, NEW d
    PROVE  /\ lost' = lost \cup {h}
              => Gone(c)' = Gone(c) \cup (IF h.from = c THEN {<<"lost", 0, h>>} ELSE {})
           /\ delivered' = delivered \cup {<<h, d>>}
              => Sent(c)' = Sent(c) \cup (IF h.from = c THEN {<<"sent", d, h>>} ELSE {})
           /\ \A x \in Gone(c) : x[1] = "lost" /\ x[3].from = c
           /\ \A x \in Sent(c) : x[1] = "sent" /\ x[3].from = c
<1>1. <<h, d>>[1] = h /\ <<h, d>>[2] = d
  OBVIOUS
<1>2. delivered' = delivered \cup {<<h, d>>}
      => Sent(c)' = Sent(c) \cup (IF h.from = c THEN {<<"sent", d, h>>} ELSE {})
  <2> SUFFICES ASSUME delivered' = delivered \cup {<<h, d>>}
               PROVE  Sent(c)' = Sent(c) \cup (IF h.from = c THEN {<<"sent", d, h>>} ELSE {})
    OBVIOUS
  <2>1. {e \in delivered' : e[1].from = c}
          = {e \in delivered : e[1].from = c} \cup (IF h.from = c THEN {<<h, d>>} ELSE {})
    BY <1>1
  <2>2. CASE h.from = c
    BY <1>1, <2>1, <2>2 DEF Sent
  <2>3. CASE h.from # c
    BY <2>1, <2>3 DEF Sent
  <2>4. QED
    BY <2>2, <2>3
<1>3. lost' = lost \cup {h}
      => Gone(c)' = Gone(c) \cup (IF h.from = c THEN {<<"lost", 0, h>>} ELSE {})
  BY DEF Gone
<1>4. QED
  BY <1>2, <1>3 DEF Gone, Sent

\* A queue of datagrams, or of frames, whose head is taken.
LEMMA OwnMoves ==
    ASSUME NEW S, NEW q \in Seq(S), q # <<>>, NEW p, NEW c
    PROVE  /\ \A y \in Own(p, q, c) :
                 y[1] = p /\ y[2] \in Nat /\ y[3].from = c
                 /\ IF y[2] = 1 THEN y[3] = Head(q)
                                ELSE <<p, y[2] - 1, y[3]>> \in Own(p, Tail(q), c)
           /\ \A x \in Own(p, Tail(q), c) :
                 x = <<p, x[2], x[3]>> /\ x[2] \in Nat \ {0}
                 /\ <<p, x[2] + 1, x[3]>> \in Own(p, q, c)
           /\ Head(q).from = c => <<p, 1, Head(q)>> \in Own(p, q, c)
           /\ \A y \in OwnFrames(p, q, c) :
                 y[1] = p /\ y[2] \in Nat /\ y[3].from = c
                 /\ IF y[2] = 1 THEN y[3] = Head(q).call
                                ELSE <<p, y[2] - 1, y[3]>> \in OwnFrames(p, Tail(q), c)
           /\ \A x \in OwnFrames(p, Tail(q), c) :
                 x = <<p, x[2], x[3]>> /\ x[2] \in Nat \ {0}
                 /\ <<p, x[2] + 1, x[3]>> \in OwnFrames(p, q, c)
           /\ Head(q).call.from = c => <<p, 1, Head(q).call>> \in OwnFrames(p, q, c)
<1>1. \A y \in Own(p, q, c) : y[3].from = c
  BY DEF Own
<1>2. \A y \in OwnFrames(p, q, c) : y[3].from = c
  BY DEF OwnFrames
<1>3. QED
  BY <1>1, <1>2, OwnTail, OwnTailOn, Places

LEMMA HeldTrace ==
    ASSUME NEW p, NEW f, f # NoFrame, NEW c
    PROVE  OwnFrame(p, f, c) = IF f.call.from = c THEN {<<p, 0, f.call>>} ELSE {}
BY DEF OwnFrame

\* A client makes a call, or goes on.
LEMMA TracedCalls ==
    ASSUME TypeOK, NEW d \in Clients, call(d) \/ msg_return(d) \/ msg_timeout(d),
           NEW c \in Clients, Traced(c)
    PROVE  Traced(c)'
<1>1. UNCHANGED <<frame, down, up, answer, delivered, lost>>
  BY DEF call, msg_return, msg_timeout, sendVars, lineVars, readVars, fateVars
<1>2. CASE call(d)
  <2>1. PICK r \in Menu[d] : asked' = [asked EXCEPT ![d] = Call(d, made'[d], r)]
    BY <1>2 DEF call
  <2>2. /\ inbox' = Append(inbox, asked'[d]) /\ made' = [made EXCEPT ![d] = @ + 1]
        /\ made \in [Clients -> Nat] /\ inbox \in Seq(CallType)
        /\ asked \in [Clients -> CallType \cup {NoFrame}]
    BY <1>2 DEF call, TypeOK, ClientsOK, SenderOK
  <2>3. asked'[d] = Call(d, made[d] + 1, r)
    BY <2>1, <2>2
  <2>4. asked'[d].from = d /\ asked'[d].k = made[d] + 1 /\ asked'[d] \in CallType
    BY <2>2, <2>3 DEF Call, CallType
  <2> DEFINE z == <<"inbox", Len(inbox) + 1, asked'[d]>>
  <2>5. Own("inbox", inbox', c)
          = Own("inbox", inbox, c) \cup (IF d = c THEN {z} ELSE {})
    BY <2>2, <2>4, OwnAppendOn
  <2>6. Traces(c)' = Traces(c) \cup (IF d = c THEN {z} ELSE {})
    BY <1>1, <2>5 DEF Traces, Sent, Gone
  <2>7. z[3].k = made[d] + 1
    BY <2>4
  <2> HIDE DEF z
  <2>8. CASE d # c
    <3>1. Traces(c)' = Traces(c) /\ made'[c] = made[c]
      BY <2>2, <2>6, <2>8
    <3>2. QED
      BY <3>1, Untouched
  <2>9. CASE d = c
    <3>1. made'[c] = made[c] + 1 /\ made[c] \in Nat /\ z[3].k = made[c] + 1
          /\ Traces(c)' = Traces(c) \cup {z}
      BY <2>2, <2>6, <2>7, <2>9
    <3>2. QED
      BY <3>1 DEF Traced
  <2>10. QED
    BY <2>8, <2>9
<1>3. CASE msg_return(d) \/ msg_timeout(d)
  <2>1. UNCHANGED <<inbox, made>>
    BY <1>3 DEF msg_return, msg_timeout
  <2>2. Traces(c)' = Traces(c)
    BY <1>1, <2>1 DEF Traces, Sent, Gone
  <2>3. QED
    BY <2>1, <2>2, Untouched
<1>4. QED
  BY <1>2, <1>3

\* The server takes a datagram.
LEMMA TracedRecv ==
    ASSUME TypeOK, udp_recv, NEW c \in Clients, Traced(c)
    PROVE  Traced(c)'
<1> DEFINE h == Head(inbox)
           A == Own("inbox", inbox, c)
           B == Own("inbox", Tail(inbox), c)
           R == OwnFrames("down", down, c) \cup OwnFrames("up", up, c)
                \cup OwnFrame("answer", answer, c) \cup Sent(c) \cup Gone(c)
<1>1. /\ UNCHANGED <<made, down, up, answer, delivered, lost>>
      /\ inbox \in Seq(CallType) /\ inbox # <<>> /\ inbox' = Tail(inbox)
      /\ frame = NoFrame /\ frame' = Frame(curid, h) /\ pc' = "wait"
  BY DEF udp_recv, TypeOK, SenderOK, clientVars, lineVars, readVars, fateVars
<1>2. frame'.call = h /\ frame' # NoFrame
  <2>1. TypeOK'
    BY TypeRecv
  <2>2. frame' \in FrameType
    BY <1>1, <2>1 DEF TypeOK, SenderOK
  <2>3. QED
    BY <1>1, <2>2, NoFrameDiffers DEF Frame
<1>3. OwnFrame("frame", frame, c) = {}
  BY <1>1, InHand
<1>4. Traces(c) = A \cup R
  BY <1>3 DEF Traces
<1>5. \A x \in R : x[1] # "inbox"
  BY Places, Fates
<1>6. /\ \A y \in A : y[1] = "inbox" /\ y[2] \in Nat /\ y[3].from = c
                      /\ IF y[2] = 1 THEN y[3] = h ELSE <<"inbox", y[2] - 1, y[3]>> \in B
      /\ \A x \in B : x = <<"inbox", x[2], x[3]>> /\ x[2] \in Nat \ {0}
                      /\ <<"inbox", x[2] + 1, x[3]>> \in A
      /\ h.from = c => <<"inbox", 1, h>> \in A
  <2>1. inbox \in Seq(CallType) /\ inbox # <<>>
    BY <1>1
  <2>2. QED
    BY <2>1, OwnMoves
<1>7. PICK z : z[3] = h /\ Traces(c)' = B \cup R \cup (IF h.from = c THEN {z} ELSE {})
  <2> DEFINE z == <<"frame", 0, h>>
  <2>1. OwnFrame("frame", frame', c) = IF h.from = c THEN {z} ELSE {}
    BY <1>2, HeldTrace
  <2>2. Traces(c)' = B \cup R \cup (IF h.from = c THEN {z} ELSE {})
    BY <1>1, <2>1 DEF Traces, Sent, Gone
  <2>3. z[3] = h
    OBVIOUS
  <2>4. QED
    BY <2>2, <2>3
<1> HIDE DEF h, A, B, R
<1>8. made'[c] = made[c]
  BY <1>1
<1>9. Dequeues(c, "inbox", h, z, A, B, R)
  BY <1>4, <1>5, <1>6, <1>7, <1>8 DEF Dequeues
<1>10. QED
  BY <1>9, Dequeued

\* It writes the frame of it.
LEMMA TracedWrite ==
    ASSUME TypeOK, write, NEW c \in Clients, Traced(c)
    PROVE  Traced(c)'
<1> DEFINE h == frame.call
           R == Own("inbox", inbox, c) \cup OwnFrames("down", down, c)
                \cup OwnFrames("up", up, c) \cup OwnFrame("answer", answer, c)
                \cup Sent(c) \cup Gone(c)
<1>1. /\ UNCHANGED <<made, inbox, up, answer, delivered, lost>>
      /\ down \in Seq(FrameType) /\ frame \in FrameType /\ frame # NoFrame
      /\ down' = Append(down, frame) /\ frame' = NoFrame
  BY NoFrameDiffers DEF write, TypeOK, SenderOK, LineOK, clientVars, readVars, fateVars
<1>2. OwnFrame("frame", frame, c) = IF h.from = c THEN {<<"frame", 0, h>>} ELSE {}
  BY <1>1, HeldTrace
<1>3. OwnFrame("frame", frame', c) = {}
  BY <1>1, InHand
<1>4. Traces(c) = R \cup (IF h.from = c THEN {<<"frame", 0, h>>} ELSE {})
  BY <1>2 DEF Traces
<1>5. \A x \in R : x[1] # "frame"
  BY Places, Fates
<1>6. PICK z : z[3] = h /\ Traces(c)' = R \cup (IF h.from = c THEN {z} ELSE {})
  <2> DEFINE z == <<"down", Len(down) + 1, h>>
  <2>1. OwnFrames("down", down', c)
          = OwnFrames("down", down, c) \cup (IF h.from = c THEN {z} ELSE {})
    BY <1>1, OwnAppendOn
  <2>2. Traces(c)' = R \cup (IF h.from = c THEN {z} ELSE {})
    BY <1>1, <1>3, <2>1 DEF Traces, Sent, Gone
  <2>3. z[3] = h
    OBVIOUS
  <2>4. QED
    BY <2>2, <2>3
<1> HIDE DEF h, R
<1>7. made'[c] = made[c]
  BY <1>1
<1>8. Hands(c, "frame", h, z, R)
  BY <1>4, <1>5, <1>6, <1>7 DEF Hands
<1>9. QED
  BY <1>8, HandedOn

\* The first request on the line is answered, or nothing comes of it.
LEMMA TracedLine ==
    ASSUME TypeOK, process \/ unread \/ lose_request, NEW c \in Clients, Traced(c)
    PROVE  Traced(c)'
<1> DEFINE h == Head(down).call
           A == OwnFrames("down", down, c)
           B == OwnFrames("down", Tail(down), c)
           R == Own("inbox", inbox, c) \cup OwnFrame("frame", frame, c)
                \cup OwnFrames("up", up, c) \cup OwnFrame("answer", answer, c)
                \cup Sent(c) \cup Gone(c)
<1>1. /\ UNCHANGED <<made, inbox, frame, answer, delivered>>
      /\ down \in Seq(FrameType) /\ down # <<>> /\ down' = Tail(down)
      /\ up \in Seq(FrameType)
      /\ \/ up' = Append(up, Head(down)) /\ lost' = lost
         \/ up' = up /\ lost' = lost \cup {h}
  BY DEF process, unread, lose_request, clientVars, sendVars, readVars, TypeOK, LineOK
<1>2. Traces(c) = A \cup R
  BY DEF Traces
<1>3. \A x \in R : x[1] # "down"
  BY Places, Fates
<1>4. /\ \A y \in A : y[1] = "down" /\ y[2] \in Nat /\ y[3].from = c
                      /\ IF y[2] = 1 THEN y[3] = h ELSE <<"down", y[2] - 1, y[3]>> \in B
      /\ \A x \in B : x = <<"down", x[2], x[3]>> /\ x[2] \in Nat \ {0}
                      /\ <<"down", x[2] + 1, x[3]>> \in A
      /\ h.from = c => <<"down", 1, h>> \in A
  <2>1. down \in Seq(FrameType) /\ down # <<>>
    BY <1>1
  <2>2. QED
    BY <2>1, OwnMoves
<1>5. PICK z : z[3] = h /\ Traces(c)' = B \cup R \cup (IF h.from = c THEN {z} ELSE {})
  <2>1. CASE up' = Append(up, Head(down)) /\ lost' = lost
    <3> DEFINE z == <<"up", Len(up) + 1, h>>
    <3>1. Head(down) \in FrameType
      BY <1>1
    <3>2. OwnFrames("up", up', c)
            = OwnFrames("up", up, c) \cup (IF h.from = c THEN {z} ELSE {})
      BY <1>1, <2>1, <3>1, OwnAppendOn
    <3>3. Traces(c)' = B \cup R \cup (IF h.from = c THEN {z} ELSE {})
      BY <1>1, <2>1, <3>2 DEF Traces, Sent, Gone
    <3>4. z[3] = h
      OBVIOUS
    <3>5. QED
      BY <3>3, <3>4
  <2>2. CASE up' = up /\ lost' = lost \cup {h}
    <3> DEFINE z == <<"lost", 0, h>>
    <3>1. Gone(c)' = Gone(c) \cup (IF h.from = c THEN {z} ELSE {})
      BY <2>2, Fates
    <3>2. Traces(c)' = B \cup R \cup (IF h.from = c THEN {z} ELSE {})
      BY <1>1, <2>2, <3>1 DEF Traces, Sent
    <3>3. z[3] = h
      OBVIOUS
    <3>4. QED
      BY <3>2, <3>3
  <2>3. QED
    BY <1>1, <2>1, <2>2
<1> HIDE DEF h, A, B, R
<1>6. made'[c] = made[c]
  BY <1>1
<1>7. Dequeues(c, "down", h, z, A, B, R)
  BY <1>2, <1>3, <1>4, <1>5, <1>6 DEF Dequeues
<1>8. QED
  BY <1>7, Dequeued

\* The first answer on the line is read or lost.
LEMMA TracedReads ==
    ASSUME TypeOK, read_answer \/ lose_answer, NEW c \in Clients, Traced(c)
    PROVE  Traced(c)'
<1> DEFINE h == Head(up).call
           A == OwnFrames("up", up, c)
           B == OwnFrames("up", Tail(up), c)
           R == Own("inbox", inbox, c) \cup OwnFrame("frame", frame, c)
                \cup OwnFrames("down", down, c) \cup OwnFrame("answer", answer, c)
                \cup Sent(c) \cup Gone(c)
<1>1. /\ UNCHANGED <<made, inbox, frame, down, delivered>>
      /\ up \in Seq(FrameType) /\ up # <<>> /\ up' = Tail(up)
      /\ \/ answer = NoFrame /\ answer' = Head(up) /\ lost' = lost
         \/ answer' = answer /\ lost' = lost \cup {h}
  BY DEF read_answer, lose_answer, clientVars, sendVars, readVars, fateVars, TypeOK,
         LineOK, ReaderOK
<1>2. Traces(c) = A \cup R
  BY DEF Traces
<1>3. \A x \in R : x[1] # "up"
  BY Places, Fates
<1>4. /\ \A y \in A : y[1] = "up" /\ y[2] \in Nat /\ y[3].from = c
                      /\ IF y[2] = 1 THEN y[3] = h ELSE <<"up", y[2] - 1, y[3]>> \in B
      /\ \A x \in B : x = <<"up", x[2], x[3]>> /\ x[2] \in Nat \ {0}
                      /\ <<"up", x[2] + 1, x[3]>> \in A
      /\ h.from = c => <<"up", 1, h>> \in A
  <2>1. up \in Seq(FrameType) /\ up # <<>>
    BY <1>1
  <2>2. QED
    BY <2>1, OwnMoves
<1>5. PICK z : z[3] = h /\ Traces(c)' = B \cup R \cup (IF h.from = c THEN {z} ELSE {})
  <2>1. CASE answer = NoFrame /\ answer' = Head(up) /\ lost' = lost
    <3> DEFINE z == <<"answer", 0, h>>
    <3>1. Head(up) # NoFrame
      BY <1>1, NoFrameDiffers
    <3>2. OwnFrame("answer", answer', c) = IF h.from = c THEN {z} ELSE {}
      BY <2>1, <3>1, HeldTrace
    <3>3. OwnFrame("answer", answer, c) = {}
      BY <2>1, InHand
    <3>4. Traces(c)' = B \cup R \cup (IF h.from = c THEN {z} ELSE {})
      BY <1>1, <2>1, <3>2, <3>3 DEF Traces, Sent, Gone
    <3>5. z[3] = h
      OBVIOUS
    <3>6. QED
      BY <3>4, <3>5
  <2>2. CASE answer' = answer /\ lost' = lost \cup {h}
    <3> DEFINE z == <<"lost", 0, h>>
    <3>1. Gone(c)' = Gone(c) \cup (IF h.from = c THEN {z} ELSE {})
      BY <2>2, Fates
    <3>2. Traces(c)' = B \cup R \cup (IF h.from = c THEN {z} ELSE {})
      BY <1>1, <2>2, <3>1 DEF Traces, Sent
    <3>3. z[3] = h
      OBVIOUS
    <3>4. QED
      BY <3>2, <3>3
  <2>3. QED
    BY <1>1, <2>1, <2>2
<1> HIDE DEF h, A, B, R
<1>6. made'[c] = made[c]
  BY <1>1
<1>7. Dequeues(c, "up", h, z, A, B, R)
  BY <1>2, <1>3, <1>4, <1>5, <1>6 DEF Dequeues
<1>8. QED
  BY <1>7, Dequeued

\* The answer is sent, or its number is unknown.
LEMMA TracedSends ==
    ASSUME TypeOK, sendto, NEW c \in Clients, Traced(c)
    PROVE  Traced(c)'
<1> DEFINE h == answer.call
           R == Own("inbox", inbox, c) \cup OwnFrame("frame", frame, c)
                \cup OwnFrames("down", down, c) \cup OwnFrames("up", up, c)
                \cup Sent(c) \cup Gone(c)
<1>1. /\ UNCHANGED <<made, inbox, frame, down, up>>
      /\ answer # NoFrame /\ answer' = NoFrame
      /\ \/ delivered' = delivered /\ lost' = lost \cup {h}
         \/ lost' = lost /\ delivered' = delivered \cup {<<h, connections[answer.ctr]>>}
  BY NoFrameDiffers DEF sendto, clientVars, sendVars, lineVars, TypeOK, ReaderOK
<1>2. OwnFrame("answer", answer, c) = IF h.from = c THEN {<<"answer", 0, h>>} ELSE {}
  BY <1>1, HeldTrace
<1>3. OwnFrame("answer", answer', c) = {}
  BY <1>1, InHand
<1>4. Traces(c) = R \cup (IF h.from = c THEN {<<"answer", 0, h>>} ELSE {})
  BY <1>2 DEF Traces
<1>5. \A x \in R : x[1] # "answer"
  BY Places, Fates
<1>6. PICK z : z[3] = h /\ Traces(c)' = R \cup (IF h.from = c THEN {z} ELSE {})
  <2>1. CASE delivered' = delivered /\ lost' = lost \cup {h}
    <3> DEFINE z == <<"lost", 0, h>>
    <3>1. Gone(c)' = Gone(c) \cup (IF h.from = c THEN {z} ELSE {})
      BY <2>1, Fates
    <3>2. Traces(c)' = R \cup (IF h.from = c THEN {z} ELSE {})
      BY <1>1, <1>3, <2>1, <3>1 DEF Traces, Sent
    <3>3. z[3] = h
      OBVIOUS
    <3>4. QED
      BY <3>2, <3>3
  <2>2. CASE lost' = lost /\ delivered' = delivered \cup {<<h, connections[answer.ctr]>>}
    <3> DEFINE z == <<"sent", connections[answer.ctr], h>>
    <3>1. Sent(c)' = Sent(c) \cup (IF h.from = c THEN {z} ELSE {})
      BY <2>2, Fates
    <3>2. Traces(c)' = R \cup (IF h.from = c THEN {z} ELSE {})
      BY <1>1, <1>3, <2>2, <3>1 DEF Traces, Gone
    <3>3. z[3] = h
      OBVIOUS
    <3>4. QED
      BY <3>2, <3>3
  <2>3. QED
    BY <1>1, <2>1, <2>2
<1> HIDE DEF h, R
<1>7. made'[c] = made[c]
  BY <1>1
<1>8. Hands(c, "answer", h, z, R)
  BY <1>4, <1>5, <1>6, <1>7 DEF Hands
<1>9. QED
  BY <1>8, HandedOn

\* A restart loses what the server holds.
LEMMA TracedRestart ==
    ASSUME TypeOK, restart, NEW c \in Clients, Traced(c)
    PROVE  Traced(c)'
<1> DEFINE Here == {"inbox", "frame", "answer"}
           f == [y \in Traces(c) |->
                  IF y[1] \in Here THEN <<"lost", 0, y[3]>> ELSE y]
           H == Own("inbox", inbox, c) \cup OwnFrame("frame", frame, c)
                \cup OwnFrame("answer", answer, c)
           R == OwnFrames("down", down, c) \cup OwnFrames("up", up, c)
                \cup Sent(c) \cup Gone(c)
<1>1. /\ UNCHANGED <<made, down, up, delivered>>
      /\ inbox' = <<>> /\ frame' = NoFrame /\ answer' = NoFrame
      /\ lost' = lost \cup {inbox[i] : i \in DOMAIN inbox}
                      \cup (IF frame = NoFrame THEN {} ELSE {frame.call})
                      \cup (IF answer = NoFrame THEN {} ELSE {answer.call})
  BY DEF restart, clientVars, lineVars
<1>2. Traces(c) = H \cup R
  BY DEF Traces
<1>3. Traces(c)' = R \cup Gone(c)'
  <2>1. DOMAIN inbox' = {}
    BY <1>1
  <2>2. Own("inbox", inbox', c) = {}
    BY <2>1 DEF Own
  <2>3. OwnFrame("frame", frame', c) = {} /\ OwnFrame("answer", answer', c) = {}
    BY <1>1, InHand
  <2>4. Gone(c) \subseteq Gone(c)'
    BY <1>1 DEF Gone
  <2>5. QED
    BY <1>1, <2>2, <2>3, <2>4 DEF Traces, Sent
<1>4. \A y \in H : y[1] \in Here /\ <<"lost", 0, y[3]>> \in Gone(c)'
  <2>1. \A y \in Own("inbox", inbox, c) : y[3] \in lost' /\ y[3].from = c
    BY <1>1 DEF Own
  <2>2. \A y \in OwnFrame("frame", frame, c) : y[3] \in lost' /\ y[3].from = c
    BY <1>1 DEF OwnFrame
  <2>3. \A y \in OwnFrame("answer", answer, c) : y[3] \in lost' /\ y[3].from = c
    BY <1>1 DEF OwnFrame
  <2>4. \A y \in H : <<"lost", 0, y[3]>> \in Gone(c)'
    BY <2>1, <2>2, <2>3 DEF Gone
  <2>5. QED
    BY <2>4, Places
<1>5. \A y \in R : y[1] \notin Here
  BY Places, Fates
<1>6. \A x \in Gone(c)' : x \in R \/ \E y \in H : x = <<"lost", 0, y[3]>>
  <2> SUFFICES ASSUME NEW l \in lost', l.from = c
               PROVE  <<"lost", 0, l>> \in Gone(c) \/ \E y \in H : y[3] = l
    BY DEF Gone
  <2>1. CASE l \in lost
    BY <2>1 DEF Gone
  <2>2. CASE \E i \in DOMAIN inbox : l = inbox[i]
    <3>1. PICK i \in DOMAIN inbox : l = inbox[i]
      BY <2>2
    <3>2. <<"inbox", i, l>> \in Own("inbox", inbox, c) /\ <<"inbox", i, l>>[3] = l
      BY <3>1 DEF Own
    <3>3. QED
      BY <3>2
  <2>3. CASE frame # NoFrame /\ l = frame.call
    <3>1. <<"frame", 0, l>> \in OwnFrame("frame", frame, c) /\ <<"frame", 0, l>>[3] = l
      BY <2>3, InHand
    <3>2. QED
      BY <3>1
  <2>4. CASE answer # NoFrame /\ l = answer.call
    <3>1. <<"answer", 0, l>> \in OwnFrame("answer", answer, c) /\ <<"answer", 0, l>>[3] = l
      BY <2>4, InHand
    <3>2. QED
      BY <3>1
  <2>5. QED
    BY <1>1, <2>1, <2>2, <2>3, <2>4
<1> HIDE DEF H, R, Here
<1>7. ASSUME NEW x \in Traces(c)'
      PROVE  \E y \in Traces(c) : x = f[y] /\ x[3] = y[3]
  <2>1. CASE x \in R
    <3>1. x \in Traces(c) /\ f[x] = x
      BY <1>2, <1>5, <2>1
    <3>2. QED
      BY <3>1
  <2>2. CASE x \notin R
    <3>1. PICK y \in H : x = <<"lost", 0, y[3]>>
      BY <1>3, <1>6, <2>2
    <3>2. y \in Traces(c) /\ f[y] = x /\ x[3] = y[3]
      BY <1>2, <1>4, <3>1
    <3>3. QED
      BY <3>2
  <2>3. QED
    BY <2>1, <2>2
<1>8. ASSUME NEW y \in Traces(c)
      PROVE  f[y] \in Traces(c)' /\ f[y][3] = y[3]
  <2>1. CASE y \in H
    <3>1. f[y] = <<"lost", 0, y[3]>>
      BY <1>4, <2>1
    <3>2. QED
      BY <1>3, <1>4, <2>1, <3>1
  <2>2. CASE y \in R
    BY <1>3, <1>5, <2>2
  <2>3. QED
    BY <1>2, <2>1, <2>2
<1> HIDE DEF f
<1>9. made'[c] = made[c]
  BY <1>1
<1>10. QED
  BY <1>7, <1>8, <1>9, Carried

LEMMA NextTraced ==
    ASSUME TypeOK, NEW c \in Clients, Traced(c), [Next]_vars
    PROVE  Traced(c)'
<1>1. CASE \E d \in Clients : call(d) \/ msg_return(d) \/ msg_timeout(d)
  BY <1>1, TracedCalls
<1>2. CASE udp_recv \/ write \/ process \/ unread \/ lose_request
  BY <1>2, TracedRecv, TracedWrite, TracedLine
<1>3. CASE read_answer \/ lose_answer \/ sendto \/ restart
  BY <1>3, TracedReads, TracedSends, TracedRestart
<1>4. CASE wait_set \/ wait_timeout \/ clear \/ boot \/ UNCHANGED vars
  <2>1. UNCHANGED <<made, inbox, frame, down, up, answer, delivered, lost>>
    BY <1>4 DEF wait_set, wait_timeout, clear, boot, vars, clientVars, sendVars, lineVars,
                readVars, fateVars
  <2>2. Traces(c)' = Traces(c) /\ made'[c] = made[c]
    BY <2>1 DEF Traces, Sent, Gone
  <2>3. QED
    BY <2>2, Untouched
<1>5. QED
  BY <1>1, <1>2, <1>3, <1>4 DEF Next, udprecv, main_thread

\* tlay2_server.py:11-73.  Whatever the two threads do to each other, with any
\* losses and restarts: every call that was made is in exactly one place, or its
\* answer was sent to exactly one client, or it is lost.  So no request is written
\* and no answer sent twice, none vanishes unnoticed, and none that was lost is
\* answered after all.
OneTraceEach == \A c \in Clients : Traced(c)

THEOREM EachCallOnce == Spec => []OneTraceEach
<1>1. Init => OneTraceEach
  <2> SUFFICES ASSUME Init, NEW c \in Clients PROVE Traced(c)
    BY DEF OneTraceEach
  <2>1. DOMAIN inbox = {} /\ DOMAIN down = {} /\ DOMAIN up = {} /\ made[c] = 0
        /\ delivered = {} /\ lost = {}
    BY DEF Init
  <2>2. Own("inbox", inbox, c) = {} /\ OwnFrames("down", down, c) = {}
        /\ OwnFrames("up", up, c) = {} /\ Sent(c) = {} /\ Gone(c) = {}
    BY <2>1 DEF Own, OwnFrames, Sent, Gone
  <2>3. OwnFrame("frame", frame, c) = {} /\ OwnFrame("answer", answer, c) = {}
    BY InHand DEF Init
  <2>4. Traces(c) = {}
    BY <2>2, <2>3 DEF Traces
  <2>5. QED
    BY <2>1, <2>4 DEF Traced
<1>2. TypeOK /\ OneTraceEach /\ [Next]_vars => OneTraceEach'
  BY NextTraced DEF OneTraceEach
<1>3. QED
  BY <1>1, <1>2, InitType, NextType, PTL DEF Spec
=============================================================================
