------------------------------- MODULE Sched -------------------------------
(***************************************************************************)
(* The scheduler core of bezbios: the round-robin ring of thread control   *)
(* blocks, the idle loop bezbios_main, the timer interrupt with its list   *)
(* of delayed threads, and the wake-up of the serial reader by the UART    *)
(* interrupt.                                                              *)
(*                                                                         *)
(* One CPU.  Code between cli and sti (ENTER_ATOMIC/EXIT_ATOMIC) is one    *)
(* step; between two steps an interrupt may arrive, unless the thread on   *)
(* the CPU was resumed inside an atomic section.  The flags travel with    *)
(* the context (pushf/popf in switchcontext_int), so "interrupts enabled"  *)
(* is a fact about where the thread on the CPU stands.                     *)
(*                                                                         *)
(* Time is counted in timer ticks and a timeout is kept as the ticks left  *)
(* until timeout <= now; nothing else about the clock is observable here.  *)
(* A step whose effect the language leaves undefined sets fault, and the   *)
(* machine stops there: what follows is not this program any more.         *)
(***************************************************************************)
EXTENDS Integers, Sequences, FiniteSets

CONSTANTS
    Idle,       \* &idle_tcb
    None,       \* nullptr
    Tasks,      \* the threads made by BEZBIOS_CREATE_PROCESS
    Sleepers,   \* those that call bezbios_delay_ms
    Reader,     \* the one thread that calls bezbios_serial_recv, or None
    Exiters,    \* those whose function returns, into bezbios_sched_exit
    Delays,     \* the delays asked for, in ticks
    RxMax       \* what the receive fifo holds (FIFO_SIZE - 1)

ASSUME SchedAssumption ==
    /\ Idle \notin Tasks /\ None \notin Tasks /\ Idle # None
    /\ Sleepers \subseteq Tasks /\ Exiters \subseteq Tasks
    /\ Reader \in Tasks \cup {None}
    /\ Delays \subseteq Nat
    /\ RxMax \in Nat \ {0}

Threads == Tasks \cup {Idle}

VARIABLES
    ring,       \* the circular list of TCBs, in the order next is followed
    current,    \* current_tcb
    ready,      \* tcb->ready
    pc,         \* where each thread stands
    wait_tid,   \* the local of bezbios_main
    delayq,     \* the list at delay_head: who sleeps and how long still
    rx_cv,      \* rx_cv.wait_tid
    rx,         \* bytes in the receive fifo
    fault,      \* the undefined step that was taken, if any
    lost        \* history: why a parked thread has no one left to wake it

vars == <<ring, current, ready, pc, wait_tid, delayq, rx_cv, rx, fault, lost>>

(***************************************************************************)
(* Where a thread stands.                                                  *)
(*   delay_win     bezbios_delay_ms, on the list, interrupts enabled, about*)
(*                 to call free_cpu(0)                                     *)
(*   delay_ticked  the same, and a tick has come while it stood there      *)
(*   delay_wait    inside that free_cpu(0)                                 *)
(*   rx_wait       inside rx_cv.wait(), to go on with interrupts disabled  *)
(* and in bezbios_main                                                     *)
(*   scan          about to call rr_next_task                              *)
(*   chosen        wait_tid is read, its ready flag not yet cleared        *)
(*   dispatch      about to call switch_context(wait_tid)                  *)
(*   pre_cli       no thread found, about to disable interrupts            *)
(*   hlt           halted, interrupts enabled                              *)
(***************************************************************************)
TaskPC == {"absent", "user", "delay_win", "delay_ticked", "delay_wait",
           "rx_wait", "exited"}
IdlePC == {"boot", "scan", "chosen", "dispatch", "pre_cli", "hlt"}

TypeOK ==
    /\ ring \in Seq(Threads)
    /\ current \in Threads \cup {None}
    /\ ready \in [Threads -> BOOLEAN]
    /\ pc \in [Threads -> TaskPC \cup IdlePC]
    /\ pc[Idle] \in IdlePC
    /\ \A t \in Tasks : pc[t] \in TaskPC
    /\ wait_tid \in Threads
    /\ delayq \in Seq([tcb : Tasks, left : Int])
    /\ rx_cv \in {Reader, None}
    /\ rx \in 0 .. RxMax
    /\ fault \in {"none", "early_return", "resumed_exited"}
    /\ lost \in [Tasks -> {"no", "window", "unlinked"}]

-----------------------------------------------------------------------------
(* The ring. *)

InRing == {ring[i] : i \in DOMAIN ring}

Position(t) == CHOOSE i \in DOMAIN ring : ring[i] = t

\* How many times next is followed from the running thread to reach t.
Distance(t) == (Position(t) - Position(current)) % Len(ring)

\* Mutant: the ready flag is not tested.
Candidates_untested(rdy) == InRing \ {current}

Candidates(rdy) == {t \in InRing \ {current} : rdy[t]}

\* Mutant: every search starts at the same thread.
rr_next_task_from_head(rdy) ==
    IF Candidates(rdy) = {}
    THEN Idle
    ELSE CHOOSE t \in Candidates(rdy) :
            \A u \in Candidates(rdy) : Position(t) <= Position(u)

\* The first ready thread after the running one, which is not looked at
\* itself; idle when there is none, whether or not idle is marked ready.
rr_next_task(rdy) ==
    IF Candidates(rdy) = {}
    THEN Idle
    ELSE CHOOSE t \in Candidates(rdy) :
            \A u \in Candidates(rdy) : Distance(t) <= Distance(u)

\* Mutant: reschedule is ignored.
free_cpu_forgets(rdy, reschedule) ==
    LET next == rr_next_task(rdy)
    IN  /\ ready' = [rdy EXCEPT ![next] = FALSE, ![current] = FALSE]
        /\ current' = next

\* bezbios_sched_free_cpu, from the flags rdy: interrupts stay disabled from
\* the choice to the switch.
free_cpu(rdy, reschedule) ==
    LET next == rr_next_task(rdy)
    IN  /\ ready' = [rdy EXCEPT ![next] = FALSE, ![current] = reschedule]
        /\ current' = next

\* Mutant: reschedule is ignored.
sel_task_forgets(rdy, reschedule, sel) ==
    /\ ready' = [rdy EXCEPT ![current] = FALSE, ![sel] = FALSE]
    /\ current' = sel

\* bezbios_sched_sel_task.
sel_task(rdy, reschedule, sel) ==
    IF sel # current
    THEN /\ ready' = [rdy EXCEPT ![current] = reschedule, ![sel] = FALSE]
         /\ current' = sel
    ELSE /\ ready' = [rdy EXCEPT ![current] = reschedule]
         /\ UNCHANGED current

\* bezbios_sched_is_idle; a mutant that does not look at idle's ready flag.
is_idle_by_current(rdy) == current = Idle
is_idle(rdy) == current = Idle \/ ~rdy[Idle]

-----------------------------------------------------------------------------
(* The list of delayed threads. *)

ListedIn(q) == {q[i].tcb : i \in DOMAIN q}
Listed == ListedIn(delayq)

\* The length of the longest prefix of q whose timeouts are at most d.
Prefix(q, d) ==
    Cardinality({i \in DOMAIN q : \A j \in 1 .. i : q[j].left <= d})

\* bezbios_delay_ms links its node in.  In the middle or at the end it is put
\* after the last node that is not later.  At the front it is the old head
\* that is plugged after the new node, which has no successor yet: the old
\* head takes that null as its next, and what followed it is unlinked.
Insert(q, e) ==
    LET k == Prefix(q, e.left)
    IN  IF k = 0
        THEN <<e>> \o SubSeq(q, 1, IF q = <<>> THEN 0 ELSE 1)
        ELSE SubSeq(q, 1, k) \o <<e>> \o SubSeq(q, k + 1, Len(q))

\* Mutant: the clock stands still.
Ticked_stopped(q) == q

\* One tick brings every timeout nearer.
Ticked(q) == [i \in DOMAIN q |-> [q[i] EXCEPT !.left = @ - 1]]

-----------------------------------------------------------------------------
Init ==
    /\ ring = <<>>
    /\ current = None
    /\ ready = [t \in Threads |-> FALSE]
    /\ pc = [t \in Threads |-> IF t = Idle THEN "boot" ELSE "absent"]
    /\ wait_tid = Idle
    /\ delayq = <<>>
    /\ rx_cv = None
    /\ rx = 0
    /\ fault = "none"
    /\ lost = [t \in Tasks |-> "no"]

Alive == fault = "none"
Booted == pc[Idle] # "boot"
OnCPU(t) == Alive /\ Booted /\ current = t
Running(t, where) == OnCPU(t) /\ pc[t] = where
Goto(t, where) == pc' = [pc EXCEPT ![t] = where]

\* Boot: constructors run before bezbios_main, with interrupts already enabled
\* (interrupts.cpp:279).  The first thread made becomes current_tcb, though it
\* is not the one that runs, and every later one is plugged before it, that is
\* at the end of the round.
create_process(t) ==
    /\ Alive
    /\ ~Booted /\ pc[t] = "absent"
    /\ ring' = Append(ring, t)
    /\ current' = IF current = None THEN t ELSE current
    /\ ready' = [ready EXCEPT ![t] = TRUE]
    /\ Goto(t, "user")
    /\ UNCHANGED <<wait_tid, delayq, rx_cv, rx, fault, lost>>

\* bezbios_main up to sti.  Every process object has been constructed.
start_idle ==
    /\ Alive
    /\ ~Booted /\ \A t \in Tasks : pc[t] # "absent"
    /\ ring' = Append(ring, Idle)
    /\ current' = Idle
    /\ ready' = [ready EXCEPT ![Idle] = FALSE]
    /\ Goto(Idle, "scan")
    /\ UNCHANGED <<wait_tid, delayq, rx_cv, rx, fault, lost>>

-----------------------------------------------------------------------------
(* The idle loop. *)

idle_scan ==
    /\ Running(Idle, "scan")
    /\ wait_tid' = rr_next_task(ready)
    /\ Goto(Idle, IF wait_tid' # Idle THEN "chosen" ELSE "pre_cli")
    /\ UNCHANGED <<ring, current, ready, delayq, rx_cv, rx, fault, lost>>

idle_clear_ready ==
    /\ Running(Idle, "chosen")
    /\ ready' = [ready EXCEPT ![wait_tid] = FALSE]
    /\ Goto(Idle, "dispatch")
    /\ UNCHANGED <<ring, current, wait_tid, delayq, rx_cv, rx, fault, lost>>

\* The switch goes to wait_tid whatever has become of it since it was chosen.
idle_dispatch ==
    /\ Running(Idle, "dispatch")
    /\ current' = wait_tid
    /\ fault' = IF pc[wait_tid] = "exited" THEN "resumed_exited" ELSE fault
    /\ Goto(Idle, "scan")
    /\ UNCHANGED <<ring, ready, wait_tid, delayq, rx_cv, rx, lost>>

\* Mutant: no second look.
idle_halt_at_once ==
    /\ Running(Idle, "pre_cli")
    /\ Goto(Idle, "hlt")
    /\ UNCHANGED <<ring, current, ready, wait_tid, delayq, rx_cv, rx, fault,
                   lost>>

\* cli, look again, and only then sti; hlt: an interrupt is taken no earlier
\* than in the halt.
idle_halt ==
    /\ Running(Idle, "pre_cli")
    /\ Goto(Idle, IF rr_next_task(ready) # Idle THEN "scan" ELSE "hlt")
    /\ UNCHANGED <<ring, current, ready, wait_tid, delayq, rx_cv, rx, fault,
                   lost>>

idle_step == idle_scan \/ idle_clear_ready \/ idle_dispatch \/ idle_halt

-----------------------------------------------------------------------------
(* Threads. *)

\* Mutant: the timeout is one tick short.
delay_enlist_short(t, d) ==
    /\ t \in Sleepers
    /\ Running(t, "user")
    /\ delayq' = Insert(delayq, [tcb |-> t, left |-> d - 1])
    /\ Goto(t, "delay_win")
    /\ UNCHANGED <<ring, current, ready, wait_tid, rx_cv, rx, fault, lost>>

\* bezbios_delay_ms up to EXIT_ATOMIC.
delay_enlist(t, d) ==
    /\ t \in Sleepers
    /\ Running(t, "user")
    /\ delayq' = Insert(delayq, [tcb |-> t, left |-> d])
    /\ lost' = [u \in Tasks |->
                  IF u \in Listed /\ u \notin ListedIn(delayq')
                  THEN "unlinked" ELSE lost[u]]
    /\ Goto(t, "delay_win")
    /\ UNCHANGED <<ring, current, ready, wait_tid, rx_cv, rx, fault>>

\* Mutant: free_cpu(1).
delay_park_ready(t) ==
    /\ OnCPU(t) /\ pc[t] \in {"delay_win", "delay_ticked"}
    /\ free_cpu(ready, TRUE)
    /\ Goto(t, "delay_wait")
    /\ UNCHANGED <<ring, wait_tid, delayq, rx_cv, rx, fault, lost>>

\* free_cpu(0) at its end.  If the timer has already taken the thread off the
\* list, the wake-up it stored in the ready flag is overwritten here.
delay_park(t) ==
    /\ OnCPU(t) /\ pc[t] \in {"delay_win", "delay_ticked"}
    /\ free_cpu(ready, FALSE)
    /\ lost' = [lost EXCEPT ![t] = IF @ = "no" /\ t \notin Listed
                                   THEN "window" ELSE @]
    /\ Goto(t, "delay_wait")
    /\ UNCHANGED <<ring, wait_tid, delayq, rx_cv, rx, fault>>

\* free_cpu(0) has returned, and so does bezbios_delay_ms: its node is gone
\* with its stack frame, so it must not be on the list any more.
delay_return(t) ==
    /\ Running(t, "delay_wait")
    /\ fault' = IF t \in Listed THEN "early_return" ELSE fault
    /\ Goto(t, "user")
    /\ UNCHANGED <<ring, current, ready, wait_tid, delayq, rx_cv, rx, lost>>

\* Mutant: wait_tid is stored only when free_cpu(0) has returned.
serial_recv_late(t) ==
    /\ t = Reader
    /\ OnCPU(t) /\ pc[t] \in {"user", "rx_wait"}
    /\ IF rx > 0
       THEN /\ rx' = rx - 1
            /\ Goto(t, "user")
            /\ UNCHANGED <<current, ready>>
       ELSE /\ free_cpu(ready, FALSE)
            /\ Goto(t, "rx_wait")
            /\ UNCHANGED rx
    /\ UNCHANGED <<ring, wait_tid, delayq, rx_cv, fault, lost>>

\* bezbios_serial_recv from its entry, and after rx_cv.wait(): one atomic
\* section, left with a byte, or through free_cpu(0) when there is none.
serial_recv(t) ==
    /\ t = Reader
    /\ OnCPU(t) /\ pc[t] \in {"user", "rx_wait"}
    /\ IF rx > 0
       THEN /\ rx' = rx - 1
            /\ Goto(t, "user")
            /\ UNCHANGED <<current, ready, rx_cv>>
       ELSE /\ rx_cv' = t
            /\ free_cpu(ready, FALSE)
            /\ Goto(t, "rx_wait")
            /\ UNCHANGED rx
    /\ UNCHANGED <<ring, wait_tid, delayq, fault, lost>>

\* Mutant: bezbios_sched_free_cpu(1) is called instead.
sched_exit_reschedules(t) ==
    /\ t \in Exiters
    /\ Running(t, "user")
    /\ free_cpu(ready, TRUE)
    /\ Goto(t, "exited")
    /\ UNCHANGED <<ring, wait_tid, delayq, rx_cv, rx, fault, lost>>

\* bezbios_sched_exit: the TCB stays in the ring, and the next thread is
\* switched to with its ready flag as it is.
sched_exit(t) ==
    /\ t \in Exiters
    /\ Running(t, "user")
    /\ ready' = [ready EXCEPT ![t] = FALSE]
    /\ current' = rr_next_task(ready')
    /\ Goto(t, "exited")
    /\ UNCHANGED <<ring, wait_tid, delayq, rx_cv, rx, fault, lost>>

task_step(t) ==
    \/ \E d \in Delays : delay_enlist(t, d)
    \/ delay_park(t)
    \/ delay_return(t)
    \/ serial_recv(t)
    \/ sched_exit(t)

-----------------------------------------------------------------------------
(* Interrupts. *)

\* Whom an interrupt interrupts: before bezbios_main it is the boot code, which
\* becomes idle, whatever current_tcb says.
Interruptee == IF Booted THEN current ELSE Idle

IntEnabled == Alive /\ pc[Interruptee] # "rx_wait"

\* Mutant: after an interrupt the CPU halts again.
Interrupted_halts(where) == IF where = "delay_ticked" THEN "delay_win" ELSE where

\* Where the interrupted thread goes on: the halt is over, and a thread taken
\* off the CPU has no tick counted against its window.
Interrupted(where) ==
    CASE where = "hlt" -> "scan"
      [] where = "delay_ticked" -> "delay_win"
      [] OTHER -> where

\* The timer: expired threads are made ready, then the running thread gives
\* way if is_idle says no.  A thread in the few instructions of its window
\* sees at most one tick there while it keeps the CPU.
PIT_IRQ ==
    /\ IntEnabled
    /\ pc[Interruptee] # "delay_ticked"
    /\ LET q     == Ticked(delayq)
           n     == Prefix(q, 0)
           woken == {q[i].tcb : i \in 1 .. n}
           rdy   == [t \in Threads |-> ready[t] \/ t \in woken]
       IN  /\ delayq' = SubSeq(q, n + 1, Len(q))
           /\ IF is_idle(rdy)
              THEN /\ ready' = rdy
                   /\ UNCHANGED current
                   /\ Goto(Interruptee, IF pc[Interruptee] = "delay_win"
                                        THEN "delay_ticked"
                                        ELSE Interrupted(pc[Interruptee]))
              ELSE /\ free_cpu(rdy, TRUE)
                   /\ Goto(Interruptee, Interrupted(pc[Interruptee]))
    /\ UNCHANGED <<ring, wait_tid, rx_cv, rx, fault, lost>>

\* Mutant: notify does not clear wait_tid.
UART_IRQ_armed ==
    /\ IntEnabled
    /\ Reader # None /\ rx < RxMax
    /\ \E n \in rx + 1 .. RxMax : rx' = n
    /\ IF rx_cv = None
       THEN /\ UNCHANGED <<current, ready>>
            /\ Goto(Interruptee, Interrupted(pc[Interruptee]))
       ELSE /\ sel_task([ready EXCEPT ![rx_cv] = TRUE], TRUE, rx_cv)
            /\ Goto(Interruptee, Interrupted(pc[Interruptee]))
    /\ UNCHANGED <<ring, wait_tid, delayq, rx_cv, fault, lost>>

\* The receiver: bytes move to the fifo until it is full (where the receive
\* interrupt has been masked), and a waiting reader gets the CPU at once,
\* even from idle.
UART_IRQ ==
    /\ IntEnabled
    /\ Reader # None /\ rx < RxMax
    /\ \E n \in rx + 1 .. RxMax : rx' = n
    /\ IF rx_cv = None
       THEN /\ UNCHANGED <<current, ready, rx_cv>>
            /\ Goto(Interruptee, IF pc[Interruptee] = "hlt"
                                 THEN "scan" ELSE pc[Interruptee])
       ELSE /\ sel_task([ready EXCEPT ![rx_cv] = TRUE], TRUE, rx_cv)
            /\ rx_cv' = None
            /\ Goto(Interruptee, Interrupted(pc[Interruptee]))
    /\ UNCHANGED <<ring, wait_tid, delayq, fault, lost>>

\* After a fault nothing is claimed.
Stopped == ~Alive /\ UNCHANGED vars

Next ==
    \/ \E t \in Tasks : create_process(t)
    \/ start_idle
    \/ idle_step
    \/ \E t \in Tasks : task_step(t)
    \/ PIT_IRQ
    \/ UART_IRQ
    \/ Stopped

Spec == Init /\ [][Next]_vars

(***************************************************************************)
(* The timer keeps ticking: a tick that comes while interrupts are off is  *)
(* latched by the interrupt controller until they are on.  A thread, and   *)
(* idle, gets the CPU in slices; the work done in them adds up, so if it   *)
(* has the CPU again and again it reaches its next kernel call.            *)
(***************************************************************************)
Fairness ==
    /\ \A t \in Tasks : WF_vars(create_process(t)) /\ SF_vars(task_step(t))
    /\ WF_vars(start_idle)
    /\ SF_vars(idle_step)
    /\ SF_vars(PIT_IRQ)

FairSpec == Spec /\ Fairness

-----------------------------------------------------------------------------
(* Properties. *)

\* The thread idle has taken out of the ready set and is about to switch to.
InHand(t) == pc[Idle] = "dispatch" /\ wait_tid = t

\* sched_main.cpp:34-45.  The CPU halts only when no thread is ready: a thread
\* that an interrupt makes ready after the loop looked is seen by the second
\* look under cli, or its interrupt ends the halt.
HaltSound ==
    pc[Idle] = "hlt" => current = Idle /\ \A t \in Tasks : ~ready[t]

\* A thread that is off the CPU and has not exited is ready, or is held by
\* whoever will make it ready: the delay list, the reader's condition
\* variable, idle's wait_tid.  The two ways out, recorded in lost, are a
\* timeout that fires between the enlisting and the parking of
\* bezbios_delay_ms and a node cut off when another is put in front.
NoTaskForgotten ==
    Alive /\ Booted =>
        \A t \in Tasks \ {current} :
            \/ pc[t] = "exited"
            \/ ready[t]
            \/ pc[t] = "delay_wait" /\ (t \in Listed \/ lost[t] # "no")
            \/ pc[t] = "rx_wait" /\ rx_cv = t
            \/ InHand(t)

\* The reader is parked with its condition variable armed only on an empty
\* fifo: the check and the parking are one atomic section (uart.cpp:144-159),
\* so no byte slips in between them.
ReaderParksEmpty == rx_cv # None => rx = 0 /\ pc[rx_cv] = "rx_wait"

\* The ring holds the threads that have been made, once booted all of them and
\* idle; whoever is switched to is one of them.  Until then no thread has run
\* and idle is not ready, which keeps the timer from switching.
RingInv ==
    IF Booted
    THEN InRing = Threads /\ current \in Threads
    ELSE /\ InRing = {t \in Tasks : pc[t] # "absent"}
         /\ current = None \/ current \in InRing
         /\ \A t \in InRing : ready[t]
         /\ ~ready[Idle] /\ rx_cv = None /\ delayq = <<>>

\* While idle is between its choice of the reader and the switch to it, the
\* reader's condition variable is not armed, so no interrupt takes the CPU
\* from idle and the choice is still good when it is acted on.
ReaderInv ==
    /\ rx_cv # None =>
          /\ pc[rx_cv] = "rx_wait" /\ rx = 0
          /\ current # rx_cv /\ ~ready[rx_cv]
    /\ pc[Idle] \in {"chosen", "dispatch"} /\ wait_tid = Reader =>
          current = Idle /\ rx_cv = None

\* A node is on the delay list only while its thread is inside
\* bezbios_delay_ms, where the node's stack frame exists.
ListedInv ==
    Alive => \A t \in Listed :
                pc[t] \in {"delay_win", "delay_ticked", "delay_wait"}

\* TypeOK and the properties above, made inductive.
SchedInv ==
    /\ TypeOK /\ RingInv /\ HaltSound
    /\ ReaderInv /\ ListedInv /\ NoTaskForgotten

\* Until bezbios_main has become idle no interrupt takes the CPU: current_tcb
\* names a thread whose stack is not the one in use, and a switch would store
\* the stack of the boot code there (sched_low.cpp:28-50, timerPIT.cpp:57).
BootUndisturbed ==
    [][~Booted /\ ring' = ring => current' = current]_vars

\* A thread gets the CPU while it is parked and no one has woken it only from
\* the idle loop, which acts on a choice made with interrupts enabled
\* (sched_main.cpp:29-32); free_cpu and the interrupts never do that.
StaleOnlyFromIdle ==
    [][\A t \in Tasks :
          /\ Alive /\ current # t /\ current' = t
          /\ \/ pc[t] = "exited"
             \/ pc[t] = "delay_wait" /\ t \in ListedIn(delayq') /\ ~ready[t]
          => current = Idle /\ pc[Idle] = "dispatch"]_vars

\* bezbios_delay_ms never returns before its timeout, with its node still on
\* the list and its stack frame gone.
DelayNotEarly == fault # "early_return"

\* No exited thread is switched to.
ExitedStayExited == fault # "resumed_exited"

\* No thread sleeps for ever.
NoTaskLost == \A t \in Tasks : lost[t] = "no"

\* The host does not keep the line busy for ever: again and again the reader
\* finds the fifo empty and waits.
LineGoesQuiet == Reader # None => []<>(rx_cv # None \/ ~Alive)

\* A delay that was started ends: bezbios_delay_ms returns.
DelayEnds ==
    LineGoesQuiet =>
        \A t \in Tasks :
            pc[t] = "delay_win" ~> (pc[t] = "user" \/ lost[t] # "no" \/ ~Alive)

\* A ready thread gets the CPU: the round starts after the running thread, and
\* the timer and the blocking calls move it on.
ReadyRuns ==
    LineGoesQuiet => \A t \in Tasks : ready[t] ~> (current = t \/ ~Alive)

\* A reader that waits while bytes have come gets one of them.
ByteIsRead ==
    \A t \in Tasks :
        (pc[t] = "rx_wait" /\ rx > 0) ~> (pc[t] = "user" \/ ~Alive)

\* timerPIT.cpp:57 says of the guard on preemption "if in main/idle task we
\* don't do preemption", and of what it guards "Round-Robin": in any other
\* task the timer passes the CPU on when another thread is ready.
PreemptsWhenNotIdle ==
    [][(/\ PIT_IRQ
        /\ current # Idle
        /\ \E t \in Tasks \ {current} : ready[t])
       => current' # current]_vars

=============================================================================
