-------------------------------- MODULE Mutex --------------------------------
(***************************************************************************)
(* BezBios::Sched::Mutex under the scheduler of module Sched, as tlay2.cpp *)
(* uses it: send_mutex is held while the bytes of a frame are put on the   *)
(* serial line.                                                            *)
(*                                                                         *)
(* A thread inside aquire(), release() or a frame is "user" for Sched and  *)
(* stands at mpc here.  Each atomic section, and each access to the mutex  *)
(* outside one, is a step; between two steps an interrupt may switch.      *)
(*                                                                         *)
(* A node of the waiting list lies in the stack frame of the loop in       *)
(* aquire().  A node still listed when its loop body is left is dangling;  *)
(* touching it, or switching to no thread, breaks the machine.             *)
(***************************************************************************)
EXTENDS Sched

CONSTANT Senders    \* the threads that send frames

ASSUME MutexAssumption == IsFiniteSet(Tasks) /\ Senders \subseteq Tasks

VARIABLES
    locked,     \* the thread in Mutex::locked, or None
    lock_cnt,
    wthreads,   \* the waiting list, the node at wthreads.prev last
    dangling,   \* threads whose listed node has left its scope
    mpc,        \* where each thread stands in the mutex and the frame
    owner,      \* the argument of the switch_context in aquire()
    open,       \* the thread whose frame has begun on the line, or None
    mixed,      \* history: a byte was put inside the frame of another thread
    broken      \* the undefined step that was taken, if any

mutex == <<locked, lock_cnt, wthreads, dangling>>
line  == <<open, mixed>>
mvars == <<vars, mutex, mpc, owner, line, broken>>

(***************************************************************************)
(*   out      in no call          test     at while (locked)               *)
(*   enlist   about to queue      owner    about to read locked            *)
(*   jump     about to call switch_context(owner)                          *)
(*   parked   in that call        take     the loop has ended              *)
(*   begin    locked, no byte put yet                                      *)
(*   end      the last byte of the frame is still to be put                *)
(*   release  about to release                                             *)
(*   waiters, wake, unplug   the three looks at the list in release()      *)
(***************************************************************************)
MutexPC == {"out", "test", "enlist", "owner", "jump", "parked", "take",
            "begin", "end", "release", "waiters", "wake", "unplug"}

Holding == {"begin", "end", "release"}

Holders == {t \in Tasks : mpc[t] \in Holding}

MutexTypeOK ==
    /\ locked \in Tasks \cup {None}
    /\ lock_cnt \in Nat
    /\ wthreads \in Seq(Tasks) /\ dangling \subseteq Tasks
    /\ mpc \in [Tasks -> MutexPC]
    /\ owner \in [Tasks -> Tasks \cup {None}]
    /\ open \in Tasks \cup {None} /\ mixed \in BOOLEAN
    /\ broken \in {"none", "null_switch", "dangling", "no_node"}

MutexInit ==
    /\ Init
    /\ locked = None /\ lock_cnt = 0 /\ wthreads = <<>> /\ dangling = {}
    /\ mpc = [t \in Tasks |-> "out"]
    /\ owner = [t \in Tasks |-> None]
    /\ open = None /\ mixed = FALSE
    /\ broken = "none"

At(t, where) ==
    t \in Senders /\ Running(t, "user") /\ broken = "none" /\ mpc[t] = where
MGoto(t, where) == mpc' = [mpc EXCEPT ![t] = where]

-----------------------------------------------------------------------------
(* aquire() *)

\* A thread that has the mutex counts once more; any other goes to the loop.
aquire(t) ==
    /\ At(t, "out")
    /\ IF locked = t
       THEN lock_cnt' = lock_cnt + 1 /\ MGoto(t, "begin")
       ELSE UNCHANGED lock_cnt /\ MGoto(t, "test")
    /\ UNCHANGED <<vars, locked, wthreads, dangling, owner, line, broken>>

\* while (locked), at first and when switch_context has returned: the node of
\* the round before goes out of scope, listed or not.
aquire_test(t) ==
    /\ At(t, "test") \/ At(t, "parked")
    /\ MGoto(t, IF locked = None THEN "take" ELSE "enlist")
    /\ dangling' = dangling \cup ({t} \cap {wthreads[i] : i \in DOMAIN wthreads})
    /\ UNCHANGED <<vars, locked, lock_cnt, wthreads, owner, line, broken>>

\* The list is touched at its last node.
LastDangles == wthreads # <<>> /\ wthreads[Len(wthreads)] \in dangling

SecondLastDangles == Len(wthreads) > 1 /\ wthreads[Len(wthreads) - 1] \in dangling

aquire_enlist(t) ==
    /\ At(t, "enlist")
    /\ IF LastDangles
       THEN broken' = "dangling" /\ UNCHANGED wthreads
       ELSE wthreads' = Append(wthreads, t) /\ UNCHANGED broken
    /\ ready' = [ready EXCEPT ![t] = FALSE]
    /\ MGoto(t, "owner")
    /\ UNCHANGED <<ring, current, pc, wait_tid, delayq, rx_cv, rx, fault, lost,
                   locked, lock_cnt, dangling, owner, line>>

\* locked is read once more, outside the atomic section.
aquire_owner(t) ==
    /\ At(t, "owner")
    /\ owner' = [owner EXCEPT ![t] = locked]
    /\ MGoto(t, "jump")
    /\ UNCHANGED <<vars, mutex, line, broken>>

\* The owner gets the CPU, with its ready flag as it is.
aquire_jump(t) ==
    /\ At(t, "jump")
    /\ IF owner[t] = None
       THEN broken' = "null_switch" /\ UNCHANGED current
       ELSE current' = owner[t] /\ UNCHANGED broken
    /\ MGoto(t, "parked")
    /\ UNCHANGED <<ring, ready, pc, wait_tid, delayq, rx_cv, rx, fault, lost,
                   mutex, owner, line>>

\* Mutant: lock_cnt = 1.
aquire_take_sets(t) ==
    /\ At(t, "take")
    /\ locked' = t
    /\ lock_cnt' = 1
    /\ MGoto(t, "begin")
    /\ UNCHANGED <<vars, wthreads, dangling, owner, line, broken>>

\* The mutex is taken, with no second look at locked.
aquire_take(t) ==
    /\ At(t, "take")
    /\ locked' = t
    /\ lock_cnt' = lock_cnt + 1
    /\ MGoto(t, "begin")
    /\ UNCHANGED <<vars, wthreads, dangling, owner, line, broken>>

-----------------------------------------------------------------------------
(* The frame. *)

\* A byte that does not end the frame.
put_escaped(t) ==
    /\ At(t, "begin")
    /\ mixed' = (mixed \/ open \notin {None, t})
    /\ open' = t
    /\ MGoto(t, "end")
    /\ UNCHANGED <<vars, mutex, owner, broken>>

\* The newline.
put_newline(t) ==
    /\ At(t, "end")
    /\ mixed' = (mixed \/ open # t)
    /\ open' = None
    /\ MGoto(t, "release")
    /\ UNCHANGED <<vars, mutex, owner, broken>>

-----------------------------------------------------------------------------
(* release() *)

release(t) ==
    /\ At(t, "release")
    /\ lock_cnt' = lock_cnt - 1
    /\ IF lock_cnt' # 0
       THEN UNCHANGED locked /\ MGoto(t, "out")
       ELSE locked' = None /\ MGoto(t, "waiters")
    /\ UNCHANGED <<vars, wthreads, dangling, owner, line, broken>>

release_waiters(t) ==
    /\ At(t, "waiters")
    /\ MGoto(t, IF wthreads = <<>> THEN "out" ELSE "wake")
    /\ UNCHANGED <<vars, mutex, owner, line, broken>>

\* The node at wthreads.prev, which is the head itself if the list is empty by
\* now, and may be another one than was seen before.
release_wake(t) ==
    /\ At(t, "wake")
    /\ broken' = CASE wthreads = <<>> -> "no_node"
                   [] LastDangles -> "dangling"
                   [] OTHER -> "none"
    /\ ready' = IF broken' = "none"
                THEN [ready EXCEPT ![wthreads[Len(wthreads)]] = TRUE] ELSE ready
    /\ MGoto(t, "unplug")
    /\ UNCHANGED <<ring, current, pc, wait_tid, delayq, rx_cv, rx, fault, lost,
                   mutex, owner, line>>

\* unplug() writes into the node before it as well.
release_unplug(t) ==
    /\ At(t, "unplug")
    /\ broken' = CASE wthreads = <<>> -> "no_node"
                   [] LastDangles \/ SecondLastDangles -> "dangling"
                   [] OTHER -> "none"
    /\ wthreads' = IF broken' = "none"
                   THEN SubSeq(wthreads, 1, Len(wthreads) - 1) ELSE wthreads
    /\ MGoto(t, "out")
    /\ UNCHANGED <<vars, locked, lock_cnt, dangling, owner, line>>

-----------------------------------------------------------------------------
sender_step(t) ==
    \/ aquire(t) \/ aquire_test(t) \/ aquire_enlist(t) \/ aquire_owner(t)
    \/ aquire_jump(t) \/ aquire_take(t)
    \/ put_escaped(t) \/ put_newline(t)
    \/ release(t) \/ release_waiters(t) \/ release_wake(t) \/ release_unplug(t)

\* What Sched does, with the threads blocking only where they hold no mutex.
sched_step ==
    /\ broken = "none"
    /\ \/ \E t \in Tasks : create_process(t)
       \/ start_idle
       \/ idle_step
       \/ \E t \in Tasks : mpc[t] = "out" /\ task_step(t)
       \/ PIT_IRQ
       \/ UART_IRQ
    /\ UNCHANGED <<mutex, mpc, owner, line, broken>>

MutexStopped == (~Alive \/ broken # "none") /\ UNCHANGED mvars

MutexNext == sched_step \/ (\E t \in Senders : sender_step(t)) \/ MutexStopped

MutexSpec == MutexInit /\ [][MutexNext]_mvars

-----------------------------------------------------------------------------
(* Properties. *)

\* sched_mutex.cpp:32-50: the count is the number of locks not yet released,
\* also when the race in aquire() has let two threads in, and the mutex is
\* free exactly when it is zero.
CountMatches ==
    /\ lock_cnt = Cardinality(Holders)
    /\ locked = None <=> lock_cnt = 0

\* A thread that has the mutex is running, ready, or in idle's hand: a waiter
\* that switches to it may do so, and it will get on to release it.
HolderRuns ==
    \A t \in Holders : current = t \/ ready[t] \/ InHand(t)

\* Without the serial reader idle is never made ready, the timer never takes
\* the CPU from a thread (sched_low.cpp:49), and no thread meets a mutex that
\* is locked: the races of sched_mutex.cpp:22-50 need the reader.
NeverContended ==
    \A t \in Tasks : mpc[t] \notin {"enlist", "owner", "jump", "parked"}

\* tlay2.cpp:8-13 draws a frame as ctr, fn addr, data and CRC one after the
\* other, and send_mutex is held for the whole of it: no byte of another frame
\* comes between.
FramesIntact == ~mixed
=============================================================================
