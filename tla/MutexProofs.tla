----------------------------- MODULE MutexProofs -----------------------------
(***************************************************************************)
(* The count of a mutex is right for any number of threads, also where the *)
(* race in aquire() lets several of them hold it.  The step that matters   *)
(* is a change of the set of holders by one thread.  A holder can always   *)
(* run, because only an interrupt takes the CPU from it.                   *)
(*                                                                         *)
(* Without a serial reader the races do not happen: idle is never ready,   *)
(* so the timer takes the CPU from no one, and a thread inside a mutex     *)
(* call runs on until it is out.                                           *)
(***************************************************************************)
EXTENDS Mutex, SchedProofs

MutexInv ==
    /\ CountMatches
    /\ mpc \in [Tasks -> MutexPC]

\* The holders are finitely many, so their number is a natural number, and it
\* is zero only when there is none.
LEMMA HoldersCount ==
    ASSUME NEW S, S \subseteq Tasks
    PROVE  /\ IsFiniteSet(S) /\ Cardinality(S) \in Nat
           /\ Cardinality(S) = 0 <=> S = {}
BY MutexAssumption, FS_Subset, FS_CardinalityType, FS_EmptySet

\* A thread that enters.
LEMMA HolderEnters ==
    ASSUME mpc \in [Tasks -> MutexPC], NEW t \in Tasks, t \notin Holders,
           mpc' = [mpc EXCEPT ![t] = "begin"]
    PROVE  Cardinality(Holders') = Cardinality(Holders) + 1
<1>1. Holders' = Holders \cup {t}
  BY DEF Holders, Holding
<1>2. QED
  BY <1>1, HoldersCount, FS_AddElement DEF Holders

\* A thread that leaves.
LEMMA HolderLeaves ==
    ASSUME mpc \in [Tasks -> MutexPC], NEW t \in Holders, NEW where,
           where \notin Holding, mpc' = [mpc EXCEPT ![t] = where]
    PROVE  Cardinality(Holders') = Cardinality(Holders) - 1
<1>1. Holders' = Holders \ {t}
  BY DEF Holders
<1>2. QED
  BY <1>1, HoldersCount, FS_RemoveElement DEF Holders

\* Steps that neither enter nor leave.
LEMMA HoldersStay ==
    ASSUME MutexInv, NEW t \in Tasks, NEW where \in MutexPC,
           mpc' = [mpc EXCEPT ![t] = where],
           t \in Holders <=> where \in Holding,
           UNCHANGED <<locked, lock_cnt>>
    PROVE  MutexInv'
<1>1. Holders' = Holders
  BY DEF Holders, MutexInv
<1>2. QED
  BY <1>1 DEF MutexInv, CountMatches

LEMMA InvAquire ==
    ASSUME MutexInv, NEW t \in Senders, aquire(t)
    PROVE  MutexInv'
<1>1. t \in Tasks /\ t # None /\ t \notin Holders
  BY MutexAssumption, SchedAssumption DEF aquire, At, Holders, Holding
<1>2. CASE locked = t
  <2>1. Cardinality(Holders') = Cardinality(Holders) + 1
    BY <1>1, <1>2, HolderEnters DEF MutexInv, aquire, MGoto
  <2>2. lock_cnt' = lock_cnt + 1 /\ locked' = locked /\ locked # None
    BY <1>1, <1>2 DEF aquire
  <2>3. lock_cnt = Cardinality(Holders) /\ lock_cnt \in Nat
    BY HoldersCount DEF MutexInv, CountMatches, Holders
  <2>4. mpc' \in [Tasks -> MutexPC]
    BY <1>2 DEF MutexInv, aquire, MGoto, MutexPC
  <2>5. QED
    BY <2>1, <2>2, <2>3, <2>4 DEF MutexInv, CountMatches
<1>3. CASE locked # t
  <2>1. mpc' = [mpc EXCEPT ![t] = "test"] /\ UNCHANGED <<locked, lock_cnt>>
    BY <1>3 DEF aquire, MGoto
  <2>2. "test" \in MutexPC /\ "test" \notin Holding
    BY DEF MutexPC, Holding
  <2>3. QED
    BY <1>1, <2>1, <2>2, HoldersStay
<1>4. QED
  BY <1>2, <1>3

LEMMA InvTake ==
    ASSUME MutexInv, NEW t \in Senders, aquire_take(t)
    PROVE  MutexInv'
<1>1. t \in Tasks /\ t # None /\ t \notin Holders
  BY MutexAssumption, SchedAssumption DEF aquire_take, At, Holders, Holding
<1>2. Cardinality(Holders') = Cardinality(Holders) + 1
  BY <1>1, HolderEnters DEF MutexInv, aquire_take, MGoto
<1>3. lock_cnt' = lock_cnt + 1 /\ locked' = t
  BY DEF aquire_take
<1>4. lock_cnt = Cardinality(Holders) /\ lock_cnt \in Nat
  BY HoldersCount DEF MutexInv, CountMatches, Holders
<1>5. mpc' \in [Tasks -> MutexPC]
  BY DEF MutexInv, aquire_take, MGoto, MutexPC
<1>6. QED
  BY <1>1, <1>2, <1>3, <1>4, <1>5 DEF MutexInv, CountMatches

LEMMA InvRelease ==
    ASSUME MutexInv, NEW t \in Senders, release(t)
    PROVE  MutexInv'
<1>1. t \in Tasks /\ t \in Holders
  BY MutexAssumption DEF release, At, Holders, Holding
<1>2. PICK where \in {"out", "waiters"} : mpc' = [mpc EXCEPT ![t] = where]
  BY DEF release, MGoto
<1>3. Cardinality(Holders') = Cardinality(Holders) - 1
  BY <1>1, <1>2, HolderLeaves DEF MutexInv, Holding
<1>4. /\ lock_cnt' = lock_cnt - 1
      /\ IF lock_cnt' # 0 THEN locked' = locked ELSE locked' = None
  BY DEF release
<1>5. /\ lock_cnt = Cardinality(Holders) /\ lock_cnt \in Nat /\ lock_cnt # 0
      /\ locked # None
  BY <1>1, HoldersCount DEF MutexInv, CountMatches, Holders
<1>6. mpc' \in [Tasks -> MutexPC]
  BY <1>2 DEF MutexInv, MutexPC
<1>7. QED
  BY <1>3, <1>4, <1>5, <1>6 DEF MutexInv, CountMatches

\* The other steps of a sender stay on one side of the lock.
LEMMA InvElsewhere ==
    ASSUME MutexInv, NEW t \in Senders,
           \/ aquire_test(t) \/ aquire_enlist(t) \/ aquire_owner(t)
           \/ aquire_jump(t) \/ put_escaped(t) \/ put_newline(t)
           \/ release_waiters(t) \/ release_wake(t) \/ release_unplug(t)
    PROVE  MutexInv'
<1>1. PICK where \in MutexPC :
         /\ mpc' = [mpc EXCEPT ![t] = where]
         /\ mpc[t] \in Holding <=> where \in Holding
         /\ UNCHANGED <<locked, lock_cnt>>
  BY DEF aquire_test, aquire_enlist, aquire_owner, aquire_jump, put_escaped,
         put_newline, release_waiters, release_wake, release_unplug, At, MGoto,
         MutexPC, Holding, mutex
<1>2. QED
  BY <1>1, MutexAssumption, HoldersStay DEF Holders

\* sched_mutex.cpp:11-51: in every reachable state the count of the mutex is
\* the number of its holders and it is free exactly when there is none.
THEOREM CountIsRight == MutexSpec => []CountMatches
<1>1. MutexInit => MutexInv
  <2> SUFFICES ASSUME MutexInit PROVE MutexInv
    OBVIOUS
  <2>1. Holders = {}
    BY DEF MutexInit, Holders, Holding
  <2>2. QED
    BY <2>1, HoldersCount DEF MutexInit, MutexInv, CountMatches, MutexPC
<1>2. MutexInv /\ [MutexNext]_mvars => MutexInv'
  <2> SUFFICES ASSUME MutexInv, [MutexNext]_mvars PROVE MutexInv'
    OBVIOUS
  <2>1. CASE \E t \in Senders : sender_step(t)
    BY <2>1, InvAquire, InvTake, InvRelease, InvElsewhere DEF sender_step
  <2>2. CASE UNCHANGED <<mutex, mpc>>
    BY <2>2 DEF mutex, MutexInv, CountMatches, Holders
  <2>3. QED
    BY <2>1, <2>2 DEF MutexNext, sched_step, MutexStopped, mvars
<1>3. MutexInv => CountMatches
  BY DEF MutexInv
<1>4. QED
  BY <1>1, <1>2, <1>3, PTL DEF MutexSpec

-----------------------------------------------------------------------------
(* A holder can always run. *)

\* A thread leaves the CPU inside a mutex call only by an interrupt, which
\* leaves it ready, or in the jump of aquire(), where it holds nothing.
HolderInv ==
    /\ ready \in [Threads -> BOOLEAN]
    /\ DOMAIN pc = Threads
    /\ mpc \in [Tasks -> MutexPC]
    /\ \A t \in Tasks : mpc[t] # "out" => Booted /\ pc[t] = "user"
    /\ HolderRuns

\* What a step that leaves the mutex alone must keep.
LEMMA HolderKept ==
    ASSUME HolderInv, UNCHANGED mpc, ready' \in [Threads -> BOOLEAN],
           DOMAIN pc' = Threads,
           \A t \in Tasks : mpc[t] # "out" => Booted' /\ pc'[t] = "user",
           \A t \in Tasks : mpc[t] # "out" /\ (current = t \/ ready[t] \/ InHand(t))
                            => current' = t \/ ready'[t] \/ InHand(t)'
    PROVE  HolderInv'
<1>1. Holders' = Holders /\ \A t \in Holders : t \in Tasks /\ mpc[t] # "out"
  BY DEF Holders, Holding
<1>2. HolderRuns'
  BY <1>1 DEF HolderInv, HolderRuns
<1>3. QED
  BY <1>2 DEF HolderInv

LEMMA HolderIdle ==
    ASSUME HolderInv, idle_step, UNCHANGED mpc
    PROVE  HolderInv'
<1> USE SchedAssumption DEF HolderInv, Threads, idle_step, Running, OnCPU, Goto, Booted, InHand
<1>1. ready' \in [Threads -> BOOLEAN] /\ DOMAIN pc' = Threads
  BY DEF idle_scan, idle_clear_ready, idle_dispatch, idle_halt
<1>2. \A t \in Tasks : mpc[t] # "out" => Booted' /\ pc'[t] = "user"
  BY DEF idle_scan, idle_clear_ready, idle_dispatch, idle_halt
<1>3. ASSUME NEW t \in Tasks, current = t \/ ready[t] \/ InHand(t)
      PROVE  current' = t \/ ready'[t] \/ InHand(t)'
  BY <1>3 DEF idle_scan, idle_clear_ready, idle_dispatch, idle_halt
<1>4. QED
  BY <1>1, <1>2, <1>3, HolderKept

\* A thread that gives up the CPU is outside every mutex call.
LEMMA HolderTask ==
    ASSUME HolderInv, NEW u \in Tasks, mpc[u] = "out", task_step(u), UNCHANGED mpc
    PROVE  HolderInv'
<1> USE SchedAssumption DEF HolderInv, Threads, task_step, Running, OnCPU, Goto, Booted,
        free_cpu
<1>1. ready' \in [Threads -> BOOLEAN] /\ DOMAIN pc' = Threads
  BY DEF delay_enlist, delay_park, delay_return, serial_recv, sched_exit
<1>2. \A t \in Tasks : mpc[t] # "out" => Booted' /\ pc'[t] = "user"
  BY DEF delay_enlist, delay_park, delay_return, serial_recv, sched_exit
<1>3. pc'[Idle] = pc[Idle] /\ wait_tid' = wait_tid /\ current = u
  BY DEF delay_enlist, delay_park, delay_return, serial_recv, sched_exit
<1>4. ASSUME NEW t \in Tasks, t # u, ready[t]
      PROVE  current' = t \/ ready'[t]
  BY <1>4 DEF delay_enlist, delay_park, delay_return, serial_recv, sched_exit
<1>5. QED
  BY <1>1, <1>2, <1>3, <1>4, HolderKept DEF InHand

\* An interrupt that takes the CPU from a thread marks it ready.
LEMMA HolderInterrupt ==
    ASSUME HolderInv, PIT_IRQ \/ UART_IRQ, UNCHANGED mpc
    PROVE  HolderInv'
<1> USE SchedAssumption DEF HolderInv, Threads
<1>1. wait_tid' = wait_tid /\ \E where :
        /\ pc' = [pc EXCEPT ![Interruptee] = where]
        /\ \/ where = pc[Interruptee]
           \/ pc[Interruptee] \in {"hlt", "delay_ticked", "delay_win"} /\ where # "boot"
  <2>1. \A w : \/ Interrupted(w) = w
               \/ w \in {"hlt", "delay_ticked"} /\ Interrupted(w) # "boot"
    BY DEF Interrupted
  <2>2. CASE PIT_IRQ
    <3>1. \/ Goto(Interruptee, IF pc[Interruptee] = "delay_win"
                               THEN "delay_ticked" ELSE Interrupted(pc[Interruptee]))
          \/ Goto(Interruptee, Interrupted(pc[Interruptee]))
      BY <2>2 DEF PIT_IRQ
    <3>2. QED
      BY <2>1, <2>2, <3>1 DEF PIT_IRQ, Goto
  <2>3. CASE UART_IRQ
    <3>1. \/ Goto(Interruptee, IF pc[Interruptee] = "hlt"
                               THEN "scan" ELSE pc[Interruptee])
          \/ Goto(Interruptee, Interrupted(pc[Interruptee]))
      BY <2>3 DEF UART_IRQ
    <3>2. QED
      BY <2>1, <2>3, <3>1 DEF UART_IRQ, Goto
  <2>4. QED
    BY <2>2, <2>3
<1>2. /\ DOMAIN pc' = Threads
      /\ \A t \in Threads :
            \/ pc'[t] = pc[t]
            \/ pc[t] \in {"hlt", "delay_ticked", "delay_win"} /\ pc'[t] # "boot"
  BY <1>1
<1>3. /\ \A t \in Tasks : mpc[t] # "out" => Booted' /\ pc'[t] = "user"
      /\ pc[Idle] = "dispatch" => pc'[Idle] = "dispatch"
  BY <1>2 DEF Booted
<1>4. CASE PIT_IRQ
  <2> DEFINE rdy == [t \in Threads |-> ready[t] \/ t \in
                       {Ticked(delayq)[i].tcb : i \in 1 .. Prefix(Ticked(delayq), 0)}]
  <2>1. rdy \in [Threads -> BOOLEAN] /\ \A t \in Threads : ready[t] => rdy[t]
    OBVIOUS
  <2>2. (ready' = rdy /\ UNCHANGED current) \/ free_cpu(rdy, TRUE)
    BY <1>4 DEF PIT_IRQ
  <2>3. /\ ready' \in [Threads -> BOOLEAN]
        /\ \A t \in Tasks : current = t \/ ready[t] => current' = t \/ ready'[t]
    <3> HIDE DEF rdy
    <3>1. QED
      BY <2>1, <2>2 DEF free_cpu
  <2>4. QED
    BY <1>2, <1>3, <1>1, <2>3, HolderKept DEF InHand
<1>5. CASE UART_IRQ
  <2>1. /\ ready' \in [Threads -> BOOLEAN]
        /\ \A t \in Tasks : current = t \/ ready[t] => current' = t \/ ready'[t]
    <3>1. CASE UNCHANGED <<current, ready>>
      BY <3>1
    <3>2. CASE sel_task([ready EXCEPT ![rx_cv] = TRUE], TRUE, rx_cv)
      <4> DEFINE rdy == [ready EXCEPT ![rx_cv] = TRUE]
      <4>1. rdy \in [Threads -> BOOLEAN] /\ \A t \in Threads : ready[t] => rdy[t]
        OBVIOUS
      <4>2. sel_task(rdy, TRUE, rx_cv)
        BY <3>2
      <4>3. QED
        <5> HIDE DEF rdy
        <5>1. CASE rx_cv # current
          <6>1. /\ ready' = [rdy EXCEPT ![current] = TRUE, ![rx_cv] = FALSE]
                /\ current' = rx_cv
            BY <4>2, <5>1 DEF sel_task
          <6>2. ready' \in [Threads -> BOOLEAN]
            BY <4>1, <6>1
          <6>3. QED
            BY <4>1, <5>1, <6>1, <6>2
        <5>2. CASE rx_cv = current
          <6>1. ready' = [rdy EXCEPT ![current] = TRUE] /\ current' = current
            BY <4>2, <5>2 DEF sel_task
          <6>2. QED
            BY <4>1, <6>1
        <5>3. QED
          BY <5>1, <5>2
    <3>3. QED
      BY <1>5, <3>1, <3>2 DEF UART_IRQ
  <2>2. QED
    BY <1>2, <1>3, <1>1, <2>1, HolderKept DEF InHand
<1>6. QED
  BY <1>4, <1>5

\* A sender runs: only its own flag is cleared, and only where it holds
\* nothing.
LEMMA HolderSender ==
    ASSUME HolderInv, NEW t \in Senders, sender_step(t)
    PROVE  HolderInv'
<1> USE SchedAssumption, MutexAssumption DEF HolderInv, Threads
<1>1. t \in Tasks /\ Running(t, "user") /\ UNCHANGED <<pc, wait_tid>>
  BY DEF sender_step, At, aquire, aquire_test, aquire_enlist, aquire_owner,
         aquire_jump, aquire_take, put_escaped, put_newline, release,
         release_waiters, release_wake, release_unplug, vars
<1>2. current = t /\ Booted /\ pc[t] = "user"
  BY <1>1 DEF Running, OnCPU
<1>3. \E where \in MutexPC : mpc' = [mpc EXCEPT ![t] = where]
  BY DEF sender_step, At, aquire, aquire_test, aquire_enlist, aquire_owner,
         aquire_jump, aquire_take, put_escaped, put_newline, release,
         release_waiters, release_wake, release_unplug, MGoto, MutexPC
<1>4. /\ ready' \in [Threads -> BOOLEAN]
      /\ \A u \in Tasks : u # t /\ ready[u] => ready'[u]
  BY <1>1 DEF sender_step, aquire, aquire_test, aquire_enlist, aquire_owner,
         aquire_jump, aquire_take, put_escaped, put_newline, release,
         release_waiters, release_wake, release_unplug, vars
<1>5. mpc'[t] \in Holding => current' = t
  BY <1>1, <1>2 DEF sender_step, aquire, aquire_test, aquire_enlist, aquire_owner,
         aquire_jump, aquire_take, put_escaped, put_newline, release,
         release_waiters, release_wake, release_unplug, vars, MGoto, Holding
<1>6. HolderRuns'
  <2> SUFFICES ASSUME NEW u \in Holders'
               PROVE  current' = u \/ ready'[u] \/ InHand(u)'
    BY DEF HolderRuns
  <2>1. CASE u = t
    BY <2>1, <1>5 DEF Holders
  <2>2. CASE u # t
    <3>1. u \in Holders /\ u \in Tasks
      BY <1>3, <2>2 DEF Holders
    <3>2. ready[u] \/ InHand(u)
      BY <3>1, <2>2, <1>2 DEF HolderRuns
    <3>3. QED
      BY <3>1, <3>2, <2>2, <1>1, <1>4 DEF InHand
  <2>3. QED
    BY <2>1, <2>2
<1>7. QED
  BY <1>1, <1>2, <1>3, <1>4, <1>6 DEF Booted

\* sched_mutex.cpp:27-29: a waiter hands the CPU to the owner it has read.  For
\* any threads and any traffic a thread that has the mutex is on the CPU, ready
\* or in idle's hand.
THEOREM HolderAlwaysRuns == MutexSpec => []HolderRuns
<1>1. MutexInit => HolderInv
  BY DEF MutexInit, Init, HolderInv, HolderRuns, Holders, Holding, MutexPC
<1>2. HolderInv /\ [MutexNext]_mvars => HolderInv'
  <2> SUFFICES ASSUME HolderInv, [MutexNext]_mvars PROVE HolderInv'
    OBVIOUS
  <2>1. CASE sched_step
    <3>1. UNCHANGED mpc
      BY <2>1 DEF sched_step
    <3>2. ASSUME NEW t \in Tasks, create_process(t) \/ start_idle PROVE HolderInv'
      BY <3>1, <3>2, SchedAssumption
         DEF create_process, start_idle, HolderInv, HolderRuns, Holders, Holding, Booted,
             Goto, Threads
    <3>3. CASE start_idle
      BY <3>1, <3>3, SchedAssumption
         DEF start_idle, HolderInv, HolderRuns, Holders, Holding, Booted, Goto, Threads
    <3>4. QED
      BY <2>1, <3>1, <3>2, <3>3, HolderIdle, HolderTask, HolderInterrupt DEF sched_step
  <2>2. CASE \E t \in Senders : sender_step(t)
    BY <2>2, HolderSender
  <2>3. CASE UNCHANGED mvars
    BY <2>3 DEF mvars, vars, HolderInv, HolderRuns, Holders, InHand, Booted
  <2>4. QED
    BY <2>1, <2>2, <2>3 DEF MutexNext, MutexStopped
<1>3. HolderInv => HolderRuns
  BY DEF HolderInv
<1>4. QED
  BY <1>1, <1>2, <1>3, PTL DEF MutexSpec

-----------------------------------------------------------------------------
(* Without the reader. *)

\* At most the running thread is in a mutex call or holds the mutex.
AloneInv ==
    /\ SchedInv
    /\ mpc \in [Tasks -> MutexPC]
    /\ NeverContended
    /\ ~ready[Idle]
    /\ \A t \in Tasks : mpc[t] # "out" => current = t /\ Booted
    /\ locked # None <=> \E t \in Tasks : mpc[t] \in Holding
    /\ locked # None => locked \in Tasks /\ mpc[locked] \in Holding
    /\ lock_cnt = IF locked = None THEN 0 ELSE 1
    /\ wthreads = <<>>
    /\ \A t \in Tasks : mpc[t] \notin {"wake", "unplug"}

\* A step of the scheduler: whoever runs may give up the CPU only outside the
\* mutex calls.
LEMMA AloneSched ==
    ASSUME Reader = None, AloneInv, sched_step
    PROVE  AloneInv'
<1>1. UNCHANGED <<mutex, mpc>> /\ [Next]_vars
  BY DEF sched_step, Next
<1>2. SchedInv'
  BY <1>1, InvNext DEF AloneInv
<1>3. /\ ~ready'[Idle]
      /\ \A t \in Tasks : mpc[t] # "out" => current' = t /\ Booted'
  <2> USE SchedAssumption DEF AloneInv
  <2>0. /\ ready \in [Threads -> BOOLEAN] /\ Idle \in Threads
        /\ pc \in [Threads -> TaskPC \cup IdlePC]
        /\ Tasks \subseteq Threads
    BY DEF SchedInv, TypeOK, Threads
  <2>1. CASE \E t \in Tasks : create_process(t)
    <3>1. PICK t \in Tasks : create_process(t)
      BY <2>1
    <3>2. ready' = [ready EXCEPT ![t] = TRUE] /\ ~Booted
      BY <3>1 DEF create_process
    <3>3. QED
      BY <2>0, <3>2
  <2>2. CASE start_idle
    BY <2>0, <2>2 DEF start_idle
  <2>3. CASE idle_step
    BY <2>0, <2>3
       DEF Goto, Booted, idle_step, idle_scan, idle_clear_ready, idle_dispatch, idle_halt,
           Running, OnCPU
  <2>4. CASE \E t \in Tasks : mpc[t] = "out" /\ task_step(t)
    BY <2>0, <2>4
       DEF Goto, Booted, task_step, delay_enlist, delay_park, delay_return, serial_recv,
           sched_exit, Running, OnCPU, free_cpu
  <2>5. CASE PIT_IRQ
    BY <2>0, <2>5, NoPreemption, StaysBooted
  <2>6. CASE UART_IRQ
    BY <2>6 DEF UART_IRQ
  <2>7. QED
    BY <2>1, <2>2, <2>3, <2>4, <2>5, <2>6 DEF sched_step
<1>4. QED
  BY <1>1, <1>2, <1>3 DEF AloneInv, NeverContended, mutex

\* What carries over when thread t, the only one in a mutex call, moves on and
\* the scheduler's state stays.
LEMMA AloneMoves ==
    ASSUME AloneInv, UNCHANGED vars, NEW t \in Tasks, current = t, Booted,
           \A u \in Tasks : u # t => mpc[u] = "out",
           NEW where \in MutexPC \ {"enlist", "owner", "jump", "parked",
                                    "wake", "unplug"},
           mpc' = [mpc EXCEPT ![t] = where], wthreads' = wthreads,
           IF where \in Holding THEN locked' = t /\ lock_cnt' = 1
                                ELSE locked' = None /\ lock_cnt' = 0
    PROVE  AloneInv'
<1>1. SchedInv'
  BY InvNext DEF AloneInv
<1>2. t # None /\ "out" \notin Holding
  BY SchedAssumption DEF Holding
<1>3. mpc' \in [Tasks -> MutexPC] /\ mpc'[t] = where
  BY DEF AloneInv
<1>4. \A u \in Tasks : u # t => mpc'[u] = "out"
  BY DEF AloneInv
<1>5. ready' = ready /\ current' = current /\ pc' = pc
  BY DEF vars
<1>6. /\ NeverContended'
      /\ \A u \in Tasks : mpc'[u] \notin {"wake", "unplug"}
  BY <1>3, <1>4 DEF NeverContended
<1>7. \A u \in Tasks : mpc'[u] # "out" => current' = u /\ Booted'
  BY <1>4, <1>5 DEF Booted
<1>8. /\ locked' # None <=> \E u \in Tasks : mpc'[u] \in Holding
      /\ locked' # None => locked' \in Tasks /\ mpc'[locked'] \in Holding
      /\ lock_cnt' = IF locked' = None THEN 0 ELSE 1
  <2>1. CASE where \in Holding
    BY <1>2, <1>3, <2>1
  <2>2. CASE where \notin Holding
    BY <1>2, <1>3, <1>4, <2>2
  <2>3. QED
    BY <2>1, <2>2
<1>9. QED
  BY <1>1, <1>3, <1>5, <1>6, <1>7, <1>8 DEF AloneInv

\* A step of a sender: it is the one thread in a mutex call, so it finds the
\* mutex free, or its own, and no one waiting.
LEMMA AloneSender ==
    ASSUME AloneInv, NEW t \in Senders, sender_step(t)
    PROVE  AloneInv'
<1>1. t \in Tasks /\ t # None
  BY MutexAssumption, SchedAssumption
<1>2. Running(t, "user")
  BY DEF sender_step, At, aquire, aquire_test, aquire_enlist, aquire_owner,
         aquire_jump, aquire_take, put_escaped, put_newline, release,
         release_waiters, release_wake, release_unplug
<1>3. current = t /\ Booted
  BY <1>2 DEF Running, OnCPU
<1>4. \A u \in Tasks : u # t => mpc[u] = "out"
  BY <1>3 DEF AloneInv
<1>5. IF mpc[t] \in Holding THEN locked = t /\ lock_cnt = 1
                            ELSE locked = None /\ lock_cnt = 0
  <2>1. locked # None => locked = t
    BY <1>4 DEF AloneInv, Holding
  <2>2. QED
    BY <1>1, <1>4, <2>1 DEF AloneInv, Holding
<1>6. mpc[t] \in MutexPC \ {"enlist", "owner", "jump", "parked", "wake", "unplug"}
  BY <1>1 DEF AloneInv, NeverContended
<1> DEFINE Places == {"out", "test", "take", "begin", "end", "release", "waiters"}
<1>7. Places = MutexPC \ {"enlist", "owner", "jump", "parked", "wake", "unplug"}
  BY DEF MutexPC
<1>8. \E where \in Places :
         /\ mpc' = [mpc EXCEPT ![t] = where] /\ wthreads' = wthreads
         /\ UNCHANGED vars
         /\ IF where \in Holding THEN locked' = t /\ lock_cnt' = 1
                                 ELSE locked' = None /\ lock_cnt' = 0
  <2> USE <1>1, <1>5, <1>6 DEF At, MGoto, Holding, mutex
  <2>1. CASE aquire(t)
    BY <2>1 DEF aquire
  <2>2. CASE aquire_test(t)
    BY <2>2 DEF aquire_test
  <2>3. CASE aquire_take(t)
    BY <2>3 DEF aquire_take
  <2>4. CASE put_escaped(t)
    BY <2>4 DEF put_escaped
  <2>5. CASE put_newline(t)
    BY <2>5 DEF put_newline
  <2>6. CASE release(t)
    BY <2>6 DEF release
  <2>7. CASE release_waiters(t)
    BY <2>7 DEF release_waiters, AloneInv
  <2>8. ~(\/ aquire_enlist(t) \/ aquire_owner(t) \/ aquire_jump(t)
          \/ release_wake(t) \/ release_unplug(t))
    BY DEF aquire_enlist, aquire_owner, aquire_jump, release_wake, release_unplug
  <2>9. QED
    BY <2>1, <2>2, <2>3, <2>4, <2>5, <2>6, <2>7, <2>8 DEF sender_step
<1>9. QED
  <2>1. PICK where \in Places :
         /\ mpc' = [mpc EXCEPT ![t] = where] /\ wthreads' = wthreads
         /\ UNCHANGED vars
         /\ IF where \in Holding THEN locked' = t /\ lock_cnt' = 1
                                 ELSE locked' = None /\ lock_cnt' = 0
    BY <1>8
  <2>2. where \in MutexPC \ {"enlist", "owner", "jump", "parked", "wake", "unplug"}
    BY <1>7
  <2>3. QED
    BY <1>1, <1>3, <1>4, <2>1, <2>2, AloneMoves

\* sched_mutex.cpp:11-51, sched_low.cpp:49: without a serial reader no thread
\* ever meets a locked mutex, however many threads send.
THEOREM AloneNeverContends ==
    ASSUME Reader = None
    PROVE  MutexSpec => []NeverContended
<1>1. MutexInit => AloneInv
  <2> SUFFICES ASSUME MutexInit PROVE AloneInv
    OBVIOUS
  <2>1. SchedInv /\ ~ready[Idle]
    BY InvInit DEF MutexInit, Init, Threads
  <2>2. mpc = [t \in Tasks |-> "out"] /\ locked = None /\ lock_cnt = 0 /\ wthreads = <<>>
    BY DEF MutexInit
  <2>3. QED
    BY <2>1, <2>2 DEF AloneInv, NeverContended, Holding, MutexPC
<1>2. AloneInv /\ [MutexNext]_mvars => AloneInv'
  <2> SUFFICES ASSUME AloneInv, [MutexNext]_mvars PROVE AloneInv'
    OBVIOUS
  <2>1. CASE sched_step
    BY <2>1, AloneSched
  <2>2. CASE \E t \in Senders : sender_step(t)
    BY <2>2, AloneSender
  <2>3. CASE UNCHANGED mvars
    <3>1. SchedInv'
      BY <2>3, InvNext DEF mvars, AloneInv
    <3>2. QED
      BY <2>3, <3>1 DEF mvars, vars, mutex, AloneInv, NeverContended, Booted
  <2>4. QED
    BY <2>1, <2>2, <2>3 DEF MutexNext, MutexStopped
<1>3. AloneInv => NeverContended
  BY DEF AloneInv
<1>4. QED
  BY <1>1, <1>2, <1>3, PTL DEF MutexSpec
=============================================================================
