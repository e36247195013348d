---------------------------- MODULE SchedProofs ----------------------------
(***************************************************************************)
(* Theorems about Sched for every set of threads, every assignment of      *)
(* roles to them, every set of delays and every size of the fifo.          *)
(***************************************************************************)
EXTENDS Sched, TLAPS, WellFoundedInduction, SequenceTheorems,
        FiniteSetTheorems

\* A set of naturals that is not empty has a least element.
LEMMA LeastNat ==
    ASSUME NEW S, S \subseteq Nat, S # {}
    PROVE  \E m \in S : \A n \in S : m <= n
<1>1. IsWellFoundedOn(OpToRel(<, Nat), Nat)
  BY NatLessThanWellFounded
<1>2. PICK m \in S : \A n \in S : <<n, m>> \notin OpToRel(<, Nat)
  BY <1>1, WFMin
<1>3. \A n \in S : ~(n < m)
  BY <1>2 DEF OpToRel
<1>4. QED
  BY <1>3

\* What the round-robin search returns: idle, or a ready thread other than the
\* running one; and it misses no ready thread.
LEMMA RoundRobin ==
    ASSUME InRing = Threads, current \in Threads, ring \in Seq(Threads)
    PROVE  \A rdy \in [Threads -> BOOLEAN] :
             /\ rr_next_task(rdy) \in Threads
             /\ \/ rr_next_task(rdy) = Idle
                \/ rr_next_task(rdy) # current /\ rdy[rr_next_task(rdy)]
             /\ (rr_next_task(rdy) = Idle /\ (current = Idle \/ ~rdy[Idle]))
                => \A t \in Tasks \ {current} : ~rdy[t]
<1> TAKE rdy \in [Threads -> BOOLEAN]
<1>1. \A t \in Threads : Position(t) \in 1 .. Len(ring)
  BY DEF InRing, Position
<1>2. Len(ring) \in Nat \ {0}
  BY <1>1
<1>3. \A t \in Threads : Distance(t) \in Nat
  BY <1>1, <1>2 DEF Distance
<1>4. Candidates(rdy) \subseteq Threads \ {current}
  BY DEF Candidates
<1>5. CASE Candidates(rdy) = {}
  BY <1>5, SchedAssumption DEF rr_next_task, Candidates, Threads
<1>6. CASE Candidates(rdy) # {}
  <2> DEFINE D == {Distance(t) : t \in Candidates(rdy)}
  <2>1. D \subseteq Nat /\ D # {}
    BY <1>3, <1>4, <1>6
  <2>2. PICK m \in D : \A n \in D : m <= n
    BY <2>1, LeastNat
  <2>3. PICK t \in Candidates(rdy) : m = Distance(t)
    BY <2>2
  <2>4. \A u \in Candidates(rdy) : Distance(t) <= Distance(u)
    BY <2>2, <2>3
  <2>5. rr_next_task(rdy) \in Candidates(rdy)
    BY <1>6, <2>3, <2>4 DEF rr_next_task
  <2>6. QED
    BY <2>5, SchedAssumption DEF Candidates, Threads
<1>7. QED
  BY <1>5, <1>6

-----------------------------------------------------------------------------
(* The list of delayed threads. *)

Entry == [tcb : Tasks, left : Int]

LEMMA PrefixBound ==
    ASSUME NEW q \in Seq(Entry), NEW d \in Int
    PROVE  Prefix(q, d) \in 0 .. Len(q)
<1> DEFINE P == {i \in DOMAIN q : \A j \in 1 .. i : q[j].left <= d}
<1>1. Len(q) \in Nat /\ DOMAIN q = 1 .. Len(q)
  OBVIOUS
<1>2. IsFiniteSet(1 .. Len(q)) /\ Cardinality(1 .. Len(q)) = Len(q)
  BY <1>1, FS_Interval
<1>3. P \subseteq 1 .. Len(q)
  BY <1>1
<1>4. IsFiniteSet(P) /\ Cardinality(P) <= Len(q)
  BY <1>2, <1>3, FS_Subset
<1>5. Cardinality(P) \in Nat
  BY <1>4, FS_CardinalityType
<1>6. QED
  BY <1>1, <1>4, <1>5 DEF Prefix

LEMMA InsertType ==
    ASSUME NEW q \in Seq(Entry), NEW e \in Entry
    PROVE  Insert(q, e) \in Seq(Entry)
<1> DEFINE k == Prefix(q, e.left)
<1>1. k \in 0 .. Len(q)
  BY PrefixBound DEF Entry
<1>2. <<e>> \in Seq(Entry)
  OBVIOUS
<1>3. CASE k = 0
  <2>1. SubSeq(q, 1, IF q = <<>> THEN 0 ELSE 1) \in Seq(Entry)
    <3>1. CASE q = <<>>
      BY <3>1, SubSeqProperties
    <3>2. CASE q # <<>>
      <4>1. 1 \in 1 .. Len(q)
        BY <3>2, EmptySeq
      <4>2. QED
        BY <3>2, <4>1, SubSeqProperties
    <3>3. QED
      BY <3>1, <3>2
  <2>2. QED
    BY <1>2, <1>3, <2>1, ConcatProperties DEF Insert
<1>4. CASE k # 0
  <2>1. SubSeq(q, 1, k) \in Seq(Entry)
    BY <1>1, <1>4, SubSeqProperties
  <2>2. SubSeq(q, k + 1, Len(q)) \in Seq(Entry)
    BY <1>1, <1>4, SubSeqProperties
  <2>3. QED
    BY <1>2, <1>4, <2>1, <2>2, ConcatProperties DEF Insert
<1>5. QED
  BY <1>3, <1>4

\* A list into which a node has been put holds it and nothing new besides.
LEMMA InsertMembers ==
    ASSUME NEW q \in Seq(Entry), NEW e \in Entry
    PROVE  ListedIn(Insert(q, e)) \subseteq ListedIn(q) \cup {e.tcb}
<1> DEFINE k == Prefix(q, e.left)
           one == SubSeq(q, 1, IF q = <<>> THEN 0 ELSE 1)
<1>1. k \in 0 .. Len(q)
  BY PrefixBound DEF Entry
<1>2. Len(q) \in Nat /\ DOMAIN q = 1 .. Len(q) /\ (q # <<>> => Len(q) # 0)
  BY EmptySeq
<1>3. ASSUME NEW r \in Seq(Entry), NEW s \in Seq(Entry)
      PROVE  ListedIn(r \o s) \subseteq ListedIn(r) \cup ListedIn(s)
  <2>1. /\ r \o s \in Seq(Entry) /\ Len(r \o s) = Len(r) + Len(s)
        /\ \A i \in 1 .. Len(r) + Len(s) :
             (r \o s)[i] = IF i <= Len(r) THEN r[i] ELSE s[i - Len(r)]
    BY ConcatProperties
  <2>2. /\ DOMAIN (r \o s) = 1 .. Len(r) + Len(s)
        /\ DOMAIN r = 1 .. Len(r) /\ DOMAIN s = 1 .. Len(s)
        /\ Len(r) \in Nat /\ Len(s) \in Nat
    BY <2>1
  <2>3. \A i \in 1 .. Len(r) + Len(s) :
           (r \o s)[i].tcb \in ListedIn(r) \cup ListedIn(s)
    <3> TAKE i \in 1 .. Len(r) + Len(s)
    <3>1. CASE i <= Len(r)
      BY <2>1, <2>2, <3>1 DEF ListedIn
    <3>2. CASE i > Len(r)
      <4>1. i - Len(r) \in DOMAIN s /\ (r \o s)[i] = s[i - Len(r)]
        BY <2>1, <2>2, <3>2
      <4>2. QED
        BY <4>1 DEF ListedIn
    <3>3. QED
      BY <2>2, <3>1, <3>2
  <2>4. QED
    BY <2>2, <2>3 DEF ListedIn
<1>4. ASSUME NEW a \in 1 .. Len(q) + 1, NEW b \in 0 .. Len(q)
      PROVE  /\ SubSeq(q, a, b) \in Seq(Entry)
             /\ ListedIn(SubSeq(q, a, b)) \subseteq ListedIn(q)
  <2>1. \A i \in a .. b : q[i] \in Entry
    BY <1>2
  <2> DEFINE s == SubSeq(q, a, b)
  <2>2. /\ s \in Seq(Entry) /\ Len(s) = IF a <= b THEN b - a + 1 ELSE 0
        /\ \A i \in 1 .. b - a + 1 : s[i] = q[a + i - 1]
    BY <2>1, SubSeqProperties
  <2> HIDE DEF s
  <2>3. DOMAIN s = 1 .. Len(s) /\ Len(s) \in Nat
    BY <2>2
  <2>4. \A i \in DOMAIN s : i \in 1 .. b - a + 1
    BY <2>2, <2>3
  <2>5. \A i \in DOMAIN s : a + i - 1 \in DOMAIN q /\ s[i] = q[a + i - 1]
    BY <1>2, <2>2, <2>4
  <2>6. QED
    BY <2>2, <2>5 DEF s, ListedIn
<1>5. <<e>> \in Seq(Entry) /\ ListedIn(<<e>>) = {e.tcb}
  BY DEF ListedIn
<1>6. CASE k = 0
  <2>1. (IF q = <<>> THEN 0 ELSE 1) \in 0 .. Len(q)
    BY <1>2
  <2>2. one \in Seq(Entry) /\ ListedIn(one) \subseteq ListedIn(q)
    BY <1>2, <1>4, <2>1
  <2>3. Insert(q, e) = <<e>> \o one
    BY <1>6 DEF Insert
  <2> HIDE DEF one
  <2>4. QED
    BY <1>3, <1>5, <2>2, <2>3
<1>7. CASE k # 0
  <2> DEFINE head == SubSeq(q, 1, k)
             rest == SubSeq(q, k + 1, Len(q))
  <2>1. head \in Seq(Entry) /\ ListedIn(head) \subseteq ListedIn(q)
    BY <1>1, <1>2, <1>4
  <2>2. rest \in Seq(Entry) /\ ListedIn(rest) \subseteq ListedIn(q)
    BY <1>1, <1>2, <1>4
  <2>3. Insert(q, e) = head \o <<e>> \o rest
    BY <1>7 DEF Insert
  <2> HIDE DEF head, rest
  <2>4. /\ head \o <<e>> \in Seq(Entry)
        /\ ListedIn(head \o <<e>>) \subseteq ListedIn(head) \cup {e.tcb}
    BY <1>3, <1>5, <2>1, ConcatProperties
  <2> DEFINE front == head \o <<e>>
  <2>5. ListedIn(front \o rest) \subseteq ListedIn(front) \cup ListedIn(rest)
    BY <1>3, <2>2, <2>4
  <2>6. QED
    BY <2>1, <2>2, <2>3, <2>4, <2>5
<1>8. QED
  BY <1>6, <1>7

LEMMA TickedType ==
    ASSUME NEW q \in Seq(Entry)
    PROVE  /\ Ticked(q) \in Seq(Entry)
           /\ Len(Ticked(q)) = Len(q)
           /\ \A i \in 1 .. Len(q) : Ticked(q)[i].tcb = q[i].tcb
<1>1. Len(q) \in Nat /\ DOMAIN q = 1 .. Len(q)
  OBVIOUS
<1>2. \A i \in 1 .. Len(q) : q[i] \in Entry
  BY <1>1
<1>3. \A i \in 1 .. Len(q) :
         /\ [q[i] EXCEPT !.left = @ - 1] \in Entry
         /\ [q[i] EXCEPT !.left = @ - 1].tcb = q[i].tcb
  BY <1>2 DEF Entry
<1>4. Ticked(q) \in [1 .. Len(q) -> Entry]
  BY <1>1, <1>3 DEF Ticked
<1>5. Ticked(q) \in Seq(Entry) /\ Len(Ticked(q)) = Len(q)
  BY <1>1, <1>4
<1>6. QED
  BY <1>1, <1>3, <1>5 DEF Ticked

\* A tick drops from the list exactly threads that it wakes.
LEMMA TickKeeps ==
    ASSUME NEW q \in Seq(Entry), NEW n \in 0 .. Len(q)
    PROVE  /\ SubSeq(q, n + 1, Len(q)) \in Seq(Entry)
           /\ \A t : t \in ListedIn(q) =>
                 \/ t \in {q[i].tcb : i \in 1 .. n}
                 \/ t \in ListedIn(SubSeq(q, n + 1, Len(q)))
           /\ ListedIn(SubSeq(q, n + 1, Len(q))) \subseteq ListedIn(q)
<1> DEFINE s == SubSeq(q, n + 1, Len(q))
<1>1. Len(q) \in Nat /\ n \in Nat /\ n <= Len(q) /\ DOMAIN q = 1 .. Len(q)
  OBVIOUS
<1>2. \A i \in n + 1 .. Len(q) : q[i] \in Entry
  BY <1>1
<1>3. /\ s \in Seq(Entry)
      /\ Len(s) = IF n + 1 <= Len(q) THEN Len(q) - (n + 1) + 1 ELSE 0
      /\ \A i \in 1 .. Len(q) - (n + 1) + 1 : s[i] = q[(n + 1) + i - 1]
  BY <1>1, <1>2, SubSeqProperties
<1> HIDE DEF s
<1>4. ASSUME NEW i \in 1 .. Len(q), i > n
      PROVE  q[i].tcb \in ListedIn(s)
  <2> DEFINE j == i - n
  <2>1. j \in 1 .. Len(q) - (n + 1) + 1 /\ (n + 1) + j - 1 = i
    BY <1>1, <1>4
  <2>2. j \in 1 .. Len(s) /\ s[j] = q[i]
    <3>1. s[j] = q[(n + 1) + j - 1]
      BY <1>3, <2>1
    <3> n + 1 <= Len(q)
      BY <1>1, <1>4
    <3>2. Len(s) = Len(q) - (n + 1) + 1
      BY <1>3
    <3>3. QED
      BY <2>1, <3>1, <3>2
  <2>3. DOMAIN s = 1 .. Len(s)
    BY <1>3
  <2>4. QED
    BY <2>2, <2>3 DEF ListedIn
<1>5. ASSUME NEW i \in 1 .. Len(q)
      PROVE  q[i].tcb \in {q[j].tcb : j \in 1 .. n} \cup ListedIn(s)
  BY <1>1, <1>4
<1>6. \A t : t \in ListedIn(q) =>
                 \/ t \in {q[i].tcb : i \in 1 .. n}
                 \/ t \in ListedIn(s)
  BY <1>1, <1>5 DEF ListedIn
<1>7. ListedIn(s) \subseteq ListedIn(q)
  <2>1. Len(s) = Len(q) - n
    <3>1. CASE n + 1 <= Len(q)
      <4>1. Len(s) = Len(q) - (n + 1) + 1
        BY <1>3, <3>1
      <4>2. QED
        BY <1>1, <4>1
    <3>2. CASE n = Len(q)
      <4>1. ~(n + 1 <= Len(q))
        BY <1>1, <3>2
      <4>2. Len(s) = 0
        BY <1>3, <4>1
      <4>3. QED
        BY <1>1, <3>2, <4>2
    <3>3. n + 1 <= Len(q) \/ n = Len(q)
      <4>1. \A a, b \in Nat : a <= b => a + 1 <= b \/ a = b
        OBVIOUS
      <4>2. QED
        BY <1>1, <4>1
    <3>4. QED
      BY <3>1, <3>2, <3>3
  <2>2. DOMAIN s = 1 .. Len(s) /\ Len(s) \in Nat
    BY <1>3
  <2>3. \A i \in DOMAIN s : i \in 1 .. Len(q) - (n + 1) + 1
    BY <1>1, <2>1, <2>2
  <2>4. \A i \in DOMAIN s : (n + 1) + i - 1 \in DOMAIN q
    BY <1>1, <2>3
  <2>5. QED
    BY <1>3, <2>3, <2>4 DEF ListedIn
<1>8. QED
  BY <1>3, <1>6, <1>7 DEF s

-----------------------------------------------------------------------------
(* The inductive invariant, one lemma per action. *)

USE SchedAssumption DEF Threads, Alive, Booted, OnCPU, Running, Goto,
                        TaskPC, IdlePC

LEMMA InvInit == Init => SchedInv
<1> SUFFICES ASSUME Init PROVE SchedInv
  OBVIOUS
<1>1. TypeOK
  BY EmptySeq DEF Init, TypeOK
<1>2. RingInv /\ HaltSound /\ ReaderInv /\ ListedInv /\ NoTaskForgotten
  BY DEF Init, RingInv, InRing, HaltSound, ReaderInv, ListedInv, Listed,
         ListedIn, NoTaskForgotten
<1>3. QED
  BY <1>1, <1>2 DEF SchedInv

\* Appending a thread to the ring adds just that thread.
LEMMA RingGrows ==
    ASSUME ring \in Seq(Threads), NEW t \in Threads, ring' = Append(ring, t)
    PROVE  ring' \in Seq(Threads) /\ InRing' = InRing \cup {t}
<1>1. /\ ring' \in Seq(Threads)
      /\ Len(ring') = Len(ring) + 1
      /\ \A i \in 1 .. Len(ring) : ring'[i] = ring[i]
      /\ ring'[Len(ring) + 1] = t
  BY AppendProperties
<1>2. Len(ring) \in Nat /\ DOMAIN ring = 1 .. Len(ring)
  OBVIOUS
<1>3. DOMAIN ring' = 1 .. Len(ring) + 1
  BY <1>1
<1>4. QED
  BY <1>1, <1>2, <1>3 DEF InRing

LEMMA InvCreate ==
    ASSUME SchedInv, NEW t \in Tasks, create_process(t)
    PROVE  SchedInv'
<1> USE DEF SchedInv, create_process
<1>1. ring' \in Seq(Threads) /\ InRing' = InRing \cup {t}
  BY RingGrows DEF TypeOK
<1>2. TypeOK'
  BY <1>1 DEF TypeOK
<1>3. RingInv'
  BY <1>1 DEF RingInv, TypeOK
<1>4. ListedInv'
  BY DEF ListedInv, Listed, TypeOK
<1>5. HaltSound' /\ NoTaskForgotten'
  BY DEF HaltSound, NoTaskForgotten, TypeOK
<1>6. ReaderInv'
  BY <1>1 DEF ReaderInv, RingInv, TypeOK
<1>7. QED
  BY <1>2, <1>3, <1>5, <1>6, <1>4

LEMMA InvStart ==
    ASSUME SchedInv, start_idle
    PROVE  SchedInv'
<1> USE DEF SchedInv, start_idle
<1>1. ring' \in Seq(Threads) /\ InRing' = InRing \cup {Idle}
  BY RingGrows DEF TypeOK
<1>2. InRing = Tasks
  BY DEF RingInv
<1>3. TypeOK'
  BY <1>1 DEF TypeOK
<1>4. RingInv'
  BY <1>1, <1>2 DEF RingInv, TypeOK
<1>5. HaltSound'
  BY DEF HaltSound, TypeOK
<1>6. ReaderInv'
  BY <1>2 DEF ReaderInv, RingInv, TypeOK
<1>7. ListedInv'
  BY DEF ListedInv, Listed, TypeOK
<1>8. NoTaskForgotten'
  BY <1>2 DEF NoTaskForgotten, RingInv, TypeOK
<1>9. QED
  BY <1>3, <1>4, <1>5, <1>6, <1>8, <1>7

\* Only threads other than idle are ever on the delay list.
LEMMA ListedTasks == TypeOK => Listed \subseteq Tasks
<1> SUFFICES ASSUME TypeOK PROVE Listed \subseteq Tasks
  OBVIOUS
<1>1. delayq \in Seq(Entry)
  BY DEF TypeOK, Entry
<1>2. \A i \in DOMAIN delayq : delayq[i] \in Entry
  BY <1>1
<1>3. QED
  BY <1>2 DEF Listed, ListedIn, Entry

\* What the search finds from a state of the invariant.
LEMMA Found ==
    ASSUME SchedInv, Booted
    PROVE  \A rdy \in [Threads -> BOOLEAN] :
             /\ rr_next_task(rdy) \in Threads
             /\ \/ rr_next_task(rdy) = Idle
                \/ rr_next_task(rdy) # current /\ rdy[rr_next_task(rdy)]
             /\ (rr_next_task(rdy) = Idle /\ (current = Idle \/ ~rdy[Idle]))
                => \A t \in Tasks \ {current} : ~rdy[t]
<1>1. InRing = Threads /\ current \in Threads /\ ring \in Seq(Threads)
  BY DEF SchedInv, RingInv, TypeOK
<1>2. QED
  BY <1>1, RoundRobin

LEMMA InvScan ==
    ASSUME SchedInv, idle_scan
    PROVE  SchedInv'
<1> USE DEF SchedInv, idle_scan
<1>1. /\ wait_tid' \in Threads
      /\ wait_tid' = Idle \/ ready[wait_tid']
  BY Found DEF TypeOK
<1>2. TypeOK'
  BY <1>1 DEF TypeOK
<1>3. RingInv'
  BY DEF RingInv, InRing, TypeOK
<1>4. HaltSound'
  BY DEF HaltSound, TypeOK
<1>5. ReaderInv'
  BY <1>1 DEF ReaderInv, TypeOK
<1>6. ListedInv'
  BY DEF ListedInv, Listed, TypeOK
<1>7. NoTaskForgotten'
  BY DEF NoTaskForgotten, InHand, Listed, TypeOK
<1>8. QED
  BY <1>2, <1>3, <1>4, <1>5, <1>7, <1>6

LEMMA InvClear ==
    ASSUME SchedInv, idle_clear_ready
    PROVE  SchedInv'
<1> USE DEF SchedInv, idle_clear_ready
<1>1. TypeOK'
  BY DEF TypeOK
<1>2. RingInv'
  BY DEF RingInv, InRing, TypeOK
<1>3. HaltSound'
  BY DEF HaltSound, TypeOK
<1>4. ReaderInv'
  BY DEF ReaderInv, TypeOK
<1>5. ListedInv'
  BY DEF ListedInv, Listed, TypeOK
<1>6. NoTaskForgotten'
  BY DEF NoTaskForgotten, InHand, Listed, TypeOK
<1>7. QED
  BY <1>1, <1>2, <1>3, <1>4, <1>6, <1>5

LEMMA InvDispatch ==
    ASSUME SchedInv, idle_dispatch
    PROVE  SchedInv'
<1> USE DEF SchedInv, idle_dispatch
<1>1. TypeOK'
  BY DEF TypeOK
<1>2. RingInv'
  BY DEF RingInv, InRing, TypeOK
<1>3. HaltSound'
  BY DEF HaltSound, TypeOK
<1>4. ReaderInv'
  BY DEF ReaderInv, TypeOK
<1>5. ListedInv'
  BY DEF ListedInv, Listed, TypeOK
<1>6. NoTaskForgotten'
  BY DEF NoTaskForgotten, InHand, Listed, TypeOK
<1>7. QED
  BY <1>1, <1>2, <1>3, <1>4, <1>6, <1>5

LEMMA InvHalt ==
    ASSUME SchedInv, idle_halt
    PROVE  SchedInv'
<1> USE DEF SchedInv, idle_halt
<1>1. TypeOK'
  BY DEF TypeOK
<1>2. RingInv'
  BY DEF RingInv, InRing, TypeOK
<1>3. HaltSound'
  BY Found DEF HaltSound, TypeOK
<1>4. ReaderInv'
  BY DEF ReaderInv, TypeOK
<1>5. ListedInv'
  BY DEF ListedInv, Listed, TypeOK
<1>6. NoTaskForgotten'
  BY DEF NoTaskForgotten, InHand, Listed, TypeOK
<1>7. QED
  BY <1>1, <1>2, <1>3, <1>4, <1>6, <1>5

LEMMA InvEnlist ==
    ASSUME SchedInv, NEW t \in Tasks, NEW d \in Delays, delay_enlist(t, d)
    PROVE  SchedInv'
<1> USE DEF SchedInv, delay_enlist
<1> DEFINE e == [tcb |-> t, left |-> d]
<1>1. e \in Entry /\ delayq \in Seq(Entry)
  BY DEF TypeOK, Entry
<1>2. delayq' \in Seq(Entry)
  BY <1>1, InsertType
<1>3. TypeOK'
  BY <1>2 DEF TypeOK, Entry
<1>4. RingInv'
  BY DEF RingInv, InRing, TypeOK
<1>5. HaltSound'
  BY DEF HaltSound, TypeOK
<1>6. ReaderInv'
  BY DEF ReaderInv, TypeOK
<1>7. ListedInv'
  BY <1>1, InsertMembers DEF ListedInv, Listed, TypeOK
<1>8. NoTaskForgotten'
  BY DEF NoTaskForgotten, InHand, Listed, TypeOK
<1>9. QED
  BY <1>3, <1>4, <1>5, <1>6, <1>8, <1>7

LEMMA InvPark ==
    ASSUME SchedInv, NEW t \in Tasks, delay_park(t)
    PROVE  SchedInv'
<1> USE DEF SchedInv, delay_park, free_cpu
<1> DEFINE next == rr_next_task(ready)
<1>1. next \in Threads /\ (next = Idle \/ ready[next])
  BY Found DEF TypeOK
<1>2. TypeOK'
  BY <1>1 DEF TypeOK
<1>3. RingInv'
  BY <1>1 DEF RingInv, InRing, TypeOK
<1>4. HaltSound'
  BY Found DEF HaltSound, TypeOK
<1>5. ReaderInv'
  BY <1>1 DEF ReaderInv, TypeOK
<1>6. ListedInv'
  BY DEF ListedInv, Listed, TypeOK
<1>7. NoTaskForgotten'
  BY <1>1 DEF NoTaskForgotten, InHand, Listed, TypeOK
<1>8. QED
  BY <1>2, <1>3, <1>4, <1>5, <1>7, <1>6

LEMMA InvReturn ==
    ASSUME SchedInv, NEW t \in Tasks, delay_return(t)
    PROVE  SchedInv'
<1> USE DEF SchedInv, delay_return
<1>1. TypeOK'
  BY DEF TypeOK
<1>2. RingInv'
  BY DEF RingInv, InRing, TypeOK
<1>3. HaltSound'
  BY DEF HaltSound, TypeOK
<1>4. ReaderInv'
  BY DEF ReaderInv, TypeOK
<1>5. ListedInv'
  BY DEF ListedInv, Listed, TypeOK
<1>6. NoTaskForgotten'
  BY DEF NoTaskForgotten, InHand, Listed, TypeOK
<1>7. QED
  BY <1>1, <1>2, <1>3, <1>4, <1>6, <1>5

LEMMA InvRecv ==
    ASSUME SchedInv, NEW t \in Tasks, serial_recv(t)
    PROVE  SchedInv'
<1> USE DEF SchedInv, serial_recv
<1>1. rx \in Nat /\ t = Reader /\ rx_cv = None
  BY DEF TypeOK, ReaderInv
<1>2. CASE rx > 0
  <2>1. rx' \in 0 .. RxMax
    BY <1>2 DEF TypeOK
  <2>2. TypeOK'
    BY <1>2, <2>1 DEF TypeOK
  <2>3. RingInv'
    BY <1>2 DEF RingInv, InRing, TypeOK
  <2>4. HaltSound'
    BY <1>2 DEF HaltSound, TypeOK
  <2>5. ReaderInv'
    BY <1>1, <1>2 DEF ReaderInv, TypeOK
  <2>6. ListedInv'
    BY <1>2, ListedTasks DEF ListedInv, Listed, TypeOK
  <2>7. NoTaskForgotten'
    BY <1>2 DEF NoTaskForgotten, InHand, Listed, TypeOK
  <2>8. QED
    BY <2>2, <2>3, <2>4, <2>5, <2>7, <2>6
<1>3. CASE ~(rx > 0)
  <2> DEFINE next == rr_next_task(ready)
  <2>1. next \in Threads /\ (next = Idle \/ (next # t /\ ready[next]))
    BY Found DEF TypeOK
  <2>2. /\ ready' = [ready EXCEPT ![next] = FALSE, ![t] = FALSE]
        /\ current' = next /\ rx_cv' = t
    BY <1>3 DEF free_cpu
  <2> HIDE DEF next
  <2>3. TypeOK'
    BY <1>1, <1>3, <2>1, <2>2 DEF TypeOK
  <2>4. RingInv'
    BY <2>1, <2>2, <1>3 DEF RingInv, InRing, TypeOK
  <2>5. HaltSound'
    BY <2>1, <2>2, <1>3 DEF HaltSound, TypeOK
  <2>6. ReaderInv'
    BY <1>1, <2>1, <2>2, <1>3 DEF ReaderInv, TypeOK
  <2>7. ListedInv'
    BY <1>3, ListedTasks DEF ListedInv, Listed, TypeOK
  <2>8. NoTaskForgotten'
    BY <2>1, <2>2, <1>3 DEF NoTaskForgotten, InHand, Listed, TypeOK
  <2>9. QED
    BY <2>3, <2>4, <2>5, <2>6, <2>8, <2>7
<1>4. QED
  BY <1>2, <1>3

LEMMA InvExit ==
    ASSUME SchedInv, NEW t \in Tasks, sched_exit(t)
    PROVE  SchedInv'
<1> USE DEF SchedInv, sched_exit
<1>1. ready' \in [Threads -> BOOLEAN]
  BY DEF TypeOK
<1>2. /\ current' \in Threads
      /\ current' = Idle \/ (current' # t /\ ready'[current'])
  BY <1>1, Found
<1>3. TypeOK'
  BY <1>1, <1>2 DEF TypeOK
<1>4. RingInv'
  BY <1>2 DEF RingInv, InRing, TypeOK
<1>5. HaltSound'
  BY DEF HaltSound, TypeOK
<1>6. ReaderInv'
  BY <1>2 DEF ReaderInv, TypeOK
<1>7. ListedInv'
  BY DEF ListedInv, Listed, TypeOK
<1>8. NoTaskForgotten'
  BY <1>2 DEF NoTaskForgotten, InHand, Listed, TypeOK
<1>9. QED
  BY <1>3, <1>4, <1>5, <1>6, <1>8, <1>7

LEMMA InvUART ==
    ASSUME SchedInv, UART_IRQ
    PROVE  SchedInv'
<1> USE DEF SchedInv, UART_IRQ, IntEnabled
<1>0. CASE ~Booted
  <2>1. /\ rx' \in 0 .. RxMax /\ pc' = pc
        /\ UNCHANGED <<ring, current, ready, wait_tid, delayq, rx_cv, fault,
                       lost>>
    BY <1>0, SchedAssumption DEF RingInv, TypeOK, Interruptee, Goto, Booted
  <2>2. QED
    BY <1>0, <2>1
       DEF TypeOK, RingInv, InRing, HaltSound, ReaderInv, ListedInv, Listed,
           ListedIn, NoTaskForgotten, InHand, Booted, Alive
<1>a. SUFFICES ASSUME Booted PROVE SchedInv'
  BY <1>0
<1>1. /\ current \in Threads /\ rx' \in 0 .. RxMax
      /\ Interruptee = current
  BY <1>a DEF TypeOK, RingInv, Interruptee
<1>2. CASE rx_cv = None
  <2>1. TypeOK'
    BY <1>1, <1>2 DEF TypeOK
  <2>2. RingInv'
    BY <1>1, <1>2 DEF RingInv, InRing, TypeOK
  <2>3. HaltSound'
    BY <1>1, <1>2 DEF HaltSound, TypeOK
  <2>4. ReaderInv'
    BY <1>1, <1>2 DEF ReaderInv, TypeOK
  <2>5. ListedInv'
    BY <1>1, <1>2, ListedTasks DEF ListedInv, Listed, TypeOK
  <2>6. NoTaskForgotten'
    BY <1>1, <1>2 DEF NoTaskForgotten, InHand, Listed, TypeOK
  <2>7. QED
    BY <2>1, <2>2, <2>3, <2>4, <2>6, <2>5
<1>3. CASE rx_cv # None
  <2>1. /\ rx_cv = Reader /\ Reader \in Tasks /\ rx_cv # current
        /\ rx_cv' = None /\ current' = Reader
        /\ ready' = [[ready EXCEPT ![Reader] = TRUE]
                       EXCEPT ![current] = TRUE, ![Reader] = FALSE]
    BY <1>3 DEF TypeOK, ReaderInv, sel_task
  <2>2. pc' = [pc EXCEPT ![current] = Interrupted(pc[current])]
    BY <1>1, <1>3
  <2>3. TypeOK'
    BY <1>1, <2>1, <2>2 DEF TypeOK, Interrupted
  <2>4. RingInv'
    BY <1>1, <2>1, <2>2 DEF RingInv, InRing, TypeOK, Interrupted
  <2>5. HaltSound'
    BY <1>1, <2>1, <2>2 DEF HaltSound, TypeOK, Interrupted
  <2>6. ReaderInv'
    BY <1>1, <1>3, <2>1, <2>2 DEF ReaderInv, TypeOK, Interrupted
  <2>7. ListedInv'
    BY <1>1, <2>2, ListedTasks
       DEF ListedInv, Listed, TypeOK, Interrupted
  <2>8. NoTaskForgotten'
    BY <1>1, <2>1, <2>2
       DEF NoTaskForgotten, InHand, Listed, TypeOK, Interrupted
  <2>9. QED
    BY <2>3, <2>4, <2>5, <2>6, <2>8, <2>7
<1>4. QED
  BY <1>2, <1>3

\* Before bezbios_main a tick finds no one asleep and idle not ready.
LEMMA BootTick ==
    ASSUME SchedInv, PIT_IRQ, ~Booted
    PROVE  UNCHANGED vars
<1> USE DEF SchedInv
<1> DEFINE q     == Ticked(delayq)
           n     == Prefix(q, 0)
           woken == {q[i].tcb : i \in 1 .. n}
           rdy   == [t \in Threads |-> ready[t] \/ t \in woken]
<1>1. ~ready[Idle] /\ delayq = <<>> /\ pc[Idle] = "boot"
  BY DEF RingInv, Booted
<1>2. delayq \in Seq(Entry)
  BY DEF TypeOK, Entry
<1>3. q \in Seq(Entry) /\ Len(q) = Len(delayq)
  BY <1>2, TickedType
<1>4. n = 0 /\ q = <<>>
  <2>1. n \in 0 .. Len(q)
    BY <1>3, PrefixBound
  <2> HIDE DEF n, q
  <2>2. Len(q) = 0
    BY <1>1, <1>3
  <2>3. QED
    BY <1>3, <2>1, <2>2, EmptySeq
<1>5. woken = {}
  BY <1>4
<1>6. rdy = ready
  BY <1>5 DEF TypeOK
<1>7. /\ delayq' = SubSeq(q, n + 1, Len(q))
      /\ IF is_idle(rdy)
         THEN /\ ready' = rdy
              /\ UNCHANGED current
              /\ Goto(Idle, Interrupted("boot"))
         ELSE /\ free_cpu(rdy, TRUE)
              /\ Goto(Idle, Interrupted("boot"))
      /\ UNCHANGED <<ring, wait_tid, rx_cv, rx, fault, lost>>
  BY <1>1 DEF PIT_IRQ, Interruptee, Booted
<1> HIDE DEF q, n, woken, rdy
<1>8. delayq' = delayq
  BY <1>1, <1>3, <1>4, <1>7
<1>9. is_idle(rdy)
  BY <1>1, <1>6 DEF is_idle
<1>10. pc' = pc
  BY <1>1, <1>7, <1>9 DEF Goto, Interrupted, TypeOK
<1>11. QED
  BY <1>6, <1>7, <1>8, <1>9, <1>10 DEF vars

LEMMA InvPIT ==
    ASSUME SchedInv, PIT_IRQ, Booted
    PROVE  SchedInv'
<1> USE DEF SchedInv, IntEnabled
<1> DEFINE q     == Ticked(delayq)
           n     == Prefix(q, 0)
           woken == {q[i].tcb : i \in 1 .. n}
           rdy   == [t \in Threads |-> ready[t] \/ t \in woken]
<1>1. current \in Threads /\ Interruptee = current /\ Booted /\ Alive
  BY DEF RingInv, PIT_IRQ, Interruptee
<1>2. delayq \in Seq(Entry)
  BY DEF TypeOK, Entry
<1>3. /\ q \in Seq(Entry) /\ Len(q) = Len(delayq)
      /\ \A i \in 1 .. Len(delayq) : q[i].tcb = delayq[i].tcb
  BY <1>2, TickedType
<1>4. n \in 0 .. Len(q)
  BY <1>3, PrefixBound
<1>5. /\ delayq' = SubSeq(q, n + 1, Len(q))
      /\ delayq' \in Seq(Entry)
      /\ \A t : t \in ListedIn(q) => t \in woken \/ t \in ListedIn(delayq')
      /\ ListedIn(delayq') \subseteq ListedIn(q)
  BY <1>3, <1>4, TickKeeps DEF PIT_IRQ
<1>6. Listed = ListedIn(q)
  <2>1. DOMAIN delayq = 1 .. Len(delayq) /\ DOMAIN q = 1 .. Len(delayq)
    BY <1>2, <1>3
  <2>2. QED
    BY <1>3, <2>1 DEF Listed, ListedIn
<1>7. rdy \in [Threads -> BOOLEAN]
  BY DEF TypeOK
<1>8. /\ \A t \in Threads : ready[t] => rdy[t]
      /\ \A t \in Threads : rdy[t] => ready[t] \/ t \in woken
      /\ \A t \in Threads : t \in woken => rdy[t]
  OBVIOUS
<1>9. \A t \in woken : t \in Listed
  <2>1. Len(q) \in Nat /\ DOMAIN q = 1 .. Len(q)
    BY <1>3
  <2>2. QED
    BY <1>4, <1>6, <2>1 DEF ListedIn
<1>10. /\ IF is_idle(rdy)
          THEN /\ ready' = rdy
               /\ UNCHANGED current
               /\ Goto(current, IF pc[current] = "delay_win"
                                THEN "delay_ticked"
                                ELSE Interrupted(pc[current]))
          ELSE /\ free_cpu(rdy, TRUE)
               /\ Goto(current, Interrupted(pc[current]))
       /\ UNCHANGED <<ring, wait_tid, rx_cv, rx, fault, lost>>
       /\ pc[current] # "delay_ticked" /\ pc[current] # "rx_wait"
  BY <1>1 DEF PIT_IRQ
<1>11. rx_cv # None => rx_cv \in Threads /\ ~rdy[rx_cv]
  BY <1>1, <1>8, <1>9 DEF ReaderInv, ListedInv, TypeOK
<1> HIDE DEF q, n, woken, rdy
<1>12. CASE is_idle(rdy)
  <2>1. TypeOK'
    BY <1>1, <1>5, <1>7, <1>10, <1>12 DEF TypeOK, Interrupted, Entry
  <2>2. RingInv'
    BY <1>1, <1>10, <1>12 DEF RingInv, InRing, TypeOK, Interrupted
  <2>3. HaltSound'
    BY <1>1, <1>10, <1>12 DEF HaltSound, TypeOK, Interrupted
  <2>4. ReaderInv'
    BY <1>1, <1>10, <1>12, <1>11 DEF ReaderInv, TypeOK, Interrupted
  <2>5. ListedInv'
    BY <1>1, <1>5, <1>6, <1>10, <1>12, ListedTasks
       DEF ListedInv, Listed, TypeOK, Interrupted
  <2>6. NoTaskForgotten'
    BY <1>1, <1>5, <1>6, <1>8, <1>10, <1>12
       DEF NoTaskForgotten, InHand, Listed, TypeOK, Interrupted
  <2>7. QED
    BY <2>1, <2>2, <2>3, <2>4, <2>6, <2>5
<1>13. CASE ~is_idle(rdy)
  <2> DEFINE next == rr_next_task(rdy)
  <2>1. /\ next \in Threads
        /\ next = Idle \/ (next # current /\ rdy[next])
    BY <1>1, <1>7, Found
  <2>2. /\ ready' = [rdy EXCEPT ![next] = FALSE, ![current] = TRUE]
        /\ current' = next
        /\ pc' = [pc EXCEPT ![current] = Interrupted(pc[current])]
        /\ current # Idle
    BY <1>10, <1>13 DEF free_cpu, is_idle
  <2> HIDE DEF next
  <2>3. TypeOK'
    BY <1>1, <1>5, <1>7, <1>10, <2>1, <2>2 DEF TypeOK, Interrupted, Entry
  <2>4. RingInv'
    BY <1>1, <1>10, <2>1, <2>2 DEF RingInv, InRing, TypeOK, Interrupted
  <2>5. HaltSound'
    BY <1>1, <1>10, <2>1, <2>2 DEF HaltSound, TypeOK, Interrupted
  <2>6. ReaderInv'
    BY <1>1, <1>7, <1>10, <1>11, <2>1, <2>2
       DEF ReaderInv, TypeOK, Interrupted
  <2>7. ListedInv'
    BY <1>1, <1>5, <1>6, <1>10, <2>2, ListedTasks
       DEF ListedInv, Listed, TypeOK, Interrupted
  <2>8. NoTaskForgotten'
    BY <1>1, <1>5, <1>6, <1>7, <1>8, <1>10, <2>1, <2>2
       DEF NoTaskForgotten, InHand, Listed, TypeOK, Interrupted
  <2>9. QED
    BY <2>3, <2>4, <2>5, <2>6, <2>8, <2>7
<1>14. QED
  BY <1>12, <1>13

LEMMA InvStutter ==
    ASSUME SchedInv, UNCHANGED vars
    PROVE  SchedInv'
BY DEF vars, SchedInv, TypeOK, RingInv, InRing, HaltSound, ReaderInv,
       ListedInv, NoTaskForgotten, InHand, Listed

\* Each step of the threads, the idle loop and the two interrupts keeps the
\* inductive invariant.
LEMMA InvNext ==
    ASSUME SchedInv, [Next]_vars
    PROVE  SchedInv'
<1>1. CASE \E t \in Tasks : create_process(t)
  BY <1>1, InvCreate
<1>2. CASE start_idle
  BY <1>2, InvStart
<1>3. CASE idle_step
  BY <1>3, InvScan, InvClear, InvDispatch, InvHalt DEF idle_step
<1>4. CASE \E t \in Tasks : task_step(t)
  BY <1>4, InvEnlist, InvPark, InvReturn, InvRecv, InvExit DEF task_step
<1>5. CASE PIT_IRQ
  BY <1>5, InvPIT, BootTick, InvStutter
<1>6. CASE UART_IRQ
  BY <1>6, InvUART
<1>7. CASE Stopped \/ UNCHANGED vars
  BY <1>7, InvStutter DEF Stopped
<1>8. QED
  BY <1>1, <1>2, <1>3, <1>4, <1>5, <1>6, <1>7 DEF Next

\* Every reachable state satisfies the inductive invariant.
THEOREM Invariance == Spec => []SchedInv
<1>1. Init => SchedInv
  BY InvInit
<1>2. SchedInv /\ [Next]_vars => SchedInv'
  BY InvNext
<1>3. QED
  BY <1>1, <1>2, PTL DEF Spec

\* The state of every run is of the declared types.
THEOREM TypeCorrect == Spec => []TypeOK
<1>1. SchedInv => TypeOK
  BY DEF SchedInv
<1>2. QED
  BY <1>1, Invariance, PTL

\* sched_main.cpp:34-45: the CPU is halted only while no thread is ready.
THEOREM HaltIsSound == Spec => []HaltSound
<1>1. SchedInv => HaltSound
  BY DEF SchedInv
<1>2. QED
  BY <1>1, Invariance, PTL

\* Every thread off the CPU is ready or held by someone who will wake it, but
\* for the two losses recorded in the history.
THEOREM NoneForgotten == Spec => []NoTaskForgotten
<1>1. SchedInv => NoTaskForgotten
  BY DEF SchedInv
<1>2. QED
  BY <1>1, Invariance, PTL

\* uart.cpp:142-161: the reader waits only on an empty fifo, so the byte that
\* ends its wait is not one it has missed.
THEOREM ReaderWaitsEmpty == Spec => []ReaderParksEmpty
<1>1. SchedInv => ReaderParksEmpty
  BY DEF SchedInv, ReaderInv, ReaderParksEmpty
<1>2. QED
  BY <1>1, Invariance, PTL

\* Until bezbios_main is idle no interrupt switches: the timer finds idle not
\* ready (sched_low.cpp:47-50) and the receiver finds no one waiting.
THEOREM BootIsUndisturbed == Spec => BootUndisturbed
<1>1. ASSUME SchedInv, [Next]_vars, ~Booted, ring' = ring
      PROVE  current' = current
  <2>1. CASE \E t \in Tasks : create_process(t)
    <3>1. PICK t \in Tasks : ring' = Append(ring, t)
      BY <2>1 DEF create_process
    <3>2. ring \in Seq(Threads) /\ t \in Threads
      BY <1>1 DEF SchedInv, TypeOK, Threads
    <3>3. Len(ring') = Len(ring) + 1 /\ Len(ring) \in Nat
      BY <3>1, <3>2, AppendProperties
    <3>4. QED
      BY <1>1, <3>3
  <2>2. CASE start_idle
    <3>1. ring' = Append(ring, Idle)
      BY <2>2 DEF start_idle
    <3>2. ring \in Seq(Threads) /\ Idle \in Threads
      BY <1>1 DEF SchedInv, TypeOK, Threads
    <3>3. Len(ring') = Len(ring) + 1 /\ Len(ring) \in Nat
      BY <3>1, <3>2, AppendProperties
    <3>4. QED
      BY <1>1, <3>3
  <2>3. CASE idle_step \/ \E t \in Tasks : task_step(t)
    BY <1>1, <2>3
       DEF idle_step, idle_scan, idle_clear_ready, idle_dispatch, idle_halt,
           task_step, delay_enlist, delay_park, delay_return, serial_recv,
           sched_exit, Running, OnCPU
  <2>4. CASE PIT_IRQ
    BY <1>1, <2>4, BootTick DEF vars
  <2>5. CASE UART_IRQ
    <3>1. rx_cv = None
      BY <1>1 DEF SchedInv, RingInv
    <3>2. QED
      BY <2>5, <3>1 DEF UART_IRQ
  <2>6. CASE Stopped \/ UNCHANGED vars
    BY <2>6 DEF Stopped, vars
  <2>7. QED
    BY <1>1, <2>1, <2>2, <2>3, <2>4, <2>5, <2>6 DEF Next
<1>2. SchedInv /\ [Next]_vars
        => [~Booted /\ ring' = ring => current' = current]_vars
  BY <1>1
<1>3. QED
  BY <1>2, Invariance, PTL DEF Spec, BootUndisturbed
-----------------------------------------------------------------------------
(* Switches to a thread that is parked or has exited. *)

\* No thread has two nodes on the list.
Distinct(q) == \A i, j \in DOMAIN q : q[i].tcb = q[j].tcb => i = j

LEMMA Shift ==
    ASSUME NEW n \in Nat, NEW len \in Nat, n <= len
    PROVE  /\ len - (n + 1) + 1 = len - n
           /\ n + 1 <= len \/ len - n = 0
           /\ \A i \in Int : (n + 1) + i - 1 = n + i
OBVIOUS

\* What SubSeq leaves when the first n entries are taken off.
LEMMA Dropped ==
    ASSUME NEW q \in Seq(Entry), NEW n \in 0 .. Len(q)
    PROVE  LET s == SubSeq(q, n + 1, Len(q)) IN
           /\ s \in Seq(Entry) /\ Len(s) = Len(q) - n
           /\ \A i \in 1 .. Len(q) - n : s[i] = q[n + i]
<1> DEFINE s == SubSeq(q, n + 1, Len(q))
           len == Len(q)
<1>1. len \in Nat /\ n \in Nat /\ n <= len /\ DOMAIN q = 1 .. len
  OBVIOUS
<1>2. \A i \in n + 1 .. len : q[i] \in Entry
  BY <1>1
<1>3. /\ s \in Seq(Entry)
      /\ Len(s) = IF n + 1 <= len THEN len - (n + 1) + 1 ELSE 0
      /\ \A i \in 1 .. len - (n + 1) + 1 : s[i] = q[(n + 1) + i - 1]
  BY <1>1, <1>2, SubSeqProperties
<1> HIDE DEF s, len
<1>4. /\ len - (n + 1) + 1 = len - n
      /\ n + 1 <= len \/ len - n = 0
      /\ \A i \in Int : (n + 1) + i - 1 = n + i
  BY <1>1, Shift
<1>5. Len(s) = len - n
  BY <1>3, <1>4
<1>6. \A i \in 1 .. len - n : s[i] = q[n + i]
  <2> TAKE i \in 1 .. len - n
  <2>1. i \in Int /\ i \in 1 .. len - (n + 1) + 1
    BY <1>4
  <2>2. s[i] = q[(n + 1) + i - 1] /\ (n + 1) + i - 1 = n + i
    BY <1>3, <1>4, <2>1
  <2>3. QED
    BY <2>2
<1>7. QED
  BY <1>3, <1>5, <1>6 DEF s, len

\* Insert at the front: the new node, and the old head if there is one.
LEMMA InsertFront ==
    ASSUME NEW q \in Seq(Entry), NEW e \in Entry, Prefix(q, e.left) = 0
    PROVE  LET r == Insert(q, e) IN
           /\ DOMAIN r = 1 .. (IF q = <<>> THEN 1 ELSE 2)
           /\ r[1] = e /\ (q # <<>> => r[2] = q[1])
<1> DEFINE m == IF q = <<>> THEN 0 ELSE 1
           one == SubSeq(q, 1, m)
<1>1. Len(q) \in Nat /\ DOMAIN q = 1 .. Len(q) /\ \A i \in 1 .. Len(q) : q[i] \in Entry
  OBVIOUS
<1>2. <<e>> \in Seq(Entry) /\ Len(<<e>>) = 1 /\ <<e>>[1] = e
  OBVIOUS
<1>3. m \in 0 .. 1 /\ m <= Len(q)
  BY <1>1, EmptySeq
<1>4. /\ one \in Seq(Entry) /\ Len(one) = m
      /\ \A i \in 1 .. m : one[i] = q[i]
  <2>1. \A i \in 1 .. m : q[i] \in Entry
    BY <1>1, <1>3
  <2> HIDE DEF m
  <2>2. /\ one \in Seq(Entry)
        /\ Len(one) = IF 1 <= m THEN m - 1 + 1 ELSE 0
        /\ \A i \in 1 .. m - 1 + 1 : one[i] = q[1 + i - 1]
    BY <1>3, <2>1, SubSeqProperties
  <2>3. QED
    BY <1>3, <2>2
<1>5. Insert(q, e) = <<e>> \o one
  BY DEF Insert
<1>6. m = IF q = <<>> THEN 0 ELSE 1
  OBVIOUS
<1> HIDE DEF one, m
<1>7. /\ <<e>> \o one \in Seq(Entry) /\ Len(<<e>> \o one) = 1 + m
      /\ \A i \in 1 .. 1 + m :
           (<<e>> \o one)[i] = IF i <= 1 THEN <<e>>[i] ELSE one[i - 1]
  BY <1>2, <1>4, ConcatProperties
<1> DEFINE r == <<e>> \o one
<1>8. DOMAIN r = 1 .. 1 + m /\ r[1] = e /\ (m = 1 => r[2] = q[1])
  BY <1>2, <1>3, <1>4, <1>7
<1>9. QED
  BY <1>5, <1>6, <1>8

\* Insert behind the first k nodes: all of the others stay.
LEMMA InsertBehind ==
    ASSUME NEW q \in Seq(Entry), NEW e \in Entry, Prefix(q, e.left) # 0
    PROVE  LET r == Insert(q, e)
               k == Prefix(q, e.left)
           IN  /\ DOMAIN r = 1 .. Len(q) + 1
               /\ \A i \in 1 .. Len(q) + 1 :
                    r[i] = IF i <= k THEN q[i] ELSE IF i = k + 1 THEN e ELSE q[i - 1]
<1> DEFINE k == Prefix(q, e.left)
           head == SubSeq(q, 1, k)
           rest == SubSeq(q, k + 1, Len(q))
           front == head \o <<e>>
           r == front \o rest
<1>1. k \in 0 .. Len(q)
  BY PrefixBound DEF Entry
<1>2. Len(q) \in Nat /\ DOMAIN q = 1 .. Len(q) /\ \A i \in 1 .. Len(q) : q[i] \in Entry
  OBVIOUS
<1>3. <<e>> \in Seq(Entry) /\ Len(<<e>>) = 1 /\ <<e>>[1] = e
  OBVIOUS
<1>4. k \in 1 .. Len(q)
  BY <1>1
<1>5. Insert(q, e) = r
  BY DEF Insert
<1> HIDE DEF k
<1>6. /\ head \in Seq(Entry) /\ Len(head) = k
      /\ \A i \in 1 .. k : head[i] = q[i]
  <2>1. \A i \in 1 .. k : q[i] \in Entry
    BY <1>2, <1>4
  <2>2. /\ head \in Seq(Entry)
        /\ Len(head) = IF 1 <= k THEN k - 1 + 1 ELSE 0
        /\ \A i \in 1 .. k - 1 + 1 : head[i] = q[1 + i - 1]
    BY <1>2, <1>4, <2>1, SubSeqProperties
  <2>3. QED
    BY <1>4, <2>2
<1>7. /\ rest \in Seq(Entry) /\ Len(rest) = Len(q) - k
      /\ \A i \in 1 .. Len(q) - k : rest[i] = q[k + i]
  BY <1>1, Dropped
<1> HIDE DEF head, rest
<1>8. /\ front \in Seq(Entry) /\ Len(front) = k + 1
      /\ \A i \in 1 .. k + 1 : front[i] = IF i <= k THEN head[i] ELSE <<e>>[i - k]
  BY <1>3, <1>4, <1>6, ConcatProperties
<1>9. \A i \in 1 .. k + 1 : front[i] = IF i <= k THEN q[i] ELSE e
  BY <1>3, <1>4, <1>6, <1>8
<1> HIDE DEF front
<1>10. /\ r \in Seq(Entry) /\ Len(r) = k + 1 + (Len(q) - k)
       /\ \A i \in 1 .. k + 1 + (Len(q) - k) :
            r[i] = IF i <= k + 1 THEN front[i] ELSE rest[i - (k + 1)]
  <2>1. front \in Seq(Entry) /\ rest \in Seq(Entry)
    BY <1>7, <1>8
  <2>2. /\ r \in Seq(Entry) /\ Len(r) = Len(front) + Len(rest)
        /\ \A i \in 1 .. Len(front) + Len(rest) :
             r[i] = IF i <= Len(front) THEN front[i] ELSE rest[i - Len(front)]
    BY <2>1, ConcatProperties
  <2>3. Len(front) = k + 1 /\ Len(rest) = Len(q) - k
    BY <1>7, <1>8
  <2>4. QED
    BY <2>2, <2>3
<1> HIDE DEF r
<1>11. DOMAIN r = 1 .. Len(q) + 1
  BY <1>2, <1>4, <1>10
<1>12. \A i \in 1 .. Len(q) + 1 :
         r[i] = IF i <= k THEN q[i] ELSE IF i = k + 1 THEN e ELSE q[i - 1]
  <2> TAKE i \in 1 .. Len(q) + 1
  <2>1. i \in 1 .. k + 1 + (Len(q) - k)
    BY <1>2, <1>4
  <2>2. CASE i <= k + 1
    BY <1>4, <1>9, <1>10, <2>1, <2>2
  <2>3. CASE i > k + 1
    <3>1. i - (k + 1) \in 1 .. Len(q) - k /\ k + (i - (k + 1)) = i - 1
      BY <1>2, <1>4, <2>3
    <3>2. r[i] = rest[i - (k + 1)]
      BY <1>4, <1>10, <2>1, <2>3
    <3>3. QED
      BY <1>4, <1>7, <2>3, <3>1, <3>2
  <2>4. QED
    BY <1>4, <2>2, <2>3
<1>13. QED
  BY <1>5, <1>11, <1>12 DEF k

\* A new thread's node leaves them distinct, wherever it is put in.
LEMMA InsertDistinct ==
    ASSUME NEW q \in Seq(Entry), NEW e \in Entry,
           Distinct(q), e.tcb \notin ListedIn(q)
    PROVE  Distinct(Insert(q, e))
<1> DEFINE k == Prefix(q, e.left)
           r == Insert(q, e)
<1>1. k \in 0 .. Len(q)
  BY PrefixBound DEF Entry
<1>2. Len(q) \in Nat /\ DOMAIN q = 1 .. Len(q)
  OBVIOUS
<1>3. \A i \in 1 .. Len(q) : q[i].tcb # e.tcb
  BY <1>2 DEF ListedIn
<1>4. CASE k = 0
  <2>1. /\ DOMAIN r = 1 .. (IF q = <<>> THEN 1 ELSE 2)
        /\ r[1] = e /\ (q # <<>> => r[2] = q[1])
    BY <1>4, InsertFront
  <2>2. q # <<>> => 1 \in 1 .. Len(q)
    BY <1>2, EmptySeq
  <2> HIDE DEF r
  <2>3. QED
    BY <1>3, <2>1, <2>2 DEF Distinct, r
<1>5. CASE k # 0
  <2>1. /\ DOMAIN r = 1 .. Len(q) + 1
        /\ \A i \in 1 .. Len(q) + 1 :
             r[i] = IF i <= k THEN q[i] ELSE IF i = k + 1 THEN e ELSE q[i - 1]
    BY <1>5, InsertBehind
  <2>2. k \in 1 .. Len(q)
    BY <1>1, <1>5
  <2> HIDE DEF k, r
  <2> SUFFICES ASSUME NEW i \in 1 .. Len(q) + 1, NEW j \in 1 .. Len(q) + 1,
                      r[i].tcb = r[j].tcb
               PROVE  i = j
    BY <2>1 DEF Distinct, r
  <2> DEFINE at(n) == IF n <= k THEN n ELSE n - 1
  <2>3. \A n \in 1 .. Len(q) + 1 :
           n # k + 1 => at(n) \in 1 .. Len(q) /\ r[n] = q[at(n)]
    BY <1>2, <2>1, <2>2
  <2>4. r[k + 1] = e
    BY <1>2, <2>1, <2>2
  <2>5. CASE i = k + 1 \/ j = k + 1
    <3>1. i = k + 1 /\ j = k + 1
      BY <1>3, <2>3, <2>4, <2>5
    <3>2. QED
      BY <3>1
  <2>6. CASE i # k + 1 /\ j # k + 1
    <3>1. at(i) = at(j)
      <4>1. q[at(i)].tcb = q[at(j)].tcb /\ at(i) \in DOMAIN q /\ at(j) \in DOMAIN q
        BY <1>2, <2>3, <2>6
      <4> HIDE DEF at
      <4>2. QED
        BY <4>1 DEF Distinct
    <3>2. QED
      BY <2>2, <2>6, <3>1
  <2>7. QED
    BY <2>5, <2>6
<1>6. QED
  BY <1>4, <1>5

\* What a tick takes off the front is not in what it leaves.
LEMMA TickDistinct ==
    ASSUME NEW q \in Seq(Entry), NEW n \in 0 .. Len(q), Distinct(q)
    PROVE  /\ Distinct(SubSeq(q, n + 1, Len(q)))
           /\ {q[i].tcb : i \in 1 .. n} \cap ListedIn(SubSeq(q, n + 1, Len(q))) = {}
<1> DEFINE s == SubSeq(q, n + 1, Len(q))
<1>1. Len(q) \in Nat /\ n \in Nat /\ n <= Len(q) /\ DOMAIN q = 1 .. Len(q)
  OBVIOUS
<1>2. /\ s \in Seq(Entry) /\ Len(s) = Len(q) - n
      /\ \A i \in 1 .. Len(q) - n : s[i] = q[n + i]
  BY Dropped
<1> HIDE DEF s
<1>5. DOMAIN s = 1 .. Len(q) - n /\ \A i \in 1 .. Len(q) - n : s[i] = q[n + i]
  <2>1. DOMAIN s = 1 .. Len(s)
    BY <1>2
  <2>2. QED
    BY <1>2, <2>1
<1>6. \A i \in DOMAIN s : n + i \in DOMAIN q /\ s[i] = q[n + i] /\ i \in Nat
  BY <1>1, <1>5
<1>7. Distinct(s)
  <2> SUFFICES ASSUME NEW i \in DOMAIN s, NEW j \in DOMAIN s, s[i].tcb = s[j].tcb
               PROVE  i = j
    BY DEF Distinct
  <2>1. n + i = n + j
    BY <1>6 DEF Distinct
  <2>2. QED
    BY <1>1, <1>6, <2>1
<1>8. ASSUME NEW i \in 1 .. n, NEW j \in DOMAIN s
      PROVE  q[i].tcb # s[j].tcb
  <2>1. i \in DOMAIN q /\ i # n + j
    BY <1>1, <1>5
  <2>2. QED
    BY <1>6, <2>1 DEF Distinct
<1>9. QED
  BY <1>7, <1>8 DEF s, ListedIn

\* A node is on the list once, and a thread that has exited is neither ready nor
\* on the CPU.
SwitchInv ==
    Alive => /\ Distinct(delayq)
             /\ \A t \in Tasks : pc[t] = "exited" => ~ready[t] /\ current # t

\* What a step may do to make SwitchInv true again and keep to the promise.
Allowed(t) ==
    /\ Alive /\ current # t /\ current' = t
    /\ \/ pc[t] = "exited"
       \/ pc[t] = "delay_wait" /\ t \in ListedIn(delayq') /\ ~ready[t]
    => current = Idle /\ pc[Idle] = "dispatch"

LEMMA SwitchBoot ==
    ASSUME SchedInv, SwitchInv, start_idle \/ \E t \in Tasks : create_process(t)
    PROVE  SwitchInv' /\ \A t \in Tasks : Allowed(t)
<1>1. CASE start_idle
  <2>1. pc' = [pc EXCEPT ![Idle] = "scan"] /\ UNCHANGED <<delayq, fault>>
    BY <1>1 DEF start_idle
  <2>2. current' = Idle /\ \A t \in Tasks : ready'[t] = ready[t] /\ pc'[t] = pc[t]
    BY <1>1, <2>1 DEF start_idle, SchedInv, TypeOK
  <2>3. QED
    BY <2>1, <2>2 DEF SwitchInv, Allowed
<1>2. ASSUME NEW u \in Tasks, create_process(u)
      PROVE  SwitchInv' /\ \A t \in Tasks : Allowed(t)
  <2>1. /\ pc' = [pc EXCEPT ![u] = "user"] /\ ready' = [ready EXCEPT ![u] = TRUE]
        /\ current' = IF current = None THEN u ELSE current
        /\ UNCHANGED <<delayq, fault>> /\ pc[u] = "absent"
    BY <1>2 DEF create_process
  <2>2. \A t \in Tasks : t # u => ready'[t] = ready[t] /\ pc'[t] = pc[t]
    BY <2>1 DEF SchedInv, TypeOK
  <2>3. pc'[u] = "user"
    BY <2>1 DEF SchedInv, TypeOK
  <2>4. QED
    BY <2>1, <2>2, <2>3 DEF SwitchInv, Allowed
<1>3. QED
  BY <1>1, <1>2

LEMMA SwitchIdle ==
    ASSUME SchedInv, SwitchInv, idle_step
    PROVE  SwitchInv' /\ \A t \in Tasks : Allowed(t)
<1>1. Booted /\ current = Idle /\ Alive /\ wait_tid \in Threads
  BY DEF idle_step, idle_scan, idle_clear_ready, idle_dispatch, idle_halt, SchedInv,
         TypeOK
<1>2. delayq' = delayq /\ \A t \in Tasks : pc'[t] = pc[t]
  BY DEF idle_step, idle_scan, idle_clear_ready, idle_dispatch, idle_halt, SchedInv,
         TypeOK
<1>3. \A t \in Tasks : ~ready[t] => ~ready'[t]
  BY <1>1 DEF idle_step, idle_scan, idle_clear_ready, idle_dispatch, idle_halt,
              SchedInv, TypeOK
<1>4. CASE idle_dispatch
  <2>1. /\ pc[Idle] = "dispatch" /\ current' = wait_tid
        /\ pc[wait_tid] = "exited" => fault' # "none"
    BY <1>4 DEF idle_dispatch
  <2>2. QED
    BY <1>1, <1>2, <1>3, <2>1 DEF SwitchInv, Allowed
<1>5. CASE ~idle_dispatch
  <2>1. UNCHANGED <<current, fault>>
    BY <1>5 DEF idle_step, idle_scan, idle_clear_ready, idle_halt
  <2>2. QED
    BY <1>2, <1>3, <2>1 DEF SwitchInv, Allowed
<1>6. QED
  BY <1>4, <1>5

\* Blocking calls and the exit go to a ready thread or to idle.
LEMMA SwitchTask ==
    ASSUME SchedInv, SwitchInv, NEW u \in Tasks, task_step(u)
    PROVE  SwitchInv' /\ \A t \in Tasks : Allowed(t)
<1>1. /\ Booted /\ current = u /\ Alive /\ u # Idle
      /\ ready \in [Threads -> BOOLEAN] /\ pc \in [Threads -> TaskPC \cup IdlePC]
  BY DEF task_step, delay_enlist, delay_park, delay_return, serial_recv, sched_exit,
         SchedInv, TypeOK
<1>2. ASSUME NEW d \in Delays, delay_enlist(u, d)
      PROVE  SwitchInv' /\ \A t \in Tasks : Allowed(t)
  <2>1. pc[u] = "user" /\ u \notin Listed
    BY <1>1, <1>2 DEF delay_enlist, SchedInv, ListedInv
  <2>2. /\ delayq \in Seq(Entry) /\ [tcb |-> u, left |-> d] \in Entry
        /\ Distinct(delayq)
    BY <1>1 DEF SchedInv, TypeOK, Entry, SwitchInv
  <2>3. Distinct(Insert(delayq, [tcb |-> u, left |-> d]))
    BY <2>1, <2>2, InsertDistinct DEF Listed
  <2>4. /\ delayq' = Insert(delayq, [tcb |-> u, left |-> d])
        /\ pc' = [pc EXCEPT ![u] = "delay_win"]
        /\ UNCHANGED <<current, ready, fault>>
    BY <1>2 DEF delay_enlist
  <2>5. QED
    BY <1>1, <2>3, <2>4 DEF SwitchInv, Allowed
<1>3. ASSUME NEW rdy \in [Threads -> BOOLEAN],
             \A t \in Threads : rdy[t] => ready[t],
             current' = rr_next_task(rdy),
             \A t \in Tasks : ready'[t] => rdy[t] /\ t # u,
             NEW where, pc' = [pc EXCEPT ![u] = where],
             UNCHANGED <<delayq, fault>>
      PROVE  SwitchInv' /\ \A t \in Tasks : Allowed(t)
  <2>1. \/ current' = Idle
        \/ current' # u /\ current' \in Threads /\ rdy[current']
    BY <1>1, <1>3, Found
  <2>2. \A t \in Tasks : t # u => pc'[t] = pc[t]
    BY <1>1, <1>3
  <2>3. SwitchInv'
    BY <1>1, <1>3, <2>1, <2>2 DEF SwitchInv
  <2>4. \A t \in Tasks : Allowed(t)
    BY <1>1, <1>3, <2>1 DEF SwitchInv, Allowed
  <2>5. QED
    BY <2>3, <2>4
<1>4. CASE delay_park(u)
  <2>1. /\ current' = rr_next_task(ready)
        /\ ready' = [[ready EXCEPT ![rr_next_task(ready)] = FALSE] EXCEPT ![u] = FALSE]
        /\ pc' = [pc EXCEPT ![u] = "delay_wait"]
        /\ UNCHANGED <<delayq, fault>>
    BY <1>1, <1>4 DEF delay_park, free_cpu
  <2>2. \A t \in Tasks : ready'[t] => ready[t] /\ t # u
    BY <1>1, <2>1
  <2>3. QED
    BY <1>1, <1>3, <2>1, <2>2
<1>5. CASE delay_return(u)
  <2>1. /\ pc' = [pc EXCEPT ![u] = "user"] /\ UNCHANGED <<current, ready, delayq>>
        /\ pc[u] = "delay_wait"
    BY <1>5 DEF delay_return
  <2>2. QED
    BY <1>1, <2>1 DEF SwitchInv, Allowed
<1>6. CASE serial_recv(u)
  <2>1. CASE rx > 0
    <3>1. /\ pc' = [pc EXCEPT ![u] = "user"]
          /\ UNCHANGED <<current, ready, delayq, fault>>
      BY <1>6, <2>1 DEF serial_recv
    <3>2. QED
      BY <1>1, <3>1 DEF SwitchInv, Allowed
  <2>2. CASE ~(rx > 0)
    <3>1. /\ current' = rr_next_task(ready)
          /\ ready' = [[ready EXCEPT ![rr_next_task(ready)] = FALSE]
                         EXCEPT ![u] = FALSE]
          /\ pc' = [pc EXCEPT ![u] = "rx_wait"]
          /\ UNCHANGED <<delayq, fault>>
      BY <1>1, <1>6, <2>2 DEF serial_recv, free_cpu
    <3>2. \A t \in Tasks : ready'[t] => ready[t] /\ t # u
      BY <1>1, <3>1
    <3>3. QED
      BY <1>1, <1>3, <3>1, <3>2
  <2>3. QED
    BY <2>1, <2>2
<1>7. CASE sched_exit(u)
  <2>1. /\ ready' = [ready EXCEPT ![u] = FALSE]
        /\ current' = rr_next_task(ready')
        /\ pc' = [pc EXCEPT ![u] = "exited"]
        /\ UNCHANGED <<delayq, fault>>
    BY <1>7 DEF sched_exit
  <2>2. /\ ready' \in [Threads -> BOOLEAN]
        /\ \A t \in Threads : ready'[t] => ready[t] /\ t # u
    BY <1>1, <2>1
  <2>3. QED
    BY <1>3, <2>1, <2>2
<1>8. QED
  BY <1>2, <1>4, <1>5, <1>6, <1>7 DEF task_step

LEMMA SwitchUART ==
    ASSUME SchedInv, SwitchInv, UART_IRQ
    PROVE  SwitchInv' /\ \A t \in Tasks : Allowed(t)
<1>1. /\ UNCHANGED <<delayq, fault>> /\ Alive
      /\ ready \in [Threads -> BOOLEAN] /\ pc \in [Threads -> TaskPC \cup IdlePC]
      /\ pc[Idle] \in IdlePC
  BY DEF UART_IRQ, IntEnabled, SchedInv, TypeOK
<1>2. \A t \in Tasks : pc'[t] = "exited" => pc[t] = "exited"
  BY <1>1 DEF UART_IRQ, Interrupted
<1>3. CASE rx_cv = None
  BY <1>1, <1>2, <1>3 DEF UART_IRQ, SwitchInv, Allowed
<1>4. CASE rx_cv # None
  <2>1. /\ rx_cv \in Tasks /\ pc[rx_cv] = "rx_wait" /\ rx_cv # current
        /\ current \in Threads
    BY <1>4 DEF SchedInv, ReaderInv, TypeOK, RingInv
  <2>2. /\ current' = rx_cv
        /\ ready' = [[ready EXCEPT ![rx_cv] = TRUE]
                       EXCEPT ![current] = TRUE, ![rx_cv] = FALSE]
    BY <1>4, <2>1 DEF UART_IRQ, sel_task
  <2>3. \A t \in Tasks : ready'[t] => ready[t] \/ t = current
    BY <1>1, <2>1, <2>2
  <2>4. QED
    BY <1>1, <1>2, <2>1, <2>2, <2>3 DEF SwitchInv, Allowed
<1>5. QED
  BY <1>3, <1>4

LEMMA SwitchPIT ==
    ASSUME SchedInv, SwitchInv, PIT_IRQ, Booted
    PROVE  SwitchInv' /\ \A t \in Tasks : Allowed(t)
<1> DEFINE q     == Ticked(delayq)
           n     == Prefix(q, 0)
           woken == {q[i].tcb : i \in 1 .. n}
           rdy   == [t \in Threads |-> ready[t] \/ t \in woken]
<1>1. /\ current \in Threads /\ Alive /\ Interruptee = current
      /\ ready \in [Threads -> BOOLEAN] /\ pc \in [Threads -> TaskPC \cup IdlePC]
  BY DEF SchedInv, RingInv, PIT_IRQ, IntEnabled, Interruptee, TypeOK
<1>2. delayq \in Seq(Entry)
  BY DEF SchedInv, TypeOK, Entry
<1>3. /\ q \in Seq(Entry) /\ Len(q) = Len(delayq)
      /\ \A i \in 1 .. Len(delayq) : q[i].tcb = delayq[i].tcb
  BY <1>2, TickedType
<1>4. n \in 0 .. Len(q)
  BY <1>3, PrefixBound
<1>5. DOMAIN delayq = 1 .. Len(delayq) /\ DOMAIN q = 1 .. Len(delayq)
  BY <1>2, <1>3
<1>6. Distinct(q)
  <2> HIDE DEF q
  <2>1. Distinct(delayq)
    BY <1>1 DEF SwitchInv
  <2>2. QED
    BY <1>3, <1>5, <2>1 DEF Distinct
<1>7. /\ Distinct(SubSeq(q, n + 1, Len(q)))
      /\ woken \cap ListedIn(SubSeq(q, n + 1, Len(q))) = {}
  BY <1>3, <1>4, <1>6, TickDistinct
<1>8. delayq' = SubSeq(q, n + 1, Len(q)) /\ UNCHANGED fault
  BY DEF PIT_IRQ
<1>9. \A t \in woken : t \in Listed
  <2>1. Len(q) \in Nat
    BY <1>3
  <2>2. QED
    BY <1>3, <1>4, <1>5, <2>1 DEF Listed, ListedIn
<1>10. \A t \in Tasks : pc[t] = "exited" => ~rdy[t] /\ t # current
  BY <1>1, <1>9 DEF SchedInv, ListedInv, SwitchInv
<1>11. \A t \in Tasks : rdy[t] => ready[t] \/ t \notin ListedIn(delayq')
  BY <1>7, <1>8
<1>12. rdy \in [Threads -> BOOLEAN]
  BY <1>1
<1>13. /\ IF is_idle(rdy)
          THEN /\ ready' = rdy /\ UNCHANGED current
               /\ Goto(current, IF pc[current] = "delay_win"
                                THEN "delay_ticked"
                                ELSE Interrupted(pc[current]))
          ELSE /\ free_cpu(rdy, TRUE)
               /\ Goto(current, Interrupted(pc[current]))
  BY <1>1 DEF PIT_IRQ
<1> HIDE DEF q, n, woken, rdy
<1>14. \A t \in Tasks : pc'[t] = "exited" => pc[t] = "exited"
  BY <1>1, <1>13 DEF Interrupted
<1>15. Distinct(delayq')
  BY <1>7, <1>8
<1>16. CASE is_idle(rdy)
  BY <1>1, <1>8, <1>10, <1>13, <1>14, <1>15, <1>16 DEF SwitchInv, Allowed
<1>17. CASE ~is_idle(rdy)
  <2>1. \/ rr_next_task(rdy) = Idle
        \/ rr_next_task(rdy) # current /\ rdy[rr_next_task(rdy)]
    BY <1>12, Found
  <2>2. /\ ready' = [rdy EXCEPT ![rr_next_task(rdy)] = FALSE, ![current] = TRUE]
        /\ current' = rr_next_task(rdy)
    BY <1>13, <1>17 DEF free_cpu
  <2>3. \A t \in Tasks : ready'[t] => rdy[t] \/ t = current
    BY <1>12, <2>2
  <2>4. SwitchInv'
    BY <1>8, <1>10, <1>14, <1>15, <2>1, <2>2, <2>3 DEF SwitchInv
  <2>5. \A t \in Tasks : Allowed(t)
    BY <1>1, <1>10, <1>11, <2>1, <2>2 DEF Allowed
  <2>6. QED
    BY <2>4, <2>5
<1>18. QED
  BY <1>16, <1>17

LEMMA SwitchNext ==
    ASSUME SchedInv, SwitchInv, [Next]_vars
    PROVE  SwitchInv' /\ \A t \in Tasks : Allowed(t)
<1>1. CASE UNCHANGED vars
  BY <1>1 DEF vars, SwitchInv, Distinct, Allowed
<1>2. CASE PIT_IRQ
  BY <1>1, <1>2, SwitchPIT, BootTick
<1>3. CASE Stopped
  BY <1>1, <1>3 DEF Stopped
<1>4. QED
  BY <1>1, <1>2, <1>3, SwitchBoot, SwitchIdle, SwitchTask, SwitchUART DEF Next

\* sched_main.cpp:29-32: only the idle loop resumes a parked thread that nobody
\* woke, or an exited one.  free_cpu goes to ready threads, and a thread is made
\* ready by the step that takes it off the list, which it is on only once.
THEOREM StaleIsFromIdle == Spec => StaleOnlyFromIdle
<1>1. Init => SwitchInv
  BY DEF Init, SwitchInv, Distinct
<1>3. SchedInv /\ SwitchInv /\ [Next]_vars => SwitchInv'
  BY SwitchNext
<1>4. SchedInv /\ SwitchInv /\ [Next]_vars
        => [\A t \in Tasks : Allowed(t)]_vars
  BY SwitchNext
<1>5. Spec => [][\A t \in Tasks : Allowed(t)]_vars
  BY <1>1, <1>3, <1>4, Invariance, PTL DEF Spec
<1>6. (\A t \in Tasks : Allowed(t))
      <=> (\A t \in Tasks :
             /\ Alive /\ current # t /\ current' = t
             /\ \/ pc[t] = "exited"
                \/ pc[t] = "delay_wait" /\ t \in ListedIn(delayq') /\ ~ready[t]
             => current = Idle /\ pc[Idle] = "dispatch")
  BY DEF Allowed
<1>7. QED
  BY <1>5, <1>6, PTL DEF StaleOnlyFromIdle

-----------------------------------------------------------------------------
(***************************************************************************)
(* Sched without a serial reader.  Then idle is never ready when it is     *)
(* looked at, so the timer never takes the CPU from anyone; what goes      *)
(* wrong with a reader cannot happen.                                      *)
(***************************************************************************)

\* The timer finds idle not ready, whomever it wakes.
LEMMA NoPreemption ==
    ASSUME SchedInv, ~ready[Idle], PIT_IRQ
    PROVE  current' = current /\ ~ready'[Idle]
<1> DEFINE q     == Ticked(delayq)
           n     == Prefix(q, 0)
           woken == {q[i].tcb : i \in 1 .. n}
           rdy   == [t \in Threads |-> ready[t] \/ t \in woken]
<1>1. delayq \in Seq(Entry)
  BY DEF SchedInv, TypeOK, Entry
<1>2. /\ q \in Seq(Entry) /\ Len(q) = Len(delayq)
      /\ \A i \in 1 .. Len(delayq) : q[i].tcb = delayq[i].tcb
  BY <1>1, TickedType
<1>3. n \in 0 .. Len(q)
  BY <1>2, PrefixBound
<1>4. Idle \notin woken
  <2>1. \A i \in 1 .. Len(q) : q[i].tcb \in Tasks
    <3> HIDE DEF q
    <3>1. \A i \in 1 .. Len(q) : q[i] \in Entry
      BY <1>2
    <3>2. QED
      BY <3>1 DEF Entry
  <2>2. QED
    BY <1>3, <2>1, SchedAssumption
<1>5. ~rdy[Idle]
  BY <1>4 DEF Threads
<1>6. IF is_idle(rdy)
      THEN ready' = rdy /\ UNCHANGED current
      ELSE free_cpu(rdy, TRUE)
  BY DEF PIT_IRQ
<1> HIDE DEF rdy
<1>7. is_idle(rdy)
  BY <1>5 DEF is_idle
<1>8. QED
  BY <1>5, <1>6, <1>7

\* Booted stays.
LEMMA StaysBooted ==
    ASSUME SchedInv, PIT_IRQ, Booted
    PROVE  Booted'
BY SchedAssumption
   DEF PIT_IRQ, Goto, Interruptee, Interrupted, Booted, SchedInv, TypeOK,
       IdlePC, TaskPC, RingInv, Threads

-----------------------------------------------------------------------------
(* No early return, no exited thread resumed. *)

USE SchedAssumption DEF Threads, Alive, Booted, OnCPU, Running, Goto,
                        TaskPC, IdlePC

Asleep(t) == pc[t] = "exited" \/ (pc[t] = "delay_wait" /\ t \in Listed)

\* A thread that sleeps or has exited is not ready, not on the CPU and not the
\* one that idle has chosen; and idle keeps the CPU while it has a choice.
AwakeInv ==
    /\ SwitchInv /\ Alive /\ ~ready[Idle]
    /\ pc[Idle] \in {"chosen", "dispatch"} =>
          current = Idle /\ wait_tid \in Tasks /\ ~Asleep(wait_tid)
    /\ \A t \in Tasks : Asleep(t) => ~ready[t] /\ current # t

LEMMA AwakeTypes ==
    ASSUME SchedInv
    PROVE  /\ ready \in [Threads -> BOOLEAN] /\ pc \in [Threads -> TaskPC \cup IdlePC]
           /\ pc[Idle] \in IdlePC /\ \A t \in Tasks : pc[t] \in TaskPC
           /\ delayq \in Seq(Entry) /\ wait_tid \in Threads
BY DEF SchedInv, TypeOK, Entry

LEMMA AwakeIdle ==
    ASSUME SchedInv, AwakeInv, idle_step, SwitchInv'
    PROVE  AwakeInv'
<1>1. Booted /\ current = Idle /\ delayq' = delayq
  BY DEF idle_step, idle_scan, idle_clear_ready, idle_dispatch, idle_halt
<1>2. \A t \in Tasks : pc'[t] = pc[t] /\ (Asleep(t)' <=> Asleep(t))
  BY <1>1, AwakeTypes DEF idle_step, idle_scan, idle_clear_ready, idle_dispatch, idle_halt,
                          Asleep, Listed
<1>3. CASE idle_scan
  <2>1. /\ wait_tid' = rr_next_task(ready) /\ UNCHANGED <<ready, current, fault>>
        /\ pc' = [pc EXCEPT ![Idle] = IF wait_tid' # Idle THEN "chosen" ELSE "pre_cli"]
    BY <1>3 DEF idle_scan
  <2>2. /\ wait_tid' \in Threads
        /\ wait_tid' # Idle => wait_tid' \in Tasks /\ ready[wait_tid']
    BY <1>1, <2>1, AwakeTypes, Found
  <2>3. pc'[Idle] \in {"chosen", "dispatch"} => wait_tid' # Idle
    BY <2>1, AwakeTypes
  <2>4. QED
    BY <1>1, <1>2, <2>1, <2>2, <2>3 DEF AwakeInv
<1>4. CASE idle_clear_ready
  <2>1. /\ ready' = [ready EXCEPT ![wait_tid] = FALSE] /\ pc[Idle] = "chosen"
        /\ UNCHANGED <<current, fault, wait_tid>>
    BY <1>4 DEF idle_clear_ready
  <2>2. \A t \in Threads : ready'[t] => ready[t]
    BY <2>1, AwakeTypes
  <2>3. QED
    BY <1>1, <1>2, <2>1, <2>2 DEF AwakeInv
<1>5. CASE idle_dispatch
  <2>1. /\ current' = wait_tid /\ pc[Idle] = "dispatch" /\ UNCHANGED ready
        /\ fault' = IF pc[wait_tid] = "exited" THEN "resumed_exited" ELSE fault
        /\ pc'[Idle] = "scan"
    BY <1>5, AwakeTypes DEF idle_dispatch
  <2>2. wait_tid \in Tasks /\ ~Asleep(wait_tid)
    BY <2>1 DEF AwakeInv
  <2>3. fault' = fault
    BY <2>1, <2>2 DEF Asleep
  <2>4. QED
    BY <1>2, <2>1, <2>2, <2>3 DEF AwakeInv
<1>6. CASE idle_halt
  <2>1. pc'[Idle] \in {"scan", "hlt"} /\ UNCHANGED <<current, fault, ready>>
    BY <1>6, AwakeTypes DEF idle_halt
  <2>2. QED
    BY <1>2, <2>1 DEF AwakeInv
<1>7. QED
  BY <1>3, <1>4, <1>5, <1>6 DEF idle_step

LEMMA AwakeTask ==
    ASSUME SchedInv, AwakeInv, NEW u \in Tasks, task_step(u), Reader = None, SwitchInv'
    PROVE  AwakeInv'
<1>1. /\ Booted /\ current = u /\ Alive /\ u # Idle /\ ~Asleep(u)
      /\ pc[Idle] \notin {"chosen", "dispatch"}
  BY DEF task_step, delay_enlist, delay_park, delay_return, serial_recv, sched_exit,
         AwakeInv
<1>2. ASSUME NEW d \in Delays, delay_enlist(u, d)
      PROVE  AwakeInv'
  <2>1. /\ pc' = [pc EXCEPT ![u] = "delay_win"] /\ UNCHANGED <<current, ready, fault>>
        /\ delayq' = Insert(delayq, [tcb |-> u, left |-> d])
    BY <1>2 DEF delay_enlist
  <2>2. Listed' \subseteq Listed \cup {u}
    <3>1. [tcb |-> u, left |-> d] \in Entry
      BY DEF Entry
    <3>2. QED
      BY <2>1, <3>1, AwakeTypes, InsertMembers DEF Listed
  <2>3. \A t \in Tasks : Asleep(t)' => Asleep(t)
    BY <2>1, <2>2, AwakeTypes DEF Asleep
  <2>4. pc'[Idle] = pc[Idle]
    BY <1>1, <2>1, AwakeTypes
  <2>5. QED
    BY <1>1, <2>1, <2>3, <2>4 DEF AwakeInv
<1>3. CASE delay_return(u)
  <2>1. /\ pc' = [pc EXCEPT ![u] = "user"] /\ pc[u] = "delay_wait"
        /\ UNCHANGED <<current, ready, delayq>>
        /\ fault' = IF u \in Listed THEN "early_return" ELSE fault
    BY <1>3 DEF delay_return
  <2>2. fault' = fault
    BY <1>1, <2>1 DEF Asleep
  <2>3. pc'[Idle] = pc[Idle] /\ \A t \in Tasks : Asleep(t)' => Asleep(t)
    BY <1>1, <2>1, AwakeTypes DEF Asleep, Listed
  <2>4. QED
    BY <1>1, <2>1, <2>2, <2>3 DEF AwakeInv
<1>4. ASSUME NEW rdy \in [Threads -> BOOLEAN],
             \A t \in Threads : rdy[t] => ready[t],
             current' = rr_next_task(rdy),
             \A t \in Threads : ready'[t] => rdy[t] /\ t # u,
             NEW where, pc' = [pc EXCEPT ![u] = where],
             UNCHANGED <<delayq, fault>>
      PROVE  AwakeInv'
  <2>1. \/ current' = Idle
        \/ current' # u /\ current' \in Threads /\ ready[current']
    BY <1>1, <1>4, Found
  <2>2. pc'[Idle] = pc[Idle] /\ \A t \in Tasks : t # u => (Asleep(t)' <=> Asleep(t))
    BY <1>1, <1>4, AwakeTypes DEF Asleep, Listed
  <2>3. ~ready'[Idle] /\ ~ready'[u] /\ current' # u
    BY <1>1, <1>4, <2>1 DEF AwakeInv
  <2>4. QED
    BY <1>1, <1>4, <2>1, <2>2, <2>3 DEF AwakeInv
<1>5. CASE delay_park(u)
  <2>1. /\ current' = rr_next_task(ready)
        /\ ready' = [[ready EXCEPT ![rr_next_task(ready)] = FALSE] EXCEPT ![u] = FALSE]
        /\ pc' = [pc EXCEPT ![u] = "delay_wait"]
        /\ UNCHANGED <<delayq, fault>>
    BY <1>1, <1>5 DEF delay_park, free_cpu
  <2>2. \A t \in Threads : ready'[t] => ready[t] /\ t # u
    BY <2>1, AwakeTypes
  <2>3. QED
    BY <1>4, <2>1, <2>2, AwakeTypes
<1>6. CASE sched_exit(u)
  <2>1. /\ ready' = [ready EXCEPT ![u] = FALSE]
        /\ current' = rr_next_task(ready')
        /\ pc' = [pc EXCEPT ![u] = "exited"]
        /\ UNCHANGED <<delayq, fault>>
    BY <1>6 DEF sched_exit
  <2>2. /\ ready' \in [Threads -> BOOLEAN]
        /\ \A t \in Threads : ready'[t] => ready[t] /\ t # u
    BY <2>1, AwakeTypes
  <2>3. QED
    BY <1>4, <2>1, <2>2
<1>7. ~serial_recv(u)
  BY DEF serial_recv
<1>8. QED
  BY <1>2, <1>3, <1>5, <1>6, <1>7 DEF task_step

LEMMA AwakeBoot ==
    ASSUME SchedInv, AwakeInv, SwitchInv',
           start_idle \/ \E t \in Tasks : create_process(t)
    PROVE  AwakeInv'
<1>1. CASE start_idle
  <2>1. /\ pc' = [pc EXCEPT ![Idle] = "scan"] /\ ready' = [ready EXCEPT ![Idle] = FALSE]
        /\ current' = Idle /\ UNCHANGED <<delayq, fault>>
    BY <1>1 DEF start_idle
  <2>2. \A t \in Tasks : ready'[t] = ready[t] /\ (Asleep(t)' <=> Asleep(t))
    BY <2>1, AwakeTypes DEF Asleep, Listed
  <2>3. ~ready'[Idle] /\ pc'[Idle] = "scan"
    BY <2>1, AwakeTypes
  <2>4. QED
    BY <2>1, <2>2, <2>3 DEF AwakeInv
<1>2. ASSUME NEW u \in Tasks, create_process(u)
      PROVE  AwakeInv'
  <2>1. /\ pc' = [pc EXCEPT ![u] = "user"] /\ ready' = [ready EXCEPT ![u] = TRUE]
        /\ current' = IF current = None THEN u ELSE current
        /\ UNCHANGED <<delayq, fault>> /\ pc[Idle] = "boot"
    BY <1>2 DEF create_process
  <2>2. /\ \A t \in Tasks : Asleep(t)' => Asleep(t) /\ t # u
        /\ \A t \in Threads : t # u => ready'[t] = ready[t]
        /\ pc'[Idle] = "boot"
    BY <2>1, AwakeTypes DEF Asleep, Listed
  <2>3. QED
    BY <2>1, <2>2 DEF AwakeInv
<1>3. QED
  BY <1>1, <1>2

LEMMA AwakePIT ==
    ASSUME SchedInv, AwakeInv, PIT_IRQ, Booted, SwitchInv'
    PROVE  AwakeInv'
<1> DEFINE q     == Ticked(delayq)
           n     == Prefix(q, 0)
           woken == {q[i].tcb : i \in 1 .. n}
           rdy   == [t \in Threads |-> ready[t] \/ t \in woken]
<1>1. /\ current' = current /\ ~ready'[Idle] /\ fault' = fault /\ wait_tid' = wait_tid
      /\ Interruptee = current /\ current \in Threads
  BY NoPreemption DEF AwakeInv, PIT_IRQ, Interruptee, SchedInv, RingInv
<1>2. /\ q \in Seq(Entry) /\ Len(q) = Len(delayq)
      /\ \A i \in 1 .. Len(delayq) : q[i].tcb = delayq[i].tcb
  BY AwakeTypes, TickedType
<1>3. n \in 0 .. Len(q)
  BY <1>2, PrefixBound
<1>4. DOMAIN delayq = 1 .. Len(delayq) /\ DOMAIN q = 1 .. Len(delayq)
  BY <1>2, AwakeTypes
<1>5. Distinct(q) /\ ListedIn(q) = Listed
  <2> HIDE DEF q
  <2>1. Distinct(delayq)
    BY DEF AwakeInv, SwitchInv
  <2>2. QED
    BY <1>2, <1>4, <2>1 DEF Distinct, Listed, ListedIn
<1>6. delayq' = SubSeq(q, n + 1, Len(q))
  BY DEF PIT_IRQ
<1>7. woken \cap Listed' = {} /\ Listed' \subseteq Listed
  BY <1>2, <1>3, <1>5, <1>6, TickDistinct, TickKeeps DEF Listed
<1>8. woken \subseteq Listed
  <2>1. Len(q) \in Nat
    BY <1>2
  <2>2. QED
    BY <1>2, <1>3, <1>4, <2>1 DEF Listed, ListedIn
<1>9. ready' = rdy
  <2>1. ~rdy[Idle]
    <3>1. Idle \notin Listed
      BY ListedTasks DEF SchedInv
    <3>2. QED
      BY <1>8, <3>1 DEF AwakeInv
  <2>2. is_idle(rdy)
    BY <2>1 DEF is_idle
  <2>3. QED
    BY <2>2 DEF PIT_IRQ
<1>10. \A t \in Tasks : ready'[t] => ready[t] \/ t \in woken
  BY <1>9
<1>11. /\ \E where \in {pc[current], Interrupted(pc[current]), "delay_ticked"} :
             pc' = [pc EXCEPT ![current] = where]
       /\ pc[current] = "delay_win" \/ pc' = [pc EXCEPT ![current] = Interrupted(pc[current])]
  <2>1. \/ Goto(current, IF pc[current] = "delay_win" THEN "delay_ticked"
                         ELSE Interrupted(pc[current]))
        \/ Goto(current, Interrupted(pc[current]))
    BY <1>1 DEF PIT_IRQ
  <2>2. QED
    BY <2>1
<1> HIDE DEF q, n, woken, rdy
<1>12. \A t \in Tasks : (pc'[t] = "exited" => pc[t] = "exited")
                     /\ (pc'[t] = "delay_wait" => pc[t] = "delay_wait")
  BY <1>1, <1>11, AwakeTypes DEF Interrupted
<1>13. \A t \in Tasks : Asleep(t)' => Asleep(t) /\ t \notin woken
  <2> SUFFICES ASSUME NEW t \in Tasks, Asleep(t)'
               PROVE  Asleep(t) /\ t \notin woken
    OBVIOUS
  <2>1. CASE pc'[t] = "exited"
    <3>1. t \notin Listed
      BY <1>12, <2>1 DEF AwakeInv, SchedInv, ListedInv
    <3>2. QED
      BY <1>8, <1>12, <2>1, <3>1 DEF Asleep
  <2>2. CASE pc'[t] = "delay_wait" /\ t \in Listed'
    BY <1>7, <1>12, <2>2 DEF Asleep
  <2>3. QED
    BY <2>1, <2>2 DEF Asleep
<1>14. pc'[Idle] \in {"chosen", "dispatch"} => pc[Idle] \in {"chosen", "dispatch"}
  BY <1>1, <1>11, AwakeTypes DEF Interrupted
<1>15. QED
  BY <1>1, <1>10, <1>13, <1>14 DEF AwakeInv

LEMMA AwakeNext ==
    ASSUME Reader = None, SchedInv, AwakeInv, [Next]_vars
    PROVE  AwakeInv'
<1>1. SwitchInv'
  BY SwitchNext DEF AwakeInv
<1>2. CASE UNCHANGED vars
  BY <1>1, <1>2 DEF vars, AwakeInv, Asleep, Listed
<1>3. CASE PIT_IRQ
  BY <1>1, <1>2, <1>3, AwakePIT, BootTick
<1>4. CASE UART_IRQ
  BY <1>4 DEF UART_IRQ
<1>5. CASE Stopped
  BY <1>2, <1>5 DEF Stopped
<1>6. QED
  BY <1>1, <1>2, <1>3, <1>4, <1>5, AwakeBoot, AwakeIdle, AwakeTask DEF Next

\* Init and the steps, for the theorems below.
LEMMA AwakeAlways ==
    ASSUME Reader = None
    PROVE  Spec => []AwakeInv
<1>1. Init => AwakeInv
  BY DEF Init, AwakeInv, Asleep, SwitchInv, Distinct, Listed, ListedIn
<1>2. SchedInv /\ AwakeInv /\ [Next]_vars => AwakeInv'
  BY AwakeNext
<1>3. QED
  BY <1>1, <1>2, Invariance, PTL DEF Spec

\* timerPIT.cpp:117-118: without a serial reader no delay returns early,
\* whatever the threads and their delays are.
THEOREM NotEarlyAlone ==
    ASSUME Reader = None
    PROVE  Spec => []DelayNotEarly
<1>1. AwakeInv => DelayNotEarly
  BY DEF AwakeInv, DelayNotEarly
<1>2. QED
  BY <1>1, AwakeAlways, PTL

\* sched_process.cpp:77-90: nor is a thread that has exited ever switched to.
THEOREM ExitedStayAlone ==
    ASSUME Reader = None
    PROVE  Spec => []ExitedStayExited
<1>1. AwakeInv => ExitedStayExited
  BY DEF AwakeInv, ExitedStayExited
<1>2. QED
  BY <1>1, AwakeAlways, PTL

-----------------------------------------------------------------------------
(* No thread sleeps for ever. *)

\* t is on the list, for n ticks or more.
Waits(t, n) == \E i \in DOMAIN delayq : delayq[i].tcb = t /\ delayq[i].left >= n

\* A thread in its window keeps the CPU and its node, which has a tick left
\* even if one has come.
LossInv ==
    /\ Listed \subseteq Sleepers
    /\ \A t \in Tasks :
          /\ pc[t] = "delay_win" => Booted /\ current = t /\ Waits(t, 2)
          /\ pc[t] = "delay_ticked" => Booted /\ current = t /\ Waits(t, 1)
    /\ NoTaskLost

\* The nodes that Prefix counts are not later than the time asked.
LEMMA PrefixSpent ==
    ASSUME NEW q \in Seq(Entry), NEW d \in Int, NEW i \in 1 .. Prefix(q, d)
    PROVE  q[i].left <= d
<1> DEFINE P == {m \in DOMAIN q : \A j \in 1 .. m : q[j].left <= d}
<1>1. Prefix(q, d) \in 0 .. Len(q) /\ Len(q) \in Nat /\ DOMAIN q = 1 .. Len(q)
  <2>1. Prefix(q, d) \in 0 .. Len(q)
    BY PrefixBound
  <2>2. QED
    BY <2>1
<1>2. i \in Nat /\ i >= 1 /\ i <= Prefix(q, d) /\ i <= Len(q)
  BY <1>1
<1>3. SUFFICES ASSUME ~(q[i].left <= d) PROVE FALSE
  OBVIOUS
<1>4. P \subseteq 1 .. i - 1
  <2> SUFFICES ASSUME NEW m \in P, ~(m <= i - 1) PROVE FALSE
    BY <1>1
  <2>1. i \in 1 .. m
    BY <1>1, <1>2
  <2>2. QED
    BY <1>3, <2>1
<1>5. IsFiniteSet(1 .. i - 1) /\ Cardinality(1 .. i - 1) = i - 1
  <2>1. 1 \in Int /\ i - 1 \in Int /\ ~(1 > i - 1 + 1)
    BY <1>2
  <2>2. CASE 1 > i - 1
    <3>1. 1 .. i - 1 = {} /\ i - 1 = 0
      BY <1>2, <2>2
    <3>2. QED
      BY <3>1, FS_EmptySet
  <2>3. CASE ~(1 > i - 1)
    <3>1. Cardinality(1 .. i - 1) = i - 1 - 1 + 1
      BY <2>1, <2>3, FS_Interval
    <3>2. QED
      BY <1>2, <2>1, <3>1, FS_Interval
  <2>4. QED
    BY <2>2, <2>3
<1>6. IsFiniteSet(P) /\ Cardinality(P) <= i - 1
  BY <1>4, <1>5, FS_Subset
<1>7. Prefix(q, d) = Cardinality(P)
  BY DEF Prefix
<1> HIDE DEF P
<1>8. QED
  BY <1>1, <1>2, <1>6, <1>7

\* A list of at most one node keeps it when another is put in.
LEMMA InsertKeeps ==
    ASSUME NEW q \in Seq(Entry), NEW e \in Entry,
           \A i, j \in DOMAIN q : i = j
    PROVE  /\ \E m \in DOMAIN Insert(q, e) : Insert(q, e)[m] = e
           /\ \A i \in DOMAIN q : \E m \in DOMAIN Insert(q, e) : Insert(q, e)[m] = q[i]
<1> DEFINE k == Prefix(q, e.left)
           r == Insert(q, e)
<1>1. k \in 0 .. Len(q) /\ Len(q) \in Nat /\ DOMAIN q = 1 .. Len(q)
  <2>1. k \in 0 .. Len(q)
    BY PrefixBound DEF Entry
  <2>2. QED
    BY <2>1
<1>2. \A i \in DOMAIN q : i = 1 /\ q # <<>>
  BY <1>1
<1>3. CASE k = 0
  <2>1. /\ DOMAIN r = 1 .. (IF q = <<>> THEN 1 ELSE 2)
        /\ r[1] = e /\ (q # <<>> => r[2] = q[1])
    BY <1>3, InsertFront
  <2> HIDE DEF r
  <2>2. 1 \in DOMAIN r /\ (q # <<>> => 2 \in DOMAIN r)
    BY <2>1
  <2>3. QED
    BY <1>2, <2>1, <2>2 DEF r
<1>4. CASE k # 0
  <2>1. /\ DOMAIN r = 1 .. Len(q) + 1
        /\ \A i \in 1 .. Len(q) + 1 :
             r[i] = IF i <= k THEN q[i] ELSE IF i = k + 1 THEN e ELSE q[i - 1]
    BY <1>4, InsertBehind
  <2>2. k \in 1 .. Len(q)
    BY <1>1, <1>4
  <2> HIDE DEF k, r
  <2>3. k + 1 \in DOMAIN r /\ r[k + 1] = e
    BY <1>1, <2>1, <2>2
  <2>4. 1 \in DOMAIN r /\ r[1] = q[1]
    BY <1>1, <2>1, <2>2
  <2>5. QED
    BY <1>2, <2>3, <2>4 DEF r
<1>5. QED
  BY <1>3, <1>4

\* A tick takes off none that waits for two, and one from what is left.
LEMMA TickWaits ==
    ASSUME NEW q \in Seq(Entry), NEW i \in DOMAIN q, NEW n \in Nat \ {0},
           q[i].left >= n + 1
    PROVE  LET s == SubSeq(Ticked(q), Prefix(Ticked(q), 0) + 1, Len(Ticked(q)))
           IN  \E j \in DOMAIN s : s[j].tcb = q[i].tcb /\ s[j].left >= n
<1> DEFINE r == Ticked(q)
           p == Prefix(r, 0)
           s == SubSeq(r, p + 1, Len(r))
<1>1. r \in Seq(Entry) /\ Len(r) = Len(q) /\ r[i].tcb = q[i].tcb
  BY TickedType
<1>2. r[i].left = q[i].left - 1 /\ q[i].left \in Int
  <2>1. q[i] \in Entry
    OBVIOUS
  <2>2. r[i] = [q[i] EXCEPT !.left = @ - 1]
    BY DEF Ticked
  <2>3. QED
    BY <2>1, <2>2 DEF Entry
<1>3. p \in 0 .. Len(r)
  BY <1>1, PrefixBound
<1>4. Len(q) \in Nat /\ i \in 1 .. Len(q) /\ DOMAIN r = 1 .. Len(q)
  BY <1>1
<1> HIDE DEF r
<1>5. ~(i <= p)
  <2> SUFFICES ASSUME i <= p PROVE FALSE
    OBVIOUS
  <2>1. i \in 1 .. p
    BY <1>3, <1>4
  <2>2. r[i].left <= 0
    BY <1>1, <2>1, PrefixSpent
  <2>3. QED
    BY <1>2, <2>2
<1>6. /\ s \in Seq(Entry) /\ Len(s) = Len(r) - p
      /\ \A j \in 1 .. Len(r) - p : s[j] = r[p + j]
  BY <1>1, <1>3, Dropped
<1> HIDE DEF s, p
<1>7. i - p \in 1 .. Len(r) - p /\ p + (i - p) = i
  BY <1>1, <1>3, <1>4, <1>5
<1>8. i - p \in DOMAIN s /\ s[i - p] = r[i]
  BY <1>6, <1>7
<1>9. s[i - p].tcb = q[i].tcb /\ s[i - p].left >= n
  BY <1>1, <1>2, <1>8
<1>10. QED
  BY <1>8, <1>9 DEF r, s, p

LEMMA LossTask ==
    ASSUME Reader = None, \A d \in Delays : d >= 2,
           \A a, b, c \in Sleepers : a = b \/ b = c \/ a = c,
           SchedInv, AwakeInv, LossInv, NEW u \in Tasks, task_step(u)
    PROVE  LossInv'
<1>1. /\ Booted /\ current = u /\ Alive /\ u # Idle
      /\ \A t \in Tasks : pc[t] \in {"delay_win", "delay_ticked"} => t = u
  BY DEF task_step, delay_enlist, delay_park, delay_return, serial_recv, sched_exit,
         LossInv
<1>2. ASSUME pc'[u] \notin {"delay_win", "delay_ticked"},
             \A t \in Tasks : t # u => pc'[t] = pc[t],
             delayq' = delayq, lost' = lost
      PROVE  LossInv'
  <2>1. \A t \in Tasks : pc'[t] \notin {"delay_win", "delay_ticked"}
    BY <1>1, <1>2
  <2>2. QED
    BY <1>2, <2>1 DEF LossInv, Listed, NoTaskLost
<1>3. ASSUME NEW d \in Delays, delay_enlist(u, d)
      PROVE  LossInv'
  <2> DEFINE e == [tcb |-> u, left |-> d]
  <2>1. /\ pc' = [pc EXCEPT ![u] = "delay_win"] /\ UNCHANGED current
        /\ delayq' = Insert(delayq, e)
        /\ lost' = [t \in Tasks |-> IF t \in Listed /\ t \notin Listed'
                                    THEN "unlinked" ELSE lost[t]]
        /\ pc[u] = "user" /\ u \in Sleepers
    BY <1>3 DEF delay_enlist, Listed
  <2>2. e \in Entry /\ e.tcb = u /\ e.left = d
    BY DEF Entry
  <2>3. u \notin Listed
    BY <1>1, <2>1 DEF SchedInv, ListedInv
  <2>4. \A i, j \in DOMAIN delayq : i = j
    <3> TAKE i, j \in DOMAIN delayq
    <3>1. delayq[i].tcb \in Listed /\ delayq[j].tcb \in Listed
      BY DEF Listed, ListedIn
    <3>2. delayq[i].tcb = delayq[j].tcb
      BY <2>1, <2>3, <3>1 DEF LossInv
    <3>3. QED
      BY <3>2 DEF AwakeInv, SwitchInv, Distinct
  <2> HIDE DEF e
  <2>5. /\ \E m \in DOMAIN delayq' : delayq'[m] = e
        /\ \A i \in DOMAIN delayq : \E m \in DOMAIN delayq' : delayq'[m] = delayq[i]
    BY <2>1, <2>2, <2>4, InsertKeeps, AwakeTypes
  <2>6. Listed' \subseteq Listed \cup {u}
    BY <2>1, <2>2, AwakeTypes, InsertMembers DEF Listed
  <2>7. Listed \subseteq Listed'
    BY <2>5 DEF Listed, ListedIn
  <2>8. Waits(u, 2)'
    BY <1>3, <2>2, <2>5 DEF Waits
  <2>9. \A t \in Tasks : lost'[t] = lost[t]
    BY <2>1, <2>7
  <2>10. \A t \in Tasks : t # u => pc'[t] = pc[t]
    BY <2>1, AwakeTypes
  <2>11. pc'[u] = "delay_win" /\ Booted'
    BY <1>1, <2>1, AwakeTypes
  <2>12. QED
    BY <1>1, <2>1, <2>6, <2>8, <2>9, <2>10, <2>11 DEF LossInv, NoTaskLost
<1>4. CASE delay_park(u)
  <2>1. /\ pc' = [pc EXCEPT ![u] = "delay_wait"] /\ delayq' = delayq
        /\ lost' = [lost EXCEPT ![u] = IF @ = "no" /\ u \notin Listed
                                       THEN "window" ELSE @]
        /\ pc[u] \in {"delay_win", "delay_ticked"}
    BY <1>4 DEF delay_park
  <2>2. u \in Listed
    BY <2>1 DEF LossInv, Waits, Listed, ListedIn
  <2>3. lost \in [Tasks -> {"no", "window", "unlinked"}]
    BY DEF SchedInv, TypeOK
  <2>4. lost' = lost
    BY <2>1, <2>2, <2>3
  <2>5. pc'[u] = "delay_wait" /\ \A t \in Tasks : t # u => pc'[t] = pc[t]
    BY <2>1, AwakeTypes
  <2>6. QED
    BY <1>2, <2>1, <2>4, <2>5
<1>5. CASE delay_return(u)
  <2>1. pc' = [pc EXCEPT ![u] = "user"] /\ delayq' = delayq /\ lost' = lost
    BY <1>5 DEF delay_return
  <2>2. pc'[u] = "user" /\ \A t \in Tasks : t # u => pc'[t] = pc[t]
    BY <2>1, AwakeTypes
  <2>3. QED
    BY <1>2, <2>1, <2>2
<1>6. CASE sched_exit(u)
  <2>1. pc' = [pc EXCEPT ![u] = "exited"] /\ delayq' = delayq /\ lost' = lost
    BY <1>6 DEF sched_exit
  <2>2. pc'[u] = "exited" /\ \A t \in Tasks : t # u => pc'[t] = pc[t]
    BY <2>1, AwakeTypes
  <2>3. QED
    BY <1>2, <2>1, <2>2
<1>7. ~serial_recv(u)
  BY DEF serial_recv
<1>8. QED
  BY <1>3, <1>4, <1>5, <1>6, <1>7 DEF task_step

LEMMA LossPIT ==
    ASSUME SchedInv, AwakeInv, LossInv, PIT_IRQ, Booted
    PROVE  LossInv'
<1> DEFINE q == Ticked(delayq)
           n == Prefix(q, 0)
<1>1. /\ current' = current /\ lost' = lost /\ Booted'
      /\ Interruptee = current /\ current \in Threads
      /\ pc[current] # "delay_ticked"
  BY NoPreemption, StaysBooted
     DEF AwakeInv, PIT_IRQ, Interruptee, SchedInv, RingInv
<1>2. /\ q \in Seq(Entry) /\ Len(q) = Len(delayq)
      /\ \A i \in 1 .. Len(delayq) : q[i].tcb = delayq[i].tcb
  BY AwakeTypes, TickedType
<1>3. n \in 0 .. Len(q)
  BY <1>2, PrefixBound
<1>4. delayq' = SubSeq(q, n + 1, Len(q))
  BY DEF PIT_IRQ
<1>5. Listed' \subseteq Listed
  <2>1. DOMAIN delayq = 1 .. Len(delayq) /\ DOMAIN q = 1 .. Len(delayq)
    BY <1>2, AwakeTypes
  <2>2. ListedIn(q) = Listed
    <3> HIDE DEF q
    <3>1. QED
      BY <1>2, <2>1 DEF Listed, ListedIn
  <2>3. QED
    BY <1>2, <1>3, <1>4, <2>2, TickKeeps DEF Listed
<1>6. \A t \in Tasks : \A m \in Nat \ {0} : Waits(t, m + 1) => Waits(t, m)'
  <2> TAKE t \in Tasks
  <2> TAKE m \in Nat \ {0}
  <2> SUFFICES ASSUME Waits(t, m + 1) PROVE Waits(t, m)'
    OBVIOUS
  <2>1. PICK i \in DOMAIN delayq : delayq[i].tcb = t /\ delayq[i].left >= m + 1
    BY DEF Waits
  <2>2. \E j \in DOMAIN delayq' : delayq'[j].tcb = delayq[i].tcb /\ delayq'[j].left >= m
    BY <1>4, <2>1, AwakeTypes, TickWaits
  <2>3. QED
    BY <2>1, <2>2 DEF Waits
<1>7. \E where \in {Interrupted(pc[current]), "delay_ticked"} :
         /\ pc' = [pc EXCEPT ![current] = where]
         /\ where = "delay_ticked" => pc[current] = "delay_win"
         /\ where = "delay_win" => pc[current] # "delay_win"
  <2>1. is_idle([t \in Threads |-> ready[t] \/ t \in {q[i].tcb : i \in 1 .. n}])
    <3>1. Idle \notin {q[i].tcb : i \in 1 .. n}
      <4>1. \A i \in 1 .. Len(q) : q[i].tcb \in Tasks
        <5> HIDE DEF q
        <5>1. \A i \in 1 .. Len(q) : q[i] \in Entry
          BY <1>2
        <5>2. QED
          BY <5>1 DEF Entry
      <4>2. QED
        BY <1>3, <4>1
    <3>2. QED
      BY <3>1 DEF is_idle, AwakeInv
  <2>2. Goto(current, IF pc[current] = "delay_win" THEN "delay_ticked"
                      ELSE Interrupted(pc[current]))
    BY <1>1, <2>1 DEF PIT_IRQ
  <2>3. /\ Interrupted(pc[current]) # "delay_ticked"
        /\ Interrupted(pc[current]) = "delay_win" => pc[current] = "delay_win"
    BY <1>1, AwakeTypes DEF Interrupted
  <2>4. QED
    BY <2>2, <2>3
<1>8. \A t \in Tasks : t # current => pc'[t] = pc[t]
  BY <1>1, <1>7, AwakeTypes
<1>9. \A t \in Tasks :
        /\ pc'[t] = "delay_win" => FALSE
        /\ pc'[t] = "delay_ticked" => pc[t] = "delay_win" /\ t = current
  <2> TAKE t \in Tasks
  <2>1. CASE t = current
    BY <1>1, <1>7, <2>1, AwakeTypes DEF Interrupted
  <2>2. CASE t # current
    BY <1>8, <2>2 DEF LossInv
  <2>3. QED
    BY <2>1, <2>2
<1>10. \A t \in Tasks : pc'[t] = "delay_ticked" => Waits(t, 1)'
  BY <1>6, <1>9 DEF LossInv
<1>11. QED
  BY <1>1, <1>5, <1>9, <1>10 DEF LossInv, NoTaskLost

LEMMA LossNext ==
    ASSUME Reader = None, \A d \in Delays : d >= 2,
           \A a, b, c \in Sleepers : a = b \/ b = c \/ a = c,
           SchedInv, AwakeInv, LossInv, [Next]_vars
    PROVE  LossInv'
<1>1. CASE UNCHANGED vars
  BY <1>1 DEF vars, LossInv, Waits, Listed, NoTaskLost
<1>2. ASSUME UNCHANGED <<delayq, lost>>,
             \A t \in Tasks : pc[t] \notin {"delay_win", "delay_ticked"},
             \A t \in Tasks : pc'[t] \notin {"delay_win", "delay_ticked"}
      PROVE  LossInv'
  BY <1>2 DEF LossInv, Listed, NoTaskLost
<1>3. CASE ~Booted /\ (start_idle \/ \E t \in Tasks : create_process(t))
  <2>1. UNCHANGED <<delayq, lost>>
    BY <1>3 DEF start_idle, create_process
  <2>2. \A t \in Tasks : pc[t] \notin {"delay_win", "delay_ticked"}
    BY <1>3 DEF LossInv
  <2>3. \A t \in Tasks : pc'[t] \in {pc[t], "user"}
    BY <1>3, AwakeTypes DEF start_idle, create_process
  <2>4. QED
    BY <1>2, <2>1, <2>2, <2>3
<1>4. CASE idle_step
  <2>1. UNCHANGED <<delayq, lost>> /\ current = Idle /\ \A t \in Tasks : pc'[t] = pc[t]
    BY <1>4, AwakeTypes DEF idle_step, idle_scan, idle_clear_ready, idle_dispatch, idle_halt
  <2>2. \A t \in Tasks : pc[t] \notin {"delay_win", "delay_ticked"}
    BY <2>1 DEF LossInv
  <2>3. QED
    BY <1>2, <2>1, <2>2
<1>5. CASE PIT_IRQ
  BY <1>1, <1>5, LossPIT, BootTick
<1>6. CASE UART_IRQ
  BY <1>6 DEF UART_IRQ
<1>7. CASE Stopped
  BY <1>1, <1>7 DEF Stopped
<1>8. start_idle \/ (\E t \in Tasks : create_process(t)) => ~Booted
  BY DEF start_idle, create_process
<1>9. QED
  BY <1>1, <1>3, <1>4, <1>5, <1>6, <1>7, <1>8, LossTask DEF Next

\* timerPIT.cpp:81-117: without a serial reader, with at most two threads that
\* sleep and delays of two ticks and more, no thread sleeps for ever: the list
\* is never cut, and a tick in the window leaves the node on the list.
THEOREM NoneLostAlone ==
    ASSUME Reader = None, \A d \in Delays : d >= 2,
           \A a, b, c \in Sleepers : a = b \/ b = c \/ a = c
    PROVE  Spec => []NoTaskLost
<1>1. Init => LossInv
  BY DEF Init, LossInv, Listed, ListedIn, NoTaskLost
<1>2. SchedInv /\ AwakeInv /\ LossInv /\ [Next]_vars => LossInv'
  BY LossNext
<1>3. LossInv => NoTaskLost
  BY DEF LossInv
<1>4. QED
  BY <1>1, <1>2, <1>3, Invariance, AwakeAlways, PTL DEF Spec
-----------------------------------------------------------------------------
(* How a delay runs down. *)

\* t is on the list, for n ticks.
Sleeps(t, n) == \E i \in DOMAIN delayq : delayq[i].tcb = t /\ delayq[i].left = n

\* The list is kept in the order of the timeouts, which is what lets the timer
\* stop at the first node that is not due (timerPIT.cpp:44-53).
Sorted(q) == \A i, j \in DOMAIN q : i < j => q[i].left <= q[j].left

\* The node behind those that Prefix counts is later.
LEMMA PrefixEnds ==
    ASSUME NEW q \in Seq(Entry), NEW d \in Int, Prefix(q, d) < Len(q)
    PROVE  q[Prefix(q, d) + 1].left > d
<1> DEFINE k == Prefix(q, d)
           P == {m \in DOMAIN q : \A j \in 1 .. m : q[j].left <= d}
<1>1. k \in Nat /\ k <= Len(q) /\ Len(q) \in Nat /\ DOMAIN q = 1 .. Len(q)
  <2>1. k \in 0 .. Len(q)
    BY PrefixBound
  <2>2. QED
    BY <2>1
<1>2. \A i \in 1 .. k : q[i].left <= d
  BY PrefixSpent
<1>3. k = Cardinality(P)
  BY DEF Prefix
<1>4. IsFiniteSet(P)
  <2>1. P \subseteq 1 .. Len(q) /\ IsFiniteSet(1 .. Len(q))
    BY <1>1, FS_Interval
  <2>2. QED
    BY <2>1, FS_Subset
<1>5. q[k + 1] \in Entry /\ k + 1 \in 1 .. Len(q)
  <2>1. k + 1 \in 1 .. Len(q)
    BY <1>1
  <2>2. QED
    BY <1>1, <2>1
<1> HIDE DEF k
<1>6. SUFFICES ASSUME q[k + 1].left <= d PROVE FALSE
  BY <1>5 DEF Entry, k
<1>7. 1 .. k + 1 \subseteq P
  <2> SUFFICES ASSUME NEW m \in 1 .. k + 1, NEW j \in 1 .. m
               PROVE  m \in DOMAIN q /\ q[j].left <= d
    OBVIOUS
  <2>1. m \in DOMAIN q
    BY <1>1, <1>5
  <2>2. j \in 1 .. k \/ j = k + 1
    BY <1>1
  <2>3. QED
    BY <1>2, <1>6, <2>1, <2>2
<1>8. Cardinality(1 .. k + 1) = k + 1
  BY <1>1, FS_Interval
<1>9. Cardinality(1 .. k + 1) <= Cardinality(P)
  BY <1>4, <1>7, FS_Subset
<1> HIDE DEF P
<1>10. QED
  BY <1>1, <1>3, <1>8, <1>9

\* In a list in order Prefix counts all the nodes that are not later.
LEMMA PrefixSplits ==
    ASSUME NEW q \in Seq(Entry), NEW d \in Int, Sorted(q)
    PROVE  \A i \in DOMAIN q : i <= Prefix(q, d) <=> q[i].left <= d
<1> TAKE i \in DOMAIN q
<1> DEFINE k == Prefix(q, d)
<1>1. k \in Nat /\ k <= Len(q) /\ Len(q) \in Nat /\ DOMAIN q = 1 .. Len(q)
  <2>1. k \in 0 .. Len(q)
    BY PrefixBound
  <2>2. QED
    BY <2>1
<1>2. i \in 1 .. k => q[i].left <= d
  BY PrefixSpent
<1>3. ASSUME ~(i <= k) PROVE q[i].left > d
  <2>1. k < Len(q) /\ k + 1 \in DOMAIN q /\ (k + 1 < i \/ k + 1 = i)
    BY <1>1, <1>3
  <2>2. q[k + 1].left > d
    BY <2>1, PrefixEnds
  <2>3. q[k + 1] \in Entry /\ q[i] \in Entry
    BY <2>1
  <2> HIDE DEF k
  <2>4. q[k + 1].left <= q[i].left
    BY <2>1, <2>3 DEF Sorted, Entry
  <2>5. QED
    BY <2>2, <2>3, <2>4 DEF Entry
<1>4. q[i].left \in Int
  <2>1. q[i] \in Entry
    OBVIOUS
  <2>2. QED
    BY <2>1 DEF Entry
<1> HIDE DEF k
<1>5. QED
  BY <1>1, <1>2, <1>3, <1>4 DEF k

\* A node put in keeps the order, and nothing else comes to the list with it.
LEMMA InsertSorted ==
    ASSUME NEW q \in Seq(Entry), NEW e \in Entry, Sorted(q)
    PROVE  /\ Sorted(Insert(q, e))
           /\ \A m \in DOMAIN Insert(q, e) :
                \/ Insert(q, e)[m] = e
                \/ \E i \in DOMAIN q : Insert(q, e)[m] = q[i]
<1> DEFINE k == Prefix(q, e.left)
           r == Insert(q, e)
<1>1. e.left \in Int /\ \A i \in DOMAIN q : q[i].left \in Int
  <2>1. \A i \in DOMAIN q : q[i] \in Entry
    OBVIOUS
  <2>2. QED
    BY <2>1 DEF Entry
<1>2. k \in Nat /\ k <= Len(q) /\ Len(q) \in Nat /\ DOMAIN q = 1 .. Len(q)
  <2>1. k \in 0 .. Len(q)
    BY <1>1, PrefixBound
  <2>2. QED
    BY <2>1
<1>3. \A i \in DOMAIN q : i <= k <=> q[i].left <= e.left
  BY <1>1, PrefixSplits
<1>4. CASE k = 0
  <2>1. /\ DOMAIN r = 1 .. (IF q = <<>> THEN 1 ELSE 2)
        /\ r[1] = e /\ (q # <<>> => r[2] = q[1])
    BY <1>4, InsertFront
  <2>2. q # <<>> => 1 \in DOMAIN q
    BY <1>2, EmptySeq
  <2> HIDE DEF r, k
  <2>3. q # <<>> => e.left <= q[1].left
    BY <1>1, <1>3, <1>4, <2>2
  <2>4. Sorted(r)
    BY <1>1, <2>1, <2>2, <2>3 DEF Sorted
  <2>5. \A m \in DOMAIN r : r[m] = e \/ \E i \in DOMAIN q : r[m] = q[i]
    BY <2>1, <2>2
  <2>6. QED
    BY <2>4, <2>5 DEF r
<1>5. CASE k # 0
  <2>1. /\ DOMAIN r = 1 .. Len(q) + 1
        /\ \A i \in 1 .. Len(q) + 1 :
             r[i] = IF i <= k THEN q[i] ELSE IF i = k + 1 THEN e ELSE q[i - 1]
    BY <1>5, InsertBehind
  <2> HIDE DEF k, r
  <2> DEFINE at(m) == IF m <= k THEN m ELSE m - 1
  <2>2. \A m \in DOMAIN r :
           m # k + 1 => at(m) \in DOMAIN q /\ r[m] = q[at(m)]
    BY <1>2, <2>1
  <2>3. r[k + 1] = e /\ k + 1 \in DOMAIN r
    BY <1>2, <2>1
  <2>4. ASSUME NEW i \in DOMAIN r, NEW j \in DOMAIN r, i < j
        PROVE  r[i].left <= r[j].left
    <3>1. i \in Nat /\ j \in Nat
      BY <2>1
    <3>2. CASE i = k + 1
      <4>1. at(j) \in DOMAIN q /\ r[j] = q[at(j)] /\ at(j) > k
        BY <1>2, <2>2, <2>4, <3>1, <3>2
      <4> HIDE DEF at
      <4>2. q[at(j)].left > e.left
        BY <1>1, <1>2, <1>3, <4>1
      <4>3. QED
        BY <1>1, <2>3, <3>2, <4>1, <4>2
    <3>3. CASE j = k + 1
      <4>1. at(i) \in DOMAIN q /\ r[i] = q[at(i)] /\ at(i) <= k
        BY <1>2, <2>2, <2>4, <3>1, <3>3
      <4> HIDE DEF at
      <4>2. q[at(i)].left <= e.left
        BY <1>3, <4>1
      <4>3. QED
        BY <2>3, <3>3, <4>1, <4>2
    <3>4. CASE i # k + 1 /\ j # k + 1
      <4>1. /\ at(i) \in DOMAIN q /\ r[i] = q[at(i)]
            /\ at(j) \in DOMAIN q /\ r[j] = q[at(j)]
        BY <2>2, <3>4
      <4>2. at(i) < at(j)
        BY <1>2, <2>4, <3>1, <3>4
      <4> HIDE DEF at
      <4>3. QED
        BY <4>1, <4>2 DEF Sorted
    <3>5. QED
      BY <3>2, <3>3, <3>4
  <2>5. \A m \in DOMAIN r : r[m] = e \/ \E i \in DOMAIN q : r[m] = q[i]
    BY <2>2, <2>3
  <2>6. QED
    BY <2>4, <2>5 DEF Sorted, r
<1>6. QED
  BY <1>4, <1>5

\* A tick keeps the order too, both of the whole list and of what is not due.
LEMMA TickSorted ==
    ASSUME NEW q \in Seq(Entry), Sorted(q)
    PROVE  /\ Sorted(Ticked(q))
           /\ \A i \in DOMAIN q : Ticked(q)[i].left = q[i].left - 1
           /\ \A n \in 0 .. Len(q) : Sorted(SubSeq(Ticked(q), n + 1, Len(q)))
<1> DEFINE r == Ticked(q)
<1>1. r \in Seq(Entry) /\ Len(r) = Len(q) /\ DOMAIN r = DOMAIN q
  <2>1. r \in Seq(Entry) /\ Len(r) = Len(q)
    BY TickedType
  <2>2. QED
    BY <2>1 DEF Ticked
<1>2. \A i \in DOMAIN q : q[i].left \in Int /\ r[i].left = q[i].left - 1
  <2>1. \A i \in DOMAIN q : q[i] \in Entry /\ r[i] = [q[i] EXCEPT !.left = @ - 1]
    BY DEF Ticked
  <2>2. QED
    BY <2>1 DEF Entry
<1> HIDE DEF r
<1>3. Sorted(r)
  BY <1>1, <1>2 DEF Sorted
<1>4. ASSUME NEW n \in 0 .. Len(q)
      PROVE  Sorted(SubSeq(r, n + 1, Len(q)))
  <2> DEFINE s == SubSeq(r, n + 1, Len(q))
  <2>1. /\ s \in Seq(Entry) /\ Len(s) = Len(r) - n
        /\ \A i \in 1 .. Len(r) - n : s[i] = r[n + i]
    BY <1>1, Dropped
  <2>2. DOMAIN s = 1 .. Len(r) - n /\ DOMAIN r = 1 .. Len(r) /\ Len(r) \in Nat
    <3> HIDE DEF s
    <3>1. DOMAIN s = 1 .. Len(s)
      BY <2>1
    <3>2. QED
      BY <1>1, <2>1, <3>1
  <2> HIDE DEF s
  <2>3. \A i \in DOMAIN s : n + i \in DOMAIN r /\ s[i] = r[n + i] /\ i \in Nat
    BY <1>1, <2>1, <2>2
  <2>4. SUFFICES ASSUME NEW i \in DOMAIN s, NEW j \in DOMAIN s, i < j
                 PROVE  s[i].left <= s[j].left
    BY DEF Sorted, s
  <2>5. n + i < n + j
    BY <2>3, <2>4
  <2>6. QED
    BY <1>3, <2>3, <2>5 DEF Sorted
<1>5. QED
  BY <1>2, <1>3, <1>4 DEF r

\* What a step does to a node that is on the list.
RunsDown(t, n) ==
    Sleeps(t, n) =>
        /\ PIT_IRQ => IF n <= 1
                      THEN t \notin ListedIn(delayq') /\ (ready'[t] \/ current' = t)
                      ELSE Sleeps(t, n - 1)'
        /\ ~PIT_IRQ => Sleeps(t, n)' \/ lost'[t] = "unlinked"

LEMMA QueueType == SchedInv => delayq \in Seq(Entry)
BY DEF SchedInv, TypeOK, Entry

LEMMA DownPIT ==
    ASSUME SchedInv, SwitchInv, Sorted(delayq), PIT_IRQ
    PROVE  Sorted(delayq') /\ \A t \in Tasks, n \in Int : RunsDown(t, n)
<1> DEFINE q     == Ticked(delayq)
           p     == Prefix(q, 0)
           woken == {q[i].tcb : i \in 1 .. p}
           rdy   == [t \in Threads |-> ready[t] \/ t \in woken]
<1>1. /\ q \in Seq(Entry) /\ Len(q) = Len(delayq)
      /\ \A i \in 1 .. Len(delayq) : q[i].tcb = delayq[i].tcb
  BY QueueType, TickedType
<1>2. DOMAIN delayq = 1 .. Len(delayq) /\ DOMAIN q = 1 .. Len(delayq)
      /\ Len(delayq) \in Nat
  BY <1>1, QueueType
<1>3. p \in 0 .. Len(q)
  BY <1>1, PrefixBound
<1>4. /\ Sorted(q)
      /\ \A i \in DOMAIN delayq : q[i].left = delayq[i].left - 1
      /\ Sorted(SubSeq(q, p + 1, Len(q)))
  <2>1. p \in 0 .. Len(delayq)
    BY <1>1, <1>3
  <2> HIDE DEF p
  <2>2. QED
    BY <1>1, <2>1, QueueType, TickSorted
<1>5. delayq' = SubSeq(q, p + 1, Len(q))
  BY DEF PIT_IRQ
<1>6. \A i \in DOMAIN q : i <= p <=> q[i].left <= 0
  BY <1>1, <1>4, PrefixSplits
<1>7. Distinct(q) /\ Alive
  <2> HIDE DEF q
  <2>1. Distinct(delayq) /\ Alive
    BY DEF SwitchInv, PIT_IRQ, IntEnabled
  <2>2. QED
    BY <1>1, <1>2, <2>1 DEF Distinct
<1>8. woken \cap ListedIn(delayq') = {}
  BY <1>1, <1>3, <1>5, <1>7, TickDistinct
<1>9. /\ Len(delayq') = Len(q) - p /\ DOMAIN delayq' = 1 .. Len(q) - p
      /\ \A i \in 1 .. Len(q) - p : delayq'[i] = q[p + i]
  <2> DEFINE s == SubSeq(q, p + 1, Len(q))
  <2>1. /\ s \in Seq(Entry) /\ Len(s) = Len(q) - p
        /\ \A i \in 1 .. Len(q) - p : s[i] = q[p + i]
    BY <1>1, <1>3, Dropped
  <2> HIDE DEF s
  <2>2. DOMAIN s = 1 .. Len(s)
    BY <2>1
  <2>3. QED
    BY <1>5, <2>1, <2>2 DEF s
<1>10. \A t \in woken : t \in Tasks => ready'[t] \/ current' = t
  <2>1. CASE ~Booted
    <3>1. delayq = <<>>
      BY <2>1 DEF SchedInv, RingInv
    <3>2. p = 0
      BY <1>1, <1>3, <3>1
    <3>3. QED
      BY <3>2
  <2>2. CASE Booted
    <3>1. /\ rdy \in [Threads -> BOOLEAN] /\ current \in Threads
          /\ \A t \in woken : t \in Tasks => rdy[t]
      BY <2>2 DEF SchedInv, TypeOK, RingInv
    <3>2. \/ ready' = rdy
          \/ free_cpu(rdy, TRUE)
      BY DEF PIT_IRQ
    <3> HIDE DEF woken, rdy
    <3>3. CASE ready' = rdy
      BY <3>1, <3>3
    <3>4. CASE free_cpu(rdy, TRUE)
      <4>1. /\ ready' = [rdy EXCEPT ![rr_next_task(rdy)] = FALSE, ![current] = TRUE]
            /\ current' = rr_next_task(rdy)
        BY <3>4 DEF free_cpu
      <4>2. QED
        BY <3>1, <4>1
    <3>5. QED
      BY <3>2, <3>3, <3>4
  <2>3. QED
    BY <2>1, <2>2
<1> HIDE DEF q, p, rdy
<1>11. ASSUME NEW t \in Tasks, NEW n \in Int, Sleeps(t, n)
       PROVE  IF n <= 1
              THEN t \notin ListedIn(delayq') /\ (ready'[t] \/ current' = t)
              ELSE Sleeps(t, n - 1)'
  <2>1. PICK i \in DOMAIN delayq : delayq[i].tcb = t /\ delayq[i].left = n
    BY <1>11 DEF Sleeps
  <2>2. /\ i \in 1 .. Len(q) /\ i \in DOMAIN q /\ p \in Nat /\ Len(q) \in Nat
        /\ q[i].tcb = t /\ q[i].left = n - 1
    BY <1>1, <1>2, <1>3, <1>4, <2>1
  <2>3. CASE n <= 1
    <3>1. i \in 1 .. p
      BY <1>6, <2>2, <2>3
    <3>2. t \in woken
      BY <2>2, <3>1
    <3>3. QED
      BY <1>8, <1>10, <2>3, <3>2
  <2>4. CASE ~(n <= 1)
    <3>1. ~(i <= p)
      BY <1>6, <2>2, <2>4
    <3>2. i - p \in 1 .. Len(q) - p /\ p + (i - p) = i
      BY <2>2, <3>1
    <3>3. i - p \in DOMAIN delayq' /\ delayq'[i - p] = q[i]
      BY <1>9, <3>2
    <3>4. Sleeps(t, n - 1)'
      BY <2>2, <3>3 DEF Sleeps
    <3>5. QED
      BY <2>4, <3>4
  <2>5. QED
    BY <2>3, <2>4
<1>12. QED
  BY <1>4, <1>5, <1>11 DEF RunsDown

LEMMA DownEnlist ==
    ASSUME SchedInv, SwitchInv, Sorted(delayq),
           NEW u \in Tasks, NEW d \in Delays, delay_enlist(u, d)
    PROVE  /\ Sorted(delayq')
           /\ \A t \in Tasks, n \in Int :
                 Sleeps(t, n) => Sleeps(t, n)' \/ lost'[t] = "unlinked"
<1> DEFINE e == [tcb |-> u, left |-> d]
<1>1. e \in Entry /\ e.tcb = u
  BY DEF Entry
<1>2. /\ delayq' = Insert(delayq, e)
      /\ lost' = [t \in Tasks |-> IF t \in Listed /\ t \notin ListedIn(delayq')
                                  THEN "unlinked" ELSE lost[t]]
      /\ u \notin Listed /\ Distinct(delayq)
  BY DEF delay_enlist, SchedInv, ListedInv, SwitchInv
<1> HIDE DEF e
<1>3. /\ Sorted(delayq')
      /\ \A m \in DOMAIN delayq' :
           delayq'[m] = e \/ \E i \in DOMAIN delayq : delayq'[m] = delayq[i]
  BY <1>1, <1>2, QueueType, InsertSorted
<1>4. ASSUME NEW t \in Tasks, NEW n \in Int, Sleeps(t, n)
      PROVE  Sleeps(t, n)' \/ lost'[t] = "unlinked"
  <2>1. PICK i \in DOMAIN delayq : delayq[i].tcb = t /\ delayq[i].left = n
    BY <1>4 DEF Sleeps
  <2>2. t \in Listed /\ t # u
    BY <1>2, <2>1 DEF Listed, ListedIn
  <2>3. CASE t \notin ListedIn(delayq')
    BY <1>2, <2>2, <2>3
  <2>4. CASE t \in ListedIn(delayq')
    <3>1. PICK m \in DOMAIN delayq' : delayq'[m].tcb = t
      BY <2>4 DEF ListedIn
    <3>2. PICK j \in DOMAIN delayq : delayq'[m] = delayq[j]
      BY <1>1, <1>3, <2>2, <3>1
    <3>3. i = j
      BY <1>2, <2>1, <3>1, <3>2 DEF Distinct
    <3>4. QED
      BY <2>1, <3>1, <3>2, <3>3 DEF Sleeps
  <2>5. QED
    BY <2>3, <2>4
<1>5. QED
  BY <1>3, <1>4

LEMMA DownNext ==
    ASSUME SchedInv, SwitchInv, Sorted(delayq), [Next]_vars
    PROVE  Sorted(delayq') /\ (Next => \A t \in Tasks, n \in Int : RunsDown(t, n))
<1>1. CASE PIT_IRQ
  BY <1>1, DownPIT
<1>2. CASE ~PIT_IRQ
  <2>1. CASE \E t \in Tasks : \E d \in Delays : delay_enlist(t, d)
    BY <1>2, <2>1, DownEnlist DEF RunsDown
  <2>2. CASE UNCHANGED delayq
    BY <1>2, <2>2 DEF RunsDown, Sleeps, Sorted
  <2>3. UNCHANGED delayq \/ \E t \in Tasks : \E d \in Delays : delay_enlist(t, d)
    <3>1. CASE UNCHANGED vars \/ Stopped
      BY <3>1 DEF Stopped, vars
    <3>2. CASE start_idle \/ \E t \in Tasks : create_process(t)
      BY <3>2 DEF start_idle, create_process
    <3>3. CASE idle_step
      BY <3>3 DEF idle_step, idle_scan, idle_clear_ready, idle_dispatch, idle_halt
    <3>4. CASE \E t \in Tasks : task_step(t)
      BY <3>4 DEF task_step, delay_park, delay_return, serial_recv, sched_exit
    <3>5. CASE UART_IRQ
      BY <3>5 DEF UART_IRQ
    <3>6. QED
      BY <1>2, <3>1, <3>2, <3>3, <3>4, <3>5 DEF Next
  <2>4. QED
    BY <2>1, <2>2, <2>3
<1>3. QED
  BY <1>1, <1>2

\* timerPIT.cpp:39-61 and 81-118.  A delay runs down by one with every tick,
\* whatever is put in before it or behind it, and the tick that uses it up takes
\* the thread off the list and makes it ready, or gives it the CPU; only being
\* unlinked by a node put in front ends a delay otherwise.  With the ticks that
\* never cease this is why a delay ends.
DelaysRunDown ==
    [][\A t \in Tasks, n \in Int :
          Sleeps(t, n) =>
             /\ PIT_IRQ =>
                   IF n <= 1
                   THEN t \notin ListedIn(delayq') /\ (ready'[t] \/ current' = t)
                   ELSE Sleeps(t, n - 1)'
             /\ ~PIT_IRQ => Sleeps(t, n)' \/ lost'[t] = "unlinked"]_vars

THEOREM DelayRunsDown == Spec => DelaysRunDown
<1>1. Init => Sorted(delayq)
  BY DEF Init, Sorted
<1>2. Init => SwitchInv
  BY DEF Init, SwitchInv, Distinct
<1>3. SchedInv /\ SwitchInv /\ Sorted(delayq) /\ [Next]_vars => Sorted(delayq)'
  BY DownNext
<1>4. SchedInv /\ SwitchInv /\ [Next]_vars => SwitchInv'
  BY SwitchNext
<1>5. SchedInv /\ SwitchInv /\ Sorted(delayq) /\ [Next]_vars
        => [\A t \in Tasks, n \in Int : RunsDown(t, n)]_vars
  BY DownNext
<1>6. Spec => [][\A t \in Tasks, n \in Int : RunsDown(t, n)]_vars
  BY <1>1, <1>2, <1>3, <1>4, <1>5, Invariance, PTL DEF Spec
<1>7. (\A t \in Tasks, n \in Int : RunsDown(t, n))
      <=> (\A t \in Tasks, n \in Int :
             Sleeps(t, n) =>
               /\ PIT_IRQ =>
                     IF n <= 1
                     THEN t \notin ListedIn(delayq') /\ (ready'[t] \/ current' = t)
                     ELSE Sleeps(t, n - 1)'
               /\ ~PIT_IRQ => Sleeps(t, n)' \/ lost'[t] = "unlinked")
  BY DEF RunsDown
<1>8. QED
  BY <1>6, <1>7, PTL DEF DelaysRunDown
-----------------------------------------------------------------------------
(* Whose turn it is. *)

\* Places on a ring of n, counted from c: from b, which comes no later than a,
\* it is nearer to a.
LEMMA Turn ==
    ASSUME NEW n \in Nat \ {0}, NEW a \in 1 .. n, NEW b \in 1 .. n, NEW c \in 1 .. n,
           a # b, b # c, (b - c) % n <= (a - c) % n
    PROVE  (a - b) % n < (a - c) % n
<1> DEFINE way(x) == IF x >= 0 THEN x ELSE x + n
<1>1. ASSUME NEW x \in Int, - n < x, x < n
      PROVE  x % n = way(x)
  BY <1>1
<1>2. /\ a \in Int /\ b \in Int /\ c \in Int
      /\ - n < a - b /\ a - b < n
      /\ - n < b - c /\ b - c < n
      /\ - n < a - c /\ a - c < n
  OBVIOUS
<1>3. (a - b) % n = way(a - b) /\ (b - c) % n = way(b - c) /\ (a - c) % n = way(a - c)
  BY <1>1, <1>2
<1>4. way(b - c) <= way(a - c)
  BY <1>3
<1>5. way(a - b) < way(a - c)
  BY <1>2, <1>4
<1>6. QED
  BY <1>3, <1>5

\* The search finds a ready thread if there is one, and none that is ready is
\* nearer.
LEMMA Nearest ==
    ASSUME InRing = Threads, current \in Threads, ring \in Seq(Threads),
           NEW rdy, NEW t \in Candidates(rdy)
    PROVE  /\ rr_next_task(rdy) \in Threads \ {current}
           /\ Distance(rr_next_task(rdy)) <= Distance(t)
           /\ Len(ring) \in Nat \ {0}
           /\ \A u \in Threads : Position(u) \in 1 .. Len(ring) /\ ring[Position(u)] = u
<1>1. \A u \in Threads : Position(u) \in 1 .. Len(ring) /\ ring[Position(u)] = u
  BY DEF InRing, Position
<1>2. Len(ring) \in Nat \ {0}
  BY <1>1
<1>3. \A u \in Threads : Distance(u) \in Nat
  BY <1>1, <1>2 DEF Distance
<1>4. Candidates(rdy) \subseteq Threads \ {current}
  BY DEF Candidates
<1> DEFINE D == {Distance(u) : u \in Candidates(rdy)}
<1>5. D \subseteq Nat /\ D # {}
  BY <1>3, <1>4
<1>6. PICK m \in D : \A n \in D : m <= n
  BY <1>5, LeastNat
<1>7. PICK v \in Candidates(rdy) : m = Distance(v)
  BY <1>6
<1>8. \A u \in Candidates(rdy) : Distance(v) <= Distance(u)
  BY <1>6, <1>7
<1>9. /\ rr_next_task(rdy) \in Candidates(rdy)
      /\ \A u \in Candidates(rdy) : Distance(rr_next_task(rdy)) <= Distance(u)
  BY <1>7, <1>8 DEF rr_next_task
<1>10. QED
  BY <1>1, <1>2, <1>4, <1>9

LEMMA SwitchBrings ==
    ASSUME SchedInv, Booted, NEW t \in Threads \ {current},
           NEW rdy, rdy[t], ring' = ring, current' = rr_next_task(rdy), current' # t
    PROVE  Distance(t)' < Distance(t)
<1>1. InRing = Threads /\ current \in Threads /\ ring \in Seq(Threads)
  BY DEF SchedInv, RingInv, TypeOK
<1>2. t \in Candidates(rdy)
  BY <1>1 DEF Candidates
<1>3. /\ current' \in Threads \ {current}
      /\ Distance(current') <= Distance(t)
      /\ Len(ring) \in Nat \ {0}
      /\ \A u \in Threads : Position(u) \in 1 .. Len(ring) /\ ring[Position(u)] = u
  BY <1>1, <1>2, Nearest
<1> DEFINE n == Len(ring)
           a == Position(t)
           b == Position(current')
           c == Position(current)
<1>4. /\ n \in Nat \ {0} /\ a \in 1 .. n /\ b \in 1 .. n /\ c \in 1 .. n
      /\ a # b /\ b # c
  BY <1>1, <1>3
<1>5. (b - c) % n <= (a - c) % n
  BY <1>3 DEF Distance
<1>6. Position(t)' = a /\ Position(current)' = b /\ Len(ring)' = n
  BY DEF Position
<1> HIDE DEF n, a, b, c
<1>7. (a - b) % n < (a - c) % n
  BY <1>4, <1>5, Turn
<1>8. Distance(t)' = (a - b) % n
  BY <1>6 DEF Distance
<1>9. Distance(t) = (a - c) % n
  BY DEF Distance, n, a, c
<1>10. QED
  BY <1>7, <1>8, <1>9

\* What a step does for a thread t that is ready.
Approaches(t) ==
    ready[t] =>
        /\ current # Idle /\ current' \notin {current, t}
           => Distance(t)' < Distance(t)
        /\ idle_scan => wait_tid' # Idle /\ Distance(wait_tid') <= Distance(t)

LEMMA Approaching ==
    ASSUME SchedInv, Next, Booted, ~UART_IRQ, NEW t \in Threads \ {current}
    PROVE  Approaches(t)
<1> SUFFICES ASSUME ready[t] PROVE Approaches(t)
  BY DEF Approaches
<1>1. /\ InRing = Threads /\ current \in Threads /\ ring \in Seq(Threads)
      /\ ready \in [Threads -> BOOLEAN]
  BY DEF SchedInv, RingInv, TypeOK
<1>2. ASSUME idle_scan
      PROVE  wait_tid' # Idle /\ Distance(wait_tid') <= Distance(t)
  <2>1. t \in Candidates(ready)
    BY <1>1 DEF Candidates
  <2>2. current = Idle /\ wait_tid' = rr_next_task(ready)
    BY <1>2 DEF idle_scan
  <2>3. QED
    BY <1>1, <2>1, <2>2, Nearest
<1>3. ASSUME current # Idle, current' # current, current' # t
      PROVE  Distance(t)' < Distance(t)
  <2>1. ASSUME NEW rdy, free_cpu(rdy, FALSE) \/ free_cpu(rdy, TRUE), rdy[t], ring' = ring
        PROVE  Distance(t)' < Distance(t)
    <3>1. current' = rr_next_task(rdy)
      BY <2>1 DEF free_cpu
    <3>2. QED
      BY <1>3, <2>1, <3>1, SwitchBrings
  <2>2. ~(\E u \in Tasks : create_process(u)) /\ ~start_idle /\ ~idle_step /\ ~Stopped
    BY <1>3 DEF create_process, start_idle, idle_step, idle_scan, idle_clear_ready,
               idle_dispatch, idle_halt, Stopped, vars
  <2>3. CASE \E u \in Tasks : task_step(u)
    <3>1. PICK u \in Tasks : task_step(u)
      BY <2>3
    <3>2. CASE delay_park(u)
      BY <2>1, <3>2 DEF delay_park
    <3>3. CASE serial_recv(u)
      BY <1>3, <2>1, <3>3 DEF serial_recv
    <3>4. CASE sched_exit(u)
      <4>1. /\ ready' = [ready EXCEPT ![u] = FALSE] /\ current' = rr_next_task(ready')
            /\ ring' = ring /\ u = current
        BY <3>4 DEF sched_exit
      <4>2. ready'[t]
        BY <1>1, <4>1
      <4>3. QED
        BY <1>3, <4>1, <4>2, SwitchBrings
    <3>5. QED
      BY <1>3, <3>1, <3>2, <3>3, <3>4 DEF task_step, delay_enlist, delay_return
  <2>4. CASE PIT_IRQ
    <3> DEFINE q     == Ticked(delayq)
               woken == {q[i].tcb : i \in 1 .. Prefix(q, 0)}
               rdy   == [v \in Threads |-> ready[v] \/ v \in woken]
    <3>1. rdy[t]
      OBVIOUS
    <3>2. (UNCHANGED current \/ free_cpu(rdy, TRUE)) /\ ring' = ring
      BY <2>4 DEF PIT_IRQ
    <3> HIDE DEF rdy
    <3>3. QED
      BY <1>3, <2>1, <3>1, <3>2
  <2>5. QED
    BY <2>2, <2>3, <2>4 DEF Next
<1>4. QED
  BY <1>2, <1>3 DEF Approaches

\* sched_process.cpp:18-47 and 86, sched_main.cpp:29.  A ready thread is not
\* overtaken in the round: whenever a thread other than idle is taken off the CPU
\* by the timer, by a wait or by its end, the CPU goes to a ready thread that is
\* no further away, so each such switch brings it nearer, and the idle loop finds
\* a thread that is no further away too.  Only the receiver, which gives the CPU
\* to the reader at once, is outside the round.
NoOvertaking ==
    [][Booted /\ ~UART_IRQ =>
          \A t \in Threads \ {current} :
             ready[t] =>
                /\ current # Idle /\ current' \notin {current, t}
                   => Distance(t)' < Distance(t)
                /\ idle_scan
                   => wait_tid' # Idle /\ Distance(wait_tid') <= Distance(t)]_vars

THEOREM NoneIsOvertaken == Spec => NoOvertaking
<1>1. SchedInv /\ [Next]_vars
        => [Booted /\ ~UART_IRQ => \A t \in Threads \ {current} : Approaches(t)]_vars
  BY Approaching
<1>2. (Booted /\ ~UART_IRQ => \A t \in Threads \ {current} : Approaches(t))
      <=> (Booted /\ ~UART_IRQ =>
             \A t \in Threads \ {current} :
                ready[t] =>
                  /\ current # Idle /\ current' \notin {current, t}
                     => Distance(t)' < Distance(t)
                  /\ idle_scan
                     => wait_tid' # Idle /\ Distance(wait_tid') <= Distance(t))
  BY DEF Approaches
<1>3. Spec => [][Booted /\ ~UART_IRQ
                   => \A t \in Threads \ {current} : Approaches(t)]_vars
  BY <1>1, Invariance, PTL DEF Spec
<1>4. QED
  BY <1>2, <1>3, PTL DEF NoOvertaking
=============================================================================
