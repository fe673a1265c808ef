--------------------------- MODULE RunQueuesProofs ---------------------------
(***************************************************************************)
(* What the scheduler's operators keep: each one takes a sound state to a  *)
(* sound state, neither loses nor doubles an EC, says which of them sleep, *)
(* and lets none that can run overtake another. These are the lemmas the   *)
(* proofs of the modules over RunQueues rest on.                           *)
(***************************************************************************)
EXTENDS RunQueues, LoopProofs, SequenceTheorems

Sound(s) == s \in SchedulerState /\ OnePlace(s)

\* The running EC is one of the highest priority that could run.
TopRuns(s) == \A p \in Levels : Runnable(s.queues[p]) # {} =>
                                    s.priority[s.current_ec] <= p

\* The ECs that wait with their flag set.
Asleep(s) == {e \in EC : \E p \in Levels : \E i \in 1 .. Len(s.queues[p]) :
                            s.queues[p][i].ec = e /\ s.queues[p][i].blocked}

\* t has what s has in its queues, and whatever came behind it.
StartsWith(s, t) ==
    \A p \in Levels : \A i \in 1 .. Len(s.queues[p]) :
        i \in 1 .. Len(t.queues[p]) /\ t.queues[p][i] = s.queues[p][i]

\* s and t have the same ECs in the same places.
SamePlace(s, t) ==
    \A p \in Levels : /\ Len(t.queues[p]) = Len(s.queues[p])
                      /\ \A i \in 1 .. Len(s.queues[p]) :
                            t.queues[p][i].ec = s.queues[p][i].ec

\* Two ECs that can run in a queue of s and in that queue of t stand in the
\* same order in both.
KeepsOrder(s, t) ==
    \A p \in Levels :
        \A i1, i2 \in Runnable(s.queues[p]), j1, j2 \in Runnable(t.queues[p]) :
            /\ s.queues[p][i1].ec = t.queues[p][j1].ec
            /\ s.queues[p][i2].ec = t.queues[p][j2].ec
            /\ i1 < i2
            => j1 < j2

-----------------------------------------------------------------------------
\* Indices and sequences.

\* A non-empty set of indices has a first one.
LEMMA FirstOfExists ==
  ASSUME NEW S \in SUBSET Nat, S # {}
  PROVE  FirstOf(S) \in S /\ \A j \in S : FirstOf(S) <= j
BY LeastIndex DEF FirstOf

\* There is a highest priority.
LEMMA ZeroLevel == 0 \in Levels
BY QueueAssumption DEF Levels

\* Taking entry i out and bringing what was before it to the back permutes
\* the other entries: entry k of the result was entry k+i or k-(n-i).
LEMMA TakeOutElements ==
  ASSUME NEW T, NEW q \in Seq(T), NEW i \in 1 .. Len(q)
  PROVE  /\ TakeOut(q, i) \in Seq(T)
         /\ Len(TakeOut(q, i)) = Len(q) - 1
         /\ \A k \in 1 .. Len(q) - 1 :
               TakeOut(q, i)[k] =
                   q[IF k <= Len(q) - i THEN k + i ELSE k - (Len(q) - i)]
<1> DEFINE front == SubSeq(q, 1, i - 1)
           back  == SubSeq(q, i + 1, Len(q))
<1>1. /\ front \in Seq(T) /\ Len(front) = i - 1
      /\ \A k \in 1 .. i - 1 : front[k] = q[k]
  OBVIOUS
<1>2. /\ back \in Seq(T) /\ Len(back) = Len(q) - i
      /\ \A k \in 1 .. Len(q) - i : back[k] = q[k + i]
  OBVIOUS
<1>3. /\ back \o front \in Seq(T) /\ Len(back \o front) = Len(q) - 1
      /\ \A k \in 1 .. Len(q) - 1 : (back \o front)[k] =
            IF k <= Len(q) - i THEN back[k] ELSE front[k - (Len(q) - i)]
  <2> HIDE DEF front, back
  <2>1. Len(q) \in Nat /\ Len(back) + Len(front) = Len(q) - 1
    BY <1>1, <1>2
  <2>2. /\ back \o front \in Seq(T)
        /\ Len(back \o front) = Len(back) + Len(front)
        /\ \A k \in 1 .. Len(back) + Len(front) : (back \o front)[k] =
              IF k <= Len(back) THEN back[k] ELSE front[k - Len(back)]
    BY <1>1, <1>2, ConcatProperties
  <2> QED BY <1>2, <2>1, <2>2
<1> HIDE DEF front, back
<1>4. ASSUME NEW k \in 1 .. Len(q) - 1
      PROVE  (back \o front)[k] =
                q[IF k <= Len(q) - i THEN k + i ELSE k - (Len(q) - i)]
  <2>1. CASE k <= Len(q) - i
    BY <2>1, <1>2, <1>3
  <2>2. CASE ~(k <= Len(q) - i)
    <3>1. k - (Len(q) - i) \in 1 .. i - 1
      BY <2>2
    <3>2. (back \o front)[k] = front[k - (Len(q) - i)]
      BY <2>2, <1>3
    <3> QED BY <2>2, <3>1, <3>2, <1>1
  <2> QED BY <2>1, <2>2
<1> QED BY <1>3, <1>4 DEF TakeOut, front, back

\* Removing entry i moves the later ones down by one.
LEMMA WithoutElements ==
  ASSUME NEW T, NEW q \in Seq(T), NEW i \in 1 .. Len(q)
  PROVE  /\ Without(q, i) \in Seq(T)
         /\ Len(Without(q, i)) = Len(q) - 1
         /\ \A k \in 1 .. Len(q) - 1 :
               Without(q, i)[k] = q[IF k < i THEN k ELSE k + 1]
<1> DEFINE front == SubSeq(q, 1, i - 1)
           back  == SubSeq(q, i + 1, Len(q))
<1>1. /\ front \in Seq(T) /\ Len(front) = i - 1
      /\ \A k \in 1 .. i - 1 : front[k] = q[k]
  OBVIOUS
<1>2. /\ back \in Seq(T) /\ Len(back) = Len(q) - i
      /\ \A k \in 1 .. Len(q) - i : back[k] = q[k + i]
  OBVIOUS
<1>3. /\ front \o back \in Seq(T) /\ Len(front \o back) = Len(q) - 1
      /\ \A k \in 1 .. Len(q) - 1 : (front \o back)[k] =
            IF k <= i - 1 THEN front[k] ELSE back[k - (i - 1)]
  <2> HIDE DEF front, back
  <2> QED BY <1>1, <1>2, ConcatProperties
<1> HIDE DEF front, back
<1>4. ASSUME NEW k \in 1 .. Len(q) - 1
      PROVE  (front \o back)[k] = q[IF k < i THEN k ELSE k + 1]
  <2>1. CASE k < i
    BY <2>1, <1>1, <1>3
  <2>2. CASE ~(k < i)
    <3>1. k - (i - 1) \in 1 .. Len(q) - i /\ (k - (i - 1)) + i = k + 1
      BY <2>2
    <3>2. ~(k <= i - 1)
      BY <2>2
    <3>3. (front \o back)[k] = back[k - (i - 1)]
      BY <3>2, <1>3
    <3> QED BY <2>2, <3>1, <3>3, <1>2
  <2> QED BY <2>1, <2>2
<1> QED BY <1>3, <1>4 DEF Without, front, back

-----------------------------------------------------------------------------
\* The operators of the scheduler.

\* The scheduler before the first schedule(): nothing runs, nothing waits.
LEMMA EmptySound == Sound(EmptyScheduler) /\ Members(EmptyScheduler) = {}
<1> DEFINE empty == << >>
           s == EmptyScheduler
<1>1. empty \in Seq(Entry) /\ Len(empty) = 0
  OBVIOUS
<1> HIDE DEF empty
<1>2. /\ s.queues = [p \in Levels |-> empty] /\ s.current_ec = NULL
      /\ s.priority = [e \in EC |-> 0] /\ s.halted = "no"
  BY DEF EmptyScheduler, empty
<1>3. s \in SchedulerState
  BY <1>1, ZeroLevel DEF EmptyScheduler, SchedulerState, Halts, empty
<1> HIDE DEF s
<1>4. OnePlace(s) /\ Members(s) = {}
  BY <1>1, <1>2 DEF OnePlace, Members, Queued
<1> QED BY <1>3, <1>4 DEF Sound, s

\* An EC the scheduler does not know yet can be put into its queue.
LEMMA EnqueueSound ==
  ASSUME NEW s, Sound(s), NEW e \in EC, e \notin Members(s), NEW b \in BOOLEAN
  PROVE  /\ Sound(Enqueue(s, e, b))
         /\ Members(Enqueue(s, e, b)) = Members(s) \cup {e}
         /\ Enqueue(s, e, b).current_ec = s.current_ec
         /\ Enqueue(s, e, b).priority = s.priority
         /\ Enqueue(s, e, b).halted = s.halted
         /\ StartsWith(s, Enqueue(s, e, b))
<1> DEFINE t == Enqueue(s, e, b)
           p0 == s.priority[e]
           new == [ec |-> e, blocked |-> b]
<1>1. s \in SchedulerState /\ OnePlace(s) /\ p0 \in Levels
  BY DEF Sound, SchedulerState
<1>2. new \in Entry
  BY DEF Entry
<1>3. /\ t.queues = [s.queues EXCEPT ![p0] = Append(@, new)]
      /\ t.current_ec = s.current_ec
      /\ t.priority = s.priority
      /\ t.halted = s.halted
  BY <1>1 DEF Enqueue, SchedulerState
<1>0. t.queues \in [Levels -> Seq(Entry)] => t \in SchedulerState
  BY <1>1 DEF Enqueue, SchedulerState
<1> HIDE DEF t
<1>4. \A p \in Levels : s.queues[p] \in Seq(Entry)
  BY <1>1 DEF SchedulerState
<1>5. \A p \in Levels \ {p0} : t.queues[p] = s.queues[p]
  BY <1>1, <1>3 DEF SchedulerState
<1>6. t.queues[p0] = Append(s.queues[p0], new)
  BY <1>1, <1>3 DEF SchedulerState
<1> HIDE DEF new, p0
<1>7. /\ t.queues[p0] \in Seq(Entry)
      /\ Len(t.queues[p0]) = Len(s.queues[p0]) + 1
      /\ \A i \in 1 .. Len(s.queues[p0]) : t.queues[p0][i] = s.queues[p0][i]
      /\ t.queues[p0][Len(s.queues[p0]) + 1] = new
  BY <1>1, <1>2, <1>4, <1>6, AppendProperties
<1>8. t \in SchedulerState
  BY <1>1, <1>3, <1>7, <1>0 DEF SchedulerState
<1>9. \A p \in Levels : \A i \in 1 .. Len(s.queues[p]) :
          s.queues[p][i].ec \in EC /\ s.queues[p][i].ec # e
  <2>1. ASSUME NEW p \in Levels, NEW i \in 1 .. Len(s.queues[p])
        PROVE  s.queues[p][i] \in Entry
    BY <1>4
  <2>2. ASSUME NEW p \in Levels, NEW i \in 1 .. Len(s.queues[p])
        PROVE  s.queues[p][i].ec # e
    BY DEF Members, Queued
  <2> QED BY <2>1, <2>2 DEF Entry
<1>10. OnePlace(t)
  <2>1. e # s.current_ec /\ new.ec = e /\ s.priority[e] = p0
    <3>1. s.current_ec = e => e \in Members(s)
      BY QueueAssumption DEF Members
    <3> QED BY <3>1 DEF new, p0
  <2>2. ASSUME NEW p \in Levels, NEW i \in 1 .. Len(t.queues[p])
        PROVE  /\ t.priority[t.queues[p][i].ec] = p
               /\ t.queues[p][i].ec # t.current_ec
               /\ \A j \in 1 .. Len(t.queues[p]) :
                     t.queues[p][j].ec = t.queues[p][i].ec => j = i
    <3>1. CASE p # p0
      BY <1>1, <1>3, <1>5, <3>1 DEF OnePlace
    <3>2. CASE p = p0 /\ i \in 1 .. Len(s.queues[p0])
      BY <1>1, <1>3, <1>4, <1>7, <1>9, <2>1, <3>2 DEF OnePlace
    <3>3. CASE p = p0 /\ i = Len(s.queues[p0]) + 1
      BY <1>1, <1>3, <1>4, <1>7, <1>9, <2>1, <3>3
    <3>4. p = p0 => i \in 1 .. Len(s.queues[p0]) \/ i = Len(s.queues[p0]) + 1
      BY <1>4, <1>1, <1>7
    <3> QED BY <3>1, <3>2, <3>3, <3>4
  <2> QED BY <2>2 DEF OnePlace
<1>11. Queued(t) = Queued(s) \cup {e}
  <2>1. new.ec = e
    BY DEF new
  <2>2. ASSUME NEW x \in Queued(t) PROVE x \in Queued(s) \cup {e}
    <3>0. PICK p \in Levels :
             \E i \in 1 .. Len(t.queues[p]) : t.queues[p][i].ec = x
      BY <2>2 DEF Queued
    <3>1. PICK i \in 1 .. Len(t.queues[p]) : t.queues[p][i].ec = x
      BY <3>0
    <3>2. CASE p # p0
      BY <2>2, <3>1, <3>2, <1>5 DEF Queued
    <3>3. CASE p = p0
      <4>1. i \in 1 .. Len(s.queues[p0]) \/ i = Len(s.queues[p0]) + 1
        BY <3>3, <1>1, <1>4, <1>7
      <4> QED BY <2>1, <2>2, <3>1, <3>3, <4>1, <1>1, <1>7 DEF Queued
    <3> QED BY <3>2, <3>3
  <2>3. ASSUME NEW x \in Queued(s) PROVE x \in Queued(t)
    <3>0. PICK p \in Levels :
             \E i \in 1 .. Len(s.queues[p]) : s.queues[p][i].ec = x
      BY <2>3 DEF Queued
    <3>1. PICK i \in 1 .. Len(s.queues[p]) : s.queues[p][i].ec = x
      BY <3>0
    <3>2. i \in 1 .. Len(t.queues[p]) /\ t.queues[p][i].ec = x
      BY <3>1, <1>1, <1>4, <1>5, <1>7
    <3> QED BY <2>3, <3>2 DEF Queued
  <2>4. e \in Queued(t)
    <3>1. Len(s.queues[p0]) + 1 \in 1 .. Len(t.queues[p0])
      BY <1>1, <1>4, <1>7
    <3> QED BY <2>1, <3>1, <1>1, <1>7 DEF Queued
  <2> QED BY <2>2, <2>3, <2>4
<1>12. StartsWith(s, t)
  <2> SUFFICES ASSUME NEW p \in Levels, NEW i \in 1 .. Len(s.queues[p])
               PROVE  i \in 1 .. Len(t.queues[p]) /\ t.queues[p][i] = s.queues[p][i]
    BY DEF StartsWith
  <2>1. CASE p = p0
    <3>1. Len(s.queues[p0]) \in Nat
      BY <1>1, <1>4
    <3> QED BY <1>7, <2>1, <3>1
  <2>2. CASE p # p0
    BY <1>5, <2>2
  <2> QED BY <2>1, <2>2
<1> QED
  BY <1>3, <1>8, <1>10, <1>11, <1>12 DEF Sound, Members, t

\* An EC in a queue is an EC, and is a member.
LEMMA QueueEntries ==
  ASSUME NEW s, Sound(s)
  PROVE  \A p \in Levels :
            /\ s.queues[p] \in Seq(Entry) /\ Len(s.queues[p]) \in Nat
            /\ \A i \in 1 .. Len(s.queues[p]) :
                  /\ s.queues[p][i] \in Entry
                  /\ s.queues[p][i].ec \in EC
                  /\ s.queues[p][i].ec \in Queued(s)
<1> SUFFICES ASSUME NEW p \in Levels
             PROVE  /\ s.queues[p] \in Seq(Entry) /\ Len(s.queues[p]) \in Nat
                    /\ \A i \in 1 .. Len(s.queues[p]) :
                          /\ s.queues[p][i] \in Entry
                          /\ s.queues[p][i].ec \in EC
                          /\ s.queues[p][i].ec \in Queued(s)
  OBVIOUS
<1>1. s.queues[p] \in Seq(Entry)
  BY DEF Sound, SchedulerState
<1>2. Len(s.queues[p]) \in Nat
  BY <1>1
<1>3. ASSUME NEW i \in 1 .. Len(s.queues[p]) PROVE s.queues[p][i] \in Entry
  BY <1>1
<1>4. ASSUME NEW i \in 1 .. Len(s.queues[p]) PROVE s.queues[p][i].ec \in EC
  BY <1>3 DEF Entry
<1> QED BY <1>1, <1>2, <1>3, <1>4 DEF Queued

\* Who is not in the queue of its own priority is in none.
LEMMA NowhereQueued ==
  ASSUME NEW s, Sound(s), NEW e \in EC, Positions(s, e) = {}
  PROVE  e \notin Queued(s)
<1> SUFFICES ASSUME e \in Queued(s) PROVE FALSE
  OBVIOUS
<1>1. PICK p \in Levels : \E k \in 1 .. Len(s.queues[p]) : s.queues[p][k].ec = e
  BY DEF Queued
<1>2. PICK k \in 1 .. Len(s.queues[p]) : s.queues[p][k].ec = e
  BY <1>1
<1>3. p = s.priority[e]
  BY <1>2 DEF Sound, OnePlace
<1> QED BY <1>2, <1>3 DEF Positions

\* An EC is asleep when its one entry says so.
LEMMA EntryAsleep ==
  ASSUME NEW s, Sound(s), NEW p \in Levels, NEW i \in 1 .. Len(s.queues[p])
  PROVE  s.queues[p][i].ec \in Asleep(s) <=> s.queues[p][i].blocked
<1> DEFINE e == s.queues[p][i].ec
<1>1. e \in EC /\ OnePlace(s) /\ s.priority[e] = p
  BY QueueEntries DEF Sound, OnePlace
<1>2. ASSUME e \in Asleep(s) PROVE s.queues[p][i].blocked
  <2>1. PICK l \in Levels : \E j \in 1 .. Len(s.queues[l]) :
           s.queues[l][j].ec = e /\ s.queues[l][j].blocked
    BY <1>2 DEF Asleep
  <2>2. PICK j \in 1 .. Len(s.queues[l]) :
           s.queues[l][j].ec = e /\ s.queues[l][j].blocked
    BY <2>1
  <2>3. s.priority[s.queues[l][j].ec] = l
    BY <1>1 DEF OnePlace
  <2>4. l = p
    BY <1>1, <2>2, <2>3
  <2>5. j = i
    BY <1>1, <2>2, <2>4 DEF OnePlace
  <2> QED BY <2>2, <2>4, <2>5
<1> QED BY <1>1, <1>2 DEF Asleep

\* An EC comes into a queue with the flag it is given.
LEMMA EnqueueAsleep ==
  ASSUME NEW s, Sound(s), NEW e \in EC, NEW b \in BOOLEAN
  PROVE  Asleep(Enqueue(s, e, b)) = IF b THEN Asleep(s) \cup {e} ELSE Asleep(s)
<1> DEFINE t == Enqueue(s, e, b)
           p0 == s.priority[e]
           new == [ec |-> e, blocked |-> b]
           n == Len(s.queues[p0])
<1>1. p0 \in Levels
  BY DEF Sound, SchedulerState
<1>2. s.queues[p0] \in Seq(Entry) /\ n \in Nat /\ new \in Entry
  BY <1>1, QueueEntries DEF Entry
<1>3. t.queues = [s.queues EXCEPT ![p0] = Append(@, new)]
  BY DEF Enqueue, Sound, SchedulerState
<1> HIDE DEF t
<1>4. /\ \A p \in Levels \ {p0} : t.queues[p] = s.queues[p]
      /\ t.queues[p0] = Append(s.queues[p0], new)
  BY <1>1, <1>3 DEF Sound, SchedulerState
<1>5. new.ec = e /\ new.blocked = b
  OBVIOUS
<1> HIDE DEF new, p0
<1>6. /\ Len(t.queues[p0]) = n + 1
      /\ \A i \in 1 .. n : t.queues[p0][i] = s.queues[p0][i]
      /\ t.queues[p0][n + 1] = new
  BY <1>2, <1>4, AppendProperties
<1> HIDE DEF n
<1>7. ASSUME NEW x \in Asleep(t) PROVE x \in Asleep(s) \/ (x = e /\ b)
  <2>1. PICK p \in Levels : \E i \in 1 .. Len(t.queues[p]) :
           t.queues[p][i].ec = x /\ t.queues[p][i].blocked
    BY <1>7 DEF Asleep
  <2>2. PICK i \in 1 .. Len(t.queues[p]) :
           t.queues[p][i].ec = x /\ t.queues[p][i].blocked
    BY <2>1
  <2>3. CASE p # p0
    BY <1>4, <1>7, <2>2, <2>3 DEF Asleep
  <2>4. CASE p = p0
    <3>1. i \in 1 .. n \/ i = n + 1
      BY <1>2, <1>6, <2>4
    <3>2. CASE i \in 1 .. n
      BY <1>1, <1>6, <1>7, <2>2, <2>4, <3>2 DEF Asleep, n
    <3>3. CASE i = n + 1
      BY <1>5, <1>6, <2>2, <2>4, <3>3
    <3> QED BY <3>1, <3>2, <3>3
  <2> QED BY <2>3, <2>4
<1>8. ASSUME NEW x \in Asleep(s) PROVE x \in Asleep(t)
  <2>1. PICK p \in Levels : \E i \in 1 .. Len(s.queues[p]) :
           s.queues[p][i].ec = x /\ s.queues[p][i].blocked
    BY <1>8 DEF Asleep
  <2>2. PICK i \in 1 .. Len(s.queues[p]) :
           s.queues[p][i].ec = x /\ s.queues[p][i].blocked
    BY <2>1
  <2>3. i \in 1 .. Len(t.queues[p]) /\ t.queues[p][i] = s.queues[p][i]
    BY <1>2, <1>4, <1>6, <2>2 DEF n
  <2> QED BY <1>8, <2>2, <2>3 DEF Asleep
<1>9. ASSUME b PROVE e \in Asleep(t)
  <2>1. n + 1 \in 1 .. Len(t.queues[p0])
    BY <1>2, <1>6
  <2> QED BY <1>1, <1>5, <1>6, <1>9, <2>1 DEF Asleep
<1> QED BY <1>7, <1>8, <1>9 DEF t

\* Changing flags only: the same ECs stay in the same places.
LEMMA SamePlaces ==
  ASSUME NEW s, NEW t, Sound(s), t \in SchedulerState,
         t.priority = s.priority, t.current_ec = s.current_ec,
         \A p \in Levels :
            /\ Len(t.queues[p]) = Len(s.queues[p])
            /\ \A i \in 1 .. Len(s.queues[p]) :
                  t.queues[p][i].ec = s.queues[p][i].ec
  PROVE  Sound(t) /\ Members(t) = Members(s)
<1>1. OnePlace(t)
  BY DEF Sound, OnePlace
<1>2. Queued(t) = Queued(s)
  BY DEF Queued
<1> QED BY <1>1, <1>2 DEF Sound, Members

\* t is s with entry i of queue p taken out, in whatever order the rest is
\* left; only the priority of its EC x may have changed, and x may now run.
TakesOut(s, t, p, i, x) ==
    /\ x = s.queues[p][i].ec
    /\ \A y \in EC \ {x} : t.priority[y] = s.priority[y]
    /\ t.current_ec \in {s.current_ec, x}
    /\ \A l \in Levels \ {p} : t.queues[l] = s.queues[l]
    /\ \A k \in 1 .. Len(t.queues[p]) :
          \E j \in 1 .. Len(s.queues[p]) \ {i} : t.queues[p][k] = s.queues[p][j]
    /\ \A j \in 1 .. Len(s.queues[p]) \ {i} :
          \E k \in 1 .. Len(t.queues[p]) : t.queues[p][k] = s.queues[p][j]
    /\ \A k1, k2 \in 1 .. Len(t.queues[p]) :
          t.queues[p][k1].ec = t.queues[p][k2].ec => k1 = k2

\* The EC of the entry taken out is the only one that goes.
LEMMA OneTakenOut ==
  ASSUME NEW s, NEW t, Sound(s), t \in SchedulerState,
         NEW p \in Levels, NEW i \in 1 .. Len(s.queues[p]), NEW x,
         TakesOut(s, t, p, i, x)
  PROVE  OnePlace(t) /\ Queued(t) = Queued(s) \ {x} /\ x \in EC /\ x # s.current_ec
<1> USE DEF TakesOut
<1>1. OnePlace(s) /\ x \in EC /\ x # s.current_ec /\ s.priority[x] = p
  BY QueueEntries DEF Sound, OnePlace
<1>2. \A j \in 1 .. Len(s.queues[p]) \ {i} : s.queues[p][j].ec # x
  BY <1>1 DEF OnePlace
<1>3. \A l \in Levels \ {p} : \A j \in 1 .. Len(s.queues[l]) : s.queues[l][j].ec # x
  BY <1>1 DEF OnePlace
<1>4. ASSUME NEW l \in Levels, NEW k \in 1 .. Len(t.queues[l])
      PROVE  /\ t.priority[t.queues[l][k].ec] = l
             /\ t.queues[l][k].ec # t.current_ec
             /\ \A j \in 1 .. Len(t.queues[l]) :
                   t.queues[l][j].ec = t.queues[l][k].ec => j = k
  <2>1. CASE l # p
    <3>1. t.queues[l] = s.queues[l]
      BY <2>1
    <3>2. s.queues[l][k].ec \in EC \ {x}
      BY <1>3, <2>1, <3>1, QueueEntries
    <3>3. /\ s.priority[s.queues[l][k].ec] = l
          /\ s.queues[l][k].ec # s.current_ec
          /\ \A j \in 1 .. Len(s.queues[l]) :
                s.queues[l][j].ec = s.queues[l][k].ec => j = k
      BY <1>1, <3>1 DEF OnePlace
    <3> QED BY <3>1, <3>2, <3>3
  <2>2. CASE l = p
    <3>1. PICK j \in 1 .. Len(s.queues[p]) \ {i} : t.queues[p][k] = s.queues[p][j]
      BY <2>2
    <3>2. s.queues[p][j].ec \in EC \ {x}
      BY <1>2, QueueEntries
    <3>3. /\ s.priority[s.queues[p][j].ec] = p
          /\ s.queues[p][j].ec # s.current_ec
      BY <1>1, <3>1 DEF OnePlace
    <3> QED BY <2>2, <3>1, <3>2, <3>3
  <2> QED BY <2>1, <2>2
<1>5. OnePlace(t)
  BY <1>4 DEF OnePlace
<1>6. ASSUME NEW y \in Queued(t) PROVE y \in Queued(s) \ {x}
  <2>1. PICK l \in Levels : \E k \in 1 .. Len(t.queues[l]) : t.queues[l][k].ec = y
    BY <1>6 DEF Queued
  <2>2. PICK k \in 1 .. Len(t.queues[l]) : t.queues[l][k].ec = y
    BY <2>1
  <2>3. CASE l # p
    BY <1>3, <2>2, <2>3, QueueEntries
  <2>4. CASE l = p
    <3>1. PICK j \in 1 .. Len(s.queues[p]) \ {i} : t.queues[p][k] = s.queues[p][j]
      BY <2>2, <2>4
    <3> QED BY <1>2, <2>2, <2>4, <3>1, QueueEntries
  <2> QED BY <2>3, <2>4
<1>7. ASSUME NEW y \in Queued(s) \ {x} PROVE y \in Queued(t)
  <2>1. PICK l \in Levels : \E k \in 1 .. Len(s.queues[l]) : s.queues[l][k].ec = y
    BY <1>7 DEF Queued
  <2>2. PICK k \in 1 .. Len(s.queues[l]) : s.queues[l][k].ec = y
    BY <2>1
  <2>3. y \in EC
    BY DEF Queued
  <2>4. CASE l # p
    BY <2>2, <2>3, <2>4 DEF Queued
  <2>5. CASE l = p
    <3>1. k # i
      BY <2>2, <2>5
    <3>2. PICK m \in 1 .. Len(t.queues[p]) : t.queues[p][m] = s.queues[p][k]
      BY <2>2, <2>5, <3>1
    <3> QED BY <2>2, <2>3, <2>5, <3>2 DEF Queued
  <2> QED BY <2>4, <2>5
<1> QED BY <1>1, <1>5, <1>6, <1>7

\* Nor does any other flag change.
LEMMA TakenOutAsleep ==
  ASSUME NEW s, NEW t, Sound(s), t \in SchedulerState,
         NEW p \in Levels, NEW i \in 1 .. Len(s.queues[p]), NEW x,
         TakesOut(s, t, p, i, x)
  PROVE  Asleep(t) = Asleep(s) \ {x}
<1>0. Queued(t) = Queued(s) \ {x}
  BY OneTakenOut
<1> USE DEF TakesOut
<1>1. ASSUME NEW y \in Asleep(t) PROVE y \in Asleep(s) \ {x}
  <2>1. y \in Queued(t)
    BY DEF Asleep, Queued
  <2>2. PICK l \in Levels : \E k \in 1 .. Len(t.queues[l]) :
           t.queues[l][k].ec = y /\ t.queues[l][k].blocked
    BY <1>1 DEF Asleep
  <2>3. PICK k \in 1 .. Len(t.queues[l]) :
           t.queues[l][k].ec = y /\ t.queues[l][k].blocked
    BY <2>2
  <2>4. y \in EC /\ y # x
    BY <1>0, <2>1 DEF Queued
  <2>5. CASE l # p
    BY <2>3, <2>4, <2>5 DEF Asleep
  <2>6. CASE l = p
    <3>1. PICK j \in 1 .. Len(s.queues[p]) \ {i} : t.queues[p][k] = s.queues[p][j]
      BY <2>3, <2>6
    <3>2. s.queues[p][j].ec = y /\ s.queues[p][j].blocked
      BY <2>3, <2>6, <3>1
    <3> HIDE DEF TakesOut
    <3> QED BY <2>4, <3>1, <3>2 DEF Asleep
  <2> QED BY <2>5, <2>6
<1>2. ASSUME NEW y \in Asleep(s) \ {x} PROVE y \in Asleep(t)
  <2>1. PICK l \in Levels : \E k \in 1 .. Len(s.queues[l]) :
           s.queues[l][k].ec = y /\ s.queues[l][k].blocked
    BY <1>2 DEF Asleep
  <2>2. PICK k \in 1 .. Len(s.queues[l]) :
           s.queues[l][k].ec = y /\ s.queues[l][k].blocked
    BY <2>1
  <2>3. y \in EC
    BY DEF Asleep
  <2>4. CASE l # p
    BY <2>2, <2>3, <2>4 DEF Asleep
  <2>5. CASE l = p
    <3>1. k # i
      BY <2>2, <2>5
    <3>2. PICK m \in 1 .. Len(t.queues[p]) : t.queues[p][m] = s.queues[p][k]
      BY <2>2, <2>5, <3>1
    <3>3. t.queues[p][m].ec = y /\ t.queues[p][m].blocked
      BY <2>2, <2>5, <3>2
    <3> HIDE DEF TakesOut
    <3> QED BY <2>3, <3>2, <3>3 DEF Asleep
  <2> QED BY <2>4, <2>5
<1> QED BY <1>1, <1>2

\* The first runnable entry of a queue that has one.
LEMMA FirstRunnable ==
  ASSUME NEW s, Sound(s), NEW p \in Levels, Runnable(s.queues[p]) # {}
  PROVE  /\ FirstOf(Runnable(s.queues[p])) \in 1 .. Len(s.queues[p])
         /\ ~s.queues[p][FirstOf(Runnable(s.queues[p]))].blocked
<1>1. Len(s.queues[p]) \in Nat
  BY QueueEntries
<1>2. Runnable(s.queues[p]) \in SUBSET Nat
  BY <1>1 DEF Runnable
<1>3. FirstOf(Runnable(s.queues[p])) \in Runnable(s.queues[p])
  BY <1>2, FirstOfExists
<1> QED BY <1>3 DEF Runnable

\* What the scan of yield() leaves, when it finds an EC and when it does not.
LEMMA DispatchSound ==
  ASSUME NEW s, Sound(s), s.current_ec = NULL
  PROVE  /\ Sound(Dispatch(s))
         /\ Members(Dispatch(s)) = Members(s)
         /\ Dispatch(s).priority = s.priority
         /\ Asleep(Dispatch(s)) = Asleep(s)
         /\ \/ /\ Dispatch(s).halted = s.halted
               /\ Dispatch(s).current_ec \in EC \ Asleep(s)
               /\ TopRuns(Dispatch(s))
            \/ /\ Dispatch(s).halted = "no ECs to run"
               /\ Dispatch(s).current_ec = NULL
               /\ \A e \in EC : ~Ready(Dispatch(s), e)
<1> DEFINE t == Dispatch(s)
           ready == {p \in Levels : Runnable(s.queues[p]) # {}}
<1>1. CASE ready = {}
  <2>1. t = [s EXCEPT !.halted = "no ECs to run"]
    BY <1>1 DEF Dispatch
  <2>2. /\ t \in SchedulerState /\ t.queues = s.queues /\ t.priority = s.priority
        /\ t.current_ec = s.current_ec /\ t.halted = "no ECs to run"
    BY <2>1 DEF Sound, SchedulerState, Halts
  <2> HIDE DEF t
  <2>3. Sound(t) /\ Members(t) = Members(s)
    BY <2>2, SamePlaces
  <2>4. \A e \in EC : ~Ready(t, e)
    BY <1>1, <2>2 DEF Ready
  <2>5. Asleep(t) = Asleep(s)
    BY <2>2 DEF Asleep
  <2> QED BY <2>2, <2>3, <2>4, <2>5 DEF t
<1>2. CASE ready # {}
  <2> DEFINE p == FirstOf(ready)
             q == s.queues[p]
             i == FirstOf(Runnable(q))
             x == q[i].ec
  <2>1. p \in ready
    <3>1. ready \in SUBSET Nat
      BY QueueAssumption DEF Levels
    <3> QED BY <1>2, <3>1, FirstOfExists
  <2>2. p \in Levels /\ Runnable(q) # {}
    BY <2>1
  <2>3. t = [s EXCEPT !.current_ec = x, !.queues[p] = TakeOut(@, i)]
    BY <1>2 DEF Dispatch
  <2> HIDE DEF ready, p, t
  <2>4. q \in Seq(Entry) /\ i \in 1 .. Len(q) /\ x \in EC /\ Len(q) \in Nat
    BY <2>2, FirstRunnable, QueueEntries
  <2> HIDE DEF i
  <2>5. /\ TakeOut(q, i) \in Seq(Entry)
        /\ Len(TakeOut(q, i)) = Len(q) - 1
        /\ \A k \in 1 .. Len(q) - 1 :
              TakeOut(q, i)[k] =
                  q[IF k <= Len(q) - i THEN k + i ELSE k - (Len(q) - i)]
    BY <2>4, TakeOutElements
  <2> HIDE DEF x
  <2>6. /\ t \in SchedulerState
        /\ t.queues[p] = TakeOut(q, i)
        /\ \A l \in Levels \ {p} : t.queues[l] = s.queues[l]
        /\ t.priority = s.priority /\ t.current_ec = x /\ t.halted = s.halted
    BY <2>2, <2>3, <2>4, <2>5 DEF Sound, SchedulerState
  <2>7. \A k \in 1 .. Len(t.queues[p]) : \E j \in 1 .. Len(q) \ {i} :
            t.queues[p][k] = q[j]
    <3>1. ASSUME NEW k \in 1 .. Len(q) - 1
          PROVE  (IF k <= Len(q) - i THEN k + i ELSE k - (Len(q) - i))
                     \in 1 .. Len(q) \ {i}
      BY <2>4
    <3> QED BY <2>5, <2>6, <3>1
  <2>8. \A j \in 1 .. Len(q) \ {i} : \E k \in 1 .. Len(t.queues[p]) :
            t.queues[p][k] = q[j]
    <3> SUFFICES ASSUME NEW j \in 1 .. Len(q) \ {i}
                 PROVE  \E k \in 1 .. Len(t.queues[p]) : t.queues[p][k] = q[j]
      OBVIOUS
    <3>1. CASE j > i
      <4>1. j - i \in 1 .. Len(q) - 1 /\ j - i <= Len(q) - i /\ (j - i) + i = j
        BY <2>4, <3>1
      <4> QED BY <2>5, <2>6, <4>1
    <3>2. CASE j < i
      <4>1. /\ j + (Len(q) - i) \in 1 .. Len(q) - 1
            /\ ~(j + (Len(q) - i) <= Len(q) - i)
            /\ (j + (Len(q) - i)) - (Len(q) - i) = j
        BY <2>4, <3>2
      <4> QED BY <2>5, <2>6, <4>1
    <3> QED BY <2>4, <3>1, <3>2
  <2>9. \A k1, k2 \in 1 .. Len(t.queues[p]) :
            t.queues[p][k1].ec = t.queues[p][k2].ec => k1 = k2
    <3> SUFFICES ASSUME NEW k1 \in 1 .. Len(q) - 1, NEW k2 \in 1 .. Len(q) - 1,
                        t.queues[p][k1].ec = t.queues[p][k2].ec
                 PROVE  k1 = k2
      BY <2>5, <2>6
    <3>1. ASSUME NEW k \in 1 .. Len(q) - 1
          PROVE  \E j \in 1 .. Len(q) : /\ t.queues[p][k] = q[j]
                                        /\ j = k + i \/ j = k - (Len(q) - i)
      <4>1. CASE k <= Len(q) - i
        <5>1. k + i \in 1 .. Len(q)
          BY <2>4, <4>1
        <5> QED BY <2>5, <2>6, <4>1, <5>1
      <4>2. CASE ~(k <= Len(q) - i)
        <5>1. k - (Len(q) - i) \in 1 .. Len(q)
          BY <2>4, <4>2
        <5> QED BY <2>5, <2>6, <4>2, <5>1
      <4> QED BY <4>1, <4>2
    <3>2. PICK j1 \in 1 .. Len(q) : /\ t.queues[p][k1] = q[j1]
                                    /\ j1 = k1 + i \/ j1 = k1 - (Len(q) - i)
      BY <3>1
    <3>3. PICK j2 \in 1 .. Len(q) : /\ t.queues[p][k2] = q[j2]
                                    /\ j2 = k2 + i \/ j2 = k2 - (Len(q) - i)
      BY <3>1
    <3>4. q[j1].ec = q[j2].ec => j1 = j2
      BY <2>2 DEF Sound, OnePlace
    <3>5. j1 = j2
      BY <3>2, <3>3, <3>4
    <3> QED BY <2>4, <3>2, <3>3, <3>5
  <2>10. /\ OnePlace(t) /\ Queued(t) = Queued(s) \ {x}
         /\ Asleep(t) = Asleep(s) \ {x}
    <3>1. TakesOut(s, t, p, i, x)
      BY <2>6, <2>7, <2>8, <2>9 DEF TakesOut, x
    <3> QED BY <2>2, <2>4, <2>6, <3>1, OneTakenOut, TakenOutAsleep
  <2>11. x \in Queued(s)
    BY <2>2, <2>4, QueueEntries DEF x
  <2>12. x # NULL
    BY <2>4, QueueAssumption DEF x
  <2>13. x \in EC
    BY <2>4 DEF x
  <2>14. TopRuns(t)
    <3>1. s.priority[x] = p
      BY <2>2, <2>4 DEF Sound, OnePlace, x
    <3>2. \A l \in Levels : Runnable(s.queues[l]) # {} => p <= l
      <4>1. ready \in SUBSET Nat
        BY QueueAssumption DEF ready, Levels
      <4>2. \A l \in ready : p <= l
        BY <1>2, <4>1, FirstOfExists DEF p
      <4> QED BY <4>2 DEF ready
    <3>3. p <= p
      BY <2>2, QueueAssumption DEF Levels
    <3> QED BY <2>6, <3>1, <3>2, <3>3 DEF TopRuns
  <2>15. x \notin Asleep(s)
    <3>1. ~ q[i].blocked
      BY <2>2, FirstRunnable DEF i
    <3> QED BY <2>2, <2>4, <3>1, EntryAsleep DEF x
  <2> QED BY <2>6, <2>10, <2>11, <2>12, <2>13, <2>14, <2>15 DEF Sound, Members, t
<1> QED BY <1>1, <1>2

-----------------------------------------------------------------------------
\* The methods of the scheduler.

\* t is where a dispatch from a state with the ECs and priorities of s ends:
\* an EC of the highest priority runs, or the machine stopped and nothing that waits could run.
Dispatched(s, t) ==
    /\ Sound(t)
    /\ Members(t) = Members(s)
    /\ t.priority = s.priority
    /\ \/ t.halted = s.halted /\ t.current_ec \in EC /\ TopRuns(t)
       \/ /\ t.halted = "no ECs to run"
          /\ t.current_ec = NULL
          /\ \A e \in EC : ~Ready(t, e)

\* The running EC goes back into its queue, and none runs.
LEMMA PreemptedSound ==
  ASSUME NEW s, Sound(s), s.current_ec # NULL, NEW b \in BOOLEAN
  PROVE  /\ Sound(Preempted(s, b))
         /\ Members(Preempted(s, b)) = Members(s)
         /\ Preempted(s, b).current_ec = NULL
         /\ Preempted(s, b).priority = s.priority
         /\ Preempted(s, b).halted = s.halted
         /\ Asleep(Preempted(s, b)) =
                IF b THEN Asleep(s) \cup {s.current_ec} ELSE Asleep(s)
<1> DEFINE r == [s EXCEPT !.current_ec = NULL]
           e == s.current_ec
<1>1. /\ r \in SchedulerState /\ r.queues = s.queues /\ r.priority = s.priority
      /\ r.current_ec = NULL /\ r.halted = s.halted
  BY DEF Sound, SchedulerState
<1>2. e \in EC
  BY DEF Sound, SchedulerState
<1> HIDE DEF r
<1>3. OnePlace(r)
  <2>1. \A p \in Levels : \A i \in 1 .. Len(r.queues[p]) :
           r.queues[p][i].ec # r.current_ec
    BY <1>1, QueueEntries, QueueAssumption
  <2> QED BY <1>1, <2>1 DEF Sound, OnePlace
<1>4. Members(r) = Queued(s)
  BY <1>1 DEF Members, Queued
<1>5. e \notin Queued(s) /\ Members(s) = Queued(s) \cup {e}
  BY <1>2, QueueAssumption DEF Members, Queued, Sound, OnePlace
<1>6. Preempted(s, b) = Enqueue(r, e, b)
  BY DEF Preempted, r
<1> HIDE DEF e
<1>7. Sound(r) /\ e \notin Members(r)
  BY <1>1, <1>3, <1>4, <1>5 DEF Sound
<1>8. Asleep(r) = Asleep(s)
  BY <1>1 DEF Asleep
<1>9. Asleep(Enqueue(r, e, b)) = IF b THEN Asleep(s) \cup {e} ELSE Asleep(s)
  BY <1>2, <1>7, <1>8, EnqueueAsleep
<1> QED BY <1>1, <1>2, <1>4, <1>5, <1>6, <1>7, <1>9, EnqueueSound DEF e

\* Scheduler::yield(), from whatever state it is called in.
LEMMA YieldedSound ==
  ASSUME NEW s, Sound(s)
  PROVE  Dispatched(s, Yielded(s))
<1>1. CASE s.current_ec = NULL
  BY <1>1, DispatchSound DEF Yielded, Dispatched
<1>2. CASE s.current_ec # NULL
  BY <1>2, PreemptedSound, DispatchSound DEF Yielded, Dispatched
<1> QED BY <1>1, <1>2

\* block() and unblock() change at most one flag.
LEMMA MarkedSound ==
  ASSUME NEW s, Sound(s), NEW e \in EC, NEW b \in BOOLEAN
  PROVE  /\ Sound(Marked(s, e, b))
         /\ Members(Marked(s, e, b)) = Members(s)
         /\ Marked(s, e, b).current_ec = s.current_ec
         /\ Marked(s, e, b).priority = s.priority
         /\ Marked(s, e, b).halted = s.halted
         /\ SamePlace(s, Marked(s, e, b))
<1>1. CASE Positions(s, e) = {}
  BY <1>1 DEF Marked, SamePlace
<1>2. CASE Positions(s, e) # {}
  <2> DEFINE p == s.priority[e]
             i == FirstOf(Positions(s, e))
             t == Marked(s, e, b)
             q == s.queues[p]
  <2>1. p \in Levels
    BY DEF Sound, SchedulerState
  <2>2. i \in 1 .. Len(q)
    <3>1. Len(q) \in Nat
      BY <2>1, QueueEntries
    <3>2. Positions(s, e) \in SUBSET Nat /\ Positions(s, e) \in SUBSET (1 .. Len(q))
      BY <3>1 DEF Positions
    <3> QED BY <1>2, <3>2, FirstOfExists
  <2>3. t = [s EXCEPT !.queues[p][i].blocked = b]
    BY <1>2 DEF Marked
  <2> HIDE DEF t, i, p
  <2>4. q \in Seq(Entry) /\ Len(q) \in Nat /\ q[i] \in Entry
    BY <2>1, <2>2, QueueEntries
  <2> DEFINE r == [q EXCEPT ![i] = [@ EXCEPT !.blocked = b]]
  <2>5. [q[i] EXCEPT !.blocked = b] \in Entry /\ [q[i] EXCEPT !.blocked = b].ec = q[i].ec
    BY <2>4 DEF Entry
  <2>6. /\ r \in Seq(Entry) /\ Len(r) = Len(q)
        /\ \A k \in 1 .. Len(q) : r[k].ec = q[k].ec
    BY <2>2, <2>4, <2>5
  <2>7. t.queues = [s.queues EXCEPT ![p] = r]
    BY <2>1, <2>3 DEF Sound, SchedulerState
  <2>8. t.priority = s.priority /\ t.current_ec = s.current_ec /\ t.halted = s.halted
    BY <2>3 DEF Sound, SchedulerState
  <2>9. t.queues \in [Levels -> Seq(Entry)] => t \in SchedulerState
    BY <2>3 DEF Sound, SchedulerState
  <2> HIDE DEF r
  <2>10. t.queues \in [Levels -> Seq(Entry)]
    BY <2>1, <2>6, <2>7 DEF Sound, SchedulerState
  <2>11. ASSUME NEW l \in Levels
         PROVE  /\ Len(t.queues[l]) = Len(s.queues[l])
                /\ \A k \in 1 .. Len(s.queues[l]) :
                      t.queues[l][k].ec = s.queues[l][k].ec
    <3>1. t.queues[l] = IF l = p THEN r ELSE s.queues[l]
      BY <2>1, <2>7 DEF Sound, SchedulerState
    <3> QED BY <2>6, <3>1
  <2>12. Sound(t) /\ Members(t) = Members(s)
    BY <2>8, <2>9, <2>10, <2>11, SamePlaces
  <2>13. SamePlace(s, t)
    BY <2>11 DEF SamePlace
  <2> QED BY <2>8, <2>12, <2>13 DEF t
<1> QED BY <1>1, <1>2

\* Scheduler::block(): blocking the running EC ends in a dispatch, blocking
\* another one only flags it.
LEMMA BlockedSound ==
  ASSUME NEW s, Sound(s), NEW e \in EC
  PROVE  IF e = s.current_ec THEN Dispatched(s, Blocked(s, e))
         ELSE /\ Sound(Blocked(s, e))
              /\ Members(Blocked(s, e)) = Members(s)
              /\ Blocked(s, e).current_ec = s.current_ec
              /\ Blocked(s, e).priority = s.priority
              /\ Blocked(s, e).halted = s.halted
<1>1. CASE e = s.current_ec
  <2>1. s.current_ec # NULL
    BY <1>1, QueueAssumption
  <2> QED BY <1>1, <2>1, PreemptedSound, DispatchSound DEF Blocked, Dispatched
<1>2. CASE e # s.current_ec
  BY <1>2, MarkedSound DEF Blocked
<1> QED BY <1>1, <1>2

\* Scheduler::unblock_all() changes flags only.
LEMMA AllUnblockedSound ==
  ASSUME NEW s, Sound(s)
  PROVE  /\ Sound(AllUnblocked(s))
         /\ Members(AllUnblocked(s)) = Members(s)
         /\ AllUnblocked(s).current_ec = s.current_ec
         /\ AllUnblocked(s).priority = s.priority
         /\ AllUnblocked(s).halted = s.halted
         /\ SamePlace(s, AllUnblocked(s))
<1> DEFINE t == AllUnblocked(s)
           free(p) == [i \in 1 .. Len(s.queues[p]) |->
                          [ec |-> s.queues[p][i].ec, blocked |-> FALSE]]
<1>1. /\ t.priority = s.priority /\ t.current_ec = s.current_ec
      /\ t.halted = s.halted /\ t.queues = [p \in Levels |-> free(p)]
  BY DEF AllUnblocked, Sound, SchedulerState
<1>2. t.queues \in [Levels -> Seq(Entry)] => t \in SchedulerState
  BY DEF AllUnblocked, Sound, SchedulerState
<1> HIDE DEF t
<1>3. ASSUME NEW p \in Levels
      PROVE  /\ free(p) \in Seq(Entry) /\ Len(free(p)) = Len(s.queues[p])
             /\ \A i \in 1 .. Len(s.queues[p]) : free(p)[i].ec = s.queues[p][i].ec
  <2>1. \A i \in 1 .. Len(s.queues[p]) :
           [ec |-> s.queues[p][i].ec, blocked |-> FALSE] \in Entry
    BY QueueEntries DEF Entry
  <2>2. Len(s.queues[p]) \in Nat
    BY QueueEntries
  <2> QED BY <2>1, <2>2
<1> HIDE DEF free
<1>4. t \in SchedulerState
  BY <1>1, <1>2, <1>3
<1>5. \A p \in Levels :
         /\ Len(t.queues[p]) = Len(s.queues[p])
         /\ \A i \in 1 .. Len(s.queues[p]) :
               t.queues[p][i].ec = s.queues[p][i].ec
  <2> TAKE p \in Levels
  <2>1. t.queues[p] = free(p)
    BY <1>1
  <2> QED BY <1>3, <2>1
<1>6. t.priority = s.priority /\ t.current_ec = s.current_ec
  BY <1>1
<1>7. Sound(t) /\ Members(t) = Members(s)
  BY <1>4, <1>5, <1>6, SamePlaces
<1>8. SamePlace(s, t)
  BY <1>5 DEF SamePlace
<1> QED BY <1>1, <1>7, <1>8 DEF t

\* The constructor of class Ec and the last case of reprioritize() set the
\* priority of an EC that waits nowhere.
LEMMA PrioritySet ==
  ASSUME NEW s, Sound(s), NEW e \in EC, e \notin Queued(s), NEW new_prio \in Levels
  PROVE  LET t == [s EXCEPT !.priority[e] = new_prio] IN
         /\ Sound(t)
         /\ Members(t) = Members(s)
         /\ t.current_ec = s.current_ec
         /\ t.priority = [s.priority EXCEPT ![e] = new_prio]
         /\ t.halted = s.halted
         /\ Asleep(t) = Asleep(s)
<1> DEFINE t == [s EXCEPT !.priority[e] = new_prio]
<1>1. OnePlace(s) /\ s \in SchedulerState
  BY DEF Sound
<1>2. /\ t \in SchedulerState /\ t.queues = s.queues /\ t.halted = s.halted
      /\ t.current_ec = s.current_ec
      /\ t.priority = [s.priority EXCEPT ![e] = new_prio]
  BY <1>1 DEF SchedulerState
<1> HIDE DEF t
<1>3. \A l \in Levels : \A k \in 1 .. Len(s.queues[l]) :
         s.queues[l][k].ec \in EC /\ s.queues[l][k].ec # e
  BY QueueEntries
<1>4. \A x \in EC : x # e => t.priority[x] = s.priority[x]
  BY <1>1, <1>2 DEF SchedulerState
<1>5. OnePlace(t)
  BY <1>1, <1>2, <1>3, <1>4 DEF OnePlace
<1>6. Members(t) = Members(s) /\ Asleep(t) = Asleep(s)
  BY <1>2 DEF Members, Queued, Asleep
<1> QED BY <1>2, <1>5, <1>6 DEF Sound, t

\* Scheduler::reprioritize(): the EC keeps its flag and goes to the tail of
\* the other queue; one that waits nowhere only gets the new priority.
LEMMA ReprioritizedSound ==
  ASSUME NEW s, Sound(s), NEW e \in EC, NEW new_prio \in Levels
  PROVE  /\ Sound(Reprioritized(s, e, new_prio))
         /\ Members(Reprioritized(s, e, new_prio)) = Members(s)
         /\ Reprioritized(s, e, new_prio).current_ec = s.current_ec
         /\ Reprioritized(s, e, new_prio).priority = [s.priority EXCEPT ![e] = new_prio]
         /\ Reprioritized(s, e, new_prio).halted = s.halted
         /\ Asleep(Reprioritized(s, e, new_prio)) = Asleep(s)
<1> DEFINE p == s.priority[e]
           q == s.queues[p]
           i == FirstOf(Positions(s, e))
<1>0. p \in Levels /\ OnePlace(s) /\ s \in SchedulerState
  BY DEF Sound, SchedulerState
<1>1. CASE Positions(s, e) = {}
  <2> DEFINE t == Reprioritized(s, e, new_prio)
  <2>1. t = [s EXCEPT !.priority[e] = new_prio]
    BY <1>1 DEF Reprioritized
  <2>2. e \notin Queued(s)
    BY <1>1, NowhereQueued
  <2> QED BY <2>1, <2>2, PrioritySet
<1>2. CASE Positions(s, e) # {}
  <2> DEFINE r == [s EXCEPT !.queues[p] = Without(q, i), !.priority[e] = new_prio]
  <2>1. i \in 1 .. Len(q) /\ q[i].ec = e
    <3>1. Len(q) \in Nat
      BY <1>0, QueueEntries
    <3>2. Positions(s, e) \in SUBSET Nat
      BY <3>1 DEF Positions
    <3>3. i \in Positions(s, e)
      BY <1>2, <3>2, FirstOfExists
    <3> QED BY <3>3 DEF Positions
  <2>2. Reprioritized(s, e, new_prio) = Enqueue(r, e, q[i].blocked)
    BY <1>2 DEF Reprioritized
  <2>3. q \in Seq(Entry) /\ Len(q) \in Nat /\ q[i] \in Entry
    BY <1>0, <2>1, QueueEntries
  <2> HIDE DEF i, r
  <2>4. /\ Without(q, i) \in Seq(Entry)
        /\ Len(Without(q, i)) = Len(q) - 1
        /\ \A k \in 1 .. Len(q) - 1 :
              Without(q, i)[k] = q[IF k < i THEN k ELSE k + 1]
    BY <2>1, <2>3, WithoutElements
  <2>5. /\ r \in SchedulerState
        /\ r.queues[p] = Without(q, i)
        /\ \A l \in Levels \ {p} : r.queues[l] = s.queues[l]
        /\ r.priority = [s.priority EXCEPT ![e] = new_prio]
        /\ r.current_ec = s.current_ec /\ r.halted = s.halted
    BY <1>0, <2>4 DEF SchedulerState, r
  <2> HIDE DEF p
  <2>6. ASSUME NEW k \in 1 .. Len(r.queues[p])
        PROVE  \E j \in 1 .. Len(q) \ {i} :
                  r.queues[p][k] = q[j] /\ j = IF k < i THEN k ELSE k + 1
    <3>1. k \in 1 .. Len(q) - 1
      BY <2>3, <2>4, <2>5
    <3>2. (IF k < i THEN k ELSE k + 1) \in 1 .. Len(q) \ {i}
      BY <2>1, <2>3, <3>1
    <3> QED BY <2>4, <2>5, <3>1, <3>2
  <2>7. \A j \in 1 .. Len(q) \ {i} : \E k \in 1 .. Len(r.queues[p]) :
            r.queues[p][k] = q[j]
    <3> SUFFICES ASSUME NEW j \in 1 .. Len(q) \ {i}
                 PROVE  \E k \in 1 .. Len(q) - 1 : Without(q, i)[k] = q[j]
      BY <2>4, <2>5
    <3>1. CASE j < i
      <4>1. j \in 1 .. Len(q) - 1
        BY <2>1, <2>3, <3>1
      <4> QED BY <2>4, <3>1, <4>1
    <3>2. CASE j > i
      <4>1. j - 1 \in 1 .. Len(q) - 1 /\ ~(j - 1 < i) /\ (j - 1) + 1 = j
        BY <2>1, <2>3, <3>2
      <4> QED BY <2>4, <4>1
    <3> QED BY <2>1, <2>3, <3>1, <3>2
  <2>8. \A k1, k2 \in 1 .. Len(r.queues[p]) :
            r.queues[p][k1].ec = r.queues[p][k2].ec => k1 = k2
    <3> SUFFICES ASSUME NEW k1 \in 1 .. Len(r.queues[p]),
                        NEW k2 \in 1 .. Len(r.queues[p]),
                        r.queues[p][k1].ec = r.queues[p][k2].ec
                 PROVE  k1 = k2
      OBVIOUS
    <3>1. PICK j1 \in 1 .. Len(q) \ {i} :
             r.queues[p][k1] = q[j1] /\ j1 = IF k1 < i THEN k1 ELSE k1 + 1
      BY <2>6
    <3>2. PICK j2 \in 1 .. Len(q) \ {i} :
             r.queues[p][k2] = q[j2] /\ j2 = IF k2 < i THEN k2 ELSE k2 + 1
      BY <2>6
    <3>3. j1 = j2
      BY <1>0, <3>1, <3>2 DEF OnePlace
    <3>4. k1 \in Nat /\ k2 \in Nat /\ i \in Nat
      BY <2>1, <2>3
    <3> HIDE DEF q, i
    <3> QED BY <3>1, <3>2, <3>3, <3>4
  <2>9. TakesOut(s, r, p, i, e)
    <3>1. \A y \in EC \ {e} : r.priority[y] = s.priority[y]
      BY <1>0, <2>5 DEF SchedulerState
    <3> QED BY <2>1, <2>5, <2>6, <2>7, <2>8, <3>1 DEF TakesOut
  <2>10. OnePlace(r) /\ Queued(r) = Queued(s) \ {e} /\ e # s.current_ec
    BY <1>0, <2>1, <2>5, <2>9, OneTakenOut
  <2>11. e \in Queued(s)
    BY <1>0, <2>1, QueueEntries
  <2>12. Sound(r) /\ e \notin Members(r) /\ Members(r) \cup {e} = Members(s)
    BY <2>5, <2>10, <2>11 DEF Sound, Members
  <2>13. q[i].blocked \in BOOLEAN
    BY <2>3 DEF Entry
  <2> DEFINE b == q[i].blocked
  <2> HIDE DEF b
  <2>14. b \in BOOLEAN /\ Reprioritized(s, e, new_prio) = Enqueue(r, e, b)
    BY <2>2, <2>13 DEF b
  <2>15. /\ Sound(Enqueue(r, e, b))
         /\ Members(Enqueue(r, e, b)) = Members(r) \cup {e}
         /\ Enqueue(r, e, b).current_ec = r.current_ec
         /\ Enqueue(r, e, b).priority = r.priority
         /\ Enqueue(r, e, b).halted = r.halted
         /\ Asleep(Enqueue(r, e, b)) = IF b THEN Asleep(r) \cup {e} ELSE Asleep(r)
    BY <2>12, <2>14, EnqueueSound, EnqueueAsleep
  <2>16. e \in Asleep(s) <=> b
    BY <1>0, <2>1, EntryAsleep DEF b, p
  <2>17. Asleep(r) = Asleep(s) \ {e}
    BY <1>0, <2>1, <2>5, <2>9, TakenOutAsleep
  <2>18. Asleep(Enqueue(r, e, b)) = Asleep(s)
    BY <2>15, <2>16, <2>17
  <2> QED BY <2>5, <2>12, <2>14, <2>15, <2>18
<1> QED BY <1>1, <1>2

\* Scheduler::schedule() of an EC it does not know: it is in, or the machine
\* stopped for want of a slot; the first one is dispatched at once.
LEMMA ScheduledSound ==
  ASSUME NEW s, Sound(s), NEW e \in EC, e \notin Members(s)
  PROVE  \/ /\ Scheduled(s, e) = [s EXCEPT !.halted = "queue full"]
            /\ Sound(Scheduled(s, e))
            /\ Members(Scheduled(s, e)) = Members(s)
         \/ /\ s.current_ec # NULL
            /\ Sound(Scheduled(s, e))
            /\ Members(Scheduled(s, e)) = Members(s) \cup {e}
            /\ Scheduled(s, e).current_ec = s.current_ec
            /\ Scheduled(s, e).priority = s.priority
            /\ Scheduled(s, e).halted = s.halted
         \/ /\ s.current_ec = NULL
            /\ Dispatched(Enqueue(s, e, FALSE), Scheduled(s, e))
            /\ Members(Scheduled(s, e)) = Members(s) \cup {e}
            /\ Scheduled(s, e).priority = s.priority
            /\ Scheduled(s, e).halted \in {s.halted, "no ECs to run"}
<1>1. CASE Len(s.queues[s.priority[e]]) >= MAX_ECS
  <2> DEFINE t == Scheduled(s, e)
  <2>1. t = [s EXCEPT !.halted = "queue full"]
    BY <1>1 DEF Scheduled
  <2>2. /\ t \in SchedulerState /\ t.queues = s.queues /\ t.priority = s.priority
        /\ t.current_ec = s.current_ec
    BY <2>1 DEF Sound, SchedulerState, Halts
  <2> HIDE DEF t
  <2>3. Sound(t) /\ Members(t) = Members(s)
    BY <2>2, SamePlaces
  <2> QED BY <2>1, <2>3 DEF t
<1>2. CASE ~(Len(s.queues[s.priority[e]]) >= MAX_ECS) /\ s.current_ec = NULL
  <2>1. Scheduled(s, e) = Yielded(Enqueue(s, e, FALSE))
    BY <1>2 DEF Scheduled
  <2>2. /\ Sound(Enqueue(s, e, FALSE))
        /\ Members(Enqueue(s, e, FALSE)) = Members(s) \cup {e}
        /\ Enqueue(s, e, FALSE).priority = s.priority
        /\ Enqueue(s, e, FALSE).halted = s.halted
    BY EnqueueSound
  <2>3. Dispatched(Enqueue(s, e, FALSE), Scheduled(s, e))
    BY <2>1, <2>2, YieldedSound
  <2>4. /\ Members(Scheduled(s, e)) = Members(Enqueue(s, e, FALSE))
        /\ Scheduled(s, e).priority = Enqueue(s, e, FALSE).priority
        /\ Scheduled(s, e).halted \in
              {Enqueue(s, e, FALSE).halted, "no ECs to run"}
    BY <2>3 DEF Dispatched
  <2> QED BY <1>2, <2>2, <2>3, <2>4
<1>3. CASE ~(Len(s.queues[s.priority[e]]) >= MAX_ECS) /\ s.current_ec # NULL
  <2>1. Scheduled(s, e) = Enqueue(s, e, FALSE)
    BY <1>3 DEF Scheduled
  <2> QED BY <1>3, <2>1, EnqueueSound
<1> QED BY <1>1, <1>2, <1>3

-----------------------------------------------------------------------------
\* The order of a queue.

\* Where nobody moves nobody overtakes: an EC has one place only.
LEMMA SamePlaceOrder ==
  ASSUME NEW s, Sound(s), NEW t, SamePlace(s, t)
  PROVE  KeepsOrder(s, t)
<1> SUFFICES ASSUME NEW p \in Levels,
                    NEW i1 \in Runnable(s.queues[p]), NEW i2 \in Runnable(s.queues[p]),
                    NEW j1 \in Runnable(t.queues[p]), NEW j2 \in Runnable(t.queues[p]),
                    s.queues[p][i1].ec = t.queues[p][j1].ec,
                    s.queues[p][i2].ec = t.queues[p][j2].ec,
                    i1 < i2
             PROVE  j1 < j2
  BY DEF KeepsOrder
<1>1. /\ {i1, i2} \subseteq 1 .. Len(s.queues[p])
      /\ {j1, j2} \subseteq 1 .. Len(s.queues[p])
  BY DEF Runnable, SamePlace
<1>2. s.queues[p][j1].ec = s.queues[p][i1].ec /\ s.queues[p][j2].ec = s.queues[p][i2].ec
  BY <1>1 DEF SamePlace
<1>3. j1 = i1 /\ j2 = i2
  BY <1>1, <1>2 DEF Sound, OnePlace
<1> QED BY <1>3

\* What joins behind the others has overtaken none of them, and what then
\* keeps the order of the longer queues keeps theirs.
LEMMA StartsWithOrder ==
  ASSUME NEW s, NEW u, NEW t, StartsWith(s, u), KeepsOrder(u, t)
  PROVE  KeepsOrder(s, t)
<1>1. ASSUME NEW p \in Levels, NEW i \in Runnable(s.queues[p])
      PROVE  i \in Runnable(u.queues[p]) /\ u.queues[p][i] = s.queues[p][i]
  BY DEF StartsWith, Runnable
<1> QED BY <1>1 DEF KeepsOrder

\* A dispatch brings blocked entries to the tail, one by one, and takes a
\* runnable one out; those that can run and stay move up together.
LEMMA DispatchOrder ==
  ASSUME NEW s, Sound(s)
  PROVE  KeepsOrder(s, Dispatch(s))
<1> DEFINE t == Dispatch(s)
           ready == {p \in Levels : Runnable(s.queues[p]) # {}}
<1>1. CASE ready = {}
  <2>1. t = [s EXCEPT !.halted = "no ECs to run"]
    BY <1>1 DEF Dispatch
  <2>2. t.queues = s.queues
    BY <2>1 DEF Sound, SchedulerState
  <2> QED BY <2>2, SamePlaceOrder DEF SamePlace
<1>2. CASE ready # {}
  <2> DEFINE p == FirstOf(ready)
             q == s.queues[p]
             i == FirstOf(Runnable(q))
             x == q[i].ec
  <2>1. p \in ready
    <3>1. ready \in SUBSET Nat
      BY QueueAssumption DEF Levels
    <3> QED BY <1>2, <3>1, FirstOfExists
  <2>2. p \in Levels /\ Runnable(q) # {}
    BY <2>1
  <2>3. t = [s EXCEPT !.current_ec = x, !.queues[p] = TakeOut(@, i)]
    BY <1>2 DEF Dispatch
  <2> HIDE DEF ready, p, t
  <2>4. q \in Seq(Entry) /\ Len(q) \in Nat
    BY <2>2, QueueEntries
  <2>5. i \in Runnable(q) /\ \A j \in Runnable(q) : i <= j
    <3>1. Runnable(q) \in SUBSET Nat
      BY <2>4 DEF Runnable
    <3> QED BY <2>2, <3>1, FirstOfExists
  <2> HIDE DEF i, x
  <2>6. i \in 1 .. Len(q)
    BY <2>5 DEF Runnable
  <2> DEFINE r == TakeOut(q, i)
  <2>7. /\ Len(r) = Len(q) - 1
        /\ \A k \in 1 .. Len(q) - 1 :
              r[k] = q[IF k <= Len(q) - i THEN k + i ELSE k - (Len(q) - i)]
    BY <2>4, <2>6, TakeOutElements
  <2> HIDE DEF r
  <2>8. t.queues[p] = r /\ \A l \in Levels \ {p} : t.queues[l] = s.queues[l]
    BY <2>2, <2>3 DEF Sound, SchedulerState, r
  <2>9. ASSUME NEW k \in Runnable(r)
        PROVE  k + i \in 1 .. Len(q) /\ r[k] = q[k + i]
    <3>1. k \in 1 .. Len(q) - 1 /\ ~r[k].blocked
      BY <2>7 DEF Runnable
    <3>2. CASE k <= Len(q) - i
      BY <2>4, <2>6, <2>7, <3>1, <3>2
    <3>3. CASE ~(k <= Len(q) - i)
      <4> DEFINE m == k - (Len(q) - i)
      <4>1. m \in 1 .. Len(q) /\ m < i
        <5> DEFINE n == Len(q)
        <5>1. n \in Nat /\ i \in 1 .. n /\ k \in 1 .. n - 1 /\ ~(k <= n - i)
          BY <2>4, <2>6, <3>1, <3>3
        <5> HIDE DEF n
        <5>2. k - (n - i) \in 1 .. n /\ k - (n - i) < i
          BY <5>1
        <5> QED BY <5>2 DEF n
      <4>2. r[k] = q[m]
        BY <2>7, <3>1, <3>3
      <4>3. m \in Runnable(q)
        BY <3>1, <4>1, <4>2 DEF Runnable
      <4> QED BY <2>5, <2>6, <4>1, <4>3
    <3> QED BY <3>2, <3>3
  <2>10. ASSUME NEW i1 \in Runnable(q), NEW i2 \in Runnable(q),
                NEW j1 \in Runnable(r), NEW j2 \in Runnable(r),
                q[i1].ec = r[j1].ec, q[i2].ec = r[j2].ec, i1 < i2
         PROVE  j1 < j2
    <3>1. i1 \in 1 .. Len(q) /\ i2 \in 1 .. Len(q)
      BY DEF Runnable
    <3>2. /\ j1 + i \in 1 .. Len(q) /\ q[j1 + i].ec = q[i1].ec
          /\ j2 + i \in 1 .. Len(q) /\ q[j2 + i].ec = q[i2].ec
      BY <2>9, <2>10
    <3>3. j1 + i = i1 /\ j2 + i = i2
      BY <2>2, <3>1, <3>2 DEF Sound, OnePlace
    <3>4. j1 \in Int /\ j2 \in Int
      BY <2>4, <2>7 DEF Runnable
    <3> QED BY <2>6, <2>10, <3>3, <3>4
  <2>11. ASSUME NEW l \in Levels \ {p},
                NEW i1 \in Runnable(s.queues[l]), NEW i2 \in Runnable(s.queues[l]),
                NEW j1 \in Runnable(s.queues[l]), NEW j2 \in Runnable(s.queues[l]),
                s.queues[l][i1].ec = s.queues[l][j1].ec,
                s.queues[l][i2].ec = s.queues[l][j2].ec, i1 < i2
         PROVE  j1 < j2
    <3>1. j1 = i1 /\ j2 = i2
      BY <2>11 DEF Sound, OnePlace, Runnable
    <3> QED BY <2>11, <3>1
  <2>12. KeepsOrder(s, t)
    <3> SUFFICES ASSUME NEW l \in Levels,
                        NEW i1 \in Runnable(s.queues[l]), NEW i2 \in Runnable(s.queues[l]),
                        NEW j1 \in Runnable(t.queues[l]), NEW j2 \in Runnable(t.queues[l]),
                        s.queues[l][i1].ec = t.queues[l][j1].ec,
                        s.queues[l][i2].ec = t.queues[l][j2].ec,
                        i1 < i2
                 PROVE  j1 < j2
      BY DEF KeepsOrder
    <3>1. CASE l = p
      BY <2>8, <2>10, <3>1
    <3>2. CASE l # p
      BY <2>8, <2>11, <3>2
    <3> QED BY <3>1, <3>2
  <2> QED BY <2>12 DEF t
<1> QED BY <1>1, <1>2

\* The running EC goes behind those that wait.
LEMMA PreemptedStartsWith ==
  ASSUME NEW s, Sound(s), s.current_ec # NULL, NEW b \in BOOLEAN
  PROVE  StartsWith(s, Preempted(s, b))
<1> DEFINE r == [s EXCEPT !.current_ec = NULL]
           e == s.current_ec
<1>1. /\ r \in SchedulerState /\ r.queues = s.queues /\ r.priority = s.priority
      /\ r.current_ec = NULL /\ r.halted = s.halted
  BY DEF Sound, SchedulerState
<1>2. e \in EC
  BY DEF Sound, SchedulerState
<1> HIDE DEF r
<1>3. Sound(r)
  <2>1. \A p \in Levels : \A i \in 1 .. Len(r.queues[p]) :
           r.queues[p][i].ec # r.current_ec
    BY <1>1, QueueEntries, QueueAssumption
  <2> QED BY <1>1, <2>1 DEF Sound, OnePlace
<1>4. e \notin Members(r)
  BY <1>1, <1>2, QueueAssumption DEF Members, Queued, Sound, OnePlace
<1>5. StartsWith(r, Enqueue(r, e, b))
  BY <1>2, <1>3, <1>4, EnqueueSound
<1>6. Preempted(s, b) = Enqueue(r, e, b)
  BY DEF Preempted, r
<1> QED BY <1>1, <1>5, <1>6 DEF StartsWith

\* yield(), block(), unblock() and schedule() all keep it.
LEMMA YieldedOrder ==
  ASSUME NEW s, Sound(s)
  PROVE  KeepsOrder(s, Yielded(s))
<1>1. CASE s.current_ec = NULL
  BY <1>1, DispatchOrder DEF Yielded
<1>2. CASE s.current_ec # NULL
  <2> DEFINE u == Preempted(s, FALSE)
  <2>1. Sound(u) /\ StartsWith(s, u)
    BY <1>2, PreemptedSound, PreemptedStartsWith
  <2>2. Yielded(s) = Dispatch(u)
    BY <1>2 DEF Yielded
  <2> HIDE DEF u
  <2>3. KeepsOrder(u, Dispatch(u))
    BY <2>1, DispatchOrder
  <2> QED BY <2>1, <2>2, <2>3, StartsWithOrder
<1> QED BY <1>1, <1>2

LEMMA MarkedOrder ==
  ASSUME NEW s, Sound(s), NEW e \in EC, NEW b \in BOOLEAN
  PROVE  KeepsOrder(s, Marked(s, e, b))
BY MarkedSound, SamePlaceOrder

LEMMA BlockedOrder ==
  ASSUME NEW s, Sound(s), NEW e \in EC
  PROVE  KeepsOrder(s, Blocked(s, e))
<1>1. CASE e = s.current_ec
  <2> DEFINE u == Preempted(s, TRUE)
  <2>1. Sound(u) /\ StartsWith(s, u)
    BY <1>1, QueueAssumption, PreemptedSound, PreemptedStartsWith
  <2>2. Blocked(s, e) = Dispatch(u)
    BY <1>1 DEF Blocked
  <2> HIDE DEF u
  <2>3. KeepsOrder(u, Dispatch(u))
    BY <2>1, DispatchOrder
  <2> QED BY <2>1, <2>2, <2>3, StartsWithOrder
<1>2. CASE e # s.current_ec
  BY <1>2, MarkedOrder DEF Blocked
<1> QED BY <1>1, <1>2

LEMMA ScheduledOrder ==
  ASSUME NEW s, Sound(s), NEW e \in EC, e \notin Members(s)
  PROVE  KeepsOrder(s, Scheduled(s, e))
<1> DEFINE u == Enqueue(s, e, FALSE)
<1>1. Sound(u) /\ StartsWith(s, u)
  BY EnqueueSound
<1>2. \/ Scheduled(s, e) = [s EXCEPT !.halted = "queue full"]
      \/ Scheduled(s, e) = Yielded(u)
      \/ Scheduled(s, e) = u
  BY DEF Scheduled
<1> HIDE DEF u
<1>3. KeepsOrder(s, Yielded(u)) /\ KeepsOrder(s, u)
  <2>1. KeepsOrder(u, Yielded(u))
    BY <1>1, YieldedOrder
  <2>2. KeepsOrder(u, u)
    BY <1>1, SamePlaceOrder DEF SamePlace
  <2> QED BY <1>1, <2>1, <2>2, StartsWithOrder
<1>4. CASE Scheduled(s, e) = [s EXCEPT !.halted = "queue full"]
  <2>1. Scheduled(s, e).queues = s.queues
    BY <1>4 DEF Sound, SchedulerState
  <2> QED BY <2>1, SamePlaceOrder DEF SamePlace
<1> QED BY <1>2, <1>3, <1>4

-----------------------------------------------------------------------------
\* Who is asleep.

\* unblock() wakes the EC it is given, wherever it waits, and nobody else.
LEMMA UnblockedAsleep ==
  ASSUME NEW s, Sound(s), NEW e \in EC
  PROVE  Asleep(Unblocked(s, e)) = Asleep(s) \ {e}
<1> DEFINE p == s.priority[e]
           q == s.queues[p]
           i == FirstOf(Positions(s, e))
           t == Marked(s, e, FALSE)
<1>0. p \in Levels /\ OnePlace(s) /\ s \in SchedulerState
  BY DEF Sound, SchedulerState
<1>1. CASE Positions(s, e) = {}
  <2>1. e \notin Asleep(s)
    BY <1>1, NowhereQueued DEF Asleep, Queued
  <2> QED BY <1>1, <2>1 DEF Unblocked, Marked
<1>2. CASE Positions(s, e) # {}
  <2>1. i \in 1 .. Len(q) /\ q[i].ec = e
    <3>1. Len(q) \in Nat
      BY <1>0, QueueEntries
    <3>2. Positions(s, e) \in SUBSET Nat
      BY <3>1 DEF Positions
    <3>3. i \in Positions(s, e)
      BY <1>2, <3>2, FirstOfExists
    <3> QED BY <3>3 DEF Positions
  <2>2. t = [s EXCEPT !.queues[p][i].blocked = FALSE]
    BY <1>2 DEF Marked
  <2> HIDE DEF i, t, p
  <2>3. q \in Seq(Entry) /\ q[i] \in Entry
    BY <1>0, <2>1, QueueEntries
  <2> DEFINE r == [q EXCEPT ![i] = [@ EXCEPT !.blocked = FALSE]]
             flagged == [q[i] EXCEPT !.blocked = FALSE]
  <2>4. flagged.ec = e /\ ~ flagged.blocked
    BY <2>1, <2>3 DEF Entry
  <2>5. r = [q EXCEPT ![i] = flagged]
    OBVIOUS
  <2> HIDE DEF r, flagged
  <2>6. /\ Len(r) = Len(q) /\ r[i].ec = e /\ ~ r[i].blocked
        /\ \A k \in 1 .. Len(q) : k # i => r[k] = q[k]
    BY <2>1, <2>3, <2>4, <2>5
  <2>7. t.queues = [s.queues EXCEPT ![p] = r]
    BY <1>0, <2>2 DEF SchedulerState, r
  <2>8. t.queues[p] = r /\ \A l \in Levels \ {p} : t.queues[l] = s.queues[l]
    BY <1>0, <2>7 DEF SchedulerState
  <2>9. Sound(t)
    BY MarkedSound DEF t
  <2>10. e \notin Asleep(t)
    BY <1>0, <2>1, <2>6, <2>8, <2>9, EntryAsleep
  <2>11. ASSUME NEW x \in Asleep(t) PROVE x \in Asleep(s)
    <3>1. PICK l \in Levels : \E k \in 1 .. Len(t.queues[l]) :
             t.queues[l][k].ec = x /\ t.queues[l][k].blocked
      BY <2>11 DEF Asleep
    <3>2. PICK k \in 1 .. Len(t.queues[l]) :
             t.queues[l][k].ec = x /\ t.queues[l][k].blocked
      BY <3>1
    <3>3. k \in 1 .. Len(s.queues[l]) /\ t.queues[l][k] = s.queues[l][k]
      BY <2>6, <2>8, <3>2
    <3> QED BY <2>11, <3>2, <3>3 DEF Asleep
  <2>12. ASSUME NEW x \in Asleep(s), x # e PROVE x \in Asleep(t)
    <3>1. PICK l \in Levels : \E k \in 1 .. Len(s.queues[l]) :
             s.queues[l][k].ec = x /\ s.queues[l][k].blocked
      BY <2>12 DEF Asleep
    <3>2. PICK k \in 1 .. Len(s.queues[l]) :
             s.queues[l][k].ec = x /\ s.queues[l][k].blocked
      BY <3>1
    <3>3. k \in 1 .. Len(t.queues[l]) /\ t.queues[l][k] = s.queues[l][k]
      BY <2>1, <2>6, <2>8, <2>12, <3>2
    <3> QED BY <2>12, <3>2, <3>3 DEF Asleep
  <2>13. Asleep(t) = Asleep(s) \ {e}
    BY <2>10, <2>11, <2>12
  <2> QED BY <2>13 DEF t, Unblocked
<1> QED BY <1>1, <1>2

\* A dispatch, whatever it is called by, picks an EC that is not asleep and
\* leaves the others as they are.
LEMMA YieldedAsleep ==
  ASSUME NEW s, Sound(s)
  PROVE  /\ Asleep(Yielded(s)) = Asleep(s)
         /\ Yielded(s).halted # "no ECs to run" =>
                Yielded(s).current_ec \notin Asleep(s)
<1> DEFINE r == IF s.current_ec = NULL THEN s ELSE Preempted(s, FALSE)
<1>1. Sound(r) /\ r.current_ec = NULL /\ Asleep(r) = Asleep(s)
  BY PreemptedSound
<1>2. Yielded(s) = Dispatch(r)
  BY DEF Yielded
<1> HIDE DEF r
<1> QED BY <1>1, <1>2, DispatchSound

\* The running EC that blocks is asleep afterwards, and another one runs.
LEMMA BlockedAsleep ==
  ASSUME NEW s, Sound(s), s.current_ec # NULL
  PROVE  LET e == s.current_ec IN
         /\ Asleep(Blocked(s, e)) = Asleep(s) \cup {e}
         /\ Blocked(s, e).halted # "no ECs to run" =>
                Blocked(s, e).current_ec \notin Asleep(s) \cup {e}
<1> DEFINE r == Preempted(s, TRUE)
<1>1. /\ Sound(r) /\ r.current_ec = NULL
      /\ Asleep(r) = Asleep(s) \cup {s.current_ec}
  BY PreemptedSound
<1>2. Blocked(s, s.current_ec) = Dispatch(r)
  BY DEF Blocked
<1> HIDE DEF r
<1> QED BY <1>1, <1>2, DispatchSound

\* schedule() puts an EC to sleep neither itself nor any other.
LEMMA ScheduledAsleep ==
  ASSUME NEW s, Sound(s), NEW e \in EC, e \notin Members(s)
  PROVE  Asleep(Scheduled(s, e)) = Asleep(s)
<1>1. CASE Len(s.queues[s.priority[e]]) >= MAX_ECS
  <2>1. Scheduled(s, e).queues = s.queues
    BY <1>1 DEF Scheduled, Sound, SchedulerState
  <2> QED BY <2>1 DEF Asleep
<1>2. CASE ~(Len(s.queues[s.priority[e]]) >= MAX_ECS)
  <2> DEFINE r == Enqueue(s, e, FALSE)
  <2>1. Sound(r) /\ Asleep(r) = Asleep(s)
    BY EnqueueSound, EnqueueAsleep
  <2>2. Scheduled(s, e) \in {r, Yielded(r)}
    BY <1>2 DEF Scheduled
  <2> HIDE DEF r
  <2> QED BY <2>1, <2>2, YieldedAsleep
<1> QED BY <1>1, <1>2
==============================================================================
