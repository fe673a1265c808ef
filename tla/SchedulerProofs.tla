---------------------------- MODULE SchedulerProofs ----------------------------
(***************************************************************************)
(* The rings of scheduler.cc keep their geometry however full they are,    *)
(* and as long as no more than MAX_ECS ECs exist every method does to them *)
(* what module Scheduling promises of the queues: read from head to tail,  *)
(* a ring is the sequence, a rotation of the scan a rotation of it, the    *)
(* compaction of reprioritize() the removal of one entry.                  *)
(***************************************************************************)
EXTENDS Scheduler, RunQueuesProofs, FiniteSetTheorems

-----------------------------------------------------------------------------
\* Index arithmetic modulo MAX_ECS.

\* Quotient and remainder.
LEMMA Division ==
  ASSUME NEW x \in Int
  PROVE  /\ x \div MAX_ECS \in Int /\ x % MAX_ECS \in Slot
         /\ x = (x \div MAX_ECS) * MAX_ECS + (x % MAX_ECS)
BY QueueAssumption DEF Slot

\* They are determined by the number divided.
LEMMA Remainder ==
  ASSUME NEW x \in Int, NEW k \in Int, NEW r \in Slot, x = k * MAX_ECS + r
  PROVE  x % MAX_ECS = r
BY QueueAssumption DEF Slot

LEMMA SmallMultiple ==
  ASSUME NEW k \in Int, NEW d \in Int, d = k * MAX_ECS, -MAX_ECS < d, d < MAX_ECS
  PROVE  d = 0
BY QueueAssumption

\* A slot is its own remainder.
LEMMA SlotIsItself ==
  ASSUME NEW k \in Slot
  PROVE  After(k, 0) = k /\ k \in Int
BY QueueAssumption DEF Slot, After

\* Every place is in some slot.
LEMMA AfterSlot ==
  ASSUME NEW k \in Int, NEW i \in Int
  PROVE  After(k, i) \in Slot
<1>1. k + i \in Int
  OBVIOUS
<1> QED BY <1>1, Division DEF After

\* Wrapping round in between makes no difference.
LEMMA AfterAfter ==
  ASSUME NEW k \in Int, NEW i \in Int, NEW j \in Int
  PROVE  After(After(k, i), j) = After(k, i + j)
<1> DEFINE x == k + i
           a == x \div MAX_ECS
           b == (x + j) \div MAX_ECS
           r == x % MAX_ECS
           s == (x + j) % MAX_ECS
<1>1. a \in Int /\ r \in Slot /\ x = a * MAX_ECS + r /\ x \in Int
  BY Division
<1>2. b \in Int /\ s \in Slot /\ x + j = b * MAX_ECS + s
  BY Division
<1>3. r \in Int /\ s \in Int
  BY <1>1, <1>2, QueueAssumption DEF Slot
<1>4. After(k, i) = r /\ After(k, i + j) = s
  BY DEF After
<1>5. After(r, j) = (r + j) % MAX_ECS
  BY DEF After
<1> HIDE DEF x, a, b, r, s
<1>6. r + j = (b - a) * MAX_ECS + s
  BY <1>1, <1>2, <1>3, QueueAssumption
<1>7. (r + j) % MAX_ECS = s
  <2>1. r + j \in Int /\ b - a \in Int
    BY <1>1, <1>2, <1>3
  <2> QED BY <1>2, <1>6, <2>1, Remainder
<1> QED BY <1>4, <1>5, <1>7

\* Within one round no slot is met twice.
LEMMA AfterInjective ==
  ASSUME NEW k \in Int, NEW i \in Slot, NEW j \in Slot, After(k, i) = After(k, j)
  PROVE  i = j
<1> DEFINE a == (k + i) \div MAX_ECS
           b == (k + j) \div MAX_ECS
           r == (k + i) % MAX_ECS
<1>0. i \in Int /\ j \in Int /\ j - i \in Int /\ k + i \in Int /\ k + j \in Int
  BY QueueAssumption DEF Slot
<1>1. a \in Int /\ r \in Slot /\ k + i = a * MAX_ECS + r
  BY <1>0, Division
<1>2. b \in Int /\ k + j = b * MAX_ECS + r
  BY <1>0, Division DEF After
<1>3. (k + i) + (j - i) = k + j /\ r \in Int
  BY <1>0, <1>1, QueueAssumption DEF Slot
<1> HIDE DEF a, b, r
<1>6. j - i = (b - a) * MAX_ECS
  BY <1>0, <1>1, <1>2, <1>3, QueueAssumption
<1>7. /\ b - a \in Int /\ j - i \in Int
      /\ -MAX_ECS < j - i /\ j - i < MAX_ECS
  BY <1>0, <1>1, <1>2, QueueAssumption DEF Slot
<1>8. j - i = 0
  BY <1>6, <1>7, SmallMultiple
<1> QED BY <1>0, <1>8

-----------------------------------------------------------------------------
\* Rings, however full.

\* The tail is count places behind the head.
InStep(q) == q \in Ring /\ q.tail = After(q.head, q.count)

LEMMA RingFields ==
  ASSUME NEW q \in Ring
  PROVE  /\ q.slots \in [Slot -> EC \cup {NULL}] /\ q.blocked \in [Slot -> BOOLEAN]
         /\ q.head \in Slot /\ q.head \in Int /\ q.tail \in Slot /\ q.count \in Nat
BY QueueAssumption DEF Ring, Slot

\* What the three assignments at the tail leave of each field.
LEMMA PutFields ==
  ASSUME NEW q \in Ring, NEW e, NEW b
  PROVE  Put(q, e, b) = [slots   |-> [q.slots EXCEPT ![q.tail] = e],
                         blocked |-> [q.blocked EXCEPT ![q.tail] = b],
                         head    |-> q.head,
                         tail    |-> After(q.tail, 1),
                         count   |-> q.count]
<1> DEFINE x == q.slots
           y == q.blocked
           h == q.head
           u == q.tail
           n == q.count
           t == After(u, 1)
           x1 == [x EXCEPT ![u] = e]
           y1 == [y EXCEPT ![u] = b]
<1>1. q = [slots |-> x, blocked |-> y, head |-> h, tail |-> u, count |-> n]
  BY DEF Ring
<1>2. Put(q, e, b) = [[[q EXCEPT !.slots[u] = e] EXCEPT !.blocked[u] = b]
                         EXCEPT !.tail = t]
  BY DEF Put
<1> HIDE DEF x, y, h, u, n, t
<1>3. [q EXCEPT !.slots[u] = e] =
         [slots |-> x1, blocked |-> y, head |-> h, tail |-> u, count |-> n]
  BY <1>1
<1> HIDE DEF x1
<1>4. [[slots |-> x1, blocked |-> y, head |-> h, tail |-> u, count |-> n]
         EXCEPT !.blocked[u] = b] =
         [slots |-> x1, blocked |-> y1, head |-> h, tail |-> u, count |-> n]
  OBVIOUS
<1> HIDE DEF y1
<1>5. [[slots |-> x1, blocked |-> y1, head |-> h, tail |-> u, count |-> n]
         EXCEPT !.tail = t] =
         [slots |-> x1, blocked |-> y1, head |-> h, tail |-> t, count |-> n]
  OBVIOUS
<1>6. Put(q, e, b) =
         [slots |-> x1, blocked |-> y1, head |-> h, tail |-> t, count |-> n]
  BY <1>2, <1>3, <1>4, <1>5, Zenon
<1> QED BY <1>6, Zenon DEF x, y, h, u, n, t, x1, y1

\* An enqueue, checked or not.
LEMMA PushInStep ==
  ASSUME NEW q, InStep(q), NEW e \in EC \cup {NULL}, NEW b \in BOOLEAN
  PROVE  /\ InStep(Push(q, e, b))
         /\ Push(q, e, b).head = q.head
         /\ Push(q, e, b).count = q.count + 1
         /\ Push(q, e, b).slots = [q.slots EXCEPT ![q.tail] = e]
         /\ Push(q, e, b).blocked = [q.blocked EXCEPT ![q.tail] = b]
<1>1. /\ q \in Ring /\ q.tail = After(q.head, q.count)
      /\ q.head \in Int /\ q.count \in Int /\ q.count \in Nat /\ 1 \in Int
  BY RingFields DEF InStep
<1>2. After(q.tail, 1) \in Slot /\ After(q.tail, 1) = After(q.head, q.count + 1)
  <2>1. After(After(q.head, q.count), 1) = After(q.head, q.count + 1)
    BY <1>1, AfterAfter
  <2>2. After(q.head, q.count + 1) \in Slot
    <3>1. q.count + 1 \in Int
      BY <1>1
    <3> QED BY <1>1, <3>1, AfterSlot
  <2> QED BY <1>1, <2>1, <2>2
<1>3. Push(q, e, b) = [slots   |-> [q.slots EXCEPT ![q.tail] = e],
                       blocked |-> [q.blocked EXCEPT ![q.tail] = b],
                       head    |-> q.head,
                       tail    |-> After(q.tail, 1),
                       count   |-> q.count + 1]
  BY <1>1, PutFields DEF Push
<1>4. Push(q, e, b) \in Ring
  BY <1>1, <1>2, <1>3, RingFields DEF Ring
<1> QED BY <1>2, <1>3, <1>4 DEF InStep

\* A turn of the scan.
LEMMA RotateInStep ==
  ASSUME NEW q, InStep(q)
  PROVE  /\ InStep(Rotate(q))
         /\ Rotate(q).head = After(q.head, 1)
         /\ Rotate(q).count = q.count
         /\ Rotate(q).slots = [q.slots EXCEPT ![q.tail] = q.slots[q.head]]
         /\ Rotate(q).blocked = [q.blocked EXCEPT ![q.tail] = TRUE]
<1> DEFINE moved == [q EXCEPT !.head = After(q.head, 1)]
<1>1. /\ q \in Ring /\ q.tail = After(q.head, q.count)
      /\ q.head \in Int /\ q.count \in Int /\ q.count \in Nat /\ 1 \in Int
  BY RingFields DEF InStep
<1>2. /\ After(q.tail, 1) \in Slot /\ After(q.head, 1) \in Slot
      /\ After(q.tail, 1) = After(After(q.head, 1), q.count)
  <2>1. After(After(q.head, q.count), 1) = After(q.head, q.count + 1)
    BY <1>1, AfterAfter
  <2>2. /\ After(q.head, 1) \in Slot
        /\ After(After(q.head, 1), q.count) = After(q.head, 1 + q.count)
    BY <1>1, AfterAfter, AfterSlot
  <2>3. After(q.head, q.count + 1) \in Slot /\ 1 + q.count = q.count + 1
    <3>1. q.count + 1 \in Int /\ 1 + q.count = q.count + 1
      BY <1>1
    <3> QED BY <1>1, <3>1, AfterSlot
  <2> QED BY <1>1, <2>1, <2>2, <2>3
<1>3. /\ moved \in Ring /\ moved.slots = q.slots /\ moved.blocked = q.blocked
      /\ moved.head = After(q.head, 1) /\ moved.tail = q.tail
      /\ moved.count = q.count
  BY <1>1, <1>2 DEF Ring
<1>4. Rotate(q) = Put(moved, q.slots[q.head], TRUE)
  BY DEF Rotate
<1> HIDE DEF moved
<1>5. Rotate(q) = [slots   |-> [q.slots EXCEPT ![q.tail] = q.slots[q.head]],
                   blocked |-> [q.blocked EXCEPT ![q.tail] = TRUE],
                   head    |-> After(q.head, 1),
                   tail    |-> After(q.tail, 1),
                   count   |-> q.count]
  BY <1>3, <1>4, PutFields
<1>6. q.slots[q.head] \in EC \cup {NULL}
  BY <1>1, RingFields
<1>7. Rotate(q) \in Ring
  BY <1>1, <1>2, <1>5, <1>6, RingFields DEF Ring
<1> QED BY <1>2, <1>5, <1>7 DEF InStep

\* The scan's rotations: turn t is the rotation of turn t - 1.
LEMMA TurnedSteps ==
  ASSUME NEW q, InStep(q)
  PROVE  /\ Turned(q)[0] = q
         /\ \A t \in 1 .. q.count : Turned(q)[t] = Rotate(Turned(q)[t - 1])
         /\ \A t \in 0 .. q.count : /\ InStep(Turned(q)[t])
                                    /\ Turned(q)[t].count = q.count
<1> DEFINE n == q.count
           S == {r \in Ring : InStep(r) /\ r.count = n}
           G == [i \in 0 .. n |-> [r \in S |-> Rotate(r)]]
           Turns(f) == f = [t \in 0 .. n |-> IF t = 0 THEN q ELSE Rotate(f[t - 1])]
<1>1. n \in Nat /\ q \in S
  BY RingFields DEF InStep
<1>2. ASSUME NEW i \in 0 .. n, NEW v \in S PROVE G[i][v] \in S
  <2>1. Rotate(v) \in S
    BY RotateInStep DEF InStep
  <2> QED BY <2>1
<1>3. \E f : Turns(f)
  <2>1. PICK f \in [0 .. n -> S] : Loops(f, 0, n, q, G)
    <3>1. 0 \in Nat /\ n \in Nat /\ 0 <= n
      BY <1>1
    <3>2. KeptIn(G, 0, n, S)
      BY <1>2 DEF KeptIn
    <3> HIDE DEF S, G, n
    <3> QED BY <1>1, <3>1, <3>2, LoopExists
  <2>2. ASSUME NEW i \in 0 .. n, i # 0 PROVE G[i][f[i - 1]] = Rotate(f[i - 1])
    <3>1. i - 1 \in 0 .. n
      BY <1>1, <2>2
    <3>2. f[i - 1] \in S
      BY <3>1
    <3> QED BY <3>2
  <2>3. \A i \in 0 .. n : f[i] = IF i = 0 THEN q ELSE Rotate(f[i - 1])
    BY <2>1, <2>2 DEF Loops
  <2> HIDE DEF S, G, n
  <2>4. Turns(f)
    BY <2>3
  <2> QED BY <2>4
<1>4. Turned(q) = CHOOSE f : Turns(f)
  BY DEF Turned
<1>5. Turns(Turned(q))
  <2> HIDE DEF Turns
  <2> QED BY <1>3, <1>4
<1> DEFINE T == Turned(q)
<1> HIDE DEF T
<1>6. T[0] = q /\ \A t \in 1 .. n : T[t] = Rotate(T[t - 1])
  BY <1>1, <1>5 DEF T
<1>7. \A t \in 0 .. n : T[t] \in S
  <2> DEFINE I == {t \in 0 .. n : T[t] \in S}
  <2>1. 0 \in I
    BY <1>1, <1>6
  <2>2. ASSUME NEW t \in 0 .. n, t # 0, t - 1 \in I PROVE t \in I
    <3>1. T[t] = Rotate(T[t - 1])
      BY <1>1, <1>6, <2>2
    <3>2. Rotate(T[t - 1]) \in S
      BY <2>2, RotateInStep DEF InStep
    <3> QED BY <3>1, <3>2
  <2>3. 0 .. n \subseteq I
    <3> HIDE DEF I, n
    <3> QED BY <1>1, <2>1, <2>2, IndicesInduction
  <2> QED BY <2>3
<1> QED BY <1>6, <1>7 DEF T

\* The scan takes the entry at the head.
LEMMA AdvanceInStep ==
  ASSUME NEW q, InStep(q), q.count > 0
  PROVE  LET r == [q EXCEPT !.head = After(q.head, 1), !.count = q.count - 1] IN
         /\ InStep(r) /\ r.head = After(q.head, 1) /\ r.count = q.count - 1
         /\ r.slots = q.slots /\ r.blocked = q.blocked
<1> DEFINE r == [q EXCEPT !.head = After(q.head, 1), !.count = q.count - 1]
<1>1. /\ q \in Ring /\ q.tail = After(q.head, q.count)
      /\ q.head \in Int /\ q.count \in Nat /\ q.count - 1 \in Nat /\ 1 \in Int
  BY RingFields DEF InStep
<1>2. After(q.head, 1) \in Slot
  BY <1>1, AfterSlot
<1>3. /\ r \in Ring /\ r.head = After(q.head, 1) /\ r.count = q.count - 1
      /\ r.slots = q.slots /\ r.blocked = q.blocked /\ r.tail = q.tail
  BY <1>1, <1>2 DEF Ring
<1>4. After(After(q.head, 1), q.count - 1) = After(q.head, q.count)
  <2>1. q.count - 1 \in Int /\ 1 + (q.count - 1) = q.count
    BY <1>1
  <2>2. After(After(q.head, 1), q.count - 1) = After(q.head, 1 + (q.count - 1))
    BY <1>1, <2>1, AfterAfter
  <2> QED BY <2>1, <2>2
<1> QED BY <1>1, <1>3, <1>4 DEF InStep

\* One copy of the compaction loop.
Copied(r, k, l) == [r EXCEPT !.slots[k] = r.slots[l], !.blocked[k] = r.blocked[l]]

LEMMA CopiedFields ==
  ASSUME NEW r \in Ring, NEW k \in Slot, NEW l \in Slot
  PROVE  /\ Copied(r, k, l) \in Ring
         /\ Copied(r, k, l).slots = [r.slots EXCEPT ![k] = r.slots[l]]
         /\ Copied(r, k, l).blocked = [r.blocked EXCEPT ![k] = r.blocked[l]]
         /\ Copied(r, k, l).head = r.head
         /\ Copied(r, k, l).tail = r.tail
         /\ Copied(r, k, l).count = r.count
<1> DEFINE x == r.slots
           y == r.blocked
           h == r.head
           u == r.tail
           n == r.count
           x1 == [x EXCEPT ![k] = x[l]]
           y1 == [y EXCEPT ![k] = y[l]]
           c == [slots |-> x1, blocked |-> y1, head |-> h, tail |-> u, count |-> n]
<1>1. r = [slots |-> x, blocked |-> y, head |-> h, tail |-> u, count |-> n]
  BY DEF Ring
<1>2. Copied(r, k, l) = [[r EXCEPT !.slots[k] = x[l]] EXCEPT !.blocked[k] = y[l]]
  BY DEF Copied
<1>3. /\ x \in [Slot -> EC \cup {NULL}] /\ y \in [Slot -> BOOLEAN]
      /\ h \in Slot /\ u \in Slot /\ n \in Nat
  BY RingFields
<1> HIDE DEF x, y, h, u, n
<1>4. x1 \in [Slot -> EC \cup {NULL}] /\ y1 \in [Slot -> BOOLEAN]
  BY <1>3
<1>5. [r EXCEPT !.slots[k] = x[l]] =
         [slots |-> x1, blocked |-> y, head |-> h, tail |-> u, count |-> n]
  BY <1>1
<1> HIDE DEF x1
<1>6. [[slots |-> x1, blocked |-> y, head |-> h, tail |-> u, count |-> n]
         EXCEPT !.blocked[k] = y[l]] = c
  OBVIOUS
<1>7. Copied(r, k, l) = c
  BY <1>2, <1>5, <1>6, Zenon
<1>8. c \in Ring
  BY <1>3, <1>4 DEF Ring
<1>9. /\ c.slots = x1 /\ c.blocked = y1 /\ c.head = h /\ c.tail = u /\ c.count = n
  OBVIOUS
<1> HIDE DEF c, y1
<1>10. /\ Copied(r, k, l) \in Ring
       /\ Copied(r, k, l).slots = x1 /\ Copied(r, k, l).blocked = y1
       /\ Copied(r, k, l).head = h /\ Copied(r, k, l).tail = u
       /\ Copied(r, k, l).count = n
  BY <1>7, <1>8, <1>9
<1> QED BY <1>10, Zenon DEF x, y, h, u, n, x1, y1

\* The compaction loop: copy n moves the entry of place n + i one place down.
LEMMA CompactedSteps ==
  ASSUME NEW q, InStep(q), NEW i \in 0 .. q.count - 1
  PROVE  \E f \in [i .. q.count - 1 -> Ring] :
            /\ f[i] = q
            /\ \A n \in i + 1 .. q.count - 1 :
                  f[n] = Copied(f[n - 1], After(q.head, n - 1), After(q.head, n))
            /\ Compacted(q, i) = [f[q.count - 1] EXCEPT
                                    !.tail  = (q.tail - 1 + MAX_ECS) % MAX_ECS,
                                    !.count = q.count - 1]
<1> DEFINE m == q.count - 1
           to(j) == After(q.head, j)
           from(j) == After(q.head, j + 1)
           Step(r, n) == [r EXCEPT !.slots[to(n - 1)]   = r.slots[from(n - 1)],
                                   !.blocked[to(n - 1)] = r.blocked[from(n - 1)]]
           Shifts(f) == f = [n \in i .. m |-> IF n = i THEN q ELSE Step(f[n - 1], n)]
           G == [n \in i .. m |-> [r \in Ring |->
                    IF n = i THEN r ELSE Copied(r, to(n - 1), to(n))]]
<1>1. /\ q \in Ring /\ q.head \in Int /\ q.count \in Nat
      /\ m \in Nat /\ i \in Nat /\ i <= m
  BY RingFields DEF InStep
<1>2. ASSUME NEW n \in i .. m, n # i
      PROVE  /\ to(n - 1) \in Slot /\ to(n) \in Slot
             /\ \A r : Step(r, n) = Copied(r, to(n - 1), to(n))
  <2>1. n - 1 \in Int /\ n \in Int /\ (n - 1) + 1 = n
    BY <1>1
  <2>2. to(n - 1) \in Slot /\ to(n) \in Slot
    BY <1>1, <2>1, AfterSlot
  <2>3. from(n - 1) = to(n)
    BY <2>1
  <2> QED BY <2>2, <2>3 DEF Copied
<1>3. KeptIn(G, i, m, Ring)
  <2> SUFFICES ASSUME NEW n \in i .. m, NEW r \in Ring PROVE G[n][r] \in Ring
    BY DEF KeptIn
  <2>1. n # i => Copied(r, to(n - 1), to(n)) \in Ring
    <3> HIDE DEF to
    <3> QED BY <1>2, CopiedFields
  <2> QED BY <2>1
<1>4. PICK f \in [i .. m -> Ring] : Loops(f, i, m, q, G)
  <2> HIDE DEF m, G
  <2> QED BY <1>1, <1>3, LoopExists
<1>5. ASSUME NEW n \in i .. m, n # i
      PROVE  f[n - 1] \in Ring /\ f[n] = Copied(f[n - 1], to(n - 1), to(n))
  <2>1. n - 1 \in i .. m
    BY <1>1, <1>5
  <2>2. f[n - 1] \in Ring
    BY <2>1
  <2>3. f[n] = G[n][f[n - 1]]
    BY <1>4, <1>5 DEF Loops
  <2>4. G[n][f[n - 1]] = Copied(f[n - 1], to(n - 1), to(n))
    <3> HIDE DEF to
    <3> QED BY <1>5, <2>2
  <2> QED BY <2>2, <2>3, <2>4
<1>6. f[i] = q
  <2>1. i \in i .. m
    BY <1>1
  <2> HIDE DEF G
  <2> QED BY <1>4, <2>1 DEF Loops
<1>7. \A n \in i .. m : f[n] = IF n = i THEN q ELSE Step(f[n - 1], n)
  <2> HIDE DEF to, Step
  <2> QED BY <1>2, <1>5, <1>6
<1>8. Shifts(f)
  <2> HIDE DEF Step, m
  <2> QED BY <1>7
<1> DEFINE shift == CHOOSE g : Shifts(g)
<1>9. Compacted(q, i) = [shift[m] EXCEPT !.tail  = (q.tail - 1 + MAX_ECS) % MAX_ECS,
                                         !.count = q.count - 1]
  BY DEF Compacted
<1>10. Shifts(shift)
  <2> HIDE DEF Shifts
  <2> QED BY <1>8
<1> HIDE DEF shift
<1>11. \A n \in i .. m : shift[n] = IF n = i THEN q ELSE Step(shift[n - 1], n)
  <2> HIDE DEF Step, m
  <2> QED BY <1>10
<1>12. /\ shift[i] = q
       /\ \A n \in i + 1 .. m :
             shift[n] = Copied(shift[n - 1], to(n - 1), to(n))
  <2>1. i \in i .. m /\ \A n \in i + 1 .. m : n \in i .. m /\ n # i
    BY <1>1
  <2> HIDE DEF to, Step
  <2> QED BY <1>2, <1>11, <2>1
<1>13. \A n \in i .. m : shift[n] \in Ring
  <2> DEFINE I == {n \in i .. m : shift[n] \in Ring}
  <2>1. i \in I
    BY <1>1, <1>12
  <2>2. ASSUME NEW n \in i .. m, n # i, n - 1 \in I PROVE n \in I
    <3>1. n \in i + 1 .. m
      BY <1>1, <2>2
    <3>2. shift[n] = Copied(shift[n - 1], to(n - 1), to(n))
      BY <1>12, <3>1
    <3>3. to(n - 1) \in Slot /\ to(n) \in Slot
      BY <1>2, <2>2
    <3>4. shift[n - 1] \in Ring
      BY <2>2
    <3> HIDE DEF to
    <3>5. Copied(shift[n - 1], to(n - 1), to(n)) \in Ring
      BY <3>3, <3>4, CopiedFields
    <3> QED BY <3>2, <3>5
  <2>3. i .. m \subseteq I
    <3> HIDE DEF I, m
    <3> QED BY <1>1, <2>1, <2>2, IndicesInduction
  <2> QED BY <2>3
<1>14. DOMAIN shift = i .. m /\ shift = [n \in i .. m |-> shift[n]]
  <2> HIDE DEF Step, m
  <2> QED BY <1>10
<1>15. shift \in [i .. m -> Ring]
  <2> HIDE DEF m
  <2> QED BY <1>13, <1>14
<1> QED BY <1>9, <1>12, <1>15

\* However the copies go, they leave head and tail in step with the count.
LEMMA CompactedInStep ==
  ASSUME NEW q, InStep(q), NEW i \in 0 .. q.count - 1
  PROVE  /\ InStep(Compacted(q, i))
         /\ Compacted(q, i).head = q.head
         /\ Compacted(q, i).count = q.count - 1
<1> DEFINE m == q.count - 1
<1>1. /\ q \in Ring /\ q.tail = After(q.head, q.count)
      /\ q.head \in Int /\ q.count \in Nat /\ m \in Nat /\ i \in Nat /\ i <= m
  BY RingFields DEF InStep
<1>2. PICK f \in [i .. m -> Ring] :
         /\ f[i] = q
         /\ \A n \in i + 1 .. m :
               f[n] = Copied(f[n - 1], After(q.head, n - 1), After(q.head, n))
         /\ Compacted(q, i) = [f[m] EXCEPT
                                 !.tail  = (q.tail - 1 + MAX_ECS) % MAX_ECS,
                                 !.count = m]
  BY CompactedSteps
<1>3. f[m] \in Ring /\ f[m].head = q.head
  <2> DEFINE I == {n \in i .. m : f[n].head = q.head}
  <2>1. i \in I
    BY <1>1, <1>2
  <2>2. ASSUME NEW n \in i .. m, n # i, n - 1 \in I PROVE n \in I
    <3>1. n \in i + 1 .. m /\ n \in Int /\ n - 1 \in Int
      BY <1>1, <2>2
    <3>2. After(q.head, n - 1) \in Slot /\ After(q.head, n) \in Slot
      BY <1>1, <3>1, AfterSlot
    <3>3. f[n - 1] \in Ring /\ f[n - 1].head = q.head
      BY <2>2
    <3>4. Copied(f[n - 1], After(q.head, n - 1), After(q.head, n)).head = q.head
      BY <3>2, <3>3, CopiedFields
    <3>5. f[n] = Copied(f[n - 1], After(q.head, n - 1), After(q.head, n))
      BY <1>2, <3>1
    <3> QED BY <3>4, <3>5
  <2>3. i .. m \subseteq I
    <3> HIDE DEF I, m
    <3> QED BY <1>1, <2>1, <2>2, IndicesInduction
  <2>4. m \in i .. m
    BY <1>1
  <2> QED BY <2>3, <2>4
<1>4. /\ (q.tail - 1 + MAX_ECS) % MAX_ECS \in Slot
      /\ (q.tail - 1 + MAX_ECS) % MAX_ECS = After(q.head, m)
  <2> DEFINE k == (q.tail - 1) + MAX_ECS
  <2>1. q.tail \in Int /\ k \in Int /\ MAX_ECS \in Int /\ q.count - 1 + MAX_ECS \in Int
    BY <1>1, RingFields, QueueAssumption DEF Slot
  <2> DEFINE w == MAX_ECS - 1
  <2>2. k % MAX_ECS = After(q.tail, w)
    <3>1. q.tail + w = k
      BY <2>1
    <3> QED BY <3>1 DEF After
  <2>3. After(q.tail, w) = After(q.head, q.count + w)
    <3>1. w \in Int /\ q.count \in Int
      BY <1>1, <2>1
    <3> HIDE DEF w
    <3>2. After(After(q.head, q.count), w) = After(q.head, q.count + w)
      BY <1>1, <3>1, AfterAfter
    <3> QED BY <1>1, <3>2
  <2>4. After(q.head, q.count + w) = After(q.head, m)
    <3> DEFINE x == q.head + m
               d == x \div MAX_ECS
               r == x % MAX_ECS
    <3>1. x \in Int /\ q.head + (q.count + w) = x + MAX_ECS
      <4> DEFINE h == q.head
                 n == q.count
      <4>1. h \in Int /\ n \in Int /\ MAX_ECS \in Int
        BY <1>1, <2>1
      <4>2. x = h + (n - 1) /\ w = MAX_ECS - 1
        OBVIOUS
      <4> HIDE DEF h, n, x, w
      <4>3. x \in Int /\ h + (n + w) = x + MAX_ECS
        BY <4>1, <4>2
      <4> QED BY <4>3 DEF h, n
    <3>2. d \in Int /\ r \in Slot /\ x = d * MAX_ECS + r
      BY <3>1, Division
    <3>3. r \in Int
      BY <3>2, QueueAssumption DEF Slot
    <3>4. After(q.head, m) = r
      BY DEF After
    <3>5. After(q.head, q.count + w) = (x + MAX_ECS) % MAX_ECS
      BY <3>1 DEF After
    <3> HIDE DEF x, d, r
    <3>6. x + MAX_ECS = (d + 1) * MAX_ECS + r /\ d + 1 \in Int /\ x + MAX_ECS \in Int
      BY <3>1, <3>2, <3>3, QueueAssumption
    <3>7. (x + MAX_ECS) % MAX_ECS = r
      BY <3>2, <3>6, Remainder
    <3> QED BY <3>4, <3>5, <3>7
  <2>5. k % MAX_ECS \in Slot
    BY <2>1, Division
  <2> QED BY <2>2, <2>3, <2>4, <2>5
<1> DEFINE t == (q.tail - 1 + MAX_ECS) % MAX_ECS
           c == [f[m] EXCEPT !.tail = t, !.count = m]
<1> HIDE DEF t, m
<1>5. /\ c \in Ring /\ c.head = q.head /\ c.tail = t /\ c.count = m
  BY <1>1, <1>3, <1>4 DEF Ring, t
<1> HIDE DEF c
<1>6. Compacted(q, i) = c
  BY <1>2 DEF t, c
<1> QED BY <1>4, <1>5, <1>6 DEF InStep, t, m

\* The scan stops within the turns it makes.
LEMMA FirstStop ==
  ASSUME NEW q, InStep(q), Stops(q) # {}
  PROVE  /\ FirstOf(Stops(q)) \in 0 .. q.count - 1
         /\ FirstOf(Stops(q)) \in Stops(q)
         /\ \A t \in Stops(q) : FirstOf(Stops(q)) <= t
<1>1. q.count \in Nat
  BY RingFields DEF InStep
<1>2. Stops(q) \in SUBSET Nat
  BY <1>1 DEF Stops
<1>3. /\ FirstOf(Stops(q)) \in Stops(q)
      /\ \A t \in Stops(q) : FirstOf(Stops(q)) <= t
  BY <1>2, FirstOfExists
<1> QED BY <1>3 DEF Stops

\* The ring the scan leaves and the EC it takes.
LEMMA TakenInStep ==
  ASSUME NEW q, InStep(q), Stops(q) # {}
  PROVE  LET r == Turned(q)[FirstOf(Stops(q))] IN
         /\ InStep(r) /\ r.count = q.count
         /\ InStep(Taken(q).ring)
         /\ Taken(q).ring.head = After(r.head, 1)
         /\ Taken(q).ring.count = q.count - 1
         /\ Taken(q).ring.slots = r.slots
         /\ Taken(q).ring.blocked = r.blocked
         /\ Taken(q).ec = r.slots[r.head]
         /\ Taken(q).ec \in EC \cup {NULL}
<1> DEFINE t == FirstOf(Stops(q))
           r == Turned(q)[t]
           ring == [r EXCEPT !.head = After(r.head, 1), !.count = r.count - 1]
<1>1. t \in 0 .. q.count - 1 /\ q.count \in Nat
  BY FirstStop, RingFields DEF InStep
<1>2. t \in 0 .. q.count /\ q.count > 0
  BY <1>1
<1>3. InStep(r) /\ r.count = q.count
  <2> HIDE DEF t
  <2> QED BY <1>2, TurnedSteps
<1>4. Taken(q).ring = ring /\ Taken(q).ec = r.slots[r.head]
  BY DEF Taken
<1> HIDE DEF r
<1>5. /\ InStep(ring) /\ ring.head = After(r.head, 1) /\ ring.count = r.count - 1
      /\ ring.slots = r.slots /\ ring.blocked = r.blocked
  BY <1>2, <1>3, AdvanceInStep
<1>6. r.slots[r.head] \in EC \cup {NULL}
  BY <1>3, RingFields DEF InStep
<1> HIDE DEF ring
<1>7. /\ InStep(r) /\ r.count = q.count
      /\ InStep(Taken(q).ring)
      /\ Taken(q).ring.head = After(r.head, 1)
      /\ Taken(q).ring.count = q.count - 1
      /\ Taken(q).ring.slots = r.slots
      /\ Taken(q).ring.blocked = r.blocked
      /\ Taken(q).ec = r.slots[r.head]
      /\ Taken(q).ec \in EC \cup {NULL}
  BY <1>3, <1>4, <1>5, <1>6
<1> QED BY <1>7 DEF r

\* The rings, one per priority, each in step.
AllInStep(rs) == rs \in [Levels -> Ring] /\ \A p \in Levels : InStep(rs[p])

\* The scan over all of them.
LEMMA ScanInStep ==
  ASSUME NEW rs, AllInStep(rs), NEW prio, NEW halt \in Halts, Scan(rs, prio, halt)
  PROVE  /\ AllInStep(rings')
         /\ current_ec' \in EC \cup {NULL}
         /\ priority' = prio
         /\ halted' \in Halts
<1> DEFINE ready == {p \in Levels : Stops(rs[p]) # {}}
           p == FirstOf(ready)
<1>1. ready # {} => p \in Levels /\ Stops(rs[p]) # {}
  <2>1. ready \in SUBSET Nat
    BY QueueAssumption DEF Levels
  <2>2. ready # {} => p \in ready
    <3> HIDE DEF ready
    <3> QED BY <2>1, FirstOfExists
  <2> QED BY <2>2
<1>2. /\ halted' = IF ready = {} THEN "no ECs to run" ELSE halt
      /\ current_ec' = IF ready = {} THEN NULL ELSE Taken(rs[p]).ec
      /\ rings' = [r \in Levels |->
                      IF ready # {} /\ r > p THEN rs[r]
                      ELSE IF ready # {} /\ r = p THEN Taken(rs[r]).ring
                      ELSE Turned(rs[r])[rs[r].count]]
      /\ priority' = prio
  BY DEF Scan
<1> HIDE DEF ready, p
<1>3. ready # {} => InStep(Taken(rs[p]).ring) /\ Taken(rs[p]).ec \in EC \cup {NULL}
  BY <1>1, TakenInStep DEF AllInStep
<1>4. ASSUME NEW r \in Levels PROVE InStep(Turned(rs[r])[rs[r].count])
  <2>1. rs[r].count \in 0 .. rs[r].count
    BY RingFields DEF AllInStep
  <2> QED BY <2>1, TurnedSteps DEF AllInStep
<1>5. \A r \in Levels : InStep(rings'[r])
  BY <1>2, <1>3, <1>4 DEF AllInStep
<1>6. rings' \in [Levels -> Ring]
  BY <1>2, <1>5 DEF InStep
<1> QED BY <1>2, <1>3, <1>5, <1>6 DEF AllInStep, Halts

\* Changing flags moves nothing.
LEMMA FlagsInStep ==
  ASSUME NEW q, InStep(q), NEW y \in [Slot -> BOOLEAN]
  PROVE  LET r == [q EXCEPT !.blocked = y] IN
         /\ InStep(r) /\ r.head = q.head /\ r.tail = q.tail /\ r.count = q.count
         /\ r.slots = q.slots /\ r.blocked = y
BY DEF InStep, Ring

\* An EC found in a ring is at the first place that names it.
LEMMA FirstFound ==
  ASSUME NEW q, InStep(q), NEW e, Found(q, e) # {}
  PROVE  /\ FirstOf(Found(q, e)) \in 0 .. q.count - 1
         /\ FirstOf(Found(q, e)) \in Found(q, e)
         /\ \A t \in Found(q, e) : FirstOf(Found(q, e)) <= t
         /\ After(q.head, FirstOf(Found(q, e))) \in Slot
<1>1. q.count \in Nat /\ q.head \in Int
  BY RingFields DEF InStep
<1>2. Found(q, e) \in SUBSET Nat
  BY <1>1 DEF Found
<1>3. /\ FirstOf(Found(q, e)) \in Found(q, e)
      /\ \A t \in Found(q, e) : FirstOf(Found(q, e)) <= t
  BY <1>2, FirstOfExists
<1>4. FirstOf(Found(q, e)) \in 0 .. q.count - 1
  BY <1>3 DEF Found
<1>5. FirstOf(Found(q, e)) \in Int
  BY <1>4
<1> QED BY <1>1, <1>3, <1>4, <1>5, AfterSlot

\* What block() and unblock() do to the ring of e's priority.
LEMMA SetFlagRings ==
  ASSUME AllInStep(rings), priority \in [EC -> Levels], NEW e \in EC,
         NEW b \in BOOLEAN
  PROVE  LET q == rings[priority[e]]
             k == After(q.head, FirstOf(Found(q, e)))
             r == [q EXCEPT !.blocked = [q.blocked EXCEPT ![k] = b]]
         IN  /\ InStep(q)
             /\ Found(q, e) = {} => SetFlag(e, b) = rings
             /\ Found(q, e) # {} =>
                   /\ k \in Slot /\ InStep(r)
                   /\ SetFlag(e, b) = [rings EXCEPT ![priority[e]] = r]
<1> DEFINE p == priority[e]
           q == rings[p]
           k == After(q.head, FirstOf(Found(q, e)))
           y == [q.blocked EXCEPT ![k] = b]
           r == [q EXCEPT !.blocked = y]
<1>1. p \in Levels /\ InStep(q)
  BY DEF AllInStep
<1>2. ASSUME Found(q, e) # {}
      PROVE  k \in Slot /\ InStep(r) /\ SetFlag(e, b) = [rings EXCEPT ![p] = r]
  <2>1. k \in Slot
    BY <1>1, <1>2, FirstFound
  <2>2. SetFlag(e, b) = [rings EXCEPT ![p].blocked[k] = b]
    BY <1>2 DEF SetFlag
  <2>3. y \in [Slot -> BOOLEAN]
    <3> HIDE DEF k, q
    <3> QED BY <1>1, <2>1, RingFields DEF InStep
  <2>4. InStep(r)
    <3> HIDE DEF y, q
    <3> QED BY <1>1, <2>3, FlagsInStep
  <2>5. [rings EXCEPT ![p].blocked[k] = b] = [rings EXCEPT ![p] = r]
    OBVIOUS
  <2> HIDE DEF p, k, r
  <2> QED BY <2>1, <2>2, <2>4, <2>5
<1>3. Found(q, e) = {} => SetFlag(e, b) = rings
  BY DEF SetFlag
<1> QED BY <1>1, <1>2, <1>3

\* Replacing one ring by another that is in step.
LEMMA RingReplaced ==
  ASSUME NEW rs, AllInStep(rs), NEW p \in Levels, NEW r, InStep(r)
  PROVE  AllInStep([rs EXCEPT ![p] = r])
BY DEF AllInStep, InStep

\* unblock_all() on one ring.
Cleared(q) == [q EXCEPT !.blocked = [k \in Slot |->
                 IF \E i \in 0 .. q.count - 1 : k = After(q.head, i)
                 THEN FALSE ELSE q.blocked[k]]]

LEMMA ClearedInStep ==
  ASSUME NEW q, InStep(q)
  PROVE  /\ InStep(Cleared(q))
         /\ Cleared(q).head = q.head /\ Cleared(q).count = q.count
         /\ Cleared(q).slots = q.slots
         /\ \A i \in 0 .. q.count - 1 : Cleared(q).blocked[After(q.head, i)] = FALSE
<1> DEFINE y == [k \in Slot |->
                   IF \E i \in 0 .. q.count - 1 : k = After(q.head, i)
                   THEN FALSE ELSE q.blocked[k]]
<1>1. q \in Ring /\ q.head \in Int /\ q.count \in Nat
  BY RingFields DEF InStep
<1>2. y \in [Slot -> BOOLEAN]
  BY <1>1, RingFields
<1>3. ASSUME NEW i \in 0 .. q.count - 1 PROVE y[After(q.head, i)] = FALSE
  <2>1. i \in Int
    BY <1>1
  <2>2. After(q.head, i) \in Slot
    BY <1>1, <2>1, AfterSlot
  <2> QED BY <2>2
<1>4. Cleared(q) = [q EXCEPT !.blocked = y]
  BY DEF Cleared
<1> DEFINE r == [q EXCEPT !.blocked = y]
<1> HIDE DEF y
<1>5. InStep(r) /\ r.head = q.head /\ r.count = q.count /\ r.slots = q.slots /\ r.blocked = y
  BY <1>2, FlagsInStep
<1> HIDE DEF r
<1> QED BY <1>3, <1>4, <1>5 DEF r

-----------------------------------------------------------------------------
\* The geometry of the rings.

\* The inductive invariant of the two that module Scheduler states.
Geometry == /\ AllInStep(rings)
            /\ current_ec \in EC \cup {NULL}
            /\ priority \in [EC -> Levels]
            /\ halted \in Halts
            /\ created \in SUBSET EC

LEMMA InitGeometry == Init => Geometry
<1> SUFFICES ASSUME Init PROVE Geometry
  OBVIOUS
<1>1. 0 \in Slot /\ 0 \in Levels
  BY QueueAssumption DEF Slot, Levels
<1>2. InStep(EmptyRing)
  <2>1. EmptyRing \in Ring
    BY <1>1 DEF EmptyRing, Ring
  <2>2. After(0, 0) = 0
    BY <1>1, SlotIsItself
  <2> QED BY <2>1, <2>2 DEF InStep, EmptyRing
<1>3. AllInStep(rings)
  BY <1>2 DEF Init, AllInStep, InStep
<1> QED BY <1>1, <1>3 DEF Init, Geometry, Halts

\* The running EC back at the tail of its ring.
LEMMA CurrentPushed ==
  ASSUME Geometry, Up, NEW b \in BOOLEAN
  PROVE  /\ current_ec \in EC /\ priority[current_ec] \in Levels
         /\ AllInStep(PushCurrent(b))
         /\ PushCurrent(b) = [rings EXCEPT ![priority[current_ec]] =
                                 Push(rings[priority[current_ec]], current_ec, b)]
<1>1. current_ec \in EC /\ priority[current_ec] \in Levels
  BY DEF Geometry, Up
<1>2. InStep(rings[priority[current_ec]])
  BY <1>1 DEF Geometry, AllInStep
<1>3. InStep(Push(rings[priority[current_ec]], current_ec, b))
  BY <1>1, <1>2, PushInStep
<1>4. PushCurrent(b) = [rings EXCEPT ![priority[current_ec]] =
                           Push(rings[priority[current_ec]], current_ec, b)]
  BY DEF PushCurrent
<1> DEFINE r == Push(rings[priority[current_ec]], current_ec, b)
           p == priority[current_ec]
<1> HIDE DEF r, p
<1>5. AllInStep([rings EXCEPT ![p] = r])
  BY <1>1, <1>3, RingReplaced DEF Geometry, r, p
<1> QED BY <1>1, <1>4, <1>5 DEF r, p

LEMMA NextGeometry == Geometry /\ [Next]_vars => Geometry'
<1> SUFFICES ASSUME Geometry, [Next]_vars PROVE Geometry'
  OBVIOUS
<1>0. AllInStep(rings) /\ priority \in [EC -> Levels] /\ created \in SUBSET EC
      /\ halted \in Halts
  BY DEF Geometry
<1>1. ASSUME NEW e \in EC, NEW prio \in Levels, Schedule(e, prio)
      PROVE  Geometry'
  <2> DEFINE given == [priority EXCEPT ![e] = prio]
             pushed == [rings EXCEPT ![prio] = Push(rings[prio], e, FALSE)]
  <2>1. given \in [EC -> Levels] /\ e \in EC \cup {NULL} /\ FALSE \in BOOLEAN
    BY <1>0
  <2>2. AllInStep(pushed)
    <3>1. InStep(rings[prio])
      BY <1>0 DEF AllInStep
    <3>2. InStep(Push(rings[prio], e, FALSE))
      BY <2>1, <3>1, PushInStep
    <3> QED BY <1>0, <3>2, RingReplaced
  <2>3. CASE rings[prio].count >= MAX_ECS
    BY <1>1, <2>1, <2>3 DEF Schedule, Geometry, Halts
  <2>4. CASE ~(rings[prio].count >= MAX_ECS) /\ current_ec = NULL
    <3>1. Scan(pushed, given, halted) /\ created' = created \cup {e}
      BY <1>1, <2>4 DEF Schedule
    <3> HIDE DEF pushed, given
    <3> QED BY <1>0, <2>1, <2>2, <3>1, ScanInStep DEF Geometry
  <2>5. CASE ~(rings[prio].count >= MAX_ECS) /\ current_ec # NULL
    <3>1. /\ rings' = pushed /\ priority' = given /\ created' = created \cup {e}
          /\ UNCHANGED <<current_ec, halted>>
      BY <1>1, <2>5 DEF Schedule
    <3> HIDE DEF pushed, given
    <3> QED BY <1>0, <2>1, <2>2, <3>1 DEF Geometry
  <2> QED BY <2>3, <2>4, <2>5
<1>2. CASE Yield
  <2>1. Scan(PushCurrent(FALSE), priority, halted) /\ UNCHANGED created /\ Up
    BY <1>2 DEF Yield
  <2>2. AllInStep(PushCurrent(FALSE))
    BY <2>1, CurrentPushed
  <2> QED BY <1>0, <2>1, <2>2, ScanInStep DEF Geometry
<1>3. CASE UnblockAll
  <2>1. /\ rings' = [p \in Levels |-> Cleared(rings[p])]
        /\ UNCHANGED <<current_ec, priority, halted, created>>
    BY <1>3 DEF UnblockAll, Cleared
  <2>2. \A p \in Levels : InStep(Cleared(rings[p]))
    BY <1>0, ClearedInStep DEF AllInStep
  <2>3. AllInStep(rings')
    BY <2>1, <2>2 DEF AllInStep, InStep
  <2> QED BY <2>1, <2>3 DEF Geometry
<1>4. ASSUME NEW e \in created, NEW b \in BOOLEAN, rings' = SetFlag(e, b),
             UNCHANGED <<current_ec, priority, halted, created>>
      PROVE  Geometry'
  <2>1. e \in EC /\ priority[e] \in Levels
    BY <1>0
  <2>2. AllInStep(SetFlag(e, b))
    <3> DEFINE q == rings[priority[e]]
               k == After(q.head, FirstOf(Found(q, e)))
               r == [q EXCEPT !.blocked = [q.blocked EXCEPT ![k] = b]]
    <3>1. /\ Found(q, e) = {} => SetFlag(e, b) = rings
          /\ Found(q, e) # {} => /\ InStep(r)
                                /\ SetFlag(e, b) = [rings EXCEPT ![priority[e]] = r]
      BY <1>0, <2>1, SetFlagRings
    <3> HIDE DEF q, r
    <3>2. Found(q, e) # {} => AllInStep([rings EXCEPT ![priority[e]] = r])
      BY <1>0, <2>1, <3>1, RingReplaced
    <3> QED BY <1>0, <3>1, <3>2
  <2> QED BY <1>4, <2>2 DEF Geometry
<1>5. ASSUME NEW e \in created, Block(e) PROVE Geometry'
  <2>1. CASE e = current_ec
    <3>1. Scan(PushCurrent(TRUE), priority, halted) /\ UNCHANGED created /\ Up
      BY <1>5, <2>1 DEF Block
    <3>2. AllInStep(PushCurrent(TRUE))
      BY <3>1, CurrentPushed
    <3> QED BY <1>0, <3>1, <3>2, ScanInStep DEF Geometry
  <2>2. CASE e # current_ec
    <3>1. /\ rings' = SetFlag(e, TRUE)
          /\ UNCHANGED <<current_ec, priority, halted, created>>
      BY <1>5, <2>2 DEF Block
    <3> QED BY <1>4, <3>1
  <2> QED BY <2>1, <2>2
<1>6. ASSUME NEW e \in created, Unblock(e) PROVE Geometry'
  BY <1>4, <1>6 DEF Unblock
<1>7. ASSUME NEW e \in created, NEW prio \in Levels, Reprioritize(e, prio)
      PROVE  Geometry'
  <2> DEFINE p == priority[e]
             q == rings[p]
             i == FirstOf(Found(q, e))
             b == q.blocked[After(q.head, i)]
             removed == [rings EXCEPT ![p] = Compacted(q, i)]
             new == Push(rings[prio], e, b)
  <2>1. /\ e \in EC /\ p \in Levels /\ prio # p /\ InStep(q) /\ InStep(rings[prio])
        /\ priority' \in [EC -> Levels]
        /\ UNCHANGED <<current_ec, halted, created>>
    BY <1>0, <1>7 DEF Reprioritize, AllInStep
  <2>2. CASE Found(q, e) = {}
    <3>1. rings' = rings
      BY <1>7, <2>2 DEF Reprioritize
    <3> QED BY <1>0, <2>1, <3>1 DEF Geometry
  <2>3. CASE Found(q, e) # {}
    <3>1. i \in 0 .. q.count - 1 /\ After(q.head, i) \in Slot
      BY <2>1, <2>3, FirstFound
    <3>2. b \in BOOLEAN
      BY <2>1, <3>1, RingFields DEF InStep
    <3>3. AllInStep(removed)
      <4>1. InStep(Compacted(q, i))
        BY <2>1, <3>1, CompactedInStep
      <4> QED BY <1>0, <2>1, <4>1, RingReplaced
    <3>4. InStep(new)
      <4> HIDE DEF b
      <4> QED BY <2>1, <3>2, PushInStep
    <3>5. rings' = [removed EXCEPT ![prio] = new]
      BY <1>0, <1>7, <2>1, <2>3 DEF Reprioritize, AllInStep
    <3> HIDE DEF removed, new
    <3>6. AllInStep(rings')
      BY <3>3, <3>4, <3>5, RingReplaced
    <3> QED BY <1>0, <2>1, <3>6 DEF Geometry
  <2> QED BY <2>2, <2>3
<1>8. CASE UNCHANGED vars
  BY <1>8 DEF vars, Geometry
<1> QED BY <1>1, <1>2, <1>3, <1>5, <1>6, <1>7, <1>8 DEF Next

\* The rings keep their geometry, however many ECs there are.
THEOREM GeometryHolds == Spec => []Geometry
BY InitGeometry, NextGeometry, PTL DEF Spec

\* The scheduler's fields have the types of scheduler.h:11-18, whatever its
\* callers do.
THEOREM TypeCorrect == Spec => []TypeOK
<1>1. Geometry => TypeOK
  BY DEF Geometry, AllInStep, TypeOK
<1> QED BY <1>1, GeometryHolds, PTL

\* head, tail and count of a ring never contradict one another, not even when
\* unchecked enqueues (scheduler.cc:22-27, 69-72, 124-128) have filled it
\* beyond its slots.
THEOREM RingsInStep == Spec => []RingGeometry
<1>1. Geometry => RingGeometry
  BY DEF Geometry, AllInStep, InStep, RingGeometry
<1> QED BY <1>1, GeometryHolds, PTL

-----------------------------------------------------------------------------
\* Rings that hold no more entries than slots, read from the head on.

EcAt(q, j) == q.slots[After(q.head, j)]
FlagAt(q, j) == q.blocked[After(q.head, j)]

Fits(q) == InStep(q) /\ q.count <= MAX_ECS

\* A turn brings the entry of the head to the end.
LEMMA RotateEntries ==
  ASSUME NEW q, Fits(q), q.count > 0
  PROVE  /\ Fits(Rotate(q)) /\ Rotate(q).count = q.count
         /\ \A j \in 0 .. q.count - 1 :
               /\ EcAt(Rotate(q), j) =
                     IF j = q.count - 1 THEN EcAt(q, 0) ELSE EcAt(q, j + 1)
               /\ FlagAt(Rotate(q), j) =
                     IF j = q.count - 1 THEN TRUE ELSE FlagAt(q, j + 1)
<1> DEFINE r == Rotate(q)
           n == q.count
           h == q.head
<1>1. /\ q \in Ring /\ h \in Slot /\ h \in Int /\ n \in Nat /\ n > 0 /\ n <= MAX_ECS
      /\ q.slots \in [Slot -> EC \cup {NULL}] /\ q.blocked \in [Slot -> BOOLEAN]
      /\ q.tail = After(h, n) /\ q.tail \in Slot
  BY RingFields DEF Fits, InStep
<1>2. /\ InStep(r) /\ r.head = After(h, 1) /\ r.count = n
      /\ r.slots = [q.slots EXCEPT ![q.tail] = q.slots[h]]
      /\ r.blocked = [q.blocked EXCEPT ![q.tail] = TRUE]
  BY RotateInStep DEF Fits
<1> HIDE DEF r, n, h
<1>3. ASSUME NEW j \in 0 .. n - 1
      PROVE  /\ EcAt(r, j) = IF j = n - 1 THEN EcAt(q, 0) ELSE EcAt(q, j + 1)
             /\ FlagAt(r, j) = IF j = n - 1 THEN TRUE ELSE FlagAt(q, j + 1)
  <2>1. /\ j \in Int /\ j \in Slot /\ j + 1 \in Int /\ 1 + j = j + 1
        /\ n - 1 \in Int /\ n - 1 \in Slot /\ 1 + (n - 1) = n /\ 1 \in Int
    BY <1>1, QueueAssumption DEF Slot
  <2>2. After(r.head, j) = After(h, j + 1) /\ After(r.head, n - 1) = q.tail
    <3>1. After(After(h, 1), j) = After(h, 1 + j)
      BY <1>1, <2>1, AfterAfter
    <3>2. After(After(h, 1), n - 1) = After(h, 1 + (n - 1))
      BY <1>1, <2>1, AfterAfter
    <3> QED BY <1>1, <1>2, <2>1, <3>1, <3>2
  <2>3. After(h, j + 1) \in Slot /\ r.head \in Int
    BY <1>1, <1>2, <2>1, AfterSlot, RingFields DEF InStep
  <2>4. CASE j = n - 1
    <3>1. EcAt(r, j) = q.slots[h] /\ FlagAt(r, j) = TRUE
      BY <1>1, <1>2, <2>2, <2>4 DEF EcAt, FlagAt
    <3>2. EcAt(q, 0) = q.slots[h]
      BY <1>1, SlotIsItself DEF EcAt, h
    <3> QED BY <2>4, <3>1, <3>2
  <2>5. CASE j # n - 1
    <3>1. After(r.head, j) # q.tail
      BY <2>1, <2>2, <2>3, <2>5, AfterInjective
    <3>2. EcAt(r, j) = q.slots[After(h, j + 1)] /\ FlagAt(r, j) = q.blocked[After(h, j + 1)]
      BY <1>1, <1>2, <2>2, <2>3, <3>1 DEF EcAt, FlagAt
    <3> QED BY <2>5, <3>2 DEF EcAt, FlagAt, h
  <2> QED BY <2>4, <2>5
<1> QED BY <1>1, <1>2, <1>3 DEF Fits, r, n

\* After t turns the first t entries follow the others, blocked: at place j is
\* what was at place j + t, or j + t - count.
LEMMA TurnedEntries ==
  ASSUME NEW q, Fits(q), NEW t \in 0 .. q.count
  PROVE  LET r == Turned(q)[t] IN
         /\ Fits(r) /\ r.count = q.count
         /\ \A j, k \in 0 .. q.count - 1 :
               /\ k = j + t => EcAt(r, j) = EcAt(q, k) /\ FlagAt(r, j) = FlagAt(q, k)
               /\ k = j + t - q.count => EcAt(r, j) = EcAt(q, k) /\ FlagAt(r, j) = TRUE
<1> DEFINE n == q.count
           T == Turned(q)
           At(r, u) == \A j, k \in 0 .. n - 1 :
               /\ k = j + u => EcAt(r, j) = EcAt(q, k) /\ FlagAt(r, j) = FlagAt(q, k)
               /\ k = j + u - n => EcAt(r, j) = EcAt(q, k) /\ FlagAt(r, j) = TRUE
           I == {u \in 0 .. n : At(T[u], u)}
<1>1. n \in Nat /\ n <= MAX_ECS /\ InStep(q)
  BY RingFields DEF Fits, InStep
<1>2. /\ T[0] = q /\ \A u \in 1 .. n : T[u] = Rotate(T[u - 1])
      /\ \A u \in 0 .. n : Fits(T[u]) /\ T[u].count = n
  BY <1>1, TurnedSteps DEF Fits
<1> HIDE DEF T, n
<1>3. At(q, 0)
  <2> SUFFICES ASSUME NEW j \in 0 .. n - 1, NEW k \in 0 .. n - 1
               PROVE  (k = j + 0 => k = j) /\ ~(k = j + 0 - n)
    OBVIOUS
  <2> QED BY <1>1
<1>4. ASSUME NEW u \in 0 .. n, u # 0, At(T[u - 1], u - 1) PROVE At(T[u], u)
  <2>1. /\ u \in 1 .. n /\ u - 1 \in 0 .. n /\ T[u] = Rotate(T[u - 1])
    BY <1>1, <1>2, <1>4
  <2>2. Fits(T[u - 1]) /\ T[u - 1].count = n /\ n > 0
    BY <1>1, <1>2, <2>1
  <2> DEFINE p == T[u - 1]
             r == T[u]
  <2>3. \A j \in 0 .. n - 1 :
           /\ EcAt(r, j) = IF j = n - 1 THEN EcAt(p, 0) ELSE EcAt(p, j + 1)
           /\ FlagAt(r, j) = IF j = n - 1 THEN TRUE ELSE FlagAt(p, j + 1)
    BY <2>1, <2>2, RotateEntries
  <2>4. \A j, k \in 0 .. n - 1 :
           /\ k = j + (u - 1) => EcAt(p, j) = EcAt(q, k) /\ FlagAt(p, j) = FlagAt(q, k)
           /\ k = j + (u - 1) - n => EcAt(p, j) = EcAt(q, k) /\ FlagAt(p, j) = TRUE
    BY <1>4
  <2> HIDE DEF p, r
  <2>5. ASSUME NEW j \in 0 .. n - 1, NEW k \in 0 .. n - 1
        PROVE  /\ k = j + u => EcAt(r, j) = EcAt(q, k) /\ FlagAt(r, j) = FlagAt(q, k)
               /\ k = j + u - n => EcAt(r, j) = EcAt(q, k) /\ FlagAt(r, j) = TRUE
    <3>1. CASE j = n - 1
      <4>1. 0 \in 0 .. n - 1 /\ k # j + u /\ (k = j + u - n => k = 0 + (u - 1))
        BY <1>1, <2>1, <3>1
      <4> QED BY <2>3, <2>4, <3>1, <4>1
    <3>2. CASE j # n - 1
      <4>1. /\ j + 1 \in 0 .. n - 1
            /\ k = j + u => k = (j + 1) + (u - 1)
            /\ k = j + u - n => k = (j + 1) + (u - 1) - n
        BY <1>1, <2>1, <3>2
      <4>2. EcAt(r, j) = EcAt(p, j + 1) /\ FlagAt(r, j) = FlagAt(p, j + 1)
        BY <2>3, <3>2
      <4> QED BY <2>4, <4>1, <4>2
    <3> QED BY <3>1, <3>2
  <2> QED BY <2>5 DEF r
<1>5. 0 .. n \subseteq I
  <2>1. 0 \in I
    <3> HIDE DEF At
    <3> QED BY <1>1, <1>2, <1>3
  <2>2. \A u \in 0 .. n : u # 0 /\ u - 1 \in I => u \in I
    <3> HIDE DEF At
    <3> QED BY <1>4
  <2> HIDE DEF I
  <2> QED BY <1>1, <2>1, <2>2, IndicesInduction
<1>6. At(T[t], t) /\ Fits(T[t]) /\ T[t].count = n
  <2>1. t \in 0 .. n
    BY DEF n
  <2> HIDE DEF At
  <2> QED BY <1>2, <1>5, <2>1
<1> QED BY <1>6 DEF T, n

\* An enqueue into a ring with a free slot goes behind the other entries.
LEMMA PushEntries ==
  ASSUME NEW q, Fits(q), q.count < MAX_ECS, NEW e \in EC \cup {NULL}, NEW b \in BOOLEAN
  PROVE  /\ Fits(Push(q, e, b)) /\ Push(q, e, b).count = q.count + 1
         /\ EcAt(Push(q, e, b), q.count) = e /\ FlagAt(Push(q, e, b), q.count) = b
         /\ \A j \in 0 .. q.count - 1 :
               /\ EcAt(Push(q, e, b), j) = EcAt(q, j)
               /\ FlagAt(Push(q, e, b), j) = FlagAt(q, j)
<1> DEFINE r == Push(q, e, b)
           n == q.count
           h == q.head
<1>1. /\ q \in Ring /\ h \in Slot /\ h \in Int /\ n \in Nat /\ n < MAX_ECS
      /\ q.slots \in [Slot -> EC \cup {NULL}] /\ q.blocked \in [Slot -> BOOLEAN]
      /\ q.tail = After(h, n) /\ q.tail \in Slot
  BY RingFields DEF Fits, InStep
<1>2. /\ InStep(r) /\ r.head = h /\ r.count = n + 1
      /\ r.slots = [q.slots EXCEPT ![q.tail] = e]
      /\ r.blocked = [q.blocked EXCEPT ![q.tail] = b]
  BY PushInStep DEF Fits
<1> HIDE DEF r, n, h
<1>3. Fits(r)
  BY <1>1, <1>2, QueueAssumption DEF Fits
<1>4. EcAt(r, n) = e /\ FlagAt(r, n) = b
  BY <1>1, <1>2 DEF EcAt, FlagAt
<1>5. ASSUME NEW j \in 0 .. n - 1
      PROVE  EcAt(r, j) = EcAt(q, j) /\ FlagAt(r, j) = FlagAt(q, j)
  <2>1. j \in Slot /\ j \in Int /\ n \in Slot /\ j # n
    BY <1>1, QueueAssumption DEF Slot
  <2>2. After(h, j) # q.tail /\ After(h, j) \in Slot
    BY <1>1, <2>1, AfterInjective, AfterSlot
  <2> QED BY <1>1, <1>2, <2>2 DEF EcAt, FlagAt, h
<1> QED BY <1>2, <1>3, <1>4, <1>5 DEF r, n

\* The compaction closes the gap and keeps the order.
LEMMA CompactedEntries ==
  ASSUME NEW q, Fits(q), NEW i \in 0 .. q.count - 1
  PROVE  /\ Fits(Compacted(q, i)) /\ Compacted(q, i).count = q.count - 1
         /\ \A j \in 0 .. q.count - 2 :
               /\ EcAt(Compacted(q, i), j) = IF j < i THEN EcAt(q, j) ELSE EcAt(q, j + 1)
               /\ FlagAt(Compacted(q, i), j) =
                     IF j < i THEN FlagAt(q, j) ELSE FlagAt(q, j + 1)
<1> DEFINE m == q.count - 1
           h == q.head
           c == Compacted(q, i)
<1>1. /\ InStep(q) /\ q \in Ring /\ h \in Int /\ q.count \in Nat /\ q.count <= MAX_ECS
      /\ m \in Nat /\ i \in Nat /\ i <= m /\ m < MAX_ECS
  BY RingFields, QueueAssumption DEF Fits, InStep
<1>2. PICK f \in [i .. m -> Ring] :
         /\ f[i] = q
         /\ \A n \in i + 1 .. m : f[n] = Copied(f[n - 1], After(h, n - 1), After(h, n))
         /\ c = [f[m] EXCEPT !.tail  = (q.tail - 1 + MAX_ECS) % MAX_ECS,
                             !.count = m]
  BY <1>1, CompactedSteps
<1>3. InStep(c) /\ c.head = h /\ c.count = m
  BY <1>1, CompactedInStep
<1> DEFINE Shifted(r, n) == \A j \in 0 .. m :
              /\ r.slots[After(h, j)] =
                    IF i <= j /\ j < n THEN EcAt(q, j + 1) ELSE EcAt(q, j)
              /\ r.blocked[After(h, j)] =
                    IF i <= j /\ j < n THEN FlagAt(q, j + 1) ELSE FlagAt(q, j)
           I == {n \in i .. m : Shifted(f[n], n)}
<1> HIDE DEF m
<1>4. Shifted(q, i)
  <2> SUFFICES ASSUME NEW j \in 0 .. m
               PROVE  /\ ~(i <= j /\ j < i)
                      /\ q.slots[After(h, j)] = EcAt(q, j)
                      /\ q.blocked[After(h, j)] = FlagAt(q, j)
    OBVIOUS
  <2> QED BY <1>1 DEF EcAt, FlagAt
<1> HIDE DEF h, c
<1>5. ASSUME NEW n \in i .. m, n # i, Shifted(f[n - 1], n - 1) PROVE Shifted(f[n], n)
  <2> DEFINE r == f[n - 1]
  <2>1. /\ n \in i + 1 .. m /\ n \in Nat /\ n - 1 \in i .. m /\ n - 1 \in Nat /\ n <= m
        /\ n \in Slot /\ n - 1 \in Slot
    BY <1>1, <1>5, QueueAssumption DEF Slot
  <2>2. After(h, n - 1) \in Slot /\ After(h, n) \in Slot /\ r \in Ring
    BY <1>1, <2>1, AfterSlot
  <2>3. f[n] = Copied(r, After(h, n - 1), After(h, n))
    BY <1>2, <2>1
  <2>4. \A j \in 0 .. m :
              /\ r.slots[After(h, j)] =
                    IF i <= j /\ j < n - 1 THEN EcAt(q, j + 1) ELSE EcAt(q, j)
              /\ r.blocked[After(h, j)] =
                    IF i <= j /\ j < n - 1 THEN FlagAt(q, j + 1) ELSE FlagAt(q, j)
    BY <1>5
  <2> HIDE DEF r
  <2>5. /\ f[n].slots = [r.slots EXCEPT ![After(h, n - 1)] = r.slots[After(h, n)]]
        /\ f[n].blocked = [r.blocked EXCEPT ![After(h, n - 1)] = r.blocked[After(h, n)]]
        /\ r.slots \in [Slot -> EC \cup {NULL}] /\ r.blocked \in [Slot -> BOOLEAN]
    BY <2>2, <2>3, CopiedFields, RingFields
  <2>6. ASSUME NEW j \in 0 .. m
        PROVE  /\ f[n].slots[After(h, j)] =
                     IF i <= j /\ j < n THEN EcAt(q, j + 1) ELSE EcAt(q, j)
               /\ f[n].blocked[After(h, j)] =
                     IF i <= j /\ j < n THEN FlagAt(q, j + 1) ELSE FlagAt(q, j)
    <3>1. j \in Slot /\ j \in Int
      BY <1>1, QueueAssumption DEF Slot
    <3>2. After(h, j) \in Slot
      BY <1>1, <3>1, AfterSlot
    <3>3. CASE j = n - 1
      <4>1. /\ n \in 0 .. m /\ ~(i <= n /\ n < n - 1) /\ i <= j /\ j < n /\ j + 1 = n
        BY <1>1, <1>5, <2>1, <3>3
      <4>2. r.slots[After(h, n)] = EcAt(q, n) /\ r.blocked[After(h, n)] = FlagAt(q, n)
        BY <2>4, <4>1
      <4> QED BY <2>2, <2>5, <3>3, <4>1, <4>2
    <3>4. CASE j # n - 1
      <4>1. After(h, j) # After(h, n - 1)
        BY <1>1, <2>1, <3>1, <3>4, AfterInjective
      <4>2. /\ f[n].slots[After(h, j)] = r.slots[After(h, j)]
            /\ f[n].blocked[After(h, j)] = r.blocked[After(h, j)]
        BY <2>2, <2>5, <3>2, <4>1
      <4>3. (i <= j /\ j < n - 1) <=> (i <= j /\ j < n)
        BY <2>1, <3>1, <3>4
      <4> QED BY <2>4, <4>2, <4>3
    <3> QED BY <3>3, <3>4
  <2> QED BY <2>6
<1>6. i .. m \subseteq I
  <2>1. i \in I
    <3> HIDE DEF Shifted
    <3> QED BY <1>1, <1>2, <1>4
  <2>2. \A n \in i .. m : n # i /\ n - 1 \in I => n \in I
    <3> HIDE DEF Shifted
    <3> QED BY <1>5
  <2> HIDE DEF I
  <2> QED BY <1>1, <2>1, <2>2, IndicesInduction
<1>7. Shifted(f[m], m) /\ f[m] \in Ring
  <2>1. m \in i .. m
    BY <1>1
  <2> HIDE DEF Shifted
  <2> QED BY <1>6, <2>1
<1>8. c.slots = f[m].slots /\ c.blocked = f[m].blocked
  BY <1>2, <1>7 DEF Ring
<1>9. Fits(c)
  BY <1>1, <1>3, QueueAssumption DEF Fits
<1>10. ASSUME NEW j \in 0 .. q.count - 2
       PROVE  /\ EcAt(c, j) = IF j < i THEN EcAt(q, j) ELSE EcAt(q, j + 1)
              /\ FlagAt(c, j) = IF j < i THEN FlagAt(q, j) ELSE FlagAt(q, j + 1)
  <2>1. j \in 0 .. m /\ j < m /\ (j < i <=> ~(i <= j))
    BY <1>1 DEF m
  <2>2. EcAt(c, j) = f[m].slots[After(h, j)] /\ FlagAt(c, j) = f[m].blocked[After(h, j)]
    BY <1>3, <1>8 DEF EcAt, FlagAt
  <2> QED BY <1>7, <2>1, <2>2
<1> QED BY <1>3, <1>9, <1>10 DEF c, m

-----------------------------------------------------------------------------
\* The sequence a ring stands for.

RingEntry == [ec : EC \cup {NULL}, blocked : BOOLEAN]

LEMMA FifoEntries ==
  ASSUME NEW q, InStep(q)
  PROVE  /\ FifoOf(q) \in Seq(RingEntry)
         /\ Len(FifoOf(q)) = q.count
         /\ q.count \in Nat
         /\ \A i \in 1 .. q.count :
               FifoOf(q)[i] = [ec |-> EcAt(q, i - 1), blocked |-> FlagAt(q, i - 1)]
<1>1. /\ q \in Ring /\ q.head \in Int /\ q.count \in Nat
      /\ q.slots \in [Slot -> EC \cup {NULL}] /\ q.blocked \in [Slot -> BOOLEAN]
  BY RingFields DEF InStep
<1>2. ASSUME NEW i \in 1 .. q.count
      PROVE  /\ EcAt(q, i - 1) \in EC \cup {NULL} /\ FlagAt(q, i - 1) \in BOOLEAN
             /\ FifoOf(q)[i] = [ec |-> EcAt(q, i - 1), blocked |-> FlagAt(q, i - 1)]
  <2>1. i - 1 \in Int
    OBVIOUS
  <2>2. After(q.head, i - 1) \in Slot
    BY <1>1, <2>1, AfterSlot
  <2> QED BY <1>1, <2>2 DEF EcAt, FlagAt, FifoOf
<1>3. FifoOf(q) = [i \in 1 .. q.count |->
                     [ec |-> EcAt(q, i - 1), blocked |-> FlagAt(q, i - 1)]]
  BY DEF FifoOf, EcAt, FlagAt
<1>4. \A i \in 1 .. q.count :
         [ec |-> EcAt(q, i - 1), blocked |-> FlagAt(q, i - 1)] \in RingEntry
  BY <1>2 DEF RingEntry
<1>5. FifoOf(q) \in [1 .. q.count -> RingEntry]
  BY <1>3, <1>4
<1>6. FifoOf(q) \in Seq(RingEntry) /\ Len(FifoOf(q)) = q.count
  BY <1>1, <1>5
<1> QED BY <1>1, <1>2, <1>6

\* The same, by places counted from 0.
LEMMA FifoPlaces ==
  ASSUME NEW q, InStep(q), NEW j \in 0 .. q.count - 1
  PROVE  /\ j + 1 \in 1 .. q.count
         /\ FifoOf(q)[j + 1] = [ec |-> EcAt(q, j), blocked |-> FlagAt(q, j)]
         /\ FifoOf(q)[j + 1].ec = EcAt(q, j)
         /\ FifoOf(q)[j + 1].blocked = FlagAt(q, j)
<1>1. q.count \in Nat
  BY FifoEntries
<1> DEFINE i == j + 1
<1>2. i \in 1 .. q.count /\ i - 1 = j
  BY <1>1
<1> HIDE DEF i
<1>3. FifoOf(q)[i] = [ec |-> EcAt(q, i - 1), blocked |-> FlagAt(q, i - 1)]
  BY <1>2, FifoEntries
<1> QED BY <1>2, <1>3 DEF i

\* Two rings that show the same entries stand for the same sequence.
LEMMA SameFifo ==
  ASSUME NEW q, InStep(q), NEW s \in Seq(RingEntry), Len(s) = q.count,
         \A j \in 0 .. q.count - 1 : s[j + 1] = [ec      |-> EcAt(q, j),
                                                 blocked |-> FlagAt(q, j)]
  PROVE  FifoOf(q) = s
<1>1. /\ FifoOf(q) \in Seq(RingEntry) /\ Len(FifoOf(q)) = q.count /\ q.count \in Nat
      /\ \A i \in 1 .. q.count :
            FifoOf(q)[i] = [ec |-> EcAt(q, i - 1), blocked |-> FlagAt(q, i - 1)]
  BY FifoEntries
<1>2. ASSUME NEW i \in 1 .. q.count PROVE FifoOf(q)[i] = s[i]
  <2>1. i - 1 \in 0 .. q.count - 1 /\ (i - 1) + 1 = i
    BY <1>1
  <2>2. s[(i - 1) + 1] = [ec |-> EcAt(q, i - 1), blocked |-> FlagAt(q, i - 1)]
    BY <2>1
  <2> QED BY <1>1, <2>1, <2>2
<1> QED BY <1>1, <1>2, SeqEqual

LEMMA PushFifo ==
  ASSUME NEW q, Fits(q), q.count < MAX_ECS, NEW e \in EC \cup {NULL}, NEW b \in BOOLEAN
  PROVE  FifoOf(Push(q, e, b)) = Append(FifoOf(q), [ec |-> e, blocked |-> b])
<1> DEFINE r == Push(q, e, b)
           new == [ec |-> e, blocked |-> b]
           s == Append(FifoOf(q), new)
           n == q.count
<1>1. /\ Fits(r) /\ r.count = n + 1
      /\ EcAt(r, n) = e /\ FlagAt(r, n) = b
      /\ \A j \in 0 .. n - 1 : EcAt(r, j) = EcAt(q, j) /\ FlagAt(r, j) = FlagAt(q, j)
  BY PushEntries
<1>2. /\ FifoOf(q) \in Seq(RingEntry) /\ Len(FifoOf(q)) = n /\ n \in Nat
      /\ \A i \in 1 .. n :
            FifoOf(q)[i] = [ec |-> EcAt(q, i - 1), blocked |-> FlagAt(q, i - 1)]
  BY FifoEntries DEF Fits
<1>3. new \in RingEntry
  BY DEF RingEntry
<1> HIDE DEF r, n
<1>4. /\ s \in Seq(RingEntry) /\ Len(s) = n + 1
      /\ \A i \in 1 .. n : s[i] = FifoOf(q)[i]
      /\ s[n + 1] = new
  <2> HIDE DEF new
  <2> QED BY <1>2, <1>3, AppendProperties
<1> HIDE DEF s
<1>5. ASSUME NEW j \in 0 .. r.count - 1
      PROVE  s[j + 1] = [ec |-> EcAt(r, j), blocked |-> FlagAt(r, j)]
  <2>1. CASE j = n
    BY <1>1, <1>4, <2>1
  <2>2. CASE j # n
    <3>1. j \in 0 .. n - 1 /\ j + 1 \in 1 .. n /\ (j + 1) - 1 = j
      BY <1>1, <1>2, <2>2
    <3>2. s[j + 1] = [ec |-> EcAt(q, (j + 1) - 1), blocked |-> FlagAt(q, (j + 1) - 1)]
      BY <1>2, <1>4, <3>1
    <3> QED BY <1>1, <3>1, <3>2
  <2> QED BY <2>1, <2>2
<1>6. FifoOf(r) = s
  BY <1>1, <1>4, <1>5, SameFifo DEF Fits
<1> QED BY <1>6 DEF r, s

\* The scan stops at the places of the runnable entries.
LEMMA StopsRunnable ==
  ASSUME NEW q, Fits(q)
  PROVE  /\ \A t \in 0 .. q.count - 1 : t \in Stops(q) <=> t + 1 \in Runnable(FifoOf(q))
         /\ Stops(q) = {} <=> Runnable(FifoOf(q)) = {}
         /\ Stops(q) # {} => FirstOf(Runnable(FifoOf(q))) = FirstOf(Stops(q)) + 1
<1> DEFINE n == q.count
           F == FifoOf(q)
<1>1. /\ F \in Seq(RingEntry) /\ Len(F) = n /\ n \in Nat /\ InStep(q)
      /\ \A i \in 1 .. n : F[i] = [ec |-> EcAt(q, i - 1), blocked |-> FlagAt(q, i - 1)]
  BY FifoEntries DEF Fits
<1>2. ASSUME NEW t \in 0 .. n - 1 PROVE t \in Stops(q) <=> t + 1 \in Runnable(F)
  <2> DEFINE r == Turned(q)[t]
  <2>1. t \in 0 .. n /\ 0 \in 0 .. n - 1 /\ t = 0 + t /\ t + 1 \in 1 .. n /\ (t + 1) - 1 = t
    BY <1>1
  <2>2. Fits(r) /\ FlagAt(r, 0) = FlagAt(q, t)
    BY <2>1, TurnedEntries
  <2>3. FlagAt(r, 0) = r.blocked[r.head]
    <3> HIDE DEF r
    <3>1. r.head \in Slot
      BY <2>2, RingFields DEF Fits, InStep
    <3> QED BY <3>1, SlotIsItself DEF FlagAt
  <2>4. t \in Stops(q) <=> ~FlagAt(q, t)
    BY <2>2, <2>3 DEF Stops
  <2>5. F[t + 1].blocked = FlagAt(q, t)
    BY <1>1, FifoPlaces
  <2> HIDE DEF F
  <2> QED BY <1>1, <2>1, <2>4, <2>5 DEF Runnable
<1> HIDE DEF F
<1>3. Stops(q) \in SUBSET (0 .. n - 1) /\ Runnable(F) \in SUBSET (1 .. n)
  BY <1>1 DEF Stops, Runnable
<1>4. ASSUME NEW i \in Runnable(F) PROVE i - 1 \in Stops(q)
  <2>1. i - 1 \in 0 .. n - 1 /\ (i - 1) + 1 = i
    BY <1>1, <1>3
  <2> QED BY <1>2, <2>1
<1>5. ASSUME NEW t \in Stops(q) PROVE t + 1 \in Runnable(F)
  BY <1>2, <1>3
<1>6. Stops(q) = {} <=> Runnable(F) = {}
  BY <1>4, <1>5
<1>7. ASSUME Stops(q) # {} PROVE FirstOf(Runnable(F)) = FirstOf(Stops(q)) + 1
  <2> DEFINE t == FirstOf(Stops(q))
             i == FirstOf(Runnable(F))
  <2>1. t \in Stops(q) /\ \A k \in Stops(q) : t <= k
    BY <1>1, <1>7, FirstStop
  <2>2. i \in Runnable(F) /\ \A k \in Runnable(F) : i <= k
    <3>1. Runnable(F) \in SUBSET Nat /\ Runnable(F) # {}
      BY <1>1, <1>3, <1>6, <1>7
    <3> QED BY <3>1, FirstOfExists
  <2> HIDE DEF t, i
  <2>3. i <= t + 1 /\ t <= i - 1 /\ t \in Int /\ i \in Int
    BY <1>1, <1>3, <1>4, <1>5, <2>1, <2>2
  <2>4. i = t + 1
    BY <2>3
  <2> QED BY <2>4 DEF t, i
<1> QED BY <1>2, <1>6, <1>7 DEF F

\* A ring in which the scan meets blocked entries only comes round to itself.
LEMMA TurnedFifo ==
  ASSUME NEW q, Fits(q), Stops(q) = {}
  PROVE  LET r == Turned(q)[q.count] IN Fits(r) /\ FifoOf(r) = FifoOf(q)
<1> DEFINE n == q.count
           r == Turned(q)[n]
           s == FifoOf(q)
<1>1. n \in Nat /\ n \in 0 .. n /\ InStep(q)
  BY FifoEntries DEF Fits
<1>2. /\ Fits(r) /\ r.count = n
      /\ \A j, k \in 0 .. n - 1 :
            k = j + n - n => EcAt(r, j) = EcAt(q, k) /\ FlagAt(r, j) = TRUE
  BY <1>1, TurnedEntries
<1>3. s \in Seq(RingEntry) /\ Len(s) = n
  BY <1>1, FifoEntries
<1> HIDE DEF r
<1>4. ASSUME NEW j \in 0 .. n - 1
      PROVE  s[j + 1] = [ec |-> EcAt(r, j), blocked |-> FlagAt(r, j)]
  <2>1. j = j + n - n
    BY <1>1
  <2>2. EcAt(r, j) = EcAt(q, j) /\ FlagAt(r, j) = TRUE
    BY <1>2, <2>1
  <2>3. j + 1 \notin Runnable(s)
    BY StopsRunnable
  <2>4. /\ j + 1 \in 1 .. n /\ s[j + 1].blocked = FlagAt(q, j)
        /\ s[j + 1] = [ec |-> EcAt(q, j), blocked |-> FlagAt(q, j)]
    BY <1>1, FifoPlaces
  <2>5. FlagAt(q, j) \in BOOLEAN
    <3>1. j \in Int /\ q.head \in Int /\ q.blocked \in [Slot -> BOOLEAN]
      BY <1>1, RingFields DEF InStep
    <3>2. After(q.head, j) \in Slot
      BY <3>1, AfterSlot
    <3> QED BY <3>1, <3>2 DEF FlagAt
  <2> HIDE DEF s
  <2>6. FlagAt(q, j) = TRUE
    BY <1>3, <2>3, <2>4, <2>5 DEF Runnable
  <2> QED BY <2>2, <2>4, <2>6
<1> HIDE DEF s
<1>5. FifoOf(r) = s
  BY <1>2, <1>3, <1>4, SameFifo DEF Fits
<1> QED BY <1>2, <1>5 DEF r, s

\* A ring in which it meets a runnable one loses that one, and the entries
\* before it go behind the others.
LEMMA TakenFifo ==
  ASSUME NEW q, Fits(q), Stops(q) # {}
  PROVE  LET i == FirstOf(Runnable(FifoOf(q))) IN
         /\ Fits(Taken(q).ring)
         /\ FifoOf(Taken(q).ring) = TakeOut(FifoOf(q), i)
         /\ i \in 1 .. Len(FifoOf(q))
         /\ Taken(q).ec = FifoOf(q)[i].ec
<1> DEFINE n == q.count
           t == FirstOf(Stops(q))
           r == Turned(q)[t]
           g == Taken(q).ring
           F == FifoOf(q)
           i == FirstOf(Runnable(F))
           s == TakeOut(F, i)
<1>1. n \in Nat /\ n <= MAX_ECS /\ InStep(q)
  BY FifoEntries DEF Fits
<1>2. t \in 0 .. n - 1 /\ t \in Nat /\ t \in 0 .. n /\ 0 \in 0 .. n - 1 /\ t = 0 + t
  BY <1>1, FirstStop
<1>3. i = t + 1 /\ i \in 1 .. n /\ i \in Int
  BY <1>1, <1>2, StopsRunnable
<1>4. /\ Fits(r) /\ r.count = n
      /\ \A j, k \in 0 .. n - 1 :
            /\ k = j + t => EcAt(r, j) = EcAt(q, k) /\ FlagAt(r, j) = FlagAt(q, k)
            /\ k = j + t - n => EcAt(r, j) = EcAt(q, k) /\ FlagAt(r, j) = TRUE
  <2> HIDE DEF t
  <2> QED BY <1>2, TurnedEntries
<1>5. /\ InStep(r) /\ InStep(g) /\ g.head = After(r.head, 1) /\ g.count = n - 1
      /\ g.slots = r.slots /\ g.blocked = r.blocked /\ Taken(q).ec = r.slots[r.head]
  BY <1>1, TakenInStep
<1> HIDE DEF r, g, t
<1>6. r.head \in Slot /\ r.head \in Int
  BY <1>5, RingFields DEF InStep
<1>7. Taken(q).ec = F[i].ec
  <2>1. EcAt(r, 0) = r.slots[r.head]
    BY <1>6, SlotIsItself DEF EcAt
  <2>2. EcAt(r, 0) = EcAt(q, t)
    BY <1>2, <1>4
  <2>3. F[t + 1].ec = EcAt(q, t)
    BY <1>1, <1>2, FifoPlaces
  <2> QED BY <1>3, <1>5, <2>1, <2>2, <2>3
<1>8. F \in Seq(RingEntry) /\ Len(F) = n
  BY <1>1, FifoEntries
<1> HIDE DEF F
<1>9. /\ s \in Seq(RingEntry) /\ Len(s) = n - 1
      /\ \A k \in 1 .. n - 1 : s[k] = F[IF k <= n - i THEN k + i ELSE k - (n - i)]
  <2> HIDE DEF i
  <2>1. i \in 1 .. Len(F)
    BY <1>3, <1>8
  <2>2. /\ TakeOut(F, i) \in Seq(RingEntry)
        /\ Len(TakeOut(F, i)) = Len(F) - 1
        /\ \A k \in 1 .. Len(F) - 1 : TakeOut(F, i)[k] =
              F[IF k <= Len(F) - i THEN k + i ELSE k - (Len(F) - i)]
    BY <1>8, <2>1, TakeOutElements
  <2> QED BY <1>8, <2>2
<1> HIDE DEF s, i
<1>10. ASSUME NEW j \in 0 .. g.count - 1
       PROVE  s[j + 1] = [ec |-> EcAt(g, j), blocked |-> FlagAt(g, j)]
  <2>1. /\ j \in Int /\ j + 1 \in 0 .. n - 1 /\ j + 1 \in 1 .. n - 1 /\ 1 + j = j + 1
        /\ 1 \in Int
    BY <1>1, <1>5
  <2>2. EcAt(g, j) = EcAt(r, j + 1) /\ FlagAt(g, j) = FlagAt(r, j + 1)
    <3>1. After(After(r.head, 1), j) = After(r.head, 1 + j)
      BY <1>6, <2>1, AfterAfter
    <3> QED BY <1>5, <2>1, <3>1 DEF EcAt, FlagAt
  <2>3. CASE j + 1 <= n - i
    <3> DEFINE k == (j + 1) + t
    <3>1. k \in 0 .. n - 1 /\ k = (j + 1) + t /\ k + 1 = (j + 1) + i
      BY <1>1, <1>2, <1>3, <2>1, <2>3
    <3> HIDE DEF k
    <3>2. EcAt(r, j + 1) = EcAt(q, k) /\ FlagAt(r, j + 1) = FlagAt(q, k)
      BY <1>4, <2>1, <3>1
    <3>3. F[k + 1] = [ec |-> EcAt(q, k), blocked |-> FlagAt(q, k)]
      BY <1>1, <3>1, FifoPlaces DEF F
    <3>4. s[j + 1] = F[k + 1]
      BY <1>9, <2>1, <2>3, <3>1
    <3> QED BY <2>2, <3>2, <3>3, <3>4
  <2>4. CASE ~(j + 1 <= n - i)
    <3> DEFINE k == (j + 1) + t - n
    <3>1. k \in 0 .. n - 1 /\ k = (j + 1) + t - n /\ k + 1 = (j + 1) - (n - i) /\ k < t
      BY <1>1, <1>2, <1>3, <2>1, <2>4
    <3> HIDE DEF k
    <3>2. EcAt(r, j + 1) = EcAt(q, k) /\ FlagAt(r, j + 1) = TRUE
      BY <1>4, <2>1, <3>1
    <3>3. /\ F[k + 1] = [ec |-> EcAt(q, k), blocked |-> FlagAt(q, k)]
          /\ F[k + 1].blocked = FlagAt(q, k) /\ k + 1 \in 1 .. n
      BY <1>1, <3>1, FifoPlaces DEF F
    <3>4. k + 1 \notin Runnable(F)
      <4>1. k \notin Stops(q)
        <5>1. ASSUME k \in Stops(q) PROVE t <= k
          BY <1>1, <5>1, FirstStop DEF t
        <5> QED BY <1>2, <3>1, <5>1
      <4> QED BY <3>1, <4>1, StopsRunnable DEF F
    <3>5. FlagAt(q, k) \in BOOLEAN
      <4>1. k \in Int /\ q.head \in Int /\ q.blocked \in [Slot -> BOOLEAN]
        BY <1>1, <3>1, RingFields DEF InStep
      <4>2. After(q.head, k) \in Slot
        BY <4>1, AfterSlot
      <4> QED BY <4>1, <4>2 DEF FlagAt
    <3>6. FlagAt(q, k) = TRUE
      BY <1>8, <3>3, <3>4, <3>5 DEF Runnable
    <3>7. s[j + 1] = F[k + 1]
      BY <1>9, <2>1, <2>4, <3>1
    <3> QED BY <2>2, <3>2, <3>3, <3>6, <3>7
  <2> QED BY <2>3, <2>4
<1>11. FifoOf(g) = s
  BY <1>5, <1>9, <1>10, SameFifo
<1>12. Fits(g)
  BY <1>1, <1>5, QueueAssumption DEF Fits
<1> QED BY <1>3, <1>7, <1>8, <1>11, <1>12 DEF g, s, i, F

\* The compaction removes one entry.
LEMMA CompactedFifo ==
  ASSUME NEW q, Fits(q), NEW i \in 0 .. q.count - 1
  PROVE  FifoOf(Compacted(q, i)) = Without(FifoOf(q), i + 1)
<1> DEFINE n == q.count
           c == Compacted(q, i)
           F == FifoOf(q)
           s == Without(F, i + 1)
<1>1. F \in Seq(RingEntry) /\ Len(F) = n /\ n \in Nat /\ i + 1 \in 1 .. n /\ InStep(q)
  BY FifoEntries DEF Fits
<1>2. /\ Fits(c) /\ c.count = n - 1
      /\ \A j \in 0 .. n - 2 :
            /\ EcAt(c, j) = IF j < i THEN EcAt(q, j) ELSE EcAt(q, j + 1)
            /\ FlagAt(c, j) = IF j < i THEN FlagAt(q, j) ELSE FlagAt(q, j + 1)
  BY CompactedEntries
<1> HIDE DEF c, F
<1>3. /\ s \in Seq(RingEntry) /\ Len(s) = n - 1
      /\ \A k \in 1 .. n - 1 : s[k] = F[IF k < i + 1 THEN k ELSE k + 1]
  BY <1>1, WithoutElements
<1> HIDE DEF s
<1>4. ASSUME NEW j \in 0 .. c.count - 1
      PROVE  s[j + 1] = [ec |-> EcAt(c, j), blocked |-> FlagAt(c, j)]
  <2>1. /\ j \in 0 .. n - 2 /\ j + 1 \in 1 .. n - 1 /\ j \in 0 .. n - 1 /\ j + 1 \in 0 .. n - 1
        /\ (j + 1 < i + 1 <=> j < i)
    BY <1>1, <1>2
  <2>2. /\ F[j + 1] = [ec |-> EcAt(q, j), blocked |-> FlagAt(q, j)]
        /\ F[(j + 1) + 1] = [ec |-> EcAt(q, j + 1), blocked |-> FlagAt(q, j + 1)]
    BY <1>1, <2>1, FifoPlaces DEF F
  <2>3. CASE j < i
    BY <1>2, <1>3, <2>1, <2>2, <2>3
  <2>4. CASE ~(j < i)
    <3>1. s[j + 1] = F[(j + 1) + 1]
      BY <1>3, <2>1, <2>4
    <3> QED BY <1>2, <2>1, <2>2, <2>4, <3>1
  <2> QED BY <2>3, <2>4
<1>5. FifoOf(c) = s
  BY <1>2, <1>3, <1>4, SameFifo DEF Fits
<1> QED BY <1>5 DEF c, s, F

\* A flag set at one place.
LEMMA FlagFifo ==
  ASSUME NEW q, Fits(q), NEW i \in 0 .. q.count - 1, NEW b \in BOOLEAN
  PROVE  LET r == [q EXCEPT !.blocked = [q.blocked EXCEPT ![After(q.head, i)] = b]] IN
         /\ Fits(r)
         /\ FifoOf(r) = [FifoOf(q) EXCEPT ![i + 1].blocked = b]
<1> DEFINE n == q.count
           k == After(q.head, i)
           y == [q.blocked EXCEPT ![k] = b]
           r == [q EXCEPT !.blocked = y]
           F == FifoOf(q)
           entry == [F[i + 1] EXCEPT !.blocked = b]
           s == [F EXCEPT ![i + 1] = entry]
<1>1. /\ InStep(q) /\ q \in Ring /\ q.head \in Int /\ n \in Nat /\ n <= MAX_ECS
      /\ q.blocked \in [Slot -> BOOLEAN]
      /\ i \in Int /\ i \in Slot /\ i + 1 \in 1 .. n
  BY RingFields, QueueAssumption DEF Fits, InStep, Slot
<1>2. k \in Slot
  BY <1>1, AfterSlot
<1>3. y \in [Slot -> BOOLEAN]
  BY <1>1, <1>2
<1>4. InStep(r) /\ r.head = q.head /\ r.count = n /\ r.slots = q.slots /\ r.blocked = y
  <2> HIDE DEF y
  <2> QED BY <1>1, <1>3, FlagsInStep
<1>5. F \in Seq(RingEntry) /\ Len(F) = n
  BY <1>1, FifoEntries
<1>6. F[i + 1] = [ec |-> EcAt(q, i), blocked |-> FlagAt(q, i)]
  BY <1>1, FifoPlaces
<1> HIDE DEF r, F
<1>7. entry = [ec |-> EcAt(q, i), blocked |-> b]
  BY <1>6
<1>8. entry \in RingEntry
  <2>1. EcAt(q, i) \in EC \cup {NULL}
    BY <1>1, <1>2, RingFields DEF EcAt
  <2> QED BY <1>7, <2>1 DEF RingEntry
<1> HIDE DEF entry
<1>9. s \in Seq(RingEntry) /\ Len(s) = n
  BY <1>1, <1>5, <1>8, ExceptSeq
<1>10. ASSUME NEW j \in 0 .. n - 1
       PROVE  s[j + 1] = [ec |-> EcAt(r, j), blocked |-> FlagAt(r, j)]
  <2>1. /\ j \in Int /\ j \in Slot /\ j + 1 \in 1 .. n /\ (j = i <=> j + 1 = i + 1)
    BY <1>1, QueueAssumption DEF Slot
  <2>2. F[j + 1] = [ec |-> EcAt(q, j), blocked |-> FlagAt(q, j)]
    BY <1>1, FifoPlaces DEF F
  <2>3. EcAt(r, j) = EcAt(q, j)
    BY <1>4 DEF EcAt
  <2>4. After(q.head, j) \in Slot
    BY <1>1, <2>1, AfterSlot
  <2>5. F \in [1 .. n -> RingEntry]
    BY <1>5
  <2>6. CASE j = i
    <3>1. FlagAt(r, j) = b
      BY <1>1, <1>2, <1>4, <2>6 DEF FlagAt
    <3>2. s[j + 1] = entry
      BY <2>1, <2>5, <2>6
    <3> QED BY <1>7, <2>3, <2>6, <3>1, <3>2
  <2>7. CASE j # i
    <3>1. After(q.head, j) # k
      BY <1>1, <2>1, <2>7, AfterInjective
    <3>2. FlagAt(r, j) = FlagAt(q, j)
      BY <1>1, <1>2, <1>4, <2>4, <3>1 DEF FlagAt
    <3>3. s[j + 1] = F[j + 1]
      BY <2>1, <2>5, <2>7
    <3> QED BY <2>2, <2>3, <3>2, <3>3
  <2> QED BY <2>6, <2>7
<1> HIDE DEF s
<1>11. FifoOf(r) = s
  BY <1>4, <1>9, <1>10, SameFifo
<1>12. s = [F EXCEPT ![i + 1].blocked = b]
  BY DEF s, entry
<1>13. Fits(r)
  BY <1>1, <1>4 DEF Fits
<1> QED BY <1>11, <1>12, <1>13 DEF r, F

\* All flags of the entries cleared.
LEMMA ClearedFifo ==
  ASSUME NEW q, Fits(q)
  PROVE  /\ Fits(Cleared(q))
         /\ FifoOf(Cleared(q)) = [i \in 1 .. Len(FifoOf(q)) |->
                                    [ec |-> FifoOf(q)[i].ec, blocked |-> FALSE]]
<1> DEFINE n == q.count
           r == Cleared(q)
           F == FifoOf(q)
<1>1. /\ InStep(q) /\ n \in Nat /\ n <= MAX_ECS /\ F \in Seq(RingEntry) /\ Len(F) = n
  BY FifoEntries DEF Fits
<1>2. /\ InStep(r) /\ r.head = q.head /\ r.count = n /\ r.slots = q.slots
      /\ \A i \in 0 .. n - 1 : r.blocked[After(q.head, i)] = FALSE
  BY <1>1, ClearedInStep
<1> DEFINE s == [i \in 1 .. n |-> [ec |-> F[i].ec, blocked |-> FALSE]]
<1>3. s \in Seq(RingEntry) /\ Len(s) = n
  <2>1. \A i \in 1 .. n : F[i] \in RingEntry
    BY <1>1
  <2>2. \A i \in 1 .. n : [ec |-> F[i].ec, blocked |-> FALSE] \in RingEntry
    BY <2>1 DEF RingEntry
  <2>3. s \in [1 .. n -> RingEntry]
    BY <2>2
  <2> HIDE DEF s, n
  <2> QED BY <1>1, <2>3
<1> HIDE DEF r, n
<1>4. ASSUME NEW j \in 0 .. n - 1
      PROVE  s[j + 1] = [ec |-> EcAt(r, j), blocked |-> FlagAt(r, j)]
  <2>1. j + 1 \in 1 .. n /\ F[j + 1].ec = EcAt(q, j)
    BY <1>1, FifoPlaces DEF n
  <2>2. EcAt(r, j) = EcAt(q, j) /\ FlagAt(r, j) = FALSE
    BY <1>2 DEF EcAt, FlagAt
  <2> QED BY <2>1, <2>2
<1> HIDE DEF s
<1>5. FifoOf(r) = s
  BY <1>2, <1>3, <1>4, SameFifo
<1>6. Fits(r)
  BY <1>1, <1>2 DEF Fits
<1> QED BY <1>1, <1>5, <1>6 DEF r, s

\* The places at which a ring names an EC are the positions in the queue.
LEMMA FoundPositions ==
  ASSUME NEW q, InStep(q), NEW e
  PROVE  LET P == {i \in 1 .. Len(FifoOf(q)) : FifoOf(q)[i].ec = e} IN
         /\ Found(q, e) = {} <=> P = {}
         /\ Found(q, e) # {} => FirstOf(P) = FirstOf(Found(q, e)) + 1
<1> DEFINE n == q.count
           F == FifoOf(q)
           P == {i \in 1 .. Len(F) : F[i].ec = e}
           D == Found(q, e)
<1>1. n \in Nat /\ Len(F) = n
  BY FifoEntries
<1>2. D \in SUBSET (0 .. n - 1) /\ \A j \in 0 .. n - 1 : j \in D <=> EcAt(q, j) = e
  BY DEF Found, EcAt
<1> HIDE DEF D
<1>3. ASSUME NEW j \in D PROVE j + 1 \in P
  BY <1>1, <1>2, FifoPlaces
<1>4. ASSUME NEW i \in P PROVE i - 1 \in D
  <2>1. i - 1 \in 0 .. n - 1 /\ (i - 1) + 1 = i
    BY <1>1
  <2>2. F[(i - 1) + 1].ec = EcAt(q, i - 1)
    BY <2>1, FifoPlaces
  <2> QED BY <1>2, <2>1, <2>2
<1>5. P \in SUBSET Nat /\ D \in SUBSET Nat
  BY <1>1, <1>2
<1> HIDE DEF P
<1>6. ASSUME D # {} PROVE FirstOf(P) = FirstOf(D) + 1
  <2>1. P # {}
    BY <1>3, <1>6
  <2>2. FirstOf(D) \in D /\ \A k \in D : FirstOf(D) <= k
    BY <1>5, <1>6, FirstOfExists
  <2>3. FirstOf(P) \in P /\ \A k \in P : FirstOf(P) <= k
    BY <1>5, <2>1, FirstOfExists
  <2> DEFINE t == FirstOf(D)
             i == FirstOf(P)
  <2> HIDE DEF t, i
  <2>4. /\ t \in D /\ \A k \in D : t <= k
        /\ i \in P /\ \A k \in P : i <= k
    BY <2>2, <2>3 DEF t, i
  <2>5. t + 1 \in P /\ i - 1 \in D /\ t \in Int /\ i \in Int
    BY <1>3, <1>4, <1>5, <2>4
  <2>6. i <= t + 1 /\ t <= i - 1
    BY <2>4, <2>5
  <2>7. i = t + 1
    BY <2>5, <2>6
  <2> QED BY <2>7 DEF t, i
<1>7. D = {} <=> P = {}
  BY <1>3, <1>4
<1> QED BY <1>6, <1>7 DEF P, D

-----------------------------------------------------------------------------
\* What the operators on the rings do to the queues they stand for.

View(rs, cur, prio, halt) == [queues     |-> [p \in Levels |-> FifoOf(rs[p])],
                              current_ec |-> cur,
                              priority   |-> prio,
                              halted     |-> halt]

AllFit(rs) == rs \in [Levels -> Ring] /\ \A p \in Levels : Fits(rs[p])

LEMMA ViewFields ==
  ASSUME NEW rs, NEW cur, NEW prio, NEW halt
  PROVE  /\ View(rs, cur, prio, halt).queues = [p \in Levels |-> FifoOf(rs[p])]
         /\ \A p \in Levels : View(rs, cur, prio, halt).queues[p] = FifoOf(rs[p])
         /\ View(rs, cur, prio, halt).current_ec = cur
         /\ View(rs, cur, prio, halt).priority = prio
         /\ View(rs, cur, prio, halt).halted = halt
BY DEF View

Replaced(rs, p, r) == [rs EXCEPT ![p] = r]

QueuesOf(rs) == [l \in Levels |-> FifoOf(rs[l])]

LEMMA AllFitReplaced ==
  ASSUME NEW rs, AllFit(rs), NEW p \in Levels, NEW r, Fits(r)
  PROVE  /\ AllFit(Replaced(rs, p, r))
         /\ QueuesOf(Replaced(rs, p, r)) = Replaced(QueuesOf(rs), p, FifoOf(r))
         /\ QueuesOf(rs)[p] = FifoOf(rs[p])
<1>1. rs \in [Levels -> Ring] /\ r \in Ring
  BY DEF AllFit, Fits, InStep
<1>2. AllFit([rs EXCEPT ![p] = r])
  BY <1>1 DEF AllFit
<1>3. \A l \in Levels : FifoOf([rs EXCEPT ![p] = r][l]) =
                           IF l = p THEN FifoOf(r) ELSE FifoOf(rs[l])
  BY <1>1
<1> QED BY <1>2, <1>3 DEF Replaced, QueuesOf

LEMMA ViewPush ==
  ASSUME NEW rs, AllFit(rs), NEW cur, NEW prio, NEW halt, NEW e \in EC \cup {NULL},
         NEW b \in BOOLEAN, prio[e] \in Levels, rs[prio[e]].count < MAX_ECS
  PROVE  LET q == Push(rs[prio[e]], e, b)
             t == [rs EXCEPT ![prio[e]] = q]
         IN  /\ AllFit(t)
             /\ View(t, cur, prio, halt) = Enqueue(View(rs, cur, prio, halt), e, b)
<1> DEFINE p == prio[e]
           q == Push(rs[p], e, b)
           t == [rs EXCEPT ![p] = q]
           s == View(rs, cur, prio, halt)
           new == [ec |-> e, blocked |-> b]
           queues == QueuesOf(rs)
<1>1. Fits(rs[p]) /\ p \in Levels
  BY DEF AllFit
<1>2. Fits(q) /\ FifoOf(q) = Append(FifoOf(rs[p]), new)
  BY <1>1, PushEntries, PushFifo
<1> HIDE DEF p, q, new
<1>3. /\ AllFit(t)
      /\ QueuesOf(t) = [queues EXCEPT ![p] = FifoOf(q)]
  <2>1. t = Replaced(rs, p, q) /\ [queues EXCEPT ![p] = FifoOf(q)] =
                                    Replaced(QueuesOf(rs), p, FifoOf(q))
    BY DEF Replaced
  <2> HIDE DEF t, queues
  <2> QED BY <1>1, <1>2, <2>1, AllFitReplaced
<1>4. queues[p] = FifoOf(rs[p])
  BY <1>1 DEF QueuesOf
<1> HIDE DEF t, queues
<1>5. View(t, cur, prio, halt) = [queues     |-> [queues EXCEPT ![p] = Append(@, new)],
                                  current_ec |-> cur,
                                  priority   |-> prio,
                                  halted     |-> halt]
  BY <1>2, <1>3, <1>4 DEF View, QueuesOf
<1>6. /\ s = [queues |-> queues, current_ec |-> cur, priority |-> prio, halted |-> halt]
      /\ s.priority[e] = p
  BY DEF View, queues, p, QueuesOf
<1> HIDE DEF s
<1>7. Enqueue(s, e, b) = [s EXCEPT !.queues[p] = Append(@, new)]
  BY <1>6 DEF Enqueue, new
<1>8. [s EXCEPT !.queues[p] = Append(@, new)] =
         [queues     |-> [queues EXCEPT ![p] = Append(@, new)],
          current_ec |-> cur, priority |-> prio, halted |-> halt]
  BY <1>6
<1> QED BY <1>3, <1>5, <1>7, <1>8 DEF t, s, q, p

\* The state of the queues, and the changes the operators make to it.
QueueRecord(queues, cur, prio, halt) ==
    [queues |-> queues, current_ec |-> cur, priority |-> prio, halted |-> halt]

WithHalted(s, x) == [s EXCEPT !.halted = x]
WithCurrent(s, x) == [s EXCEPT !.current_ec = x]
WithPriority(s, x) == [s EXCEPT !.priority = x]
WithQueues(s, x) == [s EXCEPT !.queues = x]
WithQueue(s, p, x) == [s EXCEPT !.queues[p] = x]
WithTaken(s, x, p, y) == [s EXCEPT !.current_ec = x, !.queues[p] = y]

LEMMA FieldsChanged ==
  ASSUME NEW queues, NEW cur, NEW prio, NEW halt, NEW x
  PROVE  LET s == QueueRecord(queues, cur, prio, halt) IN
         /\ WithHalted(s, x) = QueueRecord(queues, cur, prio, x)
         /\ WithCurrent(s, x) = QueueRecord(queues, x, prio, halt)
         /\ WithPriority(s, x) = QueueRecord(queues, cur, x, halt)
         /\ WithQueues(s, x) = QueueRecord(x, cur, prio, halt)
<1>1. WithHalted(QueueRecord(queues, cur, prio, halt), x) =
         QueueRecord(queues, cur, prio, x)
  BY DEF QueueRecord, WithHalted
<1>2. WithCurrent(QueueRecord(queues, cur, prio, halt), x) =
         QueueRecord(queues, x, prio, halt)
  BY DEF QueueRecord, WithCurrent
<1>3. WithPriority(QueueRecord(queues, cur, prio, halt), x) =
         QueueRecord(queues, cur, x, halt)
  BY DEF QueueRecord, WithPriority
<1>4. WithQueues(QueueRecord(queues, cur, prio, halt), x) =
         QueueRecord(x, cur, prio, halt)
  BY DEF QueueRecord, WithQueues
<1> QED BY <1>1, <1>2, <1>3, <1>4

LEMMA QueueChanged ==
  ASSUME NEW queues, NEW cur, NEW prio, NEW halt, NEW p, NEW x
  PROVE  WithQueue(QueueRecord(queues, cur, prio, halt), p, x) =
            QueueRecord([queues EXCEPT ![p] = x], cur, prio, halt)
BY DEF QueueRecord, WithQueue

LEMMA QueueTaken ==
  ASSUME NEW queues, NEW cur, NEW prio, NEW halt, NEW p, NEW x, NEW y
  PROVE  WithTaken(QueueRecord(queues, cur, prio, halt), x, p, y) =
            QueueRecord([queues EXCEPT ![p] = y], x, prio, halt)
<1> DEFINE s == QueueRecord(queues, cur, prio, halt)
<1>1. WithCurrent(s, x) = QueueRecord(queues, x, prio, halt)
  BY FieldsChanged
<1> HIDE DEF s
<1>2. WithTaken(s, x, p, y) = WithQueue(WithCurrent(s, x), p, y)
  BY DEF WithTaken, WithQueue, WithCurrent
<1>3. WithQueue(QueueRecord(queues, x, prio, halt), p, y) =
         QueueRecord([queues EXCEPT ![p] = y], x, prio, halt)
  BY QueueChanged
<1> QED BY <1>1, <1>2, <1>3 DEF s

\* The scan does to the rings what the dispatch does to the queues.
LEMMA ScanView ==
  ASSUME NEW rs, AllFit(rs), NEW prio, NEW halt, Scan(rs, prio, halt)
  PROVE  /\ AllFit(rings')
         /\ View(rings, current_ec, priority, halted)' =
               Dispatch(View(rs, NULL, prio, halt))
<1> DEFINE s == View(rs, NULL, prio, halt)
           t == View(rings', current_ec', priority', halted')
           stop == {p \in Levels : Stops(rs[p]) # {}}
           ready == {p \in Levels : Runnable(s.queues[p]) # {}}
           p == FirstOf(ready)
           i == FirstOf(Runnable(s.queues[p]))
           queues == [l \in Levels |-> FifoOf(rs[l])]
<1>1. /\ s.queues = queues /\ \A l \in Levels : s.queues[l] = FifoOf(rs[l])
      /\ s = [queues |-> queues, current_ec |-> NULL, priority |-> prio, halted |-> halt]
  BY DEF View
<1>2. \A l \in Levels : Fits(rs[l])
  BY DEF AllFit
<1>3. stop = ready
  <2> HIDE DEF s
  <2> QED BY <1>1, <1>2, StopsRunnable
<1>4. /\ halted' = IF stop = {} THEN "no ECs to run" ELSE halt
      /\ current_ec' = IF stop = {} THEN NULL ELSE Taken(rs[FirstOf(stop)]).ec
      /\ rings' = [r \in Levels |->
                      IF stop # {} /\ r > FirstOf(stop) THEN rs[r]
                      ELSE IF stop # {} /\ r = FirstOf(stop) THEN Taken(rs[r]).ring
                      ELSE Turned(rs[r])[rs[r].count]]
      /\ priority' = prio
  BY DEF Scan
<1>5. ready # {} => /\ p \in Levels /\ Stops(rs[p]) # {}
                    /\ \A l \in Levels : l < p => Stops(rs[l]) = {}
  <2>1. ready \in SUBSET Nat
    BY QueueAssumption DEF Levels
  <2>2. ready # {} => p \in ready /\ \A l \in ready : p <= l
    <3> HIDE DEF ready
    <3> QED BY <2>1, FirstOfExists
  <2>3. ready # {} => p \in stop /\ \A l \in stop : p <= l
    <3> HIDE DEF ready, stop, p
    <3> QED BY <1>3, <2>2
  <2>4. \A l \in stop : l \in Int
    BY QueueAssumption DEF Levels
  <2>5. ASSUME NEW l \in Levels, l < p, ready # {} PROVE Stops(rs[l]) = {}
    <3>1. p \in Int /\ l \in Int
      BY <2>3, <2>4, <2>5, QueueAssumption DEF Levels
    <3>2. l \notin stop
      <4> HIDE DEF stop, p, ready
      <4> QED BY <2>3, <2>5, <3>1
    <3> QED BY <3>2
  <2> HIDE DEF p, ready
  <2> QED BY <2>3, <2>5
<1> HIDE DEF s, stop
<1>6. CASE ready = {}
  <2>1. \A l \in Levels : Stops(rs[l]) = {}
    BY <1>3, <1>6 DEF stop
  <2>2. rings' = [l \in Levels |-> Turned(rs[l])[rs[l].count]]
    BY <1>3, <1>4, <1>6
  <2>3. \A l \in Levels : Fits(rings'[l]) /\ FifoOf(rings'[l]) = FifoOf(rs[l])
    BY <1>2, <2>1, <2>2, TurnedFifo
  <2>4. AllFit(rings')
    BY <2>2, <2>3 DEF AllFit, Fits, InStep
  <2>5. t = QueueRecord(queues, NULL, prio, "no ECs to run")
    BY <1>3, <1>4, <1>6, <2>3 DEF View, QueueRecord
  <2>6. Dispatch(s) = WithHalted(s, "no ECs to run")
    BY <1>6 DEF Dispatch, WithHalted
  <2> HIDE DEF t, queues, ready, p, i
  <2>7. s = QueueRecord(queues, NULL, prio, halt)
    BY <1>1 DEF QueueRecord
  <2>8. WithHalted(QueueRecord(queues, NULL, prio, halt), "no ECs to run") =
           QueueRecord(queues, NULL, prio, "no ECs to run")
    <3> DEFINE panic == "no ECs to run"
    <3> HIDE DEF panic
    <3>1. WithHalted(QueueRecord(queues, NULL, prio, halt), panic) =
             QueueRecord(queues, NULL, prio, panic)
      BY FieldsChanged
    <3> QED BY <3>1 DEF panic
  <2>9. Dispatch(s) = t
    BY <2>5, <2>6, <2>7, <2>8
  <2> QED BY <2>4, <2>9 DEF t, s
<1>7. CASE ready # {}
  <2>1. p \in Levels /\ Stops(rs[p]) # {} /\ p = FirstOf(stop)
        /\ \A l \in Levels : l < p => Stops(rs[l]) = {}
    BY <1>3, <1>5, <1>7
  <2> DEFINE F == FifoOf(rs[p])
             k == FirstOf(Runnable(F))
  <2>2. i = k /\ s.queues[p] = F
    BY <1>1, <2>1
  <2> HIDE DEF p, i, ready
  <2>3. /\ Fits(Taken(rs[p]).ring)
        /\ FifoOf(Taken(rs[p]).ring) = TakeOut(F, k)
        /\ Taken(rs[p]).ec = F[k].ec
    BY <1>2, <2>1, TakenFifo
  <2>4. ASSUME NEW l \in Levels
        PROVE  /\ Fits(rings'[l])
               /\ FifoOf(rings'[l]) = IF l = p THEN TakeOut(F, k) ELSE FifoOf(rs[l])
    <3>1. l \in Int /\ p \in Int
      BY <2>1, QueueAssumption DEF Levels
    <3>2. CASE l > p
      BY <1>2, <1>3, <1>4, <1>7, <2>1, <3>1, <3>2
    <3>3. CASE l = p
      BY <1>3, <1>4, <1>7, <2>1, <2>3, <3>1, <3>3
    <3>4. CASE l < p
      <4>0. ~(l > FirstOf(stop)) /\ l # FirstOf(stop)
        BY <2>1, <3>1, <3>4
      <4>1. rings'[l] = Turned(rs[l])[rs[l].count]
        BY <1>4, <4>0
      <4>2. Stops(rs[l]) = {} /\ l # p
        BY <2>1, <3>1, <3>4
      <4> QED BY <1>2, <4>1, <4>2, TurnedFifo
    <3> QED BY <3>1, <3>2, <3>3, <3>4
  <2>5. AllFit(rings')
    BY <1>4, <2>4 DEF AllFit, Fits, InStep
  <2> HIDE DEF k, F
  <2>6. [l \in Levels |-> FifoOf(rings'[l])] = [queues EXCEPT ![p] = TakeOut(F, k)]
    BY <2>1, <2>4
  <2>7. t = QueueRecord([queues EXCEPT ![p] = TakeOut(F, k)], F[k].ec, prio, halt)
    <3> HIDE DEF queues
    <3> QED BY <1>3, <1>4, <1>7, <2>1, <2>3, <2>6 DEF View, QueueRecord
  <2> HIDE DEF t, queues
  <2>8. Dispatch(s) = WithTaken(s, s.queues[p][i].ec, p, TakeOut(s.queues[p], i))
    BY <1>7 DEF Dispatch, WithTaken, p, i, ready
  <2>9. s = QueueRecord(queues, NULL, prio, halt)
    BY <1>1 DEF QueueRecord
  <2>10. WithTaken(QueueRecord(queues, NULL, prio, halt), F[k].ec, p, TakeOut(F, k)) =
            QueueRecord([queues EXCEPT ![p] = TakeOut(F, k)], F[k].ec, prio, halt)
    BY QueueTaken
  <2>11. Dispatch(s) = t
    BY <2>2, <2>7, <2>8, <2>9, <2>10
  <2> QED BY <2>5, <2>11 DEF t, s
<1> QED BY <1>6, <1>7

\* What stands for the state of the rings.
LEMMA AbstractIsView ==
  /\ AbstractScheduler = View(rings, current_ec, priority, halted)
  /\ AbstractScheduler = QueueRecord(QueuesOf(rings), current_ec, priority, halted)
  /\ AbstractScheduler.queues = QueuesOf(rings)
  /\ AbstractScheduler.current_ec = current_ec
  /\ AbstractScheduler.priority = priority
  /\ AbstractScheduler.halted = halted
BY DEF AbstractScheduler, View, QueueRecord, QueuesOf

LEMMA ViewIsRecord ==
  ASSUME NEW rs, NEW cur, NEW prio, NEW halt
  PROVE  /\ View(rs, cur, prio, halt) = QueueRecord(QueuesOf(rs), cur, prio, halt)
         /\ View(rs, cur, prio, halt).queues = QueuesOf(rs)
         /\ View(rs, cur, prio, halt).current_ec = cur
         /\ View(rs, cur, prio, halt).priority = prio
         /\ View(rs, cur, prio, halt).halted = halt
BY DEF View, QueueRecord, QueuesOf

WithFlag(s, p, i, b) == [s EXCEPT !.queues[p][i].blocked = b]

LEMMA FlagChanged ==
  ASSUME NEW queues, NEW cur, NEW prio, NEW halt, NEW p, NEW i, NEW b
  PROVE  WithFlag(QueueRecord(queues, cur, prio, halt), p, i, b) =
            QueueRecord([queues EXCEPT ![p] = [queues[p] EXCEPT ![i].blocked = b]],
                        cur, prio, halt)
BY DEF QueueRecord, WithFlag

\* Where an EC waits in the queues is where the loops find it in the rings.
LEMMA PositionsFound ==
  ASSUME AllFit(rings), priority \in [EC -> Levels], NEW e \in EC
  PROVE  LET P == Positions(AbstractScheduler, e)
             D == Found(rings[priority[e]], e)
         IN  /\ D = {} <=> P = {}
             /\ D # {} => /\ FirstOf(P) = FirstOf(D) + 1
                          /\ FirstOf(D) \in 0 .. rings[priority[e]].count - 1
<1> DEFINE p == priority[e]
           q == rings[p]
           P == {i \in 1 .. Len(FifoOf(q)) : FifoOf(q)[i].ec = e}
<1>1. p \in Levels /\ InStep(q) /\ q.count \in Nat
  BY FifoEntries DEF AllFit, Fits
<1>2. Positions(AbstractScheduler, e) = P
  BY <1>1, AbstractIsView DEF Positions, QueuesOf
<1>3. /\ Found(q, e) = {} <=> P = {}
      /\ Found(q, e) # {} => FirstOf(P) = FirstOf(Found(q, e)) + 1
  BY <1>1, FoundPositions
<1>4. Found(q, e) \subseteq 0 .. q.count - 1 /\ Found(q, e) \in SUBSET Nat
  BY <1>1 DEF Found
<1>5. Found(q, e) # {} => FirstOf(Found(q, e)) \in Found(q, e)
  BY <1>4, FirstOfExists
<1> QED BY <1>2, <1>3, <1>4, <1>5

\* block() and unblock() find the same entry and set its flag.
LEMMA ViewMarked ==
  ASSUME AllFit(rings), priority \in [EC -> Levels], NEW e \in EC, NEW b \in BOOLEAN
  PROVE  /\ AllFit(SetFlag(e, b))
         /\ View(SetFlag(e, b), current_ec, priority, halted) =
               Marked(AbstractScheduler, e, b)
<1> DEFINE p == priority[e]
           q == rings[p]
           s == AbstractScheduler
           P == Positions(s, e)
           D == Found(q, e)
           j == FirstOf(D)
           r == [q EXCEPT !.blocked = [q.blocked EXCEPT ![After(q.head, j)] = b]]
<1>1. p \in Levels /\ Fits(q) /\ AllInStep(rings)
  BY DEF AllFit, AllInStep, Fits
<1>2. /\ D = {} <=> P = {}
      /\ D # {} => FirstOf(P) = j + 1 /\ j \in 0 .. q.count - 1
  BY PositionsFound
<1>3. /\ D = {} => SetFlag(e, b) = rings
      /\ D # {} => SetFlag(e, b) = Replaced(rings, p, r)
  BY <1>1, SetFlagRings DEF Replaced
<1>4. CASE D = {}
  <2>1. Marked(s, e, b) = s
    BY <1>2, <1>4 DEF Marked
  <2> QED BY <1>3, <1>4, <2>1, AbstractIsView
<1>5. CASE D # {}
  <2>1. Fits(r) /\ FifoOf(r) = [FifoOf(q) EXCEPT ![j + 1].blocked = b]
    BY <1>1, <1>2, <1>5, FlagFifo
  <2> HIDE DEF r
  <2>2. /\ AllFit(Replaced(rings, p, r))
        /\ QueuesOf(Replaced(rings, p, r)) = Replaced(QueuesOf(rings), p, FifoOf(r))
        /\ QueuesOf(rings)[p] = FifoOf(q)
    BY <1>1, <2>1, AllFitReplaced
  <2>3. Marked(s, e, b) = WithFlag(s, p, j + 1, b)
    <3>1. s.priority[e] = p /\ P # {} /\ FirstOf(P) = j + 1
      BY <1>2, <1>5, AbstractIsView
    <3>2. Marked(s, e, b) = WithFlag(s, s.priority[e], FirstOf(P), b)
      BY <3>1 DEF Marked, WithFlag
    <3> QED BY <3>1, <3>2
  <2> DEFINE queues == QueuesOf(rings)
             F == FifoOf(q)
             i == j + 1
  <2>4. s = QueueRecord(queues, current_ec, priority, halted)
    BY AbstractIsView
  <2> HIDE DEF s, queues, p, i, F
  <2>5. WithFlag(QueueRecord(queues, current_ec, priority, halted), p, i, b) =
          QueueRecord([queues EXCEPT ![p] = [queues[p] EXCEPT ![i].blocked = b]],
                      current_ec, priority, halted)
    BY FlagChanged
  <2>6. [queues EXCEPT ![p] = [queues[p] EXCEPT ![i].blocked = b]] =
           Replaced(queues, p, FifoOf(r))
    BY <2>1, <2>2 DEF Replaced, queues, F, i
  <2>7. Marked(s, e, b) = QueueRecord(Replaced(queues, p, FifoOf(r)),
                                      current_ec, priority, halted)
    BY <2>3, <2>4, <2>5, <2>6 DEF i
  <2>8. View(Replaced(rings, p, r), current_ec, priority, halted) =
           QueueRecord(QueuesOf(Replaced(rings, p, r)), current_ec, priority, halted)
    BY ViewIsRecord
  <2> QED BY <1>3, <1>5, <2>2, <2>7, <2>8 DEF queues, s
<1> QED BY <1>4, <1>5

\* unblock_all() clears the flags of all queues.
LEMMA ViewCleared ==
  ASSUME AllFit(rings)
  PROVE  LET t == [p \in Levels |-> Cleared(rings[p])] IN
         /\ AllFit(t)
         /\ View(t, current_ec, priority, halted) = AllUnblocked(AbstractScheduler)
<1> DEFINE t == [p \in Levels |-> Cleared(rings[p])]
           s == AbstractScheduler
           free(q) == [i \in 1 .. Len(q) |-> [ec |-> q[i].ec, blocked |-> FALSE]]
<1>1. \A p \in Levels : Fits(Cleared(rings[p])) /\
                        FifoOf(Cleared(rings[p])) = free(FifoOf(rings[p]))
  BY ClearedFifo DEF AllFit
<1>2. AllFit(t)
  BY <1>1 DEF AllFit, Fits, InStep
<1>3. QueuesOf(t) = [p \in Levels |-> free(FifoOf(rings[p]))]
  BY <1>1 DEF QueuesOf
<1>4. \A p \in Levels : s.queues[p] = FifoOf(rings[p])
  BY AbstractIsView DEF QueuesOf
<1>5. AllUnblocked(s) = WithQueues(s, [p \in Levels |-> free(s.queues[p])])
  BY DEF AllUnblocked, WithQueues
<1>6. [p \in Levels |-> free(s.queues[p])] = QueuesOf(t)
  BY <1>3, <1>4
<1> HIDE DEF t, s, free
<1>7. s = QueueRecord(QueuesOf(rings), current_ec, priority, halted)
  BY AbstractIsView DEF s
<1>8. WithQueues(QueueRecord(QueuesOf(rings), current_ec, priority, halted), QueuesOf(t)) =
        QueueRecord(QueuesOf(t), current_ec, priority, halted)
  BY FieldsChanged
<1>9. View(t, current_ec, priority, halted) =
         QueueRecord(QueuesOf(t), current_ec, priority, halted)
  BY ViewIsRecord
<1> QED BY <1>2, <1>5, <1>6, <1>7, <1>8, <1>9 DEF t, s

\* reprioritize() takes the entry out of one queue and puts it behind the
\* other one, as long as there is room.
LEMMA ViewReprioritized ==
  ASSUME AllFit(rings), priority \in [EC -> Levels], NEW e \in EC,
         NEW new \in Levels, new # priority[e], rings[new].count < MAX_ECS,
         Reprioritize(e, new)
  PROVE  AbstractScheduler' = Reprioritized(AbstractScheduler, e, new)
<1> DEFINE p == priority[e]
           q == rings[p]
           s == AbstractScheduler
           P == Positions(s, e)
           D == Found(q, e)
           j == FirstOf(D)
           given == [priority EXCEPT ![e] = new]
           queues == QueuesOf(rings)
           F == FifoOf(q)
<1>0. /\ rings' = IF D = {} THEN rings
                  ELSE [rings EXCEPT
                          ![p] = Compacted(q, j),
                          ![new] = Push(@, e, q.blocked[After(q.head, j)])]
      /\ priority' = given
      /\ UNCHANGED <<current_ec, halted, created>>
  BY DEF Reprioritize
<1>1. p \in Levels /\ Fits(q) /\ InStep(q) /\ given[e] = new
  BY DEF AllFit, Fits
<1>2. /\ D = {} <=> P = {}
      /\ D # {} => FirstOf(P) = j + 1 /\ j \in 0 .. q.count - 1
  BY PositionsFound
<1>3. /\ s = QueueRecord(queues, current_ec, priority, halted)
      /\ s.priority = priority /\ s.queues[p] = F
  BY <1>1, AbstractIsView DEF QueuesOf
<1>4. AbstractScheduler' = View(rings', current_ec, given, halted)
  <2>1. AbstractScheduler' = View(rings', current_ec', priority', halted')
    BY DEF AbstractScheduler, View
  <2> QED BY <1>0, <2>1
<1>5. CASE D = {}
  <2>1. Reprioritized(s, e, new) = [s EXCEPT !.priority[e] = new]
    BY <1>2, <1>5 DEF Reprioritized
  <2> HIDE DEF s, queues
  <2>2. [s EXCEPT !.priority[e] = new] = QueueRecord(queues, current_ec, given, halted)
    BY <1>3 DEF QueueRecord
  <2>3. View(rings, current_ec, given, halted) =
           QueueRecord(QueuesOf(rings), current_ec, given, halted)
    BY ViewIsRecord
  <2>4. rings' = rings
    BY <1>0, <1>5
  <2> QED BY <1>4, <2>1, <2>2, <2>3, <2>4 DEF s, queues
<1>6. CASE D # {}
  <2> DEFINE c == Compacted(q, j)
             b == q.blocked[After(q.head, j)]
             rs == Replaced(rings, p, c)
             i == j + 1
             t == Replaced(rs, new, Push(rs[new], e, b))
             removed == [s EXCEPT !.queues[s.priority[e]] = Without(s.queues[s.priority[e]], i),
                                  !.priority[e] = new]
  <2>1. Fits(c) /\ FifoOf(c) = Without(F, i)
    BY <1>1, <1>2, <1>6, CompactedEntries, CompactedFifo
  <2>2. AllFit(rs) /\ QueuesOf(rs) = Replaced(queues, p, FifoOf(c))
    <3> HIDE DEF c, q, p
    <3> QED BY <1>1, <2>1, AllFitReplaced
  <2>3. b \in BOOLEAN /\ F[i].blocked = b
    <3>1. j \in 0 .. q.count - 1 /\ q.blocked \in [Slot -> BOOLEAN] /\ q.head \in Int
          /\ j \in Int
      BY <1>1, <1>2, <1>6, RingFields DEF InStep
    <3>2. After(q.head, j) \in Slot
      BY <3>1, AfterSlot
    <3>3. F[j + 1].blocked = FlagAt(q, j)
      BY <1>1, <3>1, FifoPlaces
    <3> QED BY <3>1, <3>2, <3>3 DEF FlagAt
  <2>4. rs[new] = rings[new] /\ rs \in [Levels -> Ring]
    BY <2>2 DEF AllFit, Replaced
  <2>5. rings' = t
    <3>1. rings' = [rings EXCEPT ![p] = c, ![new] = Push(@, e, b)]
      BY <1>0, <1>6
    <3>2. [rings EXCEPT ![p] = c, ![new] = Push(@, e, b)] =
             [[rings EXCEPT ![p] = c] EXCEPT ![new] = Push(@, e, b)]
      OBVIOUS
    <3> QED BY <3>1, <3>2 DEF Replaced
  <2>6. /\ AllFit(t)
        /\ View(t, current_ec, given, halted) =
              Enqueue(View(rs, current_ec, given, halted), e, b)
    <3>1. given[e] \in Levels /\ rs[given[e]].count < MAX_ECS /\ e \in EC \cup {NULL}
      BY <1>1, <2>4
    <3> DEFINE r == [rs EXCEPT ![given[e]] = Push(rs[given[e]], e, b)]
    <3>2. t = r
      BY <1>1 DEF Replaced
    <3> HIDE DEF rs, given, b, t
    <3>3. /\ AllFit(r)
          /\ View(r, current_ec, given, halted) =
                Enqueue(View(rs, current_ec, given, halted), e, b)
      BY <2>2, <2>3, <3>1, ViewPush
    <3> QED BY <3>2, <3>3
  <2>7. Reprioritized(s, e, new) = Enqueue(removed, e, b)
    <3>1. /\ s.priority[e] = p /\ s.queues[p] = F /\ P # {} /\ FirstOf(P) = i
      BY <1>2, <1>3, <1>6
    <3>2. /\ Reprioritized(s, e, new) =
                Enqueue([s EXCEPT !.queues[s.priority[e]] =
                              Without(s.queues[s.priority[e]], FirstOf(P)),
                                  !.priority[e] = new],
                        e, s.queues[s.priority[e]][FirstOf(P)].blocked)
      BY <3>1 DEF Reprioritized
    <3> HIDE DEF s, P, F, i, b, p
    <3> QED BY <2>3, <3>1, <3>2
  <2>8. removed = View(rs, current_ec, given, halted)
    <3> DEFINE W == Without(F, i)
    <3>1. removed = [s EXCEPT !.queues[p] = W, !.priority[e] = new]
      BY <1>3
    <3>2. [s EXCEPT !.queues[p] = W, !.priority[e] = new] =
             [WithQueue(s, p, W) EXCEPT !.priority[e] = new]
      BY DEF WithQueue
    <3>3. WithQueue(QueueRecord(queues, current_ec, priority, halted), p, W) =
             QueueRecord([queues EXCEPT ![p] = W], current_ec, priority, halted)
      BY QueueChanged
    <3> HIDE DEF s, W, queues, p
    <3>4. [QueueRecord([queues EXCEPT ![p] = W], current_ec, priority, halted)
             EXCEPT !.priority[e] = new] =
             QueueRecord([queues EXCEPT ![p] = W], current_ec, given, halted)
      BY DEF QueueRecord
    <3>5. [queues EXCEPT ![p] = W] = QueuesOf(rs)
      BY <2>1, <2>2 DEF Replaced, W
    <3>6. View(rs, current_ec, given, halted) =
             QueueRecord(QueuesOf(rs), current_ec, given, halted)
      BY ViewIsRecord
    <3> QED BY <1>3, <3>1, <3>2, <3>3, <3>4, <3>5, <3>6
  <2> QED BY <1>4, <2>5, <2>6, <2>7, <2>8
<1> QED BY <1>5, <1>6

-----------------------------------------------------------------------------
\* With no more than MAX_ECS ECs no queue is ever longer than its ring.

FewEnough == IsFiniteSet(EC) /\ Cardinality(EC) <= MAX_ECS

\* A queue names an EC once.
LEMMA QueueBound ==
  ASSUME NEW s, Sound(s), NEW others, IsFiniteSet(others), NEW p \in Levels,
         \A i \in 1 .. Len(s.queues[p]) : s.queues[p][i].ec \in others
  PROVE  Len(s.queues[p]) <= Cardinality(others)
<1> DEFINE n == Len(s.queues[p])
           ecOf == [i \in 1 .. n |-> s.queues[p][i].ec]
<1>1. n \in Nat
  BY QueueEntries
<1>2. \A i, j \in 1 .. n : s.queues[p][i].ec = s.queues[p][j].ec => i = j
  BY DEF Sound, OnePlace
<1> HIDE DEF n
<1>3. ecOf \in Injection(1 .. n, others)
  BY <1>1, <1>2 DEF Injection, IsInjective, n
<1> HIDE DEF ecOf
<1>4. Cardinality(1 .. n) <= Cardinality(others)
  BY <1>3, FS_Injection
<1>5. Cardinality(1 .. n) = IF 1 > n THEN 0 ELSE n - 1 + 1
  BY <1>1, FS_Interval
<1> QED BY <1>1, <1>4, <1>5 DEF n

LEMMA QueueFits ==
  ASSUME FewEnough, NEW s, Sound(s), NEW p \in Levels
  PROVE  /\ Len(s.queues[p]) <= MAX_ECS
         /\ \A e \in EC : (\A i \in 1 .. Len(s.queues[p]) : s.queues[p][i].ec # e) =>
                               Len(s.queues[p]) < MAX_ECS
<1>1. /\ IsFiniteSet(EC) /\ Cardinality(EC) <= MAX_ECS /\ Cardinality(EC) \in Nat
      /\ MAX_ECS \in Nat
  BY FS_CardinalityType, QueueAssumption DEF FewEnough
<1>2. /\ Len(s.queues[p]) \in Nat
      /\ \A i \in 1 .. Len(s.queues[p]) : s.queues[p][i].ec \in EC
  BY QueueEntries
<1>3. Len(s.queues[p]) <= Cardinality(EC)
  BY <1>1, <1>2, QueueBound
<1>4. ASSUME NEW e \in EC, \A i \in 1 .. Len(s.queues[p]) : s.queues[p][i].ec # e
      PROVE  Len(s.queues[p]) < MAX_ECS
  <2> DEFINE others == EC \ {e}
  <2>1. IsFiniteSet(others) /\ Cardinality(others) = Cardinality(EC) - 1
    BY <1>1, FS_RemoveElement
  <2>2. \A i \in 1 .. Len(s.queues[p]) : s.queues[p][i].ec \in others
    BY <1>2, <1>4
  <2> HIDE DEF others
  <2>3. Len(s.queues[p]) <= Cardinality(others)
    BY <2>1, <2>2, QueueBound
  <2> QED BY <1>1, <1>2, <2>1, <2>3
<1> QED BY <1>1, <1>2, <1>3, <1>4

\* The rings are well formed and hold every EC in one place: the inductive
\* invariant of the refinement.
RInv == /\ Geometry
        /\ Sound(AbstractScheduler)
        /\ created = Members(AbstractScheduler)

LEMMA RingsFit ==
  ASSUME FewEnough, RInv
  PROVE  /\ AllFit(rings)
         /\ \A p \in Levels : Len(AbstractScheduler.queues[p]) = rings[p].count
         /\ \A p \in Levels, e \in EC :
               (\A i \in 1 .. Len(AbstractScheduler.queues[p]) :
                   AbstractScheduler.queues[p][i].ec # e) => rings[p].count < MAX_ECS
<1>1. AllInStep(rings) /\ Sound(AbstractScheduler)
  BY DEF RInv, Geometry
<1>2. \A p \in Levels : /\ AbstractScheduler.queues[p] = FifoOf(rings[p])
                        /\ InStep(rings[p])
  BY <1>1, AbstractIsView DEF QueuesOf, AllInStep
<1>3. \A p \in Levels : Len(AbstractScheduler.queues[p]) = rings[p].count
  BY <1>2, FifoEntries
<1>4. \A p \in Levels : Fits(rings[p])
  BY <1>1, <1>2, <1>3, QueueFits DEF Fits
<1>5. AllFit(rings)
  BY <1>1, <1>4 DEF AllFit, AllInStep
<1> QED BY <1>1, <1>3, <1>5, QueueFits

\* The EC that runs finds room in its queue.
LEMMA RunningFits ==
  ASSUME FewEnough, RInv, current_ec # NULL
  PROVE  /\ current_ec \in EC /\ priority[current_ec] \in Levels
         /\ rings[priority[current_ec]].count < MAX_ECS
<1>1. current_ec \in EC /\ priority \in [EC -> Levels]
  BY DEF RInv, Geometry
<1>2. Sound(AbstractScheduler) /\ AbstractScheduler.current_ec = current_ec
  BY AbstractIsView DEF RInv
<1>3. \A p \in Levels : \A i \in 1 .. Len(AbstractScheduler.queues[p]) :
         AbstractScheduler.queues[p][i].ec # current_ec
  BY <1>2 DEF Sound, OnePlace
<1> QED BY <1>1, <1>3, RingsFit

\* yield() and block() of the running EC: into its ring, then the scan.
LEMMA ViewYielded ==
  ASSUME FewEnough, RInv, Up, NEW b \in BOOLEAN, Scan(PushCurrent(b), priority, halted)
  PROVE  AbstractScheduler' = Dispatch(Preempted(AbstractScheduler, b))
<1> DEFINE s == AbstractScheduler
           r == View(rings, NULL, priority, halted)
           t == [rings EXCEPT ![priority[current_ec]] =
                                Push(rings[priority[current_ec]], current_ec, b)]
<1>1. /\ AllFit(rings) /\ current_ec \in EC \cup {NULL} /\ current_ec # NULL
      /\ priority[current_ec] \in Levels /\ rings[priority[current_ec]].count < MAX_ECS
  BY RingsFit, RunningFits DEF Up
<1>2. /\ AllFit(t)
      /\ View(t, NULL, priority, halted) = Enqueue(r, current_ec, b)
  BY <1>1, ViewPush
<1>3. PushCurrent(b) = t
  BY DEF PushCurrent
<1> HIDE DEF t
<1>4. View(rings, current_ec, priority, halted)' = Dispatch(View(t, NULL, priority, halted))
  BY <1>2, <1>3, ScanView
<1>5. Preempted(s, b) = Enqueue(r, current_ec, b)
  <2>1. s = QueueRecord(QueuesOf(rings), current_ec, priority, halted)
        /\ s.current_ec = current_ec
    BY AbstractIsView
  <2>2. r = QueueRecord(QueuesOf(rings), NULL, priority, halted)
    BY ViewIsRecord
  <2>3. WithCurrent(QueueRecord(QueuesOf(rings), current_ec, priority, halted), NULL) =
           QueueRecord(QueuesOf(rings), NULL, priority, halted)
    BY FieldsChanged
  <2> HIDE DEF s, r
  <2>4. Preempted(s, b) = Enqueue(WithCurrent(s, NULL), s.current_ec, b)
    BY DEF Preempted, WithCurrent
  <2> QED BY <2>1, <2>2, <2>3, <2>4
<1>6. AbstractScheduler' = View(rings, current_ec, priority, halted)'
  BY DEF AbstractScheduler, View
<1> QED BY <1>2, <1>4, <1>5, <1>6

\* schedule(): the same look at the number of entries, the same enqueue and,
\* for the first EC, the same scan.
LEMMA ViewScheduled ==
  ASSUME FewEnough, RInv, NEW e \in EC, NEW prio \in Levels, Schedule(e, prio)
  PROVE  /\ AbstractScheduler' =
               Scheduled([AbstractScheduler EXCEPT !.priority[e] = prio], e)
         /\ created' = IF AbstractScheduler'.halted = "queue full"
                       THEN created ELSE created \cup {e}
<1> DEFINE given == [priority EXCEPT ![e] = prio]
           pushed == [rings EXCEPT ![prio] = Push(rings[prio], e, FALSE)]
           s == [AbstractScheduler EXCEPT !.priority[e] = prio]
           view == View(rings, current_ec, given, halted)
<1>1. AllFit(rings) /\ \A p \in Levels : Len(AbstractScheduler.queues[p]) = rings[p].count
  BY RingsFit
<1>2. /\ priority \in [EC -> Levels] /\ given[e] = prio /\ halted = "no"
      /\ rings[prio].count \in Nat
  BY <1>1, FifoEntries DEF RInv, Geometry, Schedule, AllFit, Fits
<1>3. s = QueueRecord(QueuesOf(rings), current_ec, given, halted)
  <2> DEFINE a == AbstractScheduler
  <2>1. a = QueueRecord(QueuesOf(rings), current_ec, priority, halted)
    BY AbstractIsView
  <2> HIDE DEF a
  <2>2. [a EXCEPT !.priority[e] = prio] =
           QueueRecord(QueuesOf(rings), current_ec, given, halted)
    BY <2>1 DEF QueueRecord
  <2> QED BY <2>2 DEF a
<1>4. s = view
  BY <1>3, ViewIsRecord
<1>5. AbstractScheduler' = View(rings', current_ec', priority', halted')
  BY DEF AbstractScheduler, View
<1>6. /\ s.queues = QueuesOf(rings) /\ s.current_ec = current_ec
      /\ s.priority = given /\ s.halted = halted
      /\ Len(s.queues[s.priority[e]]) = rings[prio].count
  <2> HIDE DEF s
  <2>1. /\ s.queues = QueuesOf(rings) /\ s.current_ec = current_ec
        /\ s.priority = given /\ s.halted = halted
    BY <1>4, ViewIsRecord
  <2>2. AbstractScheduler.queues = QueuesOf(rings)
    BY AbstractIsView
  <2> HIDE DEF given
  <2> QED BY <1>1, <1>2, <2>1, <2>2
<1> HIDE DEF s
<1>7. CASE rings[prio].count >= MAX_ECS
  <2>1. /\ halted' = "queue full" /\ priority' = given
        /\ UNCHANGED <<rings, current_ec, created>>
    BY <1>7 DEF Schedule
  <2>2. Scheduled(s, e) = WithHalted(s, "queue full")
    BY <1>6, <1>7 DEF Scheduled, WithHalted
  <2> DEFINE panic == "queue full"
  <2>3. halted' = panic /\ Scheduled(s, e) = WithHalted(s, panic)
    BY <2>1, <2>2
  <2> HIDE DEF panic, given
  <2>4. WithHalted(QueueRecord(QueuesOf(rings), current_ec, given, halted), panic) =
           QueueRecord(QueuesOf(rings), current_ec, given, panic)
    BY FieldsChanged
  <2>5. AbstractScheduler' = QueueRecord(QueuesOf(rings), current_ec, given, panic)
    <3>1. AbstractScheduler' = View(rings, current_ec, given, panic)
      BY <1>5, <2>1, <2>3
    <3> QED BY <3>1, ViewIsRecord
  <2>6. AbstractScheduler'.halted = halted'
    BY <1>5 DEF View
  <2> QED BY <1>3, <2>1, <2>3, <2>4, <2>5, <2>6 DEF s
<1>8. CASE ~ (rings[prio].count >= MAX_ECS)
  <2>1. rings[given[e]].count < MAX_ECS /\ given[e] \in Levels
    BY <1>2, <1>8, QueueAssumption
  <2>2. pushed = [rings EXCEPT ![given[e]] = Push(rings[given[e]], e, FALSE)]
    BY <1>2
  <2>3. ASSUME NEW cur
        PROVE  /\ AllFit(pushed)
               /\ View(pushed, cur, given, halted) =
                     Enqueue(View(rings, cur, given, halted), e, FALSE)
    <3> HIDE DEF pushed, given
    <3> DEFINE b == FALSE
    <3>1. e \in EC \cup {NULL} /\ b \in BOOLEAN
      OBVIOUS
    <3> HIDE DEF b
    <3> DEFINE r == [rings EXCEPT ![given[e]] = Push(rings[given[e]], e, b)]
    <3>2. /\ AllFit(r)
          /\ View(r, cur, given, halted) =
                Enqueue(View(rings, cur, given, halted), e, b)
      BY <1>1, <2>1, <3>1, ViewPush
    <3> HIDE DEF r
    <3>3. pushed = r /\ b = FALSE
      BY <2>2 DEF r, b
    <3> QED BY <3>2, <3>3
  <2>4. /\ created' = created \cup {e}
        /\ IF current_ec = NULL
           THEN Scan(pushed, given, halted)
           ELSE /\ rings' = pushed
                /\ priority' = given
                /\ UNCHANGED <<current_ec, halted>>
    BY <1>8 DEF Schedule
  <2>5. Scheduled(s, e) = IF s.current_ec = NULL THEN Yielded(Enqueue(s, e, FALSE))
                                                 ELSE Enqueue(s, e, FALSE)
    BY <1>6, <1>8 DEF Scheduled
  <2>6. AbstractScheduler'.halted = halted'
    BY <1>5 DEF View
  <2>7. Enqueue(s, e, FALSE) = View(pushed, current_ec, given, halted)
    BY <1>4, <2>3
  <2>8. CASE current_ec = NULL
    <3>1. Scan(pushed, given, halted)
      BY <2>4, <2>8
    <3> HIDE DEF pushed, given, view
    <3>2. View(rings, current_ec, priority, halted)' =
             Dispatch(View(pushed, NULL, given, halted))
      BY <2>3, <3>1, ScanView
    <3>3. View(pushed, current_ec, given, halted).current_ec = NULL
      BY <2>8, ViewIsRecord
    <3>4. Scheduled(s, e) = Dispatch(View(pushed, NULL, given, halted))
      BY <1>6, <2>5, <2>7, <2>8, <3>3 DEF Yielded
    <3>5. halted' \in {halted, "no ECs to run"}
      BY <3>1 DEF Scan
    <3>6. halted' # "queue full"
      BY <1>2, <3>5
    <3>7. AbstractScheduler' = View(rings, current_ec, priority, halted)'
      BY <1>5
    <3> QED BY <2>4, <2>6, <3>2, <3>4, <3>6, <3>7 DEF s
  <2>9. CASE current_ec # NULL
    <3>1. /\ rings' = pushed /\ priority' = given /\ current_ec' = current_ec
          /\ halted' = halted
      BY <2>4, <2>9
    <3> HIDE DEF pushed, given, view
    <3>2. AbstractScheduler' = View(pushed, current_ec, given, halted)
      BY <1>5, <3>1
    <3>3. Scheduled(s, e) = Enqueue(s, e, FALSE)
      BY <1>6, <2>5, <2>9
    <3>4. AbstractScheduler'.halted # "queue full"
      BY <1>2, <2>6, <3>1
    <3> QED BY <2>4, <2>7, <3>2, <3>3, <3>4 DEF s
  <2> QED BY <2>8, <2>9
<1> QED BY <1>7, <1>8

-----------------------------------------------------------------------------
\* Every method does to the rings what it promises of the queues.

\* Empty rings are empty queues.
LEMMA EmptyView ==
  ASSUME Init
  PROVE  AbstractScheduler = EmptyScheduler
<1>1. \A p \in Levels : FifoOf(rings[p]) = << >>
  <2> SUFFICES ASSUME NEW p \in Levels PROVE FifoOf(rings[p]) = << >>
    OBVIOUS
  <2>1. InStep(rings[p]) /\ rings[p].count = 0
    BY InitGeometry DEF Geometry, AllInStep, Init, EmptyRing
  <2>2. FifoOf(rings[p]) \in Seq(RingEntry) /\ Len(FifoOf(rings[p])) = 0
    BY <2>1, FifoEntries
  <2> QED BY <2>2
<1>2. QueuesOf(rings) = [p \in Levels |-> << >>]
  BY <1>1 DEF QueuesOf
<1> DEFINE empty == [p \in Levels |-> << >>]
<1>3. EmptyScheduler = QueueRecord(empty, NULL, [e \in EC |-> 0], "no")
  BY DEF EmptyScheduler, QueueRecord
<1>4. AbstractScheduler = QueueRecord(QueuesOf(rings), current_ec, priority, halted)
  BY AbstractIsView
<1> HIDE DEF empty
<1> QED BY <1>2, <1>3, <1>4 DEF Init, empty

LEMMA InitRInv == Init => RInv
<1> SUFFICES ASSUME Init PROVE RInv
  OBVIOUS
<1>1. Geometry
  BY InitGeometry
<1>2. AbstractScheduler = EmptyScheduler
  BY EmptyView
<1>3. Sound(EmptyScheduler) /\ Members(EmptyScheduler) = {}
  BY EmptySound
<1> QED BY <1>1, <1>2, <1>3 DEF RInv, Init

\* One call, on the rings and on the queues.
LEMMA StepImplements ==
  ASSUME FewEnough, RInv, Next
  PROVE  Fifo!Next /\ RInv'
<1> DEFINE s == AbstractScheduler
<1>0. /\ Sound(s) /\ created = Members(s) /\ created \in SUBSET EC
      /\ s.current_ec = current_ec /\ s.priority = priority /\ s.halted = halted
      /\ priority \in [EC -> Levels] /\ AllFit(rings)
  BY RingsFit, AbstractIsView DEF RInv, Geometry
<1>1. Geometry'
  BY NextGeometry DEF RInv
<1>2. SUFFICES Fifo!Next /\ Sound(s') /\ created' = Members(s')
  BY <1>1 DEF RInv
<1>3. Up => Fifo!Up
  BY <1>0 DEF Up, Fifo!Up
<1>4. ASSUME NEW e \in EC, NEW prio \in Levels, Schedule(e, prio)
      PROVE  Fifo!Schedule(e, prio) /\ Sound(s') /\ created' = Members(s')
  <2> DEFINE r == [s EXCEPT !.priority[e] = prio]
  <2>1. /\ s' = Scheduled(r, e)
        /\ created' = IF s'.halted = "queue full" THEN created ELSE created \cup {e}
    BY <1>4, ViewScheduled DEF RInv
  <2>2. /\ halted = "no" /\ e \notin created /\ (current_ec # NULL \/ created = {})
    BY <1>4 DEF Schedule
  <2>3. e \notin Queued(s)
    BY <1>0, <2>2 DEF Members
  <2>4. Sound(r) /\ Members(r) = created /\ r.halted = "no"
    <3>1. Sound(r) /\ Members(r) = Members(s) /\ r.halted = s.halted
      BY <1>0, <2>3, PrioritySet
    <3> QED BY <1>0, <2>2, <3>1
  <2>5. Fifo!Schedule(e, prio)
    <3>1. Scheduled(r, e) = Fifo!Scheduled(r, e)
      BY DEF Fifo!Scheduled, Scheduled, Fifo!Yielded, Yielded, Fifo!Dispatch, Dispatch,
             Fifo!Runnable, Runnable, Fifo!FirstOf, FirstOf, Fifo!Levels, Levels,
             Fifo!TakeOut, TakeOut, Fifo!Enqueue, Enqueue, Fifo!Preempted, Preempted
    <3> QED BY <1>0, <2>1, <2>2, <3>1 DEF Fifo!Schedule
  <2> HIDE DEF r, s
  <2>6. \/ /\ s' = [r EXCEPT !.halted = "queue full"]
           /\ Sound(s') /\ Members(s') = Members(r)
        \/ /\ r.current_ec # NULL /\ Sound(s')
           /\ Members(s') = Members(r) \cup {e} /\ s'.halted = r.halted
        \/ /\ r.current_ec = NULL
           /\ Dispatched(Enqueue(r, e, FALSE), s')
           /\ Members(s') = Members(r) \cup {e}
           /\ s'.halted \in {r.halted, "no ECs to run"}
    <3>1. e \notin Members(r)
      BY <2>2, <2>4
    <3> QED BY <2>1, <2>4, <3>1, ScheduledSound
  <2>7. s' = [r EXCEPT !.halted = "queue full"] => s'.halted = "queue full"
    BY <2>4 DEF Sound, SchedulerState
  <2> QED BY <2>1, <2>4, <2>5, <2>6, <2>7 DEF Dispatched
<1>5. ASSUME Yield PROVE Fifo!Yield /\ Sound(s') /\ created' = Members(s')
  <2>1. Up /\ UNCHANGED created /\ s.current_ec # NULL
    BY <1>0, <1>5 DEF Yield, Up
  <2>2. s' = Dispatch(Preempted(s, FALSE))
    BY <1>5, <2>1, ViewYielded DEF Yield
  <2>3. s' = Yielded(s)
    BY <2>1, <2>2 DEF Yielded
  <2>4. Yielded(s) = Fifo!Yielded(s)
    BY DEF Fifo!Yielded, Yielded, Fifo!Dispatch, Dispatch, Fifo!Runnable, Runnable,
           Fifo!FirstOf, FirstOf, Fifo!Levels, Levels, Fifo!TakeOut, TakeOut,
           Fifo!Enqueue, Enqueue, Fifo!Preempted, Preempted
  <2>5. Fifo!Yield
    BY <1>3, <2>1, <2>3, <2>4 DEF Fifo!Yield
  <2> HIDE DEF s
  <2> QED BY <1>0, <2>1, <2>3, <2>5, YieldedSound DEF Dispatched
<1>6. ASSUME UnblockAll PROVE Fifo!UnblockAll /\ Sound(s') /\ created' = Members(s')
  <2>1. /\ Up /\ UNCHANGED <<current_ec, priority, halted, created>>
        /\ rings' = [p \in Levels |-> Cleared(rings[p])]
    BY <1>6 DEF UnblockAll, Cleared
  <2>2. s' = View(rings', current_ec', priority', halted')
    BY DEF AbstractScheduler, View
  <2>3. s' = AllUnblocked(s)
    BY <1>0, <2>1, <2>2, ViewCleared
  <2>4. AllUnblocked(s) = Fifo!AllUnblocked(s)
    BY DEF AllUnblocked, Fifo!AllUnblocked, Levels, Fifo!Levels
  <2>5. Fifo!UnblockAll
    BY <1>3, <2>1, <2>3, <2>4 DEF Fifo!UnblockAll
  <2> HIDE DEF s
  <2> QED BY <1>0, <2>1, <2>3, <2>5, AllUnblockedSound
<1>7. ASSUME NEW e \in created, NEW b \in BOOLEAN, rings' = SetFlag(e, b),
             UNCHANGED <<current_ec, priority, halted, created>>
      PROVE  /\ s' = Marked(s, e, b) /\ s' = Fifo!Marked(s, e, b)
             /\ Sound(s') /\ created' = Members(s')
  <2>1. e \in EC
    BY <1>0
  <2>2. s' = View(rings', current_ec', priority', halted')
    BY DEF AbstractScheduler, View
  <2>3. s' = Marked(s, e, b)
    BY <1>0, <1>7, <2>1, <2>2, ViewMarked
  <2>4. Marked(s, e, b) = Fifo!Marked(s, e, b)
    BY DEF Marked, Fifo!Marked, Positions, Fifo!Positions, FirstOf, Fifo!FirstOf
  <2> HIDE DEF s
  <2> QED BY <1>0, <1>7, <2>1, <2>3, <2>4, MarkedSound
<1>8. ASSUME NEW e \in created, Block(e)
      PROVE  Fifo!Block(e) /\ Sound(s') /\ created' = Members(s')
  <2>1. Up /\ UNCHANGED created /\ e \in EC
    BY <1>0, <1>8 DEF Block
  <2>2. Blocked(s, e) = Fifo!Blocked(s, e)
    BY DEF Blocked, Fifo!Blocked, Marked, Fifo!Marked, Positions, Fifo!Positions,
           Fifo!Dispatch, Dispatch, Fifo!Runnable, Runnable,
           Fifo!FirstOf, FirstOf, Fifo!Levels, Levels, Fifo!TakeOut, TakeOut,
           Fifo!Enqueue, Enqueue, Fifo!Preempted, Preempted
  <2>3. CASE e = current_ec
    <3>1. s' = Dispatch(Preempted(s, TRUE))
      BY <1>8, <2>1, <2>3, ViewYielded DEF Block
    <3>2. s' = Blocked(s, e)
      BY <1>0, <2>3, <3>1 DEF Blocked
    <3>3. Fifo!Block(e)
      BY <1>3, <2>1, <2>2, <3>2 DEF Fifo!Block
    <3> HIDE DEF s
    <3> QED BY <1>0, <2>1, <2>3, <3>2, <3>3, BlockedSound DEF Dispatched
  <2>4. CASE e # current_ec
    <3>1. s' = Marked(s, e, TRUE) /\ Sound(s') /\ created' = Members(s')
      BY <1>7, <1>8, <2>4 DEF Block
    <3>2. s' = Blocked(s, e)
      BY <1>0, <2>4, <3>1 DEF Blocked
    <3>3. Fifo!Block(e)
      BY <1>3, <2>1, <2>2, <3>2 DEF Fifo!Block
    <3> QED BY <3>1, <3>3
  <2> QED BY <2>3, <2>4
<1>9. ASSUME NEW e \in created, Unblock(e)
      PROVE  Fifo!Unblock(e) /\ Sound(s') /\ created' = Members(s')
  <2>1. Up /\ UNCHANGED created
    BY <1>9 DEF Unblock
  <2>2. s' = Fifo!Marked(s, e, FALSE) /\ Sound(s') /\ created' = Members(s')
    BY <1>7, <1>9 DEF Unblock
  <2> QED BY <1>3, <2>1, <2>2 DEF Fifo!Unblock, Fifo!Unblocked
<1>10. ASSUME NEW e \in created, NEW prio \in Levels, Reprioritize(e, prio)
       PROVE  Fifo!Reprioritize(e, prio) /\ Sound(s') /\ created' = Members(s')
  <2>1. Up /\ UNCHANGED created /\ e \in EC /\ prio # priority[e]
    BY <1>0, <1>10 DEF Reprioritize
  <2>2. rings[prio].count < MAX_ECS
    <3>1. \A i \in 1 .. Len(s.queues[prio]) : s.queues[prio][i].ec # e
      BY <1>0, <2>1 DEF Sound, OnePlace
    <3> QED BY <2>1, <3>1, RingsFit
  <2>3. s' = Reprioritized(s, e, prio)
    BY <1>0, <1>10, <2>1, <2>2, ViewReprioritized
  <2>4. Reprioritized(s, e, prio) = Fifo!Reprioritized(s, e, prio)
    BY DEF Reprioritized, Fifo!Reprioritized, Positions, Fifo!Positions,
           Fifo!FirstOf, FirstOf, Fifo!Without, Without, Fifo!Enqueue, Enqueue
  <2>5. Fifo!Reprioritize(e, prio)
    BY <1>0, <1>3, <2>1, <2>3, <2>4 DEF Fifo!Reprioritize
  <2> HIDE DEF s
  <2> QED BY <1>0, <2>1, <2>3, <2>5, ReprioritizedSound
<1> HIDE DEF s
<1>11. Fifo!Levels = Levels
  BY DEF Fifo!Levels, Levels
<1> QED BY <1>4, <1>5, <1>6, <1>8, <1>9, <1>10, <1>11 DEF Next, Fifo!Next

\* A stuttering step stutters.
LEMMA StutterImplements ==
  ASSUME RInv, UNCHANGED vars
  PROVE  UNCHANGED Fifo!vars /\ RInv'
<1>1. AbstractScheduler' = AbstractScheduler /\ created' = created
  BY DEF vars, AbstractScheduler
<1>2. Geometry'
  BY DEF RInv, Geometry, vars
<1> HIDE DEF AbstractScheduler
<1> QED BY <1>1, <1>2 DEF RInv, Fifo!vars

\* Every method of scheduler.cc:7-134 does to the rings what it promises of
\* the queues, as long as no more ECs exist than a ring has slots: only
\* schedule() looks for a free slot, so without that bound it is false.
THEOREM Refinement ==
  ASSUME IsFiniteSet(EC), Cardinality(EC) <= MAX_ECS
  PROVE  Spec => ImplementsFifo
<1>1. FewEnough
  BY DEF FewEnough
<1>2. Init => RInv
  BY InitRInv
<1>3. Init => Fifo!Init
  BY EmptyView DEF Init, Fifo!Init, Fifo!EmptyScheduler, EmptyScheduler, Levels, Fifo!Levels
<1>4. RInv /\ [Next]_vars => [Fifo!Next]_(Fifo!vars) /\ RInv'
  BY <1>1, StepImplements, StutterImplements
<1> QED BY <1>2, <1>3, <1>4, PTL DEF Spec, ImplementsFifo, Fifo!Spec
==============================================================================
