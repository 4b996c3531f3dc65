-------------------------- MODULE QueueStateProofs --------------------------
(***************************************************************************)
(* What the operators of QueueState preserve.  A queue is sound when it is *)
(* well typed, its cursor is in range and a refill that a listener waits   *)
(* for resumes just behind the last item.  It is idle when no refill is    *)
(* announced.  Operators that change the queue's length keep a queue sound *)
(* only if it is idle, which is why the commands cancel the refill first.  *)
(* Then what they keep besides: the revision, the current item, what is    *)
(* still to come.                                                          *)
(***************************************************************************)
EXTENDS PlayerCommands, SequenceTheorems, FiniteSetTheorems, TLAPS

CursorInRange(s) == s.position \in 0..Len(s.queue)
ResumeAtEnd(own, s) ==
  s.resumeAt # 0 => /\ s.resumeAt = Len(s.queue) + 1 /\ s.queue # <<>>
                    /\ own => s.activity # "None"
SeedPresent(s) ==
  /\ s.activity # "None" => s.queue # <<>>
  /\ s.started => s.activity # "None"

\* Where refills have the activity for their own, it says how they stand; a
\* player that decodes announces other work there as well.
Sound(own, s) ==
  /\ s \in QueueStates
  /\ CursorInRange(s)
  /\ ResumeAtEnd(own, s)
  /\ own => SeedPresent(s)

NoRefill(s) == s.activity = "None" /\ s.resumeAt = 0 /\ ~s.started

-----------------------------------------------------------------------------
\* A function on 1..n is a sequence of length n.
LEMMA FunctionIsSeq ==
  ASSUME NEW S, NEW n \in Nat, NEW f \in [1..n -> S]
  PROVE  f \in Seq(S) /\ Len(f) = n
<1>1. f \in Seq(S)
  BY SeqDef
<1> QED
  BY <1>1, LenProperties

-----------------------------------------------------------------------------
(* What is where after items were put in or taken out. *)

\* The first m elements of a sequence, others, and what follows the first n.
Spliced(s, m, mid, n) == SubSeq(s, 1, m) \o mid \o SubSeq(s, n + 1, Len(s))
IsSpliced(S, s, m, mid, n, t) ==
  /\ t \in Seq(S) /\ Len(t) = m + Len(mid) + (Len(s) - n)
  /\ \A i \in 1..m : t[i] = s[i]
  /\ \A i \in 1..Len(mid) : t[m + i] = mid[i]
  /\ \A i \in 1..Len(s) - n : t[m + Len(mid) + i] = s[n + i]

LEMMA SplicedElements ==
  ASSUME NEW S, NEW s \in Seq(S), NEW mid \in Seq(S),
         NEW m \in 0..Len(s), NEW n \in 0..Len(s), NEW t, t = Spliced(s, m, mid, n)
  PROVE  IsSpliced(S, s, m, mid, n, t)
<1> DEFINE front == SubSeq(s, 1, m)
           back == SubSeq(s, n + 1, Len(s))
           head == front \o mid
<1>1. Len(s) \in Nat /\ Len(mid) \in Nat /\ \A i \in 1..Len(s) : s[i] \in S
  BY ElementOfSeq, LenProperties
<1>2. /\ front \in Seq(S) /\ Len(front) = m
      /\ \A i \in 1..m : front[i] = s[i]
  <2>1. 1 \in Int /\ m \in Int /\ \A i \in 1..m : s[i] \in S
    BY <1>1
  <2>2. /\ front \in Seq(S)
        /\ Len(front) = IF 1 <= m THEN m - 1 + 1 ELSE 0
        /\ \A i \in 1..m - 1 + 1 : front[i] = s[1 + i - 1]
    BY <2>1, SubSeqProperties
  <2> HIDE DEF front
  <2> QED
    BY <1>1, <2>2
<1>3. /\ back \in Seq(S) /\ Len(back) = Len(s) - n
      /\ \A i \in 1..Len(s) - n : back[i] = s[n + i]
  <2>1. n + 1 \in Int /\ Len(s) \in Int /\ \A i \in n + 1..Len(s) : s[i] \in S
    BY <1>1
  <2>2. /\ back \in Seq(S)
        /\ Len(back) = IF n + 1 <= Len(s) THEN Len(s) - (n + 1) + 1 ELSE 0
        /\ \A i \in 1..Len(s) - (n + 1) + 1 : back[i] = s[n + 1 + i - 1]
    BY <2>1, SubSeqProperties
  <2> HIDE DEF back
  <2>3. \A i \in 1..Len(s) - n : n + 1 + i - 1 = n + i /\ i \in 1..Len(s) - (n + 1) + 1
    BY <1>1
  <2>4. \A i \in 1..Len(s) - n : back[i] = s[n + i]
    <3> TAKE i \in 1..Len(s) - n
    <3>1. back[i] = s[n + 1 + i - 1]
      BY <2>2, <2>3
    <3> QED
      BY <2>3, <3>1
  <2>5. Len(back) = Len(s) - n
    BY <1>1, <2>2
  <2> QED
    BY <2>2, <2>4, <2>5
<1>4. t = head \o back
  BY DEF Spliced
<1> HIDE DEF front, back
<1>5. /\ head \in Seq(S) /\ Len(head) = m + Len(mid)
      /\ \A i \in 1..m + Len(mid) : head[i] = IF i <= m THEN front[i] ELSE mid[i - m]
  BY <1>2, ConcatProperties
<1> HIDE DEF head
<1>6. /\ head \o back \in Seq(S) /\ Len(head \o back) = Len(head) + Len(back)
      /\ \A i \in 1..Len(head) + Len(back) :
           (head \o back)[i] = IF i <= Len(head) THEN head[i] ELSE back[i - Len(head)]
  BY <1>3, <1>5, ConcatProperties
<1>7. ASSUME NEW i \in 1..m PROVE t[i] = s[i]
  <2>1. /\ i \in 1..m + Len(mid) /\ i <= m /\ i <= Len(head)
        /\ i \in 1..Len(head) + Len(back)
    BY <1>1, <1>3, <1>5
  <2>2. t[i] = head[i]
    BY <1>4, <1>6, <2>1
  <2>3. head[i] = front[i]
    BY <1>5, <2>1
  <2> QED
    BY <1>2, <2>2, <2>3
<1>8. ASSUME NEW i \in 1..Len(mid) PROVE t[m + i] = mid[i]
  <2> DEFINE at == m + i
  <2>1. /\ at \in 1..m + Len(mid) /\ ~(at <= m) /\ at - m = i
        /\ at <= Len(head) /\ at \in 1..Len(head) + Len(back)
    BY <1>1, <1>3, <1>5
  <2> HIDE DEF at
  <2>2. t[at] = head[at]
    BY <1>4, <1>6, <2>1
  <2>3. head[at] = mid[i]
    BY <1>5, <2>1
  <2> QED
    BY <2>2, <2>3 DEF at
<1>9. ASSUME NEW i \in 1..Len(s) - n PROVE t[m + Len(mid) + i] = s[n + i]
  <2> DEFINE at == m + Len(mid) + i
  <2>1. at \in 1..Len(head) + Len(back) /\ ~(at <= Len(head)) /\ at - Len(head) = i
    BY <1>1, <1>3, <1>5
  <2> HIDE DEF at
  <2>2. t[at] = back[i]
    BY <1>4, <1>6, <2>1
  <2> QED
    BY <1>3, <2>2 DEF at
<1> QED
  BY <1>1, <1>3, <1>4, <1>5, <1>6, <1>7, <1>8, <1>9 DEF IsSpliced

LEMMA RemovedElements ==
  ASSUME NEW S, NEW s \in Seq(S), NEW index \in 1..Len(s)
  PROVE  LET t == RemoveAt(s, index)
         IN /\ t \in Seq(S) /\ Len(t) = Len(s) - 1
            /\ \A i \in 1..index - 1 : t[i] = s[i]
            /\ \A i \in index..Len(s) - 1 : t[i] = s[i + 1]
<1> DEFINE t == RemoveAt(s, index)
           m == index - 1
           front == SubSeq(s, 1, m)
           none == SubSeq(s, 1, 0)
<1>1. Len(s) \in Nat /\ \A i \in 1..Len(s) : s[i] \in S
  BY ElementOfSeq, LenProperties
<1>2. none \in Seq(S) /\ none = <<>> /\ Len(none) = 0
  BY EmptySeq, SubSeqEmpty
<1>3. front \in Seq(S)
  <2>1. 1 \in Int /\ index - 1 \in Int /\ \A i \in 1..index - 1 : s[i] \in S
    BY <1>1
  <2> QED
    BY <2>1, SubSeqProperties
<1>4. t = Spliced(s, m, none, index)
  <2>1. front \o <<>> = front
    BY <1>3, ConcatEmptySeq
  <2> QED
    BY <1>2, <2>1 DEF RemoveAt, Spliced
<1>5. m \in 0..Len(s) /\ index \in 0..Len(s) /\ m = index - 1
  BY <1>1
<1> HIDE DEF t, none, m
<1>6. /\ t \in Seq(S) /\ Len(t) = m + Len(none) + (Len(s) - index)
      /\ \A i \in 1..m : t[i] = s[i]
      /\ \A i \in 1..Len(s) - index : t[m + Len(none) + i] = s[index + i]
  <2>1. IsSpliced(S, s, m, none, index, t)
    BY <1>2, <1>4, <1>5, SplicedElements
  <2> QED
    BY <2>1 DEF IsSpliced
<1>7. ASSUME NEW i \in index..Len(s) - 1 PROVE t[i] = s[i + 1]
  <2> DEFINE j == i - index + 1
  <2>1. j \in 1..Len(s) - index /\ m + Len(none) + j = i /\ index + j = i + 1
    BY <1>1, <1>2, <1>5
  <2> HIDE DEF j
  <2>2. t[m + Len(none) + j] = s[index + j]
    BY <1>6, <2>1
  <2> QED
    BY <2>1, <2>2
<1>8. Len(t) = Len(s) - 1
  BY <1>1, <1>2, <1>5, <1>6
<1> QED
  BY <1>5, <1>6, <1>7, <1>8 DEF t

IsInserted(S, s, to, item, t) ==
  /\ t \in Seq(S) /\ Len(t) = Len(s) + 1 /\ t[to] = item
  /\ \A i \in 1..to - 1 : t[i] = s[i]
  /\ \A i \in to + 1..Len(s) + 1 : t[i] = s[i - 1]

LEMMA InsertedElements ==
  ASSUME NEW S, NEW s \in Seq(S), NEW to \in 1..Len(s) + 1, NEW item \in S
  PROVE  IsInserted(S, s, to, item, InsertAt(s, to, item))
<1> DEFINE t == InsertAt(s, to, item)
           one == <<item>>
           m == to - 1
<1>1. Len(s) \in Nat /\ one \in Seq(S) /\ Len(one) = 1 /\ one[1] = item
  BY LenProperties
<1>2. m \in 0..Len(s) /\ m + 1 = to
  BY <1>1
<1>3. t = Spliced(s, m, one, m)
  BY <1>2 DEF InsertAt, Spliced
<1> HIDE DEF t, one, m
<1>4. /\ t \in Seq(S) /\ Len(t) = m + Len(one) + (Len(s) - m)
      /\ \A i \in 1..m : t[i] = s[i]
      /\ \A i \in 1..Len(one) : t[m + i] = one[i]
      /\ \A i \in 1..Len(s) - m : t[m + Len(one) + i] = s[m + i]
  <2>1. IsSpliced(S, s, m, one, m, t)
    BY <1>1, <1>2, <1>3, SplicedElements
  <2> QED
    BY <2>1 DEF IsSpliced
<1>5. t[to] = item
  <2>1. 1 \in 1..Len(one)
    BY <1>1
  <2> QED
    BY <1>1, <1>2, <1>4, <2>1
<1>6. ASSUME NEW i \in to + 1..Len(s) + 1 PROVE t[i] = s[i - 1]
  <2> DEFINE j == i - to
  <2>1. j \in 1..Len(s) - m /\ m + Len(one) + j = i /\ m + j = i - 1
    BY <1>1, <1>2
  <2> HIDE DEF j
  <2>2. t[m + Len(one) + j] = s[m + j]
    BY <1>4, <2>1
  <2> QED
    BY <2>1, <2>2
<1>7. Len(t) = Len(s) + 1 /\ m = to - 1
  BY <1>1, <1>2, <1>4
<1> QED
  BY <1>4, <1>5, <1>6, <1>7 DEF t, IsInserted

IsRest(S, s, n, t) ==
  /\ t \in Seq(S) /\ Len(t) = Len(s) - n
  /\ \A i \in 1..Len(s) - n : t[i] = s[n + i]

LEMMA SuffixElements ==
  ASSUME NEW S, NEW s \in Seq(S), NEW n \in 0..Len(s)
  PROVE  IsRest(S, s, n, SubSeq(s, n + 1, Len(s)))
<1> DEFINE back == SubSeq(s, n + 1, Len(s))
<1>1. Len(s) \in Nat /\ \A i \in 1..Len(s) : s[i] \in S
  BY ElementOfSeq, LenProperties
<1>2. n + 1 \in Int /\ Len(s) \in Int /\ \A i \in n + 1..Len(s) : s[i] \in S
  BY <1>1
<1>3. /\ back \in Seq(S)
      /\ Len(back) = IF n + 1 <= Len(s) THEN Len(s) - (n + 1) + 1 ELSE 0
      /\ \A i \in 1..Len(s) - (n + 1) + 1 : back[i] = s[n + 1 + i - 1]
  BY <1>2, SubSeqProperties
<1> HIDE DEF back
<1>4. \A i \in 1..Len(s) - n : n + 1 + i - 1 = n + i /\ i \in 1..Len(s) - (n + 1) + 1
  BY <1>1
<1>5. \A i \in 1..Len(s) - n : back[i] = s[n + i]
  <2> TAKE i \in 1..Len(s) - n
  <2>1. back[i] = s[n + 1 + i - 1]
    BY <1>3, <1>4
  <2> QED
    BY <1>4, <2>1
<1>6. Len(back) = Len(s) - n
  BY <1>1, <1>3
<1> QED
  BY <1>3, <1>5, <1>6 DEF back, IsRest

LEMMA AppendedElements ==
  ASSUME NEW S, NEW a \in Seq(S), NEW b \in Seq(S), NEW t \in Seq(S),
         Len(t) = Len(a) + Len(b),
         \A i \in 1..Len(a) : t[i] = a[i],
         \A i \in 1..Len(b) : t[Len(a) + i] = b[i]
  PROVE  t = a \o b
<1> DEFINE u == a \o b
<1>1. Len(a) \in Nat /\ Len(b) \in Nat
  BY LenProperties
<1>2. /\ u \in Seq(S) /\ Len(u) = Len(a) + Len(b)
      /\ \A i \in 1..Len(a) + Len(b) : u[i] = IF i <= Len(a) THEN a[i] ELSE b[i - Len(a)]
  BY ConcatProperties
<1> HIDE DEF u
<1>3. ASSUME NEW i \in 1..Len(t) PROVE t[i] = u[i]
  <2>1. i \in 1..Len(a) + Len(b)
    OBVIOUS
  <2>2. CASE i <= Len(a)
    <3>1. i \in 1..Len(a)
      BY <1>1, <2>1, <2>2
    <3> QED
      BY <1>2, <2>1, <2>2, <3>1
  <2>3. CASE ~(i <= Len(a))
    <3> DEFINE j == i - Len(a)
    <3>1. j \in 1..Len(b) /\ Len(a) + j = i
      BY <1>1, <2>1, <2>3
    <3>2. u[i] = b[j]
      BY <1>2, <2>1, <2>3
    <3> HIDE DEF j
    <3>3. t[Len(a) + j] = b[j]
      BY <3>1
    <3> QED
      BY <3>1, <3>2, <3>3
  <2> QED
    BY <2>2, <2>3
<1> QED
  BY <1>2, <1>3, SeqEqual DEF u

-----------------------------------------------------------------------------
(* Play orders and flags. *)

\* A shuffled order is a sequence of as many indices of the queue.
LEMMA BuiltOrder ==
  ASSUME NEW n \in Nat, NEW first, NEW p \in BuildShuffleOrder(n, first)
  PROVE  p \in Seq(Nat) /\ Len(p) = n /\ \A i \in 1..n : p[i] \in 1..n
<1>1. Cardinality(1..n) = n
  BY FS_Interval
<1>2. p \in [1..n -> 1..n]
  BY <1>1 DEF BuildShuffleOrder, SetToSeqs
<1>3. p \in Seq(1..n)
  BY <1>2, SeqDef
<1> QED
  BY <1>2, <1>3, SeqMonotonic, LenProperties

LEMMA EnsuredOrder ==
  ASSUME NEW s \in QueueStates, NEW o \in EnsureShuffleOrder(s)
  PROVE  /\ o \in Seq(Nat) /\ Len(o) = Len(s.queue)
         /\ \A i \in 1..Len(s.queue) : o[i] \in 1..Len(s.queue)
<1>1. Len(s.queue) \in Nat /\ s.order \in Seq(Nat)
  BY DEF QueueStates
<1> QED
  BY <1>1, BuiltOrder DEF EnsureShuffleOrder, ShuffleOrderValid

LEMMA CursorPositive ==
  ASSUME NEW o \in Seq(Nat), NEW index
  PROVE  ShuffleCursor(o, index) \in Nat \ {0}
BY DEF ShuffleCursor

\* The empty queue, cancelling and every flag change keep a queue sound.
LEMMA EmptyQueueSound == \A own \in BOOLEAN : Sound(own, EmptyQueue) /\ NoRefill(EmptyQueue)
BY EmptySeq DEF Sound, NoRefill, EmptyQueue, QueueStates, CursorInRange,
                ResumeAtEnd, SeedPresent, Status, Repeat, Activity

LEMMA CancelSound ==
  ASSUME NEW own \in BOOLEAN, NEW s, Sound(own, s)
  PROVE  Sound(own, CancelRefill(s)) /\ NoRefill(CancelRefill(s))
<1>1. s \in QueueStates /\ s.revision + 1 \in Nat
  BY DEF Sound, QueueStates
<1>2. CancelRefill(s) \in QueueStates
  BY <1>1 DEF CancelRefill, QueueStates, Activity
<1> QED
  BY <1>1, <1>2 DEF Sound, NoRefill, CancelRefill, QueueStates, CursorInRange,
                    ResumeAtEnd, SeedPresent

\* What a command finds when it takes effect.
LEMMA PreparedSound ==
  ASSUME NEW own \in BOOLEAN, NEW s, Sound(own, s), NEW command
  PROVE  /\ Sound(own, Prepared(s, command))
         /\ command \in CancelsAutoplayRefill => NoRefill(Prepared(s, command))
<1> DEFINE t == IF command \in CancelsAutoplayRefill THEN CancelRefill(s) ELSE s
<1>1. Sound(own, t) /\ (command \in CancelsAutoplayRefill => NoRefill(t))
  BY CancelSound
<1>2. Prepared(s, command) \in {t, [t EXCEPT !.cleared = {}]}
  BY DEF Prepared
<1> HIDE DEF t
<1>3. Sound(own, [t EXCEPT !.cleared = {}])
      /\ (NoRefill(t) => NoRefill([t EXCEPT !.cleared = {}]))
  <2>1. t \in QueueStates
    BY <1>1 DEF Sound
  <2>2. [t EXCEPT !.cleared = {}] \in QueueStates
    BY <2>1 DEF QueueStates
  <2> QED
    BY <1>1, <2>1, <2>2 DEF Sound, NoRefill, QueueStates, CursorInRange,
                            ResumeAtEnd, SeedPresent
<1> QED
  BY <1>1, <1>2, <1>3

\* The two ways a new record is sound: what a refill relies on is as it was,
\* or no refill is announced.
LEMMA SoundIfKept ==
  ASSUME NEW own \in BOOLEAN, NEW s, Sound(own, s), NEW t \in QueueStates,
         t.queue = s.queue, t.position \in 0..Len(s.queue),
         t.resumeAt = s.resumeAt, t.activity = s.activity,
         t.started = s.started
  PROVE  Sound(own, t)
BY DEF Sound, CursorInRange, ResumeAtEnd, SeedPresent

LEMMA SoundIfNoRefill ==
  ASSUME NEW own \in BOOLEAN, NEW t \in QueueStates, NoRefill(t), t.position \in 0..Len(t.queue)
  PROVE  Sound(own, t)
BY DEF Sound, NoRefill, CursorInRange, ResumeAtEnd, SeedPresent

\* Fields that soundness does not relate to others may take any value.
LEMMA FlagsSound ==
  ASSUME NEW own \in BOOLEAN, NEW s, Sound(own, s), NEW v
  PROVE  /\ v \in Status => Sound(own, [s EXCEPT !.status = v])
         /\ v \in Repeat => Sound(own, [s EXCEPT !.repeat = v])
         /\ v \in 0..Len(s.queue) => Sound(own, [s EXCEPT !.position = v])
<1>1. s \in QueueStates /\ s.position \in 0..Len(s.queue)
      /\ Len(s.queue) \in Nat
  BY DEF Sound, CursorInRange, QueueStates
<1>2. ASSUME v \in Status PROVE Sound(own, [s EXCEPT !.status = v])
  <2> DEFINE t == [s EXCEPT !.status = v]
  <2>1. t \in QueueStates
    BY <1>1, <1>2 DEF QueueStates
  <2>2. /\ t.queue = s.queue /\ t.position = s.position
        /\ t.resumeAt = s.resumeAt /\ t.activity = s.activity
        /\ t.started = s.started
    BY <1>1 DEF QueueStates
  <2> HIDE DEF t
  <2>3. Sound(own, t)
    BY <1>1, <2>1, <2>2, SoundIfKept
  <2> QED
    BY <2>3 DEF t
<1>3. ASSUME v \in Repeat PROVE Sound(own, [s EXCEPT !.repeat = v])
  <2> DEFINE t == [s EXCEPT !.repeat = v]
  <2>1. t \in QueueStates
    BY <1>1, <1>3 DEF QueueStates
  <2>2. /\ t.queue = s.queue /\ t.position = s.position
        /\ t.resumeAt = s.resumeAt /\ t.activity = s.activity
        /\ t.started = s.started
    BY <1>1 DEF QueueStates
  <2> HIDE DEF t
  <2>3. Sound(own, t)
    BY <1>1, <2>1, <2>2, SoundIfKept
  <2> QED
    BY <2>3 DEF t
<1>4. ASSUME v \in 0..Len(s.queue) PROVE Sound(own, [s EXCEPT !.position = v])
  <2> DEFINE t == [s EXCEPT !.position = v]
  <2>0. v \in Nat
    BY <1>1, <1>4
  <2>1. t \in QueueStates
    BY <1>1, <2>0 DEF QueueStates
  <2>2. /\ t.queue = s.queue /\ t.position = v
        /\ t.resumeAt = s.resumeAt /\ t.activity = s.activity
        /\ t.started = s.started
    BY <1>1 DEF QueueStates
  <2> HIDE DEF t
  <2>3. Sound(own, t)
    BY <1>4, <2>1, <2>2, SoundIfKept
  <2> QED
    BY <2>3 DEF t
<1> QED
  BY <1>2, <1>3, <1>4

\* A new play order and cursor, as navigation sets them together.
LEMMA NavigationSound ==
  ASSUME NEW own \in BOOLEAN, NEW s, Sound(own, s), NEW o \in Seq(Nat), NEW v \in 0..Len(s.queue)
  PROVE  /\ Sound(own, [s EXCEPT !.order = o, !.position = v])
         /\ Sound(own, [s EXCEPT !.order = o])
<1> DEFINE t == [s EXCEPT !.order = o, !.position = v]
           u == [s EXCEPT !.order = o]
<1>1. s \in QueueStates /\ v \in Nat /\ s.position \in 0..Len(s.queue)
  BY DEF Sound, QueueStates, CursorInRange
<1>2. t \in QueueStates /\ u \in QueueStates
  BY <1>1 DEF QueueStates
<1>3. /\ t.queue = s.queue /\ t.position = v
      /\ t.resumeAt = s.resumeAt /\ t.activity = s.activity
      /\ t.started = s.started
  BY <1>1 DEF QueueStates
<1>4. /\ u.queue = s.queue /\ u.position = s.position
      /\ u.resumeAt = s.resumeAt /\ u.activity = s.activity
      /\ u.started = s.started
  BY <1>1 DEF QueueStates
<1> HIDE DEF t, u
<1>5. Sound(own, t) /\ Sound(own, u)
  BY <1>1, <1>2, <1>3, <1>4, SoundIfKept
<1> QED
  BY <1>5 DEF t, u

\* A queue of another length or content, once no refill is announced.
LEMMA EditSound ==
  ASSUME NEW own \in BOOLEAN, NEW s, Sound(own, s), NoRefill(s),
         NEW items \in Seq(Item), NEW v \in 0..Len(items), NEW status \in Status
  PROVE  /\ Sound(own, [s EXCEPT !.queue = items, !.position = v,
                            !.status = status])
         /\ Sound(own, [s EXCEPT !.queue = items, !.position = v])
         /\ s.position \in 0..Len(items) => Sound(own, [s EXCEPT !.queue = items])
<1> DEFINE t == [s EXCEPT !.queue = items, !.position = v, !.status = status]
           u == [s EXCEPT !.queue = items, !.position = v]
           w == [s EXCEPT !.queue = items]
<1>1. s \in QueueStates /\ v \in Nat
  BY DEF Sound, QueueStates
<1>2. t \in QueueStates /\ u \in QueueStates /\ w \in QueueStates
  BY <1>1 DEF QueueStates
<1>3. /\ t.queue = items /\ t.position = v /\ NoRefill(t)
      /\ u.queue = items /\ u.position = v /\ NoRefill(u)
      /\ w.queue = items /\ w.position = s.position /\ NoRefill(w)
  BY <1>1 DEF QueueStates, NoRefill
<1> HIDE DEF t, u, w
<1>4. Sound(own, t) /\ Sound(own, u) /\ (s.position \in 0..Len(items) => Sound(own, w))
  BY <1>2, <1>3, SoundIfNoRefill
<1> QED
  BY <1>4 DEF t, u, w

-----------------------------------------------------------------------------
(* Navigation. *)

\* An advance chooses an index of the queue, or its end.
LEMMA ChoiceInRange ==
  ASSUME NEW own \in BOOLEAN, NEW s, Sound(own, s), s.position # 0, NEW c \in AdvanceChoices(s)
  PROVE  c[1] \in Seq(Nat) /\ c[2] \in 0..Len(s.queue)
<1> DEFINE len == Len(s.queue)
<1>1. /\ s \in QueueStates /\ len \in Nat /\ s.position \in 1..len
      /\ s.order \in Seq(Nat)
  BY DEF Sound, CursorInRange, QueueStates
<1>2. CASE ~s.shuffle
  BY <1>1, <1>2 DEF AdvanceChoices, SequentialNext
<1>3. CASE s.shuffle
  <2>1. PICK o \in EnsureShuffleOrder(s) : c \in ChoicesAlong(s, o)
    BY <1>3 DEF AdvanceChoices
  <2> DEFINE cursor == ShuffleCursor(o, s.position)
  <2>2. /\ o \in Seq(Nat) /\ Len(o) = len
        /\ \A i \in 1..len : o[i] \in 1..len
    BY <1>1, EnsuredOrder
  <2>3. cursor \in Nat \ {0}
    BY <2>2, CursorPositive
  <2> HIDE DEF cursor
  <2>4. CASE cursor < len
    <3>1. c = <<o, o[cursor + 1]>>
      BY <1>1, <2>1, <2>3, <2>4 DEF cursor, ChoicesAlong
    <3>2. o[cursor + 1] \in 1..len
      BY <1>1, <2>2, <2>3, <2>4
    <3> QED
      BY <1>1, <2>2, <3>1, <3>2
  <2>5. CASE ~(cursor < len) /\ s.repeat = "All"
    <3>1. PICK p \in BuildShuffleOrder(len, 0) : c = <<p, p[1]>>
      BY <1>1, <2>1, <2>3, <2>5 DEF cursor, ChoicesAlong
    <3>2. p \in Seq(Nat) /\ p[1] \in 1..len
      BY <1>1, BuiltOrder
    <3> QED
      BY <1>1, <3>1, <3>2
  <2>6. CASE ~(cursor < len) /\ s.repeat # "All"
    <3>1. c = <<o, 0>>
      BY <1>1, <2>1, <2>3, <2>6 DEF cursor, ChoicesAlong
    <3> QED
      BY <1>1, <2>2, <3>1
  <2> QED
    BY <2>4, <2>5, <2>6
<1> QED
  BY <1>2, <1>3

LEMMA LandedSound ==
  ASSUME NEW own \in BOOLEAN, NEW s, Sound(own, s), NEW next \in 0..Len(s.queue), NEW stop
  PROVE  Sound(own, Landed(s, next, stop))
<1> DEFINE t == ClearExhaustionAfterAdvance(s, next)
<1>1. Sound(own, t) /\ t.queue = s.queue
  BY CancelSound DEF ClearExhaustionAfterAdvance, CancelRefill, Sound, QueueStates
<1> HIDE DEF t
<1>2. Sound(own, [t EXCEPT !.position = next])
  BY <1>1, FlagsSound
<1>3. Sound(own, [s EXCEPT !.status = "Stopped"])
  BY FlagsSound DEF Status
<1> QED
  BY <1>2, <1>3 DEF Landed, t

LEMMA AdvanceSound ==
  ASSUME NEW own \in BOOLEAN, NEW s, Sound(own, s), NEW stop, NEW t \in Advance(s, stop)
  PROVE  Sound(own, t)
<1>1. CASE s.position = 0 \/ s.queue = <<>>
  BY <1>1 DEF Advance
<1>2. CASE ~(s.position = 0 \/ s.queue = <<>>)
  <2>1. PICK c \in AdvanceChoices(s) :
          t = Landed([s EXCEPT !.order = c[1]], c[2], stop)
    BY <1>2 DEF Advance
  <2> DEFINE u == [s EXCEPT !.order = c[1]]
  <2>2. c[1] \in Seq(Nat) /\ c[2] \in 0..Len(s.queue)
    BY <1>2, ChoiceInRange
  <2>3. Sound(own, u)
    <3>1. s.position \in 0..Len(s.queue)
      BY DEF Sound, CursorInRange
    <3> QED
      BY <2>2, <3>1, NavigationSound
  <2>4. u.queue = s.queue
    BY DEF Sound, QueueStates
  <2> HIDE DEF u
  <2>5. Sound(own, Landed(u, c[2], stop))
    BY <2>2, <2>3, <2>4, LandedSound
  <2> QED
    BY <2>1, <2>5 DEF u
<1> QED
  BY <1>1, <1>2

\* What is put off until the refill resumes behind the last item.
LEMMA PreserveSound ==
  ASSUME NEW own \in BOOLEAN, NEW s, Sound(own, s), s.activity # "None",
         s.queue # <<>>
  PROVE  Sound(own, PreserveRefillResume(s))
<1> DEFINE t == PreserveRefillResume(s)
<1>1. s \in QueueStates /\ Len(s.queue) + 1 \in Nat
  BY DEF Sound, QueueStates
<1>2. t \in QueueStates
  BY <1>1 DEF PreserveRefillResume, QueueStates
<1>3. /\ t.queue = s.queue /\ t.position = s.position
      /\ t.activity = s.activity /\ t.started = s.started
      /\ t.resumeAt = Len(s.queue) + 1
  BY <1>1 DEF PreserveRefillResume, QueueStates
<1> HIDE DEF t
<1>4. Sound(own, t)
  BY <1>2, <1>3 DEF Sound, CursorInRange, ResumeAtEnd, SeedPresent
<1> QED
  BY <1>4 DEF t

\* The end of a track while a refill is announced sets where it resumes.
LEMMA TrackEndedSound ==
  ASSUME NEW s, Sound(TRUE, s), NEW t \in TrackEnded(s)
  PROVE  Sound(TRUE, t)
<1>1. ASSUME NEW u, Sound(TRUE, u), u.activity # "None"
      PROVE  Sound(TRUE, PreserveRefillResume(u))
  BY <1>1, PreserveSound DEF Sound, SeedPresent
<1> QED
  BY <1>1, AdvanceSound DEF TrackEnded

LEMMA StepPreviousSound ==
  ASSUME NEW own \in BOOLEAN, NEW s, Sound(own, s), NEW t \in StepPrevious(s)
  PROVE  Sound(own, t)
<1> DEFINE len == Len(s.queue)
<1>1. s \in QueueStates /\ len \in Nat /\ s.position \in 0..len
  BY DEF Sound, CursorInRange, QueueStates
<1>2. CASE s.position = 0
  BY <1>2 DEF StepPrevious
<1>3. CASE s.position # 0 /\ s.shuffle
  <2>1. PICK o \in EnsureShuffleOrder(s) :
          t = [s EXCEPT !.order = o, !.position = IndexBefore(s, o)]
    <3>1. t \in {[s EXCEPT !.order = o, !.position = IndexBefore(s, o)] :
                   o \in EnsureShuffleOrder(s)}
      BY <1>3, Zenon DEF StepPrevious
    <3> QED
      BY <3>1
  <2>2. /\ o \in Seq(Nat) /\ Len(o) = len
        /\ \A i \in 1..len : o[i] \in 1..len
    BY <1>1, EnsuredOrder
  <2> DEFINE cursor == ShuffleCursor(o, s.position)
  <2>3. cursor \in Nat /\ (cursor > 1 => cursor \in 1..len)
    <3>1. CASE \E i \in 1..Len(o) : o[i] = s.position
      <4>1. cursor = CHOOSE i \in 1..Len(o) : o[i] = s.position
        BY <3>1 DEF ShuffleCursor
      <4>2. cursor \in 1..Len(o)
        BY <3>1, <4>1
      <4> HIDE DEF cursor
      <4> QED
        BY <1>1, <2>2, <4>2
    <3>2. CASE ~\E i \in 1..Len(o) : o[i] = s.position
      BY <3>2 DEF ShuffleCursor
    <3> QED
      BY <3>1, <3>2
  <2> HIDE DEF cursor
  <2>4. CASE cursor > 1
    <3>1. IndexBefore(s, o) = o[cursor - 1]
      BY <2>3, <2>4 DEF IndexBefore, cursor
    <3>2. o[cursor - 1] \in 0..len
      BY <1>1, <2>2, <2>3, <2>4
    <3> QED
      BY <2>1, <2>2, <3>1, <3>2, NavigationSound
  <2>5. CASE ~(cursor > 1) /\ s.repeat = "All"
    <3>1. IndexBefore(s, o) = o[Len(o)]
      BY <2>3, <2>5 DEF IndexBefore, cursor
    <3>2. o[len] \in 0..len
      <4>1. len \in 1..len
        BY <1>1, <1>3
      <4> QED
        BY <1>1, <2>2, <4>1
    <3>3. o[Len(o)] \in 0..len
      BY <2>2, <3>2
    <3> QED
      BY <2>1, <2>2, <3>1, <3>3, NavigationSound
  <2>6. CASE ~(cursor > 1) /\ s.repeat # "All"
    <3>1. IndexBefore(s, o) = s.position
      BY <2>3, <2>6 DEF IndexBefore, cursor
    <3> QED
      BY <1>1, <2>1, <2>2, <3>1, NavigationSound
  <2> QED
    BY <2>4, <2>5, <2>6
<1>4. CASE s.position # 0 /\ ~s.shuffle
  <2>1. \/ t = s
        \/ t = [s EXCEPT !.position = s.position - 1]
        \/ t = [s EXCEPT !.position = len]
    BY <1>1, <1>4 DEF StepPrevious
  <2>2. s.position - 1 \in 0..len /\ len \in 0..len
    BY <1>1, <1>4
  <2>3. /\ Sound(own, [s EXCEPT !.position = s.position - 1])
        /\ Sound(own, [s EXCEPT !.position = len])
    BY <2>2, FlagsSound
  <2> QED
    BY <2>1, <2>3
<1> QED
  BY <1>2, <1>3, <1>4
-----------------------------------------------------------------------------
(* Commands that change the queue, which find it idle. *)

LEMMA ItemsAreSeq ==
  ASSUME NEW s \in QueueStates, NEW m \in Nat, NEW n \in Nat,
         m >= 1, n <= Len(s.queue)
  PROVE  /\ SubSeq(s.queue, m, n) \in Seq(Item)
         /\ Len(SubSeq(s.queue, m, n)) = IF m <= n THEN n - m + 1 ELSE 0
<1>1. s.queue \in Seq(Item)
  BY DEF QueueStates
<1>2. \A i \in m..n : s.queue[i] \in Item
  BY <1>1, ElementOfSeq
<1> QED
  BY <1>2, SubSeqProperties

LEMMA ClearSound ==
  ASSUME NEW own \in BOOLEAN, NEW s, Sound(own, s), NoRefill(s)
  PROVE  Sound(own, ClearQueue(s))
<1> DEFINE t == ClearQueue(s)
<1>1. s \in QueueStates
  BY DEF Sound
<1>2. t \in QueueStates
  BY <1>1, EmptySeq DEF ClearQueue, QueueStates, Status
<1>3. t.queue = <<>> /\ t.position = 0 /\ NoRefill(t)
  BY <1>1 DEF ClearQueue, QueueStates, NoRefill
<1> HIDE DEF t
<1>4. t.position \in 0..Len(t.queue)
  BY <1>3, EmptySeq
<1> QED
  BY <1>2, <1>3, <1>4, SoundIfNoRefill DEF t

LEMMA RestoreClearedSound ==
  ASSUME NEW own \in BOOLEAN, NEW s, Sound(own, s), s.queue = <<>>, NEW old \in s.cleared
  PROVE  Sound(own, [s EXCEPT !.queue = old, !.cleared = {}])
<1> DEFINE t == [s EXCEPT !.queue = old, !.cleared = {}]
<1>1. s \in QueueStates /\ old \in Seq(Item) /\ Len(old) \in Nat
  BY DEF Sound, QueueStates
<1>2. t \in QueueStates
  BY <1>1 DEF QueueStates
<1>3. /\ s.position = 0 /\ s.resumeAt = 0
      /\ own => s.activity = "None" /\ ~s.started
  BY <1>1, EmptySeq DEF Sound, QueueStates, CursorInRange, ResumeAtEnd,
                        SeedPresent
<1>4. /\ t.queue = old /\ t.position = 0 /\ t.resumeAt = 0
      /\ own => t.activity = "None" /\ ~t.started
  BY <1>1, <1>3 DEF QueueStates
<1> HIDE DEF t
<1>5. Sound(own, t)
  BY <1>1, <1>2, <1>4 DEF Sound, CursorInRange, ResumeAtEnd, SeedPresent
<1> QED
  BY <1>5 DEF t

LEMMA PlayIndexSound ==
  ASSUME NEW own \in BOOLEAN, NEW s, Sound(own, s), NEW index
  PROVE  Sound(own, PlayIndex(s, index))
<1>1. CASE index \in 1..Len(s.queue)
  <2>1. s \in QueueStates /\ index \in 0..Len(s.queue) /\ index \in Nat
        /\ Len(s.queue) \in Nat
    BY <1>1 DEF Sound, QueueStates
  <2> DEFINE t == [s EXCEPT !.position = index]
  <2>2. Sound(own, t)
    BY <2>1, FlagsSound
  <2>3. Sound(own, [t EXCEPT !.status = "Playing"])
    BY <2>2, FlagsSound DEF Status
  <2>4. PlayIndex(s, index) = [t EXCEPT !.status = "Playing"]
    BY <1>1, <2>1 DEF PlayIndex, QueueStates
  <2> QED
    BY <2>3, <2>4
<1>2. CASE index \notin 1..Len(s.queue)
  BY <1>2 DEF PlayIndex
<1> QED
  BY <1>1, <1>2

LEMMA ReplaceSound ==
  ASSUME NEW own \in BOOLEAN, NEW s, Sound(own, s), NoRefill(s), NEW items \in Seq(Item), NEW start \in Nat
  PROVE  Sound(own, ReplaceQueue(s, items, start))
<1> DEFINE v == IF start <= Len(items) THEN start ELSE Len(items)
           status == IF items = <<>> THEN "Stopped" ELSE "Playing"
<1>1. v \in 0..Len(items) /\ status \in Status
  BY LenProperties DEF Status
<1>2. ReplaceQueue(s, items, start) =
        [s EXCEPT !.queue = items, !.position = v, !.status = status]
  BY DEF ReplaceQueue
<1> HIDE DEF v, status
<1>3. Sound(own, [s EXCEPT !.queue = items, !.position = v, !.status = status])
  BY <1>1, EditSound, Zenon
<1> QED
  BY <1>2, <1>3

LEMMA SetShuffleSound ==
  ASSUME NEW own \in BOOLEAN, NEW s, Sound(own, s), NEW enabled, NEW t \in ShuffleTo(s, enabled)
  PROVE  Sound(own, t)
<1>1. s \in QueueStates /\ s.position \in 0..Len(s.queue)
      /\ Len(s.queue) \in Nat
  BY DEF Sound, CursorInRange, QueueStates
<1>2. PICK o \in Seq(Nat), b \in BOOLEAN :
        t = [s EXCEPT !.shuffle = b, !.order = o]
  <2>1. CASE enabled
    <3>1. PICK o \in BuildShuffleOrder(Len(s.queue), s.position) :
            t = [s EXCEPT !.shuffle = TRUE, !.order = o]
      BY <2>1 DEF ShuffleTo
    <3>2. o \in Seq(Nat)
      BY <1>1, BuiltOrder
    <3> QED
      BY <3>1, <3>2
  <2>2. CASE ~enabled
    <3>1. t = [s EXCEPT !.shuffle = FALSE, !.order = <<>>]
      BY <2>2 DEF ShuffleTo
    <3>2. <<>> \in Seq(Nat)
      BY EmptySeq
    <3> QED
      BY <3>1, <3>2
  <2> QED
    BY <2>1, <2>2
<1>3. t \in QueueStates
  BY <1>1, <1>2 DEF QueueStates
<1>4. /\ t.queue = s.queue /\ t.position = s.position
      /\ t.resumeAt = s.resumeAt /\ t.activity = s.activity
      /\ t.started = s.started
  BY <1>1, <1>2 DEF QueueStates
<1> QED
  BY <1>1, <1>3, <1>4, SoundIfKept
LEMMA RemoveAtSeq ==
  ASSUME NEW s \in QueueStates, NEW index \in 1..Len(s.queue)
  PROVE  /\ RemoveAt(s.queue, index) \in Seq(Item)
         /\ Len(RemoveAt(s.queue, index)) = Len(s.queue) - 1
BY RemovedElements DEF QueueStates

LEMMA RemoveSound ==
  ASSUME NEW own \in BOOLEAN, NEW s, Sound(own, s), NoRefill(s), NEW index \in Nat
  PROVE  Sound(own, RemoveItem(s, index))
<1> DEFINE len == Len(s.queue)
           rest == RemoveAt(s.queue, index)
<1>1. s \in QueueStates /\ len \in Nat /\ s.position \in 0..len
      /\ s.status \in Status
  BY DEF Sound, CursorInRange, QueueStates
<1>2. CASE index \notin 1..len
  BY <1>2 DEF RemoveItem
<1>3. CASE index \in 1..len
  <2>1. rest \in Seq(Item) /\ Len(rest) = len - 1
    BY <1>1, <1>3, RemoveAtSeq
  <2> HIDE DEF rest
  <2>2. CASE s.position = index /\ rest = <<>>
    <3>1. RemoveItem(s, index) =
            [s EXCEPT !.queue = rest, !.position = 0, !.status = "Stopped"]
      BY <1>3, <2>2 DEF RemoveItem, rest
    <3>2. 0 \in 0..Len(rest) /\ "Stopped" \in Status
      BY <1>1, <1>3, <2>1 DEF Status
    <3>3. Sound(own, [s EXCEPT !.queue = rest, !.position = 0,
                          !.status = "Stopped"])
      BY <2>1, <3>2, EditSound, Zenon
    <3> QED
      BY <3>1, <3>3
  <2>3. CASE s.position = index /\ rest # <<>>
    <3> DEFINE v == IF s.position <= Len(rest) THEN s.position ELSE Len(rest)
    <3>1. RemoveItem(s, index) = [s EXCEPT !.queue = rest, !.position = v]
      BY <1>3, <2>3 DEF RemoveItem, rest
    <3>2. v \in 0..Len(rest)
      BY <1>1, <1>3, <2>1
    <3> HIDE DEF v
    <3>3. Sound(own, [s EXCEPT !.queue = rest, !.position = v])
      BY <1>1, <2>1, <3>2, EditSound, Zenon
    <3> QED
      BY <3>1, <3>3
  <2>4. CASE s.position > index
    <3>1. RemoveItem(s, index) =
            [s EXCEPT !.queue = rest, !.position = s.position - 1]
      BY <1>1, <1>3, <2>4 DEF RemoveItem, rest
    <3>2. s.position - 1 \in 0..Len(rest)
      BY <1>1, <1>3, <2>1, <2>4
    <3>3. Sound(own, [s EXCEPT !.queue = rest, !.position = s.position - 1])
      BY <1>1, <2>1, <3>2, EditSound, Zenon
    <3> QED
      BY <3>1, <3>3
  <2>5. CASE s.position # index /\ ~(s.position > index)
    <3>1. RemoveItem(s, index) = [s EXCEPT !.queue = rest]
      BY <1>1, <1>3, <2>5 DEF RemoveItem, rest
    <3>2. s.position \in 0..Len(rest)
      BY <1>1, <1>3, <2>1, <2>5
    <3>3. Sound(own, [s EXCEPT !.queue = rest])
      BY <1>1, <2>1, <3>2, EditSound, Zenon
    <3> QED
      BY <3>1, <3>3
  <2> QED
    BY <1>1, <1>3, <2>2, <2>3, <2>4, <2>5
<1> QED
  BY <1>2, <1>3

LEMMA ReindexInRange ==
  ASSUME NEW n \in Nat, NEW pos \in 1..n, NEW from \in 1..n, NEW to \in 1..n
  PROVE  ReindexAfterMove(pos, from, to) \in 1..n
<1>1. CASE pos = from
  BY <1>1 DEF ReindexAfterMove
<1>2. CASE from < pos /\ pos <= to
  BY <1>2 DEF ReindexAfterMove
<1>3. CASE to <= pos /\ pos < from
  BY <1>3 DEF ReindexAfterMove
<1>4. CASE pos # from /\ ~(from < pos /\ pos <= to) /\ ~(to <= pos /\ pos < from)
  BY <1>4 DEF ReindexAfterMove
<1> QED
  BY <1>1, <1>2, <1>3, <1>4

\* An item taken out and put back leaves the queue's length as it was.
LEMMA InsertAtSeq ==
  ASSUME NEW items \in Seq(Item), NEW to \in 1..Len(items) + 1,
         NEW item \in Item
  PROVE  /\ InsertAt(items, to, item) \in Seq(Item)
         /\ Len(InsertAt(items, to, item)) = Len(items) + 1
<1>1. IsInserted(Item, items, to, item, InsertAt(items, to, item))
  BY InsertedElements
<1> QED
  BY <1>1 DEF IsInserted

LEMMA MoveSound ==
  ASSUME NEW own \in BOOLEAN, NEW s, Sound(own, s), NoRefill(s), NEW from \in Nat, NEW to \in Nat
  PROVE  Sound(own, MoveItem(s, from, to))
<1> DEFINE len == Len(s.queue)
           moved == InsertAt(RemoveAt(s.queue, from), to, s.queue[from])
           v == IF s.position = 0 THEN 0
                ELSE ReindexAfterMove(s.position, from, to)
<1>1. s \in QueueStates /\ len \in Nat /\ s.position \in 0..len
  BY DEF Sound, CursorInRange, QueueStates
<1>2. CASE ~({from, to} \subseteq 1..len) \/ from = to
  BY <1>2 DEF MoveItem
<1>3. CASE {from, to} \subseteq 1..len /\ from # to
  <2>1. from \in 1..len /\ to \in 1..len
    BY <1>3
  <2>2. /\ RemoveAt(s.queue, from) \in Seq(Item)
        /\ Len(RemoveAt(s.queue, from)) = len - 1
    BY <1>1, <2>1, RemoveAtSeq
  <2>3. s.queue[from] \in Item
    BY <1>1, <2>1, ElementOfSeq DEF QueueStates
  <2>4. moved \in Seq(Item) /\ Len(moved) = len
    <3>1. to \in 1..Len(RemoveAt(s.queue, from)) + 1
      BY <1>1, <2>1, <2>2
    <3>2. /\ moved \in Seq(Item)
          /\ Len(moved) = Len(RemoveAt(s.queue, from)) + 1
      BY <2>2, <2>3, <3>1, InsertAtSeq
    <3> QED
      BY <1>1, <2>2, <3>2
  <2>5. v \in 0..len
    <3>1. CASE s.position = 0
      BY <1>1, <3>1
    <3>2. CASE s.position # 0
      <4>1. s.position \in 1..len
        BY <1>1, <3>2
      <4>2. ReindexAfterMove(s.position, from, to) \in 1..len
        BY <1>1, <2>1, <4>1, ReindexInRange
      <4> QED
        BY <3>2, <4>2
    <3> QED
      BY <3>1, <3>2
  <2>6. MoveItem(s, from, to) = [s EXCEPT !.queue = moved, !.position = v]
    BY <1>3, <1>1 DEF MoveItem
  <2> HIDE DEF moved, v
  <2>7. v \in 0..Len(moved)
    BY <2>4, <2>5
  <2>8. Sound(own, [s EXCEPT !.queue = moved, !.position = v])
    BY <2>4, <2>7, <1>1, EditSound, Zenon DEF Status
  <2> QED
    BY <2>6, <2>8
<1> QED
  BY <1>2, <1>3

-----------------------------------------------------------------------------
(* Enqueue. *)

\* The play order stays a sequence of numbers when indices are spliced in.
LEMMA SplicedOrder ==
  ASSUME NEW order \in Seq(Nat), NEW current \in Nat, NEW count \in Nat,
         Len(order) > 0
  PROVE  SpliceOrder(order, current, count) \in Seq(Nat)
<1> DEFINE len == Len(order)
           shifted == [i \in 1..len |->
                         IF order[i] > current THEN order[i] + count
                                               ELSE order[i]]
           added == [i \in 1..count |-> current + i]
           cursor == ShuffleCursor(order, current)
<1>1. len \in Nat /\ cursor \in 1..len
  BY LenProperties DEF ShuffleCursor
<1>2. shifted \in Seq(Nat) /\ Len(shifted) = len
  <2>1. \A i \in 1..len : order[i] \in Nat
    BY ElementOfSeq
  <2>2. shifted \in [1..len -> Nat]
    BY <2>1
  <2> HIDE DEF shifted
  <2> QED
    BY <1>1, <2>2, FunctionIsSeq
<1>3. added \in Seq(Nat)
  <2>1. added \in [1..count -> Nat]
    OBVIOUS
  <2> HIDE DEF added
  <2> QED
    BY <2>1, SeqDef
<1>4. SpliceOrder(order, current, count) = Spliced(shifted, cursor, added, cursor)
  BY <1>2 DEF SpliceOrder, Spliced
<1> DEFINE new == SpliceOrder(order, current, count)
<1> HIDE DEF shifted, added, new
<1>5. IsSpliced(Nat, shifted, cursor, added, cursor, new)
  <2>1. cursor \in 0..Len(shifted)
    BY <1>1, <1>2
  <2> HIDE DEF cursor
  <2> QED
    BY <1>2, <1>3, <1>4, <2>1, SplicedElements DEF new
<1> QED
  BY <1>5 DEF IsSpliced, new

\* Items put in the middle of a queue make it longer by their number.
LEMMA GrownQueue ==
  ASSUME NEW s \in QueueStates, s.position \in 1..Len(s.queue),
         NEW items \in Seq(Item)
  PROVE  LET grown == SubSeq(s.queue, 1, s.position) \o items
                        \o SubSeq(s.queue, s.position + 1, Len(s.queue))
         IN grown \in Seq(Item) /\ Len(grown) = Len(s.queue) + Len(items)
<1> DEFINE grown == Spliced(s.queue, s.position, items, s.position)
<1>1. /\ Len(s.queue) \in Nat /\ Len(items) \in Nat /\ s.queue \in Seq(Item)
      /\ s.position \in 0..Len(s.queue)
  BY LenProperties DEF QueueStates
<1>2. IsSpliced(Item, s.queue, s.position, items, s.position, grown)
  BY <1>1, SplicedElements
<1> HIDE DEF grown
<1>3. /\ grown \in Seq(Item)
      /\ Len(grown) = s.position + Len(items) + (Len(s.queue) - s.position)
  BY <1>2 DEF IsSpliced
<1>4. Len(grown) = Len(s.queue) + Len(items)
  BY <1>1, <1>3
<1> QED
  BY <1>3, <1>4 DEF grown, Spliced

LEMMA EnqueueSound ==
  ASSUME NEW own \in BOOLEAN, NEW s, Sound(own, s), NoRefill(s), NEW items \in Seq(Item), NEW next,
         NEW t \in EnqueueItems(s, items, next)
  PROVE  Sound(own, t)
<1> DEFINE len == Len(s.queue)
<1>1. s \in QueueStates /\ len \in Nat /\ s.position \in 0..len
      /\ s.queue \in Seq(Item) /\ Len(items) \in Nat /\ s.status \in Status
  BY LenProperties DEF Sound, CursorInRange, QueueStates
<1>2. CASE items = <<>> \/ ~next \/ s.position = 0
  <2> DEFINE longer == s.queue \o items
  <2>1. longer \in Seq(Item) /\ Len(longer) = len + Len(items)
    BY <1>1, ConcatProperties
  <2>2. t = [s EXCEPT !.queue = longer]
    BY <1>2 DEF EnqueueItems
  <2> HIDE DEF longer
  <2>3. s.position \in 0..Len(longer) /\ s.position \in 0..Len(longer)
    BY <1>1, <2>1
  <2>4. Sound(own, [s EXCEPT !.queue = longer, !.position = s.position])
        /\ Sound(own, [s EXCEPT !.queue = longer])
    BY <2>1, <2>3, EditSound, Zenon, <1>1 DEF Status
  <2> QED
    BY <2>2, <2>4
<1>3. CASE ~(items = <<>> \/ ~next \/ s.position = 0)
  <2> DEFINE longer == SubSeq(s.queue, 1, s.position) \o items
                         \o SubSeq(s.queue, s.position + 1, len)
             grown == [s EXCEPT !.queue = longer]
  <2>1. s.position \in 1..len
    BY <1>1, <1>3
  <2>2. longer \in Seq(Item) /\ Len(longer) = len + Len(items)
    BY <1>1, <2>1, GrownQueue
  <2>3. \/ t = grown
        \/ /\ Len(s.order) = len
           /\ t = [grown EXCEPT !.order =
                     SpliceOrder(grown.order, s.position, Len(items))]
        \/ \E o \in BuildShuffleOrder(Len(grown.queue), s.position) :
             t = [grown EXCEPT !.order = o]
    <3> USE <1>3
    <3>1. CASE ~s.shuffle
      BY <3>1 DEF EnqueueItems
    <3>2. CASE s.shuffle
               /\ ShuffleOrderValid(s.order, Len(s.queue), s.position)
      BY <3>2 DEF EnqueueItems, ShuffleOrderValid
    <3>3. CASE s.shuffle
               /\ ~ShuffleOrderValid(s.order, Len(s.queue), s.position)
      BY <3>3 DEF EnqueueItems
    <3> QED
      BY <3>1, <3>2, <3>3
  <2> HIDE DEF longer
  <2>4. s.position \in 0..Len(longer)
    BY <1>1, <2>2
  <2>5. Sound(own, [s EXCEPT !.queue = longer])
    BY <2>2, <2>4, <1>1, EditSound, Zenon
  <2>6. grown \in QueueStates /\ s.order \in Seq(Nat)
        /\ grown.queue = longer /\ grown.order = s.order
        /\ Sound(own, grown)
    BY <2>5, <1>1, <2>2 DEF QueueStates
  <2> HIDE DEF grown
  <2>7. CASE t = grown
    BY <2>6, <2>7
  <2>8. ASSUME NEW o \in Seq(Nat) PROVE Sound(own, [grown EXCEPT !.order = o])
    BY <2>4, <2>6, NavigationSound, Zenon
  <2>9. ASSUME Len(s.order) = len
        PROVE  SpliceOrder(grown.order, s.position, Len(items)) \in Seq(Nat)
    <3>1. s.position \in Nat /\ Len(s.order) > 0
      BY <1>1, <2>1, <2>9
    <3>2. SpliceOrder(s.order, s.position, Len(items)) \in Seq(Nat)
      BY <1>1, <2>6, <3>1, SplicedOrder, Zenon
    <3> QED
      BY <2>6, <3>2
  <2>10. \A o \in BuildShuffleOrder(Len(grown.queue), s.position) :
           o \in Seq(Nat)
    BY <1>1, <2>2, <2>6, BuiltOrder
  <2> QED
    BY <2>3, <2>7, <2>8, <2>9, <2>10
<1> QED
  BY <1>2, <1>3

-----------------------------------------------------------------------------
(* Refills and restarts. *)

LEMMA BeginRefillSound ==
  ASSUME NEW own \in BOOLEAN, NEW s, Sound(own, s), CanBeginRefill(s)
  PROVE  Sound(own, BeginRefill(s))
<1> DEFINE t == BeginRefill(s)
<1>1. s \in QueueStates /\ s.queue # <<>>
  <2>1. s \in QueueStates /\ SeedPosition(s) \in 1..Len(s.queue)
    BY DEF Sound, CanBeginRefill
  <2> QED
    BY <2>1, EmptySeq
<1>2. t \in QueueStates
  BY <1>1 DEF BeginRefill, QueueStates, Activity
<1>3. /\ t.queue = s.queue /\ t.position = s.position
      /\ t.resumeAt = s.resumeAt /\ t.activity = "Finding"
  BY <1>1 DEF BeginRefill, QueueStates
<1> HIDE DEF t
<1>4. Sound(own, t)
  BY <1>1, <1>2, <1>3 DEF Sound, CursorInRange, ResumeAtEnd, SeedPresent
<1> QED
  BY <1>4 DEF t

LEMMA RequestResumeSound ==
  ASSUME NEW own \in BOOLEAN, NEW s, Sound(own, s), CanRequestRefillResume(s)
  PROVE  Sound(own, RequestRefillResume(s))
<1> DEFINE t == RequestRefillResume(s)
<1>1. s \in QueueStates /\ Len(s.queue) \in Nat /\ Len(s.queue) + 1 \in Nat
  BY DEF Sound, QueueStates
<1>2. s.queue # <<>>
  BY EmptySeq DEF CanRequestRefillResume
<1>3. t \in QueueStates
  BY <1>1 DEF RequestRefillResume, QueueStates, Activity
<1>4. /\ t.queue = s.queue /\ t.position = s.position
      /\ t.resumeAt = Len(s.queue) + 1 /\ t.activity = "Finding"
      /\ ~t.started
  BY <1>1 DEF RequestRefillResume, QueueStates
<1> HIDE DEF t
<1>5. Sound(own, t)
  BY <1>1, <1>2, <1>3, <1>4 DEF Sound, CursorInRange, ResumeAtEnd, SeedPresent
<1> QED
  BY <1>5 DEF t

LEMMA FinishRefillSound ==
  ASSUME NEW own \in BOOLEAN, NEW s, Sound(own, s), s.activity # "None", NEW items \in Seq(Item)
  PROVE  Sound(own, FinishRefill(s, items))
<1> DEFINE t == FinishRefill(s, items)
           len == Len(s.queue)
<1>1. s \in QueueStates /\ len \in Nat /\ s.position \in 0..len
      /\ s.queue \in Seq(Item)
      /\ (s.resumeAt # 0 => s.resumeAt = len + 1)
  BY DEF Sound, QueueStates, CursorInRange, ResumeAtEnd
<1>2. CASE items = <<>>
  <2>1. t = [s EXCEPT !.activity = "Exhausted"]
    BY <1>2 DEF FinishRefill
  <2>2. t \in QueueStates
    BY <1>1, <2>1 DEF QueueStates, Activity
  <2>3. /\ t.queue = s.queue /\ t.position = s.position
        /\ t.resumeAt = s.resumeAt /\ t.activity = "Exhausted"
    BY <1>1, <2>1 DEF QueueStates
  <2> HIDE DEF t
  <2>4. Sound(own, t)
    BY <1>1, <2>2, <2>3 DEF Sound, CursorInRange, ResumeAtEnd, SeedPresent
  <2> QED
    BY <2>4 DEF t
<1>3. CASE items # <<>>
  <2> DEFINE longer == s.queue \o items
             v == IF s.resumeAt # 0 THEN s.resumeAt ELSE s.position
             status == IF s.resumeAt # 0 THEN "Playing" ELSE s.status
  <2>1. longer \in Seq(Item) /\ Len(longer) = len + Len(items)
    BY <1>1, ConcatProperties
  <2>2. Len(items) \in Nat /\ Len(items) > 0
    BY <1>3, EmptySeq, LenProperties
  <2>3. v \in 0..len + Len(items) /\ v \in Nat
    BY <1>1, <2>2
  <2>4. status \in Status
    BY <1>1 DEF QueueStates, Status
  <2>5. t = [s EXCEPT !.queue = longer, !.activity = "None",
                      !.started = FALSE, !.resumeAt = 0,
                      !.position = v, !.status = status]
    BY <1>3 DEF FinishRefill
  <2> HIDE DEF longer, v, status, t
  <2>6. t \in QueueStates
    BY <1>1, <2>1, <2>3, <2>4, <2>5 DEF QueueStates, Activity
  <2>7. t.queue = longer /\ t.position = v /\ NoRefill(t)
    BY <1>1, <2>5 DEF QueueStates, NoRefill
  <2>8. t.position \in 0..Len(t.queue)
    BY <2>1, <2>3, <2>7
  <2>9. Sound(own, t)
    BY <2>6, <2>7, <2>8, SoundIfNoRefill, Zenon
  <2> QED
    BY <2>9 DEF t
<1> QED
  BY <1>2, <1>3

PlaybackRows == [position: Nat, status: Status, repeat: Repeat,
                 shuffle: BOOLEAN, order: Seq(Nat)]

LEMMA PlaybackTyped ==
  ASSUME NEW s \in QueueStates
  PROVE  Playback(s) \in PlaybackRows
BY DEF QueueStates, Playback, PlaybackRows

\* Whatever a checkpoint says, the queue made of it is sound and idle.
LEMMA RestoredSound ==
  ASSUME NEW own \in BOOLEAN, NEW row \in PlaybackRows, NEW items \in Seq(Item)
  PROVE  Sound(own, Restored([playback |-> row, items |-> items]))
<1> DEFINE v == IF row.position \in 1..Len(items) THEN row.position ELSE 0
           status == CASE row.status = "Playing" -> "Paused"
                       [] row.status = "Paused" /\ v = 0 -> "Stopped"
                       [] OTHER -> row.status
           t == Restored([playback |-> row, items |-> items])
<1>1. Len(items) \in Nat /\ v \in Nat /\ v \in 0..Len(items)
  BY LenProperties
<1>2. status \in Status
  <2>1. row.status \in Status
    BY DEF PlaybackRows
  <2> HIDE DEF v
  <2> QED
    BY <2>1 DEF Status
<1>3. t = [EmptyQueue EXCEPT !.queue = items, !.position = v,
                             !.status = status, !.repeat = row.repeat,
                             !.shuffle = row.shuffle, !.order = row.order]
  BY DEF Restored
<1>4. row.repeat \in Repeat /\ row.shuffle \in BOOLEAN /\ row.order \in Seq(Nat)
  BY DEF PlaybackRows
<1>5. EmptyQueue \in QueueStates
  BY EmptyQueueSound DEF Sound
<1> HIDE DEF v, status, t
<1>6. t \in QueueStates
  BY <1>1, <1>2, <1>3, <1>4, <1>5 DEF QueueStates
<1>7. t.queue = items /\ t.position = v
  BY <1>3, <1>5 DEF QueueStates
<1>8. NoRefill(t)
  BY <1>3 DEF EmptyQueue, NoRefill
<1>9. Sound(own, t)
  BY <1>1, <1>6, <1>7, <1>8, SoundIfNoRefill
<1> QED
  BY <1>9 DEF t

-----------------------------------------------------------------------------
(* What operators leave alone. *)

\* The items stay, and the counter of cancelled refills does not go back.
Follows(s, t) ==
  t.queue = s.queue /\ t.revision \in Nat /\ t.revision >= s.revision

\* A checkpoint of the one is a checkpoint of the other.
SameToKeep(s, t) == t.queue = s.queue /\ Playback(t) = Playback(s)

LEMMA CancelTyped ==
  ASSUME NEW s \in QueueStates
  PROVE  CancelRefill(s) \in QueueStates
<1>1. s.revision + 1 \in Nat
  BY DEF QueueStates
<1> QED
  BY <1>1 DEF CancelRefill, QueueStates, Activity

LEMMA CancelCounts ==
  ASSUME NEW s \in QueueStates
  PROVE  /\ Follows(s, CancelRefill(s)) /\ SameToKeep(s, CancelRefill(s))
         /\ CancelRefill(s).revision > s.revision
<1>1. s.revision \in Nat
  BY DEF QueueStates
<1>2. CancelRefill(s).revision = s.revision + 1
  BY DEF CancelRefill, QueueStates
<1>3. SameToKeep(s, CancelRefill(s))
  BY DEF CancelRefill, SameToKeep, Playback, QueueStates
<1> QED
  BY <1>1, <1>2, <1>3 DEF Follows, SameToKeep

LEMMA PreparedCounts ==
  ASSUME NEW s \in QueueStates, NEW command
  PROVE  /\ Follows(s, Prepared(s, command))
         /\ SameToKeep(s, Prepared(s, command))
         /\ command \in CancelsAutoplayRefill
              => Prepared(s, command).revision > s.revision
<1> DEFINE t == IF command \in CancelsAutoplayRefill THEN CancelRefill(s) ELSE s
<1>1. s.revision \in Nat /\ t \in QueueStates
  BY CancelTyped DEF QueueStates
<1>2. /\ Follows(s, t) /\ SameToKeep(s, t)
      /\ command \in CancelsAutoplayRefill => t.revision > s.revision
  BY <1>1, CancelCounts DEF Follows, SameToKeep
<1>3. Prepared(s, command) \in {t, [t EXCEPT !.cleared = {}]}
  BY DEF Prepared
<1> HIDE DEF t
<1>4. /\ [t EXCEPT !.cleared = {}].queue = t.queue
      /\ [t EXCEPT !.cleared = {}].revision = t.revision
      /\ Playback([t EXCEPT !.cleared = {}]) = Playback(t)
  BY <1>1 DEF QueueStates, Playback
<1> QED
  BY <1>2, <1>3, <1>4 DEF Follows, SameToKeep

LEMMA AdvanceFollows ==
  ASSUME NEW own \in BOOLEAN, NEW s, Sound(own, s), NEW stop, NEW t \in Advance(s, stop)
  PROVE  Follows(s, t)
<1>1. s \in QueueStates /\ s.revision \in Nat
  BY DEF Sound, QueueStates
<1>2. CASE s.position = 0 \/ s.queue = <<>>
  BY <1>1, <1>2 DEF Advance, Follows
<1>3. CASE ~(s.position = 0 \/ s.queue = <<>>)
  <2>1. PICK c \in AdvanceChoices(s) :
          t = Landed([s EXCEPT !.order = c[1]], c[2], stop)
    BY <1>3 DEF Advance
  <2> DEFINE u == [s EXCEPT !.order = c[1]]
  <2>2. c[1] \in Seq(Nat) /\ c[2] \in 0..Len(s.queue)
    BY <1>3, ChoiceInRange
  <2>3. u \in QueueStates /\ u.queue = s.queue /\ u.revision = s.revision
    BY <1>1, <2>2 DEF QueueStates
  <2> HIDE DEF u
  <2> DEFINE w == ClearExhaustionAfterAdvance(u, c[2])
  <2>4. w \in QueueStates /\ w.queue = s.queue /\ w.revision >= s.revision
        /\ w.revision \in Nat
    <3>1. w = u \/ w = CancelRefill(u)
      BY DEF ClearExhaustionAfterAdvance
    <3>2. CancelRefill(u) \in QueueStates
      BY <2>3, CancelTyped
    <3>3. Follows(u, CancelRefill(u))
      BY <2>3, CancelCounts
    <3>4. w \in QueueStates
      BY <2>3, <3>1, <3>2
    <3> QED
      BY <1>1, <2>3, <3>1, <3>3, <3>4 DEF Follows, QueueStates
  <2> HIDE DEF w
  <2>5. \/ t = [w EXCEPT !.position = c[2]]
        \/ t = [u EXCEPT !.status = "Stopped"]
        \/ t = u
    BY <2>1 DEF Landed, u, w
  <2>6. /\ [w EXCEPT !.position = c[2]].queue = w.queue
        /\ [w EXCEPT !.position = c[2]].revision = w.revision
        /\ [u EXCEPT !.status = "Stopped"].queue = u.queue
        /\ [u EXCEPT !.status = "Stopped"].revision = u.revision
    BY <2>3, <2>4 DEF QueueStates
  <2>7. t.queue = s.queue /\ (t.revision = w.revision \/ t.revision = s.revision)
    BY <2>3, <2>4, <2>5, <2>6
  <2> QED
    BY <1>1, <2>4, <2>7 DEF Follows
<1> QED
  BY <1>2, <1>3

LEMMA NavigationFollows ==
  ASSUME NEW own \in BOOLEAN, NEW s, Sound(own, s)
  PROVE  /\ \A t \in TrackEnded(s) : Follows(s, t)
         /\ \A t \in StepPrevious(s) : Follows(s, t)
         /\ \A on \in BOOLEAN : \A t \in ShuffleTo(s, on) : Follows(s, t)
         /\ \A index : Follows(s, PlayIndex(s, index))
<1>1. s \in QueueStates /\ s.revision \in Nat
  BY DEF Sound, QueueStates
<1>2. ASSUME NEW t \in TrackEnded(s) PROVE Follows(s, t)
  <2>1. CASE s.repeat = "One"
    BY <1>1, <1>2, <2>1 DEF TrackEnded, Follows
  <2>2. CASE s.repeat # "One"
    <3>1. PICK u \in Advance(s, TRUE) : t = u \/ t = PreserveRefillResume(u)
      BY <1>2, <2>2 DEF TrackEnded
    <3>2. Follows(s, u) /\ u \in QueueStates
      BY AdvanceFollows, AdvanceSound DEF Sound
    <3>3. /\ PreserveRefillResume(u).queue = u.queue
          /\ PreserveRefillResume(u).revision = u.revision
      BY <3>2 DEF PreserveRefillResume, QueueStates
    <3> QED
      BY <3>1, <3>2, <3>3 DEF Follows
  <2> QED
    BY <2>1, <2>2
<1>3. ASSUME NEW t \in StepPrevious(s) PROVE Follows(s, t)
  <2>1. \/ t = s
        \/ \E o, p : t = [s EXCEPT !.order = o, !.position = p]
        \/ \E p : t = [s EXCEPT !.position = p]
    <3>1. CASE s.position = 0
      BY <1>3, <3>1 DEF StepPrevious
    <3>2. CASE s.position # 0 /\ s.shuffle
      BY <1>3, <3>2, <1>1 DEF StepPrevious
    <3>3. CASE s.position # 0 /\ ~s.shuffle
      BY <1>3, <3>3, <1>1 DEF StepPrevious
    <3> QED
      BY <3>1, <3>2, <3>3
  <2>2. t.queue = s.queue /\ t.revision = s.revision
    BY <1>1, <2>1 DEF QueueStates
  <2> QED
    BY <1>1, <2>2 DEF Follows
<1>4. ASSUME NEW on \in BOOLEAN, NEW t \in ShuffleTo(s, on) PROVE Follows(s, t)
  <2>1. \E v, o : t = [s EXCEPT !.shuffle = v, !.order = o]
    BY <1>4 DEF ShuffleTo
  <2>2. t.queue = s.queue /\ t.revision = s.revision
    BY <1>1, <2>1 DEF QueueStates
  <2> QED
    BY <1>1, <2>2 DEF Follows
<1>5. ASSUME NEW index PROVE Follows(s, PlayIndex(s, index))
  BY <1>1 DEF PlayIndex, Follows, QueueStates
<1> QED
  BY <1>2, <1>3, <1>4, <1>5

\* Commands that change the items do nothing else to a refill: that they
\* cancelled it is all there is.
LEMMA EditsKeepRevision ==
  ASSUME NEW s \in QueueStates
  PROVE  /\ ClearQueue(s).revision = s.revision
         /\ \A items, start : ReplaceQueue(s, items, start).revision = s.revision
         /\ \A index : RemoveItem(s, index).revision = s.revision
         /\ \A from, to : MoveItem(s, from, to).revision = s.revision
         /\ \A items, next : \A t \in EnqueueItems(s, items, next) :
              t.revision = s.revision
<1>1. ClearQueue(s).revision = s.revision
  BY DEF ClearQueue, QueueStates
<1>2. ASSUME NEW items, NEW start
      PROVE  ReplaceQueue(s, items, start).revision = s.revision
  BY DEF ReplaceQueue, QueueStates
<1>3. ASSUME NEW index PROVE RemoveItem(s, index).revision = s.revision
  <2> DEFINE rest == RemoveAt(s.queue, index)
  <2>1. s.position \in Nat /\ Len(s.queue) \in Nat
    BY DEF QueueStates
  <2>2. CASE index \notin 1..Len(s.queue)
    BY <2>2 DEF RemoveItem
  <2>3. CASE index \in 1..Len(s.queue)
    <3> HIDE DEF rest
    <3>1. CASE s.position = index /\ rest = <<>>
      <4>1. RemoveItem(s, index) =
              [s EXCEPT !.queue = rest, !.position = 0, !.status = "Stopped"]
        BY <2>3, <3>1 DEF RemoveItem, rest
      <4> QED
        BY <4>1 DEF QueueStates
    <3>2. CASE s.position = index /\ rest # <<>>
      <4> DEFINE v == IF s.position <= Len(rest) THEN s.position ELSE Len(rest)
      <4>1. RemoveItem(s, index) = [s EXCEPT !.queue = rest, !.position = v]
        BY <2>3, <3>2 DEF RemoveItem, rest
      <4> HIDE DEF v
      <4> QED
        BY <4>1 DEF QueueStates
    <3>3. CASE s.position # index
      <4>1. \/ RemoveItem(s, index) =
                 [s EXCEPT !.queue = rest, !.position = s.position - 1]
            \/ RemoveItem(s, index) = [s EXCEPT !.queue = rest]
        BY <2>1, <2>3, <3>3 DEF RemoveItem, rest
      <4> QED
        BY <4>1 DEF QueueStates
    <3> QED
      BY <3>1, <3>2, <3>3
  <2> QED
    BY <2>2, <2>3
<1>4. ASSUME NEW from, NEW to PROVE MoveItem(s, from, to).revision = s.revision
  BY DEF MoveItem, QueueStates
<1>5. ASSUME NEW items, NEW next, NEW t \in EnqueueItems(s, items, next)
      PROVE  t.revision = s.revision
  <2>1. \E longer : \/ t = [s EXCEPT !.queue = longer]
                    \/ \E o : t = [[s EXCEPT !.queue = longer] EXCEPT !.order = o]
    <3>1. CASE items = <<>> \/ ~next \/ s.position = 0
      BY <1>5, <3>1 DEF EnqueueItems
    <3>2. CASE ~(items = <<>> \/ ~next \/ s.position = 0) /\ ~s.shuffle
      BY <1>5, <3>2 DEF EnqueueItems
    <3>3. CASE /\ ~(items = <<>> \/ ~next \/ s.position = 0) /\ s.shuffle
               /\ ShuffleOrderValid(s.order, Len(s.queue), s.position)
      BY <1>5, <3>3 DEF EnqueueItems
    <3>4. CASE /\ ~(items = <<>> \/ ~next \/ s.position = 0) /\ s.shuffle
               /\ ~ShuffleOrderValid(s.order, Len(s.queue), s.position)
      BY <1>5, <3>4 DEF EnqueueItems
    <3> QED
      BY <3>1, <3>2, <3>3, <3>4
  <2> QED
    BY <2>1 DEF QueueStates
<1> QED
  BY <1>1, <1>2, <1>3, <1>4, <1>5

-----------------------------------------------------------------------------
(* A listener's commands. *)

LEMMA ArgumentsTyped ==
  /\ Arguments("PlayTracks") \subseteq Seq(Item)
  /\ Arguments("PlayQueueIndex") \subseteq Nat
  /\ Arguments("RemoveQueueItem") \subseteq Nat
  /\ Arguments("MoveQueueItem") \subseteq Nat \X Nat
  /\ Arguments("Enqueue") = Track \X BOOLEAN
  /\ Arguments("SetShuffle") = BOOLEAN
  /\ Arguments("SetRepeat") = Repeat
<1>1. 1..MaxLen \subseteq Nat /\ Batches \subseteq Seq(Item)
  BY CommandsAssumption, SeqMonotonic DEF Item
<1> QED
  BY <1>1 DEF Arguments

\* Transport commands set the status and no more.
LEMMA TransportApplied ==
  ASSUME NEW s, NEW command \in {"Play", "Pause", "Stop", "Seek", "SetVolume"},
         NEW arg, NEW t \in Applied(s, command, arg)
  PROVE  t \in {s, [s EXCEPT !.status = "Playing"], [s EXCEPT !.status = "Paused"],
               [s EXCEPT !.status = "Stopped"]}
<1>1. CASE command = "Play"
  BY <1>1 DEF Applied
<1>2. CASE command = "Pause"
  BY <1>2 DEF Applied
<1>3. CASE command = "Stop"
  BY <1>3 DEF Applied
<1>4. CASE command \in {"Seek", "SetVolume"}
  BY <1>4 DEF Applied
<1> QED
  BY <1>1, <1>2, <1>3, <1>4

\* A command leaves a sound queue sound, given that those which cancel a
\* refill have done so.
LEMMA AppliedSound ==
  ASSUME NEW own \in BOOLEAN, NEW s, Sound(own, s),
         NEW command \in PlayerCommand, NEW arg \in Arguments(command),
         command \in CancelsAutoplayRefill => NoRefill(s),
         NEW t \in Applied(s, command, arg)
  PROVE  Sound(own, t)
<1>1. CASE command \in {"Play", "Pause", "Stop", "Seek", "SetVolume"}
  <2>1. t \in {s, [s EXCEPT !.status = "Playing"], [s EXCEPT !.status = "Paused"],
               [s EXCEPT !.status = "Stopped"]}
    BY <1>1, TransportApplied
  <2>2. /\ Sound(own, [s EXCEPT !.status = "Playing"])
        /\ Sound(own, [s EXCEPT !.status = "Paused"])
        /\ Sound(own, [s EXCEPT !.status = "Stopped"])
    BY FlagsSound DEF Status
  <2> QED
    BY <2>1, <2>2
<1>2. CASE command \in {"Next", "Previous"}
  BY <1>2, AdvanceSound, StepPreviousSound DEF Applied
<1>3. CASE command = "SetRepeat"
  <2>1. arg \in Repeat /\ t = [s EXCEPT !.repeat = arg]
    BY <1>3, ArgumentsTyped DEF Applied
  <2> QED
    BY <2>1, FlagsSound
<1>4. CASE command = "SetShuffle"
  BY <1>4, SetShuffleSound DEF Applied
<1>5. CASE command = "Clear"
  BY <1>5, ClearSound DEF Applied, CancelsAutoplayRefill
<1>6. CASE command = "RestoreClearedQueue"
  <2>1. PICK old \in s.cleared : /\ s.queue = <<>>
                                 /\ t = [s EXCEPT !.queue = old, !.cleared = {}]
    BY <1>6 DEF Applied
  <2> QED
    BY <2>1, RestoreClearedSound
<1>7. CASE command = "PlayQueueIndex"
  BY <1>7, PlayIndexSound DEF Applied
<1>8. CASE command = "PlayTracks"
  <2>1. NoRefill(s) /\ arg \in Seq(Item) /\ t = ReplaceQueue(s, arg, 1)
    BY <1>8, ArgumentsTyped DEF Applied, CancelsAutoplayRefill
  <2> QED
    BY <2>1, ReplaceSound
<1>9. CASE command = "PlayStream"
  <2>1. NoRefill(s) /\ <<Radio>> \in Seq(Item) /\ t = ReplaceQueue(s, <<Radio>>, 1)
    BY <1>9 DEF Applied, CancelsAutoplayRefill, Item
  <2> QED
    BY <2>1, ReplaceSound
<1>10. CASE command = "Enqueue"
  <2>1. NoRefill(s) /\ t \in EnqueueItems(s, <<arg[1]>>, arg[2])
    BY <1>10 DEF Applied, CancelsAutoplayRefill
  <2>2. <<arg[1]>> \in Seq(Item)
    BY <1>10, ArgumentsTyped DEF Item
  <2> QED
    BY <2>1, <2>2, EnqueueSound
<1>11. CASE command = "RemoveQueueItem"
  <2>1. NoRefill(s) /\ arg \in Nat /\ t = RemoveItem(s, arg)
    BY <1>11, ArgumentsTyped DEF Applied, CancelsAutoplayRefill
  <2> QED
    BY <2>1, RemoveSound
<1>12. CASE command = "MoveQueueItem"
  <2>1. NoRefill(s) /\ arg[1] \in Nat /\ arg[2] \in Nat /\ t = MoveItem(s, arg[1], arg[2])
    BY <1>12, ArgumentsTyped DEF Applied, CancelsAutoplayRefill
  <2> QED
    BY <2>1, MoveSound
<1> QED
  BY <1>1, <1>2, <1>3, <1>4, <1>5, <1>6, <1>7, <1>8, <1>9, <1>10, <1>11, <1>12
     DEF PlayerCommand

LEMMA OutcomesSound ==
  ASSUME NEW own \in BOOLEAN, NEW s, Sound(own, s),
         NEW command \in PlayerCommand, NEW arg \in Arguments(command),
         NEW t \in Outcomes(s, command, arg)
  PROVE  Sound(own, t)
<1>1. /\ Sound(own, Prepared(s, command))
      /\ command \in CancelsAutoplayRefill => NoRefill(Prepared(s, command))
  BY PreparedSound
<1>2. t = s \/ t \in Applied(Prepared(s, command), command, arg)
  BY DEF Outcomes
<1> QED
  BY <1>1, <1>2, AppliedSound

LEMMA UncountedSound ==
  ASSUME NEW own \in BOOLEAN, NEW s, Sound(own, s)
  PROVE  Sound(own, Uncounted(s))
<1> DEFINE t == Uncounted(s)
<1>1. s \in QueueStates
  BY DEF Sound
<1>2. t \in QueueStates
  BY <1>1 DEF Uncounted, QueueStates
<1>3. /\ t.queue = s.queue /\ t.position = s.position
      /\ t.resumeAt = s.resumeAt /\ t.activity = s.activity
      /\ t.started = s.started
  BY <1>1 DEF Uncounted, QueueStates
<1>4. s.position \in 0..Len(s.queue)
  BY DEF Sound, CursorInRange
<1> HIDE DEF t
<1>5. Sound(own, t)
  BY <1>2, <1>3, <1>4, SoundIfKept
<1> QED
  BY <1>5 DEF t

\* An advance leaves continuous play alone unless it leaves an exhausted search
\* behind.
LEMMA AdvanceKeepsRefill ==
  ASSUME NEW s \in QueueStates, s.activity # "Exhausted", NEW stop,
         NEW t \in Advance(s, stop)
  PROVE  /\ t.activity = s.activity
         /\ t.started = s.started /\ t.resumeAt = s.resumeAt
<1> DEFINE Same(u) == /\ u.activity = s.activity
                      /\ u.started = s.started /\ u.resumeAt = s.resumeAt
<1>1. CASE s.position = 0 \/ s.queue = <<>>
  BY <1>1 DEF Advance
<1>2. CASE ~(s.position = 0 \/ s.queue = <<>>)
  <2>1. PICK c \in AdvanceChoices(s) :
          t = Landed([s EXCEPT !.order = c[1]], c[2], stop)
    BY <1>2 DEF Advance
  <2> DEFINE u == [s EXCEPT !.order = c[1]]
  <2>2. Same(u)
    BY DEF QueueStates
  <2>3. Same([u EXCEPT !.position = c[2]]) /\ Same([u EXCEPT !.status = "Stopped"])
    BY DEF QueueStates
  <2>4. ClearExhaustionAfterAdvance(u, c[2]) = u
    BY <2>2 DEF ClearExhaustionAfterAdvance
  <2> HIDE DEF u
  <2>5. t \in {u, [u EXCEPT !.position = c[2]], [u EXCEPT !.status = "Stopped"]}
    BY <2>1, <2>4 DEF Landed, u
  <2> QED
    BY <2>2, <2>3, <2>5
<1> QED
  BY <1>1, <1>2

\* Unless it clears an exhausted search away, a command's own effect leaves
\* continuous play alone; cancelling is what comes before it.
LEMMA AppliedKeepsRefill ==
  ASSUME NEW s \in QueueStates, s.activity # "Exhausted",
         NEW command \in PlayerCommand, NEW arg \in Arguments(command),
         NEW t \in Applied(s, command, arg)
  PROVE  /\ t.activity = s.activity
         /\ t.started = s.started /\ t.resumeAt = s.resumeAt
<1> DEFINE Same(u) == /\ u.activity = s.activity
                      /\ u.started = s.started /\ u.resumeAt = s.resumeAt
<1>1. s \in QueueStates
  OBVIOUS
<1>2. CASE command \in {"Play", "Pause", "Stop", "Seek", "SetVolume"}
  <2>1. Same([s EXCEPT !.status = "Playing"]) /\ Same([s EXCEPT !.status = "Paused"])
        /\ Same([s EXCEPT !.status = "Stopped"]) /\ Same(s)
    BY <1>1 DEF QueueStates
  <2> HIDE DEF Same
  <2>2. t \in {s, [s EXCEPT !.status = "Playing"], [s EXCEPT !.status = "Paused"],
               [s EXCEPT !.status = "Stopped"]}
    BY <1>2, TransportApplied
  <2>3. Same(t)
    BY <2>1, <2>2
  <2> QED
    BY <2>3 DEF Same
<1>3. CASE command = "Next"
  BY <1>1, <1>3, AdvanceKeepsRefill DEF Applied
<1>4. CASE command = "Previous"
  <2>1. /\ \A o, v : Same([s EXCEPT !.order = o, !.position = v])
        /\ \A v : Same([s EXCEPT !.position = v])
        /\ Same(s)
    BY <1>1 DEF QueueStates
  <2>2. \/ t = s
        \/ \E o, v : t = [s EXCEPT !.order = o, !.position = v]
        \/ \E v : t = [s EXCEPT !.position = v]
    <3>1. CASE s.shuffle /\ s.position # 0
      BY <1>4, <3>1 DEF Applied, StepPrevious
    <3>2. CASE ~(s.shuffle /\ s.position # 0)
      BY <1>1, <1>4, <3>2 DEF Applied, StepPrevious, QueueStates
    <3> QED
      BY <3>1, <3>2
  <2> HIDE DEF Same
  <2>3. Same(t)
    <3>1. CASE t = s
      BY <2>1, <3>1
    <3>2. ASSUME NEW o, NEW v, t = [s EXCEPT !.order = o, !.position = v]
          PROVE  Same(t)
      <4>1. Same([s EXCEPT !.order = o, !.position = v])
        BY <2>1
      <4> QED
        BY <3>2, <4>1
    <3>3. ASSUME NEW v, t = [s EXCEPT !.position = v] PROVE Same(t)
      <4>1. Same([s EXCEPT !.position = v])
        BY <2>1
      <4> QED
        BY <3>3, <4>1
    <3> QED
      BY <2>2, <3>1, <3>2, <3>3
  <2> QED
    BY <2>3 DEF Same
<1>5. CASE command = "SetRepeat"
  BY <1>1, <1>5 DEF Applied, QueueStates
<1>6. CASE command = "SetShuffle"
  <2>1. \A b, o : Same([s EXCEPT !.shuffle = b, !.order = o])
    BY <1>1 DEF QueueStates
  <2>2. \E b, o : t = [s EXCEPT !.shuffle = b, !.order = o]
    BY <1>6 DEF Applied, ShuffleTo
  <2> QED
    BY <2>1, <2>2
<1>7. CASE command = "Clear"
  BY <1>1, <1>7 DEF Applied, ClearQueue, QueueStates
<1>8. CASE command = "RestoreClearedQueue"
  BY <1>1, <1>8 DEF Applied, QueueStates
<1>9. CASE command = "PlayQueueIndex"
  BY <1>1, <1>9 DEF Applied, PlayIndex, QueueStates
<1>10. CASE command \in {"PlayTracks", "PlayStream"}
  BY <1>1, <1>10 DEF Applied, ReplaceQueue, QueueStates
<1>11. CASE command = "Enqueue"
  BY <1>1, <1>11 DEF Applied, EnqueueItems, QueueStates
<1>12. CASE command = "RemoveQueueItem"
  BY <1>1, <1>12 DEF Applied, RemoveItem, QueueStates
<1>13. CASE command = "MoveQueueItem"
  BY <1>1, <1>13 DEF Applied, MoveItem, QueueStates
<1> QED
  BY <1>2, <1>3, <1>4, <1>5, <1>6, <1>7, <1>8, <1>9, <1>10, <1>11, <1>12, <1>13
     DEF PlayerCommand

LEMMA NavigationKeepsQueue ==
  ASSUME NEW own \in BOOLEAN, NEW s, Sound(own, s),
         NEW command \in PlayerCommand \ MutatesQueue,
         NEW arg \in Arguments(command), NEW t \in Applied(s, command, arg)
  PROVE  t.queue = s.queue
<1>1. s \in QueueStates
  BY DEF Sound
<1>2. CASE command \in {"Play", "Pause", "Stop", "Seek", "SetVolume"}
  <2>1. /\ [s EXCEPT !.status = "Playing"].queue = s.queue
        /\ [s EXCEPT !.status = "Paused"].queue = s.queue
        /\ [s EXCEPT !.status = "Stopped"].queue = s.queue
    BY <1>1 DEF QueueStates
  <2>2. t \in {s, [s EXCEPT !.status = "Playing"], [s EXCEPT !.status = "Paused"],
               [s EXCEPT !.status = "Stopped"]}
    BY <1>2, TransportApplied
  <2> QED
    BY <2>1, <2>2
<1>3. CASE command = "Next"
  BY <1>3, AdvanceFollows DEF Applied, Follows
<1>4. CASE command = "Previous"
  BY <1>4, NavigationFollows DEF Applied, Follows
<1>5. CASE command = "SetRepeat"
  BY <1>1, <1>5 DEF Applied, QueueStates
<1>6. CASE command = "SetShuffle"
  BY <1>6, ArgumentsTyped, NavigationFollows DEF Applied, Follows
<1>7. CASE command = "PlayQueueIndex"
  BY <1>7, NavigationFollows DEF Applied, Follows
<1> QED
  BY <1>2, <1>3, <1>4, <1>5, <1>6, <1>7 DEF PlayerCommand, MutatesQueue

LEMMA EnqueueGrows ==
  ASSUME NEW s \in QueueStates, CursorInRange(s), NEW item \in Item, NEW next,
         NEW t \in EnqueueItems(s, <<item>>, next)
  PROVE  Len(t.queue) = Len(s.queue) + 1
<1>1. <<item>> \in Seq(Item) /\ Len(<<item>>) = 1 /\ <<item>> # <<>>
      /\ s.queue \in Seq(Item) /\ Len(s.queue) \in Nat
  BY DEF QueueStates
<1>2. CASE ~next \/ s.position = 0
  <2>1. t.queue = s.queue \o <<item>>
    BY <1>2 DEF EnqueueItems, QueueStates
  <2> QED
    BY <1>1, <2>1, ConcatProperties
<1>3. CASE ~(~next \/ s.position = 0)
  <2> DEFINE grown == SubSeq(s.queue, 1, s.position) \o <<item>>
                        \o SubSeq(s.queue, s.position + 1, Len(s.queue))
  <2>1. t.queue = grown
    BY <1>1, <1>3 DEF EnqueueItems, QueueStates
  <2>2. s.position \in 1..Len(s.queue)
    BY <1>1, <1>3 DEF CursorInRange
  <2> QED
    BY <1>1, <2>1, <2>2, GrownQueue
<1> QED
  BY <1>2, <1>3

\* Two copies of a queue that were the same: an edit that leaves the one as it
\* was leaves both the same.
LEMMA EditsAgree ==
  ASSUME NEW s \in QueueStates, NEW d \in QueueStates, CursorInRange(d),
         s.queue = d.queue,
         NEW command \in MutatesQueue \ {"RestoreClearedQueue"},
         NEW arg \in Arguments(command),
         NEW t \in Applied(s, command, arg), NEW u \in Applied(d, command, arg),
         u.queue = d.queue
  PROVE  t.queue = u.queue
<1>1. s \in QueueStates /\ d \in QueueStates /\ CursorInRange(d)
  OBVIOUS
<1>2. CASE command \in {"PlayTracks", "PlayStream"}
  <2>1. \E items : t = ReplaceQueue(s, items, 1) /\ u = ReplaceQueue(d, items, 1)
    <3>1. CASE command = "PlayTracks"
      BY <3>1 DEF Applied
    <3>2. CASE command = "PlayStream"
      BY <3>2 DEF Applied
    <3> QED
      BY <1>2, <3>1, <3>2
  <2> QED
    BY <1>1, <2>1 DEF ReplaceQueue, QueueStates
<1>3. CASE command = "Clear"
  <2>1. t = ClearQueue(s) /\ u = ClearQueue(d)
    BY <1>3 DEF Applied
  <2> QED
    BY <1>1, <2>1 DEF ClearQueue, QueueStates
<1>4. CASE command = "Enqueue"
  <2>1. arg[1] \in Item /\ u \in EnqueueItems(d, <<arg[1]>>, arg[2])
    BY <1>4, ArgumentsTyped DEF Applied, Item
  <2>2. Len(u.queue) = Len(d.queue) + 1
    BY <1>1, <2>1, EnqueueGrows
  <2>3. Len(d.queue) \in Nat
    BY <1>1 DEF QueueStates
  <2> QED
    BY <2>2, <2>3
<1>5. CASE command = "RemoveQueueItem"
  <2>1. t = RemoveItem(s, arg) /\ u = RemoveItem(d, arg) /\ Len(d.queue) \in Nat
    BY <1>1, <1>5 DEF Applied, QueueStates
  <2>2. CASE arg \in 1..Len(d.queue)
    <3>1. u.queue = RemoveAt(d.queue, arg)
      BY <1>1, <2>1, <2>2 DEF RemoveItem, QueueStates
    <3>2. Len(u.queue) = Len(d.queue) - 1
      BY <1>1, <2>2, <3>1, RemoveAtSeq
    <3> QED
      BY <2>1, <3>2
  <2>3. CASE arg \notin 1..Len(d.queue)
    BY <2>1, <2>3 DEF RemoveItem
  <2> QED
    BY <2>2, <2>3
<1>6. CASE command = "MoveQueueItem"
  <2>1. t = MoveItem(s, arg[1], arg[2]) /\ u = MoveItem(d, arg[1], arg[2])
    BY <1>6 DEF Applied
  <2> QED
    BY <1>1, <2>1 DEF MoveItem, QueueStates
<1> QED
  BY <1>2, <1>3, <1>4, <1>5, <1>6 DEF MutatesQueue
-----------------------------------------------------------------------------
(* What goes on playing. *)

LEMMA PreparedPlaying ==
  ASSUME NEW s \in QueueStates, NEW command
  PROVE  LET u == Prepared(s, command)
         IN u.queue = s.queue /\ u.position = s.position
BY DEF Prepared, CancelRefill, QueueStates

LEMMA SamePlaying ==
  ASSUME NEW s, NEW t, NEW n \in Nat, s.position \in 0..n,
         n = Len(s.queue), Len(t.queue) \in Nat,
         IF s.position = 0 THEN t.position = 0
         ELSE /\ t.position \in 1..Len(t.queue)
              /\ t.queue[t.position] = s.queue[s.position]
  PROVE  NowPlaying(t) = NowPlaying(s)
<1>1. CASE s.position = 0
  BY <1>1 DEF NowPlaying
<1>2. CASE s.position # 0
  <2>1. s.position \in 1..Len(s.queue)
    BY <1>2
  <2> QED
    BY <1>2, <2>1 DEF NowPlaying
<1> QED
  BY <1>1, <1>2

\* Moving an item takes the cursor along with what it points at.
LEMMA MoveKeepsPlaying ==
  ASSUME NEW s \in QueueStates, CursorInRange(s), NEW from \in Nat, NEW to \in Nat
  PROVE  NowPlaying(MoveItem(s, from, to)) = NowPlaying(s)
<1> DEFINE len == Len(s.queue)
           rest == RemoveAt(s.queue, from)
           moved == InsertAt(rest, to, s.queue[from])
           v == IF s.position = 0 THEN 0
                ELSE ReindexAfterMove(s.position, from, to)
           t == [s EXCEPT !.queue = moved, !.position = v]
<1>1. len \in Nat /\ s.position \in 0..len /\ s.queue \in Seq(Item)
  BY DEF CursorInRange, QueueStates
<1>2. CASE ~({from, to} \subseteq 1..len) \/ from = to
  BY <1>2 DEF MoveItem
<1>3. CASE {from, to} \subseteq 1..len /\ from # to
  <2>1. from \in 1..len /\ to \in 1..len /\ s.queue[from] \in Item
    BY <1>1, <1>3, ElementOfSeq
  <2>2. /\ rest \in Seq(Item) /\ Len(rest) = len - 1
        /\ \A i \in 1..from - 1 : rest[i] = s.queue[i]
        /\ \A i \in from..len - 1 : rest[i] = s.queue[i + 1]
    BY <1>1, <2>1, RemovedElements
  <2> HIDE DEF rest
  <2>3. to \in 1..Len(rest) + 1
    BY <1>1, <2>1, <2>2
  <2>4. /\ Len(moved) = Len(rest) + 1 /\ moved[to] = s.queue[from]
        /\ \A i \in 1..to - 1 : moved[i] = rest[i]
        /\ \A i \in to + 1..Len(rest) + 1 : moved[i] = rest[i - 1]
    <3> DEFINE item == s.queue[from]
    <3>1. moved = InsertAt(rest, to, item) /\ item \in Item
      BY <2>1
    <3> HIDE DEF item, moved
    <3>2. IsInserted(Item, rest, to, item, InsertAt(rest, to, item))
      BY <2>2, <2>3, <3>1, InsertedElements
    <3> QED
      BY <3>1, <3>2 DEF IsInserted, item
  <2>5. MoveItem(s, from, to) = t
    BY <1>1, <1>3 DEF MoveItem, rest
  <2>6. t.queue = moved /\ t.position = v
    BY DEF QueueStates
  <2> HIDE DEF moved, t
  <2>7. Len(moved) = len
    BY <1>1, <2>2, <2>4
  <2>8. ASSUME s.position # 0
        PROVE  v \in 1..len /\ moved[v] = s.queue[s.position]
    <3> DEFINE p == s.position
    <3>1. p \in 1..len /\ v = ReindexAfterMove(p, from, to)
      BY <1>1, <2>8
    <3> HIDE DEF p, v
    <3>2. CASE p = from
      BY <2>1, <2>4, <3>1, <3>2 DEF ReindexAfterMove, p
    <3>3. CASE from < p /\ p <= to
      <4>1. v = p - 1
        BY <3>1, <3>3 DEF ReindexAfterMove
      <4>2. p - 1 \in 1..to - 1 /\ p - 1 \in from..len - 1 /\ p - 1 + 1 = p
        BY <1>1, <2>1, <3>1, <3>3
      <4>3. moved[p - 1] = rest[p - 1] /\ rest[p - 1] = s.queue[p - 1 + 1]
        BY <2>2, <2>4, <4>2
      <4> QED
        BY <1>1, <2>1, <4>1, <4>2, <4>3 DEF p
    <3>4. CASE to <= p /\ p < from
      <4>1. v = p + 1
        BY <2>1, <3>1, <3>4 DEF ReindexAfterMove
      <4>2. p + 1 \in to + 1..Len(rest) + 1 /\ p \in 1..from - 1 /\ p + 1 - 1 = p
        BY <1>1, <2>1, <2>2, <3>1, <3>4
      <4>3. moved[p + 1] = rest[p + 1 - 1] /\ rest[p] = s.queue[p]
        BY <2>2, <2>4, <4>2
      <4> QED
        BY <1>1, <2>2, <4>1, <4>2, <4>3 DEF p
    <3>5. CASE p < from /\ p < to
      <4>1. v = p
        BY <2>1, <3>1, <3>5 DEF ReindexAfterMove
      <4>2. p \in 1..to - 1 /\ p \in 1..from - 1
        BY <2>1, <3>1, <3>5
      <4> QED
        BY <2>2, <2>4, <3>1, <4>1, <4>2 DEF p
    <3>6. CASE from < p /\ to < p
      <4>1. v = p
        BY <2>1, <3>1, <3>6 DEF ReindexAfterMove
      <4>2. p \in to + 1..Len(rest) + 1 /\ p - 1 \in from..len - 1 /\ p - 1 + 1 = p
        BY <1>1, <2>1, <2>2, <3>1, <3>6
      <4>3. moved[p] = rest[p - 1] /\ rest[p - 1] = s.queue[p - 1 + 1]
        BY <2>2, <2>4, <4>2
      <4> QED
        BY <3>1, <4>1, <4>2, <4>3 DEF p
    <3> QED
      BY <2>1, <3>1, <3>2, <3>3, <3>4, <3>5, <3>6
  <2>9. s.position = 0 => v = 0
    OBVIOUS
  <2> HIDE DEF v
  <2>10. NowPlaying(t) = NowPlaying(s)
    BY <1>1, <2>6, <2>7, <2>8, <2>9, SamePlaying
  <2> QED
    BY <2>5, <2>10
<1> QED
  BY <1>2, <1>3

\* Removing any other item leaves the current one.
LEMMA RemoveKeepsPlaying ==
  ASSUME NEW s \in QueueStates, CursorInRange(s), NEW index \in Nat,
         index # s.position
  PROVE  NowPlaying(RemoveItem(s, index)) = NowPlaying(s)
<1> DEFINE len == Len(s.queue)
           rest == RemoveAt(s.queue, index)
           v == IF s.position > index THEN s.position - 1 ELSE s.position
           t == [s EXCEPT !.queue = rest, !.position = v]
<1>1. len \in Nat /\ s.position \in 0..len /\ s.queue \in Seq(Item)
  BY DEF CursorInRange, QueueStates
<1>2. CASE index \notin 1..len
  BY <1>2 DEF RemoveItem
<1>3. CASE index \in 1..len
  <2>1. /\ rest \in Seq(Item) /\ Len(rest) = len - 1
        /\ \A i \in 1..index - 1 : rest[i] = s.queue[i]
        /\ \A i \in index..len - 1 : rest[i] = s.queue[i + 1]
    BY <1>1, <1>3, RemovedElements
  <2>2. RemoveItem(s, index) = t
    <3>1. CASE s.position > index
      BY <1>1, <1>3, <3>1 DEF RemoveItem
    <3>2. CASE ~(s.position > index)
      <4>1. [s EXCEPT !.queue = rest] = t
        BY <3>2 DEF QueueStates
      <4>2. RemoveItem(s, index) = [s EXCEPT !.queue = rest]
        BY <1>1, <1>3, <3>2 DEF RemoveItem
      <4> QED
        BY <4>1, <4>2
    <3> QED
      BY <3>1, <3>2
  <2>3. t.queue = rest /\ t.position = v
    BY DEF QueueStates
  <2> HIDE DEF t, rest
  <2>4. ASSUME s.position # 0
        PROVE  v \in 1..len - 1 /\ rest[v] = s.queue[s.position]
    <3>1. CASE s.position > index
      <4> DEFINE p == s.position - 1
      <4>1. v = p /\ p \in index..len - 1 /\ p + 1 = s.position
        BY <1>1, <1>3, <3>1
      <4> HIDE DEF p, v
      <4> QED
        BY <1>1, <1>3, <2>1, <4>1
    <3>2. CASE ~(s.position > index)
      <4>1. v = s.position /\ v \in 1..index - 1
        BY <1>1, <1>3, <2>4, <3>2
      <4> HIDE DEF v
      <4> QED
        BY <1>1, <1>3, <2>1, <4>1
    <3> QED
      BY <3>1, <3>2
  <2>5. s.position = 0 => v = 0
    BY <1>3
  <2> HIDE DEF v
  <2>6. NowPlaying(t) = NowPlaying(s)
    <3>1. len \in Nat /\ s.position \in 0..len /\ Len(t.queue) = len - 1 /\ Len(t.queue) \in Nat
      BY <1>1, <1>3, <2>1, <2>3
    <3>2. IF s.position = 0 THEN t.position = 0
          ELSE /\ t.position \in 1..Len(t.queue)
               /\ t.queue[t.position] = s.queue[s.position]
      BY <2>3, <2>4, <2>5, <3>1
    <3> QED
      BY <3>1, <3>2, SamePlaying
  <2> QED
    BY <2>2, <2>6
<1> QED
  BY <1>2, <1>3

\* Tracks added anywhere but before the cursor leave the current one.
LEMMA EnqueueKeepsPlaying ==
  ASSUME NEW s \in QueueStates, CursorInRange(s), NEW items \in Seq(Item), NEW next,
         NEW t \in EnqueueItems(s, items, next)
  PROVE  NowPlaying(t) = NowPlaying(s)
<1>1. /\ Len(s.queue) \in Nat /\ Len(items) \in Nat /\ s.queue \in Seq(Item)
      /\ s.position \in 0..Len(s.queue)
  BY LenProperties DEF CursorInRange, QueueStates
<1>2. CASE items = <<>> \/ ~next \/ s.position = 0
  <2>1. t.queue = s.queue \o items /\ t.position = s.position
    BY <1>2 DEF EnqueueItems, QueueStates
  <2>2. /\ Len(t.queue) = Len(s.queue) + Len(items)
        /\ \A i \in 1..Len(s.queue) + Len(items) : t.queue[i] =
             IF i <= Len(s.queue) THEN s.queue[i] ELSE items[i - Len(s.queue)]
    BY <1>1, <2>1, ConcatProperties
  <2>3. ASSUME s.position # 0
        PROVE  s.position \in 1..Len(t.queue) /\ t.queue[s.position] = s.queue[s.position]
    <3>1. /\ s.position \in 1..Len(s.queue) + Len(items) /\ s.position <= Len(s.queue)
          /\ s.position \in 1..Len(t.queue)
      BY <1>1, <2>2, <2>3
    <3> QED
      BY <2>2, <3>1
  <2>4. Len(t.queue) \in Nat
    BY <1>1, <2>2
  <2>5. IF s.position = 0 THEN t.position = 0
        ELSE /\ t.position \in 1..Len(t.queue)
             /\ t.queue[t.position] = s.queue[s.position]
    BY <2>1, <2>3
  <2> QED
    BY <1>1, <2>4, <2>5, SamePlaying
<1>3. CASE ~(items = <<>> \/ ~next \/ s.position = 0)
  <2>1. t.queue = Spliced(s.queue, s.position, items, s.position)
        /\ t.position = s.position
    BY <1>3 DEF EnqueueItems, QueueStates, Spliced
  <2>2. IsSpliced(Item, s.queue, s.position, items, s.position, t.queue)
    BY <1>1, <2>1, SplicedElements
  <2>3. /\ Len(t.queue) = s.position + Len(items) + (Len(s.queue) - s.position)
        /\ \A i \in 1..s.position : t.queue[i] = s.queue[i]
    BY <2>2 DEF IsSpliced
  <2>4. /\ s.position \in 1..s.position /\ s.position \in 1..Len(t.queue)
        /\ Len(t.queue) \in Nat
    BY <1>1, <1>3, <2>3
  <2>5. t.queue[s.position] = s.queue[s.position]
    BY <2>3, <2>4
  <2>6. IF s.position = 0 THEN t.position = 0
        ELSE /\ t.position \in 1..Len(t.queue)
             /\ t.queue[t.position] = s.queue[s.position]
    BY <1>3, <2>1, <2>4, <2>5
  <2> QED
    BY <1>1, <2>4, <2>6, SamePlaying
<1> QED
  BY <1>2, <1>3

-----------------------------------------------------------------------------
(* What comes next. *)

\* Where the hint says the queue goes next, it goes: it is what the next
\* advance will choose, and none is given where that is not decided yet.
LEMMA AdvanceGoesToPeek ==
  ASSUME NEW s, Sound(TRUE, s), PeekNextIndex(s) # 0, s.repeat # "One",
         NEW stop \in BOOLEAN, NEW t \in Advance(s, stop)
  PROVE  t \in QueueStates /\ t.position = PeekNextIndex(s)
<1> DEFINE next == PeekNextIndex(s)
<1>1. s \in QueueStates /\ s.position # 0 /\ Len(s.queue) # 0 /\ s.shuffle \in BOOLEAN
  BY DEF PeekNextIndex, Sound, QueueStates
<1>2. s.queue # <<>> /\ Len(s.queue) \in Nat
  BY <1>1, EmptySeq DEF QueueStates
<1>3. \A c \in AdvanceChoices(s) : c[2] = next
  <2>1. CASE ~s.shuffle
    BY <1>1, <2>1 DEF AdvanceChoices, PeekNextIndex
  <2>2. CASE s.shuffle
    <3>1. /\ ShuffleOrderValid(s.order, Len(s.queue), s.position)
          /\ ShuffleCursor(s.order, s.position) < Len(s.queue)
          /\ next = s.order[ShuffleCursor(s.order, s.position) + 1]
      BY <1>1, <2>2 DEF PeekNextIndex
    <3>2. EnsureShuffleOrder(s) = {s.order}
      BY <3>1 DEF EnsureShuffleOrder
    <3>3. s.order \in Seq(Nat) /\ Len(s.queue) \in Nat
      BY <1>1 DEF QueueStates
    <3> SUFFICES ASSUME NEW c \in AdvanceChoices(s) PROVE c[2] = next
      OBVIOUS
    <3> DEFINE cursor == ShuffleCursor(s.order, s.position)
    <3>4. c \in ChoicesAlong(s, s.order)
      BY <2>2, <3>2 DEF AdvanceChoices
    <3>5. cursor \in Nat \ {0}
      BY <3>3, CursorPositive
    <3>6. cursor < Len(s.queue) /\ next = s.order[cursor + 1]
      BY <3>1
    <3> HIDE DEF cursor, next
    <3>7. c = <<s.order, s.order[cursor + 1]>>
      BY <3>3, <3>4, <3>5, <3>6 DEF cursor, ChoicesAlong
    <3> QED
      BY <3>6, <3>7
  <2> QED
    BY <1>1, <2>1, <2>2
<1>4. PICK c \in AdvanceChoices(s) : t = Landed([s EXCEPT !.order = c[1]], c[2], stop)
  BY <1>1, <1>2 DEF Advance
<1>5. t.position = next
  <2> DEFINE u == [s EXCEPT !.order = c[1]]
             w == ClearExhaustionAfterAdvance(u, next)
  <2>1. t = [w EXCEPT !.position = next]
    BY <1>3, <1>4 DEF Landed
  <2>2. "position" \in DOMAIN w
    BY <1>1 DEF ClearExhaustionAfterAdvance, CancelRefill, QueueStates
  <2> HIDE DEF w, next
  <2> QED
    BY <2>1, <2>2
<1>6. t \in QueueStates
  BY AdvanceSound DEF Sound
<1> QED
  BY <1>5, <1>6

\* A valid play order has the current item in one place, as it leaves none out.
LEMMA CursorFound ==
  ASSUME NEW n \in Nat, NEW order \in Seq(Nat), NEW at, ShuffleOrderValid(order, n, at)
  PROVE  LET cursor == ShuffleCursor(order, at)
         IN cursor \in 1..n /\ order[cursor] = at
<1> DEFINE f == [i \in 1..n |-> order[i]]
<1>1. Len(order) = n /\ at \in 1..n
  BY DEF ShuffleOrderValid
<1>2. f \in [1..n -> 1..n] /\ \A i \in 1..n : f[i] = order[i]
  BY DEF ShuffleOrderValid
<1>3. \A i, j \in 1..n : f[i] = f[j] => i = j
  BY DEF ShuffleOrderValid
<1> HIDE DEF f
<1>4. f \in Injection(1..n, 1..n)
  BY <1>2, <1>3 DEF Injection, IsInjective
<1>5. f \in Surjection(1..n, 1..n)
  BY <1>4, FS_Injection, FS_Interval
<1>6. \E i \in 1..n : order[i] = at
  BY <1>1, <1>2, <1>5 DEF Surjection
<1> QED
  BY <1>1, <1>6 DEF ShuffleCursor

LEMMA CursorUnique ==
  ASSUME NEW order \in Seq(Nat), NEW at, NEW cursor \in 1..Len(order),
         \A i \in 1..Len(order) : order[i] = at <=> i = cursor
  PROVE  ShuffleCursor(order, at) = cursor
BY DEF ShuffleCursor

\* The order after a splice: the current item keeps its place, the added ones
\* follow, and behind them what followed before, at its new index.
IsSplicedOrder(n, order, at, count, cursor, new) ==
  /\ new \in Seq(Nat) /\ Len(new) = n + count
  /\ ShuffleCursor(new, at) = cursor
  /\ \A i \in 1..count : new[cursor + i] = at + i
  /\ \A i \in 1..n - cursor :
       new[cursor + count + i] = IF order[cursor + i] > at
                                 THEN order[cursor + i] + count
                                 ELSE order[cursor + i]

LEMMA SpliceFollows ==
  ASSUME NEW n \in Nat, NEW order \in Seq(Nat), NEW at, NEW count \in Nat,
         ShuffleOrderValid(order, n, at)
  PROVE  IsSplicedOrder(n, order, at, count, ShuffleCursor(order, at),
                        SpliceOrder(order, at, count))
<1> DEFINE cursor == ShuffleCursor(order, at)
           shifted == [i \in 1..Len(order) |->
                         IF order[i] > at THEN order[i] + count ELSE order[i]]
           added == [i \in 1..count |-> at + i]
           new == SpliceOrder(order, at, count)
<1>1. /\ Len(order) = n /\ at \in 1..n /\ \A i \in 1..n : order[i] \in 1..n
      /\ \A i, j \in 1..n : order[i] = order[j] => i = j
  BY DEF ShuffleOrderValid
<1>2. cursor \in 1..n /\ order[cursor] = at
  BY CursorFound
<1>3. shifted \in Seq(Nat) /\ Len(shifted) = n
  <2>1. \A i \in 1..n : (IF order[i] > at THEN order[i] + count ELSE order[i]) \in Nat
    <3> TAKE i \in 1..n
    <3> DEFINE v == order[i]
    <3>1. v \in 1..n
      BY <1>1
    <3> HIDE DEF v
    <3>2. v \in Nat /\ v + count \in Nat
      BY <3>1
    <3> QED
      BY <3>2 DEF v
  <2>2. shifted \in [1..n -> Nat]
    BY <1>1, <2>1
  <2> HIDE DEF shifted
  <2> QED
    BY <2>2, FunctionIsSeq
<1>4. added \in Seq(Nat) /\ Len(added) = count
  <2>1. added \in [1..count -> Nat]
    BY <1>1
  <2> HIDE DEF added
  <2> QED
    BY <2>1, FunctionIsSeq
<1>5. /\ \A i \in 1..n : shifted[i] = IF order[i] > at THEN order[i] + count ELSE order[i]
      /\ \A i \in 1..count : added[i] = at + i
  BY <1>1
<1>6. new = Spliced(shifted, cursor, added, cursor)
  BY <1>1, <1>3 DEF SpliceOrder, Spliced
<1> HIDE DEF shifted, added, new, cursor
<1>7. IsSpliced(Nat, shifted, cursor, added, cursor, new)
  <2>1. cursor \in 0..Len(shifted)
    BY <1>2, <1>3
  <2> QED
    BY <1>3, <1>4, <1>6, <2>1, SplicedElements
<1>8. /\ new \in Seq(Nat) /\ Len(new) = cursor + count + (n - cursor)
      /\ \A i \in 1..cursor : new[i] = shifted[i]
      /\ \A i \in 1..count : new[cursor + i] = added[i]
      /\ \A i \in 1..n - cursor : new[cursor + count + i] = shifted[cursor + i]
  BY <1>3, <1>4, <1>7 DEF IsSpliced
<1>9. Len(new) = n + count
  BY <1>1, <1>2, <1>8
<1>10. ASSUME NEW i \in 1..n - cursor
       PROVE  /\ new[cursor + count + i] = IF order[cursor + i] > at
                                           THEN order[cursor + i] + count
                                           ELSE order[cursor + i]
              /\ cursor + i \in 1..n
  <2> DEFINE k == cursor + i
  <2>1. k \in 1..n
    BY <1>2
  <2> HIDE DEF k
  <2>2. shifted[k] = IF order[k] > at THEN order[k] + count ELSE order[k]
    BY <1>5, <2>1
  <2> QED
    BY <1>8, <2>1, <2>2 DEF k
<1>11. ASSUME NEW i \in 1..n, shifted[i] = at PROVE i = cursor
  <2>1. order[i] = at
    <3>1. shifted[i] = (IF order[i] > at THEN order[i] + count ELSE order[i])
          /\ order[i] \in Nat /\ at \in Nat
      BY <1>1, <1>5
    <3> QED
      BY <1>11, <3>1
  <2> QED
    BY <1>1, <1>2, <2>1
<1>12. ASSUME NEW i \in 1..n + count, new[i] = at
       PROVE  i = cursor
  <2>1. CASE i \in 1..cursor
    <3>1. new[i] = shifted[i]
      BY <1>8, <2>1
    <3>2. i \in 1..n
      BY <1>2, <2>1
    <3> QED
      BY <1>11, <1>12, <3>1, <3>2
  <2>2. CASE i \in cursor + 1..cursor + count
    <3> DEFINE j == i - cursor
    <3>1. j \in 1..count /\ cursor + j = i
      BY <1>2, <2>2
    <3> HIDE DEF j
    <3>2. new[i] = at + j
      BY <1>5, <1>8, <3>1
    <3> QED
      BY <1>1, <1>12, <3>1, <3>2
  <2>3. CASE i \in cursor + count + 1..n + count
    <3> DEFINE j == i - cursor - count
    <3>1. /\ j \in 1..n - cursor /\ cursor + count + j = i /\ cursor + j \in 1..n
          /\ cursor + j # cursor
      BY <1>2, <2>3
    <3> HIDE DEF j
    <3>2. new[i] = shifted[cursor + j]
      BY <1>8, <3>1
    <3> QED
      BY <1>11, <1>12, <3>1, <3>2
  <2> QED
    BY <1>2, <2>1, <2>2, <2>3
<1>13. new[cursor] = at
  <2>1. shifted[cursor] = at
    BY <1>1, <1>2, <1>5
  <2>2. cursor \in 1..cursor
    BY <1>2
  <2> QED
    BY <1>8, <2>1, <2>2
<1>14. ShuffleCursor(new, at) = cursor
  <2>1. cursor \in 1..Len(new)
    BY <1>2, <1>9
  <2>2. \A i \in 1..Len(new) : new[i] = at <=> i = cursor
    BY <1>9, <1>12, <1>13
  <2> QED
    BY <1>8, <2>1, <2>2, CursorUnique
<1> QED
  BY <1>5, <1>8, <1>9, <1>10, <1>14 DEF new, cursor, IsSplicedOrder
=============================================================================
