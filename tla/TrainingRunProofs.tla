------------------------ MODULE TrainingRunProofs ------------------------
(***************************************************************************)
(* Proofs about TrainingRelease and TrainingRun, for all constructions,     *)
(* resources, builders, alterations and schedules.  Of a release: the       *)
(* reader's digests admit no release but the pinned one, what it accepts    *)
(* is derived from its own inputs, and what a build verifies it accepts     *)
(* (ReleaseInv: what is in a directory and what a lone builder has          *)
(* written).  Of a run: the order it records is that of its batches, the    *)
(* one the seed leads to again and one of passes over the train split, and  *)
(* its bundle can be used with its release.  The invariant of a run that    *)
(* is still training (RunInv) says how far the counters are (Counted),      *)
(* that the order is made of whole batches (Batched), and where in the      *)
(* stream of shuffles they come from (Streamed); RunReads says that what    *)
(* it has read was accepted and is still there.                             *)
(***************************************************************************)
EXTENDS TrainingRun, FiniteSetTheorems, WellFoundedInduction, SequenceTheorems, TLAPS

\* A sequence, of whatever its elements are.
IsSeq(s) == s \in Seq(Range(s))

\* The fields of a run that is training.
Fields == {"at", "arch", "release", "config", "shuffles", "position", "batch",
           "order", "seen", "micro", "step"}

\* The types of those fields.
Typed ==
  /\ DOMAIN run = Fields
  /\ run.config.steps \in Nat \ {0}
  /\ run.config.accumulation \in Nat \ {0}
  /\ run.config.size \in Nat \ {0}
  /\ IsSeq(run.order) /\ IsSeq(run.batch) /\ IsSeq(run.seen) /\ IsSeq(run.shuffles)
  /\ run.step \in Nat /\ run.micro \in Nat /\ run.position \in Nat

\* The optimizer is never ahead of its micro-steps, nor more than one step
\* behind; a batch is begun only while one is due.
Counted ==
  /\ run.micro = Len(run.seen)
  /\ run.step <= run.config.steps
  /\ run.config.accumulation * run.step <= run.micro
  /\ run.micro <= run.config.accumulation * run.config.steps
  /\ Len(run.batch) > 0 => Due

\* The i-th record of the b-th batch.
Batched ==
  /\ Len(run.order) = Len(run.seen) * run.config.size
  /\ \A b \in 1..Len(run.seen), i \in 1..run.config.size :
       run.order[(b - 1) * run.config.size + i] = run.seen[b][i]

\* The id of the i-th record of the stream.
Drawn(records, shuffles, i) ==
  records[shuffles[((i - 1) \div Len(records)) + 1][((i - 1) % Len(records)) + 1]].id

\* The stream has passed all shuffles but the last, and is at a position in it.
Streamed ==
  LET records == OfSplit(run.arch, run.release, "train")
      n == Len(records)
      k == Len(run.order) + Len(run.batch)
  IN  n \in Nat \ {0} =>
        /\ \/ k = 0 /\ Len(run.shuffles) = 0 /\ run.position = 0
           \/ /\ run.position \in 1..n
              /\ Len(run.shuffles) > 0
              /\ k = (Len(run.shuffles) - 1) * n + run.position
        /\ \A i \in 1..Len(run.order) : run.order[i] = Drawn(records, run.shuffles, i)
        /\ \A i \in 1..Len(run.batch) :
             run.batch[i] = Drawn(records, run.shuffles, Len(run.order) + i)

\* The invariant of a run: what it is about to record, and what it has recorded.
RunInv ==
  /\ run.at = "training" => Typed /\ Counted /\ Batched /\ Streamed
  /\ OrderIsOfBatches
  /\ OrderIsDrawnAgain

-----------------------------------------------------------------------------
(* Sequences and division.                                                  *)

\* A sequence over a set is one over its elements.
LEMMA AnySeq == ASSUME NEW S, NEW s \in Seq(S) PROVE IsSeq(s)
  <1>1. \A i \in 1..Len(s) : s[i] \in Range(s)
    BY DEF Range
  <1> QED BY <1>1 DEF IsSeq

\* The length and the domain of a sequence.
LEMMA LengthOfSeq == ASSUME NEW s, IsSeq(s) PROVE Len(s) \in Nat /\ DOMAIN s = 1..Len(s)
  BY DEF IsSeq

\* What Append and concatenation do to sequences of anything.
LEMMA AppendSeq ==
  ASSUME NEW s, IsSeq(s), NEW e
  PROVE  /\ IsSeq(Append(s, e))
         /\ Len(Append(s, e)) = Len(s) + 1
         /\ \A i \in 1..Len(s) : Append(s, e)[i] = s[i]
         /\ Append(s, e)[Len(s) + 1] = e
  <1> DEFINE S == Range(s) \union {e}
  <1>1. s \in Seq(S)
    <2>1. s \in Seq(Range(s))
      BY DEF IsSeq
    <2> QED BY <2>1
  <1>2. e \in S
    OBVIOUS
  <1> HIDE DEF S
  <1>3. Append(s, e) \in Seq(S)
    BY <1>1, <1>2
  <1>4. IsSeq(Append(s, e))
    BY <1>3, AnySeq
  <1> QED BY <1>1, <1>2, <1>4

\* The concatenation of two sequences, and what it consists of.
Joined(s, t) == s \o t

LEMMA ConcatSeq ==
  ASSUME NEW s, IsSeq(s), NEW t, IsSeq(t)
  PROVE  /\ IsSeq(Joined(s, t))
         /\ Len(Joined(s, t)) = Len(s) + Len(t)
         /\ \A i \in 1..Len(s) : Joined(s, t)[i] = s[i]
         /\ \A i \in 1..Len(t) : Joined(s, t)[Len(s) + i] = t[i]
  <1> DEFINE S == Range(s) \union Range(t)
  <1>1. s \in Seq(S) /\ t \in Seq(S)
    <2>1. s \in Seq(Range(s)) /\ t \in Seq(Range(t))
      BY DEF IsSeq
    <2> QED BY <2>1
  <1> HIDE DEF S
  <1>2. s \o t \in Seq(S)
    BY <1>1
  <1>3. IsSeq(Joined(s, t))
    BY <1>2, AnySeq DEF Joined
  <1>4. Len(s) \in Nat /\ Len(t) \in Nat
    BY <1>1
  <1>5. /\ Len(s \o t) = Len(s) + Len(t)
        /\ \A i \in 1..Len(s) + Len(t) :
             (s \o t)[i] = IF i <= Len(s) THEN s[i] ELSE t[i - Len(s)]
    BY <1>1
  <1> QED BY <1>3, <1>4, <1>5 DEF Joined

\* After s, r continues with t.
EndsWith(r, s, t) == \A i \in 1..Len(t) : r[Len(s) + i] = t[i]

\* The end of a concatenation is its second part.
LEMMA JoinedTail ==
  ASSUME NEW s, IsSeq(s), NEW t, IsSeq(t)
  PROVE  EndsWith(Joined(s, t), s, t)
  BY ConcatSeq DEF EndsWith

\* Quotient and remainder are determined by the product.
LEMMA Division ==
  ASSUME NEW n \in Nat \ {0}, NEW q \in Nat, NEW r \in 0..(n - 1)
  PROVE  (q * n + r) \div n = q /\ (q * n + r) % n = r
  <1> DEFINE a == q * n + r
             d == a \div n
             m == a % n
  <1>1. a \in Nat
    OBVIOUS
  <1>2. d \in Int /\ m \in 0..(n - 1) /\ a = n * d + m
    BY <1>1
  <1>3. d * n - q * n = r - m
    BY <1>2
  <1>4. r - m < n /\ r - m > -n
    BY <1>2
  <1> HIDE DEF a, d, m
  <1>5. ~ d > q
    <2> SUFFICES ASSUME d > q PROVE FALSE
      OBVIOUS
    <2>1. PICK x \in Nat \ {0} : d = q + x
      BY <1>2
    <2>2. d * n = q * n + x * n
      BY <2>1
    <2>3. x * n >= n
      BY <2>1
    <2> QED BY <1>3, <1>4, <2>1, <2>2, <2>3
  <1>6. ~ d < q
    <2> SUFFICES ASSUME d < q PROVE FALSE
      OBVIOUS
    <2>1. PICK x \in Nat \ {0} : q = d + x
      BY <1>2
    <2>2. q * n = d * n + x * n
      BY <1>2, <2>1
    <2>3. x * n >= n
      BY <2>1
    <2> QED BY <1>2, <1>3, <1>4, <2>1, <2>2, <2>3
  <1>7. d = q
    BY <1>2, <1>5, <1>6
  <1>8. m = r
    BY <1>2, <1>3, <1>7
  <1> QED BY <1>7, <1>8 DEF a, d, m

\* The first passes * n records belong to the first passes.
LEMMA EarlierPass ==
  ASSUME NEW n \in Nat \ {0}, NEW passes \in Nat, NEW a \in Nat, a < passes * n
  PROVE  a \div n \in 0..(passes - 1) /\ a % n \in 0..(n - 1)
  <1> DEFINE d == a \div n
             m == a % n
  <1>1. d \in Nat /\ m \in 0..(n - 1) /\ a = n * d + m
    OBVIOUS
  <1> HIDE DEF d, m
  <1>2. ~ d >= passes
    <2> SUFFICES ASSUME d >= passes PROVE FALSE
      OBVIOUS
    <2>1. PICK x \in Nat : d = passes + x
      BY <1>1
    <2>2. n * d = passes * n + x * n
      BY <2>1
    <2>3. x * n >= 0
      BY <2>1
    <2> QED BY <1>1, <2>1, <2>2, <2>3
  <1>3. d \in 0..(passes - 1)
    BY <1>1, <1>2
  <1> QED BY <1>1, <1>3 DEF d, m

\* Where a stream of L passes over n records is after k of them.
LEMMA Place ==
  ASSUME NEW n \in Nat \ {0}, NEW L \in Nat, NEW k \in Nat, NEW position \in Nat,
         \/ k = 0 /\ L = 0 /\ position = 0
         \/ position \in 1..n /\ L > 0 /\ k = (L - 1) * n + position
  PROVE  /\ k <= L * n
         /\ position % n = 0 => k = L * n
         /\ position % n # 0 => /\ position \in 1..(n - 1)
                                /\ L > 0
                                /\ k + 1 = (L - 1) * n + (position + 1)
  <1>1. CASE k = 0 /\ L = 0 /\ position = 0
    <2>1. 0 % n = 0
      <3>1. 0 \in Nat /\ 0 \in 0..(n - 1) /\ 0 * n + 0 = 0
        OBVIOUS
      <3> QED BY <3>1, Division
    <2> QED BY <1>1, <2>1
  <1>2. CASE position \in 1..n /\ L > 0 /\ k = (L - 1) * n + position
    <2>1. (L - 1) * n + n = L * n /\ (L - 1) * n \in Int
      OBVIOUS
    <2>2. CASE position = n
      <3>1. n % n = 0
        <4>1. 1 \in Nat /\ 0 \in 0..(n - 1) /\ 1 * n + 0 = n
          OBVIOUS
        <4> QED BY <4>1, Division
      <3> QED BY <1>2, <2>1, <2>2, <3>1
    <2>3. CASE position \in 1..(n - 1)
      <3>1. position % n = position
        <4>1. 0 \in Nat /\ position \in 0..(n - 1) /\ 0 * n + position = position
          BY <2>3
        <4> QED BY <4>1, Division
      <3> QED BY <1>2, <2>1, <2>3, <3>1
    <2> QED BY <1>2, <2>2, <2>3
  <1> QED BY <1>1, <1>2

\* Multiplication is monotone.
LEMMA Monotone ==
  ASSUME NEW a \in Nat, NEW x \in Nat, NEW y \in Nat, x < y
  PROVE  a * (x + 1) <= a * y
  <1>1. PICK z \in Nat : y = (x + 1) + z
    OBVIOUS
  <1>2. a * y = a * (x + 1) + a * z
    BY <1>1
  <1>3. a * z \in Nat /\ a * (x + 1) \in Nat
    BY <1>1
  <1> QED BY <1>2, <1>3

\* The records of the first m batches are among the first m * size.
LEMMA WithinBatches ==
  ASSUME NEW m \in Nat, NEW size \in Nat \ {0}, NEW b \in 1..m, NEW i \in 1..size
  PROVE  (b - 1) * size + i \in 1..(m * size)
  <1>1. PICK x \in Nat : m = b + x
    <2>1. m - b \in Nat /\ m = b + (m - b)
      OBVIOUS
    <2> QED BY <2>1
  <1>2. m * size = (b - 1) * size + size + x * size
    BY <1>1
  <1>3. (b - 1) * size \in Nat /\ x * size \in Nat
    <2>1. b - 1 \in Nat
      OBVIOUS
    <2> QED BY <1>1, <2>1
  <1> QED BY <1>2, <1>3

-----------------------------------------------------------------------------
(* The steps of a run.  A run that has not ended records nothing yet.       *)

LEMMA NotEnded ==
  ASSUME run.at # "ended"
  PROVE  OrderIsOfBatches /\ OrderIsDrawnAgain
  BY DEF OrderIsOfBatches, OrderIsDrawnAgain

\* With nothing drawn yet, everything is counted.
LEMMA StartHolds ==
  ASSUME NEW arch \in Architectures, NEW schedule \in Schedules, StartRun(arch, schedule)
  PROVE  (Typed /\ Counted /\ Batched /\ Streamed)' /\ run'.at = "training"
  <1>1. /\ schedule.steps \in Nat \ {0}
        /\ schedule.accumulation \in Nat \ {0}
        /\ schedule.size \in Nat \ {0}
    BY SchedulesAssumption
  <1>2. /\ DOMAIN run' = Fields
        /\ run'.at = "training"
        /\ run'.config.steps = schedule.steps
        /\ run'.config.accumulation = schedule.accumulation
        /\ run'.config.size = schedule.size
        /\ run'.order = <<>> /\ run'.batch = <<>> /\ run'.seen = <<>> /\ run'.shuffles = <<>>
        /\ run'.step = 0 /\ run'.micro = 0 /\ run'.position = 0
    BY DEF StartRun, Fields
  <1>3. IsSeq(<<>>) /\ Len(<<>>) = 0
    <2>1. << >> \in Seq({})
      OBVIOUS
    <2> QED BY <2>1, AnySeq
  <1>4. Typed'
    BY <1>1, <1>2, <1>3 DEF Typed
  <1>5. Counted'
    BY <1>1, <1>2, <1>3 DEF Counted
  <1>6. Batched'
    BY <1>1, <1>2, <1>3 DEF Batched
  <1>7. Streamed'
    BY <1>1, <1>2, <1>3 DEF Streamed
  <1> QED BY <1>2, <1>4, <1>5, <1>6, <1>7

\* The next record is the one after those drawn, in this pass or the next.
LEMMA TakeHolds ==
  ASSUME TakeRecord, Typed, Counted, Batched, Streamed
  PROVE  (Typed /\ Counted /\ Batched /\ Streamed)' /\ run'.at = "training"
  <1> DEFINE records == OfSplit(run.arch, run.release, "train")
             n == Len(records)
             ended == run.position % n = 0
  <1>1. PICK p : LET position == IF ended THEN 1 ELSE run.position + 1
                 IN  /\ ~ ended => p = run.shuffles[Len(run.shuffles)]
                     /\ run' = [run EXCEPT !.shuffles = IF ended THEN Append(@, p) ELSE @,
                                           !.position = position,
                                           !.batch = Append(@, records[p[position]].id)]
    BY DEF TakeRecord
  <1> DEFINE position == IF ended THEN 1 ELSE run.position + 1
             e == records[p[position]].id
  <1>2. /\ DOMAIN run' = Fields
        /\ run'.shuffles = IF ended THEN Append(run.shuffles, p) ELSE run.shuffles
        /\ run'.position = position
        /\ run'.batch = Append(run.batch, e)
        /\ run'.at = run.at /\ run'.arch = run.arch /\ run'.release = run.release
        /\ run'.config = run.config /\ run'.order = run.order /\ run'.seen = run.seen
        /\ run'.micro = run.micro /\ run'.step = run.step
    BY <1>1 DEF Typed, Fields
  <1>3. run.at = "training" /\ Due
    BY DEF TakeRecord, Training
  <1>4. /\ IsSeq(run'.shuffles)
        /\ ended => /\ Len(run'.shuffles) = Len(run.shuffles) + 1
                    /\ \A i \in 1..Len(run.shuffles) : run'.shuffles[i] = run.shuffles[i]
                    /\ run'.shuffles[Len(run.shuffles) + 1] = p
    <2>1. CASE ended
      BY <1>2, <2>1, AppendSeq DEF Typed
    <2>2. CASE ~ ended
      BY <1>2, <2>2 DEF Typed
    <2> QED BY <2>1, <2>2
  <1>5. /\ IsSeq(run'.batch)
        /\ Len(run'.batch) = Len(run.batch) + 1
        /\ \A i \in 1..Len(run.batch) : run'.batch[i] = run.batch[i]
        /\ run'.batch[Len(run.batch) + 1] = e
    <2> HIDE DEF e
    <2> QED BY <1>2, AppendSeq DEF Typed
  <1>6. Typed'
    <2>1. position \in Nat
      BY DEF Typed
    <2> HIDE DEF position
    <2> QED BY <1>2, <1>4, <1>5, <2>1 DEF Typed
  <1>7. Counted'
    BY <1>2, <1>3 DEF Counted, Due
  <1>8. Batched'
    BY <1>2 DEF Batched
  <1>9. Streamed'
    <2> DEFINE L == Len(run.shuffles)
               A == Len(run.order)
               B == Len(run.batch)
               k == A + B
    <2>1. OfSplit(run.arch, run.release, "train")' = records
      BY <1>2
    <2>2. L \in Nat /\ A \in Nat /\ B \in Nat /\ run.position \in Nat /\ Len(run'.shuffles) \in Nat
      <3> HIDE DEF records, ended, e, position
      <3> QED BY <1>4, LengthOfSeq DEF Typed
    <2>3. Len(run'.order) = A /\ Len(run'.batch) = B + 1
      BY <1>2, <1>5
    <2> SUFFICES ASSUME n \in Nat \ {0}
                 PROVE  /\ run'.position \in 1..n
                        /\ Len(run'.shuffles) > 0
                        /\ k + 1 = (Len(run'.shuffles) - 1) * n + run'.position
                        /\ \A i \in 1..A :
                             run'.order[i] = Drawn(records, run'.shuffles, i)
                        /\ \A i \in 1..Len(run'.batch) :
                             run'.batch[i] = Drawn(records, run'.shuffles, A + i)
      <3>1. A + (B + 1) = k + 1
        <4> HIDE DEF A, B
        <4> QED BY <2>2
      <3> HIDE DEF records, k
      <3> QED BY <1>2, <2>1, <2>3, <3>1 DEF Streamed
    <2>4. /\ \/ k = 0 /\ L = 0 /\ run.position = 0
             \/ run.position \in 1..n /\ L > 0 /\ k = (L - 1) * n + run.position
          /\ \A i \in 1..A : run.order[i] = Drawn(records, run.shuffles, i)
          /\ \A i \in 1..B :
               run.batch[i] = Drawn(records, run.shuffles, A + i)
      BY DEF Streamed
    <2>5. /\ k \in Nat
          /\ \A i \in 1..A : i \in 1..k
          /\ \A i \in 1..B : A + i \in 1..k
          /\ A + (B + 1) = k + 1
      <3> HIDE DEF A, B
      <3> QED BY <2>2
    <2>8. ended => Len(run'.shuffles) = L + 1 /\ run'.position = 1
      BY <1>2, <1>4
    <2>9. ~ ended => run'.shuffles = run.shuffles /\ run'.position = run.position + 1
      BY <1>2
    <2> HIDE DEF records, n, k, A, B, L, e, position
    <2>10. /\ k <= L * n
           /\ ended => k = L * n
           /\ ~ ended => /\ run.position \in 1..(n - 1)
                         /\ L > 0
                         /\ k + 1 = (L - 1) * n + (run.position + 1)
      BY <2>2, <2>4, <2>5, Place, SMTT(30)
    <2>11. /\ run'.position \in 1..n
           /\ Len(run'.shuffles) > 0
           /\ k + 1 = (Len(run'.shuffles) - 1) * n + run'.position
      <3>1. CASE ended
        <4>1. (L + 1) - 1 = L /\ 1 \in 1..n /\ L + 1 > 0
          BY <2>2
        <4> QED BY <2>8, <2>10, <3>1, <4>1
      <3>2. CASE ~ ended
        <4>1. run.position + 1 \in 1..n /\ Len(run'.shuffles) = L
          BY <2>9, <2>10, <3>2 DEF L
        <4> QED BY <2>9, <2>10, <3>2, <4>1
      <3> QED BY <3>1, <3>2
    <2>12. \A j \in 1..k : Drawn(records, run'.shuffles, j) = Drawn(records, run.shuffles, j)
      <3> SUFFICES ASSUME NEW j \in 1..k
                   PROVE  run'.shuffles[((j - 1) \div n) + 1] = run.shuffles[((j - 1) \div n) + 1]
        BY DEF Drawn, n
      <3>1. j - 1 \in Nat /\ j - 1 < L * n
        <4>1. L * n \in Int
          BY <2>2
        <4> QED BY <2>2, <2>5, <2>10, <4>1
      <3>2. (j - 1) \div n \in 0..(L - 1)
        BY <2>2, <3>1, EarlierPass
      <3>3. ((j - 1) \div n) + 1 \in 1..L
        BY <2>2, <3>2
      <3>4. CASE ended
        BY <1>4, <3>3, <3>4 DEF L
      <3>5. CASE ~ ended
        BY <2>9, <3>5
      <3> QED BY <3>4, <3>5
    <2>13. Drawn(records, run'.shuffles, k + 1) = e
      <3> DEFINE M == Len(run'.shuffles)
      <3>1. /\ M - 1 \in Nat
            /\ run'.position - 1 \in 0..(n - 1)
            /\ (M - 1) + 1 = M
            /\ (run'.position - 1) + 1 = run'.position
        BY <2>2, <2>11
      <3>2. k = (M - 1) * n + (run'.position - 1)
        <4>1. (M - 1) * n \in Int
          BY <3>1
        <4> HIDE DEF M
        <4> QED BY <2>2, <2>5, <2>11, <4>1, SMTT(30) DEF M
      <3>3. k \div n = M - 1 /\ k % n = run'.position - 1
        <4> HIDE DEF M
        <4> QED BY <3>1, <3>2, Division
      <3>4. (k + 1) - 1 = k
        BY <2>5
      <3>5. run'.shuffles[M] = p
        <4>1. CASE ended
          BY <1>4, <2>8, <4>1 DEF L
        <4>2. CASE ~ ended
          BY <1>1, <2>9, <4>2
        <4> QED BY <4>1, <4>2
      <3>6. Drawn(records, run'.shuffles, k + 1) = records[run'.shuffles[M][run'.position]].id
        <4> HIDE DEF M
        <4> QED BY <3>1, <3>3, <3>4 DEF Drawn, n
      <3> QED BY <1>2, <3>5, <3>6 DEF e
    <2>14. \A i \in 1..A : run'.order[i] = Drawn(records, run'.shuffles, i)
      BY <1>2, <2>4, <2>5, <2>12 DEF A
    <2>15. \A i \in 1..Len(run'.batch) :
             run'.batch[i] = Drawn(records, run'.shuffles, A + i)
      <3>1. \A i \in 1..B :
              run'.batch[i] = Drawn(records, run'.shuffles, A + i)
        BY <1>5, <2>4, <2>5, <2>12 DEF B
      <3>2. run'.batch[B + 1]
              = Drawn(records, run'.shuffles, A + (B + 1))
        BY <1>5, <2>5, <2>13 DEF B
      <3>3. \A i \in 1..Len(run'.batch) : i \in 1..B \/ i = B + 1
        BY <2>2, <2>3
      <3> QED BY <3>1, <3>2, <3>3
    <2> QED BY <2>11, <2>14, <2>15
  <1> QED BY <1>2, <1>3, <1>6, <1>7, <1>8, <1>9

\* A full batch has the size of the configuration.
LEMMA FullBatch ==
  ASSUME IsSeq(run.order), IsSeq(run.batch), run'.order = run.order \o run.batch
  PROVE  /\ IsSeq(run'.order)
         /\ Len(run'.order) = Len(run.order) + Len(run.batch)
         /\ \A i \in 1..Len(run.order) : run'.order[i] = run.order[i]
         /\ \A i \in 1..Len(run.batch) : run'.order[Len(run.order) + i] = run.batch[i]
  <1>1. /\ IsSeq(Joined(run.order, run.batch))
        /\ Len(Joined(run.order, run.batch)) = Len(run.order) + Len(run.batch)
        /\ \A i \in 1..Len(run.order) : Joined(run.order, run.batch)[i] = run.order[i]
        /\ \A i \in 1..Len(run.batch) :
             Joined(run.order, run.batch)[Len(run.order) + i] = run.batch[i]
    <2>1. IsSeq(Joined(run.order, run.batch))
      BY ConcatSeq
    <2>2. Len(Joined(run.order, run.batch)) = Len(run.order) + Len(run.batch)
      BY ConcatSeq
    <2>3. ASSUME NEW i \in 1..Len(run.order)
          PROVE  Joined(run.order, run.batch)[i] = run.order[i]
      BY ConcatSeq
    <2>4. EndsWith(Joined(run.order, run.batch), run.order, run.batch)
      BY JoinedTail
    <2> QED BY <2>1, <2>2, <2>3, <2>4 DEF EndsWith
  <1>2. run'.order = Joined(run.order, run.batch)
    BY DEF Joined
  <1> QED BY <1>1, <1>2

\* A full batch goes to the end of the order, at the place of its number.
LEMMA MicroHolds ==
  ASSUME MicroStep, Typed, Counted, Batched, Streamed
  PROVE  (Typed /\ Counted /\ Batched /\ Streamed)' /\ run'.at = "training"
  <1> DEFINE size == run.config.size
             m == Len(run.seen)
  <1>1. /\ DOMAIN run' = Fields
        /\ run'.order = run.order \o run.batch
        /\ run'.seen = Append(run.seen, run.batch)
        /\ run'.batch = <<>>
        /\ run'.micro = run.micro + 1
        /\ run'.at = run.at /\ run'.arch = run.arch /\ run'.release = run.release
        /\ run'.config = run.config /\ run'.shuffles = run.shuffles
        /\ run'.position = run.position /\ run'.step = run.step
    BY DEF MicroStep, Typed, Fields
  <1>2. run.at = "training" /\ Len(run.batch) = size
    BY DEF MicroStep, Training
  <1>3. /\ IsSeq(run'.order)
        /\ Len(run'.order) = Len(run.order) + Len(run.batch)
        /\ \A i \in 1..Len(run.order) : run'.order[i] = run.order[i]
        /\ \A i \in 1..Len(run.batch) : run'.order[Len(run.order) + i] = run.batch[i]
    <2>1. IsSeq(run.order) /\ IsSeq(run.batch)
      BY DEF Typed
    <2> QED BY <1>1, <2>1, FullBatch
  <1>4. /\ IsSeq(run'.seen)
        /\ Len(run'.seen) = m + 1
        /\ \A i \in 1..m : run'.seen[i] = run.seen[i]
        /\ run'.seen[m + 1] = run.batch
    BY <1>1, AppendSeq DEF Typed
  <1>5. IsSeq(run'.batch) /\ Len(run'.batch) = 0
    <2>1. << >> \in Seq({})
      OBVIOUS
    <2> QED BY <1>1, <2>1, AnySeq
  <1>6. m \in Nat /\ size \in Nat \ {0} /\ Len(run.order) \in Nat
    BY LengthOfSeq DEF Typed
  <1>7. Typed'
    BY <1>1, <1>3, <1>4, <1>5 DEF Typed
  <1>8. Counted'
    <2> DEFINE acc == run.config.accumulation
               steps == run.config.steps
    <2>1. run.step < steps /\ run.micro < acc * (run.step + 1)
      BY <1>2, <1>6 DEF Counted, Due
    <2>2. acc \in Nat \ {0} /\ steps \in Nat /\ run.step \in Nat /\ run.micro \in Nat
      BY DEF Typed
    <2>3. acc * (run.step + 1) <= acc * steps
      <3> HIDE DEF acc, steps
      <3> QED BY <2>1, <2>2, Monotone
    <2>4. run.micro + 1 <= acc * steps
      <3>1. acc * (run.step + 1) \in Int /\ acc * steps \in Int
        BY <2>2
      <3> HIDE DEF acc, steps
      <3> QED BY <2>1, <2>2, <2>3, <3>1
    <2>5. acc * run.step <= run.micro + 1
      <3>1. acc * run.step \in Int
        BY <2>2
      <3> QED BY <2>2, <3>1 DEF Counted
    <2> QED BY <1>1, <1>4, <1>5, <2>1, <2>4, <2>5 DEF Counted
  <1>9. Batched'
    <2>1. Len(run.order) = m * size
      BY DEF Batched
    <2>2. (m + 1) * size = m * size + size
      <3> HIDE DEF m, size
      <3> QED BY <1>6
    <2>3. Len(run'.order) = Len(run'.seen) * size
      BY <1>2, <1>3, <1>4, <2>1, <2>2
    <2>4. \A b \in 1..(m + 1), i \in 1..size : run'.order[(b - 1) * size + i] = run'.seen[b][i]
      <3> SUFFICES ASSUME NEW b \in 1..(m + 1), NEW i \in 1..size
                   PROVE  run'.order[(b - 1) * size + i] = run'.seen[b][i]
        OBVIOUS
      <3>1. CASE b \in 1..m
        <4>1. (b - 1) * size + i \in 1..(m * size)
          <5> HIDE DEF m, size
          <5> QED BY <1>6, <3>1, WithinBatches
        <4>2. run.order[(b - 1) * size + i] = run.seen[b][i]
          BY <3>1 DEF Batched
        <4> HIDE DEF m, size
        <4> QED BY <1>3, <1>4, <2>1, <3>1, <4>1, <4>2
      <3>2. CASE b = m + 1
        <4>1. (b - 1) * size + i = Len(run.order) + i
          <5> HIDE DEF m, size
          <5> QED BY <1>6, <2>1, <3>2
        <4> HIDE DEF m
        <4> QED BY <1>2, <1>3, <1>4, <3>2, <4>1
      <3> HIDE DEF m, size
      <3> QED BY <1>6, <3>1, <3>2
    <2>5. run'.config.size = size /\ Len(run'.seen) = m + 1
      BY <1>1, <1>4
    <2> HIDE DEF m, size
    <2> QED BY <2>3, <2>4, <2>5 DEF Batched
  <1>10. Streamed'
    <2> DEFINE records == OfSplit(run.arch, run.release, "train")
               A == Len(run.order)
               B == Len(run.batch)
    <2>1. OfSplit(run.arch, run.release, "train")' = records
      BY <1>1
    <2>2. A \in Nat /\ B \in Nat
      BY LengthOfSeq DEF Typed
    <2>3. Len(run'.order) + Len(run'.batch) = A + B /\ Len(run'.order) = A + B
      <3>1. (A + B) + 0 = A + B
        <4> HIDE DEF A, B
        <4> QED BY <2>2
      <3> QED BY <1>3, <1>5, <3>1
    <2>4. \A i \in 1..(A + B) : i \in 1..A \/ \E j \in 1..B : i = A + j
      <3> SUFFICES ASSUME NEW i \in 1..(A + B), i \notin 1..A
                   PROVE  \E j \in 1..B : i = A + j
        OBVIOUS
      <3> HIDE DEF A, B
      <3>1. i - A \in 1..B /\ i = A + (i - A)
        BY <2>2
      <3> QED BY <3>1
    <2> HIDE DEF records
    <2>5. ASSUME Len(records) \in Nat \ {0}
          PROVE  \A i \in 1..Len(run'.order) : run'.order[i] = Drawn(records, run'.shuffles, i)
      <3>1. /\ \A i \in 1..A : run.order[i] = Drawn(records, run.shuffles, i)
            /\ \A i \in 1..B : run.batch[i] = Drawn(records, run.shuffles, A + i)
        BY <2>5 DEF Streamed, records
      <3>2. run'.shuffles = run.shuffles
        BY <1>1
      <3>3. /\ \A i \in 1..A : run'.order[i] = run.order[i]
            /\ \A i \in 1..B : run'.order[A + i] = run.batch[i]
        BY <1>3
      <3> HIDE DEF A, B
      <3> QED BY <2>3, <2>4, <3>1, <3>2, <3>3
    <2>6. \A i \in 1..Len(run'.batch) : FALSE
      BY <1>5
    <2>7. ASSUME Len(records) \in Nat \ {0}
          PROVE  \/ A + B = 0 /\ Len(run.shuffles) = 0 /\ run.position = 0
                 \/ /\ run.position \in 1..Len(records)
                    /\ Len(run.shuffles) > 0
                    /\ A + B = (Len(run.shuffles) - 1) * Len(records) + run.position
      BY <2>7 DEF Streamed, records
    <2> HIDE DEF A, B
    <2> QED BY <1>1, <2>1, <2>3, <2>5, <2>6, <2>7 DEF Streamed
  <1> QED BY <1>1, <1>2, <1>7, <1>8, <1>9, <1>10

\* An optimizer step.
LEMMA OptimizerHolds ==
  ASSUME OptimizerStep, Typed, Counted, Batched, Streamed
  PROVE  (Typed /\ Counted /\ Batched /\ Streamed)' /\ run'.at = "training"
  <1> DEFINE acc == run.config.accumulation
             steps == run.config.steps
  <1>1. /\ DOMAIN run' = Fields
        /\ run'.step = run.step + 1
        /\ run'.order = run.order /\ run'.seen = run.seen /\ run'.batch = run.batch
        /\ run'.micro = run.micro
        /\ run'.at = run.at /\ run'.arch = run.arch /\ run'.release = run.release
        /\ run'.config = run.config /\ run'.shuffles = run.shuffles
        /\ run'.position = run.position
    BY DEF OptimizerStep, Typed, Fields
  <1>2. run.at = "training" /\ run.micro = acc * (run.step + 1)
    BY DEF OptimizerStep, Training
  <1>3. /\ acc \in Nat \ {0} /\ steps \in Nat /\ run.step \in Nat /\ run.micro \in Nat
        /\ Len(run.batch) \in Nat
    BY LengthOfSeq DEF Typed
  <1>4. Typed'
    BY <1>1, <1>3 DEF Typed
  <1>5. Counted'
    <2>1. acc * (run.step + 1) <= acc * steps
      BY <1>2 DEF Counted
    <2>2. run.step + 1 <= steps
      <3> SUFFICES ASSUME steps < run.step + 1 PROVE FALSE
        BY <1>3
      <3> HIDE DEF acc, steps
      <3>1. acc * (steps + 1) <= acc * (run.step + 1)
        BY <1>3, Monotone
      <3>2. acc * (steps + 1) = acc * steps + acc /\ acc * steps \in Int /\ acc * (run.step + 1) \in Int
        BY <1>3
      <3> QED BY <1>3, <2>1, <3>1, <3>2
    <2>3. ~ Due
      <3>1. acc * (run.step + 1) \in Int
        BY <1>3
      <3> QED BY <1>2, <3>1 DEF Due
    <2>4. ~ Len(run.batch) > 0
      BY <2>3 DEF Counted
    <2>5. run.micro = Len(run.seen) /\ run.micro <= acc * steps /\ acc * (run.step + 1) <= run.micro
      <3>1. acc * (run.step + 1) \in Int
        BY <1>3
      <3> QED BY <1>2, <1>3, <3>1 DEF Counted
    <2> QED BY <1>1, <2>2, <2>4, <2>5 DEF Counted
  <1>6. Batched'
    BY <1>1 DEF Batched
  <1>7. Streamed'
    BY <1>1 DEF Streamed
  <1> QED BY <1>1, <1>2, <1>4, <1>5, <1>6, <1>7

\* The manifest in the bundle is written before the files that list it.
LEMMA ManifestInBundle ==
  ASSUME NEW arch, NEW state
  PROVE  Bundle(arch, state)["run-manifest"] = RunManifest(arch, state)
  <1> DEFINE recorded == With(Outputs(arch, state), "run-manifest", RunManifest(arch, state))
             listed == IF arch = "decoder" THEN With(recorded, "checksums", Listing(recorded))
                       ELSE recorded
  <1>1. "run-manifest" \in DOMAIN recorded /\ recorded["run-manifest"] = RunManifest(arch, state)
    BY DEF With
  <1> HIDE DEF recorded
  <1>2. "run-manifest" \in DOMAIN listed /\ listed["run-manifest"] = RunManifest(arch, state)
    BY <1>1 DEF With
  <1>3. Bundle(arch, state) = With(listed, "artifact-manifest", ArtifactManifest(arch, listed))
    BY DEF Bundle, recorded
  <1> HIDE DEF listed
  <1> QED BY <1>2, <1>3 DEF With

\* The order that the manifest of a bundle records.
LEMMA RecordedOrder ==
  ASSUME NEW arch, NEW state
  PROVE  Bundle(arch, state)["run-manifest"].order = state.order
  <1>1. RunManifest(arch, state).order = state.order
    BY DEF RunManifest
  <1> QED BY <1>1, ManifestInBundle

\* A trained run has made all its micro-steps.
LEMMA EndHolds ==
  ASSUME RecordRun, Typed, Counted, Batched, Streamed
  PROVE  RunInv'
  <1> DEFINE acc == run.config.accumulation
             steps == run.config.steps
             size == run.config.size
             m == Len(run.seen)
  <1>1. /\ run'.at = "ended" /\ run'.arch = run.arch /\ run'.release = run.release
        /\ run'.config = run.config /\ run'.shuffles = run.shuffles /\ run'.seen = run.seen
        /\ run'.bundle = Bundle(run.arch, run)
    BY DEF RecordRun
  <1>2. run'.bundle["run-manifest"].order = run.order
    <2>1. Bundle(run.arch, run)["run-manifest"].order = run.order
      BY RecordedOrder
    <2> QED BY <1>1, <2>1
  <1>3. /\ acc \in Nat /\ steps \in Nat /\ size \in Nat \ {0}
        /\ m \in Nat /\ Len(run.order) \in Nat /\ DOMAIN run.order = 1..Len(run.order)
    BY LengthOfSeq DEF Typed
  <1>4. m = steps * acc
    <2>1. run.step = steps
      BY DEF RecordRun, Trained
    <2>2. acc * steps <= m /\ m <= acc * steps
      BY <2>1 DEF Counted
    <2>3. acc * steps \in Int /\ acc * steps = steps * acc
      BY <1>3
    <2> HIDE DEF acc, steps, m
    <2> QED BY <1>3, <2>2, <2>3
  <1>5. /\ Len(run.order) = m * size
        /\ \A b \in 1..m, i \in 1..size : run.order[(b - 1) * size + i] = run.seen[b][i]
    BY DEF Batched
  <1>6. OrderIsOfBatches'
    <2> HIDE DEF acc, steps
    <2> QED BY <1>1, <1>2, <1>4, <1>5 DEF OrderIsOfBatches, acc, steps
  <1>7. OrderIsDrawnAgain'
    <2> DEFINE records == OfSplit(run.arch, run.release, "train")
               drawn == steps * acc * size
    <2>1. drawn = Len(run.order)
      <3> HIDE DEF acc, steps, size, m
      <3> QED BY <1>4, <1>5
    <2>2. ASSUME Len(records) \in Nat \ {0}
          PROVE  run.order = IdsOf(Take(records, run.shuffles, drawn))
      <3> DEFINE taken == Take(records, run.shuffles, drawn)
      <3> HIDE DEF records, drawn
      <3>1. \A i \in 1..Len(run.order) : run.order[i] = Drawn(records, run.shuffles, i)
        BY <2>2 DEF Streamed, records
      <3>2. DOMAIN taken = 1..Len(run.order)
        BY <2>1 DEF Take
      <3>3. \A i \in 1..Len(run.order) : taken[i].id = Drawn(records, run.shuffles, i)
        BY <2>1 DEF Take, Drawn
      <3> HIDE DEF taken
      <3>4. IdsOf(taken) = [i \in 1..Len(run.order) |-> taken[i].id]
        BY <3>2 DEF IdsOf
      <3>5. run.order = [i \in 1..Len(run.order) |-> run.order[i]]
        <4>1. run.order \in Seq(Range(run.order))
          BY DEF Typed, IsSeq
        <4> QED BY <4>1
      <3> QED BY <3>1, <3>3, <3>4, <3>5 DEF taken
    <2>3. OfSplit(run.arch, run.release, "train")' = records
      BY <1>1
    <2>4. (run.config.steps * run.config.accumulation * run.config.size)' = drawn
      BY <1>1
    <2> HIDE DEF records, drawn
    <2> QED BY <1>1, <1>2, <2>2, <2>3, <2>4 DEF OrderIsDrawnAgain
  <1> QED BY <1>1, <1>6, <1>7 DEF RunInv

-----------------------------------------------------------------------------
(* What a build seals.                                                      *)

\* The checksums list the data files and the manifest.
LEMMA FilesOfRelease ==
  Files \ {"checksums"} = Data \union {"manifest"} /\ "checksums" \notin Data /\ "manifest" \notin Data
  <1>1. "manifest" \in Files
    <2>1. 8 \in DOMAIN FileOrder /\ FileOrder[8] = "manifest"
      BY DEF FileOrder
    <2> QED BY <2>1 DEF Files, Range
  <1> QED BY <1>1 DEF Data

\* The manifest of a build identifies each of its data files.
LEMMA ManifestOfBuild ==
  ASSUME NEW construction, NEW resources
  PROVE  \A f \in Data : Artifacts(construction, resources)[f]
                           = Artifacts(construction, resources).manifest.artifacts[f]
  <1> DEFINE data == DataFiles(construction, resources)
  <1>1. /\ \A f \in Data : Artifacts(construction, resources)[f] = WithManifest(data)[f]
        /\ Artifacts(construction, resources).manifest = WithManifest(data).manifest
    BY FilesOfRelease DEF Artifacts
  <1> HIDE DEF data
  <1>2. /\ \A f \in Data : WithManifest(data)[f] = data[f]
        /\ WithManifest(data).manifest = Manifest(data)
    BY FilesOfRelease DEF WithManifest
  <1>3. \A f \in Data : Manifest(data).artifacts[f] = data[f]
    BY DEF Manifest
  <1> QED BY <1>1, <1>2, <1>3

-----------------------------------------------------------------------------
(* What is recorded, and what the digests pin.                              *)

\* Whatever the schedules, the constructions and the changes others make, a
\* run's counters, order and stream agree at every step, and what it records
\* at the end is what they then are.
THEOREM Invariance == Spec => []RunInv
  <1>1. Init => RunInv
    BY NotEnded DEF Init, RunInit, RunInv
  <1>2. RunInv /\ [Next]_vars => RunInv'
    <2> SUFFICES ASSUME RunInv, [Next]_vars PROVE RunInv'
      OBVIOUS
    <2>1. ASSUME run' = run PROVE RunInv'
      BY <2>1 DEF RunInv, Typed, Counted, Due, Batched, Streamed, OrderIsOfBatches, OrderIsDrawnAgain
    <2>2. ASSUME (Typed /\ Counted /\ Batched /\ Streamed)' /\ run'.at = "training"
          PROVE  RunInv'
      BY <2>2 DEF RunInv, OrderIsOfBatches, OrderIsDrawnAgain
    <2>3. ASSUME run'.at = "failed" PROVE RunInv'
      BY <2>3 DEF RunInv, OrderIsOfBatches, OrderIsDrawnAgain
    <2>4. run.at = "training" => Typed /\ Counted /\ Batched /\ Streamed
      BY DEF RunInv
    <2>5. CASE \E arch \in Architectures, schedule \in Schedules : StartRun(arch, schedule)
      BY <2>2, <2>5, StartHolds
    <2>6. CASE TakeRecord
      BY <2>2, <2>4, <2>6, TakeHolds DEF TakeRecord, Training
    <2>7. CASE MicroStep
      BY <2>2, <2>4, <2>7, MicroHolds DEF MicroStep, Training
    <2>8. CASE LossNotFinite
      BY <2>3, <2>8 DEF LossNotFinite
    <2>9. CASE OptimizerStep
      BY <2>2, <2>4, <2>9, OptimizerHolds DEF OptimizerStep, Training
    <2>10. CASE AdapterRefused
      BY <2>3, <2>10 DEF AdapterRefused
    <2>11. CASE RecordRun
      BY <2>4, <2>11, EndHolds DEF RecordRun, Trained, Training
    <2>12. CASE Next
      <3>1. UNCHANGED run \/ Running
        BY <2>12 DEF Next
      <3> QED BY <2>1, <2>5, <2>6, <2>7, <2>8, <2>9, <2>10, <2>11, <3>1 DEF Running
    <2>13. CASE UNCHANGED vars
      BY <2>1, <2>13 DEF vars
    <2> QED BY <2>12, <2>13
  <1> QED BY <1>1, <1>2, PTL DEF Spec

\* The order a manifest records is that of the batches the optimizer was given,
\* one batch for each micro-step of each step, and drawing as many records again
\* from the same shuffles gives it again.
THEOREM OrderRecorded == Spec => [](OrderIsOfBatches /\ OrderIsDrawnAgain)
  <1>1. RunInv => OrderIsOfBatches /\ OrderIsDrawnAgain
    BY DEF RunInv
  <1> QED BY <1>1, Invariance, PTL

\* The digests pinned from a build let the reader accept no other files.
THEOREM PinnedBuild == Spec => []AcceptedIsThePinnedBuild
  <1>1. ASSUME NEW construction, NEW resources, NEW f \in Files \ {"checksums"},
               Accepts(directory, Selection(Artifacts(construction, resources)))
        PROVE  directory[f] = Artifacts(construction, resources)[f]
    <2> DEFINE built == Artifacts(construction, resources)
    <2>1. /\ directory.manifest = built.manifest
          /\ \A g \in Data : directory.manifest.artifacts[g] = directory[g]
      BY <1>1 DEF Accepts, Sealed, Selection
    <2>2. \A g \in Data : built[g] = built.manifest.artifacts[g]
      BY ManifestOfBuild
    <2>3. Files \ {"checksums"} = Data \union {"manifest"}
      BY FilesOfRelease
    <2> SUFFICES directory[f] = built[f]
      OBVIOUS
    <2> HIDE DEF built
    <2>4. CASE f \in Data
      BY <2>1, <2>2, <2>4
    <2>5. CASE f = "manifest"
      BY <2>1, <2>5
    <2> QED BY <2>3, <2>4, <2>5
  <1>2. AcceptedIsThePinnedBuild
    BY <1>1 DEF AcceptedIsThePinnedBuild
  <1> QED BY <1>2, PTL

-----------------------------------------------------------------------------
(* Listing places in order.                                                 *)

\* A set of numbers has a least element: what induction over data comes down
\* to where an operator cannot be a parameter of a fact.
LEMMA Least ==
  ASSUME NEW T \in SUBSET Nat, T # {}
  PROVE  \E x \in T : \A y \in T : x <= y
  <1> DEFINE R == OpToRel(<, Nat)
  <1>1. IsWellFoundedOn(R, Nat)
    BY NatLessThanWellFounded
  <1>2. \A x, y \in Nat : x < y => <<x, y>> \in R
    BY DEF OpToRel
  <1> HIDE DEF R
  <1>3. \E x \in T : \A y \in T : ~ (<<y, x>> \in R)
    BY <1>1, WFMin
  <1>4. PICK x \in T : \A y \in T : ~ (<<y, x>> \in R)
    BY <1>3
  <1>5. \A y \in T : x \in Nat /\ y \in Nat /\ ~ (y < x)
    BY <1>2, <1>4
  <1> QED BY <1>5

\* Places below a bound are finitely many.
LEMMA FinitePlaces ==
  ASSUME NEW N \in Nat, NEW places \in SUBSET (1..N)
  PROVE  IsFiniteSet(places) /\ Cardinality(places) \in Nat
  <1>1. IsFiniteSet(1..N)
    BY FS_Interval
  <1>2. IsFiniteSet(places)
    BY <1>1, FS_Subset
  <1> QED BY <1>2, FS_CardinalityType

\* f lists the places in increasing order.
Orders(f, places) ==
  /\ f \in [1..Cardinality(places) -> places]
  /\ \A i, j \in 1..Cardinality(places) : i < j => f[i] < f[j]

\* Places can be listed in order ...
LEMMA Orderable ==
  ASSUME NEW N \in Nat, NEW places \in SUBSET (1..N)
  PROVE  \E f : Orders(f, places)
  <1> DEFINE Fails(n) == \E I \in SUBSET (1..n) : ~ \E f : Orders(f, I)
             T == {n \in Nat : Fails(n)}
  <1>1. SUFFICES T = {}
    OBVIOUS
  <1>2. SUFFICES ASSUME T # {} PROVE FALSE
    OBVIOUS
  <1>3. PICK n \in T : \A m \in T : n <= m
    <2>1. T \in SUBSET Nat
      OBVIOUS
    <2> HIDE DEF T
    <2> QED BY <1>2, <2>1, Least
  <1>4. PICK I \in SUBSET (1..n) : ~ \E f : Orders(f, I)
    BY <1>3
  <1>5. n \in Nat /\ \A J \in SUBSET (1..(n - 1)) : n > 0 => \E f : Orders(f, J)
    <2>1. n \in Nat
      OBVIOUS
    <2>2. ASSUME n > 0 PROVE ~ Fails(n - 1)
      BY <1>3, <2>1, <2>2
    <2> QED BY <2>1, <2>2
  <1> HIDE DEF T, Fails
  <1>6. CASE n = 0
    <2>0. I = {}
      BY <1>6
    <2>1. I = {} /\ Cardinality(I) = 0
      BY <2>0, FS_EmptySet
    <2>2. Orders([k \in 1..0 |-> k], I)
      BY <2>1 DEF Orders
    <2> QED BY <1>4, <2>2
  <1>7. CASE n > 0 /\ n \notin I
    <2>1. I \in SUBSET (1..(n - 1))
      BY <1>5, <1>7
    <2> QED BY <1>4, <1>5, <1>7, <2>1
  <1>8. CASE n > 0 /\ n \in I
    <2> DEFINE J == I \ {n}
    <2>1. J \in SUBSET (1..(n - 1)) /\ \A x \in J : x < n
      BY <1>5
    <2>2. IsFiniteSet(I) /\ Cardinality(I) \in Nat
      BY <1>5, FinitePlaces
    <2>3. Cardinality(J) = Cardinality(I) - 1 /\ Cardinality(J) \in Nat
      BY <1>8, <2>2, FS_RemoveElement, FS_CardinalityType
    <2>4. PICK f : Orders(f, J)
      BY <1>5, <1>8, <2>1
    <2> DEFINE c == Cardinality(J)
               g == [k \in 1..(c + 1) |-> IF k = c + 1 THEN n ELSE f[k]]
    <2>5. \A k \in 1..c : f[k] \in J
      BY <2>4 DEF Orders
    <2>6. g \in [1..(c + 1) -> I]
      <3> HIDE DEF c
      <3>1. \A k \in 1..(c + 1) : k # c + 1 => k \in 1..c
        BY <2>3 DEF c
      <3> QED BY <1>8, <2>5, <3>1
    <2>7. \A i, j \in 1..(c + 1) : i < j => g[i] < g[j]
      <3> SUFFICES ASSUME NEW i \in 1..(c + 1), NEW j \in 1..(c + 1), i < j PROVE g[i] < g[j]
        OBVIOUS
      <3> HIDE DEF c, J
      <3>1. i \in 1..c /\ g[i] = f[i]
        BY <2>3 DEF c
      <3>2. CASE j = c + 1
        BY <2>1, <2>5, <3>1, <3>2
      <3>3. CASE j \in 1..c
        BY <2>3, <2>4, <3>1, <3>3 DEF Orders, c
      <3> QED BY <2>3, <3>2, <3>3 DEF c
    <2>8. Orders(g, I)
      <3>1. Cardinality(I) = c + 1
        BY <2>2, <2>3
      <3> HIDE DEF c, g, J
      <3> QED BY <2>6, <2>7, <3>1 DEF Orders
    <2> QED BY <1>4, <2>8
  <1> QED BY <1>5, <1>6, <1>7, <1>8

\* ... so InOrder lists each of them once.
LEMMA InOrderLists ==
  ASSUME NEW N \in Nat, NEW places \in SUBSET (1..N)
  PROVE  /\ IsFiniteSet(places) /\ Cardinality(places) \in Nat
         /\ Orders(InOrder(places), places)
         /\ \A i, j \in 1..Cardinality(places) : InOrder(places)[i] = InOrder(places)[j] => i = j
         /\ \A x \in places : \E k \in 1..Cardinality(places) : InOrder(places)[k] = x
  <1> DEFINE c == Cardinality(places)
             f == InOrder(places)
  <1>1. IsFiniteSet(places) /\ c \in Nat
    BY FinitePlaces
  <1> HIDE DEF c
  <1>2. \E g \in [1..c -> places] : \A i, j \in DOMAIN g : i < j => g[i] < g[j]
    <2>1. PICK g : Orders(g, places)
      BY Orderable
    <2>2. g \in [1..c -> places] /\ DOMAIN g = 1..c
      BY <2>1 DEF Orders, c
    <2>3. \A i, j \in DOMAIN g : i < j => g[i] < g[j]
      BY <2>1, <2>2 DEF Orders, c
    <2> QED BY <2>2, <2>3
  <1>3. f \in [1..c -> places] /\ \A i, j \in DOMAIN f : i < j => f[i] < f[j]
    BY <1>2 DEF InOrder, c
  <1> HIDE DEF f
  <1>4. Orders(f, places)
    BY <1>3 DEF Orders, c
  <1>9. \A i \in 1..c : f[i] \in 1..N
    <2> TAKE i \in 1..c
    <2>1. f[i] \in places
      BY <1>3
    <2> QED BY <2>1
  <1>5. \A i, j \in 1..c : f[i] = f[j] => i = j
    <2> SUFFICES ASSUME NEW i \in 1..c, NEW j \in 1..c, f[i] = f[j], i # j PROVE FALSE
      OBVIOUS
    <2>1. f[i] \in Int /\ f[j] \in Int
      BY <1>9
    <2>2. i < j \/ j < i
      BY <1>1
    <2> QED BY <1>3, <2>1, <2>2
  <1>6. f \in Injection(1..c, places)
    BY <1>3, <1>5 DEF Injection, IsInjective
  <1>7. f \in Surjection(1..c, places)
    <2>1. Cardinality(1..c) = c
      BY <1>1, FS_Interval
    <2> QED BY <1>1, <1>6, <2>1, FS_Injection DEF c
  <1>8. \A x \in places : \E k \in 1..c : f[k] = x
    BY <1>7 DEF Surjection
  <1> QED BY <1>1, <1>4, <1>5, <1>8 DEF c, f

-----------------------------------------------------------------------------
(* The records of a split.                                                  *)

\* Consecutive places are listed one after the other.
LEMMA Consecutive ==
  ASSUME NEW o \in Nat, NEW n \in Nat
  PROVE  /\ Cardinality((o + 1)..(o + n)) = n
         /\ \A k \in 1..n : InOrder((o + 1)..(o + n))[k] = o + k
  <1> DEFINE places == (o + 1)..(o + n)
             f == InOrder(places)
  <1>1. places \in SUBSET (1..(o + n)) /\ o + n \in Nat
    OBVIOUS
  <1>2. Cardinality(places) = n
    <2>1. o + 1 \in Int /\ o + n \in Int
      OBVIOUS
    <2>2. Cardinality(places) = IF o + 1 > o + n THEN 0 ELSE (o + n) - (o + 1) + 1
      BY <2>1, FS_Interval
    <2> HIDE DEF places
    <2> QED BY <2>2
  <1>3. \A x \in places : x \in Int /\ o + 1 <= x /\ x <= o + n
    OBVIOUS
  <1> HIDE DEF places
  <1>4. Orders(f, places)
    BY <1>1, InOrderLists
  <1> HIDE DEF f
  <1>5. /\ \A k \in 1..n : f[k] \in places
        /\ \A i, j \in 1..n : i < j => f[i] < f[j]
    BY <1>2, <1>4 DEF Orders
  <1>6. \A k \in 1..n : f[k] >= o + k
    <2> DEFINE T == {k \in 1..n : f[k] < o + k}
    <2>1. SUFFICES ASSUME T # {} PROVE FALSE
      BY <1>3, <1>5
    <2>2. T \in SUBSET Nat
      OBVIOUS
    <2>3. PICK k \in T : \A y \in T : k <= y
      <3> HIDE DEF T
      <3> QED BY <2>1, <2>2, Least
    <2>4. k \in 1..n /\ f[k] < o + k
      OBVIOUS
    <2>5. CASE k = 1
      BY <1>3, <1>5, <2>4, <2>5
    <2>6. CASE k > 1
      <3>1. k - 1 \in 1..n /\ k - 1 < k /\ ~ k <= k - 1
        BY <2>4, <2>6
      <3>2. k - 1 \notin T
        <4> HIDE DEF T
        <4> QED BY <2>3, <3>1
      <3>3. ~ f[k - 1] < o + (k - 1)
        BY <3>1, <3>2
      <3>4. f[k - 1] < f[k] /\ f[k - 1] \in Int /\ f[k] \in Int
        BY <1>3, <1>5, <2>4, <3>1
      <3> QED BY <2>4, <3>3, <3>4
    <2> QED BY <2>4, <2>5, <2>6
  <1>7. \A k \in 1..n : f[k] <= o + k
    <2> DEFINE T == {m \in 0..(n - 1) : f[n - m] > o + (n - m)}
    <2>1. SUFFICES ASSUME T # {} PROVE FALSE
      <3> SUFFICES ASSUME NEW k \in 1..n, ~ f[k] <= o + k PROVE T # {}
        OBVIOUS
      <3>1. n - k \in 0..(n - 1) /\ n - (n - k) = k
        OBVIOUS
      <3>2. f[k] > o + k
        BY <1>3, <1>5
      <3>3. n - k \in T
        BY <3>1, <3>2
      <3> QED BY <3>3
    <2>2. T \in SUBSET Nat
      OBVIOUS
    <2>3. PICK m \in T : \A y \in T : m <= y
      <3> HIDE DEF T
      <3> QED BY <2>1, <2>2, Least
    <2>4. m \in 0..(n - 1) /\ f[n - m] > o + (n - m) /\ n - m \in 1..n
      OBVIOUS
    <2>5. CASE m = 0
      <3>1. f[n - m] <= o + n /\ f[n - m] \in Int /\ o + (n - m) = o + n
        BY <1>3, <1>5, <2>4, <2>5
      <3> QED BY <2>4, <3>1
    <2>6. CASE m > 0
      <3>1. m - 1 \in 0..(n - 1) /\ ~ m <= m - 1 /\ n - (m - 1) \in 1..n /\ n - m < n - (m - 1)
        BY <2>4, <2>6
      <3>2. m - 1 \notin T
        <4> HIDE DEF T
        <4> QED BY <2>3, <3>1
      <3>3. ~ f[n - (m - 1)] > o + (n - (m - 1))
        BY <3>1, <3>2
      <3>4. f[n - m] < f[n - (m - 1)] /\ f[n - m] \in Int /\ f[n - (m - 1)] \in Int
        BY <1>3, <1>5, <2>4, <3>1
      <3> QED BY <2>4, <3>3, <3>4
    <2> QED BY <2>4, <2>5, <2>6
  <1>8. \A k \in 1..n : f[k] = o + k
    <2> TAKE k \in 1..n
    <2>1. f[k] \in Int /\ f[k] >= o + k /\ f[k] <= o + k
      BY <1>3, <1>5, <1>6, <1>7
    <2> QED BY <2>1
  <1> QED BY <1>2, <1>8 DEF f, places

\* The records of a split are those at the n places that follow o.
Together(records, split, o, n) ==
  \A i \in DOMAIN records : records[i].split = split <=> i \in (o + 1)..(o + n)

\* The records of a split that stand together are that split.
LEMMA TogetherInSplit ==
  ASSUME NEW records, NEW split, NEW N \in Nat, DOMAIN records = 1..N,
         NEW o \in Nat, NEW n \in Nat, o + n <= N,
         Together(records, split, o, n)
  PROVE  InSplit(records, split) = [k \in 1..n |-> records[o + k]]
  <1> DEFINE places == {i \in DOMAIN records : records[i].split = split}
  <1>1. places = (o + 1)..(o + n)
    <2>1. \A i \in (o + 1)..(o + n) : i \in 1..N
      OBVIOUS
    <2> QED BY <2>1 DEF Together
  <1>2. Cardinality(places) = n /\ \A k \in 1..n : InOrder(places)[k] = o + k
    <2> HIDE DEF places
    <2> QED BY <1>1, Consecutive
  <1>3. InSplit(records, split) = [k \in 1..Cardinality(places) |-> records[InOrder(places)[k]]]
    BY DEF InSplit
  <1> HIDE DEF places
  <1> QED BY <1>2, <1>3

\* Where the records of a split are, and the order in which InSplit takes them.
PlacesOf(records, split) == {i \in DOMAIN records : records[i].split = split}
CountOf(records, split) == Cardinality(PlacesOf(records, split))
PlaceOf(records, split, k) == InOrder(PlacesOf(records, split))[k]

\* What InSplit takes: each record of the split, in one place.
LEMMA SplitTakes ==
  ASSUME NEW records, NEW split, NEW N \in Nat, DOMAIN records = 1..N
  PROVE  /\ CountOf(records, split) \in Nat
         /\ DOMAIN InSplit(records, split) = 1..CountOf(records, split)
         /\ \A k \in 1..CountOf(records, split) :
              /\ InSplit(records, split)[k] = records[PlaceOf(records, split, k)]
              /\ PlaceOf(records, split, k) \in DOMAIN records
              /\ records[PlaceOf(records, split, k)].split = split
         /\ \A j, k \in 1..CountOf(records, split) :
              PlaceOf(records, split, j) = PlaceOf(records, split, k) => j = k
         /\ \A i \in DOMAIN records : records[i].split = split =>
              \E k \in 1..CountOf(records, split) : PlaceOf(records, split, k) = i
  <1> DEFINE places == PlacesOf(records, split)
  <1>1. places \in SUBSET (1..N)
    BY DEF PlacesOf
  <1>2. InSplit(records, split) = [k \in 1..Cardinality(places) |-> records[InOrder(places)[k]]]
    BY DEF InSplit, PlacesOf
  <1>3. \A i : i \in places <=> i \in DOMAIN records /\ records[i].split = split
    BY DEF PlacesOf
  <1> HIDE DEF places
  <1>4. /\ Cardinality(places) \in Nat
        /\ Orders(InOrder(places), places)
        /\ \A i, j \in 1..Cardinality(places) : InOrder(places)[i] = InOrder(places)[j] => i = j
        /\ \A x \in places : \E k \in 1..Cardinality(places) : InOrder(places)[k] = x
    BY <1>1, InOrderLists
  <1>5. \A k \in 1..Cardinality(places) : InOrder(places)[k] \in places
    BY <1>4 DEF Orders
  <1> QED BY <1>2, <1>3, <1>4, <1>5 DEF places, CountOf, PlaceOf

-----------------------------------------------------------------------------
(* What a release directory holds.                                          *)

\* The fields of a released record, and no other.
IsRecord(r) ==
  r = [id |-> r.id, split |-> r.split, source |-> r.source,
       ir |-> r.ir, target |-> r.target, features |-> r.features]

\* The lines of a data file.
IsSplit(records) == IsSeq(records) /\ \A i \in DOMAIN records : IsRecord(records[i])

\* The resources as they are given and as a release holds them.
Snapshots == Resources \union {Canonical(r) : r \in Resources}

\* What is in a release directory, whoever has written what of it.
DirectoryHolds ==
  /\ directory = [f \in DOMAIN directory |-> directory[f]]
  /\ DOMAIN directory \subseteq Files
  /\ \A s \in Splits \intersect DOMAIN directory : IsSplit(directory[s])
  /\ "construction" \in DOMAIN directory => directory.construction \in Constructions
  /\ "resources" \in DOMAIN directory => directory.resources \in Snapshots

\* The files that a builder writes.
Build(b) == Artifacts(builder[b].construction, builder[b].resources)

\* What a builder writes can be built, from the inputs it was given.
BuildersHold ==
  /\ builder = [b \in Builders |-> builder[b]]
  /\ \A b \in Builders : builder[b].at \in {"writing", "ended"} =>
       /\ DOMAIN builder[b] = {"at", "written", "construction", "resources"}
       /\ builder[b].construction \in Constructions
       /\ builder[b].resources \in {Canonical(r) : r \in Resources}
       /\ Buildable(builder[b].construction, builder[b].resources)
       /\ builder[b].written \in 0..9
       /\ builder[b].at = "writing" => builder[b].written < 9

\* No other has started.
Alone(b) == \A other \in Builders \ {b} : builder[other].at = "idle"

\* What a builder that is alone has written is there.
LoneBuildHolds ==
  /\ disturbed \in Nat
  /\ \A b \in Builders : Alone(b) =>
       /\ builder[b].at = "writing" => DOMAIN directory = {FileOrder[i] : i \in 1..builder[b].written}
       /\ builder[b].at = "writing" \/ (builder[b].at = "ended" /\ disturbed = 0) =>
            \A f \in DOMAIN directory : directory[f] = Build(b)[f]
       /\ builder[b].at = "ended" => DOMAIN directory = Files

\* What holds of the directory and of the builders of a release.
ReleaseInv == DirectoryHolds /\ BuildersHold /\ LoneBuildHolds

-----------------------------------------------------------------------------
\* The files of a release, in the order in which they are written.
LEMMA FilesAre ==
  /\ Files = {"train", "validation", "test", "adversarial", "construction",
              "resources", "reports", "manifest", "checksums"}
  /\ \A i \in 1..9 : FileOrder[i] \in Files
  /\ Files = {FileOrder[i] : i \in 1..9}
  /\ Len(FileOrder) = 9
  <1>1. /\ DOMAIN FileOrder = 1..9
        /\ Len(FileOrder) = 9
        /\ FileOrder[1] = "train" /\ FileOrder[2] = "validation" /\ FileOrder[3] = "test"
        /\ FileOrder[4] = "adversarial" /\ FileOrder[5] = "construction"
        /\ FileOrder[6] = "resources" /\ FileOrder[7] = "reports"
        /\ FileOrder[8] = "manifest" /\ FileOrder[9] = "checksums"
    BY DEF FileOrder
  <1>2. Files = {FileOrder[i] : i \in 1..9}
    BY <1>1 DEF Files, Range
  <1>3. \A i \in 1..9 : i = 1 \/ i = 2 \/ i = 3 \/ i = 4 \/ i = 5 \/ i = 6 \/ i = 7 \/ i = 8 \/ i = 9
    OBVIOUS
  <1>4. /\ 1 \in 1..9 /\ 2 \in 1..9 /\ 3 \in 1..9 /\ 4 \in 1..9 /\ 5 \in 1..9
        /\ 6 \in 1..9 /\ 7 \in 1..9 /\ 8 \in 1..9 /\ 9 \in 1..9
    OBVIOUS
  <1>5. ASSUME NEW x \in Files
        PROVE  x \in {"train", "validation", "test", "adversarial", "construction",
                      "resources", "reports", "manifest", "checksums"}
    <2>1. PICK i \in 1..9 : x = FileOrder[i]
      BY <1>2
    <2> QED BY <1>1, <1>3, <2>1
  <1>6. /\ "train" \in Files /\ "validation" \in Files /\ "test" \in Files /\ "adversarial" \in Files
        /\ "construction" \in Files /\ "resources" \in Files /\ "reports" \in Files
        /\ "manifest" \in Files /\ "checksums" \in Files
    BY <1>1, <1>2, <1>4
  <1>7. Files = {"train", "validation", "test", "adversarial", "construction",
                 "resources", "reports", "manifest", "checksums"}
    BY <1>5, <1>6
  <1> QED BY <1>1, <1>2, <1>7

\* All of them but the manifest and the checksums.
LEMMA DataAre ==
  Data = {"train", "validation", "test", "adversarial", "construction", "resources", "reports"}
  BY FilesAre DEF Data

\* The records of a construction.
LEMMA MadeOf ==
  ASSUME NEW construction \in Constructions
  PROVE  /\ IsSeq(construction.records)
         /\ Len(construction.records) \in Nat
         /\ DOMAIN construction.records = 1..Len(construction.records)
         /\ \A i \in DOMAIN construction.records : construction.records[i].split \in Splits
         /\ construction = [version |-> construction.version, license |-> construction.license,
                            resources |-> construction.resources, records |-> construction.records]
  <1>1. IsSeq(construction.records)
    BY InputsAssumption DEF IsSeq
  <1> QED BY <1>1, LengthOfSeq, InputsAssumption DEF Splits

\* The lines of a split of a build.
Lines(construction, resources, s) ==
  [k \in DOMAIN InSplit(construction.records, s) |->
     Released(InSplit(construction.records, s)[k], construction, resources)]

\* What each file of a build holds.
LEMMA BuiltFiles ==
  ASSUME NEW construction, NEW resources
  PROVE  LET built == Artifacts(construction, resources)
         IN  /\ built = [f \in Files |-> built[f]]
             /\ \A s \in Splits : built[s] = Lines(construction, resources, s)
             /\ built.construction = construction
             /\ built.resources = Canonical(resources)
             /\ built.manifest = Manifest(DataFiles(construction, resources))
             /\ built.checksums = Checksums(WithManifest(DataFiles(construction, resources)))
             /\ \A f \in Data : built[f] = DataFiles(construction, resources)[f]
             /\ \A f \in Files \ {"checksums"} : built[f] = WithManifest(DataFiles(construction, resources))[f]
  <1> DEFINE data == DataFiles(construction, resources)
             built == Artifacts(construction, resources)
  <1>1. \A s \in Splits : data[s] = Lines(construction, resources, s)
    BY DataAre DEF DataFiles, Lines, Splits
  <1>2. data["construction"] = construction /\ data["resources"] = Canonical(resources)
    BY DataAre DEF DataFiles, Splits
  <1>3. built = [f \in Files |-> IF f = "checksums" THEN Checksums(WithManifest(data))
                                 ELSE WithManifest(data)[f]]
    BY DEF Artifacts
  <1> HIDE DEF data, built
  <1>4. \A f \in Data \union {"manifest"} :
          WithManifest(data)[f] = IF f = "manifest" THEN Manifest(data) ELSE data[f]
    BY DEF WithManifest
  <1>5. /\ built.manifest = Manifest(data)
        /\ built.checksums = Checksums(WithManifest(data))
        /\ \A f \in Data : built[f] = data[f]
        /\ \A f \in Files \ {"checksums"} : built[f] = WithManifest(data)[f]
    BY <1>3, <1>4, FilesAre, DataAre
  <1>6. Splits \subseteq Data /\ "construction" \in Data /\ "resources" \in Data
    BY DataAre DEF Splits
  <1>7. /\ \A s \in Splits : built[s] = Lines(construction, resources, s)
        /\ built.construction = construction
        /\ built.resources = Canonical(resources)
    BY <1>1, <1>2, <1>5, <1>6
  <1>8. built = [f \in Files |-> built[f]]
    BY <1>3
  <1> QED BY <1>5, <1>7, <1>8 DEF built, data

\* A build writes records into its data files.
LEMMA LinesAreASplit ==
  ASSUME NEW construction \in Constructions, NEW resources, NEW s
  PROVE  IsSplit(Lines(construction, resources, s))
  <1> DEFINE records == construction.records
             lines == Lines(construction, resources, s)
             c == CountOf(records, s)
  <1>1. c \in Nat /\ DOMAIN InSplit(records, s) = 1..c
    BY MadeOf, SplitTakes
  <1>2. DOMAIN lines = 1..c
    BY <1>1 DEF Lines
  <1>3. \A k \in 1..c : IsRecord(lines[k])
    BY <1>1 DEF Lines, IsRecord, Released
  <1>4. lines = [k \in 1..c |-> lines[k]]
    BY <1>1 DEF Lines
  <1> HIDE DEF lines, c
  <1>5. lines \in Seq(Range(lines))
    BY <1>1, <1>2, <1>4 DEF Range
  <1> QED BY <1>2, <1>3, <1>5 DEF IsSplit, IsSeq, lines

\* Resources are spelled canonically once and for all.
LEMMA CanonicalAgain ==
  ASSUME NEW r \in Snapshots
  PROVE  /\ Canonical(r) \in Snapshots
         /\ Canonical(Canonical(r)) = Canonical(r)
         /\ Canonical(r).version = r.version /\ Canonical(r).terms = r.terms
  <1>1. \A x \in Resources : /\ x = [version |-> x.version, terms |-> x.terms, spelled |-> x.spelled]
    BY InputsAssumption
  <1>2. \A x \in Resources : /\ Canonical(x) = [version |-> x.version, terms |-> x.terms, spelled |-> "canonical"]
    BY <1>1 DEF Canonical
  <1>3. \A x \in Resources : Canonical(Canonical(x)) = Canonical(x)
    BY <1>2 DEF Canonical
  <1>4. CASE r \in Resources
    BY <1>2, <1>3, <1>4 DEF Snapshots
  <1>5. CASE \E x \in Resources : r = Canonical(x)
    BY <1>2, <1>3, <1>5 DEF Snapshots
  <1> QED BY <1>4, <1>5 DEF Snapshots

-----------------------------------------------------------------------------
(* The steps of the builders.                                               *)

\* At first nothing is there and no builder has started.
LEMMA ReleaseInitHolds ==
  ASSUME ReleaseInit PROVE ReleaseInv
  <1>1. directory = [f \in {} |-> 0] /\ DOMAIN directory = {}
    BY DEF ReleaseInit, Nothing
  <1>2. DirectoryHolds
    <2>1. directory = [f \in DOMAIN directory |-> directory[f]]
      BY <1>1
    <2> QED BY <1>1, <2>1 DEF DirectoryHolds
  <1>3. BuildersHold
    BY DEF ReleaseInit, BuildersHold
  <1>4. LoneBuildHolds
    BY DEF ReleaseInit, LoneBuildHolds
  <1> QED BY <1>2, <1>3, <1>4 DEF ReleaseInv

\* Both sides see the same resources, however they are spelled.
LEMMA BuildableOfCanonical ==
  ASSUME NEW construction, NEW r \in Snapshots
  PROVE  Buildable(construction, r) <=> Buildable(construction, Canonical(r))
  <1>1. /\ Canonical(Canonical(r)) = Canonical(r)
        /\ Canonical(r).version = r.version /\ Canonical(r).terms = r.terms
    BY CanonicalAgain
  <1> DEFINE d == Canonical(r)
  <1> HIDE DEF d
  <1>2. d.version = r.version /\ d.terms = r.terms
    BY <1>1 DEF d
  <1>3. \A record : IR(record, d) = IR(record, r)
    BY <1>2 DEF IR
  <1>4. \A ir : Trainable(ir, d) <=> Trainable(ir, r)
    BY <1>2 DEF Trainable
  <1>5. \A ir : Target(ir, d) = Target(ir, r)
    BY <1>2 DEF Target
  <1>6. \A document, text, version : Features(document, text, version, d) = Features(document, text, version, r)
    BY <1>2 DEF Features
  <1>7. \A record : Released(record, construction, d) = Released(record, construction, r)
    BY <1>3, <1>5, <1>6 DEF Released
  <1>8. Canonical(d) = Canonical(r)
    BY <1>1 DEF d
  <1>9. Buildable(construction, r) <=> Buildable(construction, d)
    <2> DEFINE records == construction.records
               Of(x) == [i \in DOMAIN records |-> Released(records[i], construction, x)]
    <2>1. Of(d) = Of(r)
      BY <1>7
    <2>2. \A i \in DOMAIN records : Trainable(IR(records[i], d), d) <=> Trainable(IR(records[i], r), r)
      BY <1>3, <1>4
    <2> DEFINE Rest(of, canonical) ==
          /\ \A i, j \in DOMAIN records :
               \/ records[i].id = records[j].id
               \/ records[i].source = records[j].source
               => i = j
          /\ Provenance(construction, canonical)
          /\ \A i, j \in DOMAIN records :
               Normal(records[i].text) = Normal(records[j].text)
                 => records[i].split = records[j].split
          /\ \A i, j \in DOMAIN records :
                 records[i].split = "train" /\ records[j].split \in Evaluation
                   => Composition(of[i].features) # Composition(of[j].features)
          /\ \A s \in Splits : \E i \in DOMAIN records : records[i].split = s
          /\ Profile(construction.version,
                     [s \in Splits |-> Cardinality({i \in DOMAIN records : records[i].split = s})],
                     UNION {of[i].features : i \in DOMAIN records})
          CanTrain(x) == \A i \in DOMAIN records : /\ Materializes(records[i])
                                                   /\ Trainable(IR(records[i], x), x)
    <2>3. \A x : Buildable(construction, x) <=> Rest(Of(x), Canonical(x)) /\ CanTrain(x)
      BY ZenonT(30) DEF Buildable
    <2>4. CanTrain(d) <=> CanTrain(r)
      BY <2>2
    <2>5. Rest(Of(d), Canonical(d)) <=> Rest(Of(r), Canonical(r))
      <3> HIDE DEF Rest, Of
      <3> QED BY <1>8, <2>1
    <2> HIDE DEF Rest, CanTrain, Of
    <2> QED BY <2>3, <2>4, <2>5
  <1> QED BY <1>9 DEF d

\* A builder starts: the directory is empty, and it is alone if no other has.
LEMMA CheckEmptyHolds ==
  ASSUME ReleaseInv, NEW b \in Builders, NEW construction \in Constructions, NEW r \in Resources,
         CheckEmpty(b, construction, r)
  PROVE  ReleaseInv'
  <1>1. /\ builder' = [builder EXCEPT ![b] = [at |-> "writing", written |-> 0,
                          construction |-> construction, resources |-> Canonical(r)]]
        /\ directory = Nothing /\ directory' = directory /\ disturbed' = disturbed
        /\ Buildable(construction, r)
    BY DEF CheckEmpty
  <1>2. builder = [x \in Builders |-> builder[x]]
    BY DEF ReleaseInv, BuildersHold
  <1>3. /\ builder'[b] = [at |-> "writing", written |-> 0,
                          construction |-> construction, resources |-> Canonical(r)]
        /\ \A x \in Builders \ {b} : builder'[x] = builder[x]
        /\ builder' = [x \in Builders |-> builder'[x]]
    BY <1>1, <1>2
  <1>4. DirectoryHolds'
    BY <1>1 DEF ReleaseInv, DirectoryHolds
  <1>5. BuildersHold'
    <2>1. r \in Snapshots
      BY DEF Snapshots
    <2>2. Buildable(construction, Canonical(r))
      BY <1>1, <2>1, BuildableOfCanonical
    <2> SUFFICES ASSUME NEW x \in Builders, builder'[x].at \in {"writing", "ended"}
                 PROVE  /\ DOMAIN builder'[x] = {"at", "written", "construction", "resources"}
                        /\ builder'[x].construction \in Constructions
                        /\ builder'[x].resources \in {Canonical(y) : y \in Resources}
                        /\ Buildable(builder'[x].construction, builder'[x].resources)
                        /\ builder'[x].written \in 0..9
                        /\ builder'[x].at = "writing" => builder'[x].written < 9
      BY <1>3 DEF BuildersHold
    <2>3. CASE x = b
      BY <1>3, <2>2, <2>3
    <2>4. CASE x # b
      BY <1>3, <2>4 DEF ReleaseInv, BuildersHold
    <2> QED BY <2>3, <2>4
  <1>6. LoneBuildHolds'
    <2>1. DOMAIN directory' = {} /\ disturbed' \in Nat
      BY <1>1 DEF Nothing, ReleaseInv, LoneBuildHolds
    <2>2. \A x \in Builders : Alone(x)' => x = b
      BY <1>3 DEF Alone
    <2>3. {FileOrder[i] : i \in 1..0} = {}
      OBVIOUS
    <2> QED BY <1>3, <2>1, <2>2, <2>3 DEF LoneBuildHolds
  <1> QED BY <1>4, <1>5, <1>6 DEF ReleaseInv

\* A builder that stops leaves what it has written.
LEMMA StopWritingHolds ==
  ASSUME ReleaseInv, NEW b \in Builders, StopWriting(b)
  PROVE  ReleaseInv'
  <1>1. /\ builder' = [builder EXCEPT ![b] = [at |-> "stopped"]]
        /\ directory' = directory /\ disturbed' = disturbed
    BY DEF StopWriting
  <1>2. builder = [x \in Builders |-> builder[x]]
    BY DEF ReleaseInv, BuildersHold
  <1>3. /\ builder'[b].at = "stopped"
        /\ \A x \in Builders \ {b} : builder'[x] = builder[x]
        /\ builder' = [x \in Builders |-> builder'[x]]
    BY <1>1, <1>2
  <1>4. DirectoryHolds'
    BY <1>1 DEF ReleaseInv, DirectoryHolds
  <1>5. BuildersHold'
    BY <1>3 DEF ReleaseInv, BuildersHold
  <1>6. LoneBuildHolds'
    <2>1. \A x \in Builders : Alone(x)' => x = b
      BY <1>3 DEF Alone
    <2> QED BY <1>1, <1>3, <2>1 DEF ReleaseInv, LoneBuildHolds
  <1> QED BY <1>4, <1>5, <1>6 DEF ReleaseInv

\* A builder writes its next file, or the last, over what is there.
LEMMA WriteNextHolds ==
  ASSUME ReleaseInv, NEW b \in Builders, WriteNext(b)
  PROVE  ReleaseInv'
  <1> DEFINE n == builder[b].written + 1
             files == Build(b)
             name == FileOrder[n]
  <1>1. /\ builder[b].at = "writing"
        /\ directory' = [f \in DOMAIN directory \union {name} |->
                           IF f = name THEN files[name] ELSE directory[f]]
        /\ builder' = [builder EXCEPT ![b].written = n,
                         ![b].at = IF n = 9 THEN "ended" ELSE "writing"]
        /\ disturbed' = disturbed
    BY FilesAre DEF WriteNext, Build
  <1>2. builder = [x \in Builders |-> builder[x]]
    BY DEF ReleaseInv, BuildersHold
  <1>3. /\ builder[b].construction \in Constructions
        /\ builder[b].resources \in {Canonical(y) : y \in Resources}
        /\ Buildable(builder[b].construction, builder[b].resources)
        /\ n \in 1..9
        /\ DOMAIN builder[b] = {"at", "written", "construction", "resources"}
    BY <1>1 DEF ReleaseInv, BuildersHold
  <1>4. /\ builder'[b].construction = builder[b].construction
        /\ builder'[b].resources = builder[b].resources
        /\ builder'[b].written = n
        /\ builder'[b].at = IF n = 9 THEN "ended" ELSE "writing"
        /\ DOMAIN builder'[b] = {"at", "written", "construction", "resources"}
        /\ \A x \in Builders \ {b} : builder'[x] = builder[x]
        /\ builder' = [x \in Builders |-> builder'[x]]
    <2> HIDE DEF n, files, name
    <2> QED BY <1>1, <1>2, <1>3
  <1>5. name \in Files
    BY <1>3, FilesAre
  <1>6. /\ \A s \in Splits : IsSplit(files[s])
        /\ files.construction \in Constructions
        /\ files.resources \in Snapshots
    <2>1. PICK r \in Resources : builder[b].resources = Canonical(r)
      BY <1>3
    <2>2. builder[b].resources \in Snapshots
      BY <2>1 DEF Snapshots
    <2> QED BY <1>3, <2>2, BuiltFiles, LinesAreASplit, CanonicalAgain DEF Build
  <1> HIDE DEF files, name
  <1>7. DirectoryHolds'
    <2> USE DEF ReleaseInv, DirectoryHolds
    <2>1. directory' = [f \in DOMAIN directory' |-> directory'[f]] /\ DOMAIN directory' \subseteq Files
      BY <1>1, <1>5
    <2>2. \A s \in Splits \intersect DOMAIN directory' : IsSplit(directory'[s])
      BY <1>1, <1>6
    <2>3. "construction" \in DOMAIN directory' => directory'.construction \in Constructions
      BY <1>1, <1>6
    <2>4. "resources" \in DOMAIN directory' => directory'.resources \in Snapshots
      BY <1>1, <1>6
    <2> QED BY <2>1, <2>2, <2>3, <2>4
  <1>8. BuildersHold'
    <2> SUFFICES ASSUME NEW x \in Builders, builder'[x].at \in {"writing", "ended"}
                 PROVE  /\ DOMAIN builder'[x] = {"at", "written", "construction", "resources"}
                        /\ builder'[x].construction \in Constructions
                        /\ builder'[x].resources \in {Canonical(y) : y \in Resources}
                        /\ Buildable(builder'[x].construction, builder'[x].resources)
                        /\ builder'[x].written \in 0..9
                        /\ builder'[x].at = "writing" => builder'[x].written < 9
      BY <1>4 DEF BuildersHold
    <2>1. CASE x = b
      <3> HIDE DEF n
      <3> QED BY <1>3, <1>4, <2>1
    <2>2. CASE x # b
      BY <1>4, <2>2 DEF ReleaseInv, BuildersHold
    <2> QED BY <2>1, <2>2
  <1>9. LoneBuildHolds'
    <2>1. \A x \in Builders : Alone(x)' => x = b
      BY <1>4 DEF Alone
    <2>2. Alone(b)' => Alone(b)
      BY <1>4 DEF Alone
    <2>3. Build(b)' = files
      BY <1>4 DEF Build, files
    <2>4. disturbed' \in Nat
      BY <1>1 DEF ReleaseInv, LoneBuildHolds
    <2> SUFFICES ASSUME Alone(b)
                 PROVE  /\ DOMAIN directory' = {FileOrder[i] : i \in 1..n}
                        /\ n = 9 => DOMAIN directory' = Files
                        /\ \A f \in DOMAIN directory' : directory'[f] = files[f]
      <3> HIDE DEF n
      <3> QED BY <1>4, <2>1, <2>2, <2>3, <2>4 DEF LoneBuildHolds
    <2>5. /\ DOMAIN directory = {FileOrder[i] : i \in 1..builder[b].written}
          /\ \A f \in DOMAIN directory : directory[f] = Build(b)[f]
      <3> USE DEF ReleaseInv, LoneBuildHolds
      <3>1. DOMAIN directory = {FileOrder[i] : i \in 1..builder[b].written}
        BY <1>1
      <3>2. \A f \in DOMAIN directory : directory[f] = Build(b)[f]
        BY <1>1
      <3> QED BY <3>1, <3>2
    <2>6. DOMAIN directory' = {FileOrder[i] : i \in 1..n}
      <3>1. builder[b].written \in 0..9
        BY <1>1 DEF ReleaseInv, BuildersHold
      <3>2. \A i : i \in 1..n <=> i \in 1..builder[b].written \/ i = n
        BY <3>1
      <3> HIDE DEF n
      <3> QED BY <1>1, <2>5, <3>2 DEF name
    <2>7. n = 9 => DOMAIN directory' = Files
      <3> HIDE DEF n
      <3> QED BY <2>6, FilesAre
    <2>8. \A f \in DOMAIN directory' : directory'[f] = files[f]
      BY <1>1, <2>5 DEF files
    <2> QED BY <2>6, <2>7, <2>8
  <1> QED BY <1>7, <1>8, <1>9 DEF ReleaseInv

-----------------------------------------------------------------------------
\* Changes of a complete release that leave what kind of thing each file is.
LEMMA DisturbedHolds ==
  ASSUME ReleaseInv, MayDisturb, builder' = builder, disturbed' = disturbed + 1,
         directory' = [f \in Files |-> directory'[f]],
         \A s \in Splits : IsSplit(directory'[s]),
         directory'.construction \in Constructions,
         directory'.resources \in Snapshots
  PROVE  ReleaseInv'
  <1>1. DOMAIN directory = Files /\ DOMAIN directory' = Files
        /\ \A b \in Builders : builder[b].at # "writing"
    BY DEF MayDisturb
  <1>2. DirectoryHolds'
    BY <1>1 DEF DirectoryHolds
  <1>3. BuildersHold'
    BY DEF ReleaseInv, BuildersHold
  <1>4. LoneBuildHolds'
    <2>1. disturbed \in Nat
      BY DEF ReleaseInv, LoneBuildHolds
    <2>2. disturbed' \in Nat /\ disturbed' # 0
      BY <2>1
    <2> QED BY <1>1, <2>2 DEF LoneBuildHolds
  <1> QED BY <1>2, <1>3, <1>4 DEF ReleaseInv

\* A change that leaves what kind of thing the file is.
LEMMA DisturbHolds ==
  ASSUME ReleaseInv, MayDisturb, NEW name \in Files, NEW content, Disturb(name, content),
         name \in Splits => IsSplit(content),
         name = "construction" => content \in Constructions,
         name = "resources" => content \in Snapshots
  PROVE  ReleaseInv'
  <1>1. /\ DOMAIN directory = Files
        /\ directory = [f \in Files |-> directory[f]]
        /\ \A s \in Splits : IsSplit(directory[s])
        /\ directory.construction \in Constructions
        /\ directory.resources \in Snapshots
    <2>1. DOMAIN directory = Files /\ Splits \subseteq Files /\ "construction" \in Files /\ "resources" \in Files
      BY FilesAre DEF MayDisturb, Splits
    <2> QED BY <2>1 DEF ReleaseInv, DirectoryHolds
  <1>2. /\ directory' = [directory EXCEPT ![name] = content]
        /\ builder' = builder /\ disturbed' = disturbed + 1
    BY DEF Disturb
  <1>3. /\ directory' = [f \in Files |-> directory'[f]]
        /\ directory'[name] = content
        /\ \A f \in Files \ {name} : directory'[f] = directory[f]
    BY <1>1, <1>2
  <1>4. \A s \in Splits : IsSplit(directory'[s])
    <2>1. Splits \subseteq Files
      BY FilesAre DEF Splits
    <2> QED BY <1>1, <1>3, <2>1
  <1>5. directory'.construction \in Constructions /\ directory'.resources \in Snapshots
    BY <1>1, <1>3, FilesAre
  <1> QED BY <1>2, <1>3, <1>4, <1>5, DisturbedHolds

-----------------------------------------------------------------------------
(* The alterations of a release.                                            *)

\* A function on the first numbers is a sequence.
LEMMA NumberedSeq ==
  ASSUME NEW n \in Nat, NEW s, s = [i \in 1..n |-> s[i]]
  PROVE  IsSeq(s) /\ Len(s) = n
  <1>1. DOMAIN s = 1..n
    OBVIOUS
  <1>2. \A i \in 1..n : s[i] \in Range(s)
    BY <1>1 DEF Range
  <1>3. s \in Seq(Range(s))
    BY <1>2
  <1> QED BY <1>1, <1>3 DEF IsSeq

\* One element of a sequence is replaced.
LEMMA ReplaceSeq ==
  ASSUME NEW s, IsSeq(s), NEW i \in DOMAIN s, NEW e
  PROVE  LET t == [s EXCEPT ![i] = e]
         IN  IsSeq(t) /\ t[i] = e /\ DOMAIN t = DOMAIN s /\ \A j \in DOMAIN s \ {i} : t[j] = s[j]
  <1> DEFINE t == [s EXCEPT ![i] = e]
  <1>1. Len(s) \in Nat /\ DOMAIN s = 1..Len(s)
    BY LengthOfSeq
  <1>2. t = [j \in 1..Len(s) |-> t[j]] /\ t[i] = e /\ DOMAIN t = DOMAIN s
        /\ \A j \in DOMAIN s \ {i} : t[j] = s[j]
    <2>1. s \in Seq(Range(s))
      BY DEF IsSeq
    <2>2. s = [j \in 1..Len(s) |-> s[j]]
      BY <2>1
    <2> QED BY <1>1, <2>2
  <1> HIDE DEF t
  <1>3. IsSeq(t)
    BY <1>1, <1>2, NumberedSeq
  <1> QED BY <1>2, <1>3 DEF t

\* The tail of a sequence.
LEMMA TailSeq ==
  ASSUME NEW S, NEW s \in Seq(S), s # <<>>
  PROVE  /\ Len(s) > 0
         /\ Tail(s) \in Seq(S)
         /\ DOMAIN Tail(s) = 1..(Len(s) - 1)
         /\ \A i \in 1..(Len(s) - 1) : Tail(s)[i] = s[i + 1]
  OBVIOUS

\* An altered record has the fields of a record.
LEMMA AlteredRecord ==
  ASSUME NEW record, IsRecord(record), NEW r \in Altered(record)
  PROVE  IsRecord(r)
  <1>1. CASE \E f \in record.features : r = [record EXCEPT !.features = @ \ {f}]
    BY <1>1 DEF IsRecord
  <1>2. CASE \E t \in Spaces : r = [record EXCEPT !.source.text = Append(@, t)]
    <2>1. PICK source : r = [record EXCEPT !.source = source]
      BY <1>2
    <2> QED BY <2>1 DEF IsRecord
  <1>3. CASE \E x : r = [record EXCEPT !.target.realizes = x]
    <2>1. PICK target : r = [record EXCEPT !.target = target]
      BY <1>3
    <2> QED BY <2>1 DEF IsRecord
  <1>4. CASE \E n : r = [record EXCEPT !.ir.spans[n].start = @ + 1]
    <2>1. PICK ir : r = [record EXCEPT !.ir = ir]
      BY <1>4
    <2> QED BY <2>1 DEF IsRecord
  <1> QED BY <1>1, <1>2, <1>3, <1>4 DEF Altered

\* What a directory that holds every file holds.
LEMMA CompleteRelease ==
  ASSUME ReleaseInv, DOMAIN directory = Files
  PROVE  /\ directory = [f \in Files |-> directory[f]]
         /\ \A s \in Splits : s \in Files /\ IsSplit(directory[s])
         /\ directory.construction \in Constructions
         /\ directory.resources \in Snapshots
  <1>1. Splits \subseteq Files /\ "construction" \in Files /\ "resources" \in Files
    BY FilesAre DEF Splits
  <1> QED BY <1>1 DEF ReleaseInv, DirectoryHolds

\* One record is altered.
LEMMA AlterRecordHolds ==
  ASSUME ReleaseInv, AlterRecord
  PROVE  ReleaseInv'
  <1>1. MayDisturb /\ DOMAIN directory = Files
    BY DEF AlterRecord, MayAlter, MayDisturb
  <1>0. PICK p \in Places(directory) :
          \E r \in Altered(At(directory, p)) :
            Disturb(p[1], [directory[p[1]] EXCEPT ![p[2]] = r])
    BY DEF AlterRecord
  <1>2. PICK r \in Altered(At(directory, p)) :
          Disturb(p[1], [directory[p[1]] EXCEPT ![p[2]] = r])
    BY <1>0
  <1>11. PICK s \in Splits : \E i \in DOMAIN directory[s] : p = <<s, i>>
    BY DEF Places
  <1>3. PICK i \in DOMAIN directory[s] : p = <<s, i>>
    BY <1>11
  <1>4. IsSplit(directory[s]) /\ s \in Files
    BY <1>1, <1>3, CompleteRelease
  <1>5. r \in Altered(directory[s][i])
    BY <1>2, <1>3 DEF At
  <1>6. IsRecord(r)
    BY <1>3, <1>4, <1>5, AlteredRecord DEF IsSplit
  <1> DEFINE t == [directory[s] EXCEPT ![i] = r]
  <1>7. IsSplit(t)
    <2>1. IsSeq(directory[s]) /\ i \in DOMAIN directory[s]
      BY <1>3, <1>4 DEF IsSplit
    <2>2. IsSeq(t) /\ t[i] = r /\ DOMAIN t = DOMAIN directory[s]
          /\ \A j \in DOMAIN directory[s] \ {i} : t[j] = directory[s][j]
      BY <2>1, ReplaceSeq
    <2> HIDE DEF t
    <2> QED BY <1>4, <1>6, <2>2 DEF IsSplit
  <1>8. Disturb(s, t)
    BY <1>2, <1>3
  <1>9. s # "construction" /\ s # "resources"
    BY DEF Splits
  <1> HIDE DEF t
  <1> QED BY <1>1, <1>4, <1>7, <1>8, <1>9, DisturbHolds

\* The lines of a data file are reordered.
LEMMA ReorderHolds ==
  ASSUME ReleaseInv, Reorder
  PROVE  ReleaseInv'
  <1>1. MayDisturb /\ DOMAIN directory = Files
    BY DEF Reorder, MayAlter, MayDisturb
  <1>2. PICK s \in Splits :
          Disturb(s, [i \in DOMAIN directory[s] |-> directory[s][Len(directory[s]) + 1 - i]])
    BY DEF Reorder
  <1> DEFINE c == Len(directory[s])
             t == [i \in DOMAIN directory[s] |-> directory[s][c + 1 - i]]
  <1>3. IsSplit(directory[s]) /\ s \in Files
    BY <1>1, CompleteRelease
  <1>4. c \in Nat /\ DOMAIN directory[s] = 1..c
    BY <1>3, LengthOfSeq DEF IsSplit
  <1> HIDE DEF c
  <1>5. \A i \in 1..c : c + 1 - i \in 1..c
    BY <1>4
  <1>6. t = [i \in 1..c |-> t[i]] /\ DOMAIN t = 1..c /\ \A i \in 1..c : IsRecord(t[i])
    BY <1>3, <1>4, <1>5 DEF IsSplit
  <1>7. Disturb(s, t)
    BY <1>2 DEF c
  <1> HIDE DEF t
  <1>8. IsSplit(t)
    BY <1>4, <1>6, NumberedSeq DEF IsSplit
  <1>9. s # "construction" /\ s # "resources"
    BY DEF Splits
  <1> QED BY <1>1, <1>3, <1>7, <1>8, <1>9, DisturbHolds

\* A line of a data file is dropped.
LEMMA DropRecordHolds ==
  ASSUME ReleaseInv, DropRecord
  PROVE  ReleaseInv'
  <1>1. MayDisturb /\ DOMAIN directory = Files
    BY DEF DropRecord, MayAlter, MayDisturb
  <1>2. PICK s \in Splits : directory[s] # <<>> /\ Disturb(s, Tail(directory[s]))
    BY DEF DropRecord
  <1> DEFINE c == Len(directory[s])
             t == Tail(directory[s])
  <1>3. IsSplit(directory[s]) /\ s \in Files
    BY <1>1, CompleteRelease
  <1>4. directory[s] \in Seq(Range(directory[s])) /\ c \in Nat /\ DOMAIN directory[s] = 1..c
    BY <1>3, LengthOfSeq DEF IsSplit, IsSeq
  <1>5. /\ c > 0 /\ DOMAIN t = 1..(c - 1)
        /\ \A i \in 1..(c - 1) : t[i] = directory[s][i + 1]
        /\ t \in Seq(Range(directory[s]))
    BY <1>2, <1>4, TailSeq
  <1>6. Disturb(s, t)
    BY <1>2
  <1> HIDE DEF t, c
  <1>7. IsSeq(t)
    BY <1>5, AnySeq
  <1>8. \A i \in 1..(c - 1) : IsRecord(t[i])
    <2> TAKE i \in 1..(c - 1)
    <2>1. i + 1 \in 1..c
      BY <1>4
    <2> QED BY <1>3, <1>4, <1>5, <2>1 DEF IsSplit
  <1>9. s # "construction" /\ s # "resources"
    BY DEF Splits
  <1>10. IsSplit(t)
    BY <1>5, <1>7, <1>8 DEF IsSplit
  <1> QED BY <1>1, <1>3, <1>6, <1>9, <1>10, DisturbHolds

\* The construction, the resources or the reports are altered.
LEMMA AlterInputsHolds ==
  ASSUME ReleaseInv, AlterInputs
  PROVE  ReleaseInv'
  <1>1. MayDisturb
    BY DEF AlterInputs, MayAlter
  <1>2. /\ "construction" \in Files \ Splits /\ "resources" \in Files \ Splits
        /\ "reports" \in Files \ Splits
        /\ "construction" # "resources" /\ "reports" # "construction" /\ "reports" # "resources"
    BY FilesAre DEF Splits
  <1>3. CASE \E c \in Constructions : Disturb("construction", c)
    <2>1. PICK c \in Constructions : Disturb("construction", c)
      BY <1>3
    <2> QED BY <1>1, <1>2, <2>1, DisturbHolds
  <1>4. CASE \E r \in Resources : Disturb("resources", r)
    <2>1. PICK r \in Resources : Disturb("resources", r)
      BY <1>4
    <2>2. r \in Snapshots
      BY DEF Snapshots
    <2> QED BY <1>1, <1>2, <2>1, <2>2, DisturbHolds
  <1>5. CASE Disturb("reports", [directory.reports EXCEPT !.licenses = {}])
    BY <1>1, <1>2, <1>5, DisturbHolds
  <1> QED BY <1>3, <1>4, <1>5 DEF AlterInputs

\* The manifest and the checksums are written again for what is there.
LEMMA ResealHolds ==
  ASSUME ReleaseInv, Relist \/ Reseal
  PROVE  ReleaseInv'
  <1>1. /\ "checksums" \in Files \ Splits /\ "manifest" \in Files \ Splits
        /\ "checksums" \notin {"construction", "resources"}
        /\ "manifest" \notin {"construction", "resources"}
    BY FilesAre DEF Splits
  <1>2. CASE Relist
    <2>1. MayDisturb /\ Disturb("checksums", Checksums(directory))
      BY <1>2 DEF Relist
    <2> QED BY <1>1, <2>1, DisturbHolds
  <1>3. CASE Reseal
    <2>1. MayDisturb /\ DOMAIN directory = Files /\ builder' = builder /\ disturbed' = disturbed + 1
      BY <1>3 DEF Reseal, MayDisturb
    <2>2. PICK m, l : directory' = [[directory EXCEPT !.manifest = m] EXCEPT !.checksums = l]
      BY <1>3 DEF Reseal
    <2>3. /\ directory = [f \in Files |-> directory[f]]
          /\ \A s \in Splits : s \in Files /\ IsSplit(directory[s])
          /\ directory.construction \in Constructions
          /\ directory.resources \in Snapshots
      BY <2>1, CompleteRelease
    <2>4. /\ directory' = [f \in Files |-> directory'[f]]
          /\ \A f \in Files \ {"manifest", "checksums"} : directory'[f] = directory[f]
      BY <2>2, <2>3
    <2>5. /\ \A s \in Splits : IsSplit(directory'[s])
          /\ directory'.construction \in Constructions
          /\ directory'.resources \in Snapshots
      BY <1>1, <2>3, <2>4, FilesAre
    <2> QED BY <2>1, <2>4, <2>5, DisturbedHolds
  <1> QED BY <1>2, <1>3

\* No step of a builder, and no change by another, breaks what holds.
LEMMA ReleaseStepHolds ==
  ASSUME ReleaseInv, Building \/ Disturbing
  PROVE  ReleaseInv'
  <1>1. CASE Building
    BY <1>1, CheckEmptyHolds, WriteNextHolds, StopWritingHolds DEF Building
  <1>2. CASE Link
    <2>1. MayDisturb /\ directory' = directory /\ builder' = builder /\ disturbed' = disturbed + 1
      BY <1>2 DEF Link
    <2>2. /\ directory = [f \in Files |-> directory[f]]
          /\ \A s \in Splits : s \in Files /\ IsSplit(directory[s])
          /\ directory.construction \in Constructions
          /\ directory.resources \in Snapshots
      BY <2>1, CompleteRelease DEF MayDisturb
    <2> QED BY <2>1, <2>2, DisturbedHolds
  <1>3. CASE Disturbing /\ ~ Link
    BY <1>3, AlterRecordHolds, ReorderHolds, DropRecordHolds, AlterInputsHolds, ResealHolds
    DEF Disturbing
  <1> QED BY <1>1, <1>2, <1>3

LEMMA ReleaseInvariance == Spec => []ReleaseInv
  <1>1. Init => ReleaseInv
    BY ReleaseInitHolds DEF Init
  <1>2. ReleaseInv /\ [Next]_vars => ReleaseInv'
    <2> SUFFICES ASSUME ReleaseInv, [Next]_vars PROVE ReleaseInv'
      OBVIOUS
    <2>1. CASE UNCHANGED <<directory, builder, disturbed>>
      BY <2>1 DEF ReleaseInv, DirectoryHolds, BuildersHold, LoneBuildHolds, Alone, Build
    <2>2. CASE Building \/ Disturbing
      BY <2>2, ReleaseStepHolds
    <2> QED BY <2>1, <2>2 DEF Next, vars
  <1> QED BY <1>1, <1>2, PTL DEF Spec

\* Only who disturbs a release gives a file of it a second name.
LinkHolds == disturbed \in Nat /\ (disturbed = 0 => ~ linked)

LEMMA LinkInvariance == Spec => []LinkHolds
  <1>1. Init => LinkHolds
    BY DEF Init, ReleaseInit, LinkHolds
  <1>2. LinkHolds /\ [Next]_vars => LinkHolds'
    <2> SUFFICES ASSUME LinkHolds, [Next]_vars PROVE LinkHolds'
      OBVIOUS
    <2>1. ASSUME UNCHANGED <<linked, disturbed>> PROVE LinkHolds'
      BY <2>1 DEF LinkHolds
    <2>2. ASSUME disturbed' = disturbed + 1 PROVE LinkHolds'
      BY <2>2 DEF LinkHolds
    <2>3. CASE Building
      BY <2>1, <2>3 DEF Building, CheckEmpty, WriteNext, StopWriting
    <2>4. CASE Disturbing
      BY <2>2, <2>4 DEF Disturbing, AlterRecord, Reorder, DropRecord, AlterInputs, Relist, Reseal,
                        Link, Disturb
    <2> QED BY <2>1, <2>3, <2>4 DEF Next, vars
  <1> QED BY <1>1, <1>2, PTL DEF Spec

-----------------------------------------------------------------------------
(* What the reader has checked of a release it accepts.                     *)

\* Each line is at a place ...
LEMMA RecordAt ==
  ASSUME NEW files, NEW s \in Splits, NEW k \in DOMAIN files[s]
  PROVE  /\ <<s, k>> \in Places(files)
         /\ At(files, <<s, k>>) = files[s][k]
         /\ files[s][k] \in RecordsOf(files)
  <1>1. <<s, k>> \in Places(files)
    BY DEF Places
  <1>2. At(files, <<s, k>>) = files[s][k]
    BY DEF At
  <1> QED BY <1>1, <1>2 DEF RecordsOf

\* ... and each place is that of a line, ...
LEMMA PlaceIs ==
  ASSUME NEW files, NEW p \in Places(files)
  PROVE  \E s \in Splits : \E k \in DOMAIN files[s] : p = <<s, k>> /\ At(files, p) = files[s][k]
  <1>1. PICK s \in Splits : \E k \in DOMAIN files[s] : p = <<s, k>>
    BY DEF Places
  <1>2. PICK k \in DOMAIN files[s] : p = <<s, k>>
    BY <1>1
  <1> QED BY <1>2 DEF At

\* ... so the records are the lines.
LEMMA RecordIs ==
  ASSUME NEW files, NEW r \in RecordsOf(files)
  PROVE  \E s \in Splits : \E k \in DOMAIN files[s] : r = files[s][k]
  <1>1. PICK p \in Places(files) : r = At(files, p)
    BY DEF RecordsOf
  <1> QED BY <1>1, PlaceIs

\* What a release that is read has been made of: files is complete, and each
\* of its parts is what it should be.
Complete(files) ==
  /\ files.construction \in Constructions
  /\ \A s \in Splits : IsSplit(files[s])

\* A record that the reader accepts is one the construction leads to.
LEMMA AcceptedRecord ==
  ASSUME NEW files, Complete(files), NEW pin, Accepts(files, pin), NEW r \in RecordsOf(files)
  PROVE  LET con == files.construction
         IN  \E i \in DOMAIN con.records :
               /\ r = Released(con.records[i], con, files.resources)
               /\ con.records[i].id = r.id
               /\ con.records[i].split = r.split
               /\ Materializes(con.records[i])
               /\ Trainable(IR(con.records[i], files.resources), files.resources)
  <1> DEFINE con == files.construction
             res == files.resources
  <1>1. /\ \E i \in DOMAIN con.records : MadeFrom(r, con.records[i], res)
        /\ Features(r.ir.document, r.source.text, con.version, res) = r.features
        /\ Trainable(r.ir, res)
        /\ Target(r.ir, res) = r.target
    BY DEF Accepts, RecordHolds
  <1>2. PICK i \in DOMAIN con.records : MadeFrom(r, con.records[i], res)
    BY <1>1
  <1> DEFINE m == con.records[i]
  <1> HIDE DEF con, res, m
  <1>3. /\ m.id = r.id /\ m.split = r.split
        /\ r.source = [id |-> m.source, text |-> m.text, license |-> m.license]
        /\ Materializes(m)
        /\ IR(m, res) = r.ir
    BY <1>2 DEF MadeFrom, m
  <1>4. r.source.text = m.text /\ r.ir.document = m.document
    BY <1>3 DEF IR
  <1>5. IsRecord(r)
    <2>1. PICK s \in Splits : \E k \in DOMAIN files[s] : r = files[s][k]
      BY RecordIs
    <2> QED BY <2>1 DEF Complete, IsSplit
  <1>6. r = Released(m, con, res)
    <2>1. Released(m, con, res) =
            [id |-> m.id, split |-> m.split,
             source |-> [id |-> m.source, text |-> m.text, license |-> m.license],
             ir |-> IR(m, res), target |-> Target(IR(m, res), res),
             features |-> Features(m.document, m.text, con.version, res)]
      BY DEF Released
    <2>2. Released(m, con, res) =
            [id |-> r.id, split |-> r.split, source |-> r.source,
             ir |-> r.ir, target |-> r.target, features |-> r.features]
      BY <1>1, <1>3, <1>4, <2>1
    <2> QED BY <1>5, <2>2 DEF IsRecord
  <1>7. Trainable(IR(m, res), res)
    BY <1>1, <1>3
  <1> QED BY <1>3, <1>6, <1>7 DEF con, res, m

\* The fields of a released record come from its construction.
LEMMA ReleasedFields ==
  ASSUME NEW m, NEW con, NEW res
  PROVE  /\ Released(m, con, res).id = m.id
         /\ Released(m, con, res).split = m.split
         /\ Released(m, con, res).source.id = m.source
         /\ Released(m, con, res).source.text = m.text
         /\ Released(m, con, res).source.license = m.license
         /\ Released(m, con, res).ir = IR(m, res)
         /\ Released(m, con, res).target = Target(IR(m, res), res)
         /\ Released(m, con, res).ir.document = m.document
         /\ Released(m, con, res).target.profile = res.version
         /\ Released(m, con, res).features = Features(m.document, m.text, con.version, res)
  BY DEF Released, IR, Target

\* Each record of the construction is in the release, made as it is.
LEMMA AcceptedConstruction ==
  ASSUME NEW files, Complete(files), NEW pin, Accepts(files, pin),
         NEW i \in DOMAIN files.construction.records
  PROVE  LET con == files.construction
             m == con.records[i]
         IN  /\ Released(m, con, files.resources) \in RecordsOf(files)
             /\ Materializes(m)
             /\ Trainable(IR(m, files.resources), files.resources)
             /\ \A j \in DOMAIN con.records : con.records[j].id = m.id => j = i
  <1> DEFINE con == files.construction
             res == files.resources
             made == con.records
             ids == [j \in DOMAIN made |-> made[j].id]
  <1>1. IsInjective(ids) /\ Range(ids) = {r.id : r \in RecordsOf(files)}
    BY DEF Accepts, Inventory
  <1>2. \A j, k \in DOMAIN made : made[j].id = made[k].id => j = k
    BY <1>1 DEF IsInjective
  <1>3. made[i].id \in Range(ids)
    BY DEF Range
  <1>4. PICK r \in RecordsOf(files) : r.id = made[i].id
    <2> HIDE DEF ids, made
    <2> QED BY <1>1, <1>3
  <1>5. PICK j \in DOMAIN made : /\ r = Released(made[j], con, res)
                                 /\ made[j].id = r.id
                                 /\ Materializes(made[j])
                                 /\ Trainable(IR(made[j], res), res)
    BY AcceptedRecord
  <1>6. j = i
    BY <1>2, <1>4, <1>5
  <1> QED BY <1>2, <1>5, <1>6

\* No record of a split is lost, and none is there twice.
LEMMA AcceptedCounts ==
  ASSUME NEW files, Complete(files), NEW pin, Accepts(files, pin), NEW s \in Splits
  PROVE  /\ Len(files[s]) = CountOf(files.construction.records, s)
         /\ Len(files[s]) \in Nat \ {0} /\ DOMAIN files[s] = 1..Len(files[s])
         /\ \E i \in DOMAIN files.construction.records : files.construction.records[i].split = s
  <1> DEFINE con == files.construction
             made == con.records
             n == Len(files[s])
             g == [k \in 1..n |-> CHOOSE i \in DOMAIN made : made[i].id = files[s][k].id]
  <1>1. n \in Nat /\ DOMAIN files[s] = 1..n
    BY LengthOfSeq DEF Complete, IsSplit
  <1>2. /\ files[s] # <<>>
        /\ \A k \in 1..n : files[s][k].split = s
        /\ \A p, q \in Places(files) : At(files, p).id = At(files, q).id => p = q
    BY <1>1 DEF Accepts, Inventory, LinesHold
  <1>3. n # 0
    <2>1. files[s] \in Seq(Range(files[s]))
      BY DEF Complete, IsSplit, IsSeq
    <2> QED BY <1>2, <2>1
  <1>4. \A k, l \in 1..n : files[s][k].id = files[s][l].id => k = l
    <2> SUFFICES ASSUME NEW k \in 1..n, NEW l \in 1..n, files[s][k].id = files[s][l].id PROVE k = l
      OBVIOUS
    <2>0. /\ <<s, k>> \in Places(files) /\ <<s, l>> \in Places(files)
          /\ At(files, <<s, k>>).id = At(files, <<s, l>>).id
      <3>1. k \in DOMAIN files[s] /\ l \in DOMAIN files[s]
        BY <1>1
      <3>2. At(files, <<s, k>>) = files[s][k] /\ At(files, <<s, l>>) = files[s][l]
        BY <3>1, RecordAt
      <3>3. <<s, k>> \in Places(files) /\ <<s, l>> \in Places(files)
        BY <3>1, RecordAt
      <3> QED BY <3>2, <3>3
    <2>1. <<s, k>> = <<s, l>>
      BY <1>2, <2>0
    <2> QED BY <2>1
  <1>5. \A k \in 1..n : \E i \in DOMAIN made : made[i].id = files[s][k].id /\ made[i].split = s
    <2> TAKE k \in 1..n
    <2>1. files[s][k] \in RecordsOf(files)
      BY <1>1, RecordAt
    <2>2. PICK i \in DOMAIN made : made[i].id = files[s][k].id /\ made[i].split = files[s][k].split
      BY <2>1, AcceptedRecord
    <2> QED BY <1>2, <2>2
  <1>6. \A i, j \in DOMAIN made : made[i].id = made[j].id => i = j
    BY AcceptedConstruction
  <1>7. \A k \in 1..n : g[k] \in DOMAIN made /\ made[g[k]].id = files[s][k].id /\ made[g[k]].split = s
    <2> TAKE k \in 1..n
    <2>1. PICK i \in DOMAIN made : made[i].id = files[s][k].id /\ made[i].split = s
      BY <1>5
    <2>2. g[k] = i
      BY <1>6, <2>1
    <2> QED BY <2>1, <2>2
  <1>8. \A i \in DOMAIN made : made[i].split = s => \E k \in 1..n : g[k] = i
    <2> SUFFICES ASSUME NEW i \in DOMAIN made, made[i].split = s PROVE \E k \in 1..n : g[k] = i
      OBVIOUS
    <2> DEFINE r == Released(made[i], con, files.resources)
    <2>1. r \in RecordsOf(files) /\ r.id = made[i].id /\ r.split = s
      BY AcceptedConstruction, ReleasedFields
    <2> HIDE DEF r
    <2>2. PICK t \in Splits : \E k \in DOMAIN files[t] : r = files[t][k]
      BY <2>1, RecordIs
    <2>3. PICK k \in DOMAIN files[t] : r = files[t][k]
      BY <2>2
    <2>4. t = s
      <3>1. files[t][k].split = t
        BY DEF Accepts, Inventory, LinesHold
      <3> QED BY <2>1, <2>3, <3>1
    <2>5. k \in 1..n /\ made[g[k]].id = made[i].id /\ g[k] \in DOMAIN made
      BY <1>1, <1>7, <2>1, <2>3, <2>4
    <2> QED BY <1>6, <2>5
  <1> DEFINE P == PlacesOf(made, s)
  <1>9. g \in [1..n -> P] /\ g \in Injection(1..n, P) /\ g \in Surjection(1..n, P)
    <2>1. DOMAIN g = 1..n /\ g = [k \in 1..n |-> g[k]]
      OBVIOUS
    <2> HIDE DEF g
    <2>2. \A k \in 1..n : g[k] \in P
      BY <1>7 DEF PlacesOf
    <2>3. \A k, l \in 1..n : g[k] = g[l] => k = l
      BY <1>4, <1>7
    <2>4. \A i \in P : \E k \in 1..n : g[k] = i
      BY <1>8 DEF PlacesOf
    <2> HIDE DEF P, n
    <2>5. g \in [1..n -> P]
      BY <2>1, <2>2
    <2> QED BY <2>1, <2>3, <2>4, <2>5 DEF Injection, Surjection, IsInjective
  <1>10. n = Cardinality(P)
    <2>1. ExistsBijection(1..n, P)
      BY <1>9 DEF ExistsBijection, Bijection
    <2>2. IsFiniteSet(1..n) /\ Cardinality(1..n) = n
      BY <1>1, FS_Interval
    <2> HIDE DEF P, n
    <2> QED BY <2>1, <2>2, FS_Bijection
  <1>11. \E i \in DOMAIN made : made[i].split = s
    <2>1. 1 \in 1..n
      BY <1>1, <1>3
    <2> QED BY <1>5, <2>1
  <1> QED BY <1>1, <1>3, <1>10, <1>11 DEF CountOf

-----------------------------------------------------------------------------
(* A release that is accepted can be built.                                 *)

\* In an accepted release neither ids nor sources are repeated.
LEMMA AcceptedPlace ==
  ASSUME NEW files, NEW pin, Accepts(files, pin),
         NEW q \in RecordsOf(files), NEW r \in RecordsOf(files),
         q.id = r.id \/ q.source.id = r.source.id
  PROVE  q = r
  <1>1. PICK p \in Places(files) : q = At(files, p)
    BY DEF RecordsOf
  <1>2. PICK o \in Places(files) : r = At(files, o)
    BY DEF RecordsOf
  <1>3. \A x, y \in Places(files) :
          At(files, x).id = At(files, y).id \/ At(files, x).source.id = At(files, y).source.id => x = y
    BY DEF Accepts, Inventory
  <1>4. p = o
    BY <1>1, <1>2, <1>3
  <1> QED BY <1>1, <1>2, <1>4

\* Buildable, of any list of records and of what they become.
BuildableAs(construction, resources, records, released) ==
  /\ \A i, j \in DOMAIN records :
       \/ records[i].id = records[j].id
       \/ records[i].source = records[j].source
       => i = j
  /\ Provenance(construction, Canonical(resources))
  /\ \A i \in DOMAIN records : /\ Materializes(records[i])
                               /\ Trainable(IR(records[i], resources), resources)
  /\ \A i, j \in DOMAIN records :
       Normal(records[i].text) = Normal(records[j].text)
         => records[i].split = records[j].split
  /\ \A i, j \in DOMAIN records :
         records[i].split = "train" /\ records[j].split \in Evaluation
           => Composition(released[i].features) # Composition(released[j].features)
  /\ \A s \in Splits : \E i \in DOMAIN records : records[i].split = s
  /\ Profile(construction.version,
             [s \in Splits |-> Cardinality({i \in DOMAIN records : records[i].split = s})],
             UNION {released[i].features : i \in DOMAIN records})

\* What makes a construction buildable, as one predicate of its records.
LEMMA BuildableParts ==
  ASSUME NEW construction, NEW resources
  PROVE  Buildable(construction, resources) <=>
           BuildableAs(construction, resources, construction.records,
                       [i \in DOMAIN construction.records |->
                          Released(construction.records[i], construction, resources)])
  BY ZenonT(30) DEF Buildable, BuildableAs

\* Every release the reader accepts is derived from its own inputs, which the
\* builder would have taken.
LEMMA AcceptedDerived ==
  ASSUME NEW files, Complete(files), files.resources \in Snapshots, NEW pin, Accepts(files, pin)
  PROVE  Derived(files)
  <1> DEFINE con == files.construction
             res == files.resources
             made == con.records
             all == RecordsOf(files)
             built == [con EXCEPT !.resources = Canonical(@)]
  <1>1. all = {Released(made[i], con, res) : i \in DOMAIN made}
    <2>1. \A r \in all : \E i \in DOMAIN made : r = Released(made[i], con, res)
      BY AcceptedRecord
    <2>2. \A i \in DOMAIN made : Released(made[i], con, res) \in all
      BY AcceptedConstruction
    <2> HIDE DEF all, made, con, res
    <2> QED BY <2>1, <2>2
  <1>2. /\ built.records = made /\ built.version = con.version /\ built.license = con.license
        /\ built.resources = Canonical(con.resources)
    <2>1. con = [version |-> con.version, license |-> con.license,
                 resources |-> con.resources, records |-> con.records]
      BY MadeOf DEF Complete
    <2> HIDE DEF con
    <2> QED BY <2>1
  <1>3. /\ con.resources = res
        /\ \A i \in DOMAIN made : made[i].license = con.license
    BY DEF Accepts, Provenance
  <1> DEFINE of(i) == Released(made[i], con, res)
  <1>4. /\ \A i \in DOMAIN made : of(i) \in all
        /\ \A i, j \in DOMAIN made : made[i].id = made[j].id => i = j
    BY AcceptedConstruction
  <1>5. \A i, j \in DOMAIN made :
          \/ made[i].id = made[j].id
          \/ made[i].source = made[j].source
          => i = j
    <2> SUFFICES ASSUME NEW i \in DOMAIN made, NEW j \in DOMAIN made, made[i].source = made[j].source
                 PROVE  i = j
      BY <1>4
    <2>1. of(i).source.id = of(j).source.id /\ of(i).id = made[i].id /\ of(j).id = made[j].id
      BY ReleasedFields
    <2>2. of(i) = of(j)
      <3>1. of(i) \in all /\ of(j) \in all
        BY <1>4
      <3> HIDE DEF of, made
      <3> QED BY <2>1, <3>1, AcceptedPlace
    <2> QED BY <1>4, <2>1, <2>2
  <1>6. Provenance(built, Canonical(res))
    <2> HIDE DEF built, made, con, res
    <2> QED BY <1>2, <1>3 DEF Provenance, made
  <1>7. \A i \in DOMAIN made : Materializes(made[i]) /\ Trainable(IR(made[i], res), res)
    BY AcceptedConstruction
  <1>8. /\ \A q, r \in all :
             Normal(q.source.text) = Normal(r.source.text) => q.split = r.split
        /\ \A q, r \in all :
             q.split = "train" /\ r.split \in Evaluation
               => Composition(q.features) # Composition(r.features)
    BY DEF Accepts, NothingLeaks
  <1>9. \A i \in DOMAIN made : of(i).source.text = made[i].text /\ of(i).split = made[i].split
    BY ReleasedFields
  <1>10. \A i, j \in DOMAIN made :
           Normal(made[i].text) = Normal(made[j].text) => made[i].split = made[j].split
    <2> HIDE DEF of, made, con, res
    <2> QED BY <1>4, <1>8, <1>9
  <1>11. \A i, j \in DOMAIN made :
           made[i].split = "train" /\ made[j].split \in Evaluation
             => Composition(of(i).features) # Composition(of(j).features)
    <2> HIDE DEF of, made, con, res
    <2> QED BY <1>4, <1>8, <1>9
  <1>12. \A s \in Splits : \E i \in DOMAIN made : made[i].split = s
    BY AcceptedCounts
  <1>13. Profile(con.version,
                 [s \in Splits |-> Cardinality({i \in DOMAIN made : made[i].split = s})],
                 UNION {of(i).features : i \in DOMAIN made})
    <2>1. Profile(files.manifest.version, files.manifest.counts, UNION {r.features : r \in all})
      BY DEF Accepts
    <2>2. files.manifest.version = con.version
      BY DEF Accepts, Sealed
    <2>3. files.manifest.counts = [s \in Splits |-> Len(files[s])]
      BY DEF Accepts, Inventory
    <2>4. [s \in Splits |-> Len(files[s])]
            = [s \in Splits |-> Cardinality({i \in DOMAIN made : made[i].split = s})]
      <3>1. \A s \in Splits : Len(files[s]) = Cardinality({i \in DOMAIN made : made[i].split = s})
        BY AcceptedCounts DEF CountOf, PlacesOf
      <3> QED BY <3>1
    <2>5. UNION {r.features : r \in all} = UNION {of(i).features : i \in DOMAIN made}
      <3>1. {r.features : r \in all} = {of(i).features : i \in DOMAIN made}
        <4>1. all = {of(i) : i \in DOMAIN made}
          BY <1>1
        <4> HIDE DEF all, of
        <4> QED BY <4>1
      <3> HIDE DEF all, of
      <3> QED BY <3>1
    <2> HIDE DEF all, of, con, made
    <2> QED BY <2>1, <2>2, <2>3, <2>4, <2>5
  <1>14. \A i : Released(made[i], built, res) = of(i)
    BY <1>2 DEF Released
  <1>15. Buildable(built, res)
    <2> DEFINE released == [i \in DOMAIN made |-> Released(made[i], built, res)]
    <2>1. /\ \A i \in DOMAIN made : released[i] = of(i)
          /\ UNION {released[i].features : i \in DOMAIN made} = UNION {of(i).features : i \in DOMAIN made}
      BY <1>14
    <2>2. \A i, j \in DOMAIN made :
            made[i].split = "train" /\ made[j].split \in Evaluation
              => Composition(released[i].features) # Composition(released[j].features)
      <3> HIDE DEF of, released
      <3> QED BY <1>11, <2>1
    <2>3. Profile(con.version,
                  [s \in Splits |-> Cardinality({i \in DOMAIN made : made[i].split = s})],
                  UNION {released[i].features : i \in DOMAIN made})
      <3> HIDE DEF of, released
      <3> QED BY <1>13, <2>1
    <2>4. built.records = made /\ built.version = con.version
      BY <1>2
    <2>5. BuildableAs(built, res, made, released)
      <3> HIDE DEF of, built, released, made, con, res
      <3> QED BY <1>5, <1>6, <1>7, <1>10, <1>12, <2>2, <2>3, <2>4 DEF BuildableAs
    <2>6. Buildable(built, res) <=>
            BuildableAs(built, res, built.records,
                        [i \in DOMAIN built.records |-> Released(built.records[i], built, res)])
      BY BuildableParts
    <2> HIDE DEF built, made, con, res
    <2> QED BY <2>4, <2>5, <2>6
  <1> HIDE DEF all
  <1> QED BY <1>1, <1>15 DEF Derived, all

\* Whoever has altered what of a release and sealed it again, one that
\* read_training_release accepts consists of exactly the records its own
\* construction and resources lead to, and a builder would have built it.
THEOREM ReaderAcceptsDerived == Spec => []AcceptedIsDerived
  <1>1. ReleaseInv => AcceptedIsDerived
    <2> SUFFICES ASSUME ReleaseInv, DOMAIN directory = Files, Accepts(directory, Selection(directory))
                 PROVE  Derived(directory)
      BY DEF AcceptedIsDerived
    <2>1. Complete(directory) /\ directory.resources \in Snapshots
      BY CompleteRelease DEF Complete
    <2> QED BY <2>1, AcceptedDerived
  <1> QED BY <1>1, ReleaseInvariance, PTL

-----------------------------------------------------------------------------
(* What a build seals, the reader finds again.                              *)

\* The lines of a split of a build, by their places in the construction.
LEMMA BuiltLines ==
  ASSUME NEW con \in Constructions, NEW res, NEW s \in Splits
  PROVE  LET lines == Artifacts(con, res)[s]
             made == con.records
         IN  /\ IsSeq(lines)
             /\ CountOf(made, s) \in Nat
             /\ DOMAIN lines = 1..CountOf(made, s) /\ Len(lines) = CountOf(made, s)
             /\ \A k \in DOMAIN lines : /\ PlaceOf(made, s, k) \in DOMAIN made
                                        /\ made[PlaceOf(made, s, k)].split = s
                                        /\ lines[k] = Released(made[PlaceOf(made, s, k)], con, res)
             /\ \A j, k \in DOMAIN lines : PlaceOf(made, s, j) = PlaceOf(made, s, k) => j = k
             /\ \A i \in DOMAIN made : made[i].split = s =>
                  \E k \in DOMAIN lines : PlaceOf(made, s, k) = i
  <1> DEFINE lines == Artifacts(con, res)[s]
             made == con.records
             c == CountOf(made, s)
  <1>1. lines = Lines(con, res, s)
    BY BuiltFiles
  <1>2. Len(made) \in Nat /\ DOMAIN made = 1..Len(made)
    BY MadeOf
  <1> HIDE DEF lines, made, c
  <1>3. /\ c \in Nat
        /\ DOMAIN InSplit(made, s) = 1..c
        /\ \A k \in 1..c : /\ InSplit(made, s)[k] = made[PlaceOf(made, s, k)]
                           /\ PlaceOf(made, s, k) \in DOMAIN made
                           /\ made[PlaceOf(made, s, k)].split = s
        /\ \A j, k \in 1..c : PlaceOf(made, s, j) = PlaceOf(made, s, k) => j = k
        /\ \A i \in DOMAIN made : made[i].split = s => \E k \in 1..c : PlaceOf(made, s, k) = i
    BY <1>2, SplitTakes DEF c
  <1>4. lines = [k \in 1..c |-> Released(InSplit(made, s)[k], con, res)]
    BY <1>1, <1>3 DEF Lines, made
  <1>5. lines = [k \in 1..c |-> lines[k]] /\ DOMAIN lines = 1..c
    BY <1>4
  <1>6. IsSeq(lines) /\ Len(lines) = c
    BY <1>3, <1>5, NumberedSeq
  <1>7. \A k \in 1..c : lines[k] = Released(made[PlaceOf(made, s, k)], con, res)
    BY <1>3, <1>4
  <1> QED BY <1>3, <1>5, <1>6, <1>7 DEF lines, made, c

\* The records of a build.
LEMMA BuiltRecords ==
  ASSUME NEW con \in Constructions, NEW res
  PROVE  RecordsOf(Artifacts(con, res)) = {Released(con.records[i], con, res) : i \in DOMAIN con.records}
  <1> DEFINE files == Artifacts(con, res)
             made == con.records
  <1>1. ASSUME NEW r \in RecordsOf(files) PROVE \E i \in DOMAIN made : r = Released(made[i], con, res)
    <2>1. PICK s \in Splits : \E k \in DOMAIN files[s] : r = files[s][k]
      BY RecordIs
    <2>2. PICK k \in DOMAIN files[s] : r = files[s][k]
      BY <2>1
    <2> QED BY <2>2, BuiltLines
  <1>2. ASSUME NEW i \in DOMAIN made PROVE Released(made[i], con, res) \in RecordsOf(files)
    <2>1. PICK s \in Splits : made[i].split = s
      BY MadeOf
    <2>2. \E k \in DOMAIN files[s] : PlaceOf(made, s, k) = i
      BY <2>1, BuiltLines
    <2> HIDE DEF files
    <2>3. PICK k \in DOMAIN files[s] : PlaceOf(made, s, k) = i
      BY <2>2
    <2>4. files[s][k] = Released(made[i], con, res)
      BY <2>1, <2>3, BuiltLines DEF files
    <2>5. files[s][k] \in RecordsOf(files)
      BY <2>1, RecordAt
    <2> QED BY <2>4, <2>5
  <1> HIDE DEF files
  <1> QED BY <1>1, <1>2 DEF files

\* A build is sealed as it pins.
LEMMA BuiltSealed ==
  ASSUME NEW con, NEW res, WithinLimits(Artifacts(con, res))
  PROVE  Sealed(Artifacts(con, res), Selection(Artifacts(con, res)))
  <1> DEFINE files == Artifacts(con, res)
             data == DataFiles(con, res)
  <1>0. WithinLimits(files)
    OBVIOUS
  <1>1. /\ files = [f \in Files |-> files[f]]
        /\ files.construction = con
        /\ files.manifest = Manifest(data)
        /\ files.checksums = Checksums(WithManifest(data))
        /\ \A f \in Data : files[f] = data[f]
        /\ \A f \in Files \ {"checksums"} : files[f] = WithManifest(data)[f]
    BY BuiltFiles
  <1> HIDE DEF files, data
  <1>2. DOMAIN files = Files
    BY <1>1
  <1>3. /\ files.manifest.version = data.construction.version
        /\ files.manifest.construction = data.construction
        /\ files.manifest.artifacts = [f \in Data |-> data[f]]
    BY <1>1 DEF Manifest
  <1>4. "construction" \in Data /\ "train" \in Data /\ "validation" \in Data
    BY DataAre
  <1>5. data.construction = con
    BY <1>1, <1>4
  <1>6. Listed(files)
    <2>1. files.checksums = [f \in Files \ {"checksums"} |-> WithManifest(data)[f]]
      BY <1>1 DEF Checksums
    <2> QED BY <1>1, <2>1 DEF Listed
  <1>7. \A f \in Data : files.manifest.artifacts[f] = files[f]
    BY <1>1, <1>3
  <1>8. DOMAIN files.manifest.artifacts = Data
    BY <1>3
  <1>9. Sealed(files, Selection(files))
    BY <1>0, <1>1, <1>2, <1>3, <1>4, <1>5, <1>6, <1>7, <1>8 DEF Sealed, Selection
  <1> QED BY <1>9 DEF files

\* A build passes the checks the reader makes of all records together.
LEMMA BuiltInventory ==
  ASSUME NEW con \in Constructions, NEW res, Buildable(con, res)
  PROVE  Inventory(Artifacts(con, res))
  <1> DEFINE files == Artifacts(con, res)
             data == DataFiles(con, res)
             made == con.records
             all == RecordsOf(files)
             of(i) == Released(made[i], con, res)
             ids == [i \in DOMAIN made |-> made[i].id]
  <1>1. /\ \A i, j \in DOMAIN made :
             made[i].id = made[j].id \/ made[i].source = made[j].source => i = j
        /\ \A i \in DOMAIN made : made[i].document.id = made[i].id
        /\ \A s \in Splits : \E i \in DOMAIN made : made[i].split = s
    BY DEF Buildable, Materializes
  <1>2. all = {of(i) : i \in DOMAIN made}
    BY BuiltRecords
  <1>3. \A i : /\ of(i).id = made[i].id
               /\ of(i).split = made[i].split
               /\ of(i).source.id = made[i].source
               /\ of(i).ir.document = made[i].document
    BY ReleasedFields
  <1>4. \A s \in Splits : LinesHold(files, s)
    <2> TAKE s \in Splits
    <2>1. PICK i \in DOMAIN made : made[i].split = s
      BY <1>1
    <2>2. \E k \in DOMAIN files[s] : PlaceOf(made, s, k) = i
      BY <2>1, BuiltLines
    <2>3. files[s] # <<>>
      BY <2>2
    <2>4. ASSUME NEW k \in DOMAIN files[s]
          PROVE  files[s][k].split = s /\ files[s][k].id = files[s][k].ir.document.id
      <3>1. /\ PlaceOf(made, s, k) \in DOMAIN made
            /\ made[PlaceOf(made, s, k)].split = s
            /\ files[s][k] = of(PlaceOf(made, s, k))
        BY BuiltLines
      <3> HIDE DEF of, files
      <3> QED BY <1>1, <1>3, <3>1
    <2> HIDE DEF files
    <2> QED BY <2>3, <2>4 DEF LinesHold
  <1>5. \A p, q \in Places(files) :
          At(files, p).id = At(files, q).id \/ At(files, p).source.id = At(files, q).source.id => p = q
    <2> SUFFICES ASSUME NEW p \in Places(files), NEW q \in Places(files),
                        At(files, p).id = At(files, q).id \/ At(files, p).source.id = At(files, q).source.id
                 PROVE  p = q
      OBVIOUS
    <2>1. PICK s \in Splits : \E k \in DOMAIN files[s] : p = <<s, k>> /\ At(files, p) = files[s][k]
      BY PlaceIs
    <2>2. PICK k \in DOMAIN files[s] : p = <<s, k>> /\ At(files, p) = files[s][k]
      BY <2>1
    <2>3. PICK t \in Splits : \E l \in DOMAIN files[t] : q = <<t, l>> /\ At(files, q) = files[t][l]
      BY PlaceIs
    <2>4. PICK l \in DOMAIN files[t] : q = <<t, l>> /\ At(files, q) = files[t][l]
      BY <2>3
    <2> DEFINE i == PlaceOf(made, s, k)
               j == PlaceOf(made, t, l)
    <2>5. i \in DOMAIN made /\ made[i].split = s /\ files[s][k] = of(i)
      BY BuiltLines
    <2>6. j \in DOMAIN made /\ made[j].split = t /\ files[t][l] = of(j)
      BY BuiltLines
    <2>7. i = j
      <3> HIDE DEF of, files, i, j, made
      <3> QED BY <1>1, <1>3, <2>2, <2>4, <2>5, <2>6
    <2>8. s = t
      BY <2>5, <2>6, <2>7
    <2>9. k = l
      <3>1. \A a, b \in DOMAIN files[s] : PlaceOf(made, s, a) = PlaceOf(made, s, b) => a = b
        BY BuiltLines
      <3> HIDE DEF files
      <3> QED BY <2>7, <2>8, <3>1
    <2> QED BY <2>2, <2>4, <2>8, <2>9
  <1>6. files.manifest = Manifest(data) /\ \A s \in Splits : files[s] = data[s]
    BY BuiltFiles, DataAre DEF Splits
  <1>7. files.manifest.counts = [s \in Splits |-> Len(files[s])]
    <2> HIDE DEF files, data
    <2> QED BY <1>6 DEF Manifest
  <1>8. files.manifest.profiles = {r.target.profile : r \in all}
    <2>1. files.manifest.profiles = UNION {{files[s][i].target.profile : i \in DOMAIN files[s]} : s \in Splits}
      <3> HIDE DEF files, data
      <3> QED BY <1>6 DEF Manifest
    <2> HIDE DEF files
    <2>2. \A x : x \in files.manifest.profiles <=>
                   \E s \in Splits : \E i \in DOMAIN files[s] : x = files[s][i].target.profile
      BY <2>1
    <2>3. ASSUME NEW x \in files.manifest.profiles PROVE x \in {r.target.profile : r \in all}
      <3>1. PICK s \in Splits : \E i \in DOMAIN files[s] : x = files[s][i].target.profile
        BY <2>2
      <3>2. PICK i \in DOMAIN files[s] : x = files[s][i].target.profile
        BY <3>1
      <3>3. files[s][i] \in all
        BY RecordAt
      <3> QED BY <3>2, <3>3
    <2>4. ASSUME NEW r \in all PROVE r.target.profile \in files.manifest.profiles
      <3>1. PICK s \in Splits : \E k \in DOMAIN files[s] : r = files[s][k]
        BY RecordIs
      <3> QED BY <2>2, <3>1
    <2> HIDE DEF all
    <2> QED BY <2>3, <2>4
  <1>9. IsInjective(ids)
    BY <1>1 DEF IsInjective
  <1>10. Range(ids) = {r.id : r \in all}
    <2>1. Range(ids) = {made[i].id : i \in DOMAIN made}
      BY DEF Range
    <2> HIDE DEF all, ids, of
    <2> QED BY <1>2, <1>3, <2>1
  <1>11. files.construction = con
    BY BuiltFiles
  <1> HIDE DEF files, data, of
  <1>12. Inventory(files)
    <2> HIDE DEF all
    <2> QED BY <1>4, <1>5, <1>7, <1>8, <1>9, <1>10, <1>11 DEF Inventory, all
  <1> QED BY <1>12 DEF files

-----------------------------------------------------------------------------
(* A build that verifies is accepted.                                       *)

\* Each record of a build passes the checks the reader makes of it.
LEMMA BuiltRecordHolds ==
  ASSUME NEW con \in Constructions, NEW res, Buildable(con, res), NEW i \in DOMAIN con.records
  PROVE  RecordHolds(Released(con.records[i], con, res), con, res)
  <1> DEFINE m == con.records[i]
             r == Released(m, con, res)
             ir == IR(m, res)
  <1>1. /\ r.id = m.id /\ r.split = m.split
        /\ r.source = [id |-> m.source, text |-> m.text, license |-> m.license]
        /\ r.ir = ir /\ r.target = Target(ir, res)
        /\ r.features = Features(m.document, m.text, con.version, res)
    BY DEF Released
  <1>2. Materializes(m) /\ Trainable(ir, res)
    BY DEF Buildable
  <1>3. /\ ir.document = m.document
        /\ \A n \in Range(m.document.claims) :
             ir.spans[n] = [source |-> m.source, quote |-> m.quotes[n],
                            start |-> CHOOSE x \in Found(m, n) : TRUE]
    BY DEF IR
  <1> HIDE DEF r, m, ir
  <1>4. MadeFrom(r, m, res)
    BY <1>1, <1>2 DEF MadeFrom, ir
  <1>5. SpansHold(r)
    <2> SUFFICES ASSUME NEW n \in Range(m.document.claims)
                 PROVE  LET span == ir.spans[n]
                        IN  /\ span.source = m.source
                            /\ span.start \in DOMAIN m.text
                            /\ span.quote \notin Spaces
                            /\ m.text[span.start] = span.quote
      BY <1>1, <1>3 DEF SpansHold
    <2>1. m.quotes[n] \notin Spaces /\ Cardinality(Found(m, n)) = 1
      BY <1>2 DEF Materializes
    <2>2. Found(m, n) # {}
      <3>1. Cardinality({}) = 0
        BY FS_EmptySet
      <3> QED BY <2>1, <3>1
    <2> DEFINE x == CHOOSE y \in Found(m, n) : TRUE
    <2>3. x \in Found(m, n)
      BY <2>2
    <2>4. ir.spans[n] = [source |-> m.source, quote |-> m.quotes[n], start |-> x]
      BY <1>3
    <2> HIDE DEF x
    <2>5. x \in DOMAIN m.text /\ m.text[x] = m.quotes[n]
      BY <2>3 DEF Found
    <2> QED BY <2>1, <2>4, <2>5
  <1>6. Features(r.ir.document, r.source.text, con.version, res) = r.features
    BY <1>1, <1>3
  <1>7. Trainable(r.ir, res) /\ Target(r.ir, res) = r.target
    BY <1>1, <1>2
  <1>8. RecordHolds(r, con, res)
    BY <1>4, <1>5, <1>6, <1>7 DEF RecordHolds, m
  <1> QED BY <1>8 DEF r, m

\* The reader accepts what a builder has made, if it is within the limits.
LEMMA BuiltAccepted ==
  ASSUME NEW con \in Constructions, NEW res, Buildable(con, res), Canonical(res) = res,
         WithinLimits(Artifacts(con, res))
  PROVE  Accepts(Artifacts(con, res), Selection(Artifacts(con, res)))
  <1> DEFINE files == Artifacts(con, res)
             made == con.records
             all == RecordsOf(files)
             of(i) == Released(made[i], con, res)
  <1>1. Sealed(files, Selection(files)) /\ Inventory(files)
    BY BuiltSealed, BuiltInventory
  <1>2. files.construction = con /\ files.resources = res
    BY BuiltFiles
  <1>3. all = {of(i) : i \in DOMAIN made}
    BY BuiltRecords
  <1>4. \A i : of(i).source.text = made[i].text /\ of(i).split = made[i].split
    BY ReleasedFields
  <1>5. BuildableAs(con, res, made, [i \in DOMAIN made |-> of(i)])
    BY BuildableParts
  <1>6. /\ Provenance(con, res)
        /\ \A i, j \in DOMAIN made :
             Normal(made[i].text) = Normal(made[j].text) => made[i].split = made[j].split
        /\ \A i, j \in DOMAIN made :
             made[i].split = "train" /\ made[j].split \in Evaluation
               => Composition(of(i).features) # Composition(of(j).features)
        /\ Profile(con.version,
                   [s \in Splits |-> Cardinality({i \in DOMAIN made : made[i].split = s})],
                   UNION {of(i).features : i \in DOMAIN made})
    <2> DEFINE released == [i \in DOMAIN made |-> of(i)]
    <2>1. /\ \A i \in DOMAIN made : released[i] = of(i)
          /\ UNION {released[i].features : i \in DOMAIN made} = UNION {of(i).features : i \in DOMAIN made}
      OBVIOUS
    <2> HIDE DEF made, of, released
    <2>2. BuildableAs(con, res, made, released)
      BY <1>5 DEF released
    <2>3. Provenance(con, res)
      BY <2>2 DEF BuildableAs
    <2>4. \A i, j \in DOMAIN made :
            Normal(made[i].text) = Normal(made[j].text) => made[i].split = made[j].split
      BY <2>2 DEF BuildableAs
    <2>5. \A i, j \in DOMAIN made :
            made[i].split = "train" /\ made[j].split \in Evaluation
              => Composition(of(i).features) # Composition(of(j).features)
      BY <2>1, <2>2 DEF BuildableAs
    <2>6. Profile(con.version,
                  [s \in Splits |-> Cardinality({i \in DOMAIN made : made[i].split = s})],
                  UNION {released[i].features : i \in DOMAIN made})
      BY <2>2 DEF BuildableAs
    <2> QED BY <2>1, <2>3, <2>4, <2>5, <2>6
  <1>7. NothingLeaks(files)
    <2> HIDE DEF all, of, made, files
    <2>1. \A q, r \in all :
            Normal(q.source.text) = Normal(r.source.text) => q.split = r.split
      BY <1>3, <1>4, <1>6
    <2>2. \A q, r \in all :
            q.split = "train" /\ r.split \in Evaluation
              => Composition(q.features) # Composition(r.features)
      BY <1>3, <1>4, <1>6
    <2> QED BY <2>1, <2>2 DEF NothingLeaks, all
  <1>8. \A r \in all : RecordHolds(r, con, res)
    BY <1>3, BuiltRecordHolds
  <1>9. Profile(files.manifest.version, files.manifest.counts, UNION {r.features : r \in all})
    <2>1. files.manifest.version = con.version
      BY <1>1, <1>2 DEF Sealed
    <2>2. files.manifest.counts = [s \in Splits |-> Len(files[s])]
      BY <1>1 DEF Inventory
    <2>3. [s \in Splits |-> Len(files[s])]
            = [s \in Splits |-> Cardinality({i \in DOMAIN made : made[i].split = s})]
      <3>1. \A s \in Splits : Len(files[s]) = Cardinality({i \in DOMAIN made : made[i].split = s})
        BY BuiltLines DEF CountOf, PlacesOf
      <3> HIDE DEF files
      <3> QED BY <3>1
    <2>4. UNION {r.features : r \in all} = UNION {of(i).features : i \in DOMAIN made}
      <3> HIDE DEF all, of
      <3> QED BY <1>3
    <2> HIDE DEF files, all, of, made
    <2> QED BY <1>6, <2>1, <2>2, <2>3, <2>4
  <1>10. Accepts(files, Selection(files))
    <2> HIDE DEF files, of, made
    <2> QED BY <1>1, <1>2, <1>6, <1>7, <1>8, <1>9 DEF Accepts
  <1> QED BY <1>10

\* A directory that is what its inputs build is accepted within the limits.
LEMMA VerifiedAccepted ==
  ASSUME ReleaseInv, Verifies(directory), WithinLimits(directory)
  PROVE  Accepts(directory, Selection(directory))
  <1>1. DOMAIN directory = Files
    BY DEF Verifies
  <1> DEFINE con == directory.construction
             res == directory.resources
  <1>2. con \in Constructions
    BY <1>1, CompleteRelease
  <1>3. Buildable(con, res) /\ directory = Artifacts(con, res)
    BY DEF Verifies
  <1>4. Canonical(res) = res
    <2>1. Artifacts(con, res).resources = Canonical(res)
      BY BuiltFiles
    <2> QED BY <1>3, <2>1
  <1> HIDE DEF con, res
  <1>5. WithinLimits(Artifacts(con, res))
    BY <1>3
  <1> QED BY <1>2, <1>3, <1>4, <1>5, BuiltAccepted

\* A build that was alone and that no one has altered is what its inputs build.
LEMMA UndisturbedVerifies ==
  ASSUME ReleaseInv, NEW b \in Builders, builder[b].at = "ended", Alone(b), disturbed = 0
  PROVE  Verifies(directory)
  <1> DEFINE con == builder[b].construction
             res == builder[b].resources
             built == Artifacts(con, res)
  <1>1. /\ con \in Constructions /\ Buildable(con, res)
        /\ \E r \in Resources : res = Canonical(r)
    BY DEF ReleaseInv, BuildersHold
  <1>2. DOMAIN directory = Files /\ \A f \in Files : directory[f] = built[f]
    <2>1. DOMAIN directory = Files
      BY DEF ReleaseInv, LoneBuildHolds
    <2>2. \A f \in DOMAIN directory : directory[f] = Build(b)[f]
      BY DEF ReleaseInv, LoneBuildHolds
    <2> QED BY <2>1, <2>2 DEF Build
  <1>3. /\ built = [f \in Files |-> built[f]]
        /\ built.construction = con /\ built.resources = Canonical(res)
    BY BuiltFiles
  <1>4. directory = built
    <2>1. directory = [f \in Files |-> directory[f]]
      BY <1>2, CompleteRelease
    <2> HIDE DEF built
    <2> QED BY <1>2, <1>3, <2>1
  <1>5. Canonical(res) = res
    BY <1>1, CanonicalAgain DEF Snapshots
  <1>6. directory.construction = con /\ directory.resources = res
    BY <1>3, <1>4, <1>5
  <1> HIDE DEF con, res
  <1> QED BY <1>1, <1>2, <1>4, <1>6 DEF Verifies

\* A release that the builder's verification passes, whose files have one name
\* each and are within the limits, is one the reader accepts under the pin
\* computed from it, and a build that no one has disturbed always verifies: the
\* two sides of the release agree on the records of all inputs.
THEOREM ReaderAcceptsVerified == Spec => []VerifiedIsAccepted
  <1>1. ReleaseInv /\ LinkHolds => VerifiedIsAccepted
    <2> SUFFICES ASSUME ReleaseInv, LinkHolds PROVE VerifiedIsAccepted
      OBVIOUS
    <2>1. ASSUME Verifies(directory), WithinLimits(directory), ~ linked
          PROVE  Reads(directory, Selection(directory))
      BY <2>1, VerifiedAccepted DEF Reads
    <2>2. ASSUME NEW b \in Builders, builder[b].at = "ended", Alone(b), disturbed = 0
          PROVE  Verifies(directory) /\ ~ linked
      BY <2>2, UndisturbedVerifies DEF LinkHolds
    <2> QED BY <2>1, <2>2 DEF VerifiedIsAccepted, Alone
  <1> QED BY <1>1, ReleaseInvariance, LinkInvariance, PTL

-----------------------------------------------------------------------------
(* The records of all splits.                                               *)

\* An element of two sequences is one of the first or one of the second.
LEMMA InJoined ==
  ASSUME NEW s, IsSeq(s), NEW t, IsSeq(t), NEW i \in 1..(Len(s) + Len(t))
  PROVE  \/ i \in 1..Len(s) /\ Joined(s, t)[i] = s[i]
         \/ i \notin 1..Len(s) /\ i - Len(s) \in 1..Len(t) /\ Joined(s, t)[i] = t[i - Len(s)]
  <1> DEFINE m == Len(s)
             n == Len(t)
  <1>1. m \in Nat /\ n \in Nat
    BY LengthOfSeq
  <1>2. /\ \A j \in 1..m : Joined(s, t)[j] = s[j]
        /\ \A j \in 1..n : Joined(s, t)[m + j] = t[j]
    <2>1. \A j \in 1..m : Joined(s, t)[j] = s[j]
      BY ConcatSeq
    <2>2. \A j \in 1..n : Joined(s, t)[m + j] = t[j]
      BY ConcatSeq
    <2> QED BY <2>1, <2>2
  <1> HIDE DEF m, n
  <1>3. i \in 1..(m + n)
    BY DEF m, n
  <1>4. CASE i \in 1..m
    BY <1>2, <1>4 DEF m
  <1>5. CASE i \notin 1..m
    <2>1. i - m \in 1..n /\ m + (i - m) = i
      BY <1>1, <1>3, <1>5
    <2>2. Joined(s, t)[m + (i - m)] = t[i - m]
      BY <1>2, <2>1
    <2> QED BY <1>5, <2>1, <2>2 DEF m, n
  <1> QED BY <1>4, <1>5

\* Each split of all records is the one that was read.
LEMMA SplitsOfAll ==
  ASSUME NEW release, \A s \in Splits : IsSplit(release[s]) /\ LinesHold(release, s)
  PROVE  /\ InSplit(AllRecords(release), "train") = release["train"]
         /\ InSplit(AllRecords(release), "validation") = release["validation"]
  <1> DEFINE T == release["train"]
             V == release["validation"]
             E == release["test"]
             A == release["adversarial"]
             TV == Joined(T, V)
             TVE == Joined(TV, E)
             all == Joined(TVE, A)
             t == Len(T)
             v == Len(V)
             e == Len(E)
             a == Len(A)
  <1>1. /\ IsSeq(T) /\ IsSeq(V) /\ IsSeq(E) /\ IsSeq(A)
        /\ \A i \in DOMAIN T : T[i].split = "train"
        /\ \A i \in DOMAIN V : V[i].split = "validation"
        /\ \A i \in DOMAIN E : E[i].split = "test"
        /\ \A i \in DOMAIN A : A[i].split = "adversarial"
    BY DEF Splits, IsSplit, LinesHold
  <1>2. AllRecords(release) = all
    BY DEF AllRecords, Joined
  <1> HIDE DEF T, V, E, A
  <1>3. /\ t \in Nat /\ DOMAIN T = 1..t /\ v \in Nat /\ DOMAIN V = 1..v
        /\ e \in Nat /\ DOMAIN E = 1..e /\ a \in Nat /\ DOMAIN A = 1..a
    BY <1>1, LengthOfSeq
  <1>4. IsSeq(TV) /\ Len(TV) = t + v
        /\ (\A i \in 1..t : TV[i] = T[i]) /\ (\A i \in 1..v : TV[t + i] = V[i])
    BY <1>1, ConcatSeq
  <1>5. IsSeq(TVE) /\ Len(TVE) = (t + v) + e /\ \A i \in 1..(t + v) : TVE[i] = TV[i]
    <2> HIDE DEF TV, t, v
    <2>1. IsSeq(TVE) /\ Len(TVE) = Len(TV) + e /\ \A i \in 1..Len(TV) : TVE[i] = TV[i]
      <3> HIDE DEF e
      <3>1. IsSeq(TV) /\ IsSeq(E)
        BY <1>1, <1>4
      <3> QED BY <3>1, ConcatSeq DEF e
    <2> QED BY <1>4, <2>1
  <1>6. IsSeq(all) /\ Len(all) = ((t + v) + e) + a /\ \A i \in 1..((t + v) + e) : all[i] = TVE[i]
    <2> HIDE DEF TVE, TV, t, v, e
    <2>1. IsSeq(all) /\ Len(all) = Len(TVE) + a /\ \A i \in 1..Len(TVE) : all[i] = TVE[i]
      <3>1. IsSeq(TVE) /\ IsSeq(A)
        BY <1>1, <1>5
      <3> QED BY <3>1, ConcatSeq
    <2> QED BY <1>5, <2>1
  <1> DEFINE N == ((t + v) + e) + a
  <1>7. ASSUME NEW i \in 1..N
        PROVE  \/ i \in 1..t /\ all[i].split = "train"
               \/ i \in (t + 1)..(t + v) /\ all[i].split = "validation"
               \/ i > t + v /\ all[i].split = "test"
               \/ i > t + v /\ all[i].split = "adversarial"
    <2>1. \/ i \in 1..((t + v) + e) /\ all[i] = TVE[i]
          \/ i \notin 1..((t + v) + e) /\ i - ((t + v) + e) \in 1..a /\ all[i] = A[i - ((t + v) + e)]
      <3> HIDE DEF TVE, TV, t, v, e, a
      <3>1. i \in 1..(Len(TVE) + Len(A))
        BY <1>5 DEF a
      <3>2. \/ i \in 1..Len(TVE) /\ all[i] = TVE[i]
            \/ i \notin 1..Len(TVE) /\ i - Len(TVE) \in 1..Len(A) /\ all[i] = A[i - Len(TVE)]
        BY <1>1, <1>5, <3>1, InJoined
      <3> QED BY <1>5, <3>2 DEF a
    <2>2. CASE i \notin 1..((t + v) + e)
      <3> HIDE DEF TVE, TV, all, t, v, e, a
      <3>1. all[i].split = "adversarial"
        BY <1>1, <1>3, <2>1, <2>2
      <3>2. i > t + v
        BY <1>3, <2>2
      <3> QED BY <3>1, <3>2
    <2>3. CASE i \in 1..((t + v) + e)
      <3>1. \/ i \in 1..(t + v) /\ TVE[i] = TV[i]
            \/ i \notin 1..(t + v) /\ i - (t + v) \in 1..e /\ TVE[i] = E[i - (t + v)]
        <4> HIDE DEF TV, t, v, e
        <4>1. i \in 1..(Len(TV) + Len(E))
          BY <1>4, <2>3 DEF e
        <4>2. \/ i \in 1..Len(TV) /\ TVE[i] = TV[i]
              \/ i \notin 1..Len(TV) /\ i - Len(TV) \in 1..Len(E) /\ TVE[i] = E[i - Len(TV)]
          <5>1. IsSeq(TV) /\ IsSeq(E)
            BY <1>1, <1>4
          <5> QED BY <4>1, <5>1, InJoined
        <4> QED BY <1>4, <4>2 DEF e
      <3>2. CASE i \notin 1..(t + v)
        <4> HIDE DEF TVE, TV, all, t, v, e, a
        <4>1. all[i].split = "test"
          BY <1>1, <1>3, <2>1, <2>3, <3>1, <3>2
        <4>2. i > t + v
          BY <1>3, <2>3, <3>2
        <4> QED BY <4>1, <4>2
      <3>3. CASE i \in 1..(t + v)
        <4>1. \/ i \in 1..t /\ TV[i] = T[i]
              \/ i \notin 1..t /\ i - t \in 1..v /\ TV[i] = V[i - t]
          BY <1>1, <3>3, InJoined
        <4>2. all[i] = TV[i]
          BY <2>1, <2>3, <3>1, <3>3
        <4> HIDE DEF TVE, TV, all, t, v, e, a
        <4>3. CASE i \in 1..t
          BY <1>1, <1>3, <4>1, <4>2, <4>3
        <4>4. CASE i \notin 1..t
          <5>1. all[i].split = "validation"
            BY <1>1, <1>3, <4>1, <4>2, <4>4
          <5>2. i \in (t + 1)..(t + v)
            BY <1>3, <3>3, <4>4
          <5> QED BY <5>1, <5>2
        <4> QED BY <4>3, <4>4
      <3> QED BY <3>2, <3>3
    <2> QED BY <2>2, <2>3
  <1>8. N \in Nat /\ DOMAIN all = 1..N
    <2>1. Len(all) = N /\ DOMAIN all = 1..Len(all)
      <3> HIDE DEF all, t, v, e, a
      <3> QED BY <1>6, LengthOfSeq
    <2>2. N \in Nat
      <3> HIDE DEF t, v, e, a
      <3> QED BY <1>3
    <2> QED BY <2>1, <2>2
  <1>9. /\ \A k \in 1..t : all[0 + k] = T[k]
        /\ \A k \in 1..v : all[t + k] = V[k]
    <2> HIDE DEF TVE, TV, all, t, v, e, a
    <2>1. ASSUME NEW k \in 1..t PROVE all[0 + k] = T[k]
      <3>1. 0 + k = k /\ k \in 1..(t + v) /\ k \in 1..((t + v) + e)
        BY <1>3
      <3> QED BY <1>4, <1>5, <1>6, <3>1
    <2>2. ASSUME NEW k \in 1..v PROVE all[t + k] = V[k]
      <3>1. t + k \in 1..(t + v) /\ t + k \in 1..((t + v) + e)
        BY <1>3
      <3> QED BY <1>4, <1>5, <1>6, <3>1
    <2> QED BY <2>1, <2>2
  <1>10. T = [k \in 1..t |-> T[k]] /\ V = [k \in 1..v |-> V[k]]
    <2>1. T \in Seq(Range(T)) /\ V \in Seq(Range(V))
      BY <1>1 DEF IsSeq
    <2> QED BY <1>3, <2>1
  <1> HIDE DEF all, t, v, e, a
  <1>11. InSplit(all, "train") = [k \in 1..t |-> all[0 + k]]
    <2>1. 0 \in Nat /\ 0 + t <= N
      BY <1>3
    <2>2. Together(all, "train", 0, t)
      <3> SUFFICES ASSUME NEW i \in 1..N
                   PROVE  all[i].split = "train" <=> i \in (0 + 1)..(0 + t)
        BY <1>8 DEF Together
      <3>1. i \in 1..t <=> i \in (0 + 1)..(0 + t)
        BY <1>3
      <3>2. i \in (t + 1)..(t + v) \/ i > t + v => i \notin 1..t
        BY <1>3
      <3> HIDE DEF N
      <3> QED BY <1>7, <3>1, <3>2
    <2> HIDE DEF N
    <2> QED BY <1>3, <1>8, <2>1, <2>2, TogetherInSplit
  <1>12. InSplit(all, "validation") = [k \in 1..v |-> all[t + k]]
    <2>1. t + v <= N
      BY <1>3
    <2>2. Together(all, "validation", t, v)
      <3> SUFFICES ASSUME NEW i \in 1..N
                   PROVE  all[i].split = "validation" <=> i \in (t + 1)..(t + v)
        BY <1>8 DEF Together
      <3>1. i \in 1..t => i \notin (t + 1)..(t + v)
        BY <1>3
      <3>2. i > t + v => i \notin (t + 1)..(t + v)
        BY <1>3
      <3> HIDE DEF N
      <3> QED BY <1>7, <3>1, <3>2
    <2> HIDE DEF N
    <2> QED BY <1>3, <1>8, <2>1, <2>2, TogetherInSplit
  <1> QED BY <1>2, <1>9, <1>10, <1>11, <1>12 DEF T, V

-----------------------------------------------------------------------------
(* What a run reads.                                                        *)

\* A run that has begun has read the release that is in the directory, and
\* nobody writes to it any more.
RunReads ==
  run.at \in {"training", "ended"} =>
    /\ run.arch \in Architectures
    /\ {run.config.steps, run.config.accumulation, run.config.size} \subseteq Nat \ {0}
    /\ DOMAIN directory = Files
    /\ \A b \in Builders : builder[b].at # "writing"
    /\ ~ linked
    /\ Accepts(directory, Selection(directory))
    /\ Prepared(run.arch, directory)
    /\ run.release = [f \in Splits \union {"manifest"} |-> directory[f]]
    /\ run.config.corpus = Selection(directory)

\* The only one that has started is alone.
LEMMA OneStarted ==
  ASSUME ReleaseInv, Cardinality(Started) = 1, NEW b \in Builders, builder[b].at # "idle"
  PROVE  Alone(b)
  <1>1. IsFiniteSet(Started)
    <2>1. Started \subseteq Builders
      BY DEF Started
    <2> QED BY <2>1, BuildersAssumption, FS_Subset
  <1>2. PICK x : Started = {x}
    BY <1>1, FS_Singleton
  <1> QED BY <1>2 DEF Started, Alone

\* A complete release of one builder is not being written.
LEMMA CompleteIsWritten ==
  ASSUME ReleaseInv, Cardinality(Started) = 1, DOMAIN directory = Files, NEW b \in Builders
  PROVE  builder[b].at # "writing"
  <1> SUFFICES ASSUME builder[b].at = "writing" PROVE FALSE
    OBVIOUS
  <1>1. Alone(b)
    BY OneStarted
  <1>2. DOMAIN directory = {FileOrder[i] : i \in 1..builder[b].written}
    BY <1>1 DEF ReleaseInv, LoneBuildHolds
  <1>3. builder[b].written \in 0..8
    BY DEF ReleaseInv, BuildersHold
  <1>4. "checksums" \in Files
    BY FilesAre
  <1>5. PICK i \in 1..8 : FileOrder[i] = "checksums"
    <2>1. PICK i \in 1..builder[b].written : FileOrder[i] = "checksums"
      BY <1>2, <1>4
    <2>2. i \in 1..8
      BY <1>3
    <2> QED BY <2>1, <2>2
  <1>6. i = 1 \/ i = 2 \/ i = 3 \/ i = 4 \/ i = 5 \/ i = 6 \/ i = 7 \/ i = 8
    OBVIOUS
  <1>7. /\ FileOrder[1] # "checksums" /\ FileOrder[2] # "checksums" /\ FileOrder[3] # "checksums"
        /\ FileOrder[4] # "checksums" /\ FileOrder[5] # "checksums" /\ FileOrder[6] # "checksums"
        /\ FileOrder[7] # "checksums" /\ FileOrder[8] # "checksums"
    BY DEF FileOrder
  <1> QED BY <1>5, <1>6, <1>7

\* Nothing is built where a run has read.
LEMMA NothingBuilt ==
  ASSUME RunReads, run.at \in {"training", "ended"}, Building
  PROVE  FALSE
  <1>1. DOMAIN directory = Files /\ \A b \in Builders : builder[b].at # "writing"
    BY DEF RunReads
  <1>2. directory # Nothing
    <2>1. DOMAIN Nothing = {}
      BY DEF Nothing
    <2> QED BY <1>1, <2>1, FilesAre
  <1> QED BY <1>1, <1>2 DEF Building, CheckEmpty, WriteNext, StopWriting

\* Nothing a run has read changes while it lasts, or after it.
LEMMA Unchanged ==
  ASSUME RunReads, run.at \in {"training", "ended"}, [Next]_vars
  PROVE  directory' = directory /\ builder' = builder /\ linked' = linked
  <1>1. CASE Building /\ UNCHANGED run
    BY <1>1, NothingBuilt
  <1>2. CASE run.at = "idle" /\ Disturbing /\ UNCHANGED run
    BY <1>2
  <1>3. CASE Running /\ UNCHANGED <<directory, linked, builder, disturbed>>
    BY <1>3
  <1>4. CASE UNCHANGED vars
    BY <1>4 DEF vars
  <1> QED BY <1>1, <1>2, <1>3, <1>4 DEF Next

\* The steps of a run, and what they keep of what it has read.
LEMMA RunningKeeps ==
  ASSUME Running, run.at \in {"training", "ended"}, run'.at \in {"training", "ended"},
         run.at = "training" => DOMAIN run = Fields
  PROVE  /\ run.at = "training"
         /\ run'.arch = run.arch /\ run'.config = run.config /\ run'.release = run.release
  <1>1. CASE \E arch \in Architectures, schedule \in Schedules : StartRun(arch, schedule)
    BY <1>1 DEF StartRun
  <1>2. CASE TakeRecord
    <2>1. PICK shuffles, position, batch :
            run' = [run EXCEPT !.shuffles = shuffles, !.position = position, !.batch = batch]
      BY <1>2 DEF TakeRecord
    <2> QED BY <1>2, <2>1 DEF TakeRecord, Training, Fields
  <1>3. CASE MicroStep
    BY <1>3 DEF MicroStep, Training, Fields
  <1>4. CASE LossNotFinite
    BY <1>4 DEF LossNotFinite
  <1>5. CASE OptimizerStep
    BY <1>5 DEF OptimizerStep, Training, Fields
  <1>6. CASE AdapterRefused
    BY <1>6 DEF AdapterRefused
  <1>7. CASE RecordRun
    BY <1>7 DEF RecordRun, Trained, Training
  <1> QED BY <1>1, <1>2, <1>3, <1>4, <1>5, <1>6, <1>7 DEF Running

\* A run starts on an accepted release.
LEMMA StartReads ==
  ASSUME ReleaseInv, NEW arch \in Architectures, NEW schedule \in Schedules,
         StartRun(arch, schedule), directory' = directory, builder' = builder, linked' = linked
  PROVE  RunReads'
  <1>1. /\ Cardinality(Started) = 1 /\ DOMAIN directory = Files
        /\ ~ linked
        /\ Accepts(directory, Selection(directory))
        /\ Prepared(arch, directory)
        /\ run'.arch = arch
        /\ run'.release = [f \in Splits \union {"manifest"} |-> directory[f]]
        /\ run'.config.corpus = Selection(directory)
        /\ run'.config.steps = schedule.steps
        /\ run'.config.accumulation = schedule.accumulation
        /\ run'.config.size = schedule.size
    BY DEF StartRun, Reads
  <1>2. \A b \in Builders : builder[b].at # "writing"
    BY <1>1, CompleteIsWritten
  <1>3. {schedule.steps, schedule.accumulation, schedule.size} \subseteq Nat \ {0}
    BY SchedulesAssumption
  <1>4. Accepts(directory, Selection(directory))' /\ Selection(directory)' = Selection(directory)
        /\ Prepared(arch, directory)'
    BY <1>1 DEF Accepts, Sealed, Inventory, Listed
  <1> QED BY <1>1, <1>2, <1>3, <1>4 DEF RunReads

\* A run has read what is still there, at every step.
LEMMA RunReadsHolds ==
  ASSUME ReleaseInv, RunInv, RunReads, [Next]_vars
  PROVE  RunReads'
  <1> SUFFICES ASSUME run'.at \in {"training", "ended"} PROVE RunReads'
    BY DEF RunReads
  <1>1. ASSUME NEW arch \in Architectures, NEW schedule \in Schedules, StartRun(arch, schedule),
               UNCHANGED <<directory, linked, builder, disturbed>>
        PROVE  RunReads'
    BY <1>1, StartReads
  <1>2. ASSUME run.at \in {"training", "ended"}, run'.arch = run.arch, run'.config = run.config,
               run'.release = run.release
        PROVE  RunReads'
    <2>1. directory' = directory /\ builder' = builder /\ linked' = linked
      BY <1>2, Unchanged
    <2> QED BY <1>2, <2>1 DEF RunReads
  <1>3. ASSUME run' = run PROVE RunReads'
    BY <1>2, <1>3
  <1>4. CASE Running /\ UNCHANGED <<directory, linked, builder, disturbed>>
    <2>1. CASE \E arch \in Architectures, schedule \in Schedules : StartRun(arch, schedule)
      BY <1>1, <1>4, <2>1
    <2>2. CASE ~ \E arch \in Architectures, schedule \in Schedules : StartRun(arch, schedule)
      <3>1. run.at \in {"training", "ended"}
        BY <1>4, <2>2 DEF Running, TakeRecord, MicroStep, LossNotFinite, OptimizerStep,
                          AdapterRefused, RecordRun, Trained, Training
      <3>2. run.at = "training" => DOMAIN run = Fields
        BY DEF RunInv, Typed
      <3>3. run'.arch = run.arch /\ run'.config = run.config /\ run'.release = run.release
        BY <1>4, <3>1, <3>2, RunningKeeps
      <3> QED BY <1>2, <3>1, <3>3
    <2> QED BY <2>1, <2>2
  <1>5. CASE UNCHANGED run
    BY <1>3, <1>5
  <1> QED BY <1>4, <1>5 DEF Next, vars

\* The invariants of the release and of the run, together.
LEMMA Reading == Spec => [](ReleaseInv /\ RunInv /\ RunReads)
  <1>1. Init => RunReads
    BY DEF Init, RunInit, RunReads
  <1>2. ReleaseInv /\ RunInv /\ RunReads /\ [Next]_vars => RunReads'
    BY RunReadsHolds
  <1> QED BY <1>1, <1>2, Invariance, ReleaseInvariance, PTL DEF Spec

-----------------------------------------------------------------------------
\* What the steps of a run may use of the release it has read.
LEMMA WhatIsRead ==
  ASSUME ReleaseInv, RunReads, run.at \in {"training", "ended"}
  PROVE  /\ OfSplit(run.arch, run.release, "train") = directory["train"]
         /\ OfSplit(run.arch, run.release, "validation") = directory["validation"]
         /\ AllRecords(run.release) = AllRecords(directory)
         /\ run.release.manifest = directory.manifest
         /\ \A s \in Splits : /\ run.release[s] = directory[s]
                              /\ IsSplit(directory[s])
                              /\ Len(directory[s]) \in Nat \ {0}
                              /\ DOMAIN directory[s] = 1..Len(directory[s])
  <1>1. /\ DOMAIN directory = Files
        /\ Accepts(directory, Selection(directory))
        /\ run.release = [f \in Splits \union {"manifest"} |-> directory[f]]
    BY DEF RunReads
  <1>2. Complete(directory)
    BY <1>1, CompleteRelease DEF Complete
  <1>3. \A s \in Splits : /\ run.release[s] = directory[s]
                          /\ IsSplit(directory[s])
                          /\ Len(directory[s]) \in Nat \ {0}
                          /\ DOMAIN directory[s] = 1..Len(directory[s])
    BY <1>1, <1>2, AcceptedCounts DEF Complete
  <1>4. run.release.manifest = directory.manifest
    BY <1>1
  <1>5. AllRecords(run.release) = AllRecords(directory)
    BY <1>3 DEF AllRecords, Splits
  <1>6. \A s \in Splits : LinesHold(directory, s)
    BY <1>1 DEF Accepts, Inventory
  <1>7. /\ InSplit(AllRecords(directory), "train") = directory["train"]
        /\ InSplit(AllRecords(directory), "validation") = directory["validation"]
    BY <1>3, <1>6, SplitsOfAll
  <1>8. /\ OfSplit(run.arch, run.release, "train") = directory["train"]
        /\ OfSplit(run.arch, run.release, "validation") = directory["validation"]
    BY <1>3, <1>5, <1>7 DEF OfSplit, Splits
  <1> QED BY <1>3, <1>4, <1>5, <1>8

\* The train records that are read: those of the construction, each once.
LEMMA TrainRead ==
  ASSUME ReleaseInv, RunReads, run.at \in {"training", "ended"}
  PROVE  LET records == directory["train"]
             n == Len(records)
             made == run.release.manifest.construction.records
         IN  /\ run.release.manifest.counts["train"] = n
             /\ \A i, j \in 1..n : records[i].id = records[j].id => i = j
             /\ \A k \in 1..n : \E i \in DOMAIN made :
                  made[i].id = records[k].id /\ made[i].split = "train"
  <1> DEFINE records == directory["train"]
             n == Len(records)
             made == directory.construction.records
  <1>1. /\ DOMAIN directory = Files
        /\ Accepts(directory, Selection(directory))
        /\ run.release.manifest = directory.manifest
        /\ n \in Nat /\ DOMAIN records = 1..n
    BY WhatIsRead DEF RunReads, Splits
  <1>2. Complete(directory)
    BY <1>1, CompleteRelease DEF Complete
  <1>3. directory.manifest.construction = directory.construction
    <2>1. "construction" \in Data
      BY DataAre
    <2> QED BY <1>1, <2>1 DEF Accepts, Sealed
  <1>4. directory.manifest.counts["train"] = n
    BY <1>1 DEF Accepts, Inventory, Splits
  <1>5. "train" \in Splits
    BY DEF Splits
  <1> HIDE DEF n
  <1>6. \A i, j \in 1..n : records[i].id = records[j].id => i = j
    <2> SUFFICES ASSUME NEW i \in 1..n, NEW j \in 1..n, records[i].id = records[j].id PROVE i = j
      OBVIOUS
    <2>1. /\ <<"train", i>> \in Places(directory) /\ <<"train", j>> \in Places(directory)
          /\ At(directory, <<"train", i>>).id = At(directory, <<"train", j>>).id
      BY <1>1, <1>5, RecordAt
    <2>2. \A p, q \in Places(directory) : At(directory, p).id = At(directory, q).id => p = q
      BY <1>1 DEF Accepts, Inventory
    <2>3. <<"train", i>> = <<"train", j>>
      BY <2>1, <2>2
    <2> QED BY <2>3
  <1>7. \A k \in 1..n : \E i \in DOMAIN made : made[i].id = records[k].id /\ made[i].split = "train"
    <2> TAKE k \in 1..n
    <2>1. records[k] \in RecordsOf(directory)
      BY <1>1, <1>5, RecordAt
    <2>2. records[k].split = "train"
      BY <1>1, <1>5 DEF Accepts, Inventory, LinesHold
    <2>3. PICK i \in DOMAIN made : made[i].id = records[k].id /\ made[i].split = records[k].split
      BY <1>1, <1>2, <2>1, AcceptedRecord
    <2> QED BY <2>2, <2>3
  <1> QED BY <1>1, <1>3, <1>4, <1>6, <1>7 DEF n

-----------------------------------------------------------------------------
(* The passes over the train split.                                         *)

\* Each pass goes through all the records of the train split.
Shuffled ==
  \A i \in 1..Len(run.shuffles) :
    run.shuffles[i] \in Shuffles(Len(OfSplit(run.arch, run.release, "train")))

\* The passes of a run, while it lasts and once it has ended.
PassInv ==
  /\ run.at = "training" => Shuffled
  /\ PassesAreTheTrainSplit

\* Where the i-th record of a pass is.
LEMMA InPass ==
  ASSUME NEW n \in Nat \ {0}, NEW p \in Nat, NEW i \in 1..n, NEW L \in Nat, p * n + i <= L * n
  PROVE  /\ ((p * n + i) - 1) \div n = p
         /\ ((p * n + i) - 1) % n = i - 1
         /\ p + 1 \in 1..L
         /\ p * n + i \in Nat \ {0}
  <1> DEFINE a == p * n
  <1>1. a \in Nat
    OBVIOUS
  <1>2. (a + i) - 1 = a + (i - 1) /\ i - 1 \in 0..(n - 1) /\ a + (i - 1) \in Nat /\ a + i \in Nat \ {0}
    <2> HIDE DEF a
    <2> QED BY <1>1
  <1>3. (a + (i - 1)) \div n = p /\ (a + (i - 1)) % n = i - 1
    BY <1>2, Division
  <1>4. a + (i - 1) < L * n
    <2>1. L * n \in Nat
      OBVIOUS
    <2>2. a + i <= L * n
      OBVIOUS
    <2> HIDE DEF a
    <2> QED BY <1>1, <2>1, <2>2
  <1>5. (a + (i - 1)) \div n \in 0..(L - 1)
    <2> HIDE DEF a
    <2> QED BY <1>2, <1>4, EarlierPass
  <1>6. p + 1 \in 1..L
    <2> HIDE DEF a
    <2> QED BY <1>3, <1>5
  <1> HIDE DEF a
  <1>7. ((a + i) - 1) \div n = p /\ ((a + i) - 1) % n = i - 1
    BY <1>2, <1>3
  <1> QED BY <1>2, <1>6, <1>7 DEF a

\* Each record has an id of its own; the first ids of an order are drawn from
\* the first passes; no pass has an id twice.
OwnIds(records, n) == \A i, j \in 1..n : records[i].id = records[j].id => i = j
\* An order of a given length is drawn from whole passes.
DrawnFrom(records, n, shuffles, passes, order, length) ==
  /\ passes \in Nat /\ length \in Nat /\ length <= passes * n
  /\ \A q \in 1..passes : shuffles[q] \in Shuffles(n)
  /\ \A k \in 1..length : order[k] = Drawn(records, shuffles, k)
\* No record is twice in one pass of an order.
NoneTwice(order, length, n) ==
  \A p \in 0..length, i, j \in 1..n :
    p * n + i <= length /\ p * n + j <= length /\ order[p * n + i] = order[p * n + j] => i = j

\* A stream of shuffled passes, cut anywhere.
LEMMA StreamOfPasses ==
  ASSUME NEW records, NEW n \in Nat \ {0}, Len(records) = n, OwnIds(records, n),
         NEW shuffles, NEW L, NEW order, NEW length,
         DrawnFrom(records, n, shuffles, L, order, length)
  PROVE  /\ NoneTwice(order, length, n)
         /\ \A k \in 1..length : \E m \in 1..n : order[k] = records[m].id
  <1>0. /\ L \in Nat /\ length \in Nat /\ length <= L * n
        /\ \A i, j \in 1..n : records[i].id = records[j].id => i = j
        /\ \A q \in 1..L : shuffles[q] \in Shuffles(n)
        /\ \A k \in 1..length : order[k] = Drawn(records, shuffles, k)
    BY DEF OwnIds, DrawnFrom
  <1>1. \A q \in 1..L : \A i \in 1..n : shuffles[q][i] \in 1..n
    BY <1>0 DEF Shuffles
  <1>2. \A q \in 1..L : \A i, j \in 1..n : shuffles[q][i] = shuffles[q][j] => i = j
    <2> TAKE q \in 1..L
    <2>1. shuffles[q] \in [1..n -> 1..n] /\ IsInjective(shuffles[q])
      BY <1>0 DEF Shuffles
    <2> QED BY <2>1 DEF IsInjective
  <1>3. ASSUME NEW p \in Nat, NEW i \in 1..n, p * n + i <= length
        PROVE  p + 1 \in 1..L /\ order[p * n + i] = records[shuffles[p + 1][i]].id
    <2>1. p * n \in Nat /\ L * n \in Nat
      BY <1>0
    <2>2. p * n + i <= L * n
      <3> DEFINE ln == L * n
                 pn == p * n
      <3> HIDE DEF ln, pn
      <3>1. length <= ln /\ pn + i <= length /\ ln \in Nat /\ pn \in Nat /\ length \in Nat
        BY <1>0, <1>3, <2>1 DEF ln, pn
      <3>2. pn + i <= ln
        BY <3>1
      <3> QED BY <3>2 DEF ln, pn
    <2>3. /\ ((p * n + i) - 1) \div n = p /\ ((p * n + i) - 1) % n = i - 1
          /\ p + 1 \in 1..L /\ p * n + i \in Nat \ {0}
      BY <1>0, <2>2, InPass
    <2> DEFINE k == p * n + i
    <2>4. k \in 1..length
      <3>1. k \in Nat \ {0} /\ k <= length
        BY <1>3, <2>3
      <3> HIDE DEF k
      <3> QED BY <1>0, <3>1
    <2>5. order[k] = records[shuffles[((k - 1) \div n) + 1][((k - 1) % n) + 1]].id
      <3> HIDE DEF k
      <3> QED BY <1>0, <2>4 DEF Drawn
    <2>6. (k - 1) \div n = p /\ (k - 1) % n = i - 1 /\ (i - 1) + 1 = i
      BY <2>3
    <2> HIDE DEF k
    <2>7. order[k] = records[shuffles[p + 1][i]].id
      BY <2>5, <2>6
    <2> QED BY <2>3, <2>7 DEF k
  <1>4. ASSUME NEW p \in 0..length, NEW i \in 1..n, NEW j \in 1..n,
               p * n + i <= length, p * n + j <= length, order[p * n + i] = order[p * n + j]
        PROVE  i = j
    <2>1. p \in Nat
      BY <1>0
    <2>2. p + 1 \in 1..L /\ order[p * n + i] = records[shuffles[p + 1][i]].id
      BY <1>3, <1>4, <2>1
    <2>3. order[p * n + j] = records[shuffles[p + 1][j]].id
      BY <1>3, <1>4, <2>1
    <2> DEFINE q == p + 1
    <2>4. q \in 1..L /\ records[shuffles[q][i]].id = records[shuffles[q][j]].id
      BY <1>4, <2>2, <2>3
    <2> HIDE DEF q
    <2>5. shuffles[q][i] = shuffles[q][j]
      BY <1>0, <1>1, <2>4
    <2> QED BY <1>0, <1>1, <1>2, <2>4, <2>5
  <1>5. ASSUME NEW k \in 1..length PROVE \E m \in 1..n : order[k] = records[m].id
    <2> DEFINE q == (k - 1) \div n
               r == (k - 1) % n
    <2>1. k - 1 \in Nat /\ k - 1 < L * n
      <3>1. L * n \in Nat
        BY <1>0
      <3> QED BY <1>0, <3>1
    <2>2. q \in 0..(L - 1) /\ r \in 0..(n - 1)
      BY <1>0, <2>1, EarlierPass
    <2>3. order[k] = records[shuffles[q + 1][r + 1]].id
      BY <1>0 DEF Drawn
    <2> HIDE DEF q, r
    <2>4. q + 1 \in 1..L /\ r + 1 \in 1..n
      BY <1>0, <2>2
    <2> QED BY <1>1, <2>3, <2>4
  <1> QED BY <1>4, <1>5 DEF NoneTwice

\* Only an ended run has recorded its passes.
LEMMA NoPasses ==
  ASSUME run.at # "ended" PROVE PassesAreTheTrainSplit
  BY DEF PassesAreTheTrainSplit

\* Each shuffle is one of the split that was read.
LEMMA TakeShuffles ==
  ASSUME TakeRecord, Typed, Shuffled, OfSplit(run.arch, run.release, "train") # <<>>
  PROVE  Shuffled' /\ run'.at = "training"
  <1> DEFINE records == OfSplit(run.arch, run.release, "train")
             n == Len(records)
             ended == run.position % n = 0
  <1>1. PICK p, position, batch :
          /\ ended => p \in Shuffles(n)
          /\ run' = [run EXCEPT !.shuffles = IF ended THEN Append(@, p) ELSE @,
                                !.position = position,
                                !.batch = batch]
    BY DEF TakeRecord
  <1>2. /\ run'.shuffles = IF ended THEN Append(run.shuffles, p) ELSE run.shuffles
        /\ run'.at = run.at /\ run'.arch = run.arch /\ run'.release = run.release
    BY <1>1 DEF Typed, Fields
  <1>3. run.at = "training"
    BY DEF TakeRecord, Training
  <1>4. OfSplit(run.arch, run.release, "train")' = records
    BY <1>2
  <1>5. \A i \in 1..Len(run.shuffles) : run.shuffles[i] \in Shuffles(n)
    BY DEF Shuffled
  <1> HIDE DEF records, n
  <1>6. \A i \in 1..Len(run'.shuffles) : run'.shuffles[i] \in Shuffles(n)
    <2>1. CASE ended
      <3>1. /\ Len(run'.shuffles) = Len(run.shuffles) + 1
            /\ \A i \in 1..Len(run.shuffles) : run'.shuffles[i] = run.shuffles[i]
            /\ run'.shuffles[Len(run.shuffles) + 1] = p
        BY <1>2, <2>1, AppendSeq DEF Typed
      <3>2. Len(run.shuffles) \in Nat
        BY LengthOfSeq DEF Typed
      <3>3. \A i \in 1..(Len(run.shuffles) + 1) : i \in 1..Len(run.shuffles) \/ i = Len(run.shuffles) + 1
        <4> DEFINE m == Len(run.shuffles)
        <4> HIDE DEF m
        <4>1. \A i \in 1..(m + 1) : i \in 1..m \/ i = m + 1
          BY <3>2 DEF m
        <4> QED BY <4>1 DEF m
      <3> QED BY <1>1, <1>5, <2>1, <3>1, <3>3
    <2>2. CASE ~ ended
      BY <1>2, <1>5, <2>2
    <2> QED BY <2>1, <2>2
  <1> QED BY <1>2, <1>3, <1>4, <1>6 DEF Shuffled, n

\* What a run records at its end are passes over the train split.
LEMMA EndPasses ==
  ASSUME RecordRun, ReleaseInv, RunReads, Typed, Streamed, Shuffled, run.at = "training"
  PROVE  PassesAreTheTrainSplit'
  <1> DEFINE records == directory["train"]
             n == Len(records)
             L == Len(run.shuffles)
             length == Len(run.order)
             manifest == run.release.manifest
             made == manifest.construction.records
  <1>1. /\ run'.bundle["run-manifest"].order = run.order
        /\ run'.bundle["run-manifest"].corpus = manifest
    <2>1. run'.bundle = Bundle(run.arch, run)
      BY DEF RecordRun
    <2>2. run'.bundle["run-manifest"] = RunManifest(run.arch, run)
      BY <2>1, ManifestInBundle
    <2> QED BY <2>2 DEF RunManifest
  <1>2. /\ n \in Nat \ {0}
        /\ OfSplit(run.arch, run.release, "train") = records
    BY WhatIsRead DEF Splits
  <1>3. /\ manifest.counts["train"] = n
        /\ \A i, j \in 1..n : records[i].id = records[j].id => i = j
        /\ \A k \in 1..n : \E i \in DOMAIN made : made[i].id = records[k].id /\ made[i].split = "train"
    BY TrainRead
  <1>4. L \in Nat /\ length \in Nat /\ Len(run.batch) \in Nat /\ run.position \in Nat
    BY LengthOfSeq DEF Typed
  <1>5. \A q \in 1..L : run.shuffles[q] \in Shuffles(n)
    BY <1>2 DEF Shuffled
  <1> DEFINE taken == length + Len(run.batch)
  <1>6. /\ \/ taken = 0 /\ L = 0 /\ run.position = 0
           \/ run.position \in 1..n /\ L > 0 /\ taken = (L - 1) * n + run.position
        /\ \A k \in 1..length : run.order[k] = Drawn(records, run.shuffles, k)
    BY <1>2 DEF Streamed
  <1>7. length <= L * n
    <2>1. taken \in Nat /\ length <= taken
      <3> HIDE DEF length
      <3> QED BY <1>4
    <2> HIDE DEF taken, length, n, L
    <2>2. taken <= L * n
      BY <1>2, <1>4, <1>6, <2>1, Place
    <2>3. L * n \in Nat
      BY <1>2, <1>4
    <2> QED BY <1>4, <2>1, <2>2, <2>3
  <1> HIDE DEF records, L, length, taken
  <1>8. /\ NoneTwice(run.order, length, n)
        /\ \A k \in 1..length : \E m \in 1..n : run.order[k] = records[m].id
    <2>1. Len(records) = n
      BY DEF records
    <2>2. OwnIds(records, n)
      BY <1>3 DEF records, OwnIds
    <2>3. DrawnFrom(records, n, run.shuffles, L, run.order, length)
      <3> HIDE DEF n
      <3> QED BY <1>4, <1>5, <1>6, <1>7 DEF DrawnFrom
    <2> HIDE DEF n
    <2> QED BY <1>2, <2>1, <2>2, <2>3, StreamOfPasses
  <1>9. \A k \in 1..length : \E i \in DOMAIN made : made[i].id = run.order[k] /\ made[i].split = "train"
    <2> TAKE k \in 1..length
    <2>1. PICK m \in 1..n : run.order[k] = records[m].id
      BY <1>8
    <2>2. PICK i \in DOMAIN made : made[i].id = records[m].id /\ made[i].split = "train"
      BY <1>3
    <2> QED BY <2>1, <2>2
  <1> HIDE DEF n, made, manifest
  <1> QED BY <1>1, <1>3, <1>8, <1>9 DEF PassesAreTheTrainSplit, NoneTwice, length, made

\* Every order a manifest records consists of passes over the train split of the
\* release that was read, each record once in a pass and none of another split,
\* whatever the schedule and wherever the last pass is cut off.
THEOREM PassesOfTheTrainSplit == Spec => []PassInv
  <1>1. Init => PassInv
    BY NoPasses DEF Init, RunInit, PassInv
  <1>2. ReleaseInv /\ RunInv /\ RunReads /\ PassInv /\ [Next]_vars => PassInv'
    <2> SUFFICES ASSUME ReleaseInv, RunInv, RunReads, PassInv, [Next]_vars PROVE PassInv'
      OBVIOUS
    <2>1. ASSUME Shuffled', run'.at = "training" PROVE PassInv'
      BY <2>1 DEF PassInv, PassesAreTheTrainSplit
    <2>2. ASSUME run'.at = "failed" PROVE PassInv'
      BY <2>2 DEF PassInv, PassesAreTheTrainSplit
    <2>3. ASSUME run' = run PROVE PassInv'
      <3>1. run.at = "training" => Shuffled
        BY DEF PassInv
      <3>2. Shuffled => Shuffled'
        BY <2>3 DEF Shuffled
      <3>3. PassesAreTheTrainSplit => PassesAreTheTrainSplit'
        BY <2>3 DEF PassesAreTheTrainSplit
      <3> QED BY <2>3, <3>1, <3>2, <3>3 DEF PassInv
    <2>4. run.at = "training" => Typed /\ Streamed /\ Shuffled
      BY DEF RunInv, PassInv
    <2>5. CASE \E arch \in Architectures, schedule \in Schedules : StartRun(arch, schedule)
      <3>1. run'.at = "training" /\ run'.shuffles = <<>>
        BY <2>5 DEF StartRun
      <3>2. Shuffled'
        BY <3>1 DEF Shuffled
      <3> QED BY <2>1, <3>1, <3>2
    <2>6. CASE TakeRecord
      <3>1. run.at = "training"
        BY <2>6 DEF TakeRecord, Training
      <3>2. OfSplit(run.arch, run.release, "train") # <<>>
        <4>1. /\ OfSplit(run.arch, run.release, "train") = directory["train"]
              /\ Len(directory["train"]) \in Nat \ {0}
          BY <3>1, WhatIsRead DEF Splits
        <4> QED BY <4>1
      <3> QED BY <2>1, <2>4, <2>6, <3>1, <3>2, TakeShuffles
    <2>7. CASE MicroStep
      <3>1. run.at = "training" /\ DOMAIN run = Fields
        BY <2>4, <2>7 DEF MicroStep, Training, Typed
      <3>2. run'.at = "training" /\ run'.shuffles = run.shuffles /\ run'.arch = run.arch
            /\ run'.release = run.release
        BY <2>7, <3>1 DEF MicroStep, Fields
      <3>3. Shuffled'
        BY <2>4, <3>1, <3>2 DEF Shuffled
      <3> QED BY <2>1, <3>2, <3>3
    <2>8. CASE OptimizerStep
      <3>1. run.at = "training" /\ DOMAIN run = Fields
        BY <2>4, <2>8 DEF OptimizerStep, Training, Typed
      <3>2. run'.at = "training" /\ run'.shuffles = run.shuffles /\ run'.arch = run.arch
            /\ run'.release = run.release
        BY <2>8, <3>1 DEF OptimizerStep, Fields
      <3>3. Shuffled'
        BY <2>4, <3>1, <3>2 DEF Shuffled
      <3> QED BY <2>1, <3>2, <3>3
    <2>9. CASE LossNotFinite \/ AdapterRefused
      BY <2>2, <2>9 DEF LossNotFinite, AdapterRefused
    <2>10. CASE RecordRun
      <3>1. run.at = "training" /\ run'.at = "ended"
        BY <2>10 DEF RecordRun, Trained, Training
      <3>2. PassesAreTheTrainSplit'
        BY <2>4, <2>10, <3>1, EndPasses
      <3> QED BY <3>1, <3>2 DEF PassInv
    <2>11. CASE UNCHANGED run
      BY <2>3, <2>11
    <2> QED BY <2>5, <2>6, <2>7, <2>8, <2>9, <2>10, <2>11 DEF Next, Running, vars
  <1> QED BY <1>1, <1>2, Reading, PTL DEF Spec

\* What the run manifest says was trained on is what was: the batches that the
\* optimizer was given, in order, drawn from the seed, from the train split only.
THEOREM TrainedIsRecorded == Spec => []TrainedAsRecorded
  <1>1. RunInv /\ PassInv => TrainedAsRecorded
    BY DEF RunInv, PassInv, TrainedAsRecorded
  <1> QED BY <1>1, Invariance, PassesOfTheTrainSplit, PTL

-----------------------------------------------------------------------------
(* The files of a bundle.                                                   *)

\* What a trainer writes before its manifests.
LEMMA OutputFiles ==
  ASSUME NEW arch \in Architectures, NEW state
  PROVE  LET outputs == Outputs(arch, state)
         IN  /\ arch = "encoder" => DOMAIN outputs = {"weights", "config", "metrics"}
             /\ arch = "decoder" => DOMAIN outputs = {"weights", "config"}
             /\ outputs = [f \in DOMAIN outputs |-> outputs[f]]
             /\ outputs["weights"].learnt = state.seen
             /\ outputs["config"] = state.config
             /\ arch = "encoder" => outputs["metrics"]
                  = Validation(arch, state.seen, state.release, state.config.size)
  BY DEF Outputs, Architectures

\* What is in a bundle, and what its manifest says of it.
LEMMA BundleFiles ==
  ASSUME NEW arch \in Architectures, NEW state
  PROVE  LET bundle == Bundle(arch, state)
             outputs == Outputs(arch, state)
         IN  /\ arch = "encoder" =>
                  DOMAIN bundle = {"weights", "config", "metrics", "run-manifest", "artifact-manifest"}
             /\ arch = "decoder" =>
                  DOMAIN bundle = {"weights", "config", "run-manifest", "checksums", "artifact-manifest"}
             /\ \A f \in DOMAIN outputs : bundle[f] = outputs[f]
             /\ bundle["run-manifest"] = RunManifest(arch, state)
             /\ arch = "decoder" => bundle["checksums"] = Listing(bundle)
             /\ bundle["artifact-manifest"] =
                  [arch |-> arch, run |-> RunManifest(arch, state),
                   files |-> [f \in DOMAIN bundle \ {"artifact-manifest"} |-> bundle[f]]]
  <1> DEFINE outputs == Outputs(arch, state)
             recorded == With(outputs, "run-manifest", RunManifest(arch, state))
             listed == IF arch = "decoder" THEN With(recorded, "checksums", Listing(recorded))
                       ELSE recorded
             bundle == With(listed, "artifact-manifest", ArtifactManifest(arch, listed))
             RM == RunManifest(arch, state)
  <1>1. Bundle(arch, state) = bundle
    BY DEF Bundle
  <1>2. /\ arch = "encoder" => DOMAIN outputs = {"weights", "config", "metrics"}
        /\ arch = "decoder" => DOMAIN outputs = {"weights", "config"}
    BY OutputFiles
  <1>3. arch = "encoder" \/ arch = "decoder"
    BY DEF Architectures
  <1> HIDE DEF outputs, RM
  <1>4. /\ DOMAIN recorded = DOMAIN outputs \union {"run-manifest"}
        /\ recorded["run-manifest"] = RM
        /\ \A f \in DOMAIN outputs : recorded[f] = outputs[f]
    <2>1. recorded = With(outputs, "run-manifest", RM)
      BY DEF RM
    <2>2. "run-manifest" \notin DOMAIN outputs
      BY <1>2, <1>3
    <2> HIDE DEF recorded
    <2> QED BY <2>1, <2>2 DEF With
  <1> HIDE DEF recorded
  <1>5. /\ arch = "encoder" => listed = recorded
        /\ arch = "decoder" => /\ DOMAIN listed = DOMAIN recorded \union {"checksums"}
                               /\ listed["checksums"] = Listing(recorded)
        /\ \A f \in DOMAIN recorded : listed[f] = recorded[f]
        /\ listed = [f \in DOMAIN listed |-> listed[f]]
    <2>1. CASE arch = "encoder"
      <3>1. listed = recorded
        BY <2>1
      <3>2. recorded = [f \in DOMAIN recorded |-> recorded[f]]
        BY <1>4 DEF recorded, With
      <3> QED BY <2>1, <3>1, <3>2
    <2>2. CASE arch = "decoder"
      <3>1. listed = With(recorded, "checksums", Listing(recorded))
        BY <2>2
      <3>2. "checksums" \notin DOMAIN recorded
        BY <1>2, <1>4, <2>2
      <3>3. listed = [f \in DOMAIN listed |-> listed[f]]
        BY <3>1 DEF With
      <3> HIDE DEF listed
      <3>4. /\ DOMAIN listed = DOMAIN recorded \union {"checksums"}
            /\ listed["checksums"] = Listing(recorded)
            /\ \A f \in DOMAIN recorded : listed[f] = recorded[f]
        BY <3>1, <3>2 DEF With
      <3> QED BY <2>2, <3>3, <3>4
    <2> QED BY <1>3, <2>1, <2>2
  <1> HIDE DEF listed
  <1>6. "artifact-manifest" \notin DOMAIN listed
    BY <1>2, <1>3, <1>4, <1>5
  <1>7. /\ DOMAIN bundle = DOMAIN listed \union {"artifact-manifest"}
        /\ bundle["artifact-manifest"] = ArtifactManifest(arch, listed)
        /\ \A f \in DOMAIN listed : bundle[f] = listed[f]
    BY <1>6 DEF With
  <1> HIDE DEF bundle
  <1>8. \A f \in DOMAIN outputs : f \in DOMAIN recorded /\ f \in DOMAIN listed /\ bundle[f] = outputs[f]
    BY <1>3, <1>4, <1>5, <1>7
  <1>9. bundle["run-manifest"] = RM /\ listed["run-manifest"] = RM
    BY <1>3, <1>4, <1>5, <1>7
  <1>10. listed = [f \in DOMAIN bundle \ {"artifact-manifest"} |-> bundle[f]]
    <2>1. DOMAIN bundle \ {"artifact-manifest"} = DOMAIN listed
      BY <1>6, <1>7
    <2> QED BY <1>5, <1>7, <2>1
  <1>11. arch = "decoder" => bundle["checksums"] = Listing(bundle)
    <2> SUFFICES ASSUME arch = "decoder" PROVE bundle["checksums"] = Listing(bundle)
      OBVIOUS
    <2>1. DOMAIN bundle \ {"checksums", "artifact-manifest"} = DOMAIN recorded
          /\ DOMAIN recorded \ {"checksums", "artifact-manifest"} = DOMAIN recorded
      BY <1>2, <1>4, <1>5, <1>7
    <2>2. \A f \in DOMAIN recorded : bundle[f] = recorded[f]
      BY <1>5, <1>7
    <2>3. bundle["checksums"] = Listing(recorded)
      BY <1>5, <1>7
    <2> QED BY <2>1, <2>2, <2>3 DEF Listing
  <1>12. ArtifactManifest(arch, listed) =
           [arch |-> arch, run |-> RM, files |-> [f \in DOMAIN bundle \ {"artifact-manifest"} |-> bundle[f]]]
    BY <1>9, <1>10 DEF ArtifactManifest
  <1>13. /\ arch = "encoder" =>
              DOMAIN bundle = {"weights", "config", "metrics", "run-manifest", "artifact-manifest"}
         /\ arch = "decoder" =>
              DOMAIN bundle = {"weights", "config", "run-manifest", "checksums", "artifact-manifest"}
    BY <1>2, <1>4, <1>5, <1>7
  <1> QED BY <1>1, <1>7, <1>8, <1>9, <1>11, <1>12, <1>13 DEF outputs, RM

\* A bundle passes the checks of the trainer that wrote it, if it is concise.
LEMMA BundlePreflight ==
  ASSUME NEW arch \in Architectures, NEW state,
         arch = "decoder" => /\ state.step = state.config.steps
                             /\ AdapterHolds(Outputs(arch, state)["weights"], state.config)
  PROVE  Preflight(arch, Bundle(arch, state)) <=> Concise(Bundle(arch, state))
  <1> DEFINE bundle == Bundle(arch, state)
             outputs == Outputs(arch, state)
             RM == RunManifest(arch, state)
             AM == bundle["artifact-manifest"]
             listed == [f \in DOMAIN bundle \ {"artifact-manifest"} |-> bundle[f]]
  <1>1. /\ arch = "encoder" =>
             DOMAIN bundle = {"weights", "config", "metrics", "run-manifest", "artifact-manifest"}
        /\ arch = "decoder" =>
             DOMAIN bundle = {"weights", "config", "run-manifest", "checksums", "artifact-manifest"}
        /\ \A f \in DOMAIN outputs : bundle[f] = outputs[f]
        /\ bundle["run-manifest"] = RM
        /\ arch = "decoder" => bundle["checksums"] = Listing(bundle)
        /\ AM = [arch |-> arch, run |-> RM, files |-> listed]
    BY BundleFiles
  <1>2. /\ arch = "encoder" => DOMAIN outputs = {"weights", "config", "metrics"}
        /\ arch = "decoder" => DOMAIN outputs = {"weights", "config"}
        /\ outputs = [f \in DOMAIN outputs |-> outputs[f]]
        /\ outputs["config"] = state.config
        /\ arch = "encoder" => outputs["metrics"]
             = Validation(arch, state.seen, state.release, state.config.size)
    BY OutputFiles
  <1>3. /\ RM.config = state.config /\ RM.outputs = outputs
        /\ RM.steps = state.step /\ RM.losses = state.step
        /\ RM.validation = Validation(arch, state.seen, state.release, state.config.size)
    BY DEF RunManifest
  <1>4. arch = "encoder" \/ arch = "decoder"
    BY DEF Architectures
  <1>5. /\ DOMAIN listed = DOMAIN bundle \ {"artifact-manifest"}
        /\ \A f \in DOMAIN listed : listed[f] = bundle[f]
    OBVIOUS
  <1> HIDE DEF bundle, outputs, RM, AM, listed
  <1>6. AM.arch = arch /\ AM.run = RM /\ AM.files = listed
    BY <1>1
  <1>7. Verified(bundle)
    <2>1. Consistent(AM)
      BY <1>1, <1>4, <1>5, <1>6 DEF Consistent
    <2> QED BY <1>6, <2>1 DEF Verified, AM, listed
  <1>8. CASE arch = "encoder"
    <2> SUFFICES Preflight(arch, bundle) <=> Concise(bundle)
      BY DEF bundle
    <2>1. EncoderIdentity(AM)
      BY <1>1, <1>5, <1>6, <1>8 DEF EncoderIdentity
    <2>2. outputs = [f \in DOMAIN bundle \ {"run-manifest", "artifact-manifest"} |-> bundle[f]]
      <3>1. DOMAIN bundle \ {"run-manifest", "artifact-manifest"} = DOMAIN outputs
        BY <1>1, <1>2, <1>8
      <3> QED BY <1>1, <1>2, <3>1
    <2>3. bundle["config"] = RM.config /\ bundle["metrics"] = RM.validation
      BY <1>1, <1>2, <1>3, <1>8
    <2>4. "weights" \in DOMAIN bundle \ {"run-manifest", "artifact-manifest"}
      BY <1>1, <1>8
    <2>5. EncoderPreflight(bundle) <=> Concise(bundle)
      BY <1>1, <1>3, <2>1, <2>2, <2>3, <2>4 DEF EncoderPreflight, AM
    <2> QED BY <1>7, <1>8, <2>5 DEF Preflight
  <1>9. CASE arch = "decoder"
    <2> SUFFICES Preflight(arch, bundle) <=> Concise(bundle)
      BY DEF bundle
    <2>1. DecoderIdentity(AM)
      BY <1>1, <1>5, <1>6, <1>9 DEF DecoderIdentity
    <2>2. outputs = [f \in {"weights", "config"} |-> bundle[f]]
      BY <1>1, <1>2, <1>9
    <2>3. bundle["config"] = RM.config /\ bundle["weights"] = outputs["weights"]
      BY <1>1, <1>2, <1>3, <1>9
    <2>4. RM.steps = RM.config.steps /\ RM.losses = RM.config.steps
      BY <1>3, <1>9
    <2>5. AdapterHolds(bundle["weights"], RM.config)
      BY <1>3, <1>9, <2>3 DEF outputs
    <2>6. DecoderPreflight(bundle) <=> Concise(bundle)
      BY <1>1, <1>3, <1>9, <2>1, <2>2, <2>3, <2>4, <2>5 DEF DecoderPreflight, AM
    <2> QED BY <1>7, <1>9, <2>6 DEF Preflight
  <1> QED BY <1>4, <1>8, <1>9

-----------------------------------------------------------------------------
(* Scoring in batches.                                                      *)

\* The i-th record is in the batch of its quotient, and in no other.
LEMMA BatchOf ==
  ASSUME NEW each \in Nat \ {0}, NEW i \in Nat \ {0}, NEW k \in Nat \ {0}
  PROVE  (k - 1) * each < i /\ i <= k * each <=> k = ((i - 1) \div each) + 1
  <1> DEFINE d == (i - 1) \div each
             m == (i - 1) % each
  <1>1. i - 1 \in Nat
    OBVIOUS
  <1>2. d \in Nat /\ m \in 0..(each - 1) /\ i - 1 = each * d + m
    BY <1>1
  <1> HIDE DEF d, m
  <1>3. ASSUME k = d + 1 PROVE (k - 1) * each < i /\ i <= k * each
    <2>1. k - 1 = d /\ k * each = each * d + each /\ each * d \in Nat /\ (k - 1) * each = each * d
      BY <1>2, <1>3
    <2> DEFINE p == each * d
    <2> HIDE DEF p
    <2>2. p < i /\ i <= p + each
      BY <1>2, <2>1 DEF p
    <2> QED BY <2>1, <2>2 DEF p
  <1>4. ASSUME (k - 1) * each < i, i <= k * each PROVE k = d + 1
    <2> DEFINE q == k - 1
               r == i - 1 - q * each
    <2>1. q \in Nat /\ q * each \in Nat /\ k * each = q * each + each
      OBVIOUS
    <2>2. r \in 0..(each - 1) /\ q * each + r = i - 1
      <3> DEFINE p == q * each
      <3>1. p < i /\ i <= p + each /\ p \in Nat
        BY <1>4, <2>1
      <3> HIDE DEF p
      <3>2. i - 1 - p \in 0..(each - 1) /\ p + (i - 1 - p) = i - 1
        BY <3>1
      <3> QED BY <3>2 DEF p
    <2> HIDE DEF r, q
    <2>3. (q * each + r) \div each = q
      BY <2>1, <2>2, Division
    <2>4. d = q
      BY <2>2, <2>3 DEF d
    <2> QED BY <2>4 DEF q
  <1> QED BY <1>3, <1>4 DEF d

\* The batches are as many as the quotients.
LEMMA BatchCount ==
  ASSUME NEW each \in Nat \ {0}, NEW n \in Nat
  PROVE  /\ (n + each - 1) \div each \in Nat
         /\ \A k \in 1..((n + each - 1) \div each) : (k - 1) * each < n
         /\ \A i \in 1..n : ((i - 1) \div each) + 1 \in 1..((n + each - 1) \div each)
  <1> DEFINE a == n + each - 1
             K == a \div each
             m == a % each
  <1>1. a \in Nat
    OBVIOUS
  <1>2. K \in Nat /\ m \in 0..(each - 1) /\ a = each * K + m
    BY <1>1
  <1>3. a = n + (each - 1)
    OBVIOUS
  <1> HIDE DEF a, K, m
  <1>4. ASSUME NEW k \in 1..K PROVE (k - 1) * each < n
    <2>1. PICK x \in Nat : K = k + x
      <3>1. K - k \in Nat /\ K = k + (K - k)
        BY <1>2
      <3> QED BY <3>1
    <2>2. each * K = (k - 1) * each + each + x * each
      BY <1>2, <2>1
    <2>3. (k - 1) * each \in Nat /\ x * each \in Nat /\ each * K \in Nat
      <3>1. k - 1 \in Nat
        BY <1>2
      <3> QED BY <1>2, <2>1, <3>1
    <2> DEFINE p == (k - 1) * each
               y == x * each
               z == each * K
    <2> HIDE DEF p, y, z
    <2>4. z = p + each + y /\ p \in Nat /\ y \in Nat /\ n + (each - 1) = z + m
      BY <1>2, <1>3, <2>2, <2>3 DEF p, y, z
    <2>5. p < n
      BY <1>2, <2>4
    <2> QED BY <2>5 DEF p
  <1>5. ASSUME NEW i \in 1..n PROVE ((i - 1) \div each) + 1 \in 1..K
    <2> DEFINE d == (i - 1) \div each
               s == (i - 1) % each
    <2>1. d \in Nat /\ s \in 0..(each - 1) /\ i - 1 = each * d + s
      <3>1. i - 1 \in Nat
        OBVIOUS
      <3> QED BY <3>1
    <2> HIDE DEF d, s
    <2>2. ~ d >= K
      <3> SUFFICES ASSUME d >= K PROVE FALSE
        OBVIOUS
      <3>1. PICK x \in Nat : d = K + x
        <4>1. d - K \in Nat /\ d = K + (d - K)
          BY <1>2, <2>1
        <4> QED BY <4>1
      <3>2. each * d = each * K + each * x /\ each * x \in Nat /\ each * K \in Nat
        BY <1>2, <3>1
      <3> DEFINE y == each * x
                 z == each * K
      <3> HIDE DEF y, z
      <3>3. i - 1 = z + y + s /\ n + (each - 1) = z + m /\ y \in Nat /\ z \in Nat
        BY <1>2, <1>3, <2>1, <3>2 DEF y, z
      <3> QED BY <1>2, <2>1, <3>3
    <2> QED BY <1>2, <2>1, <2>2 DEF d
  <1> QED BY <1>2, <1>4, <1>5 DEF K, a

\* The elements of a part of a sequence.
LEMMA PartOf ==
  ASSUME NEW s, IsSeq(s), NEW lo \in Nat, NEW hi \in Nat, lo <= hi, hi <= Len(s)
  PROVE  LET part == SubSeq(s, lo + 1, hi)
         IN  /\ IsSeq(part) /\ Len(part) = hi - lo /\ DOMAIN part = 1..(hi - lo)
             /\ \A j \in 1..(hi - lo) : lo + j \in 1..Len(s) /\ part[j] = s[lo + j]
  <1> DEFINE part == SubSeq(s, lo + 1, hi)
             n == Len(s)
  <1>1. n \in Nat /\ DOMAIN s = 1..n
    BY LengthOfSeq
  <1> HIDE DEF n
  <1>2. part = [j \in 1..((1 + hi) - (lo + 1)) |-> s[(j + (lo + 1)) - 1]]
    OBVIOUS
  <1>3. (1 + hi) - (lo + 1) = hi - lo /\ hi - lo \in Nat
    OBVIOUS
  <1>4. \A j \in 1..(hi - lo) : (j + (lo + 1)) - 1 = lo + j /\ lo + j \in 1..n
    <2>1. hi <= n
      BY DEF n
    <2> QED BY <1>1, <2>1
  <1>5. part = [j \in 1..(hi - lo) |-> part[j]] /\ \A j \in 1..(hi - lo) : part[j] = s[lo + j]
    BY <1>2, <1>3, <1>4
  <1> HIDE DEF part
  <1>6. IsSeq(part) /\ Len(part) = hi - lo /\ DOMAIN part = 1..(hi - lo)
    BY <1>3, <1>5, NumberedSeq
  <1> QED BY <1>4, <1>5, <1>6 DEF part, n

\* The k-th batch of each records.
Batch(ids, each, k) ==
  SubSeq(ids, (k - 1) * each + 1, IF k * each < Len(ids) THEN k * each ELSE Len(ids))

\* No id is repeated.
Distinct(ids) == \A i, j \in 1..Len(ids) : ids[i] = ids[j] => i = j
\* Each of the ids is in one batch, once, and the batches hold nothing else.
InOneBatch(ids, scored) ==
  /\ \A i \in 1..Len(ids) : Cardinality({b \in DOMAIN scored : ids[i] \in Range(scored[b])}) = 1
  /\ \A b \in DOMAIN scored : IsInjective(scored[b])
  /\ UNION {Range(scored[b]) : b \in DOMAIN scored} = {ids[i] : i \in 1..Len(ids)}

\* What the k-th batch holds.
LEMMA OneBatch ==
  ASSUME NEW ids, IsSeq(ids), NEW each \in Nat \ {0}, NEW k \in Nat \ {0}, (k - 1) * each < Len(ids),
         Distinct(ids)
  PROVE  /\ IsInjective(Batch(ids, each, k))
         /\ \A i \in 1..Len(ids) :
              ids[i] \in Range(Batch(ids, each, k)) <=> (k - 1) * each < i /\ i <= k * each
         /\ \A x \in Range(Batch(ids, each, k)) : \E i \in 1..Len(ids) : x = ids[i]
  <1> DEFINE n == Len(ids)
             lo == (k - 1) * each
             top == k * each
             hi == IF top < n THEN top ELSE n
             batch == Batch(ids, each, k)
  <1>1. n \in Nat /\ DOMAIN ids = 1..n
    BY LengthOfSeq
  <1>2. lo \in Nat /\ top = lo + each /\ top \in Nat
    <2>1. k - 1 \in Nat
      OBVIOUS
    <2> QED BY <2>1
  <1>3. batch = SubSeq(ids, lo + 1, hi)
    BY DEF Batch
  <1>4. lo < n
    OBVIOUS
  <1> HIDE DEF lo, top, n, batch
  <1>5. hi \in Nat /\ lo < hi /\ hi <= n
    BY <1>1, <1>2, <1>4
  <1>6. \A i \in 1..n : i <= hi <=> i <= top
    BY <1>1, <1>2
  <1> HIDE DEF hi
  <1>7. /\ DOMAIN batch = 1..(hi - lo)
        /\ \A j \in 1..(hi - lo) : lo + j \in 1..n /\ batch[j] = ids[lo + j]
    <2>1. lo <= hi
      BY <1>2, <1>5
    <2> QED BY <1>2, <1>3, <1>5, <2>1, PartOf DEF n
  <1>8. IsInjective(batch)
    <2> SUFFICES ASSUME NEW i \in 1..(hi - lo), NEW j \in 1..(hi - lo), batch[i] = batch[j]
                 PROVE  i = j
      BY <1>7 DEF IsInjective
    <2>1. lo + i = lo + j
      BY <1>7 DEF n, Distinct
    <2> QED BY <1>2, <2>1
  <1>9. ASSUME NEW i \in 1..n PROVE ids[i] \in Range(batch) <=> lo < i /\ i <= top
    <2>1. ASSUME lo < i, i <= top PROVE ids[i] \in Range(batch)
      <3>1. i - lo \in 1..(hi - lo) /\ lo + (i - lo) = i
        BY <1>1, <1>2, <1>5, <1>6, <2>1
      <3>2. batch[i - lo] = ids[i]
        BY <1>7, <3>1
      <3> QED BY <1>7, <3>1, <3>2 DEF Range
    <2>2. ASSUME ids[i] \in Range(batch) PROVE lo < i /\ i <= top
      <3>1. PICK j \in 1..(hi - lo) : ids[i] = batch[j]
        BY <1>7, <2>2 DEF Range
      <3>2. i = lo + j
        BY <1>7, <3>1 DEF n, Distinct
      <3> QED BY <1>1, <1>2, <1>5, <1>6, <3>2
    <2> QED BY <2>1, <2>2
  <1>10. \A x \in Range(batch) : \E i \in 1..n : x = ids[i]
    BY <1>7 DEF Range
  <1> QED BY <1>8, <1>9, <1>10 DEF batch, n, lo, top

\* Each record is in one batch, once, and the batches hold nothing else.
LEMMA ScoredOnce ==
  ASSUME NEW ids, IsSeq(ids), Distinct(ids), NEW arch, NEW size \in Nat \ {0}
  PROVE  InOneBatch(ids, ValidationBatches(arch, ids, size))
  <1> DEFINE n == Len(ids)
             each == IF arch = "encoder" THEN 1 ELSE size
             K == (n + each - 1) \div each
             scored == ValidationBatches(arch, ids, size)
             of(i) == ((i - 1) \div each) + 1
  <1>1. n \in Nat /\ each \in Nat \ {0}
    BY LengthOfSeq
  <1>2. DOMAIN scored = 1..K /\ \A k \in 1..K : scored[k] = Batch(ids, each, k)
    BY DEF ValidationBatches, Batch
  <1> HIDE DEF each, scored
  <1>3. /\ K \in Nat
        /\ \A k \in 1..K : (k - 1) * each < n
        /\ \A i \in 1..n : of(i) \in 1..K
    <2> HIDE DEF n
    <2> QED BY <1>1, BatchCount
  <1> HIDE DEF K
  <1>4. ASSUME NEW k \in 1..K
        PROVE  /\ IsInjective(scored[k])
               /\ \A i \in 1..n : ids[i] \in Range(scored[k]) <=> k = of(i)
               /\ \A x \in Range(scored[k]) : \E i \in 1..n : x = ids[i]
    <2>1. k \in Nat \ {0} /\ (k - 1) * each < n
      BY <1>3
    <2>2. /\ IsInjective(Batch(ids, each, k))
          /\ \A i \in 1..n :
               ids[i] \in Range(Batch(ids, each, k)) <=> (k - 1) * each < i /\ i <= k * each
          /\ \A x \in Range(Batch(ids, each, k)) : \E i \in 1..n : x = ids[i]
      BY <1>1, <2>1, OneBatch
    <2>3. \A i \in 1..n : (k - 1) * each < i /\ i <= k * each <=> k = of(i)
      <3> TAKE i \in 1..n
      <3>1. i \in Nat \ {0}
        BY <1>1
      <3> QED BY <1>1, <2>1, <3>1, BatchOf
    <2>4. scored[k] = Batch(ids, each, k)
      BY <1>2
    <2> HIDE DEF of, n
    <2> QED BY <2>2, <2>3, <2>4
  <1> HIDE DEF of, n
  <1>5. ASSUME NEW i \in 1..n PROVE Cardinality({b \in DOMAIN scored : ids[i] \in Range(scored[b])}) = 1
    <2>1. {b \in DOMAIN scored : ids[i] \in Range(scored[b])} = {of(i)}
      BY <1>2, <1>3, <1>4
    <2> QED BY <2>1, FS_Singleton
  <1>6. UNION {Range(scored[b]) : b \in DOMAIN scored} = {ids[i] : i \in 1..n}
    <2>1. ASSUME NEW x \in UNION {Range(scored[b]) : b \in DOMAIN scored} PROVE \E i \in 1..n : x = ids[i]
      BY <1>2, <1>4
    <2>2. ASSUME NEW i \in 1..n PROVE \E b \in DOMAIN scored : ids[i] \in Range(scored[b])
      BY <1>2, <1>3, <1>4
    <2> QED BY <2>1, <2>2
  <1>7. InOneBatch(ids, scored)
    BY <1>2, <1>4, <1>5, <1>6 DEF InOneBatch, n
  <1> QED BY <1>7 DEF scored

-----------------------------------------------------------------------------
(* A run that has ended.                                                    *)

\* The ids of a split that was read: each is there once.
LEMMA IdsRead ==
  ASSUME ReleaseInv, RunReads, run.at \in {"training", "ended"}, NEW s \in Splits
  PROVE  LET ids == IdsOf(directory[s])
         IN  /\ IsSeq(ids) /\ Len(ids) = Len(directory[s]) /\ DOMAIN ids = DOMAIN directory[s]
             /\ \A i \in 1..Len(ids) : ids[i] = directory[s][i].id
             /\ Distinct(ids)
  <1> DEFINE records == directory[s]
             n == Len(records)
             ids == IdsOf(records)
  <1>1. /\ n \in Nat /\ DOMAIN records = 1..n
        /\ Accepts(directory, Selection(directory))
    BY WhatIsRead DEF RunReads
  <1> HIDE DEF n
  <1>2. ids = [i \in 1..n |-> records[i].id]
    BY <1>1 DEF IdsOf
  <1>3. ids = [i \in 1..n |-> ids[i]] /\ DOMAIN ids = 1..n /\ \A i \in 1..n : ids[i] = records[i].id
    BY <1>2
  <1>4. IsSeq(ids) /\ Len(ids) = n
    <2> HIDE DEF ids
    <2> QED BY <1>1, <1>3, NumberedSeq
  <1>5. ASSUME NEW i \in 1..n, NEW j \in 1..n, records[i].id = records[j].id PROVE i = j
    <2>1. /\ <<s, i>> \in Places(directory) /\ <<s, j>> \in Places(directory)
          /\ At(directory, <<s, i>>).id = At(directory, <<s, j>>).id
      BY <1>1, <1>5, RecordAt
    <2>2. \A p, q \in Places(directory) : At(directory, p).id = At(directory, q).id => p = q
      BY <1>1 DEF Accepts, Inventory
    <2>3. <<s, i>> = <<s, j>>
      BY <2>1, <2>2
    <2> QED BY <2>3
  <1> HIDE DEF ids
  <1> QED BY <1>1, <1>3, <1>4, <1>5 DEF n, ids, Distinct

-----------------------------------------------------------------------------
(* An ended run, used with its release.                                     *)

\* What EndedRunIsUsable says of a bundle and of the release it is used with.
Usable(arch, config, files, bundle, shuffles) ==
  LET validation == bundle["run-manifest"].validation
      scored == validation.loss.on
  IN  /\ Preflight(arch, bundle) <=> Recordable(config)
      /\ \A i \in DOMAIN files.validation :
           Cardinality({b \in DOMAIN scored : files.validation[i].id \in Range(scored[b])}) = 1
      /\ \A b \in DOMAIN scored : IsInjective(scored[b])
      /\ UNION {Range(scored[b]) : b \in DOMAIN scored}
           = {files.validation[i].id : i \in 1..validation.count}
      /\ IF arch = "encoder"
         THEN Evaluates(config, files, bundle, shuffles) <=> Recordable(config)
         ELSE AdapterLoss(config, files, bundle["weights"]) = validation.loss

\* The loss that is recorded was taken over the validation records that were
\* read.
LEMMA ValidationRead ==
  ASSUME ReleaseInv, RunReads, run.at \in {"training", "ended"}, NEW learnt, NEW validation,
         validation = Validation(run.arch, learnt, run.release, run.config.size)
  PROVE  /\ validation.count = Len(directory["validation"])
         /\ validation.loss =
              [learnt |-> learnt,
               on |-> ValidationBatches(run.arch, IdsOf(directory["validation"]), run.config.size)]
         /\ validation = Validation(run.arch, learnt, directory, run.config.size)
  <1> DEFINE ids == IdsOf(directory["validation"])
  <1>1. OfSplit(run.arch, run.release, "validation") = directory["validation"]
    BY WhatIsRead
  <1>2. OfSplit(run.arch, directory, "validation") = directory["validation"]
    <2>1. \A s \in Splits : run.release[s] = directory[s]
      BY WhatIsRead
    <2>2. AllRecords(run.release) = AllRecords(directory)
      BY WhatIsRead
    <2>3. OfSplit(run.arch, directory, "validation") = OfSplit(run.arch, run.release, "validation")
      BY <2>1, <2>2 DEF OfSplit, Splits
    <2> QED BY <1>1, <2>3
  <1>3. Len(ids) = Len(directory["validation"])
    BY IdsRead DEF Splits
  <1>4. Validation(run.arch, learnt, run.release, run.config.size)
          = [count |-> Len(ids),
             loss |-> [learnt |-> learnt, on |-> ValidationBatches(run.arch, ids, run.config.size)]]
    BY <1>1 DEF Validation
  <1>5. Validation(run.arch, learnt, directory, run.config.size)
          = [count |-> Len(ids),
             loss |-> [learnt |-> learnt, on |-> ValidationBatches(run.arch, ids, run.config.size)]]
    BY <1>2 DEF Validation
  <1> HIDE DEF ids
  <1> QED BY <1>3, <1>4, <1>5 DEF ids

\* A run that ends leaves a bundle that can be used with its release.
LEMMA EndUsable ==
  ASSUME RecordRun, ReleaseInv, RunReads, Typed, Counted, Batched, OrderIsDrawnAgain',
         run.at = "training", directory' = directory, linked' = linked
  PROVE  EndedRunIsUsable'
  <1> DEFINE RM == RunManifest(run.arch, run)
             bundle == Bundle(run.arch, run)
             outputs == Outputs(run.arch, run)
             validation == Validation(run.arch, run.seen, run.release, run.config.size)
             scored == validation.loss.on
             records == directory["validation"]
             ids == IdsOf(records)
             steps == run.config.steps * run.config.accumulation
  <1>1. /\ run'.at = "ended" /\ run'.arch = run.arch /\ run'.config = run.config
        /\ run'.shuffles = run.shuffles /\ run'.bundle = bundle
        /\ run'.release = run.release
        /\ run.step = run.config.steps
        /\ run.arch = "decoder" => AdapterHolds(outputs["weights"], run.config)
    BY DEF RecordRun, Trained
  <1>2. /\ run.arch \in Architectures
        /\ {run.config.steps, run.config.accumulation, run.config.size} \subseteq Nat \ {0}
        /\ ~ linked
        /\ Accepts(directory, Selection(directory))
        /\ Prepared(run.arch, directory)
        /\ run.config.corpus = Selection(directory)
    BY DEF RunReads
  <1>3. bundle["run-manifest"] = RM /\ RM.validation = validation
    BY ManifestInBundle DEF RunManifest
  <1>4. /\ validation.count = Len(records)
        /\ scored = ValidationBatches(run.arch, ids, run.config.size)
        /\ validation = Validation(run.arch, run.seen, directory, run.config.size)
    <2>1. /\ validation.count = Len(directory["validation"])
          /\ validation.loss =
               [learnt |-> run.seen,
                on |-> ValidationBatches(run.arch, IdsOf(directory["validation"]), run.config.size)]
          /\ validation = Validation(run.arch, run.seen, directory, run.config.size)
      <3> HIDE DEF validation
      <3> QED BY ValidationRead DEF validation
    <2> HIDE DEF validation
    <2> QED BY <2>1
  <1>5. /\ IsSeq(ids) /\ Len(ids) = Len(records) /\ DOMAIN ids = DOMAIN records
        /\ \A i \in 1..Len(ids) : ids[i] = records[i].id
        /\ Distinct(ids)
        /\ DOMAIN records = 1..Len(records)
    BY IdsRead, WhatIsRead DEF Splits
  <1> HIDE DEF RM, bundle, validation, ids, records, outputs
  <1> HIDE DEF scored
  <1>6. InOneBatch(ids, scored)
    BY <1>2, <1>4, <1>5, ScoredOnce
  <1>16. run.micro = steps
    <2>1. run.micro \in Nat /\ run.config.steps \in Nat /\ run.config.accumulation \in Nat
      BY DEF Typed
    <2>2. run.config.accumulation * run.config.steps = steps /\ steps \in Nat
      BY <2>1
    <2>3. run.config.accumulation * run.config.steps <= run.micro
          /\ run.micro <= run.config.accumulation * run.config.steps
      BY <1>1 DEF Counted
    <2> HIDE DEF steps
    <2> QED BY <2>1, <2>2, <2>3
  <1>15. Concise(bundle) <=> Recordable(run.config)
    <2>1. RM.order = run.order /\ RM.losses = run.config.steps
      BY <1>1 DEF RM, RunManifest
    <2>2. Len(run.order) = run.config.steps * run.config.accumulation * run.config.size
      BY <1>16 DEF Counted, Batched
    <2>3. bundle["config"] = run.config
      <3>1. \A f \in DOMAIN outputs : bundle[f] = outputs[f]
        BY <1>2, BundleFiles DEF bundle, outputs
      <3>2. "config" \in DOMAIN outputs /\ outputs["config"] = run.config
        BY <1>2, OutputFiles DEF outputs, Architectures
      <3> QED BY <3>1, <3>2
    <2> QED BY <1>3, <2>1, <2>2, <2>3 DEF Concise, Recordable
  <1>7. Preflight(run.arch, bundle) <=> Recordable(run.config)
    <2>1. Preflight(run.arch, bundle) <=> Concise(bundle)
      BY <1>1, <1>2, BundlePreflight DEF bundle, outputs
    <2> QED BY <1>15, <2>1
  <1>8. /\ \A i \in DOMAIN records :
             Cardinality({b \in DOMAIN scored : records[i].id \in Range(scored[b])}) = 1
        /\ \A b \in DOMAIN scored : IsInjective(scored[b])
        /\ UNION {Range(scored[b]) : b \in DOMAIN scored} = {records[i].id : i \in 1..validation.count}
    <2>1. \A i \in DOMAIN records :
            Cardinality({b \in DOMAIN scored : records[i].id \in Range(scored[b])}) = 1
      <3> TAKE i \in DOMAIN records
      <3>1. i \in 1..Len(ids) /\ ids[i] = records[i].id
        BY <1>5
      <3>2. Cardinality({b \in DOMAIN scored : ids[i] \in Range(scored[b])}) = 1
        BY <1>6, <3>1 DEF InOneBatch
      <3> QED BY <3>1, <3>2
    <2>2. {ids[i] : i \in 1..Len(ids)} = {records[i].id : i \in 1..validation.count}
      BY <1>4, <1>5
    <2> QED BY <1>6, <2>1, <2>2 DEF InOneBatch
  <1>9. bundle["weights"].learnt = run.seen
    <2>1. \A f \in DOMAIN outputs : bundle[f] = outputs[f]
      BY <1>2, BundleFiles DEF bundle, outputs
    <2>2. "weights" \in DOMAIN outputs /\ outputs["weights"].learnt = run.seen
      BY <1>2, OutputFiles DEF Architectures, outputs
    <2> QED BY <2>1, <2>2
  <1>10. ASSUME run.arch = "encoder"
         PROVE  Evaluates(run.config, directory, bundle, run.shuffles) <=> Recordable(run.config)
    <2>1. /\ RM.config = run.config /\ RM.steps = run.step /\ RM.losses = run.step
          /\ RM.micro = run.micro /\ RM.outputs = outputs /\ RM.order = run.order
          /\ RM.corpus = run.release.manifest
      BY DEF RM, RunManifest, outputs
    <2>2. run.release.manifest = directory.manifest
      BY WhatIsRead
    <2>3. run.micro = steps
      BY <1>16
    <2>4. OfSplit("encoder", directory, "train") = directory["train"]
      <3>1. OfSplit(run.arch, run.release, "train") = directory["train"]
            /\ AllRecords(run.release) = AllRecords(directory)
        BY WhatIsRead
      <3> QED BY <1>10, <3>1 DEF OfSplit
    <2>5. run.order = IdsOf(Take(directory["train"], run.shuffles, steps * run.config.size))
      <3>1. /\ OfSplit(run.arch, run.release, "train") = directory["train"]
            /\ Len(directory["train"]) \in Nat \ {0}
        BY WhatIsRead DEF Splits
      <3>2. OfSplit(run.arch, run.release, "train")' = directory["train"]
        BY <1>1, <3>1
      <3>3. run'.bundle["run-manifest"].order = run.order
        BY <1>1, <1>3, <2>1
      <3>4. (run.config.steps * run.config.accumulation * run.config.size)' = steps * run.config.size
        BY <1>1
      <3> QED BY <1>1, <3>1, <3>2, <3>3, <3>4 DEF OrderIsDrawnAgain
    <2>6. /\ DOMAIN bundle = {"weights", "config", "metrics", "run-manifest", "artifact-manifest"}
          /\ \A f \in DOMAIN outputs : bundle[f] = outputs[f]
      BY <1>2, <1>10, BundleFiles DEF bundle, outputs
    <2>7. /\ DOMAIN outputs = {"weights", "config", "metrics"}
          /\ outputs = [f \in DOMAIN outputs |-> outputs[f]]
          /\ outputs["config"] = run.config /\ outputs["metrics"] = validation
      BY <1>2, <1>10, OutputFiles DEF outputs, validation
    <2>8. outputs = [f \in DOMAIN bundle \ {"run-manifest", "artifact-manifest"} |-> bundle[f]]
      <3>1. DOMAIN bundle \ {"run-manifest", "artifact-manifest"} = DOMAIN outputs
        BY <2>6, <2>7
      <3> QED BY <2>6, <2>7, <3>1
    <2>9. bundle["config"] = run.config /\ bundle["metrics"] = validation
      BY <2>6, <2>7
    <2>10. Reads(directory, run.config.corpus) /\ Prepared("encoder", directory)
      BY <1>2, <1>10 DEF Reads
    <2>11. validation = Validation("encoder", bundle["weights"].learnt, directory, run.config.size)
      BY <1>4, <1>9, <1>10
    <2>12. validation.count = Len(directory.validation)
      BY <1>4 DEF records
    <2> HIDE DEF steps
    <2>13. Evaluates(run.config, directory, bundle, run.shuffles) <=> Concise(bundle)
      BY <1>1, <1>3, <2>1, <2>2, <2>3, <2>4, <2>5, <2>8, <2>9, <2>10, <2>11, <2>12 DEF Evaluates, steps
    <2> QED BY <1>15, <2>13
  <1>11. ASSUME run.arch = "decoder"
         PROVE  AdapterLoss(run.config, directory, bundle["weights"]) = validation.loss
    BY <1>4, <1>9, <1>11 DEF AdapterLoss
  <1>12. IF run.arch = "encoder"
         THEN Evaluates(run.config, directory, bundle, run.shuffles) <=> Recordable(run.config)
         ELSE AdapterLoss(run.config, directory, bundle["weights"]) = validation.loss
    BY <1>2, <1>10, <1>11 DEF Architectures
  <1>13. Usable(run.arch, run.config, directory, bundle, run.shuffles)
    <2>1. bundle["run-manifest"].validation = validation /\ validation.loss.on = scored
      BY <1>3 DEF scored
    <2>2. directory.validation = records
      BY DEF records
    <2> QED BY <1>7, <1>8, <1>12, <2>1, <2>2 DEF Usable
  <1>14. Usable(run.arch, run.config, directory, run.bundle, run.shuffles)'
    <2>1. Evaluates(run.config, directory, run.bundle, run.shuffles)'
            <=> Evaluates(run.config, directory, bundle, run.shuffles)
      <3>1. Reads(directory, run.config.corpus)' <=> Reads(directory, run.config.corpus)
        BY <1>1 DEF Reads
      <3> QED BY <1>1, <3>1, ZenonT(60) DEF Evaluates
    <2> QED BY <1>1, <1>13, <2>1, ZenonT(60) DEF Usable
  <1> QED BY <1>14, ZenonT(30) DEF EndedRunIsUsable, Usable

\* The bundle of a run that has ended passes the checks of its trainer's
\* preflight exactly if its configuration keeps the metadata within their
\* limits, its validation loss was taken over each validation record once, and
\* evaluating the checkpoint again on the release it names gives that loss again.
THEOREM EndedUsable == Spec => []EndedRunIsUsable
  <1>1. Init => EndedRunIsUsable
    BY DEF Init, RunInit, EndedRunIsUsable
  <1>2. ReleaseInv /\ RunInv /\ RunReads /\ EndedRunIsUsable /\ [Next]_vars /\ RunInv' => EndedRunIsUsable'
    <2> SUFFICES ASSUME ReleaseInv, RunInv, RunReads, EndedRunIsUsable, [Next]_vars, RunInv'
                 PROVE  EndedRunIsUsable'
      OBVIOUS
    <2>1. ASSUME run'.at # "ended" PROVE EndedRunIsUsable'
      BY <2>1 DEF EndedRunIsUsable
    <2>2. CASE RecordRun
      <3>1. run.at = "training"
        BY <2>2 DEF RecordRun, Trained, Training
      <3>2. directory' = directory /\ linked' = linked
        BY <3>1, Unchanged
      <3>3. Typed /\ Counted /\ Batched /\ OrderIsDrawnAgain'
        BY <3>1 DEF RunInv
      <3> QED BY <2>2, <3>1, <3>2, <3>3, EndUsable
    <2>3. CASE UNCHANGED run
      <3>1. CASE run.at = "ended"
        <4>1. directory' = directory /\ linked' = linked
          BY <3>1, Unchanged
        <4>2. EndedRunIsUsable = EndedRunIsUsable'
          BY <2>3, <4>1 DEF EndedRunIsUsable, Evaluates, Reads
        <4> QED BY <4>2
      <3>2. CASE run.at # "ended"
        BY <2>1, <2>3, <3>2
      <3> QED BY <3>1, <3>2
    <2>4. CASE \E arch \in Architectures, schedule \in Schedules : StartRun(arch, schedule)
      BY <2>1, <2>4 DEF StartRun
    <2>5. CASE TakeRecord \/ MicroStep \/ OptimizerStep
      <3>1. run.at = "training" /\ DOMAIN run = Fields
        BY <2>5 DEF RunInv, Typed, TakeRecord, MicroStep, OptimizerStep, Training
      <3>2. run'.at = "training"
        <4>1. CASE TakeRecord
          <5>1. PICK shuffles, position, batch :
                  run' = [run EXCEPT !.shuffles = shuffles, !.position = position, !.batch = batch]
            BY <4>1 DEF TakeRecord
          <5> QED BY <3>1, <5>1 DEF Fields
        <4>2. CASE MicroStep
          BY <3>1, <4>2 DEF MicroStep, Fields
        <4>3. CASE OptimizerStep
          BY <3>1, <4>3 DEF OptimizerStep, Fields
        <4> QED BY <2>5, <4>1, <4>2, <4>3
      <3> QED BY <2>1, <3>2
    <2>6. CASE LossNotFinite \/ AdapterRefused
      BY <2>1, <2>6 DEF LossNotFinite, AdapterRefused
    <2> QED BY <2>2, <2>3, <2>4, <2>5, <2>6 DEF Next, Running, vars
  <1> QED BY <1>1, <1>2, Reading, PTL DEF Spec
=============================================================================
