---------------------------- MODULE NetCard_proofs ----------------------------
(***************************************************************************)
(* IInv of NetCard is an invariant for rings, frames and transmit buffers  *)
(* of every size, and with it the two safety properties that the run of    *)
(* MCNetCard checks.                                                       *)
(***************************************************************************)
EXTENDS NetCard, TLAPS

\* What a remainder is below twice the modulus.
LEMMA ModSmall ==
  ASSUME NEW m \in Nat \ {0}, NEW x \in Nat, x < 2 * m
  PROVE  x % m = IF x < m THEN x ELSE x - m
OBVIOUS

\* The remainder of a difference of two remainders.
LEMMA ModDiff ==
  ASSUME NEW m \in Nat \ {0}, NEW a \in 0 .. m - 1, NEW b \in 0 .. m - 1
  PROVE  (a - b) % m = IF a >= b THEN a - b ELSE a - b + m
OBVIOUS

USE NetCardAssumption

-----------------------------------------------------------------------------
(* Going round.                                                            *)

\* Some words on from a place in the receive ring.
LEMMA Round ==
  ASSUME NEW a \in 0 .. RingWords - 1, NEW k \in 0 .. RingWords
  PROVE  /\ (a + k) % RingWords = IF a + k < RingWords THEN a + k ELSE a + k - RingWords
         /\ (a + k) % RingWords \in 0 .. RingWords - 1
<1> DEFINE m == RingWords
<1> DEFINE x == a + k
<1>1. m \in Nat \ {0} /\ x \in Nat /\ x < 2 * m
  OBVIOUS
<1> HIDE DEF m, x
<1>2. x % m = IF x < m THEN x ELSE x - m
  BY <1>1, ModSmall
<1> QED
  BY <1>1, <1>2 DEF m, x

\* Some words on, and some more.
LEMMA RoundTwice ==
  ASSUME NEW a \in 0 .. RingWords - 1, NEW k \in 0 .. RingWords, NEW l \in 0 .. RingWords,
         k + l \in 0 .. RingWords
  PROVE  (((a + k) % RingWords) + l) % RingWords = (a + (k + l)) % RingWords
<1> DEFINE b == (a + k) % RingWords
<1>1. b \in 0 .. RingWords - 1 /\ b = IF a + k < RingWords THEN a + k ELSE a + k - RingWords
  BY Round
<1> HIDE DEF b
<1>2. (b + l) % RingWords = IF b + l < RingWords THEN b + l ELSE b + l - RingWords
  BY <1>1, Round
<1>3. (a + (k + l)) % RingWords = IF a + (k + l) < RingWords THEN a + (k + l)
                                                           ELSE a + (k + l) - RingWords
  BY Round
<1>4. (b + l) % RingWords = (a + (k + l)) % RingWords
  BY <1>1, <1>2, <1>3
<1> QED
  BY <1>4 DEF b

\* How much is free from the place where the card goes on.
LEMMA Free ==
  ASSUME NEW a \in 0 .. RingWords - 1, NEW b \in 0 .. RingWords - 1
  PROVE  (a - b) % RingWords = IF a >= b THEN a - b ELSE a - b + RingWords
<1> DEFINE m == RingWords
<1>1. m \in Nat \ {0} /\ a \in 0 .. m - 1 /\ b \in 0 .. m - 1
  OBVIOUS
<1> HIDE DEF m
<1>2. (a - b) % m = IF a >= b THEN a - b ELSE a - b + m
  BY <1>1, ModDiff
<1> QED
  BY <1>2 DEF m

\* The buffer of the k-th of n frames to be sent, when buffer t is the next.
SlotOf(t, n, k) == (t + TxSlots + k - 1 - n) % TxSlots

LEMMA SlotOfIs ==
  ASSUME NEW t \in 0 .. TxSlots - 1, NEW n \in 0 .. TxSlots, NEW k \in 1 .. n
  PROVE  SlotOf(t, n, k) = IF t >= n + 1 - k THEN t - (n + 1 - k) ELSE t - (n + 1 - k) + TxSlots
<1> DEFINE m == TxSlots
<1> DEFINE x == t + TxSlots + k - 1 - n
<1>1. m \in Nat \ {0} /\ x \in Nat /\ x < 2 * m
  OBVIOUS
<1> HIDE DEF m, x
<1>2. x % m = IF x < m THEN x ELSE x - m
  BY <1>1, ModSmall
<1>3. SlotOf(t, n, k) = x % m
  BY DEF SlotOf, m, x
<1> QED
  BY <1>1, <1>2, <1>3 DEF m, x

-----------------------------------------------------------------------------
(* The transmit buffers.                                                   *)

TxSound ==
    /\ txindex \in 0 .. TxSlots - 1 /\ Len(queued) = Len(due)
    /\ BuffersInTurn /\ SendsWhatWasGiven

LEMMA TxUnchanged ==
  ASSUME TxSound, UNCHANGED txVars
  PROVE  TxSound'
BY DEF TxSound, BuffersInTurn, SendsWhatWasGiven, txVars

\* The buffer after the last one that was filled is none of those that wait, as
\* long as fewer wait than there are.
LEMMA NextSlotFree ==
  ASSUME TxSound, ~overrun, Len(queued) < TxSlots, NEW k \in 1 .. Len(queued)
  PROVE  queued[k] # txindex
<1>1. queued[k] = SlotOf(txindex, Len(queued), k)
  BY DEF TxSound, BuffersInTurn, SlotOf
<1>2. Len(queued) \in 0 .. TxSlots /\ txindex \in 0 .. TxSlots - 1
  BY DEF TxSound, BuffersInTurn
<1>3. queued[k] = IF txindex >= Len(queued) + 1 - k
                  THEN txindex - (Len(queued) + 1 - k)
                  ELSE txindex - (Len(queued) + 1 - k) + TxSlots
  BY <1>1, <1>2, SlotOfIs
<1> QED
  BY <1>2, <1>3

\* rtl8139_send_frame
LEMMA SendFrameSound ==
  ASSUME TxSound, NEW f \in TxFrames, SendFrame(f)
  PROVE  TxSound'
<1> DEFINE n == Len(queued)
<1>1. /\ queued \in Seq(0 .. TxSlots - 1) /\ due \in Seq(TxFrames)
      /\ txindex \in 0 .. TxSlots - 1 /\ n \in Nat /\ Len(due) = n
      /\ txbuf \in [0 .. TxSlots - 1 -> {Nothing} \cup TxFrames]
  BY DEF TxSound, BuffersInTurn
<1>2. /\ txbuf' = [txbuf EXCEPT ![txindex] = f]
      /\ queued' = Append(queued, txindex) /\ due' = Append(due, f)
      /\ overrun' = (overrun \/ n >= TxSlots) /\ txindex' = (txindex + 1) % TxSlots
  BY DEF SendFrame, NextSlot
<1>3. txindex' = IF txindex + 1 < TxSlots THEN txindex + 1 ELSE 0
  <2> DEFINE m == TxSlots
  <2> DEFINE x == txindex + 1
  <2>1. m \in Nat \ {0} /\ x \in Nat /\ x < 2 * m /\ x <= m /\ txindex' = x % m
    BY <1>1, <1>2
  <2> HIDE DEF m, x
  <2>2. x % m = IF x < m THEN x ELSE x - m
    BY <2>1, ModSmall
  <2> QED
    BY <1>1, <2>1, <2>2 DEF m, x
<1>4. /\ queued' \in Seq(0 .. TxSlots - 1) /\ due' \in Seq(TxFrames)
      /\ Len(queued') = n + 1 /\ Len(due') = n + 1
      /\ \A k \in 1 .. n : queued'[k] = queued[k] /\ due'[k] = due[k]
      /\ queued'[n + 1] = txindex /\ due'[n + 1] = f
  BY <1>1, <1>2
<1>5. /\ txindex' \in 0 .. TxSlots - 1 /\ overrun' \in BOOLEAN
      /\ txbuf' \in [0 .. TxSlots - 1 -> {Nothing} \cup TxFrames]
  BY <1>1, <1>2, <1>3 DEF TxSound, BuffersInTurn
<1>6. ASSUME ~overrun'  PROVE ~overrun /\ n < TxSlots
  <2>1. ~overrun /\ ~(n >= TxSlots)
    BY <1>2, <1>6, Zenon
  <2> QED
    BY <1>1, <2>1
<1>7. ASSUME ~overrun', NEW k \in 1 .. n + 1
      PROVE  queued'[k] = SlotOf(txindex', n + 1, k)
  <2>1. SlotOf(txindex', n + 1, k) = IF txindex' >= n + 2 - k THEN txindex' - (n + 2 - k)
                                                   ELSE txindex' - (n + 2 - k) + TxSlots
    <3>1. n + 1 \in 0 .. TxSlots
      BY <1>1, <1>6, <1>7
    <3>2. SlotOf(txindex', n + 1, k) =
             IF txindex' >= (n + 1) + 1 - k THEN txindex' - ((n + 1) + 1 - k)
                                            ELSE txindex' - ((n + 1) + 1 - k) + TxSlots
      BY <1>5, <3>1, SlotOfIs
    <3> QED
      BY <1>1, <3>2
  <2>2. CASE k \in 1 .. n
    <3>1. queued[k] = SlotOf(txindex, n, k)
      BY <1>6, <1>7, <2>2 DEF TxSound, BuffersInTurn, SlotOf
    <3>2. SlotOf(txindex, n, k) = IF txindex >= n + 1 - k THEN txindex - (n + 1 - k)
                                                   ELSE txindex - (n + 1 - k) + TxSlots
      <4>1. n \in 0 .. TxSlots /\ txindex \in 0 .. TxSlots - 1
        BY <1>1, <1>6, <1>7
      <4> QED
        BY <2>2, <4>1, SlotOfIs
    <3>3. queued'[k] = queued[k] /\ n < TxSlots
      BY <1>4, <1>6, <1>7, <2>2
    <3> QED
      BY <1>1, <1>3, <2>1, <2>2, <3>1, <3>2, <3>3
  <2>3. CASE k = n + 1
    <3>1. queued'[k] = txindex /\ n < TxSlots
      BY <1>4, <1>6, <1>7, <2>3
    <3> QED
      BY <1>1, <1>3, <2>1, <2>3, <3>1, SMTT(30)
  <2> QED
    BY <1>1, <1>7, <2>2, <2>3
<1>8. BuffersInTurn'
  BY <1>1, <1>4, <1>5, <1>6, <1>7 DEF BuffersInTurn, SlotOf
<1>9. ASSUME ~overrun', NEW k \in 1 .. n + 1
      PROVE  txbuf'[queued'[k]] = due'[k]
  <2>1. CASE k \in 1 .. n
    <3>1. queued[k] # txindex /\ queued[k] \in 0 .. TxSlots - 1
      BY <1>1, <1>6, <1>9, <2>1, NextSlotFree
    <3>2. txbuf[queued[k]] = due[k]
      BY <1>6, <1>9, <2>1 DEF TxSound, SendsWhatWasGiven
    <3> QED
      BY <1>1, <1>2, <1>4, <2>1, <3>1, <3>2
  <2>2. CASE k = n + 1
    BY <1>1, <1>2, <1>4, <2>2
  <2> QED
    BY <1>1, <1>9, <2>1, <2>2
<1>10. SendsWhatWasGiven'
  BY <1>4, <1>9 DEF SendsWhatWasGiven
<1> QED
  BY <1>4, <1>5, <1>8, <1>10 DEF TxSound

\* The card sends the oldest.
LEMMA TransmitSound ==
  ASSUME TxSound, Transmit
  PROVE  TxSound'
<1> DEFINE n == Len(queued)
<1>1. /\ queued \in Seq(0 .. TxSlots - 1) /\ due \in Seq(TxFrames)
      /\ n \in Nat \ {0} /\ Len(due) = n /\ queued # <<>> /\ due # <<>>
  BY DEF TxSound, BuffersInTurn, Transmit
<1>2. /\ queued' \in Seq(0 .. TxSlots - 1) /\ due' \in Seq(TxFrames)
      /\ Len(queued') = n - 1 /\ Len(due') = n - 1
      /\ \A k \in 1 .. n - 1 : queued'[k] = queued[k + 1] /\ due'[k] = due[k + 1]
  BY <1>1 DEF Transmit
<1>3. UNCHANGED <<txbuf, txindex, overrun>>
  BY DEF Transmit
<1>4. ASSUME ~overrun, NEW k \in 1 .. n - 1
      PROVE  queued'[k] = SlotOf(txindex, n - 1, k) /\ txbuf[queued'[k]] = due'[k]
  <2>1. k + 1 \in 1 .. n
    BY <1>1
  <2>2. queued[k + 1] = SlotOf(txindex, n, k + 1) /\ txbuf[queued[k + 1]] = due[k + 1]
    BY <1>4, <2>1 DEF TxSound, BuffersInTurn, SendsWhatWasGiven, SlotOf
  <2>3. txindex + TxSlots + (k + 1) - 1 - n = txindex + TxSlots + k - 1 - (n - 1)
    BY <1>1 DEF TxSound
  <2> QED
    BY <1>2, <2>2, <2>3 DEF SlotOf
<1>5. BuffersInTurn'
  BY <1>1, <1>2, <1>3, <1>4 DEF TxSound, BuffersInTurn, SlotOf
<1>6. SendsWhatWasGiven'
  BY <1>2, <1>3, <1>4 DEF SendsWhatWasGiven
<1> QED
  BY <1>2, <1>3, <1>5, <1>6 DEF TxSound

-----------------------------------------------------------------------------
(* The receive buffer.                                                     *)

RxTypes ==
    /\ wr \in 0 .. RingWords - 1 /\ rd \in 0 .. RingWords - 1
    /\ buffer \in [Span -> [frame : 0 .. MaxFrames, part : 0 .. ExtraWords]]
    /\ frames \in 0 .. MaxFrames

RxSound == RxTypes /\ FramesInTurn

LEMMA RxUnchanged ==
  ASSUME RxSound, UNCHANGED rxVars
  PROVE  RxSound'
<1>1. UNCHANGED <<buffer, wr, rd, pending, frames>>
  BY DEF rxVars
<1> QED
  BY <1>1 DEF RxSound, RxTypes, FramesInTurn, LaidOut, Holds

\* A header and at least one word; less than the ring.
LEMMA SizeIs ==
  ASSUME NEW f, f.kind \in Kinds
  PROVE  /\ Words[f.kind] \in 1 .. ExtraWords
         /\ Size(f) = 1 + Words[f.kind] /\ Size(f) \in 2 .. RingWords - 1
BY DEF Size

\* Where the frames that wait lie is typed.
LEMMA LaidOutTyped ==
  ASSUME RxTypes, pending \in Seq(RxFrames),
         NEW at \in [1 .. Len(pending) + 1 -> 0 .. RingWords - 1], LaidOut(at)
  PROVE  /\ Len(pending) \in Nat
         /\ \A j \in 1 .. Len(pending) + 1 : at[j] \in 0 .. RingWords - 1
         /\ \A j \in 1 .. Len(pending) : /\ j \in 1 .. Len(pending) + 1 /\ j + 1 \in 1 .. Len(pending) + 1
                                         /\ pending[j].kind \in Kinds
                                         /\ at[j] + Size(pending[j]) = at[j + 1]
                                         /\ at[j + 1] <= at[Len(pending) + 1]
         /\ at[Len(pending) + 1] \in 0 .. RingWords - 1
<1>1. Len(pending) \in Nat
  OBVIOUS
<1>2. \A j \in 1 .. Len(pending) : pending[j].kind \in Kinds
  <2>1. \A j \in 1 .. Len(pending) : pending[j] \in RxFrames
    OBVIOUS
  <2> QED
    BY <2>1 DEF RxFrames
<1> QED
  BY <1>1, <1>2 DEF LaidOut

\* What the card finds free, when a frame fits.
LEMMA Fits ==
  ASSUME RxTypes, pending \in Seq(RxFrames),
         NEW at \in [1 .. Len(pending) + 1 -> 0 .. RingWords - 1], LaidOut(at),
         NEW f, f.kind \in Kinds,
         ~ ((rd - wr) % RingWords # 0 /\ Size(f) >= (rd - wr) % RingWords)
  PROVE  at[Len(pending) + 1] + Size(f) < RingWords
<1> DEFINE end == at[Len(pending) + 1]
<1>1. end \in 0 .. RingWords - 1 /\ rd \in 0 .. RingWords - 1 /\ wr \in 0 .. RingWords - 1
  BY LaidOutTyped DEF RxTypes
<1>2. wr = (rd + end) % RingWords
  BY DEF LaidOut
<1> SUFFICES end + Size(f) < RingWords
  OBVIOUS
<1> HIDE DEF end
<1>3. wr = IF rd + end < RingWords THEN rd + end ELSE rd + end - RingWords
  <2>1. end \in 0 .. RingWords
    BY <1>1
  <2> QED
    BY <1>1, <1>2, <2>1, Round
<1> DEFINE free == (rd - wr) % RingWords
<1>4. free = IF rd >= wr THEN rd - wr ELSE rd - wr + RingWords
  BY <1>1, Free
<1>5. Size(f) \in 2 .. RingWords - 1 /\ ~ (free # 0 /\ Size(f) >= free)
  BY SizeIs
<1> HIDE DEF free
<1>6. CASE end = 0
  BY <1>1, <1>5, <1>6
<1>7. CASE end # 0
  <2>1. free = RingWords - end
    BY <1>1, <1>3, <1>4, <1>7
  <2> QED
    BY <1>1, <1>5, <2>1
<1> QED
  BY <1>6, <1>7

\* What the card writes goes over none of the frames that wait.
LEMMA NothingWrittenOver ==
  ASSUME NEW r \in 0 .. RingWords - 1, NEW end \in 0 .. RingWords - 1, NEW a \in 0 .. end,
         NEW size \in Nat, end + size < RingWords,
         NEW k \in 0 .. ExtraWords, a + k < end
  PROVE  /\ ~ ((((r + a) % RingWords) + k) - ((r + end) % RingWords) \in 0 .. size - 1)
         /\ ((r + a) % RingWords) + k \in Span
<1>1. a \in 0 .. RingWords /\ end \in 0 .. RingWords
  OBVIOUS
<1> DEFINE p == (r + a) % RingWords
<1> DEFINE w == (r + end) % RingWords
<1>2. /\ p = IF r + a < RingWords THEN r + a ELSE r + a - RingWords
      /\ w = IF r + end < RingWords THEN r + end ELSE r + end - RingWords
  BY <1>1, Round
<1>3. p \in Nat /\ w \in Nat
  BY <1>2
<1> HIDE DEF p, w
<1>4. ~ ((p + k) - w \in 0 .. size - 1)
  BY <1>2, <1>3
<1>5. p + k \in Span
  BY <1>2, <1>3 DEF Span
<1> QED
  BY <1>4, <1>5 DEF p, w

\* The frames that wait are still there when the card has written another one
\* behind them.
LEMMA StoreSound ==
  ASSUME RxSound, NEW f \in RxFrames, frames' \in 0 .. MaxFrames, rd' = rd,
         ~ ((rd - wr) % RingWords # 0 /\ Size(f) >= (rd - wr) % RingWords),
         buffer' = [w \in Span |-> IF w - wr \in 0 .. Size(f) - 1
                                   THEN Word(f, w - wr) ELSE buffer[w]],
         wr' = (wr + Size(f)) % RingWords, pending' = Append(pending, f)
  PROVE  RxSound'
<1>1. RxTypes /\ pending \in Seq(RxFrames)
  BY DEF RxSound, FramesInTurn
<1>2. PICK at \in [1 .. Len(pending) + 1 -> 0 .. RingWords - 1] : LaidOut(at)
  BY DEF RxSound, FramesInTurn
<1> DEFINE n == Len(pending)
<1>0. PICK end : end = at[n + 1]
  OBVIOUS
<1>3. /\ n \in Nat /\ end \in 0 .. RingWords - 1
      /\ \A j \in 1 .. n + 1 : at[j] \in 0 .. RingWords - 1
      /\ \A j \in 1 .. n : /\ j \in 1 .. n + 1 /\ j + 1 \in 1 .. n + 1
                           /\ pending[j].kind \in Kinds
                           /\ at[j] + Size(pending[j]) = at[j + 1] /\ at[j + 1] <= end
  BY <1>0, <1>1, <1>2, LaidOutTyped
<1>4. f.kind \in Kinds /\ f.id \in 1 .. MaxFrames
  BY DEF RxFrames
<1>5. end + Size(f) < RingWords /\ Size(f) \in 2 .. RingWords - 1
  BY <1>0, <1>1, <1>2, <1>4, Fits, SizeIs
<1>6. rd \in 0 .. RingWords - 1 /\ wr \in 0 .. RingWords - 1 /\ wr = (rd + end) % RingWords
  BY <1>0, <1>1, <1>2 DEF RxTypes, LaidOut
<1>7. /\ Len(pending') = n + 1 /\ pending' \in Seq(RxFrames)
      /\ \A j \in 1 .. n : pending'[j] = pending[j]
      /\ pending'[n + 1] = f
  BY <1>1
<1>8. PICK bt \in [1 .. n + 2 -> 0 .. RingWords - 1] :
        /\ bt[n + 2] = end + Size(f) /\ \A j \in 1 .. n + 1 : bt[j] = at[j]
        /\ bt[n + 1] = end
  <2> DEFINE b == [j \in 1 .. n + 2 |-> IF j = n + 2 THEN end + Size(f) ELSE at[j]]
  <2>1. /\ b \in [1 .. n + 2 -> 0 .. RingWords - 1]
        /\ b[n + 2] = end + Size(f) /\ \A j \in 1 .. n + 1 : b[j] = at[j]
        /\ b[n + 1] = end
    BY <1>0, <1>3, <1>5
  <2> QED
    BY <2>1
<1>9. wr' = (rd + bt[n + 2]) % RingWords /\ wr' \in 0 .. RingWords - 1
  <2> DEFINE size == Size(f)
  <2>1. end \in 0 .. RingWords /\ end + size \in 0 .. RingWords /\ size \in 0 .. RingWords
    BY <1>3, <1>5
  <2>2. wr' = (wr + size) % RingWords /\ bt[n + 2] = end + size
    BY <1>8
  <2> HIDE DEF size
  <2>3. wr' = (rd + (end + size)) % RingWords
    BY <1>6, <2>1, <2>2, RoundTwice
  <2>4. (rd + (end + size)) % RingWords \in 0 .. RingWords - 1
    BY <1>6, <2>1, Round
  <2> QED
    BY <2>2, <2>3, <2>4
<1>10. ASSUME NEW j \in 1 .. n
       PROVE  Holds(pending[j], (rd + at[j]) % RingWords)'
  <2> DEFINE p == (rd + at[j]) % RingWords
  <2> DEFINE q == pending[j]
  <2>1. Holds(q, p)
    BY <1>2 DEF LaidOut
  <2>2. ASSUME NEW k \in 0 .. Words[q.kind]
        PROVE  buffer'[p + k] = Word(q, k)
    <3> DEFINE a == at[j]
    <3>1. /\ q.kind \in Kinds /\ Words[q.kind] \in 1 .. ExtraWords
          /\ a + 1 + Words[q.kind] <= end /\ a \in Nat
      <4>1. q.kind \in Kinds /\ a + Size(q) <= end /\ a \in 0 .. RingWords - 1
        BY <1>3
      <4>2. Words[q.kind] \in 1 .. ExtraWords /\ Size(q) = 1 + Words[q.kind]
        BY <4>1, SizeIs
      <4> DEFINE words == Words[q.kind]
      <4>3. a + (1 + words) <= end /\ words \in Nat /\ a \in Nat /\ end \in Nat
        BY <1>3, <4>1, <4>2, SMTT(30)
      <4> HIDE DEF a, words
      <4>4. a + 1 + words <= end
        BY <4>3
      <4> QED
        BY <4>1, <4>2, <4>3, <4>4 DEF words
    <3> DEFINE size == Size(f)
    <3>2. a \in 0 .. end /\ k \in 0 .. ExtraWords /\ a + k < end /\ size \in Nat
          /\ end + size < RingWords
      <4> DEFINE words == Words[q.kind]
      <4>1. /\ size \in Nat /\ end + size < RingWords /\ k \in 0 .. words
            /\ words \in 1 .. ExtraWords /\ a + 1 + words <= end /\ a \in Nat /\ end \in Nat
        BY <1>3, <1>5, <3>1
      <4> HIDE DEF a, words, size
      <4> QED
        BY <4>1
    <3> HIDE DEF a, size
    <3>3. /\ ~ ((((rd + a) % RingWords) + k) - ((rd + end) % RingWords) \in 0 .. size - 1)
          /\ ((rd + a) % RingWords) + k \in Span
      BY <1>3, <1>6, <3>2, NothingWrittenOver
    <3>4. ~ ((p + k) - wr \in 0 .. Size(f) - 1) /\ p + k \in Span
      BY <1>6, <3>3 DEF a, size
    <3>5. buffer[p + k] = Word(q, k)
      BY <2>1 DEF Holds
    <3> SUFFICES buffer'[p + k] = buffer[p + k]
      BY <3>5
    <3> HIDE DEF p, q
    <3>6. \A w \in Span : ~ (w - wr \in 0 .. Size(f) - 1) => buffer'[w] = buffer[w]
      OBVIOUS
    <3> QED
      BY <3>4, <3>6
  <2>3. p' = (rd' + at[j]) % RingWords
    OBVIOUS
  <2> QED
    BY <1>7, <2>2 DEF Holds, Word
<1>11. Holds(f, (rd + end) % RingWords)'
  <2>1. ASSUME NEW k \in 0 .. Words[f.kind]
        PROVE  buffer'[wr + k] = Word(f, k)
    <3>1. k \in 0 .. Size(f) - 1 /\ k \in 0 .. ExtraWords
      BY <1>4, SizeIs, SMTT(30)
    <3>2. wr + k \in Span /\ (wr + k) - wr = k
      BY <1>6, <3>1 DEF Span
    <3> QED
      BY <3>1, <3>2
  <2>2. (rd' + end) % RingWords = wr
    BY <1>6
  <2> QED
    BY <2>1, <2>2 DEF Holds, Word
<1>12. buffer' \in [Span -> [frame : 0 .. MaxFrames, part : 0 .. ExtraWords]]
  <2>1. ASSUME NEW w \in Span, w - wr \in 0 .. Size(f) - 1
        PROVE  Word(f, w - wr) \in [frame : 0 .. MaxFrames, part : 0 .. ExtraWords]
    <3>1. w - wr \in 0 .. ExtraWords
      BY <1>4, <2>1, SizeIs, SMTT(30)
    <3>2. f.id \in 0 .. MaxFrames
      BY <1>4
    <3> QED
      BY <3>1, <3>2 DEF Word
  <2> QED
    BY <1>1, <2>1 DEF RxTypes
<1>13. LaidOut(bt)'
  <2>1. bt[1] = 0
    BY <1>2, <1>3, <1>8 DEF LaidOut
  <2>2. wr' = (rd' + bt[n + 2]) % RingWords
    BY <1>9
  <2>3. ASSUME NEW j \in 1 .. n + 1
        PROVE  /\ bt[j + 1] = bt[j] + Size(pending'[j])
               /\ Holds(pending[j], (rd + bt[j]) % RingWords)'
    <3>1. CASE j \in 1 .. n
      <4>1. /\ j \in 1 .. n + 1 /\ j + 1 \in 1 .. n + 1 /\ bt[j] = at[j] /\ bt[j + 1] = at[j + 1]
            /\ pending'[j] = pending[j] /\ at[j] + Size(pending[j]) = at[j + 1]
        BY <1>3, <1>7, <1>8, <3>1
      <4>2. Holds(pending[j], (rd + at[j]) % RingWords)'
        BY <1>10, <3>1
      <4>3. Holds(pending[j], (rd + bt[j]) % RingWords)'
        BY <4>1, <4>2
      <4> QED
        BY <4>1, <4>3
    <3>2. CASE j = n + 1
      <4>1. /\ j + 1 = n + 2 /\ pending'[j] = f /\ bt[j] = end
        BY <1>3, <1>7, <1>8, <3>2
      <4> QED
        BY <1>8, <1>11, <4>1 DEF Holds, Word, Size
    <3> QED
      BY <1>3, <3>1, <3>2
  <2>4. ASSUME NEW i \in 1 .. n + 2, NEW j \in 1 .. n + 2, i <= j
        PROVE  bt[i] <= bt[j]
    <3>1. CASE j = n + 2
      <4>1. \A k \in 1 .. n + 1 : at[k] <= end
        <5>1. n + 1 \in 1 .. n + 1 /\ \A k \in 1 .. n + 1 : k <= n + 1
          BY <1>3
        <5> QED
          BY <1>0, <1>2, <5>1 DEF LaidOut
      <4>2. CASE i = n + 2
        BY <1>3, <1>5, <1>8, <3>1, <4>2
      <4>3. CASE i # n + 2
        <5>1. /\ i \in 1 .. n + 1 /\ bt[i] = at[i] /\ at[i] \in Nat /\ at[i] <= end
          BY <1>3, <1>8, <4>1, <4>3
        <5> QED
          BY <1>3, <1>5, <1>8, <3>1, <5>1
      <4> QED
        BY <4>2, <4>3
    <3>2. CASE j # n + 2
      <4>1. i \in 1 .. n + 1 /\ j \in 1 .. n + 1
        BY <1>3, <2>4, <3>2
      <4> QED
        BY <1>2, <1>8, <2>4, <4>1 DEF LaidOut
    <3> QED
      BY <3>1, <3>2
  <2> QED
    BY <1>3, <1>7, <2>1, <2>2, <2>3, <2>4 DEF LaidOut, Size
<1>14. FramesInTurn'
  <2>1. bt \in [1 .. Len(pending') + 1 -> 0 .. RingWords - 1]
    BY <1>3, <1>7, <1>8
  <2> QED
    BY <1>7, <1>13, <2>1 DEF FramesInTurn
<1>15. RxTypes'
  BY <1>1, <1>9, <1>12 DEF RxTypes
<1> QED
  BY <1>14, <1>15 DEF RxSound

\* The driver goes on to the frame behind the one it took.
LEMMA TakenSound ==
  ASSUME RxSound, pending # <<>>, Taken(Head(pending))
  PROVE  RxSound'
<1>1. RxTypes /\ pending \in Seq(RxFrames)
  BY DEF RxSound, FramesInTurn
<1>2. PICK at \in [1 .. Len(pending) + 1 -> 0 .. RingWords - 1] : LaidOut(at)
  BY DEF RxSound, FramesInTurn
<1> DEFINE n == Len(pending)
<1> DEFINE end == at[n + 1]
<1>3. /\ n \in Nat \ {0} /\ end \in 0 .. RingWords - 1
      /\ \A j \in 1 .. n + 1 : at[j] \in 0 .. RingWords - 1
      /\ \A j \in 1 .. n : /\ j \in 1 .. n + 1 /\ j + 1 \in 1 .. n + 1
                           /\ pending[j].kind \in Kinds
                           /\ at[j] + Size(pending[j]) = at[j + 1] /\ at[j + 1] <= end
  <2>1. n \in Nat \ {0}
    BY <1>1
  <2> QED
    BY <1>1, <1>2, <2>1, LaidOutTyped, Zenon
<1>4. /\ at[1] = 0 /\ wr = (rd + end) % RingWords
      /\ \A i, j \in 1 .. n + 1 : i <= j => at[i] <= at[j]
      /\ \A j \in 1 .. n : Holds(pending[j], (rd + at[j]) % RingWords)
  BY <1>2 DEF LaidOut
<1>5. /\ Head(pending) = pending[1] /\ pending' = Tail(pending)
      /\ UNCHANGED <<buffer, wr, frames>>
      /\ rd' = (rd + Size(pending[1])) % RingWords
  BY <1>1 DEF Taken, NextFrame
<1>6. /\ Len(pending') = n - 1 /\ pending' \in Seq(RxFrames)
      /\ \A j \in 1 .. n - 1 : pending'[j] = pending[j + 1]
  BY <1>1, <1>3, <1>5
<1>7. at[2] = Size(pending[1]) /\ at[2] \in 0 .. RingWords - 1
  BY <1>3, <1>4, SizeIs
<1>8. rd \in 0 .. RingWords - 1 /\ rd' \in 0 .. RingWords - 1
  <2>1. rd \in 0 .. RingWords - 1 /\ at[2] \in 0 .. RingWords
    BY <1>1, <1>7 DEF RxTypes
  <2> QED
    BY <1>5, <1>7, <2>1, Round
<1>9. PICK bt \in [1 .. n -> 0 .. RingWords - 1] : \A j \in 1 .. n : bt[j] = at[j + 1] - at[2]
  <2> DEFINE b == [j \in 1 .. n |-> at[j + 1] - at[2]]
  <2>1. ASSUME NEW j \in 1 .. n  PROVE at[j + 1] - at[2] \in 0 .. RingWords - 1
    <3>1. 2 \in 1 .. n + 1 /\ j + 1 \in 1 .. n + 1 /\ 2 <= j + 1
      BY <1>3
    <3>2. at[2] <= at[j + 1]
      BY <1>4, <3>1
    <3>3. at[j + 1] \in 0 .. RingWords - 1
      BY <1>3, <3>1, Zenon
    <3> HIDE DEF b
    <3> QED
      BY <1>7, <3>2, <3>3
  <2>2. b \in [1 .. n -> 0 .. RingWords - 1] /\ \A j \in 1 .. n : b[j] = at[j + 1] - at[2]
    BY <2>1
  <2> QED
    BY <2>2
<1>10. ASSUME NEW j \in 1 .. n
       PROVE  (rd' + bt[j]) % RingWords = (rd + at[j + 1]) % RingWords
  <2> DEFINE a == at[2]
  <2> DEFINE c == at[j + 1]
  <2>1. /\ bt[j] = c - a /\ bt[j] \in 0 .. RingWords /\ a \in 0 .. RingWords /\ c \in 0 .. RingWords
        /\ a < RingWords /\ c < RingWords
    <3>1. bt[j] = c - a /\ bt[j] \in 0 .. RingWords - 1
      BY <1>9, Zenon
    <3>2. a \in 0 .. RingWords - 1 /\ c \in 0 .. RingWords - 1
      <4>1. j + 1 \in 1 .. n + 1
        BY <1>3
      <4> QED
        BY <1>3, <1>7, <4>1, Zenon
    <3> HIDE DEF a, c
    <3> QED
      BY <1>1, <3>1, <3>2
  <2>2. rd' = (rd + a) % RingWords
    BY <1>5, <1>7
  <2>3. a + bt[j] = c
    BY <2>1
  <2> HIDE DEF a, c
  <2>4. (rd' + bt[j]) % RingWords = (rd + (a + bt[j])) % RingWords
    BY <1>8, <2>1, <2>2, <2>3, RoundTwice
  <2> QED
    BY <2>3, <2>4 DEF c
<1>11. LaidOut(bt)'
  <2>1. bt[1] = 0
    BY <1>3, <1>7, <1>9
  <2>2. wr' = (rd' + bt[n]) % RingWords
    BY <1>3, <1>4, <1>5, <1>10
  <2>3. ASSUME NEW j \in 1 .. n - 1
        PROVE  /\ bt[j + 1] = bt[j] + Size(pending'[j])
               /\ Holds(pending[j], (rd + bt[j]) % RingWords)'
    <3>1. j \in 1 .. n /\ j + 1 \in 1 .. n /\ pending'[j] = pending[j + 1]
      BY <1>3, <1>6
    <3>2. at[j + 1] + Size(pending[j + 1]) = at[(j + 1) + 1] /\ Size(pending[j + 1]) \in Nat
      BY <1>3, <3>1, SizeIs, SMTT(30)
    <3>3. bt[j + 1] = at[(j + 1) + 1] - at[2] /\ bt[j] = at[j + 1] - at[2]
      BY <1>9, <3>1
    <3>4. bt[j + 1] = bt[j] + Size(pending[j + 1])
      BY <1>3, <1>7, <3>1, <3>2, <3>3
    <3>5. Holds(pending[j + 1], (rd + at[j + 1]) % RingWords)
      BY <1>4, <3>1
    <3> QED
      BY <1>5, <1>10, <3>1, <3>4, <3>5 DEF Holds, Word
  <2>4. ASSUME NEW i \in 1 .. n, NEW j \in 1 .. n, i <= j
        PROVE  bt[i] <= bt[j]
    <3>1. i + 1 \in 1 .. n + 1 /\ j + 1 \in 1 .. n + 1 /\ i + 1 <= j + 1
      BY <1>3, <2>4
    <3>2. at[i + 1] <= at[j + 1]
      BY <1>4, <3>1
    <3>3. /\ bt[i] = at[i + 1] - at[2] /\ bt[j] = at[j + 1] - at[2]
          /\ at[i + 1] \in Int /\ at[j + 1] \in Int /\ at[2] \in Int
      BY <1>3, <1>7, <1>9, <3>1
    <3> QED
      BY <3>2, <3>3
  <2> QED
    BY <1>3, <1>6, <2>1, <2>2, <2>3, <2>4 DEF LaidOut, Size
<1>12. FramesInTurn'
  <2>1. bt \in [1 .. Len(pending') + 1 -> 0 .. RingWords - 1]
    BY <1>3, <1>6
  <2> QED
    BY <1>6, <1>11, <2>1 DEF FramesInTurn
<1>13. RxTypes'
  BY <1>1, <1>5, <1>8 DEF RxTypes
<1> QED
  BY <1>12, <1>13 DEF RxSound

-----------------------------------------------------------------------------
(* The invariant.                                                          *)

\* What is left of IInv beside the two sides of the card.
Rest ==
    /\ up \in BOOLEAN /\ ip \in Addresses /\ sent \in 0 .. MaxSent
    /\ NothingBefore

LEMMA IInvOfParts ==
  IInv <=> Rest /\ TxSound /\ RxSound
BY DEF IInv, Rest, TxSound, RxSound, RxTypes, TypeOK

LEMMA IInvOfPartsNext ==
  Rest' /\ TxSound' /\ RxSound' => IInv'
BY IInvOfParts, PTL

LEMMA Initially ==
  Init => IInv
<1> SUFFICES ASSUME Init  PROVE IInv
  OBVIOUS
<1> USE DEF Init, CardInit
<1>1. Rest
  <2>1. up = FALSE /\ pending = <<>> /\ queued = <<>> /\ rd = wr /\ ip = BootAddress
    OBVIOUS
  <2>2. sent \in 0 .. MaxSent
    OBVIOUS
  <2> QED
    BY <2>1, <2>2, Zenon DEF Rest, NothingBefore
<1>2. TxSound
  <2>1. queued \in Seq(0 .. TxSlots - 1) /\ due \in Seq(TxFrames) /\ Len(queued) = 0 /\ Len(due) = 0
    OBVIOUS
  <2>2. txbuf \in [0 .. TxSlots - 1 -> {Nothing} \cup TxFrames]
    OBVIOUS
  <2> QED
    BY <2>1, <2>2 DEF TxSound, BuffersInTurn, SendsWhatWasGiven
<1>3. RxTypes
  BY DEF RxTypes, Blank
<1>4. FramesInTurn
  <2>1. pending \in Seq(RxFrames) /\ Len(pending) = 0
    OBVIOUS
  <2> DEFINE at == [j \in 1 .. 1 |-> 0]
  <2>2. at \in [1 .. 1 -> 0 .. RingWords - 1] /\ at[1] = 0
    OBVIOUS
  <2>3. (0 + 0) % RingWords = 0
    <3>1. 0 \in 0 .. RingWords - 1 /\ 0 \in 0 .. RingWords
      OBVIOUS
    <3> QED
      BY <3>1, Round
  <2>4. LaidOut(at)
    <3> HIDE DEF at
    <3> QED
      BY <2>1, <2>2, <2>3 DEF LaidOut
  <2> QED
    BY <2>1, <2>2, <2>4 DEF FramesInTurn
<1> QED
  BY <1>1, <1>2, <1>3, <1>4, IInvOfParts DEF RxSound

\* rtl8139_init: nothing was received and nothing waits when the offsets are reset.
LEMMA CardStartKeeps ==
  ASSUME IInv, CardStart
  PROVE  IInv'
<1>1. /\ pending = <<>> /\ queued = <<>> /\ rd = wr /\ Len(pending) = 0 /\ Len(queued) = 0
  BY DEF IInv, CardStart, NothingBefore
<1>2. Rest'
  BY DEF CardStart, IInv, TypeOK, Rest, NothingBefore
<1>3. TxSound'
  BY <1>1 DEF CardStart, IInv, TypeOK, TxSound, BuffersInTurn, SendsWhatWasGiven
<1>4. RxSound'
  <2>1. RxTypes'
    BY DEF CardStart, IInv, TypeOK, RxTypes
  <2>2. PICK at \in [1 .. 1 -> 0 .. RingWords - 1] : at[1] = 0
    <3> DEFINE a == [j \in 1 .. 1 |-> 0]
    <3>1. a \in [1 .. 1 -> 0 .. RingWords - 1] /\ a[1] = 0
      OBVIOUS
    <3> QED
      BY <3>1
  <2>3. (0 + 0) % RingWords = 0
    <3>1. 0 \in 0 .. RingWords - 1 /\ 0 \in 0 .. RingWords
      OBVIOUS
    <3> QED
      BY <3>1, Round
  <2>4. LaidOut(at)'
    BY <1>1, <2>2, <2>3 DEF CardStart, LaidOut
  <2> QED
    BY <1>1, <2>1, <2>2, <2>4 DEF CardStart, RxSound, FramesInTurn
<1> QED
  BY <1>2, <1>3, <1>4, IInvOfPartsNext

\* A frame comes in, and is kept or dropped.
LEMMA ArriveKeeps ==
  ASSUME IInv, NEW kind \in Kinds, NEW sender \in Entries, NEW addr \in Addresses,
         Arrive(kind, sender, addr)
  PROVE  IInv'
<1> DEFINE f == [id |-> frames + 1, kind |-> kind, from |-> sender, to |-> addr]
<1>0. Rest /\ TxSound /\ RxSound
  BY IInvOfParts
<1>1. /\ up /\ UNCHANGED <<up, ip, sent>> /\ UNCHANGED txVars /\ rd' = rd
      /\ frames < MaxFrames /\ frames' = frames + 1
  BY DEF Arrive
<1>2. Rest'
  BY <1>0, <1>1 DEF Rest, NothingBefore
<1>3. TxSound'
  BY <1>0, <1>1, TxUnchanged
<1>4. frames \in 0 .. MaxFrames
  BY <1>0 DEF RxSound, RxTypes
<1>5. f \in RxFrames /\ frames' \in 0 .. MaxFrames
  BY <1>1, <1>4 DEF RxFrames
<1>6. CASE (rd - wr) % RingWords # 0 /\ Size(f) >= (rd - wr) % RingWords
  <2>1. UNCHANGED <<buffer, wr, pending>>
    BY <1>6 DEF Arrive
  <2>2. RxSound'
    BY <1>0, <1>1, <1>5, <2>1 DEF RxSound, RxTypes, FramesInTurn, LaidOut, Holds
  <2> QED
    BY <1>2, <1>3, <2>2, IInvOfPartsNext
<1>7. CASE ~ ((rd - wr) % RingWords # 0 /\ Size(f) >= (rd - wr) % RingWords)
  <2>1. /\ buffer' = [w \in Span |-> IF w - wr \in 0 .. Size(f) - 1
                                     THEN Word(f, w - wr) ELSE buffer[w]]
        /\ wr' = (wr + Size(f)) % RingWords /\ pending' = Append(pending, f)
    BY <1>7 DEF Arrive
  <2> HIDE DEF f
  <2>2. RxSound'
    BY <1>0, <1>1, <1>5, <1>7, <2>1, StoreSound
  <2> QED
    BY <1>2, <1>3, <2>2, IInvOfPartsNext
<1> QED
  BY <1>6, <1>7

\* The oldest frame leaves.
LEMMA TransmitKeeps ==
  ASSUME IInv, Transmit
  PROVE  IInv'
<1>1. Rest /\ TxSound /\ RxSound
  BY IInvOfParts
<1>2. TxSound' /\ UNCHANGED rxVars /\ UNCHANGED <<up, ip, sent>> /\ queued # <<>>
  BY <1>1, TransmitSound DEF Transmit
<1>3. RxSound'
  BY <1>1, <1>2, RxUnchanged
<1>4. Rest'
  BY <1>1, <1>2 DEF Rest, NothingBefore
<1> QED
  BY <1>2, <1>3, <1>4, IInvOfPartsNext

\* A poll takes one frame and answers with one at most, whatever it read.
LEMMA PollKeeps ==
  ASSUME IInv, NEW wanted, Poll(wanted)
  PROVE  IInv'
<1>1. Rest /\ TxSound /\ RxSound
  BY IInvOfParts
<1>2. /\ up /\ pending # <<>> /\ Taken(Head(pending)) /\ UNCHANGED <<up, ip, sent>>
  BY DEF Poll
<1>3. RxSound'
  BY <1>1, <1>2, TakenSound
<1>4. Rest'
  BY <1>1, <1>2 DEF Rest, NothingBefore
<1>5. TxSound'
  <2>1. PICK s \in Seen(Head(pending)) :
           IF s.kind \in wanted THEN Handle(s) ELSE UNCHANGED <<cache, txVars>>
    BY DEF Poll
  <2>2. s.kind \in Kinds /\ s.from.ip \in Hosts
    <3>1. Head(pending) \in RxFrames
      BY <1>1, <1>2 DEF RxSound, FramesInTurn
    <3> QED
      BY <2>1, <3>1 DEF Seen, RxFrames, Entries
  <2>3. CASE UNCHANGED txVars
    BY <1>1, <2>3, TxUnchanged
  <2>4. CASE SendFrame([kind |-> s.kind, to |-> s.from.ip])
    <3>1. [kind |-> s.kind, to |-> s.from.ip] \in TxFrames
      BY <2>2 DEF TxFrames
    <3> QED
      BY <1>1, <2>4, <3>1, SendFrameSound
  <2> QED
    BY <2>1, <2>3, <2>4 DEF Handle
<1> QED
  BY <1>3, <1>4, <1>5, IInvOfPartsNext

\* Every command that sends hands over one frame.
LEMMA ShellSendKeeps ==
  ASSUME IInv, ShellSend
  PROVE  IInv'
<1>1. Rest /\ TxSound /\ RxSound
  BY IInvOfParts
<1>2. /\ up /\ sent < MaxSent /\ sent' = sent + 1 /\ UNCHANGED <<up, ip>> /\ UNCHANGED rxVars
  BY DEF ShellSend
<1>3. RxSound'
  BY <1>1, <1>2, RxUnchanged
<1>4. Rest'
  BY <1>1, <1>2 DEF Rest, NothingBefore
<1>5. TxSound'
  <2>1. PICK f \in TxFrames : SendFrame(f)
    <3>1. PICK k \in {"arp_request", "echo_request", "other"}, h \in Hosts :
             SendFrame([kind |-> k, to |-> h])
      BY Zenon DEF ShellSend, RtlTx, WhoHas, Ping, UdpSend
    <3>2. [kind |-> k, to |-> h] \in TxFrames
      BY DEF TxFrames, Requests
    <3> QED
      BY <3>1, <3>2, Zenon
  <2> QED
    BY <1>1, <2>1, SendFrameSound
<1> QED
  BY <1>3, <1>4, <1>5, IInvOfPartsNext

LEMMA SetIpKeeps ==
  ASSUME IInv, NEW addr \in Addresses, SetIp(addr)
  PROVE  IInv'
<1>1. Rest /\ TxSound /\ RxSound
  BY IInvOfParts
<1>2. ip' \in Addresses /\ UNCHANGED <<up, sent>> /\ UNCHANGED rxVars /\ UNCHANGED txVars
  BY DEF SetIp
<1>3. RxSound' /\ TxSound'
  BY <1>1, <1>2, RxUnchanged, TxUnchanged
<1>4. Rest'
  BY <1>1, <1>2 DEF Rest, NothingBefore, rxVars, txVars
<1> QED
  BY <1>3, <1>4, IInvOfPartsNext

LEMMA StutterKeeps ==
  ASSUME IInv, UNCHANGED vars
  PROVE  IInv'
<1>1. Rest /\ TxSound /\ RxSound
  BY IInvOfParts
<1>2. UNCHANGED <<up, ip, sent>> /\ UNCHANGED rxVars /\ UNCHANGED txVars
  BY DEF vars
<1>3. RxSound' /\ TxSound'
  BY <1>1, <1>2, RxUnchanged, TxUnchanged
<1>4. Rest'
  BY <1>1, <1>2 DEF Rest, NothingBefore, rxVars, txVars
<1> QED
  BY <1>3, <1>4, IInvOfPartsNext

LEMMA NextKeeps ==
  IInv /\ [Next]_vars => IInv'
<1> SUFFICES ASSUME IInv, [Next]_vars  PROVE IInv'
  OBVIOUS
<1>1. CASE CardStart
  BY <1>1, CardStartKeeps
<1>2. ASSUME NEW a \in Addresses, SetIp(a)  PROVE IInv'
  BY <1>2, SetIpKeeps
<1>3. ASSUME NEW a \in Addresses, NEW k \in Kinds, NEW s \in Entries, Arrive(k, s, a)
      PROVE  IInv'
  BY <1>3, ArriveKeeps
<1>4. CASE Transmit
  BY <1>4, TransmitKeeps
<1>5. CASE NetPoll \/ ArpPoll \/ IcmpPoll \/ IpPoll \/ RtlRx
  BY <1>5, PollKeeps DEF NetPoll, ArpPoll, IcmpPoll, IpPoll, RtlRx
<1>6. CASE ShellSend
  BY <1>6, ShellSendKeeps
<1>7. CASE UNCHANGED vars
  BY <1>7, StutterKeeps
<1> QED
  BY <1>1, <1>2, <1>3, <1>4, <1>5, <1>6, <1>7 DEF Next

-----------------------------------------------------------------------------
(* The theorems.                                                           *)

\* The transmit buffers are filled in turn, the frames that wait lie one behind
\* the other in the receive ring (rtl8139_send_frame, rtl8139_poll_receive).
THEOREM InvariantHolds == Spec => []IInv
<1>1. Init => IInv
  BY Initially
<1>2. IInv /\ [Next]_vars => IInv'
  BY NextKeeps
<1> QED
  BY <1>1, <1>2, PTL DEF Spec

\* What the card is about to send is what rtl8139_send_frame was given, as long
\* as no more frames wait than there are transmit buffers.
THEOREM SendsWhatWasGivenHolds == Spec => []SendsWhatWasGiven
<1>1. IInv => SendsWhatWasGiven
  BY DEF IInv
<1> QED
  BY <1>1, InvariantHolds, PTL

LEMMA InStepIfLaidOut ==
  IInv => InStep
<1> SUFFICES ASSUME IInv  PROVE InStep
  OBVIOUS
<1>1. RxTypes /\ pending \in Seq(RxFrames) /\ TypeOK
  BY DEF IInv, TypeOK, RxTypes, FramesInTurn
<1>2. PICK at \in [1 .. Len(pending) + 1 -> 0 .. RingWords - 1] : LaidOut(at)
  BY DEF IInv, FramesInTurn
<1>3. rd \in 0 .. RingWords - 1 /\ wr \in 0 .. RingWords - 1
  BY <1>1 DEF RxTypes
<1>4. (rd + 0) % RingWords = rd
  <2>1. 0 \in 0 .. RingWords /\ rd + 0 = rd /\ rd < RingWords
    BY <1>3
  <2> QED
    BY <1>3, <2>1, Round
<1>5. CASE pending = <<>>
  <2>1. Len(pending) + 1 = 1
    BY <1>5
  <2>2. rd = wr
    BY <1>2, <1>4, <2>1 DEF LaidOut
  <2> QED
    BY <1>1, <1>5, <2>2 DEF InStep
<1>6. CASE pending # <<>>
  <2> DEFINE f == Head(pending)
  <2>1. 1 \in 1 .. Len(pending) /\ f = pending[1] /\ Len(pending) \in Nat \ {0}
    BY <1>1, <1>6
  <2>2. /\ at[1] = 0 /\ wr = (rd + at[Len(pending) + 1]) % RingWords
        /\ Holds(f, (rd + 0) % RingWords)
    BY <1>2, <2>1 DEF LaidOut
  <2>3. /\ f.kind \in Kinds /\ at[1] + Size(f) <= at[Len(pending) + 1]
        /\ at[Len(pending) + 1] \in 0 .. RingWords - 1
    BY <1>1, <1>2, <2>1, LaidOutTyped
  <2>4. Words[f.kind] \in 1 .. ExtraWords /\ Size(f) = 1 + Words[f.kind]
    BY <2>3, SizeIs
  <2>5. \A k \in 0 .. Words[f.kind] : buffer[rd + k] = Word(f, k)
    BY <1>4, <2>2 DEF Holds
  <2>6. rd # wr
    <3> DEFINE end == at[Len(pending) + 1]
    <3>1. end \in 1 .. RingWords - 1 /\ end \in 0 .. RingWords /\ wr = (rd + end) % RingWords
      BY <2>2, <2>3, <2>4
    <3> HIDE DEF end
    <3>2. wr = IF rd + end < RingWords THEN rd + end ELSE rd + end - RingWords
      BY <1>3, <3>1, Round
    <3> QED
      BY <1>3, <3>1, <3>2
  <2>7. buffer[rd] = Word(f, 0)
    <3>1. 0 \in 0 .. Words[f.kind] /\ rd + 0 = rd
      BY <1>3, <2>4
    <3> QED
      BY <2>5, <3>1
  <2>8. ASSUME ~Straddles(f)  PROVE Read(f) = Body(f)
    <3> DEFINE words == Words[f.kind]
    <3>1. rd + (1 + words) <= RingWords /\ words \in Nat
      BY <1>3, <2>4, <2>8 DEF Straddles
    <3>2. ASSUME NEW k \in 1 .. words  PROVE buffer[(rd + k) % RingWords] = Word(f, k)
      <4>1. k \in 0 .. words /\ k \in 0 .. RingWords /\ rd + k < RingWords
        <5> HIDE DEF words
        <5> QED
          BY <1>3, <3>1
      <4>2. (rd + k) % RingWords = rd + k
        BY <1>3, <4>1, Round
      <4> QED
        BY <2>5, <4>1, <4>2
    <3> QED
      BY <3>2 DEF Read, Body
  <2> QED
    BY <1>1, <1>6, <2>6, <2>7, <2>8 DEF InStep
<1> QED
  BY <1>5, <1>6

\* The driver's offset is at the header of the oldest frame nobody took, and equals
\* the card's exactly when there is none; what it reads is what arrived, unless
\* that runs past the end of the ring (rtl8139_poll_receive).
THEOREM InStepHolds == Spec => []InStep
BY InvariantHolds, InStepIfLaidOut, PTL
=============================================================================
