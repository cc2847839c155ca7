-------------------------- MODULE CycleQueueProofs --------------------------
(***************************************************************************)
(* Theorems about CycleQueue, for every size, length and byte set, under   *)
(* NarrowSizes: the sum of two indices is a uint32_t.                      *)
(***************************************************************************)
EXTENDS CycleQueue, TLAPS

-----------------------------------------------------------------------------
(* Arithmetic and sequences.                                               *)

\* A sum that is no larger than a uint32_t is not reduced.
LEMMA ModBelow ==
    ASSUME NEW s \in Nat \ {0}, NEW a \in Nat, a < s
    PROVE  a % s = a
OBVIOUS

\* The index (at + n) % size, which passes the end of the buffer at most once.
LEMMA ModIndex ==
    ASSUME NEW s \in Nat \ {0}, NEW at \in 0..(s - 1), NEW n \in 0..(s - 1)
    PROVE  (at + n) % s = IF at + n < s THEN at + n ELSE at + n - s
OBVIOUS

\* The data of a write is a sequence of data_len bytes.
LEMMA DataIsSeq ==
    ASSUME NEW n \in Nat, NEW data \in [1..n -> Byte]
    PROVE  data \in Seq(Byte) /\ Len(data) = n
OBVIOUS

\* What appending accepted bytes to the unread ones gives.
LEMMA Appended ==
    ASSUME NEW s \in Seq(Byte), NEW t \in Seq(Byte)
    PROVE  /\ s \o t \in Seq(Byte)
           /\ Len(s \o t) = Len(s) + Len(t)
           /\ \A i \in 1..Len(s) : (s \o t)[i] = s[i]
           /\ \A i \in (Len(s) + 1)..(Len(s) + Len(t)) :
                 (s \o t)[i] = t[i - Len(s)]
OBVIOUS

\* What is left of the unread bytes after k of them were read.
LEMMA Dropped ==
    ASSUME NEW s \in Seq(Byte), NEW k \in 0..Len(s)
    PROVE  /\ SubSeq(s, k + 1, Len(s)) \in Seq(Byte)
           /\ Len(SubSeq(s, k + 1, Len(s))) = Len(s) - k
           /\ \A i \in 1..(Len(s) - k) :
                 SubSeq(s, k + 1, Len(s))[i] = s[k + i]
OBVIOUS

-----------------------------------------------------------------------------
(* The inductive invariant.                                                *)

\* Where the unread bytes lie: from tail on in one run while every write
\* went in one piece, in the two pieces of its write when there is only one.
LayoutInv ==
    thiz = "live" =>
        /\ fifo = <<>> => layout = "straight"
        /\ layout = "straight" =>
              /\ tail <= head
              /\ \A i \in 1..Len(fifo) : buf[tail + i - 1] = fifo[i]
        /\ layout = "lone" =>
              /\ tail + Len(fifo) >= size
              /\ \A i \in 1..Len(fifo) :
                    buf[Cell(tail, Len(fifo), i)] = fifo[i]

\* The sizes a queue was created with are sizes of Sizes.
SizeInv == thiz = "live" => size \in Sizes

IInv == TypeOK /\ SizeInv /\ Accounting /\ ObjectBlockOwned /\ LayoutInv

-----------------------------------------------------------------------------
(* The index arithmetic, in a state with both indices in range.            *)

\* In range, no sum of the code wraps around.
LEMMA Sums ==
    ASSUME NarrowSizes, TypeOK, SizeInv, thiz = "live",
           NEW at \in 0..(size - 1), NEW n \in 0..(size - 1)
    PROVE  /\ InOnePiece(at, n) <=> at + n < size
           /\ Advance(at, n) = IF at + n < size THEN at + n ELSE at + n - size
           /\ Advance(at, n) \in 0..(size - 1)
<1>1. size \in Nat \ {0} /\ size + size <= Word /\ Word \in Nat \ {0}
  BY CycleQueueAssumption DEF TypeOK, SizeInv, NarrowSizes
<1>2. at + n \in Nat /\ at + n < Word /\ at + n < size + size
  BY <1>1
<1>3. (at + n) % Word = at + n
  BY <1>1, <1>2, ModBelow
<1>4. (at + n) % size = IF at + n < size THEN at + n ELSE at + n - size
  BY <1>1, ModIndex
<1> QED
  BY <1>1, <1>2, <1>3, <1>4 DEF InOnePiece, Advance

\* Both getters are in range and add up to the capacity.
LEMMA Getters ==
    ASSUME TypeOK, thiz = "live"
    PROVE  /\ get_free_size \in 0..(size - 1)
           /\ get_data_size \in 0..(size - 1)
           /\ get_free_size + get_data_size = size - 1
<1>1. size \in Nat /\ head \in 0..(size - 1) /\ tail \in 0..(size - 1)
  BY DEF TypeOK
<1> QED
  BY <1>1 DEF get_free_size, get_data_size

\* Every byte of an accepted copy lies in the buffer, no two in one slot.
LEMMA Cells ==
    ASSUME NarrowSizes, TypeOK, SizeInv, thiz = "live",
           NEW at \in 0..(size - 1), NEW n \in 0..(size - 1)
    PROVE  /\ \A i \in 1..n : Cell(at, n, i) \in 0..(size - 1)
           /\ \A i, j \in 1..n : Cell(at, n, i) = Cell(at, n, j) => i = j
<1>1. size \in Nat
  BY DEF TypeOK
<1>2. InOnePiece(at, n) <=> at + n < size
  BY Sums
<1> QED
  BY <1>1, <1>2 DEF Cell, part1

\* The invariant implies that copies stay in bounds.
LEMMA InvCopies == NarrowSizes /\ IInv => CopiesInBounds
<1> SUFFICES ASSUME NarrowSizes, IInv, thiz = "live"
             PROVE  /\ \A n \in 0..get_free_size : \A i \in 1..n :
                          Cell(head, n, i) \in 0..(size - 1)
                    /\ \A n \in 0..get_data_size : \A i \in 1..n :
                          Cell(tail, n, i) \in 0..(size - 1)
  BY DEF CopiesInBounds
<1>1. TypeOK /\ SizeInv /\ size \in Nat
  BY DEF IInv, TypeOK
<1>2. head \in 0..(size - 1) /\ tail \in 0..(size - 1)
  BY <1>1 DEF TypeOK
<1>3. get_free_size \in 0..(size - 1) /\ get_data_size \in 0..(size - 1)
  BY <1>1, Getters
<1>4. \A n \in 0..get_free_size : n \in 0..(size - 1)
  BY <1>1, <1>3
<1>5. \A n \in 0..get_data_size : n \in 0..(size - 1)
  BY <1>1, <1>3
<1> QED
  BY <1>1, <1>2, <1>4, <1>5, Cells

-----------------------------------------------------------------------------
(* Each action preserves the invariant.                                    *)

\* A new or an absent queue.
LEMMA FreshInv ==
    /\ Init => IInv
    /\ \A s \in Sizes : IInv /\ cycle_queue_create(s) => IInv'
    /\ IInv /\ cycle_queue_destroy => IInv'
<1>1. Init => IInv
  BY CycleQueueAssumption
  DEF Init, IInv, TypeOK, SizeInv, Accounting, ObjectBlockOwned, LayoutInv,
      NoBuf
<1>2. ASSUME NEW s \in Sizes, IInv, cycle_queue_create(s) PROVE IInv'
  BY <1>2, CycleQueueAssumption
  DEF cycle_queue_create, IInv, TypeOK, SizeInv, Accounting, ObjectBlockOwned,
      LayoutInv, get_data_size, get_free_size, NoBuf
<1>3. ASSUME IInv, cycle_queue_destroy PROVE IInv'
  BY <1>3, CycleQueueAssumption
  DEF cycle_queue_destroy, IInv, TypeOK, SizeInv, Accounting,
      ObjectBlockOwned, LayoutInv, NoBuf
<1> QED
  BY <1>1, <1>2, <1>3

\* A call that is refused, or finds nothing, leaves every part alone.
LEMMA UnchangedInv ==
    ASSUME IInv, UNCHANGED <<thiz, pri, heap, fifo, layout>>,
           call' \in {"none", "create", "destroy", "write", "read", "illegal"}
                        \X Nat,
           ret' \in {0, -1}, out' \in Seq(Byte)
    PROVE  IInv'
BY DEF IInv, TypeOK, SizeInv, Accounting, ObjectBlockOwned, LayoutInv, pri,
       get_data_size, get_free_size, Cell, part1, InOnePiece

\* The write: what it stores, where it leaves the head, what it counts.
LEMMA WriteInv ==
    ASSUME NarrowSizes, IInv, NEW n \in 0..MaxLen, NEW data \in [1..n -> Byte],
           cycle_queue_write(n, data)
    PROVE  /\ IInv'
           /\ n <= (size - 1) - get_data_size
           /\ get_data_size' = get_data_size + n
<1>1. /\ TypeOK /\ SizeInv /\ thiz = "live" /\ size \in Nat \ {0}
      /\ head \in 0..(size - 1) /\ tail \in 0..(size - 1)
      /\ MaxLen \in Nat /\ n \in Nat
  BY CycleQueueAssumption DEF IInv, TypeOK, cycle_queue_write
<1>2. /\ get_free_size \in 0..(size - 1) /\ get_data_size \in 0..(size - 1)
      /\ get_free_size + get_data_size = size - 1
  BY <1>1, Getters
<1>3. n \in 0..(size - 1) /\ n + get_data_size <= size - 1
  BY <1>1, <1>2 DEF cycle_queue_write
<1>4. /\ InOnePiece(head, n) <=> head + n < size
      /\ head' = IF head + n < size THEN head + n ELSE head + n - size
      /\ head' \in 0..(size - 1)
  BY <1>1, <1>3, Sums DEF cycle_queue_write
<1>5. /\ \A i \in 1..n : Cell(head, n, i) \in 0..(size - 1)
      /\ \A i, j \in 1..n : Cell(head, n, i) = Cell(head, n, j) => i = j
  BY <1>1, <1>3, Cells
<1>6. /\ buf' \in [0..(size - 1) -> Byte]
      /\ \A i \in 1..n : buf'[Cell(head, n, i)] = data[i]
      /\ \A j \in 0..(size - 1) :
            (\A i \in 1..n : Cell(head, n, i) # j) => buf'[j] = buf[j]
  BY <1>1, <1>5 DEF TypeOK, cycle_queue_write, CopyIn
<1>7. /\ data \in Seq(Byte) /\ Len(data) = n
      /\ fifo \in Seq(Byte) /\ Len(fifo) = get_data_size
      /\ fifo' = fifo \o data
  BY <1>1, DataIsSeq DEF IInv, TypeOK, Accounting, cycle_queue_write
<1>8. /\ fifo' \in Seq(Byte) /\ Len(fifo') = Len(fifo) + n
      /\ \A i \in 1..Len(fifo) : fifo'[i] = fifo[i]
      /\ \A i \in (Len(fifo) + 1)..(Len(fifo) + n) :
            fifo'[i] = data[i - Len(fifo)]
  BY <1>7, Appended
<1>9. TypeOK'
  BY <1>1, <1>4, <1>6, <1>8
  DEF TypeOK, cycle_queue_write, LayoutAfterWrite
<1>10. SizeInv' /\ ObjectBlockOwned'
  BY DEF IInv, SizeInv, ObjectBlockOwned, cycle_queue_write
<1>11. thiz' = "live" /\ size' = size /\ tail' = tail
  BY DEF cycle_queue_write
<1>12. get_data_size' = get_data_size + n
  BY <1>1, <1>2, <1>3, <1>4, <1>11 DEF get_data_size
<1>13. Accounting'
  <2>1. size' \in Nat /\ head' \in 0..(size' - 1) /\ tail' \in 0..(size' - 1)
    BY <1>1, <1>4, <1>11
  <2>2. get_free_size' + get_data_size' = size' - 1
    BY <2>1 DEF get_free_size, get_data_size
  <2> QED
    BY <1>7, <1>8, <1>11, <1>12, <2>2 DEF Accounting
<1>14. LayoutInv'
  <2>1. CASE n = 0
    <3>1. head' = head /\ layout' = layout /\ Len(fifo') = Len(fifo)
      BY <1>1, <1>4, <1>8, <2>1 DEF cycle_queue_write, LayoutAfterWrite
    <3>2. \A j \in 0..(size - 1) : buf'[j] = buf[j]
      BY <1>6, <2>1
    <3>3. buf' = buf
      BY <1>1, <1>6, <3>2 DEF TypeOK
    <3>4. fifo' = fifo
      BY <1>7, <1>8, <2>1
    <3> QED
      BY <1>1, <1>11, <3>1, <3>3, <3>4
      DEF IInv, LayoutInv, Cell, InOnePiece, part1
  <2>2. CASE n > 0 /\ layout = "straight" /\ head + n < size
    <3>1. layout' = "straight" /\ fifo' # <<>>
      BY <1>4, <1>8, <2>2 DEF cycle_queue_write, LayoutAfterWrite
    <3>2. tail <= head /\ \A i \in 1..Len(fifo) : buf[tail + i - 1] = fifo[i]
      BY <1>1, <2>2 DEF IInv, LayoutInv
    <3>3. Len(fifo) = head - tail /\ head' = head + n
      BY <1>1, <1>4, <1>7, <2>2, <3>2 DEF get_data_size
    <3>4. \A i \in 1..n : Cell(head, n, i) = head + i - 1
      BY <1>4, <2>2 DEF Cell
    <3>5. ASSUME NEW i \in 1..Len(fifo') PROVE buf'[tail + i - 1] = fifo'[i]
      <4>1. CASE i <= Len(fifo)
        <5>1. i \in 1..Len(fifo) /\ tail + i - 1 \in 0..(head - 1)
          BY <1>1, <1>7, <1>8, <3>2, <3>3, <4>1
        <5>2. \A k \in 1..n : Cell(head, n, k) # tail + i - 1
          BY <1>1, <3>4, <5>1
        <5>3. buf'[tail + i - 1] = buf[tail + i - 1]
          BY <1>1, <1>6, <5>1, <5>2
        <5> QED
          BY <1>8, <3>2, <5>1, <5>3
      <4>2. CASE i > Len(fifo)
        <5> DEFINE k == i - Len(fifo)
        <5>1. k \in 1..n /\ i \in (Len(fifo) + 1)..(Len(fifo) + n)
          BY <1>1, <1>7, <1>8, <4>2
        <5>2. Cell(head, n, k) = tail + i - 1
          BY <1>1, <3>3, <3>4, <5>1
        <5>3. buf'[Cell(head, n, k)] = data[k] /\ fifo'[i] = data[k]
          BY <1>6, <1>8, <5>1
        <5> QED
          BY <5>2, <5>3
      <4> QED
        BY <1>1, <1>7, <1>8, <4>1, <4>2
    <3> QED
      BY <1>1, <1>11, <3>1, <3>2, <3>3, <3>5 DEF LayoutInv
  <2>3. CASE n > 0 /\ fifo = <<>> /\ head + n >= size
    <3>1. layout' = "lone" /\ fifo' # <<>>
      BY <1>1, <1>4, <1>8, <2>3 DEF cycle_queue_write, LayoutAfterWrite
    <3>2. head = tail /\ Len(fifo') = n
      BY <1>1, <1>7, <1>8, <2>3 DEF get_data_size
    <3>3. \A i \in 1..n : Cell(tail, n, i)' = Cell(head, n, i)
      BY <1>11, <3>2 DEF Cell, InOnePiece, part1
    <3>4. \A i \in 1..n : fifo'[i] = data[i]
      BY <1>1, <1>7, <1>8, <2>3
    <3>5. \A i \in 1..n : buf'[Cell(tail, n, i)'] = fifo'[i]
      BY <1>6, <3>3, <3>4
    <3> QED
      BY <1>1, <1>11, <2>3, <3>1, <3>2, <3>5 DEF LayoutInv
  <2>4. CASE /\ n > 0
             /\ ~(layout = "straight" /\ head + n < size)
             /\ ~(fifo = <<>> /\ head + n >= size)
    <3>1. layout' = "mixed" /\ fifo' # <<>>
      BY <1>1, <1>4, <1>8, <2>4 DEF cycle_queue_write, LayoutAfterWrite
    <3> QED
      BY <3>1 DEF LayoutInv
  <2> QED
    BY <1>1, <2>1, <2>2, <2>3, <2>4
<1> QED
  BY <1>1, <1>2, <1>3, <1>9, <1>10, <1>12, <1>13, <1>14 DEF IInv

\* The read: what it hands over, where it leaves the tail, what it counts.
\* The second conjunct is what IntactReads says of the step.
LEMMA ReadInv ==
    ASSUME NarrowSizes, IInv, NEW n \in 1..MaxLen, read_data(n)
    PROVE  /\ IInv'
           /\ layout # "mixed" => out' = SubSeq(fifo, 1, Len(out'))
           /\ Len(out') = IF n < get_data_size THEN n ELSE get_data_size
           /\ get_data_size' = get_data_size - Len(out')
<1> DEFINE k == read_len(n)
<1>1. /\ TypeOK /\ SizeInv /\ thiz = "live" /\ size \in Nat \ {0}
      /\ head \in 0..(size - 1) /\ tail \in 0..(size - 1)
      /\ MaxLen \in Nat /\ n \in Nat /\ n > 0
  BY CycleQueueAssumption DEF IInv, TypeOK, read_data
<1>2. /\ get_data_size \in 1..(size - 1)
      /\ fifo \in Seq(Byte) /\ Len(fifo) = get_data_size
  BY <1>1, Getters DEF IInv, TypeOK, Accounting, read_data
<1>3. k \in 1..get_data_size /\ k \in 0..(size - 1) /\ k \in 0..Len(fifo)
  BY <1>1, <1>2 DEF read_len
<1>4. /\ InOnePiece(tail, k) <=> tail + k < size
      /\ tail' = IF tail + k < size THEN tail + k ELSE tail + k - size
      /\ tail' \in 0..(size - 1)
  BY <1>1, <1>3, Sums DEF read_data
<1>5. /\ thiz' = "live" /\ size' = size /\ head' = head /\ buf' = buf
      /\ heap' = heap /\ ret' = 0
      /\ out' = CopyOut(k) /\ fifo' = SubSeq(fifo, k + 1, Len(fifo))
      /\ layout' = LayoutAfterRead(k)
  BY DEF read_data
<1>6. /\ fifo' \in Seq(Byte) /\ Len(fifo') = Len(fifo) - k
      /\ \A i \in 1..(Len(fifo) - k) : fifo'[i] = fifo[k + i]
  BY <1>2, <1>3, <1>5, Dropped
<1>7. out' \in [1..k -> Byte] /\ out' \in Seq(Byte) /\ Len(out') = k
  <2>1. \A i \in 1..k : Cell(tail, k, i) \in 0..(size - 1)
    BY <1>1, <1>3, Cells
  <2>2. out' \in [1..k -> Byte]
    BY <1>1, <1>5, <2>1 DEF CopyOut, TypeOK
  <2> HIDE DEF k
  <2> QED
    BY <1>3, <2>2, <1>2, DataIsSeq
<1>8. TypeOK'
  <2>1. call' = <<"read", n>> /\ layout' \in {"straight", "lone", "mixed"}
    BY <1>5 DEF read_data, LayoutAfterRead
  <2> QED
    BY <1>1, <1>4, <1>5, <1>6, <1>7, <2>1 DEF TypeOK
<1>9. SizeInv' /\ ObjectBlockOwned'
  BY <1>1, <1>5 DEF IInv, SizeInv, ObjectBlockOwned
<1>10. get_data_size' = get_data_size - k
  <2> HIDE DEF k
  <2> QED
    BY <1>1, <1>2, <1>3, <1>4, <1>5 DEF get_data_size
<1>11. Accounting'
  <2>1. size' \in Nat /\ head' \in 0..(size' - 1) /\ tail' \in 0..(size' - 1)
    BY <1>1, <1>4, <1>5
  <2>2. get_free_size' + get_data_size' = size' - 1
    BY <2>1 DEF get_free_size, get_data_size
  <2> QED
    BY <1>2, <1>5, <1>6, <1>10, <2>2 DEF Accounting
<1>12. ASSUME layout = "straight"
       PROVE  LayoutInv' /\ (layout # "mixed" => out' = SubSeq(fifo, 1, Len(out')))
  <2> HIDE DEF k
  <2>1. tail <= head /\ \A i \in 1..Len(fifo) : buf[tail + i - 1] = fifo[i]
    BY <1>1, <1>12 DEF IInv, LayoutInv
  <2>2. Len(fifo) = head - tail /\ tail' = tail + k /\ InOnePiece(tail, k)
    BY <1>1, <1>2, <1>3, <1>4, <2>1 DEF get_data_size
  <2>3. layout' = "straight" /\ tail' <= head'
    BY <1>1, <1>2, <1>3, <1>5, <1>12, <2>2 DEF LayoutAfterRead
  <2>4. \A i \in 1..Len(fifo') : buf'[tail' + i - 1] = fifo'[i]
    <3> SUFFICES ASSUME NEW i \in 1..Len(fifo')
                 PROVE  buf'[tail' + i - 1] = fifo'[i]
      OBVIOUS
    <3> DEFINE j == k + i
    <3>1. j \in 1..Len(fifo) /\ tail' + i - 1 = tail + j - 1
      BY <1>1, <1>2, <1>3, <1>6, <2>2
    <3>2. buf[tail + j - 1] = fifo[j]
      <4> HIDE DEF j
      <4> QED
        BY <2>1, <3>1
    <3>3. fifo'[i] = fifo[j]
      BY <1>2, <1>3, <1>6
    <3> HIDE DEF j
    <3> QED
      BY <1>5, <3>1, <3>2, <3>3
  <2>5. LayoutInv'
    BY <1>5, <2>3, <2>4 DEF LayoutInv
  <2>6. \A i \in 1..k : out'[i] = fifo[i]
    BY <1>2, <1>3, <1>5, <2>1, <2>2 DEF CopyOut, Cell
  <2>7. out' = SubSeq(fifo, 1, k)
    BY <1>2, <1>3, <1>7, <2>6
  <2> QED
    BY <2>5, <2>7, <1>7
<1>13. ASSUME layout = "lone"
       PROVE  LayoutInv' /\ (layout # "mixed" => out' = SubSeq(fifo, 1, Len(out')))
  <2> HIDE DEF k
  <2>1. /\ tail + Len(fifo) >= size
        /\ \A i \in 1..Len(fifo) : buf[Cell(tail, Len(fifo), i)] = fifo[i]
    BY <1>1, <1>13 DEF IInv, LayoutInv
  <2>2. \A i \in 1..k : Cell(tail, k, i) = Cell(tail, Len(fifo), i)
    <3>1. Len(fifo) \in 0..(size - 1)
      BY <1>1, <1>2
    <3>2. InOnePiece(tail, Len(fifo)) <=> tail + Len(fifo) < size
      BY <1>1, <3>1, Sums
    <3> QED
      BY <1>1, <1>2, <1>3, <1>4, <2>1, <3>2 DEF Cell, part1
  <2>3. \A i \in 1..k : out'[i] = fifo[i]
    BY <1>2, <1>3, <1>5, <2>1, <2>2 DEF CopyOut
  <2>4. out' = SubSeq(fifo, 1, k)
    BY <1>2, <1>3, <1>7, <2>3
  <2>5. layout' = IF k = Len(fifo) THEN "straight" ELSE "mixed"
    BY <1>2, <1>3, <1>5, <1>13 DEF LayoutAfterRead
  <2>6. k = Len(fifo) => Len(fifo') = 0 /\ tail' = head'
    BY <1>1, <1>2, <1>3, <1>4, <1>5, <1>6 DEF get_data_size
  <2>7. k # Len(fifo) => fifo' # <<>>
    BY <1>2, <1>3, <1>6
  <2>8. LayoutInv'
    BY <1>1, <1>4, <1>5, <1>6, <2>5, <2>6, <2>7 DEF LayoutInv
  <2> QED
    BY <2>4, <2>8, <1>7
<1>14. ASSUME layout = "mixed"
       PROVE  LayoutInv' /\ (layout # "mixed" => out' = SubSeq(fifo, 1, Len(out')))
  <2> HIDE DEF k
  <2>1. layout' = IF k = Len(fifo) THEN "straight" ELSE "mixed"
    BY <1>2, <1>3, <1>5, <1>14 DEF LayoutAfterRead
  <2>2. k = Len(fifo) => Len(fifo') = 0 /\ tail' = head'
    BY <1>1, <1>2, <1>3, <1>4, <1>5, <1>6 DEF get_data_size
  <2>3. k # Len(fifo) => fifo' # <<>>
    BY <1>2, <1>3, <1>6
  <2>4. LayoutInv'
    BY <1>1, <1>4, <1>5, <1>6, <2>1, <2>2, <2>3 DEF LayoutInv
  <2> QED
    BY <1>14, <2>4
<1>15. LayoutInv' /\ (layout # "mixed" => out' = SubSeq(fifo, 1, Len(out')))
  BY <1>1, <1>12, <1>13, <1>14 DEF TypeOK
<1>16. /\ Len(out') = IF n < get_data_size THEN n ELSE get_data_size
       /\ get_data_size' = get_data_size - Len(out')
  BY <1>7, <1>10 DEF read_len
<1> QED
  BY <1>8, <1>9, <1>11, <1>15, <1>16 DEF IInv

-----------------------------------------------------------------------------
(* The theorems.                                                           *)

LEMMA NextInv == NarrowSizes /\ IInv /\ [Next]_vars => IInv'
<1> SUFFICES ASSUME NarrowSizes, IInv, [Next]_vars PROVE IInv'
  OBVIOUS
<1>0. TypeOK /\ <<>> \in Seq(Byte) /\ Sizes \subseteq Nat /\ MaxLen \in Nat
  BY CycleQueueAssumption DEF IInv
<1>1. ASSUME NEW s \in Sizes, cycle_queue_create(s) PROVE IInv'
  BY <1>1, FreshInv
<1>2. ASSUME NEW s \in Sizes, NEW why \in {"size", "malloc thiz", "malloc buf"},
             create_fails(s, why)
      PROVE  IInv'
  BY <1>0, <1>2, UnchangedInv DEF create_fails
<1>3. CASE cycle_queue_destroy
  BY <1>3, FreshInv
<1>4. ASSUME NEW n \in 0..MaxLen, NEW data \in [1..n -> Byte],
             cycle_queue_write(n, data)
      PROVE  IInv'
  BY <1>4, WriteInv
<1>5. ASSUME NEW n \in 0..MaxLen, write_refused(n) PROVE IInv'
  BY <1>0, <1>5, UnchangedInv DEF write_refused
<1>9. CASE illegal_param
  BY <1>0, <1>9, UnchangedInv DEF illegal_param
<1>6. ASSUME NEW n \in 1..MaxLen, read_empty(n) PROVE IInv'
  BY <1>0, <1>6, UnchangedInv DEF read_empty
<1>7. ASSUME NEW n \in 1..MaxLen, read_data(n) PROVE IInv'
  BY <1>7, ReadInv
<1>8. CASE UNCHANGED vars
  BY <1>0, <1>8, UnchangedInv DEF vars, TypeOK
<1> QED
  BY <1>1, <1>2, <1>3, <1>4, <1>5, <1>6, <1>7, <1>8, <1>9
  DEF Next, cycle_queue_read

LEMMA SpecInv == NarrowSizes => (Spec => []IInv)
<1> SUFFICES ASSUME NarrowSizes PROVE Spec => []IInv
  OBVIOUS
<1>1. Init => IInv
  BY FreshInv
<1>2. IInv /\ [Next]_vars => IInv'
  BY NextInv
<1> QED
  BY <1>1, <1>2, PTL DEF Spec

\* Both indices stay in [0, size - 1] and every field keeps its type, through
\* any sequence of the calls of cycle_queue.c.
THEOREM TypeCorrect == NarrowSizes => (Spec => []TypeOK)
<1>1. IInv => TypeOK
  BY DEF IInv
<1> QED
  BY <1>1, SpecInv, PTL

\* cycle_queue_get_data_size counts the bytes accepted and not read, and
\* cycle_queue_get_free_size the rest of the size - 1 usable slots.
THEOREM SizesAgree == NarrowSizes => (Spec => []Accounting)
<1>1. IInv => Accounting
  BY DEF IInv
<1> QED
  BY <1>1, SpecInv, PTL

\* No memcpy of cycle_queue_write or cycle_queue_read leaves the buffer.
THEOREM NoOverrun == NarrowSizes => (Spec => []CopiesInBounds)
<1> SUFFICES ASSUME NarrowSizes PROVE Spec => []CopiesInBounds
  OBVIOUS
<1>1. IInv => CopiesInBounds
  BY InvCopies
<1> QED
  BY <1>1, SpecInv, PTL

\* The object's block is allocated exactly while the user holds the object,
\* through every creation that fails half way and whatever the sizes are: this
\* one needs no NarrowSizes.
THEOREM ObjectBlocks == Spec => []ObjectBlockOwned
<1> DEFINE HeapOK == /\ heap \in [thiz : Nat, buf : Nat] /\ thiz \in {"null", "live"}
                     /\ ObjectBlockOwned
<1>1. Init => HeapOK
  BY DEF Init, ObjectBlockOwned
<1>2. HeapOK /\ [Next]_vars => HeapOK'
  <2> SUFFICES ASSUME HeapOK, [Next]_vars PROVE HeapOK'
    OBVIOUS
  <2>1. ASSUME NEW s \in Sizes, cycle_queue_create(s) PROVE HeapOK'
    BY <2>1 DEF cycle_queue_create, ObjectBlockOwned
  <2>2. ASSUME cycle_queue_destroy PROVE HeapOK'
    BY <2>2 DEF cycle_queue_destroy, ObjectBlockOwned
  <2>3. ASSUME UNCHANGED <<thiz, heap>> PROVE HeapOK'
    BY <2>3 DEF ObjectBlockOwned
  <2>4. ASSUME NEW s, NEW why, create_fails(s, why) PROVE UNCHANGED <<thiz, heap>>
    BY <2>4 DEF create_fails
  <2>5. ASSUME NEW n, NEW data, cycle_queue_write(n, data) PROVE UNCHANGED <<thiz, heap>>
    BY <2>5 DEF cycle_queue_write
  <2>6. ASSUME NEW n, write_refused(n) \/ cycle_queue_read(n) \/ illegal_param
        PROVE  UNCHANGED <<thiz, heap>>
    BY <2>6 DEF write_refused, cycle_queue_read, read_empty, read_data, illegal_param
  <2>7. CASE UNCHANGED vars
    BY <2>3, <2>7 DEF vars
  <2> HIDE DEF HeapOK
  <2>. QED  BY <2>1, <2>2, <2>3, <2>4, <2>5, <2>6, <2>7 DEF Next
<1>3. HeapOK => ObjectBlockOwned
  OBVIOUS
<1> QED
  BY <1>1, <1>2, <1>3, PTL DEF Spec

\* cycle_queue_read returns the oldest unread bytes in order as long as no
\* wrapped write was mixed with another write or a partial read.
THEOREM ReadsIntact == NarrowSizes => (Spec => IntactReads)
<1> SUFFICES ASSUME NarrowSizes PROVE Spec => IntactReads
  OBVIOUS
<1>1. ASSUME IInv, [Next]_vars
      PROVE  [\A n \in 1..MaxLen : read_data(n) /\ layout # "mixed"
                 => out' = SubSeq(fifo, 1, Len(out'))]_vars
  BY <1>1, ReadInv
<1> QED
  BY <1>1, SpecInv, PTL DEF Spec, IntactReads

\* The ring implements the bounded buffer of capacity size - 1.
THEOREM Refinement == NarrowSizes => (Spec => ImplementsBoundedBuffer)
<1> SUFFICES ASSUME NarrowSizes PROVE Spec => Space!Spec
  BY DEF ImplementsBoundedBuffer
<1>1. Init => Space!Init
  BY DEF Init, Space!Init
<1>2. IInv /\ [Next]_vars => [Space!Next]_Space!vars
  <2> SUFFICES ASSUME IInv, [Next]_vars PROVE [Space!Next]_Space!vars
    OBVIOUS
  <2> USE DEF Space!Next, Space!vars
  <2>0. Sizes \subseteq Nat /\ MaxLen \in Nat /\ Len(<<>>) = 0
    BY CycleQueueAssumption
  <2>1. ASSUME NEW s \in Sizes, cycle_queue_create(s) PROVE Space!Next
    <3>1. Space!Open(s)
      BY <2>0, <2>1
      DEF cycle_queue_create, Space!Open, Space!Answer, get_data_size
    <3> QED
      BY <3>1
  <2>2. ASSUME NEW s \in Sizes, NEW why \in {"size", "malloc thiz", "malloc buf"},
               create_fails(s, why)
        PROVE  Space!Next
    <3>1. /\ thiz = "null" /\ thiz' = "null"
          /\ call' = <<"create", s>> /\ ret' = -1 /\ out' = <<>>
      BY <2>2 DEF create_fails
    <3>2. ~(thiz = "live") /\ ~(thiz' = "live")
      BY <3>1
    <3>3. Space!Answer("create", s, -1, 0)
      BY <2>0, <3>1 DEF Space!Answer
    <3>4. Space!OpenFails(s)
      BY <3>2, <3>3, Zenon DEF Space!OpenFails
    <3> QED
      BY <3>4
  <2>3. CASE cycle_queue_destroy
    <3>1. Space!Close
      BY <2>0, <2>3 DEF cycle_queue_destroy, Space!Close, Space!Answer
    <3> QED
      BY <3>1
  <2>4. ASSUME NEW n \in 0..MaxLen, NEW data \in [1..n -> Byte],
               cycle_queue_write(n, data)
        PROVE  Space!Next
    <3>1. /\ n <= (size - 1) - get_data_size
          /\ get_data_size' = get_data_size + n
      BY <2>4, WriteInv
    <3>2. Space!Write(n)
      BY <2>0, <2>4, <3>1 DEF cycle_queue_write, Space!Write, Space!Answer
    <3> QED
      BY <3>2
  <2>5. ASSUME NEW n \in 0..MaxLen, write_refused(n) PROVE Space!Next
    <3>1. n > (size - 1) - get_data_size
      <4>1. /\ get_free_size \in 0..(size - 1) /\ get_data_size \in 0..(size - 1)
            /\ get_free_size + get_data_size = size - 1 /\ size \in Nat
        BY <2>5, Getters DEF IInv, TypeOK, write_refused
      <4> QED
        BY <2>0, <2>5, <4>1 DEF write_refused
    <3>2. Space!WriteRefused(n)
      BY <2>0, <2>5, <3>1
      DEF write_refused, Space!WriteRefused, Space!Answer, pri, get_data_size
    <3> QED
      BY <3>2
  <2>6. ASSUME NEW n \in 1..MaxLen, read_empty(n) PROVE Space!Next
    <3>1. n \in Nat /\ n > 0
      BY <2>0
    <3>2. Space!Read(n)
      BY <2>0, <2>6, <3>1
      DEF read_empty, Space!Read, Space!Answer, pri, get_data_size
    <3> QED
      BY <3>2
  <2>7. ASSUME NEW n \in 1..MaxLen, read_data(n) PROVE Space!Next
    <3>1. /\ Len(out') = IF n < get_data_size THEN n ELSE get_data_size
          /\ get_data_size' = get_data_size - Len(out')
      BY <2>7, ReadInv
    <3>2. Space!Read(n)
      BY <2>7, <3>1 DEF read_data, Space!Read, Space!Answer
    <3> QED
      BY <3>2
  <2>8. CASE illegal_param
    <3>1. Space!Illegal
      BY <2>0, <2>8
      DEF illegal_param, Space!Illegal, Space!Answer, pri, get_data_size
    <3> QED
      BY <3>1
  <2>9. CASE UNCHANGED vars
    BY <2>9 DEF vars, pri, get_data_size
  <2> QED
    BY <2>1, <2>2, <2>3, <2>4, <2>5, <2>6, <2>7, <2>8, <2>9
    DEF Next, cycle_queue_read
<1> QED
  BY <1>1, <1>2, SpecInv, PTL DEF Spec, Space!Spec

=============================================================================
