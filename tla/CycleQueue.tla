----------------------------- MODULE CycleQueue -----------------------------
(***************************************************************************)
(* The byte ring buffer of src/data_struct/cycle_queue.c: one CycleQueue   *)
(* object, the calls its function table offers, its creation (with both    *)
(* malloc failures) and its destruction.  One of the size slots stays      *)
(* empty, so head = tail means "no data".                                  *)
(*                                                                         *)
(* Sums of uint32_t values wrap at Word.                                   *)
(***************************************************************************)
EXTENDS Integers, Sequences

CONSTANTS
    Byte,       \* the byte values that are told apart
    Zero,       \* the byte memset(buf, 0, size) fills the buffer with
    Sizes,      \* the sizes cycle_queue_create is called with
    Word,       \* the number of values of a uint32_t
    MaxLen,     \* bound: the longest data_len and *buf_len that are tried
    MaxBufs     \* bound: buffers that may be allocated at a time

ASSUME CycleQueueAssumption ==
    /\ Zero \in Byte
    /\ Word \in Nat \ {0}
    /\ Sizes \subseteq 0..(Word - 1)
    /\ MaxLen \in 0..(Word - 1)
    /\ MaxBufs \in Nat

(***************************************************************************)
(* The sizes for which the sum of two indices is a uint32_t.               *)
(***************************************************************************)
NarrowSizes == \A s \in Sizes : 2 * s <= Word

VARIABLES
    thiz,       \* "null" or "live": the pointer the user holds
    size, head, tail, buf,      \* the fields of CycleQueuePri
    heap,       \* the blocks malloc'd and not free'd, by what they hold
    call,       \* the last call and the length it was given
    ret, out,   \* what it returned, and the bytes it copied out
    fifo,       \* history: the bytes accepted and not read yet, oldest first
    layout      \* history: how the unread bytes came in (see Write, Read)

pri  == <<size, head, tail, buf>>
vars == <<thiz, pri, heap, call, ret, out, fifo, layout>>

-----------------------------------------------------------------------------
(* The arithmetic of the index.                                            *)

\* Mutant: forgets the slot that stays empty.
get_free_size_all_slots ==
    IF head = tail THEN size
    ELSE IF head > tail THEN size - (head - tail) - 1
    ELSE tail - head - 1

get_free_size ==
    IF head = tail THEN size - 1
    ELSE IF head > tail THEN size - (head - tail) - 1
    ELSE tail - head - 1

\* Mutant: leaves the empty slot out where it must not.
get_data_size_off_by_one ==
    IF head >= tail THEN head - tail ELSE size - tail + head - 1

get_data_size == IF head >= tail THEN head - tail ELSE size - tail + head

\* Mutant: never splits a copy.
InOnePiece_always(at, n) == TRUE

\* "根据下标是否溢出做不同的处理": a copy of n bytes at index at is done in
\* one piece when it ends inside the buffer ...
InOnePiece(at, n) == (at + n) % Word <= size - 1

\* ... and otherwise in two: part1 bytes at index at, the rest from index 0.
\* Cell is the index of the i-th of those n bytes.
part1(at) == size - 1 - at
Cell(at, n, i) ==
    IF InOnePiece(at, n) \/ i <= part1(at) THEN at + i - 1
                                           ELSE i - part1(at) - 1

\* Mutant: forgets the reduction modulo size.
Advance_unreduced(at, n) == (at + n) % Word

Advance(at, n) == ((at + n) % Word) % size

\* The two memcpy calls of cycle_queue_write and of cycle_queue_read.
CopyIn(n, data) ==
    [j \in 0..(size - 1) |->
        IF \E i \in 1..n : Cell(head, n, i) = j
        THEN data[CHOOSE i \in 1..n : Cell(head, n, i) = j]
        ELSE buf[j]]

\* Mutant: reads slot size - 1 of a split copy, which the write leaves out.
CopyOut_all_slots(n) == [i \in 1..n |-> buf[(tail + i - 1) % size]]

CopyOut(n) == [i \in 1..n |-> buf[Cell(tail, n, i)]]

-----------------------------------------------------------------------------
(* Creation and destruction.                                               *)

NoBuf == [j \in {} |-> Zero]

Init ==
    /\ thiz = "null"
    /\ size = 0 /\ head = 0 /\ tail = 0 /\ buf = NoBuf
    /\ heap = [thiz |-> 0, buf |-> 0]
    /\ call = <<"none", 0>> /\ ret = 0 /\ out = <<>>
    /\ fifo = <<>> /\ layout = "straight"

cycle_queue_create(s) ==
    /\ thiz = "null" /\ s > 0 /\ heap.buf < MaxBufs
    /\ thiz' = "live"
    /\ heap' = [thiz |-> heap.thiz + 1, buf |-> heap.buf + 1]
    /\ size' = s /\ head' = 0 /\ tail' = 0
    /\ buf' = [j \in 0..(s - 1) |-> Zero]
    /\ call' = <<"create", s>> /\ ret' = 0 /\ out' = <<>>
    /\ fifo' = <<>> /\ layout' = "straight"

\* Mutant: the free(thiz) of the second failure is missing.
create_fails_leaking(s, why) ==
    /\ thiz = "null"
    /\ (s = 0) <=> (why = "size")
    /\ call' = <<"create", s>>
    /\ heap' = [heap EXCEPT !.thiz = IF why = "malloc buf" THEN @ + 1 ELSE @]
    /\ ret' = -1 /\ out' = <<>>
    /\ UNCHANGED <<thiz, pri, fifo, layout>>

\* The calls that return NULL; when the second malloc fails the block of the
\* first is freed again.
create_fails(s, why) ==
    /\ thiz = "null"
    /\ (s = 0) <=> (why = "size")
    /\ call' = <<"create", s>>
    /\ ret' = -1 /\ out' = <<>>
    /\ UNCHANGED <<thiz, pri, heap, fifo, layout>>

\* The object is freed, its buffer is not.
cycle_queue_destroy ==
    /\ thiz = "live"
    /\ thiz' = "null"
    /\ heap' = [heap EXCEPT !.thiz = @ - 1]
    /\ size' = 0 /\ head' = 0 /\ tail' = 0 /\ buf' = NoBuf
    /\ call' = <<"destroy", 0>> /\ ret' = 0 /\ out' = <<>>
    /\ fifo' = <<>> /\ layout' = "straight"

-----------------------------------------------------------------------------
(* The calls on a live object.                                             *)

\* layout is "straight" while no write since the queue was last empty was
\* done in two pieces, "lone" when the unread bytes are exactly those of one
\* write done in two pieces, "mixed" in every other case.
LayoutAfterWrite(n) ==
    CASE n = 0 -> layout
      [] n > 0 /\ layout = "straight" /\ InOnePiece(head, n) -> "straight"
      [] n > 0 /\ fifo = <<>> /\ ~InOnePiece(head, n) -> "lone"
      [] OTHER -> "mixed"

LayoutAfterRead(n) ==
    CASE n = Len(fifo) -> "straight"
      [] n < Len(fifo) /\ layout = "straight" -> "straight"
      [] OTHER -> "mixed"

cycle_queue_write(n, data) ==
    /\ thiz = "live" /\ get_free_size >= n
    /\ buf' = CopyIn(n, data)
    /\ head' = Advance(head, n)
    /\ call' = <<"write", n>> /\ ret' = 0 /\ out' = <<>>
    /\ fifo' = fifo \o data
    /\ layout' = LayoutAfterWrite(n)
    /\ UNCHANGED <<thiz, size, tail, heap>>

\* "lack of space"
write_refused(n) ==
    /\ thiz = "live" /\ get_free_size < n
    /\ call' = <<"write", n>> /\ ret' = -1 /\ out' = <<>>
    /\ UNCHANGED <<thiz, pri, heap, fifo, layout>>

\* "illegal param": a NULL data, buf or buf_len, or *buf_len = 0.
illegal_param ==
    /\ thiz = "live"
    /\ call' = <<"illegal", 0>> /\ ret' = -1 /\ out' = <<>>
    /\ UNCHANGED <<thiz, pri, heap, fifo, layout>>

\* n is *buf_len on entry; *buf_len on return is Len(out').
read_len(n) == IF n < get_data_size THEN n ELSE get_data_size

read_empty(n) ==
    /\ thiz = "live" /\ get_data_size = 0
    /\ call' = <<"read", n>> /\ ret' = 0 /\ out' = <<>>
    /\ UNCHANGED <<thiz, pri, heap, fifo, layout>>

read_data(n) ==
    /\ thiz = "live" /\ get_data_size # 0
    /\ out' = CopyOut(read_len(n))
    /\ tail' = Advance(tail, read_len(n))
    /\ call' = <<"read", n>> /\ ret' = 0
    /\ fifo' = SubSeq(fifo, read_len(n) + 1, Len(fifo))
    /\ layout' = LayoutAfterRead(read_len(n))
    /\ UNCHANGED <<thiz, size, head, buf, heap>>

cycle_queue_read(n) == read_empty(n) \/ read_data(n)

Next ==
    \/ \E s \in Sizes : cycle_queue_create(s)
    \/ \E s \in Sizes, why \in {"size", "malloc thiz", "malloc buf"} :
          create_fails(s, why)
    \/ cycle_queue_destroy
    \/ \E n \in 0..MaxLen : \E data \in [1..n -> Byte] :
          cycle_queue_write(n, data)
    \/ \E n \in 0..MaxLen : write_refused(n)
    \/ illegal_param
    \/ \E n \in 1..MaxLen : cycle_queue_read(n)

Spec == Init /\ [][Next]_vars

-----------------------------------------------------------------------------
(* Properties.                                                             *)

\* The types of the fields; both indices stay in [0, size - 1], as the
\* comments of CycleQueuePri say.
TypeOK ==
    /\ thiz \in {"null", "live"}
    /\ size \in Nat
    /\ IF thiz = "live"
       THEN size > 0 /\ head \in 0..(size - 1) /\ tail \in 0..(size - 1)
       ELSE size = 0 /\ head = 0 /\ tail = 0
    /\ buf \in [0..(size - 1) -> Byte]
    /\ heap \in [thiz : Nat, buf : Nat]
    /\ call \in {"none", "create", "destroy", "write", "read", "illegal"} \X Nat
    /\ ret \in {0, -1}
    /\ out \in Seq(Byte)
    /\ fifo \in Seq(Byte)
    /\ layout \in {"straight", "lone", "mixed"}

\* Whatever sequence of writes and reads wrapped the two indices, the size
\* getters agree with the bytes that were accepted and not read, and with
\* each other: the slot left empty tells a full buffer from an empty one.
Accounting ==
    thiz = "live" =>
        /\ get_data_size = Len(fifo)
        /\ get_free_size + get_data_size = size - 1

\* No memcpy of any write or read the code would accept in this state
\* leaves the malloc'd buffer.
CopiesInBounds ==
    thiz = "live" =>
        /\ \A n \in 0..get_free_size : \A i \in 1..n :
              Cell(head, n, i) \in 0..(size - 1)
        /\ \A n \in 0..get_data_size : \A i \in 1..n :
              Cell(tail, n, i) \in 0..(size - 1)

\* The object's own block is allocated exactly while the user holds the
\* object: a creation that fails half way gives the first block back.
ObjectBlockOwned == heap.thiz = IF thiz = "live" THEN 1 ELSE 0

\* A read returns the oldest unread bytes in order, when since the queue was
\* last empty every write went in one piece, or when it holds one write that
\* went in two pieces and no part of it was read.
IntactReads ==
    [][\A n \in 1..MaxLen :
          read_data(n) /\ layout # "mixed"
              => out' = SubSeq(fifo, 1, Len(out'))]_vars

\* What the header says of read ("从缓冲区头部读数据") and the unit test of
\* the content read back ("读写内容测试"): the oldest unread bytes, in order.
\* The code does not have it once a copy wrapped.
ReadsFifo ==
    [][\A n \in 1..MaxLen :
          read_data(n) => out' = SubSeq(fifo, 1, Len(out'))]_vars

(***************************************************************************)
(* The space the queue offers is that of a bounded buffer of size - 1.     *)
(***************************************************************************)
Space == INSTANCE BoundedBuffer WITH
    open <- thiz = "live",
    cap <- IF thiz = "live" THEN size - 1 ELSE 0,
    used <- IF thiz = "live" THEN get_data_size ELSE 0,
    got <- Len(out)

\* Every step of the ring is a step of the bounded buffer: a write of n bytes
\* is refused exactly when they do not fit, a read hands over all that is
\* there and was asked for, a call that is refused changes nothing, and no
\* sequence of calls counts a byte twice or loses one.
ImplementsBoundedBuffer == Space!Spec
=============================================================================
