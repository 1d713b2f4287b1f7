---------------------------- MODULE BufferProofs ----------------------------
(***************************************************************************)
(* Theorems about Buffer, for every initial capacity and every bound on    *)
(* the lengths: its indices stay in the array, its bytes come out in the   *)
(* order they went in, and it grows only when it must.                     *)
(***************************************************************************)
EXTENDS Buffer, TLAPS

(* What every buffer satisfies: the part of TypeOK that is about one buffer. *)
IsBuffer(b) ==
    /\ b = NewBuffer(b.data, b.capacity, b.read_pos, b.write_pos)
    /\ b.capacity \in Nat \ {0}
    /\ b.data \in [0 .. (b.capacity - 1) -> Nat]
    /\ b.write_pos \in 0 .. b.capacity
    /\ b.read_pos \in 0 .. b.write_pos

(* compact() keeps the unread bytes, and puts all free space behind them. *)
LEMMA CompactKeepsReadable ==
    ASSUME NEW b, IsBuffer(b)
    PROVE  /\ IsBuffer(Compact(b))
           /\ Readable(Compact(b)) = Readable(b)
           /\ Compact(b).capacity = b.capacity
           /\ WritableBytes(Compact(b)) = b.capacity - ReadableBytes(b)
<1>1. CASE b.read_pos = 0
  BY <1>1 DEF IsBuffer, Compact, ReadableBytes, WritableBytes
<1>2. CASE b.read_pos # 0
  <2> DEFINE c == Compact(b)
  <2>1. /\ c.capacity = b.capacity /\ c.read_pos = 0
        /\ c.write_pos = ReadableBytes(b)
        /\ c.data = [i \in 0 .. (b.capacity - 1) |->
                        IF i < ReadableBytes(b) THEN b.data[b.read_pos + i] ELSE b.data[i]]
    BY <1>2 DEF Compact, NewBuffer
  <2>2. c = NewBuffer(c.data, c.capacity, c.read_pos, c.write_pos)
    BY <1>2 DEF Compact, NewBuffer
  <2>3. ReadableBytes(b) \in 0 .. b.capacity
    BY DEF IsBuffer, ReadableBytes
  <2>4. \A i \in 0 .. (b.capacity - 1) :
            i < ReadableBytes(b) => b.read_pos + i \in 0 .. (b.capacity - 1)
    BY DEF IsBuffer, ReadableBytes
  <2>5. c.data \in [0 .. (c.capacity - 1) -> Nat]
    BY <2>1, <2>4 DEF IsBuffer
  <2>6. IsBuffer(c)
    BY <2>1, <2>2, <2>3, <2>5 DEF IsBuffer
  <2>7. ReadableBytes(c) = ReadableBytes(b)
    BY <2>1, <2>3 DEF ReadableBytes
  <2>8. \A i \in 1 .. ReadableBytes(b) :
            c.data[c.read_pos + i - 1] = b.data[b.read_pos + i - 1]
    <3> SUFFICES ASSUME NEW i \in 1 .. ReadableBytes(b)
                 PROVE  c.data[c.read_pos + i - 1] = b.data[b.read_pos + i - 1]
      OBVIOUS
    <3>1. i - 1 \in 0 .. (b.capacity - 1) /\ i - 1 < ReadableBytes(b)
      BY <2>3 DEF IsBuffer
    <3>2. c.data[i - 1] = b.data[b.read_pos + (i - 1)]
      BY <2>1, <3>1
    <3> HIDE DEF c
    <3> QED
      BY <2>1, <2>3, <3>2 DEF IsBuffer
  <2>9. Readable(c) = Readable(b)
    BY <2>7, <2>8 DEF Readable
  <2> QED
    BY <2>1, <2>3, <2>6, <2>9 DEF WritableBytes, IsBuffer
<1> QED
  BY <1>1, <1>2

(* resize() adds room behind the written bytes. *)
LEMMA ResizeKeepsReadable ==
    ASSUME NEW b, IsBuffer(b), NEW capacity \in Nat, capacity >= b.capacity
    PROVE  /\ IsBuffer(Resize(b, capacity))
           /\ Readable(Resize(b, capacity)) = Readable(b)
           /\ Resize(b, capacity).capacity = capacity
<1> DEFINE c == Resize(b, capacity)
<1>1. /\ c.capacity = capacity /\ c.read_pos = b.read_pos /\ c.write_pos = b.write_pos
      /\ c.data = [i \in 0 .. (capacity - 1) |-> IF i < b.capacity THEN b.data[i] ELSE 0]
  BY DEF Resize, NewBuffer
<1>2. c = NewBuffer(c.data, c.capacity, c.read_pos, c.write_pos)
  BY DEF Resize, NewBuffer
<1>3. c.data \in [0 .. (c.capacity - 1) -> Nat]
  <2>1. \A i \in 0 .. (capacity - 1) : i < b.capacity => b.data[i] \in Nat
    BY DEF IsBuffer
  <2> HIDE DEF c
  <2> QED
    BY <1>1, <2>1
<1>4. IsBuffer(c)
  BY <1>1, <1>2, <1>3 DEF IsBuffer
<1>5. ReadableBytes(c) = ReadableBytes(b)
  BY <1>1 DEF ReadableBytes
<1>6. \A i \in 1 .. ReadableBytes(b) :
          c.data[c.read_pos + i - 1] = b.data[b.read_pos + i - 1]
  <2> SUFFICES ASSUME NEW i \in 1 .. ReadableBytes(b)
               PROVE  c.data[c.read_pos + i - 1] = b.data[b.read_pos + i - 1]
    OBVIOUS
  <2>1. b.read_pos + i - 1 \in 0 .. (capacity - 1) /\ b.read_pos + i - 1 < b.capacity
    BY DEF IsBuffer, ReadableBytes
  <2> HIDE DEF c
  <2> QED
    BY <1>1, <2>1
<1>7. Readable(c) = Readable(b)
  BY <1>5, <1>6 DEF Readable
<1> QED
  BY <1>1, <1>4, <1>7

LEMMA ReserveKeepsReadable ==
    ASSUME NEW b, IsBuffer(b), NEW capacity \in Nat
    PROVE  /\ IsBuffer(Reserve(b, capacity))
           /\ Readable(Reserve(b, capacity)) = Readable(b)
           /\ Reserve(b, capacity).capacity = Larger(b.capacity, capacity)
<1>1. CASE capacity <= b.capacity
  BY <1>1 DEF Reserve, Larger, IsBuffer
<1>2. CASE ~(capacity <= b.capacity)
  <2>1. IsBuffer(Compact(b)) /\ Readable(Compact(b)) = Readable(b)
        /\ Compact(b).capacity = b.capacity
    BY CompactKeepsReadable
  <2>2. b.capacity \in Nat
    BY DEF IsBuffer
  <2>3. capacity >= Compact(b).capacity
    BY <1>2, <2>1, <2>2
  <2>4. /\ IsBuffer(Resize(Compact(b), capacity))
        /\ Readable(Resize(Compact(b), capacity)) = Readable(Compact(b))
        /\ Resize(Compact(b), capacity).capacity = capacity
    BY <2>1, <2>3, ResizeKeepsReadable
  <2>5. Larger(b.capacity, capacity) = capacity
    BY <1>2, <2>2 DEF Larger
  <2> QED
    BY <1>2, <2>1, <2>4, <2>5 DEF Reserve
<1> QED
  BY <1>1, <1>2

(* A turn of enqueue_write's loop keeps the unread bytes, and doubles the     *)
(* capacity only if they and the new ones do not fit.                         *)
LEMMA MakeRoomKeepsReadable ==
    ASSUME NEW b, IsBuffer(b), NEW len \in Nat
    PROVE  /\ IsBuffer(MakeRoom(b, len))
           /\ Readable(MakeRoom(b, len)) = Readable(b)
           /\ \/ MakeRoom(b, len).capacity = b.capacity
              \/ /\ b.capacity < ReadableBytes(b) + len
                 /\ MakeRoom(b, len).capacity = 2 * b.capacity
<1> DEFINE c == Compact(b)
<1>1. /\ IsBuffer(c) /\ Readable(c) = Readable(b) /\ c.capacity = b.capacity
      /\ WritableBytes(c) = b.capacity - ReadableBytes(b)
  BY CompactKeepsReadable
<1>2. b.capacity \in Nat \ {0} /\ ReadableBytes(b) \in Nat
  BY DEF IsBuffer, ReadableBytes
<1> HIDE DEF c
<1>3. CASE WritableBytes(c) < len
  <2> 2 * b.capacity \in Nat
    BY <1>2
  <2>1. /\ IsBuffer(Reserve(c, 2 * b.capacity))
        /\ Readable(Reserve(c, 2 * b.capacity)) = Readable(c)
        /\ Reserve(c, 2 * b.capacity).capacity = Larger(c.capacity, 2 * b.capacity)
    BY <1>1, ReserveKeepsReadable
  <2>2. Larger(c.capacity, 2 * b.capacity) = 2 * b.capacity
    BY <1>1, <1>2 DEF Larger
  <2>3. b.capacity < ReadableBytes(b) + len
    BY <1>1, <1>2, <1>3
  <2> QED
    BY <1>1, <1>3, <2>1, <2>2, <2>3 DEF MakeRoom, c
<1>4. CASE ~(WritableBytes(c) < len)
  BY <1>1, <1>4 DEF MakeRoom, c
<1> QED
  BY <1>3, <1>4

(* commit_write() puts the new bytes behind the unread ones. *)
LEMMA CommitWriteAppends ==
    ASSUME NEW b, IsBuffer(b), NEW n \in Nat, n <= WritableBytes(b), NEW last \in Nat
    PROVE  LET c == CommitWrite(b, n, last) IN
           /\ IsBuffer(c)
           /\ c.capacity = b.capacity
           /\ ReadableBytes(c) = ReadableBytes(b) + n
           /\ \A i \in 1 .. ReadableBytes(b) :
                  c.data[c.read_pos + i - 1] = b.data[b.read_pos + i - 1]
           /\ \A i \in (ReadableBytes(b) + 1) .. ReadableBytes(c) :
                  c.data[c.read_pos + i - 1] = last + (i - ReadableBytes(b))
<1> DEFINE c == CommitWrite(b, n, last)
<1>1. /\ c.capacity = b.capacity /\ c.read_pos = b.read_pos /\ c.write_pos = b.write_pos + n
      /\ c.data = [i \in 0 .. (b.capacity - 1) |->
                      IF i \in b.write_pos .. (b.write_pos + n - 1)
                      THEN last + 1 + (i - b.write_pos) ELSE b.data[i]]
  BY DEF CommitWrite, NewBuffer
<1>2. c = NewBuffer(c.data, c.capacity, c.read_pos, c.write_pos)
  BY DEF CommitWrite, NewBuffer
<1>3. c.data \in [0 .. (c.capacity - 1) -> Nat]
  <2>1. \A i \in 0 .. (b.capacity - 1) :
            /\ b.data[i] \in Nat
            /\ i \in b.write_pos .. (b.write_pos + n - 1)
                   => last + 1 + (i - b.write_pos) \in Nat
    BY DEF IsBuffer
  <2> HIDE DEF c
  <2> QED
    BY <1>1, <2>1
<1>4. IsBuffer(c)
  BY <1>1, <1>2, <1>3 DEF IsBuffer, WritableBytes
<1>5. ReadableBytes(c) = ReadableBytes(b) + n
  BY <1>1 DEF ReadableBytes, IsBuffer
<1> HIDE DEF c
<1>6. ASSUME NEW i \in 1 .. ReadableBytes(b)
      PROVE  c.data[c.read_pos + i - 1] = b.data[b.read_pos + i - 1]
  <2>1. /\ b.read_pos + i - 1 \in 0 .. (b.capacity - 1)
        /\ b.read_pos + i - 1 \notin b.write_pos .. (b.write_pos + n - 1)
    BY DEF IsBuffer, ReadableBytes
  <2> QED
    BY <1>1, <2>1
<1>7. ASSUME NEW i \in (ReadableBytes(b) + 1) .. ReadableBytes(c)
      PROVE  c.data[c.read_pos + i - 1] = last + (i - ReadableBytes(b))
  <2>1. /\ b.read_pos + i - 1 \in 0 .. (b.capacity - 1)
        /\ b.read_pos + i - 1 \in b.write_pos .. (b.write_pos + n - 1)
    BY <1>5 DEF IsBuffer, ReadableBytes, WritableBytes
  <2>2. c.data[b.read_pos + i - 1] = last + 1 + ((b.read_pos + i - 1) - b.write_pos)
    BY <1>1, <2>1
  <2>3. last + 1 + ((b.read_pos + i - 1) - b.write_pos) = last + (i - ReadableBytes(b))
    BY <1>5 DEF IsBuffer, ReadableBytes
  <2> QED
    BY <1>1, <2>2, <2>3
<1> QED
  BY <1>1, <1>4, <1>5, <1>6, <1>7 DEF c

-----------------------------------------------------------------------------
(* What has been taken out and what is unread add up to what was put in.      *)
(* Without it BytesInOrder would not say which bytes are unread.              *)
Accounted == ReadableBytes(buf) = written - taken

Inv == TypeOK /\ Accounted /\ BytesInOrder

\* TypeOK and BytesInOrder, in the terms of the lemmas.
ByteAt(b, i) == b.data[b.read_pos + i - 1]
InOrder(b, after) == \A i \in 1 .. ReadableBytes(b) : ByteAt(b, i) = after + i

LEMMA InvInTerms ==
    Inv <=> /\ IsBuffer(buf)
            /\ {pending, written, taken, need} \subseteq Nat
            /\ Accounted
            /\ InOrder(buf, taken)
<1>1. ASSUME Accounted
      PROVE  BytesInOrder <=> InOrder(buf, taken)
  BY <1>1 DEF Accounted, BytesInOrder, InOrder, ByteAt, Readable
<1> QED
  BY <1>1 DEF Inv, TypeOK, IsBuffer

LEMMA InvInit == Init => Inv
<1> SUFFICES ASSUME Init PROVE Inv
  OBVIOUS
<1>1. /\ buf.capacity = InitialCapacity /\ buf.read_pos = 0 /\ buf.write_pos = 0
      /\ buf.data = [i \in 0 .. (InitialCapacity - 1) |-> 0]
      /\ buf = NewBuffer(buf.data, buf.capacity, buf.read_pos, buf.write_pos)
  BY DEF Init, NewBuffer
<1>2. TypeOK
  BY <1>1, BufferAssumption DEF Init, TypeOK
<1>3. ReadableBytes(buf) = 0 /\ written - taken = 0
  BY <1>1 DEF Init, ReadableBytes
<1>4. Accounted /\ InOrder(buf, taken)
  BY <1>3 DEF Accounted, InOrder
<1> QED
  BY <1>2, <1>4, InvInTerms DEF TypeOK, IsBuffer

(* A step that leaves the unread bytes as they are, as values. *)
LEMMA SameReadable ==
    ASSUME NEW b, NEW c, IsBuffer(b), IsBuffer(c), Readable(c) = Readable(b), NEW after
    PROVE  /\ ReadableBytes(c) = ReadableBytes(b)
           /\ InOrder(b, after) => InOrder(c, after)
<1>1. ReadableBytes(b) \in Nat /\ ReadableBytes(c) \in Nat
  BY DEF IsBuffer, ReadableBytes
<1>2. DOMAIN Readable(b) = 1 .. ReadableBytes(b) /\ DOMAIN Readable(c) = 1 .. ReadableBytes(c)
  BY DEF Readable
<1>3. ReadableBytes(c) = ReadableBytes(b)
  BY <1>1, <1>2
<1>4. ASSUME InOrder(b, after), NEW i \in 1 .. ReadableBytes(c)
      PROVE  ByteAt(c, i) = after + i
  <2>1. Readable(c)[i] = ByteAt(c, i) /\ Readable(b)[i] = ByteAt(b, i)
    BY <1>3 DEF Readable, ByteAt
  <2> QED
    BY <1>3, <1>4, <2>1 DEF InOrder
<1> QED
  BY <1>3, <1>4 DEF InOrder

LEMMA InvStep == Inv /\ [Next]_vars => Inv'
<1> SUFFICES ASSUME Inv, [Next]_vars PROVE Inv'
  OBVIOUS
<1>0. /\ IsBuffer(buf) /\ Accounted /\ InOrder(buf, taken)
      /\ pending \in Nat /\ written \in Nat /\ taken \in Nat /\ need \in Nat
      /\ ReadableBytes(buf) \in Nat /\ WritableBytes(buf) \in Nat
  BY InvInTerms DEF IsBuffer, ReadableBytes, WritableBytes
\* It suffices to look at the new buffer in the terms of the lemmas.
<1>g. ASSUME IsBuffer(buf'), {pending', written', taken', need'} \subseteq Nat,
             ReadableBytes(buf') = written' - taken', InOrder(buf', taken')
      PROVE  Inv'
  <2>1. BytesInOrder' <=> InOrder(buf', taken')
    BY <1>g DEF BytesInOrder, InOrder, ByteAt, Readable
  <2> QED
    BY <1>g, <2>1 DEF Inv, TypeOK, IsBuffer, Accounted
\* Calls that change no unread byte, and neither put nor take any.
<1>s. ASSUME IsBuffer(buf'), Readable(buf') = Readable(buf),
             {pending', need'} \subseteq Nat, UNCHANGED <<written, taken>>
      PROVE  Inv'
  <2>1. ReadableBytes(buf') = ReadableBytes(buf) /\ InOrder(buf', taken)
    BY <1>0, <1>s, SameReadable
  <2> QED
    BY <1>0, <1>g, <1>s, <2>1 DEF Accounted
\* n more bytes behind the unread ones.
<1>c. ASSUME NEW n \in Nat, n <= WritableBytes(buf),
             buf' = CommitWrite(buf, n, written), written' = written + n,
             UNCHANGED taken, {pending', need'} \subseteq Nat
      PROVE  Inv'
  <2>1. /\ IsBuffer(buf')
        /\ ReadableBytes(buf') = ReadableBytes(buf) + n
        /\ \A i \in 1 .. ReadableBytes(buf) : ByteAt(buf', i) = ByteAt(buf, i)
        /\ \A i \in (ReadableBytes(buf) + 1) .. ReadableBytes(buf') :
               ByteAt(buf', i) = written + (i - ReadableBytes(buf))
    BY <1>0, <1>c, CommitWriteAppends DEF ByteAt
  <2>2. ASSUME NEW i \in 1 .. ReadableBytes(buf')
        PROVE  ByteAt(buf', i) = taken + i
    <3>1. CASE i <= ReadableBytes(buf)
      BY <1>0, <2>1, <3>1 DEF InOrder
    <3>2. CASE ~(i <= ReadableBytes(buf))
      <4>1. ByteAt(buf', i) = written + (i - ReadableBytes(buf))
        BY <1>0, <2>1, <3>2
      <4> QED
        BY <1>0, <4>1 DEF Accounted
    <3> QED
      BY <3>1, <3>2
  <2>3. InOrder(buf', taken')
    BY <1>c, <2>2 DEF InOrder
  <2>4. ReadableBytes(buf') = written' - taken' /\ written' \in Nat
    BY <1>0, <1>c, <2>1 DEF Accounted
  <2> QED
    BY <1>0, <1>c, <1>g, <2>1, <2>3, <2>4
<1>1. ASSUME NEW n \in 1 .. MaxBytes, Fill(n) PROVE Inv'
  BY <1>0, <1>1, <1>c, BufferAssumption DEF Fill
<1>2. ASSUME NEW n \in 1 .. MaxBytes, Take(n) PROVE Inv'
  <2>1. /\ buf'.data = buf.data /\ buf'.capacity = buf.capacity
        /\ buf'.read_pos = buf.read_pos + n /\ buf'.write_pos = buf.write_pos
        /\ buf' = NewBuffer(buf'.data, buf'.capacity, buf'.read_pos, buf'.write_pos)
    BY <1>2 DEF Take, Consume, NewBuffer
  <2>2. n \in Nat /\ n <= ReadableBytes(buf) /\ taken' = taken + n
        /\ UNCHANGED <<pending, written, need>>
    BY <1>2, BufferAssumption DEF Take
  <2>3. IsBuffer(buf')
    BY <1>0, <2>1, <2>2 DEF IsBuffer, ReadableBytes
  <2>4. ReadableBytes(buf') = ReadableBytes(buf) - n
    BY <1>0, <2>1, <2>2 DEF IsBuffer, ReadableBytes
  <2>5. ASSUME NEW i \in 1 .. ReadableBytes(buf')
        PROVE  ByteAt(buf', i) = taken' + i
    <3>1. i + n \in 1 .. ReadableBytes(buf)
      BY <1>0, <2>2, <2>4
    <3>2. ByteAt(buf, i + n) = taken + (i + n)
      BY <1>0, <3>1 DEF InOrder
    <3>3. buf'.read_pos + i - 1 = buf.read_pos + (i + n) - 1
      BY <1>0, <2>1, <2>2 DEF IsBuffer
    <3>4. ByteAt(buf', i) = ByteAt(buf, i + n)
      BY <2>1, <3>3 DEF ByteAt
    <3> QED
      BY <1>0, <2>2, <3>2, <3>4
  <2>6. InOrder(buf', taken')
    BY <2>5 DEF InOrder
  <2> QED
    BY <1>0, <1>g, <2>2, <2>3, <2>4, <2>6 DEF Accounted
<1>3. ASSUME TakeAll PROVE Inv'
  <2>1. /\ buf'.data = buf.data /\ buf'.capacity = buf.capacity
        /\ buf'.read_pos = 0 /\ buf'.write_pos = 0
        /\ buf' = NewBuffer(buf'.data, buf'.capacity, buf'.read_pos, buf'.write_pos)
    BY <1>3 DEF TakeAll, ConsumeAll, NewBuffer
  <2>2. IsBuffer(buf')
    BY <1>0, <2>1 DEF IsBuffer
  <2>3. ReadableBytes(buf') = 0
    BY <2>1 DEF ReadableBytes
  <2> QED
    BY <1>0, <1>3, <1>g, <2>2, <2>3 DEF TakeAll, InOrder
<1>4. ASSUME CallCompact PROVE Inv'
  BY <1>0, <1>4, <1>s, CompactKeepsReadable DEF CallCompact
<1>5. ASSUME NEW capacity \in 0 .. MaxReserve, CallReserve(capacity) PROVE Inv'
  <2>1. capacity \in Nat /\ Larger(need, capacity) \in Nat
    BY <1>0, BufferAssumption DEF Larger
  <2> QED
    BY <1>0, <1>5, <1>s, <2>1, ReserveKeepsReadable DEF CallReserve
<1>6. ASSUME NEW len \in 1 .. MaxLength, CallEnqueue(len) PROVE Inv'
  <2>1. len \in Nat /\ Larger(need, ReadableBytes(buf) + len) \in Nat
    BY <1>0, BufferAssumption DEF Larger
  <2> QED
    BY <1>0, <1>6, <1>s, <2>1 DEF CallEnqueue
<1>7. ASSUME EnqueueTurn PROVE Inv'
  BY <1>0, <1>7, <1>s, MakeRoomKeepsReadable DEF EnqueueTurn
<1>8. ASSUME EnqueueCopies PROVE Inv'
  BY <1>0, <1>8, <1>c DEF EnqueueCopies
<1>9. CASE UNCHANGED vars
  BY <1>0, <1>9, <1>s DEF vars
<1> QED
  BY <1>1, <1>2, <1>3, <1>4, <1>5, <1>6, <1>7, <1>8, <1>9 DEF Next

(* The indices never leave the array nor pass one another, for every initial *)
(* capacity and every sequence of legal calls (buffer.hpp:6-12).              *)
THEOREM IndicesInRange == Spec => []TypeOK
<1>1. Spec => []Inv
  BY InvInit, InvStep, PTL DEF Spec
<1>2. Inv => TypeOK
  BY DEF Inv
<1> QED
  BY <1>1, <1>2, PTL

(* No byte is lost, repeated or overtaken by compact, reserve or              *)
(* enqueue_write (buffer.cpp:47-69, connection.cpp:110-119).                  *)
THEOREM NoByteLost == Spec => []BytesInOrder
<1>1. Spec => []Inv
  BY InvInit, InvStep, PTL DEF Spec
<1>2. Inv => BytesInOrder
  BY DEF Inv
<1> QED
  BY <1>1, <1>2, PTL

-----------------------------------------------------------------------------
(* While enqueue_write makes room, what the buffer has to hold is counted in  *)
(* need: the loop doubles only a capacity that is smaller than that.          *)
NeedInv ==
    /\ Inv
    /\ CapacityIsNeeded
    /\ pending > 0 => ReadableBytes(buf) + pending <= need

LEMMA NeedInit == Init => NeedInv
<1> SUFFICES ASSUME Init PROVE NeedInv
  OBVIOUS
<1>1. Inv
  BY InvInit
<1>2. buf.capacity = InitialCapacity
  BY DEF Init, NewBuffer
<1> QED
  BY <1>1, <1>2, BufferAssumption DEF Init, NeedInv, CapacityIsNeeded

LEMMA NeedStep == NeedInv /\ [Next]_vars => NeedInv'
<1> SUFFICES ASSUME NeedInv, [Next]_vars PROVE NeedInv'
  OBVIOUS
<1>0. /\ IsBuffer(buf) /\ buf.capacity \in Nat \ {0} /\ ReadableBytes(buf) \in Nat
      /\ pending \in Nat /\ need \in Nat
      /\ buf.capacity <= 2 * need
      /\ pending > 0 => ReadableBytes(buf) + pending <= need
  BY InvInTerms DEF NeedInv, CapacityIsNeeded, IsBuffer, ReadableBytes
<1>i. Inv'
  BY InvStep DEF NeedInv
\* The capacity stays, or is one that reserve was asked for.
<1>k. ASSUME pending' = 0, need' \in Nat, need' >= need,
             buf'.capacity = buf.capacity \/ buf'.capacity <= need',
             buf'.capacity \in Nat
      PROVE  NeedInv'
  BY <1>0, <1>i, <1>k DEF NeedInv, CapacityIsNeeded
<1>1. ASSUME NEW n \in 1 .. MaxBytes, Fill(n) PROVE NeedInv'
  BY <1>0, <1>1, <1>k DEF Fill, CommitWrite, NewBuffer
<1>2. ASSUME NEW n \in 1 .. MaxBytes, Take(n) PROVE NeedInv'
  BY <1>0, <1>2, <1>k DEF Take, Consume, NewBuffer
<1>3. ASSUME TakeAll PROVE NeedInv'
  BY <1>0, <1>3, <1>k DEF TakeAll, ConsumeAll, NewBuffer
<1>4. ASSUME CallCompact PROVE NeedInv'
  BY <1>0, <1>4, <1>k, CompactKeepsReadable DEF CallCompact
<1>5. ASSUME NEW capacity \in 0 .. MaxReserve, CallReserve(capacity) PROVE NeedInv'
  <2>1. capacity \in Nat /\ Larger(need, capacity) \in Nat
        /\ Larger(need, capacity) >= need /\ Larger(need, capacity) >= capacity
    BY <1>0, BufferAssumption DEF Larger
  <2>2. buf'.capacity = Larger(buf.capacity, capacity)
    BY <1>0, <1>5, <2>1, ReserveKeepsReadable DEF CallReserve
  <2>3. buf'.capacity = buf.capacity \/ buf'.capacity <= need'
    BY <1>0, <1>5, <2>1, <2>2 DEF CallReserve, Larger
  <2>4. buf'.capacity \in Nat
    BY <1>0, <2>1, <2>2 DEF Larger
  <2> QED
    BY <1>5, <1>k, <2>1, <2>3, <2>4 DEF CallReserve
<1>6. ASSUME NEW len \in 1 .. MaxLength, CallEnqueue(len) PROVE NeedInv'
  <2>1. len \in Nat /\ ReadableBytes(buf) + len \in Nat
    BY <1>0, BufferAssumption
  <2>2. /\ Larger(need, ReadableBytes(buf) + len) >= need
        /\ Larger(need, ReadableBytes(buf) + len) >= ReadableBytes(buf) + len
        /\ Larger(need, ReadableBytes(buf) + len) \in Nat
    BY <1>0, <2>1 DEF Larger
  <2>3. need' >= need /\ need' >= ReadableBytes(buf) + pending' /\ need' \in Nat
        /\ UNCHANGED buf
    BY <1>6, <2>2 DEF CallEnqueue
  <2> QED
    BY <1>0, <1>i, <2>3 DEF NeedInv, CapacityIsNeeded, ReadableBytes
<1>7. ASSUME EnqueueTurn PROVE NeedInv'
  <2>1. WritableBytes(buf) < pending /\ UNCHANGED <<pending, need>>
        /\ buf' = MakeRoom(buf, pending)
    BY <1>7 DEF EnqueueTurn
  <2>2. pending > 0
    BY <1>0, <2>1 DEF WritableBytes, IsBuffer
  <2>3. /\ IsBuffer(buf') /\ Readable(buf') = Readable(buf)
        /\ \/ buf'.capacity = buf.capacity
           \/ /\ buf.capacity < ReadableBytes(buf) + pending
              /\ buf'.capacity = 2 * buf.capacity
    BY <1>0, <2>1, MakeRoomKeepsReadable
  <2>4. ReadableBytes(buf') = ReadableBytes(buf)
    BY <1>0, <2>3, SameReadable
  <2>5. buf'.capacity <= 2 * need
    BY <1>0, <2>2, <2>3
  <2> QED
    BY <1>0, <1>i, <2>1, <2>4, <2>5 DEF NeedInv, CapacityIsNeeded, ReadableBytes
<1>8. ASSUME EnqueueCopies PROVE NeedInv'
  BY <1>0, <1>8, <1>k DEF EnqueueCopies, CommitWrite, NewBuffer
<1>9. CASE UNCHANGED vars
  BY <1>0, <1>9, <1>i DEF vars, NeedInv, CapacityIsNeeded, ReadableBytes
<1> QED
  BY <1>1, <1>2, <1>3, <1>4, <1>5, <1>6, <1>7, <1>8, <1>9 DEF Next

(* enqueue_write never makes the buffer larger than twice what it has to      *)
(* hold: it doubles only when the unread and the new bytes do not fit even    *)
(* after compacting (connection.cpp:111-116).                                 *)
THEOREM GrowsOnlyIfNeeded == Spec => []CapacityIsNeeded
<1>1. Spec => []NeedInv
  BY NeedInit, NeedStep, PTL DEF Spec
<1>2. NeedInv => CapacityIsNeeded
  BY DEF NeedInv
<1> QED
  BY <1>1, <1>2, PTL

=============================================================================
