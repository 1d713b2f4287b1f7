------------------------------- MODULE Buffer -------------------------------
(***************************************************************************)
(* cppws::net::Buffer (include/net/buffer.hpp, src/net/buffer.cpp), used   *)
(* by any sequence of legal calls, and Connection::enqueue_write, whose    *)
(* loop makes room in one.  A buffer belongs to one thread.                *)
(*                                                                         *)
(* The bytes that are put into the buffer are numbered from 1; a 0 is a    *)
(* byte that nobody has written.                                           *)
(***************************************************************************)
EXTENDS Naturals

CONSTANTS
    InitialCapacity,            \* DEFAULT_CAPACITY, or the constructor's argument
    MaxLength,                  \* bound: bytes of one call of enqueue_write
    MaxReserve,                 \* bound: the argument of reserve
    MaxBytes                    \* bound: bytes put in so far

ASSUME BufferAssumption ==
    /\ InitialCapacity \in Nat \ {0}
    /\ MaxLength \in Nat /\ MaxReserve \in Nat /\ MaxBytes \in Nat

VARIABLES
    buf,                        \* the buffer
    pending,                    \* the len of the enqueue_write in progress, 0 if none
    written,                    \* bytes put in so far
    taken,                      \* bytes taken out so far
    need                        \* history: the most it had to hold, or was reserved

vars == <<buf, pending, written, taken, need>>

-----------------------------------------------------------------------------
(* The methods, as operators from buffers to buffers. *)

NewBuffer(data, capacity, read_pos, write_pos) ==
    [data |-> data, capacity |-> capacity, read_pos |-> read_pos, write_pos |-> write_pos]

Larger(m, n) == IF m < n THEN n ELSE m

WritableBytes(b) == b.capacity - b.write_pos
ReadableBytes(b) == b.write_pos - b.read_pos

\* The view that readable() returns
Readable(b) == [i \in 1 .. ReadableBytes(b) |-> b.data[b.read_pos + i - 1]]

\* n bytes, numbered after `last`, copied to write_ptr() and committed
CommitWrite(b, n, last) ==
    NewBuffer([i \in 0 .. (b.capacity - 1) |->
                   IF i \in b.write_pos .. (b.write_pos + n - 1)
                   THEN last + 1 + (i - b.write_pos) ELSE b.data[i]],
              b.capacity, b.read_pos, b.write_pos + n)

Consume(b, n) == NewBuffer(b.data, b.capacity, b.read_pos + n, b.write_pos)

\* Mutant: the read index is forgotten.
ConsumeAll_KeepsReadPos(b) == NewBuffer(b.data, b.capacity, b.read_pos, 0)

ConsumeAll(b) == NewBuffer(b.data, b.capacity, 0, 0)

\* Mutant: the unread bytes stay where they were.
Compact_MovesNothing(b) == NewBuffer(b.data, b.capacity, 0, ReadableBytes(b))

Compact(b) ==
    IF b.read_pos = 0 THEN b
    ELSE NewBuffer([i \in 0 .. (b.capacity - 1) |->
                        IF i < ReadableBytes(b) THEN b.data[b.read_pos + i] ELSE b.data[i]],
                   b.capacity, 0, ReadableBytes(b))

Resize(b, capacity) ==
    NewBuffer([i \in 0 .. (capacity - 1) |-> IF i < b.capacity THEN b.data[i] ELSE 0],
              capacity, b.read_pos, b.write_pos)

Reserve(b, capacity) ==
    IF capacity <= b.capacity THEN b ELSE Resize(Compact(b), capacity)

\* Mutant: doubles without compacting first.
MakeRoom_DoublesFirst(b, len) == Reserve(b, 2 * b.capacity)

\* Mutant: asks for the length of the data alone.
MakeRoom_ForDataOnly(b, len) == Reserve(Compact(b), len)

\* One turn of enqueue_write's loop
MakeRoom(b, len) ==
    IF WritableBytes(Compact(b)) < len
    THEN Reserve(Compact(b), 2 * b.capacity)
    ELSE Compact(b)

-----------------------------------------------------------------------------

Init ==
    /\ buf = NewBuffer([i \in 0 .. (InitialCapacity - 1) |-> 0], InitialCapacity, 0, 0)
    /\ pending = 0
    /\ written = 0 /\ taken = 0 /\ need = InitialCapacity

(* recv, or memcpy, into write_ptr(), then commit_write(n). *)
Fill(n) ==
    /\ pending = 0
    /\ n <= WritableBytes(buf) /\ written + n <= MaxBytes
    /\ buf' = CommitWrite(buf, n, written)
    /\ written' = written + n
    /\ UNCHANGED <<pending, taken, need>>

(* send, then consume of what it took. *)
Take(n) ==
    /\ pending = 0
    /\ n <= ReadableBytes(buf)
    /\ buf' = Consume(buf, n)
    /\ taken' = taken + n
    /\ UNCHANGED <<pending, written, need>>

(* consume_all() and reset(), which do the same. *)
TakeAll ==
    /\ pending = 0
    /\ buf' = ConsumeAll(buf)
    /\ taken' = written
    /\ UNCHANGED <<pending, written, need>>

CallCompact ==
    /\ pending = 0
    /\ buf' = Compact(buf)
    /\ UNCHANGED <<pending, written, taken, need>>

CallReserve(capacity) ==
    /\ pending = 0
    /\ buf' = Reserve(buf, capacity)
    /\ need' = Larger(need, capacity)
    /\ UNCHANGED <<pending, written, taken>>

(* enqueue_write: its call, a turn of its loop, and what follows the loop. *)
CallEnqueue(len) ==
    /\ pending = 0
    /\ written + len <= MaxBytes
    /\ pending' = len
    /\ need' = Larger(need, ReadableBytes(buf) + len)
    /\ UNCHANGED <<buf, written, taken>>

EnqueueTurn ==
    /\ WritableBytes(buf) < pending
    /\ buf' = MakeRoom(buf, pending)
    /\ UNCHANGED <<pending, written, taken, need>>

EnqueueCopies ==
    /\ pending > 0
    /\ WritableBytes(buf) >= pending
    /\ buf' = CommitWrite(buf, pending, written)
    /\ written' = written + pending
    /\ pending' = 0
    /\ UNCHANGED <<taken, need>>

Next ==
    \/ \E n \in 1 .. MaxBytes : Fill(n) \/ Take(n)
    \/ TakeAll
    \/ CallCompact
    \/ \E capacity \in 0 .. MaxReserve : CallReserve(capacity)
    \/ \E len \in 1 .. MaxLength : CallEnqueue(len)
    \/ EnqueueTurn
    \/ EnqueueCopies

Spec == Init /\ [][Next]_vars

\* enqueue_write runs in one thread without waiting for anybody.
FairSpec == Spec /\ WF_vars(EnqueueTurn) /\ WF_vars(EnqueueCopies)

-----------------------------------------------------------------------------
(* Types, and the order of the indices that the header's picture shows        *)
(* (buffer.hpp:6-12).  The memmove, the memcpy and the resize stay inside     *)
(* the array because of it.                                                   *)
TypeOK ==
    /\ buf = NewBuffer(buf.data, buf.capacity, buf.read_pos, buf.write_pos)
    /\ buf.capacity \in Nat \ {0}
    /\ buf.data \in [0 .. (buf.capacity - 1) -> Nat]
    /\ buf.write_pos \in 0 .. buf.capacity
    /\ buf.read_pos \in 0 .. buf.write_pos
    /\ {pending, written, taken, need} \subseteq Nat

(* However the calls are mixed, readable() is every byte put in and not yet   *)
(* taken out, in order: neither compact()'s memmove nor reserve()'s resize    *)
(* nor the reuse of the dead zone loses, repeats or overwrites one            *)
(* (buffer.cpp:47-69).                                                        *)
BytesInOrder == Readable(buf) = [i \in 1 .. (written - taken) |-> taken + i]

(* enqueue_write grows the buffer only when compacting cannot make room: the  *)
(* capacity never exceeds twice what the buffer once had to hold, or was      *)
(* asked to reserve (connection.cpp:111-116).                                 *)
CapacityIsNeeded == buf.capacity <= 2 * need

(* enqueue_write's loop ends, whatever the buffer looks like and however long *)
(* the data (connection.cpp:111-116).                                         *)
EnqueueReturns == (pending > 0) ~> (pending = 0)

=============================================================================
