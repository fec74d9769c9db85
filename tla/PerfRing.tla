------------------------------ MODULE PerfRing ------------------------------
(***************************************************************************)
(* RingBuffer (perf-self-profile/src/ring_buffer.rs): the circular buffer  *)
(* the kernel writes perf records into.  A record is its size, which is in *)
(* its header, and a body.  head, tail and position count on for ever; a   *)
(* cell is at its place modulo the size of the buffer.                     *)
(***************************************************************************)
EXTENDS Integers, Sequences

CONSTANT DataSize   \* cells of the data region; PAGE_COUNT pages in the code

ASSUME DataSizeAssumption == DataSize \in Nat \ {0}

Cells == 0 .. DataSize - 1

\* RingBuffer::new of a fresh mapping
EmptyRing == [data |-> [c \in Cells |-> 0], head |-> 0, tail |-> 0, position |-> 0]

\* the kernel: a record that does not fit in front of the tail is lost
Fits(ring, record) == ring.head + Len(record) - ring.tail <= DataSize
kernel_write(ring, record) ==
    LET offset(c) == (c - ring.head) % DataSize
    IN  [ring EXCEPT !.data = [c \in Cells |-> IF offset(c) < Len(record) THEN record[offset(c) + 1] ELSE @[c]],
                     !.head = @ + Len(record)]

has_data(ring) == ring.head # ring.position

record_size(ring) == ring.data[ring.position % DataSize]

\* The body is one slice, or two where it wraps; the sampler puts them together.
Slice(ring, from, to) == [i \in 1 .. to - from |-> ring.data[from + i - 1]]
\* variant: the second slice of a body that wraps begins behind the header
body_wraps_late(ring) ==
    LET size == record_size(ring) - 1
        start == ((ring.position % DataSize) + 1) % DataSize
    IN  IF start + size <= DataSize THEN Slice(ring, start, start + size)
        ELSE Slice(ring, start, DataSize) \o Slice(ring, 1, size - (DataSize - start) + 1)
body(ring) ==
    LET size == record_size(ring) - 1
        start == ((ring.position % DataSize) + 1) % DataSize
    IN  IF start + size <= DataSize THEN Slice(ring, start, start + size)
        ELSE Slice(ring, start, DataSize) \o Slice(ring, 0, size - (DataSize - start))

write_tail(ring) ==
    LET next == ring.position + record_size(ring)
    IN  [ring EXCEPT !.position = next, !.tail = next]
=============================================================================
