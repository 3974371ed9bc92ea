----------------------------- MODULE MessageBuffer -----------------------------
(***************************************************************************)
(* The message buffer of the network connections (net/detail/              *)
(* message_buffer.h) and the read of Conn over it (net/conn.h): a chain of *)
(* buffers of BufferLen bytes with a read and a write index, buffers being *)
(* added in front of the write index and freed behind the read index.      *)
(*                                                                         *)
(* A cell of a new buffer holds Junk.  pending is what was written and not *)
(* yet read.  A buffer is used by a Conn, or by a stream of messages that  *)
(* takes whatever the socket has and peeks, reads and skips.  Conn::read   *)
(* waits for the socket between its two halves, and copies from the read   *)
(* pointer as if the chain were one piece of memory: what lies behind a    *)
(* buffer is Junk.                                                         *)
(***************************************************************************)
EXTENDS Integers, Sequences

CONSTANTS
  BufferLen,             \* buffer_len
  Bytes,                 \* values of a byte
  Junk,                  \* what memory holds before it is written
  MaxBuffers,            \* bound: buffers in the chain
  MaxRead                \* bound: bytes asked for at once

VARIABLES
  user,                  \* "conn" or "stream"
  buf,                   \* buffers, read_ind, write_ind, sanity_check
  pending,               \* history: bytes written and not read
  wanted,                \* size that Conn::read waits for, 0 if none
  got                    \* what the last read or peek copied, and what it should be

bufferVars == <<user, buf, pending, wanted, got>>

NewBuffer == [i \in 0..BufferLen - 1 |-> Junk]

Fresh == [chain |-> <<NewBuffer>>, read |-> <<0, 0>>, write |-> <<0, 0>>, sanity |-> 1]

(* add_buffer_to_chain, n times                                            *)
Chained(b, n) ==
  [b EXCEPT !.chain = @ \o [i \in 1..n |-> NewBuffer], !.sanity = @ + n]

TotalBytes(b) == BufferLen * Len(b.chain)

BytesToReadFromIndex(b, ind) == (b.write[1] - ind[1]) * BufferLen + b.write[2] - ind[2]

BytesToRead(b) == BytesToReadFromIndex(b, b.read)

BytesToWrite(b) == TotalBytes(b) - b.write[1] * BufferLen - b.write[2]

AdvanceIndex(ind, bytes) ==
  <<ind[1] + (bytes + ind[2]) \div BufferLen, (bytes + ind[2]) % BufferLen>>

(* get_ptr, whose first counts from 0                                      *)
At(b, ind) == b.chain[ind[1] + 1][ind[2]]

AddSpace(b, bytes) == Chained(b, bytes \div BufferLen + 1)

Reset(b) == [chain |-> <<b.chain[1]>>, read |-> <<0, 0>>, write |-> <<0, 0>>, sanity |-> 1]

(* A read index that meets the write index resets the buffer; else the     *)
(* buffers before it are freed.                                            *)
AdvanceReadPtr(b, bytes) ==
  LET ind == AdvanceIndex(b.read, bytes)
  IN IF ind = b.write THEN Reset(b)
     ELSE [chain |-> SubSeq(b.chain, ind[1] + 1, Len(b.chain)), read |-> <<0, ind[2]>>,
           write |-> <<b.write[1] - ind[1], b.write[2]>>, sanity |-> b.sanity - ind[1]]

(* The write index is always inside the chain.                             *)
AdvanceWritePtr(b, bytes) ==
  LET ind == AdvanceIndex(b.write, bytes)
      missing == ind[1] + 1 - Len(b.chain)
  IN [Chained(b, IF missing > 0 THEN missing ELSE 0) EXCEPT !.write = ind]

(* The sequence of buffers handed to async_read: the cells from the write  *)
(* index to the end of the chain.                                          *)
Cells(b) == [i \in 1..BytesToWrite(b) |-> AdvanceIndex(b.write, i - 1)]

Filled(b, data) ==
  LET cell == Cells(b)
      At0(c, i) == {k \in DOMAIN data : cell[k] = <<c - 1, i>>}
  IN [b EXCEPT !.chain = [c \in DOMAIN b.chain |-> [i \in 0..BufferLen - 1 |->
       IF At0(c, i) = {} THEN b.chain[c][i] ELSE data[CHOOSE k \in At0(c, i) : TRUE]]]]

(* memcpy out of one buffer after the other, as read and peek do.          *)
RECURSIVE Copy(_, _, _)
Copy(b, ind, size) ==
  LET inBuffer == BufferLen - ind[2]
      part(n) == [i \in 1..n |-> At(b, <<ind[1], ind[2] + i - 1>>)]
  IN IF ind[2] + size <= BufferLen THEN part(size)
     ELSE part(inBuffer) \o Copy(b, AdvanceIndex(ind, inBuffer), size - inBuffer)

(* memcpy from read_ptr() as if the chain were one piece.                  *)
CopyFlat(b, size) ==
  [i \in 1..size |-> IF b.read[2] + i > BufferLen THEN Junk
                     ELSE At(b, <<b.read[1], b.read[2] + i - 1>>)]

-----------------------------------------------------------------------------
(* A stream of messages *)

(* Room for the rest of a message.                                         *)
Grow(bytes) ==
  /\ user = "stream"
  /\ Len(AddSpace(buf, bytes).chain) <= MaxBuffers
  /\ buf' = AddSpace(buf, bytes)
  /\ UNCHANGED <<user, pending, wanted, got>>

(* The socket has delivered bytes, any number that there is room for.      *)
Arrive ==
  /\ user = "stream"
  /\ \E n \in 1..BytesToWrite(buf) : \E data \in [1..n -> Bytes] :
       /\ Len(AdvanceWritePtr(buf, n).chain) <= MaxBuffers
       /\ buf' = AdvanceWritePtr(Filled(buf, data), n)
       /\ pending' = pending \o data
  /\ UNCHANGED <<user, wanted, got>>

(* Variant: copies as Conn::read does.                                     *)
ReadFlat(size) ==
  /\ user = "stream" /\ size <= BytesToRead(buf)
  /\ got' = [bytes |-> CopyFlat(buf, size), right |-> SubSeq(pending, 1, size)]
  /\ buf' = AdvanceReadPtr(buf, size)
  /\ pending' = SubSeq(pending, size + 1, Len(pending))
  /\ UNCHANGED <<user, wanted>>

(* read(s, size): an error, and no change, if there are too few bytes.     *)
Read(size) ==
  /\ user = "stream" /\ size <= BytesToRead(buf)
  /\ got' = [bytes |-> Copy(buf, buf.read, size), right |-> SubSeq(pending, 1, size)]
  /\ buf' = AdvanceReadPtr(buf, size)
  /\ pending' = SubSeq(pending, size + 1, Len(pending))
  /\ UNCHANGED <<user, wanted>>

(* A peek datastream that has already gone over some bytes.                *)
Peek(over, size) ==
  LET ind == AdvanceIndex(buf.read, over)
  IN /\ user = "stream" /\ over + size <= BytesToRead(buf)
     /\ size <= BytesToReadFromIndex(buf, ind)
     /\ got' = [bytes |-> Copy(buf, ind, size), right |-> SubSeq(pending, over + 1, over + size)]
     /\ UNCHANGED <<user, buf, pending, wanted>>

(* skip of a datastream, which its users keep within what there is.        *)
Skip(bytes) ==
  /\ user = "stream" /\ bytes <= BytesToRead(buf)
  /\ buf' = AdvanceReadPtr(buf, bytes)
  /\ pending' = SubSeq(pending, bytes + 1, Len(pending))
  /\ UNCHANGED <<user, wanted, got>>

-----------------------------------------------------------------------------
(* Conn::read *)

(* Room for the bytes that are missing                                     *)
ConnRoom(b, bytes) == IF BytesToWrite(b) < bytes THEN AddSpace(b, bytes - BytesToWrite(b)) ELSE b

(* There may be enough bytes; else the socket is read for what is missing. *)
ConnReadStart(size) ==
  /\ user = "conn" /\ wanted = 0
  /\ IF BytesToRead(buf) >= size
     THEN /\ got' = [bytes |-> CopyFlat(buf, size), right |-> SubSeq(pending, 1, size)]
          /\ buf' = AdvanceReadPtr(buf, size)
          /\ pending' = SubSeq(pending, size + 1, Len(pending))
          /\ UNCHANGED wanted
     ELSE /\ buf' = ConnRoom(buf, size - BytesToRead(buf))
          /\ wanted' = size
          /\ UNCHANGED <<pending, got>>
  /\ UNCHANGED user

(* The socket has delivered exactly what was missing.                      *)
ConnReadEnd ==
  /\ wanted > 0
  /\ \E data \in [1..wanted - BytesToRead(buf) -> Bytes] :
       LET full == AdvanceWritePtr(Filled(buf, data), Len(data))
       IN /\ got' = [bytes |-> CopyFlat(full, wanted), right |-> pending \o data]
          /\ buf' = AdvanceReadPtr(full, wanted)
  /\ pending' = <<>>
  /\ wanted' = 0
  /\ UNCHANGED user

(* The socket reports an error; what it wrote is not advanced over.        *)
ConnReadFails ==
  /\ wanted > 0
  /\ \E n \in 0..wanted - BytesToRead(buf) - 1 : \E data \in [1..n -> Bytes] : buf' = Filled(buf, data)
  /\ wanted' = 0
  /\ UNCHANGED <<user, pending, got>>

BufferInit ==
  /\ user \in {"conn", "stream"}
  /\ buf = Fresh
  /\ pending = <<>>
  /\ wanted = 0
  /\ got = [bytes |-> <<>>, right |-> <<>>]

BufferNext ==
  \/ \E n \in 1..MaxRead : Grow(n) \/ Read(n) \/ Skip(n) \/ ConnReadStart(n)
  \/ \E over \in 0..MaxRead, n \in 1..MaxRead : Peek(over, n)
  \/ Arrive
  \/ ConnReadEnd
  \/ ConnReadFails

BufferSpec == BufferInit /\ [][BufferNext]_bufferVars

-----------------------------------------------------------------------------
(* The count that reset() exits the process over is the number of buffers, *)
(* and there is always a cell at the write index to write to.              *)
ChainIsSound ==
  /\ buf.sanity = Len(buf.chain)
  /\ buf.write[1] < Len(buf.chain) /\ buf.write[2] < BufferLen
  /\ buf.read[1] = 0 /\ BytesToRead(buf) >= 0

(* From the read to the write index the chain holds the bytes that were    *)
(* written and not read, across additions, frees and resets.               *)
HoldsThePending ==
  /\ BytesToRead(buf) = Len(pending)
  /\ Copy(buf, buf.read, Len(pending)) = pending

(* read, peek and Conn::read give the bytes in the order they came, and a  *)
(* peek disturbs no read after it.  A Conn's read of more than a buffer    *)
(* runs off the first one; up to that size the buffer is empty, and so     *)
(* reset, whenever a read starts, also after one that failed.              *)
ReadsTheStream ==
  got.bytes = got.right \/ (user = "conn" /\ Len(got.bytes) > BufferLen)
==============================================================================
