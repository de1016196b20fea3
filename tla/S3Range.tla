------------------------------ MODULE S3Range ------------------------------
(***************************************************************************)
(* Range reads with integrity chunks: _IntegritySpool digests a payload in *)
(* chunks while it arrives, and _VerifiedRangeSource.open fetches the whole*)
(* chunks that cover a range, checks each against its digest and hands out *)
(* the range.  Both cut what they are given, in pieces of any size, at the *)
(* chunk boundaries.  Byte i of the payload is i and a damaged byte is 0; a*)
(* digest stands for the bytes it was computed from.                       *)
(***************************************************************************)
EXTENDS Integers, Sequences

CONSTANTS
  Lengths,       \* payload lengths
  ChunkSizes,    \* values of integrity_chunk_bytes
  MaxRange,      \* max_range_bytes
  MaxPiece       \* bound: bytes of one write or one read

ASSUME RangeAssumption ==
  /\ Lengths \subseteq Nat /\ ChunkSizes \subseteq Nat \ {0}
  /\ MaxRange \in Nat /\ MaxPiece \in Nat \ {0}

VARIABLES
  total,         \* length of the payload
  stored,        \* chunk size in the envelope
  size,          \* chunk size of the configuration that reads
  spool,         \* _IntegritySpool
  reader         \* one range read

vars == <<total, stored, size, spool, reader>>

Bytes == 0..total
Payload == [i \in 1..total |-> i]
Smaller(a, b) == IF a <= b THEN a ELSE b

Idle == [pc |-> "idle", start |-> 0, end |-> 0, body |-> <<>>, honest |-> TRUE,
         spooled |-> <<>>, raw |-> <<>>, index |-> 0, chunk |-> <<>>, out |-> <<>>]

Init == /\ total \in Lengths /\ stored \in ChunkSizes /\ size \in ChunkSizes
        /\ spool = [pc |-> "write", written |-> 0, raw |-> <<>>, chunk |-> <<>>, digests |-> <<>>]
        /\ reader = Idle

First(s, n) == SubSeq(s, 1, n)
Rest(s, n) == SubSeq(s, n + 1, Len(s))
-----------------------------------------------------------------------------
(* _IntegritySpool. *)

\* write is called with the next piece of the payload.
Write ==
  /\ spool.pc = "write" /\ spool.written < total
  /\ \E n \in 1..Smaller(MaxPiece, total - spool.written) :
       spool' = [spool EXCEPT !.pc = "absorb", !.written = @ + n,
                              !.raw = SubSeq(Payload, spool.written + 1, spool.written + n)]
  /\ UNCHANGED <<total, stored, size, reader>>

\* One turn of its loop: fill the chunk, and digest it when it is full.
Absorb ==
  /\ spool.pc = "absorb"
  /\ LET selected == Smaller(stored - Len(spool.chunk), Len(spool.raw))
         chunk == spool.chunk \o First(spool.raw, selected)
         full == Len(chunk) = stored
     IN  spool' = [spool EXCEPT !.pc = IF selected = Len(spool.raw) THEN "write" ELSE "absorb",
                                !.raw = Rest(@, selected),
                                !.chunk = IF full THEN <<>> ELSE chunk,
                                !.digests = IF full THEN Append(@, chunk) ELSE @]
  /\ UNCHANGED <<total, stored, size, reader>>

\* Mutant: finish forgets a last chunk that is not full.
FullChunks(s) == s.digests

\* finish: the last chunk may be shorter.
AllChunks(s) == IF s.chunk = <<>> THEN s.digests ELSE Append(s.digests, s.chunk)

Finish ==
  /\ spool.pc = "write" /\ spool.written = total
  /\ spool' = [spool EXCEPT !.pc = "closed", !.chunk = <<>>, !.digests = AllChunks(spool)]
  /\ UNCHANGED <<total, stored, size, reader>>
-----------------------------------------------------------------------------
(* _read_range and _VerifiedRangeSource. *)

CoveringStart(r) == (r.start \div size) * size
CoveringEnd(r) == Smaller(total - 1, (r.end \div size + 1) * size - 1)
Covering(r) == CoveringEnd(r) - CoveringStart(r) + 1

\* _read_range refuses a range that is too long and an envelope with another
\* chunk size; open begins with the first chunk of the range.
ReadRange ==
  /\ spool.pc = "closed" /\ reader.pc = "idle"
  /\ \E s \in 0..total - 1 : \E e \in s..total - 1 :
       reader' = [Idle EXCEPT !.pc = IF e - s + 1 > MaxRange \/ stored # size
                                     THEN "refused" ELSE "fetch",
                              !.start = s, !.end = e, !.index = s \div size]
  /\ UNCHANGED <<total, stored, size, spool>>

\* What the provider may send for the range [from, to]: what was asked for, less,
\* more, one byte of it damaged, or the whole object.
Right(from, to) == SubSeq(Payload, from + 1, to + 1)
Wrong(from, to) ==
  LET right == Right(from, to)
  IN  {First(right, n) : n \in 0..Len(right) - 1} \cup {Append(right, 0), Payload}
        \cup {[right EXCEPT ![i] = 0] : i \in 1..Len(right)}

GetBody ==
  /\ reader.pc = "fetch"
  /\ LET from == CoveringStart(reader)
         to == CoveringEnd(reader)
     IN  \/ reader' = [reader EXCEPT !.pc = "read", !.body = Right(from, to)]
         \/ \E body \in Wrong(from, to) :
              reader' = [reader EXCEPT !.pc = "read", !.body = body,
                                       !.honest = body = Right(from, to)]
  /\ UNCHANGED <<total, stored, size, spool>>

\* body.read of what is still missing of the covering range.
ReadBody ==
  /\ reader.pc = "read"
  /\ \E n \in 1..Smaller(Smaller(MaxPiece, Covering(reader) - Len(reader.spooled)),
                         Len(reader.body)) :
       reader' = [reader EXCEPT !.pc = "verify", !.raw = First(reader.body, n),
                                !.body = Rest(@, n),
                                !.spooled = @ \o First(reader.body, n)]
  /\ UNCHANGED <<total, stored, size, spool>>

\* Mutant: every chunk has the full size.
FullLength(i) == size

\* expected_chunk_length: the last chunk of the object may be shorter.
ChunkLength(i) == Smaller(size, total - i * size)

\* Mutant: a chunk is only looked up, not compared.
HasDigest(i, chunk) == i < Len(spool.digests)

Matches(i, chunk) == i < Len(spool.digests) /\ spool.digests[i + 1] = chunk

\* One turn of the inner loop: fill the chunk, and compare it when it is complete.
VerifyChunk ==
  /\ reader.pc = "verify"
  /\ LET expected == ChunkLength(reader.index)
         selected == Smaller(expected - Len(reader.chunk), Len(reader.raw))
         chunk == reader.chunk \o First(reader.raw, selected)
         next == IF selected = Len(reader.raw) THEN "read" ELSE "verify"
     IN  \/ /\ Len(chunk) # expected
            /\ reader' = [reader EXCEPT !.pc = next, !.raw = Rest(@, selected), !.chunk = chunk]
         \/ /\ Len(chunk) = expected /\ Matches(reader.index, chunk)
            /\ reader' = [reader EXCEPT !.pc = next, !.raw = Rest(@, selected), !.chunk = <<>>,
                                        !.index = @ + 1]
         \/ /\ Len(chunk) = expected /\ ~Matches(reader.index, chunk)
            /\ reader' = [reader EXCEPT !.pc = "mismatch"]
  /\ UNCHANGED <<total, stored, size, spool>>

\* How far into the covering chunks the range begins.
Offset(r) == r.start - CoveringStart(r)

\* The body is exhausted, or enough of it was read: complete, or refused.
Yield ==
  /\ reader.pc = "read"
  /\ Covering(reader) = Len(reader.spooled) \/ reader.body = <<>>
  /\ IF /\ Len(reader.spooled) = Covering(reader)
        /\ reader.index = reader.end \div size + 1
     THEN reader' = [reader EXCEPT !.pc = "done",
                       !.out = SubSeq(reader.spooled, Offset(reader) + 1,
                                      Offset(reader) + reader.end - reader.start + 1)]
     ELSE reader' = [reader EXCEPT !.pc = "mismatch"]
  /\ UNCHANGED <<total, stored, size, spool>>

Finished == /\ spool.pc = "closed"
            /\ reader.pc \in {"refused", "done", "mismatch"} \/ total = 0
            /\ UNCHANGED vars

Next == \/ Write \/ Absorb \/ Finish
        \/ ReadRange \/ GetBody \/ ReadBody \/ VerifyChunk \/ Yield
        \/ Finished
Spec == Init /\ [][Next]_vars
-----------------------------------------------------------------------------
(* Properties. *)

\* The digests of finish are those of the payload cut at multiples of the chunk
\* size, whatever pieces write was given: no byte is left out or counted twice.
ChunkOf(i) == SubSeq(Payload, i * stored + 1, Smaller((i + 1) * stored, total))
DigestsCover ==
  spool.pc = "closed" =>
    spool.digests = [i \in 1..(total + stored - 1) \div stored |-> ChunkOf(i - 1)]

\* What a range read hands out is the range, whatever the provider sent.
RangeIsExact ==
  reader.pc = "done" => reader.out = SubSeq(Payload, reader.start + 1, reader.end + 1)

\* A right answer of the provider is never taken for a corrupt one: first, last
\* and short chunks are cut by the reader as they were by the spool.
RightIsAccepted == reader.pc = "mismatch" => ~reader.honest
=============================================================================
