--------------------------- MODULE S3RangeProofs ---------------------------
(***************************************************************************)
(* For payloads of any length, chunks and pieces of any size and whatever  *)
(* the provider sends: the spool cuts a payload at the chunk boundaries,   *)
(* and a range read hands out the range or nothing.                        *)
(***************************************************************************)
EXTENDS S3Range, SequenceTheorems, TLAPS

\* s is the part of t that follows its first a elements.
Part(s, t, a) == s \in Seq(Int) /\ \A i \in 1..Len(s) : s[i] = t[a + i]

-----------------------------------------------------------------------------
(* Sequences. *)

\* Two parts of the same place and length are the same.
LEMMA SamePart ==
  ASSUME NEW s, NEW r, NEW t, NEW a, Part(s, t, a), Part(r, t, a), Len(s) = Len(r)
  PROVE  s = r
BY SeqEqual DEF Part

\* What First cuts off and Rest leaves.
LEMMA Cut ==
  ASSUME NEW s \in Seq(Int), NEW n \in 0..Len(s)
  PROVE  /\ First(s, n) \in Seq(Int) /\ Len(First(s, n)) = n
         /\ \A i \in 1..n : First(s, n)[i] = s[i]
         /\ Rest(s, n) \in Seq(Int) /\ Len(Rest(s, n)) = Len(s) - n
         /\ \A i \in 1..Len(s) - n : Rest(s, n)[i] = s[n + i]
BY SubSeqProperties, LenProperties DEF First, Rest

\* The same, of a part.
LEMMA CutPart ==
  ASSUME NEW s, NEW t, NEW a \in Int, NEW n \in 0..Len(s), Part(s, t, a)
  PROVE  /\ Part(First(s, n), t, a) /\ Len(First(s, n)) = n
         /\ Part(Rest(s, n), t, a + n) /\ Len(Rest(s, n)) = Len(s) - n
<1>1. s \in Seq(Int) /\ Len(s) \in Nat /\ \A i \in 1..Len(s) : s[i] = t[a + i]
  BY LenProperties DEF Part
<1>2. /\ First(s, n) \in Seq(Int) /\ Len(First(s, n)) = n
      /\ \A i \in 1..n : First(s, n)[i] = s[i]
      /\ Rest(s, n) \in Seq(Int) /\ Len(Rest(s, n)) = Len(s) - n
      /\ \A i \in 1..Len(s) - n : Rest(s, n)[i] = s[n + i]
  BY <1>1, Cut
<1>3. ASSUME NEW i \in 1..Len(s) - n PROVE Rest(s, n)[i] = t[(a + n) + i]
  <2>1. n + i \in 1..Len(s) /\ a + (n + i) = (a + n) + i
    BY <1>1
  <2>2. Rest(s, n)[i] = s[n + i] /\ s[n + i] = t[a + (n + i)]
    BY <1>1, <1>2, <2>1
  <2> QED
    BY <2>1, <2>2
<1>4. ASSUME NEW i \in 1..n PROVE First(s, n)[i] = t[a + i]
  <2>1. i \in 1..Len(s)
    BY <1>1
  <2> QED
    BY <1>1, <1>2, <2>1
<1> QED
  BY <1>2, <1>3, <1>4 DEF Part

\* The length of a sequence and what is appended to it.
LEMMA Joined ==
  ASSUME NEW s \in Seq(Int), NEW t \in Seq(Int)
  PROVE  s \o t \in Seq(Int) /\ Len(s \o t) = Len(s) + Len(t)
BY ConcatProperties, LenProperties

\* A part and the part that follows it.
LEMMA JoinParts ==
  ASSUME NEW s, NEW r, NEW t, NEW a \in Int, Part(s, t, a), Part(r, t, a + Len(s))
  PROVE  Part(s \o r, t, a) /\ Len(s \o r) = Len(s) + Len(r)
<1>1. s \in Seq(Int) /\ r \in Seq(Int) /\ Len(s) \in Nat /\ Len(r) \in Nat
  BY LenProperties DEF Part
<1>2. /\ s \o r \in Seq(Int) /\ Len(s \o r) = Len(s) + Len(r)
      /\ \A i \in 1..Len(s) + Len(r) :
           (s \o r)[i] = IF i <= Len(s) THEN s[i] ELSE r[i - Len(s)]
  BY <1>1, ConcatProperties
<1>3. ASSUME NEW i \in 1..Len(s) + Len(r) PROVE (s \o r)[i] = t[a + i]
  <2>1. CASE i <= Len(s)
    <3>1. i \in 1..Len(s) /\ s[i] = t[a + i]
      BY <1>1, <2>1 DEF Part
    <3> QED
      BY <1>2, <2>1, <3>1
  <2>2. CASE ~(i <= Len(s))
    <3>1. i - Len(s) \in 1..Len(r) /\ (a + Len(s)) + (i - Len(s)) = a + i
      BY <1>1, <2>2
    <3>2. r[i - Len(s)] = t[(a + Len(s)) + (i - Len(s))]
      BY <3>1 DEF Part
    <3> QED
      BY <1>2, <2>2, <3>1, <3>2
  <2> QED
    BY <2>1, <2>2
<1> QED
  BY <1>2, <1>3 DEF Part

\* Moving the first n elements of the part that follows to the part before it.
LEMMA MovePart ==
  ASSUME NEW s, NEW b, NEW t, NEW a \in Int, NEW n \in 0..Len(b),
         Part(s, t, a), Part(b, t, a + Len(s))
  PROVE  /\ Part(s \o First(b, n), t, a) /\ Part(Rest(b, n), t, a + Len(s \o First(b, n)))
         /\ Len(s \o First(b, n)) + Len(Rest(b, n)) = Len(s) + Len(b)
<1> DEFINE f == First(b, n)
           d == a + Len(s)
<1>1. Len(s) \in Nat /\ Len(b) \in Nat /\ d \in Int /\ Part(b, t, d)
  BY LenProperties DEF Part
<1>at. d = a + Len(s)
  OBVIOUS
<1> HIDE DEF d
<1>2. /\ Part(f, t, d) /\ Len(f) = n
      /\ Part(Rest(b, n), t, d + n) /\ Len(Rest(b, n)) = Len(b) - n
  BY <1>1, CutPart
<1> HIDE DEF f
<1>3. Part(s \o f, t, a) /\ Len(s \o f) = Len(s) + n
  BY <1>at, <1>2, JoinParts
<1>4. d + n = a + Len(s \o f) /\ Len(s \o f) + (Len(b) - n) = Len(s) + Len(b)
  BY <1>1, <1>at, <1>3
<1> QED
  BY <1>2, <1>3, <1>4 DEF f

\* What is cut out of a sequence is part of it.
LEMMA SubSeqPart ==
  ASSUME NEW t \in Seq(Int), NEW a \in Nat, NEW b \in Nat, a <= b, b <= Len(t)
  PROVE  Part(SubSeq(t, a + 1, b), t, a) /\ Len(SubSeq(t, a + 1, b)) = b - a
BY SubSeqProperties DEF Part

\* The empty sequence is part of every one.
LEMMA EmptyPart == \A t, a : Part(<<>>, t, a) /\ Len(<<>>) = 0
BY DEF Part

\* The payload is a sequence of its length.
LEMMA PayloadSeq ==
  ASSUME total \in Nat PROVE Payload \in Seq(Int) /\ Len(Payload) = total
BY DEF Payload
-----------------------------------------------------------------------------
(* Arithmetic. *)

\* The quotient is the number of whole chunks that fit.
LEMMA Quotient ==
  ASSUME NEW P \in Nat \ {0}, NEW x \in Nat
  PROVE  /\ x \div P \in Nat
         /\ (x \div P) * P \in Nat /\ (x \div P) * P <= x /\ x < (x \div P) * P + P
<1>1. x \div P \in Nat /\ (x \div P) * P <= x /\ x < ((x \div P) + 1) * P
  OBVIOUS
<1>2. ((x \div P) + 1) * P = (x \div P) * P + P /\ (x \div P) * P \in Nat
  BY <1>1
<1> QED
  BY <1>1, <1>2

\* Multiples of the chunk size are ordered as their factors.
LEMMA Multiples ==
  ASSUME NEW P \in Nat \ {0}, NEW a \in Nat, NEW b \in Nat
  PROVE  /\ a * P \in Nat /\ b * P \in Nat
         /\ (a + 1) * P = a * P + P
         /\ a <= b => a * P <= b * P
         /\ a < b => a * P + P <= b * P
<1>1. a * P \in Nat /\ b * P \in Nat /\ (a + 1) * P = a * P + P
  OBVIOUS
<1>2. ASSUME NEW c \in Nat, NEW k \in Nat PROVE (c + k) * P = c * P + k * P /\ k * P \in Nat
  OBVIOUS
<1>3. ASSUME NEW c \in Nat, c <= b PROVE c * P <= b * P
  <2>1. b - c \in Nat /\ c + (b - c) = b
    BY <1>3
  <2>2. (c + (b - c)) * P = c * P + (b - c) * P /\ (b - c) * P \in Nat
    BY <1>2, <2>1
  <2>3. c * P \in Nat
    OBVIOUS
  <2> QED
    BY <2>1, <2>2, <2>3
<1>4. a <= b => a * P <= b * P
  BY <1>3
<1>5. a < b => (a + 1) * P <= b * P
  BY <1>3
<1> QED
  BY <1>1, <1>4, <1>5

\* How many chunks a payload has, the last of which may be shorter.
LEMMA ChunkCount ==
  ASSUME NEW P \in Nat \ {0}, NEW k \in Nat, NEW c \in Nat, c < P
  PROVE  (k * P + c + P - 1) \div P = IF c = 0 THEN k ELSE k + 1
<1> DEFINE x == k * P + c + P - 1
           q == x \div P
<1>1. k * P \in Nat /\ (k + 1) * P = k * P + P /\ (k + 2) * P = k * P + P + P
  OBVIOUS
<1>2. x \in Nat
  BY <1>1
<1> HIDE DEF x
<1>3. q \in Nat /\ q * P <= x /\ x < q * P + P /\ q * P \in Nat
  BY <1>2, Quotient
<1> HIDE DEF q
<1>4. CASE c = 0
  <2>1. x = k * P + P - 1
    BY <1>1, <1>4 DEF x
  <2>2. ~(q < k)
    <3>1. q < k => q * P + P <= k * P
      BY <1>3, Multiples
    <3> QED
      BY <1>1, <1>3, <2>1, <3>1
  <2>3. ~(k < q)
    <3>1. k < q => k * P + P <= q * P
      BY <1>3, Multiples
    <3> QED
      BY <1>1, <1>3, <2>1, <3>1
  <2> QED
    BY <1>3, <1>4, <2>2, <2>3 DEF q, x
<1>5. CASE c # 0
  <2>1. k * P + P <= x /\ x < k * P + P + P
    BY <1>1, <1>5 DEF x
  <2>2. ~(q < k + 1)
    <3>1. q < k + 1 => q * P + P <= (k + 1) * P
      BY <1>3, Multiples
    <3> QED
      BY <1>1, <1>2, <1>3, <2>1, <3>1
  <2>3. ~(k + 1 < q)
    <3>1. k + 1 < q => (k + 1) * P + P <= q * P
      BY <1>3, Multiples
    <3> QED
      BY <1>1, <1>2, <1>3, <2>1, <3>1
  <2> QED
    BY <1>3, <1>5, <2>2, <2>3 DEF q, x
<1> QED
  BY <1>4, <1>5
-----------------------------------------------------------------------------
(* The spool. *)

\* What was digested, what is in the chunk and what is left of the piece are the
\* payload so far, in this order, and every chunk digested is a whole one.
Spooling ==
  LET done == Len(spool.digests) * stored
  IN /\ \A i \in 1..Len(spool.digests) :
          Part(spool.digests[i], Payload, (i - 1) * stored) /\ Len(spool.digests[i]) = stored
     /\ Part(spool.chunk, Payload, done) /\ Len(spool.chunk) < stored
     /\ Part(spool.raw, Payload, done + Len(spool.chunk))
     /\ done + Len(spool.chunk) + Len(spool.raw) = spool.written
     /\ spool.pc = "write" => spool.raw = <<>>

SpoolState == [pc: {"write", "absorb", "closed"}, written: Nat, raw: Seq(Int),
               chunk: Seq(Int), digests: Seq(Seq(Int))]

SpoolInv ==
  /\ total \in Nat /\ stored \in Nat \ {0} /\ size \in Nat \ {0}
  /\ spool \in SpoolState /\ spool.written <= total
  /\ spool.pc # "closed" => Spooling
  /\ DigestsCover

\* At first nothing is spooled.
LEMMA SpoolInit == Init => SpoolInv
<1> SUFFICES ASSUME Init PROVE SpoolInv
  OBVIOUS
<1>1. total \in Nat /\ stored \in Nat \ {0} /\ size \in Nat \ {0}
  BY RangeAssumption DEF Init
<1>2. <<>> \in Seq(Int) /\ <<>> \in Seq(Seq(Int)) /\ Len(<<>>) = 0
  OBVIOUS
<1> QED
  BY <1>1, <1>2, EmptyPart DEF Init, SpoolInv, SpoolState, Spooling, DigestsCover

\* write takes the next bytes of the payload.
LEMMA WriteInv ==
  ASSUME SpoolInv, Write PROVE SpoolInv'
<1>1. PICK n \in 1..Smaller(MaxPiece, total - spool.written) :
        spool' = [spool EXCEPT !.pc = "absorb", !.written = @ + n,
                               !.raw = SubSeq(Payload, spool.written + 1, spool.written + n)]
  BY DEF Write
<1>2. total' = total /\ stored' = stored /\ size' = size /\ spool.pc = "write" /\ Payload' = Payload
  BY DEF Write, Payload
<1>3. n \in Nat /\ spool.written \in Nat /\ spool.written + n <= total
  BY RangeAssumption DEF SpoolInv, SpoolState, Smaller
<1> DEFINE raw == SubSeq(Payload, spool.written + 1, spool.written + n)
<1>4. Part(raw, Payload, spool.written) /\ Len(raw) = n
  <2>1. Payload \in Seq(Int) /\ spool.written + n <= Len(Payload)
    BY <1>3, PayloadSeq DEF SpoolInv
  <2>2. spool.written + n \in Nat /\ spool.written <= spool.written + n
    BY <1>3
  <2> HIDE DEF Payload
  <2>3. Part(raw, Payload, spool.written) /\ Len(raw) = (spool.written + n) - spool.written
    BY <1>3, <2>1, <2>2, SubSeqPart
  <2> QED
    BY <1>3, <2>3
<1>5. raw \in Seq(Int)
  BY <1>4 DEF Part
<1>step. spool' = [spool EXCEPT !.pc = "absorb", !.written = @ + n, !.raw = raw]
  BY <1>1
<1> HIDE DEF raw
<1>6. /\ spool'.pc = "absorb" /\ spool'.written = spool.written + n /\ spool'.raw = raw
      /\ spool'.chunk = spool.chunk /\ spool'.digests = spool.digests /\ spool' \in SpoolState
  <2>1. spool \in SpoolState /\ spool.written + n \in Nat
    BY <1>3 DEF SpoolInv
  <2>2. \A w \in Nat : \A q \in Seq(Int) :
          LET s == [spool EXCEPT !.pc = "absorb", !.written = w, !.raw = q]
          IN /\ s \in SpoolState /\ s.pc = "absorb" /\ s.written = w /\ s.raw = q
             /\ s.chunk = spool.chunk /\ s.digests = spool.digests
    BY <2>1 DEF SpoolState
  <2> QED
    BY <1>step, <1>5, <2>1, <2>2, ZenonT(40)
<1>7. Spooling /\ Len(spool.raw) = 0
  BY <1>2 DEF SpoolInv, Spooling
<1>8. spool.written = Len(spool.digests) * stored + Len(spool.chunk)
  <2>1. Len(spool.digests) * stored \in Int /\ Len(spool.chunk) \in Nat
    BY DEF SpoolInv, SpoolState
  <2> QED
    BY <1>7, <2>1 DEF Spooling
<1>9. Spooling'
  BY <1>2, <1>4, <1>6, <1>7, <1>8 DEF Spooling
<1> QED
  BY <1>2, <1>3, <1>6, <1>9 DEF SpoolInv, DigestsCover

\* One turn of the loop in write moves bytes of the piece to the chunk, and a whole
\* chunk to the digests.
LEMMA AbsorbInv ==
  ASSUME SpoolInv, Absorb PROVE SpoolInv'
<1> DEFINE k == Len(spool.digests)
           c == Len(spool.chunk)
           m == Len(spool.raw)
           n == Smaller(stored - c, m)
           chunk == spool.chunk \o First(spool.raw, n)
           rest == Rest(spool.raw, n)
           full == Len(chunk) = stored
           pc == IF n = m THEN "write" ELSE "absorb"
<1>1. /\ spool' = [spool EXCEPT !.pc = pc, !.raw = rest,
                               !.chunk = IF full THEN <<>> ELSE chunk,
                               !.digests = IF full THEN Append(spool.digests, chunk) ELSE spool.digests]
      /\ total' = total /\ stored' = stored /\ size' = size /\ Payload' = Payload /\ Spooling
  BY DEF Absorb, SpoolInv, Payload
<1>2. /\ stored \in Nat \ {0} /\ k \in Nat /\ c \in Nat /\ m \in Nat /\ k * stored \in Nat
      /\ spool \in SpoolState /\ spool.raw \in Seq(Int) /\ spool.chunk \in Seq(Int)
      /\ spool.digests \in Seq(Seq(Int))
  BY Multiples DEF SpoolInv, SpoolState
<1>3. /\ c < stored /\ k * stored + c + m = spool.written
      /\ Part(spool.chunk, Payload, k * stored) /\ Part(spool.raw, Payload, k * stored + c)
  BY <1>1 DEF Spooling
<1>4. n \in 0..m /\ n <= stored - c
  <2> HIDE DEF c, m
  <2> QED
    BY <1>2, <1>3 DEF Smaller
<1> HIDE DEF n
<1>5. /\ Part(First(spool.raw, n), Payload, k * stored + c) /\ Len(First(spool.raw, n)) = n
      /\ Part(rest, Payload, k * stored + c + n) /\ Len(rest) = m - n
  <2>1. k * stored + c \in Int
    BY <1>2
  <2> QED
    BY <1>3, <1>4, <2>1, CutPart, ZenonT(40)
<1>6. Part(chunk, Payload, k * stored) /\ Len(chunk) = c + n
  <2> DEFINE t == First(spool.raw, n)
         b == k * stored
  <2>1. /\ Part(spool.chunk, Payload, b) /\ Part(t, Payload, b + Len(spool.chunk))
        /\ Len(t) = n /\ b \in Int
    <3>1. Part(spool.chunk, Payload, b)
      BY <1>3
    <3>2. Part(t, Payload, b + Len(spool.chunk)) /\ Len(t) = n
      BY <1>5
    <3>3. b \in Int
      BY <1>2
    <3> QED
      BY <3>1, <3>2, <3>3
  <2> HIDE DEF t, b
  <2>2. Part(spool.chunk \o t, Payload, b) /\ Len(spool.chunk \o t) = Len(spool.chunk) + Len(t)
    BY <2>1, JoinParts
  <2>3. Part(spool.chunk \o t, Payload, b) /\ Len(spool.chunk \o t) = c + n
    BY <2>1, <2>2
  <2> QED
    BY <2>3 DEF t, b
<1>7. chunk \in Seq(Int) /\ rest \in Seq(Int) /\ pc \in {"write", "absorb", "closed"}
  BY <1>5, <1>6 DEF Part
<1>8. pc = "write" => rest = <<>>
  BY <1>2, <1>5, <1>7
<1> HIDE DEF chunk, rest, pc, k, c, m
<1>9. CASE full
  <2> DEFINE digests == Append(spool.digests, chunk)
  <2>1. c + n = stored /\ (k + 1) * stored = k * stored + stored
    BY <1>2, <1>6, <1>9, Multiples
  <2>2. /\ digests \in Seq(Seq(Int)) /\ Len(digests) = k + 1 /\ digests[k + 1] = chunk
        /\ \A i \in 1..k : digests[i] = spool.digests[i]
    BY <1>2, <1>7, AppendProperties DEF k
  <2>step. spool' = [spool EXCEPT !.pc = pc, !.raw = rest, !.chunk = <<>>, !.digests = digests]
    BY <1>1, <1>9
  <2> HIDE DEF digests
  <2>3. /\ spool' \in SpoolState /\ spool'.pc = pc /\ spool'.raw = rest /\ spool'.chunk = <<>>
        /\ spool'.digests = digests /\ spool'.written = spool.written
    <3>1. <<>> \in Seq(Int)
      OBVIOUS
    <3> QED
      BY <1>2, <1>7, <2>2, <2>step, <3>1 DEF SpoolState
  <2>4. \A i \in 1..k + 1 : Part(digests[i], Payload, (i - 1) * stored) /\ Len(digests[i]) = stored
    <3>1. \A i \in 1..k : Part(spool.digests[i], Payload, (i - 1) * stored) /\ Len(spool.digests[i]) = stored
      BY <1>1 DEF Spooling, k
    <3>2. (k + 1) - 1 = k /\ \A i \in 1..k + 1 : i \in 1..k \/ i = k + 1
      BY <1>2
    <3>3. Part(digests[k + 1], Payload, ((k + 1) - 1) * stored) /\ Len(digests[k + 1]) = stored
      BY <1>6, <1>9, <2>2, <3>2
    <3> QED
      BY <2>2, <3>1, <3>2, <3>3
  <2>5. /\ k * stored + c + n = (k + 1) * stored + 0
        /\ (k + 1) * stored + 0 + Len(rest) = spool.written
    <3> DEFINE b == k * stored
    <3>1. b \in Int /\ b + c + m = spool.written /\ c + n = stored /\ Len(rest) = m - n
      BY <1>2, <1>3, <1>5, <2>1
    <3>2. c \in Int /\ m \in Int /\ n \in Int /\ stored \in Int
      BY <1>2, <1>4
    <3>3. (k + 1) * stored = b + stored
      BY <2>1
    <3> HIDE DEF b
    <3>4. b + c + n = (b + stored) + 0 /\ (b + stored) + 0 + Len(rest) = spool.written
      BY <3>1, <3>2
    <3> QED
      BY <3>3, <3>4 DEF b
  <2>6. Part(rest, Payload, (k + 1) * stored + 0)
    BY <1>5, <2>5
  <2>7. Spooling'
    <3>1. Part(<<>>, Payload, (k + 1) * stored) /\ Len(<<>>) = 0 /\ 0 < stored
      BY <1>2, EmptyPart
    <3>2. (Len(spool.digests) * stored)' = (k + 1) * stored /\ Len(spool.chunk)' = 0
      BY <1>1, <2>2, <2>3, <3>1
    <3>3. (\A i \in 1..Len(spool.digests) :
             Part(spool.digests[i], Payload, (i - 1) * stored) /\ Len(spool.digests[i]) = stored)'
      BY <1>1, <2>2, <2>3, <2>4
    <3>4. spool'.chunk = <<>> /\ spool'.raw = rest /\ spool'.written = spool.written /\ spool'.pc = pc
      BY <2>3
    <3> QED
      BY <1>1, <1>8, <2>5, <2>6, <3>1, <3>2, <3>3, <3>4 DEF Spooling
  <2> QED
    BY <1>1, <2>3, <2>7 DEF SpoolInv, DigestsCover, pc
<1>10. CASE ~full
  <2>1. c + n < stored
    BY <1>2, <1>4, <1>6, <1>10
  <2>step. spool' = [spool EXCEPT !.pc = pc, !.raw = rest, !.chunk = chunk, !.digests = spool.digests]
    BY <1>1, <1>10
  <2>3. /\ spool' \in SpoolState /\ spool'.pc = pc /\ spool'.raw = rest /\ spool'.chunk = chunk
        /\ spool'.digests = spool.digests /\ spool'.written = spool.written
    BY <1>2, <1>7, <2>step DEF SpoolState
  <2>4. /\ k * stored + c + n = k * stored + Len(chunk)
        /\ k * stored + Len(chunk) + Len(rest) = spool.written
    <3> DEFINE b == k * stored
    <3>1. b \in Int /\ b + c + m = spool.written
      BY <1>2, <1>3
    <3> HIDE DEF b
    <3>2. b + c + n = b + Len(chunk) /\ b + Len(chunk) + Len(rest) = spool.written
      BY <1>2, <1>4, <1>5, <1>6, <3>1
    <3> QED
      BY <3>1, <3>2 DEF b
  <2>5. Part(rest, Payload, k * stored + Len(chunk))
    BY <1>5, <2>4
  <2>6. Spooling'
    BY <1>1, <1>6, <1>8, <2>1, <2>3, <2>4, <2>5 DEF Spooling, k
  <2> QED
    BY <1>1, <2>3, <2>6 DEF SpoolInv, DigestsCover, pc
<1> QED
  BY <1>9, <1>10

\* The chunk of the payload that a digest stands for.
LEMMA ChunkIs ==
  ASSUME total \in Nat, stored \in Nat \ {0}, NEW i \in Nat, i * stored <= total
  PROVE  /\ Part(ChunkOf(i), Payload, i * stored)
         /\ Len(ChunkOf(i)) = Smaller(stored, total - i * stored)
<1> DEFINE b == Smaller((i + 1) * stored, total)
           a == i * stored
<1>1. i * stored \in Nat /\ (i + 1) * stored = i * stored + stored
  BY Multiples
<1>2. a \in Nat /\ b \in Nat /\ a <= b /\ b <= total /\ b - a = Smaller(stored, total - a)
  <2>1. a \in Nat /\ a <= total /\ b = Smaller(a + stored, total)
    BY <1>1
  <2> HIDE DEF a, b
  <2> QED
    BY <2>1 DEF Smaller
<1>3. ChunkOf(i) = SubSeq(Payload, a + 1, b)
  BY DEF ChunkOf
<1> HIDE DEF a, b
<1>4. Part(ChunkOf(i), Payload, a) /\ Len(ChunkOf(i)) = b - a
  BY <1>2, <1>3, SubSeqPart, PayloadSeq
<1> QED
  BY <1>2, <1>4 DEF a

\* finish digests the last chunk, and the digests are then those of the payload.
LEMMA FinishInv ==
  ASSUME SpoolInv, Finish PROVE SpoolInv'
<1> DEFINE k == Len(spool.digests)
           c == Len(spool.chunk)
           digests == AllChunks(spool)
           N == (total + stored - 1) \div stored
<1>1. /\ total' = total /\ stored' = stored /\ size' = size /\ Payload' = Payload
      /\ spool' = [spool EXCEPT !.pc = "closed", !.chunk = <<>>, !.digests = digests]
      /\ Spooling /\ spool.raw = <<>> /\ spool.written = total
  BY DEF Finish, SpoolInv, Payload, Spooling
<1>2. /\ total \in Nat /\ stored \in Nat \ {0} /\ k \in Nat /\ c \in Nat /\ k * stored \in Nat
      /\ spool \in SpoolState /\ spool.chunk \in Seq(Int) /\ spool.digests \in Seq(Seq(Int))
  BY Multiples DEF SpoolInv, SpoolState
<1>3. c < stored /\ k * stored + c = total /\ Part(spool.chunk, Payload, k * stored)
  BY <1>1, <1>2 DEF Spooling
<1>4. \A i \in 1..k : Part(spool.digests[i], Payload, (i - 1) * stored) /\ Len(spool.digests[i]) = stored
  BY <1>1 DEF Spooling
<1>5. N = IF c = 0 THEN k ELSE k + 1
  <2>1. total + stored - 1 = k * stored + c + stored - 1
    BY <1>2, <1>3
  <2> QED
    BY <1>2, <1>3, <2>1, ChunkCount
<1>6. /\ digests \in Seq(Seq(Int)) /\ Len(digests) = N
      /\ \A i \in 1..k : digests[i] = spool.digests[i]
      /\ c # 0 => digests[k + 1] = spool.chunk
  <2>1. CASE c = 0
    <3>1. spool.chunk = <<>>
      BY <1>2, <2>1
    <3> QED
      BY <1>2, <1>5, <2>1, <3>1 DEF AllChunks
  <2>2. CASE c # 0
    <3>1. spool.chunk # <<>>
      BY <1>2, <2>2
    <3>2. digests = Append(spool.digests, spool.chunk)
      BY <3>1 DEF AllChunks
    <3> QED
      BY <1>2, <1>5, <2>2, <3>2, AppendProperties
  <2> QED
    BY <2>1, <2>2
<1>7. ASSUME NEW i \in 1..N PROVE digests[i] = ChunkOf(i - 1)
  <2> DEFINE j == i - 1
  <2>1. j \in Nat /\ j * stored \in Nat /\ j <= k
    BY <1>2, <1>5, Multiples
  <2>2. CASE i \in 1..k
    <3>1. j * stored + stored <= k * stored
      <4>1. j < k
        BY <1>2, <2>2
      <4> HIDE DEF j, k
      <4> QED
        BY <1>2, <2>1, <4>1, Multiples
    <3>2. j * stored <= total /\ Smaller(stored, total - j * stored) = stored
      <4> DEFINE a == j * stored
                 b == k * stored
      <4>1. /\ a \in Nat /\ b \in Nat /\ a + stored <= b /\ b + c = total
            /\ c \in Nat /\ stored \in Nat /\ total \in Nat
        BY <1>2, <1>3, <2>1, <3>1
      <4> HIDE DEF a, b, c
      <4>2. a <= total /\ Smaller(stored, total - a) = stored
        BY <4>1 DEF Smaller
      <4> QED
        BY <4>2 DEF a
    <3>3. Part(ChunkOf(j), Payload, j * stored) /\ Len(ChunkOf(j)) = stored
      BY <1>2, <2>1, <3>2, ChunkIs
    <3>4. Part(digests[i], Payload, j * stored) /\ Len(digests[i]) = stored
      BY <1>4, <1>6, <2>2
    <3> QED
      BY <3>3, <3>4, SamePart
  <2>3. CASE i \notin 1..k
    <3>1. i = k + 1 /\ j = k /\ c # 0
      BY <1>2, <1>5, <2>3
    <3>2. j * stored <= total /\ Smaller(stored, total - j * stored) = c
      <4> DEFINE b == k * stored
      <4>1. /\ b \in Nat /\ b + c = total /\ c < stored
            /\ c \in Nat /\ stored \in Nat /\ total \in Nat
        BY <1>2, <1>3
      <4>2. j * stored = b
        BY <3>1
      <4> HIDE DEF b, c, j
      <4>3. b <= total /\ Smaller(stored, total - b) = c
        BY <4>1 DEF Smaller
      <4> QED
        BY <4>2, <4>3
    <3>3. Part(ChunkOf(j), Payload, j * stored) /\ Len(ChunkOf(j)) = c
      BY <1>2, <2>1, <3>2, ChunkIs
    <3>4. Part(digests[i], Payload, j * stored) /\ Len(digests[i]) = c
      BY <1>3, <1>6, <3>1
    <3> QED
      BY <3>3, <3>4, SamePart
  <2> QED
    BY <2>2, <2>3
<1>8. N \in Nat
  BY <1>2, <1>5
<1> HIDE DEF N, digests
<1>9. digests = [i \in 1..N |-> ChunkOf(i - 1)]
  <2>1. digests = [i \in 1..N |-> digests[i]]
    BY <1>6, <1>8
  <2> QED
    BY <1>7, <2>1
<1>10. /\ spool' \in SpoolState /\ spool'.pc = "closed" /\ spool'.digests = digests
       /\ spool'.written = spool.written
  <2>1. <<>> \in Seq(Int)
    OBVIOUS
  <2> QED
    BY <1>1, <1>2, <1>6, <2>1 DEF SpoolState
<1>11. DigestsCover'
  <2>1. ((total + stored - 1) \div stored)' = N /\ \A i : ChunkOf(i)' = ChunkOf(i)
    BY <1>1 DEF N, ChunkOf, Smaller
  <2> QED
    BY <1>9, <1>10, <2>1 DEF DigestsCover
<1> QED
  BY <1>1, <1>10, <1>11 DEF SpoolInv

\* The actions of the reader leave the spool alone.
LEMMA SpoolUnchanged ==
  ASSUME SpoolInv, UNCHANGED <<total, stored, size, spool>> PROVE SpoolInv'
BY DEF SpoolInv, SpoolState, Spooling, DigestsCover, ChunkOf, Payload, Smaller

\* Every step keeps what the spool says of the payload.
LEMMA SpoolNext ==
  ASSUME SpoolInv, [Next]_vars PROVE SpoolInv'
<1>1. CASE Write
  BY <1>1, WriteInv
<1>2. CASE Absorb
  BY <1>2, AbsorbInv
<1>3. CASE Finish
  BY <1>3, FinishInv
<1>4. CASE ReadRange \/ GetBody \/ ReadBody \/ VerifyChunk \/ Yield \/ Finished \/ UNCHANGED vars
  <2>1. UNCHANGED <<total, stored, size, spool>>
    BY <1>4 DEF ReadRange, GetBody, ReadBody, VerifyChunk, Yield, Finished, vars
  <2> QED
    BY <2>1, SpoolUnchanged
<1> QED
  BY <1>1, <1>2, <1>3, <1>4 DEF Next

\* For every payload length, chunk size and way of cutting the payload into
\* pieces, the digests that _IntegritySpool.finish returns are those of the
\* payload cut at multiples of the chunk size.
THEOREM DigestsAreTheChunks == Spec => []DigestsCover
<1>1. SpoolInv => DigestsCover
  BY DEF SpoolInv
<1> QED
  BY SpoolInit, SpoolNext, <1>1, PTL DEF Spec
-----------------------------------------------------------------------------
(* The parts of a sequence that grows, and parts of parts. *)

\* A part of a sequence is part of a longer one.
LEMMA PartOfLonger ==
  ASSUME NEW s, NEW t \in Seq(Int), NEW r \in Seq(Int), NEW a \in Nat,
         Part(s, t, a), a + Len(s) <= Len(t)
  PROVE  Part(s, t \o r, a)
<1>1. s \in Seq(Int) /\ Len(s) \in Nat /\ Len(t) \in Nat /\ Len(r) \in Nat
  BY LenProperties DEF Part
<1>2. \A i \in 1..Len(t) : (t \o r)[i] = t[i]
  BY <1>1, ConcatProperties
<1>3. ASSUME NEW i \in 1..Len(s) PROVE s[i] = (t \o r)[a + i]
  <2>1. a + i \in 1..Len(t)
    BY <1>1
  <2> QED
    BY <1>2, <2>1 DEF Part
<1> QED
  BY <1>1, <1>3 DEF Part

\* What is appended is part of the longer sequence.
LEMMA PartAppended ==
  ASSUME NEW t \in Seq(Int), NEW r \in Seq(Int)
  PROVE  Part(r, t \o r, Len(t))
<1>1. Len(t) \in Nat /\ Len(r) \in Nat
  BY LenProperties
<1>2. \A i \in 1..Len(t) + Len(r) : (t \o r)[i] = IF i <= Len(t) THEN t[i] ELSE r[i - Len(t)]
  BY <1>1, ConcatProperties
<1>3. ASSUME NEW i \in 1..Len(r) PROVE r[i] = (t \o r)[Len(t) + i]
  <2>1. Len(t) + i \in 1..Len(t) + Len(r) /\ ~(Len(t) + i <= Len(t)) /\ (Len(t) + i) - Len(t) = i
    BY <1>1
  <2>2. (t \o r)[Len(t) + i] = r[(Len(t) + i) - Len(t)]
    BY <1>2, <2>1
  <2> QED
    BY <2>1, <2>2
<1> QED
  BY <1>3 DEF Part

\* A part of the first n elements, which are part of another sequence.
LEMMA PartOfPart ==
  ASSUME NEW s, NEW t, NEW p, NEW a \in Nat, NEW b \in Nat, NEW n \in Nat,
         Part(s, t, a), a + Len(s) <= n, \A i \in 1..n : t[i] = p[b + i]
  PROVE  Part(s, p, b + a)
<1>1. s \in Seq(Int) /\ Len(s) \in Nat
  BY LenProperties DEF Part
<1>2. ASSUME NEW i \in 1..Len(s) PROVE s[i] = p[(b + a) + i]
  <2>1. a + i \in 1..n /\ b + (a + i) = (b + a) + i
    BY <1>1
  <2>2. s[i] = t[a + i] /\ t[a + i] = p[b + (a + i)]
    BY <1>1, <2>1 DEF Part
  <2> QED
    BY <2>1, <2>2
<1> QED
  BY <1>1, <1>2 DEF Part
-----------------------------------------------------------------------------
(* The chunks of a range. *)

\* Where chunk i begins; the end of the payload when there is none.
Bound(i) == Smaller(total, i * size)

\* Every chunk up to the last one of a range is there and follows the one before.
LEMMA Bounds ==
  ASSUME total \in Nat, size \in Nat \ {0}, NEW last \in Nat, last * size < total, NEW i \in Nat
  PROVE  /\ Bound(i) \in Nat /\ Bound(last + 1) \in Nat
         /\ i <= last => /\ i * size \in Nat /\ i * size < total /\ Bound(i) = i * size
                         /\ ChunkLength(i) \in Nat \ {0}
                         /\ Bound(i + 1) = Bound(i) + ChunkLength(i)
                         /\ Bound(i) + ChunkLength(i) <= Bound(last + 1)
<1> DEFINE a == i * size
           b == last * size
<1>1. /\ a \in Nat /\ b \in Nat /\ b < total
      /\ (i + 1) * size = a + size /\ (last + 1) * size = b + size
      /\ i <= last => a <= b
  BY Multiples
<1>2. /\ Bound(i) = Smaller(total, a) /\ Bound(i + 1) = Smaller(total, a + size)
      /\ Bound(last + 1) = Smaller(total, b + size) /\ ChunkLength(i) = Smaller(size, total - a)
  BY <1>1 DEF Bound, ChunkLength
<1> HIDE DEF a, b
<1>3. /\ Bound(i) \in Nat /\ Bound(last + 1) \in Nat
      /\ i <= last => /\ a < total /\ Bound(i) = a /\ ChunkLength(i) \in Nat \ {0}
                      /\ Bound(i + 1) = Bound(i) + ChunkLength(i)
                      /\ Bound(i) + ChunkLength(i) <= Bound(last + 1)
  BY <1>1, <1>2 DEF Smaller
<1> QED
  BY <1>1, <1>3 DEF a

\* The first and the last chunk of a range r, and the bytes they cover.
LEMMA RangeFacts ==
  ASSUME total \in Nat, size \in Nat \ {0}, NEW r, r.start \in Nat, r.end \in Nat,
         r.start <= r.end, r.end < total
  PROVE  /\ r.start \div size \in Nat /\ r.end \div size \in Nat
         /\ r.start \div size <= r.end \div size
         /\ (r.end \div size) * size < total
         /\ CoveringStart(r) \in Nat /\ CoveringStart(r) = Bound(r.start \div size)
         /\ CoveringStart(r) <= r.start
         /\ Covering(r) \in Nat /\ CoveringStart(r) + Covering(r) = Bound((r.end \div size) + 1)
         /\ CoveringEnd(r) \in Nat /\ CoveringEnd(r) + 1 = CoveringStart(r) + Covering(r)
         /\ r.end < CoveringStart(r) + Covering(r) /\ CoveringStart(r) + Covering(r) <= total
<1> DEFINE x == r.start
           y == r.end
           q0 == x \div size
           q1 == y \div size
           a == q0 * size
           b == q1 * size
<1>1. q0 \in Nat /\ a \in Nat /\ a <= x /\ x < a + size
  BY Quotient
<1>2. q1 \in Nat /\ b \in Nat /\ b <= y /\ y < b + size
  BY Quotient
<1> HIDE DEF q0, q1
<1>3. (q1 + 1) * size = b + size
  BY <1>2, Multiples
<1>4. q0 <= q1
  <2>1. q1 < q0 => b + size <= a
    BY <1>1, <1>2, Multiples
  <2> HIDE DEF a, b, x, y
  <2>2. x \in Nat /\ y \in Nat /\ x <= y
    BY DEF x, y
  <2> QED
    BY <1>1, <1>2, <2>1, <2>2
<1>5. /\ CoveringStart(r) = a /\ CoveringEnd(r) = Smaller(total - 1, (b + size) - 1)
      /\ Covering(r) = CoveringEnd(r) - CoveringStart(r) + 1
      /\ Bound(q0) = Smaller(total, a) /\ Bound(q1 + 1) = Smaller(total, b + size)
  BY <1>3 DEF CoveringStart, CoveringEnd, Covering, Bound, q0, q1
<1>6. x \in Nat /\ y \in Nat /\ x <= y /\ y < total
  OBVIOUS
<1> HIDE DEF a, b, x, y
<1>7. /\ b < total /\ CoveringStart(r) \in Nat /\ CoveringStart(r) = Bound(q0)
      /\ CoveringStart(r) <= x
      /\ Covering(r) \in Nat /\ CoveringStart(r) + Covering(r) = Bound(q1 + 1)
      /\ CoveringEnd(r) \in Nat /\ CoveringEnd(r) + 1 = CoveringStart(r) + Covering(r)
      /\ y < CoveringStart(r) + Covering(r) /\ CoveringStart(r) + Covering(r) <= total
  BY <1>1, <1>2, <1>5, <1>6 DEF Smaller
<1> QED
  BY <1>1, <1>2, <1>4, <1>7 DEF q0, q1, x, y, b

\* The digest of every chunk of the payload is there once the spool is closed.
LEMMA DigestOf ==
  ASSUME SpoolInv, spool.pc = "closed", stored = size, NEW i \in Nat, i * size < total
  PROVE  /\ i < Len(spool.digests)
         /\ Part(spool.digests[i + 1], Payload, i * size)
         /\ Len(spool.digests[i + 1]) = ChunkLength(i)
<1> DEFINE N == (total + stored - 1) \div stored
<1>1. total \in Nat /\ stored \in Nat \ {0} /\ spool.digests = [j \in 1..N |-> ChunkOf(j - 1)]
  BY DEF SpoolInv, DigestsCover
<1>2. i < N /\ N \in Nat
  <2> DEFINE x == total + stored - 1
             a == i * stored
             b == N * stored
  <2>1. x \in Nat
    <3>1. total \in Nat /\ stored \in Nat \ {0}
      BY DEF SpoolInv
    <3> QED
      BY <3>1
  <2>2. N \in Nat /\ b \in Nat /\ x < b + stored
    <3> HIDE DEF x
    <3>1. /\ x \div stored \in Nat /\ (x \div stored) * stored \in Nat
          /\ x < (x \div stored) * stored + stored
      BY <1>1, <2>1, Quotient
    <3> QED
      BY <3>1 DEF x
  <2>3. a \in Nat /\ a < total
    BY <1>1, Multiples
  <2>4. N <= i => b <= a
    <3> HIDE DEF N
    <3> QED
      BY <1>1, <2>2, Multiples
  <2>5. x = total + stored - 1
    OBVIOUS
  <2> HIDE DEF a, b, x, N
  <2> QED
    BY <1>1, <2>2, <2>3, <2>4, <2>5
<1> HIDE DEF N
<1>3. Len(spool.digests) = N /\ spool.digests[i + 1] = ChunkOf(i)
  <2>1. i + 1 \in 1..N /\ (i + 1) - 1 = i
    BY <1>2
  <2> QED
    BY <1>1, <1>2, <2>1
<1>4. Part(ChunkOf(i), Payload, i * stored) /\ Len(ChunkOf(i)) = Smaller(stored, total - i * stored)
  <2>1. i * stored <= total
    BY <1>1, Multiples
  <2> QED
    BY <1>1, <2>1, ChunkIs
<1> QED
  BY <1>2, <1>3, <1>4 DEF ChunkLength
-----------------------------------------------------------------------------
(* The reader. *)

\* How much of what was fetched has been compared with a digest.
Verified(r) == Len(r.spooled) - Len(r.chunk) - Len(r.raw)

\* What was fetched is the verified chunks, which are those of the payload, then
\* the chunk being filled, then what is left of the last read.
Reading(r) ==
  /\ r.index <= (r.end \div size) + 1
  /\ Verified(r) \in Nat /\ CoveringStart(r) + Verified(r) = Bound(r.index)
  /\ \A i \in 1..Verified(r) : r.spooled[i] = Payload[CoveringStart(r) + i]
  /\ Part(r.chunk, r.spooled, Verified(r))
  /\ Part(r.raw, r.spooled, Verified(r) + Len(r.chunk))
  /\ r.index <= r.end \div size => Len(r.chunk) < ChunkLength(r.index)
  /\ Len(r.spooled) <= Covering(r)
  /\ r.honest => /\ Part(r.spooled, Payload, CoveringStart(r))
                 /\ Part(r.body, Payload, CoveringStart(r) + Len(r.spooled))
                 /\ Len(r.spooled) + Len(r.body) = Covering(r)

ReaderState == [pc: {"idle", "refused", "fetch", "read", "verify", "mismatch", "done"},
                start: Nat, end: Nat, body: Seq(Int), honest: BOOLEAN, spooled: Seq(Int),
                raw: Seq(Int), index: Nat, chunk: Seq(Int), out: Seq(Int)]

ReaderInv ==
  /\ SpoolInv /\ reader \in ReaderState
  /\ reader.pc # "idle" =>
       spool.pc = "closed" /\ reader.start <= reader.end /\ reader.end < total
  /\ reader.pc \notin {"idle", "refused"} => stored = size
  /\ reader.pc = "fetch" =>
       /\ reader.index = reader.start \div size
       /\ reader.spooled = <<>> /\ reader.raw = <<>> /\ reader.chunk = <<>>
  /\ reader.pc \in {"read", "verify"} => Reading(reader)
  /\ reader.pc = "read" => reader.raw = <<>>
  /\ reader.pc = "verify" => Len(reader.raw) > 0
  /\ RangeIsExact /\ RightIsAccepted

\* The request and the answer of the provider do not change while it is read.
SameRange(r, q) == q.start = r.start /\ q.end = r.end /\ q.honest = r.honest

\* The facts that every step of a read starts from.
LEMMA ReadFacts ==
  ASSUME ReaderInv, reader.pc \in {"read", "verify"}
  PROVE  /\ Reading(reader) /\ spool.pc = "closed" /\ stored = size
         /\ reader.start \in Nat /\ reader.end \in Nat /\ reader.index \in Nat
         /\ reader.start <= reader.end /\ reader.end < total
         /\ total \in Nat /\ size \in Nat \ {0}
         /\ reader.body \in Seq(Int) /\ reader.spooled \in Seq(Int) /\ reader.raw \in Seq(Int)
         /\ reader.chunk \in Seq(Int) /\ reader.honest \in BOOLEAN
BY DEF ReaderInv, SpoolInv, ReaderState

\* One body.read: the next n bytes of the answer.
Took(r, q, n) ==
  /\ n \in 0..Len(r.body) /\ n <= Covering(r) - Len(r.spooled) /\ r.raw = <<>>
  /\ SameRange(r, q) /\ q.index = r.index /\ q.chunk = r.chunk
  /\ q.raw = First(r.body, n) /\ q.body = Rest(r.body, n)
  /\ q.spooled = r.spooled \o First(r.body, n)

\* What it leaves.
LEMMA ReadBodyStep ==
  ASSUME total \in Nat, size \in Nat \ {0}, NEW r \in ReaderState, NEW q \in ReaderState,
         r.start <= r.end, r.end < total, Reading(r), NEW n, Took(r, q, n)
  PROVE  Reading(q) /\ Len(q.raw) = n
<1> DEFINE cs == CoveringStart(r)
           f == First(r.body, n)
           v == Verified(r)
           c == Len(r.chunk)
           l == Len(r.spooled)
<1>1. /\ r.start \in Nat /\ r.end \in Nat /\ r.index \in Nat /\ r.body \in Seq(Int)
      /\ r.spooled \in Seq(Int) /\ r.chunk \in Seq(Int) /\ r.honest \in BOOLEAN
      /\ c \in Nat /\ l \in Nat /\ Len(r.body) \in Nat
  BY SMTT(20) DEF ReaderState
<1>2. CoveringStart(q) = cs /\ Covering(q) = Covering(r) /\ q.end = r.end /\ q.honest = r.honest
  BY DEF Took, SameRange, CoveringStart, Covering, CoveringEnd
<1>3. cs \in Nat /\ Covering(r) \in Nat
  BY <1>1, RangeFacts
<1>4. n \in 0..Len(r.body) /\ n \in Nat /\ n <= Covering(r) - l
  BY <1>1 DEF Took
<1>5. f \in Seq(Int) /\ Len(f) = n
  BY <1>1, <1>4, Cut
<1>6. Len(r.raw) = 0 /\ v = l - c /\ v \in Nat
  BY <1>1 DEF Verified, Reading, Took
<1>step. /\ q.spooled = r.spooled \o f /\ q.raw = f /\ q.body = Rest(r.body, n)
      /\ q.chunk = r.chunk /\ q.index = r.index
  BY DEF Took
<1> HIDE DEF f
<1>7. Len(q.spooled) = l + n /\ q.spooled \in Seq(Int) /\ Len(q.raw) = n
  <2>1. r.spooled \o f \in Seq(Int) /\ Len(r.spooled \o f) = l + n
    BY <1>1, <1>5, Joined
  <2> QED
    BY <1>step, <1>5, <2>1
<1>8. Verified(q) = v
  BY <1>step, <1>1, <1>4, <1>5, <1>6, <1>7 DEF Verified
<1>9. \A i \in 1..v : q.spooled[i] = Payload[cs + i]
  <2>1. \A i \in 1..l : (r.spooled \o f)[i] = r.spooled[i]
    <3>1. \A i \in 1..l + n : (r.spooled \o f)[i] =
                               IF i <= l THEN r.spooled[i] ELSE f[i - l]
      BY <1>1, <1>5, ConcatProperties
    <3>2. \A i \in 1..l : i \in 1..l + n /\ i <= l
      BY <1>1, <1>4
    <3> QED
      BY <3>1, <3>2
  <2>2. \A i \in 1..v : r.spooled[i] = Payload[cs + i] /\ i \in 1..l
    BY <1>1, <1>6 DEF Reading
  <2> QED
    BY <1>step, <2>1, <2>2
<1>10. Part(q.chunk, q.spooled, v)
  <2>1. Part(r.chunk, r.spooled, v) /\ v + c <= l
    BY <1>1, <1>6 DEF Reading
  <2> HIDE DEF v
  <2>2. Part(r.chunk, r.spooled \o f, v)
    BY <1>1, <1>5, <1>6, <2>1, PartOfLonger
  <2> QED
    BY <1>step, <2>2
<1>11. Part(q.raw, q.spooled, v + Len(q.chunk))
  <2>1. v + c = l
    BY <1>1, <1>6
  <2>2. Part(f, r.spooled \o f, l)
    BY <1>1, <1>5, PartAppended
  <2> QED
    BY <1>step, <2>1, <2>2
<1>12. ASSUME r.honest
       PROVE  /\ Part(q.spooled, Payload, cs) /\ Part(q.body, Payload, cs + Len(q.spooled))
              /\ Len(q.spooled) + Len(q.body) = Covering(r)
  <2>1. /\ Part(r.spooled, Payload, cs) /\ Part(r.body, Payload, cs + l)
        /\ l + Len(r.body) = Covering(r)
    BY <1>12 DEF Reading
  <2>2. /\ Part(r.spooled \o f, Payload, cs)
        /\ Part(Rest(r.body, n), Payload, cs + Len(r.spooled \o f))
        /\ Len(r.spooled \o f) + Len(Rest(r.body, n)) = Covering(r)
    <3> DEFINE t == r.spooled
               b == r.body
    <3>1. /\ cs \in Int /\ n \in 0..Len(b) /\ Part(t, Payload, cs) /\ Part(b, Payload, cs + Len(t))
          /\ Len(t) + Len(b) = Covering(r)
      <4>1. cs \in Int /\ n \in 0..Len(b)
        BY <1>3, <1>4
      <4>2. Part(t, Payload, cs) /\ Part(b, Payload, cs + Len(t)) /\ Len(t) + Len(b) = Covering(r)
        BY <2>1
      <4> QED
        BY <4>1, <4>2
    <3> HIDE DEF t, b, cs
    <3>2. /\ Part(t \o First(b, n), Payload, cs)
          /\ Part(Rest(b, n), Payload, cs + Len(t \o First(b, n)))
          /\ Len(t \o First(b, n)) + Len(Rest(b, n)) = Len(t) + Len(b)
      BY <3>1, MovePart, ZenonT(40)
    <3> QED
      BY <3>1, <3>2 DEF f, t, b
  <2> QED
    BY <1>step, <2>2
<1>13. Len(q.spooled) <= Covering(q)
  BY <1>1, <1>2, <1>3, <1>4, <1>7
<1>14. /\ q.index <= (q.end \div size) + 1 /\ cs + v = Bound(q.index)
       /\ q.index <= q.end \div size => Len(q.chunk) < ChunkLength(q.index)
  BY <1>step, <1>2 DEF Reading
<1> HIDE DEF cs, v
<1> QED
  BY <1>2, <1>6, <1>7, <1>8, <1>9, <1>10, <1>11, <1>12, <1>13, <1>14 DEF Reading

\* One turn of the inner loop: n bytes go into the chunk, which is complete and
\* right, or not complete.
Turn(r, q, n, chunk) ==
  /\ SameRange(r, q) /\ q.spooled = r.spooled /\ q.body = r.body
  /\ n = Smaller(ChunkLength(r.index) - Len(r.chunk), Len(r.raw))
  /\ q.raw = Rest(r.raw, n) /\ chunk = r.chunk \o First(r.raw, n)
  /\ \/ Len(chunk) # ChunkLength(r.index) /\ q.chunk = chunk /\ q.index = r.index
     \/ /\ Len(chunk) = ChunkLength(r.index) /\ Part(chunk, Payload, r.index * size)
        /\ q.chunk = <<>> /\ q.index = r.index + 1

\* A read of a range of the payload, in the inner loop.
InLoop(r) == /\ r \in ReaderState /\ r.start <= r.end /\ r.end < total
             /\ Reading(r) /\ Len(r.raw) > 0

\* What the loop may take of a piece, and the chunk it makes.
LEMMA LoopFacts ==
  ASSUME total \in Nat, size \in Nat \ {0}, NEW r, InLoop(r), NEW n, NEW e,
         e = ChunkLength(r.index), n = Smaller(e - Len(r.chunk), Len(r.raw))
  PROVE  /\ r.index \in Nat /\ r.index <= r.end \div size
         /\ e \in Nat \ {0} /\ Len(r.chunk) \in Nat /\ Len(r.chunk) < e
         /\ Verified(r) \in Nat /\ CoveringStart(r) + Verified(r) = r.index * size
         /\ n \in Nat \ {0} /\ n \in 0..Len(r.raw) /\ n <= e - Len(r.chunk)
         /\ n < e - Len(r.chunk) => n = Len(r.raw)
<1> DEFINE cs == CoveringStart(r)
           cov == Covering(r)
           last == r.end \div size
           v == Verified(r)
           c == Len(r.chunk)
           l == Len(r.spooled)
           m == Len(r.raw)
<1>1. r.start \in Nat /\ r.end \in Nat /\ r.index \in Nat /\ r.start <= r.end /\ r.end < total
  BY DEF ReaderState, InLoop
<1>2. c \in Nat /\ l \in Nat /\ m \in Nat /\ m > 0
  <2>1. r.spooled \in Seq(Int) /\ r.chunk \in Seq(Int) /\ r.raw \in Seq(Int)
    BY DEF ReaderState, InLoop
  <2> QED
    BY <2>1, LenProperties DEF InLoop
<1>3. cs \in Nat /\ cov \in Nat /\ last \in Nat /\ last * size < total /\ cs + cov = Bound(last + 1)
  BY <1>1, RangeFacts
<1>4. /\ r.index <= last + 1 /\ v \in Nat /\ cs + v = Bound(r.index) /\ l <= cov
      /\ r.index <= last => c < e
  BY DEF Reading, InLoop
<1>5. v = l - c - m
  BY DEF Verified
<1>6. n = Smaller(e - c, m)
  OBVIOUS
<1> HIDE DEF cs, cov, last, v, c, l, m
<1>7. r.index <= last /\ c < e
  <2>1. r.index # last + 1
    BY <1>2, <1>3, <1>4, <1>5
  <2> QED
    BY <1>1, <1>3, <1>4, <2>1
<1>8. r.index * size \in Nat /\ cs + v = r.index * size /\ e \in Nat \ {0}
  BY <1>1, <1>3, <1>4, <1>7, Bounds
<1>9. /\ n \in Nat \ {0} /\ n \in 0..m /\ n <= e - c
      /\ n < e - c => n = m
  BY <1>2, <1>6, <1>7, <1>8 DEF Smaller
<1> QED
  BY <1>1, <1>2, <1>4, <1>7, <1>8, <1>9 DEF cs, v, c, m, last

\* What one turn of the inner loop leaves.
LEMMA VerifyStep ==
  ASSUME total \in Nat, size \in Nat \ {0}, NEW r, InLoop(r), NEW q, q \in ReaderState,
         NEW n, NEW chunk, Turn(r, q, n, chunk)
  PROVE  Reading(q) /\ Len(q.raw) = Len(r.raw) - n
<1> DEFINE cs == CoveringStart(r)
           cov == Covering(r)
           last == r.end \div size
           v == Verified(r)
           c == Len(r.chunk)
           l == Len(r.spooled)
           m == Len(r.raw)
           e == ChunkLength(r.index)
<1>1. /\ r.start \in Nat /\ r.end \in Nat /\ r.index \in Nat /\ r.start <= r.end /\ r.end < total
      /\ c \in Nat /\ l \in Nat /\ m \in Nat /\ m > 0
  <2>1. r.spooled \in Seq(Int) /\ r.chunk \in Seq(Int) /\ r.raw \in Seq(Int)
    BY DEF ReaderState, InLoop
  <2>2. r.start \in Nat /\ r.end \in Nat /\ r.index \in Nat /\ r.start <= r.end /\ r.end < total
    BY DEF ReaderState, InLoop
  <2> QED
    BY <2>1, <2>2, LenProperties DEF InLoop
<1>2. CoveringStart(q) = cs /\ Covering(q) = cov /\ q.end = r.end /\ q.honest = r.honest
  BY DEF Turn, SameRange, CoveringStart, Covering, CoveringEnd
<1>3. cs \in Nat /\ cov \in Nat /\ last \in Nat /\ last * size < total /\ cs + cov = Bound(last + 1)
  BY <1>1, RangeFacts
<1>4. /\ r.index <= last + 1 /\ v \in Nat /\ cs + v = Bound(r.index) /\ l <= cov
      /\ Part(r.chunk, r.spooled, v) /\ Part(r.raw, r.spooled, v + c)
      /\ \A i \in 1..v : r.spooled[i] = Payload[cs + i]
  BY DEF Reading, InLoop
<1>5. v = l - c - m
  BY DEF Verified
<1>6. /\ r.index <= last /\ cs + v = r.index * size
      /\ e \in Nat \ {0} /\ c < e /\ n \in 0..m /\ n <= e - c
  BY LoopFacts DEF Turn
<1> HIDE DEF cs, cov, last, v, c, l, m, e
<1>7. Bound(r.index + 1) = cs + v + e /\ cs + v + e <= Bound(last + 1)
  BY <1>1, <1>3, <1>4, <1>6, Bounds DEF e
<1>8. n \in Nat
  BY <1>1, <1>6
<1>9. /\ Part(chunk, r.spooled, v) /\ Len(chunk) = c + n
      /\ Part(q.raw, r.spooled, v + Len(chunk)) /\ Len(q.raw) = m - n
  <2> DEFINE s == r.chunk
             b == r.raw
             t == r.spooled
  <2>1. Part(s, t, v) /\ Part(b, t, v + Len(s)) /\ v \in Int /\ n \in 0..Len(b)
    BY <1>4, <1>6 DEF c, m
  <2>2. Len(s) = c /\ Len(b) = m
    BY DEF c, m
  <2>3. q.raw = Rest(b, n) /\ chunk = s \o First(b, n)
    BY DEF Turn
  <2> HIDE DEF s, b, t
  <2>4. /\ Part(s \o First(b, n), t, v) /\ Part(Rest(b, n), t, v + Len(s \o First(b, n)))
        /\ Len(s \o First(b, n)) + Len(Rest(b, n)) = Len(s) + Len(b)
    BY <2>1, MovePart, ZenonT(40)
  <2>5. Len(Rest(b, n)) = Len(b) - n
    <3>1. b \in Seq(Int)
      BY <2>1 DEF Part
    <3> QED
      BY <2>1, <3>1, Cut
  <2>6. Part(chunk, t, v) /\ Part(q.raw, t, v + Len(chunk)) /\ Len(q.raw) = m - n
    BY <2>2, <2>3, <2>4, <2>5
  <2>7. Len(chunk) = c + n
    <3>1. Len(chunk) + (m - n) = c + m /\ Len(chunk) \in Nat
      BY <2>2, <2>3, <2>4, <2>6, LenProperties DEF Part
    <3> QED
      BY <1>1, <1>6, <1>8, <3>1
  <2> QED
    BY <2>6, <2>7 DEF t
<1>10. Len(q.raw) = m - n /\ Len(q.spooled) = l /\ q.spooled = r.spooled /\ q.body = r.body
  BY <1>9 DEF l, Turn
<1>11. r.honest => /\ Part(r.spooled, Payload, cs) /\ Part(r.body, Payload, cs + l)
                   /\ l + Len(r.body) = cov
  BY DEF Reading, InLoop, cs, l, cov
<1>12. CASE Len(chunk) # e /\ q.chunk = chunk /\ q.index = r.index
  <2>1. Verified(q) = v
    BY <1>1, <1>5, <1>8, <1>9, <1>10, <1>12 DEF Verified
  <2>2. Len(q.chunk) < e
    BY <1>1, <1>6, <1>8, <1>9, <1>12
  <2>3. Part(q.chunk, r.spooled, v) /\ Part(q.raw, r.spooled, v + Len(q.chunk))
    BY <1>9, <1>12
  <2> QED
    BY <1>2, <1>4, <1>10, <1>11, <1>12, <2>1, <2>2, <2>3 DEF Reading, last, m, e
<1>13. CASE /\ Len(chunk) = e /\ Part(chunk, Payload, r.index * size)
            /\ q.chunk = <<>> /\ q.index = r.index + 1
  <2>1. Len(q.chunk) = 0 /\ Part(q.chunk, r.spooled, v + e)
    BY <1>13, EmptyPart
  <2>2. Verified(q) = v + e /\ v + e \in Nat /\ v + e <= l
    BY <1>1, <1>4, <1>5, <1>6, <1>8, <1>9, <1>10, <1>13, <2>1 DEF Verified
  <2>3. cs + (v + e) = Bound(q.index) /\ q.index <= last + 1
    BY <1>1, <1>3, <1>4, <1>6, <1>7, <1>13
  <2>4. \A i \in 1..v + e : r.spooled[i] = Payload[cs + i]
    <3>1. ASSUME NEW i \in 1..v + e, ~(i <= v) PROVE r.spooled[i] = Payload[cs + i]
      <4>1. i - v \in 1..e /\ v + (i - v) = i /\ (cs + v) + (i - v) = cs + i
        BY <1>3, <1>4, <1>6, <3>1
      <4>2. chunk[i - v] = r.spooled[v + (i - v)]
        BY <1>9, <1>13, <4>1 DEF Part
      <4>3. chunk[i - v] = Payload[(cs + v) + (i - v)]
        BY <1>6, <1>13, <4>1 DEF Part
      <4> QED
        BY <4>1, <4>2, <4>3
    <3>2. \A i \in 1..v + e : i <= v => i \in 1..v
      BY <1>4, <1>6
    <3> QED
      BY <1>4, <3>1, <3>2
  <2>5. q.index <= last => Len(q.chunk) < ChunkLength(q.index)
    <3>1. q.index <= last => ChunkLength(q.index) \in Nat \ {0}
      <4>1. q.index \in Nat
        BY <1>1, <1>13
      <4> QED
        BY <1>1, <1>3, <4>1, Bounds
    <3> QED
      BY <2>1, <3>1
  <2>6. Part(q.raw, r.spooled, (v + e) + Len(q.chunk))
    BY <1>4, <1>6, <1>9, <1>13, <2>1
  <2> QED
    BY <1>2, <1>4, <1>10, <1>11, <2>1, <2>2, <2>3, <2>4, <2>5, <2>6 DEF Reading, last, m
<1> QED
  BY <1>10, <1>12, <1>13 DEF Turn, e, m
-----------------------------------------------------------------------------
(* The steps of the reader. *)

\* At first nothing is read.
LEMMA ReaderInit == Init => ReaderInv
<1> SUFFICES ASSUME Init PROVE ReaderInv
  OBVIOUS
<1>1. SpoolInv
  BY SpoolInit
<1>2. reader = Idle /\ <<>> \in Seq(Int)
  BY DEF Init
<1>3. Idle \in ReaderState /\ Idle.pc = "idle"
  BY <1>2 DEF Idle, ReaderState
<1> QED
  BY <1>1, <1>2, <1>3 DEF ReaderInv, RangeIsExact, RightIsAccepted

\* No read begins before the spool is closed.
LEMMA SpoolSteps ==
  ASSUME ReaderInv, Write \/ Absorb \/ Finish PROVE ReaderInv'
<1>1. SpoolInv'
  BY SpoolNext DEF Next, ReaderInv
<1>2. reader' = reader /\ spool.pc # "closed" /\ total' = total
  BY DEF Write, Absorb, Finish
<1>3. reader.pc = "idle" /\ reader \in ReaderState
  BY <1>2 DEF ReaderInv
<1> QED
  BY <1>1, <1>2, <1>3 DEF ReaderInv, RangeIsExact, RightIsAccepted

\* The operators of the reader depend on what the reader's steps leave alone.
LEMMA SameOperators ==
  ASSUME UNCHANGED <<total, stored, size, spool>>
  PROVE  /\ Payload' = Payload
         /\ Reading(reader)' = Reading(reader')
  BY DEF Payload, Reading, Verified, CoveringStart, Covering, CoveringEnd, Bound, Smaller,
         ChunkLength

\* A range read is refused or begins with its first chunk.
LEMMA ReadRangeInv ==
  ASSUME ReaderInv, ReadRange PROVE ReaderInv'
<1>1. UNCHANGED <<total, stored, size, spool>> /\ spool.pc = "closed"
  BY DEF ReadRange
<1>2. SpoolInv'
  BY <1>1, SpoolUnchanged DEF ReaderInv
<1>picked. PICK s \in 0..total - 1 : \E e \in s..total - 1 :
        reader' = [Idle EXCEPT !.pc = IF e - s + 1 > MaxRange \/ stored # size
                                      THEN "refused" ELSE "fetch",
                               !.start = s, !.end = e, !.index = s \div size]
  BY DEF ReadRange
<1>3. PICK e \in s..total - 1 :
        reader' = [Idle EXCEPT !.pc = IF e - s + 1 > MaxRange \/ stored # size
                                      THEN "refused" ELSE "fetch",
                               !.start = s, !.end = e, !.index = s \div size]
  BY <1>picked
<1>4. s \in Nat /\ e \in Nat /\ s <= e /\ e < total /\ s \div size \in Nat
  BY Quotient DEF ReaderInv, SpoolInv
<1> DEFINE pc == IF e - s + 1 > MaxRange \/ stored # size THEN "refused" ELSE "fetch"
<1>5. pc \in {"refused", "fetch"} /\ (pc = "fetch" => stored = size)
  OBVIOUS
<1>6. reader' = [Idle EXCEPT !.pc = pc, !.start = s, !.end = e, !.index = s \div size]
  BY <1>3
<1> HIDE DEF pc
<1>7. /\ reader'.pc = pc /\ reader'.start = s /\ reader'.end = e /\ reader'.index = s \div size
      /\ reader'.spooled = <<>> /\ reader'.raw = <<>> /\ reader'.chunk = <<>>
      /\ reader' \in ReaderState
  <2>1. <<>> \in Seq(Int)
    OBVIOUS
  <2> HIDE DEF pc
  <2> QED
    BY <1>4, <1>5, <1>6, <2>1 DEF Idle, ReaderState
<1> QED
  BY <1>1, <1>2, <1>4, <1>5, <1>7 DEF ReaderInv, RangeIsExact, RightIsAccepted

\* The right answer is the part of the payload that was asked for; every answer
\* is a sequence of bytes.
LEMMA Answers ==
  ASSUME total \in Nat, NEW from \in Nat, NEW to \in Nat, from <= to + 1, to + 1 <= total
  PROVE  /\ Part(Right(from, to), Payload, from) /\ Len(Right(from, to)) = to + 1 - from
         /\ Wrong(from, to) \subseteq Seq(Int)
<1> DEFINE right == Right(from, to)
<1>1. Part(right, Payload, from) /\ Len(right) = to + 1 - from
  <2>1. Payload \in Seq(Int) /\ Len(Payload) = total
    BY PayloadSeq
  <2> QED
    BY <2>1, SubSeqPart DEF Right
<1>2. right \in Seq(Int) /\ Len(right) \in Nat
  BY <1>1, LenProperties DEF Part
<1> HIDE DEF right
<1>3. \A n \in 0..Len(right) - 1 : First(right, n) \in Seq(Int)
  <2>1. \A n \in 0..Len(right) - 1 : n \in 0..Len(right)
    BY <1>2
  <2> QED
    BY <1>2, <2>1, Cut
<1>4. Append(right, 0) \in Seq(Int) /\ Payload \in Seq(Int)
  BY <1>2, AppendProperties, PayloadSeq
<1>5. \A i \in 1..Len(right) : [right EXCEPT ![i] = 0] \in Seq(Int)
  BY <1>2
<1>6. Wrong(from, to) = {First(right, n) : n \in 0..Len(right) - 1} \cup {Append(right, 0), Payload}
                          \cup {[right EXCEPT ![i] = 0] : i \in 1..Len(right)}
  BY DEF Wrong, right
<1> QED
  BY <1>1, <1>3, <1>4, <1>5, <1>6 DEF right

\* The answer arrives: nothing of it has been read.
LEMMA GetBodyInv ==
  ASSUME ReaderInv, GetBody PROVE ReaderInv'
<1> DEFINE from == CoveringStart(reader)
           to == CoveringEnd(reader)
           cov == Covering(reader)
           last == reader.end \div size
<1>1. UNCHANGED <<total, stored, size, spool>> /\ reader.pc = "fetch"
  BY DEF GetBody
<1>2. SpoolInv'
  BY <1>1, SpoolUnchanged DEF ReaderInv
<1>3. /\ total \in Nat /\ size \in Nat \ {0} /\ reader \in ReaderState /\ stored = size
      /\ spool.pc = "closed" /\ reader.start \in Nat /\ reader.end \in Nat
      /\ reader.start <= reader.end /\ reader.end < total
      /\ reader.index = reader.start \div size
      /\ reader.spooled = <<>> /\ reader.raw = <<>> /\ reader.chunk = <<>>
  BY <1>1 DEF ReaderInv, SpoolInv, ReaderState
<1>4. /\ reader.index \in Nat /\ last \in Nat /\ reader.index <= last /\ last * size < total
      /\ from \in Nat /\ from = Bound(reader.index) /\ cov \in Nat
      /\ to \in Nat /\ to + 1 = from + cov /\ from + cov <= total
  BY <1>3, RangeFacts
<1>5. /\ Part(Right(from, to), Payload, from) /\ Len(Right(from, to)) = cov
      /\ Wrong(from, to) \subseteq Seq(Int)
  <2> HIDE DEF from, to, cov
  <2>1. from <= to + 1 /\ to + 1 <= total /\ to + 1 - from = cov
    <3>1. /\ from \in Nat /\ cov \in Nat /\ to \in Nat /\ to + 1 = from + cov
          /\ from + cov <= total /\ total \in Nat
      BY <1>3, <1>4
    <3> QED
      BY <3>1
  <2> QED
    BY <1>3, <1>4, <2>1, Answers
<1>6. \E body \in Seq(Int), h \in BOOLEAN :
         /\ h => body = Right(from, to)
         /\ reader' = [reader EXCEPT !.pc = "read", !.body = body, !.honest = h]
  <2>1. CASE reader' = [reader EXCEPT !.pc = "read", !.body = Right(from, to)]
    <3>1. reader' = [reader EXCEPT !.pc = "read", !.body = Right(from, to), !.honest = reader.honest]
      BY <1>3, <2>1 DEF ReaderState
    <3>2. Right(from, to) \in Seq(Int) /\ reader.honest \in BOOLEAN
      BY <1>3, <1>5 DEF ReaderState, Part
    <3> QED
      BY <3>1, <3>2
  <2>2. CASE \E body \in Wrong(from, to) :
               reader' = [reader EXCEPT !.pc = "read", !.body = body,
                                        !.honest = body = Right(from, to)]
    <3>1. PICK body \in Wrong(from, to) :
               reader' = [reader EXCEPT !.pc = "read", !.body = body,
                                        !.honest = body = Right(from, to)]
      BY <2>2
    <3>2. body \in Seq(Int) /\ (body = Right(from, to)) \in BOOLEAN
      BY <1>5
    <3> QED
      BY <3>1, <3>2
  <2> QED
    BY <2>1, <2>2 DEF GetBody
<1>7. PICK body \in Seq(Int), h \in BOOLEAN :
         /\ h => body = Right(from, to)
         /\ reader' = [reader EXCEPT !.pc = "read", !.body = body, !.honest = h]
  BY <1>6
<1> HIDE DEF from, to, cov, last
<1>8. /\ reader' \in ReaderState /\ reader'.pc = "read" /\ reader'.body = body /\ reader'.honest = h
      /\ reader'.start = reader.start /\ reader'.end = reader.end /\ reader'.index = reader.index
      /\ reader'.spooled = <<>> /\ reader'.raw = <<>> /\ reader'.chunk = <<>>
  BY <1>3, <1>7 DEF ReaderState
<1>9. Reading(reader')
  <2>1. /\ CoveringStart(reader') = from /\ Covering(reader') = cov /\ reader'.end \div size = last
    BY <1>8 DEF CoveringStart, Covering, CoveringEnd, from, cov, last
  <2>2. /\ Len(<<>>) = 0 /\ Verified(reader') = 0
        /\ Part(<<>>, reader'.spooled, 0) /\ Part(<<>>, Payload, from)
    <3>1. Len(<<>>) = 0 /\ 0 - 0 - 0 = 0
      OBVIOUS
    <3>2. Verified(reader') = 0
      BY <1>8, <3>1 DEF Verified
    <3> QED
      BY <3>1, <3>2, EmptyPart
  <2>3. reader.index <= last => 0 < ChunkLength(reader.index)
    <3>1. /\ reader.index \in Nat /\ last \in Nat /\ last * size < total
          /\ total \in Nat /\ size \in Nat \ {0}
      BY <1>3, <1>4
    <3>2. reader.index <= last => ChunkLength(reader.index) \in Nat \ {0}
      BY <3>1, Bounds
    <3> QED
      BY <3>2
  <2>4. h => Part(body, Payload, from) /\ Len(body) = cov
    BY <1>5, <1>7
  <2>5. reader.index <= last + 1 /\ from + 0 = from /\ 0 <= cov /\ 0 + cov = cov
    BY <1>4
  <2>6. \A i \in 1..0 : reader'.spooled[i] = Payload[from + i]
    OBVIOUS
  <2>7. 0 + 0 = 0 /\ 0 \in Nat
    OBVIOUS
  <2> QED
    BY <1>4, <1>8, <2>1, <2>2, <2>3, <2>4, <2>5, <2>6, <2>7 DEF Reading
<1>10. Reading(reader)'
  BY <1>1, <1>9, SameOperators
<1> QED
  BY <1>1, <1>2, <1>3, <1>8, <1>10 DEF ReaderInv, RangeIsExact, RightIsAccepted

\* body.read returns a piece of the answer.
LEMMA ReadBodyInv ==
  ASSUME ReaderInv, ReadBody PROVE ReaderInv'
<1>1. UNCHANGED <<total, stored, size, spool>> /\ reader.pc = "read" /\ reader.raw = <<>>
  BY DEF ReadBody, ReaderInv
<1>2. SpoolInv' /\ reader \in ReaderState
  BY <1>1, SpoolUnchanged DEF ReaderInv
<1>3. PICK n \in 1..Smaller(Smaller(MaxPiece, Covering(reader) - Len(reader.spooled)),
                            Len(reader.body)) :
         reader' = [reader EXCEPT !.pc = "verify", !.raw = First(reader.body, n),
                                  !.body = Rest(@, n),
                                  !.spooled = @ \o First(reader.body, n)]
  BY DEF ReadBody
<1>4. /\ Reading(reader) /\ spool.pc = "closed" /\ stored = size
      /\ reader.start \in Nat /\ reader.end \in Nat
      /\ reader.start <= reader.end /\ reader.end < total /\ total \in Nat /\ size \in Nat \ {0}
      /\ reader.body \in Seq(Int) /\ reader.spooled \in Seq(Int)
  BY <1>1, ReadFacts
<1>5. n \in 0..Len(reader.body) /\ n > 0 /\ n <= Covering(reader) - Len(reader.spooled)
  <2>1. Covering(reader) \in Nat /\ Len(reader.spooled) \in Nat /\ Len(reader.body) \in Nat
    <3>1. Len(reader.spooled) \in Nat /\ Len(reader.body) \in Nat
      BY <1>4, LenProperties
    <3>2. Covering(reader) \in Nat
      <4>1. /\ reader.start \in Nat /\ reader.end \in Nat /\ reader.start <= reader.end
            /\ reader.end < total /\ total \in Nat /\ size \in Nat \ {0}
        BY <1>4
      <4> QED
        BY <4>1, RangeFacts
    <3> QED
      BY <3>1, <3>2
  <2> QED
    BY <2>1, RangeAssumption DEF Smaller
<1> DEFINE f == First(reader.body, n)
           b == Rest(reader.body, n)
           t == reader.spooled \o f
<1>6. f \in Seq(Int) /\ b \in Seq(Int) /\ t \in Seq(Int)
  BY <1>4, <1>5, Cut, Joined
<1>7. reader' = [reader EXCEPT !.pc = "verify", !.raw = f, !.body = b, !.spooled = t]
  BY <1>3
<1> HIDE DEF f, b, t
<1>8. /\ reader' \in ReaderState /\ reader'.pc = "verify" /\ SameRange(reader, reader')
      /\ reader'.index = reader.index /\ reader'.chunk = reader.chunk
      /\ reader'.raw = f /\ reader'.body = b /\ reader'.spooled = t
  BY <1>2, <1>6, <1>7 DEF ReaderState, SameRange
<1>9. Reading(reader') /\ Len(reader'.raw) = n
  <2>1. Took(reader, reader', n)
    BY <1>1, <1>5, <1>8 DEF Took, f, b, t
  <2> QED
    BY <1>2, <1>4, <1>8, <2>1, ReadBodyStep
<1>10. Reading(reader)'
  BY <1>1, <1>9, SameOperators
<1> QED
  BY <1>1, <1>2, <1>4, <1>5, <1>8, <1>9, <1>10 DEF ReaderInv, RangeIsExact, RightIsAccepted, SameRange

\* One turn of the inner loop: a complete chunk is compared with its digest.
LEMMA VerifyChunkInv ==
  ASSUME ReaderInv, VerifyChunk PROVE ReaderInv'
<1> DEFINE e == ChunkLength(reader.index)
           n == Smaller(e - Len(reader.chunk), Len(reader.raw))
           chunk == reader.chunk \o First(reader.raw, n)
           rest == Rest(reader.raw, n)
           next == IF n = Len(reader.raw) THEN "read" ELSE "verify"
<1>1. UNCHANGED <<total, stored, size, spool>> /\ reader.pc = "verify"
  BY DEF VerifyChunk
<1>2. SpoolInv' /\ SpoolInv /\ reader \in ReaderState /\ Len(reader.raw) > 0
  BY <1>1, SpoolUnchanged DEF ReaderInv
<1>3. /\ Reading(reader) /\ spool.pc = "closed" /\ stored = size
      /\ reader.start \in Nat /\ reader.end \in Nat
      /\ reader.start <= reader.end /\ reader.end < total /\ total \in Nat /\ size \in Nat \ {0}
      /\ reader.raw \in Seq(Int) /\ reader.chunk \in Seq(Int) /\ reader.honest \in BOOLEAN
  BY <1>1, ReadFacts
<1>4. InLoop(reader)
  BY <1>2, <1>3 DEF InLoop
<1>5. /\ reader.index \in Nat /\ reader.index <= reader.end \div size
      /\ e \in Nat \ {0} /\ Verified(reader) \in Nat
      /\ CoveringStart(reader) + Verified(reader) = reader.index * size
      /\ n \in Nat \ {0} /\ n \in 0..Len(reader.raw)
  BY <1>3, <1>4, LoopFacts
<1>6. reader.index * size < total
  <2> DEFINE last == reader.end \div size
  <2>1. last \in Nat /\ last * size < total
    BY <1>3, RangeFacts
  <2>2. reader.index <= last
    BY <1>5
  <2> HIDE DEF last
  <2> QED
    BY <1>3, <1>5, <2>1, <2>2, Bounds
<1>7. /\ reader.index < Len(spool.digests)
      /\ Part(spool.digests[reader.index + 1], Payload, reader.index * size)
      /\ Len(spool.digests[reader.index + 1]) = e
  BY <1>2, <1>3, <1>5, <1>6, DigestOf
<1>8. /\ chunk \in Seq(Int) /\ rest \in Seq(Int) /\ Len(rest) = Len(reader.raw) - n
      /\ First(reader.raw, n) \in Seq(Int)
  <2>1. n \in 0..Len(reader.raw)
    BY <1>5
  <2> HIDE DEF n
  <2> QED
    BY <1>3, <2>1, Cut, Joined
<1>9. \/ /\ Len(chunk) # e
         /\ reader' = [reader EXCEPT !.pc = next, !.raw = rest, !.chunk = chunk]
      \/ /\ Len(chunk) = e /\ Matches(reader.index, chunk)
         /\ reader' = [reader EXCEPT !.pc = next, !.raw = rest, !.chunk = <<>>, !.index = @ + 1]
      \/ /\ Len(chunk) = e /\ ~Matches(reader.index, chunk)
         /\ reader' = [reader EXCEPT !.pc = "mismatch"]
  BY DEF VerifyChunk
<1>10. next \in {"read", "verify"} /\ (next = "read" <=> n = Len(reader.raw))
  OBVIOUS
<1>11. n = Smaller(ChunkLength(reader.index) - Len(reader.chunk), Len(reader.raw))
  OBVIOUS
<1>12. chunk = reader.chunk \o First(reader.raw, n) /\ rest = Rest(reader.raw, n) /\ e = ChunkLength(reader.index)
  OBVIOUS
<1> HIDE DEF e, n, chunk, rest, next
<1>13. ASSUME Turn(reader, reader', n, chunk), reader' \in ReaderState, reader'.pc = next
       PROVE  ReaderInv'
  <2>1. Reading(reader') /\ Len(reader'.raw) = Len(reader.raw) - n
    BY <1>3, <1>4, <1>13, VerifyStep
  <2>2. Reading(reader)'
    BY <1>1, <2>1, SameOperators
  <2>3. (next = "read" => reader'.raw = <<>>) /\ (next = "verify" => Len(reader'.raw) > 0)
    <3>1. reader'.raw \in Seq(Int) /\ Len(reader.raw) \in Nat
      BY <1>3, <1>13 DEF ReaderState
    <3>2. n \in Nat /\ n <= Len(reader.raw)
      BY <1>5
    <3>3. next = "read" => Len(reader'.raw) = 0
      BY <1>10, <2>1, <3>1
    <3>4. next = "verify" => n # Len(reader.raw)
      BY <1>10
    <3>5. n # Len(reader.raw) => Len(reader'.raw) > 0
      BY <2>1, <3>1, <3>2
    <3> QED
      BY <3>1, <3>3, <3>4, <3>5
  <2>4. reader'.start = reader.start /\ reader'.end = reader.end
    BY <1>13 DEF Turn, SameRange
  <2> QED
    BY <1>1, <1>2, <1>3, <1>10, <1>13, <2>2, <2>3, <2>4 DEF ReaderInv, RangeIsExact, RightIsAccepted
<1>14. CASE /\ Len(chunk) # e
            /\ reader' = [reader EXCEPT !.pc = next, !.raw = rest, !.chunk = chunk]
  <2>1. /\ reader' \in ReaderState /\ reader'.pc = next /\ SameRange(reader, reader')
        /\ reader'.spooled = reader.spooled /\ reader'.body = reader.body
        /\ reader'.raw = rest /\ reader'.chunk = chunk /\ reader'.index = reader.index
    BY <1>2, <1>8, <1>10, <1>14 DEF ReaderState, SameRange
  <2>2. Turn(reader, reader', n, chunk)
    BY <1>11, <1>12, <1>14, <2>1 DEF Turn
  <2> QED
    BY <1>13, <2>1, <2>2
<1>15. CASE /\ Len(chunk) = e /\ Matches(reader.index, chunk)
            /\ reader' = [reader EXCEPT !.pc = next, !.raw = rest, !.chunk = <<>>, !.index = @ + 1]
  <2>1. /\ reader' \in ReaderState /\ reader'.pc = next /\ SameRange(reader, reader')
        /\ reader'.spooled = reader.spooled /\ reader'.body = reader.body
        /\ reader'.raw = rest /\ reader'.chunk = <<>> /\ reader'.index = reader.index + 1
    <3>1. <<>> \in Seq(Int) /\ reader.index + 1 \in Nat
      BY <1>5
    <3> QED
      BY <1>2, <1>8, <1>10, <1>15, <3>1 DEF ReaderState, SameRange
  <2>2. Part(chunk, Payload, reader.index * size)
    BY <1>7, <1>15 DEF Matches
  <2>3. Turn(reader, reader', n, chunk)
    BY <1>11, <1>12, <1>15, <2>1, <2>2 DEF Turn
  <2> QED
    BY <1>13, <2>1, <2>3
<1>16. CASE /\ Len(chunk) = e /\ ~Matches(reader.index, chunk)
            /\ reader' = [reader EXCEPT !.pc = "mismatch"]
  <2>1. /\ reader' \in ReaderState /\ reader'.pc = "mismatch" /\ reader'.start = reader.start
        /\ reader'.end = reader.end /\ reader'.honest = reader.honest
    BY <1>2, <1>16 DEF ReaderState
  <2>2. ASSUME reader.honest PROVE FALSE
    <3> DEFINE cs == CoveringStart(reader)
               v == Verified(reader)
               t == reader.spooled
               l == Len(reader.spooled)
    <3>1. Part(t, Payload, cs) /\ cs \in Nat /\ v \in Nat /\ cs + v = reader.index * size
      BY <1>3, <1>5, <2>2, RangeFacts DEF Reading
    <3>2. Part(chunk, t, v)
      <4>1. Part(reader.chunk, t, v) /\ Part(reader.raw, t, v + Len(reader.chunk)) /\ v \in Int
        BY <1>3, <3>1 DEF Reading
      <4> HIDE DEF t, v
      <4> QED
        BY <1>5, <1>12, <4>1, MovePart
    <3>3. v + Len(chunk) <= l /\ l \in Nat
      <4>1. v = l - Len(reader.chunk) - Len(reader.raw)
        BY DEF Verified
      <4>2. Len(First(reader.raw, n)) = n
        BY <1>3, <1>5, Cut
      <4>3. Len(chunk) = Len(reader.chunk) + n
        BY <1>3, <1>8, <1>12, <4>2, Joined
      <4>4. l \in Nat /\ Len(reader.chunk) \in Nat /\ Len(reader.raw) \in Nat
        BY <1>2, <1>3 DEF ReaderState
      <4>5. n \in Nat /\ n <= Len(reader.raw)
        BY <1>5
      <4> DEFINE c == Len(reader.chunk)
                 m == Len(reader.raw)
                 d == Len(chunk)
      <4>6. /\ v = l - c - m /\ d = c + n /\ l \in Nat /\ c \in Nat /\ m \in Nat
            /\ n \in Nat /\ n <= m
        BY <4>1, <4>3, <4>4, <4>5
      <4> HIDE DEF v, l, c, m, d
      <4>7. v + d <= l
        BY <4>6
      <4> QED
        BY <4>6, <4>7 DEF d
    <3>4. \A i \in 1..l : t[i] = Payload[cs + i]
      BY <3>1 DEF Part
    <3> HIDE DEF cs, v, t, l
    <3>5. Part(chunk, Payload, cs + v)
      BY <3>1, <3>2, <3>3, <3>4, PartOfPart
    <3>6. chunk = spool.digests[reader.index + 1]
      BY <1>7, <1>16, <3>1, <3>5, SamePart
    <3> QED
      BY <1>7, <1>16, <3>6 DEF Matches
  <2>3. ~reader'.honest
    BY <2>1, <2>2
  <2> QED
    BY <1>1, <1>2, <1>3, <2>1, <2>3 DEF ReaderInv, RangeIsExact, RightIsAccepted
<1> QED
  BY <1>9, <1>14, <1>15, <1>16

\* A right answer that was read to its end has passed its last chunk.
LEMMA AllVerified ==
  ASSUME total \in Nat, size \in Nat \ {0}, NEW r, r \in ReaderState,
         r.start <= r.end, r.end < total, Reading(r), Len(r.raw) = 0,
         Len(r.spooled) = Covering(r)
  PROVE  r.index = (r.end \div size) + 1 /\ Verified(r) = Covering(r)
<1> DEFINE cs == CoveringStart(r)
           cov == Covering(r)
           last == r.end \div size
           v == Verified(r)
           c == Len(r.chunk)
           e == ChunkLength(r.index)
<1>1. r.start \in Nat /\ r.end \in Nat /\ r.index \in Nat /\ c \in Nat
  BY LenProperties DEF ReaderState
<1>2. cs \in Nat /\ cov \in Nat /\ last \in Nat /\ last * size < total /\ cs + cov = Bound(last + 1)
  BY <1>1, RangeFacts
<1>3. /\ r.index <= last + 1 /\ v \in Nat /\ cs + v = Bound(r.index)
      /\ r.index <= last => c < e
  BY DEF Reading
<1>4. v = cov - c - 0
  BY DEF Verified
<1> HIDE DEF cs, cov, last, v, c
<1>5. ~(r.index <= last)
  <2>1. ASSUME r.index <= last PROVE FALSE
    <3>1. e \in Nat \ {0} /\ Bound(r.index) + e <= Bound(last + 1)
      BY <1>1, <1>2, <2>1, Bounds
    <3>2. c < e
      BY <1>3, <2>1
    <3> HIDE DEF e
    <3> QED
      BY <1>1, <1>2, <1>3, <1>4, <3>1, <3>2
  <2> QED
    BY <2>1
<1>6. r.index = last + 1
  BY <1>1, <1>2, <1>3, <1>5
<1>7. v = cov
  BY <1>2, <1>3, <1>6
<1> QED
  BY <1>6, <1>7 DEF last, v, cov

\* At the end of the answer the range is handed out, or the read fails.
LEMMA YieldInv ==
  ASSUME ReaderInv, Yield PROVE ReaderInv'
<1> DEFINE cs == CoveringStart(reader)
           cov == Covering(reader)
           l == Len(reader.spooled)
           o == Offset(reader)
           t == reader.spooled
           out == SubSeq(reader.spooled, o + 1, o + reader.end - reader.start + 1)
           complete == l = cov /\ reader.index = reader.end \div size + 1
<1>1. /\ UNCHANGED <<total, stored, size, spool>> /\ reader.pc = "read"
      /\ cov = l \/ reader.body = <<>>
  BY DEF Yield
<1>2. SpoolInv' /\ SpoolInv /\ reader \in ReaderState /\ Len(reader.raw) = 0
  BY <1>1, SpoolUnchanged DEF ReaderInv
<1>3. /\ Reading(reader) /\ spool.pc = "closed" /\ stored = size
      /\ reader.start \in Nat /\ reader.end \in Nat
      /\ reader.start <= reader.end /\ reader.end < total /\ total \in Nat /\ size \in Nat \ {0}
      /\ t \in Seq(Int) /\ l \in Nat /\ reader.honest \in BOOLEAN
  BY <1>1, ReadFacts, LenProperties
<1>4. /\ cs \in Nat /\ cov \in Nat /\ cs <= reader.start /\ reader.end < cs + cov
  BY <1>3, RangeFacts
<1>5. CASE complete
  <2>1. reader' = [reader EXCEPT !.pc = "done", !.out = out]
    BY <1>5 DEF Yield
  <2>2. Verified(reader) = cov
    BY <1>2, <1>3, <1>5, AllVerified
  <2>3. \A i \in 1..l : t[i] = Payload[cs + i]
    BY <1>3, <1>5, <2>2 DEF Reading
  <2>4. o = reader.start - cs
    BY DEF Offset
  <2> HIDE DEF cs, cov, l, o
  <2>5. /\ o \in Nat /\ cs + o = reader.start /\ o + reader.end - reader.start + 1 \in Nat
        /\ o <= o + reader.end - reader.start + 1
        /\ o + reader.end - reader.start + 1 <= l
        /\ (o + reader.end - reader.start + 1) - o = reader.end - reader.start + 1
    <3> DEFINE x == reader.start
               y == reader.end
    <3>1. /\ o = x - cs /\ l = cov /\ x \in Nat /\ y \in Nat /\ x <= y /\ l \in Nat
          /\ cs \in Nat /\ cs <= x /\ y < cs + cov
      BY <1>3, <1>4, <1>5, <2>4
    <3> HIDE DEF x, y
    <3>2. /\ o \in Nat /\ cs + o = x /\ o + y - x + 1 \in Nat
          /\ o <= o + y - x + 1 /\ o + y - x + 1 <= l /\ (o + y - x + 1) - o = y - x + 1
      BY <3>1
    <3> QED
      BY <3>2 DEF x, y
  <2> DEFINE z == o + reader.end - reader.start + 1
  <2>6. Part(out, t, o) /\ Len(out) = reader.end - reader.start + 1
    <3>1. z \in Nat /\ o <= z /\ z <= Len(t) /\ z - o = reader.end - reader.start + 1
      BY <2>5 DEF l
    <3>2. out = SubSeq(t, o + 1, z)
      OBVIOUS
    <3> HIDE DEF z, t, out
    <3>3. Part(SubSeq(t, o + 1, z), t, o) /\ Len(SubSeq(t, o + 1, z)) = z - o
      BY <1>3, <2>5, <3>1, SubSeqPart
    <3> QED
      BY <3>1, <3>2, <3>3
  <2>7. o + Len(out) <= l
    <3> HIDE DEF out
    <3> QED
      BY <1>3, <2>5, <2>6
  <2> HIDE DEF z, t, out
  <2>8. Part(out, Payload, reader.start)
    <3>1. Part(out, Payload, cs + o)
      BY <1>3, <1>4, <2>3, <2>5, <2>6, <2>7, PartOfPart
    <3> QED
      BY <2>5, <3>1
  <2>9. out = SubSeq(Payload, reader.start + 1, reader.end + 1)
    <3> DEFINE x == reader.start
               y == reader.end + 1
    <3>1. /\ x \in Nat /\ y \in Nat /\ x <= y /\ y <= total /\ y - x = reader.end - reader.start + 1
          /\ Payload \in Seq(Int) /\ Len(Payload) = total
      BY <1>3, PayloadSeq, SMTT(20)
    <3> HIDE DEF x, y
    <3>2. Part(SubSeq(Payload, x + 1, y), Payload, x) /\ Len(SubSeq(Payload, x + 1, y)) = y - x
      BY <3>1, SubSeqPart
    <3> QED
      BY <2>6, <2>8, <3>1, <3>2, SamePart DEF x, y
  <2>10. /\ reader' \in ReaderState /\ reader'.pc = "done" /\ reader'.out = out
         /\ reader'.start = reader.start /\ reader'.end = reader.end
    <3>1. out \in Seq(Int)
      BY <2>6 DEF Part
    <3> QED
      BY <1>2, <2>1, <3>1 DEF ReaderState
  <2>11. Payload' = Payload
    BY <1>1 DEF Payload
  <2>12. RangeIsExact'
    BY <2>9, <2>10, <2>11 DEF RangeIsExact
  <2> QED
    BY <1>1, <1>2, <1>3, <2>10, <2>12 DEF ReaderInv, RightIsAccepted
<1>6. CASE ~complete
  <2>1. reader' = [reader EXCEPT !.pc = "mismatch"]
    BY <1>6 DEF Yield
  <2>2. /\ reader' \in ReaderState /\ reader'.pc = "mismatch" /\ reader'.start = reader.start
        /\ reader'.end = reader.end /\ reader'.honest = reader.honest
    BY <1>2, <2>1 DEF ReaderState
  <2>3. ASSUME reader.honest PROVE FALSE
    <3>1. l + Len(reader.body) = cov
      BY <1>3, <2>3 DEF Reading
    <3>2. Len(<<>>) = 0
      OBVIOUS
    <3>3. l = cov
      <4>1. reader.body = <<>> => Len(reader.body) = 0
        BY <3>2
      <4> HIDE DEF l, cov
      <4> QED
        BY <1>1, <1>3, <3>1, <4>1
    <3>4. reader.index = (reader.end \div size) + 1
      BY <1>2, <1>3, <3>3, AllVerified
    <3> QED
      BY <1>6, <3>3, <3>4
  <2>4. ~reader'.honest
    BY <2>2, <2>3
  <2> QED
    BY <1>1, <1>2, <1>3, <2>2, <2>4 DEF ReaderInv, RangeIsExact, RightIsAccepted
<1> QED
  BY <1>5, <1>6

\* Nothing happens.
LEMMA ReaderUnchanged ==
  ASSUME ReaderInv, UNCHANGED vars PROVE ReaderInv'
<1>1. UNCHANGED <<total, stored, size, spool>> /\ reader' = reader
  BY DEF vars
<1>2. SpoolInv'
  BY <1>1, SpoolUnchanged DEF ReaderInv
<1>3. Reading(reader)' = Reading(reader) /\ Payload' = Payload
  BY <1>1, SameOperators
<1> QED
  BY <1>1, <1>2, <1>3 DEF ReaderInv, RangeIsExact, RightIsAccepted

\* The invariant of the reader, with that of the spool.
THEOREM ReaderSafe == Spec => []ReaderInv
<1>1. Init => ReaderInv
  BY ReaderInit
<1>2. ReaderInv /\ [Next]_vars => ReaderInv'
  BY SpoolSteps, ReadRangeInv, GetBodyInv, ReadBodyInv, VerifyChunkInv, YieldInv, ReaderUnchanged
     DEF Next, Finished
<1> QED
  BY <1>1, <1>2, PTL DEF Spec

\* Whatever the provider sends, what a range read hands out is the range:
\* no damaged, missing or additional byte passes the chunk digests.
THEOREM RangesAreExact == Spec => []RangeIsExact
<1>1. ReaderInv => RangeIsExact
  BY DEF ReaderInv
<1> QED
  BY ReaderSafe, <1>1, PTL

\* The right bytes are never reported as corrupt, whatever the range, the chunk
\* size and the pieces they arrive in.
THEOREM RightAnswersPass == Spec => []RightIsAccepted
<1>1. ReaderInv => RightIsAccepted
  BY DEF ReaderInv
<1> QED
  BY ReaderSafe, <1>1, PTL
=============================================================================
