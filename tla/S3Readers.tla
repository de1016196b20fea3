----------------------------- MODULE S3Readers -----------------------------
(***************************************************************************)
(* stat and get of the object id of S3Objects, while its puts and deletes  *)
(* run (adapter.py, S3ObjectAdapter._stat and _get, and the payload source *)
(* a get hands out).  A read is two or three requests, and the bytes of a  *)
(* get are fetched only when the caller opens the payload.                 *)
(***************************************************************************)
EXTENDS S3Objects

CONSTANTS
  Readers,
  MaxReads      \* bound: reads started

VARIABLES
  reader,       \* local state of each read
  reads         \* how much of MaxReads is used

readVars == <<vars, reader, reads>>

ReaderState ==
  [pc: {"idle", "pointer", "envelope", "head", "stream"}, method: {"stat", "get"},
   asked: Digests \cup {NoDigest}, digest: Digests \cup {NoDigest},
   blobVer: Nat, created: Nat, outcome: {"none", "found", "absent"},
   floor: Nat, expected: BOOLEAN, calm: BOOLEAN]

NoRead == [pc |-> "idle", method |-> "stat", asked |-> NoDigest, digest |-> NoDigest,
           blobVer |-> 0, created |-> 0, outcome |-> "none",
           floor |-> 0, expected |-> FALSE, calm |-> FALSE]

ReadInit == Init /\ reader = [r \in Readers |-> NoRead] /\ reads = 0
-----------------------------------------------------------------------------
(* History of a read, for the properties: what was there when it began, and  *)
(* whether a delete has run since.                                           *)

Complete(d) == \E e \in ref[d] : IsCurrent(e, ref[d]) /\ e.blobVer \in blob[d]
Created == UNION {{e.created : e \in ref[d]} : d \in Digests}
\* When the newest object was created, as far as that is settled.
Floor == IF Quiet /\ Created # {} THEN CHOOSE n \in Created : \A m \in Created : m <= n ELSE 0
NoDelete == \A x \in Deleters : DeleterAt(x, "idle")
Remembered == [r \in Readers |-> [reader[r] EXCEPT !.calm = @ /\ NoDelete']]
-----------------------------------------------------------------------------
(* Reads. *)

ReaderAt(r, pc) == reader[r].pc = pc
Turn(r, q) == reader' = [reader EXCEPT ![r] = q]
Absent(r) == Turn(r, [reader[r] EXCEPT !.pc = "idle", !.outcome = "absent"])

\* Mutant: the digest of the reference is not looked at.
NeverExact(asked) == FALSE

\* Does the reference name the digest, or is the latest object meant?
Exact(asked) == asked # NoDigest

\* _stat or _get begins: only an inexact reference needs the pointer.
StartRead(r) ==
  /\ ReaderAt(r, "idle") /\ reads < MaxReads /\ reads' = reads + 1
  /\ \E method \in {"stat", "get"}, asked \in Digests \cup {NoDigest} :
       Turn(r, [NoRead EXCEPT
         !.pc = IF Exact(asked) THEN "envelope" ELSE "pointer",
         !.method = method, !.asked = asked,
         !.digest = IF Exact(asked) THEN asked ELSE NoDigest,
         !.floor = Floor, !.expected = (asked # NoDigest /\ Complete(asked)),
         !.calm = NoDelete])

\* _read_envelope without a digest: the pointer ...
ReadLatest(r) ==
  /\ ReaderAt(r, "pointer") /\ UNCHANGED reads
  /\ \/ latest = {} /\ Absent(r)
     \/ \E p \in latest : /\ IsCurrent(p, latest)
                          /\ Turn(r, [reader[r] EXCEPT !.pc = "envelope", !.digest = p.digest])

\* ... and the envelope.
ReadEnvelope(r) ==
  LET versions == ref[reader[r].digest]
  IN /\ ReaderAt(r, "envelope") /\ UNCHANGED reads
     /\ \/ versions = {} /\ Absent(r)
        \/ \E e \in versions :
             /\ IsCurrent(e, versions)
             /\ Turn(r, [reader[r] EXCEPT !.pc = "head", !.blobVer = e.blobVer,
                                          !.created = e.created])

\* _stat's head of the payload version the envelope names; a stat ends here.
\* (Length and digest differ from the envelope only if the bucket was damaged.)
HeadPayload(r) ==
  LET q == reader[r]
  IN /\ ReaderAt(r, "head") /\ UNCHANGED reads
     /\ IF q.blobVer \notin blob[q.digest] THEN Absent(r)
        ELSE Turn(r, IF q.method = "get" THEN [q EXCEPT !.pc = "stream"]
                     ELSE [q EXCEPT !.pc = "idle", !.outcome = "found"])

\* The caller opens the payload a get returned, some time later.
OpenPayload(r) ==
  LET q == reader[r]
  IN /\ ReaderAt(r, "stream") /\ UNCHANGED reads
     /\ IF q.blobVer \notin blob[q.digest] THEN Absent(r)
        ELSE Turn(r, [q EXCEPT !.pc = "idle", !.outcome = "found"])

ReadStep(r) == StartRead(r) \/ ReadLatest(r) \/ ReadEnvelope(r) \/ HeadPayload(r) \/ OpenPayload(r)

ReadNext ==
  \/ Next /\ reader' = Remembered /\ UNCHANGED reads
  \/ (\E r \in Readers : ReadStep(r)) /\ UNCHANGED vars

ReadSpec == ReadInit /\ [][ReadNext]_readVars
-----------------------------------------------------------------------------
(* Properties. *)

\* A read of an exact version that was completely there when it began, and that
\* no delete overlapped, finds it and no other, however puts of it and of other
\* versions run meanwhile (_stat, _get).
ExactIsFound ==
  \A r \in Readers :
    reader[r].outcome # "none" /\ reader[r].expected /\ reader[r].calm =>
      reader[r].outcome = "found" /\ reader[r].digest = reader[r].asked

\* A read of the latest version that began between operations, and that no
\* delete overlapped, finds one, and none older than any there was when it
\* began, whatever was deleted and restored before and is put meanwhile.
ReadIsFresh ==
  \A r \in Readers :
    reader[r].outcome # "none" /\ reader[r].asked = NoDigest
    /\ reader[r].calm /\ reader[r].floor > 0 =>
      reader[r].outcome = "found" /\ reader[r].created >= reader[r].floor
=============================================================================
