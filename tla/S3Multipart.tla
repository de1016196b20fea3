---------------------------- MODULE S3Multipart ----------------------------
(***************************************************************************)
(* S3Transport.put_file of ONE payload key, above the multipart threshold: *)
(* upload_multipart and the read-back of verify_digest.  S3Objects takes   *)
(* this call for one step (PutBlob); here it is a session that several     *)
(* callers may run at once for the same key, since a multipart upload is   *)
(* not create-only.  Sizes are counted in units; the declared length is    *)
(* that of the digest in the key, the same for every caller.               *)
(***************************************************************************)
EXTENDS Integers

CONSTANTS
  Uploaders,
  Lengths,       \* declared lengths to choose from
  PartSize,      \* config.multipart_part_bytes
  MaxParts,      \* S3_MAX_MULTIPART_PARTS
  Modes,         \* bucket and configuration to choose from
  MaxOps,        \* bound: uploads started
  MaxFaults      \* bound: damaged parts, lost answers, failed requests, crashes

ASSUME SizesAssumption == /\ Lengths \subseteq Nat \ {0}
                          /\ PartSize \in Nat \ {0} /\ MaxParts \in Nat
\* versioned: the bucket keeps versions; checksums: config.checksum_headers (or
\* enforced retention); verify: config.verify_after_write.
ASSUME ModesAssumption ==
  Modes \subseteq [versioned: BOOLEAN, checksums: BOOLEAN, verify: BOOLEAN]

VARIABLES
  length, mode,  \* chosen once
  key,           \* versions of the payload key
  sessions,      \* multipart sessions open at the provider
  uploader,      \* local state of each caller
  next,          \* next session or version id
  ops, faults,
  acked,         \* history: version ids a caller was told are stored
  stray          \* history: sessions whose id never arrived, whose abort
                 \* failed, or whose caller died

vars == <<length, mode, key, sessions, uploader, next, ops, faults, acked, stray>>

Lesser(m, n) == IF m <= n THEN m ELSE n

\* Mutant: the division rounds down.
FloorParts(l) == IF l < PartSize THEN 1 ELSE l \div PartSize

\* expected_parts.
ExpectedParts(l) == (l + PartSize - 1) \div PartSize

\* left: what the source still holds; excuse: history, something outside the
\* adapter went wrong with this upload.
Ended(outcome) ==
  [pc |-> "idle", session |-> 0, number |-> 0, consumed |-> 0, left |-> 0,
   intact |-> TRUE, ver |-> 0, excuse |-> FALSE, outcome |-> outcome]

Init ==
  /\ length \in Lengths /\ mode \in Modes
  /\ key = {} /\ sessions = {}
  /\ uploader = [u \in Uploaders |-> Ended("none")]
  /\ next = 1 /\ ops = 0 /\ faults = 0
  /\ acked = {} /\ stray = {}

At(u, pc) == uploader[u].pc = pc
Become(u, r) == uploader' = [uploader EXCEPT ![u] = r]
Fault(happens) == /\ happens => faults < MaxFaults
                  /\ faults' = faults + IF happens THEN 1 ELSE 0

\* The part count is checked first; the source may hold less or more than the
\* declared length.
Begin(u) ==
  /\ At(u, "idle") /\ ops < MaxOps
  /\ ops' = ops + 1
  /\ \E source \in {length - 1, length, length + 1} :
       Become(u, IF ExpectedParts(length) > MaxParts THEN Ended("refused")
                 ELSE [Ended("none") EXCEPT !.pc = "create", !.left = source,
                                            !.excuse = (source # length)])
  /\ UNCHANGED <<length, mode, key, sessions, next, faults, acked, stray>>

\* create_multipart_upload.  When its answer is lost the SDK asks again, and
\* nobody knows the first session.
CreateSession(u) ==
  /\ At(u, "create")
  /\ sessions' = sessions \cup {next} /\ next' = next + 1
  /\ \E lost \in BOOLEAN :
       /\ Fault(lost)
       /\ stray' = IF lost THEN stray \cup {next} ELSE stray
       /\ Become(u, IF lost THEN uploader[u]
                    ELSE [uploader[u] EXCEPT !.pc = "part", !.session = next, !.number = 1])
  /\ UNCHANGED <<length, mode, key, ops, acked>>

\* Mutant: a source that has run dry was read in full.
RanDry(consumed, left) == left = 0

\* Nothing is missing and nothing is left over when the last part is sent.
Whole(consumed, left) == consumed = length /\ left = 0

\* Where the loop goes after a part that was stored, or was not.
AfterPart(sent, stored) ==
  IF ~stored THEN "abort"
  ELSE IF sent.number <= ExpectedParts(length) THEN "part"
  ELSE IF Whole(sent.consumed, sent.left) THEN "complete" ELSE "abort"

\* What one read may return: at most a part, and no more than is declared.
Available(r) == Lesser(Lesser(PartSize, length - r.consumed), r.left)

\* The local state after a part of that many units.
Sent(r, got, damaged) ==
  [r EXCEPT !.consumed = @ + got, !.left = @ - got, !.number = @ + 1,
            !.intact = @ /\ ~damaged,
            !.excuse = @ \/ damaged \/ got < Available(r)]

\* One turn of the loop: a read, which may return less than it could, and
\* upload_part.  A repeated upload_part replaces the same part.  Bytes damaged
\* on the way are noticed when the request carries their checksum.
UploadPart(u) ==
  LET r == uploader[u]
  IN /\ At(u, "part")
     /\ \E got \in 0..Available(r), damaged \in BOOLEAN :
          LET sent == Sent(r, got, damaged)
              stored == got > 0 /\ (damaged => ~mode.checksums)
          IN /\ got = 0 => Available(r) = 0 /\ ~damaged
             /\ Fault(damaged)
             /\ Become(u, [sent EXCEPT !.pc = AfterPart(sent, stored)])
     /\ UNCHANGED <<length, mode, key, sessions, next, ops, acked, stray>>

Version(r) == [ver |-> IF mode.versioned THEN next ELSE 0,
               length |-> r.consumed, left |-> r.left, intact |-> r.intact]

\* complete_multipart_upload: the object appears.  When the answer is lost, the
\* repeated request may find no session any more, and the adapter aborts.
Complete(u) ==
  LET r == uploader[u]
  IN /\ At(u, "complete")
     /\ key' = (IF mode.versioned THEN key ELSE {}) \cup {Version(r)}
     /\ sessions' = sessions \ {r.session} /\ next' = next + 1
     /\ \E lost \in BOOLEAN :
          /\ Fault(lost)
          /\ Become(u, IF lost THEN [r EXCEPT !.pc = "abort", !.excuse = TRUE]
                       ELSE [r EXCEPT !.pc = "verify", !.ver = Version(r).ver])
     /\ UNCHANGED <<length, mode, ops, acked, stray>>

\* Mutant: the completion stands outside the guarded block.
PartsGuarded(r) == IF r.pc = "part" THEN [r EXCEPT !.pc = "abort", !.excuse = TRUE]
                   ELSE Ended("failed")

\* The handler of every failure once there is a session: abort and raise.
Guarded(r) == [r EXCEPT !.pc = "abort", !.excuse = TRUE]

\* A part or the completion fails for good.
RequestFails(u) ==
  /\ At(u, "part") \/ At(u, "complete")
  /\ Fault(TRUE)
  /\ Become(u, Guarded(uploader[u]))
  /\ UNCHANGED <<length, mode, key, sessions, next, ops, acked, stray>>

\* abort_multipart_upload; its own failure is suppressed.
Abort(u) ==
  LET r == uploader[u]
  IN /\ At(u, "abort")
     /\ \E failing \in BOOLEAN :
          /\ Fault(failing)
          /\ sessions' = IF failing THEN sessions ELSE sessions \ {r.session}
          /\ stray' = IF failing THEN stray \cup {r.session} ELSE stray
     /\ Become(u, [Ended("failed") EXCEPT !.excuse = r.excuse])
     /\ UNCHANGED <<length, mode, key, next, ops, acked>>

\* Mutant: the digest is not compared.
LengthOnly(v) == mode.verify => v.length = length

\* verify_digest accepts this version.
Accepted(v) == mode.verify => v.length = length /\ v.intact

\* verify_after_write: the version the completion returned is read back; without
\* versions that is whatever is stored under the key by now.
Verify(u) ==
  LET r == uploader[u]
  IN /\ At(u, "verify")
     /\ \E v \in key :
          /\ v.ver = r.ver
          /\ acked' = IF Accepted(v) THEN acked \cup {v.ver} ELSE acked
          /\ Become(u, [Ended(IF Accepted(v) THEN "stored" ELSE "failed")
                          EXCEPT !.excuse = r.excuse \/ ~v.intact])
     /\ UNCHANGED <<length, mode, key, sessions, next, ops, faults, stray>>

\* The process dies, or the first request fails for good.
Crash(u) ==
  /\ ~At(u, "idle") /\ Fault(TRUE)
  /\ stray' = IF At(u, "create") THEN stray ELSE stray \cup {uploader[u].session}
  /\ Become(u, [Ended("failed") EXCEPT !.excuse = TRUE])
  /\ UNCHANGED <<length, mode, key, sessions, next, ops, acked>>

\* Every upload allowed has been started and has ended.
Finished == ops = MaxOps /\ (\A u \in Uploaders : At(u, "idle")) /\ UNCHANGED vars

Step(u) == CreateSession(u) \/ UploadPart(u) \/ Complete(u) \/ RequestFails(u)
           \/ Abort(u) \/ Verify(u)
Next == (\E u \in Uploaders : Begin(u) \/ Step(u) \/ Crash(u)) \/ Finished
Spec == Init /\ [][Next]_vars
-----------------------------------------------------------------------------
(* Properties. *)

\* Whatever a source yields, in whatever pieces, only its complete content of
\* the declared length ever becomes visible under the key.
OnlyWhole == \A v \in key : v.length = length /\ v.left = 0

\* A session is open only for an upload that is still running, unless nobody
\* knows it or its abort could not be carried out ("Multipart sessions are
\* aborted on every incomplete path", README.md:75).
SessionsClosed ==
  \A s \in sessions \ stray :
    \E u \in Uploaders : uploader[u].session = s /\ ~At(u, "idle") /\ ~At(u, "verify")

\* A payload reported stored is intact and stays so while other uploads of the
\* same key run and fail: with versions because the one that was read back is
\* kept, with checksum headers because damaged parts never make an object.
StoredStaysIntact ==
  mode.checksums \/ (mode.versioned /\ mode.verify) =>
    \A n \in acked : \E v \in key : v.ver = n /\ v.intact

\* An upload fails only for a reason outside the adapter: the part arithmetic
\* never runs out of source, or of parts, on a source of the declared length.
FailsForCause ==
  \A u \in Uploaders : uploader[u].outcome = "failed" => uploader[u].excuse
=============================================================================
