------------------------- MODULE S3MultipartProofs -------------------------
(***************************************************************************)
(* For any number of uploads of a key, any lengths, part size and failures *)
(* S3Multipart shows whole objects only and leaves no session behind.      *)
(***************************************************************************)
EXTENDS S3Multipart, TLAPS

State == [pc: {"idle", "create", "part", "complete", "abort", "verify"},
          session: Nat, number: Nat, consumed: Nat, left: Nat, intact: BOOLEAN,
          ver: Nat, excuse: BOOLEAN, outcome: {"none", "refused", "stored", "failed"}]

TypeInv == /\ length \in Nat \ {0} /\ next \in Nat
           /\ \A v \in key : v.ver \in Nat /\ v.intact \in BOOLEAN
           /\ uploader \in [Uploaders -> State]

\* An upload about to be completed has sent its whole source.
ReadInFull == \A u \in Uploaders :
                At(u, "complete") => Whole(uploader[u].consumed, uploader[u].left)

\* A session that somebody knows belongs to an upload that will close it.
Running(r) == r.pc \in {"part", "complete", "abort"}
Cared == \A s \in sessions \ stray :
           \E u \in Uploaders : uploader[u].session = s /\ Running(uploader[u])

IInv == TypeInv /\ ReadInFull /\ OnlyWhole /\ Cared

LEMMA EndedType ==
  ASSUME NEW o \in {"none", "refused", "stored", "failed"}
  PROVE  /\ Ended(o) \in State /\ Ended(o).pc = "idle"
         /\ \A e \in BOOLEAN : LET q == [Ended(o) EXCEPT !.excuse = e]
                               IN q \in State /\ q.pc = "idle"
BY DEF Ended, State

LEMMA InitIInv == Init => IInv
<1> SUFFICES ASSUME Init PROVE IInv
  OBVIOUS
<1>1. length \in Nat \ {0}
  BY SizesAssumption DEF Init
<1> QED
  BY <1>1, EndedType DEF Init, IInv, TypeInv, ReadInFull, OnlyWhole, Cared, At

\* What a step of one upload has to respect.
LEMMA OneUpload ==
  ASSUME IInv, NEW u \in Uploaders, NEW q \in State,
         uploader' = [uploader EXCEPT ![u] = q],
         length' = length, next' \in Nat,
         \A v \in key' : v \in key \/ /\ v.ver \in Nat /\ v.intact \in BOOLEAN
                                      /\ v.length = length /\ v.left = 0,
         q.pc = "complete" => Whole(q.consumed, q.left),
         \A s \in sessions' \ stray' :
           \/ q.session = s /\ Running(q)
           \/ s \in sessions \ stray /\ (Running(uploader[u]) => s # uploader[u].session)
  PROVE  IInv'
<1> USE DEF IInv, TypeInv
<1>1. TypeInv'
  OBVIOUS
<1>2. ReadInFull'
  BY DEF ReadInFull, At, Whole
<1>3. OnlyWhole'
  BY DEF OnlyWhole
<1>4. Cared'
  <2> SUFFICES ASSUME NEW s \in sessions' \ stray'
               PROVE  \E w \in Uploaders : uploader'[w].session = s /\ Running(uploader'[w])
    BY DEF Cared, Running
  <2>1. CASE q.session = s /\ Running(q)
    <3>1. uploader'[u] = q
      OBVIOUS
    <3> QED
      BY <2>1, <3>1
  <2>2. CASE s \in sessions \ stray /\ (Running(uploader[u]) => s # uploader[u].session)
    <3>1. PICK w \in Uploaders : uploader[w].session = s /\ Running(uploader[w])
      BY <2>2 DEF Cared
    <3>2. w # u
      BY <2>2, <3>1
    <3>3. uploader'[w] = uploader[w]
      BY <3>2
    <3> QED
      BY <3>1, <3>3
  <2> QED
    BY <2>1, <2>2
<1> QED
  BY <1>1, <1>2, <1>3, <1>4

LEMMA BeginIInv ==
  ASSUME IInv, NEW u \in Uploaders, Begin(u) PROVE IInv'
<1>1. length \in Nat \ {0} /\ next \in Nat
  BY DEF IInv, TypeInv
<1>2. PICK source \in {length - 1, length, length + 1} :
        Become(u, IF ExpectedParts(length) > MaxParts THEN Ended("refused")
                  ELSE [Ended("none") EXCEPT !.pc = "create", !.left = source,
                                             !.excuse = (source # length)])
  BY DEF Begin
<1> DEFINE q == IF ExpectedParts(length) > MaxParts THEN Ended("refused")
                ELSE [Ended("none") EXCEPT !.pc = "create", !.left = source,
                                           !.excuse = (source # length)]
<1>3. source \in Nat /\ (source # length) \in BOOLEAN
  BY <1>1
<1>4. q \in State /\ q.pc \in {"idle", "create"}
  BY <1>3 DEF Ended, State
<1>5. /\ UNCHANGED <<length, key, sessions, next, stray>>
      /\ ~Running(uploader[u])
  BY DEF Begin, At, Running
<1>6. uploader' = [uploader EXCEPT ![u] = q]
  BY <1>2 DEF Become
<1> HIDE DEF q
<1> QED
  BY <1>1, <1>4, <1>5, <1>6, OneUpload

LEMMA CreateIInv ==
  ASSUME IInv, NEW u \in Uploaders, CreateSession(u) PROVE IInv'
<1>1. PICK lost \in BOOLEAN :
        /\ stray' = IF lost THEN stray \cup {next} ELSE stray
        /\ Become(u, IF lost THEN uploader[u]
                     ELSE [uploader[u] EXCEPT !.pc = "part", !.session = next, !.number = 1])
  BY DEF CreateSession
<1> DEFINE q == IF lost THEN uploader[u]
                ELSE [uploader[u] EXCEPT !.pc = "part", !.session = next, !.number = 1]
<1>2. /\ UNCHANGED <<length, key>> /\ sessions' = sessions \cup {next}
      /\ next' = next + 1 /\ uploader[u].pc = "create"
  BY DEF CreateSession, At
<1>3. uploader[u] \in State /\ next \in Nat
  BY DEF IInv, TypeInv
<1>4. /\ q \in State /\ q.pc \in {"create", "part"}
      /\ ~lost => q.pc = "part" /\ q.session = next
  BY <1>2, <1>3 DEF State
<1>5. uploader' = [uploader EXCEPT ![u] = q]
  BY <1>1 DEF Become
<1>6. ~Running(uploader[u])
  BY <1>2 DEF Running
<1>7. ~lost => Running(q) /\ q.session = next
  BY <1>4 DEF Running
<1> HIDE DEF q
<1>8. \A s \in sessions' \ stray' : \/ q.session = s /\ Running(q)
                                    \/ s \in sessions \ stray
  BY <1>1, <1>2, <1>7
<1>9. next' \in Nat /\ q.pc # "complete"
  BY <1>2, <1>3, <1>4
<1> QED
  BY <1>2, <1>4, <1>5, <1>6, <1>8, <1>9, OneUpload

\* The heart of the argument: the loop reaches the completion only when the
\* source was read in full.
LEMMA PartIInv ==
  ASSUME IInv, NEW u \in Uploaders, UploadPart(u) PROVE IInv'
<1> DEFINE r == uploader[u]
<1>1. PICK got \in 0..Available(r), damaged \in BOOLEAN :
        Become(u, [Sent(r, got, damaged) EXCEPT !.pc =
          AfterPart(Sent(r, got, damaged), got > 0 /\ (damaged => ~mode.checksums))])
  BY DEF UploadPart
<1> DEFINE sent == Sent(r, got, damaged)
           pc == AfterPart(sent, got > 0 /\ (damaged => ~mode.checksums))
           q == [sent EXCEPT !.pc = pc]
<1>2. r \in State /\ length \in Nat /\ next \in Nat
  BY DEF IInv, TypeInv
<1>3. got \in Nat /\ got <= r.left
  <2>1. r.left \in Nat /\ r.consumed \in Nat /\ PartSize \in Nat
    BY <1>2, SizesAssumption DEF State
  <2>2. Available(r) <= r.left /\ Available(r) \in Int
    BY <1>2, <2>1 DEF Lesser, Available
  <2> HIDE DEF r
  <2> QED
    BY <2>1, <2>2
<1>4. /\ UNCHANGED <<length, key, sessions, next, stray>> /\ r.pc = "part"
  BY DEF UploadPart, At
<1>5. sent \in State /\ sent.session = r.session
  <2>1. r.consumed + got \in Nat /\ r.left - got \in Nat /\ r.number + 1 \in Nat
    BY <1>2, <1>3 DEF State
  <2>2. (r.intact /\ ~damaged) \in BOOLEAN /\ (r.excuse \/ damaged \/ got < Available(r)) \in BOOLEAN
    OBVIOUS
  <2> QED
    BY <1>2, <2>1, <2>2 DEF State, Sent
<1>6. /\ pc \in {"part", "complete", "abort"}
      /\ pc = "complete" => Whole(sent.consumed, sent.left)
  <2> HIDE DEF sent
  <2> QED
    BY DEF AfterPart
<1>7. uploader' = [uploader EXCEPT ![u] = q]
  BY <1>1 DEF Become
<1> HIDE DEF sent, pc
<1>8. /\ q \in State /\ q.pc = pc /\ q.session = r.session
      /\ q.consumed = sent.consumed /\ q.left = sent.left
  BY <1>5, <1>6 DEF State
<1> HIDE DEF q
<1>9. Running(q) /\ (q.pc = "complete" => Whole(q.consumed, q.left))
  BY <1>6, <1>8 DEF Running
<1>10. \A s \in sessions' \ stray' :
         \/ q.session = s /\ Running(q)
         \/ s \in sessions \ stray /\ (Running(uploader[u]) => s # uploader[u].session)
  BY <1>4, <1>8, <1>9
<1> QED
  BY <1>2, <1>4, <1>7, <1>8, <1>9, <1>10, OneUpload

LEMMA CompleteIInv ==
  ASSUME IInv, NEW u \in Uploaders, Complete(u) PROVE IInv'
<1> DEFINE r == uploader[u]
<1>1. PICK lost \in BOOLEAN :
        Become(u, IF lost THEN [r EXCEPT !.pc = "abort", !.excuse = TRUE]
                  ELSE [r EXCEPT !.pc = "verify", !.ver = Version(r).ver])
  BY DEF Complete
<1> DEFINE q == IF lost THEN [r EXCEPT !.pc = "abort", !.excuse = TRUE]
                ELSE [r EXCEPT !.pc = "verify", !.ver = Version(r).ver]
<1>2. /\ UNCHANGED <<length, stray>> /\ next' = next + 1
      /\ key' = (IF mode.versioned THEN key ELSE {}) \cup {Version(r)}
      /\ sessions' = sessions \ {r.session} /\ r.pc = "complete"
  BY DEF Complete, At
<1>3. r \in State /\ next \in Nat /\ Whole(r.consumed, r.left)
  BY <1>2 DEF IInv, TypeInv, ReadInFull, At
<1>4. /\ Version(r).ver \in Nat /\ Version(r).intact \in BOOLEAN
      /\ Version(r).length = length /\ Version(r).left = 0
  BY <1>3 DEF Version, Whole, State
<1>5. q \in State /\ q.pc \in {"abort", "verify"}
  BY <1>3, <1>4 DEF State
<1>6. uploader' = [uploader EXCEPT ![u] = q]
  BY <1>1 DEF Become
<1> HIDE DEF q
<1>7. next' \in Nat /\ q.pc # "complete"
  BY <1>2, <1>3, <1>5
<1>8. \A v \in key' : v \in key \/ v = Version(r)
  BY <1>2
<1> QED
  BY <1>2, <1>4, <1>5, <1>6, <1>7, <1>8, OneUpload

LEMMA OtherIInv ==
  ASSUME IInv, NEW u \in Uploaders, RequestFails(u) \/ Abort(u) \/ Verify(u) \/ Crash(u)
  PROVE IInv'
<1> DEFINE r == uploader[u]
<1>0. r \in State /\ next \in Nat
  BY DEF IInv, TypeInv
<1>1. CASE RequestFails(u)
  <2> DEFINE q == [r EXCEPT !.pc = "abort", !.excuse = TRUE]
  <2>1. q \in State /\ q.pc = "abort" /\ q.session = r.session
    BY <1>0 DEF State
  <2>2. /\ UNCHANGED <<length, key, sessions, next, stray>>
        /\ uploader' = [uploader EXCEPT ![u] = q]
    BY <1>1 DEF RequestFails, Become, Guarded
  <2> HIDE DEF q
  <2>3. Running(q)
    BY <2>1 DEF Running
  <2> QED
    BY <1>0, <2>1, <2>2, <2>3, OneUpload
<1>2. CASE Abort(u)
  <2> DEFINE q == [Ended("failed") EXCEPT !.excuse = r.excuse]
  <2>1. q \in State /\ q.pc = "idle"
    BY <1>0, EndedType DEF State
  <2>2. /\ UNCHANGED <<length, key, next>>
        /\ uploader' = [uploader EXCEPT ![u] = q]
    BY <1>2 DEF Abort, Become
  <2>3. sessions' \ stray' \subseteq (sessions \ stray) \ {r.session}
    BY <1>2 DEF Abort
  <2> HIDE DEF q
  <2> QED
    BY <1>0, <2>1, <2>2, <2>3, OneUpload
<1>3. CASE Verify(u)
  <2>1. PICK v \in key :
          Become(u, [Ended(IF Accepted(v) THEN "stored" ELSE "failed")
                       EXCEPT !.excuse = r.excuse \/ ~v.intact])
    BY <1>3 DEF Verify
  <2> DEFINE q == [Ended(IF Accepted(v) THEN "stored" ELSE "failed")
                     EXCEPT !.excuse = r.excuse \/ ~v.intact]
  <2>2. (r.excuse \/ ~v.intact) \in BOOLEAN
    OBVIOUS
  <2>3. q \in State /\ q.pc = "idle"
    BY <2>2, EndedType
  <2>4. /\ UNCHANGED <<length, key, sessions, next, stray>> /\ ~Running(r)
        /\ uploader' = [uploader EXCEPT ![u] = q]
    BY <1>3, <2>1 DEF Verify, At, Running, Become
  <2> HIDE DEF q
  <2> QED
    BY <1>0, <2>3, <2>4, OneUpload
<1>4. CASE Crash(u)
  <2> DEFINE q == [Ended("failed") EXCEPT !.excuse = TRUE]
  <2>1. q \in State /\ q.pc = "idle"
    BY EndedType
  <2>2. /\ UNCHANGED <<length, key, sessions, next>>
        /\ uploader' = [uploader EXCEPT ![u] = q]
        /\ stray \subseteq stray' /\ (Running(r) => r.session \in stray')
    BY <1>4 DEF Crash, Become, At, Running
  <2> HIDE DEF q
  <2> QED
    BY <1>0, <2>1, <2>2, OneUpload
<1> QED
  BY <1>1, <1>2, <1>3, <1>4

\* upload_multipart and put_file: the invariant the two results rest on.
LEMMA IInvHolds == Spec => []IInv
<1>1. IInv /\ [Next]_vars => IInv'
  <2> SUFFICES ASSUME IInv, [Next]_vars PROVE IInv'
    OBVIOUS
  <2>1. CASE UNCHANGED vars
    BY <2>1 DEF vars, IInv, TypeInv, ReadInFull, OnlyWhole, Cared, Running, At, Whole
  <2> QED
    BY <2>1, BeginIInv, CreateIInv, PartIInv, CompleteIInv, OtherIInv DEF Next, Step, Finished
<1> QED
  BY <1>1, InitIInv, PTL DEF Spec

\* The length check at the end of the loop of upload_multipart keeps short, long
\* and piecemeal sources from ever becoming an object.
THEOREM ObjectsAreWhole == Spec => []OnlyWhole
<1>1. IInv => OnlyWhole
  BY DEF IInv
<1> QED
  BY <1>1, IInvHolds, PTL

\* Every failure of a part or of the completion aborts the session, so one left
\* open is unknown to everybody, or its abort could not be carried out.
THEOREM SessionsAreClosed == Spec => []SessionsClosed
<1>1. IInv => SessionsClosed
  BY DEF IInv, Cared, Running, SessionsClosed, At
<1> QED
  BY <1>1, IInvHolds, PTL
-----------------------------------------------------------------------------
(* What was acknowledged stays intact. *)

\* With checksum headers damaged bytes reach no object; an unversioned key has
\* one version, written 0, which the next completion replaces.
Undamaged ==
  /\ mode.checksums =>
       /\ \A v \in key : v.intact
       /\ \A u \in Uploaders :
            uploader[u].pc \in {"create", "part", "complete"} => uploader[u].intact
  /\ ~mode.versioned => \A v \in key : v.ver = 0
  /\ StoredStaysIntact

\* A step that stores and acknowledges nothing keeps it, if the upload it is
\* about is not damaged or goes to its end.
LEMMA NothingStored ==
  ASSUME TypeInv, Undamaged, NEW u \in Uploaders, NEW q,
         uploader' = [uploader EXCEPT ![u] = q],
         UNCHANGED <<mode, key, acked>>,
         mode.checksums /\ q.pc \in {"create", "part", "complete"} => q.intact
  PROVE  Undamaged'
<1>1. \A w \in Uploaders : uploader'[w] = IF w = u THEN q ELSE uploader[w]
  BY DEF TypeInv
<1> QED
  BY <1>1 DEF Undamaged, StoredStaysIntact

LEMMA UndamagedStep ==
  ASSUME IInv, Undamaged, NEW u \in Uploaders, Begin(u) \/ Step(u) \/ Crash(u)
  PROVE  Undamaged'
<1> DEFINE r == uploader[u]
<1>0. TypeInv /\ r \in State /\ length \in Nat
  BY DEF IInv, TypeInv
<1>1. CASE Begin(u)
  <2>1. PICK source :
          Become(u, IF ExpectedParts(length) > MaxParts THEN Ended("refused")
                    ELSE [Ended("none") EXCEPT !.pc = "create", !.left = source,
                                               !.excuse = (source # length)])
    BY <1>1 DEF Begin
  <2> DEFINE q == IF ExpectedParts(length) > MaxParts THEN Ended("refused")
                  ELSE [Ended("none") EXCEPT !.pc = "create", !.left = source,
                                             !.excuse = (source # length)]
  <2>2. q.intact
    BY DEF Ended
  <2>3. uploader' = [uploader EXCEPT ![u] = q] /\ UNCHANGED <<mode, key, acked>>
    BY <1>1, <2>1 DEF Begin, Become
  <2> HIDE DEF q
  <2> QED
    BY <1>0, <2>2, <2>3, NothingStored
<1>2. CASE CreateSession(u)
  <2>1. PICK q : /\ Become(u, q)
                 /\ q = r \/ q = [r EXCEPT !.pc = "part", !.session = next, !.number = 1]
    BY <1>2 DEF CreateSession
  <2>2. q.intact = r.intact
    BY <1>0, <2>1 DEF State
  <2>3. mode.checksums => r.intact
    BY <1>2 DEF Undamaged, CreateSession, At
  <2>4. uploader' = [uploader EXCEPT ![u] = q] /\ UNCHANGED <<mode, key, acked>>
    BY <1>2, <2>1 DEF CreateSession, Become
  <2> QED
    BY <1>0, <2>2, <2>3, <2>4, NothingStored
<1>3. CASE UploadPart(u)
  <2>1. PICK got \in 0..Available(r), damaged \in BOOLEAN :
          Become(u, [Sent(r, got, damaged) EXCEPT !.pc =
            AfterPart(Sent(r, got, damaged), got > 0 /\ (damaged => ~mode.checksums))])
    BY <1>3 DEF UploadPart
  <2> DEFINE stored == got > 0 /\ (damaged => ~mode.checksums)
             sent == Sent(r, got, damaged)
             pc == AfterPart(sent, stored)
             q == [sent EXCEPT !.pc = pc]
  <2>2. mode.checksums => r.intact
    BY <1>3 DEF Undamaged, UploadPart, At
  <2>3. ~stored => pc = "abort"
    <3> HIDE DEF sent
    <3> QED
      BY DEF AfterPart
  <2>4. q.pc = pc /\ q.intact = (r.intact /\ ~damaged)
    <3> HIDE DEF pc
    <3> QED
      BY <1>0 DEF State, Sent
  <2>5. uploader' = [uploader EXCEPT ![u] = q] /\ UNCHANGED <<mode, key, acked>>
    BY <1>3, <2>1 DEF UploadPart, Become
  <2> HIDE DEF pc, sent, q
  <2>6. mode.checksums /\ q.pc \in {"create", "part", "complete"} => q.intact
    BY <2>2, <2>3, <2>4
  <2> QED
    BY <1>0, <2>5, <2>6, NothingStored
<1>4. CASE Complete(u)
  <2>1. /\ key' = (IF mode.versioned THEN key ELSE {}) \cup {Version(r)}
        /\ UNCHANGED <<mode, acked>> /\ r.pc = "complete"
    BY <1>4 DEF Complete, At
  <2>2. PICK q : Become(u, q) /\ q.pc \in {"abort", "verify"}
    <3>1. \A v : /\ [r EXCEPT !.pc = "abort", !.excuse = TRUE].pc = "abort"
                 /\ [r EXCEPT !.pc = "verify", !.ver = v].pc = "verify"
      BY <1>0 DEF State
    <3> QED
      BY <1>4, <3>1 DEF Complete
  <2>3. \A w \in Uploaders : uploader'[w] = IF w = u THEN q ELSE uploader[w]
    BY <1>0, <2>2 DEF Become, TypeInv
  <2>4. /\ mode.checksums => Version(r).intact
        /\ ~mode.versioned => Version(r).ver = 0
    BY <2>1 DEF Undamaged, Version
  <2>5. StoredStaysIntact'
    <3>1. CASE mode.versioned
      BY <2>1, <3>1 DEF Undamaged, StoredStaysIntact
    <3>2. CASE ~mode.versioned
      <4>1. mode.checksums => \A n \in acked : n = 0
        BY <3>2 DEF Undamaged, StoredStaysIntact
      <4>2. Version(r) \in key'
        BY <2>1
      <4> QED
        BY <2>1, <2>4, <3>2, <4>1, <4>2 DEF StoredStaysIntact
    <3> QED
      BY <3>1, <3>2
  <2>6. /\ mode.checksums => \A v \in key' : v.intact
        /\ ~mode.versioned => \A v \in key' : v.ver = 0
    BY <2>1, <2>4 DEF Undamaged
  <2>7. mode.checksums => \A w \in Uploaders :
          uploader'[w].pc \in {"create", "part", "complete"} => uploader'[w].intact
    BY <2>2, <2>3 DEF Undamaged
  <2> QED
    BY <2>1, <2>5, <2>6, <2>7 DEF Undamaged
<1>5. CASE RequestFails(u)
  <2>1. [r EXCEPT !.pc = "abort", !.excuse = TRUE].pc = "abort"
    BY <1>0 DEF State
  <2>2. PICK q : q.pc = "abort" /\ uploader' = [uploader EXCEPT ![u] = q]
    BY <1>5, <2>1 DEF RequestFails, Become, Guarded
  <2>3. UNCHANGED <<mode, key, acked>>
    BY <1>5 DEF RequestFails
  <2> QED
    BY <1>0, <2>2, <2>3, NothingStored
<1>6. CASE Abort(u) \/ Crash(u)
  <2>1. PICK q : q.pc = "idle" /\ uploader' = [uploader EXCEPT ![u] = q]
    <3>1. r.excuse \in BOOLEAN
      BY <1>0 DEF State
    <3> QED
      BY <1>6, <3>1, EndedType DEF Abort, Crash, Become
  <2>2. UNCHANGED <<mode, key, acked>>
    BY <1>6 DEF Abort, Crash
  <2> QED
    BY <1>0, <2>1, <2>2, NothingStored
<1>7. CASE Verify(u)
  <2>1. PICK v \in key :
          /\ acked' = IF Accepted(v) THEN acked \cup {v.ver} ELSE acked
          /\ Become(u, [Ended(IF Accepted(v) THEN "stored" ELSE "failed")
                          EXCEPT !.excuse = r.excuse \/ ~v.intact])
    BY <1>7 DEF Verify
  <2>2. PICK q : q.pc = "idle" /\ uploader' = [uploader EXCEPT ![u] = q]
    <3>1. (r.excuse \/ ~v.intact) \in BOOLEAN
      OBVIOUS
    <3> QED
      BY <2>1, <3>1, EndedType DEF Become
  <2>3. UNCHANGED <<mode, key>>
    BY <1>7 DEF Verify
  <2>4. \A w \in Uploaders : uploader'[w] = IF w = u THEN q ELSE uploader[w]
    BY <1>0, <2>2 DEF TypeInv
  <2>5. StoredStaysIntact'
    BY <2>1, <2>3 DEF StoredStaysIntact, Undamaged, Accepted
  <2> QED
    BY <2>2, <2>3, <2>4, <2>5 DEF Undamaged
<1> QED
  BY <1>1, <1>2, <1>3, <1>4, <1>5, <1>6, <1>7 DEF Step

\* put_file reports a payload stored only if it is, and no other upload of the key
\* takes it away: in a versioned bucket that is read back, or with checksums.
THEOREM StoredIsKept == Spec => []StoredStaysIntact
<1>1. Init => Undamaged
  BY DEF Init, Undamaged, StoredStaysIntact, Ended
<1>2. IInv /\ Undamaged /\ [Next]_vars => Undamaged'
  <2>1. UNCHANGED vars /\ Undamaged => Undamaged'
    BY DEF vars, Undamaged, StoredStaysIntact
  <2> QED
    BY <2>1, UndamagedStep DEF Next, Finished
<1>3. Undamaged => StoredStaysIntact
  BY DEF Undamaged
<1> QED
  BY <1>1, <1>2, <1>3, IInvHolds, PTL DEF Spec
-----------------------------------------------------------------------------
(* The part arithmetic. *)

\* Fewer parts than the expected number are too few, the expected number suffices.
LEMMA PartsCover ==
  ASSUME NEW P \in Nat \ {0}, NEW l \in Nat \ {0}, NEW E, E = (l + P - 1) \div P
  PROVE  E \in Nat \ {0} /\ (E - 1) * P < l /\ l <= E * P
<1>1. E \in Nat /\ E * P <= l + P - 1 /\ l + P - 1 < (E + 1) * P
  OBVIOUS
<1>2. (E + 1) * P = E * P + P /\ (E - 1) * P = E * P - P
  BY <1>1
<1>3. E * P \in Int
  BY <1>1
<1>4. E # 0
  BY <1>1, <1>2
<1> QED
  BY <1>1, <1>2, <1>3, <1>4

\* A part before the last one is a whole part.
LEMMA FullPart ==
  ASSUME NEW P \in Nat \ {0}, NEW l \in Nat, NEW E \in Nat, (E - 1) * P < l,
         NEW n \in Nat, n < E
  PROVE  n * P < l /\ n * P \in Nat /\ (n + 1) * P = n * P + P
<1>1. PICK k \in Nat : E - 1 = n + k
  <2>1. E - 1 - n \in Nat /\ E - 1 = n + (E - 1 - n)
    OBVIOUS
  <2> QED
    BY <2>1
<1>2. (n + k) * P = n * P + k * P /\ n * P \in Nat /\ k * P \in Nat
  OBVIOUS
<1>3. (n + 1) * P = n * P + P
  OBVIOUS
<1>4. (E - 1) * P = (n + k) * P
  BY <1>1
<1>5. (E - 1) * P \in Int
  BY <1>2, <1>4
<1> QED
  BY <1>2, <1>3, <1>4, <1>5

\* Without an excuse the loop is where the part numbers say it is: every part sent
\* so far was whole, and what the source still holds is what is still expected.
OnTrack(r) ==
  /\ r.pc = "create" => r.consumed = 0 /\ r.left = length
  /\ r.pc = "part" => /\ r.number \in 1..ExpectedParts(length)
                      /\ r.consumed = (r.number - 1) * PartSize
                      /\ r.left = length - r.consumed
  /\ r.pc # "abort" /\ r.outcome # "failed"
Caused == \A u \in Uploaders : uploader[u].excuse \/ OnTrack(uploader[u])

\* A step of one upload leaves the others on their track.
LEMMA OneCaused ==
  ASSUME TypeInv, Caused, NEW u \in Uploaders, NEW q,
         uploader' = [uploader EXCEPT ![u] = q], length' = length,
         q.excuse \/ OnTrack(q)
  PROVE  Caused'
<1>1. \A w \in Uploaders : uploader'[w] = IF w = u THEN q ELSE uploader[w]
  BY DEF TypeInv
<1>2. ASSUME NEW w \in Uploaders PROVE (uploader[w].excuse \/ OnTrack(uploader[w]))'
  <2>1. CASE w = u
    <3>1. uploader'[w] = q
      BY <1>1, <2>1
    <3> QED
      BY <3>1 DEF OnTrack, ExpectedParts
  <2>2. CASE w # u
    <3>1. uploader'[w] = uploader[w]
      BY <1>1, <2>2
    <3> QED
      BY <3>1 DEF Caused, OnTrack, ExpectedParts
  <2> QED
    BY <2>1, <2>2
<1> QED
  BY <1>2 DEF Caused

\* The expected number of parts is at least one and covers the length.
LEMMA Expected ==
  ASSUME TypeInv
  PROVE  /\ ExpectedParts(length) \in Nat \ {0}
         /\ (ExpectedParts(length) - 1) * PartSize < length
         /\ length <= ExpectedParts(length) * PartSize
BY SizesAssumption, PartsCover DEF TypeInv, ExpectedParts

\* One turn of the loop of upload_multipart: on a source of the declared length
\* it reads a whole part, or the whole rest with the last number.
LEMMA PartOnTrack ==
  ASSUME TypeInv, NEW r \in State, r.pc = "part", OnTrack(r),
         NEW got \in 0..Available(r), NEW damaged \in BOOLEAN,
         got = 0 => Available(r) = 0 /\ ~damaged,
         ~Sent(r, got, damaged).excuse
  PROVE  LET sent == Sent(r, got, damaged)
         IN OnTrack([sent EXCEPT !.pc = AfterPart(sent, got > 0 /\ (damaged => ~mode.checksums))])
<1> DEFINE P == PartSize
           l == length
           E == ExpectedParts(length)
           n == r.number
           sent == Sent(r, got, damaged)
<1>1. P \in Nat \ {0} /\ l \in Nat \ {0} /\ E \in Nat \ {0} /\ (E - 1) * P < l /\ l <= E * P
  BY SizesAssumption, Expected DEF TypeInv
<1>2. /\ n \in Nat /\ 1 <= n /\ n <= E /\ r.consumed = (n - 1) * P
      /\ r.left = l - r.consumed /\ r.consumed \in Nat /\ r.left \in Nat /\ r.outcome # "failed"
  BY <1>1 DEF OnTrack, State
<1>3. /\ sent.consumed = r.consumed + got /\ sent.left = r.left - got
      /\ sent.number = n + 1 /\ sent.outcome = r.outcome
      /\ sent.excuse = (r.excuse \/ damaged \/ got < Available(r))
  BY DEF Sent, State
<1>4. ~damaged /\ ~(got < Available(r))
  BY <1>3
<1>5. Available(r) = IF P <= r.left THEN P ELSE r.left
  <2> HIDE DEF n, E
  <2> QED
    BY <1>1, <1>2 DEF Available, Lesser
<1>6. got = IF P <= r.left THEN P ELSE r.left
  <2>1. got \in Int /\ got <= Available(r) /\ Available(r) \in Nat
    BY <1>1, <1>2, <1>5
  <2> QED
    BY <1>4, <1>5, <2>1
<1>7. n - 1 \in Nat /\ n - 1 < E /\ (n - 1) + 1 = n
  BY <1>1, <1>2
<1>8. (n - 1) * P < l /\ n * P = (n - 1) * P + P
  <2> HIDE DEF P, l, E, n
  <2>1. /\ (n - 1) * P < l /\ ((n - 1) + 1) * P = (n - 1) * P + P
    BY <1>1, <1>7, FullPart
  <2> QED
    BY <2>1, <1>7
<1>9. got > 0
  BY <1>1, <1>2, <1>6, <1>8
<1>10. CASE n < E
  <2>1. n * P < l
    <3> HIDE DEF P, l, E, n
    <3> QED
      BY <1>1, <1>2, <1>10, FullPart
  <2>2. got = P /\ sent.consumed = n * P
    <3> HIDE DEF P, l, E, n, sent
    <3>1. n * P \in Int
      BY <1>1, <1>2
    <3> QED
      BY <1>1, <1>2, <1>3, <1>6, <1>8, <2>1, <3>1
  <2>3. sent.number <= E /\ sent.left = l - sent.consumed
    <3> HIDE DEF P, l, E, n, sent
    <3> QED
      BY <1>1, <1>2, <1>3, <1>6, <1>10
  <2>4. AfterPart(sent, got > 0 /\ (damaged => ~mode.checksums)) = "part"
    <3> HIDE DEF sent
    <3> QED
      BY <1>4, <1>9, <2>3 DEF AfterPart
  <2>5. sent.number \in 1..E /\ sent.consumed = (sent.number - 1) * P
    <3>1. sent.number - 1 = n
      BY <1>2, <1>3
    <3> HIDE DEF P, E, n, sent
    <3> QED
      BY <1>1, <1>2, <1>3, <2>2, <2>3, <3>1
  <2>6. LET q == [sent EXCEPT !.pc = "part"]
        IN /\ q.pc = "part" /\ q.number = sent.number /\ q.consumed = sent.consumed
           /\ q.left = sent.left /\ q.outcome = sent.outcome
    BY DEF Sent, State
  <2>7. OnTrack([sent EXCEPT !.pc = "part"])
    <3> HIDE DEF sent
    <3> QED
      BY <1>2, <1>3, <2>3, <2>5, <2>6 DEF OnTrack
  <2> QED
    BY <2>4, <2>7
<1>11. CASE n = E
  <2>1. sent.consumed = l /\ sent.left = 0
    <3> HIDE DEF P, l, E, n, sent
    <3>1. n * P \in Int /\ l <= n * P
      BY <1>1, <1>2, <1>11
    <3> QED
      BY <1>1, <1>2, <1>3, <1>6, <1>8, <3>1
  <2>2. ~(sent.number <= E)
    <3> HIDE DEF E, n, sent
    <3> QED
      BY <1>1, <1>2, <1>3, <1>11
  <2>3. AfterPart(sent, got > 0 /\ (damaged => ~mode.checksums)) = "complete"
    <3> HIDE DEF sent
    <3> QED
      BY <1>4, <1>9, <2>1, <2>2 DEF AfterPart, Whole
  <2>4. LET q == [sent EXCEPT !.pc = "complete"]
        IN q.pc = "complete" /\ q.outcome = sent.outcome
    BY DEF Sent, State
  <2>5. OnTrack([sent EXCEPT !.pc = "complete"])
    <3> HIDE DEF sent
    <3> QED
      BY <1>2, <1>3, <2>4 DEF OnTrack
  <2> QED
    BY <2>3, <2>5
<1> QED
  BY <1>1, <1>2, <1>10, <1>11

LEMMA CausedStep ==
  ASSUME IInv, Caused, NEW u \in Uploaders, Begin(u) \/ Step(u) \/ Crash(u)
  PROVE  Caused'
<1> DEFINE r == uploader[u]
<1>0. TypeInv /\ r \in State /\ length \in Nat \ {0} /\ (r.excuse \/ OnTrack(r))
  BY DEF IInv, TypeInv, Caused
<1>1. CASE Begin(u)
  <2>1. PICK source \in {length - 1, length, length + 1} :
          Become(u, IF ExpectedParts(length) > MaxParts THEN Ended("refused")
                    ELSE [Ended("none") EXCEPT !.pc = "create", !.left = source,
                                               !.excuse = (source # length)])
    BY <1>1 DEF Begin
  <2> DEFINE q == IF ExpectedParts(length) > MaxParts THEN Ended("refused")
                  ELSE [Ended("none") EXCEPT !.pc = "create", !.left = source,
                                             !.excuse = (source # length)]
  <2>2. q.excuse \/ OnTrack(q)
    <3>1. OnTrack(Ended("refused"))
      BY DEF Ended, OnTrack
    <3>2. LET s == [Ended("none") EXCEPT !.pc = "create", !.left = source,
                                         !.excuse = (source # length)]
          IN /\ s.pc = "create" /\ s.consumed = 0 /\ s.left = source
             /\ s.excuse = (source # length) /\ s.outcome = "none"
      BY DEF Ended
    <3> QED
      BY <3>1, <3>2 DEF OnTrack
  <2>3. uploader' = [uploader EXCEPT ![u] = q] /\ length' = length
    BY <1>1, <2>1 DEF Begin, Become
  <2> HIDE DEF q
  <2> QED
    BY <1>0, <2>2, <2>3, OneCaused
<1>2. CASE CreateSession(u)
  <2>1. PICK q : /\ Become(u, q)
                 /\ q = r \/ q = [r EXCEPT !.pc = "part", !.session = next, !.number = 1]
    BY <1>2 DEF CreateSession
  <2>2. q.excuse \/ OnTrack(q)
    <3>1. r.pc = "create"
      BY <1>2 DEF CreateSession, At
    <3>2. LET s == [r EXCEPT !.pc = "part", !.session = next, !.number = 1]
          IN /\ s.pc = "part" /\ s.number = 1 /\ s.consumed = r.consumed /\ s.left = r.left
             /\ s.outcome = r.outcome /\ s.excuse = r.excuse
      BY <1>0 DEF State
    <3>3. /\ 1 \in 1..ExpectedParts(length) /\ 0 = (1 - 1) * PartSize
          /\ length = length - 0
      BY <1>0, Expected, SizesAssumption
    <3> QED
      BY <1>0, <2>1, <3>1, <3>2, <3>3 DEF OnTrack
  <2>3. uploader' = [uploader EXCEPT ![u] = q] /\ length' = length
    BY <1>2, <2>1 DEF CreateSession, Become
  <2> QED
    BY <1>0, <2>2, <2>3, OneCaused
<1>3. CASE UploadPart(u)
  <2>1. PICK got \in 0..Available(r), damaged \in BOOLEAN :
          /\ got = 0 => Available(r) = 0 /\ ~damaged
          /\ Become(u, [Sent(r, got, damaged) EXCEPT !.pc =
               AfterPart(Sent(r, got, damaged), got > 0 /\ (damaged => ~mode.checksums))])
    BY <1>3 DEF UploadPart
  <2> DEFINE sent == Sent(r, got, damaged)
             pc == AfterPart(sent, got > 0 /\ (damaged => ~mode.checksums))
             q == [sent EXCEPT !.pc = pc]
  <2>2. r.pc = "part"
    BY <1>3 DEF UploadPart, At
  <2>3. sent.excuse = (r.excuse \/ damaged \/ got < Available(r))
    BY <1>0 DEF Sent, State
  <2>4. q.excuse = sent.excuse
    <3> HIDE DEF pc
    <3> QED
      BY <1>0 DEF Sent, State
  <2>5. ~sent.excuse => OnTrack(q)
    <3>1. ~sent.excuse => OnTrack(r)
      BY <1>0, <2>3
    <3> QED
      BY <1>0, <2>1, <2>2, <3>1, PartOnTrack
  <2>6. uploader' = [uploader EXCEPT ![u] = q] /\ length' = length
    BY <1>3, <2>1 DEF UploadPart, Become
  <2> HIDE DEF sent, pc, q
  <2> QED
    BY <1>0, <2>4, <2>5, <2>6, OneCaused
<1>4. CASE Complete(u)
  <2>1. r.pc = "complete"
    BY <1>4 DEF Complete, At
  <2>2. /\ [r EXCEPT !.pc = "abort", !.excuse = TRUE].excuse
        /\ \A v : LET s == [r EXCEPT !.pc = "verify", !.ver = v]
                  IN s.pc = "verify" /\ s.excuse = r.excuse /\ s.outcome = r.outcome
    BY <1>0 DEF State
  <2>3. PICK q : /\ Become(u, q)
                 /\ \/ q = [r EXCEPT !.pc = "abort", !.excuse = TRUE]
                    \/ q = [r EXCEPT !.pc = "verify", !.ver = Version(r).ver]
    BY <1>4 DEF Complete
  <2>4. q.excuse \/ OnTrack(q)
    <3>1. CASE q = [r EXCEPT !.pc = "abort", !.excuse = TRUE]
      BY <2>2, <3>1
    <3>2. CASE q = [r EXCEPT !.pc = "verify", !.ver = Version(r).ver]
      <4>1. q.pc = "verify" /\ q.excuse = r.excuse /\ q.outcome = r.outcome
        BY <2>2, <3>2
      <4> QED
        BY <1>0, <4>1 DEF OnTrack
    <3> QED
      BY <2>3, <3>1, <3>2
  <2>5. uploader' = [uploader EXCEPT ![u] = q] /\ length' = length
    BY <1>4, <2>3 DEF Complete, Become
  <2> QED
    BY <1>0, <2>4, <2>5, OneCaused
<1>5. CASE RequestFails(u)
  <2>1. [r EXCEPT !.pc = "abort", !.excuse = TRUE].excuse
    BY <1>0 DEF State
  <2>2. PICK q : q.excuse /\ uploader' = [uploader EXCEPT ![u] = q]
    BY <1>5, <2>1 DEF RequestFails, Become, Guarded
  <2>3. length' = length
    BY <1>5 DEF RequestFails
  <2> QED
    BY <1>0, <2>2, <2>3, OneCaused
<1>6. CASE Abort(u)
  <2>1. r.pc = "abort" /\ r.excuse
    BY <1>0, <1>6 DEF Abort, At, OnTrack
  <2>2. [Ended("failed") EXCEPT !.excuse = r.excuse].excuse
    BY <2>1 DEF Ended
  <2>3. PICK q : q.excuse /\ uploader' = [uploader EXCEPT ![u] = q]
    BY <1>6, <2>2 DEF Abort, Become
  <2>4. length' = length
    BY <1>6 DEF Abort
  <2> QED
    BY <1>0, <2>3, <2>4, OneCaused
<1>7. CASE Verify(u)
  <2>1. PICK v \in key :
          Become(u, [Ended(IF Accepted(v) THEN "stored" ELSE "failed")
                       EXCEPT !.excuse = r.excuse \/ ~v.intact])
    BY <1>7 DEF Verify
  <2> DEFINE q == [Ended(IF Accepted(v) THEN "stored" ELSE "failed")
                     EXCEPT !.excuse = r.excuse \/ ~v.intact]
  <2>2. ~v.intact \/ Accepted(v)
    BY DEF IInv, OnlyWhole, Accepted
  <2>3. /\ q.excuse = (r.excuse \/ ~v.intact) /\ q.pc = "idle"
        /\ q.outcome = IF Accepted(v) THEN "stored" ELSE "failed"
    BY DEF Ended
  <2>4. uploader' = [uploader EXCEPT ![u] = q] /\ length' = length
    BY <1>7, <2>1 DEF Verify, Become
  <2> HIDE DEF q
  <2>5. q.excuse \/ OnTrack(q)
    BY <2>2, <2>3 DEF OnTrack
  <2> QED
    BY <1>0, <2>4, <2>5, OneCaused
<1>8. CASE Crash(u)
  <2>1. [Ended("failed") EXCEPT !.excuse = TRUE].excuse
    BY DEF Ended
  <2>2. PICK q : q.excuse /\ uploader' = [uploader EXCEPT ![u] = q]
    BY <1>8, <2>1 DEF Crash, Become
  <2>3. length' = length
    BY <1>8 DEF Crash
  <2> QED
    BY <1>0, <2>2, <2>3, OneCaused
<1> QED
  BY <1>1, <1>2, <1>3, <1>4, <1>5, <1>6, <1>7, <1>8 DEF Step

\* upload_multipart never runs out of source or of part numbers by its own
\* arithmetic: an upload of a source of the declared length fails only because a
\* request, a byte, the source or the process did.
THEOREM FailuresHaveCauses == Spec => []FailsForCause
<1>1. Init => Caused
  <2>1. OnTrack(Ended("none"))
    BY DEF OnTrack, Ended
  <2>2. Init => \A u \in Uploaders : uploader[u] = Ended("none")
    BY DEF Init
  <2> QED
    BY <2>1, <2>2 DEF Caused
<1>2. IInv /\ Caused /\ [Next]_vars => Caused'
  <2>1. UNCHANGED vars /\ Caused => Caused'
    BY DEF vars, Caused, OnTrack, ExpectedParts
  <2> QED
    BY <2>1, CausedStep DEF Next, Finished
<1>3. Caused => FailsForCause
  BY DEF Caused, OnTrack, FailsForCause
<1> QED
  BY <1>1, <1>2, <1>3, IInvHolds, PTL DEF Spec
=============================================================================
