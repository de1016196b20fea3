-------------------------- MODULE S3ObjectsProofs --------------------------
(* Proofs about S3Objects, for every value of its constants. *)
EXTENDS S3Objects, TLAPS

-----------------------------------------------------------------------------
(* Types. *)

(* TypeOK is not inductive: a put between two requests has an input, and an  *)
(* operation that follows a pointer holds the digest it read there.           *)
GoodWriter == {r \in WriterState : /\ r.pc # "idle" => r.req \in PutRequests
                                   /\ r.pc = "resolve" => r.ptr \in Digests}
GoodDeleter == {r \in DeleterState : /\ r.pc # "idle" => r.digest \in Digests
                                     /\ r.pc = "resolve" => r.ptr \in Digests
                                     /\ r.pc = "restore" => r.previous \in Digests}
TypeInv == /\ TypeOK
           /\ writer \in [Writers -> GoodWriter]
           /\ deleter \in [Deleters -> GoodDeleter]

\* The local state a put has between two operations.
LEMMA EndedType ==
  \A o \in {"none", "committed", "failed", "lost"} : Ended(o) \in GoodWriter
BY DEF GoodWriter, Ended, Mutabilities, WriterState, WriterPcs, Sites

\* The local state a delete has between two operations.
LEMMA DeletedType ==
  \A o \in {"none", "deleted", "failed", "conflict"} : Deleted(o) \in GoodDeleter
BY DEF GoodDeleter, Deleted, DeleterState, DeleterPcs

\* Finding no latest object moves a put on to a legal local state.
LEMMA NoLatestType ==
  ASSUME NEW r \in GoodWriter, r.pc # "idle" PROVE NoLatest(r) \in GoodWriter
BY DEF GoodWriter, WriterState, NoLatest, WriterPcs, Sites

\* What a write leaves of a key has the type of its versions.
LEMMA StoreType ==
  ASSUME NEW T, NEW S \in SUBSET T, NEW v \in T PROVE Store(S, v) \in SUBSET T
BY DEF Store

\* A put's digest, pointer and request fields are of the types declared.
LEMMA RequestType ==
  \A q \in PutRequests : /\ q.digest \in Digests /\ q.retention \in Retentions
                         /\ q.createOnly \in BOOLEAN
BY RequestsAssumption DEF Requests

\* The initial state of the bucket and of every caller is well-typed.
LEMMA InitTypeInv == Init => TypeInv
<1> SUFFICES ASSUME Init PROVE TypeInv
  OBVIOUS
<1>1. writer \in [Writers -> GoodWriter]
  BY EndedType DEF Init
<1>2. deleter \in [Deleters -> GoodDeleter]
  BY DeletedType DEF Init
<1>3. profile \in Mutabilities \cup {"none"}
  BY ProfilesAssumption DEF Init
<1>4. writer \in [Writers -> WriterState] /\ deleter \in [Deleters -> DeleterState]
  BY <1>1, <1>2 DEF GoodWriter, GoodDeleter
<1> QED
  BY <1>1, <1>2, <1>3, <1>4 DEF Init, TypeOK, TypeInv

\* Every step of a put keeps the types: the local state it leaves is legal, and
\* what it writes to the bucket has the type of its key.
LEMMA PutTypeInv ==
  ASSUME TypeInv, NEW w \in Writers,
         StartPut(w) \/ PutStep(w) \/ InterruptPut(w)
  PROVE  TypeInv'
<1> DEFINE r == writer[w]
<1>w. r \in GoodWriter /\ r \in WriterState
  BY DEF TypeInv, TypeOK
<1>b. ASSUME NEW s \in GoodWriter, Become(w, s)
      PROVE  writer' \in [Writers -> GoodWriter] /\ writer' \in [Writers -> WriterState]
  BY <1>b DEF Become, TypeInv, GoodWriter
<1>s. Stamp \in Nat
  BY DEF Stamp, TypeOK, TypeInv
<1>q. r.pc # "idle" => r.req \in PutRequests /\ r.req.digest \in Digests
  BY <1>w, RequestType DEF GoodWriter
<1>o. ops \in Nat
  BY DEF TypeInv, TypeOK
<1>1. CASE StartPut(w)
  <2>1. PICK q \in PutRequests :
          Become(w, [Ended("none") EXCEPT !.pc = "pointer", !.req = q,
                       !.mutability = EffectiveMutability(profile, q)])
    BY <1>1 DEF StartPut
  <2>2. EffectiveMutability(profile, q) \in Mutabilities
    BY DEF EffectiveMutability, Mutabilities
  <2>3. [Ended("none") EXCEPT !.pc = "pointer", !.req = q,
           !.mutability = EffectiveMutability(profile, q)] \in GoodWriter
    BY <2>2, EndedType DEF GoodWriter, WriterState, WriterPcs
  <2>4. writer' \in [Writers -> GoodWriter] /\ writer' \in [Writers -> WriterState]
    BY <2>1, <2>3, <1>b
  <2>5. ops' \in Nat
    <3>1. ops' = ops + 1
      BY <1>1, Zenon DEF StartPut
    <3> QED
      BY <3>1, <1>o
  <2>6. UNCHANGED <<bucket, outside, clock, deleter, faults, history>>
    BY <1>1 DEF StartPut
  <2> QED
    BY <2>4, <2>5, <2>6 DEF TypeInv, TypeOK, bucket, outside, history
<1>2. CASE ReadPointer(w)
  <2>1. CASE latest = {} /\ Become(w, NoLatest(r))
    <3>1. NoLatest(r) \in GoodWriter
      BY <1>2, <1>w, NoLatestType DEF ReadPointer, WriterAt
    <3> QED
      BY <3>1, <2>1, <1>2, <1>b
         DEF ReadPointer, PutOnly, TypeInv, TypeOK, bucket, outside, history
  <2>2. ASSUME NEW p \in latest, Become(w, [r EXCEPT !.pc = "resolve", !.ptr = p.digest])
        PROVE  TypeInv'
    <3>1. p.digest \in Digests
      BY DEF TypeInv, TypeOK, Pointer
    <3>2. [r EXCEPT !.pc = "resolve", !.ptr = p.digest] \in GoodWriter
      BY <3>1, <1>w, <1>q, <1>2
         DEF ReadPointer, WriterAt, GoodWriter, WriterState, WriterPcs
    <3> QED
      BY <3>2, <2>2, <1>2, <1>b
         DEF ReadPointer, PutOnly, TypeInv, TypeOK, bucket, outside, history
  <2> QED
    BY <2>1, <2>2, <1>2 DEF ReadPointer
<1>3. CASE ResolveNothing(w) \/ ResolveProceed(w)
  <2>1. NoLatest(r) \in GoodWriter
    BY <1>3, <1>w, NoLatestType DEF ResolveNothing, ResolveProceed, WriterAt
  <2> QED
    BY <2>1, <1>3, <1>b
       DEF ResolveNothing, ResolveProceed, PutOnly, TypeInv, TypeOK, bucket, outside, history
<1>4. CASE ResolveDecided(w)
  <2>1. writer' \in [Writers -> GoodWriter] /\ writer' \in [Writers -> WriterState]
    BY <1>4, <1>b, EndedType DEF ResolveDecided
  <2>2. r.ptr \in Digests
    BY <1>4, <1>w DEF ResolveDecided, WriterAt, GoodWriter
  <2>3. committed' \in SUBSET Digests
    BY <2>2, <1>4 DEF ResolveDecided, TypeInv, TypeOK
  <2> QED
    BY <2>1, <2>3, <1>4 DEF ResolveDecided, TypeInv, TypeOK, bucket, outside
<1>6. CASE ResolveWinner(w)
  <2>1. [r EXCEPT !.pc = "orphan", !.ptr = NoDigest] \in GoodWriter
    BY <1>w, <1>q, <1>6 DEF ResolveWinner, WriterAt, GoodWriter, WriterState, WriterPcs
  <2>2. writer' \in [Writers -> GoodWriter] /\ writer' \in [Writers -> WriterState]
    BY <2>1, <1>6, <1>b, EndedType DEF ResolveWinner
  <2> QED
    BY <2>2, <1>6 DEF ResolveWinner, PutOnly, TypeInv, TypeOK, bucket, outside, history
<1>7. CASE PutBlob(w)
  <2>1. [r EXCEPT !.pc = "verify", !.blobVer = Stamp] \in GoodWriter
    BY <1>w, <1>q, <1>s, <1>7 DEF PutBlob, WriterAt, GoodWriter, WriterState, WriterPcs
  <2>2. writer' \in [Writers -> GoodWriter] /\ writer' \in [Writers -> WriterState]
    BY <2>1, <1>7, <1>b, EndedType DEF PutBlob
  <2>3. r.req.digest \in Digests
    BY <1>q, <1>7 DEF PutBlob, WriterAt
  <2>4. blob' \in [Digests -> SUBSET Nat]
    BY <2>3, <1>7, <1>s DEF PutBlob, Store, TypeInv, TypeOK
  <2>5. clock' \in Nat /\ faults' \in Nat
    BY <1>7 DEF PutBlob, Answered, TypeInv, TypeOK
  <2> QED
    BY <2>2, <2>4, <2>5, <1>7 DEF PutBlob, TypeInv, TypeOK, outside, history
<1>8. CASE VerifyBlob(w)
  <2>1. [r EXCEPT !.pc = "envelope", !.created = clock] \in GoodWriter
    BY <1>w, <1>q, <1>8
       DEF VerifyBlob, WriterAt, TypeInv, TypeOK, GoodWriter, WriterState, WriterPcs
  <2>2. writer' \in [Writers -> GoodWriter] /\ writer' \in [Writers -> WriterState]
    BY <2>1, <1>8, <1>b, EndedType DEF VerifyBlob
  <2> QED
    BY <2>2, <1>8 DEF VerifyBlob, TypeInv, TypeOK, bucket, outside, history
<1>9. CASE PutEnvelope(w)
  <2>1. [r EXCEPT !.pc = "latest"] \in GoodWriter
    BY <1>w, <1>q, <1>9 DEF PutEnvelope, WriterAt, GoodWriter, WriterState, WriterPcs
  <2>2. writer' \in [Writers -> GoodWriter] /\ writer' \in [Writers -> WriterState]
    BY <2>1, <1>9, <1>b, EndedType DEF PutEnvelope
  <2>3. r.req \in PutRequests /\ r.req.digest \in Digests
    BY <1>q, <1>9 DEF PutEnvelope, WriterAt
  <2>4. EnvelopeOf(r) \in Envelope
    BY <2>3, <1>w, <1>s, RequestType DEF EnvelopeOf, Envelope, WriterState
  <2>5. ref' \in [Digests -> SUBSET Envelope]
    BY <2>3, <2>4, <1>9 DEF PutEnvelope, Store, TypeInv, TypeOK
  <2>6. clock' \in Nat /\ faults' \in Nat
    BY <1>9 DEF PutEnvelope, Answered, TypeInv, TypeOK
  <2> QED
    BY <2>2, <2>5, <2>6, <1>9 DEF PutEnvelope, TypeInv, TypeOK, outside, history
<1>10. CASE PutLatest(w)
  <2>1. [r EXCEPT !.pc = "pointer", !.site = "winner"] \in GoodWriter
    BY <1>w, <1>q, <1>10 DEF PutLatest, WriterAt, GoodWriter, WriterState, WriterPcs, Sites
  <2>2. writer' \in [Writers -> GoodWriter] /\ writer' \in [Writers -> WriterState]
    BY <2>1, <1>10, <1>b, EndedType DEF PutLatest
  <2>3. r.req.digest \in Digests
    BY <1>q, <1>10 DEF PutLatest, WriterAt
  <2>4. [ver |-> Stamp, digest |-> r.req.digest] \in Pointer
    BY <2>3, <1>s DEF Pointer
  <2>5. latest' \in SUBSET Pointer
    BY <2>4, <1>10 DEF PutLatest, Store, TypeInv, TypeOK
  <2>6. clock' \in Nat /\ faults' \in Nat /\ committed' \in SUBSET Digests
    BY <2>3, <1>10 DEF PutLatest, Answered, TypeInv, TypeOK, history
  <2> QED
    BY <2>2, <2>5, <2>6, <1>10 DEF PutLatest, TypeInv, TypeOK, outside
<1>11. CASE RecordOrphan(w)
  <2>1. r.req.digest \in Digests
    BY <1>q, <1>11 DEF RecordOrphan, WriterAt
  <2>2. orphans' \in SUBSET Digests
    BY <2>1, <1>11 DEF RecordOrphan, TypeInv, TypeOK
  <2>3. writer' \in [Writers -> GoodWriter] /\ writer' \in [Writers -> WriterState]
    BY <1>11, <1>b, EndedType DEF RecordOrphan
  <2> QED
    BY <2>2, <2>3, <1>11 DEF RecordOrphan, TypeInv, TypeOK, outside, history
<1>12. CASE InterruptPut(w)
  BY <1>12, <1>b, EndedType DEF InterruptPut, TypeInv, TypeOK, bucket, outside, history
<1> QED
  BY <1>1, <1>2, <1>3, <1>4, <1>6, <1>7, <1>8, <1>9, <1>10, <1>11, <1>12 DEF PutStep

\* Every step of a delete keeps the types.
LEMMA DeleteTypeInv ==
  ASSUME TypeInv, NEW x \in Deleters,
         StartDelete(x) \/ DeleteStep(x) \/ InterruptDelete(x)
  PROVE  TypeInv'
<1> DEFINE r == deleter[x]
<1>w. r \in GoodDeleter /\ r \in DeleterState
  BY DEF TypeInv, TypeOK
<1>b. ASSUME NEW s \in GoodDeleter, Advance(x, s)
      PROVE  deleter' \in [Deleters -> GoodDeleter] /\ deleter' \in [Deleters -> DeleterState]
  BY <1>b DEF Advance, TypeInv, GoodDeleter
<1>f. ASSUME Fail(x)
      PROVE  deleter' \in [Deleters -> GoodDeleter] /\ deleter' \in [Deleters -> DeleterState]
  BY <1>f, <1>b, DeletedType DEF Fail
<1>q. r.pc # "idle" => r.digest \in Digests
  BY <1>w DEF GoodDeleter
<1>o. ops \in Nat
  BY DEF TypeInv, TypeOK
<1>1. CASE StartDelete(x)
  <2>1. PICK d \in Digests :
          /\ Advance(x, [Deleted("none") EXCEPT !.pc = "target", !.digest = d])
          /\ committed' = committed \ {d}
    BY <1>1 DEF StartDelete
  <2>2. [Deleted("none") EXCEPT !.pc = "target", !.digest = d] \in GoodDeleter
    BY DeletedType DEF GoodDeleter, DeleterState, DeleterPcs
  <2>3. deleter' \in [Deleters -> GoodDeleter] /\ deleter' \in [Deleters -> DeleterState]
    BY <2>1, <2>2, <1>b
  <2>4. ops' \in Nat
    <3>1. ops' = ops + 1
      BY <1>1, Zenon DEF StartDelete
    <3> QED
      BY <3>1, <1>o
  <2>6. UNCHANGED <<bucket, outside, clock, writer, faults, interrupted>>
    BY <1>1 DEF StartDelete
  <2> QED
    BY <2>1, <2>3, <2>4, <2>6 DEF TypeInv, TypeOK, bucket, outside
<1>2. CASE ReadTarget(x)
  <2>1. ASSUME NEW e \in ref[r.digest],
               Advance(x, [r EXCEPT !.pc = "pointer", !.blobVer = e.blobVer])
        PROVE  deleter' \in [Deleters -> GoodDeleter] /\ deleter' \in [Deleters -> DeleterState]
    <3>0. r.digest \in Digests
      BY <1>q, <1>2 DEF ReadTarget, DeleterAt
    <3>1. e.blobVer \in Nat
      BY <3>0 DEF TypeInv, TypeOK, Envelope
    <3>2. [r EXCEPT !.pc = "pointer", !.blobVer = e.blobVer] \in GoodDeleter
      BY <3>0, <3>1, <1>w DEF GoodDeleter, DeleterState, DeleterPcs
    <3> QED
      BY <3>2, <2>1, <1>b
  <2>2. deleter' \in [Deleters -> GoodDeleter] /\ deleter' \in [Deleters -> DeleterState]
    BY <2>1, <1>f, <1>2 DEF ReadTarget
  <2> QED
    BY <2>2, <1>2 DEF ReadTarget, DeleteOnly, TypeInv, TypeOK, bucket, outside, history
<1>3. CASE ReadLatestPointer(x)
  <2>1. [r EXCEPT !.pc = "list"] \in GoodDeleter
    BY <1>w, <1>q, <1>3 DEF ReadLatestPointer, DeleterAt, GoodDeleter, DeleterState, DeleterPcs
  <2>2. ASSUME NEW p \in latest PROVE [r EXCEPT !.pc = "resolve", !.ptr = p.digest] \in GoodDeleter
    <3>1. p.digest \in Digests
      BY DEF TypeInv, TypeOK, Pointer
    <3> QED
      BY <3>1, <1>w, <1>q, <1>3
         DEF ReadLatestPointer, DeleterAt, GoodDeleter, DeleterState, DeleterPcs
  <2>3. deleter' \in [Deleters -> GoodDeleter] /\ deleter' \in [Deleters -> DeleterState]
    BY <2>1, <2>2, <1>b, <1>3 DEF ReadLatestPointer
  <2> QED
    BY <2>3, <1>3 DEF ReadLatestPointer, DeleteOnly, TypeInv, TypeOK, bucket, outside, history
<1>4. CASE ResolveLatest(x)
  <2>1. [r EXCEPT !.pc = "list", !.ptr = NoDigest,
                  !.wasLatest = (ref[r.ptr] # {} /\ r.ptr = r.digest)] \in GoodDeleter
    BY <1>w, <1>q, <1>4, ZenonT(40) DEF ResolveLatest, DeleterAt, GoodDeleter, DeleterState, DeleterPcs
  <2>2. deleter' \in [Deleters -> GoodDeleter] /\ deleter' \in [Deleters -> DeleterState]
    BY <2>1, <1>b, <1>4 DEF ResolveLatest
  <2> QED
    BY <2>2, <1>4 DEF ResolveLatest, DeleteOnly, TypeInv, TypeOK, bucket, outside, history
<1>5. CASE ListVersions(x)
  <2>1. [r EXCEPT !.pc = "scan", !.scan = {d \in Digests : ref[d] # {}}] \in GoodDeleter
    BY <1>w, <1>q, <1>5 DEF ListVersions, DeleterAt, GoodDeleter, DeleterState, DeleterPcs
  <2>2. deleter' \in [Deleters -> GoodDeleter] /\ deleter' \in [Deleters -> DeleterState]
    BY <2>1, <1>b, <1>5 DEF ListVersions
  <2> QED
    BY <2>2, <1>5 DEF ListVersions, DeleteOnly, TypeInv, TypeOK, bucket, outside, history
<1>6. CASE ScanVersion(x)
  <2>1. [r EXCEPT !.pc = "head"] \in GoodDeleter
    BY <1>w, <1>q, <1>6 DEF ScanVersion, DeleterAt, GoodDeleter, DeleterState, DeleterPcs
  <2>2. ASSUME NEW d \in r.scan, NEW e \in ref[d]
        PROVE  /\ [r EXCEPT !.scan = @ \ {d}] \in GoodDeleter
               /\ [r EXCEPT !.scan = @ \ {d}, !.previous = d, !.previousCreated = e.created]
                    \in GoodDeleter
    <3>1. d \in Digests /\ e.created \in Nat
      BY <1>w DEF DeleterState, TypeInv, TypeOK, Envelope
    <3> QED
      BY <3>1, <1>w DEF GoodDeleter, DeleterState
  <2>3. deleter' \in [Deleters -> GoodDeleter] /\ deleter' \in [Deleters -> DeleterState]
    BY <2>1, <2>2, <1>b, <1>f, <1>6 DEF ScanVersion
  <2> QED
    BY <2>3, <1>6 DEF ScanVersion, DeleteOnly, TypeInv, TypeOK, bucket, outside, history
<1>7. CASE HeadEnvelope(x)
  <2>1. ASSUME NEW e \in ref[r.digest] PROVE [r EXCEPT !.pc = "blob", !.headVer = e.ver] \in GoodDeleter
    <3>0. r.digest \in Digests
      BY <1>q, <1>7 DEF HeadEnvelope, DeleterAt
    <3>1. e.ver \in Nat
      BY <3>0 DEF TypeInv, TypeOK, Envelope
    <3> QED
      BY <3>0, <3>1, <1>w DEF GoodDeleter, DeleterState, DeleterPcs
  <2>2. deleter' \in [Deleters -> GoodDeleter] /\ deleter' \in [Deleters -> DeleterState]
    BY <2>1, <1>b, <1>f, <1>7 DEF HeadEnvelope
  <2> QED
    BY <2>2, <1>7 DEF HeadEnvelope, DeleteOnly, TypeInv, TypeOK, bucket, outside, history
<1>8. CASE DeleteBlob(x)
  <2>1. [r EXCEPT !.pc = "ref"] \in GoodDeleter
    BY <1>w, <1>q, <1>8 DEF DeleteBlob, DeleterAt, GoodDeleter, DeleterState, DeleterPcs
  <2>2. deleter' \in [Deleters -> GoodDeleter] /\ deleter' \in [Deleters -> DeleterState]
    BY <2>1, <1>b, <1>8 DEF DeleteBlob
  <2>3. blob' \in [Digests -> SUBSET Nat]
    BY <1>8 DEF DeleteBlob, TypeInv, TypeOK
  <2> QED
    BY <2>2, <2>3, <1>8 DEF DeleteBlob, TypeInv, TypeOK, outside, history
<1>9. CASE DeleteRef(x)
  <2>1. [r EXCEPT !.pc = AfterRef(r)] \in GoodDeleter
    BY <1>w, <1>q, <1>9
       DEF DeleteRef, AfterRef, DeleterAt, GoodDeleter, DeleterState, DeleterPcs
  <2>2. deleter' \in [Deleters -> GoodDeleter] /\ deleter' \in [Deleters -> DeleterState]
    BY <2>1, <1>b, <1>f, <1>9 DEF DeleteRef
  <2>3. ref' \in [Digests -> SUBSET Envelope]
    BY <1>9 DEF DeleteRef, TypeInv, TypeOK
  <2> QED
    BY <2>2, <2>3, <1>9 DEF DeleteRef, TypeInv, TypeOK, outside, history
<1>10. CASE RestorePrevious(x)
  <2>1. [r EXCEPT !.pc = "evidence"] \in GoodDeleter
    BY <1>w, <1>q, <1>10 DEF RestorePrevious, DeleterAt, GoodDeleter, DeleterState, DeleterPcs
  <2>2. deleter' \in [Deleters -> GoodDeleter] /\ deleter' \in [Deleters -> DeleterState]
    BY <2>1, <1>b, <1>10 DEF RestorePrevious
  <2>3. Stamp \in Nat /\ clock' \in Nat
    BY <1>10 DEF RestorePrevious, Stamp, TypeInv, TypeOK
  <2>4. r.previous \in Digests
    BY <1>w, <1>10 DEF RestorePrevious, DeleterAt, GoodDeleter
  <2>5. [ver |-> Stamp, digest |-> r.previous] \in Pointer
    BY <2>3, <2>4 DEF Pointer
  <2>6. latest' \in SUBSET Pointer
    BY <2>5, <1>10 DEF RestorePrevious, Store, TypeInv, TypeOK
  <2> QED
    BY <2>2, <2>3, <2>6, <1>10 DEF RestorePrevious, TypeInv, TypeOK, outside, history
<1>11. CASE HeadLatest(x)
  <2>1. ASSUME NEW p \in latest PROVE [r EXCEPT !.pc = "latest_delete", !.headVer = p.ver] \in GoodDeleter
    <3>1. p.ver \in Nat
      BY DEF TypeInv, TypeOK, Pointer
    <3> QED
      BY <3>1, <1>w, <1>q, <1>11
         DEF HeadLatest, DeleterAt, GoodDeleter, DeleterState, DeleterPcs
  <2>2. deleter' \in [Deleters -> GoodDeleter] /\ deleter' \in [Deleters -> DeleterState]
    BY <2>1, <1>b, <1>f, <1>11 DEF HeadLatest
  <2> QED
    BY <2>2, <1>11 DEF HeadLatest, DeleteOnly, TypeInv, TypeOK, bucket, outside, history
<1>12. CASE DeleteLatest(x)
  <2>1. [r EXCEPT !.pc = "evidence"] \in GoodDeleter
    BY <1>w, <1>q, <1>12 DEF DeleteLatest, DeleterAt, GoodDeleter, DeleterState, DeleterPcs
  <2>2. deleter' \in [Deleters -> GoodDeleter] /\ deleter' \in [Deleters -> DeleterState]
    BY <2>1, <1>b, <1>12 DEF DeleteLatest
  <2> QED
    BY <2>2, <1>12 DEF DeleteLatest, TypeInv, TypeOK, outside, history
<1>13. CASE RecordEvidence(x)
  <2>1. deleter' \in [Deleters -> GoodDeleter] /\ deleter' \in [Deleters -> DeleterState]
    BY <1>13, <1>b, DeletedType DEF RecordEvidence
  <2>2. r.digest \in Digests
    BY <1>q, <1>13 DEF RecordEvidence, DeleterAt
  <2>3. evidence' \in SUBSET Digests /\ faults' \in Nat
    BY <2>2, <1>13 DEF RecordEvidence, Answered, TypeInv, TypeOK
  <2> QED
    BY <2>1, <2>3, <1>13 DEF RecordEvidence, TypeInv, TypeOK, outside, history
<1>14. CASE InterruptDelete(x)
  <2>1. interrupted' \in SUBSET Nat
    BY <1>14, <1>w DEF InterruptDelete, DeleterState, TypeInv, TypeOK
  <2> QED
    BY <2>1, <1>14, <1>f DEF InterruptDelete, TypeInv, TypeOK, bucket, outside
<1> QED
  BY <1>1, <1>2, <1>3, <1>4, <1>5, <1>6, <1>7, <1>8, <1>9, <1>10, <1>11, <1>12, <1>13, <1>14
     DEF DeleteStep

\* Nothing else the program or its surroundings do disturbs the types.
LEMMA OtherTypeInv ==
  ASSUME TypeInv, CreateResource \/ Expire \/ UNCHANGED vars PROVE TypeInv'
BY ProfilesAssumption
   DEF TypeInv, TypeOK, CreateResource, Expire, vars, bucket, outside, history

\* Whatever the callers, the requests and the bucket, puts and deletes only
\* ever leave well-typed local states, versions, pointers and records.
THEOREM TypeCorrect == Spec => []TypeInv
<1>1. Init => TypeInv
  BY InitTypeInv
<1>2. TypeInv /\ [Next]_vars => TypeInv'
  BY PutTypeInv, DeleteTypeInv, OtherTypeInv DEF Next, Finished
<1> QED
  BY <1>1, <1>2, PTL DEF Spec

\* TypeOK, the invariant the runs check.
THEOREM TypesHold == Spec => []TypeOK
<1>1. TypeInv => TypeOK
  BY DEF TypeInv
<1> QED
  BY <1>1, TypeCorrect, PTL

\* A step of a put changes its own local state only.
LEMMA OwnState ==
  ASSUME TypeInv, NEW w \in Writers, StartPut(w) \/ PutStep(w) \/ InterruptPut(w)
  PROVE  \A u \in Writers \ {w} : writer'[u] = writer[u]
<1>1. \E s : Become(w, s)
  BY DEF StartPut, PutStep, InterruptPut, ReadPointer, ResolveNothing, ResolveDecided,
     ResolveProceed, ResolveWinner, PutBlob, VerifyBlob, PutEnvelope, PutLatest, RecordOrphan
<1>2. PICK s : Become(w, s)
  BY <1>1
<1> QED
  BY <1>2 DEF Become, TypeInv, TypeOK

\* What a local state the put moves to is, once it is known what it becomes.
LEMMA Becomes ==
  ASSUME TypeInv, NEW w \in Writers, NEW s, Become(w, s)
  PROVE  writer'[w] = s
BY DEF Become, TypeInv, TypeOK

\* A step of a delete changes its own local state only.
LEMMA OwnDeleter ==
  ASSUME TypeInv, NEW x \in Deleters, StartDelete(x) \/ DeleteStep(x) \/ InterruptDelete(x)
  PROVE  \A y \in Deleters \ {x} : deleter'[y] = deleter[y]
<1>1. \E s : Advance(x, s)
  BY DEF StartDelete, DeleteStep, InterruptDelete, ReadTarget, ReadLatestPointer, ResolveLatest,
     ListVersions, ScanVersion, HeadEnvelope, DeleteBlob, DeleteRef, RestorePrevious, HeadLatest,
     DeleteLatest, RecordEvidence, Fail
<1>2. PICK s : Advance(x, s)
  BY <1>1
<1> QED
  BY <1>2 DEF Advance, TypeInv, TypeOK

\* What a local state the delete moves to is, once it is known what it becomes.
LEMMA Advances ==
  ASSUME TypeInv, NEW x \in Deleters, NEW s, Advance(x, s)
  PROVE  deleter'[x] = s
BY DEF Advance, TypeInv, TypeOK

\* A put leaves the local states of the deletes alone, and a delete those of the puts.
LEMMA Separate ==
  /\ \A w \in Writers : StartPut(w) \/ PutStep(w) \/ InterruptPut(w) => deleter' = deleter
  /\ \A x \in Deleters : StartDelete(x) \/ DeleteStep(x) \/ InterruptDelete(x) => writer' = writer
<1>1. ASSUME NEW w \in Writers, StartPut(w) \/ PutStep(w) \/ InterruptPut(w) PROVE deleter' = deleter
  BY <1>1 DEF StartPut, PutStep, InterruptPut, ReadPointer, ResolveNothing, ResolveDecided,
     ResolveProceed, ResolveWinner, PutBlob, VerifyBlob, PutEnvelope, PutLatest, RecordOrphan, PutOnly
<1>2. ASSUME NEW x \in Deleters, StartDelete(x) \/ DeleteStep(x) \/ InterruptDelete(x)
      PROVE  writer' = writer
  BY <1>2 DEF StartDelete, DeleteStep, InterruptDelete, ReadTarget, ReadLatestPointer,
     ResolveLatest, ListVersions, ScanVersion, HeadEnvelope, DeleteBlob, DeleteRef,
     RestorePrevious, HeadLatest, DeleteLatest, RecordEvidence, DeleteOnly
<1> QED
  BY <1>1, <1>2
-----------------------------------------------------------------------------
(* Envelopes and the payload versions they name, in a versioned bucket.      *)
(* EnvelopeComplete and DeletedIsGone are not inductive: they rest on every  *)
(* payload version having one owner, first the put that stored it, then the  *)
(* envelope naming it, then the delete that read that envelope.              *)

\* A put that owns a stored payload version no envelope names yet.
Holding(w) == writer[w].pc \in {"verify", "envelope"}
\* A delete that has read the envelope it is to remove.
Aimed(x) == deleter[x].pc \notin {"idle", "target"}
\* A delete that has removed the payload version, or is past doing so.
BlobGone(x) == deleter[x].pc \in {"ref", "restore", "latest_head", "latest_delete", "evidence"}
\* A delete that has removed the envelope as well.
RefGone(x) == deleter[x].pc \in {"restore", "latest_head", "latest_delete", "evidence"}

OneEnvelope == \A d \in Digests : \A e, f \in ref[d] : e = f

\* Version ids in use are older than the clock.
Used ==
  /\ \A d \in Digests : (\A v \in blob[d] : v < clock) /\ (\A e \in ref[d] : e.blobVer < clock)
  /\ \A w \in Writers : Holding(w) => writer[w].blobVer < clock
  /\ \A x \in Deleters : Aimed(x) => deleter[x].blobVer < clock

\* What a put holds is stored, and no envelope, delete or other put has it.
Owned ==
  \A w \in Writers : Holding(w) =>
    /\ writer[w].blobVer \in blob[writer[w].req.digest]
    /\ \A d \in Digests : \A e \in ref[d] : e.blobVer # writer[w].blobVer
    /\ \A x \in Deleters : Aimed(x) => deleter[x].blobVer # writer[w].blobVer
    /\ \A u \in Writers \ {w} : Holding(u) => writer[u].blobVer # writer[w].blobVer

\* While the envelope a delete read is still there, it may be deleted, and the
\* envelope version the delete is going to remove is that one.
Targeted ==
  \A x \in Deleters : Aimed(x) =>
    \A e \in ref[deleter[x].digest] : e.blobVer = deleter[x].blobVer =>
      /\ ~Retained(e)
      /\ deleter[x].pc \in {"blob", "ref"} => e.ver = deleter[x].headVer

Removed ==
  \A x \in Deleters :
    /\ BlobGone(x) => deleter[x].blobVer \notin blob[deleter[x].digest]
    /\ RefGone(x) => \A e \in ref[deleter[x].digest] : e.blobVer # deleter[x].blobVer

IInv == Versioned =>
          OneEnvelope /\ Used /\ Owned /\ Targeted /\ Removed /\ EnvelopeComplete

\* Initially there is nothing to own.
LEMMA InitIInv == Init => IInv
BY DEF Init, IInv, OneEnvelope, Used, Owned, Targeted, Removed, EnvelopeComplete,
       Ended, Deleted, Holding, Aimed, BlobGone, RefGone

\* A step that leaves payloads and envelopes alone, gives no put a payload
\* version and no delete a target, keeps the invariant.
LEMMA QuietStep ==
  ASSUME TypeInv, TypeInv', IInv,
         blob' = blob, ref' = ref, clock <= clock', interrupted \subseteq interrupted',
         expired => expired',
         \A w \in Writers : Holding(w)' =>
           /\ Holding(w)
           /\ writer'[w].blobVer = writer[w].blobVer
           /\ writer'[w].req.digest = writer[w].req.digest,
         \A x \in Deleters : Aimed(x)' =>
           /\ Aimed(x)
           /\ deleter'[x].blobVer = deleter[x].blobVer
           /\ deleter'[x].digest = deleter[x].digest
           /\ BlobGone(x)' => BlobGone(x)
           /\ RefGone(x)' => RefGone(x)
           /\ deleter'[x].pc \in {"blob", "ref"} =>
                /\ deleter[x].pc \in {"blob", "ref"}
                /\ deleter'[x].headVer = deleter[x].headVer,
         \A x \in Deleters : deleter[x].pc = "ref" =>
           \/ deleter[x].blobVer \in interrupted'
           \/ /\ deleter'[x].pc = "ref"
              /\ deleter'[x].blobVer = deleter[x].blobVer
              /\ deleter'[x].digest = deleter[x].digest
  PROVE  IInv'
<1> SUFFICES ASSUME Versioned
             PROVE  (OneEnvelope /\ Used /\ Owned /\ Targeted /\ Removed /\ EnvelopeComplete)'
  BY DEF IInv
<1>i. OneEnvelope /\ Used /\ Owned /\ Targeted /\ Removed /\ EnvelopeComplete
  BY DEF IInv
<1>1. OneEnvelope'
  BY <1>i DEF OneEnvelope
<1>2. Used'
  <2>1. \A n \in Nat : n < clock => n < clock'
    BY DEF TypeInv, TypeOK
  <2>2. \A w \in Writers : writer[w].blobVer \in Nat
    BY DEF TypeInv, TypeOK, WriterState
  <2>3. \A x \in Deleters : deleter[x].blobVer \in Nat
    BY DEF TypeInv, TypeOK, DeleterState
  <2>4. \A d \in Digests : (\A v \in blob[d] : v \in Nat) /\ (\A e \in ref[d] : e.blobVer \in Nat)
    BY DEF TypeInv, TypeOK, Envelope
  <2> QED
    BY <1>i, <2>1, <2>2, <2>3, <2>4 DEF Used
<1>3. Owned'
  BY <1>i DEF Owned
<1>4. Targeted'
  BY <1>i DEF Targeted, Retained
<1>5. Removed'
  <2>1. \A x \in Deleters : BlobGone(x)' \/ RefGone(x)' => Aimed(x)'
    BY DEF BlobGone, RefGone, Aimed
  <2> QED
    BY <1>i, <2>1 DEF Removed
<1>6. EnvelopeComplete'
  BY <1>i DEF EnvelopeComplete, DeleterAt
<1> QED
  BY <1>1, <1>2, <1>3, <1>4, <1>5, <1>6

\* The quiet steps of a put: only its local state, the pointer, the orphans or
\* the history change, and it acquires no payload version.
LEMMA QuietPut ==
  ASSUME TypeInv, TypeInv', IInv, NEW w \in Writers, NEW s, Become(w, s),
         UNCHANGED <<blob, ref, deleter, expired, interrupted>>, clock <= clock',
         s.pc \in {"verify", "envelope"} =>
           Holding(w) /\ s.blobVer = writer[w].blobVer /\ s.req = writer[w].req
  PROVE  IInv'
<1>1. writer' = [writer EXCEPT ![w] = s] /\ writer \in [Writers -> WriterState]
  BY DEF Become, TypeInv, TypeOK
<1>2. \A u \in Writers : Holding(u)' =>
        /\ Holding(u)
        /\ writer'[u].blobVer = writer[u].blobVer
        /\ writer'[u].req.digest = writer[u].req.digest
  BY <1>1 DEF Holding
<1>3. \A x \in Deleters : Aimed(x)' = Aimed(x) /\ BlobGone(x)' = BlobGone(x) /\ RefGone(x)' = RefGone(x)
  BY DEF Aimed, BlobGone, RefGone
<1> QED
  BY <1>2, <1>3, QuietStep

\* Steps of a put keep the invariant: a stored payload gets a version id nobody
\* has, and the envelope takes over the version the put owned.
LEMMA PutIInv ==
  ASSUME TypeInv, TypeInv', IInv, NEW w \in Writers,
         StartPut(w) \/ PutStep(w) \/ InterruptPut(w)
  PROVE  IInv'
<1> DEFINE r == writer[w]
<1>c. clock \in Nat /\ clock <= clock /\ clock <= clock + 1
  BY DEF TypeInv, TypeOK
<1>w. r \in GoodWriter /\ r \in WriterState
  BY DEF TypeInv, TypeOK
<1>e. \A o : Ended(o).pc = "idle"
  BY DEF Ended
<1>n. ASSUME r.pc \in {"pointer", "resolve"} PROVE NoLatest(r).pc \in {"pointer", "blob", "orphan"}
  BY <1>w DEF NoLatest, WriterState
<1>1. CASE StartPut(w)
  <2>1. PICK q \in PutRequests :
          Become(w, [Ended("none") EXCEPT !.pc = "pointer", !.req = q,
                       !.mutability = EffectiveMutability(profile, q)])
    BY <1>1 DEF StartPut
  <2>2. [Ended("none") EXCEPT !.pc = "pointer", !.req = q,
           !.mutability = EffectiveMutability(profile, q)].pc = "pointer"
    BY DEF Ended
  <2>3. UNCHANGED <<blob, ref, deleter, expired, interrupted, clock>>
    BY <1>1 DEF StartPut, bucket, outside, history
  <2> QED
    BY <2>1, <2>2, <2>3, <1>c, QuietPut
<1>2. CASE ReadPointer(w)
  <2>1. UNCHANGED <<blob, ref, deleter, expired, interrupted, clock>>
    BY <1>2 DEF ReadPointer, PutOnly, bucket, outside, history
  <2>2. CASE Become(w, NoLatest(r))
    <3>1. NoLatest(r).pc \notin {"verify", "envelope"}
      BY <1>2, <1>n DEF ReadPointer, WriterAt
    <3> QED
      BY <3>1, <2>1, <2>2, <1>c, QuietPut
  <2>3. ASSUME NEW p \in latest, Become(w, [r EXCEPT !.pc = "resolve", !.ptr = p.digest])
        PROVE  IInv'
    <3>1. [r EXCEPT !.pc = "resolve", !.ptr = p.digest].pc = "resolve"
      BY <1>w DEF WriterState
    <3> QED
      BY <3>1, <2>1, <2>3, <1>c, QuietPut
  <2> QED
    BY <2>2, <2>3, <1>2 DEF ReadPointer
<1>3. CASE ResolveNothing(w) \/ ResolveProceed(w)
  <2>1. UNCHANGED <<blob, ref, deleter, expired, interrupted, clock>>
    BY <1>3 DEF ResolveNothing, ResolveProceed, PutOnly, bucket, outside, history
  <2>2. NoLatest(r).pc \notin {"verify", "envelope"}
    BY <1>3, <1>n DEF ResolveNothing, ResolveProceed, WriterAt
  <2>3. Become(w, NoLatest(r))
    BY <1>3 DEF ResolveNothing, ResolveProceed
  <2> QED
    BY <2>1, <2>2, <2>3, <1>c, QuietPut
<1>4. CASE ResolveDecided(w)
  <2>1. UNCHANGED <<blob, ref, deleter, expired, interrupted, clock>>
    BY <1>4 DEF ResolveDecided, bucket, outside
  <2>2. \E o : Become(w, Ended(o))
    BY <1>4 DEF ResolveDecided
  <2> QED
    BY <2>1, <2>2, <1>c, <1>e, QuietPut
<1>5. CASE ResolveWinner(w)
  <2>1. UNCHANGED <<blob, ref, deleter, expired, interrupted, clock>>
    BY <1>5 DEF ResolveWinner, PutOnly, bucket, outside, history
  <2>2. [r EXCEPT !.pc = "orphan", !.ptr = NoDigest].pc = "orphan"
    BY <1>w DEF WriterState
  <2>3. \E s : Become(w, s) /\ s.pc \in {"orphan", "idle"}
    BY <2>2, <1>5, <1>e DEF ResolveWinner
  <2> QED
    BY <2>1, <2>3, <1>c, QuietPut
<1>6. CASE VerifyBlob(w)
  <2>1. UNCHANGED <<blob, ref, deleter, expired, interrupted>> /\ clock' = clock + 1
    BY <1>6 DEF VerifyBlob, bucket, outside, history
  <2>2. CASE Become(w, Ended("failed"))
    BY <2>1, <2>2, <1>c, <1>e, QuietPut
  <2>3. CASE Become(w, [r EXCEPT !.pc = "envelope", !.created = clock])
    <3>1. /\ [r EXCEPT !.pc = "envelope", !.created = clock].blobVer = r.blobVer
          /\ [r EXCEPT !.pc = "envelope", !.created = clock].req = r.req
      BY <1>w DEF WriterState
    <3>2. Holding(w)
      BY <1>6 DEF VerifyBlob, WriterAt, Holding
    <3> QED
      BY <3>1, <3>2, <2>1, <2>3, <1>c, QuietPut
  <2> QED
    BY <2>2, <2>3, <1>6 DEF VerifyBlob
<1>7. CASE PutLatest(w)
  <2>1. UNCHANGED <<blob, ref, deleter, expired, interrupted>> /\ clock' \in {clock, clock + 1}
    BY <1>7 DEF PutLatest, outside
  <2>2. [r EXCEPT !.pc = "pointer", !.site = "winner"].pc = "pointer"
    BY <1>w DEF WriterState
  <2>3. \E s : Become(w, s) /\ s.pc \in {"pointer", "idle"}
    BY <2>2, <1>7, <1>e DEF PutLatest
  <2>4. clock <= clock'
    BY <2>1, <1>c
  <2> QED
    BY <2>1, <2>3, <2>4, QuietPut
<1>8. CASE RecordOrphan(w) \/ InterruptPut(w)
  <2>1. UNCHANGED <<blob, ref, deleter, expired, interrupted, clock>>
    BY <1>8 DEF RecordOrphan, InterruptPut, bucket, outside, history
  <2>2. \E o : Become(w, Ended(o))
    BY <1>8 DEF RecordOrphan, InterruptPut
  <2> QED
    BY <2>1, <2>2, <1>c, <1>e, QuietPut
<1>9. CASE PutBlob(w)
  <2> DEFINE d == r.req.digest
  <2>u. UNCHANGED <<ref, deleter, expired, interrupted>>
    BY <1>9 DEF PutBlob, outside, history
  <2>1. CASE Become(w, Ended("failed")) /\ UNCHANGED <<blob, clock>>
    BY <2>1, <2>u, <1>c, <1>e, QuietPut
  <2>2. CASE blob' = [blob EXCEPT ![d] = Store(@, Stamp)] /\ clock' = clock + 1
    <3>1. PICK s : /\ Become(w, s)
                   /\ s.pc \in {"verify", "idle"}
                   /\ s.pc = "verify" => s.blobVer = Stamp /\ s.req = r.req
      <4>1. LET t == [r EXCEPT !.pc = "verify", !.blobVer = Stamp]
            IN  t.pc = "verify" /\ t.blobVer = Stamp /\ t.req = r.req
        BY <1>w DEF WriterState
      <4>2. Become(w, Ended("failed")) \/ Become(w, [r EXCEPT !.pc = "verify", !.blobVer = Stamp])
        BY <1>9 DEF PutBlob
      <4> QED
        BY <4>1, <4>2, <1>e
    <3> SUFFICES ASSUME Versioned
                 PROVE  (OneEnvelope /\ Used /\ Owned /\ Targeted /\ Removed /\ EnvelopeComplete)'
      BY DEF IInv
    <3>i. OneEnvelope /\ Used /\ Owned /\ Targeted /\ Removed /\ EnvelopeComplete
      BY DEF IInv
    <3>2. Stamp = clock
      BY DEF Stamp
    <3>3. r.pc = "blob" /\ d \in Digests
      BY <1>9, <1>w, RequestType DEF PutBlob, WriterAt, GoodWriter
    <3>4. blob' = [blob EXCEPT ![d] = @ \cup {clock}] /\ blob \in [Digests -> SUBSET Nat]
      BY <2>2, <3>2 DEF Store, TypeInv, TypeOK
    <3>5. writer' = [writer EXCEPT ![w] = s] /\ writer \in [Writers -> WriterState]
      BY <3>1 DEF Become, TypeInv, TypeOK
    <3>6. OneEnvelope'
      BY <3>i, <2>u DEF OneEnvelope
    <3>7. Used'
      <4>1. \A n \in Nat : n < clock => n < clock'
        BY <2>2, <1>c
      <4>2. clock < clock'
        BY <2>2, <1>c
      <4>3. \A k \in Digests : (\A v \in blob[k] : v \in Nat) /\ (\A e \in ref[k] : e.blobVer \in Nat)
        BY DEF TypeInv, TypeOK, Envelope
      <4>4. \A k \in Digests : \A v \in blob'[k] : v < clock'
        BY <3>i, <3>4, <4>1, <4>2, <4>3 DEF Used
      <4>5. \A k \in Digests : \A e \in ref'[k] : e.blobVer < clock'
        BY <3>i, <2>u, <4>1, <4>3 DEF Used
      <4>6. \A u \in Writers : writer[u].blobVer \in Nat
        BY DEF TypeInv, TypeOK, WriterState
      <4>7. \A u \in Writers : Holding(u)' => writer'[u].blobVer < clock'
        BY <3>1, <3>2, <3>5, <3>i, <4>1, <4>2, <4>6 DEF Used, Holding
      <4>8. \A x \in Deleters : deleter[x].blobVer \in Nat
        BY DEF TypeInv, TypeOK, DeleterState
      <4>9. \A x \in Deleters : Aimed(x)' => deleter'[x].blobVer < clock'
        BY <3>i, <2>u, <4>1, <4>8 DEF Used, Aimed
      <4> QED
        BY <4>4, <4>5, <4>7, <4>9 DEF Used
    <3>8. Owned'
      <4>0. clock \in Nat /\ ~(clock < clock)
        BY DEF TypeInv, TypeOK
      <4>1. ASSUME NEW u \in Writers, Holding(u)'
            PROVE  writer'[u].blobVer \in blob'[writer'[u].req.digest]
        BY <4>1, <3>1, <3>2, <3>3, <3>4, <3>5, <3>i DEF Owned, Holding
      <4>2. ASSUME NEW u \in Writers, Holding(u)', NEW k \in Digests, NEW e \in ref'[k]
            PROVE  e.blobVer # writer'[u].blobVer
        BY <4>0, <4>2, <3>1, <3>2, <3>5, <3>i, <2>u DEF Owned, Holding, Used
      <4>3. ASSUME NEW u \in Writers, Holding(u)', NEW x \in Deleters, Aimed(x)'
            PROVE  deleter'[x].blobVer # writer'[u].blobVer
        BY <4>0, <4>3, <3>1, <3>2, <3>5, <3>i, <2>u DEF Owned, Holding, Used, Aimed
      <4>4. ASSUME NEW u \in Writers, Holding(u)', NEW t \in Writers \ {u}, Holding(t)'
            PROVE  writer'[t].blobVer # writer'[u].blobVer
        BY <4>0, <4>4, <3>1, <3>2, <3>5, <3>i DEF Owned, Holding, Used
      <4> QED
        BY <4>1, <4>2, <4>3, <4>4 DEF Owned
    <3>9. Targeted'
      BY <3>i, <2>u DEF Targeted, Aimed, Retained
    <3>10. Removed'
      <4>1. \A x \in Deleters : Aimed(x) => deleter[x].blobVer # clock
        BY <3>i, <1>c DEF Used
      <4>2. \A x \in Deleters : BlobGone(x) => Aimed(x) /\ deleter[x].digest \in Digests
        BY DEF BlobGone, Aimed, TypeInv, GoodDeleter
      <4> QED
        BY <3>i, <3>4, <2>u, <4>1, <4>2 DEF Removed, BlobGone, RefGone
    <3>11. EnvelopeComplete'
      BY <3>i, <3>4, <2>u DEF EnvelopeComplete, DeleterAt
    <3> QED
      BY <3>6, <3>7, <3>8, <3>9, <3>10, <3>11
  <2> QED
    BY <2>1, <2>2, <1>9 DEF PutBlob
<1>10. CASE PutEnvelope(w)
  <2> DEFINE d == r.req.digest
  <2>u. UNCHANGED <<blob, deleter, expired, interrupted>>
    BY <1>10 DEF PutEnvelope, outside, history
  <2>1. CASE Become(w, Ended("failed")) /\ UNCHANGED <<ref, clock>>
    BY <2>1, <2>u, <1>c, <1>e, QuietPut
  <2>2. CASE ref[d] = {} /\ ref' = [ref EXCEPT ![d] = Store(@, EnvelopeOf(r))] /\ clock' = clock + 1
    <3>1. PICK s : Become(w, s) /\ s.pc \in {"latest", "idle"}
      <4>1. [r EXCEPT !.pc = "latest"].pc = "latest"
        BY <1>w DEF WriterState
      <4>2. Become(w, Ended("failed")) \/ Become(w, [r EXCEPT !.pc = "latest"])
        BY <1>10 DEF PutEnvelope
      <4> QED
        BY <4>1, <4>2, <1>e
    <3> SUFFICES ASSUME Versioned
                 PROVE  (OneEnvelope /\ Used /\ Owned /\ Targeted /\ Removed /\ EnvelopeComplete)'
      BY DEF IInv
    <3>i. OneEnvelope /\ Used /\ Owned /\ Targeted /\ Removed /\ EnvelopeComplete
      BY DEF IInv
    <3>2. Holding(w) /\ d \in Digests
      BY <1>10, <1>w, RequestType DEF PutEnvelope, WriterAt, Holding, GoodWriter
    <3>3. PICK n : n.blobVer = r.blobVer /\ ref' = [ref EXCEPT ![d] = {n}]
      BY <2>2 DEF Store, EnvelopeOf
    <3>4. ref \in [Digests -> SUBSET Envelope]
      BY DEF TypeInv, TypeOK
    <3>5. writer' = [writer EXCEPT ![w] = s] /\ writer \in [Writers -> WriterState]
      BY <3>1 DEF Become, TypeInv, TypeOK
    <3>h. \A u \in Writers : Holding(u)' => u # w /\ Holding(u) /\ writer'[u] = writer[u]
      BY <3>1, <3>5 DEF Holding
    <3>6. OneEnvelope'
      BY <3>i, <3>3, <3>4 DEF OneEnvelope
    <3>7. Used'
      <4>1. \A m \in Nat : m < clock => m < clock'
        BY <2>2, <1>c
      <4>2. \A k \in Digests : (\A v \in blob[k] : v \in Nat) /\ (\A e \in ref[k] : e.blobVer \in Nat)
        BY DEF TypeInv, TypeOK, Envelope
      <4>3. \A u \in Writers : writer[u].blobVer \in Nat
        BY DEF TypeInv, TypeOK, WriterState
      <4>4. \A x \in Deleters : deleter[x].blobVer \in Nat
        BY DEF TypeInv, TypeOK, DeleterState
      <4>5. n.blobVer \in Nat /\ n.blobVer < clock
        BY <3>i, <3>2, <3>3, <4>3 DEF Used
      <4>6. \A k \in Digests : \A v \in blob'[k] : v < clock'
        BY <3>i, <2>u, <4>1, <4>2 DEF Used
      <4>7. \A k \in Digests : \A e \in ref'[k] : e.blobVer < clock'
        BY <3>i, <3>3, <3>4, <4>1, <4>2, <4>5 DEF Used
      <4>8. \A u \in Writers : Holding(u)' => writer'[u].blobVer < clock'
        BY <3>i, <3>h, <4>1, <4>3 DEF Used
      <4>9. \A x \in Deleters : Aimed(x)' => deleter'[x].blobVer < clock'
        BY <3>i, <2>u, <4>1, <4>4 DEF Used, Aimed
      <4> QED
        BY <4>6, <4>7, <4>8, <4>9 DEF Used
    <3>8. Owned'
      <4>1. \A u \in Writers : Holding(u)' => writer[u].blobVer # r.blobVer
        BY <3>i, <3>h, <3>2 DEF Owned
      <4>2. \A x \in Deleters : Aimed(x)' = Aimed(x)
        BY <2>u DEF Aimed
      <4> QED
        BY <3>i, <3>h, <3>3, <3>4, <2>u, <4>1, <4>2 DEF Owned
    <3>x. \A x \in Deleters : Aimed(x) => n.blobVer # deleter[x].blobVer
      BY <3>i, <3>2, <3>3 DEF Owned
    <3>9. Targeted'
      BY <3>i, <3>3, <3>4, <3>x, <2>u DEF Targeted, Aimed, Retained
    <3>10. Removed'
      <4>1. \A x \in Deleters : RefGone(x) => Aimed(x) /\ deleter[x].digest \in Digests
        BY DEF RefGone, Aimed, TypeInv, GoodDeleter
      <4> QED
        BY <3>i, <3>3, <3>4, <3>x, <2>u, <4>1 DEF Removed, BlobGone, RefGone
    <3>11. EnvelopeComplete'
      <4>1. n.blobVer \in blob[d]
        BY <3>i, <3>2, <3>3 DEF Owned
      <4> QED
        BY <3>i, <3>3, <3>4, <2>u, <4>1 DEF EnvelopeComplete, DeleterAt
    <3> QED
      BY <3>6, <3>7, <3>8, <3>9, <3>10, <3>11
  <2> QED
    BY <2>1, <2>2, <1>10 DEF PutEnvelope
<1> QED
  BY <1>1, <1>2, <1>3, <1>4, <1>5, <1>6, <1>7, <1>8, <1>9, <1>10 DEF PutStep

\* The quiet steps of a delete: only its local state, the pointer or the
\* records change, it keeps its target, and gets no closer to removing it.
LEMMA QuietDelete ==
  ASSUME TypeInv, TypeInv', IInv, NEW x \in Deleters, NEW s, Advance(x, s),
         UNCHANGED <<blob, ref, writer, expired>>, clock <= clock',
         interrupted \subseteq interrupted',
         s.pc \notin {"idle", "target"} =>
           Aimed(x) /\ s.blobVer = deleter[x].blobVer /\ s.digest = deleter[x].digest,
         s.pc \notin {"blob", "ref"},
         s.pc \in {"restore", "latest_head", "latest_delete", "evidence"} => RefGone(x),
         deleter[x].pc = "ref" => deleter[x].blobVer \in interrupted'
  PROVE  IInv'
<1>1. deleter' = [deleter EXCEPT ![x] = s] /\ deleter \in [Deleters -> DeleterState]
  BY DEF Advance, TypeInv, TypeOK
<1>2. \A y \in Deleters : Aimed(y)' =>
        /\ Aimed(y)
        /\ deleter'[y].blobVer = deleter[y].blobVer
        /\ deleter'[y].digest = deleter[y].digest
        /\ BlobGone(y)' => BlobGone(y)
        /\ RefGone(y)' => RefGone(y)
        /\ deleter'[y].pc \in {"blob", "ref"} =>
             /\ deleter[y].pc \in {"blob", "ref"}
             /\ deleter'[y].headVer = deleter[y].headVer
  BY <1>1 DEF Aimed, BlobGone, RefGone
<1>3. \A y \in Deleters : deleter[y].pc = "ref" =>
        \/ deleter[y].blobVer \in interrupted'
        \/ /\ deleter'[y].pc = "ref"
           /\ deleter'[y].blobVer = deleter[y].blobVer
           /\ deleter'[y].digest = deleter[y].digest
  BY <1>1
<1>4. \A w \in Writers : Holding(w)' = Holding(w)
  BY DEF Holding
<1>5. interrupted \subseteq interrupted' /\ clock <= clock'
  OBVIOUS
<1> QED
  BY <1>2, <1>3, <1>4, <1>5, QuietStep

\* Steps of a delete keep the invariant: it takes aim at a published envelope's
\* payload, which no put owns any more, and removes that payload and then the
\* envelope version that names it.
LEMMA DeleteIInv ==
  ASSUME TypeInv, TypeInv', IInv, NEW x \in Deleters,
         StartDelete(x) \/ DeleteStep(x) \/ InterruptDelete(x)
  PROVE  IInv'
<1> DEFINE r == deleter[x]
<1>c. clock \in Nat /\ clock <= clock /\ clock <= clock + 1
  BY DEF TypeInv, TypeOK
<1>w. r \in GoodDeleter /\ r \in DeleterState
  BY DEF TypeInv, TypeOK
<1>e. \A o : Deleted(o).pc = "idle"
  BY DEF Deleted
<1>1. CASE StartDelete(x)
  <2>1. PICK d \in Digests : Advance(x, [Deleted("none") EXCEPT !.pc = "target", !.digest = d])
    BY <1>1 DEF StartDelete
  <2>2. [Deleted("none") EXCEPT !.pc = "target", !.digest = d].pc = "target"
    BY DEF Deleted
  <2>3. UNCHANGED <<blob, ref, writer, expired, interrupted, clock>> /\ r.pc = "idle"
    BY <1>1 DEF StartDelete, DeleterAt, bucket, outside
  <2> QED
    BY <2>1, <2>2, <2>3, <1>c, QuietDelete
<1>2. CASE ReadLatestPointer(x) \/ ResolveLatest(x) \/ ListVersions(x)
  <2>1. UNCHANGED <<blob, ref, writer, expired, interrupted, clock>>
    BY <1>2 DEF ReadLatestPointer, ResolveLatest, ListVersions, DeleteOnly, bucket, outside, history
  <2>2. Aimed(x) /\ r.pc # "ref"
    BY <1>2 DEF ReadLatestPointer, ResolveLatest, ListVersions, DeleterAt, Aimed
  <2>3. \E s : /\ Advance(x, s) /\ s.pc \in {"resolve", "list", "scan"}
               /\ s.blobVer = r.blobVer /\ s.digest = r.digest
    <3>1. CASE ReadLatestPointer(x)
      <4>1. LET s == [r EXCEPT !.pc = "list"]
           IN  s.pc = "list" /\ s.blobVer = r.blobVer /\ s.digest = r.digest
        BY <1>w DEF DeleterState
      <4>2. \A p : LET s == [r EXCEPT !.pc = "resolve", !.ptr = p]
           IN  s.pc = "resolve" /\ s.blobVer = r.blobVer /\ s.digest = r.digest
        BY <1>w DEF DeleterState
      <4> QED
        BY <4>1, <4>2, <3>1 DEF ReadLatestPointer
    <3>2. CASE ResolveLatest(x)
      <4>1. \A b : LET s == [r EXCEPT !.pc = "list", !.ptr = NoDigest, !.wasLatest = b]
           IN  s.pc = "list" /\ s.blobVer = r.blobVer /\ s.digest = r.digest
        BY <1>w DEF DeleterState
      <4> QED
        BY <4>1, <3>2 DEF ResolveLatest
    <3>3. CASE ListVersions(x)
      <4>1. \A S : LET s == [r EXCEPT !.pc = "scan", !.scan = S]
           IN  s.pc = "scan" /\ s.blobVer = r.blobVer /\ s.digest = r.digest
        BY <1>w DEF DeleterState
      <4> QED
        BY <4>1, <3>3 DEF ListVersions
    <3> QED
      BY <3>1, <3>2, <3>3, <1>2
  <2> QED
    BY <2>1, <2>2, <2>3, <1>c, QuietDelete
<1>3. CASE ScanVersion(x)
  <2>1. UNCHANGED <<blob, ref, writer, expired, interrupted, clock>>
    BY <1>3 DEF ScanVersion, DeleteOnly, bucket, outside, history
  <2>2. Aimed(x) /\ r.pc = "scan"
    BY <1>3 DEF ScanVersion, DeleterAt, Aimed
  <2>3. \E s : /\ Advance(x, s) /\ s.pc \in {"scan", "head", "idle"}
               /\ s.pc # "idle" => s.blobVer = r.blobVer /\ s.digest = r.digest
    <3>1. CASE Fail(x)
      BY <3>1, <1>e DEF Fail
    <3>2. CASE Advance(x, [r EXCEPT !.pc = "head"])
      BY <3>2, <1>w DEF DeleterState
    <3>3. ASSUME NEW d \in r.scan, NEW e \in ref[d],
                 \/ Advance(x, [r EXCEPT !.scan = @ \ {d}])
                 \/ Advance(x, [r EXCEPT !.scan = @ \ {d}, !.previous = d,
                                         !.previousCreated = e.created])
          PROVE  \E s : /\ Advance(x, s) /\ s.pc \in {"scan", "head", "idle"}
                        /\ s.pc # "idle" => s.blobVer = r.blobVer /\ s.digest = r.digest
      <4>1. LET s == [r EXCEPT !.scan = @ \ {d}]
           IN  s.pc = "scan" /\ s.blobVer = r.blobVer /\ s.digest = r.digest
        BY <2>2, <1>w DEF DeleterState
      <4>2. LET s == [r EXCEPT !.scan = @ \ {d}, !.previous = d, !.previousCreated = e.created]
           IN  s.pc = "scan" /\ s.blobVer = r.blobVer /\ s.digest = r.digest
        BY <2>2, <1>w DEF DeleterState
      <4> QED
        BY <4>1, <4>2, <3>3
    <3> QED
      BY <3>1, <3>2, <3>3, <1>3 DEF ScanVersion
  <2> QED
    BY <2>1, <2>2, <2>3, <1>c, QuietDelete
<1>4. CASE RestorePrevious(x) \/ HeadLatest(x) \/ DeleteLatest(x) \/ RecordEvidence(x)
  <2>1. UNCHANGED <<blob, ref, writer, expired, interrupted>> /\ clock' \in {clock, clock + 1}
    BY <1>4 DEF RestorePrevious, HeadLatest, DeleteLatest, RecordEvidence, DeleteOnly,
                bucket, outside, history
  <2>2. Aimed(x) /\ RefGone(x) /\ r.pc # "ref"
    BY <1>4 DEF RestorePrevious, HeadLatest, DeleteLatest, RecordEvidence, DeleterAt,
                Aimed, RefGone
  <2>3. \E s : /\ Advance(x, s) /\ s.pc \in {"evidence", "latest_delete", "idle"}
               /\ s.pc # "idle" => s.blobVer = r.blobVer /\ s.digest = r.digest
    <3>1. CASE RestorePrevious(x) \/ DeleteLatest(x)
      BY <3>1, <1>w DEF RestorePrevious, DeleteLatest, DeleterState
    <3>2. CASE HeadLatest(x)
      <4>1. CASE Fail(x)
        BY <4>1, <1>e DEF Fail
      <4>2. ASSUME NEW p \in latest, Advance(x, [r EXCEPT !.pc = "latest_delete", !.headVer = p.ver])
            PROVE  \E s : /\ Advance(x, s) /\ s.pc \in {"evidence", "latest_delete", "idle"}
                          /\ s.pc # "idle" => s.blobVer = r.blobVer /\ s.digest = r.digest
        <5>1. LET s == [r EXCEPT !.pc = "latest_delete", !.headVer = p.ver]
             IN  s.pc = "latest_delete" /\ s.blobVer = r.blobVer /\ s.digest = r.digest
          BY <1>w DEF DeleterState
        <5> QED
          BY <5>1, <4>2
      <4> QED
        BY <4>1, <4>2, <3>2 DEF HeadLatest
    <3>3. CASE RecordEvidence(x)
      BY <3>3, <1>e DEF RecordEvidence
    <3> QED
      BY <3>1, <3>2, <3>3, <1>4
  <2>4. clock <= clock'
    BY <2>1, <1>c
  <2> QED
    BY <2>1, <2>2, <2>3, <2>4, QuietDelete
<1>5. CASE InterruptDelete(x)
  <2>1. UNCHANGED <<blob, ref, writer, expired, clock>>
    BY <1>5 DEF InterruptDelete, bucket, outside
  <2>2. interrupted \subseteq interrupted' /\ (r.pc = "ref" => r.blobVer \in interrupted')
    BY <1>5 DEF InterruptDelete
  <2>3. Advance(x, Deleted("failed"))
    BY <1>5 DEF InterruptDelete, Fail
  <2> QED
    BY <2>1, <2>2, <2>3, <1>c, <1>e, QuietDelete
<1>6. CASE ReadTarget(x)
  <2>1. UNCHANGED <<blob, ref, writer, expired, interrupted, clock>> /\ r.pc = "target"
    BY <1>6 DEF ReadTarget, DeleterAt, DeleteOnly, bucket, outside, history
  <2>2. CASE Fail(x)
    <3>1. Advance(x, Deleted("failed"))
      BY <2>2 DEF Fail
    <3> QED
      BY <3>1, <2>1, <1>c, <1>e, QuietDelete
  <2>3. ASSUME NEW e \in ref[r.digest], DeleteAllowed(e),
               Advance(x, [r EXCEPT !.pc = "pointer", !.blobVer = e.blobVer])
        PROVE  IInv'
    <3> DEFINE s == [r EXCEPT !.pc = "pointer", !.blobVer = e.blobVer]
    <3>1. s.pc = "pointer" /\ s.blobVer = e.blobVer /\ s.digest = r.digest
      BY <1>w DEF DeleterState
    <3>2. deleter' = [deleter EXCEPT ![x] = s] /\ deleter \in [Deleters -> DeleterState]
      BY <2>3 DEF Advance, TypeInv, TypeOK
    <3> HIDE DEF s
    <3> SUFFICES ASSUME Versioned
                 PROVE  (OneEnvelope /\ Used /\ Owned /\ Targeted /\ Removed /\ EnvelopeComplete)'
      BY DEF IInv
    <3>i. OneEnvelope /\ Used /\ Owned /\ Targeted /\ Removed /\ EnvelopeComplete
      BY DEF IInv
    <3>3. r.digest \in Digests
      BY <1>w, <2>1 DEF GoodDeleter
    <3>4. \A y \in Deleters : y # x => deleter'[y] = deleter[y]
      BY <3>2
    <3>5. deleter'[x] = s
      BY <3>2
    <3>6. OneEnvelope'
      BY <3>i, <2>1 DEF OneEnvelope
    <3>7. Used'
      BY <3>i, <3>1, <3>3, <3>4, <3>5, <2>1 DEF Used, Holding, Aimed
    <3>8. Owned'
      BY <3>i, <3>1, <3>3, <3>4, <3>5, <2>1 DEF Owned, Holding, Aimed
    <3>9. Targeted'
      BY <3>i, <3>1, <3>3, <3>4, <3>5, <2>1, <2>3
         DEF Targeted, OneEnvelope, Aimed, Retained, DeleteAllowed
    <3>10. Removed'
      BY <3>i, <3>1, <3>4, <3>5, <2>1 DEF Removed, BlobGone, RefGone
    <3>11. EnvelopeComplete'
      BY <3>i, <3>1, <3>4, <3>5, <2>1 DEF EnvelopeComplete, DeleterAt
    <3> QED
      BY <3>6, <3>7, <3>8, <3>9, <3>10, <3>11
  <2> QED
    BY <2>2, <2>3, <1>6 DEF ReadTarget
<1>7. CASE HeadEnvelope(x)
  <2>1. UNCHANGED <<blob, ref, writer, expired, interrupted, clock>> /\ r.pc = "head"
    BY <1>7 DEF HeadEnvelope, DeleterAt, DeleteOnly, bucket, outside, history
  <2>2. CASE Fail(x)
    <3>1. Advance(x, Deleted("failed"))
      BY <2>2 DEF Fail
    <3> QED
      BY <3>1, <2>1, <1>c, <1>e, QuietDelete
  <2>3. ASSUME NEW e \in ref[r.digest], Advance(x, [r EXCEPT !.pc = "blob", !.headVer = e.ver])
        PROVE  IInv'
    <3> DEFINE s == [r EXCEPT !.pc = "blob", !.headVer = e.ver]
    <3>1. s.pc = "blob" /\ s.headVer = e.ver /\ s.blobVer = r.blobVer /\ s.digest = r.digest
      BY <1>w DEF DeleterState
    <3>2. deleter' = [deleter EXCEPT ![x] = s] /\ deleter \in [Deleters -> DeleterState]
      BY <2>3 DEF Advance, TypeInv, TypeOK
    <3> HIDE DEF s
    <3> SUFFICES ASSUME Versioned
                 PROVE  (OneEnvelope /\ Used /\ Owned /\ Targeted /\ Removed /\ EnvelopeComplete)'
      BY DEF IInv
    <3>i. OneEnvelope /\ Used /\ Owned /\ Targeted /\ Removed /\ EnvelopeComplete
      BY DEF IInv
    <3>3. r.digest \in Digests
      BY <1>w, <2>1 DEF GoodDeleter
    <3>4. \A y \in Deleters : y # x => deleter'[y] = deleter[y]
      BY <3>2
    <3>5. deleter'[x] = s
      BY <3>2
    <3>6. OneEnvelope'
      BY <3>i, <2>1 DEF OneEnvelope
    <3>7. Used'
      BY <3>i, <3>1, <3>4, <3>5, <2>1 DEF Used, Holding, Aimed
    <3>8. Owned'
      BY <3>i, <3>1, <3>4, <3>5, <2>1 DEF Owned, Holding, Aimed
    <3>9. Targeted'
      BY <3>i, <3>1, <3>3, <3>4, <3>5, <2>1, <2>3 DEF Targeted, OneEnvelope, Aimed, Retained
    <3>10. Removed'
      BY <3>i, <3>1, <3>4, <3>5, <2>1 DEF Removed, BlobGone, RefGone
    <3>11. EnvelopeComplete'
      BY <3>i, <3>1, <3>4, <3>5, <2>1 DEF EnvelopeComplete, DeleterAt
    <3> QED
      BY <3>6, <3>7, <3>8, <3>9, <3>10, <3>11
  <2> QED
    BY <2>2, <2>3, <1>7 DEF HeadEnvelope
<1>8. CASE DeleteBlob(x)
  <2> DEFINE s == [r EXCEPT !.pc = "ref"]
  <2>1. UNCHANGED <<ref, writer, expired, interrupted, clock>> /\ r.pc = "blob"
    BY <1>8 DEF DeleteBlob, DeleterAt, outside, history
  <2>2. blob' = [blob EXCEPT ![r.digest] = @ \ {r.blobVer}] /\ blob \in [Digests -> SUBSET Nat]
    BY <1>8 DEF DeleteBlob, BlobsRemoved, TypeInv, TypeOK
  <2>3. s.pc = "ref" /\ s.headVer = r.headVer /\ s.blobVer = r.blobVer /\ s.digest = r.digest
    BY <1>w DEF DeleterState
  <2>4. deleter' = [deleter EXCEPT ![x] = s] /\ deleter \in [Deleters -> DeleterState]
    BY <1>8 DEF DeleteBlob, Advance, TypeInv, TypeOK
  <2> HIDE DEF s
  <2> SUFFICES ASSUME Versioned
               PROVE  (OneEnvelope /\ Used /\ Owned /\ Targeted /\ Removed /\ EnvelopeComplete)'
    BY DEF IInv
  <2>i. OneEnvelope /\ Used /\ Owned /\ Targeted /\ Removed /\ EnvelopeComplete
    BY DEF IInv
  <2>5. r.digest \in Digests /\ Aimed(x)
    BY <1>w, <2>1 DEF GoodDeleter, Aimed
  <2>6. (\A y \in Deleters : y # x => deleter'[y] = deleter[y]) /\ deleter'[x] = s
    BY <2>4
  <2>7. \A d \in Digests : blob'[d] \subseteq blob[d]
    BY <2>2
  <2>8. OneEnvelope'
    BY <2>i, <2>1 DEF OneEnvelope
  <2>9. Used'
    BY <2>i, <2>1, <2>3, <2>5, <2>6, <2>7 DEF Used, Holding, Aimed
  <2>10. Owned'
    <3>1. ASSUME NEW w \in Writers, Holding(w)'
          PROVE  writer'[w].blobVer \in blob'[writer'[w].req.digest]
      <4>1. Holding(w) /\ writer'[w] = writer[w] /\ r.blobVer # writer[w].blobVer
        BY <3>1, <2>i, <2>1, <2>5 DEF Holding, Owned
      <4> QED
        BY <4>1, <2>i, <2>2, <2>5 DEF Owned
    <3>2. \A y \in Deleters : Aimed(y)' => Aimed(y) /\ deleter'[y].blobVer = deleter[y].blobVer
      BY <2>3, <2>5, <2>6 DEF Aimed
    <3> QED
      BY <3>1, <3>2, <2>i, <2>1 DEF Owned, Holding
  <2>11. Targeted'
    BY <2>i, <2>1, <2>3, <2>5, <2>6 DEF Targeted, Aimed, Retained
  <2>12. Removed'
    <3>1. \A y \in Deleters : BlobGone(y) => deleter[y].digest \in Digests
      BY DEF BlobGone, TypeInv, GoodDeleter
    <3> QED
      BY <3>1, <2>i, <2>1, <2>2, <2>3, <2>5, <2>6, <2>7 DEF Removed, BlobGone, RefGone
  <2>13. EnvelopeComplete'
    <3>1. ASSUME NEW d \in Digests, NEW e \in ref[d]
          PROVE  \/ e.blobVer \in blob'[d] \cup interrupted'
                 \/ \E y \in Deleters : /\ deleter'[y].pc = "ref" /\ deleter'[y].digest = d
                                        /\ deleter'[y].blobVer = e.blobVer
      <4>1. CASE d = r.digest /\ e.blobVer = r.blobVer
        BY <4>1, <2>3, <2>6
      <4>2. CASE e.blobVer \in blob[d] /\ ~(d = r.digest /\ e.blobVer = r.blobVer)
        BY <4>2, <2>2
      <4>3. CASE e.blobVer \notin blob[d]
        BY <4>3, <2>i, <2>1, <2>6 DEF EnvelopeComplete, DeleterAt
      <4> QED
        BY <4>1, <4>2, <4>3
    <3> QED
      BY <3>1, <2>1 DEF EnvelopeComplete, DeleterAt
  <2> QED
    BY <2>8, <2>9, <2>10, <2>11, <2>12, <2>13
<1>9. CASE DeleteRef(x)
  <2> DEFINE mine == {e \in ref[r.digest] : e.ver = r.headVer}
             s == [r EXCEPT !.pc = AfterRef(r)]
  <2>1. UNCHANGED <<blob, writer, expired, interrupted, clock>> /\ r.pc = "ref"
    BY <1>9 DEF DeleteRef, DeleterAt, outside, history
  <2>2. r.digest \in Digests /\ Aimed(x) /\ BlobGone(x)
    BY <1>w, <2>1 DEF GoodDeleter, Aimed, BlobGone
  <2>3. AfterRef(r) \in {"evidence", "restore", "latest_head"}
    BY DEF AfterRef
  <2>4. s.pc \in {"evidence", "restore", "latest_head"} /\ s.blobVer = r.blobVer /\ s.digest = r.digest
    BY <2>3, <1>w DEF DeleterState
  <2>5. PICK t : /\ Advance(x, t)
                 /\ \/ t.pc = "idle" /\ (\E e \in mine : Locked(e)) /\ ref' = ref
                    \/ /\ t.pc \in {"evidence", "restore", "latest_head"}
                       /\ t.blobVer = r.blobVer /\ t.digest = r.digest
                       /\ ref' = [ref EXCEPT ![r.digest] = @ \ mine]
    <3>1. CASE (\E e \in mine : Locked(e)) /\ Fail(x) /\ UNCHANGED ref
      BY <3>1, <1>e DEF Fail
    <3>2. CASE ref' = [ref EXCEPT ![r.digest] = @ \ mine] /\ Advance(x, s)
      BY <3>2, <2>4
    <3> QED
      BY <3>1, <3>2, <1>9 DEF DeleteRef
  <2>6. deleter' = [deleter EXCEPT ![x] = t] /\ deleter \in [Deleters -> DeleterState]
    BY <2>5 DEF Advance, TypeInv, TypeOK
  <2>7. (\A y \in Deleters : y # x => deleter'[y] = deleter[y]) /\ deleter'[x] = t
    BY <2>6
  <2>r. ref \in [Digests -> SUBSET Envelope]
    BY DEF TypeInv, TypeOK
  <2>8. \A d \in Digests : ref'[d] \subseteq ref[d]
    BY <2>5, <2>r
  <2> SUFFICES ASSUME Versioned
               PROVE  (OneEnvelope /\ Used /\ Owned /\ Targeted /\ Removed /\ EnvelopeComplete)'
    BY DEF IInv
  <2>i. OneEnvelope /\ Used /\ Owned /\ Targeted /\ Removed /\ EnvelopeComplete
    BY DEF IInv
  <2>9. OneEnvelope'
    BY <2>i, <2>8 DEF OneEnvelope
  <2>10. \A y \in Deleters : Aimed(y)' => /\ Aimed(y)
                                          /\ deleter'[y].blobVer = deleter[y].blobVer
                                          /\ deleter'[y].digest = deleter[y].digest
    BY <2>2, <2>5, <2>7 DEF Aimed
  <2>11. Used'
    BY <2>i, <2>1, <2>8, <2>10 DEF Used, Holding
  <2>12. Owned'
    BY <2>i, <2>1, <2>8, <2>10 DEF Owned, Holding
  <2>13. Targeted'
    <3>1. \A y \in Deleters : Aimed(y) => deleter[y].digest \in Digests
      BY DEF Aimed, TypeInv, GoodDeleter
    <3>2. \A y \in Deleters : deleter'[y].pc \in {"blob", "ref"} => y # x
      BY <2>5, <2>7
    <3> QED
      BY <3>1, <3>2, <2>i, <2>1, <2>7, <2>8, <2>10 DEF Targeted, Retained
  <2>14. \A e \in ref'[r.digest] : t.pc # "idle" => e.blobVer # r.blobVer
    <3>1. \A e \in ref[r.digest] : e.blobVer = r.blobVer => e \in mine
      BY <2>i, <2>1, <2>2 DEF Targeted
    <3> QED
      BY <3>1, <2>2, <2>5, <2>r
  <2>15. Removed'
    <3>1. \A y \in Deleters : BlobGone(y) \/ RefGone(y) => deleter[y].digest \in Digests
      BY DEF BlobGone, RefGone, TypeInv, GoodDeleter
    <3>2. ASSUME NEW y \in Deleters, y # x
          PROVE  /\ BlobGone(y)' => deleter'[y].blobVer \notin blob'[deleter'[y].digest]
                 /\ RefGone(y)' => \A e \in ref'[deleter'[y].digest] : e.blobVer # deleter'[y].blobVer
      BY <3>1, <3>2, <2>i, <2>1, <2>7, <2>8 DEF Removed, BlobGone, RefGone
    <3>3. /\ BlobGone(x)' => deleter'[x].blobVer \notin blob'[deleter'[x].digest]
          /\ RefGone(x)' => \A e \in ref'[deleter'[x].digest] : e.blobVer # deleter'[x].blobVer
      BY <2>i, <2>1, <2>2, <2>5, <2>7, <2>14 DEF Removed, BlobGone, RefGone
    <3> QED
      BY <3>2, <3>3 DEF Removed
  <2>16. EnvelopeComplete'
    <3>1. ASSUME NEW d \in Digests, NEW e \in ref'[d]
          PROVE  \/ e.blobVer \in blob'[d] \cup interrupted'
                 \/ \E y \in Deleters : /\ deleter'[y].pc = "ref" /\ deleter'[y].digest = d
                                        /\ deleter'[y].blobVer = e.blobVer
      <4>1. e \in ref[d]
        BY <2>8
      <4>2. CASE e.blobVer \in blob[d] \cup interrupted
        BY <4>2, <2>1
      <4>3. CASE \E y \in Deleters \ {x} : /\ deleter[y].pc = "ref" /\ deleter[y].digest = d
                                           /\ deleter[y].blobVer = e.blobVer
        BY <4>3, <2>7
      <4>4. CASE d = r.digest /\ e.blobVer = r.blobVer
        <5>1. ~Retained(e) /\ e.ver = r.headVer
          BY <4>1, <4>4, <2>i, <2>1, <2>2 DEF Targeted
        <5>2. \A f \in mine : f = e
          BY <4>1, <4>4, <2>i, <2>2 DEF OneEnvelope
        <5>3. ~ \E f \in mine : Locked(f)
          BY <5>1, <5>2 DEF Locked, Retained
        <5> QED
          BY <5>3, <4>4, <2>5, <2>14
      <4> QED
        BY <4>1, <4>2, <4>3, <4>4, <2>i, <2>1 DEF EnvelopeComplete, DeleterAt
    <3> QED
      BY <3>1 DEF EnvelopeComplete, DeleterAt
  <2> QED
    BY <2>9, <2>11, <2>12, <2>13, <2>15, <2>16
<1> QED
  BY <1>1, <1>2, <1>3, <1>4, <1>5, <1>6, <1>7, <1>8, <1>9 DEF DeleteStep

\* create_resource and the passing of a deadline keep the invariant.
LEMMA OtherIInv ==
  ASSUME TypeInv, TypeInv', IInv, CreateResource \/ Expire \/ UNCHANGED vars PROVE IInv'
<1>1. UNCHANGED <<blob, ref, writer, deleter, interrupted, clock>> /\ (expired => expired')
  BY DEF CreateResource, Expire, vars, bucket, outside, history
<1>2. clock <= clock'
  BY <1>1 DEF TypeInv, TypeOK
<1>3. (\A w \in Writers : Holding(w)' = Holding(w)) /\ interrupted \subseteq interrupted'
  BY <1>1 DEF Holding
<1>4. \A x \in Deleters : Aimed(x)' = Aimed(x) /\ BlobGone(x)' = BlobGone(x) /\ RefGone(x)' = RefGone(x)
  BY <1>1 DEF Aimed, BlobGone, RefGone
<1> QED
  BY <1>1, <1>2, <1>3, <1>4, QuietStep

\* In a versioned bucket, whatever puts, deletes, crashes and lost responses
\* interleave: every stored payload version has one owner at most, and every
\* envelope is complete or under deletion.
THEOREM Ownership == Spec => []IInv
<1>1. Init => IInv
  BY InitIInv
<1>2. TypeInv /\ TypeInv' /\ IInv /\ [Next]_vars => IInv'
  BY PutIInv, DeleteIInv, OtherIInv DEF Next, Finished
<1> QED
  BY <1>1, <1>2, TypeCorrect, PTL DEF Spec

\* A published envelope never loses its payload to a concurrent operation: only
\* a delete of that very object, running or interrupted, can have taken it.
THEOREM EnvelopesAreComplete == Spec => []EnvelopeComplete
<1>1. IInv => EnvelopeComplete
  BY DEF IInv, EnvelopeComplete
<1> QED
  BY <1>1, Ownership, PTL

\* A delete that goes on to the pointer has removed what it set out to remove.
THEOREM DeletesRemove == Spec => []DeletedIsGone
<1>1. IInv => DeletedIsGone
  BY DEF IInv, DeletedIsGone, Removed, BlobGone, RefGone
<1> QED
  BY <1>1, Ownership, PTL
-----------------------------------------------------------------------------
(* Two circumstances under which no retained envelope is ever removed: the   *)
(* provider enforces every retention the callers ask for, or deletes of an   *)
(* object do not overlap.  Without either it happens (RetentionRace.cfg).    *)

\* Every envelope asks for no retention or for a deadline.
NoPolicy == \A d \in Digests : \A e \in ref[d] : e.retention # "policy"

\* The digest a delete has aimed at has an envelope, which may be deleted, until
\* the delete removes it.
InPlace ==
  \A x \in Deleters : Aimed(x) /\ ~RefGone(x) =>
    /\ ref[deleter[x].digest] # {}
    /\ \A e \in ref[deleter[x].digest] : ~Retained(e)

\* Envelopes are written by puts and removed by deletes, nothing else.
LEMMA WhoChangesRef ==
  ASSUME [Next]_vars
  PROVE  \/ ref' = ref
         \/ \E w \in Writers : PutEnvelope(w)
         \/ \E x \in Deleters : DeleteRef(x)
<1>1. ASSUME NEW w \in Writers, StartPut(w) \/ PutStep(w) \/ InterruptPut(w)
      PROVE  ref' = ref \/ PutEnvelope(w)
  BY <1>1 DEF StartPut, PutStep, InterruptPut, ReadPointer, ResolveNothing, ResolveDecided,
     ResolveProceed, ResolveWinner, PutBlob, VerifyBlob, PutLatest, RecordOrphan, PutOnly, bucket
<1>2. ASSUME NEW x \in Deleters, StartDelete(x) \/ DeleteStep(x) \/ InterruptDelete(x)
      PROVE  ref' = ref \/ DeleteRef(x)
  BY <1>2 DEF StartDelete, DeleteStep, InterruptDelete, ReadTarget, ReadLatestPointer,
     ResolveLatest, ListVersions, ScanVersion, HeadEnvelope, DeleteBlob, RestorePrevious,
     HeadLatest, DeleteLatest, RecordEvidence, DeleteOnly, bucket
<1>3. CreateResource \/ Expire \/ Finished \/ UNCHANGED vars => ref' = ref
  BY DEF CreateResource, Expire, Finished, vars, bucket
<1> QED
  BY <1>1, <1>2, <1>3 DEF Next

\* A put adds an envelope with the retention it was asked for, and only to a
\* digest that has none.
LEMMA PutAdds ==
  ASSUME TypeInv, NEW w \in Writers, PutEnvelope(w)
  PROVE  /\ \A d \in Digests : \A e \in ref'[d] :
              e \in ref[d] \/ e.retention = writer[w].req.retention
         /\ \A d \in Digests : ref[d] # {} => ref'[d] = ref[d]
         /\ writer[w].req \in PutRequests
<1>1. writer[w] \in GoodWriter /\ writer[w].pc = "envelope" /\ ref \in [Digests -> SUBSET Envelope]
  BY DEF TypeInv, TypeOK, PutEnvelope, WriterAt
<1>2. writer[w].req \in PutRequests
  BY <1>1 DEF GoodWriter
<1>3. EnvelopeOf(writer[w]).retention = writer[w].req.retention
  BY DEF EnvelopeOf
<1>4. \/ ref' = ref
      \/ /\ ref[writer[w].req.digest] = {}
         /\ ref' = [ref EXCEPT ![writer[w].req.digest] = Store(@, EnvelopeOf(writer[w]))]
  BY DEF PutEnvelope
<1> QED
  BY <1>1, <1>2, <1>3, <1>4 DEF Store

\* A delete removes envelope versions the provider does not hold.
LEMMA DeleteRemoves ==
  ASSUME TypeInv, NEW x \in Deleters, DeleteRef(x)
  PROVE  \A d \in Digests : \A e \in ref[d] :
           e \notin ref'[d] =>
             d = deleter[x].digest /\ e.ver = deleter[x].headVer /\ ~Locked(e)
<1> DEFINE mine == {e \in ref[deleter[x].digest] : e.ver = deleter[x].headVer}
<1>1. \/ ref' = ref
      \/ /\ \A e \in mine : ~Locked(e)
         /\ ref' = [ref EXCEPT ![deleter[x].digest] = @ \ mine]
  BY DEF DeleteRef
<1>2. ref \in [Digests -> SUBSET Envelope]
  BY DEF TypeInv, TypeOK
<1>3. ASSUME NEW d \in Digests, NEW e \in ref[d], e \notin ref'[d]
      PROVE  d = deleter[x].digest /\ e.ver = deleter[x].headVer /\ ~Locked(e)
  <2>1. ref' = [ref EXCEPT ![deleter[x].digest] = @ \ mine] /\ \A f \in mine : ~Locked(f)
    BY <1>1, <1>3
  <2>2. d = deleter[x].digest
    BY <1>2, <1>3, <2>1
  <2>3. e \in mine
    BY <1>2, <1>3, <2>1, <2>2
  <2> QED
    BY <2>1, <2>2, <2>3
<1> QED
  BY <1>3, Zenon

-----------------------------------------------------------------------------
(* Enforced by the provider. *)

\* Callers that never ask for a policy never store one.
LEMMA NoPolicyHolds ==
  ASSUME \A req \in PutRequests : req.retention # "policy"
  PROVE  Spec => []NoPolicy
<1>1. Init => NoPolicy
  BY DEF Init, NoPolicy
<1>2. TypeInv /\ NoPolicy /\ [Next]_vars => NoPolicy'
  <2> SUFFICES ASSUME TypeInv, NoPolicy, [Next]_vars PROVE NoPolicy'
    OBVIOUS
  <2>1. CASE ref' = ref
    BY <2>1 DEF NoPolicy
  <2>2. ASSUME NEW w \in Writers, PutEnvelope(w) PROVE NoPolicy'
    BY <2>2, PutAdds DEF NoPolicy
  <2>3. ASSUME NEW x \in Deleters, DeleteRef(x) PROVE NoPolicy'
    <3>1. ref \in [Digests -> SUBSET Envelope]
      BY DEF TypeInv, TypeOK
    <3>2. \A d \in Digests : ref'[d] \subseteq ref[d]
      BY <2>3, <3>1 DEF DeleteRef
    <3> QED
      BY <3>2 DEF NoPolicy
  <2> QED
    BY <2>1, <2>2, <2>3, WhoChangesRef
<1> QED
  BY <1>1, <1>2, TypeCorrect, PTL DEF Spec

\* With Object Lock and deadlines only, no envelope under retention is removed by
\* _delete, whatever puts and deletes of the digest interleave: the version a
\* late delete found by head is refused by the provider.
THEOREM EnforcedRetentionHolds ==
  ASSUME ProviderLock, \A req \in PutRequests : req.retention # "policy"
  PROVE  Spec => RetentionHolds
<1>1. TypeInv /\ NoPolicy /\ [Next]_vars =>
        [\A d \in Digests : \A e \in ref[d] : Retained(e) => e \in ref'[d]]_vars
  <2> SUFFICES ASSUME TypeInv, NoPolicy, [Next]_vars,
                      NEW d \in Digests, NEW e \in ref[d], Retained(e)
               PROVE  e \in ref'[d]
    OBVIOUS
  <2>1. ASSUME NEW w \in Writers, PutEnvelope(w) PROVE e \in ref'[d]
    BY <2>1, PutAdds, BucketAssumption
  <2>2. ASSUME NEW x \in Deleters, DeleteRef(x) PROVE e \in ref'[d]
    <3>1. e.retention = "until" /\ ~expired
      BY DEF NoPolicy, Retained
    <3>2. Locked(e)
      BY <3>1 DEF Locked
    <3> QED
      BY <2>2, <3>2, DeleteRemoves
  <2> QED
    BY <2>1, <2>2, WhoChangesRef
<1> QED
  BY <1>1, NoPolicyHolds, TypeCorrect, PTL DEF Spec, RetentionHolds
-----------------------------------------------------------------------------
(* One delete at a time. *)

\* How far a delete has come after a step of it: it has not read its envelope or
\* is past removing it, or it has just read and checked it, or it still aims at
\* the same digest.
Follows(x) ==
  \/ ~Aimed(x)' \/ RefGone(x)'
  \/ /\ ref' = ref /\ deleter'[x].digest = deleter[x].digest
     /\ \/ \E e \in ref[deleter[x].digest] : ~Retained(e)
        \/ Aimed(x) /\ ~RefGone(x)

\* _delete keeps the digest whose envelope it checked in its local variables
\* from the first request to the last.
LEMMA DeleteFollows ==
  ASSUME TypeInv, NEW x \in Deleters,
         StartDelete(x) \/ DeleteStep(x) \/ InterruptDelete(x)
  PROVE  Follows(x)
<1> DEFINE r == deleter[x]
<1>w. r \in DeleterState /\ deleter \in [Deleters -> DeleterState]
  BY DEF TypeInv, TypeOK
<1>e. \A o : Deleted(o).pc = "idle"
  BY DEF Deleted
<1>a. \A s : Advance(x, s) => deleter'[x] = s
  BY <1>w DEF Advance
<1>f. Fail(x) => Follows(x)
  BY <1>a, <1>e DEF Fail, Follows, Aimed
<1>g. ASSUME NEW s, Advance(x, s), ref' = ref, Aimed(x), ~RefGone(x), s.digest = r.digest
      PROVE  Follows(x)
  BY <1>a, <1>g DEF Follows
<1>1. CASE StartDelete(x)
  <2>1. PICK d \in Digests : Advance(x, [Deleted("none") EXCEPT !.pc = "target", !.digest = d])
    BY <1>1 DEF StartDelete
  <2>2. [Deleted("none") EXCEPT !.pc = "target", !.digest = d].pc = "target"
    BY DEF Deleted
  <2> QED
    BY <1>a, <2>1, <2>2 DEF Follows, Aimed
<1>2. CASE ReadTarget(x)
  <2>1. ASSUME NEW e \in ref[r.digest], DeleteAllowed(e),
               Advance(x, [r EXCEPT !.pc = "pointer", !.blobVer = e.blobVer])
        PROVE  Follows(x)
    <3>1. [r EXCEPT !.pc = "pointer", !.blobVer = e.blobVer].digest = r.digest
      BY <1>w DEF DeleterState
    <3>2. ref' = ref
      BY <1>2 DEF ReadTarget, DeleteOnly, bucket
    <3> QED
      BY <1>a, <2>1, <3>1, <3>2 DEF Follows, DeleteAllowed
  <2> QED
    BY <1>2, <1>f, <2>1 DEF ReadTarget
<1>3. CASE ReadLatestPointer(x) \/ ResolveLatest(x) \/ ListVersions(x)
  <2>1. ref' = ref /\ Aimed(x) /\ ~RefGone(x)
    BY <1>3 DEF ReadLatestPointer, ResolveLatest, ListVersions, DeleteOnly, bucket,
                DeleterAt, Aimed, RefGone
  <2>2. \E s : Advance(x, s) /\ s.digest = r.digest
    <3>1. CASE ReadLatestPointer(x)
      <4>1. [r EXCEPT !.pc = "list"].digest = r.digest
        BY <1>w DEF DeleterState
      <4>2. \A p : [r EXCEPT !.pc = "resolve", !.ptr = p].digest = r.digest
        BY <1>w DEF DeleterState
      <4> QED
        BY <4>1, <4>2, <3>1 DEF ReadLatestPointer
    <3>2. CASE ResolveLatest(x)
      <4>1. \A b : [r EXCEPT !.pc = "list", !.ptr = NoDigest, !.wasLatest = b].digest = r.digest
        BY <1>w DEF DeleterState
      <4> QED
        BY <4>1, <3>2 DEF ResolveLatest
    <3>3. CASE ListVersions(x)
      <4>1. \A S : [r EXCEPT !.pc = "scan", !.scan = S].digest = r.digest
        BY <1>w DEF DeleterState
      <4> QED
        BY <4>1, <3>3 DEF ListVersions
    <3> QED
      BY <3>1, <3>2, <3>3, <1>3
  <2> QED
    BY <1>g, <2>1, <2>2
<1>4. CASE ScanVersion(x)
  <2>1. ref' = ref /\ Aimed(x) /\ ~RefGone(x)
    BY <1>4 DEF ScanVersion, DeleteOnly, bucket, DeleterAt, Aimed, RefGone
  <2>2. CASE Advance(x, [r EXCEPT !.pc = "head"])
    <3>1. [r EXCEPT !.pc = "head"].digest = r.digest
      BY <1>w DEF DeleterState
    <3> QED
      BY <1>g, <2>1, <2>2, <3>1
  <2>3. ASSUME NEW d \in r.scan, NEW e \in ref[d],
               \/ Advance(x, [r EXCEPT !.scan = @ \ {d}])
               \/ Advance(x, [r EXCEPT !.scan = @ \ {d}, !.previous = d,
                                       !.previousCreated = e.created])
        PROVE  Follows(x)
    <3>1. [r EXCEPT !.scan = @ \ {d}].digest = r.digest
      BY <1>w DEF DeleterState
    <3>2. [r EXCEPT !.scan = @ \ {d}, !.previous = d, !.previousCreated = e.created].digest = r.digest
      BY <1>w DEF DeleterState
    <3> QED
      BY <1>g, <2>1, <2>3, <3>1, <3>2
  <2> QED
    BY <1>4, <1>f, <2>2, <2>3 DEF ScanVersion
<1>5. CASE HeadEnvelope(x) \/ DeleteBlob(x)
  <2>1. ref' = ref /\ Aimed(x) /\ ~RefGone(x)
    BY <1>5 DEF HeadEnvelope, DeleteBlob, DeleteOnly, bucket, DeleterAt, Aimed, RefGone
  <2>2. \A v : [r EXCEPT !.pc = "blob", !.headVer = v].digest = r.digest
    BY <1>w DEF DeleterState
  <2>3. [r EXCEPT !.pc = "ref"].digest = r.digest
    BY <1>w DEF DeleterState
  <2>4. CASE HeadEnvelope(x)
    BY <1>f, <1>g, <2>1, <2>2, <2>4 DEF HeadEnvelope
  <2>5. CASE DeleteBlob(x)
    BY <1>g, <2>1, <2>3, <2>5 DEF DeleteBlob
  <2> QED
    BY <1>5, <2>4, <2>5
<1>6. CASE DeleteRef(x)
  <2>1. AfterRef(r) \in {"evidence", "restore", "latest_head"}
    BY DEF AfterRef
  <2>2. [r EXCEPT !.pc = AfterRef(r)].pc \in {"evidence", "restore", "latest_head"}
    BY <1>w, <2>1 DEF DeleterState
  <2> QED
    BY <1>6, <1>a, <1>f, <2>2 DEF DeleteRef, Follows, RefGone
<1>7. CASE RestorePrevious(x) \/ DeleteLatest(x)
  <2>1. [r EXCEPT !.pc = "evidence"].pc = "evidence"
    BY <1>w DEF DeleterState
  <2> QED
    BY <1>7, <1>a, <2>1 DEF RestorePrevious, DeleteLatest, Follows, RefGone
<1>8. CASE HeadLatest(x)
  <2>1. \A v : [r EXCEPT !.pc = "latest_delete", !.headVer = v].pc = "latest_delete"
    BY <1>w DEF DeleterState
  <2> QED
    BY <1>8, <1>a, <1>f, <2>1 DEF HeadLatest, Follows, RefGone
<1>9. CASE RecordEvidence(x)
  BY <1>9, <1>a, <1>e DEF RecordEvidence, Follows, Aimed
<1>10. CASE InterruptDelete(x)
  BY <1>10, <1>f DEF InterruptDelete
<1> QED
  BY <1>1, <1>2, <1>3, <1>4, <1>5, <1>6, <1>7, <1>8, <1>9, <1>10 DEF DeleteStep

\* A digest never has two envelopes: they are written create-only.
LEMMA OneEnvelopeHolds == Spec => []OneEnvelope
<1>1. Init => OneEnvelope
  BY DEF Init, OneEnvelope
<1>2. TypeInv /\ OneEnvelope /\ [Next]_vars => OneEnvelope'
  <2> SUFFICES ASSUME TypeInv, OneEnvelope, [Next]_vars PROVE OneEnvelope'
    OBVIOUS
  <2>t. ref \in [Digests -> SUBSET Envelope]
    BY DEF TypeInv, TypeOK
  <2>1. CASE ref' = ref
    BY <2>1 DEF OneEnvelope
  <2>2. ASSUME NEW w \in Writers, PutEnvelope(w) PROVE OneEnvelope'
    BY <2>t, <2>2 DEF OneEnvelope, PutEnvelope, Store
  <2>3. ASSUME NEW x \in Deleters, DeleteRef(x) PROVE OneEnvelope'
    <3>1. \A d \in Digests : ref'[d] \subseteq ref[d]
      BY <2>t, <2>3 DEF DeleteRef
    <3> QED
      BY <3>1 DEF OneEnvelope
  <2> QED
    BY <2>1, <2>2, <2>3, WhoChangesRef
<1> QED
  BY <1>1, <1>2, TypeCorrect, PTL DEF Spec

\* A lone delete keeps its envelope in place: nobody else removes envelopes, and
\* none is written over another.
LEMMA InPlaceHolds ==
  ASSUME \A x, y \in Deleters : x = y
  PROVE  Spec => []InPlace
<1>1. Init => InPlace
  BY DEF Init, InPlace, Aimed, Deleted
<1>2. TypeInv /\ TypeInv' /\ OneEnvelope /\ InPlace /\ [Next]_vars => InPlace'
  <2> SUFFICES ASSUME TypeInv, TypeInv', OneEnvelope, InPlace, [Next]_vars,
                      NEW x \in Deleters, Aimed(x)', ~RefGone(x)'
               PROVE  LET d == deleter'[x].digest
                      IN  ref'[d] # {} /\ \A e \in ref'[d] : ~Retained(e)'
    BY DEF InPlace
  <2>e. expired' = expired \/ expired'
    BY DEF Next, Finished, vars, outside, CreateResource, Expire, StartPut, PutStep, InterruptPut,
       ReadPointer, ResolveNothing, ResolveDecided, ResolveProceed, ResolveWinner, PutBlob,
       VerifyBlob, PutEnvelope, PutLatest, RecordOrphan, PutOnly, StartDelete, DeleteStep,
       InterruptDelete, ReadTarget, ReadLatestPointer, ResolveLatest, ListVersions, ScanVersion,
       HeadEnvelope, DeleteBlob, DeleteRef, RestorePrevious, HeadLatest, DeleteLatest,
       RecordEvidence, DeleteOnly
  <2>r. \A e : ~Retained(e) => ~Retained(e)'
    BY <2>e DEF Retained
  <2>d. Aimed(x) => deleter[x].digest \in Digests
    BY DEF TypeInv, GoodDeleter, Aimed
  <2>1. CASE StartDelete(x) \/ DeleteStep(x) \/ InterruptDelete(x)
    <3>1. /\ ref' = ref /\ deleter'[x].digest = deleter[x].digest
          /\ \/ \E e \in ref[deleter[x].digest] : ~Retained(e)
             \/ Aimed(x) /\ ~RefGone(x)
      BY <2>1, DeleteFollows DEF Follows
    <3>2. deleter[x].digest \in Digests
      BY <3>1 DEF TypeInv, GoodDeleter, Aimed
    <3>3. ref[deleter[x].digest] # {} /\ \A e \in ref[deleter[x].digest] : ~Retained(e)
      BY <3>1, <3>2 DEF InPlace, OneEnvelope
    <3> QED
      BY <2>r, <3>1, <3>3
  <2>2. ASSUME ref' = ref \/ (\E w \in Writers : PutEnvelope(w)), deleter' = deleter
        PROVE  LET d == deleter'[x].digest
               IN  ref'[d] # {} /\ \A e \in ref'[d] : ~Retained(e)'
    <3>1. Aimed(x) /\ ~RefGone(x)
      BY <2>2 DEF Aimed, RefGone
    <3>2. ref'[deleter[x].digest] = ref[deleter[x].digest]
      BY <2>2, <2>d, <3>1, PutAdds DEF InPlace
    <3> QED
      BY <2>2, <2>r, <3>1, <3>2 DEF InPlace
  <2>3. ASSUME NEW w \in Writers, StartPut(w) \/ PutStep(w) \/ InterruptPut(w)
        PROVE  deleter' = deleter
    BY <2>3 DEF StartPut, PutStep, InterruptPut, ReadPointer, ResolveNothing, ResolveDecided,
       ResolveProceed, ResolveWinner, PutBlob, VerifyBlob, PutEnvelope, PutLatest, RecordOrphan,
       PutOnly
  <2>4. ASSUME NEW w \in Writers, StartPut(w) \/ PutStep(w) \/ InterruptPut(w)
        PROVE  ref' = ref \/ PutEnvelope(w)
    BY <2>4 DEF StartPut, PutStep, InterruptPut, ReadPointer, ResolveNothing, ResolveDecided,
       ResolveProceed, ResolveWinner, PutBlob, VerifyBlob, PutLatest, RecordOrphan, PutOnly, bucket
  <2>5. CASE CreateResource \/ Expire \/ Finished \/ UNCHANGED vars
    <3>1. ref' = ref /\ deleter' = deleter
      BY <2>5 DEF CreateResource, Expire, Finished, vars, bucket
    <3> QED
      BY <2>2, <3>1
  <2> QED
    BY <2>1, <2>2, <2>3, <2>4, <2>5 DEF Next
<1> QED
  BY <1>1, <1>2, OneEnvelopeHolds, TypeCorrect, PTL DEF Spec

\* The check of require_delete_allowed alone keeps retained envelopes, in any
\* bucket and whatever puts run and whatever fails, as long as one delete of the
\* object runs at a time: the envelope that was checked is the one removed.
THEOREM LoneDeleteRetains ==
  ASSUME \A x, y \in Deleters : x = y
  PROVE  Spec => RetentionHolds
<1>1. TypeInv /\ InPlace /\ [Next]_vars =>
        [\A d \in Digests : \A e \in ref[d] : Retained(e) => e \in ref'[d]]_vars
  <2> SUFFICES ASSUME TypeInv, InPlace, [Next]_vars,
                      NEW d \in Digests, NEW e \in ref[d], Retained(e)
               PROVE  e \in ref'[d]
    OBVIOUS
  <2>1. ASSUME NEW w \in Writers, PutEnvelope(w) PROVE e \in ref'[d]
    BY <2>1, PutAdds
  <2>2. ASSUME NEW x \in Deleters, DeleteRef(x) PROVE e \in ref'[d]
    <3>1. Aimed(x) /\ ~RefGone(x)
      BY <2>2 DEF DeleteRef, DeleterAt, Aimed, RefGone
    <3>2. d # deleter[x].digest
      BY <3>1 DEF InPlace
    <3> QED
      BY <2>2, <3>2, DeleteRemoves
  <2> QED
    BY <2>1, <2>2, WhoChangesRef
<1> QED
  BY <1>1, InPlaceHolds, TypeCorrect, PTL DEF Spec, RetentionHolds
=============================================================================
