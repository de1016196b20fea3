-------------------------- MODULE S3ReadersProofs --------------------------
(***************************************************************************)
(* Proofs about S3Readers: the pointer of an unversioned bucket while puts *)
(* and deletes run one at a time, and what reads find.  Reads themselves   *)
(* interleave with everything.                                             *)
(***************************************************************************)
EXTENDS S3Readers, S3ObjectsProofs, FiniteSetTheorems

-----------------------------------------------------------------------------
(* One operation at a time. *)

\* The circumstances: an unversioned bucket, at most one put or delete running,
\* none interrupted and no response lost.  Reads are not restricted.
OneAtATime ==
  /\ ~Versioned /\ MaxInFlight = 1 /\ MaxFaults = 0
  /\ IsFiniteSet(Writers) /\ IsFiniteSet(Deleters)

\* No two envelopes are of the same age.
Distinct == \A c, d \in Digests : \A e \in ref[c] : \A f \in ref[d] : e.created = f.created => c = d

\* The keys of an unversioned bucket have one version.
Keys ==
  /\ \A d \in Digests : blob[d] \subseteq {0}
  /\ \A d \in Digests : \A e \in ref[d] : e.ver = 0 /\ e.blobVer = 0 /\ e.created < clock
  /\ OneEnvelope /\ Distinct
  /\ \A p \in latest : p.ver = 0
  /\ \A p, q \in latest : p = q

\* No envelope is younger than the envelope of digest d, which is there.
Newest(d) ==
  /\ ref[d] # {}
  /\ \A c \in Digests : \A e \in ref[c] : \A f \in ref[d] : e.created <= f.created

NoReference == \A d \in Digests : ref[d] = {}

\* The pointer is right: it names the newest object, if there is any object.
Settled == /\ \A p \in latest : Newest(p.digest)
           /\ latest = {} => NoReference

PointerResolves == \A p \in latest : ref[p.digest] # {}

\* What holds of the bucket while the one operation that runs is a put with
\* local state r.
PutFits(r) ==
  /\ \A d \in Digests : ref[d] # {} => 0 \in blob[d]
  /\ PointerResolves
  /\ r.pc # "latest" => Settled
  /\ r.pc = "resolve" => ref[r.ptr] # {}
  /\ r.pc \in {"blob", "verify", "envelope", "latest"} /\ LatestCreateOnly(r) => latest = {}
  /\ r.pc \in {"verify", "envelope", "latest"} => r.blobVer = 0 /\ 0 \in blob[r.req.digest]
  /\ r.pc = "envelope" => /\ r.created < clock
                          /\ \A d \in Digests : \A e \in ref[d] : e.created < r.created
  /\ r.pc = "latest" => Newest(r.req.digest)

\* The previous version a delete has chosen so far is the newest of the other
\* digests it has looked at.
Chosen(r) ==
  /\ r.previous # NoDigest =>
       /\ r.previous # r.digest /\ ref[r.previous] # {}
       /\ \A f \in ref[r.previous] : f.created = r.previousCreated
  /\ \A d \in Digests \ (r.scan \cup {r.digest}) : \A e \in ref[d] :
       r.previous # NoDigest /\ e.created <= r.previousCreated

\* The pointer names the digest that is being deleted.
IsLatest(d) == \E p \in latest : p.digest = d

\* What holds of the bucket while the one operation that runs is a delete with
\* local state r.
DeleteFits(r) ==
  /\ \A d \in Digests : ref[d] # {} => 0 \in blob[d] \/ (r.pc = "ref" /\ r.digest = d)
  /\ r.pc \notin {"restore", "latest_head", "latest_delete"} => Settled
  /\ r.pc \in {"target", "pointer", "resolve"} => ~r.wasLatest
  /\ r.pc \in {"target", "pointer", "resolve", "list"} => r.previous = NoDigest
  /\ r.pc = "resolve" => IsLatest(r.ptr)
  /\ r.pc \in {"list", "scan", "head", "blob", "ref"} => r.wasLatest = IsLatest(r.digest)
  /\ r.pc \in {"scan", "head", "blob", "ref"} => Chosen(r)
  /\ r.pc \in {"head", "blob", "ref"} => r.scan = {}
  /\ r.pc \in {"blob", "ref", "latest_delete"} => r.headVer = 0
  /\ r.pc = "restore" => Newest(r.previous)
  /\ r.pc \in {"latest_head", "latest_delete"} => NoReference

\* Nobody but the put w, or nobody but the delete x, is between two requests.
OnlyPut(w) == /\ \A v \in Writers \ {w} : WriterAt(v, "idle")
              /\ \A x \in Deleters : DeleterAt(x, "idle")
OnlyDelete(x) == /\ \A w \in Writers : WriterAt(w, "idle")
                 /\ \A y \in Deleters \ {x} : DeleterAt(y, "idle")
AllIdle == /\ \A w \in Writers : WriterAt(w, "idle")
           /\ \A x \in Deleters : DeleterAt(x, "idle")
WholeAndSettled == Settled /\ \A d \in Digests : ref[d] # {} => 0 \in blob[d]

\* The inductive invariant: the keys are in order, and the bucket fits the local
\* state of the one operation that runs, or nobody runs and it is settled.
Sequential ==
  /\ Keys
  /\ \/ AllIdle /\ WholeAndSettled
     \/ \E w \in Writers : OnlyPut(w) /\ PutFits(writer[w])
     \/ \E x \in Deleters : OnlyDelete(x) /\ DeleteFits(deleter[x])

\* Among finitely many callers, nobody in flight means that everybody is idle.
LEMMA QuietIsIdle ==
  ASSUME IsFiniteSet(Writers), IsFiniteSet(Deleters)
  PROVE  /\ InFlight < 1 => AllIdle
         /\ Quiet => AllIdle
<1> DEFINE W == {w \in Writers : writer[w].pc # "idle"}
           X == {x \in Deleters : deleter[x].pc # "idle"}
<1>1. IsFiniteSet(W) /\ IsFiniteSet(X)
  BY FS_Subset
<1>2. Cardinality(W) \in Nat /\ Cardinality(X) \in Nat
  BY <1>1, FS_CardinalityType
<1>3. InFlight = Cardinality(W) + Cardinality(X)
  BY DEF InFlight
<1>4. Cardinality(W) = 0 /\ Cardinality(X) = 0 => AllIdle
  <2>1. (Cardinality(W) = 0 => W = {}) /\ (Cardinality(X) = 0 => X = {})
    BY <1>1, FS_EmptySet
  <2> QED
    BY <2>1 DEF AllIdle, WriterAt, DeleterAt
<1> HIDE DEF W, X
<1>5. InFlight < 1 => Cardinality(W) = 0 /\ Cardinality(X) = 0
  BY <1>2, <1>3
<1>6. Quiet => Cardinality(W) = 0 /\ Cardinality(X) = 0
  BY <1>2, <1>3 DEF Quiet
<1> QED
  BY <1>4, <1>5, <1>6

\* When everybody is idle the bucket is settled.
LEMMA IdleIsSettled ==
  ASSUME Sequential, AllIdle PROVE WholeAndSettled
<1>1. ASSUME NEW w \in Writers, PutFits(writer[w]) PROVE WholeAndSettled
  BY <1>1 DEF AllIdle, WriterAt, PutFits, WholeAndSettled
<1>2. ASSUME NEW x \in Deleters, DeleteFits(deleter[x]) PROVE WholeAndSettled
  BY <1>2 DEF AllIdle, DeleterAt, DeleteFits, WholeAndSettled
<1> QED
  BY <1>1, <1>2 DEF Sequential

\* A step that leaves the bucket as it is and lets time pass keeps its keys in
\* order, and what is settled stays settled.
LEMMA SameBucket ==
  ASSUME TypeInv, UNCHANGED <<blob, ref, latest>>, clock' = clock \/ clock' = clock + 1
  PROVE  /\ Keys => Keys'
         /\ Settled' = Settled
         /\ PointerResolves' = PointerResolves
         /\ NoReference' = NoReference
         /\ \A d : Newest(d)' = Newest(d)
         /\ \A d : IsLatest(d)' = IsLatest(d)
<1>1. \A d : Newest(d)' = Newest(d) /\ IsLatest(d)' = IsLatest(d)
  BY DEF Newest, IsLatest
<1>2. NoReference' = NoReference /\ PointerResolves' = PointerResolves
  BY DEF NoReference, PointerResolves
<1>3. Settled' = Settled
  BY <1>1, <1>2 DEF Settled
<1>4. \A n \in Nat : n < clock => n < clock'
  BY DEF TypeInv, TypeOK
<1>5. \A d \in Digests : \A e \in ref[d] : e.created \in Nat
  BY DEF TypeInv, TypeOK, Envelope
<1>6. ASSUME Keys PROVE Keys'
  BY <1>4, <1>5, <1>6 DEF Keys, OneEnvelope, Distinct
<1> QED
  BY <1>1, <1>2, <1>3, <1>6

\* A put alone that reads, or writes outside the keys of the object, finds the
\* bucket as the state it moves to expects it.
LEMMA QuietPutFits ==
  ASSUME TypeInv, Keys, NEW w \in Writers, NEW s, writer'[w] = s,
         PutFits(writer[w]), writer[w].pc # "latest",
         UNCHANGED <<blob, ref, latest>>, clock' = clock \/ clock' = clock + 1,
         s.pc \in {"idle", "pointer", "resolve", "blob", "orphan"},
         s.pc = "resolve" => ref[s.ptr] # {},
         s.pc = "blob" /\ LatestCreateOnly(s) => latest = {}
  PROVE  Keys' /\ PutFits(writer[w])'
<1>1. Keys' /\ Settled' /\ PointerResolves'
  BY SameBucket DEF PutFits
<1>2. LatestCreateOnly(writer[w])' = LatestCreateOnly(s)
  BY DEF LatestCreateOnly
<1> QED
  BY <1>1, <1>2 DEF PutFits

\* Every step of a put that runs alone fits the bucket it leaves.
LEMMA PutKeeps ==
  ASSUME ~Versioned, MaxFaults = 0, TypeInv, TypeInv', Keys, NEW w \in Writers,
         StartPut(w) \/ PutStep(w) \/ InterruptPut(w), PutFits(writer[w])
  PROVE  Keys' /\ PutFits(writer[w])'
<1> DEFINE r == writer[w]
<1>w. r \in GoodWriter /\ r \in WriterState
  BY DEF TypeInv, TypeOK
<1>a. \A s : Become(w, s) => writer'[w] = s
  BY Becomes
<1>e. \A o : Ended(o).pc = "idle"
  BY DEF Ended
<1>f. ~ (faults < MaxFaults)
  BY DEF TypeInv, TypeOK
<1>n. /\ NoLatest(r).pc \in {"pointer", "blob", "orphan"}
      /\ NoLatest(r).pc = "blob" <=> r.site = "streamed"
      /\ LatestCreateOnly(NoLatest(r)) = LatestCreateOnly(r)
  BY <1>w DEF NoLatest, WriterState, Sites, LatestCreateOnly
<1>1. CASE StartPut(w)
  <2>1. PICK q \in PutRequests :
          Become(w, [Ended("none") EXCEPT !.pc = "pointer", !.req = q,
                       !.mutability = EffectiveMutability(profile, q)])
    BY <1>1 DEF StartPut
  <2>2. writer'[w].pc = "pointer"
    BY <2>1, <1>a DEF Ended
  <2>3. UNCHANGED <<blob, ref, latest, clock>> /\ r.pc # "latest"
    BY <1>1 DEF StartPut, WriterAt, bucket
  <2> QED
    BY <2>2, <2>3, QuietPutFits
<1>2. CASE ReadPointer(w)
  <2>1. UNCHANGED <<blob, ref, latest, clock>> /\ r.pc = "pointer"
    BY <1>2 DEF ReadPointer, WriterAt, PutOnly, bucket
  <2>2. CASE latest = {} /\ Become(w, NoLatest(r))
    BY <2>1, <2>2, <1>a, <1>n, QuietPutFits
  <2>3. ASSUME NEW p \in latest, Become(w, [r EXCEPT !.pc = "resolve", !.ptr = p.digest])
        PROVE  Keys' /\ PutFits(writer[w])'
    <3>1. writer'[w].pc = "resolve" /\ writer'[w].ptr = p.digest
      BY <2>3, <1>a, <1>w DEF WriterState
    <3>2. ref[p.digest] # {}
      BY DEF PutFits, PointerResolves
    <3> QED
      BY <2>1, <3>1, <3>2, QuietPutFits
  <2> QED
    BY <2>2, <2>3, <1>2 DEF ReadPointer
<1>3. CASE ResolveNothing(w) \/ ResolveProceed(w)
  <2>1. UNCHANGED <<blob, ref, latest, clock>> /\ r.pc = "resolve"
    BY <1>3 DEF ResolveNothing, ResolveProceed, WriterAt, PutOnly, bucket
  <2>2. ref[r.ptr] # {}
    BY <2>1 DEF PutFits
  <2>3. writer'[w] = NoLatest(r) /\ (r.site = "streamed" => ~LatestCreateOnly(r))
    BY <2>2, <1>3, <1>a DEF ResolveNothing, ResolveProceed, LatestCreateOnly
  <2> QED
    BY <2>1, <2>3, <1>n, QuietPutFits
<1>4. CASE ResolveDecided(w) \/ ResolveWinner(w)
  <2>1. UNCHANGED <<blob, ref, latest, clock>> /\ r.pc = "resolve"
    BY <1>4 DEF ResolveDecided, ResolveWinner, WriterAt, PutOnly, bucket
  <2>2. writer'[w].pc \in {"idle", "orphan"}
    <3>1. [r EXCEPT !.pc = "orphan", !.ptr = NoDigest].pc = "orphan"
      BY <1>w DEF WriterState
    <3> QED
      BY <3>1, <1>4, <1>a, <1>e DEF ResolveDecided, ResolveWinner
  <2> QED
    BY <2>1, <2>2, QuietPutFits
<1>5. CASE RecordOrphan(w) \/ InterruptPut(w)
  <2>1. UNCHANGED <<blob, ref, latest, clock>> /\ r.pc = "orphan" /\ writer'[w].pc = "idle"
    BY <1>5, <1>a, <1>e, <1>f DEF RecordOrphan, InterruptPut, WriterAt
  <2> QED
    BY <2>1, QuietPutFits
<1>6. CASE PutBlob(w)
  <2> DEFINE d == r.req.digest
  <2>1. UNCHANGED <<ref, latest>> /\ r.pc = "blob" /\ d \in Digests
    BY <1>6, <1>w, RequestType DEF PutBlob, WriterAt, GoodWriter
  <2>2. CASE Become(w, Ended("failed")) /\ UNCHANGED <<blob, clock>>
    BY <2>1, <2>2, <1>a, <1>e, QuietPutFits
  <2>3. CASE /\ blob' = [blob EXCEPT ![d] = Store(@, Stamp)]
             /\ clock' = clock + 1
             /\ Become(w, [r EXCEPT !.pc = "verify", !.blobVer = Stamp])
    <3>1. Stamp = 0 /\ \A S, v : Store(S, v) = {v}
      BY DEF Stamp, Store
    <3>2. /\ writer'[w].pc = "verify" /\ writer'[w].blobVer = 0 /\ writer'[w].req = r.req
          /\ writer'[w].mutability = r.mutability
      BY <2>3, <3>1, <1>a, <1>w DEF WriterState
    <3>3. 0 \in blob'[d] /\ \A k \in Digests : blob'[k] \subseteq {0} /\ (0 \in blob[k] => 0 \in blob'[k])
      BY <2>1, <2>3, <3>1 DEF Keys, TypeInv, TypeOK
    <3>4. \A k \in Digests : Newest(k)' = Newest(k)
      BY <2>1 DEF Newest
    <3>5. Settled' /\ PointerResolves'
      BY <2>1 DEF PutFits, Settled, PointerResolves, NoReference, Newest
    <3>6. \A n \in Nat : n < clock => n < clock'
      BY <2>3 DEF TypeInv, TypeOK
    <3>7. \A k \in Digests : \A e \in ref[k] : e.created \in Nat
      BY DEF TypeInv, TypeOK, Envelope
    <3>8. Keys'
      BY <2>1, <3>3, <3>6, <3>7 DEF Keys, OneEnvelope, Distinct
    <3>9. LatestCreateOnly(r) => latest = {}
      BY <2>1 DEF PutFits
    <3>10. PutFits(writer[w])'
      BY <2>1, <3>2, <3>3, <3>5, <3>9 DEF PutFits, LatestCreateOnly
    <3> QED
      BY <3>8, <3>10
  <2> QED
    BY <2>2, <2>3, <1>6, <1>f DEF PutBlob, Answered
<1>7. CASE VerifyBlob(w)
  <2>1. UNCHANGED <<blob, ref, latest>> /\ r.pc = "verify" /\ clock' = clock + 1
    BY <1>7 DEF VerifyBlob, WriterAt, bucket
  <2>2. CASE Become(w, Ended("failed"))
    BY <2>1, <2>2, <1>a, <1>e, QuietPutFits
  <2>3. CASE Become(w, [r EXCEPT !.pc = "envelope", !.created = clock])
    <3>1. /\ writer'[w].pc = "envelope" /\ writer'[w].created = clock /\ writer'[w].req = r.req
          /\ writer'[w].blobVer = r.blobVer /\ writer'[w].mutability = r.mutability
      BY <2>3, <1>a, <1>w DEF WriterState
    <3>2. Keys' /\ Settled' /\ PointerResolves'
      BY <2>1, SameBucket DEF PutFits
    <3>3. clock < clock' /\ \A d \in Digests : \A e \in ref[d] : e.created < clock
      BY <2>1 DEF Keys, TypeInv, TypeOK, Envelope
    <3>4. r.blobVer = 0 /\ 0 \in blob[r.req.digest] /\ (LatestCreateOnly(r) => latest = {})
      BY <2>1 DEF PutFits
    <3>5. PutFits(writer[w])'
      BY <2>1, <3>1, <3>2, <3>3, <3>4 DEF PutFits, LatestCreateOnly
    <3> QED
      BY <3>2, <3>5
  <2> QED
    BY <2>2, <2>3, <1>7 DEF VerifyBlob
<1>8. CASE PutEnvelope(w)
  <2>d. PICK d : d = r.req.digest
    OBVIOUS
  <2>1. UNCHANGED <<blob, latest>> /\ r.pc = "envelope" /\ d \in Digests
    BY <2>d, <1>8, <1>w, RequestType DEF PutEnvelope, WriterAt, GoodWriter
  <2>2. CASE Become(w, Ended("failed")) /\ UNCHANGED <<ref, clock>>
    BY <2>1, <2>2, <1>a, <1>e, QuietPutFits
  <2>3. CASE /\ ref[d] = {}
             /\ ref' = [ref EXCEPT ![d] = Store(@, EnvelopeOf(r))]
             /\ clock' = clock + 1
             /\ Become(w, [r EXCEPT !.pc = "latest"])
    <3>1. Stamp = 0 /\ \A S, v : Store(S, v) = {v}
      BY DEF Stamp, Store
    <3>2. /\ writer'[w].pc = "latest" /\ writer'[w].req = r.req
          /\ writer'[w].blobVer = r.blobVer /\ writer'[w].mutability = r.mutability
      BY <2>3, <1>a, <1>w DEF WriterState
    <3>3. r.blobVer = 0 /\ 0 \in blob[d] /\ (LatestCreateOnly(r) => latest = {}) /\ r.created < clock
      BY <2>d, <2>1 DEF PutFits
    <3>4. PICK n : /\ n.ver = 0 /\ n.blobVer = 0 /\ n.created = r.created
                   /\ ref' = [ref EXCEPT ![d] = {n}]
      BY <2>3, <3>1, <3>3 DEF EnvelopeOf
    <3>5. ref'[d] = {n} /\ \A k \in Digests : k # d => ref'[k] = ref[k]
      BY <3>4, <2>1 DEF TypeInv, TypeOK
    <3>6. n.created < clock' /\ r.created \in Nat /\ n.created <= n.created
      BY <3>3, <3>4, <2>3, <1>w DEF TypeInv, TypeOK, WriterState
    <3>7. \A k \in Digests : \A e \in ref[k] : e.created \in Nat /\ e.created < clock'
      BY <2>3 DEF Keys, TypeInv, TypeOK, Envelope
    <3>o. \A k \in Digests : \A e \in ref[k] : e.created < n.created
      BY <2>1, <3>4 DEF PutFits
    <3>8. Keys'
      <4>1. Distinct'
        <5> SUFFICES ASSUME NEW i \in Digests, NEW j \in Digests, NEW e \in ref'[i],
                            NEW f \in ref'[j], e.created = f.created
                     PROVE  i = j
          BY DEF Distinct
        <5>1. CASE i # d /\ j # d
          BY <5>1, <3>5 DEF Keys, Distinct
        <5>2. CASE i = d \/ j = d
          BY <5>2, <3>5, <3>6, <3>7, <3>o
        <5> QED
          BY <5>1, <5>2
      <4> QED
        BY <4>1, <2>1, <3>4, <3>5, <3>6, <3>7 DEF Keys, OneEnvelope
    <3>9. Newest(d)'
      <4>1. \A k \in Digests : \A e \in ref[k] : e.created <= n.created
        BY <3>4, <3>6, <3>7, <3>o
      <4> QED
        BY <4>1, <3>5, <3>6 DEF Newest
    <3>10. PointerResolves'
      BY <2>1, <3>5 DEF PutFits, PointerResolves, TypeInv, TypeOK, Pointer
    <3>11. \A k \in Digests : ref'[k] # {} => 0 \in blob'[k]
      BY <2>1, <3>3, <3>5 DEF PutFits
    <3>12. PutFits(writer[w])'
      BY <2>d, <2>1, <3>2, <3>3, <3>9, <3>10, <3>11 DEF PutFits, LatestCreateOnly
    <3> QED
      BY <3>8, <3>12
  <2> QED
    BY <2>d, <2>2, <2>3, <1>8, <1>f DEF PutEnvelope, Answered
<1>9. CASE PutLatest(w)
  <2>d. PICK d : d = r.req.digest
    OBVIOUS
  <2>1. UNCHANGED <<blob, ref>> /\ r.pc = "latest" /\ d \in Digests
    BY <2>d, <1>9, <1>w, RequestType DEF PutLatest, WriterAt, GoodWriter
  <2>2. LatestCreateOnly(r) => latest = {}
    BY <2>1 DEF PutFits
  <2>3. /\ latest' = {[ver |-> 0, digest |-> d]} /\ clock' = clock + 1
        /\ writer'[w].pc = "idle"
    BY <2>d, <2>2, <1>9, <1>a, <1>e, <1>f DEF PutLatest, Answered, Stamp, Store
  <2>4. Newest(d)'
    BY <2>d, <2>1 DEF PutFits, Newest
  <2>5. Settled' /\ PointerResolves'
    <3>1. latest' # {} /\ \A p \in latest' : p.digest = d
      BY <2>3
    <3>2. \A p \in latest' : Newest(p.digest)'
      BY <2>4, <3>1 DEF Newest
    <3>3. Settled'
      BY <3>1, <3>2 DEF Settled
    <3>4. PointerResolves'
      BY <3>2 DEF PointerResolves, Newest
    <3> QED
      BY <3>3, <3>4
  <2>6. \A k \in Digests : \A e \in ref[k] : e.created \in Nat /\ e.created < clock'
    BY <2>3 DEF Keys, TypeInv, TypeOK, Envelope
  <2>7. Keys'
    BY <2>1, <2>3, <2>6 DEF Keys, OneEnvelope, Distinct
  <2>8. PutFits(writer[w])'
    BY <2>1, <2>3, <2>5 DEF PutFits
  <2> QED
    BY <2>7, <2>8
<1> QED
  BY <1>1, <1>2, <1>3, <1>4, <1>5, <1>6, <1>7, <1>8, <1>9 DEF PutStep

\* A delete alone that only reads finds the bucket as before.
LEMMA QuietDeleteFits ==
  ASSUME TypeInv, Keys, NEW x \in Deleters, NEW s, deleter'[x] = s, DeleteFits(s),
         UNCHANGED <<blob, ref, latest, clock>>
  PROVE  Keys' /\ DeleteFits(deleter[x])'
<1>1. Keys' /\ Settled' = Settled /\ NoReference' = NoReference
  BY SameBucket
<1>2. \A d : Newest(d)' = Newest(d) /\ IsLatest(d)' = IsLatest(d)
  BY SameBucket
<1>3. Chosen(deleter[x])' = Chosen(s)
  BY DEF Chosen
<1>4. DeleteFits(deleter[x])'
  BY <1>1, <1>2, <1>3 DEF DeleteFits
<1> QED
  BY <1>1, <1>4

\* The steps of a delete that runs alone and looks for the newest of the other
\* versions fit the bucket they leave.
LEMMA LookupKeeps ==
  ASSUME TypeInv, Keys, NEW x \in Deleters, DeleteFits(deleter[x]),
         \/ StartDelete(x) \/ ReadTarget(x) \/ ReadLatestPointer(x) \/ ResolveLatest(x)
         \/ ListVersions(x) \/ ScanVersion(x) \/ HeadEnvelope(x)
  PROVE  Keys' /\ DeleteFits(deleter[x])'
<1> DEFINE r == deleter[x]
<1>w. r \in GoodDeleter /\ r \in DeleterState
  BY DEF TypeInv, TypeOK
<1>a. \A s : Advance(x, s) => deleter'[x] = s
  BY Advances
<1>e. \A o : Deleted(o).pc = "idle" /\ ~Deleted(o).wasLatest /\ Deleted(o).previous = NoDigest
  BY DEF Deleted
<1>u. UNCHANGED <<blob, ref, latest, clock>>
  BY DEF StartDelete, ReadTarget, ReadLatestPointer, ResolveLatest, ListVersions, ScanVersion,
         HeadEnvelope, DeleteOnly, bucket
<1>p. r.pc \in {"idle", "target", "pointer", "resolve", "list", "scan", "head"}
  BY DEF StartDelete, ReadTarget, ReadLatestPointer, ResolveLatest, ListVersions, ScanVersion,
         HeadEnvelope, DeleterAt
<1>s. WholeAndSettled
  BY <1>p DEF DeleteFits, WholeAndSettled
<1>f. ASSUME NEW s, s.pc = "idle" PROVE DeleteFits(s)
  BY <1>f, <1>s DEF DeleteFits, WholeAndSettled
<1> SUFFICES ASSUME NEW s, deleter'[x] = s PROVE DeleteFits(s)
  BY <1>u, QuietDeleteFits
<1>g. Fail(x) => DeleteFits(s)
  BY <1>a, <1>e, <1>f DEF Fail
<1>1. CASE StartDelete(x)
  <2>1. s.pc = "target" /\ ~s.wasLatest /\ s.previous = NoDigest
    BY <1>1, <1>a DEF StartDelete, Deleted
  <2> QED
    BY <2>1, <1>s DEF DeleteFits, WholeAndSettled
<1>2. CASE ReadTarget(x)
  <2>1. CASE ~Fail(x)
    <3>1. s.pc = "pointer" /\ s.wasLatest = r.wasLatest /\ s.previous = r.previous
      BY <2>1, <1>2, <1>a, <1>w DEF ReadTarget, DeleterState
    <3>2. ~r.wasLatest /\ r.previous = NoDigest
      BY <1>2 DEF ReadTarget, DeleterAt, DeleteFits
    <3> QED
      BY <3>1, <3>2, <1>s DEF DeleteFits, WholeAndSettled
  <2> QED
    BY <2>1, <1>g
<1>3. CASE ReadLatestPointer(x)
  <2>1. ~r.wasLatest /\ r.previous = NoDigest
    BY <1>3 DEF ReadLatestPointer, DeleterAt, DeleteFits
  <2>2. CASE latest = {} /\ Advance(x, [r EXCEPT !.pc = "list"])
    <3>1. s.pc = "list" /\ ~s.wasLatest /\ s.wasLatest \in BOOLEAN /\ s.previous = NoDigest
      BY <2>1, <2>2, <1>a, <1>w DEF DeleterState
    <3>2. ~IsLatest(s.digest)
      BY <2>2 DEF IsLatest
    <3> QED
      BY <3>1, <3>2, <1>s DEF DeleteFits, WholeAndSettled, IsLatest
  <2>3. ASSUME NEW p \in latest, Advance(x, [r EXCEPT !.pc = "resolve", !.ptr = p.digest])
        PROVE  DeleteFits(s)
    <3>1. s.pc = "resolve" /\ ~s.wasLatest /\ s.previous = NoDigest /\ s.ptr = p.digest
      BY <2>1, <2>3, <1>a, <1>w DEF DeleterState
    <3>2. IsLatest(s.ptr)
      BY <3>1 DEF IsLatest
    <3> QED
      BY <3>1, <3>2, <1>s DEF DeleteFits, WholeAndSettled
  <2> QED
    BY <2>2, <2>3, <1>3 DEF ReadLatestPointer
<1>4. CASE ResolveLatest(x)
  <2>1. r.pc = "resolve" /\ r.previous = NoDigest /\ IsLatest(r.ptr)
    BY <1>4 DEF ResolveLatest, DeleterAt, DeleteFits
  <2>2. /\ s.pc = "list" /\ s.previous = NoDigest /\ s.digest = r.digest
        /\ s.wasLatest = (ref[r.ptr] # {} /\ r.ptr = r.digest)
    BY <2>1, <1>4, <1>a, <1>w, ZenonT(40) DEF ResolveLatest, DeleterState
  <2>3. ref[r.ptr] # {}
    BY <2>1, <1>s DEF WholeAndSettled, Settled, Newest, IsLatest
  <2>4. IsLatest(r.digest) = (r.ptr = r.digest)
    BY <2>1 DEF IsLatest, Keys
  <2> QED
    BY <2>2, <2>3, <2>4, <1>s DEF DeleteFits, WholeAndSettled
<1>5. CASE ListVersions(x)
  <2>1. r.previous = NoDigest /\ r.wasLatest = IsLatest(r.digest)
    BY <1>5 DEF ListVersions, DeleterAt, DeleteFits
  <2>2. /\ s.pc = "scan" /\ s.previous = NoDigest /\ s.digest = r.digest /\ s.wasLatest = r.wasLatest
        /\ s.scan = {d \in Digests : ref[d] # {}}
    BY <2>1, <1>5, <1>a, <1>w DEF ListVersions, DeleterState
  <2>3. Chosen(s)
    BY <2>2 DEF Chosen
  <2> QED
    BY <2>1, <2>2, <2>3, <1>s DEF DeleteFits, WholeAndSettled
<1>7. CASE HeadEnvelope(x)
  <2>1. CASE ~Fail(x)
    <3>1. PICK e \in ref[r.digest] : Advance(x, [r EXCEPT !.pc = "blob", !.headVer = e.ver])
      BY <2>1, <1>7 DEF HeadEnvelope
    <3>2. /\ s.pc = "blob" /\ s.headVer = e.ver /\ s.digest = r.digest /\ s.scan = r.scan
          /\ s.wasLatest = r.wasLatest /\ s.previous = r.previous
          /\ s.previousCreated = r.previousCreated
      BY <3>1, <1>a, <1>w DEF DeleterState
    <3>3. e.ver = 0
      BY <1>7, <1>w DEF HeadEnvelope, DeleterAt, GoodDeleter, Keys
    <3>4. r.wasLatest = IsLatest(r.digest) /\ Chosen(r) /\ r.scan = {}
      BY <1>7 DEF HeadEnvelope, DeleterAt, DeleteFits
    <3>5. Chosen(s)
      BY <3>2, <3>4 DEF Chosen
    <3> QED
      BY <3>2, <3>3, <3>4, <3>5, <1>s DEF DeleteFits, WholeAndSettled
  <2> QED
    BY <2>1, <1>g
<1>6. CASE ScanVersion(x)
  <2>1. r.wasLatest = IsLatest(r.digest) /\ Chosen(r) /\ r.pc = "scan"
    BY <1>6 DEF ScanVersion, DeleterAt, DeleteFits
  <2>2. CASE r.scan = {} /\ Advance(x, [r EXCEPT !.pc = "head"])
    <3>1. /\ s.pc = "head" /\ s.digest = r.digest /\ s.scan = {}
          /\ s.wasLatest = r.wasLatest /\ s.previous = r.previous
          /\ s.previousCreated = r.previousCreated
      BY <2>2, <1>a, <1>w DEF DeleterState
    <3>2. Chosen(s)
      BY <2>1, <2>2, <3>1 DEF Chosen
    <3> QED
      BY <2>1, <3>1, <3>2, <1>s DEF DeleteFits, WholeAndSettled
  <2>3. ASSUME NEW d \in r.scan, NEW e \in ref[d],
               Advance(x, IF Newer(d, e, r)
                 THEN [r EXCEPT !.scan = @ \ {d}, !.previous = d, !.previousCreated = e.created]
                 ELSE [r EXCEPT !.scan = @ \ {d}])
        PROVE  DeleteFits(s)
    <3>1. d \in Digests /\ e.created \in Nat /\ (\A f \in ref[d] : f = e) /\ d # NoDigest
      BY <1>w, DigestsAssumption DEF Keys, OneEnvelope, DeleterState, TypeInv, TypeOK, Envelope
    <3>2. /\ s.pc = "scan" /\ s.digest = r.digest /\ s.scan = r.scan \ {d}
          /\ s.wasLatest = r.wasLatest
          /\ IF Newer(d, e, r) THEN s.previous = d /\ s.previousCreated = e.created
             ELSE s.previous = r.previous /\ s.previousCreated = r.previousCreated
      BY <2>1, <2>3, <1>a, <1>w DEF DeleterState
    <3>3. r.previousCreated \in Nat /\ \A c \in Digests : \A f \in ref[c] : f.created \in Nat
      BY <1>w DEF DeleterState, TypeInv, TypeOK, Envelope
    <3>4. CASE Newer(d, e, r)
      <4>1. s.previous = d /\ s.previousCreated = e.created /\ d # r.digest
        BY <3>2, <3>4 DEF Newer
      <4>2. ASSUME NEW c \in Digests \ (s.scan \cup {s.digest}), NEW f \in ref[c]
            PROVE  f.created <= e.created
        <5>1. CASE c = d
          BY <5>1, <3>1
        <5>2. CASE c # d
          <6>1. r.previous # NoDigest /\ f.created <= r.previousCreated
            BY <5>2, <3>2, <2>1 DEF Chosen
          <6>2. e.created > r.previousCreated
            BY <6>1, <3>4 DEF Newer
          <6> QED
            BY <6>1, <6>2, <3>1, <3>3
        <5> QED
          BY <5>1, <5>2
      <4>3. Chosen(s)
        BY <4>1, <4>2, <3>1, <3>2 DEF Chosen
      <4> QED
        BY <4>3, <2>1, <3>2, <1>s DEF DeleteFits, WholeAndSettled
    <3>5. CASE ~Newer(d, e, r)
      <4>1. ASSUME d # r.digest PROVE r.previous # NoDigest /\ e.created <= r.previousCreated
        BY <4>1, <3>1, <3>3, <3>5 DEF Newer
      <4>2. Chosen(s)
        BY <4>1, <2>1, <3>1, <3>2, <3>5 DEF Chosen
      <4> QED
        BY <4>2, <2>1, <3>2, <1>s DEF DeleteFits, WholeAndSettled
    <3> QED
      BY <3>4, <3>5
  <2> QED
    BY <2>2, <2>3, <1>6, <1>g DEF ScanVersion
<1> QED
  BY <1>1, <1>2, <1>3, <1>4, <1>5, <1>6, <1>7

\* Every step of a delete that runs alone fits the bucket it leaves: the version
\* it restores is the newest one left, and it unpublishes only the last one.
LEMMA DeleteKeeps ==
  ASSUME ~Versioned, MaxFaults = 0, TypeInv, Keys, NEW x \in Deleters,
         StartDelete(x) \/ DeleteStep(x) \/ InterruptDelete(x), DeleteFits(deleter[x])
  PROVE  Keys' /\ DeleteFits(deleter[x])'
<1> DEFINE r == deleter[x]
<1>w. r \in GoodDeleter /\ r \in DeleterState
  BY DEF TypeInv, TypeOK
<1>a. \A s : Advance(x, s) => deleter'[x] = s
  BY Advances
<1>e. \A o : Deleted(o).pc = "idle"
  BY DEF Deleted
<1>f. ~ (faults < MaxFaults)
  BY DEF TypeInv, TypeOK
<1>o. Stamp = 0 /\ \A S, v : Store(S, v) = {v}
  BY DEF Stamp, Store
<1>1. CASE DeleteBlob(x)
  <2>1. UNCHANGED <<ref, latest, clock>> /\ r.pc = "blob" /\ r.digest \in Digests
    BY <1>1, <1>w DEF DeleteBlob, DeleterAt, GoodDeleter
  <2>2. PICK s : s = [r EXCEPT !.pc = "ref"] /\ deleter'[x] = s
    BY <1>1, <1>a DEF DeleteBlob
  <2>3. /\ s.pc = "ref" /\ s.digest = r.digest /\ s.scan = r.scan /\ s.headVer = r.headVer
        /\ s.wasLatest = r.wasLatest /\ s.previous = r.previous
        /\ s.previousCreated = r.previousCreated
    BY <2>2, <1>w DEF DeleterState
  <2>4. \A d \in Digests : blob'[d] \subseteq blob[d] /\ (d # r.digest => blob'[d] = blob[d])
    BY <1>1, <2>1 DEF DeleteBlob, TypeInv, TypeOK
  <2>5. Keys'
    BY <2>1, <2>4 DEF Keys, OneEnvelope, Distinct
  <2>6. Settled' /\ Chosen(s) /\ s.wasLatest = IsLatest(s.digest) /\ s.headVer = 0 /\ s.scan = {}
    BY <2>1, <2>3 DEF DeleteFits, Settled, Newest, NoReference, Chosen
  <2>7. \A d \in Digests : ref[d] # {} => 0 \in blob'[d] \/ d = r.digest
    BY <2>1, <2>4 DEF DeleteFits
  <2>8. Chosen(deleter[x])' /\ IsLatest(s.digest)' = IsLatest(s.digest)
    BY <2>1, <2>2, <2>6 DEF Chosen, IsLatest
  <2>9. DeleteFits(deleter[x])'
    BY <2>1, <2>2, <2>3, <2>6, <2>7, <2>8 DEF DeleteFits
  <2> QED
    BY <2>5, <2>9
<1>2. CASE DeleteRef(x)
  <2>0. PICK k : k = r.digest
    OBVIOUS
  <2>1. UNCHANGED <<blob, latest, clock>> /\ r.pc = "ref" /\ k \in Digests
    BY <2>0, <1>2, <1>w DEF DeleteRef, DeleterAt, GoodDeleter
  <2>2. r.headVer = 0 /\ Chosen(r) /\ r.scan = {} /\ r.wasLatest = IsLatest(k) /\ Settled
    BY <2>0, <2>1 DEF DeleteFits
  <2>3. \A e : ~Locked(e)
    BY BucketAssumption DEF Locked
  <2>4. ref' = [ref EXCEPT ![k] = {}] /\ deleter'[x] = [r EXCEPT !.pc = AfterRef(r)]
    <3>1. {e \in ref[k] : e.ver = r.headVer} = ref[k]
      BY <2>1, <2>2 DEF Keys
    <3> QED
      BY <2>0, <2>3, <3>1, <1>2, <1>a DEF DeleteRef
  <2>5. ref'[k] = {} /\ \A d \in Digests : d # k => ref'[d] = ref[d]
    BY <2>1, <2>4 DEF TypeInv, TypeOK
  <2>6. PICK s : s = [r EXCEPT !.pc = AfterRef(r)] /\ deleter'[x] = s
    BY <2>4
  <2>7. /\ s.pc = AfterRef(r) /\ s.digest = k /\ s.previous = r.previous
        /\ s.pc \in {"evidence", "restore", "latest_head"}
    BY <2>0, <2>6, <1>w DEF DeleterState, AfterRef
  <2>8. Keys'
    BY <2>1, <2>5 DEF Keys, OneEnvelope, Distinct
  <2>9. \A d \in Digests : ref'[d] # {} => 0 \in blob'[d]
    BY <2>0, <2>1, <2>5 DEF DeleteFits
  <2>10. CASE s.pc = "evidence"
    <3>1. \A p \in latest : p.digest \in Digests /\ p.digest # k
      BY <2>2, <2>7, <2>10 DEF AfterRef, IsLatest, TypeInv, TypeOK, Pointer
    <3>2. \A p \in latest : Newest(p.digest)'
      BY <2>2, <2>5, <3>1 DEF Settled, Newest
    <3>3. Settled'
      BY <2>1, <2>2, <2>5, <3>2 DEF Settled, NoReference
    <3> QED
      BY <2>6, <2>8, <2>9, <2>10, <3>3 DEF DeleteFits
  <2>11. CASE s.pc = "restore"
    <3>1. r.previous # NoDigest /\ r.previous \in Digests
      BY <2>7, <2>11, <1>w DEF AfterRef, DeleterState
    <3>2. r.previous # k /\ ref[r.previous] # {} /\ \A f \in ref[r.previous] : f.created = r.previousCreated
      BY <2>0, <2>2, <3>1 DEF Chosen
    <3>3. \A d \in Digests : \A e \in ref'[d] : e.created <= r.previousCreated
      BY <2>0, <2>2, <2>5 DEF Chosen
    <3>4. Newest(s.previous)'
      BY <2>5, <2>7, <3>1, <3>2, <3>3 DEF Newest
    <3> QED
      BY <2>6, <2>8, <2>9, <2>11, <3>4 DEF DeleteFits
  <2>12. CASE s.pc = "latest_head"
    <3>1. r.previous = NoDigest
      BY <2>7, <2>12 DEF AfterRef
    <3>2. NoReference'
      BY <2>0, <2>2, <2>5, <3>1 DEF Chosen, NoReference
    <3> QED
      BY <2>6, <2>8, <2>9, <2>12, <3>2 DEF DeleteFits
  <2> QED
    BY <2>7, <2>10, <2>11, <2>12
<1>3. CASE RestorePrevious(x)
  <2>0. PICK k : k = r.previous
    OBVIOUS
  <2>1. /\ UNCHANGED <<blob, ref>> /\ r.pc = "restore" /\ clock' = clock + 1
        /\ latest' = {[ver |-> 0, digest |-> k]}
    BY <2>0, <1>3, <1>o DEF RestorePrevious, DeleterAt
  <2>2. deleter'[x].pc = "evidence"
    BY <1>3, <1>a, <1>w DEF RestorePrevious, DeleterState
  <2>3. Newest(k)'
    BY <2>0, <2>1 DEF DeleteFits, Newest
  <2>4. latest' # {} /\ \A p \in latest' : p.digest = k
    BY <2>1
  <2>5. \A p \in latest' : Newest(p.digest)'
    BY <2>3, <2>4 DEF Newest
  <2>6. Settled'
    BY <2>4, <2>5 DEF Settled
  <2>7. \A d \in Digests : \A e \in ref[d] : e.created \in Nat /\ e.created < clock'
    BY <2>1 DEF Keys, TypeInv, TypeOK, Envelope
  <2>8. Keys'
    BY <2>1, <2>7 DEF Keys, OneEnvelope, Distinct
  <2>9. DeleteFits(deleter[x])'
    BY <2>1, <2>2, <2>6 DEF DeleteFits
  <2> QED
    BY <2>8, <2>9
<1>4. CASE HeadLatest(x)
  <2>1. UNCHANGED <<blob, ref, latest, clock>> /\ r.pc = "latest_head"
    BY <1>4 DEF HeadLatest, DeleterAt, DeleteOnly, bucket
  <2>2. NoReference
    BY <2>1 DEF DeleteFits
  <2>3. CASE latest = {} /\ Fail(x)
    <3>1. Settled /\ deleter'[x].pc = "idle"
      BY <2>2, <2>3, <1>a, <1>e DEF Settled, Fail
    <3>2. DeleteFits(deleter'[x])
      BY <2>2, <3>1 DEF DeleteFits, NoReference
    <3> QED
      BY <2>1, <3>2, QuietDeleteFits
  <2>4. ASSUME NEW p \in latest, Advance(x, [r EXCEPT !.pc = "latest_delete", !.headVer = p.ver])
        PROVE  Keys' /\ DeleteFits(deleter[x])'
    <3>1. PICK s : deleter'[x] = s /\ s.pc = "latest_delete" /\ s.headVer = 0
      BY <2>4, <1>a, <1>w DEF DeleterState, Keys
    <3>2. DeleteFits(s)
      BY <2>2, <3>1 DEF DeleteFits, NoReference
    <3> QED
      BY <2>1, <3>1, <3>2, QuietDeleteFits
  <2> QED
    BY <2>3, <2>4, <1>4 DEF HeadLatest
<1>5. CASE DeleteLatest(x)
  <2>1. UNCHANGED <<blob, ref, clock>> /\ r.pc = "latest_delete"
    BY <1>5 DEF DeleteLatest, DeleterAt
  <2>2. latest' = {}
    BY <2>1, <1>5 DEF DeleteLatest, DeleteFits, Keys
  <2>3. deleter'[x].pc = "evidence"
    BY <1>5, <1>a, <1>w DEF DeleteLatest, DeleterState
  <2>4. NoReference'
    BY <2>1 DEF DeleteFits, NoReference
  <2>5. Keys'
    BY <2>1, <2>2 DEF Keys, OneEnvelope, Distinct
  <2>6. DeleteFits(deleter[x])'
    BY <2>2, <2>3, <2>4 DEF DeleteFits, Settled, NoReference
  <2> QED
    BY <2>5, <2>6
<1>6. CASE RecordEvidence(x)
  <2>1. UNCHANGED <<blob, ref, latest, clock>> /\ r.pc = "evidence"
    BY <1>6 DEF RecordEvidence, DeleterAt
  <2>2. PICK s : deleter'[x] = s /\ s.pc = "idle"
    BY <1>6, <1>a, <1>e DEF RecordEvidence
  <2>3. DeleteFits(s)
    BY <2>1, <2>2 DEF DeleteFits
  <2> QED
    BY <2>1, <2>2, <2>3, QuietDeleteFits
<1>7. CASE InterruptDelete(x)
  BY <1>7, <1>f DEF InterruptDelete
<1> QED
  BY <1>1, <1>2, <1>3, <1>4, <1>5, <1>6, <1>7, LookupKeeps DEF DeleteStep

\* An operation starts only when everybody is idle.
LEMMA StartsAlone ==
  ASSUME OneAtATime, Sequential, MayStart PROVE AllIdle /\ WholeAndSettled
<1>1. AllIdle
  BY QuietIsIdle DEF MayStart, OneAtATime
<1> QED
  BY <1>1, IdleIsSettled

\* A put that takes a step is alone, and fits the bucket before and after.
LEMMA PutAlone ==
  ASSUME OneAtATime, TypeInv, TypeInv', Sequential, NEW w \in Writers,
         StartPut(w) \/ PutStep(w) \/ InterruptPut(w)
  PROVE  /\ OnlyPut(w) /\ PutFits(writer[w])
         /\ Keys' /\ OnlyPut(w)' /\ PutFits(writer[w])'
<1>1. OnlyPut(w) /\ PutFits(writer[w])
  <2>1. CASE StartPut(w)
    <3>1. AllIdle /\ WholeAndSettled /\ writer[w].pc = "idle"
      BY <2>1, StartsAlone DEF StartPut, WriterAt
    <3> QED
      BY <3>1 DEF AllIdle, OnlyPut, PutFits, WholeAndSettled, Settled, PointerResolves, Newest
  <2>2. CASE PutStep(w) \/ InterruptPut(w)
    <3>1. ~WriterAt(w, "idle")
      BY <2>2 DEF PutStep, InterruptPut, ReadPointer, ResolveNothing, ResolveDecided,
         ResolveProceed, ResolveWinner, PutBlob, VerifyBlob, PutEnvelope, PutLatest,
         RecordOrphan, WriterAt
    <3> QED
      BY <3>1 DEF Sequential, AllIdle, OnlyDelete, OnlyPut
  <2> QED
    BY <2>1, <2>2
<1>2. Keys' /\ PutFits(writer[w])'
  BY <1>1, PutKeeps DEF OneAtATime, Sequential
<1>3. OnlyPut(w)'
  BY <1>1, OwnState, Separate DEF OnlyPut, WriterAt, DeleterAt
<1> QED
  BY <1>1, <1>2, <1>3

\* So is a delete that takes a step.
LEMMA DeleteAlone ==
  ASSUME OneAtATime, TypeInv, TypeInv', Sequential, NEW x \in Deleters,
         StartDelete(x) \/ DeleteStep(x) \/ InterruptDelete(x)
  PROVE  /\ OnlyDelete(x) /\ DeleteFits(deleter[x])
         /\ Keys' /\ OnlyDelete(x)' /\ DeleteFits(deleter[x])'
<1>1. OnlyDelete(x) /\ DeleteFits(deleter[x])
  <2>1. CASE StartDelete(x)
    <3>1. AllIdle /\ WholeAndSettled /\ deleter[x].pc = "idle"
      BY <2>1, StartsAlone DEF StartDelete, DeleterAt
    <3> QED
      BY <3>1 DEF AllIdle, OnlyDelete, DeleteFits, WholeAndSettled
  <2>2. CASE DeleteStep(x) \/ InterruptDelete(x)
    <3>1. ~DeleterAt(x, "idle")
      BY <2>2 DEF DeleteStep, InterruptDelete, ReadTarget, ReadLatestPointer, ResolveLatest,
         ListVersions, ScanVersion, HeadEnvelope, DeleteBlob, DeleteRef, RestorePrevious,
         HeadLatest, DeleteLatest, RecordEvidence, DeleterAt
    <3> QED
      BY <3>1 DEF Sequential, AllIdle, OnlyDelete, OnlyPut
  <2> QED
    BY <2>1, <2>2
<1>2. Keys' /\ DeleteFits(deleter[x])'
  BY <1>1, DeleteKeeps DEF OneAtATime, Sequential
<1>3. OnlyDelete(x)'
  BY <1>1, OwnDeleter, Separate DEF OnlyDelete, WriterAt, DeleterAt
<1> QED
  BY <1>1, <1>2, <1>3

\* Operations one at a time keep the invariant.
LEMMA SequentialHolds ==
  ASSUME OneAtATime
  PROVE  Spec => []Sequential
<1>1. Init => Sequential
  BY DEF Init, Sequential, Keys, OneEnvelope, Distinct, AllIdle, WholeAndSettled, Settled,
         NoReference, Ended, Deleted, WriterAt, DeleterAt
<1>2. TypeInv /\ TypeInv' /\ Sequential /\ [Next]_vars => Sequential'
  <2> SUFFICES ASSUME TypeInv, TypeInv', Sequential, [Next]_vars PROVE Sequential'
    OBVIOUS
  <2>k. Keys
    BY DEF Sequential
  <2>1. ASSUME NEW w \in Writers, StartPut(w) \/ PutStep(w) \/ InterruptPut(w)
        PROVE  Sequential'
    BY <2>1, PutAlone DEF Sequential
  <2>2. ASSUME NEW x \in Deleters, StartDelete(x) \/ DeleteStep(x) \/ InterruptDelete(x)
        PROVE  Sequential'
    BY <2>2, DeleteAlone DEF Sequential
  <2>3. ASSUME CreateResource \/ Expire \/ UNCHANGED vars PROVE Sequential'
    <3>1. UNCHANGED <<blob, ref, latest, writer, deleter, clock>>
      BY <2>3 DEF CreateResource, Expire, vars, bucket
    <3>2. AllIdle' = AllIdle /\ WholeAndSettled' = WholeAndSettled /\ Keys'
      BY <2>k, <3>1, SameBucket DEF AllIdle, WriterAt, DeleterAt, WholeAndSettled
    <3>3. ASSUME NEW w \in Writers
          PROVE  OnlyPut(w)' = OnlyPut(w) /\ (PutFits(writer[w]) => PutFits(writer[w])')
      <4>1. Settled' = Settled /\ PointerResolves' = PointerResolves /\ \A d : Newest(d)' = Newest(d)
        BY <3>1, SameBucket
      <4> QED
        BY <3>1, <4>1 DEF OnlyPut, WriterAt, DeleterAt, PutFits, LatestCreateOnly
    <3>4. ASSUME NEW x \in Deleters
          PROVE  OnlyDelete(x)' = OnlyDelete(x) /\ (DeleteFits(deleter[x]) => DeleteFits(deleter[x])')
      BY <2>k, <3>1, QuietDeleteFits DEF OnlyDelete, WriterAt, DeleterAt
    <3> QED
      BY <3>2, <3>3, <3>4 DEF Sequential
  <2> QED
    BY <2>1, <2>2, <2>3 DEF Next, Finished
<1> QED
  BY <1>1, <1>2, TypeCorrect, PTL DEF Spec

\* Puts and deletes one after another in an unversioned bucket, any number of
\* them with any inputs: between two operations the pointer names an object
\* whose envelope and payload are there (_put publishes last, _delete restores).
THEOREM PointerNamesAnObject ==
  ASSUME OneAtATime
  PROVE  Spec => []LatestResolves
<1>1. TypeInv /\ Sequential => LatestResolves
  <2> SUFFICES ASSUME TypeInv, Sequential, Quiet PROVE \A p \in latest : ref[p.digest] # {} /\ blob[p.digest] # {}
    BY DEF LatestResolves
  <2>1. WholeAndSettled
    BY QuietIsIdle, IdleIsSettled DEF OneAtATime
  <2> QED
    BY <2>1 DEF WholeAndSettled, Settled, Newest, TypeInv, TypeOK, Pointer
<1> QED
  BY <1>1, SequentialHolds, TypeCorrect, PTL

\* ... and that object is the newest one there is, whichever were deleted
\* (_newest_version finds the version to restore).
THEOREM PointerNamesTheNewest ==
  ASSUME OneAtATime
  PROVE  Spec => []LatestIsNewest
<1>1. TypeInv /\ Sequential => LatestIsNewest
  <2> SUFFICES ASSUME TypeInv, Sequential, Quiet, NEW d \in Digests, NEW e \in ref[d]
               PROVE  \E p \in latest : \E f \in ref[p.digest] : e.created <= f.created
    BY DEF LatestIsNewest
  <2>1. Settled
    BY QuietIsIdle, IdleIsSettled DEF OneAtATime, WholeAndSettled
  <2>2. PICK p \in latest : Newest(p.digest)
    BY <2>1 DEF Settled, NoReference
  <2> QED
    BY <2>2 DEF Newest
<1> QED
  BY <1>1, SequentialHolds, TypeCorrect, PTL
-----------------------------------------------------------------------------
(* The history of versions. *)

Unpublishes(r) == r.pc \in {"restore", "latest_head", "latest_delete"}

\* The pointer is what a reference without a digest means.
PointerMeans == /\ latest = {} => Meant = NoDigest
                /\ \A p \in latest : Meant = p.digest

\* The history while the only operation that runs is a put with local state r.
PutView(r) ==
  /\ Present = {d \in Digests : ref[d] # {} /\ ~(r.pc = "latest" /\ r.req.digest = d)}
  /\ PointerMeans

\* The history while the only operation that runs is a delete with local state r.
DeleteView(r) ==
  /\ Present = {d \in Digests : ref[d] # {}}
  /\ ~Unpublishes(r) => PointerMeans
  /\ r.pc = "restore" /\ r.previous \in Digests => Meant = r.previous
  /\ r.pc \in {"latest_head", "latest_delete"} => Meant = NoDigest

\* What a reference without a digest means, when only one digest can be meant.
LEMMA MeantIs ==
  /\ \A d \in Digests : (\A c \in Digests : IsMeant(c) <=> c = d) => Meant = d
  /\ (\A d \in Digests : ~IsMeant(d)) => Meant = NoDigest
BY DEF Meant

\* Outside the steps that move it, the pointer says what is meant.
LEMMA PointerSays ==
  ASSUME TypeInv, Keys, ~Unpublishing PROVE PointerMeans
<1>1. \A d \in Digests : IsMeant(d) <=> \E p \in latest : p.digest = d
  BY DEF IsMeant, Unpublishing, DeleterAt, IsCurrent, Keys
<1>2. \A p \in latest : p.digest \in Digests /\ \A d \in Digests : IsMeant(d) <=> d = p.digest
  BY <1>1 DEF Keys, TypeInv, TypeOK, Pointer
<1> QED
  BY <1>1, <1>2, MeantIs DEF PointerMeans

\* The history of the object, as the one operation that runs lets it be seen.
LEMMA Views ==
  TypeInv /\ Keys =>
    /\ \A w \in Writers : OnlyPut(w) => PutView(writer[w])
    /\ \A x \in Deleters : OnlyDelete(x) => DeleteView(deleter[x])
<1> SUFFICES ASSUME TypeInv, Keys
             PROVE  /\ \A w \in Writers : OnlyPut(w) => PutView(writer[w])
                    /\ \A x \in Deleters : OnlyDelete(x) => DeleteView(deleter[x])
  OBVIOUS
<1>1. ASSUME NEW w \in Writers, OnlyPut(w) PROVE PutView(writer[w])
  <2>1. ~Unpublishing
    BY <1>1 DEF OnlyPut, DeleterAt, Unpublishing
  <2>2. \A d : Publishing(d) <=> writer[w].pc = "latest" /\ writer[w].req.digest = d
    BY <1>1 DEF OnlyPut, WriterAt, Publishing
  <2> QED
    BY <2>1, <2>2, PointerSays DEF PutView, Present
<1>2. ASSUME NEW x \in Deleters, OnlyDelete(x) PROVE DeleteView(deleter[x])
  <2> DEFINE r == deleter[x]
  <2>1. \A d : ~Publishing(d)
    BY <1>2 DEF OnlyDelete, WriterAt, Publishing
  <2>2. Unpublishing <=> Unpublishes(r)
    BY <1>2 DEF OnlyDelete, DeleterAt, Unpublishing, Unpublishes
  <2>3. ASSUME Unpublishing
        PROVE  \A d \in Digests : IsMeant(d) <=> r.pc = "restore" /\ r.previous = d
    BY <1>2, <2>3 DEF IsMeant, OnlyDelete, DeleterAt
  <2>4. r.pc = "restore" /\ r.previous \in Digests => Meant = r.previous
    BY <2>2, <2>3, MeantIs DEF Unpublishes
  <2>5. r.pc \in {"latest_head", "latest_delete"} => Meant = NoDigest
    BY <2>2, <2>3, MeantIs DEF Unpublishes
  <2> QED
    BY <2>1, <2>2, <2>4, <2>5, PointerSays DEF DeleteView, Present
<1> QED
  BY <1>1, <1>2

\* The same after a step.
LEMMA ViewsAfter ==
  (TypeInv /\ Keys =>
     /\ \A w \in Writers : OnlyPut(w) => PutView(writer[w])
     /\ \A x \in Deleters : OnlyDelete(x) => DeleteView(deleter[x]))'
BY Views, PTL

\* The pairs of Earlier.
LEMMA Pairs ==
  ASSUME NEW c, NEW d
  PROVE  /\ Earlier \subseteq Present \X Present
         /\ <<c, d>> \in Earlier <=>
              /\ c \in Present /\ d \in Present
              /\ \E e \in ref[c] : \E f \in ref[d] : e.created < f.created
         /\ Earlier' \subseteq Present' \X Present'
         /\ <<c, d>> \in Earlier' <=>
              /\ c \in Present' /\ d \in Present'
              /\ \E e \in ref'[c] : \E f \in ref'[d] : e.created < f.created
BY DEF Earlier

\* A step that leaves the versions, their envelopes and the pointer as they are.
LEMMA SameHistory ==
  ASSUME Present' = Present, Meant' = Meant, \A d \in Present : ref'[d] = ref[d]
  PROVE  UNCHANGED <<Present, Earlier, Meant>>
<1>1. \A p \in Present \X Present : p[1] \in Present /\ p[2] \in Present
  OBVIOUS
<1>2. Earlier' = Earlier
  BY <1>1 DEF Earlier
<1> QED
  BY <1>2

\* Every step of a put that runs alone publishes its digest as the newest
\* version, or does not show.
LEMMA PutIsPublish ==
  ASSUME ~Versioned, MaxFaults = 0, TypeInv, TypeInv', Keys, Keys', NEW w \in Writers,
         StartPut(w) \/ PutStep(w) \/ InterruptPut(w), PutFits(writer[w]),
         OnlyPut(w), OnlyPut(w)'
  PROVE  [History!Next]_<<Present, Earlier, Meant>>
<1> DEFINE r == writer[w]
<1>w. r \in GoodWriter /\ r \in WriterState
  BY DEF TypeInv, TypeOK
<1>a. \A s : Become(w, s) => writer'[w] = s
  BY Becomes
<1>e. \A o : Ended(o).pc = "idle"
  BY DEF Ended
<1>f. ~ (faults < MaxFaults)
  BY DEF TypeInv, TypeOK
<1>v. PutView(r) /\ PutView(writer[w])'
  BY Views, ViewsAfter
<1>q. ASSUME UNCHANGED <<ref, latest>>, r.pc # "latest", writer'[w].pc # "latest"
      PROVE  UNCHANGED <<Present, Earlier, Meant>>
  <2>1. Present' = Present
    BY <1>v, <1>q DEF PutView
  <2>2. Meant' = Meant
    BY <1>v, <1>q DEF PutView, PointerMeans
  <2> QED
    BY <2>1, <2>2, <1>q, SameHistory
<1>1. CASE ~(PutEnvelope(w) \/ PutLatest(w))
  <2>1. UNCHANGED <<ref, latest>> /\ r.pc # "latest"
    BY <1>1, <1>f DEF PutStep, StartPut, ReadPointer, ResolveNothing, ResolveDecided, ResolveProceed,
       ResolveWinner, PutBlob, VerifyBlob, RecordOrphan, InterruptPut, PutOnly, bucket, WriterAt
  <2>2. writer'[w].pc # "latest"
    <3>1. NoLatest(r).pc # "latest"
      BY <1>w DEF NoLatest, WriterState
    <3>2. CASE StartPut(w)
      BY <3>2, <1>a DEF StartPut, Ended
    <3>3. CASE ReadPointer(w) \/ ResolveNothing(w) \/ ResolveProceed(w)
      BY <3>1, <3>3, <1>a, <1>w DEF ReadPointer, ResolveNothing, ResolveProceed, WriterState
    <3>4. CASE ResolveDecided(w) \/ ResolveWinner(w) \/ RecordOrphan(w)
      BY <3>4, <1>a, <1>e, <1>w DEF ResolveDecided, ResolveWinner, RecordOrphan, WriterState
    <3>5. CASE PutBlob(w) \/ VerifyBlob(w)
      BY <3>5, <1>a, <1>e, <1>w DEF PutBlob, VerifyBlob, WriterState
    <3>6. CASE InterruptPut(w)
      BY <3>6, <1>f DEF InterruptPut
    <3> QED
      BY <1>1, <3>2, <3>3, <3>4, <3>5, <3>6 DEF PutStep
  <2> QED
    BY <2>1, <2>2, <1>q
<1>2. CASE PutEnvelope(w)
  <2>d. PICK d : d = r.req.digest
    OBVIOUS
  <2>1. UNCHANGED latest /\ r.pc = "envelope" /\ d \in Digests
    BY <2>d, <1>2, <1>w, RequestType DEF PutEnvelope, WriterAt, GoodWriter
  <2>2. CASE Become(w, Ended("failed")) /\ UNCHANGED ref
    BY <2>1, <2>2, <1>a, <1>e, <1>q
  <2>3. CASE /\ ref[d] = {}
             /\ ref' = [ref EXCEPT ![d] = Store(@, EnvelopeOf(r))]
             /\ Become(w, [r EXCEPT !.pc = "latest"])
    <3>1. writer'[w].pc = "latest" /\ writer'[w].req.digest = d
      BY <2>d, <2>3, <1>a, <1>w DEF WriterState
    <3>2. \A c \in Digests : c # d => ref'[c] = ref[c]
      BY <2>1, <2>3 DEF TypeInv, TypeOK
    <3>3. Present' = Present
      BY <2>1, <2>3, <3>1, <3>2, <1>v DEF PutView
    <3>4. Meant' = Meant
      BY <2>1, <1>v DEF PutView, PointerMeans
    <3>5. \A c \in Present : ref'[c] = ref[c]
      BY <2>3, <3>2 DEF Present
    <3> QED
      BY <3>3, <3>4, <3>5, SameHistory
  <2> QED
    BY <2>d, <2>2, <2>3, <1>2, <1>f DEF PutEnvelope, Answered
<1>3. CASE PutLatest(w)
  <2>d. PICK d : d = r.req.digest
    OBVIOUS
  <2>1. UNCHANGED ref /\ r.pc = "latest" /\ d \in Digests
    BY <2>d, <1>3, <1>w, RequestType DEF PutLatest, WriterAt, GoodWriter
  <2>2. LatestCreateOnly(r) => latest = {}
    BY <2>1 DEF PutFits
  <2>3. latest' = {[ver |-> 0, digest |-> d]} /\ writer'[w].pc = "idle"
    BY <2>d, <2>2, <1>3, <1>a, <1>e, <1>f DEF PutLatest, Answered, Stamp, Store
  <2>4. Newest(d)
    BY <2>d, <2>1 DEF PutFits
  <2>5. d \notin Present /\ Present' = Present \cup {d}
    BY <2>d, <2>1, <2>3, <2>4, <1>v DEF PutView, Newest
  <2>6. Meant' = d
    BY <2>3, <1>v DEF PutView, PointerMeans
  <2>7. \A c \in Present : \E e \in ref[c] : \E f \in ref[d] : e.created < f.created
    <3> SUFFICES ASSUME NEW c \in Present
                 PROVE  \E e \in ref[c] : \E f \in ref[d] : e.created < f.created
      OBVIOUS
    <3>1. PICK e \in ref[c] : TRUE
      BY DEF Present
    <3>2. PICK f \in ref[d] : TRUE
      BY <2>4 DEF Newest
    <3>3. e.created <= f.created /\ e.created # f.created
      BY <2>1, <2>4, <2>5 DEF Newest, Keys, Distinct, Present
    <3>4. e.created \in Nat /\ f.created \in Nat
      BY <2>1 DEF TypeInv, TypeOK, Envelope, Present
    <3> QED
      BY <3>3, <3>4
  <2>8. ASSUME NEW c, NEW k
        PROVE  <<c, k>> \in Earlier' <=> <<c, k>> \in Earlier \cup (Present \X {d})
    <3>1. c \in Present /\ k = d => <<c, k>> \in Earlier'
      BY <2>1, <2>5, <2>7, Pairs
    <3>2. c \in Present /\ k \in Present => (<<c, k>> \in Earlier' <=> <<c, k>> \in Earlier)
      BY <2>1, <2>5, Pairs
    <3>3. c = d /\ k \in Digests /\ ref[k] # {} => <<c, k>> \notin Earlier'
      <4> SUFFICES ASSUME c = d, k \in Digests, NEW e \in ref[d], NEW f \in ref[k]
                   PROVE  ~ (e.created < f.created)
        BY <2>1, Pairs
      <4>1. f.created <= e.created /\ e.created \in Nat /\ f.created \in Nat
        BY <2>1, <2>4 DEF Newest, TypeInv, TypeOK, Envelope
      <4> QED
        BY <4>1
    <3>4. <<c, k>> \in Earlier' => c \in Present' /\ k \in Digests /\ ref[k] # {}
      BY <2>1, Pairs DEF Present
    <3>5. <<c, k>> \in Earlier' => k \in Present'
      BY Pairs
    <3>6. <<c, k>> \in Earlier => c \in Present /\ k \in Present
      BY Pairs
    <3> QED
      BY <2>5, <3>1, <3>2, <3>3, <3>4, <3>5, <3>6
  <2>9. Earlier' = Earlier \cup (Present \X {d})
    <3>1. Earlier' \subseteq Present' \X Present' /\ Earlier \subseteq Present \X Present
      BY Pairs
    <3> QED
      BY <2>8, <3>1
  <2> QED
    BY <2>1, <2>5, <2>6, <2>9 DEF History!Next, History!Publish
<1> QED
  BY <1>1, <1>2, <1>3

\* A delete that runs alone removes the envelope it was asked to, at once; the
\* newest of the others, if there are others, is then the latest.
LEMMA DeleteIsWithdraw ==
  ASSUME ~Versioned, TypeInv, TypeInv', Keys, Keys', NEW x \in Deleters, DeleteRef(x),
         DeleteFits(deleter[x]), DeleteFits(deleter[x])', DeleteView(deleter[x]),
         DeleteView(deleter[x])'
  PROVE  [History!Next]_<<Present, Earlier, Meant>>
<1> DEFINE r == deleter[x]
<1>w. r \in GoodDeleter /\ r \in DeleterState
  BY DEF TypeInv, TypeOK
<1>0. PICK k : k = r.digest
  OBVIOUS
<1>1. UNCHANGED latest /\ r.pc = "ref" /\ k \in Digests
  BY <1>0, <1>w DEF DeleteRef, DeleterAt, GoodDeleter
<1>2. r.headVer = 0 /\ r.wasLatest = IsLatest(k) /\ Settled
  BY <1>0, <1>1 DEF DeleteFits
<1>3. ref' = [ref EXCEPT ![k] = {}] /\ deleter'[x] = [r EXCEPT !.pc = AfterRef(r)]
  <2>1. {e \in ref[k] : e.ver = r.headVer} = ref[k]
    BY <1>1, <1>2 DEF Keys
  <2>2. \A e : ~Locked(e)
    BY BucketAssumption DEF Locked
  <2> QED
    BY <1>0, <2>1, <2>2, Advances DEF DeleteRef
<1>4. ref'[k] = {} /\ \A d \in Digests : d # k => ref'[d] = ref[d]
  BY <1>1, <1>3 DEF TypeInv, TypeOK
<1>5. deleter'[x].pc = AfterRef(r) /\ deleter'[x].previous = r.previous
  BY <1>3, <1>w DEF DeleterState, AfterRef
<1>6. Present' = Present \ {k}
  BY <1>1, <1>4 DEF DeleteView
<1>7. CASE ref[k] = {}
  <2>1. ~r.wasLatest
    BY <1>2, <1>7 DEF IsLatest, Settled, Newest
  <2>2. deleter'[x].pc = "evidence"
    BY <1>5, <2>1 DEF AfterRef
  <2>3. Meant' = Meant
    BY <1>1, <2>2 DEF DeleteView, Unpublishes, PointerMeans
  <2>4. k \notin Present /\ \A d \in Present : ref'[d] = ref[d]
    BY <1>4, <1>7 DEF Present
  <2> QED
    BY <1>6, <2>3, <2>4, SameHistory
<1>8. CASE ref[k] # {}
  <2>1. k \in Present
    BY <1>1, <1>8 DEF DeleteView
  <2>2. Earlier' = Earlier \cap (Present' \X Present')
    <3>1. ASSUME NEW c \in Present', NEW d \in Present'
          PROVE  <<c, d>> \in Earlier' <=> <<c, d>> \in Earlier
      <4>1. c \in Present /\ d \in Present /\ ref'[c] = ref[c] /\ ref'[d] = ref[d]
        BY <1>4, <1>6 DEF Present
      <4> QED
        BY <4>1, Pairs
    <3>2. Earlier' \subseteq Present' \X Present'
      BY Pairs
    <3> QED
      BY <3>1, <3>2
  <2>3. ASSUME NEW n \in Digests, Newest(n)', Meant' = n
        PROVE  Present' # {} /\ History!IsLast(Meant', Present')
    <3>1. n \in Present'
      BY <2>3, <1>4 DEF Newest, DeleteView
    <3>2. ASSUME NEW c \in Present' \ {n} PROVE <<c, n>> \in Earlier
      <4>1. c \in Present /\ n \in Present /\ ref'[c] = ref[c] /\ ref'[n] = ref[n]
        BY <1>4, <1>6, <3>1 DEF Present
      <4>2. PICK e \in ref[c], f \in ref[n] : TRUE
        BY <4>1 DEF Present
      <4>3. e.created <= f.created /\ e.created # f.created
        BY <2>3, <4>1, <3>2 DEF Newest, Keys, Distinct, Present
      <4>4. e.created \in Nat /\ f.created \in Nat
        BY <4>1 DEF TypeInv, TypeOK, Envelope, Present
      <4>5. e.created < f.created
        BY <4>3, <4>4
      <4> QED
        BY <4>1, <4>5, Pairs
    <3> QED
      BY <2>3, <3>1, <3>2 DEF History!IsLast
  <2>4. IF Present' = {} THEN Meant' = NoDigest ELSE History!IsLast(Meant', Present')
    <3>1. CASE deleter'[x].pc = "evidence"
      <4>1. Settled' /\ PointerMeans'
        BY <3>1 DEF DeleteFits, DeleteView, Unpublishes
      <4>2. CASE latest' = {}
        BY <4>1, <4>2 DEF Settled, NoReference, PointerMeans, Present
      <4>3. ASSUME NEW p \in latest' PROVE Present' # {} /\ History!IsLast(Meant', Present')
        <5>1. p.digest \in Digests /\ Meant' = p.digest /\ Newest(p.digest)'
          BY <4>1 DEF Settled, PointerMeans, TypeInv, TypeOK, Pointer
        <5> QED
          BY <5>1, <2>3
      <4> QED
        BY <4>2, <4>3
    <3>2. CASE deleter'[x].pc = "restore"
      <4>1. PICK n \in Digests : n = r.previous
        BY <1>5, <3>2, <1>w DEF AfterRef, DeleterState
      <4>2. Meant' = n
        BY <4>1, <1>5, <3>2 DEF DeleteView
      <4>3. Newest(n)'
        BY <4>1, <1>5, <3>2 DEF DeleteFits, Newest
      <4> QED
        BY <4>1, <4>2, <4>3, <2>3
    <3>3. CASE deleter'[x].pc = "latest_head"
      BY <3>3 DEF DeleteFits, NoReference, DeleteView
    <3> QED
      BY <1>5, <3>1, <3>2, <3>3 DEF AfterRef
  <2>5. History!Withdraw(k)
    BY <1>6, <2>1, <2>2, <2>4 DEF History!Withdraw
  <2> QED
    BY <1>1, <2>5 DEF History!Next
<1> QED
  BY <1>7, <1>8

\* Its other steps do not show: they read, remove a payload, or move the pointer
\* to where the removal of the envelope has said it would be.
LEMMA DeleteDoesNotShow ==
  ASSUME ~Versioned, MaxFaults = 0, TypeInv, TypeInv', Keys, Keys', NEW x \in Deleters,
         StartDelete(x) \/ DeleteStep(x) \/ InterruptDelete(x), ~DeleteRef(x),
         DeleteFits(deleter[x]), DeleteView(deleter[x]), DeleteView(deleter[x])'
  PROVE  UNCHANGED <<Present, Earlier, Meant>>
<1> DEFINE r == deleter[x]
<1>w. r \in GoodDeleter /\ r \in DeleterState
  BY DEF TypeInv, TypeOK
<1>a. \A s : Advance(x, s) => deleter'[x] = s
  BY Advances
<1>e. \A o : Deleted(o).pc = "idle"
  BY DEF Deleted
<1>f. ~ (faults < MaxFaults)
  BY DEF TypeInv, TypeOK
<1>r. UNCHANGED ref
  BY <1>f DEF DeleteStep, StartDelete, ReadTarget, ReadLatestPointer, ResolveLatest, ListVersions,
     ScanVersion, HeadEnvelope, DeleteBlob, RestorePrevious, HeadLatest, DeleteLatest,
     RecordEvidence, InterruptDelete, DeleteOnly, bucket
<1>p. Present' = Present
  BY <1>r DEF DeleteView
<1> SUFFICES Meant' = Meant
  BY <1>r, <1>p, SameHistory
<1>1. CASE RestorePrevious(x)
  <2>1. r.pc = "restore" /\ latest' = {[ver |-> 0, digest |-> r.previous]}
    BY <1>1 DEF RestorePrevious, DeleterAt, Store, Stamp
  <2>2. deleter'[x].pc = "evidence"
    BY <1>1, <1>a, <1>w DEF RestorePrevious, DeleterState
  <2>3. PICK p \in latest' : p.digest = r.previous
    BY <2>1
  <2>4. r.previous \in Digests
    BY <2>3 DEF TypeInv, TypeOK, Pointer
  <2>5. Meant' = r.previous
    BY <2>2, <2>3 DEF DeleteView, Unpublishes, PointerMeans
  <2> QED
    BY <2>1, <2>4, <2>5 DEF DeleteView
<1>2. CASE HeadLatest(x)
  <2>1. r.pc = "latest_head" /\ UNCHANGED latest
    BY <1>2 DEF HeadLatest, DeleterAt, DeleteOnly, bucket
  <2>2. Meant = NoDigest
    BY <2>1 DEF DeleteView
  <2>3. CASE latest = {} /\ Fail(x)
    <3>1. deleter'[x].pc = "idle"
      BY <2>3, <1>a, <1>e DEF Fail
    <3> QED
      BY <2>1, <2>2, <2>3, <3>1 DEF DeleteView, Unpublishes, PointerMeans
  <2>4. ASSUME NEW p \in latest, Advance(x, [r EXCEPT !.pc = "latest_delete", !.headVer = p.ver])
        PROVE  Meant' = NoDigest
    <3>1. deleter'[x].pc = "latest_delete"
      BY <2>4, <1>a, <1>w DEF DeleterState
    <3> QED
      BY <3>1 DEF DeleteView
  <2> QED
    BY <2>2, <2>3, <2>4, <1>2 DEF HeadLatest
<1>3. CASE DeleteLatest(x)
  <2>1. r.pc = "latest_delete" /\ latest' = {}
    BY <1>3 DEF DeleteLatest, DeleterAt, DeleteFits, Keys
  <2>2. deleter'[x].pc = "evidence"
    BY <1>3, <1>a, <1>w DEF DeleteLatest, DeleterState
  <2> QED
    BY <2>1, <2>2 DEF DeleteView, Unpublishes, PointerMeans
<1>4. CASE ~(RestorePrevious(x) \/ HeadLatest(x) \/ DeleteLatest(x))
  <2>1. UNCHANGED latest
    BY <1>4, <1>f DEF DeleteStep, StartDelete, ReadTarget, ReadLatestPointer, ResolveLatest,
       ListVersions, ScanVersion, HeadEnvelope, DeleteBlob, RecordEvidence, InterruptDelete,
       DeleteOnly, bucket
  <2>2. ~Unpublishes(r)
    BY <1>4, <1>f DEF DeleteStep, StartDelete, ReadTarget, ReadLatestPointer, ResolveLatest,
       ListVersions, ScanVersion, HeadEnvelope, DeleteBlob, RecordEvidence, InterruptDelete,
       DeleterAt, Unpublishes
  <2>3. ~Unpublishes(deleter'[x])
    <3> DEFINE s == deleter'[x]
    <3> SUFFICES s.pc \in DeleterPcs \ {"restore", "latest_head", "latest_delete"}
      BY DEF Unpublishes
    <3>f. Fail(x) => s.pc = "idle"
      BY <1>a, <1>e DEF Fail
    <3>1. CASE StartDelete(x) \/ ReadTarget(x)
      BY <3>1, <3>f, <1>a, <1>w, ZenonT(40) DEF StartDelete, Deleted, ReadTarget, DeleterState, DeleterPcs
    <3>2. CASE ReadLatestPointer(x) \/ ResolveLatest(x) \/ ListVersions(x)
      BY <3>2, <1>a, <1>w, ZenonT(40) DEF ReadLatestPointer, ResolveLatest, ListVersions, DeleterState, DeleterPcs
    <3>3. CASE ScanVersion(x)
      BY <3>3, <3>f, <1>a, <1>w, ZenonT(40) DEF ScanVersion, DeleterAt, DeleterState, DeleterPcs
    <3>4. CASE HeadEnvelope(x) \/ DeleteBlob(x)
      BY <3>4, <3>f, <1>a, <1>w DEF HeadEnvelope, DeleteBlob, DeleterState, DeleterPcs
    <3>5. CASE RecordEvidence(x)
      BY <3>5, <1>a, <1>e DEF RecordEvidence, DeleterPcs
    <3>6. CASE InterruptDelete(x)
      BY <3>6, <1>f DEF InterruptDelete
    <3> QED
      BY <1>4, <3>1, <3>2, <3>3, <3>4, <3>5, <3>6 DEF DeleteStep
  <2> QED
    BY <2>1, <2>2, <2>3 DEF DeleteView, PointerMeans, Unpublishes
<1> QED
  BY <1>1, <1>2, <1>3, <1>4

\* Puts and deletes one after another in an unversioned bucket implement the
\* history of versions of ObjectHistory: _put and _delete each take effect in one
\* request, and callers see nothing of the others.
THEOREM PutsAndDeletesKeepHistory ==
  ASSUME OneAtATime
  PROVE  Spec => KeepsHistory
<1>1. Init => History!Init
  <2> SUFFICES ASSUME Init PROVE Present = {} /\ Earlier = {} /\ Meant = NoDigest
    BY DEF History!Init
  <2>1. Present = {}
    BY DEF Init, Present
  <2>2. Earlier = {}
    BY <2>1 DEF Earlier
  <2>3. \A d \in Digests : ~IsMeant(d)
    BY DEF Init, IsMeant, DeleterAt, Deleted
  <2> QED
    BY <2>1, <2>2, <2>3, MeantIs
<1>2. TypeInv /\ TypeInv' /\ Sequential /\ [Next]_vars => [History!Next]_<<Present, Earlier, Meant>>
  <2> SUFFICES ASSUME TypeInv, TypeInv', Sequential, [Next]_vars
               PROVE  [History!Next]_<<Present, Earlier, Meant>>
    OBVIOUS
  <2>1. ASSUME NEW w \in Writers, StartPut(w) \/ PutStep(w) \/ InterruptPut(w)
        PROVE  [History!Next]_<<Present, Earlier, Meant>>
    BY <2>1, PutAlone, PutIsPublish DEF OneAtATime, Sequential
  <2>2. ASSUME NEW x \in Deleters, StartDelete(x) \/ DeleteStep(x) \/ InterruptDelete(x)
        PROVE  [History!Next]_<<Present, Earlier, Meant>>
    <3>1. /\ OnlyDelete(x) /\ DeleteFits(deleter[x])
          /\ Keys' /\ OnlyDelete(x)' /\ DeleteFits(deleter[x])'
      BY <2>2, DeleteAlone
    <3>2. DeleteView(deleter[x]) /\ DeleteView(deleter[x])'
      BY <3>1, Views, ViewsAfter DEF Sequential
    <3>3. CASE DeleteRef(x)
      BY <3>1, <3>2, <3>3, DeleteIsWithdraw DEF OneAtATime, Sequential
    <3>4. CASE ~DeleteRef(x)
      BY <2>2, <3>1, <3>2, <3>4, DeleteDoesNotShow DEF OneAtATime, Sequential
    <3> QED
      BY <3>3, <3>4
  <2>3. ASSUME CreateResource \/ Expire \/ UNCHANGED vars
        PROVE  [History!Next]_<<Present, Earlier, Meant>>
    <3>1. UNCHANGED <<ref, latest, writer, deleter>>
      BY <2>3 DEF CreateResource, Expire, vars, bucket
    <3>2. Present' = Present
      BY <3>1 DEF Present, Publishing, WriterAt
    <3>3. Meant' = Meant
      BY <3>1 DEF Meant, IsMeant, Unpublishing, DeleterAt, IsCurrent
    <3> QED
      BY <3>1, <3>2, <3>3, SameHistory
  <2> QED
    BY <2>1, <2>2, <2>3 DEF Next, Finished
<1> QED
  BY <1>1, <1>2, SequentialHolds, TypeCorrect, PTL DEF Spec, KeepsHistory, History!Spec
-----------------------------------------------------------------------------
(* Reads. *)

\* The local states of reads; floor is a number only if there is a newest object.
IsRead(q) ==
  /\ q = [f \in {"pc", "method", "asked", "digest", "blobVer", "created", "outcome",
                 "floor", "expected", "calm"} |-> q[f]]
  /\ q.pc \in {"idle", "pointer", "envelope", "head", "stream"}
  /\ q.pc \in {"envelope", "head", "stream"} => q.digest \in Digests
  /\ q.asked \in Digests \cup {NoDigest} /\ q.blobVer \in Nat /\ q.created \in Nat
  /\ q.calm \in BOOLEAN

\* A read that remembers no delete sees none.
ReadTypeInv == /\ reader = [r \in Readers |-> reader[r]]
               /\ \A r \in Readers : IsRead(reader[r]) /\ (reader[r].calm => NoDelete)

\* Between two requests of a read the rest of the system takes steps of
\* S3Objects, so what holds there holds beside any reads.
LEMMA ReadsChangeNothing == ReadSpec => Spec
<1>1. ReadInit => Init
  BY DEF ReadInit
<1>2. [ReadNext]_readVars => [Next]_vars
  BY DEF ReadNext, readVars
<1> QED
  BY <1>1, <1>2, PTL DEF ReadSpec, Spec

\* A read changes its own local state only.
LEMMA OwnRead ==
  ASSUME ReadTypeInv, NEW r \in Readers, ReadStep(r)
  PROVE  /\ reader' = [s \in Readers |-> reader'[s]]
         /\ \A s \in Readers \ {r} : reader'[s] = reader[s]
         /\ \A q : Turn(r, q) => reader'[r] = q
<1>1. \E q : Turn(r, q)
  BY DEF ReadStep, StartRead, ReadLatest, ReadEnvelope, HeadPayload, OpenPayload, Absent
<1>2. PICK q : reader' = [reader EXCEPT ![r] = q]
  BY <1>1 DEF Turn
<1> QED
  BY <1>2 DEF Turn, ReadTypeInv

\* The local state of a read that begins.
LEMMA StartedRead ==
  ASSUME ReadTypeInv, NEW r \in Readers, StartRead(r), NEW n, n = reader'[r]
  PROVE  /\ n = [f \in {"pc", "method", "asked", "digest", "blobVer", "created",
                       "outcome", "floor", "expected", "calm"} |-> n[f]]
         /\ n.asked \in Digests \cup {NoDigest}
         /\ n.pc = IF Exact(n.asked) THEN "envelope" ELSE "pointer"
         /\ n.digest = IF Exact(n.asked) THEN n.asked ELSE NoDigest
         /\ n.blobVer = 0 /\ n.created = 0 /\ n.outcome = "none" /\ n.floor = Floor
         /\ n.expected = (n.asked # NoDigest /\ Complete(n.asked))
         /\ n.calm = NoDelete
<1>1. PICK method \in {"stat", "get"}, asked \in Digests \cup {NoDigest} :
        Turn(r, [NoRead EXCEPT
          !.pc = IF Exact(asked) THEN "envelope" ELSE "pointer",
          !.method = method, !.asked = asked,
          !.digest = IF Exact(asked) THEN asked ELSE NoDigest,
          !.floor = Floor, !.expected = (asked # NoDigest /\ Complete(asked)),
          !.calm = NoDelete])
  BY DEF StartRead
<1>2. n = [NoRead EXCEPT !.pc = IF Exact(asked) THEN "envelope" ELSE "pointer",
                         !.method = method, !.asked = asked,
                         !.digest = IF Exact(asked) THEN asked ELSE NoDigest,
                         !.floor = Floor, !.expected = (asked # NoDigest /\ Complete(asked)),
                         !.calm = NoDelete]
  BY <1>1, OwnRead DEF ReadStep
<1>3. /\ n = [f \in {"pc", "method", "asked", "digest", "blobVer", "created",
                     "outcome", "floor", "expected", "calm"} |-> n[f]]
      /\ n.pc = IF Exact(asked) THEN "envelope" ELSE "pointer"
      /\ n.digest = IF Exact(asked) THEN asked ELSE NoDigest
      /\ n.asked = asked /\ n.blobVer = 0 /\ n.created = 0 /\ n.outcome = "none"
  BY <1>2 DEF NoRead
<1>4. n.floor = Floor
  BY <1>2 DEF NoRead
<1>5. n.calm = NoDelete
  BY <1>2 DEF NoRead
<1>6. n.expected = (asked # NoDigest /\ Complete(asked))
  BY <1>2 DEF NoRead
<1> QED
  BY <1>3, <1>4, <1>5, <1>6

\* A request of a read leaves a legal local state.
LEMMA ReadKeepsType ==
  ASSUME TypeInv, ReadTypeInv, NEW r \in Readers, ReadStep(r), UNCHANGED vars
  PROVE  IsRead(reader'[r]) /\ (reader'[r].calm => NoDelete)
<1> DEFINE q == reader[r]
<1>q. IsRead(q) /\ (q.calm => NoDelete)
  BY DEF ReadTypeInv
<1>t. \A n : Turn(r, n) => reader'[r] = n
  BY OwnRead
<1>a. Absent(r) => IsRead(reader'[r]) /\ (reader'[r].calm => NoDelete)
  BY <1>q, <1>t DEF Absent, IsRead
<1>1. CASE StartRead(r)
  <2>1. PICK n : n = reader'[r]
    OBVIOUS
  <2>2. n.calm = NoDelete
    BY <1>1, <2>1, StartedRead
  <2>3. NoDelete \in BOOLEAN
    BY DEF NoDelete
  <2>4. n.calm \in BOOLEAN
    BY <2>2, <2>3
  <2>5. n.pc \in {"envelope", "pointer"} /\ (n.pc = "envelope" => n.digest \in Digests)
    BY <1>1, <2>1, StartedRead DEF Exact
  <2>6. IsRead(n)
    BY <1>1, <2>1, <2>4, <2>5, StartedRead DEF IsRead
  <2> QED
    BY <2>1, <2>2, <2>6
<1>2. CASE ReadLatest(r)
  <2>1. ASSUME NEW p \in latest, Turn(r, [q EXCEPT !.pc = "envelope", !.digest = p.digest])
        PROVE  IsRead(reader'[r]) /\ (reader'[r].calm => NoDelete)
    <3>1. p.digest \in Digests
      BY DEF TypeInv, TypeOK, Pointer
    <3> QED
      BY <2>1, <3>1, <1>q, <1>t DEF IsRead
  <2> QED
    BY <2>1, <1>2, <1>a DEF ReadLatest
<1>3. CASE ReadEnvelope(r)
  <2>1. ASSUME NEW e \in ref[q.digest],
               Turn(r, [q EXCEPT !.pc = "head", !.blobVer = e.blobVer, !.created = e.created])
        PROVE  IsRead(reader'[r]) /\ (reader'[r].calm => NoDelete)
    <3>1. q.digest \in Digests
      BY <1>3, <1>q DEF ReadEnvelope, ReaderAt, IsRead
    <3>2. e.blobVer \in Nat /\ e.created \in Nat
      BY <3>1 DEF TypeInv, TypeOK, Envelope
    <3> QED
      BY <2>1, <3>1, <3>2, <1>q, <1>t DEF IsRead
  <2> QED
    BY <2>1, <1>3, <1>a DEF ReadEnvelope
<1>4. CASE HeadPayload(r)
  <2>1. q.digest \in Digests
    BY <1>4, <1>q DEF HeadPayload, ReaderAt, IsRead
  <2>2. ASSUME Turn(r, [q EXCEPT !.pc = "stream"]) PROVE IsRead(reader'[r]) /\ (reader'[r].calm => NoDelete)
    BY <2>1, <2>2, <1>q, <1>t DEF IsRead
  <2>3. ASSUME Turn(r, [q EXCEPT !.pc = "idle", !.outcome = "found"])
        PROVE  IsRead(reader'[r]) /\ (reader'[r].calm => NoDelete)
    BY <2>3, <1>q, <1>t DEF IsRead
  <2> QED
    BY <2>2, <2>3, <1>4, <1>a DEF HeadPayload
<1>5. CASE OpenPayload(r)
  <2>1. Turn(r, [q EXCEPT !.pc = "idle", !.outcome = "found"]) \/ Absent(r)
    BY <1>5 DEF OpenPayload
  <2> QED
    BY <2>1, <1>a, <1>q, <1>t DEF IsRead
<1> QED
  BY <1>1, <1>2, <1>3, <1>4, <1>5 DEF ReadStep

\* A step of the rest of the system only tells every read whether a delete runs.
LEMMA NextRemembers ==
  ASSUME ReadTypeInv, reader' = Remembered, NEW r \in Readers
  PROVE  /\ reader'[r] = [reader[r] EXCEPT !.calm = @ /\ NoDelete']
         /\ reader'[r].calm = (reader[r].calm /\ NoDelete')
         /\ IsRead(reader'[r])
<1>1. reader'[r] = [reader[r] EXCEPT !.calm = @ /\ NoDelete']
  BY DEF Remembered
<1>2. IsRead(reader[r])
  BY DEF ReadTypeInv
<1>3. reader'[r].calm = (reader[r].calm /\ NoDelete')
  BY <1>1, <1>2 DEF IsRead
<1>4. (reader[r].calm /\ NoDelete') \in BOOLEAN
  OBVIOUS
<1> DEFINE c == reader[r].calm /\ NoDelete'
<1>5. \A b \in BOOLEAN : IsRead([reader[r] EXCEPT !.calm = b])
  BY <1>2 DEF IsRead
<1>6. IsRead(reader'[r])
  BY <1>1, <1>4, <1>5
<1> QED
  BY <1>1, <1>3, <1>6

\* The local states of the reads stay legal.
LEMMA ReadTypeCorrect == ReadSpec => []ReadTypeInv
<1>1. ReadInit => ReadTypeInv
  <2> SUFFICES ASSUME ReadInit PROVE ReadTypeInv
    OBVIOUS
  <2>1. reader = [r \in Readers |-> NoRead]
    BY DEF ReadInit
  <2>2. IsRead(NoRead) /\ ~NoRead.calm
    BY DEF IsRead, NoRead
  <2> QED
    BY <2>1, <2>2 DEF ReadTypeInv
<1>2. TypeInv /\ ReadTypeInv /\ [ReadNext]_readVars => ReadTypeInv'
  <2> SUFFICES ASSUME TypeInv, ReadTypeInv, [ReadNext]_readVars PROVE ReadTypeInv'
    OBVIOUS
  <2>1. CASE reader' = Remembered
    <3>1. reader' = [r \in Readers |-> reader'[r]]
      BY <2>1 DEF Remembered
    <3>2. \A r \in Readers : IsRead(reader'[r]) /\ (reader'[r].calm => NoDelete')
      BY <2>1, NextRemembers
    <3> QED
      BY <3>1, <3>2 DEF ReadTypeInv, IsRead
  <2>2. ASSUME NEW r \in Readers, ReadStep(r), UNCHANGED vars PROVE ReadTypeInv'
    <3>1. NoDelete' = NoDelete
      BY <2>2 DEF NoDelete, DeleterAt, vars
    <3>2. /\ reader' = [s \in Readers |-> reader'[s]]
          /\ \A s \in Readers \ {r} : reader'[s] = reader[s]
      BY <2>2, OwnRead
    <3>3. IsRead(reader'[r]) /\ (reader'[r].calm => NoDelete)
      BY <2>2, ReadKeepsType
    <3>4. \A s \in Readers : IsRead(reader'[s]) /\ (reader'[s].calm => NoDelete)
      BY <3>2, <3>3 DEF ReadTypeInv
    <3> QED
      BY <3>1, <3>2, <3>4 DEF ReadTypeInv, IsRead
  <2>3. CASE UNCHANGED readVars
    BY <2>3 DEF readVars, ReadTypeInv, vars, NoDelete, DeleterAt, IsRead
  <2> QED
    BY <2>1, <2>2, <2>3 DEF ReadNext
<1> QED
  BY <1>1, <1>2, ReadsChangeNothing, TypeCorrect, PTL DEF ReadSpec
-----------------------------------------------------------------------------
(* Exact reads. *)

\* Whatever the operations do, a digest has one envelope at a time, and an
\* unversioned bucket keeps one version of a payload.
Slots == /\ OneEnvelope
         /\ ~Versioned => \A d \in Digests : blob[d] \subseteq {0}

\* Payloads are written by puts and removed by deletes, nothing else.
LEMMA WhoChangesBlob ==
  ASSUME [Next]_vars
  PROVE  \/ blob' = blob
         \/ \E w \in Writers : PutBlob(w)
         \/ \E x \in Deleters : DeleteBlob(x)
<1>1. ASSUME NEW w \in Writers, StartPut(w) \/ PutStep(w) \/ InterruptPut(w)
      PROVE  blob' = blob \/ PutBlob(w)
  BY <1>1 DEF StartPut, PutStep, InterruptPut, ReadPointer, ResolveNothing, ResolveDecided,
     ResolveProceed, ResolveWinner, VerifyBlob, PutEnvelope, PutLatest, RecordOrphan, PutOnly, bucket
<1>2. ASSUME NEW x \in Deleters, StartDelete(x) \/ DeleteStep(x) \/ InterruptDelete(x)
      PROVE  blob' = blob \/ DeleteBlob(x)
  BY <1>2 DEF StartDelete, DeleteStep, InterruptDelete, ReadTarget, ReadLatestPointer,
     ResolveLatest, ListVersions, ScanVersion, HeadEnvelope, DeleteRef, RestorePrevious,
     HeadLatest, DeleteLatest, RecordEvidence, DeleteOnly, bucket
<1>3. CreateResource \/ Expire \/ Finished \/ UNCHANGED vars => blob' = blob
  BY DEF CreateResource, Expire, Finished, vars, bucket
<1> QED
  BY <1>1, <1>2, <1>3 DEF Next

\* A put stores an envelope only where there is none, and a payload beside or
\* in the place of what is there.
LEMMA PutStores ==
  ASSUME TypeInv, Slots, NEW w \in Writers, PutEnvelope(w) \/ PutBlob(w)
  PROVE  /\ Slots'
         /\ \A d \in Digests : blob[d] \subseteq blob'[d] /\ (ref[d] # {} => ref'[d] = ref[d])
<1> DEFINE k == writer[w].req.digest
<1>t. blob \in [Digests -> SUBSET Nat] /\ ref \in [Digests -> SUBSET Envelope]
  BY DEF TypeInv, TypeOK
<1>1. CASE PutEnvelope(w)
  <2>1. blob' = blob
    BY <1>1 DEF PutEnvelope
  <2>2. \/ ref' = ref
        \/ ref[k] = {} /\ \E n : ref' = [ref EXCEPT ![k] = {n}]
    BY <1>1 DEF PutEnvelope, Store
  <2>3. CASE ref' = ref
    BY <2>1, <2>3 DEF Slots, OneEnvelope
  <2>4. ASSUME ref[k] = {}, NEW n, ref' = [ref EXCEPT ![k] = {n}]
        PROVE  Slots' /\ \A d \in Digests : ref[d] # {} => ref'[d] = ref[d]
    <3>1. \A d \in Digests : ref'[d] = {n} \/ ref'[d] = ref[d]
      BY <2>4, <1>t
    <3>2. \A d \in Digests : ref[d] # {} => ref'[d] = ref[d]
      BY <2>4, <1>t
    <3> QED
      BY <3>1, <3>2, <2>1 DEF Slots, OneEnvelope
  <2> QED
    BY <2>1, <2>2, <2>3, <2>4
<1>2. CASE PutBlob(w)
  <2>1. ref' = ref
    BY <1>2 DEF PutBlob
  <2>2. blob' = blob \/ blob' = [blob EXCEPT ![k] = Store(@, Stamp)]
    BY <1>2 DEF PutBlob
  <2>3. \A d \in Digests : blob[d] \subseteq blob'[d]
    BY <2>2, <1>t DEF Store, Stamp, Slots
  <2>4. ~Versioned => \A d \in Digests : blob'[d] \subseteq {0}
    BY <2>2, <1>t DEF Store, Stamp, Slots
  <2> QED
    BY <2>1, <2>3, <2>4 DEF Slots, OneEnvelope
<1> QED
  BY <1>1, <1>2

\* The keys of a digest have their versions in order, always.
LEMMA SlotsHold == Spec => []Slots
<1>1. Init => Slots
  BY DEF Init, Slots, OneEnvelope
<1>2. TypeInv /\ Slots /\ [Next]_vars => Slots'
  <2> SUFFICES ASSUME TypeInv, Slots, [Next]_vars PROVE Slots'
    OBVIOUS
  <2>t. blob \in [Digests -> SUBSET Nat] /\ ref \in [Digests -> SUBSET Envelope]
    BY DEF TypeInv, TypeOK
  <2>1. CASE \E w \in Writers : PutEnvelope(w) \/ PutBlob(w)
    BY <2>1, PutStores
  <2>2. CASE ~ \E w \in Writers : PutEnvelope(w) \/ PutBlob(w)
    <3>1. ref' = ref \/ \E k : \E S : ref' = [ref EXCEPT ![k] = @ \ S]
      BY <2>2, WhoChangesRef DEF DeleteRef
    <3>2. blob' = blob \/ \E k : \E S : blob' = [blob EXCEPT ![k] = @ \ S]
      BY <2>2, WhoChangesBlob DEF DeleteBlob
    <3>3. \A d \in Digests : ref'[d] \subseteq ref[d]
      BY <3>1, <2>t
    <3>4. \A d \in Digests : blob'[d] \subseteq blob[d]
      BY <3>2, <2>t
    <3> QED
      BY <3>3, <3>4 DEF Slots, OneEnvelope
  <2> QED
    BY <2>1, <2>2
<1> QED
  BY <1>1, <1>2, TypeCorrect, PTL DEF Spec

\* While no delete runs nothing that is stored goes away.
LEMMA StoredStays ==
  ASSUME TypeInv, Slots, [Next]_vars, NoDelete
  PROVE  \A d \in Digests : blob[d] \subseteq blob'[d] /\ (ref[d] # {} => ref'[d] = ref[d])
<1>1. CASE \E w \in Writers : PutEnvelope(w) \/ PutBlob(w)
  BY <1>1, PutStores
<1>2. CASE ~ \E w \in Writers : PutEnvelope(w) \/ PutBlob(w)
  <2>1. \A x \in Deleters : ~DeleteRef(x) /\ ~DeleteBlob(x)
    BY DEF NoDelete, DeleteRef, DeleteBlob, DeleterAt
  <2>2. ref' = ref /\ blob' = blob
    BY <1>2, <2>1, WhoChangesRef, WhoChangesBlob
  <2> QED
    BY <2>2
<1> QED
  BY <1>1, <1>2

\* What an exact read without deletes is about to find is there.
ExactFits(q) ==
  q.expected /\ q.calm =>
    /\ q.asked \in Digests /\ q.pc # "pointer"
    /\ q.pc = "envelope" => q.digest = q.asked /\ Complete(q.asked)
    /\ q.pc \in {"head", "stream"} => q.digest = q.asked /\ q.blobVer \in blob[q.asked]
    /\ q.outcome # "none" => q.outcome = "found" /\ q.digest = q.asked

\* Every request of an exact read finds what it looks for.
LEMMA ReadKeepsExact ==
  ASSUME TypeInv, ReadTypeInv, Slots, NEW r \in Readers, ReadStep(r), UNCHANGED vars,
         ExactFits(reader[r])
  PROVE  ExactFits(reader[r])'
<1> DEFINE q == reader[r]
<1>q. IsRead(q)
  BY DEF ReadTypeInv
<1>t. \A n : Turn(r, n) => reader'[r] = n
  BY OwnRead
<1>u. /\ UNCHANGED <<blob, ref>>
      /\ \A d : Complete(d)' = Complete(d)
  BY DEF vars, bucket, Complete
<1> SUFFICES ASSUME NEW n, n = reader'[r], n.expected, n.calm
             PROVE  /\ n.asked \in Digests /\ n.pc # "pointer"
                    /\ n.pc = "envelope" => n.digest = n.asked /\ Complete(n.asked)
                    /\ n.pc \in {"head", "stream"} => n.digest = n.asked /\ n.blobVer \in blob[n.asked]
                    /\ n.outcome # "none" => n.outcome = "found" /\ n.digest = n.asked
  BY <1>u DEF ExactFits
<1>1. CASE StartRead(r)
  BY <1>1, StartedRead DEF Exact
<1>2. CASE ~StartRead(r)
  <2>1. n.expected = q.expected /\ n.calm = q.calm /\ n.asked = q.asked
    BY <1>2, <1>q, <1>t DEF ReadStep, ReadLatest, ReadEnvelope, HeadPayload, OpenPayload, Absent, IsRead
  <2>2. /\ q.asked \in Digests /\ q.pc # "pointer"
        /\ q.pc = "envelope" => q.digest = q.asked /\ Complete(q.asked)
        /\ q.pc \in {"head", "stream"} => q.digest = q.asked /\ q.blobVer \in blob[q.asked]
        /\ q.outcome # "none" => q.outcome = "found" /\ q.digest = q.asked
    BY <2>1 DEF ExactFits
  <2>3. CASE ReadEnvelope(r)
    <3>1. q.pc = "envelope" /\ Complete(q.digest) /\ q.digest = q.asked
      BY <2>2, <2>3 DEF ReadEnvelope, ReaderAt
    <3>2. PICK e \in ref[q.asked] :
            Turn(r, [q EXCEPT !.pc = "head", !.blobVer = e.blobVer, !.created = e.created])
      BY <2>3, <3>1 DEF ReadEnvelope, Complete
    <3>3. e.blobVer \in blob[q.asked]
      BY <2>2, <3>1, <3>2 DEF Complete, Slots, OneEnvelope
    <3>4. n.pc = "head" /\ n.digest = q.digest /\ n.blobVer = e.blobVer /\ n.outcome = q.outcome
      BY <3>2, <1>q, <1>t DEF IsRead
    <3> QED
      BY <2>1, <2>2, <3>1, <3>3, <3>4
  <2>4. CASE HeadPayload(r) \/ OpenPayload(r)
    <3>1. q.pc \in {"head", "stream"}
      BY <2>4 DEF HeadPayload, OpenPayload, ReaderAt
    <3>2. Turn(r, [q EXCEPT !.pc = "stream"]) \/ Turn(r, [q EXCEPT !.pc = "idle", !.outcome = "found"])
      BY <2>2, <2>4, <3>1 DEF HeadPayload, OpenPayload
    <3>3. /\ n.digest = q.digest /\ n.blobVer = q.blobVer
          /\ (n.pc = "stream" /\ n.outcome = q.outcome) \/ (n.pc = "idle" /\ n.outcome = "found")
      BY <3>2, <1>q, <1>t DEF IsRead
    <3> QED
      BY <2>1, <2>2, <3>1, <3>3
  <2>5. ~ReadLatest(r)
    BY <2>2 DEF ReadLatest, ReaderAt
  <2> QED
    BY <2>3, <2>4, <2>5, <1>2 DEF ReadStep
<1> QED
  BY <1>1, <1>2

\* Nothing that puts do takes away what an exact read is about to find.
LEMMA NextKeepsExact ==
  ASSUME TypeInv, ReadTypeInv, Slots, [Next]_vars, reader' = Remembered, NEW r \in Readers,
         ExactFits(reader[r])
  PROVE  ExactFits(reader[r])'
<1> DEFINE q == reader[r]
<1>q. IsRead(q) /\ (q.calm => NoDelete)
  BY DEF ReadTypeInv
<1> SUFFICES ASSUME NEW n, n = reader'[r], n.expected, n.calm
             PROVE  /\ n.asked \in Digests /\ n.pc # "pointer"
                    /\ n.pc = "envelope" => n.digest = n.asked /\ Complete(n.asked)'
                    /\ n.pc \in {"head", "stream"} => n.digest = n.asked /\ n.blobVer \in blob'[n.asked]
                    /\ n.outcome # "none" => n.outcome = "found" /\ n.digest = n.asked
  BY DEF ExactFits, Complete
<1>1. n = [q EXCEPT !.calm = @ /\ NoDelete'] /\ q.calm
  BY NextRemembers
<1>2. /\ n.expected = q.expected /\ n.pc = q.pc /\ n.asked = q.asked /\ n.digest = q.digest
      /\ n.blobVer = q.blobVer /\ n.outcome = q.outcome
  BY <1>1, <1>q DEF IsRead
<1>3. \A d \in Digests : blob[d] \subseteq blob'[d] /\ (ref[d] # {} => ref'[d] = ref[d])
  BY <1>1, <1>q, StoredStays
<1>4. \A d \in Digests : Complete(d) => Complete(d)'
  <2> SUFFICES ASSUME NEW d \in Digests, Complete(d) PROVE Complete(d)'
    OBVIOUS
  <2>1. PICK e \in ref[d] : IsCurrent(e, ref[d]) /\ e.blobVer \in blob[d]
    BY DEF Complete
  <2>2. ref'[d] = ref[d] /\ e.blobVer \in blob'[d]
    BY <2>1, <1>3
  <2> QED
    BY <2>1, <2>2 DEF Complete, IsCurrent
<1> QED
  BY <1>1, <1>2, <1>3, <1>4 DEF ExactFits

\* In any bucket, whatever puts, crashes and lost responses run meanwhile: a
\* read of an exact version that was completely there when it began, and that no
\* delete overlapped, finds it and no other (_stat and _get with a digest).
THEOREM ExactReadsFind == ReadSpec => []ExactIsFound
<1> DEFINE Fits == \A r \in Readers : ExactFits(reader[r])
<1>1. ReadInit => Fits
  BY DEF ReadInit, ExactFits, NoRead
<1>2. TypeInv /\ ReadTypeInv /\ Slots /\ Fits /\ [ReadNext]_readVars => Fits'
  <2> SUFFICES ASSUME TypeInv, ReadTypeInv, Slots, Fits, [ReadNext]_readVars, NEW s \in Readers
               PROVE  ExactFits(reader[s])'
    OBVIOUS
  <2>1. CASE [Next]_vars /\ reader' = Remembered
    BY <2>1, NextKeepsExact
  <2>2. ASSUME NEW r \in Readers, ReadStep(r), UNCHANGED vars PROVE ExactFits(reader[s])'
    <3>1. CASE s = r
      BY <2>2, <3>1, ReadKeepsExact
    <3>2. CASE s # r
      BY <2>2, <3>2, OwnRead DEF ExactFits, Complete, vars, bucket
    <3> QED
      BY <3>1, <3>2
  <2>3. CASE UNCHANGED readVars
    BY <2>3 DEF readVars, vars, bucket, ExactFits, Complete
  <2> QED
    BY <2>1, <2>2, <2>3 DEF ReadNext
<1>3. Fits => ExactIsFound
  BY DEF ExactFits, ExactIsFound
<1>4. ReadSpec => []Slots
  BY ReadsChangeNothing, SlotsHold, PTL
<1>5. ReadSpec => []TypeInv
  BY ReadsChangeNothing, TypeCorrect, PTL
<1> QED
  BY <1>1, <1>2, <1>3, <1>4, <1>5, ReadTypeCorrect, PTL DEF ReadSpec
-----------------------------------------------------------------------------
(* Reads of the latest version. *)

\* The envelope of digest d is there and not older than n.
NotOlder(d, n) == ref[d] # {} /\ \A f \in ref[d] : f.created >= n

\* What a read of the latest version without deletes is about to find is there,
\* and is not older than what there was when it began.
FreshFits(q) ==
  q.asked = NoDigest /\ q.calm /\ q.floor > 0 =>
    /\ q.floor \in Nat
    /\ q.pc = "pointer" => latest # {} /\ \A p \in latest : NotOlder(p.digest, q.floor)
    /\ q.pc \in {"envelope", "head", "stream"} => NotOlder(q.digest, q.floor)
    /\ q.pc \in {"head", "stream"} => q.blobVer = 0 /\ q.created >= q.floor
    /\ q.outcome # "none" => q.outcome = "found" /\ q.created >= q.floor

\* The pointer is written by puts and deletes, one step of each.
LEMMA WhoChangesLatest ==
  ASSUME [Next]_vars
  PROVE  \/ latest' = latest
         \/ \E w \in Writers : PutLatest(w)
         \/ \E x \in Deleters : RestorePrevious(x) \/ DeleteLatest(x)
<1>1. ASSUME NEW w \in Writers, StartPut(w) \/ PutStep(w) \/ InterruptPut(w)
      PROVE  latest' = latest \/ PutLatest(w)
  BY <1>1 DEF StartPut, PutStep, InterruptPut, ReadPointer, ResolveNothing, ResolveDecided,
     ResolveProceed, ResolveWinner, PutBlob, VerifyBlob, PutEnvelope, RecordOrphan, PutOnly, bucket
<1>2. ASSUME NEW x \in Deleters, StartDelete(x) \/ DeleteStep(x) \/ InterruptDelete(x)
      PROVE  latest' = latest \/ RestorePrevious(x) \/ DeleteLatest(x)
  BY <1>2 DEF StartDelete, DeleteStep, InterruptDelete, ReadTarget, ReadLatestPointer,
     ResolveLatest, ListVersions, ScanVersion, HeadEnvelope, DeleteBlob, DeleteRef,
     HeadLatest, RecordEvidence, DeleteOnly, bucket
<1>3. CreateResource \/ Expire \/ Finished \/ UNCHANGED vars => latest' = latest
  BY DEF CreateResource, Expire, Finished, vars, bucket
<1> QED
  BY <1>1, <1>2, <1>3 DEF Next

\* While no delete runs, an envelope has its payload.
LEMMA CalmIsWhole ==
  ASSUME Sequential, NoDelete
  PROVE  \A d \in Digests : ref[d] # {} => 0 \in blob[d]
<1>1. ASSUME NEW x \in Deleters, DeleteFits(deleter[x])
      PROVE  \A d \in Digests : ref[d] # {} => 0 \in blob[d]
  BY <1>1 DEF NoDelete, DeleterAt, DeleteFits
<1> QED
  BY <1>1 DEF Sequential, WholeAndSettled, PutFits

\* Between operations, what the pointer names was created when the newest was.
LEMMA FloorIsPublished ==
  ASSUME OneAtATime, TypeInv, Sequential, Floor > 0
  PROVE  Floor \in Nat /\ latest # {} /\ \A p \in latest : NotOlder(p.digest, Floor)
<1>1. Quiet /\ Created # {} /\ Floor = CHOOSE n \in Created : \A m \in Created : m <= n
  BY DEF Floor
<1>2. Settled
  BY <1>1, QuietIsIdle, IdleIsSettled DEF OneAtATime, WholeAndSettled
<1>3. PICK d \in Digests, e \in Envelope : e \in ref[d]
  BY <1>1 DEF Created, TypeInv, TypeOK
<1>4. latest # {}
  BY <1>2, <1>3 DEF Settled, NoReference
<1>5. \A c \in Digests : \A g \in ref[c] : g.created \in Nat /\ g.created \in Created
  BY DEF Created, TypeInv, TypeOK, Envelope
<1>6. ASSUME NEW p \in latest, NEW f \in ref[p.digest]
      PROVE  f.created \in Created /\ \A m \in Created : m <= f.created
  <2>1. p.digest \in Digests /\ Newest(p.digest)
    BY <1>2 DEF Settled, TypeInv, TypeOK, Pointer
  <2>2. \A c \in Digests : \A g \in ref[c] : g.created <= f.created
    BY <2>1 DEF Newest
  <2> QED
    BY <1>5, <2>1, <2>2 DEF Created
<1>7. \A p \in latest : ref[p.digest] # {}
  BY <1>2 DEF Settled, Newest
<1>8. Floor \in Created /\ \A m \in Created : m <= Floor
  BY <1>1, <1>4, <1>6, <1>7
<1>9. Created \subseteq Nat
  BY <1>5 DEF Created
<1>10. \A p \in latest : \A f \in ref[p.digest] : f.created >= Floor
  BY <1>6, <1>8, <1>9
<1> QED
  BY <1>4, <1>7, <1>8, <1>9, <1>10 DEF NotOlder

\* Every request of a read of the latest version finds what it looks for.
LEMMA ReadKeepsFresh ==
  ASSUME OneAtATime, TypeInv, ReadTypeInv, Sequential, NEW r \in Readers, ReadStep(r),
         UNCHANGED vars, FreshFits(reader[r])
  PROVE  FreshFits(reader[r])'
<1> DEFINE q == reader[r]
<1>q. IsRead(q) /\ (q.calm => NoDelete)
  BY DEF ReadTypeInv
<1>t. \A n : Turn(r, n) => reader'[r] = n
  BY OwnRead
<1>u. UNCHANGED <<latest, ref>>
  BY DEF vars, bucket
<1> DEFINE Found(n) ==
      /\ n.floor \in Nat
      /\ n.pc = "pointer" => latest # {} /\ \A p \in latest : NotOlder(p.digest, n.floor)
      /\ n.pc \in {"envelope", "head", "stream"} => NotOlder(n.digest, n.floor)
      /\ n.pc \in {"head", "stream"} => n.blobVer = 0 /\ n.created >= n.floor
      /\ n.outcome # "none" => n.outcome = "found" /\ n.created >= n.floor
<1> SUFFICES ASSUME NEW n, n = reader'[r], n.asked = NoDigest, n.calm, n.floor > 0 PROVE Found(n)
  BY <1>u DEF FreshFits, NotOlder
<1>1. CASE StartRead(r)
  <2>1. n.pc = "pointer" /\ n.outcome = "none" /\ n.floor = Floor
    BY <1>1, StartedRead DEF Exact
  <2> QED
    BY <2>1, FloorIsPublished
<1>2. CASE ~StartRead(r)
  <2>1. n.floor = q.floor /\ n.calm = q.calm /\ n.asked = q.asked
    BY <1>2, <1>q, <1>t DEF ReadStep, ReadLatest, ReadEnvelope, HeadPayload, OpenPayload, Absent, IsRead
  <2>2. Found(q)
    BY <2>1 DEF FreshFits
  <2>3. CASE ReadLatest(r)
    <3>1. q.pc = "pointer"
      BY <2>3 DEF ReadLatest, ReaderAt
    <3>2. PICK p \in latest : Turn(r, [q EXCEPT !.pc = "envelope", !.digest = p.digest])
      BY <2>2, <2>3, <3>1 DEF ReadLatest
    <3>3. n.pc = "envelope" /\ n.digest = p.digest /\ n.outcome = q.outcome /\ n.created = q.created
      BY <3>2, <1>q, <1>t DEF IsRead
    <3>4. NotOlder(p.digest, q.floor)
      BY <2>2, <3>1
    <3> QED
      BY <2>1, <2>2, <3>3, <3>4
  <2>4. CASE ReadEnvelope(r)
    <3>1. q.pc = "envelope" /\ q.digest \in Digests
      BY <2>4, <1>q DEF ReadEnvelope, ReaderAt, IsRead
    <3>2. NotOlder(q.digest, q.floor)
      BY <2>2, <3>1
    <3>3. PICK e \in ref[q.digest] :
            Turn(r, [q EXCEPT !.pc = "head", !.blobVer = e.blobVer, !.created = e.created])
      BY <2>4, <3>2 DEF ReadEnvelope, NotOlder
    <3>4. e.blobVer = 0 /\ e.created >= q.floor
      BY <3>1, <3>2, <3>3 DEF NotOlder, Sequential, Keys
    <3>5. /\ n.pc = "head" /\ n.digest = q.digest /\ n.outcome = q.outcome
          /\ n.blobVer = e.blobVer /\ n.created = e.created
      BY <3>3, <1>q, <1>t DEF IsRead
    <3> QED
      BY <2>1, <2>2, <3>2, <3>4, <3>5
  <2>5. CASE HeadPayload(r) \/ OpenPayload(r)
    <3>1. q.pc \in {"head", "stream"} /\ q.digest \in Digests
      BY <2>5, <1>q DEF HeadPayload, OpenPayload, ReaderAt, IsRead
    <3>2. NotOlder(q.digest, q.floor) /\ q.blobVer = 0 /\ q.created >= q.floor
      BY <2>2, <3>1
    <3>3. q.blobVer \in blob[q.digest]
      BY <2>1, <3>1, <3>2, <1>q, CalmIsWhole DEF NotOlder
    <3>4. Turn(r, [q EXCEPT !.pc = "stream"]) \/ Turn(r, [q EXCEPT !.pc = "idle", !.outcome = "found"])
      BY <2>5, <3>3 DEF HeadPayload, OpenPayload
    <3>5. /\ n.digest = q.digest /\ n.blobVer = q.blobVer /\ n.created = q.created
          /\ (n.pc = "stream" /\ n.outcome = q.outcome) \/ (n.pc = "idle" /\ n.outcome = "found")
      BY <3>4, <1>q, <1>t DEF IsRead
    <3> QED
      BY <2>1, <2>2, <3>2, <3>5
  <2> QED
    BY <2>3, <2>4, <2>5, <1>2 DEF ReadStep
<1> QED
  BY <1>1, <1>2

\* Nothing that a put does makes what a read of the latest version is about to
\* find older.
LEMMA NextKeepsFresh ==
  ASSUME OneAtATime, TypeInv, ReadTypeInv, Slots, Sequential, [Next]_vars, reader' = Remembered,
         NEW r \in Readers, FreshFits(reader[r])
  PROVE  FreshFits(reader[r])'
<1> DEFINE q == reader[r]
<1>q. IsRead(q) /\ (q.calm => NoDelete)
  BY DEF ReadTypeInv
<1> SUFFICES ASSUME NEW n, n = reader'[r], n.asked = NoDigest, n.calm, n.floor > 0
             PROVE  /\ n.floor \in Nat
                    /\ n.pc = "pointer" => latest' # {} /\ \A p \in latest' : NotOlder(p.digest, n.floor)'
                    /\ n.pc \in {"envelope", "head", "stream"} => NotOlder(n.digest, n.floor)'
                    /\ n.pc \in {"head", "stream"} => n.blobVer = 0 /\ n.created >= n.floor
                    /\ n.outcome # "none" => n.outcome = "found" /\ n.created >= n.floor
  BY DEF FreshFits, NotOlder
<1>1. n = [q EXCEPT !.calm = @ /\ NoDelete'] /\ q.calm
  BY NextRemembers
<1>2. /\ n.floor = q.floor /\ n.pc = q.pc /\ n.asked = q.asked /\ n.digest = q.digest
      /\ n.blobVer = q.blobVer /\ n.outcome = q.outcome /\ n.created = q.created
  BY <1>1, <1>q DEF IsRead
<1>3. \A d \in Digests : NotOlder(d, q.floor) => NotOlder(d, q.floor)'
  BY <1>1, <1>q, <1>2, StoredStays DEF NotOlder
<1>4. CASE latest' = latest
  <2>1. \A p \in latest : p.digest \in Digests
    BY DEF TypeInv, TypeOK, Pointer
  <2>2. q.pc \in {"envelope", "head", "stream"} => q.digest \in Digests
    BY <1>q DEF IsRead
  <2> QED
    BY <1>1, <1>2, <1>3, <1>4, <2>1, <2>2 DEF FreshFits
<1>5. ASSUME NEW w \in Writers, PutLatest(w), latest' # latest
      PROVE  /\ latest' # {}
             /\ latest # {} /\ (\A p \in latest : NotOlder(p.digest, q.floor)) /\ q.floor \in Nat =>
                  \A p \in latest' : NotOlder(p.digest, q.floor)'
  <2>1. writer[w].pc = "latest"
    BY <1>5 DEF PutLatest, WriterAt
  <2>2. PutFits(writer[w])
    BY <2>1 DEF Sequential, AllIdle, OnlyPut, OnlyDelete, WriterAt
  <2>3. PICK d : d = writer[w].req.digest
    OBVIOUS
  <2>4. d \in Digests /\ Newest(d)
    BY <2>1, <2>2, <2>3, RequestType DEF PutFits, TypeInv, GoodWriter
  <2>5. latest' = {[ver |-> Stamp, digest |-> d]}
    BY <1>5, <2>3 DEF PutLatest, Store, OneAtATime
  <2>6. ASSUME NEW p \in latest, NotOlder(p.digest, q.floor), q.floor \in Nat
        PROVE  NotOlder(d, q.floor)
    <3>1. p.digest \in Digests
      BY DEF TypeInv, TypeOK, Pointer
    <3>2. PICK f \in ref[p.digest] : f.created >= q.floor
      BY <2>6 DEF NotOlder
    <3>3. \A g \in ref[d] : f.created <= g.created /\ g.created \in Nat /\ f.created \in Nat
      BY <2>4, <3>1, <3>2 DEF Newest, TypeInv, TypeOK, Envelope
    <3>4. \A g \in ref[d] : g.created >= q.floor
      BY <2>6, <3>2, <3>3
    <3> QED
      BY <2>4, <3>4 DEF NotOlder, Newest
  <2>7. latest' # {} /\ \A p \in latest' : p.digest = d
    BY <2>5
  <2>8. NotOlder(d, q.floor) => NotOlder(d, q.floor)'
    BY <1>3, <2>4
  <2> QED
    BY <2>6, <2>7, <2>8
<1>6. \A x \in Deleters : ~RestorePrevious(x) /\ ~DeleteLatest(x)
  BY <1>1, <1>q DEF NoDelete, RestorePrevious, DeleteLatest, DeleterAt
<1>7. CASE latest' # latest
  <2>1. PICK w \in Writers : PutLatest(w)
    BY <1>6, <1>7, WhoChangesLatest
  <2>2. q.pc \in {"envelope", "head", "stream"} => q.digest \in Digests
    BY <1>q DEF IsRead
  <2> QED
    BY <1>1, <1>2, <1>3, <1>5, <1>7, <2>1, <2>2 DEF FreshFits
<1> QED
  BY <1>4, <1>7

\* Puts and deletes one after another in an unversioned bucket, reads at any of
\* their requests: a read of the latest version that began between operations,
\* and that no delete overlapped, finds one, and none older than any there was
\* when it began (_stat and _get without a digest).
THEOREM LatestReadsAreFresh ==
  ASSUME OneAtATime
  PROVE  ReadSpec => []ReadIsFresh
<1> DEFINE Fits == \A r \in Readers : FreshFits(reader[r])
<1>1. ReadInit => Fits
  BY DEF ReadInit, FreshFits, NoRead
<1>2. TypeInv /\ ReadTypeInv /\ Slots /\ Sequential /\ Fits /\ [ReadNext]_readVars => Fits'
  <2> SUFFICES ASSUME TypeInv, ReadTypeInv, Slots, Sequential, Fits, [ReadNext]_readVars,
                      NEW s \in Readers
               PROVE  FreshFits(reader[s])'
    OBVIOUS
  <2>1. CASE [Next]_vars /\ reader' = Remembered
    BY <2>1, NextKeepsFresh
  <2>2. ASSUME NEW r \in Readers, ReadStep(r), UNCHANGED vars PROVE FreshFits(reader[s])'
    <3>1. CASE s = r
      BY <2>2, <3>1, ReadKeepsFresh
    <3>2. CASE s # r
      BY <2>2, <3>2, OwnRead DEF FreshFits, NotOlder, vars, bucket
    <3> QED
      BY <3>1, <3>2
  <2>3. CASE UNCHANGED readVars
    BY <2>3 DEF readVars, vars, bucket, FreshFits, NotOlder
  <2> QED
    BY <2>1, <2>2, <2>3 DEF ReadNext
<1>3. Fits => ReadIsFresh
  BY DEF FreshFits, ReadIsFresh
<1>4. ReadSpec => []Slots
  BY ReadsChangeNothing, SlotsHold, PTL
<1>5. ReadSpec => []TypeInv
  BY ReadsChangeNothing, TypeCorrect, PTL
<1>6. ReadSpec => []Sequential
  BY ReadsChangeNothing, SequentialHolds, PTL
<1> QED
  BY <1>1, <1>2, <1>3, <1>4, <1>5, <1>6, ReadTypeCorrect, PTL DEF ReadSpec
=============================================================================
