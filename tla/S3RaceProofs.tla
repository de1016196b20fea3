---------------------------- MODULE S3RaceProofs ----------------------------
(* Proofs about puts of one object that race with each other and with no     *)
(* delete (S3Objects with Deleters = {}), for any number of them.            *)
EXTENDS S3ObjectsProofs

\* Without deletes, whatever changes the bucket or a put is a step of a put.
LEMMA OnlyPuts ==
  ASSUME Deleters = {}, [Next]_vars
  PROVE  \/ \E w \in Writers : StartPut(w) \/ PutStep(w) \/ InterruptPut(w)
         \/ UNCHANGED <<blob, ref, latest, orphans, writer, committed>>
BY DEF Next, CreateResource, Expire, Finished, vars, bucket, outside, history

\* Puts never remove the pointer, and in a versioned bucket they only add to it.
LEMMA PointerStays ==
  ASSUME NEW w \in Writers, StartPut(w) \/ PutStep(w) \/ InterruptPut(w)
  PROVE  /\ latest # {} => latest' # {}
         /\ Versioned => latest \subseteq latest'
<1>1. latest' = latest \/ PutLatest(w)
  BY DEF StartPut, PutStep, InterruptPut, ReadPointer, ResolveNothing, ResolveDecided,
     ResolveProceed, ResolveWinner, PutBlob, VerifyBlob, PutEnvelope, RecordOrphan, PutOnly, bucket
<1>2. ASSUME PutLatest(w)
      PROVE  latest' = latest \/ latest' = Store(latest, [ver |-> Stamp, digest |-> writer[w].req.digest])
  BY <1>2 DEF PutLatest
<1> QED
  BY <1>1, <1>2 DEF Store
-----------------------------------------------------------------------------
(* The first commit. *)

\* What was reported committed, or found by a read of the pointer, was published.
Published ==
  /\ committed # {} => latest # {}
  /\ \A w \in Writers : writer[w].pc = "resolve" => latest # {}

\* A put reports a digest committed only when there is a pointer.
LEMMA PublishedHolds ==
  ASSUME Deleters = {}
  PROVE  Spec => []Published
<1>1. Init => Published
  BY DEF Init, Published, Ended
<1>2. TypeInv /\ Published /\ [Next]_vars => Published'
  <2> SUFFICES ASSUME TypeInv, Published, NEW w \in Writers,
                      StartPut(w) \/ PutStep(w) \/ InterruptPut(w)
               PROVE  Published'
    BY OnlyPuts DEF Published
  <2> DEFINE r == writer[w]
  <2>w. r \in GoodWriter /\ r \in WriterState
    BY DEF TypeInv, TypeOK
  <2>s. latest # {} => latest' # {}
    BY PointerStays
  <2>1. committed' = committed \/ latest # {} \/ latest' # {}
    <3>1. CASE ResolveDecided(w)
      BY <3>1 DEF ResolveDecided, WriterAt, Published
    <3>2. CASE PutLatest(w)
      BY <3>2 DEF PutLatest, Store
    <3>3. CASE ~ResolveDecided(w) /\ ~PutLatest(w)
      BY <3>3 DEF StartPut, PutStep, InterruptPut, ReadPointer, ResolveNothing,
         ResolveProceed, ResolveWinner, PutBlob, VerifyBlob, PutEnvelope, RecordOrphan,
         PutOnly, history
    <3> QED
      BY <3>1, <3>2, <3>3
  <2>2. writer'[w].pc = "resolve" => latest # {}
    <3>a. \A s : Become(w, s) => writer'[w] = s
      BY Becomes
    <3>e. \A o : Ended(o).pc = "idle"
      BY DEF Ended
    <3>n. NoLatest(r).pc # "resolve"
      BY <2>w DEF NoLatest, WriterState
    <3>1. CASE StartPut(w)
      <4>1. PICK q \in PutRequests :
              Become(w, [Ended("none") EXCEPT !.pc = "pointer", !.req = q,
                           !.mutability = EffectiveMutability(profile, q)])
        BY <3>1 DEF StartPut
      <4> QED
        BY <4>1, <3>a DEF Ended
    <3>2. CASE ReadPointer(w)
      BY <3>2, <3>a, <3>n DEF ReadPointer
    <3>3. CASE ResolveNothing(w) \/ ResolveDecided(w) \/ ResolveProceed(w) \/ ResolveWinner(w)
      BY <3>3 DEF ResolveNothing, ResolveDecided, ResolveProceed, ResolveWinner, WriterAt, Published
    <3>4. CASE PutBlob(w) \/ VerifyBlob(w) \/ PutEnvelope(w) \/ PutLatest(w)
      <4>1. /\ \A v : [r EXCEPT !.pc = "verify", !.blobVer = v].pc = "verify"
            /\ \A v : [r EXCEPT !.pc = "envelope", !.created = v].pc = "envelope"
            /\ [r EXCEPT !.pc = "latest"].pc = "latest"
            /\ [r EXCEPT !.pc = "pointer", !.site = "winner"].pc = "pointer"
        BY <2>w DEF WriterState
      <4>2. PutBlob(w) => writer'[w].pc # "resolve"
        BY <4>1, <3>a, <3>e DEF PutBlob
      <4>3. VerifyBlob(w) => writer'[w].pc # "resolve"
        BY <4>1, <3>a, <3>e DEF VerifyBlob
      <4>4. PutEnvelope(w) => writer'[w].pc # "resolve"
        BY <4>1, <3>a, <3>e DEF PutEnvelope
      <4>5. PutLatest(w) => writer'[w].pc # "resolve"
        BY <4>1, <3>a, <3>e DEF PutLatest
      <4> QED
        BY <4>2, <4>3, <4>4, <4>5, <3>4
    <3>5. CASE RecordOrphan(w) \/ InterruptPut(w)
      BY <3>5, <3>a, <3>e DEF RecordOrphan, InterruptPut
    <3> QED
      BY <3>1, <3>2, <3>3, <3>4, <3>5 DEF PutStep
  <2>3. \A u \in Writers \ {w} : writer'[u] = writer[u]
    BY OwnState
  <2> QED
    BY <2>s, <2>1, <2>2, <2>3 DEF Published
<1> QED
  BY <1>1, <1>2, TypeCorrect, PTL DEF Spec

\* Puts only: the conditional write of the pointer (put_json with IfNoneMatch)
\* lets a create-only or immutable put commit only if nothing was reported
\* committed before, whatever fails and however often the SDK repeats a request.
THEOREM FirstCommits ==
  ASSUME Deleters = {}
  PROVE  Spec => FirstCommitWins
<1>1. TypeInv /\ Published /\ [Next]_vars =>
        [\A w \in Writers :
           /\ WriterAt(w, "latest")
           /\ writer[w].req.createOnly \/ writer[w].mutability = "immutable"
           /\ writer'[w].pc = "idle" /\ writer'[w].outcome = "committed"
           => committed \subseteq {writer[w].req.digest}]_vars
  <2> SUFFICES ASSUME TypeInv, Published, [Next]_vars, NEW w \in Writers,
                      WriterAt(w, "latest"),
                      writer[w].req.createOnly \/ writer[w].mutability = "immutable",
                      writer'[w].pc = "idle", writer'[w].outcome = "committed"
               PROVE  committed = {}
    OBVIOUS
  <2>1. StartPut(w) \/ PutStep(w) \/ InterruptPut(w)
    BY OnlyPuts, OwnState DEF WriterAt
  <2>2. PutLatest(w) \/ InterruptPut(w)
    BY <2>1 DEF PutStep, StartPut, ReadPointer, ResolveNothing, ResolveDecided,
       ResolveProceed, ResolveWinner, PutBlob, VerifyBlob, PutEnvelope, RecordOrphan, WriterAt
  <2>3. ~InterruptPut(w)
    BY Becomes DEF InterruptPut, Ended
  <2>4. writer'[w] # [writer[w] EXCEPT !.pc = "pointer", !.site = "winner"]
    BY DEF TypeInv, TypeOK, WriterState
  <2>5. LatestCreateOnly(writer[w])
    BY DEF LatestCreateOnly
  <2>6. latest = {}
    BY <2>2, <2>3, <2>4, <2>5, Becomes DEF PutLatest
  <2> QED
    BY <2>6 DEF Published
<1> QED
  BY <1>1, PublishedHolds, TypeCorrect, PTL DEF Spec, FirstCommitWins
-----------------------------------------------------------------------------
(* Nothing fails.  Two claims speak of puts that run to their end: neither a *)
(* request nor its answer is lost (MaxFaults = 0).                           *)

\* Then no put is interrupted and every answer arrives.
LEMMA Faultless ==
  ASSUME TypeInv, MaxFaults = 0
  PROVE  /\ \A w \in Writers : ~InterruptPut(w)
         /\ \A lost \in BOOLEAN : Answered(lost) => ~lost
BY DEF TypeInv, TypeOK, InterruptPut, Answered

\* A put that holds stored bytes no envelope names yet is at one of two requests;
\* every other step of a put but the storing of the payload neither makes it
\* hold bytes nor touches payloads and envelopes.
LEMMA OffPath ==
  ASSUME TypeInv, NEW w \in Writers, StartPut(w) \/ PutStep(w),
         ~PutBlob(w), ~VerifyBlob(w), ~PutEnvelope(w)
  PROVE  blob' = blob /\ ref' = ref /\ ~Holding(w) /\ ~Holding(w)'
<1> DEFINE r == writer[w]
<1>w. r \in GoodWriter /\ r \in WriterState
  BY DEF TypeInv, TypeOK
<1>a. \A s : Become(w, s) => writer'[w] = s
  BY Becomes
<1>e. \A o : Ended(o).pc = "idle"
  BY DEF Ended
<1>n. NoLatest(r).pc \in {"pointer", "blob", "orphan"}
  BY <1>w DEF NoLatest, WriterState
<1>1. CASE StartPut(w)
  <2>1. PICK q \in PutRequests :
          Become(w, [Ended("none") EXCEPT !.pc = "pointer", !.req = q,
                       !.mutability = EffectiveMutability(profile, q)])
    BY <1>1 DEF StartPut
  <2>2. writer'[w].pc = "pointer"
    BY <2>1, <1>a DEF Ended
  <2> QED
    BY <1>1, <2>2 DEF StartPut, WriterAt, Holding, bucket
<1>2. CASE ReadPointer(w)
  <2>1. \A v : [r EXCEPT !.pc = "resolve", !.ptr = v].pc = "resolve"
    BY <1>w DEF WriterState
  <2>2. ~Holding(w)'
    BY <1>2, <2>1, <1>a, <1>n DEF ReadPointer, Holding
  <2> QED
    BY <1>2, <2>2 DEF ReadPointer, PutOnly, WriterAt, Holding, bucket
<1>3. CASE ResolveNothing(w) \/ ResolveProceed(w)
  <2>1. ~Holding(w)'
    BY <1>3, <1>a, <1>n DEF ResolveNothing, ResolveProceed, Holding
  <2> QED
    BY <1>3, <2>1 DEF ResolveNothing, ResolveProceed, PutOnly, WriterAt, Holding, bucket
<1>4. CASE ResolveDecided(w)
  <2>1. ~Holding(w)'
    BY <1>4, <1>a, <1>e DEF ResolveDecided, Holding
  <2> QED
    BY <1>4, <2>1 DEF ResolveDecided, WriterAt, Holding, bucket
<1>5. CASE ResolveWinner(w)
  <2>1. [r EXCEPT !.pc = "orphan", !.ptr = NoDigest].pc = "orphan"
    BY <1>w DEF WriterState
  <2>2. ~Holding(w)'
    BY <1>5, <2>1, <1>a, <1>e DEF ResolveWinner, Holding
  <2> QED
    BY <1>5, <2>2 DEF ResolveWinner, PutOnly, WriterAt, Holding, bucket
<1>6. CASE PutLatest(w)
  <2>1. [r EXCEPT !.pc = "pointer", !.site = "winner"].pc = "pointer"
    BY <1>w DEF WriterState
  <2>2. ~Holding(w)'
    BY <1>6, <2>1, <1>a, <1>e DEF PutLatest, Holding
  <2> QED
    BY <1>6, <2>2 DEF PutLatest, WriterAt, Holding
<1>7. CASE RecordOrphan(w)
  <2>1. ~Holding(w)'
    BY <1>7, <1>a, <1>e DEF RecordOrphan, Holding
  <2> QED
    BY <1>7, <2>1 DEF RecordOrphan, WriterAt, Holding
<1> QED
  BY <1>1, <1>2, <1>3, <1>4, <1>5, <1>6, <1>7 DEF PutStep

-----------------------------------------------------------------------------
(* Bytes. *)

\* Payloads of single-part size: their key is written once (IfNoneMatch), so one
\* put at most holds a digest, no envelope of it exists yet, and the bytes are
\* there when the put reads them back.
Held ==
  \A w \in Writers : Holding(w) =>
    /\ writer[w].blobVer \in blob[writer[w].req.digest]
    /\ ref[writer[w].req.digest] = {}
    /\ \A u \in Writers : Holding(u) /\ writer[u].req.digest = writer[w].req.digest => u = w

\* Envelopes name bytes that are there; puts alone never remove any.
Named == \A d \in Digests : \A e \in ref[d] : e.blobVer \in blob[d]

Bytes == BytesAccounted /\ Held /\ Named

\* Each step of a put keeps the three parts of Bytes.
LEMMA PutBytes ==
  ASSUME MaxFaults = 0, MultipartDigests = {}, TypeInv, Bytes,
         NEW w \in Writers, StartPut(w) \/ PutStep(w)
  PROVE  Bytes'
<1> DEFINE r == writer[w]
           d == r.req.digest
<1>w. r \in GoodWriter /\ r \in WriterState
  BY DEF TypeInv, TypeOK
<1>a. \A s : Become(w, s) => writer'[w] = s
  BY Becomes
<1>e. \A o : Ended(o).pc = "idle"
  BY DEF Ended
<1>u. \A u \in Writers \ {w} : writer'[u] = writer[u]
  BY OwnState
<1>t. blob \in [Digests -> SUBSET Nat] /\ ref \in [Digests -> SUBSET Envelope]
  BY DEF TypeInv, TypeOK
<1>q. r.pc # "idle" => d \in Digests
  BY <1>w, RequestType DEF GoodWriter
<1>f. \A lost \in BOOLEAN : Answered(lost) => ~lost
  BY Faultless
<1>1. CASE blob' = blob /\ ref' = ref /\ ~Holding(w) /\ ~Holding(w)'
  <2>1. \A u \in Writers : Holding(u)' => Holding(u) /\ writer'[u] = writer[u]
    BY <1>1, <1>u DEF Holding
  <2>2. \A u \in Writers : Holding(u) => writer'[u] = writer[u]
    BY <1>1, <1>u DEF Holding
  <2>3. Held' /\ Named'
    BY <1>1, <2>1 DEF Bytes, Held, Named
  <2>4. BytesAccounted'
    BY <1>1, <2>2 DEF Bytes, BytesAccounted, Holding
  <2> QED
    BY <2>3, <2>4 DEF Bytes
<1>2. CASE PutBlob(w)
  <2>0. BlobCreateOnly(d)
    BY DEF BlobCreateOnly
  <2>1. ~Holding(w) /\ d \in Digests /\ ref' = ref
    BY <1>2, <1>q DEF PutBlob, WriterAt, Holding
  <2>2. CASE Become(w, Ended("failed")) /\ blob' = blob
    <3>1. ~Holding(w)'
      BY <2>2, <1>a, <1>e DEF Holding
    <3> QED
      BY <3>1, <2>1, <2>2, <1>1
  <2>3. CASE /\ blob[d] = {} /\ blob' = [blob EXCEPT ![d] = Store(@, Stamp)]
             /\ Become(w, [r EXCEPT !.pc = "verify", !.blobVer = Stamp])
    <3>1. /\ writer'[w].pc = "verify" /\ writer'[w].blobVer = Stamp
          /\ writer'[w].req = r.req
      BY <2>3, <1>a, <1>w DEF WriterState
    <3>2. blob'[d] = {Stamp} /\ \A c \in Digests \ {d} : blob'[c] = blob[c]
      BY <2>1, <2>3, <1>t DEF Store
    <3>3. ref[d] = {}
      BY <2>1, <2>3 DEF Bytes, Named
    <3>4. \A u \in Writers : Holding(u) => writer[u].req.digest # d
      BY <2>3 DEF Bytes, Held
    <3>5. \A u \in Writers : Holding(u) => writer[u].req.digest \in Digests /\ u # w
      BY <2>1, RequestType DEF Holding, TypeInv, GoodWriter
    <3>6. Held'
      <4>1. ASSUME NEW u \in Writers, Holding(u)'
            PROVE  /\ writer'[u].blobVer \in blob'[writer'[u].req.digest]
                   /\ ref'[writer'[u].req.digest] = {}
        <5>1. CASE u = w
          BY <5>1, <3>1, <3>2, <3>3, <2>1
        <5>2. CASE u # w
          <6>1. Holding(u) /\ writer'[u] = writer[u]
            BY <5>2, <4>1, <1>u DEF Holding
          <6> QED
            BY <6>1, <3>2, <3>4, <3>5, <2>1 DEF Bytes, Held
        <5> QED
          BY <5>1, <5>2
      <4>2. ASSUME NEW u \in Writers, NEW v \in Writers, Holding(u)', Holding(v)',
                   writer'[v].req.digest = writer'[u].req.digest
            PROVE  v = u
        <5>1. \A x \in Writers \ {w} : Holding(x)' => Holding(x) /\ writer'[x] = writer[x]
          BY <1>u DEF Holding
        <5> QED
          BY <5>1, <4>2, <3>1, <3>4 DEF Bytes, Held
      <4> QED
        BY <4>1, <4>2 DEF Held
    <3>7. Named'
      BY <2>1, <3>2, <3>3 DEF Bytes, Named
    <3>8. BytesAccounted'
      <4>1. ASSUME NEW c \in Digests, NEW v \in blob'[c]
            PROVE  \/ \E e \in ref'[c] : e.blobVer = v
                   \/ \E u \in Writers : /\ writer'[u].pc \in {"verify", "envelope"}
                                         /\ writer'[u].req.digest = c /\ writer'[u].blobVer = v
        <5>1. CASE c = d
          BY <5>1, <4>1, <3>1, <3>2
        <5>2. CASE c # d
          <6>1. v \in blob[c]
            BY <5>2, <4>1, <3>2
          <6>2. \A u \in Writers : Holding(u) => writer'[u] = writer[u]
            BY <3>5, <1>u
          <6> QED
            BY <6>1, <6>2, <2>1 DEF Bytes, BytesAccounted, Holding
        <5> QED
          BY <5>1, <5>2
      <4> QED
        BY <4>1 DEF BytesAccounted
    <3> QED
      BY <3>6, <3>7, <3>8 DEF Bytes
  <2> QED
    BY <1>2, <1>f, <2>0, <2>2, <2>3 DEF PutBlob
<1>3. CASE VerifyBlob(w)
  <2>1. Holding(w) /\ blob' = blob /\ ref' = ref
    BY <1>3 DEF VerifyBlob, WriterAt, Holding, bucket
  <2>2. Become(w, [r EXCEPT !.pc = "envelope", !.created = clock])
    BY <1>3, <2>1 DEF VerifyBlob, Bytes, Held
  <2>3. /\ writer'[w].pc = "envelope" /\ writer'[w].blobVer = r.blobVer
        /\ writer'[w].req = r.req
    BY <2>2, <1>a, <1>w DEF WriterState
  <2>4. \A u \in Writers : /\ Holding(u)' <=> Holding(u)
                           /\ writer'[u].req = writer[u].req
                           /\ writer'[u].blobVer = writer[u].blobVer
    BY <2>1, <2>3, <1>u DEF Holding
  <2>5. Held' /\ Named'
    BY <2>1, <2>4 DEF Bytes, Held, Named
  <2>6. BytesAccounted'
    BY <2>1, <2>4 DEF Bytes, BytesAccounted, Holding
  <2> QED
    BY <2>5, <2>6 DEF Bytes
<1>4. CASE PutEnvelope(w)
  <2>1. Holding(w) /\ d \in Digests /\ blob' = blob
    BY <1>4, <1>q DEF PutEnvelope, WriterAt, Holding
  <2>2. ref[d] = {} /\ r.blobVer \in blob[d]
    BY <2>1 DEF Bytes, Held
  <2>3. /\ ref' = [ref EXCEPT ![d] = Store(@, EnvelopeOf(r))]
        /\ Become(w, [r EXCEPT !.pc = "latest"])
    BY <1>4, <1>f, <2>2 DEF PutEnvelope
  <2>4. ~Holding(w)'
    BY <2>3, <1>a, <1>w DEF Holding, WriterState
  <2>5. /\ ref'[d] = {EnvelopeOf(r)} /\ EnvelopeOf(r).blobVer = r.blobVer
        /\ \A c \in Digests \ {d} : ref'[c] = ref[c]
    BY <2>1, <2>2, <2>3, <1>t DEF Store, EnvelopeOf
  <2>6. \A u \in Writers : Holding(u)' => /\ Holding(u) /\ writer'[u] = writer[u] /\ u # w
    BY <2>4, <1>u DEF Holding
  <2>7. \A u \in Writers \ {w} : Holding(u) =>
          /\ writer'[u] = writer[u]
          /\ writer[u].req.digest \in Digests /\ writer[u].req.digest # d
    BY <2>1, <1>u, RequestType DEF Holding, TypeInv, GoodWriter, Bytes, Held
  <2>8. Held'
    BY <2>1, <2>5, <2>6, <2>7 DEF Bytes, Held
  <2>9. Named'
    BY <2>1, <2>2, <2>5 DEF Bytes, Named
  <2>10. BytesAccounted'
    <3>1. ASSUME NEW c \in Digests, NEW v \in blob[c]
          PROVE  \/ \E e \in ref'[c] : e.blobVer = v
                 \/ \E u \in Writers : /\ writer'[u].pc \in {"verify", "envelope"}
                                       /\ writer'[u].req.digest = c /\ writer'[u].blobVer = v
      <4>1. CASE \E e \in ref[c] : e.blobVer = v
        BY <4>1, <2>2, <2>5
      <4>2. ASSUME NEW u \in Writers, Holding(u), writer[u].req.digest = c, writer[u].blobVer = v
            PROVE  \/ \E e \in ref'[c] : e.blobVer = v
                   \/ \E x \in Writers : /\ writer'[x].pc \in {"verify", "envelope"}
                                         /\ writer'[x].req.digest = c /\ writer'[x].blobVer = v
        <5>1. CASE u = w
          BY <5>1, <4>2, <2>5
        <5>2. CASE u # w
          BY <5>2, <4>2, <2>7 DEF Holding
        <5> QED
          BY <5>1, <5>2
      <4> QED
        BY <4>1, <4>2 DEF Bytes, BytesAccounted, Holding
    <3> QED
      BY <3>1, <2>1 DEF BytesAccounted
  <2> QED
    BY <2>8, <2>9, <2>10 DEF Bytes
<1> QED
  BY <1>1, <1>2, <1>3, <1>4, OffPath

\* While no delete runs and nothing fails, _put leaves no single-part payload in
\* the bucket that no envelope names and no running put will name.
THEOREM BytesHaveOwners ==
  ASSUME Deleters = {}, MaxFaults = 0, MultipartDigests = {}
  PROVE  Spec => []BytesAccounted
<1>1. Init => Bytes
  BY DEF Init, Bytes, BytesAccounted, Held, Named, Holding, Ended
<1>2. TypeInv /\ Bytes /\ [Next]_vars => Bytes'
  <2> SUFFICES ASSUME TypeInv, Bytes, [Next]_vars PROVE Bytes'
    OBVIOUS
  <2>1. CASE UNCHANGED <<blob, ref, latest, orphans, writer, committed>>
    BY <2>1 DEF Bytes, BytesAccounted, Held, Named, Holding
  <2>2. ASSUME NEW w \in Writers, StartPut(w) \/ PutStep(w) \/ InterruptPut(w) PROVE Bytes'
    BY <2>2, Faultless, PutBytes
  <2> QED
    BY <2>1, <2>2, OnlyPuts
<1>3. Bytes => BytesAccounted
  BY DEF Bytes
<1> QED
  BY <1>1, <1>2, <1>3, TypeCorrect, PTL DEF Spec
-----------------------------------------------------------------------------
(* Losers. *)

\* A put that stored its envelope and has not said yet what became of it: it is
\* to write the pointer, or it lost the race and looks for the winner.
Carrying(w) == \/ writer[w].pc \in {"latest", "orphan"}
               \/ writer[w].site = "winner" /\ writer[w].pc \in {"pointer", "resolve"}

\* Some version of the pointer names the digest, now or after the step.
Pointed(d) == \E p \in latest : p.digest = d
Repointed(d) == \E p \in latest' : p.digest = d

\* What a put found the pointer to name, some version of the pointer names.
Traced == \A w \in Writers : writer[w].pc = "resolve" => Pointed(writer[w].ptr)

\* LosersAccounted with the puts that can account for an envelope singled out.
Tracked ==
  \A d \in Digests : \A e \in ref[d] :
    \/ Pointed(d) \/ d \in orphans
    \/ \E w \in Writers : /\ Carrying(w) /\ writer[w].req.digest = d
                          /\ writer[w].blobVer = e.blobVer

\* A put that carries an envelope goes on doing so until a version of the pointer
\* names its digest or its digest is on record as an orphan.
LEMMA PutTraces ==
  ASSUME MaxFaults = 0, Versioned, TypeInv, Traced, NEW w \in Writers,
         StartPut(w) \/ PutStep(w)
  PROVE  /\ Carrying(w) =>
              \/ /\ Carrying(w)' /\ writer'[w].blobVer = writer[w].blobVer
                 /\ writer'[w].req.digest = writer[w].req.digest
              \/ Repointed(writer[w].req.digest) \/ writer[w].req.digest \in orphans'
         /\ writer'[w].pc = "resolve" => Repointed(writer'[w].ptr)
<1> DEFINE r == writer[w]
<1>w. r \in GoodWriter /\ r \in WriterState
  BY DEF TypeInv, TypeOK
<1>a. \A s : Become(w, s) => writer'[w] = s
  BY Becomes
<1>e. \A o : Ended(o).pc = "idle"
  BY DEF Ended
<1>l. \A d : Pointed(d) => Repointed(d)
  BY PointerStays DEF Pointed, Repointed
<1>n. /\ NoLatest(r).pc \in {"pointer", "blob", "orphan"}
      /\ r.site = "winner" => NoLatest(r).pc = "orphan"
      /\ NoLatest(r).blobVer = r.blobVer /\ NoLatest(r).req = r.req
  BY <1>w DEF NoLatest, WriterState
<1>1. CASE StartPut(w)
  <2>1. PICK q \in PutRequests :
          Become(w, [Ended("none") EXCEPT !.pc = "pointer", !.req = q,
                       !.mutability = EffectiveMutability(profile, q)])
    BY <1>1 DEF StartPut
  <2>2. writer'[w].pc = "pointer"
    BY <2>1, <1>a DEF Ended
  <2> QED
    BY <1>1, <2>2 DEF StartPut, WriterAt, Carrying
<1>2. CASE ReadPointer(w)
  <2>1. ASSUME Become(w, NoLatest(r)), Carrying(w)
        PROVE  writer'[w].pc = "orphan" /\ writer'[w].blobVer = r.blobVer /\ writer'[w].req = r.req
    BY <1>2, <2>1, <1>a, <1>n DEF ReadPointer, WriterAt, Carrying
  <2>2. ASSUME NEW p \in latest, Become(w, [r EXCEPT !.pc = "resolve", !.ptr = p.digest])
        PROVE  /\ writer'[w].pc = "resolve" /\ writer'[w].site = r.site
               /\ writer'[w].blobVer = r.blobVer /\ writer'[w].req = r.req
               /\ Pointed(writer'[w].ptr)
    BY <2>2, <1>a, <1>w DEF WriterState, Pointed
  <2>3. ASSUME NEW p \in latest, Become(w, [r EXCEPT !.pc = "resolve", !.ptr = p.digest]), Carrying(w)
        PROVE  Carrying(w)' /\ writer'[w].blobVer = r.blobVer /\ writer'[w].req = r.req
    BY <1>2, <2>2, <2>3 DEF ReadPointer, WriterAt, Carrying
  <2>4. Become(w, NoLatest(r)) => writer'[w].pc # "resolve"
    BY <1>a, <1>n
  <2>5. Become(w, NoLatest(r)) \/ \E p \in latest : Become(w, [r EXCEPT !.pc = "resolve", !.ptr = p.digest])
    BY <1>2 DEF ReadPointer
  <2>6. CASE Become(w, NoLatest(r))
    BY <2>1, <2>4, <2>6 DEF Carrying
  <2>7. CASE \E p \in latest : Become(w, [r EXCEPT !.pc = "resolve", !.ptr = p.digest])
    BY <2>2, <2>3, <2>7, <1>l
  <2> QED
    BY <2>5, <2>6, <2>7
<1>3. CASE ResolveNothing(w)
  <2>1. writer'[w] = NoLatest(r) /\ r.pc = "resolve"
    BY <1>3, <1>a DEF ResolveNothing, WriterAt
  <2>2. Carrying(w) => writer'[w].pc = "orphan"
    BY <2>1, <1>n DEF Carrying
  <2> QED
    BY <2>1, <2>2, <1>n DEF Carrying
<1>4. CASE ResolveProceed(w)
  <2>1. writer'[w] = NoLatest(r) /\ r.pc = "resolve" /\ r.site # "winner"
    BY <1>4, <1>a DEF ResolveProceed, WriterAt
  <2> QED
    BY <2>1, <1>n DEF Carrying
<1>5. CASE ResolveDecided(w)
  <2>1. r.pc = "resolve" /\ r.site # "winner" /\ writer'[w].pc = "idle"
    BY <1>5, <1>a, <1>e DEF ResolveDecided, WriterAt
  <2> QED
    BY <2>1 DEF Carrying
<1>6. CASE ResolveWinner(w)
  <2>1. CASE Become(w, [r EXCEPT !.pc = "orphan", !.ptr = NoDigest])
    <3>1. writer'[w].pc = "orphan" /\ writer'[w].blobVer = r.blobVer /\ writer'[w].req = r.req
      BY <2>1, <1>a, <1>w DEF WriterState
    <3> QED
      BY <3>1 DEF Carrying
  <2>2. CASE ~LeavesOrphan(r.ptr, r.req.digest) /\ Become(w, Ended("lost"))
    <3>1. Pointed(r.req.digest)
      BY <1>6, <2>2 DEF LeavesOrphan, Traced, ResolveWinner, WriterAt
    <3> QED
      BY <2>2, <3>1, <1>a, <1>e, <1>l
  <2> QED
    BY <1>6, <2>1, <2>2 DEF ResolveWinner
<1>7. CASE PutBlob(w) \/ VerifyBlob(w) \/ PutEnvelope(w)
  <2>1. r.pc \in {"blob", "verify", "envelope"}
    BY <1>7 DEF PutBlob, VerifyBlob, PutEnvelope, WriterAt
  <2>2. /\ \A v : [r EXCEPT !.pc = "verify", !.blobVer = v].pc = "verify"
        /\ \A v : [r EXCEPT !.pc = "envelope", !.created = v].pc = "envelope"
        /\ [r EXCEPT !.pc = "latest"].pc = "latest"
    BY <1>w DEF WriterState
  <2>3. PutBlob(w) => writer'[w].pc # "resolve"
    BY <2>2, <1>a, <1>e DEF PutBlob
  <2>4. VerifyBlob(w) => writer'[w].pc # "resolve"
    BY <2>2, <1>a, <1>e DEF VerifyBlob
  <2>5. PutEnvelope(w) => writer'[w].pc # "resolve"
    BY <2>2, <1>a, <1>e DEF PutEnvelope
  <2> QED
    BY <1>7, <2>1, <2>3, <2>4, <2>5 DEF Carrying
<1>8. CASE PutLatest(w)
  <2>1. CASE Become(w, [r EXCEPT !.pc = "pointer", !.site = "winner"])
    <3>1. /\ writer'[w].pc = "pointer" /\ writer'[w].site = "winner"
          /\ writer'[w].blobVer = r.blobVer /\ writer'[w].req = r.req
      BY <2>1, <1>a, <1>w DEF WriterState
    <3> QED
      BY <3>1 DEF Carrying
  <2>2. CASE /\ latest' = Store(latest, [ver |-> Stamp, digest |-> r.req.digest])
             /\ Become(w, Ended("committed"))
    <3>1. [ver |-> Stamp, digest |-> r.req.digest] \in latest'
      BY <2>2 DEF Store
    <3>2. Repointed(r.req.digest)
      BY <3>1 DEF Repointed
    <3> QED
      BY <2>2, <3>2, <1>a, <1>e
  <2> QED
    BY <1>8, <2>1, <2>2, Faultless DEF PutLatest
<1>9. CASE RecordOrphan(w)
  BY <1>9, <1>a, <1>e DEF RecordOrphan
<1> QED
  BY <1>1, <1>2, <1>3, <1>4, <1>5, <1>6, <1>7, <1>8, <1>9 DEF PutStep

\* While no delete runs and nothing fails, every envelope _put stores in a
\* versioned bucket is named by the pointer, on record as an orphan, or carried
\* by a running put, whatever puts race.
THEOREM LosersHaveRecords ==
  ASSUME Deleters = {}, MaxFaults = 0, Versioned
  PROVE  Spec => []LosersAccounted
<1>1. Init => Traced /\ Tracked
  BY DEF Init, Traced, Tracked, Ended
<1>2. TypeInv /\ Traced /\ Tracked /\ [Next]_vars => Traced' /\ Tracked'
  <2> SUFFICES ASSUME TypeInv, Traced, Tracked, [Next]_vars PROVE Traced' /\ Tracked'
    OBVIOUS
  <2>1. CASE UNCHANGED <<blob, ref, latest, orphans, writer, committed>>
    BY <2>1 DEF Traced, Tracked, Pointed, Carrying
  <2>2. ASSUME NEW w \in Writers, StartPut(w) \/ PutStep(w) PROVE Traced' /\ Tracked'
    <3> DEFINE r == writer[w]
    <3>l. \A d : Pointed(d) => Repointed(d)
      BY <2>2, PointerStays DEF Pointed, Repointed
    <3>o. orphans \subseteq orphans'
      BY <2>2 DEF StartPut, PutStep, ReadPointer, ResolveNothing, ResolveDecided,
         ResolveProceed, ResolveWinner, PutBlob, VerifyBlob, PutEnvelope, PutLatest,
         RecordOrphan, PutOnly, bucket
    <3>u. \A u \in Writers \ {w} : writer'[u] = writer[u]
      BY <2>2, OwnState
    <3>1. Traced'
      BY <2>2, <3>l, <3>u, PutTraces DEF Traced, Pointed, Repointed
    <3>2. ASSUME NEW d \in Digests, NEW e, e \in ref'[d]
          PROVE  e \in ref[d] \/ (/\ PutEnvelope(w) /\ Carrying(w)'
                                  /\ writer'[w].req.digest = d /\ writer'[w].blobVer = e.blobVer)
      <4>1. CASE PutEnvelope(w) /\ e \notin ref[d]
        <5>1. /\ ref' = [ref EXCEPT ![r.req.digest] = Store(@, EnvelopeOf(r))]
              /\ Become(w, [r EXCEPT !.pc = "latest"])
          BY <4>1, <3>2, Faultless DEF PutEnvelope
        <5>2. /\ writer'[w].pc = "latest" /\ writer'[w].blobVer = r.blobVer
              /\ writer'[w].req = r.req
          BY <5>1, Becomes DEF TypeInv, TypeOK, WriterState
        <5>3. d = r.req.digest /\ e = EnvelopeOf(r)
          BY <5>1, <4>1, <3>2 DEF Store, TypeInv, TypeOK
        <5> QED
          BY <4>1, <5>2, <5>3 DEF EnvelopeOf, Carrying
      <4>2. CASE ~PutEnvelope(w)
        <5>1. ref' = ref
          BY <2>2, <4>2 DEF StartPut, PutStep, ReadPointer, ResolveNothing, ResolveDecided,
             ResolveProceed, ResolveWinner, PutBlob, VerifyBlob, PutLatest, RecordOrphan,
             PutOnly, bucket
        <5> QED
          BY <3>2, <5>1
      <4> QED
        BY <4>1, <4>2
    <3>3. ASSUME NEW d \in Digests, NEW e, e \in ref'[d]
          PROVE  \/ Repointed(d) \/ d \in orphans'
                 \/ \E u \in Writers : /\ Carrying(u)' /\ writer'[u].req.digest = d
                                       /\ writer'[u].blobVer = e.blobVer
      <4>1. CASE PutEnvelope(w) /\ e \notin ref[d]
        BY <3>2, <3>3, <4>1
      <4>2. CASE e \in ref[d] /\ (Pointed(d) \/ d \in orphans)
        BY <4>2, <3>l, <3>o
      <4>3. ASSUME e \in ref[d], NEW u \in Writers, Carrying(u), writer[u].req.digest = d,
                   writer[u].blobVer = e.blobVer
            PROVE  \/ Repointed(d) \/ d \in orphans'
                   \/ \E x \in Writers : /\ Carrying(x)' /\ writer'[x].req.digest = d
                                         /\ writer'[x].blobVer = e.blobVer
        <5>1. CASE u = w
          BY <5>1, <4>3, <2>2, PutTraces
        <5>2. CASE u # w
          BY <5>2, <4>3, <3>u DEF Carrying
        <5> QED
          BY <5>1, <5>2
      <4> QED
        BY <3>2, <3>3, <4>1, <4>2, <4>3 DEF Tracked
    <3>4. Tracked'
      BY <3>3 DEF Tracked, Pointed, Repointed
    <3> QED
      BY <3>1, <3>4
  <2> QED
    BY <2>1, <2>2, OnlyPuts, Faultless
<1>3. Tracked => LosersAccounted
  BY DEF Tracked, LosersAccounted, Pointed
<1> QED
  BY <1>1, <1>2, <1>3, TypeCorrect, PTL DEF Spec
-----------------------------------------------------------------------------
(* What the pointer names. *)

\* An envelope of digest d is there, and the payload version it names.
Whole(d) == \E e \in ref[d] : e.blobVer \in blob[d]

PointerIsWhole == \A p \in latest : Whole(p.digest)

\* What a put with local state r has stored is still there.
Carries(r) ==
  /\ r.pc \in {"verify", "envelope"} => r.blobVer \in blob[r.req.digest]
  /\ r.pc = "latest" => Whole(r.req.digest)

\* The claim, and what puts on their way to the pointer have stored; a payload key
\* of an unversioned bucket is only ever written over by itself.
Stocked ==
  /\ PointerIsWhole
  /\ \A w \in Writers : Carries(writer[w])
  /\ ~Versioned => \A d \in Digests : blob[d] \subseteq {0}

\* A put takes nothing away: payloads and envelopes only come.
LEMMA PutsOnlyAdd ==
  ASSUME TypeInv, Stocked, NEW w \in Writers, StartPut(w) \/ PutStep(w) \/ InterruptPut(w)
  PROVE  /\ \A d \in Digests : blob[d] \subseteq blob'[d] /\ ref[d] \subseteq ref'[d]
         /\ \A d \in Digests : Whole(d) => Whole(d)'
         /\ ~Versioned => \A d \in Digests : blob'[d] \subseteq {0}
<1>1. CASE PutBlob(w)
  <2>1. ref' = ref
    BY <1>1 DEF PutBlob
  <2>2. blob' = blob \/ blob' = [blob EXCEPT ![writer[w].req.digest] = Store(@, Stamp)]
    BY <1>1 DEF PutBlob
  <2>3. /\ \A d \in Digests : blob[d] \subseteq blob'[d]
        /\ ~Versioned => \A d \in Digests : blob'[d] \subseteq {0}
    BY <2>2 DEF Stocked, Store, Stamp, TypeInv, TypeOK
  <2> QED
    BY <2>1, <2>3 DEF Whole
<1>2. CASE ~PutBlob(w)
  <2>1. blob' = blob /\ (ref' = ref \/ PutEnvelope(w))
    BY <1>2 DEF StartPut, PutStep, InterruptPut, ReadPointer, ResolveNothing, ResolveDecided,
       ResolveProceed, ResolveWinner, VerifyBlob, PutEnvelope, PutLatest, RecordOrphan, PutOnly, bucket
  <2>2. \A d \in Digests : ref[d] \subseteq ref'[d]
    BY <2>1, PutAdds
  <2> QED
    BY <2>1, <2>2 DEF Whole, Stocked
<1> QED
  BY <1>1, <1>2

\* A put has stored what its next request relies on.
LEMMA PutCarries ==
  ASSUME TypeInv, Stocked, NEW w \in Writers, StartPut(w) \/ PutStep(w) \/ InterruptPut(w)
  PROVE  Carries(writer[w])'
<1> DEFINE r == writer[w]
<1>w. r \in GoodWriter /\ r \in WriterState /\ Carries(r)
  BY DEF TypeInv, TypeOK, Stocked
<1>a. \A s : Become(w, s) => writer'[w] = s
  BY Becomes
<1>e. \A o : Ended(o).pc = "idle"
  BY DEF Ended
<1>i. writer'[w].pc \in {"idle", "pointer", "resolve", "blob", "orphan"} => Carries(writer[w])'
  BY DEF Carries
<1>n. NoLatest(r).pc \in {"pointer", "blob", "orphan"}
  BY <1>w DEF NoLatest, WriterState
<1>1. CASE StartPut(w)
  BY <1>1, <1>a, <1>i DEF StartPut, Ended
<1>2. CASE ReadPointer(w) \/ ResolveNothing(w) \/ ResolveProceed(w)
  <2>1. \A p : [r EXCEPT !.pc = "resolve", !.ptr = p].pc = "resolve"
    BY <1>w DEF WriterState
  <2> QED
    BY <1>2, <1>a, <1>i, <1>n, <2>1 DEF ReadPointer, ResolveNothing, ResolveProceed
<1>3. CASE ResolveDecided(w) \/ ResolveWinner(w) \/ RecordOrphan(w) \/ InterruptPut(w)
  <2>1. [r EXCEPT !.pc = "orphan", !.ptr = NoDigest].pc = "orphan"
    BY <1>w DEF WriterState
  <2> QED
    BY <1>3, <1>a, <1>e, <1>i, <2>1 DEF ResolveDecided, ResolveWinner, RecordOrphan, InterruptPut
<1>4. CASE PutBlob(w)
  <2>0. PICK d : d = r.req.digest
    OBVIOUS
  <2>1. r.pc = "blob" /\ d \in Digests
    BY <2>0, <1>4, <1>w, RequestType DEF PutBlob, WriterAt, GoodWriter
  <2>2. CASE /\ blob' = [blob EXCEPT ![d] = Store(@, Stamp)]
             /\ Become(w, [r EXCEPT !.pc = "verify", !.blobVer = Stamp])
    <3>1. Stamp \in blob'[d]
      BY <2>1, <2>2 DEF Store, TypeInv, TypeOK
    <3>2. PICK s : s = [r EXCEPT !.pc = "verify", !.blobVer = Stamp] /\ writer'[w] = s
      BY <2>2, <1>a
    <3>3. s.pc = "verify" /\ s.blobVer = Stamp /\ s.req = r.req
      BY <3>2, <1>w DEF WriterState
    <3> QED
      BY <2>0, <3>1, <3>2, <3>3 DEF Carries
  <2> QED
    BY <2>0, <2>2, <1>4, <1>a, <1>e, <1>i DEF PutBlob
<1>5. CASE VerifyBlob(w)
  <2>1. r.pc = "verify" /\ blob' = blob
    BY <1>5 DEF VerifyBlob, WriterAt, bucket
  <2>2. CASE Become(w, [r EXCEPT !.pc = "envelope", !.created = clock])
    <3>1. PICK s : s = [r EXCEPT !.pc = "envelope", !.created = clock] /\ writer'[w] = s
      BY <2>2, <1>a
    <3>2. s.pc = "envelope" /\ s.blobVer = r.blobVer /\ s.req = r.req
      BY <3>1, <1>w DEF WriterState
    <3> QED
      BY <1>w, <2>1, <3>1, <3>2 DEF Carries
  <2> QED
    BY <2>2, <1>5, <1>a, <1>e, <1>i DEF VerifyBlob
<1>6. CASE PutEnvelope(w)
  <2>0. PICK d : d = r.req.digest
    OBVIOUS
  <2>1. r.pc = "envelope" /\ d \in Digests /\ blob' = blob
    BY <2>0, <1>6, <1>w, RequestType DEF PutEnvelope, WriterAt, GoodWriter
  <2>2. CASE /\ ref' = [ref EXCEPT ![d] = Store(@, EnvelopeOf(r))]
             /\ Become(w, [r EXCEPT !.pc = "latest"])
    <3>a. EnvelopeOf(r).blobVer = r.blobVer
      BY DEF EnvelopeOf
    <3>1. PICK n : n = EnvelopeOf(r) /\ n.blobVer = r.blobVer
      BY <3>a
    <3>2. n \in ref'[d]
      BY <2>1, <2>2, <3>1 DEF Store, TypeInv, TypeOK
    <3>3. n.blobVer \in blob'[d]
      BY <2>0, <2>1, <3>1, <1>w DEF Carries
    <3>4. PICK s : s = [r EXCEPT !.pc = "latest"] /\ writer'[w] = s
      BY <2>2, <1>a
    <3>5. s.pc = "latest" /\ s.req = r.req
      BY <3>4, <1>w DEF WriterState
    <3>6. Whole(d)'
      BY <3>2, <3>3 DEF Whole
    <3> QED
      BY <2>0, <3>4, <3>5, <3>6 DEF Carries
  <2> QED
    BY <2>0, <2>2, <1>6, <1>a, <1>e, <1>i DEF PutEnvelope
<1>7. CASE PutLatest(w)
  <2>1. [r EXCEPT !.pc = "pointer", !.site = "winner"].pc = "pointer"
    BY <1>w DEF WriterState
  <2> QED
    BY <1>7, <1>a, <1>e, <1>i, <2>1 DEF PutLatest
<1> QED
  BY <1>1, <1>2, <1>3, <1>4, <1>5, <1>6, <1>7 DEF PutStep

\* _put publishes last: however puts race, crash and are repeated, in any bucket
\* and at any moment, the pointer names an object that is completely there, as
\* long as nothing is deleted.
THEOREM PutsPublishWhole ==
  ASSUME Deleters = {}
  PROVE  Spec => [](PointerIsWhole /\ LatestResolves)
<1>1. Init => Stocked
  BY DEF Init, Stocked, PointerIsWhole, Carries, Ended
<1>2. TypeInv /\ TypeInv' /\ Stocked /\ [Next]_vars => Stocked'
  <2> SUFFICES ASSUME TypeInv, TypeInv', Stocked, NEW w \in Writers,
                      StartPut(w) \/ PutStep(w) \/ InterruptPut(w)
               PROVE  Stocked'
    BY OnlyPuts DEF Stocked, PointerIsWhole, Carries, Whole
  <2>1. \A u \in Writers : Carries(writer[u])'
    <3> SUFFICES ASSUME NEW u \in Writers, u # w PROVE Carries(writer[u])'
      BY PutCarries
    <3>1. writer'[u] = writer[u] /\ Carries(writer[u])
      BY OwnState DEF Stocked
    <3>2. writer[u].pc \in {"verify", "envelope", "latest"} => writer[u].req.digest \in Digests
      BY RequestType DEF TypeInv, GoodWriter
    <3> QED
      BY <3>1, <3>2, PutsOnlyAdd DEF Carries, Whole
  <2>2. \A p \in latest' : Whole(p.digest)'
    <3> SUFFICES ASSUME NEW p \in latest' PROVE Whole(p.digest)'
      OBVIOUS
    <3>1. p.digest \in Digests
      BY DEF TypeInv, TypeOK, Pointer
    <3>2. CASE p \in latest
      BY <3>1, <3>2, PutsOnlyAdd DEF Stocked, PointerIsWhole
    <3>3. CASE p \notin latest
      <4>1. PutLatest(w)
        BY <3>3 DEF StartPut, PutStep, InterruptPut, ReadPointer, ResolveNothing, ResolveDecided,
           ResolveProceed, ResolveWinner, PutBlob, VerifyBlob, PutEnvelope, RecordOrphan, PutOnly, bucket
      <4>2. p.digest = writer[w].req.digest /\ writer[w].pc = "latest"
        BY <3>3, <4>1 DEF PutLatest, Store, WriterAt
      <4> QED
        BY <3>1, <4>2, PutsOnlyAdd DEF Stocked, Carries
    <3> QED
      BY <3>2, <3>3
  <2> QED
    BY <2>1, <2>2, PutsOnlyAdd DEF Stocked, PointerIsWhole
<1>3. Stocked => PointerIsWhole /\ LatestResolves
  BY DEF Stocked, PointerIsWhole, Whole, LatestResolves
<1> QED
  BY <1>1, <1>2, <1>3, TypeCorrect, PTL DEF Spec
=============================================================================
