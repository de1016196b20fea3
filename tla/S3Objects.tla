----------------------------- MODULE S3Objects -----------------------------
(***************************************************************************)
(* Put and delete of ONE logical object id of one resource, as the adapter *)
(* runs them against a bucket (adapter.py, S3ObjectAdapter._put, _delete   *)
(* and their helpers).  Every provider request is one step; whatever the   *)
(* adapter computes between two requests belongs to the step of the        *)
(* earlier one.  Callers of put are Writers, callers of delete Deleters.   *)
(*                                                                         *)
(* The bucket holds, for this object id, the payload keys (blob) and the   *)
(* envelope keys (ref), one of each per digest, the pointer key (latest),  *)
(* and the create-only deletion and orphan records.  A versioned bucket    *)
(* keeps every version of a key and shows the newest; an unversioned one   *)
(* keeps one, written 0.  Version ids and created_at are drawn from clock. *)
(***************************************************************************)
EXTENDS Naturals, FiniteSets

CONSTANTS
  Writers, Deleters,    \* concurrent callers of put and of delete
  Digests,              \* payload digests, ordered as their keys are listed
  PutRequests,          \* the put inputs the callers may choose from
  Profiles,             \* profiles the resource may have when a run starts
  Registrable,          \* profiles create_resource may register meanwhile
  MultipartDigests,     \* digests of payloads above the multipart threshold
  Versioned,            \* the bucket keeps versions
  ProviderLock,         \* config.retention_enforcement: Object Lock is used
  VerifyAfterWrite,     \* config.verify_after_write
  MaxOps,               \* bound: operations started
  MaxInFlight,          \* bound: operations running at a time
  MaxFaults             \* bound: interrupted operations and lost responses

NoDigest == 0
Retentions == {"none", "until", "policy"}
Mutabilities == {"immutable", "mutable"}

\* One put input.  retention also stands for the rest of the metadata that
\* _require_idempotent_metadata compares; immutability "profile" asks for
\* nothing beyond what the resource profile says.
Requests ==
  [digest: Digests, createOnly: BOOLEAN,
   immutability: {"profile", "immutable"}, retention: Retentions]

ASSUME DigestsAssumption == Digests \subseteq Nat \ {NoDigest}
ASSUME RequestsAssumption == PutRequests \subseteq Requests
ASSUME ProfilesAssumption ==
  /\ Profiles \subseteq Mutabilities \cup {"none"}
  /\ Registrable \subseteq Mutabilities
\* S3 offers Object Lock on versioned buckets only.
ASSUME BucketAssumption ==
  /\ Versioned \in BOOLEAN
  /\ ProviderLock \in BOOLEAN
  /\ VerifyAfterWrite \in BOOLEAN
  /\ ProviderLock => Versioned

VARIABLES
  blob,        \* digest -> versions of the payload key
  ref,         \* digest -> versions of the envelope key
  latest,      \* versions of the pointer key
  evidence,    \* digests with a deletion record
  orphans,     \* digests with an orphan record
  profile,     \* the registered resource profile, or "none"
  expired,     \* the retain_until deadline of the timed requests has passed
  clock,       \* next version id and timestamp
  writer,      \* local state of each put
  deleter,     \* local state of each delete
  ops, faults, \* how much of MaxOps and MaxFaults is used
  committed,   \* history: digests a put reported committed, no delete asked
  interrupted  \* history: payload versions whose delete stopped half way

bucket == <<blob, ref, latest, evidence, orphans>>
outside == <<profile, expired>>
history == <<committed, interrupted>>
vars == <<bucket, outside, clock, writer, deleter, ops, faults, history>>
-----------------------------------------------------------------------------
(* The bucket. *)

\* The id of a version written now.
Stamp == IF Versioned THEN clock ELSE 0

\* What a write makes of the versions of a key.
Store(versions, v) == IF Versioned THEN versions \cup {v} ELSE {v}

\* The version an unqualified GET or HEAD of an existing key is about.
IsCurrent(v, versions) ==
  v \in versions /\ \A u \in versions : u.ver <= v.ver

Envelope == [ver: Nat, blobVer: Nat, created: Nat,
             mutability: Mutabilities, retention: Retentions]
Pointer == [ver: Nat, digest: Digests]

\* Mutant: the envelope is stored without Object Lock arguments.
UnlockedEnvelope(e) == FALSE

\* RetentionRecord.require_delete_allowed refuses.
Retained(e) == \/ e.retention = "policy"
               \/ e.retention = "until" /\ ~expired
\* The provider refuses to delete this version: object_lock_arguments.
Locked(e) == ProviderLock /\ e.retention = "until" /\ ~expired
-----------------------------------------------------------------------------
(* Local states. *)

NoRequest == [digest |-> NoDigest, createOnly |-> FALSE,
              immutability |-> "profile", retention |-> "none"]

WriterPcs == {"idle", "pointer", "resolve", "blob", "verify", "envelope",
              "latest", "orphan"}
\* Which call of _try_latest a put is in: before the transfer, after it, or
\* looking for the winner of a lost race.
Sites == {"existing", "streamed", "winner"}

WriterState ==
  [pc: WriterPcs, site: Sites, req: PutRequests \cup {NoRequest},
   mutability: Mutabilities, ptr: Digests \cup {NoDigest},
   blobVer: Nat, created: Nat, outcome: {"none", "committed", "failed", "lost"}]

Ended(outcome) ==
  [pc |-> "idle", site |-> "existing", req |-> NoRequest,
   mutability |-> "immutable", ptr |-> NoDigest,
   blobVer |-> 0, created |-> 0, outcome |-> outcome]

DeleterPcs == {"idle", "target", "pointer", "resolve", "list", "scan", "head",
               "blob", "ref", "restore", "latest_head", "latest_delete", "evidence"}

DeleterState ==
  [pc: DeleterPcs, digest: Digests \cup {NoDigest}, blobVer: Nat,
   ptr: Digests \cup {NoDigest}, wasLatest: BOOLEAN, scan: SUBSET Digests,
   previous: Digests \cup {NoDigest}, previousCreated: Nat,
   headVer: Nat, outcome: {"none", "deleted", "failed", "conflict"}]

Deleted(outcome) ==
  [pc |-> "idle", digest |-> NoDigest, blobVer |-> 0, ptr |-> NoDigest,
   wasLatest |-> FALSE, scan |-> {}, previous |-> NoDigest,
   previousCreated |-> 0, headVer |-> 0, outcome |-> outcome]

InFlight == Cardinality({w \in Writers : writer[w].pc # "idle"})
            + Cardinality({x \in Deleters : deleter[x].pc # "idle"})
MayStart == ops < MaxOps /\ InFlight < MaxInFlight

Init ==
  /\ blob = [d \in Digests |-> {}]
  /\ ref = [d \in Digests |-> {}]
  /\ latest = {} /\ evidence = {} /\ orphans = {}
  /\ profile \in Profiles
  /\ expired = FALSE
  /\ clock = 1
  /\ writer = [w \in Writers |-> Ended("none")]
  /\ deleter = [x \in Deleters |-> Deleted("none")]
  /\ ops = 0 /\ faults = 0
  /\ committed = {} /\ interrupted = {}
-----------------------------------------------------------------------------
(* Put. *)

WriterAt(w, pc) == writer[w].pc = pc
Become(w, r) == writer' = [writer EXCEPT ![w] = r]
\* A step of a put that reads, or decides, and writes nothing.
PutOnly == UNCHANGED <<bucket, outside, clock, deleter, ops, faults, history>>

\* Mutant: no default profile for an unregistered resource.
NoDefaultProfile(p, req) == IF req.immutability = "profile" THEN p ELSE "immutable"

\* effective_immutability: a request may only add to the profile, and an
\* unregistered resource has the default profile, which is immutable.
EffectiveMutability(p, req) ==
  IF p = "mutable" /\ req.immutability = "profile" THEN "mutable" ELSE "immutable"

\* A lost provider response makes the SDK send the request again, and the
\* repeated conditional write then meets the object it wrote itself.
Answered(lost) == /\ lost => faults < MaxFaults
                  /\ faults' = faults + IF lost THEN 1 ELSE 0

\* _put begins: the profile is read once and decides for the whole put.
StartPut(w) ==
  /\ WriterAt(w, "idle") /\ MayStart
  /\ \E req \in PutRequests :
       Become(w, [Ended("none") EXCEPT
                    !.pc = "pointer", !.req = req,
                    !.mutability = EffectiveMutability(profile, req)])
  /\ ops' = ops + 1
  /\ UNCHANGED <<bucket, outside, clock, deleter, faults, history>>

\* The local state after _try_latest returned None.
NoLatest(r) ==
  [r EXCEPT !.pc = IF r.site = "existing" THEN "pointer"
                   ELSE IF r.site = "streamed" THEN "blob" ELSE "orphan",
            !.site = IF r.site = "existing" THEN "streamed" ELSE r.site,
            !.ptr = NoDigest]

\* First read of _read_envelope: the pointer key.
ReadPointer(w) ==
  /\ WriterAt(w, "pointer")
  /\ \/ latest = {} /\ Become(w, NoLatest(writer[w]))
     \/ \E p \in latest :
          /\ IsCurrent(p, latest)
          /\ Become(w, [writer[w] EXCEPT !.pc = "resolve", !.ptr = p.digest])
  /\ PutOnly

\* Second read of _read_envelope: the envelope the pointer named is gone.
ResolveNothing(w) ==
  /\ WriterAt(w, "resolve") /\ ref[writer[w].ptr] = {}
  /\ Become(w, NoLatest(writer[w]))
  /\ PutOnly

\* _require_idempotent_metadata accepts the envelope that is already there.
SameMetadata(e, r) == e.mutability = r.mutability /\ e.retention = r.req.retention

\* The latest envelope is there and the put can only report on it: create-only
\* was asked, the object is immutable, or the same digest is already published.
ResolveDecided(w) ==
  LET r == writer[w]
      repeat == ~r.req.createOnly /\ r.site = "streamed" /\ r.ptr = r.req.digest
      same(e) == repeat /\ SameMetadata(e, r)
  IN /\ WriterAt(w, "resolve")
     /\ \/ r.site \in {"existing", "streamed"} /\ r.req.createOnly
        \/ repeat
        \/ r.site = "streamed" /\ r.mutability = "immutable"
     /\ \E e \in ref[r.ptr] :
          /\ IsCurrent(e, ref[r.ptr])
          /\ Become(w, Ended(IF same(e) THEN "committed" ELSE "failed"))
          /\ committed' = IF same(e) THEN committed \cup {r.ptr} ELSE committed
     /\ UNCHANGED <<bucket, outside, clock, deleter, ops, faults, interrupted>>

\* The latest envelope is there and does not stand in the way of this put.
ResolveProceed(w) ==
  LET r == writer[w]
  IN /\ WriterAt(w, "resolve") /\ ref[r.ptr] # {} /\ ~r.req.createOnly
     /\ \/ r.site = "existing"
        \/ r.site = "streamed" /\ r.mutability = "mutable" /\ r.ptr # r.req.digest
     /\ Become(w, NoLatest(r))
     /\ PutOnly

\* Mutant: the comparison with the winner is inverted.
OrphanIfWinner(winner, d) == winner = d

\* Does a put that lost the pointer record its digest as an orphan?  Only when
\* the winner is not the very digest it published.
LeavesOrphan(winner, d) == winner # d

\* The winner of a lost race is known.
ResolveWinner(w) ==
  LET r == writer[w]
  IN /\ WriterAt(w, "resolve") /\ ref[r.ptr] # {} /\ r.site = "winner"
     /\ Become(w, IF LeavesOrphan(r.ptr, r.req.digest)
                  THEN [r EXCEPT !.pc = "orphan", !.ptr = NoDigest]
                  ELSE Ended("lost"))
     /\ PutOnly

\* Mutant: no IfNoneMatch.
NeverCreateOnly(d) == FALSE

\* put_file sends IfNoneMatch with a single-part upload only.
BlobCreateOnly(d) == d \notin MultipartDigests

\* put_file: the payload is stored, or its key is taken.
PutBlob(w) ==
  LET r == writer[w]
      d == r.req.digest
  IN /\ WriterAt(w, "blob")
     /\ \/ /\ blob[d] # {} /\ BlobCreateOnly(d)
           /\ Become(w, Ended("failed"))
           /\ UNCHANGED <<blob, clock, faults>>
        \/ /\ BlobCreateOnly(d) => blob[d] = {}
           /\ blob' = [blob EXCEPT ![d] = Store(@, Stamp)]
           /\ clock' = clock + 1
           /\ \E lost \in BOOLEAN :
                /\ lost => BlobCreateOnly(d)
                /\ Answered(lost)
                /\ Become(w, IF lost THEN Ended("failed")
                             ELSE [r EXCEPT !.pc = "verify", !.blobVer = Stamp])
     /\ UNCHANGED <<ref, latest, evidence, orphans, outside, deleter, ops, history>>

\* verify_digest reads the stored version back; the metadata is stamped after.
VerifyBlob(w) ==
  LET r == writer[w]
      readable == VerifyAfterWrite => r.blobVer \in blob[r.req.digest]
  IN /\ WriterAt(w, "verify")
     /\ Become(w, IF readable THEN [r EXCEPT !.pc = "envelope", !.created = clock]
                  ELSE Ended("failed"))
     /\ clock' = clock + 1
     /\ UNCHANGED <<bucket, outside, deleter, ops, faults, history>>

\* The envelope a put writes names the payload version put_file returned.
EnvelopeOf(r) ==
  [ver |-> Stamp, blobVer |-> r.blobVer, created |-> r.created,
   mutability |-> r.mutability, retention |-> r.req.retention]

\* put_json of the envelope, create-only.
PutEnvelope(w) ==
  LET r == writer[w]
      d == r.req.digest
  IN /\ WriterAt(w, "envelope")
     /\ \/ /\ ref[d] # {}
           /\ Become(w, Ended("failed"))
           /\ UNCHANGED <<ref, clock, faults>>
        \/ /\ ref[d] = {}
           /\ ref' = [ref EXCEPT ![d] = Store(@, EnvelopeOf(r))]
           /\ clock' = clock + 1
           /\ \E lost \in BOOLEAN :
                /\ Answered(lost)
                /\ Become(w, IF lost THEN Ended("failed") ELSE [r EXCEPT !.pc = "latest"])
     /\ UNCHANGED <<blob, latest, evidence, orphans, outside, deleter, ops, history>>

\* Mutant: create_only is forgotten when the pointer is written.
OnlyImmutable(r) == r.mutability = "immutable"

\* latest_create_only.
LatestCreateOnly(r) == r.req.createOnly \/ r.mutability = "immutable"

\* put_json of the pointer: publication, unless a conditional write finds one.
PutLatest(w) ==
  LET r == writer[w]
      taken == [r EXCEPT !.pc = "pointer", !.site = "winner"]
  IN /\ WriterAt(w, "latest")
     /\ \/ /\ latest # {} /\ LatestCreateOnly(r)
           /\ Become(w, taken)
           /\ UNCHANGED <<latest, clock, faults, committed>>
        \/ /\ LatestCreateOnly(r) => latest = {}
           /\ latest' = Store(latest, [ver |-> Stamp, digest |-> r.req.digest])
           /\ clock' = clock + 1
           /\ \E lost \in BOOLEAN :
                /\ lost => LatestCreateOnly(r)
                /\ Answered(lost)
                /\ Become(w, IF lost THEN taken ELSE Ended("committed"))
                /\ committed' = IF lost THEN committed ELSE committed \cup {r.req.digest}
     /\ UNCHANGED <<blob, ref, evidence, orphans, outside, deleter, ops, interrupted>>

\* _record_orphan: an existing record is left alone; the put reports the race.
RecordOrphan(w) ==
  /\ WriterAt(w, "orphan")
  /\ orphans' = orphans \cup {writer[w].req.digest}
  /\ Become(w, Ended("lost"))
  /\ UNCHANGED <<blob, ref, latest, evidence, outside, clock, deleter, ops, faults, history>>

\* A crash, a cancelled transfer, a size limit or a provider failure that
\* outlives the SDK's retries ends a put between any two of its requests.
InterruptPut(w) ==
  /\ ~WriterAt(w, "idle") /\ faults < MaxFaults
  /\ Become(w, Ended("failed"))
  /\ faults' = faults + 1
  /\ UNCHANGED <<bucket, outside, clock, deleter, ops, history>>
-----------------------------------------------------------------------------
(* Delete. *)

DeleterAt(x, pc) == deleter[x].pc = pc
Advance(x, r) == deleter' = [deleter EXCEPT ![x] = r]
Fail(x) == Advance(x, Deleted("failed"))
DeleteOnly == UNCHANGED <<bucket, outside, clock, writer, ops, faults, history>>

\* _delete begins with an exact reference: the digest is required.
StartDelete(x) ==
  /\ DeleterAt(x, "idle") /\ MayStart
  /\ \E d \in Digests :
       /\ Advance(x, [Deleted("none") EXCEPT !.pc = "target", !.digest = d])
       /\ committed' = committed \ {d}
  /\ ops' = ops + 1
  /\ UNCHANGED <<bucket, outside, clock, writer, faults, interrupted>>

DeleteAllowed(e) == ~Retained(e)

\* The envelope is read and its retention checked, once.
ReadTarget(x) ==
  LET r == deleter[x]
  IN /\ DeleterAt(x, "target")
     /\ \/ ref[r.digest] = {} /\ Fail(x)
        \/ \E e \in ref[r.digest] :
             /\ IsCurrent(e, ref[r.digest])
             /\ IF DeleteAllowed(e)
                THEN Advance(x, [r EXCEPT !.pc = "pointer", !.blobVer = e.blobVer])
                ELSE Fail(x)
     /\ DeleteOnly

\* _try_latest, first read.
ReadLatestPointer(x) ==
  LET r == deleter[x]
  IN /\ DeleterAt(x, "pointer")
     /\ \/ latest = {} /\ Advance(x, [r EXCEPT !.pc = "list"])
        \/ \E p \in latest :
             /\ IsCurrent(p, latest)
             /\ Advance(x, [r EXCEPT !.pc = "resolve", !.ptr = p.digest])
     /\ DeleteOnly

\* _try_latest, second read: is the digest to delete the published one?
ResolveLatest(x) ==
  LET r == deleter[x]
  IN /\ DeleterAt(x, "resolve")
     /\ Advance(x, [r EXCEPT !.pc = "list", !.ptr = NoDigest,
                             !.wasLatest = (ref[r.ptr] # {} /\ r.ptr = r.digest)])
     /\ DeleteOnly

\* _newest_version lists the envelope keys of the object; one page holds them.
ListVersions(x) ==
  /\ DeleterAt(x, "list")
  /\ Advance(x, [deleter[x] EXCEPT !.pc = "scan", !.scan = {d \in Digests : ref[d] # {}}])
  /\ DeleteOnly

\* Mutant: the digest being deleted is not excluded.
NewerOfAll(d, e, r) == r.previous = NoDigest \/ e.created > r.previousCreated
\* Mutant: the first listed version is taken for the newest.
FirstListed(d, e, r) == d # r.digest /\ r.previous = NoDigest

\* Does an envelope of digest d replace the candidate chosen so far?
Newer(d, e, r) == /\ d # r.digest
                  /\ r.previous = NoDigest \/ e.created > r.previousCreated

\* It then reads the listed envelopes in key order; one that has gone since
\* the listing makes the whole delete fail with not-found.
ScanVersion(x) ==
  LET r == deleter[x]
  IN /\ DeleterAt(x, "scan")
     /\ \/ /\ r.scan = {}
           /\ Advance(x, [r EXCEPT !.pc = "head"])
        \/ \E d \in r.scan :
             LET left == [r EXCEPT !.scan = @ \ {d}]
             IN /\ \A k \in r.scan : d <= k
                /\ \/ ref[d] = {} /\ Fail(x)
                   \/ \E e \in ref[d] :
                        /\ IsCurrent(e, ref[d])
                        /\ Advance(x, IF Newer(d, e, r)
                             THEN [left EXCEPT !.previous = d, !.previousCreated = e.created]
                             ELSE left)
     /\ DeleteOnly

\* head of the envelope key: the version the delete will remove.
HeadEnvelope(x) ==
  LET r == deleter[x]
  IN /\ DeleterAt(x, "head")
     /\ \/ ref[r.digest] = {} /\ Fail(x)
        \/ \E e \in ref[r.digest] :
             /\ IsCurrent(e, ref[r.digest])
             /\ Advance(x, [r EXCEPT !.pc = "blob", !.headVer = e.ver])
     /\ DeleteOnly

\* Mutant: the whole key is deleted instead of one version.
EveryVersion(r) == blob[r.digest]
\* Mutant: no version id is sent, which in a versioned bucket removes no bytes.
NoVersion(r) == {}

\* The payload versions a delete removes: the one the envelope it read names.
\* (That envelope passed the retention check, and its payload was stored under
\* the same retention, so the provider does not hold this version.)
BlobsRemoved(r) == {r.blobVer}

DeleteBlob(x) ==
  LET r == deleter[x]
  IN /\ DeleterAt(x, "blob")
     /\ blob' = [blob EXCEPT ![r.digest] = @ \ BlobsRemoved(r)]
     /\ Advance(x, [r EXCEPT !.pc = "ref"])
     /\ UNCHANGED <<ref, latest, evidence, orphans, outside, clock, writer, ops, faults, history>>

\* Mutant: the previous version is not restored.
NeverRestore(r) == IF r.wasLatest THEN "latest_head" ELSE "evidence"

\* Which request follows the removal of the envelope.
AfterRef(r) == IF ~r.wasLatest THEN "evidence"
               ELSE IF r.previous # NoDigest THEN "restore" ELSE "latest_head"

\* The envelope version head saw; the provider refuses it while it is locked.
DeleteRef(x) ==
  LET r == deleter[x]
      mine == {e \in ref[r.digest] : e.ver = r.headVer}
  IN /\ DeleterAt(x, "ref")
     /\ \/ /\ \E e \in mine : Locked(e)
           /\ Fail(x)
           /\ UNCHANGED ref
        \/ /\ \A e \in mine : ~Locked(e)
           /\ ref' = [ref EXCEPT ![r.digest] = @ \ mine]
           /\ Advance(x, [r EXCEPT !.pc = AfterRef(r)])
     /\ UNCHANGED <<blob, latest, evidence, orphans, outside, clock, writer, ops, faults, history>>

\* The pointer goes back to the newest remaining version, unconditionally.
RestorePrevious(x) ==
  LET r == deleter[x]
  IN /\ DeleterAt(x, "restore")
     /\ latest' = Store(latest, [ver |-> Stamp, digest |-> r.previous])
     /\ clock' = clock + 1
     /\ Advance(x, [r EXCEPT !.pc = "evidence"])
     /\ UNCHANGED <<blob, ref, evidence, orphans, outside, writer, ops, faults, history>>

\* No version remains: the pointer's current version is looked up ...
HeadLatest(x) ==
  LET r == deleter[x]
  IN /\ DeleterAt(x, "latest_head")
     /\ \/ latest = {} /\ Fail(x)
        \/ \E p \in latest :
             /\ IsCurrent(p, latest)
             /\ Advance(x, [r EXCEPT !.pc = "latest_delete", !.headVer = p.ver])
     /\ DeleteOnly

\* ... and removed, which in a versioned bucket uncovers the one below it.
DeleteLatest(x) ==
  LET r == deleter[x]
  IN /\ DeleterAt(x, "latest_delete")
     /\ latest' = {p \in latest : p.ver # r.headVer}
     /\ Advance(x, [r EXCEPT !.pc = "evidence"])
     /\ UNCHANGED <<blob, ref, evidence, orphans, outside, clock, writer, ops, faults, history>>

\* The deletion record is create-only: a digest has at most one, ever.
RecordEvidence(x) ==
  LET d == deleter[x].digest
  IN /\ DeleterAt(x, "evidence")
     /\ \/ /\ d \in evidence
           /\ Advance(x, Deleted("conflict"))
           /\ UNCHANGED <<evidence, faults>>
        \/ /\ d \notin evidence
           /\ evidence' = evidence \cup {d}
           /\ \E lost \in BOOLEAN :
                /\ Answered(lost)
                /\ Advance(x, Deleted(IF lost THEN "conflict" ELSE "deleted"))
     /\ UNCHANGED <<blob, ref, latest, orphans, outside, clock, writer, ops, history>>

\* As InterruptPut.  The payload version may be gone and its envelope not.
InterruptDelete(x) ==
  LET r == deleter[x]
  IN /\ ~DeleterAt(x, "idle") /\ faults < MaxFaults
     /\ Fail(x)
     /\ faults' = faults + 1
     /\ interrupted' = IF r.pc = "ref" THEN interrupted \cup {r.blobVer} ELSE interrupted
     /\ UNCHANGED <<bucket, outside, clock, writer, ops, committed>>
-----------------------------------------------------------------------------
(* The environment. *)

\* create_resource: the first registration of the resource is the last.
CreateResource ==
  /\ profile = "none"
  /\ profile' \in Registrable
  /\ UNCHANGED <<bucket, expired, clock, writer, deleter, ops, faults, history>>

\* Time reaches retain_until.
Expire ==
  /\ ~expired /\ \E req \in PutRequests : req.retention = "until"
  /\ expired' = TRUE
  /\ UNCHANGED <<bucket, profile, clock, writer, deleter, ops, faults, history>>

PutStep(w) ==
  \/ ReadPointer(w) \/ ResolveNothing(w) \/ ResolveDecided(w)
  \/ ResolveProceed(w) \/ ResolveWinner(w) \/ PutBlob(w) \/ VerifyBlob(w)
  \/ PutEnvelope(w) \/ PutLatest(w) \/ RecordOrphan(w)

DeleteStep(x) ==
  \/ ReadTarget(x) \/ ReadLatestPointer(x) \/ ResolveLatest(x)
  \/ ListVersions(x) \/ ScanVersion(x) \/ HeadEnvelope(x) \/ DeleteBlob(x)
  \/ DeleteRef(x) \/ RestorePrevious(x) \/ HeadLatest(x) \/ DeleteLatest(x)
  \/ RecordEvidence(x)

\* Every operation allowed has been started and has ended.
Finished == ops = MaxOps /\ InFlight = 0 /\ UNCHANGED vars

Next ==
  \/ \E w \in Writers : StartPut(w) \/ PutStep(w) \/ InterruptPut(w)
  \/ \E x \in Deleters : StartDelete(x) \/ DeleteStep(x) \/ InterruptDelete(x)
  \/ CreateResource \/ Expire \/ Finished

Spec == Init /\ [][Next]_vars
-----------------------------------------------------------------------------
(* Properties. *)

TypeOK ==
  /\ blob \in [Digests -> SUBSET Nat]
  /\ ref \in [Digests -> SUBSET Envelope]
  /\ latest \in SUBSET Pointer
  /\ evidence \in SUBSET Digests /\ orphans \in SUBSET Digests
  /\ profile \in Mutabilities \cup {"none"}
  /\ expired \in BOOLEAN
  /\ clock \in Nat /\ ops \in Nat /\ faults \in Nat
  /\ writer \in [Writers -> WriterState]
  /\ deleter \in [Deleters -> DeleterState]
  /\ committed \in SUBSET Digests /\ interrupted \in SUBSET Nat

\* In a versioned bucket an envelope never names payload bytes that are not
\* there, whatever puts and deletes of the same digest run together, except
\* while a delete of exactly those bytes is between its two removals or was
\* interrupted there (_delete: payload first, envelope second).
EnvelopeComplete ==
  Versioned =>
    \A d \in Digests : \A e \in ref[d] :
      \/ e.blobVer \in blob[d] \cup interrupted
      \/ \E x \in Deleters : /\ DeleterAt(x, "ref") /\ deleter[x].digest = d
                             /\ deleter[x].blobVer = e.blobVer

\* In a versioned bucket a delete that goes on to the pointer or to its
\* deletion record has really removed what it read at the start, payload and
\* envelope, although it removed the envelope version of a later head request
\* and other deletes and puts of the digest ran in between.
DeletedIsGone ==
  Versioned =>
    \A x \in Deleters :
      deleter[x].pc \in {"restore", "latest_head", "latest_delete", "evidence"} =>
        /\ deleter[x].blobVer \notin blob[deleter[x].digest]
        /\ \A e \in ref[deleter[x].digest] : e.blobVer # deleter[x].blobVer

\* While no delete runs and nothing fails, stored payload bytes are those of an
\* envelope or of a put still on its way to one: no put leaves bytes behind
\* that no reference names, which would make its digest conflict for ever.
BytesAccounted ==
  \A d \in Digests : \A v \in blob[d] :
    \/ \E e \in ref[d] : e.blobVer = v
    \/ \E w \in Writers : /\ writer[w].pc \in {"verify", "envelope"}
                          /\ writer[w].req.digest = d /\ writer[w].blobVer = v

\* While no delete runs and nothing fails, a published envelope was named by
\* the pointer, is about to be, or is on record as an orphan: every loser of the
\* race for the pointer is accounted for.
LosersAccounted ==
  \A d \in Digests : \A e \in ref[d] :
    \/ \E p \in latest : p.digest = d
    \/ d \in orphans
    \/ \E w \in Writers : writer[w].req.digest = d /\ writer[w].blobVer = e.blobVer

\* While no delete runs, a put that promised to be the first (create-only, or
\* immutable) commits only if no other digest was reported committed before.
FirstCommitWins ==
  [][\A w \in Writers :
       /\ WriterAt(w, "latest")
       /\ writer[w].req.createOnly \/ writer[w].mutability = "immutable"
       /\ writer'[w].pc = "idle" /\ writer'[w].outcome = "committed"
       => committed \subseteq {writer[w].req.digest}]_vars

\* An envelope whose retention forbids deletion is not removed, however the
\* deletes that checked an earlier envelope of the digest are delayed.
RetentionHolds ==
  [][\A d \in Digests : \A e \in ref[d] : Retained(e) => e \in ref'[d]]_vars

Quiet == InFlight = 0

\* Operations one after another, unversioned bucket: between operations the
\* pointer names an object that is completely there.
LatestResolves ==
  Quiet => \A p \in latest : ref[p.digest] # {} /\ blob[p.digest] # {}

\* ... and that object is the newest one there is: deleting the current version
\* restores the previous one, deleting an older one changes nothing.
LatestIsNewest ==
  Quiet =>
    \A d \in Digests : \A e \in ref[d] :
      \E p \in latest : \E f \in ref[p.digest] : e.created <= f.created

\* Operations one after another: when a put or a delete takes effect.  A version
\* is there from the request that publishes it to the one that removes its
\* envelope; from then on the version a delete will restore is the latest.
Publishing(d) == \E w \in Writers : WriterAt(w, "latest") /\ writer[w].req.digest = d
Unpublishing == \E x \in Deleters : deleter[x].pc \in {"restore", "latest_head", "latest_delete"}
Present == {d \in Digests : ref[d] # {} /\ ~Publishing(d)}
Earlier == {p \in Present \X Present :
              \E e \in ref[p[1]], f \in ref[p[2]] : e.created < f.created}
IsMeant(d) ==
  \/ \E x \in Deleters : DeleterAt(x, "restore") /\ deleter[x].previous = d
  \/ ~Unpublishing /\ \E p \in latest : IsCurrent(p, latest) /\ p.digest = d
Meant == IF \E d \in Digests : IsMeant(d) THEN CHOOSE d \in Digests : IsMeant(d) ELSE NoDigest

History == INSTANCE ObjectHistory WITH versions <- Present, before <- Earlier, latest <- Meant

\* The object is then a history of versions: a put that is refused or repeated
\* leaves it as it was, however far it got, a put that publishes adds the newest
\* version in one step, and a delete takes out the one it was asked to, after
\* which the latest is the last of the others.
KeepsHistory == History!Spec

\* "logical Object publication lost a conditional race" (adapter.py:538): a put
\* that reports this met the publication of another, concurrent put.
LostRaceHasRival ==
  [][\A w \in Writers :
       writer'[w].outcome = "lost" /\ writer[w].outcome # "lost" =>
         \E u \in Writers \ {w} : writer[u].outcome = "committed" \/ ~WriterAt(u, "idle")]_vars

\* A delete that removed everything it had to remove reports deletion
\* (`assert deleted == {"deleted": True}`, test_s3_operations.py:250).
DeleteReports ==
  \A x \in Deleters : deleter[x].outcome # "conflict"
=============================================================================
