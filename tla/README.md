# A TLA+ model of the Meridian S3 Object Adapter

This directory specifies, model-checks and proves parts of
`src/src/meridian_storage/adapters/s3/`, the adapter that stores Meridian Objects in an
S3-compatible bucket. Paths below are relative to that package unless they start with `src/`.

## The system

The adapter keeps no state of its own between calls: everything is in the bucket, and every
caller (thread, session, process, machine) works on it with plain S3 requests. The hard part of
the program is that an operation is a *sequence* of requests and that nothing but the conditional
writes of S3 (`IfNoneMatch: *`) and the version ids orders the requests of different callers.

| Component | State | Operations | Interacts with | What makes it correct |
|---|---|---|---|---|
| Object put (`adapter.py` `_put`) | payload key and envelope key per digest, one pointer key per object id, orphan records | read profile, look for the latest object twice, store payload, verify it, store envelope, move pointer, record an orphan | other puts and deletes of the same id, registry (profile) | exclusive puts have one winner; nothing stored is lost track of; an envelope names bytes that exist |
| Object delete (`_delete`, `_newest_version`) | the same keys, deletion records | read envelope, check retention, find latest and newest other version, remove payload, remove envelope, restore or remove pointer, record | puts, other deletes, clock | retained objects stay; what was read is what is removed; the pointer ends at the newest object |
| Retention (`retention.py`) | part of the envelope, Object Lock on payload and envelope | build from request, lock arguments, deletion check | put, delete, provider | no retained envelope is removed |
| Registry (`_publish_schema`, `_create_resource`) and migration (`migration.py`) | one create-only record per key | conditional write; on a conflict read and compare | racing callers, SDK retries | a write-once record; truthful answers; every call ends |
| Multipart upload (`multipart.py`, `transport.py` `put_file`) | sessions at the provider | create, parts, length check, complete, abort, read back | other uploads of the key | only whole objects appear; no session is left; acknowledged bytes stay intact |
| Transport (`transport.py`), errors (`errors.py`) | SDK client | one method per request; normalisation of failures | everything above | not-found and conflict are recognised: they steer control flow |
| List (`_list`) | none but the cursor in the caller's hands | pages of keys, one envelope read per key | puts and deletes between its reads | a cursor that skips and repeats nothing; a scan that ends |
| Stat, get (`_stat`, `_get`) | none | read pointer, envelope and head; the payload later, when the caller opens it | puts and deletes between their reads | what was there and is not deleted is found, and the latest is no older than it was |
| Range read, spool (`_IntegritySpool`, `_VerifiedRangeSource`) | none | chunk digests, covering ranges | stored chunk digests | every byte handed out was verified |
| Runtime, session, factory, probe (`factory.py`, `probe.py`) | open flag, client, adapter, probe result, CA file | open with its probe of the bucket, close, open a session, execute, close a session | sessions in other threads, which read the same fields unlocked; the file system; the provider | what an open runtime advertises was verified for its own client; a success is vouched for; nothing is left behind that a local failure did not leave |
| Configuration, descriptor (`config.py`, `descriptor.py`) | none | acceptance of a binding, advertised sizes | runtime | an accepted binding is secured as it says; which ones can store what they advertise |
| Layout | none | key names | all | pure |

`PROJECT.json` lists them with their status, and under `hazards` everything in the code that is
hard to test, at its line.

## Modules

| Module | Models |
|---|---|
| `S3Objects` | put and delete of one object id, every provider request one action, any number of callers |
| `MCS3Objects` | the sets of put inputs and the symmetry for TLC |
| `ObjectHistory` | abstract: the versions of one object, put at the end and taken out anywhere |
| `S3ObjectsProofs` | theorems about `S3Objects`: types, complete envelopes, deletes, retention |
| `S3RaceProofs` | theorems about puts that race with no delete |
| `S3Readers` | stat and get between the requests of the puts and deletes of `S3Objects`, which it extends |
| `MCS3Readers` | `S3Readers` with the put inputs of `MCS3Objects` |
| `S3ReadersProofs` | the pointer and the history while puts and deletes take turns, and what reads find |
| `WriteOnce` | abstract: a record that is set once, and truthful answers about it |
| `S3Registry` | publish_schema, create_resource and migration apply on one key; implements `WriteOnce` |
| `S3RegistryProofs` | the refinement, proved |
| `S3Multipart` | put_file above the multipart threshold: sessions, parts, verification |
| `MCS3Multipart` | every bucket and checksum configuration, symmetry |
| `S3MultipartProofs` | theorems about `S3Multipart` |
| `S3List` | list: one scan over several calls while others put and delete |
| `S3ListProofs` | theorems about `S3List` |
| `S3Range` | the integrity spool and the verified range read |
| `S3RangeProofs` | theorems about `S3Range` |
| `S3Errors` | the decision table of errors.py |
| `S3Config` | which bindings are accepted, and what their sizes mean for a transfer |
| `S3Runtime` | a runtime, its probe and its sessions; uses `S3Config` and `S3Errors` |
| `MCS3Runtime` | bindings and provider answers for TLC |
| `S3RuntimeProofs` | theorems about `S3Runtime` |

### S3Objects

*State.* `blob`, `ref` map a digest to the versions of its payload and envelope key; `latest`
holds the versions of the pointer; `evidence` and `orphans` are the digests with such a record.
A versioned bucket keeps all versions and shows the newest, an unversioned one keeps one. `clock`
gives version ids and `created_at`. `writer[w]` and `deleter[x]` are the local variables of one
call, `pc` the request it sends next.

*Steps.* A provider request and the computation up to the next request are one action, so calls
interleave exactly at their requests. A put runs `StartPut` (profile read, adapter.py:413),
`ReadPointer`/`Resolve*` (`_try_latest`, up to three times: before the transfer, after it, and to
find the winner of a lost race), `PutBlob`, `VerifyBlob`, `PutEnvelope`, `PutLatest`,
`RecordOrphan`. A delete runs `ReadTarget`, `ReadLatestPointer`, `ResolveLatest`, `ListVersions`,
`ScanVersion` (one envelope at a time), `HeadEnvelope`, `DeleteBlob`, `DeleteRef`, then
`RestorePrevious` or `HeadLatest` and `DeleteLatest`, and `RecordEvidence`.

*Failures.* `InterruptPut` and `InterruptDelete` end a call between any two requests. A lost
response to a conditional write makes the SDK send it again, which conflicts with the object just
written (the `lost` choices). `CreateResource` may register the profile during a put; `Expire` lets
the deadline of the timed requests pass.

*Data.* A digest is a small number, ordered as its key is listed. A request is its digest,
create-only flag, immutability and retention (none, a deadline, a policy without deadline);
`retention` stands for all the metadata compared by `_require_idempotent_metadata`. Object Lock is
used for a deadline only: a policy is never enforced by the provider (retention.py:42).

*The history.* While puts and deletes of an unversioned bucket take turns, a caller may think of the
object as `ObjectHistory`: versions in order of publication, the latest being the last. `KeepsHistory`
is that refinement. A digest counts as a version (`Present`) from `PutLatest` to `DeleteRef`, the
order (`Earlier`) is that of `created`, and `Meant` is what a reference without a digest comes to:
what the pointer names, or, once a delete has removed the envelope and until it has moved the
pointer, the version it is about to restore. So `PutLatest` is `Publish`, `DeleteRef` is `Withdraw`,
and every other request is a stutter: a put that is refused, however far it got, is not a version,
and a put that succeeds is one in a single step.

### S3Readers

The state of `S3Objects` and one local state per read. `StartRead` chooses the method and whether
the reference names a digest; `ReadLatest` and `ReadEnvelope` are the two reads of
`_read_envelope`, `HeadPayload` the head of the payload version the envelope names, where a stat
ends. A get ends when the caller opens its payload (`OpenPayload`), which may be much later.
`floor`, `expected` and `calm` are history: what was there when the read began and whether a delete
has run since. A read changes nothing the adapter keeps.

### S3Registry and WriteOnce

One record, callers at `probe` (apply heads the bucket first), `send`, `open` (their conditional
write is under way at the provider), `read` (after a conflict). A rival is refused while a write is
open (409, errors.py:41) or stored (412). `Commit` may lose its response, after which the SDK's
repetition conflicts with the write itself. `Break` is a request that fails for good or a dead
caller; an open write is dropped or has taken effect. `WriteOnce` promises: the first document
stays, one caller at most is told `created`, `present` and `different` are true. The refinement
mapping is `caller[c]` without its program counter.

### S3Multipart

`S3Objects` takes `put_file` for one step. Here it is a session: `CreateSession`, one `UploadPart`
per turn of the loop (reads may return less than a part, the source may be one unit short or long,
bytes may be damaged on the way), the length check, `Complete`, `Abort`, `Verify`. A lost response
to the creation leaves a session nobody knows; a lost response to the completion leaves an object
and a failed upload. `excuse`, `acked` and `stray` are history.

### S3List

A key is its place in listing order. `call` is the caller's cursor and the local variables of the
call it is in; `StartCall`, `FetchPage` (one listing request) and `ReadEnvelope` (one read of a key
of the page) are its steps, and `Proceed` is the code between two requests: the limit, the end of a
page, the flag `more` and the cursor. `more` is set at adapter.py:649 and not reset when the next
page comes, so line 643 ends every call after its second page. A page may be shorter than
`max_keys`, as the provider allows. A key deleted between the listing and its read makes the call
fail; the caller then goes on from the cursor it passed. `delivered` (what returned calls handed
out) and `stayed` (keys stored without interruption since the scan began) are history. That a limit
is positive is a condition of the Object Common library, taken as an assumption.

### S3Range

Byte `i` of a payload is the number `i`, a damaged byte is 0, and a digest is the bytes it was
computed from. `spool` takes the payload in pieces (`Write`), one turn of its loop is `Absorb`,
`Finish` closes it. `reader` is one range read: `ReadRange` (limits, chunk size of the envelope
against that of the configuration), `GetBody` (the provider sends what was asked, or less, more,
other or damaged bytes), `ReadBody` and `VerifyChunk` (a read of the body and the turns of the inner
loop), `Yield` (completeness, and the range cut out of the chunks). Both loops are cut at their
turns, so that the chunk arithmetic is the code's own; `DigestsCover` compares it with a closed form.

### S3Runtime, S3Config and S3Errors

*State.* `transport`, `probe`, `open` and `caPath` are the fields of `S3AdapterRuntime`
(`_transport` stands for `_adapter` too, which is set and cleared with it). A client and the CA file
made for it have the number of the opening; `files` are the files on disk and `live` the clients
that were not closed. `owner` is where the thread that opens and closes stands, with what its probe
has seen; `session[s]` is one session in a thread of its own.

*Steps.* `Open` is everything up to the guarded block of `open`: the CA file is created, written and
noted, the client is made, and each of these can fail (`"create"`, `"write"`, `"client"`).
`HeadBucket`, `VersioningStatus` and `ObjectLock` are the requests of `S3HealthProbe.run`, each
followed by the next one the configuration calls for or by the verdict; `FailOpen` is the handler
(close the client, forget it, remove the CA file, raise), which an error of `transport.close` leaves
early. `CloseTransport` and `Forget` are the two halves of `close`, with its `finally`. A session
runs `OpenSession`, `Execute` (the adapter is taken from the runtime), `Apply` (the operation),
`Answer` (the runtime is read again for the manifest) and `CloseSession`. The owner of the bucket may
switch versioning.

*Errors.* `Normalized` goes through the tests of `normalize_s3_error` in their order; a failure is
what the SDK raised, with the code and the status of the response. The probe reports by it, and
`MeansNoLock` is the short list that `object_lock_enabled` reads as an answer.

*Configuration.* A binding is the settings that the checks relate to each other; "unrecognised"
stands for a setting that is refused by itself. `Accepted` is what `S3AdapterFactory.create` lets
through. `Storable` says what a transfer of a length comes to under the accepted sizes (in MiB).

## Runs

| Run | Instance | Properties | What it shows |
|---|---|---|---|
| `race` | 3 puts at once, 2 digests, every mix of create-only, immutable, plain; resource unregistered, mutable, or registered meanwhile; versioned; no deletes, no faults | `TypeOK` `BytesAccounted` `LosersAccounted` `FirstCommitWins` | no interleaving of puts leaves bytes without an owner or an unrecorded loser, and an exclusive put that commits is first |
| `versioned` | 2 puts, 2 deletes, 4 operations, 2 at a time, one below and one above the multipart threshold, deadlines under Object Lock, 1 fault | `EnvelopeComplete` `DeletedIsGone` `RetentionHolds` | version ids keep racing puts and deletes of one digest apart; the provider's lock closes the retention race |
| `sequential` | unversioned, puts and deletes one at a time, 3 digests, 6 operations, 1 read at any of their requests | `LatestResolves` `LatestIsNewest` `ExactIsFound` `ReadIsFresh` `KeepsHistory` | the pointer logic of delete is right when nothing overlaps, puts and deletes implement `ObjectHistory`, and reads beside them find what is there |
| `lost_race` | versioned, one operation at a time | `LostRaceHasRival`, violated | see Findings |
| `delete_again` | versioned, one operation at a time | `DeleteReports`, violated | see Findings |
| `retention_race` | 1 put, 2 deletes, no lock | `RetentionHolds`, violated | see Findings |
| `registry` | 3 callers, 2 documents, 4 calls, 2 faults | `Implements` `Answered` | the registry is a write-once record, and answers |
| `multipart` | 2 uploads of a key, 3 in all, part size 2, at most 3 parts, lengths 3, 4 and 7, all 8 configurations, 2 faults | `OnlyWhole` `SessionsClosed` `StoredStaysIntact` `FailsForCause` | see the properties |
| `list` | 5 keys, 3 of them matching, every start contents, limits 1 and 2, pages of 2, 2 changes by others, 1 failed call | `NothingSkipped` `InOrder` `CursorAdvances` `ScanEnds` | a scan delivers what stays, once, in order, gets further with every call that does not fail, and ends |
| `runtime` | 9 accepted and 11 refused bindings, 3 openings, 3 executions of 1 session, 2 local failures, 1 switch of versioning, denied, missing and unreachable buckets | `TypeOK` `AdvertisedIsVerified` `SuccessIsVouched` `NothingLeftBehind` `OpenIsSecured` `MismatchIsReal` | startups, closes and executions in any order advertise, report and leave behind only what they may |
| `advertised` | one opening with the default sizes, and one with a threshold above 5 GiB | `AdvertisedIsStorable`, violated | see Findings |
| `range` | payloads of 0, 1, 4, 5, 6 bytes, chunks of 2 and 3, pieces of up to 4, every range, ranges of more than 5 bytes refused | `DigestsCover` `RangeIsExact` `RightIsAccepted` | reader and spool cut alike, and only verified bytes of the range are handed out |

*Bounds.* `MaxOps` operations are started, `MaxInFlight` run at once, `MaxFaults` things go wrong.
Two digests are the least for which a pointer can name the wrong one, three for which the newest
of the others matters (`sequential`). Two callers of a kind produce each race described in the
hazards; `race` has three, the least for a loser of a loser. Six sequential operations put three
digests, delete and put again; reads change nothing and so do not affect each other, and one of
them meets every state a read can meet. In `runtime` what one opening leaves (a file, a client, a
note of either) is met by the next two, one of which may fail as well; a session changes its own state
only, so one meets everything that several would. Lengths 3, 4 and 7 over parts of 2 are a short last part, an exact
one and one part too many. In `range` the lengths end on a chunk boundary of either size and one
byte before or after it, and pieces are smaller and larger than chunks. In `list` pages of two, at
most two of them in a call, put the end of a page, of a call and of the keys at every place. Symmetry swaps callers of one kind and is used in safety runs only.

*Fairness.* `registry` and `list` check a liveness property each. `FairSpec` assumes weak fairness of the
steps of each caller: a call is a sequence of blocking requests with timeouts in one thread, so
each of them ends. Nothing is assumed about starting a call or about faults. In `list`,
`FairSpec` also assumes that the caller goes on with the cursor it was given; only a bounded number
of deletes can make its calls fail (a caller that always meets a fresh delete never gets on).

*Deadlock* is checked in every run; `Finished` is the only way to stop, when every operation
allowed has ended (a runtime at rest can always be closed once more).

*Environment.* Single requests are atomic and strongly consistent, as S3 documents them; the
provider compares conditional writes with the current version.

## Findings

1. `lost_race`: in a versioned bucket, put A, put B, delete B, delete A, all in sequence, removes
   one version of the pointer and uncovers an older one that names an object that is gone
   (adapter.py:692-694). Reads then say not-found, but the next create-only or immutable put
   stores payload and envelope and is told it "lost a conditional race" (adapter.py:538), with
   nobody in the race; its digest is recorded as an orphan.
2. `delete_again`: deletion records are create-only per digest (adapter.py:695-704). Deleting a
   digest that was deleted and put again removes everything and then reports a conflict.
3. `retention_race`: retention is checked on one envelope and a version found later is removed
   (adapter.py:663-684). With two deletes and a put of the same digest in between, an envelope
   under retention is removed if the provider does not enforce it. With one delete at a time the
   check is enough (`LoneDeleteRetains`, proved).
4. `advertised`: the sizes of a configuration are bounded one by one (config.py:158-173) but not
   against each other. With the defaults a runtime advertises objects of 5 TiB (descriptor.py:82), and
   the upload refuses whatever needs more than 10000 parts of 8 MiB, about 78 GiB
   (multipart.py:41-43), after the payload was spooled in full. A threshold above 5 GiB is accepted too
   (config.py:164), and objects below it are sent in one request that the provider does not take.
   `AdvertisedIfFits` (proved) says which accepted bindings store all they advertise: those whose
   largest object fits into 10000 parts and whose threshold is no larger than one request.

Further behaviour the models contain and no run calls an error: a put interrupted between payload
and envelope blocks that digest for that object id for good (the payload key is create-only and
nothing removes it); a mutable object cannot return to earlier content while the earlier digest is
still stored; deletes and puts that overlap can leave the pointer at an older or a deleted object;
a list call never scans more than two pages
of the ten that `_MAX_INTERNAL_LIST_PAGES` allows, and answers with a cursor after the second even if
nothing is left (adapter.py:643 and 649; the scan is longer, not wrong); an unversioned bucket gives no protection against a delayed delete; a damaged multipart upload in
an unversioned bucket without checksum headers replaces acknowledged bytes (its reader notices); after
a delete that was interrupted between payload and envelope, a repeated put of the digest compares
metadata with the envelope that is left and reports success without storing the bytes again
(`ResolveDecided`).

Of the runtime: the client is made outside the guarded block of `open`, so its failure leaves the CA
file on disk and noted, and the next opening overwrites the note (factory.py:154-172); an error of
`transport.close` in the handler of `open` hides the error of the probe and keeps client and file,
and the adapter can then be executed although the runtime is not open; so it can while the probe
still runs; an execution that took effect reports that the runtime is not open if it is closed
before the answer is put together, and one that spans a close and an open reports the manifest of
the later opening (factory.py:64-69).
Retention that asks for enforcement and has a policy without a deadline is accepted, and recorded as
not enforced by the provider (retention.py:33-42).

## Proofs

All proofs are for every value of the constants, under the named assumptions of the modules
(`ListAssumption`, `DigestsAssumption`, `RequestsAssumption`, `ProfilesAssumption`, `BucketAssumption`,
`RegistryAssumption`, `SizesAssumption`, `RangeAssumption`, `BindingsAssumption`, `FailuresAssumption`), and of the
conditions the theorem states.

*S3ObjectsProofs.* `TypesHold` is type correctness; its strengthening `TypeInv` adds which fields
are set at which program counter. `EnvelopesAreComplete` and `DeletesRemove` follow from `Ownership`,
the inductive invariant `IInv` for versioned buckets: a digest has at most one envelope
(`OneEnvelope`, from the conditional write); ids in use are older than the clock (`Used`); the
payload version a put holds is stored and belongs to no envelope, delete or other put (`Owned`);
while the envelope a delete read is there, it is not retained and is the version the delete will
remove (`Targeted`); what was removed stays removed (`Removed`). The claims alone are not inductive:
a delete removes a payload version read long before, and only `Owned` says that no put or envelope
has acquired it since.

Retention, in the same module. `RetentionHolds` is not true of the code in general (finding 3); it is
proved under either of two conditions. `EnforcedRetentionHolds`: the provider enforces retention and
callers ask for deadlines only (`NoPolicy` is then invariant), so the removal itself is refused.
`LoneDeleteRetains`: there is one deleter, in a bucket of either kind and whatever fails (no run
repeats this case). From the
check to the removal the digest the delete aims at has an envelope, and none that is retained
(`InPlace`): only the delete itself could remove it, and while it is there its key is taken
(`OneEnvelopeHolds`: the envelope is written create-only, so a digest has at most one), so no put
can bring another. `Ownership` is not needed for this, and so neither are version ids.
`WhoChangesRef`, `PutAdds` and `DeleteRemoves` say once what may happen to envelopes.

*S3RaceProofs.* Puts without deletes. `FirstCommits` needs only that whatever was committed, or is
being resolved, was published, and that puts never empty the pointer (`Published`); it holds with
crashes and repeated requests. `BytesHaveOwners` and `LosersHaveRecords` speak of puts that run to
their end (`MaxFaults = 0`). For the first, payloads are of single-part size: the key is written
once, so one put holds a digest, no envelope of it exists yet and its bytes are there when it reads
them back (`Held`), and envelopes name bytes that are there (`Named`). (Above the multipart threshold
two puts may both store the digest and one then fails at the envelope.) For the second, the bucket is
versioned, so that a pointer version once written stays: what a put found the pointer to name is
named (`Traced`), and an envelope that is neither named nor on record is carried by a put between
envelope and record (`Tracked`), which singles out the puts that can still account for it. `PutsPublishWhole` holds with
crashes and repeated requests and in a bucket of either kind: the pointer never, not only between
operations, names an object whose envelope or payload is missing. The claim needs to know what each
put has stored on its way to the pointer (`Carries`) and that puts take nothing away (`PutsOnlyAdd`;
in an unversioned bucket a payload is only ever written over by itself).

*S3ListProofs.* The claims speak of the cursor and of what was delivered; the invariant `IInv` must
also say what holds inside a call: items lie between cursor and position (`Placed`), what is left of
the page lies ahead of the position (`OnPage`), and every matching key that stayed is delivered, an
item, or ahead (`Ahead`). `AtWork` is the same between two requests, and `ProceedKeeps` shows that
the code between requests leads from one to the other. `ScansAreComplete` and `ListingIsOrdered`
follow. `CursorsAdvance` is about steps: each lemma on an answer also says that the cursor it carries
lies behind the one the call was given (`MovesFrom`), which rests on `last` being ahead of the cursor
as soon as a key has been scanned. With finitely many keys this bounds the number of calls that a
scan takes; that it really ends is `ScanEnds`, and stays with TLC.

*S3ReadersProofs.* The first half assumes `OneAtATime`: an unversioned bucket, one put or delete at a
time, no faults, finitely many callers. All three conditions are needed: overlapping deletes and puts, and
pointer versions (finding 1), do break the claims, and a put that stops between envelope and pointer
leaves a version that is newer than the latest. Between operations the claims say all there is to
say; within one they are broken and mended, so the invariant `Sequential` says, for the one operation
that runs, what fits the bucket to its local state. `PutFits`: a put that will write the pointer
create-only has found none, and its envelope is strictly younger than all others. `DeleteFits`:
whether the pointer names the digest being deleted is what the delete remembers; the version chosen
so far is the newest of those scanned (`Chosen`), so after the scan it is the newest of the others;
and no restored version is missing while the delete runs. `Keys` adds that a key of an unversioned
bucket has one version and that no two envelopes are of one age. `PutAlone` and `DeleteAlone` prove
the invariant step by step for each kind of operation; `PointerNamesAnObject` and
`PointerNamesTheNewest` follow. `PutsAndDeletesKeepHistory` maps every step to one of
`ObjectHistory`: `PutIsPublish`, `DeleteIsWithdraw` and `DeleteDoesNotShow` use `PutView` and
`DeleteView`, the parts of the invariant that tell what is meant before and after the step.

The second half is about reads. A read changes nothing (`ReadsChangeNothing`), so every invariant of
`S3Objects` holds beside any number of reads. `ExactReadsFind` assumes nothing: any bucket, any
overlapping puts, crashes and repeated requests. What the read has to find stays complete as long as
no delete has run since it began (`Slots`, `ExactFits`): an envelope is never written over, and its
payload version is never taken away by a put. `LatestReadsAreFresh` assumes `OneAtATime` again, and
adds that what the pointer names is no older than it was when the read began (`NotOlder`, `FreshFits`).

*S3RegistryProofs.* `RegistryIsWriteOnce`: at most one conditional write is open, and only while
nothing is stored (`OneWriter`); with this each step is a step of `WriteOnce` or a stutter.

*S3MultipartProofs.* `ObjectsAreWhole`: an upload reaches the completion only with its source read
in full (`ReadInFull`). `SessionsAreClosed`: a known open session belongs to an upload that will
complete or abort it (`Cared`). `OneUpload` states once what a step must respect. `StoredIsKept`:
with checksum headers no upload that goes on is damaged, and an unversioned key has the one version
that the next completion replaces (`Undamaged`). `FailuresHaveCauses`: an upload without an excuse
is where its part number says, having sent whole parts only (`OnTrack`); `PartsCover` and `FullPart`
are the arithmetic of the rounded-up division it rests on, for every length and part size.

*S3RangeProofs.* Everything the spool and the reader hold is a part of a longer sequence (`Part`):
of the payload, or of what was fetched. `Spooling`: the digests, the chunk being filled and what is
left of the piece are the payload so far, in this order, and every chunk digested is whole; with the
rounded-up division of `ChunkCount` and the last, shorter chunk this gives `DigestsAreTheChunks`.
`Reading`: what was fetched is verified chunks, then the chunk being filled, then the rest of the
last read, and the verified chunks end where the next chunk of the payload begins (`Bound`); what the
provider sent enters only through the comparison with the digest. `RangesAreExact` needs that a
complete read has passed its last chunk, `RightAnswersPass` that a right answer cannot end before it
(`AllVerified`) and that every chunk of a right answer has its digest (`DigestOf`). The sequences are
those of any length, so no bound of the run is left but that a digest stands for its bytes.

*S3RuntimeProofs.* The claims are about moments at which the runtime is open or at rest; the
invariant says what holds between requests as well. `Phases`: while a probe runs the runtime is not
open and what was seen was obtained by the client in `transport`; a client that is held is the
newest; a runtime that is not open has no manifest. `Observed`: Object Lock that the probe has seen
is there (a bucket never loses it). `Used`: no session has used a client yet to come. `Kept`: the CA
file of a client that is held is the one noted, and on disk. `Strays`: files and clients that are not
noted are at most as many as the local failures, and a client being forgotten is closed. With the
acceptance of the binding and the types (`Core`) they give `OpenIsVerified`, `SuccessVouched`,
`MismatchReal`, `OpenSecured` and `LittleLeftBehind`. `AdvertisedIfFits` says when
`AdvertisedIsStorable`, which finding 4 refutes in general, does hold: of all the lengths up to the
largest object, that one and the longest that is sent in one request decide (`StorableIfFits`), and
for these the part count (`PartsSuffice`) and the provider's limit come down to `Fits`. The theorem is
an equivalence, so no accepted binding is missed on either side.

Only model-checked: liveness (`Answered`, `ScanEnds`), which is out of the prover's reach, as are
facts about recursive definitions for all inputs; and the four violated properties of the findings,
for which TLC gives a behaviour; for two of them, `RetentionHolds` and `AdvertisedIsStorable`, theorems
say when they hold. Every other property of a run is a theorem.

## Not modelled

Buckets with suspended versioning; retries of unconditional writes (they repeat the same write);
the refusal of retention that is required and not available (before any request); more than one
listing page of versions of one object; skewed clocks; resource keys and prefixes (objects do not
share keys); encryption settings; `verify_physical` and the transaction methods of the session, which
change no state; two threads opening or closing one runtime; making the SDK client and decoding its
answers; the validation of a setting by itself; signed references and payload transfer, which belong to the
Object Common library and appear only by their effect.

## Plan

Done: puts, deletes and reads of one object id; the registry and its refinement; multipart uploads;
lists; range reads; errors, configuration and runtime; the history of versions; and theorems for every
safety and action property of the runs.

Left: more than one owner of a runtime (nothing in the code expects it), and what versioned buckets
promise about the pointer when deletes take turns, which finding 1 limits.
