----------------------------- MODULE S3Runtime -----------------------------
(***************************************************************************)
(* One S3AdapterRuntime (factory.py) with its startup probe (probe.py):    *)
(* opened and closed by its owner while sessions, each in a thread of its  *)
(* own, execute operations.  Nothing locks the fields they share.  An      *)
(* operation is one step here (S3Objects and the others have its inside).  *)
(* A client and the CA file written for it have the same number.           *)
(***************************************************************************)
EXTENDS S3Config, S3Errors, FiniteSets

CONSTANTS
  Bindings,      \* bindings the factory may be given
  Failures,      \* what the provider may answer to a request of the probe
  Sessions,
  MaxOpens,      \* bound: openings
  MaxCalls,      \* bound: executions
  MaxMishaps,    \* bound: local failures (file system, SDK)
  MaxChanges     \* bound: versioning switched by the owner of the bucket

NotConfigured == {"InvalidBucketState", "ObjectLockConfigurationNotFoundError",
                  "NotImplemented"}
\* A bucket without Object Lock is answered with these codes, another is not.
ASSUME BindingsAssumption == Bindings \subseteq Binding
ASSUME FailuresAssumption ==
  Failures \subseteq {f \in Failure : f.code \notin NotConfigured}

None == 0
Versionings == {"Enabled", "Suspended", "Disabled"}
\* A bucket that never had versioning answers without a status.
Bucket == [versioning: {"Enabled", "Suspended", "absent"}, lock: BOOLEAN]
\* A probe's result and the client that obtained it.
Manifest == [client: Nat, versioning: Versionings \cup {"NotProbed"}, lock: BOOLEAN]
NoManifest == [client |-> None, versioning |-> "NotProbed", lock |-> FALSE]

VARIABLES
  binding,     \* what the runtime was created from
  bucket,
  owner,       \* pc of open or close, and what the probe has seen so far
  transport,   \* the client of _transport and _adapter, or None
  probe,       \* _probe
  open,        \* _open
  caPath,      \* _ca_path, or None
  files, live, \* CA files on disk; clients that were not closed
  last,        \* the last client number
  report,      \* the answer of the last open
  session,     \* local state of each session
  calls, mishaps, changes

fields == <<transport, probe, open, caPath>>
outside == <<files, live>>
bounds == <<calls, mishaps, changes>>
vars == <<binding, bucket, owner, fields, outside, last, report, session, bounds>>

OwnerState == [pc: {"idle", "head", "versioning", "lock", "closing"}, seen: Manifest]
SessionState ==
  [pc: {"none", "ready", "applying", "answering"}, closed: BOOLEAN, client: Nat,
   outcome: {"none", "ok", "refused", "failed", "unanswered"}, manifest: Manifest]

\* What open reports: nothing yet, success, a local failure or an Object error.
Reports == {"none", "open", "mishap", "ObjectCapabilityMismatch"} \cup Errors

Idle == [pc |-> "idle", seen |-> NoManifest]
At(pc) == owner.pc = pc

Init ==
  /\ binding \in {b \in Bindings : Accepted(b)}
  /\ bucket \in {k \in Bucket : k.lock => k.versioning = "Enabled"}
  /\ owner = Idle
  /\ transport = None /\ probe = NoManifest /\ open = FALSE /\ caPath = None
  /\ files = {} /\ live = {} /\ last = 0 /\ report = "none"
  /\ session = [s \in Sessions |->
       [pc |-> "none", closed |-> FALSE, client |-> None,
        outcome |-> "none", manifest |-> NoManifest]]
  /\ calls = 0 /\ mishaps = 0 /\ changes = 0
-----------------------------------------------------------------------------
(* open. *)

\* A local failure happens or does not.
Mishap(happens) ==
  /\ happens => mishaps < MaxMishaps
  /\ mishaps' = mishaps + IF happens THEN 1 ELSE 0
  /\ UNCHANGED <<calls, changes>>

WritesCa == binding.tls = "server"

\* The CA file is created, written and noted and the client is made before the
\* guarded block begins, and each of these may fail; the adapter can be
\* reached as soon as the client is there.
Open ==
  LET new == last + 1
  IN /\ At("idle") /\ ~open /\ last < MaxOpens
     /\ last' = new
     /\ \E fails \in {"nothing", "create", "write", "client"} :
          /\ fails \in {"create", "write"} => WritesCa
          /\ Mishap(fails # "nothing")
          /\ files' = IF WritesCa /\ fails # "create" THEN files \cup {new} ELSE files
          /\ caPath' = IF WritesCa /\ fails \notin {"create", "write"} THEN new ELSE caPath
          /\ IF fails = "nothing"
             THEN /\ transport' = new /\ live' = live \cup {new}
                  /\ owner' = [pc |-> "head", seen |-> [NoManifest EXCEPT !.client = new]]
                  /\ report' = "none"
             ELSE /\ report' = "mishap"
                  /\ UNCHANGED <<transport, live, owner>>
     /\ UNCHANGED <<binding, bucket, probe, open, session>>

\* Mutant: the CA file is left to close.
KeepCa(fails) == ~fails /\ UNCHANGED <<files, caPath>>

\* _cleanup_ca: the path is forgotten even if the file cannot be removed.
CleanupCa(fails) ==
  /\ fails => caPath # None
  /\ files' = IF fails THEN files ELSE files \ {caPath}
  /\ caPath' = None

\* The handler around the probe.  An error of transport.close ends it early.
FailOpen(error) ==
  /\ owner' = Idle
  /\ \/ /\ Mishap(TRUE) /\ report' = "mishap"
        /\ UNCHANGED <<fields, outside>>
     \/ /\ live' = live \ {transport} /\ transport' = None
        /\ \E fails \in BOOLEAN :
             /\ CleanupCa(fails) /\ Mishap(fails)
             /\ report' = IF fails THEN "mishap" ELSE error
        /\ UNCHANGED <<probe, open>>

\* Mutant: the configuration's word is taken for Object Lock.
OnlyVersioning(seen) ==
  IF Has(binding, "requireVersioning") /\ seen.versioning # "Enabled"
  THEN "ObjectUnavailable" ELSE "open"

\* S3HealthProbe.run, once its requests are answered.
Verdict(seen) ==
  IF Has(binding, "requireVersioning") /\ seen.versioning # "Enabled"
  THEN "ObjectUnavailable"
  ELSE IF Enforcing(binding) /\ ~seen.lock THEN "ObjectCapabilityMismatch" ELSE "open"

Conclude(seen) ==
  IF Verdict(seen) = "open"
  THEN /\ probe' = seen /\ open' = TRUE /\ owner' = Idle /\ report' = "open"
       /\ UNCHANGED <<transport, caPath, outside, bounds>>
  ELSE FailOpen(Verdict(seen))

\* The next request, if the configuration calls for one.
Continue(seen, pc, needed) ==
  IF needed THEN /\ owner' = [pc |-> pc, seen |-> seen]
                 /\ UNCHANGED <<fields, outside, report, bounds>>
            ELSE Conclude(seen)

\* An answer to a request of the probe that is not about its subject.
Fails == \E f \in Failures : FailOpen(Normalized(f, FALSE))
ProbeOnly == UNCHANGED <<binding, bucket, last, session>>

HeadBucket ==
  /\ At("head")
  /\ \/ Fails
     \/ Continue(owner.seen, "versioning",
                 Has(binding, "requireVersioning") \/ Enforcing(binding))
  /\ ProbeOnly

\* Mutant: the status is passed on as it came.
AsAnswered == bucket.versioning

\* versioning_status.
StatusRead == IF bucket.versioning = "absent" THEN "Disabled" ELSE bucket.versioning

VersioningStatus ==
  /\ At("versioning")
  /\ \/ Fails
     \/ Continue([owner.seen EXCEPT !.versioning = StatusRead],
                 "lock", Enforcing(binding))
  /\ ProbeOnly

\* Mutant: a refusal of access is taken for a bucket without Object Lock.
AlsoDenied(f) == f.code \in NotConfigured \cup Denied

\* object_lock_enabled: which failures mean that there is no Object Lock.
MeansNoLock(f) == f.code \in NotConfigured

ObjectLock ==
  LET refusals == {[kind |-> "response", code |-> c, status |-> "404"] : c \in NotConfigured}
  IN /\ At("lock")
     /\ \/ Conclude([owner.seen EXCEPT !.lock = bucket.lock])
        \/ \E f \in Failures \cup IF bucket.lock THEN {} ELSE refusals :
             IF MeansNoLock(f) THEN Conclude(owner.seen) ELSE FailOpen(Normalized(f, FALSE))
     /\ ProbeOnly
-----------------------------------------------------------------------------
(* close, by the owner, at any time but during open. *)

\* First the client; an error of it leaves everything else as it is.
CloseTransport ==
  /\ At("idle")
  /\ \/ /\ transport # None /\ Mishap(TRUE)
        /\ UNCHANGED <<live, owner>>
     \/ /\ live' = live \ {transport}
        /\ owner' = [Idle EXCEPT !.pc = "closing"]
        /\ UNCHANGED bounds
  /\ UNCHANGED <<binding, bucket, fields, files, last, report, session>>

Forget ==
  /\ At("closing")
  /\ owner' = Idle
  /\ transport' = None /\ probe' = NoManifest /\ open' = FALSE
  /\ \E fails \in BOOLEAN : CleanupCa(fails) /\ Mishap(fails)
  /\ UNCHANGED <<binding, bucket, live, last, report, session>>
-----------------------------------------------------------------------------
(* Sessions. *)

Becomes(s, r) == session' = [session EXCEPT ![s] = r]
SessionOnly == UNCHANGED <<binding, bucket, owner, fields, outside, last, report,
                           mishaps, changes>>

OpenSession(s) ==
  /\ session[s].pc = "none" /\ open
  /\ Becomes(s, [session[s] EXCEPT !.pc = "ready"])
  /\ UNCHANGED calls /\ SessionOnly

\* execute begins: the adapter is taken from the runtime, open or not.
Execute(s) ==
  LET r == [session[s] EXCEPT !.manifest = NoManifest, !.client = None]
  IN /\ r.pc = "ready" /\ calls < MaxCalls
     /\ calls' = calls + 1
     /\ Becomes(s, IF r.closed \/ transport = None
                   THEN [r EXCEPT !.outcome = "refused"]
                   ELSE [r EXCEPT !.pc = "applying", !.client = transport,
                                  !.outcome = "none"])
     /\ SessionOnly

\* The operation has run; the provider or the adapter may have refused it.
Apply(s) ==
  /\ session[s].pc = "applying"
  /\ \/ Becomes(s, [session[s] EXCEPT !.pc = "answering"])
     \/ Becomes(s, [session[s] EXCEPT !.pc = "ready", !.outcome = "failed"])
  /\ UNCHANGED calls /\ SessionOnly

\* Mutant: probe() does not look whether the runtime is open.
AlwaysAnswerable == TRUE

\* S3AdapterRuntime.probe has an answer.
Answerable == open /\ probe # NoManifest

\* The result is put together only now: a runtime closed meanwhile makes an
\* operation that took effect look refused.
Answer(s) ==
  /\ session[s].pc = "answering"
  /\ Becomes(s, IF Answerable
                THEN [session[s] EXCEPT !.pc = "ready", !.outcome = "ok", !.manifest = probe]
                ELSE [session[s] EXCEPT !.pc = "ready", !.outcome = "unanswered"])
  /\ UNCHANGED calls /\ SessionOnly

CloseSession(s) ==
  /\ session[s].pc # "none" /\ ~session[s].closed
  /\ Becomes(s, [session[s] EXCEPT !.closed = TRUE])
  /\ UNCHANGED calls /\ SessionOnly

\* Versioning is the business of whoever owns the bucket; one with Object Lock
\* cannot be suspended.
SwitchVersioning ==
  /\ ~bucket.lock /\ changes < MaxChanges /\ changes' = changes + 1
  /\ bucket' = [bucket EXCEPT !.versioning =
                  IF @ = "Enabled" THEN "Suspended" ELSE "Enabled"]
  /\ UNCHANGED <<binding, owner, fields, outside, last, report, session, calls, mishaps>>

OwnerStep == \/ Open \/ HeadBucket \/ VersioningStatus \/ ObjectLock
             \/ CloseTransport \/ Forget
SessionStep(s) == OpenSession(s) \/ Execute(s) \/ Apply(s) \/ Answer(s) \/ CloseSession(s)

Next == OwnerStep \/ SwitchVersioning \/ \E s \in Sessions : SessionStep(s)
Spec == Init /\ [][Next]_vars
-----------------------------------------------------------------------------
(* Properties. *)

TypeOK ==
  /\ binding \in Binding /\ bucket \in Bucket /\ owner \in OwnerState
  /\ transport \in Nat /\ probe \in Manifest /\ open \in BOOLEAN /\ caPath \in Nat
  /\ files \in SUBSET Nat /\ live \in SUBSET Nat /\ last \in Nat /\ report \in Reports
  /\ session \in [Sessions -> SessionState]
  /\ calls \in Nat /\ mishaps \in Nat /\ changes \in Nat

\* What the configuration asks for is in the manifest.
Satisfies(m) ==
  /\ Has(binding, "requireVersioning") => m.versioning = "Enabled"
  /\ Enforcing(binding) => m.lock

\* An open runtime advertises what the client in use has verified, in this
\* opening, and an Object Lock it advertises is there ("Enforced retention is
\* advertised only when objectLockMode is configured and the authenticated
\* probe verifies Object Lock on the bucket", README): also after failed
\* openings, closes that failed half way, and switches of the bucket.
AdvertisedIsVerified ==
  open => /\ Satisfies(probe)
          /\ probe.client = transport
          /\ Enforcing(binding) => bucket.lock

\* An execution that reports success reports the manifest of a completed
\* startup that satisfies the configuration, never of one before the client
\* it used, whatever was closed and opened between operation and answer
\* (factory.py:64-69 reads the runtime twice).
SuccessIsVouched ==
  \A s \in Sessions :
    session[s].outcome = "ok" =>
      /\ session[s].manifest # NoManifest /\ Satisfies(session[s].manifest)
      /\ session[s].client <= session[s].manifest.client

\* Only local failures leave anything behind: however often the provider
\* refuses a startup, a runtime at rest and not open has no CA file and no
\* open client (handler of open, close).  Each local failure loses track of
\* one file and one client at most.
NothingLeftBehind ==
  /\ At("idle") /\ ~open /\ mishaps = 0 => files = {} /\ live = {}
  /\ Cardinality(files \ {caPath}) <= mishaps
  /\ Cardinality(live \ {transport}) <= mishaps

\* A runtime that is open talks plain HTTP only if TLS was disabled and HTTP
\* allowed, and otherwise still has the CA file its own client verifies with,
\* whatever earlier openings left (create, open, _cleanup_ca).
OpenIsSecured ==
  open => IF binding.scheme = "https"
          THEN binding.tls = "server" /\ caPath = transport /\ caPath \in files
          ELSE binding.tls = "disabled" /\ Has(binding, "allowInsecureHttp")

\* A startup refused for want of Object Lock was refused by a bucket without
\* it: an answer about access or load is never read as one about the bucket
\* (object_lock_enabled).
MismatchIsReal ==
  report = "ObjectCapabilityMismatch" => Enforcing(binding) /\ ~bucket.lock

\* An open runtime can store every length up to the largest object that it
\* advertises (s3_descriptor, descriptor.py:82): the sizes are "bounded before an
\* SDK client or transfer is created" (README.md:54-56), so no transfer of such a
\* length meets the part limit of upload_multipart or the limit of one request.
AdvertisedIsStorable ==
  open => \A length \in 0..binding.sizes.object : Storable(length, binding.sizes)
=============================================================================
