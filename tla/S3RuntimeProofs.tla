-------------------------- MODULE S3RuntimeProofs --------------------------
(* Theorems about S3Runtime. *)
EXTENDS S3Runtime, FiniteSetTheorems, TLAPS

Probing == owner.pc \in {"head", "versioning", "lock"}
\* A client of this runtime is in use or about to be.
Held == open \/ Probing

\* Before the provider is asked, and while it is, the runtime is not open; what
\* it holds is its newest client.
Phases ==
  /\ Probing => ~open /\ owner.seen.client = transport
  /\ Held => transport = last /\ transport # None
  /\ transport <= last
  /\ ~open => probe = NoManifest

\* What the probe has seen so far is so.
Observed == owner.seen.lock => bucket.lock

\* No session has used a client that is yet to come.
Used == \A s \in Sessions : session[s].client <= last

\* The CA file of a client held is the one on record, and on disk.
Kept == Held /\ WritesCa => caPath = transport /\ caPath \in files

-----------------------------------------------------------------------------
(* Types. *)

USE DEF Manifest, NoManifest, Versionings, None, At, Idle, OwnerState

\* What the handler around the probe does to the types.
LEMMA TypesOfFailOpen ==
  ASSUME TypeOK, NEW error \in Reports, FailOpen(error)
  PROVE  /\ owner' \in OwnerState /\ transport' \in Nat /\ probe' \in Manifest
         /\ open' \in BOOLEAN /\ caPath' \in Nat
         /\ files' \in SUBSET Nat /\ live' \in SUBSET Nat /\ report' \in Reports
         /\ calls' \in Nat /\ mishaps' \in Nat /\ changes' \in Nat
<1>1. owner' \in OwnerState
  BY DEF FailOpen
<1>2. CASE Mishap(TRUE) /\ report' = "mishap" /\ UNCHANGED <<fields, outside>>
  BY <1>1, <1>2 DEF TypeOK, Mishap, fields, outside, Reports
<1>3. ASSUME NEW fails \in BOOLEAN, CleanupCa(fails), Mishap(fails),
             live' = live \ {transport}, transport' = None, UNCHANGED <<probe, open>>,
             report' = IF fails THEN "mishap" ELSE error
      PROVE  /\ transport' \in Nat /\ probe' \in Manifest
             /\ open' \in BOOLEAN /\ caPath' \in Nat
             /\ files' \in SUBSET Nat /\ live' \in SUBSET Nat /\ report' \in Reports
             /\ calls' \in Nat /\ mishaps' \in Nat /\ changes' \in Nat
  BY <1>3 DEF TypeOK, Mishap, CleanupCa, Reports
<1> QED BY <1>1, <1>2, <1>3 DEF FailOpen

LEMMA TypesOfConclude ==
  ASSUME TypeOK, NEW seen \in Manifest, Conclude(seen)
  PROVE  /\ owner' \in OwnerState /\ transport' \in Nat /\ probe' \in Manifest
         /\ open' \in BOOLEAN /\ caPath' \in Nat
         /\ files' \in SUBSET Nat /\ live' \in SUBSET Nat /\ report' \in Reports
         /\ calls' \in Nat /\ mishaps' \in Nat /\ changes' \in Nat
<1>1. CASE Verdict(seen) = "open"
  <2>1. /\ probe' = seen /\ open' = TRUE /\ owner' = Idle /\ report' = "open"
        /\ transport' = transport /\ caPath' = caPath /\ files' = files /\ live' = live
        /\ calls' = calls /\ mishaps' = mishaps /\ changes' = changes
    BY <1>1 DEF Conclude, outside, bounds
  <2> QED BY <2>1 DEF TypeOK, Reports
<1>2. CASE Verdict(seen) # "open"
  <2>1. FailOpen(Verdict(seen)) /\ Verdict(seen) \in Reports
    BY <1>2 DEF Conclude, Verdict, Reports, Errors
  <2> QED BY <2>1, TypesOfFailOpen
<1> QED BY <1>1, <1>2

LEMMA NormalizedIsError ==
  ASSUME NEW f, NEW sensitive \in BOOLEAN
  PROVE  Normalized(f, sensitive) \in Errors
<1> DEFINE tests == Tests(sensitive)
           passed == {i \in 1..8 : f.code \in tests[i].codes \/ f.status \in tests[i].statuses}
           least == CHOOSE i \in passed : \A j \in passed : i <= j
<1>1. ASSUME passed # {}
      PROVE  least \in 1..8
  <2>1. PICK n \in passed : \A j \in passed : ~(j < n)
    BY <1>1
  <2> QED BY <2>1
<1>2. ASSUME NEW i \in 1..8
      PROVE  tests[i].error \in Errors
  <2>1. i \in {1, 2, 3, 4, 5, 6, 7, 8}
    OBVIOUS
  <2> QED BY <2>1 DEF Tests, Errors
<1>3. Normalized(f, sensitive) = IF f.kind = "invalid" THEN "ObjectInvalidRequest"
        ELSE IF f.kind = "transport" \/ passed = {} THEN "ObjectUnavailable" ELSE tests[least].error
  BY DEF Normalized
<1> HIDE DEF least
<1> QED BY <1>1, <1>2, <1>3 DEF Errors

\* A refusal of the provider is a report like another.
LEMMA TypesOfFails ==
  ASSUME TypeOK, Fails
  PROVE  /\ owner' \in OwnerState /\ transport' \in Nat /\ probe' \in Manifest
         /\ open' \in BOOLEAN /\ caPath' \in Nat
         /\ files' \in SUBSET Nat /\ live' \in SUBSET Nat /\ report' \in Reports
         /\ calls' \in Nat /\ mishaps' \in Nat /\ changes' \in Nat
<1>1. PICK f : FailOpen(Normalized(f, FALSE))
  BY DEF Fails
<1>2. Normalized(f, FALSE) \in Reports
  BY NormalizedIsError DEF Reports
<1> QED BY <1>1, <1>2, TypesOfFailOpen

\* Every field keeps its type in every step.
LEMMA Typing ==
  ASSUME TypeOK, [Next]_vars
  PROVE  TypeOK'
<1> USE DEF TypeOK
<1>1. CASE Open
  <2>1. PICK fails \in {"nothing", "create", "write", "client"} :
          /\ Mishap(fails # "nothing")
          /\ files' = IF WritesCa /\ fails # "create" THEN files \cup {last + 1} ELSE files
          /\ caPath' = IF WritesCa /\ fails \notin {"create", "write"} THEN last + 1 ELSE caPath
          /\ \/ /\ transport' = last + 1 /\ live' = live \cup {last + 1}
                /\ owner' = [pc |-> "head", seen |-> [NoManifest EXCEPT !.client = last + 1]]
                /\ report' = "none"
             \/ report' = "mishap" /\ UNCHANGED <<transport, live, owner>>
    BY <1>1 DEF Open
  <2>2. last' = last + 1 /\ files' \in SUBSET Nat /\ UNCHANGED <<binding, bucket, probe, open, session>>
    BY <1>1, <2>1 DEF Open
  <2>3. owner' \in OwnerState
    <3>1. NoManifest \in Manifest
      OBVIOUS
    <3> HIDE DEF NoManifest
    <3>2. [NoManifest EXCEPT !.client = last + 1] \in Manifest
      BY <3>1
    <3> QED BY <2>1, <3>2
  <2>4. transport' \in Nat /\ caPath' \in Nat /\ live' \in SUBSET Nat /\ report' \in Reports
    BY <2>1 DEF Reports
  <2>5. mishaps' \in Nat /\ calls' \in Nat /\ changes' \in Nat
    BY <2>1 DEF Mishap
  <2> QED BY <2>2, <2>3, <2>4, <2>5
<1>2. CASE HeadBucket
  <2>1. owner.seen \in Manifest
    OBVIOUS
  <2>2. CASE Fails
    BY <1>2, <2>2, TypesOfFails DEF HeadBucket, ProbeOnly
  <2>3. CASE Continue(owner.seen, "versioning", Has(binding, "requireVersioning") \/ Enforcing(binding))
    <3>1. CASE Conclude(owner.seen)
      BY <1>2, <2>1, <3>1, TypesOfConclude DEF HeadBucket, ProbeOnly
    <3>2. CASE owner' = [pc |-> "versioning", seen |-> owner.seen]
               /\ UNCHANGED <<fields, outside, report, bounds>>
      BY <1>2, <2>1, <3>2 DEF HeadBucket, ProbeOnly, fields, outside, bounds
    <3> QED BY <2>3, <3>1, <3>2 DEF Continue
  <2> QED BY <1>2, <2>2, <2>3 DEF HeadBucket
<1>3. CASE VersioningStatus
  <2> DEFINE seen == [owner.seen EXCEPT !.versioning = StatusRead]
  <2>1. seen \in Manifest
    BY DEF StatusRead, Bucket
  <2>2. CASE Fails
    BY <1>3, <2>2, TypesOfFails DEF VersioningStatus, ProbeOnly
  <2>3. CASE Continue(seen, "lock", Enforcing(binding))
    BY <1>3, <2>1, <2>3, TypesOfConclude DEF VersioningStatus, ProbeOnly, Continue, fields, outside, bounds
  <2> QED BY <1>3, <2>2, <2>3 DEF VersioningStatus
<1>4. CASE ObjectLock
  <2> DEFINE seen == [owner.seen EXCEPT !.lock = bucket.lock]
  <2>1. seen \in Manifest /\ owner.seen \in Manifest
    BY DEF Bucket
  <2>2. \/ Conclude(seen) \/ Conclude(owner.seen) \/ \E f : FailOpen(Normalized(f, FALSE))
    BY <1>4 DEF ObjectLock
  <2>3. CASE Conclude(seen)
    BY <1>4, <2>1, <2>3, TypesOfConclude DEF ObjectLock, ProbeOnly
  <2>4. CASE Conclude(owner.seen)
    BY <1>4, <2>1, <2>4, TypesOfConclude DEF ObjectLock, ProbeOnly
  <2>5. ASSUME NEW f, FailOpen(Normalized(f, FALSE))
        PROVE  TypeOK'
    <3>1. Normalized(f, FALSE) \in Reports
      BY NormalizedIsError DEF Reports
    <3> QED BY <1>4, <2>5, <3>1, TypesOfFailOpen DEF ObjectLock, ProbeOnly
  <2> QED BY <2>2, <2>3, <2>4, <2>5
<1>5. CASE CloseTransport
  <2>1. owner' \in OwnerState /\ live' \in SUBSET Nat
    <3>1. Idle \in OwnerState
      OBVIOUS
    <3> HIDE DEF Idle
    <3> QED BY <1>5, <3>1 DEF CloseTransport
  <2>2. calls' \in Nat /\ mishaps' \in Nat /\ changes' \in Nat
    BY <1>5 DEF CloseTransport, Mishap, bounds
  <2> QED BY <1>5, <2>1, <2>2 DEF CloseTransport, fields
<1>6. CASE Forget
  <2>1. PICK fails \in BOOLEAN : CleanupCa(fails) /\ Mishap(fails)
    BY <1>6 DEF Forget
  <2>2. calls' \in Nat /\ mishaps' \in Nat /\ changes' \in Nat /\ files' \in SUBSET Nat /\ caPath' \in Nat
    BY <2>1 DEF CleanupCa, Mishap
  <2> QED BY <1>6, <2>2 DEF Forget
<1>7. CASE SwitchVersioning
  BY <1>7 DEF SwitchVersioning, Bucket, fields, outside
<1>8. ASSUME NEW s \in Sessions, SessionStep(s)
      PROVE  TypeOK'
  <2>1. UNCHANGED <<binding, bucket, owner, fields, outside, last, report, mishaps, changes>>
    BY <1>8 DEF SessionStep, SessionOnly, OpenSession, Execute, Apply, Answer, CloseSession
  <2>2. calls' \in Nat
    BY <1>8 DEF SessionStep, OpenSession, Execute, Apply, Answer, CloseSession
  <2>3. session[s] \in SessionState /\ NoManifest \in Manifest
    OBVIOUS
  <2>4. \E r \in SessionState : Becomes(s, r)
    <3>1. CASE OpenSession(s)
      BY <2>3, <3>1 DEF OpenSession, SessionState
    <3>2. CASE Execute(s)
      BY <2>3, <3>2 DEF Execute, SessionState
    <3>3. CASE Apply(s)
      BY <2>3, <3>3 DEF Apply, SessionState
    <3>4. CASE Answer(s)
      BY <2>3, <3>4 DEF Answer, SessionState
    <3>5. CASE CloseSession(s)
      BY <2>3, <3>5 DEF CloseSession, SessionState
    <3> QED BY <1>8, <3>1, <3>2, <3>3, <3>4, <3>5 DEF SessionStep
  <2>5. session' \in [Sessions -> SessionState]
    BY <2>4 DEF Becomes
  <2> QED BY <2>1, <2>2, <2>5 DEF fields, outside
<1>9. CASE UNCHANGED vars
  BY <1>9 DEF vars, fields, outside, bounds
<1> QED BY <1>1, <1>2, <1>3, <1>4, <1>5, <1>6, <1>7, <1>8, <1>9 DEF Next, OwnerStep

LEMMA InitTypes == Init => TypeOK
<1> SUFFICES ASSUME Init PROVE TypeOK
  OBVIOUS
<1>1. binding \in Binding /\ bucket \in Bucket
  BY BindingsAssumption DEF Init
<1>2. session \in [Sessions -> SessionState]
  BY DEF Init, SessionState
<1>3. owner \in OwnerState /\ probe \in Manifest /\ report \in Reports
  BY DEF Init, Reports
<1> QED BY <1>1, <1>2, <1>3 DEF Init, TypeOK

\* Every field of the runtime, of its sessions and of their surroundings has
\* its type in every reachable state.
THEOREM TypesHold == Spec => []TypeOK
BY InitTypes, Typing, PTL DEF Spec
-----------------------------------------------------------------------------
(* The three ways a request of the probe can end. *)

Succeeded(seen) ==
  /\ probe' = seen /\ open' = TRUE /\ owner' = Idle /\ report' = "open"
  /\ UNCHANGED <<transport, caPath, files, live, mishaps>>
  /\ Satisfies(seen) /\ seen.client = owner.seen.client
  /\ seen.lock => bucket.lock
GoesOn(seen) ==
  /\ owner'.pc \in {"versioning", "lock"} /\ owner'.seen = seen
  /\ UNCHANGED <<transport, probe, open, caPath, files, live, mishaps, report>>
  /\ seen.client = owner.seen.client
  /\ seen.lock => bucket.lock
Refused(error) ==
  /\ FailOpen(error)
  /\ error = "ObjectCapabilityMismatch" => Enforcing(binding) /\ ~bucket.lock

ProbeStep == HeadBucket \/ VersioningStatus \/ ObjectLock

\* What Conclude makes of what was seen; a want of Object Lock is decided only
\* once Object Lock was asked for.
LEMMA Concluding ==
  ASSUME NEW seen \in Manifest, Conclude(seen),
         seen.client = owner.seen.client, seen.lock => bucket.lock,
         Enforcing(binding) => seen.lock = bucket.lock
  PROVE  Succeeded(seen) \/ \E error : Refused(error)
<1>1. CASE Verdict(seen) = "open"
  <2>1. Satisfies(seen)
    BY <1>1 DEF Verdict, Satisfies
  <2> QED BY <1>1, <2>1 DEF Conclude, Succeeded, outside, bounds
<1>2. CASE Verdict(seen) # "open"
  <2>1. Verdict(seen) = "ObjectCapabilityMismatch" => Enforcing(binding) /\ ~bucket.lock
    BY DEF Verdict
  <2> QED BY <1>2, <2>1 DEF Conclude, Refused
<1> QED BY <1>1, <1>2

LEMMA Refusing ==
  ASSUME NEW f, FailOpen(Normalized(f, FALSE))
  PROVE  \E error : Refused(error)
BY NormalizedIsError DEF Refused, Errors

LEMMA Probes ==
  ASSUME TypeOK, Observed, ProbeStep
  PROVE  \E seen \in Manifest : \E error : Succeeded(seen) \/ GoesOn(seen) \/ Refused(error)
<1>1. owner.seen \in Manifest /\ bucket.lock \in BOOLEAN
  BY DEF TypeOK, Bucket
<1>2. CASE HeadBucket
  <2>1. CASE Fails
    BY <1>1, <2>1, Refusing DEF Fails
  <2>2. CASE Continue(owner.seen, "versioning", Has(binding, "requireVersioning") \/ Enforcing(binding))
    <3>1. CASE Enforcing(binding) \/ Has(binding, "requireVersioning")
      BY <1>1, <2>2, <3>1 DEF Continue, GoesOn, Observed, fields, outside, bounds
    <3>2. CASE ~(Enforcing(binding) \/ Has(binding, "requireVersioning"))
      BY <1>1, <2>2, <3>2, Concluding DEF Continue, Observed
    <3> QED BY <3>1, <3>2
  <2> QED BY <1>2, <2>1, <2>2 DEF HeadBucket
<1>3. CASE VersioningStatus
  <2> DEFINE seen == [owner.seen EXCEPT !.versioning = StatusRead]
  <2>1. seen \in Manifest /\ seen.client = owner.seen.client /\ seen.lock = owner.seen.lock
    BY <1>1 DEF TypeOK, StatusRead, Bucket
  <2> HIDE DEF seen
  <2>2. CASE Fails
    BY <1>1, <2>2, Refusing DEF Fails
  <2>3. CASE Continue(seen, "lock", Enforcing(binding))
    <3>1. CASE Enforcing(binding)
      BY <2>1, <2>3, <3>1 DEF Continue, GoesOn, Observed, fields, outside, bounds
    <3>2. CASE ~Enforcing(binding)
      BY <2>1, <2>3, <3>2, Concluding DEF Continue, Observed
    <3> QED BY <3>1, <3>2
  <2> QED BY <1>3, <2>2, <2>3 DEF VersioningStatus, seen
<1>4. CASE ObjectLock
  <2> DEFINE seen == [owner.seen EXCEPT !.lock = bucket.lock]
  <2>1. seen \in Manifest /\ seen.client = owner.seen.client /\ seen.lock = bucket.lock
    BY <1>1
  <2> HIDE DEF seen
  <2>2. CASE Conclude(seen)
    BY <2>1, <2>2, Concluding
  <2>3. ASSUME NEW f, MeansNoLock(f), ~bucket.lock, Conclude(owner.seen)
        PROVE  \E r \in Manifest : \E error : Succeeded(r) \/ Refused(error)
    BY <1>1, <2>3, Concluding DEF Observed
  <2>4. ASSUME NEW f, FailOpen(Normalized(f, FALSE))
        PROVE  \E error : Refused(error)
    BY <2>4, Refusing
  <2>5. ASSUME NEW f \in Failures
        PROVE  ~MeansNoLock(f)
    BY FailuresAssumption DEF MeansNoLock
  <2> QED BY <1>1, <1>4, <2>2, <2>3, <2>4, <2>5 DEF ObjectLock, seen
<1> QED BY <1>2, <1>3, <1>4 DEF ProbeStep
-----------------------------------------------------------------------------
(* What a step does to the runtime, for the invariants below: one disjunct a *)
(* kind of step, with the fields it leaves alone.                            *)

Rest == UNCHANGED <<transport, probe, open, caPath, owner>>

\* open made a client, or failed before it could.
OpenStarts ==
  /\ At("idle") /\ ~open /\ last' = last + 1 /\ UNCHANGED <<probe, open, session, bucket>>
  /\ mishaps' = mishaps /\ transport' = last + 1 /\ live' = live \cup {last + 1}
  /\ owner'.pc = "head" /\ owner'.seen.client = last + 1 /\ owner'.seen.lock = FALSE
  /\ files' = (IF WritesCa THEN files \cup {last + 1} ELSE files)
  /\ caPath' = (IF WritesCa THEN last + 1 ELSE caPath) /\ report' = "none"
OpenBreaks ==
  /\ At("idle") /\ ~open /\ last' = last + 1
  /\ UNCHANGED <<probe, open, session, bucket, transport, live, owner>>
  /\ mishaps' = mishaps + 1 /\ files' \in {files, files \cup {last + 1}}
  /\ caPath' \in {caPath, last + 1} /\ report' = "mishap"

LEMMA Opens ==
  ASSUME TypeOK, Open
  PROVE  (OpenStarts \/ OpenBreaks) /\ binding' = binding
<1>1. PICK fails \in {"nothing", "create", "write", "client"} :
        /\ Mishap(fails # "nothing")
        /\ files' = IF WritesCa /\ fails # "create" THEN files \cup {last + 1} ELSE files
        /\ caPath' = IF WritesCa /\ fails \notin {"create", "write"} THEN last + 1 ELSE caPath
        /\ IF fails = "nothing"
           THEN /\ transport' = last + 1 /\ live' = live \cup {last + 1}
                /\ owner' = [pc |-> "head", seen |-> [NoManifest EXCEPT !.client = last + 1]]
                /\ report' = "none"
           ELSE report' = "mishap" /\ UNCHANGED <<transport, live, owner>>
  BY DEF Open
<1>2. /\ At("idle") /\ ~open /\ last' = last + 1 /\ UNCHANGED <<probe, open, session, bucket, binding>>
  BY DEF Open
<1>3. CASE fails = "nothing"
  <2>1. mishaps' = mishaps
    BY <1>1, <1>3 DEF Mishap, TypeOK
  <2> QED BY <1>1, <1>2, <1>3, <2>1 DEF OpenStarts
<1>4. CASE fails # "nothing"
  <2>1. mishaps' = mishaps + 1
    BY <1>1, <1>4 DEF Mishap
  <2> QED BY <1>1, <1>2, <1>4, <2>1 DEF OpenBreaks
<1> QED BY <1>3, <1>4

\* The steps of a session, and the switch of versioning, leave the runtime be.
LEMMA Others ==
  ASSUME SwitchVersioning \/ (\E s \in Sessions : SessionStep(s)) \/ UNCHANGED vars
  PROVE  Rest /\ UNCHANGED <<binding, files, live, last, report, mishaps>> /\ bucket'.lock = bucket.lock
<1>1. CASE SwitchVersioning
  BY <1>1 DEF SwitchVersioning, Rest, fields, outside
<1>2. ASSUME NEW s \in Sessions, SessionStep(s)
      PROVE  Rest /\ UNCHANGED <<binding, files, live, last, report, mishaps, bucket>>
  BY <1>2 DEF SessionStep, SessionOnly, OpenSession, Execute, Apply, Answer, CloseSession,
              Rest, fields, outside
<1>3. CASE UNCHANGED vars
  BY <1>3 DEF vars, Rest, fields, outside, bounds
<1> QED BY <1>1, <1>2, <1>3

\* FailOpen and close let go of the client, or change nothing.
Dropped ==
  /\ open' = FALSE /\ owner' = Idle /\ transport' = None /\ caPath' = None
  /\ \/ files' = files \ {caPath} /\ mishaps' = mishaps
     \/ files' = files /\ mishaps' = mishaps + 1

LEMMA Drops ==
  ASSUME TypeOK, NEW error, FailOpen(error)
  PROVE  \/ /\ UNCHANGED <<transport, probe, open, caPath, files, live>>
            /\ mishaps' = mishaps + 1 /\ report' = "mishap" /\ owner' = Idle
         \/ /\ (open = FALSE => Dropped) /\ live' = live \ {transport}
            /\ UNCHANGED <<probe, open>> /\ report' \in {error, "mishap"}
<1>1. CASE Mishap(TRUE) /\ report' = "mishap" /\ UNCHANGED <<fields, outside>>
  BY <1>1 DEF FailOpen, Mishap, fields, outside
<1>2. ASSUME NEW fails \in BOOLEAN, CleanupCa(fails), Mishap(fails),
             live' = live \ {transport}, transport' = None, UNCHANGED <<probe, open>>,
             report' = IF fails THEN "mishap" ELSE error
      PROVE  (open = FALSE => Dropped) /\ report' \in {error, "mishap"}
  BY <1>2 DEF FailOpen, CleanupCa, Mishap, Dropped, TypeOK
<1> QED BY <1>1, <1>2 DEF FailOpen

LEMMA Forgets ==
  ASSUME TypeOK, Forget
  PROVE  Dropped /\ probe' = NoManifest /\ At("closing")
         /\ UNCHANGED <<binding, bucket, live, last, report, session>>
<1>1. PICK fails \in BOOLEAN : CleanupCa(fails) /\ Mishap(fails)
  BY DEF Forget
<1>2. mishaps' = mishaps + IF fails THEN 1 ELSE 0
  BY <1>1 DEF Mishap
<1> QED BY <1>1, <1>2 DEF Forget, Dropped, CleanupCa, TypeOK

LEMMA Closes ==
  ASSUME TypeOK, CloseTransport
  PROVE  /\ At("idle") /\ UNCHANGED <<binding, bucket, transport, probe, open, caPath, files, last, report, session>>
         /\ \/ live' = live /\ owner' = owner /\ mishaps' = mishaps + 1
            \/ /\ live' = live \ {transport} /\ mishaps' = mishaps
               /\ owner'.pc = "closing" /\ owner'.seen.lock = FALSE
BY DEF CloseTransport, Mishap, fields, bounds, TypeOK
-----------------------------------------------------------------------------
(* The inductive invariant. *)

Other == SwitchVersioning \/ (\E s \in Sessions : SessionStep(s)) \/ UNCHANGED vars

Core == TypeOK /\ Accepted(binding) /\ Phases /\ Observed

LEMMA Kinds ==
  ASSUME [Next]_vars
  PROVE  Open \/ ProbeStep \/ CloseTransport \/ Forget \/ Other
BY DEF Next, OwnerStep, ProbeStep, Other

LEMMA CoreHolds ==
  ASSUME Core, [Next]_vars
  PROVE  Core'
<1> USE DEF Core
<1>1. TypeOK'
  BY Typing
<1>0. ASSUME binding' = binding, Phases', Observed'
      PROVE  Core'
  BY <1>0, <1>1 DEF Accepted, ConfigAccepted, CredentialAccepted, TlsAccepted
<1> HIDE DEF Accepted
<1>2. CASE Open
  <2>1. CASE OpenStarts
    <3>1. Phases'
      BY <2>1 DEF OpenStarts, Phases, Held, Probing, TypeOK
    <3>2. Observed'
      BY <2>1 DEF OpenStarts, Observed
    <3> QED BY <1>0, <1>2, <3>1, <3>2, Opens
  <2>2. CASE OpenBreaks
    <3>1. Phases'
      BY <2>2 DEF OpenBreaks, Phases, Held, Probing, TypeOK
    <3>2. Observed'
      BY <2>2 DEF OpenBreaks, Observed
    <3> QED BY <1>0, <1>2, <3>1, <3>2, Opens
  <2> QED BY <1>2, <2>1, <2>2, Opens
<1>3. CASE ProbeStep
  <2>1. Probing /\ ProbeOnly
    BY <1>3 DEF ProbeStep, HeadBucket, VersioningStatus, ObjectLock, Probing
  <2>2. PICK seen, error : seen \in Manifest /\ (Succeeded(seen) \/ GoesOn(seen) \/ Refused(error))
    BY <1>3, Probes
  <2>3. CASE Succeeded(seen)
    <3>1. Phases'
      BY <2>1, <2>3 DEF Succeeded, ProbeOnly, Phases, Held, Probing
    <3>2. Observed'
      BY <2>3 DEF Succeeded, Observed
    <3> QED BY <1>0, <2>1, <3>1, <3>2 DEF ProbeOnly
  <2>4. CASE GoesOn(seen)
    <3>1. Phases'
      BY <2>1, <2>4 DEF GoesOn, ProbeOnly, Phases, Held, Probing
    <3>2. Observed'
      BY <2>1, <2>4 DEF GoesOn, ProbeOnly, Observed
    <3> QED BY <1>0, <2>1, <3>1, <3>2 DEF ProbeOnly
  <2>5. CASE Refused(error)
    <3>1. /\ open' = open /\ probe' = probe /\ last' = last /\ owner'.pc = "idle" /\ open = FALSE
          /\ owner'.seen.lock = FALSE /\ transport' \in {transport, None}
      <4>1. FailOpen(error) /\ open = FALSE /\ last' = last
        BY <2>1, <2>5 DEF Refused, ProbeOnly, Phases, TypeOK
      <4>2. owner' = Idle
        BY <4>1 DEF FailOpen
      <4> QED BY <4>1, <4>2, Drops DEF Dropped
    <3>2. Phases'
      BY <2>1, <3>1 DEF Phases, Held, Probing, TypeOK
    <3>3. Observed'
      BY <3>1 DEF Observed
    <3> QED BY <1>0, <2>1, <3>2, <3>3 DEF ProbeOnly
  <2> QED BY <2>2, <2>3, <2>4, <2>5
<1>4. CASE CloseTransport
  <2>1. /\ UNCHANGED <<binding, bucket, transport, probe, open, last>>
        /\ owner' = owner \/ (owner'.pc = "closing" /\ owner'.seen.lock = FALSE)
    BY <1>4, Closes
  <2>2. Phases'
    BY <2>1 DEF Phases, Held, Probing
  <2>3. Observed'
    BY <2>1 DEF Observed
  <2> QED BY <1>0, <2>1, <2>2, <2>3
<1>5. CASE Forget
  <2>1. /\ UNCHANGED <<binding, last>> /\ probe' = NoManifest /\ open' = FALSE
        /\ transport' = None /\ owner' = Idle
    BY <1>5, Forgets DEF Dropped
  <2>2. Phases' /\ Observed'
    BY <2>1 DEF Phases, Observed, Held, Probing, TypeOK
  <2> QED BY <1>0, <2>1, <2>2
<1>6. CASE Other
  <2>1. Phases' /\ Observed'
    BY <1>6, Others DEF Other, Rest, Phases, Observed, Held, Probing
  <2> QED BY <1>0, <1>6, <2>1, Others DEF Other
<1> QED BY <1>2, <1>3, <1>4, <1>5, <1>6, Kinds

\* An advertisement stays verified: open follows a verdict, and nothing but
\* close touches what it rests on.
LEMMA AdvertisedKept ==
  ASSUME Core, AdvertisedIsVerified, [Next]_vars
  PROVE  AdvertisedIsVerified'
<1> USE DEF Core, AdvertisedIsVerified
<1>1. CASE Open
  BY <1>1, Opens DEF OpenStarts, OpenBreaks
<1>2. CASE ProbeStep
  <2>1. Probing /\ ProbeOnly
    BY <1>2 DEF ProbeStep, HeadBucket, VersioningStatus, ObjectLock, Probing
  <2>2. PICK seen, error : seen \in Manifest /\ (Succeeded(seen) \/ GoesOn(seen) \/ Refused(error))
    BY <1>2, Probes
  <2>3. CASE Succeeded(seen)
    BY <2>1, <2>3 DEF Succeeded, ProbeOnly, Phases, Satisfies
  <2>4. CASE ~Succeeded(seen)
    BY <2>1, <2>2, <2>4, Drops DEF GoesOn, Refused, Phases
  <2> QED BY <2>3, <2>4
<1>3. CASE CloseTransport
  BY <1>3, Closes DEF Satisfies
<1>4. CASE Forget
  BY <1>4, Forgets DEF Dropped
<1>5. CASE Other
  BY <1>5, Others DEF Other, Rest, Satisfies
<1> QED BY <1>1, <1>2, <1>3, <1>4, <1>5, Kinds

LEMMA KeptKept ==
  ASSUME Core, Kept, [Next]_vars
  PROVE  Kept'
<1> USE DEF Core, Kept, WritesCa
<1>1. CASE Open
  BY <1>1, Opens DEF OpenStarts, OpenBreaks, Held, Probing
<1>2. CASE ProbeStep
  <2>1. Probing /\ ProbeOnly
    BY <1>2 DEF ProbeStep, HeadBucket, VersioningStatus, ObjectLock, Probing
  <2>2. PICK seen, error : seen \in Manifest /\ (Succeeded(seen) \/ GoesOn(seen) \/ Refused(error))
    BY <1>2, Probes
  <2>3. CASE Succeeded(seen) \/ GoesOn(seen)
    BY <2>1, <2>3 DEF Succeeded, GoesOn, ProbeOnly, Held
  <2>4. CASE Refused(error)
    <3>1. FailOpen(error) /\ open = FALSE
      BY <2>1, <2>4 DEF Refused, Phases, TypeOK
    <3>2. owner' = Idle /\ open' = FALSE
      BY <3>1, Drops DEF FailOpen, Dropped
    <3> QED BY <3>2 DEF Held, Probing
  <2> QED BY <2>2, <2>3, <2>4
<1>3. CASE CloseTransport
  <2>1. /\ UNCHANGED <<binding, transport, open, caPath, files>>
        /\ owner' = owner \/ owner'.pc = "closing"
    BY <1>3, Closes
  <2> QED BY <2>1 DEF Held, Probing
<1>4. CASE Forget
  BY <1>4, Forgets DEF Dropped, Held, Probing
<1>5. CASE Other
  BY <1>5, Others DEF Other, Rest, Held, Probing
<1> QED BY <1>1, <1>2, <1>3, <1>4, <1>5, Kinds

\* A verdict about Object Lock is the only way to that report.
LEMMA MismatchKept ==
  ASSUME Core, MismatchIsReal, [Next]_vars
  PROVE  MismatchIsReal'
<1> USE DEF Core, MismatchIsReal
<1>1. CASE Open
  BY <1>1, Opens DEF OpenStarts, OpenBreaks
<1>2. CASE ProbeStep
  <2>1. ProbeOnly
    BY <1>2 DEF ProbeStep, HeadBucket, VersioningStatus, ObjectLock
  <2>2. PICK seen, error : seen \in Manifest /\ (Succeeded(seen) \/ GoesOn(seen) \/ Refused(error))
    BY <1>2, Probes
  <2> QED BY <2>1, <2>2, Drops DEF Succeeded, GoesOn, Refused, ProbeOnly
<1>3. CASE CloseTransport
  BY <1>3, Closes
<1>4. CASE Forget
  BY <1>4, Forgets
<1>5. CASE Other
  BY <1>5, Others DEF Other
<1> QED BY <1>1, <1>2, <1>3, <1>4, <1>5, Kinds

\* No session is ahead of the runtime, and one that answers has the manifest of
\* its newest client.
LEMMA VouchedKept ==
  ASSUME Core, AdvertisedIsVerified, Used, SuccessIsVouched, [Next]_vars
  PROVE  Used' /\ SuccessIsVouched'
<1> USE DEF Core, Used, SuccessIsVouched
<1>1. ASSUME session' = session, binding' = binding, last' \in {last, last + 1}
      PROVE  Used' /\ SuccessIsVouched'
  BY <1>1 DEF TypeOK, SessionState, Satisfies
<1>2. CASE Open \/ ProbeStep \/ CloseTransport \/ Forget
  <2>1. session' = session /\ binding' = binding /\ last' \in {last, last + 1}
    BY <1>2 DEF Open, ProbeStep, HeadBucket, VersioningStatus, ObjectLock, ProbeOnly,
                CloseTransport, Forget
  <2> QED BY <1>1, <2>1
<1>3. CASE SwitchVersioning \/ UNCHANGED vars
  BY <1>1, <1>3 DEF SwitchVersioning, vars
<1>4. ASSUME NEW s \in Sessions, SessionStep(s)
      PROVE  Used' /\ SuccessIsVouched'
  <2>1. binding' = binding /\ last' = last /\ session \in [Sessions -> SessionState]
    BY <1>4, Others DEF TypeOK
  <2>2. ASSUME NEW r \in SessionState, Becomes(s, r), r.client <= last,
               r.outcome = "ok" => /\ r.manifest # NoManifest /\ Satisfies(r.manifest)
                                   /\ r.client <= r.manifest.client
        PROVE  Used' /\ SuccessIsVouched'
    BY <2>1, <2>2 DEF Becomes, Satisfies
  <2>3. session[s] \in SessionState /\ session[s].client <= last
    BY <2>1
  <2>4. CASE Answer(s) /\ Answerable
    <3> DEFINE r == [session[s] EXCEPT !.pc = "ready", !.outcome = "ok", !.manifest = probe]
    <3>1. Becomes(s, r) /\ probe # NoManifest /\ Satisfies(probe)
      BY <2>4 DEF Answer, Answerable, AdvertisedIsVerified
    <3>2. probe.client = last
      BY <2>4 DEF Answerable, AdvertisedIsVerified, Phases, Held
    <3>3. r \in SessionState /\ r.client = session[s].client /\ r.manifest = probe
      BY <2>3 DEF SessionState, TypeOK
    <3> HIDE DEF r
    <3> QED BY <2>2, <2>3, <3>1, <3>2, <3>3
  <2>5. CASE Execute(s)
    <3> DEFINE r == [session[s] EXCEPT !.manifest = NoManifest, !.client = None]
               q == [r EXCEPT !.outcome = "refused"]
               t == [r EXCEPT !.pc = "applying", !.client = transport, !.outcome = "none"]
    <3>1. Becomes(s, q) \/ (transport # None /\ Becomes(s, t))
      BY <2>5 DEF Execute
    <3>2. q \in SessionState /\ q.client = 0 /\ q.outcome = "refused"
      BY <2>3 DEF SessionState
    <3>3. t \in SessionState /\ t.client = transport /\ t.outcome = "none"
      BY <2>3 DEF SessionState, TypeOK
    <3>4. 0 <= last /\ transport <= last
      BY DEF TypeOK, Phases
    <3> HIDE DEF q, t
    <3> QED BY <2>2, <3>1, <3>2, <3>3, <3>4
  <2>6. CASE OpenSession(s) \/ Apply(s) \/ CloseSession(s) \/ (Answer(s) /\ ~Answerable)
    <3> DEFINE Likes(r) == /\ r \in SessionState /\ Becomes(s, r) /\ r.client = session[s].client
                           /\ r.manifest = session[s].manifest
                           /\ r.outcome = "ok" => session[s].outcome = "ok"
    <3>1. CASE OpenSession(s)
      <4>1. Likes([session[s] EXCEPT !.pc = "ready"])
        BY <2>3, <3>1 DEF OpenSession, SessionState
      <4> QED BY <2>2, <2>3, <4>1
    <3>2. CASE Apply(s)
      <4>1. \/ Likes([session[s] EXCEPT !.pc = "answering"])
            \/ Likes([session[s] EXCEPT !.pc = "ready", !.outcome = "failed"])
        BY <2>3, <3>2 DEF Apply, SessionState
      <4> QED BY <2>2, <2>3, <4>1
    <3>3. CASE CloseSession(s)
      <4>1. Likes([session[s] EXCEPT !.closed = TRUE])
        BY <2>3, <3>3 DEF CloseSession, SessionState
      <4> QED BY <2>2, <2>3, <4>1
    <3>4. CASE Answer(s) /\ ~Answerable
      <4>1. Likes([session[s] EXCEPT !.pc = "ready", !.outcome = "unanswered"])
        BY <2>3, <3>4 DEF Answer, SessionState
      <4> QED BY <2>2, <2>3, <4>1
    <3> QED BY <2>6, <3>1, <3>2, <3>3, <3>4
  <2> QED BY <1>4, <2>4, <2>5, <2>6 DEF SessionStep
<1> QED BY <1>2, <1>3, <1>4, Kinds DEF Other
-----------------------------------------------------------------------------
(* What failures leave behind.  A runtime that holds a client may have the   *)
(* client's file and the client; whatever else is there went astray.         *)

StrayFiles == IF Held THEN files \ {caPath} ELSE files
StrayClients == IF Held THEN live \ {transport} ELSE live
Few(S) == IsFiniteSet(S) /\ Cardinality(S) <= mishaps
Strays ==
  /\ Few(StrayFiles) /\ Few(StrayClients)
  /\ At("closing") => transport \notin live

LEMMA Fewer ==
  ASSUME NEW S, IsFiniteSet(S), NEW m \in Nat, Cardinality(S) <= m, NEW x,
         NEW Small \in SUBSET S, NEW Large \in SUBSET (S \cup {x})
  PROVE  /\ IsFiniteSet(Small) /\ Cardinality(Small) <= m
         /\ IsFiniteSet(Large) /\ Cardinality(Large) <= m + 1
<1>1. /\ IsFiniteSet(Small) /\ Cardinality(Small) <= Cardinality(S)
      /\ Cardinality(Small) \in Nat /\ Cardinality(S) \in Nat
  BY FS_Subset, FS_CardinalityType
<1>2. IsFiniteSet(S \cup {x}) /\ Cardinality(S \cup {x}) <= Cardinality(S) + 1
  <2>1. IsFiniteSet(S \cup {x})
             /\ (Cardinality(S \cup {x}) = Cardinality(S)
                 \/ Cardinality(S \cup {x}) = Cardinality(S) + 1)
    BY FS_AddElement, Zenon
  <2> QED BY <1>1, <2>1
<1>3. /\ IsFiniteSet(Large) /\ Cardinality(Large) <= Cardinality(S \cup {x})
      /\ Cardinality(Large) \in Nat /\ Cardinality(S \cup {x}) \in Nat
  BY <1>2, FS_Subset, FS_CardinalityType
<1> QED BY <1>1, <1>2, <1>3

\* Nothing goes astray without a local failure, and then one file and one
\* client at most.
Strayed ==
  \/ mishaps' = mishaps /\ StrayFiles' \subseteq StrayFiles /\ StrayClients' \subseteq StrayClients
  \/ /\ mishaps' = mishaps + 1
     /\ \E x, y : /\ StrayFiles' \subseteq StrayFiles \cup {x}
                  /\ StrayClients' \subseteq StrayClients \cup {y}

LEMMA StraysKept ==
  ASSUME Core, Strays, [Next]_vars
  PROVE  Strays'
<1> USE DEF Core
<1>1. ASSUME Strayed
      PROVE  Few(StrayFiles)' /\ Few(StrayClients)'
  <2>1. mishaps \in Nat
    BY DEF TypeOK
  <2>2. CASE mishaps' = mishaps /\ StrayFiles' \subseteq StrayFiles /\ StrayClients' \subseteq StrayClients
    BY <2>1, <2>2, Fewer DEF Strays, Few
  <2>3. ASSUME NEW x, NEW y, mishaps' = mishaps + 1,
               StrayFiles' \subseteq StrayFiles \cup {x}, StrayClients' \subseteq StrayClients \cup {y}
        PROVE  Few(StrayFiles)' /\ Few(StrayClients)'
    BY <2>1, <2>3, Fewer, ZenonT(40) DEF Strays, Few
  <2> QED BY <1>1, <2>2, <2>3 DEF Strayed
<1>2. CASE Open
  <2>1. CASE OpenStarts
    BY <1>1, <2>1 DEF OpenStarts, Strayed, StrayFiles, StrayClients, Strays, Held, Probing
  <2>2. CASE OpenBreaks
    BY <1>1, <2>2 DEF OpenBreaks, Strayed, StrayFiles, StrayClients, Strays, Held, Probing
  <2> QED BY <1>2, <2>1, <2>2, Opens
<1>3. CASE ProbeStep
  <2>1. Probing /\ open = FALSE
    BY <1>3 DEF ProbeStep, HeadBucket, VersioningStatus, ObjectLock, Probing, Phases, TypeOK
  <2>2. PICK seen, error : seen \in Manifest /\ (Succeeded(seen) \/ GoesOn(seen) \/ Refused(error))
    BY <1>3, Probes
  <2>3. CASE Succeeded(seen)
    BY <1>1, <2>1, <2>3 DEF Succeeded, Strayed, StrayFiles, StrayClients, Strays, Held, Probing
  <2>4. CASE GoesOn(seen)
    BY <1>1, <2>1, <2>4 DEF GoesOn, Strayed, StrayFiles, StrayClients, Strays, Held, Probing
  <2>5. CASE Refused(error)
    <3>1. FailOpen(error) /\ owner' = Idle
      BY <2>5 DEF Refused, FailOpen
    <3>2. /\ open' = open
          /\ \/ files' = files /\ live' = live /\ mishaps' = mishaps + 1
             \/ /\ live' = live \ {transport}
                /\ \/ files' = files \ {caPath} /\ mishaps' = mishaps
                   \/ files' = files /\ mishaps' = mishaps + 1
      BY <2>1, <3>1, Drops DEF Dropped
    <3> QED BY <1>1, <2>1, <3>1, <3>2 DEF Strayed, StrayFiles, StrayClients, Strays, Held, Probing
  <2> QED BY <2>2, <2>3, <2>4, <2>5
<1>4. CASE CloseTransport
  <2>1. /\ At("idle") /\ UNCHANGED <<transport, open, caPath, files>>
        /\ \/ live' = live /\ owner' = owner /\ mishaps' = mishaps + 1
           \/ live' = live \ {transport} /\ mishaps' = mishaps /\ owner'.pc = "closing"
    BY <1>4, Closes
  <2> QED BY <1>1, <2>1 DEF Strayed, StrayFiles, StrayClients, Strays, Held, Probing
<1>5. CASE Forget
  <2>1. /\ owner' = Idle /\ open' = FALSE /\ live' = live /\ At("closing")
        /\ \/ files' = files \ {caPath} /\ mishaps' = mishaps
           \/ files' = files /\ mishaps' = mishaps + 1
    BY <1>5, Forgets DEF Dropped
  <2>2. live \subseteq StrayClients
    BY <2>1 DEF StrayClients, Strays
  <2> QED BY <1>1, <2>1, <2>2 DEF Strayed, StrayFiles, StrayClients, Strays, Held, Probing
<1>6. CASE Other
  <2>1. Rest /\ UNCHANGED <<files, live, mishaps>>
    BY <1>6, Others DEF Other
  <2> QED BY <1>1, <2>1 DEF Rest, Strayed, StrayFiles, StrayClients, Strays, Held, Probing
<1> QED BY <1>2, <1>3, <1>4, <1>5, <1>6, Kinds

LEMMA StraysBound ==
  ASSUME TypeOK, Strays
  PROVE  NothingLeftBehind
<1>1. mishaps \in Nat /\ files \ {caPath} \subseteq StrayFiles /\ live \ {transport} \subseteq StrayClients
  BY DEF TypeOK, StrayFiles, StrayClients
<1>2. Cardinality(files \ {caPath}) <= mishaps /\ Cardinality(live \ {transport}) <= mishaps
  BY <1>1, Fewer DEF Strays, Few
<1>3. ASSUME At("idle"), ~open, mishaps = 0
      PROVE  files = {} /\ live = {}
  <2>1. StrayFiles = files /\ StrayClients = live
    BY <1>3 DEF StrayFiles, StrayClients, Held, Probing
  <2>2. Cardinality(files) = 0 /\ Cardinality(live) = 0 /\ IsFiniteSet(files) /\ IsFiniteSet(live)
    BY <1>3, <2>1, FS_CardinalityType DEF Strays, Few
  <2> QED BY <2>2, FS_EmptySet
<1> QED BY <1>2, <1>3 DEF NothingLeftBehind
-----------------------------------------------------------------------------
(* Sizes. *)

\* Sizes that go together: parts that suffice for the largest object, and no
\* transfer in one request above what the provider takes.
Fits(z) == z.object <= MaxParts * z.part /\ z.threshold <= SinglePutMax + 1

\* upload_multipart's part limit is reached exactly above that many whole parts.
LEMMA PartsSuffice ==
  ASSUME NEW length \in Nat, NEW z \in Sizes, z.part > 0
  PROVE  PartsNeeded(length, z) <= MaxParts <=> length <= MaxParts * z.part
<1>1. z.part \in Nat
  BY DEF Sizes
<1>2. ASSUME NEW part \in Nat, part > 0, NEW parts \in Nat, parts = (length + part - 1) \div part
      PROVE  parts <= 10000 <=> length <= 10000 * part
  <2>1. parts * part <= length + part - 1 /\ length <= parts * part
    BY <1>2
  <2>2. CASE parts <= 10000
    <3>1. parts * part <= 10000 * part
      BY <1>2, <2>2
    <3> QED
      BY <1>2, <2>1, <2>2, <3>1
  <2>3. CASE parts >= 10001
    <3>1. parts * part >= 10001 * part
      BY <1>2, <2>3
    <3> QED
      BY <1>2, <2>1, <2>3, <3>1
  <2> QED BY <1>2, <2>2, <2>3
<1>3. (length + z.part - 1) \div z.part \in Nat
  BY <1>1
<1> QED BY <1>1, <1>2, <1>3 DEF PartsNeeded, MaxParts

\* What the checks of S3Config say of the numbers.
LEMMA AcceptedSizes ==
  ASSUME NEW z \in Sizes, SizesAccepted(z)
  PROVE  /\ z.part \in Nat /\ z.threshold \in Nat /\ z.object \in Nat
         /\ z.part > 0 /\ z.threshold > 0 /\ z.threshold <= z.object
<1>1. ASSUME NEW n \in Nat, NEW m \in Nat, n \in MinPart..m
      PROVE  n > 0 /\ n <= m
  BY <1>1 DEF MinPart
<1>2. z.part \in Nat /\ z.threshold \in Nat /\ z.object \in Nat /\ MaxPart \in Nat
  BY DEF Sizes, MaxPart
<1>3. z.part \in MinPart..MaxPart /\ z.threshold \in MinPart..z.object
  BY DEF SizesAccepted
<1> QED BY <1>1, <1>2, <1>3

\* Accepted sizes can store every length up to the largest object exactly if
\* they fit: the largest object itself and the longest single request decide.
LEMMA StorableIfFits ==
  ASSUME NEW z \in Sizes, SizesAccepted(z)
  PROVE  (\A length \in 0..z.object : Storable(length, z)) <=> Fits(z)
<1>1. /\ z.part \in Nat /\ z.threshold \in Nat /\ z.object \in Nat
      /\ z.part > 0 /\ z.threshold > 0 /\ z.threshold <= z.object
  BY AcceptedSizes
<1>2. MaxParts * z.part \in Nat /\ SinglePutMax \in Nat
  BY <1>1 DEF MaxParts, SinglePutMax
<1>3. ASSUME \A length \in 0..z.object : Storable(length, z) PROVE Fits(z)
  <2>1. z.object \in 0..z.object /\ z.threshold - 1 \in 0..z.object /\ z.threshold - 1 \in Nat
    BY <1>1
  <2>2. Storable(z.object, z) /\ Storable(z.threshold - 1, z)
    BY <1>3, <2>1
  <2>3. InParts(z.object, z) /\ ~InParts(z.threshold - 1, z)
    BY <1>1 DEF InParts
  <2>4. PartsNeeded(z.object, z) <= MaxParts /\ z.threshold - 1 <= SinglePutMax
    BY <2>2, <2>3 DEF Storable
  <2>5. z.object <= MaxParts * z.part
    BY <1>1, <2>4, PartsSuffice
  <2> QED BY <1>1, <1>2, <2>4, <2>5 DEF Fits
<1>4. ASSUME Fits(z), NEW length \in 0..z.object PROVE Storable(length, z)
  <2>1. length \in Nat /\ length <= z.object
    BY <1>1
  <2>2. length <= MaxParts * z.part
    BY <1>1, <1>2, <1>4, <2>1 DEF Fits
  <2>3. PartsNeeded(length, z) <= MaxParts
    BY <1>1, <2>1, <2>2, PartsSuffice
  <2>4. ~InParts(length, z) => length <= SinglePutMax
    BY <1>1, <1>2, <1>4, <2>1 DEF Fits, InParts
  <2> QED BY <2>1, <2>3, <2>4 DEF Storable
<1> QED BY <1>3, <1>4
-----------------------------------------------------------------------------
(* Theorems. *)

IInv == /\ Core /\ Kept /\ Used /\ Strays
        /\ AdvertisedIsVerified /\ SuccessIsVouched /\ MismatchIsReal

LEMMA IInvHolds == Spec => []IInv
<1>1. Init => IInv
  <2> SUFFICES ASSUME Init PROVE IInv
    OBVIOUS
  <2>1. Core
    BY InitTypes DEF Init, Core, Phases, Observed, Held, Probing
  <2>2. Strays
    BY FS_EmptySet DEF Init, Strays, Few, StrayFiles, StrayClients
  <2>3. Kept /\ Used /\ AdvertisedIsVerified /\ SuccessIsVouched /\ MismatchIsReal
    BY DEF Init, Kept, Held, Probing, Used, AdvertisedIsVerified, SuccessIsVouched, MismatchIsReal
  <2> QED BY <2>1, <2>2, <2>3 DEF IInv
<1>2. IInv /\ [Next]_vars => IInv'
  BY CoreHolds, KeptKept, AdvertisedKept, VouchedKept, MismatchKept, StraysKept DEF IInv
<1> QED BY <1>1, <1>2, PTL DEF Spec

\* An open runtime advertises what its own client verified, and an Object Lock
\* that is there (S3HealthProbe.run before _open is set, factory.py:163-170).
THEOREM OpenIsVerified == Spec => []AdvertisedIsVerified
<1>1. IInv => AdvertisedIsVerified
  BY DEF IInv
<1> QED BY <1>1, IInvHolds, PTL

\* No success is reported with a manifest that was not verified for the client
\* used or a later one (execute, factory.py:60-84).
THEOREM SuccessVouched == Spec => []SuccessIsVouched
<1>1. IInv => SuccessIsVouched
  BY DEF IInv
<1> QED BY <1>1, IInvHolds, PTL

\* A runtime refused for want of Object Lock was asked to enforce retention on
\* a bucket without it (object_lock_enabled).
THEOREM MismatchReal == Spec => []MismatchIsReal
<1>1. IInv => MismatchIsReal
  BY DEF IInv
<1> QED BY <1>1, IInvHolds, PTL

\* An open runtime is in plain HTTP by permission only, and otherwise has its CA
\* file on disk (create, open, _cleanup_ca).
THEOREM OpenSecured == Spec => []OpenIsSecured
<1>1. IInv => OpenIsSecured
  <2>1. SUFFICES ASSUME IInv, open PROVE OpenIsSecured
    BY DEF OpenIsSecured
  <2>2. binding \in Binding /\ EndpointAccepted(binding) /\ TlsAccepted(binding)
    BY <2>1 DEF IInv, Core, TypeOK, Accepted, ConfigAccepted
  <2>3. WritesCa => caPath = transport /\ caPath \in files
    BY <2>1 DEF IInv, Kept, Held
  <2> QED BY <2>2, <2>3 DEF OpenIsSecured, EndpointAccepted, TlsAccepted, WritesCa, Binding
<1> QED BY <1>1, IInvHolds, PTL

\* Local failures, and nothing else, leave a CA file or an open client behind,
\* one of each at most (open's handler, close).
THEOREM LittleLeftBehind == Spec => []NothingLeftBehind
<1>1. IInv => NothingLeftBehind
  BY StraysBound DEF IInv, Core
<1> QED BY <1>1, IInvHolds, PTL

\* An open runtime can store what it advertises exactly if its sizes fit, which
\* S3Config does not check (config.py:158-173): with the default sizes it cannot.
THEOREM AdvertisedIfFits == Spec => [](open => (AdvertisedIsStorable <=> Fits(binding.sizes)))
<1>1. IInv => (open => (AdvertisedIsStorable <=> Fits(binding.sizes)))
  <2> SUFFICES ASSUME IInv, open PROVE AdvertisedIsStorable <=> Fits(binding.sizes)
    OBVIOUS
  <2>1. binding.sizes \in Sizes /\ SizesAccepted(binding.sizes)
    BY DEF IInv, Core, TypeOK, Binding, Accepted, ConfigAccepted
  <2> QED BY <2>1, StorableIfFits DEF AdvertisedIsStorable
<1> QED BY <1>1, IInvHolds, PTL
=============================================================================
