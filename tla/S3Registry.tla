----------------------------- MODULE S3Registry -----------------------------
(***************************************************************************)
(* One registry record and the callers that register it: publish_schema,   *)
(* create_resource and S3MigrationHooks.apply run the same protocol, a     *)
(* conditional write, and on a conflict a read and a comparison.  Keys do  *)
(* not interact, so one is enough.  A conditional write is open at the     *)
(* provider for a while; the provider refuses a rival meanwhile with 409,  *)
(* which errors.py turns into the same conflict as 412.                    *)
(***************************************************************************)
EXTENDS Naturals

CONSTANTS
  Callers, Documents, None,
  MaxCalls,      \* bound: calls started
  MaxFaults      \* bound: lost responses, failed requests, dead callers

ASSUME RegistryAssumption == None \notin Documents

VARIABLES
  record,        \* the stored document, or None
  caller,        \* local state of each caller
  started, faults

vars == <<record, caller, started, faults>>

Pcs == {"idle", "probe", "send", "open", "read"}
Answers == {"none", "created", "present", "different", "failed"}
Local == [pc: Pcs, doc: Documents \cup {None}, answer: Answers]

Init == /\ record = None
        /\ caller = [c \in Callers |-> [pc |-> "idle", doc |-> None, answer |-> "none"]]
        /\ started = 0 /\ faults = 0

At(c, pc) == caller[c].pc = pc
Goto(c, pc) == caller' = [caller EXCEPT ![c].pc = pc]
Reply(c, a) == caller' = [caller EXCEPT ![c].pc = "idle", ![c].answer = a]

\* A call with its document; apply probes the bucket before it writes.
Start(c) ==
  /\ At(c, "idle") /\ started < MaxCalls
  /\ \E d \in Documents, pc \in {"probe", "send"} :
       caller' = [caller EXCEPT ![c] = [pc |-> pc, doc |-> d, answer |-> "none"]]
  /\ started' = started + 1
  /\ UNCHANGED <<record, faults>>

HeadBucket(c) ==
  /\ At(c, "probe") /\ Goto(c, "send")
  /\ UNCHANGED <<record, started, faults>>

\* Mutant: a write without IfNoneMatch.
Unconditional(c) == FALSE

\* The provider's condition on a create-only write: the key is free and no
\* other conditional write of it is open.
Refused(c) == record # None \/ \E b \in Callers \ {c} : At(b, "open")

\* Mutant: a conflict is retried in place of being looked into.
SendUntilFree(c) ==
  /\ At(c, "send")
  /\ Goto(c, IF Refused(c) THEN "send" ELSE "open")
  /\ UNCHANGED <<record, started, faults>>

\* put_json with create_only: accepted, or a conflict that leads to read_json.
Send(c) ==
  /\ At(c, "send")
  /\ Goto(c, IF Refused(c) THEN "read" ELSE "open")
  /\ UNCHANGED <<record, started, faults>>

\* The write takes effect.  If its response is lost the SDK repeats it, and the
\* repetition conflicts with the write itself.
Commit(c) ==
  /\ At(c, "open")
  /\ record' = caller[c].doc
  /\ \/ Reply(c, "created") /\ UNCHANGED faults
     \/ faults < MaxFaults /\ Goto(c, "read") /\ faults' = faults + 1
  /\ UNCHANGED started

\* What a caller that met a conflict is told once the record is read: a rival
\* that was refused with 409 may read before anything is stored, and read_json
\* then fails with not-found.
Comparison(stored, d) == IF stored = None THEN "failed"
                         ELSE IF stored = d THEN "present" ELSE "different"

\* read_json after the conflict, and the comparison of the documents.
ReadBack(c) ==
  /\ At(c, "read")
  /\ Reply(c, Comparison(record, caller[c].doc))
  /\ UNCHANGED <<record, started, faults>>

\* A request that fails for good, or a caller that dies; an open write is
\* dropped by the provider, or has taken effect.
Break(c) ==
  /\ ~At(c, "idle") /\ faults < MaxFaults
  /\ faults' = faults + 1
  /\ Reply(c, "failed")
  /\ \/ UNCHANGED record
     \/ At(c, "open") /\ record' = caller[c].doc
  /\ UNCHANGED started

Step(c) == HeadBucket(c) \/ Send(c) \/ Commit(c) \/ ReadBack(c)

\* Every call allowed has been made and answered.
Finished == started = MaxCalls /\ (\A c \in Callers : At(c, "idle")) /\ UNCHANGED vars

Next == (\E c \in Callers : Start(c) \/ Step(c) \/ Break(c)) \/ Finished
Spec == Init /\ [][Next]_vars
\* A call that has begun goes on: its thread runs, and requests time out.
FairSpec == Spec /\ \A c \in Callers : WF_vars(Step(c))
-----------------------------------------------------------------------------
(* Properties. *)

\* The registry keeps the promise of WriteOnce through racing callers, a
\* conflict with a write not yet stored, and a write that conflicts with itself.
Registered == INSTANCE WriteOnce
                WITH calls <- [c \in Callers |-> [doc |-> caller[c].doc,
                                                  answer |-> caller[c].answer]]
Implements == Registered!Spec

\* Every call is answered: the conflict path of publish_schema, create_resource
\* and apply reads once and never sends the write again.
Answered == \A c \in Callers : ~At(c, "idle") ~> At(c, "idle")
=============================================================================
