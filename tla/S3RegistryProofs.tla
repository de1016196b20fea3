-------------------------- MODULE S3RegistryProofs --------------------------
(***************************************************************************)
(* The registry protocol of S3Registry implements the write-once record of *)
(* WriteOnce, for any callers, documents and bounds.                       *)
(***************************************************************************)
EXTENDS S3Registry, TLAPS

\* The types of the variables the argument speaks of.
TypeInv == /\ record \in Documents \cup {None}
           /\ caller \in [Callers -> Local]

\* A conditional write is open only while nothing is stored, and no two are.
OneWriter == \A c \in Callers : At(c, "open") =>
               record = None /\ \A b \in Callers : At(b, "open") => b = c

\* A caller is under way exactly while its question has no answer.
Asked == \A c \in Callers :
           /\ ~At(c, "idle") => caller[c].doc # None /\ caller[c].answer = "none"
           /\ At(c, "idle") => caller[c].doc = None \/ caller[c].answer # "none"

IInv == TypeInv /\ OneWriter /\ Asked

\* The provider's conditional write (put_json with create_only) lets at most one
\* caller through, and each caller is under way exactly until it is answered.
LEMMA IInvHolds == Spec => []IInv
<1>1. Init => IInv
  BY RegistryAssumption DEF Init, IInv, TypeInv, OneWriter, Asked, At, Local, Pcs, Answers
<1>2. IInv /\ [Next]_vars => IInv'
  <2> SUFFICES ASSUME IInv, [Next]_vars PROVE IInv'
    OBVIOUS
  <2> USE RegistryAssumption DEF IInv, TypeInv, OneWriter, Asked, At, Local, Pcs, Answers
  <2>1. ASSUME NEW c \in Callers, Start(c) PROVE IInv'
    BY <2>1 DEF Start
  <2>2. ASSUME NEW c \in Callers, HeadBucket(c) PROVE IInv'
    BY <2>2 DEF HeadBucket, Goto
  <2>3. ASSUME NEW c \in Callers, Send(c) PROVE IInv'
    BY <2>3 DEF Send, Goto, Refused
  <2>4. ASSUME NEW c \in Callers, Commit(c) PROVE IInv'
    BY <2>4 DEF Commit, Goto, Reply
  <2>5. ASSUME NEW c \in Callers, ReadBack(c) PROVE IInv'
    BY <2>5 DEF ReadBack, Reply, Comparison
  <2>6. ASSUME NEW c \in Callers, Break(c) PROVE IInv'
    BY <2>6 DEF Break, Reply
  <2>7. CASE UNCHANGED vars
    BY <2>7 DEF vars
  <2> QED
    BY <2>1, <2>2, <2>3, <2>4, <2>5, <2>6, <2>7 DEF Next, Step, Finished
<1> QED
  BY <1>1, <1>2, PTL DEF Spec

\* One step of the protocol is a step of the write-once record, or none.
LEMMA StepRefines ==
  ASSUME IInv, [Next]_vars
  PROVE  [Registered!Next]_<<record, [c \in Callers |-> [doc |-> caller[c].doc,
                                                         answer |-> caller[c].answer]]>>
<1> DEFINE calls == [c \in Callers |-> [doc |-> caller[c].doc, answer |-> caller[c].answer]]
<1> USE DEF IInv, TypeInv, At
<1>1. ASSUME NEW c \in Callers, Start(c) PROVE \E d \in Documents : Registered!Ask(c, d)
  <2>1. PICK d \in Documents, pc \in {"probe", "send"} :
          caller' = [caller EXCEPT ![c] = [pc |-> pc, doc |-> d, answer |-> "none"]]
    BY <1>1 DEF Start
  <2>2. calls' = [calls EXCEPT ![c] = [doc |-> d, answer |-> "none"]]
    BY <2>1
  <2>3. ~Registered!Asking(c)
    BY <1>1 DEF Start, Asked, Registered!Asking
  <2> QED
    BY <1>1, <2>2, <2>3 DEF Start, Registered!Ask
<1>2. ASSUME NEW c \in Callers, HeadBucket(c) \/ Send(c) PROVE UNCHANGED <<record, calls>>
  BY <1>2 DEF HeadBucket, Send, Goto, Local
<1>3. ASSUME NEW c \in Callers, Commit(c) PROVE Registered!Set(c)
  BY <1>3 DEF Commit, Goto, Reply, Asked, OneWriter, Registered!Set, Registered!Asking, Local
<1>4. ASSUME NEW c \in Callers, ReadBack(c)
      PROVE \E a \in {"present", "different", "failed"} : Registered!Answer(c, a)
  BY <1>4 DEF ReadBack, Reply, Comparison, Asked, Registered!Answer, Registered!Asking, Local
<1>5. ASSUME NEW c \in Callers, Break(c)
      PROVE Registered!Set(c) \/ Registered!Answer(c, "failed")
  BY <1>5 DEF Break, Reply, Asked, OneWriter, Registered!Set, Registered!Answer,
              Registered!Asking, Local
<1>6. CASE UNCHANGED vars
  BY <1>6 DEF vars
<1> QED
  BY <1>1, <1>2, <1>3, <1>4, <1>5, <1>6 DEF Next, Step, Finished, Registered!Next

\* Whatever callers race for a key (publish_schema, create_resource, apply), and
\* whatever responses are lost: the first document stays, one caller at most is
\* told it created it, and "same" and "different" are said only when true.
THEOREM RegistryIsWriteOnce == Spec => Implements
<1>1. Init => Registered!Init
  BY DEF Init, Registered!Init, Registered!Unasked
<1> QED
  BY <1>1, IInvHolds, StepRefines, PTL DEF Spec, Implements, Registered!Spec
=============================================================================
