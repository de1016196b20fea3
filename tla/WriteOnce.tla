----------------------------- MODULE WriteOnce -----------------------------
(***************************************************************************)
(* What the registry promises of one record (schema version, resource      *)
(* definition, migration revision): the first definition stored stays, at  *)
(* most one caller is told it created it, and every answer given to a      *)
(* caller is true of the record.                                           *)
(***************************************************************************)
CONSTANTS Callers, Documents, None

VARIABLES
  record,   \* the stored definition, or None
  calls     \* caller -> the definition it asks for and the answer it has

Unasked == [doc |-> None, answer |-> "none"]

Init == record = None /\ calls = [c \in Callers |-> Unasked]

Asking(c) == calls[c].doc # None /\ calls[c].answer = "none"

Ask(c, d) ==
  /\ ~Asking(c)
  /\ calls' = [calls EXCEPT ![c] = [doc |-> d, answer |-> "none"]]
  /\ UNCHANGED record

\* The record is set once, to what a caller with an open call asks for; that
\* caller may learn of it at once, later, or never.
Set(c) ==
  /\ Asking(c) /\ record = None
  /\ record' = calls[c].doc
  /\ \/ UNCHANGED calls
     \/ \E a \in {"created", "failed"} : calls' = [calls EXCEPT ![c].answer = a]

\* An answer without a write: that the same or another definition is stored,
\* or no statement about the record at all.
Answer(c, a) ==
  /\ Asking(c)
  /\ \/ a = "present" /\ record = calls[c].doc
     \/ a = "different" /\ record \notin {None, calls[c].doc}
     \/ a = "failed"
  /\ calls' = [calls EXCEPT ![c].answer = a]
  /\ UNCHANGED record

Next == \E c \in Callers :
          \/ \E d \in Documents : Ask(c, d)
          \/ Set(c)
          \/ \E a \in {"present", "different", "failed"} : Answer(c, a)

Spec == Init /\ [][Next]_<<record, calls>>
=============================================================================
