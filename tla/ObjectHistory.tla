--------------------------- MODULE ObjectHistory ---------------------------
(***************************************************************************)
(* What callers of one object id may rely on while its puts and deletes    *)
(* take turns: versions stand in the order of their publication and the    *)
(* latest is the last of them; a put adds one at the end, at once; a       *)
(* delete takes one out, wherever it stands, and leaves the others as they *)
(* were.                                                                   *)
(***************************************************************************)
CONSTANTS Digests, NoDigest

VARIABLES
  versions,   \* the digests there are
  before,     \* the pairs of them in order of publication
  latest      \* what a reference without a digest means, or NoDigest

Init == versions = {} /\ before = {} /\ latest = NoDigest

Publish(d) ==
  /\ d \notin versions
  /\ versions' = versions \cup {d}
  /\ before' = before \cup (versions \X {d})
  /\ latest' = d

\* The last of the versions in S: every other one is before it.
IsLast(d, S) == d \in S /\ \A c \in S \ {d} : <<c, d>> \in before

Withdraw(d) ==
  /\ d \in versions
  /\ versions' = versions \ {d}
  /\ before' = before \cap (versions' \X versions')
  /\ IF versions' = {} THEN latest' = NoDigest ELSE IsLast(latest', versions')

Next == \E d \in Digests : Publish(d) \/ Withdraw(d)

Spec == Init /\ [][Next]_<<versions, before, latest>>
=============================================================================
