---------------------------- MODULE MCS3Objects ----------------------------
(* Small instances of S3Objects: named sets of put inputs. *)
EXTENDS S3Objects, TLC

Put(d, createOnly, immutability, retention) ==
  [digest |-> d, createOnly |-> createOnly,
   immutability |-> immutability, retention |-> retention]

\* Every mix of create-only, immutable and plain puts of each digest.
RacingPuts == {Put(d, c, i, "none") : d \in Digests, c \in BOOLEAN,
                                      i \in {"profile", "immutable"}}
PlainPuts == {Put(d, FALSE, "profile", "none") : d \in Digests}
\* A payload stored in one part, with and without a deadline, and another one
\* above the multipart threshold.
MixedPuts == {Put(1, FALSE, "profile", t) : t \in {"none", "until"}}
               \cup {Put(2, FALSE, "profile", "none")}
\* Puts of each digest under no, timed and policy retention.
RetainedPuts == {Put(d, FALSE, "profile", t) : d \in Digests, t \in Retentions}

\* Callers of one kind are interchangeable.
Callers == Permutations(Writers) \cup Permutations(Deleters)
=============================================================================
