------------------------------- MODULE S3List -------------------------------
(***************************************************************************)
(* _list: one caller lists the objects of a resource, page after page, with*)
(* the cursor each call hands to the next, while puts and deletes change   *)
(* what is stored.  A key is the place of an envelope key in listing order.*)
(* A call asks the provider for pages of keys (transport.list_keys), reads *)
(* the envelope of each key (read_json) and keeps those of matching ids.   *)
(***************************************************************************)
EXTENDS Naturals, FiniteSets, Sequences

CONSTANTS
  Keys,          \* envelope keys, numbered in listing order
  Matching,      \* those whose object id starts with the prefix asked for
  Limits,        \* the limits callers ask for
  PageSize,      \* max_keys of a listing request
  MaxPages,      \* _MAX_INTERNAL_LIST_PAGES
  MaxChanges,    \* bound: puts and deletes of other callers
  MaxFaults      \* bound: calls that fail by themselves

ASSUME ListAssumption ==
  /\ Keys \subseteq Nat \ {0} /\ IsFiniteSet(Keys) /\ Matching \subseteq Keys
  /\ Limits \subseteq Nat \ {0}
  /\ PageSize \in Nat \ {0} /\ MaxPages \in Nat \ {0}

VARIABLES
  stored,        \* keys that exist
  call,          \* cursor and local variables of the caller
  delivered,     \* items of the calls that returned, in order
  stayed,        \* keys that have been there since the scan began
  changes, faults

vars == <<stored, call, delivered, stayed, changes, faults>>

\* No cursor, or no key scanned yet; less than every key.
None == 0
Marks == Keys \cup {None}
Local == [pc: {"new", "between", "fetch", "read", "done"},
          cursor: Marks, limit: Limits \cup {0}, start: Marks,
          page: SUBSET Keys, pageEnd: Marks, truncated: BOOLEAN, pages: Nat,
          more: BOOLEAN, last: Marks, items: Seq(Keys)]

\* Between calls the caller holds a cursor and nothing else.
Waiting(pc, cursor) ==
  [pc |-> pc, cursor |-> cursor, limit |-> 0, start |-> None, page |-> {}, pageEnd |-> None,
   truncated |-> FALSE, pages |-> 0, more |-> FALSE, last |-> None, items |-> <<>>]

Init == /\ stored \in SUBSET Keys
        /\ call = Waiting("new", None)
        /\ delivered = <<>> /\ stayed = {}
        /\ changes = 0 /\ faults = 0

\* A call of _list: the first of a scan, or one with the cursor of the last.
StartCall ==
  /\ call.pc \in {"new", "between"}
  /\ \E n \in Limits : call' = [call EXCEPT !.pc = "fetch", !.limit = n, !.start = call.cursor]
  /\ stayed' = IF call.pc = "new" THEN stored ELSE stayed
  /\ UNCHANGED <<stored, delivered, changes, faults>>

\* The answer, and what the caller makes of it: no cursor ends the scan.
Return(c, cursor) ==
  /\ delivered' = delivered \o c.items
  /\ call' = Waiting(IF cursor = None THEN "done" ELSE "between", cursor)

Continue(c) == call' = c /\ UNCHANGED delivered

\* The call fails: its items are lost, and the caller still has its cursor.
Fail == call' = Waiting("between", call.cursor) /\ UNCHANGED delivered

\* Mutant: a call that found nothing has nowhere new to go on from.
CursorOfItems(c) == IF c.items = <<>> THEN c.cursor ELSE c.last

\* The cursor of an answer that is not the last one: cursor_for_key(last_scanned).
CursorFor(c) == c.last

\* Mutant: the next page starts where this one did.
SamePage(c) == c.start

\* start_after of the next page: the last key of this one.
StartAfter(c) == c.pageEnd

\* From one request to the next.  `more` is set when a further page is due and not
\* reset when it comes, so the end of that page is the end of the call.
Proceed(c) ==
  \/ /\ c.page # {} /\ Len(c.items) # c.limit
     /\ Continue([c EXCEPT !.pc = "read"])
  \/ /\ c.page # {} /\ Len(c.items) = c.limit
     /\ Return(c, CursorFor(c))
  \/ /\ c.page = {} /\ ~c.more /\ ~c.truncated
     /\ Return(c, None)
  \/ /\ c.page = {} /\ ~c.more /\ c.truncated /\ c.pages < MaxPages
     /\ Continue([c EXCEPT !.pc = "fetch", !.start = StartAfter(c), !.more = TRUE])
  \/ /\ c.page = {} /\ (c.more \/ (c.truncated /\ c.pages >= MaxPages))
     /\ Return(c, CursorFor(c))

\* What list_objects_v2 may answer: keys after `start`, in order, without a gap,
\* at most PageSize of them.
Pages(start) ==
  LET after == {k \in stored : k > start}
  IN  {p \in SUBSET after : /\ Cardinality(p) <= PageSize
                            /\ p = {} <=> after = {}
                            /\ \A k \in p, m \in after \ p : k < m}

\* list_keys; an empty page ends the list.
FetchPage ==
  /\ call.pc = "fetch"
  /\ \E p \in Pages(call.start) :
       LET more == \E k \in stored \ p : k > call.start
       IN  \/ p = {} /\ Return(call, None)
           \/ \E end \in p :
                /\ \A k \in p : k <= end
                /\ Proceed([call EXCEPT !.page = p, !.pageEnd = end, !.truncated = more,
                                        !.pages = @ + 1])
  /\ UNCHANGED <<stored, stayed, changes, faults>>

\* Mutant: last_scanned follows the items, not the keys.
OnlyMatching(k) == IF k \in Matching THEN k ELSE call.last

LastScanned(k) == k

\* read_json of the next key of the page; a key deleted meanwhile fails the call.
ReadEnvelope ==
  /\ call.pc = "read"
  /\ \E k \in call.page :
       /\ \A m \in call.page : k <= m
       /\ \/ k \notin stored /\ Fail
          \/ /\ k \in stored
             /\ Proceed([call EXCEPT !.page = @ \ {k}, !.last = LastScanned(k),
                                     !.items = IF k \in Matching THEN Append(@, k) ELSE @])
  /\ UNCHANGED <<stored, stayed, changes, faults>>

\* Any other failure of a request.
Interrupt ==
  /\ call.pc \in {"fetch", "read"} /\ faults < MaxFaults
  /\ Fail /\ faults' = faults + 1
  /\ UNCHANGED <<stored, stayed, changes>>

\* Other callers: the envelope of a put, and that of a delete.
Publish(k) ==
  /\ k \notin stored /\ changes < MaxChanges
  /\ stored' = stored \cup {k} /\ changes' = changes + 1
  /\ UNCHANGED <<call, delivered, stayed, faults>>

Remove(k) ==
  /\ k \in stored /\ changes < MaxChanges
  /\ stored' = stored \ {k} /\ stayed' = stayed \ {k} /\ changes' = changes + 1
  /\ UNCHANGED <<call, delivered, faults>>

Finished == call.pc = "done" /\ UNCHANGED vars

List == StartCall \/ FetchPage \/ ReadEnvelope
Next == List \/ Interrupt \/ (\E k \in Keys : Publish(k) \/ Remove(k)) \/ Finished
Spec == Init /\ [][Next]_vars
\* The caller goes on with its scan until it gets no cursor.
FairSpec == Spec /\ WF_vars(List)
-----------------------------------------------------------------------------
(* Properties. *)

TypeOK ==
  /\ stored \subseteq Keys /\ stayed \subseteq stored
  /\ call \in Local /\ delivered \in Seq(Keys)
  /\ changes \in Nat /\ faults \in Nat

Elements(s) == {s[i] : i \in 1..Len(s)}

\* The cursor skips nothing: a matching object that was stored from the first
\* call on has been delivered once the cursor is past its key or the scan is
\* over, however pages, limits, the bound on pages and failed calls fell.
NothingSkipped ==
  \A k \in stayed \cap Matching :
    call.pc = "done" \/ k <= call.cursor => k \in Elements(delivered)

\* Items come in listing order over all calls, so the cursor repeats nothing.
InOrder ==
  LET all == delivered \o call.items
  IN  \A i, j \in 1..Len(all) : i < j => all[i] < all[j]

\* The key whose turn it is has been deleted since it was listed.
Overtaken == call.pc = "read" /\ \E k \in call.page \ stored : \A m \in call.page : k <= m

\* A call that answers with a cursor has moved it on, past at least one key: only
\* one that failed, by itself or on a deleted key, leaves the caller where it was.
CursorAdvances ==
  [][call.pc \in {"fetch", "read"} /\ call'.pc = "between" =>
       call.cursor < call'.cursor \/ Overtaken \/ faults < faults']_vars

\* A scan ends: every call that returns a cursor has moved it on, and deletes can
\* make only as many calls fail as there are deletes.
ScanEnds == call.pc = "between" ~> call.pc = "done"
=============================================================================
