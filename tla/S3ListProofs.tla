---------------------------- MODULE S3ListProofs ----------------------------
(***************************************************************************)
(* A scan with cursors delivers every object that stays, once, in order,   *)
(* for any keys, limits, page sizes and bounds on pages.                   *)
(***************************************************************************)
EXTENDS S3List, TLAPS

Ordered(s) == \A i, j \in 1..Len(s) : i < j => s[i] < s[j]

\* How far a call has come: the last key it scanned, or its cursor.
Position(c) == IF c.last = None THEN c.cursor ELSE c.last

\* Where the items are: those delivered before the cursor, those of this call
\* between the cursor and the last key scanned.
Placed(c, d) ==
  /\ Ordered(d) /\ Ordered(c.items)
  /\ c.pc # "done" => \A k \in Elements(d) : k <= c.cursor
  /\ \A k \in Elements(c.items) : c.cursor < k /\ k <= c.last
  /\ c.last = None \/ c.cursor < c.last

\* What is left of a page lies ahead, up to the end of the page.
OnPage(c) ==
  /\ \A k \in c.page : Position(c) < k /\ k <= c.pageEnd
  /\ c.page # {} => c.pageEnd \in c.page
  /\ c.page = {} => c.pageEnd = c.last /\ c.last # None

\* A key still to come is on the page or, if there is more, behind it.
InPage(c, k) == k \in c.page \/ (c.truncated /\ c.pageEnd < k)

\* Between two requests of a call, while its page is worked through.
AtWork(c, d) ==
  /\ Placed(c, d) /\ OnPage(c)
  /\ \A k \in stayed \cap Matching : k \in Elements(d) \cup Elements(c.items) \/ InPage(c, k)

\* Where the objects still to come can be when a request is due.
Ahead(c, k) ==
  \/ c.pc \in {"between", "fetch"} /\ Position(c) < k
  \/ c.pc = "read" /\ InPage(c, k)

IInv ==
  /\ Placed(call, delivered)
  /\ call.pc \in {"new", "between", "done"} => call = Waiting(call.pc, call.cursor)
  /\ call.pc = "new" => stayed = {} /\ delivered = <<>> /\ call.cursor = None
  /\ call.pc \in {"fetch", "read"} => call.limit # 0
  /\ call.pc = "fetch" => call.start = Position(call)
  /\ call.pc = "read" => call.page # {} /\ OnPage(call)
  /\ \A k \in stayed \cap Matching :
       k \in Elements(delivered) \cup Elements(call.items) \/ Ahead(call, k)
-----------------------------------------------------------------------------
(* Types. *)

LEMMA WaitingTyped ==
  ASSUME NEW pc \in {"between", "done"}, NEW cursor \in Marks
  PROVE  Waiting(pc, cursor) \in Local
BY DEF Waiting, Local, Marks

\* What the code does after a request keeps the types of what it works on.
LEMMA ProceedTyped ==
  ASSUME NEW c \in Local, delivered \in Seq(Keys), Proceed(c)
  PROVE  call' \in Local /\ delivered' \in Seq(Keys)
<1>1. c.pageEnd \in Marks /\ c.last \in Marks /\ c.items \in Seq(Keys) /\ None \in Marks
  BY DEF Local, Marks
<1>2. ASSUME NEW m \in Marks, Return(c, m) PROVE call' \in Local /\ delivered' \in Seq(Keys)
  BY <1>1, <1>2, WaitingTyped DEF Return
<1>3. [c EXCEPT !.pc = "read"] \in Local
  BY DEF Local
<1>4. [c EXCEPT !.pc = "fetch", !.start = StartAfter(c), !.more = TRUE] \in Local
  BY <1>1 DEF Local, StartAfter
<1> QED
  BY <1>1, <1>2, <1>3, <1>4 DEF Proceed, Continue, CursorFor

LEMMA TypesPreserved == TypeOK /\ [Next]_vars => TypeOK'
<1> SUFFICES ASSUME TypeOK, [Next]_vars PROVE TypeOK'
  OBVIOUS
<1> USE DEF TypeOK
<1>1. call.cursor \in Marks /\ call.pageEnd \in Marks /\ call.items \in Seq(Keys)
  BY DEF Local
<1>2. Fail => call' \in Local /\ delivered' = delivered
  BY <1>1, WaitingTyped DEF Fail
<1>3. CASE StartCall
  BY <1>1, <1>3, ZenonT(40) DEF StartCall, Local
<1>4. CASE FetchPage
  <2>1. ASSUME Return(call, None) PROVE call' \in Local /\ delivered' \in Seq(Keys)
    BY <2>1, <1>1, WaitingTyped DEF Return, Marks
  <2>2. ASSUME NEW p \in Pages(call.start), NEW end \in p, NEW more \in BOOLEAN
        PROVE  [call EXCEPT !.page = p, !.pageEnd = end, !.truncated = more, !.pages = @ + 1]
                 \in Local
    <3>1. p \subseteq Keys
      BY DEF Pages
    <3>2. end \in Marks /\ call.pages + 1 \in Nat
      BY <3>1 DEF Local, Marks
    <3> QED
      BY <3>1, <3>2, Zenon DEF Local
  <2>3. ASSUME NEW p \in Pages(call.start), NEW end \in p, NEW more \in BOOLEAN,
               Proceed([call EXCEPT !.page = p, !.pageEnd = end, !.truncated = more,
                                    !.pages = @ + 1])
        PROVE  call' \in Local /\ delivered' \in Seq(Keys)
    BY <2>2, <2>3, ProceedTyped
  <2> QED
    BY <1>4, <2>1, <2>3 DEF FetchPage
<1>5. CASE ReadEnvelope
  <2>1. ASSUME NEW k \in call.page,
               Proceed([call EXCEPT !.page = @ \ {k}, !.last = LastScanned(k),
                                    !.items = IF k \in Matching THEN Append(@, k) ELSE @])
        PROVE  call' \in Local /\ delivered' \in Seq(Keys)
    <3>1. k \in Keys
      BY DEF Local
    <3>2. (IF k \in Matching THEN Append(call.items, k) ELSE call.items) \in Seq(Keys)
      BY <3>1, <1>1
    <3>3. [call EXCEPT !.page = @ \ {k}, !.last = LastScanned(k),
                       !.items = IF k \in Matching THEN Append(@, k) ELSE @] \in Local
      BY <3>1, <3>2 DEF Local, Marks, LastScanned
    <3> QED
      BY <2>1, <3>3, ProceedTyped
  <2> QED
    BY <1>5, <1>2, <2>1 DEF ReadEnvelope
<1>6. CASE Interrupt
  BY <1>2, <1>6 DEF Interrupt
<1>7. CASE \E k \in Keys : Publish(k) \/ Remove(k)
  BY <1>7 DEF Publish, Remove
<1>8. CASE Finished \/ UNCHANGED vars
  BY <1>8 DEF Finished, vars
<1> QED
  BY <1>3, <1>4, <1>5, <1>6, <1>7, <1>8 DEF Next, List

LEMMA TypesHold == Spec => []TypeOK
<1>1. Init => TypeOK
  BY ListAssumption DEF Init, TypeOK, Waiting, Local, Marks
<1> QED
  BY <1>1, TypesPreserved, PTL DEF Spec

-----------------------------------------------------------------------------
(* Sequences of keys. *)

LEMMA Appended ==
  ASSUME NEW s \in Seq(Keys), NEW k \in Keys
  PROVE  /\ Elements(Append(s, k)) = Elements(s) \cup {k}
         /\ Ordered(s) /\ (\A e \in Elements(s) : e < k) => Ordered(Append(s, k))
<1>1. /\ Len(Append(s, k)) = Len(s) + 1 /\ Append(s, k)[Len(s) + 1] = k
      /\ \A i \in 1..Len(s) : Append(s, k)[i] = s[i]
  OBVIOUS
<1>2. Len(s) \in Nat
  OBVIOUS
<1>3. Elements(Append(s, k)) = Elements(s) \cup {k}
  <2>1. 1..(Len(s) + 1) = 1..Len(s) \cup {Len(s) + 1}
    BY <1>2
  <2> QED
    BY <1>1, <2>1 DEF Elements
<1>4. Ordered(s) /\ (\A e \in Elements(s) : e < k) => Ordered(Append(s, k))
  BY <1>1, <1>2 DEF Ordered, Elements
<1> QED
  BY <1>3, <1>4

LEMMA Joined ==
  ASSUME NEW s \in Seq(Keys), NEW t \in Seq(Keys)
  PROVE  /\ Elements(s \o t) = Elements(s) \cup Elements(t)
         /\ Ordered(s) /\ Ordered(t) /\ (\A a \in Elements(s), b \in Elements(t) : a < b)
              => Ordered(s \o t)
<1>1. /\ Len(s \o t) = Len(s) + Len(t) /\ Len(s) \in Nat /\ Len(t) \in Nat
      /\ \A i \in 1..Len(s) : (s \o t)[i] = s[i]
      /\ \A i \in 1..Len(t) : (s \o t)[Len(s) + i] = t[i]
  OBVIOUS
<1>2. ASSUME NEW i \in 1..Len(s \o t), i \notin 1..Len(s)
      PROVE  i - Len(s) \in 1..Len(t) /\ (s \o t)[i] = t[i - Len(s)]
  <2>1. i - Len(s) \in 1..Len(t) /\ Len(s) + (i - Len(s)) = i
    BY <1>1, <1>2
  <2> QED
    BY <1>1, <2>1
<1>3. Elements(s \o t) = Elements(s) \cup Elements(t)
  <2>1. Elements(s \o t) \subseteq Elements(s) \cup Elements(t)
    BY <1>1, <1>2 DEF Elements
  <2>2. \A i \in 1..Len(s) : i \in 1..Len(s \o t)
    BY <1>1
  <2>3. \A i \in 1..Len(t) : Len(s) + i \in 1..Len(s \o t)
    BY <1>1
  <2>4. Elements(s) \subseteq Elements(s \o t)
    BY <1>1, <2>2 DEF Elements
  <2>5. Elements(t) \subseteq Elements(s \o t)
    BY <1>1, <2>3 DEF Elements
  <2> QED
    BY <2>1, <2>4, <2>5
<1>4. ASSUME Ordered(s), Ordered(t), \A a \in Elements(s), b \in Elements(t) : a < b,
             NEW i \in 1..Len(s \o t), NEW j \in 1..Len(s \o t), i < j
      PROVE  (s \o t)[i] < (s \o t)[j]
  <2>1. CASE j \in 1..Len(s)
    <3>1. i \in 1..Len(s)
      BY <1>1, <1>4, <2>1
    <3> QED
      BY <1>1, <1>4, <2>1, <3>1 DEF Ordered
  <2>2. CASE i \in 1..Len(s) /\ j \notin 1..Len(s)
    BY <1>1, <1>2, <1>4, <2>2 DEF Elements
  <2>3. CASE i \notin 1..Len(s) /\ j \notin 1..Len(s)
    <3>1. i - Len(s) < j - Len(s)
      BY <1>1, <1>4
    <3> QED
      BY <1>2, <1>4, <2>3, <3>1 DEF Ordered
  <2> QED
    BY <2>1, <2>2, <2>3
<1> QED
  BY <1>3, <1>4 DEF Ordered

-----------------------------------------------------------------------------
(* The invariant. *)

LEMMA Numbers == Keys \subseteq Nat /\ Marks \subseteq Nat /\ \A k \in Keys : None < k
BY ListAssumption DEF Marks, None

\* Items and deliveries may be joined: delivered keys lie before the cursor.
LEMMA Returned ==
  ASSUME NEW c \in Local, delivered \in Seq(Keys), Placed(c, delivered), c.pc # "done"
  PROVE  /\ Elements(delivered \o c.items) = Elements(delivered) \cup Elements(c.items)
         /\ Ordered(delivered \o c.items)
<1>1. c.items \in Seq(Keys) /\ c.cursor \in Nat
  BY Numbers DEF Local
<1>2. Elements(delivered) \subseteq Keys /\ Elements(c.items) \subseteq Keys
  BY <1>1 DEF Elements
<1>3. \A a \in Elements(delivered), b \in Elements(c.items) : a < b
  <2>1. \A a \in Elements(delivered), b \in Elements(c.items) : a <= c.cursor /\ c.cursor < b
    BY DEF Placed
  <2>2. \A a \in Elements(delivered), b \in Elements(c.items) : a \in Nat /\ b \in Nat
    BY <1>2, ListAssumption
  <2> QED
    BY <1>1, <2>1, <2>2
<1> QED
  BY <1>1, <1>3, Joined DEF Placed

\* A call that answers with a cursor has moved it on from m.
MovesFrom(m) == call'.pc = "between" => m < call'.cursor

LEMMA NothingElement == Elements(<<>>) = {} /\ Ordered(<<>>)
BY DEF Elements, Ordered

\* The last answer: everything that stayed has been delivered.
LEMMA LastAnswer ==
  ASSUME NEW c \in Local, delivered \in Seq(Keys), Placed(c, delivered), c.pc # "done",
         \A k \in stayed \cap Matching : k \in Elements(delivered) \cup Elements(c.items),
         Return(c, None), stayed' = stayed
  PROVE  IInv' /\ MovesFrom(c.cursor)
<1>1. call' = Waiting("done", None) /\ delivered' = delivered \o c.items
  BY DEF Return
<1>2. Elements(delivered') = Elements(delivered) \cup Elements(c.items) /\ Ordered(delivered')
  BY <1>1, Returned
<1>3. call'.pc = "done" /\ call'.cursor = None /\ call'.last = None /\ call'.items = <<>>
  BY <1>1 DEF Waiting
<1> QED
  BY <1>1, <1>2, <1>3, NothingElement DEF IInv, Placed, MovesFrom

\* An answer with a cursor: what is still to come lies behind the cursor.
LEMMA NextCursor ==
  ASSUME NEW c \in Local, delivered \in Seq(Keys), AtWork(c, delivered), c.pc # "done",
         c.last # None, Return(c, CursorFor(c)), stayed' = stayed
  PROVE  IInv' /\ MovesFrom(c.cursor)
<1>1. call' = Waiting("between", c.last) /\ delivered' = delivered \o c.items
  BY DEF Return, CursorFor
<1>2. Elements(delivered') = Elements(delivered) \cup Elements(c.items) /\ Ordered(delivered')
  BY <1>1, Returned DEF AtWork
<1>3. call'.pc = "between" /\ call'.cursor = c.last /\ call'.last = None /\ call'.items = <<>>
  BY <1>1 DEF Waiting
<1>4. c.cursor \in Nat /\ c.last \in Nat /\ c.pageEnd \in Nat
  BY Numbers DEF Local
<1>5. \A k \in Elements(delivered') : k <= c.last
  <2>1. Elements(delivered) \subseteq Nat
    <3>1. Elements(delivered) \subseteq Keys
      BY DEF Elements
    <3> QED
      BY <3>1, Numbers
  <2> QED
    BY <1>2, <1>4, <2>1 DEF AtWork, Placed
<1>6. \A k \in stayed \cap Matching : k \in Elements(delivered') \/ c.last < k
  <2> SUFFICES ASSUME NEW k \in stayed \cap Matching, k \notin Elements(delivered')
               PROVE  c.last < k
    OBVIOUS
  <2>1. k \in Nat /\ InPage(c, k)
    BY <1>2, ListAssumption DEF AtWork
  <2>2. CASE k \in c.page
    BY <1>4, <2>2 DEF AtWork, OnPage, Position
  <2>3. CASE c.pageEnd < k
    BY <1>4, <2>1, <2>3 DEF AtWork, OnPage, Position
  <2> QED
    BY <2>1, <2>2, <2>3 DEF InPage
<1>7. \A k \in stayed' \cap Matching :
        k \in Elements(delivered') \cup Elements(call'.items) \/ Ahead(call, k)'
  BY <1>3, <1>6 DEF Ahead, Position
<1>8. Placed(call, delivered)'
  BY <1>2, <1>3, <1>5, NothingElement DEF Placed
<1>9. MovesFrom(c.cursor)
  BY <1>3 DEF MovesFrom, AtWork, Placed
<1> QED
  BY <1>1, <1>3, <1>7, <1>8, <1>9 DEF IInv

\* What the code does after a request that worked.
LEMMA ProceedKeeps ==
  ASSUME NEW c \in Local, delivered \in Seq(Keys), AtWork(c, delivered),
         c.pc \in {"fetch", "read"}, c.limit # 0, Proceed(c), stayed' = stayed
  PROVE  IInv' /\ MovesFrom(c.cursor)
<1>1. CASE c.page # {} /\ Continue([c EXCEPT !.pc = "read"])
  <2>1. call' = [c EXCEPT !.pc = "read"] /\ delivered' = delivered
    BY <1>1 DEF Continue
  <2>2. /\ call'.pc = "read" /\ call'.page = c.page /\ call'.pageEnd = c.pageEnd
        /\ call'.last = c.last /\ call'.items = c.items /\ call'.cursor = c.cursor
        /\ call'.truncated = c.truncated /\ call'.limit = c.limit
    BY <2>1 DEF Local
  <2>3. Placed(call, delivered)' /\ OnPage(call)' /\ \A k : InPage(call, k)' <=> InPage(c, k)
    BY <2>1, <2>2 DEF AtWork, Placed, OnPage, Position, InPage
  <2> QED
    BY <1>1, <2>1, <2>2, <2>3 DEF IInv, AtWork, Ahead, MovesFrom
<1>2. CASE c.page # {} /\ Len(c.items) = c.limit /\ Return(c, CursorFor(c))
  <2>1. c.items \in Seq(Keys) /\ c.limit \in Nat
    BY ListAssumption DEF Local
  <2>2. c.items[1] \in Elements(c.items) /\ c.items[1] \in Keys
    BY <1>2, <2>1 DEF Elements
  <2>3. c.cursor \in Nat /\ c.last \in Nat /\ c.cursor < c.items[1] /\ c.items[1] <= c.last
    BY <2>2, Numbers DEF AtWork, Placed, Local
  <2>4. c.last # None
    <3>1. c.items[1] \in Nat
      BY <2>2, Numbers
    <3> QED
      BY <2>3, <3>1 DEF None
  <2> QED
    BY <1>2, <2>4, NextCursor
<1>3. CASE c.page = {} /\ ~c.truncated /\ Return(c, None)
  BY <1>3, LastAnswer DEF AtWork, InPage
<1>4. CASE /\ c.page = {} /\ c.truncated
           /\ Continue([c EXCEPT !.pc = "fetch", !.start = StartAfter(c), !.more = TRUE])
  <2>1. call' = [c EXCEPT !.pc = "fetch", !.start = c.pageEnd, !.more = TRUE] /\ delivered' = delivered
    BY <1>4 DEF Continue, StartAfter
  <2>2. /\ call'.pc = "fetch" /\ call'.start = c.pageEnd /\ call'.last = c.last
        /\ call'.items = c.items /\ call'.cursor = c.cursor /\ call'.limit = c.limit
    BY <2>1 DEF Local
  <2>3. c.pageEnd = c.last /\ c.last # None
    BY <1>4 DEF AtWork, OnPage
  <2>4. Placed(call, delivered)' /\ \A k : InPage(c, k) => Ahead(call, k)'
    BY <1>4, <2>1, <2>2, <2>3 DEF AtWork, Placed, Position, InPage, Ahead
  <2> QED
    BY <2>1, <2>2, <2>3, <2>4 DEF IInv, AtWork, Position, MovesFrom
<1>5. CASE c.page = {} /\ Return(c, CursorFor(c))
  BY <1>5, NextCursor DEF AtWork, OnPage
<1> QED
  BY <1>1, <1>2, <1>3, <1>4, <1>5 DEF Proceed

\* A page is fetched: the call goes on or answers.
LEMMA FetchKeeps ==
  ASSUME TypeOK, IInv, FetchPage
  PROVE  IInv' /\ MovesFrom(call.cursor)
<1>t. call \in Local /\ delivered \in Seq(Keys) /\ call.items \in Seq(Keys) /\ stayed \subseteq stored
  BY DEF TypeOK, Local
<1>n. call.cursor \in Nat /\ call.last \in Nat /\ call.pageEnd \in Nat
  BY <1>t, Numbers DEF Local
<1>1. /\ call.pc = "fetch" /\ call.limit # 0 /\ call.start = Position(call)
      /\ stayed' = stayed /\ Placed(call, delivered)
  BY DEF FetchPage, IInv
<1>2. Position(call) \in Nat
  BY <1>n DEF Position
<1>3. PICK p \in Pages(call.start) :
        LET more == \E k \in stored \ p : k > call.start
        IN  \/ p = {} /\ Return(call, None)
            \/ \E end \in p :
                 /\ \A k \in p : k <= end
                 /\ Proceed([call EXCEPT !.page = p, !.pageEnd = end, !.truncated = more,
                                         !.pages = @ + 1])
  BY DEF FetchPage
<1>4. /\ p \subseteq {k \in stored : k > call.start}
      /\ p = {} <=> {k \in stored : k > call.start} = {}
      /\ \A k \in p, m \in {j \in stored : j > call.start} \ p : k < m
  BY DEF Pages
<1>5. \A k \in stayed \cap Matching :
        k \in Elements(delivered) \cup Elements(call.items) \/ Position(call) < k
  BY <1>1 DEF IInv, Ahead
<1>6. CASE p = {} /\ Return(call, None)
  <2>1. \A k \in stayed \cap Matching : ~(Position(call) < k)
    BY <1>t, <1>1, <1>2, <1>4, <1>6, Numbers, ListAssumption
  <2> QED
    BY <1>t, <1>1, <1>5, <1>6, <2>1, LastAnswer
<1>7. ASSUME NEW end \in p, \A k \in p : k <= end, NEW more \in BOOLEAN,
             more = \E k \in stored \ p : k > call.start,
             Proceed([call EXCEPT !.page = p, !.pageEnd = end, !.truncated = more, !.pages = @ + 1])
      PROVE  IInv' /\ MovesFrom(call.cursor)
  <2> DEFINE c == [call EXCEPT !.page = p, !.pageEnd = end, !.truncated = more, !.pages = @ + 1]
  <2>1. p \subseteq Keys /\ end \in Marks /\ call.pages + 1 \in Nat
    BY <1>t, <1>4 DEF TypeOK, Marks, Local
  <2>2. c \in Local
    BY <1>t, <1>7, <2>1, Zenon DEF Local
  <2>3. /\ c.pc = "fetch" /\ c.limit # 0 /\ c.page = p /\ c.pageEnd = end /\ c.truncated = more
        /\ c.cursor = call.cursor /\ c.last = call.last /\ c.items = call.items
    BY <1>t, <1>1 DEF Local
  <2>4. Placed(c, delivered)
    BY <1>1, <2>3 DEF Placed
  <2>5. OnPage(c)
    <3>1. Position(c) = Position(call)
      BY <2>3 DEF Position
    <3>2. \A k \in p : Position(call) < k
      BY <1>1, <1>2, <1>4, <2>1, Numbers
    <3> QED
      BY <1>7, <2>3, <3>1, <3>2 DEF OnPage
  <2>6. \A k \in stayed \cap Matching : Position(call) < k => InPage(c, k)
    <3> SUFFICES ASSUME NEW k \in stayed \cap Matching, Position(call) < k, k \notin p
                 PROVE  more /\ end < k
      BY <2>3 DEF InPage
    <3>1. k \in stored \ p /\ k > call.start
      BY <1>t, <1>1, <1>2, Numbers, ListAssumption
    <3> QED
      BY <1>4, <1>7, <3>1
  <2>7. AtWork(c, delivered)
    BY <1>5, <2>3, <2>4, <2>5, <2>6 DEF AtWork
  <2> HIDE DEF c
  <2>8. Proceed(c)
    BY <1>7 DEF c
  <2> QED
    BY <1>t, <1>1, <2>2, <2>3, <2>7, <2>8, ProceedKeeps
<1> QED
  BY <1>3, <1>6, <1>7

\* An envelope is read: the call goes on or answers, or its key has gone.
LEMMA ReadKeeps ==
  ASSUME TypeOK, IInv, ReadEnvelope
  PROVE  \/ IInv' /\ MovesFrom(call.cursor)
         \/ Overtaken /\ Fail
<1>t. call \in Local /\ delivered \in Seq(Keys) /\ call.items \in Seq(Keys) /\ stayed \subseteq stored
  BY DEF TypeOK, Local
<1>n. call.cursor \in Nat /\ call.last \in Nat /\ call.pageEnd \in Nat
  BY <1>t, Numbers DEF Local
<1>1. /\ call.pc = "read" /\ call.limit # 0 /\ OnPage(call) /\ stayed' = stayed
      /\ Placed(call, delivered)
  BY DEF ReadEnvelope, IInv
<1>2. ASSUME NEW k \in call.page, \A m \in call.page : k <= m, k \in stored,
             Proceed([call EXCEPT !.page = @ \ {k}, !.last = LastScanned(k),
                                  !.items = IF k \in Matching THEN Append(@, k) ELSE @])
      PROVE  IInv' /\ MovesFrom(call.cursor)
  <2> DEFINE t == IF k \in Matching THEN Append(call.items, k) ELSE call.items
             c == [call EXCEPT !.page = @ \ {k}, !.last = LastScanned(k),
                               !.items = IF k \in Matching THEN Append(@, k) ELSE @]
  <2>1. k \in Keys /\ k \in Nat /\ k # None /\ call.page \subseteq Keys
    BY <1>t, Numbers DEF Local, None
  <2>2. t \in Seq(Keys) /\ k \in Marks
    BY <1>t, <2>1 DEF Marks
  <2>3. c \in Local
    BY <1>t, <2>1, <2>2 DEF Local, LastScanned
  <2>4. /\ c.pc = "read" /\ c.limit # 0 /\ c.page = call.page \ {k} /\ c.pageEnd = call.pageEnd
        /\ c.truncated = call.truncated /\ c.cursor = call.cursor /\ c.last = k /\ c.items = t
    BY <1>t, <1>1 DEF Local, LastScanned
  <2> HIDE DEF c, t
  <2>5. Position(call) \in Nat /\ call.cursor <= Position(call) /\ Position(call) < k
    BY <1>n, <1>1, <1>2 DEF Position, Placed, OnPage
  <2>6. \A e \in Elements(call.items) : e \in Nat /\ call.cursor < e /\ e < k
    <3>1. \A e \in Elements(call.items) : e \in Nat /\ call.cursor < e /\ e <= call.last
      <4>1. Elements(call.items) \subseteq Keys
        BY <1>t DEF Elements
      <4> QED
        BY <1>1, <4>1, Numbers DEF Placed
    <3>2. ASSUME NEW e \in Elements(call.items) PROVE call.last = Position(call)
      BY <1>n, <3>1 DEF Position, None
    <3> QED
      BY <1>n, <2>1, <2>5, <3>1, <3>2
  <2>7. /\ Ordered(t) /\ Elements(call.items) \subseteq Elements(t)
        /\ Elements(t) \subseteq Elements(call.items) \cup {k}
        /\ k \in Matching => k \in Elements(t)
    BY <1>t, <1>1, <2>1, <2>6, Appended DEF t, Placed
  <2>8. call.cursor < k
    BY <1>n, <2>1, <2>5
  <2>9. Placed(c, delivered)
    <3>1. \A e \in Elements(t) : call.cursor < e /\ e <= k
      BY <2>1, <2>6, <2>7, <2>8
    <3> QED
      BY <1>1, <2>4, <2>7, <2>8, <3>1 DEF Placed
  <2>10. OnPage(c)
    <3>1. \A m \in call.page \ {k} : k < m
      BY <1>2, <2>1, Numbers
    <3>2. call.pageEnd \in call.page
      BY <1>1, <1>2 DEF OnPage
    <3>3. call.page \ {k} # {} => call.pageEnd # k
      <4> SUFFICES ASSUME NEW m \in call.page \ {k}, call.pageEnd = k PROVE FALSE
        OBVIOUS
      <4>1. m <= k /\ k < m /\ m \in Nat
        BY <1>1, <2>1, <3>1, Numbers DEF OnPage
      <4> QED
        BY <2>1, <4>1
    <3>4. \A m \in c.page : Position(c) < m /\ m <= c.pageEnd
      BY <1>1, <2>1, <2>4, <3>1 DEF OnPage, Position
    <3> QED
      BY <2>1, <2>4, <3>2, <3>3, <3>4 DEF OnPage
  <2>11. \A j \in stayed \cap Matching :
           j \in Elements(delivered) \cup Elements(t) \/ InPage(c, j)
    BY <1>1, <2>4, <2>7 DEF IInv, Ahead, InPage
  <2>12. AtWork(c, delivered)
    BY <2>4, <2>9, <2>10, <2>11 DEF AtWork
  <2>13. Proceed(c)
    BY <1>2 DEF c
  <2> QED
    BY <1>t, <1>1, <2>3, <2>4, <2>12, <2>13, ProceedKeeps
<1>3. ASSUME NEW k \in call.page, \A m \in call.page : k <= m, k \notin stored, Fail
      PROVE  Overtaken /\ Fail
  BY <1>1, <1>3 DEF Overtaken
<1> QED
  BY <1>2, <1>3 DEF ReadEnvelope

LEMMA Invariance == TypeOK /\ IInv /\ [Next]_vars => IInv'
<1> SUFFICES ASSUME TypeOK, IInv, [Next]_vars PROVE IInv'
  OBVIOUS
<1>t. call \in Local /\ delivered \in Seq(Keys) /\ call.items \in Seq(Keys) /\ stayed \subseteq stored
  BY DEF TypeOK, Local
<1>n. call.cursor \in Nat /\ call.last \in Nat /\ call.pageEnd \in Nat
  BY <1>t, Numbers DEF Local
<1>1. CASE StartCall
  <2>1. PICK n \in Limits : call' = [call EXCEPT !.pc = "fetch", !.limit = n, !.start = call.cursor]
    BY <1>1 DEF StartCall
  <2>2. /\ call'.pc = "fetch" /\ call'.limit = n /\ n # 0 /\ call'.start = call.cursor
        /\ call'.cursor = call.cursor /\ call'.items = call.items /\ call'.last = call.last
    BY <1>t, <2>1, ListAssumption DEF Local
  <2>3. call.items = <<>> /\ call.last = None /\ delivered' = delivered
    BY <1>1 DEF StartCall, IInv, Waiting
  <2>4. Placed(call, delivered)'
    BY <1>1, <2>2, <2>3 DEF StartCall, IInv, Placed
  <2>5. \A k \in stayed' \cap Matching : k \in Elements(delivered) \/ call.cursor < k
    <3>1. CASE call.pc = "new"
      BY <3>1, Numbers, ListAssumption DEF IInv
    <3>2. CASE call.pc = "between"
      BY <1>1, <2>3, <3>2, NothingElement DEF StartCall, IInv, Ahead, Position
    <3> QED
      BY <1>1, <3>1, <3>2 DEF StartCall
  <2> QED
    BY <2>2, <2>3, <2>4, <2>5 DEF IInv, Ahead, Position
<1>f. ASSUME call.pc \in {"fetch", "read"}, Fail, stayed' = stayed PROVE IInv'
  <2>1. call' = Waiting("between", call.cursor) /\ delivered' = delivered
    BY <1>f DEF Fail
  <2>2. call'.pc = "between" /\ call'.cursor = call.cursor /\ call'.last = None /\ call'.items = <<>>
    BY <2>1 DEF Waiting
  <2>3. Placed(call, delivered)'
    BY <1>f, <2>1, <2>2, NothingElement DEF IInv, Placed
  <2>4. \A k \in stayed \cap Matching : k \in Elements(delivered) \/ call.cursor < k
    <3> SUFFICES ASSUME NEW k \in stayed \cap Matching, k \notin Elements(delivered)
                 PROVE  call.cursor < k
      OBVIOUS
    <3>1. k \in Nat
      BY Numbers, ListAssumption
    <3>2. CASE k \in Elements(call.items)
      BY <3>2 DEF IInv, Placed
    <3>3. call.cursor <= Position(call)
      BY <1>n DEF IInv, Placed, Position
    <3>4. Position(call) \in Nat
      BY <1>n DEF Position
    <3>5. CASE Ahead(call, k)
      <4>1. CASE Position(call) < k
        BY <1>n, <3>1, <3>3, <3>4, <4>1
      <4>2. CASE call.pc = "read" /\ call.pageEnd < k
        <5>1. Position(call) < call.pageEnd
          BY <4>2 DEF IInv, OnPage
        <5> QED
          BY <1>n, <3>1, <3>3, <3>4, <4>2, <5>1
      <4> QED
        BY <3>5, <4>1, <4>2 DEF Ahead, InPage, IInv, OnPage
    <3> QED
      BY <3>2, <3>5 DEF IInv
  <2> QED
    BY <1>f, <2>1, <2>2, <2>3, <2>4 DEF IInv, Ahead, Position
<1>2. CASE FetchPage
  BY <1>2, FetchKeeps
<1>3. CASE ReadEnvelope
  BY <1>3, <1>f, ReadKeeps DEF ReadEnvelope
<1>4. CASE Interrupt
  BY <1>4, <1>f DEF Interrupt
<1>5. CASE \E k \in Keys : Publish(k) \/ Remove(k)
  <2>1. call' = call /\ delivered' = delivered /\ stayed' \subseteq stayed
    BY <1>5 DEF Publish, Remove
  <2>2. Placed(call, delivered)' /\ (OnPage(call)' <=> OnPage(call))
        /\ \A k : Ahead(call, k)' <=> Ahead(call, k)
    BY <2>1 DEF Placed, OnPage, Ahead, InPage, Position, IInv
  <2> QED
    BY <2>1, <2>2 DEF IInv
<1>6. CASE Finished \/ UNCHANGED vars
  <2>1. call' = call /\ delivered' = delivered /\ stayed' = stayed
    BY <1>6 DEF Finished, vars
  <2> QED
    BY <2>1 DEF IInv, Placed, OnPage, Ahead, InPage, Position
<1> QED
  BY <1>1, <1>2, <1>3, <1>4, <1>5, <1>6 DEF Next, List

LEMMA InvariantHolds == Spec => []IInv
<1>1. Init => IInv
  BY NothingElement DEF Init, IInv, Placed, Waiting
<1> QED
  BY <1>1, Invariance, TypesHold, PTL DEF Spec

-----------------------------------------------------------------------------
(* What a scan promises. *)

\* The cursor of _list skips no matching object that stayed: any number of pages,
\* limits, failed calls and changes by others.
THEOREM ScansAreComplete == Spec => []NothingSkipped
<1>1. TypeOK /\ IInv => NothingSkipped
  <2> SUFFICES ASSUME TypeOK, IInv, NEW k \in stayed \cap Matching,
                      call.pc = "done" \/ k <= call.cursor
               PROVE  k \in Elements(delivered)
    BY DEF NothingSkipped
  <2>1. call.cursor \in Nat /\ call.last \in Nat /\ call.pageEnd \in Nat /\ k \in Nat
    BY Numbers, ListAssumption DEF TypeOK, Local
  <2>2. CASE call.pc = "done"
    BY <2>2, NothingElement DEF IInv, Waiting, Ahead
  <2>3. CASE k <= call.cursor
    <3>1. k \notin Elements(call.items)
      BY <2>1, <2>3 DEF IInv, Placed
    <3>2. ~(Position(call) < k)
      BY <2>1, <2>3 DEF IInv, Placed, Position
    <3>3. ASSUME call.pc = "read" PROVE ~(call.pageEnd < k)
      <4>1. Position(call) < call.pageEnd
        BY <3>3 DEF IInv, OnPage
      <4> QED
        BY <2>1, <3>2, <4>1 DEF Position
    <3> QED
      BY <3>1, <3>2, <3>3 DEF IInv, Ahead, InPage, OnPage
  <2> QED
    BY <2>2, <2>3
<1> QED
  BY <1>1, InvariantHolds, TypesHold, PTL

\* _list hands out keys in order over all calls of a scan, so none twice.
THEOREM ListingIsOrdered == Spec => []InOrder
<1>1. TypeOK /\ IInv => InOrder
  <2> SUFFICES ASSUME TypeOK, IInv PROVE InOrder
    OBVIOUS
  <2>1. CASE call.pc = "done"
    <3>1. call.items = <<>> /\ delivered \in Seq(Keys) /\ Ordered(delivered)
      BY <2>1 DEF IInv, Waiting, Placed, TypeOK
    <3>2. delivered \o <<>> = delivered
      BY <3>1
    <3> QED
      BY <3>1, <3>2 DEF InOrder, Ordered
  <2>2. CASE call.pc # "done"
    BY <2>2, Returned DEF IInv, TypeOK, InOrder, Ordered
  <2> QED
    BY <2>1, <2>2
<1> QED
  BY <1>1, InvariantHolds, TypesHold, PTL

\* Every call of _list that answers with a cursor has moved it on, so a scan that
\* is not overtaken by deletes and does not fail gets on with every call.
THEOREM CursorsAdvance == Spec => CursorAdvances
<1>1. TypeOK /\ IInv /\ [Next]_vars =>
        [call.pc \in {"fetch", "read"} /\ call'.pc = "between" =>
           call.cursor < call'.cursor \/ Overtaken \/ faults < faults']_vars
  <2> SUFFICES ASSUME TypeOK, IInv, [Next]_vars,
                      call.pc \in {"fetch", "read"}, call'.pc = "between"
               PROVE  call.cursor < call'.cursor \/ Overtaken \/ faults < faults'
    OBVIOUS
  <2>1. CASE FetchPage
    BY <2>1, FetchKeeps DEF MovesFrom
  <2>2. CASE ReadEnvelope
    BY <2>2, ReadKeeps DEF MovesFrom
  <2>3. CASE Interrupt
    BY <2>3 DEF Interrupt, TypeOK
  <2>4. CASE StartCall
    BY <2>4 DEF StartCall
  <2>5. CASE (\E k \in Keys : Publish(k) \/ Remove(k)) \/ Finished \/ UNCHANGED vars
    BY <2>5 DEF Publish, Remove, Finished, vars
  <2> QED
    BY <2>1, <2>2, <2>3, <2>4, <2>5 DEF Next, List
<1> QED
  BY <1>1, InvariantHolds, TypesHold, PTL DEF Spec, CursorAdvances
=============================================================================
