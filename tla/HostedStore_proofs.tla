--------------------------- MODULE HostedStore_proofs ---------------------------
(***************************************************************************)
(* Theorems about parts that share rows of the hosted store: the outbox,   *)
(* whose order rests on every writer holding the row of the lease, with    *)
(* the streams that follow it; the writer epoch that the lease carries;    *)
(* and the capacity worker, which works under a delegation of it. For any  *)
(* number of writers, viewers, coordinators, workers, mutations in flight  *)
(* and crashes.                                                            *)
(***************************************************************************)
EXTENDS HostedFence, EventStream, CapacityController, FiniteSetTheorems,
        SequenceTheorems, WellFoundedInduction, TLAPS
-----------------------------------------------------------------------------
(* The outbox and its streams.  A committed id, and every id that a viewer or its
   stream has seen, lies before every id of a transaction that is still open (Past),
   because only one is open at a time; so what commits never lies behind a viewer. *)

Event == [id : Nat \ {0}, audience : Viewers \cup {Everyone}, class : {"audit", "safety"}]
Phases == {"ended", "admitted", "ready", "idle", "page"}
StreamState == [pc : Phases, id : Nat, cursor : Nat, page : SUBSET Nat, gone : BOOLEAN]

PastIn(x, n, rows) == x \in Nat /\ x <= n /\ \A w \in Writers : \A e \in rows[w] : x < e.id
Past(x) == PastIn(x, sequence, pending)

(* of the events of v up to x none is missing in ids *)
CompleteIn(v, x, ids, rows) == \A e \in rows : Visible(v, e) /\ e.id <= x => e.id \in ids
Complete(v, x, ids) == CompleteIn(v, x, ids, outbox)

RowsInv ==
  /\ sequence \in Nat
  /\ \A w, x \in writing : w = x
  /\ pending \in [Writers -> SUBSET Event]
  /\ \A w \in Writers : /\ w \notin writing => pending[w] = {}
                        /\ \A e \in pending[w] : e.id <= sequence
  /\ outbox \subseteq Event
  /\ \A e \in outbox : Past(e.id)

Delivered(v, w, g) ==
  /\ w \in Seq(Nat) /\ g \subseteq Nat
  /\ \A x \in g : Past(x) /\ Complete(v, x, g)
  /\ \A i \in DOMAIN w : Past(w[i]) /\ Complete(v, w[i], g \cup {w[j] : j \in 1 .. i})

InService(v, s, w, g) ==
  /\ s \in StreamState /\ Past(s.cursor)
  /\ s.pc = "admitted" => w = <<>>
  /\ s.pc # "ended" => Complete(v, s.cursor, g \cup {w[j] : j \in 1 .. Len(w)})
  /\ s.pc = "page" <=> s.page # {}
  /\ \A x \in s.page :
       /\ Past(x) /\ s.cursor < x
       /\ \A e \in outbox : Visible(v, e) /\ s.cursor < e.id /\ e.id <= x => e.id \in s.page

Follows(v, s, w, g) == Delivered(v, w, g) /\ InService(v, s, w, g)

StreamInv ==
  /\ RowsInv
  /\ stream \in [Viewers -> StreamState]
  /\ wire \in [Viewers -> Seq(Nat)] /\ got \in [Viewers -> SUBSET Nat]
  /\ \A v \in Viewers : Follows(v, stream[v], wire[v], got[v])

LEMMA NothingIsPast ==
  ASSUME RowsInv
  PROVE  Past(0) /\ \A v, ids : Complete(v, 0, ids)
<1>1. \A w \in Writers : \A e \in pending[w] : e \in Event
  BY DEF RowsInv
<1>2. \A e \in Event : e.id \in Nat /\ e.id > 0
  BY DEF Event
<1>3. Past(0)
  <2>1. sequence \in Nat
    BY DEF RowsInv
  <2>2. \A w \in Writers : \A e \in pending[w] : 0 < e.id
    BY <1>1, <1>2
  <2> QED
    BY <2>1, <2>2 DEF Past, PastIn
<1>4. \A e \in outbox : ~(e.id <= 0)
  BY <1>2 DEF RowsInv
<1> QED
  BY <1>3, <1>4 DEF Complete, CompleteIn

LEMMA StreamStarts == StreamInit => StreamInv
<1> SUFFICES ASSUME StreamInit PROVE StreamInv
  OBVIOUS
<1>1. RowsInv
  BY DEF StreamInit, RowsInv
<1>2. Past(0)
  BY <1>1, NothingIsPast
<1>3. ASSUME NEW v \in Viewers PROVE Follows(v, Ended, <<>>, {})
  <2>1. Delivered(v, <<>>, {})
    BY DEF Delivered
  <2>2. Ended \in StreamState /\ Ended.cursor = 0 /\ Ended.pc = "ended" /\ Ended.page = {}
    BY DEF Ended, StreamState, Phases
  <2> QED
    BY <1>2, <2>1, <2>2 DEF InService, Follows
<1>4. Ended \in StreamState /\ <<>> \in Seq(Nat)
  BY DEF Ended, StreamState, Phases
<1> QED
  BY <1>1, <1>3, <1>4 DEF StreamInit, StreamInv

(* Writers and retention: what was past is past, and what was complete still is. *)
WriterStep ==
  \/ \E w \in Writers : Begin(w) \/ Insert(w) \/ End(w)
  \/ Reap \/ \E i \in Ids : ResolveSafetyEvent(i)

LEMMA WritersStep ==
  ASSUME RowsInv, WriterStep
  PROVE  /\ RowsInv'
         /\ \A x : Past(x) => PastIn(x, sequence', pending')
         /\ \A e \in outbox' : e \in outbox \/ \A x : Past(x) => ~(e.id <= x)
<1>1. /\ sequence \in Nat /\ outbox \subseteq Event /\ pending \in [Writers -> SUBSET Event]
      /\ \A w, x \in writing : w = x
      /\ \A w \in Writers : w \notin writing => pending[w] = {}
      /\ \A w \in Writers : \A e \in pending[w] : e.id <= sequence /\ e.id \in Nat /\ e \in Event
      /\ \A e \in outbox : Past(e.id)
  BY DEF RowsInv, Event
<1>2. ASSUME NEW w \in Writers, Begin(w)
      PROVE  /\ RowsInv' /\ \A x : Past(x) => PastIn(x, sequence', pending')
             /\ outbox' = outbox
  <2>1. /\ writing' = {w} /\ sequence' = sequence /\ pending' = pending /\ outbox' = outbox
    BY <1>2 DEF Begin, Unlocked
  <2>2. writing = {}
    BY <1>2 DEF Begin, Unlocked
  <2> QED
    BY <1>1, <2>1, <2>2 DEF RowsInv, Past
<1>3. ASSUME NEW w \in Writers, Insert(w)
      PROVE  /\ RowsInv' /\ \A x : Past(x) => PastIn(x, sequence', pending')
             /\ outbox' = outbox
  <2>1. PICK t \in Topics :
          pending' = [pending EXCEPT ![w] =
            @ \cup {[id |-> sequence', audience |-> t.audience, class |-> t.class]}]
    BY <1>3 DEF Insert
  <2>2. /\ writing' = writing /\ sequence' = sequence + 1 /\ outbox' = outbox /\ w \in writing
    BY <1>3 DEF Insert
  <2> DEFINE e == [id |-> sequence + 1, audience |-> t.audience, class |-> t.class]
  <2>3. e \in Event /\ e.id = sequence + 1
    <3>1. t.audience \in Viewers \cup {Everyone} /\ t.class \in {"audit", "safety"}
      BY EventStreamAssumption
    <3>2. sequence + 1 \in Nat \ {0}
      BY <1>1
    <3> QED
      BY <3>1, <3>2 DEF Event
  <2> HIDE DEF e
  <2>4. pending' = [pending EXCEPT ![w] = @ \cup {e}]
    BY <2>1, <2>2 DEF e
  <2>5. /\ pending' \in [Writers -> SUBSET Event]
        /\ \A x \in Writers : pending'[x] = IF x = w THEN pending[x] \cup {e} ELSE pending[x]
    BY <1>1, <2>3, <2>4
  <2>6. \A x \in Writers : \A y \in pending'[x] : y.id <= sequence + 1
    BY <1>1, <2>3, <2>5
  <2>7. ASSUME NEW x, Past(x) PROVE PastIn(x, sequence', pending')
    <3>1. x \in Nat /\ x <= sequence /\ \A u \in Writers : \A y \in pending[u] : x < y.id
      BY <2>7 DEF Past, PastIn
    <3>2. x < e.id /\ x <= sequence + 1
      BY <1>1, <2>3, <3>1
    <3> QED
      BY <2>2, <2>5, <3>1, <3>2 DEF PastIn
  <2>8. RowsInv'
    <3>1. \A x \in Writers : x \notin writing' => pending'[x] = {}
      BY <1>1, <2>2, <2>5
    <3>2. \A y \in outbox' : PastIn(y.id, sequence', pending')
      BY <1>1, <2>2, <2>7
    <3>3. sequence' \in Nat
      BY <1>1, <2>2
    <3> QED
      BY <1>1, <2>2, <2>5, <2>6, <3>1, <3>2, <3>3 DEF RowsInv, Past
  <2> QED
    BY <2>2, <2>7, <2>8
<1>4. ASSUME NEW w \in Writers, End(w)
      PROVE  /\ RowsInv' /\ \A x : Past(x) => PastIn(x, sequence', pending')
             /\ \A e \in outbox' : e \in outbox \/ \A x : Past(x) => ~(e.id <= x)
  <2>1. /\ w \in writing /\ writing' = writing \ {w} /\ pending' = [pending EXCEPT ![w] = {}]
        /\ outbox' \in {outbox, outbox \cup pending[w]} /\ sequence' = sequence
    BY <1>4 DEF End
  <2>2. /\ pending' \in [Writers -> SUBSET Event]
        /\ \A x \in Writers : pending'[x] = {}
    <3>1. \A x \in Writers : x # w => pending[x] = {}
      BY <1>1, <2>1
    <3> QED
      BY <1>1, <2>1, <3>1
  <2>3. ASSUME NEW x, Past(x) PROVE PastIn(x, sequence', pending')
    BY <2>1, <2>2, <2>3 DEF Past, PastIn
  <2>4. \A e \in outbox' : e \in outbox \/ e \in pending[w]
    BY <2>1
  <2>5. ASSUME NEW e \in pending[w], NEW x, Past(x) PROVE ~(e.id <= x)
    <3>1. x \in Nat /\ x < e.id /\ e.id \in Nat
      BY <1>1, <2>5 DEF Past, PastIn
    <3> QED
      BY <3>1
  <2>6. \A e \in outbox' : PastIn(e.id, sequence', pending')
    <3>1. ASSUME NEW e \in pending[w] PROVE PastIn(e.id, sequence', pending')
      BY <1>1, <2>1, <2>2 DEF PastIn
    <3> QED
      BY <1>1, <2>3, <2>4, <3>1
  <2>7. RowsInv'
    <3>1. outbox' \subseteq Event
      BY <1>1, <2>4
    <3>2. \A u, x \in writing' : u = x
      BY <1>1, <2>1
    <3> QED
      BY <1>1, <2>1, <2>2, <2>6, <3>1, <3>2 DEF RowsInv, Past
  <2> QED
    BY <2>3, <2>4, <2>5, <2>7
<1>5. ASSUME Reap \/ \E i \in Ids : ResolveSafetyEvent(i)
      PROVE  /\ RowsInv' /\ \A x : Past(x) => PastIn(x, sequence', pending')
             /\ outbox' \subseteq outbox
  <2>1. sequence' = sequence /\ writing' = writing /\ pending' = pending
    BY <1>5 DEF Reap, ResolveSafetyEvent, log
  <2>2. outbox' \subseteq outbox
    BY <1>5 DEF Reap, ResolveSafetyEvent, log
  <2> QED
    BY <1>1, <2>1, <2>2 DEF RowsInv, Past
<1> QED
  BY <1>2, <1>3, <1>4, <1>5 DEF WriterStep

LEMMA WritersKeepStreams ==
  ASSUME StreamInv, WriterStep
  PROVE  StreamInv'
<1>1. /\ RowsInv'
      /\ \A x : Past(x) => PastIn(x, sequence', pending')
      /\ \A e \in outbox' : e \in outbox \/ \A x : Past(x) => ~(e.id <= x)
  BY WritersStep DEF StreamInv
<1>2. stream' = stream /\ wire' = wire /\ got' = got
  BY DEF WriterStep, Begin, Insert, End, Reap, ResolveSafetyEvent, viewer
<1>3. \A v, x, ids : Past(x) /\ Complete(v, x, ids) => CompleteIn(v, x, ids, outbox')
  BY <1>1 DEF Complete, CompleteIn
<1>4. ASSUME NEW v \in Viewers
      PROVE  Follows(v, stream[v], wire[v], got[v])'
  <2>1. Follows(v, stream[v], wire[v], got[v])
    BY DEF StreamInv
  <2> DEFINE s == stream[v]
             w == wire[v]
             g == got[v]
  <2>2. /\ w \in Seq(Nat) /\ g \subseteq Nat
        /\ \A x \in g : PastIn(x, sequence', pending') /\ CompleteIn(v, x, g, outbox')
        /\ \A i \in DOMAIN w : /\ PastIn(w[i], sequence', pending')
                               /\ CompleteIn(v, w[i], g \cup {w[j] : j \in 1 .. i}, outbox')
    BY <1>1, <1>3, <2>1 DEF Follows, Delivered
  <2>3. Delivered(v, wire[v], got[v])'
    BY <1>2, <2>2 DEF Delivered, Past, Complete
  <2>4. /\ s \in StreamState /\ Past(s.cursor) /\ PastIn(s.cursor, sequence', pending')
        /\ s.pc = "admitted" => w = <<>>
        /\ s.pc # "ended" => CompleteIn(v, s.cursor, g \cup {w[j] : j \in 1 .. Len(w)}, outbox')
        /\ s.pc = "page" <=> s.page # {}
    BY <1>1, <1>3, <2>1 DEF Follows, InService
  <2>5. ASSUME NEW x \in s.page
        PROVE  /\ PastIn(x, sequence', pending') /\ s.cursor < x
               /\ \A e \in outbox' : Visible(v, e) /\ s.cursor < e.id /\ e.id <= x => e.id \in s.page
    <3>1. /\ Past(x) /\ s.cursor < x
          /\ \A e \in outbox : Visible(v, e) /\ s.cursor < e.id /\ e.id <= x => e.id \in s.page
      BY <2>1 DEF Follows, InService
    <3> QED
      BY <1>1, <3>1
  <2>6. InService(v, stream[v], wire[v], got[v])'
    BY <1>2, <2>4, <2>5 DEF InService, Past, Complete
  <2> QED
    BY <2>3, <2>6 DEF Follows
<1> QED
  BY <1>1, <1>2, <1>4 DEF StreamInv

LEMMA LeastNatural ==
  ASSUME NEW S \in SUBSET Nat, S # {}
  PROVE  \E m \in S : \A x \in S : m <= x
<1> DEFINE R == {p \in Nat \X Nat : p[1] < p[2]}
<1>1. IsWellFoundedOn(R, Nat)
  BY NatLessThanWellFounded DEF OpToRel
<1> HIDE DEF R
<1>2. PICK m \in S : \A y \in S : ~(<<y, m>> \in R)
  BY <1>1, WFMin
<1>3. ASSUME NEW y \in S PROVE m <= y
  <2>1. ~(<<y, m>> \in R) /\ <<y, m>> \in Nat \X Nat
    BY <1>2
  <2>2. ~(y < m)
    BY <2>1 DEF R
  <2> QED
    BY <2>2
<1> QED
  BY <1>3

LEMMA LargestOfBounded ==
  ASSUME NEW S \in SUBSET Nat, S # {}, NEW b \in Nat, \A x \in S : x <= b
  PROVE  Max(S) \in S /\ \A x \in S : Max(S) >= x
<1>1. PICK m \in Nat : (\A x \in S : x <= m) /\ \A n \in Nat : (\A x \in S : x <= n) => m <= n
  <2> DEFINE U == {n \in Nat : \A x \in S : x <= n}
  <2>1. b \in U /\ U \subseteq Nat
    OBVIOUS
  <2>2. \E m \in U : \A n \in U : m <= n
    <3> HIDE DEF U
    <3> QED
      BY <2>1, LeastNatural
  <2> QED
    BY <2>2
<1>2. m \in Nat /\ \A x \in S : x <= m
  BY <1>1
<1>3. m \in S
  <2> SUFFICES ASSUME m \notin S PROVE FALSE
    OBVIOUS
  <2>1. PICK x \in S : TRUE
    OBVIOUS
  <2>2. x < m /\ m - 1 \in Nat
    BY <1>2, <2>1
  <2>3. \A y \in S : y <= m - 1
    BY <1>2, <2>2
  <2> QED
    BY <1>1, <1>2, <2>2, <2>3
<1>4. m \in S /\ \A y \in S : m >= y
  BY <1>2, <1>3
<1>5. \E x \in S : \A y \in S : x >= y
  BY <1>4
<1> QED
  BY <1>5 DEF Max

(* what EXCEPT leaves of a record *)
LEMMA SameState ==
  ASSUME NEW s \in StreamState, NEW t \in StreamState,
         s.pc = t.pc, s.id = t.id, s.cursor = t.cursor, s.page = t.page, s.gone = t.gone
  PROVE  s = t
<1> DEFINE flags == BOOLEAN
<1>1. s \in [pc : Phases, id : Nat, cursor : Nat, page : SUBSET Nat, gone : flags]
  BY DEF StreamState
<1>2. t \in [pc : Phases, id : Nat, cursor : Nat, page : SUBSET Nat, gone : flags]
  BY DEF StreamState
<1> HIDE DEF flags
<1> QED
  BY <1>1, <1>2

LEMMA MovesCursor ==
  ASSUME NEW s \in StreamState, NEW p \in Phases, NEW c \in Nat
  PROVE  [s EXCEPT !.pc = p, !.cursor = c]
           = [pc |-> p, id |-> s.id, cursor |-> c, page |-> s.page, gone |-> s.gone]
<1> DEFINE t == [s EXCEPT !.pc = p, !.cursor = c]
           u == [pc |-> p, id |-> s.id, cursor |-> c, page |-> s.page, gone |-> s.gone]
<1>1. t \in StreamState /\ u \in StreamState
  BY DEF StreamState
<1>2. t.pc = u.pc /\ t.id = u.id /\ t.cursor = u.cursor /\ t.page = u.page /\ t.gone = u.gone
  BY DEF StreamState
<1> HIDE DEF t, u
<1>3. t = u
  BY <1>1, <1>2, SameState
<1> QED
  BY <1>3 DEF t, u

LEMMA TurnsPage ==
  ASSUME NEW s \in StreamState, NEW p \in Phases, NEW ids \in SUBSET Nat
  PROVE  [s EXCEPT !.pc = p, !.page = ids]
           = [pc |-> p, id |-> s.id, cursor |-> s.cursor, page |-> ids, gone |-> s.gone]
<1> DEFINE t == [s EXCEPT !.pc = p, !.page = ids]
           u == [pc |-> p, id |-> s.id, cursor |-> s.cursor, page |-> ids, gone |-> s.gone]
<1>1. t \in StreamState /\ u \in StreamState
  BY DEF StreamState
<1>2. t.pc = u.pc /\ t.id = u.id /\ t.cursor = u.cursor /\ t.page = u.page /\ t.gone = u.gone
  BY DEF StreamState
<1> HIDE DEF t, u
<1>3. t = u
  BY <1>1, <1>2, SameState
<1> QED
  BY <1>3 DEF t, u

LEMMA IsGone ==
  ASSUME NEW s \in StreamState
  PROVE  [s EXCEPT !.gone = TRUE]
           = [pc |-> s.pc, id |-> s.id, cursor |-> s.cursor, page |-> s.page, gone |-> TRUE]
<1> DEFINE g == TRUE
<1> HIDE DEF g
<1>1. [s EXCEPT !.gone = g]
        = [pc |-> s.pc, id |-> s.id, cursor |-> s.cursor, page |-> s.page, gone |-> g]
  BY DEF StreamState
<1> QED
  BY <1>1 DEF g

LEMMA SmallestOf ==
  ASSUME NEW S \in SUBSET Nat, S # {}
  PROVE  Min(S) \in S /\ \A x \in S : Min(S) <= x
<1>1. \E m \in S : \A x \in S : m <= x
  BY LeastNatural
<1> QED
  BY <1>1 DEF Min

-----------------------------------------------------------------------------
(* Streams.  A step of a viewer's stream changes what follows of it, and no row. *)

LEMMA ViewerMoves ==
  ASSUME StreamInv, UNCHANGED log, NEW v \in Viewers, NEW s, NEW w, NEW g, Follows(v, s, w, g),
         stream' = [stream EXCEPT ![v] = s], wire' = [wire EXCEPT ![v] = w],
         got' = [got EXCEPT ![v] = g]
  PROVE  StreamInv'
<1>1. sequence' = sequence /\ writing' = writing /\ pending' = pending /\ outbox' = outbox
  BY DEF log
<1>2. /\ stream' \in [Viewers -> StreamState]
      /\ wire' \in [Viewers -> Seq(Nat)] /\ got' \in [Viewers -> SUBSET Nat]
      /\ \A u \in Viewers : /\ stream'[u] = IF u = v THEN s ELSE stream[u]
                            /\ wire'[u] = IF u = v THEN w ELSE wire[u]
                            /\ got'[u] = IF u = v THEN g ELSE got[u]
  <2>1. s \in StreamState /\ w \in Seq(Nat) /\ g \in SUBSET Nat
    BY DEF Follows, Delivered, InService
  <2> QED
    BY <2>1 DEF StreamInv
<1>3. \A u \in Viewers : Follows(u, stream'[u], wire'[u], got'[u])
  BY <1>2 DEF StreamInv
<1>4. \A u \in Viewers : Follows(u, stream[u], wire[u], got[u])'
  <2> SUFFICES ASSUME NEW u \in Viewers PROVE Follows(u, stream[u], wire[u], got[u])'
    OBVIOUS
  <2>1. Follows(u, stream'[u], wire'[u], got'[u])
    BY <1>3
  <2>2. Delivered(u, wire[u], got[u])'
    BY <1>1, <2>1 DEF Follows, Delivered, Past, Complete
  <2>3. InService(u, stream[u], wire[u], got[u])'
    BY <1>1, <2>1 DEF Follows, InService, Past, Complete
  <2> QED
    BY <2>2, <2>3 DEF Follows
<1>5. RowsInv'
  BY <1>1 DEF StreamInv, RowsInv, Past
<1> QED
  BY <1>2, <1>4, <1>5 DEF StreamInv

LEMMA NothingOnTheWire ==
  ASSUME NEW v, NEW w, NEW g, Delivered(v, w, g)
  PROVE  Delivered(v, <<>>, g)
BY DEF Delivered

(* A stream that has ended. *)
LEMMA EndedFollows ==
  ASSUME RowsInv, NEW v, NEW w, NEW g, Delivered(v, w, g)
  PROVE  Follows(v, Ended, w, g)
<1>1. Ended \in StreamState /\ Ended.cursor = 0 /\ Ended.pc = "ended" /\ Ended.page = {}
  BY DEF Ended, StreamState, Phases
<1>2. Past(0)
  BY NothingIsPast
<1> QED
  BY <1>1, <1>2 DEF InService, Follows

LEMMA WireGrows ==
  ASSUME NEW v, NEW w, NEW g, NEW x, Delivered(v, w, g), Past(x),
         Complete(v, x, g \cup {w[j] : j \in 1 .. Len(w)} \cup {x})
  PROVE  /\ Delivered(v, Append(w, x), g)
         /\ {Append(w, x)[j] : j \in 1 .. Len(Append(w, x))} = {w[j] : j \in 1 .. Len(w)} \cup {x}
<1> DEFINE y == Append(w, x)
<1>1. w \in Seq(Nat) /\ x \in Nat /\ Len(w) \in Nat
  BY DEF Delivered, Past, PastIn
<1>2. /\ y \in Seq(Nat) /\ Len(y) = Len(w) + 1 /\ DOMAIN y = 1 .. (Len(w) + 1)
      /\ \A i \in 1 .. Len(w) : y[i] = w[i]
      /\ y[Len(w) + 1] = x
  BY <1>1, AppendProperties
<1> HIDE DEF y
<1>3. {y[j] : j \in 1 .. Len(y)} = {w[j] : j \in 1 .. Len(w)} \cup {x}
  <2>1. \A j \in 1 .. Len(y) : j \in 1 .. Len(w) \/ j = Len(w) + 1
    BY <1>1, <1>2
  <2>2. \A j \in 1 .. Len(w) : j \in 1 .. Len(y)
    BY <1>1, <1>2
  <2>3. Len(w) + 1 \in 1 .. Len(y)
    BY <1>1, <1>2
  <2> QED
    BY <1>2, <2>1, <2>2, <2>3
<1>4. ASSUME NEW i \in DOMAIN y
      PROVE  Past(y[i]) /\ Complete(v, y[i], g \cup {y[j] : j \in 1 .. i})
  <2>1. CASE i = Len(w) + 1
    BY <1>2, <1>3, <2>1 DEF Complete, CompleteIn
  <2>2. CASE i # Len(w) + 1
    <3>1. i \in DOMAIN w /\ i \in Nat /\ i <= Len(w) /\ DOMAIN w = 1 .. Len(w)
      BY <1>1, <1>2, <2>2
    <3>2. Past(w[i]) /\ Complete(v, w[i], g \cup {w[j] : j \in 1 .. i})
      BY <3>1 DEF Delivered
    <3>3. {y[j] : j \in 1 .. i} = {w[j] : j \in 1 .. i}
      <4>1. \A j \in 1 .. i : j \in 1 .. Len(w)
        BY <1>1, <3>1
      <4> QED
        BY <1>2, <4>1
    <3> QED
      BY <1>2, <3>1, <3>2, <3>3
  <2> QED
    BY <2>1, <2>2
<1>5. Delivered(v, y, g)
  BY <1>2, <1>4 DEF Delivered
<1> QED
  BY <1>3, <1>5 DEF y

LEMMA LastSeenType ==
  ASSUME StreamInv, NEW v \in Viewers
  PROVE  /\ LastSeen(v) \in got[v] \cup {0} /\ Past(LastSeen(v))
         /\ Complete(v, LastSeen(v), got[v])
<1>1. /\ got[v] \subseteq Nat /\ sequence \in Nat /\ RowsInv
      /\ \A x \in got[v] : Past(x) /\ Complete(v, x, got[v])
  BY DEF StreamInv, Follows, Delivered, RowsInv
<1>2. \A x \in got[v] \cup {0} : x \in Nat /\ x <= sequence
  BY <1>1 DEF Past, PastIn
<1>3. Max(got[v] \cup {0}) \in got[v] \cup {0}
  BY <1>1, <1>2, LargestOfBounded
<1> QED
  BY <1>1, <1>3, NothingIsPast DEF LastSeen

LEMMA ConnectFollows ==
  ASSUME StreamInv, NEW v \in Viewers, Connect(v)
  PROVE  StreamInv'
<1>1. Follows(v, stream[v], wire[v], got[v]) /\ RowsInv
  BY DEF StreamInv
<1>2. UNCHANGED log /\ got' = got
  BY DEF Connect
<1>3. CASE UNCHANGED <<stream, wire>>
  <2>1. /\ stream' = [stream EXCEPT ![v] = stream[v]] /\ wire' = [wire EXCEPT ![v] = wire[v]]
        /\ got' = [got EXCEPT ![v] = got[v]]
    BY <1>2, <1>3 DEF StreamInv
  <2> QED
    BY <1>1, <1>2, <2>1, ViewerMoves
<1>4. CASE ~UNCHANGED <<stream, wire>>
  <2> DEFINE s == [pc |-> "admitted", id |-> Min(Unused), cursor |-> LastSeen(v),
                   page |-> {}, gone |-> FALSE]
  <2>1. /\ stream' = [stream EXCEPT ![v] = s] /\ wire' = [wire EXCEPT ![v] = <<>>]
        /\ Unused # {}
    BY <1>4 DEF Connect, Change, Ended
  <2>2. Min(Unused) \in Nat
    <3>1. Unused \subseteq Nat
      BY DEF Unused, Connections
    <3> QED
      BY <2>1, <3>1, SmallestOf
  <2>3. Past(LastSeen(v)) /\ Complete(v, LastSeen(v), got[v]) /\ LastSeen(v) \in Nat
    BY LastSeenType DEF Past, PastIn
  <2>4. InService(v, s, <<>>, got[v])
    <3>1. s \in StreamState
      BY <2>2, <2>3 DEF StreamState, Phases
    <3>2. Complete(v, LastSeen(v), got[v] \cup {<<>>[j] : j \in 1 .. Len(<<>>)})
      BY <2>3 DEF Complete, CompleteIn
    <3> QED
      BY <2>3, <3>1, <3>2 DEF InService
  <2>5. Follows(v, s, <<>>, got[v])
    BY <1>1, <2>4, NothingOnTheWire DEF Follows
  <2>6. got' = [got EXCEPT ![v] = got[v]]
    BY <1>2 DEF StreamInv
  <2> HIDE DEF s
  <2> QED
    BY <1>2, <2>1, <2>5, <2>6, ViewerMoves
<1> QED
  BY <1>3, <1>4

LEMMA BoundsFollow ==
  ASSUME StreamInv, NEW v \in Viewers, OutboxBounds(v)
  PROVE  StreamInv'
<1> DEFINE s == stream[v]
           seen == {e.id : e \in {x \in outbox : Visible(v, x)}}
           behind == s.cursor # 0 /\ seen # {} /\ s.cursor < Min(seen)
           c == IF behind THEN Min(seen) - 1 ELSE s.cursor
           t == [pc |-> "ready", id |-> s.id, cursor |-> c, page |-> {}, gone |-> s.gone]
           w == IF behind /\ ~s.gone THEN Append(wire[v], Refetch) ELSE wire[v]
<1>1. /\ RowsInv /\ Delivered(v, wire[v], got[v]) /\ InService(v, s, wire[v], got[v])
      /\ s.pc = "admitted" /\ s \in StreamState /\ s.page = {} /\ wire[v] = <<>>
  BY DEF StreamInv, Follows, InService, OutboxBounds
<1>2. /\ Past(s.cursor) /\ Complete(v, s.cursor, got[v] \cup {wire[v][j] : j \in 1 .. Len(wire[v])})
  BY <1>1 DEF InService
<1>3. Past(c) /\ \A ids : Complete(v, s.cursor, ids) => Complete(v, c, ids)
  <2>1. CASE behind
    <3>1. seen \subseteq Nat
      BY <1>1 DEF RowsInv, Event
    <3>2. Min(seen) \in seen /\ \A x \in seen : Min(seen) <= x /\ x \in Nat
      BY <2>1, <3>1, SmallestOf
    <3>3. Past(Min(seen)) /\ Min(seen) \in Nat
      BY <1>1, <3>1, <3>2 DEF RowsInv
    <3>4. s.cursor \in Nat /\ s.cursor < Min(seen)
      BY <1>1, <2>1 DEF StreamState, Phases
    <3>5. c \in Nat /\ c < Min(seen) /\ c = Min(seen) - 1
      BY <2>1, <3>3, <3>4
    <3>6. Past(c)
      <4>1. \A u \in Writers : \A e \in pending[u] : e.id \in Nat
        BY <1>1 DEF RowsInv, Event
      <4>2. \A u \in Writers : \A e \in pending[u] : Min(seen) < e.id
        BY <3>3 DEF Past, PastIn
      <4>3. sequence \in Nat /\ Min(seen) <= sequence
        BY <1>1, <3>3 DEF RowsInv, Past, PastIn
      <4> HIDE DEF c, seen
      <4> QED
        BY <3>3, <3>5, <4>1, <4>2, <4>3 DEF Past, PastIn
    <3>7. ASSUME NEW e \in outbox, Visible(v, e) PROVE ~(e.id <= c)
      <4>1. e.id \in seen
        BY <3>7
      <4>2. Min(seen) <= e.id /\ e.id \in Nat
        BY <3>2, <4>1
      <4> QED
        BY <3>3, <3>5, <4>2
    <3> QED
      BY <3>6, <3>7 DEF Complete, CompleteIn
  <2>2. CASE ~behind
    BY <1>2, <2>2
  <2> QED
    BY <2>1, <2>2
<1>4. /\ stream' = [stream EXCEPT ![v] = t] /\ wire' = [wire EXCEPT ![v] = w]
      /\ UNCHANGED log /\ got' = [got EXCEPT ![v] = got[v]]
  <2>2. stream' = [stream EXCEPT ![v] = [s EXCEPT !.pc = "ready", !.cursor = c]]
    BY DEF OutboxBounds, Change
  <2>3. [s EXCEPT !.pc = "ready", !.cursor = c] = t
    <3>1. s.page = {}
      BY <1>1
    <3> HIDE DEF c, s
    <3>2. [s EXCEPT !.pc = "ready", !.cursor = c]
            = [pc |-> "ready", id |-> s.id, cursor |-> c, page |-> s.page, gone |-> s.gone]
      <4>1. c \in Nat
        BY <1>3 DEF Past, PastIn
      <4> QED
        BY <1>1, <4>1, MovesCursor DEF Phases
    <3> QED
      BY <3>1, <3>2
  <2>4. wire' = [wire EXCEPT ![v] = w]
    <3>1. wire' = IF behind /\ ~s.gone THEN [wire EXCEPT ![v] = Append(@, Refetch)] ELSE wire
      BY DEF OutboxBounds
    <3>2. wire = [wire EXCEPT ![v] = wire[v]]
      BY DEF StreamInv
    <3> HIDE DEF behind
    <3>3. CASE behind /\ ~s.gone
      BY <3>1, <3>3
    <3>4. CASE ~(behind /\ ~s.gone)
      BY <3>1, <3>2, <3>4
    <3> QED
      BY <3>3, <3>4
  <2>5. UNCHANGED log /\ got' = [got EXCEPT ![v] = got[v]]
    BY DEF OutboxBounds, StreamInv
  <2> HIDE DEF t, w, c
  <2> QED
    BY <2>2, <2>3, <2>4, <2>5
<1>5. /\ Delivered(v, w, got[v])
      /\ {wire[v][j] : j \in 1 .. Len(wire[v])} \subseteq {w[j] : j \in 1 .. Len(w)}
  <2>1. CASE behind /\ ~s.gone
    <3>1. w = Append(wire[v], 0)
      BY <2>1 DEF Refetch
    <3>2. Past(0) /\ Complete(v, 0, got[v] \cup {wire[v][j] : j \in 1 .. Len(wire[v])} \cup {0})
      BY <1>1, NothingIsPast
    <3>3. Delivered(v, wire[v], got[v])
      BY <1>1
    <3> HIDE DEF w
    <3> QED
      BY <3>1, <3>2, <3>3, WireGrows
  <2>2. CASE ~(behind /\ ~s.gone)
    BY <1>1, <2>2
  <2> QED
    BY <2>1, <2>2
<1>6. InService(v, t, w, got[v])
  <2>1. t \in StreamState
    BY <1>1, <1>3 DEF StreamState, Phases, Past, PastIn
  <2>2. Complete(v, c, got[v] \cup {w[j] : j \in 1 .. Len(w)})
    BY <1>2, <1>3, <1>5 DEF Complete, CompleteIn
  <2> HIDE DEF c, w
  <2> QED
    BY <1>3, <2>1, <2>2 DEF InService
<1>7. Follows(v, t, w, got[v])
  BY <1>5, <1>6 DEF Follows
<1> HIDE DEF t, w
<1> QED
  BY <1>4, <1>7, ViewerMoves

(* the first of a set: as many as asked, none left out before one of them *)
LEMMA FirstOnes ==
  ASSUME NEW ids \in SUBSET Nat, NEW b \in Nat, \A i \in ids : i <= b
  PROVE  /\ First(Page, ids) \subseteq ids /\ (ids # {} => First(Page, ids) # {})
         /\ \A x \in First(Page, ids), i \in ids : i <= x => i \in First(Page, ids)
<1>1. IsFiniteSet(ids)
  <2>1. ids \subseteq 0 .. b
    <3> SUFFICES ASSUME NEW i \in ids PROVE i \in 0 .. b
      OBVIOUS
    <3>1. i \in Nat /\ i <= b
      OBVIOUS
    <3> QED
      BY <3>1
  <2>2. IsFiniteSet(0 .. b)
    BY FS_Interval
  <2> QED
    BY <2>1, <2>2, FS_Subset
<1>2. ASSUME NEW x \in First(Page, ids), NEW i \in ids, i <= x
      PROVE  i \in First(Page, ids)
  <2> DEFINE below(k) == {j \in ids : j < k}
  <2>1. below(i) \subseteq below(x) /\ below(x) \subseteq ids
    <3>1. x \in Nat /\ i \in Nat
      BY <1>2 DEF First
    <3>2. ASSUME NEW j \in ids, j < i PROVE j < x
      <4>1. j \in Nat
        OBVIOUS
      <4> QED
        BY <1>2, <3>1, <3>2, <4>1
    <3> QED
      BY <3>2
  <2>2. IsFiniteSet(below(x))
    BY <1>1, <2>1, FS_Subset
  <2>3. /\ Cardinality(below(i)) <= Cardinality(below(x))
        /\ Cardinality(below(i)) \in Nat /\ Cardinality(below(x)) \in Nat
    <3>1. IsFiniteSet(below(i))
      BY <2>1, <2>2, FS_Subset
    <3> HIDE DEF below
    <3> QED
      BY <2>1, <2>2, <3>1, FS_Subset, FS_CardinalityType
  <2>4. Cardinality(below(x)) < Page
    BY <1>2 DEF First
  <2>5. Cardinality(below(i)) < Page
    <3> HIDE DEF below
    <3> QED
      BY EventStreamAssumption, <2>3, <2>4
  <2> QED
    BY <2>5 DEF First
<1>3. ASSUME ids # {} PROVE First(Page, ids) # {}
  <2>1. PICK m \in ids : \A x \in ids : m <= x
    BY <1>3, LeastNatural
  <2>2. {j \in ids : j < m} = {}
    <3> SUFFICES ASSUME NEW j \in ids PROVE ~(j < m)
      OBVIOUS
    <3>1. j \in Nat /\ m \in Nat /\ m <= j
      BY <2>1
    <3> QED
      BY <3>1
  <2>3. Cardinality({j \in ids : j < m}) = 0
    BY <2>2, FS_EmptySet
  <2>4. m \in First(Page, ids)
    BY EventStreamAssumption, <2>3 DEF First
  <2> QED
    BY <2>4
<1> QED
  BY <1>2, <1>3 DEF First

LEMMA ReadFollows ==
  ASSUME StreamInv, NEW v \in Viewers, Read(v)
  PROVE  StreamInv'
<1> DEFINE s == stream[v]
           next == {e.id : e \in {x \in outbox : Visible(v, x) /\ x.id > s.cursor}}
           phase == IF next = {} THEN "idle" ELSE "page"
           t == [pc |-> phase, id |-> s.id, cursor |-> s.cursor, page |-> First(Page, next),
                 gone |-> s.gone]
<1>1. /\ RowsInv /\ Delivered(v, wire[v], got[v]) /\ InService(v, s, wire[v], got[v])
      /\ s.pc \in {"ready", "idle"} /\ s \in StreamState /\ sequence \in Nat
      /\ \A e \in outbox : Past(e.id) /\ e.id \in Nat /\ e.id <= sequence
  BY DEF StreamInv, Follows, InService, Read, RowsInv, Past, PastIn
<1>2. /\ First(Page, next) \subseteq next /\ (next # {} <=> First(Page, next) # {})
      /\ \A x \in First(Page, next), i \in next : i <= x => i \in First(Page, next)
  <2>1. next \in SUBSET Nat /\ \A i \in next : i <= sequence
    BY <1>1
  <2> HIDE DEF next
  <2> QED
    BY <1>1, <2>1, FirstOnes
<1>3. \A i \in next : i \in Nat /\ Past(i) /\ s.cursor < i
  <2>1. s.cursor \in Nat
    BY <1>1 DEF StreamState, Phases
  <2> QED
    BY <1>1, <2>1
<1>4. /\ stream' = [stream EXCEPT ![v] = t] /\ wire' = [wire EXCEPT ![v] = wire[v]]
      /\ UNCHANGED log /\ got' = [got EXCEPT ![v] = got[v]]
  <2>2. stream' = [stream EXCEPT ![v] = [s EXCEPT !.pc = phase, !.page = First(Page, next)]]
    BY DEF Read, Change
  <2>3. [s EXCEPT !.pc = phase, !.page = First(Page, next)] = t
    <3>1. First(Page, next) \in SUBSET Nat /\ phase \in {"idle", "page"}
      BY <1>2, <1>3
    <3> DEFINE ids == First(Page, next)
    <3> HIDE DEF s, phase, ids
    <3>2. ids \in SUBSET Nat /\ phase \in Phases
      BY <3>1 DEF ids, Phases
    <3>3. [s EXCEPT !.pc = phase, !.page = ids]
            = [pc |-> phase, id |-> s.id, cursor |-> s.cursor, page |-> ids, gone |-> s.gone]
      BY <1>1, <3>2, TurnsPage
    <3> QED
      BY <3>3 DEF ids
  <2>4. UNCHANGED log /\ wire' = wire /\ got' = got
    BY DEF Read, viewer
  <2> HIDE DEF t, phase, next
  <2> QED
    BY <2>2, <2>3, <2>4 DEF StreamInv
<1>5. ASSUME NEW x \in t.page
      PROVE  /\ Past(x) /\ t.cursor < x
             /\ \A e \in outbox : Visible(v, e) /\ t.cursor < e.id /\ e.id <= x => e.id \in t.page
  <2>1. x \in First(Page, next) /\ x \in next
    BY <1>2, <1>5
  <2>2. ASSUME NEW e \in outbox, Visible(v, e), s.cursor < e.id, e.id <= x
        PROVE  e.id \in First(Page, next)
    <3>1. e.id \in next
      <4>1. s.cursor \in Nat
        BY <1>1 DEF StreamState, Phases
      <4> QED
        BY <1>1, <2>2, <4>1
    <3> HIDE DEF next
    <3> QED
      BY <1>2, <2>1, <2>2, <3>1
  <2> HIDE DEF next
  <2> QED
    BY <1>3, <2>1, <2>2
<1>6. t \in StreamState
  <2>1. First(Page, next) \in SUBSET Nat
    BY <1>2, <1>3
  <2>2. phase \in {"idle", "page"}
    OBVIOUS
  <2> HIDE DEF next, phase
  <2> QED
    BY <1>1, <2>1, <2>2 DEF StreamState, Phases
<1>7. InService(v, t, wire[v], got[v])
  <2>1. /\ Past(s.cursor)
        /\ Complete(v, s.cursor, got[v] \cup {wire[v][j] : j \in 1 .. Len(wire[v])})
    BY <1>1 DEF InService
  <2>2. t.pc = "page" <=> t.page # {}
    BY <1>2
  <2>3. t.cursor = s.cursor /\ t.pc # "admitted"
    OBVIOUS
  <2> HIDE DEF t
  <2> QED
    BY <1>5, <1>6, <2>1, <2>2, <2>3 DEF InService
<1>8. Follows(v, t, wire[v], got[v])
  BY <1>1, <1>7 DEF Follows
<1> HIDE DEF t
<1> QED
  BY <1>4, <1>8, ViewerMoves

LEMMA WriteFollows ==
  ASSUME StreamInv, NEW v \in Viewers, Write(v)
  PROVE  StreamInv'
<1> DEFINE s == stream[v]
           i == Min(s.page)
           w == Append(wire[v], i)
           sent == {wire[v][j] : j \in 1 .. Len(wire[v])}
           t == [pc |-> IF s.page = {i} THEN "idle" ELSE "page", id |-> s.id, cursor |-> i,
                 page |-> s.page \ {i}, gone |-> s.gone]
<1>1. /\ RowsInv /\ Delivered(v, wire[v], got[v]) /\ InService(v, s, wire[v], got[v])
      /\ s.pc = "page" /\ s \in StreamState /\ s.page # {} /\ s.page \in SUBSET Nat
      /\ s.cursor \in Nat
  <2>1. s.pc = "page"
    BY DEF Write
  <2>2. RowsInv /\ Delivered(v, wire[v], got[v]) /\ InService(v, s, wire[v], got[v])
    BY DEF StreamInv, Follows
  <2>3. s \in StreamState /\ s.page # {}
    BY <2>1, <2>2 DEF InService
  <2> QED
    BY <2>1, <2>2, <2>3 DEF StreamState, Phases
<1>2. /\ i \in s.page /\ \A x \in s.page : i <= x
      /\ i \in Nat /\ \A x \in s.page : x \in Nat
  BY <1>1, SmallestOf
<1>3. /\ UNCHANGED log /\ got' = [got EXCEPT ![v] = got[v]] /\ wire = [wire EXCEPT ![v] = wire[v]]
      /\ \/ stream' = [stream EXCEPT ![v] = Ended] /\ wire' = wire
         \/ stream' = [stream EXCEPT ![v] = Ended] /\ wire' = [wire EXCEPT ![v] = w]
         \/ stream' = [stream EXCEPT ![v] = t] /\ wire' = [wire EXCEPT ![v] = w]
  <2>1. [s EXCEPT !.cursor = i, !.page = s.page \ {i},
                  !.pc = IF s.page = {i} THEN AfterPage ELSE s.pc] = t
    <3>1. s.pc = "page"
      BY <1>1
    <3> DEFINE ids == s.page \ {i}
               phase == IF s.page = {i} THEN "idle" ELSE "page"
    <3>2. ids \in SUBSET Nat /\ phase \in Phases /\ i \in Nat
      BY <1>1, <1>2 DEF Phases
    <3> HIDE DEF s, i, ids, phase
    <3>3. s \in StreamState
      BY <1>1
    <3> DEFINE u == [s EXCEPT !.cursor = i, !.page = ids, !.pc = phase]
               r == [pc |-> phase, id |-> s.id, cursor |-> i, page |-> ids, gone |-> s.gone]
    <3>4. u \in StreamState /\ r \in StreamState
      BY <3>2, <3>3 DEF StreamState
    <3>5. u.pc = r.pc /\ u.id = r.id /\ u.cursor = r.cursor /\ u.page = r.page /\ u.gone = r.gone
      BY <3>3 DEF StreamState
    <3>6. u = r
      <4> HIDE DEF u, r
      <4> QED
        BY <3>4, <3>5, SameState
    <3> QED
      BY <3>1, <3>6 DEF ids, phase, AfterPage
  <2>2. [s EXCEPT !.cursor = i, !.page = @ \ {i}, !.pc = IF s.page = {i} THEN AfterPage ELSE @] = t
    <3> HIDE DEF s, i, t
    <3> QED
      BY <1>1, <2>1 DEF StreamState, Phases
  <2>3. UNCHANGED log /\ got' = got
    BY DEF Write
  <2>4. \/ stream' = [stream EXCEPT ![v] = Ended] /\ wire' = wire
        \/ stream' = [stream EXCEPT ![v] = Ended] /\ wire' = [wire EXCEPT ![v] = w]
        \/ /\ stream' = [stream EXCEPT ![v] = [s EXCEPT !.cursor = i, !.page = @ \ {i},
                                      !.pc = IF s.page = {i} THEN AfterPage ELSE @]]
           /\ wire' = [wire EXCEPT ![v] = w]
    BY DEF Write, CloseStream, Change
  <2> HIDE DEF t, w
  <2> QED
    BY <2>2, <2>3, <2>4 DEF StreamInv
<1>4. Past(i) /\ s.cursor < i /\ Complete(v, i, got[v] \cup sent \cup {i})
  <2>1. /\ Past(i) /\ s.cursor < i
        /\ \A e \in outbox : Visible(v, e) /\ s.cursor < e.id /\ e.id <= i => e.id \in s.page
    BY <1>1, <1>2 DEF InService
  <2>2. Complete(v, s.cursor, got[v] \cup sent)
    BY <1>1 DEF InService
  <2>3. ASSUME NEW e \in outbox, Visible(v, e), e.id <= i
        PROVE  e.id \in got[v] \cup sent \cup {i}
    <3>1. e.id \in Nat
      BY <1>1 DEF RowsInv, Event
    <3>2. CASE e.id <= s.cursor
      BY <2>2, <2>3, <3>2 DEF Complete, CompleteIn
    <3>3. CASE s.cursor < e.id
      <4>1. e.id \in s.page
        BY <2>1, <2>3, <3>3
      <4>2. e.id = i
        <5>1. i <= e.id
          BY <1>2, <4>1
        <5> HIDE DEF i
        <5> QED
          BY <1>2, <2>3, <3>1, <5>1
      <4> QED
        BY <4>2
    <3> HIDE DEF i
    <3> QED
      BY <1>1, <3>1, <3>2, <3>3
  <2> QED
    BY <2>1, <2>3 DEF Complete, CompleteIn
<1>5. Delivered(v, w, got[v]) /\ {w[j] : j \in 1 .. Len(w)} = sent \cup {i}
  <2>1. Delivered(v, wire[v], got[v]) /\ Past(i)
    BY <1>1, <1>4
  <2>2. Complete(v, i, got[v] \cup {wire[v][j] : j \in 1 .. Len(wire[v])} \cup {i})
    BY <1>4
  <2> HIDE DEF i
  <2> QED
    BY <2>1, <2>2, WireGrows
<1>6. Follows(v, Ended, w, got[v]) /\ Follows(v, Ended, wire[v], got[v])
  BY <1>1, <1>5, EndedFollows
<1>7. Follows(v, t, w, got[v])
  <2>1. t \in StreamState
    <3> HIDE DEF i
    <3> QED
      BY <1>1, <1>2 DEF StreamState, Phases
  <2>2. t.pc = "page" <=> t.page # {}
    <3> HIDE DEF i, s
    <3> QED
      BY <1>2
  <2>3. ASSUME NEW x \in s.page \ {i}
        PROVE  /\ Past(x) /\ i < x
               /\ \A e \in outbox : Visible(v, e) /\ i < e.id /\ e.id <= x => e.id \in s.page \ {i}
    <3>1. /\ Past(x)
          /\ \A e \in outbox : Visible(v, e) /\ s.cursor < e.id /\ e.id <= x => e.id \in s.page
      BY <1>1, <2>3 DEF InService
    <3>2. i < x
      <4> HIDE DEF i
      <4> QED
        BY <1>2, <2>3
    <3>3. \A e \in outbox : e.id \in Nat
      BY <1>1 DEF RowsInv, Event
    <3> HIDE DEF i
    <3> QED
      BY <1>1, <1>2, <1>4, <3>1, <3>2, <3>3
  <2>4. Complete(v, i, got[v] \cup {w[j] : j \in 1 .. Len(w)})
    <3>1. got[v] \cup {w[j] : j \in 1 .. Len(w)} = got[v] \cup sent \cup {i}
      BY <1>5
    <3> QED
      BY <1>4, <3>1
  <2>5. t.cursor = i /\ t.page = s.page \ {i} /\ t.pc # "admitted"
    OBVIOUS
  <2>6. InService(v, t, w, got[v])
    <3> HIDE DEF t, i, w
    <3> QED
      BY <1>4, <2>1, <2>2, <2>3, <2>4, <2>5 DEF InService
  <2> QED
    BY <1>5, <2>6 DEF Follows
<1> HIDE DEF t, w
<1>8. CASE stream' = [stream EXCEPT ![v] = Ended] /\ wire' = wire
  BY <1>3, <1>6, <1>8, ViewerMoves
<1>9. CASE stream' = [stream EXCEPT ![v] = Ended] /\ wire' = [wire EXCEPT ![v] = w]
  BY <1>3, <1>6, <1>9, ViewerMoves
<1>10. CASE stream' = [stream EXCEPT ![v] = t] /\ wire' = [wire EXCEPT ![v] = w]
  BY <1>3, <1>7, <1>10, ViewerMoves
<1> QED
  BY <1>3, <1>8, <1>9, <1>10

LEMMA ReceiveFollows ==
  ASSUME StreamInv, NEW v \in Viewers, Receive(v)
  PROVE  StreamInv'
<1> DEFINE s == stream[v]
           w == wire[v]
           x == Head(w)
           y == Tail(w)
           g == IF x = Refetch THEN got[v] ELSE got[v] \cup {x}
<1>1. /\ RowsInv /\ Delivered(v, w, got[v]) /\ InService(v, s, w, got[v]) /\ w # <<>>
      /\ w \in Seq(Nat) /\ Len(w) \in Nat /\ Len(w) >= 1 /\ DOMAIN w = 1 .. Len(w)
  <2>1. RowsInv /\ Delivered(v, w, got[v]) /\ InService(v, s, w, got[v]) /\ w # <<>> /\ w \in Seq(Nat)
    BY DEF StreamInv, Follows, Receive, Delivered
  <2> HIDE DEF w
  <2> QED
    BY <2>1
<1>2. /\ stream' = [stream EXCEPT ![v] = s] /\ wire' = [wire EXCEPT ![v] = y]
      /\ got' = [got EXCEPT ![v] = g] /\ UNCHANGED log
  <2>1. wire' = [wire EXCEPT ![v] = y] /\ UNCHANGED log /\ stream' = stream
    BY DEF Receive
  <2>2. got' = IF x = Refetch THEN got ELSE [got EXCEPT ![v] = @ \cup {x}]
    BY DEF Receive
  <2>3. got = [got EXCEPT ![v] = got[v]] /\ stream = [stream EXCEPT ![v] = stream[v]]
    BY DEF StreamInv
  <2>4. got' = [got EXCEPT ![v] = g]
    BY <2>2, <2>3
  <2> QED
    BY <2>1, <2>3, <2>4
<1>3. /\ x = w[1] /\ y \in Seq(Nat) /\ Len(y) = Len(w) - 1 /\ DOMAIN y = 1 .. (Len(w) - 1)
      /\ \A i \in 1 .. Len(w) - 1 : y[i] = w[i + 1]
  <2> HIDE DEF w
  <2> QED
    BY <1>1, HeadTailProperties
<1>4. /\ x \in Nat /\ Past(x) /\ Complete(v, x, got[v] \cup {x}) /\ got[v] \subseteq Nat
      /\ \A u \in got[v] : Past(u) /\ Complete(v, u, got[v])
  <2>1. 1 \in DOMAIN w
    BY <1>1
  <2>2. Past(w[1]) /\ Complete(v, w[1], got[v] \cup {w[j] : j \in 1 .. 1})
    BY <1>1, <2>1 DEF Delivered
  <2>3. {w[j] : j \in 1 .. 1} = {x}
    BY <1>3
  <2> QED
    BY <1>1, <1>3, <2>2, <2>3 DEF Delivered, Past, PastIn
<1>5. \A e \in outbox : e.id = x => e.id \in g
  <2>1. \A e \in outbox : e.id # 0
    BY <1>1 DEF RowsInv, Event
  <2> QED
    BY <2>1 DEF Refetch
<1>6. \A c, ids : Complete(v, c, got[v] \cup {x} \cup ids) => Complete(v, c, g \cup ids)
  <2> HIDE DEF x
  <2> QED
    BY <1>5 DEF Complete, CompleteIn
<1>7. got[v] \subseteq g /\ g \subseteq got[v] \cup {x}
  OBVIOUS
<1> HIDE DEF g, x, y
<1>8. ASSUME NEW i \in 1 .. Len(w), i >= 1
      PROVE  {w[j] : j \in 1 .. i} = {x} \cup {y[j] : j \in 1 .. i - 1}
  <2>1. \A j \in 1 .. i : j = 1 \/ (j - 1 \in 1 .. i - 1 /\ w[j] = y[j - 1])
    <3> SUFFICES ASSUME NEW j \in 1 .. i, j # 1 PROVE j - 1 \in 1 .. i - 1 /\ w[j] = y[j - 1]
      OBVIOUS
    <3>1. j - 1 \in 1 .. i - 1 /\ j - 1 \in 1 .. Len(w) - 1 /\ (j - 1) + 1 = j
      BY <1>1
    <3> QED
      BY <1>3, <3>1
  <2>2. \A j \in 1 .. i - 1 : j + 1 \in 1 .. i /\ y[j] = w[j + 1]
    <3> SUFFICES ASSUME NEW j \in 1 .. i - 1 PROVE j + 1 \in 1 .. i /\ y[j] = w[j + 1]
      OBVIOUS
    <3>1. j \in 1 .. Len(w) - 1 /\ j + 1 \in 1 .. i
      BY <1>1
    <3> QED
      BY <1>3, <3>1
  <2>3. 1 \in 1 .. i
    BY <1>1
  <2>4. w[1] = x
    BY <1>3
  <2> HIDE DEF w
  <2>5. \A j \in 1 .. i : w[j] \in {x} \cup {y[k] : k \in 1 .. i - 1}
    BY <2>1, <2>4
  <2>6. \A u \in {x} \cup {y[k] : k \in 1 .. i - 1} : \E j \in 1 .. i : u = w[j]
    BY <2>2, <2>3, <2>4
  <2> QED
    BY <2>5, <2>6
<1>9. Delivered(v, y, g)
  <2>1. \A u \in g : Past(u) /\ Complete(v, u, g)
    <3>1. Complete(v, x, g)
      <4>1. Complete(v, x, got[v] \cup {x} \cup {}) => Complete(v, x, g \cup {})
        BY <1>6
      <4> QED
        BY <1>4, <4>1
    <3>2. ASSUME NEW u \in got[v] PROVE Past(u) /\ Complete(v, u, g)
      BY <1>4, <1>7 DEF Complete, CompleteIn
    <3> QED
      BY <1>4, <1>7, <3>1, <3>2
  <2>2. ASSUME NEW i \in DOMAIN y
        PROVE  Past(y[i]) /\ Complete(v, y[i], g \cup {y[j] : j \in 1 .. i})
    <3>1. i \in Nat /\ i + 1 \in 1 .. Len(w) /\ i + 1 \in DOMAIN w /\ y[i] = w[i + 1] /\ (i + 1) - 1 = i
      <4>1. i \in 1 .. Len(w) - 1
        BY <1>3
      <4>2. i \in Nat /\ i + 1 \in 1 .. Len(w) /\ (i + 1) - 1 = i
        <5> HIDE DEF w
        <5> QED
          BY <1>1, <4>1
      <4> QED
        BY <1>1, <1>3, <4>1, <4>2
    <3>2. Past(w[i + 1]) /\ Complete(v, w[i + 1], got[v] \cup {w[j] : j \in 1 .. i + 1})
      BY <1>1, <3>1 DEF Delivered
    <3>3. {w[j] : j \in 1 .. i + 1} = {x} \cup {y[j] : j \in 1 .. i}
      <4>1. {w[j] : j \in 1 .. i + 1} = {x} \cup {y[j] : j \in 1 .. (i + 1) - 1}
        <5>1. i + 1 >= 1
          BY <3>1
        <5> QED
          BY <1>8, <3>1, <5>1
      <4> QED
        BY <3>1, <4>1
    <3>4. Complete(v, y[i], got[v] \cup {x} \cup {y[j] : j \in 1 .. i})
      <4>1. got[v] \cup {x} \cup {y[j] : j \in 1 .. i} = got[v] \cup {w[j] : j \in 1 .. i + 1}
        BY <3>3
      <4> QED
        BY <3>1, <3>2, <4>1
    <3> QED
      BY <1>6, <3>1, <3>2, <3>4
  <2>3. g \subseteq Nat
    BY <1>4, <1>7
  <2> QED
    BY <1>3, <2>1, <2>2, <2>3 DEF Delivered
<1>10. InService(v, s, y, g)
  <2>1. ASSUME s.pc # "ended" PROVE Complete(v, s.cursor, g \cup {y[j] : j \in 1 .. Len(y)})
    <3>1. Complete(v, s.cursor, got[v] \cup {w[j] : j \in 1 .. Len(w)})
      BY <1>1, <2>1 DEF InService
    <3>2. {w[j] : j \in 1 .. Len(w)} = {x} \cup {y[j] : j \in 1 .. Len(y)}
      <4>1. Len(w) \in 1 .. Len(w)
        BY <1>1
      <4> QED
        BY <1>1, <1>3, <1>8, <4>1
    <3>3. got[v] \cup {x} \cup {y[j] : j \in 1 .. Len(y)} = got[v] \cup {w[j] : j \in 1 .. Len(w)}
      BY <3>2
    <3> QED
      BY <1>6, <3>1, <3>3
  <2>2. s.pc # "admitted"
    BY <1>1 DEF InService
  <2> QED
    BY <1>1, <2>1, <2>2 DEF InService
<1>11. Follows(v, s, y, g)
  BY <1>9, <1>10 DEF Follows
<1> QED
  BY <1>2, <1>11, ViewerMoves

(* The other steps of a stream end it or leave it as it is. *)
LEMMA OthersFollow ==
  ASSUME StreamInv, NEW v \in Viewers,
         ReadFails(v) \/ Renew(v) \/ Heartbeat(v) \/ ProcessDies(v) \/ Disconnect(v)
  PROVE  StreamInv'
<1> DEFINE s == stream[v]
           t == [pc |-> s.pc, id |-> s.id, cursor |-> s.cursor, page |-> s.page, gone |-> TRUE]
<1>1. /\ RowsInv /\ Delivered(v, wire[v], got[v]) /\ InService(v, s, wire[v], got[v])
      /\ s \in StreamState /\ Follows(v, s, wire[v], got[v])
  BY DEF StreamInv, Follows, InService
<1>2. /\ UNCHANGED log /\ got' = [got EXCEPT ![v] = got[v]]
      /\ stream = [stream EXCEPT ![v] = s] /\ wire = [wire EXCEPT ![v] = wire[v]]
  BY DEF ReadFails, Renew, Heartbeat, ProcessDies, Disconnect, viewer, StreamInv
<1>3. \/ stream' = [stream EXCEPT ![v] = Ended] /\ wire' = wire
      \/ stream' = stream /\ wire' = wire
      \/ stream' = [stream EXCEPT ![v] = Ended] /\ wire' = [wire EXCEPT ![v] = <<>>]
      \/ s.pc = "admitted" /\ stream' = [stream EXCEPT ![v] = t] /\ wire' = [wire EXCEPT ![v] = <<>>]
  <2>1. ASSUME Disconnect(v), s.pc = "admitted" PROVE stream' = [stream EXCEPT ![v] = t]
    <3>1. stream' = [stream EXCEPT ![v] = [s EXCEPT !.gone = TRUE]]
      BY <2>1 DEF Disconnect, Change
    <3>2. [s EXCEPT !.gone = TRUE] = t
      <4> HIDE DEF s
      <4> QED
        BY <1>1, IsGone
    <3> HIDE DEF t
    <3> QED
      BY <3>1, <3>2
  <2>2. CASE Disconnect(v)
    BY <2>1, <2>2 DEF Disconnect, Change, CloseStream
  <2>3. CASE ReadFails(v) \/ Renew(v) \/ Heartbeat(v) \/ ProcessDies(v)
    BY <2>3 DEF ReadFails, Renew, Heartbeat, ProcessDies, Change, CloseStream, viewer
  <2> QED
    BY <2>2, <2>3
<1>4. Follows(v, Ended, wire[v], got[v]) /\ Follows(v, Ended, <<>>, got[v])
  BY <1>1, EndedFollows, NothingOnTheWire
<1>5. ASSUME s.pc = "admitted" PROVE Follows(v, t, <<>>, got[v])
  <2>1. wire[v] = <<>>
    BY <1>1, <1>5 DEF InService
  <2>2. t \in StreamState /\ t.pc = s.pc /\ t.cursor = s.cursor /\ t.page = s.page
    BY <1>1 DEF StreamState, Phases
  <2> HIDE DEF t
  <2> QED
    BY <1>1, <2>1, <2>2 DEF Follows, InService
<1> HIDE DEF t
<1>6. ASSUME NEW q, NEW w, Follows(v, q, w, got[v]),
             stream' = [stream EXCEPT ![v] = q], wire' = [wire EXCEPT ![v] = w]
      PROVE  StreamInv'
  BY <1>2, <1>6, ViewerMoves
<1>7. CASE stream' = [stream EXCEPT ![v] = Ended] /\ wire' = wire
  BY <1>2, <1>4, <1>6, <1>7
<1>8. CASE stream' = stream /\ wire' = wire
  BY <1>1, <1>2, <1>6, <1>8
<1>9. CASE stream' = [stream EXCEPT ![v] = Ended] /\ wire' = [wire EXCEPT ![v] = <<>>]
  BY <1>4, <1>6, <1>9
<1>10. CASE s.pc = "admitted" /\ stream' = [stream EXCEPT ![v] = t] /\ wire' = [wire EXCEPT ![v] = <<>>]
  BY <1>5, <1>6, <1>10
<1> QED
  BY <1>3, <1>7, <1>8, <1>9, <1>10

LEMMA NothingMoves ==
  ASSUME StreamInv, UNCHANGED <<log, stream, wire, got>>
  PROVE  StreamInv'
<1>1. UNCHANGED <<sequence, writing, pending, outbox>>
  BY DEF log
<1>2. RowsInv'
  BY <1>1 DEF StreamInv, RowsInv, Past
<1>3. ASSUME NEW v \in Viewers PROVE Follows(v, stream[v], wire[v], got[v])'
  BY <1>1 DEF StreamInv, Past, Follows, Delivered, InService, Complete
<1> QED
  BY <1>2, <1>3 DEF StreamInv

LEMMA StreamSteps == StreamInv /\ [StreamNext]_streamVars => StreamInv'
<1> SUFFICES ASSUME StreamInv, [StreamNext]_streamVars PROVE StreamInv'
  OBVIOUS
<1>1. CASE WriterStep
  BY <1>1, WritersKeepStreams
<1>2. CASE \E k \in Connections : Expire(k)
  BY <1>2, NothingMoves DEF Expire, viewer
<1>3. ASSUME NEW v \in Viewers,
             \/ Connect(v) \/ Serve(v) \/ ReadFails(v) \/ Renew(v) \/ Heartbeat(v)
             \/ ProcessDies(v) \/ Disconnect(v) \/ Receive(v)
      PROVE  StreamInv'
  BY <1>3, ConnectFollows, BoundsFollow, ReadFollows, WriteFollows, ReceiveFollows, OthersFollow DEF Serve
<1>4. CASE UNCHANGED streamVars
  BY <1>4, NothingMoves DEF streamVars, viewer
<1> QED
  BY <1>1, <1>2, <1>3, <1>4 DEF StreamNext, WriterStep

LEMMA StreamInvAlways == StreamSpec => []StreamInv
BY StreamStarts, StreamSteps, PTL DEF StreamSpec

(* No event becomes visible behind a viewer: of what the outbox still has, up to the last
   id it received, a viewer received everything that it may see, whatever commits late,
   rolls back, is reaped, cut off or read again. (outbox, assertFence, readOutbox, pump) *)
THEOREM StreamIsCompleteAlways == StreamSpec => []StreamIsComplete
<1>1. StreamInv => StreamIsComplete
  <2> SUFFICES ASSUME StreamInv, NEW v \in Viewers, NEW e \in outbox, Visible(v, e), e.id <= LastSeen(v)
               PROVE  e.id \in got[v]
    BY DEF StreamIsComplete
  <2> QED
    BY LastSeenType DEF Complete, CompleteIn
<1> QED
  BY <1>1, StreamInvAlways, PTL

-----------------------------------------------------------------------------
(* Slot rows.  They are counted and inserted under one lock, after those that ran out
   were deleted; no other step adds one. *)
Rows == {k \in Connections : slots[k] # "none"}
SlotInv == slots \in [Connections -> {"none", "live", "expired"}] /\ SlotsAreBounded

LEMMA FewerRows ==
  ASSUME SlotInv, slots' \in [Connections -> {"none", "live", "expired"}], Rows' \subseteq Rows
  PROVE  SlotInv'
<1>1. IsFiniteSet(Connections)
  BY EventStreamAssumption, FS_Interval DEF Connections
<1>2. IsFiniteSet(Rows) /\ IsFiniteSet(Rows')
  BY <1>1, FS_Subset DEF Rows
<1>3. /\ Cardinality(Rows') <= Cardinality(Rows)
      /\ Cardinality(Rows') \in Nat /\ Cardinality(Rows) \in Nat
  BY <1>2, FS_Subset, FS_CardinalityType
<1>4. Cardinality(Rows) <= Cap
  BY DEF SlotInv, SlotsAreBounded, Rows
<1>5. Cardinality(Rows') <= Cap
  BY EventStreamAssumption, <1>3, <1>4
<1> QED
  BY <1>5 DEF SlotInv, SlotsAreBounded, Rows

LEMMA SlotSteps == SlotInv /\ [StreamNext]_streamVars => SlotInv'
<1> SUFFICES ASSUME SlotInv, [StreamNext]_streamVars PROVE SlotInv'
  OBVIOUS
<1>1. ASSUME slots' = slots PROVE SlotInv'
  BY <1>1 DEF SlotInv, SlotsAreBounded
<1>2. ASSUME NEW k, slots' = [slots EXCEPT ![k] = "none"] PROVE SlotInv'
  BY <1>2, FewerRows DEF SlotInv, Rows
<1>3. ASSUME NEW k \in Connections, Expire(k) PROVE SlotInv'
  BY <1>3, FewerRows DEF Expire, SlotInv, Rows
<1>4. ASSUME NEW v \in Viewers, Connect(v) PROVE SlotInv'
  <2> DEFINE swept == [j \in Connections |-> IF slots[j] = "expired" THEN "none" ELSE slots[j]]
  <2>1. CASE Full
    <3>1. slots' = swept
      BY <1>4, <2>1 DEF Connect
    <3> QED
      BY <3>1, FewerRows DEF SlotInv, Rows
  <2>2. CASE ~Full
    <3>1. PICK k : slots' = [swept EXCEPT ![k] = "live"]
      BY <1>4, <2>2 DEF Connect
    <3>2. slots' \in [Connections -> {"none", "live", "expired"}]
      BY <3>1 DEF SlotInv
    <3>3. Rows' \subseteq Occupied \cup {k}
      BY <3>1 DEF Rows, Occupied, SlotInv
    <3>4. IsFiniteSet(Occupied)
      <4>1. IsFiniteSet(Connections)
        BY EventStreamAssumption, FS_Interval DEF Connections
      <4> QED
        BY <4>1, FS_Subset DEF Occupied
    <3>5. /\ IsFiniteSet(Occupied \cup {k}) /\ Cardinality(Occupied) \in Nat
          /\ Cardinality(Occupied \cup {k}) \in Nat
          /\ Cardinality(Occupied \cup {k}) <= Cardinality(Occupied) + 1
      <4>1. Cardinality(Occupied) \in Nat
        BY <3>4, FS_CardinalityType
      <4>2. /\ IsFiniteSet(Occupied \cup {k})
            /\ \/ Cardinality(Occupied \cup {k}) = Cardinality(Occupied)
               \/ Cardinality(Occupied \cup {k}) = Cardinality(Occupied) + 1
        BY <3>4, FS_AddElement
      <4> QED
        BY <4>1, <4>2
    <3>6. Cardinality(Rows') <= Cardinality(Occupied \cup {k}) /\ Cardinality(Rows') \in Nat
      <4>1. IsFiniteSet(Rows')
        BY <3>3, <3>5, FS_Subset
      <4> QED
        BY <3>3, <3>5, <4>1, FS_Subset, FS_CardinalityType
    <3>7. Cardinality(Occupied) + 1 <= Cap
      BY EventStreamAssumption, <2>2, <3>5 DEF Full
    <3>8. Cardinality(Rows') <= Cap
      BY EventStreamAssumption, <3>5, <3>6, <3>7
    <3> QED
      BY <3>2, <3>8 DEF SlotInv, SlotsAreBounded, Rows
  <2> QED
    BY <2>1, <2>2
<1>5. CASE WriterStep \/ UNCHANGED streamVars
  <2>1. slots' = slots
    BY <1>5 DEF WriterStep, Begin, Insert, End, Reap, ResolveSafetyEvent, streamVars
  <2> QED
    BY <1>1, <2>1
<1>6. ASSUME NEW v \in Viewers,
             \/ Serve(v) \/ ReadFails(v) \/ Renew(v) \/ Heartbeat(v)
             \/ ProcessDies(v) \/ Disconnect(v) \/ Receive(v)
      PROVE  SlotInv'
  <2>1. slots' = slots \/ slots' = [slots EXCEPT ![stream[v].id] = "none"]
    BY <1>6 DEF Serve, OutboxBounds, Read, Write, ReadFails, Renew, Renewed, Heartbeat, ProcessDies,
                Disconnect, Receive, CloseStream
  <2> QED
    BY <1>1, <1>2, <2>1
<1> QED
  BY <1>3, <1>4, <1>5, <1>6 DEF StreamNext, WriterStep

(* There are never more slot rows than streams allowed, whatever is cut, refused, renewed
   late or lost with its process. (acquireSseSlot, renewSseSlot, close) *)
THEOREM SlotsAreBoundedAlways == StreamSpec => []SlotsAreBounded
<1>1. StreamInit => SlotInv
  <2> SUFFICES ASSUME StreamInit PROVE SlotInv
    OBVIOUS
  <2>1. slots = [k \in Connections |-> "none"]
    BY DEF StreamInit
  <2>2. {k \in Connections : slots[k] # "none"} = {}
    BY <2>1
  <2>3. Cardinality({k \in Connections : slots[k] # "none"}) <= Cap
    BY EventStreamAssumption, <2>2, FS_EmptySet
  <2> QED
    BY <2>1, <2>3 DEF SlotInv, SlotsAreBounded
<1>2. SlotInv => SlotsAreBounded
  BY DEF SlotInv
<1> QED
  BY <1>1, <1>2, SlotSteps, PTL DEF StreamSpec

-----------------------------------------------------------------------------
(* The writer epoch. *)

LEMMA Bounds ==
  /\ MaxEpoch \in Nat /\ MaxToken \in Nat /\ MaxInFlight \in Nat
  /\ MaxPromotions \in Nat
BY FenceAssumption

USE FenceAssumption, Bounds DEF Processes, Epochs

(* The fences a process can be given, typed. *)
LEMMA FenceTypes ==
  /\ NoFence \in Fence
  /\ \A c \in Coordinators \cup {NoOne}, e \in Epochs :
       /\ CoordinatorFence(c, e) \in Fence
       /\ CoordinatorFence(c, e).holder = c
       /\ CoordinatorFence(c, e).epoch = e
BY DEF Fence, NoFence, CoordinatorFence

LEMMA TypeInit == FenceInit => FenceTypeOK
BY FenceTypes DEF FenceInit, FenceTypeOK, NoDelegation

LEMMA CoordinatorType ==
  ASSUME FenceTypeOK, NEW c \in Coordinators, CoordinatorStep(c)
  PROVE  FenceTypeOK'
<1> USE FenceTypes DEF FenceTypeOK, database, runtime, mutations
<1>1. CASE Activate(c)
  BY <1>1 DEF Activate, AcquireLease, TokenFor
<1>2. CASE Activated(c)
  BY <1>2 DEF Activated, RecordCheckpoint
<1>3. CASE ActivationFails(c)
  BY <1>3 DEF ActivationFails, BecomeFenced
<1>4. CASE StartStandby(c)
  BY <1>4 DEF StartStandby
<1>5. CASE AskPromotion(c)
  BY <1>5 DEF AskPromotion
<1>6. CASE Promote(c)
  <2>1. /\ lease.epoch + 1 \in Epochs
        /\ CoordinatorFence(c, lease.epoch + 1) \in Fence
    BY <1>6, FenceTypes DEF Promote, AcquireForPromotion, CoordinatorFence
  <2>2. /\ lease' \in [holder : Coordinators \cup {NoOne}, epoch : Epochs, live : BOOLEAN]
        /\ checkpoint' \in Fence
        /\ delegation' \in [fence : Fence, live : BOOLEAN]
    BY <1>6, <2>1 DEF Promote, AcquireForPromotion, NoDelegation, CoordinatorFence
  <2>3. /\ fence' \in [Processes -> Fence]
        /\ role' \in [Processes -> {"standby", "active", "fenced"}]
        /\ promotions' \in [Coordinators -> 0..MaxPromotions]
    BY <1>6, <2>1 DEF Promote, PromotionAnswered
  <2> QED BY <1>6, <2>2, <2>3 DEF Promote, PromotionAnswered
<1>7. CASE PromotionRefused(c)
  BY <1>7 DEF PromotionRefused, PromotionAnswered
<1>8. CASE PromotionFails(c)
  BY <1>8 DEF PromotionFails, PromotionAnswered
<1>9. CASE RenewLease(c)
  <2>1. CASE AcquireLease(c) /\ renewal' = [renewal EXCEPT ![c] = CoordinatorFence(c, TokenFor(c))]
    <3>1. TokenFor(c) \in Epochs
      BY <2>1 DEF AcquireLease, TokenFor
    <3> QED BY <1>9, <2>1, <3>1 DEF RenewLease, AcquireLease
  <2>2. CASE renewal' = [renewal EXCEPT ![c] = NoFence] /\ UNCHANGED lease
    BY <1>9, <2>2 DEF RenewLease
  <2> QED BY <1>9, <2>1, <2>2 DEF RenewLease
<1> QED BY <1>1, <1>2, <1>3, <1>4, <1>5, <1>6, <1>7, <1>8, <1>9 DEF CoordinatorStep

LEMMA DelegationType ==
  ASSUME FenceTypeOK, NEW w \in Workers, NEW c \in Coordinators \cup {NoOne},
         DelegationFor(w, c).token <= MaxToken
  PROVE  DelegationFor(w, c) \in Fence
BY DEF FenceTypeOK, DelegationFor, Fence

LEMMA WorkerType ==
  ASSUME FenceTypeOK, NEW w \in Workers, WorkerStep(w)
  PROVE  FenceTypeOK'
<1> USE FenceTypes DEF FenceTypeOK, database, runtime, mutations
<1>1. CASE StartWorker(w)
  <2> PICK c \in Coordinators :
        /\ AcquireWorkerLease(w, c)
        /\ fence' = [fence EXCEPT ![w] = DelegationFor(w, c)]
    BY <1>1 DEF StartWorker
  <2>1. DelegationFor(w, c) \in Fence
    BY DelegationType DEF AcquireWorkerLease
  <2> QED BY <1>1, <2>1 DEF StartWorker, AcquireWorkerLease
<1>2. CASE RenewDelegation(w)
  <2> DEFINE c == fence[w].holder
  <2>1. CASE AcquireWorkerLease(w, c) /\ renewal' = [renewal EXCEPT ![w] = DelegationFor(w, c)]
    <3>1. c \in Coordinators \cup {NoOne}
      BY DEF Fence
    <3>2. DelegationFor(w, c) \in Fence
      BY <2>1, <3>1, DelegationType DEF AcquireWorkerLease
    <3> QED BY <1>2, <2>1, <3>2 DEF RenewDelegation, AcquireWorkerLease
  <2>2. CASE renewal' = [renewal EXCEPT ![w] = NoFence] /\ UNCHANGED delegation
    BY <1>2, <2>2 DEF RenewDelegation
  <2> QED BY <1>2, <2>1, <2>2 DEF RenewDelegation
<1> QED BY <1>1, <1>2 DEF WorkerStep

LEMMA ReleaseEffect ==
  ASSUME NEW f, Release(f)
  PROVE  /\ checkpoint' = checkpoint
         /\ lease' = lease \/ lease' = [lease EXCEPT !.live = FALSE]
         /\ delegation' = delegation \/ delegation' = NoDelegation
<1>1. CASE f.worker = NoOne
  <2>1. CASE f # NoFence /\ f = CoordinatorFence(lease.holder, lease.epoch)
    BY <1>1, <2>1 DEF Release
  <2>2. CASE ~(f # NoFence /\ f = CoordinatorFence(lease.holder, lease.epoch))
    BY <1>1, <2>2 DEF Release
  <2> QED BY <2>1, <2>2
<1>2. CASE f.worker # NoOne
  <2>1. CASE f = delegation.fence
    BY <1>2, <2>1 DEF Release
  <2>2. CASE f # delegation.fence
    BY <1>2, <2>2 DEF Release
  <2> QED BY <2>1, <2>2
<1> QED BY <1>1, <1>2

LEMMA ProcessType ==
  ASSUME FenceTypeOK, NEW p \in Processes,
         RuntimeStep(p) \/ MutationStep(p) \/ Close(p) \/ Crash(p)
  PROVE  FenceTypeOK'
<1> USE FenceTypes DEF FenceTypeOK, database, runtime, mutations
<1>1. CASE RenewalKept(p)
  BY <1>1 DEF RenewalKept, RecordCheckpoint
<1>2. CASE RenewalFails(p)
  BY <1>2 DEF RenewalFails, BecomeFenced
<1>3. CASE RenewalEnds(p)
  BY <1>3 DEF RenewalEnds
<1>4. CASE SelfFence(p)
  BY <1>4 DEF SelfFence, BecomeFenced
<1>5. CASE Mutate(p)
  BY <1>5 DEF Mutate
<1>6. CASE MutationCommits(p)
  <2> PICK f \in writes[p] : Transact(f) /\ writes' = [writes EXCEPT ![p] = @ \ {f}]
    BY <1>6 DEF MutationCommits
  <2>1. f.holder \in Coordinators \cup {NoOne} /\ f.epoch \in Epochs
    BY DEF Fence
  <2>2. last' \in Fence
    BY <2>1 DEF Transact
  <2> QED BY <1>6, <2>2 DEF MutationCommits
<1>7. CASE MutationFails(p)
  BY <1>7 DEF MutationFails
<1>8. CASE Close(p)
  <2>1. /\ lease' \in [holder : Coordinators \cup {NoOne}, epoch : Epochs, live : BOOLEAN]
        /\ checkpoint' \in Fence
        /\ delegation' \in [fence : Fence, live : BOOLEAN]
    <3>1. Release(fence[p])
      BY <1>8 DEF Close
    <3>2. /\ checkpoint' = checkpoint
          /\ lease' = lease \/ lease' = [lease EXCEPT !.live = FALSE]
          /\ delegation' = delegation \/ delegation' = NoDelegation
      BY <3>1, ReleaseEffect
    <3>3. [lease EXCEPT !.live = FALSE] \in [holder : Coordinators \cup {NoOne}, epoch : Epochs, live : BOOLEAN]
      OBVIOUS
    <3>4. NoDelegation \in [fence : Fence, live : BOOLEAN]
      BY DEF NoDelegation
    <3>5. /\ lease \in [holder : Coordinators \cup {NoOne}, epoch : Epochs, live : BOOLEAN]
          /\ checkpoint \in Fence /\ delegation \in [fence : Fence, live : BOOLEAN]
      OBVIOUS
    <3>6. lease' \in [holder : Coordinators \cup {NoOne}, epoch : Epochs, live : BOOLEAN]
      BY <3>2, <3>3, <3>5
    <3>7. delegation' \in [fence : Fence, live : BOOLEAN]
      BY <3>2, <3>4, <3>5
    <3> QED BY <3>2, <3>5, <3>6, <3>7
  <2> QED BY <1>8, <2>1 DEF Close, Stop, BecomeFenced
<1>9. CASE Crash(p)
  BY <1>9 DEF Crash, Stop, BecomeFenced
<1> QED BY <1>1, <1>2, <1>3, <1>4, <1>5, <1>6, <1>7, <1>8, <1>9 DEF RuntimeStep, MutationStep

LEMMA ExpiryType ==
  ASSUME FenceTypeOK, ExpireLease \/ ExpireDelegation
  PROVE  FenceTypeOK'
BY DEF FenceTypeOK, ExpireLease, ExpireDelegation, runtime, mutations

(* Every variable of the lease rows and of the processes keeps its type, for
   every number of processes, epochs and crashes.  (postgres-hosted-store.ts,
   hosted-runtime.ts) *)
THEOREM FenceTypeCorrect == FenceSpec => []FenceTypeOK
<1>1. FenceTypeOK /\ [FenceNext]_fenceVars => FenceTypeOK'
  <2> SUFFICES ASSUME FenceTypeOK, [FenceNext]_fenceVars PROVE FenceTypeOK'
    OBVIOUS
  <2>1. CASE UNCHANGED fenceVars
    BY <2>1 DEF FenceTypeOK, fenceVars, database, runtime, mutations
  <2> QED BY <2>1, CoordinatorType, WorkerType, ProcessType, ExpiryType DEF FenceNext
<1> QED BY <1>1, TypeInit, PTL DEF FenceSpec

-------------------------------------------------------------------------------
(* One holder per epoch.  The invariant is not inductive by itself: it says
   nothing of the holder the lease row names when no fence of that epoch is
   left, nor of epoch 0.  Known adds both. *)

Known == Fences \cup {NoFence, CoordinatorFence(lease.holder, lease.epoch)}

OneHolder ==
  \A f \in Known :
    /\ f.epoch <= lease.epoch
    /\ \A g \in Known : f.epoch = g.epoch => f.holder = g.holder

(* A step may only add fences of the lease as it leaves it *)
Granted(f) == f.holder = lease'.holder /\ f.epoch = lease'.epoch

LeaseAdvances ==
  \/ lease'.epoch = lease.epoch /\ lease'.holder = lease.holder
  \/ lease'.epoch > lease.epoch

LEMMA FencesAre ==
  \A f : f \in Fences <=>
     \/ \E p \in Processes : f = fence[p] \/ f = renewal[p] \/ f \in writes[p]
     \/ f = checkpoint \/ f = delegation.fence \/ f = last
<1> HIDE DEF Processes
<1> SUFFICES ASSUME NEW f
             PROVE  f \in Fences <=>
                      \/ \E p \in Processes : f = fence[p] \/ f = renewal[p] \/ f \in writes[p]
                      \/ f = checkpoint \/ f = delegation.fence \/ f = last
  OBVIOUS
<1>1. f \in UNION {writes[p] : p \in Processes} <=> \E p \in Processes : f \in writes[p]
  OBVIOUS
<1>2. f \in {fence[p] : p \in Processes} <=> \E p \in Processes : f = fence[p]
  OBVIOUS
<1>3. f \in {renewal[p] : p \in Processes} <=> \E p \in Processes : f = renewal[p]
  OBVIOUS
<1>4. f \in Fences <=> \/ f \in {fence[p] : p \in Processes}
                        \/ f \in {renewal[p] : p \in Processes}
                        \/ f \in UNION {writes[p] : p \in Processes}
                        \/ f \in {checkpoint, delegation.fence, last}
  BY DEF Fences
<1> QED BY <1>1, <1>2, <1>3, <1>4

LEMMA KnownFence ==
  ASSUME FenceTypeOK
  PROVE  /\ \A f \in Known : f \in Fence /\ f.epoch \in Nat
         /\ lease.epoch \in Nat
<1>1. \A f \in Fences : f \in Fence
  BY FencesAre DEF FenceTypeOK
<1>2. CoordinatorFence(lease.holder, lease.epoch) \in Fence
  BY FenceTypes DEF FenceTypeOK
<1>3. \A f \in Fence : f.epoch \in Nat
  BY DEF Fence
<1>4. lease.epoch \in Nat
  BY DEF FenceTypeOK
<1> QED BY <1>1, <1>2, <1>3, <1>4, FenceTypes DEF Known

LEMMA OneHolderSuffices ==
  ASSUME FenceTypeOK, OneHolder
  PROVE  OneHolderPerEpoch
<1>1. CoordinatorFence(lease.holder, lease.epoch).holder = lease.holder
  BY DEF CoordinatorFence
<1>2. CoordinatorFence(lease.holder, lease.epoch).epoch = lease.epoch
  BY DEF CoordinatorFence
<1> QED BY <1>1, <1>2 DEF OneHolder, OneHolderPerEpoch, Known

LEMMA OneHolderInit == FenceInit => OneHolder
<1> SUFFICES ASSUME FenceInit PROVE OneHolder
  OBVIOUS
<1>1. \A f \in Fences : f = NoFence
  BY FencesAre DEF FenceInit, NoDelegation
<1>2. \A f \in Known : f = NoFence
  BY <1>1 DEF FenceInit, Known, NoFence
<1> QED BY <1>2 DEF OneHolder, FenceInit, NoFence, CoordinatorFence

LEMMA OneHolderStep ==
  ASSUME FenceTypeOK, FenceTypeOK', OneHolder, LeaseAdvances,
         \A f \in Fences' : f \in Known \/ Granted(f)
  PROVE  OneHolder'
<1>1. \A f \in Known' : f \in Known \/ Granted(f)
  BY DEF Known, Granted, CoordinatorFence
<1>2. /\ lease.epoch \in Nat /\ lease'.epoch \in Nat
      /\ \A f \in Known : f.epoch \in Nat
      /\ \A f \in Known' : f.epoch \in Nat
  BY <1>1, KnownFence DEF FenceTypeOK, Granted
<1>3. \A f \in Known : f.epoch = lease.epoch => f.holder = lease.holder
  <2>1. CoordinatorFence(lease.holder, lease.epoch) \in Known
    BY DEF Known
  <2> QED BY <2>1 DEF OneHolder, CoordinatorFence
<1>4. \A f \in Known : Granted(f) \/ f.epoch < lease'.epoch
  BY <1>2, <1>3 DEF OneHolder, LeaseAdvances, Granted
<1>5. \A f \in Known' : f.epoch <= lease'.epoch
  BY <1>1, <1>2, <1>4 DEF Granted
<1>6. ASSUME NEW f \in Known', NEW g \in Known', f.epoch = g.epoch
      PROVE  f.holder = g.holder
  <2>1. CASE f \in Known /\ g \in Known
    BY <1>6, <2>1 DEF OneHolder
  <2>2. CASE Granted(f) /\ Granted(g)
    BY <2>2 DEF Granted
  <2>3. CASE Granted(f) /\ ~Granted(g)
    <3>1. g \in Known /\ g.epoch < lease'.epoch
      BY <1>1, <1>4, <2>3
    <3> QED BY <1>2, <1>6, <2>3, <3>1 DEF Granted
  <2>4. CASE Granted(g) /\ ~Granted(f)
    <3>1. f \in Known /\ f.epoch < lease'.epoch
      BY <1>1, <1>4, <2>4
    <3> QED BY <1>2, <1>6, <2>4, <3>1 DEF Granted
  <2> QED BY <1>1, <2>1, <2>2, <2>3, <2>4
<1> QED BY <1>5, <1>6 DEF OneHolder

Allowed(f) == f \in Known \/ Granted(f)

AllAllowed ==
  /\ LeaseAdvances
  /\ \A p \in Processes :
       Allowed(fence'[p]) /\ Allowed(renewal'[p]) /\ \A f \in writes'[p] : Allowed(f)
  /\ Allowed(checkpoint') /\ Allowed(delegation'.fence) /\ Allowed(last')

LEMMA AllowedStep ==
  ASSUME FenceTypeOK, FenceTypeOK', OneHolder, AllAllowed
  PROVE  OneHolder'
<1> HIDE DEF Processes
<1>1. ASSUME NEW f \in Fences' PROVE Allowed(f)
  <2>1. \/ f \in {fence'[p] : p \in Processes}
        \/ f \in {renewal'[p] : p \in Processes}
        \/ f \in UNION {writes'[p] : p \in Processes}
        \/ f \in {checkpoint', delegation'.fence, last'}
    BY <1>1 DEF Fences
  <2> QED BY <2>1 DEF AllAllowed
<1> QED BY <1>1, OneHolderStep DEF AllAllowed, Allowed

LEMMA OldAllowed ==
  /\ \A p \in Processes :
       Allowed(fence[p]) /\ Allowed(renewal[p]) /\ \A f \in writes[p] : Allowed(f)
  /\ Allowed(checkpoint) /\ Allowed(delegation.fence) /\ Allowed(last)
  /\ Allowed(NoFence) /\ Allowed(NoDelegation.fence)
  /\ Allowed(CoordinatorFence(lease.holder, lease.epoch))
BY FencesAre DEF Allowed, Known, NoDelegation

LEMMA CoordinatorAllowed ==
  ASSUME FenceTypeOK, NEW c \in Coordinators, CoordinatorStep(c)
  PROVE  AllAllowed
<1> USE OldAllowed DEF FenceTypeOK, AllAllowed, LeaseAdvances, database, runtime, mutations
<1> HIDE DEF Allowed, NoFence, Fence
<1>0. ASSUME AcquireLease(c)
      PROVE  LeaseAdvances /\ Allowed(CoordinatorFence(c, TokenFor(c)))
  BY <1>0 DEF AcquireLease, Acquirable, TokenFor, Allowed, Granted, CoordinatorFence
<1>1. CASE Activate(c)
  BY <1>0, <1>1 DEF Activate
<1>2. CASE Activated(c)
  BY <1>2 DEF Activated, RecordCheckpoint
<1>3. CASE ActivationFails(c)
  BY <1>3 DEF ActivationFails, BecomeFenced
<1>4. CASE StartStandby(c)
  BY <1>4 DEF StartStandby
<1>5. CASE AskPromotion(c)
  BY <1>5 DEF AskPromotion
<1>6. CASE Promote(c)
  <2> DEFINE granted == CoordinatorFence(c, lease.epoch + 1)
  <2>1. /\ lease' = [holder |-> c, epoch |-> granted.epoch, live |-> TRUE]
        /\ checkpoint' = granted
        /\ delegation' = delegation \/ delegation' = NoDelegation
        /\ fence' = [fence EXCEPT ![c] = granted]
        /\ UNCHANGED <<renewal, writes, last>>
    BY <1>6 DEF Promote, PromotionAnswered, AcquireForPromotion
  <2>2. LeaseAdvances /\ Allowed(granted)
    BY <2>1 DEF Allowed, Granted, CoordinatorFence
  <2> HIDE DEF granted
  <2> QED BY <2>1, <2>2
<1>7. CASE PromotionRefused(c)
  BY <1>7 DEF PromotionRefused, PromotionAnswered
<1>8. CASE PromotionFails(c)
  BY <1>8 DEF PromotionFails, PromotionAnswered
<1>9. CASE RenewLease(c)
  <2>1. CASE AcquireLease(c) /\ renewal' = [renewal EXCEPT ![c] = CoordinatorFence(c, TokenFor(c))]
    BY <1>0, <1>9, <2>1 DEF RenewLease
  <2>2. CASE renewal' = [renewal EXCEPT ![c] = NoFence] /\ UNCHANGED lease
    BY <1>9, <2>2 DEF RenewLease
  <2> QED BY <1>9, <2>1, <2>2 DEF RenewLease
<1> QED BY <1>1, <1>2, <1>3, <1>4, <1>5, <1>6, <1>7, <1>8, <1>9 DEF CoordinatorStep

LEMMA WorkerAllowed ==
  ASSUME FenceTypeOK, NEW w \in Workers, WorkerStep(w)
  PROVE  AllAllowed
<1> USE OldAllowed DEF FenceTypeOK, AllAllowed, LeaseAdvances, database, runtime, mutations
<1> HIDE DEF Allowed, NoFence, Fence
<1>0. ASSUME NEW c, AcquireWorkerLease(w, c), lease' = lease
      PROVE  Allowed(DelegationFor(w, c)) /\ delegation'.fence = DelegationFor(w, c)
  BY <1>0 DEF AcquireWorkerLease, Delegable, DelegationFor, Allowed, Granted
<1>1. CASE StartWorker(w)
  <2> PICK c \in Coordinators :
        /\ AcquireWorkerLease(w, c)
        /\ fence' = [fence EXCEPT ![w] = DelegationFor(w, c)]
    BY <1>1 DEF StartWorker
  <2> QED BY <1>0, <1>1 DEF StartWorker
<1>2. CASE RenewDelegation(w)
  <2> DEFINE c == fence[w].holder
  <2>1. CASE AcquireWorkerLease(w, c) /\ renewal' = [renewal EXCEPT ![w] = DelegationFor(w, c)]
    BY <1>0, <1>2, <2>1 DEF RenewDelegation
  <2>2. CASE renewal' = [renewal EXCEPT ![w] = NoFence] /\ UNCHANGED delegation
    BY <1>2, <2>2 DEF RenewDelegation
  <2> QED BY <1>2, <2>1, <2>2 DEF RenewDelegation
<1> QED BY <1>1, <1>2 DEF WorkerStep

LEMMA ProcessAllowed ==
  ASSUME FenceTypeOK, NEW p \in Processes,
         RuntimeStep(p) \/ MutationStep(p) \/ Close(p) \/ Crash(p)
  PROVE  AllAllowed
<1> USE OldAllowed DEF FenceTypeOK, AllAllowed, LeaseAdvances, database, runtime, mutations
<1> HIDE DEF Allowed, NoFence, Fence
<1>1. CASE RenewalKept(p)
  BY <1>1 DEF RenewalKept, RecordCheckpoint
<1>2. CASE RenewalFails(p)
  BY <1>2 DEF RenewalFails, BecomeFenced
<1>3. CASE RenewalEnds(p)
  BY <1>3 DEF RenewalEnds
<1>4. CASE SelfFence(p)
  BY <1>4 DEF SelfFence, BecomeFenced
<1>5. CASE Mutate(p)
  BY <1>5 DEF Mutate
<1>6. CASE MutationCommits(p)
  <2> PICK f \in writes[p] : Transact(f) /\ writes' = [writes EXCEPT ![p] = @ \ {f}]
    BY <1>6 DEF MutationCommits
  <2>1. last' = CoordinatorFence(lease.holder, lease.epoch)
    BY DEF Transact, AssertFence, AssertCoordinator
  <2> QED BY <1>6, <2>1 DEF MutationCommits
<1>7. CASE MutationFails(p)
  BY <1>7 DEF MutationFails
<1>8. CASE Close(p)
  <2>1. /\ checkpoint' = checkpoint
        /\ lease' = lease \/ lease' = [lease EXCEPT !.live = FALSE]
        /\ delegation' = delegation \/ delegation' = NoDelegation
    BY <1>8, ReleaseEffect DEF Close
  <2>2. lease'.epoch = lease.epoch /\ lease'.holder = lease.holder
    BY <2>1
  <2> QED BY <1>8, <2>1, <2>2 DEF Close, Stop, BecomeFenced
<1>9. CASE Crash(p)
  BY <1>9 DEF Crash, Stop, BecomeFenced
<1> QED BY <1>1, <1>2, <1>3, <1>4, <1>5, <1>6, <1>7, <1>8, <1>9 DEF RuntimeStep, MutationStep

LEMMA ExpiryAllowed ==
  ASSUME FenceTypeOK, ExpireLease \/ ExpireDelegation
  PROVE  AllAllowed
BY OldAllowed DEF FenceTypeOK, AllAllowed, LeaseAdvances, ExpireLease, ExpireDelegation, runtime, mutations

FenceInvariant == FenceTypeOK /\ OneHolder

THEOREM FenceInvariantHolds == FenceSpec => []FenceInvariant
<1>1. FenceInit => FenceInvariant
  BY TypeInit, OneHolderInit DEF FenceInvariant
<1>2. FenceInvariant /\ FenceTypeOK' /\ [FenceNext]_fenceVars => FenceInvariant'
  <2> SUFFICES ASSUME FenceTypeOK, OneHolder, FenceTypeOK', [FenceNext]_fenceVars PROVE OneHolder'
    BY DEF FenceInvariant
  <2>1. CASE UNCHANGED fenceVars
    BY <2>1 DEF OneHolder, Known, Fences, fenceVars, database, runtime, mutations
  <2>2. CASE FenceNext
    <3>1. AllAllowed
      BY <2>2, CoordinatorAllowed, WorkerAllowed, ProcessAllowed, ExpiryAllowed DEF FenceNext
    <3> QED BY <3>1, AllowedStep
  <2> QED BY <2>1, <2>2
<1> QED BY <1>1, <1>2, FenceTypeCorrect, PTL DEF FenceSpec

(* An epoch has one holder, and no fence in memory, in flight or in a row is
   ahead of the lease row, for every number of processes, epochs and crashes.
   (acquireLease, acquireLeaseForPromotion) *)
THEOREM OneHolderPerEpochAlways == FenceSpec => []OneHolderPerEpoch
<1>1. FenceInvariant => OneHolderPerEpoch
  BY OneHolderSuffices DEF FenceInvariant
<1> QED BY <1>1, FenceInvariantHolds, PTL

(* Mutations commit in the order of the epochs: after the first one of a new
   epoch, none of an earlier one, whoever sent it and whenever, is committed.
   (assertFence) *)
THEOREM FormerWriterIsSilentAlways == FenceSpec => FormerWriterIsSilent
<1> DEFINE InOrder == /\ last'.epoch >= last.epoch
                      /\ last'.epoch = last.epoch => last'.holder = last.holder
<1>1. FenceTypeOK /\ OneHolderPerEpoch /\ [FenceNext]_fenceVars => [InOrder]_fenceVars
  <2> SUFFICES ASSUME FenceTypeOK, OneHolderPerEpoch, FenceNext PROVE InOrder
    OBVIOUS
  <2>0. last.epoch \in Nat /\ last \in Fences
    BY FencesAre DEF FenceTypeOK, Fence
  <2>1. CASE last' = last
    BY <2>0, <2>1
  <2>2. ASSUME NEW p \in Processes, MutationCommits(p) PROVE InOrder
    <3>1. last' = CoordinatorFence(lease.holder, lease.epoch)
      BY <2>2 DEF MutationCommits, Transact, AssertFence, AssertCoordinator
    <3>2. last.epoch <= lease.epoch /\ (last.epoch = lease.epoch => last.holder = lease.holder)
      BY <2>0 DEF OneHolderPerEpoch
    <3> QED BY <2>0, <3>1, <3>2 DEF CoordinatorFence, FenceTypeOK
  <2>3. (\A p \in Processes : ~MutationCommits(p)) => last' = last
    BY DEF FenceNext, CoordinatorStep, WorkerStep, RuntimeStep, MutationStep, mutations,
           Activate, Activated, ActivationFails, StartStandby, AskPromotion, Promote,
           PromotionRefused, PromotionFails, PromotionAnswered, RenewLease, StartWorker,
           RenewDelegation, RenewalKept, RenewalFails, RenewalEnds, SelfFence, Mutate,
           MutationFails, Close, Crash, ExpireLease, ExpireDelegation
  <2> QED BY <2>1, <2>2, <2>3
<1> QED BY <1>1, FenceTypeCorrect, OneHolderPerEpochAlways, PTL DEF FenceSpec, FormerWriterIsSilent
-------------------------------------------------------------------------------
(* HostedFence implements WriterEpoch *)

(* What a coordinator keeps is a fence of its own. *)
OwnFence ==
  \A c \in Coordinators :
    /\ fence[c].epoch # 0 => fence[c].holder = c
    /\ renewal[c].epoch # 0 => renewal[c].holder = c

LEMMA OwnFenceStep ==
  ASSUME FenceTypeOK, OwnFence, FenceNext
  PROVE  OwnFence'
<1> USE DEF FenceTypeOK, OwnFence, runtime, NoFence, CoordinatorFence
<1>1. ASSUME NEW c \in Coordinators, CoordinatorStep(c) PROVE OwnFence'
  <2>1. CASE RenewLease(c)
    <3>1. renewal' = [renewal EXCEPT ![c] = CoordinatorFence(c, TokenFor(c))] \/ renewal' = [renewal EXCEPT ![c] = NoFence]
      BY <2>1 DEF RenewLease
    <3>2. fence' = fence
      BY <2>1 DEF RenewLease
    <3> QED BY <3>1, <3>2
  <2>2. CASE Activate(c) \/ Activated(c) \/ ActivationFails(c) \/ StartStandby(c) \/ AskPromotion(c)
    BY <2>2 DEF Activate, Activated, ActivationFails, StartStandby, AskPromotion, BecomeFenced
  <2>3. CASE Promote(c) \/ PromotionRefused(c) \/ PromotionFails(c)
    BY <2>3 DEF Promote, PromotionRefused, PromotionFails, PromotionAnswered
  <2> QED BY <1>1, <2>1, <2>2, <2>3 DEF CoordinatorStep
<1>2. ASSUME NEW w \in Workers, WorkerStep(w) PROVE OwnFence'
  <2>1. w \notin Coordinators
    OBVIOUS
  <2>2. \A c \in Coordinators : fence'[c] = fence[c] /\ renewal'[c] = renewal[c]
    BY <1>2, <2>1 DEF WorkerStep, StartWorker, RenewDelegation
  <2> QED BY <2>2
<1>3. ASSUME NEW p \in Processes, RuntimeStep(p) \/ MutationStep(p) \/ Close(p) \/ Crash(p) PROVE OwnFence'
  <2>1. /\ fence' = fence \/ fence' = [fence EXCEPT ![p] = NoFence] \/ fence' = [fence EXCEPT ![p] = renewal[p]]
        /\ renewal' = renewal \/ renewal' = [renewal EXCEPT ![p] = NoFence]
    <3>1. CASE RuntimeStep(p)
      BY <3>1 DEF RuntimeStep, RenewalKept, RenewalFails, RenewalEnds, SelfFence, BecomeFenced
    <3>2. CASE MutationStep(p)
      BY <3>2 DEF MutationStep, Mutate, MutationCommits, MutationFails
    <3>3. CASE Close(p) \/ Crash(p)
      BY <3>3 DEF Close, Crash, Stop, BecomeFenced
    <3> QED BY <1>3, <3>1, <3>2, <3>3
  <2>2. fence \in [Processes -> Fence] /\ renewal \in [Processes -> Fence] /\ NoFence.epoch = 0
    OBVIOUS
  <2>3. ASSUME NEW c \in Coordinators
        PROVE  /\ fence'[c] \in {fence[c], NoFence, renewal[c]}
               /\ renewal'[c] \in {renewal[c], NoFence}
    <3>1. c \in Processes
      BY DEF Processes
    <3> QED BY <2>1, <2>2, <3>1
  <2> QED BY <2>2, <2>3
<1>4. CASE ExpireLease \/ ExpireDelegation
  BY <1>4 DEF ExpireLease, ExpireDelegation
<1> QED BY <1>1, <1>2, <1>3, <1>4 DEF FenceNext

held == [c \in Coordinators |-> fence[c].epoch]

(* a coordinator's fence is replaced, at most one *)
HeldBy(c, e) == held' = [held EXCEPT ![c] = e]

LEMMA FenceEpoch ==
  NoFence.epoch = 0 /\ \A c, e : CoordinatorFence(c, e).epoch = e
BY DEF NoFence, CoordinatorFence

LEMMA HeldUpdate ==
  ASSUME FenceTypeOK, NEW p \in Processes, NEW f, fence' = [fence EXCEPT ![p] = f]
  PROVE  (p \in Coordinators => HeldBy(p, f.epoch)) /\ (p \notin Coordinators => held' = held)
<1>1. \A c \in Coordinators : fence'[c] = IF c = p THEN f ELSE fence[c]
  BY DEF FenceTypeOK
<1>2. held' = [c \in Coordinators |-> fence'[c].epoch]
  BY DEF held
<1>3. CASE p \in Coordinators
  <2>1. [held EXCEPT ![p] = f.epoch] = [c \in Coordinators |-> IF c = p THEN f.epoch ELSE fence[c].epoch]
    BY DEF held
  <2> QED BY <1>1, <1>2, <1>3, <2>1 DEF HeldBy
<1>4. CASE p \notin Coordinators
  BY <1>1, <1>2, <1>4 DEF held
<1> QED BY <1>3, <1>4

LEMMA MayHoldItsFence ==
  ASSUME FenceTypeOK, OneHolderPerEpoch, OwnFence, NEW c \in Coordinators
  PROVE  Epoch!MayHold(c, held[c], lease)
<1>1. fence[c] \in Fences
  BY FencesAre
<1> QED BY <1>1 DEF held, Epoch!MayHold, OneHolderPerEpoch, OwnFence
(* The steps of WriterEpoch, by what happens to the lease row *)

LEMMA HoldStep ==
  ASSUME FenceTypeOK', OneHolderPerEpoch', OwnFence', lease' = lease,
         held' = held \/ \E c \in Coordinators : \E e : HeldBy(c, e)
  PROVE  Epoch!EpochStep \/ UNCHANGED Epoch!epochVars
<1>1. CASE held' = held
  BY <1>1 DEF Epoch!epochVars, held
<1>2. ASSUME NEW c \in Coordinators, NEW e, HeldBy(c, e)
      PROVE  Epoch!EpochStep
  <2>1. held'[c] = e
    BY <1>2 DEF HeldBy, held
  <2>2. fence'[c] \in Fences'
    BY DEF Fences
  <2>3. Epoch!MayHold(c, e, lease)
    BY <2>1, <2>2 DEF Epoch!MayHold, OneHolderPerEpoch, OwnFence, held
  <2>4. e \in 0..MaxEpoch
    BY <2>1 DEF held, FenceTypeOK, Fence
  <2>5. Epoch!Hold(c, e)
    BY <1>2, <2>3 DEF Epoch!Hold, HeldBy, held
  <2> QED BY <2>4, <2>5 DEF Epoch!EpochStep
<1> QED BY <1>1, <1>2

LEMMA GrantStep ==
  ASSUME NEW c \in Coordinators, ~lease.live, lease.epoch < MaxEpoch,
         lease' = [holder |-> c, epoch |-> lease.epoch + 1, live |-> TRUE],
         held' = held \/ HeldBy(c, lease.epoch + 1)
  PROVE  Epoch!EpochStep
<1>1. held = [held EXCEPT ![c] = held[c]]
  BY DEF held
<1>2. \E e \in {held[c], lease.epoch + 1} : held' = [held EXCEPT ![c] = e]
  BY <1>1 DEF HeldBy
<1> QED BY <1>2 DEF Epoch!EpochStep, Epoch!Grant, held

LEMMA LapseStep ==
  ASSUME lease.live, lease' = [lease EXCEPT !.live = FALSE],
         held' = held \/ HeldBy(lease.holder, 0)
  PROVE  Epoch!EpochStep
BY DEF Epoch!EpochStep, Epoch!Lapse, HeldBy, held

LEMMA RowUnchanged ==
  ASSUME FenceTypeOK, NEW live \in BOOLEAN, lease.live = live
  PROVE  /\ [lease EXCEPT !.live = live] = lease
         /\ [holder |-> lease.holder, epoch |-> lease.epoch, live |-> live] = lease
BY DEF FenceTypeOK

(* acquireLease is a grant, or leaves the row as it is *)
LEMMA AcquireStep ==
  ASSUME FenceTypeOK, NEW c \in Coordinators, AcquireLease(c)
  PROVE  \/ lease' = lease
         \/ /\ ~lease.live /\ lease.epoch < MaxEpoch
            /\ lease' = [holder |-> c, epoch |-> lease.epoch + 1, live |-> TRUE]
            /\ TokenFor(c) = lease.epoch + 1
<1>1. CASE lease.live
  BY <1>1, RowUnchanged DEF AcquireLease, Acquirable, TokenFor
<1>2. CASE ~lease.live
  BY <1>2 DEF AcquireLease, TokenFor, FenceTypeOK
<1> QED BY <1>1, <1>2 DEF FenceTypeOK
(* At most one coordinator's fence changes when no epoch is granted and none lapses *)
OneHeldChanges == held' = held \/ \E c \in Coordinators : \E e : HeldBy(c, e)

Simulated == Epoch!EpochStep \/ UNCHANGED Epoch!epochVars

LEMMA OneHeld ==
  ASSUME FenceTypeOK, NEW p \in Processes, NEW f,
         fence' = fence \/ fence' = [fence EXCEPT ![p] = f]
  PROVE  OneHeldChanges
<1>1. CASE fence' = fence
  BY <1>1 DEF OneHeldChanges, held
<1>2. CASE fence' = [fence EXCEPT ![p] = f]
  BY <1>2, HeldUpdate DEF OneHeldChanges
<1> QED BY <1>1, <1>2

LEMMA CoordinatorSimulated ==
  ASSUME FenceTypeOK, FenceTypeOK', OneHolderPerEpoch', OwnFence',
         NEW c \in Coordinators, CoordinatorStep(c)
  PROVE  Simulated
<1>0. c \in Processes
  OBVIOUS
<1>1. CASE Activate(c)
  <2>1. AcquireLease(c) /\ fence' = [fence EXCEPT ![c] = CoordinatorFence(c, TokenFor(c))]
    BY <1>1 DEF Activate
  <2>2. HeldBy(c, TokenFor(c))
    BY <1>0, <2>1, HeldUpdate, FenceEpoch
  <2> QED BY <2>1, <2>2, AcquireStep, HoldStep, GrantStep DEF Simulated
<1>2. CASE Promote(c)
  <2>1. /\ ~lease.live /\ lease.epoch < MaxEpoch
        /\ lease' = [holder |-> c, epoch |-> lease.epoch + 1, live |-> TRUE]
        /\ fence' = [fence EXCEPT ![c] = CoordinatorFence(c, lease.epoch + 1)]
    BY <1>2 DEF Promote, AcquireForPromotion, PromotionAllowed, CoordinatorFence, FenceTypeOK
  <2> DEFINE granted == CoordinatorFence(c, lease.epoch + 1)
  <2>2. granted.epoch = lease.epoch + 1
    BY FenceEpoch
  <2> HIDE DEF granted
  <2>3. HeldBy(c, granted.epoch)
    BY <1>0, <2>1, HeldUpdate DEF granted
  <2> QED BY <2>1, <2>2, <2>3, GrantStep DEF Simulated
<1>3. CASE RenewLease(c)
  <2>1. fence' = fence /\ (AcquireLease(c) \/ lease' = lease)
    BY <1>3 DEF RenewLease
  <2>2. held' = held
    BY <2>1 DEF held
  <2> QED BY <2>1, <2>2, AcquireStep, HoldStep, GrantStep DEF Simulated
<1>4. CASE Activated(c) \/ ActivationFails(c) \/ StartStandby(c) \/ AskPromotion(c)
           \/ PromotionRefused(c) \/ PromotionFails(c)
  <2>1. lease' = lease /\ (fence' = fence \/ fence' = [fence EXCEPT ![c] = NoFence])
    BY <1>4 DEF Activated, ActivationFails, StartStandby, AskPromotion, PromotionRefused,
                PromotionFails, BecomeFenced, database
  <2> QED BY <1>0, <2>1, OneHeld, HoldStep DEF OneHeldChanges, Simulated
<1> QED BY <1>1, <1>2, <1>3, <1>4 DEF CoordinatorStep

LEMMA WorkerSimulated ==
  ASSUME FenceTypeOK, FenceTypeOK', OneHolderPerEpoch', OwnFence',
         NEW w \in Workers, WorkerStep(w)
  PROVE  Simulated
<1>1. lease' = lease
  BY DEF WorkerStep, StartWorker, RenewDelegation
<1>2. fence' = fence \/ \E f : fence' = [fence EXCEPT ![w] = f]
  BY DEF WorkerStep, StartWorker, RenewDelegation
<1>3. OneHeldChanges
  BY <1>2, OneHeld
<1> QED BY <1>1, <1>3, HoldStep DEF OneHeldChanges, Simulated

LEMMA CloseSimulated ==
  ASSUME FenceTypeOK, OwnFence, FenceTypeOK', OneHolderPerEpoch', OwnFence',
         NEW p \in Processes, Close(p)
  PROVE  Simulated
<1>1. Release(fence[p]) /\ fence' = [fence EXCEPT ![p] = NoFence]
  BY DEF Close, Stop, BecomeFenced
<1>2. CASE lease' = lease
  BY <1>1, <1>2, OneHeld, HoldStep DEF OneHeldChanges, Simulated
<1>3. CASE lease' # lease
  <2>1. /\ fence[p] # NoFence /\ fence[p] = CoordinatorFence(lease.holder, lease.epoch)
        /\ lease' = [lease EXCEPT !.live = FALSE]
    BY <1>1, <1>3 DEF Release
  <2>2. lease.live
    BY <1>3, <2>1, RowUnchanged DEF FenceTypeOK
  <2>3. held' = held \/ HeldBy(lease.holder, 0)
    <3>1. CASE p \notin Coordinators
      BY <1>1, <3>1, HeldUpdate
    <3>2. CASE p \in Coordinators /\ fence[p].epoch # 0
      <4>1. p = lease.holder
        BY <2>1, <3>2 DEF OwnFence, CoordinatorFence
      <4> QED BY <1>1, <3>2, <4>1, HeldUpdate, FenceEpoch
    <3>3. CASE p \in Coordinators /\ fence[p].epoch = 0
      <4>1. HeldBy(p, held[p])
        <5>1. held[p] = 0
          BY <3>3 DEF held
        <5> QED BY <1>1, <3>3, <5>1, HeldUpdate, FenceEpoch
      <4> QED BY <4>1 DEF HeldBy, held
    <3> QED BY <3>1, <3>2, <3>3
  <2> QED BY <2>1, <2>2, <2>3, LapseStep DEF Simulated
<1> QED BY <1>2, <1>3

LEMMA ProcessSimulated ==
  ASSUME FenceTypeOK, OwnFence, FenceTypeOK', OneHolderPerEpoch', OwnFence',
         NEW p \in Processes, RuntimeStep(p) \/ MutationStep(p) \/ Close(p) \/ Crash(p)
  PROVE  Simulated
<1>1. CASE Close(p)
  BY <1>1, CloseSimulated
<1>2. CASE RuntimeStep(p) \/ MutationStep(p) \/ Crash(p)
  <2>1. lease' = lease
    BY <1>2 DEF RuntimeStep, MutationStep, Crash, RenewalKept, RenewalFails, RenewalEnds,
                SelfFence, Mutate, MutationCommits, MutationFails, database
  <2>2. fence' = fence \/ \E f : fence' = [fence EXCEPT ![p] = f]
    BY <1>2 DEF RuntimeStep, MutationStep, Crash, Stop, BecomeFenced, RenewalKept, RenewalFails,
                RenewalEnds, SelfFence, Mutate, MutationCommits, MutationFails, runtime
  <2>3. OneHeldChanges
    BY <2>2, OneHeld
  <2> QED BY <2>1, <2>3, HoldStep DEF OneHeldChanges, Simulated
<1> QED BY <1>1, <1>2

LEMMA ExpirySimulated ==
  ASSUME FenceTypeOK, FenceTypeOK', OneHolderPerEpoch', OwnFence',
         ExpireLease \/ ExpireDelegation
  PROVE  Simulated
<1>1. held' = held
  BY DEF ExpireLease, ExpireDelegation, runtime, held
<1>2. CASE ExpireLease
  BY <1>1, <1>2, LapseStep DEF ExpireLease, Simulated
<1>3. CASE ExpireDelegation
  BY <1>1, <1>3, HoldStep DEF ExpireDelegation, Simulated
<1> QED BY <1>2, <1>3

LEMMA EpochInitially == FenceInit => Epoch!EpochInit
BY DEF FenceInit, Epoch!EpochInit, NoFence, CoordinatorFence

(* The lease rows, the renewals and the promotions implement WriterEpoch, on
   which the components that write under the lease are built.  (hosted-runtime.ts,
   postgres-hosted-store.ts) *)
THEOREM FenceImplementsWriterEpoch == FenceSpec => ImplementsWriterEpoch
<1>1. FenceInit => OwnFence
  BY DEF FenceInit, OwnFence, NoFence, CoordinatorFence
<1>2. FenceTypeOK /\ OwnFence /\ [FenceNext]_fenceVars => OwnFence'
  <2> SUFFICES ASSUME FenceTypeOK, OwnFence, UNCHANGED fenceVars PROVE OwnFence'
    BY OwnFenceStep
  <2> QED BY DEF OwnFence, fenceVars, runtime
<1>3. FenceSpec => []OwnFence
  BY <1>1, <1>2, FenceTypeCorrect, PTL DEF FenceSpec
<1>4. /\ FenceTypeOK /\ OwnFence /\ [FenceNext]_fenceVars
      /\ FenceTypeOK' /\ OneHolderPerEpoch' /\ OwnFence'
      => [Epoch!EpochStep]_(Epoch!epochVars)
  <2> SUFFICES ASSUME FenceTypeOK, OwnFence, [FenceNext]_fenceVars,
                      FenceTypeOK', OneHolderPerEpoch', OwnFence'
               PROVE  Simulated
    BY DEF Simulated
  <2>1. CASE UNCHANGED fenceVars
    BY <2>1 DEF Simulated, Epoch!epochVars, fenceVars, database, runtime
  <2> QED BY <2>1, CoordinatorSimulated, WorkerSimulated, ProcessSimulated, ExpirySimulated DEF FenceNext
<1> QED BY <1>3, <1>4, EpochInitially, FenceTypeCorrect, OneHolderPerEpochAlways, PTL
        DEF FenceSpec, ImplementsWriterEpoch, Epoch!EpochSpec

-----------------------------------------------------------------------------
(* The capacity worker.  What the provider was told of a key, and what it may still be
   told under a lease that some worker holds, are attempts that the key's row counted. *)

Row == [key : Keys \cup Signals \cup {NoKey}, attempts : 0 .. MaxAttempts, token : Nat,
        live : BOOLEAN,
        status : {"none", "PENDING", "LEASED", "RETRY", "APPLIED", "SENT", "FAILED"}]
OpRow == [state : {"DRAINING", "RETIRED"}, attempts : Nat, live : BOOLEAN, bound : Nat,
          status : Unfinished \cup {"APPLIED", "FAILED"}]
Leases == [of : Tasks \cup Ops, key : Keys \cup Signals \cup Ops, token : Nat]
Runs == [stage : Stages, batch : SUBSET Leases, doing : Leases \cup {NoLease},
         answer : Answers \cup {NoAnswer}]

(* A row names an operation of its own, once it has one. *)
NamedRow(t, r, keys) ==
  /\ r \in Row
  /\ r.status = "none" <=> r.key = NoKey
  /\ r.status = "none" => r.token = 0 /\ ~r.live
  /\ r.key \in {NoKey} \cup (IF t = Allocation THEN keys ELSE {t})

RowsNamed(rows, keys) ==
  /\ rows \in [Tasks -> Row] /\ keys \subseteq Keys
  /\ \A t \in Tasks : NamedRow(t, rows[t], keys)

RowsDone(rows, carried) ==
  \A t \in Tasks : rows[t].status \in {"APPLIED", "SENT"} => rows[t].key \in carried

(* A lease was given for a row; while the row is leased under its token, it is of the
   operation that the row names. *)
Asked(k, rows, keys) == k \in keys \/ (k \in Signals /\ rows[k].status # "none")

LeaseStands(l, rows, keys) ==
  /\ l.of \in Ops => l.key = l.of
  /\ l.of \in Tasks =>
       /\ l.key \in Keys \cup Signals /\ Asked(l.key, rows, keys)
       /\ rows[l.of].status # "none" /\ l.token <= rows[l.of].token
       /\ rows[l.of].status = "LEASED" /\ l.token = rows[l.of].token => l.key = rows[l.of].key

RunStands(r, rows, keys, carried) ==
  /\ \A l \in r.batch : LeaseStands(l, rows, keys)
  /\ \A l, m \in r.batch : l.of \in Tasks => l = m
  /\ r.doing # NoLease => LeaseStands(r.doing, rows, keys) /\ r.answer \in Answers
  /\ r.doing # NoLease /\ r.answer = "APPLIED" => r.doing.key \in carried

(* workers that will call for k under a lease they hold *)
Calling(k, runs) == {w \in CapacityWorkers : \E l \in runs[w].batch : l.key = k}
Spent(k, cs, runs) == cs[k] + Cardinality(Calling(k, runs))

CallsCounted(rows, keys, cs, runs) ==
  /\ cs \in [Keys \cup Signals -> Nat]
  /\ \A k \in Keys \cup Signals :
       Spent(k, cs, runs) <= MaxAttempts /\ (~Asked(k, rows, keys) => cs[k] = 0)
  /\ \A t \in Tasks : rows[t].key # NoKey => Spent(rows[t].key, cs, runs) <= rows[t].attempts

TasksInv(rows, keys, cs, runs, carried) ==
  /\ RowsNamed(rows, keys) /\ RowsDone(rows, carried) /\ CallsCounted(rows, keys, cs, runs)
  /\ runs \in [CapacityWorkers -> Runs]
  /\ \A w \in CapacityWorkers : RunStands(runs[w], rows, keys, carried)

NodeInv ==
  /\ op \in Seq(OpRow) /\ Len(op) <= MaxOps /\ fact \in [Ops -> [block : Nat, final : BOOLEAN]]
  /\ \A o \in DOMAIN op : op[o].status \in {"VERIFYING", "APPLIED", "RECOVERY_REQUIRED"} => o \in done
  /\ \A o \in Ops : fact[o] # NoFact => o \in done

CapacityInv == NodeInv /\ load \in Loads /\ TasksInv(task, past, calls, run, done)

LEMMA Names ==
  /\ Keys \cap Signals = {} /\ NoKey \notin Keys \cup Signals /\ Allocation \notin Signals
  /\ \A k \in Keys \cup Signals \cup {Allocation} : k \notin Nat
  /\ NoLease \notin Leases /\ Ops \subseteq Nat /\ Tasks \cap Ops = {}
  /\ Signals \subseteq Tasks /\ Allocation \in Tasks /\ MaxAttempts \in Nat \ {0} /\ MaxOps \in Nat
BY KeysAssumption, AttemptsAssumption, OpsAssumption, NamesAssumption DEF Leases, Ops, Tasks

-----------------------------------------------------------------------------
(* Rows. *)

LEMMA LeasedRowType ==
  ASSUME NEW r \in Row, Tryable(r)
  PROVE  /\ LeasedRow(r) \in Row /\ LeasedRow(r).key = r.key /\ LeasedRow(r).status = "LEASED"
         /\ LeasedRow(r).token = r.token + 1 /\ LeasedRow(r).attempts = r.attempts + 1
<1>1. r.attempts + 1 \in 0 .. MaxAttempts
  BY Names DEF Row, Tryable
<1>2. r.token + 1 \in Nat
  BY DEF Row
<1> DEFINE n == r.attempts + 1
           m == r.token + 1
<1>3. LeasedRow(r) = [r EXCEPT !.status = "LEASED", !.live = TRUE, !.token = m, !.attempts = n]
  BY DEF LeasedRow, Tried, Row
<1>4. n \in 0 .. MaxAttempts /\ m \in Nat
  BY <1>1, <1>2
<1> HIDE DEF n, m
<1>5. LeasedRow(r) \in Row
  BY <1>3, <1>4 DEF Row
<1>6. /\ LeasedRow(r).key = r.key /\ LeasedRow(r).status = "LEASED"
      /\ LeasedRow(r).token = m /\ LeasedRow(r).attempts = n
  BY <1>3 DEF Row
<1> QED
  BY <1>5, <1>6 DEF n, m

LEMMA AnsweredType ==
  ASSUME NEW r \in Row, NEW answer \in Answers, NEW success \in {"APPLIED", "SENT"}
  PROVE  /\ Answered(r, answer, success) \in Row
         /\ Answered(r, answer, success).key = r.key
         /\ Answered(r, answer, success).token = r.token
         /\ Answered(r, answer, success).attempts = r.attempts
         /\ Answered(r, answer, success).status \notin {"none", "LEASED"}
         /\ Answered(r, answer, success).status \in {"APPLIED", "SENT"} => answer = "APPLIED"
<1>1. /\ Status(r.attempts, answer, success) \in {"RETRY", "APPLIED", "SENT", "FAILED"}
      /\ Status(r.attempts, answer, success) \in {"APPLIED", "SENT"} => answer = "APPLIED"
  BY DEF Answers, Status
<1> DEFINE s == Status(r.attempts, answer, success)
<1> HIDE DEF s
<1>2. Answered(r, answer, success) = [r EXCEPT !.status = s, !.live = FALSE]
  BY DEF Answered, s
<1> QED
  BY <1>1, <1>2 DEF Row, s

LEMMA ExpiredType ==
  ASSUME NEW r \in Row
  PROVE  /\ [r EXCEPT !.live = FALSE] \in Row
         /\ [r EXCEPT !.live = FALSE].key = r.key /\ [r EXCEPT !.live = FALSE].token = r.token
         /\ [r EXCEPT !.live = FALSE].attempts = r.attempts
         /\ [r EXCEPT !.live = FALSE].status = r.status
BY DEF Row

Fresh(r, k) == r \in Row /\ r.key = k /\ r.status = "PENDING" /\ r.attempts = 0

LEMMA NewRow ==
  ASSUME NEW k \in Keys \cup Signals
  PROVE  Fresh([NoTask EXCEPT !.key = k, !.status = "PENDING"], k)
<1>1. NoTask \in Row
  BY Names DEF NoTask, Row
<1>2. [NoTask EXCEPT !.key = k, !.status = "PENDING"] \in Row
  BY <1>1 DEF Row
<1> QED
  BY <1>2 DEF NoTask, Fresh

LEMMA RowAfresh ==
  ASSUME NEW k \in Keys \cup Signals, NEW n \in Nat
  PROVE  /\ Fresh([NoTask EXCEPT !.key = k, !.status = "PENDING", !.token = n], k)
         /\ [NoTask EXCEPT !.key = k, !.status = "PENDING", !.token = n].token = n
<1>1. NoTask \in Row
  BY Names DEF NoTask, Row
<1>2. [NoTask EXCEPT !.key = k, !.status = "PENDING", !.token = n] \in Row
  BY <1>1 DEF Row
<1> QED
  BY <1>2 DEF NoTask, Fresh

(* What a row may become while leases of it are held. *)
Advances(r, q) ==
  /\ r.status # "none" => q.status # "none"
  /\ r.token <= q.token
  /\ q.status = "LEASED" /\ q.token = r.token => r.status = "LEASED" /\ q.key = r.key

LEMMA LeaseKept ==
  ASSUME NEW l \in Leases, NEW rows \in [Tasks -> Row], NEW next \in [Tasks -> Row],
         NEW keys, NEW more, keys \subseteq more,
         \A t \in Tasks : Advances(rows[t], next[t]), LeaseStands(l, rows, keys)
  PROVE  LeaseStands(l, next, more)
<1>1. CASE l.of \notin Tasks
  BY <1>1 DEF LeaseStands
<1>2. CASE l.of \in Tasks
  <2>1. Asked(l.key, next, more)
    BY <1>2, Names DEF LeaseStands, Asked, Advances
  <2>2. l.token \in Nat /\ rows[l.of].token \in Nat /\ next[l.of].token \in Nat
    BY <1>2 DEF Leases, Row
  <2>3. /\ next[l.of].status # "none" /\ l.token <= next[l.of].token
        /\ next[l.of].status = "LEASED" /\ l.token = next[l.of].token => l.key = next[l.of].key
    BY <1>2, <2>2 DEF LeaseStands, Advances
  <2> QED
    BY <1>2, <2>1, <2>3 DEF LeaseStands
<1> QED
  BY <1>1, <1>2


-----------------------------------------------------------------------------
(* Calls still to come. *)

LEMMA CallersFinite ==
  ASSUME NEW k, NEW runs
  PROVE  IsFiniteSet(Calling(k, runs)) /\ Cardinality(Calling(k, runs)) \in Nat
<1>1. IsFiniteSet(CapacityWorkers) /\ Calling(k, runs) \subseteq CapacityWorkers
  BY WorkersAssumption DEF Calling
<1>2. IsFiniteSet(Calling(k, runs))
  BY <1>1, FS_Subset
<1> QED
  BY <1>2, FS_CardinalityType

LEMMA FewerCall ==
  ASSUME NEW k, NEW runs, NEW after, Calling(k, after) \subseteq Calling(k, runs)
  PROVE  Cardinality(Calling(k, after)) <= Cardinality(Calling(k, runs))
BY CallersFinite, FS_Subset

LEMMA OneMoreCalls ==
  ASSUME NEW k, NEW runs, NEW after, NEW w, Calling(k, after) \subseteq Calling(k, runs) \cup {w}
  PROVE  Cardinality(Calling(k, after)) <= Cardinality(Calling(k, runs)) + 1
<1> DEFINE A == Calling(k, runs)
           B == Calling(k, after)
<1>1. IsFiniteSet(A) /\ Cardinality(A) \in Nat /\ Cardinality(B) \in Nat
  BY CallersFinite
<1>2. B \subseteq A \cup {w}
  OBVIOUS
<1> HIDE DEF A, B
<1>3. IsFiniteSet(A \cup {w}) /\ Cardinality(A \cup {w}) = IF w \in A THEN Cardinality(A) ELSE Cardinality(A) + 1
  BY <1>1, FS_AddElement
<1>4. Cardinality(B) <= Cardinality(A \cup {w})
  BY <1>2, <1>3, FS_Subset
<1>5. Cardinality(B) <= Cardinality(A) + 1
  BY <1>1, <1>3, <1>4
<1> QED
  BY <1>5 DEF A, B

LEMMA OneCalled ==
  ASSUME NEW k, NEW runs, NEW after, NEW w \in Calling(k, runs),
         Calling(k, after) \subseteq Calling(k, runs) \ {w}
  PROVE  Cardinality(Calling(k, after)) + 1 <= Cardinality(Calling(k, runs))
<1> DEFINE A == Calling(k, runs)
           B == Calling(k, after)
<1>1. IsFiniteSet(A) /\ Cardinality(A) \in Nat /\ Cardinality(B) \in Nat
  BY CallersFinite
<1>2. B \subseteq A \ {w} /\ w \in A
  OBVIOUS
<1> HIDE DEF A, B
<1>3. IsFiniteSet(A \ {w}) /\ Cardinality(A \ {w}) = Cardinality(A) - 1
  BY <1>1, <1>2, FS_RemoveElement
<1>4. Cardinality(B) <= Cardinality(A \ {w})
  BY <1>2, <1>3, FS_Subset
<1>5. Cardinality(B) + 1 <= Cardinality(A)
  BY <1>1, <1>3, <1>4
<1> QED
  BY <1>5 DEF A, B

(* Nobody calls for an operation that was never requested. *)
LEMMA NotAskedIsQuiet ==
  ASSUME NEW rows, NEW keys, NEW cs, NEW runs, NEW carried,
         TasksInv(rows, keys, cs, runs, carried),
         NEW k \in Keys \cup Signals, ~Asked(k, rows, keys)
  PROVE  Calling(k, runs) = {} /\ Spent(k, cs, runs) = 0
<1>1. ASSUME NEW w \in CapacityWorkers, NEW l \in runs[w].batch, l.key = k
      PROVE  FALSE
  <2>1. l \in Leases /\ LeaseStands(l, rows, keys)
    BY <1>1 DEF TasksInv, RunStands, Runs
  <2>2. l.of \in Tasks
    BY <1>1, <2>1, Names DEF LeaseStands, Leases
  <2> QED
    BY <1>1, <2>1, <2>2 DEF LeaseStands
<1>2. Calling(k, runs) = {}
  BY <1>1 DEF Calling
<1>3. cs[k] = 0
  BY DEF TasksInv, CallsCounted
<1> QED
  BY <1>2, <1>3, FS_EmptySet DEF Spent

(* What is known stays known. *)
LEMMA AskedStays ==
  ASSUME NEW rows, NEW next, NEW keys, NEW more, keys \subseteq more,
         \A t \in Tasks : Advances(rows[t], next[t]), NEW k, Asked(k, rows, keys)
  PROVE  Asked(k, next, more)
BY Names DEF Asked, Advances

(* A row's key stays or is new, and its attempts grow no slower than the calls. *)
LEMMA CallsStay ==
  ASSUME NEW rows \in [Tasks -> Row], NEW next \in [Tasks -> Row], NEW keys, NEW more, NEW cs,
         NEW runs, NEW after,
         CallsCounted(rows, keys, cs, runs),
         keys \subseteq more, \A t \in Tasks : Advances(rows[t], next[t]),
         \A k \in Keys \cup Signals : Calling(k, after) \subseteq Calling(k, runs),
         \A t \in Tasks : \/ next[t].key = rows[t].key /\ rows[t].attempts <= next[t].attempts
                          \/ next[t].key \in Keys \cup Signals /\ Spent(next[t].key, cs, runs) = 0
  PROVE  CallsCounted(next, more, cs, after)
<1>1. ASSUME NEW k \in Keys \cup Signals
      PROVE  /\ Spent(k, cs, after) <= Spent(k, cs, runs)
             /\ Spent(k, cs, after) \in Nat /\ Spent(k, cs, runs) \in Nat
  <2>1. Cardinality(Calling(k, after)) <= Cardinality(Calling(k, runs))
    BY FewerCall
  <2>2. cs[k] \in Nat /\ Cardinality(Calling(k, after)) \in Nat /\ Cardinality(Calling(k, runs)) \in Nat
    BY CallersFinite DEF CallsCounted
  <2> QED
    BY <2>1, <2>2 DEF Spent
<1>2. ASSUME NEW k \in Keys \cup Signals
      PROVE  Spent(k, cs, after) <= MaxAttempts /\ (~Asked(k, next, more) => cs[k] = 0)
  <2>1. Spent(k, cs, runs) <= MaxAttempts /\ (~Asked(k, rows, keys) => cs[k] = 0)
    BY DEF CallsCounted
  <2>2. Asked(k, rows, keys) => Asked(k, next, more)
    BY AskedStays
  <2> QED
    BY <1>1, <2>1, <2>2, Names
<1>3. ASSUME NEW t \in Tasks, next[t].key # NoKey
      PROVE  Spent(next[t].key, cs, after) <= next[t].attempts
  <2>1. /\ next[t].attempts \in Nat /\ rows[t].attempts \in Nat
        /\ next[t].key \in Keys \cup Signals /\ rows[t].key \in Keys \cup Signals \cup {NoKey}
    BY <1>3, Names DEF Row
  <2>2. CASE next[t].key = rows[t].key /\ rows[t].attempts <= next[t].attempts
    <3>1. Spent(rows[t].key, cs, runs) <= rows[t].attempts
      BY <1>3, <2>2 DEF CallsCounted
    <3> QED
      BY <1>1, <2>1, <2>2, <3>1
  <2>3. CASE Spent(next[t].key, cs, runs) = 0
    BY <1>1, <2>1, <2>3
  <2> QED
    BY <2>2, <2>3
<1>4. cs \in [Keys \cup Signals -> Nat]
  BY DEF CallsCounted
<1> QED
  BY <1>2, <1>3, <1>4 DEF CallsCounted

(* Runs of the other workers, when rows advance and more is known and done. *)
LEMMA RunKept ==
  ASSUME NEW r \in Runs, NEW rows \in [Tasks -> Row], NEW next \in [Tasks -> Row],
         NEW keys, NEW more, keys \subseteq more, NEW carried, NEW further, carried \subseteq further,
         \A t \in Tasks : Advances(rows[t], next[t]), RunStands(r, rows, keys, carried)
  PROVE  RunStands(r, next, more, further)
<1>1. ASSUME NEW l \in Leases, LeaseStands(l, rows, keys)
      PROVE  LeaseStands(l, next, more)
  BY <1>1, LeaseKept
<1>2. r.batch \subseteq Leases /\ r.doing \in Leases \cup {NoLease}
  BY DEF Runs
<1>3. \A l \in r.batch : LeaseStands(l, next, more)
  BY <1>1, <1>2 DEF RunStands
<1>4. r.doing # NoLease => LeaseStands(r.doing, next, more)
  BY <1>1, <1>2 DEF RunStands
<1> QED
  BY <1>3, <1>4 DEF RunStands

-----------------------------------------------------------------------------
(* The steps of the rows and of the runs, one lemma for each kind. *)

(* Rows change, the runs do not. *)
LEMMA RowsStep ==
  ASSUME NEW rows, NEW next, NEW keys, NEW more, NEW cs, NEW runs, NEW carried,
         TasksInv(rows, keys, cs, runs, carried),
         keys \subseteq more, RowsNamed(next, more), RowsDone(next, carried),
         \A t \in Tasks : Advances(rows[t], next[t]),
         \A t \in Tasks : \/ next[t].key = rows[t].key /\ rows[t].attempts <= next[t].attempts
                          \/ next[t].key \in Keys \cup Signals /\ Spent(next[t].key, cs, runs) = 0
  PROVE  TasksInv(next, more, cs, runs, carried)
<1>1. rows \in [Tasks -> Row] /\ next \in [Tasks -> Row] /\ runs \in [CapacityWorkers -> Runs]
  BY DEF TasksInv, RowsNamed
<1>2. CallsCounted(next, more, cs, runs)
  BY <1>1, CallsStay DEF TasksInv
<1>3. ASSUME NEW w \in CapacityWorkers
      PROVE  RunStands(runs[w], next, more, carried)
  BY <1>1, RunKept DEF TasksInv
<1> QED
  BY <1>1, <1>2, <1>3 DEF TasksInv

(* One row is written, of the same operation: an answer, a lease that runs out. *)
LEMMA RowWritten ==
  ASSUME NEW rows, NEW keys, NEW cs, NEW runs, NEW carried,
         TasksInv(rows, keys, cs, runs, carried),
         NEW t \in Tasks, NEW q \in Row, rows[t].status # "none", q.status # "none",
         q.key = rows[t].key, q.token = rows[t].token, q.attempts = rows[t].attempts,
         q.status = "LEASED" => rows[t].status = "LEASED",
         q.status \in {"APPLIED", "SENT"} => q.key \in carried
  PROVE  TasksInv([rows EXCEPT ![t] = q], keys, cs, runs, carried)
<1> DEFINE next == [rows EXCEPT ![t] = q]
<1>1. rows \in [Tasks -> Row] /\ next \in [Tasks -> Row] /\ next[t] = q
      /\ \A u \in Tasks : u # t => next[u] = rows[u]
  BY DEF TasksInv, RowsNamed
<1> HIDE DEF next
<1>2. RowsNamed(next, keys)
  BY <1>1 DEF TasksInv, RowsNamed, NamedRow
<1>3. RowsDone(next, carried)
  BY <1>1 DEF TasksInv, RowsDone
<1>4. ASSUME NEW u \in Tasks
      PROVE  /\ Advances(rows[u], next[u])
             /\ next[u].key = rows[u].key /\ rows[u].attempts <= next[u].attempts
  <2>1. rows[u].token \in Nat /\ rows[u].attempts \in Nat
    BY <1>1, Names DEF Row
  <2>2. CASE u = t
    BY <1>1, <2>1, <2>2 DEF Advances
  <2>3. CASE u # t
    BY <1>1, <2>1, <2>3 DEF Advances
  <2> QED
    BY <2>2, <2>3
<1>5. TasksInv(next, keys, cs, runs, carried)
  BY <1>2, <1>3, <1>4, RowsStep
<1> QED
  BY <1>5 DEF next

(* reconcileCapacity *)
LEMMA Requested ==
  ASSUME NEW rows, NEW keys, NEW cs, NEW runs, NEW carried,
         TasksInv(rows, keys, cs, runs, carried), NEW k \in Keys, k \notin keys
  PROVE  TasksInv([rows EXCEPT ![Allocation] =
                     [NoTask EXCEPT !.key = k, !.status = "PENDING", !.token = rows[Allocation].token]],
                  keys \cup {k}, cs, runs, carried)
<1> DEFINE q == [NoTask EXCEPT !.key = k, !.status = "PENDING", !.token = rows[Allocation].token]
           next == [rows EXCEPT ![Allocation] = q]
           more == keys \cup {k}
<1>1. rows \in [Tasks -> Row] /\ rows[Allocation].token \in Nat
  BY Names DEF TasksInv, RowsNamed, Row
<1>2. Fresh(q, k) /\ q.token = rows[Allocation].token
  BY <1>1, RowAfresh
<1> HIDE DEF q
<1>3. next \in [Tasks -> Row] /\ next[Allocation] = q /\ \A u \in Tasks : u # Allocation => next[u] = rows[u]
  BY <1>1, <1>2, Names DEF Fresh
<1> HIDE DEF next
<1>4. RowsNamed(next, more)
  BY <1>2, <1>3, Names DEF TasksInv, RowsNamed, NamedRow, Fresh
<1>5. RowsDone(next, carried)
  BY <1>2, <1>3 DEF TasksInv, RowsDone, Fresh
<1>6. Spent(k, cs, runs) = 0
  BY NotAskedIsQuiet, Names DEF Asked
<1>7. ASSUME NEW u \in Tasks
      PROVE  /\ Advances(rows[u], next[u])
             /\ \/ next[u].key = rows[u].key /\ rows[u].attempts <= next[u].attempts
                \/ next[u].key \in Keys \cup Signals /\ Spent(next[u].key, cs, runs) = 0
  <2>1. rows[u].token \in Nat /\ rows[u].attempts \in Nat
    BY <1>1, Names DEF Row
  <2>2. CASE u = Allocation
    BY <1>2, <1>3, <1>6, <2>1, <2>2 DEF Advances, Fresh
  <2>3. CASE u # Allocation
    BY <1>3, <2>1, <2>3 DEF Advances
  <2> QED
    BY <2>2, <2>3
<1>8. keys \subseteq more
  OBVIOUS
<1> HIDE DEF more
<1>9. TasksInv(next, more, cs, runs, carried)
  BY <1>4, <1>5, <1>7, <1>8, RowsStep
<1> QED
  BY <1>9 DEF next, q, more

(* leaseCapacityDemandSignal freezes new windows *)
Opened(rows, new) ==
  [t \in Tasks |-> IF t \in new THEN [NoTask EXCEPT !.key = t, !.status = "PENDING"] ELSE rows[t]]

LEMMA WindowsOpened ==
  ASSUME NEW rows, NEW keys, NEW cs, NEW runs, NEW carried,
         TasksInv(rows, keys, cs, runs, carried),
         NEW new, \A t \in new : t \in Signals /\ rows[t].status = "none"
  PROVE  TasksInv(Opened(rows, new), keys, cs, runs, carried)
<1> DEFINE next == Opened(rows, new)
<1>1. rows \in [Tasks -> Row]
  BY DEF TasksInv, RowsNamed
<1>2. ASSUME NEW t \in Tasks
      PROVE  /\ t \in new => Fresh(next[t], t) /\ next[t].token = 0
             /\ t \notin new => next[t] = rows[t]
  <2>1. CASE t \in new
    <3>1. Fresh([NoTask EXCEPT !.key = t, !.status = "PENDING"], t)
      BY <2>1, NewRow
    <3>2. next[t] = [NoTask EXCEPT !.key = t, !.status = "PENDING"]
      BY <2>1 DEF Opened
    <3>3. next[t].token = 0
      BY <3>2 DEF NoTask
    <3> QED
      BY <2>1, <3>1, <3>2, <3>3
  <2>2. CASE t \notin new
    BY <2>2 DEF Opened
  <2> QED
    BY <2>1, <2>2
<1>3. next = [t \in Tasks |-> next[t]]
  BY DEF Opened
<1> HIDE DEF next
<1>4. next \in [Tasks -> Row]
  BY <1>1, <1>2, <1>3 DEF Fresh
<1>5. RowsNamed(next, keys)
  BY <1>2, <1>4, Names DEF TasksInv, RowsNamed, NamedRow, Fresh
<1>6. RowsDone(next, carried)
  BY <1>2 DEF TasksInv, RowsDone, Fresh
<1>7. ASSUME NEW u \in Tasks
      PROVE  /\ Advances(rows[u], next[u])
             /\ \/ next[u].key = rows[u].key /\ rows[u].attempts <= next[u].attempts
                \/ next[u].key \in Keys \cup Signals /\ Spent(next[u].key, cs, runs) = 0
  <2>1. rows[u].token \in Nat /\ rows[u].attempts \in Nat
    BY <1>1, Names DEF Row
  <2>2. CASE u \in new
    <3>1. u \in Signals /\ rows[u].status = "none" /\ rows[u].token = 0
      BY <2>2 DEF TasksInv, RowsNamed, NamedRow
    <3>2. ~Asked(u, rows, keys)
      BY <3>1, Names DEF Asked, TasksInv, RowsNamed
    <3>3. Spent(u, cs, runs) = 0
      BY <3>1, <3>2, NotAskedIsQuiet
    <3> QED
      BY <1>2, <2>2, <3>1, <3>3 DEF Advances, Fresh
  <2>3. CASE u \notin new
    BY <1>2, <2>1, <2>3 DEF Advances
  <2> QED
    BY <2>2, <2>3
<1>8. TasksInv(next, keys, cs, runs, carried)
  BY <1>5, <1>6, <1>7, RowsStep
<1> QED
  BY <1>8 DEF next

(* A run goes on without a call to make for an intent or a signal. *)
LEMMA RunStep ==
  ASSUME NEW rows, NEW keys, NEW cs, NEW runs, NEW carried,
         TasksInv(rows, keys, cs, runs, carried),
         NEW w \in CapacityWorkers, NEW r \in Runs, RunStands(r, rows, keys, carried),
         \A l \in r.batch : l \in runs[w].batch \/ l.key \notin Keys \cup Signals
  PROVE  TasksInv(rows, keys, cs, [runs EXCEPT ![w] = r], carried)
<1> DEFINE after == [runs EXCEPT ![w] = r]
<1>1. after \in [CapacityWorkers -> Runs] /\ after[w] = r
      /\ \A v \in CapacityWorkers : v # w => after[v] = runs[v]
  BY DEF TasksInv
<1> HIDE DEF after
<1>2. \A k \in Keys \cup Signals : Calling(k, after) \subseteq Calling(k, runs)
  BY <1>1 DEF Calling
<1>3. \A t \in Tasks : Advances(rows[t], rows[t]) /\ rows[t].attempts <= rows[t].attempts
  <2> TAKE t \in Tasks
  <2>1. rows[t].token \in Nat /\ rows[t].attempts \in Nat
    BY Names DEF TasksInv, RowsNamed, Row
  <2> QED
    BY <2>1 DEF Advances
<1>4. CallsCounted(rows, keys, cs, after)
  <2>1. rows \in [Tasks -> Row] /\ CallsCounted(rows, keys, cs, runs)
    BY DEF TasksInv, RowsNamed
  <2> QED
    BY <1>2, <1>3, <2>1, CallsStay
<1>5. \A v \in CapacityWorkers : RunStands(after[v], rows, keys, carried)
  BY <1>1 DEF TasksInv
<1>6. TasksInv(rows, keys, cs, after, carried)
  BY <1>1, <1>4, <1>5 DEF TasksInv
<1> QED
  BY <1>6 DEF after

(* leaseCapacityExecutions, leaseCapacityDemandSignal: the attempt is counted with the
   lease, for the call that the worker will make. *)
LEMMA LeaseGiven ==
  ASSUME NEW rows, NEW keys, NEW cs, NEW runs, NEW carried,
         TasksInv(rows, keys, cs, runs, carried),
         NEW w \in CapacityWorkers, runs[w].batch = {},
         NEW t \in Tasks, Tryable(rows[t]),
         NEW next, next = [rows EXCEPT ![t] = LeasedRow(@)],
         NEW r \in Runs, r.batch = {LeaseOf(t, next)}, r.doing = NoLease
  PROVE  TasksInv(next, keys, cs, [runs EXCEPT ![w] = r], carried)
<1> DEFINE after == [runs EXCEPT ![w] = r]
           key == rows[t].key
           l == LeaseOf(t, next)
<1>1. after \in [CapacityWorkers -> Runs] /\ after[w] = r
      /\ \A v \in CapacityWorkers : v # w => after[v] = runs[v]
  BY DEF TasksInv
<1> HIDE DEF after
<1>2. rows \in [Tasks -> Row] /\ rows[t] \in Row
  BY DEF TasksInv, RowsNamed
<1>3. /\ next[t] \in Row /\ next[t].key = key /\ next[t].status = "LEASED"
      /\ next[t].token = rows[t].token + 1 /\ next[t].attempts = rows[t].attempts + 1
      /\ next \in [Tasks -> Row] /\ \A u \in Tasks : u # t => next[u] = rows[u]
  BY <1>2, LeasedRowType
<1>4. rows[t].status # "none" /\ key \in Keys \cup Signals /\ Asked(key, rows, keys)
  <2>1. rows[t].status # "none"
    BY DEF Tryable
  <2> QED
    BY <2>1, Names DEF TasksInv, RowsNamed, NamedRow, Asked, Tasks
<1>5. \A u \in Tasks : u # t => rows[u].key # key
  BY <1>4, Names DEF TasksInv, RowsNamed, NamedRow, Tasks
<1>6. l.of = t /\ l.key = key /\ l.token = rows[t].token + 1
  BY <1>3 DEF LeaseOf
<1>7. \A u \in Tasks : Advances(rows[u], next[u])
  <2> TAKE u \in Tasks
  <2>1. rows[u].token \in Nat
    BY <1>2 DEF Row
  <2> QED
    BY <1>3, <2>1 DEF Advances
<1>8. RowsNamed(next, keys) /\ RowsDone(next, carried)
  <2>1. RowsNamed(next, keys)
    BY <1>3, <1>4, Names DEF TasksInv, RowsNamed, NamedRow
  <2>2. RowsDone(next, carried)
    BY <1>3 DEF TasksInv, RowsDone
  <2> QED
    BY <2>1, <2>2
<1>9. /\ Calling(key, after) \subseteq Calling(key, runs) \cup {w}
      /\ \A k \in Keys \cup Signals : k # key => Calling(k, after) \subseteq Calling(k, runs)
  <2>1. \A m \in after[w].batch : m.key = key
    BY <1>1, <1>6
  <2> HIDE DEF key
  <2> QED
    BY <1>1, <2>1 DEF Calling
<1>10. ASSUME NEW k \in Keys \cup Signals
       PROVE  /\ Spent(k, cs, after) \in Nat /\ Spent(k, cs, runs) \in Nat
              /\ k = key => Spent(k, cs, after) <= Spent(k, cs, runs) + 1
              /\ k # key => Spent(k, cs, after) <= Spent(k, cs, runs)
  <2>1. cs[k] \in Nat /\ Cardinality(Calling(k, after)) \in Nat /\ Cardinality(Calling(k, runs)) \in Nat
    BY CallersFinite DEF TasksInv, CallsCounted
  <2>2. k = key => Cardinality(Calling(k, after)) <= Cardinality(Calling(k, runs)) + 1
    BY <1>9, OneMoreCalls
  <2>3. k # key => Cardinality(Calling(k, after)) <= Cardinality(Calling(k, runs))
    BY <1>9, FewerCall
  <2> QED
    BY <2>1, <2>2, <2>3 DEF Spent
<1>11. rows[t].attempts + 1 <= MaxAttempts /\ Spent(key, cs, runs) <= rows[t].attempts
  <2>1. rows[t].attempts \in Nat
    BY <1>2 DEF Row
  <2> QED
    BY <2>1, <1>4, Names DEF Tryable, TasksInv, CallsCounted
<1>12. rows[t].attempts \in Nat /\ \A u \in Tasks : rows[u].attempts \in Nat
  BY <1>2 DEF Row
<1>13. CallsCounted(next, keys, cs, after)
  <2>1. ASSUME NEW k \in Keys \cup Signals
        PROVE  Spent(k, cs, after) <= MaxAttempts /\ (~Asked(k, next, keys) => cs[k] = 0)
    <3>1. Spent(k, cs, runs) <= MaxAttempts /\ (~Asked(k, rows, keys) => cs[k] = 0)
      BY DEF TasksInv, CallsCounted
    <3>2. Asked(k, rows, keys) => Asked(k, next, keys)
      BY <1>7, AskedStays
    <3>3. CASE k = key
      BY <1>10, <1>11, <1>12, <3>1, <3>2, <3>3, Names
    <3>4. CASE k # key
      BY <1>10, <3>1, <3>2, <3>4, Names
    <3> QED
      BY <3>3, <3>4
  <2>2. ASSUME NEW u \in Tasks, next[u].key # NoKey
        PROVE  Spent(next[u].key, cs, after) <= next[u].attempts
    <3>1. CASE u = t
      <4>1. Spent(key, cs, after) <= Spent(key, cs, runs) + 1 /\ Spent(key, cs, after) \in Nat
            /\ Spent(key, cs, runs) \in Nat
        BY <1>4, <1>10
      <4> HIDE DEF key
      <4> QED
        BY <1>3, <1>11, <1>12, <3>1, <4>1
    <3>2. CASE u # t
      <4>1. next[u].key = rows[u].key /\ next[u].attempts = rows[u].attempts
            /\ rows[u].key \in Keys \cup Signals /\ rows[u].key # key
        BY <1>2, <1>3, <1>5, <2>2, <3>2 DEF Row
      <4>2. Spent(rows[u].key, cs, runs) <= rows[u].attempts
        BY <2>2, <4>1 DEF TasksInv, CallsCounted
      <4> QED
        BY <1>10, <1>12, <4>1, <4>2
    <3> QED
      BY <3>1, <3>2
  <2>3. cs \in [Keys \cup Signals -> Nat]
    BY DEF TasksInv, CallsCounted
  <2> QED
    BY <2>1, <2>2, <2>3 DEF CallsCounted
<1>14. RunStands(r, next, keys, carried)
  <2>1. t \notin Ops
    BY Names
  <2>2. Asked(key, next, keys)
    <3> HIDE DEF key
    <3> QED
      BY <1>4, <1>7, AskedStays
  <2>3. next[t].token \in Nat
    BY <1>3 DEF Row
  <2>4. LeaseStands(l, next, keys)
    BY <1>3, <1>4, <1>6, <2>1, <2>2, <2>3 DEF LeaseStands
  <2> HIDE DEF l
  <2> QED
    BY <2>4 DEF RunStands, l
<1>15. ASSUME NEW v \in CapacityWorkers
       PROVE  RunStands(after[v], next, keys, carried)
  <2>1. CASE v = w
    BY <1>1, <1>14, <2>1
  <2>2. CASE v # w
    BY <1>1, <1>2, <1>3, <1>7, <2>2, RunKept DEF TasksInv
  <2> QED
    BY <2>1, <2>2
<1>16. TasksInv(next, keys, cs, after, carried)
  BY <1>1, <1>8, <1>13, <1>15 DEF TasksInv
<1> QED
  BY <1>16 DEF after

(* Worker w has taken lease l off its batch and called its provider, which
   answered: what the counters, the runs and the finished keys are after it. *)
ProviderCalled(w, l, answer, more, after, further) ==
  /\ l \in run[w].batch /\ answer \in Answers
  /\ done \subseteq further
  /\ answer = "APPLIED" => l.key \in further
  /\ more \in [Keys \cup Signals -> Nat]
  /\ \A k \in Keys \cup Signals : more[k] = IF k = l.key THEN calls[k] + 1 ELSE calls[k]
  /\ after \in [CapacityWorkers -> Runs]
  /\ after[w].batch = run[w].batch \ {l} /\ after[w].doing = l /\ after[w].answer = answer
  /\ \A v \in CapacityWorkers : v # w => after[v] = run[v]

(* The provider is called: the call that was to come is counted. *)
LEMMA Called ==
  ASSUME TasksInv(task, past, calls, run, done), NEW w \in CapacityWorkers,
         NEW l, NEW answer, NEW more, NEW after, NEW further,
         ProviderCalled(w, l, answer, more, after, further)
  PROVE  TasksInv(task, past, more, after, further)
<1> DEFINE r == after[w]
<1>1. /\ l \in run[w].batch /\ answer \in Answers
      /\ done \subseteq further /\ (answer = "APPLIED" => l.key \in further)
      /\ more \in [Keys \cup Signals -> Nat]
      /\ \A k \in Keys \cup Signals : more[k] = IF k = l.key THEN calls[k] + 1 ELSE calls[k]
      /\ after \in [CapacityWorkers -> Runs]
      /\ r \in Runs /\ r.batch = run[w].batch \ {l} /\ r.doing = l /\ r.answer = answer
      /\ \A v \in CapacityWorkers : v # w => after[v] = run[v]
  BY DEF ProviderCalled
<1> USE <1>1
<1>2. l \in Leases /\ LeaseStands(l, task, past)
  BY DEF TasksInv, RunStands, Runs
<1>3. calls \in [Keys \cup Signals -> Nat] /\ more \in [Keys \cup Signals -> Nat]
      /\ \A k \in Keys \cup Signals : more[k] = IF k = l.key THEN calls[k] + 1 ELSE calls[k]
  BY DEF TasksInv, CallsCounted
<1>4. \A k \in Keys \cup Signals : Calling(k, after) \subseteq Calling(k, run)
  BY DEF Calling
<1>5. l.of \in Tasks => run[w].batch = {l}
  BY DEF TasksInv, RunStands
<1>6. ASSUME NEW k \in Keys \cup Signals
      PROVE  /\ Spent(k, more, after) <= Spent(k, calls, run)
             /\ Spent(k, more, after) \in Nat /\ Spent(k, calls, run) \in Nat
             /\ ~Asked(k, task, past) => more[k] = 0
  <2>1. calls[k] \in Nat /\ Cardinality(Calling(k, after)) \in Nat /\ Cardinality(Calling(k, run)) \in Nat
    BY <1>3, CallersFinite
  <2>2. ~Asked(k, task, past) => calls[k] = 0
    BY DEF TasksInv, CallsCounted
  <2>3. CASE k = l.key
    <3>1. l.of \in Tasks /\ Asked(k, task, past)
      BY <1>2, <2>3, Names DEF LeaseStands, Leases
    <3>2. r.batch = {}
      BY <1>5, <3>1
    <3>3. w \in Calling(k, run) /\ Calling(k, after) \subseteq Calling(k, run) \ {w}
      BY <1>4, <2>3, <3>2 DEF Calling
    <3>4. Cardinality(Calling(k, after)) + 1 <= Cardinality(Calling(k, run))
      BY <3>3, OneCalled
    <3>5. more[k] = calls[k] + 1
      BY <1>3, <2>3
    <3> QED
      BY <2>1, <3>1, <3>4, <3>5 DEF Spent
  <2>4. CASE k # l.key
    <3>1. more[k] = calls[k]
      BY <1>3, <2>4
    <3>2. Cardinality(Calling(k, after)) <= Cardinality(Calling(k, run))
      BY <1>4, FewerCall
    <3> QED
      BY <2>1, <2>2, <3>1, <3>2 DEF Spent
  <2> QED
    BY <2>3, <2>4
<1>7. CallsCounted(task, past, more, after)
  <2>1. ASSUME NEW k \in Keys \cup Signals
        PROVE  Spent(k, more, after) <= MaxAttempts
    <3>1. Spent(k, calls, run) <= MaxAttempts
      BY DEF TasksInv, CallsCounted
    <3> QED
      BY <1>6, <3>1, Names
  <2>2. ASSUME NEW u \in Tasks, task[u].key # NoKey
        PROVE  Spent(task[u].key, more, after) <= task[u].attempts
    <3>1. task[u].key \in Keys \cup Signals /\ task[u].attempts \in Nat
      BY <2>2 DEF TasksInv, RowsNamed, Row
    <3>2. Spent(task[u].key, calls, run) <= task[u].attempts
      BY <2>2 DEF TasksInv, CallsCounted
    <3> QED
      BY <1>6, <3>1, <3>2
  <2> QED
    BY <1>3, <1>6, <2>1, <2>2 DEF CallsCounted
<1>8. ASSUME NEW v \in CapacityWorkers
      PROVE  RunStands(after[v], task, past, further)
  <2>1. CASE v = w
    <3>1. \A m \in r.batch : m \in run[w].batch
      OBVIOUS
    <3>2. RunStands(run[w], task, past, done)
      BY DEF TasksInv
    <3> QED
      BY <1>2, <2>1, <3>1, <3>2 DEF RunStands
  <2>2. CASE v # w
    <3>1. RunStands(run[v], task, past, done)
      BY DEF TasksInv
    <3> QED
      BY <2>2, <3>1 DEF RunStands
  <2> QED
    BY <2>1, <2>2
<1>9. RowsNamed(task, past) /\ RowsDone(task, further)
  BY DEF TasksInv, RowsDone
<1> QED
  BY <1>7, <1>8, <1>9 DEF TasksInv

-----------------------------------------------------------------------------
(* The operations of the node. *)

LEMMA OpDomain ==
  ASSUME NodeInv
  PROVE  DOMAIN op = 1 .. Len(op) /\ DOMAIN op \subseteq Ops /\ Len(op) \in Nat
         /\ \A o \in DOMAIN op : op[o] \in OpRow
<1>1. op \in Seq(OpRow) /\ Len(op) <= MaxOps
  BY DEF NodeInv
<1>2. Len(op) \in Nat /\ DOMAIN op = 1 .. Len(op) /\ \A o \in 1 .. Len(op) : op[o] \in OpRow
  BY <1>1
<1> QED
  BY <1>1, <1>2, Names DEF Ops

LEMMA RowsReplaced ==
  ASSUME NodeInv, NEW f, op' = [o \in DOMAIN op |-> f[o]], UNCHANGED <<fact, done>>,
         \A o \in DOMAIN op :
           /\ f[o] \in OpRow
           /\ f[o].status \in {"VERIFYING", "APPLIED", "RECOVERY_REQUIRED"} => o \in done
  PROVE  NodeInv'
<1>1. DOMAIN op = 1 .. Len(op) /\ Len(op) \in Nat /\ Len(op) <= MaxOps
  BY OpDomain DEF NodeInv
<1>2. op' \in [1 .. Len(op) -> OpRow]
  BY <1>1
<1>3. op' \in Seq(OpRow)
  BY <1>1, <1>2, SeqDef
<1>4. Len(op') = Len(op)
  BY <1>1, <1>2, <1>3
<1> QED
  BY <1>1, <1>2, <1>3, <1>4 DEF NodeInv

LEMMA RequestedOp ==
  ASSUME NodeInv, NEW state \in {"DRAINING", "RETIRED"}, NEW previous, RequestOp(state, previous),
         done' = done
  PROVE  NodeInv'
<1> DEFINE r == NewOp(state)
<1>1. r \in OpRow /\ r.status = "PENDING"
  BY DEF NewOp, OpRow, Unfinished
<1>2. op' = Append(op, r) /\ Len(op) < MaxOps /\ fact' = fact /\ op \in Seq(OpRow)
  BY DEF RequestOp, NodeInv
<1> HIDE DEF r
<1>3. op' \in Seq(OpRow) /\ Len(op') = Len(op) + 1 /\ Len(op) \in Nat
  BY <1>1, <1>2
<1>4. \A o \in DOMAIN op' : \/ o \in DOMAIN op /\ op'[o] = op[o]
                            \/ op'[o] = r
  BY <1>1, <1>2, <1>3
<1>5. Len(op') <= MaxOps
  BY <1>2, <1>3, Names
<1>6. \A o \in DOMAIN op' : op'[o].status \in {"VERIFYING", "APPLIED", "RECOVERY_REQUIRED"} => o \in done
  <2> TAKE o \in DOMAIN op'
  <2>1. CASE o \in DOMAIN op /\ op'[o] = op[o]
    BY <2>1 DEF NodeInv
  <2>2. CASE op'[o] = r
    BY <1>1, <2>2
  <2> QED
    BY <1>4, <2>1, <2>2
<1> QED
  BY <1>2, <1>3, <1>5, <1>6 DEF NodeInv

LEMMA LeasedOps ==
  ASSUME NodeInv, LeaseOps, done' = done
  PROVE  NodeInv'
<1> DEFINE f == [o \in DOMAIN op |-> LeasedOp(SweptOp(op[o]))]
<1>1. op' = [o \in DOMAIN op |-> f[o]] /\ UNCHANGED fact
  BY DEF LeaseOps
<1>2. ASSUME NEW r \in OpRow
      PROVE  /\ SweptOp(r) \in OpRow
             /\ SweptOp(r).status \in {"VERIFYING", "APPLIED", "RECOVERY_REQUIRED"} => SweptOp(r) = r
  <2>1. CASE r.status = "LEASED" /\ ~r.live
    <3> DEFINE s == IF r.attempts >= MaxAttempts THEN "FAILED" ELSE "RETRY"
    <3>1. s \in {"FAILED", "RETRY"} /\ SweptOp(r) = [r EXCEPT !.status = s]
      BY <2>1 DEF SweptOp
    <3> HIDE DEF s
    <3> QED
      BY <3>1 DEF OpRow, Unfinished
  <2>2. CASE ~(r.status = "LEASED" /\ ~r.live)
    BY <2>2 DEF SweptOp
  <2> QED
    BY <2>1, <2>2
<1>3. ASSUME NEW r \in OpRow
      PROVE  /\ LeasedOp(r) \in OpRow
             /\ LeasedOp(r).status \in {"VERIFYING", "APPLIED", "RECOVERY_REQUIRED"} => LeasedOp(r) = r
  <2>1. CASE r.status \in {"PENDING", "RETRY"}
    <3> DEFINE n == r.attempts + 1
    <3>1. n \in Nat /\ LeasedOp(r) = [r EXCEPT !.status = "LEASED", !.live = TRUE, !.attempts = n]
      BY <2>1 DEF LeasedOp, OpRow
    <3> HIDE DEF n
    <3> QED
      BY <3>1 DEF OpRow, Unfinished
  <2>2. CASE r.status \notin {"PENDING", "RETRY"}
    BY <2>2 DEF LeasedOp
  <2> QED
    BY <2>1, <2>2
<1>4. ASSUME NEW o \in DOMAIN op
      PROVE  /\ f[o] \in OpRow
             /\ f[o].status \in {"VERIFYING", "APPLIED", "RECOVERY_REQUIRED"} => o \in done
  <2>1. op[o] \in OpRow /\ (op[o].status \in {"VERIFYING", "APPLIED", "RECOVERY_REQUIRED"} => o \in done)
    BY OpDomain DEF NodeInv
  <2>2. f[o] = LeasedOp(SweptOp(op[o]))
    OBVIOUS
  <2> HIDE DEF f
  <2> QED
    BY <1>2, <1>3, <2>1, <2>2
<1> HIDE DEF f
<1> QED
  BY <1>1, <1>4, RowsReplaced

(* one operation's row is written *)
LEMMA OpWritten ==
  ASSUME NodeInv, NEW o, NEW q, o \in DOMAIN op => q \in OpRow,
         o \in DOMAIN op /\ q.status \in {"VERIFYING", "APPLIED", "RECOVERY_REQUIRED"} => o \in done,
         op' = [op EXCEPT ![o] = q], UNCHANGED <<fact, done>>
  PROVE  NodeInv'
<1> DEFINE f == [p \in DOMAIN op |-> IF p = o THEN q ELSE op[p]]
<1>1. op' = [p \in DOMAIN op |-> f[p]]
  <2>1. op' = [p \in DOMAIN op |-> IF p = o THEN q ELSE op[p]]
    BY OpDomain
  <2> QED
    BY <2>1
<1>2. ASSUME NEW p \in DOMAIN op
      PROVE  /\ f[p] \in OpRow
             /\ f[p].status \in {"VERIFYING", "APPLIED", "RECOVERY_REQUIRED"} => p \in done
  <2>1. CASE p = o
    BY <2>1
  <2>2. CASE p # o
    BY <2>2, OpDomain DEF NodeInv
  <2> QED
    BY <2>1, <2>2
<1> HIDE DEF f
<1> QED
  BY <1>1, <1>2, RowsReplaced

LEMMA VerifiedOps ==
  ASSUME NodeInv, ReconcileFacts, done' = done
  PROVE  NodeInv'
<1> DEFINE f == [o \in DOMAIN op |-> Verified(o)]
<1>1. op' = [o \in DOMAIN op |-> f[o]] /\ UNCHANGED fact
  BY OpDomain DEF ReconcileFacts, VerifiedThrough
<1>2. ASSUME NEW o \in DOMAIN op
      PROVE  /\ Verified(o) \in OpRow
             /\ Verified(o).status \in {"VERIFYING", "APPLIED", "RECOVERY_REQUIRED"} => o \in done
  <2>1. op[o] \in OpRow /\ (op[o].status \in {"VERIFYING", "APPLIED", "RECOVERY_REQUIRED"} => o \in done)
        /\ fact[o].block \in Nat
    BY OpDomain DEF NodeInv
  <2>2. \/ op[o].status \in {"VERIFYING", "APPLIED", "RECOVERY_REQUIRED"}
           /\ Verified(o) = [op[o] EXCEPT !.status = "APPLIED", !.bound = fact[o].block]
        \/ op[o].status = "APPLIED" /\ Verified(o) = [op[o] EXCEPT !.status = "RECOVERY_REQUIRED", !.bound = 0]
        \/ Verified(o) = op[o]
    BY DEF Verified
  <2>3. ASSUME NEW r \in OpRow, NEW s \in {"APPLIED", "RECOVERY_REQUIRED"}, NEW b \in Nat
        PROVE  [r EXCEPT !.status = s, !.bound = b] \in OpRow
    BY DEF OpRow, Unfinished
  <2>4. Verified(o) \in OpRow
    <3>1. [op[o] EXCEPT !.status = "APPLIED", !.bound = fact[o].block] \in OpRow
      BY <2>1, <2>3
    <3>2. [op[o] EXCEPT !.status = "RECOVERY_REQUIRED", !.bound = 0] \in OpRow
      BY <2>1, <2>3
    <3> QED
      BY <2>1, <2>2, <3>1, <3>2
  <2>5. op[o].status \notin {"VERIFYING", "APPLIED", "RECOVERY_REQUIRED"} => Verified(o) = op[o]
    BY DEF Verified
  <2> QED
    BY <2>1, <2>4, <2>5
<1>3. \A o \in DOMAIN op : f[o] = Verified(o)
  OBVIOUS
<1> HIDE DEF f
<1> QED
  BY <1>1, <1>2, <1>3, RowsReplaced

LEMMA FactsChange ==
  ASSUME NodeInv, NEW o \in Ops,
         (o \in done /\ IngestEvent(o)) \/ FloorPasses(o) \/ RollbackEvents(o) \/ SurpriseEvents(o),
         done' = done
  PROVE  NodeInv'
<1> DEFINE Fact == [block : Nat, final : BOOLEAN]
<1>1. fact \in [Ops -> Fact] /\ (fact[o].block # 0 => o \in done) /\ NoFact \in Fact
      /\ op' = op
  BY DEF NodeInv, NoFact, IngestEvent, FloorPasses, RollbackEvents, SurpriseEvents
<1>2. ASSUME NEW p \in Ops
      PROVE  fact'[p] \in Fact /\ (fact'[p] # NoFact => p \in done)
  <2>1. fact[p] \in Fact /\ (fact[p] # NoFact => p \in done)
    BY DEF NodeInv
  <2>2. CASE o \in done /\ IngestEvent(o)
    <3>1. PICK b \in 1 .. MaxBlocks : fact' = [fact EXCEPT ![o] = [block |-> b, final |-> FALSE]]
      BY <2>2 DEF IngestEvent
    <3>2. b \in Nat
      BY <3>1
    <3>3. [block |-> b, final |-> FALSE] \in Fact
      BY <3>2
    <3> HIDE DEF Fact
    <3> QED
      BY <1>1, <2>1, <2>2, <3>1, <3>3
  <2>3. CASE FloorPasses(o)
    <3>1. fact' = [fact EXCEPT ![o].final = TRUE] /\ fact[o].block # 0
      BY <2>3 DEF FloorPasses
    <3>2. CASE p = o
      BY <1>1, <2>1, <3>1, <3>2
    <3>3. CASE p # o
      BY <1>1, <2>1, <3>1, <3>3
    <3> QED
      BY <3>2, <3>3
  <2>4. CASE Drop(o)
    <3>1. fact'[p] = NoFact \/ fact'[p] = fact[p]
      BY <2>4 DEF Drop
    <3> QED
      BY <1>1, <2>1, <3>1
  <2> QED
    BY <2>2, <2>3, <2>4 DEF RollbackEvents, SurpriseEvents
<1>3. fact' = [p \in Ops |-> fact'[p]]
  BY <1>1 DEF IngestEvent, FloorPasses, RollbackEvents, SurpriseEvents, Drop
<1>4. fact' \in [Ops -> Fact]
  BY <1>2, <1>3
<1> QED
  BY <1>1, <1>2, <1>4 DEF NodeInv

-----------------------------------------------------------------------------
(* The steps. *)

LEMMA CapacityInit == Init => CapacityInv
<1> SUFFICES ASSUME Init PROVE CapacityInv
  OBVIOUS
<1>1. NoTask \in Row /\ NoTask.key = NoKey /\ NoTask.status = "none" /\ NoTask.token = 0 /\ ~NoTask.live
  BY Names DEF NoTask, Row
<1>2. task = [t \in Tasks |-> NoTask] /\ past = {} /\ done = {} /\ load \in Loads
      /\ calls = [k \in Keys \cup Signals |-> 0] /\ run = [w \in CapacityWorkers |-> NoRun]
  BY DEF Init, IntentsInit
<1>3. RowsNamed(task, past) /\ RowsDone(task, done)
  BY <1>1, <1>2 DEF RowsNamed, NamedRow, RowsDone
<1>4. NoRun \in Runs /\ NoRun.batch = {} /\ NoRun.doing = NoLease
  BY DEF NoRun, Runs, Stages
<1>5. run \in [CapacityWorkers -> Runs] /\ \A w \in CapacityWorkers : RunStands(run[w], task, past, done)
  BY <1>2, <1>4 DEF RunStands
<1>6. \A k : Calling(k, run) = {}
  BY <1>2, <1>4 DEF Calling
<1>7. \A k \in Keys \cup Signals : Spent(k, calls, run) = 0
  BY <1>2, <1>6, FS_EmptySet DEF Spent
<1>8. CallsCounted(task, past, calls, run)
  BY <1>1, <1>2, <1>7, Names DEF CallsCounted
<1>9. NodeInv
  <2>1. op = <<>> /\ fact = [o \in Ops |-> NoFact]
    BY DEF Init, LifecycleInit
  <2>2. op \in Seq(OpRow) /\ Len(op) <= MaxOps /\ DOMAIN op = {}
    BY <2>1, Names
  <2> QED
    BY <2>1, <2>2 DEF NodeInv, NoFact
<1> QED
  BY <1>2, <1>3, <1>5, <1>8, <1>9 DEF CapacityInv, TasksInv

(* a run that enters a stage, or is aborted, with nothing to call for yet *)
LEMMA Entered ==
  ASSUME NEW stage \in Stages, NEW batch \in SUBSET Leases
  PROVE  /\ [NoRun EXCEPT !.stage = stage, !.batch = batch] \in Runs
         /\ [NoRun EXCEPT !.stage = stage, !.batch = batch].batch = batch
         /\ [NoRun EXCEPT !.stage = stage, !.batch = batch].doing = NoLease
BY DEF NoRun, Runs, Stages

LEMMA NothingRuns == NoRun \in Runs /\ NoRun.batch = {} /\ NoRun.doing = NoLease
BY DEF NoRun, Runs, Stages

LEMMA RunEmptied ==
  ASSUME NEW rows, NEW keys, NEW cs, NEW runs, NEW carried,
         TasksInv(rows, keys, cs, runs, carried),
         NEW w \in CapacityWorkers, NEW r \in Runs, r.batch = {}, r.doing = NoLease
  PROVE  TasksInv(rows, keys, cs, [runs EXCEPT ![w] = r], carried)
<1>1. RunStands(r, rows, keys, carried)
  BY DEF RunStands
<1> QED
  BY <1>1, RunStep

LEMMA StageEntered ==
  ASSUME NEW rows, NEW keys, NEW cs, NEW carried, TasksInv(rows, keys, cs, run, carried),
         NEW w \in CapacityWorkers, NEW stage \in Stages, Enter(w, stage, {}) \/ AbortRun(w)
  PROVE  TasksInv(rows, keys, cs, run', carried)
<1> DEFINE r == [NoRun EXCEPT !.stage = stage, !.batch = {}]
<1>1. r \in Runs /\ r.batch = {} /\ r.doing = NoLease
  BY Entered
<1>2. run' = [run EXCEPT ![w] = r] \/ run' = [run EXCEPT ![w] = NoRun]
  BY DEF Enter, AbortRun
<1> HIDE DEF r
<1> QED
  BY <1>1, <1>2, NothingRuns, RunEmptied

LEMMA LeaseEntered ==
  ASSUME NEW rows, NEW keys, NEW cs, NEW carried, TasksInv(rows, keys, cs, run, carried),
         NEW w \in CapacityWorkers, run[w].batch = {}, NEW stage \in Stages,
         NEW t \in Tasks, Tryable(rows[t]), NEW next, next = [rows EXCEPT ![t] = LeasedRow(@)],
         Enter(w, stage, {LeaseOf(t, next)})
  PROVE  TasksInv(next, keys, cs, run', carried)
<1> DEFINE b == {LeaseOf(t, next)}
           r == [NoRun EXCEPT !.stage = stage, !.batch = b]
<1>1. rows \in [Tasks -> Row] /\ rows[t] \in Row /\ rows[t].key # NoKey
  <2>1. rows \in [Tasks -> Row] /\ rows[t].status # "none"
    BY DEF TasksInv, RowsNamed, Tryable
  <2> QED
    BY <2>1 DEF TasksInv, RowsNamed, NamedRow
<1>2. LeasedRow(rows[t]) \in Row /\ LeasedRow(rows[t]).key = rows[t].key
      /\ next[t] = LeasedRow(rows[t])
  BY <1>1, LeasedRowType
<1>3. LeaseOf(t, next) \in Leases
  <2>1. next[t].key \in Keys \cup Signals /\ next[t].token \in Nat
    BY <1>1, <1>2 DEF Row
  <2> QED
    BY <2>1 DEF LeaseOf, Leases
<1>4. r \in Runs /\ r.batch = b /\ r.doing = NoLease
  <2>1. b \in SUBSET Leases
    BY <1>3
  <2> HIDE DEF b
  <2> QED
    BY <2>1, Entered
<1>5. run' = [run EXCEPT ![w] = r]
  BY DEF Enter
<1> HIDE DEF r
<1> QED
  BY <1>4, <1>5, LeaseGiven

LEMMA LeasesTaken ==
  ASSUME CapacityInv, NEW w \in CapacityWorkers, BeginRun(w) \/ LeaseIntents(w)
  PROVE  TasksInv(task', past', calls', run', done')
<1>1. TasksInv(task, past, calls, run, done) /\ UNCHANGED <<past, calls, done>>
      /\ run[w].batch = {} /\ load.signals \subseteq Signals
  <2>1. load \in [keys : SUBSET Keys, signals : SUBSET Signals, ops : Nat, assign : BOOLEAN, waits : Nat]
    BY LoadsAssumption DEF CapacityInv
  <2> QED
    BY <2>1 DEF CapacityInv, BeginRun, LeaseIntents, Between, provider
<1>2. "signal" \in Stages /\ "intents" \in Stages
  BY DEF Stages
<1>3. CASE BeginRun(w)
  <2>1. PICK new \in {{}} \cup {{s} : s \in {t \in load.signals : task[t].status = "none"}} :
          \/ task' = WithWindow(new) /\ Enter(w, "signal", {})
          \/ \E s \in Signals :
               /\ Tryable(WithWindow(new)[s])
               /\ task' = [WithWindow(new) EXCEPT ![s] = LeasedRow(@)]
               /\ Enter(w, "signal", {LeaseOf(s, task')})
    BY <1>3 DEF BeginRun
  <2> DEFINE rows == WithWindow(new)
  <2>2. \A t \in new : t \in Signals /\ task[t].status = "none"
    BY <1>1
  <2>3. rows = Opened(task, new)
    BY DEF WithWindow, Opened
  <2> HIDE DEF rows
  <2>4. TasksInv(rows, past, calls, run, done)
    BY <1>1, <2>2, <2>3, WindowsOpened
  <2>5. CASE task' = rows /\ Enter(w, "signal", {})
    BY <1>1, <1>2, <2>4, <2>5, StageEntered
  <2>6. ASSUME NEW s \in Signals, Tryable(rows[s]), task' = [rows EXCEPT ![s] = LeasedRow(@)],
               Enter(w, "signal", {LeaseOf(s, task')})
        PROVE  TasksInv(task', past, calls, run', done)
    <3>1. s \in Tasks
      BY Names
    <3> QED
      BY <1>1, <1>2, <2>4, <2>6, <3>1, LeaseEntered
  <2> QED
    BY <1>1, <2>1, <2>5, <2>6 DEF rows
<1>4. CASE LeaseIntents(w)
  <2>1. \/ (Enter(w, "intents", {}) \/ AbortRun(w)) /\ task' = task
        \/ /\ Tryable(task[Allocation]) /\ task' = [task EXCEPT ![Allocation] = LeasedRow(@)]
           /\ Enter(w, "intents", {LeaseOf(Allocation, task')})
    BY <1>4 DEF LeaseIntents
  <2>2. CASE (Enter(w, "intents", {}) \/ AbortRun(w)) /\ task' = task
    BY <1>1, <1>2, <2>2, StageEntered
  <2>3. CASE /\ Tryable(task[Allocation]) /\ task' = [task EXCEPT ![Allocation] = LeasedRow(@)]
             /\ Enter(w, "intents", {LeaseOf(Allocation, task')})
    <3>1. Allocation \in Tasks
      BY Names
    <3> QED
      BY <1>1, <1>2, <2>3, <3>1, LeaseEntered
  <2> QED
    BY <1>1, <2>1, <2>2, <2>3
<1> QED
  BY <1>3, <1>4

LEMMA NodesLeased ==
  ASSUME CapacityInv, NEW w \in CapacityWorkers, LeaseNodes(w)
  PROVE  NodeInv' /\ TasksInv(task', past', calls', run', done')
<1>1. NodeInv /\ TasksInv(task, past, calls, run, done) /\ UNCHANGED <<task, past, calls, done>>
  BY DEF CapacityInv, LeaseNodes, provider
<1>2. "nodes" \in Stages
  BY DEF Stages
<1>3. CASE AbortRun(w) /\ UNCHANGED lifecycle
  <2>1. NodeInv'
    BY <1>1, <1>3 DEF NodeInv, lifecycle
  <2> QED
    BY <1>1, <1>2, <1>3, <2>1, StageEntered
<1>4. CASE LeaseOps /\ \E b : Enter(w, "nodes", b) /\ b = {[of |-> o, key |-> o, token |-> op'[o].attempts] :
                                     o \in {p \in DOMAIN op : op'[p] # SweptOp(op[p])}}
  <2> DEFINE b == {[of |-> o, key |-> o, token |-> op'[o].attempts] :
                     o \in {p \in DOMAIN op : op'[p] # SweptOp(op[p])}}
             r == [NoRun EXCEPT !.stage = "nodes", !.batch = b]
  <2>1. NodeInv'
    BY <1>1, <1>4, LeasedOps
  <2>2. DOMAIN op' = DOMAIN op
    BY <1>4 DEF LeaseOps
  <2>3. ASSUME NEW o \in DOMAIN op
        PROVE  o \in Ops /\ op'[o].attempts \in Nat
    <3>1. \A p \in DOMAIN op' : op'[p] \in OpRow
      BY <2>1 DEF NodeInv
    <3> QED
      BY <1>1, <2>2, <3>1, OpDomain DEF OpRow
  <2>4. ASSUME NEW l \in b
        PROVE  l \in Leases /\ l.of \in Ops /\ l.key = l.of
    <3>1. PICK o \in DOMAIN op : l = [of |-> o, key |-> o, token |-> op'[o].attempts]
      OBVIOUS
    <3> QED
      BY <2>3, <3>1 DEF Leases
  <2> HIDE DEF b
  <2>5. r \in Runs /\ r.batch = b /\ r.doing = NoLease
    BY <1>2, <2>4, Entered
  <2>6. run' = [run EXCEPT ![w] = r]
    BY <1>4 DEF Enter, b
  <2> HIDE DEF r
  <2>7. RunStands(r, task, past, done) /\ \A l \in r.batch : l.key \notin Keys \cup Signals
    BY <2>4, <2>5, Names DEF RunStands, LeaseStands
  <2>8. TasksInv(task, past, calls, run', done)
    BY <1>1, <2>5, <2>6, <2>7, RunStep
  <2> QED
    BY <1>1, <2>1, <2>8
<1> QED
  BY <1>3, <1>4 DEF LeaseNodes

LEMMA CallStep ==
  ASSUME CapacityInv, NEW w \in CapacityWorkers, Call(w)
  PROVE  NodeInv' /\ TasksInv(task', past', calls', run', done')
<1>1. PICK l \in run[w].batch, answer \in Answers :
        /\ calls' = [k \in DOMAIN calls |-> IF k = l.key THEN calls[k] + 1 ELSE calls[k]]
        /\ done' = done \cup {l.key} \/ (answer # "APPLIED" /\ done' = done)
        /\ run' = [run EXCEPT ![w].batch = @ \ {l}, ![w].doing = l, ![w].answer = answer]
        /\ UNCHANGED <<task, past, lifecycle>>
  BY DEF Call
<1> DEFINE r == [run[w] EXCEPT !.batch = @ \ {l}, !.doing = l, !.answer = answer]
<1>2. NodeInv /\ TasksInv(task, past, calls, run, done) /\ run \in [CapacityWorkers -> Runs]
  BY DEF CapacityInv, TasksInv
<1>3. run' = [run EXCEPT ![w] = r]
  BY <1>1, <1>2
<1>4. r \in Runs /\ r.batch = run[w].batch \ {l} /\ r.doing = l /\ r.answer = answer
  <2>1. run[w] \in Runs /\ l \in Leases
    BY <1>2 DEF Runs
  <2> QED
    BY <2>1 DEF Runs
<1> HIDE DEF r
<1>5. done \subseteq done' /\ (answer = "APPLIED" => l.key \in done')
  BY <1>1
<1>6. NodeInv'
  BY <1>1, <1>2, <1>5 DEF NodeInv, lifecycle
<1>7. TasksInv(task, past, calls', run', done')
  <2>1. /\ calls' \in [Keys \cup Signals -> Nat]
        /\ \A k \in Keys \cup Signals : calls'[k] = IF k = l.key THEN calls[k] + 1 ELSE calls[k]
    BY <1>1, <1>2 DEF TasksInv, CallsCounted
  <2>2. l \in run[w].batch /\ answer \in Answers
    OBVIOUS
  <2>3. TasksInv(task, past, calls, run, done)
    BY <1>2
  <2> DEFINE more == calls'
             further == done'
             after == run'
  <2>4. /\ more \in [Keys \cup Signals -> Nat] /\ done \subseteq further
        /\ (answer = "APPLIED" => l.key \in further)
        /\ \A k \in Keys \cup Signals : more[k] = IF k = l.key THEN calls[k] + 1 ELSE calls[k]
    BY <1>5, <2>1
  <2>5. after \in [CapacityWorkers -> Runs] /\ after[w] = r
        /\ \A v \in CapacityWorkers : v # w => after[v] = run[v]
    BY <1>2, <1>3, <1>4
  <2> HIDE DEF more, further, after
  <2>6. ProviderCalled(w, l, answer, more, after, further)
    BY <1>4, <2>2, <2>4, <2>5 DEF ProviderCalled
  <2>7. TasksInv(task, past, more, after, further)
    BY <2>3, <2>6, Called
  <2> QED
    BY <2>7 DEF more, further, after
<1> QED
  BY <1>1, <1>6, <1>7

LEMMA ReportStep ==
  ASSUME CapacityInv, NEW w \in CapacityWorkers, Report(w)
  PROVE  NodeInv' /\ TasksInv(task', past', calls', run', done')
<1> DEFINE l == run[w].doing
           r == [run[w] EXCEPT !.doing = NoLease, !.answer = NoAnswer]
<1>1. NodeInv /\ TasksInv(task, past, calls, run, done) /\ run \in [CapacityWorkers -> Runs]
      /\ UNCHANGED <<past, calls, done>> /\ RunStands(run[w], task, past, done)
  BY DEF CapacityInv, TasksInv, Report, provider
<1>2. l # NoLease /\ run[w] \in Runs /\ l \in Leases /\ run[w].answer \in Answers \cup {NoAnswer}
      /\ task \in [Tasks -> Row]
  BY <1>1 DEF Report, Runs, TasksInv, RowsNamed
<1>3. LeaseStands(l, task, past) /\ (run[w].answer = "APPLIED" => l.key \in done)
  BY <1>1, <1>2 DEF RunStands
<1>4. r \in Runs /\ r.batch = run[w].batch /\ r.doing = NoLease
  BY <1>2 DEF Runs
<1>5. ASSUME run' = [run EXCEPT ![w].doing = NoLease, ![w].answer = NoAnswer],
             NEW rows, TasksInv(rows, past, calls, run, done)
      PROVE  TasksInv(rows, past, calls, run', done)
  <2>1. run' = [run EXCEPT ![w] = r]
    BY <1>1, <1>5
  <2>2. RunStands(r, rows, past, done)
    BY <1>4, <1>5 DEF RunStands, TasksInv
  <2>3. r \in Runs /\ \A m \in r.batch : m \in run[w].batch
    BY <1>4
  <2> HIDE DEF r
  <2>4. TasksInv(rows, past, calls, [run EXCEPT ![w] = r], done)
    BY <1>5, <2>2, <2>3, RunStep
  <2> QED
    BY <2>1, <2>4
<1>6. CASE /\ l.of \in Tasks /\ Holds(task[l.of], l) /\ UNCHANGED lifecycle
           /\ task' = [task EXCEPT ![l.of] = Answered(@, run[w].answer, Success(l.of))]
           /\ run' = [run EXCEPT ![w].doing = NoLease, ![w].answer = NoAnswer]
  <2> DEFINE q == Answered(task[l.of], run[w].answer, Success(l.of))
  <2>1. run[w].answer \in Answers
    <3>1. run[w].doing # NoLease => run[w].answer \in Answers
      BY <1>1 DEF RunStands
    <3> QED
      BY <1>2, <3>1
  <2>2. task[l.of] \in Row /\ Success(l.of) \in {"APPLIED", "SENT"}
    BY <1>2, <1>6 DEF Success
  <2>3. /\ q \in Row /\ q.key = task[l.of].key /\ q.token = task[l.of].token
        /\ q.attempts = task[l.of].attempts /\ q.status \notin {"none", "LEASED"}
        /\ q.status \in {"APPLIED", "SENT"} => run[w].answer = "APPLIED"
    <3> DEFINE was == task[l.of]
               answer == run[w].answer
               success == Success(l.of)
    <3>1. was \in Row /\ answer \in Answers /\ success \in {"APPLIED", "SENT"}
      BY <2>1, <2>2
    <3> HIDE DEF was, answer, success
    <3>2. /\ Answered(was, answer, success) \in Row
          /\ Answered(was, answer, success).key = was.key
          /\ Answered(was, answer, success).token = was.token
          /\ Answered(was, answer, success).attempts = was.attempts
          /\ Answered(was, answer, success).status \notin {"none", "LEASED"}
          /\ Answered(was, answer, success).status \in {"APPLIED", "SENT"} => answer = "APPLIED"
      BY <3>1, AnsweredType
    <3> QED
      BY <3>2 DEF was, answer, success
  <2>4. task' = [task EXCEPT ![l.of] = q]
    BY <1>2, <1>6
  <2>5. task[l.of].status # "none" /\ l.key = task[l.of].key
    BY <1>3, <1>6 DEF LeaseStands, Holds
  <2>6. l.of \in Tasks /\ (q.status \in {"APPLIED", "SENT"} => q.key \in done)
    BY <1>3, <1>6, <2>3, <2>5
  <2> HIDE DEF q, l
  <2>7. TasksInv([task EXCEPT ![l.of] = q], past, calls, run, done)
    BY <1>1, <2>3, <2>5, <2>6, RowWritten
  <2>8. TasksInv(task', past, calls, run', done)
    BY <1>5, <1>6, <2>4, <2>7
  <2>9. NodeInv'
    BY <1>1, <1>6 DEF NodeInv, lifecycle
  <2> QED
    BY <1>1, <2>8, <2>9
<1>7. CASE /\ l.of \in Ops /\ op' = [op EXCEPT ![l.of] = AnsweredOp(@, run[w].answer)]
           /\ run' = [run EXCEPT ![w].doing = NoLease, ![w].answer = NoAnswer]
           /\ UNCHANGED <<task, fact>>
  <2> DEFINE q == AnsweredOp(op[l.of], run[w].answer)
             s == Status(op[l.of].attempts, run[w].answer, "VERIFYING")
  <2>1. run[w].answer \in Answers
    <3>1. run[w].doing # NoLease => run[w].answer \in Answers
      BY <1>1 DEF RunStands
    <3> QED
      BY <1>2, <3>1
  <2>2. s \in {"VERIFYING", "RETRY", "FAILED"} /\ (s = "VERIFYING" => l.key \in done)
    BY <1>3, <2>1 DEF Answers, Status
  <2>3. l.key = l.of
    BY <1>3, <1>7 DEF LeaseStands
  <2>4. op' = [op EXCEPT ![l.of] = q]
    BY <1>7
  <2>5. l.of \in DOMAIN op => q \in OpRow /\ q.status = s
    <3>1. l.of \in DOMAIN op => op[l.of] \in OpRow
      BY <1>1, OpDomain
    <3>2. q = [op[l.of] EXCEPT !.status = s, !.live = FALSE]
      BY DEF AnsweredOp
    <3> HIDE DEF s, q
    <3> QED
      BY <2>2, <3>1, <3>2 DEF OpRow, Unfinished
  <2> HIDE DEF q, s
  <2>6. NodeInv'
    BY <1>1, <1>7, <2>2, <2>3, <2>4, <2>5, OpWritten
  <2>7. TasksInv(task, past, calls, run', done)
    BY <1>1, <1>5, <1>7
  <2> QED
    BY <1>1, <1>7, <2>6, <2>7
<1>8. CASE AbortRun(w) /\ UNCHANGED <<task, lifecycle>>
  <2>1. NodeInv'
    BY <1>1, <1>8 DEF NodeInv, lifecycle
  <2>2. TasksInv(task, past, calls, run', done)
    <3>1. "idle" \in Stages
      BY DEF Stages
    <3> QED
      BY <1>1, <1>8, <3>1, StageEntered
  <2> QED
    BY <1>1, <1>8, <2>1, <2>2
<1> QED
  BY <1>6, <1>7, <1>8 DEF Report

LEMMA TasksStay ==
  ASSUME CapacityInv, UNCHANGED <<task, past, calls, run, done>>
  PROVE  TasksInv(task', past', calls', run', done')
BY DEF CapacityInv

LEMMA NodesStay ==
  ASSUME CapacityInv, UNCHANGED <<op, fact, done>>
  PROVE  NodeInv'
BY DEF CapacityInv, NodeInv

LEMMA CapacityWorkerStep ==
  ASSUME CapacityInv, NEW w \in CapacityWorkers, Worker(w)
  PROVE  NodeInv' /\ TasksInv(task', past', calls', run', done')
<1>1. NodeInv /\ TasksInv(task, past, calls, run, done) /\ "reconcile" \in Stages /\ "idle" \in Stages
  BY DEF CapacityInv, Stages
<1>2. CASE BeginRun(w) \/ LeaseIntents(w)
  <2>1. NodeInv'
    BY <1>2, NodesStay DEF BeginRun, LeaseIntents, lifecycle, provider
  <2> QED
    BY <1>2, <2>1, LeasesTaken
<1>3. CASE Reconcile(w)
  <2>1. UNCHANGED <<task, past, calls, done>> /\ (Enter(w, "reconcile", {}) \/ AbortRun(w))
        /\ (ReconcileFacts \/ UNCHANGED lifecycle)
    BY <1>3 DEF Reconcile, provider
  <2>2. NodeInv'
    BY <1>1, <2>1, VerifiedOps, NodesStay DEF lifecycle
  <2>3. TasksInv(task, past, calls, run', done)
    BY <1>1, <2>1, StageEntered
  <2> QED
    BY <2>1, <2>2, <2>3
<1>4. CASE LeaseNodes(w)
  BY <1>4, NodesLeased
<1>5. CASE EndRun(w)
  <2>1. UNCHANGED <<task, past, calls, done>> /\ AbortRun(w) /\ UNCHANGED lifecycle
    BY <1>5 DEF EndRun, provider
  <2>2. TasksInv(task, past, calls, run', done)
    BY <1>1, <2>1, StageEntered
  <2> QED
    BY <2>1, <2>2, NodesStay DEF lifecycle
<1>6. CASE Call(w)
  BY <1>6, CallStep
<1>7. CASE Report(w)
  BY <1>7, ReportStep
<1> QED
  BY <1>2, <1>3, <1>4, <1>5, <1>6, <1>7 DEF Worker

LEMMA CapacityStep == CapacityInv /\ [Next]_vars => CapacityInv'
<1> SUFFICES ASSUME CapacityInv, [Next]_vars PROVE CapacityInv'
  OBVIOUS
<1>1. NodeInv /\ TasksInv(task, past, calls, run, done) /\ load \in Loads
  BY DEF CapacityInv
<1>2. load' = load
  <2>1. CASE UNCHANGED vars
    BY <2>1 DEF vars
  <2>2. ASSUME NEW w \in CapacityWorkers, BeginRun(w) \/ LeaseIntents(w) \/ LeaseNodes(w) \/ EndRun(w)
        PROVE  load' = load
    BY <2>2 DEF BeginRun, LeaseIntents, LeaseNodes, EndRun
  <2>3. ASSUME NEW w \in CapacityWorkers, Reconcile(w) \/ Call(w) \/ Report(w)
        PROVE  load' = load
    BY <2>3 DEF Reconcile, Call, Report
  <2>4. ASSUME NEW w \in CapacityWorkers, TakeOver(w) \/ RunDies(w)
        PROVE  load' = load
    BY <2>4 DEF TakeOver, RunDies
  <2>5. CASE Clients \/ Admins \/ Chain
    BY <2>5 DEF Clients, Admins, Chain, Keep
  <2>6. CASE (\E t \in Tasks : TaskClock(t)) \/ \E o \in Ops : OpClock(o)
    BY <2>6 DEF TaskClock, OpClock, Keep
  <2> QED
    BY <2>1, <2>2, <2>3, <2>4, <2>5, <2>6 DEF Next, Worker
<1>3. ASSUME NodeInv', TasksInv(task', past', calls', run', done')
      PROVE  CapacityInv'
  BY <1>1, <1>2, <1>3 DEF CapacityInv
<1>4. CASE UNCHANGED vars
  BY <1>3, <1>4, TasksStay, NodesStay DEF vars
<1>5. ASSUME NEW w \in CapacityWorkers, Worker(w) \/ TakeOver(w) \/ RunDies(w)
      PROVE  CapacityInv'
  <2>1. CASE Worker(w)
    BY <1>3, <2>1, CapacityWorkerStep
  <2>2. CASE TakeOver(w)
    BY <1>3, <2>2, TasksStay, NodesStay DEF TakeOver, lifecycle, provider
  <2>3. CASE RunDies(w)
    <3>1. UNCHANGED <<task, past, calls, done, op, fact>> /\ AbortRun(w) /\ "idle" \in Stages
      BY <2>3 DEF RunDies, lifecycle, provider, Stages
    <3>2. TasksInv(task, past, calls, run', done)
      BY <1>1, <3>1, StageEntered
    <3> QED
      BY <1>3, <3>1, <3>2, NodesStay
  <2> QED
    BY <1>5, <2>1, <2>2, <2>3
<1>6. CASE Clients
  <2>1. PICK k \in load.keys, p \in Keys \cup {NoKey} : RequestIntent(k, p)
    BY <1>6 DEF Clients
  <2>2. k \in Keys
    <3>1. load \in [keys : SUBSET Keys, signals : SUBSET Signals, ops : Nat, assign : BOOLEAN, waits : Nat]
      BY <1>1, LoadsAssumption
    <3> QED
      BY <3>1
  <2>3. UNCHANGED <<calls, run, done, op, fact>>
    BY <1>6 DEF Clients, Keep, lifecycle, provider
  <2>4. TasksInv(task', past', calls, run, done)
    BY <1>1, <2>1, <2>2, Requested DEF RequestIntent
  <2> QED
    BY <1>3, <2>3, <2>4, NodesStay
<1>7. CASE Admins
  <2>1. UNCHANGED <<task, past, calls, run, done>>
    BY <1>7 DEF Admins, Keep, provider
  <2>2. (\E s \in {"DRAINING", "RETIRED"} : \E d : RequestOp(s, d)) \/ UNCHANGED <<op, fact>>
    BY <1>7 DEF Admins, Assign
  <2>3. NodeInv'
    BY <1>1, <2>1, <2>2, RequestedOp, NodesStay
  <2> QED
    BY <1>3, <2>1, <2>3, TasksStay
<1>8. CASE Chain
  <2>1. UNCHANGED <<task, past, calls, run, done>>
    BY <1>8 DEF Chain, Keep, provider
  <2>2. NodeInv'
    BY <1>1, <1>8, <2>1, FactsChange DEF Chain
  <2> QED
    BY <1>3, <2>1, <2>2, TasksStay
<1>9. ASSUME NEW t \in Tasks, TaskClock(t)
      PROVE  CapacityInv'
  <2> DEFINE q == [task[t] EXCEPT !.live = FALSE]
  <2>1. UNCHANGED <<past, calls, run, done, op, fact>> /\ task[t].live /\ task \in [Tasks -> Row]
    BY <1>1, <1>9 DEF TaskClock, ExpireTask, Keep, lifecycle, provider, TasksInv, RowsNamed
  <2>2. task' = [task EXCEPT ![t] = q]
    BY <1>9, <2>1 DEF TaskClock, ExpireTask
  <2>3. q \in Row /\ q.key = task[t].key /\ q.token = task[t].token /\ q.attempts = task[t].attempts
        /\ q.status = task[t].status
    BY <2>1, ExpiredType
  <2>4. task[t].status # "none"
    BY <1>1, <2>1 DEF TasksInv, RowsNamed, NamedRow
  <2>5. task[t].status \in {"APPLIED", "SENT"} => task[t].key \in done
    BY <1>1 DEF TasksInv, RowsDone
  <2> HIDE DEF q
  <2>6. TasksInv(task', past, calls, run, done)
    BY <1>1, <2>2, <2>3, <2>4, <2>5, RowWritten
  <2> QED
    BY <1>3, <2>1, <2>6, NodesStay
<1>10. ASSUME NEW o \in Ops, OpClock(o)
       PROVE  CapacityInv'
  <2> DEFINE q == [op[o] EXCEPT !.live = FALSE]
  <2>1. UNCHANGED <<task, past, calls, run, done, fact>> /\ op' = [op EXCEPT ![o] = q] /\ o \in DOMAIN op
    BY <1>10 DEF OpClock, ExpireOp, Keep, provider
  <2>2. op[o] \in OpRow
    BY <1>1, <2>1, OpDomain
  <2>3. q \in OpRow /\ q.status = op[o].status
    BY <2>2 DEF OpRow
  <2>4. op[o].status \in {"VERIFYING", "APPLIED", "RECOVERY_REQUIRED"} => o \in done
    BY <1>1, <2>1 DEF NodeInv
  <2> HIDE DEF q
  <2>5. NodeInv'
    BY <1>1, <2>1, <2>3, <2>4, OpWritten
  <2> QED
    BY <1>3, <2>1, <2>5, TasksStay
<1> QED
  BY <1>4, <1>5, <1>6, <1>7, <1>8, <1>9, <1>10 DEF Next

LEMMA CapacityImplies == CapacityInv => AppliedWasDone
<1> SUFFICES ASSUME CapacityInv PROVE AppliedWasDone
  OBVIOUS
<1>1. NodeInv /\ TasksInv(task, past, calls, run, done)
  BY DEF CapacityInv
<1>2. ASSUME NEW k \in Keys \cup Signals
      PROVE  /\ calls[k] \in Nat /\ Spent(k, calls, run) \in Nat
             /\ calls[k] <= Spent(k, calls, run) /\ calls[k] <= MaxAttempts
  <2>1. calls[k] \in Nat /\ Cardinality(Calling(k, run)) \in Nat /\ Spent(k, calls, run) <= MaxAttempts
    BY <1>1, CallersFinite DEF TasksInv, CallsCounted
  <2> QED
    BY <2>1, Names DEF Spent
<1>3. ASSUME NEW t \in Tasks, task[t].key # NoKey
      PROVE  calls[task[t].key] <= task[t].attempts
  <2>1. Spent(task[t].key, calls, run) <= task[t].attempts
    BY <1>1, <1>3 DEF TasksInv, CallsCounted
  <2>2. task[t].key \in Keys \cup Signals /\ task[t].attempts \in Nat
    BY <1>1, <1>3 DEF TasksInv, RowsNamed, Row
  <2> QED
    BY <1>2, <2>1, <2>2
<1>4. CallsAreBounded
  BY <1>2, <1>3 DEF CallsAreBounded
<1> QED
  BY <1>1, <1>4 DEF AppliedWasDone, TasksInv, RowsDone, NodeInv

THEOREM AppliedWasDoneAlways == Spec => []AppliedWasDone
<1> QED
  BY CapacityInit, CapacityStep, CapacityImplies, PTL DEF Spec
=============================================================================
