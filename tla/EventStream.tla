------------------------------ MODULE EventStream ------------------------------
(***************************************************************************)
(* The outbox of postgres-hosted-store.ts and the streams that              *)
(* GET /hosting/v1/events of hosting-routes.ts serves from it: writers that *)
(* append in transactions of their own, retention, and viewers that follow  *)
(* by event id, are cut off, and come back with the id they saw last.       *)
(* An event id is drawn before the transaction commits and is not given     *)
(* back when it rolls back. A stream holds one of a bounded number of slot  *)
(* rows. Time is a flag on a slot row: it ran out.                          *)
(***************************************************************************)
EXTENDS Naturals, Sequences, FiniteSets, FiniteSetsExt, SequencesExt

CONSTANTS
  Writers,       \* coordinators and workers that run hosted transactions
  Viewers,       \* principals, each of a tenant of its own
  Everyone,      \* the audience "public-chain"; any other names its viewer
  Topics,        \* what is written: an audience and a retention class each
  Cap,           \* MAX_GLOBAL_SSE_CONNECTIONS and limits.sseConnections
  Page,          \* events that readOutbox returns at most
  MaxEvents, MaxConnections, MaxBreaks   \* bounds; a break is a stall, a crash or an error

ASSUME EventStreamAssumption ==
  /\ Cap \in Nat \ {0} /\ Page \in Nat \ {0} /\ {MaxEvents, MaxConnections, MaxBreaks} \subseteq Nat
  /\ Everyone \notin Viewers
  /\ Topics \subseteq [audience : Viewers \cup {Everyone}, class : {"audit", "safety"}]

(* outboxRetentionClass; "transient" is "audit" with a shorter time *)
Classes == {t.class : t \in Topics}
Ids == 1 .. MaxEvents
Connections == 1 .. MaxConnections
Refetch == 0      \* no event has this id

VARIABLES
  sequence,   \* last event id drawn
  writing,    \* writers with a transaction open
  pending,    \* by writer: the rows its transaction inserted
  outbox,     \* hosted_outbox: the committed rows
  resolved,   \* ids of safety rows with resolved_at
  reaped,     \* history: rows that were deleted
  slots,      \* hosted_sse_connections: by connection "none", "live" or "expired"
  stream,     \* by viewer: what the handler of its connection keeps
  wire,       \* by viewer: written and not yet received
  got,        \* by viewer: the ids it received
  told,       \* by viewer: it was told to refetch
  breaks

log == <<sequence, writing, pending, outbox>>
retention == <<resolved, reaped>>
viewer == <<wire, got, told>>
streamVars == <<log, retention, slots, stream, viewer, breaks>>

Visible(v, e) == e.audience \in {v, Everyone}
LastSeen(v) == Max(got[v] \cup {0})     \* the Last-Event-ID it would come back with
Ended == [pc |-> "ended", id |-> 0, cursor |-> 0, page |-> {}, gone |-> FALSE]
Open(v) == stream[v].pc # "ended"
Serves(v, k) == Open(v) /\ stream[v].id = k

-----------------------------------------------------------------------------
(* writers *)

NeverWaits == TRUE

(* assertFence: SELECT ... FOR UPDATE of the one lease row, held until the end *)
Unlocked == writing = {}

Begin(w) ==
  /\ w \notin writing /\ Unlocked
  /\ writing' = writing \cup {w}
  /\ UNCHANGED <<sequence, pending, outbox, retention, slots, stream, viewer, breaks>>

(* outbox(): nextval and the insert *)
Insert(w) ==
  /\ w \in writing /\ sequence < MaxEvents
  /\ sequence' = sequence + 1
  /\ \E t \in Topics :
       pending' = [pending EXCEPT ![w] =
         @ \cup {[id |-> sequence', audience |-> t.audience, class |-> t.class]}]
  /\ UNCHANGED <<writing, outbox, retention, slots, stream, viewer, breaks>>

(* transaction(): COMMIT, or ROLLBACK when a later statement throws *)
End(w) ==
  /\ w \in writing
  /\ writing' = writing \ {w} /\ pending' = [pending EXCEPT ![w] = {}]
  /\ outbox' \in {outbox, outbox \cup pending[w]}
  /\ UNCHANGED <<sequence, retention, slots, stream, viewer, breaks>>

-----------------------------------------------------------------------------
(* retention *)

ResolveSafetyEvent(i) ==
  /\ Unlocked /\ i \notin resolved
  /\ \E e \in outbox : e.id = i /\ e.class = "safety"
  /\ resolved' = resolved \cup {i}
  /\ UNCHANGED <<log, reaped, slots, stream, viewer, breaks>>

(* thirty days at least: a stream in service has read what is that old *)
Served(e) ==
  \A v \in Viewers :
    stream[v].pc \in {"idle", "page"} /\ Visible(v, e) => e.id <= stream[v].cursor

(* ids grow with time, so what a class may lose are its first rows *)
Reapable(oldest) ==
  {e \in outbox : e.id <= oldest[e.class] /\ (e.class = "safety" => e.id \in resolved)}

Reap ==
  \E oldest \in [Classes -> 0 .. sequence] :
    /\ Unlocked /\ Reapable(oldest) # {} /\ \A e \in Reapable(oldest) : Served(e)
    /\ outbox' = outbox \ Reapable(oldest)
    /\ reaped' = reaped \cup Reapable(oldest)
    /\ UNCHANGED <<sequence, writing, pending, resolved, slots, stream, viewer, breaks>>

-----------------------------------------------------------------------------
(* slot rows *)

Occupied == {k \in Connections : slots[k] = "live"}
Full == Cardinality(Occupied) >= Cap

RenewedAgain(k) == [slots EXCEPT ![k] = "live"]

(* renewSseSlot: only a row that is still live *)
Renewed(k) == slots

(* a live row no handler renews; one in service expires when its process stalls *)
Expire(k) ==
  /\ slots[k] = "live"
  /\ \/ UNCHANGED breaks /\ ~\E v \in Viewers : Serves(v, k)
     \/ breaks < MaxBreaks /\ breaks' = breaks + 1
  /\ slots' = [slots EXCEPT ![k] = "expired"]
  /\ UNCHANGED <<log, retention, stream, viewer>>

-----------------------------------------------------------------------------
(* the handler; `gone` says that the viewer's socket is destroyed *)

Change(v, s) == stream' = [stream EXCEPT ![v] = s]

(* close(): clears the timers, releases the row without waiting for it, ends the answer *)
CloseStream(v, rows) ==
  /\ Change(v, Ended)
  /\ slots' = [rows EXCEPT ![stream[v].id] = "none"]

(* connection ids are drawn at random *)
Unused == {k \in Connections : slots[k] = "none" /\ ~\E v \in Viewers : Serves(v, k)}

(* acquireSseSlot under its advisory lock *)
Connect(v) ==
  /\ ~Open(v) /\ Unused # {}
  /\ LET k == Min(Unused)
         swept == [j \in Connections |-> IF slots[j] = "expired" THEN "none" ELSE slots[j]]
     IN IF Full
        THEN /\ slots' = swept /\ slots # swept
             /\ UNCHANGED <<stream, wire>>
        ELSE /\ slots' = [swept EXCEPT ![k] = "live"]
             /\ Change(v, [Ended EXCEPT !.pc = "admitted", !.id = k, !.cursor = LastSeen(v)])
             /\ wire' = [wire EXCEPT ![v] = <<>>]
  /\ UNCHANGED <<log, retention, got, told, breaks>>

(* outboxBounds, and where the stream starts *)
OutboxBounds(v) ==
  LET s == stream[v]
      seen == {e.id : e \in {x \in outbox : Visible(v, x)}}
      behind == s.cursor # 0 /\ seen # {} /\ s.cursor < Min(seen)
  IN /\ s.pc = "admitted"
     /\ Change(v, [s EXCEPT !.pc = "ready", !.cursor = IF behind THEN Min(seen) - 1 ELSE @])
     /\ wire' = IF behind /\ ~s.gone THEN [wire EXCEPT ![v] = Append(@, Refetch)] ELSE wire
     /\ UNCHANGED <<log, retention, slots, got, told, breaks>>

(* ORDER BY event_id LIMIT n *)
First(n, ids) == {i \in ids : Cardinality({j \in ids : j < i}) < n}

(* pump(): readOutbox *)
Read(v) ==
  LET s == stream[v]
      next == {e.id : e \in {x \in outbox : Visible(v, x) /\ x.id > s.cursor}}
  IN /\ s.pc \in {"ready", "idle"}
     /\ Change(v, [s EXCEPT !.pc = IF next = {} THEN "idle" ELSE "page",
                            !.page = First(Page, next)])
     /\ UNCHANGED <<log, retention, slots, viewer, breaks>>

NeverAgain == "stuck"

(* finally { pumping = false } *)
AfterPage == "idle"

(* pump(): the next event of the page; the buffer may be over its limit *)
Write(v) ==
  LET s == stream[v]
      i == Min(s.page)
  IN /\ s.pc = "page"
     /\ IF s.gone
        THEN CloseStream(v, slots) /\ UNCHANGED <<wire, breaks>>
        ELSE /\ wire' = [wire EXCEPT ![v] = Append(@, i)]
             /\ \/ /\ Change(v, [s EXCEPT !.cursor = i, !.page = @ \ {i},
                                          !.pc = IF s.page = {i} THEN AfterPage ELSE @])
                   /\ UNCHANGED <<slots, breaks>>
                \/ breaks < MaxBreaks /\ breaks' = breaks + 1 /\ CloseStream(v, slots)
     /\ UNCHANGED <<log, retention, got, told>>

(* a read that throws is told to the viewer; before the answer has begun it is an error *)
ReadFails(v) ==
  /\ breaks < MaxBreaks /\ breaks' = breaks + 1
  /\ \/ stream[v].pc \in {"ready", "idle"} /\ CloseStream(v, slots)
     \/ stream[v].pc = "admitted" /\ Change(v, Ended) /\ UNCHANGED slots
  /\ UNCHANGED <<log, retention, viewer>>

(* every ten seconds, once the answer has begun *)
Renew(v) ==
  LET k == stream[v].id
  IN /\ stream[v].pc \in {"ready", "idle", "page"}
     /\ IF Renewed(k)[k] = "live"
        THEN slots' = Renewed(k) /\ UNCHANGED stream
        ELSE CloseStream(v, slots)
     /\ UNCHANGED <<log, retention, viewer, breaks>>

(* every fifteen seconds *)
Heartbeat(v) ==
  /\ stream[v].pc \in {"ready", "idle", "page"} /\ stream[v].gone
  /\ CloseStream(v, slots)
  /\ UNCHANGED <<log, retention, viewer, breaks>>

(* the process that serves it dies, or its release of the row is lost: the row stays *)
ProcessDies(v) ==
  /\ Open(v) /\ breaks < MaxBreaks /\ breaks' = breaks + 1
  /\ Change(v, Ended)
  /\ UNCHANGED <<log, retention, slots, viewer>>

(* the handler listens for it only once the answer has begun *)
Disconnect(v) ==
  /\ Open(v) /\ ~stream[v].gone
  /\ IF stream[v].pc = "admitted"
     THEN Change(v, [stream[v] EXCEPT !.gone = TRUE]) /\ UNCHANGED slots
     ELSE CloseStream(v, slots)
  /\ wire' = [wire EXCEPT ![v] = <<>>]
  /\ UNCHANGED <<log, retention, got, told, breaks>>

Receive(v) ==
  /\ wire[v] # <<>>
  /\ wire' = [wire EXCEPT ![v] = Tail(@)]
  /\ IF Head(wire[v]) = Refetch
     THEN told' = [told EXCEPT ![v] = TRUE] /\ UNCHANGED got
     ELSE got' = [got EXCEPT ![v] = @ \cup {Head(wire[v])}] /\ UNCHANGED told
  /\ UNCHANGED <<log, retention, slots, stream, breaks>>

-----------------------------------------------------------------------------
StreamInit ==
  /\ sequence = 0 /\ writing = {} /\ pending = [w \in Writers |-> {}] /\ outbox = {}
  /\ resolved = {} /\ reaped = {}
  /\ slots = [k \in Connections |-> "none"]
  /\ stream = [v \in Viewers |-> Ended]
  /\ wire = [v \in Viewers |-> <<>>] /\ got = [v \in Viewers |-> {}]
  /\ told = [v \in Viewers |-> FALSE]
  /\ breaks = 0

Serve(v) == OutboxBounds(v) \/ Read(v) \/ Write(v)

StreamNext ==
  \/ \E w \in Writers : Begin(w) \/ Insert(w) \/ End(w)
  \/ Reap
  \/ \E i \in Ids : ResolveSafetyEvent(i)
  \/ \E k \in Connections : Expire(k)
  \/ \E v \in Viewers : Connect(v) \/ Serve(v) \/ ReadFails(v) \/ Renew(v) \/ Heartbeat(v)
                        \/ ProcessDies(v) \/ Disconnect(v) \/ Receive(v)

StreamSpec == StreamInit /\ [][StreamNext]_streamVars

(* Timers run, reads are answered, the network delivers and a slot row that nobody renews
   runs out. Nothing is assumed of writers, viewers or the reaper. *)
Fairness ==
  /\ \A v \in Viewers : /\ WF_streamVars(Serve(v)) /\ WF_streamVars(Renew(v))
                        /\ WF_streamVars(Heartbeat(v)) /\ WF_streamVars(Receive(v))
  /\ \A k \in Connections : WF_streamVars(Expire(k) /\ UNCHANGED breaks)

FairStreamSpec == StreamSpec /\ Fairness
-----------------------------------------------------------------------------
(* Event ids are drawn before the commit, and a viewer only asks for ids after the last one
   it saw. Still no event becomes visible behind a viewer: what is in the outbox up to
   there, it received, because every writer holds the lease row while it writes. *)
StreamIsComplete ==
  \A v \in Viewers, e \in outbox : Visible(v, e) /\ e.id <= LastSeen(v) => e.id \in got[v]

(* Connections that were cut, refused, renewed late or lost with their process never take
   more slot rows than there are. *)
SlotsAreBounded == Cardinality({k \in Connections : slots[k] # "none"}) <= Cap

(* A stream that stays open delivers what is there. A row that serves no viewer runs out or
   is released, also when the viewer left before the handler listened for it. A stream
   that lost its row ends. *)
StreamsServeOrEnd ==
  /\ \A v \in Viewers, i \in Ids :
       LET due == Open(v) /\ \E e \in outbox : e.id = i /\ Visible(v, e)
       IN due ~> ~due \/ i \in got[v]
  /\ \A k \in Connections :
       LET idle == slots[k] = "live" /\ ~\E v \in Viewers : Serves(v, k) /\ ~stream[v].gone
       IN idle ~> ~idle
  /\ \A v \in Viewers :
       LET slotless == Open(v) /\ slots[stream[v].id] # "live"
       IN slotless ~> ~slotless

(* "requested event cursor predates retained stream data" (hosting-routes.ts): a viewer that
   missed events between two it received, because they were reaped, was told to refetch. *)
ReapedIsAnnounced ==
  \A v \in Viewers, e \in reaped :
    Visible(v, e) /\ e.id \notin got[v] /\ (\E i, j \in got[v] : i < e.id /\ e.id < j) => told[v]
=============================================================================
