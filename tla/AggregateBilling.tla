--------------------------- MODULE AggregateBilling ----------------------------
(***************************************************************************)
(* Who pays for a proof (postgres-hosted-store.ts): an aggregate's         *)
(* manifest binds finished jobs of the queue to the L1 transaction that    *)
(* carries them; reconcileAggregateBillingTx charges a member when its     *)
(* canonical outcome is at or below the floor, and takes it back when that *)
(* outcome stops being canonical. It runs inside the transactions that     *)
(* move the floor, roll back or register: what it throws, they throw.      *)
(* One aggregate carries one job; L1 blocks without an event are left out. *)
(***************************************************************************)
EXTENDS HostedQueue, Sequences

CONSTANTS
  Price,         \* what an applied member is charged
  MaxFacts, MaxSurprises

ASSUME PriceAssumption == Price \in Nat \ {0}

VARIABLES
  facts,      \* hosted_indexer_facts of these events, with receipt and balance
  floor,      \* hosted_canonical_floors
  member,     \* hosted_aggregate_billing_members: the allocation fact a job is bound to
  costed,     \* jobs whose L1 operation has its receipt cost
  recovery,   \* a post-finality recovery is unresolved
  surprises

vars == <<queue, sponsorship, facts, floor, member, costed, recovery, surprises>>

NotBound == 0 - 1
NoAllocation == 0

IsOutcome(f) == f.job # NoJob
Canonical(fs) == {i \in DOMAIN fs : fs[i].canonical}
Heights(fs) == {fs[i].height : i \in Canonical(fs)} \cup {IF recovery THEN 0 ELSE floor}
Top(fs) == CHOOSE h \in Heights(fs) : \A g \in Heights(fs) : g <= h
OutcomesOf(j, fs) == {i \in Canonical(fs) : fs[i].job = j}
Allocations(fs) == {i \in Canonical(fs) : ~IsOutcome(fs[i])}
Event(j, applied) ==
  [job |-> j, applied |-> applied, height |-> Top(facts) + 1, canonical |-> TRUE,
   receipt |-> "none", due |-> 0]

Init ==
  /\ QueueInit
  /\ facts = <<>> /\ floor = 0 /\ member = [j \in Jobs |-> NotBound]
  /\ costed = {} /\ recovery = FALSE /\ surprises = 0

-----------------------------------------------------------------------------
(* L1, as the indexer reports it *)

Ingest(f) ==
  /\ Len(facts) < MaxFacts
  /\ facts' = Append(facts, f)
  /\ UNCHANGED <<queue, sponsorship, floor, member, costed, recovery, surprises>>

AllocationUsed == Allocations(facts) = {} /\ Ingest(Event(NoJob, FALSE))

(* the aggregate is executed once on a chain; its member's batch may be stale *)
Outcome(j) ==
  /\ member[j] # NotBound /\ OutcomesOf(j, facts) = {}
  /\ job[j].terms.allocated => Allocations(facts) # {}
  /\ \E applied \in BOOLEAN : Ingest(Event(j, applied))

(* the publisher records the receipt of the operation (markL1TransactionIncluded);
   only the charge of an allocated member reads it *)
RecordCost(j) ==
  /\ OutcomesOf(j, facts) # {} /\ job[j].terms.allocated /\ j \notin costed
  /\ costed' = costed \cup {j}
  /\ UNCHANGED <<queue, sponsorship, facts, floor, member, recovery, surprises>>

-----------------------------------------------------------------------------
(* reconcileAggregateBillingTx over the facts fs, with the floor at fl *)

Linked(fs, j, bound) == job[j].terms.allocated => fs[bound[j]].canonical

(* another outcome of the member is still charged, or its correction deferred *)
Active(fs, i) == {k \in DOMAIN fs : fs[k].job = fs[i].job /\ fs[k].receipt = "live"}

UnbilledAll(fs, fl) ==
  {i \in Canonical(fs) : IsOutcome(fs[i]) /\ fs[i].height <= fl /\ fs[i].receipt = "none"}

Unbilled(fs, fl) ==
  {i \in Canonical(fs) : /\ IsOutcome(fs[i]) /\ fs[i].height <= fl /\ fs[i].receipt = "none"
                         /\ Active(fs, i) \subseteq Canonical(fs)}

Payable(fs, i) ==
  LET j == fs[i].job
  IN CASE ~Sponsored(j) -> TRUE
       [] reservation[j] = "RESERVED" -> TRUE
       [] reservation[j] = "RELEASED" ->
            fs[i].applied =>
              /\ Fits(1)
              /\ \E k \in DOMAIN fs : fs[k].job = j /\ ~fs[k].applied /\ fs[k].receipt = "retracted"
       [] OTHER -> FALSE

(* none of the errors the first loop throws *)
Billable(fs, i, bound) ==
  /\ Active(fs, i) = {}
  /\ Linked(fs, fs[i].job, bound)
  /\ fs[i].applied /\ job[fs[i].job].terms.allocated => fs[i].job \in costed
  /\ Payable(fs, i)

JobsIn(fs, S, applied) == {j \in Jobs : Sponsored(j) /\ \E i \in S : fs[i].job = j /\ fs[i].applied = applied}

(* a charge, its credits and its refunds *)
Charged(f) == [f EXCEPT !.receipt = "live", !.due = IF f.applied THEN Price ELSE 0]
CreditedInFull(f) == [f EXCEPT !.receipt = "retracted", !.due = @ - Price]
Credited(f) == [f EXCEPT !.receipt = "retracted", !.due = 0]

(* the retry that took over what a failed member had released *)
RetriedBy(j, S) == \E k \in S : job[k].retryOf = j
TakenOver(j, res) == RetriedBy(j, {k \in Jobs : res[k] \in {"RESERVED", "CONSUMED"}})

(* the released quantities that are owed, one receipt after the other: moved to a retry that
   has taken it over, or was itself kept earlier in this pass; kept while there is room;
   else deferred. Any order: receipt ids follow the charges, across passes. *)
Settles(owed, res, room, moved, kept) ==
  LET direct == {j \in owed : TakenOver(j, res)}
      open == owed \ moved
  IN /\ direct \subseteq moved
     /\ \A j \in moved \ direct : RetriedBy(j, kept)
     /\ \A j \in open \ kept : ~RetriedBy(j, kept)
     /\ Cardinality(kept) = IF Cardinality(open) <= room THEN Cardinality(open) ELSE room

(* the outcomes it charges or frees, and the ones whose correction is due after that *)
Void(fs, new, bound) ==
  {i \in DOMAIN fs : /\ fs[i].receipt = "live" \/ i \in new
                     /\ ~fs[i].canonical \/ ~Linked(fs, fs[i].job, bound)}

(* it throws otherwise, and so does the transaction it is part of *)
Reconcilable(fs, fl, bound) ==
  LET new == Unbilled(fs, fl)
  IN /\ \A i \in new : Billable(fs, i, bound)
     /\ \A j \in JobsIn(fs, Void(fs, new, bound), TRUE) :
          reservation[j] = "CONSUMED" \/ j \in JobsIn(fs, new, TRUE)

Reconcile(fs, fl, bound) ==
  LET new == Unbilled(fs, fl)
      paid == JobsIn(fs, new, TRUE)
      freed == JobsIn(fs, new, FALSE)
      fs1 == [i \in DOMAIN fs |-> IF i \in new THEN Charged(fs[i]) ELSE fs[i]]
      res1 == [j \in Jobs |-> IF j \in paid THEN "CONSUMED"
                              ELSE IF j \in freed THEN "RELEASED" ELSE reservation[j]]
      reserved1 == reserved - Cardinality((paid \cup freed) \cap Holding("RESERVED"))
      consumed1 == consumed + Cardinality(paid)
      void == Void(fs, new, bound)
      back == JobsIn(fs, void, TRUE)
      owed == JobsIn(fs, void, FALSE)
      room == Capacity - reserved1 - consumed1
  IN /\ Reconcilable(fs, fl, bound)
     /\ \E moved \in SUBSET owed : \E kept \in SUBSET (owed \ moved) :
          /\ Settles(owed, res1, room, moved, kept)
          /\ facts' = [i \in DOMAIN fs |->
               IF i \in void /\ fs[i].job \notin owed \ (moved \cup kept)
               THEN Credited(fs1[i]) ELSE fs1[i]]
          /\ reservation' = [j \in Jobs |-> IF j \in back \cup kept THEN "RESERVED"
                                            ELSE IF j \in moved THEN "TRANSFERRED" ELSE res1[j]]
          /\ reserved' = reserved1 + Cardinality(back) + Cardinality(kept)
          /\ consumed' = consumed1 - Cardinality(back)

-----------------------------------------------------------------------------
(* registerAggregateBillingManifest, before its signed operation is broadcast *)
Register(j) ==
  LET latest == IF job[j].terms.allocated
                THEN CHOOSE i \in Allocations(facts) : \A k \in Allocations(facts) : k <= i
                ELSE NoAllocation
      bound == [member EXCEPT ![j] = latest]
  IN /\ job[j].status = "DONE" /\ member[j] = NotBound
     /\ job[j].terms.allocated => Allocations(facts) # {}
     /\ member' = bound
     /\ Reconcile(facts, floor, bound)
     /\ UNCHANGED <<queue, floor, costed, recovery, surprises>>

(* advanceCanonicalFloor, at every pass of the indexer, also where the floor already is *)
AdvanceFloor ==
  /\ ~recovery
  /\ \E h \in floor .. Top(facts) : floor' = h /\ Reconcile(facts, h, member)
  /\ UNCHANGED <<queue, member, costed, recovery, surprises>>

Dropped(fs, h) == [i \in DOMAIN fs |-> IF fs[i].height > h THEN [fs[i] EXCEPT !.canonical = FALSE] ELSE fs[i]]

(* recordCanonicalBlocks rolls back above the floor *)
Rollback ==
  /\ \E h \in floor .. Top(facts) - 1 : Reconcile(Dropped(facts, h), floor, member)
  /\ UNCHANGED <<queue, floor, member, costed, recovery, surprises>>

(* markL1TransactionRetracted: finalized blocks were rewritten, the floor is frozen *)
Surprise ==
  /\ surprises < MaxSurprises
  /\ surprises' = surprises + 1 /\ recovery' = TRUE
  /\ \E h \in 0 .. floor - 1 : Reconcile(Dropped(facts, h), floor, member)
  /\ UNCHANGED <<queue, floor, member, costed>>

(* finalizePostFinalityRecovery: the replacement branch is the floor *)
FinalizeRecovery ==
  /\ recovery /\ recovery' = FALSE
  /\ LET h == IF Top(facts) > floor THEN Top(facts) ELSE floor
     IN floor' = h /\ Reconcile(facts, h, member)
  /\ UNCHANGED <<queue, member, costed, surprises>>

(* issueBillingRefund: of what a charge still amounts to *)
Refund(i) ==
  /\ IsOutcome(facts[i]) /\ ~Sponsored(facts[i].job)
  /\ \E q \in 1 .. facts[i].due : facts' = [facts EXCEPT ![i].due = @ - q]
  /\ UNCHANGED <<queue, sponsorship, floor, member, costed, recovery, surprises>>

(* submitProveJob's test of retryOfJobId *)
FailedForGood(j) ==
  /\ job[j].status = "DONE"
  /\ \E i \in OutcomesOf(j, facts) :
       ~facts[i].applied /\ facts[i].height <= floor /\ facts[i].receipt = "live"
  /\ Sponsored(j) => reservation[j] = "RELEASED"

SubmitJob(j) ==
  /\ \/ \E s, a \in BOOLEAN : Submit(j, [sponsored |-> s, allocated |-> a], NoJob)
     \/ \E r \in Jobs \ {j} : FailedForGood(r) /\ Submit(j, job[r].terms, r)
  /\ UNCHANGED <<facts, floor, member, costed, recovery, surprises>>

Queue == QueueNext /\ UNCHANGED <<facts, floor, member, costed, recovery, surprises>>

Next ==
  \/ Queue
  \/ AllocationUsed \/ AdvanceFloor \/ Rollback \/ Surprise \/ FinalizeRecovery
  \/ \E j \in Jobs : SubmitJob(j) \/ Outcome(j) \/ RecordCost(j) \/ Register(j)
  \/ \E i \in DOMAIN facts : Refund(i)

Spec == Init /\ [][Next]_vars

-----------------------------------------------------------------------------
Receipts(j, applied) ==
  {i \in DOMAIN facts : facts[i].job = j /\ facts[i].receipt = "live" /\ facts[i].applied = applied}

(* What the sponsor's quantity is booked as is what the chain says of the work: consumed
   by an applied outcome, released by a failed one or by a job that gave up, and reserved
   as long as neither is known, through every retraction, retry and replay. *)
ReservationFollowsOutcome ==
  \A j \in Jobs : Sponsored(j) =>
    CASE reservation[j] = "CONSUMED" -> Receipts(j, TRUE) # {}
      [] reservation[j] = "RELEASED" -> job[j].status = "FAILED" \/ Receipts(j, FALSE) # {}
      [] reservation[j] = "RESERVED" ->
           job[j].status # "FAILED" /\ Receipts(j, TRUE) \cup Receipts(j, FALSE) = {}
      [] reservation[j] = "TRANSFERRED" ->
           /\ Receipts(j, TRUE) \cup Receipts(j, FALSE) = {}
           /\ \E k \in Jobs : job[k].retryOf = j

(* Both at once: the counters add up and every reservation is booked as its outcome
   says.  (submitProveJob, sweepProveLeases, reconcileAggregateBillingTx) *)
ReservationsAreKept == CapacityIsKept /\ ReservationFollowsOutcome

(* Whatever was charged, refunded and credited for an outcome nets to nothing, or the
   outcome is canonical, applied, at or below the floor and bound to a canonical
   allocation; nobody is ever owed more than was charged (reconcileAggregateBillingTx
   credits what is left after refunds). *)
ChargeIsJustified ==
  \A i \in DOMAIN facts :
    /\ facts[i].due \in 0 .. Price
    /\ facts[i].due > 0 =>
         /\ facts[i].canonical /\ facts[i].applied /\ facts[i].receipt = "live"
         /\ facts[i].height <= floor
         /\ Linked(facts, facts[i].job, member)
         /\ \A k \in DOMAIN facts \ {i} : facts[k].job = facts[i].job => facts[k].due = 0

(* what the transaction throws at, for every member, once one of them meets it: a bound
   allocation event that is no longer canonical, and an outcome of a job whose released
   quantity was transferred to its retry *)
Stuck(fs) ==
  \E j \in Jobs : /\ member[j] # NotBound /\ OutcomesOf(j, fs) # {}
                   /\ \/ ~Linked(fs, j, member)
                      \/ reservation[j] = "TRANSFERRED"
                      \/ job[j].terms.allocated /\ j \notin costed

(* Billing never stands in the way of the chain: the floor can move to any indexed height,
   and any branch above it be rolled back, because the charges, releases, credits,
   transfers and restorations due then can be booked; the exceptions are the three of
   Stuck (advanceCanonicalFloor and recordCanonicalBlocks throw what
   reconcileAggregateBillingTx throws). *)
FloorIsNotBlocked ==
  /\ ~Stuck(facts) => \A h \in floor .. Top(facts) : Reconcilable(facts, h, member)
  /\ \A h \in floor .. Top(facts) :
       ~Stuck(Dropped(facts, h)) => Reconcilable(Dropped(facts, h), floor, member)
=============================================================================
