------------------------ MODULE AggregateBilling_proofs -------------------------
(***************************************************************************)
(* The queue, its sponsorship and the charges of aggregates, for any       *)
(* number of jobs, nodes, L1 events, retries and rewritten blocks, and any *)
(* capacity and price.                                                     *)
(***************************************************************************)
EXTENDS AggregateBilling, FiniteSetTheorems, SequenceTheorems, WellFoundedInduction, TLAPS

USE JobsAssumption, NodesAssumption, LimitsAssumption, PriceAssumption

-----------------------------------------------------------------------------
(* The inductive invariant. *)

Terms == [sponsored : BOOLEAN, allocated : BOOLEAN]
JobRows == [status : {"none", "QUEUED", "LEASED", "DONE", "FAILED"}, attempts : 0 .. MaxAttempts,
            owner : Nodes \cup {NoNode}, retryOf : Jobs \cup {NoJob}, terms : Terms]
Facts == [job : Jobs \cup {NoJob}, applied : BOOLEAN, height : Nat, canonical : BOOLEAN,
          receipt : {"none", "live", "retracted"}, due : 0 .. Price]

Typed ==
  /\ QueueTypeOK /\ facts \in Seq(Facts) /\ floor \in Nat
  /\ member \in [Jobs -> Int]
  /\ \E b \in Nat : \A i \in DOMAIN facts : facts[i].height <= b

(* A queued job has an attempt left; a job that was never submitted is as new; the quantity
   of a sponsored job is reserved as long as the job may run; a retry and a manifest name
   jobs that are done, and done is for ever. *)
JobIsSound(j) ==
  /\ job[j].status = "QUEUED" => job[j].attempts < MaxAttempts
  /\ job[j].status = "none" => job[j] = NewJob
  /\ Sponsored(j) = (reservation[j] # "none")
  /\ Sponsored(j) /\ job[j].status \in {"QUEUED", "LEASED"} => reservation[j] = "RESERVED"
  /\ member[j] # NotBound => job[j].status = "DONE"
  /\ member[j] # NotBound /\ job[j].terms.allocated => member[j] \in DOMAIN facts

QueueInv == LeasesAgree /\ \A j \in Jobs : JobIsSound(j)

(* An outcome is of a member; a job has one canonical outcome and one outcome charged. *)
OutcomesAreSound(fs) ==
  /\ \A i \in DOMAIN fs : IsOutcome(fs[i]) => member[fs[i].job] # NotBound
  /\ \A i \in DOMAIN fs : fs[i].receipt # "none" => IsOutcome(fs[i])
  /\ \A i, k \in DOMAIN fs :
       fs[i].job = fs[k].job /\ IsOutcome(fs[i]) /\ fs[i].canonical /\ fs[k].canonical => i = k
  /\ \A i, k \in DOMAIN fs :
       fs[i].job = fs[k].job /\ fs[i].receipt = "live" /\ fs[k].receipt = "live" => i = k

(* how the quantity of a sponsored job is booked, as implications *)
Follows(j) ==
  /\ reservation[j] = "CONSUMED" => Receipts(j, TRUE) # {}
  /\ reservation[j] = "RELEASED" => job[j].status = "FAILED" \/ Receipts(j, FALSE) # {}
  /\ reservation[j] \in {"RESERVED", "TRANSFERRED"} =>
       Receipts(j, TRUE) \cup Receipts(j, FALSE) = {}
  /\ reservation[j] = "RESERVED" => job[j].status # "FAILED"
  /\ reservation[j] = "TRANSFERRED" => \E k \in Jobs : job[k].retryOf = j

(* what is due for an outcome is due for no other of its job, and justified *)
Justified(i) ==
  /\ facts[i].due \in 0 .. Price
  /\ facts[i].due > 0 =>
       /\ facts[i].canonical /\ facts[i].applied /\ facts[i].receipt = "live"
       /\ facts[i].height <= floor
       /\ Linked(facts, facts[i].job, member)
       /\ \A k \in DOMAIN facts \ {i} : facts[k].job = facts[i].job => facts[k].due = 0

LEMMA EachIsJustified == ChargeIsJustified <=> \A i \in DOMAIN facts : Justified(i)
BY DEF ChargeIsJustified, Justified

BillingInv ==
  /\ Typed /\ QueueInv /\ OutcomesAreSound(facts)
  /\ CapacityIsKept /\ (\A j \in Jobs : Follows(j)) /\ ChargeIsJustified

LEMMA FollowsOutcome ==
  ASSUME Typed, QueueInv, \A j \in Jobs : Follows(j)
  PROVE  ReservationFollowsOutcome
<1> SUFFICES ASSUME NEW j \in Jobs, Sponsored(j)
             PROVE  CASE reservation[j] = "CONSUMED" -> Receipts(j, TRUE) # {}
                      [] reservation[j] = "RELEASED" -> job[j].status = "FAILED" \/ Receipts(j, FALSE) # {}
                      [] reservation[j] = "RESERVED" ->
                           job[j].status # "FAILED" /\ Receipts(j, TRUE) \cup Receipts(j, FALSE) = {}
                      [] reservation[j] = "TRANSFERRED" ->
                           /\ Receipts(j, TRUE) \cup Receipts(j, FALSE) = {}
                           /\ \E k \in Jobs : job[k].retryOf = j
  BY DEF ReservationFollowsOutcome
<1>1. reservation[j] \in {"RESERVED", "CONSUMED", "RELEASED", "TRANSFERRED"}
  BY DEF Typed, QueueTypeOK, QueueInv, JobIsSound
<1> QED BY <1>1 DEF Follows

-----------------------------------------------------------------------------
(* Counting. *)

LEMMA HoldingFinite ==
  ASSUME NEW s
  PROVE  IsFiniteSet(Holding(s)) /\ Cardinality(Holding(s)) \in Nat
<1>1. Holding(s) \in SUBSET Jobs
  BY DEF Holding
<1> QED BY <1>1, FS_Subset, FS_CardinalityType

LEMMA SubsetFinite ==
  ASSUME NEW S \in SUBSET Jobs
  PROVE  IsFiniteSet(S) /\ Cardinality(S) \in Nat
BY FS_Subset, FS_CardinalityType

LEMMA CountRemoved ==
  ASSUME NEW S \in SUBSET Jobs, NEW T \in SUBSET S
  PROVE  Cardinality(S \ T) = Cardinality(S) - Cardinality(T)
<1>1. IsFiniteSet(S) /\ IsFiniteSet(T) /\ IsFiniteSet(S \ T)
  BY SubsetFinite
<1>2. (S \ T) \cup T = S /\ (S \ T) \cap T = {}
  OBVIOUS
<1>3. Cardinality((S \ T) \cup T) = Cardinality(S \ T) + Cardinality(T) - Cardinality((S \ T) \cap T)
  BY <1>1, FS_Union
<1>4. Cardinality({}) = 0 /\ Cardinality(S \ T) \in Nat /\ Cardinality(T) \in Nat
  BY <1>1, FS_EmptySet, FS_CardinalityType
<1>5. Cardinality(S) = Cardinality(S \ T) + Cardinality(T) - 0
  BY <1>2, <1>3, <1>4
<1> QED BY <1>4, <1>5

LEMMA CountAdded ==
  ASSUME NEW S \in SUBSET Jobs, NEW T \in SUBSET Jobs, S \cap T = {}
  PROVE  Cardinality(S \cup T) = Cardinality(S) + Cardinality(T)
<1>1. IsFiniteSet(S) /\ IsFiniteSet(T)
  BY SubsetFinite
<1>2. Cardinality(S \cup T) = Cardinality(S) + Cardinality(T) - Cardinality(S \cap T)
  BY <1>1, FS_Union
<1>3. Cardinality({}) = 0 /\ Cardinality(S) \in Nat /\ Cardinality(T) \in Nat
  BY <1>1, FS_EmptySet, FS_CardinalityType
<1> QED BY <1>2, <1>3

(* a set of naturals with a bound has a greatest element *)
LEMMA NatMin ==
  ASSUME NEW S \in SUBSET Nat, S # {}
  PROVE  \E m \in S : \A x \in S : m <= x
<1> DEFINE R == {p \in Nat \X Nat : p[1] < p[2]}
<1>1. IsWellFoundedOn(R, Nat)
  BY NatLessThanWellFounded DEF OpToRel
<1> HIDE DEF R
<1>2. PICK m \in S : \A y \in S : ~(<<y, m>> \in R)
  BY <1>1, WFMin
<1>3. ASSUME NEW y \in S PROVE m <= y
  <2>1. ~(<<y, m>> \in R) /\ <<y, m>> \in Nat \X Nat
    BY <1>2
  <2>2. ~(y < m)
    BY <2>1 DEF R
  <2> QED BY <2>2
<1> QED BY <1>3

LEMMA NatMax ==
  ASSUME NEW S \in SUBSET Nat, S # {}, NEW b \in Nat, \A x \in S : x <= b
  PROVE  \E m \in S : \A x \in S : x <= m
<1> DEFINE U == {u \in Nat : \A x \in S : x <= u}
<1>1. PICK u \in U : \A v \in U : u <= v
  BY NatMin
<1>2. u \in Nat /\ \A x \in S : x <= u
  BY <1>1
<1>3. CASE u = 0
  <2>1. PICK m \in S : TRUE
    OBVIOUS
  <2>2. m = 0 /\ \A x \in S : x <= m
    BY <1>2, <1>3
  <2> QED BY <2>2
<1>4. CASE u # 0 /\ u \notin S
  <2>1. u - 1 \in Nat /\ \A x \in S : x <= u - 1
    BY <1>2, <1>4
  <2>2. u <= u - 1
    BY <1>1, <2>1
  <2> QED BY <1>2, <2>2
<1> QED BY <1>2, <1>3, <1>4

-----------------------------------------------------------------------------
(* The queue. A step of it moves each job on, or leaves it. *)

(* from what a job was to what it is, with its quantity *)
Advances(j) ==
  \/ job'[j] = job[j] /\ reservation'[j] = reservation[j]
  \/ /\ job[j].status \in {"QUEUED", "LEASED"}
     /\ job'[j].terms = job[j].terms /\ job'[j].retryOf = job[j].retryOf
     /\ \/ /\ reservation'[j] = reservation[j] /\ job'[j].status \in {"QUEUED", "LEASED", "DONE"}
           /\ job'[j].status = "QUEUED" => job'[j].attempts < MaxAttempts
        \/ /\ job'[j].status = "FAILED"
           /\ reservation'[j] = IF reservation[j] = "RESERVED" THEN "RELEASED" ELSE reservation[j]

LEMMA AdvanceSound ==
  ASSUME BillingInv, QueueTypeOK', UNCHANGED <<facts, member>>, NEW j \in Jobs, Advances(j)
  PROVE  JobIsSound(j)'
BY DEF BillingInv, QueueInv, JobIsSound, Advances, Sponsored, Typed, QueueTypeOK

LEMMA AdvanceFollows ==
  ASSUME BillingInv, UNCHANGED facts, \A k \in Jobs : Advances(k), NEW j \in Jobs
  PROVE  Follows(j)'
<1>1. \A a \in BOOLEAN : Receipts(j, a)' = Receipts(j, a)
  BY DEF Receipts
<1>2. Follows(j) /\ JobIsSound(j) /\ Advances(j)
  BY DEF BillingInv, QueueInv
<1>3. \A k \in Jobs : job'[k].retryOf = job[k].retryOf
  BY DEF Advances
<1>4. job[j].status \in {"QUEUED", "LEASED"} => reservation[j] \in {"none", "RESERVED"}
  BY <1>2 DEF JobIsSound
<1>5. reservation[j] = "TRANSFERRED" => \E k \in Jobs : job'[k].retryOf = j
  BY <1>2, <1>3 DEF Follows
<1>6. CASE job'[j] = job[j] /\ reservation'[j] = reservation[j]
  BY <1>1, <1>2, <1>5, <1>6 DEF Follows
<1>7. CASE job[j].status \in {"QUEUED", "LEASED"}
  <2>1. reservation'[j] \in {"none", "RESERVED", "RELEASED"}
        /\ (reservation'[j] = "RELEASED" => job'[j].status = "FAILED")
        /\ (reservation'[j] = "RESERVED" => job'[j].status # "FAILED" /\ reservation[j] = "RESERVED")
    BY <1>2, <1>4, <1>7 DEF Advances
  <2>2. reservation'[j] = "RESERVED" => Receipts(j, TRUE)' \cup Receipts(j, FALSE)' = {}
    BY <1>1, <1>2, <2>1 DEF Follows
  <2> QED BY <2>1, <2>2 DEF Follows
<1> QED BY <1>2, <1>6, <1>7 DEF Advances

LEMMA FactType ==
  ASSUME Typed
  PROVE  /\ Len(facts) \in Nat /\ DOMAIN facts = 1 .. Len(facts)
         /\ \A i \in DOMAIN facts : facts[i] \in Facts
<1>1. facts \in Seq(Facts)
  BY DEF Typed
<1> QED BY <1>1, LenProperties, ElementOfSeq

LEMMA ChargesKept ==
  ASSUME BillingInv, UNCHANGED <<facts, floor, member>>,
         \A j \in Jobs : member[j] # NotBound => job'[j].terms = job[j].terms
  PROVE  OutcomesAreSound(facts)' /\ ChargeIsJustified'
<1>1. OutcomesAreSound(facts)'
  BY DEF BillingInv, OutcomesAreSound, IsOutcome
<1>2. \A i \in DOMAIN facts : facts[i].due > 0 =>
        Linked(facts, facts[i].job, member)' = Linked(facts, facts[i].job, member)
  <2> SUFFICES ASSUME NEW i \in DOMAIN facts, facts[i].due > 0
               PROVE  Linked(facts, facts[i].job, member)' = Linked(facts, facts[i].job, member)
    OBVIOUS
  <2>1. facts[i].receipt = "live" /\ IsOutcome(facts[i]) /\ member[facts[i].job] # NotBound
    BY DEF BillingInv, ChargeIsJustified, OutcomesAreSound
  <2>2. facts[i].job \in Jobs
    BY <2>1, FactType DEF BillingInv, Facts, IsOutcome
  <2> QED BY <2>1, <2>2 DEF Linked
<1>3. ChargeIsJustified'
  BY <1>2 DEF BillingInv, ChargeIsJustified
<1> QED BY <1>1, <1>3

LEMMA QueueKeeps ==
  ASSUME BillingInv, QueueTypeOK', LeasesAgree', CapacityIsKept',
         UNCHANGED <<facts, floor, member>>, \A j \in Jobs : Advances(j)
  PROVE  BillingInv'
<1>1. Typed'
  BY DEF BillingInv, Typed
<1>2. \A j \in Jobs : JobIsSound(j)' /\ Follows(j)'
  BY AdvanceSound, AdvanceFollows
<1>3. \A j \in Jobs : job'[j].terms = job[j].terms
  BY DEF Advances
<1> QED BY <1>1, <1>2, <1>3, ChargesKept DEF BillingInv, QueueInv

(* the quantity of jobs that fail for good *)
LEMMA Releases ==
  ASSUME QueueTypeOK, CapacityIsKept, NEW S \in SUBSET Jobs, Release(S)
  PROVE  /\ CapacityIsKept' /\ reserved' \in Int /\ consumed' = consumed
         /\ reservation' \in [Jobs -> {"none", "RESERVED", "CONSUMED", "RELEASED", "TRANSFERRED"}]
         /\ \A j \in Jobs : reservation'[j] =
              IF j \in S /\ reservation[j] = "RESERVED" THEN "RELEASED" ELSE reservation[j]
<1> DEFINE back == S \cap Holding("RESERVED")
<1>1. /\ reservation' = [j \in Jobs |-> IF j \in back THEN "RELEASED" ELSE reservation[j]]
      /\ reserved' = reserved - Cardinality(back) /\ consumed' = consumed
  BY DEF Release
<1>2. Holding("RESERVED")' = Holding("RESERVED") \ back /\ Holding("CONSUMED")' = Holding("CONSUMED")
  BY <1>1 DEF Holding
<1>3. Cardinality(Holding("RESERVED") \ back) = Cardinality(Holding("RESERVED")) - Cardinality(back)
  <2>1. Holding("RESERVED") \in SUBSET Jobs /\ back \in SUBSET Holding("RESERVED")
    BY DEF Holding
  <2> HIDE DEF back
  <2> QED BY <2>1, CountRemoved
<1>4. Cardinality(back) \in Nat /\ Cardinality(Holding("RESERVED")) \in Nat /\ Cardinality(Holding("CONSUMED")) \in Nat
  BY SubsetFinite, HoldingFinite
<1>5. \A j \in Jobs : j \in back <=> j \in S /\ reservation[j] = "RESERVED"
  BY DEF Holding
<1> HIDE DEF back
<1>6. CapacityIsKept' /\ reserved' \in Int
  <2>1. reserved = Cardinality(Holding("RESERVED")) /\ consumed = Cardinality(Holding("CONSUMED"))
        /\ reserved + consumed <= Capacity
    BY DEF CapacityIsKept
  <2>2. reserved' = Cardinality(Holding("RESERVED")') /\ consumed' = Cardinality(Holding("CONSUMED")')
    BY <1>1, <1>2, <1>3, <2>1
  <2>3. reserved' + consumed' <= Capacity
    BY <1>1, <1>4, <2>1
  <2> QED BY <1>1, <1>4, <2>1, <2>2, <2>3 DEF CapacityIsKept
<1> QED BY <1>1, <1>5, <1>6 DEF QueueTypeOK

(* what the sweep makes of a job *)
LEMMA SweptRow ==
  ASSUME BillingInv, NEW j \in Jobs
  PROVE  /\ Swept[j] \in JobRows /\ Swept[j].terms = job[j].terms /\ Swept[j].retryOf = job[j].retryOf
         /\ j \notin Lost => Swept[j] = job[j]
         /\ j \in Lost => /\ job[j].status = "LEASED" /\ Swept[j].owner = NoNode
                          /\ \/ Swept[j].status = "QUEUED" /\ Swept[j].attempts < MaxAttempts
                             \/ Swept[j].status = "FAILED"
         /\ j \in Exhausted <=> j \in Lost /\ Swept[j].status = "FAILED"
<1>1. job[j] \in JobRows
  BY DEF BillingInv, Typed, QueueTypeOK, JobRows, Terms
<1>2. Swept[j] = IF j \in Lost THEN Requeued(j) ELSE job[j]
  BY DEF Swept
<1>3. /\ Requeued(j) \in JobRows /\ Requeued(j).owner = NoNode
      /\ Requeued(j).terms = job[j].terms /\ Requeued(j).retryOf = job[j].retryOf
      /\ Requeued(j).attempts = job[j].attempts
      /\ Requeued(j).status = IF job[j].attempts >= MaxAttempts THEN "FAILED" ELSE "QUEUED"
  BY <1>1 DEF Requeued, JobRows
<1>4. j \in Exhausted <=> j \in Lost /\ Swept[j].status = "FAILED"
  BY DEF Exhausted, Lost, WithStatus
<1>5. j \in Lost => job[j].status = "LEASED"
  BY DEF Lost, WithStatus
<1>6. job[j].attempts \in 0 .. MaxAttempts
  BY <1>1 DEF JobRows
<1> QED BY <1>1, <1>2, <1>3, <1>4, <1>5, <1>6

LEMMA SweepStep ==
  ASSUME BillingInv, Sweep, UNCHANGED <<facts, floor, member>>
  PROVE  BillingInv'
<1>1. job' = Swept /\ gpu' = GpuAfterSweep /\ Release(Exhausted) /\ live' = live /\ Exhausted \in SUBSET Jobs
  BY DEF Sweep, Exhausted, Lost, WithStatus
<1>2. QueueTypeOK /\ CapacityIsKept /\ LeasesAgree
  BY DEF BillingInv, Typed, QueueInv
<1>3. /\ CapacityIsKept' /\ reserved' \in Int /\ consumed' = consumed
      /\ reservation' \in [Jobs -> {"none", "RESERVED", "CONSUMED", "RELEASED", "TRANSFERRED"}]
      /\ \A j \in Jobs : reservation'[j] =
           IF j \in Exhausted /\ reservation[j] = "RESERVED" THEN "RELEASED" ELSE reservation[j]
  BY <1>1, <1>2, Releases
<1>4. job' \in [Jobs -> JobRows]
  <2>1. Swept = [j \in Jobs |-> Swept[j]]
    BY DEF Swept
  <2> QED BY <1>1, <2>1, SweptRow
<1>5. QueueTypeOK'
  BY <1>1, <1>2, <1>3, <1>4 DEF QueueTypeOK, GpuAfterSweep, JobRows, Terms
<1>6. \A j \in Jobs : Advances(j)
  BY <1>1, <1>3, SweptRow DEF Advances
<1>7. \A j \in Jobs : j \in Lost <=> job[j].status = "LEASED" /\ j \notin live
  BY DEF Lost, WithStatus
<1>8. LeasesAgree'
  <2>1. \A j \in Jobs : (job'[j].owner = NoNode) = (job'[j].status # "LEASED")
    BY <1>1, <1>2, SweptRow DEF LeasesAgree
  <2>2. \A j \in Jobs : job'[j].status = "LEASED" <=> job[j].status = "LEASED" /\ j \in live
    BY <1>1, <1>7, SweptRow
  <2>3. live' \subseteq WithStatus("LEASED")'
    BY <1>1, <1>2, <2>2 DEF LeasesAgree, WithStatus
  <2>4. live' \cap GpuJobs \subseteq {gpu'} /\ {gpu'} \ {NoJob} \subseteq WithStatus("LEASED")' \cap GpuJobs
    BY <1>1, <1>2, <1>7, <2>2 DEF LeasesAgree, WithStatus, GpuAfterSweep
  <2> QED BY <2>1, <2>3, <2>4 DEF LeasesAgree
<1> QED BY <1>3, <1>5, <1>6, <1>8, QueueKeeps

LEMMA LapseStep ==
  ASSUME BillingInv, Lapse, UNCHANGED <<facts, floor, member>>
  PROVE  BillingInv'
<1>1. live' \subseteq live /\ UNCHANGED <<job, gpu, reservation, reserved, consumed>>
  BY DEF Lapse, sponsorship
<1>2. QueueTypeOK' /\ LeasesAgree' /\ CapacityIsKept'
  BY <1>1 DEF BillingInv, Typed, QueueInv, QueueTypeOK, LeasesAgree, CapacityIsKept, WithStatus, Holding
<1> QED BY <1>1, <1>2, QueueKeeps DEF Advances

LEMMA LeaseStep ==
  ASSUME BillingInv, NEW n \in Nodes, Lease(n), UNCHANGED <<facts, floor, member>>
  PROVE  BillingInv'
<1>1. PICK late \in SUBSET ({gpu} \cap live), j \in Jobs :
        LET held == {k \in live : job[k].owner = n}
            row == IF gpu \in late THEN NoJob ELSE GpuAfterSweep
        IN /\ Swept[j].status = "QUEUED"
           /\ j \in GpuJobs => row = NoJob /\ held \cap GpuJobs = {}
           /\ job' = [Swept EXCEPT ![j].status = "LEASED", ![j].owner = n, ![j].attempts = @ + 1]
           /\ live' = (live \ late) \cup {j}
           /\ gpu' = IF j \in GpuJobs THEN j ELSE row
           /\ Release(Exhausted)
  BY DEF Lease
<1> DEFINE row == IF gpu \in late THEN NoJob ELSE GpuAfterSweep
<1>2. QueueTypeOK /\ CapacityIsKept /\ LeasesAgree /\ Exhausted \in SUBSET Jobs
  BY DEF BillingInv, Typed, QueueInv, Exhausted, Lost, WithStatus
<1>3. /\ CapacityIsKept' /\ reserved' \in Int /\ consumed' = consumed
      /\ reservation' \in [Jobs -> {"none", "RESERVED", "CONSUMED", "RELEASED", "TRANSFERRED"}]
      /\ \A k \in Jobs : reservation'[k] =
           IF k \in Exhausted /\ reservation[k] = "RESERVED" THEN "RELEASED" ELSE reservation[k]
  BY <1>1, <1>2, Releases
<1>4. /\ Swept[j] \in JobRows /\ job[j].status \in {"QUEUED", "LEASED"} /\ Swept[j].attempts < MaxAttempts
      /\ j \notin Exhausted /\ j \notin live
      /\ Swept[j].terms = job[j].terms /\ Swept[j].retryOf = job[j].retryOf
  <2>1. /\ Swept[j] \in JobRows /\ Swept[j].status = "QUEUED"
        /\ Swept[j].terms = job[j].terms /\ Swept[j].retryOf = job[j].retryOf
    BY <1>1, SweptRow
  <2>2. CASE j \in Lost
    <3>1. job[j].status = "LEASED" /\ j \notin live
      BY <2>2 DEF Lost, WithStatus
    <3> QED BY <2>1, <2>2, <3>1, SweptRow
  <2>3. CASE j \notin Lost
    <3>1. Swept[j] = job[j] /\ JobIsSound(j) /\ j \notin Exhausted
      BY <2>3, SweptRow DEF BillingInv, QueueInv
    <3>2. j \notin live
      BY <1>2, <2>1, <3>1 DEF LeasesAgree, WithStatus
    <3> QED BY <2>1, <3>1, <3>2 DEF JobIsSound
  <2> QED BY <2>2, <2>3
<1>5. /\ job'[j] \in JobRows /\ job'[j].status = "LEASED" /\ job'[j].owner = n
      /\ job'[j].terms = job[j].terms /\ job'[j].retryOf = job[j].retryOf
      /\ \A k \in Jobs \ {j} : job'[k] = Swept[k]
      /\ job' = [k \in Jobs |-> job'[k]]
  <2> DEFINE r == [Swept[j] EXCEPT !.status = "LEASED", !.owner = n, !.attempts = @ + 1]
  <2>1. /\ r \in JobRows /\ r.status = "LEASED" /\ r.owner = n
        /\ r.terms = Swept[j].terms /\ r.retryOf = Swept[j].retryOf
    <3>1. Swept[j].attempts + 1 \in 0 .. MaxAttempts
      BY <1>4 DEF JobRows
    <3>2. r = [Swept[j] EXCEPT !.status = "LEASED", !.owner = n, !.attempts = Swept[j].attempts + 1]
      BY <1>4 DEF JobRows
    <3> HIDE DEF r
    <3> QED BY <1>4, <3>1, <3>2 DEF JobRows
  <2>2. Swept = [k \in Jobs |-> Swept[k]]
    BY DEF Swept
  <2>3. job' = [Swept EXCEPT ![j] = r]
    BY <1>1, <2>2
  <2> HIDE DEF r
  <2> QED BY <1>4, <2>1, <2>2, <2>3
<1>6. job' \in [Jobs -> JobRows]
  BY <1>5, SweptRow
<1>7. live' = (live \ late) \cup {j} /\ gpu' = (IF j \in GpuJobs THEN j ELSE row) /\ (j \in GpuJobs => row = NoJob)
  BY <1>1
<1>8. QueueTypeOK'
  BY <1>2, <1>3, <1>6, <1>7 DEF QueueTypeOK, GpuAfterSweep, JobRows, Terms
<1>9. \A k \in Jobs : Advances(k)
  <2>1. \A k \in Jobs \ {j} : Advances(k)
    BY <1>3, <1>5, SweptRow DEF Advances
  <2>2. Advances(j)
    BY <1>3, <1>4, <1>5 DEF Advances
  <2> QED BY <2>1, <2>2
<1>10. \A k \in Jobs : k \in Lost <=> job[k].status = "LEASED" /\ k \notin live
  BY DEF Lost, WithStatus
<1>11. LeasesAgree'
  <2>1. \A k \in Jobs : (job'[k].owner = NoNode) = (job'[k].status # "LEASED")
    BY <1>2, <1>5, SweptRow DEF LeasesAgree
  <2>2. \A k \in Jobs : job'[k].status = "LEASED" <=> k = j \/ (job[k].status = "LEASED" /\ k \in live)
    BY <1>5, <1>10, SweptRow
  <2>3. live' \subseteq WithStatus("LEASED")'
    BY <1>2, <1>7, <2>2 DEF LeasesAgree, WithStatus, QueueTypeOK
  <2>4. row # NoJob => row = gpu /\ gpu \in live
    BY <1>2, <1>10 DEF LeasesAgree, GpuAfterSweep, WithStatus
  <2>5. row = NoJob => (live \ late) \cap GpuJobs = {}
    BY <1>2, <1>10 DEF LeasesAgree, GpuAfterSweep, WithStatus, QueueTypeOK
  <2>6. (live \ late) \cap GpuJobs \subseteq {row}
    BY <1>2, <2>4, <2>5 DEF LeasesAgree
  <2> HIDE DEF row
  <2>7. live' \cap GpuJobs \subseteq {gpu'}
    BY <1>7, <2>5, <2>6
  <2>8. {gpu'} \ {NoJob} \subseteq WithStatus("LEASED")' \cap GpuJobs
    BY <1>2, <1>7, <2>2, <2>4 DEF LeasesAgree, WithStatus
  <2> QED BY <2>1, <2>3, <2>7, <2>8 DEF LeasesAgree
<1> QED BY <1>3, <1>8, <1>9, <1>11, QueueKeeps

(* the node reports on its job *)
LEMMA ReportStep ==
  ASSUME BillingInv, NEW n \in Nodes, NEW j \in Jobs, Complete(n, j) \/ Fail(n, j),
         UNCHANGED <<facts, floor, member>>
  PROVE  BillingInv'
<1>1. /\ QueueTypeOK /\ CapacityIsKept /\ LeasesAgree /\ JobIsSound(j) /\ job[j] \in JobRows
      /\ j \in live /\ job[j].status = "LEASED" /\ (j \in GpuJobs => gpu = j)
      /\ live' = live \ {j} /\ gpu' = Free(j)
  BY DEF BillingInv, Typed, QueueInv, QueueTypeOK, JobRows, Terms, Complete, Fail, Reports, LeasesAgree,
    WithStatus
<1>2. PICK s \in {"DONE", "QUEUED", "FAILED"} :
        /\ job' = [job EXCEPT ![j].status = s, ![j].owner = NoNode]
        /\ s = "QUEUED" => job[j].attempts < MaxAttempts
        /\ IF s = "FAILED" THEN Release({j}) ELSE UNCHANGED sponsorship
  BY DEF Complete, Fail
<1>3. /\ job' \in [Jobs -> JobRows] /\ job'[j].status = s /\ job'[j].owner = NoNode
      /\ job'[j].terms = job[j].terms /\ job'[j].retryOf = job[j].retryOf
      /\ job'[j].attempts = job[j].attempts
      /\ \A k \in Jobs \ {j} : job'[k] = job[k]
  <2> DEFINE r == [job[j] EXCEPT !.status = s, !.owner = NoNode]
  <2>1. /\ r \in JobRows /\ r.status = s /\ r.owner = NoNode
        /\ r.terms = job[j].terms /\ r.retryOf = job[j].retryOf /\ r.attempts = job[j].attempts
    BY <1>1 DEF JobRows
  <2>2. job \in [Jobs -> JobRows]
    BY <1>1 DEF QueueTypeOK, JobRows, Terms
  <2>3. job' = [job EXCEPT ![j] = r]
    BY <1>2, <2>2
  <2> HIDE DEF r
  <2> QED BY <2>1, <2>2, <2>3
<1>4. /\ CapacityIsKept' /\ reserved' \in Int /\ consumed' = consumed
      /\ reservation' \in [Jobs -> {"none", "RESERVED", "CONSUMED", "RELEASED", "TRANSFERRED"}]
      /\ \A k \in Jobs : reservation'[k] =
           IF s = "FAILED" /\ k = j /\ reservation[k] = "RESERVED" THEN "RELEASED" ELSE reservation[k]
  <2>1. CASE s = "FAILED"
    BY <1>1, <1>2, <2>1, Releases
  <2>2. CASE s # "FAILED"
    BY <1>1, <1>2, <2>2 DEF sponsorship, QueueTypeOK, CapacityIsKept, Holding
  <2> QED BY <2>1, <2>2
<1>5. QueueTypeOK'
  BY <1>1, <1>3, <1>4 DEF QueueTypeOK, Free, JobRows, Terms
<1>6. \A k \in Jobs : Advances(k)
  BY <1>1, <1>2, <1>3, <1>4 DEF Advances
<1>7. LeasesAgree'
  <2>1. \A k \in Jobs : (job'[k].owner = NoNode) = (job'[k].status # "LEASED")
    BY <1>1, <1>3 DEF LeasesAgree
  <2>2. \A k \in Jobs : job'[k].status = "LEASED" <=> k # j /\ job[k].status = "LEASED"
    BY <1>3
  <2>3. live' \subseteq WithStatus("LEASED")'
    BY <1>1, <2>2 DEF LeasesAgree, WithStatus
  <2>4. live' \cap GpuJobs \subseteq {gpu'} /\ {gpu'} \ {NoJob} \subseteq WithStatus("LEASED")' \cap GpuJobs
    BY <1>1, <2>2 DEF LeasesAgree, WithStatus, Free
  <2> QED BY <2>1, <2>3, <2>4 DEF LeasesAgree
<1> QED BY <1>4, <1>5, <1>6, <1>7, QueueKeeps

LEMMA QueueStep ==
  ASSUME BillingInv, Queue
  PROVE  BillingInv'
BY SweepStep, LapseStep, LeaseStep, ReportStep DEF Queue, QueueNext

(* a receipt is of a member, and a member is done *)
LEMMA NotMember ==
  ASSUME BillingInv, NEW j \in Jobs, member[j] = NotBound
  PROVE  \A i \in DOMAIN facts : facts[i].job # j
BY DEF BillingInv, OutcomesAreSound, IsOutcome

LEMMA SubmitStep ==
  ASSUME BillingInv, NEW j \in Jobs, SubmitJob(j)
  PROVE  BillingInv'
<1>1. PICK terms \in Terms, r \in Jobs \cup {NoJob} : Submit(j, terms, r)
  <2>1. CASE \E s, a \in BOOLEAN : Submit(j, [sponsored |-> s, allocated |-> a], NoJob)
    BY <2>1 DEF Terms
  <2>2. CASE \E r \in Jobs \ {j} : FailedForGood(r) /\ Submit(j, job[r].terms, r)
    BY <2>2 DEF BillingInv, Typed, QueueTypeOK, Terms
  <2> QED BY <2>1, <2>2 DEF SubmitJob
<1>2. /\ UNCHANGED <<facts, floor, member, live, gpu>> /\ job[j].status = "none"
      /\ QueueTypeOK /\ LeasesAgree /\ CapacityIsKept /\ JobIsSound(j) /\ NoTerms \in Terms
  BY <1>1 DEF SubmitJob, Submit, BillingInv, Typed, QueueInv, Terms, NoTerms
<1>3. job[j] = NewJob /\ reservation[j] = "none" /\ member[j] = NotBound
  <2>1. job[j] = NewJob /\ member[j] = NotBound
    BY <1>2 DEF JobIsSound
  <2>2. ~Sponsored(j)
    BY <2>1 DEF Sponsored, NewJob, NoTerms
  <2>3. Sponsored(j) = (reservation[j] # "none")
    BY <1>2 DEF JobIsSound
  <2> QED BY <2>1, <2>2, <2>3
<1>4. /\ job' \in [Jobs -> JobRows] /\ job'[j].status = "QUEUED" /\ job'[j].owner = NoNode
      /\ job'[j].attempts = 0 /\ job'[j].terms = terms
      /\ \A k \in Jobs \ {j} : job'[k] = job[k]
  <2> DEFINE row == [NewJob EXCEPT !.status = "QUEUED", !.terms = terms, !.retryOf = r]
  <2>1. /\ row \in JobRows /\ row.status = "QUEUED" /\ row.owner = NoNode
        /\ row.attempts = 0 /\ row.terms = terms
    <3>1. NewJob \in JobRows /\ NewJob.attempts = 0 /\ NewJob.owner = NoNode
      BY <1>2 DEF NewJob, JobRows
    <3> HIDE DEF NewJob
    <3> QED BY <3>1 DEF JobRows
  <2>2. job \in [Jobs -> JobRows] /\ job' = [job EXCEPT ![j] = row]
    BY <1>1, <1>2 DEF Submit, QueueTypeOK, JobRows, Terms
  <2> HIDE DEF row
  <2> QED BY <2>1, <2>2
<1>5. /\ reservation' \in [Jobs -> {"none", "RESERVED", "CONSUMED", "RELEASED", "TRANSFERRED"}]
      /\ reservation'[j] = IF terms.sponsored THEN "RESERVED" ELSE "none"
      /\ \A k \in Jobs \ {j} : reservation'[k] = reservation[k]
      /\ reserved' = IF terms.sponsored THEN reserved + 1 ELSE reserved
      /\ consumed' = consumed
      /\ terms.sponsored => consumed + reserved + 1 <= Capacity
  BY <1>1, <1>2, <1>3 DEF Submit, QueueTypeOK, sponsorship, Fits
<1>6. CapacityIsKept'
  <2>1. CASE ~terms.sponsored
    <3>1. Holding("RESERVED")' = Holding("RESERVED") /\ Holding("CONSUMED")' = Holding("CONSUMED")
      BY <1>3, <1>5, <2>1 DEF Holding
    <3> QED BY <1>2, <1>5, <2>1, <3>1 DEF CapacityIsKept
  <2>2. CASE terms.sponsored
    <3>1. Holding("RESERVED")' = Holding("RESERVED") \cup {j} /\ Holding("CONSUMED")' = Holding("CONSUMED")
      BY <1>3, <1>5, <2>2 DEF Holding
    <3>2. j \notin Holding("RESERVED")
      BY <1>3 DEF Holding
    <3>3. Cardinality(Holding("RESERVED")') = Cardinality(Holding("RESERVED")) + 1
      BY <3>1, <3>2, HoldingFinite, FS_AddElement
    <3>4. /\ reserved = Cardinality(Holding("RESERVED")) /\ consumed = Cardinality(Holding("CONSUMED"))
          /\ reserved \in Int /\ consumed \in Int
      BY <1>2 DEF CapacityIsKept, QueueTypeOK
    <3>5. reserved' + consumed' <= Capacity
      BY <1>5, <2>2, <3>4
    <3> QED BY <1>5, <2>2, <3>1, <3>3, <3>4, <3>5 DEF CapacityIsKept
  <2> QED BY <2>1, <2>2
<1>7. QueueTypeOK' /\ LeasesAgree'
  <2>1. QueueTypeOK'
    BY <1>2, <1>4, <1>5 DEF QueueTypeOK, JobRows, Terms
  <2>2. \A k \in Jobs : /\ job'[k].status = "LEASED" <=> job[k].status = "LEASED"
                        /\ (job'[k].owner = NoNode) = (job'[k].status # "LEASED")
    BY <1>2, <1>4 DEF LeasesAgree
  <2>3. WithStatus("LEASED")' = WithStatus("LEASED")
    BY <2>2 DEF WithStatus
  <2> QED BY <1>2, <2>1, <2>2, <2>3 DEF LeasesAgree
<1>8. \A k \in Jobs : JobIsSound(k)'
  <2>1. JobIsSound(j)'
    BY <1>2, <1>3, <1>4, <1>5 DEF JobIsSound, Sponsored, Terms
  <2>2. \A k \in Jobs \ {j} : JobIsSound(k)'
    BY <1>2, <1>4, <1>5 DEF JobIsSound, Sponsored, BillingInv, QueueInv
  <2> QED BY <2>1, <2>2
<1>9. \A k \in Jobs : Follows(k)'
  <2>1. \A k \in Jobs, a \in BOOLEAN : Receipts(k, a)' = Receipts(k, a)
    BY <1>2 DEF Receipts
  <2>2. \A a \in BOOLEAN : Receipts(j, a) = {}
    BY <1>3, NotMember DEF Receipts
  <2>3. Follows(j)'
    <3>1. Receipts(j, TRUE)' = {} /\ Receipts(j, FALSE)' = {}
      BY <2>1, <2>2
    <3>2. job'[j].status = "QUEUED" /\ reservation'[j] \in {"none", "RESERVED"}
      BY <1>4, <1>5
    <3> QED BY <3>1, <3>2 DEF Follows
  <2>4. \A k, q \in Jobs : job[q].retryOf = k => job'[q].retryOf = k
    BY <1>3, <1>4 DEF NewJob
  <2>5. ASSUME NEW k \in Jobs \ {j} PROVE Follows(k)'
    <3>1. Follows(k) /\ job'[k] = job[k] /\ reservation'[k] = reservation[k]
      BY <1>4, <1>5 DEF BillingInv
    <3>2. (\E q \in Jobs : job[q].retryOf = k) => \E q \in Jobs : job'[q].retryOf = k
      BY <2>4
    <3> QED BY <2>1, <3>1, <3>2 DEF Follows
  <2> QED BY <2>3, <2>5
<1>10. OutcomesAreSound(facts)' /\ ChargeIsJustified'
  BY <1>2, <1>3, <1>4, ChargesKept
<1>11. Typed'
  BY <1>2, <1>7 DEF BillingInv, Typed
<1> QED BY <1>6, <1>7, <1>8, <1>9, <1>10, <1>11 DEF BillingInv, QueueInv

-----------------------------------------------------------------------------
(* L1, the indexer and the publisher *)

(* the highest canonical event, or the floor *)
LEMMA TopIsMax ==
  ASSUME Typed
  PROVE  Top(facts) \in Nat /\ \A i \in Canonical(facts) : facts[i].height <= Top(facts)
<1> DEFINE S == Heights(facts)
<1>0. floor \in Nat /\ \A i \in Canonical(facts) : i \in DOMAIN facts /\ facts[i].height \in Nat
  BY FactType DEF Canonical, Typed, Facts
<1>1. S \in SUBSET Nat /\ S # {}
  <2>1. \A x \in S : x \in Nat
    BY <1>0 DEF Heights
  <2>2. (IF recovery THEN 0 ELSE floor) \in S
    BY DEF Heights
  <2> QED BY <2>1, <2>2
<1>2. PICK b \in Nat : \A i \in DOMAIN facts : facts[i].height <= b
  BY DEF Typed
<1>3. PICK c \in Nat : b <= c /\ floor <= c
  <2>1. b + floor \in Nat /\ b <= b + floor /\ floor <= b + floor
    BY DEF Typed
  <2> QED BY <2>1
<1>4. \A x \in S : x <= c
  <2>1. \A i \in Canonical(facts) : facts[i].height <= c
    BY <1>0, <1>2, <1>3
  <2>2. (IF recovery THEN 0 ELSE floor) <= c
    BY <1>0, <1>3
  <2> QED BY <2>1, <2>2 DEF Heights
<1> HIDE DEF S
<1>5. \E m \in S : \A x \in S : x <= m
  BY <1>1, <1>4, NatMax
<1>6. Top(facts) \in S /\ \A x \in S : x <= Top(facts)
  BY <1>5 DEF Top, S
<1> QED BY <1>1, <1>6 DEF S, Heights

LEMMA IngestStep ==
  ASSUME BillingInv, NEW f \in Facts, Ingest(f), f.receipt = "none", f.due = 0,
         IsOutcome(f) => member[f.job] # NotBound /\ OutcomesOf(f.job, facts) = {}
  PROVE  BillingInv'
<1>0. PICK n \in Nat : n = Len(facts)
  BY FactType DEF BillingInv
<1>1. /\ Typed /\ n \in Nat /\ DOMAIN facts = 1 .. n /\ facts \in Seq(Facts) /\ \A i \in 1 .. n : facts[i] \in Facts
      /\ UNCHANGED <<job, live, gpu, reservation, reserved, consumed, floor, member>>
  BY <1>0, FactType DEF BillingInv, Typed, Ingest, queue, sponsorship
<1>2. /\ facts' \in Seq(Facts) /\ DOMAIN facts' = 1 .. n + 1 /\ facts'[n + 1] = f
      /\ \A i \in 1 .. n : facts'[i] = facts[i]
  <2>1. facts' = Append(facts, f)
    BY DEF Ingest
  <2>2. facts' \in Seq(Facts) /\ Len(facts') = n + 1 /\ facts'[n + 1] = f /\ \A i \in 1 .. n : facts'[i] = facts[i]
    BY <1>0, <1>1, <2>1, AppendProperties
  <2> QED BY <2>2, LenProperties
<1>3. Typed'
  <2>1. PICK b \in Nat : \A i \in 1 .. n : facts[i].height <= b
    BY <1>1 DEF Typed
  <2>2. f.height \in Nat /\ b + f.height \in Nat /\ f.height <= b + f.height
        /\ \A i \in 1 .. n : facts[i].height \in Nat /\ facts[i].height <= b + f.height
    BY <1>1, <2>1 DEF Facts
  <2>3. \A i \in 1 .. n + 1 : facts'[i].height <= b + f.height
    BY <1>1, <1>2, <2>2
  <2>4. \E c \in Nat : \A i \in DOMAIN facts' : facts'[i].height <= c
    BY <1>2, <2>2, <2>3
  <2> QED BY <1>1, <1>2, <2>4 DEF Typed, QueueTypeOK
<1>4. QueueInv' /\ CapacityIsKept'
  BY <1>1, <1>2 DEF BillingInv, QueueInv, LeasesAgree, WithStatus, JobIsSound, Sponsored, CapacityIsKept, Holding
<1>5. OutcomesAreSound(facts)'
  <2>1. ASSUME NEW i \in 1 .. n, facts[i].job = f.job, IsOutcome(f)
        PROVE  ~facts[i].canonical
    BY <1>1, <2>1 DEF OutcomesOf, Canonical
  <2>2. \A i \in 1 .. n + 1 : i \in 1 .. n \/ i = n + 1
    BY <1>1
  <2> QED BY <1>1, <1>2, <2>1, <2>2 DEF OutcomesAreSound, BillingInv, IsOutcome
<1>6. \A j \in Jobs : Follows(j)'
  <2>1. \A j \in Jobs, a \in BOOLEAN : Receipts(j, a)' = Receipts(j, a)
    BY <1>1, <1>2 DEF Receipts
  <2> QED BY <1>1, <2>1 DEF Follows, BillingInv
<1>7. ChargeIsJustified'
  <2>1. ASSUME NEW i \in 1 .. n, facts[i].due > 0
        PROVE  Linked(facts, facts[i].job, member)' = Linked(facts, facts[i].job, member)
    <3>1. IsOutcome(facts[i]) /\ member[facts[i].job] # NotBound
      BY <1>1, <2>1 DEF BillingInv, OutcomesAreSound, ChargeIsJustified
    <3>2. facts[i].job \in Jobs /\ JobIsSound(facts[i].job)
      BY <1>1, <3>1 DEF IsOutcome, Facts, BillingInv, QueueInv
    <3> QED BY <1>1, <1>2, <3>1, <3>2 DEF Linked, JobIsSound
  <2>2. ASSUME NEW i \in 1 .. n PROVE Justified(i)'
    <3>1. Justified(i)
      BY <1>1, EachIsJustified DEF BillingInv
    <3>2. facts'[i] = facts[i] /\ floor' = floor
      BY <1>1, <1>2
    <3>3. \A k \in (1 .. n + 1) \ {i} : facts'[k].due = 0 \/ (k \in (1 .. n) \ {i} /\ facts'[k] = facts[k])
      BY <1>1, <1>2
    <3> QED BY <1>1, <1>2, <2>1, <3>1, <3>2, <3>3 DEF Justified
  <2>3. Justified(n + 1)'
    BY <1>2 DEF Justified
  <2>4. \A i \in DOMAIN facts' : Justified(i)'
    <3>1. \A i \in DOMAIN facts' : i \in 1 .. n \/ i = n + 1
      BY <1>1, <1>2
    <3> QED BY <2>2, <2>3, <3>1
  <2> QED BY <2>4 DEF ChargeIsJustified, Justified
<1> QED BY <1>3, <1>4, <1>5, <1>6, <1>7 DEF BillingInv

LEMMA AllocationStep ==
  ASSUME BillingInv, AllocationUsed
  PROVE  BillingInv'
<1>1. Event(NoJob, FALSE) \in Facts
  BY TopIsMax DEF Event, Facts, BillingInv
<1> QED BY <1>1, IngestStep DEF AllocationUsed, Event, IsOutcome

LEMMA OutcomeStep ==
  ASSUME BillingInv, NEW j \in Jobs, Outcome(j)
  PROVE  BillingInv'
<1>1. PICK applied \in BOOLEAN : Ingest(Event(j, applied))
  BY DEF Outcome
<1>2. Event(j, applied) \in Facts /\ Event(j, applied).job = j
      /\ Event(j, applied).receipt = "none" /\ Event(j, applied).due = 0
  BY TopIsMax DEF Event, Facts, BillingInv
<1> QED BY <1>1, <1>2, IngestStep DEF Outcome

LEMMA SameKeeps ==
  ASSUME BillingInv, UNCHANGED <<queue, sponsorship, facts, floor, member>>
  PROVE  BillingInv'
<1>1. UNCHANGED <<job, live, gpu, reservation, reserved, consumed, facts, floor, member>>
  BY DEF queue, sponsorship
<1>2. \A j \in Jobs : Advances(j)
  BY <1>1 DEF Advances
<1>3. QueueTypeOK' /\ LeasesAgree' /\ CapacityIsKept'
  BY <1>1 DEF BillingInv, Typed, QueueInv, QueueTypeOK, LeasesAgree, WithStatus, CapacityIsKept, Holding
<1> QED BY <1>1, <1>2, <1>3, QueueKeeps

(* a refund leaves an amount between nothing and what was due *)
LEMMA RefundStep ==
  ASSUME BillingInv, NEW i \in DOMAIN facts, Refund(i)
  PROVE  BillingInv'
<1>0. PICK n \in Nat : n = Len(facts)
  BY FactType DEF BillingInv
<1>1. /\ Typed /\ DOMAIN facts = 1 .. n /\ facts \in Seq(Facts) /\ \A k \in 1 .. n : facts[k] \in Facts
      /\ UNCHANGED <<job, live, gpu, reservation, reserved, consumed, floor, member>>
  BY <1>0, FactType DEF BillingInv, Typed, Refund, queue, sponsorship
<1>2. PICK q \in 1 .. facts[i].due : facts' = [facts EXCEPT ![i].due = @ - q]
  BY DEF Refund
<1>3. PICK d \in 0 .. Price : d = facts[i].due - q
  BY <1>1, <1>2 DEF Facts
<1>4. PICK r \in Facts : r = [facts[i] EXCEPT !.due = d]
  BY <1>1, <1>3 DEF Facts
<1>5. r.job = facts[i].job /\ r.applied = facts[i].applied /\ r.height = facts[i].height
      /\ r.canonical = facts[i].canonical /\ r.receipt = facts[i].receipt /\ r.due = d
  BY <1>1, <1>4 DEF Facts
<1>6. facts' = [facts EXCEPT ![i] = r]
  BY <1>2, <1>3, <1>4
<1>7. facts' \in Seq(Facts) /\ DOMAIN facts' = 1 .. n /\ facts'[i] = r
      /\ \A k \in 1 .. n : k # i => facts'[k] = facts[k]
  BY <1>1, <1>6, ExceptSeq
<1>8. \A k \in 1 .. n : /\ facts'[k].job = facts[k].job /\ facts'[k].applied = facts[k].applied
                        /\ facts'[k].height = facts[k].height /\ facts'[k].canonical = facts[k].canonical
                        /\ facts'[k].receipt = facts[k].receipt
                        /\ facts'[k].due \in 0 .. Price /\ (facts[k].due = 0 => facts'[k].due = 0)
  <2> SUFFICES ASSUME NEW k \in 1 .. n
               PROVE  /\ facts'[k].job = facts[k].job /\ facts'[k].applied = facts[k].applied
                      /\ facts'[k].height = facts[k].height /\ facts'[k].canonical = facts[k].canonical
                      /\ facts'[k].receipt = facts[k].receipt
                      /\ facts'[k].due \in 0 .. Price /\ (facts[k].due = 0 => facts'[k].due = 0)
    OBVIOUS
  <2>1. CASE k = i
    <3>1. facts[k].due # 0
      BY <1>2, <2>1
    <3> QED BY <1>3, <1>5, <1>7, <2>1, <3>1
  <2>2. CASE k # i
    BY <1>1, <1>7, <2>2 DEF Facts
  <2> QED BY <2>1, <2>2
<1>9. Typed'
  BY <1>1, <1>7, <1>8 DEF Typed, QueueTypeOK
<1>10. QueueInv' /\ CapacityIsKept'
  BY <1>1, <1>7 DEF BillingInv, QueueInv, LeasesAgree, WithStatus, JobIsSound, Sponsored, CapacityIsKept, Holding
<1>11. OutcomesAreSound(facts)'
  <2>1. OutcomesAreSound(facts) /\ DOMAIN facts = 1 .. n /\ DOMAIN facts' = 1 .. n /\ member' = member
    BY <1>1, <1>7 DEF BillingInv
  <2>2. \A k \in 1 .. n : /\ facts'[k].job = facts[k].job /\ facts'[k].canonical = facts[k].canonical
                          /\ facts'[k].receipt = facts[k].receipt
    BY <1>8
  <2> QED BY <2>1, <2>2 DEF OutcomesAreSound, IsOutcome
<1>12. \A j \in Jobs : Follows(j)'
  <2>1. \A j \in Jobs, a \in BOOLEAN : Receipts(j, a)' = Receipts(j, a)
    BY <1>1, <1>7, <1>8 DEF Receipts
  <2> QED BY <1>1, <2>1 DEF Follows, BillingInv
<1>13. ChargeIsJustified'
  <2>1. ASSUME NEW k \in 1 .. n PROVE Justified(k)'
    <3>1. Justified(k) /\ facts[k] \in Facts
      BY <1>1, EachIsJustified DEF BillingInv
    <3>2. CASE facts[k].due = 0
      BY <1>8, <3>2 DEF Justified
    <3>3. CASE facts[k].due # 0
      <4>1. facts[k].due > 0
        BY <3>1, <3>3 DEF Facts
      <4>2. IsOutcome(facts[k]) /\ member[facts[k].job] # NotBound
        BY <1>1, <3>1, <4>1 DEF BillingInv, OutcomesAreSound, Justified
      <4>3. facts[k].job \in Jobs /\ JobIsSound(facts[k].job)
        BY <3>1, <4>2 DEF IsOutcome, Facts, BillingInv, QueueInv
      <4>4. Linked(facts, facts[k].job, member)' = Linked(facts, facts[k].job, member)
        BY <1>1, <1>8, <4>2, <4>3 DEF Linked, JobIsSound
      <4> QED BY <1>1, <1>7, <1>8, <3>1, <4>1, <4>4 DEF Justified
    <3> QED BY <3>2, <3>3
  <2> QED BY <1>7, <2>1 DEF ChargeIsJustified, Justified
<1> QED BY <1>9, <1>10, <1>11, <1>12, <1>13 DEF BillingInv

-----------------------------------------------------------------------------
(* reconcileAggregateBillingTx *)

(* the facts it reads, when a rollback made some of them orphans *)
Survives(fs) ==
  /\ fs \in Seq(Facts) /\ DOMAIN fs = DOMAIN facts
  /\ \A i \in DOMAIN facts :
       /\ fs[i].job = facts[i].job /\ fs[i].applied = facts[i].applied
       /\ fs[i].height = facts[i].height /\ fs[i].receipt = facts[i].receipt
       /\ fs[i].due = facts[i].due /\ (fs[i].canonical => facts[i].canonical)

(* the manifests it reads, when it registers one *)
Binds(bound) ==
  /\ bound \in [Jobs -> Int]
  /\ \A j \in Jobs : \/ bound[j] = member[j]
                       \/ /\ member[j] = NotBound /\ job[j].status = "DONE"
                          /\ job[j].terms.allocated => bound[j] \in DOMAIN facts

(* outcomes charged before it starts on the corrections, and what its first loop made of
   the reservations *)
Alive(fs, fl) == {i \in DOMAIN fs : fs[i].receipt = "live" \/ i \in Unbilled(fs, fl)}
Paid(fs, fl) == JobsIn(fs, Unbilled(fs, fl), TRUE)
Freed(fs, fl) == JobsIn(fs, Unbilled(fs, fl), FALSE)
Booked(fs, fl) == [j \in Jobs |-> IF j \in Paid(fs, fl) THEN "CONSUMED"
                                   ELSE IF j \in Freed(fs, fl) THEN "RELEASED" ELSE reservation[j]]

LEMMA SurvivorType ==
  ASSUME BillingInv, NEW fs, Survives(fs), NEW fl \in Nat
  PROVE  /\ \A i \in DOMAIN facts : fs[i] \in Facts
         /\ Alive(fs, fl) \subseteq DOMAIN facts /\ Unbilled(fs, fl) \subseteq Alive(fs, fl)
         /\ \A i \in Unbilled(fs, fl) : /\ fs[i].canonical /\ IsOutcome(fs[i]) /\ fs[i].height <= fl
                                        /\ fs[i].receipt = "none"
         /\ \A i \in Alive(fs, fl) : /\ fs[i].job \in Jobs /\ member[fs[i].job] # NotBound
                                     /\ job[fs[i].job].status = "DONE"
<1>1. \A i \in DOMAIN facts : fs[i] \in Facts
  BY ElementOfSeq DEF Survives
<1>2. \A i \in Unbilled(fs, fl) : /\ i \in DOMAIN facts /\ fs[i].canonical /\ IsOutcome(fs[i])
                                 /\ fs[i].height <= fl /\ fs[i].receipt = "none"
  BY DEF Unbilled, Canonical, Survives
<1>3. ASSUME NEW i \in Alive(fs, fl)
      PROVE  /\ i \in DOMAIN facts /\ fs[i].job \in Jobs /\ member[fs[i].job] # NotBound
             /\ job[fs[i].job].status = "DONE"
  <2>1. i \in DOMAIN facts /\ IsOutcome(facts[i]) /\ fs[i].job = facts[i].job
    BY <1>2 DEF Alive, Survives, BillingInv, OutcomesAreSound, IsOutcome
  <2>2. fs[i].job \in Jobs /\ member[fs[i].job] # NotBound
    BY <1>1, <2>1 DEF Facts, IsOutcome, BillingInv, OutcomesAreSound
  <2> QED BY <2>1, <2>2 DEF BillingInv, QueueInv, JobIsSound
<1>4. Unbilled(fs, fl) \subseteq Alive(fs, fl)
  BY <1>2 DEF Alive, Survives
<1> QED BY <1>1, <1>2, <1>3, <1>4

(* A job has one outcome that is charged, or about to be; that one says how the quantity is
   booked after the first loop. *)
LEMMA AliveOnce ==
  ASSUME BillingInv, NEW fs, Survives(fs), NEW fl \in Nat, NEW bound, Reconcilable(fs, fl, bound),
         NEW i \in Alive(fs, fl), NEW k \in Alive(fs, fl), fs[i].job = fs[k].job
  PROVE  i = k
<1>1. i \in DOMAIN facts /\ k \in DOMAIN facts /\ fs[i].job \in Jobs
  BY SurvivorType
<1>2. CASE i \in Unbilled(fs, fl) /\ k \in Unbilled(fs, fl)
  <2>1. facts[i].canonical /\ facts[k].canonical /\ IsOutcome(facts[i]) /\ facts[i].job = facts[k].job
    BY <1>1, <1>2, SurvivorType DEF Survives, IsOutcome
  <2> QED BY <1>1, <2>1 DEF BillingInv, OutcomesAreSound
<1>3. CASE i \in Unbilled(fs, fl) /\ fs[k].receipt = "live"
  <2>1. Active(fs, i) = {} /\ k \in DOMAIN fs
    BY <1>1, <1>3 DEF Reconcilable, Billable, Survives
  <2> QED BY <1>3, <2>1 DEF Active
<1>4. CASE k \in Unbilled(fs, fl) /\ fs[i].receipt = "live"
  <2>1. Active(fs, k) = {} /\ i \in DOMAIN fs
    BY <1>1, <1>4 DEF Reconcilable, Billable, Survives
  <2> QED BY <1>4, <2>1 DEF Active
<1>5. CASE fs[i].receipt = "live" /\ fs[k].receipt = "live"
  <2>1. facts[i].receipt = "live" /\ facts[k].receipt = "live" /\ facts[i].job = facts[k].job
    BY <1>1, <1>5 DEF Survives
  <2> QED BY <1>1, <2>1 DEF BillingInv, OutcomesAreSound
<1> QED BY <1>2, <1>3, <1>4, <1>5 DEF Alive

LEMMA AliveBooked ==
  ASSUME BillingInv, NEW fs, Survives(fs), NEW fl \in Nat, NEW bound, Reconcilable(fs, fl, bound),
         NEW i \in Alive(fs, fl), Sponsored(fs[i].job)
  PROVE  /\ i \in Unbilled(fs, fl) => reservation[fs[i].job] = "RESERVED"
         /\ Booked(fs, fl)[fs[i].job] = IF fs[i].applied THEN "CONSUMED" ELSE "RELEASED"
<1>1. /\ i \in DOMAIN facts /\ fs[i].job \in Jobs /\ job[fs[i].job].status = "DONE" /\ fs[i].applied \in BOOLEAN
  BY SurvivorType DEF Facts
<1> DEFINE me == fs[i].job
<1>2. Follows(me) /\ JobIsSound(me) /\ reservation[me] \in {"RESERVED", "CONSUMED", "RELEASED", "TRANSFERRED"}
  <2>1. Follows(me) /\ JobIsSound(me) /\ Sponsored(me)
    BY <1>1 DEF BillingInv, QueueInv
  <2>2. reservation[me] \in {"none", "RESERVED", "CONSUMED", "RELEASED", "TRANSFERRED"}
    BY <1>1 DEF BillingInv, Typed, QueueTypeOK
  <2> QED BY <2>1, <2>2 DEF JobIsSound
<1>3. \A k \in Unbilled(fs, fl) : fs[k].job = me => k = i
  BY AliveOnce, SurvivorType
<1>4. CASE i \in Unbilled(fs, fl)
  <2>1. Active(fs, i) = {} /\ Payable(fs, i)
    BY <1>4 DEF Reconcilable, Billable
  <2>2. Receipts(me, FALSE) = {}
    BY <2>1 DEF Receipts, Active, Survives
  <2>3. reservation[me] # "RELEASED"
    BY <1>1, <1>2, <2>2 DEF Follows
  <2>4. reservation[me] = "RESERVED"
    BY <1>2, <2>1, <2>3 DEF Payable
  <2>5. me \in Paid(fs, fl) <=> fs[i].applied
    BY <1>1, <1>3, <1>4 DEF Paid, JobsIn
  <2>6. me \in Freed(fs, fl) <=> ~fs[i].applied
    BY <1>1, <1>3, <1>4 DEF Freed, JobsIn
  <2>7. Booked(fs, fl)[me] = IF me \in Paid(fs, fl) THEN "CONSUMED"
                             ELSE IF me \in Freed(fs, fl) THEN "RELEASED" ELSE reservation[me]
    BY <1>1 DEF Booked
  <2> QED BY <2>4, <2>5, <2>6, <2>7
<1>5. CASE i \notin Unbilled(fs, fl)
  <2>1. facts[i].receipt = "live" /\ facts[i].job = me /\ facts[i].applied = fs[i].applied
    BY <1>1, <1>5 DEF Alive, Survives
  <2>2. me \notin Paid(fs, fl) /\ me \notin Freed(fs, fl)
    BY <1>3, <1>5 DEF Paid, Freed, JobsIn
  <2>3. Booked(fs, fl)[me] = reservation[me]
    BY <1>1, <2>2 DEF Booked
  <2>4. \A k \in DOMAIN facts : facts[k].job = me /\ facts[k].receipt = "live" => k = i
    BY <1>1, <2>1 DEF BillingInv, OutcomesAreSound
  <2>5. CASE fs[i].applied = TRUE
    <3>1. Receipts(me, TRUE) # {} /\ Receipts(me, FALSE) = {}
      BY <1>1, <2>1, <2>4, <2>5 DEF Receipts
    <3>2. reservation[me] = "CONSUMED"
      BY <1>1, <1>2, <3>1 DEF Follows
    <3> QED BY <1>5, <2>3, <2>5, <3>2
  <2>6. CASE fs[i].applied = FALSE
    <3>1. Receipts(me, FALSE) # {} /\ Receipts(me, TRUE) = {}
      BY <1>1, <2>1, <2>4, <2>6 DEF Receipts
    <3>2. reservation[me] = "RELEASED"
      BY <1>1, <1>2, <3>1 DEF Follows
    <3> QED BY <1>5, <2>3, <2>6, <3>2
  <2> QED BY <1>1, <2>5, <2>6
<1> QED BY <1>4, <1>5

(* the corrections: back to reserved, transferred to a retry, and reserved again as far as
   there is room *)
Voided(fs, fl, bound) == Void(fs, Unbilled(fs, fl), bound)
Back(fs, fl, bound) == JobsIn(fs, Voided(fs, fl, bound), TRUE)
Owed(fs, fl, bound) == JobsIn(fs, Voided(fs, fl, bound), FALSE)

(* what it writes when it moves the quantities of moved and keeps the ones of kept *)
Writes(fs, fl, bound, moved, kept) ==
  /\ moved \in SUBSET Owed(fs, fl, bound) /\ kept \in SUBSET (Owed(fs, fl, bound) \ moved)
  /\ \A j \in moved : RetriedBy(j, Jobs)
  /\ reservation' = [j \in Jobs |-> IF j \in Back(fs, fl, bound) \cup kept THEN "RESERVED"
                                    ELSE IF j \in moved THEN "TRANSFERRED" ELSE Booked(fs, fl)[j]]
  /\ facts' = [i \in DOMAIN fs |->
       IF i \in Voided(fs, fl, bound) /\ fs[i].job \notin Owed(fs, fl, bound) \ (moved \cup kept)
       THEN Credited(IF i \in Unbilled(fs, fl) THEN Charged(fs[i]) ELSE fs[i])
       ELSE IF i \in Unbilled(fs, fl) THEN Charged(fs[i]) ELSE fs[i]]

LEMMA Unfolds ==
  ASSUME BillingInv, NEW fs, Survives(fs), NEW fl \in Nat, NEW bound, Reconcile(fs, fl, bound)
  PROVE  /\ Reconcilable(fs, fl, bound)
         /\ \E moved, kept, reserved1, consumed1 :
              /\ kept \in SUBSET Jobs
              /\ Writes(fs, fl, bound, moved, kept)
              /\ reserved1 = reserved
                   - Cardinality((Paid(fs, fl) \cup Freed(fs, fl)) \cap Holding("RESERVED"))
              /\ consumed1 = consumed + Cardinality(Paid(fs, fl))
              /\ \/ Cardinality(kept) <= Capacity - reserved1 - consumed1
                 \/ Cardinality(kept) = Capacity - reserved1 - consumed1
              /\ reserved' = reserved1 + Cardinality(Back(fs, fl, bound)) + Cardinality(kept)
              /\ consumed' = consumed1 - Cardinality(Back(fs, fl, bound))
<1> DEFINE new == Unbilled(fs, fl)
           fs1 == [i \in DOMAIN fs |-> IF i \in new THEN Charged(fs[i]) ELSE fs[i]]
           res1 == reserved - Cardinality((Paid(fs, fl) \cup Freed(fs, fl)) \cap Holding("RESERVED"))
           con1 == consumed + Cardinality(Paid(fs, fl))
           void == Void(fs, new, bound)
           owed == JobsIn(fs, void, FALSE)
           room == Capacity - res1 - con1
           rows(moved, kept) ==
             /\ Settles(owed, Booked(fs, fl), room, moved, kept)
             /\ facts' = [i \in DOMAIN fs |->
                  IF i \in void /\ fs[i].job \notin owed \ (moved \cup kept)
                  THEN Credited(fs1[i]) ELSE fs1[i]]
             /\ reservation' = [j \in Jobs |-> IF j \in JobsIn(fs, void, TRUE) \cup kept THEN "RESERVED"
                                               ELSE IF j \in moved THEN "TRANSFERRED"
                                               ELSE Booked(fs, fl)[j]]
             /\ reserved' = res1 + Cardinality(JobsIn(fs, void, TRUE)) + Cardinality(kept)
             /\ consumed' = con1 - Cardinality(JobsIn(fs, void, TRUE))
<1>1. Reconcilable(fs, fl, bound)
  BY DEF Reconcile
<1>2. PICK moved \in SUBSET owed : \E kept \in SUBSET (owed \ moved) : rows(moved, kept)
  BY DEF Reconcile, Booked, Paid, Freed
<1>3. PICK kept \in SUBSET (owed \ moved) : rows(moved, kept)
  BY <1>2
<1>4. owed = Owed(fs, fl, bound) /\ owed \in SUBSET Jobs
      /\ void = Voided(fs, fl, bound) /\ JobsIn(fs, void, TRUE) = Back(fs, fl, bound)
  BY DEF Owed, Voided, Back, JobsIn
<1>5. facts' = [i \in DOMAIN fs |->
        IF i \in void /\ fs[i].job \notin owed \ (moved \cup kept)
        THEN Credited(IF i \in new THEN Charged(fs[i]) ELSE fs[i])
        ELSE IF i \in new THEN Charged(fs[i]) ELSE fs[i]]
  BY <1>3
<1>6. kept \in SUBSET Jobs /\ moved \in SUBSET Jobs
  BY <1>3, <1>4
<1>7. Cardinality(kept) <= room \/ Cardinality(kept) = room
  BY <1>3 DEF Settles
<1>8. \A j \in moved : RetriedBy(j, Jobs)
  BY <1>3, <1>6 DEF Settles, TakenOver, RetriedBy
<1>9. Writes(fs, fl, bound, moved, kept)
  <2>1. moved \in SUBSET Owed(fs, fl, bound) /\ kept \in SUBSET (Owed(fs, fl, bound) \ moved)
    BY <1>3, <1>4, <1>8
  <2>2. reservation' = [j \in Jobs |-> IF j \in Back(fs, fl, bound) \cup kept THEN "RESERVED"
                                      ELSE IF j \in moved THEN "TRANSFERRED"
                                      ELSE Booked(fs, fl)[j]]
    BY <1>3, <1>4
  <2>3. facts' = [i \in DOMAIN fs |->
          IF i \in Voided(fs, fl, bound) /\ fs[i].job \notin Owed(fs, fl, bound) \ (moved \cup kept)
          THEN Credited(IF i \in Unbilled(fs, fl) THEN Charged(fs[i]) ELSE fs[i])
          ELSE IF i \in Unbilled(fs, fl) THEN Charged(fs[i]) ELSE fs[i]]
    BY <1>4, <1>5
  <2> QED BY <1>8, <2>1, <2>2, <2>3 DEF Writes
<1> QED BY <1>1, <1>3, <1>4, <1>6, <1>7, <1>9

LEMMA VoidBooked ==
  ASSUME BillingInv, NEW fs, Survives(fs), NEW fl \in Nat, NEW bound, Reconcilable(fs, fl, bound)
  PROVE  /\ Voided(fs, fl, bound) \subseteq Alive(fs, fl)
         /\ \A j \in Back(fs, fl, bound) : j \in Jobs /\ Booked(fs, fl)[j] = "CONSUMED"
         /\ \A j \in Owed(fs, fl, bound) : j \in Jobs /\ Booked(fs, fl)[j] = "RELEASED"
         /\ \A j \in Paid(fs, fl) \cup Freed(fs, fl) : reservation[j] = "RESERVED"
         /\ Paid(fs, fl) \cap Freed(fs, fl) = {}
<1>1. Voided(fs, fl, bound) \subseteq Alive(fs, fl)
  BY DEF Voided, Void, Alive
<1>2. \A i \in Alive(fs, fl) : Sponsored(fs[i].job) =>
         /\ i \in Unbilled(fs, fl) => reservation[fs[i].job] = "RESERVED"
         /\ Booked(fs, fl)[fs[i].job] = IF fs[i].applied THEN "CONSUMED" ELSE "RELEASED"
  BY AliveBooked
<1>3. Unbilled(fs, fl) \subseteq Alive(fs, fl)
  BY SurvivorType
<1>4. \A j \in Back(fs, fl, bound) : j \in Jobs /\ Booked(fs, fl)[j] = "CONSUMED"
  BY <1>1, <1>2 DEF Back, JobsIn
<1>5. \A j \in Owed(fs, fl, bound) : j \in Jobs /\ Booked(fs, fl)[j] = "RELEASED"
  BY <1>1, <1>2 DEF Owed, JobsIn
<1>6. \A j \in Paid(fs, fl) \cup Freed(fs, fl) : reservation[j] = "RESERVED"
  BY <1>2, <1>3 DEF Paid, Freed, JobsIn
<1>7. \A j \in Paid(fs, fl) : j \notin Freed(fs, fl)
  <2> SUFFICES ASSUME NEW j \in Paid(fs, fl), j \in Freed(fs, fl) PROVE FALSE
    OBVIOUS
  <2>1. PICK i \in Unbilled(fs, fl) : fs[i].job = j /\ fs[i].applied = TRUE
    BY DEF Paid, JobsIn
  <2>2. PICK k \in Unbilled(fs, fl) : fs[k].job = j /\ fs[k].applied = FALSE
    BY DEF Freed, JobsIn
  <2>3. i = k
    BY <1>3, <2>1, <2>2, AliveOnce
  <2> QED BY <2>1, <2>2, <2>3
<1> QED BY <1>1, <1>4, <1>5, <1>6, <1>7

(* the counters *)
LEMMA CountsAgree ==
  ASSUME BillingInv, NEW fs, Survives(fs), NEW fl \in Nat, NEW bound, Reconcile(fs, fl, bound)
  PROVE  /\ CapacityIsKept' /\ reserved' \in Int /\ consumed' \in Int
         /\ reservation' \in [Jobs -> {"none", "RESERVED", "CONSUMED", "RELEASED", "TRANSFERRED"}]
<1>1. Reconcilable(fs, fl, bound)
  BY Unfolds
<1>2. PICK moved, kept, reserved1, consumed1 :
              /\ kept \in SUBSET Jobs
              /\ Writes(fs, fl, bound, moved, kept)
              /\ reserved1 = reserved
                   - Cardinality((Paid(fs, fl) \cup Freed(fs, fl)) \cap Holding("RESERVED"))
              /\ consumed1 = consumed + Cardinality(Paid(fs, fl))
              /\ \/ Cardinality(kept) <= Capacity - reserved1 - consumed1
                 \/ Cardinality(kept) = Capacity - reserved1 - consumed1
              /\ reserved' = reserved1 + Cardinality(Back(fs, fl, bound)) + Cardinality(kept)
              /\ consumed' = consumed1 - Cardinality(Back(fs, fl, bound))
  BY Unfolds
<1>3. PICK paid \in SUBSET Jobs, freed \in SUBSET Jobs, back \in SUBSET Jobs, owed \in SUBSET Jobs :
        /\ paid = Paid(fs, fl) /\ freed = Freed(fs, fl)
        /\ back = Back(fs, fl, bound) /\ owed = Owed(fs, fl, bound)
  BY DEF Paid, Freed, Back, Owed, JobsIn
<1>4. PICK HR \in SUBSET Jobs, HC \in SUBSET Jobs :
        HR = Holding("RESERVED") /\ HC = Holding("CONSUMED")
  BY DEF Holding
<1>5. /\ paid \cap freed = {} /\ paid \subseteq HR /\ freed \subseteq HR
      /\ back \subseteq HC \cup paid /\ owed \cap (HR \ (paid \cup freed)) = {} /\ owed \cap (HC \cup paid) = {}
      /\ kept \subseteq owed /\ moved \subseteq owed
  <2>1. \A j \in Jobs : Booked(fs, fl)[j] = IF j \in paid THEN "CONSUMED"
                                            ELSE IF j \in freed THEN "RELEASED" ELSE reservation[j]
    BY <1>3 DEF Booked
  <2>2. paid \cap freed = {} /\ paid \subseteq HR /\ freed \subseteq HR
    BY <1>1, <1>3, <1>4, VoidBooked DEF Holding
  <2>3. (\A j \in back : Booked(fs, fl)[j] = "CONSUMED") /\ \A j \in owed : Booked(fs, fl)[j] = "RELEASED"
    BY <1>1, <1>3, VoidBooked
  <2>4. back \subseteq HC \cup paid
    BY <1>4, <2>1, <2>3 DEF Holding
  <2>5. owed \cap (HR \ (paid \cup freed)) = {} /\ owed \cap (HC \cup paid) = {}
    BY <1>4, <2>1, <2>2, <2>3 DEF Holding
  <2>6. kept \subseteq owed /\ moved \subseteq owed
    BY <1>2, <1>3 DEF Writes
  <2> QED BY <2>2, <2>4, <2>5, <2>6
<1>6. \A j \in Jobs : reservation'[j] =
        IF j \in back \cup kept THEN "RESERVED" ELSE IF j \in moved THEN "TRANSFERRED"
        ELSE IF j \in paid THEN "CONSUMED" ELSE IF j \in freed THEN "RELEASED" ELSE reservation[j]
  BY <1>2, <1>3 DEF Writes, Booked
<1>7. reservation' \in [Jobs -> {"none", "RESERVED", "CONSUMED", "RELEASED", "TRANSFERRED"}]
  <2>1. reservation' = [j \in Jobs |-> reservation'[j]]
    BY <1>2 DEF Writes
  <2>2. \A j \in Jobs : reservation[j] \in {"none", "RESERVED", "CONSUMED", "RELEASED", "TRANSFERRED"}
    BY DEF BillingInv, Typed, QueueTypeOK
  <2> QED BY <1>6, <2>1, <2>2
<1>8. /\ Holding("RESERVED")' = (HR \ (paid \cup freed)) \cup (back \cup kept)
      /\ Holding("CONSUMED")' = (HC \cup paid) \ back
  <2>1. \A j \in Jobs : reservation'[j] = "RESERVED" <=> j \in (HR \ (paid \cup freed)) \cup (back \cup kept)
    BY <1>4, <1>5, <1>6 DEF Holding
  <2>2. \A j \in Jobs : reservation'[j] = "CONSUMED" <=> j \in (HC \cup paid) \ back
    BY <1>2, <1>4, <1>5, <1>6 DEF Holding
  <2> QED BY <1>2, <2>1, <2>2 DEF Holding
<1>9. Cardinality(paid \cup freed) = Cardinality(paid) + Cardinality(freed)
  BY <1>5, CountAdded
<1>10. Cardinality(HR \ (paid \cup freed)) = Cardinality(HR) - Cardinality(paid \cup freed)
  BY <1>5, CountRemoved
<1>11. Cardinality(back \cup kept) = Cardinality(back) + Cardinality(kept)
  BY <1>5, CountAdded
<1>12. Cardinality((HR \ (paid \cup freed)) \cup (back \cup kept))
         = Cardinality(HR \ (paid \cup freed)) + Cardinality(back \cup kept)
  <2>1. HC \cap HR = {}
    BY <1>4 DEF Holding
  <2>2. (HR \ (paid \cup freed)) \cap (back \cup kept) = {}
    BY <1>5, <2>1
  <2> QED BY <1>2, <2>2, CountAdded
<1>13. Cardinality(HC \cup paid) = Cardinality(HC) + Cardinality(paid)
  <2>1. HC \cap paid = {}
    BY <1>4, <1>5 DEF Holding
  <2> QED BY <2>1, CountAdded
<1>14. Cardinality((HC \cup paid) \ back) = Cardinality(HC \cup paid) - Cardinality(back)
  BY <1>5, CountRemoved
<1>15. /\ Cardinality(paid) \in Nat /\ Cardinality(freed) \in Nat /\ Cardinality(back) \in Nat
       /\ Cardinality(kept) \in Nat /\ Cardinality(HR) \in Nat /\ Cardinality(HC) \in Nat
  BY <1>2, SubsetFinite
<1>16. reserved = Cardinality(HR) /\ consumed = Cardinality(HC) /\ reserved + consumed <= Capacity
  BY <1>4 DEF BillingInv, CapacityIsKept
<1>17. (paid \cup freed) \cap HR = paid \cup freed
  BY <1>5
<1>18. /\ reserved1 = Cardinality(HR) - Cardinality(paid) - Cardinality(freed)
       /\ consumed1 = Cardinality(HC) + Cardinality(paid)
  <2>1. (Paid(fs, fl) \cup Freed(fs, fl)) \cap Holding("RESERVED") = paid \cup freed
    BY <1>3, <1>4, <1>17
  <2>2. reserved1 = Cardinality(HR) - Cardinality(paid \cup freed)
    BY <1>2, <1>16, <2>1
  <2>3. consumed1 = Cardinality(HC) + Cardinality(paid)
    BY <1>2, <1>3, <1>16
  <2> QED BY <1>9, <1>15, <2>2, <2>3
<1>19. /\ reserved' = Cardinality(Holding("RESERVED")') /\ consumed' = Cardinality(Holding("CONSUMED")')
       /\ reserved' \in Int /\ consumed' \in Int
  <2>1. /\ reserved' = reserved1 + Cardinality(back) + Cardinality(kept)
        /\ consumed' = consumed1 - Cardinality(back)
    BY <1>2, <1>3
  <2>2. Cardinality(Holding("RESERVED")')
          = (Cardinality(HR) - (Cardinality(paid) + Cardinality(freed))) + (Cardinality(back) + Cardinality(kept))
    BY <1>8, <1>9, <1>10, <1>11, <1>12
  <2>3. Cardinality(Holding("CONSUMED")') = (Cardinality(HC) + Cardinality(paid)) - Cardinality(back)
    BY <1>8, <1>13, <1>14
  <2> QED BY <1>15, <1>18, <2>1, <2>2, <2>3
<1>20. reserved' + consumed' <= Capacity
  BY <1>2, <1>3, <1>15, <1>16, <1>18
<1> QED BY <1>7, <1>19, <1>20 DEF CapacityIsKept

(* whether an outcome is credited *)
Corrected(fs, fl, bound, moved, kept) ==
  {i \in Voided(fs, fl, bound) : fs[i].job \notin Owed(fs, fl, bound) \ (moved \cup kept)}

LEMMA ChargeType ==
  ASSUME NEW f \in Facts
  PROVE  Charged(f) \in Facts /\ Credited(f) \in Facts
<1>1. PICK d \in 0 .. Price : d = IF f.applied THEN Price ELSE 0
  BY PriceAssumption
<1>2. [f EXCEPT !.receipt = "live", !.due = d] \in Facts
  BY DEF Facts
<1>3. [f EXCEPT !.receipt = "retracted", !.due = 0] \in Facts
  <2>1. PICK z \in 0 .. Price : z = 0
    BY PriceAssumption
  <2>2. [f EXCEPT !.receipt = "retracted", !.due = z] \in Facts
    BY DEF Facts
  <2> QED BY <2>1, <2>2
<1> QED BY <1>1, <1>2, <1>3 DEF Charged, Credited

(* what becomes of an outcome *)
LEMMA Written ==
  ASSUME BillingInv, NEW fs, Survives(fs), NEW fl \in Nat, NEW bound, NEW moved, NEW kept,
         Reconcilable(fs, fl, bound), Writes(fs, fl, bound, moved, kept)
  PROVE  /\ DOMAIN facts' = DOMAIN facts /\ facts' \in Seq(Facts)
         /\ \A i \in DOMAIN facts :
              /\ facts'[i] \in Facts
              /\ facts'[i].job = fs[i].job /\ facts'[i].applied = fs[i].applied
              /\ facts'[i].height = fs[i].height /\ facts'[i].canonical = fs[i].canonical
              /\ i \notin Alive(fs, fl) => facts'[i] = fs[i]
              /\ i \in Corrected(fs, fl, bound, moved, kept) =>
                   facts'[i].receipt = "retracted" /\ facts'[i].due = 0
              /\ i \in Alive(fs, fl) \ Corrected(fs, fl, bound, moved, kept) =>
                   /\ facts'[i].receipt = "live"
                   /\ facts'[i].due = IF i \in Unbilled(fs, fl) THEN IF fs[i].applied THEN Price ELSE 0
                                      ELSE fs[i].due
<1> DEFINE out(i) == facts'[i]
<1>0. PICK n \in Nat : DOMAIN facts = 1 .. n /\ n = Len(facts)
  BY FactType DEF BillingInv
<1>1. DOMAIN facts' = DOMAIN facts /\ facts' = [i \in 1 .. n |-> facts'[i]]
  BY <1>0 DEF Writes, Survives
<1>2. ASSUME NEW i \in DOMAIN facts
      PROVE  /\ facts'[i] \in Facts
             /\ facts'[i].job = fs[i].job /\ facts'[i].applied = fs[i].applied
             /\ facts'[i].height = fs[i].height /\ facts'[i].canonical = fs[i].canonical
             /\ i \notin Alive(fs, fl) => facts'[i] = fs[i]
             /\ i \in Corrected(fs, fl, bound, moved, kept) =>
                  facts'[i].receipt = "retracted" /\ facts'[i].due = 0
             /\ i \in Alive(fs, fl) \ Corrected(fs, fl, bound, moved, kept) =>
                  /\ facts'[i].receipt = "live"
                  /\ facts'[i].due = IF i \in Unbilled(fs, fl) THEN IF fs[i].applied THEN Price ELSE 0
                                     ELSE fs[i].due
  <2>1. fs[i] \in Facts
    BY SurvivorType
  <2>2. PICK b \in Facts : b = IF i \in Unbilled(fs, fl) THEN Charged(fs[i]) ELSE fs[i]
    <3>1. Charged(fs[i]) \in Facts
      BY <2>1, ChargeType
    <3> QED BY <2>1, <3>1
  <2>3. /\ b.job = fs[i].job /\ b.applied = fs[i].applied /\ b.height = fs[i].height
        /\ b.canonical = fs[i].canonical
        /\ i \in Unbilled(fs, fl) => b.receipt = "live" /\ b.due = IF fs[i].applied THEN Price ELSE 0
        /\ i \notin Unbilled(fs, fl) => b = fs[i]
    BY <2>1, <2>2 DEF Charged, Facts
  <2>4. PICK c \in Facts : c = Credited(b)
    BY ChargeType
  <2>5. /\ c.job = b.job /\ c.applied = b.applied /\ c.height = b.height /\ c.canonical = b.canonical
        /\ c.receipt = "retracted" /\ c.due = 0
    BY <2>4 DEF Credited, Facts
  <2>6. facts'[i] = IF i \in Corrected(fs, fl, bound, moved, kept) THEN c ELSE b
    BY <2>2, <2>4 DEF Writes, Corrected, Survives
  <2>7. Corrected(fs, fl, bound, moved, kept) \subseteq Alive(fs, fl)
    BY VoidBooked DEF Corrected
  <2>8. i \in Alive(fs, fl) => fs[i].receipt = "live" \/ i \in Unbilled(fs, fl)
    BY DEF Alive
  <2>9. Unbilled(fs, fl) \subseteq Alive(fs, fl)
    BY SurvivorType
  <2> QED BY <2>3, <2>5, <2>6, <2>7, <2>8, <2>9
<1>3. \A i \in 1 .. n : facts'[i] \in Facts
  BY <1>0, <1>2
<1>4. facts' \in Seq(Facts)
  BY <1>1, <1>3
<1> QED BY <1>1, <1>2, <1>4

(* an outcome that stays charged: the chain says it still, and what is due is due once *)
LEMMA StillJustified ==
  ASSUME BillingInv, NEW fs, Survives(fs), NEW fl \in Nat, floor <= fl, NEW bound, Binds(bound),
         NEW moved, NEW kept,
         Reconcilable(fs, fl, bound), Writes(fs, fl, bound, moved, kept),
         floor' = fl, member' = bound, job' = job, NEW i \in DOMAIN facts
  PROVE  Justified(i)'
<1>0. /\ DOMAIN facts' = DOMAIN facts
      /\ \A k \in DOMAIN facts :
              /\ facts'[k] \in Facts
              /\ facts'[k].job = fs[k].job /\ facts'[k].applied = fs[k].applied
              /\ facts'[k].height = fs[k].height /\ facts'[k].canonical = fs[k].canonical
              /\ k \notin Alive(fs, fl) => facts'[k] = fs[k]
              /\ k \in Corrected(fs, fl, bound, moved, kept) =>
                   facts'[k].receipt = "retracted" /\ facts'[k].due = 0
              /\ k \in Alive(fs, fl) \ Corrected(fs, fl, bound, moved, kept) =>
                   /\ facts'[k].receipt = "live"
                   /\ facts'[k].due = IF k \in Unbilled(fs, fl) THEN IF fs[k].applied THEN Price ELSE 0
                                      ELSE fs[k].due
  BY Written
<1>1. facts'[i].due \in 0 .. Price
  BY <1>0 DEF Facts
<1> SUFFICES ASSUME facts'[i].due > 0
             PROVE  /\ facts'[i].canonical /\ facts'[i].applied /\ facts'[i].receipt = "live"
                    /\ facts'[i].height <= floor'
                    /\ Linked(facts, facts[i].job, member)'
                    /\ \A k \in DOMAIN facts' \ {i} : facts'[k].job = facts'[i].job => facts'[k].due = 0
  BY <1>1 DEF Justified
<1>2. \A k \in DOMAIN facts : k \notin Alive(fs, fl) => facts'[k].due = 0
  <2> SUFFICES ASSUME NEW k \in DOMAIN facts, k \notin Alive(fs, fl) PROVE facts'[k].due = 0
    OBVIOUS
  <2>1. facts'[k].due = facts[k].due /\ facts[k].receipt # "live" /\ facts[k] \in Facts
    BY <1>0, FactType DEF Alive, Survives, BillingInv
  <2>2. Justified(k)
    BY EachIsJustified DEF BillingInv
  <2> QED BY <2>1, <2>2 DEF Justified, Facts
<1>3. i \in Alive(fs, fl) /\ i \notin Corrected(fs, fl, bound, moved, kept)
  BY <1>0, <1>2
<1>4. fs[i].applied /\ fs[i].height <= fl
  <2>1. CASE i \in Unbilled(fs, fl)
    BY <1>0, <1>3, <2>1, SurvivorType
  <2>2. CASE i \notin Unbilled(fs, fl)
    <3>1. facts[i].due > 0 /\ facts[i].applied = fs[i].applied /\ facts[i].height = fs[i].height
      BY <1>0, <1>3, <2>2 DEF Survives
    <3>2. Justified(i) /\ facts[i] \in Facts /\ floor \in Nat
      BY EachIsJustified, FactType DEF BillingInv, Typed
    <3> QED BY <3>1, <3>2 DEF Justified, Facts
  <2> QED BY <2>1, <2>2
<1>5. i \notin Voided(fs, fl, bound)
  <2> SUFFICES ASSUME i \in Voided(fs, fl, bound) PROVE FALSE
    OBVIOUS
  <2>1. fs[i].job \in Owed(fs, fl, bound)
    BY <1>3 DEF Corrected
  <2>2. PICK k \in Voided(fs, fl, bound) : fs[k].job = fs[i].job /\ fs[k].applied = FALSE
    BY <2>1 DEF Owed, JobsIn
  <2>3. k = i
    BY <1>3, <2>2, VoidBooked, AliveOnce
  <2> QED BY <1>4, <2>2, <2>3
<1>6. fs[i].canonical /\ Linked(fs, fs[i].job, bound)
  BY <1>3, <1>5 DEF Voided, Void, Alive
<1>7. fs[i].job \in Jobs /\ member[fs[i].job] # NotBound
  BY <1>3, SurvivorType
<1>8. Linked(facts, facts[i].job, member)'
  <2>1. bound[fs[i].job] = member[fs[i].job] /\ JobIsSound(fs[i].job)
    BY <1>7 DEF Binds, BillingInv, QueueInv
  <2>2. job[fs[i].job].terms.allocated => bound[fs[i].job] \in DOMAIN facts
    BY <1>7, <2>1 DEF JobIsSound
  <2> QED BY <1>0, <1>6, <2>2 DEF Linked
<1>9. \A k \in DOMAIN facts' \ {i} : facts'[k].job = facts'[i].job => facts'[k].due = 0
  <2> SUFFICES ASSUME NEW k \in DOMAIN facts, k # i, fs[k].job = fs[i].job PROVE facts'[k].due = 0
    BY <1>0
  <2>1. k \notin Alive(fs, fl)
    BY <1>3, AliveOnce
  <2> QED BY <1>2, <2>1
<1> QED BY <1>0, <1>3, <1>4, <1>6, <1>8, <1>9

(* the quantity of a job whose outcome is neither charged nor due stays as it was *)
LEMMA Undisturbed ==
  ASSUME BillingInv, NEW fs, Survives(fs), NEW fl \in Nat, NEW bound, NEW moved, NEW kept,
         Reconcilable(fs, fl, bound), Writes(fs, fl, bound, moved, kept), NEW j \in Jobs,
         ~Sponsored(j) \/ \A i \in Alive(fs, fl) : fs[i].job # j
  PROVE  reservation'[j] = reservation[j]
<1>1. j \notin Paid(fs, fl) /\ j \notin Freed(fs, fl)
  BY SurvivorType DEF Paid, Freed, JobsIn
<1>2. j \notin Back(fs, fl, bound) /\ j \notin Owed(fs, fl, bound)
  BY VoidBooked DEF Back, Owed, JobsIn
<1>3. j \notin kept /\ j \notin moved
  BY <1>2 DEF Writes
<1>4. Booked(fs, fl)[j] = reservation[j]
  BY <1>1 DEF Booked
<1> QED BY <1>2, <1>3, <1>4 DEF Writes

(* the one outcome of a sponsored job, and its quantity *)
LEMMA StillFollows ==
  ASSUME BillingInv, NEW fs, Survives(fs), NEW fl \in Nat, NEW bound, NEW moved, NEW kept,
         Reconcilable(fs, fl, bound), Writes(fs, fl, bound, moved, kept), job' = job,
         NEW j \in Jobs
  PROVE  Follows(j)'
<1>1. /\ DOMAIN facts' = DOMAIN facts /\ Alive(fs, fl) \subseteq DOMAIN facts
      /\ \A k \in DOMAIN facts :
              /\ facts'[k].job = fs[k].job /\ facts'[k].applied = fs[k].applied
              /\ k \notin Alive(fs, fl) => facts'[k].receipt # "live"
              /\ k \in Corrected(fs, fl, bound, moved, kept) => facts'[k].receipt = "retracted"
              /\ k \in Alive(fs, fl) \ Corrected(fs, fl, bound, moved, kept) => facts'[k].receipt = "live"
  BY Written, SurvivorType DEF Alive, Survives
<1>2. Follows(j) /\ JobIsSound(j)
  BY DEF BillingInv, QueueInv
<1>3. CASE ~Sponsored(j)
  <2>1. reservation'[j] = "none"
    BY <1>2, <1>3, Undisturbed DEF JobIsSound
  <2> QED BY <2>1 DEF Follows
<1>4. CASE Sponsored(j) /\ \A i \in Alive(fs, fl) : fs[i].job # j
  <2>1. reservation'[j] = reservation[j]
    BY <1>4, Undisturbed
  <2>2. \A a \in BOOLEAN : Receipts(j, a)' = {}
    BY <1>1, <1>4 DEF Receipts
  <2>3. \A a \in BOOLEAN : Receipts(j, a) = {}
    BY <1>4 DEF Receipts, Alive, Survives
  <2> QED BY <1>2, <2>1, <2>2, <2>3 DEF Follows
<1>5. ASSUME NEW i \in Alive(fs, fl), Sponsored(j), fs[i].job = j
      PROVE  Follows(j)'
  <2>1. /\ i \in DOMAIN facts /\ job[j].status = "DONE" /\ fs[i].applied \in BOOLEAN
        /\ Booked(fs, fl)[j] = IF fs[i].applied THEN "CONSUMED" ELSE "RELEASED"
    BY <1>5, AliveBooked, SurvivorType DEF Facts
  <2>2. \A k \in Alive(fs, fl) : fs[k].job = j => k = i
    BY <1>5, AliveOnce
  <2>3. /\ j \in Back(fs, fl, bound) <=> i \in Voided(fs, fl, bound) /\ fs[i].applied = TRUE
        /\ j \in Owed(fs, fl, bound) <=> i \in Voided(fs, fl, bound) /\ fs[i].applied = FALSE
    <3>1. Voided(fs, fl, bound) \subseteq Alive(fs, fl)
      BY VoidBooked
    <3>2. \A k \in Voided(fs, fl, bound) : fs[k].job = j => k = i
      BY <2>2, <3>1
    <3> QED BY <1>5, <3>2 DEF Back, Owed, JobsIn
  <2>4. \A a \in BOOLEAN : Receipts(j, a)' =
          IF i \notin Corrected(fs, fl, bound, moved, kept) /\ fs[i].applied = a THEN {i} ELSE {}
    <3> SUFFICES ASSUME NEW a \in BOOLEAN, NEW k
                 PROVE  k \in Receipts(j, a)' <=>
                          k = i /\ i \notin Corrected(fs, fl, bound, moved, kept) /\ fs[i].applied = a
      OBVIOUS
    <3>1. k \in Receipts(j, a)' <=> /\ k \in DOMAIN facts /\ fs[k].job = j /\ fs[k].applied = a
                                   /\ facts'[k].receipt = "live"
      BY <1>1 DEF Receipts
    <3>2. CASE k \in DOMAIN facts /\ fs[k].job = j /\ k # i
      BY <1>1, <2>2, <3>1, <3>2
    <3>3. CASE k = i
      BY <1>1, <1>5, <2>1, <3>1, <3>3
    <3>4. CASE ~(k \in DOMAIN facts /\ fs[k].job = j)
      BY <1>5, <2>1, <3>1, <3>4
    <3> QED BY <3>2, <3>3, <3>4
  <2>5. reservation'[j] = IF j \in Back(fs, fl, bound) \cup kept THEN "RESERVED"
                          ELSE IF j \in moved THEN "TRANSFERRED" ELSE Booked(fs, fl)[j]
    BY DEF Writes
  <2>6. kept \subseteq Owed(fs, fl, bound) \ moved /\ moved \subseteq Owed(fs, fl, bound)
    BY DEF Writes
  <2>7. i \in Corrected(fs, fl, bound, moved, kept) <=>
          /\ i \in Voided(fs, fl, bound)
          /\ j \notin Owed(fs, fl, bound) \ (moved \cup kept)
    BY <1>5 DEF Corrected
  <2>8. CASE i \notin Voided(fs, fl, bound)
    <3>1. reservation'[j] = IF fs[i].applied THEN "CONSUMED" ELSE "RELEASED"
      BY <2>1, <2>3, <2>5, <2>6, <2>8
    <3> QED BY <2>1, <2>4, <2>7, <2>8, <3>1 DEF Follows
  <2>9. CASE i \in Voided(fs, fl, bound) /\ fs[i].applied = TRUE
    <3>1. reservation'[j] = "RESERVED" /\ i \in Corrected(fs, fl, bound, moved, kept)
      BY <2>3, <2>5, <2>7, <2>9
    <3> QED BY <2>1, <2>4, <3>1 DEF Follows
  <2>10. CASE i \in Voided(fs, fl, bound) /\ fs[i].applied = FALSE
    <3>1. j \in Owed(fs, fl, bound) /\ j \notin Back(fs, fl, bound)
      BY <2>3, <2>10
    <3>2. CASE j \in kept
      <4>1. reservation'[j] = "RESERVED" /\ i \in Corrected(fs, fl, bound, moved, kept)
        BY <2>5, <2>7, <2>10, <3>2
      <4> QED BY <2>1, <2>4, <4>1 DEF Follows
    <3>3. CASE j \in moved
      <4>1. reservation'[j] = "TRANSFERRED" /\ i \in Corrected(fs, fl, bound, moved, kept)
        BY <2>5, <2>6, <2>7, <2>10, <3>1, <3>3
      <4>2. \E k \in Jobs : job'[k].retryOf = j
        BY <3>3 DEF Writes, RetriedBy
      <4> QED BY <2>4, <4>1, <4>2 DEF Follows
    <3>4. CASE j \notin kept /\ j \notin moved
      <4>1. reservation'[j] = "RELEASED" /\ i \notin Corrected(fs, fl, bound, moved, kept)
        BY <2>1, <2>5, <2>7, <2>10, <3>1, <3>4
      <4> QED BY <2>4, <2>10, <4>1 DEF Follows
    <3> QED BY <3>2, <3>3, <3>4
  <2> QED BY <2>1, <2>8, <2>9, <2>10
<1> QED BY <1>3, <1>4, <1>5

(* What the transaction writes is sound again, whatever was rolled back, wherever the floor
   went and whichever manifest it registered. *)
LEMMA ReconcileStep ==
  ASSUME BillingInv, NEW fs, Survives(fs), NEW fl \in Nat, floor <= fl, NEW bound, Binds(bound),
         Reconcile(fs, fl, bound), floor' = fl, member' = bound, UNCHANGED queue
  PROVE  BillingInv'
<1>1. Reconcilable(fs, fl, bound) /\ UNCHANGED <<job, live, gpu>>
  BY Unfolds DEF queue
<1>2. PICK moved, kept : Writes(fs, fl, bound, moved, kept)
  BY Unfolds
<1>3. /\ CapacityIsKept' /\ reserved' \in Int /\ consumed' \in Int
      /\ reservation' \in [Jobs -> {"none", "RESERVED", "CONSUMED", "RELEASED", "TRANSFERRED"}]
  BY CountsAgree
<1>4. \A j \in Jobs : Follows(j)'
  BY <1>1, <1>2, StillFollows
<1>5. /\ DOMAIN facts' = DOMAIN facts /\ facts' \in Seq(Facts)
      /\ \A i \in DOMAIN facts :
              /\ facts'[i].job = fs[i].job /\ facts'[i].height = fs[i].height
              /\ facts'[i].canonical = fs[i].canonical
              /\ i \notin Alive(fs, fl) => facts'[i] = fs[i]
  BY <1>1, <1>2, Written
<1>6. ChargeIsJustified'
  <2>1. \A i \in DOMAIN facts : Justified(i)'
    BY <1>1, <1>2, StillJustified
  <2> QED BY <1>5, <2>1 DEF ChargeIsJustified, Justified
<1>7. Typed'
  <2>1. QueueTypeOK'
    BY <1>1, <1>3 DEF QueueTypeOK, BillingInv, Typed
  <2>2. PICK b \in Nat : \A i \in DOMAIN facts : facts[i].height <= b
    BY DEF BillingInv, Typed
  <2>3. \A i \in DOMAIN facts' : facts'[i].height <= b
    BY <1>5, <2>2 DEF Survives
  <2> QED BY <1>5, <2>1, <2>3 DEF Typed, Binds
<1>8. QueueInv'
  <2>1. LeasesAgree'
    BY <1>1 DEF BillingInv, QueueInv, LeasesAgree, WithStatus
  <2>2. ASSUME NEW j \in Jobs PROVE JobIsSound(j)'
    <3>1. JobIsSound(j) /\ (bound[j] = member[j] \/ (job[j].status = "DONE"
            /\ (job[j].terms.allocated => bound[j] \in DOMAIN facts)))
      BY DEF BillingInv, QueueInv, Binds
    <3>2. CASE job[j].status = "DONE" /\ Sponsored(j)
      <4>1. reservation'[j] # "none"
        <5>1. reservation[j] # "none"
          BY <3>1, <3>2 DEF JobIsSound
        <5>2. Booked(fs, fl)[j] # "none"
          BY <5>1 DEF Booked
        <5> QED BY <1>2, <5>2 DEF Writes
      <4> QED BY <1>1, <1>5, <3>1, <3>2, <4>1 DEF JobIsSound, Sponsored
    <3>3. CASE job[j].status # "DONE" \/ ~Sponsored(j)
      <4>1. reservation'[j] = reservation[j]
        BY <1>1, <1>2, <3>3, SurvivorType, Undisturbed
      <4> QED BY <1>1, <1>5, <3>1, <3>3, <4>1 DEF JobIsSound, Sponsored
    <3> QED BY <3>2, <3>3
  <2> QED BY <2>1, <2>2 DEF QueueInv
<1>9. OutcomesAreSound(facts)'
  <2>1. \A i \in DOMAIN facts : facts'[i].receipt = "live" => i \in Alive(fs, fl)
    BY <1>5 DEF Alive, Survives
  <2>2. ASSUME NEW i \in DOMAIN facts, IsOutcome(facts'[i]) PROVE bound[facts'[i].job] # NotBound
    <3>1. facts'[i].job = facts[i].job /\ IsOutcome(facts[i]) /\ member[facts[i].job] # NotBound
      BY <1>5, <2>2 DEF Survives, IsOutcome, BillingInv, OutcomesAreSound
    <3>2. facts[i].job \in Jobs
      BY <3>1, FactType DEF BillingInv, Facts, IsOutcome
    <3> QED BY <3>1, <3>2 DEF Binds
  <2>3. ASSUME NEW i \in DOMAIN facts, facts'[i].receipt # "none" PROVE IsOutcome(facts'[i])
    <3>1. CASE i \in Alive(fs, fl)
      BY <1>5, <3>1, SurvivorType DEF IsOutcome
    <3>2. CASE i \notin Alive(fs, fl)
      BY <1>5, <2>3, <3>2 DEF Survives, IsOutcome, BillingInv, OutcomesAreSound
    <3> QED BY <3>1, <3>2
  <2>4. ASSUME NEW i \in DOMAIN facts, NEW k \in DOMAIN facts, facts'[i].job = facts'[k].job,
               IsOutcome(facts'[i]), facts'[i].canonical, facts'[k].canonical
        PROVE  i = k
    BY <1>5, <2>4 DEF Survives, IsOutcome, BillingInv, OutcomesAreSound
  <2>5. ASSUME NEW i \in DOMAIN facts, NEW k \in DOMAIN facts, facts'[i].job = facts'[k].job,
               facts'[i].receipt = "live", facts'[k].receipt = "live"
        PROVE  i = k
    BY <1>1, <1>5, <2>1, <2>5, AliveOnce
  <2> QED BY <1>5, <2>2, <2>3, <2>4, <2>5 DEF OutcomesAreSound
<1> QED BY <1>3, <1>4, <1>6, <1>7, <1>8, <1>9 DEF BillingInv

LEMMA NothingDropped ==
  ASSUME BillingInv
  PROVE  Survives(facts) /\ Binds(member)
BY DEF BillingInv, Typed, Survives, Binds

LEMMA DroppedSurvives ==
  ASSUME BillingInv, NEW h \in Nat
  PROVE  Survives(Dropped(facts, h))
<1>1. PICK n \in Nat : DOMAIN facts = 1 .. n /\ facts \in Seq(Facts) /\ \A i \in 1 .. n : facts[i] \in Facts
  BY FactType DEF BillingInv, Typed
<1>2. PICK fs : fs = Dropped(facts, h)
  OBVIOUS
<1>3. /\ fs = [i \in 1 .. n |-> fs[i]]
      /\ \A i \in 1 .. n : fs[i] = IF facts[i].height > h THEN [facts[i] EXCEPT !.canonical = FALSE] ELSE facts[i]
  BY <1>1, <1>2 DEF Dropped
<1>4. \A i \in 1 .. n : /\ fs[i] \in Facts
                        /\ fs[i].job = facts[i].job /\ fs[i].applied = facts[i].applied
                        /\ fs[i].height = facts[i].height /\ fs[i].receipt = facts[i].receipt
                        /\ fs[i].due = facts[i].due /\ (fs[i].canonical => facts[i].canonical)
  <2> SUFFICES ASSUME NEW i \in 1 .. n
               PROVE  /\ fs[i] \in Facts
                      /\ fs[i].job = facts[i].job /\ fs[i].applied = facts[i].applied
                      /\ fs[i].height = facts[i].height /\ fs[i].receipt = facts[i].receipt
                      /\ fs[i].due = facts[i].due /\ (fs[i].canonical => facts[i].canonical)
    OBVIOUS
  <2>1. PICK f \in Facts : f = facts[i]
    BY <1>1
  <2>2. PICK g \in Facts : g = [f EXCEPT !.canonical = FALSE]
    BY DEF Facts
  <2>3. /\ g.job = f.job /\ g.applied = f.applied /\ g.height = f.height /\ g.receipt = f.receipt
        /\ g.due = f.due /\ g.canonical = FALSE
    BY <2>2 DEF Facts
  <2>4. fs[i] = g \/ fs[i] = f
    BY <1>3, <2>1, <2>2
  <2> QED BY <2>1, <2>3, <2>4
<1>5. fs \in Seq(Facts) /\ DOMAIN fs = 1 .. n
  BY <1>3, <1>4
<1> QED BY <1>1, <1>2, <1>4, <1>5 DEF Survives

LEMMA RegisterStep ==
  ASSUME BillingInv, NEW j \in Jobs, Register(j)
  PROVE  BillingInv'
<1> DEFINE latest == IF job[j].terms.allocated
                     THEN CHOOSE i \in Allocations(facts) : \A k \in Allocations(facts) : k <= i
                     ELSE NoAllocation
<1> HIDE DEF latest
<1>1. PICK bound : bound = [member EXCEPT ![j] = latest]
  OBVIOUS
<1>2. /\ job[j].status = "DONE" /\ member[j] = NotBound
      /\ job[j].terms.allocated => Allocations(facts) # {}
      /\ member' = bound /\ Reconcile(facts, floor, bound) /\ floor' = floor /\ UNCHANGED queue
  BY <1>1 DEF Register, latest
<1>3. PICK n \in Nat : DOMAIN facts = 1 .. n
  BY FactType DEF BillingInv
<1>4. job[j].terms.allocated => latest \in DOMAIN facts
  <2> SUFFICES ASSUME job[j].terms.allocated PROVE latest \in DOMAIN facts
    OBVIOUS
  <2>1. Allocations(facts) \in SUBSET Nat /\ Allocations(facts) # {} /\ \A i \in Allocations(facts) : i <= n
        /\ Allocations(facts) \subseteq DOMAIN facts
    BY <1>2, <1>3 DEF Allocations, Canonical
  <2>2. \E i \in Allocations(facts) : \A k \in Allocations(facts) : k <= i
    BY <2>1, NatMax
  <2>3. (CHOOSE i \in Allocations(facts) : \A k \in Allocations(facts) : k <= i) \in Allocations(facts)
    BY <2>2
  <2> QED BY <2>1, <2>3 DEF latest
<1>5. latest \in Int
  BY <1>3, <1>4 DEF NoAllocation, latest
<1>6. Binds(bound)
  BY <1>1, <1>2, <1>4, <1>5 DEF Binds, BillingInv, Typed
<1>7. floor \in Nat
  BY DEF BillingInv, Typed
<1> QED BY <1>2, <1>6, <1>7, NothingDropped, ReconcileStep

(* the steps of the chain *)
LEMMA ChainStep ==
  ASSUME BillingInv, AdvanceFloor \/ Rollback \/ Surprise \/ FinalizeRecovery
  PROVE  BillingInv'
<1>1. Survives(facts) /\ Binds(member) /\ floor \in Nat /\ Top(facts) \in Nat
  BY NothingDropped, TopIsMax DEF BillingInv, Typed
<1>2. UNCHANGED <<queue, member>>
  BY DEF AdvanceFloor, Rollback, Surprise, FinalizeRecovery
<1>3. \E fs : \E fl \in Nat :
        Survives(fs) /\ floor <= fl /\ floor' = fl /\ Reconcile(fs, fl, member)
  <2>1. CASE AdvanceFloor
    <3>1. PICK h \in floor .. Top(facts) : floor' = h /\ Reconcile(facts, h, member)
      BY <2>1 DEF AdvanceFloor
    <3>2. h \in Nat /\ floor <= h
      BY <1>1
    <3> QED BY <1>1, <3>1, <3>2
  <2>2. CASE Rollback
    <3>1. PICK h \in floor .. Top(facts) - 1 : Reconcile(Dropped(facts, h), floor, member)
      BY <2>2 DEF Rollback
    <3>2. h \in Nat /\ floor <= floor /\ floor' = floor
      BY <1>1, <2>2 DEF Rollback
    <3> QED BY <1>1, <3>1, <3>2, DroppedSurvives
  <2>3. CASE Surprise
    <3>1. PICK h \in 0 .. floor - 1 : Reconcile(Dropped(facts, h), floor, member)
      BY <2>3 DEF Surprise
    <3>2. h \in Nat /\ floor <= floor /\ floor' = floor
      BY <1>1, <2>3 DEF Surprise
    <3> QED BY <1>1, <3>1, <3>2, DroppedSurvives
  <2>4. CASE FinalizeRecovery
    <3>1. PICK top \in Nat : top = Top(facts)
      BY <1>1
    <3>2. PICK h : h = IF top > floor THEN top ELSE floor
      OBVIOUS
    <3>3. h \in Nat /\ floor <= h
      BY <1>1, <3>2
    <3>4. floor' = h /\ Reconcile(facts, h, member)
      BY <2>4, <3>1, <3>2 DEF FinalizeRecovery
    <3> QED BY <1>1, <3>3, <3>4
  <2> QED BY <2>1, <2>2, <2>3, <2>4
<1> QED BY <1>1, <1>2, <1>3, ReconcileStep

-----------------------------------------------------------------------------
(* The invariant holds. *)

LEMMA BillingInit ==
  ASSUME Init
  PROVE  BillingInv
<1>1. /\ job = [j \in Jobs |-> NewJob] /\ live = {} /\ gpu = NoJob
      /\ reservation = [j \in Jobs |-> "none"] /\ reserved = 0 /\ consumed = 0
      /\ facts = <<>> /\ floor = 0 /\ member = [j \in Jobs |-> NotBound]
  BY DEF Init, QueueInit
<1>2. /\ facts \in Seq(Facts) /\ DOMAIN facts = {} /\ NotBound \in Int
  BY <1>1, EmptySeq DEF NotBound
<1>3. NewJob \in JobRows /\ NewJob.status = "none" /\ NewJob.owner = NoNode
      /\ NewJob.terms.sponsored = FALSE
  BY DEF NewJob, NoTerms, JobRows, Terms
<1>4. QueueTypeOK
  <2> HIDE DEF NewJob
  <2> QED BY <1>1, <1>3 DEF QueueTypeOK, JobRows, Terms
<1>5. Typed
  BY <1>1, <1>2, <1>4 DEF Typed
<1>6. QueueInv
  <2>1. LeasesAgree
    BY <1>1, <1>3 DEF LeasesAgree, WithStatus
  <2>2. \A j \in Jobs : JobIsSound(j)
    <3> HIDE DEF NewJob
    <3> QED BY <1>1, <1>3 DEF JobIsSound, Sponsored
  <2> QED BY <2>1, <2>2 DEF QueueInv
<1>7. CapacityIsKept
  <2>1. Holding("RESERVED") = {} /\ Holding("CONSUMED") = {}
    BY <1>1 DEF Holding
  <2>2. Cardinality(Holding("RESERVED")) = 0 /\ Cardinality(Holding("CONSUMED")) = 0
    BY <2>1, FS_EmptySet
  <2> QED BY <1>1, <2>2 DEF CapacityIsKept
<1>8. \A j \in Jobs : Follows(j)
  BY <1>1 DEF Follows
<1>9. OutcomesAreSound(facts) /\ ChargeIsJustified
  BY <1>2 DEF OutcomesAreSound, ChargeIsJustified
<1> QED BY <1>5, <1>6, <1>7, <1>8, <1>9 DEF BillingInv

LEMMA BillingNext ==
  ASSUME BillingInv, [Next]_vars
  PROVE  BillingInv'
<1>1. CASE Queue
  BY <1>1, QueueStep
<1>2. CASE AllocationUsed
  BY <1>2, AllocationStep
<1>3. CASE AdvanceFloor \/ Rollback \/ Surprise \/ FinalizeRecovery
  BY <1>3, ChainStep
<1>4. ASSUME NEW j \in Jobs, SubmitJob(j) \/ Outcome(j) \/ RecordCost(j) \/ Register(j)
      PROVE  BillingInv'
  <2>1. CASE RecordCost(j)
    BY <2>1, SameKeeps DEF RecordCost
  <2> QED BY <1>4, <2>1, SubmitStep, OutcomeStep, RegisterStep
<1>5. ASSUME NEW i \in DOMAIN facts, Refund(i)
      PROVE  BillingInv'
  BY <1>5, RefundStep
<1>6. CASE UNCHANGED vars
  BY <1>6, SameKeeps DEF vars
<1> QED BY <1>1, <1>2, <1>3, <1>4, <1>5, <1>6 DEF Next

LEMMA BillingAlways == Spec => []BillingInv
<1>1. Init => BillingInv
  BY BillingInit
<1>2. BillingInv /\ [Next]_vars => BillingInv'
  BY BillingNext
<1> QED BY <1>1, <1>2, PTL DEF Spec

-----------------------------------------------------------------------------
(* Nothing the transaction tests for stands in the way, but what Stuck names. *)

LEMMA NotStuck ==
  ASSUME BillingInv, NEW fs, Survives(fs), NEW fl \in Nat, ~Stuck(fs)
  PROVE  Reconcilable(fs, fl, member)
<1>1. ASSUME NEW i \in Unbilled(fs, fl)
      PROVE  Billable(fs, i, member)
  <2>1. PICK j \in Jobs : j = fs[i].job
    BY SurvivorType
  <2>2. /\ i \in DOMAIN facts /\ i \in Canonical(fs) /\ facts[i].canonical /\ facts[i].job = j
        /\ fs[i].receipt = "none" /\ member[j] # NotBound /\ job[j].status = "DONE" /\ fs[i].applied \in BOOLEAN
    <3>1. i \in DOMAIN facts /\ fs[i] \in Facts /\ fs[i].canonical /\ fs[i].receipt = "none"
      BY SurvivorType
    <3>2. facts[i].canonical /\ facts[i].job = j /\ i \in Canonical(fs) /\ fs[i].applied \in BOOLEAN
      BY <2>1, <3>1 DEF Canonical, Survives, Facts
    <3>3. member[j] # NotBound /\ job[j].status = "DONE"
      BY <2>1, SurvivorType
    <3> QED BY <3>1, <3>2, <3>3
  <2>3. Linked(fs, j, member) /\ reservation[j] # "TRANSFERRED" /\ (job[j].terms.allocated => j \in costed)
    BY <2>1, <2>2 DEF Stuck, OutcomesOf
  <2>4. Active(fs, i) = {}
    <3> SUFFICES ASSUME NEW k \in Active(fs, i) PROVE FALSE
      OBVIOUS
    <3>1. k \in DOMAIN facts /\ fs[k].job = j /\ fs[k].receipt = "live" /\ k \in Canonical(fs)
      BY <2>1 DEF Active, Unbilled, Survives
    <3>2. facts[k].job = j /\ facts[k].canonical /\ IsOutcome(facts[i])
      BY <2>2, <3>1, JobsAssumption DEF Canonical, Survives, IsOutcome
    <3>3. k = i
      BY <2>2, <3>1, <3>2 DEF BillingInv, OutcomesAreSound
    <3> QED BY <2>2, <3>1, <3>3
  <2>5. Receipts(j, TRUE) = {} /\ Receipts(j, FALSE) = {}
    BY <2>1, <2>4 DEF Receipts, Active, Survives
  <2>6. Follows(j) /\ JobIsSound(j) /\ reservation[j] \in {"none", "RESERVED", "CONSUMED", "RELEASED", "TRANSFERRED"}
    BY DEF BillingInv, Typed, QueueTypeOK, QueueInv
  <2>7. Sponsored(j) => reservation[j] = "RESERVED"
    BY <2>2, <2>3, <2>5, <2>6 DEF Follows, JobIsSound
  <2>8. Payable(fs, i)
    <3>1. CASE ~Sponsored(j)
      <4>1. reservation[j] = "none"
        BY <2>6, <3>1 DEF JobIsSound
      <4> QED BY <2>1, <3>1, <4>1 DEF Payable
    <3>2. CASE Sponsored(j)
      BY <2>1, <2>7, <3>2 DEF Payable
    <3> QED BY <3>1, <3>2
  <2> QED BY <2>1, <2>3, <2>4, <2>8 DEF Billable
<1>2. ASSUME NEW j \in JobsIn(fs, Void(fs, Unbilled(fs, fl), member), TRUE),
             j \notin JobsIn(fs, Unbilled(fs, fl), TRUE)
      PROVE  reservation[j] = "CONSUMED"
  <2>1. j \in Jobs /\ Sponsored(j)
    BY DEF JobsIn
  <2>2. PICK i \in Void(fs, Unbilled(fs, fl), member) : fs[i].job = j /\ fs[i].applied = TRUE
    BY DEF JobsIn
  <2>3. i \in DOMAIN fs /\ fs[i].receipt = "live" /\ i \notin Unbilled(fs, fl)
    BY <1>2, <2>1, <2>2 DEF Void, JobsIn
  <2>4. i \in DOMAIN facts /\ facts[i].job = j /\ facts[i].applied = TRUE /\ facts[i].receipt = "live"
    BY <2>2, <2>3 DEF Survives
  <2>5. \A k \in DOMAIN facts : facts[k].job = j /\ facts[k].receipt = "live" => k = i
    BY <2>4 DEF BillingInv, OutcomesAreSound
  <2>6. i \in Receipts(j, TRUE) /\ Receipts(j, FALSE) = {}
    BY <2>4, <2>5 DEF Receipts
  <2>7. job[j].status = "DONE" /\ Follows(j) /\ JobIsSound(j)
        /\ reservation[j] \in {"none", "RESERVED", "CONSUMED", "RELEASED", "TRANSFERRED"}
    <3>1. i \in Alive(fs, fl)
      BY <2>3 DEF Alive
    <3>2. job[j].status = "DONE"
      BY <2>2, <3>1, SurvivorType
    <3>3. Follows(j) /\ JobIsSound(j)
      BY <2>1 DEF BillingInv, QueueInv
    <3>4. reservation[j] \in {"none", "RESERVED", "CONSUMED", "RELEASED", "TRANSFERRED"}
      BY <2>1 DEF BillingInv, Typed, QueueTypeOK
    <3> QED BY <3>2, <3>3, <3>4
  <2> QED BY <2>1, <2>6, <2>7 DEF Follows, JobIsSound
<1> QED BY <1>1, <1>2 DEF Reconcilable

LEMMA InvNotBlocked ==
  ASSUME BillingInv
  PROVE  FloorIsNotBlocked
<1>1. floor \in Nat /\ Top(facts) \in Nat /\ \A h \in floor .. Top(facts) : h \in Nat
  <2>1. PICK top \in Nat : top = Top(facts)
    BY TopIsMax DEF BillingInv
  <2>2. floor \in Nat /\ \A h \in floor .. top : h \in Nat
    BY DEF BillingInv, Typed
  <2> QED BY <2>1, <2>2
<1>2. ASSUME ~Stuck(facts), NEW h \in floor .. Top(facts)
      PROVE  Reconcilable(facts, h, member)
  BY <1>1, <1>2, NothingDropped, NotStuck
<1>3. ASSUME NEW h \in floor .. Top(facts), ~Stuck(Dropped(facts, h))
      PROVE  Reconcilable(Dropped(facts, h), floor, member)
  BY <1>1, <1>3, DroppedSurvives, NotStuck
<1> QED BY <1>2, <1>3 DEF FloorIsNotBlocked

-----------------------------------------------------------------------------
(* What is worth knowing. *)

(* The rows of the queue, its leases and its sponsorship keep their types, through every
   submission, lease, sweep, charge and correction. *)
THEOREM QueueTypeCorrect == Spec => []QueueTypeOK
<1>1. BillingInv => QueueTypeOK
  BY DEF BillingInv, Typed
<1> QED BY <1>1, BillingAlways, PTL

(* A node that may report on a job of the GPU holds the GPU row, and the row goes with its
   lease, for any number of nodes, jobs and expired leases (leaseProveJob,
   sweepProveLeases, completeProveJob). *)
THEOREM LeasesAgreeAlways == Spec => []LeasesAgree
<1>1. BillingInv => LeasesAgree
  BY DEF BillingInv, QueueInv
<1> QED BY <1>1, BillingAlways, PTL

(* The sponsor's counters are the sums of its reservations, stay within what was granted,
   and every reservation is booked as the chain's outcome says, through any number of
   retries, rollbacks, replays and rewrites of finalized blocks
   (reconcileAggregateBillingTx). *)
THEOREM ReservationsAreKeptAlways == Spec => []ReservationsAreKept
<1>1. BillingInv => ReservationsAreKept
  BY FollowsOutcome DEF BillingInv, ReservationsAreKept
<1> QED BY <1>1, BillingAlways, PTL

(* Nobody is ever charged twice for a job, or for an outcome the canonical chain does not
   hold at or below the floor (reconcileAggregateBillingTx, issueBillingRefund). *)
THEOREM ChargeIsJustifiedAlways == Spec => []ChargeIsJustified
<1>1. BillingInv => ChargeIsJustified
  BY DEF BillingInv
<1> QED BY <1>1, BillingAlways, PTL

(* Billing throws nothing at advanceCanonicalFloor or at a rollback, except in the three
   situations Stuck names. *)
THEOREM FloorIsNotBlockedAlways == Spec => []FloorIsNotBlocked
<1>1. BillingInv => FloorIsNotBlocked
  BY InvNotBlocked
<1> QED BY <1>1, BillingAlways, PTL
=============================================================================
