------------------------------ MODULE HostedQueue ------------------------------
(***************************************************************************)
(* The PostgreSQL prove queue (postgres-hosted-store.ts, behind            *)
(* prove-queue/postgres-queue-routes.ts): submission, leases, completion,  *)
(* failure and the sweep, with the GPU row and the sponsorship quantity    *)
(* each job holds. Every method is one transaction that first locks the    *)
(* coordinator's lease row (assertFence), hence one action.                *)
(* Which of the eligible jobs a node is given (deadlines, aging, virtual   *)
(* service) is left open; quantities are counted in jobs.                  *)
(***************************************************************************)
EXTENDS Integers, FiniteSets

CONSTANTS
  Jobs,
  Nodes,         \* prove nodes, all of them behind one GPU resource
  GpuJobs,       \* jobs whose proof profile needs the GPU
  NoJob, NoNode,
  Capacity,      \* maximum_quantity of the one sponsorship
  MaxAttempts,   \* max_attempts
  MaxConcurrent  \* max_concurrent_jobs of a node

ASSUME JobsAssumption == IsFiniteSet(Jobs) /\ GpuJobs \subseteq Jobs /\ NoJob \notin Jobs
ASSUME NodesAssumption == NoNode \notin Nodes
ASSUME LimitsAssumption == Capacity \in Nat /\ MaxAttempts \in Nat \ {0} /\ MaxConcurrent \in Nat \ {0}

VARIABLES
  job,          \* hosted_prove_jobs
  live,         \* leased jobs whose lease has neither expired nor lost its fence token
  gpu,          \* hosted_gpu_resource_leases: the job that has the GPU
  reservation,  \* hosted_sponsorship_reservations
  reserved, consumed   \* quantities of hosted_sponsorships

queue == <<job, live, gpu>>
sponsorship == <<reservation, reserved, consumed>>

NoTerms == [sponsored |-> FALSE, allocated |-> FALSE]
NewJob == [status |-> "none", attempts |-> 0, owner |-> NoNode, retryOf |-> NoJob, terms |-> NoTerms]

QueueInit ==
  /\ job = [j \in Jobs |-> NewJob] /\ live = {} /\ gpu = NoJob
  /\ reservation = [j \in Jobs |-> "none"] /\ reserved = 0 /\ consumed = 0

WithStatus(s) == {j \in Jobs : job[j].status = s}
Holding(s) == {j \in Jobs : reservation[j] = s}
Sponsored(j) == job[j].terms.sponsored
Fits(n) == consumed + reserved + n <= Capacity

-----------------------------------------------------------------------------
(* submitProveJob; a retry carries the terms of the job it names, and one job
   has one retry *)
Submit(j, terms, retryOf) ==
  /\ job[j].status = "none"
  /\ retryOf # NoJob => terms = job[retryOf].terms /\ \A k \in Jobs : job[k].retryOf # retryOf
  /\ job' = [job EXCEPT ![j] = [NewJob EXCEPT !.status = "QUEUED", !.terms = terms, !.retryOf = retryOf]]
  /\ IF terms.sponsored
     THEN /\ Fits(1)
          /\ reservation' = [reservation EXCEPT ![j] = "RESERVED"]
          /\ reserved' = reserved + 1 /\ UNCHANGED consumed
     ELSE UNCHANGED sponsorship
  /\ UNCHANGED <<live, gpu>>

(* what a job that failed for good still holds is returned *)
Release(S) ==
  LET back == S \cap Holding("RESERVED")
  IN /\ reservation' = [j \in Jobs |-> IF j \in back THEN "RELEASED" ELSE reservation[j]]
     /\ reserved' = reserved - Cardinality(back)
     /\ UNCHANGED consumed

(* a lease that expired, or that a former coordinator gave *)
Requeued(j) ==
  [job[j] EXCEPT !.status = IF job[j].attempts >= MaxAttempts THEN "FAILED" ELSE "QUEUED",
                 !.owner = NoNode]

Lost == WithStatus("LEASED") \ live
Swept == [j \in Jobs |-> IF j \in Lost THEN Requeued(j) ELSE job[j]]
NoneExhausted == {}
Exhausted == {j \in Lost : Swept[j].status = "FAILED"}
GpuKept == gpu
GpuAfterSweep == IF gpu \in Lost THEN NoJob ELSE gpu

(* sweepProveLeases, and leaseProveJob when it finds nothing for the node *)
Sweep ==
  /\ Lost # {}
  /\ job' = Swept /\ gpu' = GpuAfterSweep
  /\ Release(Exhausted)
  /\ UNCHANGED live

(* leaseProveJob: the sweep, then the GPU rows that expired, then a job. The clock moves
   on between the two, so the row of a lease the sweep found alive may go (late). *)
Lease(n) ==
  \E late \in SUBSET ({gpu} \cap live), j \in Jobs :
    LET held == {k \in live : job[k].owner = n}
        row == IF gpu \in late THEN NoJob ELSE GpuAfterSweep
    IN /\ Cardinality(held) < MaxConcurrent
       /\ Swept[j].status = "QUEUED"
       /\ j \in GpuJobs => row = NoJob /\ held \cap GpuJobs = {}
       /\ job' = [Swept EXCEPT ![j].status = "LEASED", ![j].owner = n, ![j].attempts = @ + 1]
       /\ live' = (live \ late) \cup {j}
       /\ gpu' = IF j \in GpuJobs THEN j ELSE row
       /\ Release(Exhausted)

(* a lease outlives its time, or another coordinator takes over and all do *)
Lapse ==
  /\ \/ \E j \in live : live' = live \ {j}
     \/ live # {} /\ live' = {}
  /\ UNCHANGED <<job, gpu, sponsorship>>

Reports(n, j) ==
  /\ j \in live /\ job[j].owner = n
  /\ j \in GpuJobs => gpu = j

Free(j) == IF gpu = j THEN NoJob ELSE gpu

(* completeProveJob: the quantity stays reserved until the outcome is final *)
Complete(n, j) ==
  /\ Reports(n, j)
  /\ job' = [job EXCEPT ![j].status = "DONE", ![j].owner = NoNode]
  /\ live' = live \ {j} /\ gpu' = Free(j)
  /\ UNCHANGED sponsorship

(* failProveJob *)
Fail(n, j) ==
  /\ Reports(n, j)
  /\ \E retryable \in BOOLEAN :
       LET again == retryable /\ job[j].attempts < MaxAttempts
       IN /\ job' = [job EXCEPT ![j].status = IF again THEN "QUEUED" ELSE "FAILED", ![j].owner = NoNode]
          /\ ~again /\ Sponsored(j) => reservation[j] = "RESERVED"
          /\ IF again THEN UNCHANGED sponsorship ELSE Release({j})
  /\ live' = live \ {j} /\ gpu' = Free(j)

QueueNext ==
  \/ Sweep \/ Lapse
  \/ \E n \in Nodes : Lease(n) \/ \E j \in Jobs : Complete(n, j) \/ Fail(n, j)

-----------------------------------------------------------------------------
(* What the queue's rows say of each other. *)
QueueTypeOK ==
  /\ job \in [Jobs -> [status : {"none", "QUEUED", "LEASED", "DONE", "FAILED"},
                       attempts : 0 .. MaxAttempts, owner : Nodes \cup {NoNode},
                       retryOf : Jobs \cup {NoJob},
                       terms : [sponsored : BOOLEAN, allocated : BOOLEAN]]]
  /\ live \subseteq Jobs /\ gpu \in Jobs \cup {NoJob}
  /\ reservation \in [Jobs -> {"none", "RESERVED", "CONSUMED", "RELEASED", "TRANSFERRED"}]
  /\ reserved \in Int /\ consumed \in Int

(* A node that may still report on a job of the GPU holds the GPU row, and the row goes
   with its lease: without it the node could neither heartbeat, complete nor fail the job,
   and a row that outlives its lease would idle the GPU (leaseProveJob, sweepProveLeases). *)
LeasesAgree ==
  /\ live \subseteq WithStatus("LEASED")
  /\ live \cap GpuJobs \subseteq {gpu}
  /\ {gpu} \ {NoJob} \subseteq WithStatus("LEASED") \cap GpuJobs
  /\ \A j \in Jobs : (job[j].owner = NoNode) = (job[j].status # "LEASED")

(* The sponsor's two counters are the sums of the reservations they stand for, and
   never exceed what was granted, whatever was swept, failed, charged, credited,
   transferred or restored in between. *)
CapacityIsKept ==
  /\ reserved = Cardinality(Holding("RESERVED"))
  /\ consumed = Cardinality(Holding("CONSUMED"))
  /\ reserved + consumed <= Capacity
=============================================================================
