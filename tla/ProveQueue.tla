------------------------------ MODULE ProveQueue ------------------------------
(***************************************************************************)
(* The durable prove queue: the state machine of queue-core.ts behind the  *)
(* files of queue-store.ts.  Submitters post jobs, prover nodes lease      *)
(* them, heartbeat, and report a result or a failure; a lease that runs    *)
(* out is reclaimed and a finished job is forgotten after its retention.   *)
(*                                                                         *)
(* The store is synchronous, so a request is one step, and every request   *)
(* sweeps first: it reclaims the leases that ran out and forgets the jobs  *)
(* whose retention is over, and saves the index if that changed anything.  *)
(* It then changes the core in memory and saves the index.  A save that    *)
(* fails throws to the caller after the memory has changed.                *)
(*                                                                         *)
(* Data.  Time is one flag per job: the instant its lease or its retention *)
(* runs out has passed.  Which of the eligible jobs a lease request gets   *)
(* (deadlines, priorities, weighted fairness among tenants, partitions) is *)
(* left open; what makes a job ineligible for good reason is kept.  The    *)
(* caps on bytes and tenants are one cap on unfinished jobs.               *)
(***************************************************************************)
EXTENDS Naturals, SequencesExt

CONSTANTS
  Jobs,             \* job ids; an idempotency key brings a forgotten one back
  GpuJobs,          \* those whose endpoint needs a GPU
  Nodes,
  CpuNodes,         \* the nodes that declare gpu: false
  NoNode,
  MaxAttempts,      \* maxAttempts, 2 in the code
  MaxUnfinished,    \* maxGlobalJobs
  MaxSaveFailures,  \* bound: index saves that fail
  MaxCrashes        \* bound: restarts of the process

ASSUME QueueAssumption ==
  /\ IsFiniteSet(Jobs) /\ GpuJobs \subseteq Jobs
  /\ CpuNodes \subseteq Nodes /\ NoNode \notin Nodes
  /\ MaxAttempts \in Nat \ {0} /\ MaxUnfinished \in Nat
  /\ MaxSaveFailures \in Nat /\ MaxCrashes \in Nat

VARIABLES
  core,      \* ProveQueueCore: jobs, and order, the line of QUEUED ids
  index,     \* index.json, the same two
  requests,  \* the jobs with a request file
  results,   \* the node whose result file a job has
  handed,    \* history: leases of this job a node was ever told of
  acked,     \* history: what a caller was told is done, "submitted" or "done"
  alive,     \* the nodes that still call
  saveFailures, crashes

files   == <<requests, results>>
history == <<handed, acked>>
vars    == <<core, index, files, history, alive, saveFailures, crashes>>

Statuses == {"ABSENT", "QUEUED", "LEASED", "DONE", "FAILED"}
Job  == [status : Statuses, node : Nodes \cup {NoNode}, attempts : 0..MaxAttempts, due : BOOLEAN]
Core == [jobs : [Jobs -> Job], order : Seq(Jobs)]

NoJob  == [status |-> "ABSENT", node |-> NoNode, attempts |-> 0, due |-> FALSE]
NewJob == [NoJob EXCEPT !.status = "QUEUED"]
Empty  == [jobs |-> [j \in Jobs |-> NoJob], order |-> << >>]

Unfinished(c) == {j \in Jobs : c.jobs[j].status \in {"QUEUED", "LEASED"}}
HoldsGpuLease(c, n) ==
  \E h \in GpuJobs : c.jobs[h].status = "LEASED" /\ c.jobs[h].node = n

-------------------------------------------------------------------------------
(* Mutants (here and below): slips in the definition that follows, each of
   which some property of this module must notice. *)
SettleOnceMore(job, retryable) ==
  IF retryable /\ job.attempts <= MaxAttempts
  THEN [job EXCEPT !.status = "QUEUED", !.node = NoNode, !.due = FALSE]
  ELSE [job EXCEPT !.status = "FAILED", !.due = FALSE]

(* settleFailedAttempt: back in line, or condemned with its holder kept *)
Settle(job, retryable) ==
  IF retryable /\ job.attempts < MaxAttempts
  THEN [job EXCEPT !.status = "QUEUED", !.node = NoNode, !.due = FALSE]
  ELSE [job EXCEPT !.status = "FAILED", !.due = FALSE]

RequeueInFront(order, back) == back \o order

RequeueNowhere(order, back) == order

Requeue(order, back) == order \o back

NoneExpired(c) == {}

(* leases that ran out, and finished jobs whose retention is over *)
Expired(c) == {j \in Jobs : c.jobs[j].status = "LEASED" /\ c.jobs[j].due}
Prunable(c) == {j \in Jobs : c.jobs[j].status \in {"DONE", "FAILED"} /\ c.jobs[j].due}

(* expireLeases and prune: the jobs that return to the line do so in the order
   the job map has them, here any *)
Swept(c) ==
  LET jobs == [j \in Jobs |-> IF j \in Expired(c) THEN Settle(c.jobs[j], TRUE)
                              ELSE IF j \in Prunable(c) THEN NoJob
                              ELSE c.jobs[j]]
  IN {[jobs |-> jobs, order |-> Requeue(c.order, back)] :
        back \in SetToSeqs({j \in Expired(c) : jobs[j].status = "QUEUED"})}

(* the index once the sweep that led to c has saved it, if it had to *)
SweptIndex(c) == IF c = core THEN index ELSE c

(* a forgotten job loses its files *)
SweptRequests(gone) == requests \ gone
SweptResults(gone)  == [j \in Jobs |-> IF j \in gone THEN NoNode ELSE results[j]]
SweptAcks(gone)     == [j \in Jobs |-> IF j \in gone THEN "none" ELSE acked[j]]

PersistLate(c, after, saved) ==
  IF saved THEN index' = SweptIndex(c) /\ UNCHANGED saveFailures
  ELSE /\ saveFailures < MaxSaveFailures
       /\ saveFailures' = saveFailures + 1
       /\ index' = SweptIndex(c)

(* persist(): the index is replaced as a whole, or stays as it was *)
Persist(c, after, saved) ==
  IF saved THEN index' = after /\ UNCHANGED saveFailures
  ELSE /\ saveFailures < MaxSaveFailures
       /\ saveFailures' = saveFailures + 1
       /\ index' = SweptIndex(c)

-------------------------------------------------------------------------------
(* Requests *)

(* the 30 s sweeper, a status or job request, or a request that is refused *)
Sweep ==
  \E c \in Swept(core), saved \in BOOLEAN :
    /\ c # core
    /\ core' = c
    /\ IF saved THEN index' = c /\ UNCHANGED saveFailures
       ELSE /\ saveFailures < MaxSaveFailures
            /\ saveFailures' = saveFailures + 1
            /\ UNCHANGED index
    /\ requests' = SweptRequests(Prunable(core))
    /\ results' = SweptResults(Prunable(core))
    /\ acked' = SweptAcks(Prunable(core))
    /\ UNCHANGED <<handed, alive, crashes>>

(* the request file, then the core, then the index; an error takes the file
   away again and leaves the core as it is *)
Submit(j) ==
  \E c \in Swept(core), saved \in BOOLEAN :
    /\ c.jobs[j] = NoJob
    /\ Cardinality(Unfinished(c)) < MaxUnfinished
    /\ core' = [jobs |-> [c.jobs EXCEPT ![j] = NewJob], order |-> Append(c.order, j)]
    /\ Persist(c, core', saved)
    /\ requests' = IF saved THEN SweptRequests(Prunable(core)) \cup {j}
                   ELSE SweptRequests(Prunable(core)) \ {j}
    /\ results' = SweptResults(Prunable(core))
    /\ acked' = [SweptAcks(Prunable(core)) EXCEPT ![j] = IF saved THEN "submitted" ELSE "none"]
    /\ handed' = [handed EXCEPT ![j] = 0]
    /\ UNCHANGED <<alive, crashes>>

EligibleAlways(c, n, j) == c.jobs[j].status = "QUEUED"

Eligible(c, n, j) ==
  /\ c.jobs[j].status = "QUEUED"
  /\ j \in GpuJobs => n \notin CpuNodes /\ ~HoldsGpuLease(c, n)

Lease(n) ==
  /\ n \in alive
  /\ \E c \in Swept(core), saved \in BOOLEAN : \E i \in DOMAIN c.order :
       LET j == c.order[i] IN
       /\ Eligible(c, n, j)
       /\ core' = [jobs  |-> [c.jobs EXCEPT ![j] = [status |-> "LEASED", node |-> n,
                                attempts |-> @.attempts + 1, due |-> FALSE]],
                   order |-> RemoveAt(c.order, i)]
       /\ Persist(c, core', saved)
       /\ handed' = IF saved THEN [handed EXCEPT ![j] = @ + 1] ELSE handed
  /\ requests' = SweptRequests(Prunable(core))
  /\ results' = SweptResults(Prunable(core))
  /\ acked' = SweptAcks(Prunable(core))
  /\ UNCHANGED <<alive, crashes>>

Heartbeat(n, j) ==
  /\ n \in alive
  /\ \E c \in Swept(core), saved \in BOOLEAN :
       /\ c.jobs[j].node = n /\ c.jobs[j].status = "LEASED"
       /\ core' = [c EXCEPT !.jobs[j].due = FALSE]
       /\ Persist(c, core', saved)
  /\ requests' = SweptRequests(Prunable(core))
  /\ results' = SweptResults(Prunable(core))
  /\ acked' = SweptAcks(Prunable(core))
  /\ UNCHANGED <<handed, alive, crashes>>

CompleteUnswept(n, j) ==
  /\ n \in alive
  /\ core.jobs[j].node = n /\ core.jobs[j].status = "LEASED"
  /\ core' = [core EXCEPT !.jobs[j].status = "DONE", !.jobs[j].due = FALSE]
  /\ index' = core'
  /\ results' = [results EXCEPT ![j] = n]
  /\ acked' = [acked EXCEPT ![j] = "done"]
  /\ UNCHANGED <<requests, handed, alive, saveFailures, crashes>>

(* the holder's report, once or again: the result file is written only when
   this report is the one that ends the lease *)
Complete(n, j) ==
  /\ n \in alive
  /\ \E c \in Swept(core), saved \in BOOLEAN :
       /\ c.jobs[j].node = n
       /\ \/ /\ c.jobs[j].status = "LEASED"
             /\ core' = [c EXCEPT !.jobs[j].status = "DONE", !.jobs[j].due = FALSE]
             /\ results' = [SweptResults(Prunable(core)) EXCEPT ![j] = n]
          \/ /\ c.jobs[j].status = "DONE"
             /\ core' = c
             /\ results' = SweptResults(Prunable(core))
       /\ Persist(c, core', saved)
       /\ acked' = IF saved THEN [SweptAcks(Prunable(core)) EXCEPT ![j] = "done"]
                   ELSE SweptAcks(Prunable(core))
  /\ requests' = SweptRequests(Prunable(core))
  /\ UNCHANGED <<handed, alive, crashes>>

Fail(n, j, retryable) ==
  /\ n \in alive
  /\ \E c \in Swept(core), saved \in BOOLEAN :
       /\ c.jobs[j].node = n /\ c.jobs[j].status = "LEASED"
       /\ LET settled == Settle(c.jobs[j], retryable) IN
          core' = [jobs  |-> [c.jobs EXCEPT ![j] = settled],
                   order |-> IF settled.status = "QUEUED"
                             THEN Requeue(c.order, <<j>>) ELSE c.order]
       /\ Persist(c, core', saved)
  /\ requests' = SweptRequests(Prunable(core))
  /\ results' = SweptResults(Prunable(core))
  /\ acked' = SweptAcks(Prunable(core))
  /\ UNCHANGED <<handed, alive, crashes>>

-------------------------------------------------------------------------------
(* The environment: time, nodes and the process *)

Timed(job) == job.status \in {"LEASED", "DONE", "FAILED"}

(* what the index says of a job is never younger than what the core says *)
RunOut(j) ==
  /\ Timed(core.jobs[j]) /\ ~core.jobs[j].due
  /\ core' = [core EXCEPT !.jobs[j].due = TRUE]
  /\ index' = IF Timed(index.jobs[j]) THEN [index EXCEPT !.jobs[j].due = TRUE] ELSE index
  /\ UNCHANGED <<files, history, alive, saveFailures, crashes>>

RunOutOnDisk(j) ==
  /\ index.jobs[j] # core.jobs[j]
  /\ Timed(index.jobs[j]) /\ ~index.jobs[j].due
  /\ index' = [index EXCEPT !.jobs[j].due = TRUE]
  /\ UNCHANGED <<core, files, history, alive, saveFailures, crashes>>

NodeDies(n) ==
  /\ n \in alive
  /\ alive' = alive \ {n}
  /\ UNCHANGED <<core, index, files, history, saveFailures, crashes>>

(* a file is written before the index names it: the process may die between *)
TornRequests == {requests} \cup {requests \cup {j} : j \in {k \in Jobs : core.jobs[k] = NoJob}}
TornResults ==
  {results} \cup {[results EXCEPT ![j] = core.jobs[j].node] :
                    j \in {k \in Jobs : core.jobs[k].status = "LEASED"}}

(* the constructor: restore the index, then sweep *)
Restart ==
  /\ crashes < MaxCrashes
  /\ crashes' = crashes + 1
  /\ \E c \in Swept(index) : core' = c /\ index' = c
  /\ \E torn \in TornRequests : requests' = torn \ Prunable(index)
  /\ \E torn \in TornResults :
       results' = [j \in Jobs |-> IF j \in Prunable(index) THEN NoNode ELSE torn[j]]
  /\ acked' = SweptAcks(Prunable(index))
  /\ UNCHANGED <<handed, alive, saveFailures>>

Init ==
  /\ core = Empty /\ index = Empty
  /\ requests = {} /\ results = [j \in Jobs |-> NoNode]
  /\ handed = [j \in Jobs |-> 0] /\ acked = [j \in Jobs |-> "none"]
  /\ alive = Nodes
  /\ saveFailures = 0 /\ crashes = 0

Next ==
  \/ Sweep
  \/ \E j \in Jobs : Submit(j) \/ RunOut(j) \/ RunOutOnDisk(j)
  \/ \E n \in Nodes : Lease(n) \/ NodeDies(n)
  \/ \E n \in Nodes, j \in Jobs :
       Heartbeat(n, j) \/ Complete(n, j) \/ \E retryable \in BOOLEAN : Fail(n, j, retryable)
  \/ Restart

Spec == Init /\ [][Next]_vars

(* time passes and the sweeper's interval fires *)
FairSpec == Spec /\ WF_vars(Sweep) /\ \A j \in Jobs : WF_vars(RunOut(j))

-------------------------------------------------------------------------------
(* Properties *)

(* Every variable has its type: no job is ever past its last attempt. *)
TypeOK ==
  /\ core \in Core /\ index \in Core
  /\ requests \subseteq Jobs
  /\ results \in [Jobs -> Nodes \cup {NoNode}]
  /\ handed \in [Jobs -> Nat] /\ acked \in [Jobs -> {"none", "submitted", "done"}]
  /\ alive \subseteq Nodes
  /\ saveFailures \in Nat /\ crashes \in Nat

(* The line holds every QUEUED job once and nothing else, in memory and in the
   file it is restored from: no job is lost from the line or leased twice.
   (lease, settleFailedAttempt, snapshot, restore) *)
LineOf(c) ==
  /\ IsInjective(c.order)
  /\ ToSet(c.order) = {j \in Jobs : c.jobs[j].status = "QUEUED"}
LineIsQueued == LineOf(core) /\ LineOf(index)

(* A node is never told of more than maxAttempts leases of a job, whatever
   saves fail or processes die in between. (DEFAULT_MAX_ATTEMPTS: "A job is
   leased at most twice; the second death condemns it.") *)
LeasedAtMostTwice == \A j \in Jobs : handed[j] <= MaxAttempts

(* No node holds two GPU leases, in memory or in the index a restart would
   restore. (lease) *)
OneProofPerNode ==
  \A c \in {core, index} : \A g, h \in GpuJobs :
    /\ c.jobs[g].status = "LEASED" /\ c.jobs[h].status = "LEASED"
    /\ c.jobs[g].node = c.jobs[h].node
    => g = h

(* The three promises of leasing, over every order of expiries, reports, sweeps, lost
   saves and restarts. *)
LeasesAreSound == LineIsQueued /\ LeasedAtMostTwice /\ OneProofPerNode

(* A job reported DONE has a result file, and it is the one the recorded
   holder wrote: late, repeated and torn reports never replace it.  (complete) *)
ResultIsHolders ==
  \A j \in Jobs : core.jobs[j].status = "DONE" => results[j] = core.jobs[j].node

(* What a caller was told survives a restart: a job acknowledged to its
   submitter is in the index, a result acknowledged to its node is DONE there,
   until it is forgotten. (every request saves before it answers) *)
AckedIsDurable ==
  \A j \in Jobs :
    /\ acked[j] = "submitted" => index.jobs[j].status # "ABSENT"
    /\ acked[j] = "done" => index.jobs[j].status = "DONE"

(* What a node reported and what a caller was told outlive expiries, late reports, lost
   saves and restarts. *)
ResultsAreKept == ResultIsHolders /\ AckedIsDurable

(* A waiting job only moves forward, and a restart after saves that succeeded
   keeps its place: "a submitter that was told 'position 2' must never look
   again and see 'position 3'".  (lease, settleFailedAttempt, snapshot) *)
Ahead(c, j) == {i \in DOMAIN c.order : \E k \in i..Len(c.order) : c.order[k] = j}
PositionNeverGrows ==
  [][\A j \in Jobs :
       (core.jobs[j].status = "QUEUED" /\ core'.jobs[j].status = "QUEUED" /\ saveFailures' = 0)
         => Cardinality(Ahead(core', j)) <= Cardinality(Ahead(core, j))]_vars

(* A report that comes after the lease ran out is refused, even if nothing
   reclaimed the lease before it.  (the sweep at the start of complete) *)
LateReportRefused ==
  [][\A j \in Jobs :
       (core.jobs[j].status = "LEASED" /\ core.jobs[j].due)
         => core'.jobs[j].status # "DONE"]_vars

(* The lease of a node that stopped calling is reclaimed: "a silent node
   forfeits its job".  (the sweeper, DEFAULT_LEASE_TTL_MS) *)
HeldBy(n, j) == core.jobs[j].status = "LEASED" /\ core.jobs[j].node = n
SilentNodeForfeits ==
  \A n \in Nodes, j \in Jobs : (n \notin alive /\ HeldBy(n, j)) ~> ~HeldBy(n, j)

(* Every job the index would have a node run has its request file. (submit:
   "the index must never point at a request file that is not yet on disk") *)
IndexedHasRequest ==
  \A j \in Jobs : index.jobs[j].status \in {"QUEUED", "LEASED"} => j \in requests
=============================================================================
