--------------------------- MODULE Checkpoint_proofs ---------------------------
(***************************************************************************)
(* Proofs about the two services a checkpoint awaits.  First the file-     *)
(* backed prove queue, for any number of jobs, nodes, attempts, lost saves *)
(* and restarts: leases are sound (LeasesAreSound), results and            *)
(* acknowledgements are kept (ResultsAreKept) and a waiting job never      *)
(* moves back in line (PositionNeverGrows).  Then the watch on L1, for any *)
(* deadline, budget of resubmissions, and number of blocks and             *)
(* reorganisations: it implements Settlement (ImplementsSettlement), and   *)
(* what it returns is irreversible (FinalizedIsIrreversible).              *)
(*                                                                         *)
(* The invariant of the queue has two layers.  Sound(c) is about one       *)
(* queue, and holds of the memory and of the index file alike, because     *)
(* both are the outcome of the same requests.  The rest relates the two:   *)
(* the index is an earlier queue than the memory, it is as old for every   *)
(* job, and what a caller was told was in the index before it was told.    *)
(***************************************************************************)
EXTENDS ProveQueue, SettlementWatcher, FiniteSetTheorems, SequenceTheorems, TLAPS

(* One queue: a line of exactly the QUEUED jobs, no node with two GPU leases,
   and no job waiting whose last attempt is spent. *)
OneLeaseEach(c) ==
  \A g, h \in GpuJobs :
    /\ c.jobs[g].status = "LEASED" /\ c.jobs[h].status = "LEASED"
    /\ c.jobs[g].node = c.jobs[h].node
    => g = h

AttemptLeft(c) == \A j \in Jobs : c.jobs[j].status = "QUEUED" => c.jobs[j].attempts < MaxAttempts

Sound(c) == c \in Core /\ LineOf(c) /\ OneLeaseEach(c) /\ AttemptLeft(c)

(* One job, in memory (m) and in the index (i), with the leases told of it, the
   holder of its result file and what a caller was told: leases told are at most
   the attempts counted; a result is its holder's; what the index calls DONE is
   so in memory until its retention is over; what was told is so in both. *)
JobAgrees(m, i, told_of, result, ack) ==
  /\ m.status # "ABSENT" => told_of <= m.attempts
  /\ i.status # "ABSENT" => told_of <= i.attempts
  /\ told_of <= MaxAttempts
  /\ m.status = "DONE" => result = m.node
  /\ i.status = "DONE" /\ ~i.due => m = i
  /\ ack = "submitted" => m.status # "ABSENT" /\ i.status # "ABSENT"
  /\ ack = "done" => m.status = "DONE" /\ i.status = "DONE"

FilesTyped ==
  /\ requests \subseteq Jobs
  /\ results \in [Jobs -> Nodes \cup {NoNode}]
  /\ handed \in [Jobs -> Nat] /\ acked \in [Jobs -> {"none", "submitted", "done"}]

RestTyped == alive \subseteq Nodes /\ saveFailures \in Nat /\ crashes \in Nat

(* Without a lost save the index is the memory. *)
SavedIsCore == saveFailures = 0 => index = core

QueueInv ==
  /\ FilesTyped /\ RestTyped
  /\ Sound(core) /\ Sound(index)
  /\ \A j \in Jobs :
       JobAgrees(core.jobs[j], index.jobs[j], handed[j], results[j], acked[j])
  /\ SavedIsCore

-------------------------------------------------------------------------------
(* Lines *)

(* The sequences of a finite set have each of its elements once. *)
LEMMA OrdersOf ==
  ASSUME NEW S, IsFiniteSet(S), NEW s \in SetToSeqs(S)
  PROVE  s \in Seq(S) /\ IsInjective(s) /\ ToSet(s) = S
<1> DEFINE n == Cardinality(S)
<1>1. n \in Nat
  BY FS_CardinalityType
<1>2. s \in [1 .. n -> S] /\ \A i, j \in 1 .. n : i # j => s[i] # s[j]
  BY DEF SetToSeqs
<1>3. IsFiniteSet(1 .. n) /\ Cardinality(1 .. n) = n
  BY <1>1, FS_Interval
<1>4. s \in Injection(1 .. n, S)
  BY <1>2 DEF Injection, IsInjective
<1>5. s \in Surjection(1 .. n, S)
  BY <1>3, <1>4, FS_Injection
<1>6. s \in Seq(S) /\ DOMAIN s = 1 .. n
  BY <1>1, <1>2
<1>7. ToSet(s) = S
  BY <1>2, <1>5, <1>6 DEF Surjection, ToSet
<1> QED
  BY <1>2, <1>6, <1>7 DEF IsInjective

(* Appending a line of other jobs. *)
LEMMA LineGrows ==
  ASSUME NEW S, NEW s \in Seq(S), NEW t \in Seq(S), IsInjective(s), IsInjective(t),
         ToSet(s) \cap ToSet(t) = {}
  PROVE  s \o t \in Seq(S) /\ IsInjective(s \o t) /\ ToSet(s \o t) = ToSet(s) \cup ToSet(t)
<1> DEFINE u == s \o t
<1>1. /\ u \in Seq(S) /\ Len(u) = Len(s) + Len(t)
      /\ Len(s) \in Nat /\ Len(t) \in Nat
      /\ \A i \in 1 .. Len(s) : u[i] = s[i]
      /\ \A i \in Len(s) + 1 .. Len(u) : u[i] = t[i - Len(s)]
  BY ConcatProperties, LenProperties
<1>2. DOMAIN u = 1 .. Len(u) /\ DOMAIN s = 1 .. Len(s) /\ DOMAIN t = 1 .. Len(t)
  BY <1>1, LenProperties
<1>3. \A i \in 1 .. Len(u) :
        \/ i \in 1 .. Len(s) /\ u[i] = s[i]
        \/ i - Len(s) \in 1 .. Len(t) /\ u[i] = t[i - Len(s)]
  BY <1>1
<1>4. \A i \in 1 .. Len(s), k \in 1 .. Len(t) : s[i] # t[k]
  BY <1>2 DEF ToSet
<1> HIDE DEF u
<1>5. IsInjective(u)
  <2> SUFFICES ASSUME NEW a \in 1 .. Len(u), NEW b \in 1 .. Len(u), u[a] = u[b]
               PROVE  a = b
    BY <1>2 DEF IsInjective
  <2>1. CASE a \in 1 .. Len(s) /\ u[a] = s[a]
    <3>1. b \in 1 .. Len(s) /\ u[b] = s[b]
      BY <2>1, <1>3, <1>4
    <3> QED
      BY <2>1, <3>1, <1>2 DEF IsInjective
  <2>2. CASE a - Len(s) \in 1 .. Len(t) /\ u[a] = t[a - Len(s)]
    <3>1. b - Len(s) \in 1 .. Len(t) /\ u[b] = t[b - Len(s)]
      BY <2>2, <1>3, <1>4
    <3>2. a - Len(s) = b - Len(s)
      BY <2>2, <3>1, <1>2 DEF IsInjective
    <3> QED
      BY <3>2, <1>1
  <2> QED
    BY <2>1, <2>2, <1>3
<1>6. ToSet(u) = ToSet(s) \cup ToSet(t)
  <2>1. ToSet(u) \subseteq ToSet(s) \cup ToSet(t)
    BY <1>2, <1>3 DEF ToSet
  <2>2. ToSet(s) \subseteq ToSet(u)
    BY <1>1, <1>2 DEF ToSet
  <2>3. ASSUME NEW k \in 1 .. Len(t) PROVE t[k] \in ToSet(u)
    <3>1. PICK m \in Int : m = k + Len(s)
      BY <1>1
    <3>2. m \in Len(s) + 1 .. Len(u) /\ m \in 1 .. Len(u) /\ m - Len(s) = k
      BY <3>1, <1>1
    <3>3. u[m] = t[k]
      BY <3>2, <1>1
    <3> QED
      BY <3>2, <3>3, <1>2 DEF ToSet
  <2> QED
    BY <2>1, <2>2, <2>3, <1>2 DEF ToSet
<1> QED
  BY <1>1, <1>5, <1>6 DEF u

(* Taking a job out of the line: those behind it move up by one. *)
LEMMA TakenOut ==
  ASSUME NEW S, NEW s \in Seq(S), NEW i \in DOMAIN s
  PROVE  /\ RemoveAt(s, i) \in Seq(S) /\ Len(RemoveAt(s, i)) = Len(s) - 1
         /\ \A k \in 1 .. Len(s) - 1 : RemoveAt(s, i)[k] = IF k < i THEN s[k] ELSE s[k + 1]
<1>1. Len(s) \in Nat /\ i \in 1 .. Len(s)
  BY LenProperties
<1> DEFINE a == SubSeq(s, 1, i - 1)
           b == SubSeq(s, i + 1, Len(s))
<1>2. /\ a \in Seq(S) /\ Len(a) = i - 1
      /\ \A k \in 1 .. i - 1 : a[k] = s[k]
  BY <1>1, SubSeqProperties
<1>3. /\ b \in Seq(S) /\ Len(b) = Len(s) - i
      /\ \A k \in 1 .. Len(s) - i : b[k] = s[i + k]
  BY <1>1, SubSeqProperties
<1> HIDE DEF a, b
<1>4. /\ a \o b \in Seq(S) /\ Len(a \o b) = Len(a) + Len(b)
      /\ \A k \in 1 .. Len(a) : (a \o b)[k] = a[k]
      /\ \A k \in Len(a) + 1 .. Len(a) + Len(b) : (a \o b)[k] = b[k - Len(a)]
  <2>1. a \o b \in Seq(S) /\ Len(a \o b) = Len(a) + Len(b)
        /\ \A k \in 1 .. Len(a) + Len(b) : (a \o b)[k] = IF k <= Len(a) THEN a[k] ELSE b[k - Len(a)]
    BY <1>2, <1>3, ConcatProperties
  <2>2. Len(a) \in Nat /\ Len(b) \in Nat
    BY <1>1, <1>2, <1>3
  <2> QED
    BY <2>1, <2>2
<1>5. ASSUME NEW k \in 1 .. Len(s) - 1
      PROVE  (a \o b)[k] = IF k < i THEN s[k] ELSE s[k + 1]
  <2>1. CASE k < i
    BY <2>1, <1>1, <1>2, <1>4
  <2>2. CASE ~(k < i)
    <3>1. k \in Len(a) + 1 .. Len(a) + Len(b) /\ k - Len(a) \in 1 .. Len(s) - i
      BY <2>2, <1>1, <1>2, <1>3
    <3>2. (a \o b)[k] = b[k - Len(a)] /\ b[k - Len(a)] = s[i + (k - Len(a))]
      BY <3>1, <1>3, <1>4
    <3>3. i + (k - Len(a)) = k + 1
      BY <1>1, <1>2
    <3> QED
      BY <3>2, <3>3, <2>2
  <2> QED
    BY <2>1, <2>2
<1>6. RemoveAt(s, i) = a \o b
  BY DEF RemoveAt, a, b
<1>7. Len(a \o b) = Len(s) - 1
  BY <1>1, <1>2, <1>3, <1>4
<1> QED
  BY <1>4, <1>5, <1>6, <1>7

LEMMA LineShrinks ==
  ASSUME NEW S, NEW s \in Seq(S), NEW i \in DOMAIN s, IsInjective(s)
  PROVE  /\ RemoveAt(s, i) \in Seq(S) /\ IsInjective(RemoveAt(s, i))
         /\ ToSet(RemoveAt(s, i)) = ToSet(s) \ {s[i]}
<1> DEFINE u == RemoveAt(s, i)
<1>1. Len(s) \in Nat /\ DOMAIN s = 1 .. Len(s) /\ i \in 1 .. Len(s)
  BY LenProperties
<1>2. /\ u \in Seq(S) /\ Len(u) = Len(s) - 1
      /\ \A k \in 1 .. Len(s) - 1 : u[k] = IF k < i THEN s[k] ELSE s[k + 1]
  BY TakenOut
<1> HIDE DEF u
<1>3. DOMAIN u = 1 .. Len(s) - 1
  BY <1>2, LenProperties
<1>4. IsInjective(u)
  <2> SUFFICES ASSUME NEW a \in 1 .. Len(s) - 1, NEW b \in 1 .. Len(s) - 1, u[a] = u[b]
               PROVE  a = b
    BY <1>3 DEF IsInjective
  <2>1. (IF a < i THEN a ELSE a + 1) \in 1 .. Len(s) /\ (IF b < i THEN b ELSE b + 1) \in 1 .. Len(s)
    BY <1>1
  <2>2. u[a] = s[IF a < i THEN a ELSE a + 1] /\ u[b] = s[IF b < i THEN b ELSE b + 1]
    BY <1>2
  <2>3. (IF a < i THEN a ELSE a + 1) = (IF b < i THEN b ELSE b + 1)
    BY <2>1, <2>2, <1>1 DEF IsInjective
  <2> QED
    BY <2>3, <1>1
<1>5. ASSUME NEW k \in 1 .. Len(s) - 1 PROVE u[k] \in ToSet(s) \ {s[i]}
  <2>1. (IF k < i THEN k ELSE k + 1) \in 1 .. Len(s) /\ (IF k < i THEN k ELSE k + 1) # i
    BY <1>1
  <2>2. u[k] = s[IF k < i THEN k ELSE k + 1]
    BY <1>2
  <2> QED
    BY <2>1, <2>2, <1>1 DEF IsInjective, ToSet
<1>6. ASSUME NEW m \in 1 .. Len(s), s[m] # s[i] PROVE s[m] \in ToSet(u)
  <2>1. (IF m < i THEN m ELSE m - 1) \in 1 .. Len(s) - 1
    BY <1>1, <1>6
  <2>2. u[IF m < i THEN m ELSE m - 1] = s[m]
    BY <2>1, <1>1, <1>2, <1>6
  <2> QED
    BY <2>1, <2>2, <1>3 DEF ToSet
<1>7. ToSet(u) = ToSet(s) \ {s[i]}
  BY <1>1, <1>3, <1>5, <1>6 DEF ToSet
<1> QED
  BY <1>2, <1>4, <1>7 DEF u

-------------------------------------------------------------------------------
(* One queue *)

LEMMA CoreParts ==
  ASSUME NEW c \in Core
  PROVE  /\ c = [jobs |-> c.jobs, order |-> c.order]
         /\ c.jobs \in [Jobs -> Job] /\ c.order \in Seq(Jobs)
         /\ \A j \in Jobs : /\ c.jobs[j] \in Job
                            /\ c.jobs[j].status \in Statuses
                            /\ c.jobs[j].node \in Nodes \cup {NoNode}
                            /\ c.jobs[j].attempts \in 0 .. MaxAttempts
                            /\ c.jobs[j].due \in BOOLEAN
BY DEF Core, Job

(* settleFailedAttempt: back in line only with an attempt left. *)
LEMMA SettledJob ==
  ASSUME NEW job \in Job, NEW retryable \in BOOLEAN
  PROVE  /\ Settle(job, retryable) \in Job
         /\ Settle(job, retryable).attempts = job.attempts
         /\ ~Settle(job, retryable).due
         /\ \/ Settle(job, retryable).status = "FAILED"
            \/ Settle(job, retryable).status = "QUEUED" /\ job.attempts < MaxAttempts
BY DEF Settle, Job, Statuses

LEMMA FreshJobs ==
  NoJob \in Job /\ NoJob.status = "ABSENT" /\ NewJob \in Job
  /\ NewJob.status = "QUEUED" /\ NewJob.attempts = 0 /\ 0 < MaxAttempts
<1>1. 0 < MaxAttempts /\ 0 \in 0 .. MaxAttempts
  BY QueueAssumption
<1>2. NoJob \in Job
  BY <1>1 DEF NoJob, Job, Statuses
<1>3. NoJob.attempts = 0 /\ NoJob.status = "ABSENT"
  BY DEF NoJob
<1>4. NewJob \in Job /\ NewJob.status = "QUEUED" /\ NewJob.attempts = NoJob.attempts
  BY <1>2 DEF NewJob, Job, Statuses
<1> QED
  BY <1>1, <1>2, <1>3, <1>4

(* A job's record changes, the line does not. *)
LEMMA SoundChange ==
  ASSUME NEW c, Sound(c), NEW j \in Jobs, NEW job \in Job,
         c.jobs[j].status # "QUEUED", job.status # "QUEUED",
         job.status = "LEASED" => c.jobs[j].status = "LEASED" /\ job.node = c.jobs[j].node
  PROVE  Sound([jobs |-> [c.jobs EXCEPT ![j] = job], order |-> c.order])
<1> DEFINE d == [jobs |-> [c.jobs EXCEPT ![j] = job], order |-> c.order]
<1>1. c \in Core
  BY DEF Sound
<1>2. /\ d \in Core /\ d.order = c.order /\ d.jobs[j] = job
      /\ \A k \in Jobs \ {j} : d.jobs[k] = c.jobs[k]
  BY <1>1, CoreParts DEF Core
<1> HIDE DEF d
<1>3. {k \in Jobs : d.jobs[k].status = "QUEUED"} = {k \in Jobs : c.jobs[k].status = "QUEUED"}
  BY <1>2
<1>4. LineOf(d)
  BY <1>2, <1>3 DEF Sound, LineOf
<1>5. OneLeaseEach(d)
  BY <1>2, QueueAssumption DEF Sound, OneLeaseEach
<1>6. AttemptLeft(d)
  BY <1>2 DEF Sound, AttemptLeft
<1>7. Sound(d)
  BY <1>2, <1>4, <1>5, <1>6 DEF Sound
<1> QED
  BY <1>7 DEF d

(* A job joins the end of the line. *)
LEMMA SoundJoin ==
  ASSUME NEW c, Sound(c), NEW j \in Jobs, NEW job \in Job,
         c.jobs[j].status # "QUEUED", job.status = "QUEUED", job.attempts < MaxAttempts
  PROVE  Sound([jobs |-> [c.jobs EXCEPT ![j] = job], order |-> c.order \o <<j>>])
<1> DEFINE d == [jobs |-> [c.jobs EXCEPT ![j] = job], order |-> c.order \o <<j>>]
<1>1. c \in Core /\ c.order \in Seq(Jobs) /\ IsInjective(c.order)
      /\ ToSet(c.order) = {k \in Jobs : c.jobs[k].status = "QUEUED"}
  BY CoreParts DEF Sound, LineOf
<1>2. <<j>> \in Seq(Jobs) /\ IsInjective(<<j>>) /\ ToSet(<<j>>) = {j}
  BY DEF IsInjective, ToSet
<1> DEFINE t == <<j>>
<1>3. /\ c.order \o <<j>> \in Seq(Jobs) /\ IsInjective(c.order \o <<j>>)
      /\ ToSet(c.order \o <<j>>) = ToSet(c.order) \cup {j}
  <2>1. t \in Seq(Jobs) /\ IsInjective(t) /\ ToSet(t) = {j}
    BY <1>2
  <2> HIDE DEF t
  <2>2. ToSet(c.order) \cap ToSet(t) = {}
    BY <2>1, <1>1
  <2>3. /\ c.order \o t \in Seq(Jobs) /\ IsInjective(c.order \o t)
        /\ ToSet(c.order \o t) = ToSet(c.order) \cup ToSet(t)
    BY <2>1, <2>2, <1>1, LineGrows
  <2> QED
    BY <2>1, <2>3 DEF t
<1>4. /\ d \in Core /\ d.order = c.order \o <<j>> /\ d.jobs[j] = job
      /\ \A k \in Jobs \ {j} : d.jobs[k] = c.jobs[k]
  BY <1>1, <1>3, CoreParts DEF Core
<1> HIDE DEF d
<1>5. {k \in Jobs : d.jobs[k].status = "QUEUED"} = {k \in Jobs : c.jobs[k].status = "QUEUED"} \cup {j}
  BY <1>4
<1>6. LineOf(d)
  BY <1>1, <1>3, <1>4, <1>5 DEF LineOf
<1>7. OneLeaseEach(d) /\ AttemptLeft(d)
  BY <1>4, QueueAssumption DEF Sound, OneLeaseEach, AttemptLeft
<1>8. Sound(d)
  BY <1>4, <1>6, <1>7 DEF Sound
<1> QED
  BY <1>8 DEF d

(* lease: the job leaves the line for a node that may have it. *)
LeasedTo(c, n, i) ==
  [jobs  |-> [c.jobs EXCEPT ![c.order[i]] = [status |-> "LEASED", node |-> n,
                attempts |-> @.attempts + 1, due |-> FALSE]],
   order |-> RemoveAt(c.order, i)]

LEMMA SoundLease ==
  ASSUME NEW c, Sound(c), NEW n \in Nodes, NEW i \in DOMAIN c.order, Eligible(c, n, c.order[i])
  PROVE  /\ c.order[i] \in Jobs
         /\ Sound(LeasedTo(c, n, i))
         /\ LeasedTo(c, n, i).order = RemoveAt(c.order, i)
         /\ LeasedTo(c, n, i).jobs[c.order[i]] =
              [status |-> "LEASED", node |-> n,
               attempts |-> c.jobs[c.order[i]].attempts + 1, due |-> FALSE]
         /\ \A k \in Jobs \ {c.order[i]} : LeasedTo(c, n, i).jobs[k] = c.jobs[k]
<1> DEFINE d == LeasedTo(c, n, i)
<1>1. /\ c \in Core /\ c.order \in Seq(Jobs) /\ IsInjective(c.order)
      /\ ToSet(c.order) = {k \in Jobs : c.jobs[k].status = "QUEUED"}
  BY CoreParts DEF Sound, LineOf
<1>2. PICK j \in Jobs : j = c.order[i]
  BY <1>1, ElementOfSeq, LenProperties
<1>3. /\ RemoveAt(c.order, i) \in Seq(Jobs) /\ IsInjective(RemoveAt(c.order, i))
      /\ ToSet(RemoveAt(c.order, i)) = ToSet(c.order) \ {j}
  BY <1>1, <1>2, LineShrinks
<1>4. c.jobs[j].attempts < MaxAttempts /\ c.jobs[j].attempts \in 0 .. MaxAttempts
  BY <1>1, <1>2, CoreParts DEF Sound, AttemptLeft, Eligible
<1>5. [status |-> "LEASED", node |-> n, attempts |-> c.jobs[j].attempts + 1, due |-> FALSE] \in Job
  BY <1>4, QueueAssumption DEF Job, Statuses
<1>6. /\ d \in Core /\ d.order = RemoveAt(c.order, i)
      /\ d.jobs[j] = [status |-> "LEASED", node |-> n, attempts |-> c.jobs[j].attempts + 1, due |-> FALSE]
      /\ \A k \in Jobs \ {j} : d.jobs[k] = c.jobs[k]
  BY <1>1, <1>2, <1>3, <1>5, CoreParts DEF Core, LeasedTo
<1>7. Eligible(c, n, j)
  BY <1>2
<1> HIDE DEF d
<1>8. {k \in Jobs : d.jobs[k].status = "QUEUED"} = {k \in Jobs : c.jobs[k].status = "QUEUED"} \ {j}
  BY <1>6
<1>9. LineOf(d)
  BY <1>1, <1>3, <1>6, <1>8 DEF LineOf
<1>10. OneLeaseEach(d)
  <2> SUFFICES ASSUME NEW g \in GpuJobs, NEW h \in GpuJobs,
                      d.jobs[g].status = "LEASED", d.jobs[h].status = "LEASED",
                      d.jobs[g].node = d.jobs[h].node
               PROVE  g = h
    BY DEF OneLeaseEach
  <2>1. g \in Jobs /\ h \in Jobs
    BY QueueAssumption
  <2>2. CASE g # j /\ h # j
    BY <2>1, <2>2, <1>6 DEF Sound, OneLeaseEach
  <2>3. CASE g = j /\ h # j
    BY <2>1, <2>3, <1>6, <1>7 DEF Eligible, HoldsGpuLease
  <2>4. CASE h = j /\ g # j
    BY <2>1, <2>4, <1>6, <1>7 DEF Eligible, HoldsGpuLease
  <2> QED
    BY <2>2, <2>3, <2>4
<1>11. AttemptLeft(d)
  BY <1>6 DEF Sound, AttemptLeft
<1>12. Sound(d)
  BY <1>6, <1>9, <1>10, <1>11 DEF Sound
<1> QED
  BY <1>2, <1>6, <1>12 DEF d

-------------------------------------------------------------------------------
(* The sweep every request starts with *)

AfterSweep(c) ==
  [j \in Jobs |-> IF j \in Expired(c) THEN Settle(c.jobs[j], TRUE)
                  ELSE IF j \in Prunable(c) THEN NoJob
                  ELSE c.jobs[j]]

Back(c) == {j \in Expired(c) : AfterSweep(c)[j].status = "QUEUED"}

(* What it does to a job: reclaimed, forgotten or untouched. *)
SweptJob(d, c, j) ==
  \/ /\ j \in Expired(c) /\ d.jobs[j].attempts = c.jobs[j].attempts
     /\ \/ d.jobs[j].status = "FAILED"
        \/ d.jobs[j].status = "QUEUED" /\ c.jobs[j].attempts < MaxAttempts
  \/ j \in Prunable(c) /\ d.jobs[j] = NoJob
  \/ j \notin Expired(c) \cup Prunable(c) /\ d.jobs[j] = c.jobs[j]

LEMMA SweepSound ==
  ASSUME NEW c, Sound(c), NEW d \in Swept(c)
  PROVE  /\ Sound(d)
         /\ \A j \in Jobs : SweptJob(d, c, j)
         /\ \E back \in Seq(Jobs) : d.order = c.order \o back
<1>1. PICK back \in SetToSeqs(Back(c)) : d = [jobs |-> AfterSweep(c), order |-> c.order \o back]
  BY DEF Swept, AfterSweep, Back, Requeue
<1>2. /\ c \in Core /\ c.order \in Seq(Jobs) /\ IsInjective(c.order)
      /\ ToSet(c.order) = {k \in Jobs : c.jobs[k].status = "QUEUED"}
  BY CoreParts DEF Sound, LineOf
<1>3. Back(c) \subseteq Jobs
  BY DEF Back, Expired
<1>4. IsFiniteSet(Back(c))
  BY <1>3, FS_Subset, QueueAssumption
<1>5. back \in Seq(Back(c)) /\ IsInjective(back) /\ ToSet(back) = Back(c)
  BY <1>4, OrdersOf
<1>6. back \in Seq(Jobs)
  BY <1>3, <1>5
<1>7. ToSet(c.order) \cap ToSet(back) = {}
  BY <1>2, <1>5 DEF Back, Expired
<1>8. /\ c.order \o back \in Seq(Jobs) /\ IsInjective(c.order \o back)
      /\ ToSet(c.order \o back) = ToSet(c.order) \cup Back(c)
  BY <1>2, <1>5, <1>6, <1>7, LineGrows
<1>9. AfterSweep(c) \in [Jobs -> Job]
  BY <1>2, CoreParts, SettledJob, FreshJobs DEF AfterSweep
<1>10. d \in Core /\ d.jobs = AfterSweep(c) /\ d.order = c.order \o back
  BY <1>1, <1>8, <1>9 DEF Core
<1>11. ASSUME NEW j \in Jobs PROVE SweptJob(d, c, j)
  <2>1. c.jobs[j] \in Job
    BY <1>2, CoreParts
  <2>2. d.jobs[j] = IF j \in Expired(c) THEN Settle(c.jobs[j], TRUE)
                    ELSE IF j \in Prunable(c) THEN NoJob ELSE c.jobs[j]
    BY <1>10 DEF AfterSweep
  <2> QED
    BY <2>1, <2>2, SettledJob DEF SweptJob
<1>12. ASSUME NEW j \in Jobs
       PROVE  d.jobs[j].status = "QUEUED" <=> (c.jobs[j].status = "QUEUED" \/ j \in Back(c))
  BY <1>10, <1>11, FreshJobs DEF SweptJob, Back, Expired, Prunable
<1>13. LineOf(d)
  BY <1>2, <1>3, <1>8, <1>10, <1>12 DEF LineOf
<1>14. ASSUME NEW j \in Jobs, d.jobs[j].status = "LEASED" PROVE d.jobs[j] = c.jobs[j]
  BY <1>11, <1>14, FreshJobs DEF SweptJob
<1>15. OneLeaseEach(d)
  BY <1>14, QueueAssumption DEF Sound, OneLeaseEach
<1>16. AttemptLeft(d)
  BY <1>11, FreshJobs DEF Sound, AttemptLeft, SweptJob
<1> QED
  BY <1>6, <1>10, <1>11, <1>13, <1>15, <1>16 DEF Sound

LEMMA SweepAgrees ==
  ASSUME QueueInv, NEW c \in Swept(core), NEW x \in {index, c}
  PROVE  /\ Sound(c) /\ Sound(x)
         /\ SweptRequests(Prunable(core)) \subseteq Jobs
         /\ SweptResults(Prunable(core)) \in [Jobs -> Nodes \cup {NoNode}]
         /\ SweptAcks(Prunable(core)) \in [Jobs -> {"none", "submitted", "done"}]
         /\ \A j \in Jobs :
              JobAgrees(c.jobs[j], x.jobs[j], handed[j], SweptResults(Prunable(core))[j],
                        SweptAcks(Prunable(core))[j])
<1>1. Sound(c) /\ Sound(x) /\ \A j \in Jobs : SweptJob(c, core, j)
  BY SweepSound DEF QueueInv
<1>2. /\ SweptRequests(Prunable(core)) \subseteq Jobs
      /\ SweptResults(Prunable(core)) \in [Jobs -> Nodes \cup {NoNode}]
      /\ SweptAcks(Prunable(core)) \in [Jobs -> {"none", "submitted", "done"}]
  BY DEF QueueInv, FilesTyped, SweptRequests, SweptResults, SweptAcks
<1>3. ASSUME NEW j \in Jobs
      PROVE  JobAgrees(c.jobs[j], x.jobs[j], handed[j], SweptResults(Prunable(core))[j],
                       SweptAcks(Prunable(core))[j])
  <2>1. /\ JobAgrees(core.jobs[j], index.jobs[j], handed[j], results[j], acked[j])
        /\ SweptJob(c, core, j)
    BY <1>1 DEF QueueInv
  <2>2. /\ SweptResults(Prunable(core))[j] = IF j \in Prunable(core) THEN NoNode ELSE results[j]
        /\ SweptAcks(Prunable(core))[j] = IF j \in Prunable(core) THEN "none" ELSE acked[j]
    BY DEF SweptResults, SweptAcks
  <2>3. CASE j \in Expired(core)
    <3>1. /\ core.jobs[j].status = "LEASED" /\ j \notin Prunable(core)
          /\ c.jobs[j].attempts = core.jobs[j].attempts
          /\ c.jobs[j].status \in {"FAILED", "QUEUED"}
      BY <2>1, <2>3 DEF SweptJob, Expired, Prunable
    <3> QED
      BY <2>1, <2>2, <3>1 DEF JobAgrees
  <2>4. CASE j \in Prunable(core)
    <3>1. /\ core.jobs[j].status \in {"DONE", "FAILED"} /\ core.jobs[j].due
          /\ c.jobs[j].status = "ABSENT"
      BY <2>1, <2>4, FreshJobs DEF SweptJob, Expired, Prunable
    <3> QED
      BY <2>1, <2>2, <2>4, <3>1 DEF JobAgrees
  <2>5. CASE j \notin Expired(core) \cup Prunable(core)
    BY <2>1, <2>2, <2>5 DEF JobAgrees, SweptJob
  <2> QED
    BY <2>3, <2>4, <2>5
<1> QED
  BY <1>1, <1>2, <1>3

-------------------------------------------------------------------------------
(* Requests *)

(* A request leaves the queue d behind: it suffices to look at d, at its files,
   and at every index the save may leave, job by job. *)
LEMMA RequestKeeps ==
  ASSUME QueueInv, NEW c \in Swept(core), NEW d, Sound(d), NEW saved \in BOOLEAN,
         core' = d, Persist(c, d, saved), FilesTyped', UNCHANGED <<alive, crashes>>,
         \A j \in Jobs, x \in IF saved THEN {d} ELSE {index, c} :
           JobAgrees(d.jobs[j], x.jobs[j], handed'[j], results'[j], acked'[j])
  PROVE  QueueInv'
<1>1. /\ index' \in IF saved THEN {d} ELSE {index, c}
      /\ saveFailures' \in Nat
      /\ saveFailures' = 0 => saved
  BY DEF Persist, SweptIndex, QueueInv, RestTyped
<1>2. Sound(c) /\ Sound(index)
  BY SweepSound DEF QueueInv
<1>3. Sound(core)' /\ Sound(index)'
  <2>1. Sound(core')
    OBVIOUS
  <2>2. Sound(index')
    BY <1>1, <1>2
  <2> QED
    BY <2>1, <2>2 DEF Sound, LineOf, OneLeaseEach, AttemptLeft
<1>4. SavedIsCore'
  BY <1>1 DEF SavedIsCore
<1>5. RestTyped'
  BY <1>1 DEF QueueInv, RestTyped
<1> QED
  BY <1>1, <1>3, <1>4, <1>5 DEF QueueInv

LEMMA SweepStep ==
  ASSUME QueueInv, Sweep
  PROVE  QueueInv'
<1>1. PICK c \in Swept(core), saved \in BOOLEAN :
        /\ c # core /\ core' = c
        /\ IF saved THEN index' = c /\ UNCHANGED saveFailures
           ELSE saveFailures' = saveFailures + 1 /\ UNCHANGED index
  BY DEF Sweep
<1>2. index' \in {index, c}
  BY <1>1
<1>3. /\ requests' = SweptRequests(Prunable(core)) /\ results' = SweptResults(Prunable(core))
      /\ acked' = SweptAcks(Prunable(core)) /\ UNCHANGED <<handed, alive, crashes>>
  BY DEF Sweep
<1>4. /\ Sound(core') /\ Sound(index')
      /\ \A j \in Jobs : JobAgrees(core'.jobs[j], index'.jobs[j], handed[j], results'[j], acked'[j])
  BY <1>1, <1>2, <1>3, SweepAgrees
<1>5. FilesTyped'
  BY <1>1, <1>3, SweepAgrees DEF QueueInv, FilesTyped
<1>6. RestTyped' /\ SavedIsCore'
  BY <1>1, <1>3 DEF QueueInv, RestTyped, SavedIsCore
<1> QED
  BY <1>3, <1>4, <1>5, <1>6 DEF QueueInv, Sound, LineOf, OneLeaseEach, AttemptLeft

LEMMA SubmitStep ==
  ASSUME QueueInv, NEW j \in Jobs, Submit(j)
  PROVE  QueueInv'
<1>1. PICK c \in Swept(core), saved \in BOOLEAN :
        /\ c.jobs[j] = NoJob
        /\ core' = [jobs |-> [c.jobs EXCEPT ![j] = NewJob], order |-> Append(c.order, j)]
        /\ Persist(c, core', saved)
        /\ requests' = IF saved THEN SweptRequests(Prunable(core)) \cup {j}
                       ELSE SweptRequests(Prunable(core)) \ {j}
        /\ results' = SweptResults(Prunable(core))
        /\ acked' = [SweptAcks(Prunable(core)) EXCEPT ![j] = IF saved THEN "submitted" ELSE "none"]
        /\ handed' = [handed EXCEPT ![j] = 0]
        /\ UNCHANGED <<alive, crashes>>
  BY DEF Submit
<1>2. Sound(c) /\ c \in Core
  BY SweepAgrees DEF Sound
<1> DEFINE d == [jobs |-> [c.jobs EXCEPT ![j] = NewJob], order |-> Append(c.order, j)]
<1>3. Append(c.order, j) = c.order \o <<j>>
  BY <1>2, CoreParts, AppendIsConcat
<1>4. Sound(d)
  BY <1>1, <1>2, <1>3, FreshJobs, SoundJoin
<1>5. d.jobs[j] = NewJob /\ \A k \in Jobs \ {j} : d.jobs[k] = c.jobs[k]
  BY <1>2, CoreParts
<1>6. FilesTyped'
  BY <1>1, SweepAgrees DEF QueueInv, FilesTyped
<1>7. core' = d
  BY <1>1
<1> HIDE DEF d
<1>8. ASSUME NEW k \in Jobs, NEW x \in IF saved THEN {d} ELSE {index, c}
      PROVE  JobAgrees(d.jobs[k], x.jobs[k], handed'[k], results'[k], acked'[k])
  <2>1. \A y \in {index, c} :
          JobAgrees(c.jobs[k], y.jobs[k], handed[k], SweptResults(Prunable(core))[k],
                    SweptAcks(Prunable(core))[k])
    BY SweepAgrees
  <2>2. CASE k # j
    <3>1. /\ handed'[k] = handed[k] /\ acked'[k] = SweptAcks(Prunable(core))[k]
          /\ results'[k] = SweptResults(Prunable(core))[k] /\ d.jobs[k] = c.jobs[k]
      BY <2>2, <1>1, <1>5 DEF QueueInv, FilesTyped, SweptAcks
    <3> QED
      BY <3>1, <2>1
  <2>3. CASE k = j
    <3>1. handed'[k] = 0 /\ acked'[k] = IF saved THEN "submitted" ELSE "none"
      BY <2>3, <1>1 DEF QueueInv, FilesTyped, SweptAcks
    <3>2. d.jobs[k].status = "QUEUED" /\ d.jobs[k].attempts = 0 /\ c.jobs[k].status = "ABSENT"
      BY <2>3, <1>1, <1>5, FreshJobs
    <3>3. x.jobs[k].attempts \in Nat
      BY <1>2, <1>4, CoreParts DEF QueueInv, Sound
    <3>4. x.jobs[k].status = "DONE" /\ ~x.jobs[k].due => ~saved /\ c.jobs[k] = x.jobs[k]
      BY <2>1, <3>2 DEF JobAgrees
    <3> QED
      BY <3>1, <3>2, <3>3, <3>4, QueueAssumption DEF JobAgrees
  <2> QED
    BY <2>2, <2>3
<1>9. Persist(c, d, saved) /\ UNCHANGED <<alive, crashes>>
  BY <1>1, <1>7
<1> QED
  BY <1>4, <1>6, <1>7, <1>8, <1>9, RequestKeeps

LEMMA LeaseStep ==
  ASSUME QueueInv, NEW n \in Nodes, Lease(n)
  PROVE  QueueInv'
<1>0. PICK c \in Swept(core), saved \in BOOLEAN : \E i \in DOMAIN c.order :
        /\ Eligible(c, n, c.order[i])
        /\ core' = LeasedTo(c, n, i)
        /\ Persist(c, core', saved)
        /\ handed' = IF saved THEN [handed EXCEPT ![c.order[i]] = @ + 1] ELSE handed
  BY DEF Lease, LeasedTo
<1>1. PICK i \in DOMAIN c.order :
        /\ Eligible(c, n, c.order[i])
        /\ core' = LeasedTo(c, n, i)
        /\ Persist(c, core', saved)
        /\ handed' = IF saved THEN [handed EXCEPT ![c.order[i]] = @ + 1] ELSE handed
  BY <1>0
<1>2. /\ requests' = SweptRequests(Prunable(core)) /\ results' = SweptResults(Prunable(core))
      /\ acked' = SweptAcks(Prunable(core)) /\ UNCHANGED <<alive, crashes>>
  BY DEF Lease
<1> DEFINE d == LeasedTo(c, n, i)
<1>3. Sound(c)
  BY SweepAgrees
<1>4. PICK j \in Jobs : j = c.order[i]
  BY <1>1, <1>3, SoundLease
<1>5. /\ Sound(d)
      /\ d.jobs[j] = [status |-> "LEASED", node |-> n, attempts |-> c.jobs[j].attempts + 1, due |-> FALSE]
      /\ \A k \in Jobs \ {j} : d.jobs[k] = c.jobs[k]
  BY <1>1, <1>3, <1>4, SoundLease
<1>6. core' = d /\ c.jobs[j].status = "QUEUED"
  BY <1>1, <1>4 DEF Eligible
<1>7. FilesTyped'
  BY <1>1, <1>2, <1>4, SweepAgrees DEF QueueInv, FilesTyped
<1>8. Persist(c, d, saved)
  BY <1>1
<1> HIDE DEF d
<1>9. ASSUME NEW k \in Jobs, NEW x \in IF saved THEN {d} ELSE {index, c}
      PROVE  JobAgrees(d.jobs[k], x.jobs[k], handed'[k], results'[k], acked'[k])
  <2>1. \A y \in {index, c} :
          JobAgrees(c.jobs[k], y.jobs[k], handed[k], results'[k], acked'[k])
    BY <1>2, SweepAgrees
  <2>2. CASE k # j
    <3>1. handed'[k] = handed[k] /\ d.jobs[k] = c.jobs[k]
      BY <2>2, <1>1, <1>4, <1>5 DEF QueueInv, FilesTyped
    <3> QED
      BY <3>1, <2>1 DEF JobAgrees
  <2>3. CASE k = j
    <3>1. /\ handed[k] \in Nat /\ handed'[k] = IF saved THEN handed[k] + 1 ELSE handed[k]
      BY <2>3, <1>1, <1>4 DEF QueueInv, FilesTyped
    <3>2. /\ d.jobs[k].status = "LEASED" /\ d.jobs[k].attempts = c.jobs[k].attempts + 1
          /\ ~d.jobs[k].due /\ c.jobs[k].status = "QUEUED"
          /\ c.jobs[k].attempts \in Nat /\ c.jobs[k].attempts < MaxAttempts
      BY <2>3, <1>3, <1>5, <1>6, CoreParts DEF Sound, AttemptLeft
    <3>3. CASE saved
      BY <2>1, <3>1, <3>2, <3>3, QueueAssumption DEF JobAgrees
    <3>4. CASE ~saved
      BY <2>1, <3>1, <3>2, <3>4, QueueAssumption DEF JobAgrees
    <3> QED
      BY <3>3, <3>4
  <2> QED
    BY <2>2, <2>3
<1> QED
  BY <1>2, <1>5, <1>6, <1>7, <1>8, <1>9, RequestKeeps

(* A request of the holder that changes nothing in the line, or puts the job back. *)
LEMMA HeartbeatStep ==
  ASSUME QueueInv, NEW n \in Nodes, NEW j \in Jobs, Heartbeat(n, j)
  PROVE  QueueInv'
<1>1. PICK c \in Swept(core), saved \in BOOLEAN :
        /\ c.jobs[j].node = n /\ c.jobs[j].status = "LEASED"
        /\ core' = [c EXCEPT !.jobs[j].due = FALSE]
        /\ Persist(c, core', saved)
  BY DEF Heartbeat
<1>2. /\ requests' = SweptRequests(Prunable(core)) /\ results' = SweptResults(Prunable(core))
      /\ acked' = SweptAcks(Prunable(core)) /\ UNCHANGED <<handed, alive, crashes>>
  BY DEF Heartbeat
<1>3. Sound(c) /\ c \in Core
  BY SweepAgrees DEF Sound
<1> DEFINE job == [c.jobs[j] EXCEPT !.due = FALSE]
           d == [jobs |-> [c.jobs EXCEPT ![j] = job], order |-> c.order]
<1>4. job \in Job /\ job.status = "LEASED" /\ job.node = n /\ job.attempts = c.jobs[j].attempts
  <2>1. c.jobs[j] \in Job
    BY <1>3, CoreParts
  <2> QED
    BY <1>1, <2>1 DEF Job
<1>5. core' = d
  BY <1>1, <1>3 DEF Core
<1> HIDE DEF job
<1>6. Sound(d)
  BY <1>1, <1>3, <1>4, SoundChange
<1>7. d.jobs[j] = job /\ \A k \in Jobs \ {j} : d.jobs[k] = c.jobs[k]
  BY <1>3, CoreParts
<1>8. FilesTyped'
  BY <1>2, SweepAgrees DEF QueueInv, FilesTyped
<1>9. Persist(c, d, saved)
  BY <1>1, <1>5
<1> HIDE DEF d
<1>10. ASSUME NEW k \in Jobs, NEW x \in IF saved THEN {d} ELSE {index, c}
       PROVE  JobAgrees(d.jobs[k], x.jobs[k], handed'[k], results'[k], acked'[k])
  <2>1. \A y \in {index, c} :
          JobAgrees(c.jobs[k], y.jobs[k], handed'[k], results'[k], acked'[k])
    BY <1>2, SweepAgrees
  <2>2. CASE k # j
    BY <2>1, <2>2, <1>7 DEF JobAgrees
  <2>3. CASE k = j
    BY <2>1, <2>3, <1>1, <1>4, <1>7 DEF JobAgrees
  <2> QED
    BY <2>2, <2>3
<1> QED
  BY <1>2, <1>5, <1>6, <1>8, <1>9, <1>10, RequestKeeps

LEMMA CompleteStep ==
  ASSUME QueueInv, NEW n \in Nodes, NEW j \in Jobs, Complete(n, j)
  PROVE  QueueInv'
<1>1. PICK c \in Swept(core), saved \in BOOLEAN :
        /\ c.jobs[j].node = n
        /\ \/ /\ c.jobs[j].status = "LEASED"
              /\ core' = [c EXCEPT !.jobs[j].status = "DONE", !.jobs[j].due = FALSE]
              /\ results' = [SweptResults(Prunable(core)) EXCEPT ![j] = n]
           \/ /\ c.jobs[j].status = "DONE"
              /\ core' = c
              /\ results' = SweptResults(Prunable(core))
        /\ Persist(c, core', saved)
        /\ acked' = IF saved THEN [SweptAcks(Prunable(core)) EXCEPT ![j] = "done"]
                    ELSE SweptAcks(Prunable(core))
  BY DEF Complete
<1>2. requests' = SweptRequests(Prunable(core)) /\ UNCHANGED <<handed, alive, crashes>>
  BY DEF Complete
<1>3. Sound(c) /\ c \in Core
  BY SweepAgrees DEF Sound
<1>4. FilesTyped'
  BY <1>1, <1>2, SweepAgrees DEF QueueInv, FilesTyped
<1>5. \A k \in Jobs : \A y \in {index, c} :
        JobAgrees(c.jobs[k], y.jobs[k], handed[k], SweptResults(Prunable(core))[k],
                  SweptAcks(Prunable(core))[k])
  BY SweepAgrees
<1>6. \A k \in Jobs : acked'[k] = IF saved /\ k = j THEN "done" ELSE SweptAcks(Prunable(core))[k]
  BY <1>1 DEF SweptAcks
<1>7. CASE c.jobs[j].status = "LEASED"
  <2> DEFINE job == [c.jobs[j] EXCEPT !.status = "DONE", !.due = FALSE]
             d == [jobs |-> [c.jobs EXCEPT ![j] = job], order |-> c.order]
  <2>1. /\ job \in Job /\ job.status = "DONE" /\ job.node = n
        /\ job.attempts = c.jobs[j].attempts
    <3>1. c.jobs[j] \in Job /\ c.jobs[j].node = n
      BY <1>1, <1>3, <1>7, CoreParts
    <3> QED
      BY <3>1 DEF Job, Statuses
  <2>2. core' = d
    <3>1. core' = [c EXCEPT !.jobs[j].status = "DONE", !.jobs[j].due = FALSE]
      BY <1>1, <1>7
    <3>2. c.jobs[j] \in Job /\ c \in [jobs : [Jobs -> Job], order : Seq(Jobs)]
      BY <1>3 DEF Core
    <3>3. core'.jobs = [c.jobs EXCEPT ![j] = job] /\ core'.order = c.order
      BY <3>1, <3>2 DEF Job
    <3>4. core' = [jobs |-> core'.jobs, order |-> core'.order]
      BY <3>1, <3>2
    <3> QED
      BY <3>3, <3>4
  <2> HIDE DEF job
  <2>3. Sound(d)
    BY <1>3, <1>7, <2>1, SoundChange
  <2>4. d.jobs[j] = job /\ \A k \in Jobs \ {j} : d.jobs[k] = c.jobs[k]
    BY <1>3, CoreParts
  <2>5. Persist(c, d, saved)
    BY <1>1, <2>2
  <2>6. \A k \in Jobs : results'[k] = IF k = j THEN n ELSE SweptResults(Prunable(core))[k]
    BY <1>1, <1>7 DEF SweptResults
  <2> HIDE DEF d
  <2>7. ASSUME NEW k \in Jobs, NEW x \in IF saved THEN {d} ELSE {index, c}
        PROVE  JobAgrees(d.jobs[k], x.jobs[k], handed'[k], results'[k], acked'[k])
    <3>1. handed'[k] = handed[k]
      BY <1>2
    <3>2. CASE k # j
      BY <3>1, <3>2, <1>5, <1>6, <2>4, <2>6 DEF JobAgrees
    <3>3. CASE k = j
      BY <3>1, <3>3, <1>5, <1>6, <1>7, <2>1, <2>4, <2>6 DEF JobAgrees
    <3> QED
      BY <3>2, <3>3
  <2> QED
    BY <1>2, <1>4, <2>2, <2>3, <2>5, <2>7, RequestKeeps
<1>8. CASE c.jobs[j].status = "DONE"
  <2>1. core' = c /\ results' = SweptResults(Prunable(core)) /\ Persist(c, c, saved)
    BY <1>1, <1>8
  <2>2. ASSUME NEW k \in Jobs, NEW x \in IF saved THEN {c} ELSE {index, c}
        PROVE  JobAgrees(c.jobs[k], x.jobs[k], handed'[k], results'[k], acked'[k])
    <3>1. /\ handed'[k] = handed[k] /\ results'[k] = SweptResults(Prunable(core))[k]
          /\ x \in {index, c}
      BY <1>2, <2>1
    <3>2. JobAgrees(c.jobs[k], x.jobs[k], handed'[k], results'[k], SweptAcks(Prunable(core))[k])
      BY <3>1, <1>5
    <3> QED
      BY <3>2, <1>6, <1>8 DEF JobAgrees
  <2> QED
    BY <1>2, <1>3, <1>4, <2>1, <2>2, RequestKeeps
<1> QED
  BY <1>1, <1>7, <1>8

LEMMA FailStep ==
  ASSUME QueueInv, NEW n \in Nodes, NEW j \in Jobs, NEW retryable \in BOOLEAN,
         Fail(n, j, retryable)
  PROVE  QueueInv'
<1>1. PICK c \in Swept(core), saved \in BOOLEAN :
        /\ c.jobs[j].node = n /\ c.jobs[j].status = "LEASED"
        /\ core' = [jobs  |-> [c.jobs EXCEPT ![j] = Settle(c.jobs[j], retryable)],
                    order |-> IF Settle(c.jobs[j], retryable).status = "QUEUED"
                              THEN Requeue(c.order, <<j>>) ELSE c.order]
        /\ Persist(c, core', saved)
  BY DEF Fail
<1>2. /\ requests' = SweptRequests(Prunable(core)) /\ results' = SweptResults(Prunable(core))
      /\ acked' = SweptAcks(Prunable(core)) /\ UNCHANGED <<handed, alive, crashes>>
  BY DEF Fail
<1>3. Sound(c) /\ c \in Core /\ c.jobs[j] \in Job
  BY SweepAgrees, CoreParts DEF Sound
<1> DEFINE job == Settle(c.jobs[j], retryable)
           d == [jobs |-> [c.jobs EXCEPT ![j] = job],
                 order |-> IF job.status = "QUEUED" THEN c.order \o <<j>> ELSE c.order]
<1>4. /\ job \in Job /\ job.attempts = c.jobs[j].attempts
      /\ job.status = "FAILED" \/ (job.status = "QUEUED" /\ job.attempts < MaxAttempts)
  BY <1>3, SettledJob
<1>5. core' = d
  BY <1>1 DEF Requeue
<1> HIDE DEF job
<1>6. Sound(d)
  <2>1. CASE job.status = "FAILED"
    BY <2>1, <1>1, <1>3, <1>4, SoundChange
  <2>2. CASE job.status = "QUEUED" /\ job.attempts < MaxAttempts
    BY <2>2, <1>1, <1>3, <1>4, SoundJoin
  <2> QED
    BY <2>1, <2>2, <1>4
<1>7. d.jobs[j] = job /\ \A k \in Jobs \ {j} : d.jobs[k] = c.jobs[k]
  BY <1>3, CoreParts
<1>8. FilesTyped'
  BY <1>2, SweepAgrees DEF QueueInv, FilesTyped
<1>9. Persist(c, d, saved)
  BY <1>1, <1>5
<1> HIDE DEF d
<1>10. ASSUME NEW k \in Jobs, NEW x \in IF saved THEN {d} ELSE {index, c}
       PROVE  JobAgrees(d.jobs[k], x.jobs[k], handed'[k], results'[k], acked'[k])
  <2>1. \A y \in {index, c} :
          JobAgrees(c.jobs[k], y.jobs[k], handed'[k], results'[k], acked'[k])
    BY <1>2, SweepAgrees
  <2>2. CASE k # j
    BY <2>1, <2>2, <1>7 DEF JobAgrees
  <2>3. CASE k = j
    BY <2>1, <2>3, <1>1, <1>4, <1>7 DEF JobAgrees
  <2> QED
    BY <2>2, <2>3
<1> QED
  BY <1>2, <1>5, <1>6, <1>8, <1>9, <1>10, RequestKeeps

-------------------------------------------------------------------------------
(* The environment *)

(* A lease or a retention runs out; nothing else of the job changes. *)
DueNow(c, j) == [c EXCEPT !.jobs[j].due = TRUE]

LEMMA SoundDue ==
  ASSUME NEW c, Sound(c), NEW j \in Jobs, Timed(c.jobs[j])
  PROVE  /\ Sound(DueNow(c, j))
         /\ DueNow(c, j).jobs[j] = [c.jobs[j] EXCEPT !.due = TRUE]
         /\ \A k \in Jobs \ {j} : DueNow(c, j).jobs[k] = c.jobs[k]
         /\ DueNow(c, j).order = c.order
<1> DEFINE job == [c.jobs[j] EXCEPT !.due = TRUE]
           d == [jobs |-> [c.jobs EXCEPT ![j] = job], order |-> c.order]
<1>1. c \in Core /\ c.jobs[j] \in Job
  BY CoreParts DEF Sound
<1>2. /\ job \in Job /\ job.status = c.jobs[j].status /\ job.node = c.jobs[j].node
      /\ job.status # "QUEUED"
  BY <1>1 DEF Job, Timed
<1>3. DueNow(c, j) = d
  <2>1. c \in [jobs : [Jobs -> Job], order : Seq(Jobs)]
    BY <1>1 DEF Core
  <2>2. DueNow(c, j).jobs = [c.jobs EXCEPT ![j] = job] /\ DueNow(c, j).order = c.order
    BY <2>1, <1>1 DEF DueNow, Job
  <2>3. PICK e : e = DueNow(c, j)
    OBVIOUS
  <2>4. e = [c EXCEPT !.jobs[j].due = TRUE]
    BY <2>3 DEF DueNow
  <2>5. e = [jobs |-> e.jobs, order |-> e.order]
    BY <2>1, <2>4
  <2> QED
    BY <2>2, <2>3, <2>5
<1>4. d.jobs[j] = job /\ d.order = c.order /\ \A k \in Jobs \ {j} : d.jobs[k] = c.jobs[k]
  BY <1>1, CoreParts
<1> HIDE DEF job
<1>5. Sound(d)
  BY <1>1, <1>2, SoundChange
<1> QED
  BY <1>3, <1>4, <1>5 DEF job

LEMMA RunOutStep ==
  ASSUME QueueInv, NEW j \in Jobs, RunOut(j)
  PROVE  QueueInv'
<1>1. /\ Timed(core.jobs[j]) /\ core' = DueNow(core, j)
      /\ index' = IF Timed(index.jobs[j]) THEN DueNow(index, j) ELSE index
      /\ UNCHANGED <<requests, results, handed, acked, alive, saveFailures, crashes>>
  BY DEF RunOut, DueNow, files, history
<1>2. Sound(core') /\ Sound(index')
  BY <1>1, SoundDue DEF QueueInv
<1>3. ASSUME NEW k \in Jobs
      PROVE  JobAgrees(core'.jobs[k], index'.jobs[k], handed[k], results[k], acked[k])
  <2>1. JobAgrees(core.jobs[k], index.jobs[k], handed[k], results[k], acked[k])
    BY DEF QueueInv
  <2>2. CASE k # j
    <3>0. Sound(core) /\ Sound(index) /\ k \in Jobs \ {j}
      BY <2>2 DEF QueueInv
    <3>1. DueNow(core, j).jobs[k] = core.jobs[k]
      BY <3>0, <1>1, SoundDue
    <3>2. CASE Timed(index.jobs[j])
      <4>1. DueNow(index, j).jobs[k] = index.jobs[k]
        BY <3>0, <3>2, SoundDue
      <4> QED
        BY <2>1, <3>1, <3>2, <4>1, <1>1
    <3>3. CASE ~Timed(index.jobs[j])
      BY <2>1, <3>1, <3>3, <1>1
    <3> QED
      BY <3>2, <3>3
  <2>3. CASE k = j
    <3>1. core.jobs[k] \in Job /\ index.jobs[k] \in Job
      BY CoreParts DEF QueueInv, Sound
    <3>2. /\ core'.jobs[k] = [core.jobs[k] EXCEPT !.due = TRUE]
          /\ index'.jobs[k] = IF Timed(index.jobs[k]) THEN [index.jobs[k] EXCEPT !.due = TRUE]
                              ELSE index.jobs[k]
      BY <2>3, <1>1, SoundDue DEF QueueInv
    <3>3. /\ core'.jobs[k].status = core.jobs[k].status
          /\ core'.jobs[k].node = core.jobs[k].node
          /\ core'.jobs[k].attempts = core.jobs[k].attempts
      BY <3>1, <3>2 DEF Job
    <3>4. /\ index'.jobs[k].status = index.jobs[k].status
          /\ index'.jobs[k].attempts = index.jobs[k].attempts
          /\ index.jobs[k].status = "DONE" => index'.jobs[k].due
      BY <3>1, <3>2 DEF Job, Timed
    <3> QED
      BY <2>1, <3>3, <3>4 DEF JobAgrees
  <2> QED
    BY <2>2, <2>3
<1>4. SavedIsCore'
  BY <1>1 DEF QueueInv, SavedIsCore
<1> QED
  BY <1>1, <1>2, <1>3, <1>4 DEF QueueInv, FilesTyped, RestTyped, Sound, LineOf, OneLeaseEach, AttemptLeft

LEMMA RunOutOnDiskStep ==
  ASSUME QueueInv, NEW j \in Jobs, RunOutOnDisk(j)
  PROVE  QueueInv'
<1>1. /\ Timed(index.jobs[j]) /\ index' = DueNow(index, j) /\ index # core
      /\ UNCHANGED <<core, requests, results, handed, acked, alive, saveFailures, crashes>>
  BY DEF RunOutOnDisk, DueNow, files, history
<1>2. Sound(index')
  BY <1>1, SoundDue DEF QueueInv
<1>3. ASSUME NEW k \in Jobs
      PROVE  JobAgrees(core.jobs[k], index'.jobs[k], handed[k], results[k], acked[k])
  <2>1. JobAgrees(core.jobs[k], index.jobs[k], handed[k], results[k], acked[k])
    BY DEF QueueInv
  <2>2. CASE k # j
    <3>1. Sound(index) /\ Timed(index.jobs[j]) /\ k \in Jobs \ {j}
      BY <2>2, <1>1 DEF QueueInv
    <3>2. DueNow(index, j).jobs[k] = index.jobs[k]
      BY <3>1, SoundDue
    <3> QED
      BY <2>1, <3>2, <1>1
  <2>3. CASE k = j
    <3>1. index.jobs[k] \in Job
      BY CoreParts DEF QueueInv, Sound
    <3>2. index'.jobs[k] = [index.jobs[k] EXCEPT !.due = TRUE]
      BY <2>3, <1>1, SoundDue DEF QueueInv
    <3>3. /\ index'.jobs[k].status = index.jobs[k].status
          /\ index'.jobs[k].attempts = index.jobs[k].attempts
          /\ index'.jobs[k].due
      BY <3>1, <3>2 DEF Job
    <3> QED
      BY <2>1, <3>3 DEF JobAgrees
  <2> QED
    BY <2>2, <2>3
<1>4. SavedIsCore'
  BY <1>1 DEF QueueInv, SavedIsCore
<1> QED
  BY <1>1, <1>2, <1>3, <1>4 DEF QueueInv, FilesTyped, RestTyped, Sound, LineOf, OneLeaseEach, AttemptLeft

LEMMA RestartStep ==
  ASSUME QueueInv, Restart
  PROVE  QueueInv'
<1>1. PICK c \in Swept(index) : core' = c /\ index' = c
  BY DEF Restart
<1>2. PICK torn \in TornResults :
        results' = [j \in Jobs |-> IF j \in Prunable(index) THEN NoNode ELSE torn[j]]
  BY DEF Restart
<1>3. PICK left \in TornRequests : requests' = left \ Prunable(index)
  BY DEF Restart
<1>4. /\ crashes' = crashes + 1 /\ acked' = SweptAcks(Prunable(index))
      /\ UNCHANGED <<handed, alive, saveFailures>>
  BY DEF Restart
<1>5. Sound(c) /\ \A j \in Jobs : SweptJob(c, index, j)
  BY SweepSound DEF QueueInv
<1>6. \A j \in Jobs : core.jobs[j].node \in Nodes \cup {NoNode}
  BY CoreParts DEF QueueInv, Sound
<1>7. /\ torn \in [Jobs -> Nodes \cup {NoNode}]
      /\ \A j \in Jobs : core.jobs[j].status # "LEASED" => torn[j] = results[j]
  BY <1>6 DEF TornResults, QueueInv, FilesTyped
<1>8. FilesTyped'
  <2>1. requests' \subseteq Jobs
    BY <1>3 DEF TornRequests, QueueInv, FilesTyped
  <2>2. results' \in [Jobs -> Nodes \cup {NoNode}]
    BY <1>2, <1>7
  <2>3. acked' \in [Jobs -> {"none", "submitted", "done"}]
    BY <1>4 DEF SweptAcks, QueueInv, FilesTyped
  <2> QED
    BY <2>1, <2>2, <2>3, <1>4 DEF QueueInv, FilesTyped
<1>9. ASSUME NEW j \in Jobs
      PROVE  JobAgrees(c.jobs[j], c.jobs[j], handed[j], results'[j], acked'[j])
  <2>1. /\ JobAgrees(core.jobs[j], index.jobs[j], handed[j], results[j], acked[j])
        /\ SweptJob(c, index, j)
    BY <1>5 DEF QueueInv
  <2>2. /\ results'[j] = IF j \in Prunable(index) THEN NoNode ELSE torn[j]
        /\ acked'[j] = IF j \in Prunable(index) THEN "none" ELSE acked[j]
    BY <1>2, <1>4 DEF SweptAcks
  <2>3. CASE j \in Expired(index)
    <3>1. /\ index.jobs[j].status = "LEASED" /\ j \notin Prunable(index)
          /\ c.jobs[j].attempts = index.jobs[j].attempts
          /\ c.jobs[j].status \in {"FAILED", "QUEUED"}
      BY <2>1, <2>3 DEF SweptJob, Expired, Prunable
    <3> QED
      BY <2>1, <2>2, <3>1 DEF JobAgrees
  <2>4. CASE j \in Prunable(index)
    BY <2>1, <2>2, <2>4, FreshJobs DEF JobAgrees, SweptJob, Expired, Prunable
  <2>5. CASE j \notin Expired(index) \cup Prunable(index)
    <3>1. c.jobs[j] = index.jobs[j] /\ (index.jobs[j].status = "DONE" => ~index.jobs[j].due)
      BY <2>1, <2>5 DEF SweptJob, Prunable
    <3>2. index.jobs[j].status = "DONE" => core.jobs[j] = index.jobs[j] /\ torn[j] = results[j]
      BY <3>1, <2>1, <1>7 DEF JobAgrees
    <3> QED
      BY <2>1, <2>2, <2>5, <3>1, <3>2 DEF JobAgrees
  <2> QED
    BY <2>3, <2>4, <2>5
<1>10. RestTyped' /\ SavedIsCore'
  BY <1>1, <1>4 DEF QueueInv, RestTyped, SavedIsCore
<1> QED
  BY <1>1, <1>4, <1>5, <1>8, <1>9, <1>10 DEF QueueInv, Sound, LineOf, OneLeaseEach, AttemptLeft

-------------------------------------------------------------------------------
(* The invariant *)

LEMMA QueueStarts == Init => QueueInv
<1> SUFFICES ASSUME Init PROVE QueueInv
  OBVIOUS
<1>1. core = Empty /\ index = Empty
  BY DEF Init
<1>2. Empty \in Core /\ Empty.order = << >> /\ \A j \in Jobs : Empty.jobs[j] = NoJob
  BY FreshJobs DEF Empty, Core
<1>3. LineOf(Empty)
  <2>1. {j \in Jobs : Empty.jobs[j].status = "QUEUED"} = {}
    BY <1>2, FreshJobs
  <2> QED
    BY <2>1, <1>2 DEF LineOf, IsInjective, ToSet
<1>4. Sound(Empty)
  BY <1>2, <1>3, FreshJobs, QueueAssumption DEF Sound, OneLeaseEach, AttemptLeft
<1>5. \A j \in Jobs : JobAgrees(NoJob, NoJob, 0, NoNode, "none")
  BY FreshJobs, QueueAssumption DEF JobAgrees
<1> QED
  BY <1>1, <1>2, <1>4, <1>5 DEF Init, QueueInv, FilesTyped, RestTyped, SavedIsCore

LEMMA QueueSteps == QueueInv /\ [Next]_vars => QueueInv'
<1> SUFFICES ASSUME QueueInv, [Next]_vars PROVE QueueInv'
  OBVIOUS
<1>1. CASE Sweep
  BY <1>1, SweepStep
<1>2. ASSUME NEW j \in Jobs, Submit(j) \/ RunOut(j) \/ RunOutOnDisk(j) PROVE QueueInv'
  BY <1>2, SubmitStep, RunOutStep, RunOutOnDiskStep
<1>3. ASSUME NEW n \in Nodes, Lease(n) PROVE QueueInv'
  BY <1>3, LeaseStep
<1>4. ASSUME NEW n \in Nodes, NodeDies(n) PROVE QueueInv'
  BY <1>4 DEF NodeDies, files, history, QueueInv, FilesTyped, RestTyped, SavedIsCore,
              Sound, LineOf, OneLeaseEach, AttemptLeft
<1>5. ASSUME NEW n \in Nodes, NEW j \in Jobs,
             Heartbeat(n, j) \/ Complete(n, j) \/ \E retryable \in BOOLEAN : Fail(n, j, retryable)
      PROVE  QueueInv'
  BY <1>5, HeartbeatStep, CompleteStep, FailStep
<1>6. CASE Restart
  BY <1>6, RestartStep
<1>7. CASE UNCHANGED vars
  BY <1>7 DEF vars, files, history, QueueInv, FilesTyped, RestTyped, SavedIsCore,
              Sound, LineOf, OneLeaseEach, AttemptLeft
<1> QED
  BY <1>1, <1>2, <1>3, <1>4, <1>5, <1>6, <1>7 DEF Next

LEMMA QueueIsSound == Spec => []QueueInv
<1> QED
  BY QueueStarts, QueueSteps, PTL DEF Spec

-------------------------------------------------------------------------------
(* The line moves forward *)

(* Of one line, another: some join at the end, and at most one job leaves. *)
Onward(c, d) ==
  \E t \in Seq(Jobs) :
    \/ d.order = c.order \o t
    \/ IsInjective(c.order \o t) /\ \E i \in DOMAIN (c.order \o t) :
         d.order = RemoveAt(c.order \o t, i)

LEMMA Place ==
  ASSUME NEW c, c.order \in Seq(Jobs), IsInjective(c.order), NEW p \in 1 .. Len(c.order)
  PROVE  Cardinality(Ahead(c, c.order[p])) = p
<1>1. Len(c.order) \in Nat /\ DOMAIN c.order = 1 .. Len(c.order)
  BY LenProperties
<1>2. \A k \in 1 .. Len(c.order) : c.order[k] = c.order[p] => k = p
  BY <1>1 DEF IsInjective
<1>3. Ahead(c, c.order[p]) \subseteq 1 .. p
  <2> SUFFICES ASSUME NEW i \in Ahead(c, c.order[p]) PROVE i \in 1 .. p
    OBVIOUS
  <2>1. PICK k \in i .. Len(c.order) : c.order[k] = c.order[p]
    BY DEF Ahead
  <2>2. i \in 1 .. Len(c.order)
    BY <1>1 DEF Ahead
  <2>3. k = p
    BY <2>1, <2>2, <1>1, <1>2
  <2> QED
    BY <2>1, <2>2, <2>3, <1>1
<1>4. 1 .. p \subseteq Ahead(c, c.order[p])
  <2> SUFFICES ASSUME NEW i \in 1 .. p PROVE i \in Ahead(c, c.order[p])
    OBVIOUS
  <2>1. i \in DOMAIN c.order /\ p \in i .. Len(c.order)
    BY <1>1
  <2> QED
    BY <2>1 DEF Ahead
<1>5. Ahead(c, c.order[p]) = 1 .. p
  BY <1>3, <1>4
<1> QED
  BY <1>1, <1>5, FS_Interval

LEMMA JoinsInTurn ==
  ASSUME NEW r \in Seq(Jobs), NEW s \in Seq(Jobs), NEW t \in Seq(Jobs)
  PROVE  (r \o s) \o t = r \o (s \o t)
BY ConcatAssociative

LEMMA OnwardIsForward ==
  ASSUME NEW c, NEW d, Sound(c), Sound(d), Onward(c, d), NEW j \in Jobs,
         c.jobs[j].status = "QUEUED", d.jobs[j].status = "QUEUED"
  PROVE  Cardinality(Ahead(d, j)) <= Cardinality(Ahead(c, j))
<1>1. /\ c.order \in Seq(Jobs) /\ IsInjective(c.order) /\ j \in ToSet(c.order)
      /\ d.order \in Seq(Jobs) /\ IsInjective(d.order) /\ j \in ToSet(d.order)
  BY CoreParts DEF Sound, LineOf
<1>2. /\ Len(c.order) \in Nat /\ DOMAIN c.order = 1 .. Len(c.order)
      /\ Len(d.order) \in Nat /\ DOMAIN d.order = 1 .. Len(d.order)
  BY <1>1, LenProperties
<1>3. PICK p \in 1 .. Len(c.order) : c.order[p] = j
  BY <1>1, <1>2 DEF ToSet
<1>4. PICK q \in 1 .. Len(d.order) : d.order[q] = j
  BY <1>1, <1>2 DEF ToSet
<1>5. Cardinality(Ahead(c, j)) = p /\ Cardinality(Ahead(d, j)) = q
  BY <1>1, <1>3, <1>4, Place
<1>6. PICK t \in Seq(Jobs) :
        \/ d.order = c.order \o t
        \/ IsInjective(c.order \o t) /\ \E i \in DOMAIN (c.order \o t) :
             d.order = RemoveAt(c.order \o t, i)
  BY DEF Onward
<1> DEFINE u == c.order \o t
<1>7. /\ u \in Seq(Jobs) /\ Len(u) = Len(c.order) + Len(t) /\ Len(t) \in Nat
      /\ u[p] = j
  BY <1>1, <1>3, ConcatProperties, LenProperties
<1>8. DOMAIN u = 1 .. Len(u) /\ p \in 1 .. Len(u)
  BY <1>2, <1>7, LenProperties
<1>9. d.order = u \/ (IsInjective(u) /\ \E i \in DOMAIN u : d.order = RemoveAt(u, i))
  BY <1>6
<1> HIDE DEF u
<1>10. CASE d.order = u
  <2>1. q \in DOMAIN u /\ p \in DOMAIN u /\ u[q] = u[p]
    BY <1>10, <1>4, <1>7, <1>8
  <2>2. q = p
    BY <2>1, <1>1, <1>10 DEF IsInjective
  <2> QED
    BY <2>2, <1>2, <1>5
<1>11. ASSUME IsInjective(u), NEW i \in DOMAIN u, d.order = RemoveAt(u, i)
       PROVE  q <= p
  <2>1. /\ Len(d.order) = Len(u) - 1
        /\ \A k \in 1 .. Len(u) - 1 : d.order[k] = IF k < i THEN u[k] ELSE u[k + 1]
    BY <1>7, <1>11, TakenOut
  <2>2. i \in 1 .. Len(u) /\ Len(u) \in Nat /\ q \in 1 .. Len(u) - 1
    BY <1>2, <1>7, <1>8, <2>1
  <2>3. CASE q < i
    <3>1. d.order[q] = u[q]
      BY <2>1, <2>2, <2>3
    <3>2. u[q] = u[p] /\ q \in 1 .. Len(u)
      BY <3>1, <2>2, <1>4, <1>7
    <3>3. q = p
      BY <3>2, <1>8, <1>11 DEF IsInjective
    <3> QED
      BY <3>3, <1>2
  <2>4. CASE ~(q < i)
    <3>1. u[q + 1] = u[p] /\ q + 1 \in 1 .. Len(u)
      BY <2>1, <2>2, <2>4, <1>4, <1>7
    <3>2. q + 1 = p
      BY <3>1, <1>8, <1>11 DEF IsInjective
    <3> QED
      BY <3>2, <2>2
  <2> QED
    BY <2>3, <2>4
<1> QED
  BY <1>5, <1>9, <1>10, <1>11

(* Every step moves the line onward, a restart because the index was saved. *)
LEMMA StepsAreOnward ==
  ASSUME QueueInv, [Next]_vars, saveFailures' = 0
  PROVE  Onward(core, core')
<1>1. Sound(core) /\ core.order \in Seq(Jobs) /\ IsInjective(core.order)
  BY CoreParts DEF QueueInv, Sound, LineOf
<1>2. << >> \in Seq(Jobs) /\ core.order \o << >> = core.order
  BY <1>1, ConcatEmptySeq
<1>3. ASSUME core'.order = core.order PROVE Onward(core, core')
  BY <1>2, <1>3 DEF Onward
<1>4. ASSUME NEW c \in Swept(core) 
      PROVE  /\ Sound(c) /\ c.order \in Seq(Jobs) /\ IsInjective(c.order)
             /\ \E back \in Seq(Jobs) : c.order = core.order \o back
  BY <1>1, <1>4, SweepSound, CoreParts DEF Sound, LineOf
<1>5. ASSUME NEW c \in Swept(core), core'.order = c.order PROVE Onward(core, core')
  BY <1>4, <1>5 DEF Onward
<1>6. ASSUME NEW c \in Swept(core), NEW j \in Jobs, core'.order = c.order \o <<j>>
      PROVE  Onward(core, core')
  <2>1. PICK back \in Seq(Jobs) : c.order = core.order \o back
    BY <1>4
  <2>2. <<j>> \in Seq(Jobs)
    OBVIOUS
  <2> DEFINE one == <<j>>
  <2>3. one \in Seq(Jobs) /\ core'.order = c.order \o one
    BY <1>6, <2>2
  <2> HIDE DEF one
  <2>4. back \o one \in Seq(Jobs)
    BY <2>3, ConcatProperties
  <2>5. (core.order \o back) \o one = core.order \o (back \o one)
    BY <2>1, <2>3, <1>1, JoinsInTurn
  <2>6. core'.order = core.order \o (back \o one)
    BY <2>1, <2>3, <2>5
  <2> QED
    BY <2>4, <2>6 DEF Onward
<1>7. CASE Sweep
  BY <1>5, <1>7 DEF Sweep
<1>8. ASSUME NEW j \in Jobs, Submit(j) PROVE Onward(core, core')
  <2>1. PICK c \in Swept(core) : core'.order = Append(c.order, j)
    BY <1>8 DEF Submit
  <2>2. core'.order = c.order \o <<j>>
    BY <2>1, <1>4, AppendIsConcat
  <2> QED
    BY <2>2, <1>6
<1>9. ASSUME NEW j \in Jobs, RunOut(j) PROVE Onward(core, core')
  <2>1. core' = DueNow(core, j) /\ Timed(core.jobs[j])
    BY <1>9 DEF RunOut, DueNow
  <2> QED
    BY <2>1, <1>1, <1>3, SoundDue
<1>10. ASSUME NEW n \in Nodes, Lease(n) PROVE Onward(core, core')
  <2>1. PICK c \in Swept(core) : \E i \in DOMAIN c.order :
          Eligible(c, n, c.order[i]) /\ core' = LeasedTo(c, n, i)
    BY <1>10 DEF Lease, LeasedTo
  <2>2. PICK i \in DOMAIN c.order : core'.order = RemoveAt(c.order, i)
    <3>1. PICK i \in DOMAIN c.order : Eligible(c, n, c.order[i]) /\ core' = LeasedTo(c, n, i)
      BY <2>1
    <3>2. core'.order = RemoveAt(c.order, i)
      BY <1>4, <3>1, SoundLease
    <3> QED
      BY <3>2
  <2>3. PICK back \in Seq(Jobs) : c.order = core.order \o back
    BY <1>4
  <2> QED
    BY <2>2, <2>3, <1>4 DEF Onward
<1>11. ASSUME NEW n \in Nodes, NEW j \in Jobs, Heartbeat(n, j) PROVE Onward(core, core')
  <2>1. PICK c \in Swept(core) : core' = [c EXCEPT !.jobs[j].due = FALSE]
    BY <1>11 DEF Heartbeat
  <2>2. core'.order = c.order
    BY <2>1, <1>4 DEF Sound, Core
  <2> QED
    BY <2>2, <1>5
<1>12. ASSUME NEW n \in Nodes, NEW j \in Jobs, Complete(n, j) PROVE Onward(core, core')
  <2>1. PICK c \in Swept(core) :
          core' = c \/ core' = [c EXCEPT !.jobs[j].status = "DONE", !.jobs[j].due = FALSE]
    BY <1>12 DEF Complete
  <2>2. core'.order = c.order
    BY <2>1, <1>4 DEF Sound, Core
  <2> QED
    BY <2>2, <1>5
<1>13. ASSUME NEW n \in Nodes, NEW j \in Jobs, NEW retryable \in BOOLEAN, Fail(n, j, retryable)
       PROVE  Onward(core, core')
  <2>0. PICK c \in Swept(core) :
          core' = [jobs  |-> [c.jobs EXCEPT ![j] = Settle(c.jobs[j], retryable)],
                   order |-> IF Settle(c.jobs[j], retryable).status = "QUEUED"
                             THEN c.order \o <<j>> ELSE c.order]
    BY <1>13 DEF Fail, Requeue
  <2>1. core'.order = c.order \o <<j>> \/ core'.order = c.order
    BY <2>0
  <2> QED
    BY <2>1, <1>5, <1>6
<1>14. CASE Restart
  <2>1. index = core
    BY <1>14 DEF Restart, QueueInv, SavedIsCore
  <2>2. core' \in Swept(core)
    BY <2>1, <1>14 DEF Restart
  <2> QED
    BY <2>2, <1>5
<1>15. CASE UNCHANGED core
  BY <1>3, <1>15
<1>16. QED
  BY <1>7, <1>8, <1>9, <1>10, <1>11, <1>12, <1>13, <1>14, <1>15
     DEF Next, vars, RunOutOnDisk, NodeDies

-------------------------------------------------------------------------------
(* The theorems *)

(* The memory, the index file, the request and result files and the histories
   keep their types; no job passes its last attempt. *)
THEOREM QueueTypeCorrect == Spec => []TypeOK
<1>1. QueueInv => TypeOK
  BY DEF QueueInv, FilesTyped, RestTyped, Sound, TypeOK
<1> QED
  BY <1>1, QueueIsSound, PTL

(* Over every order of expiries, reports, sweeps, lost saves and restarts, the
   line has every waiting job once, a job is leased at most MaxAttempts times
   and a node has at most one GPU lease.  (queue-core.ts, queue-store.ts) *)
THEOREM LeasesAreSoundAlways == Spec => []LeasesAreSound
<1>1. ASSUME QueueInv PROVE LineIsQueued
  BY <1>1 DEF QueueInv, Sound, LineIsQueued
<1>2. ASSUME QueueInv PROVE LeasedAtMostTwice
  BY <1>2 DEF QueueInv, JobAgrees, LeasedAtMostTwice
<1>3. ASSUME QueueInv PROVE OneProofPerNode
  BY <1>3 DEF QueueInv, Sound, OneLeaseEach, OneProofPerNode
<1>4. QueueInv => LeasesAreSound
  BY <1>1, <1>2, <1>3 DEF LeasesAreSound
<1> QED
  BY <1>4, QueueIsSound, PTL

(* The result file of a DONE job is the recorded holder's, and what a caller was
   told, submitted or done, is in the index until the job is forgotten.
   (complete, persist, the constructor) *)
THEOREM ResultsAreKeptAlways == Spec => []ResultsAreKept
<1>1. QueueInv => ResultsAreKept
  BY DEF QueueInv, JobAgrees, ResultsAreKept, ResultIsHolders, AckedIsDurable
<1> QED
  BY <1>1, QueueIsSound, PTL

(* While no save was lost, a waiting job never has more jobs before it than it
   had, whatever joins, leaves, expires or restarts.  (lease,
   settleFailedAttempt, snapshot, restore) *)
THEOREM PositionNeverGrowsAlways == Spec => PositionNeverGrows
<1> DEFINE Forward ==
      \A j \in Jobs :
        (core.jobs[j].status = "QUEUED" /\ core'.jobs[j].status = "QUEUED" /\ saveFailures' = 0)
          => Cardinality(Ahead(core', j)) <= Cardinality(Ahead(core, j))
<1>1. ASSUME QueueInv, QueueInv', [Next]_vars PROVE Forward
  <2> SUFFICES ASSUME NEW j \in Jobs, core.jobs[j].status = "QUEUED",
                      core'.jobs[j].status = "QUEUED", saveFailures' = 0
               PROVE  Cardinality(Ahead(core', j)) <= Cardinality(Ahead(core, j))
    OBVIOUS
  <2>1. Sound(core) /\ Sound(core')
    BY <1>1 DEF QueueInv, Sound, LineOf, OneLeaseEach, AttemptLeft
  <2>2. Onward(core, core')
    BY <1>1, StepsAreOnward
  <2> QED
    BY <2>1, <2>2, OnwardIsForward
<1>2. QueueInv /\ QueueInv' /\ [Next]_vars => [Forward]_vars
  BY <1>1
<1>3. [][Next]_vars /\ []QueueInv => [][Forward]_vars
  BY <1>2, PTL
<1> QED
  BY <1>3, QueueIsSound, PTL DEF Spec, PositionNeverGrows

-------------------------------------------------------------------------------
(* The watch on L1: its inductive invariant. *)

USE WatcherAssumption

Blocks == [fork : Nat, tx : Nat]
Receipts == [number : Nat, fork : Nat, tx : Nat, success : BOOLEAN]

(* a block that replaces another is of a later fork *)
ForksAreOld == \A h \in 1 .. Len(chain) : chain[h].fork <= forks

(* A receipt was true of the chain when it was read, and what it says of its block
   stays true as long as that block is canonical: the blocks below it are the same. *)
ReceiptWasTrue ==
  receipt # NoReceipt =>
    /\ receipt.number \in 1 .. Len(chain) /\ receipt.fork <= forks
    /\ Canonical(receipt) => ReceiptAt(receipt.number) = receipt

Reading == {"canonical", "stale", "finality", "recheckReceipt", "recheckBlock", "finalized"}
Announced == {"finality", "recheckReceipt", "recheckBlock", "finalized"}
Final == {"recheckReceipt", "recheckBlock", "finalized"}

(* what the loop knows of the receipt at the read it awaits *)
ReadIsOfReceipt ==
  /\ pc \in Reading => receipt # NoReceipt /\ receipt.tx = hash /\ receipt.success
  /\ pc \in Final => receipt.number <= final
  /\ pc = "finalized" => Canonical(receipt)

(* what the caller was told is the placement the loop remembers *)
CallerIsTold ==
  /\ pc \notin {"broadcast", "givingUp"} \cup Ends => told = accepted
  /\ pc = "missing" => accepted = NoPlacement
  /\ pc \in {"broadcast", "givingUp"} => told = NoPlacement
  /\ pc \in Announced => accepted = Placement(receipt)

(* a poll, a broadcast may follow *)
BudgetIsLeft ==
  /\ pc = "poll" => missingPolls < MissingPollsBeforeResubmit
  /\ pc \in {"canonical", "finality", "recheckReceipt", "recheckBlock"} => missingPolls = 0
  /\ pc = "broadcast" => resubmissions < MaxResubmissions

WatchInv == WatchTypeOK /\ ForksAreOld /\ ReceiptWasTrue /\ ReadIsOfReceipt /\ CallerIsTold /\ BudgetIsLeft

-----------------------------------------------------------------------------
(* L1 *)

LEMMA ChainType ==
  ASSUME WatchTypeOK
  PROVE  /\ Len(chain) \in Nat /\ DOMAIN chain = 1 .. Len(chain)
         /\ \A h \in 1 .. Len(chain) : chain[h] \in Blocks
         /\ hash \in Nat \ {0} /\ final \in 0 .. Len(chain) /\ forks \in Nat
<1>1. chain \in Seq(Blocks)
  BY DEF WatchTypeOK, Blocks
<1>2. Len(chain) \in Nat /\ DOMAIN chain = 1 .. Len(chain)
  BY <1>1, LenProperties
<1>3. \A h \in 1 .. Len(chain) : chain[h] \in Blocks
  BY <1>1, ElementOfSeq
<1> QED BY <1>2, <1>3 DEF WatchTypeOK

(* what a block says of its transaction depends on the blocks up to it *)
LEMMA SamePrefix ==
  ASSUME NEW k \in Nat, \A h \in 1 .. k : chain'[h] = chain[h], NEW n \in 1 .. k
  PROVE  Succeeds(n)' = Succeeds(n) /\ ReceiptAt(n)' = ReceiptAt(n)
<1>1. \A g \in 1 .. n - 1 : chain'[g] = chain[g]
  OBVIOUS
<1>2. Succeeds(n)' = Succeeds(n)
  BY <1>1 DEF Succeeds
<1> QED BY <1>2 DEF ReceiptAt

(* L1 keeps the blocks up to k and what follows them is of a later fork *)
LEMMA Kept ==
  ASSUME WatchInv, WatchTypeOK', NEW k \in final .. Len(chain), Len(chain') >= Len(chain),
         \A h \in 1 .. k : chain'[h] = chain[h],
         \A h \in k + 1 .. Len(chain') : chain'[h].fork = forks',
         k < Len(chain) => forks' = forks + 1, forks' >= forks,
         final' \in final .. Len(chain'), UNCHANGED watch
  PROVE  WatchInv'
<1> USE DEF watch
<1>1. /\ Len(chain) \in Nat /\ Len(chain)' \in Nat /\ forks \in Nat /\ forks' \in Nat
      /\ final \in Nat /\ final' \in Nat /\ receipt \in Receipts
  BY ChainType DEF WatchInv, WatchTypeOK, Receipts
<1>2. ForksAreOld'
  <2>1. \A h \in 1 .. Len(chain) : chain[h].fork \in Nat /\ chain[h].fork <= forks
    BY ChainType DEF WatchInv, ForksAreOld, Blocks
  <2>2. k \in Nat /\ k <= Len(chain)
    BY <1>1
  <2> SUFFICES ASSUME NEW h \in 1 .. Len(chain)' PROVE chain'[h].fork <= forks'
    BY DEF ForksAreOld
  <2>3. CASE h <= k
    BY <1>1, <2>1, <2>2, <2>3
  <2>4. CASE ~(h <= k)
    BY <1>1, <2>2, <2>4
  <2> QED BY <2>3, <2>4
<1>3. receipt # NoReceipt /\ receipt.number <= k =>
        /\ ReceiptAt(receipt.number)' = ReceiptAt(receipt.number)
        /\ Canonical(receipt)' = Canonical(receipt)
  <2> SUFFICES ASSUME receipt # NoReceipt, receipt.number <= k
               PROVE  /\ ReceiptAt(receipt.number)' = ReceiptAt(receipt.number)
                      /\ Canonical(receipt)' = Canonical(receipt)
    OBVIOUS
  <2>1. PICK n \in 1 .. k : n = receipt.number
    BY <1>1 DEF WatchInv, ReceiptWasTrue, Receipts
  <2>2. ReceiptAt(n)' = ReceiptAt(n) /\ k \in Nat
    BY <1>1, SamePrefix
  <2>3. receipt' = receipt /\ chain'[n] = chain[n]
    OBVIOUS
  <2>4. ReceiptAt(receipt.number)' = ReceiptAt(n)'
    BY <2>1, <2>3 DEF ReceiptAt, Succeeds
  <2> QED BY <2>1, <2>2, <2>3, <2>4 DEF Canonical
<1>4. receipt # NoReceipt /\ receipt.number > k => ~Canonical(receipt)' \/ k = Len(chain)
  BY <1>1 DEF WatchInv, ReceiptWasTrue, Canonical, Receipts
<1>5. ReceiptWasTrue'
  BY <1>1, <1>3, <1>4 DEF WatchInv, ReceiptWasTrue, Receipts
<1>6. ReadIsOfReceipt'
  BY <1>1, <1>3 DEF WatchInv, ReadIsOfReceipt, Receipts, Final, Reading
<1>7. CallerIsTold' /\ BudgetIsLeft'
  BY DEF WatchInv, CallerIsTold, BudgetIsLeft, Placement
<1> QED BY <1>2, <1>5, <1>6, <1>7 DEF WatchInv

LEMMA MineStep == ASSUME WatchInv, L1Mines PROVE WatchInv'
<1>1. PICK tx \in {NoTx} \cup (Sent \ Mined(chain)) : chain' = Append(chain, [fork |-> forks, tx |-> tx])
  BY DEF L1Mines
<1> DEFINE b == [fork |-> forks, tx |-> tx]
<1>2. b \in Blocks /\ chain \in Seq(Blocks) /\ b.fork = forks
  BY <1>1, ChainType DEF WatchInv, WatchTypeOK, Blocks, Sent, NoTx
<1> HIDE DEF b
<1>3. /\ chain' \in Seq(Blocks) /\ Len(chain') = Len(chain) + 1
      /\ chain'[Len(chain) + 1] = b /\ \A h \in 1 .. Len(chain) : chain'[h] = chain[h]
  BY <1>1, <1>2, AppendProperties DEF b
<1>4. Len(chain) \in Nat /\ final \in 0 .. Len(chain) /\ forks' = forks /\ final' = final /\ forks \in Nat
  BY ChainType DEF WatchInv, L1Mines
<1>5. WatchTypeOK'
  BY <1>3, <1>4 DEF WatchInv, WatchTypeOK, L1Mines, watch, Blocks
<1> QED BY <1>2, <1>3, <1>4, <1>5, Kept DEF L1Mines

LEMMA ReorgStep == ASSUME WatchInv, L1Reorganises PROVE WatchInv'
<1>1. PICK keep \in final .. Len(chain) - 1 :
      \E txs \in [(keep + 1) .. Len(chain) -> {NoTx} \cup (Sent \ Mined(SubSeq(chain, 1, keep)))] :
        chain' = [h \in DOMAIN chain |->
                    IF h <= keep THEN chain[h] ELSE [fork |-> forks + 1, tx |-> txs[h]]]
  BY DEF L1Reorganises
<1>2. PICK txs \in [(keep + 1) .. Len(chain) -> Nat] :
        chain' = [h \in DOMAIN chain |->
                    IF h <= keep THEN chain[h] ELSE [fork |-> forks + 1, tx |-> txs[h]]]
  BY <1>1, ChainType DEF WatchInv, Sent, NoTx
<1>3. /\ Len(chain) \in Nat /\ DOMAIN chain = 1 .. Len(chain) /\ final \in Nat /\ keep \in Nat /\ forks \in Nat
      /\ \A h \in 1 .. Len(chain) : chain[h] \in Blocks
  BY ChainType DEF WatchInv
<1>4. chain' \in [1 .. Len(chain) -> Blocks]
  BY <1>2, <1>3 DEF Blocks
<1>5. chain' \in Seq(Blocks) /\ Len(chain') = Len(chain)
  <2>1. chain' \in Seq(Blocks)
    BY <1>3, <1>4, SeqDef
  <2>2. DOMAIN chain' = 1 .. Len(chain) /\ DOMAIN chain' = 1 .. Len(chain') /\ Len(chain') \in Nat
    BY <1>4, <2>1, LenProperties
  <2> QED BY <1>3, <2>1, <2>2
<1>6. /\ \A h \in 1 .. keep : chain'[h] = chain[h]
      /\ \A h \in keep + 1 .. Len(chain) : chain'[h].fork = forks + 1
  BY <1>2, <1>3
<1>7. WatchTypeOK' /\ forks' = forks + 1 /\ final' = final /\ final \in 0 .. Len(chain)
  BY <1>3, <1>5 DEF WatchInv, WatchTypeOK, L1Reorganises, watch, Blocks
<1>8. UNCHANGED watch
  BY DEF L1Reorganises
<1>9. /\ keep \in final .. Len(chain) /\ Len(chain') >= Len(chain) /\ Len(chain') = Len(chain)
      /\ forks' >= forks /\ final' \in final .. Len(chain')
  BY <1>3, <1>5, <1>7
<1>10. \A h \in keep + 1 .. Len(chain') : chain'[h].fork = forks'
  BY <1>6, <1>7, <1>9
<1> QED BY <1>6, <1>7, <1>8, <1>9, <1>10, Kept

LEMMA FinalizeStep == ASSUME WatchInv, L1Finalizes PROVE WatchInv'
<1>1. /\ Len(chain) \in Nat /\ final \in 0 .. Len(chain) /\ forks \in Nat
      /\ UNCHANGED <<watch, late, chain, forks>> /\ final' = final + 1 /\ final < Len(chain)
  BY ChainType DEF WatchInv, L1Finalizes
<1>2. WatchTypeOK'
  BY <1>1 DEF WatchInv, WatchTypeOK, watch
<1> QED BY <1>1, <1>2, Kept

-----------------------------------------------------------------------------
(* The watch *)

(* what a read of the receipt returns was true of the chain now or earlier *)
LEMMA ReadsAreTrue ==
  ASSUME WatchInv, NEW r \in ReceiptReads, r # NoReceipt
  PROVE  /\ r \in Receipts /\ r.tx = hash
         /\ r.number \in 1 .. Len(chain) /\ r.fork <= forks
         /\ Canonical(r) => ReceiptAt(r.number) = r
<1>1. CASE r = receipt /\ receipt.tx = hash
  BY <1>1 DEF WatchInv, WatchTypeOK, Receipts, ReceiptWasTrue
<1>2. ASSUME NEW h \in DOMAIN chain, chain[h].tx = hash, r = ReceiptAt(h)
      PROVE  /\ r \in Receipts /\ r.tx = hash /\ r.number = h /\ r.fork = chain[h].fork
  BY <1>2, ChainType DEF WatchInv, ReceiptAt, Receipts, Blocks, Succeeds
<1> QED BY <1>1, <1>2, ChainType DEF ReceiptReads, WatchInv, ForksAreOld

(* a step of the loop keeps what it says of L1 *)
LEMMA LoopStep ==
  ASSUME WatchInv, UNCHANGED <<receipt, l1>>, WatchTypeOK',
         ReadIsOfReceipt', CallerIsTold', BudgetIsLeft'
  PROVE  WatchInv'
BY DEF WatchInv, ForksAreOld, ReceiptWasTrue, Canonical, ReceiptAt, Succeeds, l1

LEMMA WatchingStep == ASSUME WatchInv, WatchStep PROVE WatchInv'
<1> USE DEF l1, Goto, Throw, Reads, Ends, Reading, Announced, Final
<1>0. Len(chain) \in Nat /\ final \in 0 .. Len(chain) /\ receipt \in Receipts
  BY ChainType DEF WatchInv, WatchTypeOK, Receipts
<1>1. CASE BudgetSpent \/ GiveUp \/ ReadFails
  <2>1. UNCHANGED <<receipt, l1>> /\ pc' = "failed" /\ WatchTypeOK'
    BY <1>1 DEF BudgetSpent, GiveUp, ReadFails, WatchInv, WatchTypeOK
  <2>2. ReadIsOfReceipt' /\ CallerIsTold' /\ BudgetIsLeft'
    BY <2>1 DEF ReadIsOfReceipt, CallerIsTold, BudgetIsLeft
  <2> QED BY <2>1, <2>2, LoopStep
<1>2. CASE ReadReceiptMissing
  <2>1. UNCHANGED <<receipt, l1>> /\ pc' = "missing" /\ accepted' = NoPlacement /\ told' = NoPlacement
    BY <1>2 DEF ReadReceiptMissing, Retract, WatchInv, CallerIsTold
  <2>2. WatchTypeOK'
    BY <1>2, <2>1 DEF ReadReceiptMissing, WatchInv, WatchTypeOK, BudgetIsLeft, NoPlacement
  <2>3. ReadIsOfReceipt' /\ CallerIsTold' /\ BudgetIsLeft'
    BY <2>1 DEF ReadIsOfReceipt, CallerIsTold, BudgetIsLeft
  <2> QED BY <2>1, <2>2, <2>3, LoopStep
<1>3. CASE ReadReceiptFound
  <2>1. PICK r \in ReceiptReads \ {NoReceipt} :
          receipt' = r /\ pc' = IF r.success THEN "canonical" ELSE "reverted"
    BY <1>3 DEF ReadReceiptFound
  <2>2. /\ r \in Receipts /\ r.tx = hash /\ r # NoReceipt
        /\ r.number \in 1 .. Len(chain) /\ r.fork <= forks
        /\ Canonical(r) => ReceiptAt(r.number) = r
    BY <2>1, ReadsAreTrue
  <2>3. missingPolls' = 0 /\ pc = "poll" /\ UNCHANGED <<hash, resubmissions, accepted, told, late, l1>>
    BY <1>3 DEF ReadReceiptFound
  <2>4. WatchTypeOK'
    BY <2>1, <2>2, <2>3 DEF WatchInv, WatchTypeOK, Receipts
  <2>5. ReceiptWasTrue' /\ ForksAreOld'
    BY <2>1, <2>2, <2>3 DEF WatchInv, ReceiptWasTrue, ForksAreOld, Canonical, ReceiptAt, Succeeds
  <2>6. ReadIsOfReceipt' /\ CallerIsTold' /\ BudgetIsLeft'
    BY <2>1, <2>2, <2>3 DEF WatchInv, ReadIsOfReceipt, CallerIsTold, BudgetIsLeft
  <2> QED BY <2>4, <2>5, <2>6 DEF WatchInv
<1>4. CASE ReadLatestWhileMissing
  <2>1. /\ UNCHANGED <<receipt, hash, missingPolls, resubmissions, accepted, told, late, l1>> /\ pc = "missing"
        /\ \/ pc' = "failed"
           \/ /\ ~(missingPolls >= MissingPollsBeforeResubmit /\ resubmissions >= MaxResubmissions)
              /\ pc' = IF missingPolls >= MissingPollsBeforeResubmit THEN "broadcast" ELSE "poll"
    BY <1>4 DEF ReadLatestWhileMissing
  <2>2. WatchTypeOK'
    BY <2>1 DEF WatchInv, WatchTypeOK
  <2>3. ReadIsOfReceipt' /\ CallerIsTold'
    BY <2>1 DEF WatchInv, WatchTypeOK, ReadIsOfReceipt, CallerIsTold
  <2>4. BudgetIsLeft'
    BY <2>1 DEF WatchInv, WatchTypeOK, BudgetIsLeft
  <2> QED BY <2>1, <2>2, <2>3, <2>4, LoopStep
<1>5. CASE BroadcastIdenticalCalldata
  <2>1. /\ UNCHANGED <<receipt, told, late, l1>> /\ pc = "broadcast" /\ pc' = "poll"
        /\ hash' = hash + 1 /\ resubmissions' = resubmissions + 1 /\ missingPolls' = 0
        /\ accepted' = NoPlacement
    BY <1>5 DEF BroadcastIdenticalCalldata
  <2>2. WatchTypeOK'
    BY <2>1 DEF WatchInv, WatchTypeOK, BudgetIsLeft, NoPlacement
  <2>3. ReadIsOfReceipt' /\ CallerIsTold' /\ BudgetIsLeft'
    BY <2>1 DEF WatchInv, ReadIsOfReceipt, CallerIsTold, BudgetIsLeft
  <2> QED BY <2>1, <2>2, <2>3, LoopStep
<1>6. CASE ReadCanonicalBlock
  <2>1. UNCHANGED <<hash, receipt, missingPolls, resubmissions, late, l1>> /\ pc = "canonical"
    BY <1>6 DEF ReadCanonicalBlock
  <2>2. CASE ~Canonical(receipt)
    <3>1. pc' = "stale" /\ UNCHANGED <<accepted, told>>
      BY <1>6, <2>2 DEF ReadCanonicalBlock
    <3>2. WatchTypeOK' /\ ReadIsOfReceipt' /\ CallerIsTold' /\ BudgetIsLeft'
      BY <2>1, <3>1 DEF WatchInv, WatchTypeOK, ReadIsOfReceipt, CallerIsTold, BudgetIsLeft
    <3> QED BY <2>1, <3>2, LoopStep
  <2>3. CASE Canonical(receipt)
    <3>1. told = accepted
      BY <2>1 DEF WatchInv, CallerIsTold
    <3>2. pc' = "finality" /\ accepted' = Placement(receipt) /\ told' = Placement(receipt)
      BY <1>6, <2>3, <3>1 DEF ReadCanonicalBlock, Unannounced
    <3>3. Placement(receipt) \in Nat \X Nat
      BY <1>0 DEF Placement, Receipts
    <3>4. WatchTypeOK'
      BY <2>1, <3>2, <3>3 DEF WatchInv, WatchTypeOK
    <3>5. ReadIsOfReceipt' /\ BudgetIsLeft'
      BY <2>1, <3>2 DEF WatchInv, ReadIsOfReceipt, BudgetIsLeft
    <3>6. CallerIsTold'
      BY <2>1, <3>2 DEF CallerIsTold, Placement
    <3> QED BY <2>1, <3>4, <3>5, <3>6, LoopStep
  <2> QED BY <2>2, <2>3
<1>7. CASE ReadLatestWhileStale
  <2>1. /\ UNCHANGED <<hash, receipt, missingPolls, resubmissions, accepted, late, l1>> /\ told' = NoPlacement
        /\ pc' = "givingUp" \/ (pc' = "broadcast" /\ ~(resubmissions >= MaxResubmissions))
    BY <1>7 DEF ReadLatestWhileStale, Retract, WatchInv, CallerIsTold
  <2>2. WatchTypeOK' /\ BudgetIsLeft'
    BY <2>1 DEF WatchInv, WatchTypeOK, BudgetIsLeft, NoPlacement
  <2>3. ReadIsOfReceipt' /\ CallerIsTold'
    BY <2>1 DEF ReadIsOfReceipt, CallerIsTold
  <2> QED BY <2>1, <2>2, <2>3, LoopStep
<1>8. CASE ReadFinalizedBlock \/ RecheckReceipt \/ RecheckBlock
  <2>1. UNCHANGED <<hash, receipt, missingPolls, resubmissions, accepted, told, late, l1>>
    BY <1>8 DEF ReadFinalizedBlock, RecheckReceipt, RecheckBlock
  <2>2. \/ pc \in {"finality", "recheckReceipt", "recheckBlock"} /\ pc' = "poll"
        \/ pc = "finality" /\ pc' = "recheckReceipt" /\ final >= receipt.number
        \/ pc = "recheckReceipt" /\ pc' = "recheckBlock"
        \/ pc = "recheckBlock" /\ pc' = "finalized" /\ Canonical(receipt)
    BY <1>8 DEF ReadFinalizedBlock, RecheckReceipt, RecheckBlock
  <2>3. WatchTypeOK' /\ BudgetIsLeft'
    BY <2>1, <2>2 DEF WatchInv, WatchTypeOK, BudgetIsLeft
  <2>4. ReadIsOfReceipt'
    BY <1>0, <2>1, <2>2 DEF WatchInv, ReadIsOfReceipt, Canonical, Receipts
  <2>5. CallerIsTold'
    BY <2>1, <2>2 DEF WatchInv, CallerIsTold, Placement
  <2> QED BY <2>1, <2>3, <2>4, <2>5, LoopStep
<1> QED BY <1>1, <1>2, <1>3, <1>4, <1>5, <1>6, <1>7, <1>8 DEF WatchStep

-----------------------------------------------------------------------------
(* The invariant of the specification. *)

LEMMA WatchStarts == WatchInit => WatchInv
<1> SUFFICES ASSUME WatchInit PROVE WatchInv
  OBVIOUS
<1>1. chain \in Seq(Blocks) /\ Len(chain) = 0
  BY EmptySeq DEF WatchInit
<1>2. WatchTypeOK
  <2>1. pc = "poll" /\ pc \in Reads
    BY DEF WatchInit, Reads
  <2>2. NoReceipt \in Receipts /\ NoPlacement \in Nat \X Nat
    BY DEF NoReceipt, NoTx, NoPlacement, Receipts
  <2>3. hash = 1 /\ resubmissions = 0 /\ missingPolls = 0 /\ forks = 0 /\ final = 0
    BY DEF WatchInit
  <2>4. /\ hash \in 1 .. (MaxResubmissions + 1) /\ resubmissions = hash - 1
        /\ missingPolls \in 0 .. MissingPollsBeforeResubmit
        /\ forks \in 0 .. MaxForks /\ final \in 0 .. Len(chain)
    BY <1>1, <2>3
  <2>5. receipt \in Receipts /\ accepted \in Nat \X Nat /\ told \in Nat \X Nat
        /\ late \in BOOLEAN
    BY <2>2 DEF WatchInit
  <2> QED BY <1>1, <2>1, <2>4, <2>5 DEF WatchTypeOK, Blocks, Receipts
<1>3. ForksAreOld /\ ReceiptWasTrue
  BY <1>1 DEF WatchInit, ForksAreOld, ReceiptWasTrue
<1>4. ReadIsOfReceipt /\ CallerIsTold /\ BudgetIsLeft
  BY DEF WatchInit, ReadIsOfReceipt, CallerIsTold, BudgetIsLeft, Reading, Final, Announced, Ends
<1> QED BY <1>2, <1>3, <1>4 DEF WatchInv

LEMMA WatchStepsKeep == WatchInv /\ [WatchNext]_watchVars => WatchInv'
<1> SUFFICES ASSUME WatchInv, [WatchNext]_watchVars PROVE WatchInv'
  OBVIOUS
<1>1. CASE UNCHANGED watchVars
  BY <1>1 DEF watchVars, watch, l1, WatchInv, WatchTypeOK, ForksAreOld, ReceiptWasTrue, ReadIsOfReceipt,
    CallerIsTold, BudgetIsLeft, Canonical, ReceiptAt, Succeeds, Placement
<1>2. CASE SpendBudget
  BY <1>2, LoopStep DEF SpendBudget, watch, WatchInv, WatchTypeOK, ReadIsOfReceipt, Canonical,
    CallerIsTold, BudgetIsLeft, Placement, l1
<1> QED BY <1>1, <1>2, WatchingStep, MineStep, ReorgStep, FinalizeStep DEF WatchNext

LEMMA WatchInvariant == WatchSpec => []WatchInv
BY WatchStarts, WatchStepsKeep, PTL DEF WatchSpec

(* A settlement the watch returns is on L1 for good: no reorganisation between its reads
   or after them takes it back. *)
THEOREM FinalizedIsIrreversibleAlways == WatchSpec => []FinalizedIsIrreversible
<1>1. WatchInv => FinalizedIsIrreversible
  <2> SUFFICES ASSUME WatchInv, pc = "finalized"
               PROVE  /\ receipt.number \in 1 .. final /\ receipt.tx = hash
                      /\ ReceiptAt(receipt.number) = receipt /\ Succeeds(receipt.number)
    BY DEF FinalizedIsIrreversible
  <2>1. /\ receipt # NoReceipt /\ receipt.tx = hash /\ receipt.success
        /\ receipt.number <= final /\ Canonical(receipt)
    BY DEF WatchInv, ReadIsOfReceipt, Reading, Final
  <2>2. receipt.number \in 1 .. Len(chain) /\ ReceiptAt(receipt.number) = receipt
    BY <2>1 DEF WatchInv, ReceiptWasTrue
  <2>3. receipt.number \in 1 .. final
    BY <2>1, <2>2, ChainType DEF WatchInv
  <2>4. Succeeds(receipt.number)
    BY <2>1, <2>2 DEF ReceiptAt
  <2> QED BY <2>1, <2>2, <2>3, <2>4
<1> QED BY <1>1, WatchInvariant, PTL

-----------------------------------------------------------------------------
(* The calls the caller sees. *)

status == IF pc = "finalized" THEN pc
          ELSE IF pc \in Ends THEN "failed"
          ELSE IF told = NoPlacement THEN "pending" ELSE "accepted"
at == IF pc = "finalized" THEN Placement(receipt) ELSE told

(* a step that tells the caller nothing, and one that throws *)
LEMMA SilentStep ==
  ASSUME pc \notin Ends, pc' \notin Ends, UNCHANGED told
  PROVE  UNCHANGED <<status, at>>
BY DEF status, at, Ends

LEMMA ThrowStep ==
  ASSUME pc \notin Ends, pc' \in Ends \ {"finalized"}, UNCHANGED told
  PROVE  status \in {"pending", "accepted"} /\ status' = "failed" /\ at' = at
BY DEF status, at, Ends

LEMMA StepIsCall ==
  ASSUME WatchInv, [WatchNext]_watchVars
  PROVE  \/ UNCHANGED <<status, at>>
         \/ /\ status \in {"pending", "accepted"} /\ status' = "accepted"
            /\ at' \notin {at, NoPlacement}
         \/ status = "accepted" /\ status' = "pending" /\ at' = NoPlacement
         \/ status = "accepted" /\ status' = "finalized" /\ at' = at
         \/ status \in {"pending", "accepted"} /\ status' = "failed" /\ at' = at
<1> USE DEF Goto, Throw
<1>1. CASE UNCHANGED watchVars \/ SpendBudget \/ L1Mines \/ L1Reorganises \/ L1Finalizes
  <2>1. UNCHANGED <<pc, told, receipt>>
    BY <1>1 DEF watchVars, SpendBudget, L1Mines, L1Reorganises, L1Finalizes, watch
  <2> QED BY <2>1 DEF status, at, Placement
<1>2. CASE BudgetSpent \/ GiveUp \/ ReadFails
  <2>1. pc \notin Ends /\ pc' = "failed" /\ UNCHANGED told
    BY <1>2 DEF BudgetSpent, GiveUp, ReadFails, Ends
  <2> QED BY <2>1, ThrowStep DEF Ends
<1>3. CASE ReadReceiptFound
  <2>1. pc \notin Ends /\ pc' \in {"canonical", "reverted"} /\ UNCHANGED told
    BY <1>3 DEF ReadReceiptFound, Ends
  <2> QED BY <2>1, SilentStep, ThrowStep DEF Ends
<1>4. CASE ReadLatestWhileMissing \/ BroadcastIdenticalCalldata \/ ReadFinalizedBlock \/ RecheckReceipt
  <2>1. /\ pc \notin Ends /\ UNCHANGED told
        /\ pc' \in {"failed", "broadcast", "poll", "recheckReceipt", "recheckBlock"}
    BY <1>4 DEF ReadLatestWhileMissing, BroadcastIdenticalCalldata, ReadFinalizedBlock,
      RecheckReceipt, Ends
  <2> QED BY <2>1, SilentStep, ThrowStep DEF Ends
(* a retraction, of what was announced or of nothing *)
<1>5. CASE ReadReceiptMissing \/ ReadLatestWhileStale
  <2>1. /\ pc \in {"poll", "stale"} /\ pc' \in {"missing", "givingUp", "broadcast"}
        /\ told' = NoPlacement
    BY <1>5 DEF ReadReceiptMissing, ReadLatestWhileStale, Retract, WatchInv, CallerIsTold, Ends
  <2>2. /\ at = told /\ at' = NoPlacement /\ status' = "pending"
        /\ status = IF told = NoPlacement THEN "pending" ELSE "accepted"
    BY <2>1 DEF status, at, Ends
  <2> QED BY <2>2
(* an acceptance of the placement read, unless it is the one announced *)
<1>6. CASE ReadCanonicalBlock
  <2>1. pc = "canonical" /\ told = accepted
    BY <1>6 DEF ReadCanonicalBlock, WatchInv, CallerIsTold, Ends
  <2>2. CASE Canonical(receipt) /\ Unannounced(receipt)
    <3>1. pc' = "finality" /\ told' = Placement(receipt) /\ Placement(receipt) # told
      BY <1>6, <2>1, <2>2 DEF ReadCanonicalBlock, Unannounced
    <3>2. Placement(receipt) # NoPlacement
      BY <2>1, ChainType DEF WatchInv, ReadIsOfReceipt, ReceiptWasTrue, Reading, Placement, NoPlacement
    <3>3. /\ at = told /\ at' = Placement(receipt) /\ status' = "accepted"
          /\ status \in {"pending", "accepted"}
      BY <2>1, <3>1, <3>2 DEF status, at, Ends
    <3> QED BY <3>1, <3>2, <3>3
  <2>3. CASE ~(Canonical(receipt) /\ Unannounced(receipt))
    <3>1. pc' \in {"finality", "stale"} /\ UNCHANGED told
      BY <1>6, <2>3 DEF ReadCanonicalBlock
    <3> QED BY <2>1, <3>1, SilentStep DEF Ends
  <2> QED BY <2>2, <2>3
(* what returns was announced last, at the placement that returns *)
<1>7. CASE RecheckBlock
  <2>1. pc = "recheckBlock" /\ pc' \in {"finalized", "poll"} /\ UNCHANGED <<told, receipt>>
    BY <1>7 DEF RecheckBlock
  <2>2. told = accepted /\ accepted = Placement(receipt) /\ Placement(receipt) # NoPlacement
    BY <2>1, ChainType DEF WatchInv, CallerIsTold, ReadIsOfReceipt, ReceiptWasTrue, Reading,
      Announced, Ends, Placement, NoPlacement
  <2>3. CASE pc' = "finalized"
    <3>1. Placement(receipt)' = Placement(receipt)
      BY <2>1 DEF Placement
    <3>2. status = "accepted" /\ at = told /\ status' = "finalized" /\ at' = Placement(receipt)
      BY <2>1, <2>2, <2>3, <3>1 DEF status, at, Ends
    <3> QED BY <2>2, <3>2
  <2>4. CASE pc' = "poll"
    BY <2>1, <2>4, SilentStep DEF Ends
  <2> QED BY <2>1, <2>3, <2>4
<1> QED BY <1>1, <1>2, <1>3, <1>4, <1>5, <1>6, <1>7 DEF WatchNext, WatchStep

(* Every step of the watch is a call of Settlement or none: what is announced is a placement
   other than the one announced last, with or without a retraction between; what is retracted
   was announced; and a settlement that returns is at the placement announced last. *)
THEOREM SettlementIsImplemented == WatchSpec => ImplementsSettlement
<1>1. WatchInit => Caller!Init
  BY DEF WatchInit, Caller!Init, Ends
<1>2. WatchInv /\ [WatchNext]_watchVars => [Caller!Next]_<<status, at>>
  BY StepIsCall DEF Caller!Next, Caller!Accepted, Caller!Retracted, Caller!Returns, Caller!Throws,
    status, at
<1> QED BY <1>1, <1>2, WatchInvariant, PTL DEF WatchSpec, ImplementsSettlement, Caller!Spec, status, at
================================================================================
