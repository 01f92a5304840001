------------------------------ MODULE WriterEpoch ------------------------------
(***************************************************************************)
(* What the coordinator lease promises the components that write under it: *)
(* epochs are granted one after the other, each to one coordinator, and a  *)
(* coordinator never takes an epoch for its own that another one has.      *)
(* HostedFence implements it; AdmissionWal is built on it.                 *)
(***************************************************************************)
EXTENDS Naturals

CONSTANTS
  Coordinators,
  NoOne,
  MaxEpoch      \* bound: epochs granted

VARIABLES
  lease,        \* the row of coordinator_leases: holder, epoch, live
  held          \* coordinator -> the epoch it would write under, 0 for none

epochVars == <<lease, held>>

(* what c may take for its own epoch while the row is l *)
MayHold(c, e, l) == e <= l.epoch /\ (e # 0 /\ e = l.epoch => c = l.holder)

(* the transaction of a mutation that captured e when it was called *)
Valid(c, e) == lease.live /\ lease.holder = c /\ lease.epoch = e

Grant(c) ==
  /\ ~lease.live /\ lease.epoch < MaxEpoch
  /\ lease' = [holder |-> c, epoch |-> lease.epoch + 1, live |-> TRUE]
  /\ \E e \in {held[c], lease.epoch + 1} : held' = [held EXCEPT ![c] = e]

Lapse ==
  /\ lease.live
  /\ lease' = [lease EXCEPT !.live = FALSE]
  /\ held' = held \/ held' = [held EXCEPT ![lease.holder] = 0]

Hold(c, e) ==
  /\ MayHold(c, e, lease)
  /\ held' = [held EXCEPT ![c] = e]
  /\ UNCHANGED lease

EpochInit ==
  /\ lease = [holder |-> NoOne, epoch |-> 0, live |-> FALSE]
  /\ held = [c \in Coordinators |-> 0]

EpochStep ==
  \/ \E c \in Coordinators : Grant(c) \/ \E e \in 0..MaxEpoch : Hold(c, e)
  \/ Lapse

EpochSpec == EpochInit /\ [][EpochStep]_epochVars
=============================================================================
