------------------------- MODULE CanonicalIndex_proofs -------------------------
(***************************************************************************)
(* Theorems about the canonical index, for any number of sources, blocks,  *)
(* reorganisations below and above the finalized block, crashes and reads  *)
(* that fail.                                                              *)
(***************************************************************************)
EXTENDS CanonicalIndex, FiniteSetTheorems, SequenceTheorems, WellFoundedInduction, TLAPS

USE IndexAssumption

-----------------------------------------------------------------------------
(* Paths: the fronts of a block are its ancestors. *)
Paths == Seq(Forks)

LEMMA FrontIs ==
  ASSUME NEW b \in Paths, NEW n \in 0 .. Len(b)
  PROVE  /\ Front(b, n) \in Paths /\ Len(Front(b, n)) = n
         /\ \A i \in 1 .. n : Front(b, n)[i] = b[i]
<1>1. n \in Nat /\ n <= Len(b) /\ Len(b) \in Nat
  BY DEF Paths
<1>2. 1 \in 1 .. Len(b) + 1 /\ n \in 1 - 1 .. Len(b) /\ \A i \in 1 .. n : 1 + i - 1 = i
  BY <1>1
<1> QED
  BY <1>1, <1>2 DEF Front, Paths

LEMMA SamePath ==
  ASSUME NEW b \in Paths, NEW c \in Paths, Len(b) = Len(c), \A i \in 1 .. Len(b) : b[i] = c[i]
  PROVE  b = c
BY SeqEqual DEF Paths

LEMMA FrontOfFront ==
  ASSUME NEW b \in Paths, NEW n \in 0 .. Len(b), NEW m \in 0 .. n
  PROVE  Front(Front(b, n), m) = Front(b, m)
<1>1. m \in 0 .. Len(b) /\ n \in Nat /\ m \in Nat /\ m <= n
  BY DEF Paths
<1>2. Front(b, n) \in Paths /\ Len(Front(b, n)) = n /\ \A i \in 1 .. n : Front(b, n)[i] = b[i]
  BY FrontIs
<1>3. /\ Front(Front(b, n), m) \in Paths /\ Len(Front(Front(b, n), m)) = m
      /\ \A i \in 1 .. m : Front(Front(b, n), m)[i] = Front(b, n)[i]
  BY <1>2, FrontIs
<1>4. Front(b, m) \in Paths /\ Len(Front(b, m)) = m /\ \A i \in 1 .. m : Front(b, m)[i] = b[i]
  BY <1>1, FrontIs
<1>5. \A i \in 1 .. m : Front(Front(b, n), m)[i] = Front(b, m)[i]
  BY <1>1, <1>2, <1>3, <1>4
<1> QED
  BY <1>3, <1>4, <1>5, SamePath

LEMMA FrontAll ==
  ASSUME NEW b \in Paths
  PROVE  Front(b, Len(b)) = b /\ Front(b, 0) = Anchor
<1>1. Len(b) \in 0 .. Len(b) /\ 0 \in 0 .. Len(b)
  BY DEF Paths
<1>2. Front(b, Len(b)) = b
  BY <1>1, FrontIs, SamePath
<1>3. Anchor \in Paths /\ Len(Anchor) = 0
  BY DEF Anchor, Paths
<1>4. Front(b, 0) = Anchor
  BY <1>1, <1>3, FrontIs, SamePath
<1> QED
  BY <1>2, <1>4

LEMMA FrontOfLonger ==
  ASSUME NEW b \in Paths, NEW f \in Forks, NEW n \in 0 .. Len(b)
  PROVE  Front(Append(b, f), n) = Front(b, n)
<1>1. /\ Append(b, f) \in Paths /\ Len(Append(b, f)) = Len(b) + 1
      /\ \A i \in 1 .. Len(b) : Append(b, f)[i] = b[i]
  BY DEF Paths
<1>2. n \in 0 .. Len(Append(b, f)) /\ n \in Nat /\ n <= Len(b) /\ Len(b) \in Nat
  BY <1>1 DEF Paths
<1>3. /\ Front(Append(b, f), n) \in Paths /\ Len(Front(Append(b, f), n)) = n
      /\ \A i \in 1 .. n : Front(Append(b, f), n)[i] = Append(b, f)[i]
  BY <1>1, <1>2, FrontIs
<1>4. Front(b, n) \in Paths /\ Len(Front(b, n)) = n /\ \A i \in 1 .. n : Front(b, n)[i] = b[i]
  BY FrontIs
<1>5. \A i \in 1 .. n : Front(Append(b, f), n)[i] = Front(b, n)[i]
  BY <1>1, <1>2, <1>3, <1>4
<1> QED
  BY <1>3, <1>4, <1>5, SamePath

LEMMA NoLength ==
  /\ Anchor \in Paths /\ Len(Anchor) = 0
  /\ \A b \in Paths : Len(b) \in Nat /\ (b # Anchor => Len(b) >= 1)
<1>1. Anchor \in Paths /\ Len(Anchor) = 0
  BY DEF Anchor, Paths
<1>2. ASSUME NEW b \in Paths
      PROVE  Len(b) \in Nat /\ (b # Anchor => Len(b) >= 1)
  <2>1. Len(b) \in Nat
    BY DEF Paths
  <2>2. Len(b) = 0 => b = Anchor
    BY <1>1, SamePath
  <2> QED
    BY <2>1, <2>2
<1> QED
  BY <1>1, <1>2

-----------------------------------------------------------------------------
(* Least and largest numbers. *)

LEMMA LeastNatural ==
  ASSUME NEW S \in SUBSET Nat, S # {}
  PROVE  \E m \in S : \A x \in S : m <= x
<1> DEFINE R == {p \in Nat \X Nat : p[1] < p[2]}
<1>1. IsWellFoundedOn(R, Nat)
  BY NatLessThanWellFounded DEF OpToRel
<1> HIDE DEF R
<1>2. PICK m \in S : \A y \in S : ~(<<y, m>> \in R)
  BY <1>1, WFMin
<1>3. ASSUME NEW y \in S PROVE m <= y
  <2>1. ~(<<y, m>> \in R) /\ <<y, m>> \in Nat \X Nat
    BY <1>2
  <2>2. ~(y < m)
    BY <2>1 DEF R
  <2> QED
    BY <2>2
<1> QED
  BY <1>3

LEMMA LargestOfBounded ==
  ASSUME NEW S \in SUBSET Nat, S # {}, NEW b \in Nat, \A x \in S : x <= b
  PROVE  Max(S) \in S /\ \A x \in S : Max(S) >= x
<1>1. PICK m \in Nat : (\A x \in S : x <= m) /\ \A n \in Nat : (\A x \in S : x <= n) => m <= n
  <2> DEFINE U == {n \in Nat : \A x \in S : x <= n}
  <2>1. b \in U /\ U \subseteq Nat
    OBVIOUS
  <2>2. \E m \in U : \A n \in U : m <= n
    <3> HIDE DEF U
    <3> QED
      BY <2>1, LeastNatural
  <2> QED
    BY <2>2
<1>2. m \in Nat /\ \A x \in S : x <= m
  BY <1>1
<1>3. m \in S
  <2> SUFFICES ASSUME m \notin S PROVE FALSE
    OBVIOUS
  <2>1. PICK x \in S : TRUE
    OBVIOUS
  <2>2. x < m /\ m - 1 \in Nat
    BY <1>2, <2>1
  <2>3. \A y \in S : y <= m - 1
    BY <1>2, <2>2
  <2> QED
    BY <1>1, <1>2, <2>2, <2>3
<1>4. m \in S /\ \A y \in S : m >= y
  BY <1>2, <1>3
<1>5. \E x \in S : \A y \in S : x >= y
  BY <1>4
<1> QED
  BY <1>5 DEF Max

LEMMA MinIsLeast ==
  ASSUME NEW S \in SUBSET Nat, S # {}
  PROVE  Min(S) \in S /\ \A x \in S : Min(S) <= x
BY LeastNatural DEF Min

-----------------------------------------------------------------------------
(* One chain.  The blocks are no longer than L1, whose length never shrinks; a block
   links to the floor's old place only while a recovery that cut the floor off has not
   installed its branch yet. *)
Statuses == {"none", "FINALIZED", "RECOVERY", "SUPERSEDED"}
RunState == [pc : {"idle", "block", "ingest", "floor"}, number : Nat, end : Nat, block : Paths,
             mem : [Sources -> Nat]]

Kinds ==
  /\ l1 \in Paths /\ final \in 0 .. Len(l1)
  /\ journal \subseteq Paths \ {Anchor} /\ floor \in Paths /\ branch \in Paths
  /\ cursor \in [Sources -> Paths]
  /\ op \in [status : Statuses, block : Paths] /\ run \in RunState
  /\ run.pc \in {"block", "ingest"} => run.number >= 1 /\ run.end <= Len(l1)

Parent(b) == Front(b, Len(b) - 1)

OneChain ==
  /\ \A b, c \in journal : Len(b) = Len(c) => b = c
  /\ \A b \in journal : Parent(b) \in journal \cup {Anchor, floor} /\ Len(b) <= Len(l1)
  /\ op.status # "RECOVERY" => floor \in journal \cup {Anchor}
  /\ op.status \in {"none", "FINALIZED"} => branch = Anchor
  /\ op.status = "RECOVERY" /\ branch # Anchor =>
       /\ branch \in journal /\ Len(branch) = Len(floor)
       /\ \A b \in journal : Parent(b) \in journal \cup {Anchor}

Hangs ==
  /\ \A r \in facts : r[1] \in journal
  /\ \A s \in Sources : cursor[s] \in journal \cup {Anchor, floor}
  /\ seen \in journal \cup {Anchor} /\ verified \subseteq journal

IndexInv == Kinds /\ OneChain /\ Hangs

LEMMA ChainImplies == IndexInv => ReadersSeeTheChain
<1> SUFFICES ASSUME IndexInv PROVE ReadersSeeTheChain
  OBVIOUS
<1>1. \A b \in journal : At(Len(b)) = {b}
  BY DEF IndexInv, OneChain, At
<1> QED
  BY <1>1 DEF IndexInv, OneChain, Hangs, Parent, ReadersSeeTheChain, JournalIsAChain

-----------------------------------------------------------------------------
(* The steps of L1, and the runs that leave the rows alone. *)

rows == <<journal, facts, verified, cursor, floor, seen, op, branch>>

LEMMA RowsStay ==
  ASSUME IndexInv, UNCHANGED rows, l1' \in Paths, Len(l1) <= Len(l1'), final' \in 0 .. Len(l1'),
         run' \in RunState, run'.pc \in {"block", "ingest"} => run'.number >= 1 /\ run'.end <= Len(l1')
  PROVE  IndexInv'
<1>1. Kinds'
  BY DEF IndexInv, Kinds, rows
<1>2. OneChain'
  <2>1. Len(l1) \in Nat /\ Len(l1') \in Nat /\ \A b \in journal : Len(b) \in Nat
    BY NoLength DEF IndexInv, Kinds
  <2> QED
    BY <2>1 DEF IndexInv, OneChain, rows, Parent
<1>3. Hangs'
  BY DEF IndexInv, Hangs, rows
<1> QED
  BY <1>1, <1>2, <1>3 DEF IndexInv

LEMMA L1Moves ==
  ASSUME IndexInv, Grow \/ Finalize \/ Reorg \/ Surprise
  PROVE  /\ l1' \in Paths /\ Len(l1) <= Len(l1') /\ final' \in 0 .. Len(l1')
         /\ UNCHANGED rows /\ run' = run
<1>1. l1 \in Paths /\ Len(l1) \in Nat /\ final \in Nat /\ final <= Len(l1)
  BY NoLength DEF IndexInv, Kinds
<1>2. UNCHANGED rows /\ run' = run
  BY DEF Grow, Finalize, Reorg, Surprise, rows, index
<1>3. CASE Grow
  <2>1. l1' \in Paths /\ Len(l1') = Len(l1) + 1 /\ final' = final
    BY <1>1, <1>3 DEF Grow, Paths
  <2> QED
    BY <1>1, <1>2, <2>1
<1>4. CASE Finalize
  BY <1>1, <1>2, <1>4 DEF Finalize
<1>5. CASE Reorg \/ Surprise
  <2>1. PICK n \in 1 .. Len(l1) : Rewrite(n)
    BY <1>1, <1>5 DEF Reorg, Surprise
  <2>2. PICK f \in Forks : l1' = [l1 EXCEPT ![n] = f]
    BY <2>1 DEF Rewrite
  <2>3. l1' \in Paths /\ Len(l1') = Len(l1)
    BY <1>1, <2>1, <2>2, ExceptSeq DEF Paths
  <2> QED
    BY <1>1, <1>2, <1>5, <2>3 DEF Reorg, Surprise
<1> QED
  BY <1>3, <1>4, <1>5

LEMMA L1Step == IndexInv /\ (Grow \/ Finalize \/ Reorg \/ Surprise) => IndexInv'
<1> SUFFICES ASSUME IndexInv, Grow \/ Finalize \/ Reorg \/ Surprise PROVE IndexInv'
  OBVIOUS
<1>1. /\ l1' \in Paths /\ Len(l1) <= Len(l1') /\ final' \in 0 .. Len(l1')
      /\ UNCHANGED rows /\ run' = run
  BY L1Moves
<1>2. run' \in RunState /\ (run'.pc \in {"block", "ingest"} => run'.number >= 1 /\ run'.end <= Len(l1'))
  <2>1. run \in RunState /\ (run.pc \in {"block", "ingest"} => run.number >= 1 /\ run.end <= Len(l1))
        /\ Len(l1) \in Nat
    BY NoLength DEF IndexInv, Kinds
  <2>2. run.end \in Nat /\ Len(l1') \in Nat
    BY <1>1, <2>1, NoLength DEF RunState
  <2> QED
    BY <1>1, <2>1, <2>2
<1> QED
  BY <1>1, <1>2, RowsStay

LEMMA IdleRun == Idle \in RunState /\ Idle.pc = "idle"
BY NoLength DEF Idle, RunState

LEMMA TipIs ==
  ASSUME IndexInv
  PROVE  /\ Tip \in journal \cup {Anchor} /\ Len(Tip) \in Nat /\ Len(Tip) <= Len(l1)
         /\ \A b \in journal : Len(b) <= Len(Tip)
<1>1. Len(l1) \in Nat /\ \A b \in journal : Len(b) \in Nat /\ Len(b) <= Len(l1)
  BY NoLength DEF IndexInv, Kinds, OneChain
<1>2. CASE journal = {}
  BY <1>1, <1>2, NoLength DEF Tip
<1>3. CASE journal # {}
  <2> DEFINE S == {Len(b) : b \in journal}
  <2>1. S \in SUBSET Nat /\ S # {} /\ \A x \in S : x <= Len(l1)
    BY <1>1, <1>3
  <2>2. Max(S) \in S /\ \A x \in S : Max(S) >= x
    <3> HIDE DEF S
    <3> QED
      BY <1>1, <2>1, LargestOfBounded
  <2>3. PICK b \in journal : \A c \in journal : Len(b) >= Len(c)
    <3>1. PICK b \in journal : Len(b) = Max(S)
      BY <2>2
    <3> QED
      BY <2>2, <3>1
  <2>4. Tip \in journal /\ \A c \in journal : Len(Tip) >= Len(c)
    BY <1>3, <2>3 DEF Tip
  <2> QED
    BY <1>1, <2>4
<1> QED
  BY <1>2, <1>3

LEMMA AncestorIs ==
  ASSUME IndexInv, CommonAncestor # {}
  PROVE  Max(CommonAncestor) \in CommonAncestor /\ Max(CommonAncestor) \in Nat
<1>1. Len(floor) \in Nat /\ Len(Tip) \in Nat
  BY TipIs, NoLength DEF IndexInv, Kinds
<1>2. CommonAncestor \in SUBSET Nat /\ \A x \in CommonAncestor : x <= Len(Tip)
  BY <1>1 DEF CommonAncestor
<1>3. Max(CommonAncestor) \in CommonAncestor
  BY <1>1, <1>2, LargestOfBounded
<1> QED
  BY <1>2, <1>3

LEMMA StartIs ==
  ASSUME NEW ancestor \in Nat, NEW mem \in [Sources -> Nat]
  PROVE  Start(ancestor, mem) \in Nat /\ Start(ancestor, mem) >= 1
         /\ \A s \in Sources : Start(ancestor, mem) - 1 <= mem[s]
<1> DEFINE S == {ancestor} \cup {mem[s] : s \in Sources}
<1>1. S \in SUBSET Nat /\ S # {}
  OBVIOUS
<1>2. Min(S) \in S /\ \A x \in S : Min(S) <= x
  <2> HIDE DEF S
  <2> QED
    BY <1>1, MinIsLeast
<1>3. Start(ancestor, mem) = Min(S) + 1 /\ Min(S) \in Nat
  BY <1>1, <1>2 DEF Start
<1>4. \A s \in Sources : Min(S) <= mem[s] /\ mem[s] \in Nat
  BY <1>2
<1> HIDE DEF S
<1> QED
  BY <1>3, <1>4

LEMMA BeginRun ==
  ASSUME IndexInv, Begin
  PROVE  /\ run' \in RunState /\ run'.pc = "block" /\ run'.number >= 1 /\ run'.end <= Len(l1)
         /\ run'.mem = [s \in Sources |-> Len(cursor[s])]
         /\ \A s \in Sources : run'.number - 1 <= run'.mem[s]
<1> DEFINE mem == [s \in Sources |-> Len(cursor[s])]
           start == Start(Max(CommonAncestor), mem)
           end == Min({Len(l1), start + BlocksPerRun - 1})
<1>1. run' = [pc |-> "block", number |-> start, block |-> Anchor, mem |-> mem, end |-> end]
  BY DEF Begin
<1>2. mem \in [Sources -> Nat]
  BY NoLength DEF IndexInv, Kinds
<1>3. Max(CommonAncestor) \in Nat
  BY AncestorIs DEF Begin
<1>4. start \in Nat /\ start >= 1 /\ \A s \in Sources : start - 1 <= mem[s]
  <2> HIDE DEF mem
  <2> QED
    BY <1>2, <1>3, StartIs
<1> HIDE DEF mem, start
<1>5. end \in Nat /\ end <= Len(l1)
  <2>1. Len(l1) \in Nat /\ start + BlocksPerRun - 1 \in Nat
    BY <1>4, NoLength DEF IndexInv, Kinds
  <2>2. {Len(l1), start + BlocksPerRun - 1} \in SUBSET Nat
    BY <2>1
  <2> QED
    BY <2>2, MinIsLeast
<1> HIDE DEF end
<1>6. run'.number = start /\ run'.mem = mem /\ run'.pc = "block" /\ run'.end = end
  BY <1>1
<1>7. run' \in RunState
  BY <1>1, <1>2, <1>4, <1>5, NoLength DEF RunState
<1> QED
  BY <1>4, <1>5, <1>6, <1>7 DEF mem

LEMMA QuietStep ==
  ASSUME IndexInv, Begin \/ NextBlock \/ Abort \/ Look
  PROVE  IndexInv'
<1>1. UNCHANGED rows /\ l1' = l1 /\ final' = final /\ l1 \in Paths /\ Len(l1) \in Nat /\ final \in 0 .. Len(l1)
  BY NoLength DEF IndexInv, Kinds, Begin, NextBlock, Abort, Look, rows, index
<1>2. run \in RunState /\ (run.pc \in {"block", "ingest"} => run.number >= 1 /\ run.end <= Len(l1))
  BY DEF IndexInv, Kinds
<1>3. run' \in RunState /\ (run'.pc \in {"block", "ingest"} => run'.number >= 1 /\ run'.end <= Len(l1))
  <2>1. CASE Begin
    BY <2>1, BeginRun
  <2>2. CASE NextBlock
    <3> DEFINE n == run.number + 1
    <3>1. n \in Nat /\ n >= 1 /\ run' = [run EXCEPT !.pc = "block", !.number = n] /\ run.pc = "ingest"
      BY <1>2, <2>2 DEF NextBlock, RunState
    <3> HIDE DEF n
    <3> QED
      BY <1>2, <3>1 DEF RunState
  <2>3. CASE Abort
    BY <2>3, IdleRun DEF Abort
  <2>4. CASE Look
    BY <1>2, <2>4 DEF Look
  <2> QED
    BY <2>1, <2>2, <2>3, <2>4
<1>4. Len(l1) <= Len(l1')
  BY <1>1
<1> QED
  BY <1>1, <1>3, <1>4, RowsStay

-----------------------------------------------------------------------------
(* The journal. *)

LEMMA ParentIs ==
  ASSUME NEW b \in Paths, b # Anchor
  PROVE  Parent(b) \in Paths /\ Len(Parent(b)) = Len(b) - 1 /\ Len(b) - 1 \in Nat
<1>1. Len(b) - 1 \in 0 .. Len(b) /\ Len(b) - 1 \in Nat
  BY NoLength
<1> QED
  BY <1>1, FrontIs DEF Parent

LEMMA OnL1 ==
  ASSUME IndexInv, NEW n \in 1 .. Len(l1)
  PROVE  Front(l1, n) \in Paths /\ Len(Front(l1, n)) = n /\ Front(l1, n) # Anchor
         /\ Parent(Front(l1, n)) = Front(l1, n - 1)
<1>1. l1 \in Paths /\ n \in 0 .. Len(l1) /\ n - 1 \in 0 .. n /\ n >= 1
  BY NoLength DEF IndexInv, Kinds
<1>2. Front(l1, n) \in Paths /\ Len(Front(l1, n)) = n
  BY <1>1, FrontIs
<1>3. Parent(Front(l1, n)) = Front(l1, n - 1)
  BY <1>1, <1>2, FrontOfFront DEF Parent
<1> QED
  BY <1>1, <1>2, <1>3, NoLength

(* What hangs on the journal, once the journal is cut from number n on. *)
LEMMA RetractHangs ==
  ASSUME IndexInv, NEW n \in Nat \ {0}, NEW cursors, Retract(n, cursors),
         {b \in journal : Len(b) < n} \subseteq journal',
         \A s \in Sources : cursors[s] \in journal' \cup {Anchor, floor'}
  PROVE  Hangs'
<1>1. \A r \in facts' : r[1] \in journal'
  BY DEF Retract, IndexInv, Hangs
<1>2. \A s \in Sources : cursor'[s] \in journal' \cup {Anchor, floor'}
  BY DEF Retract
<1>3. verified' \subseteq journal'
  BY DEF Retract, IndexInv, Hangs
<1>4. seen' \in journal' \cup {Anchor}
  <2>1. seen \in journal \cup {Anchor} /\ Len(seen) \in Nat
    BY NoLength DEF IndexInv, Kinds, Hangs
  <2>2. seen' = IF Len(seen) >= n THEN Anchor ELSE seen
    BY DEF Retract
  <2> QED
    BY <2>1, <2>2
<1> QED
  BY <1>1, <1>2, <1>3, <1>4 DEF Hangs

LEMMA RecordStep ==
  ASSUME IndexInv, NEW b \in Paths, b # Anchor, Len(b) <= Len(l1),
         AboveFloor(b), Linked(b), Record(b),
         UNCHANGED <<l1, final, floor, op, branch>>,
         run' \in RunState, run'.pc \in {"block", "ingest"} => run'.number >= 1 /\ run'.end <= Len(l1')
  PROVE  IndexInv'
<1> DEFINE n == Len(b)
           p == Parent(b)
<1>1. /\ n \in Nat \ {0} /\ p \in Paths /\ Len(p) = n - 1 /\ Len(l1) \in Nat /\ Len(floor) \in Nat
      /\ journal \subseteq Paths \ {Anchor} /\ \A c \in journal : Len(c) \in Nat \ {0}
      /\ Len(floor) < n
  BY ParentIs, NoLength DEF IndexInv, Kinds, AboveFloor
<1>2. journal' = {c \in journal : Len(c) < n} \cup {b}
  BY <1>1 DEF Record, From
<1>3. (p \in journal /\ p \in journal') \/ (p = floor /\ \A c \in journal : Len(c) # n - 1)
  BY <1>1, <1>2 DEF Linked, Parent, At
<1>4. \A c \in journal : Parent(c) \in Paths /\ Len(Parent(c)) = Len(c) - 1
  BY <1>1, ParentIs
<1> HIDE DEF n, p
<1>5. \A c \in journal : Len(c) < n => Parent(c) \in journal' \cup {Anchor, floor}
  BY <1>1, <1>2, <1>4 DEF IndexInv, OneChain
<1>6. p \in journal' \cup {Anchor, floor}
  BY <1>3
<1>7. OneChain'
  <2>1. \A c, d \in journal' : Len(c) = Len(d) => c = d
    BY <1>1, <1>2 DEF IndexInv, OneChain, n
  <2>2. \A c \in journal' : Parent(c) \in journal' \cup {Anchor, floor'} /\ Len(c) <= Len(l1')
    BY <1>2, <1>5, <1>6 DEF IndexInv, OneChain, p
  <2>3. op'.status # "RECOVERY" => floor' \in journal' \cup {Anchor}
    BY <1>1, <1>2 DEF IndexInv, OneChain
  <2>4. op'.status \in {"none", "FINALIZED"} => branch' = Anchor
    BY DEF IndexInv, OneChain
  <2>5. ASSUME op'.status = "RECOVERY", branch' # Anchor
        PROVE  /\ branch' \in journal' /\ Len(branch') = Len(floor')
               /\ \A c \in journal' : Parent(c) \in journal' \cup {Anchor}
    <3>1. branch \in journal /\ Len(branch) = Len(floor) /\ \A c \in journal : Parent(c) \in journal \cup {Anchor}
      BY <2>5 DEF IndexInv, OneChain
    <3>2. branch \in journal'
      BY <1>1, <1>2, <3>1
    <3>3. p \in journal'
      <4>1. p = floor => \E c \in journal : Len(c) = n - 1
        BY <1>1, <3>1
      <4> QED
        BY <1>3, <4>1
    <3>4. \A c \in journal : Len(c) < n => Parent(c) \in journal' \cup {Anchor}
      BY <1>1, <1>2, <1>4, <3>1
    <3>5. \A c \in journal' : Parent(c) \in journal' \cup {Anchor}
      BY <1>2, <3>3, <3>4 DEF p
    <3> QED
      BY <3>1, <3>2, <3>5
  <2> QED
    BY <2>1, <2>2, <2>3, <2>4, <2>5 DEF OneChain
<1>8. cursor' \in [Sources -> Paths] /\ Hangs'
  <2>1. CASE From(n) # {}
    <3>1. Retract(n, RolledBackCursors(b))
      BY <2>1 DEF Record, n
    <3>2. /\ RolledBackCursors(b) \in [Sources -> Paths]
          /\ \A s \in Sources : RolledBackCursors(b)[s] \in journal' \cup {Anchor, floor'}
      BY <1>1, <1>6, NoLength DEF RolledBackCursors, p, Parent
    <3>3. Hangs'
      BY <1>1, <1>2, <3>1, <3>2, RetractHangs
    <3> QED
      BY <3>1, <3>2, <3>3 DEF Retract
  <2>2. CASE From(n) = {}
    <3>1. UNCHANGED <<facts, verified, seen, cursor>>
      BY <2>2 DEF Record, n
    <3>2. journal \subseteq journal'
      BY <1>1, <1>2, <2>2 DEF From
    <3> QED
      BY <3>1, <3>2 DEF IndexInv, Hangs, Kinds
  <2> QED
    BY <2>1, <2>2
<1>9. Kinds'
  BY <1>1, <1>2, <1>8 DEF IndexInv, Kinds
<1> QED
  BY <1>7, <1>8, <1>9 DEF IndexInv

LEMMA ReadBlockStep == IndexInv /\ ReadBlock => IndexInv'
<1> SUFFICES ASSUME IndexInv, ReadBlock PROVE IndexInv'
  OBVIOUS
<1> DEFINE b == Front(l1, run.number)
<1>1. run \in RunState /\ run.pc = "block" /\ run.number \in 1 .. Len(l1) /\ run.end <= Len(l1)
      /\ UNCHANGED <<l1, final, floor, look, op, branch>> /\ Len(l1) \in Nat /\ l1 \in Paths
      /\ final \in 0 .. Len(l1)
  <2>1. run \in RunState /\ run.pc = "block" /\ run.number >= 1 /\ run.end <= Len(l1) /\ run.number <= run.end
        /\ Len(l1) \in Nat /\ run.number \in Nat /\ run.end \in Nat
    BY NoLength DEF IndexInv, Kinds, ReadBlock, RunState
  <2> QED
    BY <2>1 DEF ReadBlock, IndexInv, Kinds
<1>2. b \in Paths /\ b # Anchor /\ Len(b) <= Len(l1)
  BY <1>1, OnL1
<1>3. \/ run' = [run EXCEPT !.pc = "ingest", !.block = b] /\ UNCHANGED <<index, seen>>
      \/ /\ AboveFloor(b) /\ Linked(b) /\ Record(b)
         /\ run' = [run EXCEPT !.pc = "ingest", !.block = b]
      \/ run' = Idle /\ UNCHANGED <<index, seen>>
  BY DEF ReadBlock
<1> HIDE DEF b
<1>4. run' \in RunState /\ (run'.pc \in {"block", "ingest"} => run'.number >= 1 /\ run'.end <= Len(l1'))
  <2>1. CASE run' = [run EXCEPT !.pc = "ingest", !.block = b]
    <3>1. run' \in RunState /\ run'.number = run.number /\ run'.end = run.end
      BY <1>1, <1>2, <2>1 DEF RunState
    <3>2. run.number >= 1 /\ l1' = l1
      BY <1>1
    <3> QED
      BY <1>1, <3>1, <3>2
  <2>2. CASE run' = Idle
    BY <2>2, IdleRun
  <2> QED
    BY <1>3, <2>1, <2>2
<1>5. CASE UNCHANGED <<index, seen>>
  BY <1>1, <1>4, <1>5, RowsStay DEF rows, index
<1>6. CASE AboveFloor(b) /\ Linked(b) /\ Record(b)
  BY <1>1, <1>2, <1>4, <1>6, RecordStep
<1> QED
  BY <1>3, <1>5, <1>6

(* Rows that hang on the journal change, the journal does not. *)
LEMMA HangingStep ==
  ASSUME IndexInv, UNCHANGED <<l1, final, journal, floor, op, branch>>, Hangs',
         cursor' \in [Sources -> Paths],
         run' \in RunState, run'.pc \in {"block", "ingest"} => run'.number >= 1 /\ run'.end <= Len(l1')
  PROVE  IndexInv'
<1>1. Kinds'
  BY DEF IndexInv, Kinds
<1>2. OneChain'
  BY DEF IndexInv, OneChain, Parent
<1> QED
  BY <1>1, <1>2 DEF IndexInv

LEMMA TodoIs ==
  ASSUME IndexInv, Todo # {}
  PROVE  Min(Todo) \in Todo /\ Min(Todo) \in Sources
<1>1. Todo \in SUBSET Nat
  BY DEF Todo
<1>2. Min(Todo) \in Todo
  BY <1>1, MinIsLeast
<1> QED
  BY <1>2 DEF Todo

LEMMA LogsStep == IndexInv /\ ReadLogs => IndexInv'
<1> SUFFICES ASSUME IndexInv, ReadLogs PROVE IndexInv'
  OBVIOUS
<1> DEFINE s == Min(Todo)
           b == run.block
<1>1. UNCHANGED <<l1, final, journal, verified, floor, seen, op, branch>> /\ Todo # {}
      /\ run.pc = "ingest"
      /\ \/ Ingestible(b, s) /\ Ingest(b, s) /\ run' = [run EXCEPT !.mem[s] = run.number]
         \/ run' = Idle /\ UNCHANGED <<cursor, facts>>
  BY DEF ReadLogs
<1>2. s \in Sources
  BY <1>1, TodoIs
<1>3. run \in RunState /\ (run.pc \in {"block", "ingest"} => run.number >= 1 /\ run.end <= Len(l1))
      /\ b \in Paths /\ cursor \in [Sources -> Paths] /\ run.number \in Nat
  BY DEF IndexInv, Kinds, RunState
<1> HIDE DEF s
<1>4. CASE Ingestible(b, s) /\ Ingest(b, s) /\ run' = [run EXCEPT !.mem[s] = run.number]
  <2>1. run' \in RunState /\ run'.number = run.number /\ run'.end = run.end
    BY <1>2, <1>3, <1>4 DEF RunState
  <2>2. b \in journal /\ cursor' = [cursor EXCEPT ![s] = b] /\ \A r \in facts' : r \in facts \/ r[1] = b
    BY <1>4 DEF Ingestible, Ingest
  <2> HIDE DEF b
  <2>3. cursor' \in [Sources -> Paths] /\ \A t \in Sources : cursor'[t] = b \/ cursor'[t] = cursor[t]
    BY <1>2, <1>3, <2>2
  <2>4. Hangs'
    BY <1>1, <2>2, <2>3 DEF IndexInv, Hangs
  <2> QED
    BY <1>1, <1>3, <2>1, <2>3, <2>4, HangingStep
<1>5. CASE run' = Idle /\ UNCHANGED <<cursor, facts>>
  <2>1. UNCHANGED rows /\ Len(l1) <= Len(l1') /\ l1' \in Paths /\ final' \in 0 .. Len(l1')
    BY <1>1, <1>5, NoLength DEF rows, IndexInv, Kinds
  <2> QED
    BY <1>5, <2>1, IdleRun, RowsStay
<1> QED
  BY <1>1, <1>4, <1>5

LEMMA ObserveStep ==
  ASSUME IndexInv, Reconcile \/ Write \/ \E r \in facts : Archive(r[1])
  PROVE  IndexInv'
<1>1. run \in RunState /\ (run.pc \in {"block", "ingest"} => run.number >= 1 /\ run.end <= Len(l1))
  BY DEF IndexInv, Kinds
<1>2. UNCHANGED <<l1, final, journal, floor, op, branch, cursor, facts>>
  BY DEF Reconcile, Write, Archive, index
<1>3. run' \in RunState /\ (run'.pc \in {"block", "ingest"} => run'.number >= 1 /\ run'.end <= Len(l1'))
  BY <1>1, <1>2 DEF Reconcile, Write, Archive, RunState
<1>4. Hangs'
  <2>1. CASE Reconcile \/ Write
    <3>1. \E b : Observe(b)
      BY <2>1 DEF Reconcile, Write
    <3> QED
      BY <1>2, <2>1, <3>1 DEF Reconcile, Write, index, Observe, IndexInv, Hangs
  <2>2. ASSUME NEW r \in facts, Archive(r[1])
        PROVE  Hangs'
    BY <1>2, <2>2 DEF Archive, IndexInv, Hangs
  <2> QED
    BY <2>1, <2>2
<1>5. cursor' \in [Sources -> Paths]
  BY <1>2 DEF IndexInv, Kinds
<1> QED
  BY <1>2, <1>3, <1>4, <1>5, HangingStep

-----------------------------------------------------------------------------
(* The floor, the audit and the recovery. *)

LEMMA FloorStep == IndexInv /\ AdvanceFloor => IndexInv'
<1> SUFFICES ASSUME IndexInv, AdvanceFloor PROVE IndexInv'
  OBVIOUS
<1> DEFINE b == Front(l1, final)
<1>1. UNCHANGED <<l1, final, journal, facts, verified, cursor, seen, op, branch>> /\ run' = Idle
      /\ Len(l1) \in Nat /\ l1 \in Paths /\ final \in 0 .. Len(l1)
  BY NoLength DEF AdvanceFloor, index, IndexInv, Kinds
<1>2. floor' = floor \/ (floor' = b /\ b \in journal /\ op.status # "RECOVERY")
  BY DEF AdvanceFloor, Indexed
<1> HIDE DEF b
<1>3. CASE floor' = floor
  <2>1. UNCHANGED rows /\ Len(l1) <= Len(l1')
    BY <1>1, <1>3 DEF rows
  <2> QED
    BY <1>1, <2>1, IdleRun, RowsStay
<1>4. CASE floor' = b /\ b \in journal /\ op.status # "RECOVERY"
  <2>1. floor \in journal \cup {Anchor}
    BY <1>4 DEF IndexInv, OneChain
  <2>2. Kinds'
    BY <1>1, <1>4, IdleRun DEF IndexInv, Kinds
  <2>3. OneChain'
    BY <1>1, <1>4, <2>1 DEF IndexInv, OneChain, Parent
  <2>4. Hangs'
    BY <1>1, <1>4, <2>1 DEF IndexInv, Hangs
  <2> QED
    BY <2>2, <2>3, <2>4 DEF IndexInv
<1> QED
  BY <1>2, <1>3, <1>4

LEMMA OpStep == IndexInv /\ OpFinalizes => IndexInv'
<1> SUFFICES ASSUME IndexInv, OpFinalizes PROVE IndexInv'
  OBVIOUS
<1>1. /\ UNCHANGED <<l1, final, journal, facts, verified, cursor, seen, floor, branch, run>>
      /\ op.status = "none" /\ op' = [status |-> "FINALIZED", block |-> Front(l1, OpHeight)]
      /\ OpHeight <= final
  BY DEF OpFinalizes, index, IndexInv, Kinds
<1>2. Front(l1, OpHeight) \in Paths
  <2>1. l1 \in Paths /\ OpHeight \in 0 .. Len(l1)
    BY <1>1, NoLength DEF IndexInv, Kinds
  <2> QED
    BY <2>1, FrontIs
<1>3. op'.status = "FINALIZED" /\ op' \in [status : Statuses, block : Paths]
  BY <1>1, <1>2 DEF Statuses
<1>4. Kinds'
  BY <1>1, <1>3 DEF IndexInv, Kinds
<1>5. OneChain'
  BY <1>1, <1>3 DEF IndexInv, OneChain, Parent
<1>6. Hangs'
  BY <1>1 DEF IndexInv, Hangs
<1> QED
  BY <1>4, <1>5, <1>6 DEF IndexInv

LEMMA AuditStep == IndexInv /\ Audit => IndexInv'
<1> SUFFICES ASSUME IndexInv, Audit PROVE IndexInv'
  OBVIOUS
<1> DEFINE cursors == [s \in Sources |-> Anchor]
<1>1. /\ UNCHANGED <<l1, final, floor, branch, run>>
      /\ op.status = "FINALIZED" /\ op' = [op EXCEPT !.status = "RECOVERY"]
      /\ Retract(OpHeight, cursors) /\ journal' = journal \ From(OpHeight)
      /\ op \in [status : Statuses, block : Paths]
  BY DEF Audit, IndexInv, Kinds
<1>2. \A c \in journal : Len(c) \in Nat /\ Parent(c) \in Paths /\ Len(Parent(c)) = Len(c) - 1
  BY ParentIs, NoLength DEF IndexInv, Kinds
<1>3. journal' = {c \in journal : Len(c) < OpHeight}
  BY <1>1, <1>2 DEF From
<1>4. op' \in [status : Statuses, block : Paths] /\ op'.status = "RECOVERY" /\ branch' = Anchor
  BY <1>1 DEF Statuses, IndexInv, OneChain
<1>5. cursors \in [Sources -> Paths] /\ cursor' = cursors
  BY <1>1, NoLength DEF Retract
<1>6. Kinds'
  BY <1>1, <1>3, <1>4, <1>5 DEF IndexInv, Kinds
<1>7. OneChain'
  <2>1. ASSUME NEW c \in journal'
        PROVE  Parent(c) \in journal' \cup {Anchor, floor'} /\ Len(c) <= Len(l1')
    BY <1>1, <1>2, <1>3 DEF IndexInv, OneChain
  <2>2. \A c, d \in journal' : Len(c) = Len(d) => c = d
    BY <1>3 DEF IndexInv, OneChain
  <2> QED
    BY <1>4, <2>1, <2>2 DEF OneChain
<1>8. Hangs'
  <2>1. \A s \in Sources : cursors[s] \in journal' \cup {Anchor, floor'}
    OBVIOUS
  <2> HIDE DEF cursors
  <2> QED
    BY <1>1, <1>3, <2>1, RetractHangs
<1> QED
  BY <1>6, <1>7, <1>8 DEF IndexInv

LEMMA InstallStep == IndexInv /\ InstallBranch => IndexInv'
<1> SUFFICES ASSUME IndexInv, InstallBranch PROVE IndexInv'
  OBVIOUS
<1>1. /\ UNCHANGED <<l1, final, facts, verified, cursor, floor, seen, op, run>>
      /\ op.status = "RECOVERY" /\ branch = Anchor /\ OpHeight <= Len(floor) /\ Len(floor) <= Len(l1)
      /\ Front(l1, OpHeight - 1) \in journal \cup {Anchor} /\ From(OpHeight) = {}
      /\ journal' = journal \cup RecoveryBlocks /\ branch' = Front(l1, Len(floor))
  BY DEF InstallBranch
<1>2. Len(l1) \in Nat /\ Len(floor) \in Nat /\ l1 \in Paths
  BY NoLength DEF IndexInv, Kinds
<1>3. ASSUME NEW n \in OpHeight .. Len(floor)
      PROVE  /\ Front(l1, n) \in Paths \ {Anchor} /\ Len(Front(l1, n)) = n /\ n <= Len(l1)
             /\ Parent(Front(l1, n)) = Front(l1, n - 1)
             /\ Front(l1, n - 1) \in journal' \cup {Anchor}
  <2>1. n \in 1 .. Len(l1)
    BY <1>1, <1>2
  <2>2. Front(l1, n - 1) \in journal' \cup {Anchor}
    <3>1. CASE n = OpHeight
      BY <1>1, <3>1
    <3>2. CASE n # OpHeight
      <4>1. n - 1 \in OpHeight .. Len(floor)
        BY <1>2, <3>2
      <4> QED
        BY <1>1, <4>1 DEF RecoveryBlocks
    <3> QED
      BY <3>1, <3>2
  <2> QED
    BY <2>1, <2>2, OnL1
<1>4. \A c \in journal : Len(c) \in Nat /\ Len(c) < OpHeight
  BY <1>1, NoLength DEF From, IndexInv, Kinds
<1>5. \A c \in journal' : c \in journal \/ \E n \in OpHeight .. Len(floor) : c = Front(l1, n)
  BY <1>1 DEF RecoveryBlocks
<1>6. branch' \in journal' /\ Len(branch') = Len(floor) /\ branch' \in Paths
  <2>1. Len(floor) \in OpHeight .. Len(floor)
    BY <1>1, <1>2
  <2> QED
    BY <1>1, <1>3, <2>1 DEF RecoveryBlocks
<1>7. Kinds'
  BY <1>1, <1>3, <1>5, <1>6 DEF IndexInv, Kinds
<1>8. \A c, d \in journal' : Len(c) = Len(d) => c = d
  <2> SUFFICES ASSUME NEW c \in journal', NEW d \in journal', Len(c) = Len(d) PROVE c = d
    OBVIOUS
  <2>1. CASE c \in journal /\ d \in journal
    BY <2>1 DEF IndexInv, OneChain
  <2>2. CASE c \notin journal \/ d \notin journal
    <3>1. ~(Len(c) < OpHeight)
      BY <1>3, <1>5, <2>2
    <3>2. c \notin journal /\ d \notin journal
      BY <1>4, <3>1
    <3> QED
      BY <1>3, <1>5, <3>2
  <2> QED
    BY <2>1, <2>2
<1>9. \A c \in journal' : Len(c) <= Len(l1')
  BY <1>1, <1>3, <1>5 DEF IndexInv, OneChain
<1>10. \A c \in journal' : Parent(c) \in journal' \cup {Anchor}
  <2> SUFFICES ASSUME NEW c \in journal' PROVE Parent(c) \in journal' \cup {Anchor}
    OBVIOUS
  <2>1. CASE c \in journal
    <3>1. Parent(c) \in journal \cup {Anchor, floor} /\ Len(Parent(c)) = Len(c) - 1
      BY <2>1, ParentIs DEF IndexInv, OneChain, Kinds
    <3>2. Parent(c) # floor
      BY <1>1, <1>2, <1>4, <2>1, <3>1
    <3> QED
      BY <1>1, <3>1, <3>2
  <2>2. CASE c \notin journal
    BY <1>3, <1>5, <2>2
  <2> QED
    BY <2>1, <2>2
<1>11. OneChain'
  BY <1>1, <1>6, <1>8, <1>9, <1>10 DEF OneChain
<1>12. Hangs'
  BY <1>1 DEF IndexInv, Hangs
<1> QED
  BY <1>7, <1>11, <1>12 DEF IndexInv

LEMMA RecoveryStep == IndexInv /\ FinalizeRecovery => IndexInv'
<1> SUFFICES ASSUME IndexInv, FinalizeRecovery PROVE IndexInv'
  OBVIOUS
<1>1. /\ UNCHANGED <<l1, final, journal, facts, verified, cursor, seen, branch, run>>
      /\ branch # Anchor /\ op.status = "RECOVERY" /\ branch \in journal
      /\ \A s \in Sources : cursor[s] = branch
      /\ floor' = branch /\ op' = [op EXCEPT !.status = "SUPERSEDED"]
  BY DEF FinalizeRecovery, index, Replayed
<1>2. op' \in [status : Statuses, block : Paths] /\ op'.status = "SUPERSEDED"
  BY <1>1 DEF IndexInv, Kinds, Statuses
<1>3. Kinds'
  BY <1>1, <1>2 DEF IndexInv, Kinds
<1>4. OneChain'
  BY <1>1, <1>2 DEF IndexInv, OneChain, Parent
<1>5. Hangs'
  BY <1>1 DEF IndexInv, Hangs
<1> QED
  BY <1>3, <1>4, <1>5 DEF IndexInv

LEMMA IndexInit == Init => IndexInv
<1> SUFFICES ASSUME Init PROVE IndexInv
  OBVIOUS
<1>1. Kinds
  BY NoLength, IdleRun DEF Init, Kinds, Statuses
<1>2. OneChain
  BY DEF Init, OneChain
<1>3. Hangs
  BY DEF Init, Hangs
<1> QED
  BY <1>1, <1>2, <1>3 DEF IndexInv

LEMMA IndexStep == IndexInv /\ [Next]_vars => IndexInv'
<1> SUFFICES ASSUME IndexInv, [Next]_vars PROVE IndexInv'
  OBVIOUS
<1>1. CASE UNCHANGED vars
  BY <1>1 DEF IndexInv, Kinds, OneChain, Hangs, Parent, vars, index
<1>2. CASE Grow \/ Finalize \/ Reorg \/ Surprise
  BY <1>2, L1Step
<1>3. CASE Begin \/ NextBlock \/ Abort \/ Look
  BY <1>3, QuietStep
<1>4. CASE ReadBlock \/ ReadLogs
  BY <1>4, ReadBlockStep, LogsStep
<1>5. CASE Reconcile \/ Write \/ \E r \in facts : Archive(r[1])
  BY <1>5, ObserveStep
<1>6. CASE AdvanceFloor \/ OpFinalizes \/ Audit \/ InstallBranch \/ FinalizeRecovery
  BY <1>6, FloorStep, OpStep, AuditStep, InstallStep, RecoveryStep
<1> QED
  BY <1>1, <1>2, <1>3, <1>4, <1>5, <1>6 DEF Next, Indexer

LEMMA IndexInvAlways == Spec => []IndexInv
<1> QED
  BY IndexInit, IndexStep, PTL DEF Spec

(* Readers are given one chain: journal, facts, cursors, archived sidecars and the
   observation agree, whatever reorganises, crashes or is retracted and recovered
   (recordCanonicalBlocks, markL1TransactionRetracted, finalizePostFinalityRecovery). *)
THEOREM ReadersSeeTheChainAlways == Spec => []ReadersSeeTheChain
<1> QED
  BY IndexInvAlways, ChainImplies, PTL

-----------------------------------------------------------------------------
(* While L1 keeps all its blocks.  The journal is L1's own chain without a gap, nothing
   is retracted, and what a run knows of the cursors is what they are: each is at most one
   block behind the one that is read. *)
Still == reorgs + surprises = 0

JournalIsL1 == \A b \in journal : Served(b) /\ \A n \in 1 .. Len(b) : Front(l1, n) \in journal

NoneRetracted ==
  op.status \in {"none", "FINALIZED"} /\ (op.status = "FINALIZED" => Served(op.block)) /\ dead = {}

RunKnows ==
  /\ run.pc # "idle" => \A s \in Sources : run.mem[s] = Len(cursor[s])
  /\ run.pc \in {"block", "ingest"} => \A s \in Sources : run.number - 1 <= run.mem[s]
  /\ run.pc = "ingest" => Len(run.block) = run.number

ArchivedBelow == \A b \in journal : Len(b) <= Len(floor) => b \in verified

StillInv == JournalIsL1 /\ NoneRetracted /\ Covered /\ RunKnows /\ ArchivedBelow

LosslessInv == reorgs \in Nat /\ surprises \in Nat /\ (Still => StillInv)

LEMMA LosslessImplies == LosslessInv => CompleteWithoutReorg
BY DEF LosslessInv, Still, StillInv, ArchivedBelow, CompleteWithoutReorg

LEMMA LosslessInit == Init => LosslessInv
<1> SUFFICES ASSUME Init PROVE LosslessInv
  OBVIOUS
<1>1. journal = {} /\ run.pc = "idle" /\ op.status = "none" /\ dead = {} /\ reorgs = 0 /\ surprises = 0
  BY IdleRun DEF Init
<1> QED
  BY <1>1 DEF LosslessInv, StillInv, JournalIsL1, NoneRetracted, Covered, RunKnows, ArchivedBelow

LEMMA GrowServes ==
  ASSUME IndexInv, Grow, NEW b, Len(b) \in 0 .. Len(l1)
  PROVE  Front(l1', Len(b)) = Front(l1, Len(b)) /\ Len(l1') = Len(l1) + 1
<1>1. l1 \in Paths /\ l1' = Append(l1, Trunk)
  BY DEF IndexInv, Kinds, Grow
<1> QED
  BY <1>1, FrontOfLonger DEF Paths

LEMMA GrowStays == IndexInv /\ StillInv /\ Grow => StillInv'
<1> SUFFICES ASSUME IndexInv, StillInv, Grow PROVE StillInv'
  OBVIOUS
<1>1. UNCHANGED <<journal, facts, dead, cursor, verified, floor, op, run>> /\ Len(l1) \in Nat
      /\ \A b \in journal : Len(b) \in Nat /\ Len(b) <= Len(l1)
      /\ op.block \in Paths
  BY NoLength DEF Grow, index, IndexInv, Kinds, OneChain
<1>2. ASSUME NEW b, Len(b) \in Nat, Served(b)
      PROVE  b = Front(l1', Len(b)) /\ Len(b) <= Len(l1')
  <2>1. Len(b) \in 0 .. Len(l1)
    BY <1>1, <1>2 DEF Served
  <2> QED
    BY <1>1, <1>2, <2>1, GrowServes DEF Served
<1>3. JournalIsL1'
  <2>1. ASSUME NEW b \in journal, NEW n \in 1 .. Len(b)
        PROVE  Front(l1', n) \in journal
    <3>1. n \in 0 .. Len(l1) /\ l1 \in Paths /\ l1' = Append(l1, Trunk)
      BY <1>1 DEF IndexInv, Kinds, Grow
    <3>2. Front(l1', n) = Front(l1, n)
      BY <3>1, FrontOfLonger
    <3> QED
      BY <3>2 DEF StillInv, JournalIsL1
  <2>2. \A b \in journal : b = Front(l1', Len(b)) /\ Len(b) <= Len(l1')
    BY <1>1, <1>2 DEF StillInv, JournalIsL1
  <2> QED
    BY <1>1, <2>1, <2>2 DEF JournalIsL1, Served
<1>4. NoneRetracted'
  <2>1. Len(op.block) \in Nat
    BY <1>1, NoLength
  <2>2. op.status = "FINALIZED" => op.block = Front(l1', Len(op.block)) /\ Len(op.block) <= Len(l1')
    BY <1>2, <2>1 DEF StillInv, NoneRetracted
  <2> QED
    BY <1>1, <2>2 DEF StillInv, NoneRetracted, Served
<1>5. Covered' /\ RunKnows' /\ ArchivedBelow'
  BY <1>1 DEF StillInv, Covered, RunKnows, ArchivedBelow
<1> QED
  BY <1>3, <1>4, <1>5 DEF StillInv

(* A block that the journal does not have lies beyond all that it has. *)
LEMMA NewIsLast ==
  ASSUME IndexInv, StillInv, NEW n \in 1 .. Len(l1), Front(l1, n) \notin journal
  PROVE  From(n) = {} /\ \A s \in Sources : Len(cursor[s]) < n
<1>1. \A c \in journal : ~(Len(c) >= n)
  <2> SUFFICES ASSUME NEW c \in journal, Len(c) >= n PROVE FALSE
    OBVIOUS
  <2>1. n \in 1 .. Len(c)
    BY NoLength DEF IndexInv, Kinds
  <2> QED
    BY <2>1 DEF StillInv, JournalIsL1
<1>2. \A s \in Sources : cursor[s] \in journal \cup {Anchor}
  BY DEF IndexInv, OneChain, Hangs, StillInv, NoneRetracted
<1>3. \A s \in Sources : Len(cursor[s]) < n
  <2> TAKE s \in Sources
  <2>1. Len(cursor[s]) \in Nat /\ n \in Nat /\ n >= 1
    BY NoLength DEF IndexInv, Kinds
  <2> QED
    BY <1>1, <1>2, <2>1, NoLength
<1> QED
  BY <1>1, <1>3 DEF From

LEMMA ReadStays == IndexInv /\ StillInv /\ ReadBlock => StillInv'
<1> SUFFICES ASSUME IndexInv, StillInv, ReadBlock PROVE StillInv'
  OBVIOUS
<1> DEFINE n == run.number
           b == Front(l1, n)
<1>1. run \in RunState /\ run.pc = "block" /\ n \in 1 .. Len(l1) /\ Len(l1) \in Nat /\ l1 \in Paths
      /\ UNCHANGED <<l1, final, floor, look, op, branch>>
  <2>1. run \in RunState /\ run.pc = "block" /\ run.number >= 1 /\ run.end <= Len(l1) /\ run.number <= run.end
        /\ Len(l1) \in Nat /\ run.number \in Nat /\ run.end \in Nat
    BY NoLength DEF IndexInv, Kinds, ReadBlock, RunState
  <2> QED
    BY <2>1 DEF ReadBlock, IndexInv, Kinds
<1>2. b \in Paths /\ b # Anchor /\ Len(b) = n /\ Parent(b) = Front(l1, n - 1)
  BY <1>1, OnL1
<1>3. \/ run' = [run EXCEPT !.pc = "ingest", !.block = b] /\ b \in journal /\ UNCHANGED <<index, seen>>
      \/ /\ b \notin journal /\ AboveFloor(b) /\ Linked(b) /\ Record(b)
         /\ run' = [run EXCEPT !.pc = "ingest", !.block = b]
      \/ run' = Idle /\ UNCHANGED <<index, seen>>
  BY DEF ReadBlock
<1> HIDE DEF b, n
<1>4. ASSUME UNCHANGED cursor
      PROVE  RunKnows'
  <2>1. CASE run' = [run EXCEPT !.pc = "ingest", !.block = b]
    <3>1. run'.pc = "ingest" /\ run'.block = b /\ run'.number = run.number /\ run'.mem = run.mem
      BY <1>1, <2>1 DEF RunState
    <3> QED
      BY <1>1, <1>2, <1>4, <3>1 DEF StillInv, RunKnows, n
  <2>2. CASE run' = Idle
    BY <2>2, IdleRun DEF RunKnows
  <2> QED
    BY <1>3, <2>1, <2>2
<1>5. CASE UNCHANGED <<index, seen>>
  BY <1>1, <1>4, <1>5 DEF index, StillInv, JournalIsL1, NoneRetracted, Covered, ArchivedBelow, Served
<1>6. CASE b \notin journal /\ AboveFloor(b) /\ Linked(b) /\ Record(b)
  <2>1. From(n) = {} /\ \A s \in Sources : Len(cursor[s]) < n
    BY <1>1, <1>6, NewIsLast DEF b
  <2>2. UNCHANGED <<facts, dead, verified, seen, cursor>> /\ journal' = journal \cup {b}
    BY <1>2, <1>6, <2>1 DEF Record
  <2>3. n - 1 = 0 \/ (Parent(b) \in journal /\ n - 1 \in Nat \ {0})
    <3>1. Parent(b) \in journal \cup {floor} /\ floor \in journal \cup {Anchor}
      BY <1>6 DEF Linked, At, Parent, IndexInv, OneChain, StillInv, NoneRetracted
    <3>2. Len(Parent(b)) = n - 1 /\ n - 1 \in Nat
      BY <1>2, ParentIs
    <3> QED
      BY <3>1, <3>2, NoLength
  <2>4. \A m \in 1 .. n : Front(l1, m) \in journal'
    <3> TAKE m \in 1 .. n
    <3>1. CASE m = n
      BY <2>2, <3>1 DEF b
    <3>2. CASE m # n
      <4>1. m \in 1 .. n - 1 /\ n - 1 # 0
        BY <1>1, <3>2
      <4>2. Len(Parent(b)) = n - 1
        BY <1>2, ParentIs
      <4>3. Parent(b) \in journal /\ m \in 1 .. Len(Parent(b))
        BY <2>3, <4>1, <4>2
      <4> QED
        BY <2>2, <4>3 DEF StillInv, JournalIsL1
    <3> QED
      BY <3>1, <3>2
  <2>5. JournalIsL1'
    <3>1. ASSUME NEW c \in journal'
          PROVE  Served(c)' /\ \A m \in 1 .. Len(c) : Front(l1', m) \in journal'
      <4>1. CASE c \in journal
        BY <1>1, <2>2, <4>1 DEF StillInv, JournalIsL1, Served
      <4>2. CASE c = b
        <5>1. Front(l1', Len(c)) = c /\ Len(c) <= Len(l1')
          BY <1>1, <1>2, <4>2 DEF b
        <5> QED
          BY <1>1, <1>2, <2>4, <4>2, <5>1 DEF Served
      <4> QED
        BY <2>2, <4>1, <4>2
    <3> QED
      BY <3>1 DEF JournalIsL1
  <2>6. Covered'
    <3>1. ASSUME NEW s \in Sources
          PROVE  Len(cursor[s]) \in Nat /\ Len(cursor[s]) < Len(b)
      BY <1>2, <2>1, NoLength DEF IndexInv, Kinds
    <3>2. \A s \in Sources : ~(Len(b) <= Len(cursor[s]))
      BY <1>1, <1>2, <3>1, NoLength
    <3> QED
      BY <2>2, <3>2 DEF StillInv, Covered
  <2>7. ArchivedBelow'
    <3>1. ~(Len(b) <= Len(floor))
      BY <1>2, <1>6, NoLength DEF AboveFloor, IndexInv, Kinds
    <3> QED
      BY <1>1, <2>2, <3>1 DEF StillInv, ArchivedBelow
  <2>8. NoneRetracted'
    BY <1>1, <2>2 DEF StillInv, NoneRetracted, Served
  <2> QED
    BY <1>4, <2>2, <2>5, <2>6, <2>7, <2>8 DEF StillInv
<1> QED
  BY <1>3, <1>5, <1>6

LEMMA LogsStay == IndexInv /\ StillInv /\ ReadLogs => StillInv'
<1> SUFFICES ASSUME IndexInv, StillInv, ReadLogs PROVE StillInv'
  OBVIOUS
<1> DEFINE s == Min(Todo)
           b == run.block
<1>1. UNCHANGED <<l1, journal, dead, verified, floor, op>> /\ Todo # {} /\ run.pc = "ingest"
      /\ \/ Ingestible(b, s) /\ Ingest(b, s) /\ run' = [run EXCEPT !.mem[s] = run.number]
         \/ run' = Idle /\ UNCHANGED <<cursor, facts>>
  BY DEF ReadLogs
<1>2. s \in Sources /\ run.mem[s] < run.number
  <2>1. s \in Todo
    BY <1>1, TodoIs
  <2> QED
    BY <2>1 DEF Todo
<1>3. run \in RunState /\ run.number \in Nat /\ run.mem \in [Sources -> Nat] /\ b \in Paths
      /\ cursor \in [Sources -> Paths] /\ dead = {}
  BY DEF IndexInv, Kinds, RunState, StillInv, NoneRetracted
<1>4. Len(b) = run.number /\ run.mem[s] = Len(cursor[s]) /\ run.number - 1 <= run.mem[s]
  BY <1>1, <1>2 DEF StillInv, RunKnows
<1> HIDE DEF s
<1>5. JournalIsL1' /\ NoneRetracted' /\ ArchivedBelow'
  BY <1>1 DEF StillInv, JournalIsL1, NoneRetracted, ArchivedBelow, Served
<1>6. CASE Ingestible(b, s) /\ Ingest(b, s) /\ run' = [run EXCEPT !.mem[s] = run.number]
  <2>1. b \in journal /\ cursor' = [cursor EXCEPT ![s] = b] /\ facts' = facts \cup {<<b, s>>}
    BY <1>3, <1>6 DEF Ingestible, Ingest
  <2>2. /\ run'.pc = "ingest" /\ run'.number = run.number /\ run'.block = b
        /\ \A t \in Sources : run'.mem[t] = IF t = s THEN run.number ELSE run.mem[t]
    BY <1>1, <1>2, <1>3, <1>6 DEF RunState
  <2> HIDE DEF b
  <2>3. \A t \in Sources : cursor'[t] = IF t = s THEN b ELSE cursor[t]
    BY <1>2, <1>3, <2>1
  <2>4. RunKnows'
    <3>1. \A t \in Sources : run'.mem[t] = Len(cursor'[t])
      BY <1>1, <1>4, <2>2, <2>3 DEF StillInv, RunKnows
    <3>2. \A t \in Sources : run'.number - 1 <= run'.mem[t]
      BY <1>1, <1>3, <2>2 DEF StillInv, RunKnows
    <3> QED
      BY <1>4, <2>2, <3>1, <3>2 DEF RunKnows
  <2>5. ASSUME NEW t \in Sources, NEW c \in journal, Len(c) <= Len(cursor'[t])
        PROVE  <<c, t>> \in facts'
    <3>1. CASE t # s \/ Len(c) <= Len(cursor[t])
      BY <1>3, <2>1, <2>3, <2>5, <3>1 DEF StillInv, Covered
    <3>2. CASE t = s /\ ~(Len(c) <= Len(cursor[t]))
      <4>1. Len(c) \in Nat /\ Len(cursor[s]) \in Nat /\ Len(c) <= Len(b)
        BY <2>3, <2>5, <3>2, <1>3, NoLength DEF IndexInv, Kinds
      <4>2. Len(c) = Len(b)
        BY <1>3, <1>4, <3>2, <4>1
      <4>3. c = b
        BY <2>1, <4>2 DEF IndexInv, OneChain
      <4> QED
        BY <2>1, <3>2, <4>3
    <3> QED
      BY <3>1, <3>2
  <2>6. Covered'
    BY <1>1, <2>5 DEF Covered
  <2> QED
    BY <1>5, <2>4, <2>6 DEF StillInv
<1>7. CASE run' = Idle /\ UNCHANGED <<cursor, facts>>
  BY <1>1, <1>5, <1>7, IdleRun DEF StillInv, Covered, RunKnows
<1> QED
  BY <1>1, <1>6, <1>7

LEMMA FloorStays == IndexInv /\ StillInv /\ AdvanceFloor => StillInv'
<1> SUFFICES ASSUME IndexInv, StillInv, AdvanceFloor PROVE StillInv'
  OBVIOUS
<1> DEFINE b == Front(l1, final)
<1>1. UNCHANGED <<l1, index, op>> /\ run' = Idle /\ run.pc = "floor" /\ final \in 0 .. Len(l1) /\ l1 \in Paths
      /\ (floor' = floor \/ (floor' = b /\ Indexed(b) /\ ArchivedThrough(final)))
  BY DEF AdvanceFloor, IndexInv, Kinds
<1>2. Len(b) = final /\ final \in Nat
  BY <1>1, FrontIs, NoLength
<1> HIDE DEF b
<1>3. ASSUME NEW c \in journal, Len(c) <= Len(floor')
      PROVE  c \in verified
  <2>1. CASE floor' = floor
    BY <1>3, <2>1 DEF StillInv, ArchivedBelow
  <2>2. CASE floor' = b /\ Indexed(b) /\ ArchivedThrough(final)
    <3>1. Len(c) \in Nat /\ Len(cursor[BlobSource]) \in Nat /\ Len(c) <= final
      BY <1>2, <1>3, <2>2, NoLength DEF IndexInv, Kinds
    <3>2. run.mem[BlobSource] = Len(cursor[BlobSource]) /\ run.mem[BlobSource] >= final
      BY <1>1, <1>2, <2>2 DEF Indexed, StillInv, RunKnows
    <3>3. Len(c) <= Len(cursor[BlobSource])
      BY <1>2, <3>1, <3>2
    <3>4. <<c, BlobSource>> \in facts
      BY <3>3 DEF StillInv, Covered, NoneRetracted
    <3> QED
      BY <2>2, <3>1, <3>4 DEF ArchivedThrough
  <2> QED
    BY <1>1, <2>1, <2>2
<1> QED
  BY <1>1, <1>3, IdleRun DEF index, StillInv, JournalIsL1, NoneRetracted, Covered, RunKnows, ArchivedBelow, Served

LEMMA OthersStay ==
  ASSUME IndexInv, StillInv,
         \/ Finalize \/ Begin \/ NextBlock \/ Reconcile \/ Abort \/ Look \/ Write
         \/ OpFinalizes \/ (\E r \in facts : Archive(r[1])) \/ UNCHANGED vars
  PROVE  StillInv'
<1>1. UNCHANGED <<l1, journal, facts, dead, cursor, floor>> /\ verified \subseteq verified'
  BY DEF Finalize, Begin, NextBlock, Reconcile, Abort, Look, Write, OpFinalizes, Archive, vars, index
<1>2. JournalIsL1' /\ Covered' /\ ArchivedBelow'
  BY <1>1 DEF StillInv, JournalIsL1, Covered, ArchivedBelow, Served
<1>3. NoneRetracted'
  <2>1. CASE OpFinalizes
    <3>1. op' = [status |-> "FINALIZED", block |-> Front(l1, OpHeight)] /\ OpHeight \in 0 .. Len(l1) /\ l1 \in Paths
      BY <2>1, NoLength DEF OpFinalizes, IndexInv, Kinds
    <3>2. Len(Front(l1, OpHeight)) = OpHeight
      BY <3>1, FrontIs
    <3> QED
      BY <1>1, <3>1, <3>2 DEF StillInv, NoneRetracted, Served
  <2>2. CASE op' = op
    BY <1>1, <2>2 DEF StillInv, NoneRetracted, Served
  <2> QED
    BY <2>1, <2>2 DEF Finalize, Begin, NextBlock, Reconcile, Abort, Look, Write, Archive, vars
<1>4. RunKnows'
  <2>1. run \in RunState /\ RunKnows
    BY DEF IndexInv, Kinds, StillInv
  <2>2. CASE Begin
    <3>1. /\ run'.pc = "block" /\ run'.mem = [s \in Sources |-> Len(cursor[s])]
          /\ \A s \in Sources : run'.number - 1 <= run'.mem[s]
      BY <2>2, BeginRun
    <3> QED
      BY <1>1, <3>1 DEF RunKnows
  <2>3. CASE NextBlock
    <3>1. run'.pc = "block" /\ run'.number = run.number + 1 /\ run'.mem = run.mem
          /\ run.number \in Nat /\ run.mem \in [Sources -> Nat] /\ run.pc = "ingest" /\ Todo = {}
      BY <2>1, <2>3 DEF NextBlock, RunState
    <3>2. \A s \in Sources : run.number <= run.mem[s]
      BY <3>1 DEF Todo
    <3>3. \A s \in Sources : run'.number - 1 <= run'.mem[s]
      BY <3>1, <3>2
    <3> QED
      BY <1>1, <2>1, <3>1, <3>3 DEF RunKnows
  <2>4. CASE Reconcile
    <3>1. run.pc = "block" /\ run'.pc = "floor" /\ run'.mem = run.mem
      BY <2>1, <2>4 DEF Reconcile, RunState
    <3> QED
      BY <1>1, <2>1, <3>1 DEF RunKnows
  <2>5. CASE Abort
    BY <2>5, IdleRun DEF Abort, RunKnows
  <2>6. CASE run' = run
    BY <1>1, <2>1, <2>6 DEF RunKnows
  <2> QED
    BY <2>2, <2>3, <2>4, <2>5, <2>6 DEF Finalize, Look, Write, OpFinalizes, Archive, vars
<1> QED
  BY <1>2, <1>3, <1>4 DEF StillInv

(* none of the three is possible before L1 rewrites a block *)
LEMMA NothingRecovers ==
  ASSUME StillInv
  PROVE  ~Audit /\ ~InstallBranch /\ ~FinalizeRecovery
BY DEF StillInv, NoneRetracted, Audit, InstallBranch, FinalizeRecovery

LEMMA LosslessStep == IndexInv /\ LosslessInv /\ [Next]_vars => LosslessInv'
<1> SUFFICES ASSUME IndexInv, LosslessInv, [Next]_vars PROVE LosslessInv'
  OBVIOUS
<1>1. reorgs \in Nat /\ surprises \in Nat
  BY DEF LosslessInv
<1>2. CASE Reorg \/ Surprise
  <2>1. reorgs' \in Nat /\ surprises' \in Nat /\ reorgs' + surprises' # 0
    BY <1>1, <1>2 DEF Reorg, Surprise
  <2> QED
    BY <2>1 DEF LosslessInv, Still
<1>3. CASE ~(Reorg \/ Surprise)
  <2>1. reorgs' = reorgs /\ surprises' = surprises
    BY <1>3 DEF Next, vars, bounds, Grow, Finalize, Indexer, Begin, ReadBlock, ReadLogs, NextBlock, Reconcile,
       AdvanceFloor, Abort, Archive, Look, Write, OpFinalizes, Audit, InstallBranch, FinalizeRecovery
  <2>2. ASSUME StillInv
        PROVE  StillInv'
    BY <1>3, <2>2, GrowStays, ReadStays, LogsStay, FloorStays, OthersStay, NothingRecovers DEF Next, Indexer
  <2> QED
    BY <1>1, <2>1, <2>2 DEF LosslessInv, Still
<1> QED
  BY <1>2, <1>3

(* A crash between the transactions of a block loses no log, and no block goes below the
   floor before its sidecar is archived, as long as L1 does not reorganise
   (ingestIndexerRecords, advanceCanonicalFloor). *)
THEOREM CompleteWithoutReorgAlways == Spec => []CompleteWithoutReorg
<1>1. Spec => []LosslessInv
  BY IndexInvAlways, LosslessInit, LosslessStep, PTL DEF Spec
<1> QED
  BY <1>1, LosslessImplies, PTL
=============================================================================
