---------------------------- MODULE OperationLedger ----------------------------
(***************************************************************************)
(* What the L1 operation journal promises whoever asks for an operation by *)
(* its idempotency key: it is reserved once, bound to one signed           *)
(* transaction for ever, ends with one verdict, and a verdict is taken     *)
(* back only when L1 itself rewrote finalized blocks, and then into the    *)
(* hands of an operator.                                                   *)
(***************************************************************************)
CONSTANTS Ops, Bytes, NoBytes

VARIABLES
  verdict,   \* operation -> what its owner is told
  bound      \* operation -> the signed bytes it stands for

vars == <<verdict, bound>>

Verdicts == {"none", "open", "final", "failed", "recovery"}

Init ==
  /\ verdict = [o \in Ops |-> "none"]
  /\ bound = [o \in Ops |-> NoBytes]

Reserve(o) ==
  /\ verdict[o] = "none"
  /\ verdict' = [verdict EXCEPT ![o] = "open"]
  /\ UNCHANGED bound

Bind(o) ==
  /\ verdict[o] = "open" /\ bound[o] = NoBytes
  /\ \E b \in Bytes \ {bound[p] : p \in Ops} : bound' = [bound EXCEPT ![o] = b]
  /\ UNCHANGED verdict

(* only a transaction can end well or badly on L1 *)
End(o) ==
  /\ verdict[o] = "open"
  /\ \E v \in {"recovery"} \cup (IF bound[o] = NoBytes THEN {} ELSE {"final", "failed"}) :
       verdict' = [verdict EXCEPT ![o] = v]
  /\ UNCHANGED bound

(* finalized blocks were rewritten: every operation in them at once *)
Surprise(S) ==
  /\ S # {} /\ \A o \in S : verdict[o] = "final"
  /\ verdict' = [o \in Ops |-> IF o \in S THEN "recovery" ELSE verdict[o]]
  /\ UNCHANGED bound

Next ==
  \/ \E o \in Ops : Reserve(o) \/ Bind(o) \/ End(o)
  \/ \E S \in SUBSET Ops : Surprise(S)

Spec == Init /\ [][Next]_vars
=============================================================================
