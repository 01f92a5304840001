------------------------------ MODULE Settlement ------------------------------
(***************************************************************************)
(* What watchSettlement (l1-settlement-watcher.ts) promises the caller     *)
(* that awaits it, as the caller sees it.  onAccepted announces the batch  *)
(* at a placement, the L1 block that carries it.  It may be called again   *)
(* without an onRetracted between, when the batch has moved to another     *)
(* block, but never twice in a row for one placement; onRetracted only     *)
(* takes back what was announced; and the watch returns a finalized        *)
(* settlement only at the placement it announced last.  It may give up at  *)
(* any time.  The caller's room phase follows these calls                  *)
(* (demo-runtime-checkpoint.ts): a settlement that returned at a placement *)
(* the caller never heard of would leave it with the wrong one.            *)
(***************************************************************************)
CONSTANT NoPlacement

VARIABLES
  status,   \* "pending", "accepted", and how the watch ended: "finalized", "failed"
  at        \* the placement announced last, NoPlacement once it was retracted

Init == status = "pending" /\ at = NoPlacement

Accepted ==
  /\ status \in {"pending", "accepted"} /\ status' = "accepted"
  /\ at' \notin {at, NoPlacement}

Retracted ==
  /\ status = "accepted" /\ status' = "pending"
  /\ at' = NoPlacement

Returns ==
  /\ status = "accepted" /\ status' = "finalized"
  /\ at' = at

Throws ==
  /\ status \in {"pending", "accepted"} /\ status' = "failed"
  /\ at' = at

Next == Accepted \/ Retracted \/ Returns \/ Throws

Spec == Init /\ [][Next]_<<status, at>>
=============================================================================
