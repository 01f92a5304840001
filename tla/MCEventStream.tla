----------------------------- MODULE MCEventStream -----------------------------
(* Two viewers; events for both that are kept for a time, and events for one of them that
   are kept until resolved. *)
EXTENDS EventStream

CONSTANTS a, b

MCTopics == {[audience |-> Everyone, class |-> "audit"], [audience |-> a, class |-> "safety"]}
=============================================================================
