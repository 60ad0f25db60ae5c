---------------------------- MODULE MCResources -----------------------------
(* Jobs of two ops, each with a resource and an image of its own. *)
EXTENDS Resources, TLC

CONSTANTS a, b, llm, set, base, extra

MCWants == [o \in Ops |-> IF o = a THEN llm ELSE set]
MCRuns == [o \in Ops |-> base]
=============================================================================
