----------------------------- MODULE MCOrderFlow -----------------------------
(* OrderFlow for TLC. *)
EXTENDS OrderFlow

\* Orders of the first session have a number of their own; the later ones share
\* theirs with the orders of other terminals.
MCOrderSysID == [k \in Keys |-> IF k[1] = 1 THEN 1 ELSE 2]
=============================================================================
