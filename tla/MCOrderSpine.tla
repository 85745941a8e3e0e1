---------------------------- MODULE MCOrderSpine ----------------------------
(***************************************************************************)
(* OrderSpine on a small instance: two workers, two approvals and two      *)
(* orders, one of them an option order.  Two of each is what the races     *)
(* need: two workers for one approval, two approvals for one order, and a  *)
(* request that differs from the reviewed one.                             *)
(***************************************************************************)
EXTENDS OrderSpine, TLC

\* Workers are interchangeable; approvals and orders are too, except that the
\* option orders form a set of their own, so only workers and approvals are
\* permuted.
Symmetry == Permutations(Worker) \cup Permutations(Approval)
=============================================================================
