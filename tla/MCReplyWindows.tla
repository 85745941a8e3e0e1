--------------------------- MODULE MCReplyWindows ---------------------------
(***************************************************************************)
(* ReplyWindows on a small instance: two monitors, which is what racing    *)
(* for a reply needs, and either two approvals, so that a monitor that     *)
(* dies takes another window with it, or two replies in one thread.        *)
(***************************************************************************)
EXTENDS ReplyWindows

Symmetry == Permutations(Monitor) \cup Permutations(Approval)
=============================================================================
