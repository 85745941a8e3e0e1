----------------------- MODULE SingleUseAuthorization -----------------------
(***************************************************************************)
(* What the ledger and the placement service promise together: an order    *)
(* reaches the broker at most once per authorisation, only after the       *)
(* authorisation was granted and then consumed, and an authorisation that  *)
(* was refused or consumed never becomes usable again.  How the promise is *)
(* kept (workers, reservations, lost answers, crashes) is not visible      *)
(* here: OrderSpine implements this specification.                         *)
(***************************************************************************)
EXTENDS Naturals

CONSTANT Approval

VARIABLES
    stage,      \* how far each authorisation has come
    submits     \* how often the broker was called under it

vars == <<stage, submits>>

Stage == {"absent", "requested", "granted", "refused", "consumed"}

TypeOK ==
    /\ stage \in [Approval -> Stage]
    /\ submits \in [Approval -> 0 .. 1]

Init ==
    /\ stage = [a \in Approval |-> "absent"]
    /\ submits = [a \in Approval |-> 0]

\* An authorisation advances from one stage to another.
Advance(a, from, to) ==
    /\ stage[a] = from
    /\ stage' = [stage EXCEPT ![a] = to]
    /\ UNCHANGED submits

Request(a) == Advance(a, "absent", "requested")

Grant(a) == Advance(a, "requested", "granted")

Refuse(a) == Advance(a, "requested", "refused") \/ Advance(a, "granted", "refused")

Consume(a) == Advance(a, "granted", "consumed")

Submit(a) ==
    /\ stage[a] = "consumed"
    /\ submits[a] = 0
    /\ submits' = [submits EXCEPT ![a] = 1]
    /\ UNCHANGED stage

Next ==
    \E a \in Approval : Request(a) \/ Grant(a) \/ Refuse(a) \/ Consume(a) \/ Submit(a)

Spec == Init /\ [][Next]_vars
=============================================================================
