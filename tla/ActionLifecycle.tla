--------------------------- MODULE ActionLifecycle ---------------------------
(***************************************************************************)
(* What the action frontier promises about one action, whatever the        *)
(* others do: it is queued once, held by at most one worker at a time,     *)
(* passes from one holder to the next only through the queue, and, once    *)
(* done, cancelled or stopped, stays so until it is dropped for good.      *)
(***************************************************************************)
CONSTANTS Ids, Workers, None

VARIABLES
    phase,   \* id -> where the action is in its life
    holder   \* id -> the worker that holds it

vars == <<phase, holder>>

Final == {"done", "cancelled", "stopped"}
Phases == {"unborn", "queued", "held", "failed", "dropped"} \cup Final

Init ==
    /\ phase = [id \in Ids |-> "unborn"]
    /\ holder = [id \in Ids |-> None]

\* The steps of one action; p, h are its phase and holder, q, k the next ones.
Submit(p, h, q, k)  == p = "unborn" /\ q = "queued" /\ k = None
Take(p, h, q, k)    == p = "queued" /\ q = "held" /\ k \in Workers
Release(p, h, q, k) == p \in {"held", "failed"} /\ q = "queued" /\ k = None
Fail(p, h, q, k)    == p \in {"queued", "held"} /\ q = "failed" /\ k = None
Finish(p, h, q, k)  == p \in {"queued", "held"} /\ q \in Final /\ k = None
Drop(p, h, q, k)    == p \in Final \cup {"failed"} /\ q = "dropped" /\ k = None
Keep(p, h, q, k)    == q = p /\ k = h

Step(p, h, q, k) ==
    \/ Submit(p, h, q, k)
    \/ Take(p, h, q, k)
    \/ Release(p, h, q, k)
    \/ Fail(p, h, q, k)
    \/ Finish(p, h, q, k)
    \/ Drop(p, h, q, k)
    \/ Keep(p, h, q, k)

Next ==
    /\ phase' \in [Ids -> Phases]
    /\ holder' \in [Ids -> Workers \cup {None}]
    /\ \A id \in Ids : Step(phase[id], holder[id], phase'[id], holder'[id])

Spec == Init /\ [][Next]_vars
=============================================================================
