--------------------------- MODULE ScheduledJobs ---------------------------
(***************************************************************************)
(* What the background machinery makes of a scheduled job, without the     *)
(* channel, the permits and the pool: a tick claims the kind, the claim    *)
(* is run once and given back, or dropped because the channel is full.  A  *)
(* claim whose task finds no connection is neither run nor given back.     *)
(***************************************************************************)
CONSTANT Kinds
VARIABLE phase

Phases == {"idle", "claimed", "running", "abandoned"}

\* One kind moves at a time, from one phase to the next.
Move(k, from, to) ==
    /\ phase[k] = from
    /\ phase' = [phase EXCEPT ![k] = to]

Init == phase = [k \in Kinds |-> "idle"]

\* A tick finds the kind free.
Take(k) == Move(k, "idle", "claimed")
\* No room on the channel.
Drop(k) == Move(k, "claimed", "idle")
\* A worker has its connection and runs the job.
Start(k) == Move(k, "claimed", "running")
\* The run is over and the claim given back.
Finish(k) == Move(k, "running", "idle")
\* The worker got no connection and went away without giving the claim back.
Abandon(k) == Move(k, "claimed", "abandoned")

Next == \E k \in Kinds : Take(k) \/ Drop(k) \/ Start(k) \/ Finish(k) \/ Abandon(k)

Spec == Init /\ [][Next]_phase

=============================================================================
