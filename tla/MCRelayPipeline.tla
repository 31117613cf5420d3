-------------------------- MODULE MCRelayPipeline ---------------------------
(* TLC instances of RelayPipeline. *)
EXTENDS RelayPipeline, TLC

EventSymmetry == Permutations(Event)

(* The variables that some guard or some other variable's next value       *)
(* depends on.  The others (authRequired, openRuns, mine, tally and        *)
(* source.healthy) are only ever written: states that differ in nothing    *)
(* else have the same future in all that NoEventLost and the refinement    *)
(* read.                                                                   *)
Relevant ==
  <<log, pending, openTail, listener, work, pc, batch, grant, faults, uploads,
    deleted, staged, source.due, cycle, listing, todo, failures>>
============================================================================
