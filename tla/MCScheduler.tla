--------------------------- MODULE MCScheduler ---------------------------
(* Three workers for two slots, one of them repeating from the             *)
(* configuration, and an inline job that repeats.                          *)
EXTENDS Scheduler

CONSTANTS render, tree, sync, tick

MCJobs == {render, tree, sync, tick}
MCWorkers == {render, tree, sync}
MCRepeating == {sync, tick}
MCImmediate == {render, tree}
MCConfigured == <<tick, sync>>
===========================================================================
