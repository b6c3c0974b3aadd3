---------------------------- MODULE Scheduler ----------------------------
(***************************************************************************)
(* server/core/scheduler.ts: timed jobs of one process, at most two of     *)
(* them in a forked child at a time, and the shutdown that has to wait for *)
(* children which may ignore it.                                           *)
(*                                                                         *)
(* A step is one callback: a timer, an event of a child, a call.  Promise  *)
(* continuations run before the next callback and belong to the step that  *)
(* settles the promise.  A Job object that has left the queue makes room   *)
(* for a new one of the same name.  Observations, stderr and results are   *)
(* left out, and so is the transport error of a child that was spawned,    *)
(* which only becomes part of the result.                                  *)
(***************************************************************************)
EXTENDS Naturals, Sequences, FiniteSets, SequencesExt

CONSTANTS Jobs,
          Workers,     \* the jobs that run in a forked child
          Repeating,   \* the jobs that are enqueued again when they end
          Immediate,   \* the jobs that run when they are registered
          Configured,  \* wiki.data.jobs, in order
          Nothing      \* no promise

ASSUME JobAssumption ==
  /\ IsFiniteSet(Jobs)
  /\ \A some \in SUBSET Jobs : Nothing # some
  /\ {Workers, Repeating, Immediate} \subseteq SUBSET Jobs
  /\ Configured \in Seq(Jobs)
  /\ \A i, k \in DOMAIN Configured : Configured[i] = Configured[k] => i = k

VARIABLES
  job,       \* the Job object of each name
  active,    \* activeWorkers
  waiting,   \* pendingWorkers, a queue
  started,   \* scheduler.started
  stopping,  \* scheduler.stopping
  awaited    \* the jobs scheduler.stopPromise waits for, Nothing without one

vars == <<job, active, waiting, started, stopping, awaited>>

MaxForkedWorkers == 2

\* absent: not in scheduler.jobs; delayed: its timer is set; invoked: the
\* promise `finished` is open, in the waiting line or executing.
Phases == {"absent", "delayed", "invoked"}

\* none, or Job.process: thrown by fork; unspawned, then failed with its error
\* event; alive, then dead, then exited with its exit event.
Children == {"none", "thrown", "unspawned", "failed", "alive", "dead", "exited"}

Promises == {"none", "open", "resolved", "rejected"}

TypeOK ==
  /\ job \in [Jobs -> [phase : Phases, child : Children, closed : BOOLEAN,
                       stop : Promises, escalation : BOOLEAN, cancellation : BOOLEAN]]
  /\ active \subseteq Workers
  /\ ToSet(waiting) \subseteq Workers
  /\ started \in BOOLEAN /\ stopping \in BOOLEAN
  /\ awaited = Nothing \/ awaited \subseteq Jobs

NewJob == [phase |-> "absent", child |-> "none", closed |-> FALSE, stop |-> "none",
           escalation |-> FALSE, cancellation |-> FALSE]

Init ==
  /\ job = [j \in Jobs |-> NewJob]
  /\ active = {} /\ waiting = <<>>
  /\ started = FALSE /\ stopping = FALSE /\ awaited = Nothing

Registered(j) == job[j].phase # "absent"
Process(j) == job[j].child \notin {"none", "thrown"}
Executing(j) == job[j].phase = "invoked" /\ j \notin ToSet(waiting)

\* The members of a line that are in some, in their order.
Those(line, some) ==
  LET places == {i \in DOMAIN line : line[i] \in some}
      place(n) == CHOOSE i \in places : Cardinality({k \in places : k <= i}) = n
  IN  [n \in 1..Cardinality(places) |-> line[place(n)]]

---------------------------------------------------------------------------
(* Admission: admitWorker, drainWorkers, releaseWorker.                    *)

\* How a fork goes.
Forks == {"alive", "unspawned", "thrown"}

RoomForOneMore(slots) ==
  IF stopping THEN 0 ELSE MaxForkedWorkers + 1 - Cardinality(slots)

\* The head of the line takes the free slots, unless the scheduler stops.
\* (A stopped job has left the line already.)
Room(slots) == IF stopping THEN 0 ELSE MaxForkedWorkers - Cardinality(slots)

\* jobs: the objects, slots: the active workers, line: the waiting ones, before.
Drain(jobs, slots, line) ==
  LET n == IF Room(slots) < Len(line) THEN Room(slots) ELSE Len(line)
      starting == {line[i] : i \in 1..n}
  IN  /\ \E fork \in [starting -> Forks] :
           job' = [j \in Jobs |->
                     IF j \in starting
                     THEN [jobs[j] EXCEPT !.child = fork[j], !.closed = FALSE]
                     ELSE jobs[j]]
      /\ active' = slots \cup starting
      /\ waiting' = SubSeq(line, n + 1, Len(line))

Invoked(j) == [job[j] EXCEPT !.phase = "invoked"]

---------------------------------------------------------------------------
(* Registration and timers.                                                *)

Fresh(j) == [NewJob EXCEPT !.phase = IF j \in Immediate THEN "invoked" ELSE "delayed"]

Register(new) ==
  Drain([j \in Jobs |-> IF j \in ToSet(new) THEN Fresh(j) ELSE job[j]],
        active,
        waiting \o Those(new, Workers \cap Immediate))

Start ==
  /\ ~started /\ ~stopping
  /\ \A j \in ToSet(Configured) : ~Registered(j)
  /\ started' = TRUE
  /\ Register(Configured)
  /\ UNCHANGED <<stopping, awaited>>

\* registerJob throws once the scheduler is stopping.
RegisterJob(j) ==
  /\ ~stopping
  /\ ~Registered(j) /\ j \notin ToSet(Configured)
  /\ Register(<<j>>)
  /\ UNCHANGED <<started, stopping, awaited>>

TimerFiresInLine(j) ==
  /\ job[j].phase = "delayed"
  /\ Drain([job EXCEPT ![j] = Invoked(j)], active, Append(waiting, j))
  /\ UNCHANGED <<started, stopping, awaited>>

\* The timer of a stopped job was cleared.
TimerFires(j) ==
  /\ job[j].phase = "delayed"
  /\ Drain([job EXCEPT ![j] = Invoked(j)], active,
           IF j \in Workers THEN Append(waiting, j) ELSE waiting)
  /\ UNCHANGED <<started, stopping, awaited>>

---------------------------------------------------------------------------
(* The end of an execution: `finished` settles, Job.execute goes on.       *)

AgainThoughStopped(j) == j \in Repeating

Again(j) == j \in Repeating /\ job[j].stop = "none"

\* Timers of a stop are cleared, its promise is resolved unless it was rejected.
Ended(j) ==
  [NewJob EXCEPT !.phase = IF Again(j) THEN "delayed" ELSE "absent",
                 !.stop = IF job[j].stop = "open" THEN "resolved" ELSE job[j].stop]

SettleSilently(j) ==
  /\ job' = [job EXCEPT ![j] = Ended(j)]
  /\ active' = active \ {j}
  /\ UNCHANGED <<waiting, started, stopping, awaited>>

\* releaseWorker lets the next one in.
Settle(j) ==
  /\ Drain([job EXCEPT ![j] = Ended(j)], active \ {j}, waiting)
  /\ UNCHANGED <<started, stopping, awaited>>

InlineEnds(j) ==
  /\ j \notin Workers /\ Executing(j)
  /\ Settle(j)

\* fork threw, or the data could not be serialised.
ForkThrew(j) ==
  /\ job[j].child = "thrown"
  /\ Settle(j)

Terminated(child) == child \in {"exited", "failed"}
Confirmed(child, closed) == closed /\ Terminated(child)

\* `finish`: nothing is settled before both termination and close are known.
Observes(j, child, closed) ==
  IF Confirmed(child, closed)
  THEN Settle(j)
  ELSE /\ job' = [job EXCEPT ![j].child = child, ![j].closed = closed,
                             ![j].escalation = @ /\ child # "exited"]
       /\ UNCHANGED <<active, waiting, started, stopping, awaited>>

\* The operating system: a child ends by itself or by a signal.
Dies(j) ==
  /\ job[j].child = "alive"
  /\ job' = [job EXCEPT ![j].child = "dead"]
  /\ UNCHANGED <<active, waiting, started, stopping, awaited>>

ExitEvent(j) == job[j].child = "dead" /\ Observes(j, "exited", job[j].closed)
ErrorEvent(j) == job[j].child = "unspawned" /\ Observes(j, "failed", job[j].closed)
CloseEvent(j) == Process(j) /\ ~job[j].closed /\ Observes(j, job[j].child, TRUE)

---------------------------------------------------------------------------
(* Job.stop and scheduler.stop.                                            *)

StoppedBoundedIfAlive(j) ==
  IF job[j].stop # "none" THEN job[j]
  ELSE IF Process(j)
  THEN [job[j] EXCEPT !.stop = "open", !.cancellation = job[j].child # "exited",
                      !.escalation = job[j].child # "exited"]
  ELSE IF Executing(j) THEN [job[j] EXCEPT !.stop = "open"]
  ELSE [NewJob EXCEPT !.stop = "resolved"]

\* Without a process the job is stopped at once, unless it executes inline (or
\* its fork just threw); with one, SIGTERM is sent and the timers are set.
Stopped(j) ==
  IF job[j].stop # "none" THEN job[j]
  ELSE IF Process(j)
  THEN [job[j] EXCEPT !.stop = "open", !.cancellation = TRUE,
                      !.escalation = job[j].child # "exited"]
  ELSE IF Executing(j) THEN [job[j] EXCEPT !.stop = "open"]
  ELSE [NewJob EXCEPT !.stop = "resolved"]

Without(line, gone) == Those(line, Jobs \ gone)

StopJobs(some) ==
  /\ job' = [j \in Jobs |-> IF j \in some THEN Stopped(j) ELSE job[j]]
  /\ waiting' = Without(waiting, some)
  /\ UNCHANGED active

Stop(j) ==
  /\ Registered(j) /\ job[j].stop = "none"
  /\ StopJobs({j})
  /\ UNCHANGED <<started, stopping, awaited>>

\* A stop that was rejected may be asked for again.
StopScheduler ==
  /\ awaited = Nothing
  /\ stopping' = TRUE
  /\ awaited' = {j \in Jobs : Registered(j)}
  /\ StopJobs({j \in Jobs : Registered(j)})
  /\ UNCHANGED started

StopSchedulerResolves ==
  /\ awaited # Nothing
  /\ \A j \in awaited : job[j].stop = "resolved"
  /\ started' = FALSE /\ stopping' = FALSE /\ awaited' = Nothing
  /\ UNCHANGED <<job, active, waiting>>

StopSchedulerRejects ==
  /\ awaited # Nothing
  /\ \E j \in awaited : job[j].stop = "rejected"
  /\ awaited' = Nothing
  /\ UNCHANGED <<job, active, waiting, started, stopping>>

\* One second: SIGKILL, whatever becomes of it.
Escalate(j) ==
  /\ job[j].escalation
  /\ job' = [job EXCEPT ![j].escalation = FALSE]
  /\ UNCHANGED <<active, waiting, started, stopping, awaited>>

UnconfirmedResolving(j) ==
  /\ job[j].cancellation /\ ~job[j].escalation
  /\ job' = [job EXCEPT ![j].cancellation = FALSE, ![j].stop = "resolved"]
  /\ UNCHANGED <<active, waiting, started, stopping, awaited>>

\* Five seconds: the stop is given up, the slot is not.
Unconfirmed(j) ==
  /\ job[j].cancellation /\ ~job[j].escalation
  /\ job' = [job EXCEPT ![j].cancellation = FALSE, ![j].stop = "rejected"]
  /\ UNCHANGED <<active, waiting, started, stopping, awaited>>

---------------------------------------------------------------------------

Child(j) == Dies(j) \/ ExitEvent(j) \/ ErrorEvent(j) \/ CloseEvent(j) \/ ForkThrew(j)
Timer(j) == TimerFires(j) \/ Escalate(j) \/ Unconfirmed(j)

Next ==
  \/ \E j \in Jobs : Child(j) \/ Timer(j) \/ InlineEnds(j) \/ RegisterJob(j) \/ Stop(j)
  \/ Start \/ StopScheduler \/ StopSchedulerResolves \/ StopSchedulerRejects

Spec == Init /\ [][Next]_vars

\* Timers fire and promises settle; no child is trusted to end, no pipe to
\* close and no inline job to return.
LiveSpec ==
  /\ Spec
  /\ \A j \in Jobs : WF_vars(Escalate(j)) /\ WF_vars(Unconfirmed(j)) /\ WF_vars(ForkThrew(j))
  /\ WF_vars(StopSchedulerResolves) /\ WF_vars(StopSchedulerRejects)

---------------------------------------------------------------------------
(* Properties.                                                             *)

\* Never more than two children, counting those that were given up on, and
\* none without its slot: the slot is kept until termination and close are both
\* known (docs/agents-deployment.md:462; releaseWorker).
ChildrenHoldSlots ==
  /\ Cardinality(active) <= MaxForkedWorkers
  /\ \A j \in Jobs : Process(j) => j \in active /\ Registered(j)

\* No wake-up is lost: while a worker waits, both slots are taken by jobs that
\* execute, unless the scheduler stops, and then nobody waits (drainWorkers
\* against cancelWorker, releaseWorker and failing forks).
NobodyWaitsInVain ==
  waiting # <<>> => /\ ~stopping
                    /\ Cardinality(active) = MaxForkedWorkers
                    /\ \A j \in active : Executing(j)

\* Nothing is forked for a job after its stop or after the scheduler's, from
\* whatever timer, line or repetition the job was in (Job.stop, scheduler.stop).
NothingStartsAfterStop ==
  [][\A j \in Jobs : ~Process(j) /\ Process(j)' =>
        ~stopping /\ (Registered(j) => job[j].stop = "none")]_vars

\* A stop of the scheduler that succeeds leaves no child, no slot, no job and
\* no waiting line to the next start, also when an earlier stop failed.
StopLeavesNothing ==
  [][stopping /\ ~stopping' =>
       /\ active = {} /\ waiting = <<>>
       /\ \A j \in Jobs : ~Registered(j) /\ ~Process(j)]_vars

\* A stop of a job in a child comes to an end, though the child ignore every
\* signal or its pipe never close; that of the scheduler too, unless an inline
\* job does not return (escalation and cancellation timers).
StopsEnd ==
  /\ \A j \in Workers : job[j].stop = "open" ~> job[j].stop # "open"
  /\ awaited # Nothing ~> \/ awaited = Nothing
                          \/ \E j \in Jobs \ Workers : Executing(j)
===========================================================================
