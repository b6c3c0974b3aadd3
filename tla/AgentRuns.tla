------------------------------ MODULE AgentRuns ------------------------------
(***************************************************************************)
(* The runs of the agent, the leases their workers hold and the quota       *)
(* reserved for them (server/agents/coordinator.ts, maintenance.ts, and the *)
(* settlement and continuation steps of runtime.ts and page-proposals.ts).  *)
(*                                                                          *)
(* A transaction under the coordinator's advisory lock is one step, but the *)
(* claim, which reads its candidates and then walks through them: renewals, *)
(* fences and suspensions take no lock and come between.  A process runs    *)
(* one claim at a time, so its name stands for the token of the lease; the  *)
(* token of an execution that is gone is Lost.  A lease is live until it    *)
(* lapses.                                                                  *)
(***************************************************************************)
EXTENDS Naturals, FiniteSets

CONSTANTS
  Runs, Workers,
  OwnerOf,      \* the user a run is charged to
  MaxAttempts,  \* attempts of a run (3 in the code)
  Global,       \* configured concurrency, over all replicas
  PerUser,      \* and of one user
  MaxFaults,    \* BOUND: errors, aborts, crashes and stalls
  Nobody,       \* leaseToken is null
  Lost,         \* the token of an execution that is gone
  Idle,         \* the process executes no run
  NoClaim       \* nobody is between the two halves of a claim

ASSUME NumbersAssumption ==
  /\ MaxAttempts \in Nat \ {0} /\ Global \in Nat \ {0} /\ PerUser \in Nat \ {0}
  /\ MaxFaults \in Nat
ASSUME NamesAssumption == Nobody \notin Workers /\ Lost \notin Workers /\ Nobody # Lost

VARIABLES
  run,     \* the rows of agentRuns
  hold,    \* the rows of agentQuotaReservations
  spent,   \* the run's dispatch journal holds usage or exposure
  claim,   \* the claim that holds the lock: who, the rows it read, rows moved since
  exec,    \* exec[w]: the run process w executes
  listed,  \* reservations the maintenance read as expired
  faults   \* errors, aborts, crashes and stalls so far

vars == <<run, hold, spent, claim, exec, listed, faults>>

Waiting == {"queued", "running", "awaiting"}
\* "succeeded" stands for partial as well.
Ended == {"succeeded", "failed", "cancelled", "recovery"}
Run == [status : {"none"} \cup Waiting \cup Ended, attempts : 0..MaxAttempts,
        holder : Workers \cup {Nobody, Lost}, lapsed : BOOLEAN, side : BOOLEAN,
        cancel : BOOLEAN, cont : 0..MaxAttempts,
        verdict : {"none", "pending", "approved", "refused"}]
Hold == [status : {"none", "reserved", "consumed", "released"},
         pending : BOOLEAN, expired : BOOLEAN]
Phases == {"start", "work", "wait", "apply", "clear", "settle", "settled",
           "fail", "failing", "report", "broken"}
Execution == [run : Runs, phase : Phases, ready : BOOLEAN, aborted : BOOLEAN]

NewRun == [status |-> "none", attempts |-> 0, holder |-> Nobody, lapsed |-> FALSE,
           side |-> FALSE, cancel |-> FALSE, cont |-> 0, verdict |-> "none"]
Init ==
  /\ run = [r \in Runs |-> NewRun]
  /\ hold = [r \in Runs |-> [status |-> "none", pending |-> FALSE, expired |-> FALSE]]
  /\ spent = [r \in Runs |-> FALSE]
  /\ claim = NoClaim /\ exec = [w \in Workers |-> Idle] /\ listed = {} /\ faults = 0

Unlocked == claim = NoClaim
Executes(w, r) == exec[w] # Idle /\ exec[w].run = r
Leased(r) == run[r].status \in {"running", "awaiting"}

-----------------------------------------------------------------------------
(* The end of a run and the settlement of its reservation. *)

EndedRun(x, status) ==
  [x EXCEPT !.status = IF x.cancel THEN "cancelled" ELSE status,
            !.cancel = x.cancel \/ status = "cancelled",
            !.holder = Nobody, !.lapsed = FALSE, !.cont = 0, !.verdict = "none"]

\* The reservation becomes what the journal and the intent say, whichever is
\* more.  Variant: what the intent says.
ReconciledByIntent(r) ==
  IF hold[r].status = "reserved"
  THEN [hold[r] EXCEPT !.status = IF hold[r].pending THEN "consumed" ELSE "reserved",
                       !.pending = FALSE]
  ELSE hold[r]
Reconciled(r) ==
  IF hold[r].status = "reserved"
  THEN [hold[r] EXCEPT !.status = IF spent[r] \/ hold[r].pending THEN "consumed" ELSE "released",
                       !.pending = FALSE]
  ELSE hold[r]

Terminalize(r, status) ==
  /\ run' = [run EXCEPT ![r] = EndedRun(@, status)]
  /\ hold' = [hold EXCEPT ![r] = Reconciled(r)]

-----------------------------------------------------------------------------
(* What users do. *)

AdmitAgentRun(r) ==
  /\ Unlocked /\ run[r].status = "none"
  /\ run' = [run EXCEPT ![r].status = "queued"]
  /\ hold' = [hold EXCEPT ![r].status = "reserved"]
  /\ UNCHANGED <<spent, claim, exec, listed, faults>>

LiveLease(r) == run[r].status = "running" /\ run[r].holder # Nobody /\ ~run[r].lapsed

\* A run with a live lease is only marked; if the process that received the
\* request executes it, its execution is aborted as well.
RequestAgentRunCancellation(r) ==
  /\ Unlocked /\ run[r].status \in Waiting
  /\ IF LiveLease(r)
     THEN /\ ~run[r].cancel
          /\ run' = [run EXCEPT ![r].cancel = TRUE]
          /\ UNCHANGED hold
     ELSE Terminalize(r, "cancelled")
  /\ \/ UNCHANGED exec
     \/ \E w \in Workers : Executes(w, r) /\ exec' = [exec EXCEPT ![w].aborted = TRUE]
  /\ UNCHANGED <<spent, claim, listed, faults>>

\* Its session is deleted: a running one is marked, a quarantined one is left.
\* A run that is suspended after the runs to end were read and before the
\* running ones are marked escapes both: for it this action does not happen.
TombstoneOwnedSession(r) ==
  /\ Unlocked /\ run[r].status \in Waiting
  /\ IF run[r].status = "running"
     THEN run' = [run EXCEPT ![r].cancel = TRUE] /\ UNCHANGED hold
     ELSE ~hold[r].pending /\ Terminalize(r, "cancelled")
  /\ UNCHANGED <<spent, claim, exec, listed, faults>>

\* The proposal the run waits for is decided, or expires.
Decide(r) ==
  /\ run[r].verdict = "pending"
  /\ \E verdict \in {"approved", "refused"} : run' = [run EXCEPT ![r].verdict = verdict]
  /\ UNCHANGED <<hold, spent, claim, exec, listed, faults>>

-----------------------------------------------------------------------------
(* Claims: the candidates are read, then walked through, oldest first. The   *)
(* age is not modelled: the walk takes them in any order.                    *)

Pending(r) == hold[r].status = "reserved" /\ hold[r].pending
Candidates ==
  {r \in Runs : /\ run[r].status = "queued" \/ (Leased(r) /\ run[r].lapsed)
                /\ ~run[r].cancel /\ ~Pending(r)}
ActiveLeases == {r \in Runs : run[r].status = "running" /\ ~run[r].lapsed}

ReadCandidates(w) ==
  /\ Unlocked /\ exec[w] = Idle
  /\ Candidates # {} /\ Cardinality(ActiveLeases) < Global
  /\ claim' = [worker |-> w, rows |-> run, candidates |-> Candidates,
               active |-> ActiveLeases, moved |-> {}]
  /\ UNCHANGED <<run, hold, spent, exec, listed, faults>>

Seen(r) == claim.rows[r]
Saturated(r) == Cardinality({a \in claim.active : OwnerOf[a] = OwnerOf[r]}) >= PerUser
\* The update finds the row it was planned for.
Fenced(r) == run[r].status = Seen(r).status /\ r \notin claim.moved
LostSideEffect(r) == Seen(r).status = "running" /\ Seen(r).side
Resumes(r) == Seen(r).status = "running" /\ ~Seen(r).side /\ Seen(r).cont # 0
Exhausted(r) ==
  Seen(r).attempts >= MaxAttempts /\ Seen(r).status # "awaiting" /\ ~Resumes(r)
Skipped(r) == Seen(r).status # "awaiting" /\ Saturated(r)
EndedBy(r) ==
  IF LostSideEffect(r) THEN "recovery" ELSE IF ~Skipped(r) /\ Exhausted(r) THEN "failed" ELSE "none"
Takes(r) == EndedBy(r) = "none" /\ ~Skipped(r) /\ Fenced(r)
\* A row that moved under its end, or a checkpoint of another attempt, rolls
\* the whole claim back.
Throws(r) ==
  \/ EndedBy(r) # "none" /\ ~Fenced(r)
  \/ ~LostSideEffect(r) /\ Resumes(r) /\ Seen(r).cont # Seen(r).attempts

\* Variant: every claim counts as an attempt.
ClaimedCounting(r, w) ==
  [run[r] EXCEPT !.status = IF Seen(r).status = "awaiting" THEN "awaiting" ELSE "running",
                 !.attempts = Seen(r).attempts + 1, !.holder = w, !.lapsed = FALSE]
Claimed(r, w) ==
  [run[r] EXCEPT !.status = IF Seen(r).status = "awaiting" THEN "awaiting" ELSE "running",
                 !.attempts = IF Seen(r).status = "awaiting" \/ Resumes(r)
                              THEN Seen(r).attempts ELSE Seen(r).attempts + 1,
                 !.holder = w, !.lapsed = FALSE]

\* The candidates in `ahead` come before the one taken.
Walk(ahead, taken) ==
  LET ends == {r \in ahead : EndedBy(r) # "none"}
  IN  /\ run' = [r \in Runs |-> IF r \in ends THEN EndedRun(run[r], EndedBy(r))
                                ELSE IF r \in taken THEN Claimed(r, claim.worker) ELSE run[r]]
      /\ hold' = [r \in Runs |-> IF r \in ends THEN Reconciled(r) ELSE hold[r]]

Considered == {r \in claim.candidates : Seen(r).status = "awaiting" \/ Seen(r).side \/ ~Saturated(r)}
Takeable == {r \in Considered : Takes(r) /\ ~Throws(r)}

TakeCandidate(w, r) ==
  /\ claim # NoClaim /\ claim.worker = w /\ r \in Takeable
  /\ \E ahead \in SUBSET {q \in Considered : ~Takes(q) /\ ~Throws(q)} : Walk(ahead, {r})
  /\ exec' = [exec EXCEPT ![w] =
                [run |-> r, phase |-> "start", ready |-> FALSE, aborted |-> FALSE]]
  /\ claim' = NoClaim
  /\ UNCHANGED <<spent, listed, faults>>

TakeNothing(w) ==
  /\ claim # NoClaim /\ claim.worker = w
  /\ \/ Takeable = {} /\ (\A r \in Considered : ~Throws(r)) /\ Walk(Considered, {})
     \/ (\E r \in Considered : Throws(r)) /\ UNCHANGED <<run, hold>>
  /\ claim' = NoClaim
  /\ UNCHANGED <<spent, exec, listed, faults>>

-----------------------------------------------------------------------------
(* The execution of a claimed run. *)

At(w, phase) == exec[w] # Idle /\ exec[w].phase = phase
It(w) == exec[w].run
Row(w) == run[It(w)]
Holds(w) == Row(w).holder = w /\ Leased(It(w))
Running(w) == Holds(w) /\ Row(w).status = "running" /\ ~Row(w).cancel

Goes(w, phase) == exec' = [exec EXCEPT ![w].phase = phase]
Step(w, phase) == Goes(w, phase) /\ UNCHANGED <<run, hold, spent, claim, listed, faults>>
\* A row the execution still holds keeps the token of nobody.
Left(w) == IF Holds(w) THEN [run EXCEPT ![It(w)].holder = Lost] ELSE run
Leave(w) ==
  /\ run' = Left(w)
  /\ exec' = [exec EXCEPT ![w] = Idle]
  /\ UNCHANGED <<hold, spent, claim, listed>>

\* Neither locked nor interested in whether the lease had lapsed.
Heartbeat(w) ==
  /\ exec[w] # Idle /\ ~exec[w].aborted
  /\ IF Holds(w) /\ ~Row(w).cancel
     THEN /\ Row(w).lapsed \/ hold[It(w)].expired
          /\ run' = [run EXCEPT ![It(w)].lapsed = FALSE]
          /\ hold' = IF hold[It(w)].status = "reserved"
                     THEN [hold EXCEPT ![It(w)].expired = FALSE] ELSE hold
          /\ UNCHANGED exec
     ELSE /\ exec' = [exec EXCEPT ![w].aborted = TRUE]
          /\ UNCHANGED <<run, hold>>
  /\ UNCHANGED <<spent, claim, listed, faults>>

\* A checkpoint must be of this attempt.
Begin(w) ==
  /\ At(w, "start")
  /\ Step(w, IF \/ ~Holds(w) \/ Row(w).cancel
                \/ Row(w).cont \notin {0, Row(w).attempts}
                \/ Row(w).status = "awaiting" /\ Row(w).cont = 0
             THEN "fail" ELSE IF Row(w).cont # 0 THEN "wait" ELSE "work")

\* The first dispatch of an execution looks for its reservation; every one is
\* recorded in the journal before it is sent.
Dispatch(w) ==
  /\ At(w, "work") /\ ~exec[w].ready
  /\ LET h == hold[It(w)]
         sends == h.status = "reserved" /\ Holds(w) /\ ~Row(w).cancel /\ ~h.pending
     IN  /\ exec' = [exec EXCEPT ![w].ready = sends,
              ![w].phase = IF sends THEN "work"
                           ELSE IF h.status = "reserved" /\ Holds(w) /\ ~Row(w).cancel
                           THEN "broken" ELSE "fail"]
         /\ spent' = [spent EXCEPT ![It(w)] = @ \/ sends]
         /\ claim' = IF sends /\ claim # NoClaim
                     THEN [claim EXCEPT !.moved = @ \cup {It(w)}] ELSE claim
  /\ UNCHANGED <<run, hold, listed, faults>>

\* Any event of the run moves its sequence.
AppendAgentEvent(w) ==
  /\ exec[w] # Idle /\ Holds(w) /\ ~Unlocked /\ It(w) \notin claim.moved
  /\ exec[w].phase \in {"work", "wait"}
  /\ claim' = [claim EXCEPT !.moved = @ \cup {It(w)}]
  /\ UNCHANGED <<run, hold, spent, exec, listed, faults>>

\* The fence before an external tool, and before an approved action.
MarkSideEffectsStarted(w) ==
  /\ exec[w] # Idle
  /\ \/ exec[w].phase = "work" /\ exec[w].ready /\ ~Row(w).side
     \/ exec[w].phase = "apply"
  /\ LET after == IF exec[w].phase = "work" THEN "work" ELSE "clear"
     IN  IF Running(w)
         THEN run' = [run EXCEPT ![It(w)].side = TRUE] /\ Goes(w, after)
         ELSE UNCHANGED run /\ Goes(w, IF after = "work" THEN "fail" ELSE after)
  /\ UNCHANGED <<hold, spent, claim, listed, faults>>

PersistApprovalContinuation(w) ==
  /\ At(w, "work") /\ exec[w].ready
  /\ IF Running(w)
     THEN /\ run' = [run EXCEPT ![It(w)].status = "awaiting", ![It(w)].verdict = "pending",
                                ![It(w)].cont = Row(w).attempts]
          /\ Goes(w, "wait")
     ELSE Goes(w, "fail") /\ UNCHANGED run
  /\ UNCHANGED <<hold, spent, claim, listed, faults>>

\* No limit on running agents is looked at here.
ResumeRun(w) ==
  /\ At(w, "wait") /\ ~exec[w].aborted
  /\ Row(w).verdict # "pending" \/ ~Holds(w)
  /\ IF Holds(w) /\ ~Row(w).cancel
     THEN /\ run' = [run EXCEPT ![It(w)].status = "running"]
          /\ Goes(w, IF Row(w).verdict = "approved" THEN "apply" ELSE "clear")
     ELSE Goes(w, "fail") /\ UNCHANGED run
  /\ UNCHANGED <<hold, spent, claim, listed, faults>>

ClearApprovalContinuation(w) ==
  /\ At(w, "clear")
  /\ IF Holds(w)
     THEN /\ run' = [run EXCEPT ![It(w)].cont = 0, ![It(w)].verdict = "none"]
          /\ Goes(w, "work")
     ELSE Goes(w, "fail") /\ UNCHANGED run
  /\ UNCHANGED <<hold, spent, claim, listed, faults>>

Complete(w) == At(w, "work") /\ exec[w].ready /\ Step(w, "settle")

\* What was used is written down before the run is ended.
Intends(w, next) ==
  /\ IF hold[It(w)].status = "reserved"
     THEN hold' = [hold EXCEPT ![It(w)].pending = TRUE] /\ Goes(w, next)
     ELSE UNCHANGED hold /\ Goes(w, "broken")
  /\ UNCHANGED <<run, spent, claim, listed, faults>>
PersistSettlementIntent(w) ==
  /\ Unlocked /\ At(w, "settle")
  /\ IF Holds(w) THEN Intends(w, "settled") ELSE Step(w, "fail")

Ends(w, status) ==
  /\ Goes(w, "report") /\ Terminalize(It(w), status)
  /\ UNCHANGED <<spent, claim, listed, faults>>
TerminalizeSuccess(w) ==
  /\ Unlocked /\ At(w, "settled")
  /\ IF Holds(w) /\ hold[It(w)].status = "reserved"
     THEN Ends(w, "succeeded") ELSE Step(w, "fail")

\* An aborted execution of a run that awaits approval leaves it as it is.
SettleFailure(w) ==
  /\ Unlocked /\ At(w, "fail")
  /\ IF ~Holds(w) \/ (exec[w].aborted /\ Row(w).status = "awaiting") THEN Step(w, "report")
     ELSE IF spent[It(w)] THEN Intends(w, "failing") ELSE Step(w, "failing")
TerminalizeFailure(w) ==
  LET settles == \/ hold[It(w)].status = "reserved"
                 \/ hold[It(w)].status = "released" /\ ~spent[It(w)]
  IN  /\ Unlocked /\ At(w, "failing")
      /\ IF Holds(w) /\ settles THEN Ends(w, "failed") ELSE Step(w, "report")

\* The coordinator looks at the run once its handler has returned.
Report(w) ==
  /\ At(w, "report") /\ UNCHANGED faults
  /\ IF Holds(w) /\ (Row(w).cancel \/ ~exec[w].aborted)
     THEN /\ Unlocked
          /\ Terminalize(It(w), IF Row(w).status = "running" THEN "failed" ELSE "recovery")
          /\ exec' = [exec EXCEPT ![w] = Idle]
          /\ UNCHANGED <<spent, claim, listed>>
     ELSE Leave(w)
\* A settlement error ends the execution and nothing else.
Rethrow(w) == At(w, "broken") /\ Leave(w) /\ UNCHANGED faults

-----------------------------------------------------------------------------
(* Faults: a call that throws, an aborted signal, a process that stalls or  *)
(* dies.                                                                     *)

Throw(w) ==
  /\ exec[w] # Idle /\ faults < MaxFaults
  /\ \/ exec[w].phase \in {"start", "work", "wait", "apply", "clear", "settle", "settled"}
        /\ Goes(w, "fail")
     \/ exec[w].phase \in {"fail", "failing"} /\ Goes(w, "report")
  /\ faults' = faults + 1
  /\ UNCHANGED <<run, hold, spent, claim, listed>>
\* An aborted handler stops where it next looks.
Stop(w) ==
  /\ exec[w] # Idle /\ exec[w].aborted
  /\ exec[w].phase \in {"start", "work", "wait", "apply"}
  /\ Step(w, "fail")

\* A shutdown, or a renewal that fails.
Abort(w) ==
  /\ exec[w] # Idle /\ ~exec[w].aborted /\ faults < MaxFaults
  /\ exec' = [exec EXCEPT ![w].aborted = TRUE]
  /\ faults' = faults + 1
  /\ UNCHANGED <<run, hold, spent, claim, listed>>

Crash(w) ==
  /\ faults < MaxFaults
  /\ \/ exec[w] # Idle /\ Leave(w)
     \/ /\ claim # NoClaim /\ claim.worker = w /\ claim' = NoClaim
        /\ UNCHANGED <<run, hold, spent, exec, listed>>
  /\ faults' = faults + 1

Lapse(r) ==
  /\ Leased(r) /\ ~run[r].lapsed
  /\ run' = [run EXCEPT ![r].lapsed = TRUE]
  /\ UNCHANGED <<hold, spent, claim, exec, listed>>

\* The heartbeat of an aborted execution has ended, for one renewal that failed
\* or found the run cancelled; its handler may go on for long.
Renewed(r) == \E w \in Workers : run[r].holder = w /\ Executes(w, r) /\ ~exec[w].aborted
LeaseLapses(r) == ~Renewed(r) /\ Lapse(r) /\ UNCHANGED faults
\* The process or its database is held up until the lease is over.
Stall(r) == Renewed(r) /\ faults < MaxFaults /\ Lapse(r) /\ faults' = faults + 1

\* The reservation of a run nobody renews, or has not renewed in time.
Expire(r) ==
  /\ hold[r].status = "reserved" /\ ~hold[r].expired
  /\ hold' = [hold EXCEPT ![r].expired = TRUE]
  /\ UNCHANGED <<run, spent, claim, exec, listed, faults>>

-----------------------------------------------------------------------------
(* Maintenance. *)

\* Variant: cancelled runs are left to their lease.
RecoverableUncancelled(r) == ~Pending(r) /\ Leased(r) /\ run[r].lapsed /\ ~run[r].cancel
Recoverable(r) ==
  /\ ~Pending(r)
  /\ \/ Leased(r) /\ run[r].lapsed
     \/ run[r].cancel /\ run[r].status = "queued"
     \/ run[r].cancel /\ Leased(r) /\ run[r].holder = Nobody

\* Variant: a suspended run ends on its side effects, a running one is queued.
RecoveredQueueing(r) ==
  LET x == run[r]
  IN  IF x.cancel THEN EndedRun(x, "cancelled")
      ELSE IF x.status = "running"
      THEN [x EXCEPT !.status = "queued", !.holder = Nobody, !.lapsed = FALSE]
      ELSE IF x.side THEN EndedRun(x, "recovery")
      ELSE [x EXCEPT !.holder = Nobody, !.lapsed = TRUE]
Recovered(r) ==
  LET x == run[r]
  IN  IF x.cancel THEN EndedRun(x, "cancelled")
      ELSE IF x.side THEN EndedRun(x, "recovery")
      ELSE IF x.status = "running"
      THEN [x EXCEPT !.status = "queued", !.holder = Nobody, !.lapsed = FALSE]
      ELSE [x EXCEPT !.holder = Nobody, !.lapsed = TRUE]

RecoverRuns ==
  /\ Unlocked
  /\ LET lost == {r \in Runs : Recoverable(r)}
     IN  /\ \E r \in lost : Recovered(r) # run[r]
         /\ run' = [r \in Runs |-> IF r \in lost THEN Recovered(r) ELSE run[r]]
         /\ hold' = [r \in Runs |-> IF r \in lost /\ Recovered(r).status \in Ended
                                    THEN Reconciled(r) ELSE hold[r]]
  /\ UNCHANGED <<spent, claim, exec, listed, faults>>

\* The list is read once; each reservation is released in a transaction of its
\* own, which looks at what is pending and no more at the expiry.
ListExpiredReservations ==
  /\ listed = {}
  /\ listed' = {r \in Runs : hold[r].status = "reserved" /\ ~hold[r].pending /\ hold[r].expired}
  /\ listed' # {}
  /\ UNCHANGED <<run, hold, spent, claim, exec, faults>>

\* Variant: released whatever is pending.
ReleasableAny(r) == hold[r].status = "reserved"
Releasable(r) == hold[r].status = "reserved" /\ ~hold[r].pending
ReleaseReservation(r) ==
  /\ Unlocked /\ r \in listed
  /\ hold' = IF Releasable(r)
             THEN [hold EXCEPT ![r] = [status |-> "released", pending |-> FALSE, expired |-> FALSE]]
             ELSE hold
  \* One that was consumed meanwhile ends the maintenance.
  /\ listed' = IF hold[r].status = "consumed" THEN {} ELSE listed \ {r}
  /\ UNCHANGED <<run, spent, claim, exec, faults>>

-----------------------------------------------------------------------------
Users ==
  \E r \in Runs : AdmitAgentRun(r) \/ RequestAgentRunCancellation(r)
                  \/ TombstoneOwnedSession(r) \/ Decide(r)

Claims(w) ==
  \/ ReadCandidates(w) \/ TakeNothing(w)
  \/ \E r \in Runs : TakeCandidate(w, r)

Handles(w) ==
  \/ Begin(w) \/ Dispatch(w) \/ MarkSideEffectsStarted(w)
  \/ PersistApprovalContinuation(w) \/ ResumeRun(w) \/ ClearApprovalContinuation(w)
  \/ Complete(w) \/ PersistSettlementIntent(w) \/ TerminalizeSuccess(w)
  \/ SettleFailure(w) \/ TerminalizeFailure(w) \/ Report(w) \/ Rethrow(w) \/ Stop(w)

Faults ==
  \/ \E w \in Workers : Throw(w) \/ Abort(w) \/ Crash(w)
  \/ \E r \in Runs : Stall(r)

Maintenance ==
  \/ RecoverRuns \/ ListExpiredReservations
  \/ \E r \in Runs : ReleaseReservation(r)

Next ==
  \/ Users \/ Faults \/ Maintenance
  \/ \E w \in Workers : Claims(w) \/ Handles(w) \/ Heartbeat(w) \/ AppendAgentEvent(w)
  \/ \E r \in Runs : LeaseLapses(r) \/ Expire(r)

Spec == Init /\ [][Next]_vars

Locking(w) ==
  \/ PersistSettlementIntent(w) \/ TerminalizeSuccess(w) \/ SettleFailure(w)
  \/ TerminalizeFailure(w) \/ Report(w)

(* A process polls for runs and executes what it claimed; a run that is      *)
(* candidate again and again comes to be the oldest; executions wait in line *)
(* for the lock; a handler's work is bounded by its budget; proposals are    *)
(* decided or expire; leases nobody renews lapse; the maintenance comes      *)
(* round.                                                                    *)
Fairness ==
  /\ \A w \in Workers : WF_vars(Claims(w)) /\ WF_vars(Handles(w))
  /\ \A r \in Runs :
       /\ SF_vars(\E w \in Workers : TakeCandidate(w, r))
       /\ WF_vars(Decide(r)) /\ WF_vars(LeaseLapses(r))
  /\ SF_vars(\E w \in Workers : Locking(w))
  /\ SF_vars(\E w \in Workers : Complete(w))
  /\ SF_vars(RecoverRuns)
LiveSpec == Spec /\ Fairness

-----------------------------------------------------------------------------
(* The rows hold what their columns allow; attempts stay within their        *)
(* maximum; a lease is there exactly where it may be.                        *)
TypeOK ==
  /\ run \in [Runs -> Run] /\ hold \in [Runs -> Hold] /\ spent \in [Runs -> BOOLEAN]
  /\ exec \in [Workers -> Execution \cup {Idle}] /\ listed \subseteq Runs
  /\ \A r \in Runs :
       /\ run[r].holder # Nobody => Leased(r)
       /\ run[r].status = "running" => run[r].holder # Nobody /\ run[r].attempts > 0
       /\ hold[r].pending => hold[r].status = "reserved"

(* A run that has ended, whoever ended it and after whatever error, holds no *)
(* part of its owner's daily quota any more (terminalizeAgentRunInTransac-   *)
(* tion ends the row and the reservation together).                          *)
EndedRunHoldsNothing ==
  \A r \in Runs : run[r].status \in Ended => hold[r].status \notin {"none", "reserved"}

(* A run with a pending settlement is quarantined: it is not executed again, *)
(* and its reservation is never released (excludeAgentRunsWithPending-       *)
(* QuotaSettlement).                                                         *)
QuarantineIsKept ==
  [][\A r \in Runs : Pending(r) =>
       /\ run'[r].attempts = run[r].attempts /\ run'[r].status # "queued"
       /\ Pending(r)' \/ hold'[r].status = "consumed"]_vars

(* Once a side effect may have started a run is not attempted again: it ends *)
(* as recovery_required, whoever finds it first.  A mark set while a claim   *)
(* walks through its candidates escapes that claim (claimAgentRun).          *)
NoReplayAfterSideEffects ==
  [][\A r \in Runs : run'[r].attempts > run[r].attempts => ~run[r].side]_vars

(* No other mark escapes: a run that had one when the claim read it is not   *)
(* attempted again, however it was recovered, suspended or resumed before.   *)
NoReplayOfKnownSideEffects ==
  [][\A r \in Runs : run'[r].attempts > run[r].attempts =>
       claim # NoClaim /\ ~claim.rows[r].side]_vars

(* What providers were asked for is charged to the owner, by whatever way    *)
(* the run ends.                                                             *)
UsageIsCharged ==
  \A r \in Runs : run[r].status \in Ended /\ spent[r] => hold[r].status = "consumed"

(* Every run ends, through errors, crashes, approvals and cancellations that *)
(* were only recorded, or a pending settlement quarantines it.               *)
RunsEnd ==
  \A r \in Runs : run[r].status \in Waiting ~> (run[r].status \in Ended \/ Pending(r))
=============================================================================
