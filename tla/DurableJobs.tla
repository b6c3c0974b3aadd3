---------------------------- MODULE DurableJobs ----------------------------
(***************************************************************************)
(* The durable job table and the processes that work on it                 *)
(* (server/core/durable-jobs.ts, driven by server/jobs/durable-jobs.ts).   *)
(*                                                                         *)
(* Every SQL statement is one step.  A claim call is several statements    *)
(* and reads its clock once; a heartbeat or report reads it before its     *)
(* statement is sent.  So other processes, timers and operators act        *)
(* between a reading and its use.  Dates are kept relative to the present: *)
(* Tick moves them, which leaves the state finite with no horizon.  A date *)
(* in the past is kept down to -MaxStale, as far back as a clock can lag.  *)
(*                                                                         *)
(* A lease token is drawn from randomUUID() and never comes back; here it  *)
(* is any token that neither a row nor an execution still holds.           *)
(***************************************************************************)
EXTENDS Integers, FiniteSets

CONSTANTS
  Jobs,         \* rows of the table
  Retained,     \* storage-mutation rows of protocol 1 or 2
  Malformed,    \* those whose payload the handler of this build rejects
  Workers,      \* processes that run the batch
  Tokens,       \* lease tokens
  NoToken,      \* leaseToken is null
  NoClaim,      \* nothing runs under the token
  Idle,         \* the process is in no claim call
  MaxAttempts,  \* maxAttempts of every row
  RetryDelay,   \* RetryDelay[n]: ticks before the retry after attempt n
  ContentionDelay, \* ticks before the retry after contention
  Limit,        \* jobs one claim call takes
  Window,       \* candidates read per job taken (3 in the code)
  Lease,        \* ticks a lease lasts
  Retention,    \* ticks a settled row is kept
  MaxStale      \* BOUND: ticks a claim call, heartbeat or report may last

ASSUME JobsAssumption ==
  Retained \subseteq Jobs /\ Malformed \subseteq Retained /\ NoClaim \notin Jobs
ASSUME TokensAssumption == NoToken \notin Tokens
ASSUME NumbersAssumption ==
  /\ MaxAttempts \in Nat \ {0}
  /\ RetryDelay \in [1..MaxAttempts -> Nat \ {0}]
  /\ ContentionDelay \in Nat \ {0}
  /\ Limit \in Nat \ {0}
  /\ Window \in Nat \ {0}
  /\ Lease \in Nat \ {0}
  /\ Retention \in Nat
  /\ MaxStale \in Nat

VARIABLES
  row,          \* row[j]: the stored row of j
  exec,         \* exec[t]: the claimed job a process holds under token t
  batch         \* batch[w]: the claim call process w is in

vars == <<row, exec, batch>>

Settled == {"succeeded", "failed", "cancelled"}
States == {"absent", "pending", "running"} \cup Settled

(* `since`: how long the execution has run, or its last heartbeat is        *)
(* answered, up to MaxStale: a clock it reads for a statement is no older.  *)
(* `found` is history: the attempts the row really had when it was claimed. *)
Claim == [job : Jobs, by : Workers, attempts : 1..MaxAttempts,
          before : 0..MaxAttempts, found : 0..MaxAttempts,
          started : BOOLEAN, authoritative : BOOLEAN, since : 0..MaxStale]
Candidate == [job : Jobs, attempts : 0..MaxAttempts, nextRunAt : Int]
Row == [state : States, attempts : 0..MaxAttempts, nextRunAt : Int,
        leaseExpiresAt : Int, leaseToken : Tokens \cup {NoToken}, kept : Nat]
Call == [phase : {"sweep", "select", "take"}, age : 0..MaxStale, room : 0..Limit,
         todo : SUBSET Candidate]

ASSUME SentinelsAssumption == NoClaim \notin Claim /\ Idle \notin Call

NoRow == [state |-> "absent", attempts |-> 0, nextRunAt |-> 0,
          leaseExpiresAt |-> 0, leaseToken |-> NoToken, kept |-> 0]

Init ==
  /\ row = [j \in Jobs |-> NoRow]
  /\ exec = [t \in Tokens |-> NoClaim]
  /\ batch = [w \in Workers |-> Idle]

Live(t) == exec[t] # NoClaim
FreshToken(t) == ~Live(t) /\ \A j \in Jobs : row[j].leaseToken # t

(* What an UPDATE leaves: a row that waits, is leased, or is settled. *)
Waiting(n, due) ==
  [state |-> "pending", attempts |-> n, nextRunAt |-> due,
   leaseExpiresAt |-> 0, leaseToken |-> NoToken, kept |-> 0]
Leased(r, n, t, left) ==
  [state |-> "running", attempts |-> n, nextRunAt |-> r.nextRunAt,
   leaseExpiresAt |-> left, leaseToken |-> t, kept |-> 0]
Settle(r, s) ==
  [state |-> s, attempts |-> r.attempts, nextRunAt |-> r.nextRunAt,
   leaseExpiresAt |-> 0, leaseToken |-> NoToken, kept |-> Retention]

-----------------------------------------------------------------------------
(* The table's owners: producers, operators, the daily cleanup. *)

(* A row that holds the deduplication key already is returned as it is.    *)
(* An aggregated notification is due later, everything else at once.       *)
Enqueue(j) ==
  /\ row[j].state = "absent"
  /\ \E due \in {0, 1} :
       row' = [row EXCEPT ![j] = Waiting(0, due)]
  /\ UNCHANGED <<exec, batch>>

(* Variant: a cancelled row keeps its lease. *)
CancelledRowKeepsLease(j) ==
  IF row[j].state \in {"pending", "running"} /\ j \notin Retained
  THEN [row[j] EXCEPT !.state = "cancelled"] ELSE row[j]
CancelledRow(j) ==
  IF row[j].state \in {"pending", "running"} /\ j \notin Retained
  THEN Settle(row[j], "cancelled") ELSE row[j]
Cancel(j) ==
  /\ row' = [row EXCEPT ![j] = CancelledRow(j)]
  /\ UNCHANGED <<exec, batch>>

(* Variant: any settled row is armed again. *)
RetrySettled(j) ==
  /\ row[j].state \in Settled
  /\ row' = [row EXCEPT ![j] = Waiting(0, 0)]
  /\ UNCHANGED <<exec, batch>>
Retry(j) ==
  /\ row[j].state = "failed"
  /\ row' = [row EXCEPT ![j] = Waiting(0, 0)]
  /\ UNCHANGED <<exec, batch>>

Removable(j) ==
  /\ row[j].state \in Settled /\ row[j].kept = 0
  /\ j \in Retained => row[j].state = "succeeded"
CleanupDurableJobs ==
  /\ \E j \in Jobs : Removable(j)
  /\ row' = [j \in Jobs |-> IF Removable(j) THEN NoRow ELSE row[j]]
  /\ UNCHANGED <<exec, batch>>

-----------------------------------------------------------------------------
(* The claim call.  batch[w].age is how far its clock lies behind. *)

BeginClaim(w) ==
  /\ batch[w] = Idle
  /\ batch' = [batch EXCEPT ![w] =
       [phase |-> "sweep", age |-> 0, room |-> Limit, todo |-> {}]]
  /\ UNCHANGED <<row, exec>>

Lapsed(j, age) == row[j].state = "running" /\ row[j].leaseExpiresAt + age <= 0

(* Variants: storage jobs are swept too; nothing is swept. *)
ExhaustedAnyType(j, age) == Lapsed(j, age) /\ row[j].attempts >= MaxAttempts
ExhaustedNever(j, age) == FALSE
Exhausted(j, age) ==
  /\ Lapsed(j, age)
  /\ row[j].attempts >= MaxAttempts
  /\ j \notin Retained

SweepExhausted(w) ==
  /\ batch[w] # Idle /\ batch[w].phase = "sweep"
  /\ row' = [j \in Jobs |-> IF Exhausted(j, batch[w].age)
                            THEN Settle(row[j], "failed") ELSE row[j]]
  /\ batch' = [batch EXCEPT ![w].phase = "select"]
  /\ UNCHANGED exec

(* Variants: a running row is taken before its lease lapses; storage jobs  *)
(* are bound by their attempts too.                                        *)
EligibleUnlapsed(j, age) ==
  /\ row[j].nextRunAt + age <= 0
  /\ row[j].attempts < MaxAttempts \/ j \in Retained
  /\ row[j].state \in {"pending", "running"}
EligibleBounded(j, age) ==
  /\ row[j].nextRunAt + age <= 0
  /\ row[j].attempts < MaxAttempts
  /\ row[j].state = "pending" \/ Lapsed(j, age)
Eligible(j, age) ==
  /\ row[j].nextRunAt + age <= 0
  /\ row[j].attempts < MaxAttempts \/ j \in Retained
  /\ row[j].state = "pending" \/ Lapsed(j, age)

(* The rows an ordered and limited SELECT may return. *)
Earliest(S, n) ==
  {T \in SUBSET S :
     /\ Cardinality(T) = IF Cardinality(S) < n THEN Cardinality(S) ELSE n
     /\ \A c \in T, d \in S \ T : c.nextRunAt <= d.nextRunAt}

TakePhase(call, room, todo) ==
  [phase |-> "take", age |-> call.age, room |-> room, todo |-> todo]

SelectCandidates(w) ==
  /\ batch[w] # Idle /\ batch[w].phase = "select"
  /\ LET found == {[job |-> j, attempts |-> row[j].attempts,
                    nextRunAt |-> row[j].nextRunAt] :
                     j \in {i \in Jobs : Eligible(i, batch[w].age)}}
     IN  \E T \in Earliest(found, Limit * Window) :
           batch' = [batch EXCEPT ![w] = TakePhase(@, @.room, T)]
  /\ UNCHANGED <<row, exec>>

(* Variant: a storage job's attempts grow without end. *)
ClaimedAttemptsUnbounded(j) == row[j].attempts + 1
ClaimedAttempts(j) ==
  IF j \in Retained /\ row[j].attempts >= MaxAttempts
  THEN row[j].attempts ELSE row[j].attempts + 1

(* Variant: no fence on the attempts that were read. *)
ClaimableUnfenced(c, age) == Eligible(c.job, age)
Claimable(c, age) ==
  /\ Eligible(c.job, age)
  /\ c.job \in Retained => row[c.job].attempts = c.attempts

ClaimRow(w, c, t) ==
  LET j == c.job
      r == row[j]
  IN  /\ row' = [row EXCEPT ![j] =
           Leased(r, ClaimedAttempts(j), t, Lease - batch[w].age)]
      /\ exec' = [exec EXCEPT ![t] =
           [job |-> j, by |-> w, attempts |-> ClaimedAttempts(j),
            before |-> c.attempts, found |-> r.attempts,
            started |-> FALSE, authoritative |-> TRUE, since |-> 0]]

(* The next candidate in the order of the SELECT: taken if it still may be. *)
TakeCandidate(w, j) ==
  /\ batch[w] # Idle /\ batch[w].phase = "take" /\ batch[w].room > 0
  /\ \E c \in batch[w].todo :
       /\ c.job = j
       /\ \A d \in batch[w].todo : c.nextRunAt <= d.nextRunAt
       /\ IF Claimable(c, batch[w].age)
          THEN /\ \E t \in Tokens : FreshToken(t) /\ ClaimRow(w, c, t)
               /\ batch' = [batch EXCEPT ![w] = TakePhase(@, @.room - 1, @.todo \ {c})]
          ELSE /\ batch' = [batch EXCEPT ![w] = TakePhase(@, @.room, @.todo \ {c})]
               /\ UNCHANGED <<row, exec>>

Unstarted(t, w) == Live(t) /\ exec[t].by = w /\ ~exec[t].started

(* The call returns: the handlers of all claimed jobs start. *)
EndClaim(w) ==
  /\ batch[w] # Idle /\ batch[w].phase = "take"
  /\ batch[w].todo = {} \/ batch[w].room = 0
  /\ batch' = [batch EXCEPT ![w] = Idle]
  /\ exec' = [t \in Tokens |-> IF Unstarted(t, w)
                THEN [exec[t] EXCEPT !.started = TRUE] ELSE exec[t]]
  /\ UNCHANGED row

(* A statement of the call throws: what it had claimed runs nowhere. *)
AbortClaim(w) ==
  /\ batch[w] # Idle
  /\ batch' = [batch EXCEPT ![w] = Idle]
  /\ exec' = [t \in Tokens |-> IF Unstarted(t, w) THEN NoClaim ELSE exec[t]]
  /\ UNCHANGED row

-----------------------------------------------------------------------------
(* The execution of a claimed job. *)

Running(t) == Live(t) /\ exec[t].started

(* The fence of extendLease, complete and fail: the UPDATE compares the     *)
(* lease of a storage job with a clock that the call read `age` ago.        *)
(* Variants: the token is not compared; a lapsed storage lease still counts. *)
OwnsAnyToken(t, age) ==
  LET r == row[exec[t].job] IN
  /\ r.state = "running"
  /\ exec[t].job \in Retained => r.leaseExpiresAt + age > 0
OwnsLapsed(t, age) ==
  LET r == row[exec[t].job] IN r.state = "running" /\ r.leaseToken = t
Owns(t, age) ==
  LET r == row[exec[t].job] IN
  /\ r.state = "running"
  /\ r.leaseToken = t
  /\ exec[t].job \in Retained => r.leaseExpiresAt + age > 0

Answered(e, renewed) == [e EXCEPT !.since = 0, !.authoritative = renewed]

(* A heartbeat; the answer may be lost, with or without the update. *)
ExtendLease(t) ==
  /\ Running(t) /\ exec[t].authoritative
  /\ \E reached, answered \in BOOLEAN, age \in 0..exec[t].since :
       /\ row' = IF reached /\ Owns(t, age)
                 THEN [row EXCEPT ![exec[t].job].leaseExpiresAt = Lease - age] ELSE row
       /\ exec' = [exec EXCEPT ![t] = Answered(@, reached /\ answered /\ Owns(t, age))]
  /\ UNCHANGED batch

(* How a handler may end.  What the storage mutation handler throws once it *)
(* has read its payload it rethrows as a deferral; a payload it rejects is  *)
(* an error like any other.                                                 *)
Outcomes(j) ==
  IF j \in Malformed THEN {"error"}
  ELSE IF j \in Retained THEN {"done", "deferred", "contended"}
  ELSE {"done", "error"}

Refunded(e) == IF e.attempts < e.before THEN e.attempts ELSE e.before
(* Variant: the attempt before the last is final. *)
FailedRowEarly(r, e, outcome, age) ==
  IF outcome = "error" /\ e.attempts + 1 >= MaxAttempts THEN Settle(r, "failed")
  ELSE IF outcome = "contended" THEN Waiting(Refunded(e), ContentionDelay - age)
  ELSE Waiting(e.attempts, RetryDelay[e.attempts] - age)
FailedRow(r, e, outcome, age) ==
  IF outcome = "error" /\ e.attempts >= MaxAttempts THEN Settle(r, "failed")
  ELSE IF outcome = "contended" THEN Waiting(Refunded(e), ContentionDelay - age)
  ELSE Waiting(e.attempts, RetryDelay[e.attempts] - age)

(* The handler ends; complete or fail reads the clock, and writes what the *)
(* handler came to where the execution still owns the row.                 *)
Report(t, outcome, age) ==
  /\ exec[t].authoritative
  /\ LET e == exec[t] IN
       /\ outcome \in Outcomes(e.job)
       /\ row' = IF ~Owns(t, age) THEN row
                 ELSE [row EXCEPT ![e.job] =
                         IF outcome = "done" THEN Settle(@, "succeeded")
                         ELSE FailedRow(@, e, outcome, age)]
  /\ exec' = [exec EXCEPT ![t] = NoClaim]
  /\ UNCHANGED batch
Finish(t, outcome) == Running(t) /\ \E age \in 0..exec[t].since : Report(t, outcome, age)

(* The handler ends after its lease was lost, or its process is gone, or   *)
(* the last statement threw: nothing is written.  A crash is one such step *)
(* for each execution of the process, and AbortClaim.                      *)
Abandon(t) ==
  /\ Live(t)
  /\ exec' = [exec EXCEPT ![t] = NoClaim]
  /\ UNCHANGED <<row, batch>>

-----------------------------------------------------------------------------
Later(d) == IF d > 0 - MaxStale THEN d - 1 ELSE d

Aged(r) ==
  [state |-> r.state, attempts |-> r.attempts, nextRunAt |-> Later(r.nextRunAt),
   leaseExpiresAt |-> IF r.state = "running" THEN Later(r.leaseExpiresAt) ELSE 0,
   leaseToken |-> r.leaseToken, kept |-> IF r.kept > 0 THEN r.kept - 1 ELSE 0]

Waited(e) == [e EXCEPT !.since = IF @ < MaxStale /\ e.authoritative THEN @ + 1 ELSE @]

Tick ==
  /\ \A w \in Workers : batch[w] # Idle => batch[w].age < MaxStale
  /\ row' = [j \in Jobs |-> IF row[j].state = "absent" THEN row[j] ELSE Aged(row[j])]
  /\ batch' = [w \in Workers |-> IF batch[w] = Idle THEN Idle
                                 ELSE [batch[w] EXCEPT !.age = @ + 1]]
  /\ exec' = [t \in Tokens |-> IF Running(t) THEN Waited(exec[t]) ELSE exec[t]]

ClaimStep(w) ==
  \/ BeginClaim(w) \/ SweepExhausted(w) \/ SelectCandidates(w)
  \/ EndClaim(w) \/ AbortClaim(w)
  \/ \E j \in Jobs : TakeCandidate(w, j)

(* The end of an execution that is not a crash. *)
Conclude(t) ==
  \/ \E outcome \in {"done", "error", "deferred", "contended"} : Finish(t, outcome)
  \/ Live(t) /\ ~exec[t].authoritative /\ Abandon(t)

Next ==
  \/ \E j \in Jobs : Enqueue(j) \/ Cancel(j) \/ Retry(j)
  \/ CleanupDurableJobs
  \/ \E w \in Workers : ClaimStep(w)
  \/ \E t \in Tokens : ExtendLease(t) \/ Conclude(t) \/ Abandon(t)
  \/ Tick

Spec == Init /\ [][Next]_vars

(* Timers fire, the scheduler starts one claim call after another, each    *)
(* statement of a call that is reached again and again is answered at      *)
(* times, a handler ends.  Nothing is assumed of operators, heartbeats or  *)
(* crashes: a call may be aborted, and an execution lost, again and again. *)
Scheduling ==
  /\ \A w \in Workers :
       /\ WF_vars(BeginClaim(w))
       /\ SF_vars(SweepExhausted(w))
       /\ SF_vars(SelectCandidates(w))
       /\ SF_vars(EndClaim(w))
       /\ \A j \in Jobs : SF_vars(TakeCandidate(w, j))
  /\ \A t \in Tokens : WF_vars(Conclude(t))
Fairness == SF_vars(Tick) /\ Scheduling
LiveSpec == Spec /\ Fairness

(* Moreover a call that took a storage job returns, and the job's target   *)
(* answers before the lease runs out, infinitely often.                    *)
Starts(w, j) == EndClaim(w) /\ \E t \in Tokens : Unstarted(t, w) /\ exec[t].job = j
Succeeds(t, j) ==
  /\ Running(t) /\ exec[t].job = j
  /\ \E age \in 0..exec[t].since : Owns(t, age) /\ Report(t, "done", age)
TargetAnswers ==
  \A j \in Retained \ Malformed :
    /\ \A w \in Workers : SF_vars(Starts(w, j))
    /\ \A t \in Tokens : SF_vars(Succeeds(t, j))

-----------------------------------------------------------------------------
TypeOK ==
  /\ row \in [Jobs -> Row]
  /\ exec \in [Tokens -> Claim \cup {NoClaim}]
  /\ batch \in [Workers -> Call \cup {Idle}]

(* A row is leased exactly while it runs, no two rows share a token, and   *)
(* the execution that holds the token holds that row: what it remembers of *)
(* the attempts, which decides whether its failure is final, is what the   *)
(* row says.                                                               *)
LeaseAgreement ==
  \A j \in Jobs :
    /\ row[j].state = "running" <=> row[j].leaseToken # NoToken
    /\ \A t \in Tokens : row[j].leaseToken = t =>
         /\ \A k \in Jobs \ {j} : row[k].leaseToken # t
         /\ Live(t) => exec[t].job = j /\ exec[t].attempts = row[j].attempts

(* The attempts a contended storage job gives back are the ones its row    *)
(* had when it was claimed, not when its candidate was read.               *)
ContentionRefundIsExact ==
  \A t \in Tokens : Live(t) /\ exec[t].job \in Retained => exec[t].before = exec[t].found

(* The mirror of a committed write is never withdrawn, and never given up  *)
(* while its handler can read it: no exhausted lease, no operator and no   *)
(* failure of its target ends it.                                          *)
RetainedSurvives ==
  \A j \in Retained :
    row[j].state # "cancelled" /\ (row[j].state = "failed" => j \in Malformed)

(* A job fails for good only when every allowed attempt was used.          *)
NoEarlyFailure ==
  \A j \in Jobs : row[j].state = "failed" => row[j].attempts = MaxAttempts

(* A handler that ends changes no row but the one it holds the lease of:   *)
(* an execution that was superseded, cancelled or swept reports in vain.   *)
OnlyTheHolderReports ==
  [][\A t \in Tokens : Live(t) /\ ~Live(t)' =>
       \A j \in Jobs : row'[j] # row[j] => row[j].leaseToken = t]_vars

(* While a lease lasts, only its holder's report or an operator ends it,   *)
(* however far the clock of another process lags.                          *)
LeaseIsRespected ==
  [][\A j \in Jobs : row[j].state = "running" /\ row[j].leaseExpiresAt > 0 =>
       \/ row'[j].leaseToken = row[j].leaseToken
       \/ row'[j].state = "cancelled"
       \/ \E t \in Tokens : row[j].leaseToken = t /\ Live(t) /\ ~Live(t)']_vars

(* A storage job's lease is dead once it ran out longer ago than a report  *)
(* or heartbeat can take: nothing revives or ends it, and the row moves    *)
(* again only under a new token.                                           *)
LapsedRetainedLeaseIsDead ==
  [][\A j \in Retained : row[j].state = "running" /\ row[j].leaseExpiresAt <= 0 - MaxStale =>
       /\ row'[j].state = "running"
       /\ row'[j].leaseToken = row[j].leaseToken =>
            row'[j].leaseExpiresAt <= row[j].leaseExpiresAt]_vars

(* Every ordinary job comes to an end, through crashes, lost heartbeats,   *)
(* aborted claims and failing handlers.                                    *)
OrdinaryJobsSettle ==
  \A j \in Jobs \ Retained :
    row[j].state \in {"pending", "running"} ~> row[j].state \in Settled

(* Every storage job the handler can read succeeds in the end if its       *)
(* target answers.                                                         *)
StorageJobsSucceed ==
  \A j \in Retained \ Malformed :
    row[j].state \in {"pending", "running"} ~> row[j].state = "succeeded"

(* What a reader of the table, and of the processes, sees of the queue. *)
status == [j \in Jobs |-> row[j].state]
holder == [j \in Jobs |-> row[j].leaseToken]
active == [t \in Tokens |-> IF Live(t) THEN exec[t].job ELSE NoClaim]

Queue == INSTANCE JobQueue WITH
  Protected <- Retained, Unreadable <- Malformed, Holders <- Tokens, Nobody <- NoToken, Nothing <- NoClaim

(* The table with its leases, clocks and statements keeps the promise of   *)
(* JobQueue.                                                               *)
KeepsPromise == Queue!Spec
=============================================================================
