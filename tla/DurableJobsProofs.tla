------------------------- MODULE DurableJobsProofs -------------------------
(* Proofs about DurableJobs, for every value of its constants. *)
EXTENDS DurableJobs, TLAPS

LEMMA Numbers ==
  /\ MaxAttempts \in Nat /\ MaxAttempts >= 1
  /\ Limit \in Nat /\ Lease \in Nat /\ Retention \in Nat /\ MaxStale \in Nat
  /\ ContentionDelay \in Int
  BY NumbersAssumption

(* A date moves by at most one tick, and never forward. *)
LEMMA LaterInt == ASSUME NEW d \in Int PROVE Later(d) \in Int /\ Later(d) <= d
  BY Numbers DEF Later

(* What the helpers make of a row is a row. *)
LEMMA NoRowType == NoRow \in Row
  BY Numbers DEF Row, NoRow, States, Settled

LEMMA WaitingType ==
  ASSUME NEW n \in 0..MaxAttempts, NEW due \in Int
  PROVE  Waiting(n, due) \in Row
  BY Numbers DEF Row, Waiting, States

LEMMA LeasedType ==
  ASSUME NEW r \in Row, NEW n \in 0..MaxAttempts, NEW t \in Tokens, NEW left \in Int
  PROVE  Leased(r, n, t, left) \in Row
  BY DEF Row, Leased, States

LEMMA SettleType ==
  ASSUME NEW r \in Row, NEW s \in Settled
  PROVE  Settle(r, s) \in Row
  BY Numbers DEF Row, Settle, States

LEMMA AgedType ==
  ASSUME NEW r \in Row
  PROVE  Aged(r) \in Row
  BY LaterInt DEF Row, Aged

LEMMA FailedRowType ==
  ASSUME NEW r \in Row, NEW e \in Claim, NEW outcome, NEW age \in Int
  PROVE  /\ FailedRow(r, e, outcome, age) \in Row
         /\ FailedRow(r, e, outcome, age).leaseToken = NoToken
         /\ \/ FailedRow(r, e, outcome, age).state = "pending"
            \/ /\ FailedRow(r, e, outcome, age) = Settle(r, "failed")
               /\ outcome = "error" /\ e.attempts >= MaxAttempts
  <1>1. Settle(r, "failed") \in Row /\ Settle(r, "failed").leaseToken = NoToken
    BY SettleType DEF Settled, Settle
  <1>2. Waiting(e.attempts, RetryDelay[e.attempts] - age) \in Row
    <2>1. e.attempts \in 1..MaxAttempts /\ e.attempts \in 0..MaxAttempts
      BY Numbers DEF Claim
    <2>2. RetryDelay[e.attempts] - age \in Int
      BY <2>1, NumbersAssumption
    <2>3. QED
      BY <2>1, <2>2, WaitingType
  <1>3. Waiting(Refunded(e), ContentionDelay - age) \in Row
    <2>1. Refunded(e) \in 0..MaxAttempts
      BY Numbers DEF Claim, Refunded
    <2>2. ContentionDelay - age \in Int
      BY Numbers
    <2>3. QED
      BY <2>1, <2>2, WaitingType
  <1>4. QED
    BY <1>1, <1>2, <1>3 DEF FailedRow, Waiting

(* A heartbeat that was answered leaves an execution what it is. *)
LEMMA AnsweredType ==
  ASSUME NEW e \in Claim, NEW b \in BOOLEAN
  PROVE  /\ Answered(e, b) \in Claim
         /\ Answered(e, b).job = e.job /\ Answered(e, b).attempts = e.attempts
         /\ Answered(e, b).before = e.before /\ Answered(e, b).found = e.found
  <1> DEFINE f == [e EXCEPT !.since = 0]
  <1>1. f \in Claim /\ f.job = e.job /\ f.attempts = e.attempts
        /\ f.before = e.before /\ f.found = e.found
    BY Numbers DEF Claim
  <1>2. Answered(e, b) = [f EXCEPT !.authoritative = b]
    BY DEF Answered
  <1> HIDE DEF f
  <1>3. QED
    BY <1>1, <1>2 DEF Claim

-----------------------------------------------------------------------------
(* Type correctness, one lemma per kind of action. *)

LEMMA TypeOwners ==
  ASSUME TypeOK, NEW j \in Jobs, Enqueue(j) \/ Cancel(j) \/ Retry(j)
  PROVE  TypeOK'
  <1>1. CASE Enqueue(j)
    <2>1. \A due \in {0, 1} : Waiting(0, due) \in Row
      BY WaitingType, Numbers
    <2>2. QED
      BY <1>1, <2>1 DEF Enqueue, TypeOK
  <1>2. CASE Cancel(j)
    <2>1. CancelledRow(j) \in Row
      BY SettleType DEF CancelledRow, TypeOK, Settled
    <2>2. QED
      BY <1>2, <2>1 DEF Cancel, TypeOK
  <1>3. CASE Retry(j)
    <2>1. Waiting(0, 0) \in Row
      BY WaitingType, Numbers
    <2>2. QED
      BY <1>3, <2>1 DEF Retry, TypeOK
  <1>4. QED
    BY <1>1, <1>2, <1>3

LEMMA TypeCleanup ==
  ASSUME TypeOK, CleanupDurableJobs
  PROVE  TypeOK'
  BY NoRowType DEF CleanupDurableJobs, TypeOK

LEMMA TypeClaim ==
  ASSUME TypeOK, NEW w \in Workers, ClaimStep(w)
  PROVE  TypeOK'
  <1>1. CASE BeginClaim(w)
    <2>1. [phase |-> "sweep", age |-> 0, room |-> Limit, todo |-> {}] \in Call
      BY Numbers DEF Call
    <2>2. QED
      BY <1>1, <2>1 DEF BeginClaim, TypeOK
  <1>2. CASE SweepExhausted(w)
    <2>1. batch[w] \in Call
      BY <1>2 DEF SweepExhausted, TypeOK
    <2>2. [batch[w] EXCEPT !.phase = "select"] \in Call
      BY <2>1 DEF Call
    <2>3. row' \in [Jobs -> Row]
      BY <1>2, SettleType DEF SweepExhausted, TypeOK, Settled
    <2>4. QED
      BY <1>2, <2>2, <2>3 DEF SweepExhausted, TypeOK
  <1>3. CASE SelectCandidates(w)
    <2>1. batch[w] \in Call
      BY <1>3 DEF SelectCandidates, TypeOK
    <2> DEFINE found == {[job |-> j, attempts |-> row[j].attempts,
                          nextRunAt |-> row[j].nextRunAt] :
                           j \in {i \in Jobs : Eligible(i, batch[w].age)}}
    <2>2. found \in SUBSET Candidate
      BY DEF Candidate, TypeOK, Row
    <2>3. PICK T \in Earliest(found, Limit * Window) :
             batch' = [batch EXCEPT ![w] = TakePhase(@, @.room, T)]
      BY <1>3 DEF SelectCandidates
    <2>4. T \in SUBSET Candidate
      BY <2>2, <2>3 DEF Earliest
    <2>5. TakePhase(batch[w], batch[w].room, T) \in Call
      BY <2>1, <2>4 DEF TakePhase, Call
    <2>6. QED
      BY <1>3, <2>3, <2>5 DEF SelectCandidates, TypeOK
  <1>4. CASE EndClaim(w)
    <2>1. \A t \in Tokens : Unstarted(t, w) => [exec[t] EXCEPT !.started = TRUE] \in Claim
      BY DEF TypeOK, Claim, Unstarted, Live
    <2>2. exec' \in [Tokens -> Claim \cup {NoClaim}]
      BY <1>4, <2>1 DEF EndClaim, TypeOK
    <2>3. QED
      BY <1>4, <2>2 DEF EndClaim, TypeOK
  <1>5. CASE AbortClaim(w)
    BY <1>5 DEF AbortClaim, TypeOK
  <1>6. ASSUME NEW j \in Jobs, TakeCandidate(w, j)
        PROVE  TypeOK'
    <2>1. batch[w] \in Call /\ batch[w].room > 0 /\ batch[w].room - 1 \in 0..Limit
      BY <1>6, Numbers DEF TakeCandidate, TypeOK, Call
    <2>2. PICK c \in batch[w].todo :
            /\ c.job = j
            /\ IF Claimable(c, batch[w].age)
               THEN /\ \E t \in Tokens : FreshToken(t) /\ ClaimRow(w, c, t)
                    /\ batch' = [batch EXCEPT ![w] = TakePhase(@, @.room - 1, @.todo \ {c})]
               ELSE /\ batch' = [batch EXCEPT ![w] = TakePhase(@, @.room, @.todo \ {c})]
                    /\ UNCHANGED <<row, exec>>
      BY <1>6 DEF TakeCandidate
    <2>3. c \in Candidate
      BY <2>1, <2>2 DEF Call
    <2>4. /\ TakePhase(batch[w], batch[w].room - 1, batch[w].todo \ {c}) \in Call
          /\ TakePhase(batch[w], batch[w].room, batch[w].todo \ {c}) \in Call
      BY <2>1 DEF TakePhase, Call
    <2>5. batch' \in [Workers -> Call \cup {Idle}]
      BY <2>2, <2>4 DEF TypeOK
    <2>6. CASE Claimable(c, batch[w].age)
      <3>1. PICK t \in Tokens : ClaimRow(w, c, t)
        BY <2>2, <2>6
      <3>2. ClaimedAttempts(j) \in 1..MaxAttempts
        BY <2>2, <2>6, Numbers DEF ClaimedAttempts, Claimable, Eligible, TypeOK, Row
      <3>3. Lease - batch[w].age \in Int
        BY <2>1, Numbers DEF Call
      <3>4. Leased(row[j], ClaimedAttempts(j), t, Lease - batch[w].age) \in Row
        BY <3>2, <3>3, LeasedType, Numbers DEF TypeOK
      <3>5. [job |-> j, by |-> w, attempts |-> ClaimedAttempts(j),
             before |-> c.attempts, found |-> row[j].attempts,
             started |-> FALSE, authoritative |-> TRUE, since |-> 0] \in Claim
        BY <2>3, <3>2, Numbers DEF Claim, Candidate, TypeOK, Row
      <3>6. QED
        BY <2>2, <2>5, <3>1, <3>4, <3>5 DEF ClaimRow, TypeOK
    <2>7. CASE ~Claimable(c, batch[w].age)
      BY <2>2, <2>5, <2>7 DEF TypeOK
    <2>8. QED
      BY <2>6, <2>7
  <1>7. QED
    BY <1>1, <1>2, <1>3, <1>4, <1>5, <1>6 DEF ClaimStep

LEMMA TypeExecution ==
  ASSUME TypeOK, NEW t \in Tokens, ExtendLease(t) \/ Conclude(t) \/ Abandon(t)
  PROVE  TypeOK'
  <1>1. CASE ExtendLease(t)
    <2>1. exec[t] \in Claim
      BY <1>1 DEF ExtendLease, Running, Live, TypeOK
    <2>2. exec[t].job \in Jobs /\ row[exec[t].job] \in Row
      BY <2>1 DEF Claim, TypeOK
    <2>3. \A b \in BOOLEAN : Answered(exec[t], b) \in Claim
      BY <2>1, AnsweredType
    <2>4. PICK reached \in BOOLEAN, answered \in BOOLEAN, age \in 0..exec[t].since :
            /\ row' = IF reached /\ Owns(t, age)
                      THEN [row EXCEPT ![exec[t].job].leaseExpiresAt = Lease - age] ELSE row
            /\ exec' = [exec EXCEPT ![t] = Answered(@, reached /\ answered /\ Owns(t, age))]
      BY <1>1 DEF ExtendLease
    <2>5. [row[exec[t].job] EXCEPT !.leaseExpiresAt = Lease - age] \in Row
      <3>1. Lease - age \in Int
        BY Numbers
      <3>2. QED
        BY <2>2, <3>1 DEF Row
    <2>6. row' \in [Jobs -> Row]
      BY <2>2, <2>4, <2>5 DEF TypeOK
    <2>7. exec' \in [Tokens -> Claim \cup {NoClaim}]
      <3>1. (reached /\ answered /\ Owns(t, age)) \in BOOLEAN
        OBVIOUS
      <3>2. QED
        BY <2>3, <2>4, <3>1 DEF TypeOK
    <2>8. QED
      BY <1>1, <2>6, <2>7 DEF ExtendLease, TypeOK
  <1>2. ASSUME NEW outcome, Finish(t, outcome)
        PROVE  TypeOK'
    <2>1. exec[t] \in Claim
      BY <1>2 DEF Finish, Running, Live, TypeOK
    <2>2. exec[t].job \in Jobs /\ row[exec[t].job] \in Row
      BY <2>1 DEF Claim, TypeOK
    <2>3. PICK age \in 0..exec[t].since : Report(t, outcome, age)
      BY <1>2 DEF Finish
    <2>4. /\ Settle(row[exec[t].job], "succeeded") \in Row
          /\ FailedRow(row[exec[t].job], exec[t], outcome, age) \in Row
      BY <2>1, <2>2, SettleType, FailedRowType DEF Settled
    <2>5. row' \in [Jobs -> Row]
      BY <2>2, <2>3, <2>4 DEF Report, TypeOK
    <2>6. QED
      BY <2>3, <2>5 DEF Report, TypeOK
  <1>3. CASE Abandon(t)
    BY <1>3 DEF Abandon, TypeOK
  <1>4. QED
    BY <1>1, <1>2, <1>3 DEF Conclude

LEMMA TypeTick ==
  ASSUME TypeOK, Tick
  PROVE  TypeOK'
  <1>1. row' \in [Jobs -> Row]
    BY AgedType DEF Tick, TypeOK
  <1>2. \A w \in Workers : batch[w] # Idle => [batch[w] EXCEPT !.age = @ + 1] \in Call
    BY Numbers DEF Tick, TypeOK, Call
  <1>3. batch' \in [Workers -> Call \cup {Idle}]
    BY <1>2 DEF Tick, TypeOK
  <1>4. \A t \in Tokens : Live(t) => exec[t] \in Claim /\ Waited(exec[t]) \in Claim
    BY Numbers DEF TypeOK, Live, Claim, Waited
  <1>5. exec' \in [Tokens -> Claim \cup {NoClaim}]
    BY <1>4 DEF Tick, TypeOK, Running
  <1>6. QED
    BY <1>1, <1>3, <1>5 DEF Tick, TypeOK

(* Every reachable state of the table, the executions and the claim calls  *)
(* has its type; in particular attempts never exceed their maximum.        *)
THEOREM TypeCorrect == Spec => []TypeOK
  <1>1. Init => TypeOK
    BY NoRowType DEF Init, TypeOK
  <1>2. TypeOK /\ [Next]_vars => TypeOK'
    <2> SUFFICES ASSUME TypeOK, [Next]_vars
                 PROVE  TypeOK'
      OBVIOUS
    <2>1. CASE UNCHANGED vars
      BY <2>1 DEF vars, TypeOK
    <2>2. QED
      BY <2>1, TypeOwners, TypeCleanup, TypeClaim, TypeExecution, TypeTick DEF Next
  <1>3. QED
    BY <1>1, <1>2, PTL DEF Spec

-----------------------------------------------------------------------------
(* The inductive invariant: the agreement between a row's lease and the    *)
(* execution that holds its token is what makes a final failure and a      *)
(* refund correct, since both are decided from the execution's memory.     *)
IInv ==
  /\ TypeOK
  /\ LeaseAgreement
  /\ ContentionRefundIsExact
  /\ RetainedSurvives
  /\ NoEarlyFailure

(* A step that only takes leases away and ends executions. *)
OnlyUnleases ==
  /\ \A j \in Jobs : \/ row'[j] = row[j]
                     \/ row'[j].leaseToken = NoToken /\ row'[j].state # "running"
  /\ \A t \in Tokens : exec'[t] = exec[t] \/ exec'[t] = NoClaim

LEMMA UnleaseRows ==
  ASSUME LeaseAgreement, ContentionRefundIsExact, OnlyUnleases
  PROVE  LeaseAgreement' /\ ContentionRefundIsExact'
  <1>1. NoToken \notin Tokens
    BY TokensAssumption
  <1>2. LeaseAgreement'
    BY <1>1 DEF OnlyUnleases, LeaseAgreement, Live
  <1>3. ContentionRefundIsExact'
    BY DEF OnlyUnleases, ContentionRefundIsExact, Live
  <1>4. QED
    BY <1>2, <1>3

LEMMA InvOwners ==
  ASSUME IInv, NEW j \in Jobs, Enqueue(j) \/ Cancel(j) \/ Retry(j), TypeOK'
  PROVE  IInv'
  <1> USE DEF IInv
  <1>1. exec' = exec /\ row' \in [Jobs -> Row]
    BY DEF Enqueue, Cancel, Retry, TypeOK
  <1>2. \A k \in Jobs \ {j} : row'[k] = row[k]
    BY DEF Enqueue, Cancel, Retry, TypeOK
  <1>3. \/ row'[j] = row[j]
        \/ row'[j].leaseToken = NoToken /\ row'[j].state = "pending"
        \/ /\ row'[j].leaseToken = NoToken /\ row'[j].state = "cancelled"
           /\ j \notin Retained
    BY DEF Enqueue, Cancel, Retry, TypeOK, CancelledRow, Settle, Waiting
  <1>4. OnlyUnleases
    BY <1>1, <1>2, <1>3 DEF OnlyUnleases
  <1>5. LeaseAgreement' /\ ContentionRefundIsExact'
    BY <1>4, UnleaseRows
  <1>6. RetainedSurvives'
    BY <1>2, <1>3, JobsAssumption DEF RetainedSurvives
  <1>7. NoEarlyFailure'
    BY <1>2, <1>3 DEF NoEarlyFailure
  <1>8. QED
    BY <1>5, <1>6, <1>7

LEMMA InvCleanup ==
  ASSUME IInv, CleanupDurableJobs, TypeOK'
  PROVE  IInv'
  <1> USE DEF IInv
  <1>1. exec' = exec /\ row' \in [Jobs -> Row]
    BY DEF CleanupDurableJobs, TypeOK
  <1>2. \A j \in Jobs : row'[j] = NoRow \/ row'[j] = row[j]
    BY DEF CleanupDurableJobs
  <1>3. NoRow.leaseToken = NoToken /\ NoRow.state = "absent"
    BY DEF NoRow
  <1>4. OnlyUnleases
    BY <1>1, <1>2, <1>3 DEF OnlyUnleases
  <1>5. LeaseAgreement' /\ ContentionRefundIsExact'
    BY <1>4, UnleaseRows
  <1>6. RetainedSurvives' /\ NoEarlyFailure'
    BY <1>2, <1>3, JobsAssumption DEF RetainedSurvives, NoEarlyFailure
  <1>7. QED
    BY <1>5, <1>6

(* An execution grows older and stays what it is. *)
LEMMA SameTickedExec ==
  ASSUME TypeOK, Tick
  PROVE  \A t \in Tokens : /\ Live(t) <=> Live(t)'
                           /\ Live(t) => /\ exec'[t].job = exec[t].job
                                         /\ exec'[t].attempts = exec[t].attempts
                                         /\ exec'[t].before = exec[t].before
                                         /\ exec'[t].found = exec[t].found
  <1>1. \A t \in Tokens : \/ exec'[t] = exec[t]
                          \/ Live(t) /\ exec'[t] = Waited(exec[t])
    BY DEF Tick, Running
  <1> SUFFICES ASSUME NEW t \in Tokens, Live(t), exec'[t] = Waited(exec[t])
               PROVE  /\ Live(t)'
                      /\ exec'[t].job = exec[t].job
                      /\ exec'[t].attempts = exec[t].attempts
                      /\ exec'[t].before = exec[t].before
                      /\ exec'[t].found = exec[t].found
    BY <1>1 DEF Live
  <1>2. exec[t] \in Claim
    BY DEF TypeOK, Live
  <1>3. /\ Waited(exec[t]) \in Claim
        /\ Waited(exec[t]).job = exec[t].job
        /\ Waited(exec[t]).attempts = exec[t].attempts
        /\ Waited(exec[t]).before = exec[t].before
        /\ Waited(exec[t]).found = exec[t].found
    BY <1>2, Numbers DEF Claim, Waited
  <1>4. QED
    BY <1>3, SentinelsAssumption DEF Live

LEMMA InvTick ==
  ASSUME IInv, Tick, TypeOK'
  PROVE  IInv'
  <1> USE DEF IInv
  <1>1. \A t \in Tokens : /\ Live(t) <=> Live(t)'
                          /\ Live(t) => /\ exec'[t].job = exec[t].job
                                        /\ exec'[t].attempts = exec[t].attempts
                                        /\ exec'[t].before = exec[t].before
                                        /\ exec'[t].found = exec[t].found
    BY SameTickedExec
  <1>2. \A j \in Jobs : /\ row'[j].state = row[j].state
                        /\ row'[j].attempts = row[j].attempts
                        /\ row'[j].leaseToken = row[j].leaseToken
    BY DEF Tick, Aged
  <1>3. LeaseAgreement'
    BY <1>1, <1>2 DEF LeaseAgreement
  <1>4. ContentionRefundIsExact'
    BY <1>1 DEF ContentionRefundIsExact
  <1>5. RetainedSurvives' /\ NoEarlyFailure'
    BY <1>2, JobsAssumption DEF RetainedSurvives, NoEarlyFailure
  <1>6. QED
    BY <1>3, <1>4, <1>5

(* A claim gives the row and the execution the same token and attempts.    *)
LEMMA InvClaimRow ==
  ASSUME IInv, NEW w \in Workers, NEW c \in Candidate, NEW t \in Tokens,
         c.job \in Retained => row[c.job].attempts = c.attempts,
         FreshToken(t), ClaimRow(w, c, t), TypeOK'
  PROVE  IInv'
  <1> DEFINE j == c.job
             e == [job |-> j, by |-> w, attempts |-> ClaimedAttempts(j),
                   before |-> c.attempts, found |-> row[j].attempts,
                   started |-> FALSE, authoritative |-> TRUE, since |-> 0]
  <1>1. j \in Jobs
    BY DEF Candidate
  <1>2. /\ row'[j].state = "running" /\ row'[j].leaseToken = t
        /\ row'[j].attempts = ClaimedAttempts(j)
        /\ \A k \in Jobs \ {j} : row'[k] = row[k]
    BY <1>1 DEF ClaimRow, Leased, IInv, TypeOK
  <1>3. /\ exec'[t].job = j /\ exec'[t].attempts = ClaimedAttempts(j)
        /\ exec'[t].before = c.attempts /\ exec'[t].found = row[j].attempts
        /\ \A u \in Tokens \ {t} : exec'[u] = exec[u]
    BY DEF ClaimRow, IInv, TypeOK
  <1>4. t # NoToken /\ \A k \in Jobs : row[k].leaseToken # t
    BY TokensAssumption DEF FreshToken
  <1>5. LeaseAgreement'
    BY <1>1, <1>2, <1>3, <1>4 DEF IInv, LeaseAgreement, Live
  <1>6. ContentionRefundIsExact'
    BY <1>3 DEF IInv, ContentionRefundIsExact, Live
  <1>7. RetainedSurvives'
    BY <1>2, JobsAssumption DEF IInv, RetainedSurvives
  <1>8. NoEarlyFailure'
    BY <1>2 DEF IInv, NoEarlyFailure
  <1>9. QED
    BY <1>5, <1>6, <1>7, <1>8 DEF IInv

(* What a step of a claim call does to rows and executions. *)
LEMMA SweptRows ==
  ASSUME TypeOK, NEW w \in Workers, SweepExhausted(w)
  PROVE  \A j \in Jobs :
           \/ row'[j] = row[j]
           \/ /\ row[j].state = "running" /\ j \notin Retained
              /\ row'[j].state = "failed" /\ row'[j].leaseToken = NoToken
              /\ row'[j].attempts = MaxAttempts
  <1> SUFFICES ASSUME NEW j \in Jobs, Exhausted(j, batch[w].age),
                      row'[j] = Settle(row[j], "failed")
               PROVE  /\ row[j].state = "running" /\ j \notin Retained
                      /\ row'[j].state = "failed" /\ row'[j].leaseToken = NoToken
                      /\ row'[j].attempts = MaxAttempts
    BY DEF SweepExhausted
  <1>1. row[j].attempts \in 0..MaxAttempts
    BY DEF TypeOK, Row
  <1>2. row[j].attempts >= MaxAttempts /\ row[j].state = "running" /\ j \notin Retained
    BY DEF Exhausted, Lapsed
  <1>3. row[j].attempts = MaxAttempts
    BY <1>1, <1>2, Numbers
  <1>4. QED
    BY <1>2, <1>3 DEF Settle

(* When the call returns, an execution starts with what it remembers. *)
LEMMA SameStartedExec ==
  ASSUME TypeOK, NEW w \in Workers, EndClaim(w)
  PROVE  \A t \in Tokens : /\ Live(t) <=> Live(t)'
                           /\ Live(t) => /\ exec'[t].job = exec[t].job
                                         /\ exec'[t].attempts = exec[t].attempts
                                         /\ exec'[t].before = exec[t].before
                                         /\ exec'[t].found = exec[t].found
  <1>1. \A t \in Tokens :
          \/ exec'[t] = exec[t]
          \/ Live(t) /\ exec'[t] = [exec[t] EXCEPT !.started = TRUE]
    BY DEF EndClaim, Unstarted
  <1> SUFFICES ASSUME NEW t \in Tokens, Live(t),
                      exec'[t] = [exec[t] EXCEPT !.started = TRUE]
               PROVE  /\ Live(t)'
                      /\ exec'[t].job = exec[t].job
                      /\ exec'[t].attempts = exec[t].attempts
                      /\ exec'[t].before = exec[t].before
                      /\ exec'[t].found = exec[t].found
    BY <1>1 DEF Live
  <1>2. exec[t] \in Claim
    BY DEF TypeOK, Live
  <1>3. [exec[t] EXCEPT !.started = TRUE] \in Claim
    BY <1>2 DEF Claim
  <1>4. QED
    BY <1>2, <1>3, SentinelsAssumption DEF Claim, Live

LEMMA InvClaim ==
  ASSUME IInv, NEW w \in Workers, ClaimStep(w), TypeOK'
  PROVE  IInv'
  <1>1. CASE BeginClaim(w) \/ SelectCandidates(w)
    BY <1>1 DEF BeginClaim, SelectCandidates, IInv, LeaseAgreement,
                ContentionRefundIsExact, RetainedSurvives, NoEarlyFailure, Live
  <1>2. CASE SweepExhausted(w)
    <2>1. exec' = exec
      BY <1>2 DEF SweepExhausted
    <2>2. \A j \in Jobs :
            \/ row'[j] = row[j]
            \/ /\ row[j].state = "running" /\ j \notin Retained
               /\ row'[j].state = "failed" /\ row'[j].leaseToken = NoToken
               /\ row'[j].attempts = MaxAttempts
      BY <1>2, SweptRows DEF IInv
    <2>3. LeaseAgreement' /\ ContentionRefundIsExact'
      <3>1. OnlyUnleases
        BY <2>1, <2>2 DEF OnlyUnleases
      <3>2. QED
        BY <3>1, UnleaseRows DEF IInv
    <2>4. RetainedSurvives' /\ NoEarlyFailure'
      BY <2>2, JobsAssumption DEF IInv, RetainedSurvives, NoEarlyFailure
    <2>5. QED
      BY <2>3, <2>4 DEF IInv
  <1>3. CASE EndClaim(w)
    <2>1. row' = row
      BY <1>3 DEF EndClaim
    <2>3. \A t \in Tokens : /\ Live(t) <=> Live(t)'
                            /\ Live(t) => /\ exec'[t].job = exec[t].job
                                          /\ exec'[t].attempts = exec[t].attempts
                                          /\ exec'[t].before = exec[t].before
                                          /\ exec'[t].found = exec[t].found
      BY <1>3, SameStartedExec DEF IInv
    <2>4. LeaseAgreement' /\ ContentionRefundIsExact'
      BY <2>1, <2>3 DEF IInv, LeaseAgreement, ContentionRefundIsExact
    <2>5. RetainedSurvives' /\ NoEarlyFailure'
      BY <2>1 DEF IInv, RetainedSurvives, NoEarlyFailure
    <2>6. QED
      BY <2>4, <2>5 DEF IInv
  <1>4. CASE AbortClaim(w)
    <2>1. row' = row /\ \A t \in Tokens : exec'[t] = exec[t] \/ exec'[t] = NoClaim
      BY <1>4 DEF AbortClaim
    <2>2. LeaseAgreement' /\ ContentionRefundIsExact'
      <3>1. OnlyUnleases
        BY <2>1 DEF OnlyUnleases
      <3>2. QED
        BY <3>1, UnleaseRows DEF IInv
    <2>3. RetainedSurvives' /\ NoEarlyFailure'
      BY <2>1 DEF IInv, RetainedSurvives, NoEarlyFailure
    <2>4. QED
      BY <2>2, <2>3 DEF IInv
  <1>5. ASSUME NEW j \in Jobs, TakeCandidate(w, j)
        PROVE  IInv'
    <2>1. batch[w] \in Call
      BY <1>5 DEF TakeCandidate, IInv, TypeOK
    <2>2. PICK c \in batch[w].todo :
            \/ /\ Claimable(c, batch[w].age)
               /\ \E t \in Tokens : FreshToken(t) /\ ClaimRow(w, c, t)
            \/ UNCHANGED <<row, exec>>
      BY <1>5 DEF TakeCandidate
    <2>3. c \in Candidate
      BY <2>1, <2>2 DEF Call
    <2>4. CASE Claimable(c, batch[w].age)
               /\ \E t \in Tokens : FreshToken(t) /\ ClaimRow(w, c, t)
      BY <2>3, <2>4, InvClaimRow DEF Claimable
    <2>5. CASE UNCHANGED <<row, exec>>
      BY <2>5 DEF IInv, LeaseAgreement, ContentionRefundIsExact, RetainedSurvives,
                  NoEarlyFailure, Live
    <2>6. QED
      BY <2>2, <2>4, <2>5
  <1>6. QED
    BY <1>1, <1>2, <1>3, <1>4, <1>5 DEF ClaimStep

(* What the end of an execution may write. *)
LEMMA FinishedRow ==
  ASSUME IInv, NEW t \in Tokens, NEW outcome, Finish(t, outcome)
  PROVE  \/ row' = row
         \/ LET j == exec[t].job IN
             /\ row[j].leaseToken = t
             /\ \A k \in Jobs \ {j} : row'[k] = row[k]
             /\ row'[j].leaseToken = NoToken
             /\ row'[j].state \in {"pending", "succeeded", "failed"}
             /\ row'[j].state = "failed" => /\ j \notin Retained \ Malformed
                                           /\ row'[j].attempts = MaxAttempts
  <1> DEFINE e == exec[t]
             j == exec[t].job
  <1>0. PICK age \in 0..exec[t].since : Report(t, outcome, age)
    BY DEF Finish
  <1>1. e \in Claim /\ j \in Jobs /\ row[j] \in Row /\ outcome \in Outcomes(j)
    BY <1>0 DEF Finish, Report, Running, Live, IInv, TypeOK, Claim
  <1>2. SUFFICES ASSUME Owns(t, age)
                 PROVE  /\ row[j].leaseToken = t
                        /\ \A k \in Jobs \ {j} : row'[k] = row[k]
                        /\ row'[j].leaseToken = NoToken
                        /\ row'[j].state \in {"pending", "succeeded", "failed"}
                        /\ row'[j].state = "failed" => /\ j \notin Retained \ Malformed
                                                      /\ row'[j].attempts = MaxAttempts
    BY <1>0 DEF Report
  <1>3. /\ row[j].leaseToken = t
        /\ \A k \in Jobs \ {j} : row'[k] = row[k]
        /\ row'[j] = IF outcome = "done" THEN Settle(row[j], "succeeded")
                     ELSE FailedRow(row[j], e, outcome, age)
    BY <1>0, <1>1, <1>2 DEF Report, Owns, IInv, TypeOK
  <1>4. CASE outcome = "done"
    BY <1>3, <1>4 DEF Settle
  <1>5. CASE outcome # "done"
    <2>1. /\ row'[j].leaseToken = NoToken
          /\ \/ row'[j].state = "pending"
             \/ /\ row'[j] = Settle(row[j], "failed")
                /\ outcome = "error" /\ e.attempts >= MaxAttempts
      BY <1>1, <1>3, <1>5, FailedRowType
    <2>2. outcome = "error" => j \notin Retained \ Malformed
      BY <1>1 DEF Outcomes
    <2>3. e.attempts = row[j].attempts
      BY <1>1, <1>2 DEF Owns, IInv, LeaseAgreement, Finish, Running
    <2>4. e.attempts >= MaxAttempts => row[j].attempts = MaxAttempts
      BY <1>1, <2>3, Numbers DEF Row
    <2>5. Settle(row[j], "failed").state = "failed"
          /\ Settle(row[j], "failed").attempts = row[j].attempts
      BY DEF Settle
    <2>6. QED
      BY <1>3, <2>1, <2>2, <2>4, <2>5
  <1>6. QED
    BY <1>4, <1>5

(* A heartbeat moves the end of one lease and nothing else. *)
LEMMA RenewedRow ==
  ASSUME row \in [Jobs -> Row], NEW j \in Jobs, NEW left,
         row' = [row EXCEPT ![j].leaseExpiresAt = left], NEW k \in Jobs
  PROVE  /\ row'[k].state = row[k].state
         /\ row'[k].attempts = row[k].attempts
         /\ row'[k].leaseToken = row[k].leaseToken
  <1>1. CASE k # j
    BY <1>1
  <1>2. CASE k = j
    <2>1. row[j] \in Row
      OBVIOUS
    <2>2. row'[j] = [row[j] EXCEPT !.leaseExpiresAt = left]
      OBVIOUS
    <2>3. QED
      BY <1>2, <2>1, <2>2 DEF Row
  <1>3. QED
    BY <1>1, <1>2

LEMMA InvExecution ==
  ASSUME IInv, NEW t \in Tokens, ExtendLease(t) \/ Conclude(t) \/ Abandon(t), TypeOK'
  PROVE  IInv'
  <1>1. CASE ExtendLease(t)
    <2> DEFINE j == exec[t].job
    <2>1. exec[t] \in Claim /\ j \in Jobs /\ row[j] \in Row
      BY <1>1 DEF ExtendLease, Running, Live, IInv, TypeOK, Claim
    <2>2. \A k \in Jobs : /\ row'[k].state = row[k].state
                          /\ row'[k].attempts = row[k].attempts
                          /\ row'[k].leaseToken = row[k].leaseToken
      <3>1. row' = row \/ \E left : row' = [row EXCEPT ![j].leaseExpiresAt = left]
        BY <1>1 DEF ExtendLease
      <3>2. QED
        BY <2>1, <3>1, RenewedRow DEF IInv, TypeOK
    <2>3. \A u \in Tokens : /\ Live(u)' <=> Live(u)
                            /\ Live(u) => /\ exec'[u].job = exec[u].job
                                          /\ exec'[u].attempts = exec[u].attempts
                                          /\ exec'[u].before = exec[u].before
                                          /\ exec'[u].found = exec[u].found
      <3>1. PICK b \in BOOLEAN : exec' = [exec EXCEPT ![t] = Answered(@, b)]
        BY <1>1 DEF ExtendLease
      <3>2. exec'[t] = Answered(exec[t], b) /\ \A u \in Tokens \ {t} : exec'[u] = exec[u]
        BY <3>1 DEF IInv, TypeOK
      <3>3. QED
        BY <2>1, <3>2, AnsweredType, SentinelsAssumption DEF Live
    <2>4. LeaseAgreement' /\ ContentionRefundIsExact'
      BY <2>2, <2>3 DEF IInv, LeaseAgreement, ContentionRefundIsExact
    <2>5. RetainedSurvives' /\ NoEarlyFailure'
      BY <2>2, JobsAssumption DEF IInv, RetainedSurvives, NoEarlyFailure
    <2>6. QED
      BY <2>4, <2>5 DEF IInv
  <1>2. ASSUME NEW outcome, Finish(t, outcome)
        PROVE  IInv'
    <2> DEFINE j == exec[t].job
    <2>1. \A u \in Tokens : exec'[u] = exec[u] \/ exec'[u] = NoClaim
      BY <1>2 DEF Finish, Report, IInv, TypeOK
    <2>2. \A k \in Jobs : \/ row'[k] = row[k]
                          \/ /\ row'[k].leaseToken = NoToken
                             /\ row'[k].state \in {"pending", "succeeded", "failed"}
                             /\ row'[k].state = "failed" =>
                                  /\ k \notin Retained \ Malformed
                                  /\ row'[k].attempts = MaxAttempts
      BY <1>2, FinishedRow
    <2>3. LeaseAgreement' /\ ContentionRefundIsExact'
      <3>1. OnlyUnleases
        BY <2>1, <2>2 DEF OnlyUnleases
      <3>2. QED
        BY <3>1, UnleaseRows DEF IInv
    <2>4. RetainedSurvives' /\ NoEarlyFailure'
      BY <2>2, JobsAssumption DEF IInv, RetainedSurvives, NoEarlyFailure
    <2>5. QED
      BY <2>3, <2>4 DEF IInv
  <1>3. CASE Abandon(t)
    <2>1. row' = row /\ \A u \in Tokens : exec'[u] = exec[u] \/ exec'[u] = NoClaim
      BY <1>3 DEF Abandon, IInv, TypeOK
    <2>2. LeaseAgreement' /\ ContentionRefundIsExact'
      <3>1. OnlyUnleases
        BY <2>1 DEF OnlyUnleases
      <3>2. QED
        BY <3>1, UnleaseRows DEF IInv
    <2>3. RetainedSurvives' /\ NoEarlyFailure'
      BY <2>1 DEF IInv, RetainedSurvives, NoEarlyFailure
    <2>4. QED
      BY <2>2, <2>3 DEF IInv
  <1>4. QED
    BY <1>1, <1>2, <1>3 DEF Conclude

(* The invariant holds in every reachable state. *)
THEOREM Invariance == Spec => []IInv
  <1>1. Init => IInv
    <2> SUFFICES ASSUME Init
                 PROVE  IInv
      OBVIOUS
    <2>1. TypeOK
      BY NoRowType DEF Init, TypeOK
    <2>2. /\ \A j \in Jobs : row[j].state = "absent" /\ row[j].leaseToken = NoToken
          /\ \A t \in Tokens : ~Live(t)
      BY DEF Init, NoRow, Live
    <2>3. QED
      BY <2>1, <2>2, TokensAssumption, JobsAssumption
      DEF IInv, LeaseAgreement, ContentionRefundIsExact, RetainedSurvives, NoEarlyFailure
  <1>2. IInv /\ TypeOK' /\ [Next]_vars => IInv'
    <2> SUFFICES ASSUME IInv, TypeOK', [Next]_vars
                 PROVE  IInv'
      OBVIOUS
    <2>1. CASE UNCHANGED vars
      BY <2>1 DEF vars, IInv, LeaseAgreement, ContentionRefundIsExact,
                  RetainedSurvives, NoEarlyFailure, Live
    <2>2. QED
      BY <2>1, InvOwners, InvCleanup, InvClaim, InvExecution, InvTick DEF Next
  <1>3. QED
    BY <1>1, <1>2, TypeCorrect, PTL DEF Spec

(* A running row's lease, and what its holder remembers, agree: two rows   *)
(* never share a token, whatever claims and sweeps interleave.             *)
THEOREM LeasesAgree == Spec => []LeaseAgreement
  <1>1. IInv => LeaseAgreement
    BY DEF IInv
  <1>2. QED
    BY <1>1, Invariance, PTL

(* Contention gives back exactly the attempt that the claim had taken.     *)
THEOREM RefundsAreExact == Spec => []ContentionRefundIsExact
  <1>1. IInv => ContentionRefundIsExact
    BY DEF IInv
  <1>2. QED
    BY <1>1, Invariance, PTL

(* No sweep or cancellation ends the mirror of a committed write, and no    *)
(* failure, but that of a handler that cannot read it.                      *)
THEOREM RetainedRowsSurvive == Spec => []RetainedSurvives
  <1>1. IInv => RetainedSurvives
    BY DEF IInv
  <1>2. QED
    BY <1>1, Invariance, PTL

(* A job that is failed for good has used every attempt it had.            *)
THEOREM FailuresAreFinal == Spec => []NoEarlyFailure
  <1>1. IInv => NoEarlyFailure
    BY DEF IInv
  <1>2. QED
    BY <1>1, Invariance, PTL

-----------------------------------------------------------------------------
(* What a step may never do. *)

LEMMA SameExtendedRow ==
  ASSUME IInv, NEW t \in Tokens, ExtendLease(t)
  PROVE  /\ \A k \in Jobs : /\ row'[k].state = row[k].state
                            /\ row'[k].leaseToken = row[k].leaseToken
         /\ \A u \in Tokens : /\ Live(u) <=> Live(u)'
                              /\ Live(u) => exec'[u].job = exec[u].job
  <1> DEFINE j == exec[t].job
  <1>1. exec[t] \in Claim /\ j \in Jobs /\ row[j] \in Row
    BY DEF ExtendLease, Running, Live, IInv, TypeOK, Claim
  <1>2. PICK b \in BOOLEAN : exec' = [exec EXCEPT ![t] = Answered(@, b)]
    BY DEF ExtendLease
  <1>3. exec'[t] = Answered(exec[t], b) /\ \A u \in Tokens \ {t} : exec'[u] = exec[u]
    BY <1>2 DEF IInv, TypeOK
  <1>4. \A u \in Tokens : /\ Live(u) <=> Live(u)'
                          /\ Live(u) => exec'[u].job = exec[u].job
    BY <1>1, <1>3, AnsweredType, SentinelsAssumption DEF Live
  <1>5. row' = row \/ \E left : row' = [row EXCEPT ![j].leaseExpiresAt = left]
    BY DEF ExtendLease
  <1>6. \A k \in Jobs : row'[k].state = row[k].state /\ row'[k].leaseToken = row[k].leaseToken
    BY <1>1, <1>5, RenewedRow DEF IInv, TypeOK
  <1>7. QED
    BY <1>4, <1>6

(* The body of OnlyTheHolderReports. *)
HolderReports ==
  \A t \in Tokens : Live(t) /\ ~Live(t)' =>
    \A j \in Jobs : row'[j] # row[j] => row[j].leaseToken = t

LEMMA StepReports ==
  ASSUME IInv, [Next]_vars
  PROVE  HolderReports
  <1> SUFFICES ASSUME NEW t \in Tokens, Live(t), ~Live(t)',
                      NEW j \in Jobs, row'[j] # row[j]
               PROVE  row[j].leaseToken = t
    BY DEF HolderReports
  <1>1. ASSUME NEW k \in Jobs, Enqueue(k) \/ Cancel(k) \/ Retry(k)
        PROVE  FALSE
    BY <1>1 DEF Enqueue, Cancel, Retry, Live
  <1>2. ASSUME CleanupDurableJobs \/ Tick \/ UNCHANGED vars
        PROVE  FALSE
    BY <1>2, SameTickedExec DEF CleanupDurableJobs, vars, Live, IInv
  <1>3. ASSUME NEW w \in Workers, ClaimStep(w)
        PROVE  FALSE
    <2>1. CASE BeginClaim(w) \/ SweepExhausted(w) \/ SelectCandidates(w)
      BY <2>1 DEF BeginClaim, SweepExhausted, SelectCandidates, Live
    <2>2. CASE EndClaim(w) \/ AbortClaim(w)
      BY <2>2 DEF EndClaim, AbortClaim
    <2>3. ASSUME NEW i \in Jobs, TakeCandidate(w, i)
          PROVE  FALSE
      <3>1. PICK c \in batch[w].todo :
              \/ \E u \in Tokens : FreshToken(u) /\ ClaimRow(w, c, u)
              \/ UNCHANGED <<row, exec>>
        BY <2>3 DEF TakeCandidate
      <3>2. PICK u \in Tokens : FreshToken(u) /\ ClaimRow(w, c, u)
        BY <3>1
      <3>3. u # t
        BY <3>2 DEF FreshToken
      <3>4. exec'[t] = exec[t]
        BY <3>2, <3>3 DEF ClaimRow, IInv, TypeOK
      <3>5. QED
        BY <3>4 DEF Live
    <2>4. QED
      BY <1>3, <2>1, <2>2, <2>3 DEF ClaimStep
  <1>4. ASSUME NEW u \in Tokens, ExtendLease(u) \/ Conclude(u) \/ Abandon(u)
        PROVE  row[j].leaseToken = t
    <2>1. CASE ExtendLease(u)
      BY <2>1, SameExtendedRow DEF Live
    <2>2. ASSUME NEW outcome, Finish(u, outcome)
          PROVE  row[j].leaseToken = t
      <3>1. u = t
        BY <2>2 DEF Finish, Report, Live, IInv, TypeOK
      <3>2. \/ row' = row
            \/ /\ row[exec[u].job].leaseToken = u
               /\ \A k \in Jobs \ {exec[u].job} : row'[k] = row[k]
        BY <2>2, FinishedRow
      <3>3. QED
        BY <3>1, <3>2
    <2>3. CASE Abandon(u)
      BY <2>3 DEF Abandon
    <2>4. QED
      BY <1>4, <2>1, <2>2, <2>3 DEF Conclude
  <1>5. QED
    BY <1>1, <1>2, <1>3, <1>4 DEF Next

(* A handler that ends writes no row but the one whose lease it holds. *)
THEOREM HolderReportsOnly == Spec => OnlyTheHolderReports
  <1>1. IInv /\ [Next]_vars => [HolderReports]_vars
    BY StepReports
  <1>2. OnlyTheHolderReports <=> [][HolderReports]_vars
    BY PTL DEF OnlyTheHolderReports, HolderReports
  <1>3. QED
    BY <1>1, <1>2, Invariance, PTL DEF Spec

(* The body of LeaseIsRespected, for one row. *)
Respected(j) ==
  \/ row'[j].leaseToken = row[j].leaseToken
  \/ row'[j].state = "cancelled"
  \/ \E t \in Tokens : row[j].leaseToken = t /\ Live(t) /\ ~Live(t)'

LEMMA StepRespects ==
  ASSUME IInv, [Next]_vars, NEW j \in Jobs,
         row[j].state = "running", row[j].leaseExpiresAt > 0
  PROVE  Respected(j)
  <1>1. row[j] \in Row /\ ~Lapsed(j, 0)
    BY DEF IInv, TypeOK, Row, Lapsed
  <1>2. \A w \in Workers : batch[w] # Idle => batch[w].age \in Nat /\ ~Lapsed(j, batch[w].age)
    BY <1>1, Numbers DEF IInv, TypeOK, Call, Row, Lapsed
  <1>3. ASSUME NEW k \in Jobs, Enqueue(k) \/ Cancel(k) \/ Retry(k)
        PROVE  Respected(j)
    BY <1>3 DEF Enqueue, Cancel, Retry, CancelledRow, Settle, Settled, Respected, IInv, TypeOK
  <1>4. CASE CleanupDurableJobs \/ UNCHANGED vars
    BY <1>4 DEF CleanupDurableJobs, Removable, Settled, vars, Respected
  <1>5. CASE Tick
    BY <1>5 DEF Tick, Aged, Respected
  <1>6. ASSUME NEW w \in Workers, ClaimStep(w)
        PROVE  Respected(j)
    <2>1. CASE BeginClaim(w) \/ SelectCandidates(w) \/ EndClaim(w) \/ AbortClaim(w)
      BY <2>1 DEF BeginClaim, SelectCandidates, EndClaim, AbortClaim, Respected
    <2>2. CASE SweepExhausted(w)
      BY <1>2, <2>2 DEF SweepExhausted, Exhausted, Respected
    <2>3. ASSUME NEW i \in Jobs, TakeCandidate(w, i)
          PROVE  Respected(j)
      <3>1. PICK c \in batch[w].todo :
              \/ /\ Claimable(c, batch[w].age)
                 /\ \E u \in Tokens : ClaimRow(w, c, u)
              \/ UNCHANGED <<row, exec>>
        BY <2>3 DEF TakeCandidate
      <3>2. CASE Claimable(c, batch[w].age) /\ \E u \in Tokens : ClaimRow(w, c, u)
        <4>1. c.job # j
          BY <1>2, <2>3, <3>2 DEF Claimable, Eligible, TakeCandidate
        <4>2. QED
          BY <3>2, <4>1 DEF ClaimRow, Respected, IInv, TypeOK
      <3>3. CASE UNCHANGED <<row, exec>>
        BY <3>3 DEF Respected
      <3>4. QED
        BY <3>1, <3>2, <3>3
    <2>4. QED
      BY <1>6, <2>1, <2>2, <2>3 DEF ClaimStep
  <1>7. ASSUME NEW t \in Tokens, ExtendLease(t) \/ Conclude(t) \/ Abandon(t)
        PROVE  Respected(j)
    <2>1. CASE ExtendLease(t)
      BY <2>1, SameExtendedRow DEF Respected
    <2>2. CASE Abandon(t)
      BY <2>2 DEF Abandon, Respected
    <2>3. ASSUME NEW outcome, Finish(t, outcome)
          PROVE  Respected(j)
      <3>1. \/ row' = row
            \/ /\ row[exec[t].job].leaseToken = t
               /\ \A k \in Jobs \ {exec[t].job} : row'[k] = row[k]
        BY <2>3, FinishedRow
      <3>2. Live(t) /\ ~Live(t)'
        BY <2>3 DEF Finish, Report, Running, Live, IInv, TypeOK
      <3>3. QED
        BY <3>1, <3>2 DEF Respected
    <2>4. QED
      BY <1>7, <2>1, <2>2, <2>3 DEF Conclude
  <1>8. QED
    BY <1>3, <1>4, <1>5, <1>6, <1>7 DEF Next

(* While a lease lasts, nobody but its holder or an operator ends it:      *)
(* neither a sweep nor a claim whose clock was read long ago.              *)
THEOREM LeasesAreRespected == Spec => LeaseIsRespected
  <1> DEFINE Body == \A j \in Jobs :
               row[j].state = "running" /\ row[j].leaseExpiresAt > 0 => Respected(j)
  <1>1. IInv /\ [Next]_vars => [Body]_vars
    BY StepRespects
  <1>2. LeaseIsRespected <=> [][Body]_vars
    BY PTL DEF LeaseIsRespected, Respected
  <1>3. QED
    BY <1>1, <1>2, Invariance, PTL DEF Spec

(* The body of LapsedRetainedLeaseIsDead, for one row. *)
StaysDead(j) ==
  /\ row'[j].state = "running"
  /\ row'[j].leaseToken = row[j].leaseToken => row'[j].leaseExpiresAt <= row[j].leaseExpiresAt

LEMMA StepLeavesDead ==
  ASSUME IInv, [Next]_vars, NEW j \in Retained,
         row[j].state = "running", row[j].leaseExpiresAt <= 0 - MaxStale
  PROVE  StaysDead(j)
  <1>1. j \in Jobs /\ row[j] \in Row /\ row[j].leaseExpiresAt \in Int
    BY JobsAssumption DEF IInv, TypeOK, Row
  <1>2. ASSUME row'[j] = row[j]
        PROVE  StaysDead(j)
    BY <1>1, <1>2 DEF StaysDead
  <1>3. ASSUME NEW k \in Jobs, Enqueue(k) \/ Cancel(k) \/ Retry(k)
        PROVE  row'[j] = row[j]
    <2>1. CASE k = j
      BY <1>1, <1>3, <2>1 DEF Enqueue, Cancel, Retry, CancelledRow, IInv, TypeOK
    <2>2. CASE k # j
      BY <1>1, <1>3, <2>2 DEF Enqueue, Cancel, Retry, IInv, TypeOK
    <2>3. QED
      BY <2>1, <2>2
  <1>4. CASE CleanupDurableJobs \/ UNCHANGED vars
    BY <1>1, <1>2, <1>4 DEF CleanupDurableJobs, Removable, Settled, vars
  <1>5. CASE Tick
    <2>1. row'[j] = Aged(row[j])
      BY <1>1, <1>5 DEF Tick
    <2>2. row'[j].state = "running" /\ row'[j].leaseExpiresAt = Later(row[j].leaseExpiresAt)
      BY <2>1 DEF Aged
    <2>3. QED
      BY <1>1, <2>2, LaterInt DEF StaysDead
  <1>6. ASSUME NEW w \in Workers, ClaimStep(w)
        PROVE  StaysDead(j)
    <2>1. CASE BeginClaim(w) \/ SelectCandidates(w) \/ EndClaim(w) \/ AbortClaim(w)
      BY <1>2, <2>1 DEF BeginClaim, SelectCandidates, EndClaim, AbortClaim
    <2>2. CASE SweepExhausted(w)
      BY <1>1, <1>2, <2>2 DEF SweepExhausted, Exhausted
    <2>3. ASSUME NEW i \in Jobs, TakeCandidate(w, i)
          PROVE  StaysDead(j)
      <3>1. PICK c \in batch[w].todo :
              \/ \E u \in Tokens : FreshToken(u) /\ ClaimRow(w, c, u)
              \/ UNCHANGED <<row, exec>>
        BY <2>3 DEF TakeCandidate
      <3>2. ASSUME NEW u \in Tokens, FreshToken(u), ClaimRow(w, c, u)
            PROVE  StaysDead(j)
        <4>1. CASE c.job = j
          <5>1. row'[j].state = "running" /\ row'[j].leaseToken = u
            BY <1>1, <3>2, <4>1 DEF ClaimRow, Leased, IInv, TypeOK
          <5>2. row[j].leaseToken # u
            BY <1>1, <3>2 DEF FreshToken
          <5>3. QED
            BY <5>1, <5>2 DEF StaysDead
        <4>2. CASE c.job # j
          BY <1>1, <1>2, <3>2, <4>2 DEF ClaimRow, IInv, TypeOK
        <4>3. QED
          BY <4>1, <4>2
      <3>3. QED
        BY <1>2, <3>1, <3>2
    <2>4. QED
      BY <1>6, <2>1, <2>2, <2>3 DEF ClaimStep
  <1>7. ASSUME NEW t \in Tokens, ExtendLease(t) \/ Conclude(t) \/ Abandon(t)
        PROVE  row'[j] = row[j]
    <2>1. ASSUME Running(t), exec[t].job = j, NEW age \in 0..exec[t].since
          PROVE  ~Owns(t, age)
      <3>1. exec[t].since \in 0..MaxStale
        BY <2>1 DEF Running, Live, IInv, TypeOK, Claim
      <3>2. ~(row[j].leaseExpiresAt + age > 0)
        BY <1>1, <2>1, <3>1, Numbers
      <3>3. QED
        BY <2>1, <3>2 DEF Owns
    <2>2. CASE ExtendLease(t)
      BY <1>1, <2>1, <2>2 DEF ExtendLease, IInv, TypeOK
    <2>3. ASSUME NEW outcome, Finish(t, outcome)
          PROVE  row'[j] = row[j]
      BY <1>1, <2>1, <2>3 DEF Finish, Report, IInv, TypeOK
    <2>4. CASE Abandon(t)
      BY <2>4 DEF Abandon
    <2>5. QED
      BY <1>7, <2>2, <2>3, <2>4 DEF Conclude
  <1>8. QED
    BY <1>2, <1>3, <1>4, <1>5, <1>6, <1>7 DEF Next

(* A storage job's lease that ran out longer ago than a heartbeat or report *)
(* can take is not revived: whatever still comes does nothing, and only a   *)
(* claim under a new token moves the row.                                   *)
THEOREM LapsedLeasesStayDead == Spec => LapsedRetainedLeaseIsDead
  <1> DEFINE Body == \A j \in Retained :
               row[j].state = "running" /\ row[j].leaseExpiresAt <= 0 - MaxStale => StaysDead(j)
  <1>1. IInv /\ [Next]_vars => [Body]_vars
    BY StepLeavesDead
  <1>2. LapsedRetainedLeaseIsDead <=> [][Body]_vars
    BY PTL DEF LapsedRetainedLeaseIsDead, StaysDead
  <1>3. QED
    BY <1>1, <1>2, Invariance, PTL DEF Spec
=============================================================================
