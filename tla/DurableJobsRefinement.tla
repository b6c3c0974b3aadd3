----------------------- MODULE DurableJobsRefinement -----------------------
(* The durable job table implements JobQueue, for every value of the       *)
(* constants: each step is a step of the abstract queue, or invisible.     *)
EXTENDS DurableJobsProofs

(* A step that shows nothing to the abstract queue. *)
LEMMA Invisible ==
  ASSUME \A j \in Jobs : /\ row'[j].state = row[j].state
                         /\ row'[j].leaseToken = row[j].leaseToken,
         \A t \in Tokens : /\ Live(t) <=> Live(t)'
                           /\ Live(t) => exec'[t].job = exec[t].job
  PROVE  UNCHANGED <<status, holder, active>>
  <1>1. status' = status
    BY DEF status
  <1>2. holder' = holder
    BY DEF holder
  <1>3. active' = active
    BY DEF active
  <1>4. QED
    BY <1>1, <1>2, <1>3

(* Executions that end without a word. *)
LEMMA Vanishing ==
  ASSUME row' = row, NEW H \in SUBSET Tokens,
         \A t \in Tokens : exec'[t] = IF t \in H THEN NoClaim ELSE exec[t]
  PROVE  Queue!Vanish(H)
  <1>1. status' = status /\ holder' = holder
    BY DEF status, holder
  <1>2. active' = [t \in Tokens |-> IF t \in H THEN NoClaim ELSE active[t]]
    BY DEF active, Live
  <1>3. QED
    BY <1>1, <1>2 DEF Queue!Vanish

LEMMA RefineOwners ==
  ASSUME IInv, NEW j \in Jobs, Enqueue(j) \/ Cancel(j) \/ Retry(j)
  PROVE  \/ Queue!Submit(j) \/ Queue!Withdraw(j) \/ Queue!Rearm(j)
         \/ UNCHANGED <<status, holder, active>>
  <1>0. active' = active /\ row' = [row EXCEPT ![j] = row'[j]] /\ row \in [Jobs -> Row]
    BY DEF Enqueue, Cancel, Retry, IInv, TypeOK, active, Live
  <1>1. CASE Enqueue(j)
    <2>1. row[j].state = "absent" /\ row'[j].state = "pending"
          /\ row'[j].leaseToken = NoToken
      BY <1>0, <1>1 DEF Enqueue, Waiting
    <2>2. row[j].leaseToken = NoToken
      BY <2>1, TokensAssumption DEF IInv, LeaseAgreement, TypeOK, Row
    <2>3. status[j] = "absent" /\ status' = [status EXCEPT ![j] = "pending"]
      BY <1>0, <2>1 DEF status
    <2>4. holder' = holder
      BY <1>0, <2>1, <2>2 DEF holder
    <2>5. QED
      BY <1>0, <2>3, <2>4 DEF Queue!Submit
  <1>2. CASE Retry(j)
    <2>1. row[j].state = "failed" /\ row'[j].state = "pending"
          /\ row'[j].leaseToken = NoToken
      BY <1>0, <1>2 DEF Retry, Waiting
    <2>2. row[j].leaseToken = NoToken
      BY <2>1, TokensAssumption DEF IInv, LeaseAgreement, TypeOK, Row
    <2>3. status[j] = "failed" /\ status' = [status EXCEPT ![j] = "pending"]
      BY <1>0, <2>1 DEF status
    <2>4. holder' = holder
      BY <1>0, <2>1, <2>2 DEF holder
    <2>5. QED
      BY <1>0, <2>3, <2>4 DEF Queue!Rearm
  <1>3. CASE Cancel(j)
    <2>1. CASE row[j].state \in {"pending", "running"} /\ j \notin Retained
      <3>1. row'[j].state = "cancelled" /\ row'[j].leaseToken = NoToken
        BY <1>0, <1>3, <2>1 DEF Cancel, CancelledRow, Settle
      <3>2. status[j] \in {"pending", "running"} /\ {j} \cap Retained = {}
        BY <2>1 DEF status
      <3>3. status' = [k \in Jobs |-> IF k \in {j} THEN "cancelled" ELSE status[k]]
        BY <1>0, <3>1 DEF status
      <3>4. holder' = [k \in Jobs |-> IF k \in {j} THEN NoToken ELSE holder[k]]
        BY <1>0, <3>1 DEF holder
      <3>5. QED
        BY <1>0, <3>2, <3>3, <3>4 DEF Queue!Withdraw, Queue!Resign
    <2>2. CASE ~(row[j].state \in {"pending", "running"} /\ j \notin Retained)
      <3>1. row' = row
        BY <1>0, <1>3, <2>2 DEF Cancel, CancelledRow
      <3>2. QED
        BY <1>0, <3>1 DEF status, holder
    <2>3. QED
      BY <2>1, <2>2
  <1>4. QED
    BY <1>1, <1>2, <1>3

LEMMA RefineCleanup ==
  ASSUME IInv, CleanupDurableJobs
  PROVE  \E S \in SUBSET Jobs : Queue!Discard(S)
  <1> DEFINE S == {j \in Jobs : Removable(j)}
  <1>1. row' = [j \in Jobs |-> IF j \in S THEN NoRow ELSE row[j]] /\ exec' = exec
    BY DEF CleanupDurableJobs
  <1>2. /\ \A j \in S : status[j] \in Settled /\ row[j].leaseToken = NoToken
        /\ \A j \in S \cap Retained : status[j] = "succeeded"
    BY TokensAssumption DEF status, Removable, Settled, IInv, LeaseAgreement, TypeOK, Row
  <1>3. NoRow.state = "absent" /\ NoRow.leaseToken = NoToken
    BY DEF NoRow
  <1>4. status' = [j \in Jobs |-> IF j \in S THEN "absent" ELSE status[j]]
    BY <1>1, <1>3 DEF status
  <1>5. holder' = holder
    BY <1>1, <1>2, <1>3 DEF holder
  <1>6. active' = active
    BY <1>1 DEF active, Live
  <1>7. Queue!Discard(S)
    BY <1>2, <1>4, <1>5, <1>6 DEF Queue!Discard, Queue!Settled, Settled
  <1>8. QED
    BY <1>7

LEMMA RefineSweep ==
  ASSUME IInv, NEW w \in Workers, SweepExhausted(w)
  PROVE  \E S \in SUBSET Jobs : Queue!GiveUp(S)
  <1> DEFINE S == {j \in Jobs : Exhausted(j, batch[w].age)}
  <1>1. exec' = exec
        /\ row' = [j \in Jobs |-> IF j \in S THEN Settle(row[j], "failed") ELSE row[j]]
    BY DEF SweepExhausted
  <1>2. S \cap Retained = {} /\ \A j \in S : status[j] = "running"
    BY DEF status, Exhausted, Lapsed
  <1>3. \A j \in Jobs : Settle(row[j], "failed").state = "failed"
                        /\ Settle(row[j], "failed").leaseToken = NoToken
    BY DEF Settle
  <1>4. status' = [j \in Jobs |-> IF j \in S THEN "failed" ELSE status[j]]
    BY <1>1, <1>3 DEF status
  <1>5. holder' = [j \in Jobs |-> IF j \in S THEN NoToken ELSE holder[j]]
    BY <1>1, <1>3 DEF holder
  <1>6. active' = active
    BY <1>1 DEF active, Live
  <1>7. Queue!GiveUp(S)
    BY <1>2, <1>4, <1>5, <1>6 DEF Queue!GiveUp, Queue!Resign
  <1>8. QED
    BY <1>7

LEMMA RefineTake ==
  ASSUME IInv, NEW w \in Workers, NEW j \in Jobs, TakeCandidate(w, j)
  PROVE  \/ \E t \in Tokens : Queue!Grant(t, j)
         \/ UNCHANGED <<status, holder, active>>
  <1>1. PICK c \in batch[w].todo :
          /\ c.job = j
          /\ \/ /\ Claimable(c, batch[w].age)
                /\ \E t \in Tokens : FreshToken(t) /\ ClaimRow(w, c, t)
             \/ UNCHANGED <<row, exec>>
    BY DEF TakeCandidate
  <1>2. CASE UNCHANGED <<row, exec>>
    BY <1>2 DEF status, holder, active, Live
  <1>3. CASE /\ Claimable(c, batch[w].age)
             /\ \E t \in Tokens : FreshToken(t) /\ ClaimRow(w, c, t)
    <2>1. PICK t \in Tokens : FreshToken(t) /\ ClaimRow(w, c, t)
      BY <1>3
    <2>2. status[j] \in {"pending", "running"}
      BY <1>1, <1>3 DEF Claimable, Eligible, Lapsed, status
    <2>3. /\ row'[j].state = "running" /\ row'[j].leaseToken = t
          /\ \A k \in Jobs \ {j} : row'[k] = row[k]
      BY <1>1, <2>1 DEF ClaimRow, Leased, IInv, TypeOK
    <2>4. exec'[t] \in Claim /\ exec'[t].job = j
          /\ \A u \in Tokens \ {t} : exec'[u] = exec[u]
      <3>1. exec'[t] = [job |-> j, by |-> w, attempts |-> ClaimedAttempts(j),
                        before |-> c.attempts, found |-> row[j].attempts,
                        started |-> FALSE, authoritative |-> TRUE, since |-> 0]
            /\ \A u \in Tokens \ {t} : exec'[u] = exec[u]
        BY <1>1, <2>1 DEF ClaimRow, IInv, TypeOK
      <3>2. c \in Candidate
        <4>1. batch[w] \in Call
          BY DEF TakeCandidate, IInv, TypeOK
        <4>2. QED
          BY <1>1, <4>1 DEF Call
      <3>3. ClaimedAttempts(j) \in 1..MaxAttempts
        <4>1. row[j].attempts \in 0..MaxAttempts
          BY DEF IInv, TypeOK, Row
        <4>2. row[j].attempts < MaxAttempts \/ j \in Retained
          BY <1>1, <1>3 DEF Claimable, Eligible
        <4>3. QED
          BY <4>1, <4>2, Numbers DEF ClaimedAttempts
      <3>4. exec'[t] \in Claim
        BY <3>1, <3>2, <3>3, Numbers DEF Claim, Candidate, IInv, TypeOK, Row
      <3>5. QED
        BY <3>1, <3>4
    <2>5. active[t] = NoClaim /\ \A k \in Jobs : holder[k] # t
      BY <2>1 DEF FreshToken, active, holder
    <2>6. status' = [status EXCEPT ![j] = "running"]
      BY <2>3 DEF status
    <2>7. holder' = [holder EXCEPT ![j] = t]
      BY <2>3 DEF holder
    <2>8. active' = [active EXCEPT ![t] = j]
      BY <2>4, SentinelsAssumption DEF active, Live
    <2>9. Queue!Grant(t, j)
      BY <2>2, <2>5, <2>6, <2>7, <2>8 DEF Queue!Grant
    <2>10. QED
      BY <2>9
  <1>4. QED
    BY <1>1, <1>2, <1>3

LEMMA RefineClaim ==
  ASSUME IInv, NEW w \in Workers, ClaimStep(w)
  PROVE  \/ \E S \in SUBSET Jobs : Queue!GiveUp(S)
         \/ \E t \in Tokens, j \in Jobs : Queue!Grant(t, j)
         \/ \E H \in SUBSET Tokens : Queue!Vanish(H)
         \/ UNCHANGED <<status, holder, active>>
  <1>1. CASE BeginClaim(w) \/ SelectCandidates(w)
    BY <1>1 DEF BeginClaim, SelectCandidates, status, holder, active, Live
  <1>2. CASE EndClaim(w)
    <2>1. \A t \in Tokens : /\ Live(t) <=> Live(t)'
                            /\ Live(t) => exec'[t].job = exec[t].job
      BY <1>2, SameStartedExec DEF IInv
    <2>2. row' = row
      BY <1>2 DEF EndClaim
    <2>3. QED
      BY <2>1, <2>2, Invisible
  <1>3. CASE AbortClaim(w)
    <2> DEFINE H == {t \in Tokens : Unstarted(t, w)}
    <2>1. row' = row /\ \A t \in Tokens : exec'[t] = IF t \in H THEN NoClaim ELSE exec[t]
      BY <1>3 DEF AbortClaim
    <2>2. Queue!Vanish(H)
      BY <2>1, Vanishing
    <2>3. QED
      BY <2>2
  <1>4. QED
    BY <1>1, <1>2, <1>3, RefineSweep, RefineTake DEF ClaimStep

LEMMA RefineFinish ==
  ASSUME IInv, NEW t \in Tokens, NEW outcome, Finish(t, outcome)
  PROVE  \/ \E j \in Jobs, s \in Queue!Status : Queue!Report(t, j, s)
         \/ Queue!Vanish({t})
  <1> DEFINE j == exec[t].job
  <1>1. exec[t] \in Claim /\ j \in Jobs /\ Live(t)
    BY DEF Finish, Running, Live, IInv, TypeOK, Claim
  <1>2. exec' = [exec EXCEPT ![t] = NoClaim]
    BY DEF Finish, Report
  <1>3. CASE row' = row
    <2>1. \A u \in Tokens : exec'[u] = IF u \in {t} THEN NoClaim ELSE exec[u]
      BY <1>2 DEF IInv, TypeOK
    <2>2. QED
      BY <1>3, <2>1, Vanishing
  <1>4. CASE row' # row
    <2>1. /\ row[j].leaseToken = t
          /\ \A k \in Jobs \ {j} : row'[k] = row[k]
          /\ row'[j].leaseToken = NoToken
          /\ row'[j].state \in {"pending", "succeeded", "failed"}
          /\ row'[j].state = "failed" => j \notin Retained \ Malformed
      BY <1>4, FinishedRow
    <2> DEFINE s == row'[j].state
    <2>2. s \in Queue!Status
      BY <2>1 DEF Queue!Status, Queue!Settled
    <2>3. active[t] = j /\ holder[j] = t
      BY <1>1, <2>1 DEF active, holder
    <2>4. status' = [status EXCEPT ![j] = s]
      BY <1>1, <2>1 DEF status
    <2>5. holder' = [holder EXCEPT ![j] = NoToken]
      BY <1>1, <2>1 DEF holder
    <2>6. active' = [active EXCEPT ![t] = NoClaim]
      BY <1>2 DEF active, Live, IInv, TypeOK
    <2>7. Queue!Report(t, j, s)
      BY <2>1, <2>3, <2>4, <2>5, <2>6 DEF Queue!Report
    <2>8. QED
      BY <1>1, <2>2, <2>7
  <1>5. QED
    BY <1>3, <1>4

(* Every step of the table is a step of the queue, or invisible. *)
LEMMA RefineNext ==
  ASSUME IInv, [Next]_vars
  PROVE  [Queue!Next]_<<status, holder, active>>
  <1>1. ASSUME NEW j \in Jobs, Enqueue(j) \/ Cancel(j) \/ Retry(j)
        PROVE  [Queue!Next]_<<status, holder, active>>
    BY <1>1, RefineOwners DEF Queue!Next
  <1>2. CASE CleanupDurableJobs
    BY <1>2, RefineCleanup DEF Queue!Next
  <1>3. ASSUME NEW w \in Workers, ClaimStep(w)
        PROVE  [Queue!Next]_<<status, holder, active>>
    BY <1>3, RefineClaim DEF Queue!Next
  <1>4. ASSUME NEW t \in Tokens, ExtendLease(t) \/ Conclude(t) \/ Abandon(t)
        PROVE  [Queue!Next]_<<status, holder, active>>
    <2>1. CASE ExtendLease(t)
      BY <2>1, SameExtendedRow, Invisible
    <2>2. CASE Abandon(t)
      <3>1. \A u \in Tokens : exec'[u] = IF u \in {t} THEN NoClaim ELSE exec[u]
        BY <2>2 DEF Abandon, IInv, TypeOK
      <3>2. Queue!Vanish({t})
        BY <2>2, <3>1, Vanishing DEF Abandon
      <3>3. QED
        BY <3>2 DEF Queue!Next
    <2>3. ASSUME NEW outcome, Finish(t, outcome)
          PROVE  [Queue!Next]_<<status, holder, active>>
      <3>1. CASE Queue!Vanish({t})
        BY <3>1 DEF Queue!Next
      <3>2. CASE \E j \in Jobs, s \in Queue!Status : Queue!Report(t, j, s)
        BY <3>2 DEF Queue!Next
      <3>3. QED
        BY <2>3, <3>1, <3>2, RefineFinish
    <2>4. QED
      BY <1>4, <2>1, <2>2, <2>3 DEF Conclude
  <1>5. CASE Tick
    <2>1. \A j \in Jobs : /\ row'[j].state = row[j].state
                          /\ row'[j].leaseToken = row[j].leaseToken
      BY <1>5 DEF Tick, Aged
    <2>2. \A t \in Tokens : /\ Live(t) <=> Live(t)'
                            /\ Live(t) => exec'[t].job = exec[t].job
      BY <1>5, SameTickedExec DEF IInv
    <2>3. QED
      BY <2>1, <2>2, Invisible
  <1>6. CASE UNCHANGED vars
    BY <1>6 DEF vars, status, holder, active, Live
  <1>7. QED
    BY <1>1, <1>2, <1>3, <1>4, <1>5, <1>6 DEF Next

(* The table keeps the promise of the abstract queue. *)
THEOREM Refinement == Spec => KeepsPromise
  <1>1. Init => Queue!Init
    <2> SUFFICES ASSUME Init
                 PROVE  Queue!Init
      OBVIOUS
    <2>1. status = [j \in Jobs |-> "absent"] /\ holder = [j \in Jobs |-> NoToken]
      BY DEF Init, NoRow, status, holder
    <2>2. active = [t \in Tokens |-> NoClaim]
      BY DEF Init, active, Live
    <2>3. QED
      BY <2>1, <2>2 DEF Queue!Init
  <1>2. IInv /\ [Next]_vars => [Queue!Next]_(Queue!vars)
    BY RefineNext DEF Queue!vars
  <1>3. QED
    BY <1>1, <1>2, Invariance, PTL DEF Spec, KeepsPromise, Queue!Spec
=============================================================================
