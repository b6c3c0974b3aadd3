-------------------------- MODULE AgentRunsProofs --------------------------
(***************************************************************************)
(* The safety of AgentRuns for any number of runs, processes, attempts and  *)
(* faults.  The invariant speaks of one row and its reservation at a time   *)
(* (Sound), and of what an open claim may rely on (ClaimStands).            *)
(***************************************************************************)
EXTENDS AgentRuns, TLAPS

\* A row and its reservation, as every transaction leaves them.
Sound(x, h) ==
  /\ x \in Run /\ h \in Hold
  /\ x.holder # Nobody => x.status \in {"running", "awaiting"}
  /\ x.status = "running" => x.holder # Nobody
  /\ x.status \in {"running", "awaiting"} => x.attempts > 0
  /\ x.status \in {"none", "queued"} => ~x.side
  /\ x.status # "none" => h.status # "none"
  /\ x.status \in Ended => h.status # "reserved"
  /\ h.pending => h.status = "reserved" /\ x.status \notin {"none", "queued"}

OpenClaims == [worker : Workers, rows : [Runs -> Run], candidates : SUBSET Runs,
            active : SUBSET Runs, moved : SUBSET Runs]

\* What was read of a candidate.
Read(x) ==
  /\ x.status \in {"queued", "running", "awaiting"}
  /\ x.status \in {"running", "awaiting"} => x.attempts > 0
  /\ x.status = "queued" => ~x.side

\* While a claim is open no settlement of its candidates becomes pending, and
\* none of them is attempted.
ClaimStands ==
  claim # NoClaim =>
    /\ claim \in OpenClaims
    /\ \A r \in claim.candidates :
         /\ Read(claim.rows[r]) /\ claim.rows[r].attempts = run[r].attempts
         /\ ~hold[r].pending /\ run[r].status # "none"

Typed ==
  /\ run \in [Runs -> Run] /\ hold \in [Runs -> Hold] /\ spent \in [Runs -> BOOLEAN]
  /\ exec \in [Workers -> Execution \cup {Idle}] /\ listed \subseteq Runs

IInv ==
  /\ Typed
  /\ \A r \in Runs : Sound(run[r], hold[r])
  /\ ClaimStands

\* What a step may do to a run: keep the quarantine, and not repeat what was
\* known to have begun.
Keeps(r) ==
  Pending(r) => /\ run'[r].attempts = run[r].attempts /\ run'[r].status # "queued"
                /\ Pending(r)' \/ hold'[r].status = "consumed"
NoReplay(r) ==
  run'[r].attempts > run[r].attempts => claim # NoClaim /\ ~claim.rows[r].side

Right ==
  /\ IInv'
  /\ \A r \in Runs : Keeps(r) /\ NoReplay(r)

(* The numbers of the configuration. *)
LEMMA Numbers == MaxAttempts \in Nat /\ MaxAttempts >= 1
  BY NumbersAssumption

(* The invariant gives the type invariant and the emptiness of ended runs. *)
LEMMA Implied == IInv => TypeOK /\ EndedRunHoldsNothing
  BY DEF IInv, Typed, Sound, TypeOK, EndedRunHoldsNothing, Leased, Ended

(* The invariant holds before anything is admitted. *)
LEMMA InitInvariant == Init => IInv
<1> SUFFICES ASSUME Init PROVE IInv
  OBVIOUS
<1>1. NewRun \in Run
  BY Numbers DEF NewRun, Run, Waiting, Ended
<1>2. [status |-> "none", pending |-> FALSE, expired |-> FALSE] \in Hold
  BY DEF Hold
<1>3. Typed
  BY <1>1, <1>2 DEF Init, Typed
<1>4. \A r \in Runs : Sound(run[r], hold[r])
  BY <1>1, <1>2 DEF Init, Sound, NewRun, Ended
<1> QED
  BY <1>3, <1>4 DEF IInv, ClaimStands, Init

---------------------------------------------------------------------------
(* The end of a run, whoever ends it. *)

(* Reconciling closes a reservation, and consumes what a pending settlement says. *)
LEMMA ReconciledIsHold ==
  ASSUME IInv, NEW r \in Runs
  PROVE  /\ Reconciled(r) \in Hold /\ ~Reconciled(r).pending
         /\ Reconciled(r).status # "reserved"
         /\ hold[r].status # "none" => Reconciled(r).status # "none"
         /\ hold[r].pending => Reconciled(r).status = "consumed"
  BY DEF IInv, Typed, Sound, Hold, Reconciled

(* The row of an ended run is a row. *)
LEMMA EndType ==
  ASSUME NEW x \in Run, NEW c \in BOOLEAN, NEW s \in {"none"} \cup Waiting \cup Ended
  PROVE  [x EXCEPT !.status = s, !.cancel = c, !.holder = Nobody,
                   !.lapsed = FALSE, !.cont = 0, !.verdict = "none"] \in Run
<1>1. ASSUME NEW n \in 0..MaxAttempts, NEW h \in Workers \cup {Nobody, Lost}
      PROVE  [x EXCEPT !.status = s, !.cancel = c, !.holder = h,
                       !.lapsed = FALSE, !.cont = n, !.verdict = "none"] \in Run
  BY DEF Run
<1>2. 0 \in 0..MaxAttempts /\ Nobody \in Workers \cup {Nobody, Lost}
  BY Numbers
<1> QED
  BY <1>1, <1>2

(* An ended row with its reconciled reservation is sound, and no attempt is added. *)
LEMMA EndedRunIsSound ==
  ASSUME IInv, NEW r \in Runs, run[r].status # "none", NEW status \in Ended
  PROVE  /\ Sound(EndedRun(run[r], status), Reconciled(r))
         /\ EndedRun(run[r], status).attempts = run[r].attempts
         /\ EndedRun(run[r], status).side = run[r].side
         /\ EndedRun(run[r], status).holder = Nobody
         /\ EndedRun(run[r], status).status \in Ended
<1>1. run[r] \in Run /\ hold[r] \in Hold /\ Sound(run[r], hold[r])
  BY DEF IInv, Typed
<1>2. EndedRun(run[r], status) \in Run
  <2> DEFINE cancelled == run[r].cancel \/ status = "cancelled"
             last == IF run[r].cancel THEN "cancelled" ELSE status
  <2>1. cancelled \in BOOLEAN /\ last \in {"none"} \cup Waiting \cup Ended
    BY DEF Ended
  <2> HIDE DEF cancelled, last
  <2>2. [run[r] EXCEPT !.status = last, !.cancel = cancelled, !.holder = Nobody,
                       !.lapsed = FALSE, !.cont = 0, !.verdict = "none"] \in Run
    BY <1>1, <2>1, EndType
  <2> QED
    BY <2>2, Zenon DEF EndedRun, cancelled, last
<1>3. /\ EndedRun(run[r], status).status \in Ended
      /\ EndedRun(run[r], status).holder = Nobody
      /\ EndedRun(run[r], status).lapsed = FALSE
      /\ EndedRun(run[r], status).attempts = run[r].attempts
      /\ EndedRun(run[r], status).side = run[r].side
  BY <1>1 DEF EndedRun, Run, Ended
<1>4. Sound(EndedRun(run[r], status), Reconciled(r))
  BY <1>1, <1>2, <1>3, ReconciledIsHold, NamesAssumption DEF Sound, Ended
<1> QED
  BY <1>3, <1>4

---------------------------------------------------------------------------
(* Every step but the taking of a candidate is gentle with every run.        *)

Gentle(r) ==
  /\ Sound(run'[r], hold'[r])
  /\ run'[r].attempts = run[r].attempts
  /\ run[r].status # "none" => run'[r].status # "none"
  /\ hold[r].pending => /\ run'[r].status # "queued"
                        /\ hold'[r].pending \/ hold'[r].status = "consumed"
  /\ claim # NoClaim /\ hold'[r].pending => hold[r].pending

\* An open claim is left, given up, or told that a row has moved.
ClaimPasses ==
  \/ claim' = NoClaim
  \/ claim' = claim
  \/ claim # NoClaim /\ \E r \in Runs : claim' = [claim EXCEPT !.moved = @ \cup {r}]

(* A step gentle with every run, that leaves the open claim alone, is right. *)
LEMMA GentleStep ==
  ASSUME IInv, Typed', ClaimPasses, \A r \in Runs : Gentle(r)
  PROVE  Right
<1>1. ClaimStands'
  BY DEF IInv, ClaimStands, OpenClaims, ClaimPasses, Gentle
<1>2. \A r \in Runs : Keeps(r) /\ NoReplay(r)
  <2> TAKE r \in Runs
  <2>1. run[r].attempts \in Nat /\ Gentle(r)
    BY Numbers DEF IInv, Sound, Run
  <2> QED
    BY <2>1 DEF Keeps, NoReplay, Gentle, Pending, Sound
<1> QED
  BY <1>1, <1>2 DEF Right, IInv, Gentle

(* A step that leaves a run alone is gentle with it. *)
LEMMA SameRun ==
  ASSUME IInv, NEW r \in Runs, run'[r] = run[r], hold'[r] = hold[r]
  PROVE  Gentle(r)
  BY DEF IInv, Gentle, Sound

(* Ending a run is gentle with it. *)
LEMMA EndIsGentle ==
  ASSUME IInv, NEW r \in Runs, run[r].status # "none", NEW status \in Ended,
         run'[r] = EndedRun(run[r], status), hold'[r] = Reconciled(r)
  PROVE  Gentle(r)
  BY EndedRunIsSound, ReconciledIsHold, NamesAssumption DEF Gentle, Ended

(* A step of one run. *)
LEMMA RunStep ==
  ASSUME IInv, NEW r \in Runs, NEW x, NEW h,
         run' = [run EXCEPT ![r] = x], hold' = [hold EXCEPT ![r] = h],
         run'[r] = x /\ hold'[r] = h => Gentle(r),
         ClaimPasses, spent' \in [Runs -> BOOLEAN],
         exec' \in [Workers -> Execution \cup {Idle}], listed' \subseteq Runs
  PROVE  Right
<1>1. run \in [Runs -> Run] /\ hold \in [Runs -> Hold]
  BY DEF IInv, Typed
<1>2. run'[r] = x /\ hold'[r] = h
  BY <1>1
<1>3. ASSUME NEW q \in Runs PROVE Gentle(q)
  <2>1. CASE q = r
    BY <1>2, <2>1
  <2>2. CASE q # r
    BY <1>1, <2>2, SameRun
  <2> QED
    BY <2>1, <2>2
<1>4. x \in Run /\ h \in Hold
  BY <1>2, <1>3 DEF Gentle, Sound
<1>5. Typed'
  BY <1>1, <1>4 DEF Typed
<1> QED
  BY <1>3, <1>5, GentleStep

(* A step that changes no row. *)
LEMMA QuietStep ==
  ASSUME IInv, UNCHANGED <<run, hold>>, ClaimPasses, spent' \in [Runs -> BOOLEAN],
         exec' \in [Workers -> Execution \cup {Idle}], listed' \subseteq Runs
  PROVE  Right
<1>1. \A r \in Runs : Gentle(r)
  BY SameRun
<1>2. Typed'
  BY DEF Typed, IInv
<1> QED
  BY <1>1, <1>2, GentleStep

(* So is a step that ends one run and its reservation. *)
LEMMA Terminalized ==
  ASSUME IInv, NEW r \in Runs, run[r].status # "none", NEW status \in Ended,
         Terminalize(r, status), ClaimPasses, spent' \in [Runs -> BOOLEAN],
         exec' \in [Workers -> Execution \cup {Idle}], listed' \subseteq Runs
  PROVE  Right
<1>1. run'[r] = EndedRun(run[r], status) /\ hold'[r] = Reconciled(r) => Gentle(r)
  BY EndIsGentle
<1>2. /\ run' = [run EXCEPT ![r] = EndedRun(run[r], status)]
      /\ hold' = [hold EXCEPT ![r] = Reconciled(r)]
  BY DEF Terminalize
<1> QED
  BY <1>1, <1>2, RunStep

---------------------------------------------------------------------------
(* Users. *)

(* What a step leaves alone keeps its type. *)
LEMMA UnchangedTypes ==
  ASSUME IInv
  PROVE  /\ exec' = exec => exec' \in [Workers -> Execution \cup {Idle}]
         /\ spent' = spent => spent' \in [Runs -> BOOLEAN]
         /\ listed' = listed => listed' \subseteq Runs
  BY DEF IInv, Typed

(* A run that waits has been admitted. *)
LEMMA WaitingIsThere ==
  ASSUME NEW r \in Runs, run[r].status \in Waiting
  PROVE  run[r].status # "none"
  BY DEF Waiting

(* Admissions, cancellations, deleted sessions and decisions are right. *)
LEMMA UsersRight ==
  ASSUME IInv, NEW r \in Runs,
         \/ AdmitAgentRun(r) \/ RequestAgentRunCancellation(r)
         \/ TombstoneOwnedSession(r) \/ Decide(r)
  PROVE  Right
<1> USE UnchangedTypes
<1>0. run[r] \in Run /\ hold[r] \in Hold /\ Sound(run[r], hold[r])
  BY DEF IInv, Typed
<1>1. CASE AdmitAgentRun(r)
  <2>1. /\ run' = [run EXCEPT ![r] = [run[r] EXCEPT !.status = "queued"]]
        /\ hold' = [hold EXCEPT ![r] = [hold[r] EXCEPT !.status = "reserved"]]
        /\ claim' = claim /\ claim = NoClaim /\ run[r].status = "none"
    BY <1>1 DEF AdmitAgentRun, Unlocked
  <2>2. [run[r] EXCEPT !.status = "queued"] \in Run /\ [hold[r] EXCEPT !.status = "reserved"] \in Hold
    BY <1>0 DEF Run, Hold, Waiting
  <2>3. Sound([run[r] EXCEPT !.status = "queued"], [hold[r] EXCEPT !.status = "reserved"])
    BY <1>0, <2>1, <2>2 DEF Sound, Run, Hold, Ended
  <2>4. /\ [run[r] EXCEPT !.status = "queued"].status = "queued"
        /\ [run[r] EXCEPT !.status = "queued"].attempts = run[r].attempts
        /\ [run[r] EXCEPT !.status = "queued"].holder = run[r].holder
        /\ [run[r] EXCEPT !.status = "queued"].side = run[r].side
        /\ ~hold[r].pending
    BY <1>0, <2>1 DEF Run, Sound
  <2>5. run'[r] = [run[r] EXCEPT !.status = "queued"]
          /\ hold'[r] = [hold[r] EXCEPT !.status = "reserved"] => Gentle(r)
    BY <2>1, <2>3, <2>4 DEF Gentle
  <2> QED
    BY <1>1, <2>1, <2>5, RunStep DEF AdmitAgentRun, ClaimPasses
<1>2. ASSUME NEW c \in BOOLEAN, run' = [run EXCEPT ![r].cancel = c], hold' = hold,
             claim' = claim, spent' = spent, listed' = listed,
             exec' \in [Workers -> Execution \cup {Idle}]
      PROVE  Right
  <2>1. [run[r] EXCEPT !.cancel = c] \in Run
    BY <1>0 DEF Run
  <2>2. run'[r] = [run[r] EXCEPT !.cancel = c] /\ hold'[r] = hold[r] => Gentle(r)
    BY <1>0, <2>1 DEF Gentle, Sound, Run
  <2>3. run' = [run EXCEPT ![r] = [run[r] EXCEPT !.cancel = c]] /\ hold' = [hold EXCEPT ![r] = hold[r]]
    BY <1>2 DEF IInv, Typed
  <2> QED
    BY <1>2, <2>2, <2>3, RunStep DEF ClaimPasses
<1>3. CASE RequestAgentRunCancellation(r)
  <2>1. exec' \in [Workers -> Execution \cup {Idle}]
    <3>1. exec \in [Workers -> Execution \cup {Idle}]
      BY DEF IInv, Typed
    <3>2. ASSUME NEW w \in Workers, Executes(w, r), exec' = [exec EXCEPT ![w].aborted = TRUE]
          PROVE  exec' \in [Workers -> Execution \cup {Idle}]
      <4>1. exec[w] \in Execution
        BY <3>1, <3>2 DEF Executes
      <4>2. [exec[w] EXCEPT !.aborted = TRUE] \in Execution
        BY <4>1 DEF Execution
      <4> QED
        BY <3>1, <3>2, <4>2
    <3> QED
      BY <1>3, <3>1, <3>2 DEF RequestAgentRunCancellation
  <2>2. /\ UNCHANGED <<spent, claim, listed>> /\ run[r].status # "none"
        /\ \/ run' = [run EXCEPT ![r].cancel = TRUE] /\ UNCHANGED hold
           \/ Terminalize(r, "cancelled")
    BY <1>3, WaitingIsThere DEF RequestAgentRunCancellation
  <2>3. CASE run' = [run EXCEPT ![r].cancel = TRUE] /\ UNCHANGED hold
    BY <1>2, <2>1, <2>2, <2>3
  <2>4. CASE Terminalize(r, "cancelled")
    <3>1. spent' \in [Runs -> BOOLEAN] /\ listed' \subseteq Runs /\ ClaimPasses
      BY <2>2 DEF IInv, Typed, ClaimPasses
    <3>2. "cancelled" \in Ended
      BY DEF Ended
    <3> QED
      BY <2>1, <2>2, <2>4, <3>1, <3>2, Terminalized
  <2> QED
    BY <2>2, <2>3, <2>4
<1>4. CASE TombstoneOwnedSession(r)
  BY <1>2, <1>4, WaitingIsThere, Terminalized DEF TombstoneOwnedSession, ClaimPasses, Ended
<1>5. CASE Decide(r)
  <2>1. PICK verdict \in {"approved", "refused"} : run' = [run EXCEPT ![r].verdict = verdict]
    BY <1>5 DEF Decide
  <2>2. [run[r] EXCEPT !.verdict = verdict] \in Run
    BY <1>0, <2>1 DEF Run
  <2>3. run'[r] = [run[r] EXCEPT !.verdict = verdict] /\ hold'[r] = hold[r] => Gentle(r)
    BY <1>0, <2>2 DEF Gentle, Sound, Run
  <2>4. run' = [run EXCEPT ![r] = [run[r] EXCEPT !.verdict = verdict]] /\ hold' = [hold EXCEPT ![r] = hold[r]]
    BY <1>5, <2>1 DEF Decide, IInv, Typed
  <2> QED
    BY <1>5, <2>3, <2>4, RunStep DEF Decide, ClaimPasses
<1> QED
  BY <1>1, <1>3, <1>4, <1>5

---------------------------------------------------------------------------
(* Executions. *)

(* What an execution holds is a sound row with a lease of its own. *)
LEMMA Executing ==
  ASSUME IInv, NEW w \in Workers, exec[w] # Idle
  PROVE  /\ It(w) \in Runs /\ exec[w] \in Execution
         /\ run[It(w)] \in Run /\ hold[It(w)] \in Hold /\ Sound(run[It(w)], hold[It(w)])
         /\ Holds(w) => /\ run[It(w)].status \in {"running", "awaiting"}
                        /\ run[It(w)].holder = w
  BY DEF IInv, Typed, Execution, It, Holds, Row, Leased

(* An execution that moves to another phase is an execution. *)
LEMMA GoesType ==
  ASSUME IInv, NEW w \in Workers, exec[w] # Idle, NEW phase \in Phases, Goes(w, phase)
  PROVE  exec' \in [Workers -> Execution \cup {Idle}]
<1>1. [exec[w] EXCEPT !.phase = phase] \in Execution
  BY Executing DEF Execution
<1>2. exec' = [exec EXCEPT ![w] = [exec[w] EXCEPT !.phase = phase]]
  BY DEF Goes
<1> QED
  BY <1>1, <1>2 DEF IInv, Typed

(* What an execution does to the row of its run, without ending it. *)
LEMMA RowStep ==
  ASSUME IInv, NEW w \in Workers, exec[w] # Idle, NEW x, NEW h,
         run' = [run EXCEPT ![It(w)] = x], hold' = [hold EXCEPT ![It(w)] = h],
         Sound(x, h), x.attempts = Row(w).attempts,
         x.status \in {"running", "awaiting"},
         hold[It(w)].pending => h.pending,
         h.pending => hold[It(w)].pending \/ claim = NoClaim,
         ClaimPasses, spent' \in [Runs -> BOOLEAN],
         exec' \in [Workers -> Execution \cup {Idle}], listed' \subseteq Runs
  PROVE  Right
<1>1. run'[It(w)] = x /\ hold'[It(w)] = h => Gentle(It(w))
  BY DEF Gentle, Row
<1> QED
  BY <1>1, Executing, RunStep

(* A handler that only moves on changes no row. *)
LEMMA StepQuiet ==
  ASSUME IInv, NEW w \in Workers, exec[w] # Idle, NEW phase \in Phases, Step(w, phase)
  PROVE  Right
  BY GoesType, UnchangedTypes, QuietStep DEF Step, ClaimPasses

(* Recording what was used makes a settlement pending, which an open claim forbids. *)
LEMMA IntendsRight ==
  ASSUME IInv, NEW w \in Workers, exec[w] # Idle, NEW next \in Phases,
         Intends(w, next), Unlocked, Holds(w)
  PROVE  Right
<1> USE UnchangedTypes, Executing
<1>1. CASE hold[It(w)].status = "reserved"
  <2> DEFINE h == [hold[It(w)] EXCEPT !.pending = TRUE]
  <2>1. Goes(w, next) /\ hold' = [hold EXCEPT ![It(w)] = h] /\ run' = run
    BY <1>1 DEF Intends
  <2>0. hold[It(w)] \in Hold
    BY Executing
  <2>2. h \in Hold /\ h.status = hold[It(w)].status /\ h.pending
    BY <2>0 DEF Hold
  <2>3. Sound(run[It(w)], h)
    BY <1>1, <2>2 DEF Sound
  <2>4. run' = [run EXCEPT ![It(w)] = run[It(w)]]
    BY <2>1 DEF IInv, Typed
  <2> HIDE DEF h
  <2> QED
    BY <2>1, <2>2, <2>3, <2>4, GoesType, RowStep DEF Intends, ClaimPasses, Row, Unlocked
<1>2. CASE hold[It(w)].status # "reserved"
  BY <1>2, GoesType, QuietStep DEF Intends, ClaimPasses, Phases
<1> QED
  BY <1>1, <1>2

(* A handler ends the run it holds. *)
LEMMA EndsRight ==
  ASSUME IInv, NEW w \in Workers, exec[w] # Idle, NEW status \in Ended, Ends(w, status), Holds(w)
  PROVE  Right
  BY UnchangedTypes, Executing, GoesType, Terminalized DEF Ends, ClaimPasses, Phases

(* An execution that leaves its run loses the token of its lease. *)
LEMMA LeaveRight ==
  ASSUME IInv, NEW w \in Workers, exec[w] # Idle, Leave(w)
  PROVE  Right
<1> USE UnchangedTypes, Executing
<1>0. exec' \in [Workers -> Execution \cup {Idle}]
  BY DEF Leave, IInv, Typed
<1>1. CASE Holds(w)
  <2> DEFINE x == [run[It(w)] EXCEPT !.holder = Lost]
  <2>1. run' = [run EXCEPT ![It(w)] = x] /\ hold' = [hold EXCEPT ![It(w)] = hold[It(w)]]
    BY <1>1 DEF Leave, Left, IInv, Typed
  <2>2. /\ x \in Run /\ x.holder = Lost /\ x.status = run[It(w)].status
        /\ x.attempts = run[It(w)].attempts /\ x.side = run[It(w)].side
    BY DEF Run
  <2>3. Sound(x, hold[It(w)]) /\ Lost \notin Workers
    BY <1>1, <2>2, NamesAssumption DEF Sound
  <2> HIDE DEF x
  <2>4. run'[It(w)] = x /\ hold'[It(w)] = hold[It(w)] => Gentle(It(w))
    BY <1>1, <2>2, <2>3 DEF Gentle, Row
  <2>5. /\ It(w) \in Runs /\ spent' \in [Runs -> BOOLEAN] /\ listed' \subseteq Runs
        /\ ClaimPasses
    BY DEF Leave, ClaimPasses
  <2> QED
    BY <1>0, <2>1, <2>4, <2>5, RunStep
<1>2. CASE ~Holds(w)
  BY <1>0, <1>2, QuietStep DEF Leave, Left, ClaimPasses
<1> QED
  BY <1>1, <1>2

(* A renewal that comes between the halves of a claim is right. *)
LEMMA HeartbeatRight ==
  ASSUME IInv, NEW w \in Workers, Heartbeat(w)
  PROVE  Right
<1> USE UnchangedTypes DEF Heartbeat
<1>0. exec[w] # Idle /\ run[It(w)] \in Run /\ hold[It(w)] \in Hold /\ Sound(run[It(w)], hold[It(w)])
  BY Executing
<1>1. CASE Holds(w) /\ ~Row(w).cancel
  <2> DEFINE x == [run[It(w)] EXCEPT !.lapsed = FALSE]
             h == IF hold[It(w)].status = "reserved"
                  THEN [hold[It(w)] EXCEPT !.expired = FALSE] ELSE hold[It(w)]
  <2>1. run' = [run EXCEPT ![It(w)] = x] /\ hold' = [hold EXCEPT ![It(w)] = h]
    BY <1>1 DEF IInv, Typed
  <2>2. /\ x \in Run /\ x.status = run[It(w)].status /\ x.holder = run[It(w)].holder
        /\ x.attempts = run[It(w)].attempts /\ x.side = run[It(w)].side /\ ~x.lapsed
    BY <1>0 DEF Run
  <2>3. h \in Hold /\ h.status = hold[It(w)].status /\ h.pending = hold[It(w)].pending
    BY <1>0 DEF Hold
  <2> HIDE DEF x, h
  <2>4. Sound(x, h)
    BY <1>0, <2>2, <2>3 DEF Sound
  <2>5. x.status \in {"running", "awaiting"}
    BY <1>0, <1>1, <2>2, Executing
  <2>6. /\ spent' \in [Runs -> BOOLEAN] /\ listed' \subseteq Runs /\ ClaimPasses
        /\ exec' \in [Workers -> Execution \cup {Idle}]
    BY <1>1 DEF ClaimPasses
  <2> QED
    BY <1>0, <2>1, <2>2, <2>3, <2>4, <2>5, <2>6, RowStep DEF Row
<1>2. CASE ~(Holds(w) /\ ~Row(w).cancel)
  <2>0. exec[w] \in Execution /\ exec' = [exec EXCEPT ![w] = [exec[w] EXCEPT !.aborted = TRUE]]
    BY <1>0, <1>2, Executing
  <2>1. [exec[w] EXCEPT !.aborted = TRUE] \in Execution
    BY <2>0 DEF Execution
  <2>2. exec' \in [Workers -> Execution \cup {Idle}]
    BY <2>0, <2>1 DEF IInv, Typed
  <2> QED
    BY <1>2, <2>2, QuietStep DEF ClaimPasses
<1> QED
  BY <1>1, <1>2

(* A dispatch writes the journal and moves the row's sequence only. *)
LEMMA DispatchRight ==
  ASSUME IInv, NEW w \in Workers, Dispatch(w)
  PROVE  Right
<1>0. exec[w] # Idle
  BY DEF Dispatch, At
<1>1. PICK sends \in BOOLEAN, phase \in Phases :
        /\ exec' = [exec EXCEPT ![w].ready = sends, ![w].phase = phase]
        /\ spent' = [spent EXCEPT ![It(w)] = @ \/ sends]
        /\ claim' = IF sends /\ claim # NoClaim
                    THEN [claim EXCEPT !.moved = @ \cup {It(w)}] ELSE claim
  <2> DEFINE h == hold[It(w)]
             sends == h.status = "reserved" /\ Holds(w) /\ ~Row(w).cancel /\ ~h.pending
             phase == IF sends THEN "work"
                      ELSE IF h.status = "reserved" /\ Holds(w) /\ ~Row(w).cancel
                      THEN "broken" ELSE "fail"
  <2>1. sends \in BOOLEAN /\ phase \in Phases
    BY DEF Phases
  <2>2. /\ exec' = [exec EXCEPT ![w].ready = sends, ![w].phase = phase]
        /\ spent' = [spent EXCEPT ![It(w)] = @ \/ sends]
        /\ claim' = IF sends /\ claim # NoClaim
                    THEN [claim EXCEPT !.moved = @ \cup {It(w)}] ELSE claim
    BY Zenon DEF Dispatch
  <2> HIDE DEF sends, phase
  <2> QED
    BY <2>1, <2>2
<1>2. It(w) \in Runs /\ exec[w] \in Execution
  BY <1>0, Executing
<1>3. exec' \in [Workers -> Execution \cup {Idle}]
  BY <1>1, <1>2 DEF IInv, Typed, Execution
<1>4. spent' \in [Runs -> BOOLEAN]
  <2>1. (spent[It(w)] \/ sends) \in BOOLEAN
    OBVIOUS
  <2> QED
    BY <1>1, <1>2, <2>1 DEF IInv, Typed
<1>5. ClaimPasses
  BY <1>1, <1>2 DEF ClaimPasses
<1> QED
  BY <1>3, <1>4, <1>5, UnchangedTypes, QuietStep DEF Dispatch

(* An event moves the sequence of its run only. *)
LEMMA AppendRight ==
  ASSUME IInv, NEW w \in Workers, AppendAgentEvent(w)
  PROVE  Right
<1>1. ClaimPasses
  BY Executing DEF AppendAgentEvent, ClaimPasses, Unlocked
<1> QED
  BY <1>1, UnchangedTypes, QuietStep DEF AppendAgentEvent

(* What a handler writes to its row while it holds it. *)
LEMMA WriteRight ==
  ASSUME IInv, NEW w \in Workers, exec[w] # Idle, Holds(w), NEW x \in Run,
         run' = [run EXCEPT ![It(w)] = x], NEW phase \in Phases, Goes(w, phase),
         UNCHANGED <<hold, spent, claim, listed>>,
         x.attempts = Row(w).attempts, x.holder = Row(w).holder,
         x.lapsed = Row(w).lapsed, x.status \in {"running", "awaiting"}
  PROVE  Right
<1> USE UnchangedTypes, Executing
<1>1. Sound(x, hold[It(w)])
  <2>1. /\ Sound(Row(w), hold[It(w)])
        /\ Row(w).status \in {"running", "awaiting"} /\ Row(w).holder = w
    BY DEF Row
  <2> QED
    BY <2>1, NamesAssumption DEF Sound, Ended
<1>2. hold' = [hold EXCEPT ![It(w)] = hold[It(w)]]
  BY DEF IInv, Typed
<1>3. Row(w).holder \in Workers
  BY DEF Row
<1> QED
  BY <1>1, <1>2, <1>3, GoesType, RowStep DEF ClaimPasses

(* The fence before a side effect writes only a row its worker holds. *)
LEMMA MarkRight ==
  ASSUME IInv, NEW w \in Workers, MarkSideEffectsStarted(w)
  PROVE  Right
<1> USE DEF MarkSideEffectsStarted
<1>1. PICK phase \in Phases : Goes(w, phase)
  BY DEF Phases
<1>2. CASE Running(w)
  <2>1. Holds(w) /\ run[It(w)] \in Run /\ Row(w).status = "running"
    BY <1>2, Executing DEF Running
  <2> DEFINE x == [run[It(w)] EXCEPT !.side = TRUE]
  <2>2. /\ x \in Run /\ x.attempts = Row(w).attempts /\ x.holder = Row(w).holder
        /\ x.lapsed = Row(w).lapsed /\ x.status \in {"running", "awaiting"}
    BY <2>1 DEF Run, Row
  <2>3. run' = [run EXCEPT ![It(w)] = x]
    BY <1>2
  <2> HIDE DEF x
  <2> QED
    BY <1>1, <2>1, <2>2, <2>3, WriteRight
<1>3. CASE ~Running(w)
  BY <1>1, <1>3, StepQuiet DEF Step
<1> QED
  BY <1>2, <1>3

(* A checkpoint is of the attempt that writes it. *)
LEMMA PersistRight ==
  ASSUME IInv, NEW w \in Workers, PersistApprovalContinuation(w)
  PROVE  Right
<1> USE DEF PersistApprovalContinuation, At
<1>1. CASE Running(w)
  <2>1. Holds(w) /\ run[It(w)] \in Run
    BY <1>1, Executing DEF Running
  <2> DEFINE n == Row(w).attempts
             x == [run[It(w)] EXCEPT !.status = "awaiting", !.verdict = "pending", !.cont = n]
  <2>2. n \in 0..MaxAttempts
    BY <2>1 DEF Run, Row
  <2>3. run' = [run EXCEPT ![It(w)] = x]
    BY <1>1
  <2> HIDE DEF n
  <2>4. /\ x \in Run /\ x.attempts = Row(w).attempts /\ x.holder = Row(w).holder
        /\ x.lapsed = Row(w).lapsed /\ x.status \in {"running", "awaiting"}
    BY <2>1, <2>2 DEF Run, Row, Waiting
  <2>5. Goes(w, "wait") /\ "wait" \in Phases
    BY <1>1 DEF Phases
  <2> HIDE DEF x
  <2> QED
    BY <2>1, <2>3, <2>4, <2>5, WriteRight
<1>2. CASE ~Running(w)
  BY <1>2, StepQuiet DEF Step, Phases
<1> QED
  BY <1>1, <1>2

(* A run that was decided on goes on under the same attempt. *)
LEMMA ResumeRight ==
  ASSUME IInv, NEW w \in Workers, ResumeRun(w)
  PROVE  Right
<1> USE DEF ResumeRun, At
<1>1. CASE Holds(w) /\ ~Row(w).cancel
  <2>1. PICK phase \in Phases : Goes(w, phase)
    BY <1>1 DEF Phases
  <2>2. run[It(w)] \in Run
    BY Executing
  <2> DEFINE x == [run[It(w)] EXCEPT !.status = "running"]
  <2>3. /\ x \in Run /\ x.attempts = Row(w).attempts /\ x.holder = Row(w).holder
        /\ x.lapsed = Row(w).lapsed /\ x.status \in {"running", "awaiting"}
    BY <2>2 DEF Run, Row, Waiting
  <2>4. run' = [run EXCEPT ![It(w)] = x]
    BY <1>1
  <2> HIDE DEF x
  <2> QED
    BY <1>1, <2>1, <2>3, <2>4, WriteRight
<1>2. CASE ~(Holds(w) /\ ~Row(w).cancel)
  BY <1>2, StepQuiet DEF Step, Phases
<1> QED
  BY <1>1, <1>2

(* The checkpoint is cleared by the worker that holds the row. *)
LEMMA ClearRight ==
  ASSUME IInv, NEW w \in Workers, ClearApprovalContinuation(w)
  PROVE  Right
<1> USE DEF ClearApprovalContinuation, At
<1>1. CASE Holds(w)
  <2>1. run[It(w)] \in Run /\ Row(w).status \in {"running", "awaiting"}
    BY <1>1, Executing DEF Row
  <2>2. 0 \in 0..MaxAttempts
    BY Numbers
  <2> DEFINE x == [run[It(w)] EXCEPT !.cont = 0, !.verdict = "none"]
  <2>3. /\ x \in Run /\ x.attempts = Row(w).attempts /\ x.holder = Row(w).holder
        /\ x.lapsed = Row(w).lapsed /\ x.status \in {"running", "awaiting"}
    BY <2>1, <2>2 DEF Run, Row
  <2>4. run' = [run EXCEPT ![It(w)] = x]
    BY <1>1
  <2>5. Goes(w, "work") /\ "work" \in Phases
    BY <1>1 DEF Phases
  <2> HIDE DEF x
  <2> QED
    BY <1>1, <2>3, <2>4, <2>5, WriteRight
<1>2. CASE ~Holds(w)
  BY <1>2, StepQuiet DEF Step, Phases
<1> QED
  BY <1>1, <1>2

(* Intent and end, of a success and of a failure, are right. *)
LEMMA SettlingRight ==
  ASSUME IInv, NEW w \in Workers,
         \/ PersistSettlementIntent(w) \/ TerminalizeSuccess(w)
         \/ SettleFailure(w) \/ TerminalizeFailure(w)
  PROVE  Right
<1> USE DEF At
<1>0. exec[w] # Idle
  BY DEF PersistSettlementIntent, TerminalizeSuccess, SettleFailure, TerminalizeFailure
<1>1. CASE PersistSettlementIntent(w)
  BY <1>0, <1>1, IntendsRight, StepQuiet DEF PersistSettlementIntent, Phases
<1>2. CASE TerminalizeSuccess(w)
  BY <1>0, <1>2, EndsRight, StepQuiet DEF TerminalizeSuccess, Phases, Ended
<1>3. CASE SettleFailure(w)
  BY <1>0, <1>3, IntendsRight, StepQuiet DEF SettleFailure, Phases
<1>4. CASE TerminalizeFailure(w)
  BY <1>0, <1>4, EndsRight, StepQuiet DEF TerminalizeFailure, Phases, Ended
<1> QED
  BY <1>1, <1>2, <1>3, <1>4

(* What the coordinator does once a handler has returned is right. *)
LEMMA ReportRight ==
  ASSUME IInv, NEW w \in Workers, Report(w)
  PROVE  Right
<1> USE UnchangedTypes DEF Report, At
<1>1. CASE Holds(w) /\ (Row(w).cancel \/ ~exec[w].aborted)
  <2>1. PICK status \in Ended : Terminalize(It(w), status)
    BY <1>1 DEF Ended
  <2>2. exec' \in [Workers -> Execution \cup {Idle}]
    BY <1>1 DEF IInv, Typed
  <2>3. It(w) \in Runs /\ run[It(w)].status # "none"
    BY <1>1, Executing
  <2>4. ClaimPasses /\ spent' \in [Runs -> BOOLEAN] /\ listed' \subseteq Runs
    BY <1>1 DEF ClaimPasses
  <2> QED
    BY <2>1, <2>2, <2>3, <2>4, Terminalized
<1>2. CASE ~(Holds(w) /\ (Row(w).cancel \/ ~exec[w].aborted))
  BY <1>2, LeaveRight
<1> QED
  BY <1>1, <1>2

(* Every step of a handler is right. *)
LEMMA HandlesRight ==
  ASSUME IInv, NEW w \in Workers, Handles(w)
  PROVE  Right
<1>1. CASE Begin(w)
  BY <1>1, StepQuiet DEF Begin, At, Phases
<1>2. CASE Complete(w)
  BY <1>2, StepQuiet DEF Complete, At, Phases
<1>3. CASE Stop(w)
  BY <1>3, StepQuiet DEF Stop, Phases
<1>4. CASE Rethrow(w)
  BY <1>4, LeaveRight DEF Rethrow, At
<1> QED
  BY <1>1, <1>2, <1>3, <1>4, DispatchRight, MarkRight, PersistRight, ResumeRight, ClearRight,
     SettlingRight, ReportRight DEF Handles

---------------------------------------------------------------------------
(* Faults, time and maintenance. *)

(* Errors, aborted signals and crashes are right wherever they come. *)
LEMMA FaultsRight ==
  ASSUME IInv, NEW w \in Workers, Throw(w) \/ Abort(w) \/ Crash(w)
  PROVE  Right
<1> USE UnchangedTypes
<1>1. CASE Throw(w)
  <2>1. exec[w] # Idle /\ \E phase \in Phases : Goes(w, phase)
    BY <1>1 DEF Throw, Phases
  <2>2. exec' \in [Workers -> Execution \cup {Idle}]
    BY <2>1, GoesType
  <2> QED
    BY <1>1, <2>2, QuietStep DEF Throw, ClaimPasses
<1>2. CASE Abort(w)
  <2>1. exec[w] \in Execution /\ exec' = [exec EXCEPT ![w] = [exec[w] EXCEPT !.aborted = TRUE]]
    BY <1>2, Executing DEF Abort
  <2>2. [exec[w] EXCEPT !.aborted = TRUE] \in Execution
    BY <2>1 DEF Execution
  <2>3. exec' \in [Workers -> Execution \cup {Idle}]
    BY <2>1, <2>2 DEF IInv, Typed
  <2> QED
    BY <1>2, <2>3, QuietStep DEF Abort, ClaimPasses
<1>3. CASE Crash(w)
  BY <1>3, LeaveRight, QuietStep DEF Crash, ClaimPasses
<1> QED
  BY <1>1, <1>2, <1>3

(* Any lease may lapse. *)
LEMMA LapseRight ==
  ASSUME IInv, NEW r \in Runs, Lapse(r)
  PROVE  Right
<1>0. run[r] \in Run /\ hold[r] \in Hold /\ Sound(run[r], hold[r])
  BY DEF IInv, Typed
<1> DEFINE x == [run[r] EXCEPT !.lapsed = TRUE]
<1>1. /\ x \in Run /\ x.status = run[r].status /\ x.holder = run[r].holder
      /\ x.attempts = run[r].attempts /\ x.side = run[r].side
  BY <1>0 DEF Run
<1>2. run' = [run EXCEPT ![r] = x] /\ hold' = [hold EXCEPT ![r] = hold[r]]
  BY DEF Lapse, IInv, Typed
<1> HIDE DEF x
<1>3. run'[r] = x /\ hold'[r] = hold[r] => Gentle(r)
  BY <1>0, <1>1 DEF Gentle, Sound
<1> QED
  BY <1>2, <1>3, UnchangedTypes, RunStep DEF Lapse, ClaimPasses

(* The expiry of a reservation alone changes nothing. *)
LEMMA ExpireRight ==
  ASSUME IInv, NEW r \in Runs, Expire(r)
  PROVE  Right
<1>0. run[r] \in Run /\ hold[r] \in Hold /\ Sound(run[r], hold[r])
  BY DEF IInv, Typed
<1> DEFINE h == [hold[r] EXCEPT !.expired = TRUE]
<1>1. h \in Hold /\ h.status = hold[r].status /\ h.pending = hold[r].pending
  BY <1>0 DEF Hold
<1>2. run' = [run EXCEPT ![r] = run[r]] /\ hold' = [hold EXCEPT ![r] = h]
  BY DEF Expire, IInv, Typed
<1> HIDE DEF h
<1>3. run'[r] = run[r] /\ hold'[r] = h => Gentle(r)
  BY <1>0, <1>1 DEF Gentle, Sound
<1> QED
  BY <1>2, <1>3, UnchangedTypes, RunStep DEF Expire, ClaimPasses

(* The maintenance releases no reservation with a pending settlement. *)
LEMMA ReleaseRight ==
  ASSUME IInv, NEW r \in Runs, ReleaseReservation(r)
  PROVE  Right
<1>0. run[r] \in Run /\ hold[r] \in Hold /\ Sound(run[r], hold[r])
  BY DEF IInv, Typed
<1> DEFINE h == [status |-> "released", pending |-> FALSE, expired |-> FALSE]
<1>1. listed' \subseteq Runs
  BY DEF ReleaseReservation, IInv, Typed
<1>2. CASE Releasable(r)
  <2>1. h \in Hold
    BY DEF Hold
  <2>2. run' = [run EXCEPT ![r] = run[r]] /\ hold' = [hold EXCEPT ![r] = h]
    BY <1>2 DEF ReleaseReservation, IInv, Typed
  <2>3. run'[r] = run[r] /\ hold'[r] = h => Gentle(r)
    BY <1>0, <1>2, <2>1 DEF Gentle, Sound, Releasable
  <2>4. /\ ClaimPasses /\ spent' \in [Runs -> BOOLEAN]
        /\ exec' \in [Workers -> Execution \cup {Idle}]
    BY UnchangedTypes DEF ReleaseReservation, ClaimPasses
  <2> HIDE DEF h
  <2> QED
    BY <1>1, <2>2, <2>3, <2>4, RunStep
<1>3. CASE ~Releasable(r)
  BY <1>1, <1>3, UnchangedTypes, QuietStep DEF ReleaseReservation, ClaimPasses
<1> QED
  BY <1>2, <1>3

(* Listing expired reservations changes no row. *)
LEMMA ListRight ==
  ASSUME IInv, ListExpiredReservations
  PROVE  Right
<1>1. listed' \subseteq Runs
  BY DEF ListExpiredReservations
<1> QED
  BY <1>1, UnchangedTypes, QuietStep DEF ListExpiredReservations, ClaimPasses

(* Recovery leaves quarantined runs, ends those with a side effect and requeues the rest. *)
LEMMA RecoverRight ==
  ASSUME IInv, RecoverRuns
  PROVE  Right
<1>1. ASSUME NEW r \in Runs PROVE Gentle(r)
  <2>0. run[r] \in Run /\ hold[r] \in Hold /\ Sound(run[r], hold[r])
    BY DEF IInv, Typed
  <2>1. /\ run'[r] = IF Recoverable(r) THEN Recovered(r) ELSE run[r]
        /\ hold'[r] = IF Recoverable(r) /\ Recovered(r).status \in Ended
                      THEN Reconciled(r) ELSE hold[r]
    BY DEF RecoverRuns
  <2>2. CASE ~Recoverable(r)
    BY <2>1, <2>2, SameRun
  <2>3. CASE Recoverable(r) /\ (run[r].cancel \/ run[r].side)
    <3>1. PICK status \in Ended : Recovered(r) = EndedRun(run[r], status)
      BY <2>3 DEF Recovered, Ended
    <3>2. run[r].status # "none"
      BY <2>3 DEF Recoverable, Leased
    <3>3. Recovered(r).status \in Ended
      BY <3>1, <3>2, EndedRunIsSound
    <3> QED
      BY <2>1, <2>3, <3>1, <3>2, <3>3, EndIsGentle
  <2>4. CASE Recoverable(r) /\ ~run[r].cancel /\ ~run[r].side
    <3>1. ~hold[r].pending /\ run[r].status \in {"running", "awaiting"}
      BY <2>0, <2>4 DEF Recoverable, Pending, Leased, Sound
    <3> DEFINE x == Recovered(r)
    <3>2. /\ x \in Run /\ x.holder = Nobody /\ x.attempts = run[r].attempts
          /\ x.side = run[r].side
          /\ x.status \in {"queued", "awaiting"}
      BY <2>0, <2>4, <3>1 DEF Recovered, Run, Waiting
    <3>3. run'[r] = x /\ hold'[r] = hold[r]
      BY <2>1, <2>4, <3>2 DEF Ended
    <3> HIDE DEF x
    <3>4. Sound(x, hold[r])
      BY <2>0, <2>4, <3>1, <3>2, NamesAssumption DEF Sound, Ended
    <3> QED
      BY <3>1, <3>2, <3>3, <3>4, NamesAssumption DEF Gentle
  <2> QED
    BY <2>2, <2>3, <2>4
<1>2. Typed'
  <2>1. \A r \in Runs : run'[r] \in Run /\ hold'[r] \in Hold
    BY <1>1 DEF Gentle, Sound
  <2>2. /\ run' = [r \in Runs |-> run'[r]] /\ hold' = [r \in Runs |-> hold'[r]]
    BY DEF RecoverRuns
  <2>3. run' \in [Runs -> Run] /\ hold' \in [Runs -> Hold]
    BY <2>1, <2>2
  <2> QED
    BY <2>3, UnchangedTypes DEF Typed, RecoverRuns
<1> QED
  BY <1>1, <1>2, GentleStep DEF RecoverRuns, ClaimPasses

---------------------------------------------------------------------------
(* Claims. *)

(* The candidates a claim reads are not quarantined. *)
LEMMA ReadRight ==
  ASSUME IInv, NEW w \in Workers, ReadCandidates(w)
  PROVE  Right
<1> DEFINE c == [worker |-> w, rows |-> run, candidates |-> Candidates,
                 active |-> ActiveLeases, moved |-> {}]
<1>1. claim' = c /\ run' = run /\ hold' = hold /\ spent' = spent /\ exec' = exec /\ listed' = listed
  BY DEF ReadCandidates
<1>2. c \in OpenClaims
  BY DEF OpenClaims, Candidates, ActiveLeases, IInv, Typed
<1>3. c.candidates = Candidates /\ c.rows = run
  OBVIOUS
<1>4. ASSUME NEW r \in Candidates
      PROVE  r \in Runs /\ Read(run[r]) /\ ~hold[r].pending /\ run[r].status # "none"
  <2>1. Sound(run[r], hold[r]) /\ r \in Runs
    BY DEF IInv, Candidates
  <2> QED
    BY <2>1, NamesAssumption DEF Candidates, Leased, Pending, Read, Sound
<1> HIDE DEF c
<1>5. ClaimStands'
  BY <1>1, <1>2, <1>3, <1>4 DEF ClaimStands
<1>6. IInv'
  BY <1>1, <1>5 DEF IInv, Typed
<1>7. ASSUME NEW r \in Runs PROVE Keeps(r) /\ NoReplay(r)
  <2>1. Gentle(r) /\ run[r].attempts \in Nat
    BY <1>1, SameRun, Numbers DEF IInv, Sound, Run
  <2> QED
    BY <1>1, <2>1 DEF Keeps, NoReplay, Gentle, Pending
<1> QED
  BY <1>6, <1>7 DEF Right

(* A row as it is when its claim takes it. *)
LEMMA TakenIsSound ==
  ASSUME IInv, claim # NoClaim, NEW r \in Takeable
  PROVE  /\ Sound(Claimed(r, claim.worker), hold[r]) /\ ~hold[r].pending
         /\ Claimed(r, claim.worker).attempts > run[r].attempts => ~claim.rows[r].side
<1> DEFINE x == Claimed(r, claim.worker)
           y == Seen(r)
<1>1. /\ r \in claim.candidates /\ r \in Runs
      /\ run[r] \in Run /\ hold[r] \in Hold /\ Sound(run[r], hold[r])
      /\ claim.worker \in Workers
  BY DEF Takeable, Considered, IInv, Typed, ClaimStands, OpenClaims
<1>2. /\ Read(y) /\ y.attempts = run[r].attempts /\ ~hold[r].pending
      /\ run[r].status # "none" /\ y \in Run
  BY <1>1 DEF IInv, ClaimStands, OpenClaims, Seen
<1>3. /\ ~LostSideEffect(r)
      /\ y.attempts >= MaxAttempts => y.status = "awaiting" \/ Resumes(r)
  BY DEF Takeable, Takes, EndedBy, Skipped, Exhausted
<1>4. Resumes(r) => y.status = "running"
  BY DEF Resumes
<1> DEFINE n == IF y.status = "awaiting" \/ Resumes(r) THEN y.attempts ELSE y.attempts + 1
           s == IF y.status = "awaiting" THEN "awaiting" ELSE "running"
<1>5. n \in 0..MaxAttempts /\ n > 0
  BY <1>1, <1>2, <1>3, <1>4, Numbers DEF Run, Read
<1>6. s \in {"running", "awaiting"}
  OBVIOUS
<1>7. n > run[r].attempts => ~y.side
  BY <1>1, <1>2, <1>3 DEF Run, Read, LostSideEffect
<1>8. x = [run[r] EXCEPT !.status = s, !.attempts = n, !.holder = claim.worker, !.lapsed = FALSE]
  BY DEF Claimed
<1> HIDE DEF n, s, x
<1>9. /\ x \in Run /\ x.status = s /\ x.attempts = n /\ x.holder = claim.worker /\ ~x.lapsed
  BY <1>1, <1>5, <1>6, <1>8 DEF Run, Waiting
<1>10. Sound(x, hold[r])
  BY <1>1, <1>2, <1>5, <1>6, <1>9, NamesAssumption DEF Sound, Ended
<1> QED
  BY <1>2, <1>7, <1>9, <1>10 DEF x, Seen

(* The walk through the candidates ends some and takes at most what it may take. *)
LEMMA WalkIsRight ==
  ASSUME IInv, claim # NoClaim, NEW ahead \in SUBSET Considered,
         NEW taken \in SUBSET Takeable,
         Walk(ahead, taken), claim' = NoClaim, UNCHANGED <<spent, listed>>,
         exec' \in [Workers -> Execution \cup {Idle}]
  PROVE  Right
<1>1. ASSUME NEW r \in Runs
      PROVE  Sound(run'[r], hold'[r]) /\ Keeps(r) /\ NoReplay(r)
  <2> DEFINE ended == r \in ahead /\ EndedBy(r) # "none"
  <2>1. /\ run'[r] = IF ended THEN EndedRun(run[r], EndedBy(r))
                     ELSE IF r \in taken THEN Claimed(r, claim.worker) ELSE run[r]
        /\ hold'[r] = IF ended THEN Reconciled(r) ELSE hold[r]
    BY DEF Walk
  <2>2. run[r].attempts \in Nat /\ (hold[r].pending => hold[r].status = "reserved")
    BY Numbers DEF IInv, Sound, Run
  <2>3. ASSUME Gentle(r)
        PROVE  Sound(run'[r], hold'[r]) /\ Keeps(r) /\ NoReplay(r)
    BY <2>2, <2>3 DEF Gentle, Keeps, NoReplay, Pending, Sound
  <2>4. CASE ended
    <3>1. EndedBy(r) \in Ended
      BY <2>4 DEF EndedBy, Ended
    <3>2. run[r].status # "none"
      BY <2>4 DEF Considered, IInv, ClaimStands
    <3> QED
      BY <2>1, <2>3, <2>4, <3>1, <3>2, EndIsGentle
  <2>5. CASE ~ended /\ r \in taken
    BY <2>1, <2>5, TakenIsSound DEF Keeps, NoReplay, Pending
  <2>6. CASE ~ended /\ r \notin taken
    BY <2>1, <2>3, <2>6, SameRun
  <2> QED
    BY <2>4, <2>5, <2>6
<1>2. Typed'
  <2>1. \A r \in Runs : run'[r] \in Run /\ hold'[r] \in Hold
    BY <1>1 DEF Sound
  <2>2. /\ run' = [r \in Runs |-> run'[r]] /\ hold' = [r \in Runs |-> hold'[r]]
    BY DEF Walk
  <2>3. run' \in [Runs -> Run] /\ hold' \in [Runs -> Hold]
    BY <2>1, <2>2
  <2> QED
    BY <2>3, UnchangedTypes DEF Typed
<1> QED
  BY <1>1, <1>2 DEF Right, IInv, ClaimStands

(* Every step of a claim is right. *)
LEMMA ClaimsRight ==
  ASSUME IInv, NEW w \in Workers, Claims(w)
  PROVE  Right
<1>1. ASSUME NEW r \in Runs, TakeCandidate(w, r) PROVE Right
  <2>1. PICK ahead \in SUBSET {q \in Considered : ~Takes(q) /\ ~Throws(q)} : Walk(ahead, {r})
    BY <1>1 DEF TakeCandidate
  <2>2. [run |-> r, phase |-> "start", ready |-> FALSE, aborted |-> FALSE] \in Execution
    BY DEF Execution, Phases
  <2>3. exec' \in [Workers -> Execution \cup {Idle}]
    BY <1>1, <2>2 DEF TakeCandidate, IInv, Typed
  <2>4. ahead \in SUBSET Considered /\ {r} \in SUBSET Takeable
    BY <1>1 DEF TakeCandidate
  <2> QED
    BY <1>1, <2>1, <2>3, <2>4, WalkIsRight DEF TakeCandidate
<1>2. CASE TakeNothing(w)
  <2>1. exec' \in [Workers -> Execution \cup {Idle}]
    BY <1>2, UnchangedTypes DEF TakeNothing
  <2>2. CASE Walk(Considered, {})
    BY <1>2, <2>1, <2>2, WalkIsRight DEF TakeNothing
  <2>3. CASE UNCHANGED <<run, hold>>
    BY <1>2, <2>1, <2>3, UnchangedTypes, QuietStep DEF TakeNothing, ClaimPasses
  <2> QED
    BY <1>2, <2>2, <2>3 DEF TakeNothing
<1> QED
  BY <1>1, <1>2, ReadRight DEF Claims

---------------------------------------------------------------------------
(* Every step is right. *)
LEMMA EveryStepIsRight ==
  ASSUME IInv, [Next]_vars
  PROVE  Right
<1>1. CASE UNCHANGED vars
  BY <1>1, UnchangedTypes, QuietStep DEF vars, ClaimPasses
<1>2. CASE Users
  BY <1>2, UsersRight DEF Users
<1>3. CASE Faults
  BY <1>3, FaultsRight, LapseRight DEF Faults, Stall
<1>4. CASE Maintenance
  BY <1>4, RecoverRight, ListRight, ReleaseRight DEF Maintenance
<1>5. ASSUME NEW w \in Workers, Claims(w) \/ Handles(w) \/ Heartbeat(w) \/ AppendAgentEvent(w)
      PROVE  Right
  BY <1>5, ClaimsRight, HandlesRight, HeartbeatRight, AppendRight
<1>6. ASSUME NEW r \in Runs, LeaseLapses(r) \/ Expire(r)
      PROVE  Right
  BY <1>6, LapseRight, ExpireRight DEF LeaseLapses
<1> QED
  BY <1>1, <1>2, <1>3, <1>4, <1>5, <1>6 DEF Next

(* The invariant holds in every reachable state. *)
THEOREM Invariant == Spec => []IInv
<1>1. IInv /\ [Next]_vars => IInv'
  BY EveryStepIsRight DEF Right
<1> QED
  BY <1>1, InitInvariant, PTL DEF Spec

(* The rows hold what their columns allow, attempts stay within their        *)
(* maximum, and a running row has a lease.                                   *)
THEOREM TypeCorrect == Spec => []TypeOK
<1>1. IInv => TypeOK
  BY Implied
<1> QED
  BY <1>1, Invariant, PTL

(* No run ends with its reservation still held, whoever ends it.             *)
THEOREM EndedRunsHoldNothing == Spec => []EndedRunHoldsNothing
<1>1. IInv => EndedRunHoldsNothing
  BY Implied
<1> QED
  BY <1>1, Invariant, PTL

(* A run whose settlement is pending is not executed again, and what it used *)
(* stays recorded, or is consumed.                                           *)
THEOREM QuarantinesAreKept == Spec => QuarantineIsKept
<1>1. IInv /\ [Next]_vars =>
        [\A r \in Runs : Pending(r) =>
           /\ run'[r].attempts = run[r].attempts /\ run'[r].status # "queued"
           /\ Pending(r)' \/ hold'[r].status = "consumed"]_vars
  BY EveryStepIsRight DEF Right, Keeps
<1>2. QuarantineIsKept <=>
        [][\A r \in Runs : Pending(r) =>
             /\ run'[r].attempts = run[r].attempts /\ run'[r].status # "queued"
             /\ Pending(r)' \/ hold'[r].status = "consumed"]_vars
  BY PTL DEF QuarantineIsKept
<1> QED
  BY <1>1, <1>2, Invariant, PTL DEF Spec

(* A run whose side effects had begun when the claim read it is not          *)
(* attempted again, however often it was recovered, suspended or resumed     *)
(* since.                                                                    *)
THEOREM KnownSideEffectsAreNotReplayed == Spec => NoReplayOfKnownSideEffects
<1>1. IInv /\ [Next]_vars =>
        [\A r \in Runs : run'[r].attempts > run[r].attempts =>
           claim # NoClaim /\ ~claim.rows[r].side]_vars
  BY EveryStepIsRight DEF Right, NoReplay
<1>2. NoReplayOfKnownSideEffects <=>
        [][\A r \in Runs : run'[r].attempts > run[r].attempts =>
             claim # NoClaim /\ ~claim.rows[r].side]_vars
  BY PTL DEF NoReplayOfKnownSideEffects
<1> QED
  BY <1>1, <1>2, Invariant, PTL DEF Spec
=============================================================================
