------------------------ MODULE CronSchedulerProofs ------------------------
(***************************************************************************)
(* TLAPS proofs about CronScheduler, for every set of jobs, schedules and  *)
(* slots and every bound on time.                                          *)
(***************************************************************************)
EXTENDS CronScheduler, SequenceFacts, FiniteSetTheorems, TLAPS

-----------------------------------------------------------------------------
(* compute_next_run.                                                       *)

\* The earliest instant of a set of instants is one of them.
LEMMA EarliestFacts ==
    ASSUME NEW S \in SUBSET Nat, S # {}
    PROVE  Earliest(S) \in S /\ \A u \in S : Earliest(S) <= u
  <1>1. \E t \in S : \A u \in S : t <= u
    BY LeastNumber
  <1> QED BY <1>1 DEF Earliest

\* The anchored period that contains t ends after t, and not before the period
\* that contains an earlier instant.
LEMMA PeriodFacts ==
    ASSUME NEW n \in Nat \ {0}, NEW t \in Nat
    PROVE  /\ t \div n \in Nat
           /\ (t \div n + 1) * n \in Nat
           /\ (t \div n + 1) * n > t
           /\ (t \div n) * n <= t
  OBVIOUS

\* A later instant is in the same period or in a later one.
LEMMA PeriodsGrow ==
    ASSUME NEW n \in Nat \ {0}, NEW t \in Nat, NEW u \in Nat, t <= u
    PROVE  (t \div n + 1) * n <= (u \div n + 1) * n
  <1> DEFINE p == t \div n
             q == u \div n
  <1>1. /\ p \in Nat /\ q \in Nat
        /\ p * n <= t /\ (q + 1) * n > u
    BY PeriodFacts
  <1> HIDE DEF p, q
  <1>2. p <= q
    <2>1. ASSUME p > q PROVE FALSE
      <3>1. p >= q + 1
        BY <2>1, <1>1
      <3>2. p * n >= (q + 1) * n
        BY <3>1, <1>1
      <3> QED BY <3>2, <1>1
    <2> QED BY <2>1, <1>1
  <1>3. (p + 1) * n <= (q + 1) * n
    BY <1>1, <1>2
  <1> QED BY <1>3 DEF p, q

\* A next run is an instant after the present one, or none.
LEMMA NextRunFacts ==
    ASSUME NEW s \in Schedules, NEW t \in Nat
    PROVE  /\ NextRun(s, t) \in Nat \cup {None}
           /\ NextRun(s, t) # None => NextRun(s, t) > t
  <1>0. s \in Schedule /\ None \notin Nat
    BY CronAssumption
  <1>1. CASE s \in [kind : {"at"}, at : Nat]
    BY <1>0, <1>1 DEF NextRun
  <1>2. CASE s \in [kind : {"every"}, every : Nat \ {0}, anchor : Nat \cup {None}]
    <2>1. s.kind = "every" /\ s.every \in Nat \ {0} /\ s.anchor \in Nat \cup {None}
      BY <1>2
    <2>2. NextRun(s, t) = IF s.anchor = None THEN t + s.every
             ELSE IF s.anchor > t THEN s.anchor
             ELSE s.anchor + ((t - s.anchor) \div s.every + 1) * s.every
      BY <2>1 DEF NextRun
    <2>3. CASE s.anchor = None
      BY <2>1, <2>2, <2>3, <1>0
    <2>4. CASE s.anchor # None /\ s.anchor > t
      BY <2>1, <2>2, <2>4, <1>0
    <2>5. CASE s.anchor # None /\ ~(s.anchor > t)
      <3> DEFINE d == t - s.anchor
                 e == (d \div s.every + 1) * s.every
      <3>1. d \in Nat
        BY <2>1, <2>5
      <3> HIDE DEF d
      <3>2. e \in Nat /\ e > d
        BY <3>1, <2>1, PeriodFacts
      <3> HIDE DEF e
      <3>3. NextRun(s, t) = s.anchor + e
        BY <2>2, <2>5 DEF e, d
      <3> QED BY <3>1, <3>2, <3>3, <2>1, <2>5, <1>0 DEF d
    <2> QED BY <2>3, <2>4, <2>5
  <1>3. CASE s \in [kind : {"cron"}, times : SUBSET Nat]
    <2> DEFINE later == {u \in s.times : u > t}
    <2>1. s.kind = "cron" /\ later \in SUBSET Nat
      BY <1>3
    <2>2. NextRun(s, t) = IF later = {} THEN None ELSE Earliest(later)
      BY <2>1 DEF NextRun
    <2>3. CASE later = {}
      BY <2>2, <2>3
    <2>4. CASE later # {}
      <3>1. Earliest(later) \in later
        BY <2>1, <2>4, EarliestFacts
      <3> QED BY <3>1, <2>1, <2>2, <2>4
    <2> QED BY <2>3, <2>4
  <1>4. CASE s \in [kind : {"bad"}]
    BY <1>4 DEF NextRun
  <1> QED BY <1>0, <1>1, <1>2, <1>3, <1>4 DEF Schedule

\* One start is not later than another; None is never.
NotAfter(a, b) == b = None \/ (a # None /\ a <= b)

\* As time passes a schedule's next run moves back, or goes for good.
LEMMA NextRunGrows ==
    ASSUME NEW s \in Schedules, NEW t \in Nat, NEW u \in Nat, t <= u
    PROVE  NotAfter(NextRun(s, t), NextRun(s, u))
  <1>0. s \in Schedule /\ None \notin Nat
    BY CronAssumption
  <1>1. CASE s \in [kind : {"at"}, at : Nat]
    BY <1>0, <1>1 DEF NextRun, NotAfter
  <1>2. CASE s \in [kind : {"every"}, every : Nat \ {0}, anchor : Nat \cup {None}]
    <2> DEFINE R(x) == IF s.anchor = None THEN x + s.every
                       ELSE IF s.anchor > x THEN s.anchor
                       ELSE s.anchor + ((x - s.anchor) \div s.every + 1) * s.every
    <2>1. s.kind = "every" /\ s.every \in Nat \ {0} /\ s.anchor \in Nat \cup {None}
      BY <1>2
    <2>2. NextRun(s, t) = R(t) /\ NextRun(s, u) = R(u)
      BY <2>1 DEF NextRun
    <2>3. CASE s.anchor = None
      BY <2>1, <2>2, <2>3, <1>0 DEF NotAfter
    <2>4. CASE s.anchor # None /\ s.anchor > t
      <3>1. NextRun(s, t) = s.anchor /\ s.anchor \in Nat
        BY <2>1, <2>2, <2>4
      <3>2. CASE s.anchor > u
        <4>1. NextRun(s, u) = s.anchor
          BY <3>2, <2>2, <2>4
        <4> HIDE DEF R
        <4> QED BY <4>1, <3>1, <2>4 DEF NotAfter
      <3>3. CASE ~(s.anchor > u)
        <4>1. NextRun(s, u) \in Nat \cup {None} /\ (NextRun(s, u) # None => NextRun(s, u) > u)
          BY NextRunFacts
        <4> QED BY <4>1, <3>1, <3>3, <2>4 DEF NotAfter
      <3> QED BY <3>2, <3>3
    <2>5. CASE s.anchor # None /\ ~(s.anchor > t)
      <3> DEFINE d == t - s.anchor
                 f == u - s.anchor
                 a == (d \div s.every + 1) * s.every
                 b == (f \div s.every + 1) * s.every
      <3>1. d \in Nat /\ f \in Nat /\ d <= f /\ ~(s.anchor > u) /\ s.anchor \in Nat
        BY <2>1, <2>5
      <3> HIDE DEF d, f
      <3>2. a \in Nat /\ b \in Nat /\ a <= b
        BY <3>1, <2>1, PeriodFacts, PeriodsGrow
      <3> HIDE DEF a, b
      <3>3. NextRun(s, t) = s.anchor + a /\ NextRun(s, u) = s.anchor + b
        BY <2>2, <2>5, <3>1 DEF a, b, d, f
      <3> QED BY <3>1, <3>2, <3>3, <1>0 DEF NotAfter
    <2> QED BY <2>3, <2>4, <2>5
  <1>3. CASE s \in [kind : {"cron"}, times : SUBSET Nat]
    <2> DEFINE P == {x \in s.times : x > t}
               Q == {x \in s.times : x > u}
    <2>1. s.kind = "cron" /\ P \in SUBSET Nat /\ Q \in SUBSET Nat /\ Q \subseteq P
      BY <1>3
    <2>2. /\ NextRun(s, t) = IF P = {} THEN None ELSE Earliest(P)
          /\ NextRun(s, u) = IF Q = {} THEN None ELSE Earliest(Q)
      BY <2>1 DEF NextRun
    <2> HIDE DEF P, Q
    <2>3. CASE Q = {}
      BY <2>2, <2>3 DEF NotAfter
    <2>4. CASE Q # {}
      <3>1. /\ P # {} /\ Earliest(P) \in P /\ \A x \in P : Earliest(P) <= x
            /\ Earliest(Q) \in Q
        BY <2>1, <2>4, EarliestFacts
      <3> QED BY <3>1, <2>1, <2>2, <2>4, <1>0 DEF NotAfter
    <2> QED BY <2>3, <2>4
  <1>4. CASE s \in [kind : {"bad"}]
    BY <1>4 DEF NextRun, NotAfter
  <1> QED BY <1>0, <1>1, <1>2, <1>3, <1>4 DEF Schedule

-----------------------------------------------------------------------------
(* Types.                                                                  *)

Starts == Nat \cup {None}

\* What the steps do to the record of a job keeps it a record of a job.
LEMMA JobTypes ==
    ASSUME NEW r \in JobRecord, NEW s \in Schedules, NEW b \in BOOLEAN, NEW d \in Deletes,
           NEW n \in Starts, NEW a \in Times \cup {None}, NEW l \in Times \cup {None}
    PROVE  /\ [r EXCEPT !.next = n] \in JobRecord
           /\ [r EXCEPT !.runAt = a] \in JobRecord
           /\ [r EXCEPT !.enabled = b] \in JobRecord
           /\ [r EXCEPT !.sched = s, !.enabled = b, !.del = d] \in JobRecord
           /\ [[r EXCEPT !.sched = s, !.enabled = b, !.del = d] EXCEPT !.next = n] \in JobRecord
           /\ [r EXCEPT !.runAt = a, !.last = l, !.next = n] \in JobRecord
           /\ [enabled |-> b, sched |-> s, del |-> d, next |-> n, runAt |-> a, last |-> l]
                 \in JobRecord
  BY DEF JobRecord, Starts

\* And to an execution.
LEMMA ExecTypes ==
    ASSUME NEW e \in Execution, NEW t \in Times, NEW n \in Starts, NEW g \in Stages
    PROVE  /\ [e EXCEPT !.stage = g] \in Execution
           /\ [e EXCEPT !.stage = g, !.started = t] \in Execution
           /\ [e EXCEPT !.stage = g, !.next = n, !.started = t] \in Execution
  BY DEF Execution, Starts

\* An execution that has a stage of its own is not idle.
LEMMA ExecIsOne ==
    ASSUME TypeOK, NEW j \in Jobs, NEW k \in Slots, exec[j][k].stage \in Stages
    PROVE  exec[j][k] \in Execution
  BY DEF TypeOK, Idle, Stages

\* The patches of a job.
LEMMA PatchTypes ==
    ASSUME TypeOK, NEW j \in Jobs, mem[j] # Absent,
           NEW s \in Schedules, NEW b \in BOOLEAN, NEW d \in Deletes
    PROVE  /\ Patched(j, s, b, d) \in JobRecord
           /\ Rescheduled(j, s, b, d) \in JobRecord
  <1>1. mem[j] \in JobRecord /\ now \in Nat
    BY DEF TypeOK, Times
  <1>2. (IF b THEN NextRun(s, now) ELSE None) \in Starts
    BY <1>1, NextRunFacts DEF Starts
  <1>3. None \in Times \cup {None}
    OBVIOUS
  <1> QED BY <1>1, <1>2, <1>3, JobTypes DEF Patched, Rescheduled

\* wake changes no more than the start of the heartbeat and the notification.
LEMMA WakeFacts ==
    ASSUME TypeOK, NEW event \in BOOLEAN, Wake(event)
    PROVE  /\ permit' \in BOOLEAN
           /\ mem' \in [Jobs -> JobRecord \cup {Absent}]
           /\ \/ mem' = mem
              \/ /\ Heartbeat \in Jobs /\ mem[Heartbeat] # Absent
                 /\ mem' = [mem EXCEPT ![Heartbeat].next = now]
                 /\ permit' = TRUE
  <1>1. /\ \/ mem' = mem
           \/ /\ Heartbeat \in Jobs /\ mem[Heartbeat] # Absent
              /\ mem' = [mem EXCEPT ![Heartbeat].next = now]
              /\ permit' = TRUE
        /\ permit' \in {permit, TRUE}
    BY DEF Wake
  <1>2. now \in Starts /\ permit \in BOOLEAN /\ mem \in [Jobs -> JobRecord \cup {Absent}]
    BY DEF TypeOK, Times, Starts
  <1>3. ASSUME Heartbeat \in Jobs, mem[Heartbeat] # Absent,
               mem' = [mem EXCEPT ![Heartbeat].next = now]
        PROVE  mem' \in [Jobs -> JobRecord \cup {Absent}]
    <2>1. mem[Heartbeat] \in JobRecord
      BY <1>2, <1>3
    <2>2. [mem[Heartbeat] EXCEPT !.next = now] \in JobRecord
      BY <2>1, <1>2 DEF JobRecord, Starts
    <2> QED BY <2>2, <1>2, <1>3
  <1> QED BY <1>1, <1>2, <1>3

\* What is left of a settled execution is well typed.
LEMMA AfterTypes ==
    ASSUME TypeOK, NEW j \in Jobs, NEW k \in Slots, exec[j][k].stage \in Stages,
           AfterSettle(j, k)
    PROVE  /\ exec' \in [Jobs -> [Slots -> Execution \cup {Idle}]]
           /\ \A i \in Jobs, l \in Slots : i # j \/ l # k => exec'[i][l] = exec[i][l]
           /\ \/ exec'[j][k] = Idle
              \/ /\ exec'[j][k].stage = "wake"
                 /\ exec'[j][k] = [exec[j][k] EXCEPT !.stage = "wake"]
  <1>1. exec \in [Jobs -> [Slots -> Execution \cup {Idle}]] /\ exec[j][k] \in Execution
    BY ExecIsOne DEF TypeOK
  <1>2. PICK e \in {Idle, [exec[j][k] EXCEPT !.stage = "wake"]} :
           exec' = [exec EXCEPT ![j][k] = e]
    BY DEF AfterSettle
  <1>3. e \in Execution \cup {Idle}
    BY <1>1, <1>2 DEF Execution, Stages
  <1>4. exec' \in [Jobs -> [Slots -> Execution \cup {Idle}]]
    BY <1>1, <1>2, <1>3
  <1>5. /\ \A i \in Jobs, l \in Slots : i # j \/ l # k => exec'[i][l] = exec[i][l]
        /\ exec'[j][k] = e
    BY <1>1, <1>2
  <1>6. [exec[j][k] EXCEPT !.stage = "wake"].stage = "wake"
    BY <1>1 DEF Execution
  <1> QED BY <1>2, <1>4, <1>5, <1>6

\* The functions of the state with one entry replaced.
LEMMA Entries ==
    ASSUME TypeOK, NEW j \in Jobs, NEW k \in Slots,
           NEW r \in JobRecord \cup {Absent}, NEW e \in Execution \cup {Idle},
           NEW p \in {"none", "adding", "removing"}
    PROVE  /\ [mem EXCEPT ![j] = r] \in [Jobs -> JobRecord \cup {Absent}]
           /\ [disk EXCEPT ![j] = r] \in [Jobs -> JobRecord \cup {Absent}]
           /\ [pending EXCEPT ![j] = p] \in [Jobs -> {"none", "adding", "removing"}]
           /\ [exec EXCEPT ![j][k] = e] \in [Jobs -> [Slots -> Execution \cup {Idle}]]
  BY DEF TypeOK

\* A job that is in the list, or in the store, has a record.
LEMMA Recorded ==
    ASSUME TypeOK, NEW j \in Jobs
    PROVE  /\ mem[j] # Absent => mem[j] \in JobRecord
           /\ disk[j] # Absent => disk[j] \in JobRecord
           /\ now \in Nat /\ now \in Times /\ now \in Starts
  BY DEF TypeOK, Times, Starts

\* The steps of the process and of the timer keep the types.
LEMMA TimerTypes ==
    ASSUME TypeOK, Tick \/ Start \/ Stop \/ Crash \/ CommandCompleted \/ TimerStep
    PROVE  TypeOK'
  <1> USE CronAssumption
  <1>1. CASE Tick
    BY <1>1 DEF Tick, TypeOK, Times
  <1>2. CASE Start
    <2>1. ASSUME NEW j \in Jobs
          PROVE  (IF disk[j] # Absent /\ disk[j].enabled
                  THEN [disk[j] EXCEPT !.next = NextRun(disk[j].sched, now)]
                  ELSE disk[j]) \in JobRecord \cup {Absent}
      <3>1. CASE disk[j] # Absent /\ disk[j].enabled
        <4>1. disk[j] \in JobRecord /\ now \in Nat
          BY <3>1, Recorded
        <4>2. disk[j].sched \in Schedules
          BY <4>1 DEF JobRecord
        <4>3. NextRun(disk[j].sched, now) \in Starts
          BY <4>1, <4>2, NextRunFacts DEF Starts
        <4>4. [disk[j] EXCEPT !.next = NextRun(disk[j].sched, now)] \in JobRecord
          BY <4>1, <4>3 DEF JobRecord, Starts
        <4> QED BY <4>4, <3>1
      <3>2. CASE ~(disk[j] # Absent /\ disk[j].enabled)
        BY <3>2 DEF TypeOK
      <3> QED BY <3>1, <3>2
    <2>2. mem' \in [Jobs -> JobRecord \cup {Absent}]
      BY <1>2, <2>1 DEF Start
    <2>3. timer' \in [pc : {"off", "look", "asleep", "process", "stuck"}, until : Nat]
      BY <1>2 DEF Start, Awake
    <2> QED BY <1>2, <2>2, <2>3 DEF Start, TypeOK
  <1>3. CASE Stop
    BY <1>3 DEF Stop, TypeOK, Awake
  <1>4. CASE Crash
    BY <1>4 DEF Crash, TypeOK, Awake
  <1>5. CASE CommandCompleted
    <2>1. Wake(TRUE)
      BY <1>5 DEF CommandCompleted
    <2>2. permit' \in BOOLEAN /\ mem' \in [Jobs -> JobRecord \cup {Absent}]
      BY <2>1, WakeFacts
    <2> QED BY <1>5, <2>2 DEF CommandCompleted, TypeOK
  <1>6. CASE Look
    <2> DEFINE starts == {mem[j].next : j \in {i \in Jobs :
                             mem[i] # Absent /\ mem[i].enabled /\ mem[i].next # None}}
               until == IF starts = {} THEN now + Poll ELSE Earliest(starts)
    <2>1. starts \in SUBSET Nat
      BY DEF TypeOK, JobRecord
    <2>2. until \in Nat
      <3>0. now + Poll \in Nat
        BY DEF TypeOK, Times
      <3> HIDE DEF starts
      <3>1. CASE starts = {}
        BY <3>0, <3>1
      <3>2. CASE starts # {}
        <4>1. Earliest(starts) \in starts
          BY <2>1, <3>2, EarliestFacts
        <4> QED BY <4>1, <2>1, <3>2
      <3> QED BY <3>1, <3>2
    <2>3. timer' = IF until <= now THEN Awake("process") ELSE [pc |-> "asleep", until |-> until]
      BY <1>6 DEF Look
    <2> HIDE DEF until
    <2>4. timer' \in [pc : {"off", "look", "asleep", "process", "stuck"}, until : Nat]
      BY <2>2, <2>3 DEF Awake
    <2> QED BY <1>6, <2>4 DEF Look, TypeOK
  <1>7. CASE Notified
    BY <1>7 DEF Notified, TypeOK, Awake
  <1>8. CASE Expired
    BY <1>8 DEF Expired, TypeOK, Awake
  <1>9. CASE Process
    <2> DEFINE due == {j \in Jobs : Due(j) /\ mem[j].runAt = None}
    <2>1. ASSUME NEW j \in Jobs
          PROVE  (IF j \in due THEN [mem[j] EXCEPT !.runAt = now] ELSE mem[j])
                    \in JobRecord \cup {Absent}
      <3>1. CASE j \in due
        <4>1. mem[j] \in JobRecord /\ now \in Times
          BY <3>1, Recorded DEF Due
        <4> QED BY <4>1, <3>1 DEF JobRecord
      <3>2. CASE j \notin due
        BY <3>2 DEF TypeOK
      <3> QED BY <3>1, <3>2
    <2>2. ASSUME NEW j \in Jobs
          PROVE  (IF j \in due
                  THEN [exec[j] EXCEPT ![CHOOSE k \in Free(j) : TRUE] = Clone(j, "running")]
                  ELSE exec[j]) \in [Slots -> Execution \cup {Idle}]
      <3>1. CASE j \in due
        <4>1. mem[j] \in JobRecord /\ now \in Times
          BY <3>1, Recorded DEF Due
        <4>2. Clone(j, "running") \in Execution
          BY <4>1 DEF Clone, Execution, JobRecord, Stages
        <4> QED BY <4>2, <3>1 DEF TypeOK
      <3>2. CASE j \notin due
        BY <3>2 DEF TypeOK
      <3> QED BY <3>1, <3>2
    <2>3. /\ mem' = [j \in Jobs |-> IF j \in due THEN [mem[j] EXCEPT !.runAt = now] ELSE mem[j]]
          /\ exec' = [j \in Jobs |->
                      IF j \in due
                      THEN [exec[j] EXCEPT ![CHOOSE k \in Free(j) : TRUE] = Clone(j, "running")]
                      ELSE exec[j]]
          /\ timer' = Awake("stuck")
          /\ UNCHANGED <<now, up, disk, ran, created, pending, dirty, permit>>
      BY <1>9 DEF Process
    <2> HIDE DEF due
    <2>4. mem' \in [Jobs -> JobRecord \cup {Absent}]
      BY <2>1, <2>3
    <2>5. exec' \in [Jobs -> [Slots -> Execution \cup {Idle}]]
      BY <2>2, <2>3
    <2> QED BY <2>3, <2>4, <2>5 DEF TypeOK, Awake
  <1>10. CASE ClearStuck
    <2>1. ASSUME NEW j \in Jobs
          PROVE  (IF mem[j] # Absent /\ mem[j].runAt # None /\ now - mem[j].runAt > Stuck
                  THEN [mem[j] EXCEPT !.runAt = None] ELSE mem[j]) \in JobRecord \cup {Absent}
      BY DEF TypeOK, JobRecord
    <2>2. mem' \in [Jobs -> JobRecord \cup {Absent}]
      BY <1>10, <2>1 DEF ClearStuck
    <2> QED BY <1>10, <2>2 DEF ClearStuck, TypeOK, Awake
  <1> QED BY <1>1, <1>2, <1>3, <1>4, <1>5, <1>6, <1>7, <1>8, <1>9, <1>10 DEF TimerStep

\* The calls of users keep the types.
LEMMA UserTypes ==
    ASSUME TypeOK, NEW j \in Jobs, UserStep(j) \/ CallStep(j)
    PROVE  TypeOK'
  <1> USE CronAssumption
  <1> DEFINE J == JobRecord \cup {Absent}
  <1>0. /\ mem \in [Jobs -> J] /\ disk \in [Jobs -> J] /\ mem[j] \in J /\ disk[j] \in J
        /\ now \in Nat /\ pending \in [Jobs -> {"none", "adding", "removing"}]
    BY DEF TypeOK, Times
  <1>1. ASSUME NEW s \in Schedules, NEW enabled \in BOOLEAN, NEW del \in Deletes,
               AddSave(j, s, enabled, del)
        PROVE  TypeOK'
    <2> DEFINE n == IF enabled THEN NextRun(s, now) ELSE None
               r == [enabled |-> enabled, sched |-> s, del |-> del, next |-> n,
                     runAt |-> None, last |-> None]
    <2>1. n \in Starts
      BY <1>0, NextRunFacts DEF Starts
    <2>2. disk' = [disk EXCEPT ![j] = r]
      BY <1>1 DEF AddSave
    <2> HIDE DEF n
    <2>3. r \in JobRecord
      BY <2>1 DEF JobRecord, Starts
    <2> HIDE DEF r
    <2>4. disk' \in [Jobs -> J]
      BY <2>2, <2>3, <1>0
    <2> QED BY <1>1, <2>4, <1>0 DEF AddSave, TypeOK
  <1>2. ASSUME NEW s \in Schedules, NEW enabled \in BOOLEAN, NEW del \in Deletes,
               Update(j, s, enabled, del)
        PROVE  TypeOK'
    <2>1. Rescheduled(j, s, enabled, del) \in JobRecord
      BY <1>2, PatchTypes DEF Update
    <2>2. mem' \in [Jobs -> J] /\ disk' \in [Jobs -> J]
      BY <1>2, <2>1, <1>0 DEF Update
    <2> QED BY <1>2, <2>2 DEF Update, TypeOK
  <1>3. ASSUME NEW s \in Schedules, NEW enabled \in BOOLEAN, NEW del \in Deletes,
               RejectUpdate(j, s, enabled, del)
        PROVE  TypeOK'
    <2>1. Patched(j, s, enabled, del) \in JobRecord
      BY <1>3, PatchTypes DEF RejectUpdate
    <2>2. mem' \in [Jobs -> J]
      BY <1>3, <2>1, <1>0 DEF RejectUpdate
    <2> QED BY <1>3, <2>2 DEF RejectUpdate, TypeOK
  <1>4. ASSUME NEW s \in Schedules, NEW enabled \in BOOLEAN, NEW del \in Deletes,
               UpdateNotStored(j, s, enabled, del)
        PROVE  TypeOK'
    <2>1. Rescheduled(j, s, enabled, del) \in JobRecord
      BY <1>4, PatchTypes DEF UpdateNotStored
    <2>2. mem' \in [Jobs -> J]
      BY <1>4, <2>1, <1>0 DEF UpdateNotStored
    <2> QED BY <1>4, <2>2 DEF UpdateNotStored, TypeOK
  <1>5. CASE RemoveDelete(j)
    BY <1>5, <1>0 DEF RemoveDelete, TypeOK
  <1>6. CASE RunClone(j)
    <2>1. PICK k : exec' = [exec EXCEPT ![j][k] = Clone(j, "cloned")]
      BY <1>6 DEF RunClone
    <2>2. mem[j] \in JobRecord /\ 0 \in Times
      BY <1>6, <1>0 DEF RunClone, Times
    <2>3. Clone(j, "cloned") \in Execution
      BY <2>2 DEF Clone, Execution, JobRecord, Stages
    <2>4. exec' \in [Jobs -> [Slots -> Execution \cup {Idle}]]
      BY <2>1, <2>3 DEF TypeOK
    <2> QED BY <1>6, <2>4 DEF RunClone, TypeOK
  <1>7. CASE AddPush(j)
    BY <1>7, <1>0 DEF AddPush, TypeOK
  <1>8. CASE RemoveRetain(j)
    BY <1>8, <1>0 DEF RemoveRetain, TypeOK
  <1> QED BY <1>1, <1>2, <1>3, <1>4, <1>5, <1>6, <1>7, <1>8 DEF UserStep, CallStep

\* The steps of executions keep the types.
LEMMA ExecStepTypes ==
    ASSUME TypeOK, NEW j \in Jobs, NEW k \in Slots,
           RunMark(j, k) \/ Finish(j, k) \/ Settling(j, k)
    PROVE  TypeOK'
  <1> USE CronAssumption
  <1> DEFINE J == JobRecord \cup {Absent}
             E == Execution \cup {Idle}
  <1>0. /\ mem \in [Jobs -> J] /\ disk \in [Jobs -> J] /\ mem[j] \in J /\ disk[j] \in J
        /\ exec \in [Jobs -> [Slots -> E]]
        /\ now \in Nat /\ now \in Times /\ 0 \in Times /\ ran \subseteq Jobs
    BY DEF TypeOK, Times
  <1>1. exec[j][k].stage \in Stages
    BY DEF RunMark, Finish, Settling, SettleDelete, SettleRetain, Settle, WakeAfterRun, Stages
  <1>2. exec[j][k] \in Execution
    BY <1>1, ExecIsOne
  <1>3. CASE RunMark(j, k)
    <2>1. [exec[j][k] EXCEPT !.stage = "running", !.started = now] \in Execution
      BY <1>2, <1>0 DEF Execution, Stages
    <2>2. exec' = [exec EXCEPT ![j][k] = [exec[j][k] EXCEPT !.stage = "running", !.started = now]]
      BY <1>3, <1>0 DEF RunMark
    <2>3. exec' \in [Jobs -> [Slots -> E]]
      BY <2>1, <2>2, <1>0
    <2>4. mem' \in [Jobs -> J]
      <3>1. CASE mem[j] = Absent
        BY <3>1, <1>0, <1>3 DEF RunMark
      <3>2. CASE mem[j] # Absent
        <4>1. [mem[j] EXCEPT !.runAt = now] \in JobRecord
          BY <3>2, <1>0 DEF JobRecord
        <4>2. mem' = [mem EXCEPT ![j] = [mem[j] EXCEPT !.runAt = now]]
          BY <3>2, <1>0, <1>3 DEF RunMark
        <4> QED BY <4>1, <4>2, <1>0
      <3> QED BY <3>1, <3>2
    <2> QED BY <1>3, <2>3, <2>4 DEF RunMark, TypeOK
  <1>4. CASE Finish(j, k)
    <2> DEFINE next == NextRun(exec[j][k].sched, now)
               l == IF j = Heartbeat THEN now ELSE None
               e == [exec[j][k] EXCEPT !.stage = "settle", !.next = next, !.started = 0]
               r == [mem[j] EXCEPT !.runAt = None, !.last = l, !.next = next]
    <2>1. exec' = [exec EXCEPT ![j][k] = e] /\ ran' = ran \cup {j}
      BY <1>4, <1>0 DEF Finish
    <2>2. mem' = IF mem[j] = Absent THEN mem ELSE [mem EXCEPT ![j] = r]
      BY <1>4, <1>0 DEF Finish
    <2>3. next \in Starts
      BY <1>0, <1>2, NextRunFacts DEF Execution, Starts
    <2> HIDE DEF next
    <2>4. e \in Execution
      BY <2>3, <1>0, <1>2 DEF Execution, Starts, Stages
    <2>5. mem[j] # Absent => r \in JobRecord
      BY <2>3, <1>0 DEF JobRecord, Starts
    <2> HIDE DEF e, r
    <2>6. exec' \in [Jobs -> [Slots -> E]]
      BY <2>1, <2>4, <1>0
    <2>7. mem' \in [Jobs -> J]
      BY <2>2, <2>5, <1>0
    <2> QED BY <1>4, <2>1, <2>6, <2>7 DEF Finish, TypeOK
  <1>5. CASE SettleDelete(j, k)
    <2>1. exec' \in [Jobs -> [Slots -> E]] /\ disk' \in [Jobs -> J]
      <3>1. CASE AfterSettle(j, k) /\ UNCHANGED disk
        BY <3>1, <1>0, <1>1, AfterTypes
      <3>2. CASE ~(AfterSettle(j, k) /\ UNCHANGED disk)
        <4>1. [exec[j][k] EXCEPT !.stage = "removing"] \in Execution
          BY <1>2 DEF Execution, Stages
        <4>2. /\ exec' = [exec EXCEPT ![j][k] = [exec[j][k] EXCEPT !.stage = "removing"]]
              /\ disk' = [disk EXCEPT ![j] = Absent]
          BY <3>2, <1>0, <1>5 DEF SettleDelete
        <4> QED BY <4>1, <4>2, <1>0
      <3> QED BY <3>1, <3>2
    <2> QED BY <1>5, <2>1 DEF SettleDelete, TypeOK
  <1>6. CASE SettleRetain(j, k)
    <2>1. exec' \in [Jobs -> [Slots -> E]]
      BY <1>1, <1>6, AfterTypes DEF SettleRetain
    <2> QED BY <1>6, <2>1, <1>0 DEF SettleRetain, TypeOK
  <1>7. CASE Settle(j, k)
    <2> DEFINE kept == IF exec[j][k].next = None THEN [mem[j] EXCEPT !.enabled = FALSE] ELSE mem[j]
    <2>1. exec' \in [Jobs -> [Slots -> E]]
      BY <1>1, <1>7, AfterTypes DEF Settle
    <2>2. mem[j] # Absent => kept \in JobRecord
      BY <1>0 DEF JobRecord
    <2>3. /\ mem' = IF mem[j] = Absent THEN mem ELSE [mem EXCEPT ![j] = kept]
          /\ disk' = disk \/ (mem[j] # Absent /\ disk' = [disk EXCEPT ![j] = kept])
          /\ dirty' \in {dirty, dirty \ {j}, dirty \cup {j}}
          /\ UNCHANGED <<now, up, ran, created, pending, timer, permit>>
      BY <1>7 DEF Settle
    <2> HIDE DEF kept
    <2>4. mem' \in [Jobs -> J] /\ disk' \in [Jobs -> J]
      BY <2>2, <2>3, <1>0
    <2> QED BY <2>1, <2>3, <2>4 DEF TypeOK
  <1>8. CASE WakeAfterRun(j, k)
    <2>1. permit' \in BOOLEAN /\ mem' \in [Jobs -> J]
      BY <1>8, WakeFacts DEF WakeAfterRun
    <2>2. exec' \in [Jobs -> [Slots -> E]]
      BY <1>8, <1>0 DEF WakeAfterRun
    <2> QED BY <1>8, <2>1, <2>2 DEF WakeAfterRun, TypeOK
  <1> QED BY <1>3, <1>4, <1>5, <1>6, <1>7, <1>8 DEF Settling

\* The scheduler starts well typed.
LEMMA InitTypes == Init => TypeOK
  <1>1. 0 \in Times
    BY CronAssumption DEF Times
  <1> SUFFICES ASSUME Init PROVE TypeOK
    OBVIOUS
  <1>2. exec \in [Jobs -> [Slots -> Execution \cup {Idle}]]
    <2>1. [k \in Slots |-> Idle] \in [Slots -> Execution \cup {Idle}]
      OBVIOUS
    <2> QED BY <2>1 DEF Init
  <1>3. timer \in [pc : {"off", "look", "asleep", "process", "stuck"}, until : Nat]
    BY DEF Init, Awake
  <1>4. /\ mem \in [Jobs -> JobRecord \cup {Absent}]
        /\ disk \in [Jobs -> JobRecord \cup {Absent}]
        /\ pending \in [Jobs -> {"none", "adding", "removing"}]
    BY DEF Init
  <1>5. up \in BOOLEAN /\ permit \in BOOLEAN
    BY DEF Init
  <1> QED BY <1>1, <1>2, <1>3, <1>4, <1>5, Zenon DEF Init, TypeOK

\* A step keeps the types.
LEMMA StepTypes == TypeOK /\ [Next]_vars => TypeOK'
  <1> SUFFICES ASSUME TypeOK, [Next]_vars PROVE TypeOK'
    OBVIOUS
  <1>1. CASE UNCHANGED vars
    BY <1>1 DEF vars, TypeOK
  <1>2. CASE Next
    BY <1>2, TimerTypes, UserTypes, ExecStepTypes DEF Next
  <1> QED BY <1>1, <1>2

\* Types: at every step of every instance of the scheduler the list, the store,
\* the executions and the timer hold what the code's types allow.
THEOREM TypesHold == Spec => []TypeOK
  <1> QED BY InitTypes, StepTypes, PTL DEF Spec

-----------------------------------------------------------------------------
(* The store follows the list.                                             *)

\* What is known of a job by how far its life has gone: nothing of a process
\* that is down is left, an id that was not given out is nowhere, a job being
\* added has not been run, and whoever is about to drop a job from the list has
\* deleted it from the store.
LifeOf(j) ==
    /\ ~up => mem[j] = Absent /\ pending[j] = "none" /\ \A k \in Slots : exec[j][k] = Idle
    /\ j \notin created => /\ mem[j] = Absent /\ disk[j] = Absent /\ pending[j] = "none"
                           /\ \A k \in Slots : exec[j][k] = Idle
    /\ pending[j] = "adding" => mem[j] = Absent /\ \A k \in Slots : exec[j][k] = Idle
    /\ pending[j] = "removing" => disk[j] = Absent
    /\ \A k \in Slots : exec[j][k].stage = "removing" => disk[j] = Absent

\* StoreFollowsList, of one job.
FollowsOf(j) ==
    /\ mem[j] # Absent /\ disk[j] # Absent /\ j \notin dirty
       => /\ disk[j].sched = mem[j].sched
          /\ disk[j].enabled = mem[j].enabled
          /\ disk[j].del = mem[j].del
    /\ up /\ mem[j] = Absent /\ disk[j] # Absent => pending[j] = "adding"
    /\ mem[j] # Absent /\ disk[j] = Absent
       => pending[j] = "removing" \/ \E k \in Slots : exec[j][k].stage = "removing"

StoreInv == \A j \in Jobs : LifeOf(j) /\ FollowsOf(j)

\* A step that tells the list's readers nothing new about a job: it may change
\* only when the job runs.
KeepsJob(j) ==
    /\ mem'[j] = Absent <=> mem[j] = Absent
    /\ mem[j] # Absent => /\ mem'[j].sched = mem[j].sched
                          /\ mem'[j].enabled = mem[j].enabled
                          /\ mem'[j].del = mem[j].del
    /\ \A k \in Slots : /\ exec'[j][k].stage = "removing" <=> exec[j][k].stage = "removing"
                        /\ exec[j][k] = Idle /\ mem[j] = Absent => exec'[j][k] = Idle

\* A step that leaves a job alone.
Spares(j) == /\ mem'[j] = mem[j] /\ disk'[j] = disk[j] /\ pending'[j] = pending[j]
             /\ (j \in dirty' <=> j \in dirty)
             /\ \A k \in Slots : exec'[j][k] = exec[j][k]

\* Two records of a job with the same settings.
Alike(q, r) == /\ q \in JobRecord /\ q # Absent
               /\ q.sched = r.sched /\ q.enabled = r.enabled /\ q.del = r.del

\* What a run changes in the record of a job leaves its settings alone.
LEMMA AlikeNext ==
    ASSUME NEW r \in JobRecord, NEW n \in Starts
    PROVE  Alike([r EXCEPT !.next = n], r)
  <1>1. [r EXCEPT !.next = n] \in JobRecord
    BY DEF JobRecord, Starts
  <1> QED BY <1>1, CronAssumption DEF Alike, JobRecord

\* Marking a job as running, or clearing the mark, leaves its settings alone.
LEMMA AlikeMark ==
    ASSUME NEW r \in JobRecord, NEW a \in Times \cup {None}
    PROVE  Alike([r EXCEPT !.runAt = a], r)
  <1>1. [r EXCEPT !.runAt = a] \in JobRecord
    BY DEF JobRecord
  <1> QED BY <1>1, CronAssumption DEF Alike, JobRecord

\* The update that ends a run changes the state of a job, not its settings.
LEMMA AlikeRan ==
    ASSUME NEW r \in JobRecord, NEW n \in Starts, NEW l \in Times \cup {None}
    PROVE  Alike([r EXCEPT !.runAt = None, !.last = l, !.next = n], r)
  <1>1. [r EXCEPT !.runAt = None, !.last = l, !.next = n] \in JobRecord
    BY DEF JobRecord, Starts
  <1> QED BY <1>1, CronAssumption DEF Alike, JobRecord

\* The wake-ups keep every job.
LEMMA WakeKeeps ==
    ASSUME TypeOK, NEW event \in BOOLEAN, Wake(event), NEW j \in Jobs
    PROVE  /\ mem'[j] = Absent <=> mem[j] = Absent
           /\ mem[j] # Absent => /\ mem'[j].sched = mem[j].sched
                                 /\ mem'[j].enabled = mem[j].enabled
                                 /\ mem'[j].del = mem[j].del
  <1>1. CASE mem' = mem
    BY <1>1
  <1>2. CASE /\ Heartbeat \in Jobs /\ mem[Heartbeat] # Absent
             /\ mem' = [mem EXCEPT ![Heartbeat].next = now]
    <2>1. mem[Heartbeat] \in JobRecord /\ now \in Starts
      BY <1>2, Recorded
    <2>2. mem'[j] = IF j = Heartbeat THEN [mem[j] EXCEPT !.next = now] ELSE mem[j]
      BY <1>2 DEF TypeOK
    <2>3. Alike([mem[Heartbeat] EXCEPT !.next = now], mem[Heartbeat])
      BY <2>1, AlikeNext
    <2> QED BY <2>2, <2>3, <1>2 DEF Alike
  <1> QED BY <1>1, <1>2, WakeFacts

\* The steps that only decide when jobs run.
LEMMA QuietSteps ==
    ASSUME TypeOK,
           \/ Tick \/ Stop \/ CommandCompleted \/ TimerStep
           \/ \E i \in Jobs : RunClone(i)
           \/ \E i \in Jobs, l \in Slots : RunMark(i, l) \/ Finish(i, l) \/ WakeAfterRun(i, l)
    PROVE  /\ \A j \in Jobs : KeepsJob(j)
           /\ UNCHANGED <<up, disk, created, pending, dirty>>
  <1> DEFINE Good == /\ \A j \in Jobs : KeepsJob(j)
                     /\ UNCHANGED <<up, disk, created, pending, dirty>>
  <1>0. /\ mem \in [Jobs -> JobRecord \cup {Absent}]
        /\ exec \in [Jobs -> [Slots -> Execution \cup {Idle}]]
        /\ now \in Times /\ now \in Starts
        /\ None \in Times \cup {None} /\ None \in Starts
    BY DEF TypeOK, Times, Starts
  <1>1. ASSUME Tick \/ Stop \/ Look \/ Notified \/ Expired PROVE Good
    BY <1>1 DEF Tick, Stop, Look, Notified, Expired, KeepsJob
  <1>2. ASSUME CommandCompleted PROVE Good
    <2>1. Wake(TRUE) /\ UNCHANGED <<up, disk, created, pending, dirty, exec>>
      BY <1>2 DEF CommandCompleted
    <2> QED BY <2>1, WakeKeeps DEF KeepsJob
  <1>3. ASSUME Process PROVE Good
    <2> DEFINE due == {j \in Jobs : Due(j) /\ mem[j].runAt = None}
    <2>1. /\ \A j \in due : Free(j) # {}
          /\ mem' = [j \in Jobs |-> IF j \in due THEN [mem[j] EXCEPT !.runAt = now] ELSE mem[j]]
          /\ exec' = [j \in Jobs |->
                      IF j \in due
                      THEN [exec[j] EXCEPT ![CHOOSE k \in Free(j) : TRUE] = Clone(j, "running")]
                      ELSE exec[j]]
          /\ UNCHANGED <<up, disk, created, pending, dirty>>
      BY <1>3 DEF Process
    <2>2. \A j \in due : mem[j] # Absent
      BY DEF Due
    <2> HIDE DEF due
    <2>3. ASSUME NEW j \in Jobs PROVE KeepsJob(j)
      <3>1. CASE j \notin due
        BY <3>1, <2>1 DEF KeepsJob
      <3>2. CASE j \in due
        <4>1. mem[j] \in JobRecord /\ mem[j] # Absent /\ mem'[j] = [mem[j] EXCEPT !.runAt = now]
          BY <3>2, <2>1, <2>2, <1>0
        <4>2. PICK k \in Free(j) : exec'[j] = [exec[j] EXCEPT ![k] = Clone(j, "running")]
          BY <3>2, <2>1
        <4>3. k \in Slots /\ exec[j][k].stage = "idle" /\ Clone(j, "running").stage = "running"
          BY <4>2 DEF Free, Clone, Idle
        <4>4. \A l \in Slots : exec'[j][l] = IF l = k THEN Clone(j, "running") ELSE exec[j][l]
          BY <4>2, <4>3, <1>0
        <4>5. Alike(mem'[j], mem[j])
          BY <4>1, <1>0, AlikeMark
        <4>6. \A l \in Slots : /\ exec'[j][l].stage = "removing" <=> exec[j][l].stage = "removing"
          BY <4>3, <4>4
        <4> QED BY <4>1, <4>5, <4>6 DEF KeepsJob, Alike
      <3> QED BY <3>1, <3>2
    <2> QED BY <2>1, <2>3
  <1>4. ASSUME ClearStuck PROVE Good
    <2>1. UNCHANGED <<up, disk, created, pending, dirty, exec>>
      BY <1>4 DEF ClearStuck
    <2>2. ASSUME NEW j \in Jobs PROVE KeepsJob(j)
      <3>1. \/ mem'[j] = mem[j]
            \/ mem[j] # Absent /\ mem'[j] = [mem[j] EXCEPT !.runAt = None]
        BY <1>4 DEF ClearStuck
      <3>2. CASE mem'[j] = mem[j]
        BY <3>2, <2>1 DEF KeepsJob
      <3>3. CASE mem[j] # Absent /\ mem'[j] = [mem[j] EXCEPT !.runAt = None]
        <4>1. Alike(mem'[j], mem[j])
          BY <3>3, <1>0, AlikeMark
        <4> QED BY <4>1, <3>3, <2>1 DEF KeepsJob, Alike
      <3> QED BY <3>1, <3>2, <3>3
    <2> QED BY <2>1, <2>2
  <1>5. ASSUME NEW i \in Jobs, RunClone(i) PROVE Good
    <2>1. PICK k \in Free(i) : exec' = [exec EXCEPT ![i][k] = Clone(i, "cloned")]
      BY <1>5 DEF RunClone
    <2>2. k \in Slots /\ exec[i][k].stage = "idle" /\ Clone(i, "cloned").stage = "cloned"
      BY <2>1 DEF Free, Clone, Idle
    <2>3. \A j \in Jobs, l \in Slots :
             exec'[j][l] = IF j = i /\ l = k THEN Clone(i, "cloned") ELSE exec[j][l]
      BY <2>1, <2>2, <1>0
    <2>4. mem[i] # Absent /\ UNCHANGED <<mem, up, disk, created, pending, dirty>>
      BY <1>5 DEF RunClone
    <2> QED BY <2>2, <2>3, <2>4 DEF KeepsJob
  <1>6. ASSUME NEW i \in Jobs, NEW l \in Slots, RunMark(i, l) PROVE Good
    <2>1. exec[i][l] \in Execution /\ exec[i][l].stage = "cloned" /\ exec[i][l] # Idle
      BY <1>6, ExecIsOne DEF RunMark, Stages, Idle
    <2>2. /\ exec'[i][l].stage = "running"
          /\ \A j \in Jobs, k \in Slots : j # i \/ k # l => exec'[j][k] = exec[j][k]
      BY <1>6, <1>0, <2>1 DEF RunMark, Execution
    <2>3. \A j \in Jobs : \/ mem'[j] = mem[j]
                          \/ mem[j] # Absent /\ mem'[j] = [mem[j] EXCEPT !.runAt = now]
      BY <1>6, <1>0 DEF RunMark
    <2>4. UNCHANGED <<up, disk, created, pending, dirty>>
      BY <1>6 DEF RunMark
    <2>5. ASSUME NEW j \in Jobs PROVE KeepsJob(j)
      <3>1. \/ mem'[j] = mem[j]
            \/ mem[j] # Absent /\ Alike(mem'[j], mem[j])
        <4>1. mem[j] # Absent => mem[j] \in JobRecord
          BY <1>0
        <4>2. mem[j] # Absent => Alike([mem[j] EXCEPT !.runAt = now], mem[j])
          BY <4>1, <1>0, AlikeMark
        <4> QED BY <4>2, <2>3
      <3>2. \A k \in Slots : /\ exec'[j][k].stage = "removing" <=> exec[j][k].stage = "removing"
                             /\ exec[j][k] = Idle => exec'[j][k] = Idle
        BY <2>1, <2>2
      <3> QED BY <3>1, <3>2 DEF KeepsJob, Alike
    <2> QED BY <2>4, <2>5
  <1>7. ASSUME NEW i \in Jobs, NEW l \in Slots, Finish(i, l) PROVE Good
    <2> DEFINE next == NextRun(exec[i][l].sched, now)
               last == IF i = Heartbeat THEN now ELSE None
    <2>1. exec[i][l] \in Execution /\ exec[i][l].stage = "running" /\ exec[i][l] # Idle
      <3>1. exec[i][l].stage = "running"
        BY <1>7 DEF Finish
      <3> QED BY <3>1, ExecIsOne DEF Stages, Idle
    <2>2. next \in Starts /\ last \in Times \cup {None}
      <3>1. exec[i][l].sched \in Schedules /\ now \in Nat
        BY <2>1, Recorded DEF Execution
      <3>2. next \in Starts
        BY <3>1, NextRunFacts DEF Starts
      <3> QED BY <3>2, <1>0
    <2>3. /\ exec'[i][l].stage = "settle"
          /\ \A j \in Jobs, k \in Slots : j # i \/ k # l => exec'[j][k] = exec[j][k]
      BY <1>7, <1>0, <2>1 DEF Finish, Execution
    <2>4. \A j \in Jobs :
             \/ mem'[j] = mem[j]
             \/ mem[j] # Absent /\ mem'[j] = [mem[j] EXCEPT !.runAt = None, !.last = last, !.next = next]
      BY <1>7, <1>0 DEF Finish
    <2>5. UNCHANGED <<up, disk, created, pending, dirty>>
      BY <1>7 DEF Finish
    <2> HIDE DEF next, last
    <2>6. ASSUME NEW j \in Jobs PROVE KeepsJob(j)
      <3>1. \/ mem'[j] = mem[j]
            \/ mem[j] # Absent /\ Alike(mem'[j], mem[j])
        <4>1. mem[j] # Absent => mem[j] \in JobRecord
          BY <1>0
        <4>2. mem[j] # Absent
              => Alike([mem[j] EXCEPT !.runAt = None, !.last = last, !.next = next], mem[j])
          BY <4>1, <2>2, AlikeRan
        <4> QED BY <4>2, <2>4
      <3>2. \A k \in Slots : /\ exec'[j][k].stage = "removing" <=> exec[j][k].stage = "removing"
                             /\ exec[j][k] = Idle => exec'[j][k] = Idle
        BY <2>1, <2>3
      <3> QED BY <3>1, <3>2 DEF KeepsJob, Alike
    <2> QED BY <2>5, <2>6
  <1>8. ASSUME NEW i \in Jobs, NEW l \in Slots, WakeAfterRun(i, l) PROVE Good
    <2>1. /\ Wake(FALSE) /\ exec' = [exec EXCEPT ![i][l] = Idle] /\ exec[i][l].stage = "wake"
          /\ UNCHANGED <<up, disk, created, pending, dirty>>
      BY <1>8 DEF WakeAfterRun
    <2>2. \A j \in Jobs, k \in Slots : exec'[j][k] = IF j = i /\ k = l THEN Idle ELSE exec[j][k]
      BY <2>1, <1>0
    <2>3. ASSUME NEW j \in Jobs PROVE KeepsJob(j)
      <3>1. /\ mem'[j] = Absent <=> mem[j] = Absent
            /\ mem[j] # Absent => /\ mem'[j].sched = mem[j].sched
                                  /\ mem'[j].enabled = mem[j].enabled
                                  /\ mem'[j].del = mem[j].del
        BY <2>1, WakeKeeps
      <3>2. \A k \in Slots : /\ exec'[j][k].stage = "removing" <=> exec[j][k].stage = "removing"
                             /\ exec[j][k] = Idle => exec'[j][k] = Idle
        BY <2>1, <2>2 DEF Idle
      <3> QED BY <3>1, <3>2 DEF KeepsJob
    <2> QED BY <2>1, <2>3
  <1> HIDE DEF Good
  <1>9. Good
    BY <1>1, <1>2, <1>3, <1>4, <1>5, <1>6, <1>7, <1>8 DEF TimerStep
  <1> QED BY <1>9 DEF Good

\* A quiet step keeps a job's part of the invariant.
LEMMA QuietKeeps ==
    ASSUME StoreInv, UNCHANGED <<up, disk, created, pending, dirty>>,
           NEW j \in Jobs, KeepsJob(j)
    PROVE  LifeOf(j)' /\ FollowsOf(j)'
  <1>1. LifeOf(j) /\ FollowsOf(j)
    BY DEF StoreInv
  <1>2. LifeOf(j)'
    BY <1>1 DEF LifeOf, KeepsJob
  <1>3. FollowsOf(j)'
    BY <1>1 DEF FollowsOf, KeepsJob
  <1> QED BY <1>2, <1>3

\* So does a step that spares the job.
LEMMA SparedKeeps ==
    ASSUME StoreInv, NEW j \in Jobs, Spares(j), up' = up, j \in created' <=> j \in created
    PROVE  LifeOf(j)' /\ FollowsOf(j)'
  BY DEF StoreInv, Spares, LifeOf, FollowsOf

\* A job of a user's call or of an execution is spared or is the one.
LEMMA OneJobSteps ==
    ASSUME TypeOK, StoreInv, NEW j \in Jobs, up' = up,
           \A i \in Jobs : i # j => Spares(i) /\ (i \in created' <=> i \in created),
           LifeOf(j)', FollowsOf(j)'
    PROVE  StoreInv'
  <1>1. ASSUME NEW i \in Jobs PROVE LifeOf(i)' /\ FollowsOf(i)'
    <2>1. CASE i = j
      BY <2>1
    <2>2. CASE i # j
      BY <2>2, SparedKeeps
    <2> QED BY <2>1, <2>2
  <1> QED BY <1>1 DEF StoreInv

\* The calls of users keep the store behind the list.
LEMMA UserStore ==
    ASSUME TypeOK, StoreInv, NEW j \in Jobs,
           \/ \E s \in Schedules, enabled \in BOOLEAN, del \in Deletes :
                 \/ AddSave(j, s, enabled, del) \/ Update(j, s, enabled, del)
                 \/ RejectUpdate(j, s, enabled, del) \/ UpdateNotStored(j, s, enabled, del)
           \/ RemoveDelete(j) \/ AddPush(j) \/ RemoveRetain(j)
    PROVE  StoreInv'
  <1> DEFINE Rest == /\ up' = up
                     /\ \A i \in Jobs : i # j => Spares(i) /\ (i \in created' <=> i \in created)
  <1>0. /\ mem \in [Jobs -> JobRecord \cup {Absent}] /\ disk \in [Jobs -> JobRecord \cup {Absent}]
        /\ pending \in [Jobs -> {"none", "adding", "removing"}]
        /\ Absent \notin JobRecord /\ LifeOf(j) /\ FollowsOf(j)
    BY CronAssumption DEF TypeOK, StoreInv
  <1>1. ASSUME NEW s \in Schedules, NEW enabled \in BOOLEAN, NEW del \in Deletes,
               AddSave(j, s, enabled, del)
        PROVE  Rest /\ LifeOf(j)' /\ FollowsOf(j)'
    <2>1. /\ up /\ j \notin created /\ created' = created \cup {j}
          /\ pending' = [pending EXCEPT ![j] = "adding"]
          /\ UNCHANGED <<now, up, mem, ran, dirty, exec, timer, permit>>
          /\ \A i \in Jobs : i # j => disk'[i] = disk[i]
      BY <1>1, <1>0 DEF AddSave
    <2>2. Rest
      BY <2>1, <1>0 DEF Spares
    <2>3. LifeOf(j)'
      BY <2>1, <1>0 DEF LifeOf, Idle
    <2>4. FollowsOf(j)'
      BY <2>1, <1>0 DEF LifeOf, FollowsOf
    <2> QED BY <2>2, <2>3, <2>4
  <1>2. ASSUME NEW s \in Schedules, NEW enabled \in BOOLEAN, NEW del \in Deletes,
               Update(j, s, enabled, del)
        PROVE  Rest /\ LifeOf(j)' /\ FollowsOf(j)'
    <2> DEFINE r == Rescheduled(j, s, enabled, del)
    <2>1. /\ mem[j] # Absent /\ disk[j] # Absent
          /\ mem' = [mem EXCEPT ![j] = r] /\ disk' = [disk EXCEPT ![j] = r]
          /\ dirty' = dirty \ {j}
          /\ UNCHANGED <<now, up, ran, created, pending, exec, timer>>
      BY <1>2 DEF Update
    <2>2. r # Absent
      BY <2>1, <1>0, PatchTypes
    <2> HIDE DEF r
    <2>3. Rest
      BY <2>1, <1>0 DEF Spares
    <2>4. mem'[j] = r /\ disk'[j] = r
      BY <2>1, <1>0
    <2>5. LifeOf(j)'
      BY <2>1, <2>2, <2>4, <1>0 DEF LifeOf
    <2>6. FollowsOf(j)'
      BY <2>1, <2>2, <2>4 DEF FollowsOf
    <2> QED BY <2>3, <2>5, <2>6
  <1>3. ASSUME NEW s \in Schedules, NEW enabled \in BOOLEAN, NEW del \in Deletes,
               RejectUpdate(j, s, enabled, del) \/ UpdateNotStored(j, s, enabled, del)
        PROVE  Rest /\ LifeOf(j)' /\ FollowsOf(j)'
    <2>1. PICK r \in {Patched(j, s, enabled, del), Rescheduled(j, s, enabled, del)} :
             /\ mem[j] # Absent /\ mem' = [mem EXCEPT ![j] = r]
             /\ \/ dirty' = dirty \cup {j} /\ UNCHANGED disk
                \/ /\ disk[j] # Absent /\ disk' = [disk EXCEPT ![j] = r]
                   /\ dirty' = dirty \ {j}
             /\ UNCHANGED <<now, up, ran, created, pending, exec, timer, permit>>
      BY <1>3 DEF RejectUpdate, UpdateNotStored
    <2>2. r # Absent
      BY <2>1, <1>0, PatchTypes
    <2>3. Rest
      BY <2>1, <1>0 DEF Spares
    <2>4. /\ mem'[j] = r
          /\ \/ j \in dirty' /\ disk'[j] = disk[j]
             \/ disk[j] # Absent /\ disk'[j] = r
      BY <2>1, <1>0
    <2>5. LifeOf(j)'
      BY <2>1, <2>2, <2>4, <1>0 DEF LifeOf
    <2>6. FollowsOf(j)'
      BY <2>1, <2>2, <2>4, <1>0 DEF FollowsOf
    <2> QED BY <2>3, <2>5, <2>6
  <1>4. ASSUME RemoveDelete(j)
        PROVE  Rest /\ LifeOf(j)' /\ FollowsOf(j)'
    <2>1. Rest
      BY <1>4, <1>0 DEF RemoveDelete, Spares
    <2>2. disk'[j] = Absent /\ pending'[j] = "removing" /\ mem[j] # Absent
      BY <1>4, <1>0 DEF RemoveDelete
    <2>3. LifeOf(j)'
      BY <1>4, <2>2, <1>0 DEF RemoveDelete, LifeOf
    <2>4. FollowsOf(j)'
      BY <1>4, <2>2, <1>0 DEF RemoveDelete, FollowsOf
    <2> QED BY <2>1, <2>3, <2>4
  <1>5. ASSUME AddPush(j)
        PROVE  Rest /\ LifeOf(j)' /\ FollowsOf(j)'
    <2>1. Rest
      BY <1>5, <1>0 DEF AddPush, Spares
    <2>2. /\ mem'[j] = disk[j] /\ pending[j] = "adding" /\ pending'[j] = "none"
          /\ UNCHANGED <<up, disk, created, dirty, exec>>
      BY <1>5, <1>0 DEF AddPush
    <2>3. LifeOf(j)'
      BY <2>2, <1>0 DEF LifeOf
    <2>4. FollowsOf(j)'
      BY <2>2, <1>0 DEF FollowsOf
    <2> QED BY <2>1, <2>3, <2>4
  <1>6. ASSUME RemoveRetain(j)
        PROVE  Rest /\ LifeOf(j)' /\ FollowsOf(j)'
    <2>1. Rest
      BY <1>6, <1>0 DEF RemoveRetain, Spares
    <2>2. /\ mem'[j] = Absent /\ pending[j] = "removing" /\ pending'[j] = "none"
          /\ UNCHANGED <<up, disk, created, exec>>
      BY <1>6, <1>0 DEF RemoveRetain
    <2>3. LifeOf(j)'
      BY <2>2, <1>0 DEF LifeOf
    <2>4. FollowsOf(j)'
      BY <2>2, <1>0 DEF FollowsOf, LifeOf
    <2> QED BY <2>1, <2>3, <2>4
  <1>7. Rest /\ LifeOf(j)' /\ FollowsOf(j)'
    <2> HIDE DEF Rest
    <2> QED BY <1>1, <1>2, <1>3, <1>4, <1>5, <1>6
  <1> QED BY <1>7, OneJobSteps

\* So do the last steps of executions.
LEMMA SettleStore ==
    ASSUME TypeOK, StoreInv, NEW j \in Jobs, NEW k \in Slots,
           SettleDelete(j, k) \/ SettleRetain(j, k) \/ Settle(j, k)
    PROVE  StoreInv'
  <1> DEFINE Rest == /\ up' = up
                     /\ \A i \in Jobs : i # j => Spares(i) /\ (i \in created' <=> i \in created)
  <1>0. /\ mem \in [Jobs -> JobRecord \cup {Absent}] /\ disk \in [Jobs -> JobRecord \cup {Absent}]
        /\ exec \in [Jobs -> [Slots -> Execution \cup {Idle}]]
        /\ Absent \notin JobRecord /\ LifeOf(j) /\ FollowsOf(j)
    BY CronAssumption DEF TypeOK, StoreInv
  <1>1. exec[j][k].stage \in Stages
    BY DEF SettleDelete, SettleRetain, Settle, Stages
  <1>2. exec[j][k] \in Execution /\ exec[j][k] # Idle
    BY <1>1, ExecIsOne DEF Idle, Stages
  \* An execution is under way, so the process is up and the job has been added.
  <1>3. up /\ j \in created /\ pending[j] # "adding"
    BY <1>0, <1>2 DEF LifeOf
  <1>4. ASSUME AfterSettle(j, k)
        PROVE  /\ \A i \in Jobs, l \in Slots : i # j \/ l # k => exec'[i][l] = exec[i][l]
               /\ exec'[j][k].stage # "removing"
    <2>1. Idle.stage # "removing"
      BY DEF Idle
    <2> QED BY <1>4, <1>1, <2>1, AfterTypes
  <1>5. ASSUME SettleDelete(j, k), AfterSettle(j, k), UNCHANGED disk
        PROVE  Rest /\ LifeOf(j)' /\ FollowsOf(j)'
    <2>1. AfterSettle(j, k) /\ exec[j][k].stage = "settle"
          /\ UNCHANGED <<up, mem, disk, created, pending, dirty>>
      BY <1>5 DEF SettleDelete
    <2>2. Rest
      BY <2>1, <1>4 DEF Spares
    <2>3. \A l \in Slots : exec'[j][l].stage = "removing" <=> exec[j][l].stage = "removing"
      BY <2>1, <1>4
    <2>4. LifeOf(j)'
      BY <2>1, <2>3, <1>0, <1>3 DEF LifeOf
    <2>5. FollowsOf(j)'
      BY <2>1, <2>3, <1>0 DEF FollowsOf
    <2> QED BY <2>2, <2>4, <2>5
  <1>6. ASSUME SettleDelete(j, k), ~(AfterSettle(j, k) /\ UNCHANGED disk)
        PROVE  Rest /\ LifeOf(j)' /\ FollowsOf(j)'
    <2>1. /\ exec' = [exec EXCEPT ![j][k].stage = "removing"]
          /\ disk' = [disk EXCEPT ![j] = Absent]
          /\ UNCHANGED <<up, mem, created, pending, dirty>>
      BY <1>6 DEF SettleDelete
    <2>2. /\ \A i \in Jobs, l \in Slots : i # j \/ l # k => exec'[i][l] = exec[i][l]
          /\ exec'[j][k].stage = "removing" /\ disk'[j] = Absent
      BY <2>1, <1>0, <1>2 DEF Execution
    <2>3. Rest
      BY <2>1, <2>2, <1>0 DEF Spares
    <2>4. LifeOf(j)'
      BY <2>1, <2>2, <1>0, <1>3 DEF LifeOf
    <2>5. FollowsOf(j)'
      BY <2>1, <2>2 DEF FollowsOf
    <2> QED BY <2>3, <2>4, <2>5
  <1>7. ASSUME SettleRetain(j, k)
        PROVE  Rest /\ LifeOf(j)' /\ FollowsOf(j)'
    <2>1. /\ AfterSettle(j, k) /\ mem' = [mem EXCEPT ![j] = Absent] /\ dirty' = dirty \ {j}
          /\ exec[j][k].stage = "removing"
          /\ UNCHANGED <<up, disk, created, pending>>
      BY <1>7 DEF SettleRetain
    <2>2. Rest
      BY <2>1, <1>0, <1>4 DEF Spares
    <2>3. mem'[j] = Absent /\ disk[j] = Absent
      BY <2>1, <1>0 DEF LifeOf
    <2>4. LifeOf(j)'
      BY <2>1, <2>3, <1>0, <1>3 DEF LifeOf
    <2>5. FollowsOf(j)'
      BY <2>1, <2>3 DEF FollowsOf
    <2> QED BY <2>2, <2>4, <2>5
  <1>8. ASSUME Settle(j, k)
        PROVE  Rest /\ LifeOf(j)' /\ FollowsOf(j)'
    <2> DEFINE kept == IF exec[j][k].next = None THEN [mem[j] EXCEPT !.enabled = FALSE] ELSE mem[j]
    <2>1. /\ mem' = IF mem[j] = Absent THEN mem ELSE [mem EXCEPT ![j] = kept]
          /\ \/ /\ disk' = IF mem[j] = Absent \/ disk[j] = Absent THEN disk
                           ELSE [disk EXCEPT ![j] = kept]
                /\ dirty' = IF disk[j] = Absent THEN dirty ELSE dirty \ {j}
             \/ /\ mem[j] # Absent
                /\ dirty' = IF kept = mem[j] THEN dirty ELSE dirty \cup {j}
                /\ UNCHANGED disk
          /\ AfterSettle(j, k) /\ exec[j][k].stage = "settle"
          /\ UNCHANGED <<now, up, ran, created, pending, timer, permit>>
      BY <1>8 DEF Settle
    <2>2. mem[j] # Absent => kept # Absent
      BY <1>0 DEF JobRecord
    <2> HIDE DEF kept
    <2>3. Rest
      BY <2>1, <1>0, <1>4 DEF Spares
    <2>4. \A l \in Slots : exec'[j][l].stage = "removing" <=> exec[j][l].stage = "removing"
      BY <2>1, <1>4
    <2>5. /\ mem[j] = Absent => mem'[j] = Absent /\ disk'[j] = disk[j]
          /\ mem[j] # Absent => mem'[j] = kept
          /\ mem[j] # Absent /\ disk[j] # Absent
             => \/ disk'[j] = kept
                \/ /\ disk'[j] = disk[j]
                   /\ \/ kept = mem[j] /\ (j \in dirty' <=> j \in dirty)
                      \/ j \in dirty'
          /\ disk[j] = Absent => disk'[j] = Absent
      BY <2>1, <1>0
    <2>6. LifeOf(j)'
      BY <2>1, <2>2, <2>4, <2>5, <1>0, <1>3 DEF LifeOf
    <2>7. FollowsOf(j)'
      BY <2>1, <2>2, <2>4, <2>5, <1>0 DEF FollowsOf
    <2> QED BY <2>3, <2>6, <2>7
  <1>9. Rest /\ LifeOf(j)' /\ FollowsOf(j)'
    <2> HIDE DEF Rest
    <2> QED BY <1>5, <1>6, <1>7, <1>8
  <1> QED BY <1>9, OneJobSteps

\* A restart loads what the store has; a crash leaves nothing else.
LEMMA RestartStore ==
    ASSUME TypeOK, StoreInv, Start \/ Crash
    PROVE  StoreInv'
  <1>0. /\ disk \in [Jobs -> JobRecord \cup {Absent}] /\ Absent \notin JobRecord
        /\ \A j \in Jobs : LifeOf(j) /\ FollowsOf(j)
    BY CronAssumption DEF TypeOK, StoreInv
  <1>1. CASE Start
    <2>1. ~up /\ up' /\ UNCHANGED <<disk, created, pending, dirty, exec>>
      BY <1>1 DEF Start
    <2>2. ASSUME NEW j \in Jobs PROVE LifeOf(j)' /\ FollowsOf(j)'
      <3>1. /\ disk[j] = Absent => mem'[j] = Absent
            /\ disk[j] # Absent => Alike(mem'[j], disk[j])
        <4>1. CASE disk[j] # Absent /\ disk[j].enabled
          <5>1. disk[j] \in JobRecord /\ now \in Nat
            BY <4>1, Recorded
          <5>2. NextRun(disk[j].sched, now) \in Starts
            BY <5>1, NextRunFacts DEF JobRecord, Starts
          <5>3. mem'[j] = [disk[j] EXCEPT !.next = NextRun(disk[j].sched, now)]
            BY <1>1, <4>1 DEF Start
          <5> QED BY <5>1, <5>2, <5>3, <4>1, AlikeNext
        <4>2. CASE ~(disk[j] # Absent /\ disk[j].enabled)
          <5>1. mem'[j] = disk[j]
            BY <1>1, <4>2 DEF Start
          <5> QED BY <5>1, <1>0 DEF Alike
        <4> QED BY <4>1, <4>2
      <3>2. LifeOf(j)'
        BY <3>1, <2>1, <1>0 DEF LifeOf, Idle
      <3>3. FollowsOf(j)'
        BY <3>1, <2>1 DEF FollowsOf, Alike
      <3> QED BY <3>2, <3>3
    <2> QED BY <2>2 DEF StoreInv
  <1>2. CASE Crash
    <2>1. ASSUME NEW j \in Jobs PROVE LifeOf(j)' /\ FollowsOf(j)'
      <3>1. /\ mem'[j] = Absent /\ pending'[j] = "none" /\ \A k \in Slots : exec'[j][k] = Idle
            /\ ~up' /\ UNCHANGED <<disk, created>>
        BY <1>2 DEF Crash
      <3> QED BY <3>1, <1>0 DEF LifeOf, FollowsOf, Idle
    <2> QED BY <2>1 DEF StoreInv
  <1> QED BY <1>1, <1>2

\* No step leaves the store behind the list.
LEMMA StepStore == TypeOK /\ StoreInv /\ [Next]_vars => StoreInv'
  <1> SUFFICES ASSUME TypeOK, StoreInv, [Next]_vars PROVE StoreInv'
    OBVIOUS
  <1>1. CASE UNCHANGED vars
    BY <1>1 DEF vars, StoreInv, LifeOf, FollowsOf
  <1>2. ASSUME \/ Tick \/ Stop \/ CommandCompleted \/ TimerStep
               \/ \E i \in Jobs : RunClone(i)
               \/ \E i \in Jobs, l \in Slots :
                     RunMark(i, l) \/ Finish(i, l) \/ WakeAfterRun(i, l)
        PROVE  StoreInv'
    <2>1. /\ \A j \in Jobs : KeepsJob(j)
          /\ UNCHANGED <<up, disk, created, pending, dirty>>
      BY <1>2, QuietSteps
    <2>2. \A j \in Jobs : LifeOf(j)' /\ FollowsOf(j)'
      BY <2>1, QuietKeeps
    <2> QED BY <2>2 DEF StoreInv
  <1>3. CASE Next
    BY <1>2, <1>3, UserStore, SettleStore, RestartStore DEF Next, UserStep, CallStep, Settling
  <1> QED BY <1>1, <1>3

\* The store follows the list, whatever jobs and schedules there are, whenever
\* the process dies and whichever write fails: add and remove write the store
\* first, update and the end of a run write it under the list's lock, and only a
\* write that failed after the list was changed leaves the two apart.
THEOREM StoreKeepsUp == Spec => []StoreFollowsList
  <1>1. Init => StoreInv
    BY DEF Init, StoreInv, LifeOf, FollowsOf, Idle
  <1>2. StoreInv => StoreFollowsList
    BY DEF StoreInv, FollowsOf, StoreFollowsList
  <1> QED BY <1>1, <1>2, InitTypes, StepTypes, StepStore, PTL DEF Spec

-----------------------------------------------------------------------------
(* One execution at a time.                                                *)

\* While nobody forces a run, a live execution is the job's only one, and the
\* mark of its job is the instant it started at: the mark is what keeps
\* process_due_jobs and clear_stuck_jobs off the job.
RunOf(j) ==
    /\ \A k \in Slots : exec[j][k].stage # "cloned"
    /\ \A k, l \in Live(j) : k = l
    /\ \A k \in Live(j) : mem[j] # Absent => mem[j].runAt = exec[j][k].started

RunInv == \A j \in Jobs : RunOf(j)

\* A step that neither marks a job nor starts or ends a run of it.
CalmJob(j) ==
    /\ mem'[j] # Absent => mem[j] # Absent /\ mem'[j].runAt = mem[j].runAt
    /\ \A k \in Slots :
          exec'[j][k].stage \in {"cloned", "running"}
          => /\ exec'[j][k].stage = exec[j][k].stage
             /\ exec'[j][k].started = exec[j][k].started

\* Such a step, and time, end runs at most.
LEMMA CalmKeeps ==
    ASSUME TypeOK, NEW j \in Jobs, RunOf(j), CalmJob(j), now' \in Nat, now <= now'
    PROVE  RunOf(j)'
  <1>1. now \in Nat /\ Stuck \in Nat /\ exec \in [Jobs -> [Slots -> Execution \cup {Idle}]]
    BY CronAssumption DEF TypeOK, Times
  <1>2. ASSUME NEW k \in Slots, k \in Live(j)'
        PROVE  k \in Live(j) /\ exec'[j][k].started = exec[j][k].started
    <2>1. exec'[j][k].stage = "running" /\ now' - exec'[j][k].started <= Stuck
      BY <1>2 DEF Live
    <2>2. exec[j][k].stage = "running" /\ exec'[j][k].started = exec[j][k].started
      BY <2>1 DEF CalmJob
    <2>3. exec[j][k] \in Execution
      BY <2>2, ExecIsOne DEF Stages
    <2>4. exec[j][k].started \in Nat
      BY <2>3, CronAssumption DEF Execution, Times
    <2> QED BY <1>1, <2>1, <2>2, <2>4 DEF Live
  <1>3. \A k \in Slots : exec'[j][k].stage # "cloned"
    BY DEF RunOf, CalmJob
  <1>4. \A k, l \in Live(j)' : k = l
    BY <1>2 DEF RunOf, Live
  <1>5. \A k \in Live(j)' : mem'[j] # Absent => mem'[j].runAt = exec'[j][k].started
    BY <1>2 DEF RunOf, CalmJob, Live
  <1> QED BY <1>3, <1>4, <1>5 DEF RunOf

\* A job without executions has none alive.
LEMMA IdleRuns ==
    ASSUME NEW j \in Jobs, \A k \in Slots : exec'[j][k] = Idle
    PROVE  RunOf(j)'
  BY DEF RunOf, Live, Idle

\* wake marks nothing.
LEMMA WakeCalm ==
    ASSUME TypeOK, NEW event \in BOOLEAN, Wake(event), NEW j \in Jobs
    PROVE  mem'[j] # Absent => mem[j] # Absent /\ mem'[j].runAt = mem[j].runAt
  <1>1. CASE mem' = mem
    BY <1>1
  <1>2. CASE /\ Heartbeat \in Jobs /\ mem[Heartbeat] # Absent
             /\ mem' = [mem EXCEPT ![Heartbeat].next = now]
    <2>1. mem'[j] = IF j = Heartbeat THEN [mem[j] EXCEPT !.next = now] ELSE mem[j]
      BY <1>2 DEF TypeOK
    <2>2. mem[Heartbeat] \in JobRecord
      BY <1>2, Recorded
    <2>3. [mem[Heartbeat] EXCEPT !.next = now].runAt = mem[Heartbeat].runAt
      BY <2>2 DEF JobRecord
    <2> QED BY <2>1, <2>3, <1>2
  <1> QED BY <1>1, <1>2, WakeFacts

\* The steps that are calm for every job.
LEMMA CalmSteps ==
    ASSUME TypeOK,
           \/ Tick \/ Stop \/ CommandCompleted \/ Look \/ Notified \/ Expired
           \/ \E i \in Jobs : RemoveDelete(i) \/ RemoveRetain(i)
           \/ \E i \in Jobs, s \in Schedules, enabled \in BOOLEAN, del \in Deletes :
                 \/ AddSave(i, s, enabled, del) \/ Update(i, s, enabled, del)
                 \/ RejectUpdate(i, s, enabled, del) \/ UpdateNotStored(i, s, enabled, del)
           \/ \E i \in Jobs, l \in Slots : Settling(i, l)
    PROVE  \A j \in Jobs : CalmJob(j)
  <1> DEFINE Good == \A j \in Jobs : CalmJob(j)
  <1>0. /\ mem \in [Jobs -> JobRecord \cup {Absent}]
        /\ exec \in [Jobs -> [Slots -> Execution \cup {Idle}]]
    BY DEF TypeOK
  <1>1. ASSUME Tick \/ Stop \/ Look \/ Notified \/ Expired PROVE Good
    BY <1>1 DEF Tick, Stop, Look, Notified, Expired, CalmJob
  <1>2. ASSUME CommandCompleted PROVE Good
    BY <1>2, WakeCalm DEF CommandCompleted, CalmJob
  <1>3. ASSUME NEW i \in Jobs, RemoveDelete(i) \/ RemoveRetain(i) PROVE Good
    BY <1>3, <1>0 DEF RemoveDelete, RemoveRetain, CalmJob
  <1>4. ASSUME NEW i \in Jobs, NEW s \in Schedules, NEW enabled \in BOOLEAN, NEW del \in Deletes,
               AddSave(i, s, enabled, del)
        PROVE Good
    BY <1>4 DEF AddSave, CalmJob
  <1>5. ASSUME NEW i \in Jobs, NEW s \in Schedules, NEW enabled \in BOOLEAN, NEW del \in Deletes,
               \/ Update(i, s, enabled, del) \/ RejectUpdate(i, s, enabled, del)
               \/ UpdateNotStored(i, s, enabled, del)
        PROVE Good
    <2>1. PICK r \in {Patched(i, s, enabled, del), Rescheduled(i, s, enabled, del)} :
             mem[i] # Absent /\ mem' = [mem EXCEPT ![i] = r] /\ exec' = exec
      BY <1>5 DEF Update, RejectUpdate, UpdateNotStored
    <2>2. mem[i] \in JobRecord
      BY <2>1, <1>0
    <2>3. r.runAt = mem[i].runAt
      BY <2>1, <2>2 DEF Patched, Rescheduled, JobRecord
    <2> QED BY <2>1, <2>3, <1>0 DEF CalmJob
  <1>6. ASSUME NEW i \in Jobs, NEW l \in Slots, Settling(i, l) PROVE Good
    <2>1. exec[i][l].stage \in {"settle", "removing", "wake"}
      BY <1>6 DEF Settling, SettleDelete, SettleRetain, Settle, WakeAfterRun
    <2>2. exec[i][l] \in Execution
      BY <2>1, ExecIsOne DEF Stages
    <2>3. /\ \A j \in Jobs, k \in Slots : j # i \/ k # l => exec'[j][k] = exec[j][k]
          /\ exec'[i][l].stage \notin {"cloned", "running"}
      <3>0. Idle.stage \notin {"cloned", "running"} /\ exec[i][l].stage \in Stages
        BY <2>1 DEF Idle, Stages
      <3>1. CASE AfterSettle(i, l)
        BY <3>0, <3>1, AfterTypes
      <3>2. CASE exec' = [exec EXCEPT ![i][l].stage = "removing"]
        BY <3>2, <1>0, <2>2 DEF Execution
      <3>3. CASE exec' = [exec EXCEPT ![i][l] = Idle]
        BY <3>3, <3>0, <1>0
      <3> QED BY <3>1, <3>2, <3>3, <1>6
            DEF Settling, SettleDelete, SettleRetain, Settle, WakeAfterRun
    <2>4. \A j \in Jobs : mem'[j] # Absent => mem[j] # Absent /\ mem'[j].runAt = mem[j].runAt
      <3>1. CASE SettleDelete(i, l) \/ SettleRetain(i, l)
        BY <3>1, <1>0 DEF SettleDelete, SettleRetain
      <3>2. CASE Settle(i, l)
        <4> DEFINE kept == IF exec[i][l].next = None THEN [mem[i] EXCEPT !.enabled = FALSE] ELSE mem[i]
        <4>1. mem' = IF mem[i] = Absent THEN mem ELSE [mem EXCEPT ![i] = kept]
          BY <3>2 DEF Settle
        <4>2. mem[i] # Absent => kept.runAt = mem[i].runAt
          BY <1>0 DEF JobRecord
        <4> HIDE DEF kept
        <4> QED BY <4>1, <4>2, <1>0
      <3>3. CASE WakeAfterRun(i, l)
        BY <3>3, WakeCalm DEF WakeAfterRun
      <3> QED BY <3>1, <3>2, <3>3, <1>6 DEF Settling
    <2> QED BY <2>3, <2>4 DEF CalmJob
  <1> HIDE DEF Good
  <1>7. Good
    BY <1>1, <1>2, <1>3, <1>4, <1>5, <1>6
  <1> QED BY <1>7 DEF Good

\* process_due_jobs starts a job only when no execution of it is alive.
LEMMA ProcessRuns ==
    ASSUME TypeOK, RunInv, Process
    PROVE  RunInv'
  <1> DEFINE due == {j \in Jobs : Due(j) /\ mem[j].runAt = None}
  <1>0. /\ mem \in [Jobs -> JobRecord \cup {Absent}]
        /\ exec \in [Jobs -> [Slots -> Execution \cup {Idle}]]
        /\ now \in Nat /\ None \notin Nat /\ Stuck \in Nat
    BY CronAssumption DEF TypeOK, Times
  <1>1. /\ \A j \in due : Free(j) # {}
        /\ mem' = [j \in Jobs |-> IF j \in due THEN [mem[j] EXCEPT !.runAt = now] ELSE mem[j]]
        /\ exec' = [j \in Jobs |->
                    IF j \in due
                    THEN [exec[j] EXCEPT ![CHOOSE k \in Free(j) : TRUE] = Clone(j, "running")]
                    ELSE exec[j]]
        /\ now' = now
    BY DEF Process
  <1>2. \A j \in due : mem[j] # Absent /\ mem[j].runAt = None
    BY DEF Due
  <1> HIDE DEF due
  <1>3. ASSUME NEW j \in Jobs PROVE RunOf(j)'
    <2>1. CASE j \notin due
      <3>1. CalmJob(j)
        BY <2>1, <1>1 DEF CalmJob
      <3> QED BY <3>1, <1>0, <1>1, CalmKeeps DEF RunInv
    <2>2. CASE j \in due
      <3>1. mem[j] \in JobRecord /\ mem[j].runAt = None
        BY <2>2, <1>0, <1>2
      <3>2. \A k \in Live(j) : FALSE
        <4>1. SUFFICES ASSUME NEW k \in Live(j) PROVE FALSE
          OBVIOUS
        <4>2. k \in Slots /\ exec[j][k].stage = "running"
          BY DEF Live
        <4>3. exec[j][k] \in Execution
          BY <4>2, ExecIsOne DEF Stages
        <4>4. exec[j][k].started \in Nat
          BY <4>3, CronAssumption DEF Execution, Times
        <4>5. mem[j].runAt = exec[j][k].started
          BY <2>2, <1>2 DEF RunInv, RunOf
        <4> QED BY <4>4, <4>5, <3>1, <1>0
      <3>3. PICK k \in Free(j) : exec'[j] = [exec[j] EXCEPT ![k] = Clone(j, "running")]
        BY <2>2, <1>1
      <3>4. /\ k \in Slots
            /\ \A l \in Slots : exec'[j][l] = IF l = k THEN Clone(j, "running") ELSE exec[j][l]
        BY <3>3, <1>0 DEF Free
      <3>5. Clone(j, "running").stage = "running" /\ Clone(j, "running").started = now
        BY DEF Clone
      <3>6. \A l \in Live(j)' : l = k
        BY <3>2, <3>4, <1>1 DEF Live
      <3>7. mem'[j].runAt = now
        BY <2>2, <1>1, <3>1 DEF JobRecord
      <3>8. \A l \in Slots : exec'[j][l].stage # "cloned"
        BY <3>4, <3>5 DEF RunInv, RunOf
      <3> QED BY <3>4, <3>5, <3>6, <3>7, <3>8 DEF RunOf
    <2> QED BY <2>1, <2>2
  <1> QED BY <1>3 DEF RunInv

\* clear_stuck_jobs takes no mark from a live execution.
LEMMA ClearRuns ==
    ASSUME TypeOK, RunInv, ClearStuck
    PROVE  RunInv'
  <1>0. mem \in [Jobs -> JobRecord \cup {Absent}] /\ Absent \notin JobRecord
    BY CronAssumption DEF TypeOK
  <1>1. ASSUME NEW j \in Jobs PROVE RunOf(j)'
    <2>1. UNCHANGED <<now, exec>>
      BY DEF ClearStuck
    <2>2. Live(j)' = Live(j)
      BY <2>1 DEF Live
    <2>3. ASSUME NEW k \in Live(j), mem'[j] # Absent
          PROVE  mem'[j].runAt = exec[j][k].started
      <3>1. now - exec[j][k].started <= Stuck
        BY DEF Live
      <3>2. mem[j] # Absent
        BY <2>3 DEF ClearStuck
      <3>3. mem[j].runAt = exec[j][k].started
        BY <3>2 DEF RunInv, RunOf
      <3>4. exec[j][k] \in Execution
        BY ExecIsOne DEF Live, Stages
      <3>5. exec[j][k].started \in Nat /\ now \in Nat /\ Stuck \in Nat
        BY <3>4, CronAssumption DEF Execution, Times, TypeOK
      <3>6. ~(now - mem[j].runAt > Stuck)
        BY <3>1, <3>3, <3>5
      <3>7. mem'[j] = mem[j]
        BY <3>6 DEF ClearStuck
      <3> QED BY <3>3, <3>7
    <2> QED BY <2>1, <2>2, <2>3 DEF RunInv, RunOf
  <1> QED BY <1>1 DEF RunInv

\* An execution that returns in time is the only live one of its job: when it
\* takes the mark away, it takes its own.
LEMMA FinishRuns ==
    ASSUME TypeOK, RunInv, ~LateFinish, NEW i \in Jobs, NEW l \in Slots, Finish(i, l)
    PROVE  RunInv'
  <1>0. /\ mem \in [Jobs -> JobRecord \cup {Absent}]
        /\ exec \in [Jobs -> [Slots -> Execution \cup {Idle}]] /\ now \in Nat
    BY DEF TypeOK, Times
  <1>1. exec[i][l].stage = "running" /\ now - exec[i][l].started <= Stuck /\ now' = now
    BY DEF Finish
  <1>2. l \in Live(i)
    BY <1>1 DEF Live
  <1>3. exec[i][l] \in Execution
    BY <1>1, ExecIsOne DEF Stages
  <1>4. /\ exec'[i][l].stage = "settle"
        /\ \A j \in Jobs, k \in Slots : j # i \/ k # l => exec'[j][k] = exec[j][k]
    BY <1>0, <1>3 DEF Finish, Execution
  <1>5. \A j \in Jobs : j # i => mem'[j] = mem[j]
    BY <1>0 DEF Finish
  <1>6. ASSUME NEW j \in Jobs PROVE RunOf(j)'
    <2>1. CASE j # i
      <3>1. CalmJob(j)
        BY <2>1, <1>4, <1>5 DEF CalmJob
      <3> QED BY <3>1, <1>0, <1>1, CalmKeeps DEF RunInv
    <2>2. CASE j = i
      <3>1. \A k \in Live(i)' : k \in Live(i) /\ k # l
        BY <1>1, <1>4 DEF Live
      <3>2. \A k \in Live(i)' : FALSE
        BY <3>1, <1>2 DEF RunInv, RunOf
      <3>3. \A k \in Slots : exec'[i][k].stage # "cloned"
        BY <1>4 DEF RunInv, RunOf
      <3> QED BY <3>2, <3>3, <2>2 DEF RunOf
    <2> QED BY <2>1, <2>2
  <1> QED BY <1>6 DEF RunInv

\* No step but a forced run or a late return starts a job twice.
LEMMA StepRuns ==
    ASSUME ~ForceRuns, ~LateFinish
    PROVE  TypeOK /\ TypeOK' /\ StoreInv /\ RunInv /\ [Next]_vars => RunInv'
  <1> SUFFICES ASSUME TypeOK, TypeOK', StoreInv, RunInv, [Next]_vars PROVE RunInv'
    OBVIOUS
  <1>0. now \in Nat /\ now' \in Nat
    BY DEF TypeOK, Times
  <1>1. ASSUME \A j \in Jobs : CalmJob(j), now <= now' PROVE RunInv'
    BY <1>0, <1>1, CalmKeeps DEF RunInv
  <1>2. CASE UNCHANGED vars
    <2>1. (\A j \in Jobs : CalmJob(j)) /\ now <= now'
      BY <1>0, <1>2 DEF vars, CalmJob
    <2> QED BY <1>1, <2>1
  <1>3. ASSUME \/ Tick \/ Stop \/ CommandCompleted \/ Look \/ Notified \/ Expired
               \/ \E i \in Jobs : RemoveDelete(i) \/ RemoveRetain(i)
               \/ \E i \in Jobs, s \in Schedules, enabled \in BOOLEAN, del \in Deletes :
                     \/ AddSave(i, s, enabled, del) \/ Update(i, s, enabled, del)
                     \/ RejectUpdate(i, s, enabled, del) \/ UpdateNotStored(i, s, enabled, del)
               \/ \E i \in Jobs, l \in Slots : Settling(i, l)
        PROVE RunInv'
    <2>1. \A j \in Jobs : CalmJob(j)
      BY <1>3, CalmSteps
    <2>2. now' = now \/ now' = now + 1
      <3>1. ASSUME Tick \/ Stop \/ CommandCompleted \/ Look \/ Notified \/ Expired
            PROVE  now' = now \/ now' = now + 1
        BY <3>1 DEF Tick, Stop, CommandCompleted, Look, Notified, Expired
      <3>2. ASSUME NEW i \in Jobs, RemoveDelete(i) \/ RemoveRetain(i)
            PROVE  now' = now
        BY <3>2 DEF RemoveDelete, RemoveRetain
      <3>3. ASSUME NEW i \in Jobs, NEW s \in Schedules, NEW enabled \in BOOLEAN, NEW del \in Deletes,
                   \/ AddSave(i, s, enabled, del) \/ Update(i, s, enabled, del)
                   \/ RejectUpdate(i, s, enabled, del) \/ UpdateNotStored(i, s, enabled, del)
            PROVE  now' = now
        BY <3>3 DEF AddSave, Update, RejectUpdate, UpdateNotStored
      <3>4. ASSUME NEW i \in Jobs, NEW l \in Slots, Settling(i, l)
            PROVE  now' = now
        BY <3>4 DEF Settling, SettleDelete, SettleRetain, Settle, WakeAfterRun
      <3> QED BY <1>3, <3>1, <3>2, <3>3, <3>4
    <2> QED BY <2>1, <2>2, <1>0, <1>1
  <1>4. ASSUME Start \/ Crash PROVE RunInv'
    <2>1. \A j \in Jobs, k \in Slots : exec'[j][k] = Idle
      BY <1>4 DEF Start, Crash, StoreInv, LifeOf
    <2> QED BY <2>1, IdleRuns DEF RunInv
  <1>5. ASSUME NEW i \in Jobs, AddPush(i) PROVE RunInv'
    <2>1. \A k \in Slots : exec'[i][k] = Idle
      BY <1>5 DEF AddPush, StoreInv, LifeOf
    <2>2. \A j \in Jobs : j # i => CalmJob(j)
      BY <1>5 DEF AddPush, CalmJob, TypeOK
    <2>3. now' = now
      BY <1>5 DEF AddPush
    <2>4. ASSUME NEW j \in Jobs PROVE RunOf(j)'
      <3>1. CASE j = i
        BY <3>1, <2>1, IdleRuns
      <3>2. CASE j # i
        BY <3>2, <2>2, <2>3, <1>0, CalmKeeps DEF RunInv
      <3> QED BY <3>1, <3>2
    <2> QED BY <2>4 DEF RunInv
  <1>6. ASSUME NEW i \in Jobs, RunClone(i) PROVE FALSE
    BY <1>6 DEF RunClone
  <1>7. ASSUME NEW i \in Jobs, NEW l \in Slots, RunMark(i, l) PROVE FALSE
    BY <1>7 DEF RunMark, RunInv, RunOf
  <1>8. CASE Next
    BY <1>3, <1>4, <1>5, <1>6, <1>7, <1>8, ProcessRuns, ClearRuns, FinishRuns
    DEF Next, TimerStep, UserStep, CallStep
  <1> QED BY <1>2, <1>8

\* "Mark as running before executing (prevents duplicate runs)": while nobody
\* forces a run and no execution outlives the stuck threshold, a job never has
\* two executions, for every number of jobs, schedules and slots.
THEOREM RunsAreSingle ==
    ASSUME ~ForceRuns, ~LateFinish
    PROVE  Spec => []NoDuplicateRuns
  <1>1. Init => StoreInv /\ RunInv
    BY DEF Init, StoreInv, LifeOf, FollowsOf, RunInv, RunOf, Live, Idle
  <1>2. RunInv => NoDuplicateRuns
    <2> SUFFICES ASSUME RunInv, NEW j \in Jobs PROVE Cardinality(Live(j)) <= 1
      BY DEF NoDuplicateRuns
    <2>1. CASE Live(j) = {}
      BY <2>1, FS_EmptySet
    <2>2. CASE Live(j) # {}
      <3>1. PICK k \in Live(j) : TRUE
        BY <2>2
      <3>2. Live(j) = {k}
        BY <3>1 DEF RunInv, RunOf
      <3>3. Cardinality({k}) = 1
        BY FS_Singleton, Zenon
      <3> QED BY <3>2, <3>3
    <2> QED BY <2>1, <2>2
  <1> QED BY <1>1, <1>2, InitTypes, StepTypes, StepStore, StepRuns, PTL DEF Spec

-----------------------------------------------------------------------------
(* The timer wakes in time.                                                *)

\* While a job runs with the schedule it has now, its entry in the list starts
\* no later than the schedule's next instant: the entry is the start that made
\* the job due, or was computed since.
NextOf(j) ==
    \A k \in Live(j) :
        mem[j] # Absent /\ mem[j].enabled /\ exec[j][k].sched = mem[j].sched
        => NotAfter(mem[j].next, NextRun(mem[j].sched, now))

NextInv == \A j \in Jobs : NextOf(j)

\* A step that leaves a job's start alone or computes it anew.
EasyJob(j) ==
    /\ mem'[j] # Absent /\ mem'[j].enabled
       => \/ /\ mem[j] # Absent /\ mem[j].enabled
             /\ mem'[j].sched = mem[j].sched /\ mem'[j].next = mem[j].next
          \/ NotAfter(mem'[j].next, NextRun(mem'[j].sched, now'))
    /\ \A k \in Slots :
          exec'[j][k].stage = "running"
          => /\ exec[j][k].stage = "running"
             /\ exec'[j][k].started = exec[j][k].started
             /\ exec'[j][k].sched = exec[j][k].sched

\* NotAfter is transitive.
LEMMA NotAfterTransitive ==
    ASSUME NEW a \in Starts, NEW b \in Starts, NEW c \in Starts, NotAfter(a, b), NotAfter(b, c)
    PROVE  NotAfter(a, c)
  BY CronAssumption DEF Starts, NotAfter

\* An instant is not after the next run of a later one.
LEMMA PastIsNotAfter ==
    ASSUME NEW s \in Schedules, NEW t \in Nat, NEW a \in Nat, a <= t
    PROVE  NotAfter(a, NextRun(s, t))
  <1>1. NextRun(s, t) \in Nat \cup {None} /\ (NextRun(s, t) # None => NextRun(s, t) > t)
    BY NextRunFacts
  <1> QED BY <1>1, CronAssumption DEF NotAfter

\* The next run of a schedule is not after itself.
LEMMA NextIsNotAfter ==
    ASSUME NEW s \in Schedules, NEW t \in Nat
    PROVE  NotAfter(NextRun(s, t), NextRun(s, t))
  <1>1. NextRun(s, t) \in Nat \cup {None}
    BY NextRunFacts
  <1> QED BY <1>1, CronAssumption DEF NotAfter

\* Easy steps keep the invariant, because as time passes next runs move back.
LEMMA EasyKeeps ==
    ASSUME TypeOK, TypeOK', NEW j \in Jobs, NextOf(j), EasyJob(j), now <= now'
    PROVE  NextOf(j)'
  <1>1. now \in Nat /\ now' \in Nat /\ Stuck \in Nat
    BY CronAssumption DEF TypeOK, Times
  <1> SUFFICES ASSUME NEW k \in Live(j)', mem'[j] # Absent, mem'[j].enabled,
                      exec'[j][k].sched = mem'[j].sched
               PROVE  NotAfter(mem'[j].next, NextRun(mem'[j].sched, now'))
    BY DEF NextOf
  <1>2. k \in Slots /\ exec'[j][k].stage = "running" /\ now' - exec'[j][k].started <= Stuck
    BY DEF Live
  <1>3. /\ exec[j][k].stage = "running" /\ exec'[j][k].started = exec[j][k].started
        /\ exec'[j][k].sched = exec[j][k].sched
    BY <1>2 DEF EasyJob
  <1>4. exec[j][k] \in Execution
    BY <1>2, <1>3, ExecIsOne DEF Stages
  <1>5. exec[j][k].started \in Nat
    BY <1>4, CronAssumption DEF Execution, Times
  <1>6. k \in Live(j)
    BY <1>1, <1>2, <1>3, <1>5 DEF Live
  <1>7. CASE /\ mem[j] # Absent /\ mem[j].enabled
             /\ mem'[j].sched = mem[j].sched /\ mem'[j].next = mem[j].next
    <2>1. NotAfter(mem[j].next, NextRun(mem[j].sched, now))
      BY <1>3, <1>6, <1>7 DEF NextOf
    <2>2. mem[j].sched \in Schedules /\ mem[j].next \in Starts
      BY <1>7 DEF TypeOK, JobRecord, Starts
    <2>3. NotAfter(NextRun(mem[j].sched, now), NextRun(mem[j].sched, now'))
      BY <1>1, <2>2, NextRunGrows
    <2>4. NextRun(mem[j].sched, now) \in Starts /\ NextRun(mem[j].sched, now') \in Starts
      BY <1>1, <2>2, NextRunFacts DEF Starts
    <2>5. NotAfter(mem[j].next, NextRun(mem[j].sched, now'))
      BY <2>1, <2>2, <2>3, <2>4, NotAfterTransitive
    <2> QED BY <2>5, <1>7
  <1> QED BY <1>7 DEF EasyJob

\* What wake leaves of a job: its start is the same, or is now.
LEMMA WakeEasy ==
    ASSUME TypeOK, NEW event \in BOOLEAN, Wake(event), now' = now, NEW j \in Jobs,
           mem'[j] # Absent, mem'[j].enabled
    PROVE  \/ /\ mem[j] # Absent /\ mem[j].enabled
              /\ mem'[j].sched = mem[j].sched /\ mem'[j].next = mem[j].next
           \/ NotAfter(mem'[j].next, NextRun(mem'[j].sched, now'))
  <1>1. CASE mem' = mem
    BY <1>1
  <1>2. CASE /\ Heartbeat \in Jobs /\ mem[Heartbeat] # Absent
             /\ mem' = [mem EXCEPT ![Heartbeat].next = now]
    <2>1. mem'[j] = IF j = Heartbeat THEN [mem[j] EXCEPT !.next = now] ELSE mem[j]
      BY <1>2 DEF TypeOK
    <2>2. mem[Heartbeat] \in JobRecord /\ now \in Nat
      BY <1>2, Recorded
    <2>3. /\ [mem[Heartbeat] EXCEPT !.next = now].next = now
          /\ [mem[Heartbeat] EXCEPT !.next = now].sched \in Schedules
      BY <2>2 DEF JobRecord
    <2>4. NotAfter(now, NextRun([mem[Heartbeat] EXCEPT !.next = now].sched, now))
      BY <2>2, <2>3, PastIsNotAfter
    <2> QED BY <2>1, <2>3, <2>4, <1>2
  <1> QED BY <1>1, <1>2, WakeFacts

\* What a settled execution leaves in the list, in the exec table and the clock.
LEMMA SettlingFacts ==
    ASSUME TypeOK, NEW i \in Jobs, NEW l \in Slots, Settling(i, l)
    PROVE  /\ \A j \in Jobs, k \in Slots : j # i \/ k # l => exec'[j][k] = exec[j][k]
           /\ exec'[i][l].stage # "running"
           /\ now' = now /\ timer' = timer
           /\ \/ Wake(FALSE)
              \/ /\ permit' = permit
                 /\ \A j \in Jobs :
                       mem'[j] # Absent /\ mem'[j].enabled
                       => /\ mem[j] # Absent /\ mem[j].enabled
                          /\ mem'[j].sched = mem[j].sched /\ mem'[j].next = mem[j].next
  <1>0. /\ mem \in [Jobs -> JobRecord \cup {Absent}]
        /\ exec \in [Jobs -> [Slots -> Execution \cup {Idle}]]
    BY DEF TypeOK
  <1>1. exec[i][l].stage \in {"settle", "removing", "wake"}
    BY DEF Settling, SettleDelete, SettleRetain, Settle, WakeAfterRun
  <1>2. exec[i][l] \in Execution
    BY <1>1, ExecIsOne DEF Stages
  <1>3. /\ \A j \in Jobs, k \in Slots : j # i \/ k # l => exec'[j][k] = exec[j][k]
        /\ exec'[i][l].stage # "running"
    <2>0. Idle.stage # "running" /\ exec[i][l].stage \in Stages
      BY <1>1 DEF Idle, Stages
    <2>1. CASE AfterSettle(i, l)
      BY <2>0, <2>1, AfterTypes
    <2>2. CASE exec' = [exec EXCEPT ![i][l].stage = "removing"]
      BY <2>2, <1>0, <1>2 DEF Execution
    <2>3. CASE exec' = [exec EXCEPT ![i][l] = Idle]
      BY <2>3, <2>0, <1>0
    <2> QED BY <2>1, <2>2, <2>3
          DEF Settling, SettleDelete, SettleRetain, Settle, WakeAfterRun
  <1>4. now' = now /\ timer' = timer
    BY DEF Settling, SettleDelete, SettleRetain, Settle, WakeAfterRun
  <1> DEFINE Same(j) == mem'[j] # Absent /\ mem'[j].enabled
                        => /\ mem[j] # Absent /\ mem[j].enabled
                           /\ mem'[j].sched = mem[j].sched /\ mem'[j].next = mem[j].next
  <1>5. ASSUME SettleDelete(i, l) \/ SettleRetain(i, l)
        PROVE  permit' = permit /\ \A j \in Jobs : Same(j)
    BY <1>5, <1>0 DEF SettleDelete, SettleRetain
  <1>6. ASSUME Settle(i, l)
        PROVE  permit' = permit /\ \A j \in Jobs : Same(j)
    <2> DEFINE kept == IF exec[i][l].next = None THEN [mem[i] EXCEPT !.enabled = FALSE] ELSE mem[i]
    <2>1. mem' = IF mem[i] = Absent THEN mem ELSE [mem EXCEPT ![i] = kept]
      BY <1>6 DEF Settle
    <2>2. mem[i] # Absent => kept.enabled = FALSE \/ kept = mem[i]
      BY <1>0 DEF JobRecord
    <2>3. permit' = permit
      BY <1>6 DEF Settle
    <2> HIDE DEF kept
    <2> QED BY <2>1, <2>2, <2>3, <1>0
  <1>7. WakeAfterRun(i, l) => Wake(FALSE)
    BY DEF WakeAfterRun
  <1> QED BY <1>3, <1>4, <1>5, <1>6, <1>7 DEF Settling

\* A patch that is carried through computes the job's start anew.
LEMMA RescheduledFacts ==
    ASSUME TypeOK, NEW i \in Jobs, mem[i] # Absent,
           NEW s \in Schedules, NEW b \in BOOLEAN, NEW d \in Deletes,
           Rescheduled(i, s, b, d).enabled
    PROVE  NotAfter(Rescheduled(i, s, b, d).next, NextRun(Rescheduled(i, s, b, d).sched, now))
  <1> DEFINE n == IF b THEN NextRun(s, now) ELSE None
             p == [mem[i] EXCEPT !.sched = s, !.enabled = b, !.del = d]
  <1>1. mem[i] \in JobRecord /\ now \in Nat
    BY Recorded
  <1>2. p \in JobRecord
    BY <1>1 DEF JobRecord
  <1>3. /\ Rescheduled(i, s, b, d) = [p EXCEPT !.next = n]
    BY DEF Rescheduled, Patched
  <1>4. p.enabled = b /\ p.sched = s
    BY <1>1 DEF JobRecord
  <1> HIDE DEF p
  <1>5. /\ [p EXCEPT !.next = n].next = n /\ [p EXCEPT !.next = n].sched = s
        /\ [p EXCEPT !.next = n].enabled = b
    BY <1>2, <1>4 DEF JobRecord
  <1> QED BY <1>1, <1>3, <1>5, NextIsNotAfter

\* The steps that are easy for every job.
LEMMA EasySteps ==
    ASSUME TypeOK, ~Rejections,
           \/ UNCHANGED vars
           \/ Tick \/ Stop \/ CommandCompleted \/ Look \/ Notified \/ Expired \/ ClearStuck
           \/ \E i \in Jobs : RemoveDelete(i) \/ RemoveRetain(i)
           \/ \E i \in Jobs, s \in Schedules, enabled \in BOOLEAN, del \in Deletes :
                 \/ AddSave(i, s, enabled, del) \/ Update(i, s, enabled, del)
                 \/ RejectUpdate(i, s, enabled, del) \/ UpdateNotStored(i, s, enabled, del)
           \/ \E i \in Jobs, l \in Slots : Settling(i, l)
    PROVE  (\A j \in Jobs : EasyJob(j)) /\ now <= now'
  <1> DEFINE Good == (\A j \in Jobs : EasyJob(j)) /\ now <= now'
  <1>0. /\ mem \in [Jobs -> JobRecord \cup {Absent}] /\ now \in Nat
        /\ exec \in [Jobs -> [Slots -> Execution \cup {Idle}]]
    BY DEF TypeOK, Times
  <1>1. ASSUME UNCHANGED vars \/ Tick \/ Stop \/ Look \/ Notified \/ Expired PROVE Good
    <2>1. mem' = mem /\ exec' = exec
      BY <1>1 DEF vars, Tick, Stop, Look, Notified, Expired
    <2>2. now' = now \/ now' = now + 1
      BY <1>1 DEF vars, Tick, Stop, Look, Notified, Expired
    <2> QED BY <2>1, <2>2, <1>0 DEF EasyJob
  <1>2. ASSUME CommandCompleted PROVE Good
    <2>1. Wake(TRUE) /\ exec' = exec /\ now' = now
      BY <1>2 DEF CommandCompleted
    <2>2. ASSUME NEW j \in Jobs, mem'[j] # Absent, mem'[j].enabled
          PROVE  \/ /\ mem[j] # Absent /\ mem[j].enabled
                    /\ mem'[j].sched = mem[j].sched /\ mem'[j].next = mem[j].next
                 \/ NotAfter(mem'[j].next, NextRun(mem'[j].sched, now'))
      BY <2>1, <2>2, WakeEasy
    <2> QED BY <2>1, <2>2, <1>0 DEF EasyJob
  <1>3. ASSUME ClearStuck PROVE Good
    <2>1. exec' = exec /\ now' = now
      BY <1>3 DEF ClearStuck
    <2>2. ASSUME NEW j \in Jobs, mem'[j] # Absent, mem'[j].enabled
          PROVE  /\ mem[j] # Absent /\ mem[j].enabled
                 /\ mem'[j].sched = mem[j].sched /\ mem'[j].next = mem[j].next
      BY <1>3, <1>0, <2>2 DEF ClearStuck, JobRecord
    <2> QED BY <2>1, <2>2, <1>0 DEF EasyJob
  <1>4. ASSUME NEW i \in Jobs, RemoveDelete(i) \/ RemoveRetain(i) PROVE Good
    BY <1>4, <1>0 DEF RemoveDelete, RemoveRetain, EasyJob
  <1>5. ASSUME NEW i \in Jobs, NEW s \in Schedules, NEW enabled \in BOOLEAN, NEW del \in Deletes,
               AddSave(i, s, enabled, del)
        PROVE Good
    BY <1>5, <1>0 DEF AddSave, EasyJob
  <1>6. ASSUME NEW i \in Jobs, NEW s \in Schedules, NEW enabled \in BOOLEAN, NEW del \in Deletes,
               \/ Update(i, s, enabled, del) \/ RejectUpdate(i, s, enabled, del)
               \/ UpdateNotStored(i, s, enabled, del)
        PROVE Good
    <2> DEFINE r == Rescheduled(i, s, enabled, del)
    <2>1. mem[i] # Absent /\ mem' = [mem EXCEPT ![i] = r] /\ exec' = exec /\ now' = now
      BY <1>6 DEF Update, RejectUpdate, UpdateNotStored
    <2>2. r.enabled => NotAfter(r.next, NextRun(r.sched, now))
      BY <2>1, RescheduledFacts
    <2> HIDE DEF r
    <2>3. \A j \in Jobs : mem'[j] = IF j = i THEN r ELSE mem[j]
      BY <2>1, <1>0
    <2> QED BY <2>1, <2>2, <2>3, <1>0 DEF EasyJob
  <1>7. ASSUME NEW i \in Jobs, NEW l \in Slots, Settling(i, l) PROVE Good
    <2>1. /\ \A j \in Jobs, k \in Slots : j # i \/ k # l => exec'[j][k] = exec[j][k]
          /\ exec'[i][l].stage # "running" /\ now' = now
          /\ \/ Wake(FALSE)
             \/ \A j \in Jobs :
                   mem'[j] # Absent /\ mem'[j].enabled
                   => /\ mem[j] # Absent /\ mem[j].enabled
                      /\ mem'[j].sched = mem[j].sched /\ mem'[j].next = mem[j].next
      BY <1>7, SettlingFacts
    <2>2. ASSUME NEW j \in Jobs, mem'[j] # Absent, mem'[j].enabled
          PROVE  \/ /\ mem[j] # Absent /\ mem[j].enabled
                    /\ mem'[j].sched = mem[j].sched /\ mem'[j].next = mem[j].next
                 \/ NotAfter(mem'[j].next, NextRun(mem'[j].sched, now'))
      BY <2>1, <2>2, WakeEasy
    <2>3. ASSUME NEW j \in Jobs PROVE EasyJob(j)
      BY <2>1, <2>2 DEF EasyJob
    <2> QED BY <2>1, <2>3, <1>0
  <1> HIDE DEF Good
  <1>8. Good
    BY <1>1, <1>2, <1>3, <1>4, <1>5, <1>6, <1>7
  <1> QED BY <1>8 DEF Good

\* No step puts the entry of a running job behind its schedule.
LEMMA StepNext ==
    ASSUME ~ForceRuns, ~LateFinish, ~Rejections
    PROVE  TypeOK /\ TypeOK' /\ StoreInv /\ RunInv /\ NextInv /\ [Next]_vars => NextInv'
  <1> SUFFICES ASSUME TypeOK, TypeOK', StoreInv, RunInv, NextInv, [Next]_vars PROVE NextInv'
    OBVIOUS
  <1>0. /\ mem \in [Jobs -> JobRecord \cup {Absent}] /\ now \in Nat
        /\ exec \in [Jobs -> [Slots -> Execution \cup {Idle}]]
    BY DEF TypeOK, Times
  <1>1. ASSUME \/ UNCHANGED vars
               \/ Tick \/ Stop \/ CommandCompleted \/ Look \/ Notified \/ Expired \/ ClearStuck
               \/ \E i \in Jobs : RemoveDelete(i) \/ RemoveRetain(i)
               \/ \E i \in Jobs, s \in Schedules, enabled \in BOOLEAN, del \in Deletes :
                     \/ AddSave(i, s, enabled, del) \/ Update(i, s, enabled, del)
                     \/ RejectUpdate(i, s, enabled, del) \/ UpdateNotStored(i, s, enabled, del)
               \/ \E i \in Jobs, l \in Slots : Settling(i, l)
        PROVE NextInv'
    <2>1. (\A j \in Jobs : EasyJob(j)) /\ now <= now'
      BY <1>1, EasySteps
    <2> QED BY <2>1, EasyKeeps DEF NextInv
  <1>2. ASSUME Start \/ Crash PROVE NextInv'
    <2>1. \A j \in Jobs, k \in Slots : exec'[j][k] = Idle
      BY <1>2 DEF Start, Crash, StoreInv, LifeOf
    <2> QED BY <2>1 DEF NextInv, NextOf, Live, Idle
  <1>3. ASSUME NEW i \in Jobs, AddPush(i) PROVE NextInv'
    <2>1. \A k \in Slots : exec'[i][k] = Idle
      BY <1>3 DEF AddPush, StoreInv, LifeOf
    <2>2. NextOf(i)'
      BY <2>1 DEF NextOf, Live, Idle
    <2>3. (\A j \in Jobs : j # i => EasyJob(j)) /\ now <= now'
      BY <1>3, <1>0 DEF AddPush, EasyJob
    <2>4. \A j \in Jobs : j # i => NextOf(j)'
      BY <2>3, EasyKeeps DEF NextInv
    <2> QED BY <2>2, <2>4 DEF NextInv
  <1>4. ASSUME Process PROVE NextInv'
    <2> DEFINE due == {j \in Jobs : Due(j) /\ mem[j].runAt = None}
    <2>1. /\ \A j \in due : Free(j) # {}
          /\ mem' = [j \in Jobs |-> IF j \in due THEN [mem[j] EXCEPT !.runAt = now] ELSE mem[j]]
          /\ exec' = [j \in Jobs |->
                      IF j \in due
                      THEN [exec[j] EXCEPT ![CHOOSE k \in Free(j) : TRUE] = Clone(j, "running")]
                      ELSE exec[j]]
          /\ now' = now
      BY <1>4 DEF Process
    <2>2. \A j \in due : mem[j] # Absent /\ mem[j].next # None /\ mem[j].next <= now
      BY DEF Due
    <2> HIDE DEF due
    <2>3. ASSUME NEW j \in Jobs PROVE NextOf(j)'
      <3>1. CASE j \notin due
        <4>1. EasyJob(j) /\ now <= now'
          BY <3>1, <2>1, <1>0 DEF EasyJob
        <4> QED BY <4>1, EasyKeeps DEF NextInv
      <3>2. CASE j \in due
        <4>1. mem[j] \in JobRecord /\ mem[j].next \in Nat /\ mem[j].next <= now
          BY <3>2, <2>2, <1>0 DEF JobRecord
        <4>2. mem'[j].next = mem[j].next /\ mem'[j].sched = mem[j].sched /\ mem[j].sched \in Schedules
          BY <3>2, <4>1, <2>1 DEF JobRecord
        <4>3. NotAfter(mem[j].next, NextRun(mem[j].sched, now))
          BY <4>1, <4>2, <1>0, PastIsNotAfter
        <4> QED BY <4>2, <4>3, <2>1 DEF NextOf
      <3> QED BY <3>1, <3>2
    <2> QED BY <2>3 DEF NextInv
  <1>5. ASSUME NEW i \in Jobs, NEW l \in Slots, Finish(i, l) PROVE NextInv'
    <2>1. exec[i][l].stage = "running" /\ now - exec[i][l].started <= Stuck /\ now' = now
      BY <1>5 DEF Finish
    <2>2. l \in Live(i)
      BY <2>1 DEF Live
    <2>3. exec[i][l] \in Execution
      BY <2>1, ExecIsOne DEF Stages
    <2>4. /\ exec'[i][l].stage = "settle"
          /\ \A j \in Jobs, k \in Slots : j # i \/ k # l => exec'[j][k] = exec[j][k]
      BY <1>5, <1>0, <2>3 DEF Finish, Execution
    <2>5. \A j \in Jobs : j # i => mem'[j] = mem[j]
      BY <1>5, <1>0 DEF Finish
    <2>6. \A k \in Live(i)' : k \in Live(i) /\ k # l
      BY <2>1, <2>4 DEF Live
    <2>7. NextOf(i)'
      BY <2>2, <2>6 DEF RunInv, RunOf, NextOf
    <2>8. (\A j \in Jobs : j # i => EasyJob(j)) /\ now <= now'
      BY <2>1, <2>4, <2>5, <1>0 DEF EasyJob
    <2>9. \A j \in Jobs : j # i => NextOf(j)'
      BY <2>8, EasyKeeps DEF NextInv
    <2> QED BY <2>7, <2>9 DEF NextInv
  <1>6. ASSUME NEW i \in Jobs, RunClone(i) PROVE FALSE
    BY <1>6 DEF RunClone
  <1>7. ASSUME NEW i \in Jobs, NEW l \in Slots, RunMark(i, l) PROVE FALSE
    BY <1>7 DEF RunMark, RunInv, RunOf
  <1> QED BY <1>1, <1>2, <1>3, <1>4, <1>5, <1>6, <1>7 DEF Next, TimerStep, UserStep, CallStep

\* A step that brings no job's start forward.
LaterJob(j) ==
    mem'[j] # Absent /\ mem'[j].enabled /\ mem'[j].next # None
    => /\ mem[j] # Absent /\ mem[j].enabled /\ mem[j].next # None
       /\ mem[j].next <= mem'[j].next

\* Such a step does not make a sleeping timer late.
LEMMA LaterSleeps ==
    ASSUME TypeOK, TypeOK', \A j \in Jobs : LaterJob(j), timer' = timer, permit => permit'
    PROVE  Oversleeps' => Oversleeps
  <1> SUFFICES ASSUME Oversleeps' PROVE Oversleeps
    OBVIOUS
  <1>1. PICK j \in Jobs : /\ mem'[j] # Absent /\ mem'[j].enabled
                          /\ mem'[j].next # None /\ mem'[j].next < timer'.until
    BY DEF Oversleeps
  <1>2. mem[j] # Absent /\ mem[j].enabled /\ mem[j].next # None /\ mem[j].next <= mem'[j].next
    BY <1>1 DEF LaterJob
  <1>3. mem[j].next \in Nat /\ mem'[j].next \in Nat /\ timer.until \in Nat
    BY <1>1, <1>2 DEF TypeOK, JobRecord
  <1>4. mem[j].next < timer.until
    BY <1>1, <1>2, <1>3
  <1> QED BY <1>2, <1>4 DEF Oversleeps

\* A look at the list takes the earliest start.
LEMMA LookInTime ==
    ASSUME TypeOK, Look
    PROVE  ~Oversleeps'
  <1> DEFINE starts == {mem[j].next : j \in {i \in Jobs :
                           mem[i] # Absent /\ mem[i].enabled /\ mem[i].next # None}}
             until == IF starts = {} THEN now + Poll ELSE Earliest(starts)
  <1>1. starts \in SUBSET Nat
    BY DEF TypeOK, JobRecord
  <1>2. mem' = mem /\ timer' = IF until <= now THEN Awake("process")
                               ELSE [pc |-> "asleep", until |-> until]
    BY DEF Look
  <1> SUFFICES ASSUME Oversleeps' PROVE FALSE
    OBVIOUS
  <1>3. PICK j \in Jobs : /\ mem[j] # Absent /\ mem[j].enabled
                          /\ mem[j].next # None /\ mem[j].next < timer'.until
    BY <1>2 DEF Oversleeps
  <1>4. mem[j].next \in starts
    BY <1>3
  <1>5. Earliest(starts) <= mem[j].next /\ Earliest(starts) \in starts
    BY <1>1, <1>4, EarliestFacts
  <1>6. until = Earliest(starts)
    BY <1>4
  <1> HIDE DEF starts, until
  <1>7. timer'.until = until
    BY <1>2 DEF Oversleeps, Awake
  <1>8. Earliest(starts) \in Nat /\ mem[j].next \in Nat
    BY <1>1, <1>4, <1>5
  <1> QED BY <1>3, <1>5, <1>6, <1>7, <1>8

\* An execution of a job that was not changed meanwhile brings nothing forward.
LEMMA FinishInTime ==
    ASSUME TypeOK, TypeOK', NextInv, ~LateFinish, NEW i \in Jobs, NEW l \in Slots,
           Finish(i, l), exec[i][l].sched = mem[i].sched
    PROVE  Oversleeps' => Oversleeps
  <1> DEFINE next == NextRun(exec[i][l].sched, now)
  <1>0. mem \in [Jobs -> JobRecord \cup {Absent}] /\ now \in Nat /\ None \notin Nat
    BY CronAssumption DEF TypeOK, Times
  <1>1. exec[i][l].stage = "running" /\ now - exec[i][l].started <= Stuck
    BY DEF Finish
  <1>2. l \in Live(i)
    BY <1>1 DEF Live
  <1>3. \A j \in Jobs : j # i \/ mem[i] = Absent => mem'[j] = mem[j]
    BY <1>0 DEF Finish
  <1>4. mem[i] # Absent => mem'[i].next = next /\ mem'[i].enabled = mem[i].enabled
    BY <1>0 DEF Finish, JobRecord
  <1>5. timer' = timer /\ permit' = permit
    BY DEF Finish
  <1>6. LaterJob(i)
    <2> SUFFICES ASSUME mem'[i] # Absent, mem'[i].enabled, mem'[i].next # None
                 PROVE  /\ mem[i] # Absent /\ mem[i].enabled /\ mem[i].next # None
                        /\ mem[i].next <= mem'[i].next
      BY DEF LaterJob
    <2>1. mem[i] # Absent
      BY <1>3
    <2>2. mem[i].enabled /\ mem'[i].next = next
      BY <1>4, <2>1
    <2>3. NotAfter(mem[i].next, next)
      BY <1>2, <2>1, <2>2 DEF NextInv, NextOf
    <2> HIDE DEF next
    <2> QED BY <2>1, <2>2, <2>3 DEF NotAfter
  <1>7. ASSUME NEW j \in Jobs PROVE LaterJob(j)
    <2>1. CASE j = i
      BY <2>1, <1>6
    <2>2. CASE j # i
      <3>1. mem'[j] = mem[j]
        BY <2>2, <1>3
      <3>2. mem[j] # Absent /\ mem[j].next # None => mem[j].next \in Nat
        BY <1>0 DEF JobRecord
      <3>3. mem[j] # Absent /\ mem[j].next # None => mem[j].next <= mem[j].next
        BY <3>2
      <3> QED BY <3>1, <3>3 DEF LaterJob
    <2> QED BY <2>1, <2>2
  <1> QED BY <1>5, <1>7, LaterSleeps

\* Every step but an update the store refuses and the end of a run of a job
\* that was changed while it ran leaves the timer in time.
LEMMA StepInTime ==
    ASSUME ~ForceRuns, ~LateFinish, ~Rejections, TypeOK, TypeOK', RunInv, NextInv, [Next]_vars,
           Oversleeps', ~Oversleeps
    PROVE  \/ \E j \in Jobs, k \in Slots :
                 Finish(j, k) /\ exec[j][k].sched # mem[j].sched
           \/ \E j \in Jobs, s \in Schedules, enabled \in BOOLEAN, del \in Deletes :
                 UpdateNotStored(j, s, enabled, del)
  <1>0. /\ mem \in [Jobs -> JobRecord \cup {Absent}] /\ None \notin Nat
        /\ \A j \in Jobs : mem[j] # Absent /\ mem[j].next # None => mem[j].next <= mem[j].next
    BY CronAssumption DEF TypeOK, JobRecord
  <1>1. timer'.pc = "asleep" /\ ~permit'
    BY DEF Oversleeps
  <1>2. ASSUME mem' = mem, timer' = timer, permit => permit' PROVE FALSE
    <2>1. \A j \in Jobs : LaterJob(j)
      BY <1>0, <1>2 DEF LaterJob
    <2> QED BY <1>2, <2>1, LaterSleeps
  <1>3. ~UNCHANGED vars
    BY <1>2 DEF vars
  <1>4. ~Tick
    BY <1>2 DEF Tick
  <1>5. ~Start /\ ~Stop /\ ~Crash /\ ~Notified /\ ~Expired /\ ~Process /\ ~ClearStuck
    BY <1>1 DEF Start, Stop, Crash, Notified, Expired, Process, ClearStuck, Awake
  <1>6. ~Look
    BY LookInTime
  <1>7. ASSUME NEW event \in BOOLEAN, Wake(event), timer' = timer PROVE FALSE
    <2>1. mem' = mem /\ (permit => permit')
      BY <1>1, <1>7, WakeFacts DEF Wake
    <2> QED BY <1>2, <1>7, <2>1
  <1>8. ~CommandCompleted
    BY <1>7 DEF CommandCompleted
  <1>9. ASSUME NEW j \in Jobs, NEW s \in Schedules, NEW enabled \in BOOLEAN, NEW del \in Deletes
        PROVE  ~AddSave(j, s, enabled, del) /\ ~Update(j, s, enabled, del)
               /\ ~RejectUpdate(j, s, enabled, del)
    BY <1>1, <1>2 DEF AddSave, Update, RejectUpdate
  <1>10. ASSUME NEW j \in Jobs
         PROVE  ~RemoveDelete(j) /\ ~RunClone(j) /\ ~AddPush(j)
    BY <1>1, <1>2 DEF RemoveDelete, RunClone, AddPush
  <1>11. ASSUME NEW i \in Jobs, RemoveRetain(i) PROVE FALSE
    <2>1. \A j \in Jobs : LaterJob(j)
      BY <1>0, <1>11 DEF RemoveRetain, LaterJob
    <2>2. timer' = timer /\ permit' = permit
      BY <1>11 DEF RemoveRetain
    <2> QED BY <2>1, <2>2, LaterSleeps
  <1>12. ASSUME NEW i \in Jobs, NEW l \in Slots, RunMark(i, l) PROVE FALSE
    BY <1>12 DEF RunMark, RunInv, RunOf
  <1>13. ASSUME NEW i \in Jobs, NEW l \in Slots, Settling(i, l) PROVE FALSE
    <2>1. /\ timer' = timer
          /\ \/ Wake(FALSE)
             \/ /\ permit' = permit
                /\ \A j \in Jobs :
                      mem'[j] # Absent /\ mem'[j].enabled
                      => /\ mem[j] # Absent /\ mem[j].enabled
                         /\ mem'[j].sched = mem[j].sched /\ mem'[j].next = mem[j].next
      BY <1>13, SettlingFacts
    <2>2. CASE Wake(FALSE)
      BY <2>1, <2>2, <1>7
    <2>3. CASE ~Wake(FALSE)
      <3>1. \A j \in Jobs : LaterJob(j)
        BY <2>1, <2>3, <1>0 DEF LaterJob
      <3>2. timer' = timer /\ permit' = permit
        BY <2>1, <2>3
      <3> QED BY <3>1, <3>2, LaterSleeps
    <2> QED BY <2>2, <2>3
  <1>14. ASSUME NEW i \in Jobs, NEW l \in Slots, Finish(i, l)
         PROVE  exec[i][l].sched # mem[i].sched
    BY <1>14, FinishInTime
  <1> QED BY <1>3, <1>4, <1>5, <1>6, <1>8, <1>9, <1>10, <1>11, <1>12, <1>13, <1>14
        DEF Next, TimerStep, UserStep, CallStep

\* The timer wakes in time: while no update is rejected, nobody forces a run and
\* no execution outlives the stuck threshold, only a run of a job that was changed
\* while it ran, and an update of a job just deleted, can leave the timer asleep
\* beyond a start.  Notifications are needed for nothing else.
THEOREM TimerWakesInTime ==
    ASSUME ~ForceRuns, ~LateFinish, ~Rejections
    PROVE  Spec => WakesInTime
  <1>1. Init => TypeOK /\ StoreInv /\ RunInv /\ NextInv
    BY InitTypes DEF Init, StoreInv, LifeOf, FollowsOf, RunInv, RunOf, NextInv, NextOf, Live, Idle
  <1>2. TypeOK /\ StoreInv /\ RunInv /\ NextInv /\ [Next]_vars
        => (TypeOK /\ StoreInv /\ RunInv /\ NextInv)'
    BY StepTypes, StepStore, StepRuns, StepNext
  <1>3. TypeOK /\ TypeOK' /\ RunInv /\ NextInv /\ [Next]_vars
        => [Oversleeps' /\ ~Oversleeps
            => \/ \E j \in Jobs, k \in Slots :
                     Finish(j, k) /\ exec[j][k].sched # mem[j].sched
               \/ \E j \in Jobs, s \in Schedules, enabled \in BOOLEAN, del \in Deletes :
                     UpdateNotStored(j, s, enabled, del)]_vars
    BY StepInTime
  <1> QED BY <1>1, <1>2, <1>3, PTL DEF Spec, WakesInTime

=============================================================================
