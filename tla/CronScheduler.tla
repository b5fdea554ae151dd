---------------------------- MODULE CronScheduler ----------------------------
(***************************************************************************)
(* The cron scheduler (crates/cron/src/service.rs): the job list in memory *)
(* and its copy in the store, the timer loop with its notification permit, *)
(* the executions it spawns, forced runs, heartbeat wakes, and restarts.   *)
(*                                                                         *)
(* A step is what happens under one lock guard.  Time is discrete and      *)
(* stops at MaxTime.  Job ids are UUIDs, so an id is added at most once.   *)
(* Payload, name and sandbox are not told apart: a job is its schedule,    *)
(* its flags and its state.  What a callback does is not modelled, only    *)
(* that it may return at any time, or never.                               *)
(***************************************************************************)
EXTENDS Integers, FiniteSets

CONSTANTS
    Jobs,        \* job ids
    Heartbeat,   \* "__heartbeat__", when it is one of them
    Wakers,      \* jobs with wake_mode Now
    Schedules,   \* the schedules users choose from
    Deletes,     \* the values of delete_after_run they choose from
    Slots,       \* bound: executions of one job alive at a time
    MaxTime,     \* bound: the last instant
    Poll,        \* sleep of the timer when nothing is scheduled (60 s)
    Stuck,       \* STUCK_THRESHOLD_MS
    Cooldown,    \* wake_cooldown_ms
    ForceRuns,   \* users call run()
    Rejections,  \* updates may fail validation, writes of the store may fail
    LateFinish,  \* an execution may return after the stuck threshold
    None, Absent

Times == 0..MaxTime

\* CronSchedule: a cron expression stands for the instants it matches, "bad" for
\* an expression that does not parse and for every_ms = 0.
Schedule == [kind : {"at"}, at : Nat]
            \cup [kind : {"every"}, every : Nat \ {0}, anchor : Nat \cup {None}]
            \cup [kind : {"cron"}, times : SUBSET Nat]
            \cup [kind : {"bad"}]

JobRecord == [enabled : BOOLEAN, sched : Schedules, del : Deletes,
              next : Nat \cup {None}, runAt : Times \cup {None},
              last : Times \cup {None}]

ASSUME CronAssumption ==
    /\ MaxTime \in Nat /\ Poll \in Nat \ {0} /\ Stuck \in Nat /\ Cooldown \in Nat
    /\ Wakers \subseteq Jobs /\ Deletes \subseteq BOOLEAN
    /\ {ForceRuns, Rejections, LateFinish} \subseteq BOOLEAN
    /\ Schedules \subseteq Schedule
    /\ None \notin Nat /\ Absent \notin JobRecord

VARIABLES
    now,
    up,       \* the process runs
    mem,      \* jobs: the list in memory
    disk,     \* the store's cron_jobs
    ran,      \* jobs with a finished run
    created,  \* ids given out
    pending,  \* add and remove calls between their two steps, or dropped there
    dirty,    \* jobs that a write that failed left changed in memory only
    exec,     \* exec[j][k]: the k-th execution of job j
    timer,    \* the timer loop
    permit    \* wake_notify holds a notification

vars == <<now, up, mem, disk, ran, created, pending, dirty, exec, timer, permit>>

Idle == [stage |-> "idle"]

\* The timer loop outside its sleep; "until" is its deadline in it.
Awake(pc) == [pc |-> pc, until |-> 0]

Stages == {"cloned", "running", "settle", "removing", "wake"}

Execution == [stage : Stages, sched : Schedules, del : Deletes,
              started : Times, next : Nat \cup {None}]

TypeOK ==
    /\ now \in Times
    /\ up \in BOOLEAN
    /\ mem \in [Jobs -> JobRecord \cup {Absent}]
    /\ disk \in [Jobs -> JobRecord \cup {Absent}]
    /\ ran \subseteq Jobs
    /\ created \subseteq Jobs
    /\ pending \in [Jobs -> {"none", "adding", "removing"}]
    /\ dirty \subseteq Jobs
    /\ exec \in [Jobs -> [Slots -> Execution \cup {Idle}]]
    /\ timer \in [pc : {"off", "look", "asleep", "process", "stuck"}, until : Nat]
    /\ permit \in BOOLEAN

Init ==
    /\ now = 0
    /\ up = FALSE
    /\ mem = [j \in Jobs |-> Absent]
    /\ disk = [j \in Jobs |-> Absent]
    /\ ran = {}
    /\ created = {}
    /\ pending = [j \in Jobs |-> "none"]
    /\ dirty = {}
    /\ exec = [j \in Jobs |-> [k \in Slots |-> Idle]]
    /\ timer = Awake("off")
    /\ permit = FALSE

-----------------------------------------------------------------------------
(* compute_next_run.                                                       *)

Earliest(S) == CHOOSE t \in S : \A u \in S : t <= u

\* every_ms = 0 and unparsable expressions are errors.
Computes(s) == s.kind # "bad"

NextRun(s, t) ==
    CASE s.kind = "at"    -> IF s.at > t THEN s.at ELSE None
      [] s.kind = "every" ->
             IF s.anchor = None THEN t + s.every
             ELSE IF s.anchor > t THEN s.anchor
             ELSE s.anchor + ((t - s.anchor) \div s.every + 1) * s.every
      [] s.kind = "cron"  ->
             LET later == {u \in s.times : u > t}
             IN  IF later = {} THEN None ELSE Earliest(later)
      [] s.kind = "bad"   -> None      \* unwrap_or(None) of the callers

-----------------------------------------------------------------------------
(* The process.                                                            *)

Tick ==
    /\ now < MaxTime
    /\ now' = now + 1
    /\ UNCHANGED <<up, mem, disk, ran, created, pending, dirty, exec, timer, permit>>

\* start: load the store, recompute the next run of every enabled job.
Start ==
    /\ ~up
    /\ up' = TRUE
    /\ mem' = [j \in Jobs |->
                 IF disk[j] # Absent /\ disk[j].enabled
                 THEN [disk[j] EXCEPT !.next = NextRun(disk[j].sched, now)]
                 ELSE disk[j]]
    /\ timer' = Awake("look")
    /\ permit' = FALSE
    /\ UNCHANGED <<now, disk, ran, created, pending, dirty, exec>>

\* stop: the loop ends, executions go on.
Stop ==
    /\ up
    /\ timer.pc # "off"
    /\ timer' = Awake("off")
    /\ permit' = TRUE
    /\ UNCHANGED <<now, up, mem, disk, ran, created, pending, dirty, exec>>

\* The process dies; only the store survives.
Crash ==
    /\ up
    /\ up' = FALSE
    /\ mem' = [j \in Jobs |-> Absent]
    /\ pending' = [j \in Jobs |-> "none"]
    /\ dirty' = {}
    /\ exec' = [j \in Jobs |-> [k \in Slots |-> Idle]]
    /\ timer' = Awake("off")
    /\ permit' = FALSE
    /\ UNCHANGED <<now, disk, ran, created>>

-----------------------------------------------------------------------------
(* Operations on jobs.                                                     *)

\* add: first the store ...
AddSave(j, s, enabled, del) ==
    /\ up
    /\ j \notin created
    /\ enabled => Computes(s)
    /\ disk' = [disk EXCEPT ![j] =
                 [enabled |-> enabled, sched |-> s, del |-> del,
                  next |-> IF enabled THEN NextRun(s, now) ELSE None,
                  runAt |-> None, last |-> None]]
    /\ created' = created \cup {j}
    /\ pending' = [pending EXCEPT ![j] = "adding"]
    /\ UNCHANGED <<now, up, mem, ran, dirty, exec, timer, permit>>

\* Bug: the timer is not told.
AddPush_Silent(j) ==
    /\ pending[j] = "adding"
    /\ mem' = [mem EXCEPT ![j] = disk[j]]
    /\ pending' = [pending EXCEPT ![j] = "none"]
    /\ UNCHANGED <<now, up, disk, ran, created, dirty, exec, timer, permit>>

\* ... then the list, then a notification.
AddPush(j) ==
    /\ pending[j] = "adding"
    /\ mem' = [mem EXCEPT ![j] = disk[j]]
    /\ pending' = [pending EXCEPT ![j] = "none"]
    /\ permit' = TRUE
    /\ UNCHANGED <<now, up, disk, ran, created, dirty, exec, timer>>

\* Bug: a field the patch leaves out is overwritten with null.
Patched_NullsMissing(j, s, enabled, del) ==
    [mem[j] EXCEPT !.sched = s, !.enabled = None, !.del = del]

Patched(j, s, enabled, del) ==
    [mem[j] EXCEPT !.sched = s, !.enabled = enabled, !.del = del]

Rescheduled(j, s, enabled, del) ==
    [Patched(j, s, enabled, del) EXCEPT !.next = IF enabled THEN NextRun(s, now) ELSE None]

\* update, all under the write lock of the list.
Update(j, s, enabled, del) ==
    /\ mem[j] # Absent
    /\ disk[j] # Absent
    /\ enabled => Computes(s)
    /\ mem' = [mem EXCEPT ![j] = Rescheduled(j, s, enabled, del)]
    /\ disk' = [disk EXCEPT ![j] = Rescheduled(j, s, enabled, del)]
    /\ dirty' = dirty \ {j}
    /\ permit' = TRUE
    /\ UNCHANGED <<now, up, ran, created, pending, exec, timer>>

\* validate_job_spec or compute_next_run refuses the patch, after the list was
\* changed and before the next run was recomputed.
RejectUpdate(j, s, enabled, del) ==
    /\ Rejections
    /\ mem[j] # Absent
    /\ mem' = [mem EXCEPT ![j] = Patched(j, s, enabled, del)]
    /\ dirty' = dirty \cup {j}
    /\ UNCHANGED <<now, up, disk, ran, created, pending, exec, timer, permit>>

\* The store refuses the update (or the job has just been deleted from it), or
\* the update is dropped with its request while it waits for the store, which
\* may have the job by then: nobody is told in either case.
UpdateNotStored(j, s, enabled, del) ==
    /\ mem[j] # Absent
    /\ Rejections \/ disk[j] = Absent
    /\ enabled => Computes(s)
    /\ mem' = [mem EXCEPT ![j] = Rescheduled(j, s, enabled, del)]
    /\ \/ dirty' = dirty \cup {j} /\ UNCHANGED disk
       \/ /\ disk[j] # Absent
          /\ disk' = [disk EXCEPT ![j] = Rescheduled(j, s, enabled, del)]
          /\ dirty' = dirty \ {j}
    /\ UNCHANGED <<now, up, ran, created, pending, exec, timer, permit>>

\* remove: first the store, then the list.
RemoveDelete(j) ==
    /\ mem[j] # Absent
    /\ pending[j] = "none"
    /\ disk[j] # Absent
    /\ disk' = [disk EXCEPT ![j] = Absent]
    /\ pending' = [pending EXCEPT ![j] = "removing"]
    /\ UNCHANGED <<now, up, mem, ran, created, dirty, exec, timer, permit>>

RemoveRetain(j) ==
    /\ pending[j] = "removing"
    /\ mem' = [mem EXCEPT ![j] = Absent]
    /\ pending' = [pending EXCEPT ![j] = "none"]
    /\ dirty' = dirty \ {j}
    /\ UNCHANGED <<now, up, disk, ran, created, exec, timer, permit>>

-----------------------------------------------------------------------------
(* Executions.  An execution works on a clone of the job.                  *)

Free(j) == {k \in Slots : exec[j][k] = Idle}

Clone(j, stage) == [stage |-> stage, sched |-> mem[j].sched, del |-> mem[j].del,
                    started |-> IF stage = "running" THEN now ELSE 0, next |-> None]

\* run: clone under the read lock ...
RunClone(j) ==
    /\ ForceRuns
    /\ mem[j] # Absent
    /\ Free(j) # {}
    /\ LET k == CHOOSE k \in Free(j) : TRUE
       IN  exec' = [exec EXCEPT ![j][k] = Clone(j, "cloned")]
    /\ UNCHANGED <<now, up, mem, disk, ran, created, pending, dirty, timer, permit>>

\* ... then mark the job running, whatever it is doing.
RunMark(j, k) ==
    /\ exec[j][k].stage = "cloned"
    /\ exec' = [exec EXCEPT ![j][k].stage = "running", ![j][k].started = now]
    /\ mem' = IF mem[j] = Absent THEN mem ELSE [mem EXCEPT ![j].runAt = now]
    /\ UNCHANGED <<now, up, disk, ran, created, pending, dirty, timer, permit>>

\* The callback returns: the run is recorded and the job's state updated, its
\* next run computed from the clone's schedule.  (last_run_at_ms is read of
\* the heartbeat only.)
Finish(j, k) ==
    LET e == exec[j][k]
        next == NextRun(e.sched, now)
    IN  /\ e.stage = "running"
        /\ LateFinish \/ now - e.started <= Stuck
        /\ ran' = ran \cup {j}
        /\ mem' = IF mem[j] = Absent THEN mem
                  ELSE [mem EXCEPT ![j].runAt = None, ![j].last = IF j = Heartbeat THEN now ELSE None,
                                         ![j].next = next]
        /\ exec' = [exec EXCEPT ![j][k].stage = "settle", ![j][k].next = next,
                                  ![j][k].started = 0]
        /\ UNCHANGED <<now, up, disk, created, pending, dirty, timer, permit>>

\* What is left of an execution once its job is settled.
AfterSettle(j, k) ==
    exec' = IF j \in Wakers /\ j # Heartbeat
            THEN [exec EXCEPT ![j][k].stage = "wake"]
            ELSE [exec EXCEPT ![j][k] = Idle]

\* No next run: the job is deleted (unless the store fails, which is ignored) ...
SettleDelete(j, k) ==
    /\ exec[j][k].stage = "settle"
    /\ exec[j][k].next = None /\ exec[j][k].del
    /\ \/ /\ Rejections \/ disk[j] = Absent
          /\ AfterSettle(j, k)
          /\ UNCHANGED disk
       \/ /\ disk[j] # Absent
          /\ disk' = [disk EXCEPT ![j] = Absent]
          /\ exec' = [exec EXCEPT ![j][k].stage = "removing"]
    /\ UNCHANGED <<now, up, mem, ran, created, pending, dirty, timer, permit>>

SettleRetain(j, k) ==
    /\ exec[j][k].stage = "removing"
    /\ mem' = [mem EXCEPT ![j] = Absent]
    /\ dirty' = dirty \ {j}
    /\ AfterSettle(j, k)
    /\ UNCHANGED <<now, up, disk, ran, created, pending, timer, permit>>

\* Bug: the store gets the schedule the execution started with.
Settle_SavesClone(j, k) ==
    LET e == exec[j][k]
        kept == IF e.next = None THEN [mem[j] EXCEPT !.enabled = FALSE] ELSE mem[j]
    IN  /\ e.stage = "settle"
        /\ e.next = None => ~e.del
        /\ mem' = IF mem[j] = Absent THEN mem ELSE [mem EXCEPT ![j] = kept]
        /\ disk' = IF mem[j] = Absent \/ disk[j] = Absent THEN disk
                   ELSE [disk EXCEPT ![j] = [kept EXCEPT !.sched = e.sched]]
        /\ dirty' = IF disk[j] = Absent THEN dirty ELSE dirty \ {j}
        /\ AfterSettle(j, k)
        /\ UNCHANGED <<now, up, ran, created, pending, timer, permit>>

\* ... or disabled; otherwise its new state is saved.  Either way the store
\* gets the job as it is in memory now, or fails, which is ignored.
Settle(j, k) ==
    LET e == exec[j][k]
        kept == IF e.next = None THEN [mem[j] EXCEPT !.enabled = FALSE] ELSE mem[j]
    IN  /\ e.stage = "settle"
        /\ e.next = None => ~e.del
        /\ mem' = IF mem[j] = Absent THEN mem ELSE [mem EXCEPT ![j] = kept]
        /\ \/ /\ disk' = IF mem[j] = Absent \/ disk[j] = Absent THEN disk
                         ELSE [disk EXCEPT ![j] = kept]
              /\ dirty' = IF disk[j] = Absent THEN dirty ELSE dirty \ {j}
           \/ /\ Rejections /\ mem[j] # Absent
              /\ dirty' = IF kept = mem[j] THEN dirty ELSE dirty \cup {j}
              /\ UNCHANGED disk
        /\ AfterSettle(j, k)
        /\ UNCHANGED <<now, up, ran, created, pending, timer, permit>>

-----------------------------------------------------------------------------
(* wake: make an idle heartbeat due now; a finished command is held back   *)
(* for the cooldown after the last heartbeat.                              *)

Wake(execEvent) ==
    LET beat == IF Heartbeat \in Jobs THEN mem[Heartbeat] ELSE Absent
        idle == beat # Absent /\ beat.enabled /\ beat.runAt = None
        cooling == /\ execEvent /\ idle /\ Cooldown > 0
                   /\ beat.last # None /\ now - beat.last < Cooldown
    IN  /\ mem' = IF idle /\ ~cooling THEN [mem EXCEPT ![Heartbeat].next = now] ELSE mem
        /\ permit' = IF cooling THEN permit ELSE TRUE

WakeAfterRun(j, k) ==
    /\ exec[j][k].stage = "wake"
    /\ Wake(FALSE)
    /\ exec' = [exec EXCEPT ![j][k] = Idle]
    /\ UNCHANGED <<now, up, disk, ran, created, pending, dirty, timer>>

\* A background command of the exec tool completed.
CommandCompleted ==
    /\ up
    /\ Wake(TRUE)
    /\ UNCHANGED <<now, up, disk, ran, created, pending, dirty, exec, timer>>

-----------------------------------------------------------------------------
(* The timer loop.                                                         *)

Due(j) == /\ mem[j] # Absent /\ mem[j].enabled
          /\ mem[j].next # None /\ mem[j].next <= now

\* ms_until_next_wake: jobs that are running are not left out.
Look ==
    /\ timer.pc = "look"
    /\ LET starts == {mem[j].next : j \in {i \in Jobs :
                          mem[i] # Absent /\ mem[i].enabled /\ mem[i].next # None}}
           until == IF starts = {} THEN now + Poll ELSE Earliest(starts)
       IN  timer' = IF until <= now THEN Awake("process")
                    ELSE [pc |-> "asleep", until |-> until]
    /\ UNCHANGED <<now, up, mem, disk, ran, created, pending, dirty, exec, permit>>

Notified ==
    /\ timer.pc = "asleep"
    /\ permit
    /\ permit' = FALSE
    /\ timer' = Awake("look")
    /\ UNCHANGED <<now, up, mem, disk, ran, created, pending, dirty, exec>>

Expired ==
    /\ timer.pc = "asleep"
    /\ timer.until <= now
    /\ timer' = Awake("process")
    /\ UNCHANGED <<now, up, mem, disk, ran, created, pending, dirty, exec, permit>>

\* Bug: a job that is already running is started again.
Process_IgnoresMark ==
    LET due == {j \in Jobs : Due(j)}
    IN  /\ timer.pc = "process"
        /\ \A j \in due : Free(j) # {}
        /\ mem' = [j \in Jobs |-> IF j \in due THEN [mem[j] EXCEPT !.runAt = now] ELSE mem[j]]
        /\ exec' = [j \in Jobs |->
                      IF j \in due
                      THEN [exec[j] EXCEPT ![CHOOSE k \in Free(j) : TRUE] = Clone(j, "running")]
                      ELSE exec[j]]
        /\ timer' = Awake("stuck")
        /\ UNCHANGED <<now, up, disk, ran, created, pending, dirty, permit>>

\* process_due_jobs: every due job that is not running is marked and cloned
\* under the write lock, and spawned.
Process ==
    LET due == {j \in Jobs : Due(j) /\ mem[j].runAt = None}
    IN  /\ timer.pc = "process"
        /\ \A j \in due : Free(j) # {}
        /\ mem' = [j \in Jobs |-> IF j \in due THEN [mem[j] EXCEPT !.runAt = now] ELSE mem[j]]
        /\ exec' = [j \in Jobs |->
                      IF j \in due
                      THEN [exec[j] EXCEPT ![CHOOSE k \in Free(j) : TRUE] = Clone(j, "running")]
                      ELSE exec[j]]
        /\ timer' = Awake("stuck")
        /\ UNCHANGED <<now, up, disk, ran, created, pending, dirty, permit>>

\* Bug: a hung execution blocks its job for ever.
ClearStuck_Never ==
    /\ timer.pc = "stuck"
    /\ timer' = Awake("look")
    /\ UNCHANGED <<now, up, mem, disk, ran, created, pending, dirty, exec, permit>>

\* clear_stuck_jobs.
ClearStuck ==
    /\ timer.pc = "stuck"
    /\ mem' = [j \in Jobs |->
                 IF mem[j] # Absent /\ mem[j].runAt # None /\ now - mem[j].runAt > Stuck
                 THEN [mem[j] EXCEPT !.runAt = None] ELSE mem[j]]
    /\ timer' = Awake("look")
    /\ UNCHANGED <<now, up, disk, ran, created, pending, dirty, exec, permit>>

-----------------------------------------------------------------------------

TimerStep == Look \/ Notified \/ Expired \/ Process \/ ClearStuck

Settling(j, k) ==
    \/ SettleDelete(j, k) \/ SettleRetain(j, k) \/ Settle(j, k) \/ WakeAfterRun(j, k)

UserStep(j) ==
    \/ \E s \in Schedules, enabled \in BOOLEAN, del \in Deletes :
          \/ AddSave(j, s, enabled, del)
          \/ Update(j, s, enabled, del)
          \/ RejectUpdate(j, s, enabled, del)
          \/ UpdateNotStored(j, s, enabled, del)
    \/ RemoveDelete(j)
    \/ RunClone(j)

CallStep(j) == AddPush(j) \/ RemoveRetain(j)

Next ==
    \/ Tick \/ Start \/ Stop \/ Crash \/ CommandCompleted
    \/ TimerStep
    \/ \E j \in Jobs : UserStep(j) \/ CallStep(j)
    \/ \E j \in Jobs, k \in Slots : RunMark(j, k) \/ Finish(j, k) \/ Settling(j, k)

Spec == Init /\ [][Next]_vars

\* The clock, the timer task and the executions whose callback has returned go
\* on; callbacks may hang, and add and remove may be dropped with their request.
FairSpec ==
    /\ Spec
    /\ WF_vars(Tick) /\ WF_vars(TimerStep)
    /\ \A j \in Jobs, k \in Slots : WF_vars(Settling(j, k))

-----------------------------------------------------------------------------
(* Properties.                                                             *)

Live(j) == {k \in Slots : exec[j][k].stage = "running" /\ now - exec[j][k].started <= Stuck}

\* "Mark as running before executing (prevents duplicate runs)": a job has one
\* execution at a time, not counting those given up as stuck.
NoDuplicateRuns == \A j \in Jobs : Cardinality(Live(j)) <= 1

\* The store follows the list: what a restart loads has the schedule and the
\* flags the users see, but for an add or a remove in progress (or dropped
\* half-way), an update that was refused or not stored, and a finished job that
\* could not be stored as disabled.
StoreFollowsList ==
    \A j \in Jobs :
        /\ mem[j] # Absent /\ disk[j] # Absent /\ j \notin dirty
           => /\ disk[j].sched = mem[j].sched
              /\ disk[j].enabled = mem[j].enabled
              /\ disk[j].del = mem[j].del
        /\ up /\ mem[j] = Absent /\ disk[j] # Absent => pending[j] = "adding"
        /\ mem[j] # Absent /\ disk[j] = Absent
           => pending[j] = "removing" \/ \E k \in Slots : exec[j][k].stage = "removing"

\* The timer is asleep beyond the start of a job, with no notification to come.
Oversleeps ==
    /\ timer.pc = "asleep"
    /\ ~permit
    /\ \E j \in Jobs : /\ mem[j] # Absent /\ mem[j].enabled
                       /\ mem[j].next # None /\ mem[j].next < timer.until

\* No operation leaves the timer asleep beyond a start, but an execution of a
\* job that an update changed while it ran, and an update the store refuses:
\* add, update and wake need no other signal than their notification.
WakesInTime ==
    [][Oversleeps' /\ ~Oversleeps
        => \/ \E j \in Jobs, k \in Slots :
                 Finish(j, k) /\ exec[j][k].sched # mem[j].sched
           \/ \E j \in Jobs, s \in Schedules, enabled \in BOOLEAN, del \in Deletes :
                 UpdateNotStored(j, s, enabled, del)]_vars

\* "at: run once at a specific Unix timestamp": until it has run, an enabled
\* one-shot job whose time was in the future when it was chosen is scheduled.
OneShotStaysScheduled ==
    [][\A j \in Jobs :
         /\ mem[j] # Absent /\ mem[j].enabled /\ mem[j].sched.kind = "at" /\ mem[j].next # None
         /\ mem'[j] # Absent /\ mem'[j].sched = mem[j].sched /\ mem'[j].enabled
         => mem'[j].next # None \/ j \in ran']_vars

\* A job that is due is started, or stops being due, even when its previous
\* execution never returns.
DueStarts ==
    \A j \in Jobs : (timer.pc # "off" /\ Due(j) /\ ~Oversleeps /\ now + Stuck < MaxTime)
                    ~> (timer.pc = "off" \/ ~Due(j) \/ mem[j].runAt = now)

=============================================================================
