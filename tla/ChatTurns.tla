------------------------------ MODULE ChatTurns ------------------------------
(***************************************************************************)
(* Turn arbitration of one chat session (crates/chat/src/service): the     *)
(* per-session permit, the FIFO of messages that arrived while a turn was  *)
(* active, the drainers that replay it, the life of a run task, and abort. *)
(*                                                                         *)
(* Sessions share no state but locks, so one session is modelled.  A       *)
(* message is named by a member of Msgs; a turn is named by the message    *)
(* that leads it, which stands for its run id (every message leads at most *)
(* one turn).  A step is what happens between two points where the code    *)
(* awaits; what runs under one lock guard is one step.                     *)
(***************************************************************************)
EXTENDS Naturals, Sequences, SequencesExt

CONSTANTS
    Msgs,        \* messages sent to the session
    Sync,        \* those sent by send_sync or as /sh: refused, never queued
    Blank,       \* those that leave nothing to merge in collect mode
    Context,     \* Context[m]: the security context of m's sender
    Mode,        \* message_queue_mode: "followup" or "collect"
    LateCancel,  \* an aborted task may run on until an await blocks it
    Panics,      \* a run task may panic
    Remote,      \* messages whose send, and whose run's abort, may be a request
                 \* that the server drops when its client goes away
    Nobody       \* no process, no run

Turn(m)  == <<"turn", m>>     \* the send handler, then the run task, of m
Abort(m) == <<"abort", m>>    \* the abort call that claimed m's run
Procs    == {Turn(m) : m \in Msgs} \cup {Abort(m) : m \in Msgs}

ASSUME ChatTurnsAssumption ==
    /\ Sync \subseteq Msgs
    /\ Blank \subseteq Msgs
    /\ DOMAIN Context = Msgs
    /\ Mode \in {"followup", "collect"}
    /\ LateCancel \in BOOLEAN
    /\ Panics \in BOOLEAN
    /\ Remote \subseteq Msgs
    /\ Nobody \notin Procs
    /\ Nobody \notin Msgs

VARIABLES
    stage,      \* where each message is
    cargo,      \* the messages whose text each message carries
    queue,      \* SessionMessageQueue.messages
    slot,       \* the queue entry: absent, idle, or draining
    holder,     \* who holds the session permit
    waiters,    \* abort calls in the permit's fair wait queue
    runs,       \* active_runs: runs with a registered abort handle
    bySession,  \* active_runs_by_session
    terminal,   \* terminal_runs
    cancel,     \* runs whose task has been told to abort
    draft,      \* active_partial_assistant: the run that owns the draft
    abort,      \* progress of the abort call on each run
    drain,      \* progress of drain_and_replay in each process
    hand,       \* the batch a drainer has taken and not yet handed over; a dead
                \* drainer keeps what died with it
    replayer,   \* the drainer whose send call admitted this turn
    sent,       \* terminal events broadcast for each run
    history     \* the session store: <<role, message>> entries, appended when
                \* the caller has awaited the append

vars == <<stage, cargo, queue, slot, holder, waiters, runs, bySession,
          terminal, cancel, draft, abort, drain, hand, replayer, sent, history>>

turnVars  == <<runs, bySession, terminal, draft, sent, history>>
drainVars == <<drain, hand, replayer>>

TaskStages == {"registered", "running", "committed", "persisted", "erroring",
               "settled", "unlisted", "unmapped"}
Holding    == TaskStages \cup {"setup"}
Finished   == {"done", "killed", "panicked"}
Stages     == Holding \cup Finished \cup
              {"new", "queued", "inhand", "merged", "unstarted", "refused",
               "busy", "abandoned", "cancelled", "dropped", "lost"}
AbortStates == {"none", "waiting", "cleanup", "done", "gone", "cut"}
DrainStates == {"off", "take", "replay", "sending", "finish", "dead"}

TypeOK ==
    /\ stage \in [Msgs -> Stages]
    /\ cargo \in [Msgs -> SUBSET Msgs]
    /\ queue \in Seq(Msgs)
    /\ slot \in {"absent", "idle", "draining"}
    /\ holder \in Procs \cup {Nobody}
    /\ waiters \in Seq(Msgs)
    /\ runs \subseteq Msgs
    /\ bySession \in Msgs \cup {Nobody}
    /\ terminal \subseteq Msgs
    /\ cancel \subseteq Msgs
    /\ draft \in Msgs \cup {Nobody}
    /\ abort \in [Msgs -> AbortStates]
    /\ drain \in [Procs -> DrainStates]
    /\ hand \in [Procs -> Msgs \cup {Nobody}]
    /\ replayer \in [Msgs -> Procs \cup {Nobody}]
    /\ sent \in [Msgs -> SUBSET {"final", "error", "aborted"}]
    /\ history \in Seq({"user", "assistant", "partial"} \X Msgs)

Init ==
    /\ stage = [m \in Msgs |-> "new"]
    /\ cargo = [m \in Msgs |-> {m}]
    /\ queue = <<>>
    /\ slot = "absent"
    /\ holder = Nobody
    /\ waiters = <<>>
    /\ runs = {}
    /\ bySession = Nobody
    /\ terminal = {}
    /\ cancel = {}
    /\ draft = Nobody
    /\ abort = [m \in Msgs |-> "none"]
    /\ drain = [p \in Procs |-> "off"]
    /\ hand = [p \in Procs |-> Nobody]
    /\ replayer = [m \in Msgs |-> Nobody]
    /\ sent = [m \in Msgs |-> {}]
    /\ history = <<>>

-----------------------------------------------------------------------------
(* The session permit: a fair tokio semaphore of one permit.  A release    *)
(* hands it to the first waiting abort call, so try_acquire succeeds only  *)
(* when nobody holds it and nobody waits.                                  *)

ReleasePermit(calls) ==
    IF waiters = <<>>
    THEN /\ holder' = Nobody
         /\ abort' = calls
         /\ UNCHANGED waiters
    ELSE /\ holder' = Abort(Head(waiters))
         /\ abort' = [calls EXCEPT ![Head(waiters)] = "cleanup"]
         /\ waiters' = Tail(waiters)

-----------------------------------------------------------------------------
(* Admission (admit_queued_turn): under the queue lock, an ordinary        *)
(* arrival never passes queued work, a replay uses the drain reservation.  *)

Admission(m, queuedReplay) ==
    LET reserved == queuedReplay /\ slot = "draining"
        behind   == ~reserved /\ (slot = "draining" \/ queue # <<>>)
    IN  IF ~behind /\ holder = Nobody THEN "acquired"
        ELSE IF reserved THEN "front" ELSE "back"

\* Bug: a replay that finds the permit taken is not put back.
Enqueue_DropsReplay(m, place) ==
    queue' = IF place = "back" THEN Append(queue, m) ELSE queue

Enqueue(m, place) ==
    queue' = CASE place = "front" -> <<m>> \o queue
               [] place = "back"  -> Append(queue, m)
               [] OTHER           -> queue

\* queues.entry(session_key).or_default(): admission creates the entry.
OpenSlot == slot' = IF slot = "absent" THEN "idle" ELSE slot

\* chat.send of an ordinary message.
Arrive(m) ==
    /\ m \notin Sync
    /\ stage[m] = "new"
    /\ OpenSlot
    /\ Enqueue(m, Admission(m, FALSE))
    /\ IF Admission(m, FALSE) = "acquired"
       THEN /\ stage' = [stage EXCEPT ![m] = "setup"]
            /\ holder' = Turn(m)
       ELSE /\ stage' = [stage EXCEPT ![m] = "queued"]
            /\ UNCHANGED holder
    /\ UNCHANGED <<cargo, waiters, cancel, abort, turnVars, drainVars>>

\* chat.send_sync, or a /sh command: refused when anything is ahead of it.
ArriveSync(m) ==
    /\ m \in Sync
    /\ stage[m] = "new"
    /\ IF slot = "draining" \/ queue # <<>> \/ holder # Nobody
       THEN /\ stage' = [stage EXCEPT ![m] = "busy"]
            /\ UNCHANGED holder
       ELSE /\ stage' = [stage EXCEPT ![m] = "setup"]
            /\ holder' = Turn(m)
    /\ UNCHANGED <<cargo, queue, slot, waiters, cancel, abort, turnVars, drainVars>>

\* chat.cancel_queued: a draining entry stays reserved.
CancelQueued ==
    /\ slot # "absent"
    /\ stage' = [m \in Msgs |-> IF m \in ToSet(queue) THEN "cancelled" ELSE stage[m]]
    /\ queue' = <<>>
    /\ slot' = IF slot = "draining" THEN slot ELSE "absent"
    /\ UNCHANGED <<cargo, holder, waiters, cancel, abort, turnVars, drainVars>>

-----------------------------------------------------------------------------
(* An admitted turn, before its run task exists.                           *)

\* register_run_handle: both maps under one pair of guards.
RegisterRun(m) ==
    /\ runs' = runs \cup {m}
    /\ bySession' = m

\* The turn reaches the model: the user message is persisted, the task is
\* spawned and its handle registered; the drainer that sent it sees a runId.
StartRun(m) ==
    /\ stage[m] = "setup"
    /\ stage' = [stage EXCEPT ![m] = "registered"]
    /\ history' = Append(history, <<"user", m>>)
    /\ RegisterRun(m)
    /\ drain' = IF replayer[m] = Nobody THEN drain
                ELSE [drain EXCEPT ![replayer[m]] = "finish"]
    /\ replayer' = [replayer EXCEPT ![m] = Nobody]
    /\ UNCHANGED <<cargo, queue, slot, holder, waiters, terminal, cancel, draft,
                   abort, hand, sent>>

\* Bug: an early return forgets finish_unstarted_turn.
FailSetup_KeepsPermit(m) ==
    /\ stage[m] = "setup"
    /\ stage' = [stage EXCEPT ![m] = "unstarted"]
    /\ UNCHANGED <<cargo, queue, slot, holder, waiters, abort, cancel, turnVars, drainVars>>

\* Bug: a direct send that fails leaves the queue to nobody.
FinishUnstarted_NoDrain(m) ==
    /\ ReleasePermit(abort)
    /\ drain' = IF replayer[m] = Nobody THEN drain
                ELSE [drain EXCEPT ![replayer[m]] = "take"]
    /\ replayer' = [replayer EXCEPT ![m] = Nobody]
    /\ UNCHANGED hand

\* finish_unstarted_turn: the permit goes; a direct send drains the queue itself,
\* a replay returns a terminal result to its drainer, which takes the next batch.
FinishUnstarted(m) ==
    /\ ReleasePermit(abort)
    /\ drain' = [drain EXCEPT ![IF replayer[m] = Nobody THEN Turn(m)
                                ELSE replayer[m]] = "take"]
    /\ replayer' = [replayer EXCEPT ![m] = Nobody]
    /\ UNCHANGED hand

\* Bug: a turn that fails to start is put back to the head of the queue.
FailSetup_Requeues(m) ==
    /\ stage[m] = "setup"
    /\ stage' = [stage EXCEPT ![m] = "queued"]
    /\ queue' = <<m>> \o queue
    /\ FinishUnstarted(m)
    /\ UNCHANGED <<cargo, slot, cancel, turnVars>>

\* Tool policy, history, provider, compaction or hook refuses the turn.
FailSetup(m) ==
    /\ stage[m] = "setup"
    /\ stage' = [stage EXCEPT ![m] = "unstarted"]
    /\ FinishUnstarted(m)
    /\ UNCHANGED <<cargo, queue, slot, cancel, turnVars>>

\* The call is dropped before its turn starts; the user message may have been
\* stored already.
MayHaveStored(m) == history' \in {history, Append(history, <<"user", m>>)}

\* send_impl is awaited in the request handler: when the client goes away, the
\* call is dropped at its await, and its permit with it; nobody drains.
DropSend(m) ==
    /\ m \in Remote
    /\ stage[m] = "setup"
    /\ replayer[m] = Nobody
    /\ stage' = [stage EXCEPT ![m] = "dropped"]
    /\ MayHaveStored(m)
    /\ ReleasePermit(abort)
    /\ UNCHANGED <<cargo, queue, slot, runs, bySession, terminal, cancel, draft,
                   sent, drainVars>>

-----------------------------------------------------------------------------
(* The run task.  Once it has been told to abort it takes no step but to   *)
(* die, except that with LateCancel it goes on as long as its awaits are   *)
(* ready (tokio cancels a task only when a poll returns Pending).          *)

CanStep(m) == m \in cancel => LateCancel

TaskStep(m, from, to) ==
    /\ stage[m] = from
    /\ CanStep(m)
    /\ stage' = [stage EXCEPT ![m] = to]
    /\ UNCHANGED <<cargo, queue, slot, cancel>>

InTask(m, from, to) ==
    /\ TaskStep(m, from, to)
    /\ UNCHANGED <<holder, waiters, abort, drainVars>>

\* start_run is received: the task opens its draft.
BeginRun(m) ==
    /\ InTask(m, "registered", "running")
    /\ draft' = m
    /\ UNCHANGED <<runs, bySession, terminal, sent, history>>

\* Bug: the permit goes before the assistant message is stored.
CommitSuccess_ReleasesEarly(m) ==
    /\ TaskStep(m, "running", "committed")
    /\ terminal' = terminal \cup {m}
    /\ ReleasePermit(abort)
    /\ UNCHANGED <<runs, bySession, draft, sent, history, drainVars>>

\* A successful output: claim terminal ownership ...
CommitSuccess(m) ==
    /\ InTask(m, "running", "committed")
    /\ terminal' = terminal \cup {m}
    /\ UNCHANGED <<runs, bySession, draft, sent, history>>

\* ... then persist the assistant message ...
PersistAssistant(m) ==
    /\ InTask(m, "committed", "persisted")
    /\ history' = Append(history, <<"assistant", m>>)
    /\ UNCHANGED <<runs, bySession, terminal, draft, sent>>

\* ... then broadcast the final event.
BroadcastFinal(m) ==
    /\ InTask(m, "persisted", "settled")
    /\ sent' = [sent EXCEPT ![m] = @ \cup {"final"}]
    /\ UNCHANGED <<runs, bySession, terminal, draft, history>>

\* A failed or timed-out run claims terminal ownership before its error event.
CommitError(m) ==
    /\ InTask(m, "running", "erroring")
    /\ terminal' = terminal \cup {m}
    /\ UNCHANGED <<runs, bySession, draft, sent, history>>

BroadcastError(m) ==
    /\ InTask(m, "erroring", "settled")
    /\ sent' = [sent EXCEPT ![m] = @ \cup {"error"}]
    /\ UNCHANGED <<runs, bySession, terminal, draft, history>>

\* A provider stream that ends without Done or Error: no output, no commit.
EndSilently(m) ==
    /\ InTask(m, "running", "settled")
    /\ UNCHANGED turnVars

\* Bug: the terminal mark goes with the handle, not after the session entry.
Unlist_ForgetsTerminal(m) ==
    /\ InTask(m, "settled", "unlisted")
    /\ runs' = runs \ {m}
    /\ terminal' = terminal \ {m}
    /\ UNCHANGED <<bySession, draft, sent, history>>

\* The event forwarder has ended; the abort handle is dropped.
Unlist(m) ==
    /\ InTask(m, "settled", "unlisted")
    /\ runs' = runs \ {m}
    /\ UNCHANGED <<bySession, terminal, draft, sent, history>>

Unmap(m) ==
    /\ InTask(m, "unlisted", "unmapped")
    /\ bySession' = IF bySession = m THEN Nobody ELSE bySession
    /\ UNCHANGED <<runs, terminal, draft, sent, history>>

\* Terminal mark and draft go, the permit is released, the drain begins.
\* (No abort can name the run any more, so the three are one step.)
ReleaseRun(m) ==
    /\ TaskStep(m, "unmapped", "done")
    /\ terminal' = terminal \ {m}
    /\ draft' = Nobody
    /\ ReleasePermit(abort)
    /\ drain' = [drain EXCEPT ![Turn(m)] = "take"]
    /\ UNCHANGED <<runs, bySession, sent, history, hand, replayer>>

\* The task dies with its permit; nothing of its cleanup happens.
TaskDies(m, how) ==
    /\ stage[m] \in TaskStages
    /\ stage' = [stage EXCEPT ![m] = how]
    /\ ReleasePermit(abort)
    /\ UNCHANGED <<cargo, queue, slot, cancel, turnVars, drainVars>>

Kill(m) == m \in cancel /\ TaskDies(m, "killed")

Panic(m) == Panics /\ m \notin cancel /\ TaskDies(m, "panicked")

-----------------------------------------------------------------------------
(* Abort.                                                                  *)

\* Bug: the permit is only tried for, not queued for.
ClaimAbort_DoesNotQueue(m) ==
    /\ bySession = m
    /\ m \notin terminal
    /\ IF holder = Nobody
       THEN /\ holder' = Abort(m)
            /\ abort' = [abort EXCEPT ![m] = "cleanup"]
       ELSE /\ abort' = [abort EXCEPT ![m] = "waiting"]
            /\ UNCHANGED holder
    /\ cancel' = IF m \in runs /\ stage[m] \notin Finished
                 THEN cancel \cup {m} ELSE cancel
    /\ runs' = runs \ {m}
    /\ bySession' = Nobody
    /\ UNCHANGED <<stage, cargo, queue, slot, waiters, terminal, draft, sent,
                   history, drainVars>>

\* claim_run_for_abort, under the terminal, session and run locks.  A
\* terminal run is unavailable; a run without a live handle is stale.  The
\* caller joins the permit's wait queue before the task is told to abort.
ClaimAbort(m) ==
    /\ bySession = m
    /\ m \notin terminal
    /\ IF holder = Nobody
       THEN /\ holder' = Abort(m)
            /\ abort' = [abort EXCEPT ![m] = "cleanup"]
            /\ UNCHANGED waiters
       ELSE /\ waiters' = Append(waiters, m)
            /\ abort' = [abort EXCEPT ![m] = "waiting"]
            /\ UNCHANGED holder
    /\ cancel' = IF m \in runs /\ stage[m] \notin Finished
                 THEN cancel \cup {m} ELSE cancel
    /\ runs' = runs \ {m}
    /\ bySession' = Nobody
    /\ UNCHANGED <<stage, cargo, queue, slot, terminal, draft, sent, history, drainVars>>

\* persist_partial_assistant_on_abort: the draft is taken if it is this run's,
\* and stored if something of it was visible.
KeepPartial(m) ==
    /\ \/ draft = m /\ history' = Append(history, <<"partial", m>>)
       \/ UNCHANGED history
    /\ draft' = IF draft = m THEN Nobody ELSE draft

\* With the permit: keep what the run had written, forget the run, tell the
\* clients, release, drain.
CleanupAbort(m) ==
    /\ abort[m] = "cleanup"
    /\ KeepPartial(m)
    /\ terminal' = terminal \ {m}
    /\ sent' = [sent EXCEPT ![m] = @ \cup {"aborted"}]
    /\ ReleasePermit([abort EXCEPT ![m] = "done"])
    /\ drain' = [drain EXCEPT ![Abort(m)] = "take"]
    /\ UNCHANGED <<stage, cargo, queue, slot, runs, bySession, cancel, hand, replayer>>

\* abort is awaited in the request handler too.  Dropped while it waits for the
\* permit, it leaves the wait queue; the run has been told to abort all the same.
DropWait(m) ==
    /\ m \in Remote
    /\ abort[m] = "waiting"
    /\ abort' = [abort EXCEPT ![m] = "gone"]
    /\ \E i \in DOMAIN waiters : waiters[i] = m /\ waiters' = RemoveAt(waiters, i)
    /\ UNCHANGED <<stage, cargo, queue, slot, holder, cancel, turnVars, drainVars>>

\* Dropped in its cleanup, it has come as far as some await of it: the draft is
\* kept, then the terminal mark goes, then the clients are told.  The permit
\* goes in any case, and nobody drains.
DropCleanup(m) ==
    /\ m \in Remote
    /\ abort[m] = "cleanup"
    /\ \/ UNCHANGED <<draft, history, terminal, sent>>
       \/ /\ KeepPartial(m)
          /\ \/ UNCHANGED <<terminal, sent>>
             \/ /\ terminal' = terminal \ {m}
                /\ sent' \in {sent, [sent EXCEPT ![m] = @ \cup {"aborted"}]}
    /\ ReleasePermit([abort EXCEPT ![m] = "cut"])
    /\ UNCHANGED <<stage, cargo, queue, slot, runs, bySession, cancel, drainVars>>

-----------------------------------------------------------------------------
(* drain_and_replay, run by a finished run, an unstarted send, or an abort.*)

\* Bug: the whole queue is one batch.
IsBatch_AnyContext(n) == IF Mode = "followup" THEN n = 1 ELSE n = Len(queue)

\* pop_front, or split_by_request_security_context: the longest prefix of the
\* queue that is of one context.
IsBatch(n) ==
    IF Mode = "followup" THEN n = 1
    ELSE /\ \A i \in 1..n : Context[queue[i]] = Context[queue[1]]
         /\ n < Len(queue) => Context[queue[n + 1]] # Context[queue[1]]

\* take_next, then prepare_collected: a batch becomes its last message.
TakeBatch(p) ==
    /\ drain[p] = "take"
    /\ slot' = "draining"
    /\ \E n \in 1..Len(queue) :
        LET batch == {queue[i] : i \in 1..n}
            lead  == queue[n]
        IN  /\ IsBatch(n)
            /\ queue' = SubSeq(queue, n + 1, Len(queue))
            /\ IF Mode = "collect" /\ batch \subseteq Blank
               THEN /\ stage' = [m \in Msgs |-> IF m \in batch THEN "abandoned" ELSE stage[m]]
                    /\ UNCHANGED <<cargo, drain, hand>>
               ELSE /\ stage' = [m \in Msgs |-> IF m = lead THEN "inhand"
                                                ELSE IF m \in batch THEN "merged"
                                                ELSE stage[m]]
                    /\ cargo' = [cargo EXCEPT ![lead] = UNION {cargo[m] : m \in batch}]
                    /\ hand' = [hand EXCEPT ![p] = lead]
                    /\ drain' = [drain EXCEPT ![p] = "replay"]
    /\ UNCHANGED <<holder, waiters, cancel, abort, replayer, turnVars>>

\* Bug: an empty batch is replayed.
TakeNothing_ReplaysAnyway(p) ==
    /\ drain[p] = "take"
    /\ queue = <<>>
    /\ slot' = IF slot = "absent" THEN slot ELSE "draining"
    /\ drain' = [drain EXCEPT ![p] = "replay"]
    /\ UNCHANGED <<stage, cargo, queue, holder, waiters, cancel, abort, hand,
                   replayer, turnVars>>

\* take_next finds nothing; an existing entry is marked draining all the same.
TakeNothing(p) ==
    /\ drain[p] = "take"
    /\ queue = <<>>
    /\ slot' = IF slot = "absent" THEN slot ELSE "draining"
    /\ drain' = [drain EXCEPT ![p] = "finish"]
    /\ UNCHANGED <<stage, cargo, queue, holder, waiters, cancel, abort, hand,
                   replayer, turnVars>>

\* chat.send of the replay reaches admission.
Replay(p) ==
    /\ drain[p] = "replay"
    /\ OpenSlot
    /\ hand' = [hand EXCEPT ![p] = Nobody]
    /\ LET m     == hand[p]
           place == Admission(m, TRUE)
       IN  /\ Enqueue(m, place)
           /\ IF place = "acquired"
              THEN /\ stage' = [stage EXCEPT ![m] = "setup"]
                   /\ holder' = Turn(m)
                   /\ replayer' = [replayer EXCEPT ![m] = p]
                   /\ drain' = [drain EXCEPT ![p] = "sending"]
              ELSE /\ stage' = [stage EXCEPT ![m] = "queued"]
                   /\ drain' = [drain EXCEPT ![p] = "finish"]
                   /\ UNCHANGED <<holder, replayer>>
    /\ UNCHANGED <<cargo, waiters, cancel, abort, turnVars>>

\* Bug: a replay that was refused is put back, to be tried again.
RefuseReplay_Requeues(p) ==
    /\ drain[p] = "replay"
    /\ stage' = [stage EXCEPT ![hand[p]] = "queued"]
    /\ queue' = <<hand[p]>> \o queue
    /\ hand' = [hand EXCEPT ![p] = Nobody]
    /\ drain' = [drain EXCEPT ![p] = "take"]
    /\ UNCHANGED <<cargo, slot, holder, waiters, cancel, abort, replayer, turnVars>>

\* chat.send of the replay fails before admission: settled, next batch.
RefuseReplay(p) ==
    /\ drain[p] = "replay"
    /\ stage' = [stage EXCEPT ![hand[p]] = "refused"]
    /\ hand' = [hand EXCEPT ![p] = Nobody]
    /\ drain' = [drain EXCEPT ![p] = "take"]
    /\ UNCHANGED <<cargo, queue, slot, holder, waiters, cancel, abort, replayer, turnVars>>

FinishDraining(p) ==
    /\ drain[p] = "finish"
    /\ slot' = IF queue = <<>> THEN "absent" ELSE "idle"
    /\ drain' = [drain EXCEPT ![p] = "off"]
    /\ UNCHANGED <<stage, cargo, queue, holder, waiters, cancel, abort, hand,
                   replayer, turnVars>>

\* A drainer dies, and what it had in hand, or in its send call, dies with it.
\* The entry stays marked as draining.
DieDraining(p) ==
    /\ drain' = [drain EXCEPT ![p] = "dead"]
    /\ \/ /\ drain[p] \in {"take", "finish"}
          /\ UNCHANGED <<stage, hand, replayer, holder, waiters, abort, history>>
       \/ /\ drain[p] = "replay"
          /\ stage' = [stage EXCEPT ![hand[p]] = "lost"]
          /\ UNCHANGED <<hand, replayer, holder, waiters, abort, history>>
       \/ /\ drain[p] = "sending"
          /\ \E m \in Msgs :
                /\ replayer[m] = p
                /\ stage' = [stage EXCEPT ![m] = "lost"]
                /\ hand' = [hand EXCEPT ![p] = m]
                /\ replayer' = [replayer EXCEPT ![m] = Nobody]
                /\ MayHaveStored(m)
                /\ ReleasePermit(abort)
    /\ UNCHANGED <<cargo, queue, slot, cancel, runs, bySession, terminal, draft, sent>>

\* The task of an aborted run that ran on into its drain is cancelled there.
KillDrain(m) == m \in cancel /\ DieDraining(Turn(m))

\* A failed send and an abort drain in the request handler.
InRequest(p) ==
    \E m \in Remote : p = Abort(m) \/ (p = Turn(m) /\ stage[m] = "unstarted")

DropDrain(p) == InRequest(p) /\ DieDraining(p)

-----------------------------------------------------------------------------

\* What the server does by itself once a turn is admitted ...
TurnStep(m) ==
    \/ StartRun(m) \/ FailSetup(m) \/ BeginRun(m)
    \/ CommitSuccess(m) \/ PersistAssistant(m) \/ BroadcastFinal(m)
    \/ CommitError(m) \/ BroadcastError(m) \/ EndSilently(m)
    \/ Unlist(m) \/ Unmap(m) \/ ReleaseRun(m) \/ Kill(m) \/ CleanupAbort(m)

\* ... and in a drain.
DrainStep(p) ==
    \/ TakeBatch(p) \/ TakeNothing(p) \/ Replay(p) \/ RefuseReplay(p)
    \/ FinishDraining(p)

Draining(p) == drain[p] \notin {"off", "dead"}

\* Nothing is under way; queued messages may still wait for somebody.
Idle ==
    /\ holder = Nobody
    /\ \A p \in Procs : ~Draining(p)
    /\ UNCHANGED vars

Next ==
    \/ \E m \in Msgs : Arrive(m) \/ ArriveSync(m) \/ ClaimAbort(m)
                       \/ Panic(m) \/ KillDrain(m) \/ TurnStep(m)
                       \/ DropSend(m) \/ DropWait(m) \/ DropCleanup(m)
    \/ \E p \in Procs : DrainStep(p) \/ DropDrain(p)
    \/ CancelQueued
    \/ Idle

Spec == Init /\ [][Next]_vars

\* Spawned tasks go on, and so do calls as long as nobody drops them; users
\* and clients owe nothing.
FairSpec == Spec /\ \A m \in Msgs : WF_vars(TurnStep(m))
                 /\ \A p \in Procs : WF_vars(DrainStep(p))

-----------------------------------------------------------------------------
(* Properties.                                                             *)

\* Exactly the turn between admission and release, or the abort call that is
\* cleaning up, holds the session permit: two turns never work on one session,
\* and no path (failed setup, kill, panic, completion) forgets or doubles it.
PermitExclusion ==
    /\ \A m \in Msgs : stage[m] \in Holding <=> holder = Turn(m)
    /\ \A m \in Msgs : abort[m] = "cleanup" <=> holder = Abort(m)

\* "Holding the terminal and run-map locks makes abort versus successful terminal
\* transition a single-winner race": the clients of a run never see it both final
\* (or failed) and aborted.
SingleWinner ==
    \A m \in Msgs : "aborted" \in sent[m] => sent[m] = {"aborted"}

\* A run that was told to abort late may still announce a result, but a run
\* that announced one without having been told is never claimed afterwards,
\* although its session entry outlives the announcement.
AnnouncedIsUnclaimed ==
    \A m \in Msgs : /\ sent[m] \cap {"final", "error"} # {}
                    /\ m \notin cancel
                    => abort[m] = "none"

\* A send, an abort or a drain was dropped or killed at an await; an append it
\* had begun may land later.
CallDropped ==
    \/ \E m \in Msgs : stage[m] = "dropped" \/ abort[m] \in {"gone", "cut"}
    \/ \E p \in Procs : drain[p] = "dead"

\* As long as no call was dropped, the stored conversation is a sequence of
\* turns: an assistant or partial entry directly follows the user entry of its
\* own turn.
HistoryAlternates ==
    ~CallDropped =>
        \A i \in 1..Len(history) :
            history[i][1] # "user" => /\ i > 1
                                      /\ history[i - 1] = <<"user", history[i][2]>>

\* No message is doubled on its way through queue, hands and merges, and none is
\* lost but the one that a dead drainer had in hand or in its send call.
ExactlyOnce ==
    /\ \A m \in Msgs : stage[m] = "queued" <=> m \in ToSet(queue)
    /\ \A i, j \in 1..Len(queue) : queue[i] = queue[j] => i = j
    /\ \A m \in Msgs :
           /\ stage[m] = "inhand" <=> \E p \in Procs : Draining(p) /\ hand[p] = m
           /\ stage[m] = "lost" <=> \E p \in Procs : drain[p] = "dead" /\ hand[p] = m
    /\ \A p, q \in Procs : hand[p] = hand[q] /\ hand[p] # Nobody => p = q
    /\ \A m \in Msgs : \E k \in Msgs :
           /\ stage[m] = "merged" <=> k # m
           /\ {j \in Msgs : m \in cargo[j] /\ stage[j] # "merged"} = {k}

\* In collect mode a turn never carries text of another security context.
OneContextPerTurn ==
    \A m \in Msgs : \A k \in cargo[m] : Context[k] = Context[m]

\* Messages wait, and neither a turn, an abort nor a drain is left to take them.
Unattended ==
    /\ queue # <<>>
    /\ holder = Nobody
    /\ \A p \in Procs : ~Draining(p)

\* "followup - Queue messages, replay one-by-one after run".
NothingStranded == ~Unattended

\* The end of a run, of an abort or of a failed turn never leaves the queue
\* unattended.  What does is a panic, a call that is dropped or killed with the
\* drain it owed, the kill of a run whose abort was dropped, a drainer that
\* finishes after a message arrived behind its back, and an arrival behind the
\* mark of a dead drainer.
EndsHandOver ==
    [][Unattended' /\ ~Unattended
           => \/ \E m \in Msgs : \/ Panic(m) \/ KillDrain(m)
                                 \/ DropSend(m) \/ DropCleanup(m)
                                 \/ Kill(m) /\ abort[m] = "gone"
              \/ \E p \in Procs : FinishDraining(p) \/ DropDrain(p)
              \/ /\ slot = "draining"
                 /\ \E p \in Procs : drain[p] = "dead"
                 /\ \E m \in Msgs : Arrive(m)]_vars

\* An abort that won its claim gets the permit and finishes, unless it is dropped.
AbortFinishes ==
    \A m \in Msgs : (abort[m] = "waiting") ~> (abort[m] \in {"done", "gone", "cut"})

\* Every drain comes to an end: a replay that cannot be admitted goes back to
\* the queue for the permit's holder, one that fails is settled, and neither is
\* tried for ever.
DrainEnds ==
    \A p \in Procs : Draining(p) ~> ~Draining(p)

-----------------------------------------------------------------------------
(* The session as its users see it (SerialTurns).                          *)

Phase(place) ==
    CASE place = "new"                  -> "new"
      [] place \in {"queued", "inhand"} -> "waiting"
      [] place \in Holding              -> "active"
      [] OTHER                          -> "closed"

CleanupOf(call) ==
    CASE call \in {"none", "waiting", "gone"} -> "none"
      [] call = "cleanup"                     -> "now"
      [] OTHER                                -> "over"

Serial == INSTANCE SerialTurns
          WITH status  <- [m \in Msgs |-> Phase(stage[m])],
               cleanup <- [m \in Msgs |-> CleanupOf(abort[m])]

\* Queue, drainers, permit and tasks implement a session that works for one
\* message at a time and for no message twice: a replayed, merged, requeued,
\* cancelled or aborted message never becomes active again, and a cleanup is
\* done at most once, while nobody else works on the session.
WorksSerially == Serial!Spec

=============================================================================
