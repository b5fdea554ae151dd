-------------------------- MODULE ChatTurnsProofs --------------------------
(***************************************************************************)
(* TLAPS proofs about ChatTurns, for every set of messages, both queue     *)
(* modes, and with or without panics and late cancellation.                *)
(***************************************************************************)
EXTENDS ChatTurns, SequenceFacts, TLAPS

-----------------------------------------------------------------------------
(* The inductive invariant behind PermitExclusion.                         *)

\* The processes are pairwise different, and none of them is Nobody.
LEMMA ProcFacts ==
    /\ \A m \in Msgs : /\ Turn(m) \in Procs /\ Abort(m) \in Procs
                       /\ Turn(m) # Nobody /\ Abort(m) # Nobody /\ m # Nobody
    /\ \A m, k \in Msgs : /\ Turn(m) # Abort(k)
                          /\ Turn(m) = Turn(k) => m = k
                          /\ Abort(m) = Abort(k) => m = k
  BY ChatTurnsAssumption DEF Turn, Abort, Procs

\* The queue holds exactly the queued messages, once each.
QueueInv ==
    /\ \A m \in Msgs : stage[m] = "queued" <=> m \in ToSet(queue)
    /\ IsInjective(queue)

\* A message in some drainer's hand is in no other hand and nowhere else, or lost
\* with that drainer.
HandInv ==
    /\ \A p \in Procs : hand[p] # Nobody => stage[hand[p]] \in {"inhand", "lost"}
    /\ \A p, q \in Procs : hand[p] = hand[q] /\ hand[p] # Nobody => p = q
    /\ \A p \in Procs : drain[p] = "replay"
                         => hand[p] # Nobody /\ stage[hand[p]] = "inhand"
    /\ \A m \in Msgs : replayer[m] # Nobody => stage[m] = "setup"

\* The wait queue holds exactly the waiting aborts; a free permit has none.
WaitInv ==
    /\ \A m \in Msgs : abort[m] = "waiting" <=> m \in ToSet(waiters)
    /\ IsInjective(waiters)
    /\ waiters # <<>> => holder # Nobody

\* A run is claimed once: no abort has touched the run its session names, nor
\* a message that is not a run yet.
BeforeRun == {"new", "queued", "inhand", "setup"}

ClaimInv ==
    /\ \A m \in Msgs : bySession = m => /\ abort[m] = "none"
                                        /\ stage[m] \notin BeforeRun
    /\ \A m \in Msgs : stage[m] \in BeforeRun => abort[m] = "none"

PermitInv ==
    /\ TypeOK
    /\ PermitExclusion
    /\ QueueInv
    /\ HandInv
    /\ WaitInv
    /\ ClaimInv

\* Before any message arrives nobody holds, waits for or claims anything.
LEMMA InitPermitInv == Init => PermitInv
  <1> SUFFICES ASSUME Init PROVE PermitInv OBVIOUS
  <1> USE ProcFacts, ChatTurnsAssumption DEF Init
  <1>1. TypeOK
    BY DEF TypeOK, Stages, AbortStates, DrainStates
  <1>2. PermitExclusion
    BY DEF PermitExclusion, Holding, TaskStages
  <1>3. QueueInv /\ WaitInv
    BY DEF QueueInv, WaitInv, IsInjective, ToSet
  <1>4. HandInv /\ ClaimInv
    BY DEF HandInv, ClaimInv
  <1> QED BY <1>1, <1>2, <1>3, <1>4 DEF PermitInv

\* Releasing the permit serves the first waiting abort, or frees the permit.
\* "calls" are the abort calls as the releasing step leaves them.
LEMMA ReleaseFacts ==
    ASSUME TypeOK, WaitInv,
           NEW calls \in [Msgs -> AbortStates],
           \A m \in Msgs : calls[m] = "waiting" <=> m \in ToSet(waiters),
           \A m \in Msgs : calls[m] # "cleanup",
           ReleasePermit(calls)
    PROVE  /\ holder' \in Procs \cup {Nobody}
           /\ waiters' \in Seq(Msgs)
           /\ abort' \in [Msgs -> AbortStates]
           /\ WaitInv'
           /\ \A m \in Msgs : abort'[m] = "cleanup" <=> holder' = Abort(m)
           /\ \A m \in Msgs : holder' # Turn(m)
           /\ \A m \in Msgs : abort'[m] = "none" <=> calls[m] = "none"
  <1>1. waiters \in Seq(Msgs) /\ IsInjective(waiters)
    BY DEF TypeOK, WaitInv
  <1>2. CASE waiters = <<>>
    <2>1. holder' = Nobody /\ abort' = calls /\ waiters' = waiters
      BY <1>2 DEF ReleasePermit
    <2>2. WaitInv'
      BY <2>1, <1>1, <1>2 DEF WaitInv, IsInjective, ToSet
    <2> QED BY <2>1, <2>2, <1>1, ProcFacts
  <1>3. CASE waiters # <<>>
    <2> DEFINE h == Head(waiters)
    <2>1. /\ holder' = Abort(h) /\ abort' = [calls EXCEPT ![h] = "cleanup"]
          /\ waiters' = Tail(waiters)
      BY <1>3 DEF ReleasePermit
    <2>2. /\ h \in Msgs /\ h \in ToSet(waiters) /\ Tail(waiters) \in Seq(Msgs)
          /\ ToSet(Tail(waiters)) = ToSet(waiters) \ {h}
          /\ IsInjective(Tail(waiters))
      BY <1>1, <1>3, TailFacts
    <2> HIDE DEF h
    <2>3. calls[h] = "waiting"
      BY <2>2
    <2>4. /\ abort' \in [Msgs -> AbortStates]
          /\ abort'[h] = "cleanup"
          /\ \A m \in Msgs : m # h => abort'[m] = calls[m]
      BY <2>1, <2>2 DEF AbortStates
    <2>5. \A m \in Msgs : abort'[m] = "waiting" <=> m \in ToSet(Tail(waiters))
      BY <2>2, <2>4
    <2>6. ToSet(waiters)' = ToSet(Tail(waiters)) /\ IsInjective(waiters)'
      BY <2>1, <2>2 DEF ToSet, IsInjective
    <2>7. WaitInv'
      BY <2>1, <2>2, <2>5, <2>6, ProcFacts DEF WaitInv
    <2> QED BY <2>1, <2>2, <2>3, <2>4, <2>7, ProcFacts
  <1> QED BY <1>2, <1>3

\* Steps that touch neither the queue, the hands, the permit nor the claims.
LEMMA TaskStepInv ==
    ASSUME PermitInv, NEW m \in Msgs, NEW from \in TaskStages, NEW to \in TaskStages,
           InTask(m, from, to), from # "new",
           runs' \subseteq Msgs, terminal' \subseteq Msgs,
           draft' \in Msgs \cup {Nobody},
           bySession' \in {bySession, Nobody},
           sent' \in [Msgs -> SUBSET {"final", "error", "aborted"}],
           history' \in Seq({"user", "assistant", "partial"} \X Msgs)
    PROVE  PermitInv'
  <1> USE DEF PermitInv, InTask, TaskStep, drainVars
  <1>1. TypeOK'
    BY DEF TypeOK, Stages, Holding
  <1>2. PermitExclusion'
    BY DEF TypeOK, PermitExclusion, Holding
  <1>3. QueueInv'
    BY DEF TypeOK, QueueInv, TaskStages, ToSet, IsInjective
  <1>4. HandInv'
    BY DEF TypeOK, HandInv, TaskStages
  <1>5. WaitInv'
    BY DEF WaitInv, ToSet, IsInjective
  <1>6. ClaimInv'
    BY ProcFacts DEF TypeOK, ClaimInv, TaskStages, BeforeRun
  <1> QED BY <1>1, <1>2, <1>3, <1>4, <1>5, <1>6

\* An ordinary arrival takes the permit or the last place of the queue: it is
\* in exactly one of the two.
LEMMA ArriveInv == ASSUME PermitInv, NEW m \in Msgs, Arrive(m) PROVE PermitInv'
  <1> USE DEF PermitInv
  <1>0. /\ queue \in Seq(Msgs) /\ stage \in [Msgs -> Stages] /\ stage[m] = "new"
        /\ m \notin ToSet(queue) /\ IsInjective(queue)
    BY DEF TypeOK, QueueInv, Arrive
  <1>1. CASE Admission(m, FALSE) = "acquired"
    <2>1. /\ holder = Nobody /\ queue' = queue /\ holder' = Turn(m)
          /\ stage' = [stage EXCEPT ![m] = "setup"]
          /\ slot' \in {"absent", "idle", "draining"}
      BY <1>1 DEF Arrive, Admission, Enqueue, OpenSlot, TypeOK
    <2>2. TypeOK'
      BY <2>1, ProcFacts DEF Arrive, TypeOK, Stages, Holding, turnVars, drainVars
    <2>3. PermitExclusion'
      BY <2>1, <1>0, ProcFacts DEF Arrive, PermitExclusion, Holding
    <2>4. QueueInv'
      BY <2>1, <1>0 DEF QueueInv, ToSet, IsInjective
    <2>5. HandInv'
      BY <2>1, <1>0, ProcFacts DEF Arrive, HandInv, drainVars, TypeOK
    <2>6. WaitInv'
      BY <2>1, ProcFacts DEF Arrive, WaitInv, ToSet, IsInjective
    <2>7. ClaimInv'
      BY <2>1, <1>0, ProcFacts DEF Arrive, ClaimInv, BeforeRun, turnVars
    <2> QED BY <2>2, <2>3, <2>4, <2>5, <2>6, <2>7
  <1>2. CASE Admission(m, FALSE) # "acquired"
    <2>1. /\ queue' = Append(queue, m) /\ holder' = holder
          /\ stage' = [stage EXCEPT ![m] = "queued"]
          /\ slot' \in {"absent", "idle", "draining"}
      BY <1>2 DEF Arrive, Admission, Enqueue, OpenSlot, TypeOK
    <2>2. /\ Append(queue, m) \in Seq(Msgs)
          /\ ToSet(Append(queue, m)) = ToSet(queue) \cup {m}
          /\ IsInjective(Append(queue, m))
      BY <1>0, AppendFacts
    <2>3. TypeOK'
      BY <2>1, <2>2 DEF Arrive, TypeOK, Stages, turnVars, drainVars
    <2>4. PermitExclusion'
      BY <2>1, <1>0 DEF Arrive, PermitExclusion, Holding, TaskStages
    <2>5. QueueInv'
      <3>1. ToSet(queue)' = ToSet(queue) \cup {m} /\ IsInjective(queue)'
        BY <2>1, <2>2 DEF ToSet, IsInjective
      <3> QED BY <3>1, <2>1, <1>0 DEF QueueInv
    <2>6. HandInv'
      BY <2>1, <1>0, ProcFacts DEF Arrive, HandInv, drainVars, TypeOK
    <2>7. WaitInv'
      BY <2>1 DEF Arrive, WaitInv, ToSet, IsInjective
    <2>8. ClaimInv'
      BY <2>1, <1>0 DEF Arrive, ClaimInv, BeforeRun, turnVars
    <2> QED BY <2>3, <2>4, <2>5, <2>6, <2>7, <2>8
  <1> QED BY <1>1, <1>2

\* A synchronous send takes the free permit or is refused; it never enters the
\* queue.
LEMMA ArriveSyncInv == ASSUME PermitInv, NEW m \in Msgs, ArriveSync(m) PROVE PermitInv'
  <1> USE DEF PermitInv
  <1>0. stage \in [Msgs -> Stages] /\ stage[m] = "new"
    BY DEF TypeOK, ArriveSync
  <1>1. PICK to \in {"busy", "setup"} :
            /\ stage' = [stage EXCEPT ![m] = to]
            /\ to = "setup" => holder = Nobody /\ holder' = Turn(m)
            /\ to = "busy" => holder' = holder
    BY DEF ArriveSync
  <1>2. TypeOK'
    BY <1>1, ProcFacts DEF ArriveSync, TypeOK, Stages, Holding, turnVars, drainVars
  <1>3. PermitExclusion'
    BY <1>1, <1>0, ProcFacts DEF ArriveSync, PermitExclusion, Holding, TaskStages
  <1>4. QueueInv'
    BY <1>1, <1>0 DEF ArriveSync, QueueInv, ToSet, IsInjective
  <1>5. HandInv'
    BY <1>1, <1>0, ProcFacts DEF ArriveSync, HandInv, drainVars, TypeOK
  <1>6. WaitInv'
    BY <1>1, ProcFacts DEF ArriveSync, WaitInv, ToSet, IsInjective
  <1>7. ClaimInv'
    BY <1>1, <1>0, ProcFacts DEF ArriveSync, ClaimInv, BeforeRun, turnVars
  <1> QED BY <1>2, <1>3, <1>4, <1>5, <1>6, <1>7

\* Cancelling the queue moves queued messages only, and nobody's permit.
LEMMA CancelQueuedInv == ASSUME PermitInv, CancelQueued PROVE PermitInv'
  <1> USE DEF PermitInv
  <1>0. /\ stage' \in [Msgs -> Stages] /\ queue' = <<>>
        /\ \A m \in Msgs : stage'[m] = IF stage[m] = "queued" THEN "cancelled" ELSE stage[m]
    BY DEF CancelQueued, QueueInv, TypeOK, Stages
  <1>1. TypeOK'
    BY <1>0 DEF CancelQueued, TypeOK, turnVars, drainVars
  <1>2. PermitExclusion'
    BY <1>0 DEF CancelQueued, PermitExclusion, Holding, TaskStages
  <1>3. QueueInv'
    BY <1>0 DEF QueueInv, ToSet, IsInjective
  <1>4. HandInv'
    BY <1>0, ProcFacts DEF CancelQueued, HandInv, drainVars, TypeOK
  <1>5. WaitInv'
    BY DEF CancelQueued, WaitInv, ToSet, IsInjective
  <1>6. ClaimInv'
    BY <1>0 DEF CancelQueued, ClaimInv, BeforeRun, turnVars
  <1> QED BY <1>1, <1>2, <1>3, <1>4, <1>5, <1>6

\* The permit goes over from the send call to the run task it spawns.
LEMMA StartRunInv == ASSUME PermitInv, NEW m \in Msgs, StartRun(m) PROVE PermitInv'
  <1> USE DEF PermitInv
  <1>0. /\ stage \in [Msgs -> Stages] /\ stage[m] = "setup"
        /\ stage' = [stage EXCEPT ![m] = "registered"]
    BY DEF TypeOK, StartRun, RegisterRun
  <1>1. TypeOK'
    <2>1. drain' \in [Procs -> DrainStates]
      BY DEF StartRun, RegisterRun, TypeOK, DrainStates
    <2>2. history' \in Seq({"user", "assistant", "partial"} \X Msgs)
      BY DEF StartRun, RegisterRun, TypeOK
    <2> QED BY <2>1, <2>2, <1>0 DEF StartRun, RegisterRun, TypeOK, Stages, Holding, TaskStages
  <1>2. PermitExclusion'
    BY <1>0 DEF StartRun, RegisterRun, PermitExclusion, Holding, TaskStages
  <1>3. QueueInv'
    BY <1>0 DEF StartRun, RegisterRun, QueueInv, ToSet, IsInjective
  <1>4. HandInv'
    BY <1>0, ProcFacts DEF StartRun, RegisterRun, HandInv, TypeOK
  <1>5. WaitInv'
    BY DEF StartRun, RegisterRun, WaitInv, ToSet, IsInjective
  <1>6. ClaimInv'
    BY <1>0 DEF StartRun, RegisterRun, ClaimInv, BeforeRun
  <1> QED BY <1>1, <1>2, <1>3, <1>4, <1>5, <1>6

\* While a turn holds the permit no abort is cleaning up.
LEMMA NoCleanup ==
    ASSUME PermitInv, NEW m \in Msgs, stage[m] \in Holding
    PROVE  /\ holder = Turn(m)
           /\ \A k \in Msgs : abort[k] # "cleanup"
           /\ \A k \in Msgs : k # m => stage[k] \notin Holding
           /\ abort \in [Msgs -> AbortStates]
           /\ \A k \in Msgs : abort[k] = "waiting" <=> k \in ToSet(waiters)
  BY ProcFacts DEF PermitInv, PermitExclusion, TypeOK, AbortStates, WaitInv

\* The turn of m ends in stage "to", and gives its permit back.
LEMMA TurnEndsInv ==
    ASSUME PermitInv, NEW m \in Msgs, stage[m] \in Holding,
           NEW to \in Stages \ (Holding \cup BeforeRun),
           stage' = [stage EXCEPT ![m] = to],
           ReleasePermit(abort),
           UNCHANGED <<cargo, queue, slot, cancel, runs, bySession, sent>>,
           history' \in Seq({"user", "assistant", "partial"} \X Msgs),
           terminal' \subseteq Msgs, draft' \in Msgs \cup {Nobody},
           bySession # m \/ stage[m] # "setup",
           drain' \in [Procs -> DrainStates],
           hand' \in [Procs -> Msgs \cup {Nobody}],
           replayer' \in [Msgs -> Procs \cup {Nobody}],
           HandInv'
    PROVE  PermitInv'
  <1> USE DEF PermitInv
  <1>0. TypeOK /\ WaitInv /\ stage \in [Msgs -> Stages]
    BY DEF TypeOK
  <1>1. /\ holder' \in Procs \cup {Nobody}
        /\ waiters' \in Seq(Msgs)
        /\ abort' \in [Msgs -> AbortStates]
        /\ WaitInv'
        /\ \A k \in Msgs : abort'[k] = "cleanup" <=> holder' = Abort(k)
        /\ \A k \in Msgs : holder' # Turn(k)
        /\ \A k \in Msgs : abort'[k] = "none" <=> abort[k] = "none"
    BY <1>0, NoCleanup, ReleaseFacts
  <1>2. \A k \in Msgs : stage'[k] \notin Holding
    BY <1>0, NoCleanup
  <1>3. TypeOK'
    BY <1>0, <1>1 DEF TypeOK, AbortStates
  <1>4. PermitExclusion'
    BY <1>1, <1>2 DEF PermitExclusion
  <1>5. QueueInv'
    BY <1>0 DEF QueueInv, ToSet, IsInjective, BeforeRun, Holding, TaskStages
  <1>6. ClaimInv'
    BY <1>0, <1>1 DEF ClaimInv
  <1> QED BY <1>1, <1>3, <1>4, <1>5, <1>6

\* A turn that fails before its task exists gives its permit back once, whether
\* it was sent directly or replayed by a drainer.
LEMMA FailSetupInv == ASSUME PermitInv, NEW m \in Msgs, FailSetup(m) PROVE PermitInv'
  <1>0. TypeOK /\ HandInv /\ ClaimInv
    BY DEF PermitInv
  <1>1. /\ stage[m] = "setup" /\ stage[m] \in Holding
        /\ stage' = [stage EXCEPT ![m] = "unstarted"] /\ stage \in [Msgs -> Stages]
    BY <1>0 DEF FailSetup, FinishUnstarted, Holding, TypeOK
  <1>2. HandInv'
    BY <1>0, <1>1, ProcFacts DEF FailSetup, FinishUnstarted, HandInv, TypeOK
  <1>3. "unstarted" \in Stages \ (Holding \cup BeforeRun)
    BY DEF Stages, Holding, TaskStages, BeforeRun
  <1>4. bySession # m
    BY <1>0, <1>1 DEF ClaimInv, BeforeRun
  <1>5. /\ drain' \in [Procs -> DrainStates]
        /\ hand' \in [Procs -> Msgs \cup {Nobody}]
        /\ replayer' \in [Msgs -> Procs \cup {Nobody}]
        /\ terminal' \subseteq Msgs /\ draft' \in Msgs \cup {Nobody}
        /\ history' \in Seq({"user", "assistant", "partial"} \X Msgs)
        /\ UNCHANGED <<cargo, queue, slot, cancel, runs, bySession, sent>>
    BY <1>0 DEF FailSetup, FinishUnstarted, TypeOK, DrainStates, turnVars
  <1>6. ReleasePermit(abort)
    BY DEF FailSetup, FinishUnstarted
  <1> QED BY <1>1, <1>2, <1>3, <1>4, <1>5, <1>6, TurnEndsInv

\* The user message that a dropped call may have stored is well typed.
LEMMA StoredTypes ==
    ASSUME TypeOK, NEW m \in Msgs, MayHaveStored(m)
    PROVE  history' \in Seq({"user", "assistant", "partial"} \X Msgs)
  <1> DEFINE H == {"user", "assistant", "partial"} \X Msgs
             e == <<"user", m>>
  <1>1. e \in H /\ history \in Seq(H) /\ history' \in {history, Append(history, e)}
    BY DEF TypeOK, MayHaveStored
  <1> HIDE DEF H, e
  <1>2. history' \in Seq(H)
    BY <1>1
  <1> QED BY <1>2 DEF H

\* A send call that is dropped before its run task exists gives its permit back.
LEMMA DropSendInv == ASSUME PermitInv, NEW m \in Msgs, DropSend(m) PROVE PermitInv'
  <1>0. TypeOK /\ HandInv /\ ClaimInv
    BY DEF PermitInv
  <1>1. /\ stage[m] = "setup" /\ stage[m] \in Holding
        /\ stage' = [stage EXCEPT ![m] = "dropped"] /\ stage \in [Msgs -> Stages]
    BY <1>0 DEF DropSend, Holding, TypeOK
  <1>2. HandInv'
    BY <1>0, <1>1, ProcFacts DEF DropSend, HandInv, TypeOK, drainVars
  <1>3. "dropped" \in Stages \ (Holding \cup BeforeRun)
    BY DEF Stages, Holding, TaskStages, BeforeRun
  <1>4. bySession # m
    BY <1>0, <1>1 DEF ClaimInv, BeforeRun
  <1>5. history' \in Seq({"user", "assistant", "partial"} \X Msgs)
    BY <1>0, StoredTypes DEF DropSend
  <1>6. /\ drain' \in [Procs -> DrainStates]
        /\ hand' \in [Procs -> Msgs \cup {Nobody}]
        /\ replayer' \in [Msgs -> Procs \cup {Nobody}]
        /\ terminal' \subseteq Msgs /\ draft' \in Msgs \cup {Nobody}
        /\ UNCHANGED <<cargo, queue, slot, cancel, runs, bySession, sent>>
    BY <1>0 DEF DropSend, TypeOK, drainVars
  <1>7. ReleasePermit(abort)
    BY DEF DropSend
  <1> QED BY <1>1, <1>2, <1>3, <1>4, <1>5, <1>6, <1>7, TurnEndsInv

\* A finished run gives its permit back once, and then drains.
LEMMA ReleaseRunInv == ASSUME PermitInv, NEW m \in Msgs, ReleaseRun(m) PROVE PermitInv'
  <1>0. TypeOK /\ HandInv
    BY DEF PermitInv
  <1>1. /\ stage[m] = "unmapped" /\ stage[m] \in Holding
        /\ stage' = [stage EXCEPT ![m] = "done"] /\ stage \in [Msgs -> Stages]
    BY <1>0 DEF ReleaseRun, TaskStep, Holding, TaskStages, TypeOK
  <1>2. HandInv'
    BY <1>0, <1>1, ProcFacts DEF ReleaseRun, HandInv, TypeOK
  <1>3. "done" \in Stages \ (Holding \cup BeforeRun)
    BY DEF Stages, Finished, Holding, TaskStages, BeforeRun
  <1>4. /\ drain' \in [Procs -> DrainStates]
        /\ hand' \in [Procs -> Msgs \cup {Nobody}]
        /\ replayer' \in [Msgs -> Procs \cup {Nobody}]
        /\ terminal' \subseteq Msgs /\ draft' \in Msgs \cup {Nobody}
        /\ history' \in Seq({"user", "assistant", "partial"} \X Msgs)
        /\ UNCHANGED <<cargo, queue, slot, cancel, runs, bySession, sent>>
    BY <1>0 DEF ReleaseRun, TaskStep, TypeOK, DrainStates
  <1>5. ReleasePermit(abort)
    BY DEF ReleaseRun
  <1> QED BY <1>1, <1>2, <1>3, <1>4, <1>5, TurnEndsInv

\* A run task that is killed or panics gives its permit back at whatever stage
\* it dies.
LEMMA TaskDiesInv ==
    ASSUME PermitInv, NEW m \in Msgs, NEW how \in Finished, TaskDies(m, how)
    PROVE  PermitInv'
  <1>0. TypeOK /\ HandInv
    BY DEF PermitInv
  <1>1. /\ stage[m] \in TaskStages /\ stage[m] \in Holding /\ stage[m] # "setup"
        /\ stage' = [stage EXCEPT ![m] = how] /\ stage \in [Msgs -> Stages]
    BY <1>0 DEF TaskDies, Holding, TaskStages, TypeOK
  <1>2. HandInv'
    BY <1>0, <1>1, ProcFacts DEF TaskDies, TaskStages, HandInv, TypeOK, drainVars
  <1>3. how \in Stages \ (Holding \cup BeforeRun)
    BY DEF Stages, Finished, Holding, TaskStages, BeforeRun
  <1>4. /\ drain' \in [Procs -> DrainStates]
        /\ hand' \in [Procs -> Msgs \cup {Nobody}]
        /\ replayer' \in [Msgs -> Procs \cup {Nobody}]
        /\ terminal' \subseteq Msgs /\ draft' \in Msgs \cup {Nobody}
        /\ history' \in Seq({"user", "assistant", "partial"} \X Msgs)
        /\ UNCHANGED <<cargo, queue, slot, cancel, runs, bySession, sent>>
    BY <1>0 DEF TaskDies, TypeOK, turnVars, drainVars
  <1>5. ReleasePermit(abort)
    BY DEF TaskDies
  <1> QED BY <1>1, <1>2, <1>3, <1>4, <1>5, TurnEndsInv

\* A claim takes the free permit, or waits for it behind earlier claims, and no
\* run is claimed twice.
LEMMA ClaimAbortInv == ASSUME PermitInv, NEW m \in Msgs, ClaimAbort(m) PROVE PermitInv'
  <1> USE DEF PermitInv
  <1>0. /\ abort[m] = "none" /\ bySession = m /\ bySession' = Nobody
        /\ stage[m] \notin BeforeRun
        /\ abort \in [Msgs -> AbortStates] /\ waiters \in Seq(Msgs)
        /\ m \notin ToSet(waiters) /\ IsInjective(waiters)
        /\ UNCHANGED <<stage, cargo, queue, slot, terminal, draft, sent, history, drainVars>>
    BY DEF ClaimAbort, ClaimInv, WaitInv, TypeOK, AbortStates
  <1>1. QueueInv' /\ HandInv'
    BY <1>0 DEF QueueInv, HandInv, ToSet, IsInjective, drainVars
  <1>2. runs' \subseteq Msgs /\ cancel' \subseteq Msgs
    BY DEF ClaimAbort, TypeOK
  <1>3. CASE holder = Nobody
    <2>1. /\ holder' = Abort(m) /\ waiters' = waiters
          /\ abort' = [abort EXCEPT ![m] = "cleanup"]
      BY <1>3 DEF ClaimAbort
    <2>2. TypeOK'
      BY <2>1, <1>0, <1>2, ProcFacts DEF TypeOK, AbortStates, drainVars
    <2>3. PermitExclusion'
      BY <2>1, <1>0, <1>3, ProcFacts DEF PermitExclusion
    <2>4. WaitInv'
      BY <2>1, <1>0, ProcFacts DEF WaitInv, ToSet, IsInjective
    <2>5. ClaimInv'
      BY <2>1, <1>0, ProcFacts DEF ClaimInv
    <2> QED BY <1>1, <2>2, <2>3, <2>4, <2>5
  <1>4. CASE holder # Nobody
    <2>1. /\ holder' = holder /\ waiters' = Append(waiters, m)
          /\ abort' = [abort EXCEPT ![m] = "waiting"]
      BY <1>4 DEF ClaimAbort
    <2>2. /\ Append(waiters, m) \in Seq(Msgs)
          /\ ToSet(Append(waiters, m)) = ToSet(waiters) \cup {m}
          /\ IsInjective(Append(waiters, m))
      BY <1>0, AppendFacts
    <2>3. TypeOK'
      BY <2>1, <2>2, <1>0, <1>2, ProcFacts DEF TypeOK, AbortStates, drainVars
    <2>4. PermitExclusion'
      BY <2>1, <1>0, ProcFacts DEF PermitExclusion
    <2>5. WaitInv'
      <3>1. ToSet(waiters)' = ToSet(waiters) \cup {m} /\ IsInjective(waiters)'
        BY <2>1, <2>2 DEF ToSet, IsInjective
      <3> QED BY <3>1, <2>1, <1>0, <1>4 DEF WaitInv
    <2>6. ClaimInv'
      BY <2>1, <1>0, ProcFacts DEF ClaimInv
    <2> QED BY <1>1, <2>3, <2>4, <2>5, <2>6
  <1> QED BY <1>3, <1>4

\* An abort call leaves its cleanup, because it is through with it or because it
\* is dropped somewhere in it.
CleanupEnds(m, to) ==
    /\ abort[m] = "cleanup"
    /\ ReleasePermit([abort EXCEPT ![m] = to])
    /\ history' \in {history, Append(history, <<"partial", m>>)}
    /\ draft' \in {draft, Nobody}
    /\ terminal' \in {terminal, terminal \ {m}}
    /\ sent' \in {sent, [sent EXCEPT ![m] = @ \cup {"aborted"}]}
    /\ drain' = IF to = "done" THEN [drain EXCEPT ![Abort(m)] = "take"] ELSE drain
    /\ UNCHANGED <<stage, cargo, queue, slot, runs, bySession, cancel, hand, replayer>>

\* The two ways to leave it.
LEMMA CleanupEndings ==
    ASSUME NEW m \in Msgs, CleanupAbort(m) \/ DropCleanup(m)
    PROVE  \E to \in {"done", "cut"} : CleanupEnds(m, to)
  <1>1. CleanupAbort(m) => CleanupEnds(m, "done")
    BY DEF CleanupAbort, KeepPartial, CleanupEnds
  <1>2. DropCleanup(m) => CleanupEnds(m, "cut")
    BY DEF DropCleanup, KeepPartial, CleanupEnds, drainVars
  <1> QED BY <1>1, <1>2

\* An abort that has cleaned up passes the permit on to the next waiting abort,
\* or frees it.
LEMMA CleanupEndsInv ==
    ASSUME PermitInv, NEW m \in Msgs, NEW to \in {"done", "cut"}, CleanupEnds(m, to)
    PROVE  PermitInv'
  <1> USE DEF PermitInv
  <1> DEFINE calls == [abort EXCEPT ![m] = to]
  <1>0. /\ TypeOK /\ WaitInv /\ abort[m] = "cleanup" /\ holder = Abort(m)
        /\ ReleasePermit(calls)
        /\ UNCHANGED <<stage, cargo, queue, slot, runs, bySession, cancel, hand, replayer>>
    BY DEF CleanupEnds, PermitExclusion
  <1>1. /\ calls \in [Msgs -> AbortStates]
        /\ \A k \in Msgs : calls[k] = "waiting" <=> k \in ToSet(waiters)
        /\ \A k \in Msgs : calls[k] # "cleanup"
        /\ \A k \in Msgs : calls[k] = "none" <=> abort[k] = "none"
    BY <1>0, ProcFacts DEF TypeOK, AbortStates, WaitInv, PermitExclusion
  <1> HIDE DEF calls
  <1>2. /\ holder' \in Procs \cup {Nobody}
        /\ waiters' \in Seq(Msgs)
        /\ abort' \in [Msgs -> AbortStates]
        /\ WaitInv'
        /\ \A k \in Msgs : abort'[k] = "cleanup" <=> holder' = Abort(k)
        /\ \A k \in Msgs : holder' # Turn(k)
        /\ \A k \in Msgs : abort'[k] = "none" <=> abort[k] = "none"
    BY <1>0, <1>1, ReleaseFacts
  <1>3. TypeOK'
    <2>1. drain' \in [Procs -> DrainStates]
      BY DEF CleanupEnds, TypeOK, DrainStates
    <2>2. history' \in Seq({"user", "assistant", "partial"} \X Msgs)
      <3> DEFINE H == {"user", "assistant", "partial"} \X Msgs
                 e == <<"partial", m>>
      <3>1. history' = history \/ history' = Append(history, e)
        BY DEF CleanupEnds
      <3>2. e \in H /\ history \in Seq(H)
        BY DEF TypeOK
      <3> HIDE DEF H, e
      <3>3. Append(history, e) \in Seq(H)
        BY <3>2
      <3>4. history' \in Seq(H)
        BY <3>1, <3>2, <3>3
      <3> QED BY <3>4 DEF H
    <2>3. /\ draft' \in Msgs \cup {Nobody} /\ terminal' \subseteq Msgs
          /\ sent' \in [Msgs -> SUBSET {"final", "error", "aborted"}]
      BY DEF CleanupEnds, TypeOK
    <2> QED BY <1>0, <1>2, <2>1, <2>2, <2>3 DEF TypeOK, AbortStates
  <1>4. PermitExclusion'
    BY <1>0, <1>2, ProcFacts DEF PermitExclusion
  <1>5. QueueInv'
    BY <1>0 DEF QueueInv, ToSet, IsInjective
  <1>6. HandInv'
    BY <1>0, ProcFacts DEF CleanupEnds, HandInv, TypeOK
  <1>7. ClaimInv'
    BY <1>0, <1>2 DEF ClaimInv
  <1> QED BY <1>2, <1>3, <1>4, <1>5, <1>6, <1>7

\* An abort dropped while it waits leaves the others in their order.
LEMMA DropWaitInv == ASSUME PermitInv, NEW m \in Msgs, DropWait(m) PROVE PermitInv'
  <1> USE DEF PermitInv
  <1>0. /\ abort[m] = "waiting" /\ abort' = [abort EXCEPT ![m] = "gone"]
        /\ abort \in [Msgs -> AbortStates]
        /\ waiters \in Seq(Msgs) /\ IsInjective(waiters) /\ waiters # <<>>
        /\ UNCHANGED <<stage, cargo, queue, slot, holder, cancel, turnVars, drainVars>>
    BY DEF DropWait, TypeOK, WaitInv
  <1>1. PICK i \in DOMAIN waiters : waiters[i] = m /\ waiters' = RemoveAt(waiters, i)
    BY DEF DropWait
  <1>2. /\ waiters' \in Seq(Msgs) /\ ToSet(waiters') = ToSet(waiters) \ {m}
        /\ IsInjective(waiters')
    BY <1>0, <1>1, RemoveFacts
  <1>3. ToSet(waiters)' = ToSet(waiters') /\ IsInjective(waiters)' = IsInjective(waiters')
    BY DEF ToSet, IsInjective
  <1>4. TypeOK'
    BY <1>0, <1>2 DEF TypeOK, AbortStates, turnVars, drainVars
  <1>5. PermitExclusion' /\ ClaimInv'
    BY <1>0 DEF PermitExclusion, ClaimInv, turnVars
  <1>6. QueueInv' /\ HandInv'
    BY <1>0 DEF QueueInv, HandInv, ToSet, IsInjective, drainVars
  <1>7. WaitInv'
    BY <1>0, <1>2, <1>3 DEF WaitInv
  <1> QED BY <1>4, <1>5, <1>6, <1>7

\* A batch leaves the queue and becomes one message in the drainer's hand.
LEMMA TakeBatchInv == ASSUME PermitInv, NEW p \in Procs, TakeBatch(p) PROVE PermitInv'
  <1> USE DEF PermitInv
  <1>1. PICK n \in 1..Len(queue) :
          LET batch == {queue[i] : i \in 1..n}
              lead  == queue[n]
          IN  /\ queue' = SubSeq(queue, n + 1, Len(queue))
              /\ \/ /\ stage' = [m \in Msgs |-> IF m \in batch THEN "abandoned" ELSE stage[m]]
                    /\ UNCHANGED <<cargo, drain, hand>>
                 \/ /\ stage' = [m \in Msgs |-> IF m = lead THEN "inhand"
                                                ELSE IF m \in batch THEN "merged"
                                                ELSE stage[m]]
                    /\ cargo' = [cargo EXCEPT ![lead] = UNION {cargo[m] : m \in batch}]
                    /\ hand' = [hand EXCEPT ![p] = lead]
                    /\ drain' = [drain EXCEPT ![p] = "replay"]
    BY Zenon DEF TakeBatch
  <1> DEFINE batch == {queue[i] : i \in 1..n}
             lead  == queue[n]
  <1>2. /\ queue \in Seq(Msgs) /\ IsInjective(queue) /\ stage \in [Msgs -> Stages]
        /\ slot' = "draining"
        /\ UNCHANGED <<holder, waiters, cancel, abort, replayer, turnVars>>
    BY DEF TypeOK, QueueInv, TakeBatch
  <1>3. batch \subseteq ToSet(queue) /\ lead \in batch /\ batch \subseteq Msgs
    BY <1>1, <1>2 DEF ToSet
  <1>4. \A m \in batch : stage[m] = "queued"
    BY <1>3 DEF QueueInv
  <1>5. /\ queue' \in Seq(Msgs)
        /\ ToSet(queue)' = ToSet(queue) \ batch
        /\ IsInjective(queue)'
    <2>1. /\ SubSeq(queue, n + 1, Len(queue)) \in Seq(Msgs)
          /\ ToSet(SubSeq(queue, n + 1, Len(queue))) = ToSet(queue) \ batch
          /\ IsInjective(SubSeq(queue, n + 1, Len(queue)))
      BY <1>2, DropFacts
    <2>2. queue' = SubSeq(queue, n + 1, Len(queue))
      BY <1>1
    <2> HIDE DEF batch, lead
    <2>3. ToSet(queue)' = ToSet(queue')
      BY DEF ToSet
    <2>4. IsInjective(queue)' = IsInjective(queue')
      BY DEF IsInjective
    <2> QED BY <2>1, <2>2, <2>3, <2>4
  <1>6. \A m \in Msgs : m \notin batch => stage'[m] = stage[m]
    BY <1>1, <1>3
  <1>7. \A m \in batch : stage'[m] \in {"abandoned", "inhand", "merged"}
    BY <1>1, <1>3
  <1>8. \/ UNCHANGED <<cargo, drain, hand>>
        \/ /\ stage'[lead] = "inhand"
           /\ cargo' = [cargo EXCEPT ![lead] = UNION {cargo[m] : m \in batch}]
           /\ hand' = [hand EXCEPT ![p] = lead]
           /\ drain' = [drain EXCEPT ![p] = "replay"]
    BY <1>1, <1>3
  <1>9. stage' \in [Msgs -> Stages]
    <2>1. stage' = [m \in Msgs |-> stage'[m]]
      BY <1>1
    <2>2. \A m \in Msgs : stage'[m] \in Stages
      BY <1>2, <1>6, <1>7 DEF Stages
    <2> QED BY <2>1, <2>2
  <1> HIDE DEF batch, lead
  <1>10. TypeOK'
    <2>1. cargo' \in [Msgs -> SUBSET Msgs]
      <3>1. UNION {cargo[m] : m \in batch} \subseteq Msgs
        BY <1>3 DEF TypeOK
      <3>2. cargo \in [Msgs -> SUBSET Msgs] /\ lead \in Msgs
        BY <1>3 DEF TypeOK
      <3> QED BY <3>1, <3>2, <1>8
    <2>2. /\ hand' \in [Procs -> Msgs \cup {Nobody}]
          /\ drain' \in [Procs -> DrainStates]
      <3>1. /\ hand \in [Procs -> Msgs \cup {Nobody}] /\ lead \in Msgs
            /\ drain \in [Procs -> DrainStates]
        BY <1>3 DEF TypeOK
      <3>2. \/ hand' = hand /\ drain' = drain
            \/ /\ hand' = [hand EXCEPT ![p] = lead]
               /\ drain' = [drain EXCEPT ![p] = "replay"]
        BY <1>8
      <3> QED BY <3>1, <3>2 DEF DrainStates
    <2> QED BY <2>1, <2>2, <1>2, <1>5, <1>9 DEF TypeOK, turnVars
  <1>11. PermitExclusion'
    BY <1>2, <1>3, <1>4, <1>6, <1>7 DEF PermitExclusion, Holding, TaskStages
  <1>12. QueueInv'
    BY <1>3, <1>4, <1>5, <1>6, <1>7 DEF QueueInv
  <1>13. HandInv'
    <2>1. \A m \in Msgs : replayer'[m] # Nobody => stage'[m] = "setup"
      BY <1>2, <1>4, <1>6 DEF HandInv
    <2>2. \A q \in Procs : hand[q] # Nobody => hand[q] \notin batch /\ hand[q] \in Msgs
      BY <1>4 DEF HandInv, TypeOK
    <2>3. CASE UNCHANGED <<cargo, drain, hand>>
      BY <2>1, <2>2, <2>3, <1>6 DEF HandInv
    <2>4. CASE /\ stage'[lead] = "inhand"
               /\ hand' = [hand EXCEPT ![p] = lead]
               /\ drain' = [drain EXCEPT ![p] = "replay"]
      <3>1. \A q \in Procs : hand'[q] = IF q = p THEN lead ELSE hand[q]
        BY <2>4 DEF TypeOK
      <3>2. \A q \in Procs : drain'[q] = IF q = p THEN "replay" ELSE drain[q]
        BY <2>4 DEF TypeOK
      <3> QED BY <3>1, <3>2, <2>1, <2>2, <2>4, <1>3, <1>6, ProcFacts DEF HandInv
    <2> QED BY <2>3, <2>4, <1>8
  <1>14. WaitInv'
    BY <1>2 DEF WaitInv, ToSet, IsInjective
  <1>15. ClaimInv'
    BY <1>2, <1>3, <1>4, <1>6, <1>7 DEF ClaimInv, BeforeRun, turnVars
  <1> QED BY <1>10, <1>11, <1>12, <1>13, <1>14, <1>15

\* Steps of a drain that move no message and no permit.
LEMMA QuietDrainInv ==
    ASSUME PermitInv, NEW p \in Procs, NEW to \in {"off", "finish"},
           drain' = [drain EXCEPT ![p] = to],
           slot' \in {"absent", "idle", "draining"},
           UNCHANGED <<stage, cargo, queue, holder, waiters, cancel, abort, hand,
                       replayer, turnVars>>
    PROVE  PermitInv'
  <1> USE DEF PermitInv
  <1>1. TypeOK'
    BY DEF TypeOK, DrainStates, turnVars
  <1>2. PermitExclusion' /\ ClaimInv'
    BY DEF PermitExclusion, ClaimInv, turnVars
  <1>3. QueueInv' /\ WaitInv'
    BY DEF QueueInv, WaitInv, ToSet, IsInjective
  <1>4. HandInv'
    BY DEF HandInv, TypeOK
  <1> QED BY <1>1, <1>2, <1>3, <1>4


\* A drainer's send call: the message in hand takes the permit or goes back
\* to the queue, so it is in one place at every moment.
LEMMA ReplayInv == ASSUME PermitInv, NEW p \in Procs, Replay(p) PROVE PermitInv'
  <1> USE DEF PermitInv
  <1> DEFINE m     == hand[p]
             place == Admission(m, TRUE)
  <1>0. /\ m \in Msgs /\ stage[m] = "inhand" /\ drain[p] = "replay"
        /\ hand' = [hand EXCEPT ![p] = Nobody]
        /\ slot' \in {"absent", "idle", "draining"}
        /\ UNCHANGED <<cargo, waiters, cancel, abort, turnVars>>
        /\ queue \in Seq(Msgs) /\ stage \in [Msgs -> Stages]
    BY DEF Replay, HandInv, TypeOK, OpenSlot
  <1>1. m \notin ToSet(queue) /\ IsInjective(queue)
    BY <1>0 DEF QueueInv
  <1>2. PICK to \in {"setup", "queued"}, at \in {"sending", "finish"} :
          /\ stage' = [stage EXCEPT ![m] = to]
          /\ drain' = [drain EXCEPT ![p] = at]
          /\ \/ /\ to = "setup" /\ holder = Nobody /\ holder' = Turn(m)
                /\ replayer' = [replayer EXCEPT ![m] = p]
                /\ queue' = queue
             \/ /\ to = "queued" /\ holder' = holder /\ replayer' = replayer
                /\ queue' = <<m>> \o queue \/ queue' = Append(queue, m)
    <2>1. CASE place = "acquired"
      <3>1. holder = Nobody
        BY <2>1 DEF Admission
      <3> QED BY <2>1, <3>1 DEF Replay, Enqueue
    <2>2. CASE place # "acquired"
      <3>1. queue' = <<m>> \o queue \/ queue' = Append(queue, m)
        BY <2>2 DEF Replay, Enqueue, Admission
      <3> QED BY <2>2, <3>1 DEF Replay
    <2> QED BY <2>1, <2>2
  <1> HIDE DEF m, place
  <1>3. /\ queue' \in Seq(Msgs) /\ IsInjective(queue)'
        /\ ToSet(queue)' = IF to = "queued" THEN ToSet(queue) \cup {m}
                              ELSE ToSet(queue)
    <2>1. /\ <<m>> \o queue \in Seq(Msgs) /\ Append(queue, m) \in Seq(Msgs)
          /\ ToSet(<<m>> \o queue) = ToSet(queue) \cup {m}
          /\ ToSet(Append(queue, m)) = ToSet(queue) \cup {m}
          /\ IsInjective(<<m>> \o queue) /\ IsInjective(Append(queue, m))
      BY <1>0, <1>1, PushFrontFacts, AppendFacts
    <2>2. ToSet(queue)' = ToSet(queue')
      BY DEF ToSet
    <2>3. IsInjective(queue)' = IsInjective(queue')
      BY DEF IsInjective
    <2> QED BY <2>1, <2>2, <2>3, <1>0, <1>1, <1>2
  <1>4. TypeOK'
    <2>1. stage' \in [Msgs -> Stages]
      BY <1>0, <1>2 DEF Stages, Holding
    <2>2. /\ hand' \in [Procs -> Msgs \cup {Nobody}]
          /\ drain' \in [Procs -> DrainStates]
      BY <1>0, <1>2 DEF TypeOK, DrainStates
    <2>3. /\ replayer' \in [Msgs -> Procs \cup {Nobody}]
          /\ holder' \in Procs \cup {Nobody}
      <3>1. replayer \in [Msgs -> Procs \cup {Nobody}] /\ holder \in Procs \cup {Nobody}
        BY DEF TypeOK
      <3> QED BY <3>1, <1>0, <1>2, ProcFacts
    <2> QED BY <2>1, <2>2, <2>3, <1>0, <1>3 DEF TypeOK, turnVars
  <1>5. PermitExclusion'
    <2>1. CASE to = "setup"
      BY <2>1, <1>0, <1>2, ProcFacts DEF PermitExclusion, Holding
    <2>2. CASE to = "queued"
      BY <2>2, <1>0, <1>2 DEF PermitExclusion, Holding, TaskStages
    <2> QED BY <2>1, <2>2
  <1>6. QueueInv'
    BY <1>0, <1>1, <1>2, <1>3 DEF QueueInv
  <1>7. HandInv'
    <2>1. \A q \in Procs : hand'[q] = IF q = p THEN Nobody ELSE hand[q]
      BY <1>0 DEF TypeOK
    <2>2. \A q \in Procs : drain'[q] = IF q = p THEN at ELSE drain[q]
      BY <1>2 DEF TypeOK
    <2>3. \A q \in Procs : q # p /\ hand[q] # Nobody => hand[q] # m /\ hand[q] \in Msgs
      BY <1>0 DEF HandInv, TypeOK, m
    <2>4. \A k \in Msgs : replayer'[k] # Nobody => stage'[k] = "setup"
      BY <1>0, <1>2 DEF HandInv, TypeOK
    <2> QED BY <2>1, <2>2, <2>3, <2>4, <1>0, <1>2 DEF HandInv
  <1>8. WaitInv'
    BY <1>0, <1>2, ProcFacts DEF WaitInv, ToSet, IsInjective
  <1>9. ClaimInv'
    BY <1>0, <1>2 DEF ClaimInv, BeforeRun, turnVars
  <1> QED BY <1>4, <1>5, <1>6, <1>7, <1>8, <1>9

\* A replay refused before admission leaves the hand empty.
LEMMA RefuseReplayInv == ASSUME PermitInv, NEW p \in Procs, RefuseReplay(p) PROVE PermitInv'
  <1> USE DEF PermitInv
  <1> DEFINE m == hand[p]
  <1>0. /\ m \in Msgs /\ stage[m] = "inhand" /\ stage \in [Msgs -> Stages]
        /\ stage' = [stage EXCEPT ![m] = "refused"]
        /\ hand' = [hand EXCEPT ![p] = Nobody]
        /\ drain' = [drain EXCEPT ![p] = "take"]
        /\ UNCHANGED <<cargo, queue, slot, holder, waiters, cancel, abort, replayer, turnVars>>
    BY DEF RefuseReplay, HandInv, TypeOK
  <1>1. \A q \in Procs : q # p /\ hand[q] # Nobody => hand[q] # m /\ hand[q] \in Msgs
    BY <1>0 DEF HandInv, TypeOK
  <1> HIDE DEF m
  <1>2. TypeOK'
    BY <1>0 DEF TypeOK, DrainStates, Stages, turnVars
  <1>3. PermitExclusion' /\ ClaimInv'
    BY <1>0 DEF PermitExclusion, ClaimInv, BeforeRun, Holding, TaskStages, turnVars
  <1>4. QueueInv' /\ WaitInv'
    BY <1>0 DEF QueueInv, WaitInv, ToSet, IsInjective
  <1>5. HandInv'
    <2>1. \A q \in Procs : hand'[q] = IF q = p THEN Nobody ELSE hand[q]
      BY <1>0 DEF TypeOK
    <2>2. \A q \in Procs : drain'[q] = IF q = p THEN "take" ELSE drain[q]
      BY <1>0 DEF TypeOK
    <2> QED BY <2>1, <2>2, <1>0, <1>1 DEF HandInv
  <1> QED BY <1>2, <1>3, <1>4, <1>5

\* What the death of a drainer does: a message in its hand is lost, or the turn
\* whose send call dies with it, which gives its permit back.
LEMMA DieFacts ==
    ASSUME PermitInv, NEW p \in Procs, DieDraining(p)
    PROVE  /\ drain' = [drain EXCEPT ![p] = "dead"] /\ Draining(p)
           /\ UNCHANGED <<cargo, queue, slot, cancel, runs, bySession, terminal, draft, sent>>
           /\ \/ /\ drain[p] \in {"take", "finish"}
                 /\ UNCHANGED <<stage, hand, replayer, holder, waiters, abort, history>>
              \/ /\ drain[p] = "replay" /\ hand[p] \in Msgs /\ stage[hand[p]] = "inhand"
                 /\ stage' = [stage EXCEPT ![hand[p]] = "lost"]
                 /\ UNCHANGED <<hand, replayer, holder, waiters, abort, history>>
              \/ /\ drain[p] = "sending"
                 /\ \E m \in Msgs :
                       /\ replayer[m] = p /\ stage[m] = "setup"
                       /\ stage' = [stage EXCEPT ![m] = "lost"]
                       /\ hand' = [hand EXCEPT ![p] = m]
                       /\ replayer' = [replayer EXCEPT ![m] = Nobody]
                       /\ MayHaveStored(m)
                       /\ ReleasePermit(abort)
  <1>1. p # Nobody
    BY ChatTurnsAssumption
  <1>2. \A m \in Msgs : replayer[m] = p => stage[m] = "setup"
    BY <1>1 DEF PermitInv, HandInv
  <1>3. drain[p] = "replay" => hand[p] \in Msgs /\ stage[hand[p]] = "inhand"
    BY DEF PermitInv, HandInv, TypeOK
  <1> QED BY <1>2, <1>3 DEF DieDraining, Draining

\* A drainer that dies gives back the permit of the turn whose send call dies
\* with it, and no other.
LEMMA DieDrainingInv == ASSUME PermitInv, NEW p \in Procs, DieDraining(p) PROVE PermitInv'
  <1>0. /\ TypeOK /\ HandInv /\ ClaimInv
        /\ stage \in [Msgs -> Stages]
        /\ drain' \in [Procs -> DrainStates]
        /\ \A q \in Procs : drain'[q] = IF q = p THEN "dead" ELSE drain[q]
        /\ UNCHANGED <<cargo, queue, slot, cancel, runs, bySession, terminal, draft, sent>>
    <2>1. TypeOK /\ HandInv /\ ClaimInv
      BY DEF PermitInv
    <2>2. stage \in [Msgs -> Stages] /\ drain \in [Procs -> DrainStates]
      BY <2>1 DEF TypeOK
    <2>3. /\ drain' = [drain EXCEPT ![p] = "dead"]
          /\ UNCHANGED <<cargo, queue, slot, cancel, runs, bySession, terminal, draft, sent>>
      BY DieFacts
    <2> QED BY <2>1, <2>2, <2>3 DEF DrainStates
  <1>1. CASE /\ drain[p] # "replay"
             /\ UNCHANGED <<stage, hand, replayer, holder, waiters, abort, history>>
    <2> USE <1>0, <1>1 DEF PermitInv
    <2>1. TypeOK'
      BY DEF TypeOK
    <2>2. PermitExclusion' /\ ClaimInv'
      BY DEF PermitExclusion, ClaimInv
    <2>3. QueueInv' /\ WaitInv'
      BY DEF QueueInv, WaitInv, ToSet, IsInjective
    <2>4. HandInv'
      BY DEF HandInv
    <2> QED BY <2>1, <2>2, <2>3, <2>4
  <1>2. CASE /\ drain[p] = "replay" /\ hand[p] \in Msgs /\ stage[hand[p]] = "inhand"
             /\ stage' = [stage EXCEPT ![hand[p]] = "lost"]
             /\ UNCHANGED <<hand, replayer, holder, waiters, abort, history>>
    <2> USE <1>0, <1>2 DEF PermitInv
    <2>1. TypeOK'
      BY DEF TypeOK, Stages
    <2>2. PermitExclusion' /\ ClaimInv'
      BY DEF PermitExclusion, ClaimInv, BeforeRun, Holding, TaskStages
    <2>3. QueueInv' /\ WaitInv'
      BY DEF QueueInv, WaitInv, ToSet, IsInjective
    <2>4. \A q \in Procs : q # p /\ hand[q] # Nobody => hand[q] # hand[p] /\ hand[q] \in Msgs
      BY DEF HandInv, TypeOK
    <2>5. HandInv'
      BY <2>4 DEF HandInv
    <2> QED BY <2>1, <2>2, <2>3, <2>5
  <1>3. ASSUME NEW m \in Msgs,
               replayer[m] = p, stage[m] = "setup", drain[p] # "replay",
               stage' = [stage EXCEPT ![m] = "lost"],
               hand' = [hand EXCEPT ![p] = m],
               replayer' = [replayer EXCEPT ![m] = Nobody],
               MayHaveStored(m), ReleasePermit(abort)
        PROVE  PermitInv'
    <2>1. "lost" \in Stages \ (Holding \cup BeforeRun) /\ stage[m] \in Holding
      BY <1>3 DEF Stages, Holding, TaskStages, BeforeRun
    <2>2. bySession # m
      BY <1>0, <1>3 DEF ClaimInv, BeforeRun
    <2>3. history' \in Seq({"user", "assistant", "partial"} \X Msgs)
      BY <1>0, <1>3, StoredTypes
    <2>4. /\ hand' \in [Procs -> Msgs \cup {Nobody}]
          /\ \A q \in Procs : hand'[q] = IF q = p THEN m ELSE hand[q]
          /\ replayer' \in [Msgs -> Procs \cup {Nobody}]
          /\ terminal' \subseteq Msgs /\ draft' \in Msgs \cup {Nobody}
      BY <1>0, <1>3 DEF TypeOK
    <2>5. \A q \in Procs : hand[q] # Nobody => hand[q] # m /\ hand[q] \in Msgs
      BY <1>0, <1>3 DEF HandInv, TypeOK
    <2>6. \A k \in Msgs : replayer'[k] # Nobody => stage'[k] = "setup"
      BY <1>0, <1>3 DEF HandInv, TypeOK
    <2>7. HandInv'
      BY <1>0, <1>3, <2>4, <2>5, <2>6 DEF HandInv
    <2> QED BY <1>0, <1>3, <2>1, <2>2, <2>3, <2>4, <2>7, TurnEndsInv
  <1> QED BY <1>1, <1>2, <1>3, DieFacts

\* What the run task appends to the history, or announces, is well typed.
LEMMA TaskTypes ==
    ASSUME TypeOK, NEW m \in Msgs
    PROVE  /\ Append(history, <<"assistant", m>>)
                  \in Seq({"user", "assistant", "partial"} \X Msgs)
           /\ \A e \in {"final", "error"} :
                  [sent EXCEPT ![m] = @ \cup {e}]
                      \in [Msgs -> SUBSET {"final", "error", "aborted"}]
  <1>1. Append(history, <<"assistant", m>>)
            \in Seq({"user", "assistant", "partial"} \X Msgs)
    <2> DEFINE H == {"user", "assistant", "partial"} \X Msgs
               e == <<"assistant", m>>
    <2>1. e \in H /\ history \in Seq(H)
      BY DEF TypeOK
    <2> HIDE DEF H, e
    <2>2. Append(history, e) \in Seq(H)
      BY <2>1
    <2> QED BY <2>2 DEF H, e
  <1>2. \A e \in {"final", "error"} :
            [sent EXCEPT ![m] = @ \cup {e}]
                \in [Msgs -> SUBSET {"final", "error", "aborted"}]
    BY DEF TypeOK
  <1> QED BY <1>1, <1>2

\* The stages from "registered" to "unmapped" keep the permit with the task.
LEMMA RunTaskInv ==
    ASSUME PermitInv, NEW m \in Msgs,
           \/ BeginRun(m) \/ CommitSuccess(m) \/ PersistAssistant(m)
           \/ BroadcastFinal(m) \/ CommitError(m) \/ BroadcastError(m)
           \/ EndSilently(m) \/ Unlist(m) \/ Unmap(m)
    PROVE  PermitInv'
  <1>0. /\ TypeOK /\ runs \subseteq Msgs /\ terminal \subseteq Msgs
        /\ draft \in Msgs \cup {Nobody}
        /\ sent \in [Msgs -> SUBSET {"final", "error", "aborted"}]
        /\ history \in Seq({"user", "assistant", "partial"} \X Msgs)
    BY DEF PermitInv, TypeOK
  <1> USE DEF TaskStages
  <1>1. CASE BeginRun(m)
    <2>1. /\ InTask(m, "registered", "running") /\ draft' = m
          /\ UNCHANGED <<runs, bySession, terminal, sent, history>>
      BY <1>1 DEF BeginRun
    <2> QED BY <2>1, <1>0, TaskStepInv
  <1>2. CASE CommitSuccess(m)
    <2>1. /\ InTask(m, "running", "committed") /\ terminal' = terminal \cup {m}
          /\ UNCHANGED <<runs, bySession, draft, sent, history>>
      BY <1>2 DEF CommitSuccess
    <2> QED BY <2>1, <1>0, TaskStepInv
  <1>3. CASE PersistAssistant(m)
    <2>1. /\ InTask(m, "committed", "persisted")
          /\ history' = Append(history, <<"assistant", m>>)
          /\ UNCHANGED <<runs, bySession, terminal, draft, sent>>
      BY <1>3 DEF PersistAssistant
    <2>2. history' \in Seq({"user", "assistant", "partial"} \X Msgs)
      BY <2>1, <1>0, TaskTypes
    <2> QED BY <2>1, <2>2, <1>0, TaskStepInv
  <1>4. CASE BroadcastFinal(m)
    <2>1. /\ InTask(m, "persisted", "settled")
          /\ sent' = [sent EXCEPT ![m] = @ \cup {"final"}]
          /\ UNCHANGED <<runs, bySession, terminal, draft, history>>
      BY <1>4 DEF BroadcastFinal
    <2>2. sent' \in [Msgs -> SUBSET {"final", "error", "aborted"}]
      BY <2>1, <1>0, TaskTypes
    <2> QED BY <2>1, <2>2, <1>0, TaskStepInv
  <1>5. CASE CommitError(m)
    <2>1. /\ InTask(m, "running", "erroring") /\ terminal' = terminal \cup {m}
          /\ UNCHANGED <<runs, bySession, draft, sent, history>>
      BY <1>5 DEF CommitError
    <2> QED BY <2>1, <1>0, TaskStepInv
  <1>6. CASE BroadcastError(m)
    <2>1. /\ InTask(m, "erroring", "settled")
          /\ sent' = [sent EXCEPT ![m] = @ \cup {"error"}]
          /\ UNCHANGED <<runs, bySession, terminal, draft, history>>
      BY <1>6 DEF BroadcastError
    <2>2. sent' \in [Msgs -> SUBSET {"final", "error", "aborted"}]
      BY <2>1, <1>0, TaskTypes
    <2> QED BY <2>1, <2>2, <1>0, TaskStepInv
  <1>7. CASE EndSilently(m)
    <2>1. /\ InTask(m, "running", "settled")
          /\ UNCHANGED <<runs, bySession, terminal, draft, sent, history>>
      BY <1>7 DEF EndSilently, turnVars
    <2> QED BY <2>1, <1>0, TaskStepInv
  <1>8. CASE Unlist(m)
    <2>1. /\ InTask(m, "settled", "unlisted") /\ runs' = runs \ {m}
          /\ UNCHANGED <<bySession, terminal, draft, sent, history>>
      BY <1>8 DEF Unlist
    <2> QED BY <2>1, <1>0, TaskStepInv
  <1>9. CASE Unmap(m)
    <2>1. /\ InTask(m, "unlisted", "unmapped") /\ bySession' \in {bySession, Nobody}
          /\ UNCHANGED <<runs, terminal, draft, sent, history>>
      BY <1>9 DEF Unmap
    <2> QED BY <2>1, <1>0, TaskStepInv
  <1> QED BY <1>1, <1>2, <1>3, <1>4, <1>5, <1>6, <1>7, <1>8, <1>9

\* Every step preserves the invariant.
LEMMA NextPermitInv == PermitInv /\ [Next]_vars => PermitInv'
  <1> SUFFICES ASSUME PermitInv, [Next]_vars PROVE PermitInv'
    OBVIOUS
  <1>1. ASSUME NEW m \in Msgs, Arrive(m) PROVE PermitInv'
    BY <1>1, ArriveInv
  <1>2. ASSUME NEW m \in Msgs, ArriveSync(m) PROVE PermitInv'
    BY <1>2, ArriveSyncInv
  <1>3. ASSUME NEW m \in Msgs, ClaimAbort(m) PROVE PermitInv'
    BY <1>3, ClaimAbortInv
  <1>4. ASSUME NEW m \in Msgs, Panic(m) \/ Kill(m) PROVE PermitInv'
    <2>1. \E how \in Finished : TaskDies(m, how)
      BY <1>4 DEF Panic, Kill, Finished
    <2> QED BY <2>1, TaskDiesInv
  <1>5. ASSUME NEW p \in Procs, DieDraining(p) PROVE PermitInv'
    BY <1>5, DieDrainingInv
  <1>11. ASSUME NEW m \in Msgs, CleanupAbort(m) \/ DropCleanup(m) PROVE PermitInv'
    BY <1>11, CleanupEndings, CleanupEndsInv
  <1>6. ASSUME NEW m \in Msgs, TurnStep(m) PROVE PermitInv'
    BY <1>4, <1>6, <1>11, StartRunInv, FailSetupInv, RunTaskInv, ReleaseRunInv DEF TurnStep
  <1>7. ASSUME NEW p \in Procs, TakeNothing(p) \/ FinishDraining(p) PROVE PermitInv'
    <2>1. PICK to \in {"off", "finish"} : drain' = [drain EXCEPT ![p] = to]
      BY <1>7 DEF TakeNothing, FinishDraining
    <2>2. slot' \in {"absent", "idle", "draining"}
      BY <1>7 DEF TakeNothing, FinishDraining, PermitInv, TypeOK
    <2>3. UNCHANGED <<stage, cargo, queue, holder, waiters, cancel, abort, hand,
                      replayer, turnVars>>
      BY <1>7 DEF TakeNothing, FinishDraining
    <2> QED BY <2>1, <2>2, <2>3, QuietDrainInv
  <1>8. ASSUME NEW p \in Procs, DrainStep(p) PROVE PermitInv'
    BY <1>7, <1>8, TakeBatchInv, ReplayInv, RefuseReplayInv DEF DrainStep
  <1>9. CASE CancelQueued
    BY <1>9, CancelQueuedInv
  <1>10. CASE UNCHANGED vars
    <2> USE <1>10 DEF vars, PermitInv
    <2>1. TypeOK'
      BY DEF TypeOK
    <2>2. PermitExclusion'
      BY DEF PermitExclusion
    <2>3. QueueInv' /\ WaitInv'
      BY DEF QueueInv, WaitInv, ToSet, IsInjective
    <2>4. HandInv' /\ ClaimInv'
      BY DEF HandInv, ClaimInv
    <2> QED BY <2>1, <2>2, <2>3, <2>4
  <1>12. ASSUME NEW m \in Msgs, DropSend(m) \/ DropWait(m) PROVE PermitInv'
    BY <1>12, DropSendInv, DropWaitInv
  <1> QED BY <1>1, <1>2, <1>3, <1>4, <1>5, <1>6, <1>8, <1>9, <1>10, <1>11, <1>12, ProcFacts
          DEF Next, Idle, KillDrain, DropDrain

\* The inductive invariant holds in every reachable state.
LEMMA AlwaysPermitInv == Spec => []PermitInv
  BY InitPermitInv, NextPermitInv, PTL DEF Spec

\* Every component of the session's state stays within its type, whatever
\* the number of messages.
THEOREM TypesHold == Spec => []TypeOK
  <1>1. PermitInv => TypeOK
    BY DEF PermitInv
  <1> QED BY <1>1, AlwaysPermitInv, PTL

\* The permit of a session is held by exactly the turn that is between
\* admission and release, or by exactly the abort that is cleaning up: at most
\* one turn works on a session, and no end of a turn forgets or doubles the
\* release.
THEOREM PermitSafe == Spec => []PermitExclusion
  <1>1. PermitInv => PermitExclusion
    BY DEF PermitInv
  <1> QED BY <1>1, AlwaysPermitInv, PTL

-----------------------------------------------------------------------------
(* Abort against completion.                                               *)

Active    == {"registered", "running", "committed", "persisted", "erroring"}
Announced(m) == sent[m] \cap {"final", "error"} # {}

\* Why a run that announced its end is never claimed: until it is told to
\* abort, an active run is listed and unclaimed; it commits before it
\* announces; and it leaves active_runs_by_session before its terminal mark
\* goes.
AnnounceInv ==
    /\ \A m \in Msgs : stage[m] \in Active /\ m \notin cancel
                       => m \in runs /\ abort[m] = "none"
    /\ \A m \in Msgs : stage[m] \in {"committed", "persisted", "erroring"}
                       => m \in terminal
    /\ \A m \in Msgs : stage[m] = "unmapped" => bySession # m
    /\ \A m \in Msgs : Announced(m) /\ m \notin cancel
                       => /\ abort[m] = "none"
                          /\ m \in terminal \/ bySession # m
                          /\ stage[m] \in {"settled", "unlisted", "unmapped"} \cup Finished

\* Releasing the permit never starts an abort.
LEMMA AbortKept ==
    ASSUME PermitInv, NEW m \in Msgs, stage[m] \in Holding, ReleasePermit(abort)
    PROVE  \A k \in Msgs : abort'[k] = "none" <=> abort[k] = "none"
  <1>1. TypeOK /\ WaitInv
    BY DEF PermitInv
  <1> QED BY <1>1, NoCleanup, ReleaseFacts

\* Nor does an abort that ends.
LEMMA CleanupKept ==
    ASSUME PermitInv, NEW m \in Msgs, NEW to \in {"done", "cut"}, CleanupEnds(m, to)
    PROVE  \A k \in Msgs : abort'[k] = "none" <=> abort[k] = "none"
  <1> DEFINE calls == [abort EXCEPT ![m] = to]
  <1>1. /\ TypeOK /\ WaitInv /\ abort[m] = "cleanup" /\ holder = Abort(m)
        /\ abort \in [Msgs -> AbortStates]
        /\ ReleasePermit(calls)
    BY DEF CleanupEnds, PermitInv, PermitExclusion, TypeOK, AbortStates
  <1>2. /\ calls \in [Msgs -> AbortStates]
        /\ \A k \in Msgs : calls[k] = "waiting" <=> k \in ToSet(waiters)
        /\ \A k \in Msgs : calls[k] # "cleanup"
        /\ \A k \in Msgs : calls[k] = "none" <=> abort[k] = "none"
    BY <1>1, ProcFacts DEF PermitInv, AbortStates, WaitInv, PermitExclusion
  <1> HIDE DEF calls
  <1> QED BY <1>1, <1>2, ReleaseFacts

\* What the steps outside the run task and its abort have in common: they leave
\* registrations, marks and events alone, start no abort, and move no message
\* into or back into an active stage.
Outside ==
    /\ UNCHANGED <<runs, bySession, terminal, cancel, sent>>
    /\ \A k \in Msgs : abort'[k] = "none" <=> abort[k] = "none"
    /\ \A k \in Msgs : stage'[k] # stage[k]
           => /\ stage'[k] \notin Active \cup {"unmapped"}
              /\ stage[k] \in {"settled", "unlisted", "unmapped"} \cup Finished
                 => stage'[k] \in Finished

\* Arrivals, cancellation of the queue, failed and dropped set-ups, dropped
\* waits, kills, panics and drains are such steps.
LEMMA OutsideSteps ==
    ASSUME PermitInv,
           \/ CancelQueued
           \/ \E m \in Msgs : \/ Arrive(m) \/ ArriveSync(m) \/ FailSetup(m)
                             \/ Panic(m) \/ Kill(m) \/ DropSend(m) \/ DropWait(m)
           \/ \E p \in Procs : DrainStep(p) \/ DieDraining(p)
    PROVE  Outside
  <1>0. /\ stage \in [Msgs -> Stages] /\ abort \in [Msgs -> AbortStates]
        /\ sent \in [Msgs -> SUBSET {"final", "error", "aborted"}]
    BY DEF PermitInv, TypeOK, AbortStates
  <1> USE <1>0
  <1>1. ASSUME NEW m \in Msgs, Arrive(m) \/ ArriveSync(m) PROVE Outside
    <2>1. \A k \in Msgs : stage'[k] # stage[k]
              => stage[k] = "new" /\ stage'[k] \in {"setup", "queued", "busy"}
      BY <1>1 DEF Arrive, ArriveSync
    <2>2. UNCHANGED <<runs, bySession, terminal, cancel, sent, abort>>
      BY <1>1 DEF Arrive, ArriveSync, turnVars
    <2> QED BY <2>1, <2>2, <1>0 DEF Outside, Active, Finished
  <1>2. CASE CancelQueued
    <2>1. \A k \in Msgs : stage'[k] # stage[k]
              => stage[k] = "queued" /\ stage'[k] = "cancelled"
      BY <1>2 DEF CancelQueued, PermitInv, QueueInv
    <2>2. UNCHANGED <<runs, bySession, terminal, cancel, sent, abort>>
      BY <1>2 DEF CancelQueued, turnVars
    <2> QED BY <2>1, <2>2, <1>0 DEF Outside, Active, Finished
  <1>3. ASSUME NEW m \in Msgs, FailSetup(m) PROVE Outside
    <2>1. /\ stage[m] = "setup" /\ stage' = [stage EXCEPT ![m] = "unstarted"]
          /\ UNCHANGED <<runs, bySession, terminal, cancel, sent>>
          /\ ReleasePermit(abort)
      BY <1>3 DEF FailSetup, FinishUnstarted, turnVars
    <2>2. \A k \in Msgs : abort'[k] = "none" <=> abort[k] = "none"
      BY <2>1, AbortKept DEF Holding
    <2> QED BY <2>1, <2>2, <1>0 DEF Outside, Active, Finished
  <1>4. ASSUME NEW m \in Msgs, Panic(m) \/ Kill(m) PROVE Outside
    <2>1. PICK how \in Finished : TaskDies(m, how)
      BY <1>4 DEF Panic, Kill, Finished
    <2>2. /\ stage[m] \in Holding /\ stage' = [stage EXCEPT ![m] = how]
          /\ UNCHANGED <<runs, bySession, terminal, cancel, sent>>
          /\ ReleasePermit(abort)
      BY <2>1 DEF TaskDies, Holding, turnVars
    <2>3. \A k \in Msgs : abort'[k] = "none" <=> abort[k] = "none"
      BY <2>2, AbortKept
    <2> QED BY <2>2, <2>3, <1>0 DEF Outside, Active, Finished
  <1>5. ASSUME NEW p \in Procs, DieDraining(p) PROVE Outside
    <2>1. /\ UNCHANGED <<runs, bySession, terminal, cancel, sent>>
          /\ \/ UNCHANGED <<stage, abort>>
             \/ \E m \in Msgs : /\ stage[m] \in {"inhand", "setup"}
                                /\ stage' = [stage EXCEPT ![m] = "lost"]
                                /\ \/ UNCHANGED abort
                                   \/ stage[m] = "setup" /\ ReleasePermit(abort)
      BY <1>5, DieFacts
    <2>2. \A k \in Msgs : stage'[k] # stage[k]
              => stage[k] \in {"setup", "inhand"} /\ stage'[k] = "lost"
      BY <2>1
    <2>3. \A k \in Msgs : abort'[k] = "none" <=> abort[k] = "none"
      BY <2>1, AbortKept DEF Holding
    <2> QED BY <2>1, <2>2, <2>3, <1>0 DEF Outside, Active, Finished
  <1>7. ASSUME NEW m \in Msgs, DropSend(m) PROVE Outside
    <2>1. /\ stage[m] = "setup" /\ stage' = [stage EXCEPT ![m] = "dropped"]
          /\ UNCHANGED <<runs, bySession, terminal, cancel, sent>>
          /\ ReleasePermit(abort)
      BY <1>7 DEF DropSend
    <2>2. \A k \in Msgs : abort'[k] = "none" <=> abort[k] = "none"
      BY <2>1, AbortKept DEF Holding
    <2> QED BY <2>1, <2>2, <1>0 DEF Outside, Active, Finished
  <1>8. ASSUME NEW m \in Msgs, DropWait(m) PROVE Outside
    BY <1>8, <1>0 DEF DropWait, Outside, turnVars
  <1>6. ASSUME NEW p \in Procs, DrainStep(p) PROVE Outside
    <2>1. UNCHANGED <<runs, bySession, terminal, cancel, sent, abort>>
      BY <1>6 DEF DrainStep, TakeBatch, TakeNothing, Replay, RefuseReplay,
                   FinishDraining, turnVars
    <2>2. \A k \in Msgs : stage'[k] # stage[k]
              => /\ stage[k] \in {"queued", "inhand"}
                 /\ stage'[k] \in {"abandoned", "inhand", "merged", "setup", "queued", "refused"}
      <3>1. CASE TakeBatch(p)
        <4>1. PICK n \in 1..Len(queue) :
                LET batch == {queue[i] : i \in 1..n}
                    lead  == queue[n]
                IN  \/ stage' = [m \in Msgs |-> IF m \in batch THEN "abandoned" ELSE stage[m]]
                    \/ stage' = [m \in Msgs |-> IF m = lead THEN "inhand"
                                                ELSE IF m \in batch THEN "merged"
                                                ELSE stage[m]]
          BY <3>1, Zenon DEF TakeBatch
        <4>2. \A i \in 1..n : stage[queue[i]] = "queued"
          BY DEF PermitInv, QueueInv, TypeOK, ToSet
        <4>3. queue[n] \in {queue[i] : i \in 1..n}
          BY DEF PermitInv, TypeOK
        <4> QED BY <4>1, <4>2, <4>3
      <3>2. CASE Replay(p) \/ RefuseReplay(p)
        BY <3>2 DEF Replay, RefuseReplay, PermitInv, HandInv
      <3>3. CASE TakeNothing(p) \/ FinishDraining(p)
        BY <3>3 DEF TakeNothing, FinishDraining
      <3> QED BY <3>1, <3>2, <3>3, <1>6 DEF DrainStep
    <2> QED BY <2>1, <2>2, <1>0 DEF Outside, Active, Finished
  <1> QED BY <1>1, <1>2, <1>3, <1>4, <1>5, <1>6, <1>7, <1>8

\* Every step preserves the invariant.
LEMMA NextAnnounceInv == PermitInv /\ AnnounceInv /\ [Next]_vars => AnnounceInv'
  <1> SUFFICES ASSUME PermitInv, AnnounceInv, [Next]_vars PROVE AnnounceInv'
    OBVIOUS
  <1>0. /\ stage \in [Msgs -> Stages] /\ abort \in [Msgs -> AbortStates]
        /\ sent \in [Msgs -> SUBSET {"final", "error", "aborted"}]
    BY DEF PermitInv, TypeOK, AbortStates
  <1> USE <1>0
  <1>1. Outside => AnnounceInv'
    BY DEF Outside, AnnounceInv, Announced, Active
  <1>2. \/ CancelQueued
        \/ \E m \in Msgs : \/ Arrive(m) \/ ArriveSync(m) \/ FailSetup(m)
                          \/ Panic(m) \/ Kill(m) \/ DropSend(m) \/ DropWait(m)
        \/ \E p \in Procs : DrainStep(p) \/ DieDraining(p)
        => AnnounceInv'
    BY <1>1, OutsideSteps
  <1>3. ASSUME NEW m \in Msgs, StartRun(m) PROVE AnnounceInv'
    <2>1. /\ stage[m] = "setup" /\ stage' = [stage EXCEPT ![m] = "registered"]
          /\ runs' = runs \cup {m} /\ bySession' = m
          /\ UNCHANGED <<terminal, cancel, abort, sent>>
      BY <1>3 DEF StartRun, RegisterRun
    <2>2. abort[m] = "none"
      BY <2>1 DEF PermitInv, ClaimInv, BeforeRun
    <2>3. \A k \in Msgs : k # m => stage'[k] = stage[k]
      BY <2>1
    <2>4. \A k \in Msgs : k # m => stage[k] # "unmapped"
      BY <2>1, NoCleanup DEF Holding, TaskStages
    <2>5. ~(Announced(m) /\ m \notin cancel)
      BY <2>1 DEF AnnounceInv, Finished
    <2> QED BY <2>1, <2>2, <2>3, <2>4, <2>5 DEF AnnounceInv, Announced, Active
  <1>4. ASSUME NEW m \in Msgs, BeginRun(m) \/ PersistAssistant(m)
        PROVE  AnnounceInv'
    BY <1>4 DEF BeginRun, PersistAssistant, InTask, TaskStep, AnnounceInv, Announced,
                Active, Finished
  <1>5. ASSUME NEW m \in Msgs, CommitSuccess(m) \/ CommitError(m)
        PROVE  AnnounceInv'
    BY <1>5 DEF CommitSuccess, CommitError, InTask, TaskStep, AnnounceInv, Announced,
                Active, Finished
  <1>6. ASSUME NEW m \in Msgs, BroadcastFinal(m) \/ BroadcastError(m)
        PROVE  AnnounceInv'
    <2>1. /\ stage[m] \in {"persisted", "erroring"}
          /\ stage' = [stage EXCEPT ![m] = "settled"]
          /\ UNCHANGED <<runs, bySession, terminal, cancel, abort>>
          /\ \A k \in Msgs : k # m => sent'[k] = sent[k]
      BY <1>6 DEF BroadcastFinal, BroadcastError, InTask, TaskStep
    <2>2. m \in terminal /\ (m \notin cancel => abort[m] = "none")
      BY <2>1 DEF AnnounceInv, Active
    <2> QED BY <2>1, <2>2 DEF AnnounceInv, Announced, Active
  <1>7. ASSUME NEW m \in Msgs, EndSilently(m) PROVE AnnounceInv'
    BY <1>7 DEF EndSilently, InTask, TaskStep, turnVars, AnnounceInv, Announced,
                 Active, Finished
  <1>8. ASSUME NEW m \in Msgs, Unlist(m) PROVE AnnounceInv'
    BY <1>8 DEF Unlist, InTask, TaskStep, AnnounceInv, Announced, Active
  <1>9. ASSUME NEW m \in Msgs, Unmap(m) PROVE AnnounceInv'
    <2>1. /\ stage[m] = "unlisted" /\ stage' = [stage EXCEPT ![m] = "unmapped"]
          /\ bySession' = IF bySession = m THEN Nobody ELSE bySession
          /\ UNCHANGED <<runs, terminal, cancel, abort, sent>>
      BY <1>9 DEF Unmap, InTask, TaskStep
    <2>2. bySession' # m /\ \A k \in Msgs : bySession # k => bySession' # k
      BY <2>1, ProcFacts
    <2> QED BY <2>1, <2>2 DEF AnnounceInv, Announced, Active
  <1>10. ASSUME NEW m \in Msgs, ReleaseRun(m) PROVE AnnounceInv'
    <2>1. /\ stage[m] = "unmapped" /\ stage' = [stage EXCEPT ![m] = "done"]
          /\ terminal' = terminal \ {m}
          /\ UNCHANGED <<runs, bySession, cancel, sent>>
          /\ ReleasePermit(abort)
      BY <1>10 DEF ReleaseRun, TaskStep
    <2>2. \A k \in Msgs : abort'[k] = "none" <=> abort[k] = "none"
      BY <2>1, AbortKept DEF Holding, TaskStages
    <2>3. bySession # m
      BY <2>1 DEF AnnounceInv
    <2> QED BY <2>1, <2>2, <2>3 DEF AnnounceInv, Announced, Active, Finished
  <1>11. ASSUME NEW m \in Msgs, ClaimAbort(m) PROVE AnnounceInv'
    <2>1. /\ bySession = m /\ m \notin terminal /\ bySession' = Nobody
          /\ cancel' = IF m \in runs /\ stage[m] \notin Finished
                       THEN cancel \cup {m} ELSE cancel
          /\ runs' = runs \ {m}
          /\ UNCHANGED <<stage, terminal, sent>>
      BY <1>11 DEF ClaimAbort
    <2>2. \A k \in Msgs : k # m => abort'[k] = abort[k]
      BY <1>11 DEF ClaimAbort
    <2>3. stage[m] \in Active => m \in cancel'
      BY <2>1 DEF AnnounceInv, Active, Finished
    <2>4. ~(Announced(m) /\ m \notin cancel)
      BY <2>1 DEF AnnounceInv
    <2> QED BY <2>1, <2>2, <2>3, <2>4, ProcFacts DEF AnnounceInv, Announced
  <1>12. ASSUME NEW m \in Msgs, CleanupAbort(m) \/ DropCleanup(m) PROVE AnnounceInv'
    <2>0. PICK to \in {"done", "cut"} : CleanupEnds(m, to)
      BY <1>12, CleanupEndings
    <2>1. /\ abort[m] = "cleanup" /\ holder = Abort(m)
          /\ terminal' \in {terminal, terminal \ {m}}
          /\ UNCHANGED <<stage, runs, bySession, cancel>>
      BY <2>0 DEF CleanupEnds, PermitInv, PermitExclusion
    <2>2. \A k \in Msgs : Announced(k)' <=> Announced(k)
      BY <2>0 DEF CleanupEnds, Announced
    <2>3. \A k \in Msgs : abort'[k] = "none" <=> abort[k] = "none"
      BY <2>0, CleanupKept
    <2>4. stage[m] \notin {"committed", "persisted", "erroring"}
      BY <2>1, ProcFacts DEF PermitInv, PermitExclusion, Holding, TaskStages
    <2> QED BY <2>1, <2>2, <2>3, <2>4 DEF AnnounceInv
  <1>13. CASE UNCHANGED vars
    BY <1>13 DEF vars, AnnounceInv, Announced
  <1>14. ASSUME NEW m \in Msgs, TurnStep(m) PROVE AnnounceInv'
    BY <1>14, <1>2, <1>3, <1>4, <1>5, <1>6, <1>7, <1>8, <1>9, <1>10, <1>12
       DEF TurnStep
  <1> QED BY <1>2, <1>11, <1>12, <1>13, <1>14, ProcFacts DEF Next, Idle, KillDrain, DropDrain

\* A run that announced its result without having been told to abort is never
\* claimed by an abort, at any later time: the order in which the run task
\* undoes its registrations closes every window between the two.
THEOREM AnnouncedStaysUnclaimed == Spec => []AnnouncedIsUnclaimed
  <1>1. Init => AnnounceInv
    BY ProcFacts DEF Init, AnnounceInv, Announced, Active
  <1>2. AnnounceInv => AnnouncedIsUnclaimed
    BY DEF AnnounceInv, AnnouncedIsUnclaimed, Announced
  <1> QED BY <1>1, <1>2, InitPermitInv, NextPermitInv, NextAnnounceInv, PTL DEF Spec

-----------------------------------------------------------------------------
(* Claimed runs, when cancellation takes effect at once.                   *)

\* A claimed run has announced nothing, has not committed, and, if its task could
\* still do so, has been told to abort.
WinInv ==
    \A m \in Msgs :
        /\ abort[m] # "none"
           => /\ sent[m] \subseteq {"aborted"}
              /\ stage[m] \notin {"committed", "persisted", "erroring"}
              /\ stage[m] \in {"registered", "running"} => m \in cancel
        /\ "aborted" \in sent[m] => abort[m] # "none"
        /\ m \in cancel => abort[m] # "none"

\* Every step preserves it as long as a task that has been told to abort takes
\* no further step.
LEMMA NextWinInv ==
    ASSUME ~LateCancel
    PROVE  PermitInv /\ AnnounceInv /\ WinInv /\ [Next]_vars => WinInv'
  <1> SUFFICES ASSUME PermitInv, AnnounceInv, WinInv, [Next]_vars PROVE WinInv'
    OBVIOUS
  <1>0. /\ stage \in [Msgs -> Stages] /\ abort \in [Msgs -> AbortStates]
        /\ sent \in [Msgs -> SUBSET {"final", "error", "aborted"}]
    BY DEF PermitInv, TypeOK, AbortStates
  <1> USE <1>0
  <1>1. Outside => WinInv'
    BY DEF Outside, WinInv, Active
  <1>2. \/ CancelQueued
        \/ \E m \in Msgs : \/ Arrive(m) \/ ArriveSync(m) \/ FailSetup(m)
                          \/ Panic(m) \/ Kill(m) \/ DropSend(m) \/ DropWait(m)
        \/ \E p \in Procs : DrainStep(p) \/ DieDraining(p)
        => WinInv'
    BY <1>1, OutsideSteps
  <1>3. ASSUME NEW m \in Msgs, StartRun(m) PROVE WinInv'
    <2>1. /\ stage[m] = "setup" /\ stage' = [stage EXCEPT ![m] = "registered"]
          /\ UNCHANGED <<cancel, abort, sent>>
      BY <1>3 DEF StartRun, RegisterRun
    <2>2. abort[m] = "none"
      BY <2>1 DEF PermitInv, ClaimInv, BeforeRun
    <2> QED BY <2>1, <2>2 DEF WinInv
  <1>4. ASSUME NEW m \in Msgs,
               BeginRun(m) \/ CommitSuccess(m) \/ CommitError(m) \/ PersistAssistant(m)
        PROVE  WinInv'
    <2>1. /\ stage[m] \in {"registered", "running", "committed"} /\ m \notin cancel
          /\ UNCHANGED <<cancel, abort, sent>>
          /\ \A k \in Msgs : k # m => stage'[k] = stage[k]
      BY <1>4 DEF BeginRun, CommitSuccess, CommitError, PersistAssistant, InTask, TaskStep,
                  CanStep
    <2>2. abort[m] = "none"
      BY <2>1 DEF WinInv
    <2> QED BY <2>1, <2>2 DEF WinInv
  <1>5. ASSUME NEW m \in Msgs, BroadcastFinal(m) \/ BroadcastError(m)
        PROVE  WinInv'
    <2>1. /\ stage[m] \in {"persisted", "erroring"}
          /\ stage' = [stage EXCEPT ![m] = "settled"]
          /\ UNCHANGED <<cancel, abort>>
          /\ "aborted" \in sent'[m] => "aborted" \in sent[m]
          /\ \A k \in Msgs : k # m => sent'[k] = sent[k]
      BY <1>5 DEF BroadcastFinal, BroadcastError, InTask, TaskStep
    <2>2. abort[m] = "none"
      BY <2>1 DEF WinInv
    <2> QED BY <2>1, <2>2 DEF WinInv
  <1>6. ASSUME NEW m \in Msgs, EndSilently(m) \/ Unlist(m) \/ Unmap(m) PROVE WinInv'
    BY <1>6 DEF EndSilently, Unlist, Unmap, InTask, TaskStep, turnVars, WinInv
  <1>7. ASSUME NEW m \in Msgs, ReleaseRun(m) PROVE WinInv'
    <2>1. /\ stage[m] = "unmapped" /\ stage' = [stage EXCEPT ![m] = "done"]
          /\ UNCHANGED <<cancel, sent>>
          /\ ReleasePermit(abort)
      BY <1>7 DEF ReleaseRun, TaskStep
    <2>2. \A k \in Msgs : abort'[k] = "none" <=> abort[k] = "none"
      BY <2>1, AbortKept DEF Holding, TaskStages
    <2> QED BY <2>1, <2>2 DEF WinInv
  <1>8. ASSUME NEW m \in Msgs, ClaimAbort(m) PROVE WinInv'
    <2>1. /\ bySession = m /\ m \notin terminal
          /\ cancel' = IF m \in runs /\ stage[m] \notin Finished
                       THEN cancel \cup {m} ELSE cancel
          /\ UNCHANGED <<stage, sent>>
      BY <1>8 DEF ClaimAbort
    <2>2. abort'[m] # "none" /\ \A k \in Msgs : k # m => abort'[k] = abort[k]
      BY <1>8 DEF ClaimAbort
    <2>3. abort[m] = "none" /\ m \notin cancel
      BY <2>1 DEF PermitInv, ClaimInv, WinInv
    <2>4. stage[m] \notin {"committed", "persisted", "erroring"}
      BY <2>1 DEF AnnounceInv
    <2>5. stage[m] \in {"registered", "running"} => m \in cancel'
      BY <2>1, <2>3 DEF AnnounceInv, Active, Finished
    <2>6. sent[m] = {}
      BY <2>1, <2>3 DEF AnnounceInv, Announced, WinInv
    <2> QED BY <2>1, <2>2, <2>4, <2>5, <2>6 DEF WinInv
  <1>9. ASSUME NEW m \in Msgs, CleanupAbort(m) \/ DropCleanup(m) PROVE WinInv'
    <2>0. PICK to \in {"done", "cut"} : CleanupEnds(m, to)
      BY <1>9, CleanupEndings
    <2>1. /\ abort[m] = "cleanup"
          /\ sent' \in {sent, [sent EXCEPT ![m] = @ \cup {"aborted"}]}
          /\ UNCHANGED <<stage, cancel>>
      BY <2>0 DEF CleanupEnds
    <2>2. \A k \in Msgs : abort'[k] = "none" <=> abort[k] = "none"
      BY <2>0, CleanupKept
    <2> QED BY <2>1, <2>2 DEF WinInv
  <1>10. CASE UNCHANGED vars
    BY <1>10 DEF vars, WinInv
  <1>11. ASSUME NEW m \in Msgs, TurnStep(m) PROVE WinInv'
    BY <1>11, <1>2, <1>3, <1>4, <1>5, <1>6, <1>7, <1>9 DEF TurnStep
  <1> QED BY <1>2, <1>8, <1>9, <1>10, <1>11, ProcFacts DEF Next, Idle, KillDrain, DropDrain

=============================================================================
