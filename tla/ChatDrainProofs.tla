-------------------------- MODULE ChatDrainProofs --------------------------
(***************************************************************************)
(* TLAPS proofs about what becomes of the messages of ChatTurns: that the  *)
(* session works serially, loses and doubles no message, mixes no security *)
(* contexts, hands its queue over, and stores its turns one after another. *)
(***************************************************************************)
EXTENDS ChatTurnsProofs

-----------------------------------------------------------------------------
(* The drainers.                                                           *)

\* A drainer has a message in hand while it is about to replay it, and for ever
\* when it died with it; every message in hand or lost is in some hand.
HandsInv ==
    /\ \A p \in Procs : hand[p] # Nobody
           => /\ drain[p] \in {"replay", "dead"}
              /\ stage[hand[p]] = "lost" <=> drain[p] = "dead"
    /\ \A m \in Msgs : stage[m] \in {"inhand", "lost"} => \E p \in Procs : hand[p] = m

\* A drainer is inside its send call exactly while that turn is being set up; no
\* turn drains before it has ended, no abort before it is done.
DrainInv ==
    /\ HandsInv
    /\ \A m \in Msgs : replayer[m] # Nobody => drain[replayer[m]] = "sending"
    /\ \A m \in Msgs : stage[m] \in BeforeRun \cup TaskStages => drain[Turn(m)] = "off"
    /\ \A m \in Msgs : abort[m] # "done" => drain[Abort(m)] = "off"

\* Steps that move neither hands nor what is in them.
LEMMA HandsKept ==
    ASSUME PermitInv, HandsInv, UNCHANGED hand,
           \A k \in Msgs : stage'[k] # stage[k]
               => stage[k] \notin {"inhand", "lost"} /\ stage'[k] \notin {"inhand", "lost"},
           \A p \in Procs : drain'[p] # drain[p] => drain[p] \notin {"replay", "dead"}
    PROVE  HandsInv'
  <1>1. \A p \in Procs : hand[p] # Nobody
           => hand[p] \in Msgs /\ stage[hand[p]] \in {"inhand", "lost"}
    BY DEF PermitInv, HandInv, TypeOK
  <1>2. \A p \in Procs : hand'[p] = hand[p]
    OBVIOUS
  <1>3. \A p \in Procs : hand[p] # Nobody
           => drain'[p] = drain[p] /\ stage'[hand[p]] = stage[hand[p]]
    BY <1>1 DEF HandsInv
  <1>4. \A m \in Msgs : stage'[m] \in {"inhand", "lost"} => stage'[m] = stage[m]
    OBVIOUS
  <1> QED BY <1>2, <1>3, <1>4 DEF HandsInv

\* Releasing the permit finishes no abort, and a waiting abort that it serves
\* starts its cleanup.
LEMMA ReleaseMoves ==
    ASSUME TypeOK, WaitInv,
           NEW calls \in [Msgs -> AbortStates],
           \A m \in Msgs : calls[m] = "waiting" <=> m \in ToSet(waiters),
           ReleasePermit(calls)
    PROVE  \/ abort' = calls /\ holder' = Nobody /\ waiters = <<>>
           \/ \E h \in Msgs : /\ calls[h] = "waiting" /\ holder' = Abort(h)
                              /\ abort' = [calls EXCEPT ![h] = "cleanup"]
  <1>1. waiters \in Seq(Msgs) /\ IsInjective(waiters)
    BY DEF TypeOK, WaitInv
  <1>2. CASE waiters = <<>>
    BY <1>2 DEF ReleasePermit
  <1>3. CASE waiters # <<>>
    <2>1. Head(waiters) \in Msgs /\ Head(waiters) \in ToSet(waiters)
      BY <1>1, <1>3, TailFacts
    <2> QED BY <1>3, <2>1 DEF ReleasePermit
  <1> QED BY <1>2, <1>3

\* The end of a turn in particular.
LEMMA TurnReleases ==
    ASSUME PermitInv, NEW m \in Msgs, stage[m] \in Holding, ReleasePermit(abort)
    PROVE  /\ \/ abort' = abort /\ holder' = Nobody /\ waiters = <<>>
              \/ \E h \in Msgs : /\ abort[h] = "waiting" /\ holder' = Abort(h)
                                 /\ abort' = [abort EXCEPT ![h] = "cleanup"]
           /\ \A k \in Msgs : abort'[k] = "done" <=> abort[k] = "done"
  <1>1. TypeOK /\ WaitInv
    BY DEF PermitInv
  <1>2. \/ abort' = abort /\ holder' = Nobody /\ waiters = <<>>
        \/ \E h \in Msgs : /\ abort[h] = "waiting" /\ holder' = Abort(h)
                           /\ abort' = [abort EXCEPT ![h] = "cleanup"]
    BY <1>1, NoCleanup, ReleaseMoves
  <1>3. abort \in [Msgs -> AbortStates]
    BY NoCleanup
  <1> QED BY <1>2, <1>3

\* And the end of a cleanup.
LEMMA CleanupReleases ==
    ASSUME PermitInv, NEW m \in Msgs, NEW to \in {"done", "cut"}, CleanupEnds(m, to)
    PROVE  /\ abort[m] = "cleanup"
           /\ \/ abort' = [abort EXCEPT ![m] = to]
              \/ \E h \in Msgs : /\ abort[h] = "waiting" /\ h # m
                                 /\ abort' = [abort EXCEPT ![m] = to, ![h] = "cleanup"]
           /\ abort'[m] = to
           /\ \A k \in Msgs : k # m => (abort'[k] = "done" <=> abort[k] = "done")
  <1> DEFINE calls == [abort EXCEPT ![m] = to]
  <1>1. /\ TypeOK /\ WaitInv /\ abort[m] = "cleanup"
        /\ abort \in [Msgs -> AbortStates]
        /\ ReleasePermit(calls)
    BY DEF CleanupEnds, PermitInv, TypeOK, AbortStates
  <1>2. /\ calls \in [Msgs -> AbortStates]
        /\ \A k \in Msgs : calls[k] = "waiting" <=> k \in ToSet(waiters)
        /\ calls[m] = to
        /\ \A k \in Msgs : k # m => calls[k] = abort[k]
    BY <1>1 DEF AbortStates, WaitInv
  <1> HIDE DEF calls
  <1>3. \/ abort' = calls
        \/ \E h \in Msgs : /\ calls[h] = "waiting"
                           /\ abort' = [calls EXCEPT ![h] = "cleanup"]
    BY <1>1, <1>2, ReleaseMoves
  <1>4. \/ abort' = [abort EXCEPT ![m] = to]
        \/ \E h \in Msgs : /\ abort[h] = "waiting" /\ h # m
                           /\ abort' = [abort EXCEPT ![m] = to, ![h] = "cleanup"]
    <2>1. CASE abort' = calls
      BY <2>1 DEF calls
    <2>2. ASSUME NEW h \in Msgs, calls[h] = "waiting",
                 abort' = [calls EXCEPT ![h] = "cleanup"]
          PROVE  /\ abort[h] = "waiting" /\ h # m
                 /\ abort' = [abort EXCEPT ![m] = to, ![h] = "cleanup"]
      BY <2>2, <1>2 DEF calls
    <2> QED BY <2>1, <2>2, <1>3
  <1> QED BY <1>1, <1>2, <1>3, <1>4

\* What taking a batch does: it moves a prefix of the queue, which becomes its
\* last message, or nothing.
LEMMA BatchFacts ==
    ASSUME PermitInv, NEW p \in Procs, TakeBatch(p)
    PROVE  \E batch \in SUBSET Msgs, lead \in Msgs :
             /\ lead \in batch
             /\ \A m \in batch : stage[m] = "queued"
             /\ \A m, k \in batch : Mode = "collect" => Context[m] = Context[k]
             /\ Mode = "followup" => batch = {lead}
             /\ stage' \in [Msgs -> Stages]
             /\ \A m \in Msgs : m \notin batch => stage'[m] = stage[m]
             /\ \/ /\ \A m \in batch : stage'[m] = "abandoned"
                   /\ UNCHANGED <<cargo, drain, hand>>
                \/ /\ stage'[lead] = "inhand"
                   /\ \A m \in batch : m # lead => stage'[m] = "merged"
                   /\ cargo' = [cargo EXCEPT ![lead] = UNION {cargo[m] : m \in batch}]
                   /\ hand' = [hand EXCEPT ![p] = lead]
                   /\ drain' = [drain EXCEPT ![p] = "replay"]
  <1>1. PICK n \in 1..Len(queue) :
          LET batch == {queue[i] : i \in 1..n}
              lead  == queue[n]
          IN  /\ IsBatch(n)
              /\ \/ /\ stage' = [m \in Msgs |-> IF m \in batch THEN "abandoned" ELSE stage[m]]
                    /\ UNCHANGED <<cargo, drain, hand>>
                 \/ /\ stage' = [m \in Msgs |-> IF m = lead THEN "inhand"
                                                ELSE IF m \in batch THEN "merged"
                                                ELSE stage[m]]
                    /\ cargo' = [cargo EXCEPT ![lead] = UNION {cargo[m] : m \in batch}]
                    /\ hand' = [hand EXCEPT ![p] = lead]
                    /\ drain' = [drain EXCEPT ![p] = "replay"]
    BY Zenon DEF TakeBatch
  <1> DEFINE batch == {queue[i] : i \in 1..n}
             lead  == queue[n]
  <1>2. queue \in Seq(Msgs) /\ stage \in [Msgs -> Stages]
    BY DEF PermitInv, TypeOK
  <1>3. batch \subseteq ToSet(queue) /\ lead \in batch /\ batch \subseteq Msgs
    BY <1>2 DEF ToSet
  <1>4. \A m \in batch : stage[m] = "queued"
    BY <1>3 DEF PermitInv, QueueInv
  <1>5. \A m, k \in batch : Mode = "collect" => Context[m] = Context[k]
    BY <1>1 DEF IsBatch
  <1>6. Mode = "followup" => batch = {lead}
    <2>1. Mode = "followup" => n = 1
      BY <1>1 DEF IsBatch
    <2> QED BY <2>1
  <1>7. stage' \in [Msgs -> Stages]
    BY <1>1, <1>2 DEF Stages
  <1>8. \A m \in Msgs : m \notin batch => stage'[m] = stage[m]
    BY <1>1, <1>3
  <1>9. \/ /\ \A m \in batch : stage'[m] = "abandoned"
           /\ UNCHANGED <<cargo, drain, hand>>
        \/ /\ stage'[lead] = "inhand"
           /\ \A m \in batch : m # lead => stage'[m] = "merged"
           /\ cargo' = [cargo EXCEPT ![lead] = UNION {cargo[m] : m \in batch}]
           /\ hand' = [hand EXCEPT ![p] = lead]
           /\ drain' = [drain EXCEPT ![p] = "replay"]
    BY <1>1, <1>3
  <1>10. batch \in SUBSET Msgs /\ lead \in Msgs
    BY <1>3
  <1> HIDE DEF batch, lead
  <1> QED BY <1>3, <1>4, <1>5, <1>6, <1>7, <1>8, <1>9, <1>10

\* The replay of a batch, and what admission makes of it.
LEMMA ReplayFacts ==
    ASSUME PermitInv, NEW p \in Procs, Replay(p)
    PROVE  \E m \in Msgs :
             /\ hand[p] = m /\ stage[m] = "inhand" /\ drain[p] = "replay"
             /\ hand' = [hand EXCEPT ![p] = Nobody]
             /\ UNCHANGED <<cargo, waiters, cancel, abort, turnVars>>
             /\ \/ /\ holder = Nobody /\ holder' = Turn(m)
                   /\ stage' = [stage EXCEPT ![m] = "setup"]
                   /\ drain' = [drain EXCEPT ![p] = "sending"]
                   /\ replayer' = [replayer EXCEPT ![m] = p]
                \/ /\ UNCHANGED <<holder, replayer>>
                   /\ stage' = [stage EXCEPT ![m] = "queued"]
                   /\ drain' = [drain EXCEPT ![p] = "finish"]
  <1> DEFINE m     == hand[p]
             place == Admission(m, TRUE)
  <1>1. /\ m \in Msgs /\ stage[m] = "inhand" /\ drain[p] = "replay"
        /\ hand' = [hand EXCEPT ![p] = Nobody]
        /\ UNCHANGED <<cargo, waiters, cancel, abort, turnVars>>
    BY DEF Replay, PermitInv, HandInv, TypeOK
  <1>2. CASE place = "acquired"
    <2>1. holder = Nobody
      BY <1>2 DEF Admission
    <2> QED BY <1>1, <1>2, <2>1 DEF Replay
  <1>3. CASE place # "acquired"
    BY <1>1, <1>3 DEF Replay
  <1> QED BY <1>2, <1>3

\* Every step preserves the drainers' invariant.
LEMMA NextDrainInv == PermitInv /\ DrainInv /\ [Next]_vars => DrainInv'
  <1> SUFFICES ASSUME PermitInv, DrainInv, [Next]_vars PROVE DrainInv'
    OBVIOUS
  <1>0. /\ stage \in [Msgs -> Stages] /\ abort \in [Msgs -> AbortStates]
        /\ drain \in [Procs -> DrainStates]
        /\ hand \in [Procs -> Msgs \cup {Nobody}]
        /\ replayer \in [Msgs -> Procs \cup {Nobody}]
    BY DEF PermitInv, TypeOK, AbortStates
  <1> USE <1>0
  <1>a. HandsInv
    BY DEF DrainInv
  <1>b. ASSUME NEW p \in Procs, hand[p] \in Msgs,
               \A q \in Procs : hand'[q] = IF q = p THEN Nobody ELSE hand[q],
               \A q \in Procs : q # p => drain'[q] = drain[q],
               \A k \in Msgs : k # hand[p] => stage'[k] = stage[k],
               stage'[hand[p]] \notin {"inhand", "lost"}
        PROVE  HandsInv'
    <2>1. \A q \in Procs : q # p /\ hand[q] # Nobody => hand[q] \in Msgs /\ hand[q] # hand[p]
      BY <1>b DEF PermitInv, HandInv
    <2>2. \A q \in Procs : hand'[q] # Nobody
             => /\ drain'[q] \in {"replay", "dead"}
                /\ stage'[hand'[q]] = "lost" <=> drain'[q] = "dead"
      BY <2>1, <1>a, <1>b DEF HandsInv
    <2>3. \A k \in Msgs : stage'[k] \in {"inhand", "lost"} => \E q \in Procs : hand'[q] = k
      <3> SUFFICES ASSUME NEW k \in Msgs, stage'[k] \in {"inhand", "lost"}
                   PROVE  \E q \in Procs : hand'[q] = k
        OBVIOUS
      <3>1. k # hand[p] /\ stage[k] \in {"inhand", "lost"}
        BY <1>b
      <3>2. PICK q \in Procs : hand[q] = k
        BY <3>1, <1>a DEF HandsInv
      <3> QED BY <3>1, <3>2, <1>b
    <2> QED BY <2>2, <2>3 DEF HandsInv
  <1>1. ASSUME NEW m \in Msgs, Arrive(m) \/ ArriveSync(m) PROVE DrainInv'
    <2>1. \A k \in Msgs : stage'[k] # stage[k]
              => stage[k] = "new" /\ stage'[k] \in {"setup", "queued", "busy"}
      BY <1>1 DEF Arrive, ArriveSync
    <2>2. UNCHANGED <<abort, drain, hand, replayer>>
      BY <1>1 DEF Arrive, ArriveSync, drainVars
    <2>3. HandsInv'
      BY <2>1, <2>2, <1>a, HandsKept
    <2> QED BY <2>1, <2>2, <2>3 DEF DrainInv, BeforeRun
  <1>2. CASE CancelQueued
    <2>1. \A k \in Msgs : stage'[k] # stage[k]
              => stage[k] = "queued" /\ stage'[k] = "cancelled"
      BY <1>2 DEF CancelQueued, PermitInv, QueueInv
    <2>2. UNCHANGED <<abort, drain, hand, replayer>>
      BY <1>2 DEF CancelQueued, drainVars
    <2>3. HandsInv'
      BY <2>1, <2>2, <1>a, HandsKept
    <2> QED BY <2>1, <2>2, <2>3 DEF DrainInv, BeforeRun, TaskStages
  <1>3. ASSUME NEW m \in Msgs, StartRun(m) PROVE DrainInv'
    <2>1. /\ stage[m] = "setup" /\ stage' = [stage EXCEPT ![m] = "registered"]
          /\ UNCHANGED <<abort, hand>>
          /\ drain' = IF replayer[m] = Nobody THEN drain
                      ELSE [drain EXCEPT ![replayer[m]] = "finish"]
          /\ replayer' = [replayer EXCEPT ![m] = Nobody]
      BY <1>3 DEF StartRun, RegisterRun
    <2>2. \A k \in Msgs : k # m => replayer[k] = Nobody
      BY <2>1, NoCleanup DEF Holding, PermitInv, HandInv
    <2>3. \A q \in Procs : \/ drain'[q] = drain[q]
                           \/ drain[q] = "sending" /\ drain'[q] = "finish"
      BY <2>1 DEF DrainInv
    <2>4. \A k \in Msgs : stage'[k] \in BeforeRun \cup TaskStages
                          => stage[k] \in BeforeRun \cup TaskStages
      BY <2>1 DEF BeforeRun
    <2>5. \A k \in Msgs : replayer'[k] = Nobody
      BY <2>1, <2>2
    <2>6. HandsInv'
      BY <2>1, <2>3, <1>a, HandsKept
    <2> QED BY <2>1, <2>3, <2>4, <2>5, <2>6, ProcFacts DEF DrainInv
  <1>4. ASSUME NEW m \in Msgs, FailSetup(m) PROVE DrainInv'
    <2> DEFINE q == IF replayer[m] = Nobody THEN Turn(m) ELSE replayer[m]
    <2>1. /\ stage[m] = "setup" /\ stage' = [stage EXCEPT ![m] = "unstarted"]
          /\ UNCHANGED hand /\ ReleasePermit(abort)
          /\ drain' = [drain EXCEPT ![q] = "take"]
          /\ replayer' = [replayer EXCEPT ![m] = Nobody]
      BY <1>4 DEF FailSetup, FinishUnstarted
    <2>2. \A k \in Msgs : replayer'[k] = Nobody
      BY <2>1, NoCleanup DEF Holding, PermitInv, HandInv
    <2>3. /\ q \in Procs /\ drain[q] \in {"off", "sending"}
          /\ drain[q] = "off" => q = Turn(m)
      BY <2>1, ProcFacts DEF DrainInv, BeforeRun
    <2> HIDE DEF q
    <2>4. \A k \in Msgs : abort'[k] = "done" <=> abort[k] = "done"
      BY <2>1, TurnReleases DEF Holding
    <2>5. HandsInv'
      <3>1. /\ \A k \in Msgs : stage'[k] # stage[k]
                  => stage[k] = "setup" /\ stage'[k] = "unstarted"
            /\ \A r \in Procs : drain'[r] # drain[r] => drain[r] \in {"off", "sending"}
        BY <2>1, <2>3
      <3> QED BY <2>1, <3>1, <1>a, HandsKept
    <2>6. \A k \in Msgs : stage'[k] \in BeforeRun \cup TaskStages
                          => k # m /\ stage[k] \in BeforeRun \cup TaskStages
      BY <2>1 DEF BeforeRun, TaskStages
    <2>7. \A k \in Msgs : stage'[k] \in BeforeRun \cup TaskStages => drain'[Turn(k)] = "off"
      BY <2>1, <2>3, <2>6, ProcFacts DEF DrainInv
    <2>8. \A k \in Msgs : abort'[k] # "done" => drain'[Abort(k)] = "off"
      BY <2>1, <2>3, <2>4, ProcFacts DEF DrainInv
    <2> QED BY <2>1, <2>2, <2>5, <2>7, <2>8 DEF DrainInv
  <1>5. ASSUME NEW m \in Msgs,
               \/ BeginRun(m) \/ CommitSuccess(m) \/ PersistAssistant(m)
               \/ BroadcastFinal(m) \/ CommitError(m) \/ BroadcastError(m)
               \/ EndSilently(m) \/ Unlist(m) \/ Unmap(m)
        PROVE  DrainInv'
    <2>1. \E from, to \in TaskStages : InTask(m, from, to)
      BY <1>5 DEF BeginRun, CommitSuccess, PersistAssistant, BroadcastFinal, CommitError,
                  BroadcastError, EndSilently, Unlist, Unmap, TaskStages
    <2>2. /\ \A k \in Msgs : stage'[k] # stage[k]
                => stage[k] \in TaskStages /\ stage'[k] \in TaskStages
          /\ UNCHANGED <<abort, drain, hand, replayer>>
      BY <2>1 DEF InTask, TaskStep, drainVars
    <2>3. HandsInv'
      BY <2>2, <1>a, HandsKept DEF TaskStages
    <2> QED BY <2>2, <2>3 DEF DrainInv, BeforeRun, TaskStages
  <1>6. ASSUME NEW m \in Msgs, ReleaseRun(m) PROVE DrainInv'
    <2>1. /\ stage[m] = "unmapped" /\ stage' = [stage EXCEPT ![m] = "done"]
          /\ UNCHANGED <<hand, replayer>> /\ ReleasePermit(abort)
          /\ drain' = [drain EXCEPT ![Turn(m)] = "take"]
      BY <1>6 DEF ReleaseRun, TaskStep
    <2>2. drain[Turn(m)] = "off"
      BY <2>1 DEF DrainInv, TaskStages
    <2>3. \A k \in Msgs : abort'[k] = "done" <=> abort[k] = "done"
      BY <2>1, TurnReleases DEF Holding, TaskStages
    <2>4. \A k \in Msgs : stage'[k] \in BeforeRun \cup TaskStages
                          => k # m /\ stage[k] \in BeforeRun \cup TaskStages
      BY <2>1 DEF BeforeRun, TaskStages
    <2>5. HandsInv'
      <3>1. /\ \A k \in Msgs : stage'[k] # stage[k]
                  => stage[k] = "unmapped" /\ stage'[k] = "done"
            /\ \A r \in Procs : drain'[r] # drain[r] => drain[r] = "off"
        BY <2>1, <2>2
      <3> QED BY <2>1, <3>1, <1>a, HandsKept
    <2> QED BY <2>1, <2>2, <2>3, <2>4, <2>5, ProcFacts DEF DrainInv
  <1>7. ASSUME NEW m \in Msgs, Panic(m) \/ Kill(m) PROVE DrainInv'
    <2>1. PICK how \in Finished : TaskDies(m, how)
      BY <1>7 DEF Panic, Kill, Finished
    <2>2. /\ stage[m] \in Holding /\ stage' = [stage EXCEPT ![m] = how]
          /\ UNCHANGED <<drain, hand, replayer>> /\ ReleasePermit(abort)
      BY <2>1 DEF TaskDies, Holding, drainVars
    <2>3. \A k \in Msgs : abort'[k] = "done" <=> abort[k] = "done"
      BY <2>2, TurnReleases
    <2>4. \A k \in Msgs : stage'[k] # stage[k] => stage[k] \in Holding /\ stage'[k] \in Finished
      BY <2>2
    <2>5. HandsInv'
      BY <2>2, <2>4, <1>a, HandsKept DEF Holding, TaskStages, Finished
    <2> QED BY <2>2, <2>3, <2>4, <2>5 DEF DrainInv, BeforeRun, TaskStages, Finished
  <1>8. ASSUME NEW m \in Msgs, ClaimAbort(m) PROVE DrainInv'
    <2>1. /\ UNCHANGED <<stage, drain, hand, replayer>>
          /\ bySession = m /\ \A k \in Msgs : k # m => abort'[k] = abort[k]
      BY <1>8 DEF ClaimAbort, drainVars
    <2>2. abort[m] = "none"
      BY <2>1 DEF PermitInv, ClaimInv
    <2>3. HandsInv'
      BY <2>1, <1>a, HandsKept
    <2> QED BY <2>1, <2>2, <2>3 DEF DrainInv
  <1>9. ASSUME NEW m \in Msgs, CleanupAbort(m) \/ DropCleanup(m) PROVE DrainInv'
    <2>0. PICK to \in {"done", "cut"} : CleanupEnds(m, to)
      BY <1>9, CleanupEndings
    <2>1. /\ UNCHANGED <<stage, hand, replayer>>
          /\ drain' = IF to = "done" THEN [drain EXCEPT ![Abort(m)] = "take"] ELSE drain
      BY <2>0 DEF CleanupEnds
    <2>2. /\ abort[m] = "cleanup" /\ abort'[m] = to
          /\ \A k \in Msgs : k # m => (abort'[k] = "done" <=> abort[k] = "done")
      BY <2>0, CleanupReleases
    <2>3. drain[Abort(m)] = "off"
      BY <2>2 DEF DrainInv
    <2>4. HandsInv'
      <3>1. \A r \in Procs : drain'[r] # drain[r] => drain[r] = "off"
        BY <2>1, <2>3
      <3> QED BY <2>1, <3>1, <1>a, HandsKept
    <2> QED BY <2>1, <2>2, <2>3, <2>4, ProcFacts DEF DrainInv
  <1>10. ASSUME NEW p \in Procs, TakeBatch(p) PROVE DrainInv'
    <2>1. PICK batch \in SUBSET Msgs, lead \in Msgs :
             /\ lead \in batch
             /\ \A m \in batch : stage[m] = "queued"
             /\ \A m \in Msgs : m \notin batch => stage'[m] = stage[m]
             /\ \/ /\ \A m \in batch : stage'[m] = "abandoned"
                   /\ UNCHANGED <<drain, hand>>
                \/ /\ stage'[lead] = "inhand"
                   /\ \A m \in batch : m # lead => stage'[m] = "merged"
                   /\ hand' = [hand EXCEPT ![p] = lead]
                   /\ drain' = [drain EXCEPT ![p] = "replay"]
      BY <1>10, BatchFacts
    <2>2. /\ drain[p] = "take" /\ UNCHANGED <<abort, replayer>>
      BY <1>10 DEF TakeBatch
    <2>3. hand[p] = Nobody
      BY <2>2, <1>a DEF HandsInv
    <2>4. \A k \in Msgs : stage'[k] \in BeforeRun \cup TaskStages
                          => stage[k] \in BeforeRun \cup TaskStages
      BY <2>1 DEF BeforeRun, TaskStages
    <2>5. CASE UNCHANGED <<drain, hand>> /\ \A m \in batch : stage'[m] = "abandoned"
      <3>1. \A k \in Msgs : stage'[k] # stage[k]
                => stage[k] = "queued" /\ stage'[k] = "abandoned"
        BY <2>1, <2>5
      <3>2. HandsInv'
        BY <3>1, <2>5, <1>a, HandsKept
      <3> QED BY <3>2, <2>2, <2>4, <2>5 DEF DrainInv
    <2>6. CASE /\ stage'[lead] = "inhand"
               /\ \A m \in batch : m # lead => stage'[m] = "merged"
               /\ hand' = [hand EXCEPT ![p] = lead]
               /\ drain' = [drain EXCEPT ![p] = "replay"]
      <3>1. /\ \A k \in Msgs : stage'[k] \in {"inhand", "lost"} /\ k # lead
                               => stage'[k] = stage[k]
            /\ \A k \in Msgs : stage[k] \in {"inhand", "lost"} => k # lead /\ stage'[k] = stage[k]
        BY <2>1, <2>6
      <3>2. /\ \A q \in Procs : hand'[q] = IF q = p THEN lead ELSE hand[q]
            /\ \A q \in Procs : drain'[q] = IF q = p THEN "replay" ELSE drain[q]
        BY <2>6
      <3>3. \A q \in Procs : hand'[q] # Nobody
               => /\ drain'[q] \in {"replay", "dead"}
                  /\ stage'[hand'[q]] = "lost" <=> drain'[q] = "dead"
        <4>1. \A q \in Procs : q # p /\ hand[q] # Nobody
                                => stage'[hand[q]] = stage[hand[q]]
          BY <3>1 DEF PermitInv, HandInv
        <4> QED BY <4>1, <3>2, <2>6, <1>a DEF HandsInv
      <3>4. \A k \in Msgs : stage'[k] \in {"inhand", "lost"} => \E q \in Procs : hand'[q] = k
        BY <3>1, <3>2, <2>3, <1>a, ProcFacts DEF HandsInv
      <3>6. HandsInv'
        BY <3>3, <3>4 DEF HandsInv
      <3>5. \A q \in Procs : drain[q] \in {"off", "sending"} => drain'[q] = drain[q]
        BY <3>2, <2>2
      <3> QED BY <3>5, <3>6, <2>2, <2>4, ProcFacts DEF DrainInv
    <2> QED BY <2>1, <2>5, <2>6
  <1>11. ASSUME NEW p \in Procs, TakeNothing(p) \/ FinishDraining(p) PROVE DrainInv'
    <2>1. /\ drain[p] \in {"take", "finish"}
          /\ \E to \in {"off", "finish"} : drain' = [drain EXCEPT ![p] = to]
          /\ UNCHANGED <<stage, abort, hand, replayer>>
      BY <1>11 DEF TakeNothing, FinishDraining
    <2>2. HandsInv'
      BY <2>1, <1>a, HandsKept
    <2> QED BY <2>1, <2>2, ProcFacts DEF DrainInv
  <1>12. ASSUME NEW p \in Procs, Replay(p) PROVE DrainInv'
    <2>1. PICK m \in Msgs :
             /\ hand[p] = m /\ stage[m] = "inhand" /\ drain[p] = "replay"
             /\ hand' = [hand EXCEPT ![p] = Nobody]
             /\ UNCHANGED abort
             /\ \/ /\ holder = Nobody
                   /\ stage' = [stage EXCEPT ![m] = "setup"]
                   /\ drain' = [drain EXCEPT ![p] = "sending"]
                   /\ replayer' = [replayer EXCEPT ![m] = p]
                \/ /\ UNCHANGED replayer
                   /\ stage' = [stage EXCEPT ![m] = "queued"]
                   /\ drain' = [drain EXCEPT ![p] = "finish"]
      BY <1>12, ReplayFacts
    <2>2. /\ \A q \in Procs : hand'[q] = IF q = p THEN Nobody ELSE hand[q]
          /\ \A q \in Procs : q # p => drain'[q] = drain[q]
          /\ drain'[p] \in {"sending", "finish"}
      BY <2>1
    <2>3. \A k \in Msgs : replayer'[k] # Nobody => drain'[replayer'[k]] = "sending"
      BY <2>1, <2>2, ProcFacts DEF DrainInv
    <2>4. \A k \in Msgs : stage'[k] \in BeforeRun \cup TaskStages
                          => stage[k] \in BeforeRun \cup TaskStages
      BY <2>1 DEF BeforeRun
    <2>5. \A q \in Procs : drain[q] = "off" => drain'[q] = "off"
      BY <2>1, <2>2
    <2>6. HandsInv'
      <3>1. \A k \in Msgs : k # m => stage'[k] = stage[k]
        BY <2>1
      <3>2. stage'[m] \notin {"inhand", "lost"}
        BY <2>1
      <3> QED BY <2>1, <2>2, <3>1, <3>2, <1>b
    <2> QED BY <2>1, <2>2, <2>3, <2>4, <2>5, <2>6, ProcFacts DEF DrainInv
  <1>13. ASSUME NEW p \in Procs, RefuseReplay(p) PROVE DrainInv'
    <2>1. /\ hand[p] \in Msgs /\ drain[p] = "replay"
          /\ stage' = [stage EXCEPT ![hand[p]] = "refused"]
          /\ hand' = [hand EXCEPT ![p] = Nobody]
          /\ drain' = [drain EXCEPT ![p] = "take"]
          /\ UNCHANGED <<abort, replayer>>
      BY <1>13 DEF RefuseReplay, PermitInv, HandInv
    <2>2. /\ \A q \in Procs : hand'[q] = IF q = p THEN Nobody ELSE hand[q]
          /\ \A q \in Procs : drain'[q] = IF q = p THEN "take" ELSE drain[q]
      BY <2>1
    <2>3. HandsInv'
      <3>1. \A k \in Msgs : k # hand[p] => stage'[k] = stage[k]
        BY <2>1
      <3>2. stage'[hand[p]] \notin {"inhand", "lost"}
        BY <2>1
      <3> QED BY <2>1, <2>2, <3>1, <3>2, <1>b
    <2>4. \A k \in Msgs : stage'[k] \in BeforeRun \cup TaskStages
                          => stage[k] \in BeforeRun \cup TaskStages
      BY <2>1 DEF BeforeRun, TaskStages
    <2> QED BY <2>1, <2>2, <2>3, <2>4, ProcFacts DEF DrainInv
  <1>14. ASSUME NEW p \in Procs, DieDraining(p) PROVE DrainInv'
    <2>1. /\ drain' = [drain EXCEPT ![p] = "dead"] /\ drain[p] \notin {"off", "dead"}
          /\ \A q \in Procs : drain'[q] = IF q = p THEN "dead" ELSE drain[q]
      BY <1>14, DieFacts DEF Draining
    <2>2. CASE /\ drain[p] \in {"take", "finish"}
               /\ UNCHANGED <<stage, hand, replayer, holder, waiters, abort, history>>
      <3>1. HandsInv'
        BY <2>1, <2>2, <1>a, HandsKept
      <3>2. \A k \in Msgs : replayer[k] # p
        BY <2>2, ChatTurnsAssumption DEF DrainInv
      <3> QED BY <2>1, <2>2, <3>1, <3>2, ProcFacts DEF DrainInv
    <2>3. CASE /\ drain[p] = "replay" /\ hand[p] \in Msgs /\ stage[hand[p]] = "inhand"
               /\ stage' = [stage EXCEPT ![hand[p]] = "lost"]
               /\ UNCHANGED <<hand, replayer, holder, waiters, abort, history>>
      <3>1. \A k \in Msgs : stage'[k] = IF k = hand[p] THEN "lost" ELSE stage[k]
        BY <2>3
      <3>2. \A q \in Procs : q # p /\ hand[q] # Nobody => hand[q] \in Msgs /\ hand[q] # hand[p]
        BY DEF PermitInv, HandInv
      <3>3. HandsInv'
        BY <2>1, <2>3, <3>1, <3>2, <1>a DEF HandsInv
      <3> QED BY <2>1, <2>3, <3>1, <3>3, ProcFacts DEF DrainInv, BeforeRun, TaskStages
    <2>4. ASSUME NEW m \in Msgs, replayer[m] = p, stage[m] = "setup",
                 stage' = [stage EXCEPT ![m] = "lost"],
                 hand' = [hand EXCEPT ![p] = m],
                 replayer' = [replayer EXCEPT ![m] = Nobody],
                 ReleasePermit(abort)
          PROVE  DrainInv'
      <3>1. \A k \in Msgs : stage'[k] = IF k = m THEN "lost" ELSE stage[k]
        BY <2>4
      <3>2. \A q \in Procs : hand'[q] = IF q = p THEN m ELSE hand[q]
        BY <2>4
      <3>3. hand[p] = Nobody /\ \A q \in Procs : hand[q] # m
        <4>1. drain[p] = "sending"
          BY <2>4, ChatTurnsAssumption DEF DrainInv
        <4>2. \A q \in Procs : hand[q] # m
          BY <2>4, ProcFacts DEF PermitInv, HandInv
        <4> QED BY <4>1, <4>2, <1>a DEF HandsInv
      <3>4. HandsInv'
        BY <2>1, <3>1, <3>2, <3>3, <1>a, ProcFacts DEF HandsInv
      <3>5. \A k \in Msgs : replayer'[k] = Nobody
        BY <2>4, NoCleanup DEF Holding, PermitInv, HandInv
      <3>6. \A k \in Msgs : abort'[k] = "done" <=> abort[k] = "done"
        BY <2>4, TurnReleases DEF Holding
      <3> QED BY <2>1, <3>1, <3>4, <3>5, <3>6, ProcFacts DEF DrainInv, BeforeRun, TaskStages
    <2> QED BY <1>14, <2>2, <2>3, <2>4, DieFacts
  <1>15. CASE UNCHANGED vars
    BY <1>15 DEF vars, DrainInv, HandsInv
  <1>16. ASSUME NEW m \in Msgs, TurnStep(m) PROVE DrainInv'
    BY <1>16, <1>3, <1>4, <1>5, <1>6, <1>7, <1>9 DEF TurnStep
  <1>17. ASSUME NEW p \in Procs, DrainStep(p) PROVE DrainInv'
    BY <1>17, <1>10, <1>11, <1>12, <1>13 DEF DrainStep
  <1>18. ASSUME NEW m \in Msgs, DropSend(m) PROVE DrainInv'
    <2>1. /\ stage[m] = "setup" /\ stage' = [stage EXCEPT ![m] = "dropped"]
          /\ UNCHANGED <<drain, hand, replayer>> /\ ReleasePermit(abort)
          /\ replayer[m] = Nobody
      BY <1>18 DEF DropSend, drainVars
    <2>2. \A k \in Msgs : abort'[k] = "done" <=> abort[k] = "done"
      BY <2>1, TurnReleases DEF Holding
    <2>3. \A k \in Msgs : stage'[k] # stage[k] => stage[k] = "setup" /\ stage'[k] = "dropped"
      BY <2>1
    <2>4. HandsInv'
      BY <2>1, <2>3, <1>a, HandsKept
    <2> QED BY <2>1, <2>2, <2>3, <2>4 DEF DrainInv, BeforeRun, TaskStages
  <1>19. ASSUME NEW m \in Msgs, DropWait(m) PROVE DrainInv'
    <2>1. /\ UNCHANGED <<stage, drain, hand, replayer>>
          /\ \A k \in Msgs : abort'[k] = "done" => abort[k] = "done"
          /\ \A k \in Msgs : abort[k] = "done" => abort'[k] = "done"
      BY <1>19 DEF DropWait, drainVars
    <2>2. HandsInv'
      BY <2>1, <1>a, HandsKept
    <2> QED BY <2>1, <2>2 DEF DrainInv
  <1> QED BY <1>1, <1>2, <1>7, <1>8, <1>9, <1>14, <1>15, <1>16, <1>17, <1>18, <1>19, ProcFacts
          DEF Next, Idle, KillDrain, DropDrain

\* So it holds in every reachable state.
LEMMA AlwaysDrainInv == Spec => [](PermitInv /\ DrainInv)
  <1>1. Init => DrainInv
    BY ProcFacts DEF Init, DrainInv, HandsInv
  <1> QED BY <1>1, InitPermitInv, NextPermitInv, NextDrainInv, PTL DEF Spec

-----------------------------------------------------------------------------
(* The refinement of SerialTurns.                                          *)

\* What the users see of a stage and of an abort call.
LEMMA PhaseFacts ==
    /\ \A s \in Stages :
         /\ Phase(s) = "new" <=> s = "new"
         /\ Phase(s) = "waiting" <=> s \in {"queued", "inhand"}
         /\ Phase(s) = "active" <=> s \in Holding
         /\ Phase(s) \in {"new", "waiting", "active", "closed"}
    /\ \A a \in AbortStates :
         /\ CleanupOf(a) = "none" <=> a \in {"none", "waiting", "gone"}
         /\ CleanupOf(a) = "now" <=> a = "cleanup"
         /\ CleanupOf(a) = "over" <=> a \in {"done", "cut"}
  BY DEF Phase, CleanupOf, Stages, Holding, TaskStages, AbortStates, Finished

status  == [m \in Msgs |-> Phase(stage[m])]
cleanup == [m \in Msgs |-> CleanupOf(abort[m])]

\* One message changes its stage.
LEMMA StatusMoves ==
    ASSUME stage \in [Msgs -> Stages], NEW m \in Msgs, NEW to,
           stage' = [stage EXCEPT ![m] = to]
    PROVE  status' = [status EXCEPT ![m] = Phase(to)]
  BY DEF status

\* A free permit is an idle session.
LEMMA FreeIsIdle ==
    ASSUME PermitInv, holder = Nobody
    PROVE  Serial!Idle
  <1>1. /\ \A m \in Msgs : stage[m] \in Stages /\ stage[m] \notin Holding
        /\ \A m \in Msgs : abort[m] \in AbortStates /\ abort[m] # "cleanup"
    BY ProcFacts DEF PermitInv, PermitExclusion, TypeOK, AbortStates
  <1>2. \A m \in Msgs : Phase(stage[m]) # "active" /\ CleanupOf(abort[m]) # "now"
    BY <1>1, PhaseFacts
  <1> QED BY <1>2 DEF Serial!Idle

\* A turn that ends closes its message, and the permit may go to an abort.
LEMMA TurnCloses ==
    ASSUME PermitInv, NEW m \in Msgs, stage[m] \in Holding,
           NEW to \in Stages, Phase(to) = "closed",
           stage' = [stage EXCEPT ![m] = to], ReleasePermit(abort)
    PROVE  Serial!Close(m)
  <1>1. stage \in [Msgs -> Stages] /\ abort \in [Msgs -> AbortStates]
    BY DEF PermitInv, TypeOK, AbortStates
  <1>2. status[m] = "active" /\ status' = [status EXCEPT ![m] = "closed"]
    <2>1. status[m] = "active"
      BY <1>1, PhaseFacts DEF status
    <2> QED BY <2>1, <1>1, StatusMoves
  <1>3. \/ cleanup' = cleanup
        \/ \E h \in Msgs : /\ cleanup[h] = "none"
                           /\ cleanup' = [cleanup EXCEPT ![h] = "now"]
    <2>1. CASE abort' = abort
      BY <2>1 DEF cleanup
    <2>2. ASSUME NEW h \in Msgs, abort[h] = "waiting",
                 abort' = [abort EXCEPT ![h] = "cleanup"]
          PROVE  cleanup[h] = "none" /\ cleanup' = [cleanup EXCEPT ![h] = "now"]
      BY <2>2, <1>1 DEF cleanup, CleanupOf
    <2> QED BY <2>1, <2>2, TurnReleases
  <1> QED BY <1>2, <1>3 DEF Serial!Close, status, cleanup

\* Messages that have not been worked for are closed.
LEMMA BatchDropped ==
    ASSUME PermitInv, NEW S \in SUBSET Msgs,
           \A m \in S : stage[m] \in {"new", "queued", "inhand"},
           stage' \in [Msgs -> Stages],
           \A m \in S : Phase(stage'[m]) = "closed",
           \A m \in Msgs : m \notin S => Phase(stage'[m]) = Phase(stage[m]),
           UNCHANGED abort
    PROVE  Serial!Drop(S)
  <1>1. stage \in [Msgs -> Stages]
    BY DEF PermitInv, TypeOK
  <1>2. \A m \in S : status[m] \in {"new", "waiting"}
    BY <1>1, PhaseFacts DEF status
  <1>3. status' = [m \in Msgs |-> IF m \in S THEN "closed" ELSE status[m]]
    BY DEF status
  <1>4. cleanup' = cleanup
    BY DEF cleanup
  <1> QED BY <1>2, <1>3, <1>4 DEF Serial!Drop, status, cleanup

\* The session turns to a message.
LEMMA MessageTaken ==
    ASSUME PermitInv, NEW m \in Msgs, holder = Nobody,
           stage[m] \in {"new", "queued", "inhand"},
           stage' = [stage EXCEPT ![m] = "setup"], UNCHANGED abort
    PROVE  Serial!Take(m)
  <1>1. stage \in [Msgs -> Stages] /\ stage[m] \in Stages
    BY DEF PermitInv, TypeOK
  <1>2. status[m] \in {"new", "waiting"}
    BY <1>1, PhaseFacts DEF status
  <1>3. Phase("setup") = "active"
    BY PhaseFacts DEF Stages, Holding
  <1>4. status' = [status EXCEPT ![m] = "active"]
    BY <1>1, <1>3, StatusMoves
  <1>5. cleanup' = cleanup
    BY DEF cleanup
  <1> QED BY <1>2, <1>4, <1>5, FreeIsIdle DEF Serial!Take, status, cleanup

\* The users see nothing of a step that changes no phase and no cleanup.
LEMMA Unseen ==
    ASSUME \A m \in Msgs : Phase(stage'[m]) = Phase(stage[m]),
           \A m \in Msgs : CleanupOf(abort'[m]) = CleanupOf(abort[m])
    PROVE  UNCHANGED Serial!vars
  <1>1. status' = status
    BY DEF status
  <1>2. cleanup' = cleanup
    BY DEF cleanup
  <1> QED BY <1>1, <1>2 DEF Serial!vars, status, cleanup

\* Every step of the implementation is a step of the serial session, or none.
LEMMA SerialStep ==
    PermitInv /\ DrainInv /\ [Next]_vars => [Serial!Next]_(Serial!vars)
  <1> SUFFICES ASSUME PermitInv, DrainInv, [Next]_vars
               PROVE  [Serial!Next]_(Serial!vars)
    OBVIOUS
  <1> DEFINE Goal == [Serial!Next]_(Serial!vars)
  <1>0. stage \in [Msgs -> Stages] /\ abort \in [Msgs -> AbortStates]
    BY DEF PermitInv, TypeOK, AbortStates
  <1>a. /\ \A m \in Msgs : Serial!Submit(m) \/ Serial!Take(m) \/ Serial!Close(m)
                           \/ Serial!Claim(m) \/ Serial!Settle(m) => Goal
        /\ \A T \in SUBSET Msgs : Serial!Drop(T) => Goal
        /\ UNCHANGED Serial!vars => Goal
    BY DEF Serial!Next
  <1> HIDE DEF Goal
  <1>b. \A s \in Finished \cup {"busy", "cancelled", "unstarted", "abandoned", "merged",
                               "refused", "lost", "dropped"} : s \in Stages /\ Phase(s) = "closed"
    BY DEF Phase, Finished, Stages, Holding, TaskStages
  <1>1. ASSUME NEW m \in Msgs, Arrive(m) PROVE Goal
    <2>1. /\ stage[m] = "new" /\ UNCHANGED abort
          /\ \/ holder = Nobody /\ stage' = [stage EXCEPT ![m] = "setup"]
             \/ stage' = [stage EXCEPT ![m] = "queued"]
      BY <1>1 DEF Arrive, Admission
    <2>2. CASE holder = Nobody /\ stage' = [stage EXCEPT ![m] = "setup"]
      BY <2>1, <2>2, <1>a, MessageTaken
    <2>3. CASE stage' = [stage EXCEPT ![m] = "queued"]
      <3>1. status[m] = "new"
        BY <2>1, <1>0, PhaseFacts DEF status
      <3>2. Phase("queued") = "waiting"
        BY PhaseFacts DEF Stages
      <3>3. status' = [status EXCEPT ![m] = "waiting"]
        BY <2>3, <3>2, <1>0, StatusMoves
      <3>4. cleanup' = cleanup
        BY <2>1 DEF cleanup
      <3>5. Serial!Submit(m)
        BY <3>1, <3>3, <3>4 DEF Serial!Submit, status, cleanup
      <3> QED BY <3>5, <1>a
    <2> QED BY <2>1, <2>2, <2>3
  <1>2. ASSUME NEW m \in Msgs, ArriveSync(m) PROVE Goal
    <2>1. /\ stage[m] = "new" /\ UNCHANGED abort
          /\ \/ holder = Nobody /\ stage' = [stage EXCEPT ![m] = "setup"]
             \/ stage' = [stage EXCEPT ![m] = "busy"]
      BY <1>2 DEF ArriveSync
    <2>2. CASE holder = Nobody /\ stage' = [stage EXCEPT ![m] = "setup"]
      BY <2>1, <2>2, <1>a, MessageTaken
    <2>3. CASE stage' = [stage EXCEPT ![m] = "busy"]
      <3>1. Serial!Drop({m})
        BY <2>1, <2>3, <1>0, <1>b, BatchDropped
      <3> QED BY <3>1, <1>a
    <2> QED BY <2>1, <2>2, <2>3
  <1>3. ASSUME CancelQueued PROVE Goal
    <2>1. /\ stage' = [m \in Msgs |-> IF m \in ToSet(queue) THEN "cancelled" ELSE stage[m]]
          /\ UNCHANGED abort
      BY <1>3 DEF CancelQueued
    <2> DEFINE S == ToSet(queue) \cap Msgs
    <2>2. \A m \in S : stage[m] = "queued"
      BY DEF PermitInv, QueueInv
    <2>3. /\ \A m \in S : stage'[m] = "cancelled"
          /\ \A m \in Msgs : m \notin S => stage'[m] = stage[m]
          /\ stage' \in [Msgs -> Stages]
      BY <2>1, <1>0, <1>b
    <2> HIDE DEF S
    <2>4. S \in SUBSET Msgs
      BY DEF S
    <2>5. Serial!Drop(S)
      BY <2>1, <2>2, <2>3, <2>4, <1>b, BatchDropped
    <2> QED BY <2>4, <2>5, <1>a
  <1>4. ASSUME NEW m \in Msgs, NEW from \in Holding, NEW to \in Holding,
               stage[m] = from, stage' = [stage EXCEPT ![m] = to], UNCHANGED abort
        PROVE  Goal
    <2>1. Phase(from) = "active" /\ Phase(to) = "active"
      BY PhaseFacts DEF Stages
    <2>2. \A k \in Msgs : Phase(stage'[k]) = Phase(stage[k])
      BY <1>4, <2>1, <1>0
    <2> QED BY <1>4, <2>2, <1>a, Unseen
  <1>5. ASSUME NEW m \in Msgs, StartRun(m) PROVE Goal
    <2>1. /\ stage[m] = "setup" /\ stage' = [stage EXCEPT ![m] = "registered"]
          /\ UNCHANGED abort
      BY <1>5 DEF StartRun
    <2> QED BY <2>1, <1>4 DEF Holding, TaskStages
  <1>6. ASSUME NEW m \in Msgs,
               \/ BeginRun(m) \/ CommitSuccess(m) \/ PersistAssistant(m)
               \/ BroadcastFinal(m) \/ CommitError(m) \/ BroadcastError(m)
               \/ EndSilently(m) \/ Unlist(m) \/ Unmap(m)
        PROVE  Goal
    <2>1. \E from, to \in TaskStages : InTask(m, from, to)
      BY <1>6 DEF BeginRun, CommitSuccess, PersistAssistant, BroadcastFinal, CommitError,
                  BroadcastError, EndSilently, Unlist, Unmap, TaskStages
    <2>2. \E from, to \in Holding : /\ stage[m] = from /\ stage' = [stage EXCEPT ![m] = to]
                                    /\ UNCHANGED abort
      BY <2>1 DEF InTask, TaskStep, Holding
    <2> QED BY <2>2, <1>4
  <1>7. ASSUME NEW m \in Msgs,
               FailSetup(m) \/ DropSend(m) \/ ReleaseRun(m) \/ Panic(m) \/ Kill(m)
        PROVE  Goal
    <2>1. PICK to \in Finished \cup {"unstarted", "dropped"} :
             stage[m] \in Holding /\ stage' = [stage EXCEPT ![m] = to]
      BY <1>7 DEF FailSetup, DropSend, ReleaseRun, TaskStep, Panic, Kill, TaskDies, Finished,
                  Holding, TaskStages
    <2>2. ReleasePermit(abort)
      BY <1>7 DEF FailSetup, FinishUnstarted, DropSend, ReleaseRun, Panic, Kill, TaskDies
    <2>3. to \in Stages /\ Phase(to) = "closed"
      BY <1>b
    <2>4. Serial!Close(m)
      BY <2>1, <2>2, <2>3, TurnCloses
    <2> QED BY <2>4, <1>a
  <1>8. ASSUME NEW m \in Msgs, ClaimAbort(m) PROVE Goal
    <2>1. abort[m] = "none" /\ UNCHANGED stage
      BY <1>8 DEF ClaimAbort, PermitInv, ClaimInv
    <2>2. CASE holder = Nobody
      <3>1. abort' = [abort EXCEPT ![m] = "cleanup"]
        BY <1>8, <2>2 DEF ClaimAbort
      <3>2. cleanup[m] = "none" /\ cleanup' = [cleanup EXCEPT ![m] = "now"]
        BY <3>1, <2>1, <1>0 DEF cleanup, CleanupOf
      <3>3. status' = status
        BY <2>1 DEF status
      <3>4. Serial!Claim(m)
        BY <2>2, <3>2, <3>3, FreeIsIdle DEF Serial!Claim, status, cleanup
      <3> QED BY <3>4, <1>a
    <2>3. CASE holder # Nobody
      <3>1. abort' = [abort EXCEPT ![m] = "waiting"]
        BY <1>8, <2>3 DEF ClaimAbort
      <3>2. \A k \in Msgs : CleanupOf(abort'[k]) = CleanupOf(abort[k])
        BY <3>1, <2>1, <1>0 DEF CleanupOf
      <3> QED BY <3>2, <2>1, <1>a, Unseen
    <2> QED BY <2>2, <2>3
  <1>9. ASSUME NEW m \in Msgs, CleanupAbort(m) \/ DropCleanup(m) PROVE Goal
    <2>0. PICK to \in {"done", "cut"} : CleanupEnds(m, to)
      BY <1>9, CleanupEndings
    <2>1. UNCHANGED stage
      BY <2>0 DEF CleanupEnds
    <2>2. status' = status
      BY <2>1 DEF status
    <2>3. abort[m] = "cleanup" /\ CleanupOf(to) = "over"
      BY <2>0, CleanupReleases, PhaseFacts DEF AbortStates
    <2>4. cleanup[m] = "now"
      BY <2>3, <1>0 DEF cleanup, CleanupOf
    <2>5. \/ cleanup' = [cleanup EXCEPT ![m] = "over"]
          \/ \E h \in Msgs : /\ cleanup[h] = "none"
                             /\ cleanup' = [cleanup EXCEPT ![m] = "over", ![h] = "now"]
      <3>1. CASE abort' = [abort EXCEPT ![m] = to]
        BY <3>1, <2>3, <1>0 DEF cleanup
      <3>2. ASSUME NEW h \in Msgs, abort[h] = "waiting", h # m,
                   abort' = [abort EXCEPT ![m] = to, ![h] = "cleanup"]
            PROVE  /\ cleanup[h] = "none"
                   /\ cleanup' = [cleanup EXCEPT ![m] = "over", ![h] = "now"]
        <4>1. CleanupOf("waiting") = "none" /\ CleanupOf("cleanup") = "now"
          BY PhaseFacts DEF AbortStates
        <4> QED BY <4>1, <3>2, <2>3, <1>0 DEF cleanup
      <3> QED BY <3>1, <3>2, <2>0, CleanupReleases
    <2>6. Serial!Settle(m)
      BY <2>2, <2>4, <2>5 DEF Serial!Settle, status, cleanup
    <2> QED BY <2>6, <1>a
  <1>10. ASSUME NEW p \in Procs, TakeBatch(p) PROVE Goal
    <2>1. PICK batch \in SUBSET Msgs, lead \in Msgs :
             /\ lead \in batch
             /\ \A m \in batch : stage[m] = "queued"
             /\ stage' \in [Msgs -> Stages]
             /\ \A m \in Msgs : m \notin batch => stage'[m] = stage[m]
             /\ \/ \A m \in batch : stage'[m] = "abandoned"
                \/ /\ stage'[lead] = "inhand"
                   /\ \A m \in batch : m # lead => stage'[m] = "merged"
      BY <1>10, BatchFacts
    <2>2. UNCHANGED abort
      BY <1>10 DEF TakeBatch
    <2>3. CASE \A m \in batch : stage'[m] = "abandoned"
      <3>1. Serial!Drop(batch)
        BY <2>1, <2>2, <2>3, <1>b, BatchDropped
      <3> QED BY <3>1, <1>a
    <2>4. CASE /\ stage'[lead] = "inhand"
               /\ \A m \in batch : m # lead => stage'[m] = "merged"
      <3> DEFINE S == batch \ {lead}
      <3>1. /\ S \in SUBSET Msgs /\ \A m \in S : stage[m] = "queued"
            /\ \A m \in S : Phase(stage'[m]) = "closed"
        BY <2>1, <2>4, <1>b
      <3>2. Phase("inhand") = "waiting" /\ Phase("queued") = "waiting"
        BY PhaseFacts DEF Stages
      <3>3. \A m \in Msgs : m \notin S => Phase(stage'[m]) = Phase(stage[m])
        BY <2>1, <2>4, <3>2
      <3> HIDE DEF S
      <3>4. Serial!Drop(S)
        BY <2>1, <2>2, <3>1, <3>3, BatchDropped
      <3> QED BY <3>1, <3>4, <1>a
    <2> QED BY <2>1, <2>3, <2>4
  <1>11. ASSUME NEW p \in Procs, TakeNothing(p) \/ FinishDraining(p) PROVE Goal
    <2>1. UNCHANGED <<stage, abort>>
      BY <1>11 DEF TakeNothing, FinishDraining
    <2> QED BY <2>1, <1>a, Unseen
  <1>12. ASSUME NEW p \in Procs, Replay(p) PROVE Goal
    <2>1. PICK m \in Msgs :
             /\ stage[m] = "inhand" /\ UNCHANGED abort
             /\ \/ holder = Nobody /\ stage' = [stage EXCEPT ![m] = "setup"]
                \/ stage' = [stage EXCEPT ![m] = "queued"]
      BY <1>12, ReplayFacts
    <2>2. CASE holder = Nobody /\ stage' = [stage EXCEPT ![m] = "setup"]
      BY <2>1, <2>2, <1>a, MessageTaken
    <2>3. CASE stage' = [stage EXCEPT ![m] = "queued"]
      <3>1. Phase("inhand") = "waiting" /\ Phase("queued") = "waiting"
        BY PhaseFacts DEF Stages
      <3>2. \A k \in Msgs : Phase(stage'[k]) = Phase(stage[k])
        BY <2>1, <2>3, <3>1, <1>0
      <3> QED BY <2>1, <3>2, <1>a, Unseen
    <2> QED BY <2>1, <2>2, <2>3
  <1>13. ASSUME NEW p \in Procs, RefuseReplay(p) PROVE Goal
    <2> DEFINE m == hand[p]
    <2>1. /\ m \in Msgs /\ stage[m] = "inhand" /\ UNCHANGED abort
          /\ stage' = [stage EXCEPT ![m] = "refused"]
      BY <1>13 DEF RefuseReplay, PermitInv, HandInv, TypeOK
    <2> HIDE DEF m
    <2>2. Serial!Drop({m})
      BY <2>1, <1>0, <1>b, BatchDropped
    <2> QED BY <2>1, <2>2, <1>a
  <1>14. ASSUME NEW p \in Procs, DieDraining(p) PROVE Goal
    <2>1. CASE UNCHANGED <<stage, abort>>
      BY <2>1, <1>a, Unseen
    <2>2. CASE /\ hand[p] \in Msgs /\ stage[hand[p]] = "inhand"
               /\ stage' = [stage EXCEPT ![hand[p]] = "lost"] /\ UNCHANGED abort
      <3>1. Serial!Drop({hand[p]})
        BY <2>2, <1>0, <1>b, BatchDropped
      <3> QED BY <2>2, <3>1, <1>a
    <2>3. ASSUME NEW m \in Msgs, stage[m] = "setup",
                 stage' = [stage EXCEPT ![m] = "lost"], ReleasePermit(abort)
          PROVE  Goal
      <3>1. Serial!Close(m)
        BY <2>3, <1>b, TurnCloses DEF Holding
      <3> QED BY <3>1, <1>a
    <2> QED BY <1>14, <2>1, <2>2, <2>3, DieFacts
  <1>15. ASSUME UNCHANGED vars PROVE Goal
    BY <1>15, <1>a, Unseen DEF vars
  <1>16. ASSUME NEW m \in Msgs, TurnStep(m) PROVE Goal
    BY <1>16, <1>5, <1>6, <1>7, <1>9 DEF TurnStep
  <1>17. ASSUME NEW p \in Procs, DrainStep(p) PROVE Goal
    BY <1>17, <1>10, <1>11, <1>12, <1>13 DEF DrainStep
  <1>19. ASSUME NEW m \in Msgs, DropWait(m) PROVE Goal
    <2>1. /\ UNCHANGED stage /\ abort[m] = "waiting"
          /\ abort' = [abort EXCEPT ![m] = "gone"]
      BY <1>19 DEF DropWait
    <2>2. CleanupOf("waiting") = "none" /\ CleanupOf("gone") = "none"
      BY PhaseFacts DEF AbortStates
    <2>3. \A k \in Msgs : CleanupOf(abort'[k]) = CleanupOf(abort[k])
      BY <2>1, <2>2, <1>0
    <2> QED BY <2>1, <2>3, <1>a, Unseen
  <1>18. Goal
    BY <1>1, <1>2, <1>3, <1>7, <1>8, <1>9, <1>14, <1>15, <1>16, <1>17, <1>19, ProcFacts
    DEF Next, Idle, KillDrain, DropDrain
  <1> QED BY <1>18 DEF Goal

\* The session implements the serial one: with any number of messages, queue
\* modes, panics, late cancellations, dropped calls and drainers at once, it works for one
\* message at a time, takes up no message twice, and cleans up after an aborted
\* run once and alone.
THEOREM SessionsAreSerial == Spec => WorksSerially
  <1>1. Init => Serial!Init
    <2>1. Phase("new") = "new" /\ CleanupOf("none") = "none"
      BY DEF Phase, CleanupOf, Holding, TaskStages
    <2> QED BY <2>1 DEF Init, Serial!Init
  <1> QED BY <1>1, SerialStep, AlwaysDrainInv, PTL DEF Spec, WorksSerially, Serial!Spec

-----------------------------------------------------------------------------
(* What a turn carries.                                                    *)

\* Only a drainer that takes a batch changes what a message carries.
LEMMA CargoKept ==
    ASSUME [Next]_vars
    PROVE  UNCHANGED cargo \/ \E p \in Procs : TakeBatch(p)
  <1>1. ASSUME NEW m \in Msgs, \/ Arrive(m) \/ ArriveSync(m) \/ ClaimAbort(m)
                                \/ DropSend(m) \/ DropWait(m) \/ DropCleanup(m)
        PROVE  UNCHANGED cargo
    BY <1>1 DEF Arrive, ArriveSync, ClaimAbort, DropSend, DropWait, DropCleanup
  <1>2. ASSUME NEW m \in Msgs, Panic(m) \/ TurnStep(m) PROVE UNCHANGED cargo
    BY <1>2 DEF Panic, TurnStep, StartRun, FailSetup, BeginRun, CommitSuccess,
                PersistAssistant, BroadcastFinal, CommitError, BroadcastError, EndSilently,
                Unlist, Unmap, ReleaseRun, Kill, TaskDies, InTask, TaskStep, CleanupAbort
  <1>3. ASSUME NEW p \in Procs, DrainStep(p) PROVE UNCHANGED cargo \/ TakeBatch(p)
    BY <1>3 DEF DrainStep, TakeNothing, Replay, RefuseReplay, FinishDraining
  <1>4. CancelQueued \/ UNCHANGED vars => UNCHANGED cargo
    BY DEF CancelQueued, vars
  <1>5. ASSUME NEW p \in Procs, DieDraining(p) PROVE UNCHANGED cargo
    BY <1>5 DEF DieDraining
  <1> QED BY <1>1, <1>2, <1>3, <1>4, <1>5, ProcFacts DEF Next, Idle, KillDrain, DropDrain

\* In both queue modes, and however batches are cut and merged again, a turn
\* only ever carries text of the security context of the message that leads it.
THEOREM ContextsNeverMix == Spec => []OneContextPerTurn
  <1>1. Init => OneContextPerTurn
    BY DEF Init, OneContextPerTurn
  <1>2. PermitInv /\ OneContextPerTurn /\ [Next]_vars => OneContextPerTurn'
    <2> SUFFICES ASSUME PermitInv, OneContextPerTurn, [Next]_vars
                 PROVE  OneContextPerTurn'
      OBVIOUS
    <2>1. CASE UNCHANGED cargo
      BY <2>1 DEF OneContextPerTurn
    <2>2. ASSUME NEW p \in Procs, TakeBatch(p) PROVE OneContextPerTurn'
      <3>1. PICK batch \in SUBSET Msgs, lead \in Msgs :
               /\ lead \in batch
               /\ \A m, k \in batch : Mode = "collect" => Context[m] = Context[k]
               /\ Mode = "followup" => batch = {lead}
               /\ \/ UNCHANGED cargo
                  \/ cargo' = [cargo EXCEPT ![lead] = UNION {cargo[m] : m \in batch}]
        BY <2>2, BatchFacts
      <3>2. \A m \in batch : Context[m] = Context[lead]
        BY <3>1, ChatTurnsAssumption
      <3>3. \A k \in UNION {cargo[m] : m \in batch} : Context[k] = Context[lead]
        BY <3>2, <3>1 DEF OneContextPerTurn
      <3>4. cargo \in [Msgs -> SUBSET Msgs]
        BY DEF PermitInv, TypeOK
      <3>5. \A m \in Msgs : m # lead \/ UNCHANGED cargo => cargo'[m] = cargo[m]
        BY <3>1, <3>4
      <3>6. cargo'[lead] \in {cargo[lead], UNION {cargo[m] : m \in batch}}
        BY <3>1, <3>4
      <3>7. \A k \in cargo'[lead] : Context[k] = Context[lead]
        BY <3>3, <3>6 DEF OneContextPerTurn
      <3> QED BY <3>5, <3>7 DEF OneContextPerTurn
    <2> QED BY <2>1, <2>2, CargoKept
  <1> QED BY <1>1, <1>2, AlwaysPermitInv, PTL DEF Spec

-----------------------------------------------------------------------------
(* Who leaves the queue to nobody.                                         *)

\* Only a run that has a task is listed, and so told to abort; the abort that
\* told it waits for its permit until the task is gone, unless it is dropped.
CancelInv ==
    /\ \A m \in runs : stage[m] \in TaskStages \cup Finished
    /\ \A m \in cancel : /\ abort[m] # "none"
                         /\ stage[m] \in TaskStages => abort[m] \in {"waiting", "gone"}

\* A queue entry is reserved only while somebody drains, or once a drainer died.
ReservedInv == slot = "draining" => \E p \in Procs : drain[p] # "off"

\* A message moves forward: what has a task keeps it until the task ends, and
\* what has ended stays so; only a batch merges messages.
LEMMA StageMoves ==
    ASSUME PermitInv, [Next]_vars
    PROVE  /\ \A k \in Msgs : \/ stage'[k] = stage[k]
                              \/ stage[k] \in BeforeRun
                              \/ stage[k] \in TaskStages /\ stage'[k] \in TaskStages \cup Finished
           /\ \A k \in Msgs : stage'[k] \in TaskStages => stage[k] \in TaskStages \cup {"setup"}
           /\ \A k \in Msgs : stage'[k] = "merged" /\ stage[k] # "merged"
                              => \E p \in Procs : TakeBatch(p)
  <1> DEFINE Good(k) == /\ \/ stage'[k] = stage[k]
                           \/ stage[k] \in BeforeRun
                           \/ stage[k] \in TaskStages /\ stage'[k] \in TaskStages \cup Finished
                        /\ stage'[k] \in TaskStages => stage[k] \in TaskStages \cup {"setup"}
                        /\ stage'[k] = "merged" /\ stage[k] # "merged"
                           => \E p \in Procs : TakeBatch(p)
  <1> SUFFICES ASSUME NEW k \in Msgs PROVE Good(k)
    OBVIOUS
  <1>0. stage \in [Msgs -> Stages]
    BY DEF PermitInv, TypeOK
  <1> USE <1>0
  <1>a. ASSUME stage'[k] # stage[k]
                 => /\ stage[k] \in BeforeRun
                    /\ stage'[k] \in {"queued", "inhand", "setup", "busy", "cancelled",
                                      "unstarted", "dropped", "refused", "abandoned", "lost"}
        PROVE  Good(k)
    BY <1>a DEF TaskStages, BeforeRun
  <1>b. ASSUME NEW m \in Msgs, NEW from \in TaskStages, NEW to \in TaskStages \cup Finished,
               stage[m] = from, stage' = [stage EXCEPT ![m] = to]
        PROVE  Good(k)
    BY <1>b DEF TaskStages, Finished
  <1> HIDE DEF Good
  <1>1. ASSUME NEW m \in Msgs, Arrive(m) \/ ArriveSync(m) PROVE Good(k)
    <2>1. stage[m] = "new" /\ \E to \in {"setup", "queued", "busy"} :
                                  stage' = [stage EXCEPT ![m] = to]
      BY <1>1 DEF Arrive, ArriveSync
    <2> QED BY <2>1, <1>a DEF BeforeRun
  <1>2. ASSUME CancelQueued PROVE Good(k)
    <2>1. stage'[k] # stage[k] => stage[k] = "queued" /\ stage'[k] = "cancelled"
      BY <1>2 DEF CancelQueued, PermitInv, QueueInv
    <2> QED BY <2>1, <1>a DEF BeforeRun
  <1>3. ASSUME NEW m \in Msgs, StartRun(m) PROVE Good(k)
    BY <1>3 DEF StartRun, Good, BeforeRun
  <1>4. ASSUME NEW m \in Msgs, FailSetup(m) \/ DropSend(m) PROVE Good(k)
    <2>1. stage[m] = "setup" /\ \E to \in {"unstarted", "dropped"} :
                                    stage' = [stage EXCEPT ![m] = to]
      BY <1>4 DEF FailSetup, DropSend
    <2> QED BY <2>1, <1>a DEF BeforeRun
  <1>5. ASSUME NEW m \in Msgs,
               \/ BeginRun(m) \/ CommitSuccess(m) \/ PersistAssistant(m)
               \/ BroadcastFinal(m) \/ CommitError(m) \/ BroadcastError(m)
               \/ EndSilently(m) \/ Unlist(m) \/ Unmap(m) \/ ReleaseRun(m)
               \/ Kill(m) \/ Panic(m)
        PROVE  Good(k)
    <2>1. \E from \in TaskStages, to \in TaskStages \cup Finished :
              stage[m] = from /\ stage' = [stage EXCEPT ![m] = to]
      BY <1>5 DEF BeginRun, CommitSuccess, PersistAssistant, BroadcastFinal, CommitError,
                  BroadcastError, EndSilently, Unlist, Unmap, ReleaseRun, Kill, Panic,
                  TaskDies, InTask, TaskStep, TaskStages, Finished
    <2> QED BY <2>1, <1>b
  <1>6. ASSUME NEW m \in Msgs,
               ClaimAbort(m) \/ CleanupAbort(m) \/ DropWait(m) \/ DropCleanup(m)
        PROVE  Good(k)
    <2>1. stage' = stage
      BY <1>6 DEF ClaimAbort, CleanupAbort, DropWait, DropCleanup
    <2> QED BY <2>1, <1>a
  <1>7. ASSUME NEW p \in Procs, DieDraining(p) PROVE Good(k)
    <2>1. stage'[k] # stage[k] => stage[k] \in {"setup", "inhand"} /\ stage'[k] = "lost"
      BY <1>7, DieFacts
    <2> QED BY <2>1, <1>a DEF BeforeRun
  <1>8. ASSUME NEW p \in Procs, TakeBatch(p) PROVE Good(k)
    <2>1. PICK batch \in SUBSET Msgs, lead \in Msgs :
             /\ \A m \in batch : stage[m] = "queued"
             /\ \A m \in Msgs : m \notin batch => stage'[m] = stage[m]
             /\ \/ \A m \in batch : stage'[m] = "abandoned"
                \/ /\ stage'[lead] = "inhand"
                   /\ \A m \in batch : m # lead => stage'[m] = "merged"
      BY <1>8, BatchFacts
    <2>2. stage'[k] # stage[k] => /\ stage[k] = "queued"
                                  /\ stage'[k] \in {"abandoned", "inhand", "merged"}
      BY <2>1
    <2> QED BY <2>2, <1>8 DEF Good, BeforeRun, TaskStages
  <1>9. ASSUME NEW p \in Procs, Replay(p) \/ RefuseReplay(p) PROVE Good(k)
    <2>1. stage'[k] # stage[k]
              => stage[k] = "inhand" /\ stage'[k] \in {"setup", "queued", "refused"}
      BY <1>9 DEF Replay, RefuseReplay, PermitInv, HandInv
    <2> QED BY <2>1, <1>a DEF BeforeRun
  <1>10. ASSUME NEW p \in Procs, TakeNothing(p) \/ FinishDraining(p) PROVE Good(k)
    BY <1>10, <1>a DEF TakeNothing, FinishDraining
  <1>11. ASSUME UNCHANGED vars PROVE Good(k)
    BY <1>11, <1>a DEF vars
  <1>12. ASSUME NEW m \in Msgs, TurnStep(m) PROVE Good(k)
    BY <1>12, <1>3, <1>4, <1>5, <1>6 DEF TurnStep
  <1>13. ASSUME NEW p \in Procs, DrainStep(p) PROVE Good(k)
    BY <1>13, <1>8, <1>9, <1>10 DEF DrainStep
  <1> QED BY <1>1, <1>2, <1>4, <1>5, <1>6, <1>7, <1>11, <1>12, <1>13, ProcFacts
          DEF Next, Idle, KillDrain, DropDrain

\* An abort call goes from its claim over its wait to its cleanup and its end,
\* unless it is dropped on the way.
LEMMA AbortMoves ==
    ASSUME PermitInv, [Next]_vars
    PROVE  \A k \in Msgs : \/ abort'[k] = abort[k]
                           \/ abort[k] = "none" /\ ClaimAbort(k)
                           \/ abort[k] = "waiting" /\ abort'[k] = "cleanup"
                           \/ abort[k] = "waiting" /\ abort'[k] = "gone"
                           \/ abort[k] = "cleanup" /\ abort'[k] \in {"done", "cut"}
  <1> DEFINE Good(k) == \/ abort'[k] = abort[k]
                        \/ abort[k] = "none" /\ ClaimAbort(k)
                        \/ abort[k] = "waiting" /\ abort'[k] = "cleanup"
                        \/ abort[k] = "waiting" /\ abort'[k] = "gone"
                        \/ abort[k] = "cleanup" /\ abort'[k] \in {"done", "cut"}
  <1> SUFFICES ASSUME NEW k \in Msgs PROVE Good(k)
    OBVIOUS
  <1>0. abort \in [Msgs -> AbortStates]
    BY DEF PermitInv, TypeOK, AbortStates
  <1> USE <1>0
  <1>a. ASSUME abort' = abort PROVE Good(k)
    BY <1>a
  <1>b. ASSUME NEW m \in Msgs, stage[m] \in Holding, ReleasePermit(abort) PROVE Good(k)
    BY <1>b, TurnReleases
  <1>1. ASSUME NEW m \in Msgs, ClaimAbort(m) PROVE Good(k)
    <2>1. abort[m] = "none" /\ (k # m => abort'[k] = abort[k])
      BY <1>1 DEF ClaimAbort, PermitInv, ClaimInv
    <2> QED BY <1>1, <2>1
  <1>2. ASSUME NEW m \in Msgs, CleanupAbort(m) \/ DropCleanup(m) PROVE Good(k)
    <2>1. PICK to \in {"done", "cut"} : CleanupEnds(m, to)
      BY <1>2, CleanupEndings
    <2> QED BY <2>1, CleanupReleases
  <1>9. ASSUME NEW m \in Msgs, DropWait(m) PROVE Good(k)
    BY <1>9 DEF DropWait
  <1> HIDE DEF Good
  <1>3. ASSUME NEW m \in Msgs,
               FailSetup(m) \/ DropSend(m) \/ ReleaseRun(m) \/ Kill(m) \/ Panic(m)
        PROVE  Good(k)
    <2>1. stage[m] \in Holding /\ ReleasePermit(abort)
      BY <1>3 DEF FailSetup, FinishUnstarted, DropSend, ReleaseRun, TaskStep, Kill, Panic,
                  TaskDies, Holding, TaskStages
    <2> QED BY <2>1, <1>b
  <1>4. ASSUME NEW p \in Procs, DieDraining(p) PROVE Good(k)
    <2>1. CASE UNCHANGED abort
      BY <2>1, <1>a
    <2>2. ASSUME NEW m \in Msgs, stage[m] = "setup", ReleasePermit(abort) PROVE Good(k)
      BY <2>2, <1>b DEF Holding
    <2> QED BY <1>4, <2>1, <2>2, DieFacts
  <1>5. ASSUME NEW m \in Msgs,
               \/ Arrive(m) \/ ArriveSync(m) \/ StartRun(m)
               \/ BeginRun(m) \/ CommitSuccess(m) \/ PersistAssistant(m)
               \/ BroadcastFinal(m) \/ CommitError(m) \/ BroadcastError(m)
               \/ EndSilently(m) \/ Unlist(m) \/ Unmap(m)
        PROVE  Good(k)
    BY <1>5, <1>a DEF Arrive, ArriveSync, StartRun, BeginRun, CommitSuccess,
                PersistAssistant, BroadcastFinal, CommitError, BroadcastError, EndSilently,
                Unlist, Unmap, InTask
  <1>6. ASSUME NEW p \in Procs, DrainStep(p) PROVE Good(k)
    BY <1>6, <1>a DEF DrainStep, TakeBatch, TakeNothing, Replay, RefuseReplay, FinishDraining
  <1>7. ASSUME CancelQueued \/ UNCHANGED vars PROVE Good(k)
    BY <1>7, <1>a DEF CancelQueued, vars
  <1>8. ASSUME NEW m \in Msgs, TurnStep(m) PROVE Good(k)
    BY <1>8, <1>2, <1>3, <1>5 DEF TurnStep
  <1> QED BY <1>1, <1>2, <1>3, <1>4, <1>5, <1>6, <1>7, <1>8, <1>9, ProcFacts
          DEF Next, Idle, KillDrain, DropDrain

\* Only a claim tells a task to abort, and only its start lists a run.
LEMMA ListMoves ==
    ASSUME PermitInv, [Next]_vars
    PROVE  /\ UNCHANGED cancel \/ \E m \in Msgs : ClaimAbort(m)
           /\ \A k \in runs' : k \in runs \/ stage'[k] = "registered"
  <1>0. stage \in [Msgs -> Stages] /\ runs \subseteq Msgs
    BY DEF PermitInv, TypeOK
  <1>1. ASSUME NEW m \in Msgs, \/ Arrive(m) \/ ArriveSync(m) \/ Panic(m)
                                \/ DropSend(m) \/ DropWait(m) \/ DropCleanup(m)
        PROVE  UNCHANGED <<cancel, runs>>
    BY <1>1 DEF Arrive, ArriveSync, Panic, TaskDies, DropSend, DropWait, DropCleanup, turnVars
  <1>2. ASSUME NEW m \in Msgs, StartRun(m)
        PROVE  UNCHANGED cancel /\ \A k \in runs' : k \in runs \/ stage'[k] = "registered"
    BY <1>2, <1>0 DEF StartRun, RegisterRun
  <1>3. ASSUME NEW m \in Msgs, TurnStep(m), ~StartRun(m)
        PROVE  UNCHANGED cancel /\ runs' \subseteq runs
    BY <1>3 DEF TurnStep, FailSetup, BeginRun, CommitSuccess,
                PersistAssistant, BroadcastFinal, CommitError, BroadcastError, EndSilently,
                Unlist, Unmap, ReleaseRun, Kill, TaskDies, InTask, TaskStep, CleanupAbort,
                turnVars
  <1>4. ASSUME NEW p \in Procs, DrainStep(p) PROVE UNCHANGED <<cancel, runs>>
    BY <1>4 DEF DrainStep, TakeBatch, TakeNothing, Replay, RefuseReplay, FinishDraining,
                turnVars
  <1>5. CancelQueued \/ UNCHANGED vars => UNCHANGED <<cancel, runs>>
    BY DEF CancelQueued, vars, turnVars
  <1>6. ASSUME NEW m \in Msgs, ClaimAbort(m) PROVE runs' \subseteq runs
    BY <1>6 DEF ClaimAbort
  <1>7. ASSUME NEW p \in Procs, DieDraining(p) PROVE UNCHANGED <<cancel, runs>>
    BY <1>7 DEF DieDraining
  <1> QED BY <1>1, <1>2, <1>3, <1>4, <1>5, <1>6, <1>7, ProcFacts
          DEF Next, Idle, KillDrain, DropDrain

\* Every step preserves the invariant of the cancelled runs.
LEMMA NextCancelInv == PermitInv /\ CancelInv /\ [Next]_vars => CancelInv'
  <1> SUFFICES ASSUME PermitInv, CancelInv, [Next]_vars PROVE CancelInv'
    OBVIOUS
  <1>0. PermitInv'
    BY NextPermitInv
  <1>1. /\ stage \in [Msgs -> Stages] /\ abort \in [Msgs -> AbortStates]
        /\ runs \subseteq Msgs /\ cancel \subseteq Msgs /\ runs' \subseteq Msgs
        /\ cancel' \subseteq Msgs
    BY <1>0 DEF PermitInv, TypeOK, AbortStates
  <1>2. \A m \in runs' : stage'[m] \in TaskStages \cup Finished
    <2>1. \A m \in runs : stage'[m] \in TaskStages \cup Finished
      <3>1. \A m \in runs : stage[m] \in TaskStages \cup Finished /\ stage[m] \notin BeforeRun
        BY DEF CancelInv, BeforeRun, TaskStages, Finished
      <3> QED BY <3>1, <1>1, StageMoves
    <2> QED BY <2>1, <1>1, ListMoves DEF TaskStages
  <1>3. ASSUME NEW m \in cancel'
        PROVE  /\ abort'[m] # "none"
               /\ stage'[m] \in TaskStages => abort'[m] \in {"waiting", "gone"}
    <2>1. CASE m \in cancel
      <3>1. /\ m \in Msgs /\ abort[m] # "none"
            /\ stage[m] \in TaskStages => abort[m] \in {"waiting", "gone"}
        BY <2>1, <1>1 DEF CancelInv
      <3>2. \/ abort'[m] = abort[m]
            \/ abort[m] = "waiting" /\ abort'[m] = "cleanup"
            \/ abort[m] = "waiting" /\ abort'[m] = "gone"
            \/ abort[m] = "cleanup" /\ abort'[m] \in {"done", "cut"}
        BY <3>1, AbortMoves
      <3>3. ASSUME stage'[m] \in TaskStages PROVE abort'[m] \in {"waiting", "gone"}
        <4>1. stage[m] # "setup"
          BY <3>1 DEF PermitInv, ClaimInv, BeforeRun
        <4>2. abort[m] \in {"waiting", "gone"}
          BY <3>1, <3>3, <4>1, StageMoves
        <4>3. abort'[m] # "cleanup"
          BY <3>1, <3>3, <1>0, ProcFacts DEF PermitInv, PermitExclusion, Holding
        <4> QED BY <3>2, <4>2, <4>3
      <3> QED BY <3>1, <3>2, <3>3
    <2>2. CASE m \notin cancel
      <3>1. PICK c \in Msgs : ClaimAbort(c)
        BY <2>2, <1>3, ListMoves
      <3>2. c = m /\ m \in runs /\ stage[m] \notin Finished /\ stage' = stage
        BY <3>1, <2>2, <1>3 DEF ClaimAbort
      <3>3. stage[m] \in TaskStages
        BY <3>2 DEF CancelInv
      <3>4. holder = Turn(m) /\ holder # Nobody
        BY <3>3, <1>3, <1>1, NoCleanup, ProcFacts DEF Holding
      <3>5. abort' = [abort EXCEPT ![m] = "waiting"]
        BY <3>1, <3>2, <3>4 DEF ClaimAbort
      <3> QED BY <3>5, <1>1, <1>3
    <2> QED BY <2>1, <2>2
  <1> QED BY <1>2, <1>3 DEF CancelInv

\* Who stops draining, who reserves the queue entry; and a dead drainer stays dead.
LEMMA DrainMoves ==
    ASSUME PermitInv, DrainInv, [Next]_vars
    PROVE  /\ \A p \in Procs : drain[p] # "off" /\ drain'[p] = "off" => FinishDraining(p)
           /\ \A p \in Procs : drain[p] = "dead" => drain'[p] = "dead"
           /\ slot' = "draining" => slot = "draining" \/ \E p \in Procs : drain'[p] # "off"
  <1>0. drain \in [Procs -> DrainStates]
    BY DEF PermitInv, TypeOK
  <1> USE <1>0
  <1> DEFINE Good ==
        /\ \A p \in Procs : drain[p] # "off" /\ drain'[p] = "off" => FinishDraining(p)
        /\ \A p \in Procs : drain[p] = "dead" => drain'[p] = "dead"
        /\ slot' = "draining" => slot = "draining" \/ \E p \in Procs : drain'[p] # "off"
  <1>a. ASSUME UNCHANGED drain, slot' = "draining" => slot = "draining" PROVE Good
    BY <1>a
  <1>1. ASSUME NEW m \in Msgs,
               \/ Arrive(m) \/ ArriveSync(m) \/ ClaimAbort(m) \/ Panic(m) \/ Kill(m)
               \/ DropSend(m) \/ DropWait(m) \/ DropCleanup(m)
               \/ BeginRun(m) \/ CommitSuccess(m) \/ PersistAssistant(m)
               \/ BroadcastFinal(m) \/ CommitError(m) \/ BroadcastError(m)
               \/ EndSilently(m) \/ Unlist(m) \/ Unmap(m)
        PROVE  Good
    <2>1. UNCHANGED drain /\ slot' \in {slot, "idle"}
      BY <1>1 DEF Arrive, ArriveSync, ClaimAbort, Panic, Kill, TaskDies, BeginRun,
                  CommitSuccess, PersistAssistant, BroadcastFinal, CommitError,
                  BroadcastError, EndSilently, Unlist, Unmap, InTask, TaskStep, OpenSlot,
                  DropSend, DropWait, DropCleanup, drainVars
    <2> QED BY <2>1, <1>a
  <1>2. ASSUME CancelQueued \/ UNCHANGED vars PROVE Good
    <2>1. UNCHANGED drain /\ slot' \in {slot, "absent"}
      BY <1>2 DEF CancelQueued, vars, drainVars
    <2> QED BY <2>1, <1>a
  <1>3. ASSUME NEW m \in Msgs, StartRun(m) PROVE Good
    <2>1. /\ slot' = slot
          /\ \A q \in Procs : \/ drain'[q] = drain[q]
                              \/ drain[q] = "sending" /\ drain'[q] = "finish"
      BY <1>3 DEF StartRun, DrainInv
    <2> QED BY <2>1, ProcFacts
  <1>4. ASSUME NEW m \in Msgs, FailSetup(m) PROVE Good
    <2>1. stage[m] = "setup" /\ drain[Turn(m)] = "off"
      BY <1>4 DEF FailSetup, DrainInv, BeforeRun
    <2>2. /\ slot' = slot
          /\ \A q \in Procs : \/ drain'[q] = drain[q]
                              \/ drain[q] \in {"off", "sending"} /\ drain'[q] = "take"
      BY <1>4, <2>1, ProcFacts DEF FailSetup, FinishUnstarted, DrainInv
    <2> QED BY <2>2
  <1>5. ASSUME NEW m \in Msgs, ReleaseRun(m) PROVE Good
    <2>1. /\ slot' = slot /\ drain' = [drain EXCEPT ![Turn(m)] = "take"]
          /\ stage[m] = "unmapped"
      BY <1>5 DEF ReleaseRun, TaskStep
    <2>2. drain[Turn(m)] = "off"
      BY <2>1 DEF DrainInv, TaskStages
    <2> QED BY <2>1, <2>2
  <1>6. ASSUME NEW m \in Msgs, CleanupAbort(m) PROVE Good
    <2>1. /\ slot' = slot /\ drain' = [drain EXCEPT ![Abort(m)] = "take"]
          /\ abort[m] = "cleanup"
      BY <1>6 DEF CleanupAbort
    <2>2. drain[Abort(m)] = "off"
      BY <2>1 DEF DrainInv
    <2> QED BY <2>1, <2>2
  <1>7. ASSUME NEW p \in Procs, DieDraining(p) PROVE Good
    BY <1>7 DEF DieDraining
  <1>8. ASSUME NEW p \in Procs, TakeBatch(p) \/ TakeNothing(p) \/ Replay(p) \/ RefuseReplay(p)
        PROVE  Good
    <2>1. /\ drain[p] \in {"take", "replay"}
          /\ UNCHANGED drain \/ \E to \in {"replay", "finish", "sending", "take"} :
                                    drain' = [drain EXCEPT ![p] = to]
      <3>1. CASE TakeBatch(p)
        BY <3>1, BatchFacts DEF TakeBatch
      <3>2. CASE TakeNothing(p) \/ Replay(p) \/ RefuseReplay(p)
        BY <3>2 DEF TakeNothing, Replay, RefuseReplay
      <3> QED BY <3>1, <3>2, <1>8
    <2>2. drain'[p] # "off" /\ \A q \in Procs : q # p => drain'[q] = drain[q]
      BY <2>1
    <2> QED BY <2>1, <2>2, ProcFacts
  <1>9. ASSUME NEW p \in Procs, FinishDraining(p) PROVE Good
    <2>1. /\ slot' \in {"absent", "idle"} /\ drain[p] = "finish"
          /\ drain' = [drain EXCEPT ![p] = "off"]
      BY <1>9 DEF FinishDraining
    <2> QED BY <1>9, <2>1, ProcFacts
  <1> HIDE DEF Good
  <1>10. ASSUME NEW m \in Msgs, TurnStep(m) PROVE Good
    BY <1>10, <1>1, <1>3, <1>4, <1>5, <1>6 DEF TurnStep
  <1>11. ASSUME NEW p \in Procs, DrainStep(p) PROVE Good
    BY <1>11, <1>8, <1>9 DEF DrainStep
  <1>12. Good
    BY <1>1, <1>2, <1>7, <1>10, <1>11, ProcFacts DEF Next, Idle, KillDrain, DropDrain
  <1> QED BY <1>12 DEF Good

\* Every step preserves the meaning of the reservation.
LEMMA NextReservedInv == PermitInv /\ DrainInv /\ ReservedInv /\ [Next]_vars => ReservedInv'
  <1> SUFFICES ASSUME PermitInv, DrainInv, ReservedInv, [Next]_vars, slot' = "draining"
               PROVE  \E p \in Procs : drain'[p] # "off"
    BY DEF ReservedInv
  <1>1. ASSUME NEW p \in Procs, drain[p] # "off", drain'[p] = "off" PROVE FALSE
    <2>1. FinishDraining(p)
      BY <1>1, DrainMoves
    <2> QED BY <2>1 DEF FinishDraining
  <1> QED BY <1>1, DrainMoves DEF ReservedInv

\* The invariants of the drain hold together in every reachable state.
LEMMA AlwaysReserved == Spec => [](PermitInv /\ DrainInv /\ CancelInv /\ ReservedInv)
  <1>1. Init => CancelInv /\ ReservedInv
    BY DEF Init, CancelInv, ReservedInv
  <1> QED BY <1>1, NextCancelInv, NextReservedInv, AlwaysDrainInv, PTL DEF Spec

\* A step that leaves waiting messages to nobody.
Strands == Unattended' /\ ~Unattended

\* The steps that may do that.
Excepted ==
    \/ \E m \in Msgs : \/ Panic(m) \/ KillDrain(m) \/ DropSend(m) \/ DropCleanup(m)
                       \/ Kill(m) /\ abort[m] = "gone"
    \/ \E p \in Procs : FinishDraining(p) \/ DropDrain(p)
    \/ /\ slot = "draining"
       /\ \E p \in Procs : drain[p] = "dead"
       /\ \E m \in Msgs : Arrive(m)

\* No other does: a run, an abort or a failed turn that ends begins to drain, a
\* killed task leaves its permit to the abort that waits for it, and a message is
\* queued only behind somebody, or behind the mark of a drainer that died.
LEMMA WhoStrands ==
    ASSUME PermitInv, DrainInv, CancelInv, ReservedInv, [Next]_vars, Strands, ~Excepted
    PROVE  FALSE
  <1>0. /\ drain \in [Procs -> DrainStates]
        /\ queue' # <<>> /\ holder' = Nobody
        /\ \A p \in Procs : drain'[p] \in {"off", "dead"}
        /\ \/ queue = <<>> \/ holder # Nobody
           \/ \E p \in Procs : drain[p] \notin {"off", "dead"}
    BY DEF PermitInv, TypeOK, Strands, Unattended, Draining
  <1> USE <1>0
  <1>1. ASSUME NEW m \in Msgs, Arrive(m) PROVE FALSE
    <2>1. Admission(m, FALSE) # "acquired" /\ UNCHANGED <<holder, drain>>
      BY <1>1, ProcFacts DEF Arrive, drainVars
    <2>2. slot = "draining" \/ queue # <<>>
      BY <2>1 DEF Admission
    <2>3. slot = "draining" => \E p \in Procs : drain[p] = "dead"
      BY <2>1 DEF ReservedInv
    <2> QED BY <1>1, <2>1, <2>2, <2>3 DEF Excepted
  <1>2. ASSUME NEW m \in Msgs, ArriveSync(m) \/ ClaimAbort(m) PROVE FALSE
    BY <1>2, ProcFacts DEF ArriveSync, ClaimAbort, drainVars
  <1>3. ASSUME CancelQueued \/ UNCHANGED vars PROVE FALSE
    BY <1>3 DEF CancelQueued, vars
  <1>4. ASSUME NEW m \in Msgs,
               \/ StartRun(m) \/ BeginRun(m) \/ CommitSuccess(m) \/ PersistAssistant(m)
               \/ BroadcastFinal(m) \/ CommitError(m) \/ BroadcastError(m)
               \/ EndSilently(m) \/ Unlist(m) \/ Unmap(m)
        PROVE  FALSE
    <2>1. stage[m] \in Holding /\ holder' = holder
      BY <1>4 DEF StartRun, BeginRun, CommitSuccess, PersistAssistant, BroadcastFinal,
                  CommitError, BroadcastError, EndSilently, Unlist, Unmap, InTask, TaskStep,
                  Holding, TaskStages
    <2> QED BY <2>1, NoCleanup, ProcFacts
  <1>5. ASSUME NEW m \in Msgs, FailSetup(m) \/ ReleaseRun(m) \/ CleanupAbort(m)
        PROVE  FALSE
    <2>1. \E q \in Procs : drain' = [drain EXCEPT ![q] = "take"]
      <3>1. CASE FailSetup(m)
        <4>1. replayer[m] \in Procs \cup {Nobody}
          BY DEF PermitInv, TypeOK
        <4> QED BY <3>1, <4>1, ProcFacts DEF FailSetup, FinishUnstarted
      <3>2. CASE ReleaseRun(m) \/ CleanupAbort(m)
        BY <3>2, ProcFacts DEF ReleaseRun, CleanupAbort
      <3> QED BY <3>1, <3>2, <1>5
    <2> QED BY <2>1
  <1>6. ASSUME NEW m \in Msgs, Kill(m) PROVE FALSE
    <2>1. m \in cancel /\ stage[m] \in TaskStages /\ ReleasePermit(abort)
      BY <1>6 DEF Kill, TaskDies
    <2>2. abort[m] = "waiting"
      BY <1>6, <2>1 DEF CancelInv, Excepted
    <2>3. waiters # <<>>
      BY <2>2 DEF PermitInv, WaitInv, ToSet
    <2>4. \E h \in Msgs : holder' = Abort(h)
      BY <2>1, <2>3, TurnReleases DEF Holding
    <2> QED BY <2>4, ProcFacts
  <1>7. ASSUME NEW m \in Msgs, DropWait(m) PROVE FALSE
    BY <1>7 DEF DropWait, drainVars
  <1>8. ASSUME NEW p \in Procs, DrainStep(p), ~FinishDraining(p) PROVE FALSE
    <2>1. CASE TakeBatch(p)
      <3>1. drain[p] = "take"
        BY <2>1 DEF TakeBatch
      <3>2. drain' = drain \/ drain' = [drain EXCEPT ![p] = "replay"]
        BY <2>1, BatchFacts
      <3> QED BY <3>1, <3>2
    <2>2. CASE TakeNothing(p) \/ Replay(p) \/ RefuseReplay(p)
      <3>1. \E to \in {"finish", "sending", "take"} : drain' = [drain EXCEPT ![p] = to]
        BY <2>2 DEF TakeNothing, Replay, RefuseReplay
      <3> QED BY <3>1
    <2> QED BY <2>1, <2>2, <1>8 DEF DrainStep
  <1>9. ASSUME NEW m \in Msgs, TurnStep(m) PROVE FALSE
    BY <1>9, <1>4, <1>5, <1>6 DEF TurnStep
  <1> QED BY <1>1, <1>2, <1>3, <1>7, <1>8, <1>9 DEF Next, Idle, Excepted

\* No end of a run, of an abort, of a failed turn or of a killed task leaves
\* waiting messages to nobody.  What does is a panic, a call that is dropped or
\* killed with the drain it owed, the kill of a run whose abort was dropped, a
\* drainer that finishes after a message arrived behind it, and an arrival behind
\* the mark of a drainer that died.
THEOREM QueueIsHandedOver == Spec => EndsHandOver
  <1>1. PermitInv /\ DrainInv /\ CancelInv /\ ReservedInv /\ [Next]_vars
        => [Unattended' /\ ~Unattended
               => \/ \E m \in Msgs : \/ Panic(m) \/ KillDrain(m)
                                     \/ DropSend(m) \/ DropCleanup(m)
                                     \/ Kill(m) /\ abort[m] = "gone"
                  \/ \E p \in Procs : FinishDraining(p) \/ DropDrain(p)
                  \/ /\ slot = "draining"
                     /\ \E p \in Procs : drain[p] = "dead"
                     /\ \E m \in Msgs : Arrive(m)]_vars
    BY WhoStrands DEF Strands, Excepted
  <1> QED BY <1>1, AlwaysReserved, PTL DEF Spec, EndsHandOver

-----------------------------------------------------------------------------
(* No message lost, none doubled.                                          *)

\* The messages that carry the text of m and have not been merged away.
Carriers(m) == {j \in Msgs : m \in cargo[j] /\ stage[j] # "merged"}

\* The text of every message is carried by exactly one message, by itself unless
\* it was merged.
CargoInv ==
    \A m \in Msgs : \E k \in Msgs : /\ stage[m] = "merged" <=> k # m
                                    /\ Carriers(m) = {k}

\* A batch hands all its text to its last message.
LEMMA BatchCargo ==
    ASSUME PermitInv, CargoInv, NEW p \in Procs, TakeBatch(p) PROVE CargoInv'
  <1>1. PICK batch \in SUBSET Msgs, lead \in Msgs :
             /\ lead \in batch
             /\ \A m \in batch : stage[m] = "queued"
             /\ \A m \in Msgs : m \notin batch => stage'[m] = stage[m]
             /\ \/ /\ \A m \in batch : stage'[m] = "abandoned"
                   /\ UNCHANGED cargo
                \/ /\ stage'[lead] = "inhand"
                   /\ \A m \in batch : m # lead => stage'[m] = "merged"
                   /\ cargo' = [cargo EXCEPT ![lead] = UNION {cargo[m] : m \in batch}]
    BY BatchFacts
  <1>2. cargo \in [Msgs -> SUBSET Msgs]
    BY DEF PermitInv, TypeOK
  <1>3. CASE UNCHANGED cargo /\ \A m \in batch : stage'[m] = "abandoned"
    <2>1. \A m \in Msgs : stage'[m] = "merged" <=> stage[m] = "merged"
      BY <1>1, <1>3
    <2>2. \A m \in Msgs : Carriers(m)' = Carriers(m)
      BY <2>1, <1>3 DEF Carriers
    <2> QED BY <2>1, <2>2 DEF CargoInv
  <1>4. CASE /\ stage'[lead] = "inhand"
             /\ \A m \in batch : m # lead => stage'[m] = "merged"
             /\ cargo' = [cargo EXCEPT ![lead] = UNION {cargo[m] : m \in batch}]
    <2> SUFFICES ASSUME NEW m \in Msgs
                 PROVE  \E k \in Msgs : /\ stage'[m] = "merged" <=> k # m
                                        /\ Carriers(m)' = {k}
      BY DEF CargoInv
    <2>1. PICK k \in Msgs : (stage[m] = "merged" <=> k # m) /\ Carriers(m) = {k}
      BY DEF CargoInv
    <2>2. /\ \A j \in Msgs : j # lead => cargo'[j] = cargo[j]
          /\ cargo'[lead] = UNION {cargo[b] : b \in batch}
      BY <1>2, <1>4
    <2>3. \A b \in batch : m \in cargo[b] <=> b = k
      <3>1. \A b \in batch : b \in Msgs /\ stage[b] # "merged"
        BY <1>1
      <3>2. \A b \in Msgs : stage[b] # "merged" => (m \in cargo[b] <=> b = k)
        BY <2>1 DEF Carriers
      <3> QED BY <3>1, <3>2
    <2>4. m \in cargo'[lead] <=> k \in batch
      BY <2>2, <2>3
    <2>5. \A j \in Msgs : j \notin batch => (j \in Carriers(m)' <=> j \in Carriers(m))
      BY <1>1, <2>2 DEF Carriers
    <2>6. \A j \in batch : j \in Carriers(m)' <=> j = lead /\ k \in batch
      BY <1>1, <1>4, <2>4 DEF Carriers
    <2>7. CASE k \in batch
      <3>1. Carriers(m)' = {lead}
        <4>1. \A j \in Carriers(m)' : j \in Msgs
          BY DEF Carriers
        <4> QED BY <4>1, <2>1, <2>5, <2>6, <2>7, <1>1
      <3>2. stage'[m] = "merged" <=> lead # m
        <4>1. CASE m \in batch
          BY <4>1, <1>4
        <4>2. CASE m \notin batch
          BY <4>2, <2>1, <2>7, <1>1
        <4> QED BY <4>1, <4>2
      <3> QED BY <3>1, <3>2
    <2>8. CASE k \notin batch
      <3>1. Carriers(m)' = {k}
        <4>1. \A j \in Carriers(m)' : j \in Msgs
          BY DEF Carriers
        <4> QED BY <4>1, <2>1, <2>5, <2>6, <2>8
      <3>2. m \notin batch
        BY <2>1, <2>8, <1>1
      <3> QED BY <3>1, <3>2, <2>1, <1>1
    <2> QED BY <2>7, <2>8
  <1> QED BY <1>1, <1>3, <1>4

\* Every step preserves it.
LEMMA NextCargoInv == PermitInv /\ CargoInv /\ [Next]_vars => CargoInv'
  <1> SUFFICES ASSUME PermitInv, CargoInv, [Next]_vars PROVE CargoInv'
    OBVIOUS
  <1>1. ASSUME NEW p \in Procs, TakeBatch(p) PROVE CargoInv'
    BY <1>1, BatchCargo
  <1>2. CASE ~\E p \in Procs : TakeBatch(p)
    <2>1. UNCHANGED cargo
      BY <1>2, CargoKept
    <2>2. \A m \in Msgs : stage'[m] = "merged" <=> stage[m] = "merged"
      BY <1>2, StageMoves DEF BeforeRun, TaskStages
    <2>3. \A m \in Msgs : Carriers(m)' = Carriers(m)
      BY <2>1, <2>2 DEF Carriers
    <2> QED BY <2>2, <2>3 DEF CargoInv
  <1> QED BY <1>1, <1>2

\* Every message is in exactly one place (the queue, one drainer's hand, a turn,
\* or a stage it never leaves), and its text is carried by exactly one message: no
\* batch, requeue, refusal, abort, kill, panic or dropped call doubles it, and what
\* is lost is what a drainer that died had in hand or in its send call.
THEOREM NothingLostOrDoubled == Spec => []ExactlyOnce
  <1>1. Init => CargoInv
    <2> SUFFICES ASSUME Init PROVE CargoInv
      OBVIOUS
    <2>1. \A m \in Msgs : Carriers(m) = {m}
      BY DEF Init, Carriers
    <2> QED BY <2>1 DEF Init, CargoInv
  <1>2. PermitInv /\ DrainInv /\ CargoInv => ExactlyOnce
    <2> SUFFICES ASSUME PermitInv, DrainInv, CargoInv PROVE ExactlyOnce
      OBVIOUS
    <2>1. \A i, j \in 1..Len(queue) : queue[i] = queue[j] => i = j
      BY DEF PermitInv, TypeOK, QueueInv, IsInjective
    <2>2. \A p \in Procs : hand[p] # Nobody
             => \/ drain[p] = "replay" /\ stage[hand[p]] = "inhand"
                \/ drain[p] = "dead" /\ stage[hand[p]] = "lost"
      BY DEF PermitInv, HandInv, DrainInv, HandsInv
    <2>3. \A m \in Msgs : stage[m] \in {"inhand", "lost"} => \E p \in Procs : hand[p] = m
      BY DEF DrainInv, HandsInv
    <2>4. \A m \in Msgs :
             /\ stage[m] = "inhand" <=> \E p \in Procs : Draining(p) /\ hand[p] = m
             /\ stage[m] = "lost" <=> \E p \in Procs : drain[p] = "dead" /\ hand[p] = m
      BY <2>2, <2>3, ProcFacts DEF Draining
    <2>5. \A p, q \in Procs : hand[p] = hand[q] /\ hand[p] # Nobody => p = q
      BY DEF PermitInv, HandInv
    <2>6. \A m \in Msgs : stage[m] = "queued" <=> m \in ToSet(queue)
      BY DEF PermitInv, QueueInv
    <2>7. \A m \in Msgs : \E k \in Msgs :
           /\ stage[m] = "merged" <=> k # m
           /\ {j \in Msgs : m \in cargo[j] /\ stage[j] # "merged"} = {k}
      BY DEF CargoInv, Carriers
    <2> QED BY <2>1, <2>4, <2>5, <2>6, <2>7 DEF ExactlyOnce
  <1> QED BY <1>1, <1>2, NextCargoInv, AlwaysDrainInv, PTL DEF Spec

-----------------------------------------------------------------------------
(* The stored conversation.                                                *)

\* The conversation ends with the user entry of m.
LastIsUser(m) == history # <<>> /\ history[Len(history)] = <<"user", m>>

\* From the moment a run is started until its assistant message is stored, or
\* its abort has kept the draft, its user entry is the last one.  For that, a
\* claimed run must not have committed, and its abort must be the next to hold
\* the permit.
HistoryInv ==
    /\ \A m \in terminal : stage[m] \in TaskStages \ {"registered", "running"}
    /\ \A m \in Msgs : bySession = m => stage[m] \in TaskStages \ {"unmapped"}
    /\ \A m \in Msgs : abort[m] = "waiting" => stage[m] \in TaskStages /\ m \notin terminal
    /\ \A m \in Msgs : stage[m] \in TaskStages /\ m \notin terminal => LastIsUser(m)
    /\ \A m \in Msgs : stage[m] = "committed" => LastIsUser(m)
    /\ \A m \in Msgs : abort[m] = "cleanup" /\ draft = m => LastIsUser(m)

\* A call that was dropped stays so; a step after which none was has dropped none.
LEMMA NoneDropped ==
    ASSUME PermitInv, DrainInv, [Next]_vars, ~CallDropped'
    PROVE  /\ ~CallDropped
           /\ \A m \in Msgs : ~DropSend(m) /\ ~DropWait(m) /\ ~DropCleanup(m) /\ ~KillDrain(m)
           /\ \A p \in Procs : ~DropDrain(p)
  <1>0. /\ stage \in [Msgs -> Stages] /\ abort \in [Msgs -> AbortStates]
        /\ drain \in [Procs -> DrainStates]
    BY DEF PermitInv, TypeOK
  <1>1. /\ \A m \in Msgs : stage'[m] # "dropped" /\ abort'[m] \notin {"gone", "cut"}
        /\ \A p \in Procs : drain'[p] # "dead"
    BY DEF CallDropped
  <1>2. \A m \in Msgs : stage[m] # "dropped"
    BY <1>1, StageMoves DEF BeforeRun, TaskStages
  <1>3. \A m \in Msgs : abort[m] \notin {"gone", "cut"}
    BY <1>1, AbortMoves
  <1>4. \A p \in Procs : drain[p] # "dead"
    BY <1>1, DrainMoves
  <1>5. \A m \in Msgs : ~DropSend(m)
    BY <1>0, <1>1 DEF DropSend
  <1>6. \A m \in Msgs : ~DropWait(m)
    BY <1>0, <1>1 DEF DropWait
  <1>7. ASSUME NEW m \in Msgs, DropCleanup(m) PROVE FALSE
    <2>1. CleanupEnds(m, "cut")
      BY <1>7 DEF DropCleanup, KeepPartial, CleanupEnds, drainVars
    <2> QED BY <2>1, <1>1, CleanupReleases
  <1>8. \A p \in Procs : ~DieDraining(p)
    BY <1>0, <1>1 DEF DieDraining
  <1> QED BY <1>2, <1>3, <1>4, <1>5, <1>6, <1>7, <1>8, ProcFacts
          DEF CallDropped, KillDrain, DropDrain

\* The steps that touch no run: arrivals, failed set-ups and drains.
LEMMA QuietHistory ==
    ASSUME PermitInv, HistoryInv,
           UNCHANGED <<bySession, terminal, draft, history, abort>>,
           \A k \in Msgs : stage[k] \in TaskStages => stage'[k] = stage[k],
           \A k \in Msgs : stage'[k] \in TaskStages => stage[k] \in TaskStages
    PROVE  HistoryInv'
  <1>1. terminal \subseteq Msgs
    BY DEF PermitInv, TypeOK
  <1>2. \A m \in Msgs : LastIsUser(m)' <=> LastIsUser(m)
    BY DEF LastIsUser
  <1> QED BY <1>1, <1>2 DEF HistoryInv, TaskStages

\* No abort waits while no task runs, and only its own run's abort while one does.
LEMMA WhoWaits ==
    ASSUME PermitInv, HistoryInv
    PROVE  \A m, k \in Msgs : abort[k] = "waiting" => /\ holder = Turn(k)
                                                      /\ stage[m] \in Holding => m = k
  BY ProcFacts DEF PermitInv, PermitExclusion, HistoryInv, Holding

\* The end of run m serves the abort of m or none.
LEMMA RunReleases ==
    ASSUME PermitInv, HistoryInv, NEW m \in Msgs, stage[m] \in Holding, ReleasePermit(abort)
    PROVE  /\ \A k \in Msgs : abort'[k] # "waiting"
           /\ \A k \in Msgs : abort'[k] = "cleanup" => k = m /\ abort[m] = "waiting"
  <1>0. /\ abort \in [Msgs -> AbortStates] /\ \A k \in Msgs : abort[k] # "cleanup"
        /\ \A k \in Msgs : abort[k] = "waiting" <=> k \in ToSet(waiters)
    BY NoCleanup
  <1>1. \A k \in Msgs : abort[k] = "waiting" => k = m
    BY WhoWaits
  <1>2. CASE abort' = abort /\ waiters = <<>>
    BY <1>0, <1>2 DEF ToSet
  <1>3. ASSUME NEW h \in Msgs, abort[h] = "waiting", abort' = [abort EXCEPT ![h] = "cleanup"]
        PROVE  /\ \A k \in Msgs : abort'[k] # "waiting"
               /\ \A k \in Msgs : abort'[k] = "cleanup" => k = m /\ abort[m] = "waiting"
    BY <1>0, <1>1, <1>3
  <1> QED BY <1>2, <1>3, TurnReleases

\* Every step preserves the invariant, unless a call is dropped, a task panics, or
\* a task runs on after it has been told to abort.
LEMMA NextHistoryInv ==
    ASSUME ~LateCancel, ~Panics
    PROVE  /\ PermitInv /\ DrainInv /\ AnnounceInv /\ WinInv /\ CancelInv
           /\ ~CallDropped => HistoryInv
           /\ [Next]_vars
           => (~CallDropped => HistoryInv)'
  <1> SUFFICES ASSUME PermitInv, DrainInv, AnnounceInv, WinInv, CancelInv,
                      ~CallDropped => HistoryInv, [Next]_vars, ~CallDropped'
               PROVE  HistoryInv'
    OBVIOUS
  <1>a. HistoryInv
    BY NoneDropped
  <1> USE <1>a
  <1>0. /\ stage \in [Msgs -> Stages] /\ abort \in [Msgs -> AbortStates]
        /\ terminal \subseteq Msgs
        /\ history \in Seq({"user", "assistant", "partial"} \X Msgs)
    BY DEF PermitInv, TypeOK, AbortStates
  <1> USE <1>0
  <1>1. ASSUME NEW m \in Msgs, Arrive(m) \/ ArriveSync(m) PROVE HistoryInv'
    <2>1. /\ UNCHANGED <<bySession, terminal, draft, history, abort>>
          /\ stage[m] = "new"
          /\ \E to \in {"setup", "queued", "busy"} : stage' = [stage EXCEPT ![m] = to]
      BY <1>1 DEF Arrive, ArriveSync, turnVars
    <2>2. /\ \A k \in Msgs : stage[k] \in TaskStages => stage'[k] = stage[k]
          /\ \A k \in Msgs : stage'[k] \in TaskStages => stage[k] \in TaskStages
      BY <2>1 DEF TaskStages
    <2> QED BY <2>1, <2>2, QuietHistory
  <1>2. ASSUME CancelQueued PROVE HistoryInv'
    <2>1. /\ UNCHANGED <<bySession, terminal, draft, history, abort>>
          /\ \A k \in Msgs : stage'[k] # stage[k]
                             => stage[k] = "queued" /\ stage'[k] = "cancelled"
      BY <1>2 DEF CancelQueued, turnVars, PermitInv, QueueInv
    <2>2. /\ \A k \in Msgs : stage[k] \in TaskStages => stage'[k] = stage[k]
          /\ \A k \in Msgs : stage'[k] \in TaskStages => stage[k] \in TaskStages
      BY <2>1 DEF TaskStages
    <2> QED BY <2>1, <2>2, QuietHistory
  <1>3. ASSUME NEW m \in Msgs, StartRun(m) PROVE HistoryInv'
    <2>1. /\ stage[m] = "setup" /\ stage' = [stage EXCEPT ![m] = "registered"]
          /\ history' = Append(history, <<"user", m>>)
          /\ bySession' = m /\ UNCHANGED <<terminal, draft, abort>>
      BY <1>3 DEF StartRun, RegisterRun
    <2>2. LastIsUser(m)'
      BY <2>1 DEF LastIsUser
    <2>3. /\ \A k \in Msgs : abort[k] # "cleanup" /\ (k # m => stage[k] \notin TaskStages)
          /\ abort[m] = "none" /\ m \notin terminal
      BY <2>1, NoCleanup DEF Holding, PermitInv, ClaimInv, BeforeRun, HistoryInv, TaskStages
    <2>4. \A k \in Msgs : stage'[k] = IF k = m THEN "registered" ELSE stage[k]
      BY <2>1
    <2>5. \A k \in Msgs : abort[k] # "waiting"
      BY <2>1, <2>3 DEF HistoryInv
    <2> QED BY <2>1, <2>2, <2>3, <2>4, <2>5 DEF HistoryInv, TaskStages
  <1>4. ASSUME NEW m \in Msgs, FailSetup(m) PROVE HistoryInv'
    <2>1. /\ stage[m] = "setup" /\ stage' = [stage EXCEPT ![m] = "unstarted"]
          /\ UNCHANGED <<bySession, terminal, draft, history>> /\ ReleasePermit(abort)
      BY <1>4 DEF FailSetup, FinishUnstarted, turnVars
    <2>2. \A k \in Msgs : abort[k] # "waiting"
      BY <2>1, WhoWaits DEF HistoryInv, Holding, TaskStages
    <2>3. abort' = abort
      BY <2>1, <2>2, TurnReleases DEF Holding
    <2>4. /\ \A k \in Msgs : stage[k] \in TaskStages => stage'[k] = stage[k]
          /\ \A k \in Msgs : stage'[k] \in TaskStages => stage[k] \in TaskStages
      BY <2>1 DEF TaskStages
    <2> QED BY <2>1, <2>3, <2>4, QuietHistory
  <1>5. ASSUME NEW m \in Msgs, NEW from \in TaskStages, NEW to \in TaskStages,
               InTask(m, from, to)
        PROVE  /\ stage[m] = from /\ m \notin cancel
               /\ \A k \in Msgs : stage'[k] = IF k = m THEN to ELSE stage[k]
               /\ \A k \in Msgs : abort[k] # "cleanup" /\ (k # m => stage[k] \notin TaskStages)
               /\ UNCHANGED abort
    <2>1. /\ stage[m] = from /\ m \notin cancel /\ stage' = [stage EXCEPT ![m] = to]
          /\ UNCHANGED abort
      BY <1>5 DEF InTask, TaskStep, CanStep
    <2> QED BY <2>1, NoCleanup DEF Holding
  <1>6. ASSUME NEW m \in Msgs, BeginRun(m) PROVE HistoryInv'
    <2>1. /\ InTask(m, "registered", "running")
          /\ UNCHANGED <<bySession, terminal, history>>
      BY <1>6 DEF BeginRun
    <2>2. /\ stage[m] = "registered" /\ m \notin cancel
          /\ \A k \in Msgs : stage'[k] = IF k = m THEN "running" ELSE stage[k]
          /\ \A k \in Msgs : abort[k] # "cleanup" /\ (k # m => stage[k] \notin TaskStages)
          /\ UNCHANGED abort
      BY <2>1, <1>5 DEF TaskStages
    <2>3. \A k \in Msgs : LastIsUser(k)' <=> LastIsUser(k)
      BY <2>1 DEF LastIsUser
    <2> QED BY <2>1, <2>2, <2>3 DEF HistoryInv, TaskStages
  <1>7. ASSUME NEW m \in Msgs, CommitSuccess(m) \/ CommitError(m) PROVE HistoryInv'
    <2>1. PICK to \in {"committed", "erroring"} :
             /\ InTask(m, "running", to)
             /\ terminal' = terminal \cup {m}
             /\ UNCHANGED <<bySession, draft, history>>
      BY <1>7 DEF CommitSuccess, CommitError
    <2>2. /\ stage[m] = "running" /\ m \notin cancel
          /\ \A k \in Msgs : stage'[k] = IF k = m THEN to ELSE stage[k]
          /\ \A k \in Msgs : abort[k] # "cleanup" /\ (k # m => stage[k] \notin TaskStages)
          /\ UNCHANGED abort
      BY <2>1, <1>5 DEF TaskStages
    <2>3. \A k \in Msgs : LastIsUser(k)' <=> LastIsUser(k)
      BY <2>1 DEF LastIsUser
    <2>4. LastIsUser(m)
      BY <2>2 DEF HistoryInv, TaskStages
    <2>5. abort[m] = "none"
      BY <2>2 DEF WinInv
    <2>6. \A k \in terminal : k # m
      BY <2>2 DEF HistoryInv
    <2> QED BY <2>1, <2>2, <2>3, <2>4, <2>5, <2>6 DEF HistoryInv, TaskStages
  <1>8. ASSUME NEW m \in Msgs, PersistAssistant(m) PROVE HistoryInv'
    <2>1. /\ InTask(m, "committed", "persisted")
          /\ UNCHANGED <<bySession, terminal, draft>>
      BY <1>8 DEF PersistAssistant
    <2>2. /\ stage[m] = "committed" /\ m \notin cancel
          /\ \A k \in Msgs : stage'[k] = IF k = m THEN "persisted" ELSE stage[k]
          /\ \A k \in Msgs : abort[k] # "cleanup" /\ (k # m => stage[k] \notin TaskStages)
          /\ UNCHANGED abort
      BY <2>1, <1>5 DEF TaskStages
    <2>3. m \in terminal
      BY <2>2 DEF AnnounceInv
    <2> QED BY <2>1, <2>2, <2>3 DEF HistoryInv, TaskStages
  <1>9. ASSUME NEW m \in Msgs,
               \/ BroadcastFinal(m) \/ BroadcastError(m) \/ EndSilently(m) \/ Unlist(m)
               \/ Unmap(m)
        PROVE  HistoryInv'
    <2>1. PICK from \in {"persisted", "erroring", "running", "settled", "unlisted"},
               to \in {"settled", "unlisted", "unmapped"} :
             /\ InTask(m, from, to)
             /\ UNCHANGED <<terminal, draft, history>>
             /\ bySession' = bySession \/ bySession' = Nobody
             /\ to = "unmapped" => bySession' # m
      BY <1>9, ProcFacts DEF BroadcastFinal, BroadcastError, EndSilently, Unlist, Unmap,
                             turnVars
    <2>2. /\ stage[m] = from /\ m \notin cancel
          /\ \A k \in Msgs : stage'[k] = IF k = m THEN to ELSE stage[k]
          /\ \A k \in Msgs : abort[k] # "cleanup" /\ (k # m => stage[k] \notin TaskStages)
          /\ UNCHANGED abort
      BY <2>1, <1>5 DEF TaskStages
    <2>3. \A k \in Msgs : LastIsUser(k)' <=> LastIsUser(k)
      BY <2>1 DEF LastIsUser
    <2>4. \A k \in Msgs : bySession' = k => bySession = k
      BY <2>1, ProcFacts
    <2>5. to \in TaskStages \ {"registered", "running", "committed"} /\ from \in TaskStages
      BY DEF TaskStages
    <2>6. \A k \in Msgs : bySession' = k => stage'[k] \in TaskStages \ {"unmapped"}
      BY <2>1, <2>2, <2>4, <2>5 DEF HistoryInv
    <2> QED BY <2>1, <2>2, <2>3, <2>5, <2>6 DEF HistoryInv
  <1>10. ASSUME NEW m \in Msgs, ReleaseRun(m) PROVE HistoryInv'
    <2>1. /\ stage[m] = "unmapped" /\ stage' = [stage EXCEPT ![m] = "done"]
          /\ terminal' = terminal \ {m} /\ draft' = Nobody
          /\ UNCHANGED <<bySession, history>> /\ ReleasePermit(abort)
      BY <1>10 DEF ReleaseRun, TaskStep
    <2>2. stage[m] \in Holding /\ stage[m] \in TaskStages
      BY <2>1 DEF Holding, TaskStages
    <2>3. \A k \in Msgs : k # m => stage[k] \notin TaskStages
      BY <2>2, NoCleanup DEF Holding
    <2>4. \A k \in Msgs : stage'[k] \notin TaskStages
      BY <2>1, <2>3 DEF TaskStages
    <2>5. \A k \in Msgs : abort'[k] # "waiting"
      BY <2>1, <2>2, RunReleases
    <2>6. \A k \in Msgs : bySession # k
      BY <2>1, <2>3 DEF HistoryInv
    <2>7. terminal' = {}
      BY <2>1, <2>3 DEF HistoryInv
    <2> QED BY <2>1, <2>4, <2>5, <2>6, <2>7, ProcFacts DEF HistoryInv, TaskStages
  <1>11. ASSUME NEW m \in Msgs, Kill(m) PROVE HistoryInv'
    <2>1. /\ stage[m] \in TaskStages /\ m \in cancel
          /\ stage' = [stage EXCEPT ![m] = "killed"]
          /\ UNCHANGED <<bySession, terminal, draft, history>> /\ ReleasePermit(abort)
      BY <1>11 DEF Kill, TaskDies, turnVars
    <2>2. stage[m] \in Holding
      BY <2>1 DEF Holding
    <2>3. \A k \in Msgs : k # m => stage[k] \notin TaskStages
      BY <2>2, NoCleanup DEF Holding
    <2>4. \A k \in Msgs : stage'[k] \notin TaskStages
      BY <2>1, <2>3 DEF TaskStages
    <2>5. abort[m] = "waiting" /\ m \notin terminal /\ LastIsUser(m)
      BY <2>1, NoneDropped DEF CancelInv, HistoryInv, CallDropped
    <2>6. /\ \A k \in Msgs : abort'[k] # "waiting"
          /\ \A k \in Msgs : abort'[k] = "cleanup" => k = m
      BY <2>1, <2>2, RunReleases
    <2>7. \A k \in Msgs : bySession # k
      BY <2>3, <2>5 DEF HistoryInv, PermitInv, ClaimInv
    <2>8. terminal = {}
      BY <2>3, <2>5 DEF HistoryInv
    <2>9. LastIsUser(m)'
      BY <2>1, <2>5 DEF LastIsUser
    <2> QED BY <2>1, <2>4, <2>6, <2>7, <2>8, <2>9 DEF HistoryInv, TaskStages
  <1>12. ASSUME NEW m \in Msgs, ClaimAbort(m) PROVE HistoryInv'
    <2>1. /\ bySession = m /\ m \notin terminal /\ bySession' = Nobody
          /\ UNCHANGED <<stage, terminal, draft, history>>
      BY <1>12 DEF ClaimAbort
    <2>2. stage[m] \in TaskStages
      BY <2>1 DEF HistoryInv
    <2>3. holder # Nobody /\ \A k \in Msgs : abort[k] # "cleanup"
      BY <2>2, NoCleanup, ProcFacts DEF Holding
    <2>4. abort' = [abort EXCEPT ![m] = "waiting"]
      BY <1>12, <2>3 DEF ClaimAbort
    <2>5. \A k \in Msgs : LastIsUser(k)' <=> LastIsUser(k)
      BY <2>1 DEF LastIsUser
    <2> QED BY <2>1, <2>2, <2>3, <2>4, <2>5, ProcFacts DEF HistoryInv
  <1>13. ASSUME NEW m \in Msgs, CleanupAbort(m) PROVE HistoryInv'
    <2>1. abort[m] = "cleanup" /\ terminal' = terminal \ {m} /\ UNCHANGED <<stage, bySession>>
      BY <1>13 DEF CleanupAbort
    <2>2. \A k \in Msgs : stage[k] \notin TaskStages
      BY <2>1, ProcFacts DEF PermitInv, PermitExclusion, Holding
    <2>3. \A k \in Msgs : abort[k] # "waiting" /\ (abort[k] = "cleanup" => k = m)
      BY <2>1, <2>2, ProcFacts DEF HistoryInv, PermitInv, PermitExclusion
    <2>4. abort' = [abort EXCEPT ![m] = "done"]
      <3>1. CleanupEnds(m, "done")
        BY <1>13 DEF CleanupAbort, KeepPartial, CleanupEnds
      <3> QED BY <3>1, <2>3, CleanupReleases
    <2>5. \A k \in Msgs : abort'[k] \notin {"waiting", "cleanup"}
      BY <2>3, <2>4 DEF AbortStates
    <2> QED BY <2>1, <2>2, <2>5 DEF HistoryInv, TaskStages
  <1>14. ASSUME NEW p \in Procs, DrainStep(p) PROVE HistoryInv'
    <2>1. UNCHANGED <<bySession, terminal, draft, history, abort>>
      BY <1>14 DEF DrainStep, TakeBatch, TakeNothing, Replay, RefuseReplay, FinishDraining,
                   turnVars
    <2>2. \A k \in Msgs : stage'[k] # stage[k]
              => /\ stage[k] \in {"queued", "inhand"}
                 /\ stage'[k] \in {"abandoned", "inhand", "merged", "setup", "queued", "refused"}
      <3>1. CASE TakeBatch(p)
        BY <3>1, BatchFacts
      <3>2. CASE Replay(p) \/ RefuseReplay(p)
        BY <3>2 DEF Replay, RefuseReplay, PermitInv, HandInv
      <3>3. CASE TakeNothing(p) \/ FinishDraining(p)
        BY <3>3 DEF TakeNothing, FinishDraining
      <3> QED BY <3>1, <3>2, <3>3, <1>14 DEF DrainStep
    <2>3. /\ \A k \in Msgs : stage[k] \in TaskStages => stage'[k] = stage[k]
          /\ \A k \in Msgs : stage'[k] \in TaskStages => stage[k] \in TaskStages
      BY <2>2 DEF TaskStages
    <2> QED BY <2>1, <2>3, QuietHistory
  <1>15. ASSUME UNCHANGED vars PROVE HistoryInv'
    BY <1>15, QuietHistory DEF vars
  <1>16. \A m \in Msgs : ~Panic(m)
    BY DEF Panic
  <1>17. ASSUME NEW m \in Msgs, TurnStep(m) PROVE HistoryInv'
    BY <1>17, <1>3, <1>4, <1>6, <1>7, <1>8, <1>9, <1>10, <1>11, <1>13 DEF TurnStep
  <1> QED BY <1>1, <1>2, <1>12, <1>14, <1>15, <1>16, <1>17, NoneDropped DEF Next, Idle

\* The stored entries are only appended to, and an assistant or a partial entry
\* only after the user entry of its own run.
LEMMA NextAlternates ==
    PermitInv /\ DrainInv /\ (~CallDropped => HistoryInv) /\ HistoryAlternates /\ [Next]_vars
    => HistoryAlternates'
  <1> DEFINE Ordered == \A i \in 1..Len(history) :
                            history[i][1] # "user" => /\ i > 1
                                                      /\ history[i - 1] = <<"user", history[i][2]>>
  <1> SUFFICES ASSUME PermitInv, DrainInv, ~CallDropped => HistoryInv, HistoryAlternates,
                      [Next]_vars, ~CallDropped'
               PROVE  Ordered'
    BY DEF HistoryAlternates
  <1>a. HistoryInv /\ Ordered
    BY NoneDropped DEF HistoryAlternates
  <1> HIDE DEF Ordered
  <1>0. history \in Seq({"user", "assistant", "partial"} \X Msgs)
    BY DEF PermitInv, TypeOK
  <1>1. CASE UNCHANGED history
    BY <1>1, <1>a DEF Ordered
  <1>2. ASSUME NEW role \in {"user", "assistant", "partial"}, NEW m \in Msgs,
               history' = Append(history, <<role, m>>), role # "user" => LastIsUser(m)
        PROVE  Ordered'
    <2> DEFINE n == Len(history)
    <2>1. /\ n \in Nat /\ Len(history') = n + 1
          /\ \A i \in 1..n : history'[i] = history[i]
          /\ history'[n + 1] = <<role, m>>
      BY <1>0, <1>2
    <2>2. role # "user" => n > 0 /\ history[n] = <<"user", m>>
      BY <1>0, <1>2, <2>1 DEF LastIsUser
    <2> SUFFICES ASSUME NEW i \in 1..(n + 1), history'[i][1] # "user"
                 PROVE  i > 1 /\ history'[i - 1] = <<"user", history'[i][2]>>
      BY <2>1 DEF Ordered
    <2> HIDE DEF n
    <2>3. CASE i = n + 1
      <3>1. role # "user" /\ history'[i][2] = m
        BY <2>1, <2>3
      <3>2. n \in 1..n /\ i - 1 = n
        BY <2>1, <2>2, <2>3, <3>1
      <3> QED BY <2>1, <2>2, <2>3, <3>1, <3>2
    <2>4. CASE i # n + 1
      <3>1. i \in 1..n /\ history'[i] = history[i]
        BY <2>1, <2>4
      <3>2. i > 1 /\ history[i - 1] = <<"user", history[i][2]>>
        BY <3>1, <1>a DEF Ordered, n
      <3>3. history'[i - 1] = history[i - 1]
        BY <2>1, <3>1, <3>2
      <3> QED BY <3>1, <3>2, <3>3
    <2> QED BY <2>3, <2>4
  <1>3. ASSUME NEW m \in Msgs, StartRun(m) PROVE Ordered'
    BY <1>2, <1>3 DEF StartRun
  <1>4. ASSUME NEW m \in Msgs, PersistAssistant(m) PROVE Ordered'
    <2>1. stage[m] = "committed" /\ history' = Append(history, <<"assistant", m>>)
      BY <1>4 DEF PersistAssistant, InTask, TaskStep
    <2>2. LastIsUser(m)
      BY <2>1, <1>a DEF HistoryInv
    <2> QED BY <2>1, <2>2, <1>2
  <1>5. ASSUME NEW m \in Msgs, CleanupAbort(m) PROVE Ordered'
    <2>1. abort[m] = "cleanup" /\ KeepPartial(m)
      BY <1>5 DEF CleanupAbort
    <2>2. CASE draft = m /\ history' = Append(history, <<"partial", m>>)
      BY <2>1, <2>2, <1>2, <1>a DEF HistoryInv
    <2> QED BY <2>1, <2>2, <1>1 DEF KeepPartial
  <1>6. ASSUME NEW m \in Msgs, Arrive(m) \/ ArriveSync(m) \/ ClaimAbort(m)
        PROVE  UNCHANGED history
    BY <1>6 DEF Arrive, ArriveSync, ClaimAbort, turnVars
  <1>7. ASSUME NEW m \in Msgs, Panic(m) \/ TurnStep(m),
               ~StartRun(m), ~PersistAssistant(m), ~CleanupAbort(m)
        PROVE  UNCHANGED history
    BY <1>7 DEF Panic, TurnStep, FailSetup, BeginRun, CommitSuccess,
                BroadcastFinal, CommitError, BroadcastError, EndSilently,
                Unlist, Unmap, ReleaseRun, Kill, TaskDies, turnVars
  <1>8. ASSUME NEW p \in Procs, DrainStep(p) PROVE UNCHANGED history
    BY <1>8 DEF DrainStep, TakeBatch, TakeNothing, Replay, RefuseReplay, FinishDraining,
                turnVars
  <1>9. CancelQueued \/ UNCHANGED vars => UNCHANGED history
    BY DEF CancelQueued, vars, turnVars
  <1> QED BY <1>1, <1>3, <1>4, <1>5, <1>6, <1>7, <1>8, <1>9, NoneDropped
          DEF Next, Idle

\* When cancellation takes effect at once and no task panics, the stored
\* conversation is a sequence of turns as long as no call is dropped: whatever
\* arrives, is aborted or drained meanwhile, an answer or a kept draft directly
\* follows its own question.
THEOREM TurnsAreStoredInOrder ==
    ASSUME ~LateCancel, ~Panics PROVE Spec => []HistoryAlternates
  <1>1. Init => AnnounceInv /\ WinInv /\ HistoryInv /\ HistoryAlternates
    BY ProcFacts DEF Init, AnnounceInv, Announced, Active, WinInv, HistoryInv, TaskStages,
                     HistoryAlternates
  <1>2. PermitInv /\ AnnounceInv /\ WinInv /\ [Next]_vars => WinInv'
    BY NextWinInv
  <1>3. /\ PermitInv /\ DrainInv /\ AnnounceInv /\ WinInv /\ CancelInv
        /\ ~CallDropped => HistoryInv
        /\ [Next]_vars
        => (~CallDropped => HistoryInv)'
    BY NextHistoryInv
  <1> QED BY <1>1, <1>2, <1>3, AlwaysReserved, NextAnnounceInv, NextAlternates, PTL DEF Spec

=============================================================================
