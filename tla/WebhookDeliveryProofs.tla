----------------------- MODULE WebhookDeliveryProofs -----------------------
(***************************************************************************)
(* TLAPS proofs about WebhookDelivery, for every set of webhooks, requests *)
(* and delivery keys, every capacity of the channel, and any number of     *)
(* crashes and store errors.                                               *)
(***************************************************************************)
EXTENDS WebhookDelivery, SequenceFacts, TLAPS

-----------------------------------------------------------------------------
(* Who knows of a delivery: the invariant the others rest on.              *)

\* The worker has a delivery exactly when it is busy, and a dead one has none.
JobInv ==
    /\ step = "idle" <=> job = None
    /\ phase = "dead" => job = None

\* The channel holds accepted deliveries, once each.
ChannelInv ==
    /\ IsInjective(channel)
    /\ \A r \in ToSet(channel) : call[r] = "accepted"

\* Until its row is inserted nothing but the handler knows of a request.
Early == {"new", "checking", "fresh"}

FreshInv ==
    \A r \in Reqs : call[r] \in Early =>
        row[r] = "none" /\ r \notin todo /\ job # r /\ ran[r] = 0

\* Until the start-up scan the worker has done nothing.
StartInv ==
    phase \in {"down", "scan"} =>
        /\ todo = {} /\ twofold = {} /\ job = None
        /\ \A r \in Reqs : ran[r] = 0

CoreInv == TypeOK /\ JobInv /\ ChannelInv /\ FreshInv /\ StartInv

\* A gateway starts with no request, no delivery and an idle worker.
LEMMA InitCoreInv == Init => CoreInv
  <1> SUFFICES ASSUME Init PROVE CoreInv OBVIOUS
  <1>1. TypeOK
    BY WebhookAssumption DEF Init, TypeOK, Unfinished
  <1>2. JobInv /\ FreshInv /\ StartInv
    BY WebhookAssumption DEF Init, JobInv, FreshInv, StartInv
  <1>3. ChannelInv
    BY DEF Init, ChannelInv, IsInjective, ToSet
  <1> QED BY <1>1, <1>2, <1>3 DEF CoreInv

\* The handler moves one request on, and nothing else but the rows of
\* requests and the errors.
LEMMA HandlerCore ==
    ASSUME CoreInv, NEW r \in Reqs, NEW to \in InCall \cup {"closed", "cutoff"}, Answer(r, to),
           call[r] # "accepted",
           to \in Early => call[r] \in Early /\ row' = row,
           row' = row \/ row' = [row EXCEPT ![r] = "queued"],
           errors' \in 0..MaxErrors,
           UNCHANGED <<deleted, channel, workerVars, crashes>>
    PROVE  CoreInv'
  <1> USE DEF CoreInv, workerVars
  <1>1. /\ call' \in [Reqs -> InCall \cup Accepted \cup {"new", "closed", "cutoff"}]
        /\ call'[r] = to
        /\ \A s \in Reqs : s # r => call'[s] = call[s]
    BY DEF TypeOK, Answer
  <1>2. /\ row' \in [Reqs -> Unfinished \cup {"none", "completed", "failed"}]
        /\ \A s \in Reqs : s # r => row'[s] = row[s]
        /\ to \in Early => row'[r] = row[r]
    BY DEF TypeOK, Unfinished
  <1>3. TypeOK'
    BY <1>1, <1>2 DEF TypeOK
  <1>4. JobInv' /\ StartInv'
    BY DEF JobInv, StartInv
  <1>5. ChannelInv'
    <2>1. ToSet(channel)' = ToSet(channel) /\ ToSet(channel) \subseteq Reqs
      BY DEF ToSet, TypeOK
    <2>2. r \notin ToSet(channel)
      BY DEF ChannelInv
    <2> QED BY <1>1, <2>1, <2>2 DEF ChannelInv, IsInjective
  <1>6. FreshInv'
    BY <1>1, <1>2 DEF FreshInv
  <1> QED BY <1>3, <1>4, <1>5, <1>6

\* A sender that sends an event, again or for the first time, keeps the invariant.
LEMMA SendCore == ASSUME CoreInv, NEW r \in Reqs, Send(r) PROVE CoreInv'
  <1> USE DEF CoreInv, workerVars
  <1>1. /\ call' \in [Reqs -> InCall \cup Accepted \cup {"new", "closed", "cutoff"}]
        /\ call'[r] = "accepted"
        /\ \A s \in Reqs : s # r => call'[s] = call[s]
    BY DEF TypeOK, Answer, Send, Accepted
  <1>2. channel \in Seq(Reqs) /\ IsInjective(channel) /\ r \notin ToSet(channel)
    BY DEF TypeOK, ChannelInv, Send
  <1>3. /\ channel' \in Seq(Reqs) /\ IsInjective(channel')
        /\ ToSet(channel') \subseteq ToSet(channel) \cup {r}
    <2>1. CASE channel' = Append(channel, r) BY <1>2, <2>1, AppendFacts
    <2>2. CASE channel' = channel BY <1>2, <2>2
    <2> QED BY <2>1, <2>2 DEF Send
  <1>4. Len(channel') <= Capacity
    BY <1>2, WebhookAssumption DEF Send, TypeOK
  <1>5. TypeOK'
    BY <1>1, <1>3, <1>4 DEF TypeOK, Send
  <1>6. JobInv' /\ StartInv'
    BY DEF JobInv, StartInv, Send
  <1>7. ChannelInv'
    <2>1. ToSet(channel) \subseteq Reqs BY <1>2 DEF ToSet
    <2>2. \A s \in ToSet(channel') : call'[s] = "accepted"
      BY <1>1, <1>2, <1>3, <2>1 DEF ChannelInv
    <2> QED BY <1>3, <2>2 DEF ChannelInv, IsInjective, ToSet
  <1>8. FreshInv'
    BY <1>1 DEF FreshInv, Send, Early
  <1> QED BY <1>5, <1>6, <1>7, <1>8

\* Every step of the ingress handler keeps the invariant: a row is inserted
\* before its delivery is sent to the worker (handle_webhook).
LEMMA RequestCore ==
    ASSUME CoreInv, NEW r \in Reqs,
           Refuse(r) \/ Receive(r) \/ HandlerStep(r) \/ Disconnect(r)
    PROVE  CoreInv'
  <1>1. errors \in 0..MaxErrors /\ (StoreWorks \/ StoreFails => errors' \in 0..MaxErrors)
    BY WebhookAssumption DEF CoreInv, TypeOK, StoreWorks, StoreFails
  <1>2. CASE Refuse(r)
    BY <1>1, <1>2, HandlerCore DEF Refuse, Early, InCall
  <1>3. CASE Receive(r)
    BY <1>1, <1>3, HandlerCore DEF Receive, Early, InCall
  <1>4. CASE Dedup(r)
    <2>1. PICK to \in {"closed", "fresh"} : Answer(r, to)
      BY <1>4 DEF Dedup
    <2>2. /\ call[r] = "checking" /\ row' = row /\ errors' \in 0..MaxErrors
          /\ UNCHANGED <<deleted, channel, workerVars, crashes>>
      BY <1>1, <1>4 DEF Dedup
    <2> QED BY <2>1, <2>2, HandlerCore DEF Early, InCall
  <1>5. CASE Insert(r)
    <2>1. PICK to \in {"closed", "stored"} : Answer(r, to)
      BY <1>5 DEF Insert
    <2>2. /\ call[r] = "fresh" /\ errors' \in 0..MaxErrors
          /\ row' = row \/ row' = [row EXCEPT ![r] = "queued"]
          /\ UNCHANGED <<deleted, channel, workerVars, crashes>>
      BY <1>1, <1>5 DEF Insert
    <2> QED BY <2>1, <2>2, HandlerCore DEF Early, InCall
  <1>6. CASE Send(r)
    BY <1>6, SendCore
  <1>7. CASE Disconnect(r)
    <2>1. PICK to \in {"closed", "cutoff"} : Answer(r, to)
      BY <1>7 DEF Disconnect
    <2> QED BY <1>1, <1>7, <2>1, HandlerCore DEF Disconnect, Early, InCall
  <1> QED BY <1>2, <1>3, <1>4, <1>5, <1>6, <1>7 DEF HandlerStep

\* Deleting a webhook with its rows keeps the invariant, also when the worker has
\* one of them in hand or in its channel.
LEMMA DeleteCore == ASSUME CoreInv, NEW h \in Hooks, Delete(h) PROVE CoreInv'
  <1> USE DEF CoreInv, workerVars, Delete
  <1>1. TypeOK'
    BY DEF TypeOK
  <1>2. JobInv' /\ StartInv' /\ FreshInv'
    BY DEF JobInv, StartInv, FreshInv, TypeOK
  <1>3. ChannelInv'
    BY DEF ChannelInv, IsInjective, ToSet
  <1> QED BY <1>1, <1>2, <1>3

\* Steps of the worker that leave the channel alone.
LEMMA WorkCore ==
    ASSUME CoreInv, UNCHANGED <<outsideVars, channel>>,
           row' \in [Reqs -> Unfinished \cup {"none", "completed", "failed"}],
           \A r \in Reqs : row[r] = "none" => row'[r] = "none",
           phase' \in {"recover", "listen"},
           todo' \subseteq Reqs, job' \in Reqs \cup {None}, JobInv',
           step' \in {"idle", "taken", "marked", "running"},
           errors' \in 0..MaxErrors, ran' \in [Reqs -> Nat], ever' \subseteq Reqs,
           twofold' \subseteq Reqs, troubled' \subseteq Reqs,
           \A r \in Reqs : call[r] \in Early => r \notin todo' /\ job' # r /\ ran'[r] = 0
    PROVE  CoreInv'
  <1> USE DEF CoreInv, outsideVars
  <1>1. TypeOK'
    BY DEF TypeOK
  <1>2. FreshInv' /\ StartInv'
    BY DEF FreshInv, StartInv
  <1>3. ChannelInv'
    BY DEF ChannelInv, IsInjective, ToSet
  <1> QED BY <1>1, <1>2, <1>3

\* What SetStatus does to the rows.
LEMMA StatusFacts ==
    ASSUME TypeOK, NEW r \in Reqs, NEW s \in {"processing", "completed", "failed"},
           SetStatus(r, s)
    PROVE  /\ row' \in [Reqs -> Unfinished \cup {"none", "completed", "failed"}]
           /\ \A q \in Reqs : row'[q] = IF q = r /\ row[q] # "none" THEN s ELSE row[q]
  BY DEF TypeOK, SetStatus, Unfinished

\* Every step of the worker and of the scan at start-up keeps the invariant.
LEMMA WorkerCore == ASSUME CoreInv, WorkerStep PROVE CoreInv'
  <1> DEFINE Rows == [Reqs -> Unfinished \cup {"none", "completed", "failed"}]
  <1>1. /\ row \in Rows /\ errors \in 0..MaxErrors /\ todo \subseteq Reqs
        /\ ran \in [Reqs -> Nat] /\ ever \subseteq Reqs /\ twofold \subseteq Reqs
        /\ troubled \subseteq Reqs /\ job \in Reqs \cup {None}
        /\ phase \in {"down", "scan", "recover", "listen", "dead"}
        /\ step \in {"idle", "taken", "marked", "running"}
    BY DEF CoreInv, TypeOK
  <1>2. StoreWorks \/ StoreFails => errors' \in 0..MaxErrors
    BY <1>1, WebhookAssumption DEF StoreWorks, StoreFails
  <1>3. \A r \in Reqs : call[r] \in Early =>
           row[r] = "none" /\ r \notin todo /\ job # r /\ ran[r] = 0
    BY DEF CoreInv, FreshInv
  <1>4. step # "idle" => phase \in {"recover", "listen"} /\ job \in Reqs
    BY <1>1 DEF CoreInv, StartInv, JobInv
  <1>5. step = "idle" <=> job = None
    BY DEF CoreInv, JobInv
  <1>6. CASE Scan
    <2>1. /\ UNCHANGED <<outsideVars, row, channel, job, step, ran, ever>>
          /\ phase' = "recover" /\ errors' \in 0..MaxErrors
          /\ todo' = todo \/ todo' = {r \in Reqs : row[r] \in Unfinished}
          /\ twofold' \subseteq Reqs /\ troubled' \subseteq Reqs
      BY <1>1, <1>2, <1>6 DEF Scan
    <2>2. \A r \in Reqs : call[r] \in Early => r \notin todo'
      BY <1>3, <2>1 DEF Unfinished
    <2> QED BY <1>1, <1>3, <1>5, <2>1, <2>2, WorkCore DEF JobInv
  <1>7. CASE TakeFound
    <2>1. PICK r \in todo : job' = r /\ todo' = todo \ {r}
      BY <1>7 DEF TakeFound
    <2>2. /\ UNCHANGED <<outsideVars, row, channel, phase, ran, ever, twofold, troubled, errors>>
          /\ step' = "taken" /\ phase = "recover"
      BY <1>7 DEF TakeFound
    <2> QED BY <1>1, <1>3, <2>1, <2>2, WebhookAssumption, WorkCore DEF JobInv
  <1>8. CASE Listen
    BY <1>1, <1>3, <1>5, <1>8, WorkCore DEF JobInv, Listen
  <1>9. CASE TakeSent
    <2> USE DEF CoreInv, TakeSent
    <2>1. channel \in Seq(Reqs) /\ IsInjective(channel) /\ channel # <<>>
      BY <1>9 DEF TypeOK, ChannelInv
    <2>2. /\ Head(channel) \in Reqs /\ Head(channel) \in ToSet(channel)
          /\ channel' \in Seq(Reqs) /\ IsInjective(channel')
          /\ ToSet(channel') = ToSet(channel) \ {Head(channel)}
      BY <1>9, <2>1, TailFacts
    <2>3. Len(channel') <= Capacity
      <3>1. Len(channel') = Len(channel) - 1 /\ Len(channel) \in Nat
        BY <1>9, <2>1
      <3> QED BY <3>1, WebhookAssumption DEF TypeOK
    <2>4. TypeOK'
      BY <1>9, <2>2, <2>3 DEF TypeOK, outsideVars
    <2>5. JobInv' /\ StartInv'
      BY <1>9, <2>2, WebhookAssumption DEF JobInv, StartInv
    <2>6. call[Head(channel)] = "accepted"
      BY <2>2 DEF ChannelInv
    <2>7. FreshInv'
      BY <1>9, <2>2, <2>6 DEF FreshInv, outsideVars, Early
    <2>8. ChannelInv'
      BY <1>9, <2>2 DEF ChannelInv, IsInjective, ToSet, outsideVars
    <2> QED BY <2>4, <2>5, <2>7, <2>8
  <1>10. CASE Mark
    <2>1. /\ row' \in Rows
          /\ \A r \in Reqs : row[r] = "none" => row'[r] = "none"
      BY <1>4, <1>10, StatusFacts DEF Mark, CoreInv
    <2>2. /\ UNCHANGED <<outsideVars, channel, phase, todo, job, ran, ever, twofold, troubled, errors>>
          /\ step = "taken" /\ step' = "marked"
      BY <1>10 DEF Mark
    <2> QED BY <1>1, <1>3, <1>4, <1>5, <2>1, <2>2, WorkCore DEF JobInv
  <1>11. CASE Skip
    <2>1. /\ UNCHANGED <<outsideVars, row, channel, phase, todo, ran, ever, twofold, troubled, errors>>
          /\ step = "marked" /\ step' = "idle" /\ job' = None
      BY <1>11 DEF Skip, Idle
    <2> QED BY <1>1, <1>3, <1>4, <2>1, WebhookAssumption, WorkCore DEF JobInv
  <1>12. CASE Execute
    <2>1. /\ UNCHANGED <<outsideVars, row, channel, phase, todo, job, twofold, troubled, errors>>
          /\ step = "marked" /\ step' = "running" /\ row[job] # "none" /\ job \in Reqs
      BY <1>4, <1>12 DEF Execute
    <2>2. /\ ran' \in [Reqs -> Nat] /\ ever' \subseteq Reqs
          /\ \A r \in Reqs : call[r] \in Early => ran'[r] = 0
      BY <1>1, <1>3, <1>12, <2>1 DEF Execute
    <2> QED BY <1>1, <1>3, <1>4, <1>5, <2>1, <2>2, WorkCore DEF JobInv
  <1>13. CASE Finish
    <2>1. PICK s \in {"completed", "failed"} : SetStatus(job, s)
      BY <1>13 DEF Finish
    <2>2. /\ UNCHANGED <<outsideVars, channel, phase, todo, ran, ever, twofold, troubled, errors>>
          /\ step = "running" /\ step' = "idle" /\ job' = None
      BY <1>13 DEF Finish, Idle
    <2>3. /\ row' \in Rows
          /\ \A r \in Reqs : row[r] = "none" => row'[r] = "none"
      BY <1>4, <2>1, <2>2, StatusFacts DEF CoreInv
    <2> QED BY <1>1, <1>3, <1>4, <2>2, <2>3, WebhookAssumption, WorkCore DEF JobInv
  <1>14. CASE Abandon
    <2>1. /\ UNCHANGED <<outsideVars, row, channel, phase, todo, ran, ever, twofold>>
          /\ step # "idle" /\ step' = "idle" /\ job' = None
          /\ troubled' = troubled \cup {job} /\ errors' \in 0..MaxErrors
      BY <1>2, <1>14 DEF Abandon, Idle
    <2> QED BY <1>1, <1>3, <1>4, <2>1, WebhookAssumption, WorkCore DEF JobInv
  <1> QED BY <1>6, <1>7, <1>8, <1>9, <1>10, <1>11, <1>12, <1>13, <1>14 DEF WorkerStep

\* A panic of the worker keeps the invariant: the channel goes with it.
LEMMA PanicCore == ASSUME CoreInv, Panic PROVE CoreInv'
  <1> USE DEF CoreInv, Panic, Idle, outsideVars
  <1>1. TypeOK'
    BY WebhookAssumption DEF TypeOK
  <1>2. JobInv' /\ StartInv' /\ FreshInv'
    BY WebhookAssumption DEF JobInv, StartInv, FreshInv
  <1>3. ChannelInv'
    BY DEF ChannelInv, IsInjective, ToSet
  <1> QED BY <1>1, <1>2, <1>3

\* A crash keeps the invariant: the stored deliveries stay, queue and handlers go.
LEMMA CrashCore == ASSUME CoreInv, Crash PROVE CoreInv'
  <1> USE DEF CoreInv, Crash, Idle
  <1>1. /\ call' \in [Reqs -> InCall \cup Accepted \cup {"new", "closed", "cutoff"}]
        /\ \A r \in Reqs : call'[r] \in Early => call[r] \in Early
    <2>1. \A r \in Reqs : call'[r] = IF call[r] \in InCall \cup {"cutoff"} THEN "closed"
                                     ELSE IF call[r] = "accepted" THEN "survived" ELSE call[r]
      BY DEF InCall
    <2> QED BY <2>1 DEF TypeOK, InCall, Accepted, Early
  <1>2. TypeOK'
    BY <1>1, WebhookAssumption DEF TypeOK
  <1>3. JobInv' /\ StartInv'
    BY DEF JobInv, StartInv
  <1>4. FreshInv'
    BY <1>1, WebhookAssumption DEF FreshInv
  <1>5. ChannelInv'
    BY DEF ChannelInv, IsInjective, ToSet
  <1> QED BY <1>2, <1>3, <1>4, <1>5

\* Every step keeps the invariant.
LEMMA NextCoreInv == CoreInv /\ [Next]_vars => CoreInv'
  <1> SUFFICES ASSUME CoreInv, [Next]_vars PROVE CoreInv' OBVIOUS
  <1>1. CASE Restart
    <2> USE <1>1 DEF CoreInv, Restart
    <2>1. TypeOK' BY DEF TypeOK
    <2>2. JobInv' /\ FreshInv' /\ StartInv' BY DEF JobInv, FreshInv, StartInv
    <2>3. ChannelInv' BY DEF ChannelInv, IsInjective, ToSet
    <2> QED BY <2>1, <2>2, <2>3
  <1>2. CASE UNCHANGED vars
    <2> USE <1>2 DEF CoreInv, vars
    <2>1. TypeOK' BY DEF TypeOK
    <2>2. JobInv' /\ FreshInv' /\ StartInv' BY DEF JobInv, FreshInv, StartInv
    <2>3. ChannelInv' BY DEF ChannelInv, IsInjective, ToSet
    <2> QED BY <2>1, <2>2, <2>3
  <1> QED BY <1>1, <1>2, RequestCore, DeleteCore, WorkerCore, PanicCore, CrashCore
         DEF Next

\* The invariant holds in every state of every execution.
LEMMA CoreInvHolds == Spec => []CoreInv
  BY InitCoreInv, NextCoreInv, PTL DEF Spec

\* Every variable keeps its type, and the channel its capacity.
THEOREM TypesHold == Spec => []TypeOK
  BY CoreInvHolds, PTL DEF CoreInv

-----------------------------------------------------------------------------
(* One delivery for each event.                                            *)

\* The unique index and the foreign key hold of the rows.
RowInv ==
    /\ \A r, s \in Reqs : SameEvent(r, s) /\ row[r] # "none" /\ row[s] # "none" => r = s
    /\ \A r \in Reqs : Hook[r] \in deleted => row[r] = "none"

\* What was executed has its row, as long as its webhook is there: an event
\* cannot be stored again.
EverInv == \A r \in ever : row[r] # "none" \/ Hook[r] \in deleted

EventInv == RowInv /\ EverInv /\ OneDeliveryPerEvent

\* Steps that add and remove no row and execute nothing.
LEMMA EventStable ==
    ASSUME CoreInv, EventInv, deleted' = deleted, ever' = ever,
           \A r \in Reqs : row'[r] = "none" <=> row[r] = "none"
    PROVE  EventInv'
  <1>1. ever \subseteq Reqs
    BY DEF CoreInv, TypeOK
  <1> QED BY <1>1 DEF EventInv, RowInv, EverInv, OneDeliveryPerEvent, SameEvent

\* Every step keeps one stored delivery per event of a webhook: the unique index
\* refuses what the check before it let through.
LEMMA NextEventInv == CoreInv /\ EventInv /\ [Next]_vars => EventInv'
  <1> SUFFICES ASSUME CoreInv, EventInv, [Next]_vars PROVE EventInv' OBVIOUS
  <1>1. /\ row \in [Reqs -> Unfinished \cup {"none", "completed", "failed"}]
        /\ ever \subseteq Reqs
        /\ step # "idle" => job \in Reqs
    BY DEF CoreInv, TypeOK, JobInv
  <1>2. ASSUME UNCHANGED <<deleted, ever, row>> PROVE EventInv'
    BY <1>2, EventStable
  <1>3. ASSUME NEW r \in Reqs, Insert(r) PROVE EventInv'
    <2>1. CASE row' = row
      BY <1>2, <1>3, <2>1 DEF Insert, workerVars
    <2>2. CASE /\ ~Known(r) /\ Hook[r] \notin deleted
               /\ row' = [row EXCEPT ![r] = "queued"]
      <3>1. /\ row'[r] = "queued"
            /\ \A s \in Reqs : s # r => row'[s] = row[s]
        BY <1>1, <2>2
      <3>2. \A s \in Reqs : (SameEvent(r, s) \/ SameEvent(s, r)) => row[s] = "none"
        BY <2>2 DEF Known, SameEvent
      <3>3. UNCHANGED <<deleted, ever>>
        BY <1>3 DEF Insert, workerVars
      <3>4. RowInv'
        <4>1. \A s, q \in Reqs : SameEvent(s, q)' <=> SameEvent(s, q)
          BY DEF SameEvent
        <4> QED BY <2>2, <3>1, <3>2, <3>3, <4>1 DEF EventInv, RowInv
      <3>5. EverInv'
        BY <1>1, <3>1, <3>3 DEF EventInv, EverInv
      <3>6. OneDeliveryPerEvent'
        BY <3>3 DEF EventInv, OneDeliveryPerEvent, SameEvent
      <3> QED BY <3>4, <3>5, <3>6 DEF EventInv
    <2> QED BY <1>3, <2>1, <2>2 DEF Insert
  <1>4. ASSUME NEW h \in Hooks, Delete(h) PROVE EventInv'
    <2>1. /\ deleted' = deleted \cup {h} /\ ever' = ever
          /\ \A r \in Reqs : row'[r] = IF Hook[r] = h THEN "none" ELSE row[r]
      BY <1>1, <1>4 DEF Delete, workerVars
    <2>2. RowInv'
      BY <2>1 DEF EventInv, RowInv, SameEvent
    <2>3. EverInv'
      BY <1>1, <2>1 DEF EventInv, EverInv
    <2>4. OneDeliveryPerEvent'
      BY <2>1 DEF EventInv, OneDeliveryPerEvent, SameEvent
    <2> QED BY <2>2, <2>3, <2>4 DEF EventInv
  <1>5. CASE Execute
    <2>1. /\ UNCHANGED <<deleted, row>> /\ row[job] # "none" /\ job \in Reqs
          /\ ever' = ever \cup {job}
      BY <1>1, <1>5 DEF Execute, outsideVars
    <2>2. Hook[job] \notin deleted
      BY <2>1 DEF EventInv, RowInv
    <2>3. \A s \in ever : (SameEvent(job, s) \/ SameEvent(s, job)) => s = job
      <3> SUFFICES ASSUME NEW s \in ever, SameEvent(job, s) \/ SameEvent(s, job)
                   PROVE  s = job
        OBVIOUS
      <3>1. s \in Reqs /\ Hook[s] = Hook[job] /\ SameEvent(s, job)
        BY <1>1 DEF SameEvent
      <3>2. row[s] # "none"
        BY <2>2, <3>1 DEF EventInv, EverInv
      <3> QED BY <2>1, <3>1, <3>2 DEF EventInv, RowInv
    <2>4. RowInv' /\ EverInv'
      BY <2>1 DEF EventInv, RowInv, EverInv, SameEvent
    <2>5. OneDeliveryPerEvent'
      BY <2>1, <2>3 DEF EventInv, OneDeliveryPerEvent, SameEvent
    <2> QED BY <2>4, <2>5 DEF EventInv
  <1>6. CASE Mark
    <2>1. \A r \in Reqs : row'[r] = "none" <=> row[r] = "none"
      BY <1>1, <1>6, StatusFacts DEF Mark, CoreInv
    <2> QED BY <1>6, <2>1, EventStable DEF Mark, outsideVars
  <1>7. CASE Finish
    <2>1. PICK s \in {"completed", "failed"} : SetStatus(job, s)
      BY <1>7 DEF Finish
    <2>2. \A r \in Reqs : row'[r] = "none" <=> row[r] = "none"
      BY <1>1, <1>7, <2>1, StatusFacts DEF Finish, CoreInv
    <2> QED BY <1>7, <2>2, EventStable DEF Finish, outsideVars
  <1>8. ASSUME NEW r \in Reqs, Refuse(r) \/ Receive(r) \/ Dedup(r) \/ Send(r) \/ Disconnect(r)
        PROVE  EventInv'
    BY <1>2, <1>8 DEF Refuse, Receive, Dedup, Send, Disconnect, workerVars
  <1>9. CASE Scan \/ TakeFound \/ Listen \/ TakeSent \/ Skip \/ Abandon \/ Panic
    BY <1>2, <1>9 DEF Scan, TakeFound, Listen, TakeSent, Skip, Abandon, Panic, outsideVars
  <1>10. CASE Crash \/ Restart \/ UNCHANGED vars
    BY <1>2, <1>10 DEF Crash, Restart, vars
  <1> QED BY <1>3, <1>4, <1>5, <1>6, <1>7, <1>8, <1>9, <1>10
          DEF Next, HandlerStep, WorkerStep

\* An event is executed as one delivery, whatever races, fails, crashes or is
\* retried (handle_webhook, insert_delivery, delete_webhook).
THEOREM EventsRunOnce == Spec => []OneDeliveryPerEvent
  <1>1. Init => EventInv
    BY DEF Init, EventInv, RowInv, EverInv, OneDeliveryPerEvent
  <1> QED BY <1>1, CoreInvHolds, NextEventInv, PTL DEF Spec, EventInv

-----------------------------------------------------------------------------
(* No delivery is forgotten.                                               *)

\* Every step keeps the unfinished deliveries with the worker: in its channel, in
\* what the scan found, in hand, or about to be sent by a live handler.
LEMMA NextKept == CoreInv /\ NoDeliveryForgotten /\ [Next]_vars => NoDeliveryForgotten'
  <1> SUFFICES ASSUME CoreInv, NoDeliveryForgotten, [Next]_vars,
                      phase' \in {"recover", "listen"},
                      NEW r \in Reqs, row'[r] \in Unfinished,
                      call'[r] \notin {"stored", "cutoff"}, r \notin troubled'
               PROVE  r \in ToSet(channel') \cup todo' \cup {job'}
    BY DEF NoDeliveryForgotten, ToSet
  <1>1. /\ row \in [Reqs -> Unfinished \cup {"none", "completed", "failed"}]
        /\ call \in [Reqs -> InCall \cup Accepted \cup {"new", "closed", "cutoff"}]
        /\ channel \in Seq(Reqs) /\ IsInjective(channel)
        /\ step # "idle" => job \in Reqs
        /\ step = "idle" => job = None
        /\ None \notin Reqs
    BY WebhookAssumption DEF CoreInv, TypeOK, JobInv, ChannelInv
  <1>2. call[r] \in Early => row[r] = "none"
    BY DEF CoreInv, FreshInv
  <1>3. /\ phase \in {"recover", "listen"} /\ row[r] \in Unfinished
        /\ call[r] \notin {"stored", "cutoff"} /\ r \notin troubled
        => r \in ToSet(channel) \cup todo \cup {job}
    BY DEF NoDeliveryForgotten
  <1>4. ASSUME NEW q \in Reqs, Refuse(q) \/ Receive(q) \/ HandlerStep(q) \/ Disconnect(q)
        PROVE  r \in ToSet(channel') \cup todo' \cup {job'}
    <2>1. phase' = phase /\ todo' = todo /\ job' = job /\ troubled' = troubled
      BY <1>4 DEF Refuse, Receive, HandlerStep, Dedup, Insert, Send, Disconnect, workerVars
    <2>2. CASE Send(q)
      <3>1. ToSet(channel') = ToSet(channel) \cup {q}
        <4>1. q \notin ToSet(channel) /\ phase # "dead"
          BY <2>1, <2>2 DEF CoreInv, ChannelInv, Send
        <4> QED BY <1>1, <2>2, <4>1, AppendFacts DEF Send
      <3>2. row' = row /\ \A s \in Reqs : s # q => call'[s] = call[s]
        BY <1>1, <2>2 DEF Send, Answer
      <3> QED BY <1>3, <2>1, <3>1, <3>2
    <2>3. CASE Refuse(q) \/ Receive(q) \/ Dedup(q) \/ Disconnect(q)
      <3>1. /\ row' = row /\ channel' = channel
            /\ \A s \in Reqs : s # q => call'[s] = call[s]
            /\ call[q] \in Early \/ (call[q] = "stored" /\ call'[q] = "cutoff")
        BY <1>1, <2>3 DEF Refuse, Receive, Dedup, Disconnect, Answer, Early, InCall
      <3> QED BY <1>2, <1>3, <2>1, <3>1 DEF Unfinished
    <2>4. CASE Insert(q)
      <3>1. /\ channel' = channel /\ call[q] = "fresh"
            /\ \A s \in Reqs : s # q => call'[s] = call[s] /\ row'[s] = row[s]
            /\ row' = row \/ call'[q] = "stored"
        BY <1>1, <2>4 DEF Insert, Answer
      <3> QED BY <1>2, <1>3, <2>1, <3>1 DEF Unfinished, Early
    <2> QED BY <1>4, <2>2, <2>3, <2>4 DEF HandlerStep
  <1>5. ASSUME NEW h \in Hooks, Delete(h) PROVE r \in ToSet(channel') \cup todo' \cup {job'}
    <2>1. row'[r] = IF Hook[r] = h THEN "none" ELSE row[r]
      BY <1>5 DEF Delete
    <2>2. row[r] \in Unfinished
      BY <2>1 DEF Unfinished
    <2> QED BY <1>3, <1>5, <2>2 DEF Delete, workerVars
  <1>6. ASSUME WorkerStep PROVE r \in ToSet(channel') \cup todo' \cup {job'}
    <2>1. call' = call
      BY <1>6 DEF WorkerStep, Scan, TakeFound, Listen, TakeSent, Mark, Skip, Execute, Finish,
                  Abandon, outsideVars
    <2>2. CASE Scan
      BY <2>1, <2>2 DEF Scan
    <2>3. CASE TakeFound
      BY <1>1, <1>3, <2>1, <2>3 DEF TakeFound
    <2>4. CASE Listen
      BY <1>3, <2>1, <2>4 DEF Listen
    <2>5. CASE TakeSent
      <3>1. ToSet(channel') = ToSet(channel) \ {Head(channel)}
        BY <1>1, <2>5, TailFacts DEF TakeSent
      <3> QED BY <1>1, <1>3, <2>1, <2>5, <3>1 DEF TakeSent
    <2>6. CASE Mark
      <3>1. row'[r] = IF r = job /\ row[r] # "none" THEN "processing" ELSE row[r]
        BY <1>1, <2>6, StatusFacts DEF Mark, CoreInv
      <3> QED BY <1>3, <2>1, <2>6, <3>1 DEF Mark
    <2>7. CASE Skip
      BY <1>1, <1>3, <2>1, <2>7 DEF Skip, Idle, Unfinished
    <2>8. CASE Execute
      BY <1>3, <2>1, <2>8 DEF Execute
    <2>9. CASE Finish
      <3>1. PICK s \in {"completed", "failed"} : SetStatus(job, s)
        BY <2>9 DEF Finish
      <3>2. row'[r] = IF r = job /\ row[r] # "none" THEN s ELSE row[r]
        BY <1>1, <2>9, <3>1, StatusFacts DEF Finish, CoreInv
      <3>3. row[r] \in Unfinished /\ r # job
        BY <3>2 DEF Unfinished
      <3> QED BY <1>3, <2>1, <2>9, <3>3 DEF Finish
    <2>10. CASE Abandon
      BY <1>3, <2>1, <2>10 DEF Abandon
    <2> QED BY <1>6, <2>2, <2>3, <2>4, <2>5, <2>6, <2>7, <2>8, <2>9, <2>10 DEF WorkerStep
  <1>7. ~Crash /\ ~Restart /\ ~Panic
    BY DEF Crash, Restart, Panic
  <1>8. CASE UNCHANGED vars
    BY <1>3, <1>8 DEF vars
  <1> QED BY <1>4, <1>5, <1>6, <1>7, <1>8 DEF Next

\* After the start-up scan every unfinished delivery is the worker's or will
\* be, but for dropped handlers and logged store errors, as long as the worker
\* lives (run_worker, handle_webhook).
THEOREM DeliveriesKept == Spec => []NoDeliveryForgotten
  <1>1. Init => NoDeliveryForgotten
    BY DEF Init, NoDeliveryForgotten
  <1> QED BY <1>1, CoreInvHolds, NextKept, PTL DEF Spec

-----------------------------------------------------------------------------
(* One execution in each life of the process.                              *)

Bit(p) == IF p THEN 1 ELSE 0

\* A delivery comes to the worker over the channel or from the scan, and every
\* way it can still be executed on is counted with the executions it had.
Sending(r) == call[r] = "stored" \/ r \in ToSet(channel)
Taken(r)   == job = r /\ step \in {"taken", "marked"}
Chances(r) == Bit(Sending(r)) + Bit(r \in todo) + Bit(Taken(r)) + ran[r]

ChanceInv == \A r \in Reqs : Chances(r) <= IF r \in twofold THEN 2 ELSE 1

\* No chance is won: steps at which no delivery is found or stored.
LEMMA ChanceStable ==
    ASSUME CoreInv, ChanceInv, ran' \in [Reqs -> Nat], twofold' = twofold,
           \A r \in Reqs : Chances(r)' <= Chances(r)
    PROVE  ChanceInv'
  <1>1. \A r \in Reqs : Chances(r) \in Nat /\ Chances(r)' \in Nat
    BY DEF Chances, Bit, CoreInv, TypeOK
  <1> QED BY <1>1 DEF ChanceInv

\* Every step keeps the bound on a delivery's executions and its chances of one:
\* two when it was accepted in this life before the scan found it, else one.
LEMMA NextChanceInv == CoreInv /\ ChanceInv /\ [Next]_vars => ChanceInv'
  <1> SUFFICES ASSUME CoreInv, ChanceInv, [Next]_vars PROVE ChanceInv' OBVIOUS
  <1>1. /\ call \in [Reqs -> InCall \cup Accepted \cup {"new", "closed", "cutoff"}]
        /\ ran \in [Reqs -> Nat]
        /\ channel \in Seq(Reqs) /\ IsInjective(channel)
        /\ \A r \in ToSet(channel) : call[r] = "accepted"
        /\ step # "idle" => job \in Reqs
        /\ step = "idle" => job = None
        /\ None \notin Reqs
    BY WebhookAssumption DEF CoreInv, TypeOK, JobInv, ChannelInv
  <1>2. ToSet(channel)' = ToSet(channel')
    BY DEF ToSet
  <1>3. ASSUME UNCHANGED <<channel, todo, job, step, ran, twofold>>,
               \A r \in Reqs : call'[r] = "stored" => call[r] = "stored"
        PROVE  ChanceInv'
    <2>1. \A r \in Reqs : Chances(r)' <= Chances(r)
      BY <1>1, <1>2, <1>3 DEF Chances, Sending, Taken, Bit
    <2> QED BY <1>1, <1>3, <2>1, ChanceStable
  <1>4. ASSUME NEW r \in Reqs, Refuse(r) \/ Receive(r) \/ Dedup(r) \/ Disconnect(r)
        PROVE  ChanceInv'
    BY <1>1, <1>3, <1>4 DEF Refuse, Receive, Dedup, Disconnect, Answer, workerVars
  <1>5. ASSUME NEW r \in Reqs, Insert(r) PROVE ChanceInv'
    <2>1. /\ UNCHANGED <<channel, todo, job, step, ran, twofold>>
          /\ \A s \in Reqs : s # r => call'[s] = call[s]
      BY <1>1, <1>5 DEF Insert, Answer, workerVars
    <2>2. /\ r \notin todo /\ job # r /\ ran[r] = 0 /\ r \notin ToSet(channel)
      BY <1>1, <1>5 DEF Insert, CoreInv, FreshInv, Early
    <2>3. Chances(r)' \in {0, 1}
      BY <1>2, <2>1, <2>2 DEF Chances, Sending, Taken, Bit
    <2>4. \A s \in Reqs : s # r => Chances(s)' = Chances(s)
      BY <1>2, <2>1 DEF Chances, Sending, Taken, Bit
    <2> QED BY <2>1, <2>3, <2>4 DEF ChanceInv
  <1>6. ASSUME NEW r \in Reqs, Send(r) PROVE ChanceInv'
    <2>1. ToSet(channel') \subseteq ToSet(channel) \cup {r}
      <3>1. r \notin ToSet(channel)
        BY <1>1, <1>6 DEF Send
      <3> QED BY <1>1, <1>6, <3>1, AppendFacts DEF Send
    <2>2. /\ UNCHANGED <<todo, job, step, ran, twofold>> /\ call[r] = "stored"
          /\ call'[r] = "accepted" /\ \A s \in Reqs : s # r => call'[s] = call[s]
      BY <1>1, <1>6 DEF Send, Answer, workerVars
    <2>3. \A s \in Reqs : Chances(s)' <= Chances(s)
      BY <1>1, <1>2, <2>1, <2>2 DEF Chances, Sending, Taken, Bit
    <2> QED BY <1>1, <2>2, <2>3, ChanceStable
  <1>7. CASE Scan
    <2>1. /\ UNCHANGED <<call, channel, job, step, ran>> /\ phase = "scan"
          /\ \/ UNCHANGED <<todo, twofold>>
             \/ /\ todo' = {r \in Reqs : row[r] \in Unfinished}
                /\ twofold' = {r \in todo' : call[r] \in {"stored", "accepted"}}
      BY <1>7 DEF Scan, outsideVars
    <2>2. CASE UNCHANGED <<todo, twofold>>
      BY <1>3, <2>1, <2>2
    <2>3. CASE twofold' = {r \in todo' : call[r] \in {"stored", "accepted"}}
      <3>1. todo = {} /\ job = None /\ \A r \in Reqs : ran[r] = 0
        BY <2>1 DEF CoreInv, StartInv
      <3> SUFFICES ASSUME NEW r \in Reqs
                   PROVE  Chances(r)' <= IF r \in twofold' THEN 2 ELSE 1
        BY DEF ChanceInv
      <3>2. Chances(r)' = Bit(Sending(r)) + Bit(r \in todo')
        BY <1>1, <1>2, <2>1, <3>1 DEF Chances, Sending, Taken, Bit
      <3>3. Sending(r) => call[r] \in {"stored", "accepted"}
        BY <1>1 DEF Sending
      <3> QED BY <2>3, <3>2, <3>3 DEF Bit
    <2> QED BY <2>1, <2>2, <2>3
  <1>8. CASE TakeFound
    <2>1. PICK r \in todo : job' = r /\ todo' = todo \ {r}
      BY <1>8 DEF TakeFound
    <2>2. /\ UNCHANGED <<call, channel, ran, twofold>> /\ step = "idle" /\ step' = "taken"
      BY <1>8 DEF TakeFound, outsideVars
    <2>3. \A s \in Reqs : Chances(s)' <= Chances(s)
      BY <1>1, <1>2, <2>1, <2>2 DEF Chances, Sending, Taken, Bit
    <2> QED BY <1>1, <2>2, <2>3, ChanceStable
  <1>9. CASE TakeSent
    <2>1. /\ Head(channel) \in ToSet(channel)
          /\ ToSet(channel') = ToSet(channel) \ {Head(channel)}
      BY <1>1, <1>9, TailFacts DEF TakeSent
    <2>2. /\ UNCHANGED <<call, todo, ran, twofold>> /\ step = "idle" /\ step' = "taken"
          /\ job' = Head(channel)
      BY <1>9 DEF TakeSent, outsideVars
    <2>3. call[Head(channel)] = "accepted"
      BY <1>1, <2>1
    <2>4. \A s \in Reqs : Chances(s)' <= Chances(s)
      BY <1>1, <1>2, <2>1, <2>2, <2>3 DEF Chances, Sending, Taken, Bit
    <2> QED BY <1>1, <2>2, <2>4, ChanceStable
  <1>10. CASE Execute
    <2>1. /\ UNCHANGED <<call, channel, todo, job, twofold>> /\ job \in Reqs
          /\ step = "marked" /\ step' = "running"
          /\ ran' \in [Reqs -> Nat] /\ ran'[job] = ran[job] + 1
          /\ \A s \in Reqs : s # job => ran'[s] = ran[s]
      BY <1>1, <1>10 DEF Execute, outsideVars
    <2>2. \A s \in Reqs : Chances(s)' <= Chances(s)
      BY <1>1, <1>2, <2>1 DEF Chances, Sending, Taken, Bit
    <2> QED BY <2>1, <2>2, ChanceStable
  <1>11. CASE Listen \/ Mark \/ Skip \/ Finish \/ Abandon
    <2>1. /\ UNCHANGED <<call, channel, todo, ran, twofold>>
          /\ \A s \in Reqs : Taken(s)' => Taken(s)
      BY <1>1, <1>11 DEF Listen, Mark, Skip, Finish, Abandon, Idle, Taken, outsideVars
    <2>2. \A s \in Reqs : Chances(s)' <= Chances(s)
      BY <1>1, <1>2, <2>1 DEF Chances, Sending, Bit
    <2> QED BY <1>1, <2>1, <2>2, ChanceStable
  <1>12. CASE Crash
    <2>1. /\ todo' = {} /\ job' = None /\ step' = "idle" /\ ran' = [r \in Reqs |-> 0]
          /\ channel' = <<>> /\ twofold' = {}
      BY <1>12 DEF Crash, Idle
    <2>2. \A s \in Reqs : Chances(s)' <= 1
      BY <1>2, <2>1 DEF Chances, Taken, Bit
    <2> QED BY <2>1, <2>2 DEF ChanceInv
  <1>13. CASE Panic
    <2>1. /\ UNCHANGED <<call, ran, twofold>> /\ channel' = <<>> /\ todo' = {}
          /\ \A s \in Reqs : ~Taken(s)'
      BY <1>13 DEF Panic, Idle, Taken, outsideVars
    <2>2. \A s \in Reqs : s \notin ToSet(channel')
      BY <2>1 DEF ToSet
    <2>3. \A s \in Reqs : Chances(s)' <= Chances(s)
      BY <1>1, <1>2, <2>1, <2>2 DEF Chances, Sending, Bit
    <2> QED BY <1>1, <2>1, <2>3, ChanceStable
  <1>14. CASE Restart \/ UNCHANGED vars \/ \E h \in Hooks : Delete(h)
    BY <1>3, <1>14 DEF Restart, vars, Delete, workerVars
  <1> QED BY <1>4, <1>5, <1>6, <1>7, <1>8, <1>9, <1>10, <1>11, <1>12, <1>13, <1>14
          DEF Next, HandlerStep, WorkerStep

\* In one life of the process a delivery is executed once, or twice if it was
\* accepted before the start-up scan saw it (run_worker, process_delivery).
THEOREM ExecutionsBounded == Spec => []ExecutedOncePerLife
  <1>1. Init => ChanceInv
    BY DEF Init, ChanceInv, Chances, Sending, Taken, Bit, ToSet
  <1>2. CoreInv /\ ChanceInv => ExecutedOncePerLife
    <2> SUFFICES ASSUME CoreInv, ChanceInv, NEW r \in Reqs
                 PROVE  ran[r] <= IF r \in twofold THEN 2 ELSE 1
      BY DEF ExecutedOncePerLife
    <2>1. ran[r] \in Nat /\ ran[r] <= Chances(r) /\ Chances(r) \in Nat
      BY DEF CoreInv, TypeOK, Chances, Bit
    <2> QED BY <2>1 DEF ChanceInv
  <1> QED BY <1>1, <1>2, CoreInvHolds, NextChanceInv, PTL DEF Spec
=============================================================================
