--------------------------- MODULE WebhookDelivery ---------------------------
(***************************************************************************)
(* Webhook deliveries from HTTP request to end of processing: the ingress  *)
(* handler (crates/httpd), the delivery table and the worker with its      *)
(* start-up scan (crates/webhooks), across crashes.                        *)
(*                                                                         *)
(* A request is a member of Reqs and names its delivery row.  Every await  *)
(* of handler and worker ends a step.                                      *)
(***************************************************************************)
EXTENDS Naturals, Sequences, FiniteSets, SequencesExt

CONSTANTS
    Hooks,       \* webhooks
    Reqs,        \* HTTP requests
    Hook,        \* Hook[r]: the webhook r is sent to
    Key,         \* Key[r]: its delivery key, or NoKey
    NoKey,
    Capacity,    \* of the worker's channel
    MaxCrashes,  \* bound: crashes
    MaxErrors,   \* bound: failing store operations
    None         \* no job

ASSUME WebhookAssumption ==
    /\ Hook \in [Reqs -> Hooks]
    /\ DOMAIN Key = Reqs
    /\ {MaxCrashes, MaxErrors} \subseteq Nat
    /\ Capacity \in Nat \ {0}
    /\ None \notin Reqs

VARIABLES
    deleted,   \* webhooks whose row is gone
    call,      \* the handler of each request; closed: answered other than 202
    row,       \* webhook_deliveries.status, or none
    channel,   \* the mpsc channel to the worker
    phase,     \* the worker: down, scan, recover, listen, dead
    todo,      \* what its start-up scan found and has not processed
    job,       \* the delivery in process_delivery
    step,      \* how far it is: idle, taken, marked, running
    crashes, errors,  \* spent of the bounds
    ran,       \* executions of each delivery in this life of the process
    ever,      \* deliveries ever executed
    twofold,   \* deliveries accepted in this life before the scan saw them
    troubled   \* deliveries a logged store error concerned in this life

vars == <<deleted, call, row, channel, phase, todo, job, step,
          crashes, errors, ran, ever, twofold, troubled>>

workerVars  == <<phase, todo, job, step, ran, ever, twofold, troubled>>

InCall     == {"checking", "fresh", "stored"}
Accepted   == {"accepted", "survived"}
Unfinished == {"queued", "processing"}
Up         == phase # "down"

TypeOK ==
    /\ deleted \subseteq Hooks
    /\ call \in [Reqs -> InCall \cup Accepted \cup
                         {"new", "closed", "cutoff"}]
    /\ row \in [Reqs -> Unfinished \cup {"none", "completed", "failed"}]
    /\ channel \in Seq(Reqs) /\ Len(channel) <= Capacity
    /\ phase \in {"down", "scan", "recover", "listen", "dead"}
    /\ todo \subseteq Reqs
    /\ job \in Reqs \cup {None}
    /\ step \in {"idle", "taken", "marked", "running"}
    /\ crashes \in 0..MaxCrashes
    /\ errors \in 0..MaxErrors
    /\ ran \in [Reqs -> Nat]
    /\ ever \subseteq Reqs
    /\ twofold \subseteq Reqs
    /\ troubled \subseteq Reqs

Init ==
    /\ deleted = {}
    /\ call = [r \in Reqs |-> "new"]
    /\ row = [r \in Reqs |-> "none"]
    /\ channel = <<>>
    /\ phase = "scan"
    /\ todo = {}
    /\ job = None
    /\ step = "idle"
    /\ crashes = 0
    /\ errors = 0
    /\ ran = [r \in Reqs |-> 0]
    /\ ever = {}
    /\ twofold = {}
    /\ troubled = {}

\* A store operation fails.
StoreFails == errors < MaxErrors /\ errors' = errors + 1

StoreWorks == UNCHANGED errors

-----------------------------------------------------------------------------
(* The ingress handler.                                                    *)

Answer(r, a) == call' = [call EXCEPT ![r] = a]

\* Unknown, deleted or disabled webhook, sealed secrets, address, size,
\* authentication, event filter, rate limit.
Refuse(r) ==
    /\ Up /\ call[r] = "new"
    /\ Answer(r, "closed")
    /\ UNCHANGED <<deleted, row, channel, workerVars, crashes, errors>>

\* Every check of the handler up to the rate limiter lets the request pass.
Receive(r) ==
    /\ Up /\ call[r] = "new"
    /\ Hook[r] \notin deleted
    /\ Answer(r, "checking")
    /\ UNCHANGED <<deleted, row, channel, workerVars, crashes, errors>>

SameEvent(r, s) == Key[r] # NoKey /\ Key[r] = Key[s] /\ Hook[r] = Hook[s]

Known(r) == \E s \in Reqs : SameEvent(r, s) /\ row[s] # "none"

\* find_by_delivery_key; when it fails the request is taken for a new one.
Dedup(r) ==
    /\ call[r] = "checking"
    /\ \/ StoreWorks /\ Answer(r, IF Known(r) THEN "closed" ELSE "fresh")
       \/ StoreFails /\ Key[r] # NoKey /\ Answer(r, "fresh")
    /\ UNCHANGED <<deleted, row, channel, workerVars, crashes>>

\* Bug: the table has no unique index on webhook and key.
Insert_NoIndex(r) ==
    /\ call[r] = "fresh"
    /\ \/ /\ Hook[r] \notin deleted
          /\ row' = [row EXCEPT ![r] = "queued"]
          /\ Answer(r, "stored")
          /\ StoreWorks
       \/ /\ Hook[r] \in deleted
          /\ Answer(r, "closed")
          /\ StoreWorks
          /\ UNCHANGED row
    /\ UNCHANGED <<deleted, channel, workerVars, crashes>>

\* insert_delivery: the unique index refuses a second row of an event, the
\* foreign key a row of a deleted webhook; the caller is told 500.
Insert(r) ==
    /\ call[r] = "fresh"
    /\ \/ /\ ~Known(r) /\ Hook[r] \notin deleted
          /\ row' = [row EXCEPT ![r] = "queued"]
          /\ Answer(r, "stored")
          /\ StoreWorks
       \/ /\ IF Known(r) \/ Hook[r] \in deleted THEN StoreWorks ELSE StoreFails
          /\ Answer(r, "closed")
          /\ UNCHANGED row
    /\ UNCHANGED <<deleted, channel, workerVars, crashes>>

\* Bug: the channel takes more than its capacity.
Send_Unbounded(r) ==
    /\ call[r] = "stored"
    /\ channel' = Append(channel, r)
    /\ Answer(r, "accepted")
    /\ UNCHANGED <<deleted, row, workerVars, crashes, errors>>

\* tx.send waits while the channel is full, then 202.  A dead worker has closed
\* the channel: the error is logged, and the answer is 202 as well.
Send(r) ==
    /\ call[r] = "stored"
    /\ \/ /\ phase # "dead" /\ Len(channel) < Capacity
          /\ channel' = Append(channel, r)
       \/ phase = "dead" /\ UNCHANGED channel
    /\ Answer(r, "accepted")
    /\ UNCHANGED <<deleted, row, workerVars, crashes, errors>>

\* The client goes away and the handler is dropped at the await it is in.
Disconnect(r) ==
    /\ call[r] \in InCall
    /\ Answer(r, IF call[r] = "stored" THEN "cutoff" ELSE "closed")
    /\ UNCHANGED <<deleted, row, channel, workerVars, crashes, errors>>

-----------------------------------------------------------------------------
(* webhooks.delete.                                                        *)

\* One transaction removes the webhook and its deliveries.
Delete(h) ==
    /\ Up /\ h \notin deleted
    /\ deleted' = deleted \cup {h}
    /\ row' = [r \in Reqs |-> IF Hook[r] = h THEN "none" ELSE row[r]]
    /\ UNCHANGED <<call, channel, workerVars, crashes, errors>>

-----------------------------------------------------------------------------
(* The worker.                                                             *)

outsideVars == <<deleted, call, crashes>>

\* Bug: deliveries that were in processing are not taken up again.
Scan_SkipsProcessing ==
    /\ phase = "scan"
    /\ StoreWorks
    /\ todo' = {r \in Reqs : row[r] = "queued"}
    /\ twofold' = {r \in todo' : call[r] \in {"stored", "accepted"}}
    /\ phase' = "recover"
    /\ UNCHANGED <<outsideVars, row, channel, job, step, ran, ever, troubled>>

\* list_unprocessed_deliveries; a failing scan is logged and nothing recovered.
\* The server may be serving requests already.
Scan ==
    /\ phase = "scan"
    /\ LET found == {r \in Reqs : row[r] \in Unfinished}
       IN  \/ /\ StoreWorks
              /\ todo' = found
              /\ twofold' = {r \in found : call[r] \in {"stored", "accepted"}}
              /\ UNCHANGED troubled
           \/ /\ StoreFails
              /\ troubled' = troubled \cup found
              /\ UNCHANGED <<todo, twofold>>
    /\ phase' = "recover"
    /\ UNCHANGED <<outsideVars, row, channel, job, step, ran, ever>>

\* The next delivery of the scan, in the order of its received_at text.
TakeFound ==
    /\ phase = "recover" /\ step = "idle"
    /\ \E r \in todo : job' = r /\ todo' = todo \ {r}
    /\ step' = "taken"
    /\ UNCHANGED <<outsideVars, row, channel, phase, ran, ever, twofold, troubled, errors>>

Listen ==
    /\ phase = "recover" /\ step = "idle" /\ todo = {}
    /\ phase' = "listen"
    /\ UNCHANGED <<outsideVars, row, channel, todo, job, step, ran, ever, twofold,
                   troubled, errors>>

TakeSent ==
    /\ phase = "listen" /\ step = "idle"
    /\ channel # <<>>
    /\ job' = Head(channel)
    /\ channel' = Tail(channel)
    /\ step' = "taken"
    /\ UNCHANGED <<outsideVars, row, phase, todo, ran, ever, twofold, troubled, errors>>

Idle == job' = None /\ step' = "idle"

\* Bug: the loop ends with the first error.
Abandon_StopsWorker ==
    /\ step # "idle"
    /\ StoreFails
    /\ troubled' = troubled \cup {job}
    /\ Idle
    /\ phase' = "stopped"
    /\ UNCHANGED <<outsideVars, row, channel, todo, ran, ever, twofold>>

\* A store error in process_delivery is logged and the delivery left as it is.
Abandon ==
    /\ step # "idle"
    /\ StoreFails
    /\ troubled' = troubled \cup {job}
    /\ Idle
    /\ UNCHANGED <<outsideVars, row, channel, phase, todo, ran, ever, twofold>>

\* update_delivery_status: a row that is gone is not updated, without error.
SetStatus(r, s) == row' = [row EXCEPT ![r] = IF @ = "none" THEN @ ELSE s]

Mark ==
    /\ step = "taken"
    /\ SetStatus(job, "processing")
    /\ step' = "marked"
    /\ UNCHANGED <<outsideVars, channel, phase, todo, job, ran, ever, twofold, troubled, errors>>

\* The delivery was deleted with its webhook: not found, logged.
Skip ==
    /\ step = "marked" /\ row[job] = "none"
    /\ Idle
    /\ UNCHANGED <<outsideVars, row, channel, phase, todo, ran, ever, twofold, troubled, errors>>

\* Delivery, webhook and body are loaded, the run (or channel delivery) starts.
Execute ==
    /\ step = "marked" /\ row[job] # "none"
    /\ ran' = [ran EXCEPT ![job] = @ + 1]
    /\ ever' = ever \cup {job}
    /\ step' = "running"
    /\ UNCHANGED <<outsideVars, row, channel, phase, todo, job, twofold, troubled, errors>>

\* Bug: a failed delivery is put back into the channel.
Finish_RetriesFailed ==
    /\ step = "running"
    /\ \E s \in {"completed", "failed"} :
           /\ SetStatus(job, s)
           /\ channel' = IF s = "failed" /\ Len(channel) < Capacity
                         THEN Append(channel, job) ELSE channel
    /\ Idle
    /\ UNCHANGED <<outsideVars, phase, todo, ran, ever, twofold, troubled, errors>>

\* The run succeeds or fails (a busy session counts as a failure).
Finish ==
    /\ step = "running"
    /\ \E s \in {"completed", "failed"} : SetStatus(job, s)
    /\ Idle
    /\ UNCHANGED <<outsideVars, channel, phase, todo, ran, ever, twofold, troubled, errors>>

\* A panic in process_delivery or in the run it awaits ends the worker task,
\* drops its end of the channel and is never made good in this process.
Panic ==
    /\ step # "idle"
    /\ phase' = "dead"
    /\ channel' = <<>>
    /\ todo' = {}
    /\ Idle
    /\ UNCHANGED <<outsideVars, row, ran, ever, twofold, troubled, errors>>

-----------------------------------------------------------------------------
(* Crash and restart.                                                      *)

\* Tables stay; channel, handlers and worker are gone.
Crash ==
    /\ Up /\ crashes < MaxCrashes
    /\ crashes' = crashes + 1
    /\ call' = [r \in Reqs |-> CASE call[r] \in InCall \cup {"cutoff"} -> "closed"
                                 [] call[r] = "accepted"               -> "survived"
                                 [] OTHER                              -> call[r]]
    /\ channel' = <<>>
    /\ phase' = "down"
    /\ todo' = {}
    /\ Idle
    /\ ran' = [r \in Reqs |-> 0]
    /\ twofold' = {}
    /\ troubled' = {}
    /\ UNCHANGED <<deleted, row, errors, ever>>

Restart ==
    /\ phase = "down"
    /\ phase' = "scan"
    /\ UNCHANGED <<deleted, call, row, channel, todo, job, step, crashes,
                   errors, ran, ever, twofold, troubled>>

-----------------------------------------------------------------------------

HandlerStep(r) == Dedup(r) \/ Insert(r) \/ Send(r)

WorkerStep ==
    \/ Scan \/ TakeFound \/ Listen \/ TakeSent
    \/ Mark \/ Skip \/ Execute \/ Finish \/ Abandon

Next ==
    \/ \E r \in Reqs : Refuse(r) \/ Receive(r) \/ HandlerStep(r) \/ Disconnect(r)
    \/ \E h \in Hooks : Delete(h)
    \/ WorkerStep \/ Panic
    \/ Crash \/ Restart

Spec == Init /\ [][Next]_vars

\* The worker task and handlers in progress go on, a run started by the worker
\* ends, and a crashed process is started again.
FairSpec == Spec /\ \A r \in Reqs : WF_vars(HandlerStep(r))
                 /\ WF_vars(WorkerStep)
                 /\ WF_vars(Restart)

-----------------------------------------------------------------------------
(* Properties.                                                             *)

\* However requests of one event race between duplicate check and insert, fail
\* or are retried, and whatever crashes, the event is executed as one delivery.
OneDeliveryPerEvent ==
    \A r, s \in ever : SameEvent(r, s) => r = s

\* Once the start-up scan is over, an unfinished delivery is the worker's, or
\* will be: it is in the channel, in the scan's list, in work or about to be
\* sent.  The exceptions wait for the next restart, while a retry of the client
\* is answered as a duplicate: a handler dropped between insert and send, a
\* store error that was only logged, and everything once the worker is dead.
NoDeliveryForgotten ==
    phase \in {"recover", "listen"} =>
        \A r \in Reqs : row[r] \in Unfinished =>
            \/ r \in ToSet(channel) \cup todo \cup {job}
            \/ call[r] \in {"stored", "cutoff"}
            \/ r \in troubled

\* In one life of the process a delivery is executed once; only one that was
\* accepted before the start-up scan saw it, which comes to the worker from
\* both sides, is executed twice.
ExecutedOncePerLife ==
    \A r \in Reqs : ran[r] <= IF r \in twofold THEN 2 ELSE 1

\* "Accepted deliveries are not silently dropped on restart": a delivery that
\* was answered 202 ends, or is deleted with its webhook, or a store error that
\* concerned it was logged in the life of the process that lasts, or the worker
\* of that life is dead.
AcceptedEnds ==
    \A r \in Reqs :
        [](call[r] \in Accepted => \/ <>(row[r] \notin Unfinished)
                                  \/ <>[](r \in troubled)
                                  \/ <>[](phase = "dead"))

=============================================================================
