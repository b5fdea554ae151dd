---------------------------- MODULE ToolApprovals ----------------------------
(***************************************************************************)
(* The approval manager (crates/tools/src/approval.rs): tool calls that    *)
(* ask, wait and time out, and operators who decide, by request id from a  *)
(* client or by list number from a chat channel.                           *)
(*                                                                         *)
(* A call makes at most one request, so a request is named by its call.    *)
(* resolve holds the lock of the pending table to its end; every other     *)
(* await ends a step.                                                      *)
(***************************************************************************)
EXTENDS Naturals, Sequences, FiniteSets, SequencesExt

CONSTANTS
    Calls,         \* tool calls
    Kind,          \* Kind[c]: exec, fs or acp
    Command,       \* Command[c]: the text to be approved
    Session,       \* Session[c]: its session, or NoSession
    NoSession,
    NoCall,
    Setups,        \* configurations: [mode, level, list, dangerous, listed, safe]
    Clients,       \* operators at a client
    Channels,      \* operators in a chat channel
    ChannelSession,\* the session their chat is bound to
    MaxDecisions   \* bound: decisions of all operators

Operators == Clients \cup Channels
Commands  == {Command[c] : c \in Calls}

ASSUME ApprovalAssumption ==
    /\ Setups \subseteq [mode : {"off", "always", "onmiss"},
                     level : {"deny", "full", "allowlist"}, list : BOOLEAN,
                     dangerous : SUBSET Commands, listed : SUBSET Commands,
                     safe : SUBSET Commands]
    /\ Kind \in [Calls -> {"exec", "fs", "acp"}]
    /\ DOMAIN Command = Calls
    /\ DOMAIN Session = Calls
    /\ \A c \in Calls : Kind[c] = "fs" => Session[c] = NoSession
    /\ DOMAIN ChannelSession = Channels
    /\ \A o \in Channels : ChannelSession[o] # NoSession
    /\ Clients \cap Channels = {}
    /\ MaxDecisions \in Nat
    /\ NoCall \notin Calls

VARIABLES
    setup,      \* the configuration, fixed at start
    call,       \* where each tool call is
    pending,    \* ApprovalManager.pending, in the order of the request ids
    inbox,      \* the oneshot channel of its request
    approved,   \* ApprovalManager.approved_commands
    op,         \* what each operator's resolve is doing
    seen,       \* the numbered list a channel operator was last shown
    decisions,  \* spent of the bound
    granted     \* the approval that took each request out of pending, if one did

vars == <<setup, call, pending, inbox, approved, op, seen, decisions, granted>>

Decisions == {"denied", "once", "always"}   \* always: approved with a command
Ended     == {"running", "failed"}          \* failed: refused, denied, timed out, aborted
Listening == {"announcing", "waiting"}      \* the receiver is alive

Idle == [at |-> "idle", on |-> NoCall, num |-> 0, as |-> "denied"]

TypeOK ==
    /\ setup \in Setups
    /\ call \in [Calls -> {"new", "asking"} \cup Listening \cup Ended]
    /\ pending \in Seq(Calls) /\ IsInjective(pending)
    /\ inbox \in [Calls -> Decisions \cup {"empty", "closed"}]
    /\ approved \subseteq Commands
    /\ op \in [Operators -> [at : {"idle", "chosen", "held", "sending"},
                             on : Calls \cup {NoCall}, num : Nat,
                             as : Decisions]]
    /\ seen \in [Channels -> Seq(Calls)]
    /\ decisions \in 0..MaxDecisions
    /\ granted \in [Calls -> {"none", "once", "always"}]

Init ==
    /\ setup \in Setups
    /\ call = [c \in Calls |-> "new"]
    /\ pending = <<>>
    /\ inbox = [c \in Calls |-> "empty"]
    /\ approved = {}
    /\ op = [o \in Operators |-> Idle]
    /\ seen = [o \in Channels |-> <<>>]
    /\ decisions = 0
    /\ granted = [c \in Calls |-> "none"]

-----------------------------------------------------------------------------
(* Tool calls.                                                             *)

\* What a command may do, given the commands approved before.
Verdict(cmd, before) ==
    LET vouched == setup.safe \cup setup.listed
    IN  IF cmd \in setup.dangerous \ setup.listed
        THEN IF setup.mode = "off" THEN "failed" ELSE "asking"
        ELSE CASE setup.level = "deny" -> "failed"
               [] setup.level = "full" -> "running"
               [] setup.level = "allowlist" ->
                    CASE setup.mode = "off" ->
                            IF setup.list /\ cmd \notin vouched THEN "failed" ELSE "running"
                      [] setup.mode = "always" -> "asking"
                      [] setup.mode = "onmiss" ->
                            IF cmd \in vouched \cup before THEN "running" ELSE "asking"

\* exec checks the command first; fs and acp ask whatever it is.
Check(c) ==
    /\ call[c] = "new"
    /\ call' = [call EXCEPT ![c] = IF Kind[c] = "exec"
                                   THEN Verdict(Command[c], approved)
                                   ELSE "asking"]
    /\ UNCHANGED <<setup, pending, inbox, approved, op, seen, decisions, granted>>

\* resolve keeps the write guard of pending until the decision is sent.
Locked == \E o \in Operators : op[o].at \in {"held", "sending"}

\* The id is a random uuid: a new request may sort anywhere in the list.
Create(c) ==
    /\ call[c] = "asking"
    /\ ~Locked
    /\ \E i \in 1..Len(pending) + 1 : pending' = InsertAt(pending, i, c)
    /\ call' = [call EXCEPT ![c] = IF Kind[c] = "acp" THEN "waiting" ELSE "announcing"]
    /\ UNCHANGED <<setup, inbox, approved, op, seen, decisions, granted>>

\* Bug: a failed broadcast is made up for by a second request.
Announce_AsksAgain(c) ==
    /\ call[c] = "announcing"
    /\ \E p \in {"waiting", "asking"} : call' = [call EXCEPT ![c] = p]
    /\ UNCHANGED <<setup, pending, inbox, approved, op, seen, decisions, granted>>

\* The broadcast ends, delivered or not, and the time-out starts.
Announce(c) ==
    /\ call[c] = "announcing"
    /\ call' = [call EXCEPT ![c] = "waiting"]
    /\ UNCHANGED <<setup, pending, inbox, approved, op, seen, decisions, granted>>

Receive(c) ==
    /\ call[c] = "waiting"
    /\ inbox[c] # "empty"
    /\ call' = [call EXCEPT ![c] = IF inbox[c] \in {"once", "always"}
                                   THEN "running" ELSE "failed"]
    /\ inbox' = [inbox EXCEPT ![c] = "empty"]
    /\ UNCHANGED <<setup, pending, approved, op, seen, decisions, granted>>

\* Bug: the requests of other tools wait for ever.
TimeOut_ExecOnly(c) ==
    /\ Kind[c] = "exec"
    /\ call[c] = "waiting"
    /\ inbox[c] = "empty"
    /\ call' = [call EXCEPT ![c] = "failed"]
    /\ UNCHANGED <<setup, pending, inbox, approved, op, seen, decisions, granted>>

\* A decision that is there when the timer fires still counts.
TimeOut(c) ==
    /\ call[c] = "waiting"
    /\ inbox[c] = "empty"
    /\ call' = [call EXCEPT ![c] = "failed"]
    /\ UNCHANGED <<setup, pending, inbox, approved, op, seen, decisions, granted>>

\* The turn is aborted: the future of the call is dropped where it stands.
Abort(c) ==
    /\ call[c] \in {"asking"} \cup Listening
    /\ call' = [call EXCEPT ![c] = "failed"]
    /\ inbox' = [inbox EXCEPT ![c] = "empty"]
    /\ UNCHANGED <<setup, pending, approved, op, seen, decisions, granted>>

-----------------------------------------------------------------------------
(* Operators.                                                              *)

Visible(s) == {c \in ToSet(pending) : Session[c] = s}

\* c comes before d in the order of the ids.
Before(c, d) ==
    \E i, j \in DOMAIN pending : i < j /\ pending[i] = c /\ pending[j] = d

\* Bug: the order the table yields.
Listing_Unsorted(s) == SetToSeqs(Visible(s))

\* pending_requests_for_session: the requests of the session, sorted by id.
Listing(s) ==
    {q \in SetToSeqs(Visible(s)) :
        \A i, j \in DOMAIN q : i < j => Before(q[i], q[j])}

\* /approvals
List(o) ==
    /\ op[o] = Idle
    /\ ~Locked
    /\ \E q \in Listing(ChannelSession[o]) :
          /\ q # seen[o]
          /\ seen' = [seen EXCEPT ![o] = q]
    /\ UNCHANGED <<setup, call, pending, inbox, approved, op, decisions, granted>>

\* The receiver is gone after a time-out or an abort.
Sent(c, d) == IF call[c] \in Listening THEN [inbox EXCEPT ![c] = d] ELSE inbox

\* Bug: remembers the command whatever was decided.
Resolve_RemembersAny(o, c, d) ==
    /\ ~Locked
    /\ \E i \in DOMAIN pending : pending[i] = c /\ pending' = RemoveAt(pending, i)
    /\ granted' = [granted EXCEPT ![c] = IF d = "denied" THEN "none" ELSE d]
    /\ op' = [op EXCEPT ![o] = [at |-> "held", on |-> c, num |-> 0, as |-> d]]
    /\ UNCHANGED <<setup, call, approved, seen, inbox>>

\* resolve(c, d), from the write lock of pending to its first await: a
\* request that is not there any more changes nothing.
Resolve(o, c, d) ==
    /\ ~Locked
    /\ \E i \in DOMAIN pending : pending[i] = c /\ pending' = RemoveAt(pending, i)
    /\ granted' = [granted EXCEPT ![c] = IF d = "denied" THEN "none" ELSE d]
    /\ IF d = "always"
       THEN /\ op' = [op EXCEPT ![o] = [at |-> "held", on |-> c, num |-> 0, as |-> d]]
            /\ UNCHANGED inbox
       ELSE /\ op' = [op EXCEPT ![o] = Idle]
            /\ inbox' = Sent(c, d)
    /\ UNCHANGED <<setup, call, approved, seen>>

\* exec.approval.resolve
ClientDecides(o) ==
    /\ op[o] = Idle
    /\ decisions < MaxDecisions
    /\ decisions' = decisions + 1
    /\ \E c \in Calls, d \in Decisions : Resolve(o, c, d)

\* /approve N and /deny N: N counts in the list as it is now, and the
\* request found there is resolved in a later step.
ChannelDecides(o) ==
    /\ op[o] = Idle
    /\ ~Locked
    /\ decisions < MaxDecisions
    /\ decisions' = decisions + 1
    /\ \E q \in Listing(ChannelSession[o]) : \E n \in DOMAIN q, d \in {"denied", "always"} :
          op' = [op EXCEPT ![o] = [at |-> "chosen", on |-> q[n], num |-> n, as |-> d]]
    /\ UNCHANGED <<setup, call, pending, inbox, approved, seen, granted>>

ChannelResolves(o) ==
    /\ op[o].at = "chosen"
    /\ ~Locked
    /\ \/ Resolve(o, op[o].on, op[o].as)
       \/ /\ op[o].on \notin ToSet(pending)
          /\ op' = [op EXCEPT ![o] = Idle]
          /\ UNCHANGED <<setup, call, pending, inbox, approved, seen, granted>>
    /\ UNCHANGED decisions

\* Bug: the decision is out before the command is remembered.
Remember_SendsFirst(o) ==
    /\ op[o].at = "held"
    /\ inbox' = Sent(op[o].on, op[o].as)
    /\ op' = [op EXCEPT ![o].at = "sending"]
    /\ UNCHANGED <<setup, call, pending, approved, seen, decisions, granted>>

Remember(o) ==
    /\ op[o].at = "held"
    /\ approved' = approved \cup {Command[op[o].on]}
    /\ op' = [op EXCEPT ![o].at = "sending"]
    /\ UNCHANGED <<setup, call, pending, inbox, seen, decisions, granted>>

Send(o) ==
    /\ op[o].at = "sending"
    /\ inbox' = Sent(op[o].on, op[o].as)
    /\ op' = [op EXCEPT ![o] = Idle]
    /\ UNCHANGED <<setup, call, pending, approved, seen, decisions, granted>>

\* Bug: the receiver does not learn that the sender is gone.
Drop_Silent(o) ==
    /\ op[o].at = "held"
    /\ op' = [op EXCEPT ![o] = Idle]
    /\ UNCHANGED <<setup, call, pending, inbox, approved, seen, decisions, granted>>

\* The handler of a client that went away is dropped at its one await, and
\* the sender with it.
Drop(o) ==
    /\ op[o].at = "held"
    /\ inbox' = Sent(op[o].on, "closed")
    /\ op' = [op EXCEPT ![o] = Idle]
    /\ UNCHANGED <<setup, call, pending, approved, seen, decisions, granted>>

-----------------------------------------------------------------------------
Next ==
    \/ \E c \in Calls :
          \/ Check(c) \/ Create(c) \/ Announce(c) \/ Receive(c)
          \/ TimeOut(c) \/ Abort(c)
    \/ \E o \in Clients : ClientDecides(o) \/ Drop(o)
    \/ \E o \in Channels : List(o) \/ ChannelDecides(o) \/ ChannelResolves(o)
    \/ \E o \in Operators : Remember(o) \/ Send(o)

Spec == Init /\ [][Next]_vars

\* Futures that can go on are polled, and the timer of a wait fires; that an
\* announcement comes to its end is up to the channel and not assumed.
Fairness ==
    /\ \A c \in Calls : WF_vars(Create(c)) /\ WF_vars(Receive(c)) /\ WF_vars(TimeOut(c))
    /\ \A o \in Operators : WF_vars(Remember(o)) /\ WF_vars(Send(o))

FairSpec == Spec /\ Fairness

-----------------------------------------------------------------------------
(* Properties.                                                             *)

\* A request for the same text was approved for good.
ApprovedBefore(c) ==
    \E d \in Calls : Command[d] = Command[c] /\ granted[d] = "always"

\* A tool call runs only if the configuration lets it, if its own request was
\* approved, or - in on-miss mode, for a command that is not dangerous - if an
\* earlier request for the same text was approved with its command
\* (check_command, resolve): no race of decisions, time-outs and parallel
\* calls gives it another ground, and the safety floor is never waived.
RunHasGround ==
    \A c \in Calls : call[c] = "running" =>
        \/ granted[c] \in {"once", "always"}
        \/ Kind[c] = "exec" /\ Verdict(Command[c], {}) = "running"
        \/ /\ Kind[c] = "exec"
           /\ setup.mode = "onmiss"
           /\ Command[c] \notin setup.dangerous \ setup.listed
           /\ ApprovedBefore(c)

\* As long as a call may wait for its decision, the decision is on its way or
\* can still be made: create_request enters the table before the call listens,
\* and resolve, which takes it out, always answers the channel.
WaitIsReachable ==
    \A c \in Calls : call[c] \in Listening /\ inbox[c] = "empty" =>
        \/ c \in ToSet(pending)
        \/ \E o \in Operators : op[o].at \in {"held", "sending"} /\ op[o].on = c

\* When a call runs because it was approved with its command, the command is
\* already remembered (resolve inserts into approved_commands before it sends): in
\* on-miss mode a repetition of the call is not asked about again unless the
\* command is dangerous.
RememberedWhenRun ==
    \A c \in Calls :
        call[c] = "running" /\ granted[c] = "always" => Command[c] \in approved

\* /approve N and /deny N concern a request of the chat's own session, and if
\* no request of the session came or went since the list was shown, the one
\* shown under N (pending_requests sorts by id for this).
NumberNamesRequest ==
    [][\A o \in Channels : op[o].at = "idle" /\ op'[o].at = "chosen" =>
          LET s == ChannelSession[o]
              c == op'[o].on
          IN  /\ Session[c] = s
              /\ ToSet(seen[o]) = Visible(s) =>
                      c = seen[o][op'[o].num]]_vars

\* In the end no call is left waiting for a decision or for its place in the
\* table: each wait gets a decision or a time-out, and no order of resolves
\* keeps the table locked (calls do not ask twice).
AsksEnd == <>[](\A c \in Calls : call[c] \notin {"asking", "waiting"})
=============================================================================
