------------------------ MODULE ToolApprovalsProofs ------------------------
(***************************************************************************)
(* TLAPS proofs about ToolApprovals, for every set of calls, operators and *)
(* sessions, every set of configurations and any number of decisions.      *)
(***************************************************************************)
EXTENDS ToolApprovals, SequenceFacts, FiniteSetTheorems, TLAPS

-----------------------------------------------------------------------------
(* The list of a session.                                                  *)

\* The list a channel operator may be shown has every request of the session
\* once, in the order of the table.
LEMMA ListingFacts ==
    ASSUME TypeOK, NEW s, NEW q \in Listing(s)
    PROVE  /\ q \in Seq(Calls) /\ IsInjective(q)
           /\ ToSet(q) = Visible(s)
           /\ \A i, j \in DOMAIN q : i < j => Precedes(pending, q[i], q[j])
  <1> DEFINE D == 1..Cardinality(Visible(s))
  <1>1. IsFiniteSet(ToSet(pending))
    <2>1. Len(pending) \in Nat /\ DOMAIN pending = 1..Len(pending)
      BY DEF TypeOK
    <2>2. IsFiniteSet(DOMAIN pending)
      BY <2>1, FS_Interval
    <2>3. pending \in Surjection(DOMAIN pending, ToSet(pending))
      BY <2>1 DEF Surjection, ToSet, TypeOK
    <2> QED BY <2>2, <2>3, FS_Surjection
  <1>2. Visible(s) \in SUBSET ToSet(pending)
    BY DEF Visible
  <1>3. IsFiniteSet(Visible(s))
    BY <1>1, <1>2, FS_Subset
  <1>4. Cardinality(Visible(s)) \in Nat
    BY <1>3, FS_CardinalityType
  <1>5. /\ q \in [D -> Visible(s)] /\ IsInjective(q) /\ DOMAIN q = D
        /\ \A i, j \in DOMAIN q : i < j => Precedes(pending, q[i], q[j])
    BY DEF Listing, SetToSeqs, IsInjective, Before, Precedes
  <1>6. Visible(s) \subseteq Calls
    BY <1>2 DEF TypeOK, ToSet
  <1>7. q \in [D -> Calls]
    BY <1>5, <1>6
  <1>8. ToSet(q) = Visible(s)
    <2>1. IsFiniteSet(D) /\ Cardinality(D) = Cardinality(Visible(s))
      BY <1>4, FS_Interval
    <2>2. q \in Injection(D, Visible(s))
      BY <1>5 DEF Injection, IsInjective
    <2>3. q \in Surjection(D, Visible(s))
      BY <1>3, <2>1, <2>2, FS_Injection
    <2> QED BY <1>5, <2>3 DEF Surjection, ToSet
  <1>9. q \in Seq(Calls)
    BY <1>4, <1>7
  <1> QED BY <1>5, <1>8, <1>9

-----------------------------------------------------------------------------
(* The inductive invariant behind the four theorems.                       *)

Holds(o) == op[o].at \in {"held", "sending"}

\* A request in the table is undecided and unanswered, and its call still
\* listens or has given up.
RequestInv ==
    \A c \in ToSet(pending) :
        /\ call[c] \in Listening \cup {"failed"}
        /\ inbox[c] = "empty"
        /\ granted[c] = "none"

\* Before it asks, a call has no request, no decision and no answer.
FreshInv ==
    \A c \in Calls : call[c] \in {"new", "asking"} =>
        /\ c \notin ToSet(pending)
        /\ inbox[c] = "empty"
        /\ granted[c] = "none"

\* A resolve under way is alone; it has the one request it took out of the
\* table, approved with its command and not answered yet, and sends only after
\* it has remembered.
HoldInv ==
    /\ \A o \in Operators : op[o].at # "idle" => op[o].on \in Calls
    /\ \A o \in Operators : Holds(o) =>
          /\ op[o].as = "always"
          /\ granted[op[o].on] = "always"
          /\ op[o].on \notin ToSet(pending)
          /\ call[op[o].on] \in Listening \cup {"failed"}
          /\ inbox[op[o].on] = "empty"
          /\ op[o].at = "sending" => Command[op[o].on] \in approved
    /\ \A o, p \in Operators : Holds(o) /\ Holds(p) => o = p

\* An approval in a channel is the one that was given.
InboxInv ==
    \A c \in Calls :
        /\ inbox[c] \in {"once", "always"} => granted[c] = inbox[c]
        /\ inbox[c] = "always" => Command[c] \in approved

\* Every remembered command was approved.
ApprovedInv ==
    \A x \in approved : \E d \in Calls : Command[d] = x /\ granted[d] = "always"

ApprovalInv ==
    /\ TypeOK /\ RequestInv /\ FreshInv /\ HoldInv /\ InboxInv /\ ApprovedInv
    /\ RunHasGround /\ WaitIsReachable /\ RememberedWhenRun

\* An approval manager starts with no request and no decision (default).
LEMMA InitApprovalInv == Init => ApprovalInv
  <1> SUFFICES ASSUME Init PROVE ApprovalInv OBVIOUS
  <1>1. ToSet(pending) = {} /\ IsInjective(pending) /\ pending \in Seq(Calls)
    BY DEF Init, ToSet, IsInjective
  <1>2. TypeOK
    <2>1. op \in [Operators -> [at : {"idle", "chosen", "held", "sending"},
                                on : Calls \cup {NoCall}, num : Nat, as : Decisions]]
      BY DEF Init, Idle, Decisions
    <2>2. seen \in [Channels -> Seq(Calls)]
      BY DEF Init
    <2>3. decisions \in 0..MaxDecisions
      BY ApprovalAssumption DEF Init
    <2> QED BY <1>1, <2>1, <2>2, <2>3 DEF Init, TypeOK
  <1>3. RequestInv /\ FreshInv /\ InboxInv /\ ApprovedInv
    BY <1>1 DEF Init, RequestInv, FreshInv, InboxInv, ApprovedInv
  <1>4. HoldInv
    BY DEF Init, HoldInv, Holds, Idle
  <1>5. RunHasGround /\ WaitIsReachable /\ RememberedWhenRun
    BY DEF Init, RunHasGround, WaitIsReachable, RememberedWhenRun, Listening
  <1> QED BY <1>2, <1>3, <1>4, <1>5 DEF ApprovalInv

\* What check_command can answer, and why it lets a command run.
LEMMA VerdictFacts ==
    ASSUME TypeOK, NEW cmd, NEW before
    PROVE  /\ Verdict(cmd, before) \in {"failed", "asking", "running"}
           /\ Verdict(cmd, before) = "running" =>
                 \/ Verdict(cmd, {}) = "running"
                 \/ /\ setup.mode = "onmiss"
                    /\ cmd \notin setup.dangerous \ setup.listed
                    /\ cmd \in before
  <1>1. setup.mode \in {"off", "always", "onmiss"} /\ setup.level \in {"deny", "full", "allowlist"}
    BY ApprovalAssumption DEF TypeOK
  <1>2. CASE cmd \in setup.dangerous \ setup.listed
    BY <1>2 DEF Verdict
  <1>3. CASE cmd \notin setup.dangerous \ setup.listed /\ setup.level = "deny"
    BY <1>3 DEF Verdict
  <1>4. CASE cmd \notin setup.dangerous \ setup.listed /\ setup.level = "full"
    BY <1>4 DEF Verdict
  <1>5. CASE cmd \notin setup.dangerous \ setup.listed /\ setup.level = "allowlist"
    <2>1. CASE setup.mode = "off" BY <1>5, <2>1 DEF Verdict
    <2>2. CASE setup.mode = "always" BY <1>5, <2>2 DEF Verdict
    <2>3. CASE setup.mode = "onmiss" BY <1>5, <2>3 DEF Verdict
    <2> QED BY <2>1, <2>2, <2>3, <1>1
  <1> QED BY <1>1, <1>2, <1>3, <1>4, <1>5

\* Grounds are not withdrawn: a step that lets no further call run and leaves
\* the approvals that were given keeps every ground.
LEMMA GroundStable ==
    ASSUME RunHasGround, setup' = setup,
           \A c \in Calls : granted[c] # "none" => granted'[c] = granted[c],
           \A c \in Calls : call'[c] = "running" => call[c] = "running"
    PROVE  RunHasGround'
  <1>1. \A cmd : Verdict(cmd, {})' = Verdict(cmd, {})
    BY DEF Verdict
  <1>2. \A c \in Calls : ApprovedBefore(c) => ApprovedBefore(c)'
    BY DEF ApprovedBefore
  <1> QED BY <1>1, <1>2 DEF RunHasGround

-----------------------------------------------------------------------------
(* Steps of the tool calls.                                                *)

\* A call moves on without running and without entering the table.
LEMMA CallStep ==
    ASSUME ApprovalInv, NEW c \in Calls, NEW to \in {"asking", "failed"} \cup Listening,
           call[c] \notin Ended,
           to = "asking" => call[c] = "new",
           to \in Listening => call[c] \in Listening /\ inbox' = inbox,
           call' = [call EXCEPT ![c] = to],
           inbox' = inbox \/ inbox' = [inbox EXCEPT ![c] = "empty"],
           UNCHANGED <<setup, pending, approved, op, seen, decisions, granted>>
    PROVE  ApprovalInv'
  <1> USE DEF ApprovalInv
  <1>1. /\ call' \in [Calls -> {"new", "asking"} \cup Listening \cup Ended]
        /\ call'[c] = to
        /\ \A d \in Calls : d # c => call'[d] = call[d]
    BY DEF TypeOK, Ended
  <1>2. /\ inbox' \in [Calls -> Decisions \cup {"empty", "closed"}]
        /\ \A d \in Calls : d # c => inbox'[d] = inbox[d]
        /\ inbox'[c] = inbox[c] \/ inbox'[c] = "empty"
    BY DEF TypeOK
  <1>3. TypeOK'
    BY <1>1, <1>2 DEF TypeOK
  <1>4. ToSet(pending)' = ToSet(pending) /\ ToSet(pending) \subseteq Calls
    BY DEF ToSet, TypeOK
  <1>5. RequestInv'
    BY <1>1, <1>2, <1>4 DEF RequestInv, FreshInv, Listening, Ended
  <1>6. FreshInv'
    BY <1>1, <1>2, <1>4 DEF FreshInv, Listening, Ended
  <1>7. HoldInv'
    BY <1>1, <1>2, <1>4 DEF HoldInv, Holds, Listening, Ended
  <1>8. InboxInv' /\ ApprovedInv'
    BY <1>2 DEF InboxInv, ApprovedInv
  <1>9. RunHasGround'
    BY <1>1, GroundStable DEF Listening
  <1>10. WaitIsReachable'
    BY <1>1, <1>2, <1>4 DEF WaitIsReachable, Listening
  <1>11. RememberedWhenRun'
    BY <1>1 DEF RememberedWhenRun, Listening
  <1> QED BY <1>3, <1>5, <1>6, <1>7, <1>8, <1>9, <1>10, <1>11

\* A call starts to run; its inbox is empty afterwards.
LEMMA RunStep ==
    ASSUME ApprovalInv, NEW c \in Calls,
           call[c] = "new" \/ (call[c] = "waiting" /\ inbox[c] # "empty"),
           call' = [call EXCEPT ![c] = "running"],
           inbox' = [inbox EXCEPT ![c] = "empty"],
           UNCHANGED <<setup, pending, approved, op, seen, decisions, granted>>,
           \/ granted[c] = "once"
           \/ granted[c] = "always" /\ Command[c] \in approved
           \/ /\ granted[c] = "none"
              /\ Kind[c] = "exec"
              /\ Verdict(Command[c], approved) = "running"
    PROVE  ApprovalInv'
  <1> USE DEF ApprovalInv
  <1>1. /\ call' \in [Calls -> {"new", "asking"} \cup Listening \cup Ended]
        /\ call'[c] = "running"
        /\ \A d \in Calls : d # c => call'[d] = call[d]
    BY DEF TypeOK, Ended
  <1>2. /\ inbox' \in [Calls -> Decisions \cup {"empty", "closed"}]
        /\ inbox'[c] = "empty"
        /\ \A d \in Calls : d # c => inbox'[d] = inbox[d]
    BY DEF TypeOK
  <1>3. TypeOK'
    BY <1>1, <1>2 DEF TypeOK
  <1>4. ToSet(pending)' = ToSet(pending) /\ ToSet(pending) \subseteq Calls
    BY DEF ToSet, TypeOK
  <1>5. RequestInv' /\ FreshInv'
    BY <1>1, <1>2, <1>4 DEF RequestInv, FreshInv, Listening
  <1>6. HoldInv'
    BY <1>1, <1>2, <1>4 DEF HoldInv, Holds, Listening
  <1>7. InboxInv' /\ ApprovedInv'
    BY <1>2 DEF InboxInv, ApprovedInv
  <1>8. RunHasGround'
    <2>1. \A cmd : Verdict(cmd, {})' = Verdict(cmd, {})
      BY DEF Verdict
    <2>2. \A d \in Calls : ApprovedBefore(d) => ApprovedBefore(d)'
      BY DEF ApprovedBefore
    <2>3. Command[c] \in approved => ApprovedBefore(c)
      BY DEF ApprovedInv, ApprovedBefore
    <2>4. Verdict(Command[c], approved) = "running" =>
             \/ Verdict(Command[c], {}) = "running"
             \/ /\ setup.mode = "onmiss"
                /\ Command[c] \notin setup.dangerous \ setup.listed
                /\ Command[c] \in approved
      BY VerdictFacts
    <2> QED BY <1>1, <2>1, <2>2, <2>3, <2>4 DEF RunHasGround
  <1>9. WaitIsReachable'
    BY <1>1, <1>2, <1>4 DEF WaitIsReachable, Listening
  <1>10. RememberedWhenRun'
    BY <1>1 DEF RememberedWhenRun
  <1> QED BY <1>3, <1>5, <1>6, <1>7, <1>8, <1>9, <1>10

\* The first check keeps the invariant: what it lets run is recorded as grounded
\* by the configuration or by an approved command (check_command).
LEMMA CheckInv == ASSUME ApprovalInv, NEW c \in Calls, Check(c) PROVE ApprovalInv'
  <1>1. /\ granted[c] = "none" /\ inbox[c] = "empty" /\ call[c] = "new"
        /\ inbox' = inbox /\ inbox' = [inbox EXCEPT ![c] = "empty"]
        /\ UNCHANGED <<setup, pending, approved, op, seen, decisions, granted>>
    BY DEF ApprovalInv, Check, FreshInv, TypeOK
  <1>2. CASE call' = [call EXCEPT ![c] = "running"]
    <2>1. Kind[c] = "exec" /\ Verdict(Command[c], approved) = "running"
      BY <1>1, <1>2 DEF ApprovalInv, Check, TypeOK
    <2> QED BY <1>1, <1>2, <2>1, RunStep
  <1>3. CASE \E to \in {"asking", "failed"} : call' = [call EXCEPT ![c] = to]
    <2>1. PICK to \in {"asking", "failed"} : call' = [call EXCEPT ![c] = to]
      BY <1>3
    <2> QED BY <1>1, <2>1, CallStep DEF Ended, Listening
  <1>4. Verdict(Command[c], approved) \in {"failed", "asking", "running"}
    BY VerdictFacts DEF ApprovalInv
  <1> QED BY <1>2, <1>3, <1>4 DEF Check

\* Broadcasting a request keeps the invariant (broadcast_request).
LEMMA AnnounceInv == ASSUME ApprovalInv, NEW c \in Calls, Announce(c) PROVE ApprovalInv'
  BY CallStep DEF Announce, Ended, Listening

\* A deadline that passes keeps the invariant: the call ends without running and
\* its request stays in the table (wait_for_decision).
LEMMA TimeOutInv == ASSUME ApprovalInv, NEW c \in Calls, TimeOut(c) PROVE ApprovalInv'
  BY CallStep DEF TimeOut, Ended, Listening

\* Dropping the future of a waiting call keeps the invariant.
LEMMA AbortInv == ASSUME ApprovalInv, NEW c \in Calls, Abort(c) PROVE ApprovalInv'
  BY CallStep DEF Abort, Ended, Listening

\* A call that takes its decision keeps the invariant: it runs by an approval
\* that was made for it (the end of require_approval).
LEMMA ReceiveInv == ASSUME ApprovalInv, NEW c \in Calls, Receive(c) PROVE ApprovalInv'
  <1>1. CASE inbox[c] \in {"once", "always"}
    <2>1. granted[c] = "once" \/ (granted[c] = "always" /\ Command[c] \in approved)
      BY <1>1 DEF ApprovalInv, InboxInv
    <2>2. /\ call[c] = "waiting" /\ inbox[c] # "empty"
          /\ call' = [call EXCEPT ![c] = "running"]
          /\ inbox' = [inbox EXCEPT ![c] = "empty"]
          /\ UNCHANGED <<setup, pending, approved, op, seen, decisions, granted>>
      BY <1>1 DEF Receive
    <2> QED BY <2>1, <2>2, RunStep
  <1>2. CASE inbox[c] \notin {"once", "always"}
    BY <1>2, CallStep DEF Receive, Ended, Listening
  <1> QED BY <1>1, <1>2

\* A new request keeps the invariant: the call gets an entry of its own at the
\* end of the table (create_request).
LEMMA CreateInv == ASSUME ApprovalInv, NEW c \in Calls, Create(c) PROVE ApprovalInv'
  <1> USE DEF ApprovalInv
  <1>1. /\ call[c] = "asking" /\ c \notin ToSet(pending)
        /\ inbox[c] = "empty" /\ granted[c] = "none"
        /\ UNCHANGED <<setup, inbox, approved, op, seen, decisions, granted>>
        /\ \A o \in Operators : ~Holds(o)
    BY DEF Create, FreshInv, Locked, Holds
  <1>2. /\ call' \in [Calls -> {"new", "asking"} \cup Listening \cup Ended]
        /\ call'[c] \in Listening
        /\ \A d \in Calls : d # c => call'[d] = call[d]
    BY DEF Create, TypeOK, Listening
  <1>3. /\ pending' \in Seq(Calls) /\ IsInjective(pending)'
        /\ ToSet(pending)' = ToSet(pending) \cup {c}
    <2>1. PICK i \in 1..Len(pending) + 1 : pending' = InsertAt(pending, i, c)
      BY DEF Create
    <2>2. pending \in Seq(Calls) /\ IsInjective(pending)
      BY DEF TypeOK
    <2>3. /\ InsertAt(pending, i, c) \in Seq(Calls)
          /\ ToSet(InsertAt(pending, i, c)) = ToSet(pending) \cup {c}
          /\ IsInjective(InsertAt(pending, i, c))
      BY <1>1, <2>2, InsertFacts
    <2>4. ToSet(pending)' = ToSet(pending') /\ (IsInjective(pending)' <=> IsInjective(pending'))
      BY DEF ToSet, IsInjective
    <2> QED BY <2>1, <2>3, <2>4
  <1>4. ToSet(pending) \subseteq Calls
    BY DEF ToSet, TypeOK
  <1>5. TypeOK'
    BY <1>1, <1>2, <1>3 DEF TypeOK
  <1>6. RequestInv'
    BY <1>1, <1>2, <1>3, <1>4 DEF RequestInv
  <1>7. FreshInv'
    BY <1>1, <1>2, <1>3 DEF FreshInv, Listening
  <1>8. HoldInv'
    BY <1>1 DEF HoldInv, Holds
  <1>9. InboxInv' /\ ApprovedInv'
    BY <1>1 DEF InboxInv, ApprovedInv
  <1>10. RunHasGround'
    BY <1>1, <1>2, GroundStable DEF Listening
  <1>11. WaitIsReachable'
    BY <1>1, <1>2, <1>3 DEF WaitIsReachable, Holds
  <1>12. RememberedWhenRun'
    BY <1>1, <1>2 DEF RememberedWhenRun, Listening
  <1> QED BY <1>5, <1>6, <1>7, <1>8, <1>9, <1>10, <1>11, <1>12

-----------------------------------------------------------------------------
(* Steps of the operators.                                                 *)

OpType == [at : {"idle", "chosen", "held", "sending"}, on : Calls \cup {NoCall},
           num : Nat, as : Decisions]

\* The lists that were shown and the count of decisions bear on nothing else.
LEMMA ViewStep ==
    ASSUME ApprovalInv, seen' \in [Channels -> Seq(Calls)], decisions' \in 0..MaxDecisions,
           UNCHANGED <<setup, call, pending, inbox, approved, granted>>,
           NEW o \in Operators, NEW v \in OpType,
           op' = op \/ op' = [op EXCEPT ![o] = v],
           ~Holds(o), v.at \in {"idle", "chosen"}, v.at = "chosen" => v.on \in Calls
    PROVE  ApprovalInv'
  <1> USE DEF ApprovalInv
  <1>1. op' \in [Operators -> OpType]
    BY DEF TypeOK, OpType
  <1>2. \A p \in Operators : op'[p] = op[p] \/ (p = o /\ op'[p] = v)
    BY DEF TypeOK
  <1>3. \A p \in Operators : Holds(p)' <=> Holds(p)
    BY <1>2 DEF Holds
  <1>4. \A p \in Operators : Holds(p) => op'[p] = op[p]
    BY <1>2, <1>3 DEF Holds
  <1>5. TypeOK'
    BY <1>1 DEF TypeOK, OpType
  <1>6. ToSet(pending)' = ToSet(pending)
    BY DEF ToSet
  <1>7. RequestInv' /\ FreshInv' /\ InboxInv' /\ ApprovedInv' /\ RememberedWhenRun'
    BY <1>6 DEF RequestInv, FreshInv, InboxInv, ApprovedInv, RememberedWhenRun
  <1>8. HoldInv'
    <2>1. \A p \in Operators : op'[p].at # "idle" => op'[p].on \in Calls
      BY <1>2 DEF HoldInv
    <2> QED BY <2>1, <1>3, <1>4, <1>6 DEF HoldInv
  <1>9. RunHasGround'
    BY GroundStable
  <1>10. WaitIsReachable'
    BY <1>3, <1>4, <1>6 DEF WaitIsReachable, Holds
  <1> QED BY <1>5, <1>7, <1>8, <1>9, <1>10

\* An operator with nothing in progress is one of the operator states.
LEMMA IdleFacts == Idle \in OpType /\ Idle.at = "idle"
  BY DEF Idle, OpType, Decisions

\* Reading the list of requests keeps the invariant (handle_approvals).
LEMMA ListInv == ASSUME ApprovalInv, NEW o \in Channels, List(o) PROVE ApprovalInv'
  <1>1. PICK q \in Listing(ChannelSession[o]) : seen' = [seen EXCEPT ![o] = q]
    BY DEF List
  <1>2. q \in Seq(Calls)
    BY ListingFacts DEF ApprovalInv
  <1>3. seen' \in [Channels -> Seq(Calls)] /\ decisions' \in 0..MaxDecisions
    BY <1>1, <1>2 DEF ApprovalInv, TypeOK, List
  <1>4. ~Holds(o)
    BY IdleFacts DEF List, Holds
  <1>5. o \in Operators
    BY DEF Operators
  <1> QED BY <1>3, <1>4, <1>5, IdleFacts, ViewStep DEF List

\* Choosing a request by its number keeps the invariant: the number is looked up
\* in a list computed anew (handle_approve_deny).
LEMMA ChannelDecidesInv ==
    ASSUME ApprovalInv, NEW o \in Channels, ChannelDecides(o) PROVE ApprovalInv'
  <1>a. PICK q \in Listing(ChannelSession[o]) : \E n \in DOMAIN q, d \in {"denied", "always"} :
           op' = [op EXCEPT ![o] = [at |-> "chosen", on |-> q[n], num |-> n, as |-> d]]
    BY DEF ChannelDecides
  <1>1. PICK n \in DOMAIN q, d \in {"denied", "always"} :
           op' = [op EXCEPT ![o] = [at |-> "chosen", on |-> q[n], num |-> n, as |-> d]]
    BY <1>a
  <1> DEFINE v == [at |-> "chosen", on |-> q[n], num |-> n, as |-> d]
  <1>2. q \in Seq(Calls)
    BY ListingFacts DEF ApprovalInv
  <1>3. n \in Nat /\ q[n] \in Calls
    BY <1>2
  <1>4. v \in OpType /\ v.at = "chosen" /\ v.on \in Calls
    BY <1>3 DEF OpType, Decisions
  <1>5. seen' \in [Channels -> Seq(Calls)] /\ decisions' \in 0..MaxDecisions
    BY ApprovalAssumption DEF ApprovalInv, TypeOK, ChannelDecides
  <1>6. ~Holds(o) /\ o \in Operators
    BY IdleFacts DEF ChannelDecides, Holds, Operators
  <1>7. UNCHANGED <<setup, call, pending, inbox, approved, granted>> /\ op' = [op EXCEPT ![o] = v]
    BY <1>1 DEF ChannelDecides
  <1> HIDE DEF v
  <1> QED BY <1>4, <1>5, <1>6, <1>7, ViewStep

\* Taking a request out of the table decides it: what is true then whatever
\* the decision is.
LEMMA TakenFacts ==
    ASSUME ApprovalInv, NEW o \in Operators, NEW c \in Calls, NEW d \in Decisions,
           Resolve(o, c, d)
    PROVE  /\ c \in ToSet(pending)
           /\ pending' \in Seq(Calls) /\ IsInjective(pending)'
           /\ ToSet(pending)' = ToSet(pending) \ {c}
           /\ granted' \in [Calls -> {"none", "once", "always"}]
           /\ granted'[c] = IF d = "denied" THEN "none" ELSE d
           /\ \A e \in Calls : e # c => granted'[e] = granted[e]
           /\ call[c] \in Listening \cup {"failed"} /\ inbox[c] = "empty" /\ granted[c] = "none"
           /\ \A p \in Operators : ~Holds(p)
           /\ setup' = setup /\ call' = call /\ approved' = approved /\ seen' = seen
  <1>1. PICK i \in DOMAIN pending : pending[i] = c /\ pending' = RemoveAt(pending, i)
    BY DEF Resolve
  <1>2. pending \in Seq(Calls) /\ IsInjective(pending)
    BY DEF ApprovalInv, TypeOK
  <1>3. /\ RemoveAt(pending, i) \in Seq(Calls)
        /\ ToSet(RemoveAt(pending, i)) = ToSet(pending) \ {c}
        /\ IsInjective(RemoveAt(pending, i))
    BY <1>1, <1>2, RemoveFacts
  <1>4. ToSet(pending)' = ToSet(pending') /\ (IsInjective(pending)' <=> IsInjective(pending'))
    BY DEF ToSet, IsInjective
  <1>5. c \in ToSet(pending)
    BY <1>1 DEF ToSet
  <1>6. /\ granted' \in [Calls -> {"none", "once", "always"}]
        /\ granted'[c] = IF d = "denied" THEN "none" ELSE d
        /\ \A e \in Calls : e # c => granted'[e] = granted[e]
    BY DEF ApprovalInv, TypeOK, Resolve, Decisions
  <1>7. \A p \in Operators : ~Holds(p)
    BY DEF Resolve, Locked, Holds
  <1>8. call[c] \in Listening \cup {"failed"} /\ inbox[c] = "empty" /\ granted[c] = "none"
    BY <1>5 DEF ApprovalInv, RequestInv
  <1> QED BY <1>1, <1>3, <1>4, <1>5, <1>6, <1>7, <1>8 DEF Resolve

\* Taking a request out of the table keeps the invariant: whoever takes it out
\* has to send, and nobody else holds it (resolve).
LEMMA ResolveInv ==
    ASSUME ApprovalInv, NEW o \in Operators, NEW c \in Calls, NEW d \in Decisions,
           Resolve(o, c, d), decisions' \in 0..MaxDecisions
    PROVE  ApprovalInv'
  <1> USE DEF ApprovalInv
  <1> DEFINE v == IF d = "always" THEN [at |-> "held", on |-> c, num |-> 0, as |-> d] ELSE Idle
  <1>1. /\ c \in ToSet(pending)
        /\ pending' \in Seq(Calls) /\ IsInjective(pending)'
        /\ ToSet(pending)' = ToSet(pending) \ {c}
        /\ granted' \in [Calls -> {"none", "once", "always"}]
        /\ granted'[c] = IF d = "denied" THEN "none" ELSE d
        /\ \A e \in Calls : e # c => granted'[e] = granted[e]
        /\ call[c] \in Listening \cup {"failed"} /\ inbox[c] = "empty" /\ granted[c] = "none"
        /\ \A p \in Operators : ~Holds(p)
        /\ setup' = setup /\ call' = call /\ approved' = approved /\ seen' = seen
    BY TakenFacts
  <1>2. op' = [op EXCEPT ![o] = v]
    BY DEF Resolve
  <1>3. /\ v \in OpType
        /\ d # "always" => v.at = "idle"
        /\ d = "always" => v.at = "held" /\ v.on = c /\ v.as = "always"
    BY DEF OpType, Decisions, Idle
  <1> HIDE DEF v
  <1>4. /\ op' \in [Operators -> OpType]
        /\ op'[o] = v
        /\ \A p \in Operators : p # o => op'[p] = op[p]
    BY <1>2, <1>3 DEF TypeOK, OpType
  <1>5. /\ inbox' \in [Calls -> Decisions \cup {"empty", "closed"}]
        /\ \A e \in Calls : e # c => inbox'[e] = inbox[e]
        /\ inbox'[c] = IF d # "always" /\ call[c] \in Listening THEN d ELSE "empty"
    <2>1. CASE d = "always"
      <3>1. inbox' = inbox BY <2>1 DEF Resolve
      <3> QED BY <3>1, <2>1, <1>1 DEF TypeOK
    <2>2. CASE d # "always"
      <3>1. inbox' = Sent(c, d) BY <2>2 DEF Resolve
      <3> QED BY <3>1, <2>2, <1>1 DEF TypeOK, Sent
    <2> QED BY <2>1, <2>2
  <1>6. ToSet(pending) \subseteq Calls
    BY DEF ToSet, TypeOK
  <1>7. TypeOK'
    BY <1>1, <1>4, <1>5 DEF TypeOK, OpType
  <1>8. RequestInv'
    BY <1>1, <1>5, <1>6 DEF RequestInv
  <1>9. FreshInv'
    BY <1>1, <1>5 DEF FreshInv, Listening
  <1>10. HoldInv'
    <2>1. \A p \in Operators : Holds(p)' => p = o /\ d = "always"
      BY <1>1, <1>3, <1>4 DEF Holds
    <2>2. \A p \in Operators : op'[p].at # "idle" => op'[p].on \in Calls
      BY <1>3, <1>4 DEF HoldInv
    <2> QED BY <2>1, <2>2, <1>1, <1>3, <1>4, <1>5 DEF HoldInv
  <1>11. InboxInv'
    BY <1>1, <1>5 DEF InboxInv, Decisions
  <1>12. ApprovedInv'
    BY <1>1 DEF ApprovedInv
  <1>13. RunHasGround'
    BY <1>1, GroundStable
  <1>14. WaitIsReachable'
    BY <1>1, <1>3, <1>4, <1>5 DEF WaitIsReachable, Holds, Decisions
  <1>15. RememberedWhenRun'
    BY <1>1 DEF RememberedWhenRun, Listening
  <1> QED BY <1>7, <1>8, <1>9, <1>10, <1>11, <1>12, <1>13, <1>14, <1>15

\* A client's decision keeps the invariant (LiveExecApprovalService::resolve).
LEMMA ClientDecidesInv ==
    ASSUME ApprovalInv, NEW o \in Clients, ClientDecides(o) PROVE ApprovalInv'
  <1>1. decisions' \in 0..MaxDecisions
    BY ApprovalAssumption DEF ApprovalInv, TypeOK, ClientDecides
  <1>2. o \in Operators
    BY DEF Operators
  <1> QED BY <1>1, <1>2, ResolveInv DEF ClientDecides

\* A chat's decision keeps the invariant, also when the request chosen has been
\* decided meanwhile (the second half of handle_approve_deny).
LEMMA ChannelResolvesInv ==
    ASSUME ApprovalInv, NEW o \in Channels, ChannelResolves(o) PROVE ApprovalInv'
  <1>1. o \in Operators /\ op[o].on \in Calls /\ op[o].as \in Decisions
    BY DEF Operators, ApprovalInv, HoldInv, TypeOK, ChannelResolves
  <1>2. decisions' \in 0..MaxDecisions
    BY DEF ApprovalInv, TypeOK, ChannelResolves
  <1>3. CASE Resolve(o, op[o].on, op[o].as)
    BY <1>1, <1>2, <1>3, ResolveInv
  <1>4. CASE /\ op' = [op EXCEPT ![o] = Idle]
             /\ UNCHANGED <<setup, call, pending, inbox, approved, seen, granted>>
    <2>1. ~Holds(o)
      BY DEF ChannelResolves, Holds
    <2>2. seen' \in [Channels -> Seq(Calls)]
      BY <1>4 DEF ApprovalInv, TypeOK
    <2> QED BY <1>1, <1>2, <1>4, <2>1, <2>2, IdleFacts, ViewStep
  <1> QED BY <1>3, <1>4 DEF ChannelResolves

\* A resolve goes on to its next step: it remembers, or it answers and ends.
LEMMA RememberInv == ASSUME ApprovalInv, NEW o \in Operators, Remember(o) PROVE ApprovalInv'
  <1> USE DEF ApprovalInv
  <1> DEFINE c == op[o].on
  <1>1. /\ c \in Calls /\ Holds(o) /\ granted[c] = "always"
        /\ \A p \in Operators : Holds(p) => p = o
        /\ UNCHANGED <<setup, call, pending, inbox, seen, decisions, granted>>
        /\ approved' = approved \cup {Command[c]}
    BY DEF Remember, HoldInv, Holds
  <1>2. /\ op' \in [Operators -> OpType]
        /\ op'[o].at = "sending" /\ op'[o].on = c /\ op'[o].as = op[o].as
        /\ \A p \in Operators : p # o => op'[p] = op[p]
    BY DEF Remember, TypeOK, OpType
  <1> HIDE DEF c
  <1>3. Command[c] \in Commands
    BY <1>1 DEF Commands
  <1>4. TypeOK'
    BY <1>1, <1>2, <1>3 DEF TypeOK, OpType
  <1>5. ToSet(pending)' = ToSet(pending)
    BY <1>1 DEF ToSet
  <1>6. RequestInv' /\ FreshInv' /\ InboxInv' /\ RememberedWhenRun'
    BY <1>1, <1>5 DEF RequestInv, FreshInv, InboxInv, RememberedWhenRun
  <1>7. ApprovedInv'
    BY <1>1 DEF ApprovedInv
  <1>8. HoldInv'
    <2>1. \A p \in Operators : Holds(p)' => p = o
      BY <1>1, <1>2 DEF Holds
    <2>2. /\ op[o].as = "always" /\ c \notin ToSet(pending)
          /\ call[c] \in Listening \cup {"failed"} /\ inbox[c] = "empty"
      BY <1>1 DEF HoldInv, c
    <2>3. \A p \in Operators : op'[p].at # "idle" => op'[p].on \in Calls
      BY <1>1, <1>2 DEF HoldInv
    <2> QED BY <2>1, <2>2, <2>3, <1>1, <1>2, <1>5 DEF HoldInv
  <1>9. RunHasGround'
    BY <1>1, GroundStable
  <1>10. WaitIsReachable'
    <2>1. \A p \in Operators : p # o => ~Holds(p)
      BY <1>1
    <2> QED BY <2>1, <1>1, <1>2, <1>5 DEF WaitIsReachable, Holds, c
  <1> QED BY <1>4, <1>6, <1>7, <1>8, <1>9, <1>10

\* Ending a resolve answers the channel, with the decision or by closing it.
LEMMA EndResolve ==
    ASSUME ApprovalInv, NEW o \in Operators, Holds(o), NEW a \in {"always", "closed"},
           a = "always" => op[o].at = "sending",
           inbox' = Sent(op[o].on, a), op' = [op EXCEPT ![o] = Idle],
           UNCHANGED <<setup, call, pending, approved, seen, decisions, granted>>
    PROVE  ApprovalInv'
  <1> USE DEF ApprovalInv
  <1> DEFINE c == op[o].on
  <1>1. /\ c \in Calls /\ granted[c] = "always" /\ c \notin ToSet(pending)
        /\ call[c] \in Listening \cup {"failed"} /\ inbox[c] = "empty"
        /\ a = "always" => Command[c] \in approved
        /\ \A p \in Operators : Holds(p) => p = o
    BY DEF HoldInv, Holds
  <1>2. /\ op' \in [Operators -> OpType]
        /\ op'[o] = Idle
        /\ \A p \in Operators : p # o => op'[p] = op[p]
    BY IdleFacts DEF TypeOK, OpType
  <1>3. inbox' = Sent(c, a)
    OBVIOUS
  <1>4. \A p \in Operators : Holds(p) => op[p].on = c
    BY <1>1
  <1> HIDE DEF c
  <1>5. /\ inbox' \in [Calls -> Decisions \cup {"empty", "closed"}]
        /\ \A e \in Calls : e # c => inbox'[e] = inbox[e]
        /\ inbox'[c] = IF call[c] \in Listening THEN a ELSE "empty"
    BY <1>1, <1>3 DEF TypeOK, Sent, Decisions
  <1>6. TypeOK'
    BY <1>2, <1>5 DEF TypeOK, OpType
  <1>7. ToSet(pending)' = ToSet(pending) /\ ToSet(pending) \subseteq Calls
    BY DEF ToSet, TypeOK
  <1>8. RequestInv' /\ ApprovedInv' /\ RememberedWhenRun'
    BY <1>1, <1>5, <1>7 DEF RequestInv, ApprovedInv, RememberedWhenRun
  <1>9. FreshInv'
    BY <1>1, <1>5, <1>7 DEF FreshInv, Listening
  <1>10. InboxInv'
    BY <1>1, <1>5 DEF InboxInv
  <1>11. HoldInv'
    <2>1. \A p \in Operators : ~Holds(p)'
      BY <1>1, <1>2, IdleFacts DEF Holds
    <2>2. \A p \in Operators : op'[p].at # "idle" => op'[p].on \in Calls
      BY <1>2, IdleFacts DEF HoldInv
    <2> QED BY <2>1, <2>2 DEF HoldInv
  <1>12. RunHasGround'
    BY GroundStable
  <1>13. WaitIsReachable'
    BY <1>1, <1>4, <1>5, <1>7 DEF WaitIsReachable, Holds
  <1> QED BY <1>6, <1>8, <1>9, <1>10, <1>11, <1>12, <1>13

\* Sending the decision keeps the invariant: the call, if it still waits, finds
\* it in its channel (the send of resolve).
LEMMA SendInv == ASSUME ApprovalInv, NEW o \in Operators, Send(o) PROVE ApprovalInv'
  <1>1. Holds(o) /\ op[o].at = "sending"
    BY DEF Send, Holds
  <1>2. op[o].as = "always"
    BY <1>1 DEF ApprovalInv, HoldInv
  <1> QED BY <1>1, <1>2, EndResolve DEF Send

\* A client that goes away in the middle of its decision keeps the invariant: the
\* sender it held is dropped and the call is refused.
LEMMA DropInv == ASSUME ApprovalInv, NEW o \in Clients, Drop(o) PROVE ApprovalInv'
  <1>1. Holds(o) /\ o \in Operators
    BY DEF Drop, Holds, Operators
  <1> QED BY <1>1, EndResolve DEF Drop

-----------------------------------------------------------------------------
\* Every step keeps the invariant.
LEMMA NextApprovalInv == ApprovalInv /\ [Next]_vars => ApprovalInv'
  <1> SUFFICES ASSUME ApprovalInv, [Next]_vars PROVE ApprovalInv' OBVIOUS
  <1>1. ASSUME NEW c \in Calls,
               Check(c) \/ Create(c) \/ Announce(c) \/ Receive(c) \/ TimeOut(c) \/ Abort(c)
        PROVE  ApprovalInv'
    BY <1>1, CheckInv, CreateInv, AnnounceInv, ReceiveInv, TimeOutInv, AbortInv
  <1>2. ASSUME NEW o \in Clients, ClientDecides(o) \/ Drop(o) PROVE ApprovalInv'
    BY <1>2, ClientDecidesInv, DropInv
  <1>3. ASSUME NEW o \in Channels, List(o) \/ ChannelDecides(o) \/ ChannelResolves(o)
        PROVE  ApprovalInv'
    BY <1>3, ListInv, ChannelDecidesInv, ChannelResolvesInv
  <1>4. ASSUME NEW o \in Operators, Remember(o) \/ Send(o) PROVE ApprovalInv'
    BY <1>4, RememberInv, SendInv
  <1>5. CASE UNCHANGED vars
    <2> USE <1>5 DEF ApprovalInv, vars
    <2>1. TypeOK' BY DEF TypeOK, IsInjective
    <2>2. ToSet(pending)' = ToSet(pending) BY DEF ToSet
    <2>3. RequestInv' /\ FreshInv' BY <2>2 DEF RequestInv, FreshInv
    <2>4. HoldInv' BY <2>2 DEF HoldInv, Holds
    <2>5. InboxInv' /\ ApprovedInv' BY DEF InboxInv, ApprovedInv
    <2>6. RunHasGround' BY GroundStable
    <2>7. WaitIsReachable' BY <2>2 DEF WaitIsReachable
    <2>8. RememberedWhenRun' BY DEF RememberedWhenRun
    <2> QED BY <2>1, <2>3, <2>4, <2>5, <2>6, <2>7, <2>8
  <1> QED BY <1>1, <1>2, <1>3, <1>4, <1>5 DEF Next

\* The invariant holds in every state of every execution.
LEMMA ApprovalInvHolds == Spec => []ApprovalInv
  <1> QED BY InitApprovalInv, NextApprovalInv, PTL DEF Spec

\* Every variable keeps its type, and the table never holds a request twice.
THEOREM TypesHold == Spec => []TypeOK
  BY ApprovalInvHolds, PTL DEF ApprovalInv

\* No tool call runs without a ground: the configuration, its own approval, or
\* an earlier approval of the same text in on-miss mode (check_command, resolve).
THEOREM RunsHaveGround == Spec => []RunHasGround
  BY ApprovalInvHolds, PTL DEF ApprovalInv

\* A call that waits can be reached by its decision (create_request, resolve).
THEOREM WaitsAreReachable == Spec => []WaitIsReachable
  BY ApprovalInvHolds, PTL DEF ApprovalInv

\* A call approved with its command runs after the command was remembered
\* (resolve).
THEOREM RemembersBeforeRun == Spec => []RememberedWhenRun
  BY ApprovalInvHolds, PTL DEF ApprovalInv

-----------------------------------------------------------------------------
(* Numbers in a list.                                                      *)

Asked(c) == call[c] \notin {"new", "asking"}

\* What was shown to a channel operator is in the order of the table still, as
\* far as it is there: a request never comes back, and none changes its place.
SeenInv ==
    \A o \in Channels :
        /\ IsInjective(seen[o])
        /\ \A c \in ToSet(seen[o]) : Asked(c)
        /\ \A i, j \in DOMAIN seen[o] :
              i < j /\ {seen[o][i], seen[o][j]} \subseteq ToSet(pending) =>
                  Precedes(pending, seen[o][i], seen[o][j])

\* Steps that show nothing keep it, if they keep the order of the requests
\* that have been made.
LEMMA SeenStable ==
    ASSUME TypeOK, SeenInv, seen' = seen,
           \A c \in Calls : Asked(c) => Asked(c)',
           \A c \in Calls : c \in ToSet(pending)' /\ Asked(c) => c \in ToSet(pending),
           \A c, d \in ToSet(pending)' :
              Precedes(pending, c, d) => Precedes(pending', c, d)
    PROVE  SeenInv'
  <1> SUFFICES ASSUME NEW o \in Channels
               PROVE  /\ IsInjective(seen[o])
                      /\ \A c \in ToSet(seen[o]) : Asked(c)'
                      /\ \A i, j \in DOMAIN seen[o] :
                            i < j /\ {seen[o][i], seen[o][j]} \subseteq ToSet(pending)' =>
                                Precedes(pending', seen[o][i], seen[o][j])
    BY DEF SeenInv, IsInjective, ToSet, Precedes
  <1>1. \A i \in DOMAIN seen[o] : seen[o][i] \in Calls /\ Asked(seen[o][i])
    BY DEF TypeOK, SeenInv, ToSet
  <1>2. \A c \in ToSet(seen[o]) : Asked(c)'
    BY <1>1 DEF ToSet
  <1> QED BY <1>1, <1>2 DEF SeenInv

\* Every step keeps what an operator has seen sorted: requests leave the table
\* or join it behind all those that were listed.
LEMMA NextSeenInv == ApprovalInv /\ SeenInv /\ [Next]_vars => SeenInv'
  <1> SUFFICES ASSUME ApprovalInv, SeenInv, [Next]_vars PROVE SeenInv' OBVIOUS
  <1> USE DEF ApprovalInv
  <1>1. ASSUME NEW c \in Calls, Create(c) PROVE SeenInv'
    <2>1. PICK i \in 1..Len(pending) + 1 : pending' = InsertAt(pending, i, c)
      BY <1>1 DEF Create
    <2>2. c \notin ToSet(pending) /\ ~Asked(c)
      BY <1>1 DEF Create, FreshInv, Asked
    <2>3. pending \in Seq(Calls) /\ IsInjective(pending)
      BY DEF TypeOK
    <2>4. /\ ToSet(InsertAt(pending, i, c)) = ToSet(pending) \cup {c}
          /\ \A d, e : Precedes(pending, d, e) => Precedes(InsertAt(pending, i, c), d, e)
      BY <2>2, <2>3, InsertFacts
    <2>5. ToSet(pending)' = ToSet(pending') BY DEF ToSet
    <2>6. \A d \in Calls : Asked(d) => Asked(d)'
      BY <1>1 DEF Create, Asked, TypeOK
    <2> QED BY <1>1, <2>1, <2>2, <2>4, <2>5, <2>6, SeenStable DEF Create
  <1>2. ASSUME NEW o \in Operators, NEW c \in Calls, NEW d \in Decisions, Resolve(o, c, d)
        PROVE  SeenInv'
    <2>1. PICK i \in DOMAIN pending : pending[i] = c /\ pending' = RemoveAt(pending, i)
      BY <1>2 DEF Resolve
    <2>2. pending \in Seq(Calls) /\ IsInjective(pending)
      BY DEF TypeOK
    <2>3. /\ ToSet(RemoveAt(pending, i)) = ToSet(pending) \ {c}
          /\ \A e, f : Precedes(pending, e, f) /\ c \notin {e, f} =>
                Precedes(RemoveAt(pending, i), e, f)
      BY <2>1, <2>2, RemoveFacts
    <2>4. ToSet(pending)' = ToSet(pending') BY DEF ToSet
    <2>5. \A e \in Calls : Asked(e) => Asked(e)'
      BY <1>2 DEF Resolve, Asked
    <2> QED BY <1>2, <2>1, <2>3, <2>4, <2>5, SeenStable DEF Resolve
  <1>3. ASSUME NEW o \in Channels, List(o) PROVE SeenInv'
    <2>1. PICK q \in Listing(ChannelSession[o]) : seen' = [seen EXCEPT ![o] = q]
      BY <1>3 DEF List
    <2>2. pending' = pending /\ call' = call
      BY <1>3 DEF List
    <2>3. /\ q \in Seq(Calls) /\ IsInjective(q)
          /\ ToSet(q) = Visible(ChannelSession[o])
          /\ \A i, j \in DOMAIN q : i < j => Precedes(pending, q[i], q[j])
      BY ListingFacts
    <2>4. \A c \in ToSet(q) : Asked(c)
      BY <2>3 DEF Visible, RequestInv, Asked, Listening
    <2>5. /\ seen'[o] = q
          /\ \A r \in Channels : r # o => seen'[r] = seen[r]
      BY <2>1 DEF TypeOK
    <2>6. \A r \in Channels : /\ IsInjective(seen'[r])
                              /\ \A c \in ToSet(seen'[r]) : Asked(c)
                              /\ \A i, j \in DOMAIN seen'[r] :
                                    i < j /\ {seen'[r][i], seen'[r][j]} \subseteq ToSet(pending) =>
                                        Precedes(pending, seen'[r][i], seen'[r][j])
      BY <2>3, <2>4, <2>5 DEF SeenInv
    <2> QED BY <2>2, <2>6 DEF SeenInv, IsInjective, ToSet, Asked, Precedes
  <1>4. ASSUME UNCHANGED <<pending, seen>>, \A c \in Calls : Asked(c) => Asked(c)'
        PROVE  SeenInv'
    BY <1>4, SeenStable DEF ToSet
  <1>5. ASSUME NEW c \in Calls,
               Check(c) \/ Announce(c) \/ Receive(c) \/ TimeOut(c) \/ Abort(c)
        PROVE  SeenInv'
    <2>1. UNCHANGED <<pending, seen>>
      BY <1>5 DEF Check, Announce, Receive, TimeOut, Abort
    <2>2. \A d \in Calls : Asked(d) => Asked(d)'
      BY <1>5 DEF Asked, TypeOK, Check, Announce, Receive, TimeOut, Abort
    <2> QED BY <2>1, <2>2, <1>4
  <1>6. ASSUME UNCHANGED <<pending, seen, call>> PROVE SeenInv'
    BY <1>4, <1>6 DEF Asked
  <1>7. ASSUME NEW o \in Channels, ChannelResolves(o) PROVE SeenInv'
    <2>1. o \in Operators /\ op[o].on \in Calls /\ op[o].as \in Decisions
      BY <1>7 DEF Operators, HoldInv, TypeOK, ChannelResolves
    <2> QED BY <2>1, <1>2, <1>6, <1>7 DEF ChannelResolves
  <1>8. ASSUME NEW o \in Clients, ClientDecides(o) PROVE SeenInv'
    BY <1>2, <1>8 DEF ClientDecides, Operators
  <1>9. ASSUME NEW o \in Operators, Drop(o) \/ ChannelDecides(o) \/ Remember(o) \/ Send(o)
        PROVE  SeenInv'
    BY <1>6, <1>9 DEF Drop, ChannelDecides, Remember, Send
  <1>10. CASE UNCHANGED vars
    BY <1>6, <1>10 DEF vars
  <1> QED BY <1>1, <1>3, <1>5, <1>7, <1>8, <1>9, <1>10 DEF Next, Operators

\* A number names the request it was shown for: a decision by number concerns
\* the chat's own session, and the request listed under the number as long as
\* the session's requests are those of the list (pending_requests_for_session).
THEOREM NumbersNameRequests == Spec => NumberNamesRequest
  <1> DEFINE Named == \A o \in Channels : op[o].at = "idle" /\ op'[o].at = "chosen" =>
                         LET s == ChannelSession[o]
                             c == op'[o].on
                         IN  /\ Session[c] = s
                             /\ ToSet(seen[o]) = Visible(s) => c = seen[o][op'[o].num]
  <1>1. Init => SeenInv
    BY DEF Init, SeenInv, IsInjective, ToSet
  <1>2. ASSUME ApprovalInv, SeenInv, [Next]_vars PROVE [Named]_vars
    <2> USE <1>2 DEF ApprovalInv
    <2>1. ASSUME NEW o \in Channels, op[o].at = "idle", op'[o].at = "chosen"
          PROVE  ChannelDecides(o)
      <3>1. op' # op
        BY <2>1
      <3>2. ~(\E c \in Calls : \/ Check(c) \/ Create(c) \/ Announce(c) \/ Receive(c)
                               \/ TimeOut(c) \/ Abort(c))
        BY <3>1 DEF Check, Create, Announce, Receive, TimeOut, Abort
      <3>3. ~(\E p \in Channels : List(p)) /\ ~UNCHANGED vars
        BY <3>1 DEF List, vars
      <3>4. \A p \in Operators : \A v : op' = [op EXCEPT ![p] = v] => p = o /\ v.at = "chosen"
        BY <2>1 DEF TypeOK
      <3>5. \A p \in Operators : \A c, d : ~Resolve(p, c, d)
        BY <3>4, IdleFacts DEF Resolve
      <3>6. \A p \in Operators : ~Send(p) /\ ~Drop(p) /\ ~ClientDecides(p) /\ ~ChannelResolves(p)
        BY <3>4, <3>5, IdleFacts DEF Send, Drop, ClientDecides, ChannelResolves
      <3>7. \A p \in Operators : ~Remember(p)
        BY <2>1 DEF Remember, TypeOK, Operators
      <3>8. \A p \in Channels : ChannelDecides(p) => p = o
        BY <3>4 DEF ChannelDecides, Operators
      <3> QED BY <1>2, <3>2, <3>3, <3>6, <3>7, <3>8 DEF Next, Operators
    <2>2. ASSUME NEW o \in Channels, ChannelDecides(o)
          PROVE  LET s == ChannelSession[o]
                     c == op'[o].on
                 IN  /\ Session[c] = s
                     /\ ToSet(seen[o]) = Visible(s) => c = seen[o][op'[o].num]
      <3> DEFINE s == ChannelSession[o]
      <3>1. PICK q \in Listing(s) : \E n \in DOMAIN q, d \in {"denied", "always"} :
               op' = [op EXCEPT ![o] = [at |-> "chosen", on |-> q[n], num |-> n, as |-> d]]
        BY <2>2 DEF ChannelDecides
      <3>2. PICK n \in DOMAIN q : op'[o].on = q[n] /\ op'[o].num = n
        BY <3>1 DEF TypeOK, Operators
      <3>3. /\ q \in Seq(Calls) /\ IsInjective(q) /\ ToSet(q) = Visible(s)
            /\ \A i, j \in DOMAIN q : i < j => Precedes(pending, q[i], q[j])
        BY ListingFacts
      <3> HIDE DEF s
      <3>4. q[n] \in Visible(s)
        BY <3>3 DEF ToSet
      <3>5. ASSUME ToSet(seen[o]) = Visible(s) PROVE q[n] = seen[o][n]
        <4>1. pending \in Seq(Calls) /\ IsInjective(pending) /\ seen[o] \in Seq(Calls)
          BY DEF TypeOK
        <4>2. IsInjective(seen[o])
          BY DEF SeenInv
        <4>3. \A i \in DOMAIN seen[o] : seen[o][i] \in ToSet(pending)
          BY <3>5 DEF ToSet, Visible
        <4>4. \A i, j \in DOMAIN seen[o] : i < j => Precedes(pending, seen[o][i], seen[o][j])
          BY <4>3 DEF SeenInv
        <4> QED BY <3>3, <3>5, <4>1, <4>2, <4>4, SortedUnique
      <3>6. Session[q[n]] = s
        BY <3>4 DEF Visible
      <3> QED BY <3>2, <3>5, <3>6 DEF s
    <2> QED BY <2>1, <2>2
  <1>3. ASSUME ApprovalInv, SeenInv, [Next]_vars PROVE SeenInv'
    BY <1>3, NextSeenInv
  <1> QED BY <1>1, <1>2, <1>3, ApprovalInvHolds, PTL DEF Spec, NumberNamesRequest
=============================================================================
