--------------------------- MODULE SessionHistory ---------------------------
(***************************************************************************)
(* The message history of one session (a JSONL file, crates/sessions) and  *)
(* everything that writes it: chat turns, one at a time under the session  *)
(* permit (ChatTurns), with the event forwarder that persists tool calls   *)
(* beside them; compaction before and during a turn; and three writers     *)
(* that take no permit: chat.compact, session voice, and clear.            *)
(*                                                                         *)
(* A message is a record: its kind, the id of the turn or tool call it     *)
(* belongs to, and the items it stands for: itself, or, for a summary or a *)
(* "N messages were elided" marker, all it replaced.  Indices are 1-based  *)
(* here and 0-based in the code.                                           *)
(***************************************************************************)
EXTENDS Integers, Sequences, FiniteSets, SequencesExt

CONSTANTS
    Turns,     \* chat turns
    MaxTools,  \* bound: tool calls of a turn
    Mode,      \* chat.compaction.mode: "replace" (deterministic, llm_replace)
               \* or "recency" (recency_preserving, structured)
    ProtectHead, ProtectTailMin,  \* chat.compaction.protect_head, protect_tail_min
    Disruptions,    \* which happen of compact, voice, clear (the writers without
                    \* a permit), append (fails), write (of a replacement fails),
                    \* drop (of the request a send or an abort runs in), abort, crash
    MaxDisruptions  \* bound: how many in all

ASSUME HistoryAssumption ==
    /\ {MaxTools, ProtectHead, ProtectTailMin, MaxDisruptions} \subseteq Nat
    /\ Mode \in {"replace", "recency"}
    /\ {"compact", "voice"} \cap Turns = {}
    /\ Disruptions \subseteq {"compact", "voice", "clear", "append", "write", "drop",
                              "abort", "crash"}

VARIABLES
    history,   \* the messages of the file
    pc,        \* where each turn is
    run,       \* the locals of the turn under way
    queue,     \* finished tool calls the forwarder has not persisted
    half,      \* the call message of the first of them is in the file
    detached,  \* appends still in flight after their task was dropped
    job,       \* the history replacement of each owner
    troubles,  \* disruptions so far
    cut        \* tool calls whose two messages something came between, and
               \* <<t, 0>> of a turn t with an append in flight after its end

vars == <<history, pc, run, queue, half, detached, job, troubles, cut>>

\* base: user_message_index; tools: its tool calls so far; made: those of the
\* current attempt, tool_calls_made; rejected: how many of them were not run;
\* retried: it has compacted after a context overflow; disturbed: the file was
\* changed beside it.
NoRun == [base |-> 0, tools |-> 0, made |-> 0, rejected |-> 0,
          retried |-> FALSE, disturbed |-> FALSE]

\* A disruption of that kind happens, or none.
Disrupt(kind) ==
    /\ kind \in Disruptions
    /\ troubles < MaxDisruptions
    /\ troubles' = troubles + 1

-----------------------------------------------------------------------------
(* Messages *)

Msg(kind, t, n) ==
    [kind |-> kind, id |-> <<t, n>>, covers |-> {<<kind, t, n>>}]

Items(s) == UNION {s[i].covers : i \in DOMAIN s}

build_summary_message(s) ==
    [kind |-> "summary", id |-> <<>>, covers |-> Items(s)]

stub_tool_result(id) == [kind |-> "stub", id |-> id, covers |-> {}]

is_tool_role_value(m) == m.kind \in {"result", "stub"}

CallIds(s)   == {s[i].id : i \in {j \in DOMAIN s : s[j].kind = "call"}}
ResultIds(s) == {s[i].id : i \in {j \in DOMAIN s : is_tool_role_value(s[j])}}

\* Tool calls no tool message answers further down.
Dangling(s) ==
    {s[i].id : i \in {j \in DOMAIN s :
        /\ s[j].kind = "call"
        /\ s[j].id \notin ResultIds(SubSeq(s, j + 1, Len(s)))}}

\* Every call message is the first message about its call.  Overlapping
\* replacements can leave a file that is not in order.
InOrder(s) == \A i, j \in DOMAIN s : i < j /\ s[j].kind = "call" => s[i].id # s[j].id

-----------------------------------------------------------------------------
(* Compaction *)

\* Bug: unanswered calls get no stub.
sanitize_NoStubs(s) ==
    SelectSeq(s, LAMBDA m : is_tool_role_value(m) => m.id \in CallIds(s))

\* Bug: tool messages stay when their call is gone.
sanitize_KeepsOrphans(s) ==
    LET Patched(m) == IF m.kind = "call" /\ m.id \notin ResultIds(s)
                      THEN <<m, stub_tool_result(m.id)>> ELSE <<m>>
    IN  FlattenSeq([i \in DOMAIN s |-> Patched(s[i])])

\* The messages sanitize_tool_pairs puts in the place of the i-th: none for a
\* tool message whose call is gone, a stub after an unanswered call (the first of
\* that id: then the id is satisfied).
Repaired(s, i) ==
    IF is_tool_role_value(s[i]) /\ s[i].id \notin CallIds(s) THEN <<>>
    ELSE IF /\ s[i].kind = "call"
            /\ s[i].id \notin ResultIds(s) \cup CallIds(SubSeq(s, 1, i - 1))
         THEN <<s[i], stub_tool_result(s[i].id)>>
         ELSE <<s[i]>>

sanitize_tool_pairs(s) == FlattenSeq([i \in DOMAIN s |-> Repaired(s, i)])

Least(S) == CHOOSE x \in S : \A y \in S : x <= y

\* The last index before the tail, moved forward past a tool group.
align_boundary_forward_past_tool_group(s, idx) ==
    Least({i \in idx .. Len(s) : i = Len(s) \/ ~is_tool_role_value(s[i + 1])})

\* The head's end, and the ends of the middle that token budgets allow.
HeadEnd(s)  == Least({ProtectHead, Len(s)})
TailCuts(s) == HeadEnd(s) .. (Len(s) - Least({ProtectTailMin, Len(s) - HeadEnd(s)}))

\* Bug: no message stands for the middle.
recency_NoMarker(s, cut0) ==
    {sanitize_tool_pairs(SubSeq(s, 1, HeadEnd(s)) \o
        SubSeq(s, align_boundary_forward_past_tool_group(s, cut0) + 1, Len(s)))}

\* Keep head and tail, summarise what is between; with nothing between,
\* only an oversized tool result can be pruned.
recency_preserving(s, cut0) ==
    LET tail == align_boundary_forward_past_tool_group(s, cut0) IN
    IF HeadEnd(s) < tail
    THEN {sanitize_tool_pairs(
            SubSeq(s, 1, HeadEnd(s))
            \o <<build_summary_message(SubSeq(s, HeadEnd(s) + 1, tail))>>
            \o SubSeq(s, tail + 1, Len(s)))}
    ELSE {sanitize_tool_pairs(s) : i \in {j \in DOMAIN s : s[j].kind = "result"}}

\* What compaction may make of a history, when it does not fail.
run_compaction(s) ==
    IF Mode = "replace" THEN {<<build_summary_message(s)>>}
    ELSE UNION {recency_preserving(s, c) : c \in TailCuts(s)}

-----------------------------------------------------------------------------
(* The file *)

Owners == Turns \cup {"compact", "voice"}
NoJob  == [stage |-> "none", read |-> <<>>, new |-> <<>>, alone |-> TRUE]

Working(o) == job[o].stage # "none"
Truncated == {o \in Owners : job[o].stage = "truncated"}
Active == {t \in Turns : pc[t] \notin {"new", "done"}}

\* What the turn under way has for locals once the file was changed beside it.
Disturbed == IF Active = {} THEN run ELSE [run EXCEPT !.disturbed = TRUE]

append(m) == history' = Append(history, m)

\* A replacement writes from offset 0 what was appended since it truncated
\* the file: whole lines past its own end survive.
Overwritten(new, h) ==
    IF new = <<>> THEN {h}
    ELSE {new \o SubSeq(h, k + 1, Len(h)) : k \in (IF h = <<>> THEN 0 ELSE 1) .. Len(h)}

\* Every replacement starts from a read of the whole file.
StartJob(o) ==
    /\ ~Working(o)
    /\ job' = [job EXCEPT ![o] = [stage |-> "read", read |-> history,
                                  new |-> <<>>,
                                  alone |-> \A p \in Owners : ~Working(p)]]

\* The turn that waits for the end of its compaction.
Awaits(t) == pc[t] \in {"compacting", "overflow"}

\* The state a turn is in once its compaction has ended.
AfterJob(o, ok) ==
    pc' = [t \in Turns |->
        IF t # o \/ ~Awaits(t) THEN pc[t]
        ELSE IF pc[t] = "compacting" THEN "ready"
        ELSE IF ok THEN "running" ELSE "failing"]

-----------------------------------------------------------------------------
(* Replacements: compaction's and voice's *)

\* run_compaction or text to speech fails: the file is left alone.
JobFails(o) ==
    /\ job[o].stage = "read"
    /\ job' = [job EXCEPT ![o] = NoJob]
    /\ AfterJob(o, FALSE)
    /\ UNCHANGED <<history, run, queue, half, detached, troubles, cut>>

\* replace_history opens the file and truncates it.
Truncate(o) ==
    /\ job[o].stage = "read"
    /\ \E new \in IF o = "voice" THEN {job[o].read}
                  ELSE run_compaction(job[o].read) :
         /\ job' = [job EXCEPT ![o].stage = "truncated", ![o].new = new]
         /\ cut' = IF o = "voice" \/ ~InOrder(job[o].read) THEN cut \cup Dangling(new) ELSE cut
    /\ history' = <<>>
    /\ run' = Disturbed
    /\ UNCHANGED <<pc, queue, half, detached, troubles>>

\* What is in the file when a replacement ends before it has written all.
Torn(o) ==
    {history} \cup UNION {Overwritten(SubSeq(job[o].new, 1, k), history) :
                            k \in 1 .. Len(job[o].new) - 1}

\* A write of replace_history fails after the truncation: what was written
\* stays.  A send whose compaction failed goes on, an overflow run fails.
WriteFails(o) ==
    /\ Disrupt("write")
    /\ job[o].stage = "truncated"
    /\ history' \in Torn(o)
    /\ job' = [job EXCEPT ![o] = NoJob]
    /\ AfterJob(o, FALSE)
    /\ run' = Disturbed
    /\ cut' = cut \cup Dangling(history')
    /\ UNCHANGED <<queue, half, detached>>

\* replace_history writes the messages; a waiting turn goes on.
Write(o) ==
    /\ job[o].stage = "truncated"
    /\ history' \in Overwritten(job[o].new, history)
    /\ job' = [job EXCEPT ![o] = NoJob]
    /\ AfterJob(o, TRUE)
    /\ run' = IF o \in {t \in Turns : pc[t] = "overflow"}
              THEN [Disturbed EXCEPT !.made = 0, !.rejected = 0] ELSE Disturbed
    /\ UNCHANGED <<queue, half, detached, troubles, cut>>

\* chat.compact refuses an empty history.
ManualCompact ==
    /\ Disrupt("compact")
    /\ history # <<>>
    /\ StartJob("compact")
    /\ UNCHANGED <<history, pc, run, queue, half, detached, cut>>

\* Voice for an answer: the history is written back with the audio's name.
GenerateVoice ==
    /\ Disrupt("voice")
    /\ \E i \in DOMAIN history : history[i].kind = "answer"
    /\ StartJob("voice")
    /\ UNCHANGED <<history, pc, run, queue, half, detached, cut>>

\* The file is unlinked: a replacement that has it open writes into nothing.
Clear ==
    /\ Disrupt("clear")
    /\ history' = <<>>
    /\ job' = [o \in Owners |-> IF o \in Truncated
                                THEN [job[o] EXCEPT !.new = <<>>] ELSE job[o]]
    /\ run' = Disturbed
    /\ UNCHANGED <<pc, queue, half, detached, cut>>

-----------------------------------------------------------------------------
(* A turn *)

\* With the permit: the history is read and its length kept.
Begin(t) ==
    /\ pc[t] = "new" /\ Active = {}
    /\ pc' = [pc EXCEPT ![t] = "loaded"]
    /\ run' = [NoRun EXCEPT !.base = Len(history)]
    /\ UNCHANGED <<history, queue, half, detached, job, troubles, cut>>

\* The next request looks too large: chat.compact runs inside the send.
AutoCompact(t) ==
    /\ pc[t] = "loaded"
    /\ history # <<>>
    /\ StartJob(t)
    /\ pc' = [pc EXCEPT ![t] = "compacting"]
    /\ UNCHANGED <<history, run, queue, half, detached, troubles, cut>>

\* The user message is appended, the run starts; a failed append is logged.
PersistUser(t) ==
    /\ pc[t] \in {"loaded", "ready"}
    /\ pc' = [pc EXCEPT ![t] = "running"]
    /\ \/ /\ append(Msg("user", t, 0))
          /\ UNCHANGED <<run, troubles>>
       \/ /\ Disrupt("append")
          /\ run' = Disturbed
          /\ UNCHANGED history
    /\ UNCHANGED <<queue, half, detached, job, cut>>

\* A tool call has ended; its event goes to the forwarder.
ToolCallEnd(t) ==
    /\ pc[t] = "running"
    /\ run.tools < MaxTools
    /\ run' = [run EXCEPT !.tools = @ + 1, !.made = @ + 1]
    /\ queue' = Append(queue, <<t, run.tools + 1>>)
    /\ UNCHANGED <<history, pc, half, detached, job, troubles, cut>>

\* A tool call is refused before it runs: counted, shown, not persisted.
ToolCallRejected(t) ==
    /\ pc[t] = "running"
    /\ run.tools < MaxTools
    /\ run' = [run EXCEPT !.tools = @ + 1, !.made = @ + 1, !.rejected = @ + 1]
    /\ UNCHANGED <<history, pc, queue, half, detached, job, troubles, cut>>

\* Bug: the next event is taken for half persisted.
FailToolAppend_KeepsHalf ==
    /\ Disrupt("append")
    /\ queue # <<>>
    /\ queue' = Tail(queue)
    /\ cut' = cut \cup {Head(queue)}
    /\ run' = Disturbed
    /\ UNCHANGED <<history, pc, half, detached, job>>

\* The forwarder appends the call message, then the result message of its
\* first event; after a failed append it goes on with the next event.
PersistToolCall ==
    /\ queue # <<>> /\ ~half
    /\ append(Msg("call", Head(queue)[1], Head(queue)[2]))
    /\ half' = TRUE
    /\ UNCHANGED <<pc, run, queue, detached, job, troubles, cut>>

PersistToolResult ==
    /\ half
    /\ append(Msg("result", Head(queue)[1], Head(queue)[2]))
    /\ half' = FALSE
    /\ queue' = Tail(queue)
    /\ UNCHANGED <<pc, run, detached, job, troubles, cut>>

FailToolAppend ==
    /\ Disrupt("append")
    /\ queue # <<>>
    /\ half' = FALSE
    /\ queue' = Tail(queue)
    /\ cut' = cut \cup {Head(queue)}
    /\ run' = Disturbed
    /\ UNCHANGED <<history, pc, detached, job>>

\* The provider refuses the context: compact_session, once, beside the
\* forwarder.  An empty history cannot be compacted.
ContextOverflow(t) ==
    /\ pc[t] = "running"
    /\ ~run.retried
    /\ run' = [run EXCEPT !.retried = TRUE]
    /\ \/ /\ history # <<>>
          /\ StartJob(t)
          /\ pc' = [pc EXCEPT ![t] = "overflow"]
       \/ /\ history = <<>>
          /\ pc' = [pc EXCEPT ![t] = "failing"]
          /\ UNCHANGED job
    /\ UNCHANGED <<history, queue, half, detached, troubles, cut>>

\* messageIndex of the final event, one more than in the code.
AnnouncedIndex == run.base + 1 + (2 * run.made) + 1

\* Bug: the forwarder is not waited for.
FinishRun_NoWait(t) ==
    /\ pc[t] = "running"
    /\ pc' = [pc EXCEPT ![t] = "done"]
    /\ run' = NoRun
    /\ append(Msg("answer", t, 0))
    /\ UNCHANGED <<queue, half, detached, job, troubles, cut>>

\* The run succeeds once the forwarder is done: the answer is appended and
\* announced with AnnouncedIndex.
FinishRun(t) ==
    /\ pc[t] = "running"
    /\ queue = <<>>
    /\ pc' = [pc EXCEPT ![t] = "done"]
    /\ run' = NoRun
    /\ \/ /\ append(Msg("answer", t, 0))
          /\ UNCHANGED troubles
       \/ /\ Disrupt("append")
          /\ UNCHANGED history
    /\ UNCHANGED <<queue, half, detached, job, cut>>

\* The turn fails while it is set up, or its run does: the forwarder is waited
\* for, nothing is appended.
FailRun(t) ==
    /\ pc[t] \in {"loaded", "ready", "running", "failing"}
    /\ queue = <<>>
    /\ pc' = [pc EXCEPT ![t] = "done"]
    /\ run' = NoRun
    /\ UNCHANGED <<history, queue, half, detached, job, troubles, cut>>

\* chat.abort drops the run's task and the forwarder; a compaction or an
\* append they have on the blocking pool may still reach the file.
Abort(t) ==
    /\ Disrupt("abort")
    /\ pc[t] \in {"running", "overflow", "failing"}
    /\ pc' = [pc EXCEPT ![t] = "aborting"]
    /\ detached' = IF queue = <<>> THEN detached ELSE detached \cup
         {Msg(IF half THEN "result" ELSE "call", Head(queue)[1], Head(queue)[2])}
    /\ queue' = <<>> /\ half' = FALSE
    /\ cut' = IF queue = <<>> THEN cut ELSE cut \cup {Head(queue)}
    /\ UNCHANGED <<history, run, job>>

\* Abort's cleanup, still with the permit: the partial answer, if any.
AbortCleanup(t) ==
    /\ pc[t] = "aborting"
    /\ pc' = [pc EXCEPT ![t] = "done"]
    /\ run' = NoRun
    /\ \/ append(Msg("answer", t, 0))
       \/ UNCHANGED history
    /\ UNCHANGED <<queue, half, detached, job, troubles, cut>>

\* The request in which a turn is set up, or in which its abort cleans up, is
\* dropped, and the permit with it; what it has on the blocking pool (JobFails:
\* nothing yet), a compaction or an append, may still reach the file.
DropRequest(t) ==
    /\ Disrupt("drop")
    /\ pc[t] \in {"loaded", "compacting", "ready", "aborting"}
    /\ pc' = [pc EXCEPT ![t] = "done"]
    /\ run' = NoRun
    /\ \/ UNCHANGED <<detached, cut>>
       \/ /\ pc[t] # "compacting"
          /\ detached' = detached \cup {Msg(IF pc[t] = "aborting" THEN "answer" ELSE "user", t, 0)}
          /\ cut' = cut \cup {<<t, 0>>}
    /\ UNCHANGED <<history, queue, half, job>>

\* An append that outlived its task reaches the file.
Land(m) ==
    /\ m \in detached
    /\ append(m)
    /\ detached' = detached \ {m}
    /\ run' = Disturbed
    /\ UNCHANGED <<pc, queue, half, job, troubles, cut>>

\* The process dies: the file stays, with part of what a replacement was
\* writing; everything in memory is gone.
Crash ==
    /\ Disrupt("crash")
    /\ \/ UNCHANGED history
       \/ \E o \in Truncated : history' \in Torn(o)
    /\ pc' = [t \in Turns |-> IF pc[t] = "new" THEN "new" ELSE "done"]
    /\ run' = NoRun
    /\ queue' = <<>> /\ half' = FALSE /\ detached' = {}
    /\ job' = [o \in Owners |-> NoJob]
    /\ cut' = cut \cup Dangling(history')

-----------------------------------------------------------------------------

Init ==
    /\ history = <<>>
    /\ pc = [t \in Turns |-> "new"]
    /\ run = NoRun
    /\ queue = <<>> /\ half = FALSE
    /\ detached = {}
    /\ job = [o \in Owners |-> NoJob]
    /\ troubles = 0
    /\ cut = {}

TurnStep(t) ==
    \/ Begin(t) \/ AutoCompact(t) \/ PersistUser(t)
    \/ ToolCallEnd(t) \/ ToolCallRejected(t) \/ ContextOverflow(t)
    \/ FinishRun(t) \/ FailRun(t)
    \/ Abort(t) \/ AbortCleanup(t) \/ DropRequest(t)

Next ==
    \/ \E t \in Turns : TurnStep(t)
    \/ \E o \in Owners : JobFails(o) \/ Truncate(o) \/ Write(o) \/ WriteFails(o)
    \/ PersistToolCall \/ PersistToolResult \/ FailToolAppend
    \/ \E m \in detached : Land(m)
    \/ ManualCompact \/ GenerateVoice \/ Clear \/ Crash

Spec == Init /\ [][Next]_vars

-----------------------------------------------------------------------------
(* Properties *)

ToolIds == Turns \X (1 .. MaxTools)
Ids     == Turns \X (0 .. MaxTools)

Item == ({"user", "answer"} \X Turns \X {0}) \cup ({"call", "result"} \X Turns \X (1 .. MaxTools))

Message == {Msg(x[1], x[2], x[3]) : x \in Item}
           \cup {stub_tool_result(id) : id \in ToolIds}
           \cup [kind : {"summary"}, id : {<<>>}, covers : SUBSET Item]

Job == [stage : {"none", "read", "truncated"}, read : Seq(Message), new : Seq(Message),
        alone : BOOLEAN]

\* Types of the variables.
TypeOK ==
    /\ history \in Seq(Message) /\ detached \subseteq Message
    /\ pc \in [Turns -> {"new", "loaded", "compacting", "ready", "running",
                         "overflow", "failing", "aborting", "done"}]
    /\ run \in [base : Nat, tools : 0 .. MaxTools, made : 0 .. MaxTools,
               rejected : 0 .. MaxTools, retried : BOOLEAN, disturbed : BOOLEAN]
    /\ troubles \in 0 .. MaxDisruptions
    /\ queue \in Seq(ToolIds) /\ cut \subseteq Ids
    /\ half \in BOOLEAN /\ (half => queue # <<>>)
    /\ job \in [Owners -> Job]

\* What has been said and is still in the file, behind a summary or marker
\* there, or in the replacement that is being written.
Accounted ==
    Items(history) \cup UNION {Items(job[o].new) : o \in Truncated}

\* Which losses the code does not rule out: to a clear, to a crash, to a write
\* of a replacement that fails, to a replacement that nobody waits for or that
\* began during another one, and, for tool messages and for an append that
\* outlived its request only, to the turn's own compaction; compaction also
\* drops a tool result that has lost its call.
MayLose(x) ==
    \/ Clear \/ Crash \/ \E o \in Owners : WriteFails(o)
    \/ \E o \in Owners :
         /\ Working(o)
         /\ x \notin Items(job[o].read)
         /\ \/ o \notin Turns
            \/ o \in Turns /\ ~Awaits(o)
            \/ ~job[o].alone
            \/ x[1] \in {"call", "result"} \/ <<x[2], x[3]>> \in cut
    \/ \E o \in Owners \ {"voice"} :
         /\ x[1] = "result"
         /\ Working(o)
         /\ <<x[2], x[3]>> \notin CallIds(job[o].new) \cup CallIds(job'[o].new)

\* No message of a conversation disappears otherwise: a turn's own
\* compactions keep, summarise or mark as elided every user message and
\* every answer (send awaits chat.compact before it appends; compaction
\* rewrites all it has read).
LossHasCause == [][\A x \in Accounted \ Accounted' : MayLose(x)]_vars

\* A call in the history without a result, other than the one the forwarder
\* is at, is one that an abort, a crash, a failed append, a failed write of a
\* replacement or a voice replacement separated from it: neither clear nor
\* compaction, racing the forwarder or not, leaves one (sanitize_tool_pairs,
\* persist_tool_history_pair), unless the history it read was not in order.
DanglingHasCause ==
    Dangling(history) \subseteq
        cut \cup (IF half THEN {Head(queue)} ELSE {})

\* The history compaction writes is one a strict provider accepts: every
\* tool message follows its call and every call is answered ("so strict
\* providers accept the retry"), unless overlapping replacements had left
\* the file out of order.
CompactionRepairsPairs ==
    \A o \in Truncated \ {"voice"} :
        LET s == job[o].new IN
        InOrder(job[o].read) =>
        /\ Dangling(s) = {}
        /\ \A i \in DOMAIN s : is_tool_role_value(s[i]) =>
              s[i].id \in CallIds(SubSeq(s, 1, i - 1))

\* Unless the file is changed beside the turn, the announced messageIndex is
\* the answer's place in it, but for two per rejected tool call: every call
\* that ran is persisted, as two messages, before the answer
\* (wait_for_event_forwarder).
IndexIsRight ==
    [][\A t \in Turns :
         FinishRun(t) /\ history' # history /\ ~run.disturbed
           => Len(history') + (2 * run.rejected) = AnnouncedIndex]_vars

\* "Tool-using turns now persist both the assistant tool call frame and the
\* tool result for each tool call before the final answer", the ground for
\* messageIndex: it is the answer's place, with nobody else at the file.
AnswerAtIndex ==
    [][\A t \in Turns :
         FinishRun(t) /\ history' # history /\ ~run.disturbed
           => Len(history') = AnnouncedIndex]_vars
=============================================================================
