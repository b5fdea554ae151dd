--------------------------- MODULE MCToolApprovals ---------------------------
(* Small instances of ToolApprovals for TLC. *)
EXTENDS ToolApprovals

CONSTANTS c1, c2, c3, ui, chat, room

\* c1 and c2 are one command called twice, c3 does not check before it asks.
MCKind    == [c \in Calls |-> IF c = c3 THEN "acp" ELSE "exec"]
MCCommand == [c \in Calls |-> IF c = c3 THEN "y" ELSE "x"]
MCSession == [c \in Calls |-> room]

MCChannelSession == [o \in Channels |-> room]

\* A command may be plain, safe, on the allowlist or dangerous.
Plain     == [list |-> TRUE, dangerous |-> {}, listed |-> {}, safe |-> {}]
NoList    == [Plain EXCEPT !.list = FALSE]
Safe      == [Plain EXCEPT !.safe = {"x"}]
Dangerous == [Plain EXCEPT !.dangerous = {"x"}]
Waived    == [Dangerous EXCEPT !.listed = {"x"}]

With(mode, level, commands) ==
    [mode |-> mode, level |-> level, list |-> commands.list,
     dangerous |-> commands.dangerous, listed |-> commands.listed,
     safe |-> commands.safe]

MCSetups ==
    {With("onmiss", "allowlist", t) : t \in {Plain, Safe, Dangerous, Waived}}
    \cup {With("off", "allowlist", t) : t \in {Plain, NoList, Safe, Dangerous}}
    \cup {With("always", "allowlist", Safe), With("onmiss", "full", Plain),
          With("off", "full", Dangerous), With("onmiss", "deny", Plain)}
=============================================================================
