------------------------ MODULE SessionHistoryProofs ------------------------
(***************************************************************************)
(* Proofs about SessionHistory, for every set of turns, every bound and    *)
(* every setting of compaction.                                            *)
(***************************************************************************)
EXTENDS SessionHistory, SequenceFacts, TLAPS

-----------------------------------------------------------------------------
(* Messages.                                                               *)

\* The kinds of a message that stands for itself.
Kinds == {"user", "answer", "call", "result"}

\* What the kind of a message says about the rest of it.
LEMMA MessageFacts ==
    ASSUME NEW m \in Message
    PROVE  /\ m.kind \in {"user", "answer", "call", "result", "stub", "summary"}
           /\ m.covers \subseteq Item
           /\ m.kind \in {"call", "result", "stub"} => m.id \in ToolIds
           /\ m.kind = "stub" => m.covers = {}
           /\ m.kind \in Kinds => /\ m.covers = {<<m.kind, m.id[1], m.id[2]>>}
                                 /\ m.id = <<m.id[1], m.id[2]>>
           /\ m.kind = "result" => m.covers = {<<"result", m.id[1], m.id[2]>>}
  <1>1. CASE \E x \in Item : m = Msg(x[1], x[2], x[3])
    <2>1. PICK x \in Item : m = Msg(x[1], x[2], x[3])
      BY <1>1
    <2>2. CASE x \in {"user", "answer"} \X Turns \X {0}
      BY <2>1, <2>2 DEF Msg, Item, Kinds
    <2>3. CASE x \in {"call", "result"} \X Turns \X (1 .. MaxTools)
      BY <2>1, <2>3 DEF Msg, Item, ToolIds, Kinds
    <2> QED BY <2>2, <2>3 DEF Item
  <1>2. CASE \E id \in ToolIds : m = stub_tool_result(id)
    BY <1>2 DEF stub_tool_result, Kinds
  <1>3. CASE m \in [kind : {"summary"}, id : {<<>>}, covers : SUBSET Item]
    BY <1>3 DEF Kinds
  <1> QED BY <1>1, <1>2, <1>3 DEF Message

\* The messages the program makes.
LEMMA MessagesMade ==
    /\ \A t \in Turns : Msg("user", t, 0) \in Message /\ Msg("answer", t, 0) \in Message
    /\ \A q \in ToolIds : /\ Msg("call", q[1], q[2]) \in Message
                          /\ Msg("result", q[1], q[2]) \in Message
                          /\ stub_tool_result(q) \in Message
    /\ \A s \in Seq(Message) : Items(s) \subseteq Item /\ build_summary_message(s) \in Message
  <1>1. ASSUME NEW t \in Turns
        PROVE  Msg("user", t, 0) \in Message /\ Msg("answer", t, 0) \in Message
    <2> DEFINE u == <<"user", t, 0>>
               a == <<"answer", t, 0>>
    <2>1. u \in Item /\ a \in Item
      BY DEF Item
    <2>2. Msg("user", t, 0) = Msg(u[1], u[2], u[3]) /\ Msg("answer", t, 0) = Msg(a[1], a[2], a[3])
      OBVIOUS
    <2> HIDE DEF u, a
    <2> QED BY <2>1, <2>2 DEF Message
  <1>2. ASSUME NEW q \in ToolIds
        PROVE  /\ Msg("call", q[1], q[2]) \in Message
               /\ Msg("result", q[1], q[2]) \in Message
               /\ stub_tool_result(q) \in Message
    <2> DEFINE c == <<"call", q[1], q[2]>>
               r == <<"result", q[1], q[2]>>
    <2>1. c \in Item /\ r \in Item
      BY DEF Item, ToolIds
    <2>2. Msg("call", q[1], q[2]) = Msg(c[1], c[2], c[3]) /\ Msg("result", q[1], q[2]) = Msg(r[1], r[2], r[3])
      OBVIOUS
    <2> HIDE DEF c, r
    <2> QED BY <2>1, <2>2 DEF Message
  <1>3. ASSUME NEW s \in Seq(Message)
        PROVE  Items(s) \subseteq Item /\ build_summary_message(s) \in Message
    <2>1. \A i \in DOMAIN s : s[i] \in Message
      OBVIOUS
    <2>2. \A i \in DOMAIN s : s[i].covers \subseteq Item
      BY <2>1, MessageFacts
    <2>3. Items(s) \subseteq Item
      BY <2>2 DEF Items
    <2> QED BY <2>3 DEF build_summary_message, Message
  <1> QED BY <1>1, <1>2, <1>3

\* Where calls and tool messages are, as places of the sequence.
LEMMA IdFacts ==
    ASSUME NEW s \in Seq(Message)
    PROVE  /\ \A c : c \in CallIds(s) <=> \E i \in DOMAIN s : s[i].kind = "call" /\ s[i].id = c
           /\ \A c : c \in ResultIds(s) <=> \E i \in DOMAIN s : is_tool_role_value(s[i]) /\ s[i].id = c
           /\ \A c : c \in Dangling(s) <=>
                 \E i \in DOMAIN s :
                    /\ s[i].kind = "call" /\ s[i].id = c
                    /\ \A j \in DOMAIN s : i < j /\ is_tool_role_value(s[j]) => s[j].id # c
           /\ CallIds(s) \subseteq ToolIds /\ Dangling(s) \subseteq ToolIds
  <1>0. Len(s) \in Nat /\ DOMAIN s = 1..Len(s) /\ \A i \in DOMAIN s : s[i] \in Message
    OBVIOUS
  <1>1. \A c : c \in CallIds(s) <=> \E i \in DOMAIN s : s[i].kind = "call" /\ s[i].id = c
    BY DEF CallIds
  <1>2. \A c : c \in ResultIds(s) <=> \E i \in DOMAIN s : is_tool_role_value(s[i]) /\ s[i].id = c
    BY DEF ResultIds
  <1>3. ASSUME NEW i \in DOMAIN s, NEW c
        PROVE  c \in ResultIds(SubSeq(s, i + 1, Len(s))) <=>
                  \E j \in DOMAIN s : i < j /\ is_tool_role_value(s[j]) /\ s[j].id = c
    <2> DEFINE t == SubSeq(s, i + 1, Len(s))
    <2>1. /\ DOMAIN t = 1..(Len(s) - i)
          /\ \A k \in 1..(Len(s) - i) : t[k] = s[k + i]
      BY <1>0
    <2> HIDE DEF t
    <2>2. c \in ResultIds(t) <=> \E k \in 1..(Len(s) - i) : is_tool_role_value(s[k + i]) /\ s[k + i].id = c
      BY <2>1 DEF ResultIds
    <2>3. ASSUME NEW j \in DOMAIN s, i < j
          PROVE  j - i \in 1..(Len(s) - i) /\ (j - i) + i = j
      BY <1>0, <2>3
    <2>4. ASSUME NEW k \in 1..(Len(s) - i) PROVE k + i \in DOMAIN s /\ i < k + i
      BY <1>0
    <2> QED BY <2>2, <2>3, <2>4 DEF t
  <1>4. \A c : c \in Dangling(s) <=>
           \E i \in DOMAIN s :
              /\ s[i].kind = "call" /\ s[i].id = c
              /\ \A j \in DOMAIN s : i < j /\ is_tool_role_value(s[j]) => s[j].id # c
    <2>1. \A c : c \in Dangling(s) <=>
             \E i \in DOMAIN s : /\ s[i].kind = "call" /\ s[i].id = c
                                 /\ c \notin ResultIds(SubSeq(s, i + 1, Len(s)))
      BY DEF Dangling
    <2> QED BY <2>1, <1>3
  <1>5. \A i \in DOMAIN s : s[i].kind = "call" => s[i].id \in ToolIds
    BY <1>0, MessageFacts
  <1> QED BY <1>1, <1>2, <1>4, <1>5

-----------------------------------------------------------------------------
(* Compaction.                                                             *)

\* What sanitize_tool_pairs makes of one message.
LEMMA RepairedFacts ==
    ASSUME NEW s \in Seq(Message), NEW i \in DOMAIN s
    PROVE  /\ Repaired(s, i) \in Seq(Message)
           /\ \/ /\ Repaired(s, i) = <<>>
                 /\ is_tool_role_value(s[i]) /\ s[i].id \notin CallIds(s)
              \/ /\ Repaired(s, i) = <<s[i], stub_tool_result(s[i].id)>>
                 /\ s[i].kind = "call" /\ s[i].id \notin ResultIds(s)
              \/ /\ Repaired(s, i) = <<s[i]>>
                 /\ is_tool_role_value(s[i]) => s[i].id \in CallIds(s)
                 /\ s[i].kind = "call" => s[i].id \in ResultIds(s) \cup CallIds(SubSeq(s, 1, i - 1))
  <1>1. s[i] \in Message
    OBVIOUS
  <1>2. s[i].kind = "call" => stub_tool_result(s[i].id) \in Message
    BY <1>1, MessageFacts, MessagesMade
  <1>3. CASE is_tool_role_value(s[i]) /\ s[i].id \notin CallIds(s)
    BY <1>3 DEF Repaired
  <1>4. CASE ~(is_tool_role_value(s[i]) /\ s[i].id \notin CallIds(s))
    <2>1. CASE s[i].kind = "call" /\ s[i].id \notin ResultIds(s) \cup CallIds(SubSeq(s, 1, i - 1))
      <3>1. Repaired(s, i) = <<s[i], stub_tool_result(s[i].id)>>
        BY <1>4, <2>1 DEF Repaired
      <3> QED BY <3>1, <2>1, <1>1, <1>2
    <2>2. CASE ~(s[i].kind = "call" /\ s[i].id \notin ResultIds(s) \cup CallIds(SubSeq(s, 1, i - 1)))
      <3>1. Repaired(s, i) = <<s[i]>>
        BY <1>4, <2>2 DEF Repaired
      <3> QED BY <3>1, <1>4, <2>2, <1>1
    <2> QED BY <2>1, <2>2
  <1> QED BY <1>3, <1>4

\* Where the messages of a repaired history come from: off[i] is the length of
\* what stands for the first i messages.
LEMMA SanitizeFacts ==
    ASSUME NEW s \in Seq(Message)
    PROVE  \E off \in [0..Len(s) -> Nat] :
              /\ sanitize_tool_pairs(s) \in Seq(Message)
              /\ Len(sanitize_tool_pairs(s)) = off[Len(s)]
              /\ \A i, j \in 0..Len(s) : i <= j => off[i] <= off[j]
              /\ \A i \in 1..Len(s) : \A k \in 1..Len(Repaired(s, i)) :
                    /\ off[i - 1] + k <= off[i]
                    /\ sanitize_tool_pairs(s)[off[i - 1] + k] = Repaired(s, i)[k]
              /\ \A m \in 1..Len(sanitize_tool_pairs(s)) :
                    \E i \in 1..Len(s) : \E k \in 1..Len(Repaired(s, i)) : m = off[i - 1] + k
  <1> DEFINE p == [i \in DOMAIN s |-> Repaired(s, i)]
  <1>1. DOMAIN s = 1..Len(s) /\ Len(s) \in Nat
    OBVIOUS
  <1>2. \A i \in DOMAIN s : Repaired(s, i) \in Seq(Message)
    BY RepairedFacts
  <1>3. p \in Seq(Seq(Message)) /\ Len(p) = Len(s) /\ \A i \in 1..Len(s) : p[i] = Repaired(s, i)
    BY <1>1, <1>2
  <1>4. sanitize_tool_pairs(s) = FlattenSeq(p)
    BY DEF sanitize_tool_pairs
  <1> HIDE DEF p
  <1>5. PICK off : LaidOut(Message, p, off)
    BY <1>3, FlattenFacts
  <1>6. /\ off \in [0..Len(s) -> Nat]
        /\ sanitize_tool_pairs(s) \in Seq(Message)
        /\ Len(sanitize_tool_pairs(s)) = off[Len(s)]
        /\ \A i, j \in 0..Len(s) : i <= j => off[i] <= off[j]
    BY <1>5, <1>4, <1>3 DEF LaidOut
  <1>7. \A i \in 1..Len(s) : \A k \in 1..Len(Repaired(s, i)) :
              /\ off[i - 1] + k <= off[i]
              /\ sanitize_tool_pairs(s)[off[i - 1] + k] = Repaired(s, i)[k]
    <2>1. \A i \in 1..Len(s) : \A k \in 1..Len(p[i]) :
              /\ off[i - 1] + k <= off[i]
              /\ sanitize_tool_pairs(s)[off[i - 1] + k] = p[i][k]
      BY <1>5, <1>4, <1>3, Zenon DEF LaidOut
    <2> QED BY <2>1, <1>3, Zenon
  <1>8. \A m \in 1..Len(sanitize_tool_pairs(s)) :
              \E i \in 1..Len(s) : \E k \in 1..Len(Repaired(s, i)) : m = off[i - 1] + k
    <2>1. \A m \in 1..Len(FlattenSeq(p)) :
              \E i \in 1..Len(s) : \E k \in 1..Len(p[i]) : m = off[i - 1] + k
      <3>1. \A m \in 1..Len(FlattenSeq(p)) :
              \E i \in 1..Len(p) : \E k \in 1..Len(p[i]) : m = off[i - 1] + k
        BY <1>5 DEF LaidOut
      <3>2. Len(p) = Len(s)
        BY <1>3
      <3> QED BY <3>1, <3>2, Zenon
    <2>2. ASSUME NEW m \in 1..Len(sanitize_tool_pairs(s))
          PROVE  \E i \in 1..Len(s) : \E k \in 1..Len(Repaired(s, i)) : m = off[i - 1] + k
      <3>1. PICK i \in 1..Len(s) : \E k \in 1..Len(p[i]) : m = off[i - 1] + k
        BY <2>1, <1>4
      <3>2. p[i] = Repaired(s, i)
        BY <1>3
      <3> QED BY <3>1, <3>2, Zenon
    <2> QED BY <2>2
  <1> QED BY <1>6, <1>7, <1>8

\* A message of the repaired history is one of the old history, or the stub that
\* follows an unanswered call; a message is left out only if it is a tool message
\* whose call is gone, and the others keep their order.
LEMMA SanitizePlaces ==
    ASSUME NEW s \in Seq(Message)
    PROVE  \E n \in Seq(Message), at \in [1..Len(s) -> Nat] :
              /\ n = sanitize_tool_pairs(s)
              /\ \A i \in 1..Len(s) :
                    (~is_tool_role_value(s[i]) \/ s[i].id \in CallIds(s)) =>
                       at[i] \in 1..Len(n) /\ n[at[i]] = s[i]
              /\ \A i, j \in 1..Len(s) :
                    i < j /\ (~is_tool_role_value(s[i]) \/ s[i].id \in CallIds(s)) => at[i] < at[j]
              /\ \A i \in 1..Len(s) :
                    s[i].kind = "call" /\ s[i].id \notin ResultIds(s) \cup CallIds(SubSeq(s, 1, i - 1)) =>
                       at[i] + 1 \in 1..Len(n) /\ n[at[i] + 1] = stub_tool_result(s[i].id)
              /\ \A m \in 1..Len(n) : \E i \in 1..Len(s) :
                    \/ /\ m = at[i] /\ n[m] = s[i]
                       /\ is_tool_role_value(s[i]) => s[i].id \in CallIds(s)
                    \/ /\ m = at[i] + 1 /\ n[m] = stub_tool_result(s[i].id)
                       /\ s[i].kind = "call"
  <1> DEFINE n == sanitize_tool_pairs(s)
  <1>0. DOMAIN s = 1..Len(s) /\ Len(s) \in Nat /\ \A i \in 1..Len(s) : s[i] \in Message
    OBVIOUS
  <1>1. PICK off \in [0..Len(s) -> Nat] :
              /\ n \in Seq(Message)
              /\ Len(n) = off[Len(s)]
              /\ \A i, j \in 0..Len(s) : i <= j => off[i] <= off[j]
              /\ \A i \in 1..Len(s) : \A k \in 1..Len(Repaired(s, i)) :
                    /\ off[i - 1] + k <= off[i]
                    /\ n[off[i - 1] + k] = Repaired(s, i)[k]
              /\ \A m \in 1..Len(n) :
                    \E i \in 1..Len(s) : \E k \in 1..Len(Repaired(s, i)) : m = off[i - 1] + k
    BY SanitizeFacts
  <1> DEFINE at == [i \in 1..Len(s) |-> off[i - 1] + 1]
             Kept(i) == ~is_tool_role_value(s[i]) \/ s[i].id \in CallIds(s)
  <1> HIDE DEF n
  <1>2. /\ at \in [1..Len(s) -> Nat] /\ \A i \in 1..Len(s) : at[i] = off[i - 1] + 1 /\ off[i - 1] \in Nat
        /\ Len(n) \in Nat
        /\ \A i \in 1..Len(s) : off[i] \in Nat /\ off[i] <= Len(n)
    <2>1. \A i \in 1..Len(s) : i - 1 \in 0..Len(s) /\ i \in 0..Len(s) /\ i <= Len(s) /\ Len(s) \in 0..Len(s)
      BY <1>0
    <2>2. at \in [1..Len(s) -> Nat] /\ \A i \in 1..Len(s) : at[i] = off[i - 1] + 1 /\ off[i - 1] \in Nat
      BY <2>1
    <2>3. \A i \in 1..Len(s) : off[i] \in Nat /\ off[i] <= off[Len(s)]
      BY <2>1, <1>1
    <2>4. Len(n) \in Nat /\ Len(n) = off[Len(s)]
      BY <1>1
    <2> QED BY <2>2, <2>3, <2>4
  <1> HIDE DEF at
  <1>3. ASSUME NEW i \in 1..Len(s), Kept(i)
        PROVE  /\ Len(Repaired(s, i)) \in {1, 2} /\ Repaired(s, i)[1] = s[i]
               /\ at[i] \in 1..Len(n) /\ n[at[i]] = s[i]
               /\ at[i] <= off[i]
    <2>1. Len(Repaired(s, i)) \in {1, 2} /\ Repaired(s, i)[1] = s[i]
      BY <1>3, <1>0, RepairedFacts
    <2>2. 1 \in 1..Len(Repaired(s, i))
      BY <2>1
    <2>3. off[i - 1] + 1 <= off[i] /\ n[off[i - 1] + 1] = Repaired(s, i)[1]
      BY <1>1, <2>2
    <2> QED BY <2>1, <2>3, <1>2
  <1>4. ASSUME NEW i \in 1..Len(s), NEW j \in 1..Len(s), i < j, Kept(i)
        PROVE  at[i] < at[j]
    <2>1. i \in 0..Len(s) /\ j - 1 \in 0..Len(s) /\ i <= j - 1
      BY <1>4, <1>0
    <2>2. off[i] <= off[j - 1]
      BY <2>1, <1>1
    <2>3. at[i] <= off[i]
      BY <1>3, <1>4
    <2> QED BY <2>2, <2>3, <1>2
  <1>5. ASSUME NEW i \in 1..Len(s), s[i].kind = "call",
               s[i].id \notin ResultIds(s) \cup CallIds(SubSeq(s, 1, i - 1))
        PROVE  at[i] + 1 \in 1..Len(n) /\ n[at[i] + 1] = stub_tool_result(s[i].id)
    <2>1. ~is_tool_role_value(s[i])
      BY <1>5 DEF is_tool_role_value
    <2>2. Repaired(s, i) = <<s[i], stub_tool_result(s[i].id)>>
      BY <1>5, <2>1, <1>0, RepairedFacts
    <2>3. 2 \in 1..Len(Repaired(s, i)) /\ Repaired(s, i)[2] = stub_tool_result(s[i].id)
      BY <2>2
    <2>4. off[i - 1] + 2 <= off[i] /\ n[off[i - 1] + 2] = stub_tool_result(s[i].id)
      BY <2>3, <1>1
    <2>5. off[i - 1] + 2 = at[i] + 1
      BY <1>2
    <2> QED BY <2>4, <2>5, <1>2
  <1>6. ASSUME NEW m \in 1..Len(n)
        PROVE  \E i \in 1..Len(s) :
                    \/ m = at[i] /\ n[m] = s[i] /\ Kept(i)
                    \/ m = at[i] + 1 /\ n[m] = stub_tool_result(s[i].id) /\ s[i].kind = "call"
    <2>1. PICK i \in 1..Len(s) : \E k \in 1..Len(Repaired(s, i)) : m = off[i - 1] + k
      BY <1>1
    <2>2. PICK k \in 1..Len(Repaired(s, i)) : m = off[i - 1] + k
      BY <2>1
    <2>3. n[m] = Repaired(s, i)[k]
      BY <2>2, <1>1
    <2>4. CASE Repaired(s, i) = <<>>
      BY <2>4, <2>2
    <2>5. CASE Repaired(s, i) = <<s[i], stub_tool_result(s[i].id)>> /\ s[i].kind = "call"
      <3>1. k \in {1, 2}
        BY <2>5, <2>2
      <3>2. ~is_tool_role_value(s[i])
        BY <2>5 DEF is_tool_role_value
      <3>3. CASE k = 1
        BY <3>3, <2>2, <2>3, <2>5, <3>2, <1>2
      <3>4. CASE k = 2
        <4>1. m = at[i] + 1
          BY <3>4, <2>2, <1>2
        <4>2. n[m] = stub_tool_result(s[i].id)
          BY <3>4, <2>3, <2>5
        <4> QED BY <4>1, <4>2, <2>5
      <3> QED BY <3>1, <3>3, <3>4
    <2>6. CASE Repaired(s, i) = <<s[i]>> /\ Kept(i)
      <3>1. k = 1
        BY <2>6, <2>2
      <3> QED BY <3>1, <2>2, <2>3, <2>6, <1>2
    <2>7. \/ Repaired(s, i) = <<>>
          \/ Repaired(s, i) = <<s[i], stub_tool_result(s[i].id)>> /\ s[i].kind = "call"
          \/ Repaired(s, i) = <<s[i]>> /\ Kept(i)
      BY <1>0, RepairedFacts
    <2> QED BY <2>4, <2>5, <2>6, <2>7
  <1>7. n = sanitize_tool_pairs(s) /\ n \in Seq(Message)
    BY <1>1 DEF n
  <1> HIDE DEF Kept
  <1>8. /\ \A i \in 1..Len(s) : Kept(i) => at[i] \in 1..Len(n) /\ n[at[i]] = s[i]
        /\ \A i, j \in 1..Len(s) : i < j /\ Kept(i) => at[i] < at[j]
        /\ \A m \in 1..Len(n) : \E i \in 1..Len(s) :
              \/ m = at[i] /\ n[m] = s[i] /\ Kept(i)
              \/ m = at[i] + 1 /\ n[m] = stub_tool_result(s[i].id) /\ s[i].kind = "call"
    BY <1>3, <1>4, <1>6
  <1>9. \A i \in 1..Len(s) :
           s[i].kind = "call" /\ s[i].id \notin ResultIds(s) \cup CallIds(SubSeq(s, 1, i - 1)) =>
              at[i] + 1 \in 1..Len(n) /\ n[at[i] + 1] = stub_tool_result(s[i].id)
    BY <1>5
  <1> n \in Seq(Message) /\ at \in [1..Len(s) -> Nat]
    BY <1>7, <1>2
  <1> WITNESS n \in Seq(Message), at \in [1..Len(s) -> Nat]
  <1> QED BY <1>7, <1>8, <1>9 DEF Kept

\* What a strict provider asks of the tool messages.
Paired(s) ==
    /\ Dangling(s) = {}
    /\ \A i \in DOMAIN s : is_tool_role_value(s[i]) =>
          s[i].id \in CallIds(SubSeq(s, 1, i - 1))

\* A history that is in order comes out of the repair with every call answered
\* further down and every tool message below its call.
LEMMA SanitizePairs ==
    ASSUME NEW s \in Seq(Message), InOrder(s)
    PROVE  Paired(sanitize_tool_pairs(s))
  <1>0. DOMAIN s = 1..Len(s) /\ Len(s) \in Nat /\ \A i \in 1..Len(s) : s[i] \in Message
    OBVIOUS
  <1>1. PICK n \in Seq(Message), at \in [1..Len(s) -> Nat] :
              /\ n = sanitize_tool_pairs(s)
              /\ \A i \in 1..Len(s) :
                    (~is_tool_role_value(s[i]) \/ s[i].id \in CallIds(s)) =>
                       at[i] \in 1..Len(n) /\ n[at[i]] = s[i]
              /\ \A i, j \in 1..Len(s) :
                    i < j /\ (~is_tool_role_value(s[i]) \/ s[i].id \in CallIds(s)) => at[i] < at[j]
              /\ \A i \in 1..Len(s) :
                    s[i].kind = "call" /\ s[i].id \notin ResultIds(s) \cup CallIds(SubSeq(s, 1, i - 1)) =>
                       at[i] + 1 \in 1..Len(n) /\ n[at[i] + 1] = stub_tool_result(s[i].id)
              /\ \A m \in 1..Len(n) : \E i \in 1..Len(s) :
                    \/ /\ m = at[i] /\ n[m] = s[i]
                       /\ is_tool_role_value(s[i]) => s[i].id \in CallIds(s)
                    \/ /\ m = at[i] + 1 /\ n[m] = stub_tool_result(s[i].id)
                       /\ s[i].kind = "call"
    BY SanitizePlaces
  <1>2. DOMAIN n = 1..Len(n) /\ Len(n) \in Nat
    OBVIOUS
  <1>3. \A i \in 1..Len(s) : at[i] \in Nat
    OBVIOUS
  <1>4. ASSUME NEW m \in 1..Len(n), n[m].kind = "call"
        PROVE  \E k \in 1..Len(n) : m < k /\ is_tool_role_value(n[k]) /\ n[k].id = n[m].id
    <2>1. PICK i \in 1..Len(s) :
                    \/ m = at[i] /\ n[m] = s[i]
                    \/ n[m] = stub_tool_result(s[i].id)
      BY <1>1
    <2>2. m = at[i] /\ n[m] = s[i] /\ s[i].kind = "call"
      BY <2>1, <1>4 DEF stub_tool_result
    <2>3. ~is_tool_role_value(s[i])
      BY <2>2 DEF is_tool_role_value
    <2>4. CASE s[i].id \in ResultIds(s)
      <3>1. PICK l \in 1..Len(s) : is_tool_role_value(s[l]) /\ s[l].id = s[i].id
        BY <2>4, <1>0 DEF ResultIds
      <3>2. i < l
        <4>1. l # i
          BY <3>1, <2>3
        <4>2. ~(l < i)
          BY <3>1, <2>2, <1>0 DEF InOrder
        <4> QED BY <4>1, <4>2
      <3>3. s[l].id \in CallIds(s)
        BY <3>1, <2>2, <1>0, IdFacts
      <3>4. at[l] \in 1..Len(n) /\ n[at[l]] = s[l]
        BY <3>3, <1>1
      <3>5. at[i] < at[l]
        BY <3>2, <2>3, <1>1
      <3> QED BY <3>1, <3>4, <3>5, <2>2
    <2>5. CASE s[i].id \notin ResultIds(s)
      <3> DEFINE b == SubSeq(s, 1, i - 1)
      <3>1. /\ b \in Seq(Message) /\ DOMAIN b = 1..(i - 1)
            /\ \A k \in 1..(i - 1) : b[k] = s[k] /\ k \in 1..Len(s) /\ k < i
        BY <1>0
      <3> HIDE DEF b
      <3>2. s[i].id \notin CallIds(b)
        <4>1. \A k \in 1..(i - 1) : b[k].id # s[i].id
          BY <3>1, <2>2, <1>0 DEF InOrder
        <4> QED BY <4>1, <3>1 DEF CallIds
      <3>3. at[i] + 1 \in 1..Len(n) /\ n[at[i] + 1] = stub_tool_result(s[i].id)
        BY <3>2, <2>5, <2>2, <1>1 DEF b
      <3>4. is_tool_role_value(n[at[i] + 1]) /\ n[at[i] + 1].id = s[i].id
        BY <3>3 DEF is_tool_role_value, stub_tool_result
      <3>5. m < at[i] + 1
        BY <2>2, <1>3
      <3> QED BY <3>3, <3>4, <3>5, <2>2
    <2> QED BY <2>4, <2>5
  <1>5. ASSUME NEW m \in 1..Len(n), is_tool_role_value(n[m])
        PROVE  \E k \in 1..Len(n) : k < m /\ n[k].kind = "call" /\ n[k].id = n[m].id
    <2>1. PICK i \in 1..Len(s) :
                    \/ /\ m = at[i] /\ n[m] = s[i]
                       /\ is_tool_role_value(s[i]) => s[i].id \in CallIds(s)
                    \/ /\ m = at[i] + 1 /\ n[m] = stub_tool_result(s[i].id)
                       /\ s[i].kind = "call"
      BY <1>1
    <2>2. CASE m = at[i] /\ n[m] = s[i] /\ (is_tool_role_value(s[i]) => s[i].id \in CallIds(s))
      <3>1. is_tool_role_value(s[i])
        BY <2>2, <1>5
      <3>2. PICK l \in 1..Len(s) : s[l].kind = "call" /\ s[l].id = s[i].id
        BY <3>1, <2>2, <1>0 DEF CallIds
      <3>3. ~is_tool_role_value(s[l])
        BY <3>2 DEF is_tool_role_value
      <3>4. l < i
        <4>1. l # i
          BY <3>1, <3>3
        <4>2. ~(i < l)
          BY <3>2, <1>0 DEF InOrder
        <4> QED BY <4>1, <4>2
      <3>5. at[l] \in 1..Len(n) /\ n[at[l]] = s[l]
        BY <3>3, <1>1
      <3>6. at[l] < at[i]
        BY <3>4, <3>3, <1>1
      <3> QED BY <3>2, <3>5, <3>6, <2>2
    <2>3. CASE m = at[i] + 1 /\ n[m] = stub_tool_result(s[i].id) /\ s[i].kind = "call"
      <3>1. ~is_tool_role_value(s[i])
        BY <2>3 DEF is_tool_role_value
      <3>2. at[i] \in 1..Len(n) /\ n[at[i]] = s[i]
        BY <3>1, <1>1
      <3>3. at[i] < m /\ n[m].id = s[i].id
        BY <2>3, <1>3 DEF stub_tool_result
      <3> QED BY <3>2, <3>3, <2>3
    <2> QED BY <2>1, <2>2, <2>3
  <1>6. Paired(n)
    <2>1. \A c : c \notin Dangling(n)
      BY <1>4, <1>2, IdFacts
    <2>2. ASSUME NEW m \in DOMAIN n, is_tool_role_value(n[m])
          PROVE  n[m].id \in CallIds(SubSeq(n, 1, m - 1))
      <3> DEFINE b == SubSeq(n, 1, m - 1)
      <3>1. /\ b \in Seq(Message) /\ DOMAIN b = 1..(m - 1)
            /\ \A k \in 1..(m - 1) : b[k] = n[k]
        BY <1>2
      <3>2. PICK k \in 1..Len(n) : k < m /\ n[k].kind = "call" /\ n[k].id = n[m].id
        BY <2>2, <1>5, <1>2
      <3>3. k \in 1..(m - 1)
        BY <3>2, <1>2
      <3> HIDE DEF b
      <3>4. n[m].id \in CallIds(b)
        BY <3>1, <3>2, <3>3, IdFacts
      <3> QED BY <3>4 DEF b
    <2> QED BY <2>1, <2>2 DEF Paired
  <1> QED BY <1>6, <1>1

\* The repair leaves out nothing but tool results whose call is gone, adds
\* nothing, and leaves the calls alone.
LEMMA SanitizeItems ==
    ASSUME NEW s \in Seq(Message)
    PROVE  /\ sanitize_tool_pairs(s) \in Seq(Message)
           /\ Items(sanitize_tool_pairs(s)) \subseteq Items(s)
           /\ \A x \in Items(s) \ Items(sanitize_tool_pairs(s)) :
                 x[1] = "result" /\ <<x[2], x[3]>> \notin CallIds(sanitize_tool_pairs(s))
  <1>0. DOMAIN s = 1..Len(s) /\ Len(s) \in Nat /\ \A i \in 1..Len(s) : s[i] \in Message
    OBVIOUS
  <1>1. PICK n \in Seq(Message), at \in [1..Len(s) -> Nat] :
              /\ n = sanitize_tool_pairs(s)
              /\ \A i \in 1..Len(s) :
                    (~is_tool_role_value(s[i]) \/ s[i].id \in CallIds(s)) =>
                       at[i] \in 1..Len(n) /\ n[at[i]] = s[i]
              /\ \A m \in 1..Len(n) : \E i \in 1..Len(s) :
                    \/ n[m] = s[i]
                    \/ n[m] = stub_tool_result(s[i].id)
    BY SanitizePlaces
  <1>2. DOMAIN n = 1..Len(n) /\ Len(n) \in Nat
    OBVIOUS
  <1>3. Items(n) \subseteq Items(s)
    <2>1. ASSUME NEW m \in 1..Len(n) PROVE n[m].covers \subseteq Items(s)
      <3>1. PICK i \in 1..Len(s) : n[m] = s[i] \/ n[m] = stub_tool_result(s[i].id)
        BY <1>1
      <3>2. s[i].covers \subseteq Items(s)
        BY <1>0 DEF Items
      <3> QED BY <3>1, <3>2 DEF stub_tool_result
    <2> QED BY <2>1, <1>2 DEF Items
  <1>4. CallIds(n) \subseteq CallIds(s)
    <2>1. ASSUME NEW m \in 1..Len(n), n[m].kind = "call"
          PROVE  n[m].id \in CallIds(s)
      <3>1. PICK i \in 1..Len(s) : n[m] = s[i] \/ n[m] = stub_tool_result(s[i].id)
        BY <1>1
      <3>2. n[m] = s[i]
        BY <3>1, <2>1 DEF stub_tool_result
      <3> QED BY <3>2, <2>1, <1>0, IdFacts
    <2> QED BY <2>1, <1>2, IdFacts
  <1>5. ASSUME NEW x \in Items(s) \ Items(n)
        PROVE  x[1] = "result" /\ <<x[2], x[3]>> \notin CallIds(n)
    <2>1. PICK i \in 1..Len(s) : x \in s[i].covers
      BY <1>0 DEF Items
    <2>2. is_tool_role_value(s[i]) /\ s[i].id \notin CallIds(s)
      <3>1. CASE at[i] \in 1..Len(n) /\ n[at[i]] = s[i]
        BY <3>1, <2>1, <1>2 DEF Items
      <3> QED BY <3>1, <1>1
    <2>3. /\ s[i].kind = "stub" => s[i].covers = {}
          /\ s[i].kind = "result" => s[i].covers = {<<"result", s[i].id[1], s[i].id[2]>>}
          /\ s[i].id \in ToolIds
      BY <2>2, <1>0, MessageFacts DEF is_tool_role_value
    <2>4. s[i].kind = "result" /\ x = <<"result", s[i].id[1], s[i].id[2]>>
      BY <2>1, <2>2, <2>3 DEF is_tool_role_value
    <2>5. <<x[2], x[3]>> = s[i].id
      BY <2>3, <2>4 DEF ToolIds
    <2> QED BY <2>2, <2>4, <2>5, <1>4
  <1> QED BY <1>1, <1>3, <1>5

\* A history with the messages a+1..b replaced by one that stands for them.
Elided(s, a, b) ==
    SubSeq(s, 1, a) \o <<build_summary_message(SubSeq(s, a + 1, b))>> \o SubSeq(s, b + 1, Len(s))

\* Summarising the middle keeps order and loses nothing.
LEMMA ElidedFacts ==
    ASSUME NEW s \in Seq(Message), NEW a \in 0..Len(s), NEW b \in a..Len(s)
    PROVE  /\ Elided(s, a, b) \in Seq(Message)
           /\ InOrder(s) => InOrder(Elided(s, a, b))
           /\ Items(Elided(s, a, b)) = Items(s)
  <1> DEFINE x == SubSeq(s, 1, a)
             y == SubSeq(s, a + 1, b)
             m == build_summary_message(y)
             z == SubSeq(s, b + 1, Len(s))
             u == x \o <<m>>
             e == u \o z
             D == Len(s) - b
  <1>0. DOMAIN s = 1..Len(s) /\ Len(s) \in Nat /\ \A i \in 1..Len(s) : s[i] \in Message
    OBVIOUS
  <1>1. a \in Nat /\ b \in Nat /\ a <= b /\ b <= Len(s) /\ D \in Nat
    BY <1>0
  <1>2. x \in Seq(Message) /\ Len(x) = a /\ \A i \in 1..a : x[i] = s[i]
    BY <1>0, <1>1
  <1>3. y \in Seq(Message) /\ DOMAIN y = 1..(b - a) /\ \A i \in 1..(b - a) : y[i] = s[a + i]
    BY <1>0, <1>1
  <1>4. z \in Seq(Message) /\ Len(z) = D /\ \A i \in 1..D : z[i] = s[b + i]
    <2>1. z \in Seq(Message) /\ Len(z) = D
      <3>1. b + 1 \in Nat /\ b + 1 >= 1
        BY <1>1
      <3>2. z \in Seq(Message)
        BY <1>0, <3>1
      <3>3. Len(z) = IF b + 1 <= Len(s) THEN Len(s) - (b + 1) + 1 ELSE 0
        BY <1>0, <3>1
      <3>4. CASE b + 1 <= Len(s)
        <4>1. Len(s) - (b + 1) + 1 = D
          BY <1>0, <1>1
        <4> HIDE DEF z, D
        <4> QED BY <3>2, <3>3, <3>4, <4>1
      <3>5. CASE ~(b + 1 <= Len(s))
        <4>0. Len(s) \in Nat /\ b \in Nat /\ b <= Len(s)
          BY <1>0, <1>1
        <4>1. b = Len(s)
          BY <4>0, <3>5
        <4>2. 0 = D
          BY <4>0, <4>1
        <4> HIDE DEF z, D
        <4> QED BY <3>2, <3>3, <3>5, <4>2
      <3> QED BY <3>4, <3>5
    <2>2. ASSUME NEW i \in 1..D PROVE z[i] = s[b + i]
      <3>1. z[i] = s[(b + 1) + i - 1] /\ (b + 1) + i - 1 = b + i
        BY <1>0, <1>1
      <3> QED BY <3>1
    <2> QED BY <2>1, <2>2
  <1>5. m \in Message /\ m.kind = "summary" /\ m.id = <<>> /\ m.covers = Items(y)
    BY <1>3, MessagesMade DEF build_summary_message
  <1>6. Elided(s, a, b) = e
    BY DEF Elided
  <1> HIDE DEF x, y, m, z
  <1>7. u \in Seq(Message) /\ Len(u) = a + 1 /\ (\A i \in 1..a : u[i] = s[i]) /\ u[a + 1] = m
    BY <1>1, <1>2, <1>5
  <1> HIDE DEF u
  <1>8. /\ e \in Seq(Message) /\ Len(e) = a + 1 + D
        /\ \A i \in 1..(a + 1) : e[i] = u[i]
        /\ \A k \in 1..D : e[(a + 1) + k] = s[b + k]
    <2>1. /\ e \in Seq(Message) /\ Len(e) = Len(u) + Len(z)
          /\ \A i \in 1..Len(u) : e[i] = u[i]
          /\ \A k \in 1..Len(z) : e[Len(u) + k] = z[k]
      <3>1. u \in Seq(Message) /\ z \in Seq(Message)
        BY <1>4, <1>7
      <3> QED BY <3>1, ConcatFacts
    <2> HIDE DEF e, D
    <2>2. Len(u) = a + 1 /\ Len(z) = D /\ \A k \in 1..D : z[k] = s[b + k]
      BY <1>4, <1>7
    <2> QED BY <2>1, <2>2, Zenon
  <1> HIDE DEF e
  <1> DEFINE from(i) == IF i <= a THEN i ELSE (i - (a + 1)) + b
  <1>9. /\ DOMAIN e = 1..(a + 1 + D)
        /\ \A i \in 1..a : e[i] = s[i]
        /\ e[a + 1] = m
    BY <1>1, <1>7, <1>8
  <1>10. ASSUME NEW i \in 1..(a + 1 + D), i # a + 1
         PROVE  from(i) \in 1..Len(s) /\ e[i] = s[from(i)]
    <2>1. CASE i <= a
      BY <2>1, <1>1, <1>9
    <2>2. CASE ~(i <= a)
      <3>1. i - (a + 1) \in 1..D /\ (a + 1) + (i - (a + 1)) = i /\ from(i) = b + (i - (a + 1))
        BY <2>2, <1>10, <1>1
      <3>2. e[i] = s[b + (i - (a + 1))]
        BY <3>1, <1>8
      <3> QED BY <3>1, <3>2, <1>0, <1>1
    <2> QED BY <2>1, <2>2
  <1>11. ASSUME InOrder(s) PROVE InOrder(e)
    <2>1. SUFFICES ASSUME NEW i \in DOMAIN e, NEW j \in DOMAIN e, i < j, e[j].kind = "call"
                   PROVE  e[i].id # e[j].id
      BY DEF InOrder
    <2>2. j # a + 1
      BY <2>1, <1>5, <1>9
    <2>3. from(j) \in 1..Len(s) /\ e[j] = s[from(j)]
      BY <2>2, <1>9, <1>10
    <2>4. CASE i = a + 1
      <3>1. e[j].id \in ToolIds
        BY <2>1, <2>3, <1>0, MessageFacts
      <3>2. <<>> \notin ToolIds
        BY DEF ToolIds
      <3> QED BY <2>4, <3>1, <3>2, <1>5, <1>9
    <2>5. CASE i # a + 1
      <3>1. from(i) \in 1..Len(s) /\ e[i] = s[from(i)]
        BY <2>5, <1>9, <1>10
      <3>2. from(i) < from(j)
        BY <2>1, <2>2, <2>5, <1>1, <1>9
      <3> HIDE DEF from
      <3> QED BY <2>1, <2>3, <3>1, <3>2, <1>0, <1>11 DEF InOrder
    <2> QED BY <2>4, <2>5
  <1>12. Items(e) \subseteq Items(s)
    <2>1. ASSUME NEW i \in DOMAIN e PROVE e[i].covers \subseteq Items(s)
      <3>1. CASE i = a + 1
        <4>1. \A k \in 1..(b - a) : a + k \in 1..Len(s)
          BY <1>0, <1>1
        <4>2. \A k \in DOMAIN y : y[k].covers \subseteq Items(s)
          BY <4>1, <1>0, <1>3 DEF Items
        <4>3. Items(y) \subseteq Items(s)
          BY <4>2 DEF Items
        <4> QED BY <3>1, <4>3, <1>5, <1>9
      <3>2. CASE i # a + 1
        <4>1. from(i) \in 1..Len(s) /\ e[i] = s[from(i)]
          BY <3>2, <1>9, <1>10
        <4> HIDE DEF from
        <4> QED BY <4>1, <1>0 DEF Items
      <3> QED BY <3>1, <3>2
    <2> QED BY <2>1 DEF Items
  <1>13. Items(s) \subseteq Items(e)
    <2>1. ASSUME NEW i \in 1..Len(s) PROVE s[i].covers \subseteq Items(e)
      <3>1. CASE i <= a
        <4>1. i \in DOMAIN e /\ e[i] = s[i]
          BY <3>1, <1>1, <1>9
        <4> QED BY <4>1 DEF Items
      <3>2. CASE a < i /\ i <= b
        <4>1. i - a \in 1..(b - a) /\ a + (i - a) = i
          BY <3>2, <1>1
        <4>2. s[i].covers \subseteq Items(y)
          BY <4>1, <1>3 DEF Items
        <4>3. a + 1 \in DOMAIN e
          BY <1>1, <1>9
        <4> QED BY <4>2, <4>3, <1>5, <1>9 DEF Items
      <3>3. CASE b < i
        <4>1. i - b \in 1..D /\ b + (i - b) = i
          BY <3>3, <1>1
        <4>2. (a + 1) + (i - b) \in DOMAIN e
          BY <4>1, <1>1, <1>9
        <4>3. e[(a + 1) + (i - b)] = s[i]
          BY <4>1, <1>8
        <4> QED BY <4>2, <4>3 DEF Items
      <3> QED BY <3>1, <3>2, <3>3, <1>1
    <2> QED BY <2>1, <1>0 DEF Items
  <1> QED BY <1>6, <1>8, <1>11, <1>12, <1>13

\* The least number of a set of numbers.
LEMMA LeastFacts ==
    ASSUME NEW T \in SUBSET Nat, T # {}
    PROVE  Least(T) \in T /\ \A y \in T : Least(T) <= y
  BY LeastNumber DEF Least

\* The head ends and the tail begins inside the history, the tail after the head.
LEMMA CutFacts ==
    ASSUME NEW s \in Seq(Message)
    PROVE  /\ HeadEnd(s) \in 0..Len(s)
           /\ TailCuts(s) \subseteq HeadEnd(s)..Len(s)
           /\ \A c \in 0..Len(s) : align_boundary_forward_past_tool_group(s, c) \in c..Len(s)
  <1>0. Len(s) \in Nat /\ ProtectHead \in Nat /\ ProtectTailMin \in Nat
    BY HistoryAssumption
  <1>1. HeadEnd(s) \in 0..Len(s)
    <2>1. {ProtectHead, Len(s)} \in SUBSET Nat /\ {ProtectHead, Len(s)} # {}
      BY <1>0
    <2> QED BY <2>1, <1>0, LeastFacts DEF HeadEnd
  <1>2. TailCuts(s) \subseteq HeadEnd(s)..Len(s)
    <2> DEFINE T == {ProtectTailMin, Len(s) - HeadEnd(s)}
    <2>1. T \in SUBSET Nat /\ T # {}
      BY <1>0, <1>1
    <2>2. Least(T) \in Nat
      BY <2>1, LeastFacts
    <2> QED BY <2>2, <1>0, <1>1 DEF TailCuts
  <1>3. ASSUME NEW c \in 0..Len(s)
        PROVE  align_boundary_forward_past_tool_group(s, c) \in c..Len(s)
    <2> DEFINE T == {i \in c .. Len(s) : i = Len(s) \/ ~is_tool_role_value(s[i + 1])}
    <2>1. T \in SUBSET Nat /\ Len(s) \in T
      BY <1>0
    <2>2. Least(T) \in T
      BY <2>1, LeastFacts
    <2>3. align_boundary_forward_past_tool_group(s, c) = Least(T)
      BY DEF align_boundary_forward_past_tool_group
    <2>4. T \subseteq c..Len(s)
      OBVIOUS
    <2> HIDE DEF T
    <2> QED BY <2>2, <2>3, <2>4
  <1> QED BY <1>1, <1>2, <1>3

\* What compaction makes of a history: messages only, nothing new in them, nothing
\* left out but tool results whose call is gone, and every call paired with its
\* answer if the history was in order.
LEMMA CompactionFacts ==
    ASSUME NEW s \in Seq(Message), NEW n \in run_compaction(s)
    PROVE  /\ n \in Seq(Message)
           /\ InOrder(s) => Paired(n)
           /\ Items(n) \subseteq Items(s)
           /\ \A x \in Items(s) \ Items(n) :
                 x[1] = "result" /\ <<x[2], x[3]>> \notin CallIds(n)
  <1>1. CASE Mode = "replace"
    <2> DEFINE m == build_summary_message(s)
    <2>1. n = <<m>>
      BY <1>1 DEF run_compaction
    <2>2. m \in Message /\ m.kind = "summary" /\ m.covers = Items(s)
      BY MessagesMade DEF build_summary_message
    <2> HIDE DEF m
    <2>3. n \in Seq(Message) /\ DOMAIN n = {1} /\ n[1] = m
      BY <2>1, <2>2
    <2>4. Items(n) = Items(s)
      BY <2>2, <2>3 DEF Items
    <2>5. Paired(n)
      BY <2>2, <2>3 DEF Paired, Dangling, is_tool_role_value
    <2> QED BY <2>3, <2>4, <2>5
  <1>2. CASE Mode # "replace"
    <2>1. PICK c \in TailCuts(s) : n \in recency_preserving(s, c)
      BY <1>2 DEF run_compaction
    <2> DEFINE a == HeadEnd(s)
               b == align_boundary_forward_past_tool_group(s, c)
    <2>2. Len(s) \in Nat /\ a \in 0..Len(s) /\ c \in 0..Len(s)
      BY <2>1, CutFacts
    <2>3. b \in c..Len(s)
      BY <2>2, CutFacts
    <2>4. n = sanitize_tool_pairs(Elided(s, a, b)) \/ n = sanitize_tool_pairs(s)
      BY <2>1 DEF recency_preserving, Elided
    <2> HIDE DEF b
    <2>5. CASE n = sanitize_tool_pairs(s)
      BY <2>5, SanitizeItems, SanitizePairs
    <2>6. CASE n = sanitize_tool_pairs(Elided(s, a, b))
      <3> DEFINE e == Elided(s, a, b)
      <3>1. c \in a..Len(s)
        BY <2>1, CutFacts
      <3> HIDE DEF a
      <3>2. b \in a..Len(s)
        BY <2>2, <2>3, <3>1
      <3>3. e \in Seq(Message) /\ (InOrder(s) => InOrder(e)) /\ Items(e) = Items(s)
        BY <2>2, <3>2, ElidedFacts
      <3>4. n = sanitize_tool_pairs(e)
        BY <2>6
      <3> HIDE DEF e
      <3>5. /\ n \in Seq(Message) /\ Items(n) \subseteq Items(e)
            /\ \A x \in Items(e) \ Items(n) : x[1] = "result" /\ <<x[2], x[3]>> \notin CallIds(n)
        BY <3>3, <3>4, SanitizeItems
      <3>6. InOrder(e) => Paired(n)
        BY <3>3, <3>4, SanitizePairs
      <3> QED BY <3>3, <3>5, <3>6
    <2> QED BY <2>4, <2>5, <2>6
  <1> QED BY <1>1, <1>2

-----------------------------------------------------------------------------
(* The file.                                                               *)

\* What an append does to the file.
LEMMA AppendedFacts ==
    ASSUME NEW h \in Seq(Message), NEW m \in Message
    PROVE  /\ Append(h, m) \in Seq(Message) /\ Len(Append(h, m)) = Len(h) + 1
           /\ Items(Append(h, m)) = Items(h) \cup m.covers
           /\ m.kind # "call" => Dangling(Append(h, m)) \subseteq Dangling(h)
           /\ Dangling(Append(h, m)) \subseteq Dangling(h) \cup {m.id}
           /\ is_tool_role_value(m) => m.id \notin Dangling(Append(h, m))
  <1> DEFINE g == Append(h, m)
             n == Len(h)
  <1>1. /\ g \in Seq(Message) /\ Len(g) = n + 1 /\ DOMAIN g = 1..(n + 1)
        /\ DOMAIN h = 1..n /\ n \in Nat
        /\ g[n + 1] = m /\ \A i \in 1..n : g[i] = h[i]
    OBVIOUS
  <1> HIDE DEF g, n
  <1>2. Items(g) = Items(h) \cup m.covers
    <2>1. Items(g) \subseteq Items(h) \cup m.covers
      <3>1. ASSUME NEW i \in DOMAIN g PROVE g[i].covers \subseteq Items(h) \cup m.covers
        <4>1. i = n + 1 \/ (i \in 1..n /\ g[i] = h[i])
          BY <1>1
        <4> QED BY <4>1, <1>1 DEF Items
      <3> QED BY <3>1 DEF Items
    <2>2. Items(h) \cup m.covers \subseteq Items(g)
      <3>1. n + 1 \in DOMAIN g /\ \A i \in DOMAIN h : i \in DOMAIN g /\ g[i] = h[i]
        BY <1>1
      <3> QED BY <3>1, <1>1 DEF Items
    <2> QED BY <2>1, <2>2
  <1>3. ASSUME NEW c \in Dangling(g)
        PROVE  /\ c \in Dangling(h) \/ (m.kind = "call" /\ c = m.id)
               /\ is_tool_role_value(m) => c # m.id
    <2>1. PICK i \in DOMAIN g :
                /\ g[i].kind = "call" /\ g[i].id = c
                /\ \A j \in DOMAIN g : i < j /\ is_tool_role_value(g[j]) => g[j].id # c
      BY <1>1, IdFacts
    <2>2. CASE i = n + 1
      BY <2>1, <2>2, <1>1 DEF is_tool_role_value
    <2>3. CASE i # n + 1
      <3>1. i \in 1..n /\ i < n + 1 /\ g[i] = h[i]
        BY <2>3, <1>1
      <3>2. is_tool_role_value(m) => c # m.id
        BY <3>1, <2>1, <1>1
      <3>3. \A j \in DOMAIN h : j \in DOMAIN g /\ g[j] = h[j]
        BY <1>1
      <3>4. c \in Dangling(h)
        BY <2>1, <3>1, <3>3, <1>1, IdFacts
      <3> QED BY <3>2, <3>4
    <2> QED BY <2>2, <2>3
  <1>4. /\ m.kind # "call" => Dangling(g) \subseteq Dangling(h)
        /\ Dangling(g) \subseteq Dangling(h) \cup {m.id}
        /\ is_tool_role_value(m) => m.id \notin Dangling(g)
    BY <1>3
  <1> QED BY <1>1, <1>2, <1>4 DEF g, n

\* What a replacement makes of the file: its own messages, then lines that were
\* there.
LEMMA OverwrittenFacts ==
    ASSUME NEW new \in Seq(Message), NEW h \in Seq(Message), NEW g \in Overwritten(new, h)
    PROVE  /\ g \in Seq(Message)
           /\ Items(new) \subseteq Items(g) /\ Items(g) \subseteq Items(new) \cup Items(h)
           /\ Dangling(g) \subseteq Dangling(new) \cup Dangling(h)
           /\ new = <<>> => g = h
  <1>1. CASE new = <<>>
    <2>1. g = h
      BY <1>1 DEF Overwritten
    <2>2. Items(new) = {}
      BY <1>1 DEF Items
    <2> QED BY <2>1, <2>2
  <1>2. CASE new # <<>>
    <2>0. Len(h) \in Nat /\ DOMAIN h = 1..Len(h)
      OBVIOUS
    <2>1. PICK k \in 0..Len(h) : g = new \o SubSeq(h, k + 1, Len(h))
      <3> DEFINE K == (IF h = <<>> THEN 0 ELSE 1) .. Len(h)
      <3>1. K \subseteq 0..Len(h)
        BY <2>0
      <3>2. \E k \in K : g = new \o SubSeq(h, k + 1, Len(h))
        BY <1>2 DEF Overwritten
      <3> HIDE DEF K
      <3> QED BY <3>1, <3>2
    <2> DEFINE z == SubSeq(h, k + 1, Len(h))
               n == Len(new)
    <2>2. z \in Seq(Message)
      BY <2>0
    <2>3. ASSUME NEW i \in DOMAIN z PROVE k + i \in DOMAIN h /\ z[i] = h[k + i]
      BY <2>0
    <2>4. ASSUME NEW i \in DOMAIN h, k < i PROVE i - k \in DOMAIN z /\ z[i - k] = h[i]
      BY <2>4, <2>0
    <2>5. g = new \o z
      BY <2>1
    <2> HIDE DEF z
    <2>6. /\ g \in Seq(Message) /\ Len(g) = n + Len(z) /\ n \in Nat /\ Len(z) \in Nat
          /\ \A i \in 1..n : g[i] = new[i]
          /\ \A i \in 1..Len(z) : g[n + i] = z[i]
      <3>1. /\ new \o z \in Seq(Message) /\ Len(new \o z) = Len(new) + Len(z)
            /\ Len(new) \in Nat /\ Len(z) \in Nat
            /\ \A i \in 1..Len(new) : (new \o z)[i] = new[i]
            /\ \A i \in 1..Len(z) : (new \o z)[Len(new) + i] = z[i]
        BY <2>2, ConcatFacts
      <3> QED BY <3>1, <2>5, Zenon
    <2>7. DOMAIN g = 1..(n + Len(z)) /\ DOMAIN new = 1..n /\ DOMAIN z = 1..Len(z)
      BY <2>2, <2>6
    <2> HIDE DEF n
    <2>8. ASSUME NEW i \in DOMAIN g
          PROVE  \/ i \in DOMAIN new /\ g[i] = new[i]
                 \/ i - n \in DOMAIN z /\ g[i] = z[i - n] /\ n < i
      <3>1. CASE i <= n
        BY <3>1, <2>6, <2>7
      <3>2. CASE ~(i <= n)
        <4>1. i - n \in 1..Len(z) /\ n + (i - n) = i /\ n < i
          BY <3>2, <2>6, <2>7
        <4> QED BY <4>1, <2>6, <2>7
      <3> QED BY <3>1, <3>2
    <2>9. Items(new) \subseteq Items(g)
      <3>1. \A i \in DOMAIN new : i \in DOMAIN g /\ g[i] = new[i]
        BY <2>6, <2>7
      <3> QED BY <3>1 DEF Items
    <2>10. Items(g) \subseteq Items(new) \cup Items(h)
      <3>1. ASSUME NEW i \in DOMAIN g PROVE g[i].covers \subseteq Items(new) \cup Items(h)
        <4>1. CASE i \in DOMAIN new /\ g[i] = new[i]
          BY <4>1 DEF Items
        <4>2. CASE i - n \in DOMAIN z /\ g[i] = z[i - n]
          <5>1. k + (i - n) \in DOMAIN h /\ g[i] = h[k + (i - n)]
            BY <4>2, <2>3
          <5> QED BY <5>1 DEF Items
        <4> QED BY <4>1, <4>2, <2>8
      <3> QED BY <3>1 DEF Items
    <2>11. ASSUME NEW c \in Dangling(g) PROVE c \in Dangling(new) \cup Dangling(h)
      <3>1. PICK i \in DOMAIN g :
                  /\ g[i].kind = "call" /\ g[i].id = c
                  /\ \A j \in DOMAIN g : i < j /\ is_tool_role_value(g[j]) => g[j].id # c
        BY <2>6, IdFacts
      <3>2. CASE i \in DOMAIN new /\ g[i] = new[i]
        <4>1. \A j \in DOMAIN new : j \in DOMAIN g /\ g[j] = new[j]
          BY <2>6, <2>7
        <4>2. c \in Dangling(new)
          BY <3>1, <3>2, <4>1, IdFacts
        <4> QED BY <4>2
      <3>3. CASE i - n \in DOMAIN z /\ g[i] = z[i - n] /\ n < i
        <4> DEFINE l == k + (i - n)
        <4>1. l \in DOMAIN h /\ g[i] = h[l]
          BY <3>3, <2>3
        <4>2. ASSUME NEW j \in DOMAIN h, l < j, is_tool_role_value(h[j])
              PROVE  h[j].id # c
          <5>1. k < j
            BY <4>2, <3>3, <2>7, <2>0
          <5>2. j - k \in DOMAIN z /\ z[j - k] = h[j]
            BY <5>1, <2>4
          <5>3. n + (j - k) \in DOMAIN g /\ g[n + (j - k)] = h[j]
            BY <5>2, <2>6, <2>7
          <5>4. i < n + (j - k)
            BY <4>2, <3>3, <2>6, <2>7, <2>0
          <5> QED BY <5>3, <5>4, <3>1, <4>2
        <4> HIDE DEF l
        <4>3. c \in Dangling(h)
          BY <3>1, <4>1, <4>2, IdFacts
        <4> QED BY <4>3
      <3> QED BY <3>2, <3>3, <2>8
    <2> QED BY <2>6, <2>9, <2>10, <2>11, <1>2
  <1> QED BY <1>1, <1>2

-----------------------------------------------------------------------------
(* Types.                                                                  *)

Locals == [base : Nat, tools : 0 .. MaxTools, made : 0 .. MaxTools,
           rejected : 0 .. MaxTools, retried : BOOLEAN, disturbed : BOOLEAN]

Places == {"new", "loaded", "compacting", "ready", "running", "overflow", "failing",
           "aborting", "done"}

\* Rejected tool calls are tool calls of the attempt, and those are calls of the turn.
CountsOf(r) == r.made <= r.tools /\ r.rejected <= r.made

\* The locals of a turn that starts, and of one that is disturbed.
LEMMA LocalsFacts ==
    /\ NoRun \in Locals /\ CountsOf(NoRun)
    /\ NoRun = [base |-> 0, tools |-> 0, made |-> 0, rejected |-> 0,
                retried |-> FALSE, disturbed |-> FALSE]
    /\ \A r \in Locals :
          LET d == [r EXCEPT !.disturbed = TRUE] IN
          /\ d \in Locals /\ d.disturbed
          /\ d.base = r.base /\ d.tools = r.tools /\ d.made = r.made
          /\ d.rejected = r.rejected /\ d.retried = r.retried
  <1>1. MaxTools \in Nat
    BY HistoryAssumption
  <1>2. NoRun \in Locals /\ CountsOf(NoRun)
    BY <1>1 DEF NoRun, Locals, CountsOf
  <1>3. ASSUME NEW r \in Locals
        PROVE  LET d == [r EXCEPT !.disturbed = TRUE] IN
               /\ d \in Locals /\ d.disturbed
               /\ d.base = r.base /\ d.tools = r.tools /\ d.made = r.made
               /\ d.rejected = r.rejected /\ d.retried = r.retried
    <2> DEFINE d == [r EXCEPT !.disturbed = TRUE]
    <2>1. d \in Locals
      BY DEF Locals
    <2>2. d.disturbed
      BY DEF Locals
    <2>3. /\ d.base = r.base /\ d.tools = r.tools /\ d.made = r.made
          /\ d.rejected = r.rejected
      BY DEF Locals
    <2>4. d.retried = r.retried
      BY DEF Locals
    <2> QED BY <2>1, <2>2, <2>3, <2>4
  <1>4. NoRun = [base |-> 0, tools |-> 0, made |-> 0, rejected |-> 0,
                 retried |-> FALSE, disturbed |-> FALSE]
    BY DEF NoRun
  <1> QED BY <1>2, <1>3, <1>4

\* Disturbing the turn under way, if there is one, changes nothing else of its locals.
LEMMA DisturbedFacts ==
    ASSUME run \in Locals
    PROVE  /\ Disturbed \in Locals
           /\ Disturbed.base = run.base /\ Disturbed.tools = run.tools
           /\ Disturbed.made = run.made /\ Disturbed.rejected = run.rejected
           /\ Disturbed.retried = run.retried
           /\ Active # {} => Disturbed.disturbed
           /\ Active = {} => Disturbed = run
  <1>1. CASE Active = {}
    BY <1>1 DEF Disturbed
  <1>2. CASE Active # {}
    BY <1>2, LocalsFacts DEF Disturbed
  <1> QED BY <1>1, <1>2

\* The replacement of an owner that has none, has just started one, or goes on.
LEMMA JobFacts ==
    ASSUME job \in [Owners -> Job], NEW o \in Owners
    PROVE  /\ NoJob \in Job
           /\ [p \in Owners |-> NoJob] \in [Owners -> Job]
           /\ [job EXCEPT ![o] = NoJob] \in [Owners -> Job]
           /\ \A h \in Seq(Message), a \in BOOLEAN :
                 [job EXCEPT ![o] = [stage |-> "read", read |-> h, new |-> <<>>, alone |-> a]]
                    \in [Owners -> Job]
           /\ \A n \in Seq(Message) :
                 [job EXCEPT ![o].stage = "truncated", ![o].new = n] \in [Owners -> Job]
           /\ [p \in Owners |-> IF p \in Truncated THEN [job[p] EXCEPT !.new = <<>>] ELSE job[p]]
                 \in [Owners -> Job]
  <1>1. NoJob \in Job
    BY DEF NoJob, Job
  <1>2. \A h \in Seq(Message), a \in BOOLEAN :
           [stage |-> "read", read |-> h, new |-> <<>>, alone |-> a] \in Job
    BY DEF Job
  <1>3. \A j \in Job : \A n \in Seq(Message) :
           /\ [j EXCEPT !.stage = "truncated", !.new = n] \in Job
           /\ [j EXCEPT !.new = n] \in Job
    <2>1. ASSUME NEW j \in Job, NEW n \in Seq(Message)
          PROVE  [j EXCEPT !.stage = "truncated", !.new = n] \in Job
      BY DEF Job
    <2>2. ASSUME NEW j \in Job, NEW n \in Seq(Message) PROVE [j EXCEPT !.new = n] \in Job
      BY DEF Job
    <2> QED BY <2>1, <2>2
  <1>4. ASSUME NEW n \in Seq(Message)
        PROVE  [job EXCEPT ![o].stage = "truncated", ![o].new = n] \in [Owners -> Job]
    BY DEF Job
  <1>5. <<>> \in Seq(Message)
    OBVIOUS
  <1>6. [p \in Owners |-> IF p \in Truncated THEN [job[p] EXCEPT !.new = <<>>] ELSE job[p]]
                 \in [Owners -> Job]
    BY <1>3, <1>5
  <1> QED BY <1>1, <1>2, <1>4, <1>6

\* What a replacement that ends early leaves: some of its messages, then lines that
\* were there.
LEMMA TornFacts ==
    ASSUME NEW o, job[o].new \in Seq(Message), history \in Seq(Message), NEW g \in Torn(o)
    PROVE  g \in Seq(Message) /\ Items(g) \subseteq Items(job[o].new) \cup Items(history)
  <1>1. CASE g = history
    BY <1>1
  <1>2. ASSUME NEW k \in 1 .. Len(job[o].new) - 1,
               g \in Overwritten(SubSeq(job[o].new, 1, k), history)
        PROVE  g \in Seq(Message) /\ Items(g) \subseteq Items(job[o].new) \cup Items(history)
    <2> DEFINE new  == job[o].new
               part == SubSeq(new, 1, k)
    <2>1. /\ part \in Seq(Message) /\ DOMAIN part = 1..k /\ \A i \in 1..k : part[i] = new[i]
          /\ 1..k \subseteq DOMAIN new
      BY <1>2
    <2> HIDE DEF part
    <2>2. Items(part) \subseteq Items(new)
      BY <2>1 DEF Items
    <2>3. g \in Overwritten(part, history)
      BY <1>2 DEF part
    <2>4. g \in Seq(Message) /\ Items(g) \subseteq Items(part) \cup Items(history)
      BY <2>1, <2>3, OverwrittenFacts
    <2> QED BY <2>2, <2>4
  <1> QED BY <1>1, <1>2 DEF Torn

\* Beside the types, the counts of the turn's tool calls are in order.
TypeInv ==
    /\ TypeOK
    /\ CountsOf(run)

\* Every step keeps the types.
LEMMA TypeStep ==
    ASSUME TypeInv, [Next]_vars
    PROVE  TypeInv'
  <1>0. /\ history \in Seq(Message) /\ detached \subseteq Message
        /\ pc \in [Turns -> Places] /\ run \in Locals
        /\ troubles \in 0 .. MaxDisruptions
        /\ queue \in Seq(ToolIds) /\ cut \subseteq Ids
        /\ half \in BOOLEAN /\ (half => queue # <<>>)
        /\ job \in [Owners -> Job]
        /\ run.made <= run.tools /\ run.rejected <= run.made
        /\ MaxTools \in Nat /\ MaxDisruptions \in Nat
    BY HistoryAssumption DEF TypeInv, TypeOK, Places, Locals, CountsOf
  <1> SUFFICES
        /\ history' \in Seq(Message) /\ detached' \subseteq Message
        /\ pc' \in [Turns -> Places] /\ run' \in Locals
        /\ troubles' \in 0 .. MaxDisruptions
        /\ queue' \in Seq(ToolIds) /\ cut' \subseteq Ids
        /\ half' \in BOOLEAN /\ (half' => queue' # <<>>)
        /\ job' \in [Owners -> Job]
        /\ CountsOf(run')
    BY DEF TypeInv, TypeOK, Places, Locals, CountsOf
  <1> DEFINE Good ==
        /\ history' \in Seq(Message) /\ detached' \subseteq Message
        /\ pc' \in [Turns -> Places] /\ run' \in Locals
        /\ troubles' \in 0 .. MaxDisruptions
        /\ queue' \in Seq(ToolIds) /\ cut' \subseteq Ids
        /\ half' \in BOOLEAN /\ (half' => queue' # <<>>)
        /\ job' \in [Owners -> Job]
        /\ CountsOf(run')
  <1>1. \A kind : Disrupt(kind) => troubles' \in 0 .. MaxDisruptions
    BY <1>0 DEF Disrupt
  <1>2. Disturbed \in Locals /\ CountsOf(Disturbed) /\ NoRun \in Locals /\ CountsOf(NoRun)
    BY <1>0, DisturbedFacts, LocalsFacts DEF CountsOf
  <1>3. \A m \in Message : append(m) => history' \in Seq(Message)
    BY <1>0 DEF append
  <1>4. /\ queue # <<>> => Head(queue) \in ToolIds /\ Tail(queue) \in Seq(ToolIds)
        /\ ToolIds \subseteq Ids /\ \A t \in Turns : <<t, 0>> \in Ids
    BY <1>0 DEF ToolIds, Ids
  <1>5. \A p \in Places, t \in Turns : [pc EXCEPT ![t] = p] \in [Turns -> Places]
    BY <1>0
  <1>6. \A o, ok : AfterJob(o, ok) => pc' \in [Turns -> Places]
    BY <1>0 DEF AfterJob, Places
  <1>7. Turns \subseteq Owners /\ {"compact", "voice"} \subseteq Owners
    BY DEF Owners
  <1>8. \A o \in Owners : StartJob(o) => job' \in [Owners -> Job]
    <2>1. ASSUME NEW o \in Owners, StartJob(o) PROVE job' \in [Owners -> Job]
      <3>1. PICK a \in BOOLEAN :
               job' = [job EXCEPT ![o] = [stage |-> "read", read |-> history, new |-> <<>>, alone |-> a]]
        BY <2>1 DEF StartJob
      <3> QED BY <3>1, <1>0, JobFacts
    <2> QED BY <2>1
  <1>9. CountsOf(run)
    BY <1>0 DEF CountsOf
  <1>10. {"new", "loaded", "compacting", "ready", "running", "overflow", "failing", "aborting",
          "done"} = Places
    BY DEF Places
  <1>11. ASSUME NEW t \in Turns, Begin(t) PROVE Good
    <2>1. Len(history) \in Nat
      BY <1>0
    <2>2. run' \in Locals /\ CountsOf(run')
      BY <1>11, <2>1, <1>2 DEF Begin, Locals, CountsOf, NoRun
    <2> QED BY <1>11, <2>2, <1>0, <1>5, <1>10 DEF Begin
  <1>12. ASSUME NEW t \in Turns, AutoCompact(t) PROVE Good
    BY <1>12, <1>0, <1>5, <1>7, <1>8, <1>9, <1>10 DEF AutoCompact
  <1>13. ASSUME NEW t \in Turns, PersistUser(t) PROVE Good
    <2>1. Msg("user", t, 0) \in Message
      BY MessagesMade
    <2> QED BY <1>13, <2>1, <1>0, <1>1, <1>2, <1>3, <1>5, <1>9, <1>10 DEF PersistUser
  <1>14. ASSUME NEW t \in Turns, ToolCallEnd(t) PROVE Good
    <2>1. run' \in Locals /\ CountsOf(run')
      <3>1. run.tools + 1 \in 0..MaxTools /\ run.made + 1 \in 0..MaxTools
        BY <1>14, <1>0 DEF ToolCallEnd, Locals
      <3>2. run' = [run EXCEPT !.tools = @ + 1, !.made = @ + 1]
        BY <1>14 DEF ToolCallEnd
      <3>3. run' \in Locals
        BY <3>1, <3>2, <1>0 DEF Locals
      <3>4. run'.tools = run.tools + 1 /\ run'.made = run.made + 1 /\ run'.rejected = run.rejected
        BY <3>2, <1>0 DEF Locals
      <3> QED BY <3>1, <3>3, <3>4, <1>0 DEF Locals, CountsOf
    <2>2. <<t, run.tools + 1>> \in ToolIds
      BY <1>14, <1>0 DEF ToolCallEnd, Locals, ToolIds
    <2>3. queue' \in Seq(ToolIds) /\ queue' # <<>>
      BY <1>14, <2>2, <1>0 DEF ToolCallEnd
    <2> QED BY <1>14, <2>1, <2>3, <1>0 DEF ToolCallEnd
  <1>15. ASSUME NEW t \in Turns, ToolCallRejected(t) PROVE Good
    <2>1. run' \in Locals /\ CountsOf(run')
      <3>1. /\ run.tools + 1 \in 0..MaxTools /\ run.made + 1 \in 0..MaxTools
            /\ run.rejected + 1 \in 0..MaxTools
        BY <1>15, <1>0 DEF ToolCallRejected, Locals
      <3>2. run' = [run EXCEPT !.tools = @ + 1, !.made = @ + 1, !.rejected = @ + 1]
        BY <1>15 DEF ToolCallRejected
      <3>3. run' \in Locals
        BY <3>1, <3>2, <1>0 DEF Locals
      <3>4. /\ run'.tools = run.tools + 1 /\ run'.made = run.made + 1
            /\ run'.rejected = run.rejected + 1
        BY <3>2, <1>0 DEF Locals
      <3> QED BY <3>1, <3>3, <3>4, <1>0 DEF Locals, CountsOf
    <2> QED BY <1>15, <2>1, <1>0 DEF ToolCallRejected
  <1>16. ASSUME NEW t \in Turns, ContextOverflow(t) PROVE Good
    <2>1. run' \in Locals /\ CountsOf(run')
      BY <1>16, <1>0 DEF ContextOverflow, Locals, CountsOf
    <2> QED BY <1>16, <2>1, <1>0, <1>5, <1>7, <1>8, <1>10 DEF ContextOverflow
  <1>17. ASSUME NEW t \in Turns, FinishRun(t) PROVE Good
    <2>1. Msg("answer", t, 0) \in Message
      BY MessagesMade
    <2> QED BY <1>17, <2>1, <1>0, <1>1, <1>2, <1>3, <1>5, <1>10 DEF FinishRun
  <1>18. ASSUME NEW t \in Turns, FailRun(t) PROVE Good
    BY <1>18, <1>0, <1>2, <1>5, <1>10 DEF FailRun
  <1>19. ASSUME NEW t \in Turns, DropRequest(t) PROVE Good
    <2>1. Msg("user", t, 0) \in Message /\ Msg("answer", t, 0) \in Message
      BY MessagesMade
    <2>2. detached' \subseteq Message /\ cut' \subseteq Ids
      BY <1>19, <2>1, <1>0, <1>4 DEF DropRequest
    <2>3. pc' \in [Turns -> Places] /\ troubles' \in 0 .. MaxDisruptions
      BY <1>19, <1>1, <1>5, <1>10 DEF DropRequest
    <2> QED BY <1>19, <2>2, <2>3, <1>0, <1>2 DEF DropRequest
  <1>20. ASSUME NEW t \in Turns, Abort(t) PROVE Good
    <2>1. queue # <<>> => /\ Msg("result", Head(queue)[1], Head(queue)[2]) \in Message
                          /\ Msg("call", Head(queue)[1], Head(queue)[2]) \in Message
      BY <1>4, MessagesMade
    <2>2. detached' \subseteq Message /\ cut' \subseteq Ids
      BY <1>20, <2>1, <1>0, <1>4 DEF Abort
    <2>3. queue' = <<>> /\ half' = FALSE /\ history' = history /\ run' = run /\ job' = job
      BY <1>20 DEF Abort
    <2>4. pc' \in [Turns -> Places] /\ troubles' \in 0..MaxDisruptions
      BY <1>20, <1>1, <1>5, <1>10 DEF Abort
    <2>5. half' \in BOOLEAN /\ ~half'
      BY <2>3
    <2>6. queue' \in Seq(ToolIds)
      BY <2>3
    <2> QED BY <2>2, <2>3, <2>4, <2>5, <2>6, <1>0, <1>9
  <1>21. ASSUME NEW t \in Turns, AbortCleanup(t) PROVE Good
    <2>1. Msg("answer", t, 0) \in Message
      BY MessagesMade
    <2> QED BY <1>21, <2>1, <1>0, <1>2, <1>3, <1>5, <1>10 DEF AbortCleanup
  <1>22. ASSUME NEW o \in Owners, JobFails(o) PROVE Good
    BY <1>22, <1>0, <1>6, <1>9, JobFacts DEF JobFails
  <1>23. ASSUME NEW o \in Owners, Truncate(o) PROVE Good
    <2>1. job[o].read \in Seq(Message)
      BY <1>0 DEF Job
    <2>2. PICK new \in IF o = "voice" THEN {job[o].read} ELSE run_compaction(job[o].read) :
             /\ job' = [job EXCEPT ![o].stage = "truncated", ![o].new = new]
             /\ cut' = IF o = "voice" \/ ~InOrder(job[o].read) THEN cut \cup Dangling(new) ELSE cut
      BY <1>23 DEF Truncate
    <2>3. new \in Seq(Message)
      BY <2>1, CompactionFacts
    <2>4. cut' \subseteq Ids
      BY <2>2, <2>3, <1>0, <1>4, IdFacts
    <2>5. job' \in [Owners -> Job]
      BY <2>2, <2>3, <1>0, JobFacts
    <2>6. history' = <<>> /\ run' = Disturbed /\ UNCHANGED <<pc, queue, half, detached, troubles>>
      BY <1>23 DEF Truncate
    <2> QED BY <2>4, <2>5, <2>6, <1>0, <1>2
  <1>24. ASSUME NEW o \in Owners, Write(o) PROVE Good
    <2>1. job[o].new \in Seq(Message)
      BY <1>0 DEF Job
    <2>2. history' \in Overwritten(job[o].new, history)
      BY <1>24 DEF Write
    <2>3. history' \in Seq(Message)
      BY <2>1, <2>2, <1>0, OverwrittenFacts
    <2>4. \A r \in Locals : [r EXCEPT !.made = 0, !.rejected = 0] \in Locals
                            /\ CountsOf([r EXCEPT !.made = 0, !.rejected = 0])
      <3>1. ASSUME NEW r \in Locals PROVE [r EXCEPT !.made = 0, !.rejected = 0] \in Locals
        <4>1. ASSUME NEW x \in 0..MaxTools, NEW y \in 0..MaxTools
              PROVE  [r EXCEPT !.made = x, !.rejected = y] \in Locals
          BY DEF Locals
        <4>2. 0 \in 0..MaxTools
          BY <1>0
        <4> QED BY <4>1, <4>2
      <3>2. ASSUME NEW r \in Locals PROVE CountsOf([r EXCEPT !.made = 0, !.rejected = 0])
        BY <1>0 DEF Locals, CountsOf
      <3> QED BY <3>1, <3>2
    <2>5. run' \in Locals /\ CountsOf(run')
      BY <1>24, <2>4, <1>2 DEF Write
    <2> QED BY <1>24, <2>3, <2>5, <1>0, <1>6, JobFacts DEF Write
  <1>25. ASSUME PersistToolCall PROVE Good
    <2>1. Msg("call", Head(queue)[1], Head(queue)[2]) \in Message
      BY <1>25, <1>4, MessagesMade DEF PersistToolCall
    <2> QED BY <1>25, <2>1, <1>0, <1>3, <1>9 DEF PersistToolCall
  <1>26. ASSUME PersistToolResult PROVE Good
    <2>1. Msg("result", Head(queue)[1], Head(queue)[2]) \in Message
      BY <1>26, <1>0, <1>4, MessagesMade DEF PersistToolResult
    <2> QED BY <1>26, <2>1, <1>0, <1>3, <1>4, <1>9 DEF PersistToolResult
  <1>27. ASSUME FailToolAppend PROVE Good
    BY <1>27, <1>0, <1>1, <1>2, <1>4 DEF FailToolAppend
  <1>28. ASSUME NEW m \in detached, Land(m) PROVE Good
    BY <1>28, <1>0, <1>2, <1>3 DEF Land
  <1>29. ASSUME ManualCompact PROVE Good
    BY <1>29, <1>0, <1>1, <1>7, <1>8, <1>9 DEF ManualCompact
  <1>30. ASSUME GenerateVoice PROVE Good
    BY <1>30, <1>0, <1>1, <1>7, <1>8, <1>9 DEF GenerateVoice
  <1>31. ASSUME Clear PROVE Good
    <2>1. job' \in [Owners -> Job]
      BY <1>31, <1>0, <1>7, JobFacts DEF Clear
    <2> QED BY <1>31, <2>1, <1>0, <1>1, <1>2 DEF Clear
  <1>32. ASSUME Crash PROVE Good
    <2>1. history' \in Seq(Message)
      <3>1. CASE history' = history
        BY <3>1, <1>0
      <3>2. ASSUME NEW o \in Truncated, history' \in Torn(o)
            PROVE  history' \in Seq(Message)
        <4>1. job[o].new \in Seq(Message)
          BY <1>0 DEF Truncated, Job
        <4> QED BY <4>1, <3>2, <1>0, TornFacts
      <3> QED BY <1>32, <3>1, <3>2 DEF Crash
    <2>2. cut' \subseteq Ids
      BY <1>32, <2>1, <1>0, <1>4, IdFacts DEF Crash
    <2>3. pc' \in [Turns -> Places]
      BY <1>32 DEF Crash, Places
    <2>4. job' \in [Owners -> Job]
      BY <1>32, <1>0, <1>7, JobFacts DEF Crash
    <2>5. troubles' \in 0 .. MaxDisruptions
      BY <1>32, <1>1 DEF Crash
    <2>6. run' = NoRun /\ queue' = <<>> /\ half' = FALSE /\ detached' = {}
      BY <1>32 DEF Crash
    <2>7. half' \in BOOLEAN /\ ~half'
      BY <2>6
    <2>8. queue' \in Seq(ToolIds) /\ detached' \subseteq Message
      BY <2>6
    <2> QED BY <2>1, <2>2, <2>3, <2>4, <2>5, <2>6, <2>7, <2>8, <1>2
  <1>33. ASSUME UNCHANGED vars PROVE Good
    BY <1>33, <1>0, <1>9 DEF vars
  <1>36. ASSUME NEW o \in Owners, WriteFails(o) PROVE Good
    <2>1. job[o].new \in Seq(Message)
      BY <1>0 DEF Job
    <2>2. history' \in Seq(Message)
      BY <1>36, <2>1, <1>0, TornFacts DEF WriteFails
    <2>3. cut' \subseteq Ids
      BY <1>36, <2>2, <1>0, <1>4, IdFacts DEF WriteFails
    <2> QED BY <1>36, <2>2, <2>3, <1>0, <1>1, <1>2, <1>6, JobFacts DEF WriteFails
  <1> HIDE DEF Good
  <1>34. ASSUME NEW t \in Turns, TurnStep(t) PROVE Good
    BY <1>34, <1>11, <1>12, <1>13, <1>14, <1>15, <1>16, <1>17, <1>18, <1>19, <1>20, <1>21
       DEF TurnStep
  <1>35. Good
    BY <1>22, <1>23, <1>24, <1>25, <1>26, <1>27, <1>28, <1>29, <1>30, <1>31, <1>32, <1>33, <1>34,
       <1>36 DEF Next
  <1> QED BY <1>35 DEF Good

\* The first state has the types.
LEMMA TypeInit == Init => TypeInv
  <1> SUFFICES ASSUME Init PROVE TypeInv
    OBVIOUS
  <1>1. run \in Locals /\ CountsOf(run)
    BY LocalsFacts DEF Init
  <1>2. job \in [Owners -> Job]
    BY DEF Init, NoJob, Job
  <1>3. troubles \in 0 .. MaxDisruptions
    BY HistoryAssumption DEF Init
  <1>4. history \in Seq(Message) /\ queue \in Seq(ToolIds)
    BY DEF Init
  <1>5. half \in BOOLEAN /\ ~half
    BY DEF Init
  <1>6. detached \subseteq Message /\ cut \subseteq Ids
    BY DEF Init
  <1>7. pc \in [Turns -> {"new", "loaded", "compacting", "ready", "running",
                            "overflow", "failing", "aborting", "done"}]
    BY DEF Init
  <1> QED BY <1>1, <1>2, <1>3, <1>4, <1>5, <1>6, <1>7 DEF TypeInv, TypeOK, Locals

\* Every variable has its type, for every set of turns, every bound and every
\* setting of compaction: compaction makes a history of messages out of one, and
\* the forwarder is half way through an event only while it has one.
THEOREM TypesHold == Spec => []TypeOK
  <1>2. TypeInv /\ [Next]_vars => TypeInv'
    BY TypeStep
  <1>3. TypeInv => TypeOK
    BY DEF TypeInv
  <1> QED BY TypeInit, <1>2, <1>3, PTL DEF Spec

-----------------------------------------------------------------------------
(* The turn under way, and the index it announces.                         *)

\* Turns are one at a time.
OneTurn == \A t, u \in Active : t = u

\* The forwarder has events only while a turn runs, or fails and waits for it.
QueueHasTurn ==
    queue # <<>> => \E t \in Turns : pc[t] \in {"running", "overflow", "failing"}

TurnInv == TypeInv /\ OneTurn /\ QueueHasTurn

\* How the types of the variables are used below.
LEMMA Typed ==
    ASSUME TypeInv
    PROVE  /\ history \in Seq(Message) /\ Len(history) \in Nat /\ detached \subseteq Message
           /\ pc \in [Turns -> Places] /\ run \in Locals
           /\ queue \in Seq(ToolIds) /\ Len(queue) \in Nat /\ cut \subseteq Ids
           /\ half \in BOOLEAN /\ (half => queue # <<>>)
           /\ job \in [Owners -> Job]
           /\ \A o \in Owners : job[o].read \in Seq(Message) /\ job[o].new \in Seq(Message)
  <1>1. job \in [Owners -> Job]
    BY DEF TypeInv, TypeOK
  <1>2. \A o \in Owners : job[o].read \in Seq(Message) /\ job[o].new \in Seq(Message)
    BY <1>1 DEF Job
  <1>3. Len(history) \in Nat /\ Len(queue) \in Nat
    BY DEF TypeInv, TypeOK
  <1> QED BY <1>1, <1>2, <1>3 DEF TypeInv, TypeOK, Places, Locals

\* A compaction that ends moves only the turn that waits for it, and that one on.
LEMMA AfterJobFacts ==
    ASSUME pc \in [Turns -> Places], NEW o, NEW ok, AfterJob(o, ok), NEW t \in Turns
    PROVE  \/ pc'[t] = pc[t]
           \/ t = o /\ pc[t] = "compacting" /\ pc'[t] = "ready"
           \/ t = o /\ pc[t] = "overflow" /\ pc'[t] \in {"running", "failing"} /\ (~ok => pc'[t] = "failing")
  <1>1. pc'[t] = IF t # o \/ ~Awaits(t) THEN pc[t]
                 ELSE IF pc[t] = "compacting" THEN "ready"
                 ELSE IF ok THEN "running" ELSE "failing"
    BY DEF AfterJob
  <1> QED BY <1>1 DEF Awaits

\* Where each turn may be after a step, from where it was.
LEMMA Moves ==
    ASSUME TypeInv, Next
    PROVE  \/ \E t \in Turns : Begin(t)
           \/ \A u \in Turns : pc[u] \in {"new", "done"} => pc'[u] \in {"new", "done"}
  <1>0. pc \in [Turns -> Places]
    BY Typed
  <1> DEFINE Good == \A u \in Turns : pc[u] \in {"new", "done"} => pc'[u] \in {"new", "done"}
  <1>1. ASSUME NEW t \in Turns, TurnStep(t), ~Begin(t) PROVE Good
    <2>1. CASE AutoCompact(t)
      BY <2>1, <1>0 DEF AutoCompact
    <2>2. CASE PersistUser(t)
      BY <2>2, <1>0 DEF PersistUser
    <2>3. CASE ToolCallEnd(t) \/ ToolCallRejected(t)
      BY <2>3 DEF ToolCallEnd, ToolCallRejected
    <2>4. CASE ContextOverflow(t)
      BY <2>4, <1>0 DEF ContextOverflow
    <2>5. CASE FinishRun(t) \/ FailRun(t) \/ AbortCleanup(t) \/ DropRequest(t)
      BY <2>5, <1>0 DEF FinishRun, FailRun, AbortCleanup, DropRequest
    <2>6. CASE Abort(t)
      BY <2>6, <1>0 DEF Abort
    <2> QED BY <1>1, <2>1, <2>2, <2>3, <2>4, <2>5, <2>6 DEF TurnStep
  <1>2. ASSUME NEW o \in Owners, JobFails(o) \/ Truncate(o) \/ Write(o) \/ WriteFails(o)
        PROVE  Good
    <2>1. CASE Truncate(o)
      BY <2>1 DEF Truncate
    <2>2. CASE JobFails(o) \/ Write(o) \/ WriteFails(o)
      <3>1. AfterJob(o, FALSE) \/ AfterJob(o, TRUE)
        BY <2>2 DEF JobFails, Write, WriteFails
      <3> QED BY <3>1, <1>0, AfterJobFacts
    <2> QED BY <1>2, <2>1, <2>2
  <1>3. ASSUME \/ PersistToolCall \/ PersistToolResult \/ FailToolAppend
               \/ \E m \in detached : Land(m)
               \/ ManualCompact \/ GenerateVoice \/ Clear
        PROVE  Good
    BY <1>3 DEF PersistToolCall, PersistToolResult, FailToolAppend, Land, ManualCompact,
                GenerateVoice, Clear
  <1>4. ASSUME Crash PROVE Good
    BY <1>4 DEF Crash
  <1> QED BY <1>1, <1>2, <1>3, <1>4 DEF Next, TurnStep

\* Every step keeps turns apart and the forwarder's events with their turn.
LEMMA TurnInvStep ==
    ASSUME TurnInv, [Next]_vars
    PROVE  TurnInv'
  <1>0. TypeInv /\ OneTurn /\ QueueHasTurn /\ TypeInv'
    BY TypeStep DEF TurnInv
  <1>1. pc \in [Turns -> Places] /\ queue \in Seq(ToolIds)
    BY <1>0, Typed
  <1>2. CASE UNCHANGED vars
    BY <1>2, <1>0 DEF vars, TurnInv, OneTurn, QueueHasTurn, Active
  <1>3. ASSUME Next PROVE OneTurn'
    <2>1. ASSUME NEW t \in Turns, Begin(t) PROVE OneTurn'
      <3>1. Active = {} /\ pc' = [pc EXCEPT ![t] = "loaded"]
        BY <2>1 DEF Begin
      <3>2. \A u \in Turns : u # t => pc'[u] \in {"new", "done"}
        BY <3>1, <1>1 DEF Active
      <3> QED BY <3>2 DEF OneTurn, Active
    <2>2. ASSUME \A u \in Turns : pc[u] \in {"new", "done"} => pc'[u] \in {"new", "done"}
          PROVE  OneTurn'
      BY <2>2, <1>0 DEF OneTurn, Active
    <2> QED BY <1>3, <1>0, <2>1, <2>2, Moves
  <1>4. ASSUME Next PROVE QueueHasTurn'
    <2> DEFINE Busy == {"running", "overflow", "failing"}
    <2>1. ASSUME queue' = queue, \A u \in Turns : pc[u] \in Busy => pc'[u] \in Busy
          PROVE  QueueHasTurn'
      BY <2>1, <1>0 DEF QueueHasTurn
    <2>2. ASSUME queue' = <<>> PROVE QueueHasTurn'
      BY <2>2 DEF QueueHasTurn
    <2>3. ASSUME NEW t \in Turns, TurnStep(t) PROVE QueueHasTurn'
      <3>1. CASE Begin(t)
        BY <3>1, <1>1, <2>1 DEF Begin
      <3>2. CASE AutoCompact(t)
        BY <3>2, <1>1, <2>1 DEF AutoCompact
      <3>3. CASE PersistUser(t)
        BY <3>3, <1>1, <2>1 DEF PersistUser
      <3>4. CASE ToolCallEnd(t)
        BY <3>4 DEF ToolCallEnd, QueueHasTurn
      <3>5. CASE ToolCallRejected(t)
        BY <3>5, <2>1 DEF ToolCallRejected
      <3>6. CASE ContextOverflow(t)
        BY <3>6, <1>1, <2>1 DEF ContextOverflow
      <3>7. CASE FinishRun(t) \/ FailRun(t) \/ Abort(t)
        BY <3>7, <2>2 DEF FinishRun, FailRun, Abort
      <3>8. CASE AbortCleanup(t) \/ DropRequest(t)
        BY <3>8, <1>1, <2>1 DEF AbortCleanup, DropRequest
      <3> QED BY <2>3, <3>1, <3>2, <3>3, <3>4, <3>5, <3>6, <3>7, <3>8 DEF TurnStep
    <2>4. ASSUME NEW o \in Owners, JobFails(o) \/ Truncate(o) \/ Write(o) \/ WriteFails(o)
          PROVE  QueueHasTurn'
      <3>1. CASE Truncate(o)
        BY <3>1, <2>1 DEF Truncate
      <3>2. CASE JobFails(o) \/ Write(o) \/ WriteFails(o)
        <4>1. queue' = queue /\ (AfterJob(o, FALSE) \/ AfterJob(o, TRUE))
          BY <3>2 DEF JobFails, Write, WriteFails
        <4>2. \A u \in Turns : pc[u] \in Busy => pc'[u] \in Busy
          BY <4>1, <1>1, AfterJobFacts
        <4> QED BY <4>1, <4>2, <2>1
      <3> QED BY <2>4, <3>1, <3>2
    <2>5. ASSUME PersistToolCall \/ (\E m \in detached : Land(m)) \/ ManualCompact \/ GenerateVoice \/ Clear
          PROVE  QueueHasTurn'
      BY <2>5, <2>1 DEF PersistToolCall, Land, ManualCompact, GenerateVoice, Clear
    <2>6. ASSUME PersistToolResult \/ FailToolAppend PROVE QueueHasTurn'
      <3>1. queue # <<>> /\ pc' = pc
        BY <2>6, <1>0, Typed DEF PersistToolResult, FailToolAppend
      <3> QED BY <3>1, <1>0 DEF QueueHasTurn
    <2>7. ASSUME Crash PROVE QueueHasTurn'
      BY <2>7, <2>2 DEF Crash
    <2> QED BY <1>4, <2>3, <2>4, <2>5, <2>6, <2>7 DEF Next
  <1> QED BY <1>0, <1>2, <1>3, <1>4 DEF TurnInv

\* Before its run and once it is aborted, a turn has no events at the forwarder.
LEMMA NoEvents ==
    ASSUME TurnInv, NEW t \in Turns,
           pc[t] \in {"loaded", "compacting", "ready", "aborting"} \/ Active = {}
    PROVE  queue = <<>> /\ ~half
  <1>1. OneTurn /\ QueueHasTurn /\ (half => queue # <<>>)
    BY Typed DEF TurnInv
  <1>2. \A u \in Turns : ~(pc[u] \in {"running", "overflow", "failing"})
    BY <1>1 DEF OneTurn, Active
  <1> QED BY <1>1, <1>2 DEF QueueHasTurn

\* The length n of the file is what it was when the turn began, then the user
\* message and two messages for each tool call that was not rejected and is not
\* waiting for the forwarder, and one if the forwarder is half way.
Fits(n, base, made, rejected, waiting, first) ==
    n + (2 * rejected) + (2 * waiting) = base + 1 + (2 * made) + first

Halfway(b) == IF b THEN 1 ELSE 0

\* Place n is the one announced, but for two per rejected tool call.
Placed(n, base, made, rejected) == n + (2 * rejected) = base + 1 + (2 * made) + 1

\* How the steps of a turn and of the forwarder change the length.
LEMMA FitsFacts ==
    \A n, base, made, rejected, waiting, first \in Int :
        Fits(n, base, made, rejected, waiting, first) =>
           /\ Fits(n, base, made + 1, rejected, waiting + 1, first)
           /\ Fits(n, base, made + 1, rejected + 1, waiting, first)
           /\ first = 0 => Fits(n + 1, base, made, rejected, waiting, 1)
           /\ first = 1 => Fits(n + 1, base, made, rejected, waiting - 1, 0)
           /\ first = 0 /\ waiting = 0 => Placed(n + 1, base, made, rejected)
  BY DEF Fits, Placed

\* What the file's length must be as long as nobody else changed it.
IndexInv ==
    \A t \in Turns : ~run.disturbed =>
        /\ pc[t] \in {"loaded", "compacting", "ready"} =>
              Len(history) = run.base /\ run.made = 0 /\ run.rejected = 0
        /\ pc[t] \in {"running", "overflow"} =>
              Fits(Len(history), run.base, run.made, run.rejected, Len(queue), Halfway(half))

\* Every step keeps the length of the file accounted for.
LEMMA IndexStep ==
    ASSUME TurnInv, IndexInv, [Next]_vars
    PROVE  IndexInv'
  <1>0. TypeInv
    BY DEF TurnInv
  <1>1. /\ history \in Seq(Message) /\ Len(history) \in Nat
        /\ pc \in [Turns -> Places] /\ run \in Locals /\ half \in BOOLEAN
        /\ queue \in Seq(ToolIds) /\ Len(queue) \in Nat
        /\ (half => queue # <<>>)
    BY <1>0, Typed
  <1>2. run.base \in Nat /\ run.made \in Nat /\ run.rejected \in Nat /\ run.tools \in Nat
    BY <1>1, HistoryAssumption DEF Locals
  <1>19. /\ Len(history) \in Int /\ Len(queue) \in Int /\ run.base \in Int
         /\ run.made \in Int /\ run.rejected \in Int
    BY <1>1, <1>2
  <1> DEFINE Early(t) == pc[t] \in {"loaded", "compacting", "ready"}
             Late(t)  == pc[t] \in {"running", "overflow"}
             Size(h, r, q, b) == Fits(Len(h), r.base, r.made, r.rejected, Len(q), Halfway(b))
  <1>3. \A t \in Turns : ~run.disturbed =>
            /\ Early(t) => Len(history) = run.base /\ run.made = 0 /\ run.rejected = 0
            /\ Late(t) => Size(history, run, queue, half)
    BY DEF IndexInv
  <1>4. SUFFICES ASSUME NEW t \in Turns, ~run'.disturbed
                 PROVE  /\ Early(t)' => Len(history') = run'.base /\ run'.made = 0 /\ run'.rejected = 0
                        /\ Late(t)' => Size(history', run', queue', half')
    BY DEF IndexInv
  <1> DEFINE Good == /\ Early(t)' => Len(history') = run'.base /\ run'.made = 0 /\ run'.rejected = 0
                     /\ Late(t)' => Size(history', run', queue', half')
  <1>5. ASSUME ~(Early(t)'), ~(Late(t)') PROVE Good
    BY <1>5
  <1>6. ASSUME UNCHANGED <<history, run, queue, half>>, Early(t)' => Early(t), Late(t)' => Late(t)
        PROVE  Good
    BY <1>6, <1>3, <1>4
  <1>7. ASSUME run' = Disturbed, pc' = pc PROVE Good
    <2>1. Active = {}
      BY <1>7, <1>4, <1>1, DisturbedFacts
    <2>2. ~Early(t) /\ ~Late(t)
      BY <2>1 DEF Active
    <2> QED BY <2>2, <1>7
  <1>8. ASSUME NEW u \in Turns, TurnStep(u) PROVE Good
    <2>1. CASE Begin(u)
      <3>1. CASE t = u
        <4>1. pc'[t] = "loaded" /\ history' = history
          BY <2>1, <3>1, <1>1 DEF Begin
        <4>2. run'.base = Len(history) /\ run'.made = 0 /\ run'.rejected = 0
          BY <2>1 DEF Begin, NoRun
        <4> QED BY <4>1, <4>2
      <3>2. CASE t # u
        <4>1. pc'[t] = pc[t] /\ pc[t] \in {"new", "done"}
          BY <2>1, <3>2, <1>1 DEF Begin, Active
        <4> QED BY <4>1, <1>5
      <3> QED BY <3>1, <3>2
    <2>2. CASE AutoCompact(u)
      <3>1. UNCHANGED <<history, run, queue, half>> /\ pc[u] = "loaded" /\ pc' = [pc EXCEPT ![u] = "compacting"]
        BY <2>2 DEF AutoCompact
      <3>2. (Early(t)' => Early(t)) /\ (Late(t)' => Late(t))
        BY <3>1, <1>1
      <3> QED BY <3>1, <3>2, <1>6
    <2>3. CASE PersistUser(u)
      <3>1. pc[u] \in {"loaded", "ready"} /\ u \in Active
        BY <2>3 DEF PersistUser, Active
      <3>2. run' # Disturbed
        BY <3>1, <1>1, <1>4, DisturbedFacts
      <3>3. history' = Append(history, Msg("user", u, 0)) /\ run' = run /\ queue' = queue /\ half' = half
        BY <2>3, <3>2 DEF PersistUser, append
      <3>4. Len(history') = Len(history) + 1
        BY <3>3, <1>1
      <3>5. CASE t = u
        <4>1. pc'[t] = "running"
          BY <2>3, <3>5, <1>1 DEF PersistUser
        <4>2. Len(history) = run.base /\ run.made = 0 /\ run.rejected = 0
          BY <3>1, <3>3, <3>5, <1>3, <1>4
        <4>3. queue = <<>> /\ ~half
          BY <3>1, NoEvents
        <4>4. Len(queue) = 0
          BY <4>3
        <4>5. Halfway(half') = 0
          BY <4>3, <3>3 DEF Halfway
        <4>6. Fits(Len(history'), run.base, 0, 0, 0, 0)
          BY <4>2, <3>4, <1>1, <1>2 DEF Fits
        <4> QED BY <4>1, <4>2, <4>4, <4>5, <4>6, <3>3
      <3>6. CASE t # u
        <4>1. pc'[t] = pc[t] /\ pc[t] \in {"new", "done"}
          BY <2>3, <3>1, <3>6, <1>1 DEF PersistUser, TurnInv, OneTurn, Active
        <4> QED BY <4>1, <1>5
      <3> QED BY <3>5, <3>6
    <2>4. CASE ToolCallEnd(u)
      <3>1. /\ history' = history /\ half' = half /\ pc' = pc /\ pc[u] = "running"
            /\ run' = [run EXCEPT !.tools = @ + 1, !.made = @ + 1]
            /\ queue' = Append(queue, <<u, run.tools + 1>>)
        BY <2>4 DEF ToolCallEnd
      <3>2. /\ run'.base = run.base /\ run'.made = run.made + 1 /\ run'.rejected = run.rejected
            /\ run'.disturbed = run.disturbed
        BY <3>1, <1>1 DEF Locals
      <3>3. Len(queue') = Len(queue) + 1
        BY <3>1, <1>1
      <3>4. ~Early(t)
        BY <3>1 DEF TurnInv, OneTurn, Active
      <3>5. Late(t) => Size(history, run, queue, half)
        BY <3>2, <1>3, <1>4
      <3>6. Late(t) => Size(history', run', queue', half')
        <4>1. Halfway(half) \in Int
          BY DEF Halfway
        <4>2. Late(t) => Fits(Len(history), run.base, run.made + 1, run.rejected, Len(queue) + 1,
                              Halfway(half))
          BY <3>5, <4>1, <1>19, FitsFacts, Zenon
        <4> QED BY <4>2, <3>1, <3>2, <3>3
      <3> QED BY <3>1, <3>4, <3>6
    <2>5. CASE ToolCallRejected(u)
      <3>1. /\ history' = history /\ half' = half /\ pc' = pc /\ pc[u] = "running" /\ queue' = queue
            /\ run' = [run EXCEPT !.tools = @ + 1, !.made = @ + 1, !.rejected = @ + 1]
        BY <2>5 DEF ToolCallRejected
      <3>2. /\ run'.base = run.base /\ run'.made = run.made + 1 /\ run'.rejected = run.rejected + 1
            /\ run'.disturbed = run.disturbed
        BY <3>1, <1>1 DEF Locals
      <3>4. ~Early(t)
        BY <3>1 DEF TurnInv, OneTurn, Active
      <3>5. Late(t) => Size(history, run, queue, half)
        BY <3>2, <1>3, <1>4
      <3>6. Late(t) => Size(history', run', queue', half')
        <4>1. Halfway(half) \in Int
          BY DEF Halfway
        <4>2. Late(t) => Fits(Len(history), run.base, run.made + 1, run.rejected + 1, Len(queue),
                              Halfway(half))
          BY <3>5, <4>1, <1>19, FitsFacts, Zenon
        <4> QED BY <4>2, <3>1, <3>2
      <3> QED BY <3>1, <3>4, <3>6
    <2>6. CASE ContextOverflow(u)
      <3>1. /\ UNCHANGED <<history, queue, half>> /\ pc[u] = "running"
            /\ run' = [run EXCEPT !.retried = TRUE]
            /\ pc' = [pc EXCEPT ![u] = "overflow"] \/ pc' = [pc EXCEPT ![u] = "failing"]
        BY <2>6 DEF ContextOverflow
      <3>2. /\ run'.base = run.base /\ run'.made = run.made /\ run'.rejected = run.rejected
            /\ run'.disturbed = run.disturbed
        BY <3>1, <1>1 DEF Locals
      <3>3. (Early(t)' => Early(t)) /\ (Late(t)' => Late(t))
        BY <3>1, <1>1
      <3>4. Early(t)' => Len(history') = run'.base /\ run'.made = 0 /\ run'.rejected = 0
        BY <3>1, <3>2, <3>3, <1>3, <1>4
      <3>5. Late(t)' => Size(history', run', queue', half')
        BY <3>1, <3>2, <3>3, <1>3, <1>4
      <3> QED BY <3>4, <3>5
    <2>7. CASE FinishRun(u) \/ FailRun(u) \/ AbortCleanup(u) \/ DropRequest(u)
      <3>1. u \in Active /\ pc' = [pc EXCEPT ![u] = "done"]
        BY <2>7 DEF FinishRun, FailRun, AbortCleanup, DropRequest, Active
      <3>2. pc'[t] \in {"new", "done"}
        BY <3>1, <1>1 DEF TurnInv, OneTurn, Active
      <3> QED BY <3>2, <1>5
    <2>8. CASE Abort(u)
      <3>1. u \in Active /\ pc' = [pc EXCEPT ![u] = "aborting"]
        BY <2>8 DEF Abort, Active
      <3>2. pc'[t] \in {"new", "done", "aborting"}
        BY <3>1, <1>1 DEF TurnInv, OneTurn, Active
      <3> QED BY <3>2, <1>5
    <2> HIDE DEF Good
    <2> QED BY <1>8, <2>1, <2>2, <2>3, <2>4, <2>5, <2>6, <2>7, <2>8 DEF TurnStep
  <1>9. ASSUME NEW o \in Owners, JobFails(o) PROVE Good
    <2>1. UNCHANGED <<history, run, queue, half>> /\ AfterJob(o, FALSE)
      BY <1>9 DEF JobFails
    <2>2. (Early(t)' => Early(t)) /\ (Late(t)' => Late(t))
      BY <2>1, <1>1, AfterJobFacts
    <2> QED BY <2>1, <2>2, <1>6
  <1>10. ASSUME NEW o \in Owners, Truncate(o) PROVE Good
    BY <1>10, <1>7 DEF Truncate
  <1>11. ASSUME NEW o \in Owners, Write(o) PROVE Good
    <2>1. AfterJob(o, TRUE)
      BY <1>11 DEF Write
    <2>2. \A r \in Locals : r.disturbed => [r EXCEPT !.made = 0, !.rejected = 0].disturbed
      BY DEF Locals
    <2>3. run' = Disturbed \/ run' = [Disturbed EXCEPT !.made = 0, !.rejected = 0]
      BY <1>11 DEF Write
    <2>4. Active = {}
      BY <2>2, <2>3, <1>1, <1>4, DisturbedFacts
    <2>5. pc[t] \in {"new", "done"}
      BY <2>4 DEF Active
    <2>6. pc'[t] = pc[t]
      BY <2>1, <2>5, <1>1, AfterJobFacts
    <2> QED BY <2>5, <2>6, <1>5
  <1>20. ASSUME NEW o \in Owners, WriteFails(o) PROVE Good
    <2>1. AfterJob(o, FALSE) /\ run' = Disturbed
      BY <1>20 DEF WriteFails
    <2>2. Active = {}
      BY <2>1, <1>1, <1>4, DisturbedFacts
    <2>3. pc[t] \in {"new", "done"}
      BY <2>2 DEF Active
    <2>4. pc'[t] = pc[t]
      BY <2>1, <2>3, <1>1, AfterJobFacts
    <2> QED BY <2>3, <2>4, <1>5
  <1>12. ASSUME PersistToolCall PROVE Good
    <2> DEFINE m == Msg("call", Head(queue)[1], Head(queue)[2])
    <2>1. /\ queue # <<>> /\ ~half /\ half' = TRUE
          /\ history' = Append(history, m) /\ UNCHANGED <<pc, run, queue>>
      BY <1>12 DEF PersistToolCall, append
    <2>2. Len(history') = Len(history) + 1
      BY <2>1, <1>1
    <2>3. ~Early(t)
      BY <2>1, NoEvents
    <2>4. Late(t) => Size(history, run, queue, half)
      BY <2>1, <1>3, <1>4
    <2> HIDE DEF m
    <2>5. Late(t) => Size(history', run', queue', half')
      <3>1. Halfway(half) = 0 /\ Halfway(half') = 1
        BY <2>1 DEF Halfway
      <3>2. Late(t) => Fits(Len(history) + 1, run.base, run.made, run.rejected, Len(queue), 1)
        <4>1. Halfway(half) \in Int
          BY <3>1
        <4> QED BY <2>4, <3>1, <4>1, <1>19, FitsFacts, Zenon
      <3> QED BY <3>1, <3>2, <2>1, <2>2
    <2> QED BY <2>1, <2>3, <2>5
  <1>13. ASSUME PersistToolResult PROVE Good
    <2> DEFINE m == Msg("result", Head(queue)[1], Head(queue)[2])
    <2>1. /\ queue # <<>> /\ half /\ half' = FALSE
          /\ history' = Append(history, m) /\ UNCHANGED <<pc, run>> /\ queue' = Tail(queue)
      BY <1>13, <1>1 DEF PersistToolResult, append
    <2>2. Len(history') = Len(history) + 1 /\ Len(queue') = Len(queue) - 1
      BY <2>1, <1>1
    <2>3. ~Early(t)
      BY <2>1, NoEvents
    <2>4. Late(t) => Size(history, run, queue, half)
      BY <2>1, <1>3, <1>4
    <2> HIDE DEF m
    <2>5. Late(t) => Size(history', run', queue', half')
      <3>1. Halfway(half) = 1 /\ Halfway(half') = 0
        BY <2>1 DEF Halfway
      <3>2. Late(t) => Fits(Len(history) + 1, run.base, run.made, run.rejected, Len(queue) - 1, 0)
        <4>1. Halfway(half) \in Int
          BY <3>1
        <4> QED BY <2>4, <3>1, <4>1, <1>19, FitsFacts, Zenon
      <3> QED BY <3>1, <3>2, <2>1, <2>2
    <2> QED BY <2>1, <2>3, <2>5
  <1>14. ASSUME FailToolAppend \/ (\E m \in detached : Land(m)) \/ Clear PROVE Good
    BY <1>14, <1>7 DEF FailToolAppend, Land, Clear
  <1>15. ASSUME ManualCompact \/ GenerateVoice PROVE Good
    BY <1>15, <1>6 DEF ManualCompact, GenerateVoice
  <1>16. ASSUME Crash PROVE Good
    <2>1. pc'[t] \in {"new", "done"}
      BY <1>16 DEF Crash
    <2> QED BY <2>1, <1>5
  <1>17. ASSUME UNCHANGED vars PROVE Good
    BY <1>17, <1>6 DEF vars
  <1> HIDE DEF Good
  <1>18. Good
    BY <1>8, <1>9, <1>10, <1>11, <1>12, <1>13, <1>14, <1>15, <1>16, <1>17, <1>20 DEF Next
  <1> QED BY <1>18 DEF Good

\* Init establishes the invariants about the turn under way.
LEMMA TurnInvInit == Init => TurnInv /\ IndexInv
  <1> SUFFICES ASSUME Init PROVE TurnInv /\ IndexInv
    OBVIOUS
  <1>1. TypeInv
    BY TypeInit
  <1>2. \A t \in Turns : pc[t] = "new"
    BY DEF Init
  <1>3. OneTurn /\ QueueHasTurn /\ IndexInv
    BY <1>2 DEF Init, OneTurn, QueueHasTurn, IndexInv, Active
  <1> QED BY <1>1, <1>3 DEF TurnInv

\* The messageIndex a turn announces is the place of its answer, but for two per
\* rejected tool call, whenever nobody else has changed the file: the forwarder is
\* waited for, and every tool call that ran left two messages in the file.
THEOREM AnnouncedIndexIsRight == Spec => IndexIsRight
  <1>1. ASSUME TurnInv, IndexInv, NEW t \in Turns, FinishRun(t), history' # history, ~run.disturbed
        PROVE  Len(history') + (2 * run.rejected) = AnnouncedIndex
    <2>1. /\ history \in Seq(Message) /\ Len(history) \in Nat /\ run \in Locals
          /\ (half => queue # <<>>)
      BY <1>1, Typed DEF TurnInv
    <2>2. run.base \in Nat /\ run.made \in Nat /\ run.rejected \in Nat
      BY <2>1, HistoryAssumption DEF Locals
    <2>3. /\ pc[t] = "running" /\ queue = <<>>
          /\ history' = Append(history, Msg("answer", t, 0))
      BY <1>1 DEF FinishRun, append
    <2>4. Len(history') = Len(history) + 1 /\ Len(queue) = 0 /\ ~half
      BY <2>1, <2>3
    <2>5. Fits(Len(history), run.base, run.made, run.rejected, Len(queue), Halfway(half))
      BY <1>1, <2>3 DEF IndexInv
    <2>6. Halfway(half) = 0 /\ Len(history) \in Int /\ Len(queue) \in Int /\ run.base \in Int
          /\ run.made \in Int /\ run.rejected \in Int
      BY <2>1, <2>2, <2>4 DEF Halfway
    <2>7. Placed(Len(history) + 1, run.base, run.made, run.rejected)
      <3>1. Halfway(half) \in Int
        BY <2>6
      <3> QED BY <2>4, <2>5, <2>6, <3>1, FitsFacts, Zenon
    <2> QED BY <2>4, <2>7 DEF AnnouncedIndex, Placed
  <1>2. TurnInv /\ IndexInv /\ [Next]_vars =>
           [\A t \in Turns :
              FinishRun(t) /\ history' # history /\ ~run.disturbed
                => Len(history') + (2 * run.rejected) = AnnouncedIndex]_vars
    BY <1>1
  <1>3. TurnInv /\ IndexInv /\ [Next]_vars => TurnInv' /\ IndexInv'
    BY TurnInvStep, IndexStep
  <1> QED BY <1>2, <1>3, TurnInvInit, PTL DEF Spec, IndexIsRight

-----------------------------------------------------------------------------
(* Replacements, and the calls they leave unanswered.                      *)

\* The ways a step may change the replacement of one owner.
Starts(o) ==
    /\ ~Working(o)
    /\ job'[o].stage = "read" /\ job'[o].read = history /\ job'[o].new = <<>>

Cuts(o) ==
    /\ job[o].stage = "read" /\ job'[o].stage = "truncated"
    /\ job'[o].read = job[o].read /\ job'[o].alone = job[o].alone
    /\ o = "voice" => job'[o].new = job[o].read
    /\ o # "voice" => job'[o].new \in run_compaction(job[o].read)
    /\ o = "voice" \/ ~InOrder(job[o].read) => cut' = cut \cup Dangling(job'[o].new)

Cleared(o) ==
    /\ job[o].stage = "truncated" /\ job'[o].stage = "truncated"
    /\ job'[o].read = job[o].read /\ job'[o].alone = job[o].alone
    /\ job'[o].new = <<>>

Ends(o) ==
    /\ job'[o] = NoJob
    /\ AfterJob(o, FALSE) \/ AfterJob(o, TRUE) \/ Crash

\* A replacement that starts leaves the others alone.
LEMMA StartFacts ==
    ASSUME job \in [Owners -> Job], NEW o \in Owners, StartJob(o)
    PROVE  /\ Starts(o)
           /\ job'[o].alone <=> \A p \in Owners : ~Working(p)
           /\ \A p \in Owners \ {o} : job'[p] = job[p]
  <1>1. job'[o] = [stage |-> "read", read |-> history, new |-> <<>>,
                   alone |-> \A p \in Owners : ~Working(p)]
    BY DEF StartJob
  <1>2. Starts(o)
    BY <1>1 DEF StartJob, Starts
  <1>3. job'[o].alone <=> \A p \in Owners : ~Working(p)
    BY <1>1
  <1> QED BY <1>2, <1>3 DEF StartJob

\* So does one that truncates the file.
LEMMA TruncateFacts ==
    ASSUME job \in [Owners -> Job], NEW o \in Owners, Truncate(o)
    PROVE  Cuts(o) /\ \A p \in Owners \ {o} : job'[p] = job[p]
  <1>1. PICK new \in IF o = "voice" THEN {job[o].read} ELSE run_compaction(job[o].read) :
           /\ job' = [job EXCEPT ![o].stage = "truncated", ![o].new = new]
           /\ cut' = IF o = "voice" \/ ~InOrder(job[o].read) THEN cut \cup Dangling(new) ELSE cut
    BY DEF Truncate
  <1>2. \A p \in Owners \ {o} : job'[p] = job[p]
    BY <1>1
  <1>3. /\ job'[o].stage = "truncated" /\ job'[o].new = new /\ job'[o].read = job[o].read
        /\ job'[o].alone = job[o].alone
    BY <1>1 DEF Job
  <1>4. job[o].stage = "read"
    BY DEF Truncate
  <1> QED BY <1>1, <1>2, <1>3, <1>4 DEF Cuts

\* What a step does to each replacement.
LEMMA JobMoves ==
    ASSUME TypeInv, [Next]_vars, NEW o \in Owners
    PROVE  job'[o] = job[o] \/ Ends(o) \/ Starts(o) \/ Cuts(o) \/ Cleared(o)
  <1>0. job \in [Owners -> Job]
    BY Typed
  <1> DEFINE Good == job'[o] = job[o] \/ Ends(o) \/ Starts(o) \/ Cuts(o) \/ Cleared(o)
  <1>1. ASSUME job' = job PROVE Good
    BY <1>1
  <1>2. ASSUME NEW p \in Owners, StartJob(p) PROVE Good
    BY <1>0, <1>2, StartFacts
  <1>3. ASSUME NEW p \in Owners, Truncate(p) PROVE Good
    BY <1>0, <1>3, TruncateFacts
  <1>4. ASSUME NEW p \in Owners, JobFails(p) \/ Write(p) \/ WriteFails(p) PROVE Good
    BY <1>0, <1>4 DEF JobFails, Write, WriteFails, Ends
  <1>5. ASSUME Clear PROVE Good
    <2>1. job'[o] = IF o \in Truncated THEN [job[o] EXCEPT !.new = <<>>] ELSE job[o]
      BY <1>5 DEF Clear
    <2>2. CASE o \in Truncated
      <3>1. job[o] \in Job /\ job'[o] = [job[o] EXCEPT !.new = <<>>] /\ job[o].stage = "truncated"
        BY <2>1, <2>2, <1>0 DEF Truncated
      <3>2. /\ job'[o].stage = job[o].stage /\ job'[o].read = job[o].read
            /\ job'[o].alone = job[o].alone /\ job'[o].new = <<>>
        BY <3>1 DEF Job
      <3> QED BY <3>1, <3>2 DEF Cleared
    <2> QED BY <2>1, <2>2
  <1>6. ASSUME Crash PROVE Good
    BY <1>6 DEF Crash, Ends
  <1>7. Turns \subseteq Owners /\ {"compact", "voice"} \subseteq Owners
    BY DEF Owners
  <1> HIDE DEF Good
  <1>8. ASSUME NEW t \in Turns, TurnStep(t) PROVE Good
    BY <1>8, <1>1, <1>2, <1>7 DEF TurnStep, Begin, AutoCompact, PersistUser, ToolCallEnd,
       ToolCallRejected, ContextOverflow, FinishRun, FailRun, Abort, AbortCleanup, DropRequest
  <1>9. ASSUME ManualCompact \/ GenerateVoice PROVE Good
    BY <1>9, <1>2, <1>7 DEF ManualCompact, GenerateVoice
  <1>10. ASSUME PersistToolCall \/ PersistToolResult \/ FailToolAppend \/ \E m \in detached : Land(m)
         PROVE  Good
    BY <1>10, <1>1 DEF PersistToolCall, PersistToolResult, FailToolAppend, Land
  <1>11. ASSUME UNCHANGED vars PROVE Good
    BY <1>11, <1>1 DEF vars
  <1>12. Good
    BY <1>3, <1>4, <1>5, <1>6, <1>8, <1>9, <1>10, <1>11 DEF Next
  <1> QED BY <1>12 DEF Good

\* What a replacement is about to write is what compaction, or voice, made of what
\* it has read, or nothing since a clear unlinked the file.
JobOf(o) ==
    /\ job[o].stage # "truncated" => job[o].new = <<>>
    /\ job[o].stage = "truncated" =>
          \/ job[o].new = <<>>
          \/ o = "voice" /\ job[o].new = job[o].read
          \/ o # "voice" /\ job[o].new \in run_compaction(job[o].read)

JobInv == \A o \in Owners : JobOf(o)

\* Every step keeps it so.
LEMMA JobInvStep ==
    ASSUME TypeInv, JobInv, [Next]_vars
    PROVE  JobInv'
  <1> SUFFICES ASSUME NEW o \in Owners PROVE JobOf(o)'
    BY DEF JobInv
  <1>0. JobOf(o)
    BY DEF JobInv
  <1>1. CASE job'[o] = job[o]
    BY <1>0, <1>1 DEF JobOf
  <1>2. CASE Ends(o)
    BY <1>2 DEF JobOf, NoJob, Ends
  <1>3. CASE Starts(o)
    BY <1>3 DEF JobOf, Starts
  <1>4. CASE Cuts(o)
    BY <1>4 DEF JobOf, Cuts
  <1>5. CASE Cleared(o)
    BY <1>5 DEF JobOf, Cleared
  <1> QED BY <1>1, <1>2, <1>3, <1>4, <1>5, JobMoves

\* No replacement is under way in the first state.
LEMMA JobInvInit == Init => JobInv
  BY DEF Init, JobInv, JobOf, NoJob

\* An empty history has no call and no tool message.
LEMMA EmptyFacts == Items(<<>>) = {} /\ Dangling(<<>>) = {} /\ Paired(<<>>)
  BY DEF Items, Dangling, Paired

\* What compaction writes is a history a strict provider accepts, whatever tool calls
\* finish, fail or are aborted beside it: every call answered further down and every
\* tool message below its call (sanitize_tool_pairs), as long as the history it read
\* had every call above what is about it.
THEOREM CompactionPairs == Spec => []CompactionRepairsPairs
  <1>1. ASSUME TypeInv, JobInv PROVE CompactionRepairsPairs
    <2>1. SUFFICES ASSUME NEW o \in Truncated \ {"voice"}, InOrder(job[o].read)
                   PROVE  Paired(job[o].new)
      BY DEF CompactionRepairsPairs, Paired
    <2>2. o \in Owners /\ job[o].stage = "truncated" /\ o # "voice"
      BY DEF Truncated
    <2>3. job[o].new = <<>> \/ job[o].new \in run_compaction(job[o].read)
      BY <1>1, <2>2 DEF JobInv, JobOf
    <2>4. job[o].read \in Seq(Message)
      BY <1>1, <2>2, Typed
    <2> QED BY <2>1, <2>3, <2>4, CompactionFacts, EmptyFacts
  <1>2. TypeInv /\ JobInv /\ [Next]_vars => TypeInv' /\ JobInv'
    BY TypeStep, JobInvStep
  <1> QED BY <1>1, <1>2, TypeInit, JobInvInit, PTL DEF Spec

\* Calls that may be unanswered: those something came between, and the one the
\* forwarder is at.
Excused == cut \cup (IF half THEN {Head(queue)} ELSE {})

\* Unanswered calls are excused, in the file and in what a replacement is about to
\* write; an append in flight is a message of its own, whose id is cut.
DanglingInv ==
    /\ Dangling(history) \subseteq Excused
    /\ \A o \in Truncated : Dangling(job[o].new) \subseteq cut
    /\ \A m \in detached : m.kind \in Kinds /\ m.id \in cut

\* A call that is cut stays so.
LEMMA CutGrows ==
    ASSUME [Next]_vars
    PROVE  cut \subseteq cut'
  <1>1. ASSUME NEW t \in Turns, TurnStep(t) PROVE cut \subseteq cut'
    BY <1>1 DEF TurnStep, Begin, AutoCompact, PersistUser, ToolCallEnd,
       ToolCallRejected, ContextOverflow, FinishRun, FailRun, Abort, AbortCleanup, DropRequest
  <1>2. ASSUME NEW o \in Owners, JobFails(o) \/ Truncate(o) \/ Write(o) \/ WriteFails(o)
        PROVE  cut \subseteq cut'
    BY <1>2 DEF JobFails, Truncate, Write, WriteFails
  <1>3. ASSUME \/ PersistToolCall \/ PersistToolResult \/ FailToolAppend
               \/ \E m \in detached : Land(m)
               \/ ManualCompact \/ GenerateVoice \/ Clear \/ Crash
        PROVE  cut \subseteq cut'
    BY <1>3 DEF PersistToolCall, PersistToolResult, FailToolAppend, Land, ManualCompact,
                GenerateVoice, Clear, Crash
  <1>4. UNCHANGED vars => cut \subseteq cut'
    BY DEF vars
  <1> QED BY <1>1, <1>2, <1>3, <1>4 DEF Next

\* The messages of the event the forwarder is at.
LEMMA EventFacts ==
    ASSUME TypeInv, queue # <<>>
    PROVE  LET c == Msg("call", Head(queue)[1], Head(queue)[2])
               r == Msg("result", Head(queue)[1], Head(queue)[2])
           IN  /\ c \in Message /\ c.kind = "call" /\ c.id = Head(queue)
               /\ r \in Message /\ r.kind = "result" /\ r.id = Head(queue)
  <1>1. Head(queue) \in ToolIds
    BY Typed
  <1>2. <<Head(queue)[1], Head(queue)[2]>> = Head(queue)
    BY <1>1 DEF ToolIds
  <1>3. \A k : /\ Msg(k, Head(queue)[1], Head(queue)[2]).kind = k
               /\ Msg(k, Head(queue)[1], Head(queue)[2]).id = <<Head(queue)[1], Head(queue)[2]>>
    BY DEF Msg
  <1> QED BY <1>1, <1>2, <1>3, MessagesMade

\* Every step keeps the unanswered calls excused.
LEMMA DanglingStep ==
    ASSUME TypeInv, DanglingInv, [Next]_vars
    PROVE  DanglingInv'
  <1>0. /\ history \in Seq(Message) /\ detached \subseteq Message
        /\ half \in BOOLEAN /\ (half => queue # <<>>) /\ job \in [Owners -> Job]
        /\ \A o \in Owners : job[o].read \in Seq(Message) /\ job[o].new \in Seq(Message)
    BY Typed
  <1>1. /\ Dangling(history) \subseteq Excused
        /\ \A o \in Truncated : Dangling(job[o].new) \subseteq cut
        /\ \A m \in detached : m.kind \in Kinds /\ m.id \in cut
        /\ cut \subseteq cut'
    BY CutGrows DEF DanglingInv
  <1>2. ASSUME NEW o \in Owners, job'[o].stage = "truncated"
        PROVE  Dangling(job'[o].new) \subseteq cut'
    <2>1. CASE job'[o] = job[o]
      BY <2>1, <1>1, <1>2 DEF Truncated
    <2>2. CASE Ends(o)
      BY <2>2, <1>2 DEF NoJob, Ends
    <2>3. CASE Starts(o)
      BY <2>3, <1>2 DEF Starts
    <2>4. CASE Cuts(o)
      <3>1. CASE o = "voice" \/ ~InOrder(job[o].read)
        BY <3>1, <2>4 DEF Cuts
      <3>2. CASE o # "voice" /\ InOrder(job[o].read)
        <4>1. Dangling(job'[o].new) = {}
          BY <3>2, <2>4, <1>0, CompactionFacts DEF Cuts, Paired
        <4> QED BY <4>1
      <3> QED BY <3>1, <3>2
    <2>5. CASE Cleared(o)
      BY <2>5, EmptyFacts DEF Cleared
    <2> QED BY <2>1, <2>2, <2>3, <2>4, <2>5, JobMoves
  <1>3. SUFFICES /\ Dangling(history') \subseteq Excused'
                 /\ \A m \in detached' : m.kind \in Kinds /\ m.id \in cut'
    BY <1>2 DEF DanglingInv, Truncated
  <1> DEFINE Good == /\ Dangling(history') \subseteq Excused'
                     /\ \A m \in detached' : m.kind \in Kinds /\ m.id \in cut'
  <1>4. ASSUME UNCHANGED <<history, queue, half, detached>> PROVE Good
    BY <1>4, <1>1 DEF Excused
  <1>5. ASSUME history' = <<>>, UNCHANGED <<detached>> PROVE Good
    BY <1>5, <1>1, EmptyFacts
  <1>6. ASSUME NEW t \in Turns, history' = Append(history, Msg("user", t, 0)) \/
                                history' = Append(history, Msg("answer", t, 0)),
               UNCHANGED <<queue, half, detached>>
        PROVE  Good
    <2>1. /\ Msg("user", t, 0) \in Message /\ Msg("user", t, 0).kind # "call"
          /\ Msg("answer", t, 0) \in Message /\ Msg("answer", t, 0).kind # "call"
      BY MessagesMade DEF Msg
    <2>2. Dangling(history') \subseteq Dangling(history)
      BY <1>6, <2>1, <1>0, AppendedFacts
    <2> QED BY <2>2, <1>6, <1>1 DEF Excused
  <1>7. ASSUME NEW t \in Turns, TurnStep(t) PROVE Good
    <2>1. CASE Begin(t) \/ AutoCompact(t) \/ ToolCallRejected(t) \/ ContextOverflow(t) \/ FailRun(t)
      BY <2>1, <1>4 DEF Begin, AutoCompact, ToolCallRejected, ContextOverflow, FailRun
    <2>2. CASE PersistUser(t)
      BY <2>2, <1>4, <1>6 DEF PersistUser, append
    <2>3. CASE FinishRun(t)
      BY <2>3, <1>4, <1>6 DEF FinishRun, append
    <2>4. CASE AbortCleanup(t)
      BY <2>4, <1>4, <1>6 DEF AbortCleanup, append
    <2>5. CASE ToolCallEnd(t)
      <3>1. UNCHANGED <<history, half, detached>> /\ queue' = Append(queue, <<t, run.tools + 1>>)
        BY <2>5 DEF ToolCallEnd
      <3>2. queue # <<>> => Head(queue') = Head(queue)
        <4>1. queue \in Seq(ToolIds)
          BY Typed
        <4> QED BY <3>1, <4>1
      <3> QED BY <3>1, <3>2, <1>0, <1>1 DEF Excused
    <2>6. CASE Abort(t)
      <3>1. history' = history /\ half' = FALSE
        BY <2>6 DEF Abort
      <3>2. CASE queue = <<>>
        <4>1. cut' = cut /\ detached' = detached /\ ~half
          BY <2>6, <3>2, <1>0 DEF Abort
        <4> QED BY <3>1, <4>1, <1>1 DEF Excused
      <3>3. CASE queue # <<>>
        <4> DEFINE m == Msg(IF half THEN "result" ELSE "call", Head(queue)[1], Head(queue)[2])
        <4>1. cut' = cut \cup {Head(queue)} /\ detached' = detached \cup {m}
          BY <2>6, <3>3 DEF Abort
        <4>2. m.kind \in Kinds /\ m.id = Head(queue)
          BY <3>3, EventFacts DEF Kinds
        <4> HIDE DEF m
        <4> QED BY <3>1, <4>1, <4>2, <1>1 DEF Excused
      <3> QED BY <3>2, <3>3
    <2>7. CASE DropRequest(t)
      <3> DEFINE m == Msg(IF pc[t] = "aborting" THEN "answer" ELSE "user", t, 0)
      <3>1. /\ UNCHANGED <<history, queue, half>>
            /\ detached' = detached \/ (detached' = detached \cup {m} /\ cut' = cut \cup {<<t, 0>>})
        BY <2>7 DEF DropRequest
      <3>2. m.kind \in Kinds /\ m.id = <<t, 0>>
        BY DEF Msg, Kinds
      <3> HIDE DEF m
      <3> QED BY <3>1, <3>2, <1>1 DEF Excused
    <2> HIDE DEF Good
    <2> QED BY <1>7, <2>1, <2>2, <2>3, <2>4, <2>5, <2>6, <2>7 DEF TurnStep
  <1>8. ASSUME NEW o \in Owners, JobFails(o) PROVE Good
    BY <1>8, <1>4 DEF JobFails
  <1>9. ASSUME NEW o \in Owners, Truncate(o) PROVE Good
    BY <1>9, <1>5 DEF Truncate
  <1>10. ASSUME NEW o \in Owners, Write(o) PROVE Good
    <2>1. o \in Truncated /\ history' \in Overwritten(job[o].new, history)
      BY <1>10 DEF Write, Truncated
    <2>2. Dangling(history') \subseteq Dangling(job[o].new) \cup Dangling(history)
      BY <2>1, <1>0, OverwrittenFacts
    <2>3. UNCHANGED <<queue, half, detached, cut>>
      BY <1>10 DEF Write
    <2> QED BY <2>1, <2>2, <2>3, <1>1 DEF Excused
  <1>11. ASSUME PersistToolCall PROVE Good
    <2> DEFINE m == Msg("call", Head(queue)[1], Head(queue)[2])
    <2>1. /\ queue # <<>> /\ half' = TRUE /\ history' = Append(history, m) /\ ~half
          /\ UNCHANGED <<queue, detached, cut>>
      BY <1>11 DEF PersistToolCall, append
    <2>2. m \in Message /\ m.id = Head(queue)
      BY <2>1, EventFacts
    <2> HIDE DEF m
    <2>3. Dangling(history') \subseteq Dangling(history) \cup {Head(queue)}
      BY <2>1, <2>2, <1>0, AppendedFacts
    <2> QED BY <2>1, <2>3, <1>1 DEF Excused
  <1>12. ASSUME PersistToolResult PROVE Good
    <2> DEFINE m == Msg("result", Head(queue)[1], Head(queue)[2])
    <2>1. /\ half /\ half' = FALSE /\ history' = Append(history, m) /\ queue # <<>>
          /\ UNCHANGED <<detached, cut>>
      BY <1>12, <1>0 DEF PersistToolResult, append
    <2>2. m \in Message /\ m.id = Head(queue) /\ m.kind # "call" /\ is_tool_role_value(m)
      BY <2>1, EventFacts DEF is_tool_role_value
    <2> HIDE DEF m
    <2>3. Dangling(history') \subseteq Dangling(history) /\ Head(queue) \notin Dangling(history')
      BY <2>1, <2>2, <1>0, AppendedFacts
    <2> QED BY <2>1, <2>3, <1>1 DEF Excused
  <1>13. ASSUME FailToolAppend PROVE Good
    BY <1>13, <1>1 DEF FailToolAppend, Excused
  <1>14. ASSUME NEW m \in detached, Land(m) PROVE Good
    <2>1. history' = Append(history, m) /\ detached' = detached \ {m} /\ UNCHANGED <<queue, half, cut>>
      BY <1>14 DEF Land, append
    <2>2. m \in Message /\ m.id \in cut
      BY <1>0, <1>1
    <2>3. Dangling(history') \subseteq Dangling(history) \cup {m.id}
      BY <2>1, <2>2, <1>0, AppendedFacts
    <2> QED BY <2>1, <2>2, <2>3, <1>1 DEF Excused
  <1>15. ASSUME ManualCompact \/ GenerateVoice PROVE Good
    BY <1>15, <1>4 DEF ManualCompact, GenerateVoice
  <1>16. ASSUME Clear PROVE Good
    BY <1>16, <1>5 DEF Clear
  <1>17. ASSUME Crash PROVE Good
    BY <1>17 DEF Crash, Excused
  <1>20. ASSUME NEW o \in Owners, WriteFails(o) PROVE Good
    BY <1>20, <1>1 DEF WriteFails, Excused
  <1>18. ASSUME UNCHANGED vars PROVE Good
    BY <1>18, <1>4 DEF vars
  <1> HIDE DEF Good
  <1>19. Good
    BY <1>7, <1>8, <1>9, <1>10, <1>11, <1>12, <1>13, <1>14, <1>15, <1>16, <1>17, <1>18, <1>20
       DEF Next
  <1> QED BY <1>19 DEF Good

\* A call in the file without a result is the one the forwarder is at, or one that
\* an abort, a crash, a failed append, a failed write of a replacement or a voice
\* replacement separated from its result: a compaction that is written whole, or a
\* clear, never leaves one, whatever the forwarder does beside it.
THEOREM DanglingCallsHaveCause == Spec => []DanglingHasCause
  <1>1. Init => DanglingInv
    <2> SUFFICES ASSUME Init PROVE DanglingInv
      OBVIOUS
    <2>1. Truncated = {}
      BY DEF Init, Truncated, NoJob
    <2> QED BY <2>1, EmptyFacts DEF Init, DanglingInv
  <1>2. TypeInv /\ DanglingInv /\ [Next]_vars => TypeInv' /\ DanglingInv'
    BY TypeStep, DanglingStep
  <1>3. DanglingInv => DanglingHasCause
    BY DEF DanglingInv, DanglingHasCause, Excused
  <1> QED BY <1>1, <1>2, <1>3, TypeInit, PTL DEF Spec

-----------------------------------------------------------------------------
(* What is lost.                                                           *)

\* User messages and answers, but those that outlived their request.
Said(s, c) == {x \in Items(s) : x[1] \notin {"call", "result"} /\ <<x[2], x[3]>> \notin c}

\* The compaction that turn o waits for, begun with no other replacement under way.
OwnJob(o) == Awaits(o) /\ Working(o) /\ job[o].alone

\* It has read all that has been said: nothing is said while its turn waits, and a
\* replacement begun meanwhile has read no more.
ReadsAll(o) ==
    /\ Said(history, cut) \subseteq Items(job[o].read)
    /\ \A p \in Owners : Working(p) =>
          Said(job[p].read, cut) \subseteq Items(job[o].read) /\ Said(job[p].new, cut) \subseteq Items(job[o].read)

\* A turn that waits has a compaction to wait for.
LossInv == \A o \in Turns : (Awaits(o) => Working(o)) /\ (OwnJob(o) => ReadsAll(o))

\* A turn waits for a compaction it has just begun, or for the one it waited for.
LEMMA WaitsFor ==
    ASSUME TypeInv, Next, NEW o \in Turns, Awaits(o)'
    PROVE  Awaits(o) \/ AutoCompact(o) \/ (ContextOverflow(o) /\ StartJob(o))
  <1>0. pc \in [Turns -> Places]
    BY Typed
  <1> DEFINE Good == Awaits(o) \/ AutoCompact(o) \/ (ContextOverflow(o) /\ StartJob(o))
  <1>1. ASSUME pc'[o] = pc[o] PROVE Good
    BY <1>1 DEF Awaits
  <1>2. ASSUME NEW t \in Turns, TurnStep(t) PROVE Good
    <2>1. CASE ToolCallEnd(t) \/ ToolCallRejected(t)
      BY <2>1, <1>1 DEF ToolCallEnd, ToolCallRejected
    <2>2. CASE t # o
      <3>1. pc'[o] = pc[o]
        BY <1>2, <2>2, <1>0 DEF TurnStep, Begin, AutoCompact, PersistUser, ToolCallEnd,
           ToolCallRejected, ContextOverflow, FinishRun, FailRun, Abort, AbortCleanup, DropRequest
      <3> QED BY <3>1, <1>1
    <2>3. CASE t = o
      <3>1. CASE AutoCompact(o)
        BY <3>1
      <3>2. CASE ContextOverflow(o)
        BY <3>2, <1>0 DEF ContextOverflow, Awaits
      <3>3. CASE Begin(o) \/ PersistUser(o) \/ FinishRun(o) \/ FailRun(o) \/ Abort(o)
                 \/ AbortCleanup(o) \/ DropRequest(o)
        <4>1. pc'[o] \in {"loaded", "running", "done", "failing", "aborting"}
          BY <3>3, <1>0 DEF Begin, PersistUser, FinishRun, FailRun, Abort, AbortCleanup, DropRequest
        <4> QED BY <4>1 DEF Awaits
      <3> QED BY <1>2, <2>1, <2>3, <3>1, <3>2, <3>3 DEF TurnStep
    <2> QED BY <2>2, <2>3
  <1>3. ASSUME NEW p \in Owners, JobFails(p) \/ Truncate(p) \/ Write(p) \/ WriteFails(p)
        PROVE  Good
    <2>1. CASE Truncate(p)
      BY <2>1, <1>1 DEF Truncate
    <2>2. CASE JobFails(p) \/ Write(p) \/ WriteFails(p)
      <3>1. AfterJob(p, FALSE) \/ AfterJob(p, TRUE)
        BY <2>2 DEF JobFails, Write, WriteFails
      <3>2. pc'[o] = pc[o] \/ pc'[o] \in {"ready", "running", "failing"}
        BY <3>1, <1>0, AfterJobFacts
      <3> QED BY <3>2, <1>1 DEF Awaits
    <2> QED BY <1>3, <2>1, <2>2
  <1>4. ASSUME \/ PersistToolCall \/ PersistToolResult \/ FailToolAppend
               \/ \E m \in detached : Land(m)
               \/ ManualCompact \/ GenerateVoice \/ Clear
        PROVE  Good
    BY <1>4, <1>1 DEF PersistToolCall, PersistToolResult, FailToolAppend, Land, ManualCompact,
                      GenerateVoice, Clear
  <1>5. ASSUME Crash PROVE Good
    BY <1>5 DEF Crash, Awaits
  <1> HIDE DEF Good
  <1>6. Good
    BY <1>2, <1>3, <1>4, <1>5 DEF Next
  <1> QED BY <1>6 DEF Good

\* While a turn waits for its compaction, and still does after a step that is not
\* a crash, nothing is said that was not in the file or in a replacement.
LEMMA NothingSaid ==
    ASSUME TurnInv, DanglingInv, Next, ~Crash, NEW o \in Turns, Awaits(o), Awaits(o)'
    PROVE  \/ Said(history', cut) \subseteq Said(history, cut)
           \/ \E p \in Owners : Working(p) /\ Said(history', cut) \subseteq Said(job[p].new, cut) \cup Said(history, cut)
  <1>0. TypeInv
    BY DEF TurnInv
  <1>1. /\ history \in Seq(Message) /\ detached \subseteq Message /\ pc \in [Turns -> Places]
        /\ (half => queue # <<>>)
        /\ \A p \in Owners : job[p].new \in Seq(Message)
    BY <1>0, Typed
  <1> DEFINE Good == \/ Said(history', cut) \subseteq Said(history, cut)
                     \/ \E p \in Owners : Working(p) /\ Said(history', cut) \subseteq Said(job[p].new, cut) \cup Said(history, cut)
  <1>2. ASSUME history' = history \/ history' = <<>> PROVE Good
    BY <1>2, EmptyFacts DEF Said
  <1>3. ASSUME NEW m \in Message, m.kind \in Kinds, m.kind \in {"call", "result"} \/ m.id \in cut,
               history' = Append(history, m)
        PROVE  Good
    <2>1. m.covers = {<<m.kind, m.id[1], m.id[2]>>} /\ m.id = <<m.id[1], m.id[2]>>
      BY <1>3, MessageFacts DEF Kinds
    <2>2. Items(history') = Items(history) \cup m.covers
      BY <1>3, <1>1, AppendedFacts
    <2> DEFINE x == <<m.kind, m.id[1], m.id[2]>>
    <2>3. x[1] = m.kind /\ <<x[2], x[3]>> = m.id
      BY <2>1
    <2> QED BY <1>3, <2>1, <2>2, <2>3 DEF Said
  <1>4. ASSUME NEW t \in Turns, TurnStep(t) PROVE Good
    <2>1. CASE PersistUser(t) \/ FinishRun(t) \/ AbortCleanup(t)
      <3>1. /\ pc[t] \notin {"new", "done"}
            /\ pc' = [pc EXCEPT ![t] = "running"] \/ pc' = [pc EXCEPT ![t] = "done"]
        BY <2>1 DEF PersistUser, FinishRun, AbortCleanup
      <3>2. t = o
        BY <3>1 DEF TurnInv, OneTurn, Active, Awaits
      <3>3. FALSE
        BY <3>1, <3>2, <1>1 DEF Awaits
      <3> QED BY <3>3
    <2>2. CASE ~(PersistUser(t) \/ FinishRun(t) \/ AbortCleanup(t))
      <3>1. history' = history
        BY <1>4, <2>2 DEF TurnStep, Begin, AutoCompact, ToolCallEnd, ToolCallRejected,
           ContextOverflow, FailRun, Abort, DropRequest
      <3> QED BY <3>1, <1>2
    <2> QED BY <2>1, <2>2
  <1>5. ASSUME NEW p \in Owners, JobFails(p) \/ Truncate(p) PROVE Good
    BY <1>5, <1>2 DEF JobFails, Truncate
  <1>6. ASSUME NEW p \in Owners, Write(p) PROVE Good
    <2>1. Working(p) /\ history' \in Overwritten(job[p].new, history)
      BY <1>6 DEF Write, Working
    <2>2. Items(history') \subseteq Items(job[p].new) \cup Items(history)
      BY <2>1, <1>1, OverwrittenFacts
    <2> QED BY <2>1, <2>2 DEF Said
  <1>12. ASSUME NEW p \in Owners, WriteFails(p) PROVE Good
    <2>1. Working(p) /\ history' \in Torn(p)
      BY <1>12 DEF WriteFails, Working
    <2>2. Items(history') \subseteq Items(job[p].new) \cup Items(history)
      BY <2>1, <1>1, TornFacts
    <2> QED BY <2>1, <2>2 DEF Said
  <1>7. ASSUME PersistToolCall PROVE Good
    BY <1>7, <1>0, <1>3, EventFacts DEF PersistToolCall, append, Kinds
  <1>8. ASSUME PersistToolResult PROVE Good
    BY <1>8, <1>0, <1>1, <1>3, EventFacts DEF PersistToolResult, append, Kinds
  <1>9. ASSUME NEW m \in detached, Land(m) PROVE Good
    BY <1>9, <1>1, <1>3 DEF Land, append, DanglingInv
  <1>10. ASSUME FailToolAppend \/ ManualCompact \/ GenerateVoice \/ Clear PROVE Good
    BY <1>10, <1>2 DEF FailToolAppend, ManualCompact, GenerateVoice, Clear
  <1> HIDE DEF Good
  <1>11. Good
    BY <1>4, <1>5, <1>6, <1>7, <1>8, <1>9, <1>10, <1>12 DEF Next
  <1> QED BY <1>11 DEF Good

\* Every step keeps what has been said in what a turn's own compaction has read.
LEMMA LossStep ==
    ASSUME TurnInv, DanglingInv, LossInv, [Next]_vars
    PROVE  LossInv'
  <1>0. TypeInv
    BY DEF TurnInv
  <1>1. job \in [Owners -> Job] /\ \A p \in Owners : job[p].read \in Seq(Message)
    BY <1>0, Typed
  <1>2. CASE UNCHANGED vars
    <2>1. UNCHANGED <<job, pc, history, cut>>
      BY <1>2 DEF vars
    <2> QED BY <2>1 DEF LossInv, OwnJob, ReadsAll, Awaits, Working
  <1>3. CASE Next
    <2>1. SUFFICES ASSUME NEW o \in Turns, Awaits(o)' PROVE Working(o)' /\ (OwnJob(o)' => ReadsAll(o)')
      BY DEF LossInv, OwnJob
    <2>2. o \in Owners
      BY DEF Owners
    <2>3. ~Crash
      BY <2>1 DEF Crash, Awaits
    <2>4. CASE ~Awaits(o)
      <3>1. StartJob(o) /\ history' = history
        BY <2>1, <2>4, <1>0, <1>3, WaitsFor DEF AutoCompact, ContextOverflow
      <3>2. /\ Starts(o) /\ (job'[o].alone => \A p \in Owners : ~Working(p))
            /\ \A p \in Owners \ {o} : job'[p] = job[p]
        BY <3>1, <2>2, <1>1, StartFacts
      <3>3. job'[o].read = history' /\ job'[o].new = <<>> /\ job'[o].stage = "read"
        BY <3>1, <3>2 DEF Starts
      <3>4. job'[o].alone => \A p \in Owners \ {o} : job'[p].stage = "none"
        BY <3>2 DEF Working
      <3> QED BY <3>3, <3>4, EmptyFacts DEF ReadsAll, Said, Working, OwnJob
    <2>5. CASE Awaits(o)
      <3>1. Working(o)
        BY <2>5 DEF LossInv
      <3>2. Working(o)' /\ job'[o].read = job[o].read /\ job'[o].alone = job[o].alone
        <4>1. CASE Ends(o)
          <5>1. AfterJob(o, FALSE) \/ AfterJob(o, TRUE)
            BY <4>1, <2>3 DEF Ends
          <5>2. pc'[o] \in {"ready", "running", "failing"}
            BY <5>1, <2>5 DEF AfterJob, Awaits
          <5> QED BY <5>2, <2>1 DEF Awaits
        <4>2. CASE Starts(o)
          BY <4>2, <3>1 DEF Starts
        <4>3. CASE Cuts(o) \/ Cleared(o)
          BY <4>3 DEF Cuts, Cleared, Working
        <4>4. CASE job'[o] = job[o]
          BY <4>4, <3>1 DEF Working
        <4> QED BY <4>1, <4>2, <4>3, <4>4, <2>2, <1>0, JobMoves
      <3>3. SUFFICES ASSUME OwnJob(o)' PROVE ReadsAll(o)'
        BY <3>2
      <3> DEFINE R == Items(job[o].read)
      <3>4. /\ Said(history, cut) \subseteq R
            /\ \A p \in Owners : Working(p) => Said(job[p].read, cut) \subseteq R /\ Said(job[p].new, cut) \subseteq R
        <4>1. OwnJob(o)
          BY <2>5, <3>1, <3>2, <3>3 DEF OwnJob
        <4> QED BY <4>1 DEF LossInv, ReadsAll
      <3> HIDE DEF R
      <3>5. Said(history', cut) \subseteq R
        BY <3>4, <2>1, <2>3, <2>5, <1>3, NothingSaid
      <3>6. ASSUME NEW p \in Owners, Working(p)'
            PROVE  Said(job'[p].read, cut) \subseteq R /\ Said(job'[p].new, cut) \subseteq R
        <4>1. CASE job'[p] = job[p]
          BY <4>1, <3>4, <3>6 DEF Working
        <4>2. CASE Ends(p)
          BY <4>2, <3>6 DEF Ends, Working, NoJob
        <4>3. CASE Starts(p)
          BY <4>3, <3>4, EmptyFacts DEF Starts, Said
        <4>4. CASE Cuts(p)
          <5>1. Working(p) /\ job'[p].read = job[p].read
            BY <4>4 DEF Cuts, Working
          <5>2. Items(job'[p].new) \subseteq Items(job[p].read)
            BY <4>4, <1>1, CompactionFacts DEF Cuts
          <5> QED BY <5>1, <5>2, <3>4 DEF Said
        <4>5. CASE Cleared(p)
          BY <4>5, <3>4, EmptyFacts DEF Cleared, Working, Said
        <4> QED BY <4>1, <4>2, <4>3, <4>4, <4>5, <1>0, JobMoves
      <3>7. \A q : Said(q, cut') \subseteq Said(q, cut)
        BY CutGrows DEF Said
      <3> QED BY <3>2, <3>5, <3>6, <3>7 DEF ReadsAll, R
    <2> QED BY <2>4, <2>5
  <1> QED BY <1>2, <1>3

\* A step that truncates or replaces nothing keeps all that is accounted for.
LEMMA KeepsAccounted ==
    ASSUME TypeInv, Next, ~Clear, ~Crash,
           \A o \in Owners : ~Truncate(o) /\ ~Write(o) /\ ~WriteFails(o)
    PROVE  Accounted \subseteq Accounted'
  <1>0. /\ history \in Seq(Message) /\ detached \subseteq Message /\ job \in [Owners -> Job]
        /\ (half => queue # <<>>)
    BY Typed
  <1>1. Items(history) \subseteq Items(history')
    <2>1. ASSUME NEW m \in Message, append(m) PROVE Items(history) \subseteq Items(history')
      BY <2>1, <1>0, AppendedFacts DEF append
    <2>2. ASSUME NEW t \in Turns, TurnStep(t) PROVE Items(history) \subseteq Items(history')
      <3>1. Msg("user", t, 0) \in Message /\ Msg("answer", t, 0) \in Message
        BY MessagesMade
      <3> QED BY <2>1, <2>2, <3>1 DEF TurnStep, Begin, AutoCompact, PersistUser, ToolCallEnd,
           ToolCallRejected, ContextOverflow, FinishRun, FailRun, Abort, AbortCleanup, DropRequest
    <2>3. ASSUME PersistToolCall \/ PersistToolResult PROVE Items(history) \subseteq Items(history')
      BY <2>1, <2>3, <1>0, EventFacts DEF PersistToolCall, PersistToolResult
    <2>4. ASSUME NEW m \in detached, Land(m) PROVE Items(history) \subseteq Items(history')
      BY <2>1, <2>4, <1>0 DEF Land
    <2>5. ASSUME FailToolAppend \/ ManualCompact \/ GenerateVoice \/ \E o \in Owners : JobFails(o)
          PROVE  Items(history) \subseteq Items(history')
      BY <2>5 DEF FailToolAppend, ManualCompact, GenerateVoice, JobFails
    <2> QED BY <2>2, <2>3, <2>4, <2>5 DEF Next
  <1>2. ASSUME NEW o \in Truncated PROVE o \in Truncated' /\ job'[o] = job[o]
    <2>1. o \in Owners /\ job[o].stage = "truncated"
      BY DEF Truncated
    <2>2. SUFFICES job'[o] = job[o]
      BY <2>1 DEF Truncated
    <2>3. ASSUME NEW p \in Owners, StartJob(p) PROVE job'[o] = job[o]
      <3>1. p # o
        BY <2>1, <2>3 DEF StartJob, Working
      <3> QED BY <3>1, <2>1, <2>3, <1>0, StartFacts
    <2>4. ASSUME NEW p \in Owners, JobFails(p) PROVE job'[o] = job[o]
      BY <2>1, <2>4, <1>0 DEF JobFails
    <2>5. Turns \subseteq Owners /\ {"compact", "voice"} \subseteq Owners
      BY DEF Owners
    <2>6. ASSUME NEW t \in Turns, TurnStep(t) PROVE job'[o] = job[o]
      BY <2>3, <2>5, <2>6 DEF TurnStep, Begin, AutoCompact, PersistUser, ToolCallEnd,
         ToolCallRejected, ContextOverflow, FinishRun, FailRun, Abort, AbortCleanup, DropRequest
    <2>7. ASSUME ManualCompact \/ GenerateVoice PROVE job'[o] = job[o]
      BY <2>3, <2>5, <2>7 DEF ManualCompact, GenerateVoice
    <2>8. ASSUME PersistToolCall \/ PersistToolResult \/ FailToolAppend \/ \E m \in detached : Land(m)
          PROVE  job'[o] = job[o]
      BY <2>8 DEF PersistToolCall, PersistToolResult, FailToolAppend, Land
    <2> QED BY <2>4, <2>6, <2>7, <2>8 DEF Next
  <1> QED BY <1>1, <1>2 DEF Accounted

\* What is not in what a replacement makes of what it has read is not in what it has
\* read, or is a tool result whose call is gone.
LEMMA LeftOut ==
    ASSUME NEW read \in Seq(Message), NEW o, NEW new, NEW x, x \notin Items(new),
           \/ o = "voice" /\ new = read
           \/ o # "voice" /\ new \in run_compaction(read)
    PROVE  \/ x \notin Items(read)
           \/ o # "voice" /\ x[1] = "result" /\ <<x[2], x[3]>> \notin CallIds(new)
  BY CompactionFacts

\* No message of the conversation disappears from the file, from behind a summary and
\* from the replacement under way, unless a clear, a crash, a failed write of a
\* replacement, a replacement nobody waits for or one that began during another takes
\* it, or it is about a tool call, or an append that outlived its request: a turn's own
\* compactions keep, summarise or mark as elided all that was said.
THEOREM LossesHaveCause == Spec => LossHasCause
  <1> DEFINE Inv == TurnInv /\ JobInv /\ DanglingInv /\ LossInv
  <1>1. ASSUME Inv, Next, NEW x \in Accounted \ Accounted' PROVE MayLose(x)
    <2>0. /\ TypeInv /\ JobInv /\ LossInv
          /\ history \in Seq(Message) /\ job \in [Owners -> Job]
          /\ \A o \in Owners : job[o].read \in Seq(Message) /\ job[o].new \in Seq(Message)
      BY <1>1, Typed DEF TurnInv
    <2>1. ASSUME NEW o \in Owners, Working(o), x \in Items(history), x \notin Items(job[o].read)
          PROVE  MayLose(x)
      <3>1. SUFFICES ASSUME o \in Turns, Awaits(o), job[o].alone, x[1] \notin {"call", "result"},
                            <<x[2], x[3]>> \notin cut
                     PROVE  FALSE
        BY <2>1 DEF MayLose
      <3>2. ReadsAll(o)
        BY <2>0, <2>1, <3>1 DEF LossInv, OwnJob
      <3> QED BY <2>1, <3>1, <3>2 DEF ReadsAll, Said
    <2>2. ASSUME NEW o \in Owners, Truncate(o) PROVE MayLose(x)
      <3>1. Cuts(o) /\ \A p \in Owners \ {o} : job'[p] = job[p]
        BY <2>0, <2>2, TruncateFacts
      <3>2. Working(o) /\ job[o].new = <<>> /\ job[o].stage = "read" /\ job'[o].stage = "truncated"
        BY <2>0, <3>1 DEF Cuts, Working, JobInv, JobOf
      <3>3. x \in Items(history)
        <4>1. ASSUME NEW p \in Truncated, x \in Items(job[p].new) PROVE FALSE
          <5>1. p \in Owners \ {o}
            BY <3>2 DEF Truncated
          <5>2. job'[p] = job[p] /\ p \in Truncated'
            BY <5>1, <3>1 DEF Truncated
          <5> QED BY <4>1, <5>2 DEF Accounted
        <4> QED BY <4>1 DEF Accounted
      <3>4. x \notin Items(job'[o].new)
        BY <3>2 DEF Accounted, Truncated
      <3>5. \/ x \notin Items(job[o].read)
            \/ o # "voice" /\ x[1] = "result" /\ <<x[2], x[3]>> \notin CallIds(job'[o].new)
        <4> DEFINE new == job'[o].new
        <4>1. \/ o = "voice" /\ new = job[o].read
              \/ o # "voice" /\ new \in run_compaction(job[o].read)
          BY <3>1 DEF Cuts
        <4>2. x \notin Items(new)
          BY <3>4
        <4> HIDE DEF new
        <4>3. \/ x \notin Items(job[o].read)
              \/ o # "voice" /\ x[1] = "result" /\ <<x[2], x[3]>> \notin CallIds(new)
          BY <2>0, <4>1, <4>2, LeftOut
        <4> QED BY <4>3 DEF new
      <3>6. CASE x \notin Items(job[o].read)
        BY <2>1, <3>2, <3>3, <3>6
      <3>7. CASE o # "voice" /\ x[1] = "result" /\ <<x[2], x[3]>> \notin CallIds(job'[o].new)
        <4>1. CallIds(job[o].new) = {}
          BY <3>2 DEF CallIds
        <4> QED BY <3>2, <3>7, <4>1 DEF MayLose
      <3> QED BY <3>5, <3>6, <3>7
    <2>3. ASSUME NEW o \in Owners, Write(o) PROVE MayLose(x)
      <3>1. /\ job[o].stage = "truncated" /\ history' \in Overwritten(job[o].new, history)
            /\ job' = [job EXCEPT ![o] = NoJob]
        BY <2>3 DEF Write
      <3>2. /\ Items(job[o].new) \subseteq Items(history')
            /\ job[o].new = <<>> => history' = history
        BY <2>0, <3>1, OverwrittenFacts
      <3>3. \A p \in Owners \ {o} : job'[p] = job[p]
        BY <2>0, <3>1
      <3>4. x \notin Items(history') /\ x \notin Items(job[o].new)
        BY <3>2 DEF Accounted
      <3>5. x \in Items(history)
        <4>1. ASSUME NEW p \in Truncated, x \in Items(job[p].new) PROVE FALSE
          <5>1. p \in Owners \ {o}
            BY <4>1, <3>4 DEF Truncated
          <5>2. job'[p] = job[p] /\ p \in Truncated'
            BY <5>1, <3>3 DEF Truncated
          <5> QED BY <4>1, <5>2 DEF Accounted
        <4> QED BY <4>1 DEF Accounted
      <3>6. /\ Working(o)
            /\ \/ o = "voice" /\ job[o].new = job[o].read
               \/ o # "voice" /\ job[o].new \in run_compaction(job[o].read)
        BY <2>0, <3>1, <3>2, <3>4, <3>5 DEF JobInv, JobOf, Working
      <3>7. \/ x \notin Items(job[o].read)
            \/ o # "voice" /\ x[1] = "result" /\ <<x[2], x[3]>> \notin CallIds(job[o].new)
        BY <2>0, <3>4, <3>6, LeftOut
      <3>8. CASE x \notin Items(job[o].read)
        BY <2>1, <3>5, <3>6, <3>8
      <3>9. CASE o # "voice" /\ x[1] = "result" /\ <<x[2], x[3]>> \notin CallIds(job[o].new)
        <4>1. job'[o] = NoJob
          BY <2>0, <3>1
        <4>2. CallIds(job'[o].new) = {}
          BY <4>1 DEF CallIds, NoJob
        <4> QED BY <3>6, <3>9, <4>2 DEF MayLose
      <3> QED BY <3>7, <3>8, <3>9
    <2>4. CASE Clear \/ Crash \/ \E o \in Owners : WriteFails(o)
      BY <2>4 DEF MayLose
    <2>5. CASE /\ ~Clear /\ ~Crash
               /\ \A o \in Owners : ~Truncate(o) /\ ~Write(o) /\ ~WriteFails(o)
      BY <1>1, <2>0, <2>5, KeepsAccounted
    <2> QED BY <2>2, <2>3, <2>4, <2>5
  <1>2. Init => Inv
    <2> SUFFICES ASSUME Init PROVE Inv
      OBVIOUS
    <2>1. Truncated = {} /\ \A t \in Turns : ~Awaits(t)
      BY DEF Init, Truncated, NoJob, Awaits
    <2> QED BY <2>1, TurnInvInit, JobInvInit, EmptyFacts DEF Init, DanglingInv, LossInv, OwnJob
  <1>3. Inv /\ [Next]_vars => Inv'
    <2> SUFFICES ASSUME Inv, [Next]_vars PROVE Inv'
      OBVIOUS
    <2>1. TypeInv
      BY DEF TurnInv
    <2> QED BY <2>1, TurnInvStep, JobInvStep, DanglingStep, LossStep
  <1>4. Inv /\ [Next]_vars => [\A x \in Accounted \ Accounted' : MayLose(x)]_vars
    BY <1>1
  <1> QED BY <1>2, <1>3, <1>4, PTL DEF Spec, LossHasCause

=============================================================================
