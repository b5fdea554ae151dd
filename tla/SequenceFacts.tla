--------------------------- MODULE SequenceFacts ---------------------------
(***************************************************************************)
(* Lemmas about sequences.  First sequences without repetition, the form   *)
(* that the queues and tables of the components take: what adding,         *)
(* removing and sorting do to their elements and to the order of them.     *)
(* Then flattening, by an induction stated about sets of numbers.          *)
(***************************************************************************)
EXTENDS Naturals, Sequences, SequencesExt, SequenceTheorems, WellFoundedInduction, TLAPS

-----------------------------------------------------------------------------
(* Queues.                                                                 *)

\* Queueing at the back adds one element.
LEMMA AppendFacts ==
    ASSUME NEW S, NEW s \in Seq(S), NEW e \in S, e \notin ToSet(s), IsInjective(s)
    PROVE  /\ Append(s, e) \in Seq(S)
           /\ ToSet(Append(s, e)) = ToSet(s) \cup {e}
           /\ IsInjective(Append(s, e))
  <1>1. /\ Append(s, e) \in Seq(S)
        /\ Len(Append(s, e)) = Len(s) + 1
        /\ Len(s) \in Nat
        /\ \A i \in 1..Len(s) : Append(s, e)[i] = s[i]
        /\ Append(s, e)[Len(s) + 1] = e
    OBVIOUS
  <1>2. ToSet(Append(s, e)) = ToSet(s) \cup {e}
    BY <1>1 DEF ToSet
  <1>3. IsInjective(Append(s, e))
    BY <1>1 DEF ToSet, IsInjective
  <1> QED BY <1>1, <1>2, <1>3

\* Queueing at the front adds one element.
LEMMA PushFrontFacts ==
    ASSUME NEW S, NEW s \in Seq(S), NEW e \in S, e \notin ToSet(s), IsInjective(s)
    PROVE  /\ <<e>> \o s \in Seq(S)
           /\ ToSet(<<e>> \o s) = ToSet(s) \cup {e}
           /\ IsInjective(<<e>> \o s)
  <1> DEFINE t == <<e>> \o s
  <1>1. /\ t \in Seq(S)
        /\ Len(t) = Len(s) + 1
        /\ Len(s) \in Nat
        /\ DOMAIN s = 1..Len(s) /\ DOMAIN t = 1..Len(t)
        /\ t[1] = e
        /\ \A i \in 1..Len(s) : t[i + 1] = s[i]
        /\ \A i \in 2..Len(t) : t[i] = s[i - 1]
    OBVIOUS
  <1> HIDE DEF t
  <1>2. ToSet(t) = ToSet(s) \cup {e}
    <2>1. ToSet(t) \subseteq ToSet(s) \cup {e}
      <3> SUFFICES ASSUME NEW i \in 1..Len(t) PROVE t[i] \in ToSet(s) \cup {e}
        BY DEF ToSet
      <3>1. CASE i = 1 BY <3>1, <1>1
      <3>2. CASE i # 1
        <4>1. i - 1 \in 1..Len(s) /\ t[i] = s[i - 1] BY <3>2, <1>1
        <4> QED BY <4>1 DEF ToSet
      <3> QED BY <3>1, <3>2
    <2>2. ToSet(s) \cup {e} \subseteq ToSet(t)
      <3>1. ASSUME NEW i \in 1..Len(s) PROVE s[i] \in ToSet(t)
        <4>1. i + 1 \in 1..Len(t) /\ t[i + 1] = s[i] BY <1>1
        <4> QED BY <4>1 DEF ToSet
      <3>2. e \in ToSet(t)
        <4>1. 1 \in 1..Len(t) /\ t[1] = e BY <1>1
        <4> QED BY <4>1 DEF ToSet
      <3> QED BY <3>1, <3>2 DEF ToSet
    <2> QED BY <2>1, <2>2
  <1>3. IsInjective(t)
    <2> SUFFICES ASSUME NEW i \in 1..Len(t), NEW j \in 1..Len(t), t[i] = t[j]
                 PROVE  i = j
      BY DEF IsInjective
    <2>1. CASE i = 1 /\ j = 1 BY <2>1
    <2>2. CASE i = 1 /\ j # 1
      <3>1. j - 1 \in 1..Len(s) /\ t[j] = s[j - 1] BY <2>2, <1>1
      <3> QED BY <3>1, <2>2, <1>1 DEF ToSet
    <2>3. CASE i # 1 /\ j = 1
      <3>1. i - 1 \in 1..Len(s) /\ t[i] = s[i - 1] BY <2>3, <1>1
      <3> QED BY <3>1, <2>3, <1>1 DEF ToSet
    <2>4. CASE i # 1 /\ j # 1
      <3>1. i - 1 \in 1..Len(s) /\ t[i] = s[i - 1] BY <2>4, <1>1
      <3>2. j - 1 \in 1..Len(s) /\ t[j] = s[j - 1] BY <2>4, <1>1
      <3>3. i - 1 = j - 1 BY <3>1, <3>2, <1>1 DEF IsInjective
      <3> QED BY <3>3
    <2> QED BY <2>1, <2>2, <2>3, <2>4
  <1> QED BY <1>1, <1>2, <1>3 DEF t

\* Dropping a prefix removes exactly the elements of the prefix.
LEMMA DropFacts ==
    ASSUME NEW S, NEW s \in Seq(S), IsInjective(s), NEW n \in 1..Len(s)
    PROVE  /\ SubSeq(s, n + 1, Len(s)) \in Seq(S)
           /\ ToSet(SubSeq(s, n + 1, Len(s))) = ToSet(s) \ {s[i] : i \in 1..n}
           /\ IsInjective(SubSeq(s, n + 1, Len(s)))
  <1> DEFINE t == SubSeq(s, n + 1, Len(s))
  <1>1. /\ t \in Seq(S)
        /\ Len(s) \in Nat /\ Len(t) = Len(s) - n
        /\ DOMAIN s = 1..Len(s) /\ DOMAIN t = 1..Len(t)
        /\ \A i \in 1..Len(t) : t[i] = s[i + n]
    OBVIOUS
  <1> HIDE DEF t
  <1>2. ToSet(t) = ToSet(s) \ {s[i] : i \in 1..n}
    <2>1. ASSUME NEW i \in 1..Len(t) PROVE t[i] \in ToSet(s) \ {s[k] : k \in 1..n}
      <3>1. i + n \in 1..Len(s) /\ t[i] = s[i + n] BY <1>1
      <3>2. ASSUME NEW k \in 1..n PROVE s[k] # s[i + n]
        <4>1. k \in DOMAIN s /\ i + n \in DOMAIN s /\ k # i + n BY <3>1, <1>1
        <4> QED BY <4>1 DEF IsInjective
      <3> QED BY <3>1, <3>2 DEF ToSet
    <2>2. ASSUME NEW i \in 1..Len(s), s[i] \notin {s[k] : k \in 1..n}
          PROVE  s[i] \in ToSet(t)
      <3>1. i - n \in 1..Len(t) BY <2>2, <1>1
      <3>2. t[i - n] = s[i] BY <3>1, <1>1
      <3> QED BY <3>1, <3>2, <1>1 DEF ToSet
    <2> QED BY <2>1, <2>2, <1>1 DEF ToSet
  <1>3. IsInjective(t)
    <2> SUFFICES ASSUME NEW i \in DOMAIN t, NEW j \in DOMAIN t, t[i] = t[j]
                 PROVE  i = j
      BY DEF IsInjective
    <2>1. i + n \in DOMAIN s /\ j + n \in DOMAIN s /\ s[i + n] = s[j + n]
      BY <1>1
    <2>2. i + n = j + n BY <2>1 DEF IsInjective
    <2> QED BY <2>2, <1>1
  <1> QED BY <1>1, <1>2, <1>3 DEF t

\* Serving the first waiter removes it.
LEMMA TailFacts ==
    ASSUME NEW S, NEW s \in Seq(S), IsInjective(s), s # <<>>
    PROVE  /\ Head(s) \in S
           /\ Head(s) \in ToSet(s)
           /\ Tail(s) \in Seq(S)
           /\ ToSet(Tail(s)) = ToSet(s) \ {Head(s)}
           /\ IsInjective(Tail(s))
  <1>1. Len(s) \in Nat \ {0} /\ Head(s) = s[1] /\ Head(s) \in S
    OBVIOUS
  <1>2. Tail(s) = SubSeq(s, 1 + 1, Len(s))
    OBVIOUS
  <1>3. {s[i] : i \in 1..1} = {Head(s)}
    BY <1>1
  <1>4. Head(s) \in ToSet(s)
    <2>1. 1 \in 1..Len(s) /\ s[1] = Head(s) BY <1>1
    <2> QED BY <2>1 DEF ToSet
  <1>5. 1 \in 1..Len(s)
    BY <1>1
  <1>6. /\ SubSeq(s, 1 + 1, Len(s)) \in Seq(S)
        /\ ToSet(SubSeq(s, 1 + 1, Len(s))) = ToSet(s) \ {s[i] : i \in 1..1}
        /\ IsInjective(SubSeq(s, 1 + 1, Len(s)))
    BY <1>5, DropFacts
  <1> QED BY <1>1, <1>2, <1>3, <1>4, <1>6

-----------------------------------------------------------------------------
(* Tables with an order.                                                   *)

\* c comes before d in s.
Precedes(s, c, d) == \E i, j \in DOMAIN s : i < j /\ s[i] = c /\ s[j] = d

\* Inserting at any place adds one element and keeps the order of the others.
LEMMA InsertFacts ==
    ASSUME NEW S, NEW s \in Seq(S), NEW e \in S, e \notin ToSet(s), IsInjective(s),
           NEW k \in 1..Len(s) + 1
    PROVE  /\ InsertAt(s, k, e) \in Seq(S)
           /\ ToSet(InsertAt(s, k, e)) = ToSet(s) \cup {e}
           /\ IsInjective(InsertAt(s, k, e))
           /\ \A c, d : Precedes(s, c, d) => Precedes(InsertAt(s, k, e), c, d)
  <1> DEFINE a == SubSeq(s, 1, k - 1)
             b == SubSeq(s, k, Len(s))
             u == a \o <<e>>
             t == u \o b
  <1>1. Len(s) \in Nat /\ DOMAIN s = 1..Len(s)
    OBVIOUS
  <1>2. /\ a \in Seq(S) /\ Len(a) = k - 1
        /\ \A i \in 1..k - 1 : a[i] = s[i]
    BY <1>1
  <1>3. /\ b \in Seq(S) /\ Len(b) = Len(s) - k + 1
        /\ \A i \in 1..Len(s) - k + 1 : b[i] = s[i + k - 1]
    BY <1>1
  <1> HIDE DEF a, b
  <1>a. /\ u \in Seq(S) /\ Len(u) = k
        /\ \A i \in 1..k : u[i] = IF i <= k - 1 THEN a[i] ELSE <<e>>[i - (k - 1)]
    <2>1. <<e>> \in Seq(S) /\ Len(<<e>>) = 1 OBVIOUS
    <2> QED BY <2>1, <1>1, <1>2, ConcatProperties
  <1>8. InsertAt(s, k, e) = t
    BY DEF InsertAt, a, b
  <1> HIDE DEF u
  <1>b. /\ t \in Seq(S) /\ Len(t) = Len(s) + 1
        /\ \A i \in 1..Len(s) + 1 : t[i] = IF i <= k THEN u[i] ELSE b[i - k]
    <2>1. /\ t \in Seq(S) /\ Len(t) = Len(u) + Len(b)
          /\ \A i \in 1..Len(u) + Len(b) : t[i] = IF i <= Len(u) THEN u[i] ELSE b[i - Len(u)]
      BY <1>3, <1>a, ConcatProperties
    <2>2. Len(u) = k /\ Len(u) + Len(b) = Len(s) + 1
      BY <1>1, <1>3, <1>a
    <2> HIDE DEF t
    <2> QED BY <2>1, <2>2
  <1> HIDE DEF t
  <1>4. t \in Seq(S) /\ Len(t) = Len(s) + 1 /\ DOMAIN t = 1..Len(s) + 1
    BY <1>1, <1>b
  <1>5. \A i \in 1..k - 1 : t[i] = s[i]
    BY <1>1, <1>2, <1>a, <1>b
  <1>6. t[k] = e
    <2>1. t[k] = u[k] BY <1>1, <1>b
    <2>2. u[k] = <<e>>[k - (k - 1)] BY <1>1, <1>a
    <2>3. k - (k - 1) = 1 OBVIOUS
    <2> QED BY <2>1, <2>2, <2>3
  <1>7. \A i \in k + 1..Len(s) + 1 : t[i] = s[i - 1]
    <2> SUFFICES ASSUME NEW i \in k + 1..Len(s) + 1 PROVE t[i] = s[i - 1] OBVIOUS
    <2>1. t[i] = b[i - k] BY <1>1, <1>b
    <2>2. i - k \in 1..Len(s) - k + 1 /\ (i - k) + k - 1 = i - 1 BY <1>1
    <2>3. b[i - k] = s[(i - k) + k - 1] BY <2>2, <1>3
    <2> QED BY <2>1, <2>2, <2>3
  <1>9. ToSet(t) = ToSet(s) \cup {e}
    <2>1. ASSUME NEW i \in 1..Len(s) + 1 PROVE t[i] \in ToSet(s) \cup {e}
      <3>1. CASE i < k
        <4>1. i \in 1..Len(s) /\ t[i] = s[i] BY <3>1, <1>1, <1>5
        <4> QED BY <4>1, <1>1 DEF ToSet
      <3>2. CASE i = k BY <3>2, <1>6
      <3>3. CASE i > k
        <4>1. i - 1 \in 1..Len(s) /\ t[i] = s[i - 1] BY <3>3, <1>1, <1>7
        <4> QED BY <4>1, <1>1 DEF ToSet
      <3> QED BY <3>1, <3>2, <3>3, <1>1
    <2>2. ASSUME NEW i \in 1..Len(s) PROVE s[i] \in ToSet(t)
      <3>1. CASE i < k
        <4>1. i \in DOMAIN t /\ t[i] = s[i] BY <3>1, <1>1, <1>4, <1>5
        <4> QED BY <4>1 DEF ToSet
      <3>2. CASE i >= k
        <4>1. i + 1 \in DOMAIN t /\ t[i + 1] = s[i] BY <3>2, <1>1, <1>4, <1>7
        <4> QED BY <4>1 DEF ToSet
      <3> QED BY <3>1, <3>2, <1>1
    <2>3. e \in ToSet(t)
      <3>1. k \in DOMAIN t BY <1>1, <1>4
      <3> QED BY <3>1, <1>6 DEF ToSet
    <2> QED BY <2>1, <2>2, <2>3, <1>1, <1>4 DEF ToSet
  <1>10. IsInjective(t)
    <2> DEFINE back(i) == IF i < k THEN i ELSE i - 1
    <2>1. \A i \in 1..Len(s) : s[i] # e
      BY <1>1 DEF ToSet
    <2>2. \A i \in DOMAIN t : i # k => back(i) \in 1..Len(s) /\ t[i] = s[back(i)]
      BY <1>1, <1>4, <1>5, <1>7
    <2>3. \A i, j \in DOMAIN t : i # k /\ j # k /\ back(i) = back(j) => i = j
      BY <1>1, <1>4
    <2> HIDE DEF back
    <2> SUFFICES ASSUME NEW i \in DOMAIN t, NEW j \in DOMAIN t, t[i] = t[j]
                 PROVE  i = j
      BY DEF IsInjective
    <2>4. CASE i = k \/ j = k
      BY <2>4, <2>1, <2>2, <1>6
    <2>5. CASE i # k /\ j # k
      <3>1. back(i) = back(j) BY <2>5, <2>2, <1>1 DEF IsInjective
      <3> QED BY <3>1, <2>5, <2>3
    <2> QED BY <2>4, <2>5
  <1>11. ASSUME NEW c, NEW d, Precedes(s, c, d) PROVE Precedes(t, c, d)
    <2> DEFINE fwd(i) == IF i < k THEN i ELSE i + 1
    <2>1. PICK i, j \in DOMAIN s : i < j /\ s[i] = c /\ s[j] = d
      BY <1>11 DEF Precedes
    <2>2. fwd(i) \in DOMAIN t /\ fwd(j) \in DOMAIN t /\ fwd(i) < fwd(j)
      BY <2>1, <1>1, <1>4
    <2>3. t[fwd(i)] = s[i] /\ t[fwd(j)] = s[j]
      BY <2>1, <1>1, <1>4, <1>5, <1>7
    <2> QED BY <2>1, <2>2, <2>3 DEF Precedes
  <1> QED BY <1>4, <1>8, <1>9, <1>10, <1>11

\* Removing takes out the one element at its place and keeps the order of the
\* others.
LEMMA RemoveFacts ==
    ASSUME NEW S, NEW s \in Seq(S), IsInjective(s), NEW k \in DOMAIN s
    PROVE  /\ RemoveAt(s, k) \in Seq(S)
           /\ ToSet(RemoveAt(s, k)) = ToSet(s) \ {s[k]}
           /\ IsInjective(RemoveAt(s, k))
           /\ \A c, d : Precedes(s, c, d) /\ s[k] \notin {c, d} => Precedes(RemoveAt(s, k), c, d)
  <1> DEFINE a == SubSeq(s, 1, k - 1)
             b == SubSeq(s, k + 1, Len(s))
             t == a \o b
             fwd(i) == IF i < k THEN i ELSE i + 1
  <1>1. Len(s) \in Nat /\ DOMAIN s = 1..Len(s) /\ k \in 1..Len(s)
    OBVIOUS
  <1>2. /\ a \in Seq(S) /\ Len(a) = k - 1
        /\ \A i \in 1..k - 1 : a[i] = s[i]
    BY <1>1
  <1>3. /\ b \in Seq(S) /\ Len(b) = Len(s) - k
        /\ \A i \in 1..Len(s) - k : b[i] = s[i + k]
    BY <1>1
  <1> HIDE DEF a, b
  <1>8. RemoveAt(s, k) = t
    BY DEF RemoveAt, a, b
  <1>a. /\ t \in Seq(S) /\ Len(t) = Len(s) - 1
        /\ \A i \in 1..Len(s) - 1 : t[i] = IF i <= k - 1 THEN a[i] ELSE b[i - (k - 1)]
    <2>1. /\ t \in Seq(S) /\ Len(t) = Len(a) + Len(b)
          /\ \A i \in 1..Len(a) + Len(b) : t[i] = IF i <= Len(a) THEN a[i] ELSE b[i - Len(a)]
      BY <1>2, <1>3, ConcatProperties
    <2>2. Len(a) = k - 1 /\ Len(a) + Len(b) = Len(s) - 1
      BY <1>1, <1>2, <1>3
    <2> HIDE DEF t
    <2> QED BY <2>1, <2>2
  <1> HIDE DEF t
  <1>4. t \in Seq(S) /\ Len(t) = Len(s) - 1 /\ DOMAIN t = 1..Len(s) - 1
    BY <1>1, <1>a
  <1>5. \A i \in DOMAIN t : /\ fwd(i) \in 1..Len(s) /\ fwd(i) # k
                            /\ t[i] = s[fwd(i)]
    <2> SUFFICES ASSUME NEW i \in DOMAIN t
                 PROVE  /\ fwd(i) \in 1..Len(s) /\ fwd(i) # k
                        /\ t[i] = s[fwd(i)]
      OBVIOUS
    <2>1. CASE i < k
      <3>1. i \in 1..k - 1 /\ t[i] = a[i] BY <2>1, <1>1, <1>4, <1>a
      <3> QED BY <3>1, <2>1, <1>1, <1>2
    <2>2. CASE i >= k
      <3>1. i - (k - 1) \in 1..Len(s) - k /\ t[i] = b[i - (k - 1)]
        BY <2>2, <1>1, <1>4, <1>a
      <3>2. b[i - (k - 1)] = s[i + 1]
        BY <3>1, <1>1, <1>3, <1>4
      <3> QED BY <3>1, <3>2, <2>2, <1>1, <1>4
    <2> QED BY <2>1, <2>2, <1>1, <1>4
  <1>6. \A i, j \in DOMAIN t : fwd(i) = fwd(j) => i = j
    BY <1>1, <1>4
  <1>7. \A j \in 1..Len(s) : j # k => \E i \in DOMAIN t : fwd(i) = j
    <2> SUFFICES ASSUME NEW j \in 1..Len(s), j # k
                 PROVE  \E i \in DOMAIN t : fwd(i) = j
      OBVIOUS
    <2>1. CASE j < k
      <3>1. j \in DOMAIN t /\ fwd(j) = j BY <2>1, <1>1, <1>4
      <3> QED BY <3>1
    <2>2. CASE j > k
      <3>1. j - 1 \in DOMAIN t /\ fwd(j - 1) = j BY <2>2, <1>1, <1>4
      <3> QED BY <3>1
    <2> QED BY <2>1, <2>2, <1>1
  <1> HIDE DEF fwd
  <1>9. IsInjective(t)
    BY <1>1, <1>5, <1>6 DEF IsInjective
  <1>10. ToSet(t) = ToSet(s) \ {s[k]}
    <2>1. ASSUME NEW i \in DOMAIN t PROVE t[i] \in ToSet(s) \ {s[k]}
      BY <1>1, <1>5 DEF ToSet, IsInjective
    <2>2. ASSUME NEW j \in 1..Len(s), s[j] # s[k] PROVE s[j] \in ToSet(t)
      <3>1. PICK i \in DOMAIN t : fwd(i) = j BY <2>2, <1>7
      <3> QED BY <3>1, <1>5 DEF ToSet
    <2> QED BY <2>1, <2>2, <1>1 DEF ToSet
  <1>11. ASSUME NEW c, NEW d, Precedes(s, c, d), s[k] \notin {c, d} PROVE Precedes(t, c, d)
    <2>1. PICK x, y \in DOMAIN s : x < y /\ s[x] = c /\ s[y] = d
      BY <1>11 DEF Precedes
    <2>2. PICK i \in DOMAIN t : fwd(i) = x BY <2>1, <1>11, <1>1, <1>7
    <2>3. PICK j \in DOMAIN t : fwd(j) = y BY <2>1, <1>11, <1>1, <1>7
    <2>4. i < j BY <2>1, <2>2, <2>3, <1>1, <1>4 DEF fwd
    <2> QED BY <2>1, <2>2, <2>3, <2>4, <1>5 DEF Precedes
  <1> QED BY <1>4, <1>8, <1>9, <1>10, <1>11

\* A set of numbers that has an element has a least one.
LEMMA LeastNumber ==
    ASSUME NEW T \in SUBSET Nat, T # {}
    PROVE  \E x \in T : \A y \in T : x <= y
  <1> DEFINE R == OpToRel(<, Nat)
  <1>1. IsWellFoundedOn(R, Nat)
    BY NatLessThanWellFounded
  <1>2. PICK x \in T : \A y \in T : ~(<<y, x>> \in R)
    BY <1>1, WFMin
  <1>3. \A y \in T : ~(y < x)
    BY <1>2 DEF OpToRel
  <1> QED BY <1>3

\* A set is put in the order of s in one way only.
LEMMA SortedUnique ==
    ASSUME NEW S, NEW s \in Seq(S), IsInjective(s),
           NEW p \in Seq(S), IsInjective(p), NEW q \in Seq(S), IsInjective(q),
           ToSet(p) = ToSet(q),
           \A i, j \in DOMAIN p : i < j => Precedes(s, p[i], p[j]),
           \A i, j \in DOMAIN q : i < j => Precedes(s, q[i], q[j]),
           NEW n \in DOMAIN q
    PROVE  p[n] = q[n]
  <1> DEFINE T == {k \in DOMAIN q : k \notin DOMAIN p \/ p[k] # q[k]}
  <1>1. /\ Len(p) \in Nat /\ DOMAIN p = 1..Len(p)
        /\ Len(q) \in Nat /\ DOMAIN q = 1..Len(q)
    OBVIOUS
  <1>2. \A c, d : Precedes(s, c, d) => ~Precedes(s, d, c)
    <2>1. DOMAIN s = 1..Len(s) /\ Len(s) \in Nat OBVIOUS
    <2> QED BY <2>1 DEF Precedes, IsInjective
  <1>3. ASSUME T # {} PROVE FALSE
    <2>1. T \in SUBSET Nat BY <1>1
    <2>2. PICK m \in T : \A k \in T : m <= k BY <2>1, <1>3, LeastNumber
    <2>3. \A k \in 1..m - 1 : k \in DOMAIN p /\ p[k] = q[k]
      BY <2>2, <1>1
    <2>4. PICK k \in DOMAIN p : p[k] = q[m]
      BY <2>2 DEF ToSet
    <2>5. k > m
      BY <2>2, <2>3, <2>4, <1>1 DEF IsInjective
    <2>6. m \in DOMAIN p
      BY <2>2, <2>5, <1>1
    <2>7. PICK l \in DOMAIN q : q[l] = p[m]
      BY <2>6 DEF ToSet
    <2>8. l > m
      BY <2>2, <2>3, <2>6, <2>7, <1>1 DEF IsInjective
    <2>9. Precedes(s, p[m], q[m]) /\ Precedes(s, q[m], p[m])
      BY <2>2, <2>4, <2>5, <2>6, <2>7, <2>8
    <2> QED BY <2>9, <1>2
  <1> QED BY <1>3

-----------------------------------------------------------------------------
(* Flattening.                                                             *)

\* The function FlattenSeq is defined by exists: the concatenations of the
\* sequences up to each place.
LEMMA FlattenDefined ==
    ASSUME NEW p, Len(p) \in Nat \ {0}
    PROVE  \E f : f = [i \in 1..Len(p) |-> IF i = 1 THEN p[i] ELSE f[i - 1] \o p[i]]
  <1> DEFINE A(n, f) == f = [i \in 1..n |-> IF i = 1 THEN p[i] ELSE f[i - 1] \o p[i]]
             T == {n \in Nat \ {0} : ~\E f : A(n, f)}
  <1>1. ASSUME T # {} PROVE FALSE
    <2>1. PICK n \in T : \A m \in T : n <= m
      BY <1>1, LeastNumber
    <2>2. CASE n = 1
      <3> DEFINE g == [i \in 1..1 |-> p[i]]
      <3>1. A(1, g)
        OBVIOUS
      <3> QED BY <3>1, <2>1, <2>2
    <2>3. CASE n # 1
      <3>1. n - 1 \in Nat \ {0} /\ n - 1 \notin T
        <4>1. n \in Nat \ {0} /\ n - 1 \in Nat \ {0} /\ ~(n <= n - 1)
          BY <2>3
        <4> HIDE DEF T
        <4> QED BY <2>1, <4>1
      <3>2. PICK f : A(n - 1, f)
        <4> HIDE DEF A
        <4> QED BY <3>1
      <3> DEFINE g == [i \in 1..n |-> IF i = n THEN f[n - 1] \o p[n] ELSE f[i]]
      <3>3. \A i \in 1..n : g[i] = IF i = 1 THEN p[i] ELSE g[i - 1] \o p[i]
        <4> SUFFICES ASSUME NEW i \in 1..n
                     PROVE  g[i] = IF i = 1 THEN p[i] ELSE g[i - 1] \o p[i]
          OBVIOUS
        <4>1. CASE i = n
          <5>1. g[i] = f[n - 1] \o p[n]
            BY <4>1
          <5>2. n - 1 \in 1..n /\ n - 1 # n /\ i # 1
            BY <2>3, <3>1, <4>1
          <5>3. g[n - 1] = f[n - 1]
            BY <5>2
          <5> QED BY <4>1, <5>1, <5>2, <5>3
        <4>2. CASE i # n
          <5>1. i \in 1..(n - 1) /\ g[i] = f[i]
            BY <4>2
          <5>2. f[i] = IF i = 1 THEN p[i] ELSE f[i - 1] \o p[i]
            BY <5>1, <3>2
          <5>3. i # 1 => g[i - 1] = f[i - 1]
            BY <4>2
          <5> QED BY <5>1, <5>2, <5>3
        <4> QED BY <4>1, <4>2
      <3>4. A(n, g)
        BY <3>3
      <3> QED BY <3>4, <2>1
    <2> QED BY <2>2, <2>3
  <1>2. Len(p) \notin T
    BY <1>1
  <1> QED BY <1>2

\* So it is that function.
LEMMA FlattenUnfolds ==
    ASSUME NEW p, Len(p) \in Nat \ {0}
    PROVE  \E f : /\ f = [i \in 1..Len(p) |-> IF i = 1 THEN p[i] ELSE f[i - 1] \o p[i]]
                  /\ FlattenSeq(p) = f[Len(p)]
  <1> DEFINE g == CHOOSE f : f = [i \in 1..Len(p) |-> IF i = 1 THEN p[i] ELSE f[i - 1] \o p[i]]
  <1>1. g = [i \in 1..Len(p) |-> IF i = 1 THEN p[i] ELSE g[i - 1] \o p[i]]
    BY FlattenDefined
  <1>2. FlattenSeq(p) = g[Len(p)]
    BY DEF FlattenSeq
  <1> HIDE DEF g
  <1> QED BY <1>1, <1>2

\* Induction, as a fact about sets of numbers.
LEMMA SetInduction ==
    ASSUME NEW T, 0 \in T, \A n \in Nat : n \in T => n + 1 \in T
    PROVE  Nat \subseteq T
  <1> DEFINE U == Nat \ T
  <1>1. ASSUME U # {} PROVE FALSE
    <2>1. PICK n \in U : \A m \in U : n <= m
      BY <1>1, LeastNumber
    <2>2. n \in Nat /\ n # 0
      BY <2>1
    <2>3. n - 1 \in Nat /\ ~(n <= n - 1)
      BY <2>2
    <2>4. n - 1 \in T
      BY <2>1, <2>3
    <2>5. (n - 1) + 1 \in T
      BY <2>3, <2>4
    <2>6. n \in T
      BY <2>2, <2>5
    <2> QED BY <2>6
  <1> QED BY <1>1

\* Concatenation, place by place.
LEMMA ConcatFacts ==
    ASSUME NEW S, NEW a \in Seq(S), NEW b \in Seq(S)
    PROVE  /\ a \o b \in Seq(S)
           /\ Len(a \o b) = Len(a) + Len(b) /\ Len(a) \in Nat /\ Len(b) \in Nat
           /\ \A m \in 1..Len(a) : (a \o b)[m] = a[m]
           /\ \A k \in 1..Len(b) : (a \o b)[Len(a) + k] = b[k]
  OBVIOUS

\* The sequences of p are laid end to end, the i-th one up to place off[i]: its
\* k-th element is k places after the end of the one before, and every place is
\* such a place.
LaidOut(S, p, off) ==
    /\ off \in [0..Len(p) -> Nat]
    /\ FlattenSeq(p) \in Seq(S)
    /\ Len(FlattenSeq(p)) = off[Len(p)]
    /\ \A i, j \in 0..Len(p) : i <= j => off[i] <= off[j]
    /\ \A i \in 1..Len(p) : \A k \in 1..Len(p[i]) :
          /\ off[i - 1] + k <= off[i]
          /\ FlattenSeq(p)[off[i - 1] + k] = p[i][k]
    /\ \A m \in 1..Len(FlattenSeq(p)) :
          \E i \in 1..Len(p) : \E k \in 1..Len(p[i]) : m = off[i - 1] + k

\* Flattening lays the sequences end to end.
LEMMA FlattenFacts ==
    ASSUME NEW S, NEW p \in Seq(Seq(S))
    PROVE  \E off : LaidOut(S, p, off)
  <1> DEFINE N == Len(p)
  <1>0. N \in Nat /\ \A i \in 1..N : p[i] \in Seq(S) /\ Len(p[i]) \in Nat
    OBVIOUS
  <1>1. CASE N = 0
    <2>1. FlattenSeq(p) = p /\ p = <<>>
      BY <1>1 DEF FlattenSeq
    <2> DEFINE z == [i \in 0..0 |-> 0]
    <2>2. z \in [0..Len(p) -> Nat] /\ z[Len(p)] = 0 /\ \A i, j \in 0..Len(p) : z[i] <= z[j]
      BY <1>1
    <2>3. Len(FlattenSeq(p)) = 0 /\ 1..0 = {} /\ FlattenSeq(p) \in Seq(S)
      BY <2>1
    <2> HIDE DEF z
    <2>4. LaidOut(S, p, z)
      BY <1>1, <2>2, <2>3 DEF LaidOut
    <2> QED BY <2>4
  <1>2. CASE N # 0
    <2>1. N \in Nat \ {0}
      BY <1>0, <1>2
    <2>2. PICK f : /\ f = [i \in 1..N |-> IF i = 1 THEN p[i] ELSE f[i - 1] \o p[i]]
                   /\ FlattenSeq(p) = f[N]
      BY <2>1, FlattenUnfolds
    <2> HIDE DEF N
    <2>3. f[1] = p[1] /\ \A i \in 1..N : i # 1 => f[i] = f[i - 1] \o p[i]
      <3>1. \A i \in 1..N : f[i] = IF i = 1 THEN p[i] ELSE f[i - 1] \o p[i]
        BY <2>2, Zenon
      <3>2. 1 \in 1..N
        BY <2>1
      <3> QED BY <3>1, <3>2, Zenon
    <2>4. \A n \in 1..N : f[n] \in Seq(S)
      <3> DEFINE T == {n \in Nat : n \in 1..N => f[n] \in Seq(S)}
      <3>1. 0 \in T
        BY <1>0
      <3>2. ASSUME NEW n \in Nat, n \in T PROVE n + 1 \in T
        <4>1. CASE n + 1 \notin 1..N
          BY <4>1
        <4>2. CASE n + 1 = 1
          BY <4>2, <2>1, <2>3, <1>0
        <4>3. CASE n + 1 \in 1..N /\ n + 1 # 1
          <5>1. n \in 1..N /\ f[n] \in Seq(S)
            BY <4>3, <3>2, <1>0
          <5>2. (n + 1) - 1 = n
            OBVIOUS
          <5>3. f[n + 1] = f[n] \o p[n + 1]
            BY <4>3, <5>2, <2>3, Zenon
          <5>4. p[n + 1] \in Seq(S)
            BY <4>3, <1>0
          <5>5. f[n] \o p[n + 1] \in Seq(S)
            BY <5>1, <5>4, ConcatFacts, Zenon
          <5>6. f[n + 1] \in Seq(S)
            BY <5>3, <5>5, Zenon
          <5> QED BY <5>6
        <4> QED BY <4>1, <4>2, <4>3
      <3>3. Nat \subseteq T
        BY <3>1, <3>2, SetInduction
      <3> QED BY <3>3
    <2> DEFINE off == [i \in 0..N |-> IF i = 0 THEN 0 ELSE Len(f[i])]
    <2>5. off \in [0..N -> Nat]
      BY <2>4, <1>0
    <2>6. \A i \in 1..N : off[i] = off[i - 1] + Len(p[i]) /\ off[i] = Len(f[i]) /\ i - 1 \in 0..N
      <3> SUFFICES ASSUME NEW i \in 1..N
                   PROVE  /\ off[i] = off[i - 1] + Len(p[i]) /\ off[i] = Len(f[i])
                          /\ i - 1 \in 0..N
        OBVIOUS
      <3>1. CASE i = 1
        BY <3>1, <2>1, <2>3, <1>0
      <3>2. CASE i # 1
        <4>1. i - 1 \in 1..N /\ i - 1 \in 0..N /\ i - 1 # 0 /\ i # 0 /\ i \in 0..N
          BY <3>2, <1>0
        <4>2. f[i - 1] \in Seq(S) /\ p[i] \in Seq(S)
          BY <4>1, <2>4, <1>0
        <4>3. Len(f[i]) = Len(f[i - 1]) + Len(p[i])
          <5>1. f[i] = f[i - 1] \o p[i]
            BY <3>2, <2>3, Zenon
          <5>2. Len(f[i - 1] \o p[i]) = Len(f[i - 1]) + Len(p[i])
            <6> DEFINE a == f[i - 1]
                       b == p[i]
            <6>1. a \in Seq(S) /\ b \in Seq(S)
              BY <4>2
            <6> HIDE DEF a, b
            <6>2. Len(a \o b) = Len(a) + Len(b)
              BY <6>1, ConcatFacts
            <6> QED BY <6>2 DEF a, b
          <5> QED BY <5>1, <5>2, Zenon
        <4> QED BY <4>1, <4>3
      <3> QED BY <3>1, <3>2
    <2>7. off[0] = 0
      BY <1>0
    <2> HIDE DEF off
    <2> DEFINE Up(n) == \A i \in 0..n : off[i] <= off[n]
               In(n) == \A i \in 1..n : \A k \in 1..Len(p[i]) :
                           /\ off[i - 1] + k <= off[n]
                           /\ f[n][off[i - 1] + k] = p[i][k]
               On(n) == \A m \in 1..off[n] :
                           \E i \in 1..n : \E k \in 1..Len(p[i]) : m = off[i - 1] + k
               T == {n \in Nat : n \in 0..N => Up(n) /\ In(n) /\ On(n)}
    <2>8. 0 \in T
      BY <2>5, <2>7
    <2>9. ASSUME NEW n \in Nat, n \in T PROVE n + 1 \in T
      <3> SUFFICES ASSUME n + 1 \in 0..N PROVE Up(n + 1) /\ In(n + 1) /\ On(n + 1)
        OBVIOUS
      <3>1. n \in 0..N /\ n + 1 \in 1..N /\ (n + 1) - 1 = n
        BY <1>0
      <3>2. Up(n) /\ In(n) /\ On(n)
        BY <3>1, <2>9
      <3>3. off[n] \in Nat /\ off[n + 1] = off[n] + Len(p[n + 1]) /\ Len(p[n + 1]) \in Nat
        BY <3>1, <2>5, <2>6, <1>0
      <3>4. Up(n + 1)
        <4> SUFFICES ASSUME NEW i \in 0..(n + 1) PROVE off[i] <= off[n + 1]
          OBVIOUS
        <4>1. off[i] \in Nat
          BY <3>1, <2>5, <1>0
        <4>2. CASE i = n + 1
          BY <4>2, <4>1
        <4>3. CASE i # n + 1
          <5>1. i \in 0..n
            BY <4>3
          <5>2. off[i] <= off[n]
            BY <5>1, <3>2
          <5> QED BY <5>2, <4>1, <3>3
        <4> QED BY <4>2, <4>3
      <3>5. /\ \A m \in 1..off[n] : f[n + 1][m] = f[n][m]
            /\ \A k \in 1..Len(p[n + 1]) : f[n + 1][off[n] + k] = p[n + 1][k]
        <4>1. CASE n = 0
          <5>1. off[n] = 0 /\ f[n + 1] = p[n + 1]
            BY <4>1, <2>3, <2>7
          <5> QED BY <5>1, <1>0, <3>1
        <4>2. CASE n # 0
          <5>1. n \in 1..N /\ f[n] \in Seq(S) /\ off[n] = Len(f[n])
            BY <4>2, <3>1, <2>4, <2>6
          <5>2. n + 1 # 1
            BY <4>2
          <5>3. f[n + 1] = f[n] \o p[n + 1] /\ p[n + 1] \in Seq(S)
            BY <5>2, <3>1, <2>3, <1>0, Zenon
          <5>4. /\ \A m \in 1..Len(f[n]) : (f[n] \o p[n + 1])[m] = f[n][m]
                /\ \A k \in 1..Len(p[n + 1]) : (f[n] \o p[n + 1])[Len(f[n]) + k] = p[n + 1][k]
            <6> DEFINE a == f[n]
                       b == p[n + 1]
            <6>1. a \in Seq(S) /\ b \in Seq(S)
              BY <5>1, <5>3
            <6> HIDE DEF a, b
            <6>2. /\ \A m \in 1..Len(a) : (a \o b)[m] = a[m]
                  /\ \A k \in 1..Len(b) : (a \o b)[Len(a) + k] = b[k]
              BY <6>1, ConcatFacts
            <6> QED BY <6>2, Zenon DEF a, b
          <5> QED BY <5>1, <5>3, <5>4, Zenon
        <4> QED BY <4>1, <4>2
      <3>6. In(n + 1)
        <4> SUFFICES ASSUME NEW i \in 1..(n + 1), NEW k \in 1..Len(p[i])
                     PROVE  /\ off[i - 1] + k <= off[n + 1]
                            /\ f[n + 1][off[i - 1] + k] = p[i][k]
          OBVIOUS
        <4>1. i \in 1..N /\ Len(p[i]) \in Nat /\ off[i - 1] \in Nat
          BY <3>1, <2>5, <2>6, <1>0
        <4>2. CASE i = n + 1
          <5>1. i - 1 = n
            BY <4>2, <3>1
          <5> QED BY <5>1, <4>1, <4>2, <3>3, <3>5
        <4>3. CASE i # n + 1
          <5>1. i \in 1..n
            BY <4>3
          <5>2. off[i - 1] + k <= off[n] /\ f[n][off[i - 1] + k] = p[i][k]
            BY <5>1, <3>2
          <5>3. off[i - 1] + k \in 1..off[n]
            <6> HIDE DEF Up, In, On, T
            <6> DEFINE x == off[i - 1]
                       y == off[n]
            <6>1. k \in Nat /\ k >= 1 /\ x \in Nat /\ y \in Nat /\ x + k <= y
              BY <4>1, <5>2, <3>3
            <6> HIDE DEF x, y
            <6>2. x + k \in 1..y
              BY <6>1
            <6> QED BY <6>2 DEF x, y
          <5>4. f[n + 1][off[i - 1] + k] = f[n][off[i - 1] + k]
            BY <5>3, <3>5
          <5> QED BY <5>2, <5>4, <4>1, <3>3
        <4> QED BY <4>2, <4>3
      <3>7. On(n + 1)
        <4> SUFFICES ASSUME NEW m \in 1..off[n + 1]
                     PROVE  \E i \in 1..(n + 1) : \E k \in 1..Len(p[i]) : m = off[i - 1] + k
          OBVIOUS
        <4>1. CASE m \in 1..off[n]
          <5>1. PICK i \in 1..n : \E k \in 1..Len(p[i]) : m = off[i - 1] + k
            BY <4>1, <3>2
          <5>2. i \in 1..(n + 1)
            OBVIOUS
          <5> QED BY <5>1, <5>2
        <4>2. CASE m \notin 1..off[n]
          <5>1. m - off[n] \in 1..Len(p[n + 1]) /\ m = off[n] + (m - off[n])
            BY <4>2, <3>3
          <5>2. n + 1 \in 1..(n + 1)
            OBVIOUS
          <5>3. \E k \in 1..Len(p[n + 1]) : m = off[(n + 1) - 1] + k
            BY <5>1, <3>1
          <5> QED BY <5>2, <5>3
        <4> QED BY <4>1, <4>2
      <3> QED BY <3>4, <3>6, <3>7
    <2>10. Nat \subseteq T
      <3> HIDE DEF T
      <3> QED BY <2>8, <2>9, SetInduction
    <2>11. \A n \in 0..N : Up(n) /\ In(n) /\ On(n)
      BY <2>10
    <2>12. FlattenSeq(p) \in Seq(S) /\ Len(FlattenSeq(p)) = off[N]
      <3>1. N \in 1..N
        BY <2>1
      <3> QED BY <3>1, <2>2, <2>4, <2>6, Zenon
    <2>13. \A i, j \in 0..N : i <= j => off[i] <= off[j]
      BY <2>11
    <2>14. ASSUME NEW i \in 1..N, NEW k \in 1..Len(p[i])
           PROVE  off[i - 1] + k <= off[i] /\ FlattenSeq(p)[off[i - 1] + k] = p[i][k]
      <3>1. i \in 0..N /\ i \in 1..i /\ N \in 0..N
        BY <1>0
      <3>2. off[i - 1] + k <= off[i]
        BY <3>1, <2>11
      <3>3. f[N][off[i - 1] + k] = p[i][k]
        BY <3>1, <2>11
      <3> QED BY <3>2, <3>3, <2>2
    <2>15. \A m \in 1..Len(FlattenSeq(p)) :
              \E i \in 1..N : \E k \in 1..Len(p[i]) : m = off[i - 1] + k
      <3>1. N \in 0..N
        BY <2>1
      <3>2. On(N)
        BY <3>1, <2>11
      <3> QED BY <3>2, <2>12, Zenon
    <2>16. LaidOut(S, p, off)
      BY <2>5, <2>12, <2>13, <2>14, <2>15 DEF N, LaidOut
    <2> QED BY <2>16
  <1> QED BY <1>1, <1>2

=============================================================================
