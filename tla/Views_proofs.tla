----------------------------- MODULE Views_proofs -----------------------------
(***************************************************************************)
(* Theorems about what shows something: the tabs, the terminal, the AI panel, *)
(* the editor, the monitors, the VNC panel and the panels of records, for any *)
(* sessions, files, panels and bounds.  Each part has its inductive invariant, *)
(* named after it (WindowIInv, TermIInv, ...).                                *)
(***************************************************************************)
EXTENDS Views, SequenceTheorems, TLAPS

(* Sequences *)

\* What is in a sequence, and whether it is there once only.
Elements(s) == {s[i] : i \in DOMAIN s}
Distinct(s) == \A i, j \in DOMAIN s : s[i] = s[j] => i = j

\* A queue that grows by one at its end.
LEMMA AppendElements ==
    ASSUME NEW S, NEW s \in Seq(S), NEW e \in S
    PROVE  /\ Append(s, e) \in Seq(S) /\ Len(Append(s, e)) = Len(s) + 1 /\ Len(s) \in Nat
           /\ DOMAIN s = 1..Len(s) /\ DOMAIN Append(s, e) = 1..(Len(s) + 1)
           /\ \A i \in 1..Len(s) : Append(s, e)[i] = s[i]
           /\ Append(s, e)[Len(s) + 1] = e
           /\ Elements(Append(s, e)) = Elements(s) \cup {e}
           /\ Distinct(s) /\ e \notin Elements(s) => Distinct(Append(s, e))
<1>1. /\ Append(s, e) \in Seq(S) /\ Len(Append(s, e)) = Len(s) + 1
      /\ \A i \in 1..Len(s) : Append(s, e)[i] = s[i]
      /\ Append(s, e)[Len(s) + 1] = e
  BY AppendProperties
<1>2. Len(s) \in Nat /\ DOMAIN s = 1..Len(s) /\ DOMAIN Append(s, e) = 1..(Len(s) + 1)
  BY <1>1, LenProperties
<1> DEFINE t == Append(s, e)
<1> HIDE DEF t
<1>3. Elements(t) = Elements(s) \cup {e}
  <2>1. \A i \in DOMAIN t : t[i] \in Elements(s) \cup {e}
    BY <1>1, <1>2 DEF t, Elements
  <2>2. \A i \in DOMAIN s : s[i] \in Elements(t)
    BY <1>1, <1>2 DEF t, Elements
  <2>3. e \in Elements(t)
    BY <1>1, <1>2 DEF t, Elements
  <2> QED
    BY <2>1, <2>2, <2>3 DEF Elements
<1>4. Distinct(s) /\ e \notin Elements(s) => Distinct(t)
  BY <1>1, <1>2 DEF t, Elements, Distinct
<1> QED
  BY <1>1, <1>2, <1>3, <1>4 DEF t

\* A queue whose first entry is taken.
LEMMA TailElements ==
    ASSUME NEW S, NEW s \in Seq(S), s # <<>>
    PROVE  /\ Head(s) \in S /\ Head(s) = s[1] /\ Tail(s) \in Seq(S)
           /\ Len(s) \in Nat \ {0} /\ DOMAIN s = 1..Len(s) /\ DOMAIN Tail(s) = 1..(Len(s) - 1)
           /\ \A i \in 1..(Len(s) - 1) : Tail(s)[i] = s[i + 1]
           /\ Elements(s) = {Head(s)} \cup Elements(Tail(s))
<1>1. /\ Head(s) \in S /\ Head(s) = s[1] /\ Tail(s) \in Seq(S)
      /\ Len(Tail(s)) = Len(s) - 1 /\ \A i \in 1..Len(Tail(s)) : Tail(s)[i] = s[i + 1]
  BY HeadTailProperties
<1>2. /\ Len(s) \in Nat \ {0} /\ DOMAIN s = 1..Len(s) /\ DOMAIN Tail(s) = 1..(Len(s) - 1)
  BY <1>1, LenProperties, EmptySeq
<1>3. Elements(s) = {Head(s)} \cup Elements(Tail(s))
  <2>1. \A i \in DOMAIN s : s[i] \in {Head(s)} \cup Elements(Tail(s))
    <3> SUFFICES ASSUME NEW i \in DOMAIN s, i # 1 PROVE s[i] \in Elements(Tail(s))
      BY <1>1
    <3>1. i - 1 \in DOMAIN Tail(s) /\ Tail(s)[i - 1] = s[i]
      BY <1>1, <1>2
    <3> QED
      BY <3>1 DEF Elements
  <2>2. \A i \in DOMAIN Tail(s) : Tail(s)[i] \in Elements(s)
    <3> SUFFICES ASSUME NEW i \in DOMAIN Tail(s) PROVE Tail(s)[i] \in Elements(s)
      OBVIOUS
    <3>1. i + 1 \in DOMAIN s /\ Tail(s)[i] = s[i + 1]
      BY <1>1, <1>2
    <3> QED
      BY <3>1 DEF Elements
  <2>3. Head(s) \in Elements(s)
    BY <1>1, <1>2 DEF Elements
  <2> QED
    BY <2>1, <2>2, <2>3 DEF Elements
<1> QED
  BY <1>1, <1>2, <1>3
\* Two sequences, one after the other.
LEMMA ConcatElements ==
    ASSUME NEW S, NEW s \in Seq(S), NEW t \in Seq(S)
    PROVE  /\ s \o t \in Seq(S) /\ Elements(s \o t) = Elements(s) \cup Elements(t)
           /\ Len(s) \in Nat /\ Len(t) \in Nat /\ Len(s \o t) = Len(s) + Len(t)
           /\ DOMAIN s = 1..Len(s) /\ DOMAIN t = 1..Len(t) /\ DOMAIN (s \o t) = 1..(Len(s) + Len(t))
           /\ \A i \in 1..(Len(s) + Len(t)) :
                (s \o t)[i] = IF i <= Len(s) THEN s[i] ELSE t[i - Len(s)]
<1> DEFINE m == Len(s)
           n == Len(t)
           u == s \o t
<1>1. /\ u \in Seq(S) /\ Len(u) = m + n
      /\ \A i \in 1..(m + n) : u[i] = IF i <= m THEN s[i] ELSE t[i - m]
  BY ConcatProperties
<1>2. m \in Nat /\ n \in Nat /\ DOMAIN s = 1..m /\ DOMAIN t = 1..n
  BY LenProperties
<1>3. DOMAIN u = 1..(m + n)
  BY ONLY <1>1, LenProperties
<1> HIDE DEF m, n, u
<1>4. \A i \in DOMAIN u : u[i] \in Elements(s) \cup Elements(t)
  <2> SUFFICES ASSUME NEW i \in 1..(m + n) PROVE u[i] \in Elements(s) \cup Elements(t)
    BY <1>3
  <2>1. CASE i <= m
    <3>1. i \in DOMAIN s /\ u[i] = s[i]
      BY <1>1, <1>2, <2>1
    <3> QED
      BY <3>1 DEF Elements
  <2>2. CASE ~(i <= m)
    <3>1. i - m \in DOMAIN t /\ u[i] = t[i - m]
      BY <1>1, <1>2, <2>2
    <3> QED
      BY <3>1 DEF Elements
  <2> QED
    BY <2>1, <2>2
<1>5. \A i \in DOMAIN s : s[i] \in Elements(u)
  <2> SUFFICES ASSUME NEW i \in 1..m PROVE s[i] \in Elements(u)
    BY <1>2
  <2>1. i \in DOMAIN u /\ u[i] = s[i]
    BY <1>1, <1>2, <1>3
  <2> QED
    BY <2>1 DEF Elements
<1>6. \A i \in DOMAIN t : t[i] \in Elements(u)
  <2> SUFFICES ASSUME NEW i \in 1..n PROVE t[i] \in Elements(u)
    BY <1>2
  <2>1. m + i \in DOMAIN u /\ u[m + i] = t[i]
    BY <1>1, <1>2, <1>3
  <2> QED
    BY <2>1 DEF Elements
<1>7. Elements(u) = Elements(s) \cup Elements(t)
  BY <1>4, <1>5, <1>6 DEF Elements
<1> QED
  BY <1>1, <1>2, <1>3, <1>7 DEF m, n, u

\* A sequence of numbers that rises.
Rising(s) == \A i, j \in DOMAIN s : i < j => s[i] < s[j]

\* Two that rise, of which the second lies above the first.
LEMMA ConcatRises ==
    ASSUME NEW s \in Seq(Nat), NEW t \in Seq(Nat), Rising(s), Rising(t),
           \A a \in Elements(s), b \in Elements(t) : a < b
    PROVE  Rising(s \o t)
<1> DEFINE m == Len(s)
           n == Len(t)
           u == s \o t
<1>1. /\ m \in Nat /\ n \in Nat /\ DOMAIN s = 1..m /\ DOMAIN t = 1..n /\ DOMAIN u = 1..(m + n)
      /\ \A i \in 1..(m + n) : u[i] = IF i <= m THEN s[i] ELSE t[i - m]
  BY ConcatElements
<1> HIDE DEF m, n, u
<1> SUFFICES ASSUME NEW i \in 1..(m + n), NEW j \in 1..(m + n), i < j PROVE u[i] < u[j]
  BY <1>1 DEF Rising, u
<1>2. CASE j <= m
  <2>1. i \in 1..m /\ j \in 1..m /\ u[i] = s[i] /\ u[j] = s[j]
    BY <1>1, <1>2
  <2> QED
    BY <1>1, <2>1 DEF Rising
<1>3. CASE i <= m /\ ~(j <= m)
  <2>1. i \in 1..m /\ j - m \in 1..n /\ u[i] = s[i] /\ u[j] = t[j - m]
    BY <1>1, <1>3
  <2> QED
    BY <1>1, <2>1 DEF Elements
<1>4. CASE ~(i <= m)
  <2>1. i - m \in 1..n /\ j - m \in 1..n /\ i - m < j - m /\ u[i] = t[i - m] /\ u[j] = t[j - m]
    BY <1>1, <1>4
  <2> QED
    BY <1>1, <2>1 DEF Rising
<1>5. j <= m \/ (i <= m /\ ~(j <= m)) \/ ~(i <= m)
  BY <1>1
<1> QED
  BY <1>2, <1>3, <1>4, <1>5

\* One more, above them all.
LEMMA AppendRises ==
    ASSUME NEW s \in Seq(Nat), NEW e \in Nat, Rising(s), \A a \in Elements(s) : a < e
    PROVE  Rising(Append(s, e))
<1> DEFINE n == Len(s)
           u == Append(s, e)
<1>1. /\ n \in Nat /\ DOMAIN s = 1..n /\ DOMAIN u = 1..(n + 1)
      /\ (\A i \in 1..n : u[i] = s[i]) /\ u[n + 1] = e
  BY AppendElements
<1> HIDE DEF n, u
<1> SUFFICES ASSUME NEW i \in 1..(n + 1), NEW j \in 1..(n + 1), i < j PROVE u[i] < u[j]
  BY <1>1 DEF Rising, u
<1>2. CASE j = n + 1
  <2>1. i \in 1..n /\ u[i] = s[i] /\ u[j] = e
    BY <1>1, <1>2
  <2> QED
    BY <1>1, <2>1 DEF Elements
<1>3. CASE j # n + 1
  <2>1. i \in 1..n /\ j \in 1..n /\ u[i] = s[i] /\ u[j] = s[j]
    BY <1>1, <1>3
  <2> QED
    BY <1>1, <2>1 DEF Rising
<1> QED
  BY <1>2, <1>3

\* The last k of a sequence that rises: all others lie below them.
LEMMA EndRises ==
    ASSUME NEW S \in SUBSET Nat, NEW s \in Seq(S), Rising(s), NEW k \in 0..Len(s)
    PROVE  LET t == SubSeq(s, Len(s) - k + 1, Len(s))
           IN  /\ t \in Seq(S) /\ Len(t) = k /\ Rising(t) /\ Elements(t) \subseteq Elements(s)
               /\ \A a \in Elements(s) \ Elements(t), b \in Elements(t) : a < b
<1> DEFINE n == Len(s)
           t == SubSeq(s, n - k + 1, n)
<1>1. n \in Nat /\ DOMAIN s = 1..n /\ \A i \in 1..n : s[i] \in S
  BY LenProperties
<1>0. k \in 0..n
  OBVIOUS
<1> HIDE DEF n
<1>2. /\ t \in Seq(S) /\ Len(t) = k /\ \A i \in 1..k : t[i] = s[n - k + i]
  <2>1. \A i \in (n - k + 1)..n : s[i] \in S
    BY <1>0, <1>1
  <2>2. n - k + 1 \in Int /\ n \in Int
    BY <1>0, <1>1
  <2>3. /\ SubSeq(s, n - k + 1, n) \in Seq(S)
        /\ Len(SubSeq(s, n - k + 1, n)) = IF n - k + 1 <= n THEN n - (n - k + 1) + 1 ELSE 0
        /\ \A i \in 1..(n - (n - k + 1) + 1) : SubSeq(s, n - k + 1, n)[i] = s[(n - k + 1) + i - 1]
    BY ONLY <2>1, <2>2, SubSeqProperties
  <2>4. (IF n - k + 1 <= n THEN n - (n - k + 1) + 1 ELSE 0) = k /\ n - (n - k + 1) + 1 = k
    BY <1>0, <1>1
  <2>5. ASSUME NEW i \in 1..k PROVE t[i] = s[n - k + i]
    <3>1. (n - k + 1) + i - 1 = n - k + i
      BY <1>0, <1>1
    <3>2. i \in 1..(n - (n - k + 1) + 1)
      BY <2>4
    <3> QED
      BY <2>3, <3>1, <3>2
  <2> QED
    BY <2>3, <2>4, <2>5
<1>3. DOMAIN t = 1..k
  BY ONLY <1>2, LenProperties
<1> HIDE DEF t
<1>4. Rising(t)
  <2> SUFFICES ASSUME NEW i \in 1..k, NEW j \in 1..k, i < j PROVE t[i] < t[j]
    BY <1>3 DEF Rising
  <2>1. n - k + i \in 1..n /\ n - k + j \in 1..n /\ n - k + i < n - k + j
    BY <1>0, <1>1
  <2> QED
    BY <1>1, <1>2, <2>1 DEF Rising
<1>5. Elements(t) \subseteq Elements(s)
  <2> SUFFICES ASSUME NEW i \in 1..k PROVE t[i] \in Elements(s)
    BY <1>3 DEF Elements
  <2>1. n - k + i \in DOMAIN s /\ t[i] = s[n - k + i]
    BY <1>0, <1>1, <1>2
  <2> QED
    BY <2>1 DEF Elements
<1>6. ASSUME NEW a \in Elements(s) \ Elements(t), NEW b \in Elements(t) PROVE a < b
  <2>1. PICK i \in 1..n : a = s[i]
    BY <1>1 DEF Elements
  <2>2. PICK j \in 1..k : b = t[j]
    BY <1>3 DEF Elements
  <2>3. CASE i <= n - k
    <3>1. n - k + j \in 1..n /\ i < n - k + j
      BY <1>0, <1>1, <2>3
    <3> QED
      BY <1>1, <1>2, <2>1, <2>2, <3>1 DEF Rising
  <2>4. CASE ~(i <= n - k)
    <3>1. i - (n - k) \in 1..k /\ n - k + (i - (n - k)) = i
      BY <1>0, <1>1, <2>4
    <3>2. t[i - (n - k)] = a /\ i - (n - k) \in DOMAIN t
      BY <1>2, <1>3, <2>1, <3>1
    <3> QED
      BY <3>2 DEF Elements
  <2> QED
    BY <2>3, <2>4
<1> QED
  BY <1>2, <1>4, <1>5, <1>6 DEF n, t

-----------------------------------------------------------------------------
(* The tabs *)

\* Closing a tab takes its session from the list, and no other.
LEMMA WindowWithoutElements ==
    ASSUME NEW s \in Seq(Ids), Distinct(s), NEW e
    PROVE  /\ Window!Without(s, e) \in Seq(Ids) /\ Distinct(Window!Without(s, e))
           /\ Elements(Window!Without(s, e)) = Elements(s) \ {e}
<1> DEFINE at == {i \in DOMAIN s : s[i] = e}
           k == CHOOSE i \in at : TRUE
           n == Len(s)
<1>0. n \in Nat /\ DOMAIN s = 1..n /\ \A i \in 1..n : s[i] \in Ids
  BY LenProperties
<1> HIDE DEF n
<1>1. CASE at = {}
  BY <1>1 DEF Window!Without, Elements
<1>2. CASE at # {}
  <2>1. k \in 1..n /\ s[k] = e
    BY <1>0, <1>2
  <2>2. \A i \in 1..n : s[i] = e <=> i = k
    BY <1>0, <2>1 DEF Distinct
  <2> HIDE DEF k
  <2>3. /\ SubSeq(s, 1, k - 1) \in Seq(Ids) /\ Len(SubSeq(s, 1, k - 1)) = k - 1
        /\ \A i \in 1..(k - 1) : SubSeq(s, 1, k - 1)[i] = s[i]
    <3>1. \A i \in 1..(k - 1) : s[i] \in Ids
      BY <1>0, <2>1
    <3>2. /\ SubSeq(s, 1, k - 1) \in Seq(Ids)
          /\ Len(SubSeq(s, 1, k - 1)) = IF 1 <= k - 1 THEN k - 1 - 1 + 1 ELSE 0
          /\ \A i \in 1..(k - 1 - 1 + 1) : SubSeq(s, 1, k - 1)[i] = s[1 + i - 1]
      <4>1. k - 1 \in Int /\ 1 \in Int
        BY <1>0, <2>1
      <4> QED
        BY ONLY <3>1, <4>1, SubSeqProperties
    <3> QED
      BY <2>1, <3>2
  <2>4. /\ SubSeq(s, k + 1, n) \in Seq(Ids) /\ Len(SubSeq(s, k + 1, n)) = n - k
        /\ \A i \in 1..(n - k) : SubSeq(s, k + 1, n)[i] = s[i + k]
    <3>1. \A i \in (k + 1)..n : s[i] \in Ids
      BY <1>0, <2>1
    <3>2. /\ SubSeq(s, k + 1, n) \in Seq(Ids)
          /\ Len(SubSeq(s, k + 1, n)) = IF k + 1 <= n THEN n - (k + 1) + 1 ELSE 0
          /\ \A i \in 1..(n - (k + 1) + 1) : SubSeq(s, k + 1, n)[i] = s[(k + 1) + i - 1]
      <4>1. k + 1 \in Int /\ n \in Int
        BY <1>0, <2>1
      <4> QED
        BY ONLY <3>1, <4>1, SubSeqProperties
    <3>3. \A i \in 1..(n - k) : SubSeq(s, k + 1, n)[i] = s[i + k]
      <4> SUFFICES ASSUME NEW i \in 1..(n - k) PROVE SubSeq(s, k + 1, n)[i] = s[i + k]
        OBVIOUS
      <4>1. i \in 1..(n - (k + 1) + 1) /\ (k + 1) + i - 1 = i + k
        BY <1>0, <2>1
      <4> QED
        BY <3>2, <4>1
    <3>4. (IF k + 1 <= n THEN n - (k + 1) + 1 ELSE 0) = n - k
      BY <1>0, <2>1
    <3> QED
      BY <3>2, <3>3, <3>4
  <2> DEFINE w == SubSeq(s, 1, k - 1) \o SubSeq(s, k + 1, n)
  <2>5. /\ w \in Seq(Ids) /\ Len(w) = n - 1 /\ DOMAIN w = 1..(n - 1)
        /\ \A i \in 1..(n - 1) : w[i] = IF i < k THEN s[i] ELSE s[i + 1]
    <3> DEFINE a == SubSeq(s, 1, k - 1)
               b == SubSeq(s, k + 1, n)
    <3> HIDE DEF a, b
    <3>0. /\ a \in Seq(Ids) /\ Len(a) = k - 1 /\ \A i \in 1..(k - 1) : a[i] = s[i]
          /\ b \in Seq(Ids) /\ Len(b) = n - k /\ \A i \in 1..(n - k) : b[i] = s[i + k]
      BY <2>3, <2>4 DEF a, b
    <3>1. /\ a \o b \in Seq(Ids) /\ Len(a \o b) = Len(a) + Len(b)
          /\ \A i \in 1..(Len(a) + Len(b)) : (a \o b)[i] = IF i <= Len(a) THEN a[i] ELSE b[i - Len(a)]
      BY ONLY <3>0, ConcatProperties
    <3>4. Len(a) + Len(b) = n - 1
      BY <1>0, <2>1, <3>0
    <3>2. a \o b \in Seq(Ids) /\ Len(a \o b) = n - 1 /\ DOMAIN (a \o b) = 1..(n - 1)
      BY ONLY <3>1, <3>4, LenProperties
    <3>3. \A i \in 1..(n - 1) : (a \o b)[i] = IF i < k THEN s[i] ELSE s[i + 1]
      <4> SUFFICES ASSUME NEW i \in 1..(n - 1) PROVE (a \o b)[i] = IF i < k THEN s[i] ELSE s[i + 1]
        OBVIOUS
      <4>1. CASE i < k
        BY <1>0, <2>1, <3>0, <3>1, <3>4, <4>1
      <4>2. CASE ~(i < k)
        <5>1. /\ (a \o b)[i] = b[i - (k - 1)]
              /\ i - (k - 1) \in 1..(n - k) /\ i - (k - 1) + k = i + 1
          BY <1>0, <2>1, <3>0, <3>1, <3>4, <4>2
        <5> QED
          BY <3>0, <4>2, <5>1
      <4> QED
        BY <4>1, <4>2
    <3> QED
      BY <3>2, <3>3 DEF a, b
  <2>6. Window!Without(s, e) = w
    BY <1>2 DEF Window!Without, Window!RemoveAt, k, n
  <2> HIDE DEF w
  <2>7. Distinct(w)
    <3> SUFFICES ASSUME NEW i \in 1..(n - 1), NEW j \in 1..(n - 1), w[i] = w[j] PROVE i = j
      BY <2>5 DEF Distinct
    <3>1. \A x, y \in 1..n : s[x] = s[y] => x = y
      BY <1>0 DEF Distinct
    <3>2. i \in 1..n /\ i + 1 \in 1..n /\ j \in 1..n /\ j + 1 \in 1..n
      BY <1>0
    <3>3. w[i] = (IF i < k THEN s[i] ELSE s[i + 1]) /\ w[j] = IF j < k THEN s[j] ELSE s[j + 1]
      BY <2>5
    <3> DEFINE from(x) == IF x < k THEN x ELSE x + 1
    <3>4. from(i) \in 1..n /\ from(j) \in 1..n /\ s[from(i)] = s[from(j)]
      BY <2>1, <3>2, <3>3
    <3>5. from(i) = from(j)
      BY <3>1, <3>4
    <3> QED
      BY <1>0, <2>1, <3>5
  <2>8. Elements(w) = Elements(s) \ {e}
    <3>1. \A i \in DOMAIN w : w[i] \in Elements(s) \ {e}
      <4> SUFFICES ASSUME NEW i \in 1..(n - 1) PROVE w[i] \in Elements(s) \ {e}
        BY <2>5
      <4>1. i \in 1..n /\ i + 1 \in 1..n
        BY <1>0
      <4> QED
        <5>1. PICK j \in 1..n : w[i] = s[j] /\ j # k
          BY <1>0, <2>1, <2>5, <4>1
        <5> QED
          BY <1>0, <2>2, <5>1 DEF Elements
    <3>2. \A i \in 1..n : i # k => s[i] \in Elements(w)
      <4> SUFFICES ASSUME NEW i \in 1..n, i # k PROVE s[i] \in Elements(w)
        OBVIOUS
      <4>1. CASE i < k
        <5>1. i \in DOMAIN w /\ w[i] = s[i]
          BY <1>0, <2>1, <2>5, <4>1
        <5> QED
          BY <5>1 DEF Elements
      <4>2. CASE i > k
        <5>1. i - 1 \in DOMAIN w /\ w[i - 1] = s[i]
          BY <1>0, <2>1, <2>5, <4>2
        <5> QED
          BY <5>1 DEF Elements
      <4> QED
        BY <2>1, <4>1, <4>2
    <3> QED
      BY <1>0, <2>2, <3>1, <3>2 DEF Elements
  <2> QED
    BY <2>5, <2>6, <2>7, <2>8
<1> QED
  BY <1>1, <1>2

\* The tab that is activated when another is closed is one of those that stay.
LEMMA WindowNeighborStays ==
    ASSUME NEW s \in Seq(Ids), Distinct(s), NEW e \in Elements(s), Elements(s) # {e}
    PROVE  Window!NeighborAfterClose(s, e) \in Elements(s) \ {e}
<1> DEFINE n == Len(s)
           at == {i \in 1..n : s[i] = e}
           next == {i + 1 : i \in at} \cap DOMAIN s
           before == {i - 1 : i \in at} \cap DOMAIN s
<1>1. n \in Nat /\ DOMAIN s = 1..n
  BY LenProperties
<1>7. Window!NeighborAfterClose(s, e) =
        CASE next # {}   -> s[CHOOSE i \in next : TRUE]
          [] next = {} /\ before # {} -> s[CHOOSE i \in before : TRUE]
          [] OTHER       -> NoTab
  BY DEF Window!NeighborAfterClose
<1> HIDE DEF n
<1>2. PICK k \in 1..n : s[k] = e
  BY <1>1 DEF Elements
<1>3. at = {k}
  BY <1>1, <1>2 DEF Distinct
<1>4. PICK j \in 1..n : j # k
  BY <1>1, <1>2 DEF Elements
<1>5. \A i \in next \cup before : i \in 1..n /\ s[i] \in Elements(s) \ {e}
  <2>1. \A i \in next \cup before : i \in 1..n /\ i # k
    BY <1>1, <1>2, <1>3
  <2> QED
    BY <1>1, <1>2, <2>1 DEF Elements, Distinct
<1>6. next # {} \/ before # {}
  <2>1. CASE k < n
    BY <1>1, <1>2, <1>3, <2>1
  <2>2. CASE k = n
    <3>1. k - 1 \in 1..n
      BY <1>1, <1>2, <1>4, <2>2
    <3> QED
      BY <1>1, <1>3, <3>1
  <2>3. k < n \/ k = n
    BY <1>1, <1>2
  <2> QED
    BY <2>1, <2>2, <2>3
<1> HIDE DEF next, before
<1>8. CASE next # {}
  <2>1. (CHOOSE i \in next : TRUE) \in next
    BY <1>8
  <2> QED
    BY <1>5, <1>7, <1>8, <2>1
<1>9. CASE next = {}
  <2>1. before # {} /\ (CHOOSE i \in before : TRUE) \in before
    BY <1>6, <1>9
  <2> QED
    BY <1>5, <1>7, <1>9, <2>1
<1> QED
  BY <1>8, <1>9
\* A tab is active, unless none is open.
WindowGood(t) == t.open # <<>> => t.active \in Elements(t.open)

\* The lists of tabs, shown and coming, hold each session once.
WindowLists ==
    /\ Window!TypeOK
    /\ Distinct(tabs.open) /\ Distinct(coming.open)

\* Where a session may be, by what has become of it: in the answer of Connect or in a tab
\* from when it is dialled to its exit, and in neither once the user has closed it.
WindowPlaces ==
    \A i \in Ids :
        /\ life[i] = "none" =>
             i \notin answers \cup exits \cup ghosts \cup userClosed \cup Elements(tabs.open) \cup Elements(coming.open)
        /\ i \in answers => i \notin Elements(tabs.open) \cup Elements(coming.open) \cup userClosed
        /\ i \in exits \cup ghosts => life[i] = "ended"
        /\ i \in userClosed => i \notin Elements(coming.open)
        /\ life[i] \in {"up", "down"} /\ i \notin userClosed => i \in answers \cup Elements(coming.open)
        /\ life[i] = "ended" /\ i \in answers \cup Elements(coming.open) => i \in exits \cup ghosts

\* What is coming is what is shown when nothing waits, and one update leaves a tab active.
WindowActive ==
    /\ queued = 0 => coming = tabs
    /\ queued = 1 /\ WindowGood(tabs) => WindowGood(coming)
    /\ WindowGood(tabs) \/ batched

WindowIInv == WindowLists /\ WindowPlaces /\ WindowActive

\* One update of the lists.
LEMMA WindowUpdateTabs ==
    ASSUME WindowLists, NEW i \in Ids
    PROVE  /\ Window!Removed(i, coming) \in [open : Seq(Ids), active : Ids \cup {NoTab}]
           /\ Distinct(Window!Removed(i, coming).open)
           /\ Elements(Window!Removed(i, coming).open) = Elements(coming.open) \ {i}
           /\ Window!Chosen(i, coming) \in [open : Seq(Ids), active : Ids \cup {NoTab}]
           /\ Window!Chosen(i, coming).open = coming.open /\ Window!Chosen(i, coming).active = i
           /\ i \notin Elements(coming.open) =>
                /\ Window!Added(i, coming) \in [open : Seq(Ids), active : Ids \cup {NoTab}]
                /\ Distinct(Window!Added(i, coming).open)
                /\ Elements(Window!Added(i, coming).open) = Elements(coming.open) \cup {i}
                /\ Window!Added(i, coming).active = i
<1>1. coming.open \in Seq(Ids) /\ coming.active \in Ids \cup {NoTab} /\ tabs.open \in Seq(Ids)
      /\ Distinct(coming.open) /\ Distinct(tabs.open)
  BY DEF WindowLists, Window!TypeOK
<1>2. Window!NeighborAfterClose(tabs.open, i) \in Ids \cup {NoTab}
  <2>1. \A j \in DOMAIN tabs.open : tabs.open[j] \in Ids
    BY <1>1
  <2> DEFINE at == {j \in 1..Len(tabs.open) : tabs.open[j] = i}
             next == {j + 1 : j \in at} \cap DOMAIN tabs.open
             before == {j - 1 : j \in at} \cap DOMAIN tabs.open
  <2>2. Window!NeighborAfterClose(tabs.open, i) =
          CASE next # {}   -> tabs.open[CHOOSE j \in next : TRUE]
            [] next = {} /\ before # {} -> tabs.open[CHOOSE j \in before : TRUE]
            [] OTHER       -> NoTab
    BY DEF Window!NeighborAfterClose
  <2>3. \A S : S # {} => (CHOOSE j \in S : TRUE) \in S
    OBVIOUS
  <2>4. next \subseteq DOMAIN tabs.open /\ before \subseteq DOMAIN tabs.open
    OBVIOUS
  <2> HIDE DEF next, before
  <2>5. CASE next # {}
    BY <2>1, <2>2, <2>3, <2>4, <2>5
  <2>6. CASE next = {} /\ before # {}
    BY <2>1, <2>2, <2>3, <2>4, <2>6
  <2>7. CASE next = {} /\ before = {}
    BY <2>2, <2>7
  <2> QED
    BY <2>5, <2>6, <2>7
<1>3. /\ Window!Without(coming.open, i) \in Seq(Ids) /\ Distinct(Window!Without(coming.open, i))
      /\ Elements(Window!Without(coming.open, i)) = Elements(coming.open) \ {i}
  BY <1>1, WindowWithoutElements
<1>4. i \notin Elements(coming.open) =>
        /\ Append(coming.open, i) \in Seq(Ids) /\ Distinct(Append(coming.open, i))
        /\ Elements(Append(coming.open, i)) = Elements(coming.open) \cup {i}
  BY <1>1, AppendElements
<1>5. coming \in [open : Seq(Ids), active : Ids \cup {NoTab}]
  BY DEF WindowLists, Window!TypeOK
<1> QED
  BY <1>1, <1>2, <1>3, <1>4, <1>5 DEF Window!Removed, Window!Added, Window!Chosen

\* An update of tabs that are good, when nothing else waits, leaves them good.
LEMMA WindowOneUpdate ==
    ASSUME WindowLists, WindowGood(tabs), coming = tabs, NEW i \in Ids
    PROVE  /\ WindowGood(Window!Removed(i, coming))
           /\ i \in Elements(tabs.open) => WindowGood(Window!Chosen(i, coming))
           /\ i \notin Elements(tabs.open) => WindowGood(Window!Added(i, coming))
<1>1. WindowGood(Window!Removed(i, tabs))
  <2> SUFFICES ASSUME Window!Removed(i, tabs).open # <<>>
               PROVE  Window!Removed(i, tabs).active \in Elements(Window!Removed(i, tabs).open)
    BY DEF WindowGood
  <2>1. /\ Window!Removed(i, tabs).open \in Seq(Ids)
        /\ Elements(Window!Removed(i, tabs).open) = Elements(tabs.open) \ {i}
    BY WindowUpdateTabs
  <2>2. Elements(tabs.open) # {} /\ Elements(tabs.open) # {i}
    <3> DEFINE r == Window!Removed(i, tabs).open
    <3> HIDE DEF r
    <3>2. r \in Seq(Ids) /\ r # <<>>
      BY <2>1 DEF r
    <3>3. Elements(r) = {Head(r)} \cup Elements(Tail(r))
      BY <3>2, TailElements
    <3>1. Elements(Window!Removed(i, tabs).open) # {}
      BY <3>3 DEF r
    <3> QED
      BY <2>1, <3>1
  <2>3. tabs.active \in Elements(tabs.open)
    <3>1. tabs.open # <<>>
      BY <2>2 DEF Elements
    <3> QED
      BY <3>1 DEF WindowGood
  <2>4. CASE tabs.active = i
    <3>1. Window!NeighborAfterClose(tabs.open, i) \in Elements(tabs.open) \ {i}
      BY <2>2, <2>3, <2>4, WindowNeighborStays DEF WindowLists, Window!TypeOK
    <3> QED
      BY <2>1, <2>4, <3>1 DEF Window!Removed
  <2>5. CASE tabs.active # i
    BY <2>1, <2>3, <2>5 DEF Window!Removed
  <2> QED
    BY <2>4, <2>5
<1>2. i \in Elements(tabs.open) => WindowGood(Window!Chosen(i, coming))
  BY WindowUpdateTabs DEF WindowGood
<1>3. i \notin Elements(tabs.open) => WindowGood(Window!Added(i, coming))
  BY WindowUpdateTabs DEF WindowGood
<1> QED
  BY <1>1, <1>2, <1>3

\* A render of n updates.
LEMMA WindowRenderIInv ==
    ASSUME NEW t \in [open : Seq(Ids), active : Ids \cup {NoTab}], NEW n \in Nat,
           Distinct(t.open), WindowGood(tabs) \/ batched,
           n <= 1 /\ WindowGood(tabs) => WindowGood(t), Window!Render(t, n), batched \in BOOLEAN
    PROVE  /\ tabs' = t /\ coming' = t /\ queued' = 0 /\ batched' \in BOOLEAN
           /\ WindowActive' /\ Distinct(tabs'.open) /\ Distinct(coming'.open)
<1>1. tabs' = t /\ coming' = t /\ queued' = 0
  BY DEF Window!Render
<1>2. Window!Range(t.open) = Elements(t.open)
  BY DEF Window!Range, Elements
<1>3. batched' = IF WindowGood(t) THEN FALSE ELSE batched \/ n > 1
  BY <1>2 DEF Window!Render, WindowGood
<1>4. WindowGood(tabs)' <=> WindowGood(t)
  BY <1>1
<1>5. WindowGood(t) \/ batched'
  <2>1. n > 1 \/ n <= 1
    OBVIOUS
  <2> QED
    BY <1>3, <2>1
<1>6. WindowActive'
  BY <1>1, <1>4, <1>5 DEF WindowActive
<1> QED
  BY <1>1, <1>3, <1>6

\* An update that waits.
LEMMA WindowWaitIInv ==
    ASSUME WindowLists, WindowActive, NEW t \in [open : Seq(Ids), active : Ids \cup {NoTab}],
           Distinct(t.open),
           WindowGood(tabs) /\ coming = tabs => WindowGood(t), Window!Wait(t)
    PROVE  /\ tabs' = tabs /\ coming' = t /\ queued' \in 0..2 /\ batched' \in BOOLEAN
           /\ WindowActive' /\ Distinct(tabs'.open) /\ Distinct(coming'.open)
<1>1. tabs' = tabs /\ coming' = t /\ batched' = batched /\ queued' = IF queued = 0 THEN 1 ELSE 2
  BY DEF Window!Wait
<1>2. WindowGood(tabs)' <=> WindowGood(tabs)
  BY <1>1
<1>3. WindowGood(coming)' <=> WindowGood(t)
  BY <1>1
<1> QED
  BY <1>1, <1>2, <1>3 DEF WindowActive, WindowLists, Window!TypeOK
\* What clicks and the back end leave of the dialogs and the error screen.
WindowRest == modals \subseteq Modals /\ pages \subseteq {"settings", "monitor"} /\ split \in BOOLEAN /\ fatal \in BOOLEAN

\* It holds before the first connection.
LEMMA WindowInitIInv == Window!Init => WindowIInv
<1> SUFFICES ASSUME Window!Init PROVE WindowIInv
  OBVIOUS
<1>1. /\ tabs.open = <<>> /\ coming = tabs /\ <<>> \in Seq(Ids) /\ Elements(<<>>) = {}
      /\ Distinct(<<>>)
  BY EmptySeq DEF Window!Init, Elements, Distinct
<1>2. tabs \in [open : Seq(Ids), active : Ids \cup {NoTab}]
  BY <1>1 DEF Window!Init
<1>3. Window!TypeOK
  <2>1. coming \in [open : Seq(Ids), active : Ids \cup {NoTab}] /\ queued \in 0..2
    BY <1>1, <1>2 DEF Window!Init
  <2>2. life \in [Ids -> {"none", "up", "down", "ended"}]
    BY DEF Window!Init
  <2>3. split \in BOOLEAN /\ fatal \in BOOLEAN /\ batched \in BOOLEAN
    BY DEF Window!Init
  <2>4. /\ userClosed \subseteq Ids /\ answers \subseteq Ids /\ exits \subseteq Ids
        /\ ghosts \subseteq Ids
        /\ modals \subseteq Modals /\ pages \subseteq {"settings", "monitor"}
    BY DEF Window!Init
  <2> QED
    BY <1>2, <2>1, <2>2, <2>3, <2>4 DEF Window!TypeOK
<1> QED
  BY <1>1, <1>3 DEF WindowIInv, WindowLists, WindowPlaces, WindowActive, WindowGood, Window!Init

\* The back end alone: what a session's life does to where it may be.
LEMMA WindowBackEndIInv ==
    ASSUME WindowIInv, NEW i \in Ids,
           Window!Dials(i) \/ Window!Breaks(i) \/ Window!Reconnects(i) \/ Window!Ends(i)
    PROVE  WindowIInv'
<1>1. UNCHANGED <<Window!window, Window!screen, fatal, ghosts, userClosed>>
  BY DEF Window!Dials, Window!Breaks, Window!Reconnects, Window!Ends
<1>2. WindowLists'
  BY <1>1 DEF WindowIInv, WindowLists, Window!TypeOK, Window!window, Window!screen, Window!Dials,
              Window!Breaks, Window!Reconnects, Window!Ends
<1>3. WindowActive'
  BY <1>1 DEF WindowIInv, WindowActive, WindowGood, Window!window
<1>4. WindowPlaces'
  <2>0. UNCHANGED <<tabs, coming>>
    BY <1>1 DEF Window!window
  <2>1. CASE Window!Dials(i)
    BY <1>1, <2>0, <2>1 DEF Window!Dials, WindowIInv, WindowPlaces, WindowLists, Window!TypeOK
  <2>2. CASE Window!Breaks(i)
    BY <1>1, <2>0, <2>2 DEF Window!Breaks, WindowIInv, WindowPlaces, WindowLists, Window!TypeOK
  <2>3. CASE Window!Reconnects(i)
    BY <1>1, <2>0, <2>3 DEF Window!Reconnects, WindowIInv, WindowPlaces, WindowLists, Window!TypeOK
  <2>4. CASE Window!Ends(i)
    BY <1>1, <2>0, <2>4 DEF Window!Ends, WindowIInv, WindowPlaces, WindowLists, Window!TypeOK
  <2> QED
    BY <2>1, <2>2, <2>3, <2>4
<1> QED
  BY <1>2, <1>3, <1>4 DEF WindowIInv

\* onConnected and the listener of ssh-exit.
LEMMA WindowEventIInv == ASSUME WindowIInv, NEW i \in Ids, Window!OnConnected(i) \/ Window!OnExit(i)
                         PROVE  WindowIInv'
<1>0. WindowLists /\ WindowActive /\ WindowPlaces
  BY DEF WindowIInv
<1>1. CASE Window!OnConnected(i)
  <2>1. i \notin Elements(tabs.open) /\ i \notin Elements(coming.open)
    BY <1>0, <1>1 DEF Window!OnConnected, WindowPlaces
  <2> DEFINE t == Window!Added(i, coming)
  <2>2. /\ t \in [open : Seq(Ids), active : Ids \cup {NoTab}] /\ Distinct(t.open)
        /\ Elements(t.open) = Elements(coming.open) \cup {i}
    BY <1>0, <2>1, WindowUpdateTabs
  <2>3. WindowGood(tabs) /\ coming = tabs => WindowGood(t)
    BY <1>0, <2>1, WindowOneUpdate
  <2> HIDE DEF t
  <2>4. Window!Wait(t)
    BY <1>1 DEF Window!OnConnected, t
  <2>5. /\ tabs' = tabs /\ coming' = t /\ queued' \in 0..2 /\ batched' \in BOOLEAN
        /\ WindowActive' /\ Distinct(tabs'.open) /\ Distinct(coming'.open)
    BY <1>0, <2>2, <2>3, <2>4, WindowWaitIInv
  <2>6. WindowLists'
    BY <1>0, <1>1, <2>2, <2>5 DEF WindowLists, Window!TypeOK, Window!OnConnected
  <2>7. WindowPlaces'
    BY <1>0, <1>1, <2>2, <2>5 DEF WindowPlaces, Window!OnConnected, WindowLists, Window!TypeOK
  <2> QED
    BY <2>5, <2>6, <2>7 DEF WindowIInv
<1>2. CASE Window!OnExit(i)
  <2> DEFINE t == Window!Removed(i, coming)
  <2>2. /\ t \in [open : Seq(Ids), active : Ids \cup {NoTab}] /\ Distinct(t.open)
        /\ Elements(t.open) = Elements(coming.open) \ {i}
    BY <1>0, WindowUpdateTabs
  <2>3. WindowGood(tabs) /\ coming = tabs => WindowGood(t)
    BY <1>0, WindowOneUpdate
  <2> HIDE DEF t
  <2>4. Window!Wait(t)
    BY <1>2 DEF Window!OnExit, t
  <2>5. /\ tabs' = tabs /\ coming' = t /\ queued' \in 0..2 /\ batched' \in BOOLEAN
        /\ WindowActive' /\ Distinct(tabs'.open) /\ Distinct(coming'.open)
    BY <1>0, <2>2, <2>3, <2>4, WindowWaitIInv
  <2>6. WindowLists'
    BY <1>0, <1>2, <2>2, <2>5 DEF WindowLists, Window!TypeOK, Window!OnExit, Window!screen
  <2>7. WindowPlaces'
    BY <1>0, <1>2, <2>2, <2>5 DEF WindowPlaces, Window!OnExit, WindowLists, Window!TypeOK
  <2> QED
    BY <2>5, <2>6, <2>7 DEF WindowIInv
<1> QED
  BY <1>1, <1>2

\* What waits is rendered, and the click with it.
LEMMA WindowRendersIInv ==
    ASSUME WindowIInv, Window!Render(coming, queued),
           UNCHANGED <<life, userClosed, answers, exits, ghosts>>, WindowRest'
    PROVE  WindowIInv'
<1>0. WindowLists /\ WindowActive /\ WindowPlaces
  BY DEF WindowIInv
<1>1. /\ coming \in [open : Seq(Ids), active : Ids \cup {NoTab}] /\ Distinct(coming.open)
      /\ queued \in Nat /\ batched \in BOOLEAN
  BY <1>0 DEF WindowLists, Window!TypeOK
<1>2. queued <= 1 /\ WindowGood(tabs) => WindowGood(coming)
  BY <1>0, <1>1 DEF WindowActive
<1>3. WindowGood(tabs) \/ batched
  BY <1>0 DEF WindowActive
<1>4. /\ tabs' = coming /\ coming' = coming /\ queued' = 0 /\ batched' \in BOOLEAN
      /\ WindowActive' /\ Distinct(tabs'.open) /\ Distinct(coming'.open)
  BY <1>1, <1>2, <1>3, WindowRenderIInv
<1>5. WindowLists'
  BY <1>0, <1>1, <1>4 DEF WindowLists, Window!TypeOK, WindowRest
<1>6. WindowPlaces'
  BY <1>0, <1>4 DEF WindowPlaces
<1> QED
  BY <1>4, <1>5, <1>6 DEF WindowIInv

\* Tabs that are chosen and closed.
LEMMA WindowTabsIInv == ASSUME WindowIInv, NEW i \in Ids,
                               Window!SelectTab(i) \/ Window!CloseSession(i)
                        PROVE  WindowIInv'
<1>0. WindowLists /\ WindowActive /\ WindowPlaces
  BY DEF WindowIInv
<1>1. queued \in Nat /\ queued + 1 \in Nat /\ batched \in BOOLEAN /\ (queued + 1 <= 1 => queued = 0)
  BY <1>0 DEF WindowLists, Window!TypeOK
<1>2. i \in Elements(tabs.open) /\ (WindowGood(tabs) \/ batched)
  BY <1>0 DEF Window!SelectTab, Window!CloseSession, Window!Open, Window!Range, Elements,
              WindowActive
<1>3. CASE Window!SelectTab(i)
  <2> DEFINE t == Window!Chosen(i, coming)
  <2>2. /\ t \in [open : Seq(Ids), active : Ids \cup {NoTab}] /\ Distinct(t.open)
        /\ t.open = coming.open
    BY <1>0, WindowUpdateTabs DEF WindowLists
  <2>3. queued + 1 <= 1 /\ WindowGood(tabs) => WindowGood(t)
    BY <1>0, <1>1, <1>2, WindowOneUpdate DEF WindowActive
  <2> HIDE DEF t
  <2>4. Window!Render(t, queued + 1)
    BY <1>3 DEF Window!SelectTab, t
  <2>5. /\ tabs' = t /\ coming' = t /\ queued' = 0 /\ batched' \in BOOLEAN
        /\ WindowActive' /\ Distinct(tabs'.open) /\ Distinct(coming'.open)
    BY <1>1, <1>2, <2>2, <2>3, <2>4, WindowRenderIInv
  <2>6. WindowLists'
    BY <1>0, <1>3, <2>2, <2>5 DEF WindowLists, Window!TypeOK, Window!SelectTab, Window!backEnd,
                                  Window!screen
  <2>7. WindowPlaces'
    BY <1>0, <1>3, <2>2, <2>5 DEF WindowPlaces, Window!SelectTab, Window!backEnd
  <2> QED
    BY <2>5, <2>6, <2>7 DEF WindowIInv
<1>4. CASE Window!CloseSession(i)
  <2> DEFINE t == Window!Removed(i, coming)
  <2>2. /\ t \in [open : Seq(Ids), active : Ids \cup {NoTab}] /\ Distinct(t.open)
        /\ Elements(t.open) = Elements(coming.open) \ {i}
    BY <1>0, WindowUpdateTabs
  <2>3. queued + 1 <= 1 /\ WindowGood(tabs) => WindowGood(t)
    BY <1>0, <1>1, <1>2, WindowOneUpdate DEF WindowActive
  <2> HIDE DEF t
  <2>4. Window!Render(t, queued + 1)
    BY <1>4 DEF Window!CloseSession, t
  <2>5. /\ tabs' = t /\ coming' = t /\ queued' = 0 /\ batched' \in BOOLEAN
        /\ WindowActive' /\ Distinct(tabs'.open) /\ Distinct(coming'.open)
    BY <1>1, <1>2, <2>2, <2>3, <2>4, WindowRenderIInv
  <2>6. WindowLists'
    BY <1>0, <1>4, <2>2, <2>5 DEF WindowLists, Window!TypeOK, Window!CloseSession, Window!screen
  <2>7. WindowPlaces'
    <3>1. /\ userClosed' = userClosed \cup {i} /\ answers' = answers /\ ghosts' = ghosts
          /\ exits' = IF life[i] = "up" THEN exits \cup {i} ELSE exits
          /\ life' = [life EXCEPT ![i] = IF @ = "up" THEN "ended" ELSE @]
      BY <1>4 DEF Window!CloseSession
    <3>2. life \in [Ids -> {"none", "up", "down", "ended"}]
      BY <1>0 DEF WindowLists, Window!TypeOK
    <3> SUFFICES ASSUME NEW j \in Ids
                 PROVE  (/\ life[j] = "none" =>
                              j \notin answers \cup exits \cup ghosts \cup userClosed \cup Elements(tabs.open) \cup Elements(coming.open)
                         /\ j \in answers => j \notin Elements(tabs.open) \cup Elements(coming.open) \cup userClosed
                         /\ j \in exits \cup ghosts => life[j] = "ended"
                         /\ j \in userClosed => j \notin Elements(coming.open)
                         /\ life[j] \in {"up", "down"} /\ j \notin userClosed => j \in answers \cup Elements(coming.open)
                         /\ life[j] = "ended" /\ j \in answers \cup Elements(coming.open) => j \in exits \cup ghosts)'
      BY DEF WindowPlaces
    <3>3. CASE j = i
      BY <1>0, <1>2, <2>2, <2>5, <3>1, <3>2, <3>3 DEF WindowPlaces
    <3>4. CASE j # i
      BY <1>0, <2>2, <2>5, <3>1, <3>2, <3>4 DEF WindowPlaces
    <3> QED
      BY <3>3, <3>4
  <2> QED
    BY <2>5, <2>6, <2>7 DEF WindowIInv
<1> QED
  BY <1>3, <1>4

\* Typing and the size: calls for sessions that may not be there any more.
LEMMA WindowQuietIInv == ASSUME WindowIInv, UNCHANGED <<Window!backEnd, Window!window,
                                Window!screen, ghosts>>, fatal' \in BOOLEAN
                         PROVE  WindowIInv'
<1>1. UNCHANGED <<life, userClosed, answers, exits, tabs, coming, queued, batched, ghosts, modals, pages, split>>
  BY DEF Window!backEnd, Window!window, Window!screen
<1>2. WindowLists'
  BY <1>1 DEF WindowIInv, WindowLists, Window!TypeOK
<1> QED
  BY <1>1, <1>2 DEF WindowIInv, WindowPlaces, WindowActive, WindowGood

\* The invariant is inductive.
LEMMA WindowNextIInv == WindowIInv /\ [Window!Next]_(Window!vars) => WindowIInv'
<1> SUFFICES ASSUME WindowIInv, [Window!Next]_(Window!vars) PROVE WindowIInv'
  OBVIOUS
<1>0. WindowRest
  BY DEF WindowIInv, WindowLists, Window!TypeOK, WindowRest
<1>1. ASSUME NEW i \in Ids,
             Window!Dials(i) \/ Window!Breaks(i) \/ Window!Reconnects(i) \/ Window!Ends(i)
      PROVE  WindowIInv'
  BY <1>1, WindowBackEndIInv
<1>2. ASSUME NEW i \in Ids, Window!OnConnected(i) \/ Window!OnExit(i) PROVE WindowIInv'
  BY <1>2, WindowEventIInv
<1>3. ASSUME NEW i \in Ids, Window!SelectTab(i) \/ Window!CloseSession(i) PROVE WindowIInv'
  BY <1>3, WindowTabsIInv
<1>4. ASSUME NEW i \in Ids, Window!Type(i) \/ Window!Resized(i) PROVE WindowIInv'
  <2>1. UNCHANGED <<Window!backEnd, Window!window, Window!screen, ghosts>> /\ fatal' \in BOOLEAN
    BY <1>0, <1>4 DEF Window!Type, Window!Resized, Window!Unhandled, WindowRest
  <2> QED
    BY <2>1, WindowQuietIInv
<1>5. ASSUME Window!Broadcast \/ UNCHANGED Window!vars PROVE WindowIInv'
  <2>1. UNCHANGED <<Window!backEnd, Window!window, Window!screen, ghosts>> /\ fatal' \in BOOLEAN
    BY <1>0, <1>5 DEF Window!Broadcast, Window!Unhandled, WindowRest, Window!vars
  <2> QED
    BY <2>1, WindowQuietIInv
<1>6. ASSUME Window!Renders \/ Window!ToggleSplit \/ Window!OpenSettings \/ Window!OpenMonitorPage \/ Window!Escape \/ \E m \in Modals : Window!OpenModal(m) \/ Window!CloseModal(m)
      PROVE  WindowIInv'
  <2>1. Window!Render(coming, queued) /\ UNCHANGED <<life, userClosed, answers, exits, ghosts>>
    BY <1>6 DEF Window!Renders, Window!ToggleSplit, Window!OpenSettings, Window!OpenMonitorPage,
                Window!Escape, Window!OpenModal, Window!CloseModal, Window!backEnd
  <2>2. WindowRest'
    BY <1>0, <1>6 DEF WindowRest, Window!Renders, Window!ToggleSplit, Window!OpenSettings,
                      Window!OpenMonitorPage, Window!Escape, Window!OpenModal, Window!CloseModal,
                      Window!screen
  <2> QED
    BY <2>1, <2>2, WindowRendersIInv
<1> QED
  BY <1>1, <1>2, <1>3, <1>4, <1>5, <1>6 DEF Window!Next, Window!TabsNext, Window!DialogsNext



\* The window keeps the types of its state (App.tsx).
THEOREM WindowTypeCorrect == Window!Init /\ [][Window!Next]_(Window!vars) => []Window!TypeOK
<1>1. WindowIInv => Window!TypeOK
  BY DEF WindowIInv, WindowLists
<1> QED
  BY <1>1, WindowInitIInv, WindowNextIInv, PTL

\* Whatever is opened, closed and lost: the active tab is one of those shown, and so is the
\* session of the dialogs, but for a render of several updates (App.tsx neighborAfterClose).
THEOREM WindowActiveTabIsShown == Window!Init /\ [][Window!Next]_(Window!vars) => []Window!ActiveIsShown
<1>1. WindowIInv => Window!ActiveIsShown
  <2> SUFFICES ASSUME WindowIInv, tabs.open # <<>>, ~batched
               PROVE  tabs.active \in Window!Open /\ Window!PanelSession \in Window!Open
    BY DEF Window!ActiveIsShown
  <2>1. tabs.active \in Elements(tabs.open)
    BY DEF WindowIInv, WindowActive, WindowGood
  <2>2. Window!Open = Elements(tabs.open)
    BY DEF Window!Open, Window!Range, Elements
  <2>3. Head(tabs.open) \in Elements(tabs.open)
    BY TailElements DEF WindowIInv, WindowLists, Window!TypeOK
  <2> QED
    BY <2>1, <2>2, <2>3 DEF Window!PanelSession
<1> QED
  BY <1>1, WindowInitIInv, WindowNextIInv, PTL

\* When nothing is on its way, the tabs are the sessions that run and were not closed, and
\* those whose exit overtook the answer of Connect (App.tsx onConnected, ssh-exit).
THEOREM WindowTabsAreSessions == Window!Init /\ [][Window!Next]_(Window!vars) => []Window!TabsFollowSessions
<1>1. WindowIInv => Window!TabsFollowSessions
  <2> SUFFICES ASSUME WindowIInv, queued = 0, answers = {}, exits = {}
               PROVE  Window!Open \ (ghosts \ userClosed) = {i \in Ids : life[i] \in {"up", "down"}} \ userClosed
    BY DEF Window!TabsFollowSessions
  <2>1. Window!Open = Elements(coming.open) /\ Window!Open \subseteq Ids
    BY DEF Window!Open, Window!Range, Elements, WindowIInv, WindowActive, WindowLists, Window!TypeOK
  <2>2. life \in [Ids -> {"none", "up", "down", "ended"}]
    BY DEF WindowIInv, WindowLists, Window!TypeOK
  <2> QED
    BY <2>1, <2>2 DEF WindowIInv, WindowPlaces
<1> QED
  BY <1>1, WindowInitIInv, WindowNextIInv, PTL

-----------------------------------------------------------------------------
(* The terminal *)

USE TermAssumption

\* What was written, what waits and what was cut off, in this order; a terminal on the
\* screen asks for a frame when something waits.
TermOutput ==
    /\ Rising(written) /\ Rising(pending)
    /\ \A a \in Elements(written), b \in Elements(pending) : a < b
    /\ \A a \in dropped, b \in Elements(pending) : a < b
    /\ Elements(written) \cup Elements(pending) = heard \ dropped
    /\ \A c \in heard : c <= emitted
    /\ shown /\ ~frame => pending = <<>>
    /\ ~shown /\ ~frame => Len(pending) <= Limit

\* The lines of m among those sent.
TermLinesOf(m) == {i \in DOMAIN sent : sent[i][1] = m}

\* The lines of snippet m, and what its loop knows of them: when it runs alone, its last line is
\* the last of all.
TermSnippet(m) ==
    /\ {sent[i][2] : i \in TermLinesOf(m)} = 1..sentLines[m]
    /\ \A i, j \in TermLinesOf(m) : i < j => sent[i][2] < sent[j][2]
    /\ macro[m] \in {"idle", "meta"} => sentLines[m] = 0
    /\ macro[m] = "done" => sentLines[m] = Lines
    /\ m \notin overlapped => \A i, j \in TermLinesOf(m) : \A k \in i..j : k \in TermLinesOf(m)
    /\ m \notin overlapped /\ macro[m] = "sending" /\ sentLines[m] > 0 => Len(sent) \in TermLinesOf(m)
    /\ macro[m] \in {"meta", "sending"} =>
         \A n \in Macros \ {m} : macro[n] \in {"meta", "sending"} => m \in overlapped

TermSnippets == \A m \in Macros : TermSnippet(m)

TermIInv == Term!TypeOK /\ TermOutput /\ TermSnippets

LEMMA TermInitIInv == Term!Init => TermIInv
<1> SUFFICES ASSUME Term!Init PROVE TermIInv
  OBVIOUS
<1>0. /\ <<>> \in Seq(1..MaxChunks) /\ <<>> \in Seq(Macros \X (1..Lines)) /\ Len(<<>>) = 0
      /\ Elements(<<>>) = {} /\ Rising(<<>>)
  BY EmptySeq DEF Elements, Rising
<1>1. Term!TypeOK
  <2>1. /\ macro \in [Macros -> {"idle", "meta", "sending", "done"}]
        /\ sentLines \in [Macros -> 0..Lines]
    BY DEF Term!Init
  <2>2. mounted \in BOOLEAN /\ shown \in BOOLEAN /\ frame \in BOOLEAN /\ menu \in BOOLEAN
    BY DEF Term!Init
  <2>3. emitted \in 0..MaxChunks
    BY DEF Term!Init
  <2> QED
    BY <1>0, <2>1, <2>2, <2>3 DEF Term!Init, Term!TypeOK
<1>2. TermOutput
  BY <1>0 DEF Term!Init, TermOutput
<1>3. TermSnippets
  <2> SUFFICES ASSUME NEW m \in Macros PROVE TermSnippet(m)
    BY DEF TermSnippets
  <2>1. TermLinesOf(m) = {} /\ sentLines[m] = 0 /\ macro[m] = "idle"
    BY DEF Term!Init, TermLinesOf
  <2> QED
    BY <2>1 DEF TermSnippet
<1> QED
  BY <1>1, <1>2, <1>3 DEF TermIInv

\* What is kept when output alone goes on, and when snippets alone do.
LEMMA TermSnippetsStay ==
    ASSUME TermSnippets, UNCHANGED <<macro, sentLines, sent, overlapped>> PROVE TermSnippets'
<1> SUFFICES ASSUME NEW m \in Macros PROVE TermSnippet(m)'
  BY DEF TermSnippets
<1>1. TermLinesOf(m)' = TermLinesOf(m)
  BY DEF TermLinesOf
<1> QED
  BY <1>1 DEF TermSnippets, TermSnippet

LEMMA TermOutputStays ==
    ASSUME TermOutput, UNCHANGED Term!outputVars PROVE TermOutput'
BY DEF TermOutput, Term!outputVars

\* A chunk comes.
LEMMA TermOnOutputIInv == ASSUME TermIInv, Term!OnOutput PROVE TermIInv'
<1>0. /\ pending \in Seq(1..MaxChunks) /\ emitted \in 0..MaxChunks /\ heard \subseteq 1..MaxChunks
      /\ written \in Seq(1..MaxChunks) /\ dropped \subseteq heard
  BY DEF TermIInv, Term!TypeOK
<1>1. /\ emitted' = emitted + 1 /\ emitted' \in 1..MaxChunks
      /\ UNCHANGED <<mounted, shown, written, dropped, Term!macroVars>>
  BY <1>0 DEF Term!OnOutput
<1>2. TermSnippets'
  BY <1>1, TermSnippetsStay DEF TermIInv, Term!macroVars
<1>3. CASE ~mounted
  <2>1. UNCHANGED <<pending, heard, frame>>
    BY <1>3 DEF Term!OnOutput
  <2>2. Term!TypeOK'
    BY <1>1, <2>1 DEF TermIInv, Term!TypeOK, Term!macroVars
  <2>3. TermOutput'
    BY <1>0, <1>1, <2>1 DEF TermIInv, TermOutput
  <2> QED
    BY <1>2, <2>2, <2>3 DEF TermIInv
<1>4. CASE mounted
  <2> DEFINE e == emitted'
  <2>0. /\ pending' = Append(pending, e) /\ heard' = heard \cup {e} /\ frame' = TRUE
        /\ e \in 1..MaxChunks
    BY <1>1, <1>4 DEF Term!OnOutput
  <2>1. /\ Append(pending, e) \in Seq(1..MaxChunks)
        /\ Elements(Append(pending, e)) = Elements(pending) \cup {e}
    <3> HIDE DEF e
    <3> QED
      BY <1>0, <2>0, AppendElements
  <2>2. Elements(pending) \subseteq heard /\ Elements(written) \subseteq heard
    BY DEF TermIInv, TermOutput
  <2>3. \A c \in heard : c < e
    BY <1>0, <1>1 DEF TermIInv, TermOutput
  <2>4. Rising(Append(pending, e))
    <3>1. pending \in Seq(Nat) /\ e \in Nat
      BY <1>0, <1>1, SeqMonotonic
    <3> QED
      BY <2>2, <2>3, <3>1, AppendRises DEF TermIInv, TermOutput
  <2>5. Term!TypeOK'
    BY <1>0, <1>1, <2>0, <2>1 DEF TermIInv, Term!TypeOK, Term!macroVars
  <2>6. Elements(pending') = Elements(pending) \cup {e} /\ Elements(written') = Elements(written)
    BY <1>1, <2>0, <2>1
  <2>7. e \notin heard
    BY <1>0, <1>1, <2>3
  <2>8. Elements(written') \cup Elements(pending') = heard' \ dropped'
    BY <1>0, <1>1, <2>0, <2>6, <2>7 DEF TermIInv, TermOutput
  <2>9. /\ \A a \in Elements(written'), b \in Elements(pending') : a < b
        /\ \A a \in dropped', b \in Elements(pending') : a < b
    BY <1>0, <1>1, <2>2, <2>3, <2>6 DEF TermIInv, TermOutput
  <2>10. \A c \in heard' : c <= emitted'
    BY <1>0, <1>1, <2>0, <2>3
  <2>11. Rising(written)' /\ Rising(pending)'
    BY <1>1, <2>0, <2>4 DEF TermIInv, TermOutput
  <2>12. TermOutput'
    <3>1. Elements(pending)' = Elements(pending') /\ Elements(written)' = Elements(written')
      BY DEF Elements
    <3> QED
      BY <2>0, <2>8, <2>9, <2>10, <2>11, <3>1 DEF TermOutput
  <2> QED
    BY <1>2, <2>5, <2>12 DEF TermIInv
<1> QED
  BY <1>3, <1>4

\* A frame.
LEMMA TermFlushIInv == ASSUME TermIInv, Term!Flush PROVE TermIInv'
<1>0. /\ pending \in Seq(1..MaxChunks) /\ written \in Seq(1..MaxChunks) /\ shown \in BOOLEAN
      /\ heard \subseteq 1..MaxChunks /\ dropped \subseteq heard
      /\ pending \in Seq(Nat) /\ written \in Seq(Nat)
  BY SeqMonotonic DEF TermIInv, Term!TypeOK
<1>1. frame' = FALSE /\ UNCHANGED <<emitted, mounted, shown, heard, Term!macroVars>>
  BY DEF Term!Flush
<1>2. TermSnippets'
  BY <1>1, TermSnippetsStay DEF TermIInv, Term!macroVars
<1>3. Elements(<<>>) = {} /\ Rising(<<>>) /\ <<>> \in Seq(1..MaxChunks) /\ Len(<<>>) = 0
  BY EmptySeq DEF Elements, Rising
<1>4. CASE shown
  <2>1. written' = written \o pending /\ pending' = <<>> /\ dropped' = dropped
    BY <1>4 DEF Term!Flush
  <2>2. /\ written \o pending \in Seq(1..MaxChunks)
        /\ Elements(written \o pending) = Elements(written) \cup Elements(pending)
    BY <1>0, ConcatElements
  <2>3. Rising(written \o pending)
    BY <1>0, ConcatRises DEF TermIInv, TermOutput
  <2>4. Term!TypeOK'
    BY <1>1, <1>3, <2>1, <2>2 DEF TermIInv, Term!TypeOK, Term!macroVars
  <2>5. TermOutput'
    <3>1. Elements(written)' = Elements(written) \cup Elements(pending) /\ Elements(pending)' = {}
      BY <1>3, <2>1, <2>2
    <3>2. Rising(written)' /\ Rising(pending)'
      BY <1>3, <2>1, <2>3
    <3> QED
      BY <1>1, <1>4, <2>1, <3>1, <3>2 DEF TermIInv, TermOutput
  <2> QED
    BY <1>2, <2>4, <2>5 DEF TermIInv
<1>5. CASE ~shown /\ Len(pending) > Limit
  <2> DEFINE q == SubSeq(pending, Len(pending) - Keep + 1, Len(pending))
  <2>1. /\ pending' = q /\ dropped' = dropped \cup (Term!Range(pending) \ Term!Range(pending'))
        /\ written' = written
    BY <1>5 DEF Term!Flush
  <2>2. /\ q \in Seq(1..MaxChunks) /\ Len(q) = Keep /\ Rising(q)
        /\ Elements(q) \subseteq Elements(pending)
        /\ \A a \in Elements(pending) \ Elements(q), b \in Elements(q) : a < b
    <3>1. Len(pending) \in Nat
      BY <1>0, LenProperties
    <3>2. Keep \in 0..Len(pending) /\ 1..MaxChunks \in SUBSET Nat
      BY <1>5, <3>1
    <3>3. Rising(pending)
      BY DEF TermIInv, TermOutput
    <3> QED
      BY ONLY <1>0, <3>2, <3>3, EndRises
  <2> HIDE DEF q
  <2>3. Term!Range(pending) = Elements(pending) /\ Term!Range(pending') = Elements(q)
    BY <2>1 DEF Term!Range, Elements
  <2>4. dropped' = dropped \cup (Elements(pending) \ Elements(q))
    BY <2>1, <2>3
  <2>5. Elements(pending) \subseteq heard
    BY DEF TermIInv, TermOutput
  <2>6. Term!TypeOK'
    BY <1>0, <1>1, <2>1, <2>2, <2>4, <2>5 DEF TermIInv, Term!TypeOK, Term!macroVars
  <2>7. TermOutput'
    <3>1. Elements(written)' = Elements(written) /\ Elements(pending)' = Elements(q)
      BY <2>1
    <3>2. Rising(written)' /\ Rising(pending)'
      BY <2>1, <2>2 DEF TermIInv, TermOutput
    <3>3. Elements(written) \cap Elements(pending) = {}
      <4>1. Elements(pending) \subseteq Nat
        <5>1. 1..MaxChunks \subseteq Nat
          OBVIOUS
        <5> QED
          BY <1>0, <2>5, <5>1
      <4>2. \A a \in Nat : ~(a < a)
        OBVIOUS
      <4> QED
        BY <4>1, <4>2 DEF TermIInv, TermOutput
    <3>4. Elements(written)' \cup Elements(pending)' = heard' \ dropped'
      BY <1>1, <2>2, <2>4, <3>1, <3>3 DEF TermIInv, TermOutput
    <3>5. /\ \A a \in Elements(written)', b \in Elements(pending)' : a < b
          /\ \A a \in dropped', b \in Elements(pending)' : a < b
      BY <2>2, <2>4, <3>1 DEF TermIInv, TermOutput
    <3>6. Len(pending') <= Limit
      BY <2>1, <2>2
    <3> QED
      BY <1>1, <1>5, <2>4, <3>2, <3>4, <3>5, <3>6 DEF TermIInv, TermOutput
  <2> QED
    BY <1>2, <2>6, <2>7 DEF TermIInv
<1>6. CASE ~shown /\ Len(pending) <= Limit
  <2>0. Len(pending) \in Nat
    BY <1>0, LenProperties
  <2>1. UNCHANGED <<pending, written, dropped>>
    BY <1>6, <2>0 DEF Term!Flush
  <2>2. Term!TypeOK'
    BY <1>1, <2>1 DEF TermIInv, Term!TypeOK, Term!macroVars
  <2>3. TermOutput'
    BY <1>1, <1>6, <2>1 DEF TermIInv, TermOutput
  <2> QED
    BY <1>2, <2>2, <2>3 DEF TermIInv
<1>7. Len(pending) \in Nat
  BY <1>0, LenProperties
<1>8. shown \/ (~shown /\ Len(pending) > Limit) \/ (~shown /\ Len(pending) <= Limit)
  BY <1>7
<1> QED
  BY <1>4, <1>5, <1>6, <1>8
\* One more line of snippet m, which is sending.
LEMMA TermSendLineIInv == ASSUME TermIInv, NEW m \in Macros, Term!SendLine(m) PROVE TermIInv'
<1>0. /\ macro \in [Macros -> {"idle", "meta", "sending", "done"}]
      /\ sentLines \in [Macros -> 0..Lines]
      /\ sent \in Seq(Macros \X (1..Lines)) /\ macro[m] = "sending"
      /\ UNCHANGED <<Term!outputVars, overlapped>>
  BY DEF TermIInv, Term!TypeOK, Term!SendLine
<1>1. TermOutput'
  BY <1>0, TermOutputStays DEF TermIInv
<1>2. CASE sentLines[m] < Lines
  <2> DEFINE e == <<m, sentLines[m] + 1>>
             n == Len(sent)
             c == sentLines[m]
  <2>1. /\ UNCHANGED <<macro, menu>> /\ sentLines' = [sentLines EXCEPT ![m] = c + 1]
        /\ sent' = Append(sent, e)
    BY <1>0, <1>2 DEF Term!SendLine
  <2>2. /\ c \in 0..Lines /\ c + 1 \in 1..Lines /\ e \in Macros \X (1..Lines) /\ e[1] = m
        /\ e[2] = c + 1
    BY <1>0, <1>2
  <2>3. /\ sent' \in Seq(Macros \X (1..Lines)) /\ n \in Nat /\ Len(sent') = n + 1
        /\ DOMAIN sent = 1..n /\ DOMAIN sent' = 1..(n + 1)
        /\ \A i \in 1..n : sent'[i] = sent[i]
        /\ sent'[n + 1] = e
    <3>1. e \in Macros \X (1..Lines)
      BY <2>2
    <3> HIDE DEF e, n
    <3> QED
      BY <1>0, <2>1, <3>1, AppendElements DEF n
  <2> HIDE DEF e, n
  <2>4. Term!TypeOK'
    BY <1>0, <2>1, <2>2, <2>3 DEF TermIInv, Term!TypeOK, Term!outputVars
  <2>5. /\ sentLines'[m] = c + 1
        /\ \A o \in Macros \ {m} : sentLines'[o] = sentLines[o] /\ TermLinesOf(o)' = TermLinesOf(o)
        /\ TermLinesOf(m)' = TermLinesOf(m) \cup {n + 1}
        /\ \A o \in Macros : TermLinesOf(o) \subseteq 1..n
    <3>1. /\ sentLines'[m] = c + 1
          /\ \A o \in Macros \ {m} : sentLines'[o] = sentLines[o]
      BY <1>0, <2>1
    <3>2. \A o : TermLinesOf(o) = {i \in 1..n : sent[i][1] = o}
      BY <2>3 DEF TermLinesOf
    <3>3. \A o : TermLinesOf(o)' = {i \in 1..(n + 1) : sent'[i][1] = o}
      BY <2>3 DEF TermLinesOf
    <3>4. ASSUME NEW o \in Macros \ {m} PROVE TermLinesOf(o)' = TermLinesOf(o)
      <4>1. /\ TermLinesOf(o) = {i \in 1..n : sent[i][1] = o}
            /\ TermLinesOf(o)' = {i \in 1..(n + 1) : sent'[i][1] = o}
        BY <3>2, <3>3
      <4>2. sent'[n + 1][1] # o
        BY <2>2, <2>3
      <4> QED
        BY <2>3, <4>1, <4>2
    <3>5. TermLinesOf(m)' = TermLinesOf(m) \cup {n + 1}
      BY <2>2, <2>3, <3>2, <3>3
    <3> QED
      BY <3>1, <3>2, <3>4, <3>5
  <2>6. ASSUME NEW o \in Macros \ {m} PROVE TermSnippet(o)'
    <3>0. TermSnippet(o) /\ TermSnippet(m)
      BY DEF TermIInv, TermSnippets
    <3>1. \A i \in TermLinesOf(o) : sent'[i] = sent[i]
      BY <2>3, <2>5
    <3>2. /\ TermLinesOf(o)' = TermLinesOf(o) /\ sentLines'[o] = sentLines[o]
          /\ macro'[o] = macro[o] /\ overlapped' = overlapped
      BY <1>0, <2>1, <2>5
    <3>3. {sent'[i][2] : i \in TermLinesOf(o)} = 1..sentLines[o]
      BY <3>0, <3>1 DEF TermSnippet
    <3>4. \A i, j \in TermLinesOf(o) : i < j => sent'[i][2] < sent'[j][2]
      BY <3>0, <3>1 DEF TermSnippet
    <3>5. macro[o] = "sending" => o \in overlapped
      BY <1>0, <3>0 DEF TermSnippet
    <3>6. macro[o] \in {"idle", "meta"} => sentLines[o] = 0
      BY <3>0 DEF TermSnippet
    <3>7. macro[o] = "done" => sentLines[o] = Lines
      BY <3>0 DEF TermSnippet
    <3>8. o \notin overlapped => \A i, j \in TermLinesOf(o) : \A k \in i..j : k \in TermLinesOf(o)
      BY <3>0 DEF TermSnippet
    <3>9. macro[o] \in {"meta", "sending"} =>
            \A p \in Macros \ {o} : macro[p] \in {"meta", "sending"} => o \in overlapped
      BY <3>0 DEF TermSnippet
    <3>10. /\ {sent'[i][2] : i \in TermLinesOf(o)'} = 1..sentLines'[o]
           /\ \A i, j \in TermLinesOf(o)' : i < j => sent'[i][2] < sent'[j][2]
           /\ o \notin overlapped' => \A i, j \in TermLinesOf(o)' : \A k \in i..j : k \in TermLinesOf(o)'
      BY <3>2, <3>3, <3>4, <3>8
    <3>11. \A p \in Macros : macro'[p] = macro[p]
      BY <2>1
    <3>12. /\ macro'[o] \in {"idle", "meta"} => sentLines'[o] = 0
           /\ macro'[o] = "done" => sentLines'[o] = Lines
           /\ ~(o \notin overlapped' /\ macro'[o] = "sending")
           /\ macro'[o] \in {"meta", "sending"} =>
                \A p \in Macros \ {o} : macro'[p] \in {"meta", "sending"} => o \in overlapped'
      BY <3>2, <3>5, <3>6, <3>7, <3>9, <3>11
    <3> QED
      BY <3>10, <3>12 DEF TermSnippet
  <2>7. TermSnippet(m)'
    <3>0. TermSnippet(m)
      BY DEF TermIInv, TermSnippets
    <3>1. /\ TermLinesOf(m)' = TermLinesOf(m) \cup {n + 1} /\ sentLines'[m] = c + 1
          /\ macro'[m] = "sending"
          /\ overlapped' = overlapped /\ TermLinesOf(m) \subseteq 1..n
      BY <1>0, <2>1, <2>5
    <3>2. \A i \in TermLinesOf(m) : sent'[i] = sent[i] /\ sent[i][2] \in 1..c
      BY <2>3, <2>5, <3>0 DEF TermSnippet
    <3>3. {sent'[i][2] : i \in TermLinesOf(m)'} = 1..(c + 1)
      <4>1. {sent'[i][2] : i \in TermLinesOf(m)} = 1..c
        BY <3>0, <3>2 DEF TermSnippet
      <4>2. {sent'[i][2] : i \in TermLinesOf(m)'} = 1..c \cup {c + 1}
        <5>1. sent'[n + 1][2] = c + 1
          BY <2>2, <2>3
        <5> DEFINE f(i) == sent'[i][2]
        <5>2. /\ {f(i) : i \in TermLinesOf(m)} = 1..c /\ f(n + 1) = c + 1
              /\ TermLinesOf(m)' = TermLinesOf(m) \cup {n + 1}
          BY <3>1, <4>1, <5>1
        <5> HIDE DEF f
        <5>3. {f(i) : i \in TermLinesOf(m)'} = 1..c \cup {c + 1}
          BY <5>2
        <5> QED
          BY <5>3 DEF f
      <4> QED
        BY <2>2, <4>2
    <3>4. \A i, j \in TermLinesOf(m)' : i < j => sent'[i][2] < sent'[j][2]
      <4> SUFFICES ASSUME NEW i \in TermLinesOf(m)', NEW j \in TermLinesOf(m)', i < j
                   PROVE  sent'[i][2] < sent'[j][2]
        OBVIOUS
      <4>1. CASE j = n + 1
        <5>1. i \in TermLinesOf(m)
          BY <2>3, <3>1, <4>1
        <5> QED
          BY <2>2, <2>3, <3>2, <4>1, <5>1
      <4>2. CASE j # n + 1
        <5>1. i \in TermLinesOf(m) /\ j \in TermLinesOf(m)
          BY <2>3, <3>1, <4>2
        <5> QED
          BY <3>0, <3>2, <5>1 DEF TermSnippet
      <4> QED
        BY <4>1, <4>2
    <3>5. m \notin overlapped => \A i, j \in TermLinesOf(m)' : \A k \in i..j : k \in TermLinesOf(m)'
      <4> SUFFICES ASSUME m \notin overlapped, NEW i \in TermLinesOf(m)', NEW j \in TermLinesOf(m)',
                          NEW k \in i..j
                   PROVE  k \in TermLinesOf(m)'
        OBVIOUS
      <4>1. i \in 1..(n + 1) /\ j \in 1..(n + 1)
        BY <2>3, <3>1
      <4>2. CASE k = n + 1
        BY <3>1, <4>2
      <4>3. CASE k # n + 1
        <5>1. k \in i..n /\ i \in TermLinesOf(m)
          BY <2>3, <3>1, <4>1, <4>3
        <5>2. c > 0
          BY <2>2, <3>2, <5>1
        <5>3. n \in TermLinesOf(m)
          BY <1>0, <3>0, <5>2 DEF TermSnippet, n
        <5> QED
          BY <3>0, <3>1, <5>1, <5>3 DEF TermSnippet
      <4> QED
        BY <4>2, <4>3
    <3>6. Len(sent') \in TermLinesOf(m)'
      BY <2>3, <3>1
    <3>7. \A p \in Macros \ {m} : macro[p] \in {"meta", "sending"} => m \in overlapped
      BY <1>0, <3>0 DEF TermSnippet
    <3> QED
      BY <2>1, <3>1, <3>3, <3>4, <3>5, <3>6, <3>7 DEF TermSnippet
  <2>8. TermSnippets'
    BY <2>6, <2>7 DEF TermSnippets
  <2> QED
    BY <1>1, <2>4, <2>8 DEF TermIInv
<1>3. CASE sentLines[m] = Lines
  <2>1. macro' = [macro EXCEPT ![m] = "done"] /\ menu' = FALSE /\ UNCHANGED <<sentLines, sent>>
    BY <1>3 DEF Term!SendLine
  <2>2. Term!TypeOK'
    BY <1>0, <2>1 DEF TermIInv, Term!TypeOK, Term!outputVars
  <2>3. ASSUME NEW o \in Macros PROVE TermSnippet(o)'
    <3>0. TermSnippet(o)
      BY DEF TermIInv, TermSnippets
    <3>1. TermLinesOf(o)' = TermLinesOf(o)
      BY <2>1 DEF TermLinesOf
    <3>2. macro'[o] = IF o = m THEN "done" ELSE macro[o]
      BY <1>0, <2>1
    <3>3. \A p \in Macros : macro'[p] \in {"meta", "sending"} => macro[p] \in {"meta", "sending"}
      BY <1>0, <2>1
    <3> QED
      BY <1>0, <1>3, <2>1, <3>0, <3>1, <3>2, <3>3 DEF TermSnippet
  <2> QED
    BY <1>1, <2>2, <2>3 DEF TermIInv, TermSnippets
<1>4. sentLines[m] < Lines \/ sentLines[m] = Lines
  BY <1>0
<1> QED
  BY <1>2, <1>3, <1>4

\* A snippet is chosen beside those that run, or its variables are known.
LEMMA TermChooseIInv == ASSUME TermIInv, NEW m \in Macros,
                               Term!ChooseSnippet(m) \/ Term!MetaAnswers(m)
                        PROVE  TermIInv'
<1>0. /\ macro \in [Macros -> {"idle", "meta", "sending", "done"}]
      /\ sentLines \in [Macros -> 0..Lines]
      /\ overlapped \subseteq Macros /\ UNCHANGED <<Term!outputVars, menu, sentLines, sent>>
  BY DEF TermIInv, Term!TypeOK, Term!ChooseSnippet, Term!MetaAnswers
<1>1. TermOutput'
  BY <1>0, TermOutputStays DEF TermIInv
<1>2. /\ macro' \in [Macros -> {"idle", "meta", "sending", "done"}]
      /\ overlapped \subseteq overlapped' /\ overlapped' \subseteq Macros
  BY <1>0 DEF Term!ChooseSnippet, Term!MetaAnswers, Term!Running
<1>3. Term!TypeOK'
  BY <1>0, <1>2 DEF TermIInv, Term!TypeOK, Term!outputVars
<1>4. ASSUME NEW o \in Macros PROVE TermSnippet(o)'
  <2>0. TermSnippet(o) /\ TermSnippet(m)
    BY DEF TermIInv, TermSnippets
  <2>1. TermLinesOf(o)' = TermLinesOf(o) /\ sentLines' = sentLines /\ sent' = sent
    BY <1>0 DEF TermLinesOf
  <2>2. CASE Term!ChooseSnippet(m)
    <3>1. macro[m] = "idle" /\ macro' = [macro EXCEPT ![m] = "meta"]
      BY <2>2 DEF Term!ChooseSnippet
    <3>2. overlapped' = IF Term!Running = {} THEN overlapped ELSE overlapped \cup Term!Running \cup {m}
      BY <2>2 DEF Term!ChooseSnippet
    <3>3. macro'[o] = IF o = m THEN "meta" ELSE macro[o]
      BY <1>0, <3>1
    <3>4. ASSUME NEW p \in Macros \ {o}, macro'[o] \in {"meta", "sending"},
                 macro'[p] \in {"meta", "sending"}
          PROVE  o \in overlapped'
      <4>1. macro'[p] = IF p = m THEN "meta" ELSE macro[p]
        BY <1>0, <3>1
      <4>2. CASE o = m
        BY <3>2, <3>4, <4>1, <4>2 DEF Term!Running
      <4>3. CASE p = m
        BY <3>2, <3>3, <3>4, <4>3 DEF Term!Running
      <4>4. CASE o # m /\ p # m
        <5>1. o \in overlapped
          BY <2>0, <3>3, <3>4, <4>1, <4>4 DEF TermSnippet
        <5> QED
          BY <1>2, <5>1
      <4> QED
        BY <4>2, <4>3, <4>4
    <3>5. macro'[o] = "sending" => macro[o] = "sending"
      BY <3>3
    <3>6. macro'[o] = "done" => macro[o] = "done"
      BY <3>3
    <3>7. macro'[o] \in {"idle", "meta"} => macro[o] \in {"idle", "meta"}
      BY <3>1, <3>3
    <3> QED
      BY <1>2, <2>0, <2>1, <3>4, <3>5, <3>6, <3>7 DEF TermSnippet
  <2>3. CASE Term!MetaAnswers(m)
    <3>1. macro[m] = "meta" /\ macro' = [macro EXCEPT ![m] = "sending"] /\ overlapped' = overlapped
      BY <2>3 DEF Term!MetaAnswers
    <3>2. macro'[o] = IF o = m THEN "sending" ELSE macro[o]
      BY <1>0, <3>1
    <3>3. \A p \in Macros : macro'[p] \in {"meta", "sending"} <=> macro[p] \in {"meta", "sending"}
      BY <1>0, <3>1
    <3>4. sentLines[m] = 0
      BY <2>0, <3>1 DEF TermSnippet
    <3>5. macro'[o] = "sending" /\ sentLines[o] > 0 => macro[o] = "sending"
      BY <3>2, <3>4
    <3>6. macro'[o] = "done" => macro[o] = "done"
      BY <3>2
    <3>7. macro'[o] \in {"idle", "meta"} => macro[o] \in {"idle", "meta"}
      BY <3>2
    <3> QED
      BY <2>0, <2>1, <3>1, <3>3, <3>5, <3>6, <3>7 DEF TermSnippet
  <2> QED
    BY <2>2, <2>3
<1> QED
  BY <1>1, <1>3, <1>4 DEF TermIInv, TermSnippets

LEMMA TermNextIInv == TermIInv /\ [Term!Next]_(Term!vars) => TermIInv'
<1> SUFFICES ASSUME TermIInv, [Term!Next]_(Term!vars) PROVE TermIInv'
  OBVIOUS
<1>1. CASE Term!Mount \/ Term!Activate
  <2>0. mounted' \in BOOLEAN /\ shown' \in BOOLEAN /\ frame' \in BOOLEAN
    BY <1>1 DEF TermIInv, Term!TypeOK, Term!Mount, Term!Activate
  <2>1. UNCHANGED <<emitted, pending, written, heard, dropped, Term!macroVars>>
    BY <1>1 DEF Term!Mount, Term!Activate
  <2>2. Term!TypeOK'
    BY <2>0, <2>1 DEF TermIInv, Term!TypeOK, Term!macroVars
  <2>3. TermSnippets'
    BY <2>1, TermSnippetsStay DEF TermIInv, Term!macroVars
  <2>4. (shown' /\ ~frame' => pending = <<>>) /\ (~shown' /\ ~frame' => Len(pending) <= Limit)
    <3>1. Len(<<>>) = 0 /\ 0 <= Limit
      BY EmptySeq
    <3>2. /\ shown /\ ~frame => pending = <<>>
          /\ ~shown /\ ~frame => Len(pending) <= Limit
      BY DEF TermIInv, TermOutput
    <3>3. CASE Term!Mount
      BY <3>2, <3>3 DEF Term!Mount
    <3>4. CASE Term!Activate
      BY <3>1, <3>2, <3>4 DEF Term!Activate
    <3> QED
      BY <1>1, <3>3, <3>4
  <2>5. TermOutput'
    BY <2>1, <2>4 DEF TermIInv, TermOutput
  <2> QED
    BY <2>2, <2>3, <2>5 DEF TermIInv
<1>2. CASE Term!ToggleMenu \/ UNCHANGED Term!vars
  <2>1. UNCHANGED <<Term!outputVars, macro, sentLines, sent, overlapped>> /\ menu' \in BOOLEAN
    BY <1>2 DEF TermIInv, Term!TypeOK, Term!ToggleMenu, Term!vars, Term!macroVars
  <2>2. Term!TypeOK'
    BY <2>1 DEF TermIInv, Term!TypeOK, Term!outputVars
  <2> QED
    BY <2>1, <2>2, TermSnippetsStay, TermOutputStays DEF TermIInv
<1> QED
  BY <1>1, <1>2, TermOnOutputIInv, TermFlushIInv, TermSendLineIInv, TermChooseIInv DEF Term!Next



\* The terminal keeps the types of its state (TerminalView.tsx).
THEOREM TermTypeCorrect == Term!Init /\ [][Term!Next]_(Term!vars) => []Term!TypeOK
<1>1. TermIInv => Term!TypeOK
  BY DEF TermIInv
<1> QED
  BY <1>1, TermInitIInv, TermNextIInv, PTL

\* Output comes out whole and in order, whatever frames, chunks and changes of the tab come
\* between (TerminalView.tsx scheduleFlush).
THEOREM TermOutputIsWhole == Term!Init /\ [][Term!Next]_(Term!vars) => []Term!OutputIsWhole
<1>1. TermIInv => Term!OutputIsWhole
  <2> SUFFICES ASSUME TermIInv PROVE Term!OutputIsWhole
    OBVIOUS
  <2>1. written \in Seq(Nat) /\ pending \in Seq(Nat)
    BY SeqMonotonic DEF TermIInv, Term!TypeOK
  <2>2. /\ Elements(written \o pending) = Elements(written) \cup Elements(pending)
        /\ Rising(written \o pending)
    BY <2>1, ConcatElements, ConcatRises DEF TermIInv, TermOutput
  <2>3. Term!Range(written \o pending) = heard \ dropped
    BY <2>2 DEF Term!Range, Elements, TermIInv, TermOutput
  <2>4. \A c \in dropped, i \in DOMAIN pending : c < pending[i]
    BY DEF TermIInv, TermOutput, Elements
  <2>5. ~frame /\ ~shown => Len(pending) <= Limit
    BY DEF TermIInv, TermOutput
  <2> QED
    BY <2>2, <2>3, <2>4, <2>5 DEF Term!OutputIsWhole, Rising
<1> QED
  BY <1>1, TermInitIInv, TermNextIInv, PTL

\* The lines of a snippet are sent each once, in order, and next to each other unless two
\* snippets run at once (TerminalView.tsx sendSnippet).
THEOREM TermSnippetsAreWhole == Term!Init /\ [][Term!Next]_(Term!vars) => []Term!SnippetsAreWhole
<1>1. TermIInv => Term!SnippetsAreWhole
  BY DEF TermIInv, TermSnippets, TermSnippet, TermLinesOf, Term!SnippetsAreWhole
<1> QED
  BY <1>1, TermInitIInv, TermNextIInv, PTL

HIDE TermAssumption

-----------------------------------------------------------------------------
(* Questions to the AI *)

USE AiAssumption

\* Of one request the pieces come in order, and its end comes last.
AiBefore(d, e) == d[1] = e[1] => d[2] # 0 /\ (e[2] = 0 \/ d[2] < e[2])
AiInOrder(q) == \A i, j \in DOMAIN q : i < j => AiBefore(q[i], q[j])

\* The end of a queue in order is in order, after its head.
LEMMA AiTailInOrder ==
    ASSUME NEW S, NEW q \in Seq(S), q # <<>>, AiInOrder(q)
    PROVE  AiInOrder(Tail(q)) /\ \A e \in Elements(Tail(q)) : AiBefore(Head(q), e)
<1> DEFINE n == Len(q)
           t == Tail(q)
<1>1. /\ Head(q) = q[1] /\ n \in Nat \ {0} /\ DOMAIN q = 1..n /\ DOMAIN t = 1..(n - 1)
      /\ \A i \in 1..(n - 1) : t[i] = q[i + 1]
  BY TailElements
<1> HIDE DEF n, t
<1>2. ASSUME NEW i \in 1..(n - 1), NEW j \in 1..(n - 1), i < j PROVE AiBefore(t[i], t[j])
  <2>1. i + 1 \in 1..n /\ j + 1 \in 1..n /\ i + 1 < j + 1 /\ t[i] = q[i + 1] /\ t[j] = q[j + 1]
    BY <1>1, <1>2
  <2> QED
    BY <1>1, <2>1 DEF AiInOrder
<1>3. ASSUME NEW i \in 1..(n - 1) PROVE AiBefore(q[1], t[i])
  <2>1. i + 1 \in 1..n /\ 1 \in 1..n /\ 1 < i + 1 /\ t[i] = q[i + 1]
    BY <1>1
  <2> QED
    BY <1>1, <2>1 DEF AiInOrder
<1> QED
  BY <1>1, <1>2, <1>3 DEF AiInOrder, Elements, t

\* One more, after all others.
LEMMA AiAppendInOrder ==
    ASSUME NEW S, NEW q \in Seq(S), NEW e \in S, AiInOrder(q), \A d \in Elements(q) : AiBefore(d, e)
    PROVE  AiInOrder(Append(q, e))
<1> DEFINE n == Len(q)
           t == Append(q, e)
<1>1. /\ n \in Nat /\ DOMAIN q = 1..n /\ DOMAIN t = 1..(n + 1)
      /\ (\A i \in 1..n : t[i] = q[i]) /\ t[n + 1] = e
  BY AppendElements
<1> HIDE DEF n, t
<1> SUFFICES ASSUME NEW i \in 1..(n + 1), NEW j \in 1..(n + 1), i < j PROVE AiBefore(t[i], t[j])
  BY <1>1 DEF AiInOrder, t
<1>2. i \in 1..n /\ t[i] = q[i]
  BY <1>1
<1>3. CASE j = n + 1
  BY <1>1, <1>2, <1>3 DEF Elements
<1>4. CASE j # n + 1
  <2>1. j \in 1..n /\ t[j] = q[j]
    BY <1>1, <1>4
  <2> QED
    BY <1>1, <1>2, <2>1 DEF AiInOrder
<1> QED
  BY <1>3, <1>4

\* The events of r that are on their way.
AiQueued(r) == {e \in Elements(events) : e[1] = r}

\* What waits is of requests that were started: pieces that were produced, and an end when
\* the request is over.
AiQueue ==
    /\ AiInOrder(events)
    /\ \A e \in Elements(events) :
         /\ stage[e[1]] \notin {"free", "called"}
         /\ e[2] <= produced[e[1]]
         /\ e[2] = 0 => stage[e[1]] = "over"

\* A view shows a request of its own.
AiOwn ==
    /\ \A v \in Ai!Views : mine[v] # Ai!NoReq => asker[mine[v]] = v /\ stage[mine[v]] # "free"
    /\ \A r \in Ai!Reqs : stage[r] \in {"free", "called"} => produced[r] = 0

\* A request that goes on, here or on the way.
AiLive(r) == stage[r] \in {"called", "streaming", "cancelled"} \/ AiQueued(r) # {}

\* A terminal has one such request, which it shows and waits for.
AiAlone ==
    \A v \in Terminals :
        /\ ~crossed[v]
        /\ \A r \in Ai!Reqs : asker[r] = v /\ AiLive(r) => busy[v] /\ mine[v] = r

\* What view v shows is the answer so far.
AiAnswered(v) ==
    mine[v] # Ai!NoReq /\ ~crossed[v] =>
        /\ \A i \in DOMAIN answer[v] : answer[v][i] = <<mine[v], i>>
        /\ Len(answer[v]) <= produced[mine[v]]
        /\ {e[2] : e \in {d \in AiQueued(mine[v]) : d[2] # 0}} = (Len(answer[v]) + 1)..produced[mine[v]]

AiAnswers == \A v \in Ai!Views : AiAnswered(v)

AiIInv == Ai!TypeOK /\ AiQueue /\ AiOwn /\ AiAlone /\ AiAnswers

LEMMA AiInitIInv == Ai!Init => AiIInv
<1> SUFFICES ASSUME Ai!Init PROVE AiIInv
  OBVIOUS
<1>0. /\ <<>> \in Seq(Ai!Reqs \X (0..MaxDeltas)) /\ <<>> \in Seq(Ai!Pieces) /\ Elements(<<>>) = {}
      /\ AiInOrder(<<>>)
  BY EmptySeq DEF Elements, AiInOrder
<1>1. Ai!TypeOK
  <2>1. /\ asker \in [Ai!Reqs -> Ai!Views \cup {Ai!NoReq}]
        /\ mine \in [Ai!Views -> Ai!Reqs \cup {Ai!NoReq}]
        /\ stage \in [Ai!Reqs -> {"free", "called", "streaming", "cancelled", "over"}]
    BY DEF Ai!Init
  <2>2. produced \in [Ai!Reqs -> 0..MaxDeltas]
    BY DEF Ai!Init
  <2>3. busy \in [Ai!Views -> BOOLEAN] /\ crossed \in [Ai!Views -> BOOLEAN]
    BY DEF Ai!Init
  <2>4. stream \in [Ai!Views -> Seq(Ai!Pieces)] /\ answer \in [Ai!Views -> Seq(Ai!Pieces)]
    BY <1>0 DEF Ai!Init
  <2> QED
    BY <1>0, <2>1, <2>2, <2>3, <2>4 DEF Ai!Init, Ai!TypeOK
<1>2. AiQueue
  BY <1>0 DEF Ai!Init, AiQueue
<1>3. AiOwn
  BY DEF Ai!Init, AiOwn
<1>4. AiAlone
  BY <1>0 DEF Ai!Init, AiAlone, AiLive, AiQueued, Ai!Views
<1>5. AiAnswers
  BY DEF Ai!Init, AiAnswers, AiAnswered
<1> QED
  BY <1>1, <1>2, <1>3, <1>4, <1>5 DEF AiIInv

\* A question is asked.
LEMMA AiAskIInv == ASSUME AiIInv, NEW v \in Ai!Views, NEW r \in Ai!Reqs, Ai!Ask(v, r) PROVE AiIInv'
<1>0. /\ stage \in [Ai!Reqs -> {"free", "called", "streaming", "cancelled", "over"}]
      /\ asker \in [Ai!Reqs -> Ai!Views \cup {Ai!NoReq}]
      /\ mine \in [Ai!Views -> Ai!Reqs \cup {Ai!NoReq}]
      /\ busy \in [Ai!Views -> BOOLEAN] /\ crossed \in [Ai!Views -> BOOLEAN]
      /\ answer \in [Ai!Views -> Seq(Ai!Pieces)] /\ stream \in [Ai!Views -> Seq(Ai!Pieces)]
      /\ produced \in [Ai!Reqs -> 0..MaxDeltas]
  BY DEF AiIInv, Ai!TypeOK
<1>1. /\ stage[r] = "free" /\ UNCHANGED <<produced, aiCancel, cancels, events>>
      /\ asker' = [asker EXCEPT ![r] = v]
      /\ stage' = [stage EXCEPT ![r] = "called"]
      /\ busy' = [busy EXCEPT ![v] = TRUE]
      /\ stream' = [stream EXCEPT ![v] = <<>>]
      /\ answer' = [answer EXCEPT ![v] = <<>>]
      /\ mine' = [mine EXCEPT ![v] = r] /\ crossed' = [crossed EXCEPT ![v] = FALSE]
  BY DEF Ai!Ask
<1>2. \A q \in Ai!Reqs : stage'[q] = (IF q = r THEN "called" ELSE stage[q]) /\ asker'[q] = IF q = r THEN v ELSE asker[q]
  BY <1>0, <1>1
<1>3. /\ \A w \in Ai!Views : mine'[w] = (IF w = v THEN r ELSE mine[w]) /\ answer'[w] = IF w = v THEN <<>> ELSE answer[w]
      /\ \A w \in Ai!Views : busy'[w] = (IF w = v THEN TRUE ELSE busy[w]) /\ crossed'[w] = IF w = v THEN FALSE ELSE crossed[w]
  BY <1>0, <1>1
<1>4. AiQueued(r) = {} /\ \A q : AiQueued(q)' = AiQueued(q)
  BY <1>1 DEF AiIInv, AiQueue, AiQueued
<1>5. \A w \in Ai!Views : mine[w] # r
  BY <1>1 DEF AiIInv, AiOwn, Ai!NoReq, Ai!Reqs
<1>6. Ai!TypeOK'
  <2>1. <<>> \in Seq(Ai!Pieces)
    BY EmptySeq
  <2>2. stage' \in [Ai!Reqs -> {"free", "called", "streaming", "cancelled", "over"}]
        /\ asker' \in [Ai!Reqs -> Ai!Views \cup {Ai!NoReq}]
        /\ mine' \in [Ai!Views -> Ai!Reqs \cup {Ai!NoReq}]
    BY <1>0, <1>1
  <2>3. busy' \in [Ai!Views -> BOOLEAN] /\ crossed' \in [Ai!Views -> BOOLEAN]
    BY <1>0, <1>1
  <2>4. answer' \in [Ai!Views -> Seq(Ai!Pieces)] /\ stream' \in [Ai!Views -> Seq(Ai!Pieces)]
    BY <1>0, <1>1, <2>1
  <2> QED
    BY <1>1, <2>2, <2>3, <2>4 DEF AiIInv, Ai!TypeOK
<1>7. AiQueue'
  <2>1. \A e \in Elements(events) : e[1] \in Ai!Reqs /\ e[1] # r
    <3>1. \A i \in DOMAIN events : events[i] \in Ai!Reqs \X (0..MaxDeltas)
      BY DEF AiIInv, Ai!TypeOK
    <3> QED
      BY <1>1, <3>1 DEF AiIInv, AiQueue, Elements
  <2> QED
    BY <1>1, <1>2, <2>1 DEF AiIInv, AiQueue
<1>8. AiOwn'
  BY <1>0, <1>1, <1>2, <1>3, <1>5 DEF AiIInv, AiOwn
<1>9. AiAlone'
  <2> SUFFICES ASSUME NEW w \in Terminals
               PROVE  ~crossed'[w] /\ \A q \in Ai!Reqs : asker'[q] = w /\ AiLive(q)' => busy'[w] /\ mine'[w] = q
    BY DEF AiAlone
  <2>1. w \in Ai!Views
    BY DEF Ai!Views
  <2>2. \A q \in Ai!Reqs : q # r => (AiLive(q)' <=> AiLive(q))
    BY <1>2, <1>4 DEF AiLive
  <2>3. v = w => ~busy[v]
    BY DEF Ai!Ask, Ai!SendButton, Ai!ExplainButton
  <2>4. crossed'[w] = FALSE
    <3>1. crossed[w] = FALSE
      BY <1>0, <2>1 DEF AiIInv, AiAlone
    <3> QED
      BY <1>3, <2>1, <3>1
  <2>5. ASSUME NEW q \in Ai!Reqs, asker'[q] = w, AiLive(q)' PROVE busy'[w] /\ mine'[w] = q
    <3>1. CASE q = r
      BY <1>2, <1>3, <2>1, <2>5, <3>1
    <3>2. CASE q # r
      <4>1. asker[q] = w /\ AiLive(q)
        BY <1>2, <2>2, <2>5, <3>2
      <4>2. busy[w] /\ mine[w] = q
        BY <4>1 DEF AiIInv, AiAlone
      <4>3. w # v
        BY <2>3, <4>2
      <4> QED
        BY <1>3, <2>1, <4>2, <4>3
    <3> QED
      BY <3>1, <3>2
  <2> QED
    BY <2>4, <2>5
<1>10. AiAnswers'
  <2> SUFFICES ASSUME NEW w \in Ai!Views PROVE AiAnswered(w)'
    BY DEF AiAnswers
  <2>1. CASE w = v
    <3>1. produced'[r] = 0 /\ answer'[w] = <<>> /\ mine'[w] = r /\ AiQueued(r)' = {}
      BY <1>1, <1>3, <1>4, <2>1 DEF AiIInv, AiOwn
    <3>2. Len(answer'[w]) = 0 /\ DOMAIN answer'[w] = {}
      BY <3>1
    <3>3. {e[2] : e \in {d \in AiQueued(mine[w])' : d[2] # 0}} = {}
      <4>1. AiQueued(mine[w])' = {}
        BY <1>4, <3>1
      <4> QED
        BY <4>1
    <3>4. (Len(answer'[w]) + 1)..produced'[mine'[w]] = {}
      BY <3>1, <3>2
    <3>5. Len(answer'[w]) <= produced'[mine'[w]]
      BY <3>1, <3>2
    <3> QED
      BY <3>2, <3>3, <3>4, <3>5 DEF AiAnswered
  <2>2. CASE w # v
    BY <1>1, <1>3, <1>4, <2>2 DEF AiIInv, AiAnswers, AiAnswered
  <2> QED
    BY <2>1, <2>2
<1> QED
  BY <1>6, <1>7, <1>8, <1>9, <1>10 DEF AiIInv
\* What the events and requests have by their types.
LEMMA AiTyped ==
    ASSUME AiIInv
    PROVE  /\ events \in Seq(Ai!Reqs \X (0..MaxDeltas))
           /\ \A e \in Elements(events) : e \in Ai!Reqs \X (0..MaxDeltas)
           /\ stage \in [Ai!Reqs -> {"free", "called", "streaming", "cancelled", "over"}]
           /\ asker \in [Ai!Reqs -> Ai!Views \cup {Ai!NoReq}]
           /\ mine \in [Ai!Views -> Ai!Reqs \cup {Ai!NoReq}]
           /\ busy \in [Ai!Views -> BOOLEAN] /\ crossed \in [Ai!Views -> BOOLEAN]
           /\ answer \in [Ai!Views -> Seq(Ai!Pieces)] /\ stream \in [Ai!Views -> Seq(Ai!Pieces)]
           /\ produced \in [Ai!Reqs -> 0..MaxDeltas] /\ aiCancel \in Ai!Reqs \cup {Ai!NoReq}
           /\ cancels \subseteq Panels
BY DEF AiIInv, Ai!TypeOK, Elements

\* A request goes on in the back end, which no view sees.
LEMMA AiStageIInv ==
    ASSUME AiIInv, UNCHANGED <<asker, produced, events, Ai!view>>,
           stage' \in [Ai!Reqs -> {"free", "called", "streaming", "cancelled", "over"}],
           aiCancel' \in Ai!Reqs \cup {Ai!NoReq}, cancels' \subseteq Panels,
           \A q \in Ai!Reqs : \/ stage'[q] = stage[q]
                              \/ stage[q] \in {"called", "streaming"} /\ stage'[q] \in {"streaming", "cancelled"}
    PROVE  AiIInv'
<1>1. UNCHANGED <<busy, stream, answer, mine, crossed>> /\ \A q : AiQueued(q)' = AiQueued(q)
  BY DEF Ai!view, AiQueued
<1>2. Ai!TypeOK'
  BY <1>1 DEF AiIInv, Ai!TypeOK
<1>3. AiQueue'
  <2>1. \A e \in Elements(events) : e[1] \in Ai!Reqs
    BY AiTyped
  <2>2. \A e \in Elements(events) : /\ stage'[e[1]] \notin {"free", "called"}
                                    /\ e[2] = 0 => stage'[e[1]] = "over"
    BY <2>1 DEF AiIInv, AiQueue
  <2> QED
    BY <2>2 DEF AiIInv, AiQueue
<1>4. AiOwn'
  <2>1. \A q \in Ai!Reqs : (stage'[q] = "free" => stage[q] = "free") /\ (stage'[q] = "called" => stage[q] = "called")
    OBVIOUS
  <2>2. \A v \in Ai!Views : mine[v] # Ai!NoReq => asker[mine[v]] = v /\ stage'[mine[v]] # "free"
    BY <2>1, AiTyped DEF AiIInv, AiOwn
  <2>3. \A q \in Ai!Reqs : stage'[q] \in {"free", "called"} => produced[q] = 0
    BY <2>1 DEF AiIInv, AiOwn
  <2> QED
    BY <1>1, <2>2, <2>3 DEF AiOwn
<1>5. AiAlone'
  <2>1. \A q \in Ai!Reqs : AiLive(q)' => AiLive(q)
    BY <1>1 DEF AiLive
  <2> QED
    BY <1>1, <2>1, Zenon DEF AiIInv, AiAlone
<1>6. AiAnswers'
  BY <1>1 DEF AiIInv, AiAnswers, AiAnswered
<1> QED
  BY <1>2, <1>3, <1>4, <1>5, <1>6 DEF AiIInv

LEMMA AiCancelledStage ==
    ASSUME AiIInv
    PROVE  /\ Ai!Cancelled(stage, aiCancel) \in [Ai!Reqs -> {"free", "called", "streaming", "cancelled", "over"}]
           /\ \A q \in Ai!Reqs : \/ Ai!Cancelled(stage, aiCancel)[q] = stage[q]
                                 \/ stage[q] = "streaming" /\ Ai!Cancelled(stage, aiCancel)[q] = "cancelled"
<1>0. stage \in [Ai!Reqs -> {"free", "called", "streaming", "cancelled", "over"}]
  BY AiTyped
<1>1. CASE aiCancel # Ai!NoReq /\ stage[aiCancel] = "streaming"
  <2>1. Ai!Cancelled(stage, aiCancel) = [stage EXCEPT ![aiCancel] = "cancelled"]
    BY <1>1 DEF Ai!Cancelled
  <2> QED
    BY <1>0, <1>1, <2>1
<1>2. CASE ~(aiCancel # Ai!NoReq /\ stage[aiCancel] = "streaming")
  <2>1. Ai!Cancelled(stage, aiCancel) = stage
    BY <1>2 DEF Ai!Cancelled
  <2> QED
    BY <1>0, <2>1
<1> QED
  BY <1>1, <1>2

LEMMA AiCallsIInv ==
    ASSUME AiIInv,
           (\E r \in Ai!Reqs : Ai!Start(r)) \/ (\E p \in Panels : Ai!AiCancel(p)) \/ UNCHANGED Ai!vars
    PROVE  AiIInv'
<1>1. ASSUME NEW r \in Ai!Reqs, Ai!Start(r) PROVE AiIInv'
  <2>0. /\ stage[r] = "called" /\ stage' = [Ai!Cancelled(stage, aiCancel) EXCEPT ![r] = "streaming"]
        /\ aiCancel' = r /\ UNCHANGED <<asker, produced, cancels, events, Ai!view>>
    BY <1>1 DEF Ai!Start
  <2>1. /\ stage' \in [Ai!Reqs -> {"free", "called", "streaming", "cancelled", "over"}]
        /\ \A q \in Ai!Reqs : \/ stage'[q] = stage[q]
                              \/ stage[q] \in {"called", "streaming"} /\ stage'[q] \in {"streaming", "cancelled"}
    BY <2>0, AiCancelledStage
  <2>2. aiCancel' \in Ai!Reqs \cup {Ai!NoReq} /\ cancels' \subseteq Panels
    BY <2>0, AiTyped
  <2> QED
    BY <2>0, <2>1, <2>2, AiStageIInv
<1>2. ASSUME NEW p \in Panels, Ai!AiCancel(p) PROVE AiIInv'
  <2>0. /\ stage' = Ai!Cancelled(stage, aiCancel) /\ aiCancel' = Ai!NoReq
        /\ cancels' = cancels \ {p}
        /\ UNCHANGED <<asker, produced, events, Ai!view>>
    BY <1>2 DEF Ai!AiCancel
  <2>1. /\ stage' \in [Ai!Reqs -> {"free", "called", "streaming", "cancelled", "over"}]
        /\ \A q \in Ai!Reqs : \/ stage'[q] = stage[q]
                              \/ stage[q] \in {"called", "streaming"} /\ stage'[q] \in {"streaming", "cancelled"}
    BY <2>0, AiCancelledStage
  <2>2. aiCancel' \in Ai!Reqs \cup {Ai!NoReq} /\ cancels' \subseteq Panels
    BY <2>0, AiTyped
  <2> QED
    BY <2>0, <2>1, <2>2, AiStageIInv
<1>3. CASE UNCHANGED Ai!vars
  <2>1. UNCHANGED <<asker, stage, produced, aiCancel, cancels, events, Ai!view>>
    BY <1>3 DEF Ai!vars, Ai!backEnd
  <2>2. \A q \in Ai!Reqs : stage'[q] = stage[q]
    BY <2>1
  <2> QED
    BY <2>1, <2>2, AiStageIInv, AiTyped
<1> QED
  BY <1>1, <1>2, <1>3

\* A panel is stopped, or starts a conversation.
LEMMA AiStopIInv == ASSUME AiIInv, NEW p \in Panels, Ai!Stop(p) \/ Ai!NewSession(p) PROVE AiIInv'
<1>0. /\ UNCHANGED <<asker, stage, produced, aiCancel, events, crossed>>
      /\ busy' = [busy EXCEPT ![p] = FALSE] /\ cancels' \subseteq Panels
  BY AiTyped DEF Ai!Stop, Ai!NewSession
<1>1. p \in Ai!Views /\ p \notin Terminals /\ \A q : AiQueued(q)' = AiQueued(q)
  BY <1>0 DEF Ai!Views, AiQueued
<1>2. /\ \A w \in Ai!Views \ {p} : mine'[w] = mine[w] /\ answer'[w] = answer[w] /\ busy'[w] = busy[w]
      /\ mine'[p] = Ai!NoReq \/ (mine'[p] = mine[p] /\ answer'[p] = answer[p])
  BY <1>0, <1>1, AiTyped DEF Ai!Stop, Ai!NewSession
<1>3. Ai!TypeOK'
  <2>1. <<>> \in Seq(Ai!Pieces)
    BY EmptySeq
  <2>2. mine' \in [Ai!Views -> Ai!Reqs \cup {Ai!NoReq}]
    BY AiTyped DEF Ai!Stop, Ai!NewSession
  <2>3. answer' \in [Ai!Views -> Seq(Ai!Pieces)] /\ stream' \in [Ai!Views -> Seq(Ai!Pieces)]
    BY <2>1, AiTyped DEF Ai!Stop, Ai!NewSession
  <2>4. busy' \in [Ai!Views -> BOOLEAN]
    BY <1>0, AiTyped
  <2> QED
    BY <1>0, <2>2, <2>3, <2>4 DEF AiIInv, Ai!TypeOK
<1>4. AiQueue'
  BY <1>0 DEF AiIInv, AiQueue
<1>5. AiOwn'
  BY <1>0, <1>2 DEF AiIInv, AiOwn
<1>6. AiAlone'
  <2>1. \A w \in Terminals : w \in Ai!Views \ {p}
    BY <1>1 DEF Ai!Views
  <2>2. \A q \in Ai!Reqs : AiLive(q)' <=> AiLive(q)
    BY <1>0, <1>1 DEF AiLive
  <2>3. \A w \in Terminals : mine'[w] = mine[w] /\ busy'[w] = busy[w]
    BY <1>2, <2>1
  <2> QED
    BY <1>0, <2>2, <2>3, Zenon DEF AiIInv, AiAlone
<1>7. AiAnswers'
  <2> SUFFICES ASSUME NEW w \in Ai!Views PROVE AiAnswered(w)'
    BY DEF AiAnswers
  <2>1. mine'[w] = Ai!NoReq \/ (mine'[w] = mine[w] /\ answer'[w] = answer[w])
    BY <1>2
  <2> QED
    BY <1>0, <1>1, <2>1 DEF AiIInv, AiAnswers, AiAnswered
<1> QED
  BY <1>3, <1>4, <1>5, <1>6, <1>7 DEF AiIInv

\* A check fails.
LEMMA AiRefuseIInv == ASSUME AiIInv, NEW r \in Ai!Reqs, Ai!Refuse(r) PROVE AiIInv'
<1>0. /\ stage[r] = "called" /\ stage' = [stage EXCEPT ![r] = "over"]
      /\ busy' = [busy EXCEPT ![asker[r]] = FALSE]
      /\ UNCHANGED <<asker, produced, aiCancel, cancels, events, stream, answer, mine, crossed>>
  BY DEF Ai!Refuse
<1>1. AiQueued(r) = {} /\ \A q : AiQueued(q)' = AiQueued(q)
  BY <1>0 DEF AiIInv, AiQueue, AiQueued
<1>2. \A q \in Ai!Reqs : stage'[q] = IF q = r THEN "over" ELSE stage[q]
  BY <1>0, AiTyped
<1>3. Ai!TypeOK'
  <2>1. stage' \in [Ai!Reqs -> {"free", "called", "streaming", "cancelled", "over"}]
    BY <1>0, AiTyped
  <2>2. busy' \in [Ai!Views -> BOOLEAN]
    BY <1>0, AiTyped
  <2> QED
    BY <1>0, <2>1, <2>2 DEF AiIInv, Ai!TypeOK
<1>4. AiQueue'
  <2>1. \A e \in Elements(events) : e[1] \in Ai!Reqs
    BY AiTyped
  <2> QED
    BY <1>0, <1>2, <2>1 DEF AiIInv, AiQueue
<1>5. AiOwn'
  BY <1>0, <1>2, AiTyped DEF AiIInv, AiOwn
<1>6. AiAlone'
  <2> SUFFICES ASSUME NEW w \in Terminals
               PROVE  ~crossed'[w] /\ \A q \in Ai!Reqs : asker'[q] = w /\ AiLive(q)' => busy'[w] /\ mine'[w] = q
    BY DEF AiAlone
  <2>1. ~crossed'[w]
    BY <1>0, Zenon DEF AiIInv, AiAlone
  <2>2. ASSUME NEW q \in Ai!Reqs, asker'[q] = w, AiLive(q)' PROVE busy'[w] /\ mine'[w] = q
    <3>1. q # r
      BY <1>1, <1>2, <2>2 DEF AiLive
    <3>2. AiLive(q) /\ asker[q] = w
      BY <1>0, <1>1, <1>2, <2>2, <3>1 DEF AiLive
    <3>3. busy[w] /\ mine[w] = q
      BY <3>2, Zenon DEF AiIInv, AiAlone
    <3>4. asker[r] # w
      <4>1. AiLive(r)
        BY <1>0 DEF AiLive
      <4> QED
        BY <3>1, <3>3, <4>1 DEF AiIInv, AiAlone
    <3>5. busy'[w] = busy[w]
      BY <1>0, <3>4, AiTyped DEF Ai!Views
    <3> QED
      BY <1>0, <3>3, <3>5, Zenon
  <2> QED
    BY <2>1, <2>2
<1>7. AiAnswers'
  BY <1>0, <1>1 DEF AiIInv, AiAnswers, AiAnswered
<1> QED
  BY <1>3, <1>4, <1>5, <1>6, <1>7 DEF AiIInv

\* What the back end adds to the events: a piece or the end.
LEMMA AiEmitIInv == ASSUME AiIInv, NEW r \in Ai!Reqs, Ai!Produce(r) \/ Ai!End(r) PROVE AiIInv'
<1> DEFINE e == IF Ai!Produce(r) THEN <<r, produced[r] + 1>> ELSE <<r, 0>>
<1>0. /\ stage[r] \in {"streaming", "cancelled"} /\ events' = Append(events, e)
      /\ UNCHANGED <<asker, aiCancel, cancels, busy, stream, answer, mine, crossed>>
      /\ e[1] = r
  BY DEF Ai!Produce, Ai!End, Ai!view
<1>1. \/ /\ stage' = stage /\ produced[r] < MaxDeltas /\ e[2] = produced[r] + 1
         /\ produced' = [produced EXCEPT ![r] = @ + 1]
      \/ produced' = produced /\ e[2] = 0 /\ stage' = [stage EXCEPT ![r] = "over"]
  BY DEF Ai!Produce, Ai!End
<1>2. e \in Ai!Reqs \X (0..MaxDeltas)
  <2>1. produced[r] \in 0..MaxDeltas
    BY AiTyped
  <2>2. CASE Ai!Produce(r)
    BY <2>1, <2>2 DEF Ai!Produce
  <2>3. CASE ~Ai!Produce(r)
    BY <2>3
  <2> QED
    BY <2>2, <2>3
<1> HIDE DEF e
<1>3. events' \in Seq(Ai!Reqs \X (0..MaxDeltas)) /\ Elements(events') = Elements(events) \cup {e}
  <2>1. events \in Seq(Ai!Reqs \X (0..MaxDeltas))
    BY AiTyped
  <2> QED
    BY <1>0, <1>2, <2>1, AppendElements
<1>4. \A d \in Elements(events) : AiBefore(d, e)
  <2> SUFFICES ASSUME NEW d \in Elements(events), d[1] = r
               PROVE  d[2] # 0 /\ (e[2] = 0 \/ d[2] < e[2])
    BY <1>0 DEF AiBefore
  <2>1. d[2] # 0 /\ d[2] <= produced[r] /\ d[2] \in 0..MaxDeltas /\ produced[r] \in 0..MaxDeltas
    BY <1>0, AiTyped DEF AiIInv, AiQueue
  <2> QED
    BY <1>1, <2>1
<1>5. AiInOrder(events')
  BY <1>0, <1>2, <1>4, AiAppendInOrder, AiTyped DEF AiIInv, AiQueue
<1>6. AiQueued(r)' = AiQueued(r) \cup {e} /\ \A q : q # r => AiQueued(q)' = AiQueued(q)
  BY <1>0, <1>3 DEF AiQueued
<1>7. /\ stage' \in [Ai!Reqs -> {"free", "called", "streaming", "cancelled", "over"}]
      /\ stage'[r] \notin {"free", "called"}
      /\ \A q \in Ai!Reqs : q # r => stage'[q] = stage[q] /\ produced'[q] = produced[q]
      /\ stage'[r] # stage[r] => stage'[r] = "over"
  BY <1>0, <1>1, AiTyped
<1>8. produced' \in [Ai!Reqs -> 0..MaxDeltas] /\ e[2] <= produced'[r] /\ produced[r] <= produced'[r]
  <2>1. produced[r] \in 0..MaxDeltas /\ produced \in [Ai!Reqs -> 0..MaxDeltas]
    BY AiTyped
  <2>2. CASE produced[r] < MaxDeltas /\ e[2] = produced[r] + 1 /\ produced' = [produced EXCEPT ![r] = @ + 1]
    BY <2>1, <2>2
  <2>3. CASE produced' = produced /\ e[2] = 0
    BY <2>1, <2>3
  <2> QED
    BY <1>1, <2>2, <2>3
<1>9. Ai!TypeOK'
  BY <1>0, <1>3, <1>7, <1>8 DEF AiIInv, Ai!TypeOK
<1>10. AiQueue'
  <2> SUFFICES ASSUME NEW d \in Elements(events')
               PROVE  /\ stage'[d[1]] \notin {"free", "called"} /\ d[2] <= produced'[d[1]]
                      /\ d[2] = 0 => stage'[d[1]] = "over"
    BY <1>5 DEF AiQueue, Elements
  <2>1. CASE d = e
    BY <1>0, <1>1, <1>7, <1>8, <2>1, AiTyped
  <2>2. CASE d # e
    <3>1. d \in Elements(events) /\ d \in Ai!Reqs \X (0..MaxDeltas)
      BY <1>3, <2>2, AiTyped
    <3>2. /\ stage[d[1]] \notin {"free", "called"} /\ d[2] <= produced[d[1]]
          /\ d[2] = 0 => stage[d[1]] = "over"
      BY <3>1 DEF AiIInv, AiQueue
    <3>3. CASE d[1] = r
      <4>1. d[2] \in 0..MaxDeltas /\ produced[r] \in 0..MaxDeltas /\ produced'[r] \in 0..MaxDeltas
        BY <1>8, <3>1, AiTyped
      <4>2. d[2] <= produced'[r]
        BY <1>8, <3>2, <3>3, <4>1
      <4> QED
        BY <1>7, <3>2, <3>3, <4>2
    <3>4. CASE d[1] # r
      <4>1. d[1] \in Ai!Reqs
        BY <3>1
      <4> QED
        BY <1>7, <3>2, <3>4, <4>1
    <3> QED
      BY <3>3, <3>4
  <2> QED
    BY <2>1, <2>2
<1>11. AiOwn'
  <2>1. \A q \in Ai!Reqs : stage'[q] = "free" <=> stage[q] = "free"
    BY <1>0, <1>7
  <2> QED
    BY <1>0, <1>7, <2>1, AiTyped DEF AiIInv, AiOwn
<1>12. AiAlone'
  <2>1. \A q \in Ai!Reqs : AiLive(q)' => AiLive(q)
    BY <1>0, <1>6, <1>7 DEF AiLive
  <2> QED
    BY <1>0, <2>1, Zenon DEF AiIInv, AiAlone
<1>13. AiAnswers'
  <2> SUFFICES ASSUME NEW w \in Ai!Views, mine[w] # Ai!NoReq, ~crossed[w]
               PROVE  /\ \A i \in DOMAIN answer[w] : answer[w][i] = <<mine[w], i>>
                      /\ Len(answer[w]) <= produced'[mine[w]]
                      /\ {c[2] : c \in {d \in AiQueued(mine[w])' : d[2] # 0}} =
                           (Len(answer[w]) + 1)..produced'[mine[w]]
    BY <1>0 DEF AiAnswers, AiAnswered
  <2>1. AiAnswered(w) /\ mine[w] \in Ai!Reqs
    BY AiTyped DEF AiIInv, AiAnswers
  <2>2. CASE mine[w] # r
    <3>1. AiQueued(mine[w])' = AiQueued(mine[w]) /\ produced'[mine[w]] = produced[mine[w]]
      BY <1>0, <1>6, <1>7, <2>1, <2>2
    <3> QED
      BY <2>1, <3>1 DEF AiAnswered
  <2>3. CASE mine[w] = r
    <3> DEFINE n == Len(answer[w])
               p == produced[r]
               Ns(Q) == {c[2] : c \in {d \in Q : d[2] # 0}}
    <3>1. n \in Nat /\ p \in Nat /\ n <= p /\ Ns(AiQueued(r)) = (n + 1)..p
      <4>1. answer[w] \in Seq(Ai!Pieces) /\ p \in 0..MaxDeltas
        BY AiTyped
      <4> QED
        BY <2>1, <2>3, <4>1, LenProperties DEF AiAnswered
    <3>2. Ns(AiQueued(r) \cup {e}) = IF e[2] = 0 THEN Ns(AiQueued(r)) ELSE Ns(AiQueued(r)) \cup {e[2]}
      OBVIOUS
    <3>3. n <= produced'[r] /\ Ns(AiQueued(r) \cup {e}) = (n + 1)..produced'[r]
      <4> HIDE DEF n, Ns, p
      <4>1. CASE e[2] = 0 /\ produced' = produced
        BY <3>1, <3>2, <4>1 DEF p
      <4>2. CASE e[2] = p + 1 /\ produced'[r] = p + 1
        <5>1. e[2] # 0
          BY <3>1, <4>2
        <5>2. (n + 1)..(p + 1) = ((n + 1)..p) \cup {p + 1}
          BY <3>1
        <5>3. Ns(AiQueued(r) \cup {e}) = Ns(AiQueued(r)) \cup {p + 1}
          BY <3>2, <4>2, <5>1
        <5>4. n <= p + 1
          BY <3>1
        <5> QED
          BY <3>1, <4>2, <5>2, <5>3, <5>4
      <4> QED
        BY <1>1, <4>1, <4>2, AiTyped DEF p
    <3>4. Ns(AiQueued(r)') = (n + 1)..produced'[r]
      BY <1>6, <3>3
    <3>5. AiQueued(mine[w])' = AiQueued(r)'
      BY <1>0, <2>3 DEF AiQueued
    <3> QED
      BY <2>1, <2>3, <3>3, <3>4, <3>5 DEF AiAnswered
  <2> QED
    BY <2>2, <2>3
<1> QED
  BY <1>9, <1>10, <1>11, <1>12, <1>13 DEF AiIInv
\* The event h at the head of the queue.
LEMMA AiArrives ==
    ASSUME AiIInv, events # <<>>, NEW h, h = Head(events), events' = Tail(events),
           UNCHANGED Ai!backEnd
    PROVE  /\ h \in Ai!Reqs \X (0..MaxDeltas) /\ h \in AiQueued(h[1])
           /\ events' \in Seq(Ai!Reqs \X (0..MaxDeltas)) /\ AiQueue'
           /\ \A e \in AiQueued(h[1])' : AiBefore(h, e) /\ e # h
           /\ AiQueued(h[1]) = {h} \cup AiQueued(h[1])'
           /\ \A q : q # h[1] => AiQueued(q)' = AiQueued(q)
           /\ \A q : AiLive(q)' => AiLive(q)
           /\ stage[h[1]] \notin {"free", "called"} /\ h[2] <= produced[h[1]]
           /\ (h[2] = 0 => stage[h[1]] = "over")
<1>1. /\ h \in Ai!Reqs \X (0..MaxDeltas) /\ events' \in Seq(Ai!Reqs \X (0..MaxDeltas))
      /\ Elements(events) = {h} \cup Elements(events')
  <2>1. events \in Seq(Ai!Reqs \X (0..MaxDeltas))
    BY AiTyped
  <2> QED
    BY <2>1, TailElements
<1>2. AiInOrder(events') /\ \A e \in Elements(events') : AiBefore(h, e)
  BY AiTailInOrder, AiTyped DEF AiIInv, AiQueue
<1>3. /\ AiQueued(h[1]) = {h} \cup AiQueued(h[1])'
      /\ \A q : q # h[1] => AiQueued(q)' = AiQueued(q)
  <2>1. Elements(events)' = Elements(events')
    BY DEF Elements
  <2> QED
    BY <1>1, <2>1 DEF AiQueued
<1>4. \A e \in AiQueued(h[1])' : AiBefore(h, e) /\ e # h
  <2>1. \A e \in AiQueued(h[1])' : e \in Elements(events') /\ e[1] = h[1]
    BY DEF AiQueued, Elements
  <2>2. \A n \in Nat : ~(n < n)
    OBVIOUS
  <2>3. h[2] \in Nat
    BY <1>1
  <2>4. ~AiBefore(h, h)
    BY <2>2, <2>3 DEF AiBefore
  <2> QED
    BY <1>2, <2>1, <2>4
<1>5. UNCHANGED <<asker, stage, produced>>
  BY DEF Ai!backEnd
<1>6. AiQueue'
  <2>1. \A e \in Elements(events') : /\ stage[e[1]] \notin {"free", "called"} /\ e[2] <= produced[e[1]]
                                     /\ e[2] = 0 => stage[e[1]] = "over"
    BY <1>1 DEF AiIInv, AiQueue
  <2>2. Elements(events)' = Elements(events')
    BY DEF Elements
  <2> QED
    BY <1>2, <1>5, <2>1, <2>2 DEF AiQueue
<1>7. \A q : AiLive(q)' => AiLive(q)
  BY <1>3, <1>5 DEF AiLive
<1>8. /\ stage[h[1]] \notin {"free", "called"} /\ h[2] <= produced[h[1]]
      /\ (h[2] = 0 => stage[h[1]] = "over")
  BY <1>1 DEF AiIInv, AiQueue
<1> QED
  BY <1>1, <1>3, <1>4, <1>6, <1>7, <1>8 DEF AiQueued

\* An event of r crosses no other in a terminal, nor in the view that asked.
LEMMA AiNotCrossed ==
    ASSUME AiIInv, NEW r \in Ai!Reqs, AiQueued(r) # {}, crossed' = Ai!Crossed(r)
    PROVE  /\ crossed' \in [Ai!Views -> BOOLEAN]
           /\ \A w \in Terminals : ~crossed'[w] /\ (w \in Ai!Listeners(r) => asker[r] = w /\ mine[w] = r)
           /\ \A w \in Ai!Views : ~crossed'[w] => ~crossed[w] /\ (w \in Ai!Listeners(r) => mine[w] \in {Ai!NoReq, r})
           /\ \A w \in Ai!Views : mine[w] = r => w \in Ai!Listeners(r)
<1>1. \A w \in Terminals : w \in Ai!Listeners(r) => asker[r] = w
  BY DEF Ai!Listeners
<1>2. \A w \in Terminals : asker[r] = w => mine[w] = r
  BY DEF AiIInv, AiAlone, AiLive
<1>3. \A w \in Ai!Views : crossed'[w] = (crossed[w] \/ (w \in Ai!Listeners(r) /\ mine[w] \notin {Ai!NoReq, r}))
  BY DEF Ai!Crossed
<1>4. \A w \in Terminals : w \in Ai!Views /\ ~crossed[w]
  BY DEF AiIInv, AiAlone, Ai!Views
<1>5. crossed' \in [Ai!Views -> BOOLEAN]
  BY DEF Ai!Crossed
<1>6. \A w \in Ai!Views : mine[w] = r => w \in Ai!Listeners(r)
  <2> SUFFICES ASSUME NEW w \in Ai!Views, mine[w] = r PROVE w \in Ai!Listeners(r)
    OBVIOUS
  <2>1. asker[r] = w
    BY DEF AiIInv, AiOwn, Ai!Reqs, Ai!NoReq
  <2> QED
    BY <2>1 DEF Ai!Listeners
<1>7. \A w \in Terminals : ~crossed'[w]
  BY <1>1, <1>2, <1>3, <1>4
<1> QED
  BY <1>1, <1>2, <1>3, <1>5, <1>6, <1>7

\* A piece comes.
LEMMA AiOnDeltaIInv == ASSUME AiIInv, Ai!OnDelta PROVE AiIInv'
<1> PICK h : h = Head(events)
  OBVIOUS
<1> DEFINE r == h[1]
<1>0. /\ events # <<>> /\ h[2] # 0 /\ events' = Tail(events) /\ UNCHANGED <<Ai!backEnd, busy, mine>>
      /\ stream' = [v \in Ai!Views |-> IF v \in Ai!Listeners(r) THEN Append(stream[v], h) ELSE stream[v]]
      /\ answer' = [v \in Ai!Views |-> IF v \in Ai!Listeners(r) THEN Append(answer[v], h) ELSE answer[v]]
      /\ crossed' = Ai!Crossed(r)
  BY DEF Ai!OnDelta
<1>1. /\ h \in Ai!Reqs \X (0..MaxDeltas) /\ h \in AiQueued(h[1])
      /\ events' \in Seq(Ai!Reqs \X (0..MaxDeltas)) /\ AiQueue'
      /\ \A e \in AiQueued(h[1])' : AiBefore(h, e) /\ e # h
      /\ AiQueued(h[1]) = {h} \cup AiQueued(h[1])'
      /\ \A q : q # h[1] => AiQueued(q)' = AiQueued(q)
      /\ \A q : AiLive(q)' => AiLive(q)
      /\ h[2] <= produced[h[1]]
  BY <1>0, AiArrives
<1>2. /\ r \in Ai!Reqs /\ AiQueued(r) # {} /\ h \in Ai!Pieces /\ h = <<r, h[2]>>
      /\ h[2] \in 1..MaxDeltas
  BY <1>0, <1>1 DEF Ai!Pieces
<1>3. /\ crossed' \in [Ai!Views -> BOOLEAN]
      /\ \A w \in Terminals : ~crossed'[w] /\ (w \in Ai!Listeners(r) => asker[r] = w /\ mine[w] = r)
      /\ \A w \in Ai!Views : ~crossed'[w] => ~crossed[w] /\ (w \in Ai!Listeners(r) => mine[w] \in {Ai!NoReq, r})
      /\ \A w \in Ai!Views : mine[w] = r => w \in Ai!Listeners(r)
  BY <1>0, <1>2, AiNotCrossed
<1> HIDE DEF r
<1>4. UNCHANGED <<asker, stage, produced, aiCancel, cancels, busy, mine>>
  BY <1>0 DEF Ai!backEnd
<1>5. Ai!TypeOK'
  <2>1. ASSUME NEW s \in Seq(Ai!Pieces) PROVE Append(s, h) \in Seq(Ai!Pieces)
    BY <1>2, AppendProperties
  <2>2. stream \in [Ai!Views -> Seq(Ai!Pieces)] /\ answer \in [Ai!Views -> Seq(Ai!Pieces)]
    BY AiTyped
  <2>3. stream' \in [Ai!Views -> Seq(Ai!Pieces)] /\ answer' \in [Ai!Views -> Seq(Ai!Pieces)]
    BY <1>0, <2>1, <2>2
  <2> QED
    BY <1>1, <1>3, <1>4, <2>3 DEF AiIInv, Ai!TypeOK
<1>6. AiOwn'
  BY <1>4 DEF AiIInv, AiOwn
<1>7. AiAlone'
  <2>1. \A w \in Terminals : \A q \in Ai!Reqs : asker[q] = w /\ AiLive(q) => busy[w] /\ mine[w] = q
    BY DEF AiIInv, AiAlone
  <2> QED
    BY <1>1, <1>3, <1>4, <2>1, Zenon DEF AiAlone
<1>8. AiAnswers'
  <2> SUFFICES ASSUME NEW w \in Ai!Views, mine[w] # Ai!NoReq, ~crossed'[w]
               PROVE  /\ \A i \in DOMAIN answer'[w] : answer'[w][i] = <<mine[w], i>>
                      /\ Len(answer'[w]) <= produced[mine[w]]
                      /\ {c[2] : c \in {d \in AiQueued(mine[w])' : d[2] # 0}} =
                           (Len(answer'[w]) + 1)..produced[mine[w]]
    BY <1>4 DEF AiAnswers, AiAnswered
  <2>1. AiAnswered(w) /\ mine[w] \in Ai!Reqs /\ ~crossed[w]
    BY <1>3, AiTyped DEF AiIInv, AiAnswers
  <2>2. CASE mine[w] # r
    <3>1. w \notin Ai!Listeners(r)
      BY <1>3, <2>2
    <3>2. answer'[w] = answer[w]
      BY <1>0, <3>1 DEF r
    <3>3. AiQueued(mine[w])' = AiQueued(mine[w])
      BY <1>1, <1>4, <2>2 DEF r, AiQueued
    <3> QED
      BY <2>1, <3>2, <3>3 DEF AiAnswered
  <2>3. CASE mine[w] = r
    <3> DEFINE n == Len(answer[w])
               p == produced[r]
               k == h[2]
               Ns(Q) == {c[2] : c \in {d \in Q : d[2] # 0}}
    <3>0. answer[w] \in Seq(Ai!Pieces) /\ answer'[w] = Append(answer[w], h)
      BY <1>0, <1>3, <2>3, AiTyped DEF r
    <3>1. n \in Nat /\ p \in Nat /\ Ns(AiQueued(r)) = (n + 1)..p
      <4>1. p \in 0..MaxDeltas
        BY <1>2, AiTyped
      <4> QED
        BY <2>1, <2>3, <3>0, <4>1, LenProperties DEF AiAnswered
    <3>2. AiQueued(r) = {h} \cup AiQueued(r)' /\ k # 0 /\ k \in Nat
      BY <1>0, <1>1, <1>2 DEF r
    <3>3. Ns(AiQueued(r)) = {k} \cup Ns(AiQueued(r)')
      BY <3>2
    <3>4. \A c \in Ns(AiQueued(r)') : c \in Nat /\ k < c
      <4> SUFFICES ASSUME NEW e \in AiQueued(r)', e[2] # 0 PROVE e[2] \in Nat /\ k < e[2]
        OBVIOUS
      <4>1. e[1] = h[1] /\ AiBefore(h, e)
        BY <1>1 DEF r, AiQueued
      <4>2. e \in Ai!Reqs \X (0..MaxDeltas)
        <5>1. e \in Elements(events')
          BY DEF AiQueued, Elements
        <5>2. events' \in Seq(Ai!Reqs \X (0..MaxDeltas))
          BY <1>1
        <5> QED
          BY <5>1, <5>2 DEF Elements
      <4> QED
        BY <4>1, <4>2 DEF AiBefore
    <3> HIDE DEF n, p, k, Ns
    <3>5. k = n + 1 /\ n + 1 <= p /\ Ns(AiQueued(r)') = (n + 2)..p
      <4>1. k \in (n + 1)..p
        BY <3>1, <3>3
      <4>2. n + 1 \in {k} \cup Ns(AiQueued(r)')
        BY <3>1, <3>3, <4>1
      <4>3. k = n + 1
        BY <3>1, <3>4, <4>1, <4>2
      <4>4. Ns(AiQueued(r)') = ((n + 1)..p) \ {k}
        <5>1. k \notin Ns(AiQueued(r)')
          BY <3>2, <3>4
        <5> QED
          BY <3>1, <3>3, <5>1
      <4>5. ((n + 1)..p) \ {n + 1} = (n + 2)..p
        BY <3>1
      <4> QED
        BY <3>1, <4>1, <4>3, <4>4, <4>5
    <3>6. /\ Len(answer'[w]) = n + 1 /\ DOMAIN answer'[w] = 1..(n + 1)
          /\ (\A i \in 1..n : answer'[w][i] = answer[w][i]) /\ answer'[w][n + 1] = h
          /\ DOMAIN answer[w] = 1..n
      BY <1>2, <3>0, AppendElements DEF n
    <3>7. \A i \in 1..(n + 1) : answer'[w][i] = <<mine[w], i>>
      <4> SUFFICES ASSUME NEW i \in 1..(n + 1) PROVE answer'[w][i] = <<r, i>>
        BY <2>3
      <4>1. CASE i = n + 1
        BY <1>2, <3>5, <3>6, <4>1 DEF k
      <4>2. CASE i # n + 1
        <5>1. i \in 1..n
          BY <3>1, <4>2
        <5> QED
          BY <2>1, <2>3, <3>6, <5>1 DEF AiAnswered
      <4> QED
        BY <4>1, <4>2
    <3>8. AiQueued(mine[w])' = AiQueued(r)'
      BY <1>4, <2>3 DEF AiQueued
    <3>9. Ns(AiQueued(mine[w])') = (Len(answer'[w]) + 1)..produced[mine[w]]
      <4>1. (n + 1) + 1 = n + 2
        BY <3>1
      <4> QED
        BY <2>3, <3>5, <3>6, <3>8, <4>1 DEF p
    <3> QED
      BY <2>3, <3>5, <3>6, <3>7, <3>9 DEF Ns, p
  <2> QED
    BY <2>2, <2>3
<1> QED
  BY <1>1, <1>5, <1>6, <1>7, <1>8 DEF AiIInv

\* The end of an answer comes.
LEMMA AiOnEndIInv == ASSUME AiIInv, Ai!OnEnd PROVE AiIInv'
<1> PICK h : h = Head(events)
  OBVIOUS
<1> DEFINE r == h[1]
<1>0. /\ events # <<>> /\ h[2] = 0 /\ events' = Tail(events)
      /\ UNCHANGED <<Ai!backEnd, answer, mine>>
      /\ busy' = [v \in Ai!Views |-> busy[v] /\ v \notin Ai!Listeners(r)]
      /\ stream' = [v \in Ai!Views |-> IF v \in Ai!Listeners(r) \cap Panels THEN <<>> ELSE stream[v]]
      /\ crossed' = Ai!Crossed(r)
  BY DEF Ai!OnEnd
<1>1. /\ h \in Ai!Reqs \X (0..MaxDeltas) /\ h \in AiQueued(h[1])
      /\ events' \in Seq(Ai!Reqs \X (0..MaxDeltas)) /\ AiQueue'
      /\ \A e \in AiQueued(h[1])' : AiBefore(h, e) /\ e # h
      /\ AiQueued(h[1]) = {h} \cup AiQueued(h[1])'
      /\ \A q : q # h[1] => AiQueued(q)' = AiQueued(q)
      /\ \A q : AiLive(q)' => AiLive(q)
      /\ h[2] = 0 => stage[h[1]] = "over"
  BY <1>0, AiArrives
<1>2. r \in Ai!Reqs /\ AiQueued(r) # {}
  BY <1>1
<1>3. /\ crossed' \in [Ai!Views -> BOOLEAN]
      /\ \A w \in Terminals : ~crossed'[w] /\ (w \in Ai!Listeners(r) => asker[r] = w /\ mine[w] = r)
      /\ \A w \in Ai!Views : ~crossed'[w] => ~crossed[w] /\ (w \in Ai!Listeners(r) => mine[w] \in {Ai!NoReq, r})
      /\ \A w \in Ai!Views : mine[w] = r => w \in Ai!Listeners(r)
  BY <1>0, <1>2, AiNotCrossed
<1>4. UNCHANGED <<asker, stage, produced, aiCancel, cancels, answer, mine>>
  BY <1>0 DEF Ai!backEnd
<1>5. AiQueued(r)' = {} /\ stage[r] = "over"
  <2>1. \A e \in AiQueued(h[1])' : e[1] = h[1]
    BY DEF AiQueued
  <2> QED
    BY <1>0, <1>1, <2>1 DEF AiBefore
<1>6. ~AiLive(r)'
  BY <1>4, <1>5 DEF AiLive
<1>7. Ai!TypeOK'
  <2>1. <<>> \in Seq(Ai!Pieces) /\ stream \in [Ai!Views -> Seq(Ai!Pieces)]
    BY EmptySeq, AiTyped
  <2>2. stream' \in [Ai!Views -> Seq(Ai!Pieces)] /\ busy' \in [Ai!Views -> BOOLEAN]
    BY <1>0, <2>1
  <2> QED
    BY <1>1, <1>3, <1>4, <2>2 DEF AiIInv, Ai!TypeOK
<1>8. AiOwn'
  BY <1>4 DEF AiIInv, AiOwn
<1>9. AiAlone'
  <2> SUFFICES ASSUME NEW w \in Terminals, NEW q \in Ai!Reqs, asker[q] = w, AiLive(q)'
               PROVE  busy'[w] /\ mine[w] = q
    BY <1>3, <1>4 DEF AiAlone
  <2>1. q # r /\ AiLive(q)
    BY <1>1, <1>6
  <2>2. busy[w] /\ mine[w] = q
    BY <2>1 DEF AiIInv, AiAlone
  <2>3. w \notin Ai!Listeners(r) /\ w \in Ai!Views
    BY <1>3, <2>1, <2>2 DEF Ai!Views
  <2> QED
    BY <1>0, <2>2, <2>3
<1>10. AiAnswers'
  <2> SUFFICES ASSUME NEW w \in Ai!Views, mine[w] # Ai!NoReq, ~crossed'[w]
               PROVE  /\ \A i \in DOMAIN answer[w] : answer[w][i] = <<mine[w], i>>
                      /\ Len(answer[w]) <= produced[mine[w]]
                      /\ {c[2] : c \in {d \in AiQueued(mine[w])' : d[2] # 0}} =
                           (Len(answer[w]) + 1)..produced[mine[w]]
    BY <1>4 DEF AiAnswers, AiAnswered
  <2>1. AiAnswered(w) /\ ~crossed[w]
    BY <1>3 DEF AiIInv, AiAnswers
  <2>2. {d \in AiQueued(mine[w])' : d[2] # 0} = {d \in AiQueued(mine[w]) : d[2] # 0}
    <3>2. CASE mine[w] # r
      <4>1. AiQueued(mine[w])' = AiQueued(mine[w])
        BY <1>1, <1>4, <3>2 DEF AiQueued
      <4> QED
        BY <4>1
    <3>3. CASE mine[w] = r
      <4>1. AiQueued(mine[w])' = {} /\ AiQueued(mine[w]) = {h}
        BY <1>1, <1>4, <1>5, <3>3 DEF AiQueued
      <4> QED
        BY <1>0, <4>1
    <3> QED
      BY <3>2, <3>3
  <2> QED
    BY <2>1, <2>2 DEF AiAnswered
<1> QED
  BY <1>1, <1>7, <1>8, <1>9, <1>10 DEF AiIInv

LEMMA AiNextIInv == AiIInv /\ [Ai!Next]_(Ai!vars) => AiIInv'
BY AiAskIInv, AiCallsIInv, AiStopIInv, AiRefuseIInv, AiEmitIInv, AiOnDeltaIInv,
   AiOnEndIInv DEF Ai!Next



\* The views keep the types of their state (AiPanel.tsx).
THEOREM AiTypeCorrect == Ai!Init /\ [][Ai!Next]_(Ai!vars) => []Ai!TypeOK
<1>1. AiIInv => Ai!TypeOK
  BY DEF AiIInv
<1> QED
  BY <1>1, AiInitIInv, AiNextIInv, PTL

\* The answer on display is the answer to the view's own question, whole so far, unless events
\* of another came meanwhile; in a terminal they never do (app.go AiChat, AiExplain).
THEOREM AiAnswersAreWhole == Ai!Init /\ [][Ai!Next]_(Ai!vars) => []Ai!AnswersAreWhole
<1>1. AiIInv => Ai!AnswersAreWhole
  <2> SUFFICES ASSUME AiIInv, NEW v \in Ai!Views
               PROVE  /\ v \in Terminals => ~crossed[v]
                      /\ mine[v] # Ai!NoReq /\ ~crossed[v] =>
                           /\ \A i \in DOMAIN answer[v] : answer[v][i] = <<mine[v], i>>
                           /\ Ai!Coming(mine[v]) = (Len(answer[v]) + 1)..produced[mine[v]]
    BY DEF Ai!AnswersAreWhole
  <2>1. v \in Terminals => ~crossed[v]
    BY DEF AiIInv, AiAlone
  <2>2. ASSUME mine[v] # Ai!NoReq
        PROVE  Ai!Coming(mine[v]) = {c[2] : c \in {d \in AiQueued(mine[v]) : d[2] # 0}}
    <3>1. Ai!Range(events) = Elements(events)
      BY DEF Ai!Range, Elements
    <3>2. \A e \in Elements(events) : e = <<e[1], e[2]>> /\ e[2] \in 0..MaxDeltas
      BY AiTyped
    <3>3. \A e \in Elements(events) : e[2] # 0 => e[2] \in 1..MaxDeltas
      BY <3>2
    <3>4. \A n \in Ai!Coming(mine[v]) : \E c \in AiQueued(mine[v]) : c[2] # 0 /\ n = c[2]
      <4> SUFFICES ASSUME NEW n \in 1..MaxDeltas, <<mine[v], n>> \in Elements(events)
                   PROVE  \E c \in AiQueued(mine[v]) : c[2] # 0 /\ n = c[2]
        BY <3>1 DEF Ai!Coming
      <4>1. <<mine[v], n>> \in AiQueued(mine[v]) /\ n # 0
        BY DEF AiQueued
      <4> QED
        BY <4>1
    <3>5. \A c \in AiQueued(mine[v]) : c[2] # 0 => c[2] \in Ai!Coming(mine[v])
      <4> SUFFICES ASSUME NEW c \in Elements(events), c[1] = mine[v], c[2] # 0
                   PROVE  c[2] \in 1..MaxDeltas /\ <<mine[v], c[2]>> \in Ai!Range(events)
        BY DEF AiQueued, Ai!Coming
      <4> QED
        BY <3>1, <3>2, <3>3
    <3> QED
      BY <3>4, <3>5
  <2> QED
    BY <2>1, <2>2 DEF AiIInv, AiAnswers, AiAnswered
<1> QED
  BY <1>1, AiInitIInv, AiNextIInv, PTL

HIDE AiAssumption

-----------------------------------------------------------------------------
(* The editor *)

\* One call at a time.
EditorOneCall == ~upset => \A c, d \in Editor!Pending : c = d

\* What a call under way has to do with the text and the files.
EditorCallKnows ==
    ~upset => \A c \in Editor!Pending :
        /\ call[c].kind # "load" => call[c].text = text
        /\ call[c].stage = "done" /\ call[c].kind # "saveLocal" =>
             file[call[c].path] = call[c].text
        /\ call[c].stage = "done" /\ call[c].kind = "saveLocal" => local = call[c].text

EditorIInv == Editor!TypeOK /\ Editor!CleanMeansStored /\ EditorOneCall /\ EditorCallKnows

EditorRecord == [kind : Editor!Kinds, stage : Editor!Stages, path : Editor!AllPaths, text : Editor!AllTexts]

\* The value of a call that is free is a call.
LEMMA EditorNoCallIsACall == Editor!NoCall \in EditorRecord /\ Editor!NoCall.kind = "saveLocal"
<1> QED
  BY DEF Editor!NoCall, EditorRecord, Editor!Kinds, Editor!Stages, Editor!AllTexts, Editor!AllPaths

\* The editor starts empty and with no call under way.
LEMMA EditorInitIInv == Editor!Init => EditorIInv
<1> SUFFICES ASSUME Editor!Init PROVE EditorIInv
  OBVIOUS
<1>1. Editor!TypeOK
  BY EditorNoCallIsACall DEF Editor!Init, Editor!TypeOK, Editor!AllTexts, Editor!AllPaths,
                             EditorRecord
<1>2. Editor!Pending = {}
  BY DEF Editor!Init, Editor!Pending, Editor!NoCall
<1> QED
  BY <1>1, <1>2 DEF Editor!Init, EditorIInv, Editor!CleanMeansStored, EditorOneCall, EditorCallKnows

\* Every step keeps the types.
LEMMA EditorStepType == Editor!TypeOK /\ [Editor!Next]_(Editor!vars) => Editor!TypeOK'
<1> SUFFICES ASSUME Editor!TypeOK, [Editor!Next]_(Editor!vars) PROVE Editor!TypeOK'
  OBVIOUS
<1> USE DEF Editor!TypeOK
<1>1. Editor!NoCall \in EditorRecord /\ Editor!NoCall.kind = "saveLocal"
  BY EditorNoCallIsACall
<1>2. ASSUME NEW t \in Texts \cup {Empty}, Editor!Edit(t) PROVE Editor!TypeOK'
  BY <1>2 DEF Editor!Edit, Editor!AllTexts
<1>3. ASSUME NEW p \in Editor!AllPaths, Editor!EditPath(p) PROVE Editor!TypeOK'
  BY <1>3 DEF Editor!EditPath
<1>4. CASE Editor!NewFile
  BY <1>4 DEF Editor!NewFile, Editor!AllTexts, Editor!AllPaths
<1>5. ASSUME NEW c \in Calls, NEW kind \in Editor!Kinds, Editor!Begin(c, kind),
             kind # "saveLocal" => path # Empty
      PROVE  Editor!TypeOK'
  BY <1>5 DEF Editor!Begin, Editor!Stages, Editor!AllPaths
<1>6. ASSUME NEW c \in Calls, Editor!LoadRemote(c) \/ Editor!SaveRemote(c) \/ Editor!SaveLocal(c)
      PROVE  Editor!TypeOK'
  BY <1>5, <1>6 DEF Editor!LoadRemote, Editor!SaveRemote, Editor!SaveLocal, Editor!Kinds
<1>7. ASSUME NEW c \in Calls, Editor!Execute(c) PROVE Editor!TypeOK'
  BY <1>7 DEF Editor!Execute, Editor!Stages, Editor!AllTexts
<1>8. ASSUME NEW c \in Calls, Editor!Answer(c) PROVE Editor!TypeOK'
  BY <1>1, <1>8 DEF Editor!Answer, EditorRecord
<1>9. ASSUME NEW c \in Calls, Editor!Fail(c) PROVE Editor!TypeOK'
  BY <1>1, <1>9 DEF Editor!Fail, EditorRecord
<1>10. CASE UNCHANGED Editor!vars
  BY <1>10 DEF Editor!vars
<1> QED
  BY <1>2, <1>3, <1>4, <1>6, <1>7, <1>8, <1>9, <1>10 DEF Editor!Next

\* Every step keeps the rest of the invariant.
LEMMA EditorStepIInv == EditorIInv /\ [Editor!Next]_(Editor!vars) => EditorIInv'
<1> SUFFICES ASSUME EditorIInv, [Editor!Next]_(Editor!vars) PROVE EditorIInv'
  OBVIOUS
<1>1. Editor!TypeOK /\ Editor!TypeOK'
  BY EditorStepType DEF EditorIInv
<1> USE DEF EditorIInv, Editor!CleanMeansStored, EditorOneCall, EditorCallKnows, Editor!Pending
<1>2. ASSUME NEW t \in Texts \cup {Empty}, Editor!Edit(t) PROVE EditorIInv'
  BY <1>1, <1>2 DEF Editor!Edit
<1>3. ASSUME NEW p \in Editor!AllPaths, Editor!EditPath(p) PROVE EditorIInv'
  BY <1>1, <1>3 DEF Editor!EditPath
<1>4. CASE Editor!NewFile
  BY <1>1, <1>4 DEF Editor!NewFile
<1>5. ASSUME NEW c \in Calls, NEW kind \in Editor!Kinds, Editor!Begin(c, kind) PROVE EditorIInv'
  <2>1. CASE upset'
    BY <1>1, <2>1
  <2>2. CASE ~upset'
    <3>1. ~upset /\ \A d \in Calls : call[d].stage = "free"
      BY <1>5, <2>2 DEF Editor!Begin
    <3>2. /\ call'[c].stage = "called" /\ call'[c].text = text /\ text' = text
          /\ \A d \in Calls : d # c => call'[d] = call[d]
      BY <1>1, <1>5 DEF Editor!Begin, Editor!TypeOK
    <3>3. UNCHANGED <<file, local, dirty>>
      BY <1>5 DEF Editor!Begin
    <3> QED
      BY <1>1, <3>1, <3>2, <3>3
  <2> QED
    BY <2>1, <2>2
<1>6. ASSUME NEW c \in Calls, Editor!LoadRemote(c) \/ Editor!SaveRemote(c) \/ Editor!SaveLocal(c)
      PROVE  EditorIInv'
  BY <1>5, <1>6 DEF Editor!LoadRemote, Editor!SaveRemote, Editor!SaveLocal, Editor!Kinds
<1>7. ASSUME NEW c \in Calls, Editor!Execute(c) PROVE EditorIInv'
  <2>1. CASE upset
    BY <1>1, <1>7, <2>1 DEF Editor!Execute
  <2>2. CASE ~upset
    <3>1. /\ \A d \in Calls : d # c => call[d].stage = "free" /\ call'[d] = call[d]
          /\ UNCHANGED <<text, dirty, upset>>
      BY <1>1, <1>7, <2>2 DEF Editor!Execute, Editor!TypeOK
    <3>2. CASE call[c].kind = "load" /\ UNCHANGED <<file, local>>
      BY <1>1, <1>7, <2>2, <3>1, <3>2 DEF Editor!Execute, Editor!TypeOK
    <3>3. CASE call[c].kind = "save" /\ call' = [call EXCEPT ![c].stage = "done"]
               /\ file' = [file EXCEPT ![call[c].path] = call[c].text] /\ UNCHANGED local
      BY <1>1, <1>7, <2>2, <3>1, <3>3 DEF Editor!Execute, Editor!TypeOK
    <3>4. CASE call[c].kind = "saveLocal" /\ call' = [call EXCEPT ![c].stage = "done"]
               /\ local' = call[c].text /\ UNCHANGED file
      BY <1>1, <1>7, <2>2, <3>1, <3>4 DEF Editor!Execute, Editor!TypeOK
    <3>5. CASE call' = [call EXCEPT ![c].stage = "failed"] /\ UNCHANGED <<file, local>>
      BY <1>1, <1>7, <2>2, <3>1, <3>5 DEF Editor!Execute, Editor!TypeOK
    <3> QED
      BY <1>7, <3>2, <3>3, <3>4, <3>5 DEF Editor!Execute
  <2> QED
    BY <2>1, <2>2
<1>8. ASSUME NEW c \in Calls, Editor!Answer(c) PROVE EditorIInv'
  <2>1. CASE upset
    BY <1>1, <1>8, <2>1 DEF Editor!Answer
  <2>2. CASE ~upset
    <3>1. \A d \in Calls : call'[d].stage = "free"
      BY <1>1, <1>8, <2>2 DEF Editor!Answer, Editor!TypeOK, Editor!NoCall
    <3>2. text' = local \/ \E p \in Paths : file[p] = text'
      BY <1>1, <1>8, <2>2 DEF Editor!Answer, Editor!TypeOK, Editor!Kinds
    <3> QED
      BY <1>1, <1>8, <3>1, <3>2 DEF Editor!Answer
  <2> QED
    BY <2>1, <2>2
<1>9. ASSUME NEW c \in Calls, Editor!Fail(c) PROVE EditorIInv'
  BY <1>1, <1>9 DEF Editor!Fail, Editor!TypeOK, Editor!NoCall
<1>10. CASE UNCHANGED Editor!vars
  BY <1>1, <1>10 DEF Editor!vars
<1> QED
  BY <1>2, <1>3, <1>4, <1>6, <1>7, <1>8, <1>9, <1>10 DEF Editor!Next



LEMMA EditorInductive == Editor!Init /\ [][Editor!Next]_(Editor!vars) => []EditorIInv
<1> QED
  BY EditorInitIInv, EditorStepIInv, PTL

\* The variables of the editor keep their types, whatever calls overlap.
THEOREM EditorTypeCorrect == Editor!Init /\ [][Editor!Next]_(Editor!vars) => []Editor!TypeOK
<1>1. EditorIInv => Editor!TypeOK
  BY DEF EditorIInv
<1> QED
  BY <1>1, EditorInductive, PTL

\* What the editor shows without the mark "unsaved" is stored, for any number of
\* calls under way, unless a call was overtaken by an edit or another call.
THEOREM EditorCleanTextIsStored == Editor!Init /\ [][Editor!Next]_(Editor!vars) => []Editor!CleanMeansStored
<1>1. EditorIInv => Editor!CleanMeansStored
  BY DEF EditorIInv
<1> QED
  BY <1>1, EditorInductive, PTL

-----------------------------------------------------------------------------
(* Monitors *)

USE MonAssumption

\* What the monitor has or waits for is of the session it watches, unless that was changed.
MonWatching ==
    /\ ~moved =>
         /\ {sample, history} \subseteq {Mon!NoHost, watched}
         /\ \A i \in Ticks : tick[i].for \in {Mon!NoHost, watched}
         /\ \A t \in Tables : table[t] \in {Mon!NoHost, watched}
         /\ \A l \in fetching : l.for = watched
    /\ watched = Mon!NoHost => ~moved

\* One table is loaded at a time, and the one that is open is, unless it was passed over.
MonLoading ==
    /\ \A k, l \in fetching : k = l
    /\ tab # "res" /\ table[tab] = Mon!NoHost => tab \in skipped \cup {l.of : l \in fetching}

\* Answers on their way, and the last one, are of bytes that were moved.
MonBar == base \in 0..bytes /\ rate \in 0..bytes /\ \A i \in Ticks : poll[i] \in -1..bytes

MonIInv == Mon!TypeOK /\ MonWatching /\ MonLoading /\ MonBar

LEMMA MonInitIInv == Mon!Init => MonIInv
<1> SUFFICES ASSUME Mon!Init PROVE MonIInv
  OBVIOUS
<1>1. Mon!TypeOK
  <2>1. /\ watched \in Mon!Owners /\ sample \in Mon!Owners /\ history \in Mon!Owners
        /\ tick \in [Ticks -> [for : Mon!Owners, call : {"none", "metrics", "history"}]]
    BY DEF Mon!Init, Mon!Owners, Mon!NoTick
  <2>2. /\ tab \in Tables \cup {"res"} /\ table \in [Tables -> Mon!Owners]
        /\ fetching \subseteq Mon!Loads /\ moved \in BOOLEAN /\ skipped \subseteq Tables
    BY DEF Mon!Init, Mon!Owners
  <2>3. /\ bytes \in 0..MaxBytes /\ poll \in [Ticks -> -1..MaxBytes] /\ base \in 0..MaxBytes
        /\ rate \in 0..MaxBytes
    BY DEF Mon!Init
  <2> QED
    BY <2>1, <2>2, <2>3 DEF Mon!TypeOK
<1>2. MonWatching
  BY DEF Mon!Init, MonWatching, Mon!NoTick
<1>3. MonLoading
  BY DEF Mon!Init, MonLoading
<1>4. MonBar
  BY DEF Mon!Init, MonBar
<1> QED
  BY <1>1, <1>2, <1>3, <1>4 DEF MonIInv

\* The part of the type that the panel has, and the part of the status bar.
MonPanelTypes ==
    /\ watched \in Mon!Owners /\ sample \in Mon!Owners /\ history \in Mon!Owners
    /\ tick \in [Ticks -> [for : Mon!Owners, call : {"none", "metrics", "history"}]]
    /\ tab \in Tables \cup {"res"} /\ table \in [Tables -> Mon!Owners]
    /\ fetching \subseteq Mon!Loads /\ moved \in BOOLEAN /\ skipped \subseteq Tables
MonBarTypes ==
    bytes \in 0..MaxBytes /\ poll \in [Ticks -> -1..MaxBytes] /\ base \in 0..MaxBytes /\ rate \in 0..MaxBytes

LEMMA MonTypes == Mon!TypeOK <=> MonPanelTypes /\ MonBarTypes
BY DEF Mon!TypeOK, MonPanelTypes, MonBarTypes

LEMMA MonBarStays == ASSUME MonIInv, UNCHANGED Mon!barVars, MonPanelTypes', MonWatching',
                            MonLoading'
                     PROVE  MonIInv'
BY MonTypes DEF MonIInv, MonBar, MonBarTypes, Mon!barVars, Mon!TypeOK, MonPanelTypes

LEMMA MonPanelStays == ASSUME MonIInv, UNCHANGED Mon!monitorVars, MonBarTypes', MonBar'
                       PROVE  MonIInv'
BY MonTypes DEF MonIInv, MonWatching, MonLoading, MonPanelTypes, Mon!monitorVars, Mon!TypeOK,
                MonBarTypes

\* What the monitor is for changes.
LEMMA MonShowIInv == ASSUME MonIInv, NEW h \in Machines, Mon!Show(h) \/ Mon!Rewatch(h)
                     PROVE  MonIInv'
<1>0. MonPanelTypes
  BY MonTypes DEF MonIInv
<1>1. CASE Mon!Show(h)
  <2>1. MonPanelTypes'
    BY <1>0, <1>1 DEF Mon!Show, MonPanelTypes, Mon!Owners
  <2>2. \A l \in fetching : l.for \in Machines
    BY <1>0 DEF MonPanelTypes, Mon!Loads
  <2>3. MonWatching'
    BY <1>1, <2>2 DEF MonIInv, MonWatching, Mon!Show, Mon!NoHost
  <2>4. MonLoading'
    BY <1>1 DEF MonIInv, MonLoading, Mon!Show
  <2> QED
    BY <1>1, <2>1, <2>3, <2>4, MonBarStays DEF Mon!Show
<1>2. CASE Mon!Rewatch(h)
  <2>1. MonPanelTypes'
    BY <1>0, <1>2 DEF Mon!Rewatch, MonPanelTypes, Mon!Owners
  <2>3. MonWatching'
    BY <1>2 DEF MonIInv, MonWatching, Mon!Rewatch, Mon!NoHost
  <2>4. MonLoading'
    BY <1>2 DEF MonIInv, MonLoading, Mon!Rewatch
  <2> QED
    BY <1>2, <2>1, <2>3, <2>4, MonBarStays DEF Mon!Rewatch
<1> QED
  BY <1>1, <1>2

LEMMA MonTickIInv == ASSUME MonIInv, NEW i \in Ticks,
                            Mon!StartTick(i) \/ Mon!TickAnswers(i) \/ Mon!TickFails(i)
                     PROVE  MonIInv'
<1>0. MonPanelTypes
  BY MonTypes DEF MonIInv
<1>1. UNCHANGED <<watched, tab, table, fetching, moved, skipped, Mon!barVars>>
  BY DEF Mon!StartTick, Mon!TickAnswers, Mon!TickFails
<1>2. /\ tick' \in [Ticks -> [for : Mon!Owners, call : {"none", "metrics", "history"}]]
      /\ sample' \in {sample, tick[i].for} /\ history' \in {history, tick[i].for}
      /\ \A j \in Ticks : tick'[j].for \in {tick[j].for, watched, Mon!NoHost}
  <2>1. tick \in [Ticks -> [for : Mon!Owners, call : {"none", "metrics", "history"}]]
        /\ watched \in Mon!Owners /\ Mon!NoHost \in Mon!Owners
    BY <1>0 DEF MonPanelTypes, Mon!Owners
  <2>2. CASE Mon!StartTick(i)
    BY <2>1, <2>2 DEF Mon!StartTick
  <2>3. CASE Mon!TickAnswers(i) /\ tick[i].call = "metrics"
    BY <2>1, <2>3 DEF Mon!TickAnswers
  <2>4. CASE Mon!TickAnswers(i) /\ tick[i].call # "metrics"
    BY <2>1, <2>4 DEF Mon!TickAnswers, Mon!NoTick
  <2>5. CASE Mon!TickFails(i)
    BY <2>1, <2>5 DEF Mon!TickFails, Mon!NoTick
  <2> QED
    BY <2>2, <2>3, <2>4, <2>5
<1>3. tick[i].for \in Mon!Owners
  BY <1>0 DEF MonPanelTypes
<1>4. MonPanelTypes'
  BY <1>0, <1>1, <1>2, <1>3 DEF MonPanelTypes
<1>5. MonWatching'
  BY <1>1, <1>2 DEF MonIInv, MonWatching
<1>6. MonLoading'
  BY <1>1 DEF MonIInv, MonLoading
<1> QED
  BY <1>1, <1>4, <1>5, <1>6, MonBarStays

LEMMA MonTableIInv ==
    ASSUME MonIInv,
           (\E t \in Tables \cup {"res"} : Mon!OpenTab(t)) \/ Mon!TableFails \/ Mon!TableAnswers
    PROVE  MonIInv'
<1>0. MonPanelTypes /\ \A l \in fetching : l.of \in Tables /\ l.for \in Machines
  BY MonTypes DEF MonIInv, MonPanelTypes, Mon!Loads
<1>1. ASSUME NEW t \in Tables \cup {"res"}, Mon!OpenTab(t) PROVE MonIInv'
  <2> DEFINE loads == t # "res" /\ table[t] = Mon!NoHost /\ fetching = {}
  <2>1. /\ sample # Mon!NoHost /\ tab' = t
        /\ UNCHANGED <<watched, tick, sample, history, table, moved, Mon!barVars>>
        /\ fetching' = IF loads THEN {[of |-> t, for |-> watched]} ELSE fetching
        /\ skipped' = IF loads THEN skipped \ {t}
                      ELSE IF t # "res" /\ table[t] = Mon!NoHost THEN skipped \cup {t} ELSE skipped
    BY <1>1 DEF Mon!OpenTab
  <2>2. watched \in Machines
    BY <1>0, <2>1 DEF MonIInv, MonWatching, MonPanelTypes, Mon!Owners
  <2>3. fetching' \subseteq Mon!Loads /\ skipped' \subseteq Tables
    BY <1>0, <2>1, <2>2 DEF MonPanelTypes, Mon!Loads
  <2>4. MonPanelTypes'
    BY <1>0, <2>1, <2>3 DEF MonPanelTypes
  <2>5. MonWatching'
    BY <2>1 DEF MonIInv, MonWatching
  <2>6. MonLoading'
    <3>1. CASE loads
      BY <2>1, <3>1 DEF MonLoading
    <3>2. CASE ~loads
      BY <2>1, <3>2 DEF MonIInv, MonLoading
    <3> QED
      BY <3>1, <3>2
  <2> QED
    BY <2>1, <2>4, <2>5, <2>6, MonBarStays
<1>2. ASSUME Mon!TableFails \/ Mon!TableAnswers PROVE MonIInv'
  <2>1. PICK l \in fetching :
          /\ fetching' = {} /\ UNCHANGED <<watched, tick, sample, history, tab, moved, Mon!barVars>>
          /\ \/ table' = table /\ skipped' = skipped \cup {l.of}
             \/ table' = [table EXCEPT ![l.of] = l.for] /\ skipped' = skipped \ {l.of}
    BY <1>2 DEF Mon!TableFails, Mon!TableAnswers
  <2>2. l.of \in Tables /\ l.for \in Machines /\ l.for \in Mon!Owners /\ l.for # Mon!NoHost
    BY <1>0 DEF Mon!Owners, Mon!NoHost
  <2>3. table \in [Tables -> Mon!Owners] /\ skipped \subseteq Tables
    BY <1>0 DEF MonPanelTypes
  <2>4. table' \in [Tables -> Mon!Owners] /\ skipped' \subseteq Tables
    BY <2>1, <2>2, <2>3
  <2>5. MonPanelTypes'
    BY <1>0, <2>1, <2>4 DEF MonPanelTypes
  <2>6. MonWatching'
    BY <2>1, <2>3 DEF MonIInv, MonWatching
  <2>7. MonLoading'
    <3>1. {k.of : k \in fetching} = {l.of}
      BY DEF MonIInv, MonLoading
    <3>2. tab # "res" /\ table[tab] = Mon!NoHost => tab \in skipped \cup {l.of}
      BY <3>1 DEF MonIInv, MonLoading
    <3>3. tab # "res" => tab \in Tables
      BY <1>0 DEF MonPanelTypes
    <3> QED
      BY <2>1, <2>2, <2>3, <3>2, <3>3 DEF MonLoading
  <2> QED
    BY <2>1, <2>5, <2>6, <2>7, MonBarStays
<1> QED
  BY <1>1, <1>2

LEMMA MonBarIInv == ASSUME MonIInv, Mon!BarNext PROVE MonIInv'
<1>0. /\ MonBarTypes /\ base \in 0..bytes /\ rate \in 0..bytes
      /\ (\A i \in Ticks : poll[i] \in -1..bytes)
  BY MonTypes DEF MonIInv, MonBar
<1>1. ASSUME Mon!Moves PROVE MonIInv'
  <2>1. /\ bytes' = bytes + 1 /\ bytes' \in 0..MaxBytes
        /\ UNCHANGED <<Mon!monitorVars, poll, base, rate>>
    BY <1>0, <1>1 DEF Mon!Moves, MonBarTypes
  <2>2. \A n \in Int : (n \in 0..bytes => n \in 0..bytes') /\ (n \in -1..bytes => n \in -1..bytes')
    BY <1>0, <2>1 DEF MonBarTypes
  <2>3. base \in Int /\ rate \in Int /\ \A i \in Ticks : poll[i] \in Int
    BY <1>0 DEF MonBarTypes
  <2>4. MonBar' /\ MonBarTypes'
    BY <1>0, <2>1, <2>2, <2>3 DEF MonBar, MonBarTypes
  <2> QED
    BY <2>1, <2>4, MonPanelStays
<1>2. ASSUME NEW i \in Ticks, Mon!Poll(i) PROVE MonIInv'
  <2>1. poll' = [poll EXCEPT ![i] = bytes] /\ UNCHANGED <<Mon!monitorVars, bytes, base, rate>>
    BY <1>2 DEF Mon!Poll
  <2>2. bytes \in -1..bytes /\ bytes \in -1..MaxBytes
    BY <1>0 DEF MonBarTypes
  <2>3. MonBar' /\ MonBarTypes'
    BY <1>0, <2>1, <2>2 DEF MonBar, MonBarTypes
  <2> QED
    BY <2>1, <2>3, MonPanelStays
<1>3. ASSUME NEW i \in Ticks, Mon!PollAnswers(i) PROVE MonIInv'
  <2> DEFINE p == poll[i]
  <2>0. p >= 0 /\ p \in -1..bytes /\ bytes \in 0..MaxBytes /\ base \in 0..bytes
    BY <1>0, <1>3 DEF Mon!PollAnswers, MonBarTypes
  <2>1. /\ rate' = (IF p > base THEN p - base ELSE 0) /\ base' = p
        /\ poll' = [poll EXCEPT ![i] = -1]
        /\ UNCHANGED <<Mon!monitorVars, bytes>>
    BY <1>3 DEF Mon!PollAnswers
  <2> HIDE DEF p
  <2>2. /\ rate' \in 0..bytes /\ base' \in 0..bytes /\ -1 \in -1..bytes
        /\ rate' \in 0..MaxBytes /\ base' \in 0..MaxBytes /\ -1 \in -1..MaxBytes
    BY <2>0, <2>1
  <2>3. \A j \in Ticks : poll'[j] \in -1..bytes
    BY <1>0, <2>1, <2>2 DEF MonBarTypes
  <2>4. poll' \in [Ticks -> -1..MaxBytes]
    BY <1>0, <2>1, <2>2 DEF MonBarTypes
  <2>5. MonBar' /\ MonBarTypes'
    BY <1>0, <2>1, <2>2, <2>3, <2>4 DEF MonBar, MonBarTypes
  <2> QED
    BY <2>1, <2>5, MonPanelStays
<1> QED
  BY <1>1, <1>2, <1>3 DEF Mon!BarNext

LEMMA MonNextIInv == MonIInv /\ [Mon!Next]_(Mon!vars) => MonIInv'
<1>1. MonIInv /\ UNCHANGED Mon!vars => MonIInv'
  <2> SUFFICES ASSUME MonIInv, UNCHANGED Mon!vars PROVE MonIInv'
    OBVIOUS
  <2>1. UNCHANGED Mon!monitorVars /\ UNCHANGED Mon!barVars
    BY DEF Mon!vars
  <2>2. MonBarTypes /\ MonBarTypes' /\ MonBar'
    BY <2>1, MonTypes DEF MonIInv, MonBar, MonBarTypes, Mon!barVars
  <2> QED
    BY <2>1, <2>2, MonPanelStays
<1>2. MonIInv /\ Mon!Close => MonIInv'
  <2> SUFFICES ASSUME MonIInv, Mon!Close PROVE MonIInv'
    OBVIOUS
  <2>1. MonPanelTypes'
    BY DEF Mon!Close, Mon!Closed, MonPanelTypes, Mon!Owners, Mon!NoTick
  <2>3. MonWatching'
    BY DEF MonWatching, Mon!Close, Mon!Closed, Mon!NoTick
  <2>4. MonLoading'
    BY DEF MonLoading, Mon!Close, Mon!Closed
  <2> QED
    BY <2>1, <2>3, <2>4, MonBarStays DEF Mon!Close
<1> QED
  BY <1>1, <1>2, MonShowIInv, MonTickIInv, MonTableIInv, MonBarIInv DEF Mon!Next, Mon!MonitorNext



\* The monitors keep the types of their state; a rate is never below zero
\* (MonitorPanel.tsx, Workspace.tsx).
THEOREM MonTypeCorrect == Mon!Init /\ [][Mon!Next]_(Mon!vars) => []Mon!TypeOK
<1>1. MonIInv => Mon!TypeOK
  BY DEF MonIInv
<1> QED
  BY <1>1, MonInitIInv, MonNextIInv, PTL

\* What is shown is of the session that is watched, unless that was changed under it, whatever
\* calls of an earlier monitor are under way (MonitorPanel.tsx).
THEOREM MonIsOfSession == Mon!Init /\ [][Mon!Next]_(Mon!vars) => []Mon!MonitorIsOfSession
<1>1. MonIInv => Mon!MonitorIsOfSession
  <2> SUFFICES ASSUME MonIInv PROVE Mon!MonitorIsOfSession
    OBVIOUS
  <2>1. tab \in Tables \cup {"res"}
    BY DEF MonIInv, Mon!TypeOK
  <2>2. ~moved => {Mon!Displayed, sample, history} \subseteq {Mon!NoHost, watched}
    BY <2>1 DEF MonIInv, MonWatching, Mon!Displayed
  <2>3. tab # "res" /\ table[tab] = Mon!NoHost => tab \in skipped \cup {l.of : l \in fetching}
    BY DEF MonIInv, MonLoading
  <2> QED
    BY <2>2, <2>3 DEF Mon!MonitorIsOfSession, MonIInv, MonBar
<1> QED
  BY <1>1, MonInitIInv, MonNextIInv, PTL

HIDE MonAssumption

-----------------------------------------------------------------------------
(* The remote desktop *)

USE VncAssumption

VncTypes ==
    /\ desk \in [Vnc!Desks -> {"none", "up", "gone"}] /\ frames \in Seq(Vnc!Desks)
    /\ replies \subseteq Vnc!Desks \cup {Vnc!NoDesk} /\ placed \in BOOLEAN
    /\ shownDesk \in Vnc!Desks \cup {Vnc!NoDesk} /\ canvas \in Vnc!Desks \cup {Vnc!NoDesk}
    /\ linked \in BOOLEAN /\ linking \in BOOLEAN

VncMouse ==
    /\ mask \subseteq Vnc!Buttons /\ held \subseteq Vnc!Buttons
    /\ missed \in BOOLEAN /\ overtaken \in BOOLEAN
    /\ ~missed => mask \subseteq held

\* An answer that the panel waits for is the only one, and comes before it is connected.
VncConnection ==
    /\ canvas \in {Vnc!NoDesk, shownDesk} /\ (linked <=> shownDesk # Vnc!NoDesk)
    /\ \A d, e \in replies : d = e
    /\ placed /\ replies # {} => linking
    /\ linked => placed /\ replies = {} /\ desk[shownDesk] # "none"
    /\ \A d \in replies : d # Vnc!NoDesk => desk[d] # "none"

\* Nobody has called the desktop.
VncFresh(d) == server[d] = {} /\ newest.desk # d /\ \A w \in Flights : older[w].desk # d

\* A desktop the panel was not connected to yet was not called.
VncCalls ==
    /\ newest \in Vnc!PointerCalls /\ older \in [Flights -> Vnc!PointerCalls]
    /\ server \in [Vnc!Desks -> Vnc!Masks]
    /\ \A d \in Vnc!Desks : desk[d] = "none" \/ d \in replies => VncFresh(d)

\* The desktop shown will be told, or was told last, of buttons that are held.
VncTold ==
    linked /\ ~missed =>
      IF newest.desk = shownDesk THEN newest.buttons \subseteq held
      ELSE desk[shownDesk] = "up" /\ ~overtaken => server[shownDesk] \subseteq held

VncIInv == VncTypes /\ VncMouse /\ VncConnection /\ VncCalls /\ VncTold

LEMMA VncInitIInv == Vnc!Init => VncIInv
<1> SUFFICES ASSUME Vnc!Init PROVE VncIInv
  OBVIOUS
<1>1. <<>> \in Seq(Vnc!Desks)
  BY EmptySeq
<1>2. VncTypes
  BY <1>1 DEF Vnc!Init, VncTypes, Vnc!NoDesk
<1>3. VncMouse /\ VncConnection /\ VncTold
  BY DEF Vnc!Init, VncMouse, VncConnection, VncTold
<1>4. Vnc!NoCall \in Vnc!PointerCalls /\ {} \in Vnc!Masks
  BY DEF Vnc!NoCall, Vnc!PointerCalls, Vnc!Masks
<1>5. ASSUME NEW d \in Vnc!Desks PROVE VncFresh(d)
  BY DEF Vnc!Init, VncFresh, Vnc!NoCall, Vnc!NoDesk, Vnc!Desks
<1>6. VncCalls
  BY <1>4, <1>5 DEF Vnc!Init, VncCalls
<1> QED
  BY <1>2, <1>3, <1>6 DEF VncIInv

\* The mouse and its calls stay as they are while connections do.
LEMMA VncMouseStays == ASSUME VncIInv, VncTypes', VncConnection', UNCHANGED <<Vnc!mouse, linked,
                              shownDesk, desk>>, replies' \subseteq replies
                       PROVE  VncIInv'
<1>1. UNCHANGED <<mask, held, missed, newest, older, server, overtaken>>
  BY DEF Vnc!mouse, Vnc!hand, Vnc!calls
<1>2. VncMouse' /\ VncTold'
  BY <1>1 DEF VncIInv, VncMouse, VncTold
<1>3. VncCalls'
  BY <1>1 DEF VncIInv, VncCalls, VncFresh
<1> QED
  BY <1>2, <1>3 DEF VncIInv

\* Connections come and go.
LEMMA VncLinkIInv ==
    ASSUME VncIInv,
           Vnc!Connect \/ Vnc!Disconnect \/ Vnc!Unmount \/ Vnc!Remount \/ (\E d \in Vnc!Desks \cup {Vnc!NoDesk} : Vnc!ConnectAnswers(d))
                 \/ (\E d \in Vnc!Desks : Vnc!DeskEnds(d))
    PROVE  VncIInv'
<1>0. VncTypes /\ VncMouse /\ VncConnection /\ VncCalls /\ VncTold /\ Vnc!NoDesk \notin Vnc!Desks
  BY DEF VncIInv, Vnc!Desks, Vnc!NoDesk
<1>1. CASE Vnc!Connect
  <2>1. /\ placed /\ ~linked /\ ~linking /\ linking' = TRUE
        /\ UNCHANGED <<frames, placed, shownDesk, linked, canvas>>
        /\ UNCHANGED <<mask, held, missed, newest, older, server, overtaken>>
    BY <1>1 DEF Vnc!Connect, Vnc!mouse, Vnc!hand, Vnc!calls
  <2>2. PICK d \in Vnc!Desks \cup {Vnc!NoDesk} :
          /\ replies' = replies \cup {d}
          /\ \/ desk' = desk /\ d = Vnc!NoDesk
             \/ d \in Vnc!Desks /\ desk[d] = "none" /\ desk' = [desk EXCEPT ![d] = "up"]
    BY <1>1 DEF Vnc!Connect
  <2>3. VncTypes'
    BY <1>0, <2>1, <2>2 DEF VncTypes
  <2>4. replies = {}
    BY <1>0, <2>1 DEF VncConnection
  <2>5. VncConnection'
    BY <1>0, <2>1, <2>2, <2>4 DEF VncConnection, VncTypes
  <2>6. VncMouse' /\ VncTold'
    BY <1>0, <2>1 DEF VncMouse, VncTold
  <2>7. ASSUME NEW e \in Vnc!Desks, desk'[e] = "none" \/ e \in replies' PROVE VncFresh(e)'
    <3>1. desk[e] = "none"
      BY <1>0, <2>2, <2>4, <2>7 DEF VncTypes
    <3> QED
      BY <1>0, <2>1, <3>1 DEF VncCalls, VncFresh
  <2>8. VncCalls'
    BY <1>0, <2>1, <2>7 DEF VncCalls
  <2> QED
    BY <2>3, <2>5, <2>6, <2>8 DEF VncIInv
<1>2. CASE Vnc!Disconnect
  <2>1. /\ linked /\ shownDesk' = Vnc!NoDesk /\ linked' = FALSE /\ canvas' = Vnc!NoDesk
        /\ desk' = [desk EXCEPT ![shownDesk] = "gone"]
        /\ UNCHANGED <<frames, replies, placed, linking>>
        /\ UNCHANGED <<mask, held, missed, newest, older, server, overtaken>>
    BY <1>2 DEF Vnc!Disconnect, Vnc!mouse, Vnc!hand, Vnc!calls
  <2>2. shownDesk \in Vnc!Desks /\ replies = {}
    BY <1>0, <2>1 DEF VncTypes, VncConnection
  <2>3. VncTypes' /\ VncConnection'
    BY <1>0, <2>1, <2>2 DEF VncTypes, VncConnection
  <2>4. VncMouse' /\ VncTold'
    BY <1>0, <2>1 DEF VncMouse, VncTold
  <2>5. ASSUME NEW e \in Vnc!Desks, desk'[e] = "none" \/ e \in replies' PROVE VncFresh(e)'
    <3>1. desk[e] = "none"
      BY <1>0, <2>1, <2>2, <2>5 DEF VncTypes
    <3> QED
      BY <1>0, <2>1, <3>1 DEF VncCalls, VncFresh
  <2>6. VncCalls'
    BY <1>0, <2>1, <2>5 DEF VncCalls
  <2> QED
    BY <2>3, <2>4, <2>6 DEF VncIInv
<1>3. CASE Vnc!Unmount
  <2>1. /\ placed' = FALSE /\ shownDesk' = Vnc!NoDesk /\ linked' = FALSE /\ linking' = FALSE
        /\ canvas' = Vnc!NoDesk /\ mask' = {} /\ missed' = FALSE
        /\ UNCHANGED <<desk, frames, replies, held, newest, older, server, overtaken>>
    BY <1>3 DEF Vnc!Unmount, Vnc!calls
  <2>2. VncTypes' /\ VncConnection'
    BY <1>0, <2>1 DEF VncTypes, VncConnection
  <2>3. VncMouse' /\ VncTold'
    BY <1>0, <2>1 DEF VncMouse, VncTold
  <2>4. VncCalls'
    BY <1>0, <2>1 DEF VncCalls, VncFresh
  <2> QED
    BY <2>2, <2>3, <2>4 DEF VncIInv
<1>4. CASE Vnc!Remount
  <2>1. VncTypes' /\ VncConnection'
    BY <1>0, <1>4 DEF VncTypes, VncConnection, Vnc!Remount
  <2> QED
    BY <1>4, <2>1, VncMouseStays DEF Vnc!Remount
<1>5. ASSUME NEW d \in Vnc!Desks \cup {Vnc!NoDesk}, Vnc!ConnectAnswers(d) PROVE VncIInv'
  <2>1. /\ d \in replies /\ replies' = replies \ {d}
        /\ UNCHANGED <<desk, frames, placed, canvas, mask, held, missed, newest, older, server>>
    BY <1>5 DEF Vnc!ConnectAnswers, Vnc!hand, Vnc!calls
  <2>2. replies' = {}
    BY <1>0, <2>1 DEF VncConnection
  <2>3. CASE placed
    <3>1. /\ linking' = FALSE /\ shownDesk' = (IF d = Vnc!NoDesk THEN shownDesk ELSE d)
          /\ linked' = (d # Vnc!NoDesk) /\ overtaken' = FALSE
      BY <1>5, <2>3 DEF Vnc!ConnectAnswers
    <3>2. ~linked /\ shownDesk = Vnc!NoDesk /\ canvas = Vnc!NoDesk
      BY <1>0, <2>1 DEF VncConnection
    <3>3. VncTypes'
      BY <1>0, <2>1, <2>2, <3>1 DEF VncTypes
    <3>4. VncConnection'
      BY <1>0, <2>1, <2>2, <2>3, <3>1, <3>2 DEF VncConnection
    <3>5. VncMouse'
      BY <1>0, <2>1, <3>1 DEF VncMouse
    <3>6. VncCalls'
      BY <1>0, <2>1, <2>2 DEF VncCalls, VncFresh
    <3>7. d # Vnc!NoDesk => VncFresh(d)
      BY <1>0, <2>1 DEF VncCalls
    <3>8. VncTold'
      BY <2>1, <3>1, <3>2, <3>7 DEF VncTold, VncFresh
    <3> QED
      BY <3>3, <3>4, <3>5, <3>6, <3>8 DEF VncIInv
  <2>4. CASE ~placed
    <3>1. UNCHANGED <<shownDesk, linked, linking, overtaken>>
      BY <1>5, <2>4 DEF Vnc!ConnectAnswers
    <3>2. VncTypes' /\ VncConnection'
      BY <1>0, <2>1, <2>2, <3>1 DEF VncTypes, VncConnection
    <3> QED
      BY <2>1, <2>2, <3>1, <3>2, VncMouseStays DEF Vnc!mouse, Vnc!hand, Vnc!calls
  <2> QED
    BY <2>3, <2>4
<1>6. ASSUME NEW d \in Vnc!Desks, Vnc!DeskEnds(d) PROVE VncIInv'
  <2>1. /\ desk[d] = "up" /\ desk' = [desk EXCEPT ![d] = "gone"]
        /\ UNCHANGED <<frames, replies, placed, shownDesk, linked, linking, canvas>>
        /\ UNCHANGED <<mask, held, missed, newest, older, server, overtaken>>
    BY <1>6 DEF Vnc!DeskEnds, Vnc!mouse, Vnc!hand, Vnc!calls
  <2>2. \A e \in Vnc!Desks : /\ desk'[e] = "up" => desk[e] = "up"
                             /\ desk'[e] = "none" <=> desk[e] = "none"
    BY <1>0, <2>1 DEF VncTypes
  <2>3. linked => shownDesk \in Vnc!Desks
    BY <1>0 DEF VncTypes, VncConnection
  <2>4. VncTypes'
    BY <1>0, <2>1 DEF VncTypes
  <2>5. VncConnection'
    BY <1>0, <2>1, <2>2, <2>3 DEF VncTypes, VncConnection
  <2>6. VncMouse' /\ VncTold'
    BY <1>0, <2>1, <2>2, <2>3 DEF VncMouse, VncTold
  <2>7. VncCalls'
    BY <1>0, <2>1, <2>2 DEF VncCalls, VncFresh
  <2> QED
    BY <2>4, <2>5, <2>6, <2>7 DEF VncIInv
<1> QED
  BY <1>1, <1>2, <1>3, <1>4, <1>5, <1>6

\* Frames.
LEMMA VncFrameIInv == ASSUME VncIInv, Vnc!OnFrame \/ (\E d \in Vnc!Desks : Vnc!FrameComes(d))
                      PROVE  VncIInv'
<1>0. VncTypes /\ VncMouse /\ VncConnection
  BY DEF VncIInv
<1>1. /\ UNCHANGED <<desk, replies, placed, shownDesk, linked, linking, Vnc!mouse>>
      /\ canvas' \in {canvas, shownDesk}
  BY DEF Vnc!OnFrame, Vnc!FrameComes
<1>2. frames' \in Seq(Vnc!Desks)
  <2>1. CASE Vnc!OnFrame
    BY <1>0, <2>1, HeadTailProperties DEF Vnc!OnFrame, VncTypes
  <2>2. ASSUME NEW d \in Vnc!Desks, Vnc!FrameComes(d) PROVE frames' \in Seq(Vnc!Desks)
    BY <1>0, <2>2, AppendProperties DEF Vnc!FrameComes, VncTypes
  <2> QED
    BY <2>1, <2>2
<1>3. VncTypes' /\ VncConnection'
  BY <1>0, <1>1, <1>2 DEF VncTypes, VncConnection
<1> QED
  BY <1>1, <1>3, VncMouseStays

\* A call that is made is for the desktop shown, and the desktops not called stay so.
LEMMA VncCallMade ==
    ASSUME VncIInv, linked, NEW b \in Vnc!Masks, UNCHANGED <<desk, replies, server>>,
           newest' = [desk |-> shownDesk, buttons |-> b], older' \in [Flights -> Vnc!PointerCalls],
           \A w \in Flights : older'[w].desk \in {older[w].desk, newest.desk, shownDesk}
    PROVE  VncCalls' /\ newest'.desk = shownDesk /\ newest'.buttons = b
<1>0. VncTypes /\ VncConnection /\ VncCalls
  BY DEF VncIInv
<1>1. shownDesk \in Vnc!Desks /\ desk[shownDesk] # "none" /\ replies = {}
  BY <1>0 DEF VncTypes, VncConnection
<1>2. newest' \in Vnc!PointerCalls /\ newest'.desk = shownDesk /\ newest'.buttons = b
  BY <1>1 DEF Vnc!PointerCalls
<1>3. ASSUME NEW d \in Vnc!Desks, desk'[d] = "none" \/ d \in replies' PROVE VncFresh(d)'
  <2>1. VncFresh(d) /\ d # shownDesk
    BY <1>0, <1>1, <1>3 DEF VncCalls
  <2> QED
    BY <1>2, <2>1 DEF VncFresh
<1> QED
  BY <1>0, <1>2, <1>3 DEF VncCalls

\* Such a call leaves those before it on their way.
LEMMA VncPointed ==
    ASSUME VncIInv, linked, NEW b \in Vnc!Masks, UNCHANGED <<desk, replies, server>>, Vnc!Point(b)
    PROVE  VncCalls' /\ newest'.desk = shownDesk /\ newest'.buttons = b
<1>0. newest \in Vnc!PointerCalls /\ older \in [Flights -> Vnc!PointerCalls]
  BY DEF VncIInv, VncCalls
<1>1. newest' = [desk |-> shownDesk, buttons |-> b]
  BY DEF Vnc!Point
<1>2. older' = older \/ \E w \in Flights : older' = [older EXCEPT ![w] = newest]
  BY DEF Vnc!Point, Vnc!Free
<1>3. /\ older' \in [Flights -> Vnc!PointerCalls]
      /\ \A w \in Flights : older'[w].desk \in {older[w].desk, newest.desk, shownDesk}
  BY <1>0, <1>2
<1> QED
  BY <1>1, <1>3, VncCallMade

\* The mouse.
LEMMA VncMouseIInv ==
    ASSUME VncIInv,
           Vnc!MouseMove \/ Vnc!Wheel \/ (\E b \in Vnc!Buttons : Vnc!MouseDown(b) \/ Vnc!MouseUp(b) \/ Vnc!MouseUpElsewhere(b))
    PROVE  VncIInv'
<1>0. VncTypes /\ VncMouse /\ VncConnection /\ VncCalls /\ VncTold
  BY DEF VncIInv
<1>1. UNCHANGED <<desk, frames, replies, placed, shownDesk, linked, linking, canvas, server, overtaken>>
  BY DEF Vnc!MouseMove, Vnc!Wheel, Vnc!MouseDown, Vnc!MouseUp, Vnc!MouseUpElsewhere
<1>2. VncTypes' /\ VncConnection'
  BY <1>0, <1>1 DEF VncTypes, VncConnection
<1>7. \A b \in SUBSET Vnc!Buttons : b \in Vnc!Masks
  BY DEF Vnc!Masks
<1>3. CASE Vnc!MouseMove
  <2>1. linked /\ Vnc!Point(mask) /\ UNCHANGED <<mask, held, missed>>
    BY <1>3 DEF Vnc!MouseMove, Vnc!hand
  <2>2. VncCalls' /\ newest'.desk = shownDesk /\ newest'.buttons = mask
    BY <1>0, <1>1, <1>7, <2>1, VncPointed DEF VncMouse
  <2>3. VncMouse' /\ VncTold'
    BY <1>0, <1>1, <2>1, <2>2 DEF VncMouse, VncTold
  <2> QED
    BY <1>2, <2>2, <2>3 DEF VncIInv
<1>4. CASE Vnc!Wheel
  <2>1. /\ linked /\ UNCHANGED <<mask, held, missed>>
        /\ newest' = [desk |-> shownDesk, buttons |-> {}]
    BY <1>4 DEF Vnc!Wheel, Vnc!hand
  <2>2. PICK turn \in {{"right"}, {"wheel"}}, w \in Flights :
          LET turned == [older EXCEPT ![w] = [desk |-> shownDesk, buttons |-> turn]]
          IN  older' = turned \/ \E v \in Flights : older' = [turned EXCEPT ![v] = newest]
    BY <1>4 DEF Vnc!Wheel, Vnc!Free
  <2>3. [desk |-> shownDesk, buttons |-> turn] \in Vnc!PointerCalls
    <3>1. turn \in Vnc!Masks
      BY <2>2 DEF Vnc!Masks, Vnc!Buttons
    <3>2. shownDesk \in Vnc!Desks \cup {Vnc!NoDesk}
      BY <1>0 DEF VncTypes
    <3> QED
      BY <3>1, <3>2 DEF Vnc!PointerCalls
  <2> DEFINE turned == [older EXCEPT ![w] = [desk |-> shownDesk, buttons |-> turn]]
  <2>4. /\ turned \in [Flights -> Vnc!PointerCalls]
        /\ \A v \in Flights : turned[v].desk \in {older[v].desk, shownDesk}
    BY <1>0, <2>3 DEF VncCalls
  <2>5. older' = turned \/ \E v \in Flights : older' = [turned EXCEPT ![v] = newest]
    BY <2>2
  <2> HIDE DEF turned
  <2>6. /\ older' \in [Flights -> Vnc!PointerCalls]
        /\ \A v \in Flights : older'[v].desk \in {older[v].desk, newest.desk, shownDesk}
    BY <1>0, <2>4, <2>5 DEF VncCalls
  <2>7. VncCalls' /\ newest'.desk = shownDesk /\ newest'.buttons = {}
    BY <1>1, <1>7, <2>1, <2>6, VncCallMade
  <2>8. VncMouse' /\ VncTold'
    BY <1>0, <1>1, <2>1, <2>7 DEF VncMouse, VncTold
  <2> QED
    BY <1>2, <2>7, <2>8 DEF VncIInv
<1>5. ASSUME NEW b \in Vnc!Buttons, Vnc!MouseDown(b) \/ Vnc!MouseUp(b) PROVE VncIInv'
  <2>1. /\ mask' \subseteq Vnc!Buttons /\ held' \subseteq Vnc!Buttons /\ missed' \in BOOLEAN
        /\ ~missed' => ~missed /\ mask' \subseteq held'
        /\ ~linked => UNCHANGED <<mask, newest, older>>
        /\ linked => Vnc!Point(mask')
    <3>1. CASE Vnc!MouseDown(b)
      BY <1>0, <3>1 DEF Vnc!MouseDown, Vnc!calls, VncMouse
    <3>2. CASE Vnc!MouseUp(b)
      <4>1. /\ held' = held \ {b} /\ missed' = (missed \/ (~linked /\ b \in mask))
            /\ IF linked THEN mask' = mask \ {b} /\ Vnc!Point(mask')
               ELSE UNCHANGED <<mask, newest, older>>
        BY <3>2 DEF Vnc!MouseUp, Vnc!calls
      <4>2. missed' \in BOOLEAN
        BY <4>1
      <4>3. mask' \subseteq Vnc!Buttons /\ held' \subseteq Vnc!Buttons
        BY <1>0, <4>1 DEF VncMouse
      <4>4. ~missed' => ~missed /\ mask' \subseteq held'
        <5> SUFFICES ASSUME ~missed' PROVE ~missed /\ mask' \subseteq held'
          OBVIOUS
        <5>1. ~missed /\ (linked \/ b \notin mask)
          BY <4>1
        <5>2. mask \subseteq held
          BY <1>0, <5>1 DEF VncMouse
        <5>3. mask' \subseteq mask \ {b}
          BY <4>1, <5>1
        <5> QED
          BY <4>1, <5>1, <5>2, <5>3
      <4> QED
        BY <4>1, <4>2, <4>3, <4>4
    <3> QED
      BY <1>5, <3>1, <3>2
  <2>2. VncMouse'
    BY <1>0, <1>1, <2>1 DEF VncMouse
  <2>3. CASE linked
    <3>1. VncCalls' /\ newest'.desk = shownDesk /\ newest'.buttons = mask'
      BY <1>1, <1>7, <2>1, <2>3, VncPointed
    <3>2. VncTold'
      BY <1>1, <2>1, <3>1 DEF VncTold
    <3> QED
      BY <1>2, <2>2, <3>1, <3>2 DEF VncIInv
  <2>4. CASE ~linked
    <3>1. VncCalls' /\ VncTold'
      BY <1>0, <1>1, <2>1, <2>4 DEF VncCalls, VncFresh, VncTold
    <3> QED
      BY <1>2, <2>2, <3>1 DEF VncIInv
  <2> QED
    BY <2>3, <2>4
<1>6. ASSUME NEW b \in Vnc!Buttons, Vnc!MouseUpElsewhere(b) PROVE VncIInv'
  <2>1. held' = held \ {b} /\ missed' = TRUE /\ UNCHANGED <<mask, newest, older>>
    BY <1>6 DEF Vnc!MouseUpElsewhere, Vnc!calls
  <2>2. VncMouse' /\ VncTold'
    BY <1>0, <1>1, <2>1 DEF VncMouse, VncTold
  <2>3. VncCalls'
    BY <1>0, <1>1, <2>1 DEF VncCalls, VncFresh
  <2> QED
    BY <1>2, <2>2, <2>3 DEF VncIInv
<1> QED
  BY <1>3, <1>4, <1>5, <1>6

\* A desktop is told of a call for it, and of no other.
LEMMA VncTells ==
    ASSUME VncIInv, NEW c \in Vnc!PointerCalls, Vnc!Tell(c)
    PROVE  /\ server' \in [Vnc!Desks -> Vnc!Masks]
           /\ \A d \in Vnc!Desks : server'[d] = IF d = c.desk /\ desk[d] = "up" THEN c.buttons ELSE server[d]
<1>0. server \in [Vnc!Desks -> Vnc!Masks]
  BY DEF VncIInv, VncCalls
<1>1. c.buttons \in Vnc!Masks
  BY DEF Vnc!PointerCalls
<1> QED
  BY <1>0, <1>1 DEF Vnc!Tell

\* Calls are carried out.
LEMMA VncCarryIInv == ASSUME VncIInv, Vnc!CarryOut PROVE VncIInv'
<1>0. VncTypes /\ VncMouse /\ VncConnection /\ VncCalls /\ VncTold
  BY DEF VncIInv
<1>1. /\ UNCHANGED <<desk, frames, replies, placed, shownDesk, linked, linking, canvas>>
      /\ UNCHANGED <<mask, held, missed>>
  BY DEF Vnc!CarryOut, Vnc!hand
<1>2. VncTypes' /\ VncConnection'
  BY <1>0, <1>1 DEF VncTypes, VncConnection
<1>3. Vnc!NoCall \in Vnc!PointerCalls /\ Vnc!NoCall.desk \notin Vnc!Desks
  BY DEF Vnc!NoCall, Vnc!PointerCalls, Vnc!NoDesk, Vnc!Desks, Vnc!Masks
<1>4. linked => shownDesk \in Vnc!Desks
  BY <1>0 DEF VncTypes, VncConnection
<1>5. CASE /\ newest # Vnc!NoCall /\ Vnc!Tell(newest) /\ newest' = Vnc!NoCall
           /\ overtaken' = (overtaken /\ newest.desk # shownDesk)
           /\ UNCHANGED older
  <2>1. /\ server' \in [Vnc!Desks -> Vnc!Masks]
        /\ \A d \in Vnc!Desks :
             server'[d] = IF d = newest.desk /\ desk[d] = "up" THEN newest.buttons ELSE server[d]
    BY <1>0, <1>5, VncTells DEF VncCalls
  <2>2. VncMouse'
    BY <1>0, <1>1, <1>5 DEF VncMouse
  <2>3. ASSUME NEW d \in Vnc!Desks, VncFresh(d) PROVE VncFresh(d)'
    BY <1>3, <1>5, <2>1, <2>3 DEF VncFresh
  <2>4. VncCalls'
    BY <1>0, <1>1, <1>3, <1>5, <2>1, <2>3 DEF VncCalls
  <2>5. VncTold'
    BY <1>0, <1>1, <1>3, <1>4, <1>5, <2>1 DEF VncTold
  <2> QED
    BY <1>2, <2>2, <2>4, <2>5 DEF VncIInv
<1>6. ASSUME NEW w \in Flights, Vnc!Tell(older[w]), older' = [older EXCEPT ![w] = Vnc!NoCall],
             overtaken' = (overtaken \/ (older[w].desk = shownDesk /\ newest.desk # shownDesk)),
             UNCHANGED newest
      PROVE  VncIInv'
  <2>1. /\ server' \in [Vnc!Desks -> Vnc!Masks]
        /\ \A d \in Vnc!Desks :
             server'[d] = IF d = older[w].desk /\ desk[d] = "up" THEN older[w].buttons ELSE server[d]
    BY <1>0, <1>6, VncTells DEF VncCalls
  <2>2. VncMouse'
    BY <1>0, <1>1, <1>6 DEF VncMouse
  <2>3. /\ older' \in [Flights -> Vnc!PointerCalls]
        /\ \A v \in Flights : older'[v] \in {older[v], Vnc!NoCall}
    BY <1>0, <1>3, <1>6 DEF VncCalls
  <2>4. ASSUME NEW d \in Vnc!Desks, VncFresh(d) PROVE VncFresh(d)'
    BY <1>3, <1>6, <2>1, <2>3, <2>4 DEF VncFresh
  <2>5. VncCalls'
    BY <1>0, <1>1, <1>6, <2>1, <2>3, <2>4 DEF VncCalls
  <2>6. VncTold'
    BY <1>0, <1>1, <1>4, <1>6, <2>1 DEF VncTold
  <2> QED
    BY <1>2, <2>2, <2>5, <2>6 DEF VncIInv
<1> QED
  BY <1>5, <1>6 DEF Vnc!CarryOut

LEMMA VncNextIInv == VncIInv /\ [Vnc!Next]_(Vnc!vars) => VncIInv'
<1>1. VncIInv /\ UNCHANGED Vnc!vars => VncIInv'
  BY DEF Vnc!vars, Vnc!mouse, Vnc!hand, Vnc!calls, VncIInv, VncTypes, VncMouse, VncConnection,
         VncCalls, VncFresh, VncTold
<1> QED
  BY <1>1, VncLinkIInv, VncFrameIInv, VncMouseIInv, VncCarryIInv DEF Vnc!Next

\* The panel keeps the types of its state (VncPanel.tsx).
THEOREM VncTypeCorrect == Vnc!Init /\ [][Vnc!Next]_(Vnc!vars) => []Vnc!TypeOK
<1>1. VncIInv => Vnc!TypeOK
  <2> SUFFICES ASSUME VncIInv PROVE Vnc!TypeOK
    OBVIOUS
  <2>1. Vnc!Range(frames) \subseteq Vnc!Desks
    BY DEF VncIInv, VncTypes, Vnc!Range
  <2> QED
    BY <2>1 DEF VncIInv, VncTypes, VncMouse, VncCalls, Vnc!TypeOK
<1> QED
  BY <1>1, VncInitIInv, VncNextIInv, PTL

\* The canvas shows the desktop the panel is connected to or none; and when the pointer calls for
\* that desktop are carried out, the newest last, no button is pressed there that the user does
\* not hold, unless it was let go out of sight (VncPanel.tsx renderFrame, onMouseUp, onWheel).
THEOREM VncCanvasIsOfDesk == Vnc!Init /\ [][Vnc!Next]_(Vnc!vars) => []Vnc!CanvasIsOfDesk
<1>1. VncIInv => Vnc!CanvasIsOfDesk
  BY DEF VncIInv, VncMouse, VncConnection, VncTold, Vnc!CanvasIsOfDesk, Vnc!Quiet
<1> QED
  BY <1>1, VncInitIInv, VncNextIInv, PTL

HIDE VncAssumption

-----------------------------------------------------------------------------
(* Records *)

USE ReplayAssumption

ReplayTypes ==
    /\ reads \subseteq Replay!Readers \X Records /\ title \in [Replay!Readers -> Replay!Maybe]
    /\ body \in [Replay!Readers -> Replay!Maybe]
    /\ matches \subseteq Records /\ bookmarks \subseteq Records /\ jump \in Replay!Maybe
ReplayFlags ==
    /\ waiting \in BOOLEAN /\ searching \in BOOLEAN /\ doubtful \in BOOLEAN
    /\ searches \in 0..Replay!MaxSearches

\* A replay runs when its interval does.
Replays ==
    /\ playing \in [Replay!Players -> BOOLEAN] /\ timer \in [Replay!Players -> BOOLEAN]
    /\ \A p \in Replay!Players : playing[p] = timer[p]
ReplayPositions == pos \in [Replay!Players -> 0..Frames]

\* The reads of the logs are of the record whose name is shown, unless they are in doubt.
ReplayNamed ==
    /\ \A r \in {"audit", "home"} : title[r] # Replay!NoRecord => body[r] = title[r]
    /\ title["log"] # Replay!NoRecord /\ Replay!OfLog = {} /\ ~doubtful => body["log"] = title["log"]
    /\ ~doubtful => \A r \in Replay!OfLog : title["log"] \in {Replay!NoRecord, r[2]}

ReplayIInv == ReplayTypes /\ ReplayFlags /\ Replays /\ ReplayPositions /\ ReplayNamed

LEMMA ReplayInitIInv == Replay!Init => ReplayIInv
<1> SUFFICES ASSUME Replay!Init PROVE ReplayIInv
  OBVIOUS
<1>1. ReplayTypes
  BY DEF Replay!Init, ReplayTypes, Replay!Maybe
<1>2. ReplayFlags
  <2>1. waiting \in BOOLEAN /\ searching \in BOOLEAN /\ doubtful \in BOOLEAN
    BY DEF Replay!Init
  <2>2. searches \in 0..Replay!MaxSearches
    BY DEF Replay!Init, Replay!MaxSearches
  <2> QED
    BY <2>1, <2>2 DEF ReplayFlags
<1>3. Replays
  BY DEF Replay!Init, Replays
<1>4. ReplayPositions
  BY DEF Replay!Init, ReplayPositions
<1>5. ReplayNamed
  BY DEF Replay!Init, ReplayNamed, Replay!OfLog, Replay!Readers
<1> QED
  BY <1>1, <1>2, <1>3, <1>4, <1>5 DEF ReplayIInv

\* Stopping a replay, or leaving it.
LEMMA ReplayStoppedReplays ==
    ASSUME Replays, NEW p, Replay!Stopped(p) \/ UNCHANGED <<playing, timer>> PROVE Replays'
BY DEF Replays, Replay!Stopped

LEMMA ReplayParts == ReplayIInv' <=> ReplayTypes' /\ ReplayFlags' /\ Replays' /\ ReplayPositions' /\ ReplayNamed'
BY DEF ReplayIInv

\* A record is opened.
LEMMA ReplayOpenIInv ==
    ASSUME ReplayIInv, NEW f \in Records,
           Replay!OpenAudit(f) \/ Replay!ViewHistory(f) \/ Replay!OpenMatch(f) \/ Replay!GotoBookmark(f)
    PROVE  ReplayIInv'
<1>0. ReplayTypes /\ ReplayFlags /\ Replays /\ ReplayPositions /\ ReplayNamed
  BY DEF ReplayIInv
<1>1. CASE Replay!OpenAudit(f)
  <2>1. /\ waiting' = TRUE /\ reads' = reads \cup {<<"audit", f>>} /\ Replay!Stopped("audit")
        /\ UNCHANGED <<title, body, doubtful, pos, searches, matches, searching, bookmarks, jump>>
    BY <1>1 DEF Replay!OpenAudit, Replay!search
  <2>2. ReplayTypes'
    BY <1>0, <2>1 DEF ReplayTypes, Replay!Readers
  <2>3. ReplayFlags' /\ ReplayPositions'
    BY <1>0, <2>1 DEF ReplayFlags, ReplayPositions
  <2>4. Replay!OfLog' = Replay!OfLog
    BY <2>1 DEF Replay!OfLog
  <2>5. ReplayNamed'
    BY <1>0, <2>1, <2>4 DEF ReplayNamed
  <2> QED
    BY <1>0, <2>1, <2>2, <2>3, <2>5, ReplayStoppedReplays, ReplayParts
<1>2. CASE Replay!ViewHistory(f)
  <2>1. /\ reads' = reads \cup {<<"home", f>>}
        /\ UNCHANGED <<title, body, waiting, doubtful, playing, timer, pos, searches, matches, searching, bookmarks, jump>>
    BY <1>2 DEF Replay!ViewHistory, Replay!search, Replay!replay
  <2>2. ReplayTypes'
    BY <1>0, <2>1 DEF ReplayTypes, Replay!Readers
  <2>3. ReplayFlags' /\ ReplayPositions'
    BY <1>0, <2>1 DEF ReplayFlags, ReplayPositions
  <2>4. Replay!OfLog' = Replay!OfLog
    BY <2>1 DEF Replay!OfLog
  <2>5. ReplayNamed'
    BY <1>0, <2>1, <2>4 DEF ReplayNamed
  <2> QED
    BY <1>0, <2>1, <2>2, <2>3, <2>5, ReplayStoppedReplays, ReplayParts
<1>3. CASE Replay!OpenMatch(f) \/ Replay!GotoBookmark(f)
  <2>0. PICK then \in Records \cup {Replay!NoRecord} : Replay!Open(f, then)
    BY <1>3 DEF Replay!OpenMatch, Replay!GotoBookmark
  <2>1. /\ title' = [title EXCEPT !["log"] = f] /\ reads' = reads \cup {<<"log", f>>}
        /\ doubtful' = (Replay!OfLog # {}) /\ jump' = then /\ Replay!Stopped("log")
        /\ UNCHANGED <<body, waiting, pos, searches, matches, searching, bookmarks>>
    BY <2>0 DEF Replay!Open
  <2>2. ReplayTypes'
    BY <1>0, <2>1 DEF ReplayTypes, Replay!Readers, Replay!Maybe
  <2>3. ReplayFlags' /\ ReplayPositions'
    BY <1>0, <2>1 DEF ReplayFlags, ReplayPositions
  <2>4. Replay!OfLog' = Replay!OfLog \cup {<<"log", f>>}
    BY <2>1 DEF Replay!OfLog
  <2>5. title'["log"] = f /\ \A r \in {"audit", "home"} : title'[r] = title[r]
    BY <1>0, <2>1 DEF ReplayTypes, Replay!Readers
  <2>6. ReplayNamed'
    <3>1. \A r \in {"audit", "home"} : title'[r] # Replay!NoRecord => body'[r] = title'[r]
      BY <1>0, <2>1, <2>5 DEF ReplayNamed
    <3>2. Replay!OfLog' # {}
      BY <2>4
    <3>3. ~doubtful' => Replay!OfLog' = {<<"log", f>>}
      BY <2>1, <2>4
    <3>4. ~doubtful' => \A r \in Replay!OfLog' : title'["log"] \in {Replay!NoRecord, r[2]}
      BY <2>5, <3>3
    <3> QED
      BY <3>1, <3>2, <3>4 DEF ReplayNamed
  <2> QED
    BY <1>0, <2>1, <2>2, <2>3, <2>6, ReplayStoppedReplays, ReplayParts
<1> QED
  BY <1>1, <1>2, <1>3

\* A read is through.
LEMMA ReplayAnswersIInv == ASSUME ReplayIInv, NEW p \in Replay!Readers, Replay!Answers(p)
                           PROVE  ReplayIInv'
<1>0. ReplayTypes /\ ReplayFlags /\ Replays /\ ReplayPositions /\ ReplayNamed
  BY DEF ReplayIInv
<1>1. CASE Replay!Back(p)
  <2>1. /\ title' = [title EXCEPT ![p] = Replay!NoRecord]
        /\ (Replay!Stopped(p) \/ UNCHANGED <<playing, timer>>)
        /\ UNCHANGED <<reads, body, waiting, doubtful, pos, searches, matches, searching, bookmarks, jump>>
    BY <1>1 DEF Replay!Back, Replay!search
  <2>2. ReplayTypes'
    BY <1>0, <2>1 DEF ReplayTypes, Replay!Maybe
  <2>3. ReplayFlags' /\ ReplayPositions'
    BY <1>0, <2>1 DEF ReplayFlags, ReplayPositions
  <2>4. Replay!OfLog' = Replay!OfLog /\ \A r \in Replay!Readers : title'[r] \in {Replay!NoRecord, title[r]}
    BY <1>0, <2>1 DEF Replay!OfLog, ReplayTypes
  <2>5. ReplayNamed'
    BY <1>0, <2>1, <2>4 DEF ReplayNamed, Replay!Readers
  <2> QED
    BY <1>0, <2>1, <2>2, <2>3, <2>5, ReplayStoppedReplays, ReplayParts
<1>2. ASSUME NEW f \in Records, Replay!Reads(p, f) \/ Replay!Fails(p, f) PROVE ReplayIInv'
  <2>1. /\ <<p, f>> \in reads /\ reads' = reads \ {<<p, f>>} /\ waiting' = (waiting /\ p # "audit")
        /\ jump' = (IF jump = f /\ p = "log" THEN Replay!NoRecord ELSE jump)
        /\ UNCHANGED <<searches, matches, searching, bookmarks>>
    BY <1>2 DEF Replay!Reads, Replay!Fails, Replay!Arrives
  <2>2. /\ \/ title' = title /\ body' = body /\ (p = "log" => doubtful' = TRUE)
           \/ /\ body' = [body EXCEPT ![p] = f]
              /\ title' = (IF p = "log" THEN title ELSE [title EXCEPT ![p] = f])
              /\ p = "log" => doubtful' = (doubtful \/ Replay!OfLog # {<<p, f>>})
        /\ p # "log" => doubtful' = doubtful
    BY <1>2 DEF Replay!Reads, Replay!Fails
  <2>3. ReplayTypes'
    BY <1>0, <2>1, <2>2 DEF ReplayTypes, Replay!Maybe
  <2>4. ReplayFlags'
    BY <1>0, <2>1, <2>2 DEF ReplayFlags
  <2>5. Replays'
    BY <1>0, <1>2, ReplayStoppedReplays DEF Replay!Reads, Replay!Fails, Replay!ToBookmark,
                                            Replay!replay
  <2>6. ReplayPositions'
    <3>1. 0 \in 0..Frames /\ Frames \in 0..Frames /\ pos \in [Replay!Players -> 0..Frames]
      BY <1>0 DEF ReplayPositions
    <3>2. \/ pos' = pos \/ pos' = [pos EXCEPT ![p] = Frames] \/ pos' = [pos EXCEPT ![p] = 0]
          \/ \E line \in 0..Frames : pos' = [pos EXCEPT !["log"] = line]
      BY <1>2 DEF Replay!Reads, Replay!Fails, Replay!ToBookmark, Replay!replay
    <3> QED
      BY <3>1, <3>2 DEF ReplayPositions
  <2>7. Replay!OfLog' = Replay!OfLog \ {<<p, f>>} /\ (p = "log" => <<p, f>> \in Replay!OfLog)
    BY <2>1 DEF Replay!OfLog
  <2>8. ReplayNamed'
    <3>1. CASE p = "log"
      <4>1. \A r \in {"audit", "home"} : title'[r] = title[r] /\ body'[r] = body[r]
        BY <1>0, <2>2, <3>1 DEF ReplayTypes, Replay!Readers
      <4>2. CASE doubtful'
        BY <1>0, <4>1, <4>2 DEF ReplayNamed
      <4>3. CASE ~doubtful'
        <5>1. title' = title /\ body'["log"] = f /\ ~doubtful /\ Replay!OfLog = {<<p, f>>}
          BY <1>0, <2>2, <3>1, <4>3 DEF ReplayTypes, Replay!Readers
        <5>2. title["log"] \in {Replay!NoRecord, f} /\ Replay!OfLog' = {}
          BY <1>0, <2>7, <5>1 DEF ReplayNamed
        <5> QED
          BY <1>0, <4>1, <5>1, <5>2 DEF ReplayNamed
      <4> QED
        BY <4>2, <4>3
    <3>2. CASE p # "log"
      <4>1. /\ \A r \in {"audit", "home"} : title'[r] # Replay!NoRecord => body'[r] = title'[r]
            /\ title'["log"] = title["log"] /\ body'["log"] = body["log"]
        BY <1>0, <2>2, <3>2 DEF ReplayNamed, ReplayTypes, Replay!Readers
      <4>2. Replay!OfLog' = Replay!OfLog
        BY <2>1, <3>2 DEF Replay!OfLog
      <4> QED
        BY <1>0, <2>2, <3>2, <4>1, <4>2 DEF ReplayNamed
    <3> QED
      BY <3>1, <3>2
  <2> QED
    BY <2>3, <2>4, <2>5, <2>6, <2>8, ReplayParts
<1> QED
  BY <1>1, <1>2 DEF Replay!Answers

\* Searching and bookmarks.
LEMMA ReplaySearchIInv ==
    ASSUME ReplayIInv,
           Replay!DoSearch \/ Replay!SearchAnswers \/ Replay!Bookmark \/ \E f \in Records : Replay!RemoveBookmark(f)
    PROVE  ReplayIInv'
<1>0. ReplayTypes /\ ReplayFlags /\ Replays /\ ReplayPositions /\ ReplayNamed
  BY DEF ReplayIInv
<1>1. UNCHANGED <<reads, body, waiting, doubtful, playing, timer, pos, jump>>
  BY DEF Replay!DoSearch, Replay!SearchAnswers, Replay!Bookmark, Replay!RemoveBookmark,
         Replay!reading, Replay!replay
<1>2. title' = title \/ title' = [title EXCEPT !["log"] = Replay!NoRecord]
  BY DEF Replay!DoSearch, Replay!SearchAnswers, Replay!Bookmark, Replay!RemoveBookmark,
         Replay!reading, Replay!replay
<1>3. /\ matches' \subseteq Records /\ bookmarks' \subseteq Records /\ searching' \in BOOLEAN
      /\ searches' \in 0..Replay!MaxSearches
  <2>1. title["log"] # Replay!NoRecord => title["log"] \in Records
    BY <1>0 DEF ReplayTypes, Replay!Maybe, Replay!Readers
  <2>2. matches' \subseteq Records /\ bookmarks' \subseteq Records
    BY <1>0, <2>1 DEF Replay!DoSearch, Replay!SearchAnswers, Replay!Bookmark,
                      Replay!RemoveBookmark, ReplayTypes, Replay!reading, Replay!replay
  <2>3. searching' \in BOOLEAN
    BY <1>0 DEF Replay!DoSearch, Replay!SearchAnswers, Replay!Bookmark,
                Replay!RemoveBookmark, ReplayFlags, Replay!reading, Replay!replay
  <2>4. searches' \in 0..Replay!MaxSearches
    <3>1. searches \in 0..2
      BY <1>0 DEF ReplayFlags, Replay!MaxSearches
    <3>2. \/ searches < 2 /\ searches' = searches + 1
          \/ searches > 0 /\ searches' = searches - 1
          \/ searches' = searches
      BY DEF Replay!DoSearch, Replay!SearchAnswers, Replay!Bookmark,
             Replay!RemoveBookmark, Replay!reading, Replay!replay, Replay!MaxSearches
    <3> QED
      BY <3>1, <3>2 DEF Replay!MaxSearches
  <2> QED
    BY <2>2, <2>3, <2>4
<1>4. ReplayTypes'
  BY <1>0, <1>1, <1>2, <1>3 DEF ReplayTypes, Replay!Maybe
<1>5. ReplayFlags' /\ ReplayPositions'
  BY <1>0, <1>1, <1>3 DEF ReplayFlags, ReplayPositions
<1>6. Replay!OfLog' = Replay!OfLog /\ \A r \in Replay!Readers : title'[r] \in {Replay!NoRecord, title[r]}
  BY <1>0, <1>1, <1>2 DEF Replay!OfLog, ReplayTypes
<1>7. ReplayNamed'
  BY <1>0, <1>1, <1>6 DEF ReplayNamed, Replay!Readers
<1> QED
  BY <1>0, <1>1, <1>4, <1>5, <1>7, ReplayStoppedReplays, ReplayParts

\* Replays.
LEMMA ReplayPlayIInv == ASSUME ReplayIInv, NEW p \in Replay!Players, Replay!Replay(p)
                        PROVE  ReplayIInv'
<1>0. ReplayTypes /\ ReplayFlags /\ Replays /\ ReplayPositions /\ ReplayNamed
  BY DEF ReplayIInv
<1>1. UNCHANGED <<reads, title, body, waiting, doubtful, searches, matches, searching, bookmarks, jump>>
  BY DEF Replay!Replay, Replay!Play, Replay!Pause, Replay!Tick, Replay!reading, Replay!search
<1>2. ReplayTypes' /\ ReplayFlags' /\ ReplayNamed'
  BY <1>0, <1>1 DEF ReplayTypes, ReplayFlags, ReplayNamed, Replay!OfLog
<1>3. Replays'
  <2>1. CASE Replay!Play(p)
    BY <1>0, <2>1 DEF Replay!Play, Replays
  <2>2. CASE ~Replay!Play(p)
    BY <1>0, <2>2, ReplayStoppedReplays DEF Replay!Replay, Replay!Pause, Replay!Tick
  <2> QED
    BY <2>1, <2>2
<1>4. ReplayPositions'
  <2>0. pos \in [Replay!Players -> 0..Frames] /\ pos[p] \in 0..Frames
    BY <1>0 DEF ReplayPositions
  <2>1. CASE Replay!Play(p)
    BY <2>0, <2>1 DEF Replay!Play, ReplayPositions
  <2>2. ASSUME NEW at \in 0..Frames, Replay!Pause(p, at) PROVE ReplayPositions'
    BY <2>0, <2>2 DEF Replay!Pause, ReplayPositions
  <2>3. CASE Replay!Tick(p)
    BY <2>0, <2>3 DEF Replay!Tick, ReplayPositions
  <2> QED
    BY <2>1, <2>2, <2>3 DEF Replay!Replay
<1> QED
  BY <1>2, <1>3, <1>4, ReplayParts

LEMMA ReplayNextIInv == ReplayIInv /\ [Replay!Next]_(Replay!vars) => ReplayIInv'
<1>1. ReplayIInv /\ UNCHANGED Replay!vars => ReplayIInv'
  BY DEF Replay!vars, ReplayIInv, ReplayTypes, ReplayFlags, Replays, ReplayPositions, ReplayNamed,
         Replay!OfLog
<1> QED
  BY <1>1, ReplayOpenIInv, ReplayAnswersIInv, ReplaySearchIInv, ReplayPlayIInv DEF Replay!Next,
         Replay!AuditNext, Replay!HomeNext, Replay!LogNext, Replay!Players, Replay!Readers



\* The readers keep the types of their state (AuditPanel.tsx, LogPanel.tsx, HomeView.tsx).
THEOREM ReplayTypeCorrect == Replay!Init /\ [][Replay!Next]_(Replay!vars) => []Replay!TypeOK
<1>1. ReplayIInv => Replay!TypeOK
  BY DEF ReplayIInv, ReplayTypes, ReplayFlags, Replays, ReplayPositions, Replay!TypeOK
<1> QED
  BY <1>1, ReplayInitIInv, ReplayNextIInv, PTL

\* The text is of the record whose name is above it, in the logs if the read was alone; and a replay
\* runs when its interval does (AuditPanel.tsx, LogPanel.tsx, HomeView.tsx).
THEOREM ReplayTextIsOfRecord == Replay!Init /\ [][Replay!Next]_(Replay!vars) => []Replay!TextIsOfRecord
<1>1. ReplayIInv => Replay!TextIsOfRecord
  BY DEF ReplayIInv, Replays, ReplayNamed, Replay!TextIsOfRecord
<1> QED
  BY <1>1, ReplayInitIInv, ReplayNextIInv, PTL

HIDE ReplayAssumption

==============================================================================
