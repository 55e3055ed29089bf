---------------------------- MODULE Engines_proofs ---------------------------
(***************************************************************************)
(* Theorems about the engine of scheduled tasks, the engine of the alerts,   *)
(* the Telnet session and the log of commands, for any tasks, interval,       *)
(* zones, sessions, metrics, keys, streams, callers, input, capacity and      *)
(* bounds.  The text of a stream and the lines of a log are recursive         *)
(* functions of sequences: what they compute is proved by induction over the  *)
(* length, from lemmas that take sets and functions for operators.            *)
(***************************************************************************)
EXTENDS Engines, SequenceTheorems, FiniteSetTheorems, WellFoundedInduction, TLAPS

\* Induction and recursion over sequences, with sets and functions in the place of operators.

\* A set of numbers that is not empty has a smallest one.
LEMMA Smallest == ASSUME NEW S, S \subseteq Nat, S # {} PROVE \E x \in S : \A y \in S : y >= x
<1>1. PICK x \in S : \A y \in S : ~ (<<y, x>> \in OpToRel(<, Nat))
  BY NatLessThanWellFounded, WFMin
<1>2. \A y \in S : ~ (y < x)
  BY <1>1 DEF OpToRel
<1> QED
  BY <1>2

\* What holds of a sequence when it holds of all shorter ones holds of each.
LEMMA LengthInduction ==
    ASSUME NEW S, NEW T,
           \A s \in Seq(S) : (\A t \in Seq(S) : Len(t) < Len(s) => t \in T) => s \in T
    PROVE  \A s \in Seq(S) : s \in T
<1> SUFFICES ASSUME NEW s \in Seq(S), s \notin T PROVE FALSE
  OBVIOUS
<1> DEFINE lengths == {Len(t) : t \in Seq(S) \ T}
<1>1. lengths \subseteq Nat /\ lengths # {}
  <2>1. ASSUME NEW m \in lengths PROVE m \in Nat
    <3>1. PICK t \in Seq(S) : m = Len(t)
      OBVIOUS
    <3> QED
      BY <3>1, LenProperties
  <2>2. Len(s) \in lengths
    OBVIOUS
  <2> HIDE DEF lengths
  <2> QED
    BY <2>1, <2>2
<1>2. PICK n \in lengths : \A m \in lengths : m >= n
  <2> HIDE DEF lengths
  <2> QED
    BY <1>1, Smallest
<1>3. PICK t \in Seq(S) : t \notin T /\ Len(t) = n
  OBVIOUS
<1>4. ASSUME NEW u \in Seq(S), Len(u) < Len(t) PROVE u \in T
  <2> SUFFICES ASSUME u \notin T PROVE FALSE
    OBVIOUS
  <2>1. Len(u) \in lengths
    OBVIOUS
  <2>2. Len(u) \in Nat /\ n \in Nat
    BY <1>1, <2>1
  <2>3. Len(u) >= n
    <3> HIDE DEF lengths
    <3> QED
      BY <1>2, <2>1
  <2> QED
    BY <1>3, <1>4, <2>2, <2>3
<1> QED
  BY <1>3, <1>4

\* What holds of the empty sequence, and when something is appended, holds of each.
LEMMA AppendInduction ==
    ASSUME NEW S, NEW T, <<>> \in T, \A s \in Seq(S), e \in S : s \in T => Append(s, e) \in T
    PROVE  \A s \in Seq(S) : s \in T
<1>1. ASSUME NEW s \in Seq(S), \A t \in Seq(S) : Len(t) < Len(s) => t \in T PROVE s \in T
  <2>1. CASE s = <<>>
    BY <2>1
  <2>2. CASE s # <<>>
    <3>1. PICK t \in Seq(S), e \in S : s = Append(t, e)
      BY <2>2, SequenceEmptyOrAppend
    <3>2. Len(t) < Len(s)
      BY <3>1, AppendProperties, LenProperties
    <3> QED
      BY <1>1, <3>1, <3>2
  <2> QED
    BY <2>1, <2>2
<1> QED
  BY <1>1, LengthInduction

\* A function f is defined up to length n by its values on shorter sequences.
RecursiveTo(f, n, S, V, halt, base, shorter, join) ==
    /\ f \in [Seq(S) -> V]
    /\ \A s \in Seq(S) : Len(s) < n => f[s] = IF s \in halt THEN base[s] ELSE join[<<s, f[shorter[s]]>>]

\* A function of V, from its base where it stops, and elsewhere from its value on a shorter sequence.
Grounded(S, V, halt, base, shorter, join) ==
    /\ V # {}
    /\ \A s \in Seq(S) \cap halt : base[s] \in V
    /\ \A s \in Seq(S) \ halt : shorter[s] \in Seq(S) /\ Len(shorter[s]) < Len(s)
    /\ \A s \in Seq(S) \ halt, v \in V : join[<<s, v>>] \in V

Recurs(f, S, V, halt, base, shorter, join) ==
    /\ f \in [Seq(S) -> V]
    /\ \A s \in Seq(S) : f[s] = IF s \in halt THEN base[s] ELSE join[<<s, f[shorter[s]]>>]

\* There is such a function.
LEMMA SeqRecursion ==
    ASSUME NEW S, NEW V, NEW halt, NEW base, NEW shorter, NEW join,
           Grounded(S, V, halt, base, shorter, join)
    PROVE  \E f : Recurs(f, S, V, halt, base, shorter, join)
<1>0. /\ V # {}
      /\ \A s \in Seq(S) \cap halt : base[s] \in V
      /\ \A s \in Seq(S) \ halt : shorter[s] \in Seq(S) /\ Len(shorter[s]) < Len(s)
      /\ \A s \in Seq(S) \ halt, v \in V : join[<<s, v>>] \in V
  BY DEF Grounded
<1> DEFINE Good(f, n) == RecursiveTo(f, n, S, V, halt, base, shorter, join)
           missing == {n \in Nat : ~\E f : Good(f, n)}
<1>1. missing = {}
  <2> SUFFICES ASSUME missing # {} PROVE FALSE
    OBVIOUS
  <2>1. PICK n \in missing : \A m \in missing : m >= n
    <3>1. missing \subseteq Nat
      OBVIOUS
    <3> HIDE DEF missing
    <3> QED
      BY <3>1, Smallest
  <2>2. PICK v \in V : TRUE
    BY <1>0
  <2>3. n # 0
    <3>1. Good([s \in Seq(S) |-> v], 0)
      BY <2>2, LenProperties DEF RecursiveTo
    <3> QED
      BY <3>1
  <2>4. n - 1 \in Nat /\ n - 1 \notin missing
    <3>1. n \in Nat
      OBVIOUS
    <3> HIDE DEF missing
    <3> QED
      BY <2>1, <2>3, <3>1
  <2>5. PICK f : Good(f, n - 1)
    BY <2>4
  <2> DEFINE g == [s \in Seq(S) |-> IF s \in halt THEN base[s] ELSE join[<<s, f[shorter[s]]>>]]
  <2>6. f \in [Seq(S) -> V]
    BY <2>5 DEF RecursiveTo
  <2>7. g \in [Seq(S) -> V]
    BY <1>0, <2>6
  <2>8. \A s \in Seq(S) : Len(s) < n - 1 => g[s] = f[s]
    BY <2>5 DEF RecursiveTo
  <2>9. \A s \in Seq(S) \ halt : Len(s) < n => g[shorter[s]] = f[shorter[s]]
    <3> SUFFICES ASSUME NEW s \in Seq(S) \ halt, Len(s) < n PROVE g[shorter[s]] = f[shorter[s]]
      OBVIOUS
    <3>1. shorter[s] \in Seq(S) /\ Len(shorter[s]) < Len(s)
      BY <1>0
    <3>2. Len(s) \in Nat /\ Len(shorter[s]) \in Nat /\ n \in Nat
      BY <3>1, LenProperties
    <3>3. Len(shorter[s]) < n - 1
      BY <3>1, <3>2
    <3> HIDE DEF g
    <3> QED
      BY <2>8, <3>1, <3>3
  <2>10. \A s \in Seq(S) : g[s] = IF s \in halt THEN base[s] ELSE join[<<s, f[shorter[s]]>>]
    OBVIOUS
  <2> HIDE DEF g
  <2>11. Good(g, n)
    BY <2>7, <2>9, <2>10 DEF RecursiveTo
  <2> QED
    BY <2>11
<1>2. \A n \in Nat : Good(CHOOSE f : Good(f, n), n)
  BY <1>1
<1> DEFINE to == [n \in Nat |-> CHOOSE f : Good(f, n)]
<1>3. \A n \in Nat : Good(to[n], n)
  BY <1>2
<1> HIDE DEF to, missing
<1>4. ASSUME NEW n \in Nat, NEW m \in Nat, NEW s \in Seq(S), Len(s) < n, Len(s) < m
      PROVE  to[n][s] = to[m][s]
  <2> DEFINE T == {t \in Seq(S) : Len(t) < n /\ Len(t) < m => to[n][t] = to[m][t]}
  <2>1. ASSUME NEW t \in Seq(S), \A u \in Seq(S) : Len(u) < Len(t) => u \in T PROVE t \in T
    <3> SUFFICES ASSUME Len(t) < n, Len(t) < m PROVE to[n][t] = to[m][t]
      OBVIOUS
    <3>1. CASE t \in halt
      BY <1>3, <3>1 DEF RecursiveTo
    <3>2. CASE t \notin halt
      <4>1. shorter[t] \in Seq(S) /\ Len(shorter[t]) < Len(t) /\ Len(t) \in Nat /\ Len(shorter[t]) \in Nat
        BY <1>0, <3>2, LenProperties
      <4>2. Len(shorter[t]) < n /\ Len(shorter[t]) < m
        BY <4>1
      <4>3. shorter[t] \in T
        <5> HIDE DEF T
        <5> QED
          BY <2>1, <4>1
      <4>4. to[n][shorter[t]] = to[m][shorter[t]]
        BY <4>2, <4>3
      <4>5. to[n][t] = join[<<t, to[n][shorter[t]]>>]
        BY <1>3, <3>2 DEF RecursiveTo
      <4>6. to[m][t] = join[<<t, to[m][shorter[t]]>>]
        BY <1>3, <3>2 DEF RecursiveTo
      <4> QED
        BY <4>4, <4>5, <4>6
    <3> QED
      BY <3>1, <3>2
  <2>2. \A t \in Seq(S) : t \in T
    <3> HIDE DEF T
    <3> QED
      BY <2>1, LengthInduction
  <2> QED
    BY <1>4, <2>2
<1> DEFINE F == [s \in Seq(S) |-> to[Len(s) + 1][s]]
<1>5. ASSUME NEW s \in Seq(S)
      PROVE  F[s] \in V /\ F[s] = IF s \in halt THEN base[s] ELSE join[<<s, F[shorter[s]]>>]
  <2>1. Len(s) \in Nat /\ Len(s) + 1 \in Nat /\ Len(s) < Len(s) + 1
    BY LenProperties
  <2>2. /\ to[Len(s) + 1][s] \in V
        /\ to[Len(s) + 1][s] = IF s \in halt THEN base[s] ELSE join[<<s, to[Len(s) + 1][shorter[s]]>>]
    BY <1>3, <2>1 DEF RecursiveTo
  <2>3. CASE s \in halt
    BY <2>2, <2>3
  <2>4. CASE s \notin halt
    <3>1. shorter[s] \in Seq(S) /\ Len(shorter[s]) < Len(s)
      BY <1>0, <2>4
    <3>2. /\ Len(shorter[s]) \in Nat /\ Len(shorter[s]) + 1 \in Nat
          /\ Len(shorter[s]) < Len(s) + 1 /\ Len(shorter[s]) < Len(shorter[s]) + 1
      BY <2>1, <3>1, LenProperties
    <3>3. to[Len(s) + 1][shorter[s]] = to[Len(shorter[s]) + 1][shorter[s]]
      BY <1>4, <2>1, <3>1, <3>2
    <3>4. F[shorter[s]] = to[Len(shorter[s]) + 1][shorter[s]]
      BY <3>1
    <3> QED
      BY <2>2, <2>4, <3>3, <3>4
  <2> QED
    BY <2>3, <2>4
<1>6. F \in [Seq(S) -> V]
  BY <1>5
<1> QED
  BY <1>5, <1>6 DEF Recurs


\* Concatenation, and the parts of a sequence, which the provers need not expand.
Cat(s, t) == s \o t
Upto(s, n) == SubSeq(s, 1, n)
From(s, n) == SubSeq(s, n + 1, Len(s))

\* Sequences that are joined, as an operator that the provers leave closed.
LEMMA CatSeq ==
    ASSUME NEW S
    PROVE  /\ \A s \in Seq(S), t \in Seq(S) : Cat(s, t) \in Seq(S) /\ Len(Cat(s, t)) = Len(s) + Len(t)
           /\ \A s \in Seq(S) : Cat(s, <<>>) = s /\ Cat(<<>>, s) = s
<1>1. ASSUME NEW s \in Seq(S), NEW t \in Seq(S)
      PROVE  Cat(s, t) \in Seq(S) /\ Len(Cat(s, t)) = Len(s) + Len(t)
  BY ConcatProperties DEF Cat
<1>2. ASSUME NEW s \in Seq(S) PROVE Cat(s, <<>>) = s /\ Cat(<<>>, s) = s
  BY ConcatEmptySeq DEF Cat
<1> QED
  BY <1>1, <1>2

\* Three sequences are joined in either order.
LEMMA CatAssociates ==
    ASSUME NEW S
    PROVE  \A s \in Seq(S), t \in Seq(S), u \in Seq(S) : Cat(Cat(s, t), u) = Cat(s, Cat(t, u))
<1> SUFFICES ASSUME NEW s \in Seq(S), NEW t \in Seq(S), NEW u \in Seq(S) PROVE (s \o t) \o u = s \o (t \o u)
  BY DEF Cat
<1> QED
  BY ConcatAssociative

\* Where an element of a joined sequence comes from.
LEMMA CatAt ==
    ASSUME NEW S
    PROVE  \A s \in Seq(S), t \in Seq(S) : \A i \in 1..Len(s) + Len(t) :
             Cat(s, t)[i] = IF i <= Len(s) THEN s[i] ELSE t[i - Len(s)]
<1> SUFFICES ASSUME NEW s \in Seq(S), NEW t \in Seq(S), NEW i \in 1..Len(s) + Len(t)
             PROVE  (s \o t)[i] = IF i <= Len(s) THEN s[i] ELSE t[i - Len(s)]
  BY DEF Cat
<1> QED
  BY ConcatProperties

\* What follows a common beginning is the same in the same sequence.
LEMMA CatCancels ==
    ASSUME NEW S
    PROVE  \A s \in Seq(S), t \in Seq(S), u \in Seq(S) : Cat(s, t) = Cat(s, u) => t = u
<1> SUFFICES ASSUME NEW s \in Seq(S), NEW t \in Seq(S), NEW u \in Seq(S), s \o t = s \o u PROVE t = u
  BY DEF Cat
<1> QED
  BY Zenon, ConcatSimplifications

\* A sequence is what it begins with and the rest.
LEMMA SplitSeq ==
    ASSUME NEW S, NEW s \in Seq(S), NEW n \in 0..Len(s)
    PROVE  /\ Upto(s, n) \in Seq(S) /\ Len(Upto(s, n)) = n
           /\ \A i \in 1..n : Upto(s, n)[i] = s[i]
           /\ From(s, n) \in Seq(S) /\ Len(From(s, n)) = Len(s) - n
           /\ \A i \in 1..Len(s) - n : From(s, n)[i] = s[n + i]
           /\ Cat(Upto(s, n), From(s, n)) = s
<1>1. Len(s) \in Nat /\ n \in Nat /\ n + 1 \in Int /\ \A i \in 1..Len(s) : s[i] \in S
  BY LenProperties, ElementOfSeq
<1>2. /\ SubSeq(s, 1, n) \in Seq(S) /\ Len(SubSeq(s, 1, n)) = n
      /\ \A i \in 1..n : SubSeq(s, 1, n)[i] = s[i]
  BY <1>1, SubSeqProperties
<1>3. SubSeq(s, n + 1, Len(s)) \in Seq(S) /\ Len(SubSeq(s, n + 1, Len(s))) = Len(s) - n
  BY <1>1, SubSeqProperties
<1>4. ASSUME NEW i \in 1..Len(s) - n PROVE SubSeq(s, n + 1, Len(s))[i] = s[n + i]
  <2>1. \A j \in n + 1..Len(s) : s[j] \in S
    BY <1>1
  <2>2. \A j \in 1..Len(s) - (n + 1) + 1 : SubSeq(s, n + 1, Len(s))[j] = s[(n + 1) + j - 1]
    BY <1>1, <2>1, SubSeqProperties
  <2>3. i \in 1..Len(s) - (n + 1) + 1 /\ (n + 1) + i - 1 = n + i
    BY <1>1
  <2> QED
    BY <2>2, <2>3
<1>5. SubSeq(s, 1, n) \o SubSeq(s, n + 1, Len(s)) = s
  <2>1. 1 \in 1..Len(s) + 1 /\ n \in 1 - 1..Len(s) /\ Len(s) \in n..Len(s)
    BY <1>1
  <2>2. SubSeq(s, 1, n) \o SubSeq(s, n + 1, Len(s)) = SubSeq(s, 1, Len(s))
    BY <2>1, ConcatAdjacentSubSeq
  <2> QED
    BY <2>2, SubSeqFull
<1> QED
  BY <1>2, <1>3, <1>4, <1>5 DEF Upto, From, Cat

\* A part of a sequence begins it with whatever follows, and the rest is followed by that.
LEMMA SplitCat ==
    ASSUME NEW S, NEW s \in Seq(S), NEW t \in Seq(S), NEW n \in 0..Len(s)
    PROVE  Upto(Cat(s, t), n) = Upto(s, n) /\ From(Cat(s, t), n) = Cat(From(s, n), t)
<1>1. Cat(s, t) \in Seq(S) /\ Len(Cat(s, t)) = Len(s) + Len(t) /\ Len(s) \in Nat /\ Len(t) \in Nat
  BY CatSeq, LenProperties
<1>2. \A i \in 1..Len(s) : Cat(s, t)[i] = s[i]
  BY <1>1, CatAt
<1>3. n \in 0..Len(Cat(s, t)) /\ n \in Nat
  BY <1>1
<1> DEFINE a == Upto(s, n)
           b == From(s, n)
           c == Upto(Cat(s, t), n)
           d == From(Cat(s, t), n)
<1>4. a \in Seq(S) /\ b \in Seq(S) /\ Len(a) = n /\ Cat(a, b) = s /\ \A i \in 1..n : a[i] = s[i]
  BY SplitSeq
<1>5. c \in Seq(S) /\ d \in Seq(S) /\ Len(c) = n /\ Cat(c, d) = Cat(s, t) /\ \A i \in 1..n : c[i] = Cat(s, t)[i]
  BY <1>1, <1>3, SplitSeq
<1> HIDE DEF a, b, c, d
<1>6. ASSUME NEW i \in 1..n PROVE a[i] = c[i]
  <2>1. i \in 1..Len(s)
    BY <1>1
  <2>2. a[i] = s[i] /\ c[i] = Cat(s, t)[i]
    BY <1>4, <1>5
  <2> QED
    BY <1>2, <2>1, <2>2
<1>7. a = c
  BY <1>4, <1>5, <1>6, SeqEqual
<1>8. Cat(a, Cat(b, t)) = Cat(a, d)
  BY <1>4, <1>5, <1>7, CatAssociates
<1>9. b \in Seq(S) /\ Cat(b, t) \in Seq(S)
  BY <1>4, CatSeq
<1>10. Cat(b, t) = d
  BY <1>4, <1>5, <1>8, <1>9, CatCancels
<1> QED
  BY <1>7, <1>10 DEF a, b, c, d

-----------------------------------------------------------------------------

\* The task that is sent, or was and is not recorded yet.
TaskInHand(t) == Timer!First(t) /\ sending # "ready"

\* Without a save of the user in between, the time in the store is that of the last run,
\* and while a task is in hand it is the time of the batch.
TaskAgesAgree ==
    \A t \in Tasks : lastRun[t] # Timer!Never =>
        IF TaskInHand(t) THEN lastRun[t] = batch.age ELSE task[t].age = lastRun[t]

\* The copy of a batch is what the user wants, too.
TaskCopiesAgree ==
    \A t \in batch.left \ raced :
        batch.copy[t].cmd = wanted[t].cmd /\ batch.copy[t].on = wanted[t].on

TaskIInv == Timer!TypeOK /\ TaskAgesAgree /\ Timer!EditsStay /\ TaskCopiesAgree

USE TaskAssumption DEF TaskAssumption, Timer!Never, Timer!Ages

\* Time keeps its type and grows.
LEMMA TaskOlderType == ASSUME NEW a \in Timer!Ages \cup {Timer!Never}
                   PROVE  /\ Timer!Older(a) \in Timer!Ages \cup {Timer!Never}
                          /\ (a = Timer!Never) = (Timer!Older(a) = Timer!Never)
BY DEF Timer!Older

\* No task, and no batch.
TaskBatches == [age : Timer!Ages, left : SUBSET Tasks, copy : [Tasks -> Timer!TaskRecords]]
LEMMA TaskNothingType == Timer!NoTask \in Timer!TaskRecords /\ Timer!Nothing \in TaskBatches /\ Timer!Nothing.left = {}
<1>1. Timer!NoTask \in Timer!TaskRecords
  BY DEF Timer!NoTask, Timer!TaskRecords
<1> QED
  BY <1>1 DEF Timer!Nothing, TaskBatches

\* It holds before the first task.
LEMMA TaskInitIInv == Timer!Init => TaskIInv
<1> SUFFICES ASSUME Timer!Init PROVE TaskIInv
  OBVIOUS
<1>1. task \in [Tasks -> Timer!TaskRecords] /\ batch \in TaskBatches /\ edits \in 0..MaxEdits
  BY TaskNothingType DEF Timer!Init
<1>2. Timer!TypeOK
  BY <1>1, TaskNothingType DEF Timer!Init, Timer!TypeOK, TaskBatches
<1> QED
  BY <1>2 DEF Timer!Init, TaskIInv, TaskAgesAgree, Timer!EditsStay, TaskCopiesAgree, Timer!Nothing,
              Timer!NoTask

\* One batch at a time, and one task of it.
LEMMA TaskFirstIsOne == ASSUME Timer!TypeOK, NEW t \in Tasks, NEW u \in Tasks, Timer!First(t), Timer!First(u)
                    PROVE  t = u
BY DEF Timer!First, Timer!TypeOK

\* Pass: the ages of the store, of the batch and of the observation grow together.
LEMMA TaskPassIInv == TaskIInv /\ Timer!Pass => TaskIInv'
<1> SUFFICES ASSUME TaskIInv, Timer!Pass PROVE TaskIInv'
  OBVIOUS
<1>1. \A t \in Tasks : /\ task[t] \in Timer!TaskRecords /\ task[t].age \in Timer!Ages \cup {Timer!Never}
                       /\ task'[t] = [task[t] EXCEPT !.age = Timer!Older(@)]
                       /\ lastRun[t] \in Timer!Ages \cup {Timer!Never} /\ lastRun'[t] = Timer!Older(lastRun[t])
  BY DEF TaskIInv, Timer!TypeOK, Timer!Pass, Timer!TaskRecords
<1>2. \A t \in Tasks : /\ task'[t] \in Timer!TaskRecords /\ task'[t].age = Timer!Older(task[t].age)
                       /\ task'[t].cmd = task[t].cmd /\ task'[t].on = task[t].on
  <2> SUFFICES ASSUME NEW t \in Tasks
               PROVE  /\ task'[t] \in Timer!TaskRecords /\ task'[t].age = Timer!Older(task[t].age)
                      /\ task'[t].cmd = task[t].cmd /\ task'[t].on = task[t].on
    OBVIOUS
  <2>1. Timer!Older(task[t].age) \in Timer!Ages \cup {Timer!Never}
    BY <1>1, TaskOlderType
  <2> QED
    BY <1>1, <2>1 DEF Timer!TaskRecords
<1>3. /\ batch' \in [age : Timer!Ages, left : SUBSET Tasks, copy : [Tasks -> Timer!TaskRecords]]
      /\ batch'.left = batch.left /\ batch'.copy = batch.copy
      /\ batch.left # {} => batch'.age = Timer!Older(batch.age)
  <2>1. batch.age \in Timer!Ages /\ Timer!Older(batch.age) \in Timer!Ages
    BY DEF TaskIInv, Timer!TypeOK, Timer!Older
  <2> QED
    BY <2>1 DEF TaskIInv, Timer!TypeOK, Timer!Pass
<1>4. Timer!TypeOK'
  <2>1. task' \in [Tasks -> Timer!TaskRecords]
    BY <1>2 DEF Timer!Pass
  <2>2. lastRun' \in [Tasks -> Timer!Ages \cup {Timer!Never}]
    BY <1>1, TaskOlderType DEF Timer!Pass
  <2> QED
    BY <1>3, <2>1, <2>2 DEF TaskIInv, Timer!TypeOK, Timer!Pass
<1>5. TaskAgesAgree'
  <2> SUFFICES ASSUME NEW t \in Tasks, lastRun'[t] # Timer!Never
               PROVE  IF TaskInHand(t)' THEN lastRun'[t] = batch'.age ELSE task'[t].age = lastRun'[t]
    BY DEF TaskAgesAgree
  <2>1. lastRun[t] # Timer!Never /\ (TaskInHand(t)' <=> TaskInHand(t))
    BY <1>1, <1>3, TaskOlderType DEF TaskInHand, Timer!First, Timer!Pass
  <2>2. CASE TaskInHand(t)
    <3>1. batch.left # {} /\ lastRun[t] = batch.age
      BY <2>1, <2>2 DEF TaskIInv, TaskAgesAgree, TaskInHand, Timer!First
    <3> QED
      BY <1>1, <1>3, <2>1, <2>2, <3>1
  <2>3. CASE ~TaskInHand(t)
    BY <1>1, <1>2, <2>1, <2>3 DEF TaskIInv, TaskAgesAgree
  <2> QED
    BY <2>2, <2>3
<1>6. Timer!EditsStay' /\ TaskCopiesAgree'
  BY <1>2, <1>3 DEF TaskIInv, Timer!EditsStay, TaskCopiesAgree, Timer!Pass
<1> QED
  BY <1>4, <1>5, <1>6 DEF TaskIInv

\* checkTasks: a new batch copies what is stored.
LEMMA TaskCheckIInv == TaskIInv /\ Timer!CheckTasks => TaskIInv'
<1> SUFFICES ASSUME TaskIInv, Timer!CheckTasks PROVE TaskIInv'
  OBVIOUS
<1>1. /\ batch' \in [age : Timer!Ages, left : SUBSET Tasks, copy : [Tasks -> Timer!TaskRecords]]
      /\ batch'.left # {} => batch'.copy = task
  <2>1. Timer!NoTask \in Timer!TaskRecords
    BY DEF Timer!NoTask, Timer!TaskRecords
  <2> QED
    BY <2>1 DEF Timer!CheckTasks, TaskIInv, Timer!TypeOK, Timer!Nothing
<1>2. Timer!TypeOK'
  BY <1>1 DEF Timer!CheckTasks, TaskIInv, Timer!TypeOK
<1>3. \A t \in Tasks : ~TaskInHand(t) /\ ~TaskInHand(t)'
  BY DEF TaskInHand, Timer!First, Timer!CheckTasks, TaskIInv, Timer!TypeOK
<1>4. TaskAgesAgree'
  BY <1>3 DEF TaskIInv, TaskAgesAgree, Timer!CheckTasks
<1>5. Timer!EditsStay' /\ TaskCopiesAgree'
  BY <1>1, <1>2 DEF TaskIInv, Timer!EditsStay, TaskCopiesAgree, Timer!CheckTasks, Timer!TypeOK
<1> QED
  BY <1>2, <1>4, <1>5 DEF TaskIInv

\* runTask: what was sent is as old as the batch.
LEMMA TaskRunIInv == ASSUME NEW u \in Tasks, TaskIInv, Timer!RunTask(u) PROVE TaskIInv'
<1>1. Timer!TypeOK'
  BY DEF Timer!RunTask, TaskIInv, Timer!TypeOK, Timer!First
<1>2. \A t \in Tasks : /\ ~TaskInHand(t) /\ (TaskInHand(t)' <=> t = u)
                       /\ lastRun'[t] = IF t = u THEN batch.age ELSE lastRun[t]
  BY TaskFirstIsOne DEF TaskInHand, Timer!First, Timer!RunTask, TaskIInv, Timer!TypeOK
<1>3. TaskAgesAgree'
  BY <1>2 DEF TaskIInv, TaskAgesAgree, Timer!RunTask
<1>4. Timer!EditsStay' /\ TaskCopiesAgree'
  BY DEF TaskIInv, Timer!EditsStay, TaskCopiesAgree, Timer!RunTask
<1> QED
  BY <1>1, <1>3, <1>4 DEF TaskIInv

\* The end of runTask: the copy is what is wanted, unless the user raced with it.
LEMMA TaskRecordIInv == ASSUME NEW u \in Tasks, TaskIInv, Timer!Record(u) \/ Timer!RecordFails(u)
                        PROVE  TaskIInv'
<1>1. TaskInHand(u) /\ u \in batch.left
  BY DEF Timer!Record, Timer!RecordFails, Timer!Leave, TaskInHand, Timer!First
<1>2. /\ batch' \in [age : Timer!Ages, left : SUBSET Tasks, copy : [Tasks -> Timer!TaskRecords]]
      /\ batch'.left = batch.left \ {u}
      /\ batch'.left # {} => batch'.copy = batch.copy
  BY TaskNothingType DEF TaskBatches, Timer!Record, Timer!RecordFails, Timer!Leave, TaskIInv,
                         Timer!TypeOK
<1>3. /\ \A t \in Tasks : t # u => task'[t] = task[t] /\ lastRun'[t] = lastRun[t]
      /\ task'[u] \in Timer!TaskRecords /\ lastRun'[u] \in Timer!Ages \cup {Timer!Never}
      /\ \/ /\ task'[u].age = batch.age /\ lastRun'[u] = lastRun[u]
            /\ task'[u].cmd = batch.copy[u].cmd /\ task'[u].on = batch.copy[u].on
         \/ task'[u] = task[u] /\ lastRun'[u] = Timer!Never
  <2>1. CASE Timer!Record(u)
    <3> DEFINE r == [batch.copy[u] EXCEPT !.age = batch.age, !.failed = (sending = "refused")]
    <3>1. batch.copy[u] \in Timer!TaskRecords /\ batch.age \in Timer!Ages
      BY DEF TaskIInv, Timer!TypeOK
    <3>2. r \in Timer!TaskRecords /\ r.age = batch.age /\ r.cmd = batch.copy[u].cmd /\ r.on = batch.copy[u].on
      BY <3>1 DEF Timer!TaskRecords
    <3>3. task' = [task EXCEPT ![u] = r] /\ lastRun' = lastRun
      BY <2>1 DEF Timer!Record
    <3> HIDE DEF r
    <3> QED
      BY <3>2, <3>3 DEF TaskIInv, Timer!TypeOK
  <2>2. CASE Timer!RecordFails(u)
    BY <2>2 DEF Timer!RecordFails, TaskIInv, Timer!TypeOK
  <2> QED
    BY <2>1, <2>2
<1>4. Timer!TypeOK'
  <2>1. task' \in [Tasks -> Timer!TaskRecords] /\ lastRun' \in [Tasks -> Timer!Ages \cup {Timer!Never}]
    <3>1. \A t \in Tasks : task'[t] \in Timer!TaskRecords /\ lastRun'[t] \in Timer!Ages \cup {Timer!Never}
      BY <1>3 DEF TaskIInv, Timer!TypeOK
    <3>2. DOMAIN task' = Tasks /\ DOMAIN lastRun' = Tasks
          /\ task' = [t \in Tasks |-> task'[t]] /\ lastRun' = [t \in Tasks |-> lastRun'[t]]
      BY DEF Timer!Record, Timer!RecordFails, TaskIInv, Timer!TypeOK
    <3> QED
      BY <3>1, <3>2
  <2> QED
    BY <1>2, <2>1 DEF Timer!Record, Timer!RecordFails, Timer!Leave, TaskIInv, Timer!TypeOK
<1>5. sending' = "ready" /\ \A t \in Tasks : ~TaskInHand(t)' /\ (t # u => ~TaskInHand(t))
  BY <1>1, TaskFirstIsOne DEF TaskInHand, Timer!Record, Timer!RecordFails, Timer!Leave, TaskIInv
<1>6. TaskAgesAgree'
  BY <1>1, <1>3, <1>5 DEF TaskIInv, TaskAgesAgree
<1>7. wanted' = wanted /\ raced' = raced
  BY DEF Timer!Record, Timer!RecordFails, Timer!Leave
<1>8. Timer!EditsStay'
  BY <1>1, <1>3, <1>7 DEF TaskIInv, Timer!EditsStay, TaskCopiesAgree
<1>9. TaskCopiesAgree'
  BY <1>2, <1>7 DEF TaskIInv, TaskCopiesAgree
<1> QED
  BY <1>4, <1>6, <1>8, <1>9 DEF TaskIInv

\* SaveTask, DeleteTask: a change of the user makes its own record the wanted one.
LEMMA TaskChangeIInv ==
    ASSUME NEW u \in Tasks, NEW r \in Timer!TaskRecords, TaskIInv, Timer!Change(u, r),
           r.age = Timer!Never
    PROVE  TaskIInv'
<1>1. Timer!TypeOK'
  BY DEF Timer!Change, TaskIInv, Timer!TypeOK, Timer!TaskRecords
<1>2. \A t \in Tasks : /\ TaskInHand(t)' <=> TaskInHand(t)
                       /\ t # u => task'[t] = task[t] /\ lastRun'[t] = lastRun[t] /\ wanted'[t] = wanted[t]
                       /\ lastRun'[u] = Timer!Never
  BY DEF TaskInHand, Timer!First, Timer!Change, TaskIInv, Timer!TypeOK
<1>3. TaskAgesAgree'
  BY <1>2 DEF TaskIInv, TaskAgesAgree, Timer!Change
<1>4. Timer!EditsStay' /\ TaskCopiesAgree'
  BY <1>2 DEF TaskIInv, Timer!EditsStay, TaskCopiesAgree, Timer!Change, Timer!TypeOK
<1> QED
  BY <1>1, <1>3, <1>4 DEF TaskIInv

\* A restart loses the batch and the records of it that were not made.
LEMMA TaskRestartIInv == TaskIInv /\ Timer!Restart => TaskIInv'
<1> SUFFICES ASSUME TaskIInv, Timer!Restart PROVE TaskIInv'
  OBVIOUS
<1>2. Timer!TypeOK'
  <2>1. batch' = Timer!Nothing /\ lastRun' \in [Tasks -> Timer!Ages \cup {Timer!Never}] /\ edits' \in 0..MaxEdits
    BY DEF Timer!Restart, TaskIInv, Timer!TypeOK
  <2> QED
    BY <2>1, TaskNothingType DEF TaskBatches, Timer!Restart, TaskIInv, Timer!TypeOK
<1>3. \A t \in Tasks : ~TaskInHand(t)' /\ (lastRun'[t] # Timer!Never => lastRun'[t] = lastRun[t] /\ ~TaskInHand(t))
  BY DEF TaskInHand, Timer!First, Timer!Restart, Timer!Nothing, TaskIInv, Timer!TypeOK
<1>4. TaskAgesAgree'
  BY <1>3 DEF TaskIInv, TaskAgesAgree, Timer!Restart
<1>5. Timer!EditsStay' /\ TaskCopiesAgree'
  BY DEF TaskIInv, Timer!EditsStay, TaskCopiesAgree, Timer!Restart, Timer!Nothing
<1> QED
  BY <1>2, <1>4, <1>5 DEF TaskIInv

\* The invariant is inductive.
LEMMA TaskNextIInv == TaskIInv /\ [Timer!Next]_(Timer!vars) => TaskIInv'
<1> SUFFICES ASSUME TaskIInv, [Timer!Next]_(Timer!vars) PROVE TaskIInv'
  OBVIOUS
<1>1. CASE Timer!Pass
  BY <1>1, TaskPassIInv
<1>2. CASE Timer!CheckTasks
  BY <1>2, TaskCheckIInv
<1>3. ASSUME NEW t \in Tasks, Timer!RunTask(t) PROVE TaskIInv'
  BY <1>3, TaskRunIInv
<1>4. ASSUME NEW t \in Tasks, Timer!Record(t) \/ Timer!RecordFails(t) PROVE TaskIInv'
  BY <1>4, TaskRecordIInv
<1>5. ASSUME NEW t \in Tasks, Timer!DeleteTask(t) PROVE TaskIInv'
  <2>1. Timer!NoTask \in Timer!TaskRecords /\ Timer!NoTask.age = Timer!Never
    BY DEF Timer!NoTask, Timer!TaskRecords
  <2> QED
    BY <1>5, <2>1, TaskChangeIInv DEF Timer!DeleteTask
<1>6. ASSUME NEW t \in Tasks, NEW on \in BOOLEAN, Timer!SaveTask(t, on) PROVE TaskIInv'
  <2> DEFINE r == [cmd |-> edits + 1, on |-> on, age |-> Timer!Never, failed |-> FALSE]
  <2>1. r \in Timer!TaskRecords /\ r.age = Timer!Never /\ Timer!Change(t, r)
    BY <1>6 DEF Timer!SaveTask, Timer!Change, TaskIInv, Timer!TypeOK, Timer!TaskRecords
  <2> QED
    BY <2>1, TaskChangeIInv
<1>7. CASE Timer!SessionChanges \/ UNCHANGED Timer!vars
  BY <1>7 DEF Timer!SessionChanges, Timer!vars, TaskIInv, Timer!TypeOK, TaskAgesAgree, TaskInHand,
              Timer!First, Timer!EditsStay, TaskCopiesAgree
<1>8. CASE Timer!Restart
  BY <1>8, TaskRestartIInv
<1> QED
  BY <1>1, <1>2, <1>3, <1>4, <1>5, <1>6, <1>7, <1>8 DEF Timer!Next, Timer!Engine

\* It holds in every behaviour.
LEMMA TaskSpecIInv == Timer!Spec => []TaskIInv
BY TaskInitIInv, TaskNextIInv, PTL DEF Timer!Spec

-----------------------------------------------------------------------------

\* The store, the batch and the ticker of task.go keep their types.
THEOREM TaskTypeCorrect == Timer!Spec => []Timer!TypeOK
<1>1. TaskIInv => Timer!TypeOK
  BY DEF TaskIInv
<1> QED
  BY <1>1, TaskSpecIInv, PTL

\* SaveTask, DeleteTask: what the user saved or deleted last stays, unless the task was in a
\* batch then.
THEOREM TaskEditsAreKept == Timer!Spec => []Timer!EditsStay
<1>1. TaskIInv => Timer!EditsStay
  BY DEF TaskIInv
<1> QED
  BY <1>1, TaskSpecIInv, PTL

\* checkTasks, runTask: two runs of a task are its interval, shifted by the zone, apart,
\* unless the user saved it or the record of the first was lost.
THEOREM TasksAreInTime == Timer!Spec => Timer!TasksKeepInterval
<1> DEFINE Kept == \A t \in batch'.left \ batch.left : lastRun[t] # Timer!Never => lastRun[t] >= Interval + zone
<1>1. TaskIInv /\ [Timer!Next]_(Timer!vars) => [Kept]_(Timer!vars)
  <2> SUFFICES ASSUME TaskIInv, Timer!Next, NEW t \in batch'.left \ batch.left, lastRun[t] # Timer!Never
               PROVE  lastRun[t] >= Interval + zone
    OBVIOUS
  <2>1. CASE Timer!CheckTasks
    <3>1. t \in Tasks /\ Timer!Due(task[t]) /\ ~TaskInHand(t)
      BY <2>1 DEF Timer!CheckTasks, Timer!Nothing, TaskInHand, Timer!First
    <3>2. task[t].age = lastRun[t] /\ lastRun[t] \in Timer!Ages /\ zone \in Int
      BY <3>1 DEF TaskIInv, TaskAgesAgree, Timer!TypeOK
    <3> QED
      BY <3>1, <3>2 DEF Timer!Due
  <2>2. CASE ~Timer!CheckTasks
    <3>1. ASSUME NEW u \in Tasks, Timer!Leave(u) PROVE batch'.left \subseteq batch.left
      BY <3>1, TaskNothingType DEF Timer!Leave, TaskIInv, Timer!TypeOK
    <3>2. ASSUME Timer!Pass \/ Timer!Restart PROVE batch'.left \subseteq batch.left
      BY <3>2, TaskNothingType DEF Timer!Pass, Timer!Restart, TaskIInv, Timer!TypeOK
    <3>3. ASSUME NEW u \in Tasks, Timer!RunTask(u) PROVE batch'.left \subseteq batch.left
      BY <3>3 DEF Timer!RunTask
    <3>4. ASSUME NEW u \in Tasks, NEW r, Timer!Change(u, r) PROVE batch'.left \subseteq batch.left
      BY <3>4 DEF Timer!Change
    <3>5. ASSUME NEW u \in Tasks, Timer!DeleteTask(u) \/ \E on \in BOOLEAN : Timer!SaveTask(u, on)
          PROVE  batch'.left \subseteq batch.left
      BY <3>4, <3>5 DEF Timer!DeleteTask, Timer!SaveTask
    <3>6. ASSUME Timer!SessionChanges PROVE batch'.left \subseteq batch.left
      BY <3>6 DEF Timer!SessionChanges
    <3>7. ASSUME NEW u \in Tasks, Timer!Record(u) \/ Timer!RecordFails(u)
          PROVE  batch'.left \subseteq batch.left
      BY <3>1, <3>7 DEF Timer!Record, Timer!RecordFails
    <3>8. batch'.left \subseteq batch.left
      BY <2>2, <3>2, <3>3, <3>5, <3>6, <3>7, Zenon DEF Timer!Next, Timer!Engine
    <3> QED
      BY <3>8
  <2> QED
    BY <2>1, <2>2
<1> QED
  BY <1>1, TaskSpecIInv, PTL DEF Timer!Spec, Timer!TasksKeepInterval

HIDE TaskAssumption DEF TaskAssumption, Timer!Never, Timer!Ages

-----------------------------------------------------------------------------

\* The map "firing" is what the user was told last, and the session in hand is one.
AlertIInv ==
    /\ client \in Clients \cup {Alarm!None} /\ reading \in [Metrics -> Alarm!Values]
    /\ round \subseteq Clients /\ sessions \subseteq Clients
    /\ firing \subseteq Clients \X Metrics
    /\ excess \in [Clients \X Metrics -> Int]
    /\ \A k \in Clients \X Metrics : excess[k] = IF k \in firing THEN 1 ELSE 0

\* It holds before the first round.
LEMMA AlertInitIInv == Alarm!Init => AlertIInv
BY DEF Alarm!Init, AlertIInv, Alarm!NoSample, Alarm!Values

\* What does not tell anything keeps it.
LEMMA AlertQuietIInv ==
    ASSUME AlertIInv, UNCHANGED <<firing, excess>>, round' \subseteq Clients, sessions' \subseteq Clients,
           client' \in Clients \cup {Alarm!None}, reading' \in [Metrics -> Alarm!Values]
    PROVE  AlertIInv'
BY DEF AlertIInv

\* evalMetric: an alert is told of what was not firing, and a recovery of what was.
LEMMA AlertTellIInv ==
    ASSUME NEW m \in Metrics, AlertIInv, client # Alarm!None, Alarm!Fires(m) \/ Alarm!Recovers(m)
    PROVE  AlertIInv'
<1> DEFINE k == <<client, m>>
<1>1. k \in Clients \X Metrics
  BY DEF AlertIInv
<1>2. /\ client' \in Clients \cup {Alarm!None} /\ reading' \in [Metrics -> Alarm!Values]
      /\ round' \subseteq Clients /\ sessions' \subseteq Clients
  BY DEF Alarm!Fires, Alarm!Recovers, Alarm!Compared, AlertIInv, Alarm!Values, Alarm!env
<1>3. CASE Alarm!Fires(m)
  <2>1. k \notin firing /\ firing' = firing \cup {k} /\ excess' = [excess EXCEPT ![k] = @ + 1]
    BY <1>3 DEF Alarm!Fires
  <2>2. /\ firing' \subseteq Clients \X Metrics /\ excess' \in [Clients \X Metrics -> Int]
        /\ \A j \in Clients \X Metrics : excess'[j] = IF j \in firing' THEN 1 ELSE 0
    <3> HIDE DEF k
    <3> QED
      BY <1>1, <2>1 DEF AlertIInv
  <2> QED
    BY <1>2, <2>2 DEF AlertIInv
<1>4. CASE Alarm!Recovers(m)
  <2>1. k \in firing /\ firing' = firing \ {k} /\ excess' = [excess EXCEPT ![k] = @ - 1]
    BY <1>4 DEF Alarm!Recovers
  <2>2. /\ firing' \subseteq Clients \X Metrics /\ excess' \in [Clients \X Metrics -> Int]
        /\ \A j \in Clients \X Metrics : excess'[j] = IF j \in firing' THEN 1 ELSE 0
    <3> HIDE DEF k
    <3> QED
      BY <1>1, <2>1 DEF AlertIInv
  <2> QED
    BY <1>2, <2>2 DEF AlertIInv
<1> QED
  BY <1>3, <1>4

\* The invariant is inductive.
LEMMA AlertNextIInv == AlertIInv /\ [Alarm!Next]_(Alarm!vars) => AlertIInv'
<1> SUFFICES ASSUME AlertIInv, [Alarm!Next]_(Alarm!vars) PROVE AlertIInv'
  OBVIOUS
<1> DEFINE Quiet ==
      /\ UNCHANGED <<firing, excess>> /\ round' \subseteq Clients /\ sessions' \subseteq Clients
      /\ client' \in Clients \cup {Alarm!None} /\ reading' \in [Metrics -> Alarm!Values]
<1>1. ASSUME NEW m \in Metrics, Alarm!Fires(m) \/ Alarm!Recovers(m) PROVE AlertIInv'
  <2>1. client # Alarm!None
    BY <1>1 DEF Alarm!Fires, Alarm!Recovers, Alarm!Compared
  <2> QED
    BY <1>1, <2>1, AlertTellIInv
<1>2. ASSUME NEW m \in Metrics, Alarm!StaysAsTold(m) PROVE Quiet
  BY <1>2 DEF Alarm!StaysAsTold, Alarm!Compared, AlertIInv, Alarm!Values, Alarm!env
<1>3. ASSUME Alarm!CheckAlerts \/ Alarm!NextSession PROVE Quiet
  BY <1>3 DEF Alarm!CheckAlerts, Alarm!NextSession, AlertIInv, Alarm!env
<1>4. ASSUME NEW c \in Clients, Alarm!SampleUsage(c) PROVE Quiet
  <2> \A m \in Metrics : (IF m \notin armed THEN "unread"
        ELSE IF c \in reachable /\ <<c, m>> \in high THEN "high" ELSE "low") \in Alarm!Values
    BY DEF Alarm!Values
  <2> QED
    BY <1>4 DEF Alarm!SampleUsage, AlertIInv, Alarm!env
<1>5. ASSUME NEW on \in BOOLEAN, NEW metrics \in SUBSET Metrics, Alarm!SaveAlertConfig(on, metrics)
      PROVE  Quiet
  BY <1>5 DEF Alarm!SaveAlertConfig, AlertIInv, Alarm!engine
<1>6. ASSUME Alarm!ClearAlerts PROVE Quiet
  BY <1>6 DEF Alarm!ClearAlerts, AlertIInv, Alarm!engine, Alarm!env
<1>7. ASSUME NEW c \in Clients, Alarm!LinkChanges(c) \/ Alarm!SessionEnds(c) PROVE Quiet
  BY <1>7 DEF Alarm!LinkChanges, Alarm!SessionEnds, AlertIInv, Alarm!engine
<1>8. ASSUME NEW c \in Clients, NEW m \in Metrics, Alarm!UsageChanges(c, m) PROVE Quiet
  BY <1>8 DEF Alarm!UsageChanges, AlertIInv, Alarm!engine
<1>9. ASSUME UNCHANGED Alarm!vars PROVE Quiet
  BY <1>9 DEF Alarm!vars, AlertIInv
<1>10. ASSUME Quiet PROVE AlertIInv'
  BY <1>10, AlertQuietIInv
<1> HIDE DEF Quiet
<1>11. CASE Alarm!Engine
  BY <1>1, <1>2, <1>3, <1>4, <1>10, <1>11, Zenon DEF Alarm!Engine
<1>12. ASSUME NEW c \in Clients, Alarm!LinkChanges(c) \/ Alarm!SessionEnds(c) \/ \E m \in Metrics : Alarm!UsageChanges(c, m)
       PROVE  AlertIInv'
  BY <1>7, <1>8, <1>10, <1>12, Zenon
<1>13. ASSUME \E on \in BOOLEAN, metrics \in SUBSET Metrics : Alarm!SaveAlertConfig(on, metrics)
       PROVE  AlertIInv'
  BY <1>5, <1>10, <1>13, Zenon
<1> QED
  BY <1>6, <1>9, <1>10, <1>11, <1>12, <1>13, Zenon DEF Alarm!Next

-----------------------------------------------------------------------------

\* evalMetric: of each metric of each session alerts and recoveries are told in turn,
\* an alert first, over every round, configuration and failure.
THEOREM AlertsTakeTurns == Alarm!Spec => []Alarm!AlertsAlternate
<1>1. AlertIInv => Alarm!AlertsAlternate
  BY DEF AlertIInv, Alarm!AlertsAlternate
<1> QED
  BY <1>1, AlertInitIInv, AlertNextIInv, PTL DEF Alarm!Spec

-----------------------------------------------------------------------------

\* AddAlert: what is at most N places from the end is at most N keys.
LEMMA AlertTrimmed ==
    ASSUME NEW all, all \subseteq Nat, IsFiniteSet(all), NEW N \in Nat
    PROVE  Cardinality({x \in all : Cardinality({y \in all : y >= x}) <= N}) <= N
<1> DEFINE Kept == {x \in all : Cardinality({y \in all : y >= x}) <= N}
<1> SUFFICES Cardinality(Kept) <= N
  OBVIOUS
<1>1. CASE Kept = {}
  <2> HIDE DEF Kept
  <2> QED
    BY <1>1, FS_EmptySet
<1>2. CASE Kept # {}
  <2>1. PICK x \in Kept : \A y \in Kept : y >= x
    BY <1>2, Smallest
  <2> DEFINE Above == {y \in all : y >= x}
  <2>2. Kept \subseteq Above /\ Above \subseteq all /\ Cardinality(Above) <= N
    BY <2>1
  <2> HIDE DEF Kept, Above
  <2>3. IsFiniteSet(Above)
    BY <2>2, FS_Subset
  <2>4. Cardinality(Kept) <= Cardinality(Above) /\ Cardinality(Kept) \in Nat /\ Cardinality(Above) \in Nat
    BY <2>2, <2>3, FS_Subset, FS_CardinalityType
  <2> QED
    BY <2>2, <2>4
<1> QED
  BY <1>1, <1>2
\* What is stored, configured, measured and compared.
AlertTypes ==
    /\ bucket \subseteq RecordKeys \cup {ConfigKey} /\ Cardinality(bucket \ {ConfigKey}) <= MaxRecords
    /\ config \in [on : BOOLEAN, armed : SUBSET Metrics] /\ armed \subseteq Metrics
    /\ high \subseteq Clients \X Metrics /\ reachable \subseteq Clients

\* The keys of the bucket are a finite set of numbers.
LEMMA AlertKeys ==
    ASSUME NEW B, B \subseteq RecordKeys \cup {ConfigKey}
    PROVE  B \subseteq Nat /\ IsFiniteSet(B) /\ Cardinality(B) \in Nat
<1>1. IsFiniteSet(RecordKeys \cup {ConfigKey}) /\ RecordKeys \cup {ConfigKey} \subseteq Nat
  BY AlarmAssumption, FS_AddElement DEF AlarmAssumption
<1> QED
  BY <1>1, FS_Subset, FS_CardinalityType

\* AddAlert keeps the limit.
LEMMA AlertAddTypes ==
    ASSUME bucket \subseteq RecordKeys \cup {ConfigKey},
           Cardinality(bucket \ {ConfigKey}) <= MaxRecords, Alarm!AddAlert
    PROVE  bucket' \subseteq RecordKeys \cup {ConfigKey} /\ Cardinality(bucket' \ {ConfigKey}) <= MaxRecords
<1>1. CASE UNCHANGED bucket
  BY <1>1
<1>2. ASSUME NEW k \in RecordKeys \ bucket, NEW all, all = bucket \cup {k},
             bucket' = {x \in all : Cardinality({y \in all : y >= x}) <= MaxRecords}
      PROVE  bucket' \subseteq RecordKeys \cup {ConfigKey} /\ Cardinality(bucket' \ {ConfigKey}) <= MaxRecords
  <2>1. all \subseteq RecordKeys \cup {ConfigKey} /\ all \subseteq Nat /\ IsFiniteSet(all)
    BY <1>2, AlertKeys
  <2>2. bucket' \subseteq all /\ Cardinality(bucket') <= MaxRecords
    BY <1>2, <2>1, AlertTrimmed, AlarmAssumption DEF AlarmAssumption
  <2>3. IsFiniteSet(bucket') /\ Cardinality(bucket') \in Nat
    BY <2>1, <2>2, AlertKeys
  <2>4. Cardinality(bucket' \ {ConfigKey}) \in Nat /\ Cardinality(bucket' \ {ConfigKey}) <= Cardinality(bucket')
    BY <2>3, FS_Subset, FS_CardinalityType
  <2>5. MaxRecords \in Nat
    BY AlarmAssumption DEF AlarmAssumption
  <2> QED
    BY <2>1, <2>2, <2>3, <2>4, <2>5
<1>3. \A S : Alarm!Cardinality(S) = Cardinality(S)
  BY DEF Alarm!Cardinality, Cardinality
<1> QED
  BY <1>1, <1>2, <1>3 DEF Alarm!AddAlert

\* They hold at first.
LEMMA AlertInitTypes == Alarm!Init => AlertTypes
<1>1. Cardinality({} \ {ConfigKey}) = 0
  <2>1. {} \ {ConfigKey} = {}
    OBVIOUS
  <2> QED
    BY <2>1, FS_EmptySet
<1> QED
  BY <1>1, AlarmAssumption DEF AlarmAssumption, Alarm!Init, AlertTypes, Alarm!NoConfig

\* What is configured is configured of metrics.
LEMMA AlertNextTypes == AlertIInv /\ AlertTypes /\ [Alarm!Next]_(Alarm!vars) => AlertTypes'
<1> SUFFICES ASSUME AlertIInv, AlertTypes, [Alarm!Next]_(Alarm!vars) PROVE AlertTypes'
  OBVIOUS
<1>1. ASSUME NEW m \in Metrics, Alarm!Fires(m) \/ Alarm!Recovers(m) PROVE AlertTypes'
  <2>1. Alarm!AddAlert /\ UNCHANGED <<config, sessions, high, reachable, armed>>
    BY <1>1 DEF Alarm!Fires, Alarm!Recovers, Alarm!Compared, Alarm!env
  <2> QED
    BY <2>1, AlertAddTypes DEF AlertTypes
<1>2. ASSUME NEW m \in Metrics, Alarm!StaysAsTold(m) PROVE AlertTypes'
  BY <1>2 DEF Alarm!StaysAsTold, Alarm!Compared, Alarm!env, AlertTypes
<1>3. CASE Alarm!CheckAlerts
  <2>1. Alarm!Config.armed \subseteq Metrics
    BY DEF Alarm!Config, Alarm!NoConfig, AlertTypes
  <2>2. armed' \subseteq Metrics /\ UNCHANGED <<bucket, config, high, reachable>>
    BY <1>3, <2>1 DEF Alarm!CheckAlerts, Alarm!env, AlertTypes
  <2> QED
    BY <2>2 DEF AlertTypes
<1>4. ASSUME NEW c \in Clients, Alarm!SampleUsage(c) PROVE AlertTypes'
  BY <1>4 DEF Alarm!SampleUsage, Alarm!env, AlertTypes
<1>5. ASSUME NEW on \in BOOLEAN, NEW metrics \in SUBSET Metrics, Alarm!SaveAlertConfig(on, metrics)
      PROVE  AlertTypes'
  <2>1. bucket' \ {ConfigKey} = bucket \ {ConfigKey} /\ bucket' \subseteq RecordKeys \cup {ConfigKey}
    BY <1>5 DEF Alarm!SaveAlertConfig, AlertTypes
  <2>2. config' \in [on : BOOLEAN, armed : SUBSET Metrics] /\ UNCHANGED <<high, reachable, armed>>
    BY <1>5 DEF Alarm!SaveAlertConfig, Alarm!engine
  <2> QED
    BY <2>1, <2>2 DEF AlertTypes
<1>6. CASE Alarm!ClearAlerts
  <2>1. bucket' \ {ConfigKey} = {} /\ bucket' \subseteq RecordKeys \cup {ConfigKey}
    BY <1>6 DEF Alarm!ClearAlerts, AlertTypes
  <2>2. UNCHANGED <<config, high, reachable, armed>>
    BY <1>6 DEF Alarm!ClearAlerts, Alarm!env, Alarm!engine
  <2>3. Cardinality({}) = 0 /\ MaxRecords \in Nat
    BY FS_EmptySet, AlarmAssumption DEF AlarmAssumption
  <2>4. Cardinality(bucket' \ {ConfigKey}) <= MaxRecords
    BY <2>1, <2>3
  <2> QED
    BY <2>1, <2>2, <2>4 DEF AlertTypes
<1>7. ASSUME NEW c \in Clients, Alarm!LinkChanges(c) \/ Alarm!SessionEnds(c) PROVE AlertTypes'
  BY <1>7 DEF Alarm!LinkChanges, Alarm!SessionEnds, Alarm!engine, AlertTypes
<1>8. ASSUME NEW c \in Clients, NEW m \in Metrics, Alarm!UsageChanges(c, m) PROVE AlertTypes'
  BY <1>8 DEF Alarm!UsageChanges, Alarm!engine, AlertTypes
<1>9. CASE Alarm!NextSession \/ UNCHANGED Alarm!vars
  BY <1>9 DEF Alarm!NextSession, Alarm!env, Alarm!vars, AlertTypes
<1>10. CASE Alarm!Engine
  BY <1>1, <1>2, <1>3, <1>4, <1>9, <1>10, Zenon DEF Alarm!Engine
<1>11. ASSUME NEW c \in Clients, Alarm!LinkChanges(c) \/ Alarm!SessionEnds(c) \/ \E m \in Metrics : Alarm!UsageChanges(c, m)
       PROVE  AlertTypes'
  BY <1>7, <1>8, <1>11, Zenon
<1>12. ASSUME \E on \in BOOLEAN, metrics \in SUBSET Metrics : Alarm!SaveAlertConfig(on, metrics)
       PROVE  AlertTypes'
  BY <1>5, <1>12, Zenon
<1> QED
  BY <1>6, <1>9, <1>10, <1>11, <1>12, Zenon DEF Alarm!Next

\* The bucket has the configuration and as many records as it may hold.
LEMMA AlertTypesMean == AlertIInv /\ AlertTypes => Alarm!TypeOK
<1> SUFFICES ASSUME AlertIInv, AlertTypes PROVE Alarm!TypeOK
  OBVIOUS
<1>1. IsFiniteSet(bucket) /\ Cardinality(bucket) \in Nat /\ MaxRecords \in Nat
  BY AlertKeys, AlarmAssumption DEF AlertTypes, AlarmAssumption
<1>2. Cardinality(bucket \ {ConfigKey}) = IF ConfigKey \in bucket THEN Cardinality(bucket) - 1 ELSE Cardinality(bucket)
  BY <1>1, FS_RemoveElement
<1>3. Cardinality(bucket) <= MaxRecords + 1
  BY <1>1, <1>2 DEF AlertTypes
<1>4. Alarm!Cardinality(bucket) = Cardinality(bucket)
  BY DEF Alarm!Cardinality, Cardinality
<1> QED
  BY <1>3, <1>4 DEF AlertIInv, AlertTypes, Alarm!TypeOK

\* The store, the round and the map of alert.go keep their types, and the bucket its limit.
THEOREM AlertTypeCorrect == Alarm!Spec => []Alarm!TypeOK
<1>1. AlertIInv /\ AlertTypes /\ [Alarm!Next]_(Alarm!vars) => (AlertIInv /\ AlertTypes)'
  BY AlertNextIInv, AlertNextTypes
<1>2. Alarm!Init => AlertIInv /\ AlertTypes
  BY AlertInitIInv, AlertInitTypes
<1> QED
  BY <1>1, <1>2, AlertTypesMean, PTL DEF Alarm!Spec

-----------------------------------------------------------------------------

TelnetAll == Callers \cup {Watcher}
TelnetBody == {"close_mark", "close_conn", "close_output"}

\* The places of the goroutines are places, and the queue is a sequence.
TelnetTypes ==
    /\ \E P : place \in [TelnetAll -> P]
    /\ \E S : channel \in Seq(S)
    /\ place[Watcher] \notin {"write", "resize"} /\ place[Watcher] # "idle"

\* A goroutine that writes owns s.mu.
TelnetLockHeld ==
    /\ \A c \in Callers : place[c] \in {"write", "resize"} => lock = c
    /\ pumpAt = "write" => lock = Pump

\* closeOnce: one goroutine is in the body of Close, between the close of s.stop and that
\* of the output.
TelnetOneClose ==
    /\ once = "fresh" => ~stop /\ open
    /\ \A c \in TelnetAll : place[c] \in TelnetBody => once = "running" /\ stop /\ open
    /\ \A c, d \in TelnetAll : place[c] \in TelnetBody /\ place[d] \in TelnetBody => c = d

\* The output is open while the pump runs, and the pump posts the signal as it ends.
TelnetPumpOwns ==
    /\ pumpAt # "exit" => open
    /\ signal # "none" => pumpAt = "exit"

\* The last report is of the last size, unless somebody is about to send one.
TelnetTold == agreed /\ link = "up" /\ (\A c \in Callers : place[c] # "resize") => told = Telnet!Report(size)

TelnetIInv == TelnetTypes /\ TelnetLockHeld /\ TelnetOneClose /\ TelnetPumpOwns /\ TelnetTold

USE TelnetAssumption DEF TelnetAssumption

\* A sequence stays one when anything is appended, and is longer by one.
LEMMA TelnetAppendAny ==
    ASSUME NEW s, NEW e, \E S : s \in Seq(S)
    PROVE  (\E S : Append(s, e) \in Seq(S)) /\ Len(Append(s, e)) = Len(s) + 1 /\ Len(s) \in Nat
<1>1. PICK S : s \in Seq(S)
  OBVIOUS
<1> DEFINE T == S \cup {e}
<1>2. s \in Seq(T)
  BY <1>1, SeqDef
<1>3. e \in T
  OBVIOUS
<1> HIDE DEF T
<1>4. Append(s, e) \in Seq(T) /\ Len(Append(s, e)) = Len(s) + 1 /\ Len(s) \in Nat
  BY <1>2, <1>3, AppendProperties, LenProperties
<1> QED
  BY <1>4

\* Its tail is one, too, and shorter by one.
LEMMA TelnetTailAny ==
    ASSUME NEW s, \E S : s \in Seq(S), s # <<>>
    PROVE  (\E S : Tail(s) \in Seq(S)) /\ Len(s) > 0 /\ Len(Tail(s)) = Len(s) - 1 /\ Len(s) \in Nat
<1>1. PICK S : s \in Seq(S)
  OBVIOUS
<1>2. Tail(s) \in Seq(S) /\ Len(Tail(s)) = Len(s) - 1 /\ Len(s) \in Nat /\ Len(s) > 0
  BY <1>1, HeadTailProperties, LenProperties, EmptySeq
<1> QED
  BY <1>2

\* Moving a goroutine keeps the shape of the places.
LEMMA TelnetGotoAny ==
    ASSUME NEW c \in TelnetAll, NEW p, \E P : place \in [TelnetAll -> P], Telnet!Goto(c, p)
    PROVE  /\ \E P : place' \in [TelnetAll -> P]
           /\ \A d \in TelnetAll : place'[d] = IF d = c THEN p ELSE place[d]
<1>1. PICK P : place \in [TelnetAll -> P]
  OBVIOUS
<1>2. place' \in [TelnetAll -> P \cup {p}]
  BY <1>1 DEF Telnet!Goto
<1>3. \A d \in TelnetAll : place'[d] = IF d = c THEN p ELSE place[d]
  BY <1>1 DEF Telnet!Goto
<1> QED
  BY <1>2, <1>3

\* It holds when Connect has returned.
LEMMA TelnetInitIInv == Telnet!Init => TelnetIInv
<1> SUFFICES ASSUME Telnet!Init PROVE TelnetIInv
  OBVIOUS
<1>1. place \in [TelnetAll -> {"wait", "idle"}] /\ \A c \in Callers : place[c] = "idle"
  BY DEF Telnet!Init, TelnetAll
<1>2. channel \in Seq({})
  BY DEF Telnet!Init
<1>3. TelnetTypes
  BY <1>1, <1>2 DEF TelnetTypes, Telnet!Init, TelnetAll
<1> QED
  BY <1>1, <1>3 DEF TelnetIInv, TelnetLockHeld, TelnetOneClose, TelnetPumpOwns, TelnetTold,
                    Telnet!Init, TelnetBody, TelnetAll

\* The pump moves no goroutine and closes nothing.
TelnetPumpMoves ==
    \/ \E n \in 1..Len(telnet.text) : Telnet!PumpRead(n)
    \/ Telnet!PumpAnswers \/ Telnet!PumpWritten \/ Telnet!PumpDecodes \/ Telnet!PumpSend \/ Telnet!PumpStop \/ Telnet!PumpEnds

\* pump, process, negotiate.
LEMMA TelnetPumpIInv == TelnetIInv /\ TelnetPumpMoves => TelnetIInv'
<1> SUFFICES ASSUME TelnetIInv, TelnetPumpMoves PROVE TelnetIInv'
  OBVIOUS
<1>1. UNCHANGED <<place, size, stop, once, open, link>>
  BY DEF TelnetPumpMoves, Telnet!PumpRead, Telnet!PumpAnswers, Telnet!PumpWritten,
         Telnet!PumpDecodes, Telnet!PumpSend, Telnet!PumpStop, Telnet!PumpEnds,
         Telnet!sizeVars, Telnet!closeVars, Telnet!chanVars
<1>2. \E S : channel' \in Seq(S)
  <2>1. CASE Telnet!PumpSend
    BY <2>1, TelnetAppendAny DEF Telnet!PumpSend, TelnetIInv, TelnetTypes
  <2>2. CASE UNCHANGED channel
    BY <2>2 DEF TelnetIInv, TelnetTypes
  <2> QED
    BY <2>1, <2>2 DEF TelnetPumpMoves, Telnet!PumpRead, Telnet!PumpAnswers, Telnet!PumpWritten,
                      Telnet!PumpDecodes, Telnet!PumpStop, Telnet!PumpEnds, Telnet!chanVars
<1>3. TelnetTypes'
  BY <1>1, <1>2 DEF TelnetIInv, TelnetTypes
<1>4. TelnetLockHeld'
  <2>1. CASE Telnet!PumpAnswers
    BY <1>1, <2>1 DEF Telnet!PumpAnswers, TelnetIInv, TelnetLockHeld
  <2>2. CASE Telnet!PumpWritten
    BY <1>1, <2>2 DEF Telnet!PumpWritten, TelnetIInv, TelnetLockHeld
  <2>3. CASE ~Telnet!PumpAnswers /\ ~Telnet!PumpWritten
    <3>1. lock' = lock /\ pumpAt' # "write"
      BY <2>3 DEF TelnetPumpMoves, Telnet!PumpRead, Telnet!PumpDecodes, Telnet!PumpSend,
                  Telnet!PumpStop, Telnet!PumpEnds
    <3> QED
      BY <1>1, <3>1 DEF TelnetIInv, TelnetLockHeld
  <2> QED
    BY <2>1, <2>2, <2>3
<1>5. TelnetOneClose'
  BY <1>1 DEF TelnetIInv, TelnetOneClose
<1>6. TelnetPumpOwns'
  BY <1>1 DEF TelnetPumpMoves, Telnet!PumpRead, Telnet!PumpAnswers, Telnet!PumpWritten,
              Telnet!PumpDecodes, Telnet!PumpSend, Telnet!PumpStop, Telnet!PumpEnds,
              Telnet!chanVars, TelnetIInv, TelnetPumpOwns
<1>7. TelnetTold'
  <2>1. CASE Telnet!PumpWritten
    BY <1>1, <2>1 DEF Telnet!PumpWritten, TelnetIInv, TelnetTold
  <2>2. CASE ~Telnet!PumpWritten
    BY <1>1, <2>2 DEF TelnetPumpMoves, Telnet!PumpRead, Telnet!PumpAnswers, Telnet!PumpDecodes,
                      Telnet!PumpSend, Telnet!PumpStop, Telnet!PumpEnds,
                      Telnet!sizeVars, TelnetIInv, TelnetTold
  <2> QED
    BY <2>1, <2>2
<1> QED
  BY <1>3, <1>4, <1>5, <1>6, <1>7 DEF TelnetIInv

\* Send and Resize take the mutex and give it back.
LEMMA TelnetCallIInv == ASSUME NEW c \in Callers, TelnetIInv,
                               Telnet!Call(c) \/ Telnet!CallReturns(c)
                        PROVE  TelnetIInv'
<1>1. UNCHANGED <<pumpAt, agreed, stop, once, link, channel, open, signal>>
  BY DEF Telnet!Call, Telnet!CallReturns, Telnet!closeVars, Telnet!chanVars
<1>2. PICK p \in {"idle", "write", "resize"} : Telnet!Goto(c, p)
  BY DEF Telnet!Call, Telnet!CallReturns
<1>3. /\ \E P : place' \in [TelnetAll -> P]
      /\ \A d \in TelnetAll : place'[d] = IF d = c THEN p ELSE place[d]
  BY <1>2, TelnetGotoAny DEF TelnetIInv, TelnetTypes, TelnetAll
<1>4. TelnetTypes'
  BY <1>1, <1>3 DEF TelnetIInv, TelnetTypes, TelnetAll
<1>5. TelnetOneClose'
  BY <1>1, <1>3 DEF TelnetIInv, TelnetOneClose, TelnetBody
<1>6. TelnetPumpOwns'
  BY <1>1 DEF TelnetIInv, TelnetPumpOwns
<1>7. CASE Telnet!Call(c)
  <2>1. lock = NoOne /\ lock' = c /\ told' = told /\ p \in {"write", "resize"}
    BY <1>2, <1>3, <1>7 DEF Telnet!Call, TelnetAll, Telnet!Goto, TelnetIInv, TelnetTypes
  <2>2. p = "write" => size' = size
    BY <1>2, <1>3, <1>7 DEF Telnet!Call, TelnetAll, Telnet!Goto, TelnetIInv, TelnetTypes
  <2>3. TelnetLockHeld'
    BY <1>1, <1>3, <2>1 DEF TelnetIInv, TelnetLockHeld, TelnetAll
  <2>4. TelnetTold'
    <3>1. CASE p = "resize"
      <4>1. place'[c] = "resize"
        BY <1>3, <3>1 DEF TelnetAll
      <4> QED
        BY <4>1 DEF TelnetTold
    <3>2. CASE p = "write"
      <4>1. place[c] = "idle"
        BY <1>7 DEF Telnet!Call
      <4>2. \A d \in Callers : place'[d] # "resize" => place[d] # "resize"
        BY <1>3, <4>1 DEF TelnetAll
      <4> QED
        BY <1>1, <2>1, <2>2, <3>2, <4>2 DEF TelnetIInv, TelnetTold
    <3> QED
      BY <2>1, <3>1, <3>2
  <2> QED
    BY <1>4, <1>5, <1>6, <2>3, <2>4 DEF TelnetIInv
<1>8. CASE Telnet!CallReturns(c)
  <2>1. /\ lock = c /\ lock' = NoOne /\ size' = size
        /\ told' = IF place[c] = "resize" /\ link = "up" THEN Telnet!Report(size) ELSE told
    BY <1>8 DEF Telnet!CallReturns, TelnetIInv, TelnetLockHeld
  <2>2. p = "idle"
    BY <1>2, <1>3, <1>8 DEF Telnet!CallReturns, TelnetAll, Telnet!Goto, TelnetIInv, TelnetTypes
  <2>3. TelnetLockHeld'
    BY <1>1, <1>3, <2>1, <2>2 DEF TelnetIInv, TelnetLockHeld, TelnetAll
  <2>4. TelnetTold'
    BY <1>1, <1>3, <2>1, <2>2 DEF TelnetIInv, TelnetTold, TelnetLockHeld, TelnetAll
  <2> QED
    BY <1>4, <1>5, <1>6, <2>3, <2>4 DEF TelnetIInv
<1> QED
  BY <1>7, <1>8

\* Close.
LEMMA TelnetCloseIInv ==
    ASSUME NEW c \in TelnetAll, TelnetIInv,
           Telnet!CloseBegin(c) \/ Telnet!CloseMark(c) \/ Telnet!CloseConn(c) \/ Telnet!CloseOutput(c) \/ Telnet!CloseWaited(c)
    PROVE  TelnetIInv'
<1>1. UNCHANGED <<pumpAt, lock, size, told, agreed, channel, signal>> /\ (link' = "up" => link = "up")
  BY DEF Telnet!CloseBegin, Telnet!CloseMark, Telnet!CloseConn, Telnet!CloseOutput,
         Telnet!CloseWaited, Telnet!closeVars, Telnet!chanVars, Telnet!sizeVars
<1>2. PICK p \in Telnet!InClose \cup {"gone", "idle"} : Telnet!Goto(c, p) /\ (p = "idle" => c # Watcher)
  BY DEF Telnet!CloseBegin, Telnet!CloseMark, Telnet!CloseConn, Telnet!CloseOutput,
         Telnet!CloseWaited, Telnet!Returned, Telnet!InClose
<1>3. /\ \E P : place' \in [TelnetAll -> P]
      /\ \A d \in TelnetAll : place'[d] = IF d = c THEN p ELSE place[d]
  BY <1>2, TelnetGotoAny DEF TelnetIInv, TelnetTypes
<1>4. TelnetTypes'
  BY <1>1, <1>2, <1>3 DEF TelnetIInv, TelnetTypes, TelnetAll, Telnet!InClose
<1>5. TelnetLockHeld'
  BY <1>1, <1>2, <1>3 DEF TelnetIInv, TelnetLockHeld, TelnetAll, Telnet!InClose
<1>6. TelnetTold'
  <2>1. place[c] # "resize"
    BY DEF Telnet!CloseBegin, Telnet!CloseMark, Telnet!CloseConn, Telnet!CloseOutput,
           Telnet!CloseWaited
  <2> QED
    BY <1>1, <1>3, <2>1 DEF TelnetIInv, TelnetTold, TelnetAll
<1>7. place'[c] = p
  BY <1>3
<1>8. TelnetOneClose' /\ TelnetPumpOwns'
  <2>1. CASE Telnet!CloseBegin(c) /\ once = "fresh"
    <3>1. p = "close_mark" /\ once' = "running" /\ stop' /\ open' = open
      BY <1>3, <2>1, <1>7 DEF Telnet!CloseBegin, Telnet!chanVars, Telnet!Goto, TelnetIInv,
                              TelnetTypes
    <3>2. \A d \in TelnetAll : place[d] \notin TelnetBody
      BY <2>1 DEF TelnetIInv, TelnetOneClose
    <3>3. \A d \in TelnetAll : place'[d] \in TelnetBody => d = c
      BY <1>3, <3>2
    <3>4. TelnetOneClose'
      BY <2>1, <3>1, <3>3 DEF TelnetIInv, TelnetOneClose
    <3>5. TelnetPumpOwns'
      BY <1>1, <3>1 DEF TelnetIInv, TelnetPumpOwns
    <3> QED
      BY <3>4, <3>5
  <2>2. CASE (Telnet!CloseBegin(c) /\ once # "fresh") \/ Telnet!CloseWaited(c)
    <3>1. p \notin TelnetBody /\ UNCHANGED <<once, stop, open>>
      BY <1>3, <2>2, <1>7 DEF Telnet!CloseBegin, Telnet!CloseWaited, Telnet!Returned,
                              Telnet!chanVars, Telnet!closeVars, Telnet!Goto, TelnetIInv,
                              TelnetTypes, TelnetBody
    <3> QED
      BY <1>1, <1>3, <3>1 DEF TelnetIInv, TelnetOneClose, TelnetPumpOwns
  <2>3. CASE Telnet!CloseMark(c) \/ Telnet!CloseConn(c)
    <3>1. place[c] \in TelnetBody /\ UNCHANGED <<once, stop, open>>
      BY <2>3 DEF Telnet!CloseMark, Telnet!CloseConn, Telnet!closeVars, Telnet!chanVars, TelnetBody
    <3> QED
      BY <1>1, <1>3, <3>1 DEF TelnetIInv, TelnetOneClose, TelnetPumpOwns
  <2>4. CASE Telnet!CloseOutput(c)
    <3>1. place[c] \in TelnetBody /\ p \notin TelnetBody /\ pumpAt = "exit" /\ once' = "done" /\ stop' = stop
      BY <1>3, <1>7, <2>4 DEF Telnet!CloseOutput, TelnetBody, Telnet!Returned, Telnet!Goto,
                              TelnetIInv, TelnetTypes
    <3>2. \A d \in TelnetAll : place'[d] \notin TelnetBody
      BY <1>3, <3>1 DEF TelnetIInv, TelnetOneClose
    <3> QED
      BY <1>1, <3>1, <3>2 DEF TelnetIInv, TelnetOneClose, TelnetPumpOwns
  <2> QED
    BY <2>1, <2>2, <2>3, <2>4
<1> QED
  BY <1>4, <1>5, <1>6, <1>8 DEF TelnetIInv

\* attachSession and the network.
LEMMA TelnetOtherIInv ==
    ASSUME TelnetIInv, (\E reconnected \in BOOLEAN : Telnet!Ended(reconnected)) \/ Telnet!Consume \/ Telnet!LinkLost \/ UNCHANGED Telnet!vars
    PROVE  TelnetIInv'
<1>1. CASE Telnet!Consume
  <2>1. UNCHANGED <<place, lock, pumpAt, size, told, agreed, link, stop, once, open, signal>>
    BY <1>1 DEF Telnet!Consume, Telnet!sizeVars, Telnet!closeVars
  <2>2. \E S : channel' \in Seq(S)
    BY <1>1, TelnetTailAny DEF Telnet!Consume, TelnetIInv, TelnetTypes
  <2> QED
    BY <2>1, <2>2 DEF TelnetIInv, TelnetTypes, TelnetLockHeld, TelnetOneClose, TelnetPumpOwns,
                      TelnetTold
<1>2. ASSUME NEW reconnected \in BOOLEAN, Telnet!Ended(reconnected) PROVE TelnetIInv'
  <2> DEFINE p == IF reconnected THEN "gone" ELSE "posted"
  <2>1. UNCHANGED <<channel, lock, pumpAt, size, told, agreed, link, stop, once, open, signal>>
    BY <1>2 DEF Telnet!Ended, Telnet!sizeVars, Telnet!closeVars, Telnet!chanVars
  <2>2. Telnet!Goto(Watcher, p) /\ Watcher \in TelnetAll
    BY <1>2 DEF Telnet!Ended, TelnetAll
  <2>3. /\ \E P : place' \in [TelnetAll -> P]
        /\ \A d \in TelnetAll : place'[d] = IF d = Watcher THEN p ELSE place[d]
    BY <2>2, TelnetGotoAny DEF TelnetIInv, TelnetTypes
  <2> QED
    BY <2>1, <2>3 DEF TelnetIInv, TelnetTypes, TelnetLockHeld, TelnetOneClose, TelnetPumpOwns,
                      TelnetTold, TelnetAll, TelnetBody
<1>3. CASE Telnet!LinkLost \/ UNCHANGED Telnet!vars
  BY <1>3 DEF Telnet!LinkLost, Telnet!vars, Telnet!readVars, Telnet!sizeVars, Telnet!closeVars,
              Telnet!chanVars, Telnet!consumerVars, TelnetIInv, TelnetTypes, TelnetLockHeld,
              TelnetOneClose, TelnetPumpOwns, TelnetTold
<1> QED
  BY <1>1, <1>2, <1>3

\* The kinds of steps.
LEMMA TelnetStepKinds ==
    ASSUME [Telnet!Next]_(Telnet!vars)
    PROVE  \/ TelnetPumpMoves
           \/ \E c \in Callers : Telnet!Call(c) \/ Telnet!CallReturns(c)
           \/ \E c \in TelnetAll : Telnet!CloseBegin(c) \/ Telnet!CloseMark(c) \/ Telnet!CloseConn(c) \/ Telnet!CloseOutput(c) \/ Telnet!CloseWaited(c)
           \/ (\E reconnected \in BOOLEAN : Telnet!Ended(reconnected)) \/ Telnet!Consume \/ Telnet!LinkLost \/ UNCHANGED Telnet!vars
BY Zenon DEF Telnet!Next, Telnet!Turn, TelnetPumpMoves, TelnetAll

\* The invariant is inductive, and holds in every behaviour.
LEMMA TelnetSpecIInv == Telnet!Spec => []TelnetIInv
<1>1. TelnetIInv /\ [Telnet!Next]_(Telnet!vars) => TelnetIInv'
  BY TelnetStepKinds, TelnetPumpIInv, TelnetCallIInv, TelnetCloseIInv, TelnetOtherIInv, Zenon
<1> QED
  BY <1>1, TelnetInitIInv, PTL DEF Telnet!Spec

-----------------------------------------------------------------------------

\* Resize, negotiate: once the peer asked for the size of the window, the last report it
\* was sent is of the last size, whatever the pump and the callers write in between.  What
\* the peer reads there has width and height exchanged, or is garbled.
THEOREM TelnetLastReport == Telnet!Spec => []Telnet!LastReportIsOfSize
<1>1. TelnetIInv => Telnet!LastReportIsOfSize
  BY DEF TelnetIInv, TelnetLockHeld, TelnetTold, Telnet!LastReportIsOfSize
<1> QED
  BY <1>1, TelnetSpecIInv, PTL

\* The state of a new session is one of the contract.
LEMMA TelnetInitImplements == Telnet!Init => Telnet!Contract!Init
BY EmptySeq DEF Telnet!Init, Telnet!Contract!Init

\* Each step is one of the contract, or leaves it alone.
LEMMA TelnetStepImplements == TelnetIInv /\ [Telnet!Next]_(Telnet!vars) => [Telnet!Contract!Next]_(Telnet!Contract!vars)
<1> SUFFICES ASSUME TelnetIInv, [Telnet!Next]_(Telnet!vars)
             PROVE  Telnet!Contract!Next \/ UNCHANGED <<stop, open, Len(channel), signal>>
  BY DEF Telnet!Contract!vars
<1>1. CASE Telnet!PumpSend
  <2>1. Len(channel') = Len(channel) + 1 /\ Len(channel) < QueueCap /\ UNCHANGED <<stop, open, signal>> /\ open
    BY <1>1, TelnetAppendAny DEF Telnet!PumpSend, TelnetIInv, TelnetTypes, TelnetPumpOwns,
                                 Telnet!closeVars
  <2> QED
    BY <2>1 DEF Telnet!Contract!Next, Telnet!Contract!Deliver
<1>2. CASE Telnet!PumpEnds
  <2>1. signal = "none" /\ signal' = "error" /\ UNCHANGED <<stop, open, channel>>
    BY <1>2 DEF Telnet!PumpEnds, TelnetIInv, TelnetPumpOwns, Telnet!closeVars
  <2> QED
    BY <2>1 DEF Telnet!Contract!Next, Telnet!Contract!Post, Telnet!Contract!Signals
<1>3. ASSUME TelnetPumpMoves, ~Telnet!PumpSend, ~Telnet!PumpEnds
      PROVE  UNCHANGED <<stop, open, channel, signal>>
  BY <1>3 DEF TelnetPumpMoves, Telnet!PumpRead, Telnet!PumpAnswers, Telnet!PumpWritten,
              Telnet!PumpDecodes, Telnet!PumpStop, Telnet!closeVars, Telnet!chanVars
<1>4. ASSUME NEW c \in Callers, Telnet!Call(c) \/ Telnet!CallReturns(c)
      PROVE  UNCHANGED <<stop, open, channel, signal>>
  BY <1>4 DEF Telnet!Call, Telnet!CallReturns, Telnet!closeVars, Telnet!chanVars
<1>5. ASSUME NEW c \in TelnetAll, Telnet!CloseBegin(c)
      PROVE  Telnet!Contract!Next \/ UNCHANGED <<stop, open, channel, signal>>
  <2>1. CASE once = "fresh"
    <3>1. ~stop /\ stop' = TRUE /\ UNCHANGED <<open, channel, signal>>
      BY <1>5, <2>1 DEF Telnet!CloseBegin, TelnetIInv, TelnetOneClose, Telnet!chanVars
    <3> QED
      BY <3>1 DEF Telnet!Contract!Next, Telnet!Contract!Stop
  <2>2. CASE once # "fresh"
    BY <1>5, <2>2 DEF Telnet!CloseBegin, Telnet!chanVars
  <2> QED
    BY <2>1, <2>2
<1>6. ASSUME NEW c \in TelnetAll, Telnet!CloseOutput(c) PROVE Telnet!Contract!Next
  <2>1. stop /\ open /\ open' = FALSE /\ UNCHANGED <<stop, channel, signal>>
    BY <1>6 DEF Telnet!CloseOutput, TelnetIInv, TelnetOneClose, TelnetBody
  <2> QED
    BY <2>1 DEF Telnet!Contract!Next, Telnet!Contract!CloseOutput
<1>7. ASSUME NEW c \in TelnetAll, Telnet!CloseMark(c) \/ Telnet!CloseConn(c) \/ Telnet!CloseWaited(c)
      PROVE  UNCHANGED <<stop, open, channel, signal>>
  BY <1>7 DEF Telnet!CloseMark, Telnet!CloseConn, Telnet!CloseWaited, Telnet!closeVars,
              Telnet!chanVars
<1>8. CASE Telnet!Consume
  <2>1. CASE channel # <<>>
    <3>1. Len(channel) > 0 /\ Len(channel') = Len(channel) - 1 /\ UNCHANGED <<stop, open, signal>>
      BY <1>8, <2>1, TelnetTailAny DEF Telnet!Consume, TelnetIInv, TelnetTypes, Telnet!closeVars
    <3> QED
      BY <3>1 DEF Telnet!Contract!Next, Telnet!Contract!Receive
  <2>2. CASE channel = <<>>
    BY <1>8, <2>2 DEF Telnet!Consume, Telnet!closeVars
  <2> QED
    BY <2>1, <2>2
<1>9. ASSUME (\E reconnected \in BOOLEAN : Telnet!Ended(reconnected)) \/ Telnet!LinkLost \/ UNCHANGED Telnet!vars
      PROVE  UNCHANGED <<stop, open, channel, signal>>
  BY <1>9 DEF Telnet!Ended, Telnet!LinkLost, Telnet!vars, Telnet!closeVars, Telnet!chanVars
<1>10. ASSUME UNCHANGED <<stop, open, channel, signal>>
       PROVE  UNCHANGED <<stop, open, Len(channel), signal>>
  BY <1>10
<1> QED
  BY TelnetStepKinds, <1>1, <1>2, <1>3, <1>4, <1>5, <1>6, <1>7, <1>8, <1>9, <1>10, Zenon

\* The Telnet session keeps the contract of model.TermSession: nothing is sent on a closed
\* output, which is closed once and after Close has begun, and one signal is posted.
THEOREM TelnetImplementsTerm == Telnet!Spec => Telnet!Contract!Spec
BY TelnetInitImplements, TelnetStepImplements, TelnetSpecIInv, PTL DEF Telnet!Spec,
       Telnet!Contract!Spec

-----------------------------------------------------------------------------

\* What the peer is sent of the window is a report.
LEMMA TelnetReports == size \in Windows => Telnet!Report(size) \in Telnet!Reports
BY DEF Telnet!Reports

\* Decode keeps to the encodings.
LEMMA TelnetDecodeMode ==
    ASSUME NEW c, NEW p, c.mode \in Telnet!Modes
    PROVE  Telnet!Decode(c, p).conv.mode \in Telnet!Modes
<1>1. \A s : Telnet!DecodeGBK(s).conv.mode = "gbk"
  BY DEF Telnet!DecodeGBK
<1>2. ASSUME NEW mode \in Telnet!Modes, NEW s PROVE Telnet!DecodeUTF8(mode, s).conv.mode \in Telnet!Modes
  <2> DEFINE n == IF Telnet!Valid(s) THEN Len(s) ELSE Telnet!HoldUTF8Tail(s)
  <2>1. CASE n >= 0
    BY <2>1 DEF Telnet!DecodeUTF8
  <2>2. CASE ~(n >= 0)
    BY <1>1, <2>2 DEF Telnet!DecodeUTF8, Telnet!Modes, Telnet!NewConverter
  <2> QED
    BY <2>1, <2>2
<1>3. "gbk" \in Telnet!Modes
  BY DEF Telnet!Modes
<1> QED
  BY <1>1, <1>2, <1>3 DEF Telnet!Decode

\* pump: it reads what the peer sends, and takes and leaves the mutex.
LEMMA TelnetPumpTyped == TelnetIInv /\ Telnet!TypeOK /\ TelnetPumpMoves => Telnet!TypeOK'
<1> SUFFICES ASSUME TelnetIInv, Telnet!TypeOK, TelnetPumpMoves PROVE Telnet!TypeOK'
  OBVIOUS
<1> DEFINE Chan == Len(channel') <= QueueCap /\ open' \in BOOLEAN /\ signal' \in {"none", "error"}
           Pumps == /\ telnet' = telnet /\ at' \in 0..Len(telnet.text) /\ conv'.mode \in Telnet!Modes
                    /\ pumpAt' \in {"read", "answer", "write", "send", "exit"}
                    /\ lock' \in Callers \cup {Pump, NoOne} /\ (pumpAt' = "write" <=> lock' = Pump)
           Tells == /\ told' \in Telnet!Reports /\ agreed' \in BOOLEAN
                    /\ UNCHANGED <<place, size, stop, shut, once, link, ranging, made>>
<1>1. Telnet!TypeOK
  OBVIOUS
<1>2. ASSUME Chan, Pumps, Tells PROVE Telnet!TypeOK'
  BY <1>1, <1>2 DEF Telnet!TypeOK
<1>3. ASSUME NEW n \in 1..Len(telnet.text), Telnet!PumpRead(n) PROVE Chan /\ Pumps /\ Tells
  BY <1>1, <1>3 DEF Telnet!TypeOK, Telnet!PumpRead, Telnet!sizeVars, Telnet!closeVars,
                    Telnet!chanVars, Telnet!consumerVars
<1>4. CASE Telnet!PumpAnswers
  BY <1>1, <1>2, <1>4 DEF Telnet!TypeOK, Telnet!PumpAnswers, Telnet!sizeVars, Telnet!closeVars,
                    Telnet!chanVars, Telnet!consumerVars
<1>5. CASE Telnet!PumpWritten
  <2>1. (told' = Telnet!Report(size) \/ told' = told) /\ (agreed' = TRUE \/ agreed' = agreed)
    BY <1>5 DEF Telnet!PumpWritten
  <2>4. UNCHANGED <<place, size, stop, shut, once, link, ranging, made>>
    BY <1>5 DEF Telnet!PumpWritten, Telnet!closeVars, Telnet!consumerVars
  <2>5. told' \in Telnet!Reports
    BY <1>1, <2>1, TelnetReports DEF Telnet!TypeOK
  <2>6. agreed' \in BOOLEAN
    <3>1. agreed \in BOOLEAN
      BY <1>1 DEF Telnet!TypeOK
    <3> QED
      BY <2>1, <3>1, Zenon
  <2>2. Tells
    BY <2>4, <2>5, <2>6
  <2>3. Pumps /\ Chan
    BY <1>1, <1>5 DEF Telnet!TypeOK, Telnet!PumpWritten, Telnet!chanVars
  <2> QED
    BY <1>2, <2>2, <2>3
<1>6. CASE Telnet!PumpDecodes
  <2>1. conv'.mode \in Telnet!Modes
    BY <1>1, <1>6, TelnetDecodeMode DEF Telnet!TypeOK, Telnet!PumpDecodes
  <2>2. pumpAt = "answer" /\ pumpAt' \in {"read", "send"} /\ UNCHANGED <<telnet, at, lock>>
    BY <1>6 DEF Telnet!PumpDecodes
  <2>3. Chan /\ Tells
    BY <1>1, <1>6 DEF Telnet!TypeOK, Telnet!PumpDecodes, Telnet!sizeVars, Telnet!closeVars,
                    Telnet!chanVars, Telnet!consumerVars
  <2>4. Pumps
    BY <1>1, <2>1, <2>2 DEF Telnet!TypeOK
  <2> QED
    BY <1>2, <2>3, <2>4
<1>7. CASE Telnet!PumpSend
  <2>1. Len(channel') <= QueueCap
    BY <1>7, TelnetAppendAny DEF Telnet!PumpSend, TelnetIInv, TelnetTypes
  <2> QED
    BY <1>1, <1>2, <1>7, <2>1 DEF Telnet!TypeOK, Telnet!PumpSend, Telnet!sizeVars, Telnet!closeVars,
                    Telnet!consumerVars
<1>8. CASE Telnet!PumpStop \/ Telnet!PumpEnds
  BY <1>1, <1>2, <1>8 DEF Telnet!TypeOK, Telnet!PumpStop, Telnet!PumpEnds, Telnet!readVars,
                    Telnet!sizeVars, Telnet!closeVars, Telnet!chanVars, Telnet!consumerVars
<1> QED
  BY <1>2, <1>3, <1>4, <1>5, <1>6, <1>7, <1>8 DEF TelnetPumpMoves

\* Send and Resize: a call may change the window.
LEMMA TelnetCallTyped ==
    ASSUME NEW c \in Callers, TelnetIInv, Telnet!TypeOK, Telnet!Call(c) \/ Telnet!CallReturns(c)
    PROVE  Telnet!TypeOK'
<1>1. Telnet!TypeOK
  OBVIOUS
<1>2. /\ UNCHANGED <<telnet, at, conv, link, pumpAt, agreed, stop, shut, once, channel, open, signal, ranging>>
      /\ \E p \in {"idle", "write", "resize"} : Telnet!Goto(c, p)
  BY DEF Telnet!Call, Telnet!CallReturns, Telnet!readVars, Telnet!closeVars, Telnet!chanVars,
         Telnet!consumerVars
<1>3. /\ place' \in [Callers \cup {Watcher} -> {"idle", "wait", "posted", "gone", "write", "resize"} \cup Telnet!InClose]
  BY <1>1, <1>2 DEF Telnet!TypeOK, Telnet!Goto
<1>4. made' \in 0..MaxCalls /\ size' \in Windows /\ told' \in Telnet!Reports
  <2>1. CASE Telnet!Call(c)
    BY <1>1, <2>1 DEF Telnet!TypeOK, Telnet!Call
  <2>2. CASE Telnet!CallReturns(c)
    BY <1>1, <2>2, TelnetReports DEF Telnet!TypeOK, Telnet!CallReturns
  <2> QED
    BY <2>1, <2>2
<1>5. lock' \in Callers \cup {Pump, NoOne} /\ (pumpAt' = "write" <=> lock' = Pump)
  <2>1. lock \in {c, NoOne} /\ lock' \in {c, NoOne}
    BY DEF Telnet!Call, Telnet!CallReturns, TelnetIInv, TelnetLockHeld
  <2> QED
    BY <1>1, <1>2, <2>1 DEF Telnet!TypeOK
<1>6. /\ telnet' \in Streams /\ link' \in {"up", "down"} /\ at' \in 0..Len(telnet'.text)
      /\ pumpAt' \in {"read", "answer", "write", "send", "exit"} /\ conv'.mode \in Telnet!Modes
      /\ agreed' \in BOOLEAN /\ stop' \in BOOLEAN /\ shut' \in BOOLEAN /\ once' \in {"fresh", "running", "done"}
      /\ Len(channel') <= QueueCap /\ open' \in BOOLEAN /\ signal' \in {"none", "error"} /\ ranging' \in BOOLEAN
  BY <1>1, <1>2 DEF Telnet!TypeOK
<1> QED
  BY <1>3, <1>4, <1>5, <1>6 DEF Telnet!TypeOK

\* Close.
LEMMA TelnetCloseTyped ==
    ASSUME NEW c \in TelnetAll, Telnet!TypeOK,
           Telnet!CloseBegin(c) \/ Telnet!CloseMark(c) \/ Telnet!CloseConn(c) \/ Telnet!CloseOutput(c) \/ Telnet!CloseWaited(c)
    PROVE  Telnet!TypeOK'
<1>1. Telnet!TypeOK
  OBVIOUS
<1>2. UNCHANGED <<telnet, at, conv, pumpAt, lock, size, told, agreed, channel, signal, ranging, made>>
  BY DEF Telnet!CloseBegin, Telnet!CloseMark, Telnet!CloseConn, Telnet!CloseOutput,
         Telnet!CloseWaited, Telnet!readVars, Telnet!closeVars, Telnet!chanVars, Telnet!sizeVars,
         Telnet!consumerVars
<1>3. \E p \in Telnet!InClose \cup {"gone", "idle"} : Telnet!Goto(c, p)
  BY DEF Telnet!CloseBegin, Telnet!CloseMark, Telnet!CloseConn, Telnet!CloseOutput,
         Telnet!CloseWaited, Telnet!Returned, Telnet!InClose
<1>4. place' \in [Callers \cup {Watcher} -> {"idle", "wait", "posted", "gone", "write", "resize"} \cup Telnet!InClose]
  BY <1>1, <1>3 DEF Telnet!TypeOK, Telnet!Goto, TelnetAll
<1>5. /\ link' \in {"up", "down"} /\ open' \in BOOLEAN
      /\ stop' \in BOOLEAN /\ shut' \in BOOLEAN /\ once' \in {"fresh", "running", "done"}
  BY <1>1 DEF Telnet!TypeOK, Telnet!CloseBegin, Telnet!CloseMark, Telnet!CloseConn,
              Telnet!CloseOutput, Telnet!CloseWaited, Telnet!closeVars, Telnet!chanVars
<1> QED
  BY <1>1, <1>2, <1>4, <1>5 DEF Telnet!TypeOK

\* attachSession and the network.
LEMMA TelnetOtherTyped ==
    ASSUME TelnetIInv, Telnet!TypeOK,
           (\E reconnected \in BOOLEAN : Telnet!Ended(reconnected)) \/ Telnet!Consume \/ Telnet!LinkLost \/ UNCHANGED Telnet!vars
    PROVE  Telnet!TypeOK'
<1>1. Telnet!TypeOK
  OBVIOUS
<1>2. CASE Telnet!Consume
  <2>1. /\ UNCHANGED <<telnet, at, conv, link, pumpAt, lock, place, size, told, agreed, stop, shut, once, open, signal, made>>
        /\ ranging' \in BOOLEAN
    BY <1>1, <1>2 DEF Telnet!TypeOK, Telnet!Consume, Telnet!readVars, Telnet!sizeVars, Telnet!closeVars
  <2>2. Len(channel') <= QueueCap
    <3>1. CASE channel # <<>>
      <4>1. Len(channel') = Len(channel) - 1 /\ Len(channel) \in Nat
        BY <1>2, <3>1, TelnetTailAny DEF Telnet!Consume, TelnetIInv, TelnetTypes
      <4> QED
        BY <1>1, <4>1 DEF Telnet!TypeOK
    <3>2. CASE channel = <<>>
      BY <1>1, <1>2, <3>2 DEF Telnet!Consume, Telnet!TypeOK
    <3> QED
      BY <3>1, <3>2
  <2> QED
    BY <1>1, <2>1, <2>2 DEF Telnet!TypeOK
<1>3. ASSUME NEW reconnected \in BOOLEAN, Telnet!Ended(reconnected) PROVE Telnet!TypeOK'
  <2>1. UNCHANGED <<telnet, at, conv, link, pumpAt, lock, size, told, agreed, stop, shut, once, channel, open, signal, ranging, made>>
    BY <1>3 DEF Telnet!Ended, Telnet!readVars, Telnet!sizeVars, Telnet!closeVars, Telnet!chanVars,
                Telnet!consumerVars
  <2>2. place' \in [Callers \cup {Watcher} -> {"idle", "wait", "posted", "gone", "write", "resize"} \cup Telnet!InClose]
    BY <1>1, <1>3 DEF Telnet!Ended, Telnet!TypeOK, Telnet!Goto
  <2> QED
    BY <1>1, <2>1, <2>2 DEF Telnet!TypeOK
<1>4. CASE Telnet!LinkLost \/ UNCHANGED Telnet!vars
  BY <1>1, <1>4 DEF Telnet!LinkLost, Telnet!vars, Telnet!readVars, Telnet!sizeVars, Telnet!closeVars,
                    Telnet!chanVars, Telnet!consumerVars, Telnet!TypeOK
<1> QED
  BY <1>2, <1>3, <1>4

\* They hold when Connect has returned.
LEMMA TelnetInitTyped == Telnet!Init => Telnet!TypeOK
<1> SUFFICES ASSUME Telnet!Init PROVE Telnet!TypeOK
  OBVIOUS
<1>1. telnet \in Streams /\ at = 0 /\ conv.mode = telnet.mode
  BY DEF Telnet!Init, Telnet!NewConverter
<1>2. Len(telnet.text) \in Nat /\ conv.mode \in Telnet!Modes
  BY <1>1, StreamsAssumption, LenProperties DEF StreamsAssumption, Telnet!Modes
<1>3. at \in 0..Len(telnet.text)
  BY <1>1, <1>2
<1>4. place \in [Callers \cup {Watcher} -> {"idle", "wait", "posted", "gone", "write", "resize"} \cup Telnet!InClose]
  BY DEF Telnet!Init
<1>5. Len(channel) <= QueueCap
  BY EmptySeq DEF Telnet!Init
<1>0. Telnet!FirstWindow = FirstWindow
  BY DEF FirstWindow, Telnet!FirstWindow
<1>6. /\ size = FirstWindow /\ told = Telnet!NoReport /\ made = 0 /\ agreed = FALSE /\ stop = FALSE /\ shut = FALSE
      /\ once = "fresh" /\ open = TRUE /\ signal = "none" /\ ranging = TRUE
      /\ link = "up" /\ pumpAt = "read" /\ lock = NoOne
  BY <1>0 DEF Telnet!Init
<1>7. lock \in Callers \cup {Pump, NoOne} /\ (pumpAt = "write" <=> lock = Pump)
  BY <1>6
<1>8. size \in Windows /\ told \in Telnet!Reports /\ made \in 0..MaxCalls
  <2>1. size \in Windows
    BY <1>6, FirstWindowAssumption DEF FirstWindowAssumption
  <2>2. told \in Telnet!Reports
    BY <1>6 DEF Telnet!Reports
  <2>3. made \in 0..MaxCalls
    BY <1>6, TelnetAssumption DEF TelnetAssumption
  <2> QED
    BY <2>1, <2>2, <2>3
<1>9. /\ agreed \in BOOLEAN /\ stop \in BOOLEAN /\ shut \in BOOLEAN /\ open \in BOOLEAN
      /\ ranging \in BOOLEAN
  BY <1>6
<1> QED
  BY <1>1, <1>2, <1>3, <1>4, <1>5, <1>6, <1>7, <1>8, <1>9 DEF Telnet!TypeOK

\* The session of telnetcore/session.go keeps its types, its queue holds what it may, and
\* the pump writes while it owns s.mu.
THEOREM TelnetTypeCorrect == Telnet!Spec => []Telnet!TypeOK
<1>1. TelnetIInv /\ Telnet!TypeOK /\ [Telnet!Next]_(Telnet!vars) => Telnet!TypeOK'
  BY TelnetStepKinds, TelnetPumpTyped, TelnetCallTyped, TelnetCloseTyped, TelnetOtherTyped, Zenon
<1> QED
  BY <1>1, TelnetInitTyped, TelnetSpecIInv, PTL DEF Telnet!Spec

HIDE TelnetAssumption DEF TelnetAssumption

-----------------------------------------------------------------------------
\* The text of a Telnet stream.

\* A sequence of one element.
LEMMA OneSeq ==
    ASSUME NEW S, NEW b \in S
    PROVE  <<b>> \in Seq(S)
OBVIOUS

\* f reads sequences over S from the beginning: an item c of C takes up w of its elements.
Reads(f, w, c, S, C) ==
    /\ f \in [Seq(S) -> Seq(C)]
    /\ \A s \in Seq(S) \ {<<>>} : w[s] \in 1..Len(s) /\ c[s] \in C
    /\ f[<<>>] = <<>>
    /\ \A s \in Seq(S) \ {<<>>} : f[s] = Cat(<<c[s]>>, f[From(s, w[s])])

\* It is defined for each sequence.
LEMMA ReadingExists ==
    ASSUME NEW S, NEW C, NEW w, NEW c, \A s \in Seq(S) \ {<<>>} : w[s] \in 1..Len(s) /\ c[s] \in C
    PROVE  \E f : Reads(f, w, c, S, C)
<1> DEFINE halt == {<<>>}
           base == [s \in Seq(S) |-> <<>>]
           shorter == [s \in Seq(S) |-> From(s, w[s])]
           join == [p \in Seq(S) \X Seq(C) |-> Cat(<<c[p[1]]>>, p[2])]
<1>1. \A s \in Seq(S) \cap halt : base[s] = <<>> /\ base[s] \in Seq(C)
  BY EmptySeq
<1>2. \A s \in Seq(S) \ halt : shorter[s] \in Seq(S) /\ Len(shorter[s]) < Len(s) /\ shorter[s] = From(s, w[s])
  <2> SUFFICES ASSUME NEW s \in Seq(S), s # <<>>
               PROVE  From(s, w[s]) \in Seq(S) /\ Len(From(s, w[s])) < Len(s)
    OBVIOUS
  <2>1. Len(s) \in Nat /\ w[s] \in 1..Len(s) /\ w[s] \in 0..Len(s)
    BY LenProperties
  <2>2. From(s, w[s]) \in Seq(S) /\ Len(From(s, w[s])) = Len(s) - w[s]
    BY <2>1, SplitSeq
  <2> QED
    BY <2>1, <2>2
<1>3. ASSUME NEW s \in Seq(S) \ halt, NEW v \in Seq(C)
      PROVE  join[<<s, v>>] = Cat(<<c[s]>>, v) /\ join[<<s, v>>] \in Seq(C)
  <2>1. c[s] \in C /\ join[<<s, v>>] = Cat(<<c[s]>>, v)
    OBVIOUS
  <2>2. <<c[s]>> \in Seq(C)
    <3> DEFINE d == c[s]
    <3>1. d \in C
      BY <2>1
    <3> HIDE DEF d
    <3>2. <<d>> \in Seq(C)
      BY <3>1, OneSeq
    <3> QED
      BY <3>2 DEF d
  <2> HIDE DEF join
  <2> QED
    BY <2>1, <2>2, CatSeq
<1>4. Seq(C) # {}
  BY EmptySeq
<1>5. \A s \in Seq(S) : s \in halt <=> s = <<>>
  OBVIOUS
<1> HIDE DEF halt, base, shorter, join
<1>6. PICK f \in [Seq(S) -> Seq(C)] : \A s \in Seq(S) :
             f[s] = IF s \in halt THEN base[s] ELSE join[<<s, f[shorter[s]]>>]
  <2>1. Grounded(S, Seq(C), halt, base, shorter, join)
    BY <1>1, <1>2, <1>3, <1>4 DEF Grounded
  <2> QED
    BY <2>1, SeqRecursion DEF Recurs
<1>7. f[<<>>] = <<>>
  BY <1>1, <1>5, <1>6, EmptySeq
<1>8. ASSUME NEW s \in Seq(S) \ {<<>>} PROVE f[s] = Cat(<<c[s]>>, f[From(s, w[s])])
  <2>1. s \in Seq(S) \ halt
    BY <1>5
  <2>2. f[shorter[s]] \in Seq(C) /\ f[s] = join[<<s, f[shorter[s]]>>]
    BY <1>2, <1>6, <2>1
  <2>3. shorter[s] = From(s, w[s])
    BY <1>2, <2>1
  <2> QED
    BY <1>3, <2>1, <2>2, <2>3
<1> QED
  BY <1>6, <1>7, <1>8 DEF Reads

\* What is whole is read the same with whatever follows it.
LEMMA ReadingOn ==
    ASSUME NEW S, NEW C, NEW f, NEW w, NEW c, NEW whole, NEW t \in Seq(S), Reads(f, w, c, S, C),
           \A s \in Seq(S) \ {<<>>} : s \in whole =>
             w[Cat(s, t)] = w[s] /\ c[Cat(s, t)] = c[s] /\ From(s, w[s]) \in whole
    PROVE  \A s \in Seq(S) : s \in whole => f[Cat(s, t)] = Cat(f[s], f[t])
<1> DEFINE T == {s \in Seq(S) : s \in whole => f[Cat(s, t)] = Cat(f[s], f[t])}
<1>1. f \in [Seq(S) -> Seq(C)] /\ f[<<>>] = <<>>
  BY DEF Reads
<1>2. ASSUME NEW s \in Seq(S), \A u \in Seq(S) : Len(u) < Len(s) => u \in T PROVE s \in T
  <2> SUFFICES ASSUME s \in whole PROVE f[Cat(s, t)] = Cat(f[s], f[t])
    OBVIOUS
  <2>1. CASE s = <<>>
    <3>1. Cat(s, t) = t /\ f[s] = <<>> /\ f[t] \in Seq(C)
      BY <1>1, <2>1, CatSeq
    <3> QED
      BY <3>1, CatSeq
  <2>2. CASE s # <<>>
    <3>1. Len(s) \in Nat /\ w[s] \in 1..Len(s) /\ c[s] \in C /\ w[s] \in 0..Len(s)
      BY <2>2, LenProperties DEF Reads
    <3>2. From(s, w[s]) \in Seq(S) /\ Len(From(s, w[s])) < Len(s) /\ From(s, w[s]) \in whole
      <4>1. From(s, w[s]) \in Seq(S) /\ Len(From(s, w[s])) = Len(s) - w[s]
        BY <3>1, SplitSeq
      <4> QED
        BY <2>2, <3>1, <4>1
    <3>3. Cat(s, t) \in Seq(S) \ {<<>>}
      <4>1. Cat(s, t) \in Seq(S) /\ Len(Cat(s, t)) = Len(s) + Len(t)
        BY CatSeq
      <4>2. Len(t) \in Nat /\ Len(s) \in Nat /\ Len(s) > 0
        BY <3>1, LenProperties
      <4> QED
        BY <4>1, <4>2, EmptySeq
    <3>4. From(Cat(s, t), w[s]) = Cat(From(s, w[s]), t)
      BY <3>1, SplitCat
    <3>5. f[Cat(From(s, w[s]), t)] = Cat(f[From(s, w[s])], f[t])
      BY <1>2, <3>2
    <3>6. f[s] = Cat(<<c[s]>>, f[From(s, w[s])])
      BY <2>2 DEF Reads
    <3>7. f[Cat(s, t)] = Cat(<<c[s]>>, f[Cat(From(s, w[s]), t)])
      <4>1. f[Cat(s, t)] = Cat(<<c[Cat(s, t)]>>, f[From(Cat(s, t), w[Cat(s, t)])])
        BY <3>3 DEF Reads
      <4>2. w[Cat(s, t)] = w[s] /\ c[Cat(s, t)] = c[s]
        BY <2>2
      <4> QED
        BY <3>4, <4>1, <4>2
    <3> DEFINE one == <<c[s]>>
    <3>8. one \in Seq(C) /\ f[From(s, w[s])] \in Seq(C) /\ f[t] \in Seq(C)
      BY <1>1, <3>1, <3>2
    <3>9. Cat(Cat(one, f[From(s, w[s])]), f[t]) = Cat(one, Cat(f[From(s, w[s])], f[t]))
      <4> HIDE DEF one
      <4> QED
        BY <3>8, CatAssociates
    <3> QED
      BY <3>5, <3>6, <3>7, <3>9
  <2> QED
    BY <2>1, <2>2
<1>3. \A s \in Seq(S) : s \in T
  <2> HIDE DEF T
  <2> QED
    BY <1>2, LengthInduction
<1> QED
  BY <1>3

\* What is defined as reading from the beginning, reads.
LEMMA Reading ==
    ASSUME NEW S, NEW C, NEW w, NEW c, NEW f,
           \A s \in Seq(S) \ {<<>>} : w[s] \in 1..Len(s) /\ c[s] \in C,
           f = [s \in Seq(S) |-> IF s = <<>> THEN <<>> ELSE Cat(<<c[s]>>, f[From(s, w[s])])]
    PROVE  Reads(f, w, c, S, C)
<1> DEFINE T == {s \in Seq(S) : f[s] \in Seq(C)}
<1>1. \A s \in Seq(S) : f[s] = IF s = <<>> THEN <<>> ELSE Cat(<<c[s]>>, f[From(s, w[s])])
  OBVIOUS
<1>2. ASSUME NEW s \in Seq(S), \A u \in Seq(S) : Len(u) < Len(s) => u \in T PROVE s \in T
  <2>1. CASE s = <<>>
    BY <1>1, <2>1, EmptySeq
  <2>2. CASE s # <<>>
    <3>1. Len(s) \in Nat /\ w[s] \in 1..Len(s) /\ c[s] \in C /\ w[s] \in 0..Len(s)
      BY <2>2, LenProperties
    <3>2. From(s, w[s]) \in Seq(S) /\ Len(From(s, w[s])) = Len(s) - w[s]
      BY <3>1, SplitSeq
    <3>3. From(s, w[s]) \in T
      <4>1. Len(From(s, w[s])) < Len(s)
        BY <3>1, <3>2
      <4> HIDE DEF T
      <4> QED
        BY <1>2, <3>2, <4>1
    <3> DEFINE one == <<c[s]>>
    <3>4. one \in Seq(C) /\ f[From(s, w[s])] \in Seq(C)
      BY <3>1, <3>3
    <3>5. f[s] = Cat(one, f[From(s, w[s])])
      BY <1>1, <2>2
    <3> HIDE DEF one
    <3>6. Cat(one, f[From(s, w[s])]) \in Seq(C)
      BY <3>4, CatSeq
    <3> QED
      BY <3>5, <3>6
  <2> QED
    BY <2>1, <2>2
<1>3. \A s \in Seq(S) : s \in T
  <2> HIDE DEF T
  <2> QED
    BY <1>2, LengthInduction
<1>4. f \in [Seq(S) -> Seq(C)]
  <2>1. \A s \in Seq(S) : f[s] \in Seq(C)
    BY <1>3
  <2>2. f = [s \in Seq(S) |-> f[s]]
    BY <1>1, Zenon
  <2> HIDE <1>1
  <2> QED
    BY <2>1, <2>2
<1>5. f[<<>>] = <<>>
  BY <1>1, EmptySeq
<1> QED
  BY <1>1, <1>4, <1>5 DEF Reads

-----------------------------------------------------------------------------
(* UTF-8 *)

\* utf8.RuneLen of a first byte, less the byte.
LEMMA Utf8Lengths == ASSUME NEW b PROVE Telnet!Utf8Length(b) \in 0..3
  BY DEF Telnet!Utf8Length

\* What of a text its first character depends on.
LEMMA Utf8First ==
    ASSUME NEW s \in Seq(STRING), s # <<>>
    PROVE  /\ Telnet!Utf8Width(s) \in 1..Len(s)
           /\ Telnet!Utf8Begins(s) <=> Telnet!Utf8Char(s) # Telnet!Bad
<1>1. Len(s) \in Nat /\ Len(s) > 0 /\ s[1] \in STRING
  BY LenProperties, EmptySeq, ElementOfSeq
<1>2. Telnet!Utf8Width(s) \in 1..Len(s)
  BY <1>1, Utf8Lengths DEF Telnet!Utf8Width, Telnet!Utf8Begins
<1>3. CASE ~Telnet!Utf8Begins(s)
  <2>1. Telnet!Utf8Char(s) = <<"bad">>
    BY <1>3 DEF Telnet!Utf8Char, Telnet!Bad
  <2> QED
    BY <1>2, <1>3, <2>1 DEF Telnet!Bad
<1>4. CASE Telnet!Utf8Begins(s)
  <2> DEFINE u == SubSeq(s, 1, Telnet!Utf8Width(s))
  <2>1. u \in Seq(STRING) /\ Len(u) = Telnet!Utf8Width(s) /\ u[1] = s[1]
    <3>1. Telnet!Utf8Width(s) \in 0..Len(s) /\ 1 \in 1..Telnet!Utf8Width(s)
      BY <1>1, <1>2
    <3> QED
      BY <3>1, SplitSeq DEF Upto
  <2> HIDE DEF u
  <2>2. CASE Telnet!Utf8Width(s) = 1
    <3>1. s[1] = "A"
      BY <1>4, <2>2 DEF Telnet!Utf8Width, Telnet!Utf8Length
    <3>2. Telnet!Utf8Char(s) = Cat(<<>>, u)
      BY <1>4, <2>2 DEF Telnet!Utf8Char, u, Cat
    <3>3. Telnet!Utf8Char(s) = u
      BY <2>1, <3>2, CatSeq
    <3>4. u # <<"bad">>
      BY <2>1, <3>1
    <3> QED
      BY <1>2, <1>4, <2>1, <3>3, <3>4 DEF Telnet!Bad
  <2>3. CASE Telnet!Utf8Width(s) # 1
    <3> DEFINE tag == <<"utf-8">>
    <3>1. Telnet!Utf8Char(s) = Cat(tag, u)
      BY <1>4, <2>3 DEF Telnet!Utf8Char, u, Cat
    <3> DEFINE S == STRING \cup {"utf-8"}
    <3>2. tag \in Seq(S) /\ Len(tag) = 1 /\ tag[1] = "utf-8"
      OBVIOUS
    <3>3. u \in Seq(S) /\ Len(u) \in Nat
      BY <2>1, SeqMonotonic, LenProperties
    <3> HIDE DEF tag, S
    <3>4. Cat(tag, u)[1] = "utf-8"
      <4>1. 1 \in 1..Len(tag) + Len(u) /\ 1 <= Len(tag)
        BY <3>2, <3>3
      <4> QED
        BY <3>2, <3>3, <4>1, CatAt
    <3>5. Cat(tag, u) # <<"bad">>
      <4> SUFFICES ASSUME Cat(tag, u) = <<"bad">> PROVE FALSE
        OBVIOUS
      <4>1. Cat(tag, u)[1] = "bad"
        OBVIOUS
      <4> QED
        BY <3>4, <4>1
    <3> QED
      BY <1>2, <1>4, <3>1, <3>5 DEF Telnet!Bad
  <2> QED
    BY <2>2, <2>3
<1> QED
  BY <1>3, <1>4

\* A character that is complete is the same, whatever follows.
LEMMA Utf8Same ==
    ASSUME NEW s \in Seq(STRING), s # <<>>, NEW t \in Seq(STRING), Telnet!Utf8Begins(s)
    PROVE  /\ Telnet!Utf8Begins(Cat(s, t)) /\ Telnet!Utf8Width(Cat(s, t)) = Telnet!Utf8Width(s)
           /\ Telnet!Utf8Char(Cat(s, t)) = Telnet!Utf8Char(s)
<1>1. Len(s) \in Nat /\ Len(s) > 0 /\ Len(t) \in Nat
  BY LenProperties, EmptySeq
<1>2. Cat(s, t) \in Seq(STRING) /\ Len(Cat(s, t)) = Len(s) + Len(t)
  BY CatSeq
<1>3. \A i \in 1..Len(s) : Cat(s, t)[i] = s[i]
  BY <1>1, CatAt
<1>4. Cat(s, t)[1] = s[1]
  BY <1>1, <1>3
<1>5. Telnet!Utf8Length(Cat(s, t)[1]) = Telnet!Utf8Length(s[1]) /\ Telnet!Utf8Length(s[1]) \in 0..3
  BY <1>4, Utf8Lengths
<1>6. /\ Telnet!Utf8Length(s[1]) > 0 /\ Telnet!Utf8Length(s[1]) <= Len(s)
      /\ \A j \in 2..Telnet!Utf8Length(s[1]) : s[j] = "C"
  BY DEF Telnet!Utf8Begins
<1>7. Telnet!Utf8Begins(Cat(s, t))
  BY <1>1, <1>2, <1>3, <1>5, <1>6 DEF Telnet!Utf8Begins
<1>8. Telnet!Utf8Width(Cat(s, t)) = Telnet!Utf8Width(s) /\ Telnet!Utf8Width(s) \in 0..Len(s)
  BY <1>1, <1>5, <1>6, <1>7 DEF Telnet!Utf8Width
<1>9. SubSeq(Cat(s, t), 1, Telnet!Utf8Width(Cat(s, t))) = SubSeq(s, 1, Telnet!Utf8Width(s))
  BY <1>8, SplitCat DEF Upto
<1> QED
  BY <1>7, <1>8, <1>9 DEF Telnet!Utf8Char

\* What a character of either encoding is read as, and the functions that read it.
Characters == {Telnet!Utf8Char(s) : s \in Seq(STRING)} \cup {Telnet!GbkChar(s) : s \in Seq(STRING)}

\* How many bytes a character takes and what it is read as, as functions.
Utf8W == [s \in Seq(STRING) |-> Telnet!Utf8Width(s)]
Utf8C == [s \in Seq(STRING) |-> Telnet!Utf8Char(s)]
GbkW == [s \in Seq(STRING) |-> Telnet!GbkWidth(s)]
GbkC == [s \in Seq(STRING) |-> Telnet!GbkChar(s)]

\* decodeUTF8 reads one character after the other.
LEMMA Utf8Reads == Reads(Telnet!Utf8Chars, Utf8W, Utf8C, STRING, Characters)
<1>1. \A s \in Seq(STRING) \ {<<>>} : Utf8W[s] \in 1..Len(s) /\ Utf8C[s] \in Characters
  BY Utf8First DEF Utf8W, Utf8C, Characters
<1> DEFINE Is(f) == f = [s \in Seq(STRING) |->
               IF s = <<>> THEN <<>> ELSE Cat(<<Utf8C[s]>>, f[From(s, Utf8W[s])])]
<1>2. ASSUME NEW f
      PROVE  Is(f) <=> f = [s \in Seq(STRING) |-> IF s = <<>> THEN <<>>
                 ELSE <<Telnet!Utf8Char(s)>> \o f[SubSeq(s, Telnet!Utf8Width(s) + 1, Len(s))]]
  BY DEF Cat, From, Utf8W, Utf8C
<1>3. \E f : Is(f)
  <2>1. PICK f : Reads(f, Utf8W, Utf8C, STRING, Characters)
    BY <1>1, ReadingExists
  <2>2. /\ f \in [Seq(STRING) -> Seq(Characters)] /\ f[<<>>] = <<>>
        /\ \A s \in Seq(STRING) \ {<<>>} : f[s] = Cat(<<Utf8C[s]>>, f[From(s, Utf8W[s])])
    BY <2>1 DEF Reads
  <2>3. \A s \in Seq(STRING) : f[s] = IF s = <<>> THEN <<>> ELSE Cat(<<Utf8C[s]>>, f[From(s, Utf8W[s])])
    BY <2>2
  <2>4. f = [s \in Seq(STRING) |-> f[s]]
    BY <2>2
  <2>5. Is(f)
    BY Zenon, <2>3, <2>4
  <2> QED
    BY <2>5
<1>4. Is(Telnet!Utf8Chars)
  <2>1. \E f : f = [s \in Seq(STRING) |-> IF s = <<>> THEN <<>>
                 ELSE <<Telnet!Utf8Char(s)>> \o f[SubSeq(s, Telnet!Utf8Width(s) + 1, Len(s))]]
    BY <1>2, <1>3
  <2>2. Telnet!Utf8Chars = [s \in Seq(STRING) |-> IF s = <<>> THEN <<>>
                 ELSE <<Telnet!Utf8Char(s)>> \o Telnet!Utf8Chars[SubSeq(s, Telnet!Utf8Width(s) + 1, Len(s))]]
    BY Zenon, <2>1 DEF Telnet!Utf8Chars
  <2> QED
    BY <1>2, <2>2
<1> QED
  BY <1>1, <1>4, Reading

\* A sequence that is not empty has an element, and one that has none is empty.
LEMMA CatContains ==
    ASSUME NEW S, NEW s \in Seq(S), NEW t \in Seq(S), NEW e
    PROVE  Telnet!Contains(Cat(s, t), e) <=> Telnet!Contains(s, e) \/ Telnet!Contains(t, e)
<1>1. Len(s) \in Nat /\ Len(t) \in Nat /\ Len(Cat(s, t)) = Len(s) + Len(t)
  BY LenProperties, CatSeq
<1>2. \A i \in 1..Len(s) : i \in 1..Len(s) + Len(t) /\ Cat(s, t)[i] = s[i]
  BY <1>1, CatAt
<1>3. ASSUME NEW i \in 1..Len(t) PROVE Len(s) + i \in 1..Len(s) + Len(t) /\ Cat(s, t)[Len(s) + i] = t[i]
  <2>1. Len(s) + i \in 1..Len(s) + Len(t) /\ ~(Len(s) + i <= Len(s)) /\ (Len(s) + i) - Len(s) = i
    BY <1>1
  <2> QED
    BY <2>1, CatAt
<1>4. ASSUME NEW i \in 1..Len(s) + Len(t) PROVE i \in 1..Len(s) \/ (i - Len(s) \in 1..Len(t) /\ i = Len(s) + (i - Len(s)))
  BY <1>1
<1>5. ASSUME Telnet!Contains(Cat(s, t), e) PROVE Telnet!Contains(s, e) \/ Telnet!Contains(t, e)
  <2>1. PICK i \in 1..Len(s) + Len(t) : Cat(s, t)[i] = e
    BY <1>1, <1>5 DEF Telnet!Contains
  <2>2. CASE i \in 1..Len(s)
    BY <1>2, <2>1, <2>2 DEF Telnet!Contains
  <2>3. CASE i - Len(s) \in 1..Len(t) /\ i = Len(s) + (i - Len(s))
    <3>1. t[i - Len(s)] = e
      BY <1>3, <2>1, <2>3
    <3> QED
      BY <2>3, <3>1 DEF Telnet!Contains
  <2> QED
    BY <1>4, <2>2, <2>3
<1>6. ASSUME Telnet!Contains(s, e) \/ Telnet!Contains(t, e) PROVE Telnet!Contains(Cat(s, t), e)
  BY <1>1, <1>2, <1>3, <1>6 DEF Telnet!Contains
<1> QED
  BY <1>5, <1>6

\* A text is valid if its first character is, and the rest.
LEMMA ValidFirst ==
    /\ Telnet!Valid(<<>>)
    /\ \A s \in Seq(STRING) \ {<<>>} :
         Telnet!Valid(s) <=> Telnet!Utf8Begins(s) /\ Telnet!Valid(From(s, Telnet!Utf8Width(s)))
<1>1. Telnet!Valid(<<>>)
  BY Utf8Reads, EmptySeq DEF Reads, Telnet!Valid, Telnet!Contains
<1>2. ASSUME NEW s \in Seq(STRING), s # <<>>
      PROVE  Telnet!Valid(s) <=> Telnet!Utf8Begins(s) /\ Telnet!Valid(From(s, Telnet!Utf8Width(s)))
  <2> DEFINE r == From(s, Telnet!Utf8Width(s))
             one == <<Utf8C[s]>>
  <2>1. r \in Seq(STRING)
    <3>1. Len(s) \in Nat /\ Telnet!Utf8Width(s) \in 0..Len(s)
      BY <1>2, Utf8First, LenProperties
    <3> QED
      BY <3>1, SplitSeq
  <2>2. Telnet!Utf8Chars[s] = Cat(one, Telnet!Utf8Chars[r])
    BY <1>2, Utf8Reads DEF Reads, Utf8W
  <2>3. one \in Seq(Characters) /\ Telnet!Utf8Chars[r] \in Seq(Characters)
    <3>1. Utf8C[s] \in Characters
      BY DEF Utf8C, Characters
    <3>2. Telnet!Utf8Chars[r] \in Seq(Characters)
      BY <2>1, Utf8Reads DEF Reads
    <3> QED
      BY <3>1, <3>2
  <2>4. Telnet!Contains(one, Telnet!Bad) <=> Telnet!Utf8Char(s) = Telnet!Bad
    BY DEF Telnet!Contains, Utf8C
  <2> HIDE DEF one, r
  <2>5. Telnet!Contains(Telnet!Utf8Chars[s], Telnet!Bad) <=>
          Telnet!Contains(one, Telnet!Bad) \/ Telnet!Contains(Telnet!Utf8Chars[r], Telnet!Bad)
    BY <2>2, <2>3, CatContains
  <2>6. Telnet!Valid(s) <=> Telnet!Utf8Begins(s) /\ Telnet!Valid(r)
    BY <1>2, <2>4, <2>5, Utf8First DEF Telnet!Valid
  <2> QED
    BY <2>6 DEF r
<1> QED
  BY <1>1, <1>2

\* A valid text is read the same with whatever follows it, and what follows is as valid.
LEMMA ValidOn ==
    ASSUME NEW s \in Seq(STRING), NEW t \in Seq(STRING), Telnet!Valid(s)
    PROVE  /\ Telnet!Utf8Chars[Cat(s, t)] = Cat(Telnet!Utf8Chars[s], Telnet!Utf8Chars[t])
           /\ Telnet!Valid(Cat(s, t)) <=> Telnet!Valid(t)
<1> DEFINE whole == {u \in Seq(STRING) : Telnet!Valid(u)}
<1>1. ASSUME NEW u \in Seq(STRING) \ {<<>>}, u \in whole
      PROVE  Utf8W[Cat(u, t)] = Utf8W[u] /\ Utf8C[Cat(u, t)] = Utf8C[u] /\ From(u, Utf8W[u]) \in whole
  <2>1. Cat(u, t) \in Seq(STRING) /\ Telnet!Utf8Begins(u) /\ Telnet!Valid(From(u, Telnet!Utf8Width(u)))
    BY <1>1, CatSeq, ValidFirst
  <2>2. Len(u) \in Nat /\ Telnet!Utf8Width(u) \in 0..Len(u)
    BY Utf8First, LenProperties
  <2>3. From(u, Telnet!Utf8Width(u)) \in Seq(STRING)
    BY <2>2, SplitSeq
  <2> QED
    BY <2>1, <2>3, Utf8Same DEF Utf8W, Utf8C
<1>2. s \in whole
  OBVIOUS
<1> HIDE DEF whole
<1>3. Telnet!Utf8Chars[Cat(s, t)] = Cat(Telnet!Utf8Chars[s], Telnet!Utf8Chars[t])
  BY <1>1, <1>2, Utf8Reads, ReadingOn
<1>4. Telnet!Utf8Chars[s] \in Seq(Characters) /\ Telnet!Utf8Chars[t] \in Seq(Characters)
  BY Utf8Reads DEF Reads
<1>5. Telnet!Valid(Cat(s, t)) <=> Telnet!Valid(t)
  BY <1>3, <1>4, CatContains DEF Telnet!Valid
<1> QED
  BY <1>3, <1>5

\* The first character of a valid text is valid on its own.
LEMMA ValidUnit ==
    ASSUME NEW s \in Seq(STRING), s # <<>>, Telnet!Utf8Begins(s)
    PROVE  Telnet!Valid(Upto(s, Telnet!Utf8Width(s)))
<1> DEFINE u == Upto(s, Telnet!Utf8Width(s))
           n == Telnet!Utf8Length(s[1])
<1>1. Len(s) \in Nat /\ n \in 0..3 /\ n > 0 /\ n <= Len(s) /\ \A j \in 2..n : s[j] = "C"
  BY LenProperties, Utf8Lengths DEF Telnet!Utf8Begins
<1>2. Telnet!Utf8Width(s) = n
  BY DEF Telnet!Utf8Width
<1>3. u \in Seq(STRING) /\ Len(u) = n /\ \A i \in 1..n : u[i] = s[i]
  <2> HIDE DEF n
  <2>1. n \in 0..Len(s)
    BY <1>1
  <2> QED
    BY <1>2, <2>1, SplitSeq
<1> HIDE DEF u
<1>4. u[1] = s[1] /\ u # <<>>
  BY <1>1, <1>3, EmptySeq
<1>5. Telnet!Utf8Begins(u) /\ Telnet!Utf8Width(u) = n
  BY <1>1, <1>3, <1>4 DEF Telnet!Utf8Begins, Telnet!Utf8Width
<1>6. From(u, n) = <<>>
  <2>1. Len(u) \in Nat /\ Len(u) + 1 > Len(u)
    BY <1>1, <1>3
  <2> QED
    BY <1>1, <1>3, SubSeqEmpty DEF From
<1>7. Telnet!Valid(u)
  BY <1>3, <1>4, <1>5, <1>6, ValidFirst
<1> QED
  BY <1>7 DEF u

\* A beginning of a character is not valid on its own.
LEMMA PrefixNotValid ==
    ASSUME NEW s \in Seq(STRING), Telnet!IsUTF8Prefix(s)
    PROVE  s # <<>> /\ ~Telnet!Valid(s)
<1>1. Len(s) \in 1..3 /\ Len(s) < Telnet!Utf8Length(s[1]) /\ Telnet!Utf8Length(s[1]) \in 0..3
  BY Utf8Lengths DEF Telnet!IsUTF8Prefix
<1>2. s # <<>>
  BY <1>1, EmptySeq
<1>3. ~Telnet!Utf8Begins(s)
  BY <1>1 DEF Telnet!Utf8Begins
<1> QED
  BY <1>2, <1>3, ValidFirst

\* A set of numbers up to n that has one has a greatest one.
LEMMA Greatest ==
    ASSUME NEW n \in Nat, NEW S, S \subseteq 0..n, S # {}
    PROVE  \E x \in S : \A y \in S : y <= x
<1> DEFINE T == {n - x : x \in S}
<1>1. T \subseteq Nat /\ T # {}
  <2>1. \A x \in S : x \in Nat /\ n - x \in Nat
    OBVIOUS
  <2> QED
    BY <2>1
<1>2. PICK y \in T : \A z \in T : z >= y
  <2> HIDE DEF T
  <2> QED
    BY <1>1, Smallest
<1>3. PICK x \in S : y = n - x
  BY <1>2
<1>4. ASSUME NEW z \in S PROVE z <= x
  <2>1. n - z \in T
    BY <1>4
  <2>2. n - z >= y
    <3> HIDE DEF T
    <3> QED
      BY <1>2, <2>1
  <2> QED
    BY <1>3, <2>2
<1> QED
  BY <1>3, <1>4

\* What holdUTF8Tail finds: the longest valid beginning.
LEMMA HoldTail ==
    ASSUME NEW s \in Seq(STRING)
    PROVE  \E n \in 0..Len(s) :
             /\ Telnet!Valid(Upto(s, n)) /\ \A j \in n + 1..Len(s) : ~Telnet!Valid(Upto(s, j))
             /\ Telnet!HoldUTF8Tail(s) = IF Telnet!IsUTF8Prefix(From(s, n)) THEN n ELSE -1
<1> DEFINE Longest(i) == Telnet!Valid(SubSeq(s, 1, i)) /\ \A j \in i + 1..Len(s) : ~Telnet!Valid(SubSeq(s, 1, j))
           valid == {i \in 0..Len(s) : Telnet!Valid(SubSeq(s, 1, i))}
<1>1. Len(s) \in Nat
  BY LenProperties
<1>2. 0 \in valid /\ valid \subseteq 0..Len(s)
  <2>1. SubSeq(s, 1, 0) = <<>>
    BY SubSeqEmpty
  <2>2. Telnet!Valid(SubSeq(s, 1, 0))
    BY <2>1, ValidFirst
  <2>3. 0 \in 0..Len(s)
    BY <1>1
  <2> QED
    BY <2>2, <2>3
<1>3. PICK n \in valid : \A m \in valid : m <= n
  <2> HIDE DEF valid
  <2> QED
    BY <1>1, <1>2, Greatest
<1>4. \E i \in 0..Len(s) : Longest(i)
  <2>1. ASSUME NEW j \in n + 1..Len(s) PROVE ~Telnet!Valid(SubSeq(s, 1, j))
    BY <1>1, <1>2, <1>3, <2>1
  <2> QED
    BY <1>3, <2>1
<1> DEFINE m == CHOOSE i \in 0..Len(s) : Longest(i)
<1>5. m \in 0..Len(s) /\ Longest(m)
  <2> HIDE DEF Longest
  <2> QED
    BY <1>4
<1>6. Telnet!HoldUTF8Tail(s) = IF Telnet!IsUTF8Prefix(SubSeq(s, m + 1, Len(s))) THEN m ELSE -1
  BY DEF Telnet!HoldUTF8Tail
<1> HIDE DEF m
<1> QED
  BY <1>5, <1>6 DEF Upto, From

\* When what is read goes on to be a valid text, no more than a part of a character is held.
LEMMA HoldsPart ==
    ASSUME NEW s \in Seq(STRING), NEW t \in Seq(STRING), Telnet!Valid(Cat(s, t)), ~Telnet!Valid(s)
    PROVE  Telnet!HoldUTF8Tail(s) >= 0
<1>1. PICK n \in 0..Len(s) :
             /\ Telnet!Valid(Upto(s, n)) /\ \A j \in n + 1..Len(s) : ~Telnet!Valid(Upto(s, j))
             /\ Telnet!HoldUTF8Tail(s) = IF Telnet!IsUTF8Prefix(From(s, n)) THEN n ELSE -1
  BY HoldTail
<1> DEFINE e == Upto(s, n)
           r == From(s, n)
<1>2. e \in Seq(STRING) /\ r \in Seq(STRING) /\ Cat(e, r) = s /\ Len(r) = Len(s) - n /\ Len(e) = n
  BY SplitSeq
<1>3. Len(s) \in Nat /\ Len(r) \in Nat /\ Len(t) \in Nat /\ n \in Nat
  BY <1>2, LenProperties
<1>4. Telnet!Valid(e)
  BY <1>1
<1> HIDE DEF e, r
<1>5. Telnet!Valid(Cat(r, t)) /\ Cat(r, t) \in Seq(STRING)
  <2>1. Cat(e, Cat(r, t)) = Cat(s, t)
    BY <1>2, CatAssociates
  <2>2. Cat(r, t) \in Seq(STRING)
    BY <1>2, CatSeq
  <2> QED
    BY <1>2, <1>4, <2>1, <2>2, ValidOn
<1>6. r # <<>>
  <2>1. r = <<>> => s = e
    BY <1>2, CatSeq
  <2> QED
    BY <1>4, <2>1
<1>7. Len(Cat(r, t)) = Len(r) + Len(t) /\ Len(r) > 0 /\ \A i \in 1..Len(r) : Cat(r, t)[i] = r[i]
  <2>1. Len(Cat(r, t)) = Len(r) + Len(t)
    BY <1>2, CatSeq
  <2>2. Len(r) > 0
    BY <1>2, <1>3, <1>6, EmptySeq
  <2>3. \A i \in 1..Len(r) : i \in 1..Len(r) + Len(t) /\ i <= Len(r)
    BY <1>3
  <2>4. \A i \in 1..Len(r) : Cat(r, t)[i] = r[i]
    BY <1>2, <2>3, CatAt
  <2> QED
    BY <2>1, <2>2, <2>4
<1>8. Cat(r, t) # <<>>
  BY <1>3, <1>5, <1>7, EmptySeq
<1> DEFINE k == Telnet!Utf8Length(r[1])
<1>9. Telnet!Utf8Begins(Cat(r, t)) /\ Cat(r, t)[1] = r[1]
  BY <1>3, <1>5, <1>7, <1>8, ValidFirst
<1>10. k \in 0..3 /\ k > 0 /\ \A j \in 2..k : Cat(r, t)[j] = "C"
  BY <1>9, Utf8Lengths DEF Telnet!Utf8Begins
<1> HIDE DEF k
<1>11. Len(r) < k
  <2> SUFFICES ASSUME k <= Len(r) PROVE FALSE
    BY <1>3, <1>10
  <2>1. \A j \in 2..k : r[j] = "C"
    BY <1>3, <1>7, <1>10
  <2>2. Telnet!Utf8Begins(r) /\ Telnet!Utf8Width(r) = k
    BY <1>10, <2>1 DEF Telnet!Utf8Begins, Telnet!Utf8Width, k
  <2>3. Telnet!Valid(Upto(r, k)) /\ k \in 0..Len(r)
    BY <1>2, <1>3, <1>6, <1>10, <2>2, ValidUnit
  <2>4. Upto(r, k) \in Seq(STRING) /\ Len(Upto(r, k)) = k /\ From(r, k) \in Seq(STRING) /\ Cat(Upto(r, k), From(r, k)) = r
    BY <1>2, <2>3, SplitSeq
  <2> DEFINE u == Upto(r, k)
             v == Cat(e, u)
  <2>5. v \in Seq(STRING) /\ Len(v) = n + k /\ Cat(v, From(r, k)) = s
    <3>1. Cat(e, u) \in Seq(STRING) /\ Len(Cat(e, u)) = n + k
      <4>1. u \in Seq(STRING) /\ Len(u) = k
        BY <2>4
      <4> HIDE DEF u
      <4> QED
        BY <1>2, <4>1, CatSeq
    <3>2. Cat(Cat(e, u), From(r, k)) = Cat(e, Cat(u, From(r, k)))
      BY <1>2, <2>4, CatAssociates
    <3> QED
      BY <1>2, <2>4, <3>1, <3>2
  <2>6. Telnet!Valid(v)
    BY <1>2, <1>4, <2>3, <2>4, ValidOn
  <2> HIDE DEF u, v
  <2>7. Upto(s, n + k) = v
    <3>1. Len(v) \in 0..Len(v) /\ Upto(v, Len(v)) = v
      <4>1. Len(v) \in Nat
        BY <2>5, LenProperties
      <4> QED
        BY <2>5, <4>1, SubSeqFull DEF Upto
    <3>2. Upto(Cat(v, From(r, k)), Len(v)) = Upto(v, Len(v))
      BY <2>4, <2>5, <3>1, SplitCat
    <3> QED
      BY <2>5, <3>1, <3>2
  <2>8. n + k \in n + 1..Len(s)
    BY <1>2, <1>3, <1>10
  <2> QED
    BY <1>1, <2>6, <2>7, <2>8
<1>12. Telnet!IsUTF8Prefix(r)
  <2>1. \A j \in 2..Len(r) : j \in 2..k /\ j \in 1..Len(r)
    BY <1>3, <1>10, <1>11
  <2>2. Len(r) \in 1..3
    <3>1. Len(r) \in Nat /\ Len(r) > 0
      BY <1>3, <1>7
    <3>2. k \in Nat /\ k <= 3
      BY <1>10
    <3> HIDE DEF k
    <3>3. Len(r) < 3
      BY <1>11, <3>1, <3>2
    <3>4. \A m \in Nat : m > 0 /\ m < 3 => m \in 1..3
      OBVIOUS
    <3> QED
      BY Zenon, <3>1, <3>3, <3>4
  <2>3. \A j \in 2..Len(r) : r[j] = "C"
    BY <1>7, <1>10, <2>1
  <2> QED
    BY <1>11, <2>2, <2>3 DEF Telnet!IsUTF8Prefix, k
<1> QED
  BY <1>1, <1>3, <1>12 DEF r

-----------------------------------------------------------------------------
(* GBK *)

\* A character of GBK has one or two bytes.
LEMMA GbkFirst ==
    ASSUME NEW s \in Seq(STRING), s # <<>>
    PROVE  Telnet!GbkWidth(s) \in 1..Len(s) /\ Telnet!GbkWidth(s) \in 0..Len(s) /\ Telnet!GbkWidth(s) \in 1..2
<1>1. Len(s) \in Nat /\ Len(s) > 0
  BY LenProperties, EmptySeq
<1> QED
  BY <1>1 DEF Telnet!GbkWidth

\* decodeGBK reads one character after the other.
LEMMA GbkReads == Reads(Telnet!GbkChars, GbkW, GbkC, STRING, Characters)
<1>1. \A s \in Seq(STRING) \ {<<>>} : GbkW[s] \in 1..Len(s) /\ GbkC[s] \in Characters
  BY GbkFirst DEF GbkW, GbkC, Characters
<1> DEFINE Is(f) == f = [s \in Seq(STRING) |->
               IF s = <<>> THEN <<>> ELSE Cat(<<GbkC[s]>>, f[From(s, GbkW[s])])]
<1>2. ASSUME NEW f
      PROVE  Is(f) <=> f = [s \in Seq(STRING) |-> IF s = <<>> THEN <<>>
                 ELSE <<Telnet!GbkChar(s)>> \o f[SubSeq(s, Telnet!GbkWidth(s) + 1, Len(s))]]
  BY DEF Cat, From, GbkW, GbkC
<1>3. \E f : Is(f)
  <2>1. PICK f : Reads(f, GbkW, GbkC, STRING, Characters)
    BY <1>1, ReadingExists
  <2>2. /\ f \in [Seq(STRING) -> Seq(Characters)] /\ f[<<>>] = <<>>
        /\ \A s \in Seq(STRING) \ {<<>>} : f[s] = Cat(<<GbkC[s]>>, f[From(s, GbkW[s])])
    BY <2>1 DEF Reads
  <2>3. \A s \in Seq(STRING) : f[s] = IF s = <<>> THEN <<>> ELSE Cat(<<GbkC[s]>>, f[From(s, GbkW[s])])
    BY <2>2
  <2>4. f = [s \in Seq(STRING) |-> f[s]]
    BY <2>2
  <2>5. Is(f)
    BY Zenon, <2>3, <2>4
  <2> QED
    BY <2>5
<1>4. Is(Telnet!GbkChars)
  <2>1. \E f : f = [s \in Seq(STRING) |-> IF s = <<>> THEN <<>>
                 ELSE <<Telnet!GbkChar(s)>> \o f[SubSeq(s, Telnet!GbkWidth(s) + 1, Len(s))]]
    BY <1>2, <1>3
  <2>2. Telnet!GbkChars = [s \in Seq(STRING) |-> IF s = <<>> THEN <<>>
                 ELSE <<Telnet!GbkChar(s)>> \o Telnet!GbkChars[SubSeq(s, Telnet!GbkWidth(s) + 1, Len(s))]]
    BY Zenon, <2>1 DEF Telnet!GbkChars
  <2> QED
    BY <1>2, <2>2
<1> QED
  BY <1>1, <1>4, Reading

\* Where splitGBKTail stops.
GbkStops(s) == s = <<>> \/ (Len(s) = 1 /\ s[1] \in Telnet!Lead)

\* splitGBKTail passes one character after the other, up to a first byte without a second.
LEMMA TailReads ==
    /\ Telnet!GbkTail[<<>>] = 0
    /\ \A s \in Seq(STRING) :
         Telnet!GbkTail[s] = IF GbkStops(s) THEN Len(s) ELSE Telnet!GbkTail[From(s, Telnet!GbkWidth(s))]
<1> DEFINE halt == {s \in Seq(STRING) : GbkStops(s)}
           base == [s \in Seq(STRING) |-> Len(s)]
           shorter == [s \in Seq(STRING) |-> From(s, Telnet!GbkWidth(s))]
           join == [p \in Seq(STRING) \X Nat |-> p[2]]
<1>1. \A s \in Seq(STRING) \ halt : shorter[s] \in Seq(STRING) /\ Len(shorter[s]) < Len(s)
  <2> SUFFICES ASSUME NEW s \in Seq(STRING), s # <<>>
               PROVE  From(s, Telnet!GbkWidth(s)) \in Seq(STRING) /\ Len(From(s, Telnet!GbkWidth(s))) < Len(s)
    BY DEF GbkStops
  <2>1. Len(s) \in Nat /\ Telnet!GbkWidth(s) \in 1..Len(s) /\ Telnet!GbkWidth(s) \in 0..Len(s)
    BY LenProperties, GbkFirst
  <2>2. From(s, Telnet!GbkWidth(s)) \in Seq(STRING) /\ Len(From(s, Telnet!GbkWidth(s))) = Len(s) - Telnet!GbkWidth(s)
    BY <2>1, SplitSeq
  <2> QED
    BY <2>1, <2>2
<1>2. \A s \in Seq(STRING) \ halt, v \in Nat : join[<<s, v>>] = v
  OBVIOUS
<1>3. \A s \in Seq(STRING) \cap halt : base[s] \in Nat
  BY LenProperties
<1>4. Grounded(STRING, Nat, halt, base, shorter, join)
  <2> HIDE DEF halt, base, shorter, join
  <2> QED
    BY <1>1, <1>2, <1>3 DEF Grounded
<1>5. PICK f : Recurs(f, STRING, Nat, halt, base, shorter, join)
  <2> HIDE DEF halt, base, shorter, join
  <2> QED
    BY <1>4, SeqRecursion
<1>6. f \in [Seq(STRING) -> Nat] /\ f = [s \in Seq(STRING) |-> f[s]]
  BY <1>5 DEF Recurs
<1>7. ASSUME NEW s \in Seq(STRING)
      PROVE  f[s] = IF s = <<>> \/ (Len(s) = 1 /\ s[1] \in Telnet!Lead) THEN Len(s)
                    ELSE f[SubSeq(s, Telnet!GbkWidth(s) + 1, Len(s))]
  <2>1. f[s] = IF s \in halt THEN base[s] ELSE join[<<s, f[shorter[s]]>>]
    <3> HIDE DEF halt, base, shorter, join
    <3> QED
      BY <1>5 DEF Recurs
  <2>2. CASE GbkStops(s)
    BY <2>1, <2>2 DEF GbkStops
  <2>3. CASE ~GbkStops(s)
    <3>1. s \in Seq(STRING) \ halt
      BY <2>3
    <3>2. shorter[s] \in Seq(STRING) /\ shorter[s] = SubSeq(s, Telnet!GbkWidth(s) + 1, Len(s))
      BY <1>1, <3>1 DEF From
    <3> HIDE DEF halt, shorter, join
    <3>3. f[shorter[s]] \in Nat
      BY <1>6, <3>2
    <3>4. f[s] = f[shorter[s]]
      BY <1>2, <2>1, <3>1, <3>3
    <3> QED
      BY <2>3, <3>2, <3>4 DEF GbkStops
  <2> QED
    BY <2>2, <2>3
<1>8. \E g : g = [s \in Seq(STRING) |-> IF s = <<>> \/ (Len(s) = 1 /\ s[1] \in Telnet!Lead) THEN Len(s)
                                    ELSE g[SubSeq(s, Telnet!GbkWidth(s) + 1, Len(s))]]
  BY Zenon, <1>6, <1>7
<1>9. Telnet!GbkTail = [s \in Seq(STRING) |-> IF s = <<>> \/ (Len(s) = 1 /\ s[1] \in Telnet!Lead) THEN Len(s)
                                    ELSE Telnet!GbkTail[SubSeq(s, Telnet!GbkWidth(s) + 1, Len(s))]]
  BY Zenon, <1>8 DEF Telnet!GbkTail
<1>10. \A s \in Seq(STRING) : Telnet!GbkTail[s] = IF GbkStops(s) THEN Len(s) ELSE Telnet!GbkTail[From(s, Telnet!GbkWidth(s))]
  BY <1>9 DEF GbkStops, From
<1> QED
  BY <1>10, EmptySeq DEF GbkStops

\* A text that ends with a character is read the same with whatever follows it.
LEMMA GbkOn ==
    ASSUME NEW s \in Seq(STRING), NEW t \in Seq(STRING), Telnet!GbkTail[s] = 0
    PROVE  /\ Telnet!GbkChars[Cat(s, t)] = Cat(Telnet!GbkChars[s], Telnet!GbkChars[t])
           /\ Telnet!GbkTail[Cat(s, t)] = Telnet!GbkTail[t]
<1> DEFINE whole == {u \in Seq(STRING) : Telnet!GbkTail[u] = 0}
<1>1. ASSUME NEW u \in Seq(STRING), u # <<>>, Telnet!GbkTail[u] = 0
      PROVE  /\ Cat(u, t) \in Seq(STRING) /\ ~GbkStops(Cat(u, t))
             /\ Telnet!GbkWidth(Cat(u, t)) = Telnet!GbkWidth(u) /\ Telnet!GbkChar(Cat(u, t)) = Telnet!GbkChar(u)
             /\ From(u, Telnet!GbkWidth(u)) \in Seq(STRING) /\ Telnet!GbkTail[From(u, Telnet!GbkWidth(u))] = 0
             /\ Len(From(u, Telnet!GbkWidth(u))) < Len(u)
             /\ From(Cat(u, t), Telnet!GbkWidth(u)) = Cat(From(u, Telnet!GbkWidth(u)), t)
  <2>1. Len(u) \in Nat /\ Len(u) > 0 /\ Len(t) \in Nat
    BY <1>1, LenProperties, EmptySeq
  <2>2. Cat(u, t) \in Seq(STRING) /\ Len(Cat(u, t)) = Len(u) + Len(t)
    BY CatSeq
  <2>3. \A i \in 1..Len(u) : i \in 1..Len(u) + Len(t) /\ i <= Len(u)
    BY <2>1
  <2>4. \A i \in 1..Len(u) : Cat(u, t)[i] = u[i]
    BY <2>3, CatAt
  <2>5. ~GbkStops(u) /\ Telnet!GbkTail[From(u, Telnet!GbkWidth(u))] = 0
    BY <1>1, <2>1, TailReads DEF GbkStops
  <2>6. Telnet!GbkWidth(u) \in 1..Len(u) /\ Telnet!GbkWidth(u) \in 0..Len(u)
    BY <1>1, GbkFirst
  <2>7. From(u, Telnet!GbkWidth(u)) \in Seq(STRING) /\ Len(From(u, Telnet!GbkWidth(u))) = Len(u) - Telnet!GbkWidth(u)
    BY <2>6, SplitSeq
  <2>8. Len(From(u, Telnet!GbkWidth(u))) < Len(u)
    BY <2>1, <2>6, <2>7
  <2>9. From(Cat(u, t), Telnet!GbkWidth(u)) = Cat(From(u, Telnet!GbkWidth(u)), t)
    BY <2>6, SplitCat
  <2>10. Cat(u, t)[1] = u[1] /\ (Len(u) > 1 => Cat(u, t)[2] = u[2])
    BY <2>1, <2>4
  <2>11. u[1] \in Telnet!Lead => Len(u) > 1
    <3>1. ~(Len(u) = 1 /\ u[1] \in Telnet!Lead)
      BY <2>5 DEF GbkStops
    <3>2. Len(u) = 1 \/ Len(u) > 1
      <4>1. \A m \in Nat : m > 0 => m = 1 \/ m > 1
        OBVIOUS
      <4> QED
        BY Zenon, <2>1, <4>1
    <3> QED
      BY <3>1, <3>2
  <2>12. ~GbkStops(Cat(u, t))
    BY <2>1, <2>2, <2>10, <2>11, EmptySeq DEF GbkStops
  <2>13. Telnet!GbkWidth(Cat(u, t)) = Telnet!GbkWidth(u)
    BY <2>1, <2>2, <2>10, <2>11 DEF Telnet!GbkWidth
  <2>14. Telnet!GbkWidth(u) = 2 => Len(u) > 1
    BY DEF Telnet!GbkWidth
  <2>15. Telnet!GbkChar(Cat(u, t)) = Telnet!GbkChar(u)
    BY <2>10, <2>13, <2>14 DEF Telnet!GbkChar
  <2> QED
    BY <2>2, <2>5, <2>7, <2>8, <2>9, <2>12, <2>13, <2>15
<1>2. ASSUME NEW u \in Seq(STRING) \ {<<>>}, u \in whole
      PROVE  GbkW[Cat(u, t)] = GbkW[u] /\ GbkC[Cat(u, t)] = GbkC[u] /\ From(u, GbkW[u]) \in whole
  BY <1>1, <1>2 DEF GbkW, GbkC
<1>3. Telnet!GbkChars[Cat(s, t)] = Cat(Telnet!GbkChars[s], Telnet!GbkChars[t])
  <2>1. s \in whole
    OBVIOUS
  <2> HIDE DEF whole
  <2> QED
    BY <1>2, <2>1, GbkReads, ReadingOn
<1> DEFINE T == {u \in Seq(STRING) : Telnet!GbkTail[u] = 0 => Telnet!GbkTail[Cat(u, t)] = Telnet!GbkTail[t]}
<1>4. ASSUME NEW u \in Seq(STRING), \A v \in Seq(STRING) : Len(v) < Len(u) => v \in T PROVE u \in T
  <2> SUFFICES ASSUME Telnet!GbkTail[u] = 0 PROVE Telnet!GbkTail[Cat(u, t)] = Telnet!GbkTail[t]
    OBVIOUS
  <2>1. CASE u = <<>>
    BY <2>1, CatSeq
  <2>2. CASE u # <<>>
    <3> DEFINE r == From(u, Telnet!GbkWidth(u))
    <3>1. r \in Seq(STRING) /\ Telnet!GbkTail[r] = 0 /\ Len(r) < Len(u)
      BY <1>1, <2>2
    <3>2. Telnet!GbkTail[Cat(r, t)] = Telnet!GbkTail[t]
      <4> HIDE DEF r
      <4> QED
        BY <1>4, <3>1
    <3>3. Telnet!GbkTail[Cat(u, t)] = Telnet!GbkTail[Cat(r, t)]
      BY <1>1, <2>2, TailReads
    <3> QED
      BY <3>2, <3>3
  <2> QED
    BY <2>1, <2>2
<1>5. \A u \in Seq(STRING) : u \in T
  <2> HIDE DEF T
  <2> QED
    BY <1>4, LengthInduction
<1> QED
  BY <1>3, <1>5

\* A beginning that is longer than the first of two sequences.
LEMMA UptoCat ==
    ASSUME NEW S, NEW s \in Seq(S), NEW t \in Seq(S), NEW n \in 0..Len(t)
    PROVE  Upto(Cat(s, t), Len(s) + n) = Cat(s, Upto(t, n))
<1> DEFINE v == Cat(s, Upto(t, n))
<1>1. Upto(t, n) \in Seq(S) /\ Len(Upto(t, n)) = n /\ From(t, n) \in Seq(S) /\ Cat(Upto(t, n), From(t, n)) = t
  BY SplitSeq
<1>2. v \in Seq(S) /\ Len(v) = Len(s) + n /\ Cat(v, From(t, n)) = Cat(s, t)
  <2>1. Cat(s, Upto(t, n)) \in Seq(S) /\ Len(Cat(s, Upto(t, n))) = Len(s) + Len(Upto(t, n))
    BY <1>1, CatSeq
  <2>2. Cat(Cat(s, Upto(t, n)), From(t, n)) = Cat(s, Cat(Upto(t, n), From(t, n)))
    BY <1>1, CatAssociates
  <2> QED
    BY <1>1, <2>1, <2>2
<1> HIDE DEF v
<1>3. Len(v) \in 0..Len(v) /\ Upto(v, Len(v)) = v
  <2>1. Len(v) \in Nat
    BY <1>2, LenProperties
  <2> QED
    BY <1>2, <2>1, SubSeqFull DEF Upto
<1>4. Upto(Cat(v, From(t, n)), Len(v)) = Upto(v, Len(v))
  BY <1>1, <1>2, <1>3, SplitCat
<1> QED
  BY <1>2, <1>3, <1>4 DEF v

\* What splitGBKTail cuts off leaves a text that ends with a character.
LEMMA GbkCut ==
    \A s \in Seq(STRING) :
      Telnet!GbkTail[s] \in 0..Len(s) /\ Telnet!GbkTail[Upto(s, Len(s) - Telnet!GbkTail[s])] = 0
<1> DEFINE T == {s \in Seq(STRING) :
      Telnet!GbkTail[s] \in 0..Len(s) /\ Telnet!GbkTail[Upto(s, Len(s) - Telnet!GbkTail[s])] = 0}
<1>1. ASSUME NEW s \in Seq(STRING), \A u \in Seq(STRING) : Len(u) < Len(s) => u \in T PROVE s \in T
  <2>1. Len(s) \in Nat
    BY LenProperties
  <2>2. CASE GbkStops(s)
    <3>1. Telnet!GbkTail[s] = Len(s)
      BY <2>2, TailReads
    <3>2. Len(s) - Len(s) = 0 /\ Upto(s, 0) = <<>>
      BY <2>1, SubSeqEmpty DEF Upto
    <3> QED
      BY <2>1, <3>1, <3>2, TailReads
  <2>3. CASE ~GbkStops(s)
    <3> DEFINE w == Telnet!GbkWidth(s)
               r == From(s, w)
               u == Upto(s, w)
               k == Telnet!GbkTail[r]
    <3>1. s # <<>> /\ w \in 1..Len(s) /\ w \in 0..Len(s) /\ w \in 1..2
      BY <2>3, GbkFirst DEF GbkStops
    <3>2. r \in Seq(STRING) /\ Len(r) = Len(s) - w /\ u \in Seq(STRING) /\ Len(u) = w /\ u[1] = s[1] /\ Cat(u, r) = s
      <4> HIDE DEF w
      <4>1. 1 \in 1..w
        BY <3>1
      <4> QED
        BY <3>1, <4>1, SplitSeq
    <3>3. Telnet!GbkTail[s] = k
      BY <2>3, TailReads
    <3>4. s[1] \in Telnet!Lead <=> w = 2
      <4>1. Len(s) > 0 /\ (Len(s) = 1 \/ Len(s) > 1)
        BY <2>1, <3>1, EmptySeq
      <4>2. ~(Len(s) = 1 /\ s[1] \in Telnet!Lead)
        BY <2>3 DEF GbkStops
      <4> QED
        BY <4>1, <4>2 DEF Telnet!GbkWidth
    <3> HIDE DEF w, r, u
    <3>5. k \in 0..Len(r) /\ Telnet!GbkTail[Upto(r, Len(r) - k)] = 0
      <4>1. Len(r) < Len(s)
        BY <2>1, <3>1, <3>2
      <4>2. r \in T
        <5> HIDE DEF T
        <5> QED
          BY <1>1, <3>2, <4>1
      <4> QED
        BY <4>2
    <3>6. Telnet!GbkTail[u] = 0
      <4>1. u # <<>>
        BY <3>1, <3>2, EmptySeq
      <4>2. ~GbkStops(u)
        BY <3>1, <3>2, <3>4, <4>1 DEF GbkStops
      <4>3. Telnet!GbkWidth(u) = w
        BY <3>1, <3>2, <3>4 DEF Telnet!GbkWidth
      <4>4. From(u, w) = <<>>
        <5>1. Len(u) \in Nat /\ Len(u) + 1 > Len(u)
          BY <3>1, <3>2
        <5> QED
          BY <3>2, <5>1, SubSeqEmpty DEF From
      <4> QED
        BY <3>2, <4>2, <4>3, <4>4, TailReads
    <3>7. Upto(s, Len(s) - k) = Cat(u, Upto(r, Len(r) - k)) /\ Upto(r, Len(r) - k) \in Seq(STRING)
      <4>1. Len(r) \in Nat /\ Len(r) - k \in 0..Len(r) /\ Len(s) - k = Len(u) + (Len(r) - k)
        <5>1. Len(r) \in Nat
          BY <3>2, LenProperties
        <5> HIDE DEF k
        <5>2. k \in 0..Len(r)
          BY <3>5
        <5>3. Len(s) = Len(u) + Len(r) /\ Len(u) \in Nat
          BY <2>1, <3>1, <3>2
        <5> QED
          BY <5>1, <5>2, <5>3
      <4> HIDE DEF k
      <4>2. Upto(Cat(u, r), Len(u) + (Len(r) - k)) = Cat(u, Upto(r, Len(r) - k))
        BY <3>2, <4>1, UptoCat
      <4>3. Upto(r, Len(r) - k) \in Seq(STRING)
        BY <3>2, <4>1, SplitSeq
      <4> QED
        BY <3>2, <4>1, <4>2, <4>3
    <3> HIDE DEF k
    <3>8. Telnet!GbkTail[Upto(s, Len(s) - k)] = 0
      BY <3>2, <3>5, <3>6, <3>7, GbkOn
    <3>9. k \in 0..Len(s)
      <4>1. Len(r) <= Len(s) /\ Len(r) \in Int
        BY <2>1, <3>1, <3>2
      <4> QED
        BY <2>1, <3>5, <4>1
    <3> QED
      BY <3>3, <3>8, <3>9
  <2> QED
    BY <2>2, <2>3
<1>2. \A s \in Seq(STRING) : s \in T
  <2> HIDE DEF T
  <2> QED
    BY <1>1, LengthInduction
<1> QED
  BY <1>2

\* A text of ASCII is the same in both encodings.
Ascii(s) == \A i \in 1..Len(s) : s[i] = "A"

\* ASCII is the same in both encodings.
LEMMA AsciiSame ==
    \A s \in Seq(STRING) : Ascii(s) => Telnet!GbkChars[s] = Telnet!Utf8Chars[s] /\ Telnet!GbkTail[s] = 0
<1> DEFINE T == {s \in Seq(STRING) : Ascii(s) => Telnet!GbkChars[s] = Telnet!Utf8Chars[s] /\ Telnet!GbkTail[s] = 0}
<1>1. ASSUME NEW s \in Seq(STRING), \A u \in Seq(STRING) : Len(u) < Len(s) => u \in T PROVE s \in T
  <2> SUFFICES ASSUME Ascii(s) PROVE Telnet!GbkChars[s] = Telnet!Utf8Chars[s] /\ Telnet!GbkTail[s] = 0
    OBVIOUS
  <2>1. CASE s = <<>>
    BY <2>1, TailReads, GbkReads, Utf8Reads DEF Reads
  <2>2. CASE s # <<>>
    <3> DEFINE r == From(s, 1)
    <3>1. Len(s) \in Nat /\ Len(s) > 0 /\ s[1] = "A" /\ 1 \in 0..Len(s)
      <4>1. Len(s) \in Nat /\ Len(s) > 0
        BY <2>2, LenProperties, EmptySeq
      <4> QED
        BY <4>1 DEF Ascii
    <3>2. r \in Seq(STRING) /\ Len(r) = Len(s) - 1 /\ \A i \in 1..Len(s) - 1 : r[i] = s[1 + i]
      BY <3>1, SplitSeq
    <3>3. Telnet!Utf8Begins(s) /\ Telnet!Utf8Width(s) = 1
      BY <3>1 DEF Telnet!Utf8Begins, Telnet!Utf8Width, Telnet!Utf8Length
    <3>4. Telnet!GbkWidth(s) = 1 /\ ~GbkStops(s)
      BY <2>2, <3>1 DEF Telnet!GbkWidth, GbkStops, Telnet!Lead
    <3>5. Telnet!Utf8Char(s) = <<"A">>
      <4>1. SubSeq(s, 1, 1) \in Seq(STRING) /\ Len(SubSeq(s, 1, 1)) = 1 /\ SubSeq(s, 1, 1)[1] = "A"
        BY <3>1, SplitSeq DEF Upto
      <4>2. Telnet!Utf8Char(s) = Cat(<<>>, SubSeq(s, 1, 1))
        BY <3>3 DEF Telnet!Utf8Char, Cat
      <4>3. Cat(<<>>, SubSeq(s, 1, 1)) = SubSeq(s, 1, 1)
        BY <4>1, CatSeq
      <4>4. SubSeq(s, 1, 1) = <<"A">>
        <5> DEFINE one == SubSeq(s, 1, 1)
        <5>1. one \in Seq(STRING) /\ Len(one) = 1 /\ one[1] = "A"
          BY <4>1
        <5> HIDE DEF one
        <5>2. one = <<"A">>
          BY <5>1
        <5> QED
          BY <5>2 DEF one
      <4> QED
        BY <4>2, <4>3, <4>4
    <3>6. Telnet!GbkChar(s) = <<"A">>
      BY <3>1 DEF Telnet!GbkChar
    <3> HIDE DEF r
    <3>7. Telnet!GbkChars[r] = Telnet!Utf8Chars[r] /\ Telnet!GbkTail[r] = 0
      <4>1. Ascii(r) /\ Len(r) < Len(s)
        BY <3>1, <3>2 DEF Ascii
      <4>2. r \in T
        <5> HIDE DEF T
        <5> QED
          BY <1>1, <3>2, <4>1
      <4> QED
        BY <4>1, <4>2
    <3>8. Telnet!Utf8Chars[s] = Cat(<<Utf8C[s]>>, Telnet!Utf8Chars[From(s, Utf8W[s])])
      BY <2>2, Utf8Reads DEF Reads
    <3>9. Telnet!GbkChars[s] = Cat(<<GbkC[s]>>, Telnet!GbkChars[From(s, GbkW[s])])
      BY <2>2, GbkReads DEF Reads
    <3>10. Utf8C[s] = <<"A">> /\ GbkC[s] = <<"A">> /\ Utf8W[s] = 1 /\ GbkW[s] = 1
      BY <3>3, <3>4, <3>5, <3>6 DEF Utf8C, GbkC, Utf8W, GbkW
    <3>11. Telnet!GbkTail[s] = Telnet!GbkTail[r]
      BY <3>4, TailReads DEF r
    <3>12. Telnet!GbkChars[s] = Telnet!Utf8Chars[s]
      BY <3>7, <3>8, <3>9, <3>10 DEF r
    <3> QED
      BY <3>7, <3>11, <3>12
  <2> QED
    BY <2>1, <2>2
<1>2. \A s \in Seq(STRING) : s \in T
  <2> HIDE DEF T
  <2> QED
    BY <1>1, LengthInduction
<1> QED
  BY <1>2

-----------------------------------------------------------------------------
(* The converter *)

\* The text of a peer, and what the converter made of e when it holds the rest.
TextOf(t, s) == IF t.of = "gbk" THEN Telnet!GbkChars[s] ELSE Telnet!Utf8Chars[s]

\* The converter c made text of e, and holds the beginning of a character.
Converts(t, c, e) ==
    /\ e \in Seq(STRING) /\ c.left \in Seq(STRING)
    /\ \/ c.mode = "gbk" /\ t.of = "gbk" /\ Telnet!GbkTail[e] = 0 /\ Telnet!GbkTail[c.left] = Len(c.left)
       \/ /\ c.mode = t.mode /\ t.mode # "gbk" /\ Telnet!Valid(e)
          /\ c.left = <<>> \/ Telnet!IsUTF8Prefix(c.left)
          /\ t.of = "gbk" => Ascii(e)

\* decodeGBK makes text of a part that ends with a character, and keeps at most one byte.
LEMMA DecodesGbk ==
    ASSUME NEW e \in Seq(STRING), NEW s \in Seq(STRING), Telnet!GbkTail[e] = 0, NEW d, d = Telnet!DecodeGBK(s)
    PROVE  \E x \in Seq(STRING) :
             /\ Telnet!GbkTail[x] = 0 /\ d.conv.mode = "gbk"
             /\ d.conv.left \in Seq(STRING) /\ Telnet!GbkTail[d.conv.left] = Len(d.conv.left)
             /\ Cat(x, d.conv.left) = Cat(e, s) /\ Telnet!GbkChars[x] = Cat(Telnet!GbkChars[e], d.out)
             /\ d.out \in Seq(Characters)
<1> DEFINE k == Telnet!GbkTail[s]
           n == Len(s) - k
           u == Upto(s, n)
           l == From(s, n)
<1>1. Len(s) \in Nat /\ k \in 0..Len(s) /\ Telnet!GbkTail[u] = 0
  BY GbkCut, LenProperties
<1>2. n \in 0..Len(s) /\ Len(s) - n = k
  BY <1>1
<1>3. d.conv.mode = "gbk" /\ d.conv.left = l /\ d.out = Telnet!GbkChars[u]
  BY DEF Telnet!DecodeGBK, Upto, From
<1> HIDE DEF k, n
<1>4. u \in Seq(STRING) /\ l \in Seq(STRING) /\ Cat(u, l) = s /\ Len(l) = k
  BY <1>2, SplitSeq
<1> HIDE DEF u, l
<1>5. Telnet!GbkTail[l] = k
  BY <1>1, <1>4, GbkOn DEF k
<1> DEFINE x == Cat(e, u)
<1>6. x \in Seq(STRING) /\ Telnet!GbkTail[x] = 0 /\ Telnet!GbkChars[x] = Cat(Telnet!GbkChars[e], Telnet!GbkChars[u])
  BY <1>1, <1>4, GbkOn, CatSeq
<1>7. Cat(x, l) = Cat(e, s)
  BY <1>4, CatAssociates
<1>8. Telnet!GbkChars[u] \in Seq(Characters)
  BY <1>4, GbkReads DEF Reads
<1> HIDE DEF x
<1> QED
  BY <1>3, <1>4, <1>5, <1>6, <1>7, <1>8

\* A text of UTF-8, but for the beginning of a character at its end.
EndsUtf8(s) == Telnet!Valid(s) \/ Telnet!HoldUTF8Tail(s) >= 0
\* decodeUTF8, of bytes that end with a character or within one, makes text of a valid part and keeps
\* the beginning of a character.
LEMMA DecodesUtf8 ==
    ASSUME NEW e \in Seq(STRING), NEW s \in Seq(STRING), Telnet!Valid(e), NEW mode,
           EndsUtf8(s), NEW d, d = Telnet!DecodeUTF8(mode, s)
    PROVE  \E x \in Seq(STRING) :
             /\ Telnet!Valid(x) /\ d.conv.mode = mode
             /\ d.conv.left \in Seq(STRING) /\ (d.conv.left = <<>> \/ Telnet!IsUTF8Prefix(d.conv.left))
             /\ Cat(x, d.conv.left) = Cat(e, s) /\ Telnet!Utf8Chars[x] = Cat(Telnet!Utf8Chars[e], d.out)
             /\ d.out \in Seq(Characters)
<1> DEFINE n == IF Telnet!Valid(s) THEN Len(s) ELSE Telnet!HoldUTF8Tail(s)
           u == Upto(s, n)
           l == From(s, n)
<1>1. n \in 0..Len(s) /\ Telnet!Valid(u) /\ (l = <<>> \/ Telnet!IsUTF8Prefix(l))
  <2>1. CASE Telnet!Valid(s)
    <3>1. Len(s) \in Nat /\ Len(s) + 1 > Len(s)
      BY LenProperties
    <3>2. Upto(s, Len(s)) = s /\ From(s, Len(s)) = <<>>
      BY <3>1, SubSeqFull, SubSeqEmpty DEF Upto, From
    <3> QED
      BY <2>1, <3>1, <3>2
  <2>2. CASE ~Telnet!Valid(s) /\ Telnet!HoldUTF8Tail(s) >= 0
    <3>1. PICK m \in 0..Len(s) :
             /\ Telnet!Valid(Upto(s, m)) /\ \A j \in m + 1..Len(s) : ~Telnet!Valid(Upto(s, j))
             /\ Telnet!HoldUTF8Tail(s) = IF Telnet!IsUTF8Prefix(From(s, m)) THEN m ELSE -1
      BY HoldTail
    <3>2. Telnet!HoldUTF8Tail(s) = m /\ Telnet!IsUTF8Prefix(From(s, m))
      BY <2>2, <3>1
    <3> QED
      BY <2>2, <3>1, <3>2
  <2> QED
    BY <2>1, <2>2 DEF EndsUtf8
<1>2. n >= 0
  <2>1. Len(s) \in Nat
    BY LenProperties
  <2> HIDE DEF n
  <2> QED
    BY <1>1, <2>1
<1>3. /\ d.conv.mode = mode /\ d.conv.left = l
      /\ d.out = Telnet!Utf8Chars[u]
  BY <1>2 DEF Telnet!DecodeUTF8, Upto, From
<1> HIDE DEF n
<1>4. u \in Seq(STRING) /\ l \in Seq(STRING) /\ Cat(u, l) = s
  BY <1>1, SplitSeq
<1> HIDE DEF u, l
<1> DEFINE x == Cat(e, u)
<1>5. x \in Seq(STRING) /\ Telnet!Valid(x) /\ Telnet!Utf8Chars[x] = Cat(Telnet!Utf8Chars[e], Telnet!Utf8Chars[u])
  BY <1>1, <1>4, ValidOn, CatSeq
<1>6. Cat(x, l) = Cat(e, s)
  BY <1>4, CatAssociates
<1>7. Telnet!Utf8Chars[u] \in Seq(Characters)
  BY <1>4, Utf8Reads DEF Reads
<1> HIDE DEF x
<1> QED
  BY <1>1, <1>3, <1>4, <1>5, <1>6, <1>7

\* What begins a text of GBK that is not misleading, and is valid UTF-8, is ASCII.
LEMMA NotMisled ==
    ASSUME NEW s \in Seq(STRING), NEW t \in Seq(STRING), Telnet!Valid(s), ~Telnet!Misleading(Cat(s, t))
    PROVE  Ascii(s)
<1>1. Len(s) \in Nat /\ Len(t) \in Nat /\ Len(Cat(s, t)) = Len(s) + Len(t) /\ Len(s) \in 0..Len(s)
  BY LenProperties, CatSeq
<1>2. SubSeq(Cat(s, t), 1, Len(s)) = s
  <2>1. Upto(Cat(s, t), Len(s)) = Upto(s, Len(s)) /\ Upto(s, Len(s)) = s
    BY <1>1, SplitCat, SubSeqFull DEF Upto
  <2> QED
    BY <2>1 DEF Upto
<1> SUFFICES ASSUME NEW i \in 1..Len(s) PROVE s[i] = "A"
  BY DEF Ascii
<1>3. Len(s) \in 1..Len(Cat(s, t)) /\ i \in 1..Len(s) + Len(t) /\ i <= Len(s)
  BY <1>1
<1>4. Cat(s, t)[i] = s[i]
  BY <1>3, CatAt
<1>5. ASSUME s[i] # "A" PROVE FALSE
  <2>1. Telnet!Valid(SubSeq(Cat(s, t), 1, Len(s))) /\ Cat(s, t)[i] # "A"
    BY <1>2, <1>4, <1>5
  <2> QED
    BY <1>3, <2>1 DEF Telnet!Misleading
<1> QED
  BY <1>5

\* Decode, of the next bytes of a text: the converter goes on, and what it gives is the text of the
\* bytes that it took.
LEMMA DecodeConverts ==
    ASSUME NEW t, NEW c, NEW e, NEW p \in Seq(STRING), NEW more \in Seq(STRING), NEW d,
           Converts(t, c, e), Telnet!Readable(t), t.of \in {"utf-8", "gbk"}, d = Telnet!Decode(c, p),
           Telnet!Written(t.text) = Cat(Cat(e, Cat(c.left, p)), more)
    PROVE  \E x : /\ Converts(t, d.conv, x) /\ Cat(x, d.conv.left) = Cat(e, Cat(c.left, p))
                  /\ TextOf(t, x) = Cat(TextOf(t, e), d.out) /\ d.out \in Seq(Characters)
<1> DEFINE s == Cat(c.left, p)
<1>1. s \in Seq(STRING) /\ e \in Seq(STRING)
  BY CatSeq DEF Converts
<1>2. d = IF c.mode = "gbk" THEN Telnet!DecodeGBK(s) ELSE Telnet!DecodeUTF8(c.mode, s)
  BY DEF Telnet!Decode, Cat
<1> HIDE DEF s
<1>3. CASE Telnet!GbkTail[e] = 0 /\ d = Telnet!DecodeGBK(s) /\ t.of = "gbk"
  <2>1. PICK x \in Seq(STRING) :
                 /\ Telnet!GbkTail[x] = 0 /\ d.conv.mode = "gbk"
                 /\ d.conv.left \in Seq(STRING) /\ Telnet!GbkTail[d.conv.left] = Len(d.conv.left)
                 /\ Cat(x, d.conv.left) = Cat(e, s) /\ Telnet!GbkChars[x] = Cat(Telnet!GbkChars[e], d.out)
                 /\ d.out \in Seq(Characters)
    BY <1>1, <1>3, DecodesGbk
  <2> QED
    BY <1>3, <2>1 DEF Converts, TextOf, s
<1>4. CASE c.mode = "gbk"
  BY <1>2, <1>3, <1>4 DEF Converts
<1>5. CASE c.mode # "gbk"
  <2>1. /\ c.mode = t.mode /\ t.mode # "gbk" /\ Telnet!Valid(e) /\ (t.of = "gbk" => Ascii(e))
        /\ d = Telnet!DecodeUTF8(c.mode, s)
    BY <1>2, <1>5 DEF Converts
  <2>2. t.of = "gbk" => t.mode = "auto" /\ ~Telnet!Misleading(Cat(Cat(e, s), more))
    BY <2>1 DEF Telnet!Readable, s
  <2>3. t.of = "utf-8" => Telnet!Valid(Cat(Cat(e, s), more))
    BY DEF Telnet!Readable, s
  <2>4. CASE EndsUtf8(s)
    <3>1. PICK x \in Seq(STRING) :
                 /\ Telnet!Valid(x) /\ d.conv.mode = c.mode
                 /\ d.conv.left \in Seq(STRING) /\ (d.conv.left = <<>> \/ Telnet!IsUTF8Prefix(d.conv.left))
                 /\ Cat(x, d.conv.left) = Cat(e, s) /\ Telnet!Utf8Chars[x] = Cat(Telnet!Utf8Chars[e], d.out)
                 /\ d.out \in Seq(Characters)
      <4>1. e \in Seq(STRING) /\ s \in Seq(STRING) /\ Telnet!Valid(e) /\ d = Telnet!DecodeUTF8(c.mode, s)
        BY <1>1, <2>1
      <4>2. ASSUME NEW m, d = Telnet!DecodeUTF8(m, s)
            PROVE  \E x \in Seq(STRING) :
                 /\ Telnet!Valid(x) /\ d.conv.mode = m
                 /\ d.conv.left \in Seq(STRING) /\ (d.conv.left = <<>> \/ Telnet!IsUTF8Prefix(d.conv.left))
                 /\ Cat(x, d.conv.left) = Cat(e, s) /\ Telnet!Utf8Chars[x] = Cat(Telnet!Utf8Chars[e], d.out)
                 /\ d.out \in Seq(Characters)
        BY <2>4, <4>1, <4>2, DecodesUtf8
      <4> QED
        BY <4>1, <4>2
    <3>2. t.of = "gbk" => Ascii(x)
      <4>1. Cat(Cat(x, d.conv.left), more) = Cat(x, Cat(d.conv.left, more)) /\ Cat(d.conv.left, more) \in Seq(STRING)
        BY <3>1, CatAssociates, CatSeq
      <4>2. Cat(Cat(e, s), more) = Cat(x, Cat(d.conv.left, more))
        BY <3>1, <4>1
      <4> QED
        BY <2>2, <3>1, <4>1, <4>2, NotMisled
    <3>3. Converts(t, d.conv, x)
      BY <2>1, <3>1, <3>2 DEF Converts
    <3>4. TextOf(t, x) = Cat(TextOf(t, e), d.out)
      BY <1>1, <2>1, <3>1, <3>2, AsciiSame DEF TextOf
    <3> QED
      BY <3>1, <3>3, <3>4 DEF s
  <2>5. CASE ~EndsUtf8(s)
    <3>1. t.of = "gbk"
      <4> SUFFICES ASSUME t.of = "utf-8" PROVE FALSE
        OBVIOUS
      <4>1. Cat(Cat(e, s), more) = Cat(e, Cat(s, more)) /\ Cat(s, more) \in Seq(STRING)
        BY <1>1, CatAssociates, CatSeq
      <4>2. Telnet!Valid(Cat(s, more))
        BY <1>1, <2>1, <2>3, <4>1, ValidOn
      <4> QED
        BY <1>1, <2>5, <4>2, HoldsPart DEF EndsUtf8
    <3>2. d = Telnet!DecodeGBK(s)
      BY <2>1, <2>2, <2>5, <3>1 DEF Telnet!DecodeUTF8, EndsUtf8
    <3>3. Telnet!GbkTail[e] = 0
      BY <1>1, <2>1, <3>1, AsciiSame
    <3> QED
      BY <1>3, <3>1, <3>2, <3>3
  <2> QED
    BY <2>4, <2>5
<1> QED
  BY <1>4, <1>5

-----------------------------------------------------------------------------
(* The commands in the stream *)

\* Where a stream is, and its text so far.
RunStates == [in : {"data", "command", "option", "sub", "sub iac"}, out : Seq(STRING)]
RunStart == [in |-> "data", out |-> <<>>]

\* A byte of the stream changes the place in it, and is text or not.
LEMMA StepType ==
    ASSUME NEW r \in RunStates, NEW b \in STRING
    PROVE  /\ Telnet!Step(r, b) \in RunStates
           /\ Telnet!Step(r, b).out = r.out \/ Telnet!Step(r, b).out = Append(r.out, b)
<1>1. r.in \in {"data", "command", "option", "sub", "sub iac"} /\ r.out \in Seq(STRING) /\ Append(r.out, b) \in Seq(STRING)
  BY AppendProperties DEF RunStates
<1>2. CASE r.in = "data"
  BY <1>1, <1>2 DEF RunStates, Telnet!Step
<1>3. CASE r.in = "command"
  BY <1>1, <1>3 DEF RunStates, Telnet!Step
<1>4. CASE r.in = "option"
  BY <1>1, <1>4 DEF RunStates, Telnet!Step
<1>5. CASE r.in = "sub"
  BY <1>1, <1>5 DEF RunStates, Telnet!Step
<1>6. CASE r.in = "sub iac"
  BY <1>1, <1>6 DEF RunStates, Telnet!Step
<1> QED
  BY <1>1, <1>2, <1>3, <1>4, <1>5, <1>6

\* What a byte does depends on where the stream is.
LEMMA StepSame ==
    ASSUME NEW r \in RunStates, NEW s \in RunStates, NEW b \in STRING, r.in = s.in
    PROVE  /\ Telnet!Step(r, b).in = Telnet!Step(s, b).in
           /\ \/ Telnet!Step(r, b).out = r.out /\ Telnet!Step(s, b).out = s.out
              \/ Telnet!Step(r, b).out = Append(r.out, b) /\ Telnet!Step(s, b).out = Append(s.out, b)
<1>1. /\ r.in \in {"data", "command", "option", "sub", "sub iac"}
      /\ r = [in |-> r.in, out |-> r.out] /\ s = [in |-> s.in, out |-> s.out]
  BY DEF RunStates
<1>2. CASE r.in = "data"
  BY <1>1, <1>2 DEF Telnet!Step
<1>3. CASE r.in = "command"
  BY <1>1, <1>3 DEF Telnet!Step
<1>4. CASE r.in = "option"
  BY <1>1, <1>4 DEF Telnet!Step
<1>5. CASE r.in = "sub"
  BY <1>1, <1>5 DEF Telnet!Step
<1>6. CASE r.in = "sub iac"
  BY <1>1, <1>6 DEF Telnet!Step
<1> QED
  BY <1>1, <1>2, <1>3, <1>4, <1>5, <1>6

\* A byte after two sequences is a byte after the second.
LEMMA CatAppend ==
    ASSUME NEW S, NEW s \in Seq(S), NEW t \in Seq(S), NEW b \in S
    PROVE  Cat(s, Append(t, b)) = Append(Cat(s, t), b)
<1> DEFINE one == <<b>>
<1>1. one \in Seq(S) /\ Append(t, b) = Cat(t, one)
  BY AppendIsConcat DEF Cat
<1>2. Cat(s, t) \in Seq(S)
  BY CatSeq
<1>3. Append(Cat(s, t), b) = Cat(Cat(s, t), one)
  BY <1>2, AppendIsConcat DEF Cat
<1> HIDE DEF one
<1> QED
  BY <1>1, <1>3, CatAssociates

\* A sequence without its last element, and that.
LEMMA FrontLast ==
    ASSUME NEW S, NEW s \in Seq(S), s # <<>>
    PROVE  Telnet!Front(s) \in Seq(S) /\ Len(Telnet!Front(s)) = Len(s) - 1 /\ Telnet!Last(s) \in S
<1>1. Len(s) \in Nat /\ Len(s) > 0 /\ Len(s) - 1 \in 0..Len(s) /\ Len(s) \in 1..Len(s)
  <2>1. Len(s) \in Nat /\ Len(s) > 0
    BY LenProperties, EmptySeq
  <2> QED
    BY <2>1
<1> QED
  BY <1>1, SplitSeq, ElementOfSeq DEF Telnet!Front, Telnet!Last, Upto

\* A sequence without its last element, and that element.
LEMMA FrontAppend ==
    ASSUME NEW S, NEW s \in Seq(S), NEW e \in S
    PROVE  Telnet!Front(Append(s, e)) = s /\ Telnet!Last(Append(s, e)) = e
<1>1. Append(s, e) = Cat(s, <<e>>) /\ <<e>> \in Seq(S) /\ Len(s) \in Nat /\ Len(Append(s, e)) = Len(s) + 1
      /\ Append(s, e)[Len(s) + 1] = e
  BY AppendProperties, AppendIsConcat, LenProperties DEF Cat
<1>2. Len(s) \in 0..Len(s) /\ Upto(s, Len(s)) = s
  BY <1>1, SubSeqFull DEF Upto
<1> DEFINE one == <<e>>
<1>3. Upto(Cat(s, one), Len(s)) = Upto(s, Len(s))
  <2>1. one \in Seq(S)
    OBVIOUS
  <2> HIDE DEF one
  <2> QED
    BY <1>2, <2>1, SplitCat
<1>4. (Len(s) + 1) - 1 = Len(s)
  BY <1>1
<1> QED
  BY <1>1, <1>2, <1>3, <1>4 DEF Telnet!Front, Telnet!Last, Upto

\* The stream is read byte by byte.
LEMMA RunReads ==
    /\ Telnet!Run[<<>>] = RunStart
    /\ \A s \in Seq(STRING) : Telnet!Run[s] \in RunStates
    /\ \A s \in Seq(STRING), b \in STRING : Telnet!Run[Append(s, b)] = Telnet!Step(Telnet!Run[s], b)
<1> DEFINE halt == {<<>>}
           base == [s \in Seq(STRING) |-> RunStart]
           shorter == [s \in Seq(STRING) |-> Telnet!Front(s)]
           join == [p \in Seq(STRING) \X RunStates |-> Telnet!Step(p[2], Telnet!Last(p[1]))]
<1>1. RunStart \in RunStates
  BY EmptySeq DEF RunStart, RunStates
<1>2. \A s \in Seq(STRING) \ halt : /\ shorter[s] = Telnet!Front(s) /\ shorter[s] \in Seq(STRING)
                                    /\ Len(shorter[s]) < Len(s) /\ Telnet!Last(s) \in STRING
  <2> SUFFICES ASSUME NEW s \in Seq(STRING), s # <<>>
               PROVE  Telnet!Front(s) \in Seq(STRING) /\ Len(Telnet!Front(s)) < Len(s) /\ Telnet!Last(s) \in STRING
    OBVIOUS
  <2>1. Len(s) \in Nat
    BY LenProperties
  <2> QED
    BY <2>1, FrontLast
<1>3. \A s \in Seq(STRING) \ halt, v \in RunStates :
        join[<<s, v>>] = Telnet!Step(v, Telnet!Last(s)) /\ join[<<s, v>>] \in RunStates
  BY <1>2, StepType
<1>4. \A s \in Seq(STRING) \cap halt : base[s] \in RunStates
  BY <1>1
<1>5. Grounded(STRING, RunStates, halt, base, shorter, join)
  <2> HIDE DEF halt, base, shorter, join
  <2> QED
    BY <1>1, <1>2, <1>3, <1>4 DEF Grounded
<1>6. PICK f : Recurs(f, STRING, RunStates, halt, base, shorter, join)
  <2> HIDE DEF halt, base, shorter, join
  <2> QED
    BY <1>5, SeqRecursion
<1>7. f \in [Seq(STRING) -> RunStates] /\ f = [s \in Seq(STRING) |-> f[s]]
  BY <1>6 DEF Recurs
<1>8. ASSUME NEW s \in Seq(STRING)
      PROVE  f[s] = IF s = <<>> THEN RunStart ELSE Telnet!Step(f[Telnet!Front(s)], Telnet!Last(s))
  <2>1. f[s] = IF s \in halt THEN base[s] ELSE join[<<s, f[shorter[s]]>>]
    <3> HIDE DEF halt, base, shorter, join
    <3> QED
      BY <1>6 DEF Recurs
  <2>2. CASE s = <<>>
    BY <2>1, <2>2
  <2>3. CASE s # <<>>
    <3>1. s \in Seq(STRING) \ halt
      BY <2>3
    <3> HIDE DEF shorter, join
    <3>2. f[shorter[s]] \in RunStates
      BY <1>2, <1>7, <3>1
    <3> QED
      BY <1>2, <1>3, <2>1, <2>3, <3>1, <3>2
  <2> QED
    BY <2>2, <2>3
<1>9. Telnet!Run = [s \in Seq(STRING) |-> IF s = <<>> THEN [in |-> "data", out |-> <<>>]
                                           ELSE Telnet!Step(Telnet!Run[Telnet!Front(s)], Telnet!Last(s))]
  <2>1. \E g : g = [s \in Seq(STRING) |-> IF s = <<>> THEN [in |-> "data", out |-> <<>>]
                                           ELSE Telnet!Step(g[Telnet!Front(s)], Telnet!Last(s))]
    BY Zenon, <1>7, <1>8 DEF RunStart
  <2> QED
    BY Zenon, <2>1 DEF Telnet!Run
<1>10. \A s \in Seq(STRING) :
         Telnet!Run[s] = IF s = <<>> THEN RunStart ELSE Telnet!Step(Telnet!Run[Telnet!Front(s)], Telnet!Last(s))
  BY <1>9 DEF RunStart
<1>11. Telnet!Run[<<>>] = RunStart
  BY <1>10, EmptySeq
<1>12. ASSUME NEW s \in Seq(STRING), NEW b \in STRING
       PROVE  Telnet!Run[Append(s, b)] = Telnet!Step(Telnet!Run[s], b)
  <2>1. Append(s, b) \in Seq(STRING) /\ Append(s, b) # <<>>
    BY AppendProperties
  <2> QED
    BY <1>10, <2>1, FrontAppend
<1> DEFINE T == {s \in Seq(STRING) : Telnet!Run[s] \in RunStates}
<1>13. <<>> \in T /\ \A s \in Seq(STRING), b \in STRING : s \in T => Append(s, b) \in T
  BY <1>1, <1>11, <1>12, StepType, AppendProperties, EmptySeq
<1>14. \A s \in Seq(STRING) : s \in T
  <2> HIDE DEF T
  <2> QED
    BY <1>13, AppendInduction
<1> QED
  BY <1>11, <1>12, <1>14

\* Two streams that end in the same part of a command go on in the same way.
LEMMA RunOn ==
    ASSUME NEW r \in Seq(STRING), NEW s \in Seq(STRING), Telnet!Run[r].in = Telnet!Run[s].in
    PROVE  \A t \in Seq(STRING) :
             /\ Telnet!Run[Cat(r, t)].in = Telnet!Run[Cat(s, t)].in
             /\ \E u \in Seq(STRING) : /\ Telnet!Run[Cat(r, t)].out = Cat(Telnet!Run[r].out, u)
                                       /\ Telnet!Run[Cat(s, t)].out = Cat(Telnet!Run[s].out, u)
<1> DEFINE Same(t) ==
             /\ Telnet!Run[Cat(r, t)].in = Telnet!Run[Cat(s, t)].in
             /\ \E u \in Seq(STRING) : /\ Telnet!Run[Cat(r, t)].out = Cat(Telnet!Run[r].out, u)
                                       /\ Telnet!Run[Cat(s, t)].out = Cat(Telnet!Run[s].out, u)
           T == {t \in Seq(STRING) : Same(t)}
<1>1. /\ Telnet!Run[r] \in RunStates /\ Telnet!Run[s] \in RunStates
      /\ Telnet!Run[r].out \in Seq(STRING) /\ Telnet!Run[s].out \in Seq(STRING)
  BY RunReads DEF RunStates
<1>2. Same(<<>>)
  <2>1. Cat(r, <<>>) = r /\ Cat(s, <<>>) = s
    BY CatSeq
  <2>2. Telnet!Run[r].out = Cat(Telnet!Run[r].out, <<>>) /\ Telnet!Run[s].out = Cat(Telnet!Run[s].out, <<>>)
    BY <1>1, CatSeq
  <2> QED
    BY <2>1, <2>2, EmptySeq
<1>3. ASSUME NEW t \in Seq(STRING), NEW b \in STRING, Same(t) PROVE Same(Append(t, b))
  <2>1. Cat(r, Append(t, b)) = Append(Cat(r, t), b) /\ Cat(s, Append(t, b)) = Append(Cat(s, t), b)
    BY CatAppend
  <2>2. Cat(r, t) \in Seq(STRING) /\ Cat(s, t) \in Seq(STRING)
    BY CatSeq
  <2>3. Telnet!Run[Cat(r, t)] \in RunStates /\ Telnet!Run[Cat(s, t)] \in RunStates
    BY <2>2, RunReads
  <2>4. PICK u \in Seq(STRING) : /\ Telnet!Run[Cat(r, t)].out = Cat(Telnet!Run[r].out, u)
                                 /\ Telnet!Run[Cat(s, t)].out = Cat(Telnet!Run[s].out, u)
    BY <1>3
  <2>5. /\ Telnet!Run[Append(Cat(r, t), b)] = Telnet!Step(Telnet!Run[Cat(r, t)], b)
        /\ Telnet!Run[Append(Cat(s, t), b)] = Telnet!Step(Telnet!Run[Cat(s, t)], b)
    BY <2>2, RunReads
  <2>6. /\ Telnet!Step(Telnet!Run[Cat(r, t)], b).in = Telnet!Step(Telnet!Run[Cat(s, t)], b).in
        /\ \/ /\ Telnet!Step(Telnet!Run[Cat(r, t)], b).out = Telnet!Run[Cat(r, t)].out
              /\ Telnet!Step(Telnet!Run[Cat(s, t)], b).out = Telnet!Run[Cat(s, t)].out
           \/ /\ Telnet!Step(Telnet!Run[Cat(r, t)], b).out = Append(Telnet!Run[Cat(r, t)].out, b)
              /\ Telnet!Step(Telnet!Run[Cat(s, t)], b).out = Append(Telnet!Run[Cat(s, t)].out, b)
    BY <1>3, <2>3, StepSame
  <2>7. /\ Append(Cat(Telnet!Run[r].out, u), b) = Cat(Telnet!Run[r].out, Append(u, b))
        /\ Append(Cat(Telnet!Run[s].out, u), b) = Cat(Telnet!Run[s].out, Append(u, b))
        /\ Append(u, b) \in Seq(STRING)
    <3> DEFINE p == Telnet!Run[r].out
               q == Telnet!Run[s].out
    <3>1. p \in Seq(STRING) /\ q \in Seq(STRING)
      BY <1>1
    <3> HIDE DEF p, q
    <3>2. Append(Cat(p, u), b) = Cat(p, Append(u, b))
      BY <3>1, CatAppend
    <3>3. Append(Cat(q, u), b) = Cat(q, Append(u, b))
      BY <3>1, CatAppend
    <3> QED
      BY <3>2, <3>3, AppendProperties DEF p, q
  <2> QED
    BY <2>1, <2>4, <2>5, <2>6, <2>7
<1>4. <<>> \in T /\ \A t \in Seq(STRING), b \in STRING : t \in T => Append(t, b) \in T
  <2>1. \A t \in Seq(STRING), b \in STRING : Append(t, b) \in Seq(STRING)
    BY AppendProperties
  <2> HIDE DEF Same
  <2> QED
    BY <1>2, <1>3, <2>1, EmptySeq
<1>5. \A t \in Seq(STRING) : t \in T
  <2> HIDE DEF T
  <2> QED
    BY <1>4, AppendInduction
<1> QED
  BY <1>5

\* A stream is escaped if what it begins with is.
LEMMA EscapedMore ==
    ASSUME NEW s \in Seq(STRING), NEW t \in Seq(STRING), Telnet!Escaped(s)
    PROVE  Telnet!Escaped(Cat(s, t))
<1>1. PICK i \in 1..Len(s) - 1 : Telnet!Run[SubSeq(s, 1, i)].in = "sub iac" /\ s[i + 1] = "iac"
  BY DEF Telnet!Escaped
<1>2. Len(s) \in Nat /\ Len(t) \in Nat /\ Len(Cat(s, t)) = Len(s) + Len(t)
  BY LenProperties, CatSeq
<1>3. i \in 0..Len(s) /\ i + 1 \in 1..Len(s) + Len(t) /\ i + 1 <= Len(s) /\ i \in 1..Len(Cat(s, t)) - 1
  BY <1>2
<1>4. Upto(Cat(s, t), i) = Upto(s, i) /\ Cat(s, t)[i + 1] = s[i + 1]
  BY <1>3, SplitCat, CatAt
<1> QED
  <2>1. Cat(s, t)[i + 1] = "iac" /\ Telnet!Run[SubSeq(Cat(s, t), 1, i)].in = "sub iac"
    BY <1>1, <1>4 DEF Upto
  <2> QED
    BY <1>3, <2>1 DEF Telnet!Escaped

\* A number from 1 on is 1 or larger.
LEMMA OneOrMore == \A m \in Nat : m >= 1 => m = 1 \/ m > 1
OBVIOUS

\* A sequence with one element more.
OneMore(s, b, S) ==
    /\ Append(s, b) \in Seq(S) /\ Len(Append(s, b)) = Len(s) + 1 /\ Len(s) \in Nat
    /\ Append(s, b)[Len(s) + 1] = b /\ \A i \in 1..Len(s) : Append(s, b)[i] = s[i]

\* Append does that.
LEMMA AppendFacts ==
    ASSUME NEW S, NEW s \in Seq(S), NEW b \in S
    PROVE  OneMore(s, b, S)
<1>1. Len(s) \in Nat
  BY LenProperties
<1>2. Append(s, b) \in Seq(S) /\ Len(Append(s, b)) = Len(s) + 1
  BY AppendProperties
<1>3. Append(s, b)[Len(s) + 1] = b
  BY AppendProperties
<1>4. \A i \in 1..Len(s) : Append(s, b)[i] = s[i]
  BY AppendProperties
<1> QED
  BY <1>1, <1>2, <1>3, <1>4 DEF OneMore

\* A byte escapes a stream where it repeats IAC in a subnegotiation.
Escapes(s, b) == Telnet!Escaped(Append(s, b)) <=> Telnet!Escaped(s) \/ (Telnet!Run[s].in = "sub iac" /\ b = "iac")

\* Each byte does or does not.
LEMMA EscapedAppend ==
    ASSUME NEW s \in Seq(STRING), NEW b \in STRING
    PROVE  Escapes(s, b)
<1> DEFINE one == <<b>>
<1>1. one \in Seq(STRING) /\ Append(s, b) = Cat(s, one)
  <2>1. one \in Seq(STRING)
    BY OneSeq
  <2>2. Append(s, b) = Cat(s, one)
    BY AppendIsConcat DEF Cat
  <2> QED
    BY <2>1, <2>2
<1>2. /\ Append(s, b) \in Seq(STRING) /\ Len(Append(s, b)) = Len(s) + 1 /\ Len(s) \in Nat
      /\ Append(s, b)[Len(s) + 1] = b /\ \A i \in 1..Len(s) : Append(s, b)[i] = s[i]
  <2>1. OneMore(s, b, STRING)
    BY AppendFacts
  <2> QED
    BY <2>1 DEF OneMore
<1> HIDE DEF one
<1>3. ASSUME NEW i \in 0..Len(s) PROVE SubSeq(Append(s, b), 1, i) = SubSeq(s, 1, i)
  BY <1>1, SplitCat DEF Upto
<1>4. SubSeq(s, 1, Len(s)) = s
  BY SubSeqFull
<1>5. ASSUME Telnet!Escaped(s) PROVE Telnet!Escaped(Append(s, b))
  BY <1>1, <1>5, EscapedMore
<1>6. ASSUME Telnet!Run[s].in = "sub iac", b = "iac" PROVE Telnet!Escaped(Append(s, b))
  <2>1. s # <<>>
    <3>1. RunStart.in # "sub iac"
      BY DEF RunStart
    <3> QED
      BY <1>6, <3>1, RunReads
  <2>2. Len(s) \in 1..Len(Append(s, b)) - 1 /\ Len(s) \in 0..Len(s)
    BY <1>2, <2>1, EmptySeq
  <2>3. SubSeq(Append(s, b), 1, Len(s)) = s
    BY <1>3, <1>4, <2>2
  <2> QED
    BY <1>2, <1>6, <2>2, <2>3 DEF Telnet!Escaped
<1>7. ASSUME Telnet!Escaped(Append(s, b)) PROVE Telnet!Escaped(s) \/ (Telnet!Run[s].in = "sub iac" /\ b = "iac")
  <2>0. Len(Append(s, b)) - 1 = Len(s)
    BY <1>2
  <2>1. PICK i \in 1..Len(s) : Telnet!Run[SubSeq(Append(s, b), 1, i)].in = "sub iac" /\ Append(s, b)[i + 1] = "iac"
    BY <1>7, <2>0 DEF Telnet!Escaped
  <2>2. i \in 0..Len(s) /\ SubSeq(Append(s, b), 1, i) = SubSeq(s, 1, i)
    <3>1. i \in 0..Len(s)
      BY <1>2
    <3> QED
      BY <1>3, <3>1
  <2>3. CASE i = Len(s)
    BY <1>2, <1>4, <2>1, <2>2, <2>3
  <2>4. CASE i # Len(s)
    <3>1. i \in 1..Len(s) - 1 /\ i + 1 \in 1..Len(s)
      BY <1>2, <2>4
    <3> QED
      BY <1>2, <2>1, <2>2, <3>1 DEF Telnet!Escaped
  <2> QED
    BY <2>3, <2>4
<1> QED
  BY <1>5, <1>6, <1>7 DEF Escapes

\* A stream that goes on from the same part of a command is as free of escapes.
LEMMA EscapedOn ==
    ASSUME NEW r \in Seq(STRING), NEW s \in Seq(STRING), Telnet!Run[r].in = Telnet!Run[s].in, ~Telnet!Escaped(r)
    PROVE  \A t \in Seq(STRING) : Telnet!Escaped(Cat(r, t)) => Telnet!Escaped(Cat(s, t))
<1> DEFINE T == {t \in Seq(STRING) : Telnet!Escaped(Cat(r, t)) => Telnet!Escaped(Cat(s, t))}
<1>1. <<>> \in T
  <2>1. Cat(r, <<>>) = r
    BY CatSeq
  <2> QED
    BY <2>1, EmptySeq
<1>2. ASSUME NEW t \in Seq(STRING), NEW b \in STRING, t \in T PROVE Append(t, b) \in T
  <2>1. Append(t, b) \in Seq(STRING) /\ Cat(r, t) \in Seq(STRING) /\ Cat(s, t) \in Seq(STRING)
    BY CatSeq, AppendProperties
  <2>2. Cat(r, Append(t, b)) = Append(Cat(r, t), b) /\ Cat(s, Append(t, b)) = Append(Cat(s, t), b)
    BY CatAppend
  <2>3. Telnet!Run[Cat(r, t)].in = Telnet!Run[Cat(s, t)].in
    BY RunOn
  <2>4. Escapes(Cat(r, t), b)
    BY <2>1, EscapedAppend
  <2>5. Escapes(Cat(s, t), b)
    BY <2>1, EscapedAppend
  <2> QED
    BY <1>2, <2>1, <2>2, <2>3, <2>4, <2>5 DEF Escapes
<1>3. \A t \in Seq(STRING) : t \in T
  <2> HIDE DEF T
  <2> QED
    BY <1>1, <1>2, AppendInduction
<1> QED
  BY <1>3

\* A stream, byte by byte.
LEMMA RunUpto ==
    ASSUME NEW s \in Seq(STRING)
    PROVE  /\ Telnet!Run[Upto(s, 0)] = RunStart
           /\ \A k \in 1..Len(s) : /\ Upto(s, k) = Append(Upto(s, k - 1), s[k])
                                   /\ Telnet!Run[Upto(s, k)] = Telnet!Step(Telnet!Run[Upto(s, k - 1)], s[k])
<1>1. Upto(s, 0) = <<>>
  BY SubSeqEmpty DEF Upto
<1>2. ASSUME NEW k \in 1..Len(s)
      PROVE  /\ Upto(s, k) = Append(Upto(s, k - 1), s[k])
             /\ Telnet!Run[Upto(s, k)] = Telnet!Step(Telnet!Run[Upto(s, k - 1)], s[k])
  <2>1. Len(s) \in Nat /\ s[k] \in STRING
    BY LenProperties, ElementOfSeq
  <2>2. 1 \in 1..Len(s) /\ k \in 1..Len(s) /\ k - 1 \in 0..Len(s)
    BY <2>1
  <2>3. Upto(s, k - 1) \in Seq(STRING)
    BY <2>2, SplitSeq
  <2>4. Upto(s, k) = Upto(s, k - 1) \o <<s[k]>>
    BY <2>2, SubSeqRecursiveSecond DEF Upto
  <2>5. Append(Upto(s, k - 1), s[k]) = Upto(s, k - 1) \o <<s[k]>>
    BY <2>1, <2>3, AppendIsConcat
  <2> QED
    BY <2>1, <2>3, <2>4, <2>5, RunReads
<1> QED
  BY <1>1, <1>2, RunReads

\* A subnegotiation that has not ended.
InSub(s) ==
    /\ Len(s) >= 2 /\ s[1] = "iac" /\ s[2] = "sb" /\ ~Telnet!Escaped(s)
    /\ \A j \in 3..Len(s) - 1 : ~(s[j] = "iac" /\ s[j + 1] = "se")

\* Within a subnegotiation that goes on nothing is text.
LEMMA SubRuns ==
    \A s \in Seq(STRING) : InSub(s) =>
      Telnet!Run[s] = [in |-> IF Len(s) > 2 /\ s[Len(s)] = "iac" THEN "sub iac" ELSE "sub", out |-> <<>>]
<1> DEFINE Goal(s) == InSub(s) =>
      Telnet!Run[s] = [in |-> IF Len(s) > 2 /\ s[Len(s)] = "iac" THEN "sub iac" ELSE "sub", out |-> <<>>]
           T == {s \in Seq(STRING) : Goal(s)}
<1>1. <<>> \in T
  BY EmptySeq DEF InSub
<1>2. ASSUME NEW s \in Seq(STRING), NEW b \in STRING, Goal(s) PROVE Goal(Append(s, b))
  <2> SUFFICES ASSUME InSub(Append(s, b))
               PROVE  Telnet!Run[Append(s, b)] = [in |-> IF Len(Append(s, b)) > 2 /\ Append(s, b)[Len(Append(s, b))] = "iac"
                                                         THEN "sub iac" ELSE "sub", out |-> <<>>]
    OBVIOUS
  <2>1. /\ Append(s, b) \in Seq(STRING) /\ Len(Append(s, b)) = Len(s) + 1 /\ Len(s) \in Nat
        /\ Append(s, b)[Len(s) + 1] = b /\ \A i \in 1..Len(s) : Append(s, b)[i] = s[i]
    <3>1. OneMore(s, b, STRING)
      BY AppendFacts
    <3> QED
      BY <3>1 DEF OneMore
  <2>2. Len(s) >= 1
    BY <2>1 DEF InSub
  <2>3. Telnet!Run[Append(s, b)] = Telnet!Step(Telnet!Run[s], b)
    BY RunReads
  <2>4. s[1] = "iac"
    BY <2>1, <2>2 DEF InSub
  <2>5. CASE Len(s) = 1
    <3>1. Telnet!Run[s] = Telnet!Step(RunStart, "iac")
      <4>1. Upto(s, 1) = s /\ 1 \in 1..Len(s) /\ 1 - 1 = 0
        BY <2>5, SubSeqFull DEF Upto
      <4> QED
        BY <2>4, <4>1, RunUpto
    <3>2. b = "sb"
      BY <2>1, <2>5 DEF InSub
    <3>3. Telnet!Run[s] = [in |-> "command", out |-> <<>>]
      BY <3>1 DEF Telnet!Step, RunStart
    <3>4. Telnet!Step([in |-> "command", out |-> <<>>], "sb") = [in |-> "sub", out |-> <<>>]
      BY DEF Telnet!Step, Telnet!Asking
    <3> QED
      BY <2>1, <2>3, <2>5, <3>2, <3>3, <3>4
  <2>6. CASE Len(s) > 1
    <3>1. s[2] = "sb" /\ Len(s) >= 2
      BY <2>1, <2>6 DEF InSub
    <3>2. ~Telnet!Escaped(s) /\ ~(Telnet!Run[s].in = "sub iac" /\ b = "iac")
      <4>1. Escapes(s, b)
        BY EscapedAppend
      <4> QED
        BY <4>1 DEF InSub, Escapes
    <3>3. ASSUME NEW j \in 3..Len(s) - 1 PROVE ~(s[j] = "iac" /\ s[j + 1] = "se")
      <4>1. j \in 3..Len(Append(s, b)) - 1 /\ j \in 1..Len(s) /\ j + 1 \in 1..Len(s)
        BY <2>1
      <4> QED
        BY <2>1, <4>1 DEF InSub
    <3>4. Telnet!Run[s] = [in |-> IF Len(s) > 2 /\ s[Len(s)] = "iac" THEN "sub iac" ELSE "sub", out |-> <<>>]
      BY <1>2, <2>4, <3>1, <3>2, <3>3 DEF InSub
    <3>5. Len(s) + 1 > 2
      BY <2>1, <2>6
    <3>6. CASE Len(s) > 2 /\ s[Len(s)] = "iac"
      <4>1. Telnet!Run[s] = [in |-> "sub iac", out |-> <<>>] /\ b # "iac"
        <5>1. Telnet!Run[s] = [in |-> "sub iac", out |-> <<>>]
          BY <3>4, <3>6
        <5> DEFINE here == Telnet!Run[s]
        <5>3. here = [in |-> "sub iac", out |-> <<>>]
          BY <5>1
        <5>4. here.in = "sub iac"
          <6> HIDE DEF here
          <6> QED
            BY <5>3
        <5>2. Telnet!Run[s].in = "sub iac"
          BY <5>4
        <5> QED
          BY <3>2, <5>1, <5>2
      <4>2. b # "se"
        <5>1. Len(s) \in 3..Len(Append(s, b)) - 1 /\ Len(s) \in 1..Len(s)
          BY <2>1, <3>6
        <5> QED
          BY <2>1, <3>6, <5>1 DEF InSub
      <4>3. Telnet!Step([in |-> "sub iac", out |-> <<>>], b) = [in |-> "sub", out |-> <<>>]
        BY <4>2 DEF Telnet!Step
      <4> QED
        BY <2>1, <2>3, <4>1, <4>3
    <3>7. CASE ~(Len(s) > 2 /\ s[Len(s)] = "iac")
      <4>1. Telnet!Run[s] = [in |-> "sub", out |-> <<>>]
        BY <3>4, <3>7
      <4>2. Telnet!Step([in |-> "sub", out |-> <<>>], b) = [in |-> IF b = "iac" THEN "sub iac" ELSE "sub", out |-> <<>>]
        BY DEF Telnet!Step
      <4> QED
        BY <2>1, <2>3, <3>5, <4>1, <4>2
    <3> QED
      BY <3>6, <3>7
  <2> QED
    <3>1. Len(s) = 1 \/ Len(s) > 1
      BY <2>1, <2>2, OneOrMore
    <3> QED
      BY <2>5, <2>6, <3>1
<1>3. \A s \in Seq(STRING), b \in STRING : s \in T => Append(s, b) \in T
  <2>1. \A s \in Seq(STRING), b \in STRING : Append(s, b) \in Seq(STRING)
    BY AppendProperties
  <2> HIDE DEF Goal
  <2> QED
    BY <1>2, <2>1
<1>4. \A s \in Seq(STRING) : s \in T
  <2> HIDE DEF T
  <2> QED
    BY <1>1, <1>3, AppendInduction
<1> QED
  BY <1>4

\* The first bytes of a stream, one by one.
LEMMA RunFirst ==
    ASSUME NEW s \in Seq(STRING)
    PROVE  /\ Len(s) >= 1 => Telnet!Run[Upto(s, 1)] = Telnet!Step(RunStart, s[1])
           /\ Len(s) >= 2 => Telnet!Run[Upto(s, 2)] = Telnet!Step(Telnet!Run[Upto(s, 1)], s[2])
           /\ Len(s) >= 3 => Telnet!Run[Upto(s, 3)] = Telnet!Step(Telnet!Run[Upto(s, 2)], s[3])
           /\ Upto(s, Len(s)) = s
<1>1. Len(s) \in Nat
  BY LenProperties
<1>2. ASSUME Len(s) >= 1 PROVE 1 \in 1..Len(s) /\ 1 - 1 = 0
  BY <1>1, <1>2
<1>3. ASSUME Len(s) >= 2 PROVE 2 \in 1..Len(s) /\ 2 - 1 = 1
  BY <1>1, <1>3
<1>4. ASSUME Len(s) >= 3 PROVE 3 \in 1..Len(s) /\ 3 - 1 = 2
  BY <1>1, <1>4
<1>5. Upto(s, Len(s)) = s
  BY SubSeqFull DEF Upto
<1>6. \A k \in 1..Len(s) : Telnet!Run[Upto(s, k)] = Telnet!Step(Telnet!Run[Upto(s, k - 1)], s[k])
  BY RunUpto
<1>7. ASSUME Len(s) >= 1 PROVE Telnet!Run[Upto(s, 1)] = Telnet!Step(RunStart, s[1])
  <2>1. Telnet!Run[Upto(s, 0)] = RunStart
    BY RunUpto
  <2> QED
    BY <1>2, <1>6, <1>7, <2>1
<1>8. ASSUME Len(s) >= 2 PROVE Telnet!Run[Upto(s, 2)] = Telnet!Step(Telnet!Run[Upto(s, 1)], s[2])
  BY <1>3, <1>6, <1>8
<1>9. ASSUME Len(s) >= 3 PROVE Telnet!Run[Upto(s, 3)] = Telnet!Step(Telnet!Run[Upto(s, 2)], s[3])
  BY <1>4, <1>6, <1>9
<1> QED
  BY <1>5, <1>7, <1>8, <1>9

\* A number above 1 is 2 or larger.
LEMMA OverOne == \A m \in Nat : m > 1 => m >= 2 /\ m # 1 /\ (~(m > 2) => m = 2)
OBVIOUS

\* The parts of a command.
LEMMA CommandSteps ==
    /\ Telnet!Step(RunStart, "iac") = [in |-> "command", out |-> <<>>]
    /\ \A b : b # "iac" => Telnet!Step(RunStart, b) = [in |-> "data", out |-> <<b>>]
    /\ Telnet!Step([in |-> "command", out |-> <<>>], "iac") = [in |-> "data", out |-> <<"iac">>]
    /\ \A b \in Telnet!Asking : Telnet!Step([in |-> "command", out |-> <<>>], b) = [in |-> "option", out |-> <<>>]
    /\ \A b : b # "iac" /\ b \notin Telnet!Asking /\ b # "sb" =>
         Telnet!Step([in |-> "command", out |-> <<>>], b) = [in |-> "data", out |-> <<>>]
    /\ \A b : Telnet!Step([in |-> "option", out |-> <<>>], b) = [in |-> "data", out |-> <<>>]
    /\ Telnet!Step([in |-> "sub iac", out |-> <<>>], "se") = [in |-> "data", out |-> <<>>]
<1>1. Telnet!Step(RunStart, "iac") = [in |-> "command", out |-> <<>>]
  BY DEF Telnet!Step, RunStart
<1>2. \A b : b # "iac" => Telnet!Step(RunStart, b) = [in |-> "data", out |-> <<b>>]
  <2> SUFFICES ASSUME NEW b, b # "iac" PROVE Telnet!Step(RunStart, b) = [in |-> "data", out |-> <<b>>]
    OBVIOUS
  <2>1. Append(<<>>, b) = <<b>>
    OBVIOUS
  <2>2. Telnet!Step(RunStart, b) = [in |-> "data", out |-> Append(<<>>, b)]
    BY DEF Telnet!Step, RunStart
  <2> QED
    BY <2>1, <2>2
<1>3. Telnet!Step([in |-> "command", out |-> <<>>], "iac") = [in |-> "data", out |-> <<"iac">>]
  BY DEF Telnet!Step
<1>4. \A b \in Telnet!Asking : Telnet!Step([in |-> "command", out |-> <<>>], b) = [in |-> "option", out |-> <<>>]
  BY DEF Telnet!Step, Telnet!Asking
<1>5. \A b : b # "iac" /\ b \notin Telnet!Asking /\ b # "sb" =>
         Telnet!Step([in |-> "command", out |-> <<>>], b) = [in |-> "data", out |-> <<>>]
  BY DEF Telnet!Step
<1>6. \A b : Telnet!Step([in |-> "option", out |-> <<>>], b) = [in |-> "data", out |-> <<>>]
  BY DEF Telnet!Step
<1>7. Telnet!Step([in |-> "sub iac", out |-> <<>>], "se") = [in |-> "data", out |-> <<>>]
  BY DEF Telnet!Step
<1> QED
  BY <1>1, <1>2, <1>3, <1>4, <1>5, <1>6, <1>7

\* Where a subnegotiation may end.
Ends(in) == {j \in 3..Len(in) - 1 : in[j] = "iac" /\ in[j + 1] = "se"}

\* The end of a subnegotiation, if it has come.
LEMMA FirstEnd ==
    ASSUME NEW in \in Seq(STRING), Ends(in) # {}, NEW m, m = Telnet!Min(Ends(in))
    PROVE  m \in Ends(in) /\ \A j \in Ends(in) : m <= j
<1>1. Ends(in) \subseteq Nat
  BY DEF Ends
<1>2. \E x \in Ends(in) : \A y \in Ends(in) : x =< y
  BY <1>1, Smallest
<1> QED
  BY <1>2 DEF Telnet!Min

\* What process takes first of what it has is data, or nothing, or has to wait for more.
LEMMA UnitRuns ==
    ASSUME NEW in \in Seq(STRING), in # <<>>
    PROVE  /\ Telnet!Unit(in) \in 0..Len(in)
           /\ ~Telnet!Escaped(in) /\ Telnet!Unit(in) = 0 => Telnet!Run[in].out = <<>>
           /\ ~Telnet!Escaped(in) /\ Telnet!Unit(in) # 0 =>
                Telnet!Run[Upto(in, Telnet!Unit(in))] = [in |-> "data", out |-> Telnet!UnitData(in)]
<1> DEFINE n == Telnet!Unit(in)
           Goal == /\ n \in 0..Len(in)
                   /\ ~Telnet!Escaped(in) /\ n = 0 => Telnet!Run[in].out = <<>>
                   /\ ~Telnet!Escaped(in) /\ n # 0 =>
                        Telnet!Run[Upto(in, n)] = [in |-> "data", out |-> Telnet!UnitData(in)]
<1>1. Len(in) \in Nat /\ Len(in) >= 1
  BY LenProperties, EmptySeq
<1>2. CASE in[1] # "iac"
  <2>1. n = 1 /\ Telnet!UnitData(in) = <<in[1]>>
    BY <1>2 DEF Telnet!Unit, Telnet!UnitData
  <2>2. Telnet!Run[Upto(in, 1)] = [in |-> "data", out |-> <<in[1]>>]
    BY <1>1, <1>2, RunFirst, CommandSteps
  <2> HIDE DEF n
  <2> QED
    BY <1>1, <2>1, <2>2 DEF n
<1>3. CASE in[1] = "iac" /\ Len(in) = 1
  <2>1. n = 0
    BY <1>3 DEF Telnet!Unit
  <2>2. Telnet!Run[Upto(in, 1)] = [in |-> "command", out |-> <<>>]
    BY <1>1, <1>3, RunFirst, CommandSteps
  <2>3. Upto(in, 1) = in
    BY <1>3, RunFirst
  <2>4. Telnet!Run[in] = [in |-> "command", out |-> <<>>]
    BY <2>2, <2>3
  <2>5. Telnet!Run[in].out = <<>>
    BY <2>4
  <2> HIDE DEF n
  <2> QED
    BY <1>1, <2>1, <2>5 DEF n
<1>4. CASE in[1] = "iac" /\ Len(in) > 1
  <2>0. Len(in) >= 2 /\ Len(in) # 1 /\ (~(Len(in) > 2) => Len(in) = 2)
    BY Zenon, <1>1, <1>4, OverOne
  <2>1. Len(in) >= 2 /\ Telnet!Run[Upto(in, 1)] = [in |-> "command", out |-> <<>>]
    <3>1. Telnet!Run[Upto(in, 1)] = Telnet!Step(RunStart, in[1])
      BY <1>1, RunFirst
    <3> QED
      BY <1>4, <2>0, <3>1, CommandSteps
  <2>2. Telnet!Run[Upto(in, 2)] = Telnet!Step([in |-> "command", out |-> <<>>], in[2])
    BY <2>1, RunFirst
  <2>3. n = IF in[2] \in Telnet!Asking THEN IF Len(in) > 2 THEN 3 ELSE 0
            ELSE IF in[2] = "sb" THEN IF Ends(in) = {} THEN 0 ELSE Telnet!Min(Ends(in)) + 1
            ELSE 2
    BY <1>4, <2>0 DEF Telnet!Unit, Ends
  <2> HIDE DEF n
  <2>4. CASE in[2] \in Telnet!Asking
    <3>1. Telnet!Run[Upto(in, 2)] = [in |-> "option", out |-> <<>>] /\ in[2] # "iac"
      BY <2>2, <2>4, CommandSteps DEF Telnet!Asking
    <3>2. CASE Len(in) > 2
      <4>1. n = 3 /\ 3 \in 0..Len(in) /\ Len(in) >= 3
        BY <1>1, <2>3, <2>4, <3>2
      <4>2. Telnet!Run[Upto(in, 3)] = [in |-> "data", out |-> <<>>]
        BY <3>1, <4>1, RunFirst, CommandSteps
      <4>3. Telnet!UnitData(in) = <<>>
        BY <1>4, <3>1 DEF Telnet!UnitData
      <4> QED
        BY <4>1, <4>2, <4>3 DEF n
    <3>3. CASE ~(Len(in) > 2)
      <4>1. n = 0 /\ Len(in) = 2
        BY <2>0, <2>3, <2>4, <3>3
      <4>2. Telnet!Run[in] = [in |-> "option", out |-> <<>>]
        BY <3>1, <4>1, RunFirst
      <4>3. Telnet!Run[in].out = <<>>
        BY <4>2
      <4> QED
        BY <1>1, <4>1, <4>3 DEF n
    <3> QED
      BY <3>2, <3>3
  <2>5. CASE in[2] = "sb"
    <3>1. in[2] \notin Telnet!Asking
      BY <2>5 DEF Telnet!Asking
    <3>2. CASE Ends(in) = {}
      <4>1. n = 0
        BY <2>3, <2>5, <3>1, <3>2
      <4>2. ASSUME ~Telnet!Escaped(in) PROVE Telnet!Run[in].out = <<>>
        <5>1. InSub(in)
          BY <1>4, <2>1, <2>5, <3>2, <4>2 DEF InSub, Ends
        <5> DEFINE here == Telnet!Run[in]
        <5>2. here = [in |-> IF Len(in) > 2 /\ in[Len(in)] = "iac" THEN "sub iac" ELSE "sub", out |-> <<>>]
          BY <5>1, SubRuns
        <5>3. here.out = <<>>
          <6> HIDE DEF here
          <6> QED
            BY <5>2
        <5> QED
          BY <5>3
      <4> QED
        BY <1>1, <4>1, <4>2 DEF n
    <3>3. CASE Ends(in) # {}
      <4> DEFINE m == Telnet!Min(Ends(in))
      <4>1. m \in Ends(in) /\ \A j \in Ends(in) : m <= j
        BY <3>3, FirstEnd
      <4>2. n = m + 1
        BY <2>3, <2>5, <3>1, <3>3
      <4> HIDE DEF m
      <4>3. m \in Nat /\ m >= 3 /\ m <= Len(in) - 1 /\ in[m] = "iac" /\ in[m + 1] = "se"
        BY <1>1, <4>1 DEF Ends
      <4>4. m \in 0..Len(in) /\ m + 1 \in 1..Len(in) /\ n \in 0..Len(in) /\ n # 0 /\ (m + 1) - 1 = m
            /\ 1 \in 1..m /\ 2 \in 1..m /\ m \in 1..m
        BY <1>1, <4>2, <4>3
      <4> DEFINE u == Upto(in, m)
      <4>5. u \in Seq(STRING) /\ Len(u) = m /\ \A i \in 1..m : u[i] = in[i]
        BY <4>4, SplitSeq
      <4>6. From(in, m) \in Seq(STRING) /\ Cat(u, From(in, m)) = in
        BY <4>4, SplitSeq
      <4> HIDE DEF u
      <4>7. ASSUME ~Telnet!Escaped(in)
            PROVE  Telnet!Run[Upto(in, n)] = [in |-> "data", out |-> Telnet!UnitData(in)]
        <5>1. ~Telnet!Escaped(u)
          BY <4>5, <4>6, <4>7, EscapedMore
        <5>2. ASSUME NEW j \in 3..Len(u) - 1 PROVE ~(u[j] = "iac" /\ u[j + 1] = "se")
          <6>1. j \in 1..m /\ j + 1 \in 1..m /\ j \in 3..Len(in) - 1 /\ ~(m <= j)
            BY <1>1, <4>3, <4>5
          <6>2. u[j] = in[j] /\ u[j + 1] = in[j + 1]
            BY <4>5, <6>1
          <6> QED
            BY <4>1, <6>1, <6>2 DEF Ends
        <5>3. u[1] = "iac" /\ u[2] = "sb" /\ u[m] = "iac"
          BY <1>4, <2>5, <4>3, <4>4, <4>5
        <5>4. InSub(u)
          BY <4>3, <4>5, <5>1, <5>2, <5>3 DEF InSub
        <5>5. Telnet!Run[u] = [in |-> "sub iac", out |-> <<>>]
          <6>1. Len(u) > 2 /\ u[Len(u)] = "iac"
            BY <4>3, <4>5, <5>3
          <6> QED
            BY <4>5, <5>4, <6>1, SubRuns
        <5>6. Telnet!Run[Upto(in, m + 1)] = Telnet!Step(Telnet!Run[Upto(in, m)], in[m + 1])
          BY <4>4, RunUpto
        <5>7. Telnet!Run[Upto(in, m + 1)] = [in |-> "data", out |-> <<>>]
          BY <4>3, <5>5, <5>6, CommandSteps DEF u
        <5>8. Telnet!UnitData(in) = <<>>
          BY <1>4, <2>5 DEF Telnet!UnitData
        <5> QED
          BY <4>2, <5>7, <5>8
      <4> QED
        BY <4>4, <4>7 DEF n
    <3> QED
      BY <3>2, <3>3
  <2>6. CASE in[2] \notin Telnet!Asking /\ in[2] # "sb"
    <3>1. n = 2 /\ 2 \in 0..Len(in) /\ n # 0
      BY <1>1, <2>1, <2>3, <2>6
    <3>2. Telnet!Run[Upto(in, 2)] = [in |-> "data", out |-> Telnet!UnitData(in)]
      <4>1. CASE in[2] = "iac"
        BY <1>4, <2>2, <4>1, CommandSteps DEF Telnet!UnitData
      <4>2. CASE in[2] # "iac"
        BY <1>4, <2>2, <2>6, <4>2, CommandSteps DEF Telnet!UnitData
      <4> QED
        BY <4>1, <4>2
    <3> QED
      BY <3>1, <3>2 DEF n
  <2> QED
    BY <2>4, <2>5, <2>6
<1>5. Len(in) = 1 \/ Len(in) > 1
  BY <1>1, OneOrMore
<1> QED
  BY <1>2, <1>3, <1>4, <1>5

\* What process gives.
Processed == [data : Seq(STRING), asks : Seq({"reply", "size"}), rest : Seq(STRING)]

\* A unit gives bytes, and makes the session answer or tell its size.
LEMMA UnitGives ==
    ASSUME NEW in \in Seq(STRING), in # <<>>
    PROVE  Telnet!UnitData(in) \in Seq(STRING) /\ Telnet!UnitAsks(in) \in Seq({"reply", "size"})
<1>1. in[1] \in STRING
  BY LenProperties, EmptySeq, ElementOfSeq
<1>2. <<>> \in Seq(STRING) /\ <<in[1]>> \in Seq(STRING)
  BY <1>1, EmptySeq, OneSeq
<1>3. Telnet!UnitData(in) \in Seq(STRING)
  BY <1>2 DEF Telnet!UnitData
<1>4. <<>> \in Seq({"reply", "size"}) /\ <<"reply">> \in Seq({"reply", "size"}) /\ <<"reply", "size">> \in Seq({"reply", "size"})
  OBVIOUS
<1>5. \A c, o : Telnet!Answer(c, o) = <<>> \/ Telnet!Answer(c, o) = <<"reply">> \/ Telnet!Answer(c, o) = <<"reply", "size">>
  BY DEF Telnet!Answer
<1>6. Telnet!UnitAsks(in) \in Seq({"reply", "size"})
  <2> HIDE <1>2
  <2>1. Telnet!UnitAsks(in) = <<>> \/ Telnet!UnitAsks(in) = <<"reply">> \/ Telnet!UnitAsks(in) = <<"reply", "size">>
    BY <1>5 DEF Telnet!UnitAsks
  <2> QED
    BY <1>4, <2>1
<1> QED
  BY <1>3, <1>6

\* What process does with a beginning of a command, and after a unit.
Waits(in) == in = <<>> \/ Telnet!Unit(in) = 0
Unchanged(in) == [data |-> <<>>, asks |-> <<>>, rest |-> in]
Joined(in, r) == [data |-> Telnet!UnitData(in) \o r.data, asks |-> Telnet!UnitAsks(in) \o r.asks, rest |-> r.rest]

\* What process gives, of the first byte or command and the rest.
LEMMA ProcessReads ==
    \A in \in Seq(STRING) :
      /\ Telnet!Process[in] \in Processed
      /\ Waits(in) => Telnet!Process[in] = Unchanged(in)
      /\ ~Waits(in) => Telnet!Process[in] = Joined(in, Telnet!Process[From(in, Telnet!Unit(in))])
<1> DEFINE halt == {in \in Seq(STRING) : Waits(in)}
           base == [in \in Seq(STRING) |-> Unchanged(in)]
           shorter == [in \in Seq(STRING) |-> From(in, Telnet!Unit(in))]
           join == [p \in Seq(STRING) \X Processed |-> Joined(p[1], p[2])]
<1>1. \A in \in Seq(STRING) \cap halt : base[in] \in Processed
  BY EmptySeq DEF Processed, Unchanged
<1>2. \A in \in Seq(STRING) \ halt : shorter[in] = From(in, Telnet!Unit(in)) /\ shorter[in] \in Seq(STRING) /\ Len(shorter[in]) < Len(in)
  <2> SUFFICES ASSUME NEW in \in Seq(STRING), ~Waits(in)
               PROVE  From(in, Telnet!Unit(in)) \in Seq(STRING) /\ Len(From(in, Telnet!Unit(in))) < Len(in)
    OBVIOUS
  <2>1. Len(in) \in Nat /\ Telnet!Unit(in) \in 0..Len(in) /\ Telnet!Unit(in) # 0
    BY LenProperties, UnitRuns DEF Waits
  <2>2. From(in, Telnet!Unit(in)) \in Seq(STRING) /\ Len(From(in, Telnet!Unit(in))) = Len(in) - Telnet!Unit(in)
    BY <2>1, SplitSeq
  <2> QED
    BY <2>1, <2>2
<1>3. \A in \in Seq(STRING) \ halt, v \in Processed : join[<<in, v>>] = Joined(in, v) /\ join[<<in, v>>] \in Processed
  <2> SUFFICES ASSUME NEW in \in Seq(STRING), ~Waits(in), NEW v \in Processed
               PROVE  join[<<in, v>>] = Joined(in, v) /\ Joined(in, v) \in Processed
    OBVIOUS
  <2>1. join[<<in, v>>] = Joined(in, v)
    OBVIOUS
  <2>2. v.data \in Seq(STRING) /\ v.asks \in Seq({"reply", "size"}) /\ v.rest \in Seq(STRING)
    BY DEF Processed
  <2>3. Telnet!UnitData(in) \in Seq(STRING) /\ Telnet!UnitAsks(in) \in Seq({"reply", "size"})
    BY UnitGives DEF Waits
  <2>4. Telnet!UnitData(in) \o v.data \in Seq(STRING) /\ Telnet!UnitAsks(in) \o v.asks \in Seq({"reply", "size"})
    BY <2>2, <2>3, ConcatProperties
  <2>5. Joined(in, v) \in Processed
    BY <2>2, <2>4 DEF Joined, Processed
  <2> QED
    BY <2>1, <2>5
<1>4. Processed # {}
  <2>1. Unchanged(<<>>) \in Processed
    BY EmptySeq DEF Processed, Unchanged
  <2> QED
    BY <2>1
<1>5. Grounded(STRING, Processed, halt, base, shorter, join)
  <2> HIDE DEF halt, base, shorter, join
  <2> QED
    BY <1>1, <1>2, <1>3, <1>4 DEF Grounded
<1>6. PICK f : Recurs(f, STRING, Processed, halt, base, shorter, join)
  <2> HIDE DEF halt, base, shorter, join
  <2> QED
    BY <1>5, SeqRecursion
<1>7. f \in [Seq(STRING) -> Processed] /\ f = [in \in Seq(STRING) |-> f[in]]
  BY <1>6 DEF Recurs
<1>8. ASSUME NEW in \in Seq(STRING)
      PROVE  f[in] = IF Waits(in) THEN Unchanged(in) ELSE Joined(in, f[From(in, Telnet!Unit(in))])
  <2>1. f[in] = IF in \in halt THEN base[in] ELSE join[<<in, f[shorter[in]]>>]
    <3> HIDE DEF halt, base, shorter, join
    <3> QED
      BY <1>6 DEF Recurs
  <2>2. CASE Waits(in)
    BY <2>1, <2>2
  <2>3. CASE ~Waits(in)
    <3>1. in \in Seq(STRING) \ halt
      BY <2>3
    <3>2. in \notin halt
      BY <2>3
    <3> HIDE DEF shorter, join, halt
    <3>3. f[shorter[in]] \in Processed
      BY <1>2, <1>7, <3>1
    <3> QED
      BY <1>2, <1>3, <2>1, <2>3, <3>1, <3>2, <3>3
  <2> QED
    BY <2>2, <2>3
<1>9. Telnet!Process = [in \in Seq(STRING) |-> IF Waits(in) THEN Unchanged(in)
                                               ELSE Joined(in, Telnet!Process[From(in, Telnet!Unit(in))])]
  <2> DEFINE Is(g) == g = [in \in Seq(STRING) |->
         IF in = <<>> \/ Telnet!Unit(in) = 0 THEN [data |-> <<>>, asks |-> <<>>, rest |-> in]
         ELSE [data |-> Telnet!UnitData(in) \o g[SubSeq(in, Telnet!Unit(in) + 1, Len(in))].data,
               asks |-> Telnet!UnitAsks(in) \o g[SubSeq(in, Telnet!Unit(in) + 1, Len(in))].asks,
               rest |-> g[SubSeq(in, Telnet!Unit(in) + 1, Len(in))].rest]]
  <2>1. \E g : Is(g)
    BY Zenon, <1>7, <1>8 DEF Waits, Unchanged, Joined, From
  <2>2. Is(Telnet!Process)
    BY Zenon, <2>1 DEF Telnet!Process
  <2> QED
    BY Zenon, <2>2 DEF Waits, Unchanged, Joined, From
<1>10. \A in \in Seq(STRING) :
         Telnet!Process[in] = IF Waits(in) THEN Unchanged(in)
                              ELSE Joined(in, Telnet!Process[From(in, Telnet!Unit(in))])
  BY <1>9
<1> DEFINE T == {in \in Seq(STRING) : Telnet!Process[in] \in Processed}
<1>11. ASSUME NEW in \in Seq(STRING), \A u \in Seq(STRING) : Len(u) < Len(in) => u \in T PROVE in \in T
  <2>1. CASE Waits(in)
    <3>1. Telnet!Process[in] = base[in] /\ in \in Seq(STRING) \cap halt
      BY <1>10, <2>1
    <3> HIDE DEF base, halt
    <3> QED
      BY <1>1, <3>1
  <2>2. CASE ~Waits(in)
    <3>1. in \in Seq(STRING) \ halt
      BY <2>2
    <3> DEFINE u == From(in, Telnet!Unit(in))
    <3>2. u \in Seq(STRING) /\ Len(u) < Len(in)
      <4> HIDE DEF halt, shorter
      <4> QED
        BY <1>2, <3>1
    <3>3. Telnet!Process[u] \in Processed
      <4> HIDE DEF u
      <4> QED
        BY <1>11, <3>2
    <3>4. Joined(in, Telnet!Process[u]) \in Processed
      <4> HIDE DEF halt, join, u
      <4> QED
        BY <1>3, <3>1, <3>3
    <3> QED
      BY <1>10, <2>2, <3>4
  <2> QED
    BY <2>1, <2>2
<1>12. \A in \in Seq(STRING) : in \in T
  <2> HIDE DEF T
  <2> QED
    BY <1>11, LengthInduction
<1> QED
  BY <1>10, <1>12

\* What is kept goes on as the stream it is the end of.
GoesOn(kept, s) ==
    /\ kept \in Seq(STRING) /\ s \in Seq(STRING) /\ ~Telnet!Escaped(kept)
    /\ Telnet!Run[kept].in = Telnet!Run[s].in /\ Telnet!Run[kept].out = <<>>

\* process gives the text of its input, and keeps what the input goes on from.
LEMMA ProcessRuns ==
    \A in \in Seq(STRING) : ~Telnet!Escaped(in) =>
      Telnet!Process[in].data = Telnet!Run[in].out /\ GoesOn(Telnet!Process[in].rest, in)
<1> DEFINE Goal(in) == ~Telnet!Escaped(in) =>
             Telnet!Process[in].data = Telnet!Run[in].out /\ GoesOn(Telnet!Process[in].rest, in)
           T == {in \in Seq(STRING) : Goal(in)}
<1>1. ~Telnet!Escaped(<<>>)
  BY DEF Telnet!Escaped
<1>2. ASSUME NEW in \in Seq(STRING), \A u \in Seq(STRING) : Len(u) < Len(in) => Goal(u) PROVE Goal(in)
  <2> SUFFICES ASSUME ~Telnet!Escaped(in)
               PROVE  Telnet!Process[in].data = Telnet!Run[in].out /\ GoesOn(Telnet!Process[in].rest, in)
    OBVIOUS
  <2>1. CASE Waits(in)
    <3>1. Telnet!Process[in] = Unchanged(in)
      BY <2>1, ProcessReads
    <3>2. Telnet!Process[in].data = <<>> /\ Telnet!Process[in].rest = in
      <4> DEFINE p == Telnet!Process[in]
      <4>1. p = [data |-> <<>>, asks |-> <<>>, rest |-> in]
        BY <3>1 DEF Unchanged
      <4>2. p.data = <<>> /\ p.rest = in
        <5> HIDE DEF p
        <5> QED
          BY <4>1
      <4> QED
        BY <4>2
    <3>3. Telnet!Run[in].out = <<>>
      <4>1. RunStart.out = <<>>
        BY DEF RunStart
      <4> QED
        BY <2>1, <4>1, RunReads, UnitRuns DEF Waits
    <3> QED
      BY <3>2, <3>3 DEF GoesOn
  <2>2. CASE ~Waits(in)
    <3> DEFINE n == Telnet!Unit(in)
               u == Upto(in, n)
               v == From(in, n)
    <3>1. in # <<>> /\ n \in 0..Len(in) /\ n # 0 /\ Len(in) \in Nat
      BY <2>2, LenProperties, UnitRuns DEF Waits
    <3>2. Telnet!Run[u] = [in |-> "data", out |-> Telnet!UnitData(in)]
      BY <3>1, UnitRuns
    <3>3. Telnet!Process[in] = Joined(in, Telnet!Process[v])
      BY <2>2, ProcessReads
    <3> HIDE DEF n
    <3>4. u \in Seq(STRING) /\ v \in Seq(STRING) /\ Len(v) = Len(in) - n /\ Cat(u, v) = in
      BY <3>1, SplitSeq
    <3> HIDE DEF u, v
    <3>5. Len(v) < Len(in)
      BY <3>1, <3>4
    <3>6. <<>> \in Seq(STRING) /\ Cat(<<>>, v) = v
      BY <3>4, EmptySeq, CatSeq
    <3>7. Telnet!Run[u].in = "data" /\ Telnet!Run[u].out = Telnet!UnitData(in)
      <4> DEFINE here == Telnet!Run[u]
      <4>1. here = [in |-> "data", out |-> Telnet!UnitData(in)]
        BY <3>2
      <4>2. here.in = "data" /\ here.out = Telnet!UnitData(in)
        <5> HIDE DEF here
        <5> QED
          BY <4>1
      <4> QED
        BY <4>2
    <3>8. Telnet!Run[<<>>].in = "data" /\ Telnet!Run[<<>>].out = <<>>
      <4>1. RunStart.in = "data" /\ RunStart.out = <<>>
        BY DEF RunStart
      <4> QED
        BY <4>1, RunReads
    <3>9. /\ Telnet!Run[v].in = Telnet!Run[in].in
          /\ Telnet!Run[in].out = Cat(Telnet!UnitData(in), Telnet!Run[v].out)
      <4>0. Telnet!Run[<<>>].in = Telnet!Run[u].in
        BY <3>7, <3>8
      <4>1. /\ Telnet!Run[Cat(<<>>, v)].in = Telnet!Run[Cat(u, v)].in
            /\ \E w \in Seq(STRING) : /\ Telnet!Run[Cat(<<>>, v)].out = Cat(Telnet!Run[<<>>].out, w)
                                      /\ Telnet!Run[Cat(u, v)].out = Cat(Telnet!Run[u].out, w)
        <5> DEFINE none == <<>>
        <5>1. none \in Seq(STRING) /\ Telnet!Run[none].in = Telnet!Run[u].in
          BY <3>6, <4>0
        <5>2. /\ Telnet!Run[Cat(none, v)].in = Telnet!Run[Cat(u, v)].in
              /\ \E w \in Seq(STRING) : /\ Telnet!Run[Cat(none, v)].out = Cat(Telnet!Run[none].out, w)
                                        /\ Telnet!Run[Cat(u, v)].out = Cat(Telnet!Run[u].out, w)
          <6> HIDE DEF none
          <6> QED
            BY <3>4, <5>1, RunOn
        <5> QED
          BY <5>2
      <4>2. PICK w \in Seq(STRING) : /\ Telnet!Run[v].out = Cat(<<>>, w)
                                     /\ Telnet!Run[in].out = Cat(Telnet!UnitData(in), w)
        BY <3>4, <3>6, <3>7, <3>8, <4>1
      <4>3. Cat(<<>>, w) = w
        BY CatSeq
      <4> QED
        BY <3>4, <3>6, <4>1, <4>2, <4>3
    <3>10. ~Telnet!Escaped(v)
      <4> DEFINE none == <<>>
      <4>1. none \in Seq(STRING) /\ Telnet!Run[none].in = Telnet!Run[u].in /\ ~Telnet!Escaped(none)
        BY <1>1, <3>6, <3>7, <3>8
      <4>2. Telnet!Escaped(Cat(none, v)) => Telnet!Escaped(Cat(u, v))
        <5> HIDE DEF none
        <5> QED
          BY <3>4, <4>1, EscapedOn
      <4> QED
        BY <3>4, <3>6, <4>2
    <3>11. Telnet!Process[v].data = Telnet!Run[v].out /\ GoesOn(Telnet!Process[v].rest, v)
      BY <1>2, <3>4, <3>5, <3>10
    <3>12. Telnet!Process[in].data = Cat(Telnet!UnitData(in), Telnet!Process[v].data)
           /\ Telnet!Process[in].rest = Telnet!Process[v].rest
      <4> DEFINE p == Telnet!Process[in]
      <4>1. p = [data |-> Telnet!UnitData(in) \o Telnet!Process[v].data,
                 asks |-> Telnet!UnitAsks(in) \o Telnet!Process[v].asks, rest |-> Telnet!Process[v].rest]
        BY <3>3 DEF Joined
      <4>2. p.data = Telnet!UnitData(in) \o Telnet!Process[v].data /\ p.rest = Telnet!Process[v].rest
        <5> HIDE DEF p
        <5> QED
          BY <4>1
      <4> QED
        BY <4>2 DEF Cat
    <3>13. GoesOn(Telnet!Process[in].rest, in)
      BY <3>9, <3>11, <3>12 DEF GoesOn
    <3> QED
      BY <3>9, <3>11, <3>12, <3>13
  <2> QED
    BY <2>1, <2>2
<1>3. \A in \in Seq(STRING) : in \in T
  <2>1. ASSUME NEW in \in Seq(STRING), \A u \in Seq(STRING) : Len(u) < Len(in) => u \in T PROVE in \in T
    <3> HIDE DEF Goal
    <3> QED
      BY <1>2, <2>1
  <2> HIDE DEF T
  <2> QED
    BY <2>1, LengthInduction
<1> QED
  BY <1>3

\* A chunk of a stream, after what was kept of those before it.
LEMMA ChunkRuns ==
    ASSUME NEW kept, NEW s, NEW p \in Seq(STRING), GoesOn(kept, s), ~Telnet!Escaped(Cat(s, p)),
           NEW r, r = Telnet!Process[Cat(kept, p)]
    PROVE  /\ r.data \in Seq(STRING) /\ Telnet!Run[s].out \in Seq(STRING)
           /\ Telnet!Run[Cat(s, p)].out = Cat(Telnet!Run[s].out, r.data)
           /\ GoesOn(r.rest, Cat(s, p))
<1> DEFINE in == Cat(kept, p)
<1>1. kept \in Seq(STRING) /\ s \in Seq(STRING) /\ in \in Seq(STRING) /\ Cat(s, p) \in Seq(STRING)
  BY CatSeq DEF GoesOn
<1>2. ~Telnet!Escaped(in)
  BY <1>1, EscapedOn DEF GoesOn
<1>3. PICK u \in Seq(STRING) : /\ Telnet!Run[in].out = Cat(Telnet!Run[kept].out, u)
                               /\ Telnet!Run[Cat(s, p)].out = Cat(Telnet!Run[s].out, u)
  BY <1>1, RunOn DEF GoesOn
<1>4. Telnet!Run[in].in = Telnet!Run[Cat(s, p)].in
  BY <1>1, RunOn DEF GoesOn
<1> HIDE DEF in
<1>5. Telnet!Run[in].out = u
  BY <1>3, CatSeq DEF GoesOn
<1>6. r.data = u /\ GoesOn(r.rest, in)
  BY <1>1, <1>2, <1>5, ProcessRuns DEF in
<1>7. GoesOn(r.rest, Cat(s, p))
  BY <1>1, <1>4, <1>6 DEF GoesOn
<1>8. Telnet!Run[s].out \in Seq(STRING)
  BY <1>1, RunReads DEF RunStates
<1> QED
  BY <1>3, <1>6, <1>7, <1>8

\* J joins the messages of a queue.
Joins(J, C) ==
    /\ J \in [Seq(Seq(C)) -> Seq(C)]
    /\ J[<<>>] = <<>>
    /\ \A q \in Seq(Seq(C)), m \in Seq(C) : J[Append(q, m)] = Cat(J[q], m)

\* There is a function that joins a sequence of sequences.
LEMMA JoinsExist == ASSUME NEW C PROVE \E J : Joins(J, C)
<1> DEFINE S == Seq(C)
           halt == {<<>>}
           base == [q \in Seq(S) |-> <<>>]
           shorter == [q \in Seq(S) |-> Telnet!Front(q)]
           join == [p \in Seq(S) \X S |-> Cat(p[2], Telnet!Last(p[1]))]
<1>1. \A q \in Seq(S) : base[q] \in S /\ base[q] = <<>>
  BY EmptySeq
<1>2. \A q \in Seq(S) \ halt : /\ shorter[q] = Telnet!Front(q) /\ shorter[q] \in Seq(S)
                               /\ Len(shorter[q]) < Len(q) /\ Telnet!Last(q) \in S
  <2> SUFFICES ASSUME NEW q \in Seq(S), q # <<>>
               PROVE  Telnet!Front(q) \in Seq(S) /\ Len(Telnet!Front(q)) < Len(q) /\ Telnet!Last(q) \in S
    OBVIOUS
  <2> HIDE DEF S
  <2>1. Len(q) \in Nat
    BY LenProperties
  <2> QED
    BY <2>1, FrontLast
<1>3. \A q \in Seq(S) \ halt, v \in S : join[<<q, v>>] = Cat(v, Telnet!Last(q)) /\ join[<<q, v>>] \in S
  <2> SUFFICES ASSUME NEW q \in Seq(S) \ halt, NEW v \in S PROVE Cat(v, Telnet!Last(q)) \in S
    OBVIOUS
  <2>1. Telnet!Last(q) \in S
    BY <1>2
  <2> QED
    BY <2>1, CatSeq
<1>4. S # {} /\ \A q \in Seq(S) : q \in halt <=> q = <<>>
  BY EmptySeq
<1> HIDE DEF S, halt, base, shorter, join
<1>5. Grounded(S, S, halt, base, shorter, join)
  BY <1>1, <1>2, <1>3, <1>4 DEF Grounded
<1>6. PICK J : Recurs(J, S, S, halt, base, shorter, join)
  BY <1>5, SeqRecursion
<1>7. J[<<>>] = <<>>
  BY <1>1, <1>4, <1>6, EmptySeq DEF Recurs
<1>8. ASSUME NEW q \in Seq(S), NEW m \in S PROVE J[Append(q, m)] = Cat(J[q], m)
  <2>1. Append(q, m) \in Seq(S) /\ Append(q, m) # <<>>
    BY AppendProperties
  <2>2. Telnet!Front(Append(q, m)) = q /\ Telnet!Last(Append(q, m)) = m
    BY FrontAppend
  <2>3. Append(q, m) \in Seq(S) \ halt /\ Append(q, m) \notin halt /\ J[q] \in S
    BY <1>4, <1>6, <2>1 DEF Recurs
  <2>4. J[Append(q, m)] = join[<<Append(q, m), J[shorter[Append(q, m)]]>>]
    BY <1>6, <2>3 DEF Recurs
  <2>5. shorter[Append(q, m)] = q
    BY <1>2, <2>2, <2>3
  <2> QED
    BY <1>3, <2>2, <2>3, <2>4, <2>5
<1> QED
  BY <1>6, <1>7, <1>8 DEF Joins, Recurs, S

\* FlattenSeq is that.
LEMMA FlattenJoins ==
    ASSUME NEW C, NEW J, Joins(J, C), NEW q \in Seq(Seq(C))
    PROVE  Telnet!FlattenSeq(q) = J[q]
<1>0. Len(q) \in Nat
  BY LenProperties
<1>1. CASE q = <<>>
  BY <1>1 DEF Telnet!FlattenSeq, Joins
<1>2. CASE q # <<>>
  <2>1. Len(q) > 0 /\ Len(q) \in 1..Len(q)
    BY <1>0, <1>2, EmptySeq
  <2> DEFINE Builds(f) == f = [i \in 1..Len(q) |-> IF i = 1 THEN q[i] ELSE f[i - 1] \o q[i]]
             g == [i \in 1..Len(q) |-> J[Upto(q, i)]]
  <2>2. ASSUME NEW i \in 1..Len(q)
        PROVE  g[i] = IF i = 1 THEN q[i] ELSE g[i - 1] \o q[i]
    <3>1. q[i] \in Seq(C)
      BY ElementOfSeq
    <3>2. i - 1 \in 0..Len(q) /\ i \in 1..Len(q) /\ 1 \in 1..Len(q)
      BY <1>0
    <3>3. Upto(q, i - 1) \in Seq(Seq(C))
      BY <3>2, SplitSeq
    <3>4. Upto(q, i) = Upto(q, i - 1) \o <<q[i]>>
      BY <3>2, SubSeqRecursiveSecond DEF Upto
    <3>5. Append(Upto(q, i - 1), q[i]) = Upto(q, i - 1) \o <<q[i]>>
      BY <3>1, <3>3, AppendIsConcat
    <3>6. J[Upto(q, i)] = Cat(J[Upto(q, i - 1)], q[i])
      <4> DEFINE u == Upto(q, i - 1)
                 m == q[i]
      <4>1. u \in Seq(Seq(C)) /\ m \in Seq(C) /\ Upto(q, i) = Append(u, m)
        BY <3>1, <3>3, <3>4, <3>5
      <4> HIDE DEF u, m
      <4>2. J[Append(u, m)] = Cat(J[u], m)
        BY Zenon, <4>1 DEF Joins
      <4> QED
        BY <4>1, <4>2 DEF u, m
    <3>7. CASE i = 1
      <4>1. i - 1 < 1 /\ 1 \in Int /\ i - 1 \in Int
        BY <3>2, <3>7
      <4>2. Upto(q, i - 1) = <<>>
        BY <4>1, SubSeqEmpty DEF Upto
      <4>3. J[Upto(q, i)] = q[i]
        BY <3>1, <3>6, <4>2, CatSeq DEF Joins
      <4> QED
        BY <3>7, <4>3
    <3>8. CASE i # 1
      <4>1. i - 1 \in 1..Len(q)
        BY <1>0, <3>8
      <4>2. g[i - 1] = J[Upto(q, i - 1)] /\ g[i] = J[Upto(q, i)]
        BY <4>1
      <4> HIDE DEF g
      <4> QED
        BY <3>6, <3>8, <4>2 DEF Cat
    <3> QED
      BY <3>7, <3>8
  <2>3. Builds(g)
    <3>1. g = [i \in 1..Len(q) |-> g[i]]
      OBVIOUS
    <3> HIDE DEF g
    <3> QED
      BY <2>2, <3>1
  <2>4. ASSUME NEW f, Builds(f) PROVE f[Len(q)] = g[Len(q)]
    <3> DEFINE wrong == {i \in 1..Len(q) : f[i] # g[i]}
    <3>1. SUFFICES ASSUME wrong # {} PROVE FALSE
      BY <2>1
    <3>2. wrong \subseteq Nat
      OBVIOUS
    <3>3. PICK i \in wrong : \A j \in wrong : j >= i
      <4> HIDE DEF wrong
      <4> QED
        BY <3>1, <3>2, Smallest
    <3>4. f[i] = IF i = 1 THEN q[i] ELSE f[i - 1] \o q[i]
      BY <2>4
    <3>5. CASE i = 1
      <4> HIDE DEF g
      <4> QED
        BY <2>2, <3>4, <3>5
    <3>6. CASE i # 1
      <4>1. i - 1 \in 1..Len(q) /\ ~(i - 1 >= i)
        BY <1>0, <3>6
      <4>2. f[i - 1] = g[i - 1]
        BY <3>3, <4>1
      <4> HIDE DEF g
      <4> QED
        BY <2>2, <3>4, <3>6, <4>2
    <3> QED
      BY <3>5, <3>6
  <2> HIDE DEF g
  <2>5. Telnet!FlattenSeq(q) = g[Len(q)]
    <3> DEFINE built == CHOOSE f : Builds(f)
    <3>1. Builds(built)
      BY Zenon, <2>3
    <3>2. Telnet!FlattenSeq(q) = built[Len(q)]
      <4>1. ~(Len(q) = 0)
        BY <2>1
      <4> QED
        BY Zenon, <4>1 DEF Telnet!FlattenSeq
    <3> HIDE DEF built
    <3> QED
      BY <2>4, <3>1, <3>2
  <2>6. Upto(q, Len(q)) = q
    BY SubSeqFull DEF Upto
  <2> QED
    BY <2>1, <2>5, <2>6 DEF g
<1> QED
  BY <1>1, <1>2

\* What a queue holds, when a message comes to its end.
LEMMA FlattenFacts ==
    ASSUME NEW C
    PROVE  /\ Telnet!FlattenSeq(<<>>) = <<>>
           /\ \A q \in Seq(Seq(C)) : Telnet!FlattenSeq(q) \in Seq(C)
           /\ \A q \in Seq(Seq(C)), m \in Seq(C) : Telnet!FlattenSeq(Append(q, m)) = Cat(Telnet!FlattenSeq(q), m)
<1>1. PICK J : Joins(J, C)
  BY JoinsExist
<1>2. \A q \in Seq(Seq(C)) : Telnet!FlattenSeq(q) = J[q]
  BY <1>1, FlattenJoins
<1>3. <<>> \in Seq(Seq(C)) /\ \A q \in Seq(Seq(C)), m \in Seq(C) : Append(q, m) \in Seq(Seq(C))
  BY EmptySeq, AppendProperties
<1> QED
  BY <1>1, <1>2, <1>3 DEF Joins

\* The consumer takes the message at the head of the queue.
LEMMA FlattenTail ==
    ASSUME NEW C
    PROVE  \A q \in Seq(Seq(C)) : q # <<>> =>
             Head(q) \in Seq(C) /\ Tail(q) \in Seq(Seq(C))
             /\ Telnet!FlattenSeq(q) = Cat(Head(q), Telnet!FlattenSeq(Tail(q)))
<1> DEFINE S == Seq(C)
           Goal(q) == q # <<>> => Telnet!FlattenSeq(q) = Cat(Head(q), Telnet!FlattenSeq(Tail(q)))
           T == {q \in Seq(S) : Goal(q)}
<1>1. <<>> \in T
  BY EmptySeq
<1>2. ASSUME NEW q \in Seq(S), NEW m \in S, Goal(q) PROVE Goal(Append(q, m))
  <2>1. Telnet!FlattenSeq(Append(q, m)) = Cat(Telnet!FlattenSeq(q), m)
    BY FlattenFacts
  <2>2. /\ Head(Append(q, m)) = IF q = <<>> THEN m ELSE Head(q)
        /\ Tail(Append(q, m)) = IF q = <<>> THEN <<>> ELSE Append(Tail(q), m)
    BY HeadTailAppend
  <2>3. CASE q = <<>>
    <3>1. Telnet!FlattenSeq(<<>>) = <<>> /\ Cat(<<>>, m) = m /\ Cat(m, <<>>) = m
      BY FlattenFacts, CatSeq
    <3> QED
      BY <2>1, <2>2, <2>3, <3>1
  <2>4. CASE q # <<>>
    <3>1. Head(q) \in S /\ Tail(q) \in Seq(S)
      BY <2>4, HeadTailProperties
    <3>2. Telnet!FlattenSeq(Tail(q)) \in S
      BY <3>1, FlattenFacts
    <3>3. Telnet!FlattenSeq(Append(Tail(q), m)) = Cat(Telnet!FlattenSeq(Tail(q)), m)
      BY <3>1, FlattenFacts
    <3>4. Cat(Cat(Head(q), Telnet!FlattenSeq(Tail(q))), m) = Cat(Head(q), Cat(Telnet!FlattenSeq(Tail(q)), m))
      BY <3>1, <3>2, CatAssociates
    <3> QED
      BY <1>2, <2>1, <2>2, <2>4, <3>3, <3>4
  <2> QED
    BY <2>3, <2>4
<1>3. \A q \in Seq(S) : q \in T
  <2>1. \A q \in Seq(S), m \in S : Append(q, m) \in Seq(S)
    BY AppendProperties
  <2>2. \A q \in Seq(S), m \in S : q \in T => Append(q, m) \in T
    <3> HIDE DEF Goal
    <3> QED
      BY <1>2, <2>1
  <2> HIDE DEF T, S
  <2> QED
    BY <1>1, <2>2, AppendInduction
<1>4. \A q \in Seq(S) : q # <<>> => Head(q) \in S /\ Tail(q) \in Seq(S)
  <2> HIDE DEF S
  <2> QED
    BY HeadTailProperties
<1> QED
  BY <1>3, <1>4

\* What the consumer has received or is to receive, of a screen, a queue and a message.
Got(scr, ch, m) == Cat(Cat(scr, Telnet!FlattenSeq(ch)), m)

\* Of what was read, the converter has made a text e into what was got; it keeps the bytes
\* that follow e, and the pump data after them and the beginning of a command.
Receives(t, a, kept, d, c, got) ==
    /\ a \in 0..Len(t.text) /\ GoesOn(kept, Upto(t.text, a)) /\ d \in Seq(STRING)
    /\ \E e : /\ Converts(t, c, e) /\ got = TextOf(t, e)
              /\ Cat(e, Cat(c.left, d)) = Telnet!Run[Upto(t.text, a)].out

\* What is made of the beginning of a text is the beginning of what is made of it.
LEMMA TextOn ==
    ASSUME NEW t, NEW c, NEW e, Converts(t, c, e), t.of \in {"utf-8", "gbk"}, NEW s \in Seq(STRING)
    PROVE  /\ TextOf(t, Cat(e, s)) = Cat(TextOf(t, e), TextOf(t, s))
           /\ TextOf(t, e) \in Seq(Characters) /\ TextOf(t, s) \in Seq(Characters)
           /\ t.of = "gbk" => Telnet!GbkTail[e] = 0
           /\ t.of = "utf-8" => Telnet!Valid(e)
<1>1. e \in Seq(STRING)
  BY DEF Converts
<1>2. t.of = "gbk" => Telnet!GbkTail[e] = 0
  BY <1>1, AsciiSame DEF Converts
<1>3. t.of = "utf-8" => Telnet!Valid(e)
  BY DEF Converts
<1>4. TextOf(t, Cat(e, s)) = Cat(TextOf(t, e), TextOf(t, s))
  <2>1. CASE t.of = "gbk"
    BY <1>1, <1>2, <2>1, GbkOn DEF TextOf
  <2>2. CASE t.of = "utf-8"
    BY <1>1, <1>3, <2>2, ValidOn DEF TextOf
  <2> QED
    BY <2>1, <2>2
<1>5. ASSUME NEW u \in Seq(STRING) PROVE TextOf(t, u) \in Seq(Characters)
  BY GbkReads, Utf8Reads DEF TextOf, Reads
<1> QED
  BY <1>1, <1>2, <1>3, <1>4, <1>5

\* Two cuts of a sequence.
LEMMA UptoMore ==
    ASSUME NEW S, NEW s \in Seq(S), NEW a \in 0..Len(s), NEW n \in Nat, a + n <= Len(s)
    PROVE  /\ a + n \in 0..Len(s) /\ SubSeq(s, a + 1, a + n) \in Seq(S)
           /\ Upto(s, a + n) = Cat(Upto(s, a), SubSeq(s, a + 1, a + n))
<1>1. Len(s) \in Nat
  BY LenProperties
<1>2. a + n \in 0..Len(s) /\ a + 1 \in Int /\ a + n \in Int /\ \A i \in a + 1..a + n : i \in 1..Len(s)
  BY <1>1
<1>3. SubSeq(s, a + 1, a + n) \in Seq(S)
  <2>1. \A i \in a + 1..a + n : s[i] \in S
    BY <1>2, ElementOfSeq
  <2> QED
    BY <1>2, <2>1, SubSeqProperties
<1>4. SubSeq(s, 1, a) \o SubSeq(s, a + 1, a + n) = SubSeq(s, 1, a + n)
  <2>1. 1 \in 1..Len(s) + 1 /\ a \in 1 - 1..Len(s) /\ a + n \in a..Len(s)
    BY <1>1
  <2> QED
    BY <2>1, ConcatAdjacentSubSeq
<1> QED
  BY <1>2, <1>3, <1>4 DEF Upto, Cat

\* What was read so far is free of escapes, and its data the beginning of what was written.
LEMMA ReadSoFar ==
    ASSUME NEW s \in Seq(STRING), ~Telnet!Escaped(s), NEW a \in 0..Len(s)
    PROVE  /\ ~Telnet!Escaped(Upto(s, a)) /\ Telnet!Run[Upto(s, a)].out \in Seq(STRING)
           /\ \E more \in Seq(STRING) : Telnet!Written(s) = Cat(Telnet!Run[Upto(s, a)].out, more)
<1> DEFINE u == Upto(s, a)
           v == From(s, a)
<1>1. u \in Seq(STRING) /\ v \in Seq(STRING) /\ Cat(u, v) = s
  BY SplitSeq
<1> HIDE DEF u, v
<1>2. ~Telnet!Escaped(u)
  BY <1>1, EscapedMore
<1>3. Telnet!Run[u].out \in Seq(STRING)
  BY <1>1, RunReads DEF RunStates
<1>4. \E more \in Seq(STRING) : Telnet!Run[Cat(u, v)].out = Cat(Telnet!Run[u].out, more)
  <2>1. ASSUME NEW w, w = u
        PROVE  \A x \in Seq(STRING) :
             /\ Telnet!Run[Cat(u, x)].in = Telnet!Run[Cat(w, x)].in
             /\ \E y \in Seq(STRING) : /\ Telnet!Run[Cat(u, x)].out = Cat(Telnet!Run[u].out, y)
                                       /\ Telnet!Run[Cat(w, x)].out = Cat(Telnet!Run[w].out, y)
    BY <1>1, <2>1, RunOn
  <2> QED
    BY <1>1, <2>1
<1> QED
  BY <1>1, <1>2, <1>3, <1>4 DEF u, Telnet!Written

\* pump: a chunk is read.
LEMMA ReadReceives ==
    ASSUME NEW t, t.text \in Seq(STRING), Telnet!Readable(t), NEW a, NEW kept, NEW c, NEW got,
           Receives(t, a, kept, <<>>, c, got), NEW n \in Nat, a + n <= Len(t.text),
           NEW r, r = Telnet!Process[kept \o SubSeq(t.text, a + 1, a + n)]
    PROVE  Receives(t, a + n, r.rest, r.data, c, got)
<1> DEFINE s == t.text
           p == SubSeq(s, a + 1, a + n)
           u == Upto(s, a)
<1>1. s \in Seq(STRING) /\ ~Telnet!Escaped(s) /\ a \in 0..Len(s) /\ GoesOn(kept, u)
  BY DEF Telnet!Readable, Receives
<1>2. PICK e : /\ Converts(t, c, e) /\ got = TextOf(t, e)
               /\ Cat(e, Cat(c.left, <<>>)) = Telnet!Run[u].out
  BY DEF Receives
<1>3. a + n <= Len(s) /\ r = Telnet!Process[Cat(kept, p)]
  BY DEF Cat
<1>4. a + n \in 0..Len(s) /\ p \in Seq(STRING) /\ Upto(s, a + n) = Cat(u, p)
  <2> HIDE DEF s
  <2> QED
    BY <1>1, <1>3, UptoMore
<1>5. ~Telnet!Escaped(Cat(u, p))
  <2>1. ~Telnet!Escaped(Upto(s, a + n))
    <3> HIDE DEF s
    <3> QED
      BY <1>1, <1>4, ReadSoFar
  <2> QED
    BY <1>4, <2>1
<1> HIDE DEF u, p, s
<1>6. /\ r.data \in Seq(STRING) /\ Telnet!Run[u].out \in Seq(STRING)
      /\ Telnet!Run[Cat(u, p)].out = Cat(Telnet!Run[u].out, r.data)
      /\ GoesOn(r.rest, Cat(u, p))
  BY <1>1, <1>3, <1>4, <1>5, ChunkRuns
<1>7. Cat(e, Cat(c.left, r.data)) = Telnet!Run[Upto(s, a + n)].out
  <2>1. e \in Seq(STRING) /\ c.left \in Seq(STRING) /\ Cat(c.left, <<>>) = c.left
    BY <1>2, CatSeq DEF Converts
  <2>2. Cat(Cat(e, c.left), r.data) = Cat(e, Cat(c.left, r.data))
    BY <1>6, <2>1, CatAssociates
  <2> QED
    BY <1>2, <1>4, <1>6, <2>1, <2>2
<1>8. GoesOn(r.rest, Upto(s, a + n)) /\ r.data \in Seq(STRING) /\ a + n \in 0..Len(s)
  BY <1>4, <1>6
<1> QED
  BY <1>2, <1>7, <1>8 DEF Receives, s

\* pump: the data of a chunk is decoded.
LEMMA DecodeReceives ==
    ASSUME NEW t, t.text \in Seq(STRING), t.of \in {"utf-8", "gbk"}, Telnet!Readable(t),
           NEW a, NEW kept, NEW p, NEW c, NEW got,
           Receives(t, a, kept, p, c, got), NEW d, d = Telnet!Decode(c, p)
    PROVE  Receives(t, a, kept, <<>>, d.conv, Cat(got, d.out)) /\ d.out \in Seq(Characters)
<1> DEFINE u == Upto(t.text, a)
<1>1. a \in 0..Len(t.text) /\ GoesOn(kept, u) /\ p \in Seq(STRING) /\ ~Telnet!Escaped(t.text)
  BY DEF Telnet!Readable, Receives
<1>2. PICK e : /\ Converts(t, c, e) /\ got = TextOf(t, e)
               /\ Cat(e, Cat(c.left, p)) = Telnet!Run[u].out
  BY DEF Receives
<1>3. PICK more \in Seq(STRING) : Telnet!Written(t.text) = Cat(Telnet!Run[u].out, more)
  BY <1>1, ReadSoFar
<1>4. PICK x : /\ Converts(t, d.conv, x) /\ Cat(x, d.conv.left) = Cat(e, Cat(c.left, p))
               /\ TextOf(t, x) = Cat(TextOf(t, e), d.out) /\ d.out \in Seq(Characters)
  BY <1>1, <1>2, <1>3, DecodeConverts
<1>5. Cat(d.conv.left, <<>>) = d.conv.left
  BY <1>4, CatSeq DEF Converts
<1>6. Cat(x, Cat(d.conv.left, <<>>)) = Telnet!Run[u].out /\ Cat(got, d.out) = TextOf(t, x)
  BY <1>2, <1>4, <1>5
<1>7. <<>> \in Seq(STRING)
  BY EmptySeq
<1> QED
  BY <1>1, <1>4, <1>6, <1>7 DEF Receives

\* What is kept of a text in UTF-8, after what is valid, is what is held back at its end.
LEMMA HoldsEnd ==
    ASSUME NEW e \in Seq(STRING), NEW s \in Seq(STRING), Telnet!Valid(e), Telnet!IsUTF8Prefix(s)
    PROVE  Telnet!HoldUTF8Tail(Cat(e, s)) >= 0
<1> DEFINE w == Cat(e, s)
<1>1. /\ w \in Seq(STRING) /\ Len(w) = Len(e) + Len(s) /\ Len(e) \in Nat /\ Len(s) \in Nat
      /\ Len(e) \in 0..Len(e) /\ Len(e) + Len(s) \in Nat
  BY LenProperties, CatSeq
<1>2. Upto(w, Len(e)) = e /\ From(w, Len(e)) = s
  <2>1. Upto(w, Len(e)) = Upto(e, Len(e)) /\ From(w, Len(e)) = Cat(From(e, Len(e)), s)
    BY <1>1, SplitCat
  <2>2. Upto(e, Len(e)) = e
    BY SubSeqFull DEF Upto
  <2>3. From(e, Len(e)) = <<>>
    <3>1. Len(e) < Len(e) + 1 /\ Len(e) + 1 \in Int /\ Len(e) \in Int
      BY <1>1
    <3> QED
      BY <3>1, SubSeqEmpty DEF From
  <2> QED
    BY <2>1, <2>2, <2>3, CatSeq
<1>3. ASSUME NEW k \in 1..Len(s) PROVE ~Telnet!Valid(Upto(w, Len(e) + k))
  <2>1. k \in 0..Len(s) /\ k \in Nat /\ k >= 1 /\ 1 \in 1..k /\ k <= Len(s)
    BY <1>1
  <2>2. Upto(w, Len(e) + k) = Cat(e, Upto(s, k)) /\ Upto(s, k) \in Seq(STRING)
    BY <2>1, UptoCat, SplitSeq
  <2>3. Telnet!IsUTF8Prefix(Upto(s, k))
    <3>1. Len(Upto(s, k)) = k /\ \A i \in 1..k : Upto(s, k)[i] = s[i]
      BY <2>1, SplitSeq
    <3>2. Len(s) \in 1..3 /\ Len(s) < Telnet!Utf8Length(s[1]) /\ Telnet!Utf8Length(s[1]) \in 0..3
          /\ \A j \in 2..Len(s) : s[j] = "C"
      BY Utf8Lengths DEF Telnet!IsUTF8Prefix
    <3>3. k \in 1..3 /\ k < Telnet!Utf8Length(s[1]) /\ \A j \in 2..k : j \in 1..k /\ j \in 2..Len(s)
      BY <2>1, <3>2
    <3>4. Upto(s, k)[1] = s[1] /\ \A j \in 2..k : Upto(s, k)[j] = "C"
      BY <2>1, <3>1, <3>2, <3>3
    <3> QED
      BY <3>1, <3>3, <3>4 DEF Telnet!IsUTF8Prefix
  <2>4. ~Telnet!Valid(Upto(s, k))
    BY <2>2, <2>3, PrefixNotValid
  <2> QED
    BY <2>2, <2>4, ValidOn
<1> HIDE DEF w
<1>4. PICK n \in 0..Len(w) :
             /\ Telnet!Valid(Upto(w, n)) /\ \A j \in n + 1..Len(w) : ~Telnet!Valid(Upto(w, j))
             /\ Telnet!HoldUTF8Tail(w) = IF Telnet!IsUTF8Prefix(From(w, n)) THEN n ELSE -1
  BY <1>1, HoldTail
<1>5. n = Len(e)
  <2>1. ~(n < Len(e))
    <3>1. SUFFICES ASSUME n < Len(e) PROVE FALSE
      OBVIOUS
    <3>2. Len(e) \in n + 1..Len(w)
      BY <1>1, <3>1
    <3> QED
      BY <1>2, <1>4, <3>2
  <2>2. ~(n > Len(e))
    <3>1. SUFFICES ASSUME n > Len(e) PROVE FALSE
      OBVIOUS
    <3>2. n - Len(e) \in 1..Len(s) /\ Len(e) + (n - Len(e)) = n
      BY <1>1, <3>1
    <3> QED
      BY <1>3, <1>4, <3>2
  <2> QED
    BY <1>1, <2>1, <2>2
<1>6. Telnet!HoldUTF8Tail(w) = n
  BY <1>2, <1>4, <1>5
<1> QED
  BY <1>1, <1>5, <1>6 DEF w

\* What was got is the beginning of the text, and at the end of what the peer sends all of it.
LEMMA ReceivesText ==
    ASSUME NEW t, t.text \in Seq(STRING), t.of \in {"utf-8", "gbk"}, Telnet!Readable(t),
           NEW a, NEW kept, NEW d, NEW c, NEW got, Receives(t, a, kept, d, c, got)
    PROVE  /\ Telnet!IsPrefix(got, Telnet!Text(t))
           /\ a = Len(t.text) /\ d = <<>> => got = Telnet!Text(t)
<1> DEFINE s == t.text
           w == Telnet!Written(s)
           u == Upto(s, a)
<1>1. a \in 0..Len(s) /\ d \in Seq(STRING) /\ ~Telnet!Escaped(s)
  BY DEF Telnet!Readable, Receives
<1>2. PICK e : Converts(t, c, e) /\ got = TextOf(t, e) /\ Cat(e, Cat(c.left, d)) = Telnet!Run[u].out
  BY DEF Receives
<1>3. PICK more \in Seq(STRING) : w = Cat(Telnet!Run[u].out, more)
  BY <1>1, ReadSoFar
<1>4. e \in Seq(STRING) /\ c.left \in Seq(STRING) /\ Cat(c.left, d) \in Seq(STRING)
  BY <1>1, <1>2, CatSeq DEF Converts
<1>5. Telnet!Text(t) = TextOf(t, w)
  BY DEF Telnet!Text, TextOf
<1>6. Telnet!IsPrefix(got, Telnet!Text(t))
  <2> DEFINE z == Cat(Cat(c.left, d), more)
  <2>1. z \in Seq(STRING) /\ w = Cat(e, z)
    <3> DEFINE y == Cat(c.left, d)
    <3>1. y \in Seq(STRING) /\ w = Cat(Cat(e, y), more)
      BY <1>2, <1>3, <1>4
    <3> HIDE DEF y, w
    <3>2. Cat(y, more) \in Seq(STRING) /\ Cat(Cat(e, y), more) = Cat(e, Cat(y, more))
      BY <1>4, <3>1, CatSeq, CatAssociates
    <3> QED
      BY <3>1, <3>2 DEF y
  <2> HIDE DEF z, w
  <2>2. /\ TextOf(t, Cat(e, z)) = Cat(got, TextOf(t, z))
        /\ got \in Seq(Characters) /\ TextOf(t, z) \in Seq(Characters)
    BY <1>2, <2>1, TextOn
  <2> DEFINE later == TextOf(t, z)
  <2>3. got \in Seq(Characters) /\ later \in Seq(Characters) /\ Telnet!Text(t) = Cat(got, later)
    BY <1>5, <2>1, <2>2
  <2> HIDE DEF later
  <2>4. Len(got) \in Nat /\ Len(later) \in Nat /\ Len(Cat(got, later)) = Len(got) + Len(later)
    BY <2>3, LenProperties, CatSeq
  <2>5. Len(got) \in 0..Len(got) /\ Len(got) <= Len(Cat(got, later))
    BY <2>4
  <2>6. Upto(Cat(got, later), Len(got)) = Upto(got, Len(got))
    BY <2>3, <2>5, SplitCat
  <2> QED
    BY <2>3, <2>5, <2>6 DEF Telnet!IsPrefix, Upto
<1>7. ASSUME a = Len(s), d = <<>> PROVE got = Telnet!Text(t)
  <2>1. u = s
    BY <1>7, SubSeqFull DEF Upto
  <2>2. w = Cat(e, c.left)
    <3>1. Cat(c.left, <<>>) = c.left
      BY <1>4, CatSeq
    <3> QED
      BY <1>2, <1>7, <2>1, <3>1 DEF Telnet!Written
  <2> HIDE DEF w
  <2>3. (t.of = "gbk" => Telnet!GbkTail[e] = 0) /\ (t.of = "utf-8" => Telnet!Valid(e))
    BY <1>2, <1>4, TextOn
  <2>4. c.left = <<>>
    <3>1. SUFFICES ASSUME c.left # <<>> PROVE FALSE
      OBVIOUS
    <3>2. CASE c.mode = "gbk" /\ t.of = "gbk" /\ Telnet!GbkTail[c.left] = Len(c.left)
      <4>1. Telnet!GbkTail[w] = 0
        BY <3>2 DEF Telnet!Readable, w
      <4>2. Len(c.left) = 0
        BY <1>4, <2>2, <2>3, <3>2, <4>1, GbkOn
      <4> QED
        BY <1>4, <3>1, <4>2, EmptySeq
    <3>3. CASE t.mode # "gbk" /\ Telnet!Valid(e) /\ Telnet!IsUTF8Prefix(c.left)
      <4>1. CASE t.of = "utf-8"
        <5>1. Telnet!Valid(w)
          BY <4>1 DEF Telnet!Readable, w
        <5>2. Telnet!Valid(c.left)
          BY <1>4, <2>2, <3>3, <5>1, ValidOn
        <5> QED
          BY <1>4, <3>3, <5>2, PrefixNotValid
      <4>2. CASE t.of = "gbk"
        <5>1. ~Telnet!Misleading(w)
          BY <3>3, <4>2 DEF Telnet!Readable, w
        <5>2. Telnet!HoldUTF8Tail(w) >= 0
          BY <1>4, <2>2, <3>3, HoldsEnd
        <5> QED
          BY <5>1, <5>2 DEF Telnet!Misleading
      <4> QED
        BY <4>1, <4>2
    <3> QED
      BY <1>2, <3>1, <3>2, <3>3 DEF Converts
  <2>5. w = e
    BY <1>4, <2>2, <2>4, CatSeq
  <2> QED
    BY <1>2, <1>5, <2>5
<1> QED
  BY <1>6, <1>7

\* The consumer's end.
TelnetQueued ==
    /\ screen \in Seq(Characters) /\ channel \in Seq(Seq(Characters)) /\ message \in Seq(Characters)
    /\ pumpAt \notin {"answer", "write"} => data = <<>>
    /\ pumpAt \notin {"send", "exit"} => message = <<>>

\* The text follows the stream, in a session with a peer that keeps to an encoding.
TelnetFollows ==
    /\ telnet \in Streams
    /\ Telnet!Readable(telnet) =>
         TelnetQueued /\ Receives(telnet, at, rest, data, conv, Got(screen, channel, message))

\* What a step of the text leaves alone, and of the pump, keeps it.
LEMMA TelnetFollowsOn ==
    ASSUME TelnetFollows, UNCHANGED <<telnet, at, rest, data, conv, message, screen, channel>>,
           pumpAt' = pumpAt \/ pumpAt' = "exit" \/ (pumpAt \in {"answer", "write"} /\ pumpAt' \in {"answer", "write"}),
           pumpAt' = "exit" /\ pumpAt # "exit" => pumpAt \in {"read", "send"}
    PROVE  TelnetFollows'
<1> SUFFICES ASSUME Telnet!Readable(telnet)
             PROVE  TelnetQueued' /\ Receives(telnet, at, rest, data, conv, Got(screen, channel, message))'
  BY DEF TelnetFollows, Telnet!Readable, Telnet!Written
<1>1. TelnetQueued /\ Receives(telnet, at, rest, data, conv, Got(screen, channel, message))
  BY DEF TelnetFollows
<1>2. TelnetQueued'
  BY <1>1 DEF TelnetQueued
<1>3. Receives(telnet, at, rest, data, conv, Got(screen, channel, message))'
  BY <1>1
<1> QED
  BY <1>2, <1>3

\* A message goes from the pump into the queue, or from the queue to the screen.
LEMMA GotMoves ==
    ASSUME NEW scr \in Seq(Characters), NEW ch \in Seq(Seq(Characters)), NEW m \in Seq(Characters)
    PROVE  /\ Got(scr, Append(ch, m), <<>>) = Got(scr, ch, m)
           /\ ch # <<>> => Got(Cat(scr, Head(ch)), Tail(ch), m) = Got(scr, ch, m)
           /\ Got(scr, ch, <<>>) \in Seq(Characters)
           /\ Cat(Got(scr, ch, <<>>), m) = Got(scr, ch, m)
<1> DEFINE q == Telnet!FlattenSeq(ch)
<1>1. q \in Seq(Characters) /\ Append(ch, m) \in Seq(Seq(Characters)) /\ Telnet!FlattenSeq(Append(ch, m)) = Cat(q, m)
  BY FlattenFacts, AppendProperties
<1> HIDE DEF q
<1>2. /\ Cat(q, m) \in Seq(Characters) /\ Cat(scr, q) \in Seq(Characters)
      /\ Cat(Cat(scr, q), m) = Cat(scr, Cat(q, m))
  BY <1>1, CatSeq, CatAssociates
<1>3. Cat(scr, Cat(q, m)) \in Seq(Characters) /\ Cat(Cat(scr, q), <<>>) = Cat(scr, q)
  BY <1>2, CatSeq
<1>4. Cat(Cat(scr, Cat(q, m)), <<>>) = Cat(scr, Cat(q, m))
  BY <1>3, CatSeq
<1>5. Got(scr, Append(ch, m), <<>>) = Got(scr, ch, m)
  BY <1>1, <1>2, <1>4 DEF Got, q
<1>6. Got(scr, ch, <<>>) \in Seq(Characters) /\ Cat(Got(scr, ch, <<>>), m) = Got(scr, ch, m)
  BY <1>2, <1>3 DEF Got, q
<1>7. ASSUME ch # <<>> PROVE Got(Cat(scr, Head(ch)), Tail(ch), m) = Got(scr, ch, m)
  <2>1. Head(ch) \in Seq(Characters) /\ Tail(ch) \in Seq(Seq(Characters)) /\ q = Cat(Head(ch), Telnet!FlattenSeq(Tail(ch)))
    BY <1>7, FlattenTail DEF q
  <2> DEFINE z == Telnet!FlattenSeq(Tail(ch))
  <2>2. z \in Seq(Characters)
    BY <2>1, FlattenFacts
  <2> HIDE DEF z
  <2>3. Cat(Cat(scr, Head(ch)), z) = Cat(scr, Cat(Head(ch), z))
    BY <2>1, <2>2, CatAssociates
  <2> QED
    BY <2>1, <2>3 DEF Got, q, z
<1> QED
  BY <1>5, <1>6, <1>7

\* Nothing was read or received at first.
LEMMA TelnetInitFollows == Telnet!Init => TelnetFollows
<1> SUFFICES ASSUME Telnet!Init PROVE TelnetFollows
  OBVIOUS
<1>1. /\ telnet \in Streams /\ at = 0 /\ rest = <<>> /\ data = <<>> /\ message = <<>>
      /\ conv = [mode |-> telnet.mode, left |-> <<>>] /\ screen = <<>> /\ channel = <<>> /\ pumpAt = "read"
  BY DEF Telnet!Init, Telnet!NewConverter
<1>2. telnet.text \in Seq(STRING) /\ telnet.mode \in {"auto", "utf-8", "gbk"} /\ telnet.of \in {"utf-8", "gbk"}
  BY <1>1, StreamsAssumption DEF StreamsAssumption
<1> SUFFICES ASSUME Telnet!Readable(telnet)
             PROVE  TelnetQueued /\ Receives(telnet, at, rest, data, conv, Got(screen, channel, message))
  BY <1>1 DEF TelnetFollows
<1>3. TelnetQueued
  BY <1>1, EmptySeq DEF TelnetQueued
<1>4. <<>> \in Seq(STRING) /\ <<>> \in Seq(Characters) /\ <<>> \in Seq(Seq(Characters)) /\ Len(<<>>) = 0
  BY EmptySeq
<1>5. conv.mode = telnet.mode /\ conv.left = <<>>
  <2> HIDE <1>2
  <2> QED
    BY <1>1
<1>6. Converts(telnet, conv, <<>>)
  <2>1. Telnet!GbkTail[<<>>] = 0 /\ Telnet!Valid(<<>>)
    BY TailReads, ValidFirst
  <2>2. Ascii(<<>>)
    BY <1>4 DEF Ascii
  <2>3. telnet.mode = "gbk" => telnet.of = "gbk"
    BY DEF Telnet!Readable
  <2> QED
    BY <1>4, <1>5, <2>1, <2>2, <2>3 DEF Converts
<1>7. Got(screen, channel, message) = <<>>
  BY <1>1, <1>4, FlattenFacts, CatSeq DEF Got
<1>8. TextOf(telnet, <<>>) = <<>>
  BY GbkReads, Utf8Reads DEF TextOf, Reads
<1>9. Upto(telnet.text, 0) = <<>>
  BY SubSeqEmpty DEF Upto
<1>10. GoesOn(<<>>, <<>>) /\ Telnet!Run[<<>>].out = <<>>
  <2>1. RunStart.out = <<>>
    BY DEF RunStart
  <2>2. Telnet!Run[<<>>] = RunStart
    BY RunReads
  <2>3. Telnet!Run[<<>>].out = <<>>
    BY <2>1, <2>2
  <2>4. ~Telnet!Escaped(<<>>)
    BY DEF Telnet!Escaped
  <2> QED
    BY <1>4, <2>3, <2>4 DEF GoesOn
<1>11. Cat(<<>>, Cat(<<>>, <<>>)) = <<>>
  BY <1>4, CatSeq
<1>12. at \in 0..Len(telnet.text)
  BY <1>1, <1>2, LenProperties
<1>13. GoesOn(rest, Upto(telnet.text, at)) /\ data \in Seq(STRING)
  BY <1>1, <1>4, <1>9, <1>10
<1>14. Cat(<<>>, Cat(conv.left, data)) = Telnet!Run[Upto(telnet.text, at)].out
  BY <1>1, <1>5, <1>9, <1>10, <1>11
<1>15. Receives(telnet, at, rest, data, conv, Got(screen, channel, message))
  BY <1>6, <1>7, <1>8, <1>12, <1>13, <1>14 DEF Receives
<1> QED
  BY <1>3, <1>15

\* pump.
LEMMA TelnetPumpFollows ==
    ASSUME TelnetFollows, TelnetPumpMoves
    PROVE  TelnetFollows'
<1>1. telnet' = telnet /\ telnet \in Streams
  BY DEF TelnetPumpMoves, Telnet!PumpRead, Telnet!PumpAnswers, Telnet!PumpWritten, Telnet!PumpDecodes,
         Telnet!PumpSend, Telnet!PumpStop, Telnet!PumpEnds, Telnet!readVars, TelnetFollows
<1>2. telnet.text \in Seq(STRING) /\ telnet.of \in {"utf-8", "gbk"}
  BY <1>1, StreamsAssumption DEF StreamsAssumption
<1>3. CASE Telnet!PumpAnswers \/ Telnet!PumpWritten \/ Telnet!PumpStop \/ Telnet!PumpEnds
  <2>1. UNCHANGED <<telnet, at, rest, data, conv, message, screen, channel>>
    BY <1>3 DEF Telnet!PumpAnswers, Telnet!PumpWritten, Telnet!PumpStop, Telnet!PumpEnds, Telnet!readVars,
                Telnet!chanVars, Telnet!consumerVars
  <2>2. /\ pumpAt' = pumpAt \/ pumpAt' = "exit" \/ (pumpAt \in {"answer", "write"} /\ pumpAt' \in {"answer", "write"})
        /\ pumpAt' = "exit" /\ pumpAt # "exit" => pumpAt \in {"read", "send"}
    BY <1>3 DEF Telnet!PumpAnswers, Telnet!PumpWritten, Telnet!PumpStop, Telnet!PumpEnds
  <2> QED
    BY <2>1, <2>2, TelnetFollowsOn
<1>4. ASSUME ~Telnet!Readable(telnet) PROVE TelnetFollows'
  <2>1. ~Telnet!Readable(telnet)'
    BY <1>1, <1>4 DEF Telnet!Readable, Telnet!Written
  <2> QED
    BY <1>1, <2>1 DEF TelnetFollows
<1>5. ASSUME Telnet!Readable(telnet), TelnetQueued',
             Receives(telnet, at', rest', data', conv', Got(screen', channel', message'))
      PROVE  TelnetFollows'
  <2>1. Receives(telnet, at, rest, data, conv, Got(screen, channel, message))'
    BY <1>1, <1>5
  <2> QED
    BY <1>1, <1>5, <2>1 DEF TelnetFollows
<1>6. ASSUME Telnet!Readable(telnet)
      PROVE  TelnetQueued /\ Receives(telnet, at, rest, data, conv, Got(screen, channel, message))
  BY <1>6 DEF TelnetFollows
<1>7. ASSUME NEW n \in 1..Len(telnet.text), Telnet!PumpRead(n), Telnet!Readable(telnet) PROVE TelnetFollows'
  <2>1. /\ pumpAt = "read" /\ pumpAt' = "answer" /\ at + n <= Len(telnet.text) /\ at' = at + n
        /\ UNCHANGED <<conv, message, screen, channel>>
    BY <1>7 DEF Telnet!PumpRead, Telnet!chanVars, Telnet!consumerVars
  <2> DEFINE r == Telnet!Process[rest \o SubSeq(telnet.text, at + 1, at + n)]
  <2>2. rest' = r.rest /\ data' = r.data
    BY <1>7 DEF Telnet!PumpRead
  <2>3. TelnetQueued /\ data = <<>> /\ message = <<>>
    BY <1>6, <1>7, <2>1 DEF TelnetQueued
  <2>4. Receives(telnet, at, rest, <<>>, conv, Got(screen, channel, message))
    BY <1>6, <1>7, <2>3
  <2>5. n \in Nat
    OBVIOUS
  <2>6. Receives(telnet, at + n, r.rest, r.data, conv, Got(screen, channel, message))
    <3> HIDE DEF r
    <3> QED
      BY <1>2, <1>7, <2>1, <2>4, <2>5, ReadReceives DEF r
  <2> HIDE DEF r
  <2>7. Receives(telnet, at', rest', data', conv', Got(screen', channel', message'))
    BY <2>1, <2>2, <2>6
  <2>8. TelnetQueued'
    BY <2>1, <2>3 DEF TelnetQueued
  <2> QED
    BY <1>5, <1>7, <2>7, <2>8
<1>8. CASE Telnet!PumpDecodes /\ Telnet!Readable(telnet)
  <2>1. pumpAt = "answer" /\ data' = <<>> /\ UNCHANGED <<at, rest, screen, channel>>
    BY <1>8 DEF Telnet!PumpDecodes, Telnet!chanVars, Telnet!consumerVars
  <2>2. TelnetQueued /\ message = <<>> /\ Receives(telnet, at, rest, data, conv, Got(screen, channel, message))
    BY <1>6, <1>8, <2>1 DEF TelnetQueued
  <2>3. CASE data = <<>>
    <3>1. pumpAt' = "read" /\ UNCHANGED <<conv, message>>
      BY <1>8, <2>3 DEF Telnet!PumpDecodes
    <3>2. TelnetQueued'
      BY <2>1, <2>2, <3>1 DEF TelnetQueued
    <3>3. Receives(telnet, at', rest', data', conv', Got(screen', channel', message'))
      BY <2>1, <2>2, <2>3, <3>1
    <3> QED
      BY <1>5, <1>8, <3>2, <3>3
  <2>4. CASE data # <<>>
    <3> DEFINE d == Telnet!Decode(conv, data)
    <3>1. conv' = d.conv /\ message' = d.out /\ pumpAt' = "send"
      BY <1>8, <2>4 DEF Telnet!PumpDecodes
    <3>2. /\ Receives(telnet, at, rest, <<>>, d.conv, Cat(Got(screen, channel, <<>>), d.out))
          /\ d.out \in Seq(Characters)
      <4>1. Receives(telnet, at, rest, data, conv, Got(screen, channel, <<>>))
        BY <2>2
      <4> HIDE DEF d
      <4> QED
        BY <1>2, <1>8, <4>1, DecodeReceives DEF d
    <3> HIDE DEF d
    <3>3. TelnetQueued'
      BY <2>1, <2>2, <3>1, <3>2 DEF TelnetQueued
    <3>4. Cat(Got(screen, channel, <<>>), d.out) = Got(screen, channel, d.out)
      BY <2>2, <3>2, GotMoves DEF TelnetQueued
    <3>5. Receives(telnet, at', rest', data', conv', Got(screen', channel', message'))
      BY <2>1, <3>1, <3>2, <3>4
    <3> QED
      BY <1>5, <1>8, <3>3, <3>5
  <2> QED
    BY <2>3, <2>4
<1>9. CASE Telnet!PumpSend /\ Telnet!Readable(telnet)
  <2>1. /\ pumpAt = "send" /\ channel' = Append(channel, message) /\ message' = <<>> /\ pumpAt' = "read"
        /\ UNCHANGED <<at, rest, data, conv, screen>>
    BY <1>9 DEF Telnet!PumpSend, Telnet!consumerVars
  <2>2. TelnetQueued /\ Receives(telnet, at, rest, data, conv, Got(screen, channel, message))
    BY <1>6, <1>9
  <2>3. TelnetQueued'
    BY <2>1, <2>2, EmptySeq, AppendProperties DEF TelnetQueued
  <2>4. Got(screen', channel', message') = Got(screen, channel, message)
    BY <2>1, <2>2, GotMoves DEF TelnetQueued
  <2>5. Receives(telnet, at', rest', data', conv', Got(screen', channel', message'))
    BY <2>1, <2>2, <2>4
  <2> QED
    BY <1>5, <1>9, <2>3, <2>5
<1> QED
  BY <1>3, <1>4, <1>7, <1>8, <1>9 DEF TelnetPumpMoves

\* The methods, the consumer and the network.
LEMMA TelnetOthersFollow ==
    ASSUME TelnetFollows, [Telnet!Next]_(Telnet!vars), ~TelnetPumpMoves
    PROVE  TelnetFollows'
<1>1. ASSUME NEW c \in Callers, Telnet!Call(c) \/ Telnet!CallReturns(c) PROVE TelnetFollows'
  <2>1. UNCHANGED <<telnet, at, rest, data, conv, message, screen, channel, pumpAt>>
    BY <1>1 DEF Telnet!Call, Telnet!CallReturns, Telnet!readVars, Telnet!chanVars, Telnet!consumerVars
  <2> QED
    BY <2>1, TelnetFollowsOn
<1>2. ASSUME NEW c \in TelnetAll,
             Telnet!CloseBegin(c) \/ Telnet!CloseMark(c) \/ Telnet!CloseConn(c) \/ Telnet!CloseOutput(c) \/ Telnet!CloseWaited(c)
      PROVE  TelnetFollows'
  <2>1. UNCHANGED <<telnet, at, rest, data, conv, message, screen, channel, pumpAt>>
    BY <1>2 DEF Telnet!CloseBegin, Telnet!CloseMark, Telnet!CloseConn, Telnet!CloseOutput, Telnet!CloseWaited,
                Telnet!readVars, Telnet!chanVars, Telnet!consumerVars
  <2> QED
    BY <2>1, TelnetFollowsOn
<1>3. ASSUME (\E reconnected \in BOOLEAN : Telnet!Ended(reconnected)) \/ Telnet!LinkLost \/ UNCHANGED Telnet!vars
      PROVE  TelnetFollows'
  <2>1. UNCHANGED <<telnet, at, rest, data, conv, message, screen, channel, pumpAt>>
    BY <1>3 DEF Telnet!Ended, Telnet!LinkLost, Telnet!vars, Telnet!readVars, Telnet!chanVars, Telnet!consumerVars
  <2> QED
    BY <2>1, TelnetFollowsOn
<1>4. CASE Telnet!Consume
  <2>1. UNCHANGED <<telnet, at, rest, data, conv, message, pumpAt>>
    BY <1>4 DEF Telnet!Consume, Telnet!readVars
  <2>2. CASE channel = <<>>
    <3>1. UNCHANGED <<screen, channel>>
      BY <1>4, <2>2 DEF Telnet!Consume
    <3> QED
      BY <2>1, <3>1, TelnetFollowsOn
  <2>3. CASE channel # <<>>
    <3>1. screen' = Cat(screen, Head(channel)) /\ channel' = Tail(channel)
      BY <1>4, <2>3 DEF Telnet!Consume, Cat
    <3>2. ASSUME Telnet!Readable(telnet)
          PROVE  (TelnetQueued /\ Receives(telnet, at, rest, data, conv, Got(screen, channel, message)))'
      <4>1. TelnetQueued /\ Receives(telnet, at, rest, data, conv, Got(screen, channel, message))
        BY <3>2 DEF TelnetFollows
      <4>2. Head(channel) \in Seq(Characters) /\ Tail(channel) \in Seq(Seq(Characters))
        BY <2>3, <4>1, FlattenTail DEF TelnetQueued
      <4>3. Cat(screen, Head(channel)) \in Seq(Characters)
        BY <4>1, <4>2, CatSeq DEF TelnetQueued
      <4>4. TelnetQueued'
        BY <2>1, <3>1, <4>1, <4>2, <4>3 DEF TelnetQueued
      <4>5. Got(screen', channel', message) = Got(screen, channel, message)
        BY <2>3, <3>1, <4>1, GotMoves DEF TelnetQueued
      <4>6. Receives(telnet, at, rest, data, conv, Got(screen, channel, message))'
        BY <2>1, <4>1, <4>5
      <4> QED
        BY <4>4, <4>6
    <3>3. Telnet!Readable(telnet)' => Telnet!Readable(telnet)
      BY <2>1 DEF Telnet!Readable, Telnet!Written
    <3> QED
      BY <2>1, <3>2, <3>3 DEF TelnetFollows
  <2> QED
    BY <2>2, <2>3
<1> QED
  BY Zenon, TelnetStepKinds, <1>1, <1>2, <1>3, <1>4

\* telnetcore/session.go process, enc.go Decode: the text of a stream of Telnet commands and data in
\* UTF-8 or GBK arrives whole and in order, however it is cut into reads.
THEOREM TelnetTextIsWhole == Telnet!Spec => []Telnet!TextIsWhole
<1>1. TelnetFollows /\ [Telnet!Next]_(Telnet!vars) => TelnetFollows'
  BY Zenon, TelnetPumpFollows, TelnetOthersFollow
<1>2. TelnetFollows => Telnet!TextIsWhole
  <2> SUFFICES ASSUME TelnetFollows, Telnet!Readable(telnet)
               PROVE  /\ Telnet!IsPrefix(Got(screen, channel, message), Telnet!Text(telnet))
                      /\ pumpAt = "read" /\ at = Len(telnet.text) => Got(screen, channel, message) = Telnet!Text(telnet)
    BY Zenon DEF Telnet!TextIsWhole, Got, Cat
  <2>1. TelnetQueued /\ Receives(telnet, at, rest, data, conv, Got(screen, channel, message)) /\ telnet \in Streams
    BY DEF TelnetFollows
  <2>2. telnet.text \in Seq(STRING) /\ telnet.of \in {"utf-8", "gbk"}
    BY <2>1, StreamsAssumption DEF StreamsAssumption
  <2>3. pumpAt = "read" => data = <<>>
    BY <2>1 DEF TelnetQueued
  <2> QED
    BY <2>1, <2>2, <2>3, ReceivesText
<1> QED
  BY <1>1, <1>2, TelnetInitFollows, PTL DEF Telnet!Spec

-----------------------------------------------------------------------------

\* What a call may send.
CommandLines == Commands!AnyInput \cup {<<>>}
CommandSends == [step : {"idle", "record", "send"}, input : CommandLines]

\* A call that goes on keeps its input, and one that is over has none.
LEMMA CommandSendsType ==
    ASSUME NEW a \in Typists, NEW s \in [Typists -> CommandSends]
    PROVE  [s[a] EXCEPT !.step = "send"] \in CommandSends /\ Commands!Idle \in CommandSends
<1>1. <<>> \in CommandLines
  BY Zenon DEF CommandLines
<1> HIDE DEF CommandLines
<1>2. Commands!Idle \in CommandSends
  BY <1>1 DEF Commands!Idle, CommandSends
<1>3. [s[a] EXCEPT !.step = "send"] \in CommandSends
  BY DEF CommandSends
<1> QED
  BY <1>2, <1>3

\* SshSend, recordInput and Send.
LEMMA CommandNextTypes == Commands!TypeOK /\ [Commands!Next]_(Commands!vars) => Commands!TypeOK'
<1> SUFFICES ASSUME Commands!TypeOK, [Commands!Next]_(Commands!vars) PROVE Commands!TypeOK'
  OBVIOUS
<1>1. sends \in [Typists -> CommandSends]
  BY DEF Commands!TypeOK, CommandSends, CommandLines
<1>2. sends' \in [Typists -> CommandSends] => sends' \in [Typists -> [step : {"idle", "record", "send"}, input : Commands!AnyInput \cup {<<>>}]]
  BY DEF CommandSends, CommandLines
<1>3. ASSUME NEW a \in Typists, Commands!RecordInput(a) PROVE Commands!TypeOK'
  <2> DEFINE s == [sends[a] EXCEPT !.step = "send"]
  <2>3. s \in CommandSends /\ Commands!Idle \in CommandSends
    BY <1>1, CommandSendsType
  <2>4. sends' = [sends EXCEPT ![a] = Commands!Idle] \/ sends' = [sends EXCEPT ![a] = s]
    BY <1>3 DEF Commands!RecordInput
  <2>1. sends' \in [Typists -> CommandSends]
    BY <1>1, <2>3, <2>4
  <2>2. odd' \in BOOLEAN /\ UNCHANGED <<accepting, logFile, total>>
    BY <1>3 DEF Commands!RecordInput, Commands!TypeOK
  <2> QED
    BY <1>2, <2>1, <2>2 DEF Commands!TypeOK
<1>4. ASSUME NEW a \in Typists, Commands!Submit(a) PROVE Commands!TypeOK'
  <2>1. sends' \in [Typists -> CommandSends]
    BY <1>1, <1>4, CommandSendsType DEF Commands!Submit
  <2>2. odd' \in BOOLEAN /\ UNCHANGED <<accepting, logFile, total>>
    BY <1>4 DEF Commands!Submit, Commands!TypeOK
  <2> QED
    BY <1>2, <2>1, <2>2 DEF Commands!TypeOK
<1>5. ASSUME NEW a \in Typists, NEW input \in Inputs[a], Commands!SshSend(a, input) PROVE Commands!TypeOK'
  <2>1. [step |-> IF logFile = "open" THEN "record" ELSE "send", input |-> input] \in CommandSends
    BY DEF CommandSends, CommandLines, Commands!AnyInput
  <2>2. sends' \in [Typists -> CommandSends]
    BY <1>1, <1>5, <2>1 DEF Commands!SshSend
  <2>3. odd' \in BOOLEAN /\ total' \in 0..MaxSends /\ UNCHANGED <<accepting, logFile>>
    BY <1>5, CommandsAssumption DEF CommandsAssumption, Commands!SshSend, Commands!TypeOK
  <2> QED
    BY <1>2, <2>2, <2>3 DEF Commands!TypeOK
<1>6. CASE Commands!OpenHistory \/ Commands!CloseLog \/ Commands!LinkChanges \/ UNCHANGED Commands!vars
  <2>1. UNCHANGED <<sends, total, odd>> /\ accepting' \in BOOLEAN /\ logFile' \in {"none", "open", "closed"}
    BY <1>6 DEF Commands!OpenHistory, Commands!CloseLog, Commands!LinkChanges, Commands!vars,
                Commands!TypeOK
  <2> QED
    BY <2>1 DEF Commands!TypeOK
<1> QED
  BY <1>3, <1>4, <1>5, <1>6, Zenon DEF Commands!Next

\* They hold before the first call.
LEMMA CommandInitTypes == Commands!Init => Commands!TypeOK
<1> SUFFICES ASSUME Commands!Init PROVE Commands!TypeOK
  OBVIOUS
<1>1. <<>> \in CommandLines /\ CommandLines = Commands!AnyInput \cup {<<>>}
  BY DEF CommandLines
<1> HIDE DEF CommandLines
<1>2. Commands!Idle \in [step : {"idle", "record", "send"}, input : CommandLines]
  BY <1>1 DEF Commands!Idle
<1>3. sends \in [Typists -> [step : {"idle", "record", "send"}, input : CommandLines]]
  BY <1>2 DEF Commands!Init
<1>4. sends \in [Typists -> [step : {"idle", "record", "send"}, input : Commands!AnyInput \cup {<<>>}]]
  BY <1>1, <1>3
<1>5. /\ accepting \in BOOLEAN /\ logFile \in {"none", "open", "closed"} /\ total = 0 /\ odd \in BOOLEAN
  BY DEF Commands!Init
<1>6. total \in 0..MaxSends
  BY <1>5, CommandsAssumption DEF CommandsAssumption
<1> QED
  BY <1>4, <1>5, <1>6 DEF Commands!TypeOK

\* The calls of SshSend and the log of a session keep their types.
THEOREM CommandTypeCorrect == Commands!Spec => []Commands!TypeOK
BY CommandInitTypes, CommandNextTypes, PTL DEF Commands!Spec

-----------------------------------------------------------------------------
\* The lines of the log of commands.

\* A sequence is the beginning of itself and another.
LEMMA CatIsPrefix ==
    ASSUME NEW S, NEW s \in Seq(S), NEW t \in Seq(S)
    PROVE  Telnet!IsPrefix(s, Cat(s, t))
<1>1. Len(s) \in Nat /\ Len(t) \in Nat /\ Len(Cat(s, t)) = Len(s) + Len(t)
  BY LenProperties, CatSeq
<1>2. Len(s) \in 0..Len(s) /\ Len(s) <= Len(Cat(s, t))
  BY <1>1
<1>3. Upto(Cat(s, t), Len(s)) = Upto(s, Len(s))
  BY <1>2, SplitCat
<1> QED
  BY <1>2, <1>3 DEF Telnet!IsPrefix, Upto

\* Lines that are complete, and the one that is open.
TypedLines == [lines : Seq(Seq(STRING)), line : Seq(STRING)]
TypedNothing == [lines |-> <<>>, line |-> <<>>]

\* A line is written once or not at all.
LEMMA EntryType == ASSUME NEW l \in Seq(STRING) PROVE Commands!Entry(l) \in Seq(Seq(STRING))
<1> DEFINE S == Seq(STRING)
<1>1. <<l>> \in Seq(S) /\ <<>> \in Seq(S)
  <2> HIDE DEF S
  <2>1. l \in S
    BY DEF S
  <2> QED
    BY <2>1, OneSeq, EmptySeq
<1> QED
  BY <1>1 DEF Commands!Entry

\* A key more.
LEMMA CutType ==
    ASSUME NEW r \in TypedLines, NEW b \in STRING
    PROVE  /\ Commands!Cut(r, b) \in TypedLines
           /\ b = "enter" => /\ Commands!Cut(r, b).lines = Cat(r.lines, Commands!Entry(r.line))
                             /\ Commands!Cut(r, b).line = <<>>
           /\ b # "enter" => Commands!Cut(r, b).lines = r.lines /\ Commands!Cut(r, b).line = Append(r.line, b)
<1>1. r.lines \in Seq(Seq(STRING)) /\ r.line \in Seq(STRING) /\ r = [lines |-> r.lines, line |-> r.line]
  BY DEF TypedLines
<1>2. CASE b = "enter"
  <2>1. r.lines \o Commands!Entry(r.line) \in Seq(Seq(STRING))
    BY <1>1, EntryType, ConcatProperties
  <2>2. Commands!Cut(r, b) = [lines |-> r.lines \o Commands!Entry(r.line), line |-> <<>>]
    BY <1>2 DEF Commands!Cut
  <2>3. <<>> \in Seq(STRING)
    BY EmptySeq
  <2>4. Commands!Cut(r, b) \in TypedLines
    BY <2>1, <2>2, <2>3 DEF TypedLines
  <2>5. Commands!Cut(r, b).lines = r.lines \o Commands!Entry(r.line) /\ Commands!Cut(r, b).line = <<>>
    <3> DEFINE c == Commands!Cut(r, b)
               l == r.lines \o Commands!Entry(r.line)
    <3>1. c = [lines |-> l, line |-> <<>>]
      BY <2>2
    <3>2. c.lines = l /\ c.line = <<>>
      <4> HIDE DEF c, l
      <4> QED
        BY <3>1
    <3> QED
      BY <3>2
  <2> QED
    BY <1>2, <2>4, <2>5 DEF Cat
<1>3. CASE b # "enter"
  <2>1. Append(r.line, b) \in Seq(STRING)
    BY <1>1, AppendProperties
  <2>2. Commands!Cut(r, b) = [lines |-> r.lines, line |-> Append(r.line, b)]
    BY <1>1, <1>3 DEF Commands!Cut
  <2> QED
    BY <1>1, <1>3, <2>1, <2>2 DEF TypedLines
<1> QED
  BY <1>2, <1>3

\* The lines of what was typed, key by key.
LEMMA TypedReads ==
    /\ Commands!Typed[<<>>] = TypedNothing
    /\ \A s \in Seq(STRING) : Commands!Typed[s] \in TypedLines
    /\ \A s \in Seq(STRING), b \in STRING : Commands!Typed[Append(s, b)] = Commands!Cut(Commands!Typed[s], b)
<1> DEFINE halt == {<<>>}
           base == [s \in Seq(STRING) |-> TypedNothing]
           shorter == [s \in Seq(STRING) |-> Telnet!Front(s)]
           join == [p \in Seq(STRING) \X TypedLines |-> Commands!Cut(p[2], Telnet!Last(p[1]))]
<1>1. TypedNothing \in TypedLines
  BY EmptySeq DEF TypedNothing, TypedLines
<1>2. \A s \in Seq(STRING) \ halt : /\ shorter[s] = Telnet!Front(s) /\ shorter[s] \in Seq(STRING)
                                    /\ Len(shorter[s]) < Len(s) /\ Telnet!Last(s) \in STRING
  <2> SUFFICES ASSUME NEW s \in Seq(STRING), s # <<>>
               PROVE  Telnet!Front(s) \in Seq(STRING) /\ Len(Telnet!Front(s)) < Len(s) /\ Telnet!Last(s) \in STRING
    OBVIOUS
  <2>1. Len(s) \in Nat
    BY LenProperties
  <2> QED
    BY <2>1, FrontLast
<1>3. \A s \in Seq(STRING) \ halt, v \in TypedLines :
        join[<<s, v>>] = Commands!Cut(v, Telnet!Last(s)) /\ join[<<s, v>>] \in TypedLines
  BY <1>2, CutType
<1>4. \A s \in Seq(STRING) \cap halt : base[s] \in TypedLines
  BY <1>1
<1>5. Grounded(STRING, TypedLines, halt, base, shorter, join)
  <2> HIDE DEF halt, base, shorter, join
  <2> QED
    BY <1>1, <1>2, <1>3, <1>4 DEF Grounded
<1>6. PICK f : Recurs(f, STRING, TypedLines, halt, base, shorter, join)
  <2> HIDE DEF halt, base, shorter, join
  <2> QED
    BY <1>5, SeqRecursion
<1>7. f \in [Seq(STRING) -> TypedLines] /\ f = [s \in Seq(STRING) |-> f[s]]
  BY <1>6 DEF Recurs
<1>8. ASSUME NEW s \in Seq(STRING)
      PROVE  f[s] = IF s = <<>> THEN TypedNothing ELSE Commands!Cut(f[Telnet!Front(s)], Telnet!Last(s))
  <2>1. f[s] = IF s \in halt THEN base[s] ELSE join[<<s, f[shorter[s]]>>]
    <3> HIDE DEF halt, base, shorter, join
    <3> QED
      BY <1>6 DEF Recurs
  <2>2. CASE s = <<>>
    BY <2>1, <2>2
  <2>3. CASE s # <<>>
    <3>1. s \in Seq(STRING) \ halt
      BY <2>3
    <3> HIDE DEF shorter, join
    <3>2. f[shorter[s]] \in TypedLines
      BY <1>2, <1>7, <3>1
    <3> QED
      BY <1>2, <1>3, <2>1, <2>3, <3>1, <3>2
  <2> QED
    BY <2>2, <2>3
<1>9. Commands!Typed = [s \in Seq(STRING) |-> IF s = <<>> THEN [lines |-> <<>>, line |-> <<>>]
                                              ELSE Commands!Cut(Commands!Typed[Telnet!Front(s)], Telnet!Last(s))]
  <2>1. \E g : g = [s \in Seq(STRING) |-> IF s = <<>> THEN [lines |-> <<>>, line |-> <<>>]
                                              ELSE Commands!Cut(g[Telnet!Front(s)], Telnet!Last(s))]
    BY Zenon, <1>7, <1>8 DEF TypedNothing
  <2>2. \A s : Telnet!Front(s) = Commands!Front(s) /\ Telnet!Last(s) = Commands!Last(s)
    BY DEF Telnet!Front, Commands!Front, Telnet!Last, Commands!Last
  <2> DEFINE Is(g) == g = [s \in Seq(STRING) |-> IF s = <<>> THEN [lines |-> <<>>, line |-> <<>>]
                                              ELSE Commands!Cut(g[Commands!Front(s)], Commands!Last(s))]
  <2>3. \E g : Is(g)
    BY Zenon, <2>1, <2>2
  <2>4. Is(Commands!Typed)
    BY Zenon, <2>3 DEF Commands!Typed
  <2> QED
    BY Zenon, <2>2, <2>4
<1>10. \A s \in Seq(STRING) :
         Commands!Typed[s] = IF s = <<>> THEN TypedNothing ELSE Commands!Cut(Commands!Typed[Telnet!Front(s)], Telnet!Last(s))
  BY <1>9 DEF TypedNothing
<1>11. Commands!Typed[<<>>] = TypedNothing
  BY <1>10, EmptySeq
<1>12. ASSUME NEW s \in Seq(STRING), NEW b \in STRING
       PROVE  Commands!Typed[Append(s, b)] = Commands!Cut(Commands!Typed[s], b)
  <2>1. Append(s, b) \in Seq(STRING) /\ Append(s, b) # <<>>
    BY AppendProperties
  <2> QED
    BY <1>10, <2>1, FrontAppend
<1> DEFINE T == {s \in Seq(STRING) : Commands!Typed[s] \in TypedLines}
<1>13. <<>> \in T /\ \A s \in Seq(STRING), b \in STRING : s \in T => Append(s, b) \in T
  BY <1>1, <1>11, <1>12, CutType, AppendProperties, EmptySeq
<1>14. \A s \in Seq(STRING) : s \in T
  <2> HIDE DEF T
  <2> QED
    BY <1>13, AppendInduction
<1> QED
  BY <1>11, <1>12, <1>14

\* A line, or a part of one.
NoEnter(s) == \A i \in 1..Len(s) : s[i] # "enter"

\* A line that is not complete.
LEMMA TypedLine ==
    \A s \in Seq(STRING) : NoEnter(s) => Commands!Typed[s].lines = <<>> /\ Commands!Typed[s].line = s
<1> DEFINE Goal(s) == NoEnter(s) => Commands!Typed[s].lines = <<>> /\ Commands!Typed[s].line = s
           T == {s \in Seq(STRING) : Goal(s)}
<1>1. <<>> \in T
  <2>1. TypedNothing.lines = <<>> /\ TypedNothing.line = <<>>
    BY DEF TypedNothing
  <2> QED
    BY <2>1, TypedReads, EmptySeq
<1>2. ASSUME NEW s \in Seq(STRING), NEW b \in STRING, Goal(s), NoEnter(Append(s, b))
      PROVE  Commands!Typed[Append(s, b)].lines = <<>> /\ Commands!Typed[Append(s, b)].line = Append(s, b)
  <2>1. /\ Append(s, b) \in Seq(STRING) /\ Len(Append(s, b)) = Len(s) + 1 /\ Len(s) \in Nat
        /\ Append(s, b)[Len(s) + 1] = b /\ \A i \in 1..Len(s) : Append(s, b)[i] = s[i]
    <3>1. OneMore(s, b, STRING)
      BY AppendFacts
    <3> QED
      BY <3>1 DEF OneMore
  <2>2. b # "enter" /\ NoEnter(s)
    <3>1. Len(s) + 1 \in 1..Len(Append(s, b)) /\ \A i \in 1..Len(s) : i \in 1..Len(Append(s, b))
      BY <2>1
    <3> QED
      BY <1>2, <2>1, <3>1 DEF NoEnter
  <2>3. Commands!Typed[s].lines = <<>> /\ Commands!Typed[s].line = s /\ Commands!Typed[s] \in TypedLines
    BY <1>2, <2>2, TypedReads
  <2> QED
    BY <2>2, <2>3, TypedReads, CutType
<1>3. \A s \in Seq(STRING) : s \in T
  <2>1. \A s \in Seq(STRING), b \in STRING : s \in T => Append(s, b) \in T
    <3>1. ASSUME NEW s \in Seq(STRING), NEW b \in STRING, Goal(s) PROVE Goal(Append(s, b))
      BY <1>2, <3>1
    <3>2. \A s \in Seq(STRING), b \in STRING : Append(s, b) \in Seq(STRING)
      BY AppendProperties
    <3> HIDE DEF Goal
    <3> QED
      BY <3>1, <3>2
  <2> HIDE DEF T
  <2> QED
    BY <1>1, <2>1, AppendInduction
<1> QED
  BY <1>3

\* Y goes on after lines A: X is both.
Continues(A, X, Y) == X.lines = Cat(A, Y.lines) /\ X.line = Y.line

\* What is typed after s goes on from the line s leaves.
LEMMA TypedOn ==
    ASSUME NEW s \in Seq(STRING), NEW l \in Seq(STRING), Commands!Typed[l].lines = <<>>,
           Commands!Typed[l].line = Commands!Typed[s].line
    PROVE  \A t \in Seq(STRING) :
             Continues(Commands!Typed[s].lines, Commands!Typed[Cat(s, t)], Commands!Typed[Cat(l, t)])
<1> DEFINE A == Commands!Typed[s].lines
           Goal(t) == Continues(A, Commands!Typed[Cat(s, t)], Commands!Typed[Cat(l, t)])
           T == {t \in Seq(STRING) : Goal(t)}
<1>1. A \in Seq(Seq(STRING))
  BY TypedReads DEF TypedLines
<1> HIDE DEF A
<1>2. <<>> \in T
  <2>1. Cat(s, <<>>) = s /\ Cat(l, <<>>) = l /\ Cat(A, <<>>) = A
    BY <1>1, CatSeq
  <2> QED
    BY <2>1, EmptySeq DEF Continues, A
<1>3. ASSUME NEW t \in Seq(STRING), NEW b \in STRING, Goal(t) PROVE Goal(Append(t, b))
  <2> DEFINE X == Commands!Typed[Cat(s, t)]
             Y == Commands!Typed[Cat(l, t)]
  <2>1. Cat(s, t) \in Seq(STRING) /\ Cat(l, t) \in Seq(STRING)
    BY CatSeq
  <2>2. Cat(s, Append(t, b)) = Append(Cat(s, t), b) /\ Cat(l, Append(t, b)) = Append(Cat(l, t), b)
    BY CatAppend
  <2>3. X \in TypedLines /\ Y \in TypedLines
    BY <2>1, TypedReads
  <2>4. Commands!Typed[Cat(s, Append(t, b))] = Commands!Cut(X, b) /\ Commands!Typed[Cat(l, Append(t, b))] = Commands!Cut(Y, b)
    BY <2>1, <2>2, TypedReads
  <2>5. X.lines = Cat(A, Y.lines) /\ X.line = Y.line
    BY <1>3 DEF Continues
  <2> HIDE DEF X, Y
  <2>6. CASE b = "enter"
    <3>1. Commands!Cut(X, b).lines = Cat(X.lines, Commands!Entry(X.line)) /\ Commands!Cut(X, b).line = <<>>
      BY <2>3, <2>6, CutType
    <3>2. Commands!Cut(Y, b).lines = Cat(Y.lines, Commands!Entry(Y.line)) /\ Commands!Cut(Y, b).line = <<>>
      BY <2>3, <2>6, CutType
    <3>3. Y.lines \in Seq(Seq(STRING)) /\ Commands!Entry(Y.line) \in Seq(Seq(STRING))
      BY <2>3, EntryType DEF TypedLines
    <3>4. Cat(Cat(A, Y.lines), Commands!Entry(Y.line)) = Cat(A, Cat(Y.lines, Commands!Entry(Y.line)))
      BY <1>1, <3>3, CatAssociates
    <3> QED
      BY <2>4, <2>5, <3>1, <3>2, <3>4 DEF Continues
  <2>7. CASE b # "enter"
    <3>1. Commands!Cut(X, b).lines = X.lines /\ Commands!Cut(X, b).line = Append(X.line, b)
      BY <2>3, <2>7, CutType
    <3>2. Commands!Cut(Y, b).lines = Y.lines /\ Commands!Cut(Y, b).line = Append(Y.line, b)
      BY <2>3, <2>7, CutType
    <3> QED
      BY <2>4, <2>5, <3>1, <3>2 DEF Continues
  <2> QED
    BY <2>6, <2>7
<1>4. \A t \in Seq(STRING) : t \in T
  <2>1. \A t \in Seq(STRING), b \in STRING : Append(t, b) \in Seq(STRING)
    BY AppendProperties
  <2>2. \A t \in Seq(STRING), b \in STRING : t \in T => Append(t, b) \in T
    <3> HIDE DEF Goal
    <3> QED
      BY <1>3, <2>1
  <2> HIDE DEF T
  <2> QED
    BY <1>2, <2>2, AppendInduction
<1> QED
  BY <1>4 DEF A

\* Where lines end, what recordInput gives, and how it takes the first line.
LineEnds(s) == {i \in 1..Len(s) : s[i] = "enter"}
RecordedLines == [left : Seq(STRING), panics : BOOLEAN, lines : Seq(Seq(STRING))]
OpenLine(s) ==
    [left |-> s, panics |-> Len(s) > BufferLimit, lines |-> IF Len(s) > BufferLimit THEN Commands!Entry(s) ELSE <<>>]
LineOf(s) == Upto(s, Commands!Min(LineEnds(s)) - 1)
AfterLine(s) == From(s, Commands!Min(LineEnds(s)))
WithLine(s, r) == [r EXCEPT !.lines = Commands!Entry(LineOf(s)) \o @]

\* The first line that is complete.
LEMMA FirstLine ==
    ASSUME NEW s \in Seq(STRING), LineEnds(s) # {}, NEW m, m = Commands!Min(LineEnds(s))
    PROVE  /\ m \in 1..Len(s) /\ m \in Nat /\ Len(s) \in Nat /\ s[m] = "enter" /\ s[m] \in STRING
           /\ LineOf(s) = Upto(s, m - 1) /\ LineOf(s) \in Seq(STRING) /\ NoEnter(LineOf(s))
           /\ AfterLine(s) = From(s, m) /\ AfterLine(s) \in Seq(STRING) /\ Len(AfterLine(s)) < Len(s)
           /\ s = Cat(Append(LineOf(s), s[m]), AfterLine(s)) /\ Append(LineOf(s), s[m]) \in Seq(STRING)
<1>1. Len(s) \in Nat /\ LineEnds(s) \subseteq Nat
  BY LenProperties DEF LineEnds
<1>2. \E x \in LineEnds(s) : \A y \in LineEnds(s) : x =< y
  BY <1>1, Smallest
<1>3. m \in LineEnds(s) /\ \A y \in LineEnds(s) : m <= y
  BY <1>2 DEF Commands!Min
<1>4. m \in 1..Len(s) /\ m \in Nat /\ s[m] = "enter" /\ m \in 0..Len(s) /\ m - 1 \in 0..Len(s)
  BY <1>1, <1>3 DEF LineEnds
<1>5. s[m] \in STRING
  BY <1>4, ElementOfSeq
<1>6. LineOf(s) = Upto(s, m - 1) /\ AfterLine(s) = From(s, m)
  BY DEF LineOf, AfterLine
<1>7. Upto(s, m - 1) \in Seq(STRING) /\ Len(Upto(s, m - 1)) = m - 1 /\ \A i \in 1..m - 1 : Upto(s, m - 1)[i] = s[i]
  BY <1>4, SplitSeq
<1>8. From(s, m) \in Seq(STRING) /\ Len(From(s, m)) = Len(s) - m /\ Cat(Upto(s, m), From(s, m)) = s
  BY <1>4, SplitSeq
<1>9. Len(From(s, m)) < Len(s)
  BY <1>1, <1>4, <1>8
<1>10. NoEnter(Upto(s, m - 1))
  <2>1. ASSUME NEW i \in 1..Len(Upto(s, m - 1)) PROVE Upto(s, m - 1)[i] # "enter"
    <3>1. i \in 1..m - 1 /\ i \in 1..Len(s) /\ ~(m <= i)
      BY <1>1, <1>4, <1>7
    <3> QED
      BY <1>3, <1>7, <3>1 DEF LineEnds
  <2> QED
    BY <2>1 DEF NoEnter
<1>11. Upto(s, m) = Append(Upto(s, m - 1), s[m])
  BY <1>4, RunUpto
<1>12. Upto(s, m) \in Seq(STRING)
  BY <1>4, SplitSeq
<1> QED
  BY <1>1, <1>4, <1>5, <1>6, <1>7, <1>8, <1>9, <1>10, <1>11, <1>12

\* recordInput, of the first line and the rest.
LEMMA RecordedReads ==
    ASSUME BufferLimit \in Nat
    PROVE  \A s \in Seq(STRING) :
             /\ Commands!Recorded[s] \in RecordedLines
             /\ LineEnds(s) = {} => Commands!Recorded[s] = OpenLine(s)
             /\ LineEnds(s) # {} => Commands!Recorded[s] = WithLine(s, Commands!Recorded[AfterLine(s)])
<1> DEFINE halt == {s \in Seq(STRING) : LineEnds(s) = {}}
           base == [s \in Seq(STRING) |-> OpenLine(s)]
           shorter == [s \in Seq(STRING) |-> AfterLine(s)]
           join == [p \in Seq(STRING) \X RecordedLines |-> WithLine(p[1], p[2])]
<1>0. \A s \in Seq(STRING) : OpenLine(s) \in RecordedLines
  <2> SUFFICES ASSUME NEW s \in Seq(STRING) PROVE OpenLine(s) \in RecordedLines
    OBVIOUS
  <2>1. Commands!Entry(s) \in Seq(Seq(STRING)) /\ <<>> \in Seq(Seq(STRING))
    BY EntryType, EmptySeq
  <2>2. (Len(s) > BufferLimit) \in BOOLEAN
    BY LenProperties
  <2>3. (IF Len(s) > BufferLimit THEN Commands!Entry(s) ELSE <<>>) \in Seq(Seq(STRING))
    BY <2>1
  <2> QED
    BY <2>2, <2>3 DEF OpenLine, RecordedLines
<1>1. \A s \in Seq(STRING) \cap halt : base[s] \in RecordedLines
  BY <1>0
<1>2. \A s \in Seq(STRING) \ halt : shorter[s] = AfterLine(s) /\ shorter[s] \in Seq(STRING) /\ Len(shorter[s]) < Len(s)
  BY FirstLine
<1>3. \A s \in Seq(STRING) \ halt, v \in RecordedLines : join[<<s, v>>] = WithLine(s, v) /\ join[<<s, v>>] \in RecordedLines
  <2> SUFFICES ASSUME NEW s \in Seq(STRING), LineEnds(s) # {}, NEW v \in RecordedLines
               PROVE  join[<<s, v>>] = WithLine(s, v) /\ WithLine(s, v) \in RecordedLines
    OBVIOUS
  <2>1. join[<<s, v>>] = WithLine(s, v)
    OBVIOUS
  <2>2. LineOf(s) \in Seq(STRING) /\ v.lines \in Seq(Seq(STRING))
    BY FirstLine DEF RecordedLines
  <2>3. Commands!Entry(LineOf(s)) \o v.lines \in Seq(Seq(STRING))
    BY <2>2, EntryType, ConcatProperties
  <2>4. WithLine(s, v) \in RecordedLines
    BY <2>3 DEF WithLine, RecordedLines
  <2> QED
    BY <2>1, <2>4
<1>4. RecordedLines # {}
  BY <1>0, EmptySeq
<1>5. Grounded(STRING, RecordedLines, halt, base, shorter, join)
  <2> HIDE DEF halt, base, shorter, join
  <2> QED
    BY <1>1, <1>2, <1>3, <1>4 DEF Grounded
<1>6. PICK f : Recurs(f, STRING, RecordedLines, halt, base, shorter, join)
  <2> HIDE DEF halt, base, shorter, join
  <2> QED
    BY <1>5, SeqRecursion
<1>7. f \in [Seq(STRING) -> RecordedLines] /\ f = [s \in Seq(STRING) |-> f[s]]
  BY <1>6 DEF Recurs
<1>8. ASSUME NEW s \in Seq(STRING)
      PROVE  f[s] = IF LineEnds(s) = {} THEN OpenLine(s) ELSE WithLine(s, f[AfterLine(s)])
  <2>1. f[s] = IF s \in halt THEN base[s] ELSE join[<<s, f[shorter[s]]>>]
    <3> HIDE DEF halt, base, shorter, join
    <3> QED
      BY <1>6 DEF Recurs
  <2>2. CASE LineEnds(s) = {}
    BY <2>1, <2>2
  <2>3. CASE LineEnds(s) # {}
    <3>1. s \in Seq(STRING) \ halt
      BY <2>3
    <3>2. s \notin halt
      BY <2>3
    <3> HIDE DEF shorter, join, halt
    <3>3. f[shorter[s]] \in RecordedLines
      BY <1>2, <1>7, <3>1
    <3> QED
      BY <1>2, <1>3, <2>1, <2>3, <3>1, <3>2, <3>3
  <2> QED
    BY <2>2, <2>3
<1>9. Commands!Recorded = [s \in Seq(STRING) |-> IF LineEnds(s) = {} THEN OpenLine(s)
                                                 ELSE WithLine(s, Commands!Recorded[AfterLine(s)])]
  <2> DEFINE ends(s) == {i \in 1..Len(s) : s[i] = "enter"}
             Body(g, s) ==
         IF ends(s) = {}
         THEN [left |-> s, panics |-> Len(s) > BufferLimit,
               lines |-> IF Len(s) > BufferLimit THEN Commands!Entry(s) ELSE <<>>]
         ELSE [g[SubSeq(s, Commands!Min(ends(s)) + 1, Len(s))] EXCEPT
                 !.lines = Commands!Entry(SubSeq(s, 1, Commands!Min(ends(s)) - 1)) \o @]
             Is(g) == g = [s \in Seq(STRING) |-> Body(g, s)]
  <2>1. \E g : Is(g)
    <3>1. \A s \in Seq(STRING) : f[s] = Body(f, s)
      BY Zenon, <1>8 DEF LineEnds, OpenLine, WithLine, LineOf, AfterLine, From, Upto
    <3> HIDE DEF Body
    <3>2. f = [s \in Seq(STRING) |-> Body(f, s)]
      BY Zenon, <1>7, <3>1
    <3> QED
      BY Zenon, <3>2
  <2>2. Is(Commands!Recorded)
    BY Zenon, <2>1 DEF Commands!Recorded
  <2> QED
    BY Zenon, <2>2 DEF LineEnds, OpenLine, WithLine, LineOf, AfterLine, From, Upto
<1>10. \A s \in Seq(STRING) :
         Commands!Recorded[s] = IF LineEnds(s) = {} THEN OpenLine(s)
                                ELSE WithLine(s, Commands!Recorded[AfterLine(s)])
  BY <1>9
<1> DEFINE T == {s \in Seq(STRING) : Commands!Recorded[s] \in RecordedLines}
<1>11. ASSUME NEW s \in Seq(STRING), \A u \in Seq(STRING) : Len(u) < Len(s) => u \in T PROVE s \in T
  <2>1. CASE LineEnds(s) = {}
    BY <1>0, <1>10, <2>1
  <2>2. CASE LineEnds(s) # {}
    <3>1. s \in Seq(STRING) \ halt
      BY <2>2
    <3> DEFINE u == AfterLine(s)
    <3>2. u \in Seq(STRING) /\ Len(u) < Len(s)
      <4> HIDE DEF halt, shorter
      <4> QED
        BY <1>2, <3>1
    <3>3. Commands!Recorded[u] \in RecordedLines
      <4> HIDE DEF u
      <4> QED
        BY <1>11, <3>2
    <3>4. WithLine(s, Commands!Recorded[u]) \in RecordedLines
      <4> HIDE DEF halt, join, u
      <4> QED
        BY <1>3, <3>1, <3>3
    <3> QED
      BY <1>10, <2>2, <3>4
  <2> QED
    BY <2>1, <2>2
<1>12. \A s \in Seq(STRING) : s \in T
  <2> HIDE DEF T
  <2> QED
    BY <1>11, LengthInduction
<1> QED
  BY <1>10, <1>12

\* recordInput records the lines that are complete, and keeps the rest.
LEMMA RecordedTyped ==
    ASSUME BufferLimit \in Nat
    PROVE  \A s \in Seq(STRING) :
             /\ NoEnter(Commands!Recorded[s].left)
             /\ ~Commands!Recorded[s].panics =>
                  Commands!Recorded[s].lines = Commands!Typed[s].lines /\ Commands!Recorded[s].left = Commands!Typed[s].line
<1> DEFINE Goal(s) ==
             /\ NoEnter(Commands!Recorded[s].left)
             /\ ~Commands!Recorded[s].panics =>
                  Commands!Recorded[s].lines = Commands!Typed[s].lines /\ Commands!Recorded[s].left = Commands!Typed[s].line
           T == {s \in Seq(STRING) : Goal(s)}
<1>1. ASSUME NEW s \in Seq(STRING), \A u \in Seq(STRING) : Len(u) < Len(s) => Goal(u) PROVE Goal(s)
  <2> DEFINE r == Commands!Recorded[s]
  <2>1. CASE LineEnds(s) = {}
    <3>1. NoEnter(s)
      BY <2>1 DEF NoEnter, LineEnds
    <3>2. r = [left |-> s, panics |-> Len(s) > BufferLimit,
               lines |-> IF Len(s) > BufferLimit THEN Commands!Entry(s) ELSE <<>>]
      BY <2>1, RecordedReads DEF OpenLine
    <3>3. r.left = s /\ (~r.panics => r.lines = <<>>)
      <4> HIDE DEF r
      <4> QED
        BY <3>2
    <3>4. Commands!Typed[s].lines = <<>> /\ Commands!Typed[s].line = s
      BY <3>1, TypedLine
    <3> QED
      BY <3>1, <3>3, <3>4
  <2>2. CASE LineEnds(s) # {}
    <3> DEFINE m == Commands!Min(LineEnds(s))
               l == LineOf(s)
               v == AfterLine(s)
               b == s[m]
               u == Append(l, b)
    <3>1. /\ b = "enter" /\ b \in STRING /\ l \in Seq(STRING) /\ NoEnter(l) /\ v \in Seq(STRING)
          /\ Len(v) < Len(s) /\ s = Cat(u, v) /\ u \in Seq(STRING)
      <4> HIDE DEF m
      <4> QED
        BY <2>2, FirstLine DEF m
    <3>2. r = WithLine(s, Commands!Recorded[v]) /\ Commands!Recorded[v] \in RecordedLines
      <4>1. AfterLine(s) \in Seq(STRING)
        BY <3>1
      <4> QED
        BY <2>2, <4>1, RecordedReads
    <3>3. r.left = Commands!Recorded[v].left /\ r.panics = Commands!Recorded[v].panics
          /\ r.lines = Cat(Commands!Entry(l), Commands!Recorded[v].lines)
      <4> DEFINE q == Commands!Recorded[v]
      <4>1. r = [q EXCEPT !.lines = Commands!Entry(l) \o @] /\ q \in RecordedLines
        BY <3>2 DEF WithLine
      <4>2. r.left = q.left /\ r.panics = q.panics /\ r.lines = Commands!Entry(l) \o q.lines
        <5> HIDE DEF q, r, l
        <5> QED
          BY <4>1 DEF RecordedLines
      <4> QED
        BY <4>2 DEF Cat
    <3> HIDE DEF r, b, u, v, l
    <3>4. Commands!Typed[l].lines = <<>> /\ Commands!Typed[l].line = l
      BY <3>1, TypedLine
    <3>5. Commands!Typed[u].lines = Commands!Entry(l) /\ Commands!Typed[u].line = <<>>
      <4>1. Commands!Typed[u] = Commands!Cut(Commands!Typed[l], b) /\ Commands!Typed[l] \in TypedLines
        BY <3>1, TypedReads DEF u
      <4>2. Commands!Cut(Commands!Typed[l], b).lines = Cat(<<>>, Commands!Entry(l)) /\ Commands!Cut(Commands!Typed[l], b).line = <<>>
        BY <3>1, <3>4, <4>1, CutType
      <4>3. Cat(<<>>, Commands!Entry(l)) = Commands!Entry(l)
        BY <3>1, EntryType, CatSeq
      <4> QED
        BY <4>1, <4>2, <4>3
    <3>6. Commands!Typed[s].lines = Cat(Commands!Entry(l), Commands!Typed[v].lines) /\ Commands!Typed[s].line = Commands!Typed[v].line
      <4> DEFINE none == <<>>
      <4>1. none \in Seq(STRING) /\ Commands!Typed[none].lines = <<>> /\ Commands!Typed[none].line = <<>> /\ Cat(none, v) = v
        <5>1. TypedNothing.lines = <<>> /\ TypedNothing.line = <<>>
          BY DEF TypedNothing
        <5> QED
          BY <3>1, <5>1, EmptySeq, TypedReads, CatSeq
      <4>2. Commands!Typed[none].line = Commands!Typed[u].line
        BY <3>5, <4>1
      <4> HIDE DEF none
      <4>3. Continues(Commands!Typed[u].lines, Commands!Typed[Cat(u, v)], Commands!Typed[Cat(none, v)])
        BY <3>1, <4>1, <4>2, TypedOn
      <4> QED
        BY <3>1, <3>5, <4>1, <4>3 DEF Continues
    <3>7. Goal(v)
      BY <1>1, <3>1
    <3> QED
      BY <3>3, <3>6, <3>7 DEF r
  <2> QED
    BY <2>1, <2>2
<1>2. \A s \in Seq(STRING) : s \in T
  <2>1. ASSUME NEW s \in Seq(STRING), \A u \in Seq(STRING) : Len(u) < Len(s) => u \in T PROVE s \in T
    <3> HIDE DEF Goal
    <3> QED
      BY <1>1, <2>1
  <2> HIDE DEF T
  <2> QED
    BY <2>1, LengthInduction
<1> QED
  BY <1>2

\* The line that is left of what was typed is not complete.
LEMMA TypedOpen == \A s \in Seq(STRING) : NoEnter(Commands!Typed[s].line)
<1> DEFINE T == {s \in Seq(STRING) : NoEnter(Commands!Typed[s].line)}
<1>0. NoEnter(<<>>)
  BY EmptySeq DEF NoEnter
<1>1. <<>> \in T
  <2>1. TypedNothing.line = <<>>
    BY DEF TypedNothing
  <2> QED
    BY <1>0, <2>1, TypedReads, EmptySeq
<1>2. ASSUME NEW s \in Seq(STRING), NEW b \in STRING, NoEnter(Commands!Typed[s].line)
      PROVE  NoEnter(Commands!Typed[Append(s, b)].line)
  <2> DEFINE r == Commands!Typed[s]
  <2>1. Commands!Typed[Append(s, b)] = Commands!Cut(r, b) /\ r \in TypedLines /\ r.line \in Seq(STRING)
    BY TypedReads DEF TypedLines
  <2> HIDE DEF r
  <2>2. CASE b = "enter"
    BY <1>0, <2>1, <2>2, CutType
  <2>3. CASE b # "enter"
    <3>1. Commands!Cut(r, b).line = Append(r.line, b)
      BY <2>1, <2>3, CutType
    <3> DEFINE l == r.line
    <3>2. l \in Seq(STRING) /\ NoEnter(l)
      BY <1>2, <2>1 DEF r
    <3> HIDE DEF l
    <3>3. /\ Append(l, b) \in Seq(STRING) /\ Len(Append(l, b)) = Len(l) + 1 /\ Len(l) \in Nat
          /\ Append(l, b)[Len(l) + 1] = b /\ \A i \in 1..Len(l) : Append(l, b)[i] = l[i]
      <4>1. OneMore(l, b, STRING)
        BY <3>2, AppendFacts
      <4> QED
        BY <4>1 DEF OneMore
    <3>4. NoEnter(Append(l, b))
      <4>1. ASSUME NEW i \in 1..Len(l) + 1 PROVE Append(l, b)[i] # "enter"
        <5>1. i \in 1..Len(l) \/ i = Len(l) + 1
          BY <3>3
        <5> QED
          BY <2>3, <3>2, <3>3, <5>1 DEF NoEnter
      <4> QED
        BY <3>3, <4>1 DEF NoEnter
    <3> QED
      BY <2>1, <3>1, <3>4 DEF l
  <2> QED
    BY <2>2, <2>3
<1>3. \A s \in Seq(STRING) : s \in T
  <2>1. \A s \in Seq(STRING), b \in STRING : Append(s, b) \in Seq(STRING)
    BY AppendProperties
  <2>2. \A s \in Seq(STRING), b \in STRING : s \in T => Append(s, b) \in T
    BY <1>2, <2>1
  <2> HIDE DEF T
  <2> QED
    BY <1>1, <2>2, AppendInduction
<1> QED
  BY <1>3

\* What is typed is text, and the buffer is a line.
CommandTexts ==
    /\ submitted \in Seq(STRING) /\ buffer \in Seq(STRING) /\ NoEnter(buffer)
    /\ \A a \in Typists : sends[a].input \in Seq(STRING) /\ sends[a].step \in {"idle", "record", "send"}

\* While nothing was odd the log has what was submitted, or is about to be by the one caller that
\* has recorded it.
CommandsFollow ==
    ~odd =>
      /\ \A a, b \in Typists : sends[a].step = "send" /\ sends[b].step = "send" => a = b
      /\ (\A a \in Typists : sends[a].step # "send") =>
           commands = Commands!Typed[submitted].lines /\ buffer = Commands!Typed[submitted].line
      /\ \A a \in Typists : sends[a].step = "send" =>
           /\ commands = Commands!Typed[Cat(submitted, sends[a].input)].lines
           /\ buffer = Commands!Typed[Cat(submitted, sends[a].input)].line

CommandIInv == CommandTexts /\ CommandsFollow

\* A caller that moves on.
LEMMA CommandMoves ==
    ASSUME NEW a \in Typists, NEW s, Commands!TypeOK, sends' = [sends EXCEPT ![a] = s]
    PROVE  sends'[a] = s /\ \A b \in Typists \ {a} : sends'[b] = sends[b]
<1>1. \E P : sends \in [Typists -> P]
  BY DEF Commands!TypeOK
<1> QED
  BY <1>1

\* What a call carries is input.
LEMMA CommandInputs ==
    ASSUME NEW x, x \in [Typists -> [step : {"idle", "record", "send"}, input : Commands!AnyInput \cup {<<>>}]]
    PROVE  \A a \in Typists : x[a].input \in Seq(STRING) /\ x[a].step \in {"idle", "record", "send"}
<1>1. Commands!AnyInput \cup {<<>>} \subseteq Seq(STRING)
  BY CommandsAssumption, EmptySeq DEF CommandsAssumption, Commands!AnyInput
<1>2. \A a \in Typists : x[a] \in [step : {"idle", "record", "send"}, input : Commands!AnyInput \cup {<<>>}]
  OBVIOUS
<1> QED
  BY <1>1, <1>2

\* recordInput.
LEMMA CommandRecords ==
    ASSUME CommandIInv, Commands!TypeOK, Commands!TypeOK', NEW a \in Typists, Commands!RecordInput(a)
    PROVE  CommandIInv'
<1>1. CommandTexts /\ CommandsFollow /\ sends[a].step = "record"
  BY DEF CommandIInv, Commands!RecordInput
<1>2. submitted' = submitted /\ submitted \in Seq(STRING) /\ buffer \in Seq(STRING) /\ sends[a].input \in Seq(STRING)
  BY <1>1 DEF Commands!RecordInput, CommandTexts
<1>3. \A b \in Typists : sends'[b].input \in Seq(STRING) /\ sends'[b].step \in {"idle", "record", "send"}
  <2>1. sends' \in [Typists -> [step : {"idle", "record", "send"}, input : Commands!AnyInput \cup {<<>>}]]
    BY DEF Commands!TypeOK
  <2> QED
    BY <2>1, CommandInputs
<1>4. CASE logFile = "open"
  <2> DEFINE r == Commands!Recorded[buffer \o sends[a].input]
             t == Cat(buffer, sends[a].input)
  <2>1. /\ buffer' = r.left /\ commands' = commands \o r.lines /\ odd' = (odd \/ r.panics \/ Commands!Others(a))
        /\ sends' = [sends EXCEPT ![a] = IF r.panics THEN Commands!Idle ELSE [sends[a] EXCEPT !.step = "send"]]
    BY <1>4 DEF Commands!RecordInput
  <2>2. t \in Seq(STRING) /\ r = Commands!Recorded[t] /\ BufferLimit \in Nat
    BY <1>2, CatSeq, CommandsAssumption DEF Cat, CommandsAssumption
  <2>3. /\ r \in RecordedLines /\ NoEnter(r.left)
        /\ ~r.panics => r.lines = Commands!Typed[t].lines /\ r.left = Commands!Typed[t].line
    <3> HIDE DEF r, t
    <3> QED
      BY <2>2, RecordedReads, RecordedTyped
  <2> HIDE DEF r
  <2>4. CommandTexts'
    BY <1>2, <1>3, <2>1, <2>3 DEF CommandTexts, RecordedLines
  <2>5. ASSUME ~odd' PROVE CommandsFollow'
    <3>1. ~odd /\ ~r.panics /\ ~Commands!Others(a)
      BY <2>1, <2>5
    <3> DEFINE s == [sends[a] EXCEPT !.step = "send"]
    <3>2. sends' = [sends EXCEPT ![a] = s]
      BY <2>1, <3>1
    <3>3. s.step = "send" /\ s.input = sends[a].input
      <4>1. sends[a] \in [step : {"idle", "record", "send"}, input : Commands!AnyInput \cup {<<>>}]
        BY DEF Commands!TypeOK
      <4> QED
        BY <4>1
    <3> HIDE DEF s
    <3>4. sends'[a] = s /\ \A b \in Typists \ {a} : sends'[b] = sends[b]
      BY <3>2, CommandMoves
    <3>5. \A b \in Typists \ {a} : sends[b].step # "send"
      BY <3>1 DEF Commands!Others
    <3>6. commands = Commands!Typed[submitted].lines /\ buffer = Commands!Typed[submitted].line
      BY <1>1, <3>1, <3>5 DEF CommandsFollow
    <3>7. commands' = Cat(Commands!Typed[submitted].lines, Commands!Typed[t].lines) /\ buffer' = Commands!Typed[t].line
      BY <2>1, <2>3, <3>1, <3>6 DEF Cat
    <3>8. Continues(Commands!Typed[submitted].lines, Commands!Typed[Cat(submitted, sends[a].input)], Commands!Typed[t])
      <4>1. Commands!Typed[buffer].lines = <<>> /\ Commands!Typed[buffer].line = buffer
        BY <1>1, <1>2, TypedLine DEF CommandTexts
      <4> QED
        BY <1>2, <3>6, <4>1, TypedOn
    <3>9. /\ commands' = Commands!Typed[Cat(submitted, sends'[a].input)].lines
          /\ buffer' = Commands!Typed[Cat(submitted, sends'[a].input)].line
      BY <3>3, <3>4, <3>7, <3>8 DEF Continues
    <3>10. \A b \in Typists : sends'[b].step = "send" => b = a
      BY <3>4, <3>5
    <3>11. sends'[a].step = "send"
      BY <3>3, <3>4
    <3> QED
      BY <1>2, <3>9, <3>10, <3>11 DEF CommandsFollow
  <2> QED
    BY <2>4, <2>5 DEF CommandIInv, CommandsFollow
<1>5. CASE logFile # "open"
  <2>1. odd' = TRUE /\ UNCHANGED <<buffer, commands>>
    BY <1>5 DEF Commands!RecordInput
  <2>2. CommandTexts'
    BY <1>1, <1>2, <1>3, <2>1 DEF CommandTexts
  <2> QED
    BY <2>1, <2>2 DEF CommandIInv, CommandsFollow
<1> QED
  BY <1>4, <1>5

\* SshSend and Send.
LEMMA CommandSubmits ==
    ASSUME CommandIInv, Commands!TypeOK, Commands!TypeOK', NEW a \in Typists, Commands!Submit(a)
    PROVE  CommandIInv'
<1>1. CommandTexts /\ CommandsFollow /\ sends[a].step = "send" /\ sends' = [sends EXCEPT ![a] = Commands!Idle]
      /\ UNCHANGED <<buffer, commands>>
  BY DEF CommandIInv, Commands!Submit
<1>2. \A b \in Typists : sends'[b].input \in Seq(STRING) /\ sends'[b].step \in {"idle", "record", "send"}
  <2>1. sends' \in [Typists -> [step : {"idle", "record", "send"}, input : Commands!AnyInput \cup {<<>>}]]
    BY DEF Commands!TypeOK
  <2> QED
    BY <2>1, CommandInputs
<1>3. submitted' = Cat(submitted, sends[a].input) \/ (submitted' = submitted /\ odd' = TRUE)
  BY DEF Commands!Submit, Cat
<1>4. CommandTexts'
  <2>1. submitted' \in Seq(STRING)
    BY <1>1, <1>3, CatSeq DEF CommandTexts
  <2>2. buffer' = buffer /\ buffer \in Seq(STRING) /\ NoEnter(buffer)
    BY <1>1 DEF CommandTexts
  <2>3. NoEnter(buffer')
    BY Zenon, <2>2
  <2> QED
    BY <1>2, <2>1, <2>2, <2>3 DEF CommandTexts
<1>5. ASSUME ~odd' PROVE CommandsFollow'
  <2>1. submitted' = Cat(submitted, sends[a].input) /\ ~odd
    BY <1>3, <1>5 DEF Commands!Submit
  <2>2. sends'[a] = Commands!Idle /\ \A b \in Typists \ {a} : sends'[b] = sends[b]
    BY <1>1, CommandMoves
  <2>3. Commands!Idle.step # "send"
    BY DEF Commands!Idle
  <2>4. \A b \in Typists : sends'[b].step # "send"
    BY <1>1, <2>1, <2>2, <2>3 DEF CommandsFollow
  <2>5. commands = Commands!Typed[submitted'].lines /\ buffer = Commands!Typed[submitted'].line
    BY <1>1, <2>1 DEF CommandsFollow
  <2> QED
    BY <1>1, <2>4, <2>5 DEF CommandsFollow
<1> QED
  BY <1>4, <1>5 DEF CommandIInv, CommandsFollow

\* The other steps.
LEMMA CommandOthers ==
    ASSUME CommandIInv, Commands!TypeOK, Commands!TypeOK',
           \/ \E a \in Typists : \E input \in Inputs[a] : Commands!SshSend(a, input)
           \/ Commands!OpenHistory \/ Commands!CloseLog \/ Commands!LinkChanges \/ UNCHANGED Commands!vars
    PROVE  CommandIInv'
<1>1. CommandTexts /\ CommandsFollow /\ UNCHANGED <<buffer, commands, submitted>>
  <2>1. UNCHANGED <<buffer, commands, submitted>>
    BY DEF Commands!SshSend, Commands!OpenHistory, Commands!CloseLog, Commands!LinkChanges, Commands!vars
  <2> QED
    BY <2>1 DEF CommandIInv
<1>2. \A b \in Typists : sends'[b].input \in Seq(STRING) /\ sends'[b].step \in {"idle", "record", "send"}
  <2>1. sends' \in [Typists -> [step : {"idle", "record", "send"}, input : Commands!AnyInput \cup {<<>>}]]
    BY DEF Commands!TypeOK
  <2> QED
    BY <2>1, CommandInputs
<1>3. CommandTexts'
  BY <1>1, <1>2 DEF CommandTexts
<1>4. ASSUME ~odd', NEW a \in Typists, NEW input \in Inputs[a], Commands!SshSend(a, input)
      PROVE  CommandsFollow'
  <2>1. ~odd /\ logFile = "open" /\ sends[a] = Commands!Idle
        /\ sends' = [sends EXCEPT ![a] = [step |-> "record", input |-> input]]
    BY <1>4 DEF Commands!SshSend, Commands!TypeOK
  <2> DEFINE s == [step |-> "record", input |-> input]
  <2>2. s.step # "send" /\ Commands!Idle.step # "send"
    BY DEF Commands!Idle
  <2>3. sends' = [sends EXCEPT ![a] = s]
    BY <2>1
  <2> HIDE DEF s
  <2>4. sends'[a] = s /\ \A b \in Typists \ {a} : sends'[b] = sends[b]
    BY <2>3, CommandMoves
  <2>5. \A b \in Typists : (sends'[b].step = "send" <=> sends[b].step = "send") /\ (sends'[b].step = "send" => sends'[b] = sends[b])
    BY <2>1, <2>2, <2>4
  <2> QED
    BY <1>1, <2>1, <2>5 DEF CommandsFollow
<1>5. ASSUME Commands!OpenHistory \/ Commands!CloseLog \/ Commands!LinkChanges \/ UNCHANGED Commands!vars
      PROVE  CommandsFollow'
  <2>1. UNCHANGED <<sends, odd>>
    BY <1>5 DEF Commands!OpenHistory, Commands!CloseLog, Commands!LinkChanges, Commands!vars
  <2> QED
    BY <1>1, <2>1 DEF CommandsFollow
<1>6. odd' => CommandsFollow'
  BY DEF CommandsFollow
<1> QED
  BY Zenon, <1>3, <1>4, <1>5, <1>6 DEF CommandIInv

\* Nothing was typed, recorded or submitted at first.
LEMMA CommandInitFollows == Commands!Init => CommandIInv
<1> SUFFICES ASSUME Commands!Init PROVE CommandIInv
  OBVIOUS
<1>1. buffer = <<>> /\ commands = <<>> /\ submitted = <<>> /\ \A a \in Typists : sends[a] = Commands!Idle
  BY DEF Commands!Init
<1>2. Commands!Idle.step = "idle" /\ Commands!Idle.input = <<>>
  BY DEF Commands!Idle
<1>3. <<>> \in Seq(STRING) /\ NoEnter(<<>>)
  BY EmptySeq DEF NoEnter
<1>4. CommandTexts
  BY <1>1, <1>2, <1>3 DEF CommandTexts
<1>5. TypedNothing.lines = <<>> /\ TypedNothing.line = <<>>
  BY DEF TypedNothing
<1>6. Commands!Typed[<<>>].lines = <<>> /\ Commands!Typed[<<>>].line = <<>>
  BY <1>5, TypedReads
<1>7. \A a \in Typists : sends[a].step # "send"
  BY <1>1, <1>2
<1>8. CommandsFollow
  BY <1>1, <1>6, <1>7 DEF CommandsFollow
<1> QED
  BY <1>4, <1>8 DEF CommandIInv

\* Every step keeps it.
LEMMA CommandNextFollows ==
    CommandIInv /\ Commands!TypeOK /\ Commands!TypeOK' /\ [Commands!Next]_(Commands!vars) => CommandIInv'
BY Zenon, CommandRecords, CommandSubmits, CommandOthers DEF Commands!Next

\* The invariant has what the runs check.
LEMMA CommandFollowsMean == CommandIInv => Commands!CommandsAreRecorded /\ Commands!LineIsOpen
<1> SUFFICES ASSUME CommandIInv PROVE Commands!CommandsAreRecorded /\ Commands!LineIsOpen
  OBVIOUS
<1>1. CommandTexts /\ CommandsFollow
  BY DEF CommandIInv
<1>2. Commands!LineIsOpen
  BY <1>1 DEF CommandTexts, NoEnter, Commands!LineIsOpen, Commands!Contains
<1>3. ASSUME ~odd, NEW a \in Typists, sends[a].step = "send"
      PROVE  Commands!IsPrefix(Commands!Typed[submitted].lines, commands)
  <2> DEFINE s == submitted
             l == Commands!Typed[s].line
             i == sends[a].input
  <2>1. s \in Seq(STRING) /\ i \in Seq(STRING) /\ Cat(s, i) \in Seq(STRING)
    BY <1>1, CatSeq DEF CommandTexts
  <2>2. l \in Seq(STRING) /\ NoEnter(l) /\ Commands!Typed[s].lines \in Seq(Seq(STRING))
    BY <2>1, TypedReads, TypedOpen DEF TypedLines
  <2>3. Commands!Typed[l].lines = <<>> /\ Commands!Typed[l].line = l
    BY <2>2, TypedLine
  <2> HIDE DEF s, i
  <2>4. Continues(Commands!Typed[s].lines, Commands!Typed[Cat(s, i)], Commands!Typed[Cat(l, i)])
    BY <2>1, <2>2, <2>3, TypedOn
  <2>5. Cat(l, i) \in Seq(STRING)
    BY <2>1, <2>2, CatSeq
  <2>6. Commands!Typed[Cat(l, i)].lines \in Seq(Seq(STRING))
    BY <2>5, TypedReads DEF TypedLines
  <2>7. Telnet!IsPrefix(Commands!Typed[s].lines, Cat(Commands!Typed[s].lines, Commands!Typed[Cat(l, i)].lines))
    BY <2>2, <2>6, CatIsPrefix
  <2>8. commands = Cat(Commands!Typed[s].lines, Commands!Typed[Cat(l, i)].lines)
    BY <1>1, <1>3, <2>4 DEF CommandsFollow, Continues, s, i
  <2> QED
    BY <2>7, <2>8 DEF Telnet!IsPrefix, Commands!IsPrefix, s
<1>4. Commands!CommandsAreRecorded
  BY <1>1, <1>3 DEF CommandsFollow, Commands!CommandsAreRecorded
<1> QED
  BY <1>2, <1>4

\* history.go recordInput, app.go SshSend: the log has the commands the session received, each once,
\* whole and in order, however they were split into calls, and before they are sent.
THEOREM CommandLogIsWhole == Commands!Spec => []Commands!CommandsAreRecorded
BY CommandInitFollows, CommandNextFollows, CommandFollowsMean, CommandTypeCorrect, PTL DEF Commands!Spec

\* history.go recordInput: a line that is complete does not wait in the buffer.
THEOREM CommandLineIsOpen == Commands!Spec => []Commands!LineIsOpen
BY CommandInitFollows, CommandNextFollows, CommandFollowsMean, CommandTypeCorrect, PTL DEF Commands!Spec
==============================================================================
