---------------------------- MODULE SchedulerProofs ----------------------------
(***************************************************************************)
(* The safety of Scheduler for any jobs, however many, and whatever their   *)
(* children do.                                                            *)
(***************************************************************************)
EXTENDS Scheduler, WellFoundedInduction, FiniteSetTheorems, SequenceTheorems, TLAPS

Object == [phase : Phases, child : Children, closed : BOOLEAN,
           stop : Promises, escalation : BOOLEAN, cancellation : BOOLEAN]

\* A job object beside the slots and the waiting line.
Sound(j, x, slots, line, ending) ==
  /\ x \in Object
  /\ j \in ToSet(line) => x.phase = "invoked" /\ x.child = "none" /\ x.stop = "none"
  /\ j \in slots <=> x.child # "none"
  /\ j \in slots => x.phase = "invoked"
  /\ x.phase = "delayed" => x.stop = "none"
  /\ x.stop = "resolved" => x.phase = "absent"
  /\ x.cancellation => x.child # "none"
  /\ ending /\ x.phase # "absent" => x.stop # "none"

Distinct(line) == \A i, k \in DOMAIN line : line[i] = line[k] => i = k

\* The queue of the scheduler, before and after it is drained.
Queue(jobs, slots, line, ending) ==
  /\ jobs \in [Jobs -> Object]
  /\ slots \subseteq Workers /\ IsFiniteSet(slots) /\ Cardinality(slots) <= MaxForkedWorkers
  /\ line \in Seq(Workers) /\ Distinct(line)
  /\ \A j \in Jobs : Sound(j, jobs[j], slots, line, ending)

IInv ==
  /\ Queue(job, active, waiting, stopping)
  /\ waiting # <<>> => Cardinality(active) = MaxForkedWorkers
  /\ started \in BOOLEAN /\ stopping \in BOOLEAN
  /\ awaited = Nothing \/ awaited \subseteq Jobs
  /\ awaited # Nothing => stopping /\ \A j \in Jobs : Registered(j) => j \in awaited

---------------------------------------------------------------------------
(* Lines.                                                                  *)

(* A set of natural numbers has a least one.                               *)
LEMMA LeastOfNumbers ==
  ASSUME NEW S \in SUBSET Nat, S # {}
  PROVE  \E m \in S : \A i \in S : m <= i
<1> DEFINE R == {ss \in Nat \X Nat : ss[1] < ss[2]}
<1>1. IsWellFoundedOn(R, Nat)
  BY NatLessThanWellFounded DEF OpToRel
<1>2. PICK m \in S : \A i \in S : <<i, m>> \notin R
  <2> HIDE DEF R
  <2> QED
    BY <1>1, WFMin
<1>3. ASSUME NEW i \in S PROVE m <= i
  <2>1. <<i, m>> \notin R /\ i \in Nat /\ m \in Nat
    BY <1>2
  <2> QED
    BY <2>1
<1> HIDE DEF R
<1> QED
  BY <1>3

UpTo(places, i) == {k \in places : k <= i}

(* Counting the places up to i: one more for each place, none before the   *)
(* first.                                                                  *)
LEMMA Counting ==
  ASSUME NEW L \in Nat, NEW places \in SUBSET (1..L), NEW n \in 1..Cardinality(places)
  PROVE  \E i \in places : Cardinality(UpTo(places, i)) = n
<1> DEFINE upto(i) == {k \in places : k <= i}
           late == {i \in 0..L : Cardinality(upto(i)) >= n}
<1>1. IsFiniteSet(places) /\ Cardinality(places) \in Nat
  <2>1. IsFiniteSet(1..L)
    BY FS_Interval
  <2> QED
    BY <2>1, FS_Subset, FS_CardinalityType
<1>2. ASSUME NEW i \in Nat PROVE IsFiniteSet(upto(i)) /\ Cardinality(upto(i)) \in Nat
  <2>1. upto(i) \in SUBSET places
    OBVIOUS
  <2> HIDE DEF upto
  <2> QED
    BY <1>1, <2>1, FS_Subset, FS_CardinalityType
<1>3. n \in Nat /\ n >= 1 /\ n <= Cardinality(places)
  BY <1>1
<1>4. L \in late
  <2>1. \A k \in places : k <= L
    OBVIOUS
  <2>2. upto(L) = places
    BY <2>1
  <2>3. L \in 0..L
    OBVIOUS
  <2> QED
    BY <1>1, <1>3, <2>2, <2>3
<1>5. PICK m \in late : \A i \in late : m <= i
  <2>1. late \in SUBSET (0..L)
    OBVIOUS
  <2> HIDE DEF late
  <2>2. late \in SUBSET Nat /\ late # {}
    BY <1>4, <2>1
  <2> QED
    BY <2>2, LeastOfNumbers
<1>6. m \in 0..L /\ Cardinality(upto(m)) >= n
  OBVIOUS
<1>7. \A i \in 0..L : i < m => ~(Cardinality(upto(i)) >= n)
  <2>1. ASSUME NEW i \in 0..L, i < m PROVE ~(Cardinality(upto(i)) >= n)
    <3>1. ~(m <= i)
      BY <1>6, <2>1
    <3>2. i \notin late
      <4> HIDE DEF late
      <4> QED
        BY <1>5, <3>1
    <3> HIDE DEF upto
    <3> QED
      BY <3>2
  <2> QED
    BY <2>1
<1>8. m # 0
  <2>1. upto(0) = {}
    <3>1. \A k \in places : ~(k <= 0)
      OBVIOUS
    <3> QED
      BY <3>1
  <2> HIDE DEF upto
  <2>2. Cardinality(upto(0)) = 0
    BY <2>1, FS_EmptySet
  <2> QED
    BY <1>3, <1>6, <2>2
<1>9. m - 1 \in 0..L /\ m - 1 \in Nat /\ m - 1 < m /\ m \in Nat
  BY <1>6, <1>8
<1> HIDE DEF late
<1>10. Cardinality(upto(m - 1)) < n
  <2> HIDE DEF upto
  <2>1. Cardinality(upto(m - 1)) \in Nat /\ ~(Cardinality(upto(m - 1)) >= n)
    BY <1>2, <1>7, <1>9
  <2> QED
    BY <1>3, <2>1
<1>11. CASE m \in places
  <2>1. upto(m) = upto(m - 1) \cup {m} /\ m \notin upto(m - 1)
    <3>1. ASSUME NEW k \in places PROVE k <= m <=> (k <= m - 1 \/ k = m)
      BY <1>9
    <3>2. ~(m <= m - 1)
      BY <1>9
    <3> QED
      BY <1>11, <3>1, <3>2
  <2> HIDE DEF upto
  <2>2. IsFiniteSet(upto(m - 1)) /\ Cardinality(upto(m - 1)) \in Nat
    BY <1>2, <1>9
  <2>3. Cardinality(upto(m)) = Cardinality(upto(m - 1)) + 1
    BY <2>1, <2>2, FS_AddElement
  <2>4. Cardinality(upto(m)) = n
    BY <1>3, <1>6, <1>10, <2>2, <2>3
  <2> QED
    BY <1>11, <2>4 DEF upto, UpTo
<1>12. CASE m \notin places
  <2>1. upto(m) = upto(m - 1)
    <3>1. ASSUME NEW k \in places PROVE k <= m <=> k <= m - 1
      BY <1>9, <1>12
    <3> QED
      BY <3>1
  <2> HIDE DEF upto
  <2>2. Cardinality(upto(m)) < n /\ Cardinality(upto(m)) \in Nat
    BY <1>2, <1>9, <1>10, <2>1
  <2> QED
    BY <1>3, <1>6, <2>2
<1> QED
  BY <1>11, <1>12

(* Two places are not the n-th at once.                                    *)
LEMMA CountingOnce ==
  ASSUME NEW L \in Nat, NEW places \in SUBSET (1..L), NEW i \in places, NEW j \in places,
         Cardinality(UpTo(places, i)) = Cardinality(UpTo(places, j))
  PROVE  i = j
<1> DEFINE upto(h) == {k \in places : k <= h}
<1>1. IsFiniteSet(places)
  <2>1. IsFiniteSet(1..L)
    BY FS_Interval
  <2> QED
    BY <2>1, FS_Subset
<1>2. i \in Nat /\ j \in Nat
  OBVIOUS
<1>3. i \in upto(i) /\ j \in upto(j)
  BY <1>2
<1>4. i \in upto(j) => i <= j
  OBVIOUS
<1>5. j \in upto(i) => j <= i
  OBVIOUS
<1>6. upto(i) \subseteq upto(j) \/ upto(j) \subseteq upto(i)
  <2>1. CASE i <= j
    <3>1. ASSUME NEW k \in places, k <= i PROVE k <= j
      BY <2>1, <3>1, <1>2
    <3> QED
      BY <3>1
  <2>2. CASE j <= i
    <3>1. ASSUME NEW k \in places, k <= j PROVE k <= i
      BY <2>2, <3>1, <1>2
    <3> QED
      BY <3>1
  <2> QED
    BY <1>2, <2>1, <2>2
<1>7. Cardinality(upto(i)) = Cardinality(upto(j))
  BY DEF UpTo
<1>8. upto(i) \in SUBSET places /\ upto(j) \in SUBSET places
  OBVIOUS
<1> HIDE DEF upto
<1>9. IsFiniteSet(upto(i)) /\ IsFiniteSet(upto(j))
  BY <1>1, <1>8, FS_Subset
<1>10. upto(i) = upto(j)
  BY <1>6, <1>7, <1>9, FS_Subset
<1> QED
  BY <1>2, <1>3, <1>4, <1>5, <1>10

(* What is picked of a line is a line of those members, nobody twice.      *)
LEMMA ThoseOfALine ==
  ASSUME NEW S, NEW line \in Seq(S), NEW some
  PROVE  /\ Those(line, some) \in Seq(S)
         /\ ToSet(Those(line, some)) = ToSet(line) \cap some
         /\ Distinct(line) => Distinct(Those(line, some))
<1> DEFINE L == Len(line)
           places == {i \in 1..L : line[i] \in some}
           upto(i) == UpTo(places, i)
           place(n) == CHOOSE i \in places : Cardinality(upto(i)) = n
           N == Cardinality(places)
           kept == Those(line, some)
<1>1. L \in Nat /\ DOMAIN line = 1..L /\ places \in SUBSET (1..L) /\ \A i \in 1..L : line[i] \in S
  BY LenProperties, ElementOfSeq
<1>2. IsFiniteSet(places) /\ N \in Nat
  <2>1. IsFiniteSet(1..L)
    BY <1>1, FS_Interval
  <2> QED
    BY <2>1, FS_Subset, FS_CardinalityType
<1>3. kept = [n \in 1..N |-> line[place(n)]]
  BY <1>1 DEF Those, UpTo
<1>4. ASSUME NEW n \in 1..N PROVE place(n) \in places /\ Cardinality(upto(place(n))) = n
  <2>1. \E i \in places : Cardinality(upto(i)) = n
    <3> HIDE DEF places
    <3> QED
      BY <1>1, Counting
  <2> HIDE DEF places
  <2> QED
    BY <2>1
<1>5. ASSUME NEW i \in places PROVE Cardinality(upto(i)) \in 1..N /\ place(Cardinality(upto(i))) = i
  <2>1. i \in upto(i) /\ upto(i) \subseteq places
    BY DEF UpTo
  <2>2. IsFiniteSet(upto(i)) /\ Cardinality(upto(i)) <= N /\ Cardinality(upto(i)) \in Nat
    BY <1>2, <2>1, FS_Subset, FS_CardinalityType
  <2>3. Cardinality(upto(i)) # 0
    BY <2>1, <2>2, FS_EmptySet
  <2>4. Cardinality(upto(i)) \in 1..N
    BY <1>2, <2>2, <2>3
  <2> DEFINE n == Cardinality(upto(i))
  <2>5. place(n) \in places /\ Cardinality(upto(place(n))) = n
    BY <1>4, <2>4
  <2> DEFINE j == place(n)
  <2>6. j \in places /\ Cardinality(upto(j)) = Cardinality(upto(i))
    BY <2>5
  <2> HIDE DEF j, n, places, L
  <2>7. j = i
    BY <1>1, <2>6, CountingOnce
  <2> QED
    BY <2>4, <2>7 DEF j
<1> HIDE DEF place, N
<1>6. \A n \in 1..N : kept[n] \in S /\ kept[n] \in some /\ kept[n] = line[place(n)]
  BY <1>1, <1>3, <1>4
<1>7. kept \in Seq(S) /\ DOMAIN kept = 1..N
  <2>1. kept \in [1..N -> S]
    BY <1>3, <1>6
  <2> QED
    BY <1>2, <2>1, SeqDef
<1>8. ToSet(kept) = ToSet(line) \cap some
  <2>1. ASSUME NEW n \in 1..N PROVE kept[n] \in ToSet(line) \cap some
    BY <1>1, <1>4, <1>6 DEF ToSet
  <2>2. ASSUME NEW i \in 1..L, line[i] \in some PROVE \E n \in 1..N : kept[n] = line[i]
    BY <1>5, <1>6, <2>2
  <2> HIDE DEF kept, places, L
  <2> QED
    BY <1>1, <1>7, <2>1, <2>2 DEF ToSet
<1>9. ASSUME Distinct(line), NEW n \in 1..N, NEW m \in 1..N, kept[n] = kept[m] PROVE n = m
  <2>1. place(n) = place(m)
    BY <1>1, <1>4, <1>6, <1>9 DEF Distinct
  <2> QED
    BY <1>4, <2>1
<1> QED
  BY <1>7, <1>8, <1>9 DEF Distinct

(* Two lines with nobody in common make one line.                          *)
LEMMA LinesInARow ==
  ASSUME NEW S, NEW s \in Seq(S), NEW t \in Seq(S), Distinct(s), Distinct(t),
         ToSet(s) \cap ToSet(t) = {}
  PROVE  /\ s \o t \in Seq(S) /\ Distinct(s \o t)
         /\ ToSet(s \o t) = ToSet(s) \cup ToSet(t)
<1> DEFINE a == Len(s)
           b == Len(t)
           u == s \o t
<1>1. a \in Nat /\ DOMAIN s = 1..a /\ b \in Nat /\ DOMAIN t = 1..b
  BY LenProperties
<1>2. u \in Seq(S) /\ Len(u) = a + b /\ \A i \in 1..a + b : u[i] = IF i <= a THEN s[i] ELSE t[i - a]
  BY ConcatProperties
<1>3. DOMAIN u = 1..a + b
  BY <1>2, LenProperties
<1> HIDE DEF a, b, u
<1>4. \A i \in 1..a : i \in 1..a + b /\ u[i] = s[i]
  BY <1>1, <1>2
<1>5. \A i \in 1..b : i + a \in 1..a + b /\ u[i + a] = t[i]
  BY <1>1, <1>2
<1>6. \A i \in 1..a + b : i \in 1..a \/ (i - a \in 1..b /\ (i - a) + a = i)
  BY <1>1
<1>7. ToSet(u) = ToSet(s) \cup ToSet(t)
  <2>1. ASSUME NEW i \in 1..a + b PROVE u[i] \in ToSet(s) \cup ToSet(t)
    <3>1. CASE i \in 1..a
      BY <1>1, <1>4, <3>1 DEF ToSet
    <3>2. CASE i - a \in 1..b /\ (i - a) + a = i
      BY <1>1, <1>5, <3>2 DEF ToSet
    <3> QED
      BY <1>6, <3>1, <3>2
  <2>2. ASSUME NEW i \in 1..a PROVE s[i] \in ToSet(u)
    BY <1>3, <1>4 DEF ToSet
  <2>3. ASSUME NEW i \in 1..b PROVE t[i] \in ToSet(u)
    BY <1>3, <1>5 DEF ToSet
  <2> QED
    BY <1>1, <1>3, <2>1, <2>2, <2>3 DEF ToSet
<1>8. ASSUME NEW i \in 1..a + b, NEW k \in 1..a + b, u[i] = u[k] PROVE i = k
  <2>1. CASE i \in 1..a /\ k \in 1..a
    BY <1>1, <1>4, <1>8, <2>1 DEF Distinct
  <2>2. CASE i - a \in 1..b /\ k - a \in 1..b /\ (i - a) + a = i /\ (k - a) + a = k
    <3>1. t[i - a] = t[k - a]
      BY <1>5, <1>8, <2>2
    <3>2. i - a = k - a
      BY <1>1, <2>2, <3>1 DEF Distinct
    <3> QED
      BY <2>2, <3>2
  <2>3. ASSUME NEW h \in 1..a, NEW g \in 1..b PROVE u[h] # u[g + a]
    <3>1. s[h] \in ToSet(s) /\ t[g] \in ToSet(t)
      BY <1>1 DEF ToSet
    <3> QED
      BY <1>4, <1>5, <3>1
  <2>4. CASE i \in 1..a /\ k - a \in 1..b /\ (k - a) + a = k
    BY <1>8, <2>3, <2>4
  <2>5. CASE k \in 1..a /\ i - a \in 1..b /\ (i - a) + a = i
    BY <1>8, <2>3, <2>5
  <2> QED
    BY <1>6, <2>1, <2>2, <2>4, <2>5
<1> QED
  BY <1>2, <1>3, <1>7, <1>8 DEF u, Distinct

(* A line with one more.                                                   *)
LEMMA LineWithOneMore ==
  ASSUME NEW S, NEW s \in Seq(S), NEW x \in S, Distinct(s), x \notin ToSet(s)
  PROVE  /\ Append(s, x) \in Seq(S) /\ Distinct(Append(s, x))
         /\ ToSet(Append(s, x)) = ToSet(s) \cup {x}
<1> DEFINE a == Len(s)
           u == Append(s, x)
<1>1. a \in Nat /\ DOMAIN s = 1..a
  BY LenProperties
<1>2. u \in Seq(S) /\ Len(u) = a + 1 /\ (\A i \in 1..a : u[i] = s[i]) /\ u[a + 1] = x
  BY AppendProperties
<1>3. DOMAIN u = 1..a + 1
  BY <1>2, LenProperties
<1> HIDE DEF a, u
<1>4. \A i \in 1..a + 1 : i \in 1..a \/ i = a + 1
  BY <1>1
<1>5. \A i \in 1..a : i \in 1..a + 1 /\ s[i] \in ToSet(s)
  BY <1>1 DEF ToSet
<1>6. a + 1 \in 1..a + 1
  BY <1>1
<1>7. ToSet(u) = ToSet(s) \cup {x}
  <2>1. ASSUME NEW i \in 1..a + 1 PROVE u[i] \in ToSet(s) \cup {x}
    BY <1>2, <1>4, <1>5
  <2>2. x \in ToSet(u)
    BY <1>2, <1>3, <1>6 DEF ToSet
  <2>3. ASSUME NEW i \in 1..a PROVE s[i] \in ToSet(u)
    BY <1>2, <1>3, <1>5 DEF ToSet
  <2> QED
    BY <1>1, <1>3, <2>1, <2>2, <2>3 DEF ToSet
<1>8. ASSUME NEW i \in 1..a + 1, NEW k \in 1..a + 1, u[i] = u[k] PROVE i = k
  <2>1. CASE i \in 1..a /\ k \in 1..a
    BY <1>1, <1>2, <1>8, <2>1 DEF Distinct
  <2>2. CASE i = a + 1 \/ k = a + 1
    BY <1>2, <1>4, <1>5, <1>8, <2>2
  <2> QED
    BY <1>4, <2>1, <2>2
<1> QED
  BY <1>2, <1>3, <1>7, <1>8 DEF u, Distinct

Foremost(line, n) == {line[i] : i \in 1..n}

(* The head of a line and the rest of it.                                  *)
LEMMA HeadOfALine ==
  ASSUME NEW S, NEW line \in Seq(S), Distinct(line), NEW n \in Nat, n <= Len(line)
  PROVE  LET rest == SubSeq(line, n + 1, Len(line))
         IN  /\ rest \in Seq(S) /\ Distinct(rest)
             /\ Foremost(line, n) \subseteq S /\ Foremost(line, n) \cap ToSet(rest) = {}
             /\ ToSet(line) = Foremost(line, n) \cup ToSet(rest)
             /\ n = Len(line) <=> rest = <<>>
<1> DEFINE L == Len(line)
           head == {line[i] : i \in 1..n}
           rest == SubSeq(line, n + 1, L)
<1>1. L \in Nat /\ DOMAIN line = 1..L /\ \A i \in 1..L : line[i] \in S
  BY LenProperties, ElementOfSeq
<1>2. rest \in Seq(S) /\ Len(rest) = L - n /\ \A i \in 1..L - n : rest[i] = line[n + i]
  <2>1. n + 1 \in Int /\ L \in Int /\ \A i \in n + 1..L : line[i] \in S
    BY <1>1
  <2> HIDE DEF L
  <2>2. /\ rest \in Seq(S)
        /\ Len(rest) = IF n + 1 <= L THEN L - (n + 1) + 1 ELSE 0
        /\ \A i \in 1..L - (n + 1) + 1 : rest[i] = line[n + 1 + i - 1]
    BY <2>1, SubSeqProperties
  <2>3. n <= L
    BY DEF L
  <2>4. Len(rest) = L - n
    BY <1>1, <2>2, <2>3
  <2>5. ASSUME NEW i \in 1..L - n PROVE rest[i] = line[n + i]
    <3>1. i \in 1..L - (n + 1) + 1 /\ n + 1 + i - 1 = n + i
      BY <1>1
    <3> HIDE DEF rest
    <3> QED
      BY <2>2, <3>1
  <2> QED
    BY <2>2, <2>4, <2>5
<1>3. DOMAIN rest = 1..L - n
  BY <1>2, LenProperties
<1>4. n = L <=> rest = <<>>
  <2> HIDE DEF rest, L
  <2>1. Len(<<>>) = 0 /\ (rest # <<>> => Len(rest) # 0)
    BY <1>2, EmptySeq
  <2>2. n = L <=> Len(rest) = 0
    BY <1>1, <1>2
  <2> QED
    BY <2>1, <2>2
<1>5. n <= L
  OBVIOUS
<1> HIDE DEF L, rest
<1>6. \A i \in 1..n : i \in 1..L
  BY <1>1, <1>5
<1>7. \A i \in 1..L - n : n + i \in 1..L
  BY <1>1, <1>5
<1>8. head \subseteq S
  BY <1>1, <1>6
<1>9. ToSet(line) = head \cup ToSet(rest)
  <2>1. ASSUME NEW i \in 1..L PROVE line[i] \in head \cup ToSet(rest)
    <3>1. CASE i \in 1..n
      BY <3>1
    <3>2. CASE i \notin 1..n
      <4>1. i - n \in 1..L - n /\ n + (i - n) = i
        BY <1>1, <1>5, <3>2
      <4> QED
        BY <1>2, <1>3, <4>1 DEF ToSet
    <3> QED
      BY <3>1, <3>2
  <2>2. ASSUME NEW i \in 1..n PROVE line[i] \in ToSet(line)
    BY <1>1, <1>6 DEF ToSet
  <2>3. ASSUME NEW i \in 1..L - n PROVE rest[i] \in ToSet(line)
    BY <1>1, <1>2, <1>7 DEF ToSet
  <2> QED
    BY <1>1, <1>3, <2>1, <2>2, <2>3 DEF ToSet
<1>10. head \cap ToSet(rest) = {}
  <2>1. ASSUME NEW i \in 1..n, NEW k \in 1..L - n PROVE line[i] # rest[k]
    <3>1. i # n + k
      BY <1>1, <1>5
    <3> QED
      BY <1>1, <1>2, <1>6, <1>7, <3>1 DEF Distinct
  <2> QED
    BY <1>3, <2>1 DEF ToSet
<1>11. ASSUME NEW i \in 1..L - n, NEW k \in 1..L - n, rest[i] = rest[k] PROVE i = k
  <2>1. n + i = n + k
    BY <1>1, <1>2, <1>7, <1>11 DEF Distinct
  <2> QED
    BY <2>1
<1>12. rest \in Seq(S) /\ Distinct(rest)
  BY <1>2, <1>3, <1>11 DEF Distinct
<1> QED
  BY <1>4, <1>8, <1>9, <1>10, <1>12 DEF L, rest, Foremost

(* At most two that join the slots are counted.                            *)
LEMMA SlotsTaken ==
  ASSUME NEW S, NEW line \in Seq(S), Distinct(line), NEW n \in 0..2, n <= Len(line),
         NEW slots, IsFiniteSet(slots), slots \cap Foremost(line, n) = {}
  PROVE  /\ IsFiniteSet(slots \cup Foremost(line, n))
         /\ Cardinality(slots \cup Foremost(line, n)) = Cardinality(slots) + n
<1> DEFINE head == Foremost(line, n)
<1> USE DEF Foremost
<1>1. Cardinality(slots) \in Nat
  BY FS_CardinalityType
<1>2. CASE n = 0
  <2>1. head = {}
    BY <1>2
  <2>2. slots \cup head = slots
    BY <2>1
  <2> HIDE DEF head, Foremost
  <2>3. Cardinality(slots \cup head) = Cardinality(slots)
    BY <2>2, Zenon
  <2>4. \A c \in Nat : c = c + n
    BY <1>2
  <2>5. IsFiniteSet(slots \cup head) /\ Cardinality(slots) = Cardinality(slots) + n
    BY <1>1, <2>2, <2>4, Zenon
  <2> QED
    BY <2>3, <2>5, Zenon DEF head
<1>3. CASE n = 1
  <2>1. head = {line[1]}
    BY <1>3
  <2>2. line[1] \notin slots
    BY <2>1
  <2>3. slots \cup head = slots \cup {line[1]}
    BY <2>1
  <2> HIDE DEF head, Foremost
  <2>4. IsFiniteSet(slots \cup head) /\ Cardinality(slots \cup head) = Cardinality(slots) + 1
    BY <2>2, <2>3, FS_AddElement
  <2> QED
    BY <1>3, <2>4 DEF head
<1>4. CASE n = 2
  <2>1. 1 \in 1..n /\ 2 \in 1..n /\ \A i \in 1..n : i = 1 \/ i = 2
    BY <1>4
  <2>2. head = {line[1], line[2]}
    BY <2>1
  <2>3. line[1] # line[2]
    <3>1. DOMAIN line = 1..Len(line) /\ Len(line) \in Nat
      BY LenProperties
    <3>2. 1 \in DOMAIN line /\ 2 \in DOMAIN line
      BY <1>4, <3>1
    <3> QED
      BY <3>2 DEF Distinct
  <2>4. line[1] \notin slots /\ line[2] \notin slots
    BY <2>2
  <2>5. slots \cup head = (slots \cup {line[1]}) \cup {line[2]} /\ line[2] \notin slots \cup {line[1]}
    BY <2>2, <2>3, <2>4
  <2> HIDE DEF head, Foremost
  <2> DEFINE first == slots \cup {line[1]}
  <2>6. IsFiniteSet(first) /\ Cardinality(first) = Cardinality(slots) + 1
    BY <2>4, FS_AddElement
  <2>7. slots \cup head = first \cup {line[2]} /\ line[2] \notin first
    BY <2>5
  <2> HIDE DEF first
  <2>8. IsFiniteSet(slots \cup head) /\ Cardinality(slots \cup head) = Cardinality(first) + 1
    BY <2>6, <2>7, FS_AddElement
  <2> QED
    BY <1>1, <1>4, <2>6, <2>8 DEF head
<1> QED
  BY <1>2, <1>3, <1>4

---------------------------------------------------------------------------
(* Admission.                                                              *)

(* Whoever waits is a job that was invoked and not stopped, so nobody waits *)
(* once the scheduler stops.                                               *)
LEMMA NobodyWaitsWhileStopping ==
  ASSUME NEW jobs, NEW slots, NEW line, Queue(jobs, slots, line, TRUE)
  PROVE  line = <<>>
<1>1. SUFFICES ASSUME line # <<>> PROVE FALSE
  OBVIOUS
<1>2. line \in Seq(Workers)
  BY DEF Queue
<1>3. Len(line) \in Nat /\ Len(line) # 0 /\ DOMAIN line = 1..Len(line)
  BY <1>1, <1>2, LenProperties, EmptySeq
<1>4. 1 \in DOMAIN line
  BY <1>3
<1>5. line[1] \in ToSet(line) /\ line[1] \in Workers
  BY <1>2, <1>3, <1>4, ElementOfSeq DEF ToSet
<1>6. Sound(line[1], jobs[line[1]], slots, line, TRUE)
  BY <1>5, JobAssumption DEF Queue
<1> QED
  BY <1>5, <1>6 DEF Sound

(* Draining the line keeps the queue in order: it fills the slots or       *)
(* empties the line, and only those that wait get a process.               *)
LEMMA Draining ==
  ASSUME NEW jobs, NEW slots, NEW line, stopping \in BOOLEAN,
         Queue(jobs, slots, line, stopping), Drain(jobs, slots, line)
  PROVE  /\ Queue(job', active', waiting', stopping)
         /\ waiting' # <<>> => Cardinality(active') = MaxForkedWorkers
         /\ \A j \in Jobs : /\ job'[j].phase = jobs[j].phase /\ job'[j].stop = jobs[j].stop
                            /\ \/ job'[j] = jobs[j]
                               \/ ~stopping /\ j \in ToSet(line)
<1> DEFINE L == Len(line)
           n == IF Room(slots) < L THEN Room(slots) ELSE L
           head == Foremost(line, n)
           rest == SubSeq(line, n + 1, L)
<1>1. /\ jobs \in [Jobs -> Object]
      /\ slots \subseteq Workers /\ IsFiniteSet(slots) /\ Cardinality(slots) <= 2
      /\ line \in Seq(Workers) /\ Distinct(line)
      /\ \A j \in Jobs : Sound(j, jobs[j], slots, line, stopping)
  BY DEF Queue, MaxForkedWorkers
<1>2. PICK fork \in [head -> Forks] :
           job' = [j \in Jobs |-> IF j \in head THEN [jobs[j] EXCEPT !.child = fork[j], !.closed = FALSE]
                                  ELSE jobs[j]]
  BY DEF Drain, Foremost
<1>3. active' = slots \cup head /\ waiting' = rest
  BY DEF Drain, Foremost
<1>4. L \in Nat /\ Cardinality(slots) \in 0..2
  BY <1>1, LenProperties, FS_CardinalityType
<1>5. stopping => L = 0
  BY <1>1, NobodyWaitsWhileStopping, EmptySeq
<1>6. n \in 0..2 /\ n <= L /\ n <= Room(slots) /\ (n # L => n = Room(slots))
  <2>1. Room(slots) \in 0..2
    BY <1>4 DEF Room, MaxForkedWorkers
  <2> HIDE DEF L
  <2> QED
    BY <1>4, <2>1
<1>7. ~stopping => Room(slots) = 2 - Cardinality(slots)
  BY DEF Room, MaxForkedWorkers
<1>8. stopping => n = 0 /\ n = L
  BY <1>4, <1>5, <1>6
<1> HIDE DEF n
<1>9. /\ rest \in Seq(Workers) /\ Distinct(rest)
      /\ head \subseteq Workers /\ head \cap ToSet(rest) = {}
      /\ ToSet(line) = head \cup ToSet(rest)
      /\ n = L <=> rest = <<>>
  BY <1>1, <1>6, HeadOfALine
<1> HIDE DEF L, rest
<1>10. Workers \subseteq Jobs
  BY JobAssumption
<1>11. slots \cap head = {}
  <2>1. ASSUME NEW j \in head PROVE j \notin slots
    <3>1. j \in Jobs /\ j \in ToSet(line)
      BY <1>9, <1>10
    <3> QED
      BY <1>1, <3>1 DEF Sound
  <2> QED
    BY <2>1
<1>12. IsFiniteSet(slots \cup head) /\ Cardinality(slots \cup head) = Cardinality(slots) + n
  <2>1. n <= Len(line)
    BY <1>6 DEF L
  <2> QED
    BY <1>1, <1>6, <1>11, <2>1, SlotsTaken
<1> HIDE DEF head
<1>13. Cardinality(active') <= 2 /\ (rest # <<>> => Cardinality(active') = 2)
  <2>1. CASE stopping
    BY <1>3, <1>4, <1>8, <1>9, <1>12, <2>1
  <2>2. CASE ~stopping
    BY <1>3, <1>4, <1>6, <1>7, <1>9, <1>12, <2>2
  <2> QED
    BY <2>1, <2>2
<1>14. ASSUME NEW j \in Jobs
       PROVE  /\ Sound(j, job'[j], active', rest, stopping)
              /\ job'[j].phase = jobs[j].phase /\ job'[j].stop = jobs[j].stop
              /\ job'[j] = jobs[j] \/ (~stopping /\ j \in ToSet(line))
  <2>1. jobs[j] \in Object /\ Sound(j, jobs[j], slots, line, stopping)
    BY <1>1
  <2>2. CASE j \in head
    <3>1. fork[j] \in Forks
      BY <1>2, <2>2
    <3>2. job'[j] = [jobs[j] EXCEPT !.child = fork[j], !.closed = FALSE]
      BY <1>2, <2>2
    <3>3. /\ job'[j] \in Object /\ job'[j].child = fork[j]
          /\ job'[j].phase = jobs[j].phase /\ job'[j].stop = jobs[j].stop
      BY <2>1, <3>1, <3>2 DEF Object, Forks, Children
    <3>4. job'[j].child # "none"
      BY <3>1, <3>3 DEF Forks
    <3>5. j \in active' /\ j \notin ToSet(rest) /\ j \in ToSet(line)
      BY <1>3, <1>9, <2>2
    <3>6. ~stopping
      <4>1. jobs[j].phase = "invoked" /\ jobs[j].stop = "none"
        BY <2>1, <3>5 DEF Sound
      <4> QED
        BY <2>1, <4>1 DEF Sound
    <3> QED
      BY <2>1, <3>3, <3>4, <3>5, <3>6 DEF Sound
  <2>3. CASE j \notin head
    <3>1. job'[j] = jobs[j]
      BY <1>2, <2>3
    <3>2. (j \in active' <=> j \in slots) /\ (j \in ToSet(rest) <=> j \in ToSet(line))
      BY <1>3, <1>9, <2>3
    <3> QED
      BY <2>1, <3>1, <3>2 DEF Sound
  <2> QED
    BY <2>2, <2>3
<1>15. job' \in [Jobs -> Object]
  <2>1. ASSUME NEW j \in Jobs PROVE job'[j] \in Object
    BY <1>14 DEF Sound
  <2>2. job' = [j \in Jobs |-> job'[j]]
    BY <1>2
  <2> QED
    BY <2>1, <2>2
<1>16. active' \subseteq Workers /\ IsFiniteSet(active')
  BY <1>1, <1>3, <1>9, <1>12
<1> QED
  BY <1>3, <1>9, <1>13, <1>14, <1>15, <1>16 DEF Queue, MaxForkedWorkers

---------------------------------------------------------------------------
(* What the callbacks do to a job and to the line.                         *)

(* Registering jobs that are not in the queue.                             *)
LEMMA Registering ==
  ASSUME IInv, ~stopping, NEW new \in Seq(Jobs), Distinct(new),
         \A j \in ToSet(new) : ~Registered(j)
  PROVE  LET line == waiting \o Those(new, Workers \cap Immediate)
         IN  /\ Queue([j \in Jobs |-> IF j \in ToSet(new) THEN Fresh(j) ELSE job[j]],
                      active, line, stopping)
             /\ \A j \in ToSet(line) : Registered(j) => j \in ToSet(waiting)
<1> DEFINE mine == Those(new, Workers \cap Immediate)
           line == waiting \o mine
           jobs == [j \in Jobs |-> IF j \in ToSet(new) THEN Fresh(j) ELSE job[j]]
<1>1. /\ job \in [Jobs -> Object]
      /\ active \subseteq Workers /\ IsFiniteSet(active) /\ Cardinality(active) <= MaxForkedWorkers
      /\ waiting \in Seq(Workers) /\ Distinct(waiting)
      /\ \A j \in Jobs : Sound(j, job[j], active, waiting, stopping)
  BY DEF IInv, Queue
<1>2. mine \in Seq(Jobs) /\ Distinct(mine) /\ ToSet(mine) = ToSet(new) \cap (Workers \cap Immediate)
  BY ThoseOfALine
<1>3. mine \in Seq(Workers)
  <2>1. Len(mine) \in Nat /\ DOMAIN mine = 1..Len(mine) /\ mine \in [1..Len(mine) -> Jobs]
    BY <1>2, LenProperties
  <2> HIDE DEF mine
  <2>2. ASSUME NEW i \in 1..Len(mine) PROVE mine[i] \in Workers
    <3>1. mine[i] \in ToSet(mine)
      BY <2>1 DEF ToSet
    <3> QED
      BY <1>2, <3>1
  <2>3. mine \in [1..Len(mine) -> Workers]
    BY <2>1, <2>2
  <2> QED
    BY <2>1, <2>3, SeqDef
<1>4. ToSet(waiting) \cap ToSet(mine) = {}
  <2>1. ASSUME NEW j \in ToSet(waiting), j \in ToSet(mine) PROVE FALSE
    <3>1. j \in Workers /\ j \in Jobs /\ ~Registered(j)
      BY <1>2, <2>1, JobAssumption
    <3> QED
      BY <1>1, <3>1 DEF Sound, Registered
  <2> QED
    BY <2>1
<1> HIDE DEF mine
<1>5. line \in Seq(Workers) /\ Distinct(line) /\ ToSet(line) = ToSet(waiting) \cup ToSet(mine)
  BY <1>1, <1>2, <1>3, <1>4, LinesInARow
<1> HIDE DEF line
<1>6. ASSUME NEW j \in Jobs PROVE Sound(j, jobs[j], active, line, stopping)
  <2>1. Sound(j, job[j], active, waiting, stopping)
    BY <1>1
  <2>2. CASE j \in ToSet(new)
    <3>1. jobs[j] = Fresh(j) /\ ~Registered(j)
      BY <2>2
    <3>2. /\ Fresh(j) \in Object /\ Fresh(j).child = "none" /\ Fresh(j).stop = "none"
          /\ ~Fresh(j).cancellation
      BY DEF Fresh, NewJob, Object, Phases, Children, Promises
    <3>3. j \in Immediate => Fresh(j).phase = "invoked"
      BY DEF Fresh, NewJob
    <3>4. j \notin active /\ j \notin ToSet(waiting)
      BY <2>1, <3>1 DEF Sound, Registered
    <3>5. j \in ToSet(line) => j \in Immediate
      BY <1>2, <1>5, <3>4
    <3> QED
      BY <3>1, <3>2, <3>3, <3>4, <3>5 DEF Sound
  <2>3. CASE j \notin ToSet(new)
    <3>1. jobs[j] = job[j] /\ (j \in ToSet(line) <=> j \in ToSet(waiting))
      BY <1>2, <1>5, <2>3
    <3> QED
      BY <2>1, <3>1 DEF Sound
  <2> QED
    BY <2>2, <2>3
<1>7. jobs \in [Jobs -> Object]
  BY <1>6 DEF Sound
<1>8. \A j \in ToSet(line) : Registered(j) => j \in ToSet(waiting)
  BY <1>2, <1>5
<1> QED
  BY <1>1, <1>5, <1>6, <1>7, <1>8 DEF Queue, line, mine

(* A timer puts a worker at the end of the line.                           *)
LEMMA FiringTimer ==
  ASSUME IInv, NEW j \in Jobs, job[j].phase = "delayed"
  PROVE  LET line == IF j \in Workers THEN Append(waiting, j) ELSE waiting
         IN  /\ Queue([job EXCEPT ![j] = Invoked(j)], active, line, stopping)
             /\ ToSet(line) \subseteq ToSet(waiting) \cup {j}
             /\ ~stopping /\ job[j].stop = "none"
<1> DEFINE line == IF j \in Workers THEN Append(waiting, j) ELSE waiting
           jobs == [job EXCEPT ![j] = Invoked(j)]
<1>1. /\ job \in [Jobs -> Object]
      /\ active \subseteq Workers /\ IsFiniteSet(active) /\ Cardinality(active) <= MaxForkedWorkers
      /\ waiting \in Seq(Workers) /\ Distinct(waiting)
      /\ \A k \in Jobs : Sound(k, job[k], active, waiting, stopping)
  BY DEF IInv, Queue
<1>2. Sound(j, job[j], active, waiting, stopping)
  BY <1>1
<1>3. j \notin ToSet(waiting) /\ j \notin active /\ ~stopping /\ job[j].stop = "none" /\ job[j].child = "none"
  BY <1>2 DEF Sound
<1>4. /\ line \in Seq(Workers) /\ Distinct(line)
      /\ ToSet(line) \subseteq ToSet(waiting) \cup {j} /\ ToSet(waiting) \subseteq ToSet(line)
  BY <1>1, <1>3, LineWithOneMore
<1> HIDE DEF line
<1>5. ASSUME NEW k \in Jobs PROVE Sound(k, jobs[k], active, line, stopping)
  <2>1. CASE k = j
    <3>1. jobs[k] = Invoked(j) /\ job[j] \in Object
      BY <1>1, <2>1
    <3>2. /\ Invoked(j) \in Object /\ Invoked(j).phase = "invoked"
          /\ Invoked(j).child = "none" /\ Invoked(j).stop = "none"
          /\ Invoked(j).cancellation = job[j].cancellation
      BY <1>3, <3>1 DEF Invoked, Object, Phases
    <3> QED
      BY <1>2, <1>3, <2>1, <3>1, <3>2 DEF Sound
  <2>2. CASE k # j
    <3>1. jobs[k] = job[k] /\ (k \in ToSet(line) <=> k \in ToSet(waiting))
      BY <1>1, <1>4, <2>2
    <3> QED
      BY <1>1, <3>1 DEF Sound
  <2> QED
    BY <2>1, <2>2
<1>6. jobs \in [Jobs -> Object]
  <2>1. jobs[j] \in Object
    BY <1>5 DEF Sound
  <2> QED
    BY <1>1, <2>1
<1> QED
  BY <1>1, <1>3, <1>4, <1>5, <1>6 DEF Queue, line

(* The end of an execution frees the slot.                                 *)
LEMMA Ending ==
  ASSUME IInv, NEW j \in Jobs, Executing(j)
  PROVE  /\ Queue([job EXCEPT ![j] = Ended(j)], active \ {j}, waiting, stopping)
         /\ Ended(j).child = "none"
<1> DEFINE jobs == [job EXCEPT ![j] = Ended(j)]
           slots == active \ {j}
<1>1. /\ job \in [Jobs -> Object]
      /\ active \subseteq Workers /\ IsFiniteSet(active) /\ Cardinality(active) <= MaxForkedWorkers
      /\ waiting \in Seq(Workers) /\ Distinct(waiting)
      /\ \A k \in Jobs : Sound(k, job[k], active, waiting, stopping)
  BY DEF IInv, Queue
<1>2. Sound(j, job[j], active, waiting, stopping) /\ job[j] \in Object
  BY <1>1
<1>3. IsFiniteSet(slots) /\ Cardinality(slots) <= MaxForkedWorkers /\ slots \subseteq Workers
  <2>1. slots \in SUBSET active
    OBVIOUS
  <2>2. IsFiniteSet(slots) /\ Cardinality(slots) <= Cardinality(active)
    BY <1>1, <2>1, FS_Subset
  <2>3. Cardinality(slots) \in Nat /\ Cardinality(active) \in Nat
    BY <1>1, <2>2, FS_CardinalityType
  <2> QED
    BY <1>1, <2>1, <2>2, <2>3 DEF MaxForkedWorkers
<1>4. /\ Ended(j) \in Object /\ Ended(j).child = "none" /\ ~Ended(j).cancellation
      /\ Ended(j).phase = (IF Again(j) THEN "delayed" ELSE "absent")
      /\ Ended(j).stop = (IF job[j].stop = "open" THEN "resolved" ELSE job[j].stop)
  BY <1>2 DEF Ended, NewJob, Object, Phases, Children, Promises
<1>5. ASSUME NEW k \in Jobs PROVE Sound(k, jobs[k], slots, waiting, stopping)
  <2>1. CASE k = j
    <3>1. jobs[k] = Ended(j)
      BY <1>1, <2>1
    <3>2. j \notin ToSet(waiting) /\ j \notin slots /\ job[j].phase = "invoked"
      BY DEF Executing
    <3>3. Again(j) => job[j].stop = "none" /\ ~stopping
      BY <1>2, <3>2 DEF Again, Sound
    <3> QED
      BY <1>4, <2>1, <3>1, <3>2, <3>3 DEF Sound
  <2>2. CASE k # j
    <3>1. jobs[k] = job[k] /\ (k \in slots <=> k \in active)
      BY <1>1, <2>2
    <3> QED
      BY <1>1, <3>1 DEF Sound
  <2> QED
    BY <2>1, <2>2
<1>6. jobs \in [Jobs -> Object]
  BY <1>1, <1>4
<1> QED
  BY <1>1, <1>3, <1>4, <1>5, <1>6 DEF Queue

(* The stop of some jobs, of one or of all: those that do not execute leave *)
(* the line and the queue.                                                 *)
LEMMA Stopping ==
  ASSUME IInv, NEW some \in SUBSET Jobs, NEW ending \in BOOLEAN, StopJobs(some),
         \A j \in some : Registered(j),
         ending => stopping \/ \A j \in Jobs : Registered(j) => j \in some
  PROVE  /\ Queue(job', active', waiting', ending)
         /\ waiting' # <<>> => Cardinality(active') = MaxForkedWorkers
         /\ \A j \in Jobs : job'[j].child = job[j].child \/ job'[j].child = "none"
         /\ \A j \in Jobs : Registered(j)' => Registered(j)
<1>1. /\ job \in [Jobs -> Object]
      /\ active \subseteq Workers /\ IsFiniteSet(active) /\ Cardinality(active) <= MaxForkedWorkers
      /\ waiting \in Seq(Workers) /\ Distinct(waiting)
      /\ \A k \in Jobs : Sound(k, job[k], active, waiting, stopping)
      /\ waiting # <<>> => Cardinality(active) = MaxForkedWorkers
  BY DEF IInv, Queue
<1>2. /\ job' = [j \in Jobs |-> IF j \in some THEN Stopped(j) ELSE job[j]]
      /\ waiting' = Without(waiting, some) /\ active' = active
  BY DEF StopJobs
<1>3. Workers \subseteq Jobs
  BY JobAssumption
<1>4. waiting' \in Seq(Workers) /\ Distinct(waiting') /\ ToSet(waiting') = ToSet(waiting) \cap (Jobs \ some)
  BY <1>1, <1>2, ThoseOfALine DEF Without
<1>5. waiting' # <<>> => waiting # <<>>
  <2>1. ASSUME waiting = <<>>, waiting' # <<>> PROVE FALSE
    <3>1. Len(waiting') \in Nat /\ Len(waiting') # 0 /\ DOMAIN waiting' = 1..Len(waiting')
      BY <1>4, <2>1, LenProperties, EmptySeq
    <3>2. waiting'[1] \in ToSet(waiting')
      BY <3>1 DEF ToSet
    <3>3. ToSet(<<>>) = {}
      BY DEF ToSet
    <3> QED
      BY <1>4, <2>1, <3>2, <3>3
  <2> QED
    BY <2>1
<1>6. ASSUME NEW j \in Jobs
      PROVE  /\ Sound(j, job'[j], active', waiting', ending)
             /\ job'[j].child = job[j].child \/ job'[j].child = "none"
             /\ Registered(j)' => Registered(j)
  <2>1. Sound(j, job[j], active, waiting, stopping) /\ job[j] \in Object
    BY <1>1
  <2>2. CASE j \notin some
    <3>1. job'[j] = job[j] /\ (j \in ToSet(waiting') <=> j \in ToSet(waiting))
      BY <1>2, <1>4, <2>2
    <3>2. ending => stopping \/ ~Registered(j)
      BY <2>2
    <3> QED
      BY <1>2, <2>1, <3>1, <3>2 DEF Sound, Registered
  <2>3. CASE j \in some
    <3>1. job'[j] = Stopped(j) /\ j \notin ToSet(waiting') /\ Registered(j)
      BY <1>2, <1>4, <2>3
    <3>2. CASE job[j].stop # "none"
      <4>1. Stopped(j) = job[j]
        BY <3>2 DEF Stopped
      <4> QED
        BY <1>2, <2>1, <3>1, <3>2, <4>1 DEF Sound, Registered
    <3>3. CASE job[j].stop = "none" /\ Process(j)
      <4>1. Stopped(j) = [job[j] EXCEPT !.stop = "open", !.cancellation = TRUE,
                                        !.escalation = job[j].child # "exited"]
        BY <3>3 DEF Stopped
      <4>2. /\ Stopped(j) \in Object /\ Stopped(j).stop = "open"
            /\ Stopped(j).child = job[j].child /\ Stopped(j).phase = job[j].phase
        BY <2>1, <4>1 DEF Object, Promises
      <4>3. job[j].child # "none"
        BY <3>3 DEF Process
      <4>4. j \in active /\ job[j].phase = "invoked"
        BY <2>1, <4>3 DEF Sound
      <4> QED
        BY <1>2, <2>1, <3>1, <4>2, <4>3, <4>4 DEF Sound, Registered
    <3>4. CASE job[j].stop = "none" /\ ~Process(j) /\ Executing(j)
      <4>1. Stopped(j) = [job[j] EXCEPT !.stop = "open"]
        BY <3>4 DEF Stopped
      <4>2. /\ Stopped(j) \in Object /\ Stopped(j).stop = "open"
            /\ Stopped(j).child = job[j].child /\ Stopped(j).phase = "invoked"
            /\ Stopped(j).cancellation = job[j].cancellation
        BY <2>1, <3>4, <4>1 DEF Object, Promises, Executing
      <4> QED
        BY <1>2, <2>1, <3>1, <4>2 DEF Sound, Registered
    <3>5. CASE job[j].stop = "none" /\ ~Process(j) /\ ~Executing(j)
      <4>1. Stopped(j) = [NewJob EXCEPT !.stop = "resolved"]
        BY <3>5 DEF Stopped
      <4>2. /\ Stopped(j) \in Object /\ Stopped(j).stop = "resolved"
            /\ Stopped(j).child = "none" /\ Stopped(j).phase = "absent" /\ ~Stopped(j).cancellation
        BY <4>1 DEF NewJob, Object, Phases, Children, Promises
      <4>3. j \notin active
        BY <2>1, <3>5 DEF Sound, Executing
      <4> QED
        BY <1>2, <3>1, <4>2, <4>3 DEF Sound, Registered
    <3> QED
      BY <3>2, <3>3, <3>4, <3>5
  <2> QED
    BY <2>2, <2>3
<1>7. job' \in [Jobs -> Object]
  <2>1. ASSUME NEW j \in Jobs PROVE job'[j] \in Object
    BY <1>6 DEF Sound
  <2>2. job' = [j \in Jobs |-> job'[j]]
    BY <1>2
  <2> QED
    BY <2>1, <2>2
<1> QED
  BY <1>1, <1>2, <1>4, <1>5, <1>6, <1>7 DEF Queue

---------------------------------------------------------------------------
(* The steps.                                                              *)

\* What NothingStartsAfterStop says of a step.
ForkedLawfully ==
  \A j \in Jobs : ~Process(j) /\ Process(j)' =>
    ~stopping /\ (Registered(j) => job[j].stop = "none")

(* A step that drains the line forks for those that were waiting or have   *)
(* just been invoked.                                                      *)
LEMMA DrainingStep ==
  ASSUME IInv, NEW jobs, NEW slots, NEW line,
         Queue(jobs, slots, line, stopping), Drain(jobs, slots, line),
         started' \in BOOLEAN, UNCHANGED <<stopping, awaited>>,
         \A j \in Jobs : /\ jobs[j].child = job[j].child \/ jobs[j].child = "none"
                         /\ stopping /\ jobs[j].phase # "absent" => Registered(j),
         \A j \in ToSet(line) : Registered(j) => job[j].stop = "none"
  PROVE  IInv' /\ ForkedLawfully
<1>1. stopping \in BOOLEAN /\ (awaited # Nothing => stopping)
  BY DEF IInv
<1>2. /\ Queue(job', active', waiting', stopping)
      /\ waiting' # <<>> => Cardinality(active') = MaxForkedWorkers
      /\ \A j \in Jobs : /\ job'[j].phase = jobs[j].phase /\ job'[j].stop = jobs[j].stop
                         /\ \/ job'[j] = jobs[j]
                            \/ ~stopping /\ j \in ToSet(line)
  BY <1>1, Draining
<1>3. awaited' # Nothing => \A j \in Jobs : Registered(j)' => j \in awaited'
  BY <1>1, <1>2 DEF IInv, Registered
<1>4. IInv'
  BY <1>1, <1>2, <1>3 DEF IInv
<1>5. ASSUME NEW j \in Jobs, ~Process(j), Process(j)'
      PROVE  ~stopping /\ (Registered(j) => job[j].stop = "none")
  <2>1. job'[j] # jobs[j]
    BY <1>5 DEF Process
  <2> QED
    BY <1>2, <2>1
<1> QED
  BY <1>4, <1>5 DEF ForkedLawfully

(* A step that settles an execution.                                       *)
LEMMA SettlingStep ==
  ASSUME IInv, NEW j \in Jobs, Executing(j), Settle(j)
  PROVE  IInv' /\ ForkedLawfully
<1> DEFINE jobs == [job EXCEPT ![j] = Ended(j)]
<1>1. Queue(jobs, active \ {j}, waiting, stopping) /\ Ended(j).child = "none"
  BY Ending
<1>2. job \in [Jobs -> Object] /\ \A k \in Jobs : Sound(k, job[k], active, waiting, stopping)
  BY DEF IInv, Queue
<1>3. \A k \in Jobs : /\ jobs[k].child = job[k].child \/ jobs[k].child = "none"
                      /\ stopping /\ jobs[k].phase # "absent" => Registered(k)
  BY <1>1, <1>2 DEF Executing, Registered
<1>4. \A k \in ToSet(waiting) : Registered(k) => job[k].stop = "none"
  <2>1. ToSet(waiting) \subseteq Jobs
    <3>1. waiting \in Seq(Workers)
      BY DEF IInv, Queue
    <3> QED
      BY <3>1, LenProperties, ElementOfSeq, JobAssumption DEF ToSet
  <2> QED
    BY <1>2, <2>1 DEF Sound
<1>5. Drain(jobs, active \ {j}, waiting) /\ UNCHANGED <<started, stopping, awaited>>
  BY DEF Settle
<1>6. started' \in BOOLEAN
  BY <1>5 DEF IInv
<1> HIDE DEF jobs
<1> QED
  BY <1>1, <1>3, <1>4, <1>5, <1>6, DrainingStep

(* A step that changes nothing of a job but the state of its child and the *)
(* stop of that child.                                                     *)
LEMMA ChildStep ==
  ASSUME IInv, NEW j \in Jobs, job[j].child # "none", NEW x \in Object,
         x.phase = job[j].phase, x.child # "none",
         x.child # "thrown" => Process(j),
         x.stop = job[j].stop \/ x.stop \in {"open", "rejected"},
         job' = [job EXCEPT ![j] = x], UNCHANGED <<active, waiting, started, stopping, awaited>>
  PROVE  IInv' /\ ForkedLawfully
<1>1. /\ job \in [Jobs -> Object]
      /\ \A k \in Jobs : Sound(k, job[k], active, waiting, stopping)
  BY DEF IInv, Queue
<1>2. ASSUME NEW k \in Jobs
      PROVE  Sound(k, job'[k], active, waiting, stopping) /\ (Registered(k)' <=> Registered(k))
  <2>1. CASE k = j
    <3>1. job'[k] = x
      BY <1>1, <2>1
    <3>2. Sound(j, job[j], active, waiting, stopping)
      BY <1>1
    <3>3. j \in active /\ j \notin ToSet(waiting) /\ job[j].phase = "invoked"
      BY <3>2 DEF Sound
    <3>4. stopping => x.stop # "none"
      BY <3>2, <3>3 DEF Sound
    <3>5. x.stop # "resolved"
      BY <3>2, <3>3 DEF Sound
    <3> QED
      BY <2>1, <3>1, <3>3, <3>4, <3>5 DEF Sound, Registered
  <2>2. CASE k # j
    <3>1. job'[k] = job[k]
      BY <1>1, <2>2
    <3> QED
      BY <1>1, <3>1 DEF Registered
  <2> QED
    BY <2>1, <2>2
<1>3. job' \in [Jobs -> Object]
  BY <1>1
<1>4. Queue(job', active', waiting', stopping')
  BY <1>2, <1>3 DEF IInv, Queue
<1>5. IInv'
  BY <1>2, <1>4 DEF IInv
<1>6. ASSUME NEW k \in Jobs, ~Process(k), Process(k)' PROVE FALSE
  <2>1. CASE k = j
    BY <1>1, <1>6, <2>1 DEF Process
  <2>2. CASE k # j
    BY <1>1, <1>6, <2>2 DEF Process
  <2> QED
    BY <2>1, <2>2
<1> QED
  BY <1>5, <1>6 DEF ForkedLawfully

(* An event of a child: the job settles once both events are known.        *)
LEMMA ObservingStep ==
  ASSUME IInv, NEW j \in Jobs, Process(j), NEW child \in Children, NEW closed \in BOOLEAN,
         child \notin {"none", "thrown"}, Observes(j, child, closed)
  PROVE  IInv' /\ ForkedLawfully
<1>1. job[j] \in Object /\ Sound(j, job[j], active, waiting, stopping)
  BY DEF IInv, Queue
<1>2. job[j].child # "none"
  BY DEF Process
<1>3. Executing(j)
  BY <1>1, <1>2 DEF Executing, Sound
<1>4. CASE Confirmed(child, closed)
  <2>1. Settle(j)
    BY <1>4 DEF Observes
  <2> QED
    BY <1>3, <2>1, SettlingStep
<1>5. CASE ~Confirmed(child, closed)
  <2> DEFINE x == [job[j] EXCEPT !.child = child, !.closed = closed,
                                 !.escalation = @ /\ child # "exited"]
  <2>1. job' = [job EXCEPT ![j] = x] /\ UNCHANGED <<active, waiting, started, stopping, awaited>>
    BY <1>5 DEF Observes
  <2>2. x \in Object /\ x.phase = job[j].phase /\ x.child = child /\ x.stop = job[j].stop
    BY <1>1 DEF Object
  <2> HIDE DEF x
  <2> QED
    BY <1>2, <2>1, <2>2, ChildStep
<1> QED
  BY <1>4, <1>5

(* Start and registerJob add jobs while the scheduler does not stop.       *)
LEMMA RegisteringStep ==
  ASSUME IInv, ~stopping, NEW new \in Seq(Jobs), Distinct(new),
         \A j \in ToSet(new) : ~Registered(j), Register(new),
         started' \in BOOLEAN, UNCHANGED <<stopping, awaited>>
  PROVE  IInv' /\ ForkedLawfully
<1> DEFINE line == waiting \o Those(new, Workers \cap Immediate)
           jobs == [j \in Jobs |-> IF j \in ToSet(new) THEN Fresh(j) ELSE job[j]]
<1>1. /\ Queue(jobs, active, line, stopping)
      /\ \A j \in ToSet(line) : Registered(j) => j \in ToSet(waiting)
  BY Registering
<1>2. Drain(jobs, active, line)
  BY DEF Register
<1>3. ASSUME NEW j \in Jobs
      PROVE  /\ jobs[j].child = job[j].child \/ jobs[j].child = "none"
             /\ stopping /\ jobs[j].phase # "absent" => Registered(j)
  BY DEF Fresh, NewJob
<1>4. ASSUME NEW j \in ToSet(line), Registered(j) PROVE job[j].stop = "none"
  <2>1. j \in ToSet(waiting) /\ waiting \in Seq(Workers)
    BY <1>1, <1>4 DEF IInv, Queue
  <2>2. j \in Jobs
    BY <2>1, LenProperties, ElementOfSeq, JobAssumption DEF ToSet
  <2> QED
    BY <2>1, <2>2 DEF IInv, Queue, Sound
<1> HIDE DEF line, jobs
<1> QED
  BY <1>1, <1>2, <1>3, <1>4, DrainingStep

(* start registers what is configured.                                     *)
LEMMA StartStep == IInv /\ Start => IInv' /\ ForkedLawfully
<1> SUFFICES ASSUME IInv, Start PROVE IInv' /\ ForkedLawfully
  OBVIOUS
<1>1. Configured \in Seq(Jobs) /\ Distinct(Configured)
  BY JobAssumption DEF Distinct
<1>2. /\ ~stopping /\ Register(Configured) /\ started' \in BOOLEAN
      /\ UNCHANGED <<stopping, awaited>> /\ \A j \in ToSet(Configured) : ~Registered(j)
  BY DEF Start
<1> QED
  BY <1>1, <1>2, RegisteringStep

(* registerJob adds one job beside those configured.                       *)
LEMMA RegisterJobStep == ASSUME NEW j \in Jobs PROVE IInv /\ RegisterJob(j) => IInv' /\ ForkedLawfully
<1> SUFFICES ASSUME IInv, RegisterJob(j) PROVE IInv' /\ ForkedLawfully
  OBVIOUS
<1>1. <<j>> \in Seq(Jobs) /\ Distinct(<<j>>) /\ ToSet(<<j>>) = {j}
  BY DEF Distinct, ToSet
<1>2. /\ ~stopping /\ Register(<<j>>) /\ started' \in BOOLEAN
      /\ UNCHANGED <<stopping, awaited>> /\ ~Registered(j)
  BY DEF RegisterJob, IInv
<1> QED
  BY <1>1, <1>2, RegisteringStep

(* The timer of a job: a worker joins the line, others execute at once.    *)
LEMMA TimerFiresStep == ASSUME NEW j \in Jobs PROVE IInv /\ TimerFires(j) => IInv' /\ ForkedLawfully
<1> SUFFICES ASSUME IInv, TimerFires(j) PROVE IInv' /\ ForkedLawfully
  OBVIOUS
<1> DEFINE line == IF j \in Workers THEN Append(waiting, j) ELSE waiting
           jobs == [job EXCEPT ![j] = Invoked(j)]
<1>1. job[j].phase = "delayed" /\ Drain(jobs, active, line) /\ UNCHANGED <<started, stopping, awaited>>
  BY DEF TimerFires
<1>2. /\ Queue(jobs, active, line, stopping)
      /\ ToSet(line) \subseteq ToSet(waiting) \cup {j}
      /\ ~stopping /\ job[j].stop = "none"
  BY <1>1, FiringTimer
<1>3. job \in [Jobs -> Object] /\ waiting \in Seq(Workers) /\ started' \in BOOLEAN
  BY <1>1 DEF IInv, Queue
<1>4. ASSUME NEW k \in Jobs
      PROVE  /\ jobs[k].child = job[k].child \/ jobs[k].child = "none"
             /\ stopping /\ jobs[k].phase # "absent" => Registered(k)
  BY <1>2, <1>3 DEF Invoked, Object
<1>5. ASSUME NEW k \in ToSet(line) PROVE job[k].stop = "none"
  <2>1. ASSUME k \in ToSet(waiting) PROVE job[k].stop = "none"
    <3>1. k \in Jobs
      BY <1>3, <2>1, LenProperties, ElementOfSeq, JobAssumption DEF ToSet
    <3> QED
      BY <2>1, <3>1 DEF IInv, Queue, Sound
  <2> QED
    BY <1>2, <2>1
<1> HIDE DEF line, jobs
<1> QED
  BY <1>1, <1>2, <1>3, <1>4, <1>5, DrainingStep

(* The ends of an execution that come without an event of a child.         *)
LEMMA EndsStep ==
  ASSUME NEW j \in Jobs PROVE IInv /\ (InlineEnds(j) \/ ForkThrew(j)) => IInv' /\ ForkedLawfully
<1>1. ASSUME IInv, InlineEnds(j) PROVE IInv' /\ ForkedLawfully
  BY <1>1, SettlingStep DEF InlineEnds
<1>2. ASSUME IInv, ForkThrew(j) PROVE IInv' /\ ForkedLawfully
  <2>1. Sound(j, job[j], active, waiting, stopping) /\ job[j].child = "thrown"
    BY <1>2 DEF ForkThrew, IInv, Queue
  <2>2. Executing(j)
    BY <2>1 DEF Sound, Executing
  <2> QED
    BY <1>2, <2>2, SettlingStep DEF ForkThrew
<1> QED
  BY <1>1, <1>2

(* A child dies: nobody has heard of it yet.                               *)
LEMMA DiesStep == ASSUME NEW j \in Jobs PROVE IInv /\ Dies(j) => IInv' /\ ForkedLawfully
<1> SUFFICES ASSUME IInv, Dies(j) PROVE IInv' /\ ForkedLawfully
  OBVIOUS
<1> DEFINE x == [job[j] EXCEPT !.child = "dead"]
<1>1. job[j] \in Object /\ job[j].child = "alive"
  BY DEF IInv, Queue, Dies
<1>2. x \in Object /\ x.phase = job[j].phase /\ x.stop = job[j].stop /\ x.child = "dead"
  BY <1>1 DEF Object, Children
<1>3. job' = [job EXCEPT ![j] = x] /\ UNCHANGED <<active, waiting, started, stopping, awaited>>
  BY DEF Dies
<1>4. Process(j)
  BY <1>1 DEF Process
<1> HIDE DEF x
<1> QED
  BY <1>1, <1>2, <1>3, <1>4, ChildStep

(* The three events of a child.                                            *)
LEMMA EventStep ==
  ASSUME NEW j \in Jobs
  PROVE  IInv /\ (ExitEvent(j) \/ ErrorEvent(j) \/ CloseEvent(j)) => IInv' /\ ForkedLawfully
<1> SUFFICES ASSUME IInv, ExitEvent(j) \/ ErrorEvent(j) \/ CloseEvent(j) PROVE IInv' /\ ForkedLawfully
  OBVIOUS
<1>1. job[j].child \in Children /\ job[j].closed \in BOOLEAN
  BY DEF IInv, Queue, Object
<1>2. CASE ExitEvent(j)
  <2>1. Process(j) /\ Observes(j, "exited", job[j].closed)
    BY <1>2 DEF ExitEvent, Process
  <2> QED
    BY <1>1, <2>1, ObservingStep DEF Children
<1>3. CASE ErrorEvent(j)
  <2>1. Process(j) /\ Observes(j, "failed", job[j].closed)
    BY <1>3 DEF ErrorEvent, Process
  <2> QED
    BY <1>1, <2>1, ObservingStep DEF Children
<1>4. CASE CloseEvent(j)
  <2>1. Process(j) /\ Observes(j, job[j].child, TRUE) /\ job[j].child \notin {"none", "thrown"}
    BY <1>4 DEF CloseEvent, Process
  <2> QED
    BY <1>1, <2>1, ObservingStep
<1> QED
  BY <1>2, <1>3, <1>4

(* The timers of a stop.                                                   *)
LEMMA StopTimerStep ==
  ASSUME NEW j \in Jobs PROVE IInv /\ (Escalate(j) \/ Unconfirmed(j)) => IInv' /\ ForkedLawfully
<1>1. ASSUME IInv, Unconfirmed(j) PROVE IInv' /\ ForkedLawfully
  <2> DEFINE x == [job[j] EXCEPT !.cancellation = FALSE, !.stop = "rejected"]
  <2>1. job[j] \in Object /\ job[j].child \notin {"none"}
    BY <1>1 DEF IInv, Queue, Unconfirmed, Sound
  <2>2. /\ x \in Object /\ x.phase = job[j].phase /\ x.child = job[j].child
        /\ x.stop = "rejected"
    BY <2>1 DEF Object, Promises
  <2>3. job' = [job EXCEPT ![j] = x] /\ UNCHANGED <<active, waiting, started, stopping, awaited>>
    BY <1>1 DEF Unconfirmed
  <2>4. job[j].child # "thrown" => Process(j)
    BY <2>1 DEF Process
  <2> HIDE DEF x
  <2> QED
    BY <1>1, <2>1, <2>2, <2>3, <2>4, ChildStep
<1>2. ASSUME IInv, Escalate(j) PROVE IInv' /\ ForkedLawfully
  <2> DEFINE x == [job[j] EXCEPT !.escalation = FALSE]
  <2>1. /\ job \in [Jobs -> Object]
        /\ \A k \in Jobs : Sound(k, job[k], active, waiting, stopping)
    BY <1>2 DEF IInv, Queue
  <2>2. /\ x \in Object /\ x.phase = job[j].phase /\ x.child = job[j].child
        /\ x.stop = job[j].stop /\ x.cancellation = job[j].cancellation
    BY <2>1 DEF Object
  <2>3. job' = [job EXCEPT ![j] = x] /\ UNCHANGED <<active, waiting, started, stopping, awaited>>
    BY <1>2 DEF Escalate
  <2> HIDE DEF x
  <2>4. ASSUME NEW k \in Jobs
        PROVE  /\ Sound(k, job'[k], active, waiting, stopping)
               /\ Registered(k)' <=> Registered(k)
               /\ Process(k)' <=> Process(k)
    <3>1. CASE k = j
      BY <2>1, <2>2, <2>3, <3>1 DEF Sound, Registered, Process
    <3>2. CASE k # j
      BY <2>1, <2>3, <3>2 DEF Registered, Process
    <3> QED
      BY <3>1, <3>2
  <2>5. job' \in [Jobs -> Object]
    BY <2>1, <2>2, <2>3
  <2>6. Queue(job', active', waiting', stopping')
    BY <1>2, <2>3, <2>4, <2>5 DEF IInv, Queue
  <2>7. IInv'
    BY <1>2, <2>3, <2>4, <2>6 DEF IInv
  <2> QED
    BY <2>4, <2>7 DEF ForkedLawfully
<1> QED
  BY <1>1, <1>2

(* Job.stop from outside.                                                  *)
LEMMA StopStep == ASSUME NEW j \in Jobs PROVE IInv /\ Stop(j) => IInv' /\ ForkedLawfully
<1> SUFFICES ASSUME IInv, Stop(j) PROVE IInv' /\ ForkedLawfully
  OBVIOUS
<1>1. Registered(j) /\ StopJobs({j}) /\ UNCHANGED <<started, stopping, awaited>>
  BY DEF Stop
<1>2. stopping \in BOOLEAN /\ {j} \in SUBSET Jobs /\ \A k \in {j} : Registered(k)
  BY <1>1 DEF IInv
<1>3. /\ Queue(job', active', waiting', stopping)
      /\ waiting' # <<>> => Cardinality(active') = MaxForkedWorkers
      /\ \A k \in Jobs : job'[k].child = job[k].child \/ job'[k].child = "none"
      /\ \A k \in Jobs : Registered(k)' => Registered(k)
  BY <1>1, <1>2, Stopping
<1>4. IInv'
  BY <1>1, <1>3 DEF IInv
<1> QED
  BY <1>3, <1>4 DEF ForkedLawfully, Process

(* scheduler.stop stops every job there is.                                *)
LEMMA StopSchedulerStep == IInv /\ StopScheduler => IInv' /\ ForkedLawfully
<1> SUFFICES ASSUME IInv, StopScheduler PROVE IInv' /\ ForkedLawfully
  OBVIOUS
<1> DEFINE some == {j \in Jobs : Registered(j)}
<1>1. StopJobs(some) /\ stopping' = TRUE /\ awaited' = some /\ started' = started
  BY DEF StopScheduler
<1>2. /\ Queue(job', active', waiting', TRUE)
      /\ waiting' # <<>> => Cardinality(active') = MaxForkedWorkers
      /\ \A k \in Jobs : job'[k].child = job[k].child \/ job'[k].child = "none"
      /\ \A k \in Jobs : Registered(k)' => Registered(k)
  <2>1. some \in SUBSET Jobs /\ (\A j \in some : Registered(j)) /\ \A j \in Jobs : Registered(j) => j \in some
    OBVIOUS
  <2> HIDE DEF some
  <2> QED
    BY <1>1, <2>1, Stopping
<1>3. IInv'
  BY <1>1, <1>2 DEF IInv
<1> QED
  BY <1>2, <1>3 DEF ForkedLawfully, Process

(* A stop that succeeds: every job that was registered is gone, with its   *)
(* child and its slot.                                                     *)
LEMMA ResolvingLeavesNothing ==
  ASSUME IInv, awaited # Nothing, \A j \in awaited : job[j].stop = "resolved"
  PROVE  active = {} /\ waiting = <<>> /\ \A j \in Jobs : ~Registered(j) /\ ~Process(j)
<1>1. /\ \A j \in Jobs : Sound(j, job[j], active, waiting, stopping)
      /\ stopping /\ \A j \in Jobs : Registered(j) => j \in awaited
  BY DEF IInv, Queue
<1>2. ASSUME NEW j \in Jobs PROVE ~Registered(j)
  BY <1>1 DEF Sound, Registered
<1>3. ASSUME NEW j \in Jobs PROVE j \notin active /\ ~Process(j)
  BY <1>1, <1>2 DEF Sound, Registered, Process
<1>4. active = {}
  BY <1>3, JobAssumption DEF IInv, Queue
<1>5. waiting = <<>>
  <2>1. stopping = TRUE
    BY <1>1 DEF IInv
  <2> QED
    BY <2>1, NobodyWaitsWhileStopping DEF IInv
<1> QED
  BY <1>2, <1>3, <1>4, <1>5

(* scheduler.stop resolves or rejects.                                     *)
LEMMA StopEndsStep ==
  IInv /\ (StopSchedulerResolves \/ StopSchedulerRejects) => IInv' /\ ForkedLawfully
<1>1. ASSUME IInv, StopSchedulerResolves PROVE IInv' /\ ForkedLawfully
  <2>1. /\ UNCHANGED <<job, active, waiting>> /\ awaited' = Nothing
        /\ stopping' = FALSE /\ started' = FALSE
    BY <1>1 DEF StopSchedulerResolves
  <2>2. active = {} /\ waiting = <<>> /\ \A j \in Jobs : ~Registered(j) /\ ~Process(j)
    BY <1>1, ResolvingLeavesNothing DEF StopSchedulerResolves
  <2>3. \A j \in Jobs : Sound(j, job'[j], active', waiting', stopping')
    BY <1>1, <2>1 DEF IInv, Queue, Sound
  <2>4. Queue(job', active', waiting', stopping')
    BY <1>1, <2>1, <2>3 DEF IInv, Queue
  <2>5. IInv'
    BY <2>1, <2>2, <2>4 DEF IInv
  <2> QED
    BY <2>1, <2>5 DEF ForkedLawfully, Process
<1>2. ASSUME IInv, StopSchedulerRejects PROVE IInv' /\ ForkedLawfully
  <2>1. UNCHANGED <<job, active, waiting, started, stopping>> /\ awaited' = Nothing
    BY <1>2 DEF StopSchedulerRejects
  <2>2. IInv'
    BY <1>2, <2>1 DEF IInv
  <2> QED
    BY <2>1, <2>2 DEF ForkedLawfully, Process
<1> QED
  BY <1>1, <1>2

---------------------------------------------------------------------------
(* The theorems.                                                           *)

(* An empty queue is in order.                                             *)
LEMMA InitHolds == Init => IInv
<1> SUFFICES ASSUME Init PROVE IInv
  OBVIOUS
<1>1. NewJob \in Object /\ NewJob.phase = "absent" /\ NewJob.child = "none" /\ NewJob.stop = "none" /\ ~NewJob.cancellation
  BY DEF NewJob, Object, Phases, Children, Promises
<1>2. job = [j \in Jobs |-> NewJob] /\ active = {} /\ waiting = <<>> /\ ~started /\ ~stopping /\ awaited = Nothing
  BY DEF Init
<1>3. waiting \in Seq(Workers) /\ Distinct(waiting) /\ ToSet(waiting) = {}
  BY <1>2, EmptySeq DEF Distinct, ToSet
<1>4. IsFiniteSet(active) /\ Cardinality(active) <= MaxForkedWorkers
  BY <1>2, FS_EmptySet DEF MaxForkedWorkers
<1>5. \A j \in Jobs : Sound(j, job[j], active, waiting, stopping)
  BY <1>1, <1>2, <1>3 DEF Sound
<1>6. Queue(job, active, waiting, stopping)
  BY <1>1, <1>2, <1>3, <1>4, <1>5 DEF Queue
<1>7. started \in BOOLEAN /\ stopping \in BOOLEAN
  BY DEF Init
<1> QED
  BY <1>2, <1>6, <1>7 DEF IInv

(* Every step keeps the queue in order and forks for nobody who was        *)
(* stopped.                                                                *)
LEMMA StepHolds == IInv /\ [Next]_vars => IInv' /\ (ForkedLawfully \/ UNCHANGED vars)
<1> SUFFICES ASSUME IInv, [Next]_vars PROVE IInv' /\ (ForkedLawfully \/ UNCHANGED vars)
  OBVIOUS
<1>1. ASSUME NEW j \in Jobs, Child(j) PROVE IInv' /\ ForkedLawfully
  BY <1>1, DiesStep, EventStep, EndsStep DEF Child
<1>2. ASSUME NEW j \in Jobs, Timer(j) PROVE IInv' /\ ForkedLawfully
  BY <1>2, TimerFiresStep, StopTimerStep DEF Timer
<1>3. ASSUME NEW j \in Jobs, InlineEnds(j) \/ RegisterJob(j) \/ Stop(j) PROVE IInv' /\ ForkedLawfully
  BY <1>3, EndsStep, RegisterJobStep, StopStep
<1>4. CASE Start \/ StopScheduler \/ StopSchedulerResolves \/ StopSchedulerRejects
  BY <1>4, StartStep, StopSchedulerStep, StopEndsStep
<1>5. CASE UNCHANGED vars
  BY <1>5 DEF vars, IInv, Queue, Registered
<1> QED
  BY <1>1, <1>2, <1>3, <1>4, <1>5 DEF Next

(* The queue of the scheduler stays in order: at most two slots, held by   *)
(* the jobs that have a child; whoever waits was invoked and not stopped,  *)
(* waits once and finds both slots taken; a stop that resolved left no job; *)
(* and the promise of the scheduler's stop covers every job there is.      *)
THEOREM Invariant == Spec => []IInv
<1>1. IInv /\ [Next]_vars => IInv'
  BY StepHolds
<1> QED
  BY InitHolds, <1>1, PTL DEF Spec

(* The variables keep their types.                                         *)
THEOREM TypeCorrect == Spec => []TypeOK
<1>1. IInv => TypeOK
  <2> SUFFICES ASSUME IInv PROVE TypeOK
    OBVIOUS
  <2>1. waiting \in Seq(Workers)
    BY DEF IInv, Queue
  <2>2. ToSet(waiting) \subseteq Workers
    BY <2>1, LenProperties, ElementOfSeq DEF ToSet
  <2> QED
    BY <2>2 DEF TypeOK, IInv, Queue, Object
<1> QED
  BY <1>1, Invariant, PTL

(* releaseWorker: never more than two children, and none without its slot, *)
(* those included that a stop has given up on.                             *)
THEOREM SlotsAreHeld == Spec => []ChildrenHoldSlots
<1>1. IInv => ChildrenHoldSlots
  BY DEF IInv, Queue, Sound, ChildrenHoldSlots, Process, Registered
<1> QED
  BY <1>1, Invariant, PTL

(* drainWorkers: no wake-up is lost among admission, release, failing      *)
(* forks and stops.                                                        *)
THEOREM NoWakeUpIsLost == Spec => []NobodyWaitsInVain
<1>1. IInv => NobodyWaitsInVain
  <2> SUFFICES ASSUME IInv, waiting # <<>>
               PROVE  /\ ~stopping /\ Cardinality(active) = MaxForkedWorkers
                      /\ \A j \in active : Executing(j)
    BY DEF NobodyWaitsInVain
  <2>1. ~stopping
    <3>1. stopping => Queue(job, active, waiting, TRUE)
      BY DEF IInv
    <3> QED
      BY <3>1, NobodyWaitsWhileStopping
  <2>2. ASSUME NEW j \in active PROVE Executing(j)
    <3>1. j \in Jobs
      BY JobAssumption DEF IInv, Queue
    <3>2. Sound(j, job[j], active, waiting, stopping)
      BY <3>1 DEF IInv, Queue
    <3> QED
      BY <3>2 DEF Sound, Executing
  <2> QED
    BY <2>1, <2>2 DEF IInv
<1> QED
  BY <1>1, Invariant, PTL

(* Job.stop, scheduler.stop: from no state of a job is a child forked for  *)
(* it after its stop or the scheduler's.                                   *)
THEOREM NoForkAfterStop == Spec => NothingStartsAfterStop
<1>1. IInv /\ [Next]_vars => [ForkedLawfully]_vars
  BY StepHolds
<1>2. Spec => [][ForkedLawfully]_vars
  BY <1>1, Invariant, PTL DEF Spec
<1> QED
  BY <1>2 DEF NothingStartsAfterStop, ForkedLawfully

(* scheduler.stop: one that resolves leaves no job, child, slot or waiting *)
(* line behind, after however many stops that were rejected.               *)
THEOREM StopIsComplete == Spec => StopLeavesNothing
<1> DEFINE A == stopping /\ ~stopping' =>
                  /\ active = {} /\ waiting = <<>>
                  /\ \A j \in Jobs : ~Registered(j) /\ ~Process(j)
<1>1. IInv /\ [Next]_vars => [A]_vars
  <2> SUFFICES ASSUME IInv, [Next]_vars, stopping, ~stopping' PROVE A
    OBVIOUS
  <2>1. StopSchedulerResolves
    BY DEF Next, vars, Child, Timer, Dies, ExitEvent, ErrorEvent, CloseEvent, Observes, ForkThrew,
           InlineEnds, Settle, TimerFires, Escalate, Unconfirmed, RegisterJob, Stop, Start,
           StopScheduler, StopSchedulerRejects
  <2> QED
    BY <2>1, ResolvingLeavesNothing DEF StopSchedulerResolves
<1>2. Spec => [][A]_vars
  BY <1>1, Invariant, PTL DEF Spec
<1> QED
  BY <1>2 DEF StopLeavesNothing
================================================================================
