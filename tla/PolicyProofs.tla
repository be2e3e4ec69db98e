---------------------------- MODULE PolicyProofs ----------------------------
(***************************************************************************)
(* Theorems about PolicyEngine, for any pack that loads, any subjects,     *)
(* tools and answers, and any number of calls at any times.                *)
(***************************************************************************)
EXTENDS PolicyEngine, FiniteSetTheorems, TLAPS

(***************************************************************************)
(* The rate limiter, one key at a time: the times s at which it let calls  *)
(* through, its window w, its policy p, and the time n.                    *)
(***************************************************************************)

\* Calls let through from time a on and before time b.
Within(s, a, b) == Cardinality({i \in DOMAIN s : a <= s[i] /\ s[i] < b})

Times(s) == IsFiniteSet(DOMAIN s) /\ \A i \in DOMAIN s : s[i] \in Nat

IsLimit(p) == p.limit \in Nat \ {0} /\ p.window \in Nat \ {0}

\* The window holds as many of the calls let through as it says, up to the limit; the first
\* of them opened it, and the limit was not used up in the stretch just before.
WindowInv(s, w, p, n) ==
  /\ \E i \in DOMAIN s : s[i] = w.start
  /\ \A i \in DOMAIN s : s[i] < w.start + p.window
  /\ Within(s, w.start, n + 1) = IF w.count <= p.limit THEN w.count ELSE p.limit
  /\ \A t \in Nat : t + p.window > w.start => Within(s, t, w.start) < p.limit

KeyInv(s, w, p, n) ==
  /\ s \in Seq(Nat) /\ \A i \in DOMAIN s : s[i] <= n
  /\ w \in [count : Nat, start : Nat] /\ w.start <= n
  /\ IF w.count = 0 THEN s = <<>> ELSE WindowInv(s, w, p, n)
  /\ \A t \in Nat : Within(s, t, t + p.window) < 2 * p.limit

-----------------------------------------------------------------------------
LEMMA SeqTimes ==
  ASSUME NEW s \in Seq(Nat)
  PROVE  Times(s)
<1>1. DOMAIN s = 1 .. Len(s) /\ Len(s) \in Nat /\ \A i \in DOMAIN s : s[i] \in Nat
  OBVIOUS
<1>2. IsFiniteSet(1 .. Len(s))
  BY <1>1, FS_Interval
<1> QED
  BY <1>1, <1>2 DEF Times

LEMMA WithinFinite ==
  ASSUME NEW s, Times(s), NEW a, NEW b
  PROVE  /\ IsFiniteSet({i \in DOMAIN s : a <= s[i] /\ s[i] < b})
         /\ Within(s, a, b) \in Nat
<1>2. IsFiniteSet({i \in DOMAIN s : a <= s[i] /\ s[i] < b})
  BY FS_Subset DEF Times
<1> QED
  BY <1>2, FS_CardinalityType DEF Within

\* A longer stretch holds at least as many calls.
LEMMA WithinMono ==
  ASSUME NEW s, Times(s), NEW a \in Nat, NEW b \in Nat, NEW c \in Nat, NEW d \in Nat,
         c <= a, b <= d
  PROVE  Within(s, a, b) <= Within(s, c, d)
<1> DEFINE A == {i \in DOMAIN s : a <= s[i] /\ s[i] < b}
           C == {i \in DOMAIN s : c <= s[i] /\ s[i] < d}
<1>1. \A i \in DOMAIN s : s[i] \in Nat
  BY DEF Times
<1>2. A \subseteq C
  BY <1>1
<1>3. Cardinality(A) <= Cardinality(C)
  BY <1>2, WithinFinite, FS_Subset
<1> QED
  BY <1>3 DEF Within

\* It holds more if it begins early enough for a call that the other one misses.
LEMMA WithinMisses ==
  ASSUME NEW s, Times(s), NEW a \in Nat, NEW b \in Nat, NEW c \in Nat,
         NEW i \in DOMAIN s, c <= s[i], s[i] < a, s[i] < b
  PROVE  Within(s, a, b) < Within(s, c, b)
<1> DEFINE A == {k \in DOMAIN s : a <= s[k] /\ s[k] < b}
           C == {k \in DOMAIN s : c <= s[k] /\ s[k] < b}
<1>1. \A k \in DOMAIN s : s[k] \in Nat
  BY DEF Times
<1>2. A \subseteq C /\ i \in C /\ i \notin A
  BY <1>1
<1>3. /\ IsFiniteSet(C) /\ Cardinality(A) <= Cardinality(C)
      /\ Cardinality(C) = Cardinality(A) => A = C
  BY <1>2, WithinFinite, FS_Subset
<1>4. Cardinality(A) \in Nat /\ Cardinality(C) \in Nat
  BY WithinFinite DEF Within
<1>5. Cardinality(A) < Cardinality(C)
  BY <1>2, <1>3, <1>4
<1> QED
  BY <1>5 DEF Within

\* A stretch is two that meet.
LEMMA WithinSplit ==
  ASSUME NEW s, Times(s), NEW a \in Nat, NEW m \in Nat, NEW b \in Nat, a <= m, m <= b
  PROVE  Within(s, a, b) = Within(s, a, m) + Within(s, m, b)
<1> DEFINE A == {k \in DOMAIN s : a <= s[k] /\ s[k] < m}
           B == {k \in DOMAIN s : m <= s[k] /\ s[k] < b}
           C == {k \in DOMAIN s : a <= s[k] /\ s[k] < b}
<1>1. \A k \in DOMAIN s : s[k] \in Nat
  BY DEF Times
<1>2. C = A \cup B /\ A \cap B = {}
  <2>1. \A k \in DOMAIN s : k \in C <=> k \in A \/ k \in B
    BY <1>1
  <2>2. \A k \in DOMAIN s : ~ (k \in A /\ k \in B)
    BY <1>1
  <2>3. A \subseteq DOMAIN s /\ B \subseteq DOMAIN s /\ C \subseteq DOMAIN s
    OBVIOUS
  <2> HIDE DEF A, B, C
  <2> QED
    BY <2>1, <2>2, <2>3
<1>3. IsFiniteSet(A) /\ IsFiniteSet(B) /\ Cardinality(A) \in Nat /\ Cardinality(B) \in Nat
  BY WithinFinite DEF Within
<1>4. Cardinality(A \cup B) = Cardinality(A) + Cardinality(B) - Cardinality(A \cap B)
  BY <1>3, FS_Union
<1>5. Cardinality(C) = Cardinality(A) + Cardinality(B)
  <2> HIDE DEF A, B, C
  <2>1. Cardinality(A \cap B) = 0
    BY <1>2, FS_EmptySet
  <2>2. Cardinality(C) = Cardinality(A \cup B)
    BY <1>2
  <2> QED
    BY <1>3, <1>4, <2>1, <2>2
<1> QED
  BY <1>5 DEF Within

\* Nothing was let through from a time on that is later than all of them.
LEMMA WithinNone ==
  ASSUME NEW s, Times(s), NEW a \in Nat, NEW b \in Nat, \A i \in DOMAIN s : s[i] < a \/ s[i] >= b
  PROVE  Within(s, a, b) = 0
<1>1. \A k \in DOMAIN s : s[k] \in Nat
  BY DEF Times
<1>2. {i \in DOMAIN s : a <= s[i] /\ s[i] < b} = {}
  BY <1>1
<1> QED
  BY <1>2, FS_EmptySet DEF Within

LEMMA WithinAppend ==
  ASSUME NEW s \in Seq(Nat), NEW x \in Nat, NEW a \in Nat, NEW b \in Nat
  PROVE  /\ a <= x /\ x < b => Within(Append(s, x), a, b) = Within(s, a, b) + 1
         /\ ~ (a <= x /\ x < b) => Within(Append(s, x), a, b) = Within(s, a, b)
<1> DEFINE r == Append(s, x)
           A == {i \in DOMAIN s : a <= s[i] /\ s[i] < b}
           B == {i \in DOMAIN r : a <= r[i] /\ r[i] < b}
<1>1. /\ DOMAIN s = 1 .. Len(s) /\ Len(s) \in Nat /\ DOMAIN r = 1 .. Len(s) + 1
      /\ r[Len(s) + 1] = x /\ \A i \in DOMAIN s : r[i] = s[i]
  OBVIOUS
<1> HIDE DEF r
<1>2. Len(s) + 1 \notin A /\ B = IF a <= x /\ x < b THEN A \cup {Len(s) + 1} ELSE A
  BY <1>1
<1>3. IsFiniteSet(A) /\ Cardinality(A) \in Nat
  BY SeqTimes, WithinFinite DEF Within
<1>4. Cardinality(A \cup {Len(s) + 1}) = Cardinality(A) + 1
  BY <1>2, <1>3, FS_AddElement
<1>5. Within(r, a, b) = Cardinality(B) /\ Within(s, a, b) = Cardinality(A)
  BY DEF Within
<1> QED
  BY <1>2, <1>4, <1>5 DEF r

-----------------------------------------------------------------------------
LEMMA LimitNat ==
  ASSUME NEW p, IsLimit(p)
  PROVE  p.limit \in Nat /\ p.limit >= 1 /\ p.window \in Nat /\ p.window >= 1
  BY DEF IsLimit

\* What KeyInv says, with the types its arithmetic needs.
LEMMA KeyFacts ==
  ASSUME NEW s, NEW w, NEW p, NEW n \in Nat, IsLimit(p), KeyInv(s, w, p, n)
  PROVE  /\ s \in Seq(Nat) /\ Times(s) /\ \A i \in DOMAIN s : s[i] \in Nat /\ s[i] <= n
         /\ w.start \in Nat /\ w.start <= n /\ w.count \in Nat
         /\ w = [count |-> w.count, start |-> w.start]
         /\ w.count = 0 => DOMAIN s = {}
         /\ w.count # 0 => WindowInv(s, w, p, n) /\ Within(s, w.start, n + 1) <= p.limit
<1>1. s \in Seq(Nat) /\ Times(s) /\ \A i \in DOMAIN s : s[i] \in Nat /\ s[i] <= n
  BY SeqTimes DEF KeyInv, Times
<1>2. /\ w.start \in Nat /\ w.start <= n /\ w.count \in Nat
      /\ w = [count |-> w.count, start |-> w.start]
  BY DEF KeyInv
<1>3. w.count = 0 => DOMAIN s = {}
  BY DEF KeyInv
<1>4. w.count # 0 => WindowInv(s, w, p, n)
  BY DEF KeyInv
<1>5. WindowInv(s, w, p, n) => Within(s, w.start, n + 1) <= p.limit
  BY <1>2, LimitNat DEF WindowInv
<1> QED
  BY <1>1, <1>2, <1>3, <1>4, <1>5

-----------------------------------------------------------------------------
\* A stretch that holds the time n of the last call reaches into one earlier window at most.
LEMMA BurstFromParts ==
  ASSUME NEW s \in Seq(Nat), NEW st \in Nat, NEW n \in Nat, NEW p, IsLimit(p), st <= n,
         \A i \in DOMAIN s : s[i] <= n,
         Within(s, st, n + 1) <= p.limit,
         \A t \in Nat : t + p.window > st => Within(s, t, st) < p.limit,
         NEW t \in Nat, t <= n, n < t + p.window
  PROVE  Within(s, t, t + p.window) < 2 * p.limit
<1> USE DEF IsLimit
<1>0. Times(s) /\ \A i \in DOMAIN s : s[i] \in Nat
  BY SeqTimes DEF Times
<1> DEFINE e == t + p.window
<1>1. e \in Nat /\ n + 1 <= e
  OBVIOUS
<1> HIDE DEF e
<1>2. Within(s, n + 1, e) = 0
  <2>1. \A i \in DOMAIN s : s[i] < n + 1
    BY <1>0
  <2> QED
    BY <1>0, <1>1, <2>1, WithinNone
<1>3. Within(s, st, e) = Within(s, st, n + 1)
  <2>1. Within(s, st, e) = Within(s, st, n + 1) + Within(s, n + 1, e)
    BY <1>0, <1>1, WithinSplit
  <2>2. Within(s, st, n + 1) \in Nat
    BY <1>0, WithinFinite
  <2> QED
    BY <1>2, <2>1, <2>2
<1>4. /\ Within(s, t, e) \in Nat /\ Within(s, st, e) \in Nat /\ Within(s, t, st) \in Nat
  BY <1>0, WithinFinite
<1>5. CASE t <= st
  <2>1. Within(s, t, e) = Within(s, t, st) + Within(s, st, e)
    BY <1>0, <1>1, <1>5, WithinSplit
  <2>2. Within(s, t, st) < p.limit
    BY DEF e
  <2> QED
    BY <1>3, <1>4, <2>1, <2>2 DEF e
<1>6. CASE st <= t
  <2>1. Within(s, t, e) <= Within(s, st, e)
    BY <1>0, <1>1, <1>6, WithinMono
  <2> QED
    BY <1>3, <1>4, <2>1 DEF e
<1> QED
  BY <1>5, <1>6

\* A call that is let through keeps KeyInv if its window does.
LEMMA BurstKept ==
  ASSUME NEW s \in Seq(Nat), NEW w, NEW p, NEW n \in Nat, IsLimit(p), KeyInv(s, w, p, n),
         NEW st \in Nat, st <= n,
         Within(Append(s, n), st, n + 1) <= p.limit,
         \A t \in Nat : t + p.window > st => Within(Append(s, n), t, st) < p.limit
  PROVE  /\ Append(s, n) \in Seq(Nat) /\ \A i \in DOMAIN Append(s, n) : Append(s, n)[i] <= n
         /\ \A t \in Nat : Within(Append(s, n), t, t + p.window) < 2 * p.limit
<1> DEFINE r == Append(s, n)
<1>1. r \in Seq(Nat) /\ \A i \in DOMAIN r : r[i] <= n
  <2>1. \A i \in DOMAIN s : s[i] <= n
    BY DEF KeyInv
  <2>2. /\ DOMAIN s = 1 .. Len(s) /\ Len(s) \in Nat /\ DOMAIN r = 1 .. Len(s) + 1
        /\ r[Len(s) + 1] = n /\ \A i \in DOMAIN s : r[i] = s[i]
    OBVIOUS
  <2>3. r \in Seq(Nat)
    OBVIOUS
  <2> HIDE DEF r
  <2> QED
    BY <2>1, <2>2, <2>3
<1>2. ASSUME NEW t \in Nat
      PROVE  Within(r, t, t + p.window) < 2 * p.limit
  <2>1. t + p.window \in Nat
    BY DEF IsLimit
  <2>2. CASE t <= n /\ n < t + p.window
    <3> HIDE DEF r
    <3> QED
      BY <1>1, <2>2, BurstFromParts DEF r
  <2>3. CASE ~ (t <= n /\ n < t + p.window)
    <3>1. Within(r, t, t + p.window) = Within(s, t, t + p.window)
      BY <2>1, <2>3, WithinAppend
    <3> QED
      BY <3>1 DEF KeyInv
  <2> QED
    BY <2>2, <2>3
<1> QED
  BY <1>1, <1>2

\* A call that opens a window.
LEMMA OpenWindow ==
  ASSUME NEW s, NEW w, NEW p, NEW n \in Nat, IsLimit(p), KeyInv(s, w, p, n),
         w.count = 0 \/ n >= w.start + p.window
  PROVE  KeyInv(Append(s, n), [count |-> 1, start |-> n], p, n)
<1> DEFINE r == Append(s, n)
<1>0. s \in Seq(Nat) /\ Times(s) /\ \A i \in DOMAIN s : s[i] \in Nat /\ s[i] <= n
  BY KeyFacts
<1>p. p.limit \in Nat /\ p.limit >= 1 /\ p.window \in Nat /\ p.window >= 1
  BY LimitNat
<1>w. w.start \in Nat /\ w.start <= n /\ w.count \in Nat
  BY KeyFacts
<1>1. \A i \in DOMAIN s : s[i] < n
  <2>1. CASE w.count = 0
    BY <2>1, KeyFacts
  <2>2. CASE w.count # 0
    <3>1. \A i \in DOMAIN s : s[i] < w.start + p.window
      BY <2>2, KeyFacts DEF WindowInv
    <3> QED
      BY <1>0, <1>p, <1>w, <2>2, <3>1
  <2> QED
    BY <2>1, <2>2
<1>2. Within(r, n, n + 1) = 1
  <2>1. Within(s, n, n + 1) = 0
    BY <1>0, <1>1, WithinNone
  <2> QED
    BY <1>0, <2>1, WithinAppend
<1>3. ASSUME NEW t \in Nat, t + p.window > n
      PROVE  Within(r, t, n) < p.limit
  <2>1. Within(r, t, n) = Within(s, t, n) /\ Within(s, t, n) \in Nat
    <3>1. ~ (t <= n /\ n < n)
      OBVIOUS
    <3> QED
      BY <1>0, <3>1, WithinAppend, WithinFinite
  <2>2. CASE w.count = 0
    <3>1. Within(s, t, n) = 0
      BY <1>0, <2>2, KeyFacts, WithinNone
    <3> QED
      BY <1>p, <2>1, <3>1
  <2>3. CASE w.count # 0
    <3>1. PICK i \in DOMAIN s : s[i] = w.start
      BY <2>3, KeyFacts DEF WindowInv
    <3>2. w.start < t /\ w.start < n + 1
      BY <1>3, <1>p, <1>w, <2>3
    <3>3. Within(s, t, n + 1) < Within(s, w.start, n + 1)
      BY <1>0, <1>w, <3>1, <3>2, WithinMisses
    <3>4. Within(s, w.start, n + 1) <= p.limit
      BY <2>3, KeyFacts
    <3>5. Within(s, t, n) <= Within(s, t, n + 1)
      BY <1>0, WithinMono
    <3>6. Within(s, t, n + 1) \in Nat /\ Within(s, w.start, n + 1) \in Nat
      BY <1>0, WithinFinite
    <3> QED
      BY <1>p, <2>1, <3>3, <3>4, <3>5, <3>6
  <2> QED
    BY <2>2, <2>3
<1>4. /\ r \in Seq(Nat) /\ \A i \in DOMAIN r : r[i] <= n
      /\ \A t \in Nat : Within(r, t, t + p.window) < 2 * p.limit
  <2>1. Within(r, n, n + 1) <= p.limit
    BY <1>2, <1>p
  <2>2. \A t \in Nat : t + p.window > n => Within(r, t, n) < p.limit
    BY <1>3
  <2>3. n <= n
    OBVIOUS
  <2> QED
    BY <1>0, <2>1, <2>2, <2>3, BurstKept
<1>5. \E i \in DOMAIN r : r[i] = n
  <2>1. Len(s) + 1 \in DOMAIN r /\ r[Len(s) + 1] = n
    BY <1>0
  <2> QED
    BY <2>1
<1>6. \A i \in DOMAIN r : r[i] < n + p.window
  <2>1. \A i \in DOMAIN r : r[i] \in Nat
    BY <1>4, SeqTimes DEF Times
  <2>2. \A x \in Nat : x <= n => x < n + p.window
    BY <1>p
  <2> HIDE DEF r
  <2> QED
    BY <1>4, <2>1, <2>2, Zenon
<1> QED
  <2> HIDE DEF r
  <2> DEFINE v == [count |-> 1, start |-> n]
  <2>1. v \in [count : Nat, start : Nat] /\ v.start = n /\ v.count = 1 /\ n <= n
    OBVIOUS
  <2> HIDE DEF v
  <2>2. WindowInv(r, v, p, n)
    BY <1>2, <1>3, <1>5, <1>6, <1>p, <2>1 DEF WindowInv
  <2>3. KeyInv(r, v, p, n)
    BY <1>4, <2>1, <2>2 DEF KeyInv
  <2> QED
    BY <2>3 DEF r, v

\* A call that is let through within a window.
LEMMA InWindow ==
  ASSUME NEW s, NEW w, NEW p, NEW n \in Nat, IsLimit(p), KeyInv(s, w, p, n),
         w.count # 0, n < w.start + p.window, w.count + 1 <= p.limit
  PROVE  KeyInv(Append(s, n), [w EXCEPT !.count = @ + 1], p, n)
<1> DEFINE r == Append(s, n)
           v == [w EXCEPT !.count = @ + 1]
<1>0. s \in Seq(Nat) /\ Times(s) /\ \A i \in DOMAIN s : s[i] \in Nat /\ s[i] <= n
  BY KeyFacts
<1>p. p.limit \in Nat /\ p.limit >= 1 /\ p.window \in Nat /\ p.window >= 1
  BY LimitNat
<1>w. w.start \in Nat /\ n < w.start + p.window
  BY KeyFacts
<1>1. /\ w.start \in Nat /\ w.start <= n /\ w.count \in Nat /\ WindowInv(s, w, p, n)
      /\ v \in [count : Nat, start : Nat] /\ v.start = w.start /\ v.count = w.count + 1
  BY KeyFacts
<1>2. Within(r, w.start, n + 1) = w.count + 1
  <2>1. Within(s, w.start, n + 1) = w.count
    BY <1>1, <1>p DEF WindowInv
  <2> QED
    BY <1>0, <1>1, <2>1, WithinAppend
<1>3. ASSUME NEW t \in Nat, t + p.window > w.start
      PROVE  Within(r, t, w.start) < p.limit
  <2>1. Within(r, t, w.start) = Within(s, t, w.start)
    BY <1>0, <1>1, WithinAppend
  <2> QED
    BY <1>1, <1>3, <2>1 DEF WindowInv
<1>4. /\ r \in Seq(Nat) /\ \A i \in DOMAIN r : r[i] <= n
      /\ \A t \in Nat : Within(r, t, t + p.window) < 2 * p.limit
  BY <1>0, <1>1, <1>2, <1>3, BurstKept
<1>5. \E i \in DOMAIN r : r[i] = w.start
  <2>1. PICK i \in DOMAIN s : s[i] = w.start
    BY <1>1 DEF WindowInv
  <2>2. i \in DOMAIN r /\ r[i] = s[i]
    BY <1>0, <2>1
  <2> QED
    BY <2>1, <2>2
<1>6. \A i \in DOMAIN r : r[i] < w.start + p.window
  <2>1. \A i \in DOMAIN r : r[i] \in Nat
    BY <1>4, SeqTimes DEF Times
  <2> HIDE DEF r
  <2> DEFINE e == w.start + p.window
  <2>2. e \in Nat /\ n < e
    BY <1>p, <1>w
  <2> HIDE DEF e
  <2>3. \A i \in DOMAIN r : r[i] < e
    BY <1>4, <2>1, <2>2
  <2> QED
    BY <2>3 DEF e
<1> QED
  <2> HIDE DEF r, v
  <2>1. v.count # 0 /\ v.count <= p.limit
    BY <1>1
  <2>2. WindowInv(r, v, p, n)
    BY <1>1, <1>2, <1>3, <1>5, <1>6, <2>1 DEF WindowInv
  <2>3. KeyInv(r, v, p, n)
    BY <1>1, <1>4, <2>1, <2>2 DEF KeyInv
  <2> QED
    BY <2>3 DEF r, v

\* A call that is turned away: the limit was used up in this window.
LEMMA OverLimit ==
  ASSUME NEW s, NEW w, NEW p, NEW n \in Nat, IsLimit(p), KeyInv(s, w, p, n),
         w.count # 0, n < w.start + p.window, w.count + 1 > p.limit
  PROVE  /\ KeyInv(s, [w EXCEPT !.count = @ + 1], p, n)
         /\ Within(s, w.start, n + 1) = p.limit
<1> DEFINE v == [w EXCEPT !.count = @ + 1]
<1>p. p.limit \in Nat /\ p.limit >= 1
  BY LimitNat
<1>1. /\ w.start \in Nat /\ w.start <= n /\ w.count \in Nat /\ WindowInv(s, w, p, n)
      /\ v \in [count : Nat, start : Nat] /\ v.start = w.start /\ v.count = w.count + 1
  BY KeyFacts
<1>2. Within(s, w.start, n + 1) = p.limit
  BY <1>1, <1>p DEF WindowInv
<1> HIDE DEF v
<1>3. WindowInv(s, v, p, n)
  <2>1. ~ v.count <= p.limit
    BY <1>1, <1>p
  <2> QED
    BY <1>1, <1>2, <2>1 DEF WindowInv
<1>4. v.count # 0
  BY <1>1
<1> QED
  BY <1>1, <1>2, <1>3, <1>4 DEF KeyInv, v

\* Time passes.
LEMMA KeyTick ==
  ASSUME NEW s, NEW w, NEW p, NEW n \in Nat, IsLimit(p), KeyInv(s, w, p, n)
  PROVE  KeyInv(s, w, p, n + 1)
<1>0. s \in Seq(Nat) /\ Times(s) /\ \A i \in DOMAIN s : s[i] \in Nat /\ s[i] <= n
  BY KeyFacts
<1>1. w.start \in Nat /\ w.start <= n /\ w.count \in Nat
  BY KeyFacts
<1>2. Within(s, w.start, n + 2) = Within(s, w.start, n + 1)
  <2>1. Within(s, n + 1, n + 2) = 0
    BY <1>0, WithinNone
  <2>2. Within(s, w.start, n + 2) = Within(s, w.start, n + 1) + Within(s, n + 1, n + 2)
    BY <1>0, <1>1, WithinSplit
  <2>3. Within(s, w.start, n + 1) \in Nat
    BY <1>0, WithinFinite
  <2> QED
    BY <2>1, <2>2, <2>3
<1>3. (n + 1) + 1 = n + 2
  OBVIOUS
<1>4. \A i \in DOMAIN s : s[i] <= n + 1
  BY <1>0
<1> QED
  BY <1>0, <1>1, <1>2, <1>3, <1>4 DEF KeyInv, WindowInv

-----------------------------------------------------------------------------
(***************************************************************************)
(* The inductive invariant                                                 *)
(***************************************************************************)

\* The policies that apply to the tool are those that its PolicySet has.
CacheInv == cache = [t \in Tools |-> compile(pack, t)]

RateInv ==
  \A i \in DOMAIN pack, s \in Subjects : pack[i].effect = "rate_limit" =>
    KeyInv(admitted[<<pack[i].name, s>>], windows[<<pack[i].name, s>>], pack[i], now)

LastInv == last # NoDecision => last.tool \in Tools

Inv ==
  /\ TypeOK /\ CacheInv /\ RateInv /\ LastInv
  /\ StrictestWins /\ RateDenialIsEarned /\ ResponseIsGoverned

-----------------------------------------------------------------------------
LEMMA PackFacts ==
  ASSUME pack \in Packs
  PROVE  /\ \A i, j \in DOMAIN pack : pack[i].name = pack[j].name => i = j
         /\ \A i \in DOMAIN pack : pack[i].effect = "rate_limit" => IsLimit(pack[i])
  BY PackAssumption DEF load_policy_pack, IsPolicy, IsLimit

LEMMA KeyOf ==
  ASSUME NEW i \in DOMAIN pack, pack[i].effect = "rate_limit", NEW s \in Subjects
  PROVE  <<pack[i].name, s>> \in Keys(pack)
  BY DEF Keys

LEMMA OfKey ==
  ASSUME NEW k \in Keys(pack)
  PROVE  \E i \in DOMAIN pack, s \in Subjects :
           pack[i].effect = "rate_limit" /\ k = <<pack[i].name, s>>
  BY DEF Keys

\* What the rate-limit loop does to one key: nothing, or one more call is counted, and let
\* through unless it is over the limit.
LEMMA RateLoopKey ==
  ASSUME pack \in Packs, NEW ps, ps \subseteq DOMAIN pack, NEW subject \in Subjects,
         NEW i \in DOMAIN pack, pack[i].effect = "rate_limit", NEW s \in Subjects
  PROVE  LET k == <<pack[i].name, s>>
             w == check_and_increment(windows[k], pack[i])
             R == RateLoop(ps, subject)
         IN  \/ R.windows[k] = windows[k] /\ R.admitted[k] = admitted[k]
             \/ /\ R.windows[k] = w
                /\ R.admitted[k] = IF w.count > pack[i].limit THEN admitted[k]
                                   ELSE Append(admitted[k], now)
<1> DEFINE k       == <<pack[i].name, s>>
           limits  == {j \in ps : pack[j].effect = "rate_limit"}
           after   == [j \in limits |->
                        check_and_increment(windows[<<pack[j].name, subject>>], pack[j])]
           over    == {j \in limits : after[j].count > pack[j].limit}
           counted == {j \in limits : \A m \in over : ~ Precedes(m, j)}
           hit     == {j \in counted : <<pack[j].name, subject>> = k}
           R       == RateLoop(ps, subject)
<1>1. k \in Keys(pack)
  BY KeyOf
<1>2. /\ R.windows[k] = IF hit = {} THEN windows[k] ELSE after[CHOOSE j \in hit : TRUE]
      /\ R.admitted[k] = IF hit \subseteq over THEN admitted[k] ELSE Append(admitted[k], now)
  BY <1>1 DEF RateLoop
<1>3. hit \subseteq {i}
  BY PackFacts
<1>4. CASE hit = {}
  <2> HIDE DEF hit, over, R, after, k
  <2> QED
    BY <1>2, <1>4 DEF k, R
<1>5. CASE hit # {}
  <2>1. hit = {i} /\ i \in limits /\ s = subject
    BY <1>3, <1>5
  <2>2. (CHOOSE j \in hit : TRUE) = i
    BY <2>1
  <2>3. after[i] = check_and_increment(windows[k], pack[i])
    BY <2>1
  <2>4. hit \subseteq over <=> after[i].count > pack[i].limit
    BY <2>1
  <2> HIDE DEF hit, over, R, after, limits, k
  <2> QED
    BY <1>2, <1>5, <2>2, <2>3, <2>4 DEF k, R
<1> QED
  BY <1>4, <1>5

\* Who is turned away by it, and that this call is not let through by the same limit.
LEMMA RateLoopDenied ==
  ASSUME pack \in Packs, NEW ps, ps \subseteq DOMAIN pack, NEW subject \in Subjects,
         NEW name \in RateLoop(ps, subject).denied_by
  PROVE  \E i \in ps :
           /\ pack[i].effect = "rate_limit" /\ pack[i].name = name
           /\ check_and_increment(windows[<<name, subject>>], pack[i]).count > pack[i].limit
           /\ RateLoop(ps, subject).admitted[<<name, subject>>] = admitted[<<name, subject>>]
<1> DEFINE limits  == {j \in ps : pack[j].effect = "rate_limit"}
           after   == [j \in limits |->
                        check_and_increment(windows[<<pack[j].name, subject>>], pack[j])]
           over    == {j \in limits : after[j].count > pack[j].limit}
           counted == {j \in limits : \A m \in over : ~ Precedes(m, j)}
           R       == RateLoop(ps, subject)
<1>1. PICK i \in counted \cap over : pack[i].name = name
  BY DEF RateLoop
<1>2. i \in ps /\ i \in DOMAIN pack /\ pack[i].effect = "rate_limit"
  BY <1>1
<1>3. check_and_increment(windows[<<name, subject>>], pack[i]).count > pack[i].limit
  BY <1>1, <1>2
<1> DEFINE hit == {j \in counted : <<pack[j].name, subject>> = <<name, subject>>}
<1>4. hit \subseteq over
  BY <1>1, <1>2, PackFacts
<1>5. <<name, subject>> \in Keys(pack)
  BY <1>1, <1>2, KeyOf
<1>6. R.admitted[<<name, subject>>] =
        IF hit \subseteq over THEN admitted[<<name, subject>>]
        ELSE Append(admitted[<<name, subject>>], now)
  BY <1>5 DEF RateLoop
<1>7. R.admitted[<<name, subject>>] = admitted[<<name, subject>>]
  <2> HIDE DEF hit, over, R
  <2> QED
    BY <1>4, <1>6
<1> QED
  BY <1>1, <1>2, <1>3, <1>7

\* The limiter's part of Inv, for one key and one call.
LEMMA KeyCounted ==
  ASSUME NEW s, NEW w, NEW p, now \in Nat, IsLimit(p), KeyInv(s, w, p, now)
  PROVE  LET v == check_and_increment(w, p)
         IN  /\ KeyInv(IF v.count > p.limit THEN s ELSE Append(s, now), v, p, now)
             /\ v.count <= w.count + 1
             /\ v.count > p.limit => /\ now < w.start + p.window
                                     /\ Within(s, w.start, now + 1) = p.limit
<1> DEFINE v == check_and_increment(w, p)
<1>p. p.limit \in Nat /\ p.limit >= 1 /\ p.window \in Nat /\ p.window >= 1
  BY LimitNat
<1>w. w.start \in Nat /\ w.start <= now /\ w.count \in Nat
  BY KeyFacts
<1>1. CASE w.count = 0 \/ now >= w.start + p.window
  <2>1. w.count = 0 \/ now - w.start >= p.window
    BY <1>1, <1>p, <1>w
  <2>2. v = [count |-> 1, start |-> now]
    BY <2>1 DEF check_and_increment
  <2>3. KeyInv(Append(s, now), [count |-> 1, start |-> now], p, now)
    BY <1>1, OpenWindow
  <2>4. v.count = 1 /\ ~ v.count > p.limit /\ v.count <= w.count + 1
    BY <1>p, <1>w, <2>2
  <2> QED
    BY <2>2, <2>3, <2>4
<1>2. CASE w.count # 0 /\ now < w.start + p.window
  <2>1. ~ (w.count = 0 \/ now - w.start >= p.window)
    BY <1>2, <1>p, <1>w
  <2>2. v = [w EXCEPT !.count = @ + 1]
    BY <2>1 DEF check_and_increment
  <2>3. v.count = w.count + 1
    BY <2>2, KeyFacts
  <2>4. CASE w.count + 1 <= p.limit
    <3>1. KeyInv(Append(s, now), [w EXCEPT !.count = @ + 1], p, now)
      BY <1>2, <2>4, InWindow
    <3>2. ~ v.count > p.limit /\ v.count <= w.count + 1
      BY <1>p, <1>w, <2>3, <2>4
    <3> HIDE DEF v
    <3> QED
      BY <2>2, <3>1, <3>2 DEF v
  <2>5. CASE w.count + 1 > p.limit
    <3>1. /\ KeyInv(s, [w EXCEPT !.count = @ + 1], p, now)
          /\ Within(s, w.start, now + 1) = p.limit
      BY <1>2, <2>5, OverLimit
    <3>2. v.count > p.limit /\ v.count <= w.count + 1
      BY <1>p, <1>w, <2>3, <2>5
    <3> HIDE DEF v
    <3> QED
      BY <1>2, <2>2, <3>1, <3>2 DEF v
  <2> QED
    BY <1>p, <1>w, <2>4, <2>5
<1> QED
  BY <1>1, <1>2, <1>p, <1>w

-----------------------------------------------------------------------------
(***************************************************************************)
(* The list of checks                                                      *)
(***************************************************************************)

LEMMA CustomCheckFacts ==
  ASSUME NEW ps, NEW custom
  PROVE  /\ CustomCheck(ps, custom).fires <=>
              \E i \in ps : /\ pack[i].effect = "custom" /\ pack[i].stage = "request"
                            /\ CustomResult(pack[i], custom) # "pass"
         /\ CustomCheck(ps, custom).gives.outcome = "DENY"
<1> DEFINE objects == {i \in ps : /\ pack[i].effect = "custom" /\ pack[i].stage = "request"
                                  /\ CustomResult(pack[i], custom) # "pass"}
           C == CustomCheck(ps, custom)
<1>1. C.fires = (objects # {})
  BY DEF CustomCheck
<1>2. C.gives = Verdict("DENY", "custom") \/ C.gives = Raised
  BY DEF CustomCheck
<1>3. C.gives.outcome = "DENY"
  BY <1>2 DEF Verdict, Raised
<1> QED
  BY <1>1, <1>3

\* The check that decides is the first that fires.
LEMMA FirstFires ==
  ASSUME NEW F \in SUBSET (1..8), 8 \in F
  PROVE  Min(F) \in F /\ \A i \in F : Min(F) <= i
<1>1. \E m \in F : \A i \in F : m <= i
  <2>1. CASE 1 \in F
    BY <2>1
  <2>2. CASE 1 \notin F /\ 2 \in F
    BY <2>2
  <2>3. CASE 1 \notin F /\ 2 \notin F /\ 3 \in F
    BY <2>3
  <2>4. CASE 1 \notin F /\ 2 \notin F /\ 3 \notin F /\ 4 \in F
    BY <2>4
  <2>5. CASE 1 \notin F /\ 2 \notin F /\ 3 \notin F /\ 4 \notin F /\ 5 \in F
    BY <2>5
  <2>6. CASE 1 \notin F /\ 2 \notin F /\ 3 \notin F /\ 4 \notin F /\ 5 \notin F /\ 6 \in F
    BY <2>6
  <2>7. CASE 1 \notin F /\ 2 \notin F /\ 3 \notin F /\ 4 \notin F /\ 5 \notin F /\ 6 \notin F
    BY <2>7
  <2> QED
    BY <2>1, <2>2, <2>3, <2>4, <2>5, <2>6, <2>7
<1> QED
  BY <1>1 DEF Min

\* The position of that check, and what it gives.
Decides(ps, dd, over, custom) == FirstToFire(Checks(ps, dd, over, custom))

Given(ps, dd, over, custom) == Checks(ps, dd, over, custom)[Decides(ps, dd, over, custom)].gives

\* What the list of checks decides, in terms of the policies that apply.
LEMMA Decision ==
  ASSUME NEW ps, NEW dd \in BOOLEAN, NEW over \in BOOLEAN, NEW custom
  PROVE  /\ Decides(ps, dd, over, custom) < RATE_CHECK <=>
              HasEffect(ps, "allowlist") \/ dd \/ HasEffect(ps, "denylist")
         /\ Given(ps, dd, over, custom).outcome =
              IF HasEffect(ps, "allowlist") THEN "PASS"
              ELSE IF \/ dd \/ HasEffect(ps, "denylist") \/ over
                      \/ CustomCheck(ps, custom).fires THEN "DENY"
              ELSE IF HasEffect(ps, "hitl_gate") THEN "HOLD"
              ELSE IF HasEffect(ps, "cost_cap") THEN "DENY" ELSE "PASS"
<1> DEFINE c == Checks(ps, dd, over, custom)
           F == {i \in DOMAIN c : c[i].fires}
           d == Min(F)
           A == HasEffect(ps, "allowlist")
           D == HasEffect(ps, "denylist")
           C == CustomCheck(ps, custom).fires
           H == HasEffect(ps, "hitl_gate")
           P == HasEffect(ps, "cost_cap")
<1>1. /\ DOMAIN c = 1..8
      /\ c[1].fires = A  /\ c[1].gives.outcome = "PASS"
      /\ c[2].fires = dd /\ c[2].gives.outcome = "DENY"
      /\ c[3].fires = D  /\ c[3].gives.outcome = "DENY"
      /\ c[4].fires = over /\ c[4].gives.outcome = "DENY"
      /\ c[5].fires = C  /\ c[5].gives.outcome = "DENY"
      /\ c[6].fires = H /\ c[6].gives.outcome = "HOLD"
      /\ c[7].fires = P  /\ c[7].gives.outcome = "DENY"
      /\ c[8].fires = TRUE /\ c[8].gives.outcome = "PASS"
  BY CustomCheckFacts DEF Checks, Verdict, Raised
<1>2. A \in BOOLEAN /\ D \in BOOLEAN /\ C \in BOOLEAN /\ H \in BOOLEAN /\ P \in BOOLEAN
  BY DEF HasEffect, CustomCheck
<1> HIDE DEF c, A, D, C, H, P
<1>3. F \in SUBSET (1..8) /\ 8 \in F
  BY <1>1
<1>4. /\ 1 \in F <=> A
      /\ 2 \in F <=> dd
      /\ 3 \in F <=> D
      /\ 4 \in F <=> over
      /\ 5 \in F <=> C
      /\ 6 \in F <=> H
      /\ 7 \in F <=> P
  BY <1>1, <1>2
<1> HIDE DEF F
<1>5. d \in F /\ \A i \in F : d <= i
  BY <1>3, FirstFires
<1>6. d \in 1..8
  BY <1>3, <1>5
<1> HIDE DEF d
<1>7. /\ A => d = 1
      /\ ~ A /\ dd => d = 2
      /\ ~ A /\ ~ dd /\ D => d = 3
      /\ ~ A /\ ~ dd /\ ~ D /\ over => d = 4
      /\ ~ A /\ ~ dd /\ ~ D /\ ~ over /\ C => d = 5
      /\ ~ A /\ ~ dd /\ ~ D /\ ~ over /\ ~ C /\ H => d = 6
      /\ ~ A /\ ~ dd /\ ~ D /\ ~ over /\ ~ C /\ ~ H /\ P => d = 7
      /\ ~ A /\ ~ dd /\ ~ D /\ ~ over /\ ~ C /\ ~ H /\ ~ P => d = 8
  BY <1>3, <1>4, <1>5, <1>6
<1>8. d < RATE_CHECK <=> A \/ dd \/ D
  BY <1>7 DEF RATE_CHECK
<1>9. c[d].gives.outcome = IF A THEN "PASS" ELSE IF dd \/ D \/ over \/ C THEN "DENY"
                           ELSE IF H THEN "HOLD" ELSE IF P THEN "DENY" ELSE "PASS"
  BY <1>1, <1>7
<1> QED
  BY <1>8, <1>9 DEF Decides, FirstToFire, Given, c, d, F, A, D, C, H, P

-----------------------------------------------------------------------------
\* A call and its decision, with the choices of Evaluate named.
Decided(subject, tool, custom) ==
  LET ps   == compile(pack, tool)
      rate == RateLoop(ps, subject)
      S    == server_has_allowlist(pack)
      d    == Decides(ps, S, rate.denied_by # {}, custom)
  IN  /\ windows'  = IF d < RATE_CHECK THEN windows  ELSE rate.windows
      /\ admitted' = IF d < RATE_CHECK THEN admitted ELSE rate.admitted
      /\ last' = [tool |-> tool, subject |-> subject, at |-> now, custom |-> custom,
                  verdict |-> Given(ps, S, rate.denied_by # {}, custom),
                  limiter |-> IF d < RATE_CHECK THEN {} ELSE rate.denied_by]

LEMMA EvaluateDecides ==
  ASSUME CacheInv, NEW subject \in Subjects, NEW tool \in Tools, Evaluate(subject, tool)
  PROVE  \E custom : Decided(subject, tool, custom)
<1>1. cache[tool] = compile(pack, tool)
  BY DEF CacheInv
<1>2. PICK custom : Evaluate(subject, tool)!2!(custom)
  BY DEF Evaluate
<1>3. Decided(subject, tool, custom)
  BY <1>1, <1>2, Zenon DEF Decided, Decides, Given
<1> QED
  BY <1>3

\* The same by cases: the limiter is left alone, or its loop has run.
LEMMA DecidedFacts ==
  ASSUME NEW subject, NEW tool, NEW custom, Decided(subject, tool, custom)
  PROVE  LET ps   == compile(pack, tool)
             rate == RateLoop(ps, subject)
             A    == HasEffect(ps, "allowlist")
             S    == server_has_allowlist(pack)
             D    == HasEffect(ps, "denylist")
         IN  /\ last'.tool = tool /\ last'.subject = subject /\ last'.at = now
             /\ last'.custom = custom
             /\ last'.verdict.outcome =
                  IF A THEN "PASS"
                  ELSE IF \/ S \/ D \/ rate.denied_by # {}
                          \/ CustomCheck(ps, custom).fires THEN "DENY"
                  ELSE IF HasEffect(ps, "hitl_gate") THEN "HOLD"
                  ELSE IF HasEffect(ps, "cost_cap") THEN "DENY" ELSE "PASS"
             /\ \/ /\ A \/ S \/ D
                   /\ windows' = windows /\ admitted' = admitted /\ last'.limiter = {}
                \/ /\ ~ (A \/ S \/ D)
                   /\ windows' = rate.windows /\ admitted' = rate.admitted
                   /\ last'.limiter = rate.denied_by
<1> DEFINE ps   == compile(pack, tool)
           rate == RateLoop(ps, subject)
           S    == server_has_allowlist(pack)
           over == rate.denied_by # {}
           d    == Decides(ps, S, over, custom)
           g    == Given(ps, S, over, custom)
<1>1. S \in BOOLEAN /\ over \in BOOLEAN
  BY DEF server_has_allowlist
<1>2. /\ d < RATE_CHECK <=> HasEffect(ps, "allowlist") \/ S \/ HasEffect(ps, "denylist")
      /\ g.outcome =
           IF HasEffect(ps, "allowlist") THEN "PASS"
           ELSE IF \/ S \/ HasEffect(ps, "denylist") \/ over
                   \/ CustomCheck(ps, custom).fires THEN "DENY"
           ELSE IF HasEffect(ps, "hitl_gate") THEN "HOLD"
           ELSE IF HasEffect(ps, "cost_cap") THEN "DENY" ELSE "PASS"
  <2> HIDE DEF ps, S, over
  <2> QED
    BY <1>1, Decision, Zenon
<1>3. /\ windows'  = IF d < RATE_CHECK THEN windows  ELSE rate.windows
      /\ admitted' = IF d < RATE_CHECK THEN admitted ELSE rate.admitted
      /\ last' = [tool |-> tool, subject |-> subject, at |-> now, custom |-> custom,
                  verdict |-> g,
                  limiter |-> IF d < RATE_CHECK THEN {} ELSE rate.denied_by]
  BY DEF Decided
<1> HIDE DEF g, d
<1>4. /\ last'.tool = tool /\ last'.subject = subject /\ last'.at = now /\ last'.custom = custom
      /\ last'.verdict.outcome = g.outcome
      /\ last'.limiter = IF d < RATE_CHECK THEN {} ELSE rate.denied_by
  BY <1>3
<1> HIDE DEF S, ps
<1>5. CASE d < RATE_CHECK
  BY <1>2, <1>3, <1>4, <1>5 DEF S, ps
<1>6. CASE ~ d < RATE_CHECK
  BY <1>2, <1>3, <1>4, <1>6 DEF S, ps
<1> QED
  BY <1>5, <1>6

LEMMA StrictestStep ==
  ASSUME pack \in Packs, CacheInv, NEW subject \in Subjects, NEW tool \in Tools,
         Evaluate(subject, tool)
  PROVE  StrictestWins'
<1> DEFINE ps   == compile(pack, tool)
           rate == RateLoop(ps, subject)
           S    == server_has_allowlist(pack)
           Ap   == {pack[i] : i \in ps}
<1>1. PICK custom : Decided(subject, tool, custom)
  BY EvaluateDecides
<1>2. pack' = pack
  BY DEF Evaluate
<1>3. last'.tool = tool /\ last'.custom = custom
  BY <1>1, DecidedFacts
<1>4. Applicable' = Ap
  BY <1>2, <1>3 DEF Applicable, Policies, compile
<1>5. \A e : HasEffect(ps, e) <=> \E p \in Ap : p.effect = e
  BY DEF HasEffect
<1>6. S <=> \E p \in Policies' : p.effect = "allowlist" /\ p.server = "s"
  BY <1>2 DEF server_has_allowlist, Policies
<1>7. last'.verdict.outcome =
        IF HasEffect(ps, "allowlist") THEN "PASS"
        ELSE IF \/ S \/ HasEffect(ps, "denylist") \/ rate.denied_by # {}
                \/ CustomCheck(ps, custom).fires THEN "DENY"
        ELSE IF HasEffect(ps, "hitl_gate") THEN "HOLD"
        ELSE IF HasEffect(ps, "cost_cap") THEN "DENY" ELSE "PASS"
  BY <1>1, DecidedFacts
<1>8. ~ HasEffect(ps, "allowlist") /\ ~ S /\ ~ HasEffect(ps, "denylist") =>
        last'.limiter = rate.denied_by
  BY <1>1, DecidedFacts
<1>9. CustomCheck(ps, custom).fires <=>
        \E p \in Ap : p.effect = "custom" /\ p.stage = "request" /\ CustomResult(p, custom) # "pass"
  BY CustomCheckFacts
<1>10. rate.denied_by # {} <=> \E p \in Ap : p.effect = "rate_limit" /\ p.name \in rate.denied_by
  <2>1. ps \subseteq DOMAIN pack
    BY DEF compile
  <2>2. \A name \in rate.denied_by :
          \E i \in ps : pack[i].effect = "rate_limit" /\ pack[i].name = name
    <3> HIDE DEF ps
    <3>1. ASSUME NEW name \in RateLoop(ps, subject).denied_by
          PROVE  \E i \in ps : pack[i].effect = "rate_limit" /\ pack[i].name = name
      BY <2>1, RateLoopDenied
    <3> QED
      BY <3>1
  <2> HIDE DEF rate, ps
  <2> QED
    BY <2>2
<1> DEFINE Asks1(p) == Asks(p)'
<1>11. \A p : Asks1(p) = CASE p.effect = "denylist"  -> "DENY"
                  [] p.effect = "hitl_gate" -> "HOLD"
                  [] p.effect = "custom" /\ p.stage = "request" ->
                       IF CustomResult(p, custom) = "pass" THEN "PASS" ELSE "DENY"
                  [] p.effect = "rate_limit" -> IF p.name \in last'.limiter THEN "DENY" ELSE "PASS"
                  [] OTHER -> "PASS"
  BY <1>3 DEF Asks, CustomResult
<1>12. \A p : /\ Asks1(p) = "DENY" <=>
                \/ p.effect = "denylist"
                \/ p.effect = "custom" /\ p.stage = "request" /\ CustomResult(p, custom) # "pass"
                \/ p.effect = "rate_limit" /\ p.name \in last'.limiter
              /\ Asks1(p) = "HOLD" <=> p.effect = "hitl_gate"
  BY <1>11
<1> QED
  <2> DEFINE asked == {Asks1(p) : p \in Ap}
  <2>1. "DENY" \in asked <=> \E p \in Ap : Asks1(p) = "DENY"
    OBVIOUS
  <2>2. "HOLD" \in asked <=> \E p \in Ap : Asks1(p) = "HOLD"
    OBVIOUS
  <2> HIDE DEF Asks1
  <2>3. "HOLD" \in asked <=> HasEffect(ps, "hitl_gate")
    BY <1>5, <1>12, <2>2
  <2>4. ~ HasEffect(ps, "allowlist") /\ ~ S =>
          ("DENY" \in asked <=> \/ HasEffect(ps, "denylist") \/ rate.denied_by # {}
                                \/ CustomCheck(ps, custom).fires)
    <3> HIDE DEF ps, rate, S, Ap
    <3>1. CASE HasEffect(ps, "denylist")
      BY <1>5, <1>12, <2>1, <3>1
    <3>2. CASE ~ HasEffect(ps, "allowlist") /\ ~ S /\ ~ HasEffect(ps, "denylist")
      BY <1>5, <1>8, <1>9, <1>10, <1>12, <2>1, <3>2
    <3> QED
      BY <3>1, <3>2
  <2>5. StrictestWins' <=>
          (last' # NoDecision =>
             last'.verdict.outcome =
               IF \E p \in Ap : p.effect = "allowlist" THEN "PASS"
               ELSE IF \E p \in Policies' : p.effect = "allowlist" /\ p.server = "s" THEN "DENY"
               ELSE IF "DENY" \in asked THEN "DENY"
               ELSE IF "HOLD" \in asked THEN "HOLD"
               ELSE IF \E p \in Ap : p.effect = "cost_cap" THEN "DENY" ELSE "PASS")
    BY <1>4 DEF StrictestWins, NoDecision, Verdict, Asks1
  <2> HIDE DEF ps, rate, S, Ap, asked
  <2> QED
    BY <1>5, <1>6, <1>7, <2>3, <2>4, <2>5

-----------------------------------------------------------------------------
\* The types, spelt out.
LEMMA TypeFacts ==
  ASSUME TypeOK
  PROVE  /\ pack \in Packs /\ now \in Nat /\ calls \in Nat
         /\ DOMAIN windows = Keys(pack) /\ windows = [k \in Keys(pack) |-> windows[k]]
         /\ \A k \in Keys(pack) : windows[k].count \in 0..calls
         /\ MaxTime \in Nat /\ MaxCalls \in Nat
  BY PackAssumption DEF TypeOK

LEMMA CompileInPack ==
  ASSUME NEW tool
  PROVE  compile(pack, tool) \subseteq DOMAIN pack
  BY DEF compile

\* One key after one call.
LEMMA KeyEvaluated ==
  ASSUME TypeOK, RateInv, NEW subject \in Subjects, NEW tool, NEW custom,
         Decided(subject, tool, custom),
         NEW i \in DOMAIN pack, pack[i].effect = "rate_limit", NEW s \in Subjects
  PROVE  LET k == <<pack[i].name, s>>
         IN  /\ KeyInv(admitted'[k], windows'[k], pack[i], now)
             /\ windows'[k].count <= calls + 1
<1> DEFINE k    == <<pack[i].name, s>>
           ps   == compile(pack, tool)
           rate == RateLoop(ps, subject)
           p    == pack[i]
           w    == windows[k]
           v    == check_and_increment(w, p)
<1>1. pack \in Packs /\ now \in Nat /\ calls \in Nat
  BY TypeFacts
<1>2. k \in Keys(pack) /\ w.count \in 0..calls
  BY KeyOf, TypeFacts
<1>3. IsLimit(p)
  BY <1>1, PackFacts
<1>4. KeyInv(admitted[k], w, p, now)
  BY DEF RateInv
<1>5. /\ KeyInv(IF v.count > p.limit THEN admitted[k] ELSE Append(admitted[k], now), v, p, now)
      /\ v.count <= w.count + 1
  BY <1>1, <1>3, <1>4, KeyCounted
<1>v. v.count \in Nat
  BY <1>5 DEF KeyInv
<1>6. \/ windows' = windows /\ admitted' = admitted
      \/ windows' = rate.windows /\ admitted' = rate.admitted
  BY DecidedFacts
<1>7. \/ rate.windows[k] = w /\ rate.admitted[k] = admitted[k]
      \/ /\ rate.windows[k] = v
         /\ rate.admitted[k] = IF v.count > p.limit THEN admitted[k] ELSE Append(admitted[k], now)
  BY <1>1, CompileInPack, RateLoopKey
<1> HIDE DEF w, v, rate, p, ps
<1>8. \/ windows'[k] = w /\ admitted'[k] = admitted[k]
      \/ /\ windows'[k] = v
         /\ admitted'[k] = IF v.count > p.limit THEN admitted[k] ELSE Append(admitted[k], now)
  BY <1>6, <1>7 DEF w
<1> HIDE DEF k
<1>9. KeyInv(admitted'[k], windows'[k], p, now)
  BY <1>4, <1>5, <1>8
<1>10. windows'[k].count <= calls + 1
  BY <1>1, <1>2, <1>5, <1>v, <1>8
<1> QED
  BY <1>9, <1>10 DEF k, p

LEMMA EvaluateRate ==
  ASSUME Inv, NEW subject \in Subjects, NEW tool \in Tools, Evaluate(subject, tool)
  PROVE  TypeOK' /\ CacheInv' /\ RateInv' /\ LastInv'
<1>0. TypeOK /\ RateInv /\ CacheInv
  BY DEF Inv
<1>1. PICK custom : Decided(subject, tool, custom)
  BY <1>0, EvaluateDecides
<1>2. /\ pack' = pack /\ cache' = cache /\ now' = now /\ calls' = calls + 1 /\ calls < MaxCalls
      /\ resp' = NoResponse
  BY DEF Evaluate
<1>3. /\ pack \in Packs /\ now \in Nat /\ calls \in Nat /\ now \in 0..MaxTime
      /\ MaxCalls \in Nat
  BY <1>0, TypeFacts DEF TypeOK
<1>4. RateInv'
  <2> SUFFICES ASSUME NEW i \in DOMAIN pack, NEW s \in Subjects, pack[i].effect = "rate_limit"
               PROVE  KeyInv(admitted'[<<pack[i].name, s>>], windows'[<<pack[i].name, s>>],
                             pack[i], now)
    BY <1>2 DEF RateInv
  <2> QED
    BY <1>0, <1>1, KeyEvaluated
<1>5. ASSUME NEW k \in Keys(pack)
      PROVE  /\ windows'[k] \in [count : 0..(calls + 1), start : 0..now]
             /\ ToSet(admitted'[k]) \subseteq 0..now
  <2>1. PICK i \in DOMAIN pack, s \in Subjects :
          pack[i].effect = "rate_limit" /\ k = <<pack[i].name, s>>
    BY OfKey
  <2>2. KeyInv(admitted'[k], windows'[k], pack[i], now) /\ windows'[k].count <= calls + 1
    BY <1>0, <1>1, <2>1, KeyEvaluated
  <2>3. IsLimit(pack[i])
    BY <1>3, <2>1, PackFacts
  <2> DEFINE w == windows'[k]
             a == admitted'[k]
  <2> HIDE DEF w, a
  <2>4. /\ w = [count |-> w.count, start |-> w.start] /\ w.count \in Nat /\ w.start \in Nat
        /\ w.start <= now /\ w.count <= calls + 1
        /\ \A j \in DOMAIN a : a[j] \in Nat /\ a[j] <= now
    BY <1>3, <2>2, <2>3, KeyFacts DEF w, a
  <2>5. w \in [count : 0..(calls + 1), start : 0..now]
    BY <1>3, <2>4
  <2>6. ToSet(a) \subseteq 0..now
    BY <1>3, <2>4 DEF ToSet
  <2> QED
    BY <2>5, <2>6 DEF w, a
<1>6. DOMAIN windows' = Keys(pack) /\ windows' = [k \in Keys(pack) |-> windows'[k]]
      /\ DOMAIN admitted' = Keys(pack)
  <2> DEFINE rate == RateLoop(compile(pack, tool), subject)
  <2>1. \/ windows' = windows /\ admitted' = admitted
        \/ windows' = rate.windows /\ admitted' = rate.admitted
    BY <1>1, DecidedFacts
  <2>2. DOMAIN rate.windows = Keys(pack) /\ DOMAIN rate.admitted = Keys(pack)
        /\ rate.windows = [k \in Keys(pack) |-> rate.windows[k]]
    BY DEF RateLoop
  <2>3. /\ DOMAIN windows = Keys(pack) /\ windows = [k \in Keys(pack) |-> windows[k]]
        /\ DOMAIN admitted = Keys(pack)
    BY <1>0, TypeFacts DEF TypeOK
  <2> HIDE DEF rate
  <2> QED
    BY <2>1, <2>2, <2>3
<1>7. last'.verdict.outcome \in Outcomes /\ last'.tool = tool
  BY <1>1, DecidedFacts DEF Outcomes
<1>8. TypeOK'
  <2>1. windows' \in [Keys(pack) -> [count : 0..(calls + 1), start : 0..now]]
    BY <1>5, <1>6
  <2>2. calls + 1 \in 0..MaxCalls
    BY <1>2, <1>3
  <2>3. resp'.status = "none"
    BY <1>2 DEF NoResponse
  <2> QED
    BY <1>2, <1>3, <1>5, <1>6, <1>7, <2>1, <2>2, <2>3 DEF TypeOK
<1>9. CacheInv' /\ LastInv'
  BY <1>0, <1>2, <1>7 DEF CacheInv, LastInv
<1> QED
  BY <1>4, <1>8, <1>9

LEMMA EvaluateDenies ==
  ASSUME Inv, NEW subject \in Subjects, NEW tool \in Tools, Evaluate(subject, tool)
  PROVE  RateDenialIsEarned'
<1>0. TypeOK /\ RateInv /\ CacheInv
  BY DEF Inv
<1>1. PICK custom : Decided(subject, tool, custom)
  BY <1>0, EvaluateDecides
<1> DEFINE ps   == compile(pack, tool)
           rate == RateLoop(ps, subject)
<1>2. pack' = pack
  BY DEF Evaluate
<1>3. pack \in Packs /\ now \in Nat /\ ps \subseteq DOMAIN pack
  BY <1>0, TypeFacts, CompileInPack
<1>4. last'.subject = subject /\ last'.at = now
  BY <1>1, DecidedFacts
<1> SUFFICES ASSUME NEW p \in Policies', p.name \in last'.limiter
             PROVE  LET from == IF now + 1 > p.window THEN now + 1 - p.window ELSE 0
                    IN  Cardinality({x \in DOMAIN admitted'[<<p.name, subject>>] :
                          admitted'[<<p.name, subject>>][x] \in from..now}) >= p.limit
  BY <1>4 DEF RateDenialIsEarned, Passed
<1>5. PICK j \in DOMAIN pack : p = pack[j]
  BY <1>2 DEF Policies
<1>6. p.name \in rate.denied_by /\ admitted' = rate.admitted
  BY <1>1, DecidedFacts
<1> DEFINE k == <<p.name, subject>>
           w == windows[k]
           s == admitted[k]
<1>7. PICK i \in ps : /\ pack[i].effect = "rate_limit" /\ pack[i].name = p.name
                      /\ check_and_increment(w, pack[i]).count > pack[i].limit
                      /\ rate.admitted[k] = s
  BY <1>3, <1>6, RateLoopDenied
<1>8. i = j /\ i \in DOMAIN pack /\ p = pack[i] /\ p.effect = "rate_limit"
  BY <1>3, <1>5, <1>7, PackFacts
<1>9. IsLimit(p) /\ KeyInv(s, w, p, now)
  BY <1>0, <1>3, <1>8, PackFacts DEF RateInv
<1>10. now < w.start + p.window /\ Within(s, w.start, now + 1) = p.limit
  BY <1>3, <1>7, <1>8, <1>9, KeyCounted
<1>11. /\ p.limit \in Nat /\ p.window \in Nat /\ w.start \in Nat /\ Times(s)
       /\ \A x \in DOMAIN s : s[x] \in Nat
  BY <1>3, <1>9, LimitNat, KeyFacts
<1> HIDE DEF w, s, rate, ps
<1> DEFINE from == IF now + 1 > p.window THEN now + 1 - p.window ELSE 0
<1>12. from \in Nat /\ from <= w.start
  BY <1>3, <1>10, <1>11
<1> HIDE DEF from
<1>13. Within(s, from, now + 1) >= p.limit
  <2>1. now + 1 \in Nat /\ now + 1 <= now + 1
    BY <1>3
  <2>2. Within(s, w.start, now + 1) <= Within(s, from, now + 1)
    BY <1>11, <1>12, <2>1, WithinMono
  <2> QED
    BY <1>10, <2>2, <1>11, WithinFinite
<1>14. {x \in DOMAIN s : from <= s[x] /\ s[x] < now + 1} = {x \in DOMAIN s : s[x] \in from..now}
  BY <1>3, <1>11, <1>12
<1>15. admitted'[k] = s
  BY <1>6, <1>7
<1> QED
  BY <1>13, <1>14, <1>15 DEF from, Within

-----------------------------------------------------------------------------
(***************************************************************************)
(* The response side                                                       *)
(***************************************************************************)

\* Redaction takes what the patterns find out of the strings, and nothing else.
LEMMA Redacted ==
  ASSUME NEW reply \in Replies, NEW names
  PROVE  /\ \A l \in redact_json_value(reply.leaves, names) :
              l.text => l.has \cap (PII_PATTERNS \cap names) = {}
         /\ \A l \in reply.leaves : \E k \in redact_json_value(reply.leaves, names) :
              /\ k.place = l.place /\ k.text = l.text
              /\ k.has \subseteq l.has /\ l.has \ k.has \subseteq PII_PATTERNS \cap names
<1> DEFINE red(l) == IF l.text THEN [l EXCEPT !.has = redact_text(@, names)] ELSE l
           L == redact_json_value(reply.leaves, names)
<1>1. L = {red(l) : l \in reply.leaves}
  BY DEF redact_json_value
<1>2. ASSUME NEW l \in reply.leaves
      PROVE  /\ red(l).place = l.place /\ red(l).text = l.text
             /\ red(l).has = IF l.text THEN l.has \ (names \cap PII_PATTERNS) ELSE l.has
  <2>1. l = [place |-> l.place, text |-> l.text, has |-> l.has] /\ l.text \in BOOLEAN
    BY ReplyAssumption
  <2>2. CASE l.text
    BY <2>1, <2>2 DEF redact_text
  <2>3. CASE ~ l.text
    BY <2>3
  <2> QED
    BY <2>1, <2>2, <2>3
<1> HIDE DEF red
<1>3. ASSUME NEW k \in L, k.text
      PROVE  k.has \cap (PII_PATTERNS \cap names) = {}
  <2>1. PICK l \in reply.leaves : k = red(l)
    BY <1>1
  <2>2. k.has = l.has \ (names \cap PII_PATTERNS)
    BY <1>2, <1>3, <2>1
  <2> QED
    BY <2>2
<1>4. ASSUME NEW l \in reply.leaves
      PROVE  \E k \in L : /\ k.place = l.place /\ k.text = l.text
                          /\ k.has \subseteq l.has
                          /\ l.has \ k.has \subseteq PII_PATTERNS \cap names
  <2>1. red(l) \in L
    BY <1>1
  <2>2. /\ red(l).place = l.place /\ red(l).text = l.text
        /\ red(l).has \subseteq l.has /\ l.has \ red(l).has \subseteq PII_PATTERNS \cap names
    BY <1>2
  <2> QED
    BY <2>1, <2>2
<1> QED
  BY <1>3, <1>4

\* A function raises when it is not registered, or when it cannot set its flag.
LEMMA Raises ==
  ASSUME NEW p, NEW leaves, NEW redis_up \in BOOLEAN
  PROVE  ResponseRaises(p, leaves, redis_up) <=>
           \/ ~ p.known
           \/ /\ p.fn = "aml_structuring_alert" /\ ~ redis_up
              /\ \E l \in leaves : l.place = "structuredContent" /\ "flagged" \in l.has
<1>1. p.fn = "aml_structuring_alert" =>
        (response_policy(p.fn, leaves) # {} <=>
           \E l \in leaves : l.place = "structuredContent" /\ "flagged" \in l.has)
  BY DEF response_policy
<1> QED
  BY <1>1 DEF ResponseRaises

LEMMA RespondGoverns ==
  ASSUME Inv, Respond
  PROVE  ResponseIsGoverned'
<1>1. CacheInv /\ last.tool \in Tools
  <2>1. last # NoDecision
    BY DEF Respond, NoDecision, Verdict
  <2> QED
    BY <2>1 DEF Inv, LastInv
<1> DEFINE ps      == compile(pack, last.tool)
           A       == {pack[i] : i \in ps}
           redacts == {p \in A : p.effect = "pii_redaction"}
           names   == UNION {p.patterns : p \in redacts}
           secret  == PII_PATTERNS \cap names
           customs == {p \in A : p.effect = "custom" /\ p.stage = "response"}
<1>2. PICK reply \in Replies, redis_up \in BOOLEAN :
        LET out == IF has_response_side_policies(ps) THEN Governed(ps, reply, redis_up)
                   ELSE Completed(reply, static_tags(ps))
        IN  resp' = [status |-> out.status, sent |-> {reply}, body |-> out.body,
                     tags |-> out.tags, redis_up |-> redis_up]
  <2>1. cache[last.tool] = ps
    BY <1>1 DEF CacheInv
  <2> QED
    BY <2>1 DEF Respond
<1> DEFINE out == IF has_response_side_policies(ps) THEN Governed(ps, reply, redis_up)
                  ELSE Completed(reply, static_tags(ps))
           broken == \E p \in customs :
                       \/ ~ p.known
                       \/ /\ p.fn = "aml_structuring_alert" /\ ~ redis_up
                          /\ \E l \in reply.leaves :
                               l.place = "structuredContent" /\ "flagged" \in l.has
           result == evaluate_response(ps, reply.leaves, redis_up)
           governs == customs # {} \/ redacts # {}
<1>3. pack' = pack /\ last' = last
  BY DEF Respond
<1>4. Applicable' = A
  BY <1>3 DEF Applicable, Policies, compile
<1>5. /\ resp'.status = out.status /\ resp'.sent = {reply} /\ resp'.body = out.body
      /\ resp'.tags = out.tags /\ resp'.redis_up = redis_up
  BY <1>2
<1>6. (CHOOSE r \in resp'.sent : TRUE) = reply
  BY <1>5
<1>7. static_tags(ps) = UNION {p.tags : p \in A}
  BY DEF static_tags
<1>8. has_response_side_policies(ps) <=> governs
  BY DEF has_response_side_policies, HasEffect, IsResponseCustom
<1>9. /\ result.raises <=> broken
      /\ result.payload = redact_json_value(reply.leaves, names)
      /\ \A p \in customs : p.known => response_policy(p.fn, reply.leaves) \subseteq result.tags
  <2>1. customs = {pack[i] : i \in {j \in ps : IsResponseCustom(pack[j])}}
    BY DEF IsResponseCustom
  <2>2. names = UNION {pack[i].patterns : i \in {j \in ps : pack[j].effect = "pii_redaction"}}
    OBVIOUS
  <2> HIDE DEF customs, names, ps
  <2>3. result = [raises  |-> \E p \in customs : ResponseRaises(p, reply.leaves, redis_up),
                  payload |-> redact_json_value(reply.leaves, names),
                  tags    |-> UNION {response_policy(p.fn, reply.leaves) :
                                       p \in {q \in customs : q.known}}]
    BY <2>1, <2>2 DEF evaluate_response
  <2> HIDE DEF result
  <2>4. result.raises <=> \E p \in customs : ResponseRaises(p, reply.leaves, redis_up)
    BY <2>3
  <2>5. result.payload = redact_json_value(reply.leaves, names)
    BY <2>3
  <2>6. result.tags = UNION {response_policy(p.fn, reply.leaves) : p \in {q \in customs : q.known}}
    BY <2>3
  <2>7. result.raises <=> broken
    BY <2>4, Raises
  <2> QED
    BY <2>5, <2>6, <2>7
<1>10. reply = [kind |-> reply.kind, leaves |-> reply.leaves]
       /\ reply.kind \in {"result", "rpc_error", "garbled"}
  BY ReplyAssumption
<1> DEFINE sealed == [reply EXCEPT !.leaves = result.payload]
<1>11. sealed.kind = reply.kind /\ sealed.leaves = result.payload
  BY <1>10
<1> HIDE DEF sealed, result, broken, customs, redacts, A, ps
<1>12. \/ /\ ~ governs \/ reply.kind = "rpc_error"
          /\ out.status = "COMPLETED" /\ out.body = {reply} /\ out.tags = static_tags(ps)
       \/ /\ governs /\ (reply.kind = "garbled" \/ (reply.kind = "result" /\ broken))
          /\ out.status = "UPSTREAM_ERROR" /\ out.body = {} /\ out.tags = static_tags(ps)
       \/ /\ governs /\ reply.kind = "result" /\ ~ broken
          /\ out.status = "COMPLETED" /\ out.body = {sealed}
          /\ out.tags = static_tags(ps) \cup result.tags
  <2>1. CASE ~ governs
    BY <1>8, <2>1 DEF Completed
  <2>2. CASE governs /\ reply.kind = "rpc_error"
    BY <1>8, <2>2 DEF Governed, Completed
  <2>3. CASE governs /\ reply.kind = "garbled"
    BY <1>8, <2>3 DEF Governed, ResponsePolicyError
  <2>4. CASE governs /\ reply.kind = "result" /\ broken
    BY <1>8, <1>9, <2>4 DEF Governed, ResponsePolicyError, result
  <2>5. CASE governs /\ reply.kind = "result" /\ ~ broken
    BY <1>8, <1>9, <2>5 DEF Governed, Completed, result, sealed
  <2> QED
    BY <1>10, <2>1, <2>2, <2>3, <2>4, <2>5
<1> HIDE DEF out
<1>13. /\ UNION {p.tags : p \in A} \subseteq resp'.tags
       /\ resp'.body = {} <=>
            governs /\ (reply.kind = "garbled" \/ (reply.kind = "result" /\ broken))
       /\ resp'.body = {} <=> resp'.status = "UPSTREAM_ERROR"
  BY <1>5, <1>7, <1>12
<1>14. ASSUME NEW b \in resp'.body, b.kind = "result"
       PROVE  /\ \A l \in b.leaves : l.text => l.has \cap secret = {}
              /\ \A l \in reply.leaves : \E k \in b.leaves :
                   /\ k.place = l.place /\ k.text = l.text
                   /\ k.has \subseteq l.has /\ l.has \ k.has \subseteq secret
              /\ \A p \in customs : response_policy(p.fn, reply.leaves) \subseteq resp'.tags
  <2>1. CASE ~ governs
    <3>1. b = reply /\ customs = {} /\ redacts = {}
      BY <1>5, <1>12, <1>14, <2>1
    <3>2. secret = {}
      BY <3>1
    <3> QED
      BY <3>1, <3>2
  <2>2. CASE governs
    <3>1. b = sealed /\ ~ broken /\ resp'.tags = static_tags(ps) \cup result.tags
      BY <1>5, <1>12, <1>14, <2>2
    <3>2. b.leaves = redact_json_value(reply.leaves, names)
      BY <1>9, <1>11, <3>1
    <3>3. \A p \in customs : p.known
      BY <3>1 DEF broken
    <3>4. \A p \in customs : response_policy(p.fn, reply.leaves) \subseteq resp'.tags
      BY <1>9, <3>1, <3>3
    <3> HIDE DEF names
    <3>5. /\ \A l \in b.leaves : l.text => l.has \cap secret = {}
          /\ \A l \in reply.leaves : \E k \in b.leaves :
               /\ k.place = l.place /\ k.text = l.text
               /\ k.has \subseteq l.has /\ l.has \ k.has \subseteq secret
      <4>1. /\ \A l \in redact_json_value(reply.leaves, names) : l.text => l.has \cap secret = {}
            /\ \A l \in reply.leaves : \E k \in redact_json_value(reply.leaves, names) :
                 /\ k.place = l.place /\ k.text = l.text
                 /\ k.has \subseteq l.has /\ l.has \ k.has \subseteq secret
        BY Redacted, Zenon
      <4> HIDE DEF secret
      <4> QED
        BY <3>2, <4>1
    <3> QED
      BY <3>4, <3>5
  <2> QED
    BY <2>1, <2>2
<1> QED
  BY <1>4, <1>5, <1>6, <1>13, <1>14 DEF ResponseIsGoverned, broken, customs, redacts

-----------------------------------------------------------------------------
(***************************************************************************)
(* Every step keeps Inv                                                    *)
(***************************************************************************)

LEMMA InvInit == Init => Inv
<1> SUFFICES ASSUME Init PROVE Inv
  OBVIOUS
<1>1. TypeOK
  <2>1. windows \in [Keys(pack) -> [count : 0..calls, start : 0..now]]
    BY DEF Init
  <2>2. DOMAIN admitted = Keys(pack) /\ \A k \in Keys(pack) : ToSet(admitted[k]) = {}
    BY DEF Init, ToSet
  <2>3. resp.status = "none"
    BY DEF Init, NoResponse
  <2> QED
    BY <2>1, <2>2, <2>3, PackAssumption DEF Init, TypeOK
<1>2. RateInv
  <2> SUFFICES ASSUME NEW i \in DOMAIN pack, NEW s \in Subjects, pack[i].effect = "rate_limit"
               PROVE  KeyInv(admitted[<<pack[i].name, s>>], windows[<<pack[i].name, s>>],
                             pack[i], now)
    BY DEF RateInv
  <2> DEFINE k == <<pack[i].name, s>>
  <2>0. admitted[k] = <<>> /\ windows[k] = [count |-> 0, start |-> 0] /\ now = 0
    BY KeyOf DEF Init
  <2>1. IsLimit(pack[i])
    BY PackFacts DEF Init
  <2>2. <<>> \in Seq(Nat) /\ DOMAIN <<>> = {}
    OBVIOUS
  <2>3. ASSUME NEW t \in Nat
        PROVE  Within(<<>>, t, t + pack[i].window) < 2 * pack[i].limit
    <3>1. {x \in DOMAIN <<>> : t <= <<>>[x] /\ <<>>[x] < t + pack[i].window} = {}
      BY <2>2
    <3>2. Within(<<>>, t, t + pack[i].window) = 0
      BY <3>1, FS_EmptySet DEF Within
    <3> QED
      BY <2>1, <3>2, LimitNat
  <2>4. KeyInv(<<>>, [count |-> 0, start |-> 0], pack[i], 0)
    BY <2>2, <2>3 DEF KeyInv
  <2> HIDE DEF k
  <2> QED
    BY <2>0, <2>4 DEF k
<1>3. CacheInv /\ LastInv /\ StrictestWins /\ ResponseIsGoverned
  BY DEF Init, CacheInv, LastInv, StrictestWins, ResponseIsGoverned
<1>4. RateDenialIsEarned
  <2>1. last.limiter = {}
    BY DEF Init, NoDecision
  <2> QED
    BY <2>1 DEF RateDenialIsEarned
<1> QED
  BY <1>1, <1>2, <1>3, <1>4 DEF Inv

LEMMA InvEvaluate ==
  ASSUME Inv, NEW subject \in Subjects, NEW tool \in Tools, Evaluate(subject, tool)
  PROVE  Inv'
<1>1. TypeOK' /\ CacheInv' /\ RateInv' /\ LastInv'
  BY EvaluateRate
<1>2. StrictestWins'
  BY StrictestStep DEF Inv, TypeOK
<1>3. RateDenialIsEarned'
  BY EvaluateDenies
<1>4. ResponseIsGoverned'
  BY DEF Evaluate, ResponseIsGoverned
<1> QED
  BY <1>1, <1>2, <1>3, <1>4 DEF Inv

\* A decision and what it rests on are not touched by the answer or by time.
LEMMA DecisionKept ==
  ASSUME StrictestWins, RateDenialIsEarned, UNCHANGED <<pack, admitted, last>>
  PROVE  StrictestWins' /\ RateDenialIsEarned'
  BY DEF StrictestWins, RateDenialIsEarned, Applicable, Policies, Asks, Passed

LEMMA InvRespond ==
  ASSUME Inv, Respond
  PROVE  Inv'
<1>1. UNCHANGED <<pack, cache, now, windows, admitted, last, calls>>
  BY DEF Respond
<1>2. resp'.status \in {"COMPLETED", "UPSTREAM_ERROR"}
  BY DEF Respond, Governed, Completed, ResponsePolicyError
<1>3. TypeOK'
  BY <1>1, <1>2 DEF Inv, TypeOK
<1>4. CacheInv' /\ LastInv' /\ RateInv'
  BY <1>1 DEF Inv, CacheInv, LastInv, RateInv
<1>5. StrictestWins' /\ RateDenialIsEarned'
  BY <1>1, DecisionKept DEF Inv
<1>6. ResponseIsGoverned'
  BY RespondGoverns
<1> QED
  BY <1>3, <1>4, <1>5, <1>6 DEF Inv

LEMMA ResponseKept ==
  ASSUME ResponseIsGoverned, UNCHANGED <<pack, last, resp>>
  PROVE  ResponseIsGoverned'
  BY DEF ResponseIsGoverned, Applicable, Policies

LEMMA InvTick ==
  ASSUME Inv, Tick
  PROVE  Inv'
<1>1. UNCHANGED <<pack, cache, windows, admitted, last, resp, calls>> /\ now' = now + 1
  BY DEF Tick
<1>2. TypeOK /\ now \in Nat /\ pack \in Packs
  BY TypeFacts DEF Inv
<1>3. TypeOK'
  <2>1. now + 1 \in 0..MaxTime
    BY <1>2, PackAssumption DEF Tick
  <2>2. windows \in [Keys(pack) -> [count : 0..calls, start : 0..(now + 1)]]
    <3>1. 0..now \subseteq 0..(now + 1)
      BY <1>2
    <3> QED
      BY <1>2, <3>1 DEF TypeOK
  <2>3. \A k \in Keys(pack) : ToSet(admitted[k]) \subseteq 0..(now + 1)
    BY <1>2 DEF TypeOK
  <2> QED
    BY <1>1, <1>2, <2>1, <2>2, <2>3 DEF TypeOK
<1>4. RateInv'
  <2> SUFFICES ASSUME NEW i \in DOMAIN pack, NEW s \in Subjects, pack[i].effect = "rate_limit"
               PROVE  KeyInv(admitted[<<pack[i].name, s>>], windows[<<pack[i].name, s>>],
                             pack[i], now + 1)
    BY <1>1 DEF RateInv
  <2>1. IsLimit(pack[i])
    BY <1>2, PackFacts
  <2>2. KeyInv(admitted[<<pack[i].name, s>>], windows[<<pack[i].name, s>>], pack[i], now)
    BY DEF Inv, RateInv
  <2> QED
    BY <1>2, <2>1, <2>2, KeyTick
<1>5. CacheInv' /\ LastInv'
  BY <1>1 DEF Inv, CacheInv, LastInv
<1>6. StrictestWins' /\ RateDenialIsEarned'
  BY <1>1, DecisionKept DEF Inv
<1>7. ResponseIsGoverned'
  BY <1>1, ResponseKept DEF Inv
<1> QED
  BY <1>3, <1>4, <1>5, <1>6, <1>7 DEF Inv

LEMMA InvStutter ==
  ASSUME Inv, UNCHANGED vars
  PROVE  Inv'
<1>1. UNCHANGED <<pack, cache, now, windows, admitted, last, resp, calls>>
  BY DEF vars
<1>2. TypeOK' /\ CacheInv' /\ LastInv' /\ RateInv'
  BY <1>1 DEF Inv, TypeOK, CacheInv, LastInv, RateInv
<1>3. StrictestWins' /\ RateDenialIsEarned' /\ ResponseIsGoverned'
  BY <1>1, DecisionKept, ResponseKept DEF Inv
<1> QED
  BY <1>2, <1>3 DEF Inv

LEMMA InvStep == Inv /\ [Next]_vars => Inv'
<1> SUFFICES ASSUME Inv, [Next]_vars PROVE Inv'
  OBVIOUS
<1>1. ASSUME NEW s \in Subjects, NEW t \in Tools, Evaluate(s, t) PROVE Inv'
  BY <1>1, InvEvaluate
<1>2. CASE Respond
  BY <1>2, InvRespond
<1>3. CASE Tick
  BY <1>3, InvTick
<1>4. CASE Exhausted \/ UNCHANGED vars
  BY <1>4, InvStutter DEF Exhausted
<1> QED
  BY <1>1, <1>2, <1>3, <1>4 DEF Next

\* Inv holds throughout, whatever the pack, the calls and the answers.
LEMMA Invariance == Spec => []Inv
  BY InvInit, InvStep, PTL DEF Spec

-----------------------------------------------------------------------------
\* A stretch of time as long as the window holds fewer than twice the limit.
LEMMA BurstFromInv == Inv => BurstBound
<1> SUFFICES ASSUME Inv, NEW p \in Policies, NEW s \in Subjects, NEW t \in 0..MaxTime,
                    p.effect = "rate_limit"
             PROVE  Passed(<<p.name, s>>, t, t + p.window - 1) < 2 * p.limit
  BY DEF Inv, BurstBound
<1>1. PICK i \in DOMAIN pack : p = pack[i]
  BY DEF Policies
<1>2. now \in Nat /\ pack \in Packs /\ t \in Nat
  BY TypeFacts, PackAssumption DEF Inv
<1>3. IsLimit(p)
  BY <1>1, <1>2, PackFacts
<1> DEFINE a == admitted[<<p.name, s>>]
<1>4. KeyInv(a, windows[<<p.name, s>>], p, now)
  BY <1>1 DEF Inv, RateInv
<1>5. \A x \in DOMAIN a : a[x] \in Nat
  BY <1>2, <1>3, <1>4, KeyFacts
<1>6. Within(a, t, t + p.window) < 2 * p.limit
  BY <1>2, <1>4 DEF KeyInv
<1> HIDE DEF a
<1>7. {x \in DOMAIN a : a[x] \in t..(t + p.window - 1)}
        = {x \in DOMAIN a : t <= a[x] /\ a[x] < t + p.window}
  BY <1>2, <1>3, <1>5, LimitNat
<1> QED
  BY <1>6, <1>7 DEF Passed, Within, a

(***************************************************************************)
(* Whatever the order of the pack, the strictest demand among the          *)
(* applicable policies decides (PolicySet.evaluate).                       *)
(***************************************************************************)
THEOREM StrictestAlwaysWins == Spec => []StrictestWins
<1>1. Inv => StrictestWins
  BY DEF Inv
<1> QED
  BY Invariance, <1>1, PTL

(***************************************************************************)
(* A fixed-window limiter lets fewer than twice the limit through in any   *)
(* stretch as long as its window (RateLimiter.check_and_increment).        *)
(***************************************************************************)
THEOREM BurstsAreBounded == Spec => []BurstBound
  BY Invariance, BurstFromInv, PTL

(***************************************************************************)
(* Only a subject that has itself used the limit up within the last window *)
(* is turned away by it.                                                   *)
(***************************************************************************)
THEOREM DenialsAreEarned == Spec => []RateDenialIsEarned
<1>1. Inv => RateDenialIsEarned
  BY DEF Inv
<1> QED
  BY Invariance, <1>1, PTL

(***************************************************************************)
(* No answer to a governed call reaches the agent ungoverned               *)
(* (evaluate_response, _forward_buffered).                                 *)
(***************************************************************************)
THEOREM ResponsesAreGoverned == Spec => []ResponseIsGoverned
<1>1. Inv => ResponseIsGoverned
  BY DEF Inv
<1> QED
  BY Invariance, <1>1, PTL
=============================================================================
