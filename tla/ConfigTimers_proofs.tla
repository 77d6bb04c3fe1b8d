------------------------- MODULE ConfigTimers_proofs -------------------------
(***************************************************************************)
(* The timers of shell.lua, for any number of evaluations, timers and      *)
(* instants: the lists of timers and what the steps do to them, and where  *)
(* every id that was given is.                                             *)
(***************************************************************************)
EXTENDS ConfigTimers, Induction_proofs, TLAPS

Slots == [id : Nat, due : Nat]

(* Sorted by deadline, and no id twice but for the emptied slots.          *)
IsList(s) ==
  /\ s \in Seq(Slots)
  /\ \A i, j \in 1..Len(s) : i < j => /\ s[i].due <= s[j].due
                                      /\ s[i].id = 0 \/ s[i].id # s[j].id

(* Every deadline of t is one of s.                                        *)
DuesOf(t, s) == \A j \in 1..Len(t) : \E i \in 1..Len(s) : t[j].due = s[i].due

Before(s, t) == \A i \in 1..Len(s), j \in 1..Len(t) : s[i].due <= t[j].due

LEMMA TimersAre ==
  ASSUME NEW s \in Seq(Slots)
  PROVE  \A n : n \in Timers(s) <=> n # 0 /\ \E i \in 1..Len(s) : s[i].id = n
<1>1. DOMAIN s = 1..Len(s)
  OBVIOUS
<1> QED
  BY <1>1 DEF Timers, ToSet

LEMMA BeforeOf ==
  ASSUME NEW s, NEW t, NEW u, Before(s, t)
  PROVE  /\ DuesOf(u, s) => Before(u, t)
         /\ DuesOf(u, t) => Before(s, u)
BY DEF Before, DuesOf

(* What is picked from a list in its order is a list.                      *)
LEMMA PickedFrom ==
  ASSUME NEW s, IsList(s), NEW t \in Seq(Slots), NEW p \in [1..Len(t) -> 1..Len(s)],
         \A i, j \in 1..Len(t) : i < j => p[i] < p[j],
         \A j \in 1..Len(t) : t[j].due = s[p[j]].due /\ t[j].id \in {0, s[p[j]].id}
  PROVE  IsList(t) /\ DuesOf(t, s) /\ Timers(t) \subseteq Timers(s)
<1>1. s \in Seq(Slots) /\ Len(s) \in Nat /\ Len(t) \in Nat
  BY DEF IsList
<1>2. ASSUME NEW i \in 1..Len(t), NEW j \in 1..Len(t), i < j
      PROVE  t[i].due <= t[j].due /\ (t[i].id = 0 \/ t[i].id # t[j].id)
  <2>1. p[i] \in 1..Len(s) /\ p[j] \in 1..Len(s) /\ p[i] < p[j]
    BY <1>2
  <2>2. s[p[i]].due <= s[p[j]].due /\ (s[p[i]].id = 0 \/ s[p[i]].id # s[p[j]].id)
    BY <2>1 DEF IsList
  <2>3. t[i].id \in {0, s[p[i]].id} /\ t[j].id \in {0, s[p[j]].id}
    OBVIOUS
  <2> QED
    BY <2>2, <2>3
<1>3. IsList(t)
  BY <1>2 DEF IsList
<1>4. DuesOf(t, s)
  BY DEF DuesOf
<1>5. ASSUME NEW n \in Timers(t)
      PROVE  n \in Timers(s)
  <2>1. n # 0 /\ \E j \in 1..Len(t) : t[j].id = n
    BY TimersAre
  <2>2. PICK j \in 1..Len(t) : t[j].id = n
    BY <2>1
  <2>3. s[p[j]].id = n /\ p[j] \in 1..Len(s)
    BY <2>1, <2>2
  <2> QED
    BY <1>1, <2>1, <2>3, TimersAre
<1> QED
  BY <1>3, <1>4, <1>5

(* The two halves of a list that is cut.                                   *)
LEMMA Halves ==
  ASSUME NEW s, IsList(s), NEW k \in 0..Len(s)
  PROVE  LET a == SubSeq(s, 1, k)
             b == SubSeq(s, k + 1, Len(s)) IN
         /\ IsList(a) /\ DuesOf(a, s) /\ Len(a) = k
         /\ IsList(b) /\ DuesOf(b, s) /\ Len(b) = Len(s) - k
         /\ Before(a, b)
         /\ Timers(s) = Timers(a) \union Timers(b) /\ Timers(a) \intersect Timers(b) = {}
         /\ \A i \in 1..k : a[i] = s[i]
         /\ \A i \in 1..(Len(s) - k) : b[i] = s[i + k]
<1> DEFINE a == SubSeq(s, 1, k)
           b == SubSeq(s, k + 1, Len(s))
           n == Len(s)
<1>1. /\ s \in Seq(Slots) /\ n \in Nat /\ k \in Nat /\ k <= n
      /\ \A i \in 1..n : s[i] \in Slots
  BY DEF IsList
<1>2. /\ a \in Seq(Slots) /\ Len(a) = k /\ \A i \in 1..k : a[i] = s[i]
      /\ b \in Seq(Slots) /\ Len(b) = n - k /\ \A i \in 1..(n - k) : b[i] = s[i + k]
  BY <1>1
<1> HIDE DEF a, b
<1>3. IsList(a) /\ DuesOf(a, s) /\ Timers(a) \subseteq Timers(s)
  <2> DEFINE p == [i \in 1..k |-> i]
  <2>1. p \in [1..Len(a) -> 1..n] /\ \A i \in 1..k : p[i] = i
    BY <1>1, <1>2
  <2> HIDE DEF p
  <2>2. \A i, j \in 1..Len(a) : i < j => p[i] < p[j]
    BY <1>2, <2>1
  <2>3. \A j \in 1..Len(a) : a[j].due = s[p[j]].due /\ a[j].id \in {0, s[p[j]].id}
    BY <1>2, <2>1
  <2> QED
    BY <1>2, <2>1, <2>2, <2>3, PickedFrom
<1>4. IsList(b) /\ DuesOf(b, s) /\ Timers(b) \subseteq Timers(s)
  <2> DEFINE p == [i \in 1..(n - k) |-> i + k]
  <2>1. p \in [1..Len(b) -> 1..n] /\ \A i \in 1..(n - k) : p[i] = i + k
    BY <1>1, <1>2
  <2> HIDE DEF p
  <2>2. \A i, j \in 1..Len(b) : i < j => p[i] < p[j]
    BY <1>1, <1>2, <2>1
  <2>3. \A j \in 1..Len(b) : b[j].due = s[p[j]].due /\ b[j].id \in {0, s[p[j]].id}
    BY <1>2, <2>1
  <2> QED
    BY <1>2, <2>1, <2>2, <2>3, PickedFrom
<1>5. ASSUME NEW i \in 1..k, NEW j \in 1..(n - k)
      PROVE  a[i].due <= b[j].due /\ (a[i].id = 0 \/ a[i].id # b[j].id)
  <2>1. i \in 1..n /\ j + k \in 1..n /\ i < j + k
    BY <1>1
  <2>2. s[i].due <= s[j + k].due /\ (s[i].id = 0 \/ s[i].id # s[j + k].id)
    BY <2>1 DEF IsList
  <2> QED
    BY <1>2, <2>2
<1>6. Before(a, b)
  BY <1>2, <1>5 DEF Before
<1>7. Timers(a) \intersect Timers(b) = {}
  <2> SUFFICES ASSUME NEW m \in Timers(a), m \in Timers(b)
               PROVE  FALSE
    OBVIOUS
  <2>1. m # 0 /\ (\E i \in 1..k : a[i].id = m) /\ \E j \in 1..(n - k) : b[j].id = m
    BY <1>2, TimersAre
  <2> QED
    BY <1>5, <2>1
<1>8. ASSUME NEW m \in Timers(s)
      PROVE  m \in Timers(a) \union Timers(b)
  <2>1. m # 0 /\ \E i \in 1..n : s[i].id = m
    BY <1>1, TimersAre
  <2>2. PICK i \in 1..n : s[i].id = m
    BY <2>1
  <2>3. CASE i <= k
    <3>1. i \in 1..k /\ a[i].id = m
      BY <1>1, <1>2, <2>2, <2>3
    <3> QED
      BY <1>2, <2>1, <3>1, TimersAre
  <2>4. CASE i > k
    <3>1. i - k \in 1..(n - k) /\ (i - k) + k = i
      BY <1>1, <2>4
    <3>2. b[i - k].id = m
      BY <1>2, <2>2, <3>1
    <3> QED
      BY <1>2, <2>1, <3>1, <3>2, TimersAre
  <2> QED
    BY <1>1, <2>3, <2>4
<1>9. Timers(s) = Timers(a) \union Timers(b)
  BY <1>3, <1>4, <1>8
<1> QED
  BY <1>2, <1>3, <1>4, <1>6, <1>7, <1>9 DEF a, b

(* Two lists, the one before the other.                                    *)
LEMMA Joined ==
  ASSUME NEW a, IsList(a), NEW b, IsList(b), Before(a, b), Timers(a) \intersect Timers(b) = {}
  PROVE  /\ IsList(a \o b)
         /\ Timers(a \o b) = Timers(a) \union Timers(b)
         /\ \A u : Before(u, a) /\ Before(u, b) => Before(u, a \o b)
         /\ \A u : Before(a, u) /\ Before(b, u) => Before(a \o b, u)
<1> DEFINE t == a \o b
           m == Len(a)
           n == Len(b)
<1>1. a \in Seq(Slots) /\ b \in Seq(Slots) /\ m \in Nat /\ n \in Nat
  BY DEF IsList
<1>2. /\ t \in Seq(Slots) /\ Len(t) = m + n
      /\ \A i \in 1..m : t[i] = a[i]
      /\ \A i \in 1..n : t[m + i] = b[i]
  BY <1>1
<1>3. /\ \A i \in 1..m : a[i] \in Slots
      /\ \A i \in 1..n : b[i] \in Slots
  BY <1>1
<1> HIDE DEF t, m, n
<1>4. ASSUME NEW i \in 1..(m + n)
      PROVE  i \in 1..m \/ (i - m \in 1..n /\ i = m + (i - m))
  BY <1>1
<1>5. ASSUME NEW i \in 1..m, NEW j \in 1..n
      PROVE  a[i].due <= b[j].due /\ (a[i].id = 0 \/ a[i].id # b[j].id)
  <2>1. a[i].due <= b[j].due
    BY DEF Before, m, n
  <2>2. a[i].id # 0 => a[i].id \in Timers(a)
    BY <1>1, TimersAre DEF m
  <2>3. b[j].id # 0 => b[j].id \in Timers(b)
    BY <1>1, TimersAre DEF n
  <2> QED
    BY <2>1, <2>2, <2>3
<1>6. ASSUME NEW i \in 1..(m + n), NEW j \in 1..(m + n), i < j
      PROVE  t[i].due <= t[j].due /\ (t[i].id = 0 \/ t[i].id # t[j].id)
  <2>1. CASE i \in 1..m /\ j \in 1..m
    BY <1>2, <1>6, <2>1 DEF IsList, m
  <2>2. CASE i \in 1..m /\ j \notin 1..m
    <3>1. j - m \in 1..n /\ t[j] = b[j - m] /\ t[i] = a[i]
      BY <1>2, <1>4, <2>2
    <3> QED
      BY <1>5, <2>2, <3>1
  <2>3. CASE i \notin 1..m
    <3>1. i - m \in 1..n /\ t[i] = b[i - m] /\ j \notin 1..m
      BY <1>1, <1>2, <1>4, <1>6, <2>3
    <3>2. j - m \in 1..n /\ t[j] = b[j - m] /\ i - m < j - m
      BY <1>1, <1>2, <1>4, <1>6, <3>1
    <3> QED
      BY <3>1, <3>2 DEF IsList, n
  <2> QED
    BY <2>1, <2>2, <2>3
<1>7. IsList(t)
  BY <1>2, <1>6 DEF IsList
<1>8. Timers(t) = Timers(a) \union Timers(b)
  <2>1. ASSUME NEW x \in Timers(t)
        PROVE  x \in Timers(a) \union Timers(b)
    <3>1. x # 0 /\ \E i \in 1..(m + n) : t[i].id = x
      BY <1>2, TimersAre
    <3>2. PICK i \in 1..(m + n) : t[i].id = x
      BY <3>1
    <3>3. (i \in 1..m /\ a[i].id = x) \/ (i - m \in 1..n /\ b[i - m].id = x)
      BY <1>2, <1>4, <3>2
    <3> QED
      BY <1>1, <3>1, <3>3, TimersAre DEF m, n
  <2>2. ASSUME NEW x \in Timers(a) \union Timers(b)
        PROVE  x \in Timers(t)
    <3>1. x # 0 /\ ((\E i \in 1..m : a[i].id = x) \/ \E i \in 1..n : b[i].id = x)
      BY <1>1, TimersAre DEF m, n
    <3>2. \A i \in 1..m : i \in 1..(m + n)
      BY <1>1
    <3>3. \A i \in 1..n : m + i \in 1..(m + n)
      BY <1>1
    <3>4. \E i \in 1..(m + n) : t[i].id = x
      BY <1>2, <3>1, <3>2, <3>3
    <3> QED
      BY <1>2, <3>1, <3>4, TimersAre
  <2> QED
    BY <2>1, <2>2
<1>9. ASSUME NEW u, Before(u, a), Before(u, b)
      PROVE  Before(u, t)
  <2> SUFFICES ASSUME NEW i \in 1..Len(u), NEW j \in 1..(m + n)
               PROVE  u[i].due <= t[j].due
    BY <1>2 DEF Before
  <2>1. (j \in 1..m /\ t[j] = a[j]) \/ (j - m \in 1..n /\ t[j] = b[j - m])
    BY <1>2, <1>4
  <2> QED
    BY <1>9, <2>1 DEF Before, m, n
<1>10. ASSUME NEW u, Before(a, u), Before(b, u)
       PROVE  Before(t, u)
  <2> SUFFICES ASSUME NEW i \in 1..(m + n), NEW j \in 1..Len(u)
               PROVE  t[i].due <= u[j].due
    BY <1>2 DEF Before
  <2>1. (i \in 1..m /\ t[i] = a[i]) \/ (i - m \in 1..n /\ t[i] = b[i - m])
    BY <1>2, <1>4
  <2> QED
    BY <1>10, <2>1 DEF Before, m, n
<1> QED
  BY <1>7, <1>8, <1>9, <1>10 DEF t

LEMMA Single ==
  ASSUME NEW e \in Slots
  PROVE  /\ IsList(<<e>>) /\ Len(<<e>>) = 1 /\ <<e>>[1] = e
         /\ Timers(<<e>>) = {e.id} \ {0}
<1>1. <<e>> \in Seq(Slots) /\ Len(<<e>>) = 1 /\ <<e>>[1] = e
  OBVIOUS
<1>2. \A i \in 1..1 : i = 1
  OBVIOUS
<1>3. IsList(<<e>>)
  BY <1>1, <1>2 DEF IsList
<1>4. \A n : n \in Timers(<<e>>) <=> n # 0 /\ \E i \in 1..1 : <<e>>[i].id = n
  BY <1>1, TimersAre
<1>5. 1 \in 1..1
  OBVIOUS
<1>6. Timers(<<e>>) = {e.id} \ {0}
  BY <1>1, <1>2, <1>4, <1>5
<1> QED
  BY <1>1, <1>3, <1>6

(* partition_point, on a list: how many are due by an instant.             *)
LEMMA DueByIs ==
  ASSUME NEW s, IsList(s), NEW instant \in Nat
  PROVE  /\ DueBy(s, instant) \in 0..Len(s)
         /\ \A i \in 1..DueBy(s, instant) : s[i].due <= instant
         /\ \A i \in 1..Len(s) : i > DueBy(s, instant) => s[i].due > instant
<1> DEFINE P(n) == /\ \A i \in 1..n : s[i].due <= instant
                   /\ n < Len(s) => s[n + 1].due > instant
           S == {n \in 0..Len(s) : n < Len(s) => s[n + 1].due > instant}
           k == CHOOSE n \in 0..Len(s) : P(n)
<1>1. Len(s) \in Nat /\ \A i \in 1..Len(s) : s[i].due \in Nat
  <2>1. Len(s) \in Nat /\ \A i \in 1..Len(s) : s[i] \in Slots
    BY DEF IsList
  <2> QED
    BY <2>1 DEF Slots
<1>2. S \in SUBSET Nat /\ Len(s) \in S
  BY <1>1
<1>3. PICK n \in S : \A m \in S : n <= m
  BY <1>2, LeastNumber
<1>4. n \in 0..Len(s) /\ P(n)
  <2> SUFFICES ASSUME NEW i \in 1..n, s[i].due > instant
               PROVE  FALSE
    BY <1>1, <1>3
  <2>1. i - 1 \in 0..Len(s) /\ (i - 1) + 1 = i /\ ~ (n <= i - 1)
    BY <1>1, <1>3
  <2>2. s[(i - 1) + 1].due > instant
    BY <2>1
  <2>3. i - 1 \in S
    BY <2>1, <2>2
  <2> QED
    BY <1>3, <2>1, <2>3
<1>5. k \in 0..Len(s) /\ P(k)
  BY <1>4
<1>6. DueBy(s, instant) = k
  BY DEF DueBy
<1> HIDE DEF k
<1>7. ASSUME NEW i \in 1..Len(s), i > k
      PROVE  s[i].due > instant
  <2>1. k + 1 \in 1..Len(s) /\ k < Len(s) /\ (k + 1 = i \/ k + 1 < i)
    BY <1>1, <1>5, <1>7
  <2>2. s[k + 1].due > instant /\ s[k + 1].due <= s[i].due
    BY <1>1, <1>5, <2>1 DEF IsList
  <2> QED
    BY <1>1, <2>1, <2>2
<1> QED
  BY <1>5, <1>6, <1>7

(* The empty list, and one that is not.                                    *)
LEMMA Empty ==
  /\ IsList(<<>>) /\ Timers(<<>>) = {}
  /\ \A u : Before(u, <<>>) /\ Before(<<>>, u) /\ DuesOf(<<>>, u)
<1>1. <<>> \in Seq(Slots) /\ Len(<<>>) = 0 /\ 1..0 = {}
  OBVIOUS
<1>2. Timers(<<>>) = {}
  BY <1>1, TimersAre
<1> QED
  BY <1>1, <1>2 DEF IsList, Before, DuesOf

LEMMA HeadAndTail ==
  ASSUME NEW s, IsList(s), s # <<>>
  PROVE  /\ Head(s) \in Slots /\ DuesOf(<<Head(s)>>, s)
         /\ IsList(Tail(s)) /\ DuesOf(Tail(s), s)
         /\ Before(<<Head(s)>>, Tail(s))
         /\ Timers(s) = Timers(Tail(s)) \union ({Head(s).id} \ {0})
         /\ Head(s).id \notin Timers(Tail(s))
<1> DEFINE h == <<Head(s)>>
           n == Len(s)
<1>1. s \in Seq(Slots) /\ n \in Nat /\ n >= 1 /\ Head(s) = s[1] /\ Head(s) \in Slots
  BY DEF IsList
<1>2. /\ SubSeq(s, 2, n) = Tail(s) /\ SubSeq(s, 1 + 1, n) = Tail(s)
  BY <1>1
<1>3. SubSeq(s, 1, 1) = h
  <2> DEFINE a == SubSeq(s, 1, 1)
  <2>1. a \in Seq(Slots) /\ Len(a) = 1 /\ a[1] = s[1]
    BY <1>1
  <2>2. h \in Seq(Slots) /\ Len(h) = 1 /\ h[1] = s[1]
    BY <1>1
  <2>3. \A i \in 1..1 : i = 1
    OBVIOUS
  <2> HIDE DEF a, h
  <2>4. DOMAIN a = 1..1 /\ DOMAIN h = 1..1 /\ a = [i \in 1..1 |-> a[i]] /\ h = [i \in 1..1 |-> h[i]]
    BY <2>1, <2>2
  <2> QED
    BY <2>1, <2>2, <2>3, <2>4
<1>4. 1 \in 0..n
  BY <1>1
<1>5. /\ DuesOf(h, s) /\ IsList(Tail(s)) /\ DuesOf(Tail(s), s) /\ Before(h, Tail(s))
      /\ Timers(s) = Timers(h) \union Timers(Tail(s)) /\ Timers(h) \intersect Timers(Tail(s)) = {}
  <2> DEFINE a == SubSeq(s, 1, 1)
             b == SubSeq(s, 1 + 1, n)
  <2>1. /\ DuesOf(a, s) /\ IsList(b) /\ DuesOf(b, s) /\ Before(a, b)
        /\ Timers(s) = Timers(a) \union Timers(b) /\ Timers(a) \intersect Timers(b) = {}
    BY <1>4, Halves
  <2>2. a = h /\ b = Tail(s)
    BY <1>2, <1>3
  <2> HIDE DEF a, b, h
  <2> QED
    BY <2>1, <2>2
<1>6. Timers(h) = {Head(s).id} \ {0}
  BY <1>1, Single
<1>7. 0 \notin Timers(Tail(s))
  BY DEF Timers
<1> QED
  BY <1>1, <1>5, <1>6, <1>7

(* A timer that is armed comes after what is due earlier.                  *)
LEMMA ArmedIs ==
  ASSUME NEW s, IsList(s), NEW due \in Nat, nextTimer \in Nat \ {0}, nextTimer \notin Timers(s)
  PROVE  /\ IsList(Armed(s, due))
         /\ Timers(Armed(s, due)) = Timers(s) \union {nextTimer}
         /\ \A u : Before(u, s) /\ (\A i \in 1..Len(u) : u[i].due <= due) => Before(u, Armed(s, due))
<1> DEFINE k == DueBy(s, due)
           a == SubSeq(s, 1, k)
           b == SubSeq(s, k + 1, Len(s))
           e == [id |-> nextTimer, due |-> due]
<1>1. /\ k \in 0..Len(s)
      /\ \A i \in 1..k : s[i].due <= due
      /\ \A i \in 1..Len(s) : i > k => s[i].due > due
  BY DueByIs
<1>2. Len(s) \in Nat /\ k \in Nat /\ (k + 1) - 1 = k /\ \A i \in 1..Len(s) : s[i] \in Slots
  BY <1>1 DEF IsList
<1>3. Armed(s, due) = (a \o <<e>>) \o b
  BY <1>2 DEF Armed, InsertAt
<1> HIDE DEF k
<1>4. /\ IsList(a) /\ DuesOf(a, s) /\ Len(a) = k
      /\ IsList(b) /\ DuesOf(b, s) /\ Len(b) = Len(s) - k
      /\ Before(a, b)
      /\ Timers(s) = Timers(a) \union Timers(b) /\ Timers(a) \intersect Timers(b) = {}
      /\ \A i \in 1..k : a[i] = s[i]
      /\ \A i \in 1..(Len(s) - k) : b[i] = s[i + k]
  BY <1>1, Halves
<1> HIDE DEF a, b
<1>5. e \in Slots /\ e.due = due /\ e.id = nextTimer
  BY DEF Slots
<1>6. IsList(<<e>>) /\ Len(<<e>>) = 1 /\ <<e>>[1] = e /\ Timers(<<e>>) = {nextTimer}
  <2>1. IsList(<<e>>) /\ Len(<<e>>) = 1 /\ <<e>>[1] = e /\ Timers(<<e>>) = {e.id} \ {0}
    BY <1>5, Single
  <2> QED
    BY <1>5, <2>1
<1> HIDE DEF e
<1>7. \A i \in 1..1 : i = 1
  OBVIOUS
<1>8. Before(a, <<e>>)
  BY <1>1, <1>4, <1>5, <1>6, <1>7 DEF Before
<1>9. Before(<<e>>, b)
  <2> SUFFICES ASSUME NEW j \in 1..(Len(s) - k)
               PROVE  due <= b[j].due
    BY <1>4, <1>5, <1>6, <1>7 DEF Before
  <2>1. j + k \in 1..Len(s) /\ j + k > k
    BY <1>2
  <2>2. s[j + k].due > due /\ b[j] = s[j + k] /\ s[j + k].due \in Nat
    BY <1>1, <1>2, <1>4, <2>1 DEF Slots
  <2> QED
    BY <2>2
<1> DEFINE c == a \o <<e>>
<1>10. /\ IsList(c) /\ Timers(c) = Timers(a) \union {nextTimer}
       /\ \A u : Before(u, a) /\ Before(u, <<e>>) => Before(u, c)
       /\ \A u : Before(a, u) /\ Before(<<e>>, u) => Before(c, u)
  <2>1. Timers(a) \intersect Timers(<<e>>) = {}
    BY <1>4, <1>6
  <2> QED
    BY <1>4, <1>6, <1>8, <2>1, Joined
<1> HIDE DEF c
<1>11. Before(c, b) /\ Timers(c) \intersect Timers(b) = {}
  BY <1>4, <1>9, <1>10
<1>12. /\ IsList(c \o b) /\ Timers(c \o b) = Timers(c) \union Timers(b)
       /\ \A u : Before(u, c) /\ Before(u, b) => Before(u, c \o b)
  BY <1>4, <1>10, <1>11, Joined
<1>13. ASSUME NEW u, Before(u, s), \A i \in 1..Len(u) : u[i].due <= due
       PROVE  Before(u, c \o b)
  <2>1. Before(u, a) /\ Before(u, b)
    BY <1>4, <1>13, BeforeOf
  <2>2. Before(u, <<e>>)
    BY <1>5, <1>6, <1>7, <1>13 DEF Before
  <2> QED
    BY <1>10, <1>12, <2>1, <2>2
<1>14. Armed(s, due) = c \o b
  BY <1>3 DEF c
<1> QED
  BY <1>4, <1>10, <1>12, <1>13, <1>14

(* A timer that is taken leaves the others.                                *)
LEMMA DisarmedIs ==
  ASSUME NEW s, IsList(s), NEW id \in Timers(s)
  PROVE  /\ IsList(Disarmed(s, id))
         /\ Timers(Disarmed(s, id)) = Timers(s) \ {id}
         /\ \A u : Before(u, s) => Before(u, Disarmed(s, id))
<1> DEFINE n == Len(s)
           k == CHOOSE i \in DOMAIN s : s[i].id = id
           a == SubSeq(s, 1, k - 1)
           b == SubSeq(s, k + 1, n)
<1>1. s \in Seq(Slots) /\ n \in Nat /\ DOMAIN s = 1..n
  BY DEF IsList
<1>2. id # 0 /\ \E i \in 1..n : s[i].id = id
  BY <1>1, TimersAre
<1>3. k \in 1..n /\ s[k].id = id
  BY <1>1, <1>2
<1>4. Disarmed(s, id) = a \o b
  BY DEF Disarmed, RemoveAt
<1> HIDE DEF k
<1>5. k - 1 \in 0..n /\ k \in 0..n
  BY <1>1, <1>3
<1>6. /\ IsList(a) /\ DuesOf(a, s) /\ Len(a) = k - 1 /\ Timers(a) \subseteq Timers(s)
      /\ \A i \in 1..(k - 1) : a[i] = s[i]
  BY <1>5, Halves
<1>7. /\ IsList(b) /\ DuesOf(b, s) /\ Len(b) = n - k /\ Timers(b) \subseteq Timers(s)
      /\ \A i \in 1..(n - k) : b[i] = s[i + k]
  BY <1>5, Halves
<1>8. a \in Seq(Slots) /\ b \in Seq(Slots)
  BY <1>6, <1>7 DEF IsList
<1> HIDE DEF a, b
<1>9. ASSUME NEW i \in 1..(k - 1), NEW j \in 1..(n - k)
      PROVE  /\ a[i].due <= b[j].due /\ (a[i].id = 0 \/ a[i].id # b[j].id)
  <2>1. i \in 1..n /\ j + k \in 1..n /\ i < j + k
    BY <1>1, <1>3
  <2> QED
    BY <1>6, <1>7, <2>1 DEF IsList
<1>10. Before(a, b)
  BY <1>6, <1>7, <1>9 DEF Before
<1>11. Timers(a) \intersect Timers(b) = {}
  <2> SUFFICES ASSUME NEW m \in Timers(a), m \in Timers(b)
               PROVE  FALSE
    OBVIOUS
  <2>1. m # 0 /\ (\E i \in 1..(k - 1) : a[i].id = m) /\ \E j \in 1..(n - k) : b[j].id = m
    BY <1>6, <1>7, <1>8, TimersAre
  <2> QED
    BY <1>9, <2>1
<1>12. /\ IsList(a \o b) /\ Timers(a \o b) = Timers(a) \union Timers(b)
       /\ \A u : Before(u, a) /\ Before(u, b) => Before(u, a \o b)
  BY <1>6, <1>7, <1>10, <1>11, Joined
<1>13. \A u : Before(u, s) => Before(u, a \o b)
  BY <1>6, <1>7, <1>12, BeforeOf
<1>14. id \notin Timers(a)
  <2> SUFFICES ASSUME NEW i \in 1..(k - 1), a[i].id = id
               PROVE  FALSE
    BY <1>6, <1>8, TimersAre
  <2>1. i \in 1..n /\ i < k /\ s[i].id = id
    BY <1>1, <1>3, <1>6
  <2> QED
    BY <1>2, <1>3, <2>1 DEF IsList
<1>15. id \notin Timers(b)
  <2> SUFFICES ASSUME NEW j \in 1..(n - k), b[j].id = id
               PROVE  FALSE
    BY <1>7, <1>8, TimersAre
  <2>1. j + k \in 1..n /\ k < j + k /\ s[j + k].id = id
    BY <1>1, <1>3, <1>7
  <2> QED
    BY <1>2, <1>3, <2>1 DEF IsList
<1>16. ASSUME NEW m \in Timers(s), m # id
       PROVE  m \in Timers(a) \union Timers(b)
  <2>1. m # 0 /\ \E i \in 1..n : s[i].id = m
    BY <1>1, TimersAre
  <2>2. PICK i \in 1..n : s[i].id = m
    BY <2>1
  <2>3. CASE i < k
    <3>1. i \in 1..(k - 1) /\ a[i].id = m
      BY <1>1, <1>3, <1>6, <2>2, <2>3
    <3> QED
      BY <1>6, <1>8, <2>1, <3>1, TimersAre
  <2>4. CASE i > k
    <3>1. i - k \in 1..(n - k) /\ (i - k) + k = i
      BY <1>1, <1>3, <2>4
    <3>2. b[i - k].id = m
      BY <1>7, <2>2, <3>1
    <3> QED
      BY <1>7, <1>8, <2>1, <3>1, <3>2, TimersAre
  <2>5. i # k
    BY <1>3, <1>16, <2>2
  <2> QED
    BY <1>1, <1>3, <2>3, <2>4, <2>5
<1>17. Timers(a \o b) = Timers(s) \ {id}
  BY <1>6, <1>7, <1>12, <1>14, <1>15, <1>16
<1> QED
  BY <1>4, <1>12, <1>13, <1>17

(* So does a slot that is emptied.                                         *)
LEMMA EmptiedIs ==
  ASSUME NEW s, IsList(s), NEW id, id # 0
  PROVE  /\ IsList(EmptiesSlot(s, id)) /\ DuesOf(EmptiesSlot(s, id), s)
         /\ Timers(EmptiesSlot(s, id)) = Timers(s) \ {id}
<1> DEFINE n == Len(s)
           t == EmptiesSlot(s, id)
<1>1. s \in Seq(Slots) /\ n \in Nat /\ DOMAIN s = 1..n /\ \A i \in 1..n : s[i] \in Slots
  BY DEF IsList
<1>2. t = [i \in 1..n |-> IF s[i].id = id THEN [s[i] EXCEPT !.id = 0] ELSE s[i]]
  BY <1>1 DEF EmptiesSlot
<1>3. \A i \in 1..n : /\ s[i].id = id => t[i] = [s[i] EXCEPT !.id = 0]
                      /\ s[i].id # id => t[i] = s[i]
  BY <1>2
<1> HIDE DEF t
<1>4. \A i \in 1..n : /\ t[i] \in Slots /\ t[i].due = s[i].due
                      /\ t[i].id = IF s[i].id = id THEN 0 ELSE s[i].id
  <2> SUFFICES ASSUME NEW i \in 1..n
               PROVE  /\ t[i] \in Slots /\ t[i].due = s[i].due
                      /\ t[i].id = IF s[i].id = id THEN 0 ELSE s[i].id
    OBVIOUS
  <2>1. s[i] \in [id : Nat, due : Nat]
    BY <1>1 DEF Slots
  <2>2. CASE s[i].id = id
    <3>1. t[i] = [s[i] EXCEPT !.id = 0]
      BY <1>3, <2>2
    <3> QED
      BY <2>1, <2>2, <3>1 DEF Slots
  <2>3. CASE s[i].id # id
    BY <1>1, <1>3, <2>3
  <2> QED
    BY <2>2, <2>3
<1>5. t \in [1..n -> Slots]
  BY <1>2, <1>4
<1>6. t \in Seq(Slots) /\ Len(t) = n
  BY <1>1, <1>5, AsSequence
<1>7. IsList(t) /\ DuesOf(t, s) /\ Timers(t) \subseteq Timers(s)
  <2> DEFINE p == [i \in 1..n |-> i]
  <2>1. p \in [1..Len(t) -> 1..n] /\ \A i \in 1..n : p[i] = i
    BY <1>6
  <2> HIDE DEF p
  <2>2. \A i, j \in 1..Len(t) : i < j => p[i] < p[j]
    BY <1>6, <2>1
  <2>3. \A j \in 1..Len(t) : t[j].due = s[p[j]].due /\ t[j].id \in {0, s[p[j]].id}
    BY <1>4, <1>6, <2>1
  <2> QED
    BY <1>6, <2>1, <2>2, <2>3, PickedFrom
<1>8. \A m : m \in Timers(t) <=> m # 0 /\ \E i \in 1..n : t[i].id = m
  BY <1>6, TimersAre
<1>9. \A m : m \in Timers(s) <=> m # 0 /\ \E i \in 1..n : s[i].id = m
  BY <1>1, TimersAre
<1>10. id \notin Timers(t)
  BY <1>4, <1>8
<1>11. \A m \in Timers(s) : m # id => m \in Timers(t)
  BY <1>4, <1>8, <1>9
<1> QED
  BY <1>7, <1>10, <1>11 DEF t

(* The lists of timers are sorted; those that run and those that are about *)
(* to are due, and ahead of those that wait; every id that was given is in *)
(* one place.                                                              *)
Whole(done, batch, armed, held, gone, next, t) ==
  /\ t \in Nat /\ next \in Nat \ {0}
  /\ IsList(done) /\ IsList(batch) /\ IsList(armed) /\ IsList(held)
  /\ \A i \in 1..Len(done) : done[i].id # 0 /\ done[i].due <= t
  /\ \A i \in 1..Len(batch) : batch[i].due <= t
  /\ Before(done, batch) /\ Before(done, armed) /\ Before(done, held) /\ Before(batch, armed)
  /\ 1..(next - 1) = Timers(done) \union Timers(batch) \union Timers(armed) \union Timers(held) \union gone
  /\ Timers(done) \intersect (Timers(batch) \union Timers(armed) \union Timers(held) \union gone) = {}
  /\ Timers(batch) \intersect (Timers(armed) \union Timers(held) \union gone) = {}
  /\ Timers(armed) \intersect (Timers(held) \union gone) = {}
  /\ Timers(held) \intersect gone = {}

(* What is staged waits for the evaluation, and nothing else is armed      *)
(* while there is one.                                                     *)
Phased == IF evaluating THEN entries = <<>> /\ firing = <<>> ELSE staged = <<>>

TimersInv == Whole(ran, firing, entries, staged, dropped, nextTimer, now) /\ Phased

LEMMA StartsWhole == ReloadInit => TimersInv
<1> SUFFICES ASSUME ReloadInit PROVE TimersInv
  OBVIOUS
<1>1. /\ now = 0 /\ nextTimer = 1 /\ entries = <<>> /\ evaluating = FALSE /\ staged = <<>>
      /\ firing = <<>> /\ ran = <<>> /\ dropped = {}
  BY DEF ReloadInit
<1>2. Len(<<>>) = 0 /\ 1..0 = {} /\ 1..(1 - 1) = {}
  OBVIOUS
<1>3. Whole(<<>>, <<>>, <<>>, <<>>, {}, 1, 0)
  BY <1>2, Empty DEF Whole
<1> QED
  BY <1>1, <1>3 DEF TimersInv, Phased

(* Whoever arms or cancels a timer, in whichever batch it is done.         *)
LEMMA ArmKeeps ==
  ASSUME NEW done, NEW batch, NEW due \in Nat, due > now,
         Whole(done, batch, entries, staged, dropped, nextTimer, now), Arm(due)
  PROVE  Whole(done, batch, entries', staged', dropped', nextTimer', now)
<1>1. nextTimer' = nextTimer + 1 /\ dropped' = dropped
  BY DEF Arm
<1>2. /\ now \in Nat /\ nextTimer \in Nat \ {0} /\ nextTimer' \in Nat \ {0}
      /\ 1..(nextTimer' - 1) = 1..(nextTimer - 1) \union {nextTimer}
      /\ nextTimer \notin 1..(nextTimer - 1)
  BY <1>1 DEF Whole
<1>3. /\ \A i \in 1..Len(done) : done[i].due <= due
      /\ \A i \in 1..Len(batch) : batch[i].due <= due
  <2>1. /\ \A i \in 1..Len(done) : done[i] \in Slots /\ done[i].due <= now
        /\ \A i \in 1..Len(batch) : batch[i] \in Slots /\ batch[i].due <= now
    BY DEF Whole, IsList
  <2> QED
    BY <1>2, <2>1 DEF Slots
<1>4. /\ nextTimer \notin Timers(done) /\ nextTimer \notin Timers(batch) /\ nextTimer \notin Timers(entries)
      /\ nextTimer \notin Timers(staged) /\ nextTimer \notin dropped
  BY <1>2 DEF Whole
<1>5. CASE evaluating
  <2>1. staged' = Armed(staged, due) /\ entries' = entries
    BY <1>5 DEF Arm
  <2>2. IsList(staged) /\ Before(done, staged)
    BY DEF Whole
  <2>3. /\ IsList(staged') /\ Timers(staged') = Timers(staged) \union {nextTimer}
        /\ Before(done, staged')
    BY <1>2, <1>3, <1>4, <2>1, <2>2, ArmedIs
  <2> QED
    BY <1>1, <1>2, <1>4, <2>1, <2>3 DEF Whole
<1>6. CASE ~evaluating
  <2>1. entries' = Armed(entries, due) /\ staged' = staged
    BY <1>6 DEF Arm
  <2>2. IsList(entries) /\ Before(done, entries) /\ Before(batch, entries)
    BY DEF Whole
  <2>3. /\ IsList(entries') /\ Timers(entries') = Timers(entries) \union {nextTimer}
        /\ Before(done, entries') /\ Before(batch, entries')
    BY <1>2, <1>3, <1>4, <2>1, <2>2, ArmedIs
  <2> QED
    BY <1>1, <1>2, <1>4, <2>1, <2>3 DEF Whole
<1> QED
  BY <1>5, <1>6

LEMMA CancelKeeps ==
  ASSUME NEW done, NEW batch, NEW id \in 1..(nextTimer - 1),
         Whole(done, batch, entries, staged, dropped, nextTimer, now), Cancel(id, batch)
  PROVE  Whole(done, firing', entries', staged', dropped', nextTimer', now)
<1>1. nextTimer' = nextTimer /\ id # 0
  BY DEF Cancel
<1>2. /\ IsList(entries) /\ IsList(staged) /\ IsList(batch)
      /\ Before(done, entries) /\ Before(batch, entries) /\ Before(done, staged) /\ Before(done, batch)
  BY DEF Whole
<1>3. CASE id \in Timers(entries)
  <2>1. entries' = Disarmed(entries, id) /\ firing' = batch /\ staged' = staged /\ dropped' = dropped \union {id}
    BY <1>3 DEF Cancel
  <2>2. /\ IsList(entries') /\ Timers(entries') = Timers(entries) \ {id}
        /\ Before(done, entries') /\ Before(batch, entries')
    BY <1>2, <1>3, <2>1, DisarmedIs
  <2> QED
    BY <1>1, <1>3, <2>1, <2>2 DEF Whole
<1>4. CASE id \notin Timers(entries) /\ id \in Timers(batch)
  <2>1. entries' = entries /\ firing' = EmptiesSlot(batch, id) /\ staged' = staged /\ dropped' = dropped \union {id}
    BY <1>4 DEF Cancel
  <2>2. IsList(firing') /\ DuesOf(firing', batch) /\ Timers(firing') = Timers(batch) \ {id}
    BY <1>1, <1>2, <2>1, EmptiedIs
  <2>3. Before(done, firing') /\ Before(firing', entries)
    BY <1>2, <2>2, BeforeOf
  <2>4. \A i \in 1..Len(firing') : firing'[i].due <= now
    BY <2>2 DEF Whole, DuesOf
  <2> QED
    BY <1>1, <1>4, <2>1, <2>2, <2>3, <2>4 DEF Whole
<1>5. CASE id \notin Timers(entries) /\ id \notin Timers(batch) /\ id \in Timers(staged)
  <2>1. entries' = entries /\ firing' = batch /\ staged' = Disarmed(staged, id) /\ dropped' = dropped \union {id}
    BY <1>5 DEF Cancel
  <2>2. /\ IsList(staged') /\ Timers(staged') = Timers(staged) \ {id}
        /\ Before(done, staged')
    BY <1>2, <1>5, <2>1, DisarmedIs
  <2> QED
    BY <1>1, <1>5, <2>1, <2>2 DEF Whole
<1>6. CASE id \notin Timers(entries) /\ id \notin Timers(batch) /\ id \notin Timers(staged)
  <2>1. entries' = entries /\ firing' = batch /\ staged' = staged /\ dropped' = dropped
    BY <1>6 DEF Cancel
  <2> QED
    BY <1>1, <2>1
<1> QED
  BY <1>3, <1>4, <1>5, <1>6

LEMMA EffectsKeep ==
  ASSUME NEW done, NEW batch,
         Whole(done, batch, entries, staged, dropped, nextTimer, now), Effects(batch)
  PROVE  Whole(done, firing', entries', staged', dropped', nextTimer', now)
<1>1. CASE UNCHANGED <<nextTimer, entries, staged, dropped>> /\ firing' = batch
  BY <1>1
<1>2. CASE \E due \in (now + 1)..(LastInstant + 1) : Arm(due) /\ firing' = batch
  <2>1. PICK due \in (now + 1)..(LastInstant + 1) : Arm(due) /\ firing' = batch
    BY <1>2
  <2>2. due \in Nat /\ due > now
    BY DEF Whole
  <2> QED
    BY <2>1, <2>2, ArmKeeps
<1>3. CASE \E id \in 1..(nextTimer - 1) : Cancel(id, batch)
  BY <1>3, CancelKeeps
<1> QED
  BY <1>1, <1>2, <1>3 DEF Effects

(* They reach no list of the other phase.                                  *)
LEMMA EffectsInPhase ==
  ASSUME NEW batch, Effects(batch), UNCHANGED evaluating,
         IF evaluating THEN entries = <<>> /\ batch = <<>> ELSE staged = <<>>
  PROVE  Phased'
<1>1. CASE UNCHANGED <<nextTimer, entries, staged, dropped>> /\ firing' = batch
  BY <1>1 DEF Phased
<1>2. ASSUME NEW due, Arm(due), firing' = batch
      PROVE  Phased'
  BY <1>2 DEF Phased, Arm
<1>3. ASSUME NEW id, Cancel(id, batch)
      PROVE  Phased'
  BY <1>3, Empty DEF Phased, Cancel
<1> QED
  BY <1>1, <1>2, <1>3 DEF Effects

LEMMA TimersStepKeeps == TimersInv /\ [ReloadNext]_reloadVars => TimersInv'
<1> SUFFICES ASSUME TimersInv, [ReloadNext]_reloadVars
             PROVE  TimersInv'
  OBVIOUS
<1> USE DEF TimersInv
<1>1. CASE UNCHANGED reloadVars
  BY <1>1 DEF reloadVars, Phased
<1>2. CASE DispatchDue
  <2> DEFINE split == DueBy(entries, now)
  <2>1. /\ firing = <<>> /\ firing' = SubSeq(entries, 1, split)
        /\ entries' = SubSeq(entries, split + 1, Len(entries))
        /\ UNCHANGED <<now, nextTimer, evaluating, staged, ran, dropped>> /\ entries # <<>>
    BY <1>2 DEF DispatchDue
  <2>2. IsList(entries) /\ now \in Nat /\ Before(ran, entries)
    BY DEF Whole
  <2>3. split \in 0..Len(entries) /\ \A i \in 1..split : entries[i].due <= now
    BY <2>2, DueByIs
  <2> HIDE DEF split
  <2>4. /\ IsList(firing') /\ DuesOf(firing', entries) /\ Len(firing') = split
        /\ IsList(entries') /\ DuesOf(entries', entries) /\ Before(firing', entries')
        /\ Timers(entries) = Timers(firing') \union Timers(entries')
        /\ Timers(firing') \intersect Timers(entries') = {}
        /\ \A i \in 1..split : firing'[i] = entries[i]
    BY <2>1, <2>2, <2>3, Halves
  <2>5. Before(ran, firing') /\ Before(ran, entries')
    BY <2>2, <2>4, BeforeOf
  <2>6. \A i \in 1..Len(firing') : firing'[i].due <= now
    BY <2>3, <2>4
  <2>7. Timers(firing) = {}
    BY <2>1, Empty
  <2>8. Whole(ran, firing', entries', staged, dropped, nextTimer, now)
    BY <2>2, <2>4, <2>5, <2>6, <2>7 DEF Whole
  <2>9. ~evaluating /\ staged = <<>>
    BY <2>1 DEF Phased
  <2> QED
    BY <2>1, <2>8, <2>9 DEF Phased
<1>3. CASE FireNext
  <2>1. firing # <<>> /\ UNCHANGED <<now, evaluating>> /\ ~evaluating /\ staged = <<>>
    BY <1>3 DEF FireNext, Phased
  <2> DEFINE head == Head(firing)
             rest == Tail(firing)
  <2>2. IsList(firing) /\ IsList(ran)
    BY DEF Whole
  <2>3. /\ head \in Slots /\ DuesOf(<<head>>, firing)
        /\ IsList(rest) /\ DuesOf(rest, firing) /\ Before(<<head>>, rest)
        /\ Timers(firing) = Timers(rest) \union ({head.id} \ {0}) /\ head.id \notin Timers(rest)
    BY <2>1, <2>2, HeadAndTail
  <2>4. CASE head.id = 0
    <3>1. firing' = rest /\ UNCHANGED <<nextTimer, entries, staged, ran, dropped>>
      BY <1>3, <2>4 DEF FireNext
    <3> HIDE DEF head, rest
    <3>2. Timers(rest) = Timers(firing)
      BY <2>3, <2>4
    <3>3. Before(ran, rest) /\ Before(rest, entries)
      BY <2>3, BeforeOf DEF Whole
    <3>4. \A i \in 1..Len(rest) : rest[i].due <= now
      BY <2>3 DEF Whole, DuesOf
    <3>5. Whole(ran, rest, entries, staged, dropped, nextTimer, now)
      BY <2>3, <3>2, <3>3, <3>4 DEF Whole
    <3> QED
      BY <2>1, <3>1, <3>5 DEF Phased
  <2>5. CASE head.id # 0
    <3>1. ran' = Append(ran, head) /\ Effects(rest)
      BY <1>3, <2>5 DEF FireNext
    <3> HIDE DEF head, rest
    <3>2. IsList(<<head>>) /\ Len(<<head>>) = 1 /\ <<head>>[1] = head /\ Timers(<<head>>) = {head.id}
      BY <2>3, <2>5, Single
    <3>3. /\ Before(ran, <<head>>) /\ Before(ran, rest)
          /\ Before(<<head>>, entries) /\ Before(rest, entries)
      BY <2>3, BeforeOf DEF Whole
    <3>4. Before(<<head>>, staged) /\ Before(rest, staged)
      BY <2>1, Empty
    <3>5. Timers(ran) \intersect Timers(<<head>>) = {}
      BY <2>3, <2>5, <3>2 DEF Whole
    <3> DEFINE done == ran \o <<head>>
    <3>6. /\ IsList(done) /\ Timers(done) = Timers(ran) \union {head.id}
          /\ \A u : Before(ran, u) /\ Before(<<head>>, u) => Before(done, u)
      BY <2>2, <3>2, <3>3, <3>5, Joined
    <3>7. ran \in Seq(Slots) /\ Len(ran) \in Nat
      BY <2>2 DEF IsList
    <3>8. /\ Len(done) = Len(ran) + 1 /\ done[Len(ran) + 1] = head
          /\ \A i \in 1..Len(ran) : done[i] = ran[i]
      BY <2>3, <3>7
    <3>9. ran' = done
      BY <2>3, <3>1, <3>7
    <3> HIDE DEF done
    <3>10. head.due <= now
      BY <2>3, <3>2 DEF Whole, DuesOf
    <3>11. ASSUME NEW i \in 1..Len(done)
           PROVE  done[i].id # 0 /\ done[i].due <= now
      <4>1. i \in 1..Len(ran) \/ i = Len(ran) + 1
        BY <3>7, <3>8
      <4> QED
        BY <2>5, <3>8, <3>10, <4>1 DEF Whole
    <3>12. \A i \in 1..Len(rest) : rest[i].due <= now
      BY <2>3 DEF Whole, DuesOf
    <3>13. Before(done, rest) /\ Before(done, entries) /\ Before(done, staged)
      BY <2>3, <3>3, <3>4, <3>6 DEF Whole
    <3>14. Whole(done, rest, entries, staged, dropped, nextTimer, now)
      <4>1. Timers(ran) \union Timers(firing) = Timers(done) \union Timers(rest)
        BY <2>3, <2>5, <3>6
      <4>2. Timers(done) \intersect Timers(rest) = {}
        BY <2>3, <2>5, <3>6 DEF Whole
      <4>3. Timers(rest) \subseteq Timers(firing) /\ Timers(done) \subseteq Timers(ran) \union Timers(firing)
        BY <2>3, <2>5, <3>6
      <4>4. 1..(nextTimer - 1) = Timers(done) \union Timers(rest) \union Timers(entries)
                                   \union Timers(staged) \union dropped
        BY <4>1 DEF Whole
      <4>5. Timers(done) \intersect (Timers(rest) \union Timers(entries) \union Timers(staged) \union dropped) = {}
        BY <4>2, <4>3 DEF Whole
      <4>6. Timers(rest) \intersect (Timers(entries) \union Timers(staged) \union dropped) = {}
        BY <4>3 DEF Whole
      <4> QED
        BY <2>3, <3>3, <3>6, <3>11, <3>12, <3>13, <4>4, <4>5, <4>6 DEF Whole
    <3>15. Whole(done, firing', entries', staged', dropped', nextTimer', now)
      BY <3>1, <3>14, EffectsKeep
    <3>16. Phased'
      BY <2>1, <3>1, EffectsInPhase
    <3> QED
      BY <2>1, <3>9, <3>15, <3>16
  <2> QED
    BY <2>4, <2>5
<1>4. CASE ~evaluating /\ HandlerRuns
  <2>1. firing = <<>> /\ Effects(<<>>) /\ UNCHANGED <<now, evaluating, ran>> /\ staged = <<>>
    BY <1>4 DEF HandlerRuns, Phased
  <2>2. Whole(ran, firing', entries', staged', dropped', nextTimer', now)
    BY <2>1, EffectsKeep
  <2>3. Phased'
    BY <1>4, <2>1, EffectsInPhase
  <2> QED
    BY <2>1, <2>2, <2>3
<1>5. CASE Elapse
  <2>1. now' = now + 1 /\ UNCHANGED <<nextTimer, entries, evaluating, staged, firing, ran, dropped>>
    BY <1>5 DEF Elapse
  <2>2. /\ \A i \in 1..Len(ran) : ran[i] \in Slots /\ ran[i].due <= now
        /\ \A i \in 1..Len(firing) : firing[i] \in Slots /\ firing[i].due <= now
        /\ now \in Nat
    BY DEF Whole, IsList
  <2>3. /\ \A i \in 1..Len(ran) : ran[i].due <= now + 1
        /\ \A i \in 1..Len(firing) : firing[i].due <= now + 1
        /\ now + 1 \in Nat
    BY <2>2 DEF Slots
  <2>4. Whole(ran, firing, entries, staged, dropped, nextTimer, now + 1)
    BY <2>3 DEF Whole
  <2> QED
    BY <2>1, <2>4 DEF Phased
<1>6. CASE BeginEvaluation
  <2>1. /\ ~evaluating /\ firing = <<>> /\ entries' = <<>> /\ staged' = <<>> /\ evaluating' = TRUE
        /\ dropped' = dropped \union Timers(entries)
        /\ UNCHANGED <<now, nextTimer, firing, ran>> /\ staged = <<>>
    BY <1>6 DEF BeginEvaluation, Phased
  <2>2. Whole(ran, firing, <<>>, staged, dropped \union Timers(entries), nextTimer, now)
    BY Empty DEF Whole
  <2> QED
    BY <2>1, <2>2 DEF Phased
<1>7. CASE TopLevelRuns
  <2>1. /\ evaluating /\ firing = <<>> /\ entries = <<>> /\ Effects(<<>>)
        /\ UNCHANGED <<now, evaluating, ran>>
    BY <1>7 DEF TopLevelRuns, Phased
  <2>2. Whole(ran, firing', entries', staged', dropped', nextTimer', now)
    BY <2>1, EffectsKeep
  <2>3. Phased'
    BY <2>1, EffectsInPhase
  <2> QED
    BY <2>1, <2>2, <2>3
<1>8. CASE evaluating /\ Discard /\ UNCHANGED <<now, nextTimer, firing, ran>>
  <2>1. /\ entries = <<>> /\ entries' = <<>> /\ staged' = <<>> /\ evaluating' = FALSE
        /\ dropped' = dropped \union Timers(staged)
    BY <1>8 DEF Discard, Phased
  <2>2. Whole(ran, firing, entries, <<>>, dropped \union Timers(staged), nextTimer, now)
    BY Empty DEF Whole
  <2> QED
    BY <1>8, <2>1, <2>2 DEF Phased
<1>9. CASE evaluating /\ Promote /\ UNCHANGED <<now, nextTimer, firing, ran>>
  <2>1. /\ entries = <<>> /\ firing = <<>> /\ entries' = staged /\ staged' = <<>> /\ evaluating' = FALSE
        /\ dropped' = dropped
    BY <1>9 DEF Promote, Phased
  <2>2. Whole(ran, <<>>, staged, <<>>, dropped, nextTimer, now)
    BY <2>1, Empty DEF Whole
  <2> QED
    BY <1>9, <2>1, <2>2 DEF Phased
<1>10. CASE EvaluationRaises \/ EvaluationRefused
  BY <1>8, <1>10 DEF EvaluationRaises, EvaluationRefused
<1>11. CASE EvaluationApplies
  BY <1>9, <1>11 DEF EvaluationApplies
<1>12. CASE ReResolve
  <2>1. UNCHANGED <<now, nextTimer, entries, evaluating, staged, firing, ran, dropped>>
    BY <1>12 DEF ReResolve
  <2> QED
    BY <2>1 DEF Phased
<1> QED
  BY <1>1, <1>2, <1>3, <1>4, <1>5, <1>6, <1>7, <1>10, <1>11, <1>12 DEF ReloadNext

(* The history is sorted, and every id is where the invariant puts it.     *)
LEMMA WholeIsAsArmed == TimersInv => TimersRunAsArmed
<1> SUFFICES ASSUME TimersInv PROVE TimersRunAsArmed
  OBVIOUS
<1> DEFINE runIds == {entry.id : entry \in ToSet(ran)}
<1>1. /\ ran \in Seq(Slots) /\ DOMAIN ran = 1..Len(ran) /\ \A i \in 1..Len(ran) : ran[i].id # 0
  BY DEF TimersInv, Whole, IsList
<1>2. runIds = Timers(ran)
  <2>1. 0 \notin runIds
    BY <1>1 DEF ToSet
  <2> QED
    BY <2>1 DEF Timers
<1>3. \A i, j \in DOMAIN ran : i < j => ran[i].due <= ran[j].due /\ ran[i].id # ran[j].id
  BY <1>1 DEF TimersInv, Whole, IsList
<1>4. runIds \intersect dropped = {}
  BY <1>2 DEF TimersInv, Whole
<1>5. Timers(staged) = IF evaluating THEN Timers(staged) ELSE {}
  BY Empty DEF TimersInv, Phased
<1>6. 1..(nextTimer - 1) = runIds \union dropped \union Timers(entries) \union Timers(firing)
                            \union (IF evaluating THEN Timers(staged) ELSE {})
  BY <1>2, <1>5 DEF TimersInv, Whole
<1> QED
  BY <1>3, <1>4, <1>6 DEF TimersRunAsArmed

(* TimersRunAsArmed of ConfigTimers: whatever callbacks, handlers and      *)
(* evaluations arm and cancel, and however reloads end, the timers that    *)
(* run do so once, by deadline and not after they were cancelled, and none *)
(* that is owed is lost (timer.rs: arm, take, dispatch_due, promote,       *)
(* discard).                                                               *)
THEOREM TimersRun == ReloadSpec => []TimersRunAsArmed
<1>1. TimersInv /\ [ReloadNext]_reloadVars => TimersInv'
  BY TimersStepKeeps
<1> QED
  BY <1>1, StartsWhole, WholeIsAsArmed, PTL DEF ReloadSpec
===============================================================================
