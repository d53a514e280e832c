------------------------ MODULE AgentRegistryProofs ------------------------
(***************************************************************************)
(* The invariants of AgentRegistry, for any finite set of agents, any      *)
(* skills, offers and callers.  The lists are reasoned about by counting:  *)
(* Times(list, a) says how often a is on a list, and the count, by         *)
(* induction over the list's prefixes, tells what Without leaves.          *)
(***************************************************************************)
EXTENDS AgentRegistry, FiniteSetTheorems, WellFoundedInduction, TLAPS

\* Induction, for a set of numbers.
LEMMA SetInduction ==
    ASSUME NEW S, 0 \in S, \A n \in Nat : n \in S => n + 1 \in S
    PROVE  \A n \in Nat : n \in S
<1>. SUFFICES ASSUME NEW n \in Nat, n \notin S PROVE FALSE
  OBVIOUS
<1>. DEFINE T == {m \in Nat : m \notin S}
            R == OpToRel(<, Nat)
<1>1. IsWellFoundedOn(R, Nat)
  BY NatLessThanWellFounded
<1>2. T \subseteq Nat /\ T # {}
  OBVIOUS
<1>3. \E x \in T : \A y \in T : ~ (<<y, x>> \in R)
  <2>. HIDE DEF T, R
  <2>. QED BY <1>1, <1>2, WFMin
<1>4. PICK x \in T : \A y \in T : ~ (<<y, x>> \in R)
  BY <1>3
<1>5. x # 0 /\ x - 1 \in Nat
  OBVIOUS
<1>6. x - 1 \notin S
  BY <1>5
<1>7. <<x - 1, x>> \in R
  BY <1>5 DEF OpToRel
<1>. QED
  BY <1>4, <1>5, <1>6, <1>7

Builds(f, list, a) ==
    /\ f[0] = <<>>
    /\ \A n \in 0..(Len(list) - 1) :
           f[n + 1] = IF list[n + 1] = a THEN f[n] ELSE Append(f[n], list[n + 1])
    /\ Without(list, a) = f[Len(list)]

\* The lists that Without builds, one for each prefix of the given one.
LEMMA WithoutRec ==
    ASSUME NEW E, NEW list \in Seq(E), NEW a
    PROVE  \E f \in [0..Len(list) -> Seq(E)] : Builds(f, list, a)
<1>. DEFINE Built(f, i) == IF i = 0 THEN <<>>
                           ELSE IF list[i] = a THEN f[i - 1] ELSE Append(f[i - 1], list[i])
            Good(f, n) == /\ f \in [0..n -> Seq(E)]
                          /\ \A i \in 0..n : f[i] = Built(f, i)
            S == {n \in Nat : n <= Len(list) => \E f : Good(f, n)}
<1>1. 0 \in S
  <2>1. Good([i \in 0..0 |-> <<>>], 0)
    OBVIOUS
  <2>. QED
    BY <2>1
<1>2. ASSUME NEW n \in Nat, n \in S PROVE n + 1 \in S
  <2>1. ASSUME n + 1 <= Len(list) PROVE \E f : Good(f, n + 1)
    <3>1. PICK f : Good(f, n)
      <4>. HIDE DEF Good
      <4>1. n <= Len(list)
        BY <2>1
      <4>. QED
        BY <1>2, <4>1
    <3>2. PICK g : g = [i \in 0..(n + 1) |-> IF i = n + 1 THEN Built(f, n + 1) ELSE f[i]]
      OBVIOUS
    <3>3. Built(f, n + 1) \in Seq(E)
      BY <2>1, <3>1
    <3>4. \A i \in 0..(n + 1) : i = n + 1 \/ i \in 0..n
      OBVIOUS
    <3>5. g \in [0..(n + 1) -> Seq(E)]
      <4>. HIDE DEF Built
      <4>. QED BY <3>1, <3>2, <3>3, <3>4
    <3>6. \A i \in 0..n : g[i] = f[i]
      <4>. HIDE DEF Built
      <4>. QED BY <3>2
    <3>7. g[n + 1] = Built(f, n + 1)
      <4>. HIDE DEF Built
      <4>. QED BY <3>2
    <3>8. ASSUME NEW i \in 0..n PROVE g[i] = Built(g, i)
      <4>1. i = 0 \/ (i # 0 /\ i - 1 \in 0..n)
        OBVIOUS
      <4>2. f[i] = Built(f, i)
        BY <3>1
      <4>3. Built(f, i) = Built(g, i)
        BY <3>6, <4>1
      <4>. QED
        BY <3>6, <4>2, <4>3
    <3>9. Built(f, n + 1) = Built(g, n + 1)
      <4>1. (n + 1) - 1 = n /\ n \in 0..n
        OBVIOUS
      <4>. QED
        BY <3>6, <4>1
    <3>10. \A i \in 0..(n + 1) : g[i] = Built(g, i)
      <4>. HIDE DEF Built
      <4>. QED BY <3>4, <3>7, <3>8, <3>9
    <3>11. Good(g, n + 1)
      <4>. HIDE DEF Built
      <4>. QED BY <3>5, <3>10
    <3>. QED
      <4>. HIDE DEF Good
      <4>. QED BY <3>11
  <2>. QED
    <3>. HIDE DEF Good
    <3>. QED BY <2>1
<1>3. PICK f : Good(f, Len(list))
  <2>. HIDE DEF Good
  <2>1. \A n \in Nat : n \in S
    <3>. HIDE DEF S
    <3>. QED BY <1>1, <1>2, SetInduction
  <2>. QED
    BY <2>1
<1>4. f = [i \in 0..Len(list) |-> Built(f, i)]
  BY <1>3
<1>. DEFINE h == CHOOSE g : g = [i \in 0..Len(list) |-> Built(g, i)]
<1>5. h = [i \in 0..Len(list) |-> Built(h, i)]
  <2>. HIDE DEF Built
  <2>. QED BY <1>4
<1>6. Without(list, a) = h[Len(list)]
  BY DEF Without
<1>. HIDE DEF h
<1>7. h[0] = <<>>
  BY <1>5
<1>8. ASSUME NEW n \in 0..(Len(list) - 1)
      PROVE  h[n + 1] = IF list[n + 1] = a THEN h[n] ELSE Append(h[n], list[n + 1])
  <2>1. n + 1 \in 0..Len(list) /\ n + 1 # 0 /\ (n + 1) - 1 = n
    OBVIOUS
  <2>2. h[n + 1] = Built(h, n + 1)
    <3>. HIDE DEF Built
    <3>. QED BY <1>5, <2>1
  <2>. QED
    BY <2>1, <2>2
<1>. DEFINE T == {n \in Nat : n <= Len(list) => h[n] \in Seq(E)}
<1>9. 0 \in T
  <2>1. <<>> \in Seq(E)
    OBVIOUS
  <2>. QED
    BY <1>7, <2>1
<1>10. ASSUME NEW n \in Nat, n \in T PROVE n + 1 \in T
  <2>1. ASSUME n + 1 <= Len(list) PROVE h[n + 1] \in Seq(E)
    <3>1. n \in 0..(Len(list) - 1) /\ h[n] \in Seq(E) /\ list[n + 1] \in E
      BY <1>10, <2>1
    <3>2. h[n + 1] = IF list[n + 1] = a THEN h[n] ELSE Append(h[n], list[n + 1])
      BY <1>8, <3>1
    <3>. QED
      BY <3>1, <3>2
  <2>. QED
    BY <2>1
<1>11. \A n \in Nat : n \in T
  <2>. HIDE DEF T
  <2>. QED BY <1>9, <1>10, SetInduction
<1>12. h \in [0..Len(list) -> Seq(E)]
  <2>. HIDE DEF Built
  <2>. QED BY <1>5, <1>11
<1>. QED
  BY <1>6, <1>7, <1>8, <1>12 DEF Builds

\* An element is on a list as often as a number says, and not at all if it is 0.
LEMMA TimesType ==
    ASSUME NEW E, NEW list \in Seq(E), NEW b
    PROVE  /\ Times(list, b) \in Nat
           /\ Times(list, b) > 0 <=> b \in ToSet(list)
<1>. DEFINE P == {i \in DOMAIN list : list[i] = b}
<1>1. IsFiniteSet(P)
  BY FS_Interval, FS_Subset
<1>2. Cardinality(P) \in Nat /\ (Cardinality(P) = 0 <=> P = {})
  BY <1>1, FS_CardinalityType, FS_EmptySet
<1>3. P # {} <=> b \in ToSet(list)
  BY DEF ToSet
<1>. QED
  BY <1>2, <1>3 DEF Times

\* What an append adds to an element's count.
LEMMA TimesAppend ==
    ASSUME NEW E, NEW list \in Seq(E), NEW e \in E, NEW b
    PROVE  Times(Append(list, e), b) = Times(list, b) + IF e = b THEN 1 ELSE 0
<1>. DEFINE l == Append(list, e)
            n == Len(list) + 1
            P == {i \in DOMAIN list : list[i] = b}
            Q == {i \in DOMAIN l : l[i] = b}
<1>1. IsFiniteSet(P) /\ n \notin P
  BY FS_Interval, FS_Subset
<1>2. /\ DOMAIN l = DOMAIN list \cup {n}
      /\ \A i \in DOMAIN list : l[i] = list[i]
      /\ l[n] = e
  OBVIOUS
<1>3. Q = IF e = b THEN P \cup {n} ELSE P
  <2>. HIDE DEF l, n
  <2>. QED BY <1>2
<1>4. Cardinality(P) \in Nat
  BY <1>1, FS_CardinalityType
<1>5. Cardinality(P \cup {n}) = Cardinality(P) + 1
  <2>. HIDE DEF P, n
  <2>. QED BY <1>1, FS_AddElement
<1>6. Cardinality(Q) = Cardinality(P) + IF e = b THEN 1 ELSE 0
  <2>. HIDE DEF P, Q, n
  <2>. QED BY <1>3, <1>4, <1>5
<1>. QED
  BY <1>6 DEF Times

\* Without takes out every entry of a and none of anybody else's.
LEMMA WithoutTimes ==
    ASSUME NEW E, NEW list \in Seq(E), NEW a
    PROVE  /\ Without(list, a) \in Seq(E)
           /\ \A b : Times(Without(list, a), b) = IF b = a THEN 0 ELSE Times(list, b)
<1>1. PICK f \in [0..Len(list) -> Seq(E)] : Builds(f, list, a)
  BY WithoutRec
<1>. DEFINE Prefix(n) == [i \in 1..n |-> list[i]]
            Same(n) == \A b : Times(f[n], b) = IF b = a THEN 0 ELSE Times(Prefix(n), b)
            S == {n \in Nat : n <= Len(list) => Same(n)}
<1>2. 0 \in S
  <2>1. Prefix(0) = <<>>
    OBVIOUS
  <2>2. \A b : Times(<<>>, b) = 0
    BY FS_EmptySet DEF Times
  <2>. QED
    <3>. HIDE DEF Prefix
    <3>. QED BY <1>1, <2>1, <2>2 DEF Builds
<1>3. ASSUME NEW n \in Nat, n \in S PROVE n + 1 \in S
  <2>1. ASSUME n + 1 <= Len(list), NEW b
        PROVE  Times(f[n + 1], b) = IF b = a THEN 0 ELSE Times(Prefix(n + 1), b)
    <3>1. n \in 0..(Len(list) - 1) /\ n \in 0..Len(list) /\ list[n + 1] \in E
      BY <2>1
    <3>2. Prefix(n) \in Seq(E) /\ Prefix(n + 1) = Append(Prefix(n), list[n + 1])
      BY <2>1
    <3>3. Times(f[n], b) = IF b = a THEN 0 ELSE Times(Prefix(n), b)
      BY <1>3, <2>1
    <3>4. Times(Prefix(n + 1), b) = Times(Prefix(n), b) + IF list[n + 1] = b THEN 1 ELSE 0
      <4>. HIDE DEF Prefix
      <4>1. Times(Append(Prefix(n), list[n + 1]), b)
                = Times(Prefix(n), b) + IF list[n + 1] = b THEN 1 ELSE 0
        BY <3>1, <3>2, TimesAppend
      <4>. QED
        BY <3>2, <4>1
    <3>5. Times(Append(f[n], list[n + 1]), b) = Times(f[n], b) + IF list[n + 1] = b THEN 1 ELSE 0
      BY <3>1, TimesAppend
    <3>6. Times(f[n], b) \in Nat /\ Times(Prefix(n), b) \in Nat
      <4>. HIDE DEF Prefix
      <4>. QED BY <3>1, <3>2, TimesType
    <3>7. f[n + 1] = IF list[n + 1] = a THEN f[n] ELSE Append(f[n], list[n + 1])
      BY <1>1, <3>1 DEF Builds
    <3>. QED
      <4>. HIDE DEF Prefix
      <4>. QED BY <3>3, <3>4, <3>5, <3>6, <3>7
  <2>. QED
    <3>. HIDE DEF Prefix
    <3>. QED BY <2>1
<1>4. Same(Len(list))
  <2>. HIDE DEF Same
  <2>1. \A n \in Nat : n \in S
    <3>. HIDE DEF S
    <3>. QED BY <1>2, <1>3, SetInduction
  <2>. QED
    BY <2>1
<1>5. Prefix(Len(list)) = list
  OBVIOUS
<1>. QED
  <2>. HIDE DEF Prefix
  <2>. QED BY <1>1, <1>4, <1>5 DEF Builds
\* A card names a skill in at most two ways.
LEMMA WaysCount ==
    ASSUME NEW c \in Card, NEW s
    PROVE  /\ Ways(c, s) = (IF s \in c.skills THEN 1 ELSE 0)
                              + (IF s \in c.legacyCaps THEN 1 ELSE 0)
           /\ Ways(c, s) \in 0..2
<1>. DEFINE W == {way \in {"skills", "legacyCaps"} : s \in c[way]}
<1>1. W = (IF s \in c.skills THEN {"skills"} ELSE {})
             \cup (IF s \in c.legacyCaps THEN {"legacyCaps"} ELSE {})
  BY DEF Card
<1>2. Cardinality({}) = 0 /\ IsFiniteSet({"skills"})
      /\ Cardinality({"skills"}) = 1 /\ Cardinality({"legacyCaps"}) = 1
  BY FS_EmptySet, FS_Singleton
<1>3. Cardinality({"skills"} \cup {"legacyCaps"}) = 2
  BY <1>2, FS_AddElement
<1>4. Cardinality(W) = (IF s \in c.skills THEN 1 ELSE 0)
                          + (IF s \in c.legacyCaps THEN 1 ELSE 0)
  <2>1. CASE s \in c.skills /\ s \in c.legacyCaps
    <3>1. W = {"skills"} \cup {"legacyCaps"}
      BY <1>1, <2>1
    <3>. QED
      <4>. HIDE DEF W
      <4>. QED BY <1>3, <2>1, <3>1
  <2>2. CASE s \in c.skills /\ s \notin c.legacyCaps
    <3>1. W = {"skills"}
      BY <1>1, <2>2
    <3>. QED
      <4>. HIDE DEF W
      <4>. QED BY <1>2, <2>2, <3>1
  <2>3. CASE s \notin c.skills /\ s \in c.legacyCaps
    <3>1. W = {"legacyCaps"}
      BY <1>1, <2>3
    <3>. QED
      <4>. HIDE DEF W
      <4>. QED BY <1>2, <2>3, <3>1
  <2>4. CASE s \notin c.skills /\ s \notin c.legacyCaps
    <3>1. W = {}
      BY <1>1, <2>4
    <3>. QED
      <4>. HIDE DEF W
      <4>. QED BY <1>2, <2>4, <3>1
  <2>. QED
    BY <2>1, <2>2, <2>3, <2>4
<1>. QED
  <2>. HIDE DEF W
  <2>1. Ways(c, s) = Cardinality(W)
    BY DEF Ways, W
  <2>. QED
    BY <1>4, <2>1

\* A new card's agent is listed for each way it names the skill, the others as before.
LEMMA RelistedTimes ==
    ASSUME NEW list \in Seq(Agent), NEW a \in Agent, NEW c \in Card, NEW s
    PROVE  LET l == Without(list, a) \o Entries(a, c, s)
           IN  /\ l \in Seq(Agent)
               /\ \A b : Times(l, b) = IF b = a THEN Ways(c, s) ELSE Times(list, b)
<1>. DEFINE w == Without(list, a)
            l == w \o Entries(a, c, s)
<1>1. w \in Seq(Agent) /\ \A b : Times(w, b) = IF b = a THEN 0 ELSE Times(list, b)
  BY WithoutTimes
<1>. HIDE DEF w
<1>2. \A b : Times(w, b) \in Nat
  BY <1>1, TimesType
<1>3. Append(w, a) \in Seq(Agent) /\ Append(Append(w, a), a) \in Seq(Agent)
  BY <1>1
<1>4. \A b : Times(Append(w, a), b) = Times(w, b) + IF a = b THEN 1 ELSE 0
  BY <1>1, TimesAppend
<1>5. \A b : Times(Append(Append(w, a), a), b) = Times(Append(w, a), b) + IF a = b THEN 1 ELSE 0
  BY <1>3, TimesAppend
<1>6. l = IF s \in c.skills /\ s \in c.legacyCaps THEN Append(Append(w, a), a)
          ELSE IF s \in c.skills \/ s \in c.legacyCaps THEN Append(w, a)
          ELSE w
  BY <1>1 DEF Entries
<1>. HIDE DEF l
<1>7. ASSUME NEW b PROVE Times(l, b) = IF b = a THEN Ways(c, s) ELSE Times(list, b)
  <2>1. CASE s \in c.skills /\ s \in c.legacyCaps
    BY <1>1, <1>2, <1>4, <1>5, <1>6, <2>1, WaysCount
  <2>2. CASE ~(s \in c.skills /\ s \in c.legacyCaps) /\ (s \in c.skills \/ s \in c.legacyCaps)
    BY <1>1, <1>2, <1>4, <1>6, <2>2, WaysCount
  <2>3. CASE ~(s \in c.skills \/ s \in c.legacyCaps)
    BY <1>1, <1>2, <1>6, <2>3, WaysCount
  <2>. QED
    BY <2>1, <2>2, <2>3
<1>8. l \in Seq(Agent)
  BY <1>1, <1>3, <1>6
<1>. QED
  BY <1>7, <1>8 DEF l, w

\* The same, of the set of the listed.
LEMMA RelistedSet ==
    ASSUME NEW list \in Seq(Agent), NEW a \in Agent, NEW c \in Card, NEW s
    PROVE  ToSet(Without(list, a) \o Entries(a, c, s))
              = (ToSet(list) \ {a}) \cup (IF s \in c.skills \cup c.legacyCaps THEN {a} ELSE {})
<1>. DEFINE l == Without(list, a) \o Entries(a, c, s)
<1>1. l \in Seq(Agent) /\ \A b : Times(l, b) = IF b = a THEN Ways(c, s) ELSE Times(list, b)
  BY RelistedTimes
<1>. HIDE DEF l
<1>2. \A b : Times(l, b) > 0 <=> b \in ToSet(l)
  BY <1>1, TimesType
<1>3. \A b : Times(list, b) > 0 <=> b \in ToSet(list)
  BY TimesType
<1>4. Ways(c, s) > 0 <=> s \in c.skills \cup c.legacyCaps
  BY WaysCount
<1>5. ToSet(l) = (ToSet(list) \ {a}) \cup (IF s \in c.skills \cup c.legacyCaps THEN {a} ELSE {})
  BY <1>1, <1>2, <1>3, <1>4
<1>. QED
  BY <1>5 DEF l

\* A set with three elements has at least three.
LEMMA ThreeElements ==
    ASSUME NEW S, IsFiniteSet(S), NEW i \in S, NEW j \in S, NEW k \in S,
           i # j, i # k, j # k
    PROVE  Cardinality(S) \in Nat /\ Cardinality(S) >= 3
<1>. DEFINE I == {i}
            P == I \cup {j}
<1>1. Cardinality(I) = 1 /\ IsFiniteSet(I) /\ j \notin I
  BY FS_Singleton
<1>2. Cardinality(P) = 2 /\ IsFiniteSet(P)
  <2>. HIDE DEF I
  <2>. QED BY <1>1, FS_AddElement
<1>3. k \notin P /\ P \cup {k} \in SUBSET S
  OBVIOUS
<1>. HIDE DEF P
<1>4. Cardinality(P \cup {k}) = 3
  BY <1>2, <1>3, FS_AddElement
<1>. QED
  BY <1>3, <1>4, FS_Subset, FS_CardinalityType

\* A list with nobody on it more than twice is at most twice as long as there are
\* agents: its entries are a first or a second one of an agent each.
LEMMA LengthBound ==
    ASSUME NEW list \in Seq(Agent), \A b \in Agent : Times(list, b) <= 2
    PROVE  Len(list) <= 2 * Cardinality(Agent)
<1>. DEFINE Earlier(i) == \E j \in DOMAIN list : j < i /\ list[j] = list[i]
            f == [i \in 1..Len(list) |-> <<list[i], IF Earlier(i) THEN 2 ELSE 1>>]
<1>1. f \in [1..Len(list) -> Agent \X (1..2)]
  OBVIOUS
<1>2. ASSUME NEW i \in 1..Len(list), NEW k \in 1..Len(list), i < k, f[i] = f[k] PROVE FALSE
  <2>1. list[i] = list[k] /\ Earlier(i) = Earlier(k) /\ Earlier(k)
    BY <1>2
  <2>2. PICK j \in DOMAIN list : j < i /\ list[j] = list[i]
    BY <2>1
  <2>. DEFINE P == {m \in DOMAIN list : list[m] = list[i]}
  <2>3. i \in P /\ j \in P /\ k \in P /\ i # j /\ i # k /\ j # k
    BY <1>2, <2>1, <2>2
  <2>4. IsFiniteSet(P)
    BY FS_Interval, FS_Subset
  <2>8. Cardinality(P) >= 3 /\ Cardinality(P) \in Nat
    <3>. HIDE DEF P
    <3>. QED BY <2>3, <2>4, ThreeElements
  <2>9. Cardinality(P) <= 2
    BY DEF Times
  <2>. QED
    <3>. HIDE DEF P
    <3>. QED BY <2>8, <2>9
<1>3. f \in Injection(1..Len(list), Agent \X (1..2))
  <2>. HIDE DEF f
  <2>1. \A i, k \in 1..Len(list) : f[i] = f[k] => i = k
    <3>. SUFFICES ASSUME NEW i \in 1..Len(list), NEW k \in 1..Len(list), f[i] = f[k], i # k
                  PROVE  FALSE
      OBVIOUS
    <3>. QED
      <4>1. i < k \/ k < i
        OBVIOUS
      <4>. QED
        BY <1>2, <4>1
  <2>. QED
    BY <1>1, <2>1 DEF Injection, IsInjective
<1>4. /\ IsFiniteSet(1..2) /\ Cardinality(1..2) = 2
      /\ Cardinality(1..Len(list)) = Len(list)
  <2>1. ASSUME NEW n \in Nat PROVE IsFiniteSet(1..n) /\ Cardinality(1..n) = n
    <3>1. 1 \in Int /\ n \in Int
      OBVIOUS
    <3>2. IsFiniteSet(1..n) /\ Cardinality(1..n) = IF 1 > n THEN 0 ELSE n - 1 + 1
      BY <3>1, FS_Interval, Zenon
    <3>. QED
      BY <3>2
  <2>2. 2 \in Nat /\ Len(list) \in Nat
    OBVIOUS
  <2>. QED
    BY <2>1, <2>2, Zenon
<1>5. /\ IsFiniteSet(Agent \X (1..2))
      /\ Cardinality(Agent \X (1..2)) = Cardinality(Agent) * 2
  BY <1>4, AgentsAreFinite, FS_Product
<1>6. Len(list) <= Cardinality(Agent) * 2
  <2>. HIDE DEF f
  <2>. QED BY <1>3, <1>4, <1>5, FS_Injection
<1>. QED
  BY <1>6, AgentsAreFinite, FS_CardinalityType
-----------------------------------------------------------------------------
(* Reindex: what a registration with a card and a cleanup do to the lists.  *)

\* Each skill's list after Reindex.
LEMMA ReindexedLists ==
    ASSUME TypeOK, NEW a \in Agent, NEW c \in Card, Reindex(a, c), NEW s \in Skill
    PROVE  /\ skillsIndex'[s] \in Seq(Agent)
           /\ \A b : Times(skillsIndex'[s], b) = IF b = a THEN Ways(c, s) ELSE Times(skillsIndex[s], b)
           /\ ToSet(skillsIndex'[s]) = (ToSet(skillsIndex[s]) \ {a})
                                          \cup (IF s \in c.skills \cup c.legacyCaps THEN {a} ELSE {})
<1>1. skillsIndex'[s] = Without(skillsIndex[s], a) \o Entries(a, c, s)
  BY DEF Reindex
<1>2. skillsIndex[s] \in Seq(Agent)
  BY DEF TypeOK
<1>. QED
  BY <1>1, <1>2, RelistedTimes, RelistedSet

\* Reindex keeps the types of what it changes.
LEMMA ReindexTypes ==
    ASSUME TypeOK, NEW a \in Agent, NEW c \in Card, Reindex(a, c)
    PROVE  /\ agents' \in [Agent -> Card]
           /\ skillsIndex' \in [Skill -> Seq(Agent)]
           /\ waited' \in [Skill -> [Agent -> Nat]]
<1>1. agents' \in [Agent -> Card]
  BY DEF Reindex, TypeOK
<1>2. skillsIndex' \in [Skill -> Seq(Agent)]
  <2>1. \A s \in Skill : skillsIndex'[s] \in Seq(Agent)
    BY ReindexedLists
  <2>2. skillsIndex' = [s \in Skill |-> skillsIndex'[s]]
    BY DEF Reindex
  <2>. QED
    BY <2>1, <2>2
<1>3. waited' \in [Skill -> [Agent -> Nat]]
  BY DEF Reindex, TypeOK
<1>. QED
  BY <1>1, <1>2, <1>3

\* Cards and lists change together.
LEMMA ReindexExact ==
    ASSUME TypeOK, IndexIsExact, NEW a \in Agent, NEW c \in Card, Reindex(a, c)
    PROVE  IndexIsExact'
<1>1. ASSUME NEW b \in Agent, NEW s \in Skill
      PROVE  Times(skillsIndex'[s], b) = Ways(agents'[b], s)
  <2>1. agents'[b] = IF b = a THEN c ELSE agents[b]
    BY DEF Reindex, TypeOK
  <2>2. Times(skillsIndex[s], b) = Ways(agents[b], s)
    BY DEF IndexIsExact, Listed
  <2>3. Times(skillsIndex'[s], b) = IF b = a THEN Ways(c, s) ELSE Times(skillsIndex[s], b)
    BY ReindexedLists
  <2>. QED
    BY <2>1, <2>2, <2>3
<1>. QED
  BY <1>1 DEF IndexIsExact, Listed

-----------------------------------------------------------------------------
(* FindAgentBySkill: the position, and the one after it.                    *)

\* No list is longer than all agents, named twice each.
LEMMA ListLength ==
    ASSUME TypeOK, IndexIsExact, NEW s \in Skill
    PROVE  Len(skillsIndex[s]) <= 2 * Cardinality(Agent)
<1>1. skillsIndex[s] \in Seq(Agent)
  BY DEF TypeOK
<1>2. ASSUME NEW b \in Agent PROVE Times(skillsIndex[s], b) <= 2
  <2>1. Times(skillsIndex[s], b) = Ways(agents[b], s) /\ agents[b] \in Card
    BY DEF IndexIsExact, Listed, TypeOK
  <2>. QED
    BY <2>1, WaysCount
<1>. QED
  BY <1>1, <1>2, LengthBound

\* The position that FindAgentBySkill uses is one of the list.
LEMMA PositionOnList ==
    ASSUME TypeOK, NEW s \in Skill, skillsIndex[s] # <<>>
    PROVE  /\ Len(skillsIndex[s]) \in Nat \ {0}
           /\ Position(s) \in 0..(Len(skillsIndex[s]) - 1)
<1>1. skillsIndex[s] \in Seq(Agent) /\ skillRR[s] \in Nat
  BY DEF TypeOK
<1>2. Len(skillsIndex[s]) \in Nat \ {0}
  BY <1>1
<1>. QED
  BY <1>1, <1>2 DEF Position

\* The next position, without the modulus.
LEMMA NextPosition ==
    ASSUME TypeOK, NEW s \in Skill, skillsIndex[s] # <<>>, FindAgentBySkill(s)
    PROVE  LET next == IF Position(s) + 1 = Len(skillsIndex[s]) THEN 0 ELSE Position(s) + 1
           IN  /\ next \in 0..(Len(skillsIndex[s]) - 1)
               /\ skillRR' = [skillRR EXCEPT ![s] = next]
<1>1. /\ Len(skillsIndex[s]) \in Nat \ {0}
      /\ Position(s) \in 0..(Len(skillsIndex[s]) - 1)
  BY PositionOnList
<1>2. skillRR' = [skillRR EXCEPT ![s] = (Position(s) + 1) % Len(skillsIndex[s])]
  BY DEF FindAgentBySkill, Picks
<1>3. ASSUME NEW n \in Nat \ {0}, NEW p \in 0..(n - 1)
      PROVE  (p + 1) % n = IF p + 1 = n THEN 0 ELSE p + 1
  OBVIOUS
<1>4. (Position(s) + 1) % Len(skillsIndex[s])
         = IF Position(s) + 1 = Len(skillsIndex[s]) THEN 0 ELSE Position(s) + 1
  BY <1>1, <1>3
<1>5. skillRR' = [skillRR EXCEPT ![s] = IF Position(s) + 1 = Len(skillsIndex[s])
                                        THEN 0 ELSE Position(s) + 1]
  BY <1>2, <1>4, Zenon
<1>6. (IF Position(s) + 1 = Len(skillsIndex[s]) THEN 0 ELSE Position(s) + 1)
         \in 0..(Len(skillsIndex[s]) - 1)
  BY <1>1
<1>. QED
  BY <1>5, <1>6, Zenon

\* A pick keeps the types of what it changes.
LEMMA FindTypes ==
    ASSUME TypeOK, IndexIsExact, NEW s \in Skill, skillsIndex[s] # <<>>, FindAgentBySkill(s)
    PROVE  /\ skillRR' \in [Skill -> {0} \cup 1..(2 * Cardinality(Agent) - 1)]
           /\ waited' \in [Skill -> [Agent -> Nat]]
<1>1. waited' \in [Skill -> [Agent -> Nat]]
  BY DEF FindAgentBySkill, Picks, TypeOK
<1>2. PICK n \in 0..(Len(skillsIndex[s]) - 1) : skillRR' = [skillRR EXCEPT ![s] = n]
  BY NextPosition
<1>3. Len(skillsIndex[s]) \in Nat /\ Cardinality(Agent) \in Nat
  BY PositionOnList, AgentsAreFinite, FS_CardinalityType
<1>4. n \in {0} \cup 1..(2 * Cardinality(Agent) - 1)
  BY <1>3, ListLength
<1>5. skillRR \in [Skill -> {0} \cup 1..(2 * Cardinality(Agent) - 1)]
  BY DEF TypeOK
<1>. QED
  BY <1>1, <1>2, <1>4, <1>5

-----------------------------------------------------------------------------
(* StaySteady: what registrations and cleanups do to the lookups.           *)

\* The fields of a lookup of which only some steady agents remain.
LEMMA Steadied ==
    ASSUME NEW l \in Lookup, NEW X
    PROVE  LET m == [l EXCEPT !.steady = @ \cap X]
           IN  /\ m \in Lookup /\ m # NoLookup
               /\ m.skill = l.skill /\ m.at = l.at /\ m.steady = l.steady \cap X
BY DEF Lookup, NoLookup

\* What remains of the steady agents of a lookup of s when a registers o.
Staying(a, o, s) ==
    IF s \in o.tools THEN {a} ELSE IF Lists(o, s) THEN Agent ELSE Agent \ {a}

\* The lookups after a registration.
LEMMA SteadyAtRegistration ==
    ASSUME NEW c, NEW a, NEW o, RegisterState(c, a, o)
    PROVE  /\ lookup' = [k \in Caller |-> lookup'[k]]
           /\ \A k \in Caller : lookup'[k] =
                  IF lookup[k] = NoLookup THEN NoLookup
                  ELSE [lookup[k] EXCEPT !.steady = @ \cap Staying(a, o, lookup[k].skill)]
BY DEF RegisterState, StaySteady, Staying

\* The lookups after a cleanup has begun.
LEMMA SteadyAtCleanup ==
    ASSUME NEW c, CleanState(c)
    PROVE  /\ lookup' = [k \in Caller |-> lookup'[k]]
           /\ \A k \in Caller : lookup'[k] =
                  IF lookup[k] = NoLookup THEN NoLookup
                  ELSE [lookup[k] EXCEPT !.steady = @ \cap (Agent \ {ident[c]})]
BY DEF CleanState, StaySteady

\* A lookup that keeps its skill and place is one still.
LEMMA StaySteadyTypes ==
    ASSUME TypeOK,
           lookup' = [k \in Caller |-> lookup'[k]],
           \A k \in Caller : IF lookup[k] = NoLookup THEN lookup'[k] = NoLookup
                             ELSE \E X : lookup'[k] = [lookup[k] EXCEPT !.steady = @ \cap X]
    PROVE  lookup' \in [Caller -> Lookup \cup {NoLookup}]
<1>1. ASSUME NEW k \in Caller PROVE lookup'[k] \in Lookup \cup {NoLookup}
  <2>1. CASE lookup[k] = NoLookup
    BY <2>1
  <2>2. CASE lookup[k] # NoLookup
    <3>1. lookup[k] \in Lookup /\ \E X : lookup'[k] = [lookup[k] EXCEPT !.steady = @ \cap X]
      BY <2>2 DEF TypeOK
    <3>. QED
      BY <3>1, Steadied
  <2>. QED
    BY <2>1, <2>2
<1>. QED
  BY <1>1

\* Who registers or cleans up has an id, and what is given to Reindex are cards.
LEMMA CardOffered ==
    ASSUME TypeOK, NEW c \in Conn
    PROVE  /\ at[c] # "away" => ident[c] \in Agent
           /\ CardOf(offer[c]) \in Card
           /\ NoCard \in Card
BY DEF TypeOK, Card, NoCard, CardOf

\* What the actions do, as the proofs use it.
LEMMA Registers ==
    ASSUME NEW c \in Conn, NEW a \in Agent, NEW o, RegisterState(c, a, o)
    PROVE  /\ at[c] \in {"away", "serving"} /\ at' = [at EXCEPT ![c] = "conn"]
           /\ ident' = [ident EXCEPT ![c] = a]
           /\ left' = (IF ident[c] = NoAgent THEN left ELSE left \cup {ident[c]}) \ {a}
           /\ offer' = [offer EXCEPT ![c] = o]
           /\ tools' = [s \in Skill |-> IF s \in o.tools THEN a ELSE tools[s]]
           /\ UNCHANGED <<agentConns, agents, skillsIndex, waited, skillRR, overtaken>>
BY DEF RegisterState, Step, TakeId, index

LEMMA RegistersConn ==
    ASSUME NEW c \in Conn, RegisterAgentConn(c)
    PROVE  /\ at[c] = "conn" /\ at' = [at EXCEPT ![c] = "card"]
           /\ agentConns' = agentConns \cup {ident[c]} /\ overtaken' = overtaken \ {ident[c]}
           /\ UNCHANGED <<ident, offer, tools, agents, skillsIndex, waited, skillRR, lookup, left>>
BY DEF RegisterAgentConn, Step, index

LEMMA RegistersCard ==
    ASSUME NEW c \in Conn, RegisterAgentCard(c)
    PROVE  /\ at[c] = "card" /\ at' = [at EXCEPT ![c] = "serving"]
           /\ offer' = [offer EXCEPT ![c] = NoOffer]
           /\ offer[c].card => Reindex(ident[c], CardOf(offer[c]))
           /\ ~offer[c].card => UNCHANGED <<agents, skillsIndex, waited>>
           /\ UNCHANGED <<ident, tools, agentConns, skillRR, lookup, left, overtaken>>
BY DEF RegisterAgentCard, Step, index

LEMMA Cleans ==
    ASSUME NEW c \in Conn, CleanState(c)
    PROVE  /\ at[c] = "serving" /\ at' = [at EXCEPT ![c] = "leaving"]
           /\ tools' = [s \in Skill |-> IF tools[s] = ident[c] THEN NoAgent ELSE tools[s]]
           /\ left' = left \ {ident[c]}
           /\ UNCHANGED <<ident, offer, agentConns, agents, skillsIndex, waited, skillRR, overtaken>>
BY DEF CleanState, Step, index

LEMMA Unregisters ==
    ASSUME NEW c \in Conn, UnregisterAgent(c)
    PROVE  /\ at[c] = "leaving" /\ at' = [at EXCEPT ![c] = "away"]
           /\ ident' = [ident EXCEPT ![c] = NoAgent]
           /\ agentConns' = agentConns \ {ident[c]}
           /\ overtaken' = IF Overtakes(c) THEN overtaken \cup {ident[c]}
                                            ELSE overtaken \ {ident[c]}
           /\ Reindex(ident[c], NoCard)
           /\ UNCHANGED <<offer, tools, skillRR, lookup, left>>
BY DEF UnregisterAgent, Step

\* Types are kept; the round-robin positions because no list is longer than
\* IndexIsExact allows.
LEMMA TypeStep ==
    ASSUME TypeOK, IndexIsExact, [Next]_vars
    PROVE  TypeOK'
<1>1. ASSUME NEW c \in Conn, NEW a \in Agent, NEW o \in Offer, RegisterState(c, a, o)
      PROVE  TypeOK'
  <2>1. lookup' \in [Caller -> Lookup \cup {NoLookup}]
    <3>1. /\ lookup' = [k \in Caller |-> lookup'[k]]
          /\ \A k \in Caller : IF lookup[k] = NoLookup THEN lookup'[k] = NoLookup
                               ELSE \E X : lookup'[k] = [lookup[k] EXCEPT !.steady = @ \cap X]
      BY <1>1, SteadyAtRegistration
    <3>. QED
      BY <3>1, StaySteadyTypes
  <2>2. o \in [tools : SUBSET Skill, card : BOOLEAN, skills : SUBSET Skill, legacyCaps : SUBSET Skill]
    BY OffersAreOfSkills
  <2>3. /\ offer' = [offer EXCEPT ![c] = o]
        /\ tools' = [s \in Skill |-> IF s \in o.tools THEN a ELSE tools[s]]
        /\ UNCHANGED <<agentConns, agents, skillsIndex, skillRR, waited, overtaken>>
    BY <1>1, Registers
  <2>4. /\ at' \in [Conn -> {"away", "conn", "card", "serving", "leaving"}]
        /\ ident' \in [Conn -> Agent \cup {NoAgent}]
        /\ \A d \in Conn : at'[d] = "away" <=> ident'[d] = NoAgent
        /\ left' \subseteq Agent
    <3>1. /\ at' = [at EXCEPT ![c] = "conn"] /\ ident' = [ident EXCEPT ![c] = a]
          /\ left' = (IF ident[c] = NoAgent THEN left ELSE left \cup {ident[c]}) \ {a}
          /\ a # NoAgent
      BY <1>1, Registers, NoAgentIsNoOne
    <3>2. left' \subseteq Agent
      BY <3>1 DEF TypeOK
    <3>3. \A d \in Conn : at'[d] = "away" <=> ident'[d] = NoAgent
      BY <3>1 DEF TypeOK
    <3>. QED
      BY <3>1, <3>2, <3>3 DEF TypeOK
  <2>. QED
    BY <2>1, <2>2, <2>3, <2>4 DEF TypeOK
<1>2. ASSUME NEW c \in Conn, RegisterAgentConn(c) PROVE TypeOK'
  <2>1. ident[c] \in Agent
    BY <1>2, RegistersConn, CardOffered
  <2>2. /\ at' \in [Conn -> {"away", "conn", "card", "serving", "leaving"}]
        /\ ident' \in [Conn -> Agent \cup {NoAgent}]
        /\ \A d \in Conn : at'[d] = "away" <=> ident'[d] = NoAgent
    BY <1>2, RegistersConn, <2>1, NoAgentIsNoOne DEF TypeOK
  <2>. QED
    BY <1>2, <2>1, <2>2, RegistersConn DEF TypeOK
<1>3. ASSUME NEW c \in Conn, RegisterAgentCard(c) PROVE TypeOK'
  <2>. DEFINE new == CardOf(offer[c])
  <2>1. new \in Card /\ ident[c] \in Agent
    BY <1>3, RegistersCard, CardOffered
  <2>2. /\ UNCHANGED <<tools, agentConns, skillRR, lookup, left, overtaken>>
        /\ Reindex(ident[c], new) \/ UNCHANGED <<agents, skillsIndex, waited>>
    BY <1>3, RegistersCard
  <2>. HIDE DEF new
  <2>3. /\ agents' \in [Agent -> Card]
        /\ skillsIndex' \in [Skill -> Seq(Agent)]
        /\ waited' \in [Skill -> [Agent -> Nat]]
    <3>1. CASE Reindex(ident[c], new)
      BY <2>1, <3>1, ReindexTypes
    <3>2. CASE UNCHANGED <<agents, skillsIndex, waited>>
      BY <3>2 DEF TypeOK
    <3>. QED
      BY <2>2, <3>1, <3>2
  <2>4. /\ at' \in [Conn -> {"away", "conn", "card", "serving", "leaving"}]
        /\ ident' \in [Conn -> Agent \cup {NoAgent}]
        /\ \A d \in Conn : at'[d] = "away" <=> ident'[d] = NoAgent
        /\ offer' = [offer EXCEPT ![c] = NoOffer]
    BY <1>3, RegistersCard, <2>1, NoAgentIsNoOne DEF TypeOK
  <2>. QED
    BY <2>2, <2>3, <2>4 DEF TypeOK, NoOffer
<1>4. ASSUME NEW c \in Conn, CleanState(c) PROVE TypeOK'
  <2>1. lookup' \in [Caller -> Lookup \cup {NoLookup}]
    <3>1. /\ lookup' = [k \in Caller |-> lookup'[k]]
          /\ \A k \in Caller : IF lookup[k] = NoLookup THEN lookup'[k] = NoLookup
                               ELSE \E X : lookup'[k] = [lookup[k] EXCEPT !.steady = @ \cap X]
      BY <1>4, SteadyAtCleanup
    <3>. QED
      BY <3>1, StaySteadyTypes
  <2>2. /\ at' \in [Conn -> {"away", "conn", "card", "serving", "leaving"}]
        /\ ident' \in [Conn -> Agent \cup {NoAgent}]
        /\ \A d \in Conn : at'[d] = "away" <=> ident'[d] = NoAgent
    BY <1>4, Cleans DEF TypeOK
  <2>. QED
    BY <1>4, <2>1, <2>2, Cleans DEF TypeOK
<1>5. ASSUME NEW c \in Conn, UnregisterAgent(c) PROVE TypeOK'
  <2>1. ident[c] \in Agent /\ NoCard \in Card
    BY <1>5, Unregisters, CardOffered
  <2>2. /\ agents' \in [Agent -> Card]
        /\ skillsIndex' \in [Skill -> Seq(Agent)]
        /\ waited' \in [Skill -> [Agent -> Nat]]
    BY <1>5, <2>1, Unregisters, ReindexTypes
  <2>3. /\ at' \in [Conn -> {"away", "conn", "card", "serving", "leaving"}]
        /\ ident' \in [Conn -> Agent \cup {NoAgent}]
        /\ \A d \in Conn : at'[d] = "away" <=> ident'[d] = NoAgent
    BY <1>5, Unregisters DEF TypeOK
  <2>4. agentConns' \subseteq Agent /\ overtaken' \subseteq Agent
    BY <1>5, <2>1, Unregisters DEF TypeOK
  <2>5. UNCHANGED <<offer, tools, skillRR, lookup, left>>
    BY <1>5, Unregisters
  <2>. QED
    BY <2>2, <2>3, <2>4, <2>5 DEF TypeOK
<1>6. ASSUME NEW k \in Caller, NEW s \in Skill, ReadCall(k, s) PROVE TypeOK'
  <2>1. [skill |-> s, at |-> "index", steady |-> Having(s)] \in Lookup
    BY DEF Lookup, Having
  <2>. QED
    BY <1>6, <2>1 DEF ReadCall, TypeOK, index
<1>7. ASSUME NEW k \in Caller, LookIntoIndex(k) PROVE TypeOK'
  <2>. DEFINE s == lookup[k].skill
  <2>1. lookup[k] \in Lookup
    BY <1>7 DEF LookIntoIndex, TypeOK, NoLookup
  <2>2. s \in Skill
    BY <2>1 DEF Lookup
  <2>3. UNCHANGED <<at, ident, offer, tools, agentConns, agents, skillsIndex, left, overtaken>>
    BY <1>7 DEF LookIntoIndex
  <2>4. /\ skillRR' \in [Skill -> {0} \cup 1..(2 * Cardinality(Agent) - 1)]
        /\ waited' \in [Skill -> [Agent -> Nat]]
    <3>1. CASE skillsIndex[s] # <<>>
      <4>1. FindAgentBySkill(s)
        BY <1>7, <3>1 DEF LookIntoIndex
      <4>. QED
        BY <2>2, <3>1, <4>1, FindTypes
    <3>2. CASE skillsIndex[s] = <<>>
      <4>1. UNCHANGED <<skillRR, waited>>
        BY <1>7, <3>2 DEF LookIntoIndex
      <4>. QED
        BY <4>1 DEF TypeOK
    <3>. QED
      BY <3>1, <3>2
  <2>5. lookup' \in [Caller -> Lookup \cup {NoLookup}]
    <3>1. [lookup[k] EXCEPT !.at = "tools"] \in Lookup
      BY <2>1 DEF Lookup
    <3>2. \/ lookup' = [lookup EXCEPT ![k] = NoLookup]
          \/ lookup' = [lookup EXCEPT ![k] = [lookup[k] EXCEPT !.at = "tools"]]
      BY <1>7 DEF LookIntoIndex, TypeOK
    <3>. QED
      BY <3>1, <3>2 DEF TypeOK
  <2>. QED
    BY <2>3, <2>4, <2>5 DEF TypeOK
<1>8. ASSUME NEW k \in Caller, LookIntoTools(k) PROVE TypeOK'
  <2>. DEFINE l == lookup[k]
  <2>0. l \in Lookup
    BY <1>8 DEF LookIntoTools, TypeOK, NoLookup
  <2>1. [l EXCEPT !.at = "missed"] \in Lookup
    BY <2>0 DEF Lookup
  <2>2. \/ lookup' = [lookup EXCEPT ![k] = NoLookup]
        \/ lookup' = [lookup EXCEPT ![k] = [lookup[k] EXCEPT !.at = "missed"]]
    BY <1>8 DEF LookIntoTools, TypeOK
  <2>3. lookup' \in [Caller -> Lookup \cup {NoLookup}]
    BY <2>1, <2>2 DEF TypeOK
  <2>. QED
    BY <1>8, <2>3 DEF LookIntoTools, TypeOK, index
<1>9. ASSUME NEW k \in Caller, RefuseCall(k) PROVE TypeOK'
  BY <1>9 DEF RefuseCall, TypeOK, index
<1>10. CASE UNCHANGED vars
  BY <1>10 DEF vars, index, TypeOK
<1>. QED
  BY <1>1, <1>2, <1>3, <1>4, <1>5, <1>6, <1>7, <1>8, <1>9, <1>10 DEF Next

-----------------------------------------------------------------------------
(* The index and the stored cards.                                          *)

\* The index changes only with a stored card, in the same critical section.
LEMMA IndexChanges ==
    ASSUME TypeOK, [Next]_vars
    PROVE  \/ UNCHANGED <<agents, skillsIndex>>
           \/ /\ \E a \in Agent, c \in Card : Reindex(a, c)
              /\ UNCHANGED skillRR
<1>1. ASSUME NEW c \in Conn, RegisterAgentCard(c)
      PROVE  \/ UNCHANGED <<agents, skillsIndex>>
             \/ /\ \E a \in Agent, card \in Card : Reindex(a, card)
                /\ UNCHANGED skillRR
  <2>1. ident[c] \in Agent /\ CardOf(offer[c]) \in Card
    BY <1>1, RegistersCard, CardOffered
  <2>. QED
    BY <1>1, <2>1, RegistersCard
<1>2. ASSUME NEW c \in Conn, UnregisterAgent(c)
      PROVE  /\ \E a \in Agent, card \in Card : Reindex(a, card)
             /\ UNCHANGED skillRR
  <2>1. ident[c] \in Agent /\ NoCard \in Card
    BY <1>2, Unregisters, CardOffered
  <2>. QED
    BY <1>2, <2>1, Unregisters
<1>. QED
  BY <1>1, <1>2 DEF Next, RegisterState, RegisterAgentConn, CleanState, ReadCall,
                    LookIntoIndex, LookIntoTools, RefuseCall, vars, index

\* IndexIsExact is inductive.
LEMMA IndexStep ==
    ASSUME TypeOK, IndexIsExact, [Next]_vars
    PROVE  IndexIsExact'
<1>1. CASE UNCHANGED <<agents, skillsIndex>>
  BY <1>1 DEF IndexIsExact, Listed
<1>2. CASE \E a \in Agent, c \in Card : Reindex(a, c)
  BY <1>2, ReindexExact
<1>. QED
  BY <1>1, <1>2, IndexChanges

-----------------------------------------------------------------------------
(* The index and the channels.                                              *)

\* A registration that comes to its card has its channel in the store, unless
\* another connection took it out.
LEMMA CardLastStep ==
    ASSUME TypeOK, CardComesLast, [Next]_vars
    PROVE  CardComesLast'
<1>1. ASSUME NEW c \in Conn, NEW a \in Agent, NEW o \in Offer, RegisterState(c, a, o)
      PROVE  CardComesLast'
  BY <1>1, Registers DEF CardComesLast, TypeOK
<1>2. ASSUME NEW c \in Conn, RegisterAgentConn(c) PROVE CardComesLast'
  BY <1>2, RegistersConn DEF CardComesLast, TypeOK
<1>3. ASSUME NEW c \in Conn, RegisterAgentCard(c) PROVE CardComesLast'
  BY <1>3, RegistersCard DEF CardComesLast, TypeOK
<1>4. ASSUME NEW c \in Conn, CleanState(c) PROVE CardComesLast'
  BY <1>4, Cleans DEF CardComesLast, TypeOK
<1>5. ASSUME NEW c \in Conn, UnregisterAgent(c) PROVE CardComesLast'
  <2>1. SUFFICES ASSUME NEW d \in Conn, at'[d] = "card"
                 PROVE  ident'[d] \in agentConns' \cup overtaken'
    BY DEF CardComesLast
  <2>2. d # c /\ at[d] = "card" /\ ident'[d] = ident[d]
    BY <1>5, <2>1, Unregisters DEF TypeOK
  <2>3. ident[d] \in agentConns \cup overtaken
    BY <2>2 DEF CardComesLast
  <2>4. CASE ident[d] = ident[c]
    <3>1. Overtakes(c)
      BY <2>2, <2>4 DEF Overtakes
    <3>. QED
      BY <1>5, <2>2, <2>4, <3>1, Unregisters
  <2>5. CASE ident[d] # ident[c]
    BY <1>5, <2>2, <2>3, <2>5, Unregisters
  <2>. QED
    BY <2>4, <2>5
<1>6. CASE UNCHANGED <<at, ident, agentConns, overtaken>>
  BY <1>6 DEF CardComesLast
<1>. QED
  BY <1>1, <1>2, <1>3, <1>4, <1>5, <1>6
     DEF Next, ReadCall, LookIntoIndex, LookIntoTools, RefuseCall, vars

\* What is listed has a channel, or had one taken from under its registration.
LEMMA ReachableStep ==
    ASSUME TypeOK, CardComesLast, ListedIsReachable, [Next]_vars
    PROVE  ListedIsReachable'
<1>1. ASSUME NEW c \in Conn, RegisterAgentCard(c) PROVE ListedIsReachable'
  \* Its channel has been registered before its card.
  <2>. DEFINE new == CardOf(offer[c])
              a   == ident[c]
  <2>1. a \in agentConns \cup overtaken /\ UNCHANGED <<agentConns, overtaken>>
    BY <1>1, RegistersCard DEF CardComesLast
  <2>2. new \in Card /\ a \in Agent
    BY <1>1, RegistersCard, CardOffered
  <2>3. Reindex(a, new) \/ UNCHANGED skillsIndex
    BY <1>1, RegistersCard
  <2>. HIDE DEF new, a
  <2>4. ASSUME Reindex(a, new), NEW s \in Skill
        PROVE  ToSet(skillsIndex'[s]) \subseteq ToSet(skillsIndex[s]) \cup {a}
    BY <2>2, <2>4, ReindexedLists
  <2>. QED
    BY <2>1, <2>3, <2>4 DEF ListedIsReachable
<1>2. ASSUME NEW c \in Conn, UnregisterAgent(c) PROVE ListedIsReachable'
  \* The lists lose it in the critical section in which its channel goes.
  <2>. DEFINE a == ident[c]
  <2>1. /\ agentConns' = agentConns \ {a} /\ overtaken \ {a} \subseteq overtaken'
        /\ Reindex(a, NoCard)
    BY <1>2, Unregisters
  <2>2. a \in Agent /\ NoCard \in Card
    BY <1>2, Unregisters, CardOffered
  <2>. HIDE DEF a
  <2>3. ASSUME NEW s \in Skill PROVE ToSet(skillsIndex'[s]) = ToSet(skillsIndex[s]) \ {a}
    <3>1. s \notin NoCard.skills \cup NoCard.legacyCaps
      BY DEF NoCard
    <3>2. ToSet(skillsIndex'[s]) = (ToSet(skillsIndex[s]) \ {a})
                \cup (IF s \in NoCard.skills \cup NoCard.legacyCaps THEN {a} ELSE {})
      BY <2>1, <2>2, ReindexedLists, Zenon
    <3>. QED
      BY <3>1, <3>2
  <2>. QED
    BY <2>1, <2>3 DEF ListedIsReachable
<1>3. ASSUME NEW c \in Conn, RegisterAgentConn(c) PROVE ListedIsReachable'
  BY <1>3, RegistersConn DEF ListedIsReachable
<1>4. CASE UNCHANGED <<skillsIndex, agentConns, overtaken>>
  BY <1>4 DEF ListedIsReachable
<1>. QED
  BY <1>1, <1>2, <1>3, <1>4
     DEF Next, RegisterState, CleanState, ReadCall, LookIntoIndex, LookIntoTools, RefuseCall,
         vars, index

-----------------------------------------------------------------------------
(* Turns.                                                                   *)

\* A changed list starts the counting anew, an unchanged one keeps position and count.
LEMMA TurnsAfterReindex ==
    ASSUME TypeOK, TurnsAreAhead, NEW a \in Agent, NEW c \in Card, Reindex(a, c),
           UNCHANGED skillRR
    PROVE  TurnsAreAhead'
<1>. SUFFICES ASSUME NEW s \in Skill, NEW b \in ToSet(skillsIndex'[s])
              PROVE  \E i \in 0..(Len(skillsIndex'[s]) - 1) :
                         /\ skillsIndex'[s][i + 1] = b
                         /\ waited'[s][b] + Until(s, i)' < Len(skillsIndex'[s])
  BY DEF TurnsAreAhead
<1>1. skillsIndex[s] \in Seq(Agent) /\ skillsIndex'[s] \in Seq(Agent) /\ skillRR[s] \in Nat
  BY ReindexTypes DEF TypeOK
<1>2. waited'[s] = IF skillsIndex'[s] = skillsIndex[s] THEN waited[s] ELSE [d \in Agent |-> 0]
  BY DEF Reindex
<1>3. CASE skillsIndex'[s] = skillsIndex[s]
  <2>1. PICK i \in 0..(Len(skillsIndex[s]) - 1) :
              /\ skillsIndex[s][i + 1] = b
              /\ waited[s][b] + Until(s, i) < Len(skillsIndex[s])
    BY <1>3 DEF TurnsAreAhead
  <2>2. Until(s, i)' = Until(s, i)
    BY <1>3 DEF Until, Position
  <2>3. waited'[s][b] = waited[s][b]
    BY <1>2, <1>3
  <2>. QED
    BY <1>3, <2>1, <2>2, <2>3
<1>4. CASE skillsIndex'[s] # skillsIndex[s]
  \* Nobody has waited on a list that has just been made.
  <2>1. PICK i \in 0..(Len(skillsIndex'[s]) - 1) : skillsIndex'[s][i + 1] = b
    <3>1. PICK j \in DOMAIN skillsIndex'[s] : skillsIndex'[s][j] = b
      BY DEF ToSet
    <3>2. j - 1 \in 0..(Len(skillsIndex'[s]) - 1) /\ (j - 1) + 1 = j
      BY <1>1
    <3>. QED
      BY <3>1, <3>2
  <2>2. Position(s)' \in 0..(Len(skillsIndex'[s]) - 1)
    <3>1. Len(skillsIndex'[s]) \in Nat /\ Len(skillsIndex'[s]) > 0
      BY <1>1, <2>1
    <3>. QED
      BY <1>1, <3>1 DEF Position
  <2>3. Until(s, i)' < Len(skillsIndex'[s]) /\ Until(s, i)' \in Nat
    BY <1>1, <2>1, <2>2 DEF Until
  <2>4. b \in Agent
    BY <1>1 DEF ToSet
  <2>5. waited'[s][b] = 0
    BY <1>2, <1>4, <2>4
  <2>. QED
    BY <2>1, <2>3, <2>5
<1>. QED
  BY <1>3, <1>4

\* A place that is not picked is one pick nearer.
LEMMA PlaceComesNearer ==
    ASSUME NEW n \in Nat \ {0}, NEW p \in 0..(n - 1), NEW i \in 0..(n - 1), i # p
    PROVE  LET next == IF p + 1 = n THEN 0 ELSE p + 1
               From(q) == IF i >= q THEN i - q ELSE i + n - q
           IN  From(next) = From(p) - 1
OBVIOUS

\* Each pick that is not the agent's brings its place one nearer, as its wait grows by one.
LEMMA TurnsAfterPick ==
    ASSUME TypeOK, TurnsAreAhead, NEW s \in Skill, skillsIndex[s] # <<>>, FindAgentBySkill(s),
           UNCHANGED skillsIndex
    PROVE  TurnsAreAhead'
<1>. DEFINE list == skillsIndex[s]
            n == Len(list)
            p == Position(s)
            next == IF p + 1 = n THEN 0 ELSE p + 1
<1>1. n \in Nat \ {0} /\ p \in 0..(n - 1)
  BY PositionOnList
<1>2. next \in 0..(n - 1) /\ skillRR' = [skillRR EXCEPT ![s] = next]
  BY NextPosition
<1>3. waited' = [waited EXCEPT ![s] = [b \in Agent |->
         IF b = Picked(s) \/ b \notin ToSet(list) THEN 0 ELSE @[b] + 1]]
  BY DEF FindAgentBySkill, Picks
<1>4. Position(s)' = next
  BY <1>1, <1>2 DEF Position, TypeOK
<1>5. ASSUME NEW t \in Skill, NEW b \in ToSet(skillsIndex[t])
      PROVE  \E i \in 0..(Len(skillsIndex[t]) - 1) :
                 /\ skillsIndex[t][i + 1] = b
                 /\ waited'[t][b] + Until(t, i)' < Len(skillsIndex[t])
  <2>1. PICK i \in 0..(Len(skillsIndex[t]) - 1) :
              /\ skillsIndex[t][i + 1] = b
              /\ waited[t][b] + Until(t, i) < Len(skillsIndex[t])
    BY DEF TurnsAreAhead
  <2>2. CASE t # s
    <3>1. Until(t, i)' = Until(t, i)
      BY <1>2, <2>2 DEF Until, Position
    <3>2. waited'[t] = waited[t]
      BY <1>3, <2>2
    <3>. QED
      BY <2>1, <3>1, <3>2
  <2>3. CASE t = s /\ b = Picked(s)
    <3>1. b \in Agent
      BY <2>3 DEF ToSet, TypeOK
    <3>2. waited'[t][b] = 0
      BY <1>3, <2>3, <3>1 DEF TypeOK
    <3>3. Until(t, i)' < n
      BY <1>1, <1>2, <1>4, <2>1, <2>3 DEF Until
    <3>4. Until(t, i)' \in Nat
      BY <1>1, <1>2, <1>4, <2>1, <2>3 DEF Until
    <3>. QED
      BY <2>1, <2>3, <3>2, <3>3, <3>4
  <2>4. CASE t = s /\ b # Picked(s)
    <3>1. b \in Agent
      BY <2>4 DEF ToSet, TypeOK
    <3>2. waited'[s][b] = waited[s][b] + 1 /\ waited[s][b] \in Nat
      BY <1>3, <2>4, <3>1 DEF TypeOK
    <3>3. i # p /\ i \in 0..(n - 1)
      BY <2>1, <2>4 DEF Picked
    <3>4. Until(s, i) = IF i >= p THEN i - p ELSE i + n - p
      BY DEF Until
    <3>5. Until(s, i)' = IF i >= next THEN i - next ELSE i + n - next
      BY <1>4 DEF Until
    <3>6. Until(s, i)' = Until(s, i) - 1 /\ Until(s, i) \in Nat
      <4>. HIDE DEF n, p
      <4>. QED BY <1>1, <3>3, <3>4, <3>5, PlaceComesNearer
    <3>. QED
      BY <2>1, <2>4, <3>2, <3>6
  <2>. QED
    BY <2>2, <2>3, <2>4
<1>. QED
  BY <1>5 DEF TurnsAreAhead

\* TurnsAreAhead is inductive.
LEMMA TurnsStep ==
    ASSUME TypeOK, TurnsAreAhead, [Next]_vars
    PROVE  TurnsAreAhead'
<1>1. CASE UNCHANGED <<skillsIndex, skillRR, waited>>
  BY <1>1 DEF TurnsAreAhead, Until, Position
<1>2. ASSUME NEW c \in Conn, RegisterAgentCard(c) PROVE TurnsAreAhead'
  <2>. DEFINE new == CardOf(offer[c])
  <2>1. new \in Card /\ ident[c] \in Agent
    BY <1>2, RegistersCard, CardOffered
  <2>2. /\ UNCHANGED skillRR
        /\ Reindex(ident[c], new) \/ UNCHANGED <<skillsIndex, waited>>
    BY <1>2, RegistersCard
  <2>. HIDE DEF new
  <2>. QED
    BY <1>1, <2>1, <2>2, TurnsAfterReindex
<1>3. ASSUME NEW c \in Conn, UnregisterAgent(c) PROVE TurnsAreAhead'
  <2>1. ident[c] \in Agent /\ NoCard \in Card
    BY <1>3, Unregisters, CardOffered
  <2>. QED
    BY <1>3, <2>1, Unregisters, TurnsAfterReindex
<1>4. ASSUME NEW k \in Caller, LookIntoIndex(k) PROVE TurnsAreAhead'
  <2>. DEFINE s == lookup[k].skill
  <2>1. s \in Skill
    BY <1>4 DEF LookIntoIndex, TypeOK, NoLookup, Lookup
  <2>2. \/ skillsIndex[s] # <<>> /\ FindAgentBySkill(s) /\ UNCHANGED skillsIndex
        \/ UNCHANGED <<skillsIndex, skillRR, waited>>
    BY <1>4 DEF LookIntoIndex
  <2>. HIDE DEF s
  <2>. QED
    BY <1>1, <2>1, <2>2, TurnsAfterPick
<1>. QED
  BY <1>1, <1>2, <1>3, <1>4
     DEF Next, RegisterState, RegisterAgentConn, CleanState, ReadCall, LookIntoTools,
         RefuseCall, vars, index

\* Who has its turn ahead has not been passed over.
LEMMA AheadIsSoon == TypeOK /\ TurnsAreAhead => EachGetsATurn
<1>. SUFFICES ASSUME TypeOK, TurnsAreAhead, NEW s \in Skill, NEW a \in ToSet(skillsIndex[s])
              PROVE  waited[s][a] < Len(skillsIndex[s])
  BY DEF EachGetsATurn
<1>1. PICK i \in 0..(Len(skillsIndex[s]) - 1) : waited[s][a] + Until(s, i) < Len(skillsIndex[s])
  BY DEF TurnsAreAhead
<1>2. skillsIndex[s] \in Seq(Agent) /\ skillsIndex[s] # <<>> /\ a \in Agent
  BY DEF TypeOK, ToSet
<1>3. Len(skillsIndex[s]) \in Nat \ {0} /\ Position(s) \in 0..(Len(skillsIndex[s]) - 1)
  BY <1>2, PositionOnList
<1>4. Until(s, i) \in Nat
  BY <1>1, <1>3 DEF Until
<1>5. waited[s][a] \in Nat
  BY <1>2 DEF TypeOK
<1>. QED
  BY <1>1, <1>3, <1>4, <1>5

-----------------------------------------------------------------------------
(* The lookups of tool calls.                                               *)

\* Who has a skill, to stay.
LEMMA HavingDef ==
    ASSUME NEW b \in Agent, NEW s
    PROVE  b \in Having(s) <=> \/ tools[s] = b
                               \/ b \in ToSet(skillsIndex[s]) /\ \A c \in Conn : ~TakesOff(c, b, s)
BY DEF Having

\* The fields of a lookup that is under way.
LEMMA LookupFields ==
    ASSUME TypeOK, NEW k \in Caller, lookup[k] # NoLookup
    PROVE  /\ lookup[k] \in Lookup
           /\ lookup[k].skill \in Skill
           /\ lookup[k].steady \subseteq Agent
BY DEF TypeOK, Lookup

\* Nobody who has a skill loses it, and no lookup has moved.
LEMMA SteadyKept ==
    ASSUME TypeOK, SteadyHaveIt, UNCHANGED <<lookup, tools>>,
           \A s \in Skill : Having(s) \subseteq Having(s)'
    PROVE  SteadyHaveIt'
<1>. SUFFICES ASSUME NEW k \in Caller, lookup[k] # NoLookup
              PROVE  /\ lookup[k].steady \subseteq Having(lookup[k].skill)'
                     /\ lookup[k].at = "tools" =>
                            \A a \in lookup[k].steady : tools[lookup[k].skill] = a
  BY DEF SteadyHaveIt
<1>1. lookup[k].skill \in Skill
  BY LookupFields
<1>. QED
  BY <1>1 DEF SteadyHaveIt

\* What a connection does not do does not take anybody off a list.
LEMMA TakesOffKept ==
    ASSUME NEW c, NEW b, NEW s, ~TakesOff(c, b, s),
           at'[c] = at[c], ident'[c] = ident[c], offer'[c] = offer[c]
    PROVE  ~TakesOff(c, b, s)'
BY DEF TakesOff, Lists

\* Who stays has the skill after the registration as well.
LEMMA RegistrationKeeps ==
    ASSUME TypeOK, NEW c \in Conn, NEW a \in Agent, NEW o \in Offer, RegisterState(c, a, o),
           NEW s \in Skill, NEW b \in Having(s), b \in Staying(a, o, s)
    PROVE  b \in Having(s)' /\ (tools[s] = b => tools'[s] = b)
<1>1. b \in Agent /\ skillsIndex' = skillsIndex
  BY Registers DEF Having
<1>2. tools'[s] = IF s \in o.tools THEN a ELSE tools[s]
  BY Registers
<1>3. CASE s \in o.tools
  <2>1. tools'[s] = b
    BY <1>2, <1>3 DEF Staying
  <2>. QED
    BY <1>1, <2>1 DEF Having
<1>4. CASE s \notin o.tools
  <2>1. ASSUME NEW d \in Conn, ~TakesOff(d, b, s) PROVE ~TakesOff(d, b, s)'
    <3>1. CASE d = c
      <4>1. at'[c] = "conn" /\ ident'[c] = a /\ offer'[c] = o
        BY Registers DEF TypeOK
      <4>2. b = a => Lists(o, s)
        BY <1>4 DEF Staying
      <4>. QED
        BY <3>1, <4>1, <4>2 DEF TakesOff, Lists
    <3>2. CASE d # c
      <4>1. at'[d] = at[d] /\ ident'[d] = ident[d] /\ offer'[d] = offer[d]
        BY <3>2, Registers DEF TypeOK
      <4>. QED
        BY <2>1, <4>1, TakesOffKept
    <3>. QED
      BY <3>1, <3>2
  <2>. QED
    BY <1>1, <1>2, <1>4, <2>1 DEF Having
<1>. QED
  BY <1>3, <1>4

\* The cleanup of an agent takes nothing from another.
LEMMA CleanupKeeps ==
    ASSUME TypeOK, NEW c \in Conn, CleanState(c), NEW s \in Skill,
           NEW b \in Having(s), b # ident[c]
    PROVE  b \in Having(s)' /\ (tools[s] = b => tools'[s] = b)
<1>1. b \in Agent /\ skillsIndex' = skillsIndex
  BY Cleans DEF Having
<1>2. tools[s] = b => tools'[s] = b
  BY Cleans
<1>3. ASSUME NEW d \in Conn, ~TakesOff(d, b, s) PROVE ~TakesOff(d, b, s)'
  <2>1. ident'[d] = ident[d] /\ offer'[d] = offer[d] /\ (d # c => at'[d] = at[d])
    BY Cleans DEF TypeOK
  <2>2. CASE d = c
    BY <2>1, <2>2 DEF TakesOff
  <2>3. CASE d # c
    BY <1>3, <2>1, <2>3, TakesOffKept
  <2>. QED
    BY <2>2, <2>3
<1>. QED
  BY <1>1, <1>2, <1>3 DEF Having

\* Lookups keep their place; of their steady agents, those in Stays[s] remain.
LEMMA SteadyNarrowed ==
    ASSUME TypeOK, SteadyHaveIt, NEW Stays,
           \A k \in Caller : lookup'[k] =
               IF lookup[k] = NoLookup THEN NoLookup
               ELSE [lookup[k] EXCEPT !.steady = @ \cap Stays[lookup[k].skill]],
           \A s \in Skill : \A b \in Having(s) \cap Stays[s] :
               b \in Having(s)' /\ (tools[s] = b => tools'[s] = b)
    PROVE  SteadyHaveIt'
<1>1. ASSUME NEW k \in Caller, lookup'[k] # NoLookup, NEW s \in Skill, s = lookup[k].skill
      PROVE  /\ lookup'[k].skill = s
             /\ lookup'[k].steady \subseteq Having(s)'
             /\ lookup'[k].at = "tools" => \A b \in lookup'[k].steady : tools'[s] = b
  <2>1. lookup[k] # NoLookup
    BY <1>1
  <2>2. /\ lookup[k] \in Lookup /\ lookup[k].steady \subseteq Having(s)
        /\ lookup[k].at = "tools" => \A b \in lookup[k].steady : tools[s] = b
    BY <1>1, <2>1, LookupFields DEF SteadyHaveIt
  <2>3. lookup'[k] = [lookup[k] EXCEPT !.steady = @ \cap Stays[s]]
    BY <1>1, <2>1
  <2>4. /\ lookup'[k].skill = s /\ lookup'[k].at = lookup[k].at
        /\ lookup'[k].steady = lookup[k].steady \cap Stays[s]
    BY <1>1, <2>2, <2>3, Steadied
  <2>. QED
    BY <2>2, <2>4
<1>2. ASSUME NEW k \in Caller, lookup'[k] # NoLookup
      PROVE  /\ lookup'[k].steady \subseteq Having(lookup[k].skill)'
             /\ lookup'[k].at = "tools" =>
                    \A b \in lookup'[k].steady : tools'[lookup'[k].skill] = b
  <2>1. lookup[k].skill \in Skill
    BY <1>2, LookupFields
  <2>. QED
    BY <1>1, <1>2, <2>1
<1>. QED
  BY <1>2 DEF SteadyHaveIt

\* SteadyHaveIt is inductive.
LEMMA SteadyStep ==
    ASSUME TypeOK, SteadyHaveIt, [Next]_vars
    PROVE  SteadyHaveIt'
<1>1. ASSUME NEW c \in Conn, NEW a \in Agent, NEW o \in Offer, RegisterState(c, a, o)
      PROVE  SteadyHaveIt'
  <2>. DEFINE Stays == [s \in Skill |-> Staying(a, o, s)]
  <2>1. ASSUME NEW k \in Caller
        PROVE  lookup'[k] = IF lookup[k] = NoLookup THEN NoLookup
                            ELSE [lookup[k] EXCEPT !.steady = @ \cap Stays[lookup[k].skill]]
    <3>1. lookup[k] # NoLookup => Stays[lookup[k].skill] = Staying(a, o, lookup[k].skill)
      BY LookupFields
    <3>. QED
      <4>. HIDE DEF Stays
      <4>1. lookup'[k] = IF lookup[k] = NoLookup THEN NoLookup
                  ELSE [lookup[k] EXCEPT !.steady = @ \cap Staying(a, o, lookup[k].skill)]
        BY <1>1, SteadyAtRegistration
      <4>. QED
        BY <3>1, <4>1
  <2>2. \A s \in Skill : \A b \in Having(s) \cap Stays[s] :
            b \in Having(s)' /\ (tools[s] = b => tools'[s] = b)
    BY <1>1, RegistrationKeeps
  <2>. QED
    <3>. HIDE DEF Stays
    <3>. QED BY <2>1, <2>2, SteadyNarrowed
<1>2. ASSUME NEW c \in Conn, RegisterAgentConn(c) PROVE SteadyHaveIt'
  <2>1. ASSUME NEW s \in Skill, NEW b \in Agent, NEW d \in Conn, ~TakesOff(d, b, s)
        PROVE  ~TakesOff(d, b, s)'
    <3>1. /\ ident'[d] = ident[d] /\ offer'[d] = offer[d]
          /\ at'[d] = at[d] \/ (at[d] = "conn" /\ at'[d] = "card")
      BY <1>2, RegistersConn DEF TypeOK
    <3>. QED
      BY <2>1, <3>1 DEF TakesOff, Lists
  <2>2. UNCHANGED <<tools, skillsIndex, lookup>>
    BY <1>2, RegistersConn
  <2>3. \A s \in Skill : Having(s) \subseteq Having(s)'
    BY <2>1, <2>2 DEF Having
  <2>. QED
    BY <2>2, <2>3, SteadyKept
<1>3. ASSUME NEW c \in Conn, RegisterAgentCard(c) PROVE SteadyHaveIt'
  <2>. DEFINE new == CardOf(offer[c])
              a   == ident[c]
  <2>1. /\ at[c] = "card" /\ UNCHANGED <<tools, lookup>>
        /\ IF offer[c].card THEN Reindex(a, new) ELSE UNCHANGED skillsIndex
    BY <1>3, RegistersCard
  <2>2. ASSUME NEW s \in Skill, NEW b \in Having(s) PROVE b \in Having(s)'
    <3>1. b \in Agent /\ (\/ tools[s] = b
                          \/ b \in ToSet(skillsIndex[s]) /\ \A d \in Conn : ~TakesOff(d, b, s))
      BY DEF Having
    <3>2. CASE tools[s] = b
      BY <2>1, <3>1, <3>2 DEF Having
    <3>3. CASE b \in ToSet(skillsIndex[s]) /\ \A d \in Conn : ~TakesOff(d, b, s)
      <4>1. ASSUME NEW d \in Conn PROVE ~TakesOff(d, b, s)'
        <5>1. CASE d = c
          <6>1. at'[c] = "serving"
            BY <1>3, RegistersCard DEF TypeOK
          <6>. QED
            BY <5>1, <6>1 DEF TakesOff
        <5>2. CASE d # c
          <6>1. at'[d] = at[d] /\ ident'[d] = ident[d] /\ offer'[d] = offer[d]
            BY <1>3, <5>2, RegistersCard DEF TypeOK
          <6>. QED
            BY <3>3, <6>1, TakesOffKept
        <5>. QED
          BY <5>1, <5>2
      <4>2. CASE ~offer[c].card
        BY <2>1, <3>1, <3>3, <4>1, <4>2 DEF Having
      <4>3. CASE offer[c].card
        <5>1. new \in Card /\ a \in Agent /\ Reindex(a, new)
          BY <2>1, <4>3, CardOffered
        <5>2. b = a => s \in new.skills \cup new.legacyCaps
          BY <2>1, <3>3, <4>3 DEF TakesOff, Lists, CardOf
        <5>. HIDE DEF new, a
        <5>3. ToSet(skillsIndex'[s]) = (ToSet(skillsIndex[s]) \ {a})
                  \cup (IF s \in new.skills \cup new.legacyCaps THEN {a} ELSE {})
          BY <5>1, ReindexedLists
        <5>4. b \in ToSet(skillsIndex'[s])
          BY <3>3, <5>2, <5>3
        <5>. QED
          BY <3>1, <4>1, <5>4 DEF Having
      <4>. QED
        BY <4>2, <4>3
    <3>. QED
      BY <3>1, <3>2, <3>3
  <2>. QED
    BY <2>1, <2>2, SteadyKept
<1>4. ASSUME NEW c \in Conn, CleanState(c) PROVE SteadyHaveIt'
  <2>. DEFINE Stays == [s \in Skill |-> Agent \ {ident[c]}]
  <2>1. ASSUME NEW k \in Caller
        PROVE  lookup'[k] = IF lookup[k] = NoLookup THEN NoLookup
                            ELSE [lookup[k] EXCEPT !.steady = @ \cap Stays[lookup[k].skill]]
    <3>1. lookup[k] # NoLookup => Stays[lookup[k].skill] = Agent \ {ident[c]}
      BY LookupFields
    <3>. QED
      <4>. HIDE DEF Stays
      <4>1. lookup'[k] = IF lookup[k] = NoLookup THEN NoLookup
                  ELSE [lookup[k] EXCEPT !.steady = @ \cap (Agent \ {ident[c]})]
        BY <1>4, SteadyAtCleanup
      <4>. QED
        BY <3>1, <4>1
  <2>2. \A s \in Skill : \A b \in Having(s) \cap Stays[s] :
            b \in Having(s)' /\ (tools[s] = b => tools'[s] = b)
    BY <1>4, CleanupKeeps
  <2>. QED
    <3>. HIDE DEF Stays
    <3>. QED BY <2>1, <2>2, SteadyNarrowed
<1>5. ASSUME NEW c \in Conn, UnregisterAgent(c) PROVE SteadyHaveIt'
  <2>. DEFINE a == ident[c]
  <2>1. /\ at[c] = "leaving" /\ UNCHANGED <<tools, lookup>>
        /\ a \in Agent /\ NoCard \in Card /\ Reindex(a, NoCard)
    BY <1>5, Unregisters, CardOffered
  <2>2. ASSUME NEW s \in Skill, NEW b \in Having(s) PROVE b \in Having(s)'
    <3>1. b \in Agent /\ (\/ tools[s] = b
                          \/ b \in ToSet(skillsIndex[s]) /\ \A d \in Conn : ~TakesOff(d, b, s))
      BY DEF Having
    <3>2. CASE tools[s] = b
      BY <2>1, <3>1, <3>2 DEF Having
    <3>3. CASE b \in ToSet(skillsIndex[s]) /\ \A d \in Conn : ~TakesOff(d, b, s)
      <4>1. ASSUME NEW d \in Conn PROVE ~TakesOff(d, b, s)'
        <5>1. CASE d = c
          <6>1. at'[c] = "away"
            BY <1>5, Unregisters DEF TypeOK
          <6>. QED
            BY <5>1, <6>1 DEF TakesOff
        <5>2. CASE d # c
          <6>1. at'[d] = at[d] /\ ident'[d] = ident[d] /\ offer'[d] = offer[d]
            BY <1>5, <5>2, Unregisters DEF TypeOK
          <6>. QED
            BY <3>3, <6>1, TakesOffKept
        <5>. QED
          BY <5>1, <5>2
      <4>2. b # a
        BY <2>1, <3>3 DEF TakesOff
      <4>. HIDE DEF a
      <4>3. ToSet(skillsIndex[s]) \ {a} \subseteq ToSet(skillsIndex'[s])
        BY <2>1, ReindexedLists
      <4>. QED
        BY <3>1, <3>3, <4>1, <4>2, <4>3 DEF Having
    <3>. QED
      BY <3>1, <3>2, <3>3
  <2>. QED
    BY <2>1, <2>2, SteadyKept
<1>6. ASSUME NEW k \in Caller, UNCHANGED <<at, ident, offer, tools, skillsIndex>>,
             \A j \in Caller \ {k} : lookup'[j] = lookup[j],
             lookup'[k] = NoLookup
                \/ (/\ lookup'[k].steady \subseteq Having(lookup'[k].skill)
                    /\ lookup'[k].at = "tools" =>
                           \A b \in lookup'[k].steady : tools[lookup'[k].skill] = b)
      PROVE  SteadyHaveIt'
  <2>1. \A s : Having(s)' = Having(s)
    BY <1>6 DEF Having, TakesOff
  <2>. QED
    BY <1>6, <2>1 DEF SteadyHaveIt
<1>7. ASSUME NEW k \in Caller, NEW s \in Skill, ReadCall(k, s) PROVE SteadyHaveIt'
  <2>1. lookup'[k] = [skill |-> s, at |-> "index", steady |-> Having(s)]
    BY <1>7 DEF ReadCall, TypeOK
  <2>2. \A j \in Caller \ {k} : lookup'[j] = lookup[j]
    BY <1>7 DEF ReadCall, TypeOK
  <2>. QED
    BY <1>6, <1>7, <2>1, <2>2 DEF ReadCall, index
<1>8. ASSUME NEW k \in Caller, LookIntoIndex(k) PROVE SteadyHaveIt'
  <2>. DEFINE l == lookup[k]
  <2>1. l \in Lookup /\ l.skill \in Skill /\ l # NoLookup
    BY <1>8 DEF LookIntoIndex, TypeOK, NoLookup, Lookup
  <2>2. l.steady \subseteq Having(l.skill)
    BY <2>1 DEF SteadyHaveIt
  <2>3. \A j \in Caller \ {k} : lookup'[j] = lookup[j]
    BY <1>8 DEF LookIntoIndex, TypeOK
  <2>4. CASE skillsIndex[l.skill] # <<>>
    <3>1. lookup'[k] = NoLookup
      BY <1>8, <2>4 DEF LookIntoIndex, TypeOK
    <3>. QED
      BY <1>6, <1>8, <2>3, <3>1 DEF LookIntoIndex
  <2>5. CASE skillsIndex[l.skill] = <<>>
    \* Whoever has had it all the while has it in the table.
    <3>1. lookup'[k] = [l EXCEPT !.at = "tools"]
      BY <1>8, <2>5 DEF LookIntoIndex, TypeOK
    <3>2. lookup'[k].steady = l.steady /\ lookup'[k].skill = l.skill
      BY <2>1, <3>1 DEF Lookup
    <3>3. ToSet(skillsIndex[l.skill]) = {}
      BY <2>5 DEF ToSet
    <3>4. \A b \in Having(l.skill) : tools[l.skill] = b
      BY <3>3 DEF Having
    <3>. QED
      BY <1>6, <1>8, <2>2, <2>3, <3>2, <3>4 DEF LookIntoIndex
  <2>. QED
    BY <2>4, <2>5
<1>9. ASSUME NEW k \in Caller, LookIntoTools(k) PROVE SteadyHaveIt'
  <2>. DEFINE l == lookup[k]
  <2>1. l \in Lookup /\ l # NoLookup
    BY <1>9 DEF LookIntoTools, TypeOK, NoLookup
  <2>2. l.steady \subseteq Having(l.skill)
    BY <2>1 DEF SteadyHaveIt
  <2>3. \A j \in Caller \ {k} : lookup'[j] = lookup[j]
    BY <1>9 DEF LookIntoTools, TypeOK
  <2>4. lookup'[k] = NoLookup \/ lookup'[k] = [l EXCEPT !.at = "missed"]
    BY <1>9 DEF LookIntoTools, TypeOK
  <2>5. lookup'[k] = NoLookup \/ (/\ lookup'[k].steady = l.steady /\ lookup'[k].skill = l.skill
                                  /\ lookup'[k].at = "missed")
    BY <2>1, <2>4 DEF Lookup
  <2>. QED
    BY <1>6, <1>9, <2>2, <2>3, <2>5 DEF LookIntoTools, index
<1>10. ASSUME NEW k \in Caller, RefuseCall(k) PROVE SteadyHaveIt'
  <2>1. lookup'[k] = NoLookup /\ \A j \in Caller \ {k} : lookup'[j] = lookup[j]
    BY <1>10 DEF RefuseCall, TypeOK
  <2>. QED
    BY <1>6, <1>10, <2>1 DEF RefuseCall, index
<1>11. CASE UNCHANGED vars
  BY <1>11 DEF vars, index, SteadyHaveIt, Having, TakesOff
<1>. QED
  BY <1>1, <1>2, <1>3, <1>4, <1>5, <1>7, <1>8, <1>9, <1>10, <1>11 DEF Next

\* A lookup that finds neither table nor index has no steady agent left.
LEMMA FoundStep ==
    ASSUME TypeOK, SteadyHaveIt, SteadyToolsAreFound, [Next]_vars
    PROVE  SteadyToolsAreFound'
<1>1. ASSUME NEW X, NEW k \in Caller, lookup[k] # NoLookup,
             lookup'[k] = [lookup[k] EXCEPT !.steady = @ \cap X]
      PROVE  lookup'[k].at = "missed" => lookup'[k].steady = {}
  <2>1. lookup[k] \in Lookup
    BY <1>1, LookupFields
  <2>2. lookup'[k].at = lookup[k].at /\ lookup'[k].steady = lookup[k].steady \cap X
    BY <1>1, <2>1, Steadied
  <2>. QED
    BY <2>2 DEF SteadyToolsAreFound
<1>2. NoLookup.at # "missed"
  BY DEF NoLookup
<1>3. ASSUME NEW c \in Conn, NEW a \in Agent, NEW o \in Offer, RegisterState(c, a, o)
      PROVE  SteadyToolsAreFound'
  <2>1. \A k \in Caller : lookup'[k] = IF lookup[k] = NoLookup THEN NoLookup
             ELSE [lookup[k] EXCEPT !.steady = @ \cap Staying(a, o, lookup[k].skill)]
    BY <1>3, SteadyAtRegistration
  <2>. QED
    BY <1>1, <1>2, <2>1 DEF SteadyToolsAreFound
<1>4. ASSUME NEW c \in Conn, CleanState(c) PROVE SteadyToolsAreFound'
  <2>1. \A k \in Caller : lookup'[k] = IF lookup[k] = NoLookup THEN NoLookup
             ELSE [lookup[k] EXCEPT !.steady = @ \cap (Agent \ {ident[c]})]
    BY <1>4, SteadyAtCleanup
  <2>. QED
    BY <1>1, <1>2, <2>1 DEF SteadyToolsAreFound
<1>5. CASE UNCHANGED lookup
  BY <1>5 DEF SteadyToolsAreFound
<1>6. ASSUME NEW k \in Caller, NEW l, lookup' = [lookup EXCEPT ![k] = l], l.at # "missed"
      PROVE  SteadyToolsAreFound'
  BY <1>6 DEF SteadyToolsAreFound, TypeOK
<1>7. ASSUME NEW k \in Caller, NEW s \in Skill, ReadCall(k, s) PROVE SteadyToolsAreFound'
  <2>. DEFINE l == [skill |-> s, at |-> "index", steady |-> Having(s)]
  <2>1. l.at # "missed" /\ lookup' = [lookup EXCEPT ![k] = l]
    BY <1>7 DEF ReadCall
  <2>. HIDE DEF l
  <2>. QED
    BY <1>6, <2>1
<1>8. ASSUME NEW k \in Caller, LookIntoIndex(k) PROVE SteadyToolsAreFound'
  <2>. DEFINE l == [lookup[k] EXCEPT !.at = "tools"]
  <2>1. l.at = "tools"
    BY <1>8 DEF LookIntoIndex, TypeOK, NoLookup, Lookup
  <2>2. lookup' = [lookup EXCEPT ![k] = NoLookup] \/ lookup' = [lookup EXCEPT ![k] = l]
    BY <1>8 DEF LookIntoIndex, TypeOK
  <2>. HIDE DEF l
  <2>. QED
    BY <1>2, <1>6, <2>1, <2>2
<1>9. ASSUME NEW k \in Caller, LookIntoTools(k) PROVE SteadyToolsAreFound'
  <2>. DEFINE s == lookup[k].skill
              l == lookup[k]
  <2>1. l \in Lookup /\ l # NoLookup /\ l.at = "tools"
    BY <1>9 DEF LookIntoTools, TypeOK, NoLookup
  <2>2. \A a \in l.steady : a \in Agent /\ tools[s] = a
    BY <2>1 DEF SteadyHaveIt, Lookup
  <2>3. CASE tools[s] # NoAgent
    <3>1. lookup' = [lookup EXCEPT ![k] = NoLookup]
      BY <1>9, <2>3 DEF LookIntoTools
    <3>. QED
      BY <1>2, <1>6, <3>1
  <2>4. CASE tools[s] = NoAgent
    <3>1. l.steady = {}
      BY <2>2, <2>4, NoAgentIsNoOne
    <3>2. lookup' = [lookup EXCEPT ![k] = [l EXCEPT !.at = "missed"]]
      BY <1>9, <2>4 DEF LookIntoTools, TypeOK
    <3>3. [l EXCEPT !.at = "missed"].steady = {}
      BY <2>1, <3>1 DEF Lookup
    <3>. QED
      BY <3>2, <3>3 DEF SteadyToolsAreFound, TypeOK
  <2>. QED
    BY <2>3, <2>4
<1>10. ASSUME NEW k \in Caller, RefuseCall(k) PROVE SteadyToolsAreFound'
  BY <1>2, <1>6, <1>10 DEF RefuseCall
<1>. QED
  BY <1>3, <1>4, <1>5, <1>7, <1>8, <1>9, <1>10
     DEF Next, RegisterAgentConn, RegisterAgentCard, UnregisterAgent, vars
-----------------------------------------------------------------------------
(* The tool table.                                                          *)

\* A step that leaves the table alone, and the connections of those it names.
LEMMA TableKept ==
    ASSUME ToolsNameThePresent, UNCHANGED <<tools, left>>,
           \A c \in Conn : at[c] \in {"conn", "card", "serving"} =>
               ident'[c] = ident[c] /\ at'[c] \in {"conn", "card", "serving"}
    PROVE  ToolsNameThePresent'
BY DEF ToolsNameThePresent

\* ToolsNameThePresent is inductive.
LEMMA TableStep ==
    ASSUME TypeOK, ToolsNameThePresent, [Next]_vars
    PROVE  ToolsNameThePresent'
<1>1. ASSUME NEW c \in Conn, NEW a \in Agent, NEW o \in Offer, RegisterState(c, a, o)
      PROVE  ToolsNameThePresent'
  <2>. SUFFICES ASSUME NEW s \in Skill, tools'[s] \notin left' \cup {NoAgent}
                PROVE  \E d \in Conn : /\ ident'[d] = tools'[s]
                                       /\ at'[d] \in {"conn", "card", "serving"}
    BY DEF ToolsNameThePresent
  <2>1. /\ at'[c] = "conn" /\ ident'[c] = a
        /\ \A d \in Conn \ {c} : at'[d] = at[d] /\ ident'[d] = ident[d]
    BY <1>1, Registers DEF TypeOK
  <2>2. CASE tools'[s] = a
    BY <2>1, <2>2
  <2>3. CASE tools'[s] # a
    <3>1. tools'[s] = tools[s] /\ tools[s] # a
      BY <1>1, <2>3, Registers
    <3>2. tools[s] \notin left /\ tools[s] # NoAgent /\ tools[s] # ident[c]
      BY <1>1, <3>1, Registers
    <3>3. PICK d \in Conn : ident[d] = tools[s] /\ at[d] \in {"conn", "card", "serving"}
      BY <3>2 DEF ToolsNameThePresent
    <3>. QED
      BY <2>1, <3>1, <3>2, <3>3
  <2>. QED
    BY <2>2, <2>3
<1>2. ASSUME NEW c \in Conn, RegisterAgentConn(c) PROVE ToolsNameThePresent'
  BY <1>2, RegistersConn, TableKept DEF TypeOK
<1>3. ASSUME NEW c \in Conn, RegisterAgentCard(c) PROVE ToolsNameThePresent'
  BY <1>3, RegistersCard, TableKept DEF TypeOK
<1>4. ASSUME NEW c \in Conn, CleanState(c) PROVE ToolsNameThePresent'
  \* The table does not name the agent any more.
  <2>. SUFFICES ASSUME NEW s \in Skill, tools'[s] \notin left' \cup {NoAgent}
                PROVE  \E d \in Conn : /\ ident'[d] = tools'[s]
                                       /\ at'[d] \in {"conn", "card", "serving"}
    BY DEF ToolsNameThePresent
  <2>1. tools'[s] = tools[s] /\ tools[s] # ident[c] /\ tools[s] \notin left
    BY <1>4, Cleans
  <2>2. PICK d \in Conn : ident[d] = tools[s] /\ at[d] \in {"conn", "card", "serving"}
    BY <2>1 DEF ToolsNameThePresent
  <2>. QED
    BY <1>4, <2>1, <2>2, Cleans DEF TypeOK
<1>5. ASSUME NEW c \in Conn, UnregisterAgent(c) PROVE ToolsNameThePresent'
  BY <1>5, Unregisters, TableKept DEF TypeOK
<1>6. CASE UNCHANGED <<at, ident, tools, left>>
  BY <1>6, TableKept
<1>. QED
  BY <1>1, <1>2, <1>3, <1>4, <1>5, <1>6
     DEF Next, ReadCall, LookIntoIndex, LookIntoTools, RefuseCall, vars

-----------------------------------------------------------------------------
(* The theorems.                                                            *)

\* Every conjunct of IInv holds at first.
LEMMA InitIInv == Init => IInv
<1>. SUFFICES ASSUME Init PROVE IInv
  OBVIOUS
<1>1. TypeOK
  BY DEF Init, TypeOK, NoOffer, NoCard, Card
<1>2. IndexIsExact
  <2>1. \A a : Times(<<>>, a) = 0
    BY FS_EmptySet DEF Times
  <2>2. NoCard \in Card /\ \A s : s \notin NoCard.skills /\ s \notin NoCard.legacyCaps
    BY DEF NoCard, Card
  <2>3. \A s : Ways(NoCard, s) = 0
    BY <2>2, WaysCount
  <2>. QED
    BY <2>1, <2>3 DEF Init, IndexIsExact, Listed
<1>3. \A s \in Skill : ToSet(skillsIndex[s]) = {}
  BY DEF Init, ToSet
<1>4. ListedIsReachable /\ TurnsAreAhead
  BY <1>3 DEF ListedIsReachable, TurnsAreAhead
<1>5. ToolsNameThePresent /\ CardComesLast
  BY DEF Init, ToolsNameThePresent, CardComesLast
<1>6. SteadyHaveIt /\ SteadyToolsAreFound
  BY DEF Init, SteadyHaveIt, SteadyToolsAreFound, NoLookup
<1>. QED
  BY <1>1, <1>2, <1>4, <1>5, <1>6 DEF IInv

\* IInv is inductive.
LEMMA NextIInv ==
    ASSUME IInv, [Next]_vars
    PROVE  IInv'
<1>1. TypeOK' /\ IndexIsExact'
  BY TypeStep, IndexStep DEF IInv
<1>2. CardComesLast' /\ ListedIsReachable'
  BY CardLastStep, ReachableStep DEF IInv
<1>3. TurnsAreAhead'
  BY TurnsStep DEF IInv
<1>4. SteadyHaveIt' /\ SteadyToolsAreFound'
  BY SteadyStep, FoundStep DEF IInv
<1>5. ToolsNameThePresent'
  BY TableStep DEF IInv
<1>. QED
  BY <1>1, <1>2, <1>3, <1>4, <1>5 DEF IInv

\* RegisterAgentCard, UnregisterAgent, FindAgentBySkill, handleRegister,
\* cleanupAgent and the tool calls between them keep IInv, for any finite set of
\* agents and any offers.
THEOREM RegistryInvariance == Spec => []IInv
BY InitIInv, NextIInv, PTL DEF Spec

\* The store's maps keep their types; a round-robin position never exceeds what
\* all agents, named twice each, would make of a list.
THEOREM RegistryTypeCorrect == Spec => []TypeOK
<1>1. IInv => TypeOK
  BY DEF IInv
<1>. QED
  BY <1>1, RegistryInvariance, PTL

\* RegisterAgentCard and UnregisterAgent: the index lists each agent as often as
\* its stored card names the skill.
THEOREM IndexTheorem == Spec => []IndexIsExact
<1>1. IInv => IndexIsExact
  BY DEF IInv
<1>. QED
  BY <1>1, RegistryInvariance, PTL

\* handleRegister and cleanupAgent: whatever an agent offered in its earlier
\* registrations, and on however many connections, a tool is in its name only as
\* long as a connection is registered under it, unless one took another id.
THEOREM ToolsTheorem == Spec => []ToolsNameThePresent
<1>1. IInv => ToolsNameThePresent
  BY DEF IInv
<1>. QED
  BY <1>1, RegistryInvariance, PTL

\* FindAgentBySkill passes nobody over while a list stands, for lists of any
\* length and positions left by longer ones.
THEOREM TurnsTheorem == Spec => []EachGetsATurn
<1>1. IInv => EachGetsATurn
  BY AheadIsSoon DEF IInv
<1>. QED
  BY <1>1, RegistryInvariance, PTL

\* handleRegister registers the channel before the card, and UnregisterAgent
\* takes both out at once: the index names an agent without a channel only if
\* the cleanup of another connection of the same id came between the two.
THEOREM ReachableTheorem == Spec => []ListedIsReachable
<1>1. IInv => ListedIsReachable
  BY DEF IInv
<1>. QED
  BY <1>1, RegistryInvariance, PTL

\* handleMCPToolsCall looks into the index and then into the table, under two
\* locks, and still misses no tool that somebody has had all the while.
THEOREM SteadyToolsTheorem == Spec => []SteadyToolsAreFound
<1>1. IInv => SteadyToolsAreFound
  BY DEF IInv
<1>. QED
  BY <1>1, RegistryInvariance, PTL
=============================================================================
