---------------------------- MODULE ContextProofs ----------------------------
(***************************************************************************)
(* Theorems about ContextBuilder, for any stories, queries, configurations *)
(* and any bound of the cache.                                             *)
(*                                                                         *)
(*   - ScoresFresh: no score is computed from the embedding of another     *)
(*     text, however the cache came to hold its vectors;                   *)
(*   - RecentStays: what a context leaves in the cache was used after all  *)
(*     that it evicted;                                                    *)
(*   - MemoriesAreExplained: every memory offered has one record, without  *)
(*     a reason when it is in the context, and no more than k are;         *)
(*   - SelectedAreSaid: what is selected is said once, by a line or by a   *)
(*     summary;                                                            *)
(*   - ConflictsAreWarnedOf: under coverage selection, a contradiction     *)
(*     with a selected memory comes with a warning.                        *)
(*                                                                         *)
(* Loops over a sequence are recursive functions here.  That such a        *)
(* function exists (LoopRuns), and that it keeps what each of its turns    *)
(* keeps (LoopKeeps), is shown once, by an induction over sets of numbers  *)
(* (SetInduction); each loop of the cache, and the loop of the coverage    *)
(* selection, is then an instance.  The cache is compared with the history *)
(* of its uses (Ordered).                                                  *)
(*                                                                         *)
(* A selection is followed as sequences that list each member of a set     *)
(* once (Enumerates): filters, sorts, cuts and concatenations keep that,   *)
(* and the records that go with them tell of each member (Tells).          *)
(***************************************************************************)
EXTENDS ContextBuilder, TLAPS, WellFoundedInduction, SequenceTheorems, FiniteSetTheorems,
        FunctionTheorems

LessThan == {pair \in Nat \X Nat : pair[1] < pair[2]}

(* The order of the numbers is well-founded: sets of them have a least.     *)
LEMMA LessThanIsWellFounded == IsWellFoundedOn(LessThan, Nat)
  BY NatLessThanWellFounded, SMT DEF OpToRel, LessThan

(* Induction, over a set of numbers instead of a predicate.                 *)
LEMMA SetInduction ==
    ASSUME NEW S \in SUBSET Nat, 0 \in S, \A n \in S : n + 1 \in S
    PROVE  S = Nat
<1> SUFFICES ASSUME Nat \ S # {} PROVE FALSE
  OBVIOUS
<1>1. PICK m \in Nat \ S : \A x \in Nat \ S : ~ (<<x, m>> \in LessThan)
  <2>1. Nat \ S \in SUBSET Nat
    OBVIOUS
  <2>2. QED BY <2>1, LessThanIsWellFounded, WFMin
<1>2. m # 0 /\ m - 1 \in Nat /\ (m - 1) + 1 = m
  OBVIOUS
<1>3. <<m - 1, m>> \in LessThan
  BY <1>2 DEF LessThan
<1>4. m - 1 \in S
  BY <1>1, <1>2, <1>3
<1>5. QED BY <1>2, <1>4

(* A loop of n turns that stays within V: what it has computed after each.  *)
Turns(f, n, V, start, turn) ==
    /\ f \in [0 .. n -> V]
    /\ f[0] = start
    /\ \A i \in 1 .. n : f[i] = turn[<<f[i - 1], i>>]

(* A loop of turns that stay within V computes something after each.        *)
LEMMA LoopRuns ==
    ASSUME NEW n \in Nat, NEW V, NEW start \in V, NEW turn \in [V \X (1 .. n) -> V]
    PROVE  \E f : Turns(f, n, V, start, turn)
<1> DEFINE S == {m \in Nat : m <= n => \E f : Turns(f, m, V, start, turn)}
<1>1. 0 \in S
  <2> DEFINE f == [i \in 0 .. 0 |-> start]
  <2>1. Turns(f, 0, V, start, turn)
    BY DEF Turns
  <2>2. QED BY <2>1
<1>2. ASSUME NEW m \in S PROVE m + 1 \in S
  <2> SUFFICES ASSUME m + 1 <= n PROVE \E f : Turns(f, m + 1, V, start, turn)
    OBVIOUS
  <2>1. PICK f : Turns(f, m, V, start, turn)
    OBVIOUS
  <2>2. m \in 0 .. m /\ m + 1 \in 1 .. n /\ m \in Nat
    OBVIOUS
  <2>3. f[m] \in V
    BY <2>1, <2>2 DEF Turns
  <2> DEFINE g == [i \in 0 .. m + 1 |-> IF i = m + 1 THEN turn[<<f[m], m + 1>>] ELSE f[i]]
  <2>4. turn[<<f[m], m + 1>>] \in V
    BY <2>2, <2>3
  <2>5. /\ \A i \in 0 .. m + 1 : i = m + 1 \/ i \in 0 .. m
        /\ \A i \in 0 .. m : i \in 0 .. m + 1 /\ i # m + 1
        /\ m + 1 \in 0 .. m + 1 /\ (m + 1) - 1 = m
    BY <2>2
  <2>6. /\ g[m + 1] = turn[<<f[m], m + 1>>]
        /\ \A i \in 0 .. m : g[i] = f[i]
    BY <2>5
  <2>7. g \in [0 .. m + 1 -> V]
    BY <2>1, <2>4, <2>5 DEF Turns
  <2> HIDE DEF g
  <2>8. 0 \in 0 .. m
    BY <2>2
  <2>9. g[0] = start
    BY <2>1, <2>6, <2>8 DEF Turns
  <2>10. ASSUME NEW i \in 1 .. m + 1
         PROVE  g[i] = turn[<<g[i - 1], i>>]
    <3>1. CASE i = m + 1
      BY <2>2, <2>5, <2>6, <3>1
    <3>2. CASE i # m + 1
      <4>1. i \in 1 .. m /\ i \in 0 .. m /\ i - 1 \in 0 .. m
        BY <2>2, <3>2
      <4>2. f[i] = turn[<<f[i - 1], i>>]
        BY <2>1, <4>1 DEF Turns
      <4>3. QED BY <2>6, <4>1, <4>2
    <3>3. QED BY <3>1, <3>2
  <2>11. QED BY <2>7, <2>9, <2>10 DEF Turns
<1> HIDE DEF S
<1>3. S \in SUBSET Nat
  BY DEF S
<1>4. n \in S
  BY <1>1, <1>2, <1>3, SetInduction
<1>5. QED BY <1>4 DEF S

(* What holds of the start and is kept by every turn holds after each.      *)
LEMMA LoopKeeps ==
    ASSUME NEW n \in Nat, NEW G, 0 \in G, \A i \in 1 .. n : i - 1 \in G => i \in G
    PROVE  \A i \in 0 .. n : i \in G
<1> DEFINE S == {m \in Nat : m <= n => m \in G}
<1>1. 0 \in S
  OBVIOUS
<1>2. ASSUME NEW m \in S PROVE m + 1 \in S
  <2> SUFFICES ASSUME m + 1 <= n PROVE m + 1 \in G
    OBVIOUS
  <2>1. m + 1 \in 1 .. n /\ (m + 1) - 1 = m /\ m \in G
    OBVIOUS
  <2>2. QED BY <2>1
<1>3. S \in SUBSET Nat
  OBVIOUS
<1> HIDE DEF S
<1>4. S = Nat
  BY <1>1, <1>2, <1>3, SetInduction
<1>5. QED BY <1>4 DEF S

(* What a filter has collected after each turn.                             *)
Collects(t, s, S) ==
    /\ t[0] = <<>>
    /\ \A i \in 1 .. Len(s) :
          t[i] = IF s[i] \in S THEN Append(t[i - 1], s[i]) ELSE t[i - 1]

(* A filter collects, in a loop over the sequence.                          *)
LEMMA ThoseCollects ==
    ASSUME NEW E, NEW s \in Seq(E), NEW S
    PROVE  \E t : Collects(t, s, S) /\ Those(s, S) = t[Len(s)]
<1> DEFINE n == Len(s)
           V == Seq(ToSet(s) \cap S)
           turn == [p \in V \X (1 .. n) |-> IF s[p[2]] \in S THEN Append(p[1], s[p[2]]) ELSE p[1]]
           Body(f) == [i \in 0 .. n |->
               IF i = 0 THEN <<>>
               ELSE IF s[i] \in S THEN Append(f[i - 1], s[i]) ELSE f[i - 1]]
<1>1. n \in Nat /\ <<>> \in V
  OBVIOUS
<1>2. turn \in [V \X (1 .. n) -> V]
  <2> SUFFICES ASSUME NEW t \in V, NEW i \in 1 .. n
               PROVE  (IF s[i] \in S THEN Append(t, s[i]) ELSE t) \in V
    OBVIOUS
  <2>1. s[i] \in ToSet(s)
    BY DEF ToSet
  <2>2. QED BY <2>1
<1>3. \A t \in V, i \in 1 .. n :
          turn[<<t, i>>] = IF s[i] \in S THEN Append(t, s[i]) ELSE t
  OBVIOUS
<1> HIDE DEF turn, V
<1>4. PICK f : Turns(f, n, V, <<>>, turn)
  BY <1>1, <1>2, LoopRuns
<1>5. f = Body(f)
  <2>1. f = [i \in 0 .. n |-> f[i]]
    BY <1>4 DEF Turns
  <2>2. ASSUME NEW i \in 0 .. n
        PROVE  f[i] = IF i = 0 THEN <<>>
                      ELSE IF s[i] \in S THEN Append(f[i - 1], s[i]) ELSE f[i - 1]
    <3>1. CASE i = 0
      BY <1>4, <3>1 DEF Turns
    <3>2. CASE i # 0
      <4>1. i \in 1 .. n /\ i - 1 \in 0 .. n
        BY <1>1, <3>2
      <4>2. f[i - 1] \in V /\ f[i] = turn[<<f[i - 1], i>>]
        BY <1>4, <4>1 DEF Turns
      <4>3. QED BY <1>3, <3>2, <4>1, <4>2
    <3>3. QED BY <3>1, <3>2
  <2>3. QED BY <2>1, <2>2
<1>6. PICK those : those = (CHOOSE h : h = Body(h))
  OBVIOUS
<1>7. those = Body(those) /\ Those(s, S) = those[n]
  <2>1. those = Body(those)
    BY <1>5, <1>6
  <2>2. QED BY <1>6, <2>1 DEF Those
<1>8. 0 \in 0 .. n /\ \A i \in 1 .. n : i \in 0 .. n /\ i # 0
  BY <1>1
<1>9. \A i \in 0 .. n :
          those[i] = IF i = 0 THEN <<>>
                     ELSE IF s[i] \in S THEN Append(those[i - 1], s[i]) ELSE those[i - 1]
  BY <1>7
<1>10. those[0] = <<>>
  BY <1>8, <1>9
<1>11. \A i \in 1 .. n :
          those[i] = IF s[i] \in S THEN Append(those[i - 1], s[i]) ELSE those[i - 1]
  BY <1>8, <1>9
<1>12. Collects(those, s, S)
  BY <1>10, <1>11 DEF Collects
<1>13. QED BY <1>7, <1>12

(* The members a filter collects are members of the sequence.               *)
LEMMA ThoseMembers ==
    ASSUME NEW E, NEW s \in Seq(E), NEW S
    PROVE  Those(s, S) \in Seq(ToSet(s) \cap S)
<1> DEFINE n == Len(s)
           V == Seq(ToSet(s) \cap S)
<1>1. n \in Nat /\ <<>> \in V
  OBVIOUS
<1>2. PICK t : Collects(t, s, S) /\ Those(s, S) = t[n]
  BY ThoseCollects
<1> DEFINE G == {i \in 0 .. n : t[i] \in V}
<1>3. 0 \in G
  <2>1. t[0] = <<>> /\ 0 \in 0 .. n
    BY <1>1, <1>2 DEF Collects
  <2>2. QED BY <1>1, <2>1
<1>4. ASSUME NEW i \in 1 .. n, i - 1 \in G
      PROVE  i \in G
  <2>1. i \in 0 .. n /\ t[i - 1] \in V /\ s[i] \in ToSet(s)
    BY <1>1, <1>4 DEF ToSet
  <2>2. t[i] = IF s[i] \in S THEN Append(t[i - 1], s[i]) ELSE t[i - 1]
    BY <1>2 DEF Collects
  <2>3. t[i] \in V
    BY <2>1, <2>2
  <2>4. QED BY <2>1, <2>3
<1> HIDE DEF G
<1>5. \A i \in 0 .. n : i \in G
  BY <1>1, <1>3, <1>4, LoopKeeps
<1>6. n \in 0 .. n
  BY <1>1
<1>7. QED BY <1>2, <1>5, <1>6 DEF G

-----------------------------------------------------------------------------
(* Precedes is a strict total order of the sequences of integers.           *)
LEMMA PrecedesIrreflexive ==
    ASSUME NEW s \in Seq(Int)
    PROVE  ~ Precedes(s, s)
<1>1. DOMAIN s = 1 .. Len(s) /\ Len(s) \in Nat /\ \A i \in 1 .. Len(s) : s[i] \in Int
  OBVIOUS
<1>2. QED BY <1>1 DEF Precedes

(* What precedes a predecessor precedes.                                   *)
LEMMA PrecedesTransitive ==
    ASSUME NEW s \in Seq(Int), NEW t \in Seq(Int), NEW u \in Seq(Int),
           Precedes(s, t), Precedes(t, u)
    PROVE  Precedes(s, u)
<1>1. /\ Len(s) \in Nat /\ Len(t) \in Nat /\ Len(u) \in Nat
      /\ DOMAIN t = 1 .. Len(t) /\ DOMAIN u = 1 .. Len(u)
      /\ \A i \in 1 .. Len(s) : s[i] \in Int
      /\ \A i \in 1 .. Len(t) : t[i] \in Int
      /\ \A i \in 1 .. Len(u) : u[i] \in Int
  OBVIOUS
<1>2. PICK i \in 1 .. Len(t) : /\ i > Len(s) \/ s[i] < t[i]
                               /\ \A j \in 1 .. i - 1 : j <= Len(s) /\ s[j] = t[j]
  BY <1>1 DEF Precedes
<1>3. PICK k \in 1 .. Len(u) : /\ k > Len(t) \/ t[k] < u[k]
                               /\ \A j \in 1 .. k - 1 : j <= Len(t) /\ t[j] = u[j]
  BY <1>1 DEF Precedes
<1>4. CASE i < k
  <2>1. i \in 1 .. k - 1 /\ i \in 1 .. Len(u)
    BY <1>1, <1>4
  <2>2. i > Len(s) \/ s[i] < u[i]
    BY <1>2, <1>3, <2>1
  <2>3. \A j \in 1 .. i - 1 : j <= Len(s) /\ s[j] = u[j]
    <3> TAKE j \in 1 .. i - 1
    <3>1. j \in 1 .. k - 1
      BY <1>1, <1>4
    <3>2. QED BY <1>2, <1>3, <3>1
  <2>4. QED BY <1>1, <2>1, <2>2, <2>3 DEF Precedes
<1>5. CASE ~ i < k
  <2>1. k <= Len(t)
    BY <1>1, <1>5
  <2>2. t[k] < u[k]
    BY <1>1, <1>3, <2>1
  <2>3. k > Len(s) \/ s[k] < u[k]
    <3>1. CASE k = i
      <4>1. CASE i > Len(s)
        BY <3>1, <4>1
      <4>2. CASE ~ i > Len(s)
        <5>1. s[k] \in Int /\ t[k] \in Int /\ u[k] \in Int /\ s[k] < t[k]
          BY <1>1, <1>2, <2>1, <3>1, <4>2
        <5>2. QED BY <2>2, <5>1
      <4>3. QED BY <4>1, <4>2
    <3>2. CASE k < i
      <4>1. k \in 1 .. i - 1
        BY <1>1, <3>2
      <4>2. s[k] = t[k]
        BY <1>2, <4>1
      <4>3. QED BY <2>2, <4>2
    <3>3. QED BY <1>1, <1>5, <3>1, <3>2
  <2>4. \A j \in 1 .. k - 1 : j <= Len(s) /\ s[j] = u[j]
    <3> TAKE j \in 1 .. k - 1
    <3>1. j \in 1 .. i - 1
      BY <1>1, <1>5
    <3>2. QED BY <1>2, <1>3, <3>1
  <2>5. QED BY <1>1, <2>3, <2>4 DEF Precedes
<1>6. QED BY <1>4, <1>5

(* Of two different sequences one precedes the other.                       *)
LEMMA PrecedesTotal ==
    ASSUME NEW s \in Seq(Int), NEW t \in Seq(Int), s # t
    PROVE  Precedes(s, t) \/ Precedes(t, s)
<1> DEFINE D == {i \in Nat \ {0} : /\ i <= Len(s) \/ i <= Len(t)
                                   /\ i > Len(s) \/ i > Len(t) \/ s[i] # t[i]}
<1>1. /\ Len(s) \in Nat /\ Len(t) \in Nat
      /\ DOMAIN s = 1 .. Len(s) /\ DOMAIN t = 1 .. Len(t)
      /\ \A i \in 1 .. Len(s) : s[i] \in Int
      /\ \A i \in 1 .. Len(t) : t[i] \in Int
  OBVIOUS
<1>2. D \in SUBSET Nat
  OBVIOUS
<1>3. D # {}
  <2> SUFFICES ASSUME D = {} PROVE FALSE
    OBVIOUS
  <2>1. ASSUME NEW i \in Nat \ {0}, i <= Len(s) \/ i <= Len(t)
        PROVE  i <= Len(s) /\ i <= Len(t) /\ s[i] = t[i]
    <3>1. i \notin D
      OBVIOUS
    <3>2. QED BY <1>1, <2>1, <3>1
  <2>2. Len(s) = Len(t)
    <3>1. PICK m \in Nat, n \in Nat : m = Len(s) /\ n = Len(t)
      BY <1>1
    <3>2. n # 0 => n <= m
      BY <2>1, <3>1
    <3>3. m # 0 => m <= n
      BY <2>1, <3>1
    <3>4. QED BY <3>1, <3>2, <3>3
  <2>3. \A i \in 1 .. Len(s) : s[i] = t[i]
    <3> TAKE i \in 1 .. Len(s)
    <3>1. i \in Nat \ {0} /\ i <= Len(s)
      BY <1>1
    <3>2. QED BY <2>1, <3>1
  <2>4. s = t
    BY <2>2, <2>3, SeqEqual
  <2>5. QED BY <2>4
<1>4. PICK m \in D : \A x \in D : ~ (<<x, m>> \in LessThan)
  BY <1>2, <1>3, LessThanIsWellFounded, WFMin
<1>5. /\ m \in Nat \ {0} /\ (m <= Len(s) \/ m <= Len(t))
      /\ m > Len(s) \/ m > Len(t) \/ s[m] # t[m]
  OBVIOUS
<1>6. \A j \in 1 .. m - 1 : j <= Len(s) /\ j <= Len(t) /\ s[j] = t[j]
  <2> TAKE j \in 1 .. m - 1
  <2>1. j \in Nat \ {0} /\ <<j, m>> \in LessThan /\ (j <= Len(s) \/ j <= Len(t))
    BY <1>1, <1>5 DEF LessThan
  <2>2. j \notin D
    BY <1>4, <2>1
  <2>3. QED BY <1>1, <2>1, <2>2
<1>7. CASE m > Len(s)
  <2>1. m \in DOMAIN t
    BY <1>1, <1>5, <1>7
  <2>2. Precedes(s, t)
    BY <1>6, <1>7, <2>1 DEF Precedes
  <2>3. QED BY <2>2
<1>8. CASE m > Len(t)
  <2>1. m \in DOMAIN s
    BY <1>1, <1>5, <1>8
  <2>2. \A j \in 1 .. m - 1 : j <= Len(t) /\ t[j] = s[j]
    BY <1>6
  <2>3. Precedes(t, s)
    BY <1>8, <2>1, <2>2 DEF Precedes
  <2>4. QED BY <2>3
<1>9. CASE ~ m > Len(s) /\ ~ m > Len(t)
  <2>1. m \in DOMAIN s /\ m \in DOMAIN t /\ s[m] \in Int /\ t[m] \in Int /\ s[m] # t[m]
    BY <1>1, <1>5, <1>9
  <2>2. CASE s[m] < t[m]
    BY <1>6, <2>1, <2>2 DEF Precedes
  <2>3. CASE t[m] < s[m]
    <3>1. \A j \in 1 .. m - 1 : j <= Len(t) /\ t[j] = s[j]
      BY <1>6
    <3>2. QED BY <2>1, <2>3, <3>1 DEF Precedes
  <2>4. QED BY <2>1, <2>2, <2>3
<1>10. QED BY <1>7, <1>8, <1>9

-----------------------------------------------------------------------------
(* A sequence that lists each member of a set once, and what is above a     *)
(* member in a descending order.                                            *)
Enumerates(s, S) ==
    /\ s \in Seq(S)
    /\ \A i, j \in 1 .. Len(s) : s[i] = s[j] => i = j
    /\ \A x \in S : \E i \in 1 .. Len(s) : s[i] = x

Above(x, S, key) == {y \in S : Precedes(key[x], key[y])}

(* Two members have different numbers of members above them.                *)
LEMMA RanksDiffer ==
    ASSUME NEW S, IsFiniteSet(S), NEW key \in [S -> Seq(Int)], NEW x \in S, NEW y \in S,
           Precedes(key[x], key[y])
    PROVE  Cardinality(Above(x, S, key)) # Cardinality(Above(y, S, key))
<1>1. key[x] \in Seq(Int) /\ key[y] \in Seq(Int)
  OBVIOUS
<1>2. Above(y, S, key) \subseteq Above(x, S, key)
  <2> SUFFICES ASSUME NEW z \in S, Precedes(key[y], key[z]) PROVE Precedes(key[x], key[z])
    BY DEF Above
  <2>1. key[z] \in Seq(Int)
    OBVIOUS
  <2>2. QED BY <1>1, <2>1, PrecedesTransitive
<1>3. y \in Above(x, S, key) /\ y \notin Above(y, S, key)
  BY <1>1, PrecedesIrreflexive DEF Above
<1>4. Above(x, S, key) \in SUBSET S
  BY DEF Above
<1>5. IsFiniteSet(Above(x, S, key))
  BY <1>4, FS_Subset
<1>6. Above(y, S, key) \in SUBSET Above(x, S, key) /\ Above(x, S, key) # Above(y, S, key)
  BY <1>2, <1>3
<1>7. QED BY <1>5, <1>6, FS_Subset

(* Every rank below the number of the members is somebody's.                *)
LEMMA RanksAreTaken ==
    ASSUME NEW S, IsFiniteSet(S), NEW key \in [S -> Seq(Int)],
           \A x, y \in S : key[x] = key[y] => x = y
    PROVE  /\ Cardinality(S) \in Nat
           /\ \A r \in 0 .. Cardinality(S) - 1 :
                 \E x \in S : Cardinality(Above(x, S, key)) = r
           /\ \A x \in S : Cardinality(Above(x, S, key)) \in 0 .. Cardinality(S) - 1
           /\ \A x, y \in S : Cardinality(Above(x, S, key)) = Cardinality(Above(y, S, key)) => x = y
<1> DEFINE n == Cardinality(S)
           T == 0 .. n - 1
           rank == [x \in S |-> Cardinality(Above(x, S, key))]
<1>1. n \in Nat
  BY FS_CardinalityType
<1>2. ASSUME NEW x \in S PROVE Cardinality(Above(x, S, key)) \in T
  <2>1. key[x] \in Seq(Int)
    OBVIOUS
  <2>2. Above(x, S, key) \in SUBSET (S \ {x})
    BY <2>1, PrecedesIrreflexive DEF Above
  <2>3. IsFiniteSet(S \ {x}) /\ Cardinality(S \ {x}) = n - 1
    BY FS_RemoveElement
  <2>4. IsFiniteSet(Above(x, S, key)) /\ Cardinality(Above(x, S, key)) <= n - 1
    BY <2>2, <2>3, FS_Subset
  <2>5. Cardinality(Above(x, S, key)) \in Nat
    BY <2>4, FS_CardinalityType
  <2>6. QED BY <1>1, <2>4, <2>5
<1>3. ASSUME NEW x \in S, NEW y \in S,
             Cardinality(Above(x, S, key)) = Cardinality(Above(y, S, key))
      PROVE  x = y
  <2> SUFFICES ASSUME x # y PROVE FALSE
    OBVIOUS
  <2>1. key[x] \in Seq(Int) /\ key[y] \in Seq(Int) /\ key[x] # key[y]
    OBVIOUS
  <2>2. Precedes(key[x], key[y]) \/ Precedes(key[y], key[x])
    BY <2>1, PrecedesTotal
  <2>3. QED BY <1>3, <2>2, RanksDiffer
<1>4. rank \in Injection(S, T)
  <2>1. rank \in [S -> T]
    BY <1>2
  <2>2. \A x, y \in S : rank[x] = rank[y] => x = y
    BY <1>3
  <2> HIDE DEF rank, T
  <2>3. QED BY <2>1, <2>2 DEF Injection, IsInjective
<1>5. IsFiniteSet(T) /\ Cardinality(T) = n
  <2>1. 0 \in Int /\ n - 1 \in Int
    BY <1>1
  <2>2. IsFiniteSet(0 .. n - 1) /\ Cardinality(0 .. n - 1) = IF 0 > n - 1 THEN 0 ELSE (n - 1) - 0 + 1
    BY <2>1, FS_Interval
  <2>3. QED BY <1>1, <2>2
<1> HIDE DEF rank, T
<1>6. rank \in Surjection(S, T)
  BY <1>4, <1>5, FS_Injection
<1>7. \A r \in T : \E x \in S : rank[x] = r
  BY <1>6 DEF Surjection
<1>8. QED BY <1>1, <1>2, <1>3, <1>7 DEF rank, T

(* A descending order lists every member once.                              *)
LEMMA DescendingEnumerates ==
    ASSUME NEW S, IsFiniteSet(S), NEW key \in [S -> Seq(Int)],
           \A x, y \in S : key[x] = key[y] => x = y
    PROVE  Enumerates(Descending(S, key), S)
<1> DEFINE n == Cardinality(S)
           d == Descending(S, key)
<1>1. /\ n \in Nat
      /\ \A r \in 0 .. n - 1 : \E x \in S : Cardinality(Above(x, S, key)) = r
      /\ \A x \in S : Cardinality(Above(x, S, key)) \in 0 .. n - 1
      /\ \A x, y \in S : Cardinality(Above(x, S, key)) = Cardinality(Above(y, S, key)) => x = y
  BY RanksAreTaken
<1>2. d = [k \in 1 .. n |-> CHOOSE x \in S : Cardinality(Above(x, S, key)) = k - 1]
  BY DEF Descending, Above
<1>3. ASSUME NEW k \in 1 .. n
      PROVE  d[k] \in S /\ Cardinality(Above(d[k], S, key)) = k - 1
  <2>1. k - 1 \in 0 .. n - 1
    BY <1>1
  <2>2. \E x \in S : Cardinality(Above(x, S, key)) = k - 1
    BY <1>1, <2>1
  <2>3. d[k] = CHOOSE x \in S : Cardinality(Above(x, S, key)) = k - 1
    BY <1>2
  <2> HIDE DEF d
  <2>4. QED BY <2>2, <2>3
<1>4. DOMAIN d = 1 .. n
  BY <1>2
<1> HIDE DEF d
<1>5. d \in Seq(S) /\ Len(d) = n
  <2>1. d = [k \in 1 .. n |-> d[k]]
    BY <1>2
  <2>2. \A k \in 1 .. n : d[k] \in S
    BY <1>3
  <2>3. d \in Seq(S)
    BY <1>1, <2>1, <2>2, IsASeq
  <2>4. QED BY <1>1, <1>4, <2>3
<1>6. ASSUME NEW i \in 1 .. n, NEW j \in 1 .. n, d[i] = d[j]
      PROVE  i = j
  <2>1. i - 1 = j - 1
    BY <1>3, <1>6
  <2>2. QED BY <1>1, <2>1
<1>7. ASSUME NEW x \in S PROVE \E i \in 1 .. n : d[i] = x
  <2>1. PICK r \in 0 .. n - 1 : Cardinality(Above(x, S, key)) = r
    BY <1>1
  <2>2. r + 1 \in 1 .. n /\ (r + 1) - 1 = r
    BY <1>1
  <2>3. d[r + 1] \in S /\ Cardinality(Above(d[r + 1], S, key)) = r
    BY <1>3, <2>2
  <2>4. d[r + 1] = x
    BY <1>1, <2>1, <2>3
  <2>5. QED BY <2>2, <2>4
<1>8. QED BY <1>5, <1>6, <1>7 DEF Enumerates, d

(* Somebody has nobody above.                                               *)
LEMMA BestExists ==
    ASSUME NEW S, IsFiniteSet(S), S # {}, NEW key \in [S -> Seq(Int)],
           \A x, y \in S : key[x] = key[y] => x = y
    PROVE  \E x \in S : \A y \in S : ~ Precedes(key[x], key[y])
<1>1. Cardinality(S) \in Nat \ {0}
  BY FS_CardinalityType, FS_EmptySet
<1>2. 0 \in 0 .. Cardinality(S) - 1
  BY <1>1
<1>3. PICK x \in S : Cardinality(Above(x, S, key)) = 0
  BY <1>2, RanksAreTaken
<1>4. Above(x, S, key) \in SUBSET S
  BY DEF Above
<1>5. IsFiniteSet(Above(x, S, key))
  BY <1>4, FS_Subset
<1>6. Above(x, S, key) = {}
  BY <1>3, <1>5, FS_EmptySet
<1>7. QED BY <1>6 DEF Above

-----------------------------------------------------------------------------
(* The cache: of entries that hold the embedding of their own key.          *)
Vectors(T) == {[key |-> t, vector |-> t] : t \in T}

Distinct(c) == \A i, j \in DOMAIN c : c[i].key = c[j].key => i = j

Caches(T) == {c \in Seq(Vectors(T)) : Len(c) <= MaxEntries /\ Distinct(c)}

(* The place of the last use of a key in a history of uses.                 *)
Uses0(key, all) == {0} \cup {i \in DOMAIN all : all[i] = key}
LastIn(key, all) == Max(Uses0(key, all))

(* It is one of the places, and no other is later.                          *)
LEMMA LastInIsMax ==
    ASSUME NEW T, NEW all \in Seq(T), NEW key
    PROVE  /\ LastIn(key, all) \in Uses0(key, all)
           /\ \A i \in Uses0(key, all) : i <= LastIn(key, all)
<1> DEFINE U == Uses0(key, all)
           Bounds == {m \in Nat : \A i \in U : i <= m}
<1>1. /\ U \in SUBSET Nat /\ 0 \in U
      /\ Len(all) \in Nat /\ \A i \in U : i <= Len(all)
  BY DEF Uses0
<1>2. Bounds \in SUBSET Nat /\ Bounds # {}
  BY <1>1
<1>3. PICK m \in Bounds : \A x \in Bounds : ~ (<<x, m>> \in LessThan)
  BY <1>2, LessThanIsWellFounded, WFMin
<1>4. m \in Nat /\ \A i \in U : i <= m
  BY <1>3
<1>5. m \in U
  <2> SUFFICES ASSUME m \notin U PROVE FALSE
    OBVIOUS
  <2>1. m # 0 /\ m - 1 \in Nat
    BY <1>1, <1>4
  <2>2. \A i \in U : i <= m - 1
    BY <1>1, <1>4, <2>1
  <2>3. m - 1 \in Bounds /\ <<m - 1, m>> \in LessThan
    BY <1>4, <2>1, <2>2 DEF LessThan
  <2>4. QED BY <1>3, <2>3
<1>6. Max(U) \in U /\ \A i \in U : Max(U) >= i
  <2>1. m \in U /\ \A i \in U : m >= i
    BY <1>1, <1>4, <1>5
  <2>2. QED BY <2>1 DEF Max
<1>7. QED BY <1>1, <1>6 DEF LastIn

(* A use is the last of its key, and leaves those of the others.            *)
LEMMA LastInAppend ==
    ASSUME NEW T, NEW all \in Seq(T), NEW x \in T, NEW key
    PROVE  /\ LastIn(x, Append(all, x)) = Len(all) + 1
           /\ key # x => LastIn(key, Append(all, x)) = LastIn(key, all)
           /\ LastIn(key, all) \in Nat /\ LastIn(key, all) <= Len(all)
<1> DEFINE more == Append(all, x)
<1>1. /\ more \in Seq(T) /\ Len(all) \in Nat
      /\ DOMAIN all = 1 .. Len(all) /\ DOMAIN more = 1 .. Len(all) + 1
      /\ more[Len(all) + 1] = x /\ \A i \in 1 .. Len(all) : more[i] = all[i]
      /\ \A i \in 1 .. Len(all) + 1 : i \in 1 .. Len(all) \/ i = Len(all) + 1
      /\ \A i \in 1 .. Len(all) : i \in 1 .. Len(all) + 1
  OBVIOUS
<1> HIDE DEF more
<1>2. LastIn(x, more) = Len(all) + 1
  <2>1. /\ LastIn(x, more) \in Uses0(x, more)
        /\ \A i \in Uses0(x, more) : i <= LastIn(x, more)
    BY <1>1, LastInIsMax
  <2>2. Len(all) + 1 \in Uses0(x, more) /\ \A i \in Uses0(x, more) : i \in Nat /\ i <= Len(all) + 1
    BY <1>1 DEF Uses0
  <2>3. QED BY <1>1, <2>1, <2>2
<1>3. ASSUME key # x PROVE LastIn(key, more) = LastIn(key, all)
  <2>1. \A i : i \in Uses0(key, more) => i \in Uses0(key, all)
    BY <1>1, <1>3 DEF Uses0
  <2>2. \A i : i \in Uses0(key, all) => i \in Uses0(key, more)
    BY <1>1, <1>3 DEF Uses0
  <2>3. Uses0(key, more) = Uses0(key, all)
    BY <2>1, <2>2
  <2>4. QED BY <2>3 DEF LastIn
<1>4. LastIn(key, all) \in Nat /\ LastIn(key, all) <= Len(all)
  <2>1. LastIn(key, all) \in Uses0(key, all)
    BY LastInIsMax
  <2>2. QED BY <1>1, <2>1 DEF Uses0
<1>5. QED BY <1>2, <1>3, <1>4 DEF more

(* An entry taken out leaves the others where they are.                     *)
LEMMA WithoutKey ==
    ASSUME NEW T, NEW c \in Caches(T), NEW key
    PROVE  /\ Without(c, key) \in Seq(Vectors(T))
           /\ Len(Without(c, key)) <= MaxEntries
           /\ key \in Keys(c) => Len(Without(c, key)) + 1 <= MaxEntries
           /\ \A i \in DOMAIN Without(c, key) : Without(c, key)[i].key # key
           /\ \A i \in DOMAIN c : c[i].key # key =>
                 \E j \in DOMAIN Without(c, key) : Without(c, key)[j] = c[i]
           /\ \A i, j \in DOMAIN Without(c, key) : i < j =>
                 \E k, l \in DOMAIN c :
                    k < l /\ Without(c, key)[i] = c[k] /\ Without(c, key)[j] = c[l]
           /\ \A i \in DOMAIN Without(c, key) : \E k \in DOMAIN c : Without(c, key)[i] = c[k]
<1> DEFINE w == Without(c, key)
<1>1. /\ c \in Seq(Vectors(T)) /\ Len(c) <= MaxEntries /\ Distinct(c)
      /\ Len(c) \in Nat /\ DOMAIN c = 1 .. Len(c) /\ MaxEntries \in Nat
  BY MaxEntriesAssumption DEF Caches
<1>2. CASE key \notin Keys(c)
  <2>1. \A i \in 1 .. Len(c) : c[i].key # key
    BY <1>1, <1>2 DEF Keys
  <2>2. w = c
    BY <2>1 DEF Without, RemoveFirstMatch
  <2>3. QED BY <1>1, <1>2, <2>1, <2>2
<1>3. CASE key \in Keys(c)
  <2>1. PICK p \in 1 .. Len(c) : c[p].key = key
    BY <1>1, <1>3 DEF Keys
  <2>2. {i \in 1 .. Len(c) : c[i].key = key} = {p}
    BY <1>1, <2>1 DEF Distinct
  <2>3. Min({p}) = p
    BY <2>1 DEF Min
  <2>4. w = RemoveAt(c, p)
    BY <2>1, <2>2, <2>3 DEF Without, RemoveFirstMatch, SelectInSeq
  <2>5. /\ w \in Seq(Vectors(T)) /\ Len(w) = Len(c) - 1
        /\ \A i \in 1 .. Len(w) : w[i] = c[IF i < p THEN i ELSE i + 1]
    <3>1. w = SubSeq(c, 1, p - 1) \o SubSeq(c, p + 1, Len(c))
      BY <2>4 DEF RemoveAt
    <3>2. /\ SubSeq(c, 1, p - 1) \in Seq(Vectors(T)) /\ Len(SubSeq(c, 1, p - 1)) = p - 1
          /\ \A i \in 1 .. p - 1 : SubSeq(c, 1, p - 1)[i] = c[i]
      BY <1>1, <2>1
    <3>3. /\ SubSeq(c, p + 1, Len(c)) \in Seq(Vectors(T))
          /\ Len(SubSeq(c, p + 1, Len(c))) = Len(c) - p
          /\ \A i \in 1 .. Len(c) - p : SubSeq(c, p + 1, Len(c))[i] = c[i + p]
      <4>1. /\ p + 1 \in Int /\ Len(c) \in Int
            /\ \A i \in p + 1 .. Len(c) : c[i] \in Vectors(T)
        BY <1>1, <2>1
      <4>2. /\ SubSeq(c, p + 1, Len(c)) \in Seq(Vectors(T))
            /\ Len(SubSeq(c, p + 1, Len(c)))
                  = IF p + 1 <= Len(c) THEN Len(c) - (p + 1) + 1 ELSE 0
            /\ \A i \in 1 .. Len(c) - (p + 1) + 1 :
                  SubSeq(c, p + 1, Len(c))[i] = c[p + 1 + i - 1]
        BY <4>1, SubSeqProperties
      <4>3. /\ Len(c) - (p + 1) + 1 = Len(c) - p
            /\ (IF p + 1 <= Len(c) THEN Len(c) - (p + 1) + 1 ELSE 0) = Len(c) - p
            /\ \A i \in 1 .. Len(c) - p : p + 1 + i - 1 = i + p
        <5>1. \A n \in Nat : \A k \in 1 .. n :
                 /\ n - (k + 1) + 1 = n - k
                 /\ (IF k + 1 <= n THEN n - (k + 1) + 1 ELSE 0) = n - k
                 /\ \A i \in 1 .. n - k : k + 1 + i - 1 = i + k
          <6> SUFFICES ASSUME NEW n \in Nat, NEW k \in 1 .. n
                       PROVE  /\ n - (k + 1) + 1 = n - k
                              /\ (IF k + 1 <= n THEN n - (k + 1) + 1 ELSE 0) = n - k
                              /\ \A i \in 1 .. n - k : k + 1 + i - 1 = i + k
            OBVIOUS
          <6>1. n - (k + 1) + 1 = n - k
            OBVIOUS
          <6>2. (IF k + 1 <= n THEN n - (k + 1) + 1 ELSE 0) = n - k
            OBVIOUS
          <6>3. \A i \in 1 .. n - k : k + 1 + i - 1 = i + k
            OBVIOUS
          <6>4. QED BY <6>1, <6>2, <6>3
        <5>2. QED BY <1>1, <2>1, <5>1
      <4>4. QED BY <4>2, <4>3
    <3> DEFINE a == SubSeq(c, 1, p - 1)
               b == SubSeq(c, p + 1, Len(c))
    <3> HIDE DEF a, b, w
    <3>4. /\ w = a \o b /\ a \in Seq(Vectors(T)) /\ b \in Seq(Vectors(T))
          /\ Len(a) = p - 1 /\ Len(b) = Len(c) - p
          /\ \A i \in 1 .. p - 1 : a[i] = c[i]
          /\ \A i \in 1 .. Len(c) - p : b[i] = c[i + p]
      BY <3>1, <3>2, <3>3 DEF a, b
    <3>5. w \in Seq(Vectors(T)) /\ Len(w) = Len(c) - 1
      <4>1. w \in Seq(Vectors(T)) /\ Len(w) = Len(a) + Len(b)
        BY <3>4, ConcatProperties
      <4>2. QED BY <1>1, <2>1, <3>4, <4>1
    <3>6. ASSUME NEW i \in 1 .. Len(w)
          PROVE  w[i] = c[IF i < p THEN i ELSE i + 1]
      <4>1. CASE i < p
        BY <2>1, <3>4, <3>5, <4>1
      <4>2. CASE ~ i < p
        <5>1. i - (p - 1) \in 1 .. Len(c) - p /\ (i - (p - 1)) + p = i + 1
          BY <1>1, <2>1, <3>5, <4>2
        <5>2. w[i] = b[i - (p - 1)]
          BY <1>1, <2>1, <3>4, <3>5, <4>2
        <5>3. QED BY <3>4, <4>2, <5>1, <5>2
      <4>3. QED BY <4>1, <4>2
    <3>7. QED BY <3>5, <3>6
  <2> HIDE DEF w
  <2> DEFINE At(i) == IF i < p THEN i ELSE i + 1
  <2>6. /\ DOMAIN w = 1 .. Len(w) /\ Len(w) + 1 <= MaxEntries /\ Len(w) <= MaxEntries
        /\ \A i \in 1 .. Len(w) : At(i) \in 1 .. Len(c) /\ At(i) # p /\ w[i] = c[At(i)]
        /\ \A i, j \in 1 .. Len(w) : i < j => At(i) < At(j)
    BY <1>1, <2>1, <2>5
  <2>7. \A k \in 1 .. Len(c) : k # p => \E i \in 1 .. Len(w) : At(i) = k
    <3> SUFFICES ASSUME NEW k \in 1 .. Len(c), k # p PROVE \E i \in 1 .. Len(w) : At(i) = k
      OBVIOUS
    <3>1. CASE k < p
      <4>1. k \in 1 .. Len(w) /\ At(k) = k
        BY <1>1, <2>1, <2>5, <3>1
      <4>2. QED BY <4>1
    <3>2. CASE ~ k < p
      <4>1. k - 1 \in 1 .. Len(w) /\ At(k - 1) = k
        BY <1>1, <2>1, <2>5, <3>2
      <4>2. QED BY <4>1
    <3>3. QED BY <3>1, <3>2
  <2> HIDE DEF At
  <2>8. \A k \in 1 .. Len(c) : c[k].key # key <=> k # p
    BY <1>1, <2>1 DEF Distinct
  <2>9. \A i \in DOMAIN w : w[i].key # key
    BY <2>6, <2>8
  <2>10. \A i \in DOMAIN c : c[i].key # key => \E j \in DOMAIN w : w[j] = c[i]
    BY <1>1, <2>6, <2>7, <2>8
  <2>11. \A i, j \in DOMAIN w : i < j =>
            \E k, l \in DOMAIN c : k < l /\ w[i] = c[k] /\ w[j] = c[l]
    BY <1>1, <2>6
  <2>12. \A i \in DOMAIN w : \E k \in DOMAIN c : w[i] = c[k]
    BY <1>1, <2>6
  <2>13. QED BY <2>5, <2>6, <2>9, <2>10, <2>11, <2>12 DEF w
<1>4. QED BY <1>2, <1>3

(* A cache against the history of its uses: its entries are in the order of *)
(* their last uses, and every key it has lost was used before all of them.  *)
Ordered(c, all) ==
    /\ \A i, j \in DOMAIN c : i < j => LastIn(c[i].key, all) < LastIn(c[j].key, all)
    /\ \A key \in ToSet(all) \ Keys(c), i \in DOMAIN c :
          LastIn(key, all) < LastIn(c[i].key, all)
    /\ Keys(c) \subseteq ToSet(all)

OwnEntry(x) == [key |-> x, vector |-> x]

Moved(c, x) == Append(Without(c, x), OwnEntry(x))

(* An entry used becomes the newest. *)
LEMMA UsedIsNewest ==
    ASSUME NEW T, NEW c \in Caches(T), NEW all \in Seq(T), Ordered(c, all), NEW x \in T
    PROVE  /\ Moved(c, x) \in Seq(Vectors(T)) /\ Distinct(Moved(c, x))
           /\ Ordered(Moved(c, x), Append(all, x))
           /\ Keys(Moved(c, x)) = Keys(c) \cup {x}
           /\ Len(Moved(c, x)) <= MaxEntries + 1
           /\ x \in Keys(c) => Len(Moved(c, x)) <= MaxEntries
<1> DEFINE d == Without(c, x)
           more == Append(all, x)
           n == Len(d)
           w == Moved(c, x)
<1>1. w = Append(d, OwnEntry(x))
  BY DEF Moved
<1> HIDE DEF w
<1>2. /\ c \in Seq(Vectors(T)) /\ Distinct(c) /\ MaxEntries \in Nat
      /\ \A i \in DOMAIN c : c[i].key \in T /\ i \in Nat
      /\ DOMAIN c = 1 .. Len(c)
  BY MaxEntriesAssumption DEF Caches, Vectors
<1>3. /\ d \in Seq(Vectors(T)) /\ Len(d) <= MaxEntries
      /\ x \in Keys(c) => Len(d) + 1 <= MaxEntries
      /\ \A i \in DOMAIN d : d[i].key # x
      /\ \A i \in DOMAIN c : c[i].key # x => \E j \in DOMAIN d : d[j] = c[i]
      /\ \A i, j \in DOMAIN d : i < j =>
            \E k, l \in DOMAIN c : k < l /\ d[i] = c[k] /\ d[j] = c[l]
      /\ \A i \in DOMAIN d : \E k \in DOMAIN c : d[i] = c[k]
  BY WithoutKey
<1> HIDE DEF d
<1>4. OwnEntry(x) \in Vectors(T) /\ OwnEntry(x).key = x
  BY DEF OwnEntry, Vectors
<1>5. /\ w \in Seq(Vectors(T)) /\ n \in Nat /\ DOMAIN d = 1 .. n /\ DOMAIN w = 1 .. n + 1
      /\ Len(w) = n + 1 /\ w[n + 1] = OwnEntry(x) /\ \A i \in 1 .. n : w[i] = d[i]
      /\ \A i \in 1 .. n + 1 : i \in 1 .. n \/ i = n + 1
      /\ \A i \in 1 .. n : i \in 1 .. n + 1 /\ i # n + 1 /\ i < n + 1
      /\ n + 1 \in 1 .. n + 1
      /\ \A i, j \in 1 .. n + 1 : i < j => i \in 1 .. n
  <2>1. w = Append(d, OwnEntry(x)) /\ n \in Nat
    BY <1>1, <1>3
  <2>2. QED BY <1>3, <1>4, <2>1
<1>6. /\ \A i, j \in 1 .. n : i < j =>
            \E k, l \in DOMAIN c : k < l /\ d[i] = c[k] /\ d[j] = c[l]
      /\ \A i \in 1 .. n : \E k \in DOMAIN c : d[i] = c[k]
  <2>1. DOMAIN d = 1 .. n
    BY <1>5
  <2> HIDE DEF n
  <2>2. QED BY <1>3, <2>1
<1>7. Len(w) <= MaxEntries + 1 /\ (x \in Keys(c) => Len(w) <= MaxEntries)
  BY <1>2, <1>3, <1>5
<1>8. \A i \in 1 .. n : d[i].key \in T /\ d[i].key # x
  BY <1>2, <1>3, <1>5
<1>9. Distinct(w)
  <2> SUFFICES ASSUME NEW i \in 1 .. n + 1, NEW j \in 1 .. n + 1, w[i].key = w[j].key, i < j
               PROVE  FALSE
    BY <1>5 DEF Distinct
  <2>1. i \in 1 .. n
    BY <1>5
  <2>2. CASE j = n + 1
    BY <1>4, <1>5, <1>8, <2>1, <2>2
  <2>3. CASE j \in 1 .. n
    <3>1. PICK k \in DOMAIN c : \E l \in DOMAIN c : k < l /\ d[i] = c[k] /\ d[j] = c[l]
      BY <1>6, <2>1, <2>3
    <3>2. PICK l \in DOMAIN c : k < l /\ d[i] = c[k] /\ d[j] = c[l]
      BY <3>1
    <3>3. c[k].key = c[l].key
      BY <1>5, <2>1, <2>3, <3>2
    <3>4. k = l
      BY <1>2, <3>3 DEF Distinct
    <3>5. QED BY <1>2, <3>4, <3>2
  <2>4. QED BY <1>5, <2>2, <2>3
<1>10. Keys(w) = Keys(c) \cup {x}
  <2>1. ASSUME NEW key \in Keys(w) PROVE key \in Keys(c) \cup {x}
    <3>1. PICK i \in 1 .. n + 1 : key = w[i].key
      BY <1>5 DEF Keys
    <3>2. CASE i = n + 1
      BY <1>4, <1>5, <3>1, <3>2
    <3>3. CASE i \in 1 .. n
      <4>1. PICK k \in DOMAIN c : d[i] = c[k]
        BY <1>3, <1>5, <3>3
      <4>2. QED BY <1>5, <3>1, <3>3, <4>1 DEF Keys
    <3>4. QED BY <1>5, <3>2, <3>3
  <2>2. x \in Keys(w)
    BY <1>4, <1>5 DEF Keys
  <2>3. ASSUME NEW key \in Keys(c), key # x PROVE key \in Keys(w)
    <3>1. PICK i \in DOMAIN c : key = c[i].key
      BY DEF Keys
    <3>2. PICK j \in DOMAIN d : d[j] = c[i]
      BY <1>3, <2>3, <3>1
    <3>3. QED BY <1>5, <3>1, <3>2 DEF Keys
  <2>4. QED BY <2>1, <2>2, <2>3
<1>11. /\ LastIn(x, more) = Len(all) + 1
       /\ \A key : key # x => LastIn(key, more) = LastIn(key, all)
       /\ \A key : LastIn(key, all) \in Nat /\ LastIn(key, all) < Len(all) + 1
       /\ Len(all) \in Nat
  <2>1. \A key : /\ LastIn(x, more) = Len(all) + 1
                 /\ key # x => LastIn(key, more) = LastIn(key, all)
                 /\ LastIn(key, all) \in Nat /\ LastIn(key, all) <= Len(all)
    BY LastInAppend
  <2>2. Len(all) \in Nat
    OBVIOUS
  <2>3. QED BY <2>1, <2>2
<1>12. ToSet(more) = ToSet(all) \cup {x}
  <2>1. /\ DOMAIN more = 1 .. Len(all) + 1 /\ DOMAIN all = 1 .. Len(all)
        /\ more[Len(all) + 1] = x /\ \A i \in 1 .. Len(all) : more[i] = all[i]
        /\ \A i \in 1 .. Len(all) + 1 : i \in 1 .. Len(all) \/ i = Len(all) + 1
        /\ \A i \in 1 .. Len(all) : i \in 1 .. Len(all) + 1
        /\ Len(all) + 1 \in 1 .. Len(all) + 1
    OBVIOUS
  <2> HIDE DEF more
  <2>2. ASSUME NEW y \in ToSet(more) PROVE y \in ToSet(all) \cup {x}
    BY <2>1 DEF ToSet
  <2>3. x \in ToSet(more)
    BY <2>1 DEF ToSet
  <2>4. ASSUME NEW y \in ToSet(all) PROVE y \in ToSet(more)
    BY <2>1 DEF ToSet
  <2>5. QED BY <2>2, <2>3, <2>4
<1> HIDE DEF more
<1>13. ASSUME NEW i \in 1 .. n + 1, NEW j \in 1 .. n + 1, i < j
       PROVE  LastIn(w[i].key, more) < LastIn(w[j].key, more)
  <2>1. i \in 1 .. n /\ w[i] = d[i] /\ LastIn(w[i].key, more) = LastIn(w[i].key, all)
    BY <1>5, <1>8, <1>11, <1>13
  <2>2. CASE j = n + 1
    BY <1>4, <1>5, <1>11, <2>1, <2>2
  <2>3. CASE j \in 1 .. n
    <3>1. PICK k \in DOMAIN c : \E l \in DOMAIN c : k < l /\ d[i] = c[k] /\ d[j] = c[l]
      BY <1>13, <1>6, <2>1, <2>3
    <3>2. PICK l \in DOMAIN c : k < l /\ d[i] = c[k] /\ d[j] = c[l]
      BY <3>1
    <3>3. LastIn(c[k].key, all) < LastIn(c[l].key, all)
      BY <3>2 DEF Ordered
    <3>4. w[j] = d[j] /\ LastIn(w[j].key, more) = LastIn(w[j].key, all)
      BY <1>5, <1>8, <1>11, <2>3
    <3>5. QED BY <2>1, <3>3, <3>4, <3>2
  <2>4. QED BY <1>5, <2>2, <2>3
<1>14. ASSUME NEW key \in ToSet(more) \ Keys(w), NEW i \in 1 .. n + 1
       PROVE  LastIn(key, more) < LastIn(w[i].key, more)
  <2>1. key # x /\ key \in ToSet(all) \ Keys(c) /\ LastIn(key, more) = LastIn(key, all)
    BY <1>10, <1>11, <1>12
  <2>2. CASE i = n + 1
    BY <1>4, <1>5, <1>11, <2>1, <2>2
  <2>3. CASE i \in 1 .. n
    <3>1. PICK k \in DOMAIN c : d[i] = c[k]
      BY <1>3, <1>5, <2>3
    <3>2. LastIn(key, all) < LastIn(c[k].key, all)
      BY <2>1 DEF Ordered
    <3>3. w[i] = d[i] /\ LastIn(w[i].key, more) = LastIn(w[i].key, all)
      BY <1>5, <1>8, <1>11, <2>3
    <3>4. QED BY <2>1, <3>1, <3>2, <3>3
  <2>4. QED BY <1>5, <2>2, <2>3
<1>15. Keys(w) \subseteq ToSet(more)
  BY <1>10, <1>12 DEF Ordered
<1>16. Ordered(w, more)
  BY <1>5, <1>13, <1>14, <1>15 DEF Ordered
<1>17. QED BY <1>5, <1>7, <1>9, <1>10, <1>16 DEF more, w

(* The entry that is evicted was used before all that stay. *)
LEMMA EvictedIsOldest ==
    ASSUME NEW T, NEW w \in Seq(Vectors(T)), Distinct(w), NEW all \in Seq(T),
           Ordered(w, all), Len(w) = MaxEntries + 1
    PROVE  Newest(w) \in Caches(T) /\ Ordered(Newest(w), all)
<1> DEFINE v == Newest(w)
<1>1. /\ MaxEntries \in Nat \ {0} /\ DOMAIN w = 1 .. MaxEntries + 1
      /\ \A i \in DOMAIN w : i \in Nat
  BY MaxEntriesAssumption
<1>2. v = SubSeq(w, 2, MaxEntries + 1)
  BY <1>1 DEF Newest
<1>3. /\ v \in Seq(Vectors(T)) /\ Len(v) = MaxEntries
      /\ \A i \in 1 .. MaxEntries : v[i] = w[i + 1]
  <2>1. /\ 2 \in Int /\ MaxEntries + 1 \in Int
        /\ \A i \in 2 .. MaxEntries + 1 : w[i] \in Vectors(T)
    BY <1>1
  <2>2. PICK last \in Int : last = MaxEntries + 1
    BY <2>1
  <2>3. \A i \in 2 .. last : w[i] \in Vectors(T)
    BY <2>1, <2>2
  <2>4. /\ SubSeq(w, 2, last) \in Seq(Vectors(T))
        /\ Len(SubSeq(w, 2, last)) = IF 2 <= last THEN last - 2 + 1 ELSE 0
        /\ \A i \in 1 .. last - 2 + 1 : SubSeq(w, 2, last)[i] = w[2 + i - 1]
    BY <2>1, <2>3, SubSeqProperties
  <2>5. /\ last - 2 + 1 = MaxEntries /\ 2 <= last
        /\ \A i \in 1 .. MaxEntries : 2 + i - 1 = i + 1
    BY <1>1, <2>2
  <2>6. v = SubSeq(w, 2, last)
    BY <1>2, <2>2
  <2> HIDE DEF v
  <2>7. QED BY <2>4, <2>5, <2>6
<1> HIDE DEF v
<1>4. /\ DOMAIN v = 1 .. MaxEntries
      /\ \A i \in 1 .. MaxEntries : i + 1 \in DOMAIN w
      /\ \A i, j \in 1 .. MaxEntries : i < j => i + 1 < j + 1
      /\ \A i, j \in 1 .. MaxEntries : i + 1 = j + 1 => i = j
      /\ \A i \in 1 .. MaxEntries : 1 < i + 1
      /\ 1 \in DOMAIN w
      /\ \A i \in DOMAIN w : i = 1 \/ \E j \in 1 .. MaxEntries : i = j + 1
  <2>1. \A i \in 1 .. MaxEntries + 1 : i = 1 \/ (i - 1 \in 1 .. MaxEntries /\ i = (i - 1) + 1)
    BY <1>1
  <2>2. \A i \in DOMAIN w : i = 1 \/ \E j \in 1 .. MaxEntries : i = j + 1
    BY <1>1, <2>1
  <2>3. DOMAIN v = 1 .. MaxEntries
    BY <1>1, <1>3
  <2>4. QED BY <1>1, <2>2, <2>3
<1>5. Distinct(v)
  <2> SUFFICES ASSUME NEW i \in 1 .. MaxEntries, NEW j \in 1 .. MaxEntries,
                      v[i].key = v[j].key
               PROVE  i = j
    BY <1>4 DEF Distinct
  <2>1. w[i + 1].key = w[j + 1].key /\ i + 1 \in DOMAIN w /\ j + 1 \in DOMAIN w
    BY <1>3, <1>4
  <2>2. i + 1 = j + 1
    BY <2>1 DEF Distinct
  <2>3. QED BY <1>4, <2>2
<1>6. \A i, j \in DOMAIN v : i < j => LastIn(v[i].key, all) < LastIn(v[j].key, all)
  <2> SUFFICES ASSUME NEW i \in 1 .. MaxEntries, NEW j \in 1 .. MaxEntries, i < j
               PROVE  LastIn(v[i].key, all) < LastIn(v[j].key, all)
    BY <1>4
  <2>1. i + 1 \in DOMAIN w /\ j + 1 \in DOMAIN w /\ i + 1 < j + 1
    BY <1>4
  <2>2. LastIn(w[i + 1].key, all) < LastIn(w[j + 1].key, all)
    BY <2>1 DEF Ordered
  <2>3. QED BY <1>3, <2>2
<1>7. Keys(v) \subseteq Keys(w)
  BY <1>3, <1>4 DEF Keys
<1>8. ASSUME NEW key \in ToSet(all) \ Keys(v), NEW i \in DOMAIN v
      PROVE  LastIn(key, all) < LastIn(v[i].key, all)
  <2>1. CASE key \notin Keys(w)
    <3>1. key \in ToSet(all) \ Keys(w)
      BY <1>8, <2>1
    <3>2. v[i] = w[i + 1] /\ i + 1 \in DOMAIN w
      BY <1>3, <1>4, <1>8
    <3>3. LastIn(key, all) < LastIn(w[i + 1].key, all)
      BY <3>1, <3>2 DEF Ordered
    <3>4. QED BY <3>2, <3>3
  <2>2. CASE key \in Keys(w)
    <3>1. PICK k \in DOMAIN w : key = w[k].key
      BY <2>2 DEF Keys
    <3>2. k = 1
      <4> SUFFICES ASSUME k # 1 PROVE FALSE
        OBVIOUS
      <4>1. PICK j \in 1 .. MaxEntries : k = j + 1
        BY <1>4
      <4>2. v[j] = w[k] /\ j \in DOMAIN v
        BY <1>3, <1>4, <4>1
      <4>3. key \in Keys(v)
        BY <3>1, <4>2 DEF Keys
      <4>4. QED BY <1>8, <4>3
    <3>3. v[i] = w[i + 1] /\ i + 1 \in DOMAIN w /\ 1 < i + 1
      BY <1>3, <1>4
    <3>4. QED BY <3>1, <3>2, <3>3 DEF Ordered
  <2>3. QED BY <2>1, <2>2
<1>9. Ordered(v, all)
  BY <1>6, <1>7, <1>8 DEF Ordered
<1>10. v \in Caches(T)
  BY <1>1, <1>3, <1>5 DEF Caches
<1>11. QED BY <1>9, <1>10 DEF v

(* get, of a key the cache holds, is a use of it.                           *)
LEMMA GetIsUse ==
    ASSUME NEW T, NEW c \in Caches(T), NEW all \in Seq(T), Ordered(c, all),
           NEW x \in T, x \in Keys(c)
    PROVE  /\ Get(c, x) \in Caches(T) /\ Keys(Get(c, x)) = Keys(c)
           /\ Ordered(Get(c, x), Append(all, x))
<1>1. /\ c \in Seq(Vectors(T)) /\ Distinct(c) /\ DOMAIN c = 1 .. Len(c)
      /\ \A i \in DOMAIN c : c[i] = OwnEntry(c[i].key) /\ c[i].key \in T
  BY DEF Caches, Vectors, OwnEntry
<1>2. PICK p \in 1 .. Len(c) : c[p].key = x
  BY <1>1 DEF Keys
<1>3. Lookup(c, x) = OwnEntry(x)
  <2>1. {i \in 1 .. Len(c) : c[i].key = x} = {p}
    BY <1>1, <1>2 DEF Distinct
  <2>2. Min({p}) = p
    BY <1>2 DEF Min
  <2>3. Lookup(c, x) = c[p]
    BY <2>1, <2>2 DEF Lookup, SelectInSeq
  <2>4. QED BY <1>1, <1>2, <2>3
<1>4. Get(c, x) = Append(Without(c, x), OwnEntry(x))
  BY <1>3 DEF Get
<1>5. Get(c, x) = Moved(c, x)
  BY <1>4 DEF Moved
<1>6. /\ Moved(c, x) \in Seq(Vectors(T)) /\ Distinct(Moved(c, x))
      /\ Ordered(Moved(c, x), Append(all, x))
      /\ Keys(Moved(c, x)) = Keys(c) \cup {x}
      /\ Len(Moved(c, x)) <= MaxEntries
  BY UsedIsNewest
<1>7. Keys(c) \cup {x} = Keys(c)
  OBVIOUS
<1>8. QED BY <1>5, <1>6, <1>7 DEF Caches

(* put, of a key the cache may hold or lack, is a use of it.                *)
LEMMA PutIsUse ==
    ASSUME NEW T, NEW c \in Caches(T), NEW all \in Seq(T), Ordered(c, all), NEW x \in T
    PROVE  /\ Put(c, OwnEntry(x)) \in Caches(T)
           /\ Ordered(Put(c, OwnEntry(x)), Append(all, x))
<1> DEFINE w == Moved(c, x)
           more == Append(all, x)
<1>1. /\ w \in Seq(Vectors(T)) /\ Distinct(w) /\ Ordered(w, more)
      /\ Len(w) <= MaxEntries + 1 /\ Len(w) \in Nat
  <2>1. /\ w \in Seq(Vectors(T)) /\ Distinct(w) /\ Ordered(w, Append(all, x))
        /\ Len(w) <= MaxEntries + 1
    BY UsedIsNewest
  <2> HIDE DEF w
  <2>2. QED BY <2>1
<1>2. OwnEntry(x).key = x
  BY DEF OwnEntry
<1>3. Put(c, OwnEntry(x)) = IF Len(w) > MaxEntries THEN Newest(w) ELSE w
  BY <1>2 DEF Put, Moved
<1>4. more \in Seq(T) /\ MaxEntries \in Nat
  BY MaxEntriesAssumption
<1> HIDE DEF w, more
<1>5. CASE Len(w) > MaxEntries
  <2>1. Len(w) = MaxEntries + 1
    BY <1>1, <1>4, <1>5
  <2>2. Newest(w) \in Caches(T) /\ Ordered(Newest(w), more)
    BY <1>1, <1>4, <2>1, EvictedIsOldest
  <2>3. QED BY <1>3, <1>5, <2>2 DEF more
<1>6. CASE ~ Len(w) > MaxEntries
  BY <1>1, <1>3, <1>4, <1>6 DEF Caches, more
<1>7. QED BY <1>5, <1>6

(* A history that grows use by use. *)
Begun(s, i) == [k \in 1 .. i |-> s[k]]

(* A history goes on with the next use.                                     *)
LEMMA HistoryGrows ==
    ASSUME NEW T, NEW all \in Seq(T), NEW s \in Seq(T), NEW j \in Nat, j < Len(s)
    PROVE  /\ all \o Begun(s, j + 1) = Append(all \o Begun(s, j), s[j + 1])
           /\ all \o Begun(s, j) \in Seq(T)
<1> DEFINE a == Begun(s, j + 1)
           b == Begun(s, j)
           n == Len(all)
<1>1. /\ j + 1 <= Len(s) /\ n \in Nat /\ s[j + 1] \in T
      /\ \A k \in 1 .. j + 1 : s[k] \in T
      /\ \A k \in 1 .. j : s[k] \in T
  OBVIOUS
<1>2. /\ a \in Seq(T) /\ Len(a) = j + 1 /\ \A k \in 1 .. j + 1 : a[k] = s[k]
      /\ b \in Seq(T) /\ Len(b) = j /\ \A k \in 1 .. j : b[k] = s[k]
  BY <1>1 DEF Begun
<1> HIDE DEF a, b
<1>3. /\ all \o a \in Seq(T) /\ Len(all \o a) = n + (j + 1)
      /\ \A k \in 1 .. n + (j + 1) : (all \o a)[k] = IF k <= n THEN all[k] ELSE a[k - n]
  <2>1. /\ all \o a \in Seq(T) /\ Len(all \o a) = n + Len(a)
        /\ \A k \in 1 .. n + Len(a) : (all \o a)[k] = IF k <= n THEN all[k] ELSE a[k - n]
    BY <1>2, ConcatProperties
  <2>2. QED BY <1>2, <2>1
<1>4. /\ all \o b \in Seq(T) /\ Len(all \o b) = n + j
      /\ \A k \in 1 .. n + j : (all \o b)[k] = IF k <= n THEN all[k] ELSE b[k - n]
  <2>1. /\ all \o b \in Seq(T) /\ Len(all \o b) = n + Len(b)
        /\ \A k \in 1 .. n + Len(b) : (all \o b)[k] = IF k <= n THEN all[k] ELSE b[k - n]
    BY <1>2, ConcatProperties
  <2>2. QED BY <1>2, <2>1
<1> DEFINE u == all \o a
           v == all \o b
           w == Append(v, s[j + 1])
<1>5. /\ v \in Seq(T) /\ Len(v) = n + j
      /\ w \in Seq(T) /\ Len(w) = n + (j + 1) /\ w[n + (j + 1)] = s[j + 1]
      /\ \A k \in 1 .. n + j : w[k] = v[k]
  <2> HIDE DEF v
  <2>1. v \in Seq(T) /\ Len(v) = n + j
    BY <1>4 DEF v
  <2>2. Len(v) + 1 = n + (j + 1) /\ DOMAIN v = 1 .. n + j
    BY <1>1, <2>1
  <2>3. QED BY <1>1, <2>1, <2>2
<1>6. /\ u \in Seq(T) /\ Len(u) = n + (j + 1)
      /\ \A k \in 1 .. n + (j + 1) : u[k] = IF k <= n THEN all[k] ELSE a[k - n]
      /\ \A k \in 1 .. n + j : v[k] = IF k <= n THEN all[k] ELSE b[k - n]
  BY <1>3, <1>4
<1> HIDE DEF u, v, w
<1>7. ASSUME NEW k \in 1 .. n + (j + 1) PROVE u[k] = w[k]
  <2>1. CASE k = n + (j + 1)
    <3>1. ~ k <= n /\ k - n = j + 1 /\ j + 1 \in 1 .. j + 1
      BY <1>1, <2>1
    <3>2. u[k] = a[j + 1]
      BY <1>6, <3>1
    <3>3. QED BY <1>2, <1>5, <2>1, <3>1, <3>2
  <2>2. CASE k <= n
    <3>1. k \in 1 .. n + j
      BY <1>1, <2>2
    <3>2. QED BY <1>5, <1>6, <2>2, <3>1
  <2>3. CASE k > n /\ k # n + (j + 1)
    <3>1. k \in 1 .. n + j /\ k - n \in 1 .. j /\ k - n \in 1 .. j + 1 /\ ~ k <= n
      BY <1>1, <2>3
    <3>2. u[k] = a[k - n] /\ w[k] = b[k - n]
      BY <1>5, <1>6, <3>1
    <3>3. QED BY <1>2, <3>1, <3>2
  <2>4. QED BY <1>1, <2>1, <2>2, <2>3
<1>8. u = w
  BY <1>5, <1>6, <1>7, SeqEqual
<1>9. v \in Seq(T)
  BY <1>5
<1>10. QED BY <1>8, <1>9 DEF u, v, w, a, b

(* It begins with what there was and ends with all of the uses.             *)
LEMMA BegunEnds ==
    ASSUME NEW T, NEW all \in Seq(T), NEW s \in Seq(T)
    PROVE  all \o Begun(s, 0) = all /\ all \o Begun(s, Len(s)) = all \o s
<1>1. Begun(s, 0) = <<>> /\ Begun(s, Len(s)) = s
  BY DEF Begun
<1>2. all \o <<>> = all
  BY ConcatEmptySeq
<1>3. QED BY <1>1, <1>2

(* The digests of entries are the texts they embed.                         *)
LEMMA DigestsAreTexts ==
    ASSUME NEW T, NEW E, NEW s \in Seq(E), \A e \in E : Digest(e) \in T
    PROVE  /\ Digests(s) \in Seq(T) /\ Len(Digests(s)) = Len(s)
           /\ \A i \in 1 .. Len(s) : Digests(s)[i] = Digest(s[i])
<1>1. \A i \in 1 .. Len(s) : s[i] \in E
  OBVIOUS
<1>2. Len(s) \in Nat /\ DOMAIN s = 1 .. Len(s)
  OBVIOUS
<1>3. QED BY <1>1, <1>2 DEF Digests

(* The loop over the memories the cache holds is a use of each: it keeps    *)
(* the keys, and the order of their last uses.                              *)
LEMMA HitsAreUses ==
    ASSUME NEW T, NEW c \in Caches(T), NEW all \in Seq(T), Ordered(c, all),
           NEW E, NEW hits \in Seq(E), \A e \in E : Digest(e) \in T /\ Digest(e) \in Keys(c)
    PROVE  /\ AfterHits(hits, c) \in Caches(T) /\ Keys(AfterHits(hits, c)) = Keys(c)
           /\ Ordered(AfterHits(hits, c), all \o Digests(hits))
<1> DEFINE n == Len(hits)
           s == Digests(hits)
           V == {v \in Caches(T) : Keys(v) = Keys(c)
                                   /\ \E uses \in Seq(T) : Ordered(v, uses)}
           turn == [p \in V \X (1 .. n) |-> Get(p[1], Digest(hits[p[2]]))]
           Body(f) == [i \in 0 .. n |->
               IF i = 0 THEN c ELSE Get(f[i - 1], Digest(hits[i]))]
<1>1. n \in Nat /\ c \in V
  OBVIOUS
<1>2. \A i \in 1 .. n : hits[i] \in E /\ Digest(hits[i]) \in T /\ Digest(hits[i]) \in Keys(c)
  OBVIOUS
<1>3. /\ s \in Seq(T) /\ Len(s) = n
      /\ \A i \in 1 .. n : s[i] = Digest(hits[i])
  BY DigestsAreTexts
<1> HIDE DEF s
<1>4. turn \in [V \X (1 .. n) -> V]
  <2> SUFFICES ASSUME NEW v \in V, NEW i \in 1 .. n
               PROVE  Get(v, Digest(hits[i])) \in V
    OBVIOUS
  <2>1. PICK x \in T : x = Digest(hits[i])
    BY <1>2
  <2>2. x \in Keys(v) /\ v \in Caches(T) /\ Keys(v) = Keys(c)
    BY <1>2, <2>1
  <2>3. PICK uses \in Seq(T) : Ordered(v, uses)
    OBVIOUS
  <2>4. /\ Get(v, x) \in Caches(T) /\ Keys(Get(v, x)) = Keys(v)
        /\ Ordered(Get(v, x), Append(uses, x))
    BY <2>2, <2>3, GetIsUse
  <2>5. Append(uses, x) \in Seq(T)
    OBVIOUS
  <2>6. QED BY <2>1, <2>2, <2>4, <2>5
<1>5. \A v \in V, i \in 1 .. n : turn[<<v, i>>] = Get(v, Digest(hits[i]))
  OBVIOUS
<1>6. \A v \in V : v \in Caches(T) /\ Keys(v) = Keys(c)
  OBVIOUS
<1> HIDE DEF turn, V
<1>7. PICK f : Turns(f, n, V, c, turn)
  BY <1>1, <1>4, LoopRuns
<1>8. f = Body(f)
  <2>1. f = [i \in 0 .. n |-> f[i]]
    BY <1>7 DEF Turns
  <2>2. ASSUME NEW i \in 0 .. n
        PROVE  f[i] = IF i = 0 THEN c ELSE Get(f[i - 1], Digest(hits[i]))
    <3>1. CASE i = 0
      BY <1>7, <3>1 DEF Turns
    <3>2. CASE i # 0
      <4>1. i \in 1 .. n /\ i - 1 \in 0 .. n
        BY <1>1, <3>2
      <4>2. f[i - 1] \in V /\ f[i] = turn[<<f[i - 1], i>>]
        BY <1>7, <4>1 DEF Turns
      <4>3. QED BY <1>5, <3>2, <4>1, <4>2
    <3>3. QED BY <3>1, <3>2
  <2>3. QED BY <2>1, <2>2
<1>9. PICK after : after = (CHOOSE h : h = Body(h))
  OBVIOUS
<1>10. after = Body(after) /\ AfterHits(hits, c) = after[n]
  <2>1. after = Body(after)
    BY <1>8, <1>9
  <2>2. QED BY <1>9, <2>1 DEF AfterHits
<1> DEFINE G == {i \in 0 .. n : after[i] \in V /\ Ordered(after[i], all \o Begun(s, i))}
<1>11. 0 \in G
  <2>1. after[0] = c /\ 0 \in 0 .. n
    BY <1>1, <1>10
  <2>2. all \o Begun(s, 0) = all
    BY <1>3, BegunEnds
  <2>3. QED BY <1>1, <2>1, <2>2
<1>12. ASSUME NEW i \in 1 .. n, i - 1 \in G
       PROVE  i \in G
  <2>1. PICK j \in Nat : j = i - 1
    BY <1>1
  <2>2. i \in 0 .. n /\ i # 0 /\ j < Len(s) /\ j + 1 = i
    BY <1>1, <1>3, <2>1
  <2>3. after[j] \in V /\ Ordered(after[j], all \o Begun(s, j))
    BY <1>12, <2>1
  <2>4. after[i] = Get(after[j], s[i])
    BY <1>3, <1>10, <2>1, <2>2
  <2>5. after[i] = turn[<<after[j], i>>]
    BY <1>3, <1>5, <2>3, <2>4
  <2>6. after[i] \in V
    BY <1>4, <2>3, <2>5
  <2>7. /\ all \o Begun(s, j + 1) = Append(all \o Begun(s, j), s[j + 1])
        /\ all \o Begun(s, j) \in Seq(T)
    BY <1>3, <2>2, HistoryGrows
  <2>8. s[i] \in T /\ s[i] \in Keys(after[j]) /\ after[j] \in Caches(T)
    BY <1>2, <1>3, <1>6, <2>3
  <2>9. PICK uses \in Seq(T) : uses = all \o Begun(s, j)
    BY <2>7
  <2>10. Ordered(Get(after[j], s[i]), Append(uses, s[i]))
    BY <2>3, <2>8, <2>9, GetIsUse
  <2>11. Ordered(after[i], all \o Begun(s, i))
    BY <2>2, <2>4, <2>7, <2>9, <2>10
  <2>12. QED BY <2>2, <2>6, <2>11
<1> HIDE DEF G
<1>13. \A i \in 0 .. n : i \in G
  BY <1>1, <1>11, <1>12, LoopKeeps
<1>14. n \in 0 .. n
  BY <1>1
<1>15. after[n] \in V /\ Ordered(after[n], all \o Begun(s, n))
  BY <1>13, <1>14 DEF G
<1>16. all \o Begun(s, n) = all \o s
  BY <1>3, BegunEnds
<1>17. QED BY <1>6, <1>10, <1>15, <1>16 DEF s

(* The loop over the embeddings just computed is a use of each.             *)
LEMMA PutsAreUses ==
    ASSUME NEW T, NEW c \in Caches(T), NEW all \in Seq(T), Ordered(c, all),
           NEW E, NEW pending \in Seq(E), \A e \in E : Digest(e) \in T
    PROVE  /\ AfterPuts(pending, c) \in Caches(T)
           /\ Ordered(AfterPuts(pending, c), all \o Digests(pending))
<1> DEFINE n == Len(pending)
           s == Digests(pending)
           V == {v \in Caches(T) : \E uses \in Seq(T) : Ordered(v, uses)}
           turn == [p \in V \X (1 .. n) |-> Put(p[1], Stored(pending[p[2]]))]
           Body(f) == [i \in 0 .. n |->
               IF i = 0 THEN c ELSE Put(f[i - 1], Stored(pending[i]))]
<1>1. n \in Nat /\ c \in V
  OBVIOUS
<1>2. \A i \in 1 .. n : pending[i] \in E /\ Digest(pending[i]) \in T /\ Stored(pending[i]) = OwnEntry(Digest(pending[i]))
  <2>1. \A e : Stored(e) = OwnEntry(Digest(e))
    BY DEF Stored, Digest, OwnEntry
  <2>2. QED BY <2>1
<1>3. /\ s \in Seq(T) /\ Len(s) = n
      /\ \A i \in 1 .. n : s[i] = Digest(pending[i])
  BY DigestsAreTexts
<1> HIDE DEF s
<1>4. turn \in [V \X (1 .. n) -> V]
  <2> SUFFICES ASSUME NEW v \in V, NEW i \in 1 .. n
               PROVE  Put(v, Stored(pending[i])) \in V
    OBVIOUS
  <2>1. PICK x \in T : x = Digest(pending[i]) /\ Stored(pending[i]) = OwnEntry(x)
    BY <1>2
  <2>2. v \in Caches(T)
    BY <1>2, <2>1
  <2>3. PICK uses \in Seq(T) : Ordered(v, uses)
    OBVIOUS
  <2>4. /\ Put(v, OwnEntry(x)) \in Caches(T)
        /\ Ordered(Put(v, OwnEntry(x)), Append(uses, x))
    BY <2>2, <2>3, PutIsUse
  <2>5. Append(uses, x) \in Seq(T)
    OBVIOUS
  <2>6. QED BY <2>1, <2>2, <2>4, <2>5
<1>5. \A v \in V, i \in 1 .. n : turn[<<v, i>>] = Put(v, Stored(pending[i]))
  OBVIOUS
<1>6. \A v \in V : v \in Caches(T)
  OBVIOUS
<1> HIDE DEF turn, V
<1>7. PICK f : Turns(f, n, V, c, turn)
  BY <1>1, <1>4, LoopRuns
<1>8. f = Body(f)
  <2>1. f = [i \in 0 .. n |-> f[i]]
    BY <1>7 DEF Turns
  <2>2. ASSUME NEW i \in 0 .. n
        PROVE  f[i] = IF i = 0 THEN c ELSE Put(f[i - 1], Stored(pending[i]))
    <3>1. CASE i = 0
      BY <1>7, <3>1 DEF Turns
    <3>2. CASE i # 0
      <4>1. i \in 1 .. n /\ i - 1 \in 0 .. n
        BY <1>1, <3>2
      <4>2. f[i - 1] \in V /\ f[i] = turn[<<f[i - 1], i>>]
        BY <1>7, <4>1 DEF Turns
      <4>3. QED BY <1>5, <3>2, <4>1, <4>2
    <3>3. QED BY <3>1, <3>2
  <2>3. QED BY <2>1, <2>2
<1>9. PICK after : after = (CHOOSE h : h = Body(h))
  OBVIOUS
<1>10. after = Body(after) /\ AfterPuts(pending, c) = after[n]
  <2>1. after = Body(after)
    BY <1>8, <1>9
  <2>2. QED BY <1>9, <2>1 DEF AfterPuts
<1> DEFINE G == {i \in 0 .. n : after[i] \in V /\ Ordered(after[i], all \o Begun(s, i))}
<1>11. 0 \in G
  <2>1. after[0] = c /\ 0 \in 0 .. n
    BY <1>1, <1>10
  <2>2. all \o Begun(s, 0) = all
    BY <1>3, BegunEnds
  <2>3. QED BY <1>1, <2>1, <2>2
<1>12. ASSUME NEW i \in 1 .. n, i - 1 \in G
       PROVE  i \in G
  <2>1. PICK j \in Nat : j = i - 1
    BY <1>1
  <2>2. i \in 0 .. n /\ i # 0 /\ j < Len(s) /\ j + 1 = i
    BY <1>1, <1>3, <2>1
  <2>3. after[j] \in V /\ Ordered(after[j], all \o Begun(s, j))
    BY <1>12, <2>1
  <2>4. after[i] = Put(after[j], OwnEntry(s[i]))
    BY <1>2, <1>3, <1>10, <2>1, <2>2
  <2>5. after[i] = turn[<<after[j], i>>]
    BY <1>2, <1>3, <1>5, <2>3, <2>4
  <2>6. after[i] \in V
    BY <1>4, <2>3, <2>5
  <2>7. /\ all \o Begun(s, j + 1) = Append(all \o Begun(s, j), s[j + 1])
        /\ all \o Begun(s, j) \in Seq(T)
    BY <1>3, <2>2, HistoryGrows
  <2>8. s[i] \in T /\ after[j] \in Caches(T)
    BY <1>2, <1>3, <1>6, <2>3
  <2>9. PICK uses \in Seq(T) : uses = all \o Begun(s, j)
    BY <2>7
  <2>10. Ordered(Put(after[j], OwnEntry(s[i])), Append(uses, s[i]))
    BY <2>3, <2>8, <2>9, PutIsUse
  <2>11. Ordered(after[i], all \o Begun(s, i))
    BY <2>2, <2>4, <2>7, <2>9, <2>10
  <2>12. QED BY <2>2, <2>6, <2>11
<1> HIDE DEF G
<1>13. \A i \in 0 .. n : i \in G
  BY <1>1, <1>11, <1>12, LoopKeeps
<1>14. n \in 0 .. n
  BY <1>1
<1>15. after[n] \in V /\ Ordered(after[n], all \o Begun(s, n))
  BY <1>13, <1>14 DEF G
<1>16. all \o Begun(s, n) = all \o s
  BY <1>3, BegunEnds
<1>17. QED BY <1>6, <1>10, <1>15, <1>16 DEF s

(* What a cache holds is a history of uses that leaves it in this order.    *)
KeysInOrder(c) == [i \in DOMAIN c |-> c[i].key]

(* Such a history orders the cache as it stands.                            *)
LEMMA KeysAreHistory ==
    ASSUME NEW T, NEW c \in Caches(T)
    PROVE  KeysInOrder(c) \in Seq(T) /\ Ordered(c, KeysInOrder(c))
<1> DEFINE all == KeysInOrder(c)
<1>1. /\ c \in Seq(Vectors(T)) /\ Distinct(c) /\ DOMAIN c = 1 .. Len(c) /\ Len(c) \in Nat
      /\ \A i \in 1 .. Len(c) : c[i].key \in T /\ i \in Nat /\ i > 0
  BY DEF Caches, Vectors
<1>2. /\ all \in Seq(T) /\ DOMAIN all = 1 .. Len(c)
      /\ \A i \in 1 .. Len(c) : all[i] = c[i].key
  BY <1>1 DEF KeysInOrder
<1> HIDE DEF all
<1>3. ASSUME NEW i \in 1 .. Len(c) PROVE LastIn(c[i].key, all) = i
  <2>1. /\ LastIn(c[i].key, all) \in Uses0(c[i].key, all)
        /\ \A j \in Uses0(c[i].key, all) : j <= LastIn(c[i].key, all)
    BY <1>2, LastInIsMax
  <2>2. \A j \in Uses0(c[i].key, all) : j = 0 \/ j = i
    BY <1>1, <1>2 DEF Uses0, Distinct
  <2>3. i \in Uses0(c[i].key, all)
    BY <1>2 DEF Uses0
  <2>4. QED BY <1>1, <2>1, <2>2, <2>3
<1>4. Keys(c) = ToSet(all)
  BY <1>1, <1>2 DEF Keys, ToSet
<1>5. Ordered(c, all)
  BY <1>1, <1>3, <1>4 DEF Ordered
<1>6. QED BY <1>2, <1>5 DEF all

(* _memory_vectors: the hits and then the misses are the uses of a context. *)
LEMMA EmbeddingIsUse ==
    ASSUME NEW T, NEW c \in Caches(T), NEW all \in Seq(T), Ordered(c, all),
           NEW E, NEW admitted \in Seq(E), \A e \in E : Digest(e) \in T
    PROVE  /\ AfterHits(Hits(admitted, c), c) \in Caches(T)
           /\ Keys(AfterHits(Hits(admitted, c), c)) = Keys(c)
           /\ AfterPuts(Pending(admitted, c), AfterHits(Hits(admitted, c), c)) \in Caches(T)
           /\ Ordered(AfterPuts(Pending(admitted, c), AfterHits(Hits(admitted, c), c)),
                      all \o (Digests(Hits(admitted, c)) \o Digests(Pending(admitted, c))))
<1> DEFINE Known == {e \in ToSet(admitted) : Digest(e) \in Keys(c)}
           Lacked == {e \in ToSet(admitted) : Digest(e) \notin Keys(c)}
           Hit == ToSet(admitted) \cap Known
           Asked == ToSet(admitted) \cap Lacked
<1>1. Hits(admitted, c) \in Seq(Hit) /\ Pending(admitted, c) \in Seq(Asked)
  BY ThoseMembers DEF Hits, Pending
<1>2. ToSet(admitted) \subseteq E
  BY DEF ToSet
<1>3. /\ \A e \in Hit : Digest(e) \in T /\ Digest(e) \in Keys(c)
      /\ \A e \in Asked : Digest(e) \in T
  BY <1>2
<1> HIDE DEF Hit, Asked
<1>4. PICK hits \in Seq(Hit) : hits = Hits(admitted, c)
  BY <1>1
<1>5. PICK pending \in Seq(Asked) : pending = Pending(admitted, c)
  BY <1>1
<1>6. /\ AfterHits(hits, c) \in Caches(T) /\ Keys(AfterHits(hits, c)) = Keys(c)
      /\ Ordered(AfterHits(hits, c), all \o Digests(hits))
  BY <1>3, HitsAreUses
<1>7. Digests(hits) \in Seq(T) /\ Digests(pending) \in Seq(T)
  BY <1>3, DigestsAreTexts
<1>8. PICK between \in Seq(T) : between = all \o Digests(hits)
  <2>1. all \o Digests(hits) \in Seq(T)
    BY <1>7, ConcatProperties
  <2>2. QED BY <2>1
<1>9. PICK read \in Caches(T) : read = AfterHits(hits, c)
  BY <1>6
<1>10. /\ AfterPuts(pending, read) \in Caches(T)
       /\ Ordered(AfterPuts(pending, read), between \o Digests(pending))
  BY <1>3, <1>6, <1>8, <1>9, PutsAreUses
<1>11. between \o Digests(pending) = all \o (Digests(hits) \o Digests(pending))
  BY <1>7, <1>8, ConcatAssociative
<1>12. QED BY <1>4, <1>5, <1>6, <1>9, <1>10, <1>11

-----------------------------------------------------------------------------
(* What was remembered is as it was told, but for its status and lineage,   *)
(* and was created at its place.                                            *)
Texts == {e.embeds : e \in UNION {ToSet(remembered) : remembered \in Stories}}

Passing == {"status", "created", "supersededBy", "supersededAt"}

Lasts(e, f) == DOMAIN f = DOMAIN e /\ \A field \in Fields \ Passing : f[field] = e[field]

Remembers(kept, told) ==
    /\ kept \in Seq(ToSet(kept)) /\ Len(kept) <= Len(told)
    /\ \A i \in 1 .. Len(kept) :
          WellFormed(kept[i]) /\ kept[i].id = told[i].id /\ kept[i].embeds = told[i].embeds
              /\ kept[i].created = i

RememberedInv == story \in Stories /\ Remembers(memories, story)

CacheInv == cache \in Caches(Texts)

(* What ContextAssumption says of a story, by its places.                   *)
LEMMA StoriesAreDistinct ==
    ASSUME NEW remembered \in Stories
    PROVE  /\ remembered \in Seq(ToSet(remembered))
           /\ \A i \in 1 .. Len(remembered) :
                 WellFormed(remembered[i]) /\ remembered[i].embeds \in Texts
           /\ \A i, j \in 1 .. Len(remembered) : remembered[i].id = remembered[j].id => i = j
<1>1. /\ remembered \in Seq(ToSet(remembered))
      /\ \A i \in DOMAIN remembered : WellFormed(remembered[i])
      /\ \A i, j \in DOMAIN remembered : remembered[i].id = remembered[j].id => i = j
  BY ContextAssumption
<1>2. DOMAIN remembered = 1 .. Len(remembered)
  BY <1>1
<1>3. ASSUME NEW i \in DOMAIN remembered PROVE remembered[i].embeds \in Texts
  <2>1. remembered[i] \in ToSet(remembered)
    BY DEF ToSet
  <2>2. QED BY <2>1 DEF Texts
<1>4. QED BY <1>1, <1>2, <1>3

(* A sequence is one of its own members.                                    *)
LEMMA SeqOfItself ==
    ASSUME NEW S, NEW s \in Seq(S)
    PROVE  s \in Seq(ToSet(s))
<1>1. \A i \in 1 .. Len(s) : s[i] \in ToSet(s)
  BY DEF ToSet
<1>2. s = [i \in 1 .. Len(s) |-> s[i]] /\ Len(s) \in Nat
  OBVIOUS
<1>3. QED BY <1>1, <1>2, IsASeq

(* What lasts of an entry is all that makes it one.                         *)
LEMMA LastingIsWellFormed ==
    ASSUME NEW e, WellFormed(e), NEW f, Lasts(e, f)
    PROVE  WellFormed(f) /\ f.id = e.id /\ f.embeds = e.embeds
<1>1. /\ f.kind = e.kind /\ f.travel = e.travel /\ f.source = e.source /\ f.chars = e.chars
      /\ f.identity = e.identity /\ f.time = e.time /\ f.tokens = e.tokens
      /\ f.words = e.words /\ f.phrases = e.phrases /\ f.entities = e.entities
      /\ f.tags = e.tags /\ f.id = e.id /\ f.embeds = e.embeds
  BY DEF Lasts, Fields, Passing
<1>2. Fields \subseteq DOMAIN f
  BY DEF Lasts, WellFormed
<1>3. QED BY <1>1, <1>2 DEF WellFormed

(* What is stored of an entry is what was told of it, created now.          *)
LEMMA NewKeeps ==
    ASSUME NEW e, WellFormed(e)
    PROVE  /\ WellFormed(New(e)) /\ New(e).id = e.id /\ New(e).embeds = e.embeds
           /\ New(e).created = Len(memories) + 1
<1>1. Passing \subseteq DOMAIN e
  BY DEF WellFormed, Fields, Passing
<1>2. PICK f : f = New(e)
  OBVIOUS
<1>3. DOMAIN f = DOMAIN e /\ f.created = Len(memories) + 1
  BY <1>1, <1>2 DEF New, Passing
<1>4. \A field \in DOMAIN e \ Passing : f[field] = e[field]
  BY <1>2 DEF New, Passing
<1>5. Lasts(e, f)
  BY <1>3, <1>4 DEF Lasts, WellFormed
<1>6. QED BY <1>2, <1>3, <1>5, LastingIsWellFormed

(* A step of the memories: one more of the story, or one that is changed.   *)
LEMMA RemembersMore ==
    ASSUME NEW kept, NEW told \in Stories, Remembers(kept, told), Len(kept) < Len(told),
           Len(kept) = Len(memories)
    PROVE  Remembers(Append(kept, New(told[Len(kept) + 1])), told)
<1> DEFINE n == Len(kept)
           more == Append(kept, New(told[n + 1]))
<1>1. told \in Seq(ToSet(told)) /\ \A i \in 1 .. Len(told) : WellFormed(told[i])
  BY StoriesAreDistinct
<1>2. /\ kept \in Seq(ToSet(kept))
      /\ \A i \in 1 .. n :
            WellFormed(kept[i]) /\ kept[i].id = told[i].id /\ kept[i].embeds = told[i].embeds
                /\ kept[i].created = i
  BY DEF Remembers
<1>3. n \in Nat /\ Len(told) \in Nat /\ n + 1 \in 1 .. Len(told)
  BY <1>1, <1>2
<1>4. PICK last : last = New(told[n + 1])
  OBVIOUS
<1>5. /\ WellFormed(last) /\ last.id = told[n + 1].id /\ last.embeds = told[n + 1].embeds
      /\ last.created = n + 1
  BY <1>1, <1>3, <1>4, NewKeeps
<1>6. /\ more \in Seq(ToSet(kept) \cup {last}) /\ Len(more) = n + 1 /\ more[n + 1] = last
      /\ \A i \in 1 .. n : more[i] = kept[i]
      /\ \A i \in 1 .. n + 1 : i \in 1 .. n \/ i = n + 1
  <2>1. kept \in Seq(ToSet(kept) \cup {last})
    BY <1>2
  <2>2. more = Append(kept, last)
    BY <1>4
  <2>3. QED BY <1>3, <2>1, <2>2
<1> HIDE DEF more
<1>7. more \in Seq(ToSet(more))
  BY <1>6, SeqOfItself
<1>8. Remembers(more, told)
  BY <1>2, <1>3, <1>5, <1>6, <1>7 DEF Remembers
<1>9. QED BY <1>8 DEF more

(* A change of status keeps what was remembered.                            *)
LEMMA RemembersChanged ==
    ASSUME NEW kept, NEW told, Remembers(kept, told), NEW place \in 1 .. Len(kept), NEW entry,
           WellFormed(entry), entry.id = kept[place].id, entry.embeds = kept[place].embeds,
           entry.created = kept[place].created
    PROVE  /\ Remembers([kept EXCEPT ![place] = entry], told)
           /\ Len([kept EXCEPT ![place] = entry]) = Len(kept)
<1> DEFINE changed == [kept EXCEPT ![place] = entry]
<1>1. /\ kept \in Seq(ToSet(kept)) /\ Len(kept) <= Len(told)
      /\ \A i \in 1 .. Len(kept) :
            WellFormed(kept[i]) /\ kept[i].id = told[i].id /\ kept[i].embeds = told[i].embeds
                /\ kept[i].created = i
  BY DEF Remembers
<1>2. /\ changed \in Seq(ToSet(kept) \cup {entry}) /\ Len(changed) = Len(kept)
      /\ \A i \in 1 .. Len(kept) : changed[i] = IF i = place THEN entry ELSE kept[i]
  <2>1. kept \in Seq(ToSet(kept) \cup {entry}) /\ entry \in ToSet(kept) \cup {entry}
    BY <1>1
  <2>2. QED BY <2>1
<1> HIDE DEF changed
<1>3. changed \in Seq(ToSet(changed))
  BY <1>2, SeqOfItself
<1>4. Remembers(changed, told) /\ Len(changed) = Len(kept)
  BY <1>1, <1>2, <1>3 DEF Remembers
<1>5. QED BY <1>4 DEF changed

ContextInv == config \in Configs /\ RememberedInv /\ CacheInv

(* Nothing is remembered or cached at first.                                *)
LEMMA InitRemembered == Init => ContextInv
<1> SUFFICES ASSUME Init PROVE ContextInv
  OBVIOUS
<1>1. memories = <<>> /\ cache = <<>> /\ story \in Stories /\ config \in Configs
  BY DEF Init
<1>2. story \in Seq(ToSet(story))
  BY <1>1, StoriesAreDistinct
<1>3. RememberedInv
  BY <1>1, <1>2 DEF RememberedInv, Remembers
<1>4. CacheInv
  BY <1>1, MaxEntriesAssumption DEF CacheInv, Caches, Distinct
<1>5. QED BY <1>1, <1>3, <1>4 DEF ContextInv

(* What a query admits is memories; each is the only one of its identifier. *)
LEMMA AdmittedAreMemories ==
    ASSUME RememberedInv, NEW q
    PROVE  /\ Admitted(q) \in Seq(ToSet(memories))
           /\ \A e \in ToSet(memories) : Digest(e) \in Texts /\ EntryOf(e.id) = e
<1> DEFINE M == ToSet(memories)
<1>1. \A status : WithStatus(status) \in Seq(M)
  <2> TAKE status
  <2>1. memories \in Seq(M)
    BY DEF RememberedInv, Remembers
  <2> DEFINE S == {e \in M : e.status = status}
  <2>2. Those(memories, S) \in Seq(M \cap S)
    BY <2>1, ThoseMembers
  <2>3. Seq(M \cap S) \subseteq Seq(M)
    OBVIOUS
  <2>4. QED BY <2>2, <2>3 DEF WithStatus
<1>2. Pool \in Seq(M)
  <2> DEFINE rest == IF config.strategy = "hybrid" /\ config.temporal
                     THEN WithStatus("superseded") ELSE <<>>
  <2>1. WithStatus("active") \in Seq(M) /\ rest \in Seq(M)
    BY <1>1
  <2> HIDE DEF rest
  <2>2. WithStatus("active") \o rest \in Seq(M)
    BY <2>1, ConcatProperties
  <2>3. QED BY <2>2 DEF Pool, rest
<1>3. Admitted(q) \in Seq(M)
  <2> DEFINE S == {e \in ToSet(Pool) : Reason(e, q, Intent(q)) = None}
  <2>1. Those(Pool, S) \in Seq(ToSet(Pool) \cap S)
    BY <1>2, ThoseMembers
  <2>2. ToSet(Pool) \subseteq M
    BY <1>2 DEF ToSet
  <2>3. Seq(ToSet(Pool) \cap S) \subseteq Seq(M)
    BY <2>2
  <2>4. QED BY <2>1, <2>3 DEF Admitted
<1>4. ASSUME NEW e \in M
      PROVE  Digest(e) \in Texts /\ EntryOf(e.id) = e
  <2>1. PICK i \in 1 .. Len(memories) : e = memories[i]
    BY DEF ToSet, RememberedInv
  <2>2. /\ i \in 1 .. Len(story) /\ e.id = story[i].id /\ e.embeds = story[i].embeds
        /\ story \in Stories
    <3>1. Len(memories) \in Nat /\ Len(story) \in Nat /\ Len(memories) <= Len(story)
      BY StoriesAreDistinct DEF RememberedInv, Remembers
    <3>2. QED BY <2>1, <3>1 DEF RememberedInv, Remembers
  <2>3. Digest(e) \in Texts
    BY <2>2, StoriesAreDistinct DEF Digest
  <2>4. ASSUME NEW f \in M, f.id = e.id PROVE f = e
    <3>1. PICK j \in 1 .. Len(memories) : f = memories[j]
      BY DEF ToSet, RememberedInv
    <3>2. j \in 1 .. Len(story) /\ f.id = story[j].id
      <4>1. Len(memories) \in Nat /\ Len(story) \in Nat /\ Len(memories) <= Len(story)
        BY StoriesAreDistinct DEF RememberedInv, Remembers
      <4>2. QED BY <3>1, <4>1 DEF RememberedInv, Remembers
    <3>3. i = j
      BY <2>2, <2>4, <3>2, StoriesAreDistinct
    <3>4. QED BY <2>1, <3>1, <3>3
  <2>5. EntryOf(e.id) = e
    BY <2>4 DEF EntryOf
  <2>6. QED BY <2>3, <2>5
<1>5. QED BY <1>3, <1>4

(* The vector used for a memory is the embedding of its own text.           *)
LEMMA VectorIsOwn ==
    ASSUME CacheInv, NEW e
    PROVE  VectorOf(e, cache) = e.embeds
<1>1. CASE Digest(e) \notin Keys(cache)
  BY <1>1 DEF VectorOf
<1>2. CASE Digest(e) \in Keys(cache)
  <2>1. /\ cache \in Seq(Vectors(Texts)) /\ Distinct(cache) /\ DOMAIN cache = 1 .. Len(cache)
        /\ \A i \in DOMAIN cache : cache[i].vector = cache[i].key
    BY DEF CacheInv, Caches, Vectors
  <2>2. PICK p \in 1 .. Len(cache) : cache[p].key = Digest(e)
    BY <1>2, <2>1 DEF Keys
  <2>3. {i \in 1 .. Len(cache) : cache[i].key = Digest(e)} = {p}
    BY <2>1, <2>2 DEF Distinct
  <2>4. Min({p}) = p
    BY <2>2 DEF Min
  <2>5. Lookup(cache, Digest(e)) = cache[p]
    BY <2>3, <2>4 DEF Lookup, SelectInSeq
  <2>6. QED BY <1>2, <2>1, <2>2, <2>5 DEF VectorOf, Digest
<1>3. QED BY <1>1, <1>2

-----------------------------------------------------------------------------
(* A context of the lexical path has no scores and uses no vector.          *)
LEMMA FallbackUnscored ==
    ASSUME NEW q
    PROVE  /\ Fallback(q) => built'.scores = <<>> /\ built'.uses = <<>>
           /\ FailOrFallBack(q) => \/ built' = Raised
                                   \/ built'.scores = <<>> /\ built'.uses = <<>>
<1>1. \A chosen, summarised, scores, uses :
          /\ Built(q, chosen, summarised, scores, uses).scores = scores
          /\ Built(q, chosen, summarised, scores, uses).uses = uses
  BY DEF Built
<1>2. \A chosen, scores, uses : Build(q, chosen, scores, uses) =>
          built'.scores = scores /\ built'.uses = uses
  BY <1>1 DEF Build
<1>3. Fallback(q) => built'.scores = <<>> /\ built'.uses = <<>>
  BY <1>2 DEF Fallback
<1>4. QED BY <1>3 DEF FailOrFallBack

(* The parts of a step of the context builder, of which the rest follows.   *)
Unscored ==
    /\ UNCHANGED <<config, story, memories>>
    /\ cache' \in Caches(Texts) /\ Keys(cache') = Keys(cache)
    /\ built' = Raised \/ (built'.scores = <<>> /\ built'.uses = <<>>)
Scored(q) ==
    /\ UNCHANGED <<config, story, memories>>
    /\ cache' \in Caches(Texts)
    /\ built'.query = q.id
    /\ built'.scores = [i \in DOMAIN Admitted(q) |->
           [id |-> Admitted(q)[i].id, score |-> Semantic(Admitted(q)[i], q, cache)]]
    /\ Ordered(cache', KeysInOrder(cache) \o built'.uses)
    /\ built'.uses \in Seq(Texts)
Changed ==
    /\ built' = NotBuilt /\ cache' = cache /\ config' = config /\ RememberedInv'

(* Contexts without embeddings leave memories and cache alone.              *)
LEMMA KeywordStep ==
    ASSUME ContextInv, NEW q, BuildByKeyword(q)
    PROVE  Unscored
<1>1. \A chosen, summarised, scores, uses :
          /\ Built(q, chosen, summarised, scores, uses).scores = scores
          /\ Built(q, chosen, summarised, scores, uses).uses = uses
  BY DEF Built
<1>2. \A chosen, scores, uses : Build(q, chosen, scores, uses) =>
          built'.scores = scores /\ built'.uses = uses
  BY <1>1 DEF Build
<1>3. built'.scores = <<>> /\ built'.uses = <<>>
  BY <1>2 DEF BuildByKeyword
<1>4. UNCHANGED <<config, story, memories, cache>>
  BY DEF BuildByKeyword
<1>5. QED BY <1>3, <1>4 DEF Unscored, ContextInv, CacheInv

(* _semantic_outcome is not asked at all.                                   *)
LEMMA LexicalStep ==
    ASSUME ContextInv, NEW q, BuildLexically(q)
    PROVE  Unscored
<1>1. built'.scores = <<>> /\ built'.uses = <<>>
  BY FallbackUnscored DEF BuildLexically
<1>2. UNCHANGED <<config, story, memories, cache>>
  BY DEF BuildLexically
<1>3. QED BY <1>1, <1>2 DEF Unscored, ContextInv, CacheInv

(* Or the provider is away: the cache has not been looked at.               *)
LEMMA UnavailableStep ==
    ASSUME ContextInv, NEW q, BuildUnavailable(q)
    PROVE  Unscored
<1>1. built' = Raised \/ (built'.scores = <<>> /\ built'.uses = <<>>)
  BY FallbackUnscored DEF BuildUnavailable
<1>2. UNCHANGED <<config, story, memories, cache>>
  BY DEF BuildUnavailable
<1>3. QED BY <1>1, <1>2 DEF Unscored, ContextInv, CacheInv

(* What the loops over the admitted memories make of the cache.             *)
LEMMA CacheAfterEmbedding ==
    ASSUME ContextInv, NEW q
    PROVE  LET after == AfterHits(Hits(Admitted(q), cache), cache)
           IN  /\ after \in Caches(Texts) /\ Keys(after) = Keys(cache)
               /\ AfterPuts(Pending(Admitted(q), cache), after) \in Caches(Texts)
               /\ Ordered(AfterPuts(Pending(Admitted(q), cache), after),
                          KeysInOrder(cache) \o Uses(Admitted(q)))
               /\ Uses(Admitted(q)) \in Seq(Texts)
<1>1. PICK c \in Caches(Texts) : c = cache
  BY DEF ContextInv, CacheInv
<1>2. KeysInOrder(c) \in Seq(Texts) /\ Ordered(c, KeysInOrder(c))
  BY KeysAreHistory
<1>3. PICK all \in Seq(Texts) : all = KeysInOrder(c)
  BY <1>2
<1>4. PICK E : E = ToSet(memories)
  OBVIOUS
<1>5. Admitted(q) \in Seq(E) /\ \A e \in E : Digest(e) \in Texts
  BY <1>4, AdmittedAreMemories DEF ContextInv
<1>6. PICK admitted \in Seq(E) : admitted = Admitted(q)
  BY <1>5
<1>7. /\ AfterHits(Hits(admitted, c), c) \in Caches(Texts)
      /\ Keys(AfterHits(Hits(admitted, c), c)) = Keys(c)
      /\ AfterPuts(Pending(admitted, c), AfterHits(Hits(admitted, c), c)) \in Caches(Texts)
      /\ Ordered(AfterPuts(Pending(admitted, c), AfterHits(Hits(admitted, c), c)),
                 all \o (Digests(Hits(admitted, c)) \o Digests(Pending(admitted, c))))
  BY <1>2, <1>3, <1>5, EmbeddingIsUse
<1>8. Uses(admitted) = Digests(Hits(admitted, c)) \o Digests(Pending(admitted, c))
  BY <1>1 DEF Uses
<1>9. Uses(admitted) \in Seq(Texts)
  <2> DEFINE Known == {e \in ToSet(admitted) : Digest(e) \in Keys(c)}
             Lacked == {e \in ToSet(admitted) : Digest(e) \notin Keys(c)}
             Hit == ToSet(admitted) \cap Known
             Asked == ToSet(admitted) \cap Lacked
  <2>1. Hits(admitted, c) \in Seq(Hit) /\ Pending(admitted, c) \in Seq(Asked)
    BY ThoseMembers DEF Hits, Pending
  <2>2. /\ \A e \in Hit : Digest(e) \in Texts
        /\ \A e \in Asked : Digest(e) \in Texts
    BY <1>5 DEF ToSet
  <2> HIDE DEF Hit, Asked
  <2>3. Digests(Hits(admitted, c)) \in Seq(Texts) /\ Digests(Pending(admitted, c)) \in Seq(Texts)
    BY <2>1, <2>2, DigestsAreTexts
  <2>4. QED BY <1>8, <2>3, ConcatProperties
<1>10. QED BY <1>1, <1>3, <1>6, <1>7, <1>8, <1>9

(* A provider that fails half-way has refreshed what was read.              *)
LEMMA HalfwayStep ==
    ASSUME ContextInv, NEW q, BuildHalfway(q)
    PROVE  Unscored
<1>1. built' = Raised \/ (built'.scores = <<>> /\ built'.uses = <<>>)
  BY FallbackUnscored DEF BuildHalfway
<1>2. /\ UNCHANGED <<config, story, memories>>
      /\ cache' = AfterHits(Hits(Admitted(q), cache), cache)
  BY DEF BuildHalfway
<1>3. cache' \in Caches(Texts) /\ Keys(cache') = Keys(cache)
  BY <1>2, CacheAfterEmbedding
<1>4. QED BY <1>1, <1>2, <1>3 DEF Unscored

(* A context with embeddings scores by the cache as it was.                 *)
LEMMA SemanticStep ==
    ASSUME ContextInv, NEW q, BuildSemantically(q)
    PROVE  Scored(q)
<1>1. \A chosen, summarised, scores, uses :
          /\ Built(q, chosen, summarised, scores, uses).scores = scores
          /\ Built(q, chosen, summarised, scores, uses).uses = uses
          /\ Built(q, chosen, summarised, scores, uses).query = q.id
  BY DEF Built
<1>2. \A chosen, scores, uses : Build(q, chosen, scores, uses) =>
          built'.scores = scores /\ built'.uses = uses /\ built'.query = q.id
  BY <1>1 DEF Build
<1>3. /\ built'.scores = [i \in DOMAIN Admitted(q) |->
             [id |-> Admitted(q)[i].id, score |-> Semantic(Admitted(q)[i], q, cache)]]
      /\ built'.uses = Uses(Admitted(q)) /\ built'.query = q.id
  BY <1>2 DEF BuildSemantically
<1>4. /\ UNCHANGED <<config, story, memories>>
      /\ cache' = AfterPuts(Pending(Admitted(q), cache),
                            AfterHits(Hits(Admitted(q), cache), cache))
  BY DEF BuildSemantically
<1>5. /\ cache' \in Caches(Texts)
      /\ Ordered(cache', KeysInOrder(cache) \o Uses(Admitted(q)))
      /\ Uses(Admitted(q)) \in Seq(Texts)
  BY <1>4, CacheAfterEmbedding
<1>6. QED BY <1>3, <1>4, <1>5 DEF Scored

(* The memories change, and no context stands.                              *)
LEMMA RememberStep ==
    ASSUME ContextInv, Remember
    PROVE  Changed
<1>1. story \in Stories /\ Remembers(memories, story) /\ Len(memories) < Len(story)
  BY DEF ContextInv, RememberedInv, Remember
<1>2. /\ built' = NotBuilt /\ UNCHANGED <<config, story, cache>>
      /\ memories' = Append(memories, New(story[Len(memories) + 1]))
  BY DEF Remember
<1>3. Remembers(Append(memories, New(story[Len(memories) + 1])), story)
  BY <1>1, RemembersMore
<1>4. QED BY <1>1, <1>2, <1>3 DEF Changed, RememberedInv

(* A memory is superseded and its successor remembered.                     *)
LEMMA SupersedeStep ==
    ASSUME ContextInv, NEW i \in DOMAIN memories, Supersede(i)
    PROVE  Changed
<1>1. /\ story \in Stories /\ Remembers(memories, story) /\ Len(memories) < Len(story)
      /\ i \in 1 .. Len(memories)
  BY DEF ContextInv, RememberedInv, Remembers, Supersede
<1>2. PICK entry : entry = [memories[i] EXCEPT !.status = "superseded", !.supersededAt = Today,
                                               !.supersededBy = story[Len(memories) + 1].id]
  OBVIOUS
<1>3. /\ WellFormed(entry) /\ entry.id = memories[i].id /\ entry.embeds = memories[i].embeds
      /\ entry.created = memories[i].created
  <2>1. WellFormed(memories[i])
    BY <1>1 DEF Remembers
  <2>2. Lasts(memories[i], entry) /\ entry.created = memories[i].created
    BY <1>2, <2>1 DEF Lasts, Passing, WellFormed, Fields
  <2>3. QED BY <2>1, <2>2, LastingIsWellFormed
<1>4. PICK changed : changed = [memories EXCEPT ![i] = entry]
  OBVIOUS
<1>5. Remembers(changed, story) /\ Len(changed) = Len(memories)
  BY <1>1, <1>3, <1>4, RemembersChanged
<1>6. /\ built' = NotBuilt /\ UNCHANGED <<config, story, cache>>
      /\ memories' = Append(changed, New(story[Len(changed) + 1]))
  BY <1>2, <1>4, <1>5 DEF Supersede
<1>7. Remembers(Append(changed, New(story[Len(changed) + 1])), story)
  BY <1>1, <1>5, RemembersMore
<1>8. QED BY <1>1, <1>6, <1>7 DEF Changed, RememberedInv

(* A memory is forgotten.                                                   *)
LEMMA ForgetStep ==
    ASSUME ContextInv, NEW i \in DOMAIN memories, Forget(i)
    PROVE  Changed
<1>1. story \in Stories /\ Remembers(memories, story) /\ i \in 1 .. Len(memories)
  BY DEF ContextInv, RememberedInv, Remembers
<1>2. PICK entry : entry = [memories[i] EXCEPT !.status = "forgotten"]
  OBVIOUS
<1>3. /\ WellFormed(entry) /\ entry.id = memories[i].id /\ entry.embeds = memories[i].embeds
      /\ entry.created = memories[i].created
  <2>1. WellFormed(memories[i])
    BY <1>1 DEF Remembers
  <2>2. Lasts(memories[i], entry) /\ entry.created = memories[i].created
    BY <1>2, <2>1 DEF Lasts, Passing, WellFormed, Fields
  <2>3. QED BY <2>1, <2>2, LastingIsWellFormed
<1>4. Remembers([memories EXCEPT ![i] = entry], story)
  BY <1>1, <1>3, RemembersChanged
<1>5. /\ built' = NotBuilt /\ UNCHANGED <<config, story, cache>>
      /\ memories' = [memories EXCEPT ![i] = entry]
  BY <1>2 DEF Forget
<1>6. QED BY <1>1, <1>4, <1>5 DEF Changed, RememberedInv

(* Every step is of one of these kinds.                                     *)
LEMMA StepOfThree ==
    ASSUME ContextInv, Next
    PROVE  Unscored \/ Changed \/ \E q \in Queries : Scored(q)
<1>1. ASSUME NEW q \in Queries,
             \/ BuildByKeyword(q) \/ BuildLexically(q) \/ BuildUnavailable(q)
             \/ BuildHalfway(q) \/ BuildSemantically(q)
      PROVE  Unscored \/ Scored(q)
  BY <1>1, KeywordStep, LexicalStep, UnavailableStep, HalfwayStep, SemanticStep
<1>2. ASSUME NEW i \in DOMAIN memories, Supersede(i) \/ Forget(i)
      PROVE  Changed
  BY <1>2, SupersedeStep, ForgetStep
<1>3. QED BY <1>1, <1>2, RememberStep DEF Next

(* Each keeps the invariant.                                                *)
LEMMA ContextStep == ContextInv /\ [Next]_vars => ContextInv'
<1> SUFFICES ASSUME ContextInv, [Next]_vars PROVE ContextInv'
  OBVIOUS
<1>1. CASE Unscored \/ \E q \in Queries : Scored(q)
  BY <1>1 DEF Unscored, Scored, ContextInv, RememberedInv, CacheInv
<1>2. CASE Changed
  BY <1>2 DEF Changed, ContextInv, CacheInv
<1>3. CASE UNCHANGED vars
  BY <1>3 DEF vars, ContextInv, RememberedInv, CacheInv
<1>4. QED BY <1>1, <1>2, <1>3, StepOfThree

(* What was remembered keeps its identifier and its embedding, and the      *)
(* cache holds, within its bound, one vector per text, that of the text.    *)
THEOREM ContextInvariantHolds == Spec => []ContextInv
  BY InitRemembered, ContextStep, PTL DEF Spec

(* Each keeps the scores fresh.                                             *)
LEMMA ScoresStep == ContextInv /\ ScoresAreFresh /\ [Next]_vars => ScoresAreFresh'
<1> SUFFICES ASSUME ContextInv, ScoresAreFresh, [Next]_vars PROVE ScoresAreFresh'
  OBVIOUS
<1>1. CASE Unscored
  <2>1. CASE built' = Raised
    BY <2>1 DEF ScoresAreFresh, HasContext, Raised
  <2>2. CASE built'.scores = <<>>
    BY <2>2 DEF ScoresAreFresh
  <2>3. QED BY <1>1, <2>1, <2>2 DEF Unscored
<1>2. CASE Changed
  BY <1>2 DEF Changed, ScoresAreFresh, HasContext, NotBuilt
<1>3. ASSUME NEW q \in Queries, Scored(q)
      PROVE  ScoresAreFresh'
  <2>1. PICK admitted \in Seq(ToSet(memories)) : admitted = Admitted(q)
    BY AdmittedAreMemories DEF ContextInv
  <2>2. built'.scores = [i \in DOMAIN admitted |->
                            [id |-> admitted[i].id, score |-> Semantic(admitted[i], q, cache)]]
    BY <1>3, <2>1 DEF Scored
  <2>3. memories' = memories /\ built'.query = q.id
    BY <1>3 DEF Scored
  <2>4. \A id : QueryOf(id)' = QueryOf(id) /\ EntryOf(id)' = EntryOf(id)
    BY <2>3 DEF QueryOf, EntryOf
  <2>5. QueryOf(q.id) = q
    BY ContextAssumption DEF QueryOf
  <2>6. ASSUME NEW i \in DOMAIN built'.scores
        PROVE  built'.scores[i].score = Max({0, q.cosine[EntryOf(built'.scores[i].id).embeds]})
    <3>1. i \in DOMAIN admitted /\ admitted[i] \in ToSet(memories)
      BY <2>1, <2>2, <2>6
    <3>2. PICK e \in ToSet(memories) : e = admitted[i]
      BY <3>1
    <3>3. built'.scores[i].id = e.id /\ built'.scores[i].score = Semantic(e, q, cache)
      BY <2>2, <3>1, <3>2
    <3>4. EntryOf(e.id) = e
      BY AdmittedAreMemories DEF ContextInv
    <3>5. Semantic(e, q, cache) = Max({0, q.cosine[e.embeds]})
      BY VectorIsOwn DEF Semantic, ContextInv
    <3>6. QED BY <3>3, <3>4, <3>5
  <2>7. \A i \in DOMAIN built'.scores :
            built'.scores[i].score
                = Max({0, QueryOf(built'.query).cosine[EntryOf(built'.scores[i].id).embeds]})
    BY <2>3, <2>5, <2>6
  <2>8. QueryOf(built.query)' = QueryOf(built'.query)
    BY DEF QueryOf
  <2>9. \A i \in DOMAIN built'.scores : EntryOf(built.scores[i].id)' = EntryOf(built'.scores[i].id)
    BY <2>3 DEF EntryOf
  <2>10. QED BY <2>7, <2>8, <2>9 DEF ScoresAreFresh
<1>4. CASE UNCHANGED vars
  BY <1>4 DEF vars, ScoresAreFresh, HasContext, QueryOf, EntryOf
<1>5. QED BY <1>1, <1>2, <1>3, <1>4, StepOfThree

(* The score of a memory is that of its own embedding, whatever the cache   *)
(* of vectors has been through: score_memories reads the cache under the    *)
(* digest of the text that it embeds.                                       *)
THEOREM ScoresFresh == Spec => []ScoresAreFresh
<1>1. Init => ScoresAreFresh
  BY DEF Init, ScoresAreFresh, HasContext, NotBuilt
<1>2. QED BY <1>1, ScoresStep, ContextInvariantHolds, PTL DEF Spec

(* LastUse, in the words of these lemmas.                                   *)
LEMMA LastUseIsLast ==
    ASSUME NEW key, NEW uses
    PROVE  LastUse(key, uses) = LastIn(key, KeysInOrder(cache) \o uses)
  BY DEF LastUse, LastIn, Uses0, KeysInOrder

(* No step evicts what was used after something that stays.                 *)
LEMMA CacheStep ==
    ASSUME ContextInv, Next, HasContext',
           NEW old \in Keys(cache'), NEW key \in Keys(cache) \cup ToSet(built'.uses),
           key \notin Keys(cache')
    PROVE  LastUse(key, built'.uses) < LastUse(old, built'.uses)
<1>1. CASE Unscored
  <2>1. CASE built' = Raised
    BY <2>1 DEF HasContext, Raised
  <2>2. CASE built'.uses = <<>>
    BY <1>1, <2>2 DEF Unscored, ToSet
  <2>3. QED BY <1>1, <2>1, <2>2 DEF Unscored
<1>2. CASE Changed
  BY <1>2 DEF Changed, HasContext, NotBuilt
<1>3. ASSUME NEW q \in Queries, Scored(q)
      PROVE  LastUse(key, built'.uses) < LastUse(old, built'.uses)
  <2>1. PICK uses \in Seq(Texts) : uses = built'.uses
    BY <1>3 DEF Scored
  <2>2. PICK held \in Seq(Texts) : held = KeysInOrder(cache)
    BY KeysAreHistory DEF ContextInv, CacheInv
  <2>3. PICK c \in Caches(Texts) : c = cache'
    BY <1>3 DEF Scored
  <2>4. Ordered(c, held \o uses)
    BY <1>3, <2>1, <2>2, <2>3 DEF Scored
  <2>5. PICK i \in DOMAIN c : old = c[i].key
    BY <2>3 DEF Keys
  <2>6. key \in ToSet(held \o uses)
    <3>1. /\ DOMAIN held = 1 .. Len(held) /\ DOMAIN uses = 1 .. Len(uses)
          /\ Len(held) \in Nat /\ Len(uses) \in Nat
      OBVIOUS
    <3>2. /\ DOMAIN (held \o uses) = 1 .. Len(held) + Len(uses)
          /\ \A k \in 1 .. Len(held) : (held \o uses)[k] = held[k]
          /\ \A k \in 1 .. Len(uses) : (held \o uses)[Len(held) + k] = uses[k]
      OBVIOUS
    <3>3. CASE key \in Keys(cache)
      <4>1. PICK k \in 1 .. Len(held) : key = held[k]
        BY <2>2, <3>1, <3>3 DEF Keys, KeysInOrder
      <4>2. k \in 1 .. Len(held) + Len(uses)
        BY <3>1
      <4>3. QED BY <3>2, <4>1, <4>2 DEF ToSet
    <3>4. CASE key \in ToSet(uses)
      <4>1. PICK k \in 1 .. Len(uses) : key = uses[k]
        BY <3>1, <3>4 DEF ToSet
      <4>2. Len(held) + k \in 1 .. Len(held) + Len(uses)
        BY <3>1
      <4>3. QED BY <3>2, <4>1, <4>2 DEF ToSet
    <3>5. QED BY <2>1, <3>3, <3>4
  <2>7. LastIn(key, held \o uses) < LastIn(old, held \o uses)
    BY <2>3, <2>4, <2>5, <2>6 DEF Ordered
  <2>8. /\ LastUse(key, uses) = LastIn(key, held \o uses)
        /\ LastUse(old, uses) = LastIn(old, held \o uses)
    BY <2>2, LastUseIsLast
  <2>9. QED BY <2>1, <2>7, <2>8
<1>4. QED BY <1>1, <1>2, <1>3, StepOfThree

(* EmbeddingCache evicts what was used longest ago: of what a context used  *)
(* or found in the cache, nothing that is gone was used after something     *)
(* that stayed, whatever the number of memories and the bound.              *)
THEOREM RecentStays == Spec => CacheKeepsTheRecent
<1>1. ContextInv /\ [Next]_vars =>
        [HasContext' =>
            \A old \in Keys(cache'), key \in Keys(cache) \cup ToSet(built'.uses) :
                key \notin Keys(cache')
                    => LastUse(key, built'.uses) < LastUse(old, built'.uses)]_vars
  BY CacheStep
<1>2. QED BY <1>1, ContextInvariantHolds, PTL DEF Spec, CacheKeepsTheRecent

-----------------------------------------------------------------------------
(* Enumerations: their length, and what becomes of them.                    *)
LEMMA EnumeratesSet ==
    ASSUME NEW S, NEW s, Enumerates(s, S)
    PROVE  /\ ToSet(s) = S /\ s \in Seq(S) /\ Len(s) \in Nat /\ DOMAIN s = 1 .. Len(s)
           /\ \A i \in 1 .. Len(s) : s[i] \in S
           /\ IsFiniteSet(S) /\ Cardinality(S) = Len(s)
<1>1. s \in Seq(S) /\ Len(s) \in Nat /\ DOMAIN s = 1 .. Len(s)
  BY DEF Enumerates
<1>2. \A i \in 1 .. Len(s) : s[i] \in S
  BY <1>1
<1>3. ToSet(s) = S
  <2>1. ToSet(s) \subseteq S
    BY <1>1, <1>2 DEF ToSet
  <2>2. S \subseteq ToSet(s)
    BY <1>1 DEF ToSet, Enumerates
  <2>3. QED BY <2>1, <2>2
<1>4. s \in Bijection(1 .. Len(s), S)
  <2>1. s \in [1 .. Len(s) -> S]
    BY <1>1
  <2>2. \A i, j \in 1 .. Len(s) : s[i] = s[j] => i = j
    BY DEF Enumerates
  <2>3. \A x \in S : \E i \in 1 .. Len(s) : s[i] = x
    BY DEF Enumerates
  <2>4. s \in Injection(1 .. Len(s), S)
    BY <2>1, <2>2 DEF Injection, IsInjective
  <2>5. s \in Surjection(1 .. Len(s), S)
    BY <2>1, <2>3 DEF Surjection
  <2>6. QED BY <2>4, <2>5 DEF Bijection
<1>5. ExistsBijection(1 .. Len(s), S)
  BY <1>4 DEF ExistsBijection
<1>6. IsFiniteSet(S) /\ Cardinality(S) = Len(s)
  <2>1. IsFiniteSet(S)
    BY <1>1, <1>5, FS_NatBijection
  <2>2. Cardinality(S) = Len(s)
    BY <1>1, <1>5, FS_CountingElements
  <2>3. QED BY <2>1, <2>2
<1>7. QED BY <1>1, <1>2, <1>3, <1>6

(* A member occurs at one place.                                            *)
LEMMA OccursOnce ==
    ASSUME NEW S, NEW s, Enumerates(s, S), NEW x \in S
    PROVE  \E i \in 1 .. Len(s) : s[i] = x /\ {j \in DOMAIN s : s[j] = x} = {i}
<1>1. PICK i \in 1 .. Len(s) : s[i] = x
  BY DEF Enumerates
<1>2. DOMAIN s = 1 .. Len(s)
  BY EnumeratesSet
<1>3. \A j \in DOMAIN s : s[j] = x => j = i
  BY <1>1, <1>2 DEF Enumerates
<1>4. QED BY <1>1, <1>2, <1>3

(* One more.                                                                *)
LEMMA AppendEnumerates ==
    ASSUME NEW S, NEW s, Enumerates(s, S), NEW x, x \notin S
    PROVE  Enumerates(Append(s, x), S \cup {x})
<1> DEFINE n == Len(s)
           more == Append(s, x)
<1>1. s \in Seq(S) /\ n \in Nat /\ DOMAIN s = 1 .. n /\ \A i \in 1 .. n : s[i] \in S
  BY EnumeratesSet
<1>2. s \in Seq(S \cup {x})
  BY <1>1
<1>3. /\ more \in Seq(S \cup {x}) /\ Len(more) = n + 1 /\ more[n + 1] = x
      /\ \A i \in 1 .. n : more[i] = s[i]
      /\ \A i \in 1 .. n + 1 : i \in 1 .. n \/ i = n + 1
      /\ \A i \in 1 .. n : i \in 1 .. n + 1
      /\ n + 1 \in 1 .. n + 1
  BY <1>1, <1>2
<1> HIDE DEF n, more
<1>4. \A i, j \in 1 .. n + 1 : more[i] = more[j] => i = j
  BY <1>1, <1>3 DEF Enumerates, n
<1>5. \A y \in S \cup {x} : \E i \in 1 .. n + 1 : more[i] = y
  BY <1>3 DEF Enumerates, n
<1>6. QED BY <1>3, <1>4, <1>5 DEF Enumerates, more

(* Two enumerations of sets without a common member.                        *)
LEMMA ConcatEnumerates ==
    ASSUME NEW S, NEW s, Enumerates(s, S), NEW T, NEW t, Enumerates(t, T), S \cap T = {}
    PROVE  Enumerates(s \o t, S \cup T)
<1> DEFINE m == Len(s)
           n == Len(t)
           both == s \o t
<1>1. /\ s \in Seq(S) /\ m \in Nat /\ \A i \in 1 .. m : s[i] \in S
      /\ t \in Seq(T) /\ n \in Nat /\ \A i \in 1 .. n : t[i] \in T
  BY EnumeratesSet
<1>2. s \in Seq(S \cup T) /\ t \in Seq(S \cup T)
  BY <1>1
<1>3. /\ both \in Seq(S \cup T) /\ Len(both) = m + n
      /\ \A i \in 1 .. m : both[i] = s[i]
      /\ \A i \in 1 .. n : both[m + i] = t[i]
  BY <1>1, <1>2
<1>4. /\ \A k \in 1 .. m + n : k \in 1 .. m \/ (k - m \in 1 .. n /\ m + (k - m) = k)
      /\ \A i \in 1 .. m : i \in 1 .. m + n
      /\ \A i \in 1 .. n : m + i \in 1 .. m + n
  BY <1>1
<1> HIDE DEF m, n, both
<1>5. \A k \in 1 .. m + n : \/ k \in 1 .. m /\ both[k] = s[k] /\ both[k] \in S
                            \/ /\ k - m \in 1 .. n /\ m + (k - m) = k
                               /\ both[k] = t[k - m] /\ both[k] \in T
  BY <1>1, <1>3, <1>4
<1>6. \A i, j \in 1 .. m + n : both[i] = both[j] => i = j
  <2> SUFFICES ASSUME NEW i \in 1 .. m + n, NEW j \in 1 .. m + n, both[i] = both[j]
               PROVE  i = j
    OBVIOUS
  <2>1. CASE both[i] \in S
    <3>1. i \in 1 .. m /\ j \in 1 .. m /\ s[i] = s[j]
      BY <1>5, <2>1
    <3>2. QED BY <3>1 DEF Enumerates, m
  <2>2. CASE both[i] \in T
    <3>1. i - m \in 1 .. n /\ j - m \in 1 .. n /\ t[i - m] = t[j - m]
      BY <1>5, <2>2
    <3>2. i - m = j - m
      BY <3>1 DEF Enumerates, n
    <3>3. m + (i - m) = i /\ m + (j - m) = j
      BY <1>5, <2>2
    <3>4. QED BY <3>2, <3>3
  <2>3. QED BY <1>5, <2>1, <2>2
<1>7. \A x \in S \cup T : \E i \in 1 .. m + n : both[i] = x
  <2>1. ASSUME NEW x \in S PROVE \E i \in 1 .. m + n : both[i] = x
    <3>1. PICK i \in 1 .. m : s[i] = x
      BY DEF Enumerates, m
    <3>2. QED BY <1>3, <1>4, <3>1
  <2>2. ASSUME NEW x \in T PROVE \E i \in 1 .. m + n : both[i] = x
    <3>1. PICK i \in 1 .. n : t[i] = x
      BY DEF Enumerates, n
    <3>2. QED BY <1>3, <1>4, <3>1
  <2>3. QED BY <2>1, <2>2
<1>8. QED BY <1>3, <1>6, <1>7 DEF Enumerates, both

(* What a filter collects of an enumeration enumerates what passes it.      *)
LEMMA ThoseEnumerates ==
    ASSUME NEW E, NEW s, Enumerates(s, E), NEW S
    PROVE  Enumerates(Those(s, S), E \cap S)
<1> DEFINE n == Len(s)
           Seen(i) == {x \in E \cap S : \E j \in 1 .. i : s[j] = x}
<1>1. /\ s \in Seq(E) /\ n \in Nat /\ \A i \in 1 .. n : s[i] \in E
      /\ \A i, j \in 1 .. n : s[i] = s[j] => i = j
      /\ \A x \in E : \E i \in 1 .. n : s[i] = x
  BY EnumeratesSet DEF Enumerates
<1>2. PICK t : Collects(t, s, S) /\ Those(s, S) = t[n]
  BY <1>1, ThoseCollects
<1> DEFINE G == {i \in 0 .. n : Enumerates(t[i], Seen(i))}
<1>3. 0 \in G
  <2>1. t[0] = <<>> /\ 0 \in 0 .. n /\ Seen(0) = {}
    BY <1>1, <1>2 DEF Collects
  <2>2. Enumerates(<<>>, {})
    BY DEF Enumerates
  <2> HIDE DEF Seen
  <2>3. QED BY <2>1, <2>2
<1>4. ASSUME NEW i \in 1 .. n, i - 1 \in G
      PROVE  i \in G
  <2>1. /\ i \in 0 .. n /\ Enumerates(t[i - 1], Seen(i - 1)) /\ s[i] \in E
        /\ \A j \in 1 .. i : j \in 1 .. i - 1 \/ j = i
        /\ \A j \in 1 .. i - 1 : j \in 1 .. i /\ j \in 1 .. n /\ j # i
        /\ i \in 1 .. i
    BY <1>1, <1>4
  <2>2. t[i] = IF s[i] \in S THEN Append(t[i - 1], s[i]) ELSE t[i - 1]
    BY <1>2 DEF Collects
  <2>3. CASE s[i] \in S
    <3>1. s[i] \notin Seen(i - 1)
      BY <1>1, <2>1
    <3>2. Seen(i) = Seen(i - 1) \cup {s[i]}
      BY <2>1, <2>3
    <3> HIDE DEF Seen
    <3>3. Enumerates(Append(t[i - 1], s[i]), Seen(i - 1) \cup {s[i]})
      BY <2>1, <3>1, AppendEnumerates
    <3>4. QED BY <2>1, <2>2, <2>3, <3>2, <3>3
  <2>4. CASE s[i] \notin S
    <3>1. Seen(i) = Seen(i - 1)
      BY <2>1, <2>4
    <3> HIDE DEF Seen
    <3>2. QED BY <2>1, <2>2, <2>4, <3>1
  <2>5. QED BY <2>3, <2>4
<1>5. Seen(n) = E \cap S
  BY <1>1
<1> HIDE DEF G, Seen
<1>6. \A i \in 0 .. n : i \in G
  BY <1>1, <1>3, <1>4, LoopKeeps
<1>7. n \in 0 .. n
  BY <1>1
<1>8. QED BY <1>2, <1>5, <1>6, <1>7 DEF G

(* The least of a number and a length.                                      *)
LEMMA LeastOfTwo ==
    ASSUME NEW a \in Nat, NEW b \in Nat
    PROVE  Min({a, b}) = IF a <= b THEN a ELSE b
<1> DEFINE m == IF a <= b THEN a ELSE b
<1>1. m \in {a, b} /\ \A x \in {a, b} : m <= x
  OBVIOUS
<1>2. \A x \in {a, b} : (\A y \in {a, b} : x <= y) => x = m
  OBVIOUS
<1> HIDE DEF m
<1>3. QED BY <1>1, <1>2 DEF Min, m

(* A cut divides an enumeration into two.                                   *)
LEMMA CutEnumerates ==
    ASSUME NEW S, NEW s, Enumerates(s, S), NEW m \in Nat
    PROVE  LET rest == SubSeq(s, m + 1, Len(s))
           IN  /\ Enumerates(FirstOf(s, m), ToSet(FirstOf(s, m))) /\ Enumerates(rest, ToSet(rest))
               /\ Len(FirstOf(s, m)) <= m
               /\ S = ToSet(FirstOf(s, m)) \cup ToSet(rest)
               /\ ToSet(FirstOf(s, m)) \cap ToSet(rest) = {}
               /\ \A i \in 1 .. Len(s) : s[i] \in ToSet(FirstOf(s, m)) <=> i <= m
<1> DEFINE n == Len(s)
           c == IF m <= n THEN m ELSE n
           first == FirstOf(s, m)
           rest == SubSeq(s, m + 1, n)
           r == IF m <= n THEN n - m ELSE 0
<1>1. /\ s \in Seq(S) /\ n \in Nat /\ \A i \in 1 .. n : s[i] \in S
      /\ \A i, j \in 1 .. n : s[i] = s[j] => i = j
      /\ \A x \in S : \E i \in 1 .. n : s[i] = x
  BY EnumeratesSet DEF Enumerates
<1>2. c \in 0 .. n /\ c <= m
  BY <1>1
<1>3. first = SubSeq(s, 1, c)
  BY <1>1, LeastOfTwo DEF FirstOf
<1>4. /\ first \in Seq(S) /\ Len(first) = c /\ \A i \in 1 .. c : first[i] = s[i]
      /\ DOMAIN first = 1 .. c
  <2>1. /\ SubSeq(s, 1, c) \in Seq(S) /\ Len(SubSeq(s, 1, c)) = c
        /\ \A i \in 1 .. c : SubSeq(s, 1, c)[i] = s[i]
    BY <1>1, <1>2
  <2> HIDE DEF first, c
  <2>2. QED BY <1>2, <1>3, <2>1
<1>5. /\ rest \in Seq(S) /\ Len(rest) = r /\ \A i \in 1 .. r : rest[i] = s[m + i]
      /\ DOMAIN rest = 1 .. r
  BY <1>1
<1>6. /\ r \in Nat /\ c \in Nat /\ \A i \in 1 .. c : i \in 1 .. n /\ i <= m
      /\ \A i \in 1 .. r : m + i \in 1 .. n /\ ~ (m + i <= m)
      /\ \A i \in 1 .. n : (i <= m /\ i \in 1 .. c)
                               \/ (~ (i <= m) /\ i - m \in 1 .. r /\ m + (i - m) = i)
      /\ \A i, j \in 1 .. r : m + i = m + j => i = j
  BY <1>1
<1> HIDE DEF first, rest, c, r, n
<1>7. Enumerates(first, ToSet(first))
  <2>1. first \in Seq(ToSet(first))
    BY <1>4, SeqOfItself
  <2>2. \A i, j \in 1 .. c : first[i] = first[j] => i = j
    BY <1>1, <1>4, <1>6
  <2>3. QED BY <1>4, <2>1, <2>2 DEF Enumerates, ToSet
<1>8. Enumerates(rest, ToSet(rest))
  <2>1. rest \in Seq(ToSet(rest))
    BY <1>5, SeqOfItself
  <2>2. ASSUME NEW i \in 1 .. r, NEW j \in 1 .. r, rest[i] = rest[j]
        PROVE  i = j
    <3>1. m + i \in 1 .. n /\ m + j \in 1 .. n /\ s[m + i] = s[m + j]
      BY <1>5, <1>6, <2>2
    <3>2. m + i = m + j
      BY <1>1, <3>1
    <3>3. QED BY <1>6, <3>2
  <2>3. QED BY <1>5, <2>1, <2>2 DEF Enumerates, ToSet
<1>9. \A i \in 1 .. n : s[i] \in ToSet(first) <=> i <= m
  <2> TAKE i \in 1 .. n
  <2>1. ASSUME i <= m PROVE s[i] \in ToSet(first)
    BY <1>4, <1>6, <2>1 DEF ToSet
  <2>2. ASSUME s[i] \in ToSet(first) PROVE i <= m
    <3>1. PICK j \in 1 .. c : first[j] = s[i]
      BY <1>4, <2>2 DEF ToSet
    <3>2. j = i
      BY <1>1, <1>4, <1>6, <3>1
    <3>3. QED BY <1>6, <3>2
  <2>3. QED BY <2>1, <2>2
<1>10. \A i \in 1 .. n : s[i] \in ToSet(rest) <=> ~ (i <= m)
  <2> TAKE i \in 1 .. n
  <2>1. ASSUME ~ (i <= m) PROVE s[i] \in ToSet(rest)
    <3>1. i - m \in 1 .. r /\ rest[i - m] = s[i]
      BY <1>5, <1>6, <2>1
    <3>2. QED BY <1>5, <3>1 DEF ToSet
  <2>2. ASSUME s[i] \in ToSet(rest) PROVE ~ (i <= m)
    <3>1. PICK j \in 1 .. r : rest[j] = s[i]
      BY <1>5, <2>2 DEF ToSet
    <3>2. m + j = i
      <4>1. m + j \in 1 .. n /\ s[m + j] = s[i]
        BY <1>5, <1>6, <3>1
      <4>2. QED BY <1>1, <4>1
    <3>3. QED BY <1>6, <3>1, <3>2
  <2>3. QED BY <2>1, <2>2
<1>11. ToSet(first) \subseteq S /\ ToSet(rest) \subseteq S
  <2>1. /\ \A i \in 1 .. c : first[i] \in S
        /\ \A i \in 1 .. r : rest[i] \in S
    BY <1>1, <1>4, <1>5, <1>6
  <2>2. QED BY <1>4, <1>5, <2>1 DEF ToSet
<1>12. S = ToSet(first) \cup ToSet(rest) /\ ToSet(first) \cap ToSet(rest) = {}
  BY <1>1, <1>9, <1>10, <1>11
<1>13. QED BY <1>2, <1>4, <1>7, <1>8, <1>9, <1>12 DEF first, rest, n

(* Backwards.                                                               *)
LEMMA ReverseEnumerates ==
    ASSUME NEW S, NEW s, Enumerates(s, S)
    PROVE  Enumerates(Reverse(s), S)
<1> DEFINE n == Len(s)
           t == Reverse(s)
<1>1. /\ s \in Seq(S) /\ n \in Nat /\ \A i \in 1 .. n : s[i] \in S
      /\ \A i, j \in 1 .. n : s[i] = s[j] => i = j
      /\ \A x \in S : \E i \in 1 .. n : s[i] = x
  BY EnumeratesSet DEF Enumerates
<1>2. t = [i \in 1 .. n |-> s[(n - i) + 1]]
  BY DEF Reverse
<1>3. \A i \in 1 .. n : (n - i) + 1 \in 1 .. n /\ (n - ((n - i) + 1)) + 1 = i
  BY <1>1
<1>4. /\ \A i \in 1 .. n : t[i] = s[(n - i) + 1] /\ t[i] \in S
      /\ t = [i \in 1 .. n |-> t[i]] /\ DOMAIN t = 1 .. n
  BY <1>1, <1>2, <1>3
<1> HIDE DEF t
<1>5. t \in Seq(S) /\ Len(t) = n
  <2>1. t \in Seq(S)
    BY <1>1, <1>4, IsASeq
  <2>2. QED BY <1>1, <1>4, <2>1
<1>6. ASSUME NEW i \in 1 .. n, NEW j \in 1 .. n, t[i] = t[j]
      PROVE  i = j
  <2>1. (n - i) + 1 \in 1 .. n /\ (n - j) + 1 \in 1 .. n
    BY <1>3
  <2>2. s[(n - i) + 1] = s[(n - j) + 1]
    BY <1>4, <1>6
  <2>3. (n - i) + 1 = (n - j) + 1
    BY <1>1, <2>1, <2>2
  <2>4. QED BY <1>3, <2>3
<1>7. ASSUME NEW x \in S PROVE \E i \in 1 .. n : t[i] = x
  <2>1. PICK j \in 1 .. n : s[j] = x
    BY <1>1
  <2>2. t[(n - j) + 1] = x
    BY <1>3, <1>4, <2>1
  <2>3. QED BY <1>3, <2>2
<1>8. QED BY <1>5, <1>6, <1>7 DEF Enumerates, t

-----------------------------------------------------------------------------
(* Candidates, of which no two are of one entry.                            *)
EntriesOf(C) == {c.entry : c \in C}
OneEach(C)   == \A c, d \in C : c.entry = d.entry => c = d

(* What is made of the members of an enumeration, one by one.               *)
LEMMA CarriedEnumerates ==
    ASSUME NEW S, NEW s, Enumerates(s, S), NEW t, t = [i \in DOMAIN s |-> t[i]],
           \A i \in DOMAIN s : t[i].entry = s[i]
    PROVE  Enumerates(t, ToSet(t)) /\ OneEach(ToSet(t)) /\ EntriesOf(ToSet(t)) = S
           /\ Len(t) = Len(s)
<1> DEFINE n == Len(s)
<1>1. /\ n \in Nat /\ DOMAIN s = 1 .. n /\ \A i \in 1 .. n : s[i] \in S
      /\ \A i, j \in 1 .. n : s[i] = s[j] => i = j
      /\ \A x \in S : \E i \in 1 .. n : s[i] = x
  BY EnumeratesSet DEF Enumerates
<1>2. DOMAIN t = 1 .. n /\ t = [i \in 1 .. n |-> t[i]] /\ \A i \in 1 .. n : t[i] \in ToSet(t)
  BY <1>1 DEF ToSet
<1>3. t \in Seq(ToSet(t)) /\ Len(t) = n
  <2>1. t \in Seq(ToSet(t))
    BY <1>1, <1>2, IsASeq
  <2>2. QED BY <1>1, <1>2, <2>1
<1>4. Enumerates(t, ToSet(t))
  <2>1. \A i, j \in 1 .. n : t[i] = t[j] => i = j
    <3> SUFFICES ASSUME NEW i \in 1 .. n, NEW j \in 1 .. n, t[i] = t[j] PROVE i = j
      OBVIOUS
    <3>1. s[i] = s[j]
      BY <1>1
    <3>2. QED BY <1>1, <3>1
  <2>2. \A x \in ToSet(t) : \E i \in 1 .. n : t[i] = x
    BY <1>2 DEF ToSet
  <2>3. QED BY <1>3, <2>1, <2>2 DEF Enumerates
<1>5. OneEach(ToSet(t)) /\ EntriesOf(ToSet(t)) = S
  <2>1. ToSet(t) = {t[i] : i \in 1 .. n}
    BY <1>2 DEF ToSet
  <2>2. \A i \in 1 .. n : t[i].entry = s[i]
    BY <1>1
  <2>3. OneEach(ToSet(t))
    BY <1>1, <2>1, <2>2 DEF OneEach
  <2>4. EntriesOf(ToSet(t)) = S
    <3>1. ASSUME NEW x \in EntriesOf(ToSet(t)) PROVE x \in S
      <4>1. PICK i \in 1 .. n : x = t[i].entry
        BY <2>1 DEF EntriesOf
      <4>2. QED BY <1>1, <2>2, <4>1
    <3>2. ASSUME NEW x \in S PROVE x \in EntriesOf(ToSet(t))
      <4>1. PICK i \in 1 .. n : x = s[i]
        BY <1>1
      <4>2. x = t[i].entry /\ t[i] \in ToSet(t)
        BY <1>2, <2>2, <4>1
      <4>3. QED BY <4>2 DEF EntriesOf
    <3>3. QED BY <3>1, <3>2
  <2>5. QED BY <2>3, <2>4
<1>6. QED BY <1>3, <1>4, <1>5

(* Their entries.                                                           *)
LEMMA EntriesEnumerate ==
    ASSUME NEW C, NEW t, Enumerates(t, C), OneEach(C)
    PROVE  Enumerates(Entries(t), EntriesOf(C)) /\ DOMAIN Entries(t) = DOMAIN t
           /\ Len(Entries(t)) = Len(t) /\ \A i \in DOMAIN t : Entries(t)[i] = t[i].entry
<1> DEFINE n == Len(t)
           e == Entries(t)
<1>1. /\ n \in Nat /\ DOMAIN t = 1 .. n /\ \A i \in 1 .. n : t[i] \in C
      /\ \A i, j \in 1 .. n : t[i] = t[j] => i = j
      /\ \A x \in C : \E i \in 1 .. n : t[i] = x
  BY EnumeratesSet DEF Enumerates
<1>2. e = [i \in 1 .. n |-> t[i].entry]
  BY <1>1 DEF Entries
<1>3. /\ \A i \in 1 .. n : e[i] = t[i].entry /\ e[i] \in EntriesOf(C)
      /\ e = [i \in 1 .. n |-> e[i]] /\ DOMAIN e = 1 .. n
  BY <1>1, <1>2 DEF EntriesOf
<1> HIDE DEF e
<1>4. e \in Seq(EntriesOf(C)) /\ Len(e) = n
  <2>1. e \in Seq(EntriesOf(C))
    BY <1>1, <1>3, IsASeq
  <2>2. QED BY <1>1, <1>3, <2>1
<1>5. \A i, j \in 1 .. n : e[i] = e[j] => i = j
  BY <1>1, <1>3 DEF OneEach
<1>6. \A x \in EntriesOf(C) : \E i \in 1 .. n : e[i] = x
  BY <1>1, <1>3 DEF EntriesOf
<1>7. QED BY <1>1, <1>3, <1>4, <1>5, <1>6 DEF Enumerates, e

-----------------------------------------------------------------------------
(* A set of numbers has a least, and a chain of early returns returns the   *)
(* code of its first condition that holds.                                  *)
LEMMA LeastExists ==
    ASSUME NEW S \in SUBSET Nat, S # {}
    PROVE  Min(S) \in S /\ \A x \in S : Min(S) <= x
<1>1. PICK m \in S : \A x \in S : ~ (<<x, m>> \in LessThan)
  BY LessThanIsWellFounded, WFMin
<1>2. ASSUME NEW x \in S PROVE m <= x
  <2>1. x \in Nat /\ m \in Nat /\ ~ (<<x, m>> \in LessThan)
    BY <1>1
  <2>2. ~ (x < m)
    BY <2>1 DEF LessThan
  <2>3. QED BY <2>1, <2>2
<1>3. \A k \in S : (\A x \in S : k <= x) => k = m
  BY <1>2
<1>4. QED BY <1>2, <1>3 DEF Min

LEMMA FirstCodeIsFirst ==
    ASSUME NEW n \in Nat, NEW chain, DOMAIN chain = 1 .. n, NEW default
    PROVE  /\ FirstCode(chain, default) \in {default} \cup {chain[k][1] : k \in 1 .. n}
           /\ \A k \in 1 .. n :
                 chain[k][2] /\ (\A j \in 1 .. n : chain[j][2] => k <= j)
                     => FirstCode(chain, default) = chain[k][1]
<1> DEFINE F == {k \in 1 .. n : chain[k][2]}
<1>1. Failing(chain) = F
  BY DEF Failing
<1>2. F \in SUBSET Nat
  OBVIOUS
<1>3. CASE F = {}
  BY <1>1, <1>3 DEF FirstCode
<1>4. CASE F # {}
  <2>1. FirstCode(chain, default) = chain[Min(F)][1]
    BY <1>1, <1>4 DEF FirstCode
  <2>2. Min(F) \in F /\ \A x \in F : Min(F) <= x
    BY <1>2, <1>4, LeastExists
  <2>3. ASSUME NEW k \in 1 .. n, chain[k][2], \A j \in 1 .. n : chain[j][2] => k <= j
        PROVE  Min(F) = k
    <3>1. k \in F /\ Min(F) \in 1 .. n /\ k <= Min(F) /\ Min(F) <= k
      BY <2>2, <2>3
    <3>2. QED BY <3>1
  <2>4. QED BY <2>1, <2>2, <2>3
<1>5. QED BY <1>3, <1>4

-----------------------------------------------------------------------------
(* A sequence of lines or records, each of which names an entry, and the    *)
(* records that tell of each entry of S, once, whether it was taken; what   *)
(* they say was reached is.                                                 *)
Names(list, who) ==
    /\ list \in Seq(ToSet(list)) /\ Len(list) = Len(who)
    /\ \A i \in 1 .. Len(who) : list[i].id = who[i].id

Tells(records, S, taken, reached) ==
    \E who : /\ Enumerates(who, S) /\ Names(records, who)
             /\ \A i \in 1 .. Len(who) :
                   /\ records[i].reason = None <=> who[i] \in taken
                   /\ Reached(records[i]) => who[i] \in reached

(* A record or a line for each.                                             *)
LEMMA MadeOneByOne ==
    ASSUME NEW S, NEW who, Enumerates(who, S), NEW list, list = [i \in DOMAIN who |-> list[i]],
           \A i \in DOMAIN who : list[i].id = who[i].id
    PROVE  Names(list, who) /\ DOMAIN who = 1 .. Len(who)
<1>1. Len(who) \in Nat /\ DOMAIN who = 1 .. Len(who)
  BY EnumeratesSet
<1>2. DOMAIN list = 1 .. Len(who) /\ list = [i \in 1 .. Len(who) |-> list[i]]
  BY <1>1
<1>3. \A i \in 1 .. Len(who) : list[i] \in ToSet(list)
  BY <1>2 DEF ToSet
<1>4. list \in Seq(ToSet(list))
  BY <1>1, <1>2, <1>3, IsASeq
<1>5. Len(list) = Len(who)
  BY <1>1, <1>2, <1>4
<1>6. QED BY <1>1, <1>4, <1>5 DEF Names

(* One list after another: at each place it says what one of them says.     *)
Joins(c, u, a, v, b, w) ==
    \A i \in 1 .. Len(u) :
        \/ \E j \in 1 .. Len(v) : c[i] = a[j] /\ u[i] = v[j]
        \/ \E j \in 1 .. Len(w) : c[i] = b[j] /\ u[i] = w[j]

LEMMA NamesOfBoth ==
    ASSUME NEW S, NEW v, Enumerates(v, S), NEW a, Names(a, v),
           NEW T, NEW w, Enumerates(w, T), NEW b, Names(b, w), S \cap T = {}
    PROVE  /\ Enumerates(v \o w, S \cup T) /\ Names(a \o b, v \o w)
           /\ Joins(a \o b, v \o w, a, v, b, w)
<1> DEFINE m == Len(v)
           n == Len(w)
           U == ToSet(a) \cup ToSet(b)
<1>1. /\ v \in Seq(S) /\ m \in Nat /\ w \in Seq(T) /\ n \in Nat
      /\ a \in Seq(ToSet(a)) /\ Len(a) = m /\ b \in Seq(ToSet(b)) /\ Len(b) = n
      /\ \A i \in 1 .. m : a[i].id = v[i].id
      /\ \A i \in 1 .. n : b[i].id = w[i].id
  BY EnumeratesSet DEF Names
<1>2. /\ v \in Seq(S \cup T) /\ w \in Seq(S \cup T) /\ a \in Seq(U) /\ b \in Seq(U)
  BY <1>1
<1>3. /\ v \o w \in Seq(S \cup T) /\ Len(v \o w) = m + n
      /\ \A i \in 1 .. m : (v \o w)[i] = v[i]
      /\ \A i \in 1 .. n : (v \o w)[m + i] = w[i]
  BY <1>1, <1>2
<1>4. /\ a \o b \in Seq(U) /\ Len(a \o b) = m + n
      /\ \A i \in 1 .. m : (a \o b)[i] = a[i]
      /\ \A i \in 1 .. n : (a \o b)[m + i] = b[i]
  <2>1. /\ a \o b \in Seq(U) /\ Len(a \o b) = Len(a) + Len(b)
        /\ \A i \in 1 .. Len(a) : (a \o b)[i] = a[i]
        /\ \A i \in 1 .. Len(b) : (a \o b)[Len(a) + i] = b[i]
    BY <1>2
  <2>2. QED BY <1>1, <2>1
<1>5. \A k \in 1 .. m + n : k \in 1 .. m \/ (k - m \in 1 .. n /\ m + (k - m) = k)
  BY <1>1
<1>6. a \o b \in Seq(ToSet(a \o b))
  BY <1>4, SeqOfItself
<1> HIDE DEF m, n, U
<1>7. \A i \in 1 .. m + n :
          \/ \E j \in 1 .. m : (a \o b)[i] = a[j] /\ (v \o w)[i] = v[j]
          \/ \E j \in 1 .. n : (a \o b)[i] = b[j] /\ (v \o w)[i] = w[j]
  <2> TAKE i \in 1 .. m + n
  <2>1. CASE i \in 1 .. m
    BY <1>3, <1>4, <2>1
  <2>2. CASE i - m \in 1 .. n /\ m + (i - m) = i
    BY <1>3, <1>4, <2>2
  <2>3. QED BY <1>5, <2>1, <2>2
<1>8. Names(a \o b, v \o w)
  <2>1. ASSUME NEW i \in 1 .. m + n PROVE (a \o b)[i].id = (v \o w)[i].id
    <3>1. CASE \E j \in 1 .. m : (a \o b)[i] = a[j] /\ (v \o w)[i] = v[j]
      BY <1>1, <3>1
    <3>2. CASE \E j \in 1 .. n : (a \o b)[i] = b[j] /\ (v \o w)[i] = w[j]
      BY <1>1, <3>2
    <3>3. QED BY <1>7, <3>1, <3>2
  <2>2. QED BY <1>3, <1>4, <1>6, <2>1 DEF Names
<1>9. Joins(a \o b, v \o w, a, v, b, w)
  BY <1>3, <1>7 DEF Joins, m, n
<1>10. QED BY <1>8, <1>9, ConcatEnumerates

LEMMA TellsOfBoth ==
    ASSUME NEW taken, NEW reached, NEW S, NEW a, Tells(a, S, taken, reached),
           NEW T, NEW b, Tells(b, T, taken, reached), S \cap T = {}
    PROVE  Tells(a \o b, S \cup T, taken, reached)
<1> DEFINE Right(r, e) == /\ r.reason = None <=> e \in taken
                          /\ Reached(r) => e \in reached
<1>1. PICK v : Enumerates(v, S) /\ Names(a, v) /\ \A i \in 1 .. Len(v) : Right(a[i], v[i])
  BY DEF Tells
<1>2. PICK w : Enumerates(w, T) /\ Names(b, w) /\ \A i \in 1 .. Len(w) : Right(b[i], w[i])
  BY DEF Tells
<1> HIDE DEF Right
<1>3. /\ Enumerates(v \o w, S \cup T) /\ Names(a \o b, v \o w)
      /\ Joins(a \o b, v \o w, a, v, b, w)
  BY <1>1, <1>2, NamesOfBoth
<1>4. \A i \in 1 .. Len(v \o w) : Right((a \o b)[i], (v \o w)[i])
  BY <1>1, <1>2, <1>3 DEF Joins
<1>5. QED BY <1>3, <1>4 DEF Tells, Right

-----------------------------------------------------------------------------
(* The memories of a state, and what is offered of them.                    *)
LEMMA MemoriesAreDistinct ==
    ASSUME RememberedInv
    PROVE  /\ Enumerates(memories, ToSet(memories))
           /\ \A e \in ToSet(memories) : WellFormed(e) /\ e.created \in Nat
           /\ \A e, f \in ToSet(memories) : e.id = f.id \/ e.created = f.created => e = f
           /\ Cardinality(ToSet(memories)) <= Len(story) /\ Len(story) \in Nat
<1> DEFINE n == Len(memories)
<1>1. /\ memories \in Seq(ToSet(memories)) /\ n <= Len(story) /\ story \in Stories
      /\ \A i \in 1 .. n : /\ WellFormed(memories[i]) /\ memories[i].id = story[i].id
                           /\ memories[i].created = i
  BY DEF RememberedInv, Remembers
<1>2. story \in Seq(ToSet(story)) /\ \A i, j \in 1 .. Len(story) : story[i].id = story[j].id => i = j
  BY <1>1, StoriesAreDistinct
<1>3. /\ n \in Nat /\ Len(story) \in Nat /\ \A i \in 1 .. n : i \in 1 .. Len(story) /\ i \in Nat
      /\ DOMAIN memories = 1 .. n
  BY <1>1, <1>2
<1>4. \A i, j \in 1 .. n : memories[i].id = memories[j].id \/ memories[i].created = memories[j].created
                               => i = j
  BY <1>1, <1>2, <1>3
<1>5. ToSet(memories) = {memories[i] : i \in 1 .. n}
  BY <1>3 DEF ToSet
<1> HIDE DEF n
<1>6. Enumerates(memories, ToSet(memories))
  <2>1. \A x \in ToSet(memories) : \E i \in 1 .. n : memories[i] = x
    BY <1>5
  <2>2. \A i, j \in 1 .. n : memories[i] = memories[j] => i = j
    BY <1>4
  <2>3. QED BY <1>1, <2>1, <2>2 DEF Enumerates, n
<1>7. \A e \in ToSet(memories) : WellFormed(e) /\ e.created \in Nat
  BY <1>1, <1>3, <1>5
<1>8. \A e, f \in ToSet(memories) : e.id = f.id \/ e.created = f.created => e = f
  BY <1>4, <1>5
<1>9. Cardinality(ToSet(memories)) = n
  BY <1>6, EnumeratesSet DEF n
<1>10. QED BY <1>1, <1>3, <1>6, <1>7, <1>8, <1>9

(* A memory is named once, in a list of memories.                           *)
Places(list, id) == {i \in DOMAIN list : list[i].id = id}
NamedAt(list, who, e) == \E j \in 1 .. Len(who) : who[j] = e /\ Places(list, e.id) = {j}

LEMMA NamedOnce ==
    ASSUME RememberedInv, NEW S \in SUBSET ToSet(memories), NEW who, Enumerates(who, S),
           NEW list, Names(list, who), NEW e \in ToSet(memories)
    PROVE  /\ DOMAIN list = 1 .. Len(who)
           /\ e \in S => NamedAt(list, who, e)
           /\ e \notin S => Places(list, e.id) = {}
<1>1. /\ DOMAIN list = 1 .. Len(who) /\ \A i \in 1 .. Len(who) : list[i].id = who[i].id
      /\ \A i \in 1 .. Len(who) : who[i] \in S
      /\ \A i, j \in 1 .. Len(who) : who[i] = who[j] => i = j
  BY EnumeratesSet DEF Names, Enumerates
<1>2. \A i \in 1 .. Len(who) : list[i].id = e.id => who[i] = e
  BY <1>1, MemoriesAreDistinct
<1>3. CASE e \in S
  <2>1. PICK j \in 1 .. Len(who) : who[j] = e
    BY <1>3 DEF Enumerates
  <2>2. \A i \in DOMAIN list : list[i].id = e.id <=> i = j
    BY <1>1, <1>2, <2>1
  <2>3. Places(list, e.id) = {j}
    BY <1>1, <2>2 DEF Places
  <2>4. QED BY <1>1, <1>3, <2>1, <2>3 DEF NamedAt
<1>4. CASE e \notin S
  <2>1. Places(list, e.id) = {}
    BY <1>1, <1>2, <1>4 DEF Places
  <2>2. QED BY <1>1, <1>4, <2>1
<1>5. QED BY <1>3, <1>4

LEMMA PoolEnumerates ==
    ASSUME RememberedInv
    PROVE  Enumerates(Pool, ToSet(Pool)) /\ ToSet(Pool) \subseteq ToSet(memories)
<1> DEFINE M == ToSet(memories)
           Now(status) == {e \in M : e.status = status}
<1>1. \A status : Enumerates(WithStatus(status), Now(status))
  <2> TAKE status
  <2>1. Enumerates(Those(memories, Now(status)), M \cap Now(status))
    BY MemoriesAreDistinct, ThoseEnumerates
  <2>2. M \cap Now(status) = Now(status)
    OBVIOUS
  <2>3. QED BY <2>1, <2>2 DEF WithStatus
<1>2. Now("active") \cap Now("superseded") = {}
  OBVIOUS
<1>3. Enumerates(<<>>, {})
  BY DEF Enumerates
<1>4. /\ Now("active") \cup Now("superseded") \subseteq M /\ Now("active") \cup {} \subseteq M
      /\ Now("active") \cap {} = {}
  OBVIOUS
<1> HIDE DEF Now
<1>5. \E S \in SUBSET M : Enumerates(Pool, S)
  <2>1. CASE config.strategy = "hybrid" /\ config.temporal
    <3>1. Enumerates(WithStatus("active") \o WithStatus("superseded"),
                     Now("active") \cup Now("superseded"))
      BY <1>1, <1>2, ConcatEnumerates
    <3>2. QED BY <1>4, <2>1, <3>1 DEF Pool
  <2>2. CASE ~ (config.strategy = "hybrid" /\ config.temporal)
    <3>1. Enumerates(WithStatus("active") \o <<>>, Now("active") \cup {})
      BY <1>1, <1>3, <1>4, ConcatEnumerates
    <3>2. QED BY <1>4, <2>2, <3>1 DEF Pool
  <2>3. QED BY <2>1, <2>2
<1>6. QED BY <1>5, EnumeratesSet

-----------------------------------------------------------------------------
(* The fold of MapThenSumSet, by the size of the set: a sum of numbers is   *)
(* a number.                                                                *)
LEMMA LexicalIsNumber ==
    ASSUME NEW S, IsFiniteSet(S), NEW admitted, NEW ratio,
           \A t \in S : ratio[DocFrequency(t, admitted)] \in Nat
    PROVE  Lexical(S, admitted, ratio) \in Nat
<1> DEFINE pick(s) == CHOOSE x \in s : TRUE
           w(t) == ratio[DocFrequency(t, admitted)]
           Turn(g, s) == IF s = {} THEN 0 ELSE w(pick(s)) + g[s \ {pick(s)}]
           Level(n) == {s \in SUBSET S : Cardinality(s) <= n}
           Weighs(g, n) == g \in [Level(n) -> Nat] /\ \A s \in Level(n) : g[s] = Turn(g, s)
           L == {n \in Nat : \E g : Weighs(g, n)}
<1>1. \A s \in SUBSET S : IsFiniteSet(s) /\ Cardinality(s) \in Nat
  BY FS_Subset, FS_CardinalityType
<1>2. ASSUME NEW s \in SUBSET S, s # {}
      PROVE  /\ pick(s) \in s /\ w(pick(s)) \in Nat /\ s \ {pick(s)} \in SUBSET S
             /\ Cardinality(s \ {pick(s)}) = Cardinality(s) - 1
  <2>1. pick(s) \in s
    BY <1>2
  <2> HIDE DEF pick
  <2>2. Cardinality(s \ {pick(s)}) = Cardinality(s) - 1
    BY <1>1, <2>1, FS_RemoveElement
  <2>3. QED BY <2>1, <2>2
<1> HIDE DEF pick, w
<1>3. 0 \in L
  <2> DEFINE g == [s \in Level(0) |-> 0]
  <2>1. \A s \in Level(0) : s = {}
    BY <1>1, FS_EmptySet
  <2>2. g \in [Level(0) -> Nat] /\ \A s \in Level(0) : g[s] = Turn(g, s)
    BY <2>1
  <2>3. QED BY <2>2
<1>4. ASSUME NEW n \in L PROVE n + 1 \in L
  <2>1. PICK g : Weighs(g, n)
    OBVIOUS
  <2> DEFINE h == [s \in Level(n + 1) |-> Turn(g, s)]
  <2>2. ASSUME NEW s \in Level(n + 1), s # {} PROVE s \ {pick(s)} \in Level(n)
    BY <1>1, <1>2, <2>2
  <2>3. \A s \in Level(n) : s \in Level(n + 1)
    BY <1>1
  <2> HIDE DEF Level
  <2>4. \A s \in Level(n) : h[s] = g[s]
    BY <2>1, <2>3
  <2>5. ASSUME NEW s \in Level(n + 1) PROVE h[s] \in Nat /\ h[s] = Turn(h, s)
    <3>1. CASE s = {}
      BY <3>1
    <3>2. CASE s # {}
      <4>1. /\ s \ {pick(s)} \in Level(n) /\ h[s \ {pick(s)}] = g[s \ {pick(s)}]
            /\ g[s \ {pick(s)}] \in Nat /\ w(pick(s)) \in Nat
        <5>1. s \in SUBSET S
          BY DEF Level
        <5>2. QED BY <1>2, <2>1, <2>2, <2>4, <3>2, <5>1
      <4>2. QED BY <3>2, <4>1
    <3>3. QED BY <3>1, <3>2
  <2>6. h = [s \in Level(n + 1) |-> h[s]]
    OBVIOUS
  <2> HIDE DEF h
  <2>7. Weighs(h, n + 1)
    BY <2>5, <2>6
  <2> HIDE DEF Weighs
  <2>8. n + 1 \in Nat
    OBVIOUS
  <2>9. QED BY <2>7, <2>8
<1> HIDE DEF L
<1>5. L \in SUBSET Nat
  BY DEF L
<1>6. Cardinality(S) \in L
  BY <1>1, <1>3, <1>4, <1>5, SetInduction
<1>7. PICK g : Weighs(g, Cardinality(S))
  BY <1>6 DEF L
<1>8. Level(Cardinality(S)) = SUBSET S
  BY FS_Subset
<1> DEFINE Body(f) == [s \in SUBSET S |-> Turn(f, s)]
<1> HIDE DEF Level
<1>9. g = Body(g)
  BY <1>7, <1>8
<1>10. PICK iter : iter = CHOOSE f : f = Body(f)
  OBVIOUS
<1>11. iter = Body(iter)
  BY <1>9, <1>10
<1>12. Lexical(S, admitted, ratio) = iter[S]
  BY <1>10 DEF Lexical, MapThenSumSet, MapThenFoldSet, pick, w
<1> DEFINE G == {n \in 0 .. Cardinality(S) : \A s \in Level(n) : iter[s] \in Nat}
<1>13. 0 \in G
  <2>1. 0 \in 0 .. Cardinality(S) /\ \A s \in Level(0) : s = {} /\ s \in SUBSET S
    BY <1>1, FS_EmptySet DEF Level
  <2>2. QED BY <1>11, <2>1
<1>14. ASSUME NEW n \in 1 .. Cardinality(S), n - 1 \in G PROVE n \in G
  <2> SUFFICES ASSUME NEW s \in Level(n) PROVE iter[s] \in Nat
    BY <1>1
  <2>1. s \in SUBSET S
    BY DEF Level
  <2>2. CASE s = {}
    BY <1>11, <2>1, <2>2
  <2>3. CASE s # {}
    <3>1. s \ {pick(s)} \in Level(n - 1) /\ w(pick(s)) \in Nat
      <4>1. /\ s \ {pick(s)} \in SUBSET S /\ w(pick(s)) \in Nat
            /\ Cardinality(s \ {pick(s)}) = Cardinality(s) - 1
        BY <1>2, <2>1, <2>3
      <4>2. Cardinality(s) \in Nat /\ Cardinality(s) <= n /\ Cardinality(S) \in Nat
        BY <1>1 DEF Level
      <4>3. QED BY <4>1, <4>2 DEF Level
    <3>2. iter[s \ {pick(s)}] \in Nat
      BY <1>14, <3>1
    <3>3. iter[s] = w(pick(s)) + iter[s \ {pick(s)}]
      BY <1>11, <2>1, <2>3
    <3>4. QED BY <3>1, <3>2, <3>3
  <2>4. QED BY <2>2, <2>3
<1> HIDE DEF G
<1>15. \A n \in 0 .. Cardinality(S) : n \in G
  BY <1>1, <1>13, <1>14, LoopKeeps
<1>16. Cardinality(S) \in G /\ S \in SUBSET S
  BY <1>1, <1>15
<1>17. iter[S] \in Nat
  BY <1>8, <1>16 DEF G
<1>18. QED BY <1>12, <1>17

-----------------------------------------------------------------------------
(* What a query admits and holds back.                                      *)
HoldReasons == {"inactive_forgotten", "inactive_superseded", "not_yet_valid", "historical_only",
                "outside_as_of_interval", "inactive"}
Admissible(q) == {e \in ToSet(Pool) : Reason(e, q, Intent(q)) = None}

LEMMA ReasonIsOne ==
    ASSUME NEW e, NEW q, NEW mode
    PROVE  Reason(e, q, mode) \in HoldReasons \cup {None}
<1>1. \A now : Held(e, q, mode, now) \in HoldReasons \cup {None}
  <2> TAKE now
  <2> DEFINE c1 == e.status = "forgotten"
             c2 == e.status = "superseded" /\ mode \notin PastModes
             c3 == e.status = "superseded"
             c4 == mode = "current" /\ NotYetValid(e.time, now)
             c5 == mode = "current" /\ e.time.scope = "historical"
             c6 == mode = "as_of"
                     /\ ~ WithinReference(e.time.from, e.time.until, q.reference)
             chain == << <<"inactive_forgotten", c1>>, <<"inactive_superseded", c2>>,
                         <<None, c3>>, <<"not_yet_valid", c4>>, <<"historical_only", c5>>,
                         <<"outside_as_of_interval", c6>> >>
  <2>1. Held(e, q, mode, now) = FirstCode(chain, None)
    BY DEF Held
  <2> HIDE DEF c1, c2, c3, c4, c5, c6
  <2>2. DOMAIN chain = 1 .. 6
    OBVIOUS
  <2>3. chain[1][1] = "inactive_forgotten" /\ chain[2][1] = "inactive_superseded"
    OBVIOUS
  <2>4. chain[3][1] = None /\ chain[4][1] = "not_yet_valid"
    OBVIOUS
  <2>5. chain[5][1] = "historical_only" /\ chain[6][1] = "outside_as_of_interval"
    OBVIOUS
  <2> HIDE DEF chain
  <2>6. 6 \in Nat
    OBVIOUS
  <2>7. FirstCode(chain, None) \in {None} \cup {chain[k][1] : k \in 1 .. 6}
    BY <2>2, <2>6, FirstCodeIsFirst
  <2>8. \A k \in 1 .. 6 : k = 1 \/ k = 2 \/ k = 3 \/ k = 4 \/ k = 5 \/ k = 6
    OBVIOUS
  <2>9. \A k \in 1 .. 6 : chain[k][1] \in HoldReasons \cup {None}
    BY <2>8, <2>3, <2>4, <2>5 DEF HoldReasons
  <2>10. QED BY <2>1, <2>7, <2>9
<1>2. QED BY <1>1 DEF Reason, HoldReasons

LEMMA AdmittedEnumerates ==
    ASSUME RememberedInv, NEW q
    PROVE  /\ Enumerates(Admitted(q), Admissible(q))
           /\ Admissible(q) \subseteq ToSet(Pool) /\ Admissible(q) \subseteq ToSet(memories)
<1>1. Enumerates(Pool, ToSet(Pool)) /\ ToSet(Pool) \subseteq ToSet(memories)
  BY PoolEnumerates
<1>2. Enumerates(Those(Pool, Admissible(q)), ToSet(Pool) \cap Admissible(q))
  BY <1>1, ThoseEnumerates
<1>3. Admissible(q) \subseteq ToSet(Pool) /\ ToSet(Pool) \cap Admissible(q) = Admissible(q)
  BY DEF Admissible
<1>4. Admitted(q) = Those(Pool, Admissible(q))
  BY DEF Admitted, Admissible
<1>5. QED BY <1>1, <1>2, <1>3, <1>4

LEMMA HeldBackTells ==
    ASSUME RememberedInv, NEW q,
           NEW taken, taken \cap (ToSet(Pool) \ Admissible(q)) = {}, NEW reached
    PROVE  Tells(HeldBack(q), ToSet(Pool) \ Admissible(q), taken, reached)
<1> DEFINE H == {e \in ToSet(Pool) : Reason(e, q, Intent(q)) # None}
           held == Those(Pool, H)
           records == [i \in DOMAIN held |-> Record(held[i].id, Reason(held[i], q, Intent(q)))]
<1>1. Enumerates(held, ToSet(Pool) \cap H)
  BY PoolEnumerates, ThoseEnumerates
<1>2. ToSet(Pool) \cap H = H /\ H = ToSet(Pool) \ Admissible(q)
  BY DEF Admissible
<1>3. HeldBack(q) = records
  BY DEF HeldBack
<1>4. \A i \in 1 .. Len(held) : held[i] \in H
  BY <1>1, <1>2, EnumeratesSet
<1> HIDE DEF H, held
<1>5. \A i \in DOMAIN held : records[i].id = held[i].id
                             /\ records[i].reason = Reason(held[i], q, Intent(q))
  BY DEF Record
<1>6. DOMAIN records = DOMAIN held /\ records = [i \in DOMAIN held |-> records[i]]
  OBVIOUS
<1> HIDE DEF records
<1>7. Names(records, held) /\ DOMAIN held = 1 .. Len(held)
  BY <1>1, <1>5, <1>6, MadeOneByOne
<1>8. ASSUME NEW i \in 1 .. Len(held)
      PROVE  /\ records[i].reason = None <=> held[i] \in taken
             /\ Reached(records[i]) => held[i] \in reached
  <2>1. held[i] \notin taken
    BY <1>2, <1>4
  <2>2. /\ records[i].reason = Reason(held[i], q, Intent(q))
        /\ Reason(held[i], q, Intent(q)) # None
    BY <1>4, <1>5, <1>7 DEF H
  <2>3. Reason(held[i], q, Intent(q)) \in HoldReasons
    BY <2>2, ReasonIsOne
  <2>4. QED BY <2>1, <2>2, <2>3 DEF Reached, HoldReasons
<1>9. Tells(records, H, taken, reached)
  BY <1>1, <1>2, <1>7, <1>8 DEF Tells
<1>10. QED BY <1>2, <1>3, <1>9

-----------------------------------------------------------------------------
(* A candidate that can be ranked: an entry, with numbers for a score.      *)
Sound(c) ==
    /\ c.entry \in ToSet(memories)
    /\ c.score \in Int /\ c.evidence.direct \in Nat
    /\ IsFiniteSet(c.evidence.matched) /\ IsFiniteSet(c.evidence.names)
    /\ IsFiniteSet(c.evidence.domains)
OutReasons == {"zero_relevance", "below_semantic_floor", "no_fused_evidence"}

(* Counts of what two sets have in common.                                  *)
LEMMA CommonIsNumber ==
    ASSUME NEW S, IsFiniteSet(S), NEW T
    PROVE  IsFiniteSet(S \cap T) /\ Cardinality(S \cap T) \in Nat
<1>1. S \cap T \in SUBSET S
  OBVIOUS
<1>2. IsFiniteSet(S \cap T)
  BY <1>1, FS_Subset
<1>3. QED BY <1>2, FS_CardinalityType

LEMMA CountIsNumber ==
    ASSUME NEW P
    PROVE  Count(P) \in Nat
  BY DEF Count

(* What an entry is made of.                                                *)
LEMMA EntryParts ==
    ASSUME NEW e, WellFormed(e)
    PROVE  /\ IsFiniteSet(e.tokens) /\ IsFiniteSet(e.words) /\ IsFiniteSet(e.phrases)
           /\ IsFiniteSet(e.entities) /\ IsFiniteSet(e.tags)
           /\ e.identity.confidence \in Nat /\ e.chars \in Nat /\ KindPriority[e.kind] \in Nat
           /\ e.kind \in {"instruction", "fact", "preference"} /\ Trust(e) \in Nat
<1>1. e.kind \in {"instruction", "fact", "preference"}
  BY DEF WellFormed, KindPriority
<1>2. KindPriority[e.kind] \in Nat
  BY <1>1 DEF KindPriority
<1>3. Trust(e) \in Nat
  <2>1. e.source \in {""} \cup {"tool_verified", "user_asserted", "jointly_confirmed",
                                "system_observed", "assistant_derived"}
    BY DEF WellFormed, TrustOrder
  <2>2. \A source \in {"tool_verified", "user_asserted", "jointly_confirmed",
                       "system_observed", "assistant_derived"} : TrustOrder[source] \in Nat
    BY DEF TrustOrder
  <2>3. QED BY <2>1, <2>2 DEF Trust
<1>4. QED BY <1>1, <1>2, <1>3 DEF WellFormed

LEMMA EvidenceIsFinite ==
    ASSUME NEW e, WellFormed(e), NEW q, NEW matched, IsFiniteSet(matched)
    PROVE  LET v == Evidence(e, q, matched)
           IN  /\ v.direct \in Nat /\ IsFiniteSet(v.matched) /\ IsFiniteSet(v.names)
               /\ IsFiniteSet(v.domains)
<1>1. /\ IsFiniteSet(e.phrases \cap q.names) /\ Cardinality(e.phrases \cap q.names) \in Nat
      /\ IsFiniteSet(e.entities \cap q.entities)
      /\ Cardinality(e.entities \cap q.entities) \in Nat
      /\ IsFiniteSet(e.tags \cap q.tags)
  BY EntryParts, CommonIsNumber
<1>2. IsFiniteSet((e.phrases \cap q.names) \cup (e.entities \cap q.entities))
  BY <1>1, FS_Union
<1>3. QED BY <1>1, <1>2 DEF Evidence

LEMMA StructuredIsNumber ==
    ASSUME NEW e, WellFormed(e), NEW q, NEW expanded
    PROVE  Structured(e, q, expanded) \in Nat
<1>1. /\ Cardinality(e.phrases \cap q.names) \in Nat
      /\ Cardinality(e.entities \cap q.entities) \in Nat
      /\ Cardinality(e.tags \cap q.tags) \in Nat
  BY EntryParts, CommonIsNumber
<1>2. /\ Count(e.identity.attributeTokens \cap expanded # {}) \in Nat
      /\ Count(e.identity.valueTokens # {} /\ e.identity.valueTokens \subseteq q.tokens) \in Nat
      /\ Count(e.identity.valueTokens \cap q.tokens # {}) \in Nat
      /\ Count(e.identity.scopeTokens \cap q.tokens # {}) \in Nat
  BY CountIsNumber
<1>3. /\ ScoringWeights.phrase = 1500 /\ ScoringWeights.entity = 2000
      /\ ScoringWeights.attribute = 1200 /\ ScoringWeights.value = 1500
      /\ ScoringWeights.value \div 2 = 750 /\ ScoringWeights.scope = 800
      /\ ScoringWeights.domain = 600
  BY DEF ScoringWeights
<1>4. QED BY <1>1, <1>2, <1>3 DEF Structured

LEMMA MatchedIsFinite ==
    ASSUME NEW e, WellFormed(e), NEW expanded
    PROVE  IsFiniteSet(Matched(e, expanded)) /\ Matched(e, expanded) \subseteq e.tokens
<1>1. Matched(e, expanded) \in SUBSET e.tokens
  BY DEF Matched
<1>2. QED BY <1>1, EntryParts, FS_Subset

(* The tokens an admitted memory matches are weighed by how many of the     *)
(* admitted hold them.                                                      *)
LEMMA LexicalOfAdmitted ==
    ASSUME RememberedInv, NEW S \in SUBSET ToSet(memories), NEW e \in S, NEW expanded
    PROVE  Lexical(Matched(e, expanded), S, LogRatio[Cardinality(S)]) \in Nat
<1>1. /\ WellFormed(e) /\ IsFiniteSet(ToSet(memories)) /\ Len(story) \in Nat
      /\ Cardinality(ToSet(memories)) <= Len(story)
  BY MemoriesAreDistinct, EnumeratesSet
<1>2. /\ IsFiniteSet(S) /\ Cardinality(S) \in Nat
      /\ Cardinality(S) <= Cardinality(ToSet(memories)) /\ Cardinality(ToSet(memories)) \in Nat
  BY <1>1, FS_Subset, FS_CardinalityType
<1>3. \A n \in 1 .. Len(story) : \A df \in 1 .. n : LogRatio[n][df] \in Nat
  BY ContextAssumption DEF RememberedInv
<1>4. ASSUME NEW t \in Matched(e, expanded)
      PROVE  LogRatio[Cardinality(S)][DocFrequency(t, S)] \in Nat
  <2> DEFINE T == {f \in S : t \in f.tokens}
  <2>1. e \in T /\ T \in SUBSET S
    BY <1>1, <1>4, MatchedIsFinite
  <2>2. IsFiniteSet(T) /\ Cardinality(T) \in Nat /\ Cardinality(T) <= Cardinality(S)
    BY <1>2, <2>1, FS_Subset, FS_CardinalityType
  <2>3. Cardinality(T) # 0
    BY <2>1, <2>2, FS_EmptySet
  <2>4. Cardinality(S) \in 1 .. Len(story) /\ Cardinality(T) \in 1 .. Cardinality(S)
    BY <1>1, <1>2, <2>2, <2>3
  <2>5. DocFrequency(t, S) = Cardinality(T)
    BY DEF DocFrequency
  <2>6. QED BY <1>3, <2>4, <2>5
<1>5. IsFiniteSet(Matched(e, expanded))
  BY <1>1, MatchedIsFinite
<1>6. QED BY <1>4, <1>5, LexicalIsNumber

LEMMA BonusIsNumber ==
    ASSUME NEW e, WellFormed(e), NEW q, NEW mode, NEW pool
    PROVE  Bonus(e, q, mode, pool) \in Nat
<1>1. Trust(e) \in Nat
  BY EntryParts
<1> DEFINE fit == IF ~ FitsMode(e, q, mode, pool) THEN 0 ELSE IF mode = "current" THEN 400 ELSE 600
<1>2. fit \in Nat
  OBVIOUS
<1> HIDE DEF fit
<1>3. 50 * Trust(e) + fit \in Nat
  BY <1>1, <1>2
<1>4. QED BY <1>3 DEF Bonus, fit

LEMMA SemanticIsNumber ==
    ASSUME ContextInv, NEW e \in ToSet(memories), NEW q \in Queries
    PROVE  Semantic(e, q, cache) \in Nat
<1>1. VectorOf(e, cache) = e.embeds
  BY VectorIsOwn DEF ContextInv
<1>2. q.cosine[e.embeds] \in Int
  <2>1. PICK i \in 1 .. Len(memories) : e = memories[i]
    BY DEF ToSet, ContextInv, RememberedInv, Remembers
  <2>2. /\ e.embeds = story[i].embeds /\ story \in Stories /\ i \in 1 .. Len(story)
    <3>1. Len(memories) \in Nat /\ Len(story) \in Nat /\ Len(memories) <= Len(story)
      BY StoriesAreDistinct DEF ContextInv, RememberedInv, Remembers
    <3>2. QED BY <2>1, <3>1 DEF ContextInv, RememberedInv, Remembers
  <2>3. DOMAIN story = 1 .. Len(story)
    BY <2>2, StoriesAreDistinct
  <2>4. QED BY <2>2, <2>3, ContextAssumption
<1>3. \A x \in Int : Max({0, x}) = IF x <= 0 THEN 0 ELSE x
  <2> TAKE x \in Int
  <2> DEFINE m == IF x <= 0 THEN 0 ELSE x
  <2>1. m \in {0, x} /\ \A y \in {0, x} : m >= y
    OBVIOUS
  <2>2. \A z \in {0, x} : (\A y \in {0, x} : z >= y) => z = m
    OBVIOUS
  <2> HIDE DEF m
  <2>3. Max({0, x}) = m
    BY <2>1, <2>2 DEF Max
  <2>4. QED BY <2>3 DEF m
<1>4. QED BY <1>1, <1>2, <1>3 DEF Semantic

(* Whatever the path, what is considered of an entry is a sound candidate.  *)
LEMMA ConsideredIsSound ==
    ASSUME NEW e \in ToSet(memories), WellFormed(e), NEW evidence, evidence.direct \in Nat,
           IsFiniteSet(evidence.matched), IsFiniteSet(evidence.names),
           IsFiniteSet(evidence.domains),
           NEW lexical \in Nat, NEW structured \in Nat, NEW semantic \in Nat, NEW bonus \in Nat,
           NEW conf, NEW embedded
    PROVE  LET c == Considered(e, evidence, lexical, structured, semantic, bonus, conf, embedded)
           IN  Sound(c) /\ c.entry = e /\ c.reason \in OutReasons \cup {None}
<1> DEFINE Fit(c) == Sound(c) /\ c.entry = e /\ c.reason \in OutReasons \cup {None}
<1>1. \A score \in Int, reason \in OutReasons \cup {None} :
          Fit(Candidate(e, evidence, score, reason)) /\ Fit(Candidate(e, NoEvidence, score, reason))
  BY FS_EmptySet DEF Candidate, NoEvidence, Sound
<1> HIDE DEF Fit
<1>2. Fit(SemanticCandidate(e, semantic))
  BY <1>1 DEF SemanticCandidate, OutReasons
<1>3. Fit(LexicalCandidate(e, evidence, lexical + structured, bonus))
  <2>1. Refined(e, lexical + structured) + bonus \in Int
    BY EntryParts DEF Refined, ScoringWeights
  <2>2. QED BY <1>1, <2>1 DEF LexicalCandidate, OutReasons
<1>4. ASSUME FusedPath(conf, embedded)
      PROVE  Fit(FusedCandidate(e, evidence, lexical, structured, semantic, bonus,
                                FusionProfiles[conf.profile]))
  <2>1. PICK profile : profile = FusionProfiles[conf.profile]
    OBVIOUS
  <2>2. /\ profile.structured \in Nat /\ profile.lexical \in Nat
        /\ profile.semantic \in Nat /\ profile.temporal \in Nat
    <3>1. conf.profile \in {"lexical_semantic", "structured_semantic", "full_fusion"}
      BY <1>4 DEF FusedPath, FusionProfiles
    <3>2. QED BY <2>1, <3>1 DEF FusionProfiles, Profile
  <2>3. Squeezed(lexical, 3000) \in Int /\ Squeezed(structured, 2000) \in Int
    BY DEF Squeezed
  <2>4. Min({bonus, 1000}) \in Int
    BY LeastOfTwo
  <2>5. /\ profile.lexical * Squeezed(lexical, 3000) \in Int
        /\ profile.structured * Squeezed(structured, 2000) \in Int
        /\ profile.semantic * semantic \in Int /\ profile.temporal * Min({bonus, 1000}) \in Int
    BY <2>2, <2>3, <2>4
  <2>6. Fused(profile, lexical, structured, semantic, bonus) \in Int
    <3>1. \A a, b, c, d \in Int : (a + b + c + d) \div 100 \in Int
      OBVIOUS
    <3>2. QED BY <2>5, <3>1 DEF Fused
  <2>7. Fit(FusedCandidate(e, evidence, lexical, structured, semantic, bonus, profile))
    BY <1>1, <2>6 DEF FusedCandidate, OutReasons
  <2>8. QED BY <2>1, <2>7
<1>5. Fit(Considered(e, evidence, lexical, structured, semantic, bonus, conf, embedded))
  <2>1. CASE SemanticPath(conf, embedded)
    <3>1. ~ FusedPath(conf, embedded)
      BY <2>1 DEF SemanticPath, FusedPath, FusionProfiles
    <3>2. QED BY <1>2, <2>1, <3>1 DEF Considered
  <2>2. CASE FusedPath(conf, embedded)
    <3>1. ~ SemanticPath(conf, embedded)
      BY <2>2 DEF SemanticPath, FusedPath, FusionProfiles
    <3>2. QED BY <1>4, <2>2, <3>1 DEF Considered
  <2>3. CASE ~ SemanticPath(conf, embedded) /\ ~ FusedPath(conf, embedded)
    BY <1>3, <2>3 DEF Considered
  <2>4. QED BY <2>1, <2>2, <2>3
<1>6. QED BY <1>5 DEF Fit

LEMMA ConsiderIsSound ==
    ASSUME ContextInv, NEW q \in Queries, NEW mode, NEW expanded,
           NEW S \in SUBSET ToSet(memories), NEW e \in S, NEW embedded
    PROVE  LET c == Consider(e, q, mode, expanded, Matched(e, expanded), S, embedded)
           IN  Sound(c) /\ c.entry = e /\ c.reason \in OutReasons \cup {None}
<1>1. e \in ToSet(memories) /\ WellFormed(e)
  BY MemoriesAreDistinct DEF ContextInv
<1> DEFINE evidence == Evidence(e, q, Matched(e, expanded))
           lexical == Lexical(Matched(e, expanded), S, LogRatio[Cardinality(S)])
           structured == Structured(e, q, expanded)
           semantic == IF embedded THEN Semantic(e, q, cache) ELSE 0
           bonus == IF config.temporal THEN Bonus(e, q, mode, ToSet(Pool)) ELSE 0
<1>2. /\ evidence.direct \in Nat /\ IsFiniteSet(evidence.matched)
      /\ IsFiniteSet(evidence.names) /\ IsFiniteSet(evidence.domains)
  BY <1>1, MatchedIsFinite, EvidenceIsFinite
<1>3. lexical \in Nat
  BY LexicalOfAdmitted DEF ContextInv
<1>4. structured \in Nat
  BY <1>1, StructuredIsNumber
<1>5. semantic \in Nat
  BY <1>1, SemanticIsNumber
<1>6. bonus \in Nat
  BY <1>1, BonusIsNumber
<1>7. Consider(e, q, mode, expanded, Matched(e, expanded), S, embedded)
          = Considered(e, evidence, lexical, structured, semantic, bonus, config, embedded)
  BY DEF Consider
<1> HIDE DEF evidence, lexical, structured, semantic, bonus
<1>8. QED BY <1>1, <1>2, <1>3, <1>4, <1>5, <1>6, <1>7, ConsideredIsSound

-----------------------------------------------------------------------------
(* Lists of candidates: their records, their ranking, what it cuts off.     *)
Ranks(R) ==
    /\ \A c \in R : Sound(c) /\ c.rank \in Nat
    /\ \A c, d \in R : c.rank = d.rank => c = d

Out(C) == {c \in C : c.reason # None}

LEMMA RecordsOfCandidates ==
    ASSUME NEW X, NEW out, Enumerates(out, X), OneEach(X),
           NEW list, list = [i \in DOMAIN out |-> list[i]],
           \A i \in DOMAIN out : list[i].id = out[i].entry.id
    PROVE  /\ Enumerates(Entries(out), EntriesOf(X)) /\ Names(list, Entries(out))
           /\ \A i \in 1 .. Len(Entries(out)) :
                 i \in 1 .. Len(out) /\ i \in DOMAIN out /\ out[i] \in X
                     /\ Entries(out)[i] = out[i].entry
<1>1. /\ Enumerates(Entries(out), EntriesOf(X)) /\ DOMAIN Entries(out) = DOMAIN out
      /\ Len(Entries(out)) = Len(out) /\ \A i \in DOMAIN out : Entries(out)[i] = out[i].entry
  BY EntriesEnumerate
<1>2. DOMAIN out = 1 .. Len(out) /\ \A i \in 1 .. Len(out) : out[i] \in X
  BY EnumeratesSet
<1>3. /\ list = [i \in DOMAIN Entries(out) |-> list[i]]
      /\ \A i \in DOMAIN Entries(out) : list[i].id = Entries(out)[i].id
  BY <1>1
<1>4. Names(list, Entries(out))
  BY <1>1, <1>3, MadeOneByOne
<1>5. QED BY <1>1, <1>2, <1>4

LEMMA LeftOutTells ==
    ASSUME NEW X, NEW out, Enumerates(out, X), OneEach(X),
           \A c \in X : c.reason \in OutReasons /\ c.reason # None,
           NEW taken, taken \cap EntriesOf(X) = {}, NEW reached
    PROVE  Tells([i \in DOMAIN out |-> Record(out[i].entry.id, out[i].reason)],
                 EntriesOf(X), taken, reached)
<1> DEFINE list == [i \in DOMAIN out |-> Record(out[i].entry.id, out[i].reason)]
<1>1. /\ list = [i \in DOMAIN out |-> list[i]]
      /\ \A i \in DOMAIN out : list[i].id = out[i].entry.id /\ list[i].reason = out[i].reason
  BY DEF Record
<1> HIDE DEF list
<1>2. /\ Enumerates(Entries(out), EntriesOf(X)) /\ Names(list, Entries(out))
      /\ \A i \in 1 .. Len(Entries(out)) :
            i \in 1 .. Len(out) /\ i \in DOMAIN out /\ out[i] \in X
                /\ Entries(out)[i] = out[i].entry
  BY <1>1, RecordsOfCandidates
<1>3. ASSUME NEW i \in 1 .. Len(Entries(out))
      PROVE  /\ list[i].reason = None <=> Entries(out)[i] \in taken
             /\ Reached(list[i]) => Entries(out)[i] \in reached
  <2>1. list[i].reason \in OutReasons /\ list[i].reason # None
    BY <1>1, <1>2
  <2>2. Entries(out)[i] \notin taken
    BY <1>2 DEF EntriesOf
  <2>3. QED BY <2>1, <2>2 DEF Reached, OutReasons
<1>4. Tells(list, EntriesOf(X), taken, reached)
  BY <1>2, <1>3 DEF Tells
<1>5. QED BY <1>4 DEF list

LEMMA ExcludedTells ==
    ASSUME NEW C, NEW considered, Enumerates(considered, C), OneEach(C),
           \A c \in C : c.reason \in OutReasons \cup {None},
           NEW taken, taken \cap EntriesOf(Out(C)) = {}, NEW reached
    PROVE  Tells(Excluded(considered), EntriesOf(Out(C)), taken, reached)
<1>1. PICK out : out = Those(considered, Out(C))
  OBVIOUS
<1>2. Enumerates(out, C \cap Out(C))
  BY <1>1, ThoseEnumerates
<1>3. C \cap Out(C) = Out(C) /\ \A c \in Out(C) : c.reason \in OutReasons /\ c.reason # None
  BY DEF Out
<1>4. OneEach(Out(C))
  BY <1>3 DEF OneEach
<1>5. ToSet(considered) = C
  BY EnumeratesSet
<1>6. Excluded(considered) = [i \in DOMAIN out |-> Record(out[i].entry.id, out[i].reason)]
  BY <1>1, <1>5 DEF Excluded, Out
<1>7. QED BY <1>2, <1>3, <1>4, <1>6, LeftOutTells

LEMMA CutOffTells ==
    ASSUME NEW X, NEW cutoff, Enumerates(cutoff, X), OneEach(X),
           NEW taken, taken \cap EntriesOf(X) = {}, NEW reached
    PROVE  Tells([i \in DOMAIN cutoff |-> Record(cutoff[i].entry.id, "below_candidate_limit")],
                 EntriesOf(X), taken, reached)
<1> DEFINE list == [i \in DOMAIN cutoff |-> Record(cutoff[i].entry.id, "below_candidate_limit")]
<1>1. /\ list = [i \in DOMAIN cutoff |-> list[i]]
      /\ \A i \in DOMAIN cutoff : /\ list[i].id = cutoff[i].entry.id
                                  /\ list[i].reason = "below_candidate_limit"
  BY DEF Record
<1> HIDE DEF list
<1>2. /\ Enumerates(Entries(cutoff), EntriesOf(X)) /\ Names(list, Entries(cutoff))
      /\ \A i \in 1 .. Len(Entries(cutoff)) :
            i \in 1 .. Len(cutoff) /\ i \in DOMAIN cutoff /\ cutoff[i] \in X
                /\ Entries(cutoff)[i] = cutoff[i].entry
  BY <1>1, RecordsOfCandidates
<1>3. ASSUME NEW i \in 1 .. Len(Entries(cutoff))
      PROVE  /\ list[i].reason = None <=> Entries(cutoff)[i] \in taken
             /\ Reached(list[i]) => Entries(cutoff)[i] \in reached
  <2>1. list[i].reason = "below_candidate_limit"
    BY <1>1, <1>2
  <2>2. Entries(cutoff)[i] \notin taken
    BY <1>2 DEF EntriesOf
  <2>3. "below_candidate_limit" # None
    BY ContextAssumption
  <2>4. QED BY <2>1, <2>2, <2>3 DEF Reached
<1>4. Tells(list, EntriesOf(X), taken, reached)
  BY <1>2, <1>3 DEF Tells
<1>5. QED BY <1>4 DEF list

(* The ranking puts every candidate at one place.                           *)
LEMMA RankingEnumerates ==
    ASSUME RememberedInv, NEW C, IsFiniteSet(C), OneEach(C), \A c \in C : Sound(c)
    PROVE  Enumerates(Ranking(C), C)
<1> DEFINE key == [c \in C |-> RankingKey(c)]
<1>1. ASSUME NEW c \in C
      PROVE  RankingKey(c) \in Seq(Int) /\ RankingKey(c)[5] = c.entry.created
  <2>1. c.score \in Int /\ c.evidence.direct \in Int /\ WellFormed(c.entry)
        /\ c.entry.created \in Int
    BY MemoriesAreDistinct DEF Sound
  <2>2. KindPriority[c.entry.kind] \in Int /\ c.entry.identity.confidence \in Int
    BY <2>1, EntryParts
  <2>3. QED BY <2>1, <2>2 DEF RankingKey
<1>2. key \in [C -> Seq(Int)]
  BY <1>1
<1>3. ASSUME NEW c \in C, NEW d \in C, key[c] = key[d] PROVE c = d
  <2>1. c.entry.created = d.entry.created
    BY <1>1, <1>3
  <2>2. c.entry = d.entry
    BY <2>1, MemoriesAreDistinct DEF Sound
  <2>3. QED BY <2>2 DEF OneEach
<1>4. Ranking(C) = Descending(C, key)
  BY DEF Ranking
<1> HIDE DEF key
<1>5. QED BY <1>2, <1>3, <1>4, DescendingEnumerates

(* A rank each.                                                             *)
LEMMA RankedEnumerates ==
    ASSUME NEW C, NEW ordered, Enumerates(ordered, C), OneEach(C), \A c \in C : Sound(c)
    PROVE  LET R == ToSet(Ranked(ordered))
           IN  Enumerates(Ranked(ordered), R) /\ OneEach(R) /\ EntriesOf(R) = EntriesOf(C) /\ Ranks(R)
<1> DEFINE t == Ranked(ordered)
           n == Len(ordered)
<1>1. /\ Enumerates(Entries(ordered), EntriesOf(C)) /\ DOMAIN Entries(ordered) = DOMAIN ordered
      /\ \A i \in DOMAIN ordered : Entries(ordered)[i] = ordered[i].entry
  BY EntriesEnumerate
<1>2. DOMAIN ordered = 1 .. n /\ n \in Nat /\ \A i \in 1 .. n : ordered[i] \in C
  BY EnumeratesSet
<1>3. /\ t = [i \in DOMAIN ordered |-> t[i]]
      /\ \A i \in DOMAIN ordered : /\ t[i].entry = ordered[i].entry /\ t[i].score = ordered[i].score
                                   /\ t[i].evidence = ordered[i].evidence /\ t[i].rank = i
  BY DEF Ranked
<1> HIDE DEF t
<1>4. Enumerates(t, ToSet(t)) /\ OneEach(ToSet(t)) /\ EntriesOf(ToSet(t)) = EntriesOf(C)
  <2>1. /\ t = [i \in DOMAIN Entries(ordered) |-> t[i]]
        /\ \A i \in DOMAIN Entries(ordered) : t[i].entry = Entries(ordered)[i]
    BY <1>1, <1>3
  <2>2. QED BY <1>1, <2>1, CarriedEnumerates
<1>5. \A r \in ToSet(t) : \E i \in 1 .. n : r = t[i]
  BY <1>2, <1>3 DEF ToSet
<1>6. ASSUME NEW i \in 1 .. n PROVE Sound(t[i]) /\ t[i].rank = i
  <2>1. Sound(ordered[i])
    BY <1>2
  <2>2. QED BY <1>2, <1>3, <2>1 DEF Sound
<1>7. Ranks(ToSet(t))
  BY <1>2, <1>5, <1>6 DEF Ranks
<1>8. QED BY <1>4, <1>7 DEF t

-----------------------------------------------------------------------------
(* What a selection promises of the entries E that it chose from: those     *)
(* chosen, no more than k, are listed once, each entry has a record, and a  *)
(* contradiction with one of the chosen is warned about.                    *)
Acknowledged(S, warnings, mode) ==
    {e \in ToSet(memories) :
        config.strategy = "hybrid" /\ config.coverage /\ mode = "current" =>
            \A d \in S : Contradicts(e, d) => warnings > 0}

GoodSelection(chosen, E, mode) ==
    \E S \in SUBSET E :
        /\ Enumerates(chosen.entries, S) /\ Len(chosen.entries) <= config.k
        /\ Tells(chosen.records, E, S, Acknowledged(S, chosen.warnings, mode))

(* Without coverage selection nothing is promised of contradictions.        *)
LEMMA AllAcknowledged ==
    ASSUME NEW S, NEW warnings, NEW mode, config.strategy # "hybrid" \/ ~ config.coverage
    PROVE  Acknowledged(S, warnings, mode) = ToSet(memories)
  BY DEF Acknowledged

LEMMA KeywordIsGood ==
    ASSUME RememberedInv, config \in Configs, NEW E \in SUBSET ToSet(memories),
           NEW ranked, Enumerates(ranked, E), NEW mode,
           config.strategy # "hybrid" \/ ~ config.coverage
    PROVE  GoodSelection(ByKeyword(ranked, config.k), E, mode)
<1> DEFINE first == FirstOf(ranked, config.k)
           S == ToSet(first)
           list == [i \in DOMAIN ranked |->
                       Record(ranked[i].id, IF i <= config.k THEN None ELSE "budget_reached")]
           chosen == ByKeyword(ranked, config.k)
<1>1. config.k \in Nat
  BY ContextAssumption
<1>2. chosen.entries = first /\ chosen.records = list
  BY DEF ByKeyword, Chosen
<1>3. /\ Enumerates(first, S) /\ Len(first) <= config.k /\ S \subseteq E
      /\ \A i \in 1 .. Len(ranked) : ranked[i] \in S <=> i <= config.k
  BY <1>1, CutEnumerates
<1>4. /\ list = [i \in DOMAIN ranked |-> list[i]]
      /\ \A i \in DOMAIN ranked :
            /\ list[i].id = ranked[i].id
            /\ list[i].reason = IF i <= config.k THEN None ELSE "budget_reached"
  BY DEF Record
<1> HIDE DEF list, first, chosen
<1>5. Names(list, ranked) /\ DOMAIN ranked = 1 .. Len(ranked)
  BY <1>4, MadeOneByOne
<1>6. Acknowledged(S, chosen.warnings, mode) = ToSet(memories)
  BY AllAcknowledged
<1>7. \A i \in 1 .. Len(ranked) :
          /\ list[i].reason = None <=> ranked[i] \in S
          /\ Reached(list[i]) => ranked[i] \in ToSet(memories)
  <2>1. "budget_reached" # None
    BY ContextAssumption
  <2>2. \A i \in 1 .. Len(ranked) : ranked[i] \in E
    BY EnumeratesSet
  <2>3. QED BY <1>3, <1>4, <1>5, <2>1, <2>2
<1>8. Tells(list, E, S, ToSet(memories))
  BY <1>5, <1>7 DEF Tells
<1>9. QED BY <1>2, <1>3, <1>6, <1>8 DEF GoodSelection, chosen

LEMMA TopKIsGood ==
    ASSUME RememberedInv, config \in Configs, ~ config.coverage, NEW R,
           NEW ranked, Enumerates(ranked, R), OneEach(R), NEW mode,
           EntriesOf(R) \subseteq ToSet(memories)
    PROVE  GoodSelection(TopK(ranked, config.k), EntriesOf(R), mode)
<1> DEFINE first == FirstOf(ranked, config.k)
           F == ToSet(first)
           S == EntriesOf(F)
           list == [i \in DOMAIN ranked |->
                       Record(ranked[i].entry.id, IF i <= config.k THEN None ELSE "not_top_k")]
           chosen == TopK(ranked, config.k)
<1>1. config.k \in Nat
  BY ContextAssumption
<1>2. chosen.entries = Entries(first) /\ chosen.records = list
  BY DEF TopK, Chosen
<1>3. /\ Enumerates(first, F) /\ Len(first) <= config.k /\ F \subseteq R
      /\ \A i \in 1 .. Len(ranked) : ranked[i] \in F <=> i <= config.k
  BY <1>1, CutEnumerates
<1>4. /\ list = [i \in DOMAIN ranked |-> list[i]]
      /\ \A i \in DOMAIN ranked :
            /\ list[i].id = ranked[i].entry.id
            /\ list[i].reason = IF i <= config.k THEN None ELSE "not_top_k"
  BY DEF Record
<1> HIDE DEF list, first, chosen, F
<1>5. OneEach(F) /\ S \subseteq EntriesOf(R)
  BY <1>3 DEF OneEach, EntriesOf
<1>6. Enumerates(Entries(first), S) /\ Len(Entries(first)) <= config.k
  BY <1>3, <1>5, EntriesEnumerate
<1>7. /\ Enumerates(Entries(ranked), EntriesOf(R)) /\ Names(list, Entries(ranked))
      /\ \A i \in 1 .. Len(Entries(ranked)) :
            i \in 1 .. Len(ranked) /\ i \in DOMAIN ranked /\ ranked[i] \in R
                /\ Entries(ranked)[i] = ranked[i].entry
  <2>1. list = [i \in DOMAIN ranked |-> list[i]]
    BY <1>4
  <2>2. \A i \in DOMAIN ranked : list[i].id = ranked[i].entry.id
    BY <1>4
  <2>3. QED BY <2>1, <2>2, RecordsOfCandidates
<1>8. Acknowledged(S, chosen.warnings, mode) = ToSet(memories)
  BY AllAcknowledged
<1>9. ASSUME NEW i \in 1 .. Len(Entries(ranked))
      PROVE  /\ list[i].reason = None <=> Entries(ranked)[i] \in S
             /\ Reached(list[i]) => Entries(ranked)[i] \in ToSet(memories)
  <2>1. "not_top_k" # None
    BY ContextAssumption
  <2>2. list[i].reason = None <=> ranked[i] \in F
    BY <1>3, <1>4, <1>7, <2>1
  <2>3. ranked[i].entry \in S <=> ranked[i] \in F
    BY <1>3, <1>7 DEF EntriesOf, OneEach
  <2>4. Entries(ranked)[i] = ranked[i].entry /\ ranked[i].entry \in ToSet(memories)
    BY <1>7 DEF EntriesOf
  <2>5. QED BY <2>2, <2>3, <2>4
<1>10. Tells(list, EntriesOf(R), S, ToSet(memories))
  BY <1>7, <1>9 DEF Tells
<1>11. QED BY <1>2, <1>5, <1>6, <1>8, <1>10 DEF GoodSelection, chosen

-----------------------------------------------------------------------------
(* Timeline order keeps what was chosen.                                    *)
LEMMA StartIsDate ==
    ASSUME NEW e, WellFormed(e)
    PROVE  Start(e.time) \in Seq(Int)
<1> DEFINE dates == <<e.time.from, e.time.event>>
           chain == [k \in DOMAIN dates |-> <<dates[k], dates[k] # NoDate>>]
<1>1. e.time.from \in Seq(Int) /\ e.time.event \in Seq(Int)
  BY DEF WellFormed
<1>2. /\ DOMAIN dates = 1 .. 2 /\ dates[1] = e.time.from /\ dates[2] = e.time.event
      /\ \A k \in 1 .. 2 : k = 1 \/ k = 2
  OBVIOUS
<1> HIDE DEF dates
<1>3. DOMAIN chain = 1 .. 2 /\ \A k \in 1 .. 2 : chain[k][1] = dates[k]
  BY <1>2
<1>4. Start(e.time) = FirstCode(chain, NoDate)
  BY DEF Start, FirstKnown, dates
<1> HIDE DEF chain
<1>5. 2 \in Nat
  OBVIOUS
<1>6. FirstCode(chain, NoDate) \in {NoDate} \cup {chain[k][1] : k \in 1 .. 2}
  BY <1>3, <1>5, FirstCodeIsFirst
<1>7. NoDate \in Seq(Int)
  BY DEF NoDate
<1>8. \A k \in 1 .. 2 : chain[k][1] \in Seq(Int)
  BY <1>1, <1>2, <1>3
<1>9. QED BY <1>4, <1>6, <1>7, <1>8

LEMMA ChronologicalEnumerates ==
    ASSUME RememberedInv, NEW D, NEW chosen, Enumerates(chosen, D), OneEach(D),
           \A c \in D : Sound(c)
    PROVE  Enumerates(Chronological(chosen), D)
<1> DEFINE key == [c \in D |-> Start(c.entry.time) \o <<0, c.entry.created>>]
<1>1. ToSet(chosen) = D /\ IsFiniteSet(D)
  BY EnumeratesSet
<1>2. ASSUME NEW c \in D
      PROVE  /\ key[c] \in Seq(Int) /\ Len(key[c]) \in Nat
             /\ key[c][Len(key[c])] = c.entry.created
  <2>1. Start(c.entry.time) \in Seq(Int) /\ c.entry.created \in Int
    BY MemoriesAreDistinct, StartIsDate DEF Sound
  <2>2. PICK s \in Seq(Int) : s = Start(c.entry.time)
    BY <2>1
  <2>3. \A x \in Int : /\ s \o <<0, x>> \in Seq(Int) /\ Len(s \o <<0, x>>) = Len(s) + 2
                       /\ (s \o <<0, x>>)[Len(s) + 2] = x
    <3> TAKE x \in Int
    <3>1. <<0, x>> \in Seq(Int) /\ Len(<<0, x>>) = 2 /\ <<0, x>>[2] = x
      OBVIOUS
    <3>2. PICK u \in Seq(Int) : u = <<0, x>>
      BY <3>1
    <3>3. /\ s \o u \in Seq(Int) /\ Len(s \o u) = Len(s) + Len(u)
          /\ \A i \in 1 .. Len(u) : (s \o u)[Len(s) + i] = u[i]
      OBVIOUS
    <3>4. QED BY <3>1, <3>2, <3>3
  <2>4. QED BY <2>1, <2>2, <2>3
<1>3. key \in [D -> Seq(Int)]
  BY <1>2
<1>4. ASSUME NEW c \in D, NEW d \in D, key[c] = key[d] PROVE c = d
  <2>1. c.entry.created = d.entry.created
    BY <1>2, <1>4
  <2>2. c.entry = d.entry
    BY <2>1, MemoriesAreDistinct DEF Sound
  <2>3. QED BY <2>2 DEF OneEach
<1>5. Chronological(chosen) = Reverse(Descending(D, key))
  BY <1>1 DEF Chronological
<1> HIDE DEF key
<1>6. Enumerates(Descending(D, key), D)
  BY <1>1, <1>3, <1>4, DescendingEnumerates
<1>7. QED BY <1>5, <1>6, ReverseEnumerates

-----------------------------------------------------------------------------
(* What contradicts a chosen candidate is in conflict with the chosen, and  *)
(* to contradict is mutual.                                                 *)
LEMMA ContradictionIsMutual ==
    ASSUME NEW e, NEW f, Contradicts(e, f)
    PROVE  Contradicts(f, e)
<1>1. SlotOf(e) = SlotOf(f) /\ e.identity.attribute # None
  BY DEF Contradicts, SameSlot
<1>2. f.identity.attribute = e.identity.attribute
  BY <1>1 DEF SlotOf
<1>3. QED BY <1>1, <1>2 DEF Contradicts, SameSlot

LEMMA ContradictionIsSignalled ==
    ASSUME NEW c, NEW d, Contradicts(c.entry, d.entry)
    PROVE  Signal(c, d) = "conflicting_slot"
<1> DEFINE c1 == SameSlot(c.entry, d.entry) /\ c.entry.identity.multi
                     /\ c.entry.identity.value # d.entry.identity.value
           c2 == SameSlot(c.entry, d.entry)
                     /\ c.entry.identity.value = d.entry.identity.value
           c3 == SameSlot(c.entry, d.entry)
           c4 == NearDuplicate(c.evidence.tokens, d.evidence.tokens)
           c5 == c.evidence.matched # {} /\ c.evidence.matched = d.evidence.matched
           chain == << <<"complement", c1>>, <<"same_slot_value", c2>>,
                       <<"conflicting_slot", c3>>, <<"near_duplicate_text", c4>>,
                       <<"same_matched_evidence", c5>> >>
<1>1. Signal(c, d) = FirstCode(chain, None)
  BY DEF Signal
<1>2. ~ c1 /\ ~ c2 /\ c3
  BY DEF Contradicts
<1> HIDE DEF c1, c2, c3, c4, c5
<1>3. DOMAIN chain = 1 .. 5
  OBVIOUS
<1>4. chain[3][1] = "conflicting_slot"
  OBVIOUS
<1>5. ~ chain[1][2]
  BY <1>2
<1>6. ~ chain[2][2]
  BY <1>2
<1>7. chain[3][2]
  BY <1>2
<1> HIDE DEF chain
<1>8. \A j \in 1 .. 5 : chain[j][2] => 3 <= j
  <2> SUFFICES ASSUME NEW j \in 1 .. 5, j # 1, j # 2 PROVE 3 <= j
    BY <1>5, <1>6
  <2>1. QED OBVIOUS
<1>9. 5 \in Nat /\ 3 \in 1 .. 5
  OBVIOUS
<1>10. FirstCode(chain, None) = chain[3][1]
  BY <1>3, <1>7, <1>8, <1>9, FirstCodeIsFirst
<1>11. QED BY <1>1, <1>4, <1>10

LEMMA ContradictionIsConflict ==
    ASSUME NEW D, NEW chosen, Enumerates(chosen, D), NEW c, NEW d \in D,
           Contradicts(c.entry, d.entry), NEW mode, mode = "current"
    PROVE  InConflict(Signals(c, chosen), mode)
<1>1. DOMAIN chosen = 1 .. Len(chosen)
  BY EnumeratesSet
<1>2. PICK i \in DOMAIN chosen : chosen[i] = d
  BY <1>1 DEF Enumerates
<1>3. /\ DOMAIN Signals(c, chosen) = DOMAIN chosen
      /\ Signals(c, chosen)[i] = Signal(c, d)
  BY <1>2 DEF Signals
<1>4. Conflicting(Signals(c, chosen))
  BY <1>2, <1>3, ContradictionIsSignalled DEF Conflicting
<1>5. mode \notin PastModes
  BY DEF PastModes
<1>6. QED BY <1>4, <1>5 DEF InConflict

(* What the loop promises: of the ranked, no more than it made turns, none  *)
(* twice, and a contradiction among them has been warned about.             *)
Fair(far, R, mode, turns) ==
    /\ Enumerates(far.chosen, ToSet(far.chosen)) /\ ToSet(far.chosen) \subseteq R
    /\ Len(far.chosen) <= turns /\ far.warned \in Nat
    /\ mode = "current" =>
          \A c, d \in ToSet(far.chosen) : Contradicts(c.entry, d.entry) => far.warned > 0

LEMMA SkipReasonIsOne ==
    ASSUME NEW c, NEW far, NEW contained, NEW k
    PROVE  SkipReason(c, far, contained, k) # None
<1> DEFINE c1 == c \in contained
           c2 == Len(far.chosen) >= k
           c3 == c \in far.refused
           chain == << <<"conflict_contained", c1>>, <<"not_top_k", c2>>,
                       <<"non_positive_utility", c3>> >>
<1>1. SkipReason(c, far, contained, k) = FirstCode(chain, "not_selected_by_coverage")
  BY DEF SkipReason
<1> HIDE DEF c1, c2, c3
<1>2. DOMAIN chain = 1 .. 3 /\ 3 \in Nat
  OBVIOUS
<1>3. chain[1][1] = "conflict_contained"
  OBVIOUS
<1>4. chain[2][1] = "not_top_k"
  OBVIOUS
<1>5. chain[3][1] = "non_positive_utility"
  OBVIOUS
<1> HIDE DEF chain
<1>6. FirstCode(chain, "not_selected_by_coverage")
          \in {"not_selected_by_coverage"} \cup {chain[i][1] : i \in 1 .. 3}
  BY <1>2, FirstCodeIsFirst
<1>7. \A i \in 1 .. 3 : i = 1 \/ i = 2 \/ i = 3
  OBVIOUS
<1>8. /\ "not_selected_by_coverage" # None /\ "conflict_contained" # None
      /\ "not_top_k" # None /\ "non_positive_utility" # None
  BY ContextAssumption
<1>9. \A i \in 1 .. 3 : chain[i][1] # None
  BY <1>3, <1>4, <1>5, <1>7, <1>8
<1>10. QED BY <1>1, <1>6, <1>8, <1>9

(* The scan after the loop adds what it kept out.                           *)
LEMMA ContainIsGood ==
    ASSUME RememberedInv, config \in Configs, NEW R, NEW ranked, Enumerates(ranked, R),
           OneEach(R), \A c \in R : Sound(c), NEW mode,
           NEW far, Fair(far, R, mode, config.k)
    PROVE  GoodSelection(Contain(ranked, far, mode, config.k), EntriesOf(R), mode)
<1> DEFINE D == ToSet(far.chosen)
           S == EntriesOf(D)
           contained == Contained(ranked, far, mode)
           inOrder == IF mode \in PastModes THEN Chronological(far.chosen) ELSE far.chosen
           list == [i \in DOMAIN ranked |->
               Record(ranked[i].entry.id,
                      IF ranked[i] \in D THEN None
                      ELSE SkipReason(ranked[i], far, contained, config.k))]
           chosen == Contain(ranked, far, mode, config.k)
<1>1. /\ Enumerates(far.chosen, D) /\ D \subseteq R /\ Len(far.chosen) <= config.k
      /\ far.warned \in Nat
      /\ mode = "current" => \A c, d \in D : Contradicts(c.entry, d.entry) => far.warned > 0
  BY DEF Fair
<1>2. /\ chosen.entries = Entries(inOrder) /\ chosen.records = list
      /\ chosen.warnings = far.warned + Cardinality(contained)
  BY DEF Contain, Covering, Chosen
<1>3. /\ list = [i \in DOMAIN ranked |-> list[i]]
      /\ \A i \in DOMAIN ranked :
            /\ list[i].id = ranked[i].entry.id
            /\ list[i].reason = IF ranked[i] \in D THEN None
                                ELSE SkipReason(ranked[i], far, contained, config.k)
  BY DEF Record
<1>4. contained = {c \in R \ D : InConflict(Signals(c, far.chosen), mode)}
  BY EnumeratesSet DEF Contained
<1> HIDE DEF list, chosen, D, contained
<1>5. OneEach(D) /\ S \subseteq EntriesOf(R) /\ \A c \in D : Sound(c)
  BY <1>1 DEF OneEach, EntriesOf
<1>6. Enumerates(inOrder, D) /\ Len(inOrder) = Len(far.chosen)
  <2>1. CASE mode \in PastModes
    <3>1. Enumerates(Chronological(far.chosen), D)
      BY <1>1, <1>5, ChronologicalEnumerates
    <3>2. Len(Chronological(far.chosen)) = Cardinality(D) /\ Len(far.chosen) = Cardinality(D)
      BY <1>1, <3>1, EnumeratesSet
    <3>3. QED BY <2>1, <3>1, <3>2
  <2>2. CASE mode \notin PastModes
    BY <1>1, <2>2
  <2>3. QED BY <2>1, <2>2
<1> HIDE DEF inOrder
<1>7. Enumerates(Entries(inOrder), S) /\ Len(Entries(inOrder)) <= config.k
  <2>1. Enumerates(Entries(inOrder), S) /\ Len(Entries(inOrder)) = Len(inOrder)
    BY <1>5, <1>6, EntriesEnumerate
  <2>2. QED BY <1>1, <1>6, <2>1
<1>8. /\ Enumerates(Entries(ranked), EntriesOf(R)) /\ Names(list, Entries(ranked))
      /\ \A i \in 1 .. Len(Entries(ranked)) :
            i \in 1 .. Len(ranked) /\ i \in DOMAIN ranked /\ ranked[i] \in R
                /\ Entries(ranked)[i] = ranked[i].entry
  <2>1. list = [i \in DOMAIN ranked |-> list[i]]
    BY <1>3
  <2>2. \A i \in DOMAIN ranked : list[i].id = ranked[i].entry.id
    BY <1>3
  <2>3. QED BY <2>1, <2>2, RecordsOfCandidates
<1>9. ASSUME NEW c \in R, mode = "current", NEW d \in D, Contradicts(c.entry, d.entry)
      PROVE  chosen.warnings > 0
  <2>1. IsFiniteSet(contained) /\ Cardinality(contained) \in Nat
    <3>1. IsFiniteSet(R) /\ contained \in SUBSET R
      BY <1>4, EnumeratesSet
    <3>2. QED BY <3>1, FS_Subset, FS_CardinalityType
  <2>2. CASE c \in D
    BY <1>1, <1>2, <1>9, <2>1, <2>2
  <2>3. CASE c \notin D
    <3>1. InConflict(Signals(c, far.chosen), mode)
      BY <1>1, <1>9, ContradictionIsConflict
    <3>2. c \in contained
      BY <1>4, <2>3, <3>1
    <3>3. Cardinality(contained) # 0
      BY <2>1, <3>2, FS_EmptySet
    <3>4. QED BY <1>1, <1>2, <2>1, <3>3
  <2>4. QED BY <2>2, <2>3
<1>10. \A c \in R : c.entry \in Acknowledged(S, chosen.warnings, mode)
  <2> SUFFICES ASSUME NEW c \in R, mode = "current", NEW e \in S, Contradicts(c.entry, e)
               PROVE  chosen.warnings > 0
    BY DEF Acknowledged, Sound
  <2>1. PICK d \in D : e = d.entry
    BY DEF EntriesOf
  <2>2. QED BY <1>9, <2>1
<1>11. ASSUME NEW i \in 1 .. Len(Entries(ranked))
       PROVE  /\ list[i].reason = None <=> Entries(ranked)[i] \in S
              /\ Reached(list[i]) =>
                    Entries(ranked)[i] \in Acknowledged(S, chosen.warnings, mode)
  <2>1. list[i].reason = None <=> ranked[i] \in D
    BY <1>3, <1>8, SkipReasonIsOne
  <2>2. ranked[i].entry \in S <=> ranked[i] \in D
    BY <1>1, <1>8 DEF EntriesOf, OneEach
  <2>3. QED BY <1>8, <1>10, <2>1, <2>2
<1>12. Tells(list, EntriesOf(R), S, Acknowledged(S, chosen.warnings, mode))
  BY <1>8, <1>11 DEF Tells
<1>13. QED BY <1>2, <1>5, <1>7, <1>12 DEF GoodSelection, chosen

-----------------------------------------------------------------------------
(* The loop of coverage selection.  Utilities are numbers.                  *)
LEMMA FacetsAreFinite ==
    ASSUME NEW type, NEW names, IsFiniteSet(names)
    PROVE  IsFiniteSet(Facets(type, names))
<1> DEFINE f == [n \in names |-> <<type, n>>]
<1>1. f \in Surjection(names, Facets(type, names))
  BY DEF Surjection, Facets
<1>2. QED BY <1>1, FS_Surjection

LEMMA CandidateFacetsAreFinite ==
    ASSUME NEW c, Sound(c)
    PROVE  IsFiniteSet(CandidateFacets(c))
<1>1. /\ IsFiniteSet(Facets("token", c.evidence.matched))
      /\ IsFiniteSet(Facets("entity", c.evidence.names))
      /\ IsFiniteSet(Facets("domain", c.evidence.domains))
  BY FacetsAreFinite DEF Sound
<1>2. \A x, y : IsFiniteSet({}) /\ IsFiniteSet({x}) /\ IsFiniteSet({x, y})
  <2> TAKE x, y
  <2>1. IsFiniteSet({}) /\ IsFiniteSet({x})
    BY FS_EmptySet, FS_Singleton
  <2>2. IsFiniteSet({x} \cup {y})
    BY <2>1, FS_AddElement
  <2>3. {x, y} = {x} \cup {y}
    OBVIOUS
  <2>4. QED BY <2>1, <2>2, <2>3
<1>3. IsFiniteSet(IdentityFacets(c.entry.identity))
  <2> DEFINE id == c.entry.identity
             S == IF id.attribute = None THEN {}
                  ELSE {<<"attribute", id.attribute>>, <<"value", <<id.attribute, id.value>>>>}
             T == IF id.scope = "global" THEN {} ELSE {<<"scope", id.scope>>}
  <2>1. IsFiniteSet(S)
    BY <1>2
  <2>2. IsFiniteSet(T)
    BY <1>2
  <2>3. IdentityFacets(id) = S \cup T
    BY DEF IdentityFacets
  <2> HIDE DEF S, T
  <2>4. QED BY <2>1, <2>2, <2>3, FS_Union
<1>4. \A S, T : IsFiniteSet(S) /\ IsFiniteSet(T) => IsFiniteSet(S \cup T)
  BY FS_Union
<1>5. IsFiniteSet({<<"kind", c.entry.kind>>})
  BY <1>2
<1>6. QED BY <1>1, <1>3, <1>4, <1>5 DEF CandidateFacets

LEMMA SizeIsNumber ==
    ASSUME NEW e, WellFormed(e)
    PROVE  Size(e) \in Nat
  BY EntryParts DEF Size

LEMMA GainsAreNumbers ==
    ASSUME NEW c, c.score \in Int, WellFormed(c.entry), NEW new, IsFiniteSet(new),
           NEW asked \in SUBSET new
    PROVE  Gains(c, new, asked) \in Int
<1> DEFINE named == {f \in new : f[1] = "entity"}
           brevity == IF asked = {} THEN 0 ELSE 3000 \div (20 + Size(c.entry))
<1>1. Cardinality(asked) \in Nat
  BY FS_Subset, FS_CardinalityType
<1>2. Cardinality(named) \in Nat
  <2>1. named \in SUBSET new
    OBVIOUS
  <2>2. QED BY <2>1, FS_Subset, FS_CardinalityType
<1>3. Count(c.entry.kind = "instruction" /\ new # {}) \in Nat
  BY CountIsNumber
<1>4. brevity \in Int
  BY SizeIsNumber
<1>5. /\ CoverageWeights.facet = 600 /\ CoverageWeights.entity = 500
      /\ CoverageWeights.instruction = 300
  BY DEF CoverageWeights
<1>6. c.entry.identity.confidence \in Nat
  BY EntryParts
<1> HIDE DEF named, brevity
<1>7. c.score + c.entry.identity.confidence + 600 * Cardinality(asked) + 500 * Cardinality(named)
          + 300 * Count(c.entry.kind = "instruction" /\ new # {}) + brevity \in Int
  BY <1>1, <1>2, <1>3, <1>4, <1>6
<1>8. QED BY <1>5, <1>7 DEF Gains, named, brevity

LEMMA AttributeGainIsNumber ==
    ASSUME NEW id, NEW new, NEW far
    PROVE  AttributeGain(id, new, far) \in Nat
<1>1. Count(id.multi /\ <<"value", <<id.attribute, id.value>>>> \in new) \in Nat
  BY CountIsNumber
<1>2. CoverageWeights.attribute = 800 /\ CoverageWeights.value = 700
  BY DEF CoverageWeights
<1>3. QED BY <1>1, <1>2 DEF AttributeGain

LEMMA SourceGainIsNumber ==
    ASSUME NEW c, NEW signals, NEW several, NEW asked, NEW far
    PROVE  SourceGain(c, signals, several, asked, far) \in Nat
<1> DEFINE P == /\ several /\ asked # {}
                /\ c.entry.session # "" /\ c.entry.session \notin far.sessions
                /\ \A i \in DOMAIN signals : signals[i] \in {None, "complement"}
<1>1. Count(P) \in Nat
  BY CountIsNumber
<1>2. CoverageWeights.source = 400
  BY DEF CoverageWeights
<1> HIDE DEF P
<1>3. 400 * Count(P) \in Nat
  BY <1>1
<1>4. QED BY <1>2, <1>3 DEF SourceGain, P

LEMMA CostsAreNumbers ==
    ASSUME NEW R, NEW chosen \in Seq(R), NEW c, NEW mode
    PROVE  Costs(Signals(c, chosen), mode) \in Nat
<1> DEFINE signals == Signals(c, chosen)
           again == {i \in DOMAIN signals :
               signals[i] \in {"same_slot_value", "near_duplicate_text", "same_matched_evidence"}}
<1>1. DOMAIN signals = 1 .. Len(chosen) /\ Len(chosen) \in Nat
  BY DEF Signals
<1>2. IsFiniteSet(1 .. Len(chosen))
  BY <1>1, FS_Interval
<1>3. again \in SUBSET (1 .. Len(chosen))
  BY <1>1
<1>4. Repeats(signals) \in Nat
  BY <1>2, <1>3, FS_Subset, FS_CardinalityType DEF Repeats
<1> HIDE DEF signals
<1>5. Min({2, Repeats(signals)}) \in Nat
  BY <1>4, LeastOfTwo
<1>6. Count(InConflict(signals, mode)) \in Nat
  BY CountIsNumber
<1>7. CoverageWeights.redundancy = 1200 /\ CoverageWeights.conflict = 2000
  BY DEF CoverageWeights
<1>8. Costs(signals, mode) \in Nat
  BY <1>5, <1>6, <1>7 DEF Costs
<1>9. QED BY <1>8 DEF signals

LEMMA AppraisalIsNumber ==
    ASSUME RememberedInv, NEW R, NEW far, far.chosen \in Seq(R), NEW c, Sound(c), c.rank \in Nat,
           NEW q, NEW mode
    PROVE  LET a == Appraisal(c, q, CandidateFacets(c) \ far.covered, Signals(c, far.chosen),
                              mode, far)
           IN  /\ a.utility \in Int /\ UtilityKey(c, a) \in Seq(Int)
               /\ UtilityKey(c, a)[8] = - c.rank
<1> DEFINE new == CandidateFacets(c) \ far.covered
           signals == Signals(c, far.chosen)
           a == Appraisal(c, q, new, signals, mode, far)
<1>1. WellFormed(c.entry) /\ c.score \in Int /\ c.evidence.direct \in Int
  BY MemoriesAreDistinct DEF Sound
<1>2. IsFiniteSet(new) /\ Cardinality(new) \in Nat
  <2>1. new \in SUBSET CandidateFacets(c)
    OBVIOUS
  <2>2. QED BY <2>1, CandidateFacetsAreFinite, FS_Subset, FS_CardinalityType
<1>3. Gains(c, new, new \cap QueryFacets(q)) \in Int
  BY <1>1, <1>2, GainsAreNumbers
<1>4. Costs(signals, mode) \in Nat
  BY CostsAreNumbers
<1> HIDE DEF new, signals
<1>5. a.utility \in Int /\ a.new = new
  BY <1>3, <1>4, AttributeGainIsNumber, SourceGainIsNumber DEF Appraisal
<1> HIDE DEF a
<1>6. /\ KindPriority[c.entry.kind] \in Int /\ c.entry.identity.confidence \in Int
      /\ - Size(c.entry) \in Int /\ - c.rank \in Int /\ Cardinality(a.new) \in Int
  BY <1>1, <1>2, <1>5, EntryParts, SizeIsNumber
<1>7. UtilityKey(c, a) \in Seq(Int) /\ UtilityKey(c, a)[8] = - c.rank
  BY <1>1, <1>5, <1>6 DEF UtilityKey
<1>8. QED BY <1>5, <1>7 DEF a, new, signals

(* A turn takes somebody who has not been taken, or nobody.                 *)
AppraisalOf(c, q, mode, far) ==
    Appraisal(c, q, CandidateFacets(c) \ far.covered, Signals(c, far.chosen), mode, far)

LEMMA StepTakes ==
    ASSUME RememberedInv, NEW R, IsFiniteSet(R), Ranks(R), NEW ranked, ToSet(ranked) = R,
           NEW q, NEW mode, NEW far, far.chosen \in Seq(R)
    PROVE  \/ Step(ranked, q, mode, far) = far
           \/ \E c \in R \ ToSet(far.chosen) :
                 Step(ranked, q, mode, far) = Taking(c, AppraisalOf(c, q, mode, far), far)
<1> SUFFICES ASSUME ~ (far.refused # {} \/ R \subseteq ToSet(far.chosen))
             PROVE  \E c \in R \ ToSet(far.chosen) :
                 Step(ranked, q, mode, far) = Taking(c, AppraisalOf(c, q, mode, far), far)
  BY DEF Step
<1> DEFINE rest == R \ ToSet(far.chosen)
           appraised == [c \in rest |-> AppraisalOf(c, q, mode, far)]
           key == [c \in rest |-> UtilityKey(c, appraised[c])]
           IsBest(c) == \A d \in rest :
                           ~ Precedes(UtilityKey(c, appraised[c]), UtilityKey(d, appraised[d]))
           best == CHOOSE c \in rest : IsBest(c)
<1>1. rest \in SUBSET R /\ rest # {}
  OBVIOUS
<1>2. IsFiniteSet(rest)
  BY <1>1, FS_Subset
<1>3. ASSUME NEW c \in rest
      PROVE  UtilityKey(c, appraised[c]) \in Seq(Int) /\ UtilityKey(c, appraised[c])[8] = - c.rank
  <2>1. Sound(c) /\ c.rank \in Nat
    BY <1>1 DEF Ranks
  <2>2. appraised[c] = AppraisalOf(c, q, mode, far)
    OBVIOUS
  <2> HIDE DEF appraised
  <2>3. QED BY <2>1, <2>2, AppraisalIsNumber DEF AppraisalOf
<1>4. DOMAIN appraised = rest
  OBVIOUS
<1>5. Step(ranked, q, mode, far) = TakeBest(appraised, far)
  BY DEF Step, AppraisalOf
<1> HIDE DEF appraised, rest
<1>6. key \in [rest -> Seq(Int)]
  BY <1>3
<1>7. ASSUME NEW c \in rest, NEW d \in rest, key[c] = key[d] PROVE c = d
  <2>1. - c.rank = - d.rank /\ c.rank \in Nat /\ d.rank \in Nat
    BY <1>1, <1>3, <1>7 DEF Ranks
  <2>2. c.rank = d.rank
    BY <2>1
  <2>3. QED BY <1>1, <2>2 DEF Ranks
<1>8. \E c \in rest : \A d \in rest : ~ Precedes(key[c], key[d])
  <2> HIDE DEF key
  <2>1. QED BY <1>1, <1>2, <1>6, <1>7, BestExists
<1>9. \E c \in rest : IsBest(c)
  BY <1>8
<1>10. best \in rest
  <2> HIDE DEF IsBest
  <2>1. QED BY <1>9
<1>11. TakeBest(appraised, far) = Taking(best, appraised[best], far)
  BY <1>4 DEF TakeBest
<1> HIDE DEF best
<1>12. appraised[best] = AppraisalOf(best, q, mode, far)
  BY <1>10 DEF appraised
<1>13. QED BY <1>5, <1>10, <1>11, <1>12 DEF rest

(* What the loop has so far is made of the candidates.                      *)
Sofar(R) ==
    [chosen: Seq(R), covered: SUBSET UNION {CandidateFacets(c) : c \in R},
     attributes: SUBSET {c.entry.identity.attribute : c \in R},
     sessions: SUBSET {c.entry.session : c \in R}, warned: Nat, refused: SUBSET R]

LEMMA TakingStays ==
    ASSUME NEW R, NEW far \in Sofar(R), NEW c \in R, NEW q, NEW mode
    PROVE  Taking(c, AppraisalOf(c, q, mode, far), far) \in Sofar(R)
<1> DEFINE a == AppraisalOf(c, q, mode, far)
<1>1. a.new \subseteq CandidateFacets(c)
  BY DEF AppraisalOf, Appraisal
<1> HIDE DEF a
<1>2. CASE a.utility <= 0
  <2>1. Taking(c, a, far) = [far EXCEPT !.refused = {c}]
    BY <1>2 DEF Taking
  <2>2. [far EXCEPT !.refused = {c}] \in Sofar(R)
    BY DEF Sofar
  <2>3. QED BY <2>1, <2>2 DEF a
<1>3. CASE ~ (a.utility <= 0)
  <2>1. Append(far.chosen, c) \in Seq(R)
    BY DEF Sofar
  <2>2. far.covered \cup a.new \in SUBSET UNION {CandidateFacets(d) : d \in R}
    BY <1>1 DEF Sofar
  <2>3. /\ far.attributes \cup ({c.entry.identity.attribute} \ {None})
               \in SUBSET {d.entry.identity.attribute : d \in R}
        /\ far.sessions \cup ({c.entry.session} \ {""}) \in SUBSET {d.entry.session : d \in R}
    BY DEF Sofar
  <2>4. far.warned + Count(a.warned) \in Nat /\ {} \in SUBSET R
    BY CountIsNumber DEF Sofar
  <2>5. Taking(c, a, far) \in Sofar(R)
    BY <1>3, <2>1, <2>2, <2>3, <2>4 DEF Taking, Sofar
  <2>6. QED BY <2>5 DEF a
<1>4. QED BY <1>2, <1>3

(* A turn keeps what the loop promises.                                     *)
LEMMA TakingIsFair ==
    ASSUME NEW R, NEW far \in Sofar(R), NEW mode, NEW turns \in Nat, Fair(far, R, mode, turns),
           NEW c \in R \ ToSet(far.chosen), NEW q
    PROVE  Fair(Taking(c, AppraisalOf(c, q, mode, far), far), R, mode, turns + 1)
<1> DEFINE a == AppraisalOf(c, q, mode, far)
           D == ToSet(far.chosen)
           more == Append(far.chosen, c)
           next == Taking(c, a, far)
<1>1. a.warned = InConflict(Signals(c, far.chosen), mode)
  BY DEF AppraisalOf, Appraisal
<1>2. /\ Enumerates(far.chosen, D) /\ D \subseteq R /\ Len(far.chosen) <= turns
      /\ far.warned \in Nat /\ Len(far.chosen) \in Nat
      /\ mode = "current" => \A d, e \in D : Contradicts(d.entry, e.entry) => far.warned > 0
  BY EnumeratesSet DEF Fair
<1> HIDE DEF a, D, more
<1>3. CASE a.utility <= 0
  <2>1. next.chosen = far.chosen /\ next.warned = far.warned
    BY <1>3 DEF Taking, Sofar
  <2> HIDE DEF next
  <2>2. Fair(next, R, mode, turns + 1)
    BY <1>2, <2>1 DEF Fair, D
  <2>3. QED BY <2>2 DEF next, a
<1>4. CASE ~ (a.utility <= 0)
  <2>1. next.chosen = more /\ next.warned = far.warned + Count(a.warned)
    BY <1>4 DEF Taking, more
  <2>2. Enumerates(more, D \cup {c})
    BY <1>2, AppendEnumerates DEF more, D
  <2>3. ToSet(more) = D \cup {c}
    BY <2>2, EnumeratesSet
  <2>4. Len(more) = Len(far.chosen) + 1
    <3>1. far.chosen \in Seq(R)
      BY DEF Sofar
    <3>2. QED BY <3>1 DEF more
  <2>5. next.warned \in Nat /\ next.warned >= far.warned
    BY <1>2, <2>1, CountIsNumber
  <2>6. ASSUME mode = "current", NEW d \in D, \/ Contradicts(c.entry, d.entry)
                                              \/ Contradicts(d.entry, c.entry)
        PROVE  next.warned > 0
    <3>1. Contradicts(c.entry, d.entry)
      BY <2>6, ContradictionIsMutual
    <3>2. InConflict(Signals(c, far.chosen), mode)
      BY <1>2, <2>6, <3>1, ContradictionIsConflict
    <3>3. Count(a.warned) = 1
      BY <1>1, <3>2 DEF Count
    <3>4. QED BY <1>2, <2>1, <3>3
  <2>7. ~ Contradicts(c.entry, c.entry)
    BY DEF Contradicts
  <2>8. ASSUME mode = "current", NEW d \in D \cup {c}, NEW e \in D \cup {c},
               Contradicts(d.entry, e.entry)
        PROVE  next.warned > 0
    <3>1. CASE d \in D /\ e \in D
      BY <1>2, <2>5, <2>8, <3>1
    <3>2. CASE d = c /\ e \in D
      BY <2>6, <2>8, <3>2
    <3>3. CASE d \in D /\ e = c
      BY <2>6, <2>8, <3>3
    <3>4. QED BY <2>7, <2>8, <3>1, <3>2, <3>3
  <2> HIDE DEF next
  <2>9. D \cup {c} \subseteq R /\ Len(more) <= turns + 1
    BY <1>2, <2>4
  <2>10. Fair(next, R, mode, turns + 1)
    BY <2>1, <2>2, <2>3, <2>5, <2>8, <2>9 DEF Fair
  <2>11. QED BY <2>10 DEF next, a
<1>5. QED BY <1>3, <1>4

LEMMA GreedyIsFair ==
    ASSUME RememberedInv, NEW R, NEW ranked, Enumerates(ranked, R), Ranks(R),
           NEW q, NEW mode, NEW k \in Nat
    PROVE  Fair(Greedy(ranked, q, mode, k), R, mode, k)
<1> DEFINE V == Sofar(R)
           turn == [p \in V \X (1 .. k) |-> Step(ranked, q, mode, p[1])]
           Body(f) == [n \in 0 .. k |-> IF n = 0 THEN Nothing ELSE Step(ranked, q, mode, f[n - 1])]
<1>1. ToSet(ranked) = R /\ IsFiniteSet(R)
  BY EnumeratesSet
<1>2. Nothing \in V
  BY DEF Nothing, Sofar
<1>3. ASSUME NEW far \in V
      PROVE  \/ Step(ranked, q, mode, far) = far
             \/ \E c \in R \ ToSet(far.chosen) :
                   Step(ranked, q, mode, far) = Taking(c, AppraisalOf(c, q, mode, far), far)
  <2>1. far.chosen \in Seq(R)
    BY DEF Sofar
  <2>2. QED BY <1>1, <2>1, StepTakes
<1>4. ASSUME NEW far \in V PROVE Step(ranked, q, mode, far) \in V
  <2>1. CASE Step(ranked, q, mode, far) = far
    BY <2>1
  <2>2. ASSUME NEW c \in R \ ToSet(far.chosen),
               Step(ranked, q, mode, far) = Taking(c, AppraisalOf(c, q, mode, far), far)
        PROVE  Step(ranked, q, mode, far) \in V
    BY <2>2, TakingStays
  <2>3. QED BY <1>3, <2>1, <2>2
<1>5. turn \in [V \X (1 .. k) -> V]
  BY <1>4
<1>6. \A far \in V, n \in 1 .. k : turn[<<far, n>>] = Step(ranked, q, mode, far)
  OBVIOUS
<1> HIDE DEF turn, V
<1>7. PICK f : Turns(f, k, V, Nothing, turn)
  BY <1>2, <1>5, LoopRuns
<1>8. /\ f[0] = Nothing /\ \A n \in 0 .. k : f[n] \in V
      /\ \A n \in 1 .. k : n - 1 \in 0 .. k /\ f[n] = Step(ranked, q, mode, f[n - 1])
  <2>1. f[0] = Nothing /\ \A n \in 0 .. k : f[n] \in V
    BY <1>7 DEF Turns
  <2>2. ASSUME NEW n \in 1 .. k
        PROVE  n - 1 \in 0 .. k /\ f[n] = Step(ranked, q, mode, f[n - 1])
    <3>1. n - 1 \in 0 .. k
      OBVIOUS
    <3>2. f[n] = turn[<<f[n - 1], n>>]
      BY <1>7 DEF Turns
    <3>3. f[n - 1] \in V
      BY <2>1, <3>1
    <3>4. QED BY <1>6, <3>1, <3>2, <3>3
  <2>3. QED BY <2>1, <2>2
<1>9. f = Body(f)
  <2>1. f = [n \in 0 .. k |-> f[n]]
    BY <1>7 DEF Turns
  <2>2. \A n \in 0 .. k : f[n] = IF n = 0 THEN Nothing ELSE Step(ranked, q, mode, f[n - 1])
    BY <1>8
  <2>3. QED BY <2>1, <2>2
<1>10. PICK g : g = CHOOSE h : h = Body(h)
  OBVIOUS
<1>11. g = Body(g) /\ Greedy(ranked, q, mode, k) = g[k]
  <2>1. g = Body(g)
    BY <1>9, <1>10
  <2>2. QED BY <1>10, <2>1 DEF Greedy
<1> DEFINE G == {n \in 0 .. k : g[n] \in V /\ Fair(g[n], R, mode, n)}
<1>12. 0 \in G
  <2>1. 0 \in 0 .. k /\ g[0] = Nothing
    BY <1>11
  <2>2. Fair(Nothing, R, mode, 0)
    <3>1. Nothing.chosen = <<>> /\ Nothing.warned = 0
      BY DEF Nothing
    <3>2. ToSet(<<>>) = {} /\ Enumerates(<<>>, {}) /\ Len(<<>>) = 0
      BY DEF ToSet, Enumerates
    <3>3. {} \subseteq R /\ 0 \in Nat /\ 0 <= 0
      OBVIOUS
    <3>4. mode = "current" => \A d, e \in {} : Contradicts(d.entry, e.entry) => 0 > 0
      OBVIOUS
    <3> HIDE DEF Body
    <3>5. QED BY ONLY <3>1, <3>2, <3>3, <3>4 DEF Fair
  <2>3. QED BY <1>2, <2>1, <2>2
<1>13. ASSUME NEW n \in 1 .. k, n - 1 \in G PROVE n \in G
  <2>1. PICK far \in V : far = g[n - 1] /\ Fair(far, R, mode, n - 1)
    BY <1>13
  <2>2. n \in 0 .. k /\ n - 1 \in Nat /\ (n - 1) + 1 = n /\ g[n] = Step(ranked, q, mode, far)
    BY <1>11, <2>1
  <2>3. CASE Step(ranked, q, mode, far) = far
    <3>1. Fair(far, R, mode, n)
      BY <2>1, <2>2, EnumeratesSet DEF Fair
    <3>2. QED BY <2>2, <2>3, <3>1
  <2>4. ASSUME NEW c \in R \ ToSet(far.chosen),
               Step(ranked, q, mode, far) = Taking(c, AppraisalOf(c, q, mode, far), far)
        PROVE  n \in G
    <3>1. Fair(Taking(c, AppraisalOf(c, q, mode, far), far), R, mode, n)
      BY <2>1, <2>2, TakingIsFair DEF V
    <3>2. QED BY <1>4, <2>2, <2>4, <3>1
  <2>5. QED BY <1>3, <2>3, <2>4
<1> HIDE DEF G
<1>14. \A n \in 0 .. k : n \in G
  BY <1>12, <1>13, LoopKeeps
<1>15. k \in G
  BY <1>14
<1>16. QED BY <1>11, <1>15 DEF G

(* Whichever way a strategy selects from the ranked.                        *)
LEMMA SelectedIsGood ==
    ASSUME RememberedInv, config \in Configs, NEW R, NEW ranked, Enumerates(ranked, R),
           OneEach(R), Ranks(R), NEW q, NEW mode
    PROVE  GoodSelection(Selected(ranked, q, mode, config.k), EntriesOf(R), mode)
<1>1. config.k \in Nat
  BY ContextAssumption
<1>2. \A c \in R : Sound(c)
  BY DEF Ranks
<1>3. CASE config.coverage
  <2>1. Fair(Greedy(ranked, q, mode, config.k), R, mode, config.k)
    BY <1>1, GreedyIsFair
  <2>2. GoodSelection(Contain(ranked, Greedy(ranked, q, mode, config.k), mode, config.k),
                      EntriesOf(R), mode)
    BY <1>2, <2>1, ContainIsGood
  <2>3. QED BY <1>3, <2>2 DEF Selected
<1>4. CASE ~ config.coverage
  <2>1. EntriesOf(R) \subseteq ToSet(memories)
    BY <1>2 DEF EntriesOf, Sound
  <2>2. GoodSelection(TopK(ranked, config.k), EntriesOf(R), mode)
    BY <1>4, <2>1, TopKIsGood
  <2>3. QED BY <1>4, <2>2 DEF Selected
<1>5. QED BY <1>3, <1>4

(* What was never ranked has a record that says so, whatever was taken of   *)
(* the others.                                                              *)
LeftOut(records, S) ==
    \A taken, reached : taken \cap S = {} => Tells(records, S, taken, reached)

LEMMA LeftOutBoth ==
    ASSUME NEW S, NEW a, LeftOut(a, S), NEW T, NEW b, LeftOut(b, T), S \cap T = {}
    PROVE  LeftOut(a \o b, S \cup T)
<1> SUFFICES ASSUME NEW taken, NEW reached, taken \cap (S \cup T) = {}
             PROVE  Tells(a \o b, S \cup T, taken, reached)
  BY DEF LeftOut
<1>1. Tells(a, S, taken, reached) /\ Tells(b, T, taken, reached)
  BY DEF LeftOut
<1>2. QED BY <1>1, TellsOfBoth

LEMMA WithExcludedIsGood ==
    ASSUME NEW E, NEW chosen, NEW mode, GoodSelection(chosen, E, mode),
           NEW T, NEW excluded, LeftOut(excluded, T), E \cap T = {},
           NEW X, NEW cutoff, Enumerates(cutoff, X), OneEach(X), (E \cup T) \cap EntriesOf(X) = {},
           DOMAIN chosen = {"entries", "records", "warnings", "pairs"}
    PROVE  GoodSelection(WithExcluded(chosen, excluded, cutoff), (E \cup T) \cup EntriesOf(X), mode)
<1> DEFINE cut == [i \in DOMAIN cutoff |-> Record(cutoff[i].entry.id, "below_candidate_limit")]
           all == WithExcluded(chosen, excluded, cutoff)
           A(S) == Acknowledged(S, chosen.warnings, mode)
<1>1. /\ all.entries = chosen.entries /\ all.warnings = chosen.warnings
      /\ all.records = (chosen.records \o excluded) \o cut
  BY DEF WithExcluded
<1>2. PICK S \in SUBSET E :
          /\ Enumerates(chosen.entries, S) /\ Len(chosen.entries) <= config.k
          /\ Tells(chosen.records, E, S, A(S))
  BY DEF GoodSelection
<1> HIDE DEF A, cut, all
<1>3. S \cap T = {} /\ S \cap EntriesOf(X) = {}
  BY <1>2
<1>4. Tells(excluded, T, S, A(S))
  BY <1>3 DEF LeftOut
<1>5. Tells(cut, EntriesOf(X), S, A(S))
  BY <1>3, CutOffTells DEF cut
<1>6. Tells(chosen.records \o excluded, E \cup T, S, A(S))
  BY <1>2, <1>4, TellsOfBoth
<1>7. Tells((chosen.records \o excluded) \o cut, (E \cup T) \cup EntriesOf(X), S, A(S))
  BY <1>5, <1>6, TellsOfBoth
<1>8. /\ Enumerates(all.entries, S) /\ Len(all.entries) <= config.k
      /\ Tells(all.records, (E \cup T) \cup EntriesOf(X), S, Acknowledged(S, all.warnings, mode))
  BY <1>1, <1>2, <1>7 DEF A
<1>9. S \in SUBSET ((E \cup T) \cup EntriesOf(X))
  BY <1>2
<1>10. QED BY <1>8, <1>9 DEF GoodSelection, all

(* Never more candidates than a limit, which is a number.                   *)
LEMMA LimitIsNumber ==
    ASSUME config \in Configs
    PROVE  Limit(config) \in Nat
<1>1. config.limit \in Nat /\ config.k \in Nat
  BY ContextAssumption
<1>2. ASSUME NEW a \in Nat, NEW b \in Nat PROVE Max({a, b}) \in Nat
  <2>1. CASE a <= b
    <3>1. b \in {a, b} /\ \A y \in {a, b} : b >= y
      BY <2>1
    <3>2. QED BY <3>1 DEF Max
  <2>2. CASE b <= a
    <3>1. a \in {a, b} /\ \A y \in {a, b} : a >= y
      BY <2>2
    <3>2. QED BY <3>1 DEF Max
  <2>3. QED BY <2>1, <2>2
<1>3. QED BY <1>1, <1>2 DEF Limit

LEMMA PartsOfSelected ==
    ASSUME NEW ranked, NEW q, NEW mode, NEW k
    PROVE  DOMAIN Selected(ranked, q, mode, k) = {"entries", "records", "warnings", "pairs"}
  BY DEF Selected, Contain, Covering, TopK, Chosen

(* What part of the candidates is, of distinct entries too.                 *)
LEMMA ApartEntries ==
    ASSUME NEW C, OneEach(C), NEW A \in SUBSET C, NEW B \in SUBSET C, A \cap B = {}
    PROVE  /\ OneEach(A) /\ EntriesOf(A) \subseteq EntriesOf(C)
           /\ EntriesOf(A) \cap EntriesOf(B) = {} /\ EntriesOf(A \cup B) = EntriesOf(A) \cup EntriesOf(B)
  BY DEF OneEach, EntriesOf

(* What a limit cuts off the ranked, and what is selected from the others.  *)
LEMMA LimitedIsGood ==
    ASSUME RememberedInv, config \in Configs, NEW R, NEW ranked, Enumerates(ranked, R),
           OneEach(R), Ranks(R), NEW T, NEW excluded, LeftOut(excluded, T),
           EntriesOf(R) \cap T = {}, NEW q, NEW mode
    PROVE  GoodSelection(Limited(ranked, Limit(config), excluded, q, mode), EntriesOf(R) \cup T, mode)
<1> DEFINE limit == Limit(config)
           first == FirstOf(ranked, limit)
           rest == SubSeq(ranked, limit + 1, Len(ranked))
           F == ToSet(first)
           X == ToSet(rest)
           chosen == Selected(first, q, mode, config.k)
<1>1. limit \in Nat
  BY LimitIsNumber
<1> HIDE DEF limit
<1>2. /\ Enumerates(first, F) /\ Enumerates(rest, X) /\ R = F \cup X /\ F \cap X = {}
  BY <1>1, CutEnumerates
<1>3. Limited(ranked, limit, excluded, q, mode) = WithExcluded(chosen, excluded, rest)
  BY DEF Limited
<1> HIDE DEF first, rest, F, X
<1>4. F \in SUBSET R /\ X \in SUBSET R
  BY <1>2
<1>5. /\ OneEach(F) /\ EntriesOf(F) \subseteq EntriesOf(R) /\ EntriesOf(F) \cap EntriesOf(X) = {}
      /\ EntriesOf(R) = EntriesOf(F) \cup EntriesOf(X)
  BY <1>2, <1>4, ApartEntries
<1>6. OneEach(X)
  BY <1>4 DEF OneEach
<1>7. Ranks(F)
  BY <1>4 DEF Ranks
<1>8. GoodSelection(chosen, EntriesOf(F), mode)
  BY <1>2, <1>5, <1>7, SelectedIsGood
<1>9. DOMAIN chosen = {"entries", "records", "warnings", "pairs"}
  BY PartsOfSelected
<1> HIDE DEF chosen
<1>10. EntriesOf(F) \cap T = {} /\ (EntriesOf(F) \cup T) \cap EntriesOf(X) = {}
  BY <1>5
<1>11. GoodSelection(WithExcluded(chosen, excluded, rest), (EntriesOf(F) \cup T) \cup EntriesOf(X), mode)
  BY <1>2, <1>6, <1>8, <1>9, <1>10, WithExcludedIsGood
<1>12. (EntriesOf(F) \cup T) \cup EntriesOf(X) = EntriesOf(R) \cup T
  BY <1>5
<1>13. QED BY <1>3, <1>11, <1>12 DEF limit

LEMMA SelectRankedIsGood ==
    ASSUME RememberedInv, config \in Configs, NEW C, NEW considered, Enumerates(considered, C),
           OneEach(C), \A c \in C : Sound(c) /\ c.reason \in OutReasons \cup {None},
           NEW T, NEW held, LeftOut(held, T), EntriesOf(C) \cap T = {}, NEW q, NEW mode
    PROVE  GoodSelection(SelectRanked(considered, held, q, mode), EntriesOf(C) \cup T, mode)
<1> DEFINE K == {c \in C : c.reason = None}
           ranked == Ranked(Ranking(K))
           R == ToSet(ranked)
           out == EntriesOf(Out(C))
           excluded == held \o Excluded(considered)
<1>1. ToSet(considered) = C /\ IsFiniteSet(C)
  BY EnumeratesSet
<1>2. SelectRanked(considered, held, q, mode) = Limited(ranked, Limit(config), excluded, q, mode)
  BY <1>1 DEF SelectRanked
<1>3. K \in SUBSET C /\ Out(C) \in SUBSET C /\ K \cup Out(C) = C /\ K \cap Out(C) = {}
  BY DEF Out
<1>4. /\ OneEach(K) /\ EntriesOf(K) \cap out = {} /\ EntriesOf(C) = EntriesOf(K) \cup out
  BY <1>3, ApartEntries
<1> HIDE DEF K
<1>5. IsFiniteSet(K) /\ \A c \in K : Sound(c)
  BY <1>1, <1>3, FS_Subset
<1>6. Enumerates(Ranking(K), K)
  BY <1>4, <1>5, RankingEnumerates
<1>7. Enumerates(ranked, R) /\ OneEach(R) /\ EntriesOf(R) = EntriesOf(K) /\ Ranks(R)
  BY <1>4, <1>5, <1>6, RankedEnumerates
<1> HIDE DEF ranked, R
<1>8. LeftOut(Excluded(considered), out)
  <2>1. \A c \in C : c.reason \in OutReasons \cup {None}
    OBVIOUS
  <2>2. ASSUME NEW taken, NEW reached, taken \cap out = {}
        PROVE  Tells(Excluded(considered), out, taken, reached)
    BY <2>1, <2>2, ExcludedTells
  <2>3. QED BY <2>2 DEF LeftOut
<1>9. T \cap out = {}
  BY <1>4
<1> HIDE DEF out
<1>10. LeftOut(excluded, T \cup out)
  BY <1>8, <1>9, LeftOutBoth
<1> HIDE DEF excluded
<1>11. EntriesOf(R) \cap (T \cup out) = {} /\ EntriesOf(R) \cup (T \cup out) = EntriesOf(C) \cup T
  BY <1>4, <1>7
<1>12. GoodSelection(Limited(ranked, Limit(config), excluded, q, mode), EntriesOf(R) \cup (T \cup out), mode)
  BY <1>7, <1>10, <1>11, LimitedIsGood
<1>13. QED BY <1>2, <1>11, <1>12

(* The strategy, on the memories offered to it.                             *)
LEMMA RetrieveIsGood ==
    ASSUME ContextInv, NEW q \in Queries, NEW expanded, NEW embedded
    PROVE  GoodSelection(Retrieve(Admitted(q), HeldBack(q), q, Intent(q), expanded, embedded),
                         ToSet(Pool), Intent(q))
<1> DEFINE A == Admissible(q)
           mode == Intent(q)
           of(e) == Consider(e, q, mode, expanded, Matched(e, expanded), A, embedded)
           considered == [i \in DOMAIN Admitted(q) |-> of(Admitted(q)[i])]
           C == ToSet(considered)
           T == ToSet(Pool) \ A
<1>1. RememberedInv /\ config \in Configs
  BY DEF ContextInv
<1>2. /\ Enumerates(Admitted(q), A) /\ A \subseteq ToSet(Pool) /\ A \subseteq ToSet(memories)
  BY <1>1, AdmittedEnumerates
<1>3. ToSet(Admitted(q)) = A /\ DOMAIN Admitted(q) = 1 .. Len(Admitted(q))
      /\ \A i \in DOMAIN Admitted(q) : Admitted(q)[i] \in A
  BY <1>2, EnumeratesSet
<1>4. Retrieve(Admitted(q), HeldBack(q), q, mode, expanded, embedded)
          = SelectRanked(considered, HeldBack(q), q, mode)
  BY <1>3 DEF Retrieve
<1>5. ASSUME NEW e \in A
      PROVE  Sound(of(e)) /\ of(e).entry = e /\ of(e).reason \in OutReasons \cup {None}
  BY <1>2, ConsiderIsSound
<1> HIDE DEF of, A, mode
<1>6. /\ considered = [i \in DOMAIN Admitted(q) |-> considered[i]]
      /\ \A i \in DOMAIN Admitted(q) : considered[i] = of(Admitted(q)[i])
  OBVIOUS
<1>7. \A i \in DOMAIN Admitted(q) : considered[i].entry = Admitted(q)[i]
  BY <1>3, <1>5, <1>6
<1>8. DOMAIN considered = DOMAIN Admitted(q)
  OBVIOUS
<1> HIDE DEF considered
<1>9. Enumerates(considered, C) /\ OneEach(C) /\ EntriesOf(C) = A
  BY <1>2, <1>6, <1>7, CarriedEnumerates
<1>10. \A c \in C : Sound(c) /\ c.reason \in OutReasons \cup {None}
  <2>1. ASSUME NEW c \in C PROVE \E e \in A : c = of(e)
    <3>1. PICK i \in DOMAIN considered : c = considered[i]
      BY DEF ToSet
    <3>2. QED BY <1>3, <1>6, <1>8, <3>1
  <2>2. QED BY <1>5, <2>1
<1> HIDE DEF C
<1>11. LeftOut(HeldBack(q), T)
  BY <1>1, HeldBackTells DEF LeftOut, A
<1>12. EntriesOf(C) \cap T = {} /\ EntriesOf(C) \cup T = ToSet(Pool)
  BY <1>2, <1>9
<1> HIDE DEF T
<1>13. GoodSelection(SelectRanked(considered, HeldBack(q), q, mode), EntriesOf(C) \cup T, mode)
  BY <1>1, <1>9, <1>10, <1>11, <1>12, SelectRankedIsGood
<1>14. QED BY <1>4, <1>12, <1>13 DEF mode

(* The builder's own ranking, by keywords.                                  *)
LEMMA KeywordBuildIsGood ==
    ASSUME ContextInv, NEW q, config.strategy = "keyword", NEW mode
    PROVE  GoodSelection(ByKeyword(Descending(ToSet(Pool), [e \in ToSet(Pool) |-> KeywordKey(e, q)]),
                                   config.k), ToSet(Pool), mode)
<1> DEFINE E == ToSet(Pool)
           key == [e \in E |-> KeywordKey(e, q)]
<1>1. RememberedInv /\ config \in Configs
  BY DEF ContextInv
<1>2. E \subseteq ToSet(memories) /\ IsFiniteSet(E)
  BY <1>1, PoolEnumerates, EnumeratesSet
<1>3. ASSUME NEW e \in E PROVE KeywordKey(e, q) \in Seq(Int) /\ KeywordKey(e, q)[3] = e.created
  <2>1. WellFormed(e) /\ e.created \in Int
    BY <1>1, <1>2, MemoriesAreDistinct
  <2>2. Cardinality(e.words \cap q.words) \in Int /\ KindPriority[e.kind] \in Int
    BY <2>1, EntryParts, CommonIsNumber
  <2>3. QED BY <2>1, <2>2 DEF KeywordKey
<1>4. key \in [E -> Seq(Int)]
  BY <1>3
<1>5. ASSUME NEW e \in E, NEW f \in E, key[e] = key[f] PROVE e = f
  <2>1. e.created = f.created
    BY <1>3, <1>5
  <2>2. QED BY <1>1, <1>2, <2>1, MemoriesAreDistinct
<1> HIDE DEF key
<1>6. Enumerates(Descending(E, key), E)
  BY <1>2, <1>4, <1>5, DescendingEnumerates
<1>7. config.strategy # "hybrid"
  OBVIOUS
<1>8. QED BY <1>1, <1>2, <1>6, <1>7, KeywordIsGood DEF key

-----------------------------------------------------------------------------
(* A context that is there was built of the memories that are there, by a   *)
(* good selection.                                                          *)
BuiltInv ==
    \/ built = NotBuilt \/ built = Raised
    \/ \E chosen, scores, uses : \E q \in Queries :
          /\ GoodSelection(chosen, ToSet(Pool), Intent(q))
          /\ built = Built(q, chosen, Summarised(chosen.entries), scores, uses)

LEMMA BuiltStays ==
    ASSUME UNCHANGED <<config, memories>>, NEW q \in Queries, NEW chosen, NEW scores, NEW uses,
           GoodSelection(chosen, ToSet(Pool), Intent(q)),
           built' = Built(q, chosen, Summarised(chosen.entries), scores, uses)
    PROVE  BuiltInv'
<1>1. config' = config /\ memories' = memories
  OBVIOUS
<1>2. Pool' = Pool
  BY <1>1 DEF Pool, WithStatus
<1>3. Intent(q)' = Intent(q)
  BY <1>1 DEF Intent
<1>4. \A S, warnings, mode : Acknowledged(S, warnings, mode)' = Acknowledged(S, warnings, mode)
  BY <1>1 DEF Acknowledged
<1>5. \A E, mode : GoodSelection(chosen, E, mode)' = GoodSelection(chosen, E, mode)
  BY <1>1, <1>4 DEF GoodSelection
<1>6. GoodSelection(chosen, ToSet(Pool), Intent(q))'
  BY <1>2, <1>3, <1>5
<1>7. \A rendered : Lines(rendered)' = Lines(rendered)
  BY <1>1 DEF Lines, Section, Line
<1>8. Summarised(chosen.entries)' = Summarised(chosen.entries)
  BY <1>1 DEF Summarised
<1>9. \A summarised :
          Built(q, chosen, summarised, scores, uses)' = Built(q, chosen, summarised, scores, uses)
  BY <1>2, <1>7 DEF Built
<1>10. built' = Built(q, chosen, Summarised(chosen.entries), scores, uses)'
  BY <1>8, <1>9
<1>11. QED BY <1>6, <1>10 DEF BuiltInv

LEMMA BuiltStep ==
    ASSUME ContextInv, BuiltInv, [Next]_vars
    PROVE  BuiltInv'
<1>1. ASSUME NEW q \in Queries, UNCHANGED <<config, memories>>, Fallback(q)
      PROVE  BuiltInv'
  <2> DEFINE chosen == Retrieve(Admitted(q), HeldBack(q), q, Intent(q), Expanded(q.tokens), FALSE)
  <2>1. GoodSelection(chosen, ToSet(Pool), Intent(q))
    BY RetrieveIsGood
  <2>2. built' = Built(q, chosen, Summarised(chosen.entries), <<>>, <<>>)
    BY <1>1 DEF Fallback, Build
  <2> HIDE DEF chosen
  <2>3. QED BY <1>1, <2>1, <2>2, BuiltStays
<1>2. ASSUME built' = Raised \/ built' = NotBuilt PROVE BuiltInv'
  <2>1. built' = NotBuilt' \/ built' = Raised'
    BY <1>2 DEF NotBuilt, Raised
  <2>2. QED BY <2>1 DEF BuiltInv
<1>3. ASSUME NEW q \in Queries, UNCHANGED <<config, memories>>, FailOrFallBack(q)
      PROVE  BuiltInv'
  BY <1>1, <1>2, <1>3 DEF FailOrFallBack
<1>4. ASSUME NEW q \in Queries, BuildByKeyword(q) PROVE BuiltInv'
  <2> DEFINE chosen == ByKeyword(Descending(ToSet(Pool), [e \in ToSet(Pool) |-> KeywordKey(e, q)]),
                                 config.k)
  <2>1. GoodSelection(chosen, ToSet(Pool), Intent(q))
    BY <1>4, KeywordBuildIsGood DEF BuildByKeyword
  <2>2. /\ built' = Built(q, chosen, Summarised(chosen.entries), <<>>, <<>>)
        /\ UNCHANGED <<config, memories>>
    BY <1>4 DEF BuildByKeyword, Build
  <2> HIDE DEF chosen
  <2>3. QED BY <2>1, <2>2, BuiltStays
<1>5. ASSUME NEW q \in Queries, BuildLexically(q) PROVE BuiltInv'
  BY <1>1, <1>5 DEF BuildLexically
<1>6. ASSUME NEW q \in Queries, BuildUnavailable(q) PROVE BuiltInv'
  BY <1>3, <1>6 DEF BuildUnavailable
<1>7. ASSUME NEW q \in Queries, BuildHalfway(q) PROVE BuiltInv'
  BY <1>3, <1>7 DEF BuildHalfway
<1>8. ASSUME NEW q \in Queries, BuildSemantically(q) PROVE BuiltInv'
  <2> DEFINE chosen == Retrieve(Admitted(q), HeldBack(q), q, Intent(q), Expanded(q.tokens), TRUE)
             scores == [i \in DOMAIN Admitted(q) |->
                           [id |-> Admitted(q)[i].id, score |-> Semantic(Admitted(q)[i], q, cache)]]
  <2>1. GoodSelection(chosen, ToSet(Pool), Intent(q))
    BY RetrieveIsGood
  <2>2. /\ built' = Built(q, chosen, Summarised(chosen.entries), scores, Uses(Admitted(q)))
        /\ UNCHANGED <<config, memories>>
    BY <1>8 DEF BuildSemantically, Build
  <2> HIDE DEF chosen, scores
  <2>3. QED BY <2>1, <2>2, BuiltStays
<1>9. CASE Remember
  BY <1>2, <1>9 DEF Remember
<1>10. ASSUME NEW i \in DOMAIN memories, Supersede(i) \/ Forget(i) PROVE BuiltInv'
  BY <1>2, <1>10 DEF Supersede, Forget
<1>11. CASE UNCHANGED vars
  <2>1. built' = built /\ UNCHANGED <<config, memories>>
    BY <1>11 DEF vars
  <2>2. CASE built = NotBuilt \/ built = Raised
    BY <1>2, <2>1, <2>2
  <2>3. ASSUME NEW q \in Queries, NEW chosen, NEW scores, NEW uses,
               GoodSelection(chosen, ToSet(Pool), Intent(q)),
               built = Built(q, chosen, Summarised(chosen.entries), scores, uses)
        PROVE  BuiltInv'
    BY <2>1, <2>3, BuiltStays
  <2>4. QED BY <2>2, <2>3 DEF BuiltInv
<1>12. QED BY <1>4, <1>5, <1>6, <1>7, <1>8, <1>9, <1>10, <1>11 DEF Next

-----------------------------------------------------------------------------
(* An identifier is listed where its entry is.                              *)
LEMMA IdsOfMembers ==
    ASSUME RememberedInv, NEW S \in SUBSET ToSet(memories), NEW s, Enumerates(s, S)
    PROVE  /\ Len(Ids(s)) = Len(s) /\ DOMAIN Ids(s) = DOMAIN s
           /\ \A i \in DOMAIN s : Ids(s)[i] = s[i].id /\ s[i] \in S
           /\ \A id \in ToSet(Ids(s)) : \E e \in S : id = e.id
           /\ \A e \in ToSet(memories) : e.id \in ToSet(Ids(s)) <=> e \in S
<1>1. /\ s \in Seq(S) /\ DOMAIN s = 1 .. Len(s) /\ Len(s) \in Nat
      /\ \A i \in 1 .. Len(s) : s[i] \in S
      /\ \A x \in S : \E i \in 1 .. Len(s) : s[i] = x
  BY EnumeratesSet DEF Enumerates
<1>2. Len(Ids(s)) = Len(s) /\ DOMAIN Ids(s) = DOMAIN s /\ \A i \in DOMAIN s : Ids(s)[i] = s[i].id
  BY <1>1 DEF Ids
<1>3. \A id \in ToSet(Ids(s)) : \E e \in S : id = e.id
  BY <1>1, <1>2 DEF ToSet
<1>4. ASSUME NEW e \in ToSet(memories), e.id \in ToSet(Ids(s)) PROVE e \in S
  <2>1. PICK f \in S : e.id = f.id
    BY <1>3, <1>4
  <2>2. QED BY <2>1, MemoriesAreDistinct
<1>5. ASSUME NEW e \in S PROVE e.id \in ToSet(Ids(s))
  BY <1>1, <1>2 DEF ToSet
<1>6. QED BY <1>1, <1>2, <1>3, <1>4, <1>5

(* What is known of a context that is there.                                *)
OfSelection(q, chosen, S) ==
    /\ Enumerates(chosen.entries, S) /\ Len(chosen.entries) <= config.k
    /\ Tells(chosen.records, ToSet(Pool), S, Acknowledged(S, chosen.warnings, Intent(q)))
    /\ built.query = q.id /\ built.offered = Ids(Pool)
    /\ built.selected = Ids(chosen.entries) /\ built.records = chosen.records
    /\ built.warnings = chosen.warnings
    /\ built.summaries = {Ids(GroupOf(chosen.entries, d)) : d \in Summarised(chosen.entries)}
    /\ built.lines = Lines(Rendered(chosen.entries, Summarised(chosen.entries)))

LEMMA ContextOfSelection ==
    ASSUME BuiltInv, HasContext
    PROVE  \E chosen : \E q \in Queries, S \in SUBSET ToSet(Pool) : OfSelection(q, chosen, S)
<1>1. built # NotBuilt /\ built # Raised
  BY DEF HasContext, NotBuilt, Raised
<1>2. PICK chosen, scores, uses : \E q \in Queries :
          /\ GoodSelection(chosen, ToSet(Pool), Intent(q))
          /\ built = Built(q, chosen, Summarised(chosen.entries), scores, uses)
  BY <1>1 DEF BuiltInv
<1> PICK q \in Queries :
          /\ GoodSelection(chosen, ToSet(Pool), Intent(q))
          /\ built = Built(q, chosen, Summarised(chosen.entries), scores, uses)
  BY <1>2
<1>3. PICK S \in SUBSET ToSet(Pool) :
          /\ Enumerates(chosen.entries, S) /\ Len(chosen.entries) <= config.k
          /\ Tells(chosen.records, ToSet(Pool), S, Acknowledged(S, chosen.warnings, Intent(q)))
  BY DEF GoodSelection
<1>4. /\ built.query = q.id /\ built.offered = Ids(Pool)
      /\ built.selected = Ids(chosen.entries) /\ built.records = chosen.records
      /\ built.warnings = chosen.warnings
      /\ built.summaries = {Ids(GroupOf(chosen.entries, d)) : d \in Summarised(chosen.entries)}
      /\ built.lines = Lines(Rendered(chosen.entries, Summarised(chosen.entries)))
  BY DEF Built
<1>5. OfSelection(q, chosen, S)
  BY <1>3, <1>4 DEF OfSelection
<1>6. QED BY <1>5

(* Every memory offered has one record, which says whether it was taken.    *)
LEMMA GoodIsExplained ==
    ASSUME ContextInv, BuiltInv
    PROVE  EveryMemoryExplained
<1> SUFFICES ASSUME HasContext PROVE EveryMemoryExplained
  BY DEF EveryMemoryExplained
<1>1. RememberedInv
  BY DEF ContextInv
<1> PICK chosen : \E q \in Queries, S \in SUBSET ToSet(Pool) : OfSelection(q, chosen, S)
  BY ContextOfSelection
<1>2. PICK q \in Queries, S \in SUBSET ToSet(Pool) : OfSelection(q, chosen, S)
  OBVIOUS
<1>3. Enumerates(Pool, ToSet(Pool)) /\ ToSet(Pool) \subseteq ToSet(memories)
  BY <1>1, PoolEnumerates
<1>4. S \in SUBSET ToSet(memories)
  BY <1>3
<1>5. /\ Len(built.selected) <= config.k
      /\ \A e \in ToSet(memories) : e.id \in ToSet(built.selected) <=> e \in S
  <2>1. Enumerates(chosen.entries, S) /\ Len(chosen.entries) <= config.k
        /\ built.selected = Ids(chosen.entries)
    BY <1>2 DEF OfSelection
  <2>2. Len(Ids(chosen.entries)) = Len(chosen.entries)
    BY <1>1, <1>4, <2>1, IdsOfMembers
  <2>3. \A e \in ToSet(memories) : e.id \in ToSet(Ids(chosen.entries)) <=> e \in S
    BY <1>1, <1>4, <2>1, IdsOfMembers
  <2>4. QED BY <2>1, <2>2, <2>3
<1>6. /\ DOMAIN built.offered = DOMAIN Pool
      /\ \A i \in DOMAIN Pool : built.offered[i] = Pool[i].id /\ Pool[i] \in ToSet(Pool)
  <2>1. built.offered = Ids(Pool)
    BY <1>2 DEF OfSelection
  <2>2. /\ DOMAIN Ids(Pool) = DOMAIN Pool
        /\ \A i \in DOMAIN Pool : Ids(Pool)[i] = Pool[i].id /\ Pool[i] \in ToSet(Pool)
    BY <1>1, <1>3, IdsOfMembers
  <2>3. QED BY <2>1, <2>2
<1>7. PICK who : /\ Enumerates(who, ToSet(Pool)) /\ Names(built.records, who)
                 /\ \A i \in 1 .. Len(who) : built.records[i].reason = None <=> who[i] \in S
  <2>1. Tells(built.records, ToSet(Pool), S, Acknowledged(S, chosen.warnings, Intent(q)))
    BY <1>2 DEF OfSelection
  <2>2. QED BY <2>1 DEF Tells
<1>8. ASSUME NEW i \in DOMAIN built.offered
      PROVE  LET mine == {r \in DOMAIN built.records : built.records[r].id = built.offered[i]}
             IN  /\ Cardinality(mine) = 1
                 /\ \A r \in mine : built.records[r].reason = None
                                     <=> built.offered[i] \in ToSet(built.selected)
  <2>1. PICK e \in ToSet(Pool) : built.offered[i] = e.id
    BY <1>6, <1>8
  <2>2. e \in ToSet(memories)
    BY <1>3, <2>1
  <2> DEFINE mine == Places(built.records, e.id)
  <2>3. PICK j \in 1 .. Len(who) : who[j] = e /\ mine = {j}
    <3>1. Enumerates(who, ToSet(Pool)) /\ Names(built.records, who)
      BY <1>7
    <3>2. NamedAt(built.records, who, e)
      BY <1>1, <1>3, <2>1, <2>2, <3>1, NamedOnce
    <3>3. QED BY <3>2 DEF NamedAt
  <2>4. Cardinality({j}) = 1
    BY FS_Singleton
  <2>5. built.records[j].reason = None <=> e.id \in ToSet(built.selected)
    BY <1>5, <1>7, <2>2, <2>3
  <2>6. mine = {r \in DOMAIN built.records : built.records[r].id = built.offered[i]}
    BY <2>1 DEF Places
  <2> HIDE DEF mine
  <2>7. QED BY <2>1, <2>3, <2>4, <2>5, <2>6
<1>9. QED BY <1>5, <1>8 DEF EveryMemoryExplained

(* A contradiction with what was selected is acknowledged.                  *)
LEMMA GoodIsAcknowledged ==
    ASSUME ContextInv, BuiltInv
    PROVE  ConflictNeverConcealed
<1> SUFFICES ASSUME HasContext, config.strategy = "hybrid", config.coverage,
                    Intent(QueryOf(built.query)) = "current",
                    NEW r \in ToSet(built.records), NEW id \in ToSet(built.selected),
                    Reached(r), Contradicts(EntryOf(r.id), EntryOf(id))
             PROVE  built.warnings > 0
  BY DEF ConflictNeverConcealed
<1>1. RememberedInv /\ \A e \in ToSet(memories) : EntryOf(e.id) = e
  BY AdmittedAreMemories DEF ContextInv
<1> PICK chosen : \E q \in Queries, S \in SUBSET ToSet(Pool) : OfSelection(q, chosen, S)
  BY ContextOfSelection
<1>2. PICK q \in Queries, S \in SUBSET ToSet(Pool) : OfSelection(q, chosen, S)
  OBVIOUS
<1>3. ToSet(Pool) \subseteq ToSet(memories)
  BY <1>1, PoolEnumerates
<1>4. Intent(q) = "current"
  <2>1. QueryOf(q.id) = q
    BY ContextAssumption DEF QueryOf
  <2>2. QED BY <1>2, <2>1 DEF OfSelection
<1>5. PICK d \in S : id = d.id
  <2>1. Enumerates(chosen.entries, S) /\ built.selected = Ids(chosen.entries)
    BY <1>2 DEF OfSelection
  <2>2. S \in SUBSET ToSet(memories)
    BY <1>3
  <2>3. \A x \in ToSet(Ids(chosen.entries)) : \E e \in S : x = e.id
    BY <1>1, <2>1, <2>2, IdsOfMembers
  <2>4. QED BY <2>1, <2>3
<1>6. PICK who : /\ Enumerates(who, ToSet(Pool)) /\ Names(built.records, who)
                 /\ \A i \in 1 .. Len(who) :
                       Reached(built.records[i])
                           => who[i] \in Acknowledged(S, built.warnings, Intent(q))
  <2>1. Tells(built.records, ToSet(Pool), S, Acknowledged(S, built.warnings, Intent(q)))
    BY <1>2 DEF OfSelection
  <2>2. QED BY <2>1 DEF Tells
<1>7. PICK i \in 1 .. Len(who) : r = built.records[i] /\ r.id = who[i].id
  <2>1. PICK i \in DOMAIN built.records : r = built.records[i]
    BY DEF ToSet
  <2>2. DOMAIN built.records = 1 .. Len(who)
    BY <1>6 DEF Names
  <2>3. QED BY <1>6, <2>1, <2>2 DEF Names
<1>8. who[i] \in ToSet(memories) /\ who[i] \in Acknowledged(S, built.warnings, Intent(q))
  <2>1. who[i] \in ToSet(Pool)
    BY <1>6, EnumeratesSet
  <2>2. QED BY <1>3, <1>6, <1>7, <2>1
<1>9. EntryOf(r.id) = who[i] /\ EntryOf(id) = d
  BY <1>1, <1>3, <1>5, <1>7, <1>8
<1>10. Contradicts(who[i], d)
  BY <1>9
<1>11. QED BY <1>4, <1>5, <1>8, <1>10 DEF Acknowledged

(* The lines of a context name what is rendered, by kind.                   *)
LEMMA SectionEnumerates ==
    ASSUME NEW R, NEW rendered, Enumerates(rendered, R), NEW kind
    PROVE  \E who : /\ Enumerates(who, {e \in R : e.kind = kind})
                    /\ Names(Section(rendered, kind), who)
<1> DEFINE K == {e \in R : e.kind = kind}
           who == Those(rendered, K)
           list == [i \in DOMAIN who |-> Line(who[i])]
<1>1. ToSet(rendered) = R /\ R \cap K = K
  BY EnumeratesSet
<1>2. Enumerates(who, K)
  BY <1>1, ThoseEnumerates
<1>3. Section(rendered, kind) = list
  BY <1>1 DEF Section
<1> HIDE DEF K, who
<1>4. list = [i \in DOMAIN who |-> list[i]] /\ \A i \in DOMAIN who : list[i].id = who[i].id
  BY DEF Line
<1> HIDE DEF list
<1>5. Names(list, who)
  BY <1>2, <1>4, MadeOneByOne
<1>6. QED BY <1>2, <1>3, <1>5 DEF K

LEMMA LinesEnumerate ==
    ASSUME RememberedInv, NEW R \in SUBSET ToSet(memories), NEW rendered, Enumerates(rendered, R)
    PROVE  \E who : Enumerates(who, R) /\ Names(Lines(rendered), who)
<1> DEFINE K(kind) == {e \in R : e.kind = kind}
<1>1. PICK v : Enumerates(v, K("preference")) /\ Names(Section(rendered, "preference"), v)
  BY SectionEnumerates
<1>2. PICK w : Enumerates(w, K("fact")) /\ Names(Section(rendered, "fact"), w)
  BY SectionEnumerates
<1>3. PICK u : Enumerates(u, K("instruction")) /\ Names(Section(rendered, "instruction"), u)
  BY SectionEnumerates
<1>4. K("preference") \cap K("fact") = {} /\ (K("preference") \cup K("fact")) \cap K("instruction") = {}
  OBVIOUS
<1>5. (K("preference") \cup K("fact")) \cup K("instruction") = R
  <2>1. \A e \in R : e.kind \in {"instruction", "fact", "preference"}
    BY MemoriesAreDistinct, EntryParts
  <2>2. QED BY <2>1
<1> HIDE DEF K
<1>6. /\ Enumerates(v \o w, K("preference") \cup K("fact"))
      /\ Names(Section(rendered, "preference") \o Section(rendered, "fact"), v \o w)
  BY <1>1, <1>2, <1>4, NamesOfBoth
<1>7. /\ Enumerates((v \o w) \o u, (K("preference") \cup K("fact")) \cup K("instruction"))
      /\ Names((Section(rendered, "preference") \o Section(rendered, "fact"))
                  \o Section(rendered, "instruction"), (v \o w) \o u)
  BY <1>3, <1>4, <1>6, NamesOfBoth
<1>8. QED BY <1>5, <1>7 DEF Lines

(* The domain that the compressor puts a memory in.                         *)
DomainOf(e) == IF e.travel THEN "travel" ELSE e.kind

LEMMA GroupEnumerates ==
    ASSUME RememberedInv, NEW S \in SUBSET ToSet(memories), NEW entries, Enumerates(entries, S),
           NEW d \in Domains
    PROVE  Enumerates(GroupOf(entries, d), {e \in S : DomainOf(e) = d})
<1> DEFINE In(e) == IF d = "travel" THEN e.travel ELSE ~ e.travel /\ e.kind = d
           G == {e \in S : In(e)}
<1>1. ToSet(entries) = S
  BY EnumeratesSet
<1>2. ASSUME NEW e \in S PROVE In(e) <=> DomainOf(e) = d
  <2>1. e.travel \in BOOLEAN /\ e.kind \in {"instruction", "fact", "preference"}
    BY MemoriesAreDistinct, EntryParts DEF WellFormed
  <2>2. QED BY <2>1 DEF DomainOf, Domains
<1>3. G = {e \in S : DomainOf(e) = d} /\ S \cap G = G
  BY <1>2
<1>4. GroupOf(entries, d) = Those(entries, G)
  BY <1>1 DEF GroupOf
<1> HIDE DEF G
<1>5. Enumerates(Those(entries, G), S \cap G)
  BY ThoseEnumerates
<1>6. QED BY <1>3, <1>4, <1>5

LEMMA RenderedEnumerates ==
    ASSUME RememberedInv, NEW S \in SUBSET ToSet(memories), NEW entries, Enumerates(entries, S),
           NEW summarised \in SUBSET Domains
    PROVE  Enumerates(Rendered(entries, summarised), {e \in S : DomainOf(e) \notin summarised})
<1> DEFINE R == {e \in S : \A d \in summarised : e \notin ToSet(GroupOf(entries, d))}
<1>1. ToSet(entries) = S
  BY EnumeratesSet
<1>2. ASSUME NEW d \in summarised
      PROVE  ToSet(GroupOf(entries, d)) = {e \in S : DomainOf(e) = d}
  <2>1. Enumerates(GroupOf(entries, d), {e \in S : DomainOf(e) = d})
    BY GroupEnumerates
  <2>2. QED BY <2>1, EnumeratesSet
<1>3. R = {e \in S : DomainOf(e) \notin summarised} /\ S \cap R = R
  BY <1>2
<1>4. Rendered(entries, summarised) = Those(entries, R)
  BY <1>1 DEF Rendered
<1> HIDE DEF R
<1>5. Enumerates(Those(entries, R), S \cap R)
  BY ThoseEnumerates
<1>6. QED BY <1>3, <1>4, <1>5

(* Every memory selected has a line or is in one summary.                   *)
LEMMA GoodIsSaid ==
    ASSUME ContextInv, BuiltInv
    PROVE  SelectedIsSaidOnce
<1> SUFFICES ASSUME HasContext, NEW id \in ToSet(built.selected)
             PROVE  Cardinality({i \in DOMAIN built.lines : built.lines[i].id = id})
                        + Cardinality({s \in built.summaries : id \in ToSet(s)}) = 1
  BY DEF SelectedIsSaidOnce
<1>1. RememberedInv
  BY DEF ContextInv
<1> PICK chosen : \E q \in Queries, S \in SUBSET ToSet(Pool) : OfSelection(q, chosen, S)
  BY ContextOfSelection
<1> DEFINE entries == chosen.entries
<1>2. PICK S \in SUBSET ToSet(Pool) :
          /\ Enumerates(entries, S) /\ built.selected = Ids(entries)
          /\ built.summaries = {Ids(GroupOf(entries, d)) : d \in Summarised(entries)}
          /\ built.lines = Lines(Rendered(entries, Summarised(entries)))
  BY DEF OfSelection
<1> HIDE DEF entries
<1> DEFINE summarised == Summarised(entries)
           R == {e \in S : DomainOf(e) \notin summarised}
           In(d) == {e \in S : DomainOf(e) = d}
           lines(e) == Places(built.lines, e.id)
           summaries(e) == {s \in built.summaries : e.id \in ToSet(s)}
<1>3. S \in SUBSET ToSet(memories)
  BY <1>1, PoolEnumerates
<1>4. PICK e \in S : id = e.id
  <2>1. \A x \in ToSet(Ids(entries)) : \E e \in S : x = e.id
    BY <1>1, <1>2, <1>3, IdsOfMembers
  <2>2. QED BY <1>2, <2>1
<1>5. summarised \in SUBSET Domains
  BY DEF Summarised, Groups
<1>6. built.summaries = {Ids(GroupOf(entries, d)) : d \in summarised}
  BY <1>2
<1>7. \A d \in summarised : e.id \in ToSet(Ids(GroupOf(entries, d))) <=> DomainOf(e) = d
  <2> TAKE d \in summarised
  <2>1. Enumerates(GroupOf(entries, d), In(d))
    BY <1>1, <1>2, <1>3, <1>5, GroupEnumerates
  <2>2. In(d) \in SUBSET ToSet(memories) /\ e \in ToSet(memories)
    BY <1>3, <1>4
  <2>3. e.id \in ToSet(Ids(GroupOf(entries, d))) <=> e \in In(d)
    BY <1>1, <2>1, <2>2, IdsOfMembers
  <2>4. QED BY <1>4, <2>3
<1>8. PICK who : Enumerates(who, R) /\ Names(built.lines, who)
  <2>1. Enumerates(Rendered(entries, summarised), R)
    BY <1>1, <1>2, <1>3, <1>5, RenderedEnumerates
  <2>2. R \in SUBSET ToSet(memories)
    BY <1>3
  <2>3. built.lines = Lines(Rendered(entries, summarised))
    BY <1>2
  <2> HIDE DEF R, summarised
  <2>4. QED BY <1>1, <2>1, <2>2, <2>3, LinesEnumerate
<1>9. R \in SUBSET ToSet(memories) /\ e \in ToSet(memories)
      /\ (e \in R <=> DomainOf(e) \notin summarised)
  BY <1>3, <1>4
<1> HIDE DEF R, summarised
<1>10. CASE DomainOf(e) \in summarised
  <2>1. lines(e) = {}
    BY <1>1, <1>8, <1>9, <1>10, NamedOnce
  <2>2. summaries(e) = {Ids(GroupOf(entries, DomainOf(e)))}
    BY <1>6, <1>7, <1>10
  <2>3. Cardinality(lines(e)) = 0 /\ Cardinality(summaries(e)) = 1
    BY <2>1, <2>2, FS_EmptySet, FS_Singleton
  <2>4. QED BY <1>4, <2>3 DEF Places
<1>11. CASE DomainOf(e) \notin summarised
  <2>1. PICK j \in 1 .. Len(who) : lines(e) = {j}
    <3>1. e \in R
      BY <1>9, <1>11
    <3>2. NamedAt(built.lines, who, e)
      BY <1>1, <1>8, <1>9, <3>1, NamedOnce
    <3>3. QED BY <3>2 DEF NamedAt
  <2>2. summaries(e) = {}
    BY <1>6, <1>7, <1>11
  <2>3. Cardinality(lines(e)) = 1 /\ Cardinality(summaries(e)) = 0
    BY <2>1, <2>2, FS_EmptySet, FS_Singleton
  <2>4. QED BY <1>4, <2>3 DEF Places
<1>12. QED BY <1>10, <1>11

(* A context that is there was built of the memories that are there, by a   *)
(* selection that explains itself.                                          *)
THEOREM ContextIsOfSelection == Spec => []BuiltInv
<1>1. Init => BuiltInv
  BY DEF Init, BuiltInv
<1>2. ContextInv /\ BuiltInv /\ [Next]_vars => BuiltInv'
  BY BuiltStep
<1>3. QED BY <1>1, <1>2, ContextInvariantHolds, PTL DEF Spec

(* Every memory offered to a strategy has one record, which gives no reason *)
(* exactly when the memory is in the context, and no more than k are: the   *)
(* records that build_context, retrieve and select put together.            *)
THEOREM MemoriesAreExplained == Spec => []EveryMemoryExplained
<1>1. ContextInv /\ BuiltInv => EveryMemoryExplained
  BY GoodIsExplained
<1>2. QED BY <1>1, ContextInvariantHolds, ContextIsOfSelection, PTL

(* What is selected is said once, by a line of its own or by one summary:   *)
(* the groups of ExperienceCompressor.compress do not overlap, and          *)
(* build_context leaves out the members of the summaries it keeps and no    *)
(* others.                                                                  *)
THEOREM SelectedAreSaid == Spec => []SelectedIsSaidOnce
<1>1. ContextInv /\ BuiltInv => SelectedIsSaidOnce
  BY GoodIsSaid
<1>2. QED BY <1>1, ContextInvariantHolds, ContextIsOfSelection, PTL

(* Under coverage selection a ranked memory that contradicts a selected one *)
(* comes with a warning, whichever was taken first and whatever kept the    *)
(* other out: the penalty of _utility or the scan after the loop.           *)
THEOREM ConflictsAreWarnedOf == Spec => []ConflictNeverConcealed
<1>1. ContextInv /\ BuiltInv => ConflictNeverConcealed
  BY GoodIsAcknowledged
<1>2. QED BY <1>1, ContextInvariantHolds, ContextIsOfSelection, PTL
=============================================================================
