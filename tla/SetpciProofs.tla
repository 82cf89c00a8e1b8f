---------------------------- MODULE SetpciProofs ----------------------------
(***************************************************************************)
(* Proofs about the strings libpci and setpci parse, and about what setpci *)
(* does with them: what holds of the parsers and of exec_op for any        *)
(* string, register and width.  LibpciCallsProofs takes its theorems from  *)
(* here.  They rest on induction over natural numbers and on recursive     *)
(* functions, in a form the first-order provers can apply: about sets      *)
(* instead of about predicates.                                            *)
(***************************************************************************)
EXTENDS Setpci, FiniteSetTheorems, SequenceTheorems, WellFoundedInduction, TLAPS

\* A set of natural numbers has a least one.
LEMMA LeastElement ==
  ASSUME NEW T, T \subseteq Nat, T # {}
  PROVE  \E x \in T : \A y \in T : x <= y
<1> DEFINE R == {ss \in Nat \X Nat : ss[1] < ss[2]}
<1>1. PICK x \in T : \A y \in T : <<y, x>> \notin R
  <2>1. IsWellFoundedOn(R, Nat)
    BY NatLessThanWellFounded DEF OpToRel
  <2> HIDE DEF R
  <2>2. QED
    BY <2>1, WFMin
<1>2. \A y \in T : ~(y < x)
  BY <1>1
<1>3. QED
  BY <1>2

\* A set that holds 0 and with every number the next one holds them all: a
\* number left out would have a least one left out, of which the one before is
\* in the set.
LEMMA NatInduct ==
  ASSUME NEW S, 0 \in S, \A n \in Nat : n \in S => n + 1 \in S
  PROVE  Nat \subseteq S
<1> DEFINE T == Nat \ S
<1>1. SUFFICES ASSUME T # {} PROVE FALSE
  OBVIOUS
<1>2. PICK x \in T : \A y \in T : x <= y
  <2>1. T \subseteq Nat
    OBVIOUS
  <2> HIDE DEF T
  <2>2. QED
    BY <1>1, <2>1, LeastElement
<1>3. x - 1 \in T
  OBVIOUS
<1>4. QED
  BY <1>2, <1>3

\* The same up to a bound.
LEMMA UpToInduct ==
  ASSUME NEW n \in Nat, NEW S, 0 \in S,
         \A i \in 1 .. n : i - 1 \in S => i \in S
  PROVE  0 .. n \subseteq S
<1> DEFINE T == {m \in Nat : m <= n => m \in S}
<1>1. 0 \in T
  OBVIOUS
<1>2. ASSUME NEW m \in Nat, m \in T
      PROVE  m + 1 \in T
  BY <1>2
<1>3. Nat \subseteq T
  <2> HIDE DEF T
  <2>1. QED
    BY <1>1, <1>2, NatInduct
<1>4. QED
  BY <1>3

\* f is defined by recursion: its first value is start, and G[i] takes each value
\* to the next.
Recursively(f, n, start, G) == f[0] = start /\ \A i \in 1 .. n : f[i] = G[i][f[i - 1]]

\* A function of i and of the value before it, applied over and over, makes a
\* function: what is defined by recursion exists.
LEMMA RecursionExists ==
  ASSUME NEW n \in Nat, NEW V, NEW start \in V, NEW G \in [1 .. n -> [V -> V]]
  PROVE  \E f \in [0 .. n -> V] : Recursively(f, n, start, G)
<1> DEFINE Upto(m) == {f \in [0 .. m -> V] : Recursively(f, m, start, G)}
           S == {m \in 0 .. n : Upto(m) # {}}
<1> USE DEF Recursively
<1>1. 0 \in S
  <2>1. [i \in 0 .. 0 |-> start] \in Upto(0)
    OBVIOUS
  <2>2. QED
    BY <2>1
<1>2. ASSUME NEW i \in 1 .. n, i - 1 \in S
      PROVE  i \in S
  <2>1. PICK f : f \in Upto(i - 1)
    BY <1>2
  <2> DEFINE last == G[i][f[i - 1]]
             g == [j \in 0 .. i |-> IF j < i THEN f[j] ELSE last]
  <2>2. f \in [0 .. i - 1 -> V] /\ f[i - 1] \in V /\ i - 1 \in 0 .. i - 1
    BY <2>1
  <2>3. last \in V
    BY <2>2
  <2>4. g \in [0 .. i -> V]
    <3> HIDE DEF last
    <3>1. QED
      BY <2>2, <2>3
  <2>5. ASSUME NEW j \in 1 .. i
        PROVE  g[j] = G[j][g[j - 1]]
    <3>1. CASE j = i
      <4>1. g[i] = last /\ g[i - 1] = f[i - 1]
        OBVIOUS
      <4>2. QED
        BY <3>1, <4>1
    <3>2. CASE j < i
      <4>1. j \in 1 .. i - 1 /\ g[j] = f[j] /\ g[j - 1] = f[j - 1]
        BY <3>2
      <4>2. QED
        BY <4>1, <2>1
    <3>3. QED
      BY <3>1, <3>2
  <2>6. g[0] = start
    BY <2>1
  <2>7. g \in Upto(i)
    <3> HIDE DEF g
    <3>1. QED
      BY <2>4, <2>5, <2>6
  <2>8. i \in 0 .. n /\ Upto(i) # {}
    <3> HIDE DEF Upto, g
    <3>1. QED
      BY <2>7
  <2>9. QED
    BY <2>8
<1>3. n \in S
  <2> HIDE DEF S
  <2>1. 0 .. n \subseteq S
    BY <1>1, <1>2, UpToInduct
  <2>2. QED
    BY <2>1
<1>4. QED
  BY <1>3

\* Concatenation does not leave P.
Concats(P) == <<>> \in P /\ \A a, b \in P : a \o b \in P

\* FlattenSeq stays within a set of sequences that concatenation does not leave.
LEMMA FlattenStays ==
  ASSUME NEW P, Concats(P), NEW s \in Seq(P)
  PROVE  FlattenSeq(s) \in P
<1> DEFINE n == Len(s)
           Def(f) == f = [i \in 1 .. Len(s) |-> IF i = 1 THEN s[i] ELSE f[i - 1] \o s[i]]
           fl == CHOOSE f : Def(f)
<1>1. n \in Nat /\ s \in [1 .. n -> P]
  OBVIOUS
<1>2. CASE n = 0
  BY <1>2 DEF FlattenSeq, Concats
<1>3. CASE n # 0
  <2> DEFINE G == [i \in 1 .. n |-> [x \in P |-> IF i = 1 THEN s[i] ELSE x \o s[i]]]
  <2>1. G \in [1 .. n -> [P -> P]]
    BY <1>1 DEF Concats
  <2>2. PICK h \in [0 .. n -> P] : \A i \in 1 .. n : h[i] = G[i][h[i - 1]]
    <3> DEFINE e == <<>>
    <3>1. e \in P /\ n \in Nat
      BY <1>1 DEF Concats
    <3> HIDE DEF G, n, e
    <3>2. \E h \in [0 .. n -> P] : Recursively(h, n, e, G)
      BY <3>1, <2>1, RecursionExists
    <3>3. QED
      BY <3>2 DEF Recursively
  <2> DEFINE f == [i \in 1 .. n |-> h[i]]
  <2>3. Def(f)
    <3>1. ASSUME NEW i \in 1 .. n
          PROVE  f[i] = IF i = 1 THEN s[i] ELSE f[i - 1] \o s[i]
      <4>1. h[i] = G[i][h[i - 1]] /\ h[i - 1] \in P
        <5>1. i \in 1 .. n /\ i - 1 \in 0 .. n
          BY <1>1
        <5> HIDE DEF G, n
        <5>2. QED
          BY <5>1, <2>2
      <4>2. h[i] = IF i = 1 THEN s[i] ELSE h[i - 1] \o s[i]
        BY <4>1, <1>1
      <4>3. QED
        BY <4>2, <1>1
    <3>2. QED
      BY <3>1, <1>1
  <2>4. Def(fl)
    <3> HIDE DEF f, Def
    <3>1. QED
      BY <2>3
  <2> HIDE DEF fl
  <2> DEFINE S == {i \in 0 .. n : i > 0 => fl[i] \in P}
  <2>5. 0 \in S
    BY <1>1
  <2>6. ASSUME NEW i \in 1 .. n, i - 1 \in S
        PROVE  i \in S
    <3>1. fl[i] = IF i = 1 THEN s[i] ELSE fl[i - 1] \o s[i]
      BY <2>4, <1>1
    <3>2. s[i] \in P
      BY <1>1
    <3>3. i > 1 => fl[i - 1] \in P
      BY <2>6
    <3>4. fl[i] \in P
      BY <3>1, <3>2, <3>3 DEF Concats
    <3>5. QED
      BY <3>4
  <2>7. n \in S
    <3> HIDE DEF S, n
    <3>1. 0 .. n \subseteq S
      BY <1>1, <2>5, <2>6, UpToInduct
    <3>2. QED
      BY <3>1, <1>1
  <2>8. FlattenSeq(s) = fl[n]
    BY <1>3 DEF FlattenSeq, fl
  <2>9. QED
    BY <2>7, <2>8, <1>1, <1>3
<1>4. QED
  BY <1>1, <1>2, <1>3

(***************************************************************************)
(* Folds over sequences.  FoldLeft recurs over sets of positions, of which *)
(* it takes the last.                                                      *)
(***************************************************************************)

\* A set of positions has a last one.
LEMMA LastOfSet ==
  ASSUME NEW n \in Nat, NEW s \in SUBSET (1 .. n), s # {}
  PROVE  Max(s) \in s /\ \A y \in s : y <= Max(s)
<1> DEFINE T == {n - y : y \in s}
<1>1. PICK z \in T : \A y \in T : z <= y
  <2>1. \A y \in s : y \in 1 .. n /\ n - y \in Nat
    OBVIOUS
  <2>2. T \subseteq Nat
    BY <2>1
  <2>3. T # {}
    <3>1. PICK y \in s : TRUE
      OBVIOUS
    <3>2. n - y \in T
      OBVIOUS
    <3>3. QED
      BY <3>2
  <2> HIDE DEF T
  <2>4. QED
    BY <2>2, <2>3, LeastElement
<1>2. PICK x \in s : z = n - x
  BY <1>1
<1>3. \A y \in s : n - x <= n - y
  BY <1>1, <1>2
<1>4. \A y \in s : x >= y
  BY <1>3
<1>5. \E w \in s : \A y \in s : w >= y
  BY <1>4
<1>6. Max(s) \in s /\ \A y \in s : Max(s) >= y
  BY <1>5, Zenon DEF Max
<1>7. QED
  BY <1>6

\* The value for a set, by that for the set without its last position.
FoldStep(it, base, G, s) == IF s = {} THEN base ELSE G[Max(s)][it[s \ {Max(s)}]]

\* The function FoldLeft defines.
IsFold(it, n, base, G) == it = [s \in SUBSET (1 .. n) |-> FoldStep(it, base, G, s)]

\* What position i does to the values for all sets.
Passing(R, n, G) ==
  \A i \in 1 .. n : \A s \in SUBSET (1 .. n) :
    R[i][s] = IF i \in s THEN G[i][R[i - 1][s]] ELSE R[i - 1][s]

\* Every set begins with base.
Begun(R, n, base) == \A s \in SUBSET (1 .. n) : R[0][s] = base

\* The value of s at i is that of t at j.
Equals(R, i, s, j, t) == R[i][s] = R[j][t]

\* Two sets are the same up to a position, a set has none after it.
AlikeUpTo(s, t, m) == \A j \in 1 .. m : j \in s <=> j \in t
EndsBy(s, m) == \A j \in s : j <= m

\* There are such values.
LEMMA PassingExists ==
  ASSUME NEW n \in Nat, NEW V, NEW base \in V, NEW G \in [1 .. n -> [V -> V]]
  PROVE  \E R \in [0 .. n -> [SUBSET (1 .. n) -> V]] :
           Passing(R, n, G) /\ Begun(R, n, base)
<1> DEFINE D == SUBSET (1 .. n)
           W == [D -> V]
           turn(i, r) == [s \in D |-> IF i \in s THEN G[i][r[s]] ELSE r[s]]
           H == [i \in 1 .. n |-> [r \in W |-> turn(i, r)]]
           start == [s \in D |-> base]
<1>1. start \in W
  OBVIOUS
<1>2. H \in [1 .. n -> [W -> W]]
  <2>1. ASSUME NEW i \in 1 .. n, NEW r \in W PROVE turn(i, r) \in W
    <3> HIDE DEF D
    <3>1. \A s \in D : r[s] \in V /\ G[i][r[s]] \in V
      OBVIOUS
    <3>2. QED
      BY <3>1
  <2> HIDE DEF turn, W
  <2>2. QED
    BY <2>1
<1>3. PICK R \in [0 .. n -> W] : Recursively(R, n, start, H)
  <2> HIDE DEF H, W, start
  <2>1. QED
    BY <1>1, <1>2, RecursionExists
<1>4. R[0] = start /\ \A i \in 1 .. n : R[i] = H[i][R[i - 1]]
  BY <1>3, Zenon DEF Recursively
<1>5. ASSUME NEW i \in 1 .. n, NEW s \in D
      PROVE  R[i][s] = IF i \in s THEN G[i][R[i - 1][s]] ELSE R[i - 1][s]
  <2>1. R[i - 1] \in W
    <3> HIDE DEF W
    <3>1. QED
      BY <1>3
  <2>2. PICK r \in W : r = R[i - 1]
    BY <2>1
  <2>3. R[i] = turn(i, r)
    <3>1. H[i][r] = turn(i, r)
      <4> HIDE DEF turn, W
      <4>1. QED
        OBVIOUS
    <3> HIDE DEF turn, H, W
    <3>2. QED
      BY <1>4, <2>2, <3>1
  <2> HIDE DEF D
  <2>4. QED
    BY <2>2, <2>3
<1>6. \A s \in D : R[0][s] = base
  BY <1>4
<1>7. QED
  BY <1>3, <1>5, <1>6 DEF Passing, Begun

\* What a set says up to a position decides the value there.
LEMMA PassingSame ==
  ASSUME NEW n \in Nat, NEW base, NEW G, NEW R, Passing(R, n, G), Begun(R, n, base),
         NEW s \in SUBSET (1 .. n), NEW t \in SUBSET (1 .. n), NEW m \in 0 .. n,
         AlikeUpTo(s, t, m)
  PROVE  Equals(R, m, s, m, t)
<1> DEFINE S == {i \in 0 .. m : R[i][s] = R[i][t]}
<1>1. 0 \in S
  BY DEF Begun
<1>2. ASSUME NEW i \in 1 .. m, i - 1 \in S PROVE i \in S
  <2>1. R[i - 1][s] = R[i - 1][t]
    BY <1>2
  <2>2. i \in 1 .. n
    OBVIOUS
  <2>3. R[i][s] = (IF i \in s THEN G[i][R[i - 1][s]] ELSE R[i - 1][s])
    BY <2>2 DEF Passing
  <2>4. R[i][t] = (IF i \in t THEN G[i][R[i - 1][t]] ELSE R[i - 1][t])
    BY <2>2 DEF Passing
  <2>5. R[i][s] = R[i][t]
    <3>1. i \in s <=> i \in t
      BY DEF AlikeUpTo
    <3>2. QED
      BY <2>1, <2>3, <2>4, <3>1, Zenon
  <2>6. QED
    BY <2>5
<1>3. m \in S
  <2>1. m \in Nat
    OBVIOUS
  <2> HIDE DEF S
  <2>2. 0 .. m \subseteq S
    BY <1>1, <1>2, <2>1, UpToInduct
  <2>3. QED
    BY <2>1, <2>2
<1>4. QED
  BY <1>3 DEF Equals

\* Positions that are not in the set change nothing.
LEMMA PassingOver ==
  ASSUME NEW n \in Nat, NEW G, NEW R, Passing(R, n, G),
         NEW s \in SUBSET (1 .. n), NEW m \in 0 .. n, EndsBy(s, m)
  PROVE  Equals(R, n, s, m, s)
<1> DEFINE S == {i \in 0 .. n : i >= m => R[i][s] = R[m][s]}
<1>1. 0 \in S
  OBVIOUS
<1>2. ASSUME NEW i \in 1 .. n, i - 1 \in S PROVE i \in S
  <2>1. CASE i > m
    <3>1. R[i - 1][s] = R[m][s]
      BY <1>2, <2>1
    <3>2. i \notin s
      BY <2>1 DEF EndsBy
    <3>3. R[i][s] = R[i - 1][s]
      BY <3>2 DEF Passing
    <3>4. QED
      BY <3>1, <3>3
  <2>2. CASE i <= m
    BY <2>2
  <2>3. QED
    BY <2>1, <2>2
<1>3. n \in S
  <2> HIDE DEF S
  <2>1. 0 .. n \subseteq S
    BY <1>1, <1>2, UpToInduct
  <2>2. QED
    BY <2>1
<1>4. QED
  BY <1>3 DEF Equals

\* So FoldLeft defines a function.
LEMMA FoldExists ==
  ASSUME NEW n \in Nat, NEW V, NEW base \in V, NEW G \in [1 .. n -> [V -> V]]
  PROVE  \E it \in [SUBSET (1 .. n) -> V] : IsFold(it, n, base, G)
<1>1. PICK R \in [0 .. n -> [SUBSET (1 .. n) -> V]] : Passing(R, n, G) /\ Begun(R, n, base)
  BY PassingExists, Zenon
<1>0. R[n] \in [SUBSET (1 .. n) -> V]
  <2>1. n \in 0 .. n
    OBVIOUS
  <2>2. QED
    BY <2>1, Zenon
<1>2. PICK it \in [SUBSET (1 .. n) -> V] : it = R[n]
  BY <1>0
<1>3. ASSUME NEW s \in SUBSET (1 .. n) PROVE it[s] = FoldStep(it, base, G, s)
  <2>1. CASE s = {}
    <3>1. R[n][s] = R[0][s]
      <4>1. EndsBy(s, 0) /\ 0 \in 0 .. n
        BY <2>1 DEF EndsBy
      <4>2. Equals(R, n, s, 0, s)
        BY <1>1, <4>1, PassingOver
      <4>3. QED
        BY <4>2 DEF Equals
    <3>2. QED
      BY <1>1, <1>2, <2>1, <3>1 DEF FoldStep, Begun
  <2>2. CASE s # {}
    <3>1. PICK x \in s : x = Max(s) /\ \A y \in s : y <= x
      BY <2>2, LastOfSet
    <3>2. PICK t \in SUBSET (1 .. n) : t = s \ {x}
      OBVIOUS
    <3>9. PICK m \in 0 .. n : m = x - 1
      OBVIOUS
    <3>10. x \in 0 .. n /\ x \in 1 .. n
      OBVIOUS
    <3>3. R[n][s] = R[x][s]
      <4>1. EndsBy(s, x)
        BY <3>1 DEF EndsBy
      <4>2. Equals(R, n, s, x, s)
        BY <1>1, <3>10, <4>1, PassingOver
      <4>3. QED
        BY <4>2 DEF Equals
    <3>4. R[x][s] = G[x][R[x - 1][s]]
      <4>1. R[x][s] = IF x \in s THEN G[x][R[x - 1][s]] ELSE R[x - 1][s]
        BY <1>1, <3>10 DEF Passing
      <4>2. QED
        BY <4>1
    <3>5. R[m][s] = R[m][t]
      <4>1. AlikeUpTo(s, t, m)
        BY <3>1, <3>2, <3>9 DEF AlikeUpTo
      <4>2. Equals(R, m, s, m, t)
        BY <1>1, <4>1, PassingSame
      <4>3. QED
        BY <4>2 DEF Equals
    <3>6. R[n][t] = R[m][t]
      <4>1. EndsBy(t, m)
        BY <3>1, <3>2, <3>9 DEF EndsBy
      <4>2. Equals(R, n, t, m, t)
        BY <1>1, <4>1, PassingOver
      <4>3. QED
        BY <4>2 DEF Equals
    <3>7. it[s] = G[x][it[t]]
      BY <1>2, <3>3, <3>4, <3>5, <3>6, <3>9
    <3>8. QED
      BY <2>2, <3>1, <3>2, <3>7 DEF FoldStep
  <2>3. QED
    BY <2>1, <2>2
<1>4. it = [s \in SUBSET (1 .. n) |-> FoldStep(it, base, G, s)]
  <2>1. it = [s \in SUBSET (1 .. n) |-> it[s]]
    BY <1>2
  <2>2. QED
    BY <1>3, <2>1, Zenon
<1>5. QED
  BY <1>4 DEF IsFold

\* The last of the first positions, and the others.
LEMMA FirstOnes ==
  ASSUME NEW n \in Nat, NEW i \in 1 .. n
  PROVE  /\ 1 .. i \in SUBSET (1 .. n) /\ 1 .. i # {} /\ Max(1 .. i) = i
         /\ (1 .. i) \ {Max(1 .. i)} = 1 .. (i - 1)
<1>1. PICK s \in SUBSET (1 .. n) : s = 1 .. i
  OBVIOUS
<1>2. i \in s
  BY <1>1
<1>3. s # {}
  BY <1>2
<1>4. Max(s) \in s /\ \A y \in s : y <= Max(s)
  BY <1>3, LastOfSet
<1>5. Max(s) = i
  BY <1>1, <1>4
<1>6. s \ {i} = 1 .. (i - 1)
  BY <1>1
<1>7. QED
  BY <1>1, <1>3, <1>5, <1>6

\* A function on sets of positions is a fold with the turns in G as long as its
\* values are in V; the values before and after each turn.
Folds(f, n, V, base, G) ==
  /\ f[{}] = base
  /\ \A s \in SUBSET (1 .. n) :
       s # {} /\ f[s \ {Max(s)}] \in V => f[s] = G[Max(s)][f[s \ {Max(s)}]]

Turns(R, n, base, G) == R[0] = base /\ \A i \in 1 .. n : R[i] = G[i][R[i - 1]]

TurnsTo(n, V, base, G, last) == \E R \in [0 .. n -> V] : Turns(R, n, base, G) /\ R[n] = last

\* So its value for all positions comes about turn by turn.
LEMMA FoldTurns ==
  ASSUME NEW n \in Nat, NEW V, NEW base \in V, NEW G \in [1 .. n -> [V -> V]], NEW f,
         Folds(f, n, V, base, G)
  PROVE  TurnsTo(n, V, base, G, f[1 .. n])
<1> DEFINE R == [i \in 0 .. n |-> f[1 .. i]]
           S == {i \in 0 .. n : f[1 .. i] \in V}
<1>1. f[1 .. 0] = base
  <2>1. 1 .. 0 = {}
    OBVIOUS
  <2>2. QED
    BY <2>1 DEF Folds
<1>2. ASSUME NEW i \in 1 .. n, f[1 .. (i - 1)] \in V
      PROVE  f[1 .. i] = G[i][f[1 .. (i - 1)]] /\ f[1 .. i] \in V
  <2>1. PICK s \in SUBSET (1 .. n) : s = 1 .. i /\ s # {} /\ Max(s) = i /\ s \ {Max(s)} = 1 .. (i - 1)
    BY FirstOnes
  <2>2. f[s] = G[i][f[1 .. (i - 1)]]
    BY <1>2, <2>1 DEF Folds
  <2>3. G[i] \in [V -> V]
    OBVIOUS
  <2>4. QED
    BY <1>2, <2>1, <2>2, <2>3
<1>3. 0 \in S
  BY <1>1
<1>4. ASSUME NEW i \in 1 .. n, i - 1 \in S PROVE i \in S
  BY <1>2, <1>4
<1>5. \A i \in 0 .. n : f[1 .. i] \in V
  <2> HIDE DEF S
  <2>1. 0 .. n \subseteq S
    BY <1>3, <1>4, UpToInduct
  <2>2. QED
    BY <2>1 DEF S
<1>6. R \in [0 .. n -> V]
  BY <1>5
<1>7. R[0] = base /\ R[n] = f[1 .. n]
  BY <1>1
<1>8. ASSUME NEW i \in 1 .. n PROVE R[i] = G[i][R[i - 1]]
  <2>1. i - 1 \in 0 .. n /\ i \in 0 .. n
    OBVIOUS
  <2>2. f[1 .. i] = G[i][f[1 .. (i - 1)]]
    BY <1>2, <1>5, <2>1
  <2>3. QED
    BY <2>1, <2>2
<1>9. QED
  <2> HIDE DEF R
  <2>1. Turns(R, n, base, G)
    BY <1>7, <1>8 DEF Turns
  <2>2. QED
    BY <1>6, <1>7, <2>1 DEF TurnsTo

(***************************************************************************)
(* Strings.  A string falls into its parts in one way only.                *)
(***************************************************************************)

\* Where the first separator is, and the last one.
FirstSpot(text, sep) == SelectInSeq(text, LAMBDA t : t = sep)

\* The last place of a separator in a string, as pci_filter_parse_slot finds a dot.
LastSpot(text, sep) == SelectLastInSeq(text, LAMBDA t : t = sep)

\* No separator is in the text.
Free(text, sep) == \A j \in 1 .. Len(text) : text[j] # sep

\* The first separator, and nothing but 0 where there is none.
LEMMA FirstIs ==
  ASSUME NEW T, NEW text \in Seq(T), NEW sep
  PROVE  LET i == FirstSpot(text, sep) IN
         /\ i \in 0 .. Len(text)
         /\ i = 0 => Free(text, sep)
         /\ i > 0 => text[i] = sep /\ \A j \in 1 .. i - 1 : text[j] # sep
<1> DEFINE I == {j \in 1 .. Len(text) : text[j] = sep}
           i == FirstSpot(text, sep)
<1>1. i = IF I # {} THEN Min(I) ELSE 0
  BY DEF SelectInSeq, FirstSpot
<1> SUFFICES /\ i \in 0 .. Len(text)
             /\ i = 0 => Free(text, sep)
             /\ i > 0 => text[i] = sep /\ \A j \in 1 .. i - 1 : text[j] # sep
  OBVIOUS
<1> HIDE DEF i
<1>2. Len(text) \in Nat
  OBVIOUS
<1>3. CASE I = {}
  <2>1. Free(text, sep)
    BY <1>3 DEF Free
  <2>2. i = 0
    BY <1>1, <1>3
  <2>3. QED
    BY <1>2, <2>1, <2>2
<1>4. CASE I # {}
  <2>1. PICK x \in I : \A y \in I : x <= y
    <3>1. I \subseteq Nat
      BY <1>2
    <3> HIDE DEF I
    <3>2. QED
      BY <1>4, <3>1, LeastElement
  <2>2. Min(I) \in I /\ \A y \in I : Min(I) <= y
    BY <2>1, Zenon DEF Min
  <2>3. i = Min(I)
    BY <1>1, <1>4
  <2>4. i \in 1 .. Len(text) /\ text[i] = sep
    BY <2>2, <2>3
  <2>5. \A j \in 1 .. Len(text) : text[j] = sep => i <= j
    BY <2>2, <2>3
  <2> HIDE DEF I
  <2>6. \A j \in 1 .. i - 1 : text[j] # sep
    BY <1>2, <2>4, <2>5
  <2>7. i > 0
    BY <2>4
  <2>8. QED
    BY <2>4, <2>6, <2>7
<1>5. QED
  BY <1>3, <1>4

\* The last separator, and nothing but 0 where there is none.
LEMMA LastIs ==
  ASSUME NEW T, NEW text \in Seq(T), NEW sep
  PROVE  LET i == LastSpot(text, sep) IN
         /\ i \in 0 .. Len(text)
         /\ i = 0 => Free(text, sep)
         /\ i > 0 => text[i] = sep
         /\ \A j \in i + 1 .. Len(text) : text[j] # sep
<1> DEFINE I == {j \in 1 .. Len(text) : text[j] = sep}
           i == LastSpot(text, sep)
<1>1. i = IF I # {} THEN Max(I) ELSE 0
  BY DEF SelectLastInSeq, LastSpot
<1> SUFFICES /\ i \in 0 .. Len(text)
             /\ i = 0 => Free(text, sep)
             /\ i > 0 => text[i] = sep
             /\ \A j \in i + 1 .. Len(text) : text[j] # sep
  OBVIOUS
<1> HIDE DEF i
<1>2. Len(text) \in Nat
  OBVIOUS
<1>3. CASE I = {}
  <2>1. Free(text, sep)
    BY <1>3 DEF Free
  <2>2. i = 0
    BY <1>1, <1>3
  <2>3. QED
    BY <1>2, <2>1, <2>2 DEF Free
<1>4. CASE I # {}
  <2>1. PICK x \in I : \A y \in I : x >= y
    <3> DEFINE J == {Len(text) - j : j \in I}
    <3>1. J \subseteq Nat /\ J # {}
      BY <1>2, <1>4
    <3>2. PICK z \in J : \A y \in J : z <= y
      <4> HIDE DEF J
      <4>1. QED
        BY <3>1, LeastElement
    <3>3. PICK x \in I : z = Len(text) - x
      BY <3>2
    <3>4. \A y \in I : x >= y
      <4>1. SUFFICES ASSUME NEW y \in I PROVE x >= y
        OBVIOUS
      <4>2. z <= Len(text) - y
        BY <3>2
      <4>3. x \in Nat /\ y \in Nat
        BY <1>2
      <4> HIDE DEF I, J
      <4>4. QED
        BY <1>2, <3>3, <4>2, <4>3
    <3>5. QED
      BY <3>4
  <2>2. Max(I) \in I /\ \A y \in I : Max(I) >= y
    BY <2>1, Zenon DEF Max
  <2>3. i = Max(I)
    BY <1>1, <1>4
  <2>4. i \in 1 .. Len(text) /\ text[i] = sep
    BY <2>2, <2>3
  <2>5. \A j \in 1 .. Len(text) : text[j] = sep => i >= j
    BY <2>2, <2>3
  <2> HIDE DEF I
  <2>6. \A j \in i + 1 .. Len(text) : text[j] # sep
    BY <1>2, <2>4, <2>5
  <2>7. i > 0
    BY <2>4
  <2>8. QED
    BY <2>4, <2>6, <2>7
<1>5. QED
  BY <1>3, <1>4

\* What is joined can be split.
LEMMA JoinAt ==
  ASSUME NEW T, NEW x \in Seq(T), NEW y \in Seq(T), NEW sep \in T,
         NEW text, text = x \o <<sep>> \o y
  PROVE  /\ text \in Seq(T) /\ Len(text) = Len(x) + 1 + Len(y)
         /\ text[Len(x) + 1] = sep
         /\ \A j \in 1 .. Len(x) : text[j] = x[j]
         /\ \A j \in 1 .. Len(y) : text[Len(x) + 1 + j] = y[j]
         /\ SubSeq(text, 1, Len(x)) = x
         /\ SubSeq(text, Len(x) + 2, Len(text)) = y
  OBVIOUS

\* A text is its parts around an element with it between them.
LEMMA SplitAt ==
  ASSUME NEW T, NEW text \in Seq(T), NEW i \in 1 .. Len(text)
  PROVE  /\ At(text, i).before \in Seq(T) /\ At(text, i).after \in Seq(T)
         /\ Len(At(text, i).before) = i - 1
         /\ text = At(text, i).before \o <<text[i]>> \o At(text, i).after
<1> DEFINE x == SubSeq(text, 1, i - 1)
           y == SubSeq(text, i + 1, Len(text))
<1>1. Len(text) \in Nat /\ i \in Nat /\ i >= 1 /\ i <= Len(text)
  OBVIOUS
<1>2. x \in Seq(T) /\ Len(x) = i - 1 /\ \A j \in 1 .. i - 1 : x[j] = text[j]
  BY <1>1
<1>3. y \in Seq(T) /\ Len(y) = Len(text) - i /\ \A j \in 1 .. Len(text) - i : y[j] = text[i + j]
  BY <1>1
<1>4. text[i] \in T
  OBVIOUS
<1>5. text = x \o <<text[i]>> \o y
  <2> HIDE DEF x, y
  <2>4. PICK z : z = x \o <<text[i]>> \o y
    OBVIOUS
  <2>5. PICK a \in T : a = text[i]
    BY <1>4
  <2>6. z = x \o <<a>> \o y
    BY <2>4, <2>5
  <2>7. x \in Seq(T) /\ y \in Seq(T)
    BY <1>2, <1>3
  <2>1. /\ z \in Seq(T) /\ Len(z) = Len(x) + 1 + Len(y) /\ z[Len(x) + 1] = text[i]
        /\ \A j \in 1 .. Len(x) : z[j] = x[j]
        /\ \A j \in 1 .. Len(y) : z[Len(x) + 1 + j] = y[j]
    BY <2>5, <2>6, <2>7, JoinAt
  <2>2. \A j \in 1 .. Len(text) : z[j] = text[j]
    <3>1. SUFFICES ASSUME NEW j \in 1 .. Len(text) PROVE z[j] = text[j]
      OBVIOUS
    <3>2. CASE j <= i - 1
      BY <1>1, <1>2, <2>1, <3>2
    <3>3. CASE j = i
      BY <1>1, <1>2, <2>1, <3>3
    <3>4. CASE j > i
      <4>1. PICK k \in 1 .. Len(text) - i : j = i + k
        <5>1. j - i \in 1 .. Len(text) - i /\ j = i + (j - i)
          BY <1>1, <3>4
        <5>2. QED
          BY <5>1
      <4>2. y[k] = text[j]
        BY <1>3, <4>1
      <4>3. z[Len(x) + 1 + k] = y[k]
        BY <1>3, <2>1
      <4>4. Len(x) + 1 + k = j
        BY <1>1, <1>2, <4>1
      <4>5. QED
        BY <4>2, <4>3, <4>4
    <3>5. QED
      BY <1>1, <3>2, <3>3, <3>4
  <2>3. QED
    <3>1. Len(z) = Len(text) /\ z \in Seq(T)
      BY <1>1, <1>2, <1>3, <2>1
    <3>2. z = text
      BY <2>2, <3>1
    <3>3. QED
      BY <2>4, <3>2
<1>6. At(text, i).before = x /\ At(text, i).after = y
  BY DEF At
<1> HIDE DEF x, y
<1>7. QED
  BY <1>2, <1>3, <1>5, <1>6

\* Around a place before the text, and one behind it.
LEMMA SplitNone ==
  ASSUME NEW T, NEW text \in Seq(T)
  PROVE  /\ At(text, 0) = [before |-> <<>>, after |-> text]
         /\ At(text, Len(text) + 1) = [before |-> text, after |-> <<>>]
<1>1. SubSeq(text, 1, 0 - 1) = <<>> /\ SubSeq(text, 0 + 1, Len(text)) = text
  OBVIOUS
<1>2. SubSeq(text, 1, (Len(text) + 1) - 1) = text
  OBVIOUS
<1>7. At(text, 0) = [before |-> <<>>, after |-> text]
  BY <1>1, Zenon DEF At
<1>3. SubSeq(text, (Len(text) + 1) + 1, Len(text)) = <<>>
  OBVIOUS
<1>8. At(text, Len(text) + 1) = [before |-> text, after |-> <<>>]
  BY <1>2, <1>3, Zenon DEF At
<1>4. QED
  BY <1>7, <1>8

\* No separator, no place for it.
LEMMA NoSpot ==
  ASSUME NEW T, NEW text \in Seq(T), NEW sep, Free(text, sep)
  PROVE  FirstSpot(text, sep) = 0 /\ LastSpot(text, sep) = 0
<1>1. Len(text) \in Nat
  OBVIOUS
<1>2. PICK i : i = FirstSpot(text, sep)
  OBVIOUS
<1>3. i \in 0 .. Len(text) /\ (i > 0 => text[i] = sep)
  BY <1>2, FirstIs
<1>4. PICK k : k = LastSpot(text, sep)
  OBVIOUS
<1>5. k \in 0 .. Len(text) /\ (k > 0 => text[k] = sep)
  BY <1>4, LastIs
<1>6. i = 0 /\ k = 0
  BY <1>1, <1>3, <1>5 DEF Free
<1>7. QED
  BY <1>2, <1>4, <1>6

\* The first separator is the one behind a text without any.
LEMMA FirstJoin ==
  ASSUME NEW T, NEW x \in Seq(T), NEW y \in Seq(T), NEW sep \in T,
         NEW text, text = x \o <<sep>> \o y, Free(x, sep)
  PROVE  FirstSpot(text, sep) = Len(x) + 1 /\ At(text, Len(x) + 1) = [before |-> x, after |-> y]
<1>1. /\ text \in Seq(T) /\ Len(text) = Len(x) + 1 + Len(y) /\ text[Len(x) + 1] = sep
      /\ \A j \in 1 .. Len(x) : text[j] = x[j]
      /\ SubSeq(text, 1, Len(x)) = x
      /\ SubSeq(text, Len(x) + 2, Len(text)) = y
  BY JoinAt
<1>2. Len(x) \in Nat /\ Len(y) \in Nat
  OBVIOUS
<1>3. PICK i : i = FirstSpot(text, sep)
  OBVIOUS
<1>4. /\ i \in 0 .. Len(text)
      /\ i = 0 => Free(text, sep)
      /\ i > 0 => text[i] = sep /\ \A j \in 1 .. i - 1 : text[j] # sep
  BY <1>1, <1>3, FirstIs
<1>5. i # 0
  BY <1>1, <1>2, <1>4 DEF Free
<1>6. ~(i < Len(x) + 1)
  <2>1. SUFFICES ASSUME i < Len(x) + 1 PROVE FALSE
    OBVIOUS
  <2>2. i \in 1 .. Len(x)
    BY <1>2, <1>4, <1>5, <2>1
  <2>3. QED
    BY <1>1, <1>4, <1>5, <2>2 DEF Free
<1>7. ~(i > Len(x) + 1)
  <2>1. SUFFICES ASSUME i > Len(x) + 1 PROVE FALSE
    OBVIOUS
  <2>2. Len(x) + 1 \in 1 .. i - 1
    BY <1>1, <1>2, <1>4, <2>1
  <2>3. QED
    BY <1>1, <1>4, <1>5, <2>2
<1>8. i = Len(x) + 1
  BY <1>1, <1>2, <1>4, <1>6, <1>7
<1>9. (Len(x) + 1) - 1 = Len(x) /\ (Len(x) + 1) + 1 = Len(x) + 2
  BY <1>2
<1>10. At(text, Len(x) + 1) = [before |-> x, after |-> y]
  BY <1>1, <1>9 DEF At
<1>11. QED
  BY <1>3, <1>8, <1>10

\* The last separator is the one before a text without any.
LEMMA LastJoin ==
  ASSUME NEW T, NEW x \in Seq(T), NEW y \in Seq(T), NEW sep \in T,
         NEW text, text = x \o <<sep>> \o y, Free(y, sep)
  PROVE  LastSpot(text, sep) = Len(x) + 1 /\ At(text, Len(x) + 1) = [before |-> x, after |-> y]
<1>1. /\ text \in Seq(T) /\ Len(text) = Len(x) + 1 + Len(y) /\ text[Len(x) + 1] = sep
      /\ \A j \in 1 .. Len(y) : text[Len(x) + 1 + j] = y[j]
      /\ SubSeq(text, 1, Len(x)) = x
      /\ SubSeq(text, Len(x) + 2, Len(text)) = y
  BY JoinAt
<1>2. Len(x) \in Nat /\ Len(y) \in Nat
  OBVIOUS
<1>3. PICK i : i = LastSpot(text, sep)
  OBVIOUS
<1>4. /\ i \in 0 .. Len(text)
      /\ i = 0 => Free(text, sep)
      /\ i > 0 => text[i] = sep
      /\ \A j \in i + 1 .. Len(text) : text[j] # sep
  BY <1>1, <1>3, LastIs
<1>5. i # 0
  BY <1>1, <1>2, <1>4 DEF Free
<1>6. ~(i < Len(x) + 1)
  <2>1. SUFFICES ASSUME i < Len(x) + 1 PROVE FALSE
    OBVIOUS
  <2>2. Len(x) + 1 \in i + 1 .. Len(text)
    BY <1>1, <1>2, <1>4, <2>1
  <2>3. QED
    BY <1>1, <1>4, <2>2
<1>7. ~(i > Len(x) + 1)
  <2>1. SUFFICES ASSUME i > Len(x) + 1 PROVE FALSE
    OBVIOUS
  <2>2. PICK j \in 1 .. Len(y) : i = Len(x) + 1 + j
    <3>1. i - (Len(x) + 1) \in 1 .. Len(y) /\ i = (Len(x) + 1) + (i - (Len(x) + 1))
      BY <1>1, <1>2, <1>4, <2>1
    <3>2. QED
      BY <3>1
  <2>3. text[i] = y[j]
    BY <1>1, <2>2
  <2>4. QED
    BY <1>4, <1>5, <2>2, <2>3 DEF Free
<1>8. i = Len(x) + 1
  BY <1>1, <1>2, <1>4, <1>6, <1>7
<1>9. (Len(x) + 1) - 1 = Len(x) /\ (Len(x) + 1) + 1 = Len(x) + 2
  BY <1>2
<1>10. At(text, Len(x) + 1) = [before |-> x, after |-> y]
  BY <1>1, <1>9 DEF At
<1>11. QED
  BY <1>3, <1>8, <1>10

\* A text is cut at its first separator, or not at all.
LEMMA CutSome ==
  ASSUME NEW T, NEW text \in Seq(T), NEW sep
  PROVE  /\ Cut(text, sep).before \in Seq(T) /\ Cut(text, sep).after \in Seq(T)
         /\ \/ Free(text, sep) /\ Cut(text, sep).before = text /\ Cut(text, sep).after = <<>>
            \/ ~Free(text, sep) /\ text = Cut(text, sep).before \o <<sep>> \o Cut(text, sep).after
<1>1. PICK i : i = FirstSpot(text, sep)
  OBVIOUS
<1>2. i \in 0 .. Len(text) /\ (i = 0 => Free(text, sep)) /\ (i > 0 => text[i] = sep)
  BY <1>1, FirstIs
<1>3. Cut(text, sep) = IF i = 0 THEN At(text, Len(text) + 1) ELSE At(text, i)
  BY <1>1 DEF Cut, FirstSpot
<1>4. CASE i = 0
  <2>1. Cut(text, sep) = [before |-> text, after |-> <<>>]
    BY <1>3, <1>4, SplitNone
  <2>2. <<>> \in Seq(T)
    OBVIOUS
  <2>3. QED
    BY <1>2, <1>4, <2>1, <2>2
<1>5. CASE i # 0
  <2>1. i \in 1 .. Len(text) /\ i > 0
    BY <1>2, <1>5
  <2>2. text[i] = sep
    BY <1>2, <2>1
  <2>3. Cut(text, sep) = At(text, i)
    BY <1>3, <1>5
  <2>4. /\ At(text, i).before \in Seq(T) /\ At(text, i).after \in Seq(T)
        /\ text = At(text, i).before \o <<text[i]>> \o At(text, i).after
    BY <2>1, SplitAt
  <2>5. ~Free(text, sep)
    BY <2>1, <2>2 DEF Free
  <2>6. QED
    BY <2>2, <2>3, <2>4, <2>5
<1>6. QED
  BY <1>4, <1>5

\* What was joined is cut.
LEMMA CutJoin ==
  ASSUME NEW T, NEW x \in Seq(T), NEW y \in Seq(T), NEW sep \in T,
         NEW text, text = x \o <<sep>> \o y, Free(x, sep)
  PROVE  Cut(text, sep) = [before |-> x, after |-> y]
<1>1. FirstSpot(text, sep) = Len(x) + 1 /\ At(text, Len(x) + 1) = [before |-> x, after |-> y]
  BY FirstJoin
<1>2. Len(x) + 1 # 0
  OBVIOUS
<1>3. QED
  BY <1>1, <1>2 DEF Cut, FirstSpot

\* Without a separator nothing is cut.
LEMMA CutNone ==
  ASSUME NEW T, NEW text \in Seq(T), NEW sep, Free(text, sep)
  PROVE  Cut(text, sep) = [before |-> text, after |-> <<>>]
<1>1. FirstSpot(text, sep) = 0
  BY NoSpot
<1>2. At(text, Len(text) + 1) = [before |-> text, after |-> <<>>]
  BY SplitNone
<1>3. QED
  BY <1>1, <1>2 DEF Cut, FirstSpot

\* Separators of what is joined.
LEMMA FreeJoin ==
  ASSUME NEW T, NEW x \in Seq(T), NEW y \in Seq(T), NEW sep \in T, NEW other,
         sep # other, Free(x, other), Free(y, other)
  PROVE  Free(x \o <<sep>> \o y, other)
<1>1. PICK text : text = x \o <<sep>> \o y
  OBVIOUS
<1>2. /\ text \in Seq(T) /\ Len(text) = Len(x) + 1 + Len(y) /\ text[Len(x) + 1] = sep
      /\ \A j \in 1 .. Len(x) : text[j] = x[j]
      /\ \A j \in 1 .. Len(y) : text[Len(x) + 1 + j] = y[j]
  BY <1>1, JoinAt
<1>3. Len(x) \in Nat /\ Len(y) \in Nat
  OBVIOUS
<1>4. ASSUME NEW j \in 1 .. Len(text) PROVE text[j] # other
  <2>1. CASE j <= Len(x)
    BY <1>2, <1>3, <1>4, <2>1 DEF Free
  <2>2. CASE j = Len(x) + 1
    BY <1>2, <2>2
  <2>3. CASE j > Len(x) + 1
    <3>1. PICK k \in 1 .. Len(y) : j = Len(x) + 1 + k
      <4>1. j - (Len(x) + 1) \in 1 .. Len(y) /\ j = (Len(x) + 1) + (j - (Len(x) + 1))
        BY <1>2, <1>3, <1>4, <2>3
      <4>2. QED
        BY <4>1
    <3>2. QED
      BY <1>2, <3>1 DEF Free
  <2>4. QED
    BY <1>3, <1>4, <2>1, <2>2, <2>3
<1>5. QED
  BY <1>1, <1>4 DEF Free

\* One element more.
LEMMA OneMore ==
  ASSUME NEW T, NEW x \in Seq(T), NEW e \in T, NEW y, y = x \o <<e>>
  PROVE  /\ y \in Seq(T) /\ Len(y) = Len(x) + 1 /\ y[Len(x) + 1] = e
         /\ \A j \in 1 .. Len(x) : y[j] = x[j]
OBVIOUS

\* One element more, by its number.
LEMMA Appended ==
  ASSUME NEW T, NEW n \in Nat, NEW x \in Seq(T), Len(x) = n, NEW e \in T, NEW y, y = x \o <<e>>
  PROVE  y \in Seq(T) /\ Len(y) = n + 1 /\ y[n + 1] = e /\ \A j \in 1 .. n : y[j] = x[j]
<1>1. /\ y \in Seq(T) /\ Len(y) = Len(x) + 1 /\ y[Len(x) + 1] = e
      /\ \A j \in 1 .. Len(x) : y[j] = x[j]
  OBVIOUS
<1>2. QED
  BY <1>1

\* Sequences of three, five and seven elements are told by these.
LEMMA ThreeAre ==
  ASSUME NEW T, NEW z \in Seq(T), Len(z) = 3
  PROVE  z = <<z[1], z[2], z[3]>>
OBVIOUS

\* Five elements.
LEMMA FiveAre ==
  ASSUME NEW T, NEW z \in Seq(T), Len(z) = 5
  PROVE  z = <<z[1], z[2], z[3], z[4], z[5]>>
OBVIOUS

\* Seven elements.
LEMMA SevenAre ==
  ASSUME NEW T, NEW z \in Seq(T), Len(z) = 7
  PROVE  z = <<z[1], z[2], z[3], z[4], z[5], z[6], z[7]>>
OBVIOUS

\* A sequence of three elements of a set is a sequence over it.
LEMMA ThreeIn ==
  ASSUME NEW T, NEW a \in T, NEW b \in T, NEW c \in T
  PROVE  <<a, b, c>> \in Seq(T) /\ <<a>> \in Seq(T)
OBVIOUS

\* Three elements.
LEMMA ThreeJoined ==
  ASSUME NEW T, NEW a \in T, NEW b \in T, NEW c \in T
  PROVE  <<a>> \o <<b>> \o <<c>> = <<a, b, c>>
<1>1. PICK x : x = <<a>>
  OBVIOUS
<1>2. x \in Seq(T) /\ Len(x) = 1 /\ x[1] = a
  BY <1>1
<1>3. PICK y : y = x \o <<b>>
  OBVIOUS
<1>4. y \in Seq(T) /\ Len(y) = 1 + 1 /\ y[1 + 1] = b /\ \A j \in 1 .. 1 : y[j] = x[j]
  BY <1>2, <1>3, Appended
<1>5. Len(y) = 2 /\ y[1] = a /\ y[2] = b
  BY <1>2, <1>4
<1>6. PICK z : z = y \o <<c>>
  OBVIOUS
<1>7. z \in Seq(T) /\ Len(z) = 2 + 1 /\ z[2 + 1] = c /\ \A j \in 1 .. 2 : z[j] = y[j]
  BY <1>4, <1>5, <1>6, Appended
<1>8. Len(z) = 3 /\ z[1] = a /\ z[2] = b /\ z[3] = c
  BY <1>5, <1>7
<1>9. z = <<z[1], z[2], z[3]>>
  BY <1>7, <1>8, ThreeAre
<1>10. QED
  BY <1>1, <1>3, <1>6, <1>8, <1>9

\* Seven elements from four and three.
LEMMA SevenJoined ==
  ASSUME NEW T, NEW h \in Seq(T), NEW t \in Seq(T), Len(h) = 4, Len(t) = 3
  PROVE  h \o t = <<h[1], h[2], h[3], h[4], t[1], t[2], t[3]>>
<1>1. PICK z : z = h \o t
  OBVIOUS
<1>2. /\ z \in Seq(T) /\ Len(z) = Len(h) + Len(t)
      /\ \A j \in 1 .. Len(h) + Len(t) : z[j] = IF j <= Len(h) THEN h[j] ELSE t[j - Len(h)]
  BY <1>1, ConcatProperties
<1>3. /\ Len(z) = 7
      /\ \A j \in 1 .. 7 : z[j] = IF j <= 4 THEN h[j] ELSE t[j - 4]
  BY <1>2
<1>4. z[1] = h[1] /\ z[2] = h[2] /\ z[3] = h[3] /\ z[4] = h[4]
  BY <1>3
<1>5. z[5] = t[1] /\ z[6] = t[2] /\ z[7] = t[3]
  BY <1>3
<1>6. z = <<z[1], z[2], z[3], z[4], z[5], z[6], z[7]>>
  BY <1>2, <1>3, SevenAre
<1>7. QED
  BY <1>1, <1>4, <1>5, <1>6

(***************************************************************************)
(* The fields of a filter, and the interface of pciutils before 3.3: a parse *)
(* into a filter without a class goes as the parse into the filter does,   *)
(* field by field.                                                         *)
(***************************************************************************)

\* What a filter string is made of, and what is made of it.
Token == (DOMAIN Number) \cup {Colon, Dot, Star}

\* What a parser returns: a filter, and whether there was an error.
Result == [filter : [Field -> Int], error : BOOLEAN]

\* Bounds of the fields are numbers.
LEMMA LargestTyped == \A k \in Field : Largest[k] \in Nat
BY DEF Field, OldField, AddressField, IdentField, Largest

\* A part that fits is not open.
LEMMA FitsNotOpen ==
  ASSUME NEW k, NEW part, Fits(part, k)
  PROVE  ~Open(part)
<1>1. part # <<>>
  BY DEF Fits
<1>2. ASSUME part = <<Star>> PROVE FALSE
  <2>1. part[1] = Star
    BY <1>2
  <2>2. Star \in DOMAIN Number
    BY <2>1 DEF Fits
  <2>3. QED
    BY <2>2, NumberAssumption
<1>3. QED
  BY <1>1, <1>2 DEF Open

\* A field is set, or refused and left alone.
SetDone(r, k, part, q) ==
  /\ q \in Result
  /\ q.error <=> r.error \/ ~Fits(part, k)
  /\ \A m \in Field : m # k => q.filter[m] = r.filter[m]
  /\ Fits(part, k) => q.filter[k] = Number[part[1]]

\* One field of a filter is set: the result is a result, and the other fields stay.
LEMMA FieldSet ==
  ASSUME NEW r \in Result, NEW k \in Field, NEW part
  PROVE  SetDone(r, k, part, SetField(r, k, part))
<1>4. PICK q : q = SetField(r, k, part)
  OBVIOUS
<1>1. CASE Fits(part, k)
  <2>1. part[1] \in DOMAIN Number /\ Number[part[1]] \in Int
    BY <1>1, NumberAssumption DEF Fits
  <2>2. q = [r EXCEPT !.filter[k] = Number[part[1]]]
    BY <1>1, <1>4 DEF SetField
  <2>3. SetDone(r, k, part, q)
    BY <1>1, <2>1, <2>2 DEF Result, SetDone
  <2>4. QED
    BY <1>4, <2>3
<1>2. CASE ~Fits(part, k)
  <2>1. q = [r EXCEPT !.error = TRUE]
    BY <1>2, <1>4 DEF SetField
  <2>2. SetDone(r, k, part, q)
    BY <1>2, <2>1 DEF Result, SetDone
  <2>3. QED
    BY <1>4, <2>2
<1>3. QED
  BY <1>1, <1>2

\* A filter is its fields.
LEMMA FieldsMake ==
  ASSUME NEW f \in [Field -> Int], NEW g \in [Field -> Int],
         \A m \in IdentField \cup {"class"} : g[m] = f[m]
  PROVE  g = [f EXCEPT !["domain"] = g["domain"], !["bus"] = g["bus"],
                       !["slot"] = g["slot"], !["func"] = g["func"]]
<1> DEFINE h == [f EXCEPT !["domain"] = g["domain"], !["bus"] = g["bus"],
                          !["slot"] = g["slot"], !["func"] = g["func"]]
<1>1. Field = {"domain", "bus", "slot", "func"} \cup (IdentField \cup {"class"})
  BY DEF Field, OldField, AddressField
<1>2. {"domain", "bus", "slot", "func"} \cap (IdentField \cup {"class"}) = {}
  BY DEF IdentField
<1>3. /\ h["domain"] = g["domain"] /\ h["bus"] = g["bus"]
      /\ h["slot"] = g["slot"] /\ h["func"] = g["func"]
  BY <1>1
<1>4. ASSUME NEW m \in IdentField \cup {"class"} PROVE h[m] = f[m]
  <2>1. m # "domain" /\ m # "bus" /\ m # "slot" /\ m # "func" /\ m \in Field
    BY <1>1, <1>2
  <2>2. QED
    BY <2>1
<1>5. h = [m \in Field |-> h[m]]
  OBVIOUS
<1>6. g = [m \in Field |-> g[m]]
  OBVIOUS
<1> HIDE DEF h
<1>7. \A m \in Field : g[m] = h[m]
  BY <1>1, <1>3, <1>4
<1>8. g = h
  BY <1>5, <1>6, <1>7, Zenon
<1>9. QED
  BY <1>8 DEF h

\* Two results of which nothing before 3.3 tells which is which.
Twin(r, q) ==
  /\ r \in Result /\ q \in Result
  /\ r.error = q.error
  /\ \A m \in OldField : r.filter[m] = q.filter[m]

\* Two results of one string for filters f and g: every field was set in both or
\* in neither.
SetInBoth(r, q, f, g, m) ==
  \/ r.filter[m] = q.filter[m] /\ q.filter[m] >= 0
  \/ r.filter[m] = f[m] /\ q.filter[m] = g[m]

\* Two parses into filters that agree but for the class go alike.
Alike(r, q, f, g) ==
  /\ r \in Result /\ q \in Result
  /\ r.error = q.error
  /\ \A m \in Field : SetInBoth(r, q, f, g, m)

\* Setting a field keeps them such, and so does parsing one.
LEMMA AlikeSet ==
  ASSUME NEW r, NEW q, NEW f, NEW g, NEW k \in Field, NEW part, Alike(r, q, f, g)
  PROVE  Alike(SetField(r, k, part), SetField(q, k, part), f, g)
<1>1. PICK r1 : r1 = SetField(r, k, part)
  OBVIOUS
<1>2. PICK q1 : q1 = SetField(q, k, part)
  OBVIOUS
<1>3. SetDone(r, k, part, r1)
  BY <1>1, FieldSet DEF Alike
<1>4. SetDone(q, k, part, q1)
  BY <1>2, FieldSet DEF Alike
<1>5. r1.error = q1.error
  BY <1>3, <1>4 DEF Alike, Result, SetDone
<1>6. ASSUME NEW m \in Field
      PROVE  SetInBoth(r1, q1, f, g, m)
  <2>1. CASE m # k
    BY <1>3, <1>4, <2>1 DEF Alike, SetInBoth, SetDone
  <2>2. CASE m = k /\ Fits(part, k)
    <3>1. r1.filter[m] = q1.filter[m] /\ q1.filter[m] = Number[part[1]]
      BY <1>3, <1>4, <2>2 DEF SetDone
    <3>2. Number[part[1]] >= 0
      BY <2>2 DEF Fits
    <3>3. QED
      BY <3>1, <3>2 DEF SetInBoth
  <2>3. CASE m = k /\ ~Fits(part, k)
    <3>1. r1.filter = r.filter /\ q1.filter = q.filter
      BY <1>1, <1>2, <2>3 DEF SetField, Result, Alike
    <3>2. QED
      BY <3>1 DEF Alike, SetInBoth
  <2>4. QED
    BY <2>1, <2>2, <2>3
<1>7. r1 \in Result /\ q1 \in Result
  BY <1>3, <1>4 DEF SetDone
<1>8. Alike(r1, q1, f, g)
  BY <1>5, <1>6, <1>7 DEF Alike
<1>9. QED
  BY <1>1, <1>2, <1>8

\* They do with a field,
LEMMA AlikeField ==
  ASSUME NEW r, NEW q, NEW f, NEW g, NEW k \in Field, NEW part, Alike(r, q, f, g)
  PROVE  Alike(ParseField(r, k, part), ParseField(q, k, part), f, g)
<1>1. r.error = q.error
  BY DEF Alike
<1>2. CASE r.error \/ Open(part)
  <2>1. ParseField(r, k, part) = r /\ ParseField(q, k, part) = q
    BY <1>1, <1>2 DEF ParseField
  <2>2. QED
    BY <2>1
<1>3. CASE ~(r.error \/ Open(part))
  <2>1. ParseField(r, k, part) = SetField(r, k, part) /\ ParseField(q, k, part) = SetField(q, k, part)
    BY <1>1, <1>3 DEF ParseField
  <2>2. QED
    BY <2>1, AlikeSet
<1>4. QED
  BY <1>2, <1>3

\* Filters start as such.
LEMMA AlikeStart ==
  ASSUME NEW f \in [Field -> Int], NEW g \in [Field -> Int]
  PROVE  Alike(Ok(f), Ok(g), f, g)
<1>1. Ok(f) \in Result /\ Ok(g) \in Result
  BY DEF Ok, Result
<1>2. Ok(f).error = Ok(g).error /\ Ok(f).filter = f /\ Ok(g).filter = g
  BY DEF Ok
<1>3. QED
  BY <1>1, <1>2 DEF Alike, SetInBoth

\* Both parsers keep them such.
LEMMA AlikeSlot ==
  ASSUME NEW f \in [Field -> Int], NEW g \in [Field -> Int], NEW text
  PROVE  Alike(ParseSlot(f, text), ParseSlot(g, text), f, g)
<1> DEFINE p == SlotParts(text)
           A(r) == ParseField(r, "domain", p.domain)
           B(r) == ParseField(r, "bus", p.bus)
           C(r) == ParseField(r, "slot", p.slot)
           D(r) == ParseField(r, "func", p.func)
<1>1. {"domain", "bus", "slot", "func"} \subseteq Field
  BY DEF Field, OldField, AddressField
<1>2. Alike(Ok(f), Ok(g), f, g)
  BY AlikeStart
<1>3. ParseSlot(g, text) = D(C(B(A(Ok(g))))) /\ ParseSlot(f, text) = D(C(B(A(Ok(f)))))
  BY DEF ParseSlot
<1> HIDE DEF p
<1>4. Alike(A(Ok(f)), A(Ok(g)), f, g)
  BY <1>1, <1>2, AlikeField
<1> HIDE DEF A
<1>5. Alike(B(A(Ok(f))), B(A(Ok(g))), f, g)
  BY <1>1, <1>4, AlikeField
<1> HIDE DEF B
<1>6. Alike(C(B(A(Ok(f)))), C(B(A(Ok(g)))), f, g)
  BY <1>1, <1>5, AlikeField
<1> HIDE DEF C
<1>7. Alike(D(C(B(A(Ok(f))))), D(C(B(A(Ok(g))))), f, g)
  BY <1>1, <1>6, AlikeField
<1> HIDE DEF D
<1>8. QED
  BY <1>3, <1>7

\* and with an id string.
LEMMA AlikeId ==
  ASSUME NEW f \in [Field -> Int], NEW g \in [Field -> Int], NEW text
  PROVE  Alike(ParseId(f, text), ParseId(g, text), f, g)
<1> DEFINE i == SelectInSeq(text, LAMBDA t : t = Colon)
           v == SubSeq(text, 1, i - 1)
           rest == Cut(SubSeq(text, i + 1, Len(text)), Colon)
           A(r) == ParseField(r, "vendor", v)
           B(r) == ParseField(r, "device", rest.before)
           C(r) == ParseClass(r, rest.before, rest.after)
           E(r) == [r EXCEPT !.error = TRUE]
<1>1. {"vendor", "device", "class"} \subseteq Field
  BY DEF Field, OldField, IdentField
<1>2. Alike(Ok(f), Ok(g), f, g)
  BY AlikeStart
<1>3. /\ ParseId(g, text) = IF text = <<>> THEN Ok(g) ELSE IF i = 0 THEN E(Ok(g)) ELSE C(B(A(Ok(g))))
      /\ ParseId(f, text) = IF text = <<>> THEN Ok(f) ELSE IF i = 0 THEN E(Ok(f)) ELSE C(B(A(Ok(f))))
  BY Zenon DEF ParseId
<1>4. Alike(E(Ok(f)), E(Ok(g)), f, g)
  BY <1>2 DEF Alike, SetInBoth, Result
<1> HIDE DEF i, v, rest, E
<1>5. Alike(A(Ok(f)), A(Ok(g)), f, g)
  BY <1>1, <1>2, AlikeField
<1> HIDE DEF A
<1>6. Alike(B(A(Ok(f))), B(A(Ok(g))), f, g)
  BY <1>1, <1>5, AlikeField
<1> HIDE DEF B
<1>7. ASSUME NEW r, NEW q, Alike(r, q, f, g) PROVE Alike(C(r), C(q), f, g)
  <2>1. r.error = q.error
    BY <1>7 DEF Alike
  <2>2. CASE r.error \/ rest.after = <<>> \/ rest.before = <<Star>>
    <3>1. C(r) = r /\ C(q) = q
      BY <2>1, <2>2 DEF ParseClass
    <3>2. QED
      BY <1>7, <3>1
  <2>3. CASE ~(r.error \/ rest.after = <<>> \/ rest.before = <<Star>>)
    <3>1. C(r) = SetField(r, "class", rest.after) /\ C(q) = SetField(q, "class", rest.after)
      BY <2>1, <2>3 DEF ParseClass
    <3>2. QED
      BY <1>1, <1>7, <3>1, AlikeSet
  <2>4. QED
    BY <2>2, <2>3
<1> HIDE DEF C
<1>8. Alike(C(B(A(Ok(f)))), C(B(A(Ok(g)))), f, g)
  BY <1>6, <1>7
<1>9. QED
  <2>1. CASE text = <<>>
    <3>1. ParseId(g, text) = Ok(g) /\ ParseId(f, text) = Ok(f)
      BY <1>3, <2>1
    <3>2. QED
      BY <1>2, <3>1
  <2>2. CASE text # <<>> /\ i = 0
    <3>1. ParseId(g, text) = E(Ok(g)) /\ ParseId(f, text) = E(Ok(f))
      BY <1>3, <2>2
    <3>2. QED
      BY <1>4, <3>1
  <2>3. CASE text # <<>> /\ i # 0
    <3>1. ParseId(g, text) = C(B(A(Ok(g)))) /\ ParseId(f, text) = C(B(A(Ok(f))))
      BY <1>3, <2>3
    <3>2. QED
      BY <1>8, <3>1
  <2>4. QED
    BY <2>1, <2>2, <2>3

\* A filter and what is left of it before 3.3 are the same but for it.
LEMMA TwinStart ==
  ASSUME NEW f \in [Field -> Int]
  PROVE  Import(Export(f)) \in [Field -> Int] /\ \A m \in OldField : Import(Export(f))[m] = f[m]
<1>1. PICK g : g = Import(Export(f))
  OBVIOUS
<1>2. OldField \subseteq Field /\ "class" \notin OldField /\ Field = OldField \cup {"class"}
  BY DEF Field, OldField, AddressField, IdentField
<1>3. Export(f) = [k \in OldField |-> f[k]]
  BY DEF Export
<1>4. g = [k \in Field |-> IF k = "class" THEN -1 ELSE Export(f)[k]]
  BY <1>1 DEF Import
<1>5. \A k \in OldField : Export(f)[k] = f[k] /\ f[k] \in Int
  BY <1>2, <1>3
<1>6. \A k \in OldField : g[k] = f[k]
  BY <1>2, <1>4, <1>5
<1>7. g \in [Field -> Int]
  BY <1>2, <1>4, <1>5
<1>8. QED
  BY <1>1, <1>6, <1>7

\* And so go those before 3.3.
LEMMA TwinBy ==
  ASSUME NEW f \in [Field -> Int], NEW r, NEW q, Alike(r, q, Import(Export(f)), f)
  PROVE  Twin(r, q)
<1>1. \A m \in OldField : m \in Field /\ Import(Export(f))[m] = f[m]
  BY TwinStart DEF Field
<1>2. QED
  BY <1>1 DEF Twin, Alike, SetInBoth

\* What is left of one selects what the other does but for the class.
LEMMA TwinSelects ==
  ASSUME NEW r, NEW q, Twin(r, q), NEW d
  PROVE  MatchOld(Export(r.filter), d) <=> Match([q.filter EXCEPT !["class"] = -1], d)
<1>1. OldField \subseteq Field /\ "class" \notin OldField /\ Field = OldField \cup {"class"}
  BY DEF Field, OldField, AddressField, IdentField
<1>2. PICK f \in [Field -> Int] : f = r.filter
  BY DEF Twin, Result
<1>3. PICK g \in [Field -> Int] : g = q.filter
  BY DEF Twin, Result
<1>4. \A k \in OldField : f[k] = g[k]
  BY <1>2, <1>3 DEF Twin
<1>5. Export(f) = [k \in OldField |-> f[k]]
  BY DEF Export
<1>6. Import(Export(f)) = [k \in Field |-> IF k = "class" THEN -1 ELSE Export(f)[k]]
  BY DEF Import
<1>7. PICK h : h = [g EXCEPT !["class"] = -1]
  OBVIOUS
<1>8. h = [k \in Field |-> IF k = "class" THEN -1 ELSE g[k]]
  BY <1>7
<1>9. Import(Export(f)) = h
  BY <1>1, <1>4, <1>5, <1>6, <1>8
<1>10. MatchOld(Export(f), d) <=> Match(h, d)
  BY <1>9, Zenon DEF MatchOld
<1>11. QED
  BY <1>2, <1>3, <1>7, <1>10

\* A filter is its fields.
LEMMA IdentsMake ==
  ASSUME NEW f \in [Field -> Int], NEW g \in [Field -> Int],
         \A m \in AddressField : g[m] = f[m]
  PROVE  g = [f EXCEPT !["vendor"] = g["vendor"], !["device"] = g["device"],
                       !["class"] = g["class"]]
<1> DEFINE h == [f EXCEPT !["vendor"] = g["vendor"], !["device"] = g["device"],
                          !["class"] = g["class"]]
<1>1. Field = {"vendor", "device", "class"} \cup AddressField
  BY DEF Field, OldField, IdentField
<1>2. {"vendor", "device", "class"} \cap AddressField = {}
  BY DEF AddressField
<1>3. h["vendor"] = g["vendor"] /\ h["device"] = g["device"] /\ h["class"] = g["class"]
  BY <1>1
<1>4. ASSUME NEW m \in AddressField PROVE h[m] = f[m]
  <2>1. m # "vendor" /\ m # "device" /\ m # "class" /\ m \in Field
    BY <1>1, <1>2
  <2>2. QED
    BY <2>1
<1>5. h = [m \in Field |-> h[m]]
  OBVIOUS
<1>6. g = [m \in Field |-> g[m]]
  OBVIOUS
<1> HIDE DEF h
<1>7. \A m \in Field : g[m] = h[m]
  BY <1>1, <1>3, <1>4
<1>8. g = h
  BY <1>5, <1>6, <1>7, Zenon
<1>9. QED
  BY <1>8 DEF h

\* Such a filter selects its device alone.
LEMMA PortAlone ==
  ASSUME NEW d \in Device, NEW e \in Device, NEW g \in [Field -> Int],
         \A k \in Field : g[k] = d[k]
  PROVE  Match(g, e) <=> e = d
<1>1. \A k \in Field : d[k] \in Nat /\ e[k] \in Nat
  BY DEF Device
<1>2. Match(g, e) <=> \A k \in Field : d[k] = e[k]
  BY <1>1 DEF Match
<1>3. d = [k \in Field |-> d[k]] /\ e = [k \in Field |-> e[k]]
  BY DEF Device
<1>4. ASSUME \A k \in Field : d[k] = e[k] PROVE e = d
  BY <1>3, <1>4, Zenon
<1>5. QED
  BY <1>2, <1>4

(***************************************************************************)
(* What parse_op takes from an argument.                                   *)
(***************************************************************************)

\* A token that is read adds to the last piece, or begins another.
PieceStep(ps, t) == IF t = "," THEN Append(ps, <<>>) ELSE [ps EXCEPT ![Len(ps)] = Append(@, t)]

\* Sequences of pieces, with one at least.
Pieced(T) == {ps \in Seq(Seq(T)) : Len(ps) # 0}

\* A piece more, or a longer one.
LEMMA PieceStays ==
  ASSUME NEW T, NEW ps \in Pieced(T), NEW t \in T
  PROVE  PieceStep(ps, t) \in Pieced(T)
<1>1. ps \in Seq(Seq(T)) /\ Len(ps) \in 1 .. Len(ps)
  BY DEF Pieced
<1>2. CASE t = ","
  <2>1. <<>> \in Seq(T)
    OBVIOUS
  <2>2. Append(ps, <<>>) \in Seq(Seq(T)) /\ Len(Append(ps, <<>>)) = Len(ps) + 1
    BY <1>1, <2>1, AppendProperties
  <2>3. PieceStep(ps, t) = Append(ps, <<>>)
    BY <1>2 DEF PieceStep
  <2>4. Len(ps) + 1 # 0
    BY <1>1
  <2>5. QED
    BY <2>2, <2>3, <2>4 DEF Pieced
<1>3. CASE t # ","
  <2>1. ps[Len(ps)] \in Seq(T)
    BY <1>1
  <2>2. Append(ps[Len(ps)], t) \in Seq(T)
    BY <2>1
  <2>3. PICK e \in Seq(T) : e = Append(ps[Len(ps)], t)
    BY <2>2
  <2>4. /\ [ps EXCEPT ![Len(ps)] = e] \in Seq(Seq(T))
        /\ Len([ps EXCEPT ![Len(ps)] = e]) = Len(ps)
    BY <1>1, ExceptSeq
  <2>5. PieceStep(ps, t) = [ps EXCEPT ![Len(ps)] = e]
    BY <1>3, <2>3 DEF PieceStep
  <2>6. QED
    BY <1>1, <2>4, <2>5 DEF Pieced
<1>4. QED
  BY <1>2, <1>3

\* Values are split into pieces.
LEMMA PiecesAre ==
  ASSUME NEW T, NEW text \in Seq(T)
  PROVE  Pieces32(text) \in Seq(Seq(T)) /\ Pieces32(text) # <<>>
<1> DEFINE n == Len(text)
           V == Pieced(T)
           one == <<<<>>>>
           G == [i \in 1 .. n |-> [ps \in V |-> PieceStep(ps, text[i])]]
           Turn(f, s) == IF s = {} THEN one ELSE PieceStep(f[s \ {Max(s)}], text[Max(s)])
           Def(f) == f = [s \in SUBSET (1 .. n) |-> Turn(f, s)]
           iter == CHOOSE f : Def(f)
<1>1. n \in Nat /\ \A i \in 1 .. n : text[i] \in T
  OBVIOUS
<1>2. Pieces32(text) = iter[1 .. n]
  <2>1. DOMAIN text = 1 .. n
    OBVIOUS
  <2>2. QED
    BY <2>1 DEF Pieces32, FoldLeft, MapThenFoldSet, PieceStep
<1>3. G \in [1 .. n -> [V -> V]]
  <2> HIDE DEF n, V
  <2>1. ASSUME NEW i \in 1 .. n, NEW ps \in V PROVE PieceStep(ps, text[i]) \in V
    BY <1>1, PieceStays DEF V
  <2>2. QED
    BY <2>1
<1>4. one \in V
  BY DEF Pieced
<1>5. PICK it \in [SUBSET (1 .. n) -> V] : IsFold(it, n, one, G)
  <2> HIDE DEF n, V, G, one
  <2>1. QED
    BY <1>1, <1>3, <1>4, FoldExists
<1>6. Def(it)
  <2>1. ASSUME NEW s \in SUBSET (1 .. n) PROVE FoldStep(it, one, G, s) = Turn(it, s)
    <3>1. CASE s = {}
      BY <3>1 DEF FoldStep
    <3>2. CASE s # {}
      <4>1. Max(s) \in 1 .. n /\ s \ {Max(s)} \in SUBSET (1 .. n)
        <5>1. Max(s) \in s
          BY <1>1, <3>2, LastOfSet
        <5>2. QED
          BY <5>1
      <4>2. it[s \ {Max(s)}] \in V
        BY <4>1
      <4> HIDE DEF V, n
      <4>3. G[Max(s)][it[s \ {Max(s)}]] = PieceStep(it[s \ {Max(s)}], text[Max(s)])
        BY <4>1, <4>2
      <4>4. QED
        BY <3>2, <4>3 DEF FoldStep
    <3>3. QED
      BY <3>1, <3>2
  <2> HIDE DEF Turn, G, n, one
  <2>2. it = [s \in SUBSET (1 .. n) |-> FoldStep(it, one, G, s)]
    BY <1>5 DEF IsFold
  <2>3. QED
    BY <2>1, <2>2, Zenon
<1>7. Def(iter)
  <2> HIDE DEF Def
  <2>1. QED
    BY <1>6
<1> HIDE DEF iter
<1>8. Folds(iter, n, V, one, G)
  <2>1. iter[{}] = one
    BY <1>7
  <2>2. ASSUME NEW s \in SUBSET (1 .. n), s # {}, iter[s \ {Max(s)}] \in V
        PROVE  iter[s] = G[Max(s)][iter[s \ {Max(s)}]]
    <3>1. iter[s] = Turn(iter, s)
      <4> HIDE DEF Turn
      <4>1. QED
        BY <1>7
    <3>2. Max(s) \in 1 .. n
      BY <1>1, <2>2, LastOfSet
    <3> HIDE DEF V, n
    <3>3. G[Max(s)][iter[s \ {Max(s)}]] = PieceStep(iter[s \ {Max(s)}], text[Max(s)])
      BY <2>2, <3>2
    <3>4. QED
      BY <2>2, <3>1, <3>3
  <2> HIDE DEF G, V, n, one
  <2>3. QED
    BY <2>1, <2>2 DEF Folds
<1>9. Pieces32(text) \in V
  <2> HIDE DEF G, V, n, one
  <2>1. TurnsTo(n, V, one, G, iter[1 .. n])
    BY <1>1, <1>3, <1>4, <1>8, FoldTurns
  <2>2. n \in 0 .. n
    BY <1>1
  <2>3. QED
    BY <1>2, <2>1, <2>2 DEF TurnsTo
<1>10. QED
  BY <1>9 DEF Pieced

\* The separators of an operation, in the order it is cut at them, and the names
\* of its parts.
OpSeps == {"=", "@", Dot, "+"}

\* The parts of an operation.
OpKeys == {"base", "=", "@", Dot, "+"}

\* A cut at one of them.
OpStep(p, sep) ==
  LET c == Cut(p["base"], sep)
  IN  [p EXCEPT !["base"] = c.before, ![sep] = IF Has(p["base"], sep) THEN <<sep>> \o c.after ELSE <<>>]

\* An operation that is not yet cut.
Uncut(text) == [x \in OpKeys |-> IF x = "base" THEN text ELSE <<>>]

\* The parts after a cut are what the cut leaves.
LEMMA OpStepIs ==
  ASSUME NEW T, OpSeps \subseteq T, NEW p \in [OpKeys -> Seq(T)], NEW sep \in OpSeps,
         NEW q, q = OpStep(p, sep)
  PROVE  /\ q \in [OpKeys -> Seq(T)]
         /\ q["base"] = Cut(p["base"], sep).before
         /\ q[sep] = IF Has(p["base"], sep) THEN <<sep>> \o Cut(p["base"], sep).after ELSE <<>>
         /\ \A k \in OpSeps : k # sep => q[k] = p[k]
<1> DEFINE b == p["base"]
           c == Cut(b, sep)
           tail == IF Has(b, sep) THEN <<sep>> \o c.after ELSE <<>>
<1>1. "base" \in OpKeys /\ sep \in OpKeys /\ sep # "base" /\ sep \in T
  BY DEF OpKeys, OpSeps, Dot
<1>2. b \in Seq(T)
  BY <1>1
<1>3. c.before \in Seq(T) /\ c.after \in Seq(T)
  <2> HIDE DEF b
  <2>1. QED
    BY <1>2, CutSome
<1>4. tail \in Seq(T)
  <2>1. <<sep>> \in Seq(T)
    BY <1>1
  <2> HIDE DEF c, b
  <2>2. <<sep>> \o c.after \in Seq(T)
    BY <1>3, <2>1
  <2>3. QED
    BY <2>2
<1>5. q = [p EXCEPT !["base"] = c.before, ![sep] = tail]
  BY DEF OpStep
<1> HIDE DEF c, tail
<1>6. q["base"] = c.before /\ q[sep] = tail
  BY <1>1, <1>5
<1>7. ASSUME NEW k \in OpSeps, k # sep PROVE q[k] = p[k]
  <2>1. k \in OpKeys /\ k # "base"
    BY DEF OpKeys, OpSeps, Dot
  <2>2. QED
    BY <1>5, <1>7, <2>1
<1>8. q \in [OpKeys -> Seq(T)]
  BY <1>1, <1>3, <1>4, <1>5
<1>9. QED
  BY <1>6, <1>7, <1>8 DEF c, tail

\* The parts of an operation are those after four cuts.
LEMMA OpPartsAre ==
  ASSUME NEW T, OpSeps \subseteq T, NEW text \in Seq(T)
  PROVE  OpParts(text) = OpStep(OpStep(OpStep(OpStep(Uncut(text), "="), "@"), Dot), "+")
<1> DEFINE n == 4
           seps == <<"=", "@", Dot, "+">>
           V == [OpKeys -> Seq(T)]
           G == [i \in 1 .. n |-> [p \in V |-> OpStep(p, seps[i])]]
           start == Uncut(text)
           Turn(f, s) == IF s = {} THEN start ELSE OpStep(f[s \ {Max(s)}], seps[Max(s)])
           Def(f) == f = [s \in SUBSET (1 .. n) |-> Turn(f, s)]
           iter == CHOOSE f : Def(f)
<1>1. n \in Nat /\ \A i \in 1 .. n : seps[i] \in OpSeps
  BY DEF OpSeps
<1>2. OpParts(text) = iter[1 .. n]
  <2>1. DOMAIN seps = 1 .. n
    OBVIOUS
  <2>2. QED
    BY <2>1 DEF OpParts, FoldLeft, MapThenFoldSet, OpStep, Uncut, OpKeys
<1>3. start \in V
  <2>1. <<>> \in Seq(T)
    OBVIOUS
  <2>2. QED
    BY <2>1 DEF Uncut
<1>4. G \in [1 .. n -> [V -> V]]
  <2> HIDE DEF n, V, seps
  <2>1. ASSUME NEW i \in 1 .. n, NEW p \in V PROVE OpStep(p, seps[i]) \in V
    <3>1. PICK q : q = OpStep(p, seps[i])
      OBVIOUS
    <3>2. q \in V
      BY <1>1, <3>1, OpStepIs DEF V
    <3>3. QED
      BY <3>1, <3>2
  <2>2. QED
    BY <2>1
<1>5. PICK it \in [SUBSET (1 .. n) -> V] : IsFold(it, n, start, G)
  <2> HIDE DEF n, V, G, start
  <2>1. QED
    BY <1>1, <1>3, <1>4, FoldExists
<1>6. Def(it)
  <2>1. ASSUME NEW s \in SUBSET (1 .. n) PROVE FoldStep(it, start, G, s) = Turn(it, s)
    <3> HIDE DEF n, seps, V, start
    <3>1. CASE s = {}
      BY <3>1 DEF FoldStep
    <3>2. CASE s # {}
      <4>1. Max(s) \in 1 .. n /\ s \ {Max(s)} \in SUBSET (1 .. n)
        <5>1. Max(s) \in s
          BY <1>1, <3>2, LastOfSet
        <5>2. QED
          BY <5>1
      <4>2. it[s \ {Max(s)}] \in V
        BY <4>1
      <4>3. G[Max(s)][it[s \ {Max(s)}]] = OpStep(it[s \ {Max(s)}], seps[Max(s)])
        BY <4>1, <4>2
      <4>4. QED
        BY <3>2, <4>3 DEF FoldStep
    <3>3. QED
      BY <3>1, <3>2
  <2> HIDE DEF Turn, G, n, start
  <2>2. it = [s \in SUBSET (1 .. n) |-> FoldStep(it, start, G, s)]
    BY <1>5 DEF IsFold
  <2>3. QED
    BY <2>1, <2>2, Zenon
<1>7. Def(iter)
  <2> HIDE DEF Def
  <2>1. QED
    BY <1>6
<1> HIDE DEF iter
<1>8. \A s \in SUBSET (1 .. n) : iter[s] = Turn(iter, s)
  <2> HIDE DEF Turn
  <2>1. QED
    BY <1>7
<1>9. iter[1 .. 0] = start
  <2>1. 1 .. 0 = {}
    OBVIOUS
  <2>2. QED
    BY <1>8, <2>1
<1>10. ASSUME NEW i \in 1 .. n
       PROVE  iter[1 .. i] = OpStep(iter[1 .. (i - 1)], seps[i])
  <2> HIDE DEF n, seps, start
  <2>1. /\ 1 .. i \in SUBSET (1 .. n) /\ 1 .. i # {} /\ Max(1 .. i) = i
        /\ (1 .. i) \ {Max(1 .. i)} = 1 .. (i - 1)
    BY <1>1, FirstOnes
  <2>2. PICK s \in SUBSET (1 .. n) : s = 1 .. i
    BY <2>1
  <2>3. Max(s) = i /\ s \ {Max(s)} = 1 .. (i - 1) /\ s # {}
    BY <2>1, <2>2
  <2>4. QED
    BY <1>8, <2>2, <2>3
<1>11. /\ iter[1 .. 1] = OpStep(iter[1 .. 0], "=")
       /\ iter[1 .. 2] = OpStep(iter[1 .. 1], "@")
       /\ iter[1 .. 3] = OpStep(iter[1 .. 2], Dot)
       /\ iter[1 .. 4] = OpStep(iter[1 .. 3], "+")
  <2>1. /\ 1 \in 1 .. n /\ 2 \in 1 .. n /\ 3 \in 1 .. n /\ 4 \in 1 .. n
        /\ 1 - 1 = 0 /\ 2 - 1 = 1 /\ 3 - 1 = 2 /\ 4 - 1 = 3
    OBVIOUS
  <2>2. seps[1] = "=" /\ seps[2] = "@" /\ seps[3] = Dot /\ seps[4] = "+"
    OBVIOUS
  <2> HIDE DEF n, seps
  <2>3. /\ iter[1 .. 1] = OpStep(iter[1 .. (1 - 1)], seps[1])
        /\ iter[1 .. 2] = OpStep(iter[1 .. (2 - 1)], seps[2])
        /\ iter[1 .. 3] = OpStep(iter[1 .. (3 - 1)], seps[3])
        /\ iter[1 .. 4] = OpStep(iter[1 .. (4 - 1)], seps[4])
    BY <1>10, <2>1
  <2>4. QED
    BY <2>1, <2>2, <2>3
<1>12. QED
  BY <1>2, <1>9, <1>11

\* An operation that fits.
FitsSpace(op, n) ==
  /\ op.type \in {"none", "CAP", "ECAP"} /\ op.width \in {1, 2, 4}
  /\ op.addr \in 0 .. Size - 1 /\ op.addr % op.width = 0
  /\ op.addr + op.width * (IF n = 0 THEN 1 ELSE n) <= Size
  /\ Len(op.values) = n /\ DOMAIN op.values = 1 .. n /\ (op.values = <<>> <=> n = 0)

\* An operation whose values are still pieces.
UncheckedOp(op, type, id, number, addr, width, values) ==
  /\ op = [type |-> type, id |-> id, number |-> number, addr |-> addr, width |-> width, values |-> values]
  /\ type \in {"none", "CAP", "ECAP"} /\ addr \in Int /\ width \in {0, 1, 2, 4}
  /\ Len(values) \in Nat /\ DOMAIN values = 1 .. Len(values)

\* What passes the checks fits.
PassesFit(r, n) == r = RefusedOp \/ (r.error = FALSE /\ FitsSpace(r.op, n))

\* A number that is read is an integer.
LEMMA HexIsInt == \A w \in DOMAIN Hex32 : Hex32[w] \in Int
<1>1. ASSUME NEW i \in Int32 PROVE i \in Int
  BY Zenon DEF Int32
<1>2. QED
  BY <1>1, Hex32Assumption

\* The parts are strings.
LEMMA PartsTyped ==
  ASSUME NEW T, OpSeps \subseteq T, NEW text \in Seq(T)
  PROVE  OpParts(text) \in [OpKeys -> Seq(T)]
<1>1. PICK a : a = Uncut(text)
  OBVIOUS
<1>2. PICK b : b = OpStep(a, "=")
  OBVIOUS
<1>3. PICK c : c = OpStep(b, "@")
  OBVIOUS
<1>4. PICK d : d = OpStep(c, Dot)
  OBVIOUS
<1>5. PICK e : e = OpStep(d, "+")
  OBVIOUS
<1>6. "=" \in OpSeps /\ "@" \in OpSeps /\ Dot \in OpSeps /\ "+" \in OpSeps
  BY DEF OpSeps
<1>7. a \in [OpKeys -> Seq(T)]
  <2>1. <<>> \in Seq(T)
    OBVIOUS
  <2>2. QED
    BY <1>1, <2>1 DEF Uncut
<1>8. b \in [OpKeys -> Seq(T)]
  BY <1>2, <1>6, <1>7, OpStepIs
<1>9. c \in [OpKeys -> Seq(T)]
  BY <1>3, <1>6, <1>8, OpStepIs
<1>10. d \in [OpKeys -> Seq(T)]
  BY <1>4, <1>6, <1>9, OpStepIs
<1>11. e \in [OpKeys -> Seq(T)]
  BY <1>5, <1>6, <1>10, OpStepIs
<1>12. OpParts(text) = e
  BY <1>1, <1>2, <1>3, <1>4, <1>5, OpPartsAre
<1>13. QED
  BY <1>11, <1>12

\* The checks let only such operations pass.
LEMMA ChecksFit ==
  ASSUME NEW op, NEW type, NEW id, NEW number, NEW addr, NEW width, NEW values,
         UncheckedOp(op, type, id, number, addr, width, values)
  PROVE  PassesFit(CheckOp(op), Len(values))
<1> DEFINE n == Len(values)
           good == /\ op.width # 0
                   /\ InRange(op.addr, op.width, Len(op.values)) /\ op.addr % op.width = 0
                   /\ \A j \in DOMAIN op.values : IsValue(op.values[j], op.width)
           done == [op EXCEPT !.values = [j \in DOMAIN op.values |-> Value(op.values[j])]]
<1>1. /\ n \in Nat /\ DOMAIN values = 1 .. n
      /\ type \in {"none", "CAP", "ECAP"} /\ addr \in Int /\ width \in {0, 1, 2, 4}
  BY DEF UncheckedOp
<1> PICK r : r = CheckOp(op)
  OBVIOUS
<1>0. op = [type |-> type, id |-> id, number |-> number, addr |-> addr, width |-> width, values |-> values]
  BY DEF UncheckedOp
<1>2. CASE ~good
  <2> HIDE DEF good
  <2>1. r = RefusedOp
    BY <1>2 DEF CheckOp, good
  <2>2. QED
    BY <2>1 DEF PassesFit
<1>3. CASE good
  <2>1. r = [error |-> FALSE, op |-> done]
    BY <1>3 DEF CheckOp
  <2>2. /\ done.type = type /\ done.addr = addr /\ done.width = width
        /\ done.values = [j \in 1 .. n |-> Value(values[j])]
    <3>1. op.values = values
      BY <1>0
    <3>2. QED
      BY <1>0, <1>1, <3>1
  <2>3. width \in {1, 2, 4} /\ InRange(addr, width, n) /\ addr % width = 0
    BY <1>0, <1>1, <1>3
  <2>4. addr \in 0 .. Size - 1 /\ addr + width * (IF n = 0 THEN 1 ELSE n) <= Size
    BY <2>3 DEF InRange
  <2> DEFINE vs == [j \in 1 .. n |-> Value(values[j])]
  <2>5. Len(vs) = n /\ DOMAIN vs = 1 .. n
    <3> HIDE DEF n
    <3>1. PICK W : W = {Value(values[j]) : j \in 1 .. n}
      OBVIOUS
    <3>2. vs \in [1 .. n -> W]
      BY <3>1
    <3>3. DOMAIN vs = 1 .. n
      OBVIOUS
    <3> HIDE DEF vs
    <3>4. vs \in Seq(W)
      BY <1>1, <3>2
    <3>5. QED
      BY <1>1, <3>3, <3>4
  <2>6. vs = <<>> <=> n = 0
    <3>1. vs = <<>> => Len(vs) = 0
      OBVIOUS
    <3>2. n = 0 => vs = <<>>
      BY <1>1
    <3>3. QED
      BY <2>5, <3>1, <3>2
  <2>7. r.error = FALSE /\ r.op = done
    BY <2>1
  <2> HIDE DEF n, done, vs
  <2>8. FitsSpace(done, n)
    <3>1. done.values = vs
      BY <2>2 DEF vs
    <3>2. done.type \in {"none", "CAP", "ECAP"} /\ done.width \in {1, 2, 4}
      BY <1>1, <2>2, <2>3
    <3>3. /\ done.addr \in 0 .. Size - 1 /\ done.addr % done.width = 0
          /\ done.addr + done.width * (IF n = 0 THEN 1 ELSE n) <= Size
      BY <2>2, <2>3, <2>4
    <3>4. Len(done.values) = n /\ DOMAIN done.values = 1 .. n /\ (done.values = <<>> <=> n = 0)
      BY <2>5, <2>6, <3>1
    <3>5. QED
      BY <3>2, <3>3, <3>4 DEF FitsSpace
  <2>9. QED
    BY <2>7, <2>8 DEF n, PassesFit
<1>4. QED
  BY <1>2, <1>3

\* A string is refused, or means an operation that fits.
LEMMA ParsedFits ==
  ASSUME NEW T, OpSeps \subseteq T, NEW text \in Seq(T), NEW r, r = ParseOp(text)
  PROVE  \/ r = RefusedOp
         \/ r.error = FALSE /\ \E n \in Nat : FitsSpace(r.op, n)
<1>1. PICK p : p = OpParts(text)
  OBVIOUS
<1>2. p \in [OpKeys -> Seq(T)]
  BY <1>1, PartsTyped
<1>3. r = ParseParts(p)
  BY <1>1 DEF ParseOp
<1>4. CASE ~(WellFormed(p) /\ Meaning(p["base"]) # {})
  BY <1>3, <1>4 DEF ParseParts
<1>5. CASE WellFormed(p) /\ Meaning(p["base"]) # {}
  <2>1. PICK reg : reg = CHOOSE x \in Meaning(p["base"]) : TRUE
    OBVIOUS
  <2>2. reg \in Meaning(p["base"])
    BY <1>5, <2>1
  <2>3. r = OpOn(reg, p)
    BY <1>3, <1>5, <2>1 DEF ParseParts
  <2>4. reg.type \in {"none", "CAP", "ECAP"} /\ reg.offset \in Int /\ reg.width \in {0, 1, 2, 4}
    <3>1. CASE IsHex(p["base"])
      <4>1. reg = [type |-> "none", id |-> 0, offset |-> Hex32[p["base"][1]], width |-> 0]
        BY <2>2, <3>1 DEF Meaning
      <4>2. Hex32[p["base"][1]] \in Int
        BY <3>1, HexIsInt DEF IsHex
      <4>3. QED
        BY <4>1, <4>2
    <3>2. CASE ~IsHex(p["base"])
      <4>1. \/ \E u \in DOMAIN Register : reg = Register[u]
            \/ \E q \in (DOMAIN CapLimit) \X DOMAIN Hex32 :
                 reg = [type |-> q[1], id |-> Hex32[q[2]], offset |-> 0, width |-> 0]
        BY <2>2, <3>2 DEF Meaning
      <4>2. ASSUME NEW u \in DOMAIN Register, reg = Register[u]
            PROVE  reg.type \in {"none", "CAP", "ECAP"} /\ reg.offset \in Int /\ reg.width \in {0, 1, 2, 4}
        BY <4>2, RegisterAssumption
      <4>3. ASSUME NEW q \in (DOMAIN CapLimit) \X DOMAIN Hex32,
                   reg = [type |-> q[1], id |-> Hex32[q[2]], offset |-> 0, width |-> 0]
            PROVE  reg.type \in {"none", "CAP", "ECAP"} /\ reg.offset \in Int /\ reg.width \in {0, 1, 2, 4}
        <5>1. q[1] \in {"CAP", "ECAP"}
          BY DEF CapLimit
        <5>2. QED
          BY <4>3, <5>1
      <4>4. QED
        BY <4>1, <4>2, <4>3
    <3>3. QED
      BY <3>1, <3>2
  <2>5. PICK width : width = IF p[Dot] = <<>> THEN reg.width ELSE WidthOf[p[Dot][2]]
    OBVIOUS
  <2>6. width \in {0, 1, 2, 4}
    <3>1. ASSUME p[Dot] # <<>> PROVE WidthOf[p[Dot][2]] \in {1, 2, 4}
      <4>1. PICK w \in DOMAIN WidthOf : p[Dot] = <<Dot, w>>
        BY <1>5, <3>1 DEF WellFormed
      <4>2. WidthOf[w] \in {1, 2, 4}
        BY DEF WidthOf
      <4>3. p[Dot][2] = w
        BY <4>1
      <4>4. QED
        BY <4>2, <4>3
    <3>2. QED
      BY <2>4, <2>5, <3>1
  <2>7. PICK addr : addr = reg.offset + NumberIn(p["+"])
    OBVIOUS
  <2>8. addr \in Int
    <3>1. NumberIn(p["+"]) \in Int
      <4>1. CASE p["+"] = <<>>
        BY <4>1 DEF NumberIn
      <4>2. CASE p["+"] # <<>>
        <5>1. IsHex(Tail(p["+"])) /\ p["+"] \in Seq(T)
          BY <1>2, <1>5, <4>2 DEF WellFormed, OpKeys
        <5>2. PICK part \in Seq(T) : part = p["+"]
          BY <5>1
        <5>3. Len(Tail(part)) = 1 /\ Tail(part)[1] \in DOMAIN Hex32
          BY <5>1, <5>2 DEF IsHex
        <5>4. Tail(part)[1] = part[2]
          BY <5>2, <5>3, <4>2
        <5>5. Hex32[part[2]] \in Int
          BY <5>3, <5>4, HexIsInt
        <5>6. QED
          BY <4>2, <5>2, <5>5 DEF NumberIn
      <4>3. QED
        BY <4>1, <4>2
    <3>2. QED
      BY <2>4, <2>7, <3>1
  <2>9. PICK values : values = IF p["="] = <<>> THEN <<>> ELSE Pieces32(Tail(p["="]))
    OBVIOUS
  <2>10. values \in Seq(Seq(T))
    <3>1. CASE p["="] = <<>>
      BY <2>9, <3>1
    <3>2. CASE p["="] # <<>>
      <4>1. p["="] \in Seq(T)
        BY <1>2 DEF OpKeys
      <4>2. Tail(p["="]) \in Seq(T)
        BY <3>2, <4>1
      <4>3. Pieces32(Tail(p["="])) \in Seq(Seq(T))
        BY <4>2, PiecesAre
      <4>4. QED
        BY <2>9, <3>2, <4>3
    <3>3. QED
      BY <3>1, <3>2
  <2>11. PICK op : op = [type |-> reg.type, id |-> reg.id, number |-> NumberIn(p["@"]), addr |-> addr,
                         width |-> width, values |-> values]
    OBVIOUS
  <2>12. r = CheckOp(op)
    BY <2>3, <2>5, <2>7, <2>9, <2>11, Zenon DEF OpOn
  <2>13. PICK type : type = reg.type
    OBVIOUS
  <2>14. PICK id : id = reg.id
    OBVIOUS
  <2>15. PICK number : number = NumberIn(p["@"])
    OBVIOUS
  <2>16. UncheckedOp(op, type, id, number, addr, width, values)
    <3>1. Len(values) \in Nat /\ DOMAIN values = 1 .. Len(values)
      BY <2>10
    <3>2. type \in {"none", "CAP", "ECAP"}
      BY <2>4, <2>13
    <3>3. QED
      BY <2>6, <2>8, <2>11, <2>13, <2>14, <2>15, <3>1, <3>2 DEF UncheckedOp
  <2>17. PassesFit(CheckOp(op), Len(values))
    BY <2>16, ChecksFit
  <2>18. Len(values) \in Nat
    BY <2>10
  <2>19. QED
    BY <2>12, <2>17, <2>18 DEF PassesFit
<1>6. QED
  BY <1>4, <1>5

(***************************************************************************)
(* exec_op writes value after value, and nothing but the bits of their masks. *)
(***************************************************************************)

\* The address an operation goes to on a device, if it goes to one.
OpAddress(op, dev) ==
  op.addr + (IF op.type = "none" THEN 0
             ELSE dev.caps[CHOOSE i \in FindCapNr(dev.caps, op) : TRUE].addr)

\* It dies where it finds no capability or leaves the configuration space.
OpDies(op, dev) ==
  ~(op.type = "none" \/ FindCapNr(dev.caps, op) # {}) \/ ~ReachableReg(OpAddress(op, dev), op.width)

\* The registers an operation reads or writes, by their order.
OpAccess(op, dev, j) == OpAddress(op, dev) + op.width * (j - 1)

\* How many registers these are.
OpTurns(op) == IF op.values = <<>> THEN 1 ELSE Len(op.values)

\* The registers it leaves.
OpLeaves(op, dev, mem) ==
  FoldLeftDomain(
    LAMBDA m, j :
      WriteReg(m, OpAccess(op, dev, j), op.width,
               NewValue(m, OpAccess(op, dev, j), op.width, op.values[j])),
    mem, op.values)

\* What an operation that dies returns, and one that runs.
DeadResult(r, mem) == r.died = TRUE /\ r.mem = mem /\ r.accesses = {}

\* and one that runs.
RunResult(r, op, dev, mem, demo) ==
  /\ r.died = FALSE
  /\ r.accesses = {OpAccess(op, dev, j) : j \in 1 .. OpTurns(op)}
  /\ r.mem = IF demo THEN mem ELSE OpLeaves(op, dev, mem)

\* exec_op, part by part.
LEMMA ExecIs ==
  ASSUME NEW op, NEW dev, NEW mem, NEW demo
  PROVE  /\ OpDies(op, dev) => DeadResult(ExecOp(op, dev, mem, demo), mem)
         /\ ~OpDies(op, dev) => RunResult(ExecOp(op, dev, mem, demo), op, dev, mem, demo)
<1>1. CASE OpDies(op, dev)
  <2>1. ExecOp(op, dev, mem, demo) = [mem |-> mem, accesses |-> {}, died |-> TRUE]
    BY <1>1, Zenon DEF ExecOp, OpDies, OpAddress
  <2>2. QED
    BY <1>1, <2>1 DEF DeadResult
<1>2. CASE ~OpDies(op, dev)
  <2>1. PICK accesses : accesses = {OpAccess(op, dev, j) : j \in 1 .. OpTurns(op)}
    OBVIOUS
  <2>2. PICK left : left = IF demo THEN mem ELSE OpLeaves(op, dev, mem)
    OBVIOUS
  <2>3. ExecOp(op, dev, mem, demo) = [died |-> FALSE, accesses |-> accesses, mem |-> left]
    BY <1>2, <2>1, <2>2, Zenon DEF ExecOp, OpDies, OpAddress, OpAccess, OpTurns, OpLeaves
  <2>4. QED
    BY <1>2, <2>1, <2>2, <2>3 DEF RunResult
<1>3. QED
  BY <1>1, <1>2

\* An access that is not aligned, or not inside the configuration space.
Misplaced(a, width) == a % width # 0 \/ a + width > Size

\* The turns of an operation that fits are those its number of values allows.
LEMMA FitTurns ==
  ASSUME NEW op, NEW n \in Nat, FitsSpace(op, n)
  PROVE  OpTurns(op) = IF n = 0 THEN 1 ELSE n
BY DEF FitsSpace, OpTurns

\* A multiple moved by a multiple is a multiple.
LEMMA MovedMultiple ==
  ASSUME NEW a \in Nat, NEW w \in {1, 2, 4}, NEW j \in Nat, a % w = 0
  PROVE  (a + w * j) % w = 0
<1>1. CASE w = 1
  BY <1>1
<1>2. CASE w = 2
  BY <1>2
<1>3. CASE w = 4
  BY <1>3
<1>4. QED
  BY <1>1, <1>2, <1>3

\* No access of an operation by address is misplaced.
LEMMA AbsoluteFits ==
  ASSUME NEW op, NEW n \in Nat, FitsSpace(op, n), op.type = "none", NEW dev
  PROVE  /\ ~OpDies(op, dev)
         /\ \A j \in 1 .. OpTurns(op) : ~Misplaced(OpAccess(op, dev, j), op.width)
<1>1. PICK a : a = op.addr
  OBVIOUS
<1>2. PICK w : w = op.width
  OBVIOUS
<1>3. PICK m : m = IF n = 0 THEN 1 ELSE n
  OBVIOUS
<1>4. a \in Nat /\ w \in {1, 2, 4} /\ m \in Nat /\ m >= 1 /\ a % w = 0 /\ a + w * m <= Size
  <2>1. Size \in Nat
    BY DEF Size
  <2>2. op.addr \in 0 .. Size - 1 /\ op.width \in {1, 2, 4} /\ op.addr % op.width = 0
        /\ op.addr + op.width * (IF n = 0 THEN 1 ELSE n) <= Size
    BY DEF FitsSpace
  <2>3. QED
    BY <1>1, <1>2, <1>3, <2>1, <2>2
<1>5. OpAddress(op, dev) = a
  BY <1>1, <1>4 DEF OpAddress
<1>6. Size \in Nat
  BY DEF Size
<1>7. a + w <= Size
  <2>1. CASE w = 1
    BY <1>4, <1>6, <2>1
  <2>2. CASE w = 2
    BY <1>4, <1>6, <2>2
  <2>3. CASE w = 4
    BY <1>4, <1>6, <2>3
  <2>4. QED
    BY <1>4, <2>1, <2>2, <2>3
<1>8. ~OpDies(op, dev)
  BY <1>2, <1>4, <1>5, <1>7 DEF OpDies, ReachableReg
<1>9. ASSUME NEW j \in 1 .. m
      PROVE  ~Misplaced(OpAccess(op, dev, j), w)
  <2>1. PICK k \in Nat : k = j - 1 /\ k + 1 <= m
    BY <1>4
  <2>2. OpAccess(op, dev, j) = a + w * k
    BY <1>2, <1>5, <2>1 DEF OpAccess
  <2>3. (a + w * k) % w = 0
    BY <1>4, MovedMultiple
  <2>4. (a + w * k) + w <= Size
    <3>1. CASE w = 1
      BY <1>4, <1>6, <2>1, <3>1
    <3>2. CASE w = 2
      BY <1>4, <1>6, <2>1, <3>2
    <3>3. CASE w = 4
      BY <1>4, <1>6, <2>1, <3>3
    <3>4. QED
      BY <1>4, <3>1, <3>2, <3>3
  <2>5. a + w * k \in Nat
    <3>1. w \in Nat
      BY <1>4
    <3>2. QED
      BY <1>4, <3>1
  <2>6. PICK x : x = a + w * k
    OBVIOUS
  <2>7. x % w = 0 /\ x + w <= Size /\ x \in Nat /\ w \in Nat
    BY <1>4, <2>3, <2>4, <2>5, <2>6
  <2>8. ~Misplaced(x, w)
    BY <1>6, <2>7 DEF Misplaced
  <2>9. QED
    BY <2>2, <2>6, <2>8
<1>10. OpTurns(op) = m
  BY <1>3, FitTurns
<1>11. QED
  BY <1>2, <1>8, <1>9, <1>10

\* An operation that runs as it should.
RunsWell(op, done, bad) ==
  IF op.type = "none" THEN ~done.died /\ bad = {} ELSE bad # {} => Len(op.values) > 1

\* Functions from registers to the bits that are set.
Registers(D) == [D -> SUBSET (0 .. 7)]

\* Value j is written.
OpTurn(op, dev, m, j) ==
  WriteReg(m, OpAccess(op, dev, j), op.width,
           NewValue(m, OpAccess(op, dev, j), op.width, op.values[j]))

\* The registers before, and after each value.
Turned(R, n, op, dev, mem) == R[0] = mem /\ \A i \in 1 .. n : R[i] = OpTurn(op, dev, R[i - 1], i)

\* There are such registers, and the last are what the operation leaves.
HasTurns(n, op, dev, D, mem) ==
  \E R \in [0 .. n -> Registers(D)] :
    Turned(R, n, op, dev, mem) /\ R[n] = OpLeaves(op, dev, mem)

\* They stay registers.
LEMMA TurnStays ==
  ASSUME NEW op, NEW dev, NEW D, NEW m \in Registers(D), NEW j
  PROVE  OpTurn(op, dev, m, j) \in Registers(D)
<1>1. PICK a : a = OpAccess(op, dev, j)
  OBVIOUS
<1>2. PICK x : x = NewValue(m, a, op.width, op.values[j])
  OBVIOUS
<1>3. DOMAIN m = D /\ \A r \in D : m[r] \in SUBSET (0 .. 7)
  BY DEF Registers
<1>4. OpTurn(op, dev, m, j) =
        [r \in D |-> IF r \in a .. a + op.width - 1 THEN {b \in 0 .. 7 : 8 * (r - a) + b \in x} ELSE m[r]]
  BY <1>1, <1>2, <1>3, Zenon DEF OpTurn, WriteReg
<1>5. QED
  BY <1>3, <1>4 DEF Registers

\* What is left is what the last value leaves.
LEMMA LeavesAre ==
  ASSUME NEW op, NEW n \in Nat, DOMAIN op.values = 1 .. n, NEW dev, NEW D, NEW mem \in Registers(D)
  PROVE  HasTurns(n, op, dev, D, mem)
<1> DEFINE V == Registers(D)
           ids == [i \in DOMAIN op.values |-> i]
           G == [i \in 1 .. n |-> [m \in V |-> OpTurn(op, dev, m, i)]]
           Turn(f, s) == IF s = {} THEN mem ELSE OpTurn(op, dev, f[s \ {Max(s)}], ids[Max(s)])
           Def(f) == f = [s \in SUBSET (1 .. n) |-> Turn(f, s)]
           iter == CHOOSE f : Def(f)
<1>1. DOMAIN ids = 1 .. n /\ \A i \in 1 .. n : ids[i] = i
  OBVIOUS
<1>2. OpLeaves(op, dev, mem) = iter[1 .. n]
  <2>1. DOMAIN ids = 1 .. n
    OBVIOUS
  <2>2. QED
    BY <2>1 DEF OpLeaves, FoldLeftDomain, FoldLeft, MapThenFoldSet, OpTurn
<1>3. G \in [1 .. n -> [V -> V]]
  <2> HIDE DEF V
  <2>1. ASSUME NEW i \in 1 .. n, NEW m \in V PROVE OpTurn(op, dev, m, i) \in V
    BY TurnStays DEF V
  <2>2. QED
    BY <2>1
<1>4. mem \in V
  OBVIOUS
<1>5. PICK it \in [SUBSET (1 .. n) -> V] : IsFold(it, n, mem, G)
  <2> HIDE DEF V, G
  <2>1. QED
    BY <1>3, <1>4, FoldExists
<1>6. Def(it)
  <2>1. ASSUME NEW s \in SUBSET (1 .. n) PROVE FoldStep(it, mem, G, s) = Turn(it, s)
    <3>1. CASE s = {}
      BY <3>1 DEF FoldStep
    <3>2. CASE s # {}
      <4>1. Max(s) \in 1 .. n /\ s \ {Max(s)} \in SUBSET (1 .. n)
        <5>1. Max(s) \in s
          BY <3>2, LastOfSet
        <5>2. QED
          BY <5>1
      <4>2. it[s \ {Max(s)}] \in V
        BY <4>1
      <4>3. ids[Max(s)] = Max(s)
        BY <1>1, <4>1
      <4> HIDE DEF V, ids
      <4>4. G[Max(s)][it[s \ {Max(s)}]] = OpTurn(op, dev, it[s \ {Max(s)}], Max(s))
        BY <4>1, <4>2
      <4>5. QED
        BY <3>2, <4>3, <4>4 DEF FoldStep
    <3>3. QED
      BY <3>1, <3>2
  <2> HIDE DEF Turn, G
  <2>2. it = [s \in SUBSET (1 .. n) |-> FoldStep(it, mem, G, s)]
    BY <1>5 DEF IsFold
  <2>3. QED
    BY <2>1, <2>2, Zenon
<1>7. Def(iter)
  <2> HIDE DEF Def
  <2>1. QED
    BY <1>6
<1> HIDE DEF iter
<1>8. Folds(iter, n, V, mem, G)
  <2>1. iter[{}] = mem
    BY <1>7
  <2>2. ASSUME NEW s \in SUBSET (1 .. n), s # {}, iter[s \ {Max(s)}] \in V
        PROVE  iter[s] = G[Max(s)][iter[s \ {Max(s)}]]
    <3>1. iter[s] = Turn(iter, s)
      <4> HIDE DEF Turn
      <4>1. QED
        BY <1>7
    <3>2. Max(s) \in 1 .. n
      BY <2>2, LastOfSet
    <3>3. ids[Max(s)] = Max(s)
      BY <1>1, <3>2
    <3> HIDE DEF V, ids
    <3>4. G[Max(s)][iter[s \ {Max(s)}]] = OpTurn(op, dev, iter[s \ {Max(s)}], Max(s))
      BY <2>2, <3>2
    <3>5. QED
      BY <2>2, <3>1, <3>3, <3>4
  <2> HIDE DEF G, V
  <2>3. QED
    BY <2>1, <2>2 DEF Folds
<1>9. PICK R \in [0 .. n -> V] : Turns(R, n, mem, G) /\ R[n] = iter[1 .. n]
  <2> HIDE DEF G, V
  <2>1. TurnsTo(n, V, mem, G, iter[1 .. n])
    BY <1>3, <1>4, <1>8, FoldTurns
  <2>2. QED
    BY <2>1 DEF TurnsTo
<1>10. ASSUME NEW i \in 1 .. n PROVE R[i] = OpTurn(op, dev, R[i - 1], i)
  <2> HIDE DEF V
  <2>1. R[i - 1] \in V
    BY <1>9
  <2>2. R[i] = G[i][R[i - 1]]
    BY <1>9 DEF Turns
  <2>3. QED
    BY <2>1, <2>2
<1> HIDE DEF V
<1>11. R[0] = mem /\ R[n] = OpLeaves(op, dev, mem)
  BY <1>2, <1>9 DEF Turns
<1>12. R \in [0 .. n -> Registers(D)]
  BY <1>9 DEF V
<1>13. QED
  BY <1>10, <1>11, <1>12 DEF Turned, HasTurns

\* The number of bit b of register r in what is read or written at a.
BitNr(r, a, b) == 8 * (r - a) + b

\* Value j is for bit b of register r; it is set there.
Hits(op, dev, r, b, j) ==
  /\ r \in OpAccess(op, dev, j) .. OpAccess(op, dev, j) + op.width - 1
  /\ BitNr(r, OpAccess(op, dev, j), b) \in op.values[j].mask

\* It sets the bit.
Puts(op, dev, r, b, j) == BitNr(r, OpAccess(op, dev, j), b) \in op.values[j].value

\* What such a number says.
IsBitNr(k, r, a, w, b) == k \in 0 .. 8 * w - 1 /\ a + k \div 8 = r /\ k % 8 = b

\* The new value at that number.
BitRight(k, x, v, before) == k \in x <=> IF k \in v.mask THEN k \in v.value ELSE before

\* A number of bits gives its byte and the bit in it.
LEMMA BitNrIs ==
  ASSUME NEW a \in Nat, NEW w \in {1, 2, 4}, NEW r \in a .. a + w - 1, NEW b \in 0 .. 7
  PROVE  IsBitNr(BitNr(r, a, b), r, a, w, b)
<1>1. PICK k \in 0 .. 3 : k = r - a /\ k < w /\ r = a + k
  <2>1. CASE w = 1
    BY <2>1
  <2>2. CASE w = 2
    BY <2>2
  <2>3. CASE w = 4
    BY <2>3
  <2>4. QED
    BY <2>1, <2>2, <2>3
<1>2. BitNr(r, a, b) = 8 * k + b
  BY <1>1 DEF BitNr
<1>3. (8 * k + b) \div 8 = k /\ (8 * k + b) % 8 = b
  BY <1>1
<1>4. 8 * k + b \in 0 .. 8 * w - 1
  <2>1. CASE w = 1
    BY <1>1, <2>1
  <2>2. CASE w = 2
    BY <1>1, <2>2
  <2>3. CASE w = 4
    BY <1>1, <2>3
  <2>4. QED
    BY <2>1, <2>2, <2>3
<1>5. QED
  BY <1>1, <1>2, <1>3, <1>4 DEF IsBitNr

\* Under its mask, the new value has the bits it was told, elsewhere those it read.
LEMMA NewValueIs ==
  ASSUME NEW D, NEW m \in Registers(D), NEW a \in Nat, NEW w \in {1, 2, 4},
         NEW v, v.value \subseteq v.mask,
         NEW r \in a .. a + w - 1, r \in D, NEW b \in 0 .. 7
  PROVE  BitRight(BitNr(r, a, b), NewValue(m, a, w, v), v, b \in m[r])
<1>1. PICK k : k = BitNr(r, a, b)
  OBVIOUS
<1>2. k \in 0 .. 8 * w - 1 /\ a + k \div 8 = r /\ k % 8 = b
  <2>1. IsBitNr(BitNr(r, a, b), r, a, w, b)
    BY BitNrIs
  <2>2. QED
    BY <1>1, <2>1 DEF IsBitNr
<1>3. DOMAIN m = D
  BY DEF Registers
<1>4. k \in ReadReg(m, a, w) <=> b \in m[r]
  BY <1>2, <1>3 DEF ReadReg
<1>5. CASE 0 .. 8 * w - 1 \subseteq v.mask
  <2>1. k \in v.mask
    BY <1>2, <1>5
  <2>2. NewValue(m, a, w, v) = v.value
    BY <1>5 DEF NewValue
  <2>3. QED
    BY <1>1, <2>1, <2>2 DEF BitRight
<1>6. CASE ~(0 .. 8 * w - 1 \subseteq v.mask)
  <2>1. NewValue(m, a, w, v) = (ReadReg(m, a, w) \ v.mask) \cup v.value
    BY <1>6 DEF NewValue
  <2>2. k \in NewValue(m, a, w, v) <=> (k \in ReadReg(m, a, w) /\ k \notin v.mask) \/ k \in v.value
    BY <2>1
  <2>3. QED
    BY <1>1, <1>4, <2>2 DEF BitRight
<1>7. QED
  BY <1>5, <1>6

\* What value j does to one bit: t has it set where m had, or as it is told.
BitTurned(t, m, op, dev, r, b, j) ==
  b \in t[r] <=> IF Hits(op, dev, r, b, j) THEN Puts(op, dev, r, b, j) ELSE b \in m[r]

\* What this asks of value j, of the registers D and of the bit.
SoundTurn(op, dev, j, D, r, b) ==
  /\ op.width \in {1, 2, 4} /\ OpAccess(op, dev, j) \in Nat
  /\ op.values[j].value \subseteq op.values[j].mask
  /\ r \in D /\ r \in Nat /\ b \in 0 .. 7

\* Each value does it.
LEMMA TurnBit ==
  ASSUME NEW op, NEW dev, NEW j, NEW D, NEW m \in Registers(D), NEW r, NEW b,
         SoundTurn(op, dev, j, D, r, b)
  PROVE  BitTurned(OpTurn(op, dev, m, j), m, op, dev, r, b, j)
<1>0. /\ op.width \in {1, 2, 4} /\ OpAccess(op, dev, j) \in Nat
      /\ op.values[j].value \subseteq op.values[j].mask
      /\ r \in D /\ r \in Nat /\ b \in 0 .. 7
  BY DEF SoundTurn
<1>1. PICK a : a = OpAccess(op, dev, j)
  OBVIOUS
<1>2. PICK w \in {1, 2, 4} : w = op.width
  BY <1>0
<1>3. PICK v : v = op.values[j]
  OBVIOUS
<1>4. PICK x : x = NewValue(m, a, w, v)
  OBVIOUS
<1>5. DOMAIN m = D
  BY DEF Registers
<1>6. OpTurn(op, dev, m, j) =
        [q \in D |-> IF q \in a .. a + w - 1 THEN {c \in 0 .. 7 : 8 * (q - a) + c \in x} ELSE m[q]]
  BY <1>1, <1>2, <1>3, <1>4, <1>5, Zenon DEF OpTurn, WriteReg
<1>7. CASE r \in a .. a + w - 1
  <2>1. OpTurn(op, dev, m, j)[r] = {c \in 0 .. 7 : 8 * (r - a) + c \in x}
    BY <1>0, <1>6, <1>7
  <2>2. b \in OpTurn(op, dev, m, j)[r] <=> BitNr(r, a, b) \in x
    BY <1>0, <2>1 DEF BitNr
  <2>3. BitNr(r, a, b) \in x <=> IF BitNr(r, a, b) \in v.mask THEN BitNr(r, a, b) \in v.value ELSE b \in m[r]
    <3>1. a \in Nat /\ v.value \subseteq v.mask
      BY <1>0, <1>1, <1>3
    <3>2. BitRight(BitNr(r, a, b), NewValue(m, a, w, v), v, b \in m[r])
      BY <1>0, <1>7, <3>1, NewValueIs
    <3>3. QED
      BY <1>4, <3>2 DEF BitRight
  <2>4. Hits(op, dev, r, b, j) <=> BitNr(r, a, b) \in v.mask
    BY <1>1, <1>2, <1>3, <1>7 DEF Hits
  <2>5. Puts(op, dev, r, b, j) <=> BitNr(r, a, b) \in v.value
    BY <1>1, <1>3 DEF Puts
  <2>6. QED
    BY <2>2, <2>3, <2>4, <2>5 DEF BitTurned
<1>8. CASE r \notin a .. a + w - 1
  <2>1. OpTurn(op, dev, m, j)[r] = m[r]
    BY <1>0, <1>6, <1>8
  <2>2. ~Hits(op, dev, r, b, j)
    BY <1>1, <1>2, <1>8 DEF Hits
  <2>3. QED
    BY <2>1, <2>2 DEF BitTurned
<1>9. QED
  BY <1>7, <1>8

\* Two values are for different registers.
LEMMA HitsOnce ==
  ASSUME NEW op, op.width \in {1, 2, 4}, NEW dev, OpAddress(op, dev) \in Nat, NEW r, NEW b,
         NEW j \in Nat \ {0}, NEW k \in Nat \ {0}, Hits(op, dev, r, b, j), Hits(op, dev, r, b, k)
  PROVE  j = k
<1>1. PICK a \in Nat : a = OpAddress(op, dev)
  OBVIOUS
<1>2. PICK w \in {1, 2, 4} : w = op.width
  OBVIOUS
<1>3. r \in a + w * (j - 1) .. (a + w * (j - 1)) + w - 1 /\ r \in a + w * (k - 1) .. (a + w * (k - 1)) + w - 1
  BY <1>1, <1>2 DEF Hits, OpAccess
<1>4. CASE w = 1
  BY <1>3, <1>4
<1>5. CASE w = 2
  BY <1>3, <1>5
<1>6. CASE w = 4
  BY <1>3, <1>6
<1>7. QED
  BY <1>4, <1>5, <1>6

\* A set counted by an increasing function has as many elements.
LEMMA CountedSet ==
  ASSUME NEW n \in Nat, NEW S, NEW f \in [1 .. n -> S],
         \A s \in S : \E i \in 1 .. n : f[i] = s,
         \A i \in 1 .. n : \A j \in 1 .. n : f[i] = f[j] => i = j
  PROVE  Cardinality(S) = n
<1>1. f \in Bijection(1 .. n, S)
  BY DEF Bijection, Injection, Surjection, IsInjective
<1>2. ExistsBijection(1 .. n, S)
  BY <1>1 DEF ExistsBijection
<1>3. QED
  BY <1>2, FS_CountingElements

\* All values set bits under their masks only.
ValuesMasked(op, n) == \A j \in 1 .. n : op.values[j].value \subseteq op.values[j].mask

\* A bit of m, where some of the first i values were written.
BitLeft(m, i, op, dev, mem, r, b) ==
  b \in m[r] <=>
    IF \E j \in 1 .. i : Hits(op, dev, r, b, j)
    THEN \A j \in 1 .. i : Hits(op, dev, r, b, j) => Puts(op, dev, r, b, j)
    ELSE b \in mem[r]

\* What this asks of an operation, the registers and the bit.
SoundBit(op, dev, n, D, r, b) ==
  /\ op.width \in {1, 2, 4} /\ OpAddress(op, dev) \in Nat
  /\ ValuesMasked(op, n)
  /\ r \in D /\ r \in Nat /\ b \in 0 .. 7

\* One value more.
LEMMA BitStays ==
  ASSUME NEW op, NEW dev, NEW n \in Nat, NEW D, NEW mem, NEW r, NEW b,
         SoundBit(op, dev, n, D, r, b), NEW i \in 1 .. n,
         NEW m \in Registers(D), BitLeft(m, i - 1, op, dev, mem, r, b),
         NEW t, t = OpTurn(op, dev, m, i)
  PROVE  BitLeft(t, i, op, dev, mem, r, b)
<1>0. /\ op.width \in {1, 2, 4} /\ OpAddress(op, dev) \in Nat
      /\ ValuesMasked(op, n)
      /\ r \in D /\ r \in Nat /\ b \in 0 .. 7
  BY DEF SoundBit
<1>1. OpAccess(op, dev, i) \in Nat
  <2>1. PICK a \in Nat : a = OpAddress(op, dev)
    BY <1>0
  <2>2. PICK w \in Nat : w = op.width
    BY <1>0
  <2>3. PICK k \in Nat : k = i - 1
    OBVIOUS
  <2>4. a + w * k \in Nat
    OBVIOUS
  <2>5. QED
    BY <2>1, <2>2, <2>3, <2>4 DEF OpAccess
<1>2. op.values[i].value \subseteq op.values[i].mask
  BY <1>0 DEF ValuesMasked
<1>3. b \in t[r] <=> IF Hits(op, dev, r, b, i) THEN Puts(op, dev, r, b, i) ELSE b \in m[r]
  <2>1. SoundTurn(op, dev, i, D, r, b)
    BY <1>0, <1>1, <1>2 DEF SoundTurn
  <2>2. BitTurned(t, m, op, dev, r, b, i)
    BY <2>1, TurnBit
  <2>3. QED
    BY <2>2 DEF BitTurned
<1> DEFINE H(j) == Hits(op, dev, r, b, j)
           P(j) == Puts(op, dev, r, b, j)
<1>4. ASSUME NEW j \in 1 .. i, H(i), H(j) PROVE j = i
  <2>1. j \in Nat \ {0} /\ i \in Nat \ {0}
    OBVIOUS
  <2>2. QED
    BY <1>0, <1>4, <2>1, HitsOnce
<1>5. \A j \in 1 .. i : j = i \/ j \in 1 .. (i - 1)
  OBVIOUS
<1>6. \A j \in 1 .. (i - 1) : j \in 1 .. i
  OBVIOUS
<1>7. i \in 1 .. i
  OBVIOUS
<1>8. b \in m[r] <=> IF \E j \in 1 .. (i - 1) : H(j) THEN \A j \in 1 .. (i - 1) : H(j) => P(j) ELSE b \in mem[r]
  BY DEF BitLeft
<1> HIDE DEF H, P
<1>9. CASE H(i)
  <2>1. b \in t[r] <=> P(i)
    BY <1>3, <1>9 DEF H, P
  <2>2. (\A j \in 1 .. i : H(j) => P(j)) <=> P(i)
    BY <1>4, <1>7, <1>9
  <2>3. b \in t[r] <=> IF \E j \in 1 .. i : H(j) THEN \A j \in 1 .. i : H(j) => P(j) ELSE b \in mem[r]
    BY <1>7, <1>9, <2>1, <2>2
  <2>4. QED
    BY <2>3 DEF BitLeft, H, P
<1>10. CASE ~H(i)
  <2>1. b \in t[r] <=> b \in m[r]
    BY <1>3, <1>10 DEF H, P
  <2>2. (\E j \in 1 .. i : H(j)) <=> \E j \in 1 .. (i - 1) : H(j)
    BY <1>5, <1>6, <1>10
  <2>3. (\A j \in 1 .. i : H(j) => P(j)) <=> \A j \in 1 .. (i - 1) : H(j) => P(j)
    BY <1>5, <1>6, <1>10
  <2>4. b \in t[r] <=> IF \E j \in 1 .. i : H(j) THEN \A j \in 1 .. i : H(j) => P(j) ELSE b \in mem[r]
    BY <1>8, <2>1, <2>2, <2>3
  <2>5. QED
    BY <2>4 DEF BitLeft, H, P
<1>11. QED
  BY <1>9, <1>10

\* So it is after all of them.
LEMMA BitsLeft ==
  ASSUME NEW op, NEW dev, NEW n \in Nat, DOMAIN op.values = 1 .. n, NEW D,
         NEW mem \in Registers(D), NEW r, NEW b, SoundBit(op, dev, n, D, r, b)
  PROVE  BitLeft(OpLeaves(op, dev, mem), n, op, dev, mem, r, b)
<1>1. PICK R \in [0 .. n -> Registers(D)] : Turned(R, n, op, dev, mem) /\ R[n] = OpLeaves(op, dev, mem)
  <2>1. HasTurns(n, op, dev, D, mem)
    BY LeavesAre
  <2>2. QED
    BY <2>1 DEF HasTurns
<1> DEFINE S == {i \in 0 .. n : BitLeft(R[i], i, op, dev, mem, r, b)}
<1>2. 0 \in S
  <2>1. R[0] = mem
    BY <1>1 DEF Turned
  <2>2. ~\E j \in 1 .. 0 : TRUE
    OBVIOUS
  <2>3. BitLeft(R[0], 0, op, dev, mem, r, b)
    BY <2>1, <2>2 DEF BitLeft
  <2>4. QED
    BY <2>3
<1>3. ASSUME NEW i \in 1 .. n, i - 1 \in S PROVE i \in S
  <2>1. PICK m \in Registers(D) : m = R[i - 1]
    OBVIOUS
  <2>2. BitLeft(m, i - 1, op, dev, mem, r, b)
    BY <1>3, <2>1
  <2>3. PICK t : t = OpTurn(op, dev, m, i)
    OBVIOUS
  <2>4. R[i] = t
    BY <1>1, <2>1, <2>3 DEF Turned
  <2>5. BitLeft(t, i, op, dev, mem, r, b)
    BY <2>2, <2>3, BitStays
  <2>6. QED
    BY <2>4, <2>5
<1>4. n \in S
  <2> HIDE DEF S
  <2>1. 0 .. n \subseteq S
    BY <1>2, <1>3, UpToInduct
  <2>2. QED
    BY <2>1
<1>5. QED
  BY <1>1, <1>4

\* The accesses of the first n values, and how many there are up to one.
IsReach(reach, op, dev, n) == reach = {OpAccess(op, dev, j) : j \in 1 .. n}

\* So many are not above one.
RankIs(reach, a, j) == Cardinality({c \in reach : c <= a}) = j

\* The accesses below one are those of the values before it.
LEMMA AccessRank ==
  ASSUME NEW op, op.width \in {1, 2, 4}, NEW dev, OpAddress(op, dev) \in Nat,
         NEW n \in Nat, NEW reach, IsReach(reach, op, dev, n), NEW j \in 1 .. n
  PROVE  RankIs(reach, OpAccess(op, dev, j), j)
<1>1. PICK a \in Nat : a = OpAddress(op, dev)
  OBVIOUS
<1>2. PICK w \in {1, 2, 4} : w = op.width
  OBVIOUS
<1>3. PICK at : at = [i \in 1 .. n |-> a + w * (i - 1)]
  OBVIOUS
<1>4. \A i \in 1 .. n : OpAccess(op, dev, i) = at[i]
  BY <1>1, <1>2, <1>3 DEF OpAccess
<1>5. \A i, k \in 1 .. n : at[i] <= at[k] <=> i <= k
  <2>1. SUFFICES ASSUME NEW i \in 1 .. n, NEW k \in 1 .. n PROVE at[i] <= at[k] <=> i <= k
    OBVIOUS
  <2>2. at[i] = a + w * (i - 1) /\ at[k] = a + w * (k - 1)
    BY <1>3
  <2>3. a + w * (i - 1) <= a + w * (k - 1) <=> i <= k
    <3>1. CASE w = 1
      BY <3>1
    <3>2. CASE w = 2
      BY <3>2
    <3>3. CASE w = 4
      BY <3>3
    <3>4. QED
      BY <3>1, <3>2, <3>3
  <2>4. QED
    BY <2>2, <2>3
<1>6. PICK S : S = {c \in reach : c <= at[j]}
  OBVIOUS
<1>7. \A i \in 1 .. j : i \in 1 .. n
  OBVIOUS
<1>8. PICK f : f = [i \in 1 .. j |-> at[i]]
  OBVIOUS
<1>9. f \in [1 .. j -> S]
  <2>1. ASSUME NEW i \in 1 .. j PROVE at[i] \in S
    <3>1. i \in 1 .. n /\ i <= j
      BY <1>7
    <3>2. QED
      BY <1>4, <1>5, <1>6, <3>1 DEF IsReach
  <2>2. QED
    BY <1>8, <2>1
<1>10. ASSUME NEW s \in S PROVE \E i \in 1 .. j : f[i] = s
  <2>1. PICK i \in 1 .. n : s = at[i]
    BY <1>4, <1>6 DEF IsReach
  <2>2. i <= j
    BY <1>5, <1>6, <2>1
  <2>3. i \in 1 .. j
    BY <2>2
  <2>4. QED
    BY <1>8, <2>1, <2>3
<1>11. ASSUME NEW i \in 1 .. j, NEW k \in 1 .. j, f[i] = f[k] PROVE i = k
  <2>1. at[i] = at[k] /\ i \in 1 .. n /\ k \in 1 .. n
    BY <1>7, <1>8, <1>11
  <2>2. at[i] \in Nat
    <3>1. PICK z \in Nat : z = i - 1
      OBVIOUS
    <3>2. w \in Nat
      BY <1>2
    <3>3. a + w * z \in Nat
      BY <3>2
    <3>4. QED
      BY <1>3, <2>1, <3>1, <3>3
  <2>3. i <= k /\ k <= i
    BY <1>5, <2>1, <2>2
  <2>4. QED
    BY <2>3
<1>12. Cardinality(S) = j
  BY <1>9, <1>10, <1>11, CountedSet
<1>13. QED
  BY <1>4, <1>6, <1>12 DEF RankIs

(***************************************************************************)
(* The arguments of setpci: filters and operations, group by group.        *)
(***************************************************************************)

\* parse_filter.
ParseArg(f, arg) == IF arg.kind = "s" THEN ParseSlot(f, arg.text) ELSE ParseId(f, arg.text)

\* Groups of operations in O.
GroupOf(O) == [filter : [Field -> Int], ops : Seq(O)]

\* Where parse_ops is.
ParseState(O) == [groups : Seq(GroupOf(O)), error : BOOLEAN]

\* What it does with an argument.
ParseTurn(s, arg) ==
  IF s.error THEN s ELSE IF arg.kind = "op" THEN AddOp(s, arg) ELSE AddFilter(s, arg)

\* The last group gets one more operation.
OpJoins(after, before, op) ==
  /\ Len(before) # 0 /\ Len(after) = Len(before)
  /\ \A g \in 1 .. Len(before) - 1 : after[g] = before[g]
  /\ after[Len(before)].filter = before[Len(before)].filter
  /\ after[Len(before)].ops = Append(before[Len(before)].ops, op)

\* A group without operations narrows its filter; after others a new one begins.
FilterNarrows(after, before, arg) ==
  /\ Len(before) # 0 /\ Len(after) = Len(before)
  /\ before[Len(before)].ops = <<>>
  /\ \A g \in 1 .. Len(before) - 1 : after[g] = before[g]
  /\ after[Len(before)].filter = ParseArg(before[Len(before)].filter, arg).filter
  /\ after[Len(before)].ops = <<>>

\* After a group with operations, or first of all, a new one begins.
GroupBegins(after, before, arg) ==
  /\ Len(after) = Len(before) + 1
  /\ Len(before) # 0 => before[Len(before)].ops # <<>>
  /\ \A g \in 1 .. Len(before) : after[g] = before[g]
  /\ after[Len(after)].filter = ParseArg(AnyDevice, arg).filter
  /\ after[Len(after)].ops = <<>>

\* A sequence of groups with another last one.
LEMMA LastChanged ==
  ASSUME NEW G, NEW before \in Seq(G), NEW n, n = Len(before), n # 0, NEW e \in G,
         NEW after, after = [before EXCEPT ![n] = e]
  PROVE  /\ after \in Seq(G) /\ Len(after) = n /\ after[n] = e
         /\ \A g \in 1 .. n - 1 : after[g] = before[g]
OBVIOUS

\* A group with another part.
LEMMA GroupChanged ==
  ASSUME NEW F, NEW S, NEW old \in [filter : F, ops : S], NEW f, NEW ops
  PROVE  /\ [old EXCEPT !.filter = f] = [filter |-> f, ops |-> old.ops]
         /\ [old EXCEPT !.ops = ops] = [filter |-> old.filter, ops |-> ops]
OBVIOUS

\* What AddOp and AddFilter do.
LEMMA OpAdded ==
  ASSUME NEW O, NEW s \in ParseState(O), NEW arg, ParseOp(arg.text).op \in O,
         NEW t, t = AddOp(s, arg)
  PROVE  /\ t \in ParseState(O)
         /\ ~t.error => OpJoins(t.groups, s.groups, ParseOp(arg.text).op)
<1>1. PICK r : r = ParseOp(arg.text)
  OBVIOUS
<1>2. PICK G : G = GroupOf(O)
  OBVIOUS
<1>3. PICK before \in Seq(G) : before = s.groups
  BY <1>2 DEF ParseState
<1>4. CASE before = <<>> \/ r.error
  <2>1. t = [s EXCEPT !.error = TRUE]
    BY <1>1, <1>3, <1>4 DEF AddOp
  <2>2. t \in ParseState(O) /\ t.error
    BY <2>1 DEF ParseState
  <2>3. QED
    BY <2>2
<1>5. CASE ~(before = <<>> \/ r.error)
  <2>1. PICK n \in Nat : n = Len(before)
    OBVIOUS
  <2>2. n # 0
    BY <1>5, <2>1
  <2>3. PICK old \in G : old = before[n]
    BY <2>1, <2>2
  <2>4. old.filter \in [Field -> Int] /\ old.ops \in Seq(O)
    BY <1>2, <2>3 DEF GroupOf
  <2>5. PICK ops \in Seq(O) : ops = Append(old.ops, r.op)
    <3>1. PICK x \in Seq(O) : x = old.ops
      BY <2>4
    <3>2. PICK o \in O : o = r.op
      BY <1>1
    <3>3. Append(x, o) \in Seq(O)
      OBVIOUS
    <3>4. QED
      BY <3>1, <3>2, <3>3
  <2>6. PICK e \in G : e = [filter |-> old.filter, ops |-> ops]
    <3>1. [filter |-> old.filter, ops |-> ops] \in G
      BY <1>2, <2>4 DEF GroupOf
    <3>2. QED
      BY <3>1
  <2>7. [old EXCEPT !.ops = ops] = e
    <3>1. old \in [filter : [Field -> Int], ops : Seq(O)]
      BY <1>2, <2>3 DEF GroupOf
    <3>2. [old EXCEPT !.ops = ops] = [filter |-> old.filter, ops |-> ops]
      BY <3>1, GroupChanged
    <3>3. QED
      BY <2>6, <3>2
  <2>8. PICK after : after = [before EXCEPT ![n] = e]
    OBVIOUS
  <2>9. /\ after \in Seq(G) /\ Len(after) = n /\ after[n] = e
        /\ \A g \in 1 .. n - 1 : after[g] = before[g]
    BY <2>1, <2>2, <2>8, LastChanged
  <2>10. t = [s EXCEPT !.groups[Len(s.groups)].ops = Append(s.groups[Len(s.groups)].ops, r.op)]
    BY <1>1, <1>3, <1>5 DEF AddOp
  <2>11. t = [s EXCEPT !.groups = after]
    <3>1. t = [s EXCEPT !.groups = [s.groups EXCEPT ![Len(s.groups)] =
                 [s.groups[Len(s.groups)] EXCEPT !.ops = Append(s.groups[Len(s.groups)].ops, r.op)]]]
      BY <2>10
    <3>2. QED
      BY <3>1, <1>3, <2>1, <2>3, <2>5, <2>7, <2>8
  <2>12. t.groups = after /\ t.error = s.error
    BY <2>11 DEF ParseState
  <2>13. t \in ParseState(O)
    BY <1>2, <2>9, <2>11 DEF ParseState
  <2>14. OpJoins(after, before, r.op)
    <3>1. after[n].filter = before[n].filter /\ after[n].ops = Append(before[n].ops, r.op)
      BY <2>3, <2>5, <2>6, <2>9
    <3>2. QED
      BY <2>1, <2>2, <2>9, <3>1 DEF OpJoins
  <2>15. QED
    BY <1>1, <1>3, <2>12, <2>13, <2>14
<1>6. QED
  BY <1>4, <1>5

\* Where parse_ops begins, and where it is after each argument.
ParseStart == [groups |-> <<>>, error |-> FALSE]

\* parse_ops, argument by argument,
ParseTurns(R, n, args) == R[0] = ParseStart /\ \A i \in 1 .. n : R[i] = ParseTurn(R[i - 1], args[i])

\* and what it returns.
Parsed(st, last) == st = [last EXCEPT !.error = @ \/ last.groups = <<>>]

\* It comes about that way.
HasParseTurns(n, args, O) ==
  \E R \in [0 .. n -> ParseState(O)] : ParseTurns(R, n, args) /\ Parsed(ParseOps(args), R[n])

\* An operation has a sequence of values.
HasValues(op) == \E k \in Nat : DOMAIN op.values = 1 .. k

\* It leaves registers; whether it dies does not depend on them.
LEMMA ExecLeaves ==
  ASSUME NEW op, HasValues(op), NEW dev, NEW D, NEW m \in Registers(D), NEW demo, NEW r,
         r = ExecOp(op, dev, m, demo)
  PROVE  r.mem \in Registers(D) /\ r.died \in BOOLEAN /\ (r.died <=> OpDies(op, dev))
<1>1. CASE OpDies(op, dev)
  <2>1. DeadResult(ExecOp(op, dev, m, demo), m)
    BY <1>1, ExecIs
  <2>2. QED
    BY <1>1, <2>1 DEF DeadResult
<1>2. CASE ~OpDies(op, dev)
  <2>1. RunResult(ExecOp(op, dev, m, demo), op, dev, m, demo)
    BY <1>2, ExecIs
  <2>2. r.died = FALSE /\ r.mem = IF demo THEN m ELSE OpLeaves(op, dev, m)
    BY <2>1 DEF RunResult
  <2>3. PICK k \in Nat : DOMAIN op.values = 1 .. k
    BY DEF HasValues
  <2>4. HasTurns(k, op, dev, D, m)
    BY <2>3, LeavesAre
  <2>5. OpLeaves(op, dev, m) \in Registers(D)
    <3>1. PICK R \in [0 .. k -> Registers(D)] : R[k] = OpLeaves(op, dev, m)
      BY <2>4 DEF HasTurns
    <3>2. R[k] \in Registers(D)
      OBVIOUS
    <3>3. QED
      BY <3>1, <3>2
  <2>6. QED
    BY <1>2, <2>2, <2>5
<1>3. QED
  BY <1>1, <1>2

\* The operations of a command line.
OpAt(args, i) == ParseOp(args[i].text).op

\* All of them have values.
OpsHaveValues(args) == \A i \in 1 .. Len(args) : HasValues(OpAt(args, i))

\* What is parsed has values, if none.
LEMMA ParsedHasValues ==
  ASSUME NEW text, text \in Seq(ToSet(text))
  PROVE  HasValues(ParseOp(text).op)
<1>1. PICK U : U = ToSet(text)
  OBVIOUS
<1>2. PICK T : T = U \cup OpSeps
  OBVIOUS
<1>3. text \in Seq(T)
  <2>1. text \in Seq(U)
    BY <1>1
  <2>2. QED
    BY <1>2, <2>1
<1>4. OpSeps \subseteq T
  BY <1>2
<1>5. PICK r : r = ParseOp(text)
  OBVIOUS
<1>6. \/ r = RefusedOp
      \/ r.error = FALSE /\ \E n \in Nat : FitsSpace(r.op, n)
  BY <1>3, <1>4, <1>5, ParsedFits
<1>7. CASE r = RefusedOp
  <2>1. r.op.values = <<>>
    BY <1>7 DEF RefusedOp, NoOp
  <2>2. DOMAIN <<>> = 1 .. 0
    OBVIOUS
  <2>3. DOMAIN r.op.values = 1 .. 0
    BY <2>1, <2>2
  <2>4. QED
    BY <1>5, <2>3 DEF HasValues
<1>8. CASE r # RefusedOp
  <2>1. PICK n \in Nat : FitsSpace(r.op, n)
    BY <1>6, <1>8
  <2>2. DOMAIN r.op.values = 1 .. n
    BY <2>1 DEF FitsSpace
  <2>3. QED
    BY <1>5, <2>2 DEF HasValues
<1>9. QED
  BY <1>7, <1>8
=============================================================================
