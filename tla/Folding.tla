------------------------------ MODULE Folding ------------------------------
(***************************************************************************)
(* What a fold over a sequence computes: the last of the values that lead  *)
(* from one element to the next.  The fold of the community modules is a   *)
(* recursive function over sets of numbers, so that this takes a proof.    *)
(***************************************************************************)
EXTENDS Naturals, Sequences, Folds, WellFoundedInduction, TLAPS

CONSTANTS
    Op(_, _),   \* what is folded
    Values,     \* over values
    Elements    \* and the elements of sequences

Greatest(S) == CHOOSE x \in S : \A y \in S : x >= y
Folded(x, s) == MapThenFoldSet(LAMBDA a, b : Op(b, a), x, LAMBDA i : s[i], LAMBDA S : Greatest(S), DOMAIN s)

IsClosed == \A v \in Values, e \in Elements : Op(v, e) \in Values

-----------------------------------------------------------------------------
(* Numbers from zero on, and what is computed along them.                  *)

LEMMA LeastIs ==
    ASSUME NEW S, S \subseteq Nat, S # {}
    PROVE  \E n \in S : \A m \in S : n <= m
<1> DEFINE R == OpToRel(<, Nat)
<1>1. IsWellFoundedOn(R, Nat)
  BY NatLessThanWellFounded
<1>2. \A x, y \in Nat : <<y, x>> \in R <=> y < x
  BY DEF OpToRel
<1> HIDE DEF R
<1>3. PICK n \in S : \A m \in S : ~(<<m, n>> \in R)
  BY <1>1, WFMin
<1>4. \A m \in S : ~(m < n)
  BY <1>2, <1>3
<1>5. \A m \in S : n <= m
  BY <1>4
<1> QED BY <1>5

\* What holds at zero and goes on from one number to the next holds as far as the numbers go.
LEMMA GoesOn ==
    ASSUME NEW n \in Nat, NEW K, 0 \in K, \A k \in 1 .. n : k - 1 \in K => k \in K
    PROVE  \A k \in 0 .. n : k \in K
<1> DEFINE left == {k \in 0 .. n : k \notin K}
<1>1. SUFFICES ASSUME left # {} PROVE FALSE
  OBVIOUS
<1>2. left \subseteq Nat
  OBVIOUS
<1>3. PICK k \in left : \A m \in left : k <= m
  <2> HIDE DEF left
  <2> QED BY <1>1, <1>2, LeastIs
<1>4. k \in 1 .. n /\ k - 1 \in 0 .. n /\ ~(k <= k - 1)
  BY <1>3
<1>5. k - 1 \in K
  BY <1>3, <1>4
<1> QED BY <1>3, <1>4, <1>5

LEMMA Segment ==
    ASSUME NEW n \in Nat, NEW k \in 1 .. n
    PROVE  /\ Greatest(1 .. k) = k
           /\ (1 .. k) \ {k} = 1 .. (k - 1)
           /\ 1 .. k \in SUBSET (1 .. n)
           /\ 1 .. k # {}
<1>1. k \in 1 .. k /\ \A y \in 1 .. k : k >= y
  OBVIOUS
<1>2. \A x \in 1 .. k : (\A y \in 1 .. k : x >= y) => x = k
  OBVIOUS
<1>3. Greatest(1 .. k) = k
  BY <1>1, <1>2 DEF Greatest
<1>4. (1 .. k) \ {k} = 1 .. (k - 1)
  OBVIOUS
<1>5. 1 .. k \in SUBSET (1 .. n)
  OBVIOUS
<1> QED BY <1>1, <1>3, <1>4, <1>5

\* A fold of the community modules has a value: its function over the sets of numbers exists.
LEMMA GreatestIsIn ==
    ASSUME NEW n \in Nat, NEW t \in SUBSET (1 .. n), t # {}
    PROVE  Greatest(t) \in t /\ \A y \in t : y <= Greatest(t)
<1> DEFINE above == {k \in 0 .. n : \A y \in t : y <= k}
<1>1. n \in above
  OBVIOUS
<1>2. PICK k \in above : \A m \in above : k <= m
  <2>1. above \subseteq Nat /\ above # {}
    BY <1>1
  <2> HIDE DEF above
  <2> QED BY <2>1, LeastIs
<1>3. k \in t
  <2> SUFFICES ASSUME k \notin t PROVE FALSE
    OBVIOUS
  <2>1. \A y \in t : y \in 1 .. n /\ y <= k /\ y # k
    BY <1>2
  <2>2. PICK y \in t : TRUE
    OBVIOUS
  <2>3. k \in Nat /\ k - 1 \in 0 .. n
    BY <1>2, <2>1, <2>2
  <2>4. \A z \in t : z <= k - 1
    BY <2>1, <2>3
  <2>5. k - 1 \in above
    BY <2>3, <2>4
  <2>6. k <= k - 1
    BY <1>2, <2>5
  <2> QED BY <2>3, <2>6
<1>4. k \in t /\ \A y \in t : k >= y
  BY <1>2, <1>3
<1>5. Greatest(t) \in t /\ \A y \in t : Greatest(t) >= y
  BY <1>4 DEF Greatest
<1> QED BY <1>5

FoldOver(n, S, x, g, h) ==
    h = [t \in SUBSET (1 .. n) |-> IF t = {} THEN x ELSE g[Greatest(t)][h[t \ {Greatest(t)}]]]

LEMMA FoldExists ==
    ASSUME NEW n \in Nat, NEW S, NEW x \in S, NEW g \in [1 .. n -> [S -> S]]
    PROVE  \E h \in [SUBSET (1 .. n) -> S] : FoldOver(n, S, x, g, h)
<1> DEFINE K == {k \in 0 .. n : \E h \in [SUBSET (1 .. k) -> S] : FoldOver(k, S, x, g, h)}
<1>1. 0 \in K
  <2> DEFINE h == [t \in SUBSET (1 .. 0) |-> x]
  <2>1. \A t \in SUBSET (1 .. 0) : t = {}
    OBVIOUS
  <2>2. h = [t \in SUBSET (1 .. 0) |-> IF t = {} THEN x ELSE g[Greatest(t)][h[t \ {Greatest(t)}]]]
    BY <2>1
  <2>3. h \in [SUBSET (1 .. 0) -> S]
    OBVIOUS
  <2> HIDE DEF h
  <2>4. FoldOver(0, S, x, g, h)
    BY <2>2 DEF FoldOver
  <2>5. \E e \in [SUBSET (1 .. 0) -> S] : FoldOver(0, S, x, g, e)
    BY <2>3, <2>4
  <2>6. 0 \in 0 .. n
    OBVIOUS
  <2> QED BY <2>5, <2>6
<1>2. ASSUME NEW k \in 1 .. n, k - 1 \in K PROVE k \in K
  <2>1. PICK e \in [SUBSET (1 .. (k - 1)) -> S] : FoldOver(k - 1, S, x, g, e)
    BY <1>2
  <2> DEFINE h == [t \in SUBSET (1 .. k) |-> IF k \in t THEN g[k][e[t \ {k}]] ELSE e[t]]
  <2>2. k \in Nat /\ 1 .. (k - 1) \subseteq 1 .. k
    OBVIOUS
  <2>3. \A t \in SUBSET (1 .. k) : t \ {k} \in SUBSET (1 .. (k - 1)) /\ (k \notin t => t \in SUBSET (1 .. (k - 1)))
    <3> TAKE t \in SUBSET (1 .. k)
    <3>1. \A y \in t : y # k => y \in 1 .. (k - 1)
      OBVIOUS
    <3> QED BY <3>1
  <2>4. g[k] \in [S -> S]
    OBVIOUS
  <2>5. h \in [SUBSET (1 .. k) -> S]
    BY <2>3, <2>4
  <2>6. ASSUME NEW t \in SUBSET (1 .. k), t # {}
        PROVE  h[t] = g[Greatest(t)][h[t \ {Greatest(t)}]]
    <3>1. Greatest(t) \in t /\ \A y \in t : y <= Greatest(t)
      BY <2>2, <2>6, GreatestIsIn
    <3>2. CASE k \in t
      <4>1. Greatest(t) = k
        <5>1. Greatest(t) \in 1 .. k /\ k <= Greatest(t)
          BY <3>1, <3>2
        <5>2. \A m \in 1 .. k : k <= m => m = k
          BY <2>2
        <5> HIDE DEF h, K
        <5> QED BY <5>1, <5>2
      <4>2. t \ {k} \in SUBSET (1 .. k) /\ k \notin t \ {k}
        OBVIOUS
      <4>3. h[t \ {k}] = e[t \ {k}]
        BY <4>2
      <4> QED BY <3>2, <4>1, <4>3
    <3>3. CASE k \notin t
      <4>1. t \in SUBSET (1 .. (k - 1)) /\ t \ {Greatest(t)} \in SUBSET (1 .. (k - 1)) /\ t \ {Greatest(t)} \in SUBSET (1 .. k)
        BY <2>3, <3>3
      <4>2. h[t] = e[t] /\ h[t \ {Greatest(t)}] = e[t \ {Greatest(t)}]
        BY <3>3, <4>1
      <4>3. e[t] = g[Greatest(t)][e[t \ {Greatest(t)}]]
        BY <2>1, <2>6, <4>1 DEF FoldOver
      <4> QED BY <4>2, <4>3
    <3> QED BY <3>2, <3>3
  <2>7. h[{}] = x
    <3>1. e[{}] = x
      BY <2>1 DEF FoldOver
    <3> QED BY <3>1
  <2>8. h = [t \in SUBSET (1 .. k) |-> IF t = {} THEN x ELSE g[Greatest(t)][h[t \ {Greatest(t)}]]]
    <3>1. h = [t \in SUBSET (1 .. k) |-> h[t]]
      OBVIOUS
    <3> HIDE DEF h
    <3> QED BY <2>6, <2>7, <3>1
  <2> HIDE DEF h
  <2>9. FoldOver(k, S, x, g, h)
    BY <2>8 DEF FoldOver
  <2> QED BY <2>5, <2>9
<1> HIDE DEF K
<1>3. \A k \in 0 .. n : k \in K
  BY <1>1, <1>2, GoesOn
<1>4. n \in K
  BY <1>3
<1> QED BY <1>4 DEF K


-----------------------------------------------------------------------------
(* The values a fold goes through.                                         *)

Leads(r, x, s) == r[0] = x /\ \A k \in 1 .. Len(s) : r[k] = Op(r[k - 1], s[k])

\* A fold ends with the last of values each of which comes from the one before and the next element, like the variable of a
\* loop over bytes, words or parts (crc64_little, crc64_big, crc64_combine).
THEOREM FoldRuns ==
    ASSUME IsClosed, NEW s \in Seq(Elements), NEW x \in Values
    PROVE  \E r \in [0 .. Len(s) -> Values] : Leads(r, x, s) /\ Folded(x, s) = r[Len(s)]
<1> DEFINE n == Len(s)
           g == [k \in 1 .. n |-> [v \in Values |-> Op(v, s[k])]]
           E(f) == f = [t \in SUBSET DOMAIN s |-> IF t = {} THEN x ELSE Op(f[t \ {Greatest(t)}], s[Greatest(t)])]
<1>1. n \in Nat /\ DOMAIN s = 1 .. n /\ \A k \in 1 .. n : s[k] \in Elements
  OBVIOUS
<1>2. g \in [1 .. n -> [Values -> Values]]
  BY <1>1 DEF IsClosed
<1>3. PICK h \in [SUBSET (1 .. n) -> Values] : FoldOver(n, Values, x, g, h)
  <2> HIDE DEF n, g
  <2> QED BY <1>1, <1>2, FoldExists
<1>4. E(h)
  <2>1. \A t \in SUBSET (1 .. n) : t # {} => h[t] = Op(h[t \ {Greatest(t)}], s[Greatest(t)])
    <3> SUFFICES ASSUME NEW t \in SUBSET (1 .. n), t # {} PROVE h[t] = Op(h[t \ {Greatest(t)}], s[Greatest(t)])
      OBVIOUS
    <3> HIDE DEF n
    <3>1. Greatest(t) \in 1 .. n
      BY <1>1, GreatestIsIn
    <3>2. t \ {Greatest(t)} \in SUBSET (1 .. n)
      OBVIOUS
    <3>3. h[t \ {Greatest(t)}] \in Values
      BY <3>2
    <3>4. h[t] = g[Greatest(t)][h[t \ {Greatest(t)}]]
      BY <1>3 DEF FoldOver
    <3> QED BY <3>1, <3>3, <3>4
  <2>2. h[{}] = x
    BY <1>3 DEF FoldOver
  <2>3. h = [t \in SUBSET (1 .. n) |-> h[t]]
    OBVIOUS
  <2> HIDE DEF n, g
  <2>4. h = [t \in SUBSET (1 .. n) |-> IF t = {} THEN x ELSE Op(h[t \ {Greatest(t)}], s[Greatest(t)])]
    BY <2>1, <2>2, <2>3
  <2> QED BY <2>4, <1>1
<1> DEFINE f == CHOOSE f : E(f)
<1>5. Folded(x, s) = f[DOMAIN s]
  BY DEF Folded, MapThenFoldSet
<1>6. E(f)
  <2> HIDE DEF E
  <2> QED BY <1>4
<1> HIDE DEF f, g
<1>7. f[{}] = x /\ \A k \in 1 .. n : f[1 .. k] = Op(f[1 .. (k - 1)], s[k])
  <2>1. f[{}] = x
    BY <1>6
  <2>2. ASSUME NEW k \in 1 .. n PROVE f[1 .. k] = Op(f[1 .. (k - 1)], s[k])
    <3> HIDE DEF n
    <3>1. /\ Greatest(1 .. k) = k /\ (1 .. k) \ {k} = 1 .. (k - 1)
          /\ 1 .. k \in SUBSET (1 .. n) /\ 1 .. k # {}
      BY <1>1, Segment
    <3> DEFINE t == 1 .. k
    <3>2. t \in SUBSET DOMAIN s /\ t # {} /\ Greatest(t) = k /\ t \ {k} = 1 .. (k - 1)
      BY <1>1, <3>1
    <3> HIDE DEF t
    <3>3. f[t] = Op(f[t \ {Greatest(t)}], s[Greatest(t)])
      BY <1>6, <3>2
    <3>4. f[t] = Op(f[1 .. (k - 1)], s[k])
      BY <3>2, <3>3
    <3> QED BY <3>4 DEF t
  <2> QED BY <2>1, <2>2
<1> HIDE DEF E, n
<1> DEFINE r == [k \in 0 .. n |-> f[1 .. k]]
<1>8. r[0] = x /\ \A k \in 1 .. n : r[k] = Op(r[k - 1], s[k])
  <2>1. 0 \in 0 .. n /\ 1 .. 0 = {}
    BY <1>1
  <2>2. r[0] = x
    BY <2>1, <1>7
  <2>3. \A k \in 1 .. n : k \in 0 .. n /\ k - 1 \in 0 .. n
    BY <1>1
  <2> QED BY <2>2, <2>3, <1>7
<1> DEFINE K == {k \in 0 .. n : r[k] \in Values}
<1>9. \A k \in 0 .. n : k \in K
  <2>1. 0 \in K
    BY <1>1, <1>8
  <2>2. \A k \in 1 .. n : k - 1 \in K => k \in K
    <3> SUFFICES ASSUME NEW k \in 1 .. n, k - 1 \in K PROVE k \in K
      OBVIOUS
    <3>1. k \in 0 .. n /\ r[k - 1] \in Values
      BY <1>1
    <3>2. r[k] = Op(r[k - 1], s[k]) /\ s[k] \in Elements
      BY <1>1, <1>8
    <3>3. r[k] \in Values
      <4> HIDE DEF r
      <4> QED BY <3>1, <3>2 DEF IsClosed
    <3> QED BY <3>1, <3>3
  <2> HIDE DEF K
  <2> QED BY <1>1, <2>1, <2>2, GoesOn
<1>10. r \in [0 .. n -> Values]
  <2>1. \A k \in 0 .. n : r[k] \in Values
    BY <1>9
  <2>2. r = [k \in 0 .. n |-> r[k]]
    OBVIOUS
  <2> HIDE DEF r
  <2> QED BY <2>1, <2>2
<1>11. Folded(x, s) = r[n]
  BY <1>1, <1>5
<1> HIDE DEF r
<1> QED BY <1>8, <1>10, <1>11 DEF n, Leads

\* There is only one such sequence of values, so whoever knows one knows what such a loop computes.
THEOREM FoldIs ==
    ASSUME IsClosed, NEW s \in Seq(Elements), NEW x \in Values, NEW r, Leads(r, x, s)
    PROVE  Folded(x, s) = r[Len(s)]
<1>1. PICK q \in [0 .. Len(s) -> Values] : Leads(q, x, s) /\ Folded(x, s) = q[Len(s)]
  BY FoldRuns
<1> DEFINE n == Len(s)
           K == {k \in 0 .. n : q[k] = r[k]}
<1>2. n \in Nat
  OBVIOUS
<1> HIDE DEF n
<1>3. \A k \in 0 .. n : k \in K
  <2>1. 0 \in K
    BY <1>1, <1>2 DEF Leads
  <2>2. \A k \in 1 .. n : k - 1 \in K => k \in K
    BY <1>1, <1>2 DEF Leads, n
  <2> HIDE DEF K
  <2> QED BY <1>2, <2>1, <2>2, GoesOn
<1> QED BY <1>1, <1>2, <1>3 DEF n

\* The variable of the loop keeps its type.
THEOREM FoldIsValue ==
    ASSUME IsClosed, NEW s \in Seq(Elements), NEW x \in Values
    PROVE  Folded(x, s) \in Values
<1>1. PICK r \in [0 .. Len(s) -> Values] : Folded(x, s) = r[Len(s)]
  BY FoldRuns
<1>2. Len(s) \in 0 .. Len(s)
  OBVIOUS
<1> QED BY <1>1, <1>2

\* The values that lead over a sequence lead over every piece of it: a loop may be stopped and gone on with.
THEOREM FoldOfPiece ==
    ASSUME IsClosed, NEW s \in Seq(Elements), NEW x \in Values,
           NEW r \in [0 .. Len(s) -> Values], Leads(r, x, s),
           NEW i \in 0 .. Len(s), NEW j \in i .. Len(s)
    PROVE  Folded(r[i], SubSeq(s, i + 1, j)) = r[j]
<1> DEFINE p == SubSeq(s, i + 1, j)
           q == [k \in 0 .. j - i |-> r[i + k]]
<1>1. Len(s) \in Nat /\ i \in Nat /\ j \in Nat /\ i <= j /\ j <= Len(s) /\ j - i \in Nat
  OBVIOUS
<1>2. \A k \in i + 1 .. j : s[k] \in Elements
  OBVIOUS
<1>3. p \in Seq(Elements) /\ Len(p) = j - i /\ \A k \in 1 .. j - i : p[k] = s[i + k]
  <2>1. p \in Seq(Elements) /\ Len(p) = j - i
    OBVIOUS
  <2>2. \A k \in 1 .. j - i : p[k] = s[i + k]
    OBVIOUS
  <2> QED BY <2>1, <2>2
<1> HIDE DEF p
<1>4. Leads(q, r[i], p)
  <2>1. q[0] = r[i]
    BY <1>1
  <2>2. \A k \in 1 .. j - i : q[k] = Op(q[k - 1], p[k])
    <3> SUFFICES ASSUME NEW k \in 1 .. j - i PROVE q[k] = Op(q[k - 1], p[k])
      OBVIOUS
    <3>1. i + k \in 1 .. Len(s) /\ i + (k - 1) = (i + k) - 1 /\ k \in 0 .. j - i /\ k - 1 \in 0 .. j - i
      BY <1>1
    <3>2. r[i + k] = Op(r[(i + k) - 1], s[i + k])
      BY <3>1 DEF Leads
    <3>3. q[k] = r[i + k] /\ q[k - 1] = r[(i + k) - 1]
      BY <3>1
    <3> QED BY <3>2, <3>3, <1>3
  <2> QED BY <1>3, <2>1, <2>2 DEF Leads
<1>5. r[i] \in Values
  OBVIOUS
<1>6. Folded(r[i], p) = q[Len(p)]
  <2> HIDE DEF q
  <2> QED BY <1>3, <1>4, <1>5, FoldIs
<1>7. q[j - i] = r[j]
  BY <1>1
<1> HIDE DEF q
<1> QED BY <1>3, <1>6, <1>7 DEF p

\* A loop over nothing leaves its variable as it was.
THEOREM FoldOfNone ==
    ASSUME IsClosed, NEW s \in Seq(Elements), Len(s) = 0, NEW x \in Values
    PROVE  Folded(x, s) = x
<1>1. PICK r \in [0 .. Len(s) -> Values] : Leads(r, x, s) /\ Folded(x, s) = r[Len(s)]
  BY FoldRuns
<1> QED BY <1>1 DEF Leads

\* Folding over numbers is doing something so many times, like a loop that counts (crc64_init).
THEOREM FoldOfNumbers ==
    ASSUME IsClosed, Nat \subseteq Elements, NEW n \in Nat, NEW x \in Values
    PROVE  /\ Folded(x, [i \in 1 .. 0 |-> i]) = x
           /\ Folded(x, [i \in 1 .. n |-> i]) \in Values
           /\ Folded(x, [i \in 1 .. n + 1 |-> i]) = Op(Folded(x, [i \in 1 .. n |-> i]), n + 1)
<1> DEFINE none == [i \in 1 .. 0 |-> i]
           s == [i \in 1 .. n |-> i]
           t == [i \in 1 .. n + 1 |-> i]
<1>1. none \in Seq(Elements) /\ Len(none) = 0
  <2>1. none \in [1 .. 0 -> Elements]
    OBVIOUS
  <2> QED BY <2>1
<1>2. s \in Seq(Elements) /\ Len(s) = n /\ \A i \in 1 .. n : s[i] = i
  <2>1. s \in [1 .. n -> Elements]
    OBVIOUS
  <2> QED BY <2>1
<1>3. t \in Seq(Elements) /\ Len(t) = n + 1 /\ \A i \in 1 .. n + 1 : t[i] = i
  <2>1. t \in [1 .. n + 1 -> Elements]
    OBVIOUS
  <2> QED BY <2>1
<1> HIDE DEF none, s, t
<1>4. SubSeq(t, 0 + 1, n) = s
  <2>1. SubSeq(t, 1, n) \in Seq(Elements) /\ Len(SubSeq(t, 1, n)) = n /\ \A i \in 1 .. n : SubSeq(t, 1, n)[i] = s[i]
    BY <1>2, <1>3
  <2> QED BY <1>2, <2>1
<1>5. PICK r \in [0 .. Len(t) -> Values] : Leads(r, x, t) /\ Folded(x, t) = r[Len(t)]
  BY <1>3, FoldRuns
<1>6. 0 \in 0 .. Len(t) /\ n \in 0 .. Len(t) /\ n + 1 \in 1 .. Len(t) /\ (n + 1) - 1 = n
  BY <1>3
<1>7. Folded(r[0], SubSeq(t, 0 + 1, n)) = r[n]
  BY <1>3, <1>5, <1>6, FoldOfPiece
<1>8. r[0] = x /\ r[n + 1] = Op(r[n], n + 1)
  BY <1>3, <1>5, <1>6 DEF Leads
<1>9. Folded(x, s) = r[n] /\ Folded(x, t) = r[n + 1] /\ r[n] \in Values
  BY <1>3, <1>4, <1>5, <1>6, <1>7, <1>8
<1>10. Folded(x, none) = x
  BY <1>1, FoldOfNone
<1>11. Folded(x, s) \in Values /\ Folded(x, t) = Op(Folded(x, s), n + 1)
  BY <1>8, <1>9
<1> QED BY <1>10, <1>11 DEF none, s, t
=============================================================================
