----------------------------- MODULE Interpol8_proofs -----------------------------
(* Proofs about interpol8.Raw, for time series of every length, at all times and    *)
(* for every query: what it adds up over pairs of points is the sum over the units   *)
(* of time.                                                                         *)
EXTENDS Pure_proofs

-----------------------------------------------------------------------------
(* Extremes, quotients and sums.                                           *)

LEMMA MinOf ==
  ASSUME NEW S \in SUBSET Int, S # {}, NEW b \in Int, \A x \in S : b <= x
  PROVE  Min(S) \in S /\ \A x \in S : Min(S) <= x
<1> DEFINE N == {n \in Nat : b + n \in S}
<1>1. PICK n \in N : \A k \in N : n <= k
  <2>1. PICK x \in S : x \in Int
    OBVIOUS
  <2>2. x - b \in N
    BY <2>1
  <2>3. N \in SUBSET Nat /\ N # {}
    BY <2>2
  <2> HIDE DEF N
  <2>4. QED
    BY <2>3, LeastElement
<1>2. b + n \in S /\ \A x \in S : b + n <= x
  <2>1. ASSUME NEW x \in S PROVE b + n <= x
    <3>1. x \in Int /\ x - b \in N
      OBVIOUS
    <3>2. n <= x - b /\ n \in Nat
      BY <1>1, <3>1
    <3>3. QED
      BY <3>1, <3>2
  <2>2. QED
    BY <2>1
<1> HIDE DEF N
<1> DEFINE P(y) == y \in S /\ \A x \in S : y <= x
<1>3. P(b + n)
  BY <1>2
<1>4. Min(S) = CHOOSE y : P(y)
  BY DEF Min
<1> HIDE DEF P
<1>5. P(Min(S))
  BY <1>3, <1>4, Zenon
<1>6. QED
  BY <1>5 DEF P

LEMMA MaxOf ==
  ASSUME NEW S \in SUBSET Int, S # {}, NEW b \in Int, \A x \in S : x <= b
  PROVE  Max(S) \in S /\ \A x \in S : x <= Max(S)
<1> DEFINE N == {n \in Nat : b - n \in S}
<1>1. PICK n \in N : \A k \in N : n <= k
  <2>1. PICK x \in S : x \in Int
    OBVIOUS
  <2>2. b - x \in N
    <3>1. b - x \in Nat /\ b - (b - x) = x
      BY <2>1
    <3>2. QED
      BY <3>1
  <2>3. N \in SUBSET Nat /\ N # {}
    BY <2>2
  <2> HIDE DEF N
  <2>4. QED
    BY <2>3, LeastElement
<1>2. b - n \in S /\ \A x \in S : b - n >= x
  <2>1. ASSUME NEW x \in S PROVE b - n >= x
    <3>1. x \in Int /\ b - x \in Nat /\ b - (b - x) = x
      OBVIOUS
    <3>2. b - x \in N
      BY <3>1
    <3>3. n <= b - x /\ n \in Nat
      BY <1>1, <3>2
    <3>4. QED
      BY <3>1, <3>3
  <2>2. QED
    BY <2>1
<1> HIDE DEF N
<1> DEFINE P(y) == y \in S /\ \A x \in S : y >= x
<1>3. P(b - n)
  BY <1>2
<1>4. Max(S) = CHOOSE y : P(y)
  BY DEF Max
<1> HIDE DEF P
<1>5. P(Max(S))
  BY <1>3, <1>4, Zenon
<1>6. \A x \in S : Max(S) >= x /\ Max(S) \in Int /\ x \in Int
  BY <1>5 DEF P
<1>7. QED
  BY <1>5, <1>6 DEF P

\* Sets that reach as far have the same extremes.
LEMMA SameMin ==
  ASSUME NEW A \in SUBSET Int, NEW B \in SUBSET Int, A # {}, A \subseteq B,
         NEW b \in Int, \A x \in B : b <= x, \A x \in B : \E y \in A : y <= x
  PROVE  Min(A) = Min(B)
<1>1. Min(A) \in A /\ \A x \in A : Min(A) <= x
  <2>1. \A x \in A : b <= x
    OBVIOUS
  <2>2. QED
    BY <2>1, MinOf
<1>2. Min(B) \in B /\ \A x \in B : Min(B) <= x
  <2>1. B # {}
    OBVIOUS
  <2>2. QED
    BY <2>1, MinOf
<1>3. Min(B) <= Min(A)
  BY <1>1, <1>2
<1>4. PICK y \in A : y <= Min(B)
  BY <1>2
<1>5. Min(A) <= y
  BY <1>1
<1>6. Min(A) \in Int /\ Min(B) \in Int /\ y \in Int
  BY <1>1, <1>2
<1>7. QED
  BY <1>3, <1>4, <1>5, <1>6

LEMMA SameMax ==
  ASSUME NEW A \in SUBSET Int, NEW B \in SUBSET Int, A # {}, A \subseteq B,
         NEW b \in Int, \A x \in B : x <= b, \A x \in B : \E y \in A : x <= y
  PROVE  Max(A) = Max(B)
<1>1. Max(A) \in A /\ \A x \in A : x <= Max(A)
  <2>1. \A x \in A : x <= b
    OBVIOUS
  <2>2. QED
    BY <2>1, MaxOf
<1>2. Max(B) \in B /\ \A x \in B : x <= Max(B)
  <2>1. B # {}
    OBVIOUS
  <2>2. QED
    BY <2>1, MaxOf
<1>3. Max(A) <= Max(B)
  BY <1>1, <1>2
<1>4. PICK y \in A : Max(B) <= y
  BY <1>2
<1>5. y <= Max(A)
  BY <1>1
<1>6. Max(A) \in Int /\ Max(B) \in Int /\ y \in Int
  BY <1>1, <1>2
<1>7. QED
  BY <1>3, <1>4, <1>5, <1>6

LEMMA Divides ==
  ASSUME NEW d \in Nat \ {0}, NEW k \in Int
  PROVE  (d * k) \div d = k
<1>1. PICK x \in Int : x = d * k
  OBVIOUS
<1>2. x % d \in 0 .. d - 1 /\ x \div d \in Int /\ x = d * (x \div d) + (x % d)
  OBVIOUS
<1>3. PICK q \in Int, r \in 0 .. d - 1 : q = x \div d /\ r = x % d /\ d * k = d * q + r
  BY <1>1, <1>2
<1>4. CASE q < k
  <2>1. d * (q + 1) <= d * k /\ d * (q + 1) = d * q + d
    BY <1>4
  <2>2. QED
    BY <1>3, <2>1
<1>5. CASE k < q
  <2>1. d * (k + 1) <= d * q /\ d * (k + 1) = d * k + d
    BY <1>5
  <2>2. QED
    BY <1>3, <2>1
<1>6. QED
  BY <1>1, <1>3, <1>4, <1>5

\* The sums of the first elements, whose last one is Total.
Adds(s, f, a, b) ==
  s \in [a - 1 .. b -> Int] /\ s[a - 1] = 0 /\ \A x \in a .. b : s[x] = s[x - 1] + f[x]

LEMMA PrefixSums ==
  ASSUME NEW f, NEW a \in Int, NEW b \in Int, a - 1 <= b, \A x \in a .. b : f[x] \in Int
  PROVE  \E s : Adds(s, f, a, b) /\ Total(f, a, b) = s[b]
<1> DEFINE m == b - a + 1
           F == [n \in 1 .. m |-> [y \in Int |-> y + f[n + a - 1]]]
<1>1. m \in Nat /\ \A n \in 1 .. m : n + a - 1 \in a .. b
  OBVIOUS
<1>2. F \in [1 .. m -> [Int -> Int]]
  BY <1>1
<1>3. PICK h \in [0 .. m -> Int] : h[0] = 0 /\ \A n \in 1 .. m : h[n] = F[n][h[n - 1]]
  <2>1. PICK S, z : S = Int /\ z = 0
    OBVIOUS
  <2>2. z \in S /\ F \in [1 .. m -> [S -> S]] /\ m \in Nat
    BY <1>1, <1>2, <2>1
  <2> HIDE DEF m, F
  <2>3. \E h \in [0 .. m -> S] : h[0] = z /\ \A n \in 1 .. m : h[n] = F[n][h[n - 1]]
    BY <2>2, Iterated
  <2>4. QED
    BY <2>1, <2>3
<1>4. \A n \in 1 .. m : h[n] = h[n - 1] + f[n + a - 1]
  <2>1. \A n \in 1 .. m : h[n - 1] \in Int
    <3>1. \A n \in 1 .. m : n - 1 \in 0 .. m
      OBVIOUS
    <3> HIDE DEF m
    <3>2. QED
      BY <3>1
  <2>2. QED
    BY <1>3, <2>1
<1> DEFINE g == [x \in a - 1 .. b |-> h[x - a + 1]]
           Equation(s) == s = [x \in a - 1 .. b |-> IF x < a THEN 0 ELSE s[x - 1] + f[x]]
           sum == CHOOSE s : Equation(s)
<1>5. \A x \in a - 1 .. b : x - a + 1 \in 0 .. m /\ g[x] = h[x - a + 1]
  OBVIOUS
<1>6. g[a - 1] = 0
  <2>1. a - 1 - a + 1 = 0 /\ a - 1 \in a - 1 .. b
    OBVIOUS
  <2> HIDE DEF g
  <2>2. QED
    BY <1>3, <1>5, <2>1
<1>7. ASSUME NEW x \in a .. b PROVE g[x] = g[x - 1] + f[x]
  <2>1. PICK n \in 1 .. m : n = x - a + 1 /\ n - 1 = x - 1 - a + 1 /\ n + a - 1 = x
    OBVIOUS
  <2>2. x \in a - 1 .. b /\ x - 1 \in a - 1 .. b
    OBVIOUS
  <2>3. g[x] = h[n] /\ g[x - 1] = h[n - 1]
    BY <1>5, <2>1, <2>2
  <2> HIDE DEF g
  <2>4. QED
    BY <1>4, <2>1, <2>3
<1>8. Equation(g)
  <2>1. g = [x \in a - 1 .. b |-> g[x]]
    OBVIOUS
  <2>2. \A x \in a - 1 .. b : x < a => x = a - 1
    OBVIOUS
  <2>3. \A x \in a - 1 .. b : ~ (x < a) => x \in a .. b
    OBVIOUS
  <2> HIDE DEF g, m
  <2>4. \A x \in a - 1 .. b : g[x] = IF x < a THEN 0 ELSE g[x - 1] + f[x]
    BY <1>6, <1>7, <2>2, <2>3
  <2>5. QED
    BY <2>1, <2>4
<1>9. Total(f, a, b) = sum[b]
  BY DEF Total
<1> HIDE DEF Equation
<1>10. Equation(sum)
  BY <1>8, Zenon
<1> HIDE DEF sum, g, F, m
<1>11. sum = [x \in a - 1 .. b |-> IF x < a THEN 0 ELSE sum[x - 1] + f[x]]
  BY <1>10 DEF Equation
<1>12. \A x \in a - 1 .. b : sum[x] = IF x < a THEN 0 ELSE sum[x - 1] + f[x]
  BY <1>11
<1>13. sum[a - 1] = 0
  <2>1. a - 1 \in a - 1 .. b /\ a - 1 < a
    OBVIOUS
  <2>2. QED
    BY <1>12, <2>1
<1>14. \A x \in a .. b : sum[x] = sum[x - 1] + f[x]
  <2>1. \A x \in a .. b : x \in a - 1 .. b /\ ~ (x < a)
    OBVIOUS
  <2>2. QED
    BY <1>12, <2>1
<1> DEFINE I == {n \in 0 .. m : sum[n + a - 1] \in Int}
<1>15. \A x \in a - 1 .. b : sum[x] \in Int
  <2>0. m = b - a + 1
    BY DEF m
  <2>1. 0 \in I
    <3>1. 0 + a - 1 = a - 1 /\ 0 \in 0 .. m
      BY <1>1
    <3>2. QED
      BY <1>13, <3>1
  <2>2. ASSUME NEW n \in 0 .. m - 1, n \in I PROVE n + 1 \in I
    <3>1. PICK x \in a .. b : x = n + 1 + a - 1 /\ x - 1 = n + a - 1
      BY <2>0
    <3>2. sum[x - 1] \in Int /\ f[x] \in Int
      BY <2>2, <3>1
    <3>3. sum[x] \in Int
      BY <1>14, <3>2
    <3>4. n + 1 \in 0 .. m
      BY <1>1
    <3>5. QED
      BY <3>1, <3>3, <3>4
  <2> HIDE DEF I
  <2>3. \A n \in 0 .. m : n \in I
    BY <1>1, <2>1, <2>2, AllUpTo
  <2>4. ASSUME NEW x \in a - 1 .. b PROVE sum[x] \in Int
    <3>1. PICK n \in 0 .. m : n = x - a + 1 /\ n + a - 1 = x
      BY <2>0
    <3>2. QED
      BY <2>3, <3>1 DEF I
  <2>5. QED
    BY <2>4
<1>16. Adds(sum, f, a, b)
  <2>1. sum \in [a - 1 .. b -> Int]
    BY <1>11, <1>15
  <2>2. QED
    BY <1>13, <1>14, <2>1 DEF Adds
<1>17. QED
  BY <1>9, <1>16

\* Any function with the same first value and the same steps is the sum.
LEMMA SumsTo ==
  ASSUME NEW U, NEW g, NEW a \in Int, NEW b \in Int, Adds(U, g, a, b),
         NEW c \in a - 1 .. b, NEW d \in c .. b,
         NEW W, W[c] = U[c], \A x \in c + 1 .. d : W[x] = W[x - 1] + g[x]
  PROVE  U[d] = W[d]
<1> DEFINE m == d - c
           T == {n \in 0 .. m : U[c + n] = W[c + n]}
<1>1. m \in Nat /\ c + m = d /\ c \in Int /\ d \in Int
  OBVIOUS
<1>2. 0 \in T
  <2>1. c + 0 = c
    OBVIOUS
  <2>2. QED
    BY <1>1, <2>1
<1>3. ASSUME NEW n \in 0 .. m - 1, n \in T PROVE n + 1 \in T
  <2>1. PICK x \in c + 1 .. d : x = c + (n + 1) /\ x - 1 = c + n /\ x \in a .. b
    OBVIOUS
  <2>2. U[x] = U[x - 1] + g[x]
    BY <2>1 DEF Adds
  <2>3. W[x] = W[x - 1] + g[x] /\ W[x - 1] = U[x - 1]
    BY <1>3, <2>1
  <2>4. n + 1 \in 0 .. m
    OBVIOUS
  <2>5. QED
    BY <2>1, <2>2, <2>3, <2>4
<1> HIDE DEF T, m
<1>4. m \in T
  <2>1. \A n \in 0 .. m : n \in T
    BY <1>1, <1>2, <1>3, AllUpTo
  <2>2. QED
    BY <1>1, <2>1
<1>5. QED
  BY <1>1, <1>4 DEF T

\* The sum over pairs of points is the sum over the units of time between them, if the
\* pair x is for those from B[x - 1] up to B[x].
LEMMA SumOfPieces ==
  ASSUME NEW P, NEW f, NEW from \in Int, NEW j \in Int, from - 1 <= j, Adds(P, f, from, j),
         NEW U, NEW g, NEW ts \in Int, NEW te \in Int, ts <= te, Adds(U, g, ts, te - 1),
         NEW B, U[B[from - 1] - 1] = 0, U[B[j] - 1] = U[te - 1],
         \A x \in from .. j : U[B[x] - 1] = U[B[x - 1] - 1] + f[x]
  PROVE  P[j] = U[te - 1]
<1> DEFINE W == [x \in from - 1 .. j |-> U[B[x] - 1]]
<1>1. W[from - 1] = P[from - 1]
  <2>1. from - 1 \in from - 1 .. j
    OBVIOUS
  <2>2. W[from - 1] = 0
    BY <2>1
  <2>3. QED
    BY <2>2 DEF Adds
<1>2. ASSUME NEW x \in from - 1 + 1 .. j PROVE W[x] = W[x - 1] + f[x]
  <2>1. x \in from .. j /\ x \in from - 1 .. j /\ x - 1 \in from - 1 .. j
    OBVIOUS
  <2>2. W[x] = U[B[x] - 1] /\ W[x - 1] = U[B[x - 1] - 1]
    BY <2>1
  <2> HIDE DEF W
  <2>3. QED
    BY <2>1, <2>2
<1>3. W[j] = U[te - 1] /\ from - 1 \in from - 1 .. j /\ j \in from - 1 .. j
  OBVIOUS
<1> HIDE DEF W
<1>4. P[j] = W[j]
  BY <1>1, <1>2, <1>3, SumsTo
<1>5. QED
  BY <1>3, <1>4

\* The same summand in each unit from c to e.
Same(g, c, e, s) == \A u \in c .. e - 1 : g[u] = s

LEMMA ConstantSum ==
  ASSUME NEW U, NEW g, NEW ts \in Int, NEW te \in Int, Adds(U, g, ts, te - 1),
         NEW c \in ts .. te, NEW e \in c .. te, NEW s \in Int,
         Same(g, c, e, s)
  PROVE  U[e - 1] = U[c - 1] + (e - c) * s
<1> DEFINE W == [x \in c - 1 .. e - 1 |-> U[c - 1] + (x + 1 - c) * s]
<1>1. U[c - 1] \in Int
  <2>1. c - 1 \in ts - 1 .. te - 1
    OBVIOUS
  <2>2. QED
    BY <2>1 DEF Adds
<1>2. W[c - 1] = U[c - 1]
  <2>1. c - 1 \in c - 1 .. e - 1 /\ c - 1 + 1 - c = 0
    OBVIOUS
  <2>2. QED
    BY <1>1, <2>1
<1>3. ASSUME NEW x \in c - 1 + 1 .. e - 1 PROVE W[x] = W[x - 1] + g[x]
  <2>1. x \in c - 1 .. e - 1 /\ x - 1 \in c - 1 .. e - 1 /\ x \in c .. e - 1
    OBVIOUS
  <2>2. W[x] = U[c - 1] + (x + 1 - c) * s /\ W[x - 1] = U[c - 1] + (x - 1 + 1 - c) * s
    BY <2>1
  <2>3. PICK k \in Int : k = x - c /\ x + 1 - c = k + 1 /\ x - 1 + 1 - c = k
    OBVIOUS
  <2>4. (k + 1) * s = k * s + s
    OBVIOUS
  <2>5. g[x] = s
    BY <2>1 DEF Same
  <2> HIDE DEF W
  <2>6. QED
    BY <1>1, <2>2, <2>3, <2>4, <2>5
<1>4. W[e - 1] = U[c - 1] + (e - c) * s
  <2>1. e - 1 \in c - 1 .. e - 1 /\ e - 1 + 1 - c = e - c
    OBVIOUS
  <2>2. QED
    BY <2>1
<1> HIDE DEF W
<1>5. c - 1 \in ts - 1 .. te - 1 /\ e - 1 \in c - 1 .. te - 1 /\ te - 1 \in Int
  OBVIOUS
<1>6. U[e - 1] = W[e - 1]
  BY <1>2, <1>3, <1>5, SumsTo
<1>7. QED
  BY <1>4, <1>6

\* Twice the integral of a line with slope s and value y at time t, over each unit.
Linear(g, c, e, y, t, s) ==
  \A u \in c .. e - 1 : g[u] = (y + (u - t) * s) + (y + (u + 1 - t) * s)

LEMMA LineSum ==
  ASSUME NEW U, NEW g, NEW ts \in Int, NEW te \in Int, Adds(U, g, ts, te - 1),
         NEW c \in ts .. te, NEW e \in c .. te, NEW y \in Int, NEW t \in Int, NEW s \in Int,
         Linear(g, c, e, y, t, s)
  PROVE  U[e - 1] = U[c - 1] + (e - c) * ((y + (c - t) * s) + (y + (e - t) * s))
<1> DEFINE L(n) == (n - c) * ((y + (c - t) * s) + (y + (n - t) * s))
           W == [x \in c - 1 .. e - 1 |-> U[c - 1] + L(x + 1)]
<1>1. U[c - 1] \in Int
  <2>1. c - 1 \in ts - 1 .. te - 1
    OBVIOUS
  <2>2. QED
    BY <2>1 DEF Adds
<1>2. W[c - 1] = U[c - 1]
  <2>1. c - 1 \in c - 1 .. e - 1 /\ c - 1 + 1 = c
    OBVIOUS
  <2>2. L(c) = 0
    OBVIOUS
  <2> HIDE DEF L
  <2>3. QED
    BY <1>1, <2>1, <2>2
<1>3. ASSUME NEW n \in Int
      PROVE  L(n) \in Int /\ L(n + 1) = L(n) + ((y + (n - t) * s) + (y + (n + 1 - t) * s))
  <2>1. PICK k \in Int, l \in Int :
          k = n - c /\ l = c - t /\ n - t = k + l /\ n + 1 - t = k + l + 1 /\ n + 1 - c = k + 1
    OBVIOUS
  <2>2. PICK a \in Int, z \in Int : a = l * s /\ z = k * s
    OBVIOUS
  <2>3. (k + l) * s = z + a /\ (k + l + 1) * s = z + a + s
    BY <2>2
  <2>4. L(n) = k * ((y + a) + (y + (z + a)))
    BY <2>1, <2>2, <2>3
  <2>5. L(n + 1) = (k + 1) * ((y + a) + (y + (z + a + s)))
    BY <2>1, <2>2, <2>3
  <2>6. (k + 1) * ((y + a) + (y + (z + a + s)))
          = k * ((y + a) + (y + (z + a))) + k * s + ((y + a) + (y + (z + a + s)))
    OBVIOUS
  <2>7. L(n) \in Int
    BY <2>4
  <2> HIDE DEF L
  <2>8. QED
    BY <2>1, <2>2, <2>3, <2>4, <2>5, <2>6, <2>7
<1> HIDE DEF L
<1>4. ASSUME NEW x \in c - 1 + 1 .. e - 1 PROVE W[x] = W[x - 1] + g[x]
  <2>1. x \in c - 1 .. e - 1 /\ x - 1 \in c - 1 .. e - 1 /\ x \in c .. e - 1 /\ x - 1 + 1 = x
    OBVIOUS
  <2>2. W[x] = U[c - 1] + L(x + 1) /\ W[x - 1] = U[c - 1] + L(x)
    BY <2>1
  <2>3. L(x) \in Int /\ L(x + 1) = L(x) + ((y + (x - t) * s) + (y + (x + 1 - t) * s))
    <3>1. x \in Int
      BY <2>1
    <3>2. QED
      BY <1>3, <3>1
  <2>4. g[x] = (y + (x - t) * s) + (y + (x + 1 - t) * s) /\ g[x] \in Int
    BY <2>1 DEF Linear
  <2> HIDE DEF W
  <2>5. QED
    BY <1>1, <2>2, <2>3, <2>4
<1>5. W[e - 1] = U[c - 1] + L(e)
  <2>1. e - 1 \in c - 1 .. e - 1 /\ e - 1 + 1 = e
    OBVIOUS
  <2>2. QED
    BY <2>1
<1> HIDE DEF W
<1>6. c - 1 \in ts - 1 .. te - 1 /\ e - 1 \in c - 1 .. te - 1 /\ te - 1 \in Int
  OBVIOUS
<1>7. U[e - 1] = W[e - 1]
  BY <1>2, <1>4, <1>6, SumsTo
<1>8. QED
  BY <1>5, <1>7 DEF L

-----------------------------------------------------------------------------
(* A pair of points.                                                       *)

Point == [t : Times, v : Values]

SlopeOf(p, q) == (q.v - p.v) \div (q.t - p.t)

\* The time in the interval that is next to t.
Clip(t, ts, te) == IF t < ts THEN ts ELSE IF t > te THEN te ELSE t

LEMMA PointFields ==
  ASSUME NEW p \in Point
  PROVE  p.t \in Nat /\ p.v \in Int /\ p.t \in Times /\ p.v \in Values
BY PureAssumption DEF Point

LEMMA LineIs ==
  ASSUME NEW p \in Point, NEW q \in Point, p.t < q.t
  PROVE  /\ SlopeOf(p, q) \in Int /\ q.v = p.v + (q.t - p.t) * SlopeOf(p, q)
         /\ \A t \in Int : At(p, q, t) = p.v + (t - p.t) * SlopeOf(p, q)
<1>1. PICK d \in Nat \ {0}, x \in Int : d = q.t - p.t /\ x = q.v - p.v /\ x % d = 0
  <2>1. (q.v - p.v) % (q.t - p.t) = 0
    BY PointFields, ExactValues
  <2>2. q.t - p.t \in Nat \ {0} /\ q.v - p.v \in Int
    BY PointFields
  <2>3. QED
    BY <2>1, <2>2
<1>2. x \div d \in Int /\ x = d * (x \div d) + (x % d)
  OBVIOUS
<1>3. PICK s \in Int : s = SlopeOf(p, q) /\ x = d * s
  BY <1>1, <1>2 DEF SlopeOf
<1>4. ASSUME NEW t \in Int PROVE At(p, q, t) = p.v + (t - p.t) * s
  <2>1. PICK k \in Int : k = t - p.t
    BY PointFields
  <2>2. k * (d * s) = d * (k * s) /\ k * s \in Int
    OBVIOUS
  <2>3. (d * (k * s)) \div d = k * s
    BY <2>2, Divides
  <2>4. At(p, q, t) = p.v + (k * (d * s)) \div d
    BY <1>1, <1>3, <2>1 DEF At
  <2>5. QED
    BY <2>1, <2>2, <2>3, <2>4
<1>5. q.v = p.v + (q.t - p.t) * s
  <2>1. (q.t - p.t) * s = d * s /\ q.v = p.v + x
    BY <1>1, PointFields
  <2>2. QED
    BY <1>3, <2>1
<1>6. QED
  BY <1>3, <1>4, <1>5

\* The line through its own points.
LEMMA LineEnds ==
  ASSUME NEW p \in Point, NEW q \in Point, p.t < q.t
  PROVE  /\ At(p, q, p.t) = p.v /\ At(p, q, q.t) = q.v
         /\ \A t \in Int : At(p, q, t) \in Int
         /\ p.v <= q.v => 0 <= SlopeOf(p, q)
<1>1. PICK s \in Int : /\ s = SlopeOf(p, q) /\ q.v = p.v + (q.t - p.t) * s
                       /\ \A t \in Int : At(p, q, t) = p.v + (t - p.t) * s
  BY LineIs
<1>2. p.t \in Int /\ q.t \in Int /\ p.v \in Int /\ q.v \in Int
  BY PointFields
<1>3. At(p, q, p.t) = p.v
  <2>1. p.t - p.t = 0 /\ 0 * s = 0
    BY <1>2
  <2>2. QED
    BY <1>1, <1>2, <2>1
<1>4. At(p, q, q.t) = q.v
  BY <1>1, <1>2
<1>5. \A t \in Int : At(p, q, t) \in Int
  <2>1. \A t \in Int : (t - p.t) * s \in Int
    BY <1>2
  <2>2. QED
    BY <1>1, <1>2, <2>1
<1>6. p.v <= q.v => 0 <= s
  <2>1. PICK d \in Nat \ {0} : d = q.t - p.t
    BY <1>2
  <2>2. s < 0 => d * s < 0
    BY <2>1
  <2>3. QED
    BY <1>1, <1>2, <2>1, <2>2
<1>7. QED
  BY <1>1, <1>3, <1>4, <1>5, <1>6

LEMMA ClipIs ==
  ASSUME NEW ts \in Int, NEW te \in Int, ts < te, NEW t \in Int, NEW r \in Int, t <= r
  PROVE  /\ Clip(t, ts, te) \in ts .. te /\ Clip(r, ts, te) \in Clip(t, ts, te) .. te
         /\ Clip(t, ts, te) = Clip(r, ts, te) <=> t = r \/ r <= ts \/ te <= t
BY DEF Clip

\* What two points contribute to an absolute value: twice the integral of the line over
\* their part of the interval, and its ends.
LEMMA AbsolutePiece ==
  ASSUME NEW p \in Point, NEW q \in Point, p.t <= q.t,
         NEW ts \in Nat, NEW te \in Nat, ts < te, p.t <= te, ts <= q.t,
         NEW maxFill \in Nat, te - ts <= maxFill,
         NEW c, c = Clip(p.t, ts, te), NEW e, e = Clip(q.t, ts, te),
         NEW piece, piece = Piece("absolute", p, q, ts, te, maxFill)
  PROVE  IF c = e \/ q.t - p.t > maxFill THEN piece = Nothing
         ELSE /\ piece.dx = e - c /\ piece.num = (e - c) * (At(p, q, c) + At(p, q, e))
              /\ piece.vals \subseteq {At(p, q, c), At(p, q, e)}
              /\ p.t < ts => At(p, q, c) \in piece.vals
              /\ te < q.t => At(p, q, e) \in piece.vals
<1>1. p.t \in Nat /\ q.t \in Nat /\ p.v \in Int /\ q.v \in Int
  BY PointFields
<1>2. c \in ts .. te /\ e \in c .. te /\ (c = e <=> p.t = q.t \/ q.t <= ts \/ te <= p.t)
  BY <1>1 DEF Clip
<1>3. CASE c = e
  <2>1. q.t = ts \/ p.t = te \/ p.t = q.t
    BY <1>1, <1>2, <1>3
  <2>2. piece = Nothing
    BY <2>1 DEF Piece
  <2>3. QED
    BY <1>3, <2>2
<1>4. CASE c # e /\ q.t - p.t > maxFill
  <2>1. ~ (p.t >= ts /\ q.t <= te)
    BY <1>1, <1>4
  <2>2. piece = Nothing
    BY <1>4, <2>1 DEF Piece
  <2>3. QED
    BY <1>4, <2>2
<1>5. CASE c # e /\ ~ (q.t - p.t > maxFill)
  <2>1. ~ (q.t = ts \/ p.t = te \/ p.t = q.t) /\ p.t < q.t
    BY <1>1, <1>2, <1>5
  <2>2. At(p, q, p.t) = p.v /\ At(p, q, q.t) = q.v
    BY <2>1, LineEnds
  <2>3. CASE p.t >= ts /\ q.t <= te
    <3>1. c = p.t /\ e = q.t
      BY <1>1, <2>3 DEF Clip
    <3>2. piece = [dx |-> q.t - p.t, num |-> (q.t - p.t) * (p.v + q.v), vals |-> {}]
      BY <2>1, <2>3 DEF Piece, Inside, Line
    <3>3. ~ (p.t < ts) /\ ~ (te < q.t)
      BY <1>1, <2>3
    <3>4. QED
      BY <1>5, <2>2, <3>1, <3>2, <3>3
  <2>4. CASE p.t < ts /\ q.t <= te
    <3>1. c = ts /\ e = q.t /\ ~ (p.t >= ts) /\ ~ (te < q.t)
      BY <1>1, <2>4 DEF Clip
    <3>2. piece = [dx |-> q.t - ts, num |-> (q.t - ts) * (At(p, q, ts) + q.v),
                   vals |-> {At(p, q, ts)}]
      BY <1>5, <2>1, <2>4, <3>1 DEF Piece, Entering, Line
    <3>3. QED
      BY <1>5, <2>2, <3>1, <3>2
  <2>5. CASE p.t >= ts /\ q.t > te
    <3>1. c = p.t /\ e = te /\ ~ (p.t < ts) /\ ~ (q.t <= te)
      BY <1>1, <2>5 DEF Clip
    <3>2. piece = [dx |-> te - p.t, num |-> (te - p.t) * (p.v + At(p, q, te)),
                   vals |-> {At(p, q, te)}]
      BY <1>5, <2>1, <2>5, <3>1 DEF Piece, Leaving, Line
    <3>3. QED
      BY <1>5, <2>2, <3>1, <3>2
  <2>6. CASE p.t < ts /\ q.t > te
    <3>1. c = ts /\ e = te /\ ~ (p.t >= ts) /\ ~ (q.t <= te)
      BY <1>1, <2>6 DEF Clip
    <3>2. piece = [dx |-> te - ts, num |-> (te - ts) * (At(p, q, ts) + At(p, q, te)),
                   vals |-> {At(p, q, ts), At(p, q, te)}]
      BY <1>5, <2>1, <2>6, <3>1 DEF Piece, Across, Line
    <3>3. QED
      BY <1>5, <3>1, <3>2
  <2>7. QED
    BY <1>1, <2>3, <2>4, <2>5, <2>6
<1>6. QED
  BY <1>3, <1>4, <1>5

\* To the rate of a counter that is not reset.
LEMMA RatePiece ==
  ASSUME NEW p \in Point, NEW q \in Point, p.t <= q.t, p.v <= q.v,
         NEW ts \in Nat, NEW te \in Nat, ts < te, p.t <= te, ts <= q.t,
         NEW maxFill \in Nat, te - ts <= maxFill,
         NEW c, c = Clip(p.t, ts, te), NEW e, e = Clip(q.t, ts, te),
         NEW piece, piece = Piece("rate", p, q, ts, te, maxFill),
         NEW s, s = SlopeOf(p, q)
  PROVE  IF c = e \/ q.t - p.t > maxFill THEN piece = Nothing
         ELSE /\ piece.vals = {s}
              /\ IF p.t < ts /\ te < q.t
                 THEN piece.dx = q.t - p.t /\ piece.num = (q.t - p.t) * s
                 ELSE piece.dx = e - c /\ piece.num = (e - c) * s
<1>1. p.t \in Nat /\ q.t \in Nat /\ p.v \in Int /\ q.v \in Int
  BY PointFields
<1>2. c \in ts .. te /\ e \in c .. te /\ (c = e <=> p.t = q.t \/ q.t <= ts \/ te <= p.t)
  BY <1>1 DEF Clip
<1>3. CASE c = e
  <2>1. q.t = ts \/ p.t = te \/ p.t = q.t
    BY <1>1, <1>2, <1>3
  <2>2. piece = Nothing
    BY <2>1 DEF Piece
  <2>3. QED
    BY <1>3, <2>2
<1>4. CASE c # e /\ q.t - p.t > maxFill
  <2>1. ~ (p.t >= ts /\ q.t <= te)
    BY <1>1, <1>4
  <2>2. piece = Nothing
    BY <1>4, <2>1 DEF Piece
  <2>3. QED
    BY <1>4, <2>2
<1>5. CASE c # e /\ ~ (q.t - p.t > maxFill)
  <2>1. ~ (q.t = ts \/ p.t = te \/ p.t = q.t) /\ p.t < q.t
    BY <1>1, <1>2, <1>5
  <2>2. /\ s \in Nat /\ q.v = p.v + (q.t - p.t) * s
        /\ \A t \in Int : At(p, q, t) = p.v + (t - p.t) * s
    BY <2>1, LineIs, LineEnds
  <2>3. \A t \in p.t .. q.t : /\ At(p, q, t) - p.v = (t - p.t) * s /\ q.v - At(p, q, t) = (q.t - t) * s
                              /\ p.v <= At(p, q, t) /\ At(p, q, t) <= q.v
    <3>1. ASSUME NEW t \in p.t .. q.t
          PROVE  /\ At(p, q, t) - p.v = (t - p.t) * s /\ q.v - At(p, q, t) = (q.t - t) * s
                 /\ p.v <= At(p, q, t) /\ At(p, q, t) <= q.v
      <4>1. PICK k \in Nat, l \in Nat : k = t - p.t /\ l = q.t - t /\ q.t - p.t = k + l
        BY <1>1
      <4>2. PICK x \in Nat, y \in Nat : x = k * s /\ y = l * s /\ (k + l) * s = x + y
        BY <2>2
      <4>3. At(p, q, t) = p.v + x /\ q.v = p.v + (x + y)
        BY <1>1, <2>2, <4>1, <4>2
      <4>4. QED
        BY <1>1, <4>1, <4>2, <4>3
    <3>2. QED
      BY <3>1
  <2>4. CASE p.t >= ts /\ q.t <= te
    <3>1. c = p.t /\ e = q.t /\ ~ (p.t < ts)
      BY <1>1, <2>4 DEF Clip
    <3>2. piece = [dx |-> q.t - p.t, num |-> q.v - p.v, vals |-> {s}]
      BY <2>1, <2>4 DEF Piece, Inside, Counted, SlopeOf
    <3>3. q.v - p.v = (q.t - p.t) * s
      <4>1. PICK x \in Int : x = (q.t - p.t) * s
        BY <1>1, <2>2
      <4>2. QED
        BY <1>1, <2>2, <4>1
    <3>4. QED
      BY <1>5, <3>1, <3>2, <3>3
  <2>5. CASE p.t < ts /\ q.t <= te
    <3>1. c = ts /\ e = q.t /\ ~ (p.t >= ts) /\ ~ (te < q.t) /\ ts \in p.t .. q.t
      BY <1>1, <2>5 DEF Clip
    <3>2. q.v - At(p, q, ts) = (q.t - ts) * s /\ q.v >= At(p, q, ts)
      <4>1. At(p, q, ts) <= q.v /\ At(p, q, ts) \in Int
        BY <1>1, <2>1, <2>3, <3>1, LineEnds
      <4>2. QED
        BY <1>1, <2>3, <3>1, <4>1
    <3>3. piece = [dx |-> q.t - ts, num |-> q.v - At(p, q, ts), vals |-> {s}]
      BY <1>5, <2>1, <2>5, <3>1, <3>2 DEF Piece, Entering, Counted, SlopeOf
    <3>4. QED
      BY <1>5, <3>1, <3>2, <3>3
  <2>6. CASE p.t >= ts /\ q.t > te
    <3>1. c = p.t /\ e = te /\ ~ (p.t < ts) /\ ~ (q.t <= te) /\ te \in p.t .. q.t
      BY <1>1, <2>6 DEF Clip
    <3>2. At(p, q, te) - p.v = (te - p.t) * s /\ At(p, q, te) >= p.v
      <4>1. p.v <= At(p, q, te) /\ At(p, q, te) \in Int
        BY <1>1, <2>1, <2>3, <3>1, LineEnds
      <4>2. QED
        BY <1>1, <2>3, <3>1, <4>1
    <3>3. piece = [dx |-> te - p.t, num |-> At(p, q, te) - p.v, vals |-> {s}]
      BY <1>5, <2>1, <2>6, <3>1, <3>2 DEF Piece, Leaving, Counted, SlopeOf
    <3>4. QED
      BY <1>5, <3>1, <3>2, <3>3
  <2>7. CASE p.t < ts /\ q.t > te
    <3>1. ~ (p.t >= ts) /\ ~ (q.t <= te) /\ te < q.t /\ q.v >= p.v
      BY <1>1, <2>7
    <3>2. piece = [dx |-> q.t - p.t, num |-> q.v - p.v, vals |-> {s}]
      BY <1>5, <2>1, <2>7, <3>1 DEF Piece, Across, Counted, SlopeOf
    <3>3. q.v - p.v = (q.t - p.t) * s
      <4>1. PICK x \in Int : x = (q.t - p.t) * s
        BY <1>1, <2>2
      <4>2. QED
        BY <1>1, <2>2, <4>1
    <3>4. QED
      BY <1>5, <2>7, <3>1, <3>2, <3>3
  <2>8. QED
    BY <1>1, <2>4, <2>5, <2>6, <2>7
<1>6. QED
  BY <1>3, <1>4, <1>5

-----------------------------------------------------------------------------
(* The series, its slice and the points of an interval.                    *)

Series ==
  /\ raw \in Seq(Point) /\ raw # <<>>
  /\ \A x, y \in 1 .. Len(raw) : x <= y => raw[x].t <= raw[y].t

\* What has been cut off is neither in the interval nor next to it.
Slice(lo, hi, ts, te) ==
  /\ lo \in 1 .. Len(raw) /\ hi \in lo .. Len(raw)
  /\ lo > 1 => raw[lo].t <= ts
  /\ hi < Len(raw) => te < raw[hi].t

\* The points the loop of Interval goes through.
Places(lo, hi, ts, te, i, j, from) ==
  /\ i \in lo - 1 .. hi /\ \A x \in lo .. hi : raw[x].t < ts <=> x <= i
  /\ j \in i .. hi /\ \A x \in lo .. hi : raw[x].t <= te <=> x <= j
  /\ from = (IF i < lo THEN lo ELSE i) /\ from \in lo .. hi /\ from - 1 <= j

\* An interval, the part of the series that is left and the points the loop goes through.
Situation(ts, te, maxFill, lo, hi, i, j, from) ==
  /\ Series /\ ts \in Nat /\ te \in Nat /\ ts < te /\ maxFill \in Nat /\ te - ts <= maxFill
  /\ Slice(lo, hi, ts, te) /\ Places(lo, hi, ts, te, i, j, from)

LEMMA SeriesPoints ==
  ASSUME Series
  PROVE  /\ Len(raw) \in Nat \ {0}
         /\ \A x \in 1 .. Len(raw) :
              /\ raw[x] \in Point /\ raw[x].t \in Nat /\ raw[x].v \in Int
              /\ raw[x].t \in Times /\ raw[x].v \in Values
<1>1. Len(raw) \in Nat /\ Len(raw) # 0
  BY DEF Series
<1>2. \A x \in 1 .. Len(raw) : raw[x] \in Point
  BY ElementOfSeq DEF Series
<1>3. QED
  BY <1>1, <1>2, PointFields

LEMMA TrimIs ==
  ASSUME Series, NEW start \in Nat, NEW end \in Nat, NEW step \in Nat,
         NEW lo, lo = LTrim(raw, start), NEW hi, hi = RTrim(raw, lo, end, step)
  PROVE  /\ lo \in 1 .. Len(raw) /\ hi \in lo .. Len(raw)
         /\ lo > 1 => raw[lo].t <= start
         /\ hi < Len(raw) => raw[hi].t >= end + step
<1> DEFINE after == {x \in 2 .. Len(raw) : raw[x].t > start}
           before == {x \in lo + 1 .. Len(raw) - 1 : raw[x].t < end + step}
<1>1. PICK m \in Nat \ {0} : m = Len(raw)
  BY SeriesPoints
<1>2. \A x \in 1 .. m : raw[x].t \in Nat
  BY <1>1, SeriesPoints
<1>3. lo = IF after = {} THEN 1 ELSE Min(after) - 1
  BY DEF LTrim
<1>5. lo \in 1 .. m /\ (lo > 1 => raw[lo].t <= start)
  <2>1. CASE after = {}
    <3>1. lo = 1
      BY <1>3, <2>1
    <3>2. QED
      BY <1>1, <3>1
  <2>2. CASE after # {}
    <3>0. PICK b \in Int : b = 2
      OBVIOUS
    <3>1. after \in SUBSET Int /\ \A x \in after : b <= x
      BY <1>1, <3>0
    <3>2. Min(after) \in after /\ \A x \in after : Min(after) <= x
      <4> HIDE DEF after
      <4>1. QED
        BY <2>2, <3>1, MinOf
    <3>3. PICK k \in 2 .. m : k = Min(after)
      BY <1>1, <3>2
    <3>4. lo = k - 1 /\ lo \in 1 .. m /\ lo < k
      <4> HIDE DEF after
      <4>1. lo = k - 1
        BY <1>3, <2>2, <3>3
      <4>2. QED
        BY <3>3, <4>1
    <3>5. lo > 1 => lo \in 2 .. m /\ lo \notin after
      BY <3>2, <3>3, <3>4
    <3>6. lo > 1 => ~ (raw[lo].t > start)
      BY <1>1, <3>5
    <3>7. QED
      BY <1>2, <3>4, <3>6
  <2>3. QED
    BY <2>1, <2>2
<1>6. hi = IF before = {} THEN m ELSE Max(before) + 1
  BY <1>1 DEF RTrim
<1>7. hi \in lo .. m /\ (hi < m => raw[hi].t >= end + step)
  <2>1. CASE before = {}
    BY <1>5, <1>6, <2>1
  <2>2. CASE before # {}
    <3>1. m - 1 \in Int /\ before \in SUBSET Int /\ \A x \in before : x <= m - 1
      BY <1>1, <1>5
    <3>2. Max(before) \in before /\ \A x \in before : x <= Max(before)
      <4> HIDE DEF before
      <4>1. QED
        BY <2>2, <3>1, MaxOf
    <3>3. PICK k \in lo + 1 .. m - 1 : k = Max(before)
      BY <1>1, <3>2
    <3>4. hi = k + 1 /\ hi \in lo .. m /\ k < hi
      <4> HIDE DEF before
      <4>1. hi = k + 1
        BY <1>6, <2>2, <3>3
      <4>2. PICK l \in 1 .. m : l = lo
        BY <1>5
      <4>3. QED
        BY <3>3, <4>1, <4>2
    <3>5. hi < m => hi \in lo + 1 .. m - 1 /\ hi \notin before
      <4> HIDE DEF before
      <4>1. PICK l \in 1 .. m : l = lo
        BY <1>5
      <4>2. hi < m => hi \in l + 1 .. m - 1
        BY <3>3, <3>4, <4>1
      <4>3. ASSUME hi \in before PROVE FALSE
        <5>1. hi <= k
          BY <3>2, <3>3, <4>3
        <5>2. QED
          BY <3>3, <3>4, <5>1
      <4>4. QED
        BY <4>1, <4>2, <4>3
    <3>6. hi < m => ~ (raw[hi].t < end + step)
      BY <1>1, <3>5
    <3>7. raw[hi].t \in Nat
      BY <1>2, <1>5, <3>4
    <3>8. QED
      BY <3>4, <3>6, <3>7
  <2>3. QED
    BY <2>1, <2>2
<1>8. QED
  BY <1>1, <1>5, <1>7

LEMMA PlacesAre ==
  ASSUME Series, NEW ts \in Nat, NEW te \in Nat, ts < te, NEW lo, NEW hi, Slice(lo, hi, ts, te),
         NEW i, i = Max({lo - 1} \cup {x \in lo .. hi : raw[x].t < ts}),
         NEW j, j = Max({i} \cup {x \in lo .. hi : raw[x].t <= te}),
         NEW from, from = Max({lo, i})
  PROVE  Places(lo, hi, ts, te, i, j, from)
<1> DEFINE A == {lo - 1} \cup {x \in lo .. hi : raw[x].t < ts}
           B == {i} \cup {x \in lo .. hi : raw[x].t <= te}
<1>1. /\ lo \in Nat \ {0} /\ hi \in Nat /\ lo <= hi
      /\ \A x \in lo .. hi : x \in 1 .. Len(raw) /\ x \in Int
  BY SeriesPoints DEF Slice
<1>2. \A x \in lo .. hi : raw[x].t \in Nat
  BY <1>1, SeriesPoints
<1>3. \A x, y \in lo .. hi : x <= y => raw[x].t <= raw[y].t
  BY <1>1 DEF Series
<1>4. i \in A /\ \A x \in A : x <= i
  <2>1. hi \in Int /\ A \in SUBSET Int /\ A # {} /\ \A x \in A : x <= hi
    BY <1>1
  <2>2. i = Max(A)
    OBVIOUS
  <2> HIDE DEF A
  <2>3. QED
    BY <2>1, <2>2, MaxOf
<1>5. i \in lo - 1 .. hi /\ \A x \in lo .. hi : raw[x].t < ts <=> x <= i
  <2>1. i \in lo - 1 .. hi
    BY <1>1, <1>4
  <2>2. ASSUME NEW x \in lo .. hi PROVE raw[x].t < ts <=> x <= i
    <3>1. raw[x].t < ts => x <= i
      BY <1>4
    <3>2. x <= i => i \in lo .. hi /\ raw[i].t < ts
      BY <1>1, <1>4, <2>1
    <3>3. x <= i => raw[x].t <= raw[i].t
      BY <1>3, <3>2
    <3>4. QED
      BY <1>2, <3>1, <3>2, <3>3
  <2>3. QED
    BY <2>1, <2>2
<1>6. j \in B /\ \A x \in B : x <= j
  <2>1. hi \in Int /\ i \in Int /\ i <= hi
    BY <1>1, <1>5
  <2>2. B \in SUBSET Int /\ B # {} /\ \A x \in B : x <= hi
    <3>1. \A x \in B : x \in Int /\ x <= hi
      BY <1>1, <2>1
    <3>2. i \in B
      OBVIOUS
    <3> HIDE DEF B
    <3>3. QED
      BY <3>1, <3>2
  <2>3. j = Max(B)
    OBVIOUS
  <2> HIDE DEF B
  <2>4. QED
    BY <2>1, <2>2, <2>3, MaxOf
<1>7. j \in i .. hi /\ \A x \in lo .. hi : raw[x].t <= te <=> x <= j
  <2>1. j \in i .. hi
    <3>1. i <= j /\ (j = i \/ j \in lo .. hi)
      BY <1>6
    <3>2. QED
      BY <1>1, <1>5, <3>1
  <2>2. ASSUME NEW x \in lo .. hi PROVE raw[x].t <= te <=> x <= j
    <3>1. raw[x].t <= te => x <= j
      BY <1>6
    <3>2. x <= j => j \in lo .. hi /\ raw[j].t <= te
      <4>1. x <= j => j \in lo .. hi
        BY <1>1, <1>5, <2>1
      <4>2. j = i /\ j \in lo .. hi => raw[j].t < ts
        BY <1>1, <1>5
      <4>3. QED
        BY <1>2, <1>6, <4>1, <4>2
    <3>3. x <= j => raw[x].t <= raw[j].t
      BY <1>3, <3>2
    <3>4. QED
      BY <1>2, <3>1, <3>2, <3>3
  <2>3. QED
    BY <2>1, <2>2
<1>8. from = IF i < lo THEN lo ELSE i
  <2>1. PICK C : C = {lo, i}
    OBVIOUS
  <2>2. hi \in Int /\ C \in SUBSET Int /\ C # {} /\ from = Max(C) /\ \A x \in C : x <= hi
    <3>1. from = Max(C)
      BY <2>1
    <3>2. lo \in Int /\ i \in Int /\ lo <= hi /\ i <= hi /\ hi \in Int
      BY <1>1, <1>5
    <3>3. QED
      BY <2>1, <3>1, <3>2
  <2>3. from \in C /\ \A x \in C : x <= from
    BY <2>2, MaxOf
  <2>4. QED
    BY <1>1, <1>5, <2>1, <2>3
<1>9. from \in lo .. hi /\ from - 1 <= j
  BY <1>1, <1>5, <1>7, <1>8
<1>10. QED
  BY <1>5, <1>7, <1>8, <1>9 DEF Places

\* The pair of points over a unit of time.
LEMMA OverIs ==
  ASSUME Series, NEW maxFill \in Nat, NEW x \in 1 .. Len(raw) - 1, NEW u \in Nat,
         raw[x].t <= u, u < raw[x + 1].t
  PROVE  Over(u, maxFill) = IF raw[x + 1].t - raw[x].t <= maxFill THEN {x} ELSE {}
<1>1. PICK m \in Nat \ {0} : m = Len(raw)
  BY SeriesPoints
<1>2. \A y \in 1 .. m : raw[y].t \in Nat
  BY <1>1, SeriesPoints
<1>3. \A y, z \in 1 .. m : y <= z => raw[y].t <= raw[z].t
  BY <1>1 DEF Series
<1>4. ASSUME NEW y \in 1 .. m - 1, raw[y].t <= u, u < raw[y + 1].t PROVE y = x
  <2>1. x \in 1 .. m /\ x + 1 \in 1 .. m /\ y \in 1 .. m /\ y + 1 \in 1 .. m
    BY <1>1
  <2>2. x < y => raw[x + 1].t <= raw[y].t
    BY <1>3, <2>1
  <2>3. y < x => raw[y + 1].t <= raw[x].t
    BY <1>3, <2>1
  <2>4. raw[x].t \in Nat /\ raw[x + 1].t \in Nat /\ raw[y].t \in Nat /\ raw[y + 1].t \in Nat
    BY <1>2, <2>1
  <2>5. QED
    BY <1>1, <1>4, <2>2, <2>3, <2>4
<1>5. \A y : y \in Over(u, maxFill) <=>
               /\ y \in 1 .. m - 1 /\ raw[y].t <= u /\ u < raw[y + 1].t
               /\ raw[y + 1].t - raw[y].t <= maxFill
  BY <1>1 DEF Over
<1>6. \A y : y \in Over(u, maxFill) <=> y = x /\ raw[x + 1].t - raw[x].t <= maxFill
  BY <1>1, <1>4, <1>5
<1>7. QED
  BY <1>6

LEMMA UnitsOutside ==
  ASSUME Series, NEW maxFill \in Nat, NEW u \in Nat, u < raw[1].t \/ raw[Len(raw)].t <= u
  PROVE  Over(u, maxFill) = {}
<1>1. PICK m \in Nat \ {0} : m = Len(raw)
  BY SeriesPoints
<1>2. ASSUME NEW y \in 1 .. m - 1, raw[y].t <= u, u < raw[y + 1].t PROVE FALSE
  <2>1. 1 \in 1 .. m /\ m \in 1 .. m /\ y \in 1 .. m /\ y + 1 \in 1 .. m
    BY <1>1
  <2>2. raw[1].t <= raw[y].t /\ raw[y + 1].t <= raw[m].t
    BY <1>1, <2>1 DEF Series
  <2>3. /\ raw[1].t \in Nat /\ raw[y].t \in Nat /\ raw[y + 1].t \in Nat /\ raw[m].t \in Nat
    BY <1>1, <2>1, SeriesPoints
  <2>4. QED
    BY <1>1, <1>2, <2>2, <2>3
<1>3. \A y : y \notin Over(u, maxFill)
  BY <1>1, <1>2 DEF Over
<1>4. QED
  BY <1>3

-----------------------------------------------------------------------------
(* The sum over an interval.                                               *)

\* What is added up for each unit of time: nothing if it is not known.
OfKnown(g, ts, te, maxFill) ==
  \A u \in ts .. te - 1 : g[u] \in Int /\ (u \notin Known(ts, te, maxFill) => g[u] = 0)

\* U and f grow in step: pair x adds f[x].
InStep(U, f, ts, te, hi, from, j) ==
  /\ \A x \in from .. j : f[x] \in Int
  /\ j = hi => f[hi] = 0
  /\ \A x \in from .. j :
       x < hi => U[Clip(raw[x + 1].t, ts, te) - 1] = U[Clip(raw[x].t, ts, te) - 1] + f[x]

\* The loop adds up what each unit of time has, if each pair adds what its units have.
LEMMA IntervalSum ==
  ASSUME NEW ts \in Nat, NEW te \in Nat, NEW maxFill \in Nat,
         NEW lo, NEW hi, NEW i, NEW j, NEW from,
         Situation(ts, te, maxFill, lo, hi, i, j, from),
         NEW g, NEW U, Adds(U, g, ts, te - 1),
         OfKnown(g, ts, te, maxFill),
         NEW f, InStep(U, f, ts, te, hi, from, j)
  PROVE  Total(f, from, j) = U[te - 1]
<1> DEFINE Bound(x) == Clip(raw[IF x < hi THEN x + 1 ELSE hi].t, ts, te)
           B == [x \in from - 1 .. j |-> Bound(x)]
<1>0. /\ Series /\ ts < te /\ Slice(lo, hi, ts, te) /\ Places(lo, hi, ts, te, i, j, from)
      /\ \A x \in from .. j : f[x] \in Int
      /\ j = hi => f[hi] = 0
      /\ \A x \in from .. j :
           x < hi => U[Clip(raw[x + 1].t, ts, te) - 1] = U[Clip(raw[x].t, ts, te) - 1] + f[x]
      /\ \A u \in ts .. te - 1 : Over(u, maxFill) = {} => g[u] = 0
  BY DEF Situation, InStep, OfKnown, Known
<1>1. /\ lo \in Nat \ {0} /\ hi \in Nat /\ lo <= hi /\ from \in lo .. hi /\ i \in lo - 1 .. hi
      /\ j \in i .. hi /\ from - 1 <= j /\ from \in Int /\ j \in Int
  BY <1>0, SeriesPoints DEF Slice, Places
<1>2. \A x \in lo .. hi : x \in 1 .. Len(raw) /\ raw[x].t \in Nat
  BY <1>0, <1>1, SeriesPoints DEF Slice
<1>3. ASSUME NEW c \in ts .. te, NEW e \in c .. te, \A u \in c .. e - 1 : Over(u, maxFill) = {}
      PROVE  U[e - 1] = U[c - 1]
  <2>1. \A u \in c .. e - 1 : g[u] = 0
    <3>1. \A u \in c .. e - 1 : u \in ts .. te - 1
      OBVIOUS
    <3>2. QED
      BY <1>0, <1>3, <3>1
  <2>2. PICK z \in Int : z = 0
    OBVIOUS
  <2>3. U[e - 1] = U[c - 1] + (e - c) * z
    <3>1. Same(g, c, e, z)
      BY <2>1, <2>2 DEF Same
    <3>2. ts \in Int /\ te \in Int
      OBVIOUS
    <3>3. QED
      BY <3>1, <3>2, ConstantSum
  <2>4. c - 1 \in ts - 1 .. te - 1
    OBVIOUS
  <2>5. U[c - 1] \in Int
    BY <1>0, <2>4 DEF Adds
  <2>6. (e - c) * z = 0
    BY <1>0, <2>2
  <2>7. QED
    BY <1>0, <2>3, <2>5, <2>6
<1>4. U[Clip(raw[from].t, ts, te) - 1] = 0
  <2>1. PICK c \in ts .. te, t \in Nat : /\ t = raw[from].t /\ c = Clip(t, ts, te)
                                         /\ (c > ts => t > ts /\ c <= t)
    <3>1. PICK t \in Nat : t = raw[from].t
      BY <1>0, <1>1, <1>2
    <3>2. Clip(t, ts, te) \in ts .. te /\ (Clip(t, ts, te) > ts => t > ts /\ Clip(t, ts, te) <= t)
      BY <1>0 DEF Clip
    <3>3. QED
      BY <1>0, <3>1, <3>2
  <2>2. ASSUME NEW u \in ts .. c - 1 PROVE Over(u, maxFill) = {}
    <3>1. c > ts /\ u \in Nat
      OBVIOUS
    <3>2. ~ (raw[from].t < ts) /\ ~ (raw[from].t <= ts)
      BY <1>0, <2>1, <3>1
    <3>3. from = lo
      BY <1>0, <1>1, <3>2 DEF Places
    <3>4. lo = 1
      BY <1>0, <1>1, <3>2, <3>3 DEF Slice
    <3>5. u < raw[1].t
      BY <1>0, <2>1, <3>1, <3>3, <3>4
    <3>6. QED
      BY <1>0, <3>1, <3>5, UnitsOutside
  <2>3. ts \in ts .. te /\ c \in ts .. te
    OBVIOUS
  <2>4. U[c - 1] = U[ts - 1]
    BY <1>0, <1>3, <2>2, <2>3
  <2>5. QED
    BY <1>0, <2>1, <2>4 DEF Adds
<1>5. U[Bound(j) - 1] = U[te - 1]
  <2>1. CASE j < hi
    <3>1. j + 1 \in lo .. hi /\ ~ (j + 1 <= j)
      BY <1>0, <1>1, <2>1
    <3>2. ~ (raw[j + 1].t <= te)
      BY <1>0, <3>1 DEF Places
    <3>3. raw[j + 1].t > te /\ raw[j + 1].t \in Nat
      BY <1>0, <1>2, <3>1, <3>2
    <3>4. Clip(raw[j + 1].t, ts, te) = te
      BY <1>0, <3>3 DEF Clip
    <3>5. QED
      BY <1>0, <2>1, <3>4
  <2>2. CASE ~ (j < hi)
    <3>1. j = hi /\ hi \in lo .. hi /\ Bound(j) = Clip(raw[hi].t, ts, te)
      BY <1>0, <1>1, <2>2
    <3>2. PICK c \in ts .. te, t \in Nat : /\ t = raw[hi].t /\ c = Clip(t, ts, te)
                                           /\ (c < te => t <= c)
      <4>1. PICK t \in Nat : t = raw[hi].t
        BY <1>0, <1>2, <3>1
      <4>2. Clip(t, ts, te) \in ts .. te /\ (Clip(t, ts, te) < te => t <= Clip(t, ts, te))
        BY <1>0 DEF Clip
      <4>3. QED
        BY <1>0, <4>1, <4>2
    <3>3. ASSUME NEW u \in c .. te - 1 PROVE Over(u, maxFill) = {}
      <4>1. c < te /\ u \in Nat
        OBVIOUS
      <4>2. ~ (te < raw[hi].t) /\ raw[hi].t <= u
        BY <1>0, <3>2, <4>1
      <4>3. hi = Len(raw)
        BY <1>0, <1>1, <4>2 DEF Slice
      <4>4. QED
        BY <1>0, <4>1, <4>2, <4>3, UnitsOutside
    <3>4. c \in ts .. te /\ te \in c .. te
      OBVIOUS
    <3>5. U[te - 1] = U[c - 1]
      BY <1>0, <1>3, <3>3, <3>4
    <3>6. QED
      BY <1>0, <3>1, <3>2, <3>5
  <2>3. QED
    BY <1>0, <2>1, <2>2
<1>6. ASSUME NEW x \in from .. j PROVE U[Bound(x) - 1] = U[Bound(x - 1) - 1] + f[x]
  <2>1. x - 1 < hi /\ x - 1 + 1 = x /\ x \in lo .. hi
    BY <1>0, <1>1
  <2>2. Bound(x - 1) = Clip(raw[x].t, ts, te)
    BY <1>0, <2>1
  <2>3. CASE x < hi
    BY <1>0, <2>2, <2>3
  <2>4. CASE ~ (x < hi)
    <3>1. x = hi /\ j = hi
      BY <1>0, <1>1, <2>1, <2>4
    <3>2. Bound(x) = Clip(raw[x].t, ts, te) /\ f[x] = 0
      BY <1>0, <3>1
    <3>3. PICK t \in Nat : t = raw[x].t
      BY <1>0, <1>2, <2>1
    <3>4. Clip(t, ts, te) - 1 \in ts - 1 .. te - 1
      BY <1>0 DEF Clip
    <3>5. U[Clip(raw[x].t, ts, te) - 1] \in Int
      BY <1>0, <3>3, <3>4 DEF Adds
    <3> HIDE DEF Bound
    <3>6. QED
      BY <1>0, <2>2, <3>2, <3>5
  <2>5. QED
    BY <1>0, <2>3, <2>4
<1>7. Bound(from - 1) = Clip(raw[from].t, ts, te)
  <2>1. from - 1 < hi /\ from - 1 + 1 = from
    BY <1>0, <1>1
  <2>2. QED
    BY <1>0, <2>1
<1> HIDE DEF Bound
<1>8. /\ B[from - 1] = Bound(from - 1) /\ B[j] = Bound(j)
      /\ \A x \in from .. j : B[x] = Bound(x) /\ B[x - 1] = Bound(x - 1)
  <2>1. from - 1 \in from - 1 .. j /\ j \in from - 1 .. j
    BY <1>0, <1>1
  <2>2. \A x \in from .. j : x \in from - 1 .. j /\ x - 1 \in from - 1 .. j
    BY <1>0, <1>1
  <2>3. QED
    BY <1>0, <2>1, <2>2
<1> HIDE DEF B
<1>9. PICK P : Adds(P, f, from, j) /\ Total(f, from, j) = P[j]
  BY <1>0, <1>1, PrefixSums
<1>10. P[j] = U[te - 1]
  <2>1. ts \in Int /\ te \in Int /\ ts <= te
    BY <1>0
  <2>2. U[B[from - 1] - 1] = 0 /\ U[B[j] - 1] = U[te - 1]
    BY <1>0, <1>4, <1>5, <1>7, <1>8
  <2>3. \A x \in from .. j : U[B[x] - 1] = U[B[x - 1] - 1] + f[x]
    BY <1>0, <1>6, <1>8
  <2>4. QED
    BY <1>0, <1>1, <1>9, <2>1, <2>2, <2>3, SumOfPieces
<1>11. QED
  BY <1>0, <1>9, <1>10

\* A sum of ones and zeros tells whether there is a one.
LEMMA CountsOnes ==
  ASSUME NEW ts \in Int, NEW te \in Int, ts <= te, NEW g, NEW U, Adds(U, g, ts, te - 1),
         \A u \in ts .. te - 1 : g[u] \in {0, 1}
  PROVE  U[te - 1] \in Nat /\ (U[te - 1] = 0 <=> \A u \in ts .. te - 1 : g[u] = 0)
<1> DEFINE m == te - ts
           Right(n) == U[n + ts - 1] \in Nat
                         /\ (U[n + ts - 1] = 0 <=> \A u \in ts .. n + ts - 1 : g[u] = 0)
           T == {n \in 0 .. m : Right(n)}
<1>1. m \in Nat /\ m + ts - 1 = te - 1
  OBVIOUS
<1>2. 0 \in T
  <2>1. 0 + ts - 1 = ts - 1 /\ U[ts - 1] = 0
    BY DEF Adds
  <2>2. \A u \in ts .. ts - 1 : FALSE
    OBVIOUS
  <2>3. 0 \in 0 .. m
    BY <1>1
  <2>4. QED
    BY <2>1, <2>2, <2>3
<1>3. ASSUME NEW n \in 0 .. m - 1, n \in T PROVE n + 1 \in T
  <2>1. PICK x \in ts .. te - 1 : x = n + 1 + ts - 1 /\ x - 1 = n + ts - 1
    OBVIOUS
  <2>2. U[x] = U[x - 1] + g[x] /\ g[x] \in {0, 1}
    BY <2>1 DEF Adds
  <2>3. U[x - 1] \in Nat /\ (U[x - 1] = 0 <=> \A u \in ts .. x - 1 : g[u] = 0)
    BY <1>3, <2>1
  <2>4. \A u : u \in ts .. x <=> u \in ts .. x - 1 \/ u = x
    OBVIOUS
  <2>5. U[x] \in Nat /\ (U[x] = 0 <=> U[x - 1] = 0 /\ g[x] = 0)
    BY <2>2, <2>3
  <2>6. U[x] = 0 <=> \A u \in ts .. x : g[u] = 0
    BY <2>3, <2>4, <2>5
  <2>7. n + 1 \in 0 .. m
    OBVIOUS
  <2>8. QED
    BY <2>1, <2>5, <2>6, <2>7
<1> HIDE DEF T, m
<1>4. m \in T
  <2>1. \A n \in 0 .. m : n \in T
    BY <1>1, <1>2, <1>3, AllUpTo
  <2>2. QED
    BY <1>1, <2>1
<1>5. QED
  BY <1>1, <1>4 DEF T

-----------------------------------------------------------------------------
(* The units of time under a pair of points.                               *)

LEMMA UnitIs ==
  ASSUME Series, NEW maxFill \in Nat, NEW x \in 1 .. Len(raw) - 1, NEW u \in Nat,
         raw[x].t <= u, u < raw[x + 1].t
  PROVE  IF raw[x + 1].t - raw[x].t <= maxFill
         THEN /\ Over(u, maxFill) # {}
              /\ \A t : ValueAt(u, t, maxFill) = At(raw[x], raw[x + 1], t)
              /\ Slope(u, maxFill) = SlopeOf(raw[x], raw[x + 1])
         ELSE Over(u, maxFill) = {}
<1>1. CASE ~ (raw[x + 1].t - raw[x].t <= maxFill)
  BY <1>1, OverIs
<1>2. CASE raw[x + 1].t - raw[x].t <= maxFill
  <2>1. Over(u, maxFill) = {x}
    BY <1>2, OverIs
  <2>2. Pair(u, maxFill) = x
    BY <2>1 DEF Pair
  <2>3. \A t : ValueAt(u, t, maxFill) = At(raw[x], raw[x + 1], t)
    BY <2>2 DEF ValueAt
  <2>4. x \in 1 .. Len(raw) /\ x + 1 \in 1 .. Len(raw)
    BY SeriesPoints
  <2>5. PICK p \in Point, q \in Point : p = raw[x] /\ q = raw[x + 1]
    BY <2>4, SeriesPoints
  <2>6. p.t < q.t /\ p.t \in Nat /\ p.v \in Int
    BY <2>5, PointFields
  <2>7. PICK s \in Int : /\ s = SlopeOf(p, q)
                         /\ \A t \in Int : At(p, q, t) = p.v + (t - p.t) * s
    BY <2>6, LineIs
  <2>8. Slope(u, maxFill) = s
    <3>1. PICK k \in Int : k = u - p.t /\ u + 1 - p.t = k + 1
      BY <2>6
    <3>2. PICK z \in Int : z = k * s /\ (k + 1) * s = z + s
      OBVIOUS
    <3>3. At(p, q, u) = p.v + z /\ At(p, q, u + 1) = p.v + (z + s)
      <4>1. PICK a \in Int, b \in Int : a = u /\ b = u + 1
        OBVIOUS
      <4>2. At(p, q, a) = p.v + (a - p.t) * s /\ At(p, q, b) = p.v + (b - p.t) * s
        BY <2>7
      <4>3. a - p.t = k /\ b - p.t = k + 1
        <5>1. PICK t \in Nat : t = p.t
          BY <2>6
        <5>2. k = u - t /\ a = u /\ b = u + 1
          BY <3>1, <4>1, <5>1
        <5>3. a - t = k /\ b - t = k + 1
          BY <5>2
        <5>4. QED
          BY <5>1, <5>3
      <4>4. At(p, q, a) = p.v + k * s /\ At(p, q, b) = p.v + (k + 1) * s
        BY <4>2, <4>3
      <4>5. QED
        BY <3>2, <4>1, <4>4
    <3>4. Slope(u, maxFill) = At(p, q, u + 1) - At(p, q, u)
      BY <2>3, <2>5 DEF Slope
    <3>5. QED
      BY <2>6, <3>3, <3>4
  <2>9. QED
    BY <1>2, <2>1, <2>3, <2>5, <2>7, <2>8
<1>3. QED
  BY <1>1, <1>2

\* A pair x the loop looks at.
LEMMA PairIs ==
  ASSUME NEW ts \in Nat, NEW te \in Nat, NEW maxFill \in Nat,
         NEW lo, NEW hi, NEW i, NEW j, NEW from,
         Situation(ts, te, maxFill, lo, hi, i, j, from), NEW x \in from .. j, x < hi
  PROVE  /\ x \in 1 .. Len(raw) - 1 /\ raw[x] \in Point /\ raw[x + 1] \in Point
         /\ raw[x].t \in Nat /\ raw[x + 1].t \in Nat /\ raw[x].v \in Int /\ raw[x + 1].v \in Int
         /\ raw[x].t <= raw[x + 1].t /\ raw[x].t <= te /\ ts <= raw[x + 1].t
<1>1. /\ Series /\ ts \in Nat /\ te \in Nat /\ ts < te
      /\ lo \in Nat \ {0} /\ hi \in Nat /\ hi <= Len(raw) /\ Len(raw) \in Nat
      /\ i \in lo - 1 .. hi /\ \A y \in lo .. hi : raw[y].t < ts <=> y <= i
      /\ j \in i .. hi /\ \A y \in lo .. hi : raw[y].t <= te <=> y <= j
      /\ from \in lo .. hi /\ from >= i
  <2>1. Series /\ ts \in Nat /\ te \in Nat /\ ts < te
    BY DEF Situation
  <2>2. Len(raw) \in Nat \ {0}
    BY <2>1, SeriesPoints
  <2>3. lo \in Nat \ {0} /\ hi \in Nat /\ hi <= Len(raw)
    BY <2>2 DEF Situation, Slice
  <2>4. /\ i \in lo - 1 .. hi /\ \A y \in lo .. hi : raw[y].t < ts <=> y <= i
        /\ j \in i .. hi /\ \A y \in lo .. hi : raw[y].t <= te <=> y <= j
        /\ from \in lo .. hi /\ from = (IF i < lo THEN lo ELSE i)
    BY DEF Situation, Places
  <2>5. from >= i
    BY <2>3, <2>4
  <2>6. QED
    BY <2>1, <2>2, <2>3, <2>4, <2>5
<1>2. /\ x \in lo .. hi /\ x + 1 \in lo .. hi /\ x \in 1 .. Len(raw) /\ x + 1 \in 1 .. Len(raw)
      /\ x <= j /\ ~ (x + 1 <= i) /\ x \in 1 .. Len(raw) - 1 /\ x <= x + 1
  BY <1>1
<1>3. raw[x] \in Point /\ raw[x + 1] \in Point
  BY <1>1, <1>2, SeriesPoints
<1>4. PICK t \in Nat, r \in Nat : t = raw[x].t /\ r = raw[x + 1].t
  BY <1>3, PointFields
<1>5. raw[x].v \in Int /\ raw[x + 1].v \in Int
  BY <1>3, PointFields
<1>6. t <= r
  BY <1>1, <1>2, <1>4 DEF Series
<1>7. t <= te
  BY <1>1, <1>2, <1>4
<1>8. ts <= r
  <2>1. ~ (raw[x + 1].t < ts)
    BY <1>1, <1>2
  <2>2. QED
    BY <1>1, <1>4, <2>1
<1>9. QED
  BY <1>2, <1>3, <1>4, <1>5, <1>6, <1>7, <1>8

LEMMA PairUnits ==
  ASSUME NEW ts \in Nat, NEW te \in Nat, NEW maxFill \in Nat,
         NEW lo, NEW hi, NEW i, NEW j, NEW from,
         Situation(ts, te, maxFill, lo, hi, i, j, from), NEW x \in from .. j, x < hi,
         NEW c, c = Clip(raw[x].t, ts, te), NEW e, e = Clip(raw[x + 1].t, ts, te),
         NEW u \in c .. e - 1
  PROVE  /\ u \in ts .. te - 1
         /\ IF raw[x + 1].t - raw[x].t <= maxFill
            THEN /\ u \in Known(ts, te, maxFill)
                 /\ \A t : ValueAt(u, t, maxFill) = At(raw[x], raw[x + 1], t)
                 /\ Slope(u, maxFill) = SlopeOf(raw[x], raw[x + 1])
            ELSE u \notin Known(ts, te, maxFill)
<1>1. /\ x \in 1 .. Len(raw) - 1 /\ raw[x].t \in Nat /\ raw[x + 1].t \in Nat
      /\ c \in ts .. te /\ e \in c .. te
      /\ c < e => raw[x].t <= c /\ e <= raw[x + 1].t
  <2>1. /\ x \in 1 .. Len(raw) - 1 /\ raw[x].t \in Nat /\ raw[x + 1].t \in Nat
        /\ raw[x].t <= raw[x + 1].t /\ raw[x].t <= te /\ ts <= raw[x + 1].t
    BY PairIs
  <2>2. PICK t \in Nat, r \in Nat : t = raw[x].t /\ r = raw[x + 1].t
    BY <2>1
  <2>3. ts < te /\ c = Clip(t, ts, te) /\ e = Clip(r, ts, te)
    BY <2>2 DEF Situation
  <2>4. t <= r /\ t <= te /\ ts <= r
    BY <2>1, <2>2
  <2>5. c \in ts .. te /\ e \in c .. te /\ (c < e => t <= c /\ e <= r)
    BY <2>3, <2>4 DEF Clip
  <2>6. QED
    BY <2>1, <2>2, <2>5
<1>2. Series /\ ts \in Nat /\ te \in Nat /\ maxFill \in Nat
  BY DEF Situation
<1>3. u \in Nat /\ u \in ts .. te - 1 /\ raw[x].t <= u /\ u < raw[x + 1].t
  <2>1. c \in Nat /\ e \in Nat /\ u \in Nat /\ c < e /\ c <= u /\ u < e
    BY <1>1, <1>2
  <2>2. QED
    BY <1>1, <1>2, <2>1
<1>4. u \in Known(ts, te, maxFill) <=> Over(u, maxFill) # {}
  BY <1>3 DEF Known
<1>5. QED
  BY <1>1, <1>2, <1>3, <1>4, UnitIs

\* A pair that has a part in the interval is one of those the loop looks at.
LEMMA PairFound ==
  ASSUME NEW ts \in Nat, NEW te \in Nat, NEW maxFill \in Nat,
         NEW lo, NEW hi, NEW i, NEW j, NEW from,
         Situation(ts, te, maxFill, lo, hi, i, j, from), NEW x \in 1 .. Len(raw) - 1,
         raw[x].t < te, ts < raw[x + 1].t
  PROVE  x \in from .. j /\ x < hi
<1>1. /\ Series /\ ts \in Nat /\ te \in Nat /\ ts < te
      /\ lo \in Nat \ {0} /\ hi \in Nat /\ hi <= Len(raw) /\ Len(raw) \in Nat
      /\ lo \in 1 .. Len(raw) /\ hi \in lo .. Len(raw)
      /\ lo > 1 => raw[lo].t <= ts
      /\ hi < Len(raw) => te < raw[hi].t
      /\ i \in lo - 1 .. hi /\ \A y \in lo .. hi : raw[y].t < ts <=> y <= i
      /\ j \in i .. hi /\ \A y \in lo .. hi : raw[y].t <= te <=> y <= j
      /\ from = (IF i < lo THEN lo ELSE i)
  BY SeriesPoints DEF Situation, Slice, Places
<1>2. x \in 1 .. Len(raw) /\ x + 1 \in 1 .. Len(raw) /\ hi \in 1 .. Len(raw)
  BY <1>1
<1>3. raw[x].t \in Nat /\ raw[x + 1].t \in Nat /\ raw[lo].t \in Nat /\ raw[hi].t \in Nat
  BY <1>1, <1>2, SeriesPoints
<1>4. x >= lo
  <2>1. SUFFICES ASSUME x < lo PROVE FALSE
    BY <1>1
  <2>2. x + 1 <= lo /\ lo > 1
    BY <1>1, <2>1
  <2>3. raw[x + 1].t <= raw[lo].t
    BY <1>1, <1>2, <2>2 DEF Series
  <2>4. QED
    BY <1>1, <1>3, <2>2, <2>3
<1>5. x < hi
  <2>1. SUFFICES ASSUME x >= hi PROVE FALSE
    BY <1>1
  <2>2. hi < Len(raw)
    BY <1>1, <2>1
  <2>3. raw[hi].t <= raw[x].t
    BY <1>1, <1>2, <2>1 DEF Series
  <2>4. QED
    BY <1>1, <1>3, <2>2, <2>3
<1>6. x \in lo .. hi /\ x + 1 \in lo .. hi
  BY <1>1, <1>4, <1>5
<1>7. ~ (x + 1 <= i)
  BY <1>1, <1>3, <1>6
<1>8. x <= j
  BY <1>1, <1>3, <1>6
<1>9. QED
  BY <1>1, <1>4, <1>5, <1>7, <1>8

\* And it is what a known unit is in.
LEMMA UnitPair ==
  ASSUME NEW ts \in Nat, NEW te \in Nat, NEW maxFill \in Nat,
         NEW lo, NEW hi, NEW i, NEW j, NEW from,
         Situation(ts, te, maxFill, lo, hi, i, j, from), NEW u \in Known(ts, te, maxFill)
  PROVE  \E x \in from .. j :
           /\ x < hi /\ raw[x + 1].t - raw[x].t <= maxFill
           /\ Clip(raw[x].t, ts, te) <= u /\ u < Clip(raw[x + 1].t, ts, te)
           /\ u \in Clip(raw[x].t, ts, te) .. Clip(raw[x + 1].t, ts, te) - 1
<1>1. Series /\ ts \in Nat /\ te \in Nat /\ ts < te /\ maxFill \in Nat
  BY DEF Situation
<1>2. u \in ts .. te - 1 /\ Over(u, maxFill) # {}
  BY DEF Known
<1>3. PICK x \in 1 .. Len(raw) - 1 :
        raw[x].t <= u /\ u < raw[x + 1].t /\ raw[x + 1].t - raw[x].t <= maxFill
  BY <1>2 DEF Over
<1>4. x \in 1 .. Len(raw) /\ x + 1 \in 1 .. Len(raw)
  BY <1>1, SeriesPoints
<1>5. PICK t \in Nat, r \in Nat : t = raw[x].t /\ r = raw[x + 1].t
  BY <1>1, <1>4, SeriesPoints
<1>6. t < te /\ ts < r
  BY <1>1, <1>2, <1>3, <1>5
<1>7. x \in from .. j /\ x < hi
  BY <1>5, <1>6, PairFound
<1>8. /\ Clip(t, ts, te) <= u /\ u < Clip(r, ts, te)
      /\ Clip(t, ts, te) \in Int /\ Clip(r, ts, te) \in Int
  BY <1>1, <1>2, <1>3, <1>5 DEF Clip
<1>9. u \in Clip(t, ts, te) .. Clip(r, ts, te) - 1
  BY <1>1, <1>2, <1>8
<1>10. QED
  BY <1>3, <1>5, <1>7, <1>8, <1>9

\* The loop against a sum over units of time.
LEMMA LoopSum ==
  ASSUME NEW ts \in Nat, NEW te \in Nat, NEW maxFill \in Nat,
         NEW lo, NEW hi, NEW i, NEW j, NEW from,
         Situation(ts, te, maxFill, lo, hi, i, j, from),
         NEW g, OfKnown(g, ts, te, maxFill),
         NEW f, \A U : Adds(U, g, ts, te - 1) => InStep(U, f, ts, te, hi, from, j)
  PROVE  Total(f, from, j) = Total(g, ts, te - 1)
<1>1. ts \in Int /\ te - 1 \in Int /\ ts - 1 <= te - 1
  BY DEF Situation
<1>2. \A u \in ts .. te - 1 : g[u] \in Int
  BY DEF OfKnown
<1>3. PICK U : Adds(U, g, ts, te - 1) /\ Total(g, ts, te - 1) = U[te - 1]
  BY <1>1, <1>2, PrefixSums
<1>4. Total(f, from, j) = U[te - 1]
  BY <1>3, IntervalSum
<1>5. QED
  BY <1>3, <1>4

-----------------------------------------------------------------------------
(* What the loop adds up.                                                  *)

PieceAt(kind, x, hi, ts, te, maxFill) ==
  IF x < hi THEN Piece(kind, raw[x], raw[x + 1], ts, te, maxFill) ELSE Nothing

LEMMA AbsoluteAt ==
  ASSUME NEW ts \in Nat, NEW te \in Nat, NEW maxFill \in Nat,
         NEW lo, NEW hi, NEW i, NEW j, NEW from,
         Situation(ts, te, maxFill, lo, hi, i, j, from), NEW x \in from .. j, x < hi,
         NEW c, c = Clip(raw[x].t, ts, te), NEW e, e = Clip(raw[x + 1].t, ts, te),
         NEW piece, piece = PieceAt("absolute", x, hi, ts, te, maxFill)
  PROVE  IF c = e \/ raw[x + 1].t - raw[x].t > maxFill THEN piece = Nothing
         ELSE /\ piece.dx = e - c
              /\ piece.num = (e - c) * (At(raw[x], raw[x + 1], c) + At(raw[x], raw[x + 1], e))
              /\ piece.vals \subseteq {At(raw[x], raw[x + 1], c), At(raw[x], raw[x + 1], e)}
              /\ raw[x].t < ts => At(raw[x], raw[x + 1], c) \in piece.vals
              /\ te < raw[x + 1].t => At(raw[x], raw[x + 1], e) \in piece.vals
<1>1. ts \in Nat /\ te \in Nat /\ ts < te /\ maxFill \in Nat /\ te - ts <= maxFill
  BY DEF Situation
<1>2. /\ raw[x].t <= raw[x + 1].t /\ raw[x].t <= te /\ ts <= raw[x + 1].t
      /\ raw[x] \in Point /\ raw[x + 1] \in Point
  BY PairIs
<1>3. PICK p \in Point, q \in Point : p = raw[x] /\ q = raw[x + 1]
  BY <1>2
<1>4. p.t <= q.t /\ p.t <= te /\ ts <= q.t /\ c = Clip(p.t, ts, te) /\ e = Clip(q.t, ts, te)
  BY <1>2, <1>3
<1>5. piece = Piece("absolute", p, q, ts, te, maxFill)
  BY <1>3 DEF PieceAt
<1>6. IF c = e \/ q.t - p.t > maxFill THEN piece = Nothing
      ELSE /\ piece.dx = e - c /\ piece.num = (e - c) * (At(p, q, c) + At(p, q, e))
           /\ piece.vals \subseteq {At(p, q, c), At(p, q, e)}
           /\ p.t < ts => At(p, q, c) \in piece.vals
           /\ te < q.t => At(p, q, e) \in piece.vals
  BY <1>1, <1>4, <1>5, AbsolutePiece
<1>7. QED
  BY <1>3, <1>6

LEMMA RateAt ==
  ASSUME NEW ts \in Nat, NEW te \in Nat, NEW maxFill \in Nat,
         NEW lo, NEW hi, NEW i, NEW j, NEW from,
         Situation(ts, te, maxFill, lo, hi, i, j, from), Counter, NEW x \in from .. j, x < hi,
         NEW c, c = Clip(raw[x].t, ts, te), NEW e, e = Clip(raw[x + 1].t, ts, te),
         NEW piece, piece = PieceAt("rate", x, hi, ts, te, maxFill),
         NEW s, s = SlopeOf(raw[x], raw[x + 1])
  PROVE  IF c = e \/ raw[x + 1].t - raw[x].t > maxFill THEN piece = Nothing
         ELSE /\ piece.vals = {s}
              /\ IF raw[x].t < ts /\ te < raw[x + 1].t
                 THEN /\ piece.dx = raw[x + 1].t - raw[x].t
                      /\ piece.num = (raw[x + 1].t - raw[x].t) * s
                 ELSE piece.dx = e - c /\ piece.num = (e - c) * s
<1>1. ts \in Nat /\ te \in Nat /\ ts < te /\ maxFill \in Nat /\ te - ts <= maxFill
  BY DEF Situation
<1>2. /\ raw[x].t <= raw[x + 1].t /\ raw[x].t <= te /\ ts <= raw[x + 1].t
      /\ raw[x] \in Point /\ raw[x + 1] \in Point /\ x \in 1 .. Len(raw) - 1
  BY PairIs
<1>3. PICK p \in Point, q \in Point : p = raw[x] /\ q = raw[x + 1]
  BY <1>2
<1>4. /\ p.t <= q.t /\ p.t <= te /\ ts <= q.t /\ c = Clip(p.t, ts, te) /\ e = Clip(q.t, ts, te)
      /\ p.v <= q.v /\ s = SlopeOf(p, q)
  BY <1>2, <1>3 DEF Counter
<1>5. piece = Piece("rate", p, q, ts, te, maxFill)
  BY <1>3 DEF PieceAt
<1>6. IF c = e \/ q.t - p.t > maxFill THEN piece = Nothing
      ELSE /\ piece.vals = {s}
           /\ IF p.t < ts /\ te < q.t
              THEN piece.dx = q.t - p.t /\ piece.num = (q.t - p.t) * s
              ELSE piece.dx = e - c /\ piece.num = (e - c) * s
  BY <1>1, <1>4, <1>5, RatePiece
<1>7. QED
  BY <1>3, <1>6

LEMMA PairEnds ==
  ASSUME NEW ts \in Nat, NEW te \in Nat, NEW maxFill \in Nat,
         NEW lo, NEW hi, NEW i, NEW j, NEW from,
         Situation(ts, te, maxFill, lo, hi, i, j, from), NEW x \in from .. j, x < hi
  PROVE  \E c \in ts .. te : \E e \in c .. te :
           /\ c = Clip(raw[x].t, ts, te) /\ e = Clip(raw[x + 1].t, ts, te)
           /\ c # e => raw[x].t <= c /\ e <= raw[x + 1].t /\ raw[x].t < raw[x + 1].t
<1>1. PICK t \in Nat, r \in Nat : t = raw[x].t /\ r = raw[x + 1].t
  BY PairIs
<1>2. t <= r /\ t <= te /\ ts <= r
  BY <1>1, PairIs
<1>3. ts < te
  BY DEF Situation
<1>4. /\ Clip(t, ts, te) \in ts .. te /\ Clip(r, ts, te) \in Clip(t, ts, te) .. te
      /\ Clip(t, ts, te) # Clip(r, ts, te) =>
           t <= Clip(t, ts, te) /\ Clip(r, ts, te) <= r /\ t < r
  BY <1>2, <1>3 DEF Clip
<1>5. QED
  BY <1>1, <1>4

LEMMA UnitValues ==
  ASSUME NEW ts \in Nat, NEW te \in Nat, NEW maxFill \in Nat,
         NEW lo, NEW hi, NEW i, NEW j, NEW from,
         Situation(ts, te, maxFill, lo, hi, i, j, from), NEW u \in Known(ts, te, maxFill)
  PROVE  Slope(u, maxFill) \in Int /\ \A t \in Int : ValueAt(u, t, maxFill) \in Int
<1>1. PICK x \in from .. j :
        /\ x < hi /\ raw[x + 1].t - raw[x].t <= maxFill
        /\ u \in Clip(raw[x].t, ts, te) .. Clip(raw[x + 1].t, ts, te) - 1
  BY UnitPair
<1>2. PICK c \in ts .. te : \E e \in c .. te :
        /\ c = Clip(raw[x].t, ts, te) /\ e = Clip(raw[x + 1].t, ts, te)
        /\ c # e => raw[x].t <= c /\ e <= raw[x + 1].t /\ raw[x].t < raw[x + 1].t
  BY <1>1, PairEnds
<1>3. PICK e \in c .. te :
        /\ c = Clip(raw[x].t, ts, te) /\ e = Clip(raw[x + 1].t, ts, te)
        /\ c # e => raw[x].t <= c /\ e <= raw[x + 1].t /\ raw[x].t < raw[x + 1].t
  BY <1>2
<1>4. u \in c .. e - 1 /\ c # e
  BY <1>1, <1>3
<1>5. /\ \A t : ValueAt(u, t, maxFill) = At(raw[x], raw[x + 1], t)
      /\ Slope(u, maxFill) = SlopeOf(raw[x], raw[x + 1])
  BY <1>1, <1>3, <1>4, PairUnits
<1>6. PICK p \in Point, q \in Point : p = raw[x] /\ q = raw[x + 1]
  BY <1>1, PairIs
<1>7. p.t < q.t
  BY <1>3, <1>4, <1>6
<1>8. SlopeOf(p, q) \in Int /\ \A t \in Int : At(p, q, t) \in Int
  BY <1>7, LineIs, LineEnds
<1>9. QED
  BY <1>5, <1>6, <1>8

\* The summands of Time, TwiceIntegral and Growth.
Units(ts, te, maxFill) == [u \in ts .. te - 1 |-> IF u \in Known(ts, te, maxFill) THEN 1 ELSE 0]

Lines(ts, te, maxFill) ==
  [u \in ts .. te - 1 |->
     IF u \in Known(ts, te, maxFill)
     THEN ValueAt(u, u, maxFill) + ValueAt(u, u + 1, maxFill) ELSE 0]

Slopes(ts, te, maxFill) ==
  [u \in ts .. te - 1 |-> IF u \in Known(ts, te, maxFill) THEN Slope(u, maxFill) ELSE 0]

LEMMA Summands ==
  ASSUME NEW ts \in Nat, NEW te \in Nat, NEW maxFill \in Nat,
         NEW lo, NEW hi, NEW i, NEW j, NEW from,
         Situation(ts, te, maxFill, lo, hi, i, j, from)
  PROVE  /\ OfKnown(Units(ts, te, maxFill), ts, te, maxFill)
         /\ OfKnown(Lines(ts, te, maxFill), ts, te, maxFill)
         /\ OfKnown(Slopes(ts, te, maxFill), ts, te, maxFill)
<1>1. \A u \in Known(ts, te, maxFill) :
        Slope(u, maxFill) \in Int /\ \A t \in Int : ValueAt(u, t, maxFill) \in Int
  BY UnitValues
<1>2. \A u \in ts .. te - 1 : u \in Int /\ u + 1 \in Int
  OBVIOUS
<1>3. OfKnown(Units(ts, te, maxFill), ts, te, maxFill)
  BY DEF OfKnown, Units
<1>4. OfKnown(Lines(ts, te, maxFill), ts, te, maxFill)
  <2>1. ASSUME NEW u \in ts .. te - 1, u \in Known(ts, te, maxFill)
        PROVE  ValueAt(u, u, maxFill) + ValueAt(u, u + 1, maxFill) \in Int
    BY <1>1, <1>2, <2>1
  <2>2. QED
    BY <2>1 DEF OfKnown, Lines
<1>5. OfKnown(Slopes(ts, te, maxFill), ts, te, maxFill)
  BY <1>1 DEF OfKnown, Slopes
<1>6. QED
  BY <1>3, <1>4, <1>5

\* Two points that are too far apart, or have no part in the interval.
LEMMA UnknownSum ==
  ASSUME NEW ts \in Nat, NEW te \in Nat, NEW maxFill \in Nat,
         NEW lo, NEW hi, NEW i, NEW j, NEW from,
         Situation(ts, te, maxFill, lo, hi, i, j, from), NEW x \in from .. j, x < hi,
         NEW c \in ts .. te, NEW e \in c .. te,
         c = Clip(raw[x].t, ts, te), e = Clip(raw[x + 1].t, ts, te),
         c = e \/ raw[x + 1].t - raw[x].t > maxFill,
         NEW g, OfKnown(g, ts, te, maxFill), NEW U, Adds(U, g, ts, te - 1)
  PROVE  U[e - 1] = U[c - 1]
<1>1. PICK z \in Int : z = 0
  OBVIOUS
<1>2. raw[x].t \in Nat /\ raw[x + 1].t \in Nat
  BY PairIs
<1>3. ASSUME NEW u \in c .. e - 1 PROVE g[u] = z
  <2>1. c # e
    OBVIOUS
  <2>2. ~ (raw[x + 1].t - raw[x].t <= maxFill)
    BY <1>2, <2>1
  <2>3. u \in ts .. te - 1 /\ u \notin Known(ts, te, maxFill)
    BY <2>2, PairUnits
  <2>4. QED
    BY <1>1, <2>3 DEF OfKnown
<1>4. U[e - 1] = U[c - 1] + (e - c) * z
  <2>1. Same(g, c, e, z)
    BY <1>3 DEF Same
  <2>2. ts \in Int /\ te \in Int
    OBVIOUS
  <2>3. QED
    BY <2>1, <2>2, ConstantSum
<1>5. c - 1 \in ts - 1 .. te - 1
  OBVIOUS
<1>6. U[c - 1] \in Int
  BY <1>5 DEF Adds
<1>7. (e - c) * z = 0
  BY <1>1
<1>8. QED
  BY <1>4, <1>6, <1>7

\* The two sums of the loop.
SumOfTime(pieces, from, j) == Total([x \in from .. j |-> pieces[x].dx], from, j)
SumOfNum(pieces, from, j) == Total([x \in from .. j |-> pieces[x].num], from, j)

\* The time each pair of points adds.
AddsTime(dx, hi, from, j, ts, te, maxFill) ==
  \A x \in from .. j :
    dx[x] = IF x < hi /\ ~ (raw[x + 1].t - raw[x].t > maxFill)
            THEN Clip(raw[x + 1].t, ts, te) - Clip(raw[x].t, ts, te) ELSE 0

LEMMA TimeSum ==
  ASSUME NEW ts \in Nat, NEW te \in Nat, NEW maxFill \in Nat,
         NEW lo, NEW hi, NEW i, NEW j, NEW from,
         Situation(ts, te, maxFill, lo, hi, i, j, from),
         NEW dx, AddsTime(dx, hi, from, j, ts, te, maxFill)
  PROVE  Total(dx, from, j) = Time(ts, te, maxFill)
<1>1. j = hi => hi \in from .. j
  <2>1. from \in lo .. hi /\ lo \in Nat /\ hi \in Nat
    BY SeriesPoints DEF Situation, Slice, Places
  <2>2. QED
    BY <2>1
<1>2. ~ (hi < hi)
  <2>1. hi \in Nat
    BY SeriesPoints DEF Situation, Slice
  <2>2. QED
    BY <2>1
<1>3. ASSUME NEW U, Adds(U, Units(ts, te, maxFill), ts, te - 1)
      PROVE  InStep(U, dx, ts, te, hi, from, j)
  <2>1. ASSUME NEW x \in from .. j, x < hi
        PROVE  /\ U[Clip(raw[x + 1].t, ts, te) - 1] = U[Clip(raw[x].t, ts, te) - 1] + dx[x]
               /\ dx[x] \in Int
    <3>1. PICK c \in ts .. te : \E e \in c .. te :
            /\ c = Clip(raw[x].t, ts, te) /\ e = Clip(raw[x + 1].t, ts, te)
            /\ c # e => raw[x].t <= c /\ e <= raw[x + 1].t /\ raw[x].t < raw[x + 1].t
      BY <2>1, PairEnds
    <3>2. PICK e \in c .. te : c = Clip(raw[x].t, ts, te) /\ e = Clip(raw[x + 1].t, ts, te)
      BY <3>1
    <3>3. dx[x] = IF ~ (raw[x + 1].t - raw[x].t > maxFill) THEN e - c ELSE 0
      BY <2>1, <3>2 DEF AddsTime
    <3>4. U[c - 1] \in Int
      <4>1. c - 1 \in ts - 1 .. te - 1
        OBVIOUS
      <4>2. QED
        BY <1>3, <4>1 DEF Adds
    <3>5. CASE c = e \/ raw[x + 1].t - raw[x].t > maxFill
      <4>1. U[e - 1] = U[c - 1]
        BY <1>3, <2>1, <3>2, <3>5, Summands, UnknownSum
      <4>2. dx[x] = 0
        BY <3>3, <3>5
      <4>3. QED
        BY <3>2, <3>4, <4>1, <4>2
    <3>6. CASE ~ (c = e \/ raw[x + 1].t - raw[x].t > maxFill)
      <4>1. PICK s \in Int : s = 1
        OBVIOUS
      <4>2. raw[x + 1].t - raw[x].t <= maxFill
        <5>1. raw[x].t \in Nat /\ raw[x + 1].t \in Nat
          BY <2>1, PairIs
        <5>2. QED
          BY <3>6, <5>1
      <4>3. Same(Units(ts, te, maxFill), c, e, s)
        BY <2>1, <3>2, <4>1, <4>2, PairUnits DEF Same, Units
      <4>4. ts \in Int /\ te \in Int
        OBVIOUS
      <4>5. U[e - 1] = U[c - 1] + (e - c) * s
        BY <1>3, <4>3, <4>4, ConstantSum
      <4>6. (e - c) * s = e - c /\ e - c \in Int
        BY <4>1
      <4>7. QED
        BY <3>2, <3>3, <3>6, <4>5, <4>6
    <3>7. QED
      BY <3>5, <3>6
  <2>2. \A x \in from .. j : ~ (x < hi) => dx[x] = 0
    BY DEF AddsTime
  <2>3. QED
    BY <1>1, <1>2, <2>1, <2>2 DEF InStep
<1>4. Total(dx, from, j) = Total(Units(ts, te, maxFill), ts, te - 1)
  BY <1>3, Summands, LoopSum
<1>5. QED
  BY <1>4 DEF Time, Units

\* What the loop adds up for an absolute value.
LEMMA AbsoluteSums ==
  ASSUME NEW ts \in Nat, NEW te \in Nat, NEW maxFill \in Nat,
         NEW lo, NEW hi, NEW i, NEW j, NEW from,
         Situation(ts, te, maxFill, lo, hi, i, j, from),
         NEW pieces, \A x \in from .. j :
                       pieces[x] = PieceAt("absolute", x, hi, ts, te, maxFill)
  PROVE  /\ SumOfTime(pieces, from, j) = Time(ts, te, maxFill)
         /\ SumOfNum(pieces, from, j) = TwiceIntegral(ts, te, maxFill)
<1> DEFINE dx == [x \in from .. j |-> pieces[x].dx]
           num == [x \in from .. j |-> pieces[x].num]
<1>1. j = hi => hi \in from .. j
  <2>1. from \in lo .. hi /\ lo \in Nat /\ hi \in Nat
    BY SeriesPoints DEF Situation, Slice, Places
  <2>2. QED
    BY <2>1
<1>2. \A x \in from .. j : ~ (x < hi) => dx[x] = 0 /\ num[x] = 0
  BY DEF PieceAt, Nothing
<1>3. ~ (hi < hi)
  <2>1. hi \in Nat
    BY SeriesPoints DEF Situation, Slice
  <2>2. QED
    BY <2>1
<1>4. ASSUME NEW x \in from .. j, x < hi
      PROVE  \E c, e \in ts .. te :
               /\ e \in c .. te
               /\ c = Clip(raw[x].t, ts, te) /\ e = Clip(raw[x + 1].t, ts, te)
               /\ c = e \/ raw[x + 1].t - raw[x].t > maxFill => dx[x] = 0 /\ num[x] = 0
               /\ ~ (c = e \/ raw[x + 1].t - raw[x].t > maxFill) =>
                    /\ raw[x].t < raw[x + 1].t /\ raw[x + 1].t - raw[x].t <= maxFill
                    /\ dx[x] = e - c
                    /\ num[x] = (e - c) * (At(raw[x], raw[x + 1], c)
                                             + At(raw[x], raw[x + 1], e))
  <2>1. PICK c \in ts .. te : \E e \in c .. te :
          /\ c = Clip(raw[x].t, ts, te) /\ e = Clip(raw[x + 1].t, ts, te)
          /\ c # e => raw[x].t <= c /\ e <= raw[x + 1].t /\ raw[x].t < raw[x + 1].t
    BY <1>4, PairEnds
  <2>2. PICK e \in c .. te :
          /\ c = Clip(raw[x].t, ts, te) /\ e = Clip(raw[x + 1].t, ts, te)
          /\ c # e => raw[x].t <= c /\ e <= raw[x + 1].t /\ raw[x].t < raw[x + 1].t
    BY <2>1
  <2>3. dx[x] = pieces[x].dx /\ num[x] = pieces[x].num
    OBVIOUS
  <2>4. IF c = e \/ raw[x + 1].t - raw[x].t > maxFill THEN pieces[x] = Nothing
        ELSE /\ pieces[x].dx = e - c
             /\ pieces[x].num = (e - c) * (At(raw[x], raw[x + 1], c) + At(raw[x], raw[x + 1], e))
    BY <1>4, <2>2, AbsoluteAt
  <2>5. pieces[x] = Nothing => pieces[x].dx = 0 /\ pieces[x].num = 0
    BY DEF Nothing
  <2>6. raw[x].t \in Nat /\ raw[x + 1].t \in Nat
    BY <1>4, PairIs
  <2>7. ~ (raw[x + 1].t - raw[x].t > maxFill) => raw[x + 1].t - raw[x].t <= maxFill
    BY <2>6
  <2> HIDE DEF dx, num
  <2>8. QED
    BY <2>2, <2>3, <2>4, <2>5, <2>7
<1> HIDE DEF dx, num
<1>5. AddsTime(dx, hi, from, j, ts, te, maxFill)
  <2>1. ASSUME NEW x \in from .. j, x < hi
        PROVE  dx[x] = IF x < hi /\ ~ (raw[x + 1].t - raw[x].t > maxFill)
                       THEN Clip(raw[x + 1].t, ts, te) - Clip(raw[x].t, ts, te) ELSE 0
    <3>1. PICK c \in ts .. te, e \in ts .. te :
            /\ c = Clip(raw[x].t, ts, te) /\ e = Clip(raw[x + 1].t, ts, te)
            /\ c = e \/ raw[x + 1].t - raw[x].t > maxFill => dx[x] = 0
            /\ ~ (c = e \/ raw[x + 1].t - raw[x].t > maxFill) => dx[x] = e - c
      BY <1>4, <2>1
    <3>2. c = e => e - c = 0
      OBVIOUS
    <3>3. QED
      BY <2>1, <3>1, <3>2
  <2>2. QED
    BY <1>2, <2>1 DEF AddsTime
<1>6. ASSUME NEW U, Adds(U, Lines(ts, te, maxFill), ts, te - 1)
      PROVE  InStep(U, num, ts, te, hi, from, j)
  <2>1. ASSUME NEW x \in from .. j, x < hi
        PROVE  /\ U[Clip(raw[x + 1].t, ts, te) - 1] = U[Clip(raw[x].t, ts, te) - 1] + num[x]
               /\ num[x] \in Int
    <3>1. PICK c \in ts .. te, e \in ts .. te :
            /\ e \in c .. te
            /\ c = Clip(raw[x].t, ts, te) /\ e = Clip(raw[x + 1].t, ts, te)
            /\ c = e \/ raw[x + 1].t - raw[x].t > maxFill => num[x] = 0
            /\ ~ (c = e \/ raw[x + 1].t - raw[x].t > maxFill) =>
                 /\ raw[x].t < raw[x + 1].t /\ raw[x + 1].t - raw[x].t <= maxFill
                 /\ num[x] = (e - c) * (At(raw[x], raw[x + 1], c) + At(raw[x], raw[x + 1], e))
      BY <1>4, <2>1
    <3>2. U[c - 1] \in Int
      <4>1. c - 1 \in ts - 1 .. te - 1
        OBVIOUS
      <4>2. QED
        BY <1>6, <4>1 DEF Adds
    <3>3. CASE c = e \/ raw[x + 1].t - raw[x].t > maxFill
      <4>1. U[e - 1] = U[c - 1]
        BY <1>6, <2>1, <3>1, <3>3, Summands, UnknownSum
      <4>2. QED
        BY <3>1, <3>2, <3>3, <4>1
    <3>4. CASE ~ (c = e \/ raw[x + 1].t - raw[x].t > maxFill)
      <4>1. PICK p \in Point, q \in Point : p = raw[x] /\ q = raw[x + 1]
        BY <2>1, PairIs
      <4>2. p.t < q.t /\ p.v \in Int /\ p.t \in Int
        BY <3>1, <3>4, <4>1, PointFields
      <4>3. PICK s \in Int : \A t \in Int : At(p, q, t) = p.v + (t - p.t) * s
        BY <4>2, LineIs
      <4>4. ASSUME NEW u \in c .. e - 1
            PROVE  Lines(ts, te, maxFill)[u]
                     = (p.v + (u - p.t) * s) + (p.v + (u + 1 - p.t) * s)
        <5>1. /\ u \in ts .. te - 1 /\ u \in Known(ts, te, maxFill)
              /\ \A t : ValueAt(u, t, maxFill) = At(p, q, t)
          BY <2>1, <3>1, <3>4, <4>1, PairUnits
        <5>2. Lines(ts, te, maxFill)[u] = At(p, q, u) + At(p, q, u + 1)
          BY <5>1 DEF Lines
        <5>3. PICK l \in Int, m \in Int : l = u /\ m = u + 1
          OBVIOUS
        <5>4. At(p, q, l) = p.v + (l - p.t) * s /\ At(p, q, m) = p.v + (m - p.t) * s
          BY <4>3
        <5>5. QED
          BY <4>2, <5>2, <5>3, <5>4
      <4>5. PICK y \in Int, t \in Int : y = p.v /\ t = p.t
        BY <4>2
      <4>6. ts \in Int /\ te \in Int
        OBVIOUS
      <4>7. U[e - 1] = U[c - 1] + (e - c) * ((y + (c - t) * s) + (y + (e - t) * s))
        <5>1. Linear(Lines(ts, te, maxFill), c, e, y, t, s)
          BY <4>4, <4>5 DEF Linear
        <5>2. QED
          BY <1>6, <3>1, <4>6, <5>1, LineSum
      <4>8. At(p, q, c) = y + (c - t) * s /\ At(p, q, e) = y + (e - t) * s
        <5>1. c \in Int /\ e \in Int
          OBVIOUS
        <5>2. At(p, q, c) = p.v + (c - p.t) * s /\ At(p, q, e) = p.v + (e - p.t) * s
          BY <4>3, <5>1
        <5>3. QED
          BY <4>5, <5>2
      <4>9. PICK a \in Int, b \in Int : a = At(p, q, c) /\ b = At(p, q, e)
        BY <4>8
      <4>10. U[e - 1] = U[c - 1] + (e - c) * (a + b) /\ num[x] = (e - c) * (a + b)
        BY <3>1, <3>4, <4>1, <4>7, <4>8, <4>9
      <4>11. num[x] \in Int
        BY <4>10
      <4>12. QED
        BY <3>1, <4>10, <4>11
    <3>5. QED
      BY <3>3, <3>4
  <2>2. \A x \in from .. j : ~ (x < hi) => num[x] \in Int
    BY <1>2
  <2>3. QED
    BY <1>1, <1>2, <1>3, <2>1, <2>2 DEF InStep
<1>7. Total(dx, from, j) = Time(ts, te, maxFill)
  BY <1>5, TimeSum
<1>8. Total(num, from, j) = Total(Lines(ts, te, maxFill), ts, te - 1)
  BY <1>6, Summands, LoopSum
<1>9. QED
  BY <1>7, <1>8 DEF dx, num, SumOfTime, SumOfNum, TwiceIntegral, Lines

LEMMA SingleTotal ==
  ASSUME NEW f, NEW a \in Int, f[a] \in Int
  PROVE  Total(f, a, a) = f[a]
<1>1. a - 1 <= a /\ (\A x \in a .. a : x = a) /\ a \in a .. a
  OBVIOUS
<1>2. \A x \in a .. a : f[x] \in Int
  BY <1>1
<1>3. PICK s : Adds(s, f, a, a) /\ Total(f, a, a) = s[a]
  BY <1>1, <1>2, PrefixSums
<1>4. s[a - 1] = 0 /\ s[a] = s[a - 1] + f[a]
  BY <1>1, <1>3 DEF Adds
<1>5. QED
  BY <1>3, <1>4

LEMMA ConstantTotal ==
  ASSUME NEW g, NEW ts \in Nat, NEW te \in Nat, ts < te, NEW s \in Int, Same(g, ts, te, s)
  PROVE  Total(g, ts, te - 1) = (te - ts) * s
<1>1. \A u \in ts .. te - 1 : g[u] \in Int
  BY DEF Same
<1>2. ts \in Int /\ te \in Int /\ te - 1 \in Int /\ ts - 1 <= te - 1
  OBVIOUS
<1>3. PICK U : Adds(U, g, ts, te - 1) /\ Total(g, ts, te - 1) = U[te - 1]
  BY <1>1, <1>2, PrefixSums
<1>4. ts \in ts .. te /\ te \in ts .. te
  OBVIOUS
<1>5. U[te - 1] = U[ts - 1] + (te - ts) * s
  BY <1>2, <1>3, <1>4, ConstantSum
<1>6. U[ts - 1] = 0
  BY <1>3 DEF Adds
<1>7. QED
  BY <1>3, <1>5, <1>6

\* Two points around the interval.
Whole(x, hi, ts, te, maxFill) ==
  x < hi /\ raw[x].t < ts /\ te < raw[x + 1].t /\ raw[x + 1].t - raw[x].t <= maxFill

HasWhole(hi, from, j, ts, te, maxFill) == \E x \in from .. j : Whole(x, hi, ts, te, maxFill)

SumsOfWhole(pieces, from, j, ts, te, maxFill) ==
  \E d \in Nat \ {0}, s \in Int :
    /\ SumOfTime(pieces, from, j) = d /\ SumOfNum(pieces, from, j) = d * s
    /\ Time(ts, te, maxFill) = te - ts /\ Growth(ts, te, maxFill) = (te - ts) * s

\* The code divides by all of the time between two points around the interval, and what
\* it divides is the growth in all of this time.
LEMMA WholeSums ==
  ASSUME NEW ts \in Nat, NEW te \in Nat, NEW maxFill \in Nat,
         NEW lo, NEW hi, NEW i, NEW j, NEW from,
         Situation(ts, te, maxFill, lo, hi, i, j, from), Counter,
         NEW pieces, \A x \in from .. j : pieces[x] = PieceAt("rate", x, hi, ts, te, maxFill),
         HasWhole(hi, from, j, ts, te, maxFill)
  PROVE  SumsOfWhole(pieces, from, j, ts, te, maxFill)
<1> DEFINE dx == [x \in from .. j |-> pieces[x].dx]
           num == [x \in from .. j |-> pieces[x].num]
<1>1. ts < te
  BY DEF Situation
<1>2. PICK y \in from .. j :
        y < hi /\ raw[y].t < ts /\ te < raw[y + 1].t /\ raw[y + 1].t - raw[y].t <= maxFill
  BY DEF HasWhole, Whole
<1>3. PICK p \in Point, q \in Point : p = raw[y] /\ q = raw[y + 1]
  BY <1>2, PairIs
<1>4. p.t \in Nat /\ q.t \in Nat /\ p.t < q.t
  BY <1>1, <1>2, <1>3, PointFields
<1>5. PICK d \in Nat \ {0}, s \in Int : d = q.t - p.t /\ s = SlopeOf(p, q)
  BY <1>4, LineIs
<1>6. from = y /\ j = y
  <2>1. /\ lo \in Nat \ {0} /\ hi \in Nat /\ i \in lo - 1 .. hi /\ j \in i .. hi
        /\ from \in lo .. hi /\ from = (IF i < lo THEN lo ELSE i)
        /\ \A x \in lo .. hi : raw[x].t < ts <=> x <= i
        /\ \A x \in lo .. hi : raw[x].t <= te <=> x <= j
    BY SeriesPoints DEF Situation, Slice, Places
  <2>2. y \in lo .. hi /\ y + 1 \in lo .. hi
    BY <1>2, <2>1
  <2>3. y <= i
    BY <1>2, <2>1, <2>2
  <2>4. ~ (y + 1 <= j)
    BY <1>2, <1>3, <1>4, <2>1, <2>2
  <2>5. QED
    BY <2>1, <2>2, <2>3, <2>4
<1>7. Clip(raw[y].t, ts, te) = ts /\ Clip(raw[y + 1].t, ts, te) = te
  <2>1. Clip(p.t, ts, te) = ts /\ Clip(q.t, ts, te) = te
    BY <1>1, <1>2, <1>3, <1>4 DEF Clip
  <2>2. QED
    BY <1>3, <2>1
<1>8. pieces[y].dx = d /\ pieces[y].num = d * s
  <2>1. pieces[y] = PieceAt("rate", y, hi, ts, te, maxFill)
    OBVIOUS
  <2>2. ~ (ts = te \/ raw[y + 1].t - raw[y].t > maxFill)
    BY <1>1, <1>2, <1>3, <1>4
  <2>3. pieces[y].dx = raw[y + 1].t - raw[y].t /\ pieces[y].num = (raw[y + 1].t - raw[y].t) * s
    BY <1>2, <1>3, <1>5, <1>7, <2>1, <2>2, RateAt
  <2>4. QED
    BY <1>3, <1>5, <2>3
<1>9. Total(dx, from, j) = d /\ Total(num, from, j) = d * s
  <2>1. y \in Int
    BY PairIs, <1>2
  <2>2. dx[y] = d /\ num[y] = d * s /\ d \in Int /\ d * s \in Int
    BY <1>8
  <2> HIDE DEF dx, num
  <2>3. QED
    BY <1>6, <2>1, <2>2, SingleTotal
<1>10. \A u \in ts .. te - 1 : u \in Known(ts, te, maxFill) /\ Slope(u, maxFill) = s
  BY <1>2, <1>3, <1>5, <1>7, PairUnits
<1>11. Time(ts, te, maxFill) = te - ts
  <2>1. PICK o \in Int : o = 1
    OBVIOUS
  <2>2. Same(Units(ts, te, maxFill), ts, te, o)
    BY <1>10, <2>1 DEF Same, Units
  <2>3. Total(Units(ts, te, maxFill), ts, te - 1) = (te - ts) * o
    BY <1>1, <2>2, ConstantTotal
  <2>4. (te - ts) * o = te - ts
    BY <2>1
  <2>5. QED
    BY <2>3, <2>4 DEF Time, Units
<1>12. Growth(ts, te, maxFill) = (te - ts) * s
  <2>1. Same(Slopes(ts, te, maxFill), ts, te, s)
    BY <1>10 DEF Same, Slopes
  <2>2. Total(Slopes(ts, te, maxFill), ts, te - 1) = (te - ts) * s
    BY <1>1, <2>1, ConstantTotal
  <2>3. QED
    BY <2>2 DEF Growth, Slopes
<1>13. QED
  BY <1>9, <1>11, <1>12 DEF SumsOfWhole, SumOfTime, SumOfNum

\* What the loop adds up for a counter in all other cases.
LEMMA RateSums ==
  ASSUME NEW ts \in Nat, NEW te \in Nat, NEW maxFill \in Nat,
         NEW lo, NEW hi, NEW i, NEW j, NEW from,
         Situation(ts, te, maxFill, lo, hi, i, j, from), Counter,
         NEW pieces, \A x \in from .. j : pieces[x] = PieceAt("rate", x, hi, ts, te, maxFill),
         ~ HasWhole(hi, from, j, ts, te, maxFill)
  PROVE  /\ SumOfTime(pieces, from, j) = Time(ts, te, maxFill)
         /\ SumOfNum(pieces, from, j) = Growth(ts, te, maxFill)
<1> DEFINE dx == [x \in from .. j |-> pieces[x].dx]
           num == [x \in from .. j |-> pieces[x].num]
<1>1. j = hi => hi \in from .. j
  <2>1. from \in lo .. hi /\ lo \in Nat /\ hi \in Nat
    BY SeriesPoints DEF Situation, Slice, Places
  <2>2. QED
    BY <2>1
<1>2. \A x \in from .. j : ~ (x < hi) => dx[x] = 0 /\ num[x] = 0
  BY DEF PieceAt, Nothing
<1>3. ~ (hi < hi)
  <2>1. hi \in Nat
    BY SeriesPoints DEF Situation, Slice
  <2>2. QED
    BY <2>1
<1>4. ASSUME NEW x \in from .. j, x < hi
      PROVE  \E c, e \in ts .. te :
               /\ e \in c .. te
               /\ c = Clip(raw[x].t, ts, te) /\ e = Clip(raw[x + 1].t, ts, te)
               /\ c = e \/ raw[x + 1].t - raw[x].t > maxFill => dx[x] = 0 /\ num[x] = 0
               /\ ~ (c = e \/ raw[x + 1].t - raw[x].t > maxFill) =>
                    /\ raw[x].t < raw[x + 1].t /\ raw[x + 1].t - raw[x].t <= maxFill
                    /\ dx[x] = e - c
                    /\ num[x] = (e - c) * SlopeOf(raw[x], raw[x + 1])
  <2>1. PICK c \in ts .. te : \E e \in c .. te :
          /\ c = Clip(raw[x].t, ts, te) /\ e = Clip(raw[x + 1].t, ts, te)
          /\ c # e => raw[x].t <= c /\ e <= raw[x + 1].t /\ raw[x].t < raw[x + 1].t
    BY <1>4, PairEnds
  <2>2. PICK e \in c .. te :
          /\ c = Clip(raw[x].t, ts, te) /\ e = Clip(raw[x + 1].t, ts, te)
          /\ c # e => raw[x].t <= c /\ e <= raw[x + 1].t /\ raw[x].t < raw[x + 1].t
    BY <2>1
  <2>3. dx[x] = pieces[x].dx /\ num[x] = pieces[x].num
    OBVIOUS
  <2>4. IF c = e \/ raw[x + 1].t - raw[x].t > maxFill THEN pieces[x] = Nothing
        ELSE IF raw[x].t < ts /\ te < raw[x + 1].t
             THEN /\ pieces[x].dx = raw[x + 1].t - raw[x].t
                  /\ pieces[x].num = (raw[x + 1].t - raw[x].t) * SlopeOf(raw[x], raw[x + 1])
             ELSE /\ pieces[x].dx = e - c
                  /\ pieces[x].num = (e - c) * SlopeOf(raw[x], raw[x + 1])
    BY <1>4, <2>2, RateAt
  <2>5. pieces[x] = Nothing => pieces[x].dx = 0 /\ pieces[x].num = 0
    BY DEF Nothing
  <2>6. raw[x].t \in Nat /\ raw[x + 1].t \in Nat
    BY <1>4, PairIs
  <2>7. ~ (raw[x + 1].t - raw[x].t > maxFill) =>
          /\ raw[x + 1].t - raw[x].t <= maxFill
          /\ ~ (raw[x].t < ts /\ te < raw[x + 1].t)
    BY <1>4, <2>6 DEF HasWhole, Whole
  <2> HIDE DEF dx, num
  <2>8. QED
    BY <2>2, <2>3, <2>4, <2>5, <2>7
<1> HIDE DEF dx, num
<1>5. AddsTime(dx, hi, from, j, ts, te, maxFill)
  <2>1. ASSUME NEW x \in from .. j, x < hi
        PROVE  dx[x] = IF x < hi /\ ~ (raw[x + 1].t - raw[x].t > maxFill)
                       THEN Clip(raw[x + 1].t, ts, te) - Clip(raw[x].t, ts, te) ELSE 0
    <3>1. PICK c \in ts .. te, e \in ts .. te :
            /\ c = Clip(raw[x].t, ts, te) /\ e = Clip(raw[x + 1].t, ts, te)
            /\ c = e \/ raw[x + 1].t - raw[x].t > maxFill => dx[x] = 0
            /\ ~ (c = e \/ raw[x + 1].t - raw[x].t > maxFill) => dx[x] = e - c
      BY <1>4, <2>1
    <3>2. c = e => e - c = 0
      OBVIOUS
    <3>3. QED
      BY <2>1, <3>1, <3>2
  <2>2. QED
    BY <1>2, <2>1 DEF AddsTime
<1>6. ASSUME NEW U, Adds(U, Slopes(ts, te, maxFill), ts, te - 1)
      PROVE  InStep(U, num, ts, te, hi, from, j)
  <2>1. ASSUME NEW x \in from .. j, x < hi
        PROVE  /\ U[Clip(raw[x + 1].t, ts, te) - 1] = U[Clip(raw[x].t, ts, te) - 1] + num[x]
               /\ num[x] \in Int
    <3>1. PICK c \in ts .. te, e \in ts .. te :
            /\ e \in c .. te
            /\ c = Clip(raw[x].t, ts, te) /\ e = Clip(raw[x + 1].t, ts, te)
            /\ c = e \/ raw[x + 1].t - raw[x].t > maxFill => num[x] = 0
            /\ ~ (c = e \/ raw[x + 1].t - raw[x].t > maxFill) =>
                 /\ raw[x].t < raw[x + 1].t /\ raw[x + 1].t - raw[x].t <= maxFill
                 /\ num[x] = (e - c) * SlopeOf(raw[x], raw[x + 1])
      BY <1>4, <2>1
    <3>2. U[c - 1] \in Int
      <4>1. c - 1 \in ts - 1 .. te - 1
        OBVIOUS
      <4>2. QED
        BY <1>6, <4>1 DEF Adds
    <3>3. CASE c = e \/ raw[x + 1].t - raw[x].t > maxFill
      <4>1. U[e - 1] = U[c - 1]
        BY <1>6, <2>1, <3>1, <3>3, Summands, UnknownSum
      <4>2. QED
        BY <3>1, <3>2, <3>3, <4>1
    <3>4. CASE ~ (c = e \/ raw[x + 1].t - raw[x].t > maxFill)
      <4>1. PICK p \in Point, q \in Point : p = raw[x] /\ q = raw[x + 1]
        BY <2>1, PairIs
      <4>2. PICK s \in Int : s = SlopeOf(p, q)
        BY <3>1, <3>4, <4>1, LineIs
      <4>3. Same(Slopes(ts, te, maxFill), c, e, s)
        <5>1. ASSUME NEW u \in c .. e - 1
              PROVE  /\ u \in ts .. te - 1 /\ u \in Known(ts, te, maxFill)
                     /\ Slope(u, maxFill) = SlopeOf(raw[x], raw[x + 1])
          BY <2>1, <3>1, <3>4, PairUnits
        <5>2. QED
          BY <4>1, <4>2, <5>1 DEF Same, Slopes
      <4>4. ts \in Int /\ te \in Int
        OBVIOUS
      <4>5. U[e - 1] = U[c - 1] + (e - c) * s
        BY <1>6, <3>1, <4>3, <4>4, ConstantSum
      <4>6. num[x] = (e - c) * s
        BY <3>1, <3>4, <4>1, <4>2
      <4>7. (e - c) * s \in Int
        OBVIOUS
      <4>8. QED
        BY <3>1, <4>5, <4>6, <4>7
    <3>5. QED
      BY <3>3, <3>4
  <2>2. \A x \in from .. j : ~ (x < hi) => num[x] \in Int
    BY <1>2
  <2>3. QED
    BY <1>1, <1>2, <1>3, <2>1, <2>2 DEF InStep
<1>7. Total(dx, from, j) = Time(ts, te, maxFill)
  BY <1>5, TimeSum
<1>8. Total(num, from, j) = Total(Slopes(ts, te, maxFill), ts, te - 1)
  BY <1>6, Summands, LoopSum
<1>9. QED
  BY <1>7, <1>8 DEF dx, num, SumOfTime, SumOfNum, Growth, Slopes

-----------------------------------------------------------------------------
(* Extremes.                                                               *)

LEMMA ValueBounds ==
  ASSUME Series
  PROVE  \E l, h \in Int : \A x \in 1 .. Len(raw) : l <= raw[x].v /\ raw[x].v <= h
<1> DEFINE m == Len(raw)
           T == {n \in 0 .. m : \E l, h \in Int : \A x \in 1 .. n : l <= raw[x].v /\ raw[x].v <= h}
<1>1. m \in Nat
  BY SeriesPoints
<1>2. 0 \in T
  <2>1. \A x \in 1 .. 0 : FALSE
    OBVIOUS
  <2>2. QED
    BY <1>1, <2>1
<1>3. ASSUME NEW n \in 0 .. m - 1, n \in T PROVE n + 1 \in T
  <2>1. PICK l \in Int, h \in Int : \A x \in 1 .. n : l <= raw[x].v /\ raw[x].v <= h
    BY <1>3
  <2>2. n + 1 \in 1 .. m /\ \A x : x \in 1 .. n + 1 <=> x \in 1 .. n \/ x = n + 1
    BY <1>1
  <2>3. PICK v \in Int : v = raw[n + 1].v
    BY <2>2, SeriesPoints
  <2>4. PICK a \in Int, b \in Int : a <= l /\ a <= v /\ h <= b /\ v <= b
    <3>1. CASE l <= v /\ v <= h
      BY <3>1
    <3>2. CASE ~ (l <= v) /\ v <= h
      BY <3>2
    <3>3. CASE l <= v /\ ~ (v <= h)
      BY <3>3
    <3>4. CASE ~ (l <= v) /\ ~ (v <= h)
      BY <3>4
    <3>5. QED
      BY <3>1, <3>2, <3>3, <3>4
  <2>5. ASSUME NEW x \in 1 .. n + 1 PROVE a <= raw[x].v /\ raw[x].v <= b
    <3>1. x \in 1 .. m
      BY <1>1, <2>2
    <3>2. raw[x].v \in Int
      BY <3>1, SeriesPoints
    <3>3. QED
      BY <2>1, <2>2, <2>3, <2>4, <3>2
  <2>6. n + 1 \in 0 .. m
    BY <2>2
  <2>7. QED
    BY <2>5, <2>6
<1> HIDE DEF T
<1>4. m \in T
  <2> HIDE DEF m
  <2>1. \A n \in 0 .. m : n \in T
    BY <1>1, <1>2, <1>3, AllUpTo
  <2>2. QED
    BY <1>1, <2>1
<1>5. QED
  BY <1>4 DEF T

\* A line goes through its values in order.
LEMMA Between ==
  ASSUME NEW p \in Point, NEW q \in Point, p.t < q.t,
         NEW a \in Int, NEW t \in Int, NEW b \in Int, a <= t, t <= b
  PROVE  /\ At(p, q, a) \in Int /\ At(p, q, t) \in Int /\ At(p, q, b) \in Int
         /\ \/ At(p, q, a) <= At(p, q, t) /\ At(p, q, t) <= At(p, q, b)
            \/ At(p, q, b) <= At(p, q, t) /\ At(p, q, t) <= At(p, q, a)
<1>1. p.t \in Int /\ p.v \in Int
  BY PointFields
<1>2. PICK s \in Int : \A k \in Int : At(p, q, k) = p.v + (k - p.t) * s
  BY LineIs
<1>3. PICK l \in Int, m \in Nat, n \in Nat : l = a - p.t /\ t - p.t = l + m /\ b - p.t = l + m + n
  <2>1. a - p.t \in Int /\ t - a \in Nat /\ b - t \in Nat
    BY <1>1
  <2>2. t - p.t = (a - p.t) + (t - a) /\ b - p.t = (a - p.t) + (t - a) + (b - t)
    BY <1>1
  <2>3. QED
    BY <2>1, <2>2
<1>4. PICK x \in Int, y \in Int, z \in Int : x = l * s /\ y = m * s /\ z = n * s
  OBVIOUS
<1>5. (l + m) * s = x + y /\ (l + m + n) * s = x + y + z
  BY <1>4
<1>6. At(p, q, a) = p.v + x /\ At(p, q, t) = p.v + (x + y) /\ At(p, q, b) = p.v + (x + y + z)
  <2>1. At(p, q, a) = p.v + l * s
    BY <1>2, <1>3
  <2>2. At(p, q, t) = p.v + (l + m) * s
    BY <1>2, <1>3
  <2>3. At(p, q, b) = p.v + (l + m + n) * s
    BY <1>2, <1>3
  <2>4. QED
    BY <1>4, <1>5, <2>1, <2>2, <2>3
<1>7. (0 <= y /\ 0 <= z) \/ (y <= 0 /\ z <= 0)
  <2>1. CASE 0 <= s
    <3>1. 0 <= m * s /\ 0 <= n * s
      BY <2>1
    <3>2. QED
      BY <1>4, <3>1
  <2>2. CASE s <= 0
    <3>1. m * s <= 0 /\ n * s <= 0
      BY <2>2
    <3>2. QED
      BY <1>4, <3>1
  <2>3. QED
    BY <2>1, <2>2
<1>8. QED
  BY <1>1, <1>6, <1>7

\* The line a known unit is on.
LEMMA UnitLine ==
  ASSUME NEW ts \in Nat, NEW te \in Nat, NEW maxFill \in Nat,
         NEW lo, NEW hi, NEW i, NEW j, NEW from,
         Situation(ts, te, maxFill, lo, hi, i, j, from), NEW u \in Known(ts, te, maxFill)
  PROVE  \E x \in from .. j, c, e \in ts .. te :
           /\ x < hi /\ raw[x + 1].t - raw[x].t <= maxFill
           /\ c = Clip(raw[x].t, ts, te) /\ e = Clip(raw[x + 1].t, ts, te)
           /\ c # e /\ raw[x].t <= c /\ e <= raw[x + 1].t /\ raw[x].t < raw[x + 1].t
           /\ u \in Int /\ c <= u /\ u + 1 <= e
           /\ \A t : ValueAt(u, t, maxFill) = At(raw[x], raw[x + 1], t)
           /\ Slope(u, maxFill) = SlopeOf(raw[x], raw[x + 1])
<1>1. PICK x \in from .. j :
        /\ x < hi /\ raw[x + 1].t - raw[x].t <= maxFill
        /\ u \in Clip(raw[x].t, ts, te) .. Clip(raw[x + 1].t, ts, te) - 1
  BY UnitPair
<1>2. PICK c \in ts .. te : \E e \in c .. te :
        /\ c = Clip(raw[x].t, ts, te) /\ e = Clip(raw[x + 1].t, ts, te)
        /\ c # e => raw[x].t <= c /\ e <= raw[x + 1].t /\ raw[x].t < raw[x + 1].t
  BY <1>1, PairEnds
<1>3. PICK e \in c .. te :
        /\ c = Clip(raw[x].t, ts, te) /\ e = Clip(raw[x + 1].t, ts, te)
        /\ c # e => raw[x].t <= c /\ e <= raw[x + 1].t /\ raw[x].t < raw[x + 1].t
  BY <1>2
<1>4. u \in c .. e - 1
  BY <1>1, <1>3
<1>5. c # e /\ e \in ts .. te /\ u \in Int /\ c <= u /\ u + 1 <= e
  BY <1>4
<1>6. /\ \A t : ValueAt(u, t, maxFill) = At(raw[x], raw[x + 1], t)
      /\ Slope(u, maxFill) = SlopeOf(raw[x], raw[x + 1])
  BY <1>1, <1>3, <1>4, PairUnits
<1>7. QED
  BY <1>1, <1>3, <1>5, <1>6

\* A point in the interval is one of those the loop looks at.
LEMMA PointFound ==
  ASSUME NEW ts \in Nat, NEW te \in Nat, NEW maxFill \in Nat,
         NEW lo, NEW hi, NEW i, NEW j, NEW from,
         Situation(ts, te, maxFill, lo, hi, i, j, from), Distinct,
         NEW x \in 1 .. Len(raw), ts <= raw[x].t, raw[x].t <= te
  PROVE  x \in from .. j
<1>1. /\ Series /\ ts \in Nat /\ te \in Nat /\ ts < te
      /\ lo \in Nat \ {0} /\ hi \in Nat /\ hi <= Len(raw) /\ Len(raw) \in Nat
      /\ lo \in 1 .. Len(raw) /\ hi \in lo .. Len(raw)
      /\ lo > 1 => raw[lo].t <= ts
      /\ hi < Len(raw) => te < raw[hi].t
      /\ i \in lo - 1 .. hi /\ \A y \in lo .. hi : raw[y].t < ts <=> y <= i
      /\ j \in i .. hi /\ \A y \in lo .. hi : raw[y].t <= te <=> y <= j
      /\ from = (IF i < lo THEN lo ELSE i)
  BY SeriesPoints DEF Situation, Slice, Places
<1>2. raw[x].t \in Nat /\ raw[lo].t \in Nat /\ raw[hi].t \in Nat
  BY <1>1, SeriesPoints
<1>3. x >= lo
  <2>1. SUFFICES ASSUME x < lo PROVE FALSE
    BY <1>1
  <2>2. /\ x + 1 <= lo /\ lo > 1 /\ x \in 1 .. Len(raw) - 1
        /\ x + 1 \in 1 .. Len(raw) /\ lo \in 1 .. Len(raw)
    BY <1>1, <2>1
  <2>3. raw[x].t < raw[x + 1].t
    BY <2>2 DEF Distinct
  <2>4. raw[x + 1].t <= raw[lo].t
    BY <1>1, <2>2 DEF Series
  <2>5. raw[x + 1].t \in Nat
    BY <1>1, <2>2, SeriesPoints
  <2>6. PICK a \in Nat, b \in Nat, c \in Nat : a = raw[x].t /\ b = raw[x + 1].t /\ c = raw[lo].t
    BY <1>2, <2>5
  <2>7. ts <= a /\ a < b /\ b <= c /\ c <= ts
    BY <1>1, <2>2, <2>3, <2>4, <2>6
  <2>8. QED
    BY <2>7
<1>4. x <= hi
  <2>1. SUFFICES ASSUME x > hi PROVE FALSE
    BY <1>1
  <2>2. hi < Len(raw) /\ hi <= x /\ hi \in 1 .. Len(raw)
    BY <1>1, <2>1
  <2>3. raw[hi].t <= raw[x].t
    BY <1>1, <2>2 DEF Series
  <2>4. QED
    BY <1>1, <1>2, <2>2, <2>3
<1>5. x \in lo .. hi
  BY <1>1, <1>3, <1>4
<1>6. x <= j /\ ~ (x <= i)
  BY <1>1, <1>2, <1>5
<1>7. QED
  BY <1>1, <1>3, <1>6

\* What an absolute value reaches: at its points and at both ends of the known units.
Reached(ts, te, maxFill) ==
  {raw[x].v : x \in {y \in DOMAIN raw : raw[y].t \in ts .. te}}
    \cup {ValueAt(u, u, maxFill) : u \in Known(ts, te, maxFill)}
    \cup {ValueAt(u, u + 1, maxFill) : u \in Known(ts, te, maxFill)}

\* What the code compares.
Compared(pieces, from, j, ts) ==
  {raw[x].v : x \in {y \in from .. j : raw[y].t >= ts}} \cup UNION {pieces[x].vals : x \in from .. j}

LEMMA ReachedBounds ==
  ASSUME NEW ts \in Nat, NEW te \in Nat, NEW maxFill \in Nat,
         NEW lo, NEW hi, NEW i, NEW j, NEW from,
         Situation(ts, te, maxFill, lo, hi, i, j, from)
  PROVE  \E l, h \in Int : \A v \in Reached(ts, te, maxFill) : v \in Int /\ l <= v /\ v <= h
<1>1. Series
  BY DEF Situation
<1>2. PICK l \in Int, h \in Int : \A x \in 1 .. Len(raw) : l <= raw[x].v /\ raw[x].v <= h
  BY <1>1, ValueBounds
<1>3. ASSUME NEW u \in Known(ts, te, maxFill), NEW t \in Int, t = u \/ t = u + 1
      PROVE  ValueAt(u, t, maxFill) \in Int /\ l <= ValueAt(u, t, maxFill) /\ ValueAt(u, t, maxFill) <= h
  <2>1. PICK x \in from .. j, c \in ts .. te, e \in ts .. te :
          /\ x < hi /\ raw[x].t <= c /\ e <= raw[x + 1].t /\ raw[x].t < raw[x + 1].t
          /\ u \in Int /\ c <= u /\ u + 1 <= e
          /\ \A k : ValueAt(u, k, maxFill) = At(raw[x], raw[x + 1], k)
    BY UnitLine
  <2>2. PICK p \in Point, q \in Point : p = raw[x] /\ q = raw[x + 1]
    BY <2>1, PairIs
  <2>3. p.t \in Int /\ q.t \in Int /\ p.v \in Int /\ q.v \in Int /\ p.t < q.t
    BY <2>1, <2>2, PointFields
  <2>4. p.t <= t /\ t <= q.t
    BY <1>3, <2>1, <2>2, <2>3
  <2>5. At(p, q, p.t) = p.v /\ At(p, q, q.t) = q.v
    BY <2>3, LineEnds
  <2>6. /\ At(p, q, t) \in Int
        /\ \/ p.v <= At(p, q, t) /\ At(p, q, t) <= q.v
           \/ q.v <= At(p, q, t) /\ At(p, q, t) <= p.v
    <3>1. PICK a \in Int, b \in Int : a = p.t /\ b = q.t /\ a <= t /\ t <= b
      BY <2>3, <2>4
    <3>2. /\ At(p, q, t) \in Int
          /\ \/ At(p, q, a) <= At(p, q, t) /\ At(p, q, t) <= At(p, q, b)
             \/ At(p, q, b) <= At(p, q, t) /\ At(p, q, t) <= At(p, q, a)
      BY <2>3, <3>1, Between
    <3>3. QED
      BY <2>5, <3>1, <3>2
  <2>7. x \in 1 .. Len(raw) /\ x + 1 \in 1 .. Len(raw)
    <3>1. x \in 1 .. Len(raw) - 1 /\ Len(raw) \in Nat
      BY <1>1, <2>1, PairIs, SeriesPoints
    <3>2. QED
      BY <3>1
  <2>8. l <= p.v /\ p.v <= h /\ l <= q.v /\ q.v <= h
    BY <1>2, <2>2, <2>7
  <2>9. ValueAt(u, t, maxFill) = At(p, q, t)
    BY <2>1, <2>2
  <2>10. QED
    BY <2>3, <2>6, <2>8, <2>9
<1>4. ASSUME NEW v \in Reached(ts, te, maxFill) PROVE v \in Int /\ l <= v /\ v <= h
  <2>1. CASE \E x \in DOMAIN raw : v = raw[x].v
    <3>1. PICK x \in 1 .. Len(raw) : v = raw[x].v
      BY <1>1, <2>1 DEF Series
    <3>2. v \in Int
      BY <1>1, <3>1, SeriesPoints
    <3>3. QED
      BY <1>2, <3>1, <3>2
  <2>2. CASE \E u \in Known(ts, te, maxFill) :
               v = ValueAt(u, u, maxFill) \/ v = ValueAt(u, u + 1, maxFill)
    <3>0. PICK u \in Known(ts, te, maxFill) :
            v = ValueAt(u, u, maxFill) \/ v = ValueAt(u, u + 1, maxFill)
      BY <2>2
    <3>1. PICK t : v = ValueAt(u, t, maxFill) /\ (t = u \/ t = u + 1)
      BY <3>0
    <3>2. u \in ts .. te - 1
      BY DEF Known
    <3>3. t \in Int
      BY <3>1, <3>2
    <3>4. QED
      BY <1>3, <3>1, <3>3
  <2>3. QED
    BY <2>1, <2>2 DEF Reached
<1>5. QED
  BY <1>4

\* An absolute value in the interval is between two values the code compares.
LEMMA ComparedIs ==
  ASSUME NEW ts \in Nat, NEW te \in Nat, NEW maxFill \in Nat,
         NEW lo, NEW hi, NEW i, NEW j, NEW from,
         Situation(ts, te, maxFill, lo, hi, i, j, from), Distinct,
         NEW pieces, \A x \in from .. j :
                       pieces[x] = PieceAt("absolute", x, hi, ts, te, maxFill)
  PROVE  /\ Compared(pieces, from, j, ts) \subseteq Reached(ts, te, maxFill)
         /\ \A v \in Reached(ts, te, maxFill) :
              \E w, z \in Compared(pieces, from, j, ts) : w <= v /\ v <= z
<1>1. /\ Series /\ ts < te /\ Len(raw) \in Nat /\ DOMAIN raw = 1 .. Len(raw)
      /\ lo \in Nat \ {0} /\ hi \in Nat /\ hi <= Len(raw)
      /\ i \in lo - 1 .. hi
      /\ j \in i .. hi /\ \A y \in lo .. hi : raw[y].t <= te <=> y <= j
      /\ from \in lo .. hi
  <2>1. Series /\ ts < te
    BY DEF Situation
  <2>2. Len(raw) \in Nat \ {0} /\ DOMAIN raw = 1 .. Len(raw)
    BY <2>1, SeriesPoints DEF Series
  <2>3. lo \in Nat \ {0} /\ hi \in Nat /\ hi <= Len(raw)
    BY <2>2 DEF Situation, Slice
  <2>4. QED
    BY <2>1, <2>2, <2>3 DEF Situation, Places
<1>2. \A x \in from .. j : x \in lo .. hi /\ x \in DOMAIN raw /\ raw[x].t \in Nat /\ raw[x].t <= te
  <2>1. \A x \in from .. j : x \in lo .. hi /\ x \in DOMAIN raw /\ x <= j
    BY <1>1
  <2>2. \A x \in from .. j : raw[x].t \in Nat
    BY <1>1, <2>1, SeriesPoints
  <2>3. QED
    BY <1>1, <2>1, <2>2
<1>3. ASSUME NEW v \in Compared(pieces, from, j, ts) PROVE v \in Reached(ts, te, maxFill)
  <2>1. CASE \E x \in from .. j : raw[x].t >= ts /\ v = raw[x].v
    <3>1. PICK x \in from .. j : raw[x].t >= ts /\ v = raw[x].v
      BY <2>1
    <3>2. x \in DOMAIN raw /\ raw[x].t \in ts .. te
      BY <1>2, <3>1
    <3>3. QED
      BY <3>1, <3>2 DEF Reached
  <2>2. CASE \E x \in from .. j : v \in pieces[x].vals
    <3>1. PICK x \in from .. j : v \in pieces[x].vals
      BY <2>2
    <3>2. pieces[x] # Nothing
      BY <3>1 DEF Nothing
    <3>3. x < hi
      BY <3>2 DEF PieceAt
    <3>4. PICK c \in ts .. te : \E e \in c .. te :
            /\ c = Clip(raw[x].t, ts, te) /\ e = Clip(raw[x + 1].t, ts, te)
            /\ c # e => raw[x].t <= c /\ e <= raw[x + 1].t /\ raw[x].t < raw[x + 1].t
      BY <3>3, PairEnds
    <3>5. PICK e \in c .. te :
            /\ c = Clip(raw[x].t, ts, te) /\ e = Clip(raw[x + 1].t, ts, te)
            /\ c # e => raw[x].t <= c /\ e <= raw[x + 1].t /\ raw[x].t < raw[x + 1].t
      BY <3>4
    <3>6. IF c = e \/ raw[x + 1].t - raw[x].t > maxFill THEN pieces[x] = Nothing
          ELSE pieces[x].vals \subseteq {At(raw[x], raw[x + 1], c), At(raw[x], raw[x + 1], e)}
      <4>1. pieces[x] = PieceAt("absolute", x, hi, ts, te, maxFill)
        OBVIOUS
      <4>2. QED
        BY <3>3, <3>5, <4>1, AbsoluteAt
    <3>7. /\ c # e /\ ~ (raw[x + 1].t - raw[x].t > maxFill)
          /\ v = At(raw[x], raw[x + 1], c) \/ v = At(raw[x], raw[x + 1], e)
      BY <3>1, <3>2, <3>6
    <3>8. raw[x + 1].t - raw[x].t <= maxFill
      <4>1. raw[x].t \in Nat /\ raw[x + 1].t \in Nat
        BY <3>3, PairIs
      <4>2. QED
        BY <3>7, <4>1
    <3>9. ASSUME NEW u \in c .. e - 1
          PROVE  /\ u \in Known(ts, te, maxFill)
                 /\ \A t : ValueAt(u, t, maxFill) = At(raw[x], raw[x + 1], t)
      <4>1. IF raw[x + 1].t - raw[x].t <= maxFill
            THEN /\ u \in Known(ts, te, maxFill)
                 /\ \A t : ValueAt(u, t, maxFill) = At(raw[x], raw[x + 1], t)
                 /\ Slope(u, maxFill) = SlopeOf(raw[x], raw[x + 1])
            ELSE u \notin Known(ts, te, maxFill)
        BY <3>3, <3>5, PairUnits
      <4>2. QED
        BY <3>8, <4>1
    <3>10. c \in c .. e - 1 /\ e - 1 \in c .. e - 1 /\ e - 1 + 1 = e
      BY <3>7
    <3>11. CASE v = At(raw[x], raw[x + 1], c)
      <4>1. c \in Known(ts, te, maxFill) /\ ValueAt(c, c, maxFill) = v
        BY <3>9, <3>10, <3>11
      <4>2. QED
        BY <4>1 DEF Reached
    <3>12. CASE v = At(raw[x], raw[x + 1], e)
      <4>1. e - 1 \in Known(ts, te, maxFill) /\ ValueAt(e - 1, e - 1 + 1, maxFill) = v
        BY <3>9, <3>10, <3>12
      <4>2. QED
        BY <4>1 DEF Reached
    <3>13. QED
      BY <3>7, <3>11, <3>12
  <2>3. QED
    BY <2>1, <2>2 DEF Compared
<1>4. \A x \in DOMAIN raw : ts <= raw[x].t /\ raw[x].t <= te =>
                              raw[x].v \in Compared(pieces, from, j, ts)
  <2>1. ASSUME NEW x \in DOMAIN raw, ts <= raw[x].t, raw[x].t <= te
        PROVE  raw[x].v \in Compared(pieces, from, j, ts)
    <3>1. x \in 1 .. Len(raw) /\ raw[x].t \in Nat
      BY <1>1, SeriesPoints
    <3>2. x \in from .. j
      BY <2>1, <3>1, PointFound
    <3>3. raw[x].t >= ts
      BY <2>1, <3>1
    <3>4. QED
      BY <3>2, <3>3 DEF Compared
  <2>2. QED
    BY <2>1
<1>5. ASSUME NEW u \in Known(ts, te, maxFill), NEW t \in Int, t = u \/ t = u + 1
      PROVE  \E w, z \in Compared(pieces, from, j, ts) :
               w <= ValueAt(u, t, maxFill) /\ ValueAt(u, t, maxFill) <= z
  <2>1. PICK x \in from .. j, c \in ts .. te, e \in ts .. te :
          /\ x < hi /\ raw[x + 1].t - raw[x].t <= maxFill
          /\ c = Clip(raw[x].t, ts, te) /\ e = Clip(raw[x + 1].t, ts, te)
          /\ c # e /\ raw[x].t <= c /\ e <= raw[x + 1].t /\ raw[x].t < raw[x + 1].t
          /\ u \in Int /\ c <= u /\ u + 1 <= e
          /\ \A k : ValueAt(u, k, maxFill) = At(raw[x], raw[x + 1], k)
    BY UnitLine
  <2>2. PICK p \in Point, q \in Point : p = raw[x] /\ q = raw[x + 1]
    BY <2>1, PairIs
  <2>3. p.t \in Nat /\ q.t \in Nat /\ p.t < q.t /\ p.t <= te /\ ts <= q.t
    BY <2>1, <2>2, PairIs
  <2>4. At(p, q, p.t) = p.v /\ At(p, q, q.t) = q.v
    BY <2>3, LineEnds
  <2>5. ~ (c = e \/ raw[x + 1].t - raw[x].t > maxFill)
    BY <2>1, <2>2, <2>3
  <2>6. /\ p.t < ts => At(p, q, c) \in pieces[x].vals
        /\ te < q.t => At(p, q, e) \in pieces[x].vals
    <3>1. pieces[x] = PieceAt("absolute", x, hi, ts, te, maxFill)
      OBVIOUS
    <3>2. QED
      BY <2>1, <2>2, <2>5, <3>1, AbsoluteAt
  <2>7. x \in DOMAIN raw /\ x + 1 \in DOMAIN raw
    <3>1. x \in 1 .. Len(raw) - 1
      BY <2>1, PairIs
    <3>2. QED
      BY <1>1, <3>1
  <2>8. At(p, q, c) \in Compared(pieces, from, j, ts)
    <3>1. CASE p.t < ts
      BY <2>6, <3>1 DEF Compared
    <3>2. CASE ~ (p.t < ts)
      <4>1. c = p.t /\ ts <= p.t
        BY <1>1, <2>1, <2>2, <2>3, <3>2 DEF Clip
      <4>2. p.v \in Compared(pieces, from, j, ts)
        BY <1>4, <2>2, <2>3, <2>7, <4>1
      <4>3. QED
        BY <2>4, <4>1, <4>2
    <3>3. QED
      BY <3>1, <3>2
  <2>9. At(p, q, e) \in Compared(pieces, from, j, ts)
    <3>1. CASE te < q.t
      BY <2>6, <3>1 DEF Compared
    <3>2. CASE ~ (te < q.t)
      <4>1. e = q.t /\ q.t <= te
        BY <1>1, <2>1, <2>2, <2>3, <3>2 DEF Clip
      <4>2. q.v \in Compared(pieces, from, j, ts)
        BY <1>4, <2>2, <2>3, <2>7, <4>1
      <4>3. QED
        BY <2>4, <4>1, <4>2
    <3>3. QED
      BY <3>1, <3>2
  <2>10. ValueAt(u, t, maxFill) = At(p, q, t)
    BY <2>1, <2>2
  <2>11. c \in Int /\ e \in Int /\ c <= t /\ t <= e
    BY <1>5, <2>1
  <2>12. \/ At(p, q, c) <= At(p, q, t) /\ At(p, q, t) <= At(p, q, e)
         \/ At(p, q, e) <= At(p, q, t) /\ At(p, q, t) <= At(p, q, c)
    BY <2>3, <2>11, Between
  <2>13. QED
    BY <2>8, <2>9, <2>10, <2>12
<1>6. ASSUME NEW v \in Reached(ts, te, maxFill)
      PROVE  \E w, z \in Compared(pieces, from, j, ts) : w <= v /\ v <= z
  <2>1. CASE \E x \in DOMAIN raw : raw[x].t \in ts .. te /\ v = raw[x].v
    <3>1. PICK x \in DOMAIN raw : raw[x].t \in ts .. te /\ v = raw[x].v
      BY <2>1
    <3>2. raw[x].v \in Int /\ ts <= raw[x].t /\ raw[x].t <= te
      BY <1>1, <3>1, SeriesPoints
    <3>3. v \in Compared(pieces, from, j, ts) /\ v <= v
      BY <1>4, <3>1, <3>2
    <3>4. QED
      BY <3>3
  <2>2. CASE \E u \in Known(ts, te, maxFill) :
               v = ValueAt(u, u, maxFill) \/ v = ValueAt(u, u + 1, maxFill)
    <3>0. PICK u \in Known(ts, te, maxFill) :
            v = ValueAt(u, u, maxFill) \/ v = ValueAt(u, u + 1, maxFill)
      BY <2>2
    <3>1. PICK t : v = ValueAt(u, t, maxFill) /\ (t = u \/ t = u + 1)
      BY <3>0
    <3>2. u \in ts .. te - 1
      BY DEF Known
    <3>3. t \in Int
      BY <3>1, <3>2
    <3>4. QED
      BY <1>5, <3>1, <3>3
  <2>3. QED
    BY <2>1, <2>2 DEF Reached
<1>7. QED
  BY <1>3, <1>6

LEMMA AbsoluteExtremes ==
  ASSUME NEW ts \in Nat, NEW te \in Nat, NEW maxFill \in Nat,
         NEW lo, NEW hi, NEW i, NEW j, NEW from,
         Situation(ts, te, maxFill, lo, hi, i, j, from), Distinct,
         NEW pieces, \A x \in from .. j :
                       pieces[x] = PieceAt("absolute", x, hi, ts, te, maxFill),
         Known(ts, te, maxFill) # {}
  PROVE  /\ Compared(pieces, from, j, ts) # {}
         /\ Min(Compared(pieces, from, j, ts)) = Min(Reached(ts, te, maxFill))
         /\ Max(Compared(pieces, from, j, ts)) = Max(Reached(ts, te, maxFill))
<1> DEFINE A == Compared(pieces, from, j, ts)
           B == Reached(ts, te, maxFill)
<1>1. A \subseteq B /\ \A v \in B : \E w, z \in A : w <= v /\ v <= z
  BY ComparedIs
<1>2. PICK l \in Int, h \in Int : \A v \in B : v \in Int /\ l <= v /\ v <= h
  BY ReachedBounds
<1>3. B # {}
  BY DEF Reached
<1> HIDE DEF A, B
<1>4. A # {} /\ A \in SUBSET Int /\ B \in SUBSET Int
  BY <1>1, <1>2, <1>3
<1>5. Min(A) = Min(B)
  <2>1. (\A x \in B : l <= x) /\ (\A x \in B : \E y \in A : y <= x)
    BY <1>1, <1>2
  <2>2. QED
    BY <1>1, <1>4, <2>1, SameMin
<1>6. Max(A) = Max(B)
  <2>1. (\A x \in B : x <= h) /\ (\A x \in B : \E y \in A : x <= y)
    BY <1>1, <1>2
  <2>2. QED
    BY <1>1, <1>4, <2>1, SameMax
<1>7. QED
  BY <1>4, <1>5, <1>6 DEF A, B

Rates(pieces, from, j) == UNION {pieces[x].vals : x \in from .. j}

LEMMA RateValues ==
  ASSUME NEW ts \in Nat, NEW te \in Nat, NEW maxFill \in Nat,
         NEW lo, NEW hi, NEW i, NEW j, NEW from,
         Situation(ts, te, maxFill, lo, hi, i, j, from), Counter,
         NEW pieces, \A x \in from .. j : pieces[x] = PieceAt("rate", x, hi, ts, te, maxFill)
  PROVE  Rates(pieces, from, j) = {Slope(u, maxFill) : u \in Known(ts, te, maxFill)}
<1>1. ASSUME NEW x \in from .. j, NEW v \in pieces[x].vals
      PROVE  \E u \in Known(ts, te, maxFill) : v = Slope(u, maxFill)
  <2>1. pieces[x] # Nothing
    BY DEF Nothing
  <2>2. x < hi
    BY <2>1 DEF PieceAt
  <2>3. PICK c \in ts .. te : \E e \in c .. te :
          /\ c = Clip(raw[x].t, ts, te) /\ e = Clip(raw[x + 1].t, ts, te)
          /\ c # e => raw[x].t <= c /\ e <= raw[x + 1].t /\ raw[x].t < raw[x + 1].t
    BY <2>2, PairEnds
  <2>4. PICK e \in c .. te : c = Clip(raw[x].t, ts, te) /\ e = Clip(raw[x + 1].t, ts, te)
    BY <2>3
  <2>5. IF c = e \/ raw[x + 1].t - raw[x].t > maxFill THEN pieces[x] = Nothing
        ELSE pieces[x].vals = {SlopeOf(raw[x], raw[x + 1])}
    <3>1. pieces[x] = PieceAt("rate", x, hi, ts, te, maxFill)
      OBVIOUS
    <3>2. QED
      BY <2>2, <2>4, <3>1, RateAt
  <2>6. c # e /\ v = SlopeOf(raw[x], raw[x + 1]) /\ ~ (raw[x + 1].t - raw[x].t > maxFill)
    BY <2>1, <2>5
  <2>7. raw[x + 1].t - raw[x].t <= maxFill
    <3>1. raw[x].t \in Nat /\ raw[x + 1].t \in Nat
      BY <2>2, PairIs
    <3>2. QED
      BY <2>6, <3>1
  <2>8. c \in c .. e - 1
    BY <2>6
  <2>9. c \in Known(ts, te, maxFill) /\ Slope(c, maxFill) = SlopeOf(raw[x], raw[x + 1])
    BY <2>2, <2>4, <2>7, <2>8, PairUnits
  <2>10. QED
    BY <2>6, <2>9
<1>2. ASSUME NEW u \in Known(ts, te, maxFill)
      PROVE  \E x \in from .. j : Slope(u, maxFill) \in pieces[x].vals
  <2>1. PICK x \in from .. j, c \in ts .. te, e \in ts .. te :
          /\ x < hi /\ raw[x + 1].t - raw[x].t <= maxFill
          /\ c = Clip(raw[x].t, ts, te) /\ e = Clip(raw[x + 1].t, ts, te) /\ c # e
          /\ Slope(u, maxFill) = SlopeOf(raw[x], raw[x + 1])
    BY UnitLine
  <2>2. ~ (c = e \/ raw[x + 1].t - raw[x].t > maxFill)
    <3>1. raw[x].t \in Nat /\ raw[x + 1].t \in Nat
      BY <2>1, PairIs
    <3>2. QED
      BY <2>1, <3>1
  <2>3. pieces[x].vals = {SlopeOf(raw[x], raw[x + 1])}
    <3>1. pieces[x] = PieceAt("rate", x, hi, ts, te, maxFill)
      OBVIOUS
    <3>2. QED
      BY <2>1, <2>2, <3>1, RateAt
  <2>4. QED
    BY <2>1, <2>3
<1>3. QED
  BY <1>1, <1>2 DEF Rates

\* The known time is the number of known units.
LEMMA TimeKnown ==
  ASSUME NEW ts \in Nat, NEW te \in Nat, ts < te, NEW maxFill \in Nat
  PROVE  /\ Time(ts, te, maxFill) \in Nat
         /\ Time(ts, te, maxFill) = 0 <=> Known(ts, te, maxFill) = {}
<1> DEFINE g == Units(ts, te, maxFill)
<1>1. \A u \in ts .. te - 1 : g[u] \in {0, 1} /\ (g[u] = 0 <=> u \notin Known(ts, te, maxFill))
  BY DEF Units
<1>2. \A u \in Known(ts, te, maxFill) : u \in ts .. te - 1
  BY DEF Known
<1>3. Total(g, ts, te - 1) = Time(ts, te, maxFill)
  BY DEF Time, Units
<1> HIDE DEF g
<1>4. ts \in Int /\ te \in Int /\ te - 1 \in Int /\ ts - 1 <= te - 1 /\ ts <= te
  OBVIOUS
<1>5. \A u \in ts .. te - 1 : g[u] \in Int
  BY <1>1
<1>6. PICK U : Adds(U, g, ts, te - 1) /\ Total(g, ts, te - 1) = U[te - 1]
  BY <1>4, <1>5, PrefixSums
<1>7. U[te - 1] \in Nat /\ (U[te - 1] = 0 <=> \A u \in ts .. te - 1 : g[u] = 0)
  BY <1>1, <1>4, <1>6, CountsOnes
<1>8. QED
  BY <1>1, <1>2, <1>3, <1>6, <1>7

-----------------------------------------------------------------------------
(* One result.                                                             *)

LEMMA OneValue ==
  ASSUME NEW v \in Int
  PROVE  Is([num |-> v, denom |-> 1, min |-> v, max |-> v], v, 1, {v})
<1> DEFINE S == {v}
<1>1. S \in SUBSET Int /\ S # {} /\ (\A x \in S : v <= x) /\ (\A x \in S : x <= v)
  OBVIOUS
<1>2. \A x \in S : x = v
  OBVIOUS
<1> HIDE DEF S
<1>3. Min(S) \in S
  BY <1>1, MinOf
<1>4. Max(S) \in S
  BY <1>1, MaxOf
<1>5. Min(S) = v /\ Max(S) = v
  BY <1>2, <1>3, <1>4
<1> DEFINE res == [num |-> v, denom |-> 1, min |-> v, max |-> v]
<1>6. res.num = v /\ res.denom = 1 /\ res.min = v /\ res.max = v
  OBVIOUS
<1> HIDE DEF res
<1>7. Is(res, v, 1, S)
  BY <1>5, <1>6 DEF Is
<1>8. QED
  BY <1>7 DEF res, S

\* A point in the interval is found if nothing is known, whatever has been cut off.
LEMMA AloneFound ==
  ASSUME NEW ts \in Nat, NEW te \in Nat, NEW maxFill \in Nat,
         NEW lo, NEW hi, NEW i, NEW j, NEW from,
         Situation(ts, te, maxFill, lo, hi, i, j, from),
         NEW x \in 1 .. Len(raw), raw[x].t \in ts .. te - 1
  PROVE  i < hi /\ raw[i + 1].t \in ts .. te - 1
<1>1. /\ Series /\ ts < te
      /\ lo \in Nat \ {0} /\ hi \in Nat /\ hi <= Len(raw) /\ Len(raw) \in Nat
      /\ lo \in 1 .. Len(raw) /\ hi \in lo .. Len(raw)
      /\ lo > 1 => raw[lo].t <= ts
      /\ hi < Len(raw) => te < raw[hi].t
      /\ i \in lo - 1 .. hi /\ \A y \in lo .. hi : raw[y].t < ts <=> y <= i
  BY SeriesPoints DEF Situation, Slice, Places
<1>2. \A y \in lo .. hi : y \in 1 .. Len(raw) /\ raw[y].t \in Nat
  BY <1>1, SeriesPoints
<1>3. PICK y \in lo .. hi : raw[y].t \in ts .. te - 1
  <2>1. CASE x \in lo .. hi
    BY <2>1
  <2>2. CASE x > hi
    <3>1. hi < Len(raw) /\ hi <= x /\ hi \in 1 .. Len(raw) /\ hi \in lo .. hi
      BY <1>1, <2>2
    <3>2. raw[hi].t <= raw[x].t
      BY <1>1, <3>1 DEF Series
    <3>3. raw[hi].t \in Nat
      BY <1>2, <3>1
    <3>4. QED
      BY <1>1, <3>1, <3>2, <3>3
  <2>3. CASE x < lo
    <3>1. lo > 1 /\ x <= lo /\ lo \in lo .. hi
      BY <1>1, <2>3
    <3>2. raw[x].t <= raw[lo].t /\ raw[lo].t <= ts
      BY <1>1, <3>1 DEF Series
    <3>3. raw[lo].t \in Nat
      BY <1>2, <3>1
    <3>4. raw[lo].t \in ts .. te - 1
      BY <1>1, <3>2, <3>3
    <3>5. QED
      BY <3>1, <3>4
  <2>4. QED
    BY <1>1, <2>1, <2>2, <2>3
<1>4. ~ (raw[y].t < ts)
  BY <1>3
<1>5. ~ (y <= i)
  BY <1>1, <1>4
<1>6. i < hi /\ i + 1 \in lo .. hi /\ i + 1 <= y /\ ~ (i + 1 <= i)
  BY <1>1, <1>5
<1>7. ~ (raw[i + 1].t < ts)
  BY <1>1, <1>6
<1>8. raw[i + 1].t <= raw[y].t
  BY <1>1, <1>2, <1>6 DEF Series
<1>9. raw[i + 1].t \in Nat
  BY <1>2, <1>6
<1>10. QED
  BY <1>3, <1>6, <1>7, <1>8, <1>9

LEMMA AbsoluteInterval ==
  ASSUME NEW ts \in Nat, NEW te \in Nat, NEW maxFill \in Nat, ts < te, te - ts <= maxFill,
         Series, NEW lo, NEW hi, Slice(lo, hi, ts, te)
  PROVE  AbsoluteRight(Interval(raw, lo, hi, "absolute", ts, te, maxFill), ts, te, maxFill)
<1> DEFINE res == Interval(raw, lo, hi, "absolute", ts, te, maxFill)
           i == Max({lo - 1} \cup {x \in lo .. hi : raw[x].t < ts})
           j == Max({i} \cup {x \in lo .. hi : raw[x].t <= te})
           from == Max({lo, i})
           pieces == [x \in from .. j |-> PieceAt("absolute", x, hi, ts, te, maxFill)]
           dx == SumOfTime(pieces, from, j)
           num == SumOfNum(pieces, from, j)
           vals == Compared(pieces, from, j, ts)
<1>1. Situation(ts, te, maxFill, lo, hi, i, j, from)
  <2>1. PICK i0, j0, from0 : i0 = i /\ j0 = j /\ from0 = from
    OBVIOUS
  <2>2. Places(lo, hi, ts, te, i0, j0, from0)
    BY <2>1, PlacesAre
  <2> HIDE DEF i, j, from
  <2>3. QED
    BY <2>1, <2>2 DEF Situation
<1>2. res = IF dx > 0
            THEN [num |-> num, denom |-> 2 * dx,
                  min |-> IF vals = {} THEN NaN ELSE Min(vals),
                  max |-> IF vals = {} THEN NaN ELSE Max(vals)]
            ELSE IF i < hi /\ raw[i + 1].t \in ts .. te - 1
            THEN [num |-> raw[i + 1].v, denom |-> 1,
                  min |-> raw[i + 1].v, max |-> raw[i + 1].v]
            ELSE [num |-> NaN, denom |-> 0, min |-> NaN, max |-> NaN]
  BY DEF Interval, PieceAt, Compared, SumOfTime, SumOfNum
<1> HIDE DEF i, j, from
<1>3. \A x \in from .. j : pieces[x] = PieceAt("absolute", x, hi, ts, te, maxFill)
  OBVIOUS
<1> HIDE DEF pieces
<1>4. dx = Time(ts, te, maxFill) /\ num = TwiceIntegral(ts, te, maxFill)
  BY <1>1, <1>3, AbsoluteSums
<1>5. Distinct /\ Known(ts, te, maxFill) # {} =>
        /\ vals # {} /\ Min(vals) = Min(Reached(ts, te, maxFill))
        /\ Max(vals) = Max(Reached(ts, te, maxFill))
  BY <1>1, <1>3, AbsoluteExtremes
<1> HIDE DEF dx, num, vals, res
<1>6. /\ Time(ts, te, maxFill) \in Nat
      /\ Time(ts, te, maxFill) = 0 <=> Known(ts, te, maxFill) = {}
  BY TimeKnown
<1> DEFINE in == {x \in DOMAIN raw : raw[x].t \in ts .. te}
           alone == {x \in in : raw[x].t < te}
<1>7. Len(raw) \in Nat /\ DOMAIN raw = 1 .. Len(raw)
  BY SeriesPoints DEF Series
<1>8. ASSUME Known(ts, te, maxFill) # {} PROVE AbsoluteRight(res, ts, te, maxFill)
  <2>1. dx > 0 /\ dx \in Nat
    BY <1>4, <1>6, <1>8
  <2>2. /\ res.num = num /\ res.denom = 2 * dx
        /\ res.min = (IF vals = {} THEN NaN ELSE Min(vals))
        /\ res.max = (IF vals = {} THEN NaN ELSE Max(vals))
    BY <1>2, <2>1
  <2>3. res.denom # 0
    BY <2>1, <2>2
  <2>4. Is(res, TwiceIntegral(ts, te, maxFill), 2 * Time(ts, te, maxFill),
           Reached(ts, te, maxFill))
    BY <1>4, <1>5, <1>8, <2>2, <2>3 DEF Is
  <2>5. QED
    BY <1>8, <2>4 DEF AbsoluteRight, Reached
<1>9. ASSUME Known(ts, te, maxFill) = {} PROVE AbsoluteRight(res, ts, te, maxFill)
  <2>1. ~ (dx > 0)
    BY <1>4, <1>6, <1>9
  <2>2. CASE i < hi /\ raw[i + 1].t \in ts .. te - 1
    <3>1. i + 1 \in 1 .. Len(raw)
      <4>1. lo \in 1 .. Len(raw) /\ hi \in lo .. Len(raw) /\ i \in lo - 1 .. hi
        BY <1>1 DEF Situation, Slice, Places
      <4>2. QED
        BY <1>7, <2>2, <4>1
    <3>2. PICK v \in Int : v = raw[i + 1].v
      BY <3>1, SeriesPoints
    <3>3. res = [num |-> v, denom |-> 1, min |-> v, max |-> v]
      BY <1>2, <2>1, <2>2, <3>2
    <3>4. Is(res, raw[i + 1].v, 1, {raw[i + 1].v})
      BY <3>2, <3>3, OneValue
    <3>5. raw[i + 1].t \in ts .. te /\ raw[i + 1].t < te
      BY <2>2
    <3>6. i + 1 \in alone
      BY <1>7, <3>1, <3>5
    <3>7. QED
      BY <1>9, <3>4, <3>6 DEF AbsoluteRight
  <2>3. CASE ~ (i < hi /\ raw[i + 1].t \in ts .. te - 1)
    <3>1. alone = {}
      <4>1. SUFFICES ASSUME NEW x \in alone PROVE FALSE
        OBVIOUS
      <4>2. x \in 1 .. Len(raw) /\ raw[x].t \in ts .. te /\ raw[x].t < te
        BY <1>7
      <4>3. raw[x].t \in ts .. te - 1
        BY <4>2
      <4>4. QED
        BY <1>1, <2>3, <4>2, <4>3, AloneFound
    <3>2. IsNaN(res)
      BY <1>2, <2>1, <2>3 DEF IsNaN
    <3>3. QED
      BY <1>9, <3>1, <3>2 DEF AbsoluteRight
  <2>4. QED
    BY <2>2, <2>3
<1>10. QED
  BY <1>8, <1>9 DEF res

LEMMA RateInterval ==
  ASSUME NEW ts \in Nat, NEW te \in Nat, NEW maxFill \in Nat, ts < te, te - ts <= maxFill,
         Series, Counter, NEW lo, NEW hi, Slice(lo, hi, ts, te)
  PROVE  RateRight(Interval(raw, lo, hi, "rate", ts, te, maxFill), ts, te, maxFill)
<1> DEFINE res == Interval(raw, lo, hi, "rate", ts, te, maxFill)
           i == Max({lo - 1} \cup {x \in lo .. hi : raw[x].t < ts})
           j == Max({i} \cup {x \in lo .. hi : raw[x].t <= te})
           from == Max({lo, i})
           pieces == [x \in from .. j |-> PieceAt("rate", x, hi, ts, te, maxFill)]
           dx == SumOfTime(pieces, from, j)
           num == SumOfNum(pieces, from, j)
           vals == Rates(pieces, from, j)
           slopes == {Slope(u, maxFill) : u \in Known(ts, te, maxFill)}
<1>1. Situation(ts, te, maxFill, lo, hi, i, j, from)
  <2>1. PICK i0, j0, from0 : i0 = i /\ j0 = j /\ from0 = from
    OBVIOUS
  <2>2. Places(lo, hi, ts, te, i0, j0, from0)
    BY <2>1, PlacesAre
  <2> HIDE DEF i, j, from
  <2>3. QED
    BY <2>1, <2>2 DEF Situation
<1>2. res = IF dx > 0
            THEN [num |-> num, denom |-> dx,
                  min |-> IF vals = {} THEN NaN ELSE Min(vals),
                  max |-> IF vals = {} THEN NaN ELSE Max(vals)]
            ELSE [num |-> NaN, denom |-> 0, min |-> NaN, max |-> NaN]
  BY DEF Interval, PieceAt, Rates, SumOfTime, SumOfNum
<1> HIDE DEF i, j, from
<1>3. \A x \in from .. j : pieces[x] = PieceAt("rate", x, hi, ts, te, maxFill)
  OBVIOUS
<1> HIDE DEF pieces
<1>4. vals = slopes
  BY <1>1, <1>3, RateValues
<1>5. \/ dx = Time(ts, te, maxFill) /\ num = Growth(ts, te, maxFill)
      \/ \E d \in Nat \ {0}, s \in Int :
           /\ dx = d /\ num = d * s
           /\ Time(ts, te, maxFill) = te - ts /\ Growth(ts, te, maxFill) = (te - ts) * s
  <2>1. CASE ~ HasWhole(hi, from, j, ts, te, maxFill)
    BY <1>1, <1>3, <2>1, RateSums
  <2>2. CASE HasWhole(hi, from, j, ts, te, maxFill)
    <3>1. SumsOfWhole(pieces, from, j, ts, te, maxFill)
      BY <1>1, <1>3, <2>2, WholeSums
    <3>2. QED
      BY <3>1 DEF SumsOfWhole
  <2>3. QED
    BY <2>1, <2>2
<1> HIDE DEF dx, num, vals, res
<1>6. /\ Time(ts, te, maxFill) \in Nat
      /\ Time(ts, te, maxFill) = 0 <=> Known(ts, te, maxFill) = {}
  BY TimeKnown
<1>7. ASSUME Known(ts, te, maxFill) # {} PROVE RateRight(res, ts, te, maxFill)
  <2>1. slopes # {}
    BY <1>7
  <2> HIDE DEF slopes
  <2>2. /\ dx > 0 /\ dx # 0
        /\ num * Time(ts, te, maxFill) = Growth(ts, te, maxFill) * dx
    <3>1. PICK t \in Nat : t = Time(ts, te, maxFill) /\ t # 0
      BY <1>6, <1>7
    <3>2. CASE dx = Time(ts, te, maxFill) /\ num = Growth(ts, te, maxFill)
      BY <3>1, <3>2
    <3>3. CASE \E d \in Nat \ {0}, s \in Int :
                 /\ dx = d /\ num = d * s
                 /\ Time(ts, te, maxFill) = te - ts /\ Growth(ts, te, maxFill) = (te - ts) * s
      <4>1. PICK d \in Nat \ {0}, s \in Int :
              dx = d /\ num = d * s /\ t = te - ts /\ Growth(ts, te, maxFill) = t * s
        BY <3>1, <3>3
      <4>2. (d * s) * t = (t * s) * d
        OBVIOUS
      <4>3. QED
        BY <3>1, <4>1, <4>2
    <3>4. QED
      BY <1>5, <3>2, <3>3
  <2>3. res.num = num /\ res.denom = dx /\ res.min = Min(slopes) /\ res.max = Max(slopes)
    BY <1>2, <1>4, <2>1, <2>2
  <2>4. Is(res, Growth(ts, te, maxFill), Time(ts, te, maxFill), slopes)
    BY <2>2, <2>3 DEF Is
  <2>5. QED
    BY <1>7, <2>4 DEF RateRight, slopes
<1>8. ASSUME Known(ts, te, maxFill) = {} PROVE RateRight(res, ts, te, maxFill)
  <2>1. Time(ts, te, maxFill) = 0 /\ te - ts # 0
    BY <1>6, <1>8
  <2>2. ~ (dx > 0)
    BY <1>5, <2>1
  <2>3. IsNaN(res)
    BY <1>2, <2>2 DEF IsNaN
  <2>4. QED
    BY <1>8, <2>3 DEF RateRight
<1>9. QED
  BY <1>7, <1>8 DEF res

-----------------------------------------------------------------------------
(* All results.                                                            *)

LEMMA CountIs ==
  ASSUME NEW start \in Nat, NEW end \in Nat, start < end, NEW step \in Nat, step >= 2
  PROVE  /\ Count(start, end, step) \in Nat \ {0}
         /\ start + (Count(start, end, step) - 1) * step < end
         /\ end <= start + Count(start, end, step) * step
<1>1. PICK x \in Nat, d \in Nat \ {0} : x = end - 1 - start /\ d = step
  OBVIOUS
<1>2. x \div d \in Nat /\ x % d \in 0 .. d - 1 /\ x = d * (x \div d) + (x % d)
  OBVIOUS
<1>3. PICK k \in Nat, r \in 0 .. d - 1 : k = x \div d /\ x = d * k + r
  BY <1>2
<1>4. Count(start, end, step) = k + 1
  BY <1>1, <1>3 DEF Count
<1>5. PICK z \in Nat : z = d * k /\ k * step = z /\ (k + 1) * step = z + d
  BY <1>1
<1>6. PICK n \in Nat \ {0} : n = k + 1 /\ n - 1 = k
  OBVIOUS
<1>7. start + (n - 1) * step < end /\ end <= start + n * step
  <2>1. (n - 1) * step = z /\ n * step = z + d
    BY <1>5, <1>6
  <2>2. QED
    BY <1>1, <1>3, <1>5, <2>1
<1>8. QED
  BY <1>4, <1>6, <1>7

Trimmed(lo, hi, start, step, n) ==
  lo = LTrim(raw, start) /\ hi = RTrim(raw, lo, start + n * step, step)

Fits(lo, hi, start, step, r) ==
  /\ start + (r - 1) * step \in Nat /\ start + r * step \in Nat
  /\ start + r * step - (start + (r - 1) * step) = step
  /\ Slice(lo, hi, start + (r - 1) * step, start + r * step)

\* Each interval has what it needs of the slice.
LEMMA SliceFits ==
  ASSUME Series, NEW start \in Nat, NEW step \in Nat, step >= 2, NEW n \in Nat \ {0},
         NEW lo, NEW hi, Trimmed(lo, hi, start, step, n), NEW r \in 1 .. n
  PROVE  Fits(lo, hi, start, step, r)
<1>0. lo = LTrim(raw, start) /\ hi = RTrim(raw, lo, start + n * step, step)
  BY DEF Trimmed
<1>1. PICK k \in Nat, l \in Nat : k = r - 1 /\ l = n - r /\ r = k + 1 /\ n = k + 1 + l
  <2>1. r - 1 \in Nat /\ n - r \in Nat
    OBVIOUS
  <2>2. QED
    BY <2>1
<1>2. PICK a \in Nat, b \in Nat : a = k * step /\ b = l * step
  OBVIOUS
<1>3. (k + 1) * step = a + step /\ (k + 1 + l) * step = a + step + b
  BY <1>2
<1>4. (r - 1) * step = a /\ r * step = a + step /\ n * step = a + step + b
  BY <1>1, <1>2, <1>3
<1>5. PICK end \in Nat : end = start + n * step /\ end = start + a + step + b
  BY <1>4
<1>6. lo = LTrim(raw, start) /\ hi = RTrim(raw, lo, end, step)
  BY <1>0, <1>5
<1>7. /\ lo \in 1 .. Len(raw) /\ hi \in lo .. Len(raw)
      /\ lo > 1 => raw[lo].t <= start
      /\ hi < Len(raw) => raw[hi].t >= end + step
  BY <1>6, TrimIs
<1>8. PICK ts \in Nat, te \in Nat : /\ ts = start + (r - 1) * step /\ te = start + r * step
                                    /\ ts = start + a /\ te = start + a + step
  BY <1>4
<1>9. hi \in 1 .. Len(raw) /\ lo \in 1 .. Len(raw)
  BY <1>7, SeriesPoints
<1>10. raw[lo].t \in Nat /\ raw[hi].t \in Nat
  BY <1>9, SeriesPoints
<1>11. Slice(lo, hi, ts, te)
  BY <1>5, <1>7, <1>8, <1>10 DEF Slice
<1>12. te - ts = step
  BY <1>8
<1>13. QED
  BY <1>8, <1>11, <1>12 DEF Fits

Right(absolute, rate, r, start, step, maxFill) ==
  LET at(x) == start + (x - 1) * step
  IN  /\ AbsoluteRight(absolute[r], at(r), at(r + 1), maxFill)
      /\ Counter => RateRight(rate[r], at(r), at(r + 1), maxFill)

Answers(absolute, rate, start, end, step, maxFill) ==
  LET at(r) == start + (r - 1) * step
  IN  /\ at(Len(absolute)) < end /\ at(Len(absolute) + 1) >= end
      /\ \A r \in DOMAIN absolute : Right(absolute, rate, r, start, step, maxFill)

LEMMA RawOfSeries ==
  ASSUME Series, NEW q \in Queries
  PROVE  Answers(Raw(raw, "absolute", q.start, q.end, q.step, q.maxFill),
                 Raw(raw, "rate", q.start, q.end, q.step, q.maxFill),
                 q.start, q.end, q.step, q.maxFill)
<1>1. PICK start \in Nat, end \in Nat, step \in Nat, maxFill \in Nat :
        /\ start = q.start /\ end = q.end /\ step = q.step /\ maxFill = q.maxFill
        /\ start < end /\ step >= 2 /\ maxFill >= step
  BY PureAssumption
<1>2. PICK n \in Nat \ {0} : /\ n = Count(start, end, step)
                             /\ start + (n - 1) * step < end /\ end <= start + n * step
  BY <1>1, CountIs
<1>3. PICK lo, hi : lo = LTrim(raw, start) /\ hi = RTrim(raw, lo, start + n * step, step)
  OBVIOUS
<1>4. PICK absolute, rate :
        /\ absolute = Raw(raw, "absolute", start, end, step, maxFill)
        /\ rate = Raw(raw, "rate", start, end, step, maxFill)
  OBVIOUS
<1>5. absolute = [r \in 1 .. n |-> Interval(raw, lo, hi, "absolute", start + (r - 1) * step,
                                            start + r * step, maxFill)]
  BY <1>2, <1>3, <1>4 DEF Raw
<1>6. rate = [r \in 1 .. n |-> Interval(raw, lo, hi, "rate", start + (r - 1) * step,
                                        start + r * step, maxFill)]
  BY <1>2, <1>3, <1>4 DEF Raw
<1>7. Len(absolute) = n /\ DOMAIN absolute = 1 .. n
  BY <1>5
<1>8. start + (n - 1) * step < end /\ start + (n + 1 - 1) * step >= end
  <2>1. PICK z \in Int : z = start + n * step
    OBVIOUS
  <2>2. n + 1 - 1 = n
    OBVIOUS
  <2>3. end <= z => z >= end
    BY <2>1
  <2>4. QED
    BY <1>2, <2>1, <2>2, <2>3
<1>9. ASSUME NEW r \in 1 .. n PROVE Right(absolute, rate, r, start, step, maxFill)
  <2>1. step >= 2 /\ Trimmed(lo, hi, start, step, n)
    BY <1>1, <1>3 DEF Trimmed
  <2>2. /\ start + (r - 1) * step \in Nat /\ start + r * step \in Nat
        /\ start + r * step - (start + (r - 1) * step) = step
        /\ Slice(lo, hi, start + (r - 1) * step, start + r * step)
    BY <2>1, SliceFits DEF Fits
  <2>3. PICK ts \in Nat, te \in Nat :
          /\ ts = start + (r - 1) * step /\ te = start + r * step
          /\ te - ts = step /\ Slice(lo, hi, ts, te)
    BY <2>2
  <2>4. ts < te /\ te - ts <= maxFill
    BY <1>1, <2>3
  <2>5. r + 1 - 1 = r
    OBVIOUS
  <2>6. /\ absolute[r] = Interval(raw, lo, hi, "absolute", ts, te, maxFill)
        /\ rate[r] = Interval(raw, lo, hi, "rate", ts, te, maxFill)
    BY <1>5, <1>6, <2>3
  <2>7. AbsoluteRight(absolute[r], ts, te, maxFill)
    BY <2>3, <2>4, <2>6, AbsoluteInterval
  <2>8. Counter => RateRight(rate[r], ts, te, maxFill)
    BY <2>3, <2>4, <2>6, RateInterval
  <2>9. QED
    BY <2>3, <2>5, <2>7, <2>8 DEF Right
<1>10. \A r \in DOMAIN absolute : Right(absolute, rate, r, start, step, maxFill)
  BY <1>7, <1>9, Zenon
<1>11. start + (Len(absolute) - 1) * step < end /\ start + (Len(absolute) + 1 - 1) * step >= end
  BY <1>7, <1>8
<1>12. Answers(absolute, rate, start, end, step, maxFill)
  BY <1>10, <1>11 DEF Answers
<1>13. QED
  BY <1>1, <1>4, <1>12

-----------------------------------------------------------------------------
(* The invariant.                                                          *)

InOrder == /\ raw \in Seq(Point)
           /\ \A x, y \in 1 .. Len(raw) : x <= y => raw[x].t <= raw[y].t

LEMMA SeriesInOrder == Spec => []InOrder
<1>1. Init => InOrder
  <2>1. SUFFICES ASSUME raw = <<>> PROVE InOrder
    BY DEF Init
  <2>2. raw \in Seq(Point) /\ Len(raw) = 0
    BY <2>1
  <2>3. \A x \in 1 .. 0 : FALSE
    OBVIOUS
  <2>4. QED
    BY <2>2, <2>3 DEF InOrder
<1>2. InOrder /\ [Next]_vars => InOrder'
  <2> SUFFICES ASSUME InOrder, [Next]_vars PROVE InOrder'
    OBVIOUS
  <2>1. CASE AddByte
    BY <2>1 DEF AddByte, InOrder
  <2>2. CASE AddRecord
    BY <2>2 DEF AddRecord, InOrder
  <2>3. CASE AddPoint
    <3>1. PICK p \in Point : (raw # <<>> => Last(raw).t <= p.t) /\ raw' = Append(raw, p)
      BY <2>3 DEF AddPoint, Point
    <3>2. PICK n \in Nat : n = Len(raw)
      BY DEF InOrder
    <3>3. /\ raw' \in Seq(Point) /\ Len(raw') = n + 1 /\ raw'[n + 1] = p
          /\ \A x \in 1 .. n : raw'[x] = raw[x]
      BY <3>1, <3>2 DEF InOrder
    <3>4. ASSUME NEW x \in 1 .. n PROVE raw[x].t <= p.t
      <4>1. raw # <<>> /\ n \in 1 .. n /\ x <= n
        BY <3>2
      <4>2. raw[x].t <= raw[n].t
        BY <3>2, <4>1 DEF InOrder
      <4>3. raw[n].t <= p.t
        BY <3>1, <3>2, <4>1 DEF Last
      <4>4. raw[x] \in Point /\ raw[n] \in Point
        BY <3>2, <4>1, ElementOfSeq DEF InOrder
      <4>5. raw[x].t \in Nat /\ raw[n].t \in Nat /\ p.t \in Nat
        BY <4>4, PointFields
      <4>6. QED
        BY <4>2, <4>3, <4>5
    <3>5. ASSUME NEW x \in 1 .. n + 1, NEW y \in 1 .. n + 1, x <= y
          PROVE  raw'[x].t <= raw'[y].t
      <4>1. p.t \in Nat
        BY PointFields
      <4>2. CASE y = n + 1 /\ x = n + 1
        BY <3>3, <4>1, <4>2
      <4>3. CASE y = n + 1 /\ x # n + 1
        <5>1. x \in 1 .. n
          BY <4>3
        <5>2. QED
          BY <3>3, <3>4, <4>3, <5>1
      <4>4. CASE y # n + 1
        <5>1. x \in 1 .. n /\ y \in 1 .. n
          BY <3>5, <4>4
        <5>2. raw[x].t <= raw[y].t
          BY <3>2, <3>5, <5>1 DEF InOrder
        <5>3. QED
          BY <3>3, <5>1, <5>2
      <4>5. QED
        BY <4>2, <4>3, <4>4
    <3>6. QED
      BY <3>3, <3>5 DEF InOrder
  <2>4. CASE UNCHANGED vars
    BY <2>4 DEF vars, InOrder
  <2>5. QED
    BY <2>1, <2>2, <2>3, <2>4 DEF Next
<1>3. QED
  BY <1>1, <1>2, PTL DEF Spec

\* For every time series in the order of time and every query, each result of
\* interpol8.Raw is right: for an absolute value the average over the known time of its
\* interval, with its extremes, or its only point; for the rate of a counter that is
\* never reset the same; and NaN if nothing is known.  What lTrim and rTrim cut off, the
\* cases of the loop and the order of the sum make no difference.
THEOREM ResultsAreRight == Spec => []RawIsRight
<1>1. InOrder => RawIsRight
  <2>1. SUFFICES ASSUME InOrder, NEW q \in Queries, raw # <<>>
        PROVE  LET at(r) == q.start + (r - 1) * q.step
                   absolute == Raw(raw, "absolute", q.start, q.end, q.step, q.maxFill)
                   rate == Raw(raw, "rate", q.start, q.end, q.step, q.maxFill)
               IN  /\ at(Len(absolute)) < q.end /\ at(Len(absolute) + 1) >= q.end
                   /\ \A r \in DOMAIN absolute :
                        /\ AbsoluteRight(absolute[r], at(r), at(r + 1), q.maxFill)
                        /\ Counter => RateRight(rate[r], at(r), at(r + 1), q.maxFill)
    BY DEF RawIsRight
  <2>2. Series
    BY <2>1 DEF InOrder, Series
  <2>3. QED
    BY <2>2, RawOfSeries DEF Answers, Right
<1>2. QED
  BY <1>1, SeriesInOrder, PTL
=================================================================================
