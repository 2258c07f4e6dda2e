----------------------------- MODULE PwmProofs -----------------------------
(***************************************************************************)
(* The PWM code for every number of requests, candidates and options: what *)
(* fraction_at_most answers, what a request's Config tells of its options, *)
(* what solve has when it searches, and what its answer says about the     *)
(* declaration.  The invariant CompileInv is put together from that of     *)
(* requests() (DeclaredInv) and that of solve (SolveInv).                  *)
(***************************************************************************)
EXTENDS PwmCompile, FractionCompare, FiniteSetTheorems, FunctionTheorems,
        WellFoundedInduction, TLAPS

-----------------------------------------------------------------------------
(* Fractions. *)

\* Division of naturals, as the proofs below use it.
LEMMA Division ==
  ASSUME NEW x \in Nat, NEW y \in Nat \ {0}
  PROVE  /\ x \div y \in Nat
         /\ x % y \in Nat
         /\ x % y < y
         /\ x = (x \div y) * y + (x % y)
  BY SMT

\* Every set of numbers has a least one.
LEMMA LeastOf ==
  ASSUME NEW S, S \subseteq Nat, S # {}
  PROVE  \E m \in S : \A n \in S : m <= n
<1> DEFINE Lesser == {p \in Nat \X Nat : p[1] < p[2]}
<1>1. IsWellFoundedOn(Lesser, Nat)
  BY NatLessThanWellFounded DEF OpToRel
<1>2. \A n, m \in Nat : n < m => <<n, m>> \in Lesser
  OBVIOUS
<1> HIDE DEF Lesser
<1>3. PICK m \in S : \A n \in S : <<n, m>> \notin Lesser
  BY <1>1, WFMin
<1>4. ASSUME NEW n \in S PROVE m <= n
  <2>1. n \in Nat /\ m \in Nat
    OBVIOUS
  <2>2. ~(n < m)
    BY <1>2, <1>3, <2>1
  <2> QED BY <2>1, <2>2
<1> QED BY <1>4

\* Every bounded set of numbers has a greatest one.
LEMMA GreatestOf ==
  ASSUME NEW S, S \subseteq Nat, S # {}, NEW b \in Nat, \A n \in S : n <= b
  PROVE  \E m \in S : \A n \in S : n <= m
<1> DEFINE T == {b - n : n \in S}
<1>1. T \subseteq Nat /\ T # {}
  <2>1. \A n \in S : n \in Nat /\ n <= b
    OBVIOUS
  <2>2. \A n \in S : b - n \in Nat
    BY <2>1
  <2>3. T \subseteq Nat
    BY <2>2
  <2>4. PICK n \in S : TRUE
    OBVIOUS
  <2>5. b - n \in T
    BY <2>4
  <2> QED BY <2>3, <2>5
<1>2. PICK t \in T : \A u \in T : t <= u
  BY <1>1, LeastOf
<1>3. PICK m \in S : t = b - m
  BY <1>2
<1>4. ASSUME NEW n \in S PROVE n <= m
  <2>1. b - m <= b - n /\ m \in Nat /\ n \in Nat
    BY <1>2, <1>3
  <2> QED BY <2>1
<1> QED BY <1>4

-----------------------------------------------------------------------------
(* Fractions in lowest terms. *)

\* A number divides its multiples.
LEMMA Multiple ==
  ASSUME NEW x \in Nat, NEW y \in Nat \ {0}
  PROVE  (x * y) % y = 0
<1> DEFINE q == (x * y) \div y
           r == (x * y) % y
<1>1. x * y \in Nat
  OBVIOUS
<1>2. q \in Nat /\ r \in Nat /\ r < y /\ x * y = q * y + r
  BY <1>1, Division
<1> HIDE DEF q, r
<1>3. ~(q + 1 <= x)
  <2> SUFFICES ASSUME q + 1 <= x PROVE FALSE
    OBVIOUS
  <2>1. (q + 1) * y <= x * y
    BY <1>2, SMT
  <2>2. (q + 1) * y = q * y + y
    BY <1>2, SMT
  <2> QED BY <1>2, <2>1, <2>2, SMT
<1>4. ~(x + 1 <= q)
  <2> SUFFICES ASSUME x + 1 <= q PROVE FALSE
    OBVIOUS
  <2>1. (x + 1) * y <= q * y
    BY <1>2, SMT
  <2>2. (x + 1) * y = x * y + y
    BY <1>2, SMT
  <2> QED BY <1>2, <2>1, <2>2, SMT
<1>5. q = x
  BY <1>2, <1>3, <1>4
<1>6. r = 0
  BY <1>2, <1>5, SMT
<1> QED BY <1>6 DEF r

\* What divides a number is a factor of it.
LEMMA Factor ==
  ASSUME NEW x \in Nat, NEW y \in Nat \ {0}, x % y = 0
  PROVE  x \div y \in Nat /\ x = (x \div y) * y
<1> DEFINE q == x \div y
<1>1. q \in Nat /\ x = q * y + (x % y)
  BY Division
<1> HIDE DEF q
<1>2. x = q * y
  BY <1>1, SMT
<1> QED BY <1>1, <1>2 DEF q

Positive(q) == q.n \in Nat /\ q.d \in Nat \ {0}

\* No number but 1 divides both terms.
Reduced(x, y) == \A k \in Nat \ {0} : x % k = 0 /\ y % k = 0 => k = 1

\* Normalized divides both terms by what they have in common.
LEMMA NormalizedReduces ==
  ASSUME NEW q, Positive(q)
  PROVE  /\ Normalized(q) \in [n : Nat, d : Nat \ {0}]
         /\ Reduced(Normalized(q).n, Normalized(q).d)
         /\ \E g \in Nat \ {0} :
              q.n = Normalized(q).n * g /\ q.d = Normalized(q).d * g
<1> DEFINE Greatest(k) == Divides(k, q) /\ \A h \in 1 .. q.d : Divides(h, q) => h <= k
           S == {k \in 1 .. q.d : Divides(k, q)}
           g == CHOOSE k \in 1 .. q.d : Greatest(k)
           x == q.n \div g
           y == q.d \div g
<1>0. q.n \in Nat /\ q.d \in Nat \ {0}
  BY DEF Positive
<1>1. 1 \in S
  <2>1. (q.n * 1) % 1 = 0 /\ (q.d * 1) % 1 = 0
    BY <1>0, Multiple
  <2>2. q.n * 1 = q.n /\ q.d * 1 = q.d
    BY <1>0
  <2> QED BY <1>0, <2>1, <2>2 DEF Divides
<1>2. S \subseteq Nat /\ \A k \in S : k <= q.d
  BY <1>0
<1>3. \E k \in S : \A h \in S : h <= k
  <2> HIDE DEF S
  <2> QED BY <1>0, <1>1, <1>2, GreatestOf
<1>4. \E k \in 1 .. q.d : Greatest(k)
  BY <1>3
<1>5. g \in 1 .. q.d /\ Greatest(g)
  <2> HIDE DEF Greatest
  <2> QED BY <1>4
<1>6. g \in Nat \ {0} /\ q.n % g = 0 /\ q.d % g = 0
  BY <1>0, <1>5 DEF Divides
<1>7. Normalized(q) = [n |-> x, d |-> y]
  BY DEF Normalized
<1> HIDE DEF g
<1>8. x \in Nat /\ y \in Nat /\ q.n = x * g /\ q.d = y * g
  BY <1>0, <1>6, Factor
<1> HIDE DEF x, y
<1>9. y # 0
  <2>1. 0 * g = 0
    BY <1>6
  <2> QED BY <1>0, <1>8, <2>1
<1>10. ASSUME NEW k \in Nat \ {0}, x % k = 0, y % k = 0 PROVE k = 1
  <2> DEFINE u == x \div k
             v == y \div k
  <2>1. u \in Nat /\ v \in Nat /\ x = u * k /\ y = v * k
    BY <1>8, <1>10, Factor
  <2> HIDE DEF u, v
  <2>2. q.n = u * (k * g) /\ q.d = v * (k * g)
    BY <1>6, <1>8, <2>1, SMT
  <2>3. k * g \in Nat \ {0}
    BY <1>6, SMT
  <2>4. Divides(k * g, q)
    BY <2>1, <2>2, <2>3, Multiple DEF Divides
  <2>5. v # 0
    <3>1. 0 * (k * g) = 0
      BY <2>3
    <3> QED BY <1>0, <2>2, <3>1
  <2>6. k * g <= q.d
    <3> DEFINE m == k * g
    <3>1. m \in Nat /\ v >= 1
      BY <2>1, <2>3, <2>5
    <3> HIDE DEF m
    <3>2. m <= v * m
      BY <2>1, <3>1, SMT
    <3> QED BY <2>2, <3>2 DEF m
  <2>7. k * g <= g
    <3>1. k * g \in 1 .. q.d
      BY <1>0, <2>3, <2>6
    <3> QED BY <1>5, <2>4, <3>1
  <2>8. ~(k >= 2)
    <3> SUFFICES ASSUME k >= 2 PROVE FALSE
      OBVIOUS
    <3>1. k * g >= 2 * g
      BY <1>6, SMT
    <3> QED BY <1>6, <2>3, <2>7, <3>1, SMT
  <2> QED BY <2>8
<1>11. Reduced(x, y)
  BY <1>10 DEF Reduced
<1> QED BY <1>6, <1>7, <1>8, <1>9, <1>11

\* A fraction has one form in lowest terms: that with the least denominator,
\* of which all others are multiples.
LEMMA OneReducedForm ==
  ASSUME NEW x \in Nat, NEW y \in Nat \ {0}, NEW u \in Nat, NEW v \in Nat \ {0},
         x * v = u * y, Reduced(x, y), Reduced(u, v)
  PROVE  x = u /\ y = v
<1> DEFINE Same(l, m) == l * y = x * m
           S == {m \in Nat \ {0} : \E l \in Nat : Same(l, m)}
<1>1. Same(x, y) /\ Same(u, v)
  OBVIOUS
<1>2. y \in S /\ S \subseteq Nat
  BY <1>1
<1>3. PICK m0 \in S : \A m \in S : m0 <= m
  <2> HIDE DEF S
  <2> QED BY <1>2, LeastOf
<1>4. PICK l0 \in Nat : Same(l0, m0)
  BY <1>3
<1>5. m0 \in Nat \ {0}
  BY <1>3
<1>6. ASSUME NEW l \in Nat, NEW m \in Nat \ {0}, Same(l, m)
      PROVE  \E q \in Nat \ {0} : l = l0 * q /\ m = m0 * q
  <2> DEFINE q == m \div m0
             r == m % m0
             e == l - q * l0
  <2>1. q \in Nat /\ r \in Nat /\ r < m0 /\ m = q * m0 + r
    BY <1>5, Division
  <2> HIDE DEF q, r
  <2>2. e \in Int
    BY <1>4, <2>1
  <2>3. e * y = x * r
    <3>1. e * y = l * y - (q * l0) * y
      BY <1>4, <2>1, SMT
    <3>2. x * r = x * m - x * (q * m0)
      BY <1>5, <2>1, SMT
    <3>3. (q * l0) * y = q * (l0 * y) /\ x * (q * m0) = q * (x * m0)
      BY <1>4, <1>5, <2>1, SMT
    <3> QED BY <1>4, <1>6, <3>1, <3>2, <3>3
  <2> HIDE DEF e
  <2>4. e >= 0
    <3> SUFFICES ASSUME e <= -1 PROVE FALSE
      BY <2>2
    <3>1. e * y < 0
      BY <2>2, SMT
    <3>2. x * r >= 0
      BY <2>1, SMT
    <3>3. e * y \in Int /\ x * r \in Int
      BY <2>1, <2>2
    <3> QED BY <2>3, <3>1, <3>2, <3>3
  <2>5. r = 0
    <3> SUFFICES ASSUME r # 0 PROVE FALSE
      OBVIOUS
    <3>1. Same(e, r)
      BY <2>3
    <3>2. r \in S
      BY <2>1, <2>2, <2>4, <3>1
    <3>3. m0 <= r
      BY <1>3, <3>2
    <3> HIDE DEF S, Same
    <3> QED BY <1>5, <2>1, <3>3
  <2>6. e = 0
    <3> SUFFICES ASSUME e >= 1 PROVE FALSE
      BY <2>2, <2>4
    <3>1. e * y >= 1 * y
      BY <2>2, SMT
    <3>2. x * r = 0
      BY <2>5
    <3> QED BY <2>3, <3>1, <3>2, SMT
  <2>7. l = l0 * q /\ m = m0 * q
    <3>1. l = q * l0
      BY <1>4, <2>1, <2>6 DEF e
    <3>2. m = q * m0
      BY <1>5, <2>1, <2>5
    <3> QED BY <1>4, <1>5, <2>1, <3>1, <3>2, SMT
  <2>8. q # 0
    <3>1. m0 * 0 = 0
      BY <1>5
    <3> QED BY <2>7, <3>1
  <2> QED BY <2>1, <2>7, <2>8
<1> HIDE DEF S, Same
<1>7. ASSUME NEW l \in Nat, NEW m \in Nat \ {0}, Same(l, m), Reduced(l, m)
      PROVE  l = l0 /\ m = m0
  <2>1. PICK q \in Nat \ {0} : l = l0 * q /\ m = m0 * q
    BY <1>6, <1>7
  <2>2. (l0 * q) % q = 0 /\ (m0 * q) % q = 0
    BY <1>4, <1>5, Multiple
  <2>3. q = 1
    BY <1>7, <2>1, <2>2 DEF Reduced
  <2> QED BY <1>4, <1>5, <2>1, <2>3
<1>8. x = l0 /\ y = m0 /\ u = l0 /\ v = m0
  BY <1>1, <1>7
<1> QED BY <1>8

\* Fractions of one value are normalised to one form, and only those.
LEMMA NormalizedAgree ==
  ASSUME NEW a, NEW b, Positive(a), Positive(b)
  PROVE  SameFraction(a, b) <=> Normalized(a) = Normalized(b)
<1> DEFINE p == Normalized(a)
           q == Normalized(b)
<1>1. /\ a.n \in Nat /\ a.d \in Nat \ {0} /\ b.n \in Nat /\ b.d \in Nat \ {0}
  BY DEF Positive
<1>2. /\ p \in [n : Nat, d : Nat \ {0}] /\ Reduced(p.n, p.d)
      /\ \E g \in Nat \ {0} : a.n = p.n * g /\ a.d = p.d * g
  BY NormalizedReduces
<1>3. /\ q \in [n : Nat, d : Nat \ {0}] /\ Reduced(q.n, q.d)
      /\ \E g \in Nat \ {0} : b.n = q.n * g /\ b.d = q.d * g
  BY NormalizedReduces
<1> HIDE DEF p, q
<1>4. PICK g \in Nat \ {0} : a.n = p.n * g /\ a.d = p.d * g
  BY <1>2
<1>5. PICK h \in Nat \ {0} : b.n = q.n * h /\ b.d = q.d * h
  BY <1>3
<1>6. /\ p.n \in Nat /\ p.d \in Nat \ {0} /\ q.n \in Nat /\ q.d \in Nat \ {0}
      /\ p = [n |-> p.n, d |-> p.d] /\ q = [n |-> q.n, d |-> q.d]
  BY <1>2, <1>3
<1>7. a.n * b.d = (p.n * q.d) * (g * h) /\ b.n * a.d = (q.n * p.d) * (g * h)
  BY <1>4, <1>5, <1>6, SMT
<1>8. a.n * b.d = b.n * a.d <=> p.n * q.d = q.n * p.d
  <2> DEFINE m == g * h
             x == p.n * q.d
             y == q.n * p.d
  <2>1. m \in Nat \ {0}
    BY <1>4, <1>5, SMT
  <2>2. x \in Nat /\ y \in Nat
    BY <1>6
  <2>3. a.n * b.d = x * m /\ b.n * a.d = y * m
    BY <1>7
  <2> HIDE DEF m, x, y
  <2>4. x < y => x * m < y * m
    BY <2>1, <2>2, SMT
  <2>5. y < x => y * m < x * m
    BY <2>1, <2>2, SMT
  <2>6. x * m \in Nat /\ y * m \in Nat
    BY <2>1, <2>2
  <2>7. a.n * b.d = b.n * a.d <=> x = y
    BY <2>2, <2>3, <2>4, <2>5, <2>6
  <2> QED BY <2>7 DEF x, y
<1>9. p.n * q.d = q.n * p.d => p.n = q.n /\ p.d = q.d
  BY <1>2, <1>3, <1>6, OneReducedForm
<1>10. SameFraction(a, b) <=> p = q
  BY <1>6, <1>8, <1>9 DEF SameFraction
<1> QED BY <1>10 DEF p, q

\* Normalising keeps the value and what it is compared with.
LEMMA NormalizedKeeps ==
  ASSUME NEW a, Positive(a)
  PROVE  /\ Positive(Normalized(a))
         /\ SameFraction(Normalized(a), a)
         /\ Normalized(a).n <= a.n /\ Normalized(a).d <= a.d
         /\ a.n > 0 => Normalized(a).n > 0
         /\ a.n <= a.d => Normalized(a).n <= Normalized(a).d
         /\ Normalized(a) \in Ratio
<1> DEFINE p == Normalized(a)
<1>1. a.n \in Nat /\ a.d \in Nat \ {0}
  BY DEF Positive
<1>2. /\ p \in [n : Nat, d : Nat \ {0}]
      /\ \E g \in Nat \ {0} : a.n = p.n * g /\ a.d = p.d * g
  BY NormalizedReduces
<1> HIDE DEF p
<1>3. PICK g \in Nat \ {0} : a.n = p.n * g /\ a.d = p.d * g
  BY <1>2
<1>4. p.n \in Nat /\ p.d \in Nat \ {0}
  BY <1>2
<1>5. p.n * a.d = a.n * p.d
  BY <1>3, <1>4, SMT
<1>6. p.n <= a.n /\ p.d <= a.d
  <2> DEFINE x == p.n
             y == p.d
  <2>1. x \in Nat /\ y \in Nat /\ g \in Nat /\ g >= 1
    BY <1>4
  <2> HIDE DEF x, y
  <2>2. x <= x * g /\ y <= y * g
    BY <2>1, SMT
  <2> QED BY <1>3, <2>2 DEF x, y
<1>7. a.n > 0 => p.n > 0
  <2>1. 0 * g = 0
    OBVIOUS
  <2> QED BY <1>3, <1>4, <2>1
<1>8. a.n <= a.d => p.n <= p.d
  <2> DEFINE x == p.n
             y == p.d
  <2>1. x \in Nat /\ y \in Nat
    BY <1>4
  <2> HIDE DEF x, y
  <2>2. y < x => y * g < x * g
    BY <2>1, SMT
  <2>3. x * g \in Nat /\ y * g \in Nat
    BY <2>1
  <2>4. x * g <= y * g => x <= y
    BY <2>1, <2>2, <2>3
  <2> QED BY <1>3, <2>4 DEF x, y
<1>9. p \in Ratio
  BY <1>2 DEF Ratio
<1> QED BY <1>4, <1>5, <1>6, <1>7, <1>8, <1>9 DEF p, Positive, SameFraction

\* The comparison is transitive and total.
LEMMA AtMostOrders ==
  ASSUME NEW a, NEW b, NEW c, Positive(a), Positive(b), Positive(c)
  PROVE  /\ AtMost(a, b) /\ AtMost(b, c) => AtMost(a, c)
         /\ AtMost(a, b) \/ AtMost(b, a)
         /\ SameFraction(a, b) <=> AtMost(a, b) /\ AtMost(b, a)
<1>1. /\ a.n \in Nat /\ a.d \in Nat \ {0} /\ b.n \in Nat /\ b.d \in Nat \ {0}
      /\ c.n \in Nat /\ c.d \in Nat \ {0}
  BY DEF Positive
<1>2. a.n * b.d \in Nat /\ b.n * a.d \in Nat
  BY <1>1
<1>3. ASSUME AtMost(a, b), AtMost(b, c) PROVE AtMost(a, c)
  <2> DEFINE x == a.n
             y == a.d
             z == b.n
             w == b.d
             u == c.n
             v == c.d
  <2>1. x \in Nat /\ y \in Nat \ {0} /\ z \in Nat /\ w \in Nat \ {0} /\ u \in Nat /\ v \in Nat \ {0}
    BY <1>1
  <2>2. x * w <= z * y /\ z * v <= u * w
    BY <1>3 DEF AtMost
  <2> HIDE DEF x, y, z, w, u, v
  <2>3. (x * w) * v <= (z * y) * v
    BY <2>1, <2>2, SMT
  <2>4. (z * v) * y <= (u * w) * y
    BY <2>1, <2>2, SMT
  <2>5. (x * v) * w <= (u * y) * w
    <3>1. (x * w) * v = (x * v) * w /\ (z * y) * v = (z * v) * y /\ (u * w) * y = (u * y) * w
      BY <2>1, SMT
    <3>2. (x * v) * w \in Nat /\ (z * v) * y \in Nat /\ (u * y) * w \in Nat
      BY <2>1
    <3> QED BY <2>3, <2>4, <3>1, <3>2
  <2>6. u * y < x * v => (u * y) * w < (x * v) * w
    BY <2>1, SMT
  <2>7. x * v \in Nat /\ u * y \in Nat /\ (x * v) * w \in Nat /\ (u * y) * w \in Nat
    BY <2>1
  <2>8. x * v <= u * y
    BY <2>5, <2>6, <2>7
  <2> QED BY <2>8 DEF AtMost, x, y, u, v
<1> QED BY <1>2, <1>3 DEF AtMost, SameFraction

\* Fractions of one value compare alike.
LEMMA AtMostAgrees ==
  ASSUME NEW a, NEW b, NEW c, Positive(a), Positive(b), Positive(c), SameFraction(a, b)
  PROVE  /\ AtMost(a, c) <=> AtMost(b, c)
         /\ AtMost(c, a) <=> AtMost(c, b)
<1>1. AtMost(a, b) /\ AtMost(b, a)
  BY AtMostOrders
<1>2. /\ AtMost(a, b) /\ AtMost(b, c) => AtMost(a, c)
      /\ AtMost(b, a) /\ AtMost(a, c) => AtMost(b, c)
      /\ AtMost(c, a) /\ AtMost(a, b) => AtMost(c, b)
      /\ AtMost(c, b) /\ AtMost(b, a) => AtMost(c, a)
  BY AtMostOrders
<1> QED BY <1>1, <1>2

-----------------------------------------------------------------------------
(* fraction_at_most, which compares without multiplying. *)

(***************************************************************************)
(* With equal quotients the fractions are in the order of what is left.    *)
(***************************************************************************)
LEMMA EqualQuotients ==
  ASSUME NEW x \in Nat, NEW y \in Nat \ {0}, NEW z \in Nat, NEW w \in Nat \ {0},
         x \div y = z \div w
  PROVE  x * w <= z * y <=> (x % y) * w <= (z % w) * y
<1> DEFINE q == x \div y
           r == x % y
           s == z % w
<1>1. q \in Nat /\ r \in Nat /\ s \in Nat /\ x = q * y + r /\ z = q * w + s
  BY Division
<1> HIDE DEF q, r, s
<1>2. x * w = (q * y) * w + r * w
  BY <1>1, SMT
<1>3. z * y = (q * w) * y + s * y
  BY <1>1, SMT
<1>4. (q * y) * w = (q * w) * y
  BY <1>1, SMT
<1>5. x * w <= z * y <=> r * w <= s * y
  <2> DEFINE p == (q * y) * w
             t == r * w
             u == s * y
  <2>1. p \in Int /\ t \in Int /\ u \in Int
    BY <1>1
  <2>2. x * w = p + t /\ z * y = p + u
    BY <1>2, <1>3, <1>4
  <2> HIDE DEF p, t, u
  <2>3. x * w <= z * y <=> t <= u
    BY <2>1, <2>2, SMT
  <2> QED
    BY <2>3 DEF t, u
<1> QED
  BY <1>5 DEF r, s

(***************************************************************************)
(* With a lesser quotient the fraction is less.                            *)
(***************************************************************************)
LEMMA LesserQuotient ==
  ASSUME NEW x \in Nat, NEW y \in Nat \ {0}, NEW z \in Nat, NEW w \in Nat \ {0},
         x \div y < z \div w
  PROVE  x * w < z * y
<1> DEFINE p == x \div y
           q == z \div w
           r == x % y
           s == z % w
<1>1. /\ p \in Nat /\ q \in Nat /\ r \in Nat /\ s \in Nat
      /\ r < y /\ p + 1 <= q /\ x = p * y + r /\ z = q * w + s
  BY Division
<1> HIDE DEF p, q, r, s
<1>2. x < (p + 1) * y
  BY <1>1, SMT
<1>3. (p + 1) * y <= q * y
  BY <1>1, SMT
<1>4. x < q * y
  BY <1>1, <1>2, <1>3, SMT
<1>5. x * w < (q * y) * w
  BY <1>1, <1>4, SMT
<1>6. (q * w) * y <= z * y
  BY <1>1, SMT
<1>7. (q * y) * w = (q * w) * y
  BY <1>1, SMT
<1>8. x * w \in Int /\ (q * y) * w \in Int /\ z * y \in Int
  BY <1>1
<1> QED
  BY <1>5, <1>6, <1>7, <1>8, SMT

(***************************************************************************)
(* A round over either order of the fractions.                             *)
(***************************************************************************)
LEMMA Quotients ==
  ASSUME NEW x \in Nat, NEW y \in Nat \ {0}, NEW z \in Nat, NEW w \in Nat \ {0},
         x \div y # z \div w
  PROVE  /\ x * w <= z * y <=> x \div y < z \div w
         /\ z * y <= x * w <=> x \div y > z \div w
<1>1. x \div y \in Nat /\ z \div w \in Nat /\ x * w \in Int /\ z * y \in Int
  BY Division
<1>2. x \div y < z \div w => x * w < z * y
  BY LesserQuotient
<1>3. z \div w < x \div y => z * y < x * w
  BY LesserQuotient
<1> QED
  BY <1>1, <1>2, <1>3, SMT

\* When a remainder is 0, its sign alone orders the two fractions left.
LEMMA Remainders ==
  ASSUME NEW r \in Nat, NEW y \in Nat \ {0}, NEW s \in Nat, NEW w \in Nat \ {0},
         r = 0 \/ s = 0
  PROVE  /\ r * w <= s * y <=> r = 0
         /\ s * y <= r * w <=> s = 0
<1>1. r * w >= 0 /\ s * y >= 0 /\ r * w \in Int /\ s * y \in Int
  BY SMT
<1>2. CASE r = 0
  <2>1. r * w = 0
    BY <1>2
  <2>2. s # 0 => s * y > 0
    BY SMT
  <2>3. s = 0 => s * y = 0
    OBVIOUS
  <2> QED
    BY <1>1, <1>2, <2>1, <2>2, <2>3, SMT
<1>3. CASE s = 0
  <2>1. s * y = 0
    BY <1>3
  <2>2. r # 0 => r * w > 0
    BY SMT
  <2>3. r = 0 => r * w = 0
    OBVIOUS
  <2> QED
    BY <1>1, <1>3, <2>1, <2>2, <2>3, SMT
<1> QED
  BY <1>2, <1>3

-----------------------------------------------------------------------------
\* The operands of a round, and what it divides them into.
LEMMA Operands ==
  ASSUME CompareTypeOK
  PROVE  /\ an \in Nat /\ bn \in Nat
         /\ ad \in Nat \ {0} /\ bd \in Nat \ {0}
         /\ Ar \in Nat /\ Br \in Nat /\ Ar < ad /\ Br < bd
  BY LargestAssumption, Division
     DEF CompareTypeOK, Numerator, Denominator, Ar, Br

\* The first round asks what the function was called with.
LEMMA InitCompares == CompareInit => ComparesExactly
<1> SUFFICES ASSUME CompareInit
             PROVE  ComparesExactly
  OBVIOUS
<1>1. CompareTypeOK
  BY DEF CompareInit, CompareTypeOK, Fraction, Answers
<1>2. Tracks
  BY DEF CompareInit, Tracks, AtMost
<1>3. Running
  BY DEF CompareInit, Running
<1> QED
  BY <1>1, <1>2, <1>3 DEF ComparesExactly

\* Every round keeps the question or answers it.
LEMMA NextCompares == ComparesExactly /\ [CompareNext]_compareVars => ComparesExactly'
<1> SUFFICES ASSUME ComparesExactly, [CompareNext]_compareVars
             PROVE  ComparesExactly'
  OBVIOUS
<1>t. CompareTypeOK /\ Tracks
  BY DEF ComparesExactly
<1>n. /\ an \in Nat /\ bn \in Nat
      /\ ad \in Nat \ {0} /\ bd \in Nat \ {0}
      /\ Ar \in Nat /\ Br \in Nat /\ Ar < ad /\ Br < bd
  BY <1>t, Operands
<1>b. reversed \in BOOLEAN
  BY <1>t DEF CompareTypeOK
<1>1. CASE Decide
  <2>1. CompareTypeOK'
    BY <1>t, <1>1 DEF Decide, Answer, CompareTypeOK, Answers
  <2>2. ~Running'
    BY <1>1 DEF Decide, Answer, Running
  <2>3. AtMost(lhs, rhs) <=> IF reversed THEN an \div ad > bn \div bd ELSE an \div ad < bn \div bd
    <3>1. an \div ad # bn \div bd /\ Running
      BY <1>1 DEF Decide, QuotientsDiffer
    <3>2. /\ an * bd <= bn * ad <=> an \div ad < bn \div bd
          /\ bn * ad <= an * bd <=> an \div ad > bn \div bd
      BY <1>n, <3>1, Quotients
    <3> QED
      BY <1>t, <1>b, <3>1, <3>2 DEF Tracks
  <2>4. answer' = "yes" <=> AtMost(lhs, rhs)'
    BY <1>1, <2>3 DEF Decide, Answer, AtMost
  <2> QED
    BY <2>1, <2>2, <2>4 DEF ComparesExactly, Tracks
<1>2. CASE End
  <2>1. CompareTypeOK'
    BY <1>t, <1>2 DEF End, Answer, CompareTypeOK, Answers
  <2>2. ~Running'
    BY <1>2 DEF End, Answer, Running
  <2>3. AtMost(lhs, rhs) <=> IF reversed THEN Br = 0 ELSE Ar = 0
    <3>1. an \div ad = bn \div bd /\ Running /\ (Ar = 0 \/ Br = 0)
      BY <1>2 DEF End, QuotientsDiffer
    <3>2. /\ an * bd <= bn * ad <=> Ar * bd <= Br * ad
          /\ bn * ad <= an * bd <=> Br * ad <= Ar * bd
      BY <1>n, <3>1, EqualQuotients DEF Ar, Br
    <3>3. /\ Ar * bd <= Br * ad <=> Ar = 0
          /\ Br * ad <= Ar * bd <=> Br = 0
      BY <1>n, <3>1, Remainders
    <3> QED
      BY <1>t, <1>b, <3>1, <3>2, <3>3 DEF Tracks
  <2>4. answer' = "yes" <=> AtMost(lhs, rhs)'
    BY <1>2, <2>3 DEF End, Answer, AtMost
  <2> QED
    BY <2>1, <2>2, <2>4 DEF ComparesExactly, Tracks
<1>3. CASE Descend
  <2>1. /\ an' = ad /\ ad' = Ar /\ bn' = bd /\ bd' = Br
        /\ reversed' = ~reversed /\ answer' = answer /\ lhs' = lhs /\ rhs' = rhs
        /\ Ar # 0 /\ Br # 0 /\ Running /\ an \div ad = bn \div bd
    BY <1>3 DEF Descend, QuotientsDiffer
  <2>2. CompareTypeOK'
    BY <1>t, <1>n, <2>1, LargestAssumption
       DEF CompareTypeOK, Numerator, Denominator
  <2>3. Tracks'
    <3>1. /\ an * bd <= bn * ad <=> Ar * bd <= Br * ad
          /\ bn * ad <= an * bd <=> Br * ad <= Ar * bd
      BY <1>n, <2>1, EqualQuotients DEF Ar, Br
    <3>2. Ar * bd = bd * Ar /\ Br * ad = ad * Br
      BY <1>n
    <3>3. AtMost(lhs, rhs)' <=> AtMost(lhs, rhs)
      BY <2>1 DEF AtMost
    <3>4. AtMost(lhs, rhs) <=> IF reversed THEN bn * ad <= an * bd ELSE an * bd <= bn * ad
      BY <1>t, <2>1 DEF Tracks
    <3>5. AtMost(lhs, rhs) <=> IF ~reversed THEN bd * Ar <= ad * Br ELSE ad * Br <= bd * Ar
      BY <1>b, <3>1, <3>2, <3>4
    <3> QED
      BY <2>1, <3>3, <3>5 DEF Tracks
  <2>4. Running'
    BY <2>1 DEF Running
  <2> QED
    BY <2>2, <2>3, <2>4 DEF ComparesExactly
<1>4. CASE UNCHANGED compareVars
  BY <1>4 DEF compareVars, ComparesExactly, CompareTypeOK, Tracks, Running, AtMost
<1> QED
  BY <1>1, <1>2, <1>3, <1>4 DEF CompareNext, CompareReturned

(***************************************************************************)
(* fraction_at_most answers what comparing the cross products would, for   *)
(* all fractions of any width, and every round keeps the question.         *)
(***************************************************************************)
THEOREM ComparesExactlyAlways == CompareSpec => []ComparesExactly
<1> QED
  BY InitCompares, NextCompares, PTL DEF CompareSpec

(***************************************************************************)
(* Every further round of its loop has lesser denominators on both sides.  *)
(***************************************************************************)
THEOREM RoundsShrink == CompareSpec => Shrinks
<1>1. ComparesExactly /\ [CompareNext]_compareVars
        => [Running' => ad' < ad /\ bd' < bd]_<<an, ad, bn, bd, reversed>>
  <2> SUFFICES ASSUME ComparesExactly, [CompareNext]_compareVars
               PROVE  [Running' => ad' < ad /\ bd' < bd]_<<an, ad, bn, bd, reversed>>
    OBVIOUS
  <2>n. Ar < ad /\ Br < bd
    BY Operands DEF ComparesExactly
  <2>1. CASE Decide \/ End
    BY <2>1 DEF Decide, End, Answer
  <2>2. CASE Descend
    BY <2>2, <2>n DEF Descend
  <2>3. CASE UNCHANGED compareVars
    BY <2>3 DEF compareVars
  <2> QED
    BY <2>1, <2>2, <2>3 DEF CompareNext, CompareReturned
<1> QED
  BY <1>1, ComparesExactlyAlways, PTL DEF CompareSpec, Shrinks

\* Two sets of which each element has one partner are equally large.
LEMMA Paired ==
  ASSUME NEW S, NEW T, IsFiniteSet(S), NEW f \in [S -> T],
         \A x, y \in S : f[x] = f[y] => x = y,
         \A y \in T : \E x \in S : f[x] = y
  PROVE  IsFiniteSet(T) /\ Cardinality(T) = Cardinality(S)
<1>1. f \in Injection(S, T)
  BY DEF Injection, IsInjective
<1>2. f \in Surjection(S, T)
  BY DEF Surjection
<1>3. f \in Bijection(S, T)
  BY <1>1, <1>2 DEF Bijection
<1> QED BY <1>3, FS_Bijection DEF ExistsBijection

-----------------------------------------------------------------------------
(* The places of the elements of a finite set in a strict order of them. *)

StrictlyOrders(R, S) ==
  /\ \A x \in S : <<x, x>> \notin R
  /\ \A x, y, z \in S : <<x, y>> \in R /\ <<y, z>> \in R => <<x, z>> \in R
  /\ \A x, y \in S : x # y => <<x, y>> \in R \/ <<y, x>> \in R

Before(x, R, S) == {y \in S : <<y, x>> \in R}

Place(x, R, S) == Cardinality(Before(x, R, S))

\* An element has a place, which is less than that of the elements after it.
LEMMA PlacesGrow ==
  ASSUME NEW S, NEW R, IsFiniteSet(S), StrictlyOrders(R, S)
  PROVE  /\ \A x \in S : Place(x, R, S) \in 0 .. (Cardinality(S) - 1)
         /\ \A x, y \in S : <<x, y>> \in R => Place(x, R, S) < Place(y, R, S)
<1>1. Cardinality(S) \in Nat
  BY FS_CardinalityType
<1>2. \A x \in S : Before(x, R, S) \in SUBSET S /\ x \notin Before(x, R, S)
  BY DEF Before, StrictlyOrders
<1>3. ASSUME NEW T \in SUBSET S, NEW U \in SUBSET S, T \subseteq U, T # U
      PROVE  Cardinality(T) \in Nat /\ Cardinality(T) < Cardinality(U)
  <2>1. IsFiniteSet(T) /\ IsFiniteSet(U)
    BY FS_Subset
  <2>2. Cardinality(T) \in Nat /\ Cardinality(U) \in Nat
    BY <2>1, FS_CardinalityType
  <2>3. /\ Cardinality(T) <= Cardinality(U)
        /\ Cardinality(U) = Cardinality(T) => U = T
    BY <1>3, <2>1, FS_Subset
  <2> QED BY <1>3, <2>2, <2>3
<1>4. ASSUME NEW x \in S PROVE Place(x, R, S) \in 0 .. (Cardinality(S) - 1)
  <2>1. Before(x, R, S) \in SUBSET S /\ S \in SUBSET S /\ Before(x, R, S) # S
    BY <1>2
  <2>2. /\ Cardinality(Before(x, R, S)) \in Nat
        /\ Cardinality(Before(x, R, S)) < Cardinality(S)
    BY <1>3, <2>1
  <2> QED BY <1>1, <2>2 DEF Place
<1>5. ASSUME NEW x \in S, NEW y \in S, <<x, y>> \in R
      PROVE  Place(x, R, S) < Place(y, R, S)
  <2>1. x \in Before(y, R, S) /\ x \notin Before(x, R, S)
    BY <1>2, <1>5 DEF Before
  <2>2. Before(x, R, S) \subseteq Before(y, R, S)
    BY <1>5 DEF Before, StrictlyOrders
  <2>3. Before(x, R, S) # Before(y, R, S)
    BY <2>1
  <2> QED BY <1>2, <1>3, <2>2, <2>3 DEF Place
<1> QED BY <1>4, <1>5

\* Every place is that of one element.
LEMMA PlacesFill ==
  ASSUME NEW S, NEW R, IsFiniteSet(S), StrictlyOrders(R, S)
  PROVE  /\ \A x, y \in S : Place(x, R, S) = Place(y, R, S) => x = y
         /\ \A k \in 0 .. (Cardinality(S) - 1) : \E x \in S : Place(x, R, S) = k
<1>1. /\ \A x \in S : Place(x, R, S) \in 0 .. (Cardinality(S) - 1)
      /\ \A x, y \in S : <<x, y>> \in R => Place(x, R, S) < Place(y, R, S)
  BY PlacesGrow
<1>2. ASSUME NEW x \in S, NEW y \in S, Place(x, R, S) = Place(y, R, S)
      PROVE  x = y
  <2> SUFFICES ASSUME x # y PROVE FALSE
    OBVIOUS
  <2>1. <<x, y>> \in R \/ <<y, x>> \in R
    BY DEF StrictlyOrders
  <2>2. Place(x, R, S) < Place(y, R, S) \/ Place(y, R, S) < Place(x, R, S)
    BY <1>1, <2>1
  <2>3. Place(x, R, S) \in Int /\ Place(y, R, S) \in Int
    BY <1>1
  <2> QED BY <1>2, <2>2, <2>3
<1>3. ASSUME NEW k \in 0 .. (Cardinality(S) - 1)
      PROVE  \E x \in S : Place(x, R, S) = k
  <2> DEFINE n == Cardinality(S)
             f == [x \in S |-> Place(x, R, S)]
             T == {f[x] : x \in S}
  <2>1. n \in Nat
    BY FS_CardinalityType
  <2>2. f \in [S -> T] /\ \A x, y \in S : f[x] = f[y] => x = y
    BY <1>2
  <2>3. \A y \in T : \E x \in S : f[x] = y
    OBVIOUS
  <2>4. IsFiniteSet(T) /\ Cardinality(T) = n
    <3> HIDE DEF f, T
    <3> QED BY <2>2, <2>3, Paired
  <2>5. T \in SUBSET (0 .. (n - 1))
    BY <1>1
  <2>6. IsFiniteSet(0 .. (n - 1)) /\ Cardinality(0 .. (n - 1)) = n
    <3>1. 0 \in Int /\ n - 1 \in Int
      BY <2>1
    <3>2. /\ IsFiniteSet(0 .. (n - 1))
          /\ Cardinality(0 .. (n - 1)) = IF 0 > n - 1 THEN 0 ELSE (n - 1) - 0 + 1
      BY <3>1, FS_Interval
    <3> QED BY <2>1, <3>2
  <2>7. T = 0 .. (n - 1)
    BY <2>4, <2>5, <2>6, FS_Subset
  <2> QED BY <2>7
<1> QED BY <1>2, <1>3

\* The order of numbers.
Lesser(S) == {p \in S \X S : p[1] < p[2]}

\* The order of numbers, as a relation on a set of them.
LEMMA NumbersOrdered ==
  ASSUME NEW S, S \subseteq Nat
  PROVE  /\ StrictlyOrders(Lesser(S), S)
         /\ \A x, y \in S : <<x, y>> \in Lesser(S) <=> x < y
         /\ \A x \in S : Before(x, Lesser(S), S) = {y \in S : y < x}
<1>1. \A x \in S : x \in Nat
  OBVIOUS
<1>2. \A x, y \in S : <<x, y>> \in Lesser(S) <=> x < y
  BY DEF Lesser
<1>3. /\ \A x \in S : ~(x < x)
      /\ \A x, y, z \in S : x < y /\ y < z => x < z
      /\ \A x, y \in S : x # y => x < y \/ y < x
  BY <1>1
<1>4. StrictlyOrders(Lesser(S), S)
  BY <1>2, <1>3, Zenon DEF StrictlyOrders
<1> QED BY <1>2, <1>4 DEF Before

\* The order of keys.
ByKey(S) == {p \in S \X S : Precedes(p[1], p[2])}

\* On keys, Precedes is the lexicographic order of pairs.
LEMMA KeysCompare ==
  ASSUME NEW k \in Nat \X Nat, NEW l \in Nat \X Nat
  PROVE  Precedes(k, l) <=> k[1] < l[1] \/ (k[1] = l[1] /\ k[2] < l[2])
<1>1. DOMAIN k = {1, 2} /\ 1 .. (1 - 1) = {} /\ 1 .. (2 - 1) = {1}
  OBVIOUS
<1> QED BY <1>1 DEF Precedes

\* The order of keys, as a relation on a set of them.
LEMMA KeysOrdered ==
  ASSUME NEW S, S \subseteq Nat \X Nat
  PROVE  /\ StrictlyOrders(ByKey(S), S)
         /\ \A x, y \in S : <<x, y>> \in ByKey(S) <=> Precedes(x, y)
         /\ \A x \in S : Before(x, ByKey(S), S) = {y \in S : Precedes(y, x)}
<1>1. \A x \in S : x \in Nat \X Nat /\ x[1] \in Nat /\ x[2] \in Nat /\ x = <<x[1], x[2]>>
  OBVIOUS
<1>2. \A x, y \in S : <<x, y>> \in ByKey(S) <=> Precedes(x, y)
  BY DEF ByKey
<1>3. \A x, y \in S : Precedes(x, y) <=> x[1] < y[1] \/ (x[1] = y[1] /\ x[2] < y[2])
  BY <1>1, KeysCompare
<1>4. \A x, y \in S : x # y => x[1] # y[1] \/ x[2] # y[2]
  BY <1>1
<1>5. StrictlyOrders(ByKey(S), S)
  BY <1>1, <1>2, <1>3, <1>4 DEF StrictlyOrders
<1> QED BY <1>2, <1>5 DEF Before

-----------------------------------------------------------------------------
(* The hardware.  In the two-level tree, what overlaps has a common part. *)

Nodes == ToSet(resources)

TreeSays ==
  /\ \A r \in Nodes : r.id # 0
  /\ \A r, s \in Nodes : r.id = s.id => r = s
  /\ \A r \in Nodes :
       IF r.kind = "channel" THEN IsKind(r.parent, "timer") ELSE r.parent = 0

\* What the validation of the resources has made sure of.
LEMMA TheTree == TreeValid => TreeSays
<1> SUFFICES ASSUME TreeValid PROVE TreeSays
  OBVIOUS
<1>1. \A r \in Nodes : \E i \in DOMAIN resources : r = resources[i]
  BY DEF Nodes, ToSet
<1>2. \A i \in DOMAIN resources :
        /\ resources[i].id # 0
        /\ \A j \in DOMAIN resources : i # j => resources[j].id # resources[i].id
        /\ IF resources[i].kind = "channel"
           THEN IsKind(resources[i].parent, "timer") ELSE resources[i].parent = 0
  BY DEF TreeValid
<1> QED BY <1>1, <1>2 DEF TreeSays

\* A resource has one kind, and is not 0.
LEMMA OneKind ==
  ASSUME TreeSays, NEW x, NEW k, IsKind(x, k)
  PROVE  x # 0 /\ \A l : IsKind(x, l) => l = k
BY DEF TreeSays, IsKind, Nodes

\* What is taken with a set of resources.
LEMMA Covers ==
  ASSUME TreeSays, NEW S, NEW y
  PROVE  y \in Territory(S) <=> \E x \in S : x # 0 /\ Descendant(y, x)
<1>1. y \in Territory(S) <=>
        \E x \in S : x # 0 /\ (y = x \/ \E r \in Nodes : r.id = y /\ r.parent = x)
  BY DEF Territory, Nodes
<1>2. \A r \in Nodes : r.id # 0
  BY DEF TreeSays
<1> QED BY <1>1, <1>2 DEF Descendant, Nodes

\* Two resources overlap if their territories have a common part.
LEMMA OverlapIsCommon ==
  ASSUME TreeSays, NEW x, NEW y
  PROVE  Overlaps(x, y) <=>
           x # 0 /\ y # 0 /\ \E z : Descendant(z, x) /\ Descendant(z, y)
<1>1. ASSUME Overlaps(x, y)
      PROVE  x # 0 /\ y # 0 /\ \E z : Descendant(z, x) /\ Descendant(z, y)
  <2>1. x # 0 /\ y # 0 /\ (Descendant(x, y) \/ Descendant(y, x))
    BY <1>1 DEF Overlaps
  <2>2. Descendant(x, x) /\ Descendant(y, y)
    BY <2>1 DEF Descendant
  <2> QED BY <2>1, <2>2
<1>2. ASSUME x # 0, y # 0, NEW z, Descendant(z, x), Descendant(z, y)
      PROVE  Overlaps(x, y)
  <2>1. z = x \/ \E r \in Nodes : r.id = z /\ r.parent = x
    BY <1>2 DEF Descendant, Nodes
  <2>2. z = y \/ \E r \in Nodes : r.id = z /\ r.parent = y
    BY <1>2 DEF Descendant, Nodes
  <2>3. \A r, s \in Nodes : r.id = s.id => r = s
    BY DEF TreeSays
  <2>4. z = x \/ z = y \/ x = y
    BY <2>1, <2>2, <2>3
  <2>5. CASE x = y
    BY <1>2, <2>5 DEF Overlaps, Descendant
  <2> QED BY <1>2, <2>4, <2>5 DEF Overlaps
<1> QED BY <1>1, <1>2

\* The territories of two sets meet where an element of one overlaps one of
\* the other.
LEMMA TerritoriesMeet ==
  ASSUME TreeSays, NEW S, NEW T
  PROVE  Territory(S) \cap Territory(T) # {} <=> \E x \in S, y \in T : Overlaps(x, y)
<1>1. \A z : z \in Territory(S) <=> \E x \in S : x # 0 /\ Descendant(z, x)
  BY Covers
<1>2. \A z : z \in Territory(T) <=> \E x \in T : x # 0 /\ Descendant(z, x)
  BY Covers
<1>3. \A x, y : Overlaps(x, y) <=>
           x # 0 /\ y # 0 /\ \E z : Descendant(z, x) /\ Descendant(z, y)
  BY OverlapIsCommon
<1>4. Territory(S) \cap Territory(T) # {} <=> \E z : z \in Territory(S) /\ z \in Territory(T)
  OBVIOUS
<1>5. (\E z : z \in Territory(S) /\ z \in Territory(T)) <=>
        \E x \in S, y \in T : x # 0 /\ y # 0 /\ \E z : Descendant(z, x) /\ Descendant(z, y)
  BY <1>1, <1>2, Zenon
<1> QED BY <1>3, <1>4, <1>5, Zenon

\* The reservations that reserved_by finds are those in the way.
LEMMA BlockersBlock ==
  ASSUME TreeSays, NEW c \in Columns
  PROVE  /\ Blockers(candidates[c]) = {r \in ToSet(reservations) : Blocks(r, c)}
         /\ Blockers(candidates[c]) = {} <=> Free(c)
<1>1. ASSUME NEW r
      PROVE  Blocks(r, c) <=> \E x \in Occupies(candidates[c]) : Overlaps(r, x)
  <2>1. Blocks(r, c) <=> \E x \in {r}, y \in Occupies(candidates[c]) : Overlaps(x, y)
    BY TerritoriesMeet DEF Blocks
  <2> QED BY <2>1
<1> QED BY <1>1 DEF Blockers, Free

\* A pin overlaps no timer and no channel.
LEMMA PinsStandAlone ==
  ASSUME TreeSays, NEW x, IsKind(x, "pin"), NEW y, NEW k \in {"timer", "channel"}, IsKind(y, k)
  PROVE  ~Overlaps(x, y) /\ ~Overlaps(y, x)
<1>1. x # y /\ x # 0 /\ y # 0
  BY OneKind
<1>2. PICK p \in Nodes : p.id = x /\ p.kind = "pin"
  BY DEF IsKind, Nodes
<1>3. ~Descendant(x, y)
  <2>1. \A r \in Nodes : r.id = x => r.parent = 0
    BY <1>2 DEF TreeSays
  <2> QED BY <1>1, <2>1 DEF Descendant, Nodes
<1>4. ~Descendant(y, x)
  <2> SUFFICES ASSUME Descendant(y, x) PROVE FALSE
    OBVIOUS
  <2>1. PICK r \in Nodes : r.id = y /\ r.parent = x
    BY <1>1 DEF Descendant, Nodes
  <2>2. IsKind(x, "timer")
    BY <1>1, <2>1 DEF TreeSays
  <2> QED BY <2>2, OneKind
<1> QED BY <1>3, <1>4 DEF Overlaps

\* A channel overlaps its own timer only.
LEMMA ChannelsHaveOneTimer ==
  ASSUME TreeSays, NEW x, IsKind(x, "channel"), NEW t, IsKind(t, "timer"),
         Descendant(x, t), NEW s, IsKind(s, "timer"), Overlaps(s, x) \/ Overlaps(x, s)
  PROVE  s = t
<1>1. x # t /\ x # s /\ s # 0
  BY OneKind
<1>2. PICK r \in Nodes : r.id = x /\ r.parent = t
  BY <1>1 DEF Descendant, Nodes
<1>3. Descendant(s, x) \/ Descendant(x, s)
  BY DEF Overlaps
<1>4. ~Descendant(s, x)
  <2> SUFFICES ASSUME Descendant(s, x) PROVE FALSE
    OBVIOUS
  <2>1. PICK q \in Nodes : q.id = s /\ q.parent = x
    BY <1>1 DEF Descendant, Nodes
  <2>2. PICK p \in Nodes : p.id = s /\ p.kind = "timer"
    BY DEF IsKind, Nodes
  <2>3. q.parent = 0
    BY <2>1, <2>2 DEF TreeSays
  <2>4. x # 0
    BY OneKind
  <2> QED BY <2>1, <2>3, <2>4
<1>5. PICK q \in Nodes : q.id = x /\ q.parent = s
  BY <1>1, <1>3, <1>4 DEF Descendant, Nodes
<1> QED BY <1>2, <1>5 DEF TreeSays

\* What the validation says of a candidate's resources.
WellPlaced(c) ==
  /\ IsKind(c.timer, "timer")
  /\ IF c.domain = 0 THEN c.setting = 0 ELSE IsKind(c.domain, "domain")
  /\ \A e \in ToSet(c.endpoints) :
       /\ IsKind(e.channel, "channel")
       /\ IsKind(e.pin, "pin")
       /\ Descendant(e.channel, c.timer)

\* The hardware of a valid candidate is of the kinds it has to be.
LEMMA ValidIsWellPlaced ==
  ASSUME NEW c, CandidateValid(c)
  PROVE  WellPlaced(c)
<1>1. \A i \in DOMAIN c.endpoints : EndpointValid(c, c.endpoints[i])
  BY DEF CandidateValid
<1> QED BY <1>1 DEF CandidateValid, EndpointValid, WellPlaced, ToSet

\* A candidate's hardware: its timer, its channels and its pins.
LEMMA HardwareIs ==
  ASSUME TreeSays, NEW c \in Columns, WellPlaced(candidates[c])
  PROVE  Hardware(c) =
           Territory({candidates[c].timer}
                       \cup {e.pin : e \in ToSet(candidates[c].endpoints)}
                       \cup {e.channel : e \in ToSet(candidates[c].endpoints)})
<1> DEFINE it == candidates[c]
           S == {it.timer} \cup {e.pin : e \in ToSet(it.endpoints)}
                  \cup {e.channel : e \in ToSet(it.endpoints)}
<1>1. it.domain \notin S
  <2>1. CASE it.domain = 0
    <3>1. it.timer # 0 /\ \A e \in ToSet(it.endpoints) : e.pin # 0 /\ e.channel # 0
      BY OneKind DEF WellPlaced
    <3> QED BY <2>1, <3>1
  <2>2. CASE it.domain # 0
    <3>1. IsKind(it.domain, "domain")
      BY <2>2 DEF WellPlaced
    <3>2. \A l : IsKind(it.domain, l) => l = "domain"
      BY <3>1, OneKind
    <3>3. ~IsKind(it.domain, "timer") /\ ~IsKind(it.domain, "pin") /\ ~IsKind(it.domain, "channel")
      BY <3>2
    <3> QED BY <3>3 DEF WellPlaced
  <2> QED BY <2>1, <2>2
<1>2. Occupies(it) \ {it.domain} = S
  BY <1>1 DEF Occupies
<1> QED BY <1>2 DEF Hardware

\* compatible compares like with like, which is enough.
LEMMA CompatibleIsApart ==
  ASSUME TreeSays, NEW c \in Columns, WellPlaced(candidates[c]),
         NEW d \in Columns, WellPlaced(candidates[d])
  PROVE  Compatible(candidates[c], candidates[d]) <=> Apart(c, d)
<1> DEFINE a == candidates[c]
           b == candidates[d]
           C1 == {e.channel : e \in ToSet(a.endpoints)}
           C2 == {e.channel : e \in ToSet(b.endpoints)}
           Q1 == {e.pin : e \in ToSet(a.endpoints)}
           Q2 == {e.pin : e \in ToSet(b.endpoints)}
           S == {a.timer} \cup Q1 \cup C1
           T == {b.timer} \cup Q2 \cup C2
           Meet == \E x \in S, y \in T : Overlaps(x, y)
<1>1. Hardware(c) = Territory(S) /\ Hardware(d) = Territory(T)
  BY HardwareIs
<1>2. Hardware(c) \cap Hardware(d) # {} <=> Meet
  <2> HIDE DEF S, T
  <2>1. Territory(S) \cap Territory(T) # {} <=> Meet
    BY TerritoriesMeet
  <2> QED BY <1>1, <2>1
<1>3. /\ IsKind(a.timer, "timer") /\ IsKind(b.timer, "timer")
      /\ \A x \in C1 : IsKind(x, "channel") /\ Descendant(x, a.timer)
      /\ \A x \in C2 : IsKind(x, "channel") /\ Descendant(x, b.timer)
      /\ \A x \in Q1 \cup Q2 : IsKind(x, "pin")
  BY DEF WellPlaced
<1>4. Compatible(a, b) <=>
        /\ ~Overlaps(a.timer, b.timer)
        /\ ~(a.domain # 0 /\ a.domain = b.domain /\ a.setting # b.setting)
        /\ \A x \in Q1, y \in Q2 : ~Overlaps(x, y)
        /\ \A x \in C1, y \in C2 : ~Overlaps(x, y)
  <2>1. (\A x \in Q1, y \in Q2 : ~Overlaps(x, y)) /\ (\A x \in C1, y \in C2 : ~Overlaps(x, y))
          => \A f \in ToSet(a.endpoints), e \in ToSet(b.endpoints) :
               ~Overlaps(f.pin, e.pin) /\ ~Overlaps(f.channel, e.channel)
    OBVIOUS
  <2>2. (\A f \in ToSet(a.endpoints), e \in ToSet(b.endpoints) :
               ~Overlaps(f.pin, e.pin) /\ ~Overlaps(f.channel, e.channel))
          => (\A x \in Q1, y \in Q2 : ~Overlaps(x, y)) /\ (\A x \in C1, y \in C2 : ~Overlaps(x, y))
    OBVIOUS
  <2> QED BY <2>1, <2>2 DEF Compatible
<1> HIDE DEF C1, C2, Q1, Q2
<1>5. Meet <=> \/ Overlaps(a.timer, b.timer)
               \/ \E x \in Q1, y \in Q2 : Overlaps(x, y)
               \/ \E x \in C1, y \in C2 : Overlaps(x, y)
  <2>1. \A x \in Q1, y \in T \ Q2 : ~Overlaps(x, y)
    BY <1>3, PinsStandAlone
  <2>2. \A x \in S \ Q1, y \in Q2 : ~Overlaps(x, y)
    BY <1>3, PinsStandAlone
  <2>3. ASSUME NEW y \in C2, Overlaps(a.timer, y) PROVE Overlaps(a.timer, b.timer)
    <3>1. a.timer = b.timer /\ a.timer # 0
      BY <1>3, <2>3, ChannelsHaveOneTimer, OneKind
    <3> QED BY <3>1 DEF Overlaps, Descendant
  <2>4. ASSUME NEW x \in C1, Overlaps(x, b.timer) PROVE Overlaps(a.timer, b.timer)
    <3>1. a.timer = b.timer /\ a.timer # 0
      BY <1>3, <2>4, ChannelsHaveOneTimer, OneKind
    <3> QED BY <3>1 DEF Overlaps, Descendant
  <2>5. ASSUME NEW x \in S, NEW y \in T, Overlaps(x, y)
        PROVE  \/ Overlaps(a.timer, b.timer)
               \/ \E u \in Q1, v \in Q2 : Overlaps(u, v)
               \/ \E u \in C1, v \in C2 : Overlaps(u, v)
    <3>1. (x = a.timer \/ x \in Q1 \/ x \in C1) /\ (y = b.timer \/ y \in Q2 \/ y \in C2)
      OBVIOUS
    <3>2. CASE x \in Q1
      BY <2>1, <2>5, <3>2
    <3>3. CASE y \in Q2
      BY <2>2, <2>5, <3>3
    <3>4. CASE x = a.timer /\ y = b.timer
      BY <2>5, <3>4
    <3>5. CASE x = a.timer /\ y \in C2
      BY <2>3, <2>5, <3>5
    <3>6. CASE x \in C1 /\ y = b.timer
      BY <2>4, <2>5, <3>6
    <3>7. CASE x \in C1 /\ y \in C2
      BY <2>5, <3>7
    <3> QED BY <3>1, <3>2, <3>3, <3>4, <3>5, <3>6, <3>7
  <2>6. a.timer \in S /\ b.timer \in T /\ Q1 \subseteq S /\ Q2 \subseteq T
        /\ C1 \subseteq S /\ C2 \subseteq T
    OBVIOUS
  <2> HIDE DEF S, T, a, b
  <2> QED BY <2>5, <2>6
<1>6. (a.domain = b.domain => a.setting = b.setting)
        <=> ~(a.domain # 0 /\ a.domain = b.domain /\ a.setting # b.setting)
  BY DEF WellPlaced
<1>7. Apart(c, d) <=>
        Hardware(c) \cap Hardware(d) = {} /\ (a.domain = b.domain => a.setting = b.setting)
  BY DEF Apart
<1> QED BY <1>2, <1>4, <1>5, <1>6, <1>7

\* It does not matter which of the two is named first.
LEMMA ApartEitherWay ==
  ASSUME NEW c, NEW d
  PROVE  Apart(c, d) <=> Apart(d, c)
BY DEF Apart

-----------------------------------------------------------------------------
(* The units.  Requests in strictly growing order of their keys are grouped *)
(* into units that are the instances, numbered in the order of their names. *)

Name(i) == requests[i].key[1]

Keyed ==
  /\ requests \in Seq(Request)
  /\ \A i, j \in Rows : i < j => Precedes(requests[i].key, requests[j].key)

\* The rows of a sequence of requests, and what is in each.
LEMMA RowsAre ==
  ASSUME requests \in Seq(Request)
  PROVE  /\ Rows = 1 .. Len(requests) /\ Len(requests) \in Nat
         /\ Rows \subseteq Nat /\ \A i \in Rows : i \in Nat \ {0} /\ 1 .. i \subseteq Rows
         /\ IsFiniteSet(Rows) /\ Cardinality(Rows) = Len(requests)
         /\ \A i \in Rows : /\ requests[i] \in Request
                            /\ requests[i].key \in Nat \X Nat
                            /\ Name(i) \in Nat /\ requests[i].key[2] \in Nat
                            /\ requests[i].config \in Config
<1>1. Rows = 1 .. Len(requests) /\ Len(requests) \in Nat
  BY DEF Rows
<1>2. /\ IsFiniteSet(1 .. Len(requests))
      /\ Cardinality(1 .. Len(requests))
           = IF 1 > Len(requests) THEN 0 ELSE Len(requests) - 1 + 1
  <2>1. 1 \in Int /\ Len(requests) \in Int
    BY <1>1
  <2> QED BY <2>1, FS_Interval
<1>3. Cardinality(Rows) = Len(requests)
  BY <1>1, <1>2
<1>4. \A i \in Rows : i \in Nat \ {0} /\ 1 .. i \subseteq Rows
  BY <1>1
<1>5. \A i \in Rows : requests[i] \in Request
  BY <1>1
<1>6. \A r \in Request : r.key \in Nat \X Nat /\ r.config \in Config
  BY DEF Request
<1> QED BY <1>1, <1>2, <1>3, <1>4, <1>5, <1>6 DEF Name

\* The names of the instances grow with the rows, and no key comes twice.
LEMMA NamesGrow ==
  ASSUME Keyed
  PROVE  /\ \A i, j \in Rows : i <= j => Name(i) <= Name(j)
         /\ \A i, j \in Rows : Name(i) < Name(j) => i < j
         /\ \A i, j \in Rows : requests[i].key = requests[j].key => i = j
<1>1. /\ \A i \in Rows : i \in Nat /\ Name(i) \in Nat
      /\ \A i \in Rows : requests[i].key \in Nat \X Nat
      /\ \A i \in Rows : requests[i].key[2] \in Nat
  BY RowsAre DEF Keyed
<1>2. ASSUME NEW i \in Rows, NEW j \in Rows, i < j
      PROVE  Name(i) <= Name(j) /\ requests[i].key # requests[j].key
  <2>1. Precedes(requests[i].key, requests[j].key)
    BY <1>2 DEF Keyed
  <2>2. Name(i) < Name(j) \/ (Name(i) = Name(j) /\ requests[i].key[2] < requests[j].key[2])
    BY <1>1, <2>1, KeysCompare DEF Name
  <2> QED BY <1>1, <2>2 DEF Name
<1>3. ASSUME NEW i \in Rows, NEW j \in Rows, i <= j PROVE Name(i) <= Name(j)
  BY <1>1, <1>2, <1>3
<1>4. ASSUME NEW i \in Rows, NEW j \in Rows, Name(i) < Name(j) PROVE i < j
  BY <1>1, <1>3, <1>4
<1>5. ASSUME NEW i \in Rows, NEW j \in Rows, requests[i].key = requests[j].key
      PROVE  i = j
  BY <1>1, <1>2, <1>5
<1> QED BY <1>3, <1>4, <1>5

\* Every request has one opener, which is that of its instance.
LEMMA OpenerIs ==
  ASSUME requests \in Seq(Request), NEW i \in Rows
  PROVE  /\ OpenerOf(i) \in 1 .. i /\ OpenerOf(i) \in Rows
         /\ Name(OpenerOf(i)) = Name(i) /\ Opens(OpenerOf(i))
         /\ \A j \in 1 .. i : Name(j) = Name(i) /\ Opens(j) => j = OpenerOf(i)
<1> DEFINE S == {j \in 1 .. i : SameUnit(i, j)}
<1>1. i \in Nat \ {0} /\ 1 .. i \subseteq Rows
  BY RowsAre
<1>2. i \in S /\ S \subseteq Nat
  BY <1>1 DEF SameUnit
<1>3. PICK j \in S : \A k \in S : j <= k
  <2> HIDE DEF S
  <2> QED BY <1>2, LeastOf
<1>4. j \in 1 .. i /\ SameUnit(i, j)
  BY <1>3
<1>5. Opens(j)
  <2> SUFFICES ASSUME NEW k \in 1 .. (j - 1), SameUnit(j, k) PROVE FALSE
    BY DEF Opens
  <2>1. k \in 1 .. i /\ SameUnit(i, k)
    BY <1>1, <1>4 DEF SameUnit
  <2>2. j <= k
    BY <1>3, <2>1
  <2> QED BY <1>1, <1>4, <2>2
<1>6. /\ OpenerOf(i) \in 1 .. i
      /\ SameUnit(i, OpenerOf(i)) /\ Opens(OpenerOf(i))
  BY <1>4, <1>5, Zenon DEF OpenerOf
<1>7. ASSUME NEW g \in 1 .. i, SameUnit(i, g), Opens(g),
             NEW h \in 1 .. i, SameUnit(i, h), Opens(h)
      PROVE  g = h
  <2>1. SameUnit(g, h) /\ SameUnit(h, g)
    BY <1>7 DEF SameUnit
  <2>2. h \notin 1 .. (g - 1) /\ g \notin 1 .. (h - 1)
    BY <1>7, <2>1 DEF Opens
  <2> QED BY <1>1, <2>2
<1>8. \A k : SameUnit(i, k) <=> Name(k) = Name(i)
  BY DEF SameUnit, Name
<1> QED BY <1>1, <1>6, <1>7, <1>8

Openers == {h \in Rows : Opens(h)}

\* Two requests have one opener if they are of one instance.
LEMMA SameOpener ==
  ASSUME requests \in Seq(Request), NEW i \in Rows, NEW j \in Rows
  PROVE  OpenerOf(i) = OpenerOf(j) <=> Name(i) = Name(j)
<1>1. \A k \in Rows : k \in Nat \ {0}
  BY RowsAre
<1>2. ASSUME NEW g \in Rows, NEW h \in Rows, g <= h, Name(g) = Name(h)
      PROVE  OpenerOf(g) = OpenerOf(h)
  <2>1. OpenerOf(g) \in 1 .. g /\ Name(OpenerOf(g)) = Name(g) /\ Opens(OpenerOf(g))
    BY OpenerIs
  <2>2. OpenerOf(g) \in 1 .. h
    BY <1>1, <1>2, <2>1
  <2> QED BY <1>2, <2>1, <2>2, OpenerIs
<1>3. Name(OpenerOf(i)) = Name(i) /\ Name(OpenerOf(j)) = Name(j)
  BY OpenerIs
<1>4. i <= j \/ j <= i
  BY <1>1
<1> QED BY <1>2, <1>3, <1>4

\* The number of a request's unit.
LEMMA CountIsPlace ==
  ASSUME requests \in Seq(Request), NEW i \in Rows
  PROVE  /\ OpenerOf(i) \in Openers
         /\ Count(i) = Place(OpenerOf(i), Lesser(Openers), Openers) + 1
         /\ Place(OpenerOf(i), Lesser(Openers), Openers) \in 0 .. (Cardinality(Openers) - 1)
<1> DEFINE o == OpenerOf(i)
           B == {h \in Openers : h < o}
<1>1. Rows \subseteq Nat /\ IsFiniteSet(Rows) /\ \A k \in Rows : k \in Nat \ {0} /\ 1 .. k \subseteq Rows
  BY RowsAre
<1>2. o \in Rows /\ Opens(o)
  BY OpenerIs
<1>3. o \in Openers /\ Openers \subseteq Nat /\ IsFiniteSet(Openers)
  BY <1>1, <1>2, FS_Subset DEF Openers
<1>4. /\ StrictlyOrders(Lesser(Openers), Openers)
      /\ Place(o, Lesser(Openers), Openers) = Cardinality(B)
  BY <1>3, NumbersOrdered DEF Place
<1> HIDE DEF o
<1>5. {h \in 1 .. o : Opens(h)} = B \cup {o}
  <2>1. o \in Nat \ {0} /\ 1 .. o \subseteq Rows
    BY <1>1, <1>2
  <2>2. \A h \in Rows : h \in Nat \ {0}
    BY <1>1
  <2>3. \A h \in Rows : h \in 1 .. o <=> h < o \/ h = o
    BY <2>1, <2>2
  <2> QED BY <1>2, <2>1, <2>3 DEF Openers
<1>6. IsFiniteSet(B) /\ o \notin B
  <2>1. B \in SUBSET Openers /\ o \in Nat
    BY <1>3
  <2> QED BY <1>3, <2>1, FS_Subset
<1>7. Cardinality(B \cup {o}) = Cardinality(B) + 1
  BY <1>6, FS_AddElement
<1>8. Place(o, Lesser(Openers), Openers) \in 0 .. (Cardinality(Openers) - 1)
  BY <1>3, <1>4, PlacesGrow
<1> QED BY <1>3, <1>4, <1>5, <1>7, <1>8 DEF Count, o

\* Units are numbered as the names of their instances are ordered.
LEMMA CountsAreNames ==
  ASSUME Keyed
  PROVE  /\ \A i \in Rows : Count(i) \in Nat
         /\ \A i, j \in Rows : Count(i) = Count(j) <=> Name(i) = Name(j)
         /\ \A i, j \in Rows : Count(i) < Count(j) <=> Name(i) < Name(j)
         /\ \E n \in Nat : {Count(i) : i \in Rows} = 1 .. n
<1> DEFINE P(i) == Place(OpenerOf(i), Lesser(Openers), Openers)
           n == Cardinality(Openers)
<1>1. requests \in Seq(Request)
  BY DEF Keyed
<1>2. Rows \subseteq Nat /\ IsFiniteSet(Rows) /\ \A i \in Rows : Name(i) \in Nat
  BY <1>1, RowsAre
<1>3. Openers \subseteq Nat /\ IsFiniteSet(Openers) /\ n \in Nat
  BY <1>2, FS_Subset, FS_CardinalityType DEF Openers
<1>4. /\ StrictlyOrders(Lesser(Openers), Openers)
      /\ \A x, y \in Openers : <<x, y>> \in Lesser(Openers) <=> x < y
  BY <1>3, NumbersOrdered
<1>5. /\ \A x, y \in Openers :
           x < y => Place(x, Lesser(Openers), Openers) < Place(y, Lesser(Openers), Openers)
      /\ \A k \in 0 .. (n - 1) :
           \E x \in Openers : Place(x, Lesser(Openers), Openers) = k
  BY <1>3, <1>4, PlacesGrow, PlacesFill
<1>6. \A i \in Rows : /\ OpenerOf(i) \in Openers
                      /\ Count(i) = P(i) + 1 /\ P(i) \in 0 .. (n - 1)
  BY <1>1, CountIsPlace
<1>7. \A i, j \in Rows : OpenerOf(i) = OpenerOf(j) <=> Name(i) = Name(j)
  BY <1>1, SameOpener
<1>8. ASSUME NEW i \in Rows, NEW j \in Rows, Name(i) < Name(j)
      PROVE  P(i) < P(j)
  <2>1. OpenerOf(i) \in Rows /\ OpenerOf(j) \in Rows
        /\ Name(OpenerOf(i)) = Name(i) /\ Name(OpenerOf(j)) = Name(j)
    BY <1>1, OpenerIs
  <2>2. OpenerOf(i) < OpenerOf(j)
    BY <1>8, <2>1, NamesGrow
  <2> QED BY <1>5, <1>6, <2>2
<1> HIDE DEF P
<1>9. \A i \in Rows : Count(i) \in Nat /\ Count(i) = P(i) + 1 /\ P(i) \in Nat
  BY <1>3, <1>6
<1>10. \A i, j \in Rows : Name(i) = Name(j) => P(i) = P(j)
  BY <1>7 DEF P
<1>11. \A i, j \in Rows : Count(i) = Count(j) <=> Name(i) = Name(j)
  BY <1>2, <1>8, <1>9, <1>10
<1>12. \A i, j \in Rows : Count(i) < Count(j) <=> Name(i) < Name(j)
  BY <1>2, <1>8, <1>9, <1>10
<1>13. ASSUME NEW k \in 1 .. n PROVE \E i \in Rows : Count(i) = k
  <2>1. k - 1 \in 0 .. (n - 1)
    BY <1>3
  <2>2. PICK x \in Openers : Place(x, Lesser(Openers), Openers) = k - 1
    BY <1>5, <2>1
  <2>3. x \in Rows /\ x \in Nat \ {0} /\ Opens(x)
    BY <1>1, RowsAre DEF Openers
  <2>4. OpenerOf(x) = x
    BY <1>1, <2>3, OpenerIs
  <2>5. Count(x) = (k - 1) + 1
    BY <1>6, <2>2, <2>3, <2>4 DEF P
  <2> QED BY <1>3, <2>3, <2>5
<1>14. \A i \in Rows : Count(i) \in 1 .. n
  BY <1>3, <1>6
<1>15. {Count(i) : i \in Rows} = 1 .. n
  BY <1>13, <1>14
<1> QED BY <1>3, <1>9, <1>11, <1>12, <1>15

Grouped == Keyed /\ unit = [i \in Rows |-> Count(i)]

NameOf(u) == KeyOfUnit(u)[1]

\* Units are the instances in the order of their names, numbered from 1 on.
LEMMA UnitsAre ==
  ASSUME Grouped
  PROVE  /\ unit \in Seq(Nat) /\ DOMAIN unit = Rows
         /\ \A i \in Rows : unit[i] \in Nat /\ unit[i] \in UnitsUsed
         /\ \A i, j \in Rows : unit[i] = unit[j] <=> Name(i) = Name(j)
         /\ \A i, j \in Rows : unit[i] < unit[j] <=> Name(i) < Name(j)
         /\ \E n \in Nat : UnitsUsed = 1 .. n
<1>1. \A i \in Rows : unit[i] = Count(i)
  BY DEF Grouped
<1>2. /\ \A i \in Rows : Count(i) \in Nat
      /\ \A i, j \in Rows : Count(i) = Count(j) <=> Name(i) = Name(j)
      /\ \A i, j \in Rows : Count(i) < Count(j) <=> Name(i) < Name(j)
      /\ \E n \in Nat : {Count(i) : i \in Rows} = 1 .. n
  BY CountsAreNames DEF Grouped
<1>3. UnitsUsed = {Count(i) : i \in Rows}
  BY <1>1 DEF UnitsUsed
<1>4. unit \in Seq(Nat)
  <2>1. Rows = 1 .. Len(requests) /\ Len(requests) \in Nat
    BY RowsAre DEF Grouped, Keyed
  <2>2. unit \in [1 .. Len(requests) -> Nat]
    BY <1>2, <2>1 DEF Grouped
  <2> QED BY <2>1, <2>2
<1>5. DOMAIN unit = Rows
  BY DEF Grouped
<1>6. \A i \in Rows : unit[i] \in Nat /\ unit[i] \in UnitsUsed
  BY <1>1, <1>2 DEF UnitsUsed
<1>7. /\ \A i, j \in Rows : unit[i] = unit[j] <=> Name(i) = Name(j)
      /\ \A i, j \in Rows : unit[i] < unit[j] <=> Name(i) < Name(j)
  BY <1>1, <1>2
<1> QED BY <1>2, <1>3, <1>4, <1>5, <1>6, <1>7

\* The members of a unit are the requests of an instance, and the unit's key
\* is the first of theirs.
LEMMA MembersAre ==
  ASSUME Grouped, NEW u \in UnitsUsed
  PROVE  /\ NameOf(u) \in Instances
         /\ MembersOf(u) = {i \in Rows : Name(i) = NameOf(u)}
         /\ \E i \in MembersOf(u) :
              KeyOfUnit(u) = requests[i].key /\ \A j \in MembersOf(u) : i <= j
         /\ RequestsOf(NameOf(u)) = {requests[i] : i \in MembersOf(u)}
         /\ \A r \in RequestsOf(NameOf(u)) : ~Precedes(r.key, KeyOfUnit(u))
<1> DEFINE M == MembersOf(u)
           First(i) == \A j \in M : i <= j
           first == CHOOSE i \in M : First(i)
<1>1. /\ Rows \subseteq Nat
      /\ \A i \in Rows : requests[i].key \in Nat \X Nat
  BY RowsAre DEF Grouped, Keyed
<1>2. /\ \A i, j \in Rows : unit[i] = unit[j] <=> Name(i) = Name(j)
  BY UnitsAre
<1>3. M \subseteq Rows /\ \A i \in Rows : i \in M <=> unit[i] = u
  BY DEF MembersOf
<1>4. PICK h \in Rows : unit[h] = u
  BY DEF UnitsUsed
<1>5. h \in M /\ M \subseteq Nat
  BY <1>1, <1>3, <1>4
<1> HIDE DEF M
<1>6. \E i \in M : First(i)
  BY <1>5, LeastOf
<1>7. first \in M /\ First(first)
  <2> HIDE DEF First
  <2> QED BY <1>6
<1>8. KeyOfUnit(u) = requests[first].key
  BY DEF KeyOfUnit, M
<1> HIDE DEF first
<1>9. first \in Rows /\ unit[first] = u /\ NameOf(u) = Name(first)
  BY <1>3, <1>7, <1>8 DEF NameOf, Name
<1>10. M = {i \in Rows : Name(i) = NameOf(u)}
  BY <1>2, <1>3, <1>9
<1>11. RequestsOf(NameOf(u)) = {requests[i] : i \in M}
  BY <1>10 DEF RequestsOf, ToSet, Rows, Name
<1>12. ASSUME NEW i \in M PROVE ~Precedes(requests[i].key, KeyOfUnit(u))
  <2>1. i \in Rows /\ first <= i /\ i \in Nat /\ first \in Nat
    BY <1>1, <1>3, <1>7, <1>9
  <2>2. CASE i = first
    <3>1. requests[i].key[1] \in Nat /\ requests[i].key[2] \in Nat
      BY <1>1, <2>1
    <3> QED BY <1>1, <1>8, <2>1, <2>2, <3>1, KeysCompare
  <2>3. CASE first < i
    <3>1. Precedes(KeyOfUnit(u), requests[i].key)
      BY <1>8, <1>9, <2>1, <2>3 DEF Grouped, Keyed
    <3>2. KeyOfUnit(u) \in Nat \X Nat /\ requests[i].key \in Nat \X Nat
      BY <1>1, <1>8, <1>9, <2>1
    <3> QED BY <3>1, <3>2, KeysCompare
  <2> QED BY <2>1, <2>2, <2>3
<1>13. NameOf(u) \in Instances
  BY <1>9 DEF Instances, Name
<1>14. \A r \in RequestsOf(NameOf(u)) : ~Precedes(r.key, KeyOfUnit(u))
  BY <1>11, <1>12
<1> QED BY <1>7, <1>8, <1>10, <1>11, <1>13, <1>14 DEF M

\* The units are the instances, in the order of their names.
LEMMA UnitsAreInstancesInOrder ==
  ASSUME Grouped
  PROVE  /\ \A u, v \in UnitsUsed : NameOf(u) = NameOf(v) <=> u = v
         /\ \A u, v \in UnitsUsed : NameOf(u) < NameOf(v) <=> u < v
         /\ \A i \in Rows : NameOf(unit[i]) = Name(i)
         /\ \A o \in Instances : \E u \in UnitsUsed : NameOf(u) = o
<1>1. \A u \in UnitsUsed : \E i \in Rows : unit[i] = u
  BY DEF UnitsUsed
<1>2. /\ \A i, j \in Rows : unit[i] = unit[j] <=> Name(i) = Name(j)
      /\ \A i, j \in Rows : unit[i] < unit[j] <=> Name(i) < Name(j)
      /\ \A i \in Rows : unit[i] \in UnitsUsed
  BY UnitsAre
<1>3. \A i \in Rows : NameOf(unit[i]) = Name(i)
  <2> SUFFICES ASSUME NEW i \in Rows PROVE NameOf(unit[i]) = Name(i)
    OBVIOUS
  <2>1. MembersOf(unit[i]) = {j \in Rows : Name(j) = NameOf(unit[i])}
    BY <1>2, MembersAre
  <2>2. i \in MembersOf(unit[i])
    BY DEF MembersOf
  <2> QED BY <2>1, <2>2
<1>4. \A o \in Instances : \E i \in Rows : Name(i) = o
  BY DEF Instances, Name
<1>5. \A u, v \in UnitsUsed : NameOf(u) = NameOf(v) <=> u = v
  BY <1>1, <1>2, <1>3
<1>6. \A u, v \in UnitsUsed : NameOf(u) < NameOf(v) <=> u < v
  BY <1>1, <1>2, <1>3
<1> QED BY <1>2, <1>3, <1>4, <1>5, <1>6

-----------------------------------------------------------------------------
(* A candidate's endpoints and a unit's members, each in the order of keys. *)

KeysOf(c) == {e.request : e \in ToSet(c.endpoints)}

\* No two endpoints of a candidate have anything in common.
PartsDiffer(c) ==
  \A i, j \in DOMAIN c.endpoints :
    i # j => /\ c.endpoints[i].request # c.endpoints[j].request
             /\ c.endpoints[i].channel # c.endpoints[j].channel
             /\ c.endpoints[i].pin # c.endpoints[j].pin

\* The types of a candidate's fields and of its endpoints'.
LEMMA CandidateFields ==
  ASSUME NEW c \in Candidate
  PROVE  /\ c.endpoints \in Seq(Endpoint) /\ Len(c.endpoints) \in Nat
         /\ DOMAIN c.endpoints = 1 .. Len(c.endpoints)
         /\ \A i \in DOMAIN c.endpoints : c.endpoints[i] \in Endpoint
         /\ \A e \in ToSet(c.endpoints) :
              /\ e \in Endpoint /\ e.request \in Nat \X Nat /\ e.step \in Ratio
              /\ \E i \in DOMAIN c.endpoints : e = c.endpoints[i]
         /\ c.frequency \in Ratio /\ c.key \in Nat /\ c.timer \in Nat
         /\ c.counter_bits \in Nat /\ c.preference \in Nat /\ c.configuration \in Nat
<1>1. /\ c.endpoints \in Seq(Endpoint)
      /\ c.frequency \in Ratio /\ c.key \in Nat /\ c.timer \in Nat
      /\ c.counter_bits \in Nat /\ c.preference \in Nat /\ c.configuration \in Nat
  BY DEF Candidate
<1>2. /\ Len(c.endpoints) \in Nat
      /\ DOMAIN c.endpoints = 1 .. Len(c.endpoints)
      /\ \A i \in DOMAIN c.endpoints : c.endpoints[i] \in Endpoint
  BY <1>1
<1>3. \A e \in Endpoint : e.request \in Nat \X Nat /\ e.step \in Ratio
  BY DEF Endpoint
<1> QED BY <1>1, <1>2, <1>3 DEF ToSet

\* The endpoints of a valid candidate have nothing in common.
LEMMA ValidDiffer ==
  ASSUME NEW c \in Candidate, CandidateValid(c)
  PROVE  PartsDiffer(c)
<1>1. DOMAIN c.endpoints = 1 .. Len(c.endpoints) /\ Len(c.endpoints) \in Nat
  BY CandidateFields
<1>2. \A i \in DOMAIN c.endpoints : \A j \in 1 .. (i - 1) :
        /\ c.endpoints[i].request # c.endpoints[j].request
        /\ c.endpoints[i].channel # c.endpoints[j].channel
        /\ c.endpoints[i].pin # c.endpoints[j].pin
  BY DEF CandidateValid
<1>3. ASSUME NEW i \in DOMAIN c.endpoints, NEW j \in DOMAIN c.endpoints, i # j
      PROVE  i \in 1 .. (j - 1) \/ j \in 1 .. (i - 1)
  BY <1>1, <1>3
<1> QED BY <1>2, <1>3 DEF PartsDiffer

\* The keys of the endpoints tell them apart.
LEMMA EndpointsAre ==
  ASSUME NEW c \in Candidate, PartsDiffer(c)
  PROVE  /\ IsFiniteSet(ToSet(c.endpoints))
         /\ Cardinality(ToSet(c.endpoints)) = Len(c.endpoints)
         /\ \A d, e \in ToSet(c.endpoints) : d.request = e.request => d = e
         /\ IsFiniteSet(KeysOf(c)) /\ Cardinality(KeysOf(c)) = Len(c.endpoints)
         /\ KeysOf(c) \subseteq Nat \X Nat
<1> DEFINE E == ToSet(c.endpoints)
           D == DOMAIN c.endpoints
           f == [i \in D |-> c.endpoints[i]]
           g == [i \in D |-> c.endpoints[i].request]
<1>1. /\ Len(c.endpoints) \in Nat /\ D = 1 .. Len(c.endpoints)
      /\ \A e \in E : e.request \in Nat \X Nat /\ \E i \in D : e = c.endpoints[i]
  BY CandidateFields
<1>2. IsFiniteSet(D) /\ Cardinality(D) = Len(c.endpoints)
  <2>1. 1 \in Int /\ Len(c.endpoints) \in Int
    BY <1>1
  <2>2. /\ IsFiniteSet(1 .. Len(c.endpoints))
        /\ Cardinality(1 .. Len(c.endpoints))
             = IF 1 > Len(c.endpoints) THEN 0 ELSE Len(c.endpoints) - 1 + 1
    BY <2>1, FS_Interval
  <2> QED BY <1>1, <2>2
<1>3. \A i \in D : c.endpoints[i] \in E
  BY DEF ToSet
<1>4. \A i, j \in D : c.endpoints[i].request = c.endpoints[j].request => i = j
  BY DEF PartsDiffer
<1> HIDE DEF D, E
<1>5. /\ f \in [D -> E] /\ \A i, j \in D : f[i] = f[j] => i = j
      /\ \A e \in E : \E i \in D : f[i] = e
  BY <1>1, <1>3, <1>4
<1>6. /\ g \in [D -> KeysOf(c)] /\ \A i, j \in D : g[i] = g[j] => i = j
      /\ \A k \in KeysOf(c) : \E i \in D : g[i] = k
  <2>1. \A k : k \in KeysOf(c) <=> \E e \in E : e.request = k
    BY DEF KeysOf, E
  <2>2. g \in [D -> KeysOf(c)]
    BY <1>3, <2>1
  <2>3. \A k \in KeysOf(c) : \E i \in D : g[i] = k
    BY <1>1, <2>1
  <2> QED BY <1>4, <2>2, <2>3
<1> HIDE DEF f, g
<1>7. IsFiniteSet(E) /\ Cardinality(E) = Cardinality(D)
  BY <1>2, <1>5, Paired
<1>8. IsFiniteSet(KeysOf(c)) /\ Cardinality(KeysOf(c)) = Cardinality(D)
  BY <1>2, <1>6, Paired
<1>9. \A d, e \in E : d.request = e.request => d = e
  BY <1>1, <1>4
<1>10. KeysOf(c) \subseteq Nat \X Nat
  BY <1>1 DEF KeysOf, E
<1> QED BY <1>2, <1>7, <1>8, <1>9, <1>10 DEF E

\* No key comes before itself.
LEMMA KeysDiffer ==
  ASSUME NEW k \in Nat \X Nat, NEW l \in Nat \X Nat, Precedes(k, l)
  PROVE  k # l /\ ~Precedes(l, k)
<1>1. k[1] \in Nat /\ k[2] \in Nat /\ l[1] \in Nat /\ l[2] \in Nat
  OBVIOUS
<1>2. k[1] < l[1] \/ (k[1] = l[1] /\ k[2] < l[2])
  BY KeysCompare
<1>3. Precedes(l, k) <=> l[1] < k[1] \/ (l[1] = k[1] /\ l[2] < k[2])
  BY KeysCompare
<1> QED BY <1>1, <1>2, <1>3

\* The place of a key among others.
PlaceAmong(k, K) == Place(k, ByKey(K), K)

\* The rank of an endpoint is the place of its key.
LEMMA EarlierIsPlace ==
  ASSUME NEW c \in Candidate, PartsDiffer(c), NEW e \in ToSet(c.endpoints)
  PROVE  Cardinality(Earlier(e, c)) = PlaceAmong(e.request, KeysOf(c))
<1> DEFINE E == ToSet(c.endpoints)
           S == Earlier(e, c)
           T == {k \in KeysOf(c) : Precedes(k, e.request)}
           f == [d \in S |-> d.request]
<1>1. /\ IsFiniteSet(E)
      /\ \A x, y \in E : x.request = y.request => x = y
      /\ KeysOf(c) \subseteq Nat \X Nat
  BY EndpointsAre
<1>2. S = {d \in E : Precedes(d.request, e.request)}
  BY DEF Earlier
<1>3. S \in SUBSET E
  BY <1>2
<1>4. IsFiniteSet(S)
  BY <1>1, <1>3, FS_Subset
<1>5. /\ f \in [S -> T] /\ \A x, y \in S : f[x] = f[y] => x = y
      /\ \A k \in T : \E d \in S : f[d] = k
  <2>1. \A d \in E : d.request \in KeysOf(c)
    BY DEF KeysOf
  <2>2. \A k \in KeysOf(c) : \E d \in E : d.request = k
    BY DEF KeysOf
  <2> HIDE DEF E
  <2> QED BY <1>1, <1>2, <2>1, <2>2
<1> HIDE DEF S, f
<1>6. Cardinality(T) = Cardinality(S)
  <2> HIDE DEF T
  <2> QED BY <1>4, <1>5, Paired
<1>7. e.request \in KeysOf(c)
  BY DEF KeysOf
<1>8. Before(e.request, ByKey(KeysOf(c)), KeysOf(c)) = T
  BY <1>1, <1>7, KeysOrdered
<1> QED BY <1>6, <1>8 DEF PlaceAmong, Place, S

\* The members of a unit stand in the order of their keys.
LEMMA MembersPlaced ==
  ASSUME Grouped, NEW u \in UnitsUsed
  PROVE  /\ IsFiniteSet(MembersOf(u)) /\ Cardinality(MembersOf(u)) \in Nat
         /\ Cardinality(MembersOf(u)) >= 1
         /\ IsFiniteSet({requests[i].key : i \in MembersOf(u)})
         /\ \A i \in MembersOf(u) :
              /\ PlaceOf(i, u) \in 1 .. Cardinality(MembersOf(u))
              /\ PlaceOf(i, u) - 1
                   = PlaceAmong(requests[i].key, {requests[j].key : j \in MembersOf(u)})
         /\ \A k \in 1 .. Cardinality(MembersOf(u)) :
              \E i \in MembersOf(u) : PlaceOf(i, u) = k
         /\ Cardinality(RequestsOf(NameOf(u))) = Cardinality(MembersOf(u))
         /\ \A i, j \in MembersOf(u) : requests[i].key = requests[j].key => i = j
<1> DEFINE M == MembersOf(u)
           n == Cardinality(M)
           P(i) == Place(i, Lesser(M), M)
           f == [i \in M |-> requests[i]]
           K == {requests[j].key : j \in M}
           g == [i \in M |-> requests[i].key]
<1>1. /\ IsFiniteSet(Rows) /\ Rows \subseteq Nat
      /\ \A i \in Rows : requests[i].key \in Nat \X Nat
  BY RowsAre DEF Grouped, Keyed
<1>2. M \subseteq Rows /\ M # {}
  BY MembersAre
<1>3. \A i, j \in Rows : requests[i].key = requests[j].key => i = j
  BY NamesGrow DEF Grouped
<1>4. \A i, j \in Rows : i < j => Precedes(requests[i].key, requests[j].key)
  BY DEF Grouped, Keyed
<1>5. RequestsOf(NameOf(u)) = {requests[i] : i \in M}
  BY MembersAre
<1>6. \A i : PlaceOf(i, u) = Cardinality({j \in M : j <= i})
  BY DEF PlaceOf
<1> HIDE DEF M
<1>7. IsFiniteSet(M) /\ M \subseteq Nat /\ n \in Nat
  BY <1>1, <1>2, FS_Subset, FS_CardinalityType
<1>8. n # 0
  BY <1>2, <1>7, FS_EmptySet
<1>9. /\ StrictlyOrders(Lesser(M), M)
      /\ \A x \in M : Before(x, Lesser(M), M) = {y \in M : y < x}
  BY <1>7, NumbersOrdered
<1>10. /\ \A i \in M : P(i) \in 0 .. (n - 1)
       /\ \A k \in 0 .. (n - 1) : \E i \in M : P(i) = k
  BY <1>7, <1>9, PlacesGrow, PlacesFill
<1>11. ASSUME NEW i \in M PROVE PlaceOf(i, u) = P(i) + 1
  <2> DEFINE B == {j \in M : j < i}
  <2>1. P(i) = Cardinality(B)
    BY <1>9 DEF Place
  <2>2. {j \in M : j <= i} = B \cup {i}
    <3>1. \A j \in M : j <= i <=> j < i \/ j = i
      BY <1>7
    <3> QED BY <3>1
  <2>3. IsFiniteSet(B) /\ i \notin B
    <3>1. B \in SUBSET M /\ i \in Nat
      BY <1>7
    <3> QED BY <1>7, <3>1, FS_Subset
  <2>4. Cardinality(B \cup {i}) = Cardinality(B) + 1
    BY <2>3, FS_AddElement
  <2> QED BY <1>6, <2>1, <2>2, <2>4
<1>12. ASSUME NEW i \in M PROVE P(i) = PlaceAmong(requests[i].key, K)
  <2> DEFINE S == {j \in M : j < i}
             T == {k \in K : Precedes(k, requests[i].key)}
             h == [j \in S |-> requests[j].key]
  <2>1. S \in SUBSET M
    OBVIOUS
  <2>2. IsFiniteSet(S)
    BY <1>7, <2>1, FS_Subset
  <2>3. ASSUME NEW j \in M PROVE j < i <=> Precedes(requests[j].key, requests[i].key)
    <3>1. i \in Rows /\ j \in Rows /\ i \in Nat /\ j \in Nat
      BY <1>2, <1>7
    <3>2. /\ requests[i].key[1] \in Nat /\ requests[i].key[2] \in Nat
          /\ requests[j].key[1] \in Nat /\ requests[j].key[2] \in Nat
          /\ requests[i].key \in Nat \X Nat /\ requests[j].key \in Nat \X Nat
      BY <1>1, <3>1
    <3>3. CASE j < i
      BY <1>4, <3>1, <3>3
    <3>4. CASE j = i
      BY <3>1, <3>2, <3>4, KeysDiffer
    <3>5. CASE i < j
      <4>1. Precedes(requests[i].key, requests[j].key)
        BY <1>4, <3>1, <3>5
      <4> QED BY <3>1, <3>2, <3>5, <4>1, KeysDiffer
    <3> QED BY <3>1, <3>3, <3>4, <3>5
  <2>4. /\ h \in [S -> T] /\ \A x, y \in S : h[x] = h[y] => x = y
        /\ \A k \in T : \E j \in S : h[j] = k
    BY <1>2, <1>3, <2>3
  <2> HIDE DEF S, h
  <2>5. Cardinality(T) = Cardinality(S)
    <3> HIDE DEF T
    <3> QED BY <2>2, <2>4, Paired
  <2>6. K \subseteq Nat \X Nat /\ requests[i].key \in K
    BY <1>1, <1>2
  <2>7. Before(requests[i].key, ByKey(K), K) = T
    <3> HIDE DEF K
    <3> QED BY <2>6, KeysOrdered
  <2> QED BY <1>9, <2>5, <2>7 DEF PlaceAmong, Place, S
<1>13. Cardinality(RequestsOf(NameOf(u))) = n
  <2>1. /\ f \in [M -> RequestsOf(NameOf(u))]
        /\ \A x, y \in M : f[x] = f[y] => x = y
        /\ \A r \in RequestsOf(NameOf(u)) : \E i \in M : f[i] = r
    BY <1>2, <1>3, <1>5
  <2> HIDE DEF f
  <2> QED BY <1>7, <2>1, Paired
<1>14. IsFiniteSet(K)
  <2>1. /\ g \in [M -> K]
        /\ \A x, y \in M : g[x] = g[y] => x = y
        /\ \A r \in K : \E i \in M : g[i] = r
    BY <1>2, <1>3
  <2> HIDE DEF g, K
  <2> QED BY <1>7, <2>1, Paired
<1>15. \A i \in M : /\ PlaceOf(i, u) \in 1 .. n
                    /\ PlaceOf(i, u) - 1 = PlaceAmong(requests[i].key, K)
  <2> HIDE DEF P, K
  <2> QED BY <1>7, <1>10, <1>11, <1>12
<1>16. ASSUME NEW k \in 1 .. n PROVE \E i \in M : PlaceOf(i, u) = k
  <2>1. k - 1 \in 0 .. (n - 1)
    BY <1>7
  <2>2. PICK i \in M : P(i) = k - 1
    BY <1>10, <2>1
  <2>3. PlaceOf(i, u) = (k - 1) + 1
    BY <1>11, <2>2
  <2> QED BY <1>7, <2>3
<1>17. \A i, j \in M : requests[i].key = requests[j].key => i = j
  BY <1>2, <1>3
<1>18. n >= 1
  BY <1>7, <1>8
<1> QED BY <1>7, <1>13, <1>14, <1>15, <1>16, <1>17, <1>18, Zenon DEF M

\* What a member of a unit asks of an endpoint with its key.
Asks(c, e, r) ==
  LET rate == [n |-> c.frequency.n * Million, d |-> c.frequency.d]
  IN  /\ e.pin = r.config.pin
      /\ AtMost(r.config.frequency.lower, rate)
      /\ AtMost(rate, r.config.frequency.upper)
      /\ AtMost(e.step, r.config.step)
      /\ c.counter_bits >= r.config.counter_bits_at_least
      /\ r.config.required_timer # 0 => c.timer = r.config.required_timer
      /\ r.config.waveform # "any" => c.waveform = r.config.waveform
      /\ r.config.source # "any" => c.source = r.config.source

\* A checked request is met if the endpoint has its key and what it asks.
LEMMA MeetsIsAsks ==
  ASSUME requests \in Seq(Request), NEW i \in Rows, ~BadRequest(i),
         NEW c \in Candidate, CandidateValid(c), NEW e
  PROVE  Meets(c, e, requests[i]) <=> e.request = requests[i].key /\ Asks(c, e, requests[i])
<1> DEFINE w == requests[i].config.frequency
<1>1. WindowValid(w) /\ ~Empty(w)
  BY DEF BadRequest, Unfinished
<1>2. c.frequency.n > 0 /\ c.frequency.d > 0
  BY DEF CandidateValid
<1>3. InWindow(w, c.frequency) <=>
        LET rate == [n |-> c.frequency.n * Million, d |-> c.frequency.d]
        IN  AtMost(w.lower, rate) /\ AtMost(rate, w.upper)
  BY <1>1, <1>2 DEF InWindow
<1>4. requests[i].config \in Config
  BY RowsAre
<1>5. requests[i].config.counter_bits_at_least \in Nat /\ c.counter_bits \in Nat
  BY <1>4 DEF Config, Candidate
<1>6. requests[i].config.counter_bits_at_least <= c.counter_bits
        <=> c.counter_bits >= requests[i].config.counter_bits_at_least
  BY <1>5
<1> QED BY <1>3, <1>6 DEF Meets, Asks

\* A candidate serves an instance if it has just the keys of its requests and
\* meets what they ask.
LEMMA ServesIsAsks ==
  ASSUME NEW c, NEW o
  PROVE  Serves(c, o) <=>
           /\ KeysOf(candidates[c]) = {r.key : r \in RequestsOf(o)}
           /\ Len(candidates[c].endpoints) = Cardinality(RequestsOf(o))
           /\ Cardinality(RequestsOf(o)) > 1 => candidates[c].independent_duties
           /\ \A r \in RequestsOf(o), e \in ToSet(candidates[c].endpoints) :
                e.request = r.key => Asks(candidates[c], e, r)
BY DEF Serves, KeysOf, Asks

\* fits compares each member with one endpoint only, which is enough.
LEMMA FitsIsServes ==
  ASSUME Grouped, \A i \in Rows : ~BadRequest(i), NEW u \in UnitsUsed,
         candidates \in Seq(Candidate), NEW c \in Columns,
         CandidateValid(candidates[c]), Arranged(candidates[c])
  PROVE  Fits(candidates[c], u) <=> Serves(c, NameOf(u))
<1> DEFINE it == candidates[c]
           M == MembersOf(u)
           E == ToSet(it.endpoints)
           K == {requests[j].key : j \in M}
           Apiece == \A i \in M : /\ it.endpoints[PlaceOf(i, u)].request = requests[i].key
                                  /\ Asks(it, it.endpoints[PlaceOf(i, u)], requests[i])
           Everywhere == \A i \in M, e \in E : e.request = requests[i].key => Asks(it, e, requests[i])
<1>1. it \in Candidate
  BY DEF Columns
<1>2. PartsDiffer(it)
  BY <1>1, ValidDiffer
<1>3. /\ Len(it.endpoints) \in Nat /\ DOMAIN it.endpoints = 1 .. Len(it.endpoints)
      /\ \A e \in E : \E k \in DOMAIN it.endpoints : e = it.endpoints[k]
  BY <1>1, CandidateFields
<1>4. /\ IsFiniteSet(KeysOf(it)) /\ KeysOf(it) \subseteq Nat \X Nat
      /\ Cardinality(KeysOf(it)) = Len(it.endpoints)
      /\ \A d, e \in E : d.request = e.request => d = e
  BY <1>1, <1>2, EndpointsAre
<1>5. /\ M \subseteq Rows /\ RequestsOf(NameOf(u)) = {requests[i] : i \in M}
  BY MembersAre
<1>6. /\ Cardinality(M) \in Nat /\ Cardinality(M) >= 1
      /\ \A i \in M : /\ PlaceOf(i, u) \in 1 .. Cardinality(M)
                      /\ PlaceOf(i, u) - 1 = PlaceAmong(requests[i].key, K)
      /\ \A k \in 1 .. Cardinality(M) : \E i \in M : PlaceOf(i, u) = k
      /\ Cardinality(RequestsOf(NameOf(u))) = Cardinality(M)
  BY MembersPlaced
<1>7. \A i \in M : \A e : Meets(it, e, requests[i])
                        <=> e.request = requests[i].key /\ Asks(it, e, requests[i])
  BY <1>1, <1>5, MeetsIsAsks DEF Grouped, Keyed
<1>8. {r.key : r \in RequestsOf(NameOf(u))} = K
  BY <1>5
<1>9. \A k \in DOMAIN it.endpoints : it.endpoints[k] \in E
  BY DEF ToSet
<1>10. \A e : e \in E => e.request \in KeysOf(it)
  BY DEF KeysOf
<1>11. \A k \in KeysOf(it) : \E e \in E : e.request = k
  BY DEF KeysOf
<1>12. \A k \in DOMAIN it.endpoints :
         PlaceAmong(it.endpoints[k].request, KeysOf(it)) = k - 1
  BY <1>1, <1>2, <1>9, EarlierIsPlace DEF Arranged
<1>13. Fits(it, u) <=> /\ Cardinality(M) = Len(it.endpoints)
                       /\ Apiece
                       /\ Cardinality(M) = 1 \/ it.independent_duties
  BY <1>7 DEF Fits
<1>14. Serves(c, NameOf(u)) <=> /\ KeysOf(it) = K
                                /\ Len(it.endpoints) = Cardinality(M)
                                /\ Cardinality(M) > 1 => it.independent_duties
                                /\ Everywhere
  <2>1. Everywhere <=> \A r \in RequestsOf(NameOf(u)), e \in E :
                  e.request = r.key => Asks(it, e, r)
    BY <1>5
  <2> HIDE DEF Everywhere, K
  <2> QED BY <1>6, <1>8, <2>1, ServesIsAsks
<1> HIDE DEF it, M, E
<1>15. ASSUME Cardinality(M) = Len(it.endpoints), Apiece
       PROVE  KeysOf(it) = K /\ Everywhere
  <2>1. \A i \in M : PlaceOf(i, u) \in DOMAIN it.endpoints
    BY <1>3, <1>6, <1>15
  <2>2. \A k \in DOMAIN it.endpoints : \E i \in M : PlaceOf(i, u) = k
    BY <1>3, <1>6, <1>15
  <2>3. \A i \in M : requests[i].key \in KeysOf(it)
    BY <1>9, <1>10, <1>15, <2>1
  <2>4. ASSUME NEW e \in E, NEW i \in M, e.request = requests[i].key
        PROVE  Asks(it, e, requests[i])
    <3>1. it.endpoints[PlaceOf(i, u)] \in E
      BY <1>9, <2>1
    <3>2. e = it.endpoints[PlaceOf(i, u)]
      BY <1>4, <1>15, <2>4, <3>1
    <3> QED BY <1>15, <3>2
  <2>5. \A e \in E : \E i \in M : requests[i].key = e.request
    BY <1>3, <1>15, <2>2
  <2>6. \A k \in KeysOf(it) : k \in K
    BY <1>11, <2>5
  <2> QED BY <2>3, <2>4, <2>6
<1>16. ASSUME Cardinality(M) = Len(it.endpoints), KeysOf(it) = K, Everywhere
       PROVE  Apiece
  <2> SUFFICES ASSUME NEW i \in M
               PROVE  /\ it.endpoints[PlaceOf(i, u)].request = requests[i].key
                      /\ Asks(it, it.endpoints[PlaceOf(i, u)], requests[i])
    OBVIOUS
  <2> DEFINE k == PlaceOf(i, u)
             e == it.endpoints[k]
  <2>1. k \in DOMAIN it.endpoints
    BY <1>3, <1>6, <1>16
  <2>2. e \in E /\ e.request \in KeysOf(it) /\ requests[i].key \in KeysOf(it)
    BY <1>9, <1>10, <1>16, <2>1
  <2>3. PlaceAmong(e.request, KeysOf(it)) = PlaceAmong(requests[i].key, KeysOf(it))
    BY <1>6, <1>12, <1>16, <2>1
  <2>4. StrictlyOrders(ByKey(KeysOf(it)), KeysOf(it))
    BY <1>4, KeysOrdered
  <2>5. e.request = requests[i].key
    BY <1>4, <2>2, <2>3, <2>4, PlacesFill DEF PlaceAmong
  <2> QED BY <1>16, <2>2, <2>5
<1>17. (Cardinality(M) = 1 \/ it.independent_duties)
         <=> (Cardinality(M) > 1 => it.independent_duties)
  BY <1>6
<1> HIDE DEF Apiece, Everywhere, K
<1>18. Fits(it, u) <=> Serves(c, NameOf(u))
  BY <1>13, <1>14, <1>15, <1>16, <1>17
<1> QED BY <1>18 DEF it

-----------------------------------------------------------------------------
(* What normalize_model makes of a candidate. *)

\* Keys and their places.
LEMMA KeysPlaced ==
  ASSUME NEW K, K \subseteq Nat \X Nat, IsFiniteSet(K)
  PROVE  /\ \A k, l \in K : PlaceAmong(k, K) = PlaceAmong(l, K) => k = l
         /\ \A p \in 0 .. (Cardinality(K) - 1) : \E k \in K : PlaceAmong(k, K) = p
         /\ \A k \in K : PlaceAmong(k, K) \in 0 .. (Cardinality(K) - 1)
<1>1. StrictlyOrders(ByKey(K), K)
  BY KeysOrdered
<1>2. /\ \A k, l \in K : Place(k, ByKey(K), K) = Place(l, ByKey(K), K) => k = l
      /\ \A p \in 0 .. (Cardinality(K) - 1) : \E k \in K : Place(k, ByKey(K), K) = p
  BY <1>1, PlacesFill
<1>3. \A k \in K : Place(k, ByKey(K), K) \in 0 .. (Cardinality(K) - 1)
  BY <1>1, PlacesGrow
<1> QED BY <1>2, <1>3 DEF PlaceAmong

Lowest(e) == [e EXCEPT !.step = Normalized(e.step)]

\* ByRequest puts the endpoints in the order of their keys.
LEMMA ByRequestIs ==
  ASSUME NEW c \in Candidate, PartsDiffer(c)
  PROVE  /\ DOMAIN ByRequest(c) = DOMAIN c.endpoints
         /\ \A i \in DOMAIN c.endpoints :
              /\ ByRequest(c)[i] \in ToSet(c.endpoints)
              /\ PlaceAmong(ByRequest(c)[i].request, KeysOf(c)) = i - 1
         /\ \A e \in ToSet(c.endpoints) : \E i \in DOMAIN c.endpoints : ByRequest(c)[i] = e
         /\ \A i, j \in DOMAIN c.endpoints : ByRequest(c)[i] = ByRequest(c)[j] => i = j
<1> DEFINE E == ToSet(c.endpoints)
           D == DOMAIN c.endpoints
           K == KeysOf(c)
           Ranked(e, i) == Cardinality(Earlier(e, c)) = i - 1
<1>1. Len(c.endpoints) \in Nat /\ D = 1 .. Len(c.endpoints)
  BY CandidateFields
<1>2. /\ IsFiniteSet(K) /\ Cardinality(K) = Len(c.endpoints) /\ K \subseteq Nat \X Nat
      /\ \A d, e \in E : d.request = e.request => d = e
  BY EndpointsAre
<1>4. /\ \A k, l \in K : PlaceAmong(k, K) = PlaceAmong(l, K) => k = l
      /\ \A p \in 0 .. (Len(c.endpoints) - 1) : \E k \in K : PlaceAmong(k, K) = p
      /\ \A k \in K : PlaceAmong(k, K) \in 0 .. (Len(c.endpoints) - 1)
  <2> HIDE DEF K
  <2> QED BY <1>2, KeysPlaced
<1>5. /\ \A e \in E : e.request \in K
      /\ \A k \in K : \E e \in E : e.request = k
  BY DEF KeysOf
<1>6. \A e \in E : Cardinality(Earlier(e, c)) = PlaceAmong(e.request, K)
  BY EarlierIsPlace
<1> HIDE DEF E, D, K
<1>7. ASSUME NEW i \in D
      PROVE  ByRequest(c)[i] \in E /\ Ranked(ByRequest(c)[i], i)
  <2>1. i - 1 \in 0 .. (Len(c.endpoints) - 1)
    BY <1>1
  <2>2. PICK e \in E : PlaceAmong(e.request, K) = i - 1
    BY <1>4, <1>5, <2>1
  <2>3. Ranked(e, i)
    BY <1>6, <2>2
  <2>4. ByRequest(c)[i] = CHOOSE d \in E : Ranked(d, i)
    BY DEF ByRequest, D, E
  <2> HIDE DEF Ranked
  <2> QED BY <2>3, <2>4
<1>8. \A i \in D : PlaceAmong(ByRequest(c)[i].request, K) = i - 1
  BY <1>6, <1>7
<1>9. ASSUME NEW e \in E PROVE \E i \in D : ByRequest(c)[i] = e
  <2> DEFINE i == PlaceAmong(e.request, K) + 1
  <2>1. i \in D /\ i - 1 = PlaceAmong(e.request, K)
    BY <1>1, <1>4, <1>5
  <2> HIDE DEF i
  <2>2. /\ ByRequest(c)[i] \in E
        /\ PlaceAmong(ByRequest(c)[i].request, K) = PlaceAmong(e.request, K)
    BY <1>7, <1>8, <2>1
  <2>3. ByRequest(c)[i].request = e.request
    BY <1>4, <1>5, <2>2
  <2> QED BY <1>2, <2>1, <2>2, <2>3
<1>10. \A i, j \in D : ByRequest(c)[i] = ByRequest(c)[j] => i = j
  BY <1>1, <1>8
<1>11. DOMAIN ByRequest(c) = D
  BY DEF ByRequest, D
<1> QED BY <1>7, <1>8, <1>9, <1>10, <1>11 DEF E, D, K

\* The canonical form, part by part.
LEMMA CanonicalFields ==
  ASSUME NEW c \in Candidate
  PROVE  /\ Canonical(c).frequency = Normalized(c.frequency)
         /\ Canonical(c).endpoints
              = [i \in DOMAIN c.endpoints |-> Lowest(ByRequest(c)[i])]
         /\ Canonical(c).key = c.key /\ Canonical(c).preference = c.preference
         /\ Canonical(c).timer = c.timer /\ Canonical(c).counter_bits = c.counter_bits
         /\ Canonical(c).configuration = c.configuration
         /\ Canonical(c).waveform = c.waveform /\ Canonical(c).source = c.source
         /\ Canonical(c).domain = c.domain /\ Canonical(c).setting = c.setting
         /\ Canonical(c).independent_duties = c.independent_duties
         /\ (Normalized(c.frequency) \in Ratio
             /\ [i \in DOMAIN c.endpoints |-> Lowest(ByRequest(c)[i])] \in Seq(Endpoint)
             => Canonical(c) \in Candidate)
<1> DEFINE L == [i \in DOMAIN c.endpoints |-> Lowest(ByRequest(c)[i])]
           q == Normalized(c.frequency)
<1>1. Canonical(c) = [c EXCEPT !.frequency = q, !.endpoints = L]
  BY DEF Canonical, Lowest
<1> HIDE DEF L, q
<1> QED BY <1>1 DEF Candidate, L, q

\* An endpoint in lowest terms differs in the step only.
LEMMA LowestFields ==
  ASSUME NEW e \in Endpoint, Normalized(e.step) \in Ratio
  PROVE  /\ Lowest(e) \in Endpoint /\ Lowest(e).request = e.request
         /\ Lowest(e).channel = e.channel /\ Lowest(e).pin = e.pin
         /\ Lowest(e).step = Normalized(e.step)
<1> DEFINE q == Normalized(e.step)
<1>1. Lowest(e) = [e EXCEPT !.step = q]
  BY DEF Lowest
<1> HIDE DEF q
<1> QED BY <1>1 DEF Endpoint, q

\* A valid ratio, and a rate, can be brought into lowest terms.
LEMMA StepsReduce ==
  ASSUME NEW q, FineStep(q), q \in Ratio
  PROVE  Positive(q) /\ FineStep(Normalized(q)) /\ Normalized(q) \in Ratio
<1>1. q.n \in Nat /\ q.d \in Nat /\ q.n >= 1 /\ q.d >= 1 /\ q.n <= Million /\ q.d <= Million
      /\ Million \in Nat /\ q.n <= q.d
  BY MillionAssumption DEF FineStep, Valid, Ratio
<1>2. Positive(q)
  BY <1>1 DEF Positive
<1> DEFINE p == Normalized(q)
<1>3. /\ Positive(p) /\ p.n <= q.n /\ p.d <= q.d
      /\ q.n > 0 => p.n > 0
      /\ q.n <= q.d => p.n <= p.d
      /\ p \in Ratio
  BY <1>2, NormalizedKeeps
<1> HIDE DEF p
<1>4. p.n \in Nat /\ p.d \in Nat
  BY <1>3 DEF Positive
<1>5. FineStep(p)
  BY <1>1, <1>3, <1>4 DEF Positive, FineStep, Valid
<1> QED BY <1>2, <1>3, <1>5 DEF p

\* The canonical form of a valid candidate is valid and in order.
LEMMA CanonicalIs ==
  ASSUME NEW c \in Candidate, CandidateValid(c)
  PROVE  /\ Canonical(c) \in Candidate
         /\ CandidateValid(Canonical(c))
         /\ Arranged(Canonical(c))
<1> DEFINE E == ToSet(c.endpoints)
           D == DOMAIN c.endpoints
           can == Canonical(c)
           B == ByRequest(c)
<1>1. PartsDiffer(c)
  BY ValidDiffer
<1>2. /\ c.endpoints \in Seq(Endpoint) /\ Len(c.endpoints) \in Nat
      /\ D = 1 .. Len(c.endpoints)
      /\ \A e \in E : /\ e \in Endpoint /\ e.step \in Ratio
                      /\ \E i \in D : e = c.endpoints[i]
      /\ c.frequency \in Ratio
  BY CandidateFields
<1>3. \A e \in E : EndpointValid(c, e)
  BY <1>2 DEF CandidateValid
<1>4. /\ DOMAIN B = D
      /\ \A i \in D : B[i] \in E /\ PlaceAmong(B[i].request, KeysOf(c)) = i - 1
      /\ \A e \in E : \E i \in D : B[i] = e
      /\ \A i, j \in D : B[i] = B[j] => i = j
  BY <1>1, ByRequestIs
<1>5. \A e \in E : FineStep(Normalized(e.step)) /\ Normalized(e.step) \in Ratio
  BY <1>2, <1>3, StepsReduce DEF EndpointValid
<1>6. \A i \in D : /\ Lowest(B[i]) \in Endpoint /\ Lowest(B[i]).request = B[i].request
                   /\ Lowest(B[i]).channel = B[i].channel /\ Lowest(B[i]).pin = B[i].pin
                   /\ Lowest(B[i]).step = Normalized(B[i].step)
  BY <1>2, <1>4, <1>5, LowestFields
<1>7. /\ Positive(c.frequency) /\ Normalized(c.frequency) \in Ratio
      /\ Normalized(c.frequency).n > 0 /\ Normalized(c.frequency).d > 0
  <2>1. c.frequency.n > 0 /\ c.frequency.d > 0
    BY DEF CandidateValid
  <2>2. Positive(c.frequency)
    BY <1>2, <2>1 DEF Ratio, Positive
  <2>3. Positive(Normalized(c.frequency)) /\ Normalized(c.frequency).n > 0
        /\ Normalized(c.frequency) \in Ratio
    BY <2>1, <2>2, NormalizedKeeps
  <2>4. \A p : Positive(p) => p.d > 0
    BY DEF Positive
  <2> QED BY <2>2, <2>3, <2>4
<1>8. [i \in D |-> Lowest(B[i])] \in Seq(Endpoint)
  BY <1>2, <1>6
<1>9. /\ can \in Candidate
      /\ can.frequency = Normalized(c.frequency)
      /\ can.endpoints = [i \in D |-> Lowest(B[i])]
      /\ can.key = c.key /\ can.timer = c.timer /\ can.counter_bits = c.counter_bits
      /\ can.configuration = c.configuration
      /\ can.domain = c.domain /\ can.setting = c.setting
  BY <1>7, <1>8, CanonicalFields
<1> HIDE DEF can, B, E, D
<1>10. DOMAIN can.endpoints = D /\ \A i \in D : can.endpoints[i] = Lowest(B[i])
  BY <1>9
<1>11. Len(can.endpoints) = Len(c.endpoints)
  <2>1. can.endpoints \in Seq(Endpoint)
    BY <1>9 DEF Candidate
  <2>2. DOMAIN can.endpoints = 1 .. Len(can.endpoints) /\ Len(can.endpoints) \in Nat
    BY <2>1
  <2> QED BY <1>2, <1>10, <2>2
<1>12. ASSUME NEW i \in D PROVE EndpointValid(can, can.endpoints[i])
  <2>1. EndpointValid(c, B[i]) /\ FineStep(Normalized(B[i].step))
    BY <1>3, <1>4, <1>5
  <2>2. /\ can.endpoints[i].request = B[i].request /\ can.endpoints[i].channel = B[i].channel
        /\ can.endpoints[i].pin = B[i].pin /\ can.endpoints[i].step = Normalized(B[i].step)
    BY <1>6, <1>10
  <2> QED BY <1>9, <2>1, <2>2 DEF EndpointValid
<1>13. ASSUME NEW i \in D, NEW j \in D, i # j
       PROVE  /\ can.endpoints[i].request # can.endpoints[j].request
              /\ can.endpoints[i].channel # can.endpoints[j].channel
              /\ can.endpoints[i].pin # can.endpoints[j].pin
  <2>1. B[i] # B[j] /\ B[i] \in E /\ B[j] \in E
    BY <1>4, <1>13
  <2>2. PICK k \in D, l \in D : B[i] = c.endpoints[k] /\ B[j] = c.endpoints[l]
    BY <1>2, <2>1
  <2>3. k # l
    BY <2>1, <2>2
  <2>4. /\ B[i].request # B[j].request /\ B[i].channel # B[j].channel
        /\ B[i].pin # B[j].pin
    BY <1>1, <2>2, <2>3 DEF PartsDiffer, D
  <2> QED BY <1>6, <1>10, <2>4
<1>14. CandidateValid(can)
  <2>1. \A i \in D : \A j \in 1 .. (i - 1) : j \in D /\ i # j
    BY <1>2
  <2>2. \A i \in DOMAIN can.endpoints :
          /\ EndpointValid(can, can.endpoints[i])
          /\ \A j \in 1 .. (i - 1) :
               /\ can.endpoints[i].request # can.endpoints[j].request
               /\ can.endpoints[i].channel # can.endpoints[j].channel
               /\ can.endpoints[i].pin # can.endpoints[j].pin
    BY <1>10, <1>12, <1>13, <2>1
  <2>3. /\ can.key # 0 /\ can.configuration # 0 /\ can.counter_bits # 0
        /\ IsKind(can.timer, "timer")
        /\ can.frequency.n > 0 /\ can.frequency.d > 0
        /\ Len(can.endpoints) \in 1 .. 4
        /\ IF can.domain = 0
           THEN can.setting = 0
           ELSE IsKind(can.domain, "domain") /\ can.setting # 0
    BY <1>7, <1>9, <1>11 DEF CandidateValid
  <2> QED BY <2>2, <2>3 DEF CandidateValid
<1>15. PartsDiffer(can)
  BY <1>9, <1>14, ValidDiffer
<1>16. KeysOf(can) = KeysOf(c)
  <2>1. \A k : k \in KeysOf(can) <=> \E i \in D : can.endpoints[i].request = k
    BY <1>10 DEF KeysOf, ToSet
  <2>2. \A k : k \in KeysOf(c) <=> \E e \in E : e.request = k
    BY DEF KeysOf, E
  <2>3. \A i \in D : can.endpoints[i].request = B[i].request
    BY <1>6, <1>10
  <2>4. \A k : k \in KeysOf(can) <=> k \in KeysOf(c)
    BY <1>4, <2>1, <2>2, <2>3
  <2> QED BY <2>4
<1>17. Arranged(can)
  <2>1. ASSUME NEW i \in D PROVE Cardinality(Earlier(can.endpoints[i], can)) = i - 1
    <3>1. can.endpoints[i] \in ToSet(can.endpoints)
      BY <1>10 DEF ToSet
    <3>2. Cardinality(Earlier(can.endpoints[i], can))
            = PlaceAmong(can.endpoints[i].request, KeysOf(can))
      BY <1>9, <1>15, <3>1, EarlierIsPlace
    <3>3. can.endpoints[i].request = B[i].request
      BY <1>6, <1>10
    <3> QED BY <1>4, <1>16, <3>2, <3>3
  <2> QED BY <1>10, <2>1 DEF Arranged
<1> QED BY <1>9, <1>14, <1>17 DEF can

\* A candidate is the record of its fields.
LEMMA CandidateRecord ==
  ASSUME NEW c \in Candidate
  PROVE  c = [key |-> c.key, preference |-> c.preference, timer |-> c.timer,
              counter_bits |-> c.counter_bits, configuration |-> c.configuration,
              frequency |-> c.frequency, waveform |-> c.waveform, source |-> c.source,
              endpoints |-> c.endpoints, domain |-> c.domain, setting |-> c.setting,
              independent_duties |-> c.independent_duties]
BY DEF Candidate

\* However a candidate is written, its canonical form is one.
LEMMA SameAreEqual ==
  ASSUME NEW a \in Candidate, CandidateValid(a), NEW b \in Candidate, CandidateValid(b),
         SameCandidate(a, b)
  PROVE  Canonical(a) = Canonical(b)
<1> DEFINE D == DOMAIN a.endpoints
           A == ByRequest(a)
           B == ByRequest(b)
<1>1. PartsDiffer(a) /\ PartsDiffer(b)
  BY ValidDiffer
<1>2. /\ DOMAIN a.endpoints = 1 .. Len(a.endpoints) /\ Len(a.endpoints) \in Nat
      /\ DOMAIN b.endpoints = 1 .. Len(b.endpoints) /\ Len(b.endpoints) \in Nat
      /\ \A e \in ToSet(a.endpoints) :
           e \in Endpoint /\ e.step \in Ratio /\ \E i \in D : e = a.endpoints[i]
      /\ \A e \in ToSet(b.endpoints) :
           e \in Endpoint /\ e.step \in Ratio /\ \E i \in DOMAIN b.endpoints : e = b.endpoints[i]
      /\ a.frequency \in Ratio /\ b.frequency \in Ratio
  BY CandidateFields
<1>3. /\ SameFraction(a.frequency, b.frequency)
      /\ [a EXCEPT !.frequency = b.frequency, !.endpoints = b.endpoints] = b
      /\ Len(a.endpoints) = Len(b.endpoints)
      /\ \A d \in ToSet(a.endpoints) : \E e \in ToSet(b.endpoints) : SameEndpoint(d, e)
  BY DEF SameCandidate
<1>4. DOMAIN b.endpoints = D
  BY <1>2, <1>3
<1>5. ASSUME NEW d \in Endpoint, NEW e \in Endpoint, SameEndpoint(d, e)
      PROVE  /\ d.request = e.request /\ d.channel = e.channel /\ d.pin = e.pin
             /\ SameFraction(d.step, e.step)
  BY <1>5 DEF SameEndpoint, Endpoint
<1>6. ASSUME NEW c \in {a, b}, NEW e \in ToSet(c.endpoints)
      PROVE  Positive(e.step) /\ Normalized(e.step) \in Ratio
  <2>1. FineStep(e.step) /\ e.step \in Ratio
    BY <1>2, <1>6 DEF CandidateValid, EndpointValid
  <2> QED BY <2>1, StepsReduce
<1>7. KeysOf(a) = KeysOf(b)
  <2>1. /\ IsFiniteSet(KeysOf(b)) /\ Cardinality(KeysOf(b)) = Len(b.endpoints)
        /\ Cardinality(KeysOf(a)) = Len(a.endpoints)
    BY <1>1, EndpointsAre
  <2>2. KeysOf(a) \subseteq KeysOf(b)
    BY <1>2, <1>3, <1>5 DEF KeysOf
  <2> QED BY <1>3, <2>1, <2>2, FS_Subset
<1>8. /\ \A i \in D : A[i] \in ToSet(a.endpoints) /\ PlaceAmong(A[i].request, KeysOf(a)) = i - 1
      /\ \A i \in D : B[i] \in ToSet(b.endpoints) /\ PlaceAmong(B[i].request, KeysOf(b)) = i - 1
  BY <1>1, <1>4, ByRequestIs
<1>9. ASSUME NEW i \in D PROVE Lowest(A[i]) = Lowest(B[i])
  <2>1. A[i] \in ToSet(a.endpoints) /\ B[i] \in ToSet(b.endpoints)
    BY <1>8
  <2>2. PICK e \in ToSet(b.endpoints) : SameEndpoint(A[i], e)
    BY <1>3, <2>1
  <2>3. A[i] \in Endpoint /\ B[i] \in Endpoint /\ e \in Endpoint
    BY <1>2, <2>1
  <2>4. /\ A[i].request = e.request /\ A[i].channel = e.channel /\ A[i].pin = e.pin
        /\ SameFraction(A[i].step, e.step)
    BY <1>5, <2>2, <2>3
  <2>5. PlaceAmong(e.request, KeysOf(b)) = PlaceAmong(B[i].request, KeysOf(b))
    BY <1>7, <1>8, <2>4
  <2>6. e.request \in KeysOf(b) /\ B[i].request \in KeysOf(b)
    BY <2>1 DEF KeysOf
  <2>7. /\ IsFiniteSet(KeysOf(b)) /\ KeysOf(b) \subseteq Nat \X Nat
        /\ \A d, f \in ToSet(b.endpoints) : d.request = f.request => d = f
    BY <1>1, EndpointsAre
  <2>8. e = B[i]
    BY <2>1, <2>5, <2>6, <2>7, KeysPlaced
  <2>9. /\ Positive(A[i].step) /\ Positive(B[i].step)
        /\ Normalized(A[i].step) \in Ratio /\ Normalized(B[i].step) \in Ratio
    BY <1>6, <2>1
  <2>10. Normalized(A[i].step) = Normalized(B[i].step)
    BY <2>4, <2>8, <2>9, NormalizedAgree
  <2>11. /\ Lowest(A[i]) \in Endpoint /\ Lowest(A[i]).request = A[i].request
         /\ Lowest(A[i]).channel = A[i].channel /\ Lowest(A[i]).pin = A[i].pin
         /\ Lowest(A[i]).step = Normalized(A[i].step)
    BY <2>3, <2>9, LowestFields
  <2>12. /\ Lowest(B[i]) \in Endpoint /\ Lowest(B[i]).request = B[i].request
         /\ Lowest(B[i]).channel = B[i].channel /\ Lowest(B[i]).pin = B[i].pin
         /\ Lowest(B[i]).step = Normalized(B[i].step)
    BY <2>3, <2>9, LowestFields
  <2> DEFINE x == Lowest(A[i])
             y == Lowest(B[i])
  <2>13. /\ x \in Endpoint /\ y \in Endpoint /\ x.request = y.request
         /\ x.channel = y.channel /\ x.pin = y.pin /\ x.step = y.step
    BY <2>4, <2>8, <2>10, <2>11, <2>12
  <2> HIDE DEF x, y
  <2>14. x = y
    BY <2>13 DEF Endpoint
  <2> QED BY <2>14 DEF x, y
<1>10. [i \in D |-> Lowest(A[i])] = [i \in DOMAIN b.endpoints |-> Lowest(B[i])]
  BY <1>4, <1>9
<1>11. Normalized(a.frequency) = Normalized(b.frequency)
  <2>1. Positive(a.frequency) /\ Positive(b.frequency)
    BY <1>2 DEF CandidateValid, Positive, Ratio
  <2> QED BY <1>3, <2>1, NormalizedAgree
<1>12. /\ a.key = b.key /\ a.preference = b.preference /\ a.timer = b.timer
       /\ a.counter_bits = b.counter_bits /\ a.configuration = b.configuration
       /\ a.waveform = b.waveform /\ a.source = b.source
       /\ a.domain = b.domain /\ a.setting = b.setting
       /\ a.independent_duties = b.independent_duties
  BY <1>3 DEF Candidate
<1> DEFINE x == Canonical(a)
           y == Canonical(b)
<1>13. x \in Candidate /\ y \in Candidate
  BY CanonicalIs
<1>14. /\ x.frequency = Normalized(a.frequency) /\ x.endpoints = [i \in D |-> Lowest(A[i])]
       /\ x.key = a.key /\ x.preference = a.preference /\ x.timer = a.timer
       /\ x.counter_bits = a.counter_bits /\ x.configuration = a.configuration
       /\ x.waveform = a.waveform /\ x.source = a.source
       /\ x.domain = a.domain /\ x.setting = a.setting
       /\ x.independent_duties = a.independent_duties
  BY CanonicalFields
<1>15. /\ y.frequency = Normalized(b.frequency)
       /\ y.endpoints = [i \in DOMAIN b.endpoints |-> Lowest(B[i])]
       /\ y.key = b.key /\ y.preference = b.preference /\ y.timer = b.timer
       /\ y.counter_bits = b.counter_bits /\ y.configuration = b.configuration
       /\ y.waveform = b.waveform /\ y.source = b.source
       /\ y.domain = b.domain /\ y.setting = b.setting
       /\ y.independent_duties = b.independent_duties
  BY CanonicalFields
<1> HIDE DEF x, y
<1>16. /\ x.frequency = y.frequency /\ x.endpoints = y.endpoints
       /\ x.key = y.key /\ x.preference = y.preference /\ x.timer = y.timer
       /\ x.counter_bits = y.counter_bits /\ x.configuration = y.configuration
       /\ x.waveform = y.waveform /\ x.source = y.source
       /\ x.domain = y.domain /\ x.setting = y.setting
       /\ x.independent_duties = y.independent_duties
  BY <1>10, <1>11, <1>12, <1>14, <1>15
<1>17. x = y
  BY <1>13, <1>16, CandidateRecord, Zenon
<1> QED BY <1>17 DEF x, y

\* Valid candidates that do not contradict each other are consistent once
\* they are canonical.
LEMMA UncontradictedIsConsistent ==
  ASSUME candidates \in Seq(Candidate), ~Contradiction,
         \A c \in Columns : CandidateValid(candidates[c]),
         NEW c \in Columns, NEW d \in Columns
  PROVE  Consistent(CanonicalModel[c], CanonicalModel[d])
<1> DEFINE a == candidates[c]
           b == candidates[d]
           x == Canonical(a)
           y == Canonical(b)
<1>1. a \in Candidate /\ b \in Candidate /\ CandidateValid(a) /\ CandidateValid(b)
  BY DEF Columns
<1>2. /\ a.key = b.key => SameCandidate(a, b)
      /\ <<a.timer, a.configuration>> = <<b.timer, b.configuration>> => SameSetting(a, b)
  BY DEF Contradiction, Columns, ToSet
<1>3. a.key = b.key => x = y
  BY <1>1, <1>2, SameAreEqual
<1>4. /\ x.frequency = Normalized(a.frequency) /\ x.key = a.key /\ x.timer = a.timer
      /\ x.counter_bits = a.counter_bits /\ x.configuration = a.configuration
      /\ x.waveform = a.waveform /\ x.source = a.source
      /\ x.domain = a.domain /\ x.setting = a.setting
  BY <1>1, CanonicalFields
<1>5. /\ y.frequency = Normalized(b.frequency) /\ y.key = b.key /\ y.timer = b.timer
      /\ y.counter_bits = b.counter_bits /\ y.configuration = b.configuration
      /\ y.waveform = b.waveform /\ y.source = b.source
      /\ y.domain = b.domain /\ y.setting = b.setting
  BY <1>1, CanonicalFields
<1>6. Positive(a.frequency) /\ Positive(b.frequency)
  <2>1. a.frequency.d > 0 /\ b.frequency.d > 0
    BY <1>1 DEF CandidateValid
  <2>2. a.frequency \in Ratio /\ b.frequency \in Ratio
    BY <1>1, CandidateFields
  <2> HIDE DEF a, b
  <2> QED BY <2>1, <2>2 DEF Positive, Ratio
<1>7. SameFraction(a.frequency, b.frequency) => Normalized(a.frequency) = Normalized(b.frequency)
  BY <1>6, NormalizedAgree
<1>8. a["waveform"] = a.waveform /\ b["waveform"] = b.waveform
  OBVIOUS
<1>9. SameSetting(a, b) => /\ SameFraction(a.frequency, b.frequency)
                           /\ a.waveform = b.waveform /\ a.source = b.source
                           /\ a.domain = b.domain /\ a.setting = b.setting
                           /\ a.counter_bits = b.counter_bits
  BY DEF SameSetting
<1>10. CanonicalModel[c] = x /\ CanonicalModel[d] = y
  BY DEF CanonicalModel
<1> HIDE DEF a, b, x, y
<1> QED BY <1>2, <1>3, <1>4, <1>5, <1>7, <1>9, <1>10 DEF Consistent

\* Consistent candidates do not contradict each other.
LEMMA ConsistentIsUncontradicted ==
  ASSUME NEW a \in Candidate, NEW b \in Candidate, Consistent(a, b)
  PROVE  /\ a.key = b.key => SameCandidate(a, b)
         /\ <<a.timer, a.configuration>> = <<b.timer, b.configuration>> => SameSetting(a, b)
<1>1. SameCandidate(a, a)
  <2>1. \A e : SameFraction(e, e)
    BY DEF SameFraction
  <2>2. [a EXCEPT !.frequency = a.frequency, !.endpoints = a.endpoints] = a
    BY DEF Candidate
  <2>3. \A e \in ToSet(a.endpoints) : e \in Endpoint
    BY CandidateFields
  <2>4. \A e \in ToSet(a.endpoints) : SameEndpoint(e, e)
    BY <2>1, <2>3 DEF SameEndpoint, Endpoint
  <2> QED BY <2>1, <2>2, <2>4 DEF SameCandidate
<1>2. a.key = b.key => SameCandidate(a, b)
  BY <1>1 DEF Consistent
<1>3. <<a.timer, a.configuration>> = <<b.timer, b.configuration>> => SameSetting(a, b)
  BY DEF Consistent, SameSetting, SameFraction
<1> QED BY <1>2, <1>3

-----------------------------------------------------------------------------
(* What the search and the marking before it find, as instances and values. *)

Settled ==
  /\ Grouped
  /\ candidates \in Seq(Candidate) /\ reservations \in Seq(Nat)
  /\ \A i \in Rows : ~BadRequest(i)
  /\ TreeSays
  /\ \A c \in Columns : CandidateValid(candidates[c]) /\ Arranged(candidates[c])
  /\ \A c, d \in Columns : Consistent(candidates[c], candidates[d])
  /\ InOrder(candidates)

\* One of the columns of each value is not skipped.
LEMMA OneIsKept ==
  ASSUME candidates \in Seq(Candidate), NEW c \in Columns
  PROVE  \E d \in Columns : ~Repeated(d) /\ candidates[d] = candidates[c]
<1> DEFINE S == {d \in Columns : candidates[d] = candidates[c]}
<1>1. Columns = 1 .. Len(candidates) /\ Len(candidates) \in Nat
  BY DEF Columns
<1>2. c \in S /\ S \subseteq Nat
  BY <1>1
<1>3. PICK d \in S : \A e \in S : d <= e
  <2> HIDE DEF S
  <2> QED BY <1>2, LeastOf
<1>4. d \in Columns /\ candidates[d] = candidates[c]
  BY <1>3
<1>5. ~Repeated(d)
  <2> SUFFICES ASSUME d # 1, candidates[d] = candidates[d - 1] PROVE FALSE
    BY DEF Repeated
  <2>1. d - 1 \in S
    <3>1. d \in Nat /\ d >= 1 /\ d <= Len(candidates)
      BY <1>1, <1>4
    <3>2. d - 1 \in 1 .. Len(candidates)
      BY <1>1, <3>1
    <3> QED BY <1>1, <1>4, <3>2
  <2>2. d <= d - 1
    BY <1>3, <2>1
  <2> QED BY <1>1, <1>4, <2>2
<1> QED BY <1>4, <1>5

\* Columns of one value serve, are free and agree alike.
LEMMA ValuesDecide ==
  ASSUME NEW c, NEW d, candidates[c] = candidates[d]
  PROVE  /\ \A o : Serves(c, o) <=> Serves(d, o)
         /\ Free(c) <=> Free(d)
         /\ \A r : Blocks(r, c) <=> Blocks(r, d)
         /\ \A e : Apart(c, e) <=> Apart(d, e)
<1>1. \A o : Serves(c, o) <=> Serves(d, o)
  BY DEF Serves
<1>2. \A r : Blocks(r, c) <=> Blocks(r, d)
  BY DEF Blocks
<1>3. Hardware(c) = Hardware(d)
  BY DEF Hardware
<1>4. \A e : Apart(c, e) <=> Apart(d, e)
  BY <1>3 DEF Apart
<1> QED BY <1>1, <1>2, <1>4 DEF Free

\* A unit's fitting candidates are the first of each value that serves it.
LEMMA FittingIs ==
  ASSUME Settled, NEW u \in UnitsUsed
  PROVE  /\ Fitting(u) = {c \in Serving(NameOf(u)) : ~Repeated(c)}
         /\ Open(u) = {c \in Able(NameOf(u)) : ~Repeated(c)}
         /\ {candidates[c] : c \in Open(u)} = {candidates[c] : c \in Able(NameOf(u))}
         /\ Open(u) = {} <=> Able(NameOf(u)) = {}
         /\ Fitting(u) = {} <=> Serving(NameOf(u)) = {}
<1>1. \A c \in Columns : Fits(candidates[c], u) <=> Serves(c, NameOf(u))
  BY FitsIsServes DEF Settled
<1>2. \A c \in Columns : Blockers(candidates[c]) = {} <=> Free(c)
  BY BlockersBlock DEF Settled
<1>3. Fitting(u) = {c \in Serving(NameOf(u)) : ~Repeated(c)}
  BY <1>1 DEF Fitting, Serving
<1>4. Open(u) = {c \in Able(NameOf(u)) : ~Repeated(c)}
  BY <1>2, <1>3 DEF Open, Able, Serving
<1>5. ASSUME NEW c \in Able(NameOf(u))
      PROVE  \E d \in Open(u) : candidates[d] = candidates[c]
  <2>1. PICK d \in Columns : ~Repeated(d) /\ candidates[d] = candidates[c]
    BY OneIsKept DEF Settled, Able, Serving
  <2>2. d \in Able(NameOf(u))
    BY <2>1, ValuesDecide DEF Able, Serving
  <2> QED BY <1>4, <2>1, <2>2
<1>6. ASSUME NEW c \in Serving(NameOf(u)) PROVE Fitting(u) # {}
  <2>1. PICK d \in Columns : ~Repeated(d) /\ candidates[d] = candidates[c]
    BY OneIsKept DEF Settled, Serving
  <2>2. d \in Serving(NameOf(u))
    BY <2>1, ValuesDecide DEF Serving
  <2> QED BY <1>3, <2>1, <2>2
<1>7. {candidates[c] : c \in Open(u)} = {candidates[c] : c \in Able(NameOf(u))}
  BY <1>4, <1>5
<1>8. Open(u) = {} <=> Able(NameOf(u)) = {}
  BY <1>4, <1>5
<1>9. Fitting(u) = {} <=> Serving(NameOf(u)) = {}
  BY <1>3, <1>6
<1> QED BY <1>3, <1>4, <1>7, <1>8, <1>9

\* The reservation blamed is the least in the way.
LEMMA BlockerIs ==
  ASSUME Settled, NEW u \in UnitsUsed, Open(u) = {}, Fitting(u) # {}
  PROVE  /\ Blocker(u) \in InTheWay(NameOf(u))
         /\ \A r \in InTheWay(NameOf(u)) : Blocker(u) <= r
         /\ Blocker(u) \in Nat
<1> DEFINE W == UNION {Blockers(candidates[c]) : c \in Fitting(u)}
           Least(r) == \A s \in W : r <= s
<1>1. /\ Fitting(u) = {c \in Serving(NameOf(u)) : ~Repeated(c)}
      /\ Serving(NameOf(u)) \subseteq Columns
  BY FittingIs DEF Serving
<1>2. \A c \in Columns :
        Blockers(candidates[c]) = {r \in ToSet(reservations) : Blocks(r, c)}
  BY BlockersBlock DEF Settled
<1>3. ASSUME NEW r \in InTheWay(NameOf(u)) PROVE r \in W
  <2>1. PICK c \in Serving(NameOf(u)) : Blocks(r, c)
    BY DEF InTheWay
  <2>2. PICK d \in Columns : ~Repeated(d) /\ candidates[d] = candidates[c]
    BY <1>1, OneIsKept DEF Settled
  <2>3. d \in Fitting(u) /\ Blocks(r, d)
    BY <1>1, <2>1, <2>2, ValuesDecide DEF Serving
  <2>4. r \in Blockers(candidates[d])
    BY <1>2, <2>2, <2>3 DEF InTheWay
  <2> QED BY <2>3, <2>4
<1>4. \A r \in W : r \in InTheWay(NameOf(u))
  BY <1>1, <1>2 DEF InTheWay
<1>5. W = InTheWay(NameOf(u))
  BY <1>3, <1>4
<1>6. W \subseteq Nat
  <2>1. ToSet(reservations) \subseteq Nat
    BY DEF Settled, ToSet
  <2> QED BY <1>5, <2>1 DEF InTheWay
<1>7. W # {}
  <2>1. PICK c \in Fitting(u) : TRUE
    OBVIOUS
  <2>2. Blockers(candidates[c]) # {}
    BY <2>1 DEF Open
  <2> QED BY <2>2
<1>8. \E r \in W : Least(r)
  <2> HIDE DEF W
  <2> QED BY <1>6, <1>7, LeastOf
<1>9. Blocker(u) = CHOOSE r \in W : Least(r)
  BY DEF Blocker
<1>10. Blocker(u) \in W /\ Least(Blocker(u))
  <2> HIDE DEF W, Least
  <2> QED BY <1>8, <1>9
<1> QED BY <1>5, <1>6, <1>10

-----------------------------------------------------------------------------
(* The ways of the search and the assignments. *)

SearchWays ==
  {s \in [UnitsUsed -> Columns] :
     /\ \A u \in UnitsUsed : s[u] \in eligible[u]
     /\ \A u, v \in UnitsUsed : u < v => Compatible(candidates[s[u]], candidates[s[v]])}

\* The selections of solve are the ways of the shared search.
LEMMA TheWays == Selections = SearchWays
BY DEF Selections, SearchWays, Ways

AllMarked ==
  \A u \in UnitsUsed :
    /\ eligible[u] \subseteq Able(NameOf(u))
    /\ {candidates[c] : c \in eligible[u]} = {candidates[c] : c \in Able(NameOf(u))}
    /\ eligible[u] # {}

\* Candidates are compatible if they are apart.
LEMMA CompatibleColumns ==
  ASSUME Settled, NEW c \in Columns, NEW d \in Columns
  PROVE  Compatible(candidates[c], candidates[d]) <=> Apart(c, d)
<1>1. WellPlaced(candidates[c]) /\ WellPlaced(candidates[d])
  BY ValidIsWellPlaced DEF Settled
<1> QED BY <1>1, CompatibleIsApart DEF Settled

UnitOf(o) == CHOOSE u \in UnitsUsed : NameOf(u) = o

\* Each instance has one unit and each unit one instance.
LEMMA UnitOfInstance ==
  ASSUME Grouped
  PROVE  /\ \A o \in Instances : UnitOf(o) \in UnitsUsed /\ NameOf(UnitOf(o)) = o
         /\ \A i \in Rows : Name(i) \in Instances /\ UnitOf(Name(i)) = unit[i]
         /\ \A u \in UnitsUsed : NameOf(u) \in Instances /\ UnitOf(NameOf(u)) = u
         /\ \A u \in UnitsUsed : u \in Nat
<1>1. /\ \A u, v \in UnitsUsed : NameOf(u) = NameOf(v) <=> u = v
      /\ \A i \in Rows : NameOf(unit[i]) = Name(i)
      /\ \A o \in Instances : \E u \in UnitsUsed : NameOf(u) = o
  BY UnitsAreInstancesInOrder
<1>2. \A o \in Instances : UnitOf(o) \in UnitsUsed /\ NameOf(UnitOf(o)) = o
  <2> SUFFICES ASSUME NEW o \in Instances
               PROVE  UnitOf(o) \in UnitsUsed /\ NameOf(UnitOf(o)) = o
    OBVIOUS
  <2>1. \E u \in UnitsUsed : NameOf(u) = o
    BY <1>1
  <2> QED BY <2>1, Zenon DEF UnitOf
<1>3. \A i \in Rows : Name(i) \in Instances /\ unit[i] \in UnitsUsed /\ unit[i] \in Nat
  BY UnitsAre DEF Instances, Name
<1>4. \A u \in UnitsUsed : NameOf(u) \in Instances
  BY MembersAre
<1>5. \A u \in UnitsUsed : UnitOf(NameOf(u)) = u
  BY <1>1, <1>2, <1>4
<1>6. \A i \in Rows : UnitOf(Name(i)) = unit[i]
  BY <1>1, <1>3, <1>5
<1>7. \A u \in UnitsUsed : u \in Nat
  BY <1>3 DEF UnitsUsed
<1> QED BY <1>2, <1>3, <1>4, <1>5, <1>6, <1>7

AssignmentOf(s) == [o \in Instances |-> s[UnitOf(o)]]

\* Every way of the search is an assignment.
LEMMA WayAssigns ==
  ASSUME Settled, AllMarked, NEW s \in SearchWays
  PROVE  AssignmentOf(s) \in Assignments
<1> DEFINE a == AssignmentOf(s)
<1>1. /\ \A o \in Instances : UnitOf(o) \in UnitsUsed /\ NameOf(UnitOf(o)) = o
      /\ \A u \in UnitsUsed : u \in Nat
  BY UnitOfInstance DEF Settled
<1>2. /\ \A u \in UnitsUsed : s[u] \in Columns /\ s[u] \in Able(NameOf(u))
      /\ \A u, v \in UnitsUsed : u < v => Compatible(candidates[s[u]], candidates[s[v]])
  BY DEF SearchWays, AllMarked
<1>3. \A o \in Instances : a[o] = s[UnitOf(o)]
  BY DEF AssignmentOf
<1>4. a \in [Instances -> Columns]
  BY <1>1, <1>2 DEF AssignmentOf
<1> HIDE DEF a
<1>5. \A o \in Instances : Serves(a[o], o) /\ Free(a[o])
  BY <1>1, <1>2, <1>3 DEF Able, Serving
<1>6. ASSUME NEW o \in Instances, NEW q \in Instances, o # q PROVE Apart(a[o], a[q])
  <2> DEFINE u == UnitOf(o)
             v == UnitOf(q)
  <2>1. /\ u \in UnitsUsed /\ v \in UnitsUsed /\ u \in Nat /\ v \in Nat /\ u # v
        /\ a[o] = s[u] /\ a[q] = s[v] /\ s[u] \in Columns /\ s[v] \in Columns
    BY <1>1, <1>2, <1>3, <1>6
  <2> HIDE DEF u, v
  <2>2. CASE u < v
    BY <1>2, <2>1, <2>2, CompatibleColumns
  <2>3. CASE v < u
    BY <1>2, <2>1, <2>3, CompatibleColumns, ApartEitherWay
  <2> QED BY <2>1, <2>2, <2>3
<1>7. a \in Assignments
  BY <1>4, <1>5, <1>6 DEF Assignments
<1> QED BY <1>7 DEF a

\* Eligible columns of the values of an assignment are a way of the search.
LEMMA ValuesAreWay ==
  ASSUME Settled, NEW b \in Assignments, NEW t \in [UnitsUsed -> Columns],
         \A u \in UnitsUsed : t[u] \in eligible[u],
         \A u \in UnitsUsed : candidates[t[u]] = candidates[b[NameOf(u)]]
  PROVE  t \in SearchWays
<1>1. /\ \A u \in UnitsUsed : NameOf(u) \in Instances /\ u \in Nat
      /\ \A u, v \in UnitsUsed : NameOf(u) = NameOf(v) <=> u = v
  BY UnitOfInstance, UnitsAreInstancesInOrder DEF Settled
<1>2. ASSUME NEW u \in UnitsUsed, NEW v \in UnitsUsed, u < v
      PROVE  Compatible(candidates[t[u]], candidates[t[v]])
  <2>1. NameOf(u) \in Instances /\ NameOf(v) \in Instances /\ NameOf(u) # NameOf(v)
    BY <1>1, <1>2
  <2>2. /\ b[NameOf(u)] \in Columns /\ b[NameOf(v)] \in Columns
        /\ Apart(b[NameOf(u)], b[NameOf(v)])
    BY <2>1 DEF Assignments
  <2>3. Compatible(candidates[b[NameOf(u)]], candidates[b[NameOf(v)]])
    BY <2>2, CompatibleColumns
  <2> QED BY <2>3
<1> QED BY <1>2 DEF SearchWays

\* A candidate of an assignment has an equal one that is marked.
LEMMA ValueMarked ==
  ASSUME Settled, AllMarked, NEW b \in Assignments, NEW u \in UnitsUsed
  PROVE  \E c \in eligible[u] : c \in Columns /\ candidates[c] = candidates[b[NameOf(u)]]
<1>1. NameOf(u) \in Instances
  BY UnitOfInstance DEF Settled
<1>2. b[NameOf(u)] \in Able(NameOf(u))
  BY <1>1 DEF Assignments, Able, Serving
<1>3. candidates[b[NameOf(u)]] \in {candidates[c] : c \in eligible[u]}
  BY <1>2 DEF AllMarked
<1>4. eligible[u] \subseteq Columns
  BY DEF AllMarked, Able, Serving
<1> QED BY <1>3, <1>4

\* A way that follows another one up to a unit, and has the values of an
\* assignment.
LEMMA WayOfValues ==
  ASSUME Settled, AllMarked, NEW b \in Assignments, NEW s \in SearchWays, NEW w \in UnitsUsed,
         \A u \in UnitsUsed : u < w => candidates[s[u]] = candidates[b[NameOf(u)]]
  PROVE  \E t \in SearchWays :
           /\ \A u \in UnitsUsed : u < w => t[u] = s[u]
           /\ \A u \in UnitsUsed : candidates[t[u]] = candidates[b[NameOf(u)]]
<1> DEFINE Suits(c, u) == c \in Columns /\ candidates[c] = candidates[b[NameOf(u)]]
           t == [u \in UnitsUsed |->
                   IF u < w THEN s[u] ELSE CHOOSE c \in eligible[u] : Suits(c, u)]
<1>1. \A u \in UnitsUsed : \E c \in eligible[u] : Suits(c, u)
  BY ValueMarked
<1>2. \A u \in UnitsUsed : s[u] \in eligible[u] /\ s[u] \in Columns
  BY DEF SearchWays
<1>3. ASSUME NEW u \in UnitsUsed PROVE t[u] \in eligible[u] /\ Suits(t[u], u)
  <2>1. CASE u < w
    BY <1>2, <2>1
  <2>2. CASE ~(u < w)
    <3>1. t[u] = CHOOSE c \in eligible[u] : Suits(c, u)
      BY <2>2
    <3>2. \E c \in eligible[u] : Suits(c, u)
      BY <1>1
    <3> HIDE DEF Suits, t
    <3> QED BY <3>1, <3>2
  <2> QED BY <2>1, <2>2
<1>4. \A u \in UnitsUsed : u < w => t[u] = s[u]
  OBVIOUS
<1>5. DOMAIN t = UnitsUsed /\ t = [u \in UnitsUsed |-> t[u]]
  OBVIOUS
<1> HIDE DEF t
<1>6. t \in [UnitsUsed -> Columns]
  BY <1>3, <1>5
<1>7. t \in SearchWays
  BY <1>3, <1>6, ValuesAreWay
<1> QED BY <1>3, <1>4, <1>7

\* If there is an assignment, there is a way.
LEMMA SomeWay ==
  ASSUME Settled, AllMarked, NEW b \in Assignments
  PROVE  SearchWays # {}
<1> DEFINE Suits(c, u) == c \in Columns /\ candidates[c] = candidates[b[NameOf(u)]]
           t == [u \in UnitsUsed |-> CHOOSE c \in eligible[u] : Suits(c, u)]
<1>1. \A u \in UnitsUsed : \E c \in eligible[u] : Suits(c, u)
  BY ValueMarked
<1>2. ASSUME NEW u \in UnitsUsed PROVE t[u] \in eligible[u] /\ Suits(t[u], u)
  <2>1. t[u] = CHOOSE c \in eligible[u] : Suits(c, u)
    OBVIOUS
  <2>2. \E c \in eligible[u] : Suits(c, u)
    BY <1>1
  <2> HIDE DEF Suits, t
  <2> QED BY <2>1, <2>2
<1>3. DOMAIN t = UnitsUsed /\ t = [u \in UnitsUsed |-> t[u]]
  OBVIOUS
<1> HIDE DEF t
<1>4. t \in [UnitsUsed -> Columns]
  BY <1>2, <1>3
<1>5. t \in SearchWays
  BY <1>2, <1>4, ValuesAreWay
<1> QED BY <1>5

\* No candidate is less than itself.
LEMMA NotLessThanItself ==
  ASSUME NEW c \in Candidate
  PROVE  ~CandidateLess(c, c)
<1>1. ~Precedes(OrderOf(c), OrderOf(c))
  <2>1. c.preference \in Nat /\ c.timer \in Nat /\ c.configuration \in Nat
    BY CandidateFields
  <2>2. \A i \in DOMAIN OrderOf(c) : OrderOf(c)[i] \in Nat
    BY <2>1 DEF OrderOf
  <2>3. \A n \in Nat : ~(n < n)
    OBVIOUS
  <2> QED BY <2>2, <2>3, Zenon DEF Precedes
<1>2. ~Precedes(<<Len(c.endpoints), c.key>>, <<Len(c.endpoints), c.key>>)
  <2> DEFINE p == <<Len(c.endpoints), c.key>>
  <2>1. Len(c.endpoints) \in Nat /\ c.key \in Nat
    BY CandidateFields
  <2>2. \A i \in DOMAIN p : p[i] \in Nat
    BY <2>1
  <2>3. \A n \in Nat : ~(n < n)
    OBVIOUS
  <2> HIDE DEF p
  <2>4. ~Precedes(p, p)
    BY <2>2, <2>3, Zenon DEF Precedes
  <2> QED BY <2>4 DEF p
<1>3. ASSUME NEW i \in Common(c, c) PROVE ~Precedes(Terms(c, i), Terms(c, i))
  <2> DEFINE p == Terms(c, i)
  <2>1. c.endpoints[i] \in Endpoint
    BY CandidateFields DEF Common
  <2>2. \A j \in DOMAIN p : p[j] \in Nat
    BY <2>1 DEF Terms, Endpoint
  <2>3. \A n \in Nat : ~(n < n)
    OBVIOUS
  <2> HIDE DEF p
  <2>4. ~Precedes(p, p)
    BY <2>2, <2>3, Zenon DEF Precedes
  <2> QED BY <2>4 DEF p
<1> QED BY <1>1, <1>2, <1>3, Zenon DEF CandidateLess

-----------------------------------------------------------------------------
(* The invariant with what an answer promises. *)

Promises == PlanIsSound /\ RefusalIsJustified /\ PlanIsPreferred

SolveInv == Inv /\ Promises

\* What is said about the problem does not change unless the problem does.
LEMMA SameProblem ==
  ASSUME UNCHANGED <<requests, candidates, resources, reservations>>
  PROVE  /\ Instances' = Instances /\ Assignments' = Assignments
         /\ \A o : RequestsOf(o)' = RequestsOf(o)
         /\ \A c, o : Serves(c, o)' <=> Serves(c, o)
         /\ \A o : /\ Serving(o)' = Serving(o) /\ Able(o)' = Able(o)
                   /\ InTheWay(o)' = InTheWay(o)
         /\ \A c : Free(c)' <=> Free(c)
         /\ \A r, c : Blocks(r, c)' <=> Blocks(r, c)
         /\ Contradiction' <=> Contradiction
         /\ PartsValid' <=> PartsValid
         /\ \A i : (BadRequest(i)' <=> BadRequest(i)) /\ (BadIdentity(i)' <=> BadIdentity(i))
         /\ Rows' = Rows /\ Columns' = Columns
<1>1. Instances' = Instances /\ (\A o : RequestsOf(o)' = RequestsOf(o))
      /\ Rows' = Rows /\ Columns' = Columns
  BY DEF Instances, Rows, Columns, RequestsOf
<1>2. \A c, o : Serves(c, o)' <=> Serves(c, o)
  BY DEF Serves, RequestsOf
<1>3. \A r, c : Blocks(r, c)' <=> Blocks(r, c)
  BY DEF Blocks, Territory
<1>4. \A c : Free(c)' <=> Free(c)
  BY <1>3 DEF Free
<1>5. \A c, d : Apart(c, d)' <=> Apart(c, d)
  BY DEF Apart, Hardware, Territory
<1>6. Assignments' = Assignments
  BY <1>1, <1>2, <1>4, <1>5 DEF Assignments
<1>7. Contradiction' <=> Contradiction
  BY DEF Contradiction
<1>8. PartsValid' <=> PartsValid
  BY <1>1 DEF PartsValid, TreeValid, ReservationsValid, CandidateValid, EndpointValid,
              IsKind, Descendant, Overlaps
<1>9. \A i : (BadRequest(i)' <=> BadRequest(i)) /\ (BadIdentity(i)' <=> BadIdentity(i))
  BY <1>1 DEF BadRequest, BadIdentity, Nameless, Occurrences
<1>10. \A o : /\ Serving(o)' = Serving(o) /\ Able(o)' = Able(o)
               /\ InTheWay(o)' = InTheWay(o)
  <2>1. \A o : Serving(o)' = Serving(o)
    BY <1>1, <1>2 DEF Serving
  <2>2. \A o : Able(o)' = Able(o)
    BY <1>4, <2>1 DEF Able
  <2>3. \A o : InTheWay(o)' = InTheWay(o)
    BY <1>3, <2>1 DEF InTheWay
  <2> QED BY <2>1, <2>2, <2>3
<1> QED BY <1>1, <1>2, <1>3, <1>4, <1>6, <1>7, <1>8, <1>9, <1>10

\* Before solve returns, it has promised nothing.
LEMMA UnansweredPromises ==
  ASSUME pc' # "done"
  PROVE  Promises'
BY DEF Promises, PlanIsSound, RefusalIsJustified, PlanIsPreferred, Answered

\* What is sorted, or searched, stays so.
LEMMA SameSorted ==
  ASSUME Inv, UNCHANGED <<requests, candidates, resources, reservations>>
  PROVE  /\ Reached({"identities", "requests", "model", "pins", "group", "mark"})
              => \A i, j \in Rows' : i < j => ~Precedes(requests'[j].key, requests'[i].key)
         /\ Reached({"pins", "group", "mark"})
              => /\ InOrder(candidates')
                 /\ ~Contradiction'
                 /\ \A i, j \in Rows' : i # j => requests'[i].key # requests'[j].key
BY SameProblem DEF Inv, Sorted, OnlyConsistentSearched

Refusals == {"invalid_identity", "duplicate_identity", "invalid_request",
             "model_error", "no_candidate", "reserved", "conflict", "exhausted"}

\* A refusal keeps the problem as it was found.
LEMMA FailInv ==
  ASSUME Inv, pc # "done", NEW reason \in Refusals, NEW key \in Nat \X Nat, NEW number \in Nat,
         Fail(reason, key, number), UNCHANGED <<requests, model, unit, eligible>>,
         reason \in {"conflict", "exhausted"} => pc = "mark",
         reason \in {"invalid_identity", "duplicate_identity"}
           \/ pc \in {"requests", "model", "pins", "group", "mark"}
  PROVE  /\ Inv' /\ PlanIsSound' /\ PlanIsPreferred'
         /\ pc' = "done" /\ status' = reason /\ blamed' = key /\ detail' = number
<1>1. /\ pc' = "done" /\ status' = reason /\ blamed' = key /\ detail' = number
      /\ plan' = [i \in Rows |-> 0]
      /\ UNCHANGED <<requests, candidates, resources, reservations, ample, unit, eligible>>
  BY DEF Fail, model
<1>2. TypeOK'
  <2>1. plan' \in [Rows' -> Nat] /\ Columns' = Columns
    BY <1>1, SameProblem
  <2>2. status' \in {"success", "invalid_identity", "duplicate_identity", "invalid_request",
                     "model_error", "no_candidate", "reserved", "conflict", "exhausted"}
    BY <1>1 DEF Refusals
  <2> QED BY <1>1, <2>1, <2>2 DEF Inv, TypeOK
<1>3. /\ Reached({"identities", "requests", "model", "pins", "group", "mark"})'
           => Reached({"identities", "requests", "model", "pins", "group", "mark"})
      /\ Reached({"pins", "group", "mark"})' => Reached({"pins", "group", "mark"})
  BY <1>1 DEF Reached, Answered, Refusals
<1>4. Sorted' /\ OnlyConsistentSearched'
  BY <1>1, <1>3, SameSorted DEF Sorted, OnlyConsistentSearched
<1>a. OnlyCheckedSearched'
  <2>1. Answered({"invalid_identity", "duplicate_identity"})'
          \/ \A i \in Rows : ~BadIdentity(i)
    BY <1>1 DEF Inv, OnlyCheckedSearched, Answered
  <2>2. Reached({"model", "pins", "group", "mark"})'
          => Reached({"model", "pins", "group", "mark"})
    BY <1>1 DEF Reached, Answered, Refusals
  <2> QED BY <1>1, <1>3, <2>1, <2>2, SameProblem DEF Inv, OnlyCheckedSearched
<1>5. Staged' /\ UnitsAreInstances' /\ Marked'
  BY <1>1 DEF Staged, UnitsAreInstances, Marked
<1>6. PlanIsSound' /\ PlanIsPreferred'
  BY <1>1 DEF PlanIsSound, PlanIsPreferred, Answered, Refusals
<1> QED BY <1>1, <1>2, <1>4, <1>a, <1>5, <1>6 DEF Inv

\* A call that has returned, or has not begun, keeps what it has.
LEMMA StutterInv == ASSUME SolveInv, UNCHANGED vars PROVE SolveInv'
<1>1. UNCHANGED <<requests, candidates, resources, reservations, ample, pc, unit, eligible,
                  status, blamed, detail, plan>>
  BY DEF vars, model, result
<1>2. /\ Instances' = Instances /\ Assignments' = Assignments
      /\ \A o : RequestsOf(o)' = RequestsOf(o)
      /\ \A o : /\ Serving(o)' = Serving(o) /\ Able(o)' = Able(o)
                /\ InTheWay(o)' = InTheWay(o)
      /\ Contradiction' <=> Contradiction
      /\ PartsValid' <=> PartsValid
      /\ \A i : (BadRequest(i)' <=> BadRequest(i)) /\ (BadIdentity(i)' <=> BadIdentity(i))
      /\ Rows' = Rows /\ Columns' = Columns
  BY <1>1, SameProblem
<1>3. TypeOK'
  BY <1>1, <1>2 DEF SolveInv, Inv, TypeOK
<1>4. Sorted' /\ OnlyConsistentSearched'
  BY <1>1, <1>2 DEF SolveInv, Inv, Sorted, OnlyConsistentSearched, Reached, Answered
<1>5. OnlyCheckedSearched'
  BY <1>1, <1>2 DEF SolveInv, Inv, OnlyCheckedSearched, Reached, Answered
<1>6. Staged'
  <2>1. \A i : Count(i)' = Count(i)
    BY <1>1 DEF Count, OpenerOf, Opens, SameUnit
  <2> QED BY <1>1, <1>2, <2>1 DEF SolveInv, Inv, Staged
<1>7. UnitsAreInstances'
  BY <1>1, <1>2 DEF SolveInv, Inv, UnitsAreInstances
<1>8. Marked'
  BY <1>1, <1>2 DEF SolveInv, Inv, Marked
<1>9. PlanIsSound' /\ PlanIsPreferred'
  BY <1>1, <1>2 DEF SolveInv, Promises, PlanIsSound, PlanIsPreferred, Answered
<1>10. RefusalIsJustified'
  BY <1>1, <1>2 DEF SolveInv, Promises, RefusalIsJustified, Answered, IsKind
<1> QED BY <1>3, <1>4, <1>5, <1>6, <1>7, <1>8, <1>9, <1>10 DEF SolveInv, Inv, Promises

\* The invariant holds before solve is called.
LEMMA InitInv == Init => SolveInv
<1> SUFFICES ASSUME Init PROVE SolveInv
  OBVIOUS
<1>1. /\ candidates \in CandidateLists /\ resources \in ResourceLists
      /\ reservations \in ReservationLists /\ ample \in Budgets
      /\ requests = <<>> /\ pc = "call" /\ unit = <<>> /\ eligible = <<>>
      /\ status = "success" /\ blamed = NoKey /\ detail = 0 /\ plan = <<>>
  BY DEF Init, Start
<1>2. TypeOK
  <2>1. /\ requests \in Seq(Request) /\ Rows = {} /\ unit \in Seq(Nat)
        /\ eligible \in Seq(SUBSET Columns) /\ plan \in [Rows -> Nat]
        /\ blamed \in Nat \X Nat /\ detail \in Nat
    BY <1>1 DEF Rows, NoKey
  <2> QED BY <1>1, <2>1, ProblemAssumption DEF TypeOK
<1>3. Inv
  BY <1>1, <1>2 DEF Inv, Sorted, OnlyConsistentSearched, OnlyCheckedSearched, Staged,
                    UnitsAreInstances, Marked, Reached, Answered
<1>4. Promises
  BY <1>1 DEF Promises, PlanIsSound, RefusalIsJustified, PlanIsPreferred, Answered
<1> QED BY <1>3, <1>4 DEF SolveInv

\* A call with any requests keeps the invariant.
LEMMA CallInv ==
  ASSUME SolveInv, NEW list \in Seq(Request), Call(list)
  PROVE  SolveInv'
<1>1. /\ pc = "call" /\ pc' = "sort" /\ requests' = list
      /\ plan' = [i \in DOMAIN list |-> 0]
      /\ UNCHANGED <<candidates, resources, reservations, ample, unit, eligible,
                     status, blamed, detail>>
  BY DEF Call, model
<1>2. TypeOK'
  <2>1. Columns' = Columns /\ plan' \in [Rows' -> Nat]
    BY <1>1 DEF Columns, Rows
  <2> QED BY <1>1, <2>1 DEF SolveInv, Inv, TypeOK
<1>3. Inv'
  BY <1>1, <1>2 DEF SolveInv, Inv, Sorted, OnlyConsistentSearched, OnlyCheckedSearched,
                    Staged, UnitsAreInstances, Marked, Reached, Answered
<1> QED BY <1>1, <1>3, UnansweredPromises DEF SolveInv

\* Sorting keeps the invariant.
LEMMA SortRequestsInv == ASSUME SolveInv, SortRequests PROVE SolveInv'
<1>1. /\ pc = "sort" /\ pc' = "identities"
      /\ UNCHANGED <<candidates, resources, reservations, ample, unit, eligible,
                     status, blamed, detail, plan>>
  BY DEF SortRequests, Proceed, model, result
<1>2. PICK order \in Orders(Rows) :
        /\ \A i \in Rows : \A j \in 1 .. (i - 1) :
             ~Precedes(requests[order[i]].key, requests[order[j]].key)
        /\ requests' = [i \in Rows |-> requests[order[i]]]
  BY DEF SortRequests
<1>3. order \in [Rows -> Rows]
  BY DEF Orders, Rearranges
<1>4. /\ requests \in Seq(Request) /\ Rows = 1 .. Len(requests) /\ Len(requests) \in Nat
      /\ \A i \in Rows : requests[i] \in Request
  BY RowsAre DEF SolveInv, Inv, TypeOK
<1>5. requests' \in Seq(Request) /\ Rows' = Rows
  <2>1. requests' \in [1 .. Len(requests) -> Request]
    BY <1>2, <1>3, <1>4
  <2> QED BY <1>4, <2>1 DEF Rows
<1>6. \A i, j \in Rows' : i < j => ~Precedes(requests'[j].key, requests'[i].key)
  <2> SUFFICES ASSUME NEW i \in Rows, NEW j \in Rows, i < j
               PROVE  ~Precedes(requests'[j].key, requests'[i].key)
    BY <1>5
  <2>1. i \in 1 .. (j - 1)
    BY <1>4
  <2> QED BY <1>2, <2>1
<1>7. TypeOK'
  BY <1>1, <1>5 DEF SolveInv, Inv, TypeOK, Columns
<1>8. Sorted'
  BY <1>1, <1>6 DEF Sorted, Reached, Answered
<1>9. Inv'
  BY <1>1, <1>7, <1>8 DEF SolveInv, Inv, OnlyConsistentSearched, OnlyCheckedSearched,
                          Staged, UnitsAreInstances, Marked, Reached, Answered
<1> QED BY <1>1, <1>9, UnansweredPromises DEF SolveInv

\* A check that finds nothing to refuse.
LEMMA ProceedInv ==
  ASSUME SolveInv, pc \in {"identities", "requests", "pins"},
         UNCHANGED <<requests, model, unit, eligible, result>>,
         pc' \in {"requests", "model", "group"},
         Sorted', OnlyConsistentSearched', OnlyCheckedSearched'
  PROVE  SolveInv'
<1>1. UNCHANGED <<requests, candidates, resources, reservations, ample, unit, eligible,
                  status, blamed, detail, plan>>
  BY DEF model, result
<1>2. TypeOK'
  BY <1>1, SameProblem DEF SolveInv, Inv, TypeOK
<1>3. Staged' /\ UnitsAreInstances' /\ Marked'
  BY <1>1 DEF SolveInv, Inv, Staged, UnitsAreInstances, Marked
<1> QED BY <1>2, <1>3, UnansweredPromises DEF SolveInv, Inv

\* A refusal for a name is justified, and without one all names are good.
LEMMA CheckIdentitiesInv == ASSUME SolveInv, CheckIdentities PROVE SolveInv'
<1>1. /\ pc = "identities" /\ UNCHANGED <<requests, model, unit, eligible>>
      /\ UNCHANGED <<candidates, resources, reservations>>
      /\ Inv /\ requests \in Seq(Request)
  BY DEF CheckIdentities, SolveInv, Inv, TypeOK, model
<1>2. /\ \A i \in Rows : requests[i].key \in Nat \X Nat
      /\ IsFiniteSet(Rows)
  BY <1>1, RowsAre
<1>3. \A i \in Rows : Occurrences(i) \in Nat
  <2>1. ASSUME NEW i \in Rows PROVE Occurrences(i) \in Nat
    <3>1. {j \in Rows : requests[j].key = requests[i].key} \in SUBSET Rows
      OBVIOUS
    <3> QED BY <1>2, <3>1, FS_Subset, FS_CardinalityType DEF Occurrences
  <2> QED BY <2>1
<1>4. ASSUME NEW i \in Rows, Nameless(i), Fail("invalid_identity", requests[i].key, 0)
      PROVE  SolveInv'
  <2>1. "invalid_identity" \in Refusals /\ 0 \in Nat
    BY DEF Refusals
  <2>2. /\ Inv' /\ PlanIsSound' /\ PlanIsPreferred' /\ pc' = "done"
        /\ status' = "invalid_identity" /\ blamed' = requests[i].key
    BY <1>1, <1>2, <1>4, <2>1, FailInv
  <2>3. 0 \in {blamed'[1], blamed'[2]}
    BY <1>4, <2>2 DEF Nameless
  <2>4. RefusalIsJustified'
    BY <2>2, <2>3 DEF RefusalIsJustified, Answered
  <2> QED BY <2>2, <2>4 DEF SolveInv, Promises
<1>5. ASSUME NEW i \in Rows, ~Nameless(i), BadIdentity(i),
             Fail("duplicate_identity", requests[i].key, Occurrences(i))
      PROVE  SolveInv'
  <2>1. "duplicate_identity" \in Refusals
    BY DEF Refusals
  <2>2. /\ Inv' /\ PlanIsSound' /\ PlanIsPreferred' /\ pc' = "done"
        /\ status' = "duplicate_identity" /\ blamed' = requests[i].key
        /\ detail' = Occurrences(i)
    BY <1>1, <1>2, <1>3, <1>5, <2>1, FailInv
  <2>3. Occurrences(i) > 1
    BY <1>5 DEF BadIdentity
  <2>4. /\ detail' = Cardinality({j \in Rows' : requests'[j].key = blamed'})
        /\ detail' > 1
    BY <1>1, <2>2, <2>3, SameProblem DEF Occurrences
  <2>5. RefusalIsJustified'
    BY <2>2, <2>4 DEF RefusalIsJustified, Answered
  <2> QED BY <2>2, <2>5 DEF SolveInv, Promises
<1>6. ASSUME \A i \in Rows : ~BadIdentity(i), pc' = "requests", UNCHANGED result
      PROVE  SolveInv'
  <2>1. Sorted' /\ OnlyConsistentSearched'
    BY <1>1, <1>6, SameSorted DEF Sorted, OnlyConsistentSearched, Reached, Answered
  <2>2. OnlyCheckedSearched'
    BY <1>1, <1>6, SameProblem DEF OnlyCheckedSearched, Reached, Answered
  <2> QED BY <1>1, <1>6, <2>1, <2>2, ProceedInv
<1>7. \/ \E i \in Rows :
           /\ BadIdentity(i)
           /\ IF Nameless(i)
              THEN Fail("invalid_identity", requests[i].key, 0)
              ELSE Fail("duplicate_identity", requests[i].key, Occurrences(i))
      \/ (\A i \in Rows : ~BadIdentity(i)) /\ Proceed("requests")
  BY DEF CheckIdentities, IsFirst
<1> QED BY <1>4, <1>5, <1>6, <1>7 DEF Proceed

\* A refused request is a bad one, and without one all are good.
LEMMA CheckRequestsInv == ASSUME SolveInv, CheckRequests PROVE SolveInv'
<1>1. /\ pc = "requests" /\ UNCHANGED <<requests, model, unit, eligible>>
      /\ UNCHANGED <<candidates, resources, reservations>>
      /\ Inv /\ requests \in Seq(Request)
  BY DEF CheckRequests, SolveInv, Inv, TypeOK, model
<1>2. \A i \in Rows : requests[i].key \in Nat \X Nat /\ requests[i].config \in Config
  BY <1>1, RowsAre
<1>3. ASSUME NEW i \in Rows, BadRequest(i),
             Fail("invalid_request", requests[i].key, FaultOf(requests[i].config))
      PROVE  SolveInv'
  <2> DEFINE c == requests[i].config
  <2>1. "invalid_request" \in Refusals
    BY DEF Refusals
  <2>2. FaultOf(c) \in Nat
    <3>1. c.error \in {"none", "invalid_value", "unsupported_option", "conflict"}
      BY <1>2 DEF Config, Errors, Rank
    <3> QED BY <3>1 DEF FaultOf, Rank
  <2>3. /\ Inv' /\ PlanIsSound' /\ PlanIsPreferred' /\ pc' = "done"
        /\ status' = "invalid_request" /\ blamed' = requests[i].key
        /\ detail' = FaultOf(c)
    BY <1>1, <1>2, <1>3, <2>1, <2>2, FailInv
  <2>4. requests[i] \in ToSet(requests')
    BY <1>1 DEF ToSet, Rows
  <2>5. \/ c.error # "none" /\ detail' = Rank[c.error]
        \/ c.error = "none" /\ Unfinished(c) /\ detail' = 0
        \/ c.error = "none" /\ Empty(c.frequency) /\ detail' = Rank["conflict"]
    BY <1>3, <2>3 DEF BadRequest, FaultOf
  <2>6. RefusalIsJustified'
    <3>1. \E r \in {s \in ToSet(requests') : s.key = blamed'} :
            \/ r.config.error # "none" /\ detail' = Rank[r.config.error]
            \/ r.config.error = "none" /\ Unfinished(r.config) /\ detail' = 0
            \/ r.config.error = "none" /\ Empty(r.config.frequency) /\ detail' = Rank["conflict"]
      BY <2>3, <2>4, <2>5
    <3> QED BY <2>3, <3>1 DEF RefusalIsJustified, Answered
  <2> QED BY <2>3, <2>6 DEF SolveInv, Promises
<1>4. ASSUME \A i \in Rows : ~BadRequest(i), pc' = "model", UNCHANGED result
      PROVE  SolveInv'
  <2>1. Sorted' /\ OnlyConsistentSearched'
    BY <1>1, <1>4, SameSorted DEF Sorted, OnlyConsistentSearched, Reached, Answered
  <2>2. OnlyCheckedSearched'
    BY <1>1, <1>4, SameProblem DEF OnlyCheckedSearched, Inv, Reached, Answered
  <2> QED BY <1>1, <1>4, <2>1, <2>2, ProceedInv
<1>5. \/ \E i \in Rows :
           /\ BadRequest(i)
           /\ Fail("invalid_request", requests[i].key, FaultOf(requests[i].config))
      \/ (\A i \in Rows : ~BadRequest(i)) /\ Proceed("model")
  BY DEF CheckRequests, IsFirst
<1> QED BY <1>3, <1>4, <1>5 DEF Proceed

\* A request that is refused for its pin names none.
LEMMA CheckPinsInv == ASSUME SolveInv, CheckPins PROVE SolveInv'
<1>1. /\ pc = "pins" /\ UNCHANGED <<requests, model, unit, eligible>>
      /\ UNCHANGED <<candidates, resources, reservations>>
      /\ Inv /\ requests \in Seq(Request)
  BY DEF CheckPins, SolveInv, Inv, TypeOK, model
<1>2. \A i \in Rows : requests[i].key \in Nat \X Nat /\ requests[i].key # NoKey
  <2>1. \A i \in Rows : requests[i].key \in Nat \X Nat /\ ~BadIdentity(i)
    BY <1>1, RowsAre DEF Inv, OnlyCheckedSearched, Reached, Answered
  <2> QED BY <2>1 DEF BadIdentity, Nameless, NoKey
<1>3. ASSUME NEW i \in Rows, NotOnPin(i), Fail("model_error", requests[i].key, 0)
      PROVE  SolveInv'
  <2>1. "model_error" \in Refusals /\ 0 \in Nat
    BY DEF Refusals
  <2>2. /\ Inv' /\ PlanIsSound' /\ PlanIsPreferred' /\ pc' = "done"
        /\ status' = "model_error" /\ blamed' = requests[i].key
    BY <1>1, <1>2, <1>3, <2>1, FailInv
  <2>3. requests[i] \in ToSet(requests')
    BY <1>1 DEF ToSet, Rows
  <2>4. blamed' # NoKey
        /\ \E r \in {s \in ToSet(requests') : s.key = blamed'} : ~IsKind(r.config.pin, "pin")'
    <3>1. ~(\E r \in ToSet(resources') : r.id = requests[i].config.pin /\ r.kind = "pin")
      BY <1>1, <1>3 DEF NotOnPin, IsKind
    <3> QED BY <1>2, <2>2, <2>3, <3>1 DEF IsKind
  <2>5. RefusalIsJustified'
    BY <2>2, <2>4 DEF RefusalIsJustified, Answered
  <2> QED BY <2>2, <2>5 DEF SolveInv, Promises
<1>4. ASSUME pc' = "group", UNCHANGED result
      PROVE  SolveInv'
  <2>1. Sorted' /\ OnlyConsistentSearched'
    BY <1>1, <1>4, SameSorted DEF Sorted, OnlyConsistentSearched, Reached, Answered
  <2>2. OnlyCheckedSearched'
    BY <1>1, <1>4, SameProblem DEF OnlyCheckedSearched, Inv, Reached, Answered
  <2> QED BY <1>1, <1>4, <2>1, <2>2, ProceedInv
<1>5. \/ \E i \in Rows : NotOnPin(i) /\ Fail("model_error", requests[i].key, 0)
      \/ Proceed("group")
  BY DEF CheckPins, IsFirst
<1> QED BY <1>3, <1>4, <1>5 DEF Proceed

\* Requests of which none is bad by name have different keys.
LEMMA NoneTwice ==
  ASSUME requests \in Seq(Request), NEW i \in Rows, NEW j \in Rows, i # j,
         ~BadIdentity(i)
  PROVE  requests[i].key # requests[j].key
<1> SUFFICES ASSUME requests[i].key = requests[j].key PROVE FALSE
  OBVIOUS
<1>0. IsFiniteSet(Rows)
  BY RowsAre
<1> DEFINE S == {h \in Rows : requests[h].key = requests[i].key}
<1>1. {i} \cup {j} \subseteq S /\ S \in SUBSET Rows
  OBVIOUS
<1>2. IsFiniteSet(S)
  BY <1>0, <1>1, FS_Subset
<1>3. IsFiniteSet({i}) /\ Cardinality({i}) = 1
  BY FS_Singleton
<1>4. Cardinality({i} \cup {j}) = Cardinality({i}) + 1
  <2>1. j \notin {i}
    OBVIOUS
  <2> QED BY <1>3, <2>1, FS_AddElement
<1>5. Cardinality({i} \cup {j}) <= Cardinality(S)
  BY <1>1, <1>2, FS_Subset
<1>6. ~(Cardinality(S) > 1)
  BY DEF BadIdentity, Occurrences
<1>7. Cardinality(S) \in Nat
  BY <1>2, FS_CardinalityType
<1> DEFINE one == {i}
           both == {i} \cup {j}
<1>8. Cardinality(both) = Cardinality(one) + 1 /\ Cardinality(one) = 1
      /\ Cardinality(both) <= Cardinality(S)
  BY <1>3, <1>4, <1>5
<1> HIDE DEF S, one, both
<1> QED BY <1>6, <1>7, <1>8

\* Requests that are sorted and differ are in strictly growing order.
LEMMA SortedIsKeyed ==
  ASSUME requests \in Seq(Request), \A i \in Rows : ~BadIdentity(i),
         \A i, j \in Rows : i < j => ~Precedes(requests[j].key, requests[i].key)
  PROVE  Keyed /\ \A i, j \in Rows : i # j => requests[i].key # requests[j].key
<1>1. /\ IsFiniteSet(Rows) /\ \A i \in Rows : i \in Nat
      /\ \A i \in Rows : /\ requests[i].key \in Nat \X Nat
                         /\ requests[i].key[1] \in Nat /\ requests[i].key[2] \in Nat
  BY RowsAre DEF Name
<1>2. ASSUME NEW i \in Rows, NEW j \in Rows, i # j
      PROVE  requests[i].key # requests[j].key
  BY <1>2, NoneTwice
<1>3. ASSUME NEW i \in Rows, NEW j \in Rows, i < j
      PROVE  Precedes(requests[i].key, requests[j].key)
  <2> DEFINE k == requests[i].key
             l == requests[j].key
  <2>1. k # l /\ ~Precedes(l, k)
    BY <1>1, <1>2, <1>3
  <2>2. /\ k \in Nat \X Nat /\ l \in Nat \X Nat
        /\ k[1] \in Nat /\ k[2] \in Nat /\ l[1] \in Nat /\ l[2] \in Nat
    BY <1>1
  <2> HIDE DEF k, l
  <2>3. k[1] # l[1] \/ k[2] # l[2]
    BY <2>1, <2>2
  <2>4. /\ Precedes(l, k) <=> l[1] < k[1] \/ (l[1] = k[1] /\ l[2] < k[2])
        /\ Precedes(k, l) <=> k[1] < l[1] \/ (k[1] = l[1] /\ k[2] < l[2])
    BY <2>2, KeysCompare
  <2>5. Precedes(k, l)
    BY <2>1, <2>2, <2>3, <2>4
  <2> QED BY <2>5 DEF k, l
<1> QED BY <1>2, <1>3 DEF Keyed

\* The parts of the model, if the candidates are replaced.
LEMMA NewCandidates ==
  ASSUME UNCHANGED <<requests, resources, reservations>>, PartsValid, Columns' = Columns,
         \A c \in Columns : CandidateValid(candidates'[c])
  PROVE  PartsValid'
<1>1. TreeValid' /\ ReservationsValid'
  BY DEF PartsValid, TreeValid, ReservationsValid, IsKind, Descendant, Overlaps
<1>2. ASSUME NEW c \in Columns PROVE CandidateValid(candidates[c])'
  <2>1. CandidateValid(candidates'[c])
    OBVIOUS
  <2> QED BY <2>1 DEF CandidateValid, EndpointValid, IsKind, Descendant, Rows
<1> QED BY <1>1, <1>2 DEF PartsValid

\* The model is refused if it is bad, and sorted canonically if it is not.
LEMMA NormalizeModelInv == ASSUME SolveInv, NormalizeModel PROVE SolveInv'
<1>1. /\ pc = "model" /\ UNCHANGED <<requests, resources, reservations, ample, unit, eligible>>
      /\ Inv /\ TypeOK /\ eligible = <<>> /\ status = "success"
      /\ \A i \in Rows : ~BadIdentity(i) /\ ~BadRequest(i)
      /\ \A i, j \in Rows : i < j => ~Precedes(requests[j].key, requests[i].key)
  BY DEF NormalizeModel, SolveInv, Inv, Staged, OnlyCheckedSearched, Sorted, Reached, Answered
<1>2. /\ candidates \in Seq(Candidate) /\ requests \in Seq(Request)
      /\ Columns = 1 .. Len(candidates) /\ Len(candidates) \in Nat
      /\ \A c \in Columns : candidates[c] \in Candidate
  BY <1>1 DEF TypeOK, Columns
<1>3. ASSUME ModelValid, NEW order \in Orders(Columns),
             candidates' = [c \in Columns |-> CanonicalModel[order[c]]],
             InOrder(candidates'), Proceed("pins")
      PROVE  SolveInv'
  <2>1. order \in [Columns -> Columns]
    BY DEF Orders, Rearranges
  <2>2. /\ PartsValid
        /\ \A c, d \in Columns : Consistent(CanonicalModel[c], CanonicalModel[d])
        /\ \A c \in Columns : CandidateValid(candidates[c])
    BY <1>3 DEF ModelValid, PartsValid
  <2>3. \A c \in Columns :
          /\ CanonicalModel[c] \in Candidate
          /\ CandidateValid(CanonicalModel[c])
          /\ Arranged(CanonicalModel[c])
    BY <1>2, <2>2, CanonicalIs DEF CanonicalModel
  <2>4. \A c \in Columns : candidates'[c] = CanonicalModel[order[c]] /\ order[c] \in Columns
    BY <1>3, <2>1
  <2>5. /\ \A c \in Columns : /\ candidates'[c] \in Candidate
                              /\ CandidateValid(candidates'[c])
                              /\ Arranged(candidates'[c])
        /\ \A c, d \in Columns : Consistent(candidates'[c], candidates'[d])
    BY <2>2, <2>3, <2>4
  <2>6. candidates' \in Seq(Candidate) /\ Columns' = Columns
    <3>1. DOMAIN candidates' = Columns
      BY <1>3
    <3>2. candidates' = [c \in Columns |-> candidates'[c]]
      BY <1>3
    <3>3. candidates' \in [1 .. Len(candidates) -> Candidate]
      BY <1>2, <2>5, <3>2
    <3> QED BY <1>2, <3>1, <3>3 DEF Columns
  <2>7. /\ pc' = "pins" /\ UNCHANGED <<status, blamed, detail, plan>>
    BY <1>3 DEF Proceed, result
  <2>8. TypeOK'
    <3>1. eligible' \in Seq(SUBSET Columns')
      BY <1>1
    <3>2. plan' \in [Rows' -> Nat]
      BY <1>1, <2>7 DEF TypeOK, Rows
    <3> QED BY <1>1, <2>6, <2>7, <3>1, <3>2 DEF TypeOK
  <2>9. Sorted'
    BY <1>1, <1>3 DEF Sorted, Rows
  <2>10. OnlyConsistentSearched'
    <3>1. \A a, b \in ToSet(candidates') :
            a \in Candidate /\ b \in Candidate /\ Consistent(a, b)
      BY <2>5, <2>6 DEF ToSet, Columns
    <3>2. \A a, b \in ToSet(candidates') :
            /\ a.key = b.key => SameCandidate(a, b)
            /\ <<a.timer, a.configuration>> = <<b.timer, b.configuration>> => SameSetting(a, b)
      BY <3>1, ConsistentIsUncontradicted
    <3>3. ~Contradiction'
      BY <3>2 DEF Contradiction
    <3>4. \A i, j \in Rows : i # j => requests[i].key # requests[j].key
      BY <1>1, <1>2, SortedIsKeyed
    <3> QED BY <1>1, <3>3, <3>4 DEF OnlyConsistentSearched, Rows
  <2>11. OnlyCheckedSearched'
    <3>1. PartsValid'
      BY <1>1, <2>2, <2>5, <2>6, NewCandidates
    <3>2. /\ Rows' = Rows
          /\ \A i : (BadIdentity(i)' <=> BadIdentity(i)) /\ (BadRequest(i)' <=> BadRequest(i))
      BY <1>1 DEF BadIdentity, Nameless, Occurrences, BadRequest, Rows
    <3>3. /\ \A c \in Columns' : Arranged(candidates'[c])
          /\ \A c, d \in Columns' : Consistent(candidates'[c], candidates'[d])
      BY <2>5, <2>6
    <3> QED BY <1>1, <3>1, <3>2, <3>3 DEF OnlyCheckedSearched, Reached, Answered
  <2>12. Staged' /\ UnitsAreInstances' /\ Marked'
    BY <1>1, <2>7 DEF Staged, UnitsAreInstances, Marked
  <2> QED BY <2>7, <2>8, <2>9, <2>10, <2>11, <2>12, UnansweredPromises DEF SolveInv, Inv
<1>4. ASSUME ~ModelValid, Fail("model_error", NoKey, 0), UNCHANGED candidates
      PROVE  SolveInv'
  <2>1. "model_error" \in Refusals /\ 0 \in Nat /\ NoKey \in Nat \X Nat
    BY DEF Refusals, NoKey
  <2>2. UNCHANGED <<requests, model, unit, eligible>> /\ pc # "done"
    BY <1>1, <1>4 DEF model
  <2>3. /\ Inv' /\ PlanIsSound' /\ PlanIsPreferred' /\ pc' = "done"
        /\ status' = "model_error" /\ blamed' = NoKey
    BY <1>1, <1>4, <2>1, <2>2, FailInv
  <2>4. ~PartsValid \/ Contradiction
    <3>1. ASSUME PartsValid, ~Contradiction PROVE FALSE
      <4>1. \A c, d \in Columns : Consistent(CanonicalModel[c], CanonicalModel[d])
        BY <1>2, <3>1, UncontradictedIsConsistent DEF PartsValid
      <4> QED BY <1>4, <3>1, <4>1 DEF ModelValid
    <3> QED BY <3>1
  <2>5. ~PartsValid' \/ Contradiction'
    BY <1>1, <1>4, <2>4, SameProblem
  <2>6. RefusalIsJustified'
    BY <2>3, <2>5 DEF RefusalIsJustified, Answered, NoKey
  <2> QED BY <2>3, <2>6 DEF SolveInv, Promises
<1>5. \/ /\ ModelValid
         /\ \E order \in Orders(Columns) :
              /\ InOrder([c \in Columns |-> CanonicalModel[order[c]]])
              /\ candidates' = [c \in Columns |-> CanonicalModel[order[c]]]
         /\ Proceed("pins")
      \/ ~ModelValid /\ Fail("model_error", NoKey, 0) /\ UNCHANGED candidates
  BY DEF NormalizeModel
<1> QED BY <1>3, <1>4, <1>5

\* Grouping makes units of the instances.
LEMMA GroupInv == ASSUME SolveInv, Group PROVE SolveInv'
<1>1. /\ pc = "group" /\ pc' = "mark" /\ unit' = [i \in Rows |-> Count(i)]
      /\ UNCHANGED <<requests, candidates, resources, reservations, ample, eligible,
                     status, blamed, detail, plan>>
      /\ Inv /\ requests \in Seq(Request) /\ eligible = <<>> /\ status = "success"
      /\ \A i \in Rows : ~BadIdentity(i)
      /\ \A i, j \in Rows : i < j => ~Precedes(requests[j].key, requests[i].key)
  BY DEF Group, Proceed, model, result, SolveInv, Inv, TypeOK, Staged, OnlyCheckedSearched,
         Sorted, Reached, Answered
<1>2. Keyed
  BY <1>1, SortedIsKeyed
<1>3. /\ \A i \in Rows : Count(i) \in Nat
      /\ \A i, j \in Rows : Count(i) = Count(j) <=> Name(i) = Name(j)
  BY <1>2, CountsAreNames
<1>4. Rows' = Rows /\ Columns' = Columns
  BY <1>1 DEF Rows, Columns
<1>5. TypeOK'
  <2>1. Rows = 1 .. Len(requests) /\ Len(requests) \in Nat
    BY <1>1, RowsAre
  <2>2. unit' \in [1 .. Len(requests) -> Nat]
    BY <1>1, <1>3, <2>1
  <2>3. unit' \in Seq(Nat)
    BY <2>1, <2>2
  <2> QED BY <1>1, <1>4, <2>3 DEF Inv, TypeOK
<1>6. Sorted' /\ OnlyConsistentSearched'
  BY <1>1, SameSorted DEF Sorted, OnlyConsistentSearched, Reached, Answered
<1>7. OnlyCheckedSearched'
  BY <1>1, SameProblem DEF OnlyCheckedSearched, Inv, Reached, Answered
<1>8. Staged'
  <2>1. \A i : Count(i)' = Count(i)
    BY <1>1 DEF Count, OpenerOf, Opens, SameUnit
  <2> QED BY <1>1, <1>4, <2>1 DEF Staged
<1>9. UnitsAreInstances'
  BY <1>1, <1>3, <1>4 DEF UnitsAreInstances, Name
<1>10. Marked'
  BY <1>1 DEF Marked
<1> QED BY <1>1, <1>5, <1>6, <1>7, <1>8, <1>9, <1>10, UnansweredPromises DEF SolveInv, Inv

\* While units are marked, the problem is what it has been checked for.
LEMMA MarkedIsSettled ==
  ASSUME Inv, pc = "mark"
  PROVE  Settled
<1>1. /\ requests \in Seq(Request) /\ candidates \in Seq(Candidate)
      /\ reservations \in Seq(Nat)
      /\ \A i \in Rows : ~BadIdentity(i) /\ ~BadRequest(i)
      /\ \A i, j \in Rows : i < j => ~Precedes(requests[j].key, requests[i].key)
      /\ unit = [i \in Rows |-> Count(i)] /\ InOrder(candidates)
      /\ PartsValid /\ \A c \in Columns : Arranged(candidates[c])
      /\ \A c, d \in Columns : Consistent(candidates[c], candidates[d])
  BY DEF Inv, TypeOK, Staged, OnlyCheckedSearched, Sorted, Reached, Answered
<1>2. Grouped
  BY <1>1, SortedIsKeyed DEF Grouped
<1>3. TreeSays
  BY <1>1, TheTree DEF PartsValid
<1> QED BY <1>1, <1>2, <1>3 DEF Settled, PartsValid

\* The units marked are marked with what their instances can have.
MarkedFor(marked, o) ==
  /\ marked # {} /\ marked \subseteq Able(o)
  /\ {candidates[c] : c \in marked} = {candidates[c] : c \in Able(o)}

\* What has been marked for an instance so far.
LEMMA MarkedAre ==
  ASSUME Inv, pc = "mark", NEW i \in Rows, unit[i] \in DOMAIN eligible
  PROVE  MarkedFor(eligible[unit[i]], Name(i))
<1>1. Name(i) \in Instances
  BY DEF Name, Instances
<1> QED BY <1>1 DEF Inv, Marked, MarkedFor, Name

\* What has been marked for a unit: one of each that is able to serve it.
LEMMA MarkedUnits ==
  ASSUME Inv, pc = "mark", NEW u \in UnitsUsed, u \in DOMAIN eligible
  PROVE  /\ eligible[u] \subseteq Able(NameOf(u))
         /\ {candidates[c] : c \in eligible[u]} = {candidates[c] : c \in Able(NameOf(u))}
         /\ eligible[u] # {}
<1>1. PICK i \in Rows : unit[i] = u
  BY DEF UnitsUsed
<1>2. Settled
  BY MarkedIsSettled
<1>3. NameOf(unit[i]) = Name(i)
  BY <1>2, UnitsAreInstancesInOrder DEF Settled
<1>4. MarkedFor(eligible[u], NameOf(u))
  BY <1>1, <1>3, MarkedAre
<1> QED BY <1>4 DEF MarkedFor

\* The units are marked in their order.
LEMMA MarkedSoFar ==
  ASSUME Inv, pc = "mark"
  PROVE  /\ \A u \in UnitsUsed : u \in Nat /\ (u < Len(eligible) + 1 => u \in DOMAIN eligible)
         /\ DOMAIN eligible = 1 .. Len(eligible) /\ Len(eligible) \in Nat
         /\ Len(eligible) + 1 \notin UnitsUsed => \A u \in UnitsUsed : u < Len(eligible) + 1
<1>1. Settled /\ eligible \in Seq(SUBSET Columns)
  BY MarkedIsSettled DEF Inv, TypeOK
<1>2. PICK n \in Nat : UnitsUsed = 1 .. n
  BY <1>1, UnitsAre DEF Settled
<1>3. DOMAIN eligible = 1 .. Len(eligible) /\ Len(eligible) \in Nat
  BY <1>1
<1> QED BY <1>2, <1>3

\* The instances before the one being marked are able.
LEMMA LesserAble ==
  ASSUME Inv, pc = "mark", NEW u \in UnitsUsed,
         \A v \in UnitsUsed : v < u => v \in DOMAIN eligible
  PROVE  \A q \in Instances : q < NameOf(u) => Able(q) # {}
<1>1. Settled
  BY MarkedIsSettled
<1> SUFFICES ASSUME NEW q \in Instances, q < NameOf(u) PROVE Able(q) # {}
  OBVIOUS
<1>2. PICK v \in UnitsUsed : NameOf(v) = q
  BY <1>1, UnitsAreInstancesInOrder DEF Settled
<1>3. v < u
  BY <1>1, <1>2, UnitsAreInstancesInOrder DEF Settled
<1>4. eligible[v] \subseteq Able(NameOf(v)) /\ eligible[v] # {}
  BY <1>3, MarkedUnits
<1> QED BY <1>2, <1>4

\* After the last unit, all instances have been marked.
LEMMA NoneLeft ==
  ASSUME Inv, pc = "mark", Len(eligible) + 1 \notin UnitsUsed
  PROVE  AllMarked /\ \A o \in Instances : Able(o) # {}
<1>1. \A u \in UnitsUsed : u \in DOMAIN eligible
  BY MarkedSoFar
<1>2. AllMarked
  BY <1>1, MarkedUnits DEF AllMarked
<1>3. ASSUME NEW o \in Instances PROVE Able(o) # {}
  <2>1. PICK u \in UnitsUsed : NameOf(u) = o
    BY MarkedIsSettled, UnitsAreInstancesInOrder DEF Settled
  <2> QED BY <1>2, <2>1 DEF AllMarked
<1> QED BY <1>2, <1>3

\* One more unit is marked.
LEMMA MarkOneInv ==
  ASSUME SolveInv, pc = "mark", NEW u, u = Len(eligible) + 1, u \in UnitsUsed,
         Open(u) # {}, eligible' = Append(eligible, Open(u)),
         UNCHANGED <<requests, model, unit, pc, result>>
  PROVE  SolveInv'
<1>1. /\ UNCHANGED <<requests, candidates, resources, reservations, ample, pc, unit,
                     status, blamed, detail, plan>>
      /\ Inv /\ Settled /\ eligible \in Seq(SUBSET Columns)
  BY MarkedIsSettled DEF model, result, SolveInv, Inv, TypeOK
<1>2. /\ Rows' = Rows /\ Columns' = Columns /\ Instances' = Instances
      /\ \A o : Able(o)' = Able(o)
  BY <1>1, SameProblem
<1>3. /\ Open(u) \in SUBSET Columns /\ Open(u) \subseteq Able(NameOf(u))
      /\ {candidates[c] : c \in Open(u)} = {candidates[c] : c \in Able(NameOf(u))}
  <2>1. /\ Open(u) = {c \in Able(NameOf(u)) : ~Repeated(c)}
        /\ {candidates[c] : c \in Open(u)} = {candidates[c] : c \in Able(NameOf(u))}
    BY <1>1, FittingIs
  <2> QED BY <2>1 DEF Able, Serving
<1>4. /\ Len(eligible) \in Nat /\ u \in Nat
      /\ eligible' \in Seq(SUBSET Columns)
      /\ DOMAIN eligible' = 1 .. u
      /\ \A v \in 1 .. u : v # u => v \in DOMAIN eligible /\ eligible'[v] = eligible[v]
      /\ eligible'[u] = Open(u)
  BY <1>1, <1>3
<1>5. TypeOK'
  BY <1>1, <1>2, <1>4 DEF Inv, TypeOK
<1>6. Sorted' /\ OnlyConsistentSearched'
  BY <1>1, SameSorted DEF Sorted, OnlyConsistentSearched, Reached, Answered
<1>7. OnlyCheckedSearched'
  BY <1>1, SameProblem DEF OnlyCheckedSearched, Inv, Reached, Answered
<1>8. Staged'
  <2>1. \A i : Count(i)' = Count(i)
    BY <1>1 DEF Count, OpenerOf, Opens, SameUnit
  <2> QED BY <1>1, <1>2, <2>1 DEF Staged, Inv
<1>9. UnitsAreInstances'
  BY <1>1, <1>2 DEF UnitsAreInstances, Inv
<1>10. Marked'
  <2>1. ASSUME NEW o \in Instances, NEW i \in Rows,
               requests[i].key[1] = o, unit[i] \in DOMAIN eligible'
        PROVE  MarkedFor(eligible'[unit[i]], o)
    <3>1. CASE unit[i] = u
      <4>1. NameOf(unit[i]) = o
        BY <1>1, <2>1, UnitsAreInstancesInOrder DEF Settled, Name
      <4> QED BY <1>3, <1>4, <3>1, <4>1 DEF MarkedFor
    <3>2. CASE unit[i] # u
      <4>1. unit[i] \in DOMAIN eligible /\ eligible'[unit[i]] = eligible[unit[i]]
        BY <1>4, <2>1, <3>2
      <4>2. MarkedFor(eligible[unit[i]], o)
        BY <1>1, <2>1, <4>1, MarkedAre DEF Name
      <4> QED BY <4>1, <4>2
    <3> QED BY <3>1, <3>2
  <2>2. \A S, o : MarkedFor(S, o)' <=> MarkedFor(S, o)
    BY <1>1, <1>2 DEF MarkedFor
  <2>3. \A o \in Instances', i \in Rows' :
          requests'[i].key[1] = o /\ unit'[i] \in DOMAIN eligible' =>
            /\ eligible'[unit'[i]] # {} /\ eligible'[unit'[i]] \subseteq Able(o)'
            /\ {candidates'[c] : c \in eligible'[unit'[i]]} = {candidates'[c] : c \in Able(o)'}
    <3> SUFFICES ASSUME NEW o \in Instances', NEW i \in Rows',
                        requests'[i].key[1] = o, unit'[i] \in DOMAIN eligible',
                        NEW S, S = eligible'[unit'[i]]
                 PROVE  /\ S # {} /\ S \subseteq Able(o)'
                        /\ {candidates'[c] : c \in S} = {candidates'[c] : c \in Able(o)'}
      OBVIOUS
    <3>1. MarkedFor(S, o)
      BY <1>1, <1>2, <2>1
    <3>2. MarkedFor(S, o)'
      BY <2>2, <3>1
    <3> QED BY <3>2 DEF MarkedFor
  <2> QED BY <2>3 DEF Marked
<1> QED BY <1>1, <1>5, <1>6, <1>7, <1>8, <1>9, <1>10, UnansweredPromises DEF SolveInv, Inv

\* A unit that cannot be marked is refused for the right reason.
LEMMA RefuseOneInv ==
  ASSUME SolveInv, pc = "mark", NEW u, u = Len(eligible) + 1, u \in UnitsUsed,
         Open(u) = {}, UNCHANGED <<requests, model, unit, eligible>>,
         IF Fitting(u) = {}
         THEN Fail("no_candidate", KeyOfUnit(u), 0)
         ELSE Fail("reserved", KeyOfUnit(u), Blocker(u))
  PROVE  SolveInv'
<1> DEFINE o == NameOf(u)
           key == KeyOfUnit(u)
<1>1. /\ Inv /\ Settled
      /\ UNCHANGED <<requests, candidates, resources, reservations>>
  BY MarkedIsSettled DEF model, SolveInv
<1>2. /\ o \in Instances /\ key \in {r.key : r \in RequestsOf(o)}
      /\ \A r \in RequestsOf(o) : ~Precedes(r.key, key)
      /\ key \in Nat \X Nat
  <2>1. /\ NameOf(u) \in Instances
        /\ RequestsOf(NameOf(u)) = {requests[i] : i \in MembersOf(u)}
        /\ \A r \in RequestsOf(NameOf(u)) : ~Precedes(r.key, KeyOfUnit(u))
    BY <1>1, MembersAre DEF Settled
  <2>2. PICK i \in MembersOf(u) : KeyOfUnit(u) = requests[i].key
    BY <1>1, MembersAre DEF Settled
  <2>3. requests[i].key \in Nat \X Nat
    BY <1>1, <2>2, RowsAre DEF Inv, TypeOK, MembersOf
  <2> QED BY <2>1, <2>2, <2>3
<1>3. Able(o) = {} /\ \A q \in Instances : q < o => Able(q) # {}
  <2>1. Able(NameOf(u)) = {}
    BY <1>1, FittingIs
  <2>2. \A v \in UnitsUsed : v < u => v \in DOMAIN eligible
    BY <1>1, MarkedSoFar
  <2> QED BY <1>1, <2>1, <2>2, LesserAble
<1>4. /\ Instances' = Instances
      /\ \A q : /\ Serving(q)' = Serving(q) /\ Able(q)' = Able(q)
                /\ InTheWay(q)' = InTheWay(q) /\ RequestsOf(q)' = RequestsOf(q)
  BY <1>1, SameProblem
<1>5. CASE Fitting(u) = {}
  <2>1. Serving(o) = {}
    BY <1>1, <1>5, FittingIs
  <2>2. "no_candidate" \in Refusals /\ 0 \in Nat
    BY DEF Refusals
  <2>3. /\ Inv' /\ PlanIsSound' /\ PlanIsPreferred' /\ pc' = "done"
        /\ status' = "no_candidate" /\ blamed' = key
    BY <1>1, <1>2, <1>5, <2>2, FailInv
  <2>4. \E q \in Instances' :
          /\ blamed' \in {r.key : r \in RequestsOf(q)'}
          /\ \A r \in RequestsOf(q)' : ~Precedes(r.key, blamed')
          /\ Able(q)' = {} /\ \A p \in Instances' : p < q => Able(p)' # {}
          /\ status' = "no_candidate" <=> Serving(q)' = {}
          /\ status' # "reserved"
    <3> HIDE DEF o, key
    <3> QED BY <1>2, <1>3, <1>4, <2>1, <2>3
  <2>5. RefusalIsJustified'
    BY <2>3, <2>4 DEF RefusalIsJustified, Answered
  <2> QED BY <2>3, <2>5 DEF SolveInv, Promises
<1>6. CASE Fitting(u) # {}
  <2>1. /\ Serving(o) # {} /\ Blocker(u) \in Nat
        /\ Blocker(u) \in InTheWay(o) /\ \A r \in InTheWay(o) : Blocker(u) <= r
    BY <1>1, <1>6, FittingIs, BlockerIs
  <2>2. "reserved" \in Refusals
    BY DEF Refusals
  <2>3. /\ Inv' /\ PlanIsSound' /\ PlanIsPreferred' /\ pc' = "done"
        /\ status' = "reserved" /\ blamed' = key /\ detail' = Blocker(u)
    BY <1>1, <1>2, <1>6, <2>1, <2>2, FailInv
  <2>4. \E q \in Instances' :
          /\ blamed' \in {r.key : r \in RequestsOf(q)'}
          /\ \A r \in RequestsOf(q)' : ~Precedes(r.key, blamed')
          /\ Able(q)' = {} /\ \A p \in Instances' : p < q => Able(p)' # {}
          /\ status' = "no_candidate" <=> Serving(q)' = {}
          /\ detail' \in InTheWay(q)' /\ \A r \in InTheWay(q)' : detail' <= r
    <3> HIDE DEF o, key
    <3> QED BY <1>2, <1>3, <1>4, <2>1, <2>3
  <2>5. RefusalIsJustified'
    BY <2>3, <2>4 DEF RefusalIsJustified, Answered
  <2> QED BY <2>3, <2>5 DEF SolveInv, Promises
<1> QED BY <1>5, <1>6

\* A round of the loop keeps the invariant, or refuses with reason.
LEMMA MarkInv == ASSUME SolveInv, Mark PROVE SolveInv'
<1> DEFINE u == Len(eligible) + 1
<1>1. /\ pc = "mark" /\ u \in UnitsUsed /\ UNCHANGED <<requests, model, unit>>
      /\ \/ /\ Open(u) # {} /\ eligible' = Append(eligible, Open(u))
            /\ UNCHANGED <<pc, result>>
         \/ /\ Open(u) = {} /\ UNCHANGED eligible
            /\ IF Fitting(u) = {}
               THEN Fail("no_candidate", KeyOfUnit(u), 0)
               ELSE Fail("reserved", KeyOfUnit(u), Blocker(u))
  BY DEF Mark
<1>2. CASE /\ Open(u) # {} /\ eligible' = Append(eligible, Open(u))
           /\ UNCHANGED <<pc, result>>
  BY <1>1, <1>2, MarkOneInv
<1>3. CASE /\ Open(u) = {} /\ UNCHANGED eligible
           /\ IF Fitting(u) = {}
              THEN Fail("no_candidate", KeyOfUnit(u), 0)
              ELSE Fail("reserved", KeyOfUnit(u), Blocker(u))
  BY <1>1, <1>3, RefuseOneInv
<1> QED BY <1>1, <1>2, <1>3

\* The plan of a way of the search.
PlanOf(s) == [i \in Rows |-> candidates[s[unit[i]]].key]

\* Each row has a unit, and each instance a row.
LEMMA RowsHaveUnits ==
  ASSUME Settled
  PROVE  /\ \A i \in Rows : /\ unit[i] \in UnitsUsed /\ Name(i) \in Instances
                            /\ UnitOf(Name(i)) = unit[i] /\ NameOf(unit[i]) = Name(i)
         /\ \A u \in UnitsUsed : \E i \in Rows : unit[i] = u
<1>1. \A i \in Rows : unit[i] \in UnitsUsed
  BY DEF UnitsUsed
<1>2. \A u \in UnitsUsed : \E i \in Rows : unit[i] = u
  BY DEF UnitsUsed
<1>3. \A i \in Rows : Name(i) \in Instances /\ UnitOf(Name(i)) = unit[i]
  BY UnitOfInstance DEF Settled
<1>4. \A i \in Rows : NameOf(unit[i]) = Name(i)
  BY UnitsAreInstancesInOrder DEF Settled
<1> QED BY <1>1, <1>2, <1>3, <1>4

\* The keys of a plan tell the values of the candidates.
LEMMA KeysTell ==
  ASSUME Settled, NEW s \in SearchWays, NEW a \in Assignments,
         \A i \in Rows : PlanOf(s)[i] = candidates[a[Name(i)]].key
  PROVE  \A u \in UnitsUsed : candidates[s[u]] = candidates[a[NameOf(u)]]
<1> SUFFICES ASSUME NEW u \in UnitsUsed
             PROVE  candidates[s[u]] = candidates[a[NameOf(u)]]
  OBVIOUS
<1>1. PICK i \in Rows : unit[i] = u
  BY RowsHaveUnits
<1>2. Name(i) = NameOf(u) /\ NameOf(u) \in Instances
  BY <1>1, RowsHaveUnits
<1>3. candidates[s[u]].key = candidates[a[NameOf(u)]].key
  BY <1>1, <1>2 DEF PlanOf
<1>4. s[u] \in Columns /\ a[NameOf(u)] \in Columns
  BY <1>2 DEF SearchWays, Assignments
<1>5. Consistent(candidates[s[u]], candidates[a[NameOf(u)]])
  BY <1>4 DEF Settled
<1> QED BY <1>3, <1>5 DEF Consistent

\* No assignment does better than the first way of the search.
LEMMA FirstIsPreferred ==
  ASSUME Settled, AllMarked, NEW s \in SearchWays, ComesFirst(s, SearchWays),
         NEW a \in Assignments, NEW b \in Assignments, NEW o \in Instances,
         \A i \in Rows : PlanOf(s)[i] = candidates[a[Name(i)]].key,
         \A q \in Instances : q < o => candidates[a[q]] = candidates[b[q]]
  PROVE  ~CandidateLess(candidates[b[o]], candidates[a[o]])
<1>1. PICK w \in UnitsUsed : NameOf(w) = o
  BY UnitsAreInstancesInOrder DEF Settled
<1>2. \A u \in UnitsUsed : candidates[s[u]] = candidates[a[NameOf(u)]]
  BY KeysTell
<1>3. \A u \in UnitsUsed : u < w => candidates[s[u]] = candidates[b[NameOf(u)]]
  <2> SUFFICES ASSUME NEW u \in UnitsUsed, u < w
               PROVE  candidates[s[u]] = candidates[b[NameOf(u)]]
    OBVIOUS
  <2>1. NameOf(u) \in Instances /\ NameOf(u) < o
    BY <1>1, UnitOfInstance, UnitsAreInstancesInOrder DEF Settled
  <2> QED BY <1>2, <2>1
<1>4. PICK t \in SearchWays :
        /\ \A u \in UnitsUsed : u < w => t[u] = s[u]
        /\ \A u \in UnitsUsed : candidates[t[u]] = candidates[b[NameOf(u)]]
  BY <1>3, WayOfValues
<1>5. DOMAIN s = UnitsUsed /\ s[w] \in Columns /\ t[w] \in Columns
  BY DEF SearchWays
<1>6. s[w] <= t[w]
  BY <1>4, <1>5 DEF ComesFirst
<1>7. candidates[s[w]] = candidates[a[o]] /\ candidates[t[w]] = candidates[b[o]]
  BY <1>1, <1>2, <1>4
<1>8. Columns \subseteq Nat \ {0} /\ candidates[t[w]] \in Candidate
  <2>1. candidates \in Seq(Candidate)
    BY DEF Settled
  <2> QED BY <1>5, <2>1 DEF Columns
<1>9. CASE s[w] = t[w]
  BY <1>7, <1>8, <1>9, NotLessThanItself
<1>10. CASE s[w] # t[w]
  <2> DEFINE x == s[w]
             y == t[w]
  <2>a. x \in Nat \ {0} /\ y \in Nat \ {0} /\ x <= y /\ x # y
    BY <1>5, <1>6, <1>8, <1>10
  <2> HIDE DEF x, y
  <2>b. x \in 1 .. (y - 1)
    BY <2>a
  <2>1. s[w] \in 1 .. (t[w] - 1)
    BY <2>b DEF x, y
  <2>2. ~CandidateLess(candidates[t[w]], candidates[s[w]])
    BY <1>5, <2>1 DEF Settled, InOrder, Columns
  <2> QED BY <1>7, <2>2
<1> QED BY <1>9, <1>10

\* The first way of the search is an assignment, and the preferred one.
LEMMA SelectedInv ==
  ASSUME SolveInv, pc = "mark", Len(eligible) + 1 \notin UnitsUsed,
         UNCHANGED <<requests, model, unit, eligible>>,
         NEW s \in SearchWays, ComesFirst(s, SearchWays), plan' = PlanOf(s),
         pc' = "done", UNCHANGED <<status, blamed, detail>>
  PROVE  SolveInv'
<1>1. /\ UNCHANGED <<requests, candidates, resources, reservations, ample, unit, eligible,
                     status, blamed, detail>>
      /\ Inv /\ Settled /\ AllMarked /\ candidates \in Seq(Candidate)
  BY MarkedIsSettled, NoneLeft DEF model, SolveInv, Settled
<1>2. Instances' = Instances /\ Assignments' = Assignments /\ Rows' = Rows /\ Columns' = Columns
  BY <1>1, SameProblem
<1>3. plan' \in [Rows' -> Nat]
  <2>1. ASSUME NEW i \in Rows PROVE candidates[s[unit[i]]].key \in Nat
    <3>1. s[unit[i]] \in Columns
      BY <1>1, RowsHaveUnits DEF SearchWays
    <3>2. candidates[s[unit[i]]] \in Candidate
      BY <1>1, <3>1 DEF Columns
    <3> QED BY <3>2, CandidateFields
  <2> QED BY <1>2, <2>1 DEF PlanOf
<1>4. TypeOK'
  BY <1>1, <1>2, <1>3 DEF Inv, TypeOK
<1>5. Sorted' /\ OnlyConsistentSearched'
  BY <1>1, SameSorted DEF Sorted, OnlyConsistentSearched, Reached, Answered
<1>6. Staged' /\ UnitsAreInstances' /\ Marked'
  BY DEF Staged, UnitsAreInstances, Marked
<1>a. OnlyCheckedSearched'
  BY <1>1, SameProblem DEF OnlyCheckedSearched, Inv, Reached, Answered
<1>7. PlanIsSound'
  <2>1. AssignmentOf(s) \in Assignments
    BY <1>1, WayAssigns
  <2>2. \A i \in Rows : AssignmentOf(s)[requests[i].key[1]] = s[unit[i]]
    BY <1>1, RowsHaveUnits DEF AssignmentOf, Name
  <2>3. \A i \in Rows : plan'[i] = candidates[AssignmentOf(s)[requests[i].key[1]]].key
    BY <2>2 DEF PlanOf
  <2>4. PICK a \in Assignments :
          \A i \in Rows : plan'[i] = candidates[a[requests[i].key[1]]].key
    BY <2>1, <2>3
  <2> QED BY <1>1, <1>2, <2>4 DEF PlanIsSound
<1>8. PlanIsPreferred'
  <2> SUFFICES ASSUME NEW a \in Assignments, NEW b \in Assignments,
                      \A i \in Rows : plan'[i] = candidates[a[requests[i].key[1]]].key,
                      NEW o \in Instances,
                      \A q \in Instances : q < o => candidates[a[q]] = candidates[b[q]]
               PROVE  ~CandidateLess(candidates[b[o]], candidates[a[o]])
    BY <1>1, <1>2 DEF PlanIsPreferred
  <2>1. \A i \in Rows : PlanOf(s)[i] = candidates[a[Name(i)]].key
    BY DEF Name
  <2> QED BY <1>1, <2>1, FirstIsPreferred
<1>9. status' = "success"
  BY <1>1 DEF Inv, Staged
<1>10. RefusalIsJustified'
  BY <1>9 DEF RefusalIsJustified, Answered
<1> QED BY <1>4, <1>5, <1>6, <1>a, <1>7, <1>8, <1>10 DEF SolveInv, Inv, Promises

\* Search answers the preferred plan, or says truly why there is none.
LEMMA SearchInv == ASSUME SolveInv, Search PROVE SolveInv'
<1>1. /\ pc = "mark" /\ Len(eligible) + 1 \notin UnitsUsed /\ Inv
      /\ UNCHANGED <<requests, model, unit, eligible>>
      /\ UNCHANGED <<candidates, resources, reservations, ample>>
      /\ \/ \E s \in SearchWays :
              /\ ComesFirst(s, SearchWays)
              /\ plan' = PlanOf(s)
              /\ pc' = "done"
              /\ UNCHANGED <<status, blamed, detail>>
         \/ SearchWays = {} /\ Fail("conflict", NoKey, 0)
         \/ ~ample /\ Fail("exhausted", NoKey, 0)
  BY TheWays DEF Search, SolveInv, model, PlanOf
<1>2. CASE \E s \in SearchWays :
             /\ ComesFirst(s, SearchWays)
             /\ plan' = PlanOf(s)
             /\ pc' = "done"
             /\ UNCHANGED <<status, blamed, detail>>
  BY <1>1, <1>2, SelectedInv
<1>3. Settled /\ AllMarked /\ \A o \in Instances : Able(o) # {}
  BY <1>1, MarkedIsSettled, NoneLeft
<1>4. /\ Assignments' = Assignments /\ Instances' = Instances
      /\ \A o : Able(o)' = Able(o)
  BY <1>1, SameProblem
<1>5. \A o \in Instances' : Able(o)' # {}
  BY <1>3, <1>4
<1>6. NoKey \in Nat \X Nat /\ 0 \in Nat /\ {"conflict", "exhausted"} \subseteq Refusals
  BY DEF NoKey, Refusals
<1>7. CASE SearchWays = {} /\ Fail("conflict", NoKey, 0)
  <2>1. /\ Inv' /\ PlanIsSound' /\ PlanIsPreferred'
        /\ pc' = "done" /\ status' = "conflict"
    BY <1>1, <1>6, <1>7, FailInv
  <2>2. Assignments = {}
    <3>1. ASSUME NEW a \in Assignments PROVE FALSE
      BY <1>3, <1>7, SomeWay
    <3> QED BY <3>1
  <2>3. RefusalIsJustified'
    BY <1>4, <1>5, <2>1, <2>2 DEF RefusalIsJustified, Answered
  <2> QED BY <2>1, <2>3 DEF SolveInv, Promises
<1>8. CASE ~ample /\ Fail("exhausted", NoKey, 0)
  <2>1. /\ Inv' /\ PlanIsSound' /\ PlanIsPreferred'
        /\ pc' = "done" /\ status' = "exhausted"
    BY <1>1, <1>6, <1>8, FailInv
  <2>2. ~ample'
    BY <1>1, <1>8
  <2>3. RefusalIsJustified'
    BY <1>5, <2>1, <2>2 DEF RefusalIsJustified, Answered
  <2> QED BY <2>1, <2>3 DEF SolveInv, Promises
<1> QED BY <1>1, <1>2, <1>7, <1>8

\* Together, for calls with any requests.
LEMMA SolveStepInv == ASSUME SolveInv, Solve PROVE SolveInv'
<1>1. CASE SortRequests
  BY <1>1, SortRequestsInv
<1>2. CASE CheckIdentities
  BY <1>2, CheckIdentitiesInv
<1>3. CASE CheckRequests
  BY <1>3, CheckRequestsInv
<1>4. CASE NormalizeModel
  BY <1>4, NormalizeModelInv
<1>5. CASE CheckPins
  BY <1>5, CheckPinsInv
<1>6. CASE Group
  BY <1>6, GroupInv
<1>7. CASE Mark
  BY <1>7, MarkInv
<1>8. CASE Search
  BY <1>8, SearchInv
<1> QED BY <1>1, <1>2, <1>3, <1>4, <1>5, <1>6, <1>7, <1>8 DEF Solve

\* Every step of solve keeps the invariant.
LEMMA NextInv == SolveInv /\ [Next]_vars => SolveInv'
<1> SUFFICES ASSUME SolveInv, [Next]_vars PROVE SolveInv'
  OBVIOUS
<1>1. ASSUME NEW list \in RequestLists, Call(list) PROVE SolveInv'
  <2>1. list \in Seq(Request)
    BY ProblemAssumption
  <2> QED BY <1>1, <2>1, CallInv
<1>2. CASE Solve
  BY <1>2, SolveStepInv
<1>3. CASE Returned
  BY <1>3, StutterInv DEF Returned
<1>4. CASE UNCHANGED vars
  BY <1>4, StutterInv
<1> QED BY <1>1, <1>2, <1>3, <1>4 DEF Next

\* The invariant of solve by itself, called by anyone.
LEMMA SolveInvariant == Spec => []SolveInv
<1>1. Init => SolveInv
  BY InitInv
<1>2. SolveInv /\ [Next]_vars => SolveInv'
  BY NextInv
<1> QED BY <1>1, <1>2, PTL DEF Spec

-----------------------------------------------------------------------------
(* What one option adds to a set of options. *)

\* The types of an option's fields, by its kind.
LEMMA OptionFields ==
  ASSUME NEW o \in Option
  PROVE  /\ o.kind \in {"unknown", "apb_clock", "frequency", "duty_step", "pin", "counter_bits",
                        "require_timer", "avr_waveform", "avr_source"}
         /\ o.sections \in SUBSET Targets
         /\ o.kind = "frequency" => o.supported \in BOOLEAN /\ o.rate \in Ratio /\ o.ppm \in Nat
         /\ o.kind = "duty_step" => o.step \in Ratio
         /\ o.kind = "pin" => o.pin \in Nat
         /\ o.kind = "counter_bits" => o.bits \in Nat
         /\ o.kind = "require_timer" => o.timer \in Nat
         /\ o.kind = "avr_waveform" => o.waveform \in {"fast", "phase_correct"}
         /\ o.kind = "avr_source" => o.source \in {"icr", "built_in", "ocra"}
BY DEF Option

\* The types of a Config's fields.
LEMMA ConfigFields ==
  ASSUME NEW c \in Config
  PROVE  /\ c.frequency \in Window /\ c.step \in Ratio /\ c.pin \in Nat
         /\ c.waveform \in {"any", "fast", "phase_correct"}
         /\ c.source \in {"any", "icr", "apb", "built_in", "ocra"}
         /\ c.required_timer \in Nat /\ c.counter_bits_at_least \in Nat
         /\ c.error \in {"none", "invalid_value", "unsupported_option", "conflict"}
BY DEF Config, Errors, Rank

\* Two Configs that differ in one field at most, and in their errors.
SameBut(field, c, d) ==
  /\ field # "frequency" => c.frequency = d.frequency
  /\ field # "step" => c.step = d.step
  /\ field # "pin" => c.pin = d.pin
  /\ field # "waveform" => c.waveform = d.waveform
  /\ field # "source" => c.source = d.source
  /\ field # "required_timer" => c.required_timer = d.required_timer
  /\ field # "counter_bits_at_least" => c.counter_bits_at_least = d.counter_bits_at_least

\* Config::fail changes the error only, to the worse of two.
LEMMA FailedIs ==
  ASSUME NEW c \in Config, NEW e \in {"invalid_value", "unsupported_option", "conflict"}
  PROVE  /\ Failed(c, e) \in Config /\ SameBut("error", Failed(c, e), c)
         /\ Failed(c, e).error = IF Rank[e] > Rank[c.error] THEN e ELSE c.error
         /\ Failed(c, "conflict").error = "conflict"
<1>1. /\ [c EXCEPT !.error = e] \in Config
      /\ SameBut("error", [c EXCEPT !.error = e], c) /\ SameBut("error", c, c)
      /\ [c EXCEPT !.error = e].error = e
  BY DEF Config, Errors, Rank, SameBut
<1>2. /\ [c EXCEPT !.error = "conflict"].error = "conflict"
      /\ c.error \in {"none", "invalid_value", "unsupported_option", "conflict"}
  BY ConfigFields DEF Config
<1>3. Failed(c, "conflict").error = "conflict"
  BY <1>2 DEF Failed, Rank
<1> QED BY <1>1, <1>3 DEF Failed

\* A field that is named gets the value named, and an error if it had another.
LEMMA MergedPin ==
  ASSUME NEW c \in Config, NEW v \in Nat
  PROVE  LET d == Merged(c, "pin", 0, v)
         IN  /\ d \in Config /\ d.pin = v /\ SameBut("pin", d, c)
             /\ d.error = IF c.pin \in {0, v} THEN c.error ELSE "conflict"
<1> DEFINE f == IF c.pin \notin {0, v} THEN Failed(c, "conflict") ELSE c
<1>1. /\ f \in Config /\ SameBut("error", f, c)
      /\ f.error = IF c.pin \in {0, v} THEN c.error ELSE "conflict"
  BY FailedIs DEF SameBut
<1>2. Merged(c, "pin", 0, v) = [f EXCEPT !.pin = v]
  BY DEF Merged
<1> HIDE DEF f
<1> QED BY <1>1, <1>2 DEF Config, SameBut

\* Merging a timer.
LEMMA MergedTimer ==
  ASSUME NEW c \in Config, NEW v \in Nat
  PROVE  LET d == Merged(c, "required_timer", 0, v)
         IN  /\ d \in Config /\ d.required_timer = v /\ SameBut("required_timer", d, c)
             /\ d.error = IF c.required_timer \in {0, v} THEN c.error ELSE "conflict"
<1> DEFINE f == IF c.required_timer \notin {0, v} THEN Failed(c, "conflict") ELSE c
<1>1. /\ f \in Config /\ SameBut("error", f, c)
      /\ f.error = IF c.required_timer \in {0, v} THEN c.error ELSE "conflict"
  BY FailedIs DEF SameBut
<1>2. Merged(c, "required_timer", 0, v) = [f EXCEPT !.required_timer = v]
  BY DEF Merged
<1> HIDE DEF f
<1> QED BY <1>1, <1>2 DEF Config, SameBut

\* Merging a waveform.
LEMMA MergedWaveform ==
  ASSUME NEW c \in Config, NEW v \in {"fast", "phase_correct"}
  PROVE  LET d == Merged(c, "waveform", "any", v)
         IN  /\ d \in Config /\ d.waveform = v /\ SameBut("waveform", d, c)
             /\ d.error = IF c.waveform \in {"any", v} THEN c.error ELSE "conflict"
<1> DEFINE f == IF c.waveform \notin {"any", v} THEN Failed(c, "conflict") ELSE c
<1>1. /\ f \in Config /\ SameBut("error", f, c)
      /\ f.error = IF c.waveform \in {"any", v} THEN c.error ELSE "conflict"
  BY FailedIs DEF SameBut
<1>2. Merged(c, "waveform", "any", v) = [f EXCEPT !.waveform = v]
  BY DEF Merged
<1> HIDE DEF f
<1> QED BY <1>1, <1>2 DEF Config, SameBut

\* Merging a source.
LEMMA MergedSource ==
  ASSUME NEW c \in Config, NEW v \in {"icr", "apb", "built_in", "ocra"}
  PROVE  LET d == Merged(c, "source", "any", v)
         IN  /\ d \in Config /\ d.source = v /\ SameBut("source", d, c)
             /\ d.error = IF c.source \in {"any", v} THEN c.error ELSE "conflict"
<1> DEFINE f == IF c.source \notin {"any", v} THEN Failed(c, "conflict") ELSE c
<1>1. /\ f \in Config /\ SameBut("error", f, c)
      /\ f.error = IF c.source \in {"any", v} THEN c.error ELSE "conflict"
  BY FailedIs DEF SameBut
<1>2. Merged(c, "source", "any", v) = [f EXCEPT !.source = v]
  BY DEF Merged
<1> HIDE DEF f
<1> QED BY <1>1, <1>2 DEF Config, SameBut

\* A value joins those that were named.
LEMMA Merging ==
  ASSUME NEW S, NEW unset, unset \notin S, NEW w, w # unset, NEW v, OneOf(v, S, unset)
  PROVE  /\ OneOf(w, S \cup {w}, unset)
         /\ Differ(S \cup {w}) <=> Differ(S) \/ v \notin {unset, w}
<1>1. OneOf(w, S \cup {w}, unset)
  BY DEF OneOf
<1>2. CASE S = {}
  BY <1>1, <1>2 DEF OneOf, Differ
<1>3. CASE S # {} /\ v = w
  <2>1. S \cup {w} = S
    BY <1>3 DEF OneOf
  <2> QED BY <1>1, <1>3, <2>1
<1>4. CASE S # {} /\ v # w
  <2>1. v \in S /\ v # unset
    BY <1>4 DEF OneOf
  <2> QED BY <1>1, <1>4, <2>1 DEF Differ
<1> QED BY <1>2, <1>3, <1>4

\* An option joins those that say something if it does.
LEMMA SoundGrows ==
  ASSUME NEW t, NEW A, NEW o
  PROVE  /\ Unsupported(t, o) \/ IllFormed(o) => Sound(t, A \cup {o}) = Sound(t, A)
         /\ ~Unsupported(t, o) /\ ~IllFormed(o) => Sound(t, A \cup {o}) = Sound(t, A) \cup {o}
BY DEF Sound

\* An option joins those of its kind.
LEMMA GivenGrows ==
  ASSUME NEW S, NEW o
  PROVE  /\ Given(o.kind, S \cup {o}) = Given(o.kind, S) \cup {o}
         /\ \A kind : kind # o.kind => Given(kind, S \cup {o}) = Given(kind, S)
BY DEF Given

\* The parts of what a Config tells, by the options that say it.
TellsWindow(w, rates) ==
  IF rates = {}
  THEN w = Unspecified
  ELSE /\ w.specified
       /\ IsGreatest(w.lower, {LowerOf(o) : o \in rates})
       /\ IsLeast(w.upper, {UpperOf(o) : o \in rates})

TellsStep(q, fine) ==
  IF fine = {} THEN q = NoConfig.step ELSE IsLeast(q, {o.step : o \in fine})

TellsBits(n, wide) ==
  /\ OneOf(n, {o.bits : o \in wide}, 0)
  /\ \A o \in wide : o.bits <= n

\* What a Config tells, field by field.
LEMMA TellsParts ==
  ASSUME NEW c, NEW S
  PROVE  Tells(c, S) <=>
           /\ TellsWindow(c.frequency, Given("frequency", S))
           /\ TellsStep(c.step, Given("duty_step", S))
           /\ TellsBits(c.counter_bits_at_least, Given("counter_bits", S))
           /\ OneOf(c.pin, PinsOf(S), 0)
           /\ OneOf(c.required_timer, TimersOf(S), 0)
           /\ OneOf(c.waveform, WaveformsOf(S), "any")
           /\ OneOf(c.source, SourcesOf(S), "any")
<1>1. Given("duty_step", S) = {} <=> {o.step : o \in Given("duty_step", S)} = {}
  OBVIOUS
<1>2. (\A b \in {o.bits : o \in Given("counter_bits", S)} : b <= c.counter_bits_at_least)
        <=> \A o \in Given("counter_bits", S) : o.bits <= c.counter_bits_at_least
  OBVIOUS
<1> QED BY <1>1, <1>2 DEF Tells, TellsWindow, TellsStep, TellsBits

Clashes(rates) == \E o, p \in rates : ~AtMost(LowerOf(o), UpperOf(p))

\* What contradicts itself, field by field.
LEMMA ContradictoryParts ==
  ASSUME NEW S
  PROVE  Contradictory(S) <=>
           \/ Clashes(Given("frequency", S))
           \/ Differ(PinsOf(S)) \/ Differ(TimersOf(S))
           \/ Differ(WaveformsOf(S)) \/ Differ(SourcesOf(S))
BY DEF Contradictory, Clashes

\* The values named change only with an option that names one.
LEMMA NamedGrow ==
  ASSUME NEW S, NEW o
  PROVE  /\ PinsOf(S \cup {o}) = IF o.kind = "pin" THEN PinsOf(S) \cup {o.pin} ELSE PinsOf(S)
         /\ TimersOf(S \cup {o}) = IF o.kind = "require_timer" THEN TimersOf(S) \cup {o.timer}
                                                               ELSE TimersOf(S)
         /\ WaveformsOf(S \cup {o}) = IF o.kind = "avr_waveform"
                                      THEN WaveformsOf(S) \cup {o.waveform} ELSE WaveformsOf(S)
         /\ SourcesOf(S \cup {o}) = IF o.kind = "avr_source" THEN SourcesOf(S) \cup {o.source}
                                    ELSE IF o.kind = "apb_clock" THEN SourcesOf(S) \cup {"apb"}
                                    ELSE SourcesOf(S)
<1>1. PinsOf(S \cup {o}) = IF o.kind = "pin" THEN PinsOf(S) \cup {o.pin} ELSE PinsOf(S)
  BY DEF PinsOf, Given
<1>2. TimersOf(S \cup {o}) = IF o.kind = "require_timer" THEN TimersOf(S) \cup {o.timer}
                                                         ELSE TimersOf(S)
  BY DEF TimersOf, Given
<1>3. WaveformsOf(S \cup {o}) = IF o.kind = "avr_waveform"
                                THEN WaveformsOf(S) \cup {o.waveform} ELSE WaveformsOf(S)
  BY DEF WaveformsOf, Given
<1>4. SourcesOf(S \cup {o}) = IF o.kind = "avr_source" THEN SourcesOf(S) \cup {o.source}
                              ELSE IF o.kind = "apb_clock" THEN SourcesOf(S) \cup {"apb"}
                              ELSE SourcesOf(S)
  BY DEF SourcesOf, Given
<1> QED BY <1>1, <1>2, <1>3, <1>4

\* The order of the errors.
LEMMA Ranks ==
  /\ Rank["none"] = 0 /\ Rank["invalid_value"] = 1
  /\ Rank["unsupported_option"] = 2 /\ Rank["conflict"] = 3
BY DEF Rank

\* The error while options are still to come.
ErrorSoFar(t, A) == ErrorOf(t, A, FALSE)

\* What the error becomes with an option.
LEMMA ErrorGrows ==
  ASSUME NEW t, NEW A, NEW o, NEW c \in Config, c.error = ErrorSoFar(t, A)
  PROVE  /\ Unsupported(t, o) =>
              Failed(c, "unsupported_option").error = ErrorSoFar(t, A \cup {o})
         /\ IllFormed(o) /\ ~Unsupported(t, o) =>
              Failed(c, "invalid_value").error = ErrorSoFar(t, A \cup {o})
         /\ ~Unsupported(t, o) /\ ~IllFormed(o)
              /\ (Contradictory(Sound(t, A)) => Contradictory(Sound(t, A \cup {o})))
              => ErrorSoFar(t, A \cup {o})
                   = IF Contradictory(Sound(t, A \cup {o})) THEN "conflict" ELSE c.error
<1>1. Unsupported(t, o) => Failed(c, "unsupported_option").error = ErrorSoFar(t, A \cup {o})
  <2> SUFFICES ASSUME Unsupported(t, o)
               PROVE  Failed(c, "unsupported_option").error = ErrorSoFar(t, A \cup {o})
    OBVIOUS
  <2>1. Sound(t, A \cup {o}) = Sound(t, A)
    BY SoundGrows
  <2>2. ErrorSoFar(t, A \cup {o})
          = IF Contradictory(Sound(t, A)) THEN "conflict" ELSE "unsupported_option"
    BY <2>1 DEF ErrorOf, ErrorSoFar
  <2>3. Failed(c, "unsupported_option").error
          = IF Rank["unsupported_option"] > Rank[c.error] THEN "unsupported_option" ELSE c.error
    BY FailedIs
  <2>4. c.error \in {"none", "invalid_value", "unsupported_option", "conflict"}
        /\ (c.error = "conflict" <=> Contradictory(Sound(t, A)))
    BY ConfigFields DEF ErrorOf, ErrorSoFar
  <2> DEFINE e == c.error
             f == Failed(c, "unsupported_option").error
             g == ErrorSoFar(t, A \cup {o})
  <2> HIDE DEF e, f, g
  <2>5. g = IF e = "conflict" THEN "conflict" ELSE "unsupported_option"
    BY <2>2, <2>4 DEF e, g
  <2>6. f = IF Rank["unsupported_option"] > Rank[e] THEN "unsupported_option" ELSE e
    BY <2>3 DEF e, f
  <2>7. e \in {"none", "invalid_value", "unsupported_option", "conflict"}
    BY <2>4 DEF e
  <2>8. f = g
    BY <2>5, <2>6, <2>7, Ranks
  <2> QED BY <2>8 DEF f, g
<1>2. IllFormed(o) /\ ~Unsupported(t, o) =>
        Failed(c, "invalid_value").error = ErrorSoFar(t, A \cup {o})
  <2> SUFFICES ASSUME IllFormed(o), ~Unsupported(t, o)
               PROVE  Failed(c, "invalid_value").error = ErrorSoFar(t, A \cup {o})
    OBVIOUS
  <2>1. Sound(t, A \cup {o}) = Sound(t, A)
    BY SoundGrows
  <2>2. ErrorSoFar(t, A \cup {o})
          = IF Contradictory(Sound(t, A)) THEN "conflict"
            ELSE IF \E p \in A : Unsupported(t, p) THEN "unsupported_option"
            ELSE "invalid_value"
    BY <2>1 DEF ErrorOf, ErrorSoFar
  <2>3. Failed(c, "invalid_value").error
          = IF Rank["invalid_value"] > Rank[c.error] THEN "invalid_value" ELSE c.error
    BY FailedIs
  <2>4. c.error = IF Contradictory(Sound(t, A)) THEN "conflict"
                  ELSE IF \E p \in A : Unsupported(t, p) THEN "unsupported_option"
                  ELSE IF \E p \in A : IllFormed(p) THEN "invalid_value"
                  ELSE "none"
    BY DEF ErrorOf, ErrorSoFar
  <2> DEFINE e == c.error
             f == Failed(c, "invalid_value").error
             g == ErrorSoFar(t, A \cup {o})
  <2> HIDE DEF e, f, g
  <2>5. g = IF e \in {"conflict", "unsupported_option"} THEN e ELSE "invalid_value"
    BY <2>2, <2>4 DEF e, g
  <2>6. f = IF Rank["invalid_value"] > Rank[e] THEN "invalid_value" ELSE e
    BY <2>3 DEF e, f
  <2>7. e \in {"none", "invalid_value", "unsupported_option", "conflict"}
    BY <2>4 DEF e
  <2>8. f = g
    BY <2>5, <2>6, <2>7, Ranks
  <2> QED BY <2>8 DEF f, g
<1>3. ASSUME ~Unsupported(t, o), ~IllFormed(o),
             Contradictory(Sound(t, A)) => Contradictory(Sound(t, A \cup {o}))
      PROVE  ErrorSoFar(t, A \cup {o})
               = IF Contradictory(Sound(t, A \cup {o})) THEN "conflict" ELSE c.error
  <2>1. /\ (\E p \in A \cup {o} : Unsupported(t, p)) <=> \E p \in A : Unsupported(t, p)
        /\ (\E p \in A \cup {o} : IllFormed(p)) <=> \E p \in A : IllFormed(p)
    BY <1>3
  <2> QED BY <1>3, <2>1 DEF ErrorOf, ErrorSoFar
<1> QED BY <1>1, <1>2, <1>3

-----------------------------------------------------------------------------
(* One option after the other. *)

\* c tells what the options A say to target t, and carries their error.
Follows(t, c, A) ==
  c \in Config /\ Tells(c, Sound(t, A)) /\ c.error = ErrorSoFar(t, A)

\* What a Config tells does not depend on its error.
LEMMA TellsSame ==
  ASSUME NEW c, NEW d, NEW S, SameBut("error", d, c), Tells(c, S)
  PROVE  Tells(d, S)
BY TellsParts DEF SameBut

\* An option that is refused leaves its error and nothing else.
LEMMA RefusedFollows ==
  ASSUME NEW t, NEW A, NEW o, NEW c, Follows(t, c, A)
  PROVE  /\ Unsupported(t, o) => Follows(t, Failed(c, "unsupported_option"), A \cup {o})
         /\ IllFormed(o) /\ ~Unsupported(t, o) =>
              Follows(t, Failed(c, "invalid_value"), A \cup {o})
<1>1. c \in Config /\ Tells(c, Sound(t, A)) /\ c.error = ErrorSoFar(t, A)
  BY DEF Follows
<1>2. ASSUME NEW e \in {"invalid_value", "unsupported_option"},
             Unsupported(t, o) \/ IllFormed(o)
      PROVE  Failed(c, e) \in Config /\ Tells(Failed(c, e), Sound(t, A \cup {o}))
  <2>1. Failed(c, e) \in Config /\ SameBut("error", Failed(c, e), c)
    BY <1>1, FailedIs
  <2>2. Sound(t, A \cup {o}) = Sound(t, A)
    BY <1>2, SoundGrows
  <2> QED BY <1>1, <2>1, <2>2, TellsSame
<1> QED BY <1>1, <1>2, ErrorGrows DEF Follows

\* An option that says something joins what has been told.
LEMMA JoinFollows ==
  ASSUME NEW t, NEW A, NEW o, NEW c, Follows(t, c, A),
         ~Unsupported(t, o), ~IllFormed(o),
         NEW d \in Config, Tells(d, Sound(t, A) \cup {o}), NEW clash \in BOOLEAN,
         Contradictory(Sound(t, A) \cup {o}) <=> Contradictory(Sound(t, A)) \/ clash,
         d.error = IF clash THEN "conflict" ELSE c.error
  PROVE  Follows(t, d, A \cup {o})
<1>1. Sound(t, A \cup {o}) = Sound(t, A) \cup {o}
  BY SoundGrows
<1>2. c \in Config /\ c.error = ErrorSoFar(t, A)
  BY DEF Follows
<1>3. ErrorSoFar(t, A \cup {o})
        = IF Contradictory(Sound(t, A) \cup {o}) THEN "conflict" ELSE c.error
  <2>1. Contradictory(Sound(t, A)) => Contradictory(Sound(t, A \cup {o}))
    BY <1>1
  <2>2. ErrorSoFar(t, A \cup {o})
          = IF Contradictory(Sound(t, A \cup {o})) THEN "conflict" ELSE c.error
    BY <1>2, <2>1, ErrorGrows
  <2> QED BY <1>1, <2>2
<1>4. Contradictory(Sound(t, A)) => c.error = "conflict"
  BY <1>2 DEF ErrorOf, ErrorSoFar
<1> QED BY <1>1, <1>3, <1>4 DEF Follows

\* The values named are never the unset ones.
LEMMA NoneUnset ==
  ASSUME NEW t, NEW A, A \subseteq Option
  PROVE  /\ 0 \notin PinsOf(Sound(t, A)) /\ 0 \notin TimersOf(Sound(t, A))
         /\ "any" \notin WaveformsOf(Sound(t, A)) /\ "any" \notin SourcesOf(Sound(t, A))
<1>1. \A o \in Sound(t, A) : o \in Option /\ ~Unsupported(t, o) /\ ~IllFormed(o)
  BY DEF Sound
<1>2. 0 \notin PinsOf(Sound(t, A))
  BY <1>1 DEF PinsOf, Given, IllFormed
<1>3. 0 \notin TimersOf(Sound(t, A))
  BY <1>1 DEF TimersOf, Given, Unsupported
<1>4. "any" \notin WaveformsOf(Sound(t, A))
  BY <1>1, OptionFields DEF WaveformsOf, Given
<1>5. "any" \notin SourcesOf(Sound(t, A))
  BY <1>1, OptionFields DEF SourcesOf, Given
<1> QED BY <1>2, <1>3, <1>4, <1>5

\* Merging a pin tells it, or the conflict.
LEMMA PinFollows ==
  ASSUME NEW t, NEW A, A \subseteq Option, NEW c, Follows(t, c, A),
         NEW o \in Option, o.kind = "pin", o.pin # 0
  PROVE  Follows(t, Merged(c, "pin", 0, o.pin), A \cup {o})
<1> DEFINE S == Sound(t, A)
           d == Merged(c, "pin", 0, o.pin)
           clash == c.pin \notin {0, o.pin}
<1>1. c \in Config /\ Tells(c, S) /\ o.pin \in Nat
  BY OptionFields DEF Follows
<1>2. d \in Config /\ d.pin = o.pin /\ SameBut("pin", d, c)
      /\ d.error = IF c.pin \in {0, o.pin} THEN c.error ELSE "conflict"
  BY <1>1, MergedPin
<1>3. ~Unsupported(t, o) /\ ~IllFormed(o)
  BY DEF Unsupported, IllFormed
<1>4. 0 \notin PinsOf(S)
  BY NoneUnset
<1> HIDE DEF d, S
<1>5. OneOf(c.pin, PinsOf(S), 0)
  BY <1>1, TellsParts
<1>6. /\ OneOf(o.pin, PinsOf(S) \cup {o.pin}, 0)
      /\ Differ(PinsOf(S) \cup {o.pin}) <=> Differ(PinsOf(S)) \/ clash
  BY <1>4, <1>5, Merging
<1>7. /\ PinsOf(S \cup {o}) = PinsOf(S) \cup {o.pin}
      /\ TimersOf(S \cup {o}) = TimersOf(S) /\ WaveformsOf(S \cup {o}) = WaveformsOf(S)
      /\ SourcesOf(S \cup {o}) = SourcesOf(S)
      /\ \A kind \in {"frequency", "duty_step", "counter_bits"} :
           Given(kind, S \cup {o}) = Given(kind, S)
  BY NamedGrow, GivenGrows
<1>8. Tells(d, S \cup {o})
  BY <1>1, <1>2, <1>6, <1>7, TellsParts DEF SameBut
<1>9. Contradictory(S \cup {o}) <=> Contradictory(S) \/ clash
  BY <1>6, <1>7, ContradictoryParts
<1>10. d.error = IF clash THEN "conflict" ELSE c.error
  BY <1>2
<1> HIDE DEF clash
<1>11. clash \in BOOLEAN
  BY DEF clash
<1> QED BY <1>2, <1>3, <1>8, <1>9, <1>10, <1>11, JoinFollows DEF S, d

\* Merging a timer tells it, or the conflict.
LEMMA TimerFollows ==
  ASSUME NEW t, NEW A, A \subseteq Option, NEW c, Follows(t, c, A),
         NEW o \in Option, o.kind = "require_timer", t = "atmega328p", o.timer # 0
  PROVE  Follows(t, Merged(c, "required_timer", 0, o.timer), A \cup {o})
<1> DEFINE S == Sound(t, A)
           d == Merged(c, "required_timer", 0, o.timer)
           clash == c.required_timer \notin {0, o.timer}
<1>1. c \in Config /\ Tells(c, S) /\ o.timer \in Nat
  BY OptionFields DEF Follows
<1>2. d \in Config /\ d.required_timer = o.timer /\ SameBut("required_timer", d, c)
      /\ d.error = IF c.required_timer \in {0, o.timer} THEN c.error ELSE "conflict"
  BY <1>1, MergedTimer
<1>3. ~Unsupported(t, o) /\ ~IllFormed(o)
  BY DEF Unsupported, IllFormed
<1>4. 0 \notin TimersOf(S)
  BY NoneUnset
<1> HIDE DEF d, S
<1>5. OneOf(c.required_timer, TimersOf(S), 0)
  BY <1>1, TellsParts
<1>6. /\ OneOf(o.timer, TimersOf(S) \cup {o.timer}, 0)
      /\ Differ(TimersOf(S) \cup {o.timer}) <=> Differ(TimersOf(S)) \/ clash
  BY <1>1, <1>4, <1>5, Merging
<1>7. /\ TimersOf(S \cup {o}) = TimersOf(S) \cup {o.timer}
      /\ PinsOf(S \cup {o}) = PinsOf(S) /\ WaveformsOf(S \cup {o}) = WaveformsOf(S)
      /\ SourcesOf(S \cup {o}) = SourcesOf(S)
      /\ \A kind \in {"frequency", "duty_step", "counter_bits"} :
           Given(kind, S \cup {o}) = Given(kind, S)
  BY NamedGrow, GivenGrows
<1>8. Tells(d, S \cup {o})
  BY <1>1, <1>2, <1>6, <1>7, TellsParts DEF SameBut
<1>9. Contradictory(S \cup {o}) <=> Contradictory(S) \/ clash
  BY <1>6, <1>7, ContradictoryParts
<1>10. d.error = IF clash THEN "conflict" ELSE c.error
  BY <1>2
<1> HIDE DEF clash
<1>11. clash \in BOOLEAN
  BY DEF clash
<1> QED BY <1>2, <1>3, <1>8, <1>9, <1>10, <1>11, JoinFollows DEF S, d

\* Merging a waveform tells it, or the conflict.
LEMMA WaveformFollows ==
  ASSUME NEW t, NEW A, A \subseteq Option, NEW c, Follows(t, c, A),
         NEW o \in Option, o.kind = "avr_waveform", t \in Targets, Matches(t, "avr")
  PROVE  Follows(t, Merged(c, "waveform", "any", o.waveform), A \cup {o})
<1> DEFINE S == Sound(t, A)
           d == Merged(c, "waveform", "any", o.waveform)
           clash == c.waveform \notin {"any", o.waveform}
<1>1. c \in Config /\ Tells(c, S) /\ o.waveform \in {"fast", "phase_correct"}
  BY OptionFields DEF Follows
<1>2. d \in Config /\ d.waveform = o.waveform /\ SameBut("waveform", d, c)
      /\ d.error = IF c.waveform \in {"any", o.waveform} THEN c.error ELSE "conflict"
  BY <1>1, MergedWaveform
<1>3. ~Unsupported(t, o) /\ ~IllFormed(o)
  BY DEF Unsupported, IllFormed, Matches
<1>4. "any" \notin WaveformsOf(S)
  BY NoneUnset
<1> HIDE DEF d, S
<1>5. OneOf(c.waveform, WaveformsOf(S), "any")
  BY <1>1, TellsParts
<1>6. /\ OneOf(o.waveform, WaveformsOf(S) \cup {o.waveform}, "any")
      /\ Differ(WaveformsOf(S) \cup {o.waveform}) <=> Differ(WaveformsOf(S)) \/ clash
  BY <1>1, <1>4, <1>5, Merging
<1>7. /\ WaveformsOf(S \cup {o}) = WaveformsOf(S) \cup {o.waveform}
      /\ PinsOf(S \cup {o}) = PinsOf(S) /\ TimersOf(S \cup {o}) = TimersOf(S)
      /\ SourcesOf(S \cup {o}) = SourcesOf(S)
      /\ \A kind \in {"frequency", "duty_step", "counter_bits"} :
           Given(kind, S \cup {o}) = Given(kind, S)
  BY NamedGrow, GivenGrows
<1>8. Tells(d, S \cup {o})
  BY <1>1, <1>2, <1>6, <1>7, TellsParts DEF SameBut
<1>9. Contradictory(S \cup {o}) <=> Contradictory(S) \/ clash
  BY <1>6, <1>7, ContradictoryParts
<1>10. d.error = IF clash THEN "conflict" ELSE c.error
  BY <1>2
<1> HIDE DEF clash
<1>11. clash \in BOOLEAN
  BY DEF clash
<1> QED BY <1>2, <1>3, <1>8, <1>9, <1>10, <1>11, JoinFollows DEF S, d

\* Merging a source tells it, or the conflict.
LEMMA SourceFollows ==
  ASSUME NEW t, NEW A, A \subseteq Option, NEW c, Follows(t, c, A),
         NEW o \in Option, o.kind = "avr_source", t \in Targets, Matches(t, "avr")
  PROVE  Follows(t, Merged(c, "source", "any", o.source), A \cup {o})
<1> DEFINE S == Sound(t, A)
           d == Merged(c, "source", "any", o.source)
           clash == c.source \notin {"any", o.source}
<1>1. c \in Config /\ Tells(c, S) /\ o.source \in {"icr", "apb", "built_in", "ocra"}
  BY OptionFields DEF Follows
<1>2. d \in Config /\ d.source = o.source /\ SameBut("source", d, c)
      /\ d.error = IF c.source \in {"any", o.source} THEN c.error ELSE "conflict"
  BY <1>1, MergedSource
<1>3. ~Unsupported(t, o) /\ ~IllFormed(o)
  BY DEF Unsupported, IllFormed, Matches
<1>4. "any" \notin SourcesOf(S)
  BY NoneUnset
<1> HIDE DEF d, S
<1>5. OneOf(c.source, SourcesOf(S), "any")
  BY <1>1, TellsParts
<1>6. /\ OneOf(o.source, SourcesOf(S) \cup {o.source}, "any")
      /\ Differ(SourcesOf(S) \cup {o.source}) <=> Differ(SourcesOf(S)) \/ clash
  BY <1>1, <1>4, <1>5, Merging
<1>7. /\ SourcesOf(S \cup {o}) = SourcesOf(S) \cup {o.source}
      /\ PinsOf(S \cup {o}) = PinsOf(S) /\ TimersOf(S \cup {o}) = TimersOf(S)
      /\ WaveformsOf(S \cup {o}) = WaveformsOf(S)
      /\ \A kind \in {"frequency", "duty_step", "counter_bits"} :
           Given(kind, S \cup {o}) = Given(kind, S)
  BY NamedGrow, GivenGrows
<1>8. Tells(d, S \cup {o})
  BY <1>1, <1>2, <1>6, <1>7, TellsParts DEF SameBut
<1>9. Contradictory(S \cup {o}) <=> Contradictory(S) \/ clash
  BY <1>6, <1>7, ContradictoryParts
<1>10. d.error = IF clash THEN "conflict" ELSE c.error
  BY <1>2
<1> HIDE DEF clash
<1>11. clash \in BOOLEAN
  BY DEF clash
<1> QED BY <1>2, <1>3, <1>8, <1>9, <1>10, <1>11, JoinFollows DEF S, d

\* ApbClock merges its source as AvrSource does.
LEMMA ApbFollows ==
  ASSUME NEW t, NEW A, A \subseteq Option, NEW c, Follows(t, c, A),
         NEW o \in Option, o.kind = "apb_clock", t = "esp32"
  PROVE  Follows(t, Merged(c, "source", "any", "apb"), A \cup {o})
<1> DEFINE S == Sound(t, A)
           d == Merged(c, "source", "any", "apb")
           clash == c.source \notin {"any", "apb"}
<1>1. c \in Config /\ Tells(c, S) /\ "apb" \in {"icr", "apb", "built_in", "ocra"}
  BY OptionFields DEF Follows
<1>2. d \in Config /\ d.source = "apb" /\ SameBut("source", d, c)
      /\ d.error = IF c.source \in {"any", "apb"} THEN c.error ELSE "conflict"
  BY <1>1, MergedSource
<1>3. ~Unsupported(t, o) /\ ~IllFormed(o)
  BY DEF Unsupported, IllFormed
<1>4. "any" \notin SourcesOf(S)
  BY NoneUnset
<1> HIDE DEF d, S
<1>5. OneOf(c.source, SourcesOf(S), "any")
  BY <1>1, TellsParts
<1>6. /\ OneOf("apb", SourcesOf(S) \cup {"apb"}, "any")
      /\ Differ(SourcesOf(S) \cup {"apb"}) <=> Differ(SourcesOf(S)) \/ clash
  BY <1>1, <1>4, <1>5, Merging
<1>7. /\ SourcesOf(S \cup {o}) = SourcesOf(S) \cup {"apb"}
      /\ PinsOf(S \cup {o}) = PinsOf(S) /\ TimersOf(S \cup {o}) = TimersOf(S)
      /\ WaveformsOf(S \cup {o}) = WaveformsOf(S)
      /\ \A kind \in {"frequency", "duty_step", "counter_bits"} :
           Given(kind, S \cup {o}) = Given(kind, S)
  BY NamedGrow, GivenGrows
<1>8. Tells(d, S \cup {o})
  BY <1>1, <1>2, <1>6, <1>7, TellsParts DEF SameBut
<1>9. Contradictory(S \cup {o}) <=> Contradictory(S) \/ clash
  BY <1>6, <1>7, ContradictoryParts
<1>10. d.error = IF clash THEN "conflict" ELSE c.error
  BY <1>2
<1> HIDE DEF clash
<1>11. clash \in BOOLEAN
  BY DEF clash
<1> QED BY <1>2, <1>3, <1>8, <1>9, <1>10, <1>11, JoinFollows DEF S, d

-----------------------------------------------------------------------------
(* The least and the greatest of fractions. *)

\* In lowest terms, the terms have no factor in common.
LEMMA LowestIsReduced ==
  ASSUME NEW q \in Ratio
  PROVE  InLowestTerms(q) <=> q.d # 0 /\ Reduced(q.n, q.d)
<1>1. q.n \in Nat /\ q.d \in Nat
  BY DEF Ratio
<1>2. ASSUME InLowestTerms(q) PROVE Reduced(q.n, q.d)
  <2> SUFFICES ASSUME NEW k \in Nat \ {0}, q.n % k = 0, q.d % k = 0 PROVE k = 1
    BY DEF Reduced
  <2>1. q.d # 0 /\ \A h \in 2 .. q.d : ~(q.n % h = 0 /\ q.d % h = 0)
    BY <1>2 DEF InLowestTerms, Divides
  <2>2. q.d \div k \in Nat /\ q.d = (q.d \div k) * k
    BY <1>1, Factor
  <2>3. k <= q.d
    <3> DEFINE y == q.d
               m == q.d \div k
    <3>1. m \in Nat /\ y = m * k /\ y \in Nat /\ y # 0
      BY <1>1, <2>1, <2>2
    <3> HIDE DEF y, m
    <3>2. m # 0
      <4>1. 0 * k = 0
        OBVIOUS
      <4> QED BY <3>1, <4>1
    <3>3. k <= m * k
      BY <3>1, <3>2, SMT
    <3> QED BY <3>1, <3>3 DEF y
  <2> QED BY <1>1, <2>1, <2>3
<1>3. ASSUME q.d # 0, Reduced(q.n, q.d) PROVE InLowestTerms(q)
  <2>1. \A k \in 2 .. q.d : ~(q.n % k = 0 /\ q.d % k = 0)
    BY <1>1, <1>3 DEF Reduced
  <2> QED BY <1>3, <2>1 DEF InLowestTerms, Divides
<1> QED BY <1>2, <1>3 DEF InLowestTerms

\* A fraction in lowest terms is what its equals are normalized to.
LEMMA LowestIsNormalized ==
  ASSUME NEW f, Positive(f)
  PROVE  /\ InLowestTerms(Normalized(f)) /\ SameFraction(f, Normalized(f))
         /\ \A q \in Ratio : InLowestTerms(q) /\ SameFraction(f, q) => q = Normalized(f)
<1> DEFINE p == Normalized(f)
<1>1. p \in [n : Nat, d : Nat \ {0}] /\ Reduced(p.n, p.d)
  BY NormalizedReduces
<1>2. SameFraction(p, f) /\ p \in Ratio
  BY NormalizedKeeps
<1>3. f.n \in Nat /\ f.d \in Nat \ {0}
  BY DEF Positive
<1> HIDE DEF p
<1>4. InLowestTerms(p)
  BY <1>1, <1>2, LowestIsReduced
<1>5. SameFraction(f, p)
  BY <1>2 DEF SameFraction
<1>6. ASSUME NEW q \in Ratio, InLowestTerms(q), SameFraction(f, q) PROVE q = p
  <2>1. q.n \in Nat /\ q.d \in Nat \ {0} /\ Reduced(q.n, q.d)
    BY <1>6, LowestIsReduced DEF Ratio, InLowestTerms
  <2>2. Positive(q) /\ Positive(p)
    BY <1>1, <2>1 DEF Positive
  <2>3. AtMost(q, f) /\ AtMost(f, q) /\ AtMost(f, p) /\ AtMost(p, f)
    <3>1. SameFraction(q, f)
      BY <1>6 DEF SameFraction
    <3> QED BY <1>2, <1>5, <1>6, <2>2, <3>1, AtMostOrders
  <2>4. SameFraction(q, p)
    BY <2>2, <2>3, AtMostOrders
  <2>5. q.n * p.d = p.n * q.d
    BY <2>4 DEF SameFraction
  <2>6. q.n = p.n /\ q.d = p.d
    BY <1>1, <2>1, <2>5, OneReducedForm
  <2> QED BY <1>1, <2>6 DEF Ratio
<1> QED BY <1>4, <1>5, <1>6 DEF p

\* The lesser of the least fraction and another is the least of all.
LEMMA LeastJoins ==
  ASSUME NEW f, Positive(f), NEW F, \A g \in F : Positive(g)
  PROVE  /\ IsLeast(Normalized(f), {f})
         /\ \A q \in Ratio : IsLeast(q, F) =>
              /\ AtMost(f, q) => IsLeast(Normalized(f), F \cup {f})
              /\ AtMost(q, f) => IsLeast(q, F \cup {f})
<1> DEFINE p == Normalized(f)
<1>1. InLowestTerms(p) /\ SameFraction(f, p) /\ Positive(p)
  BY LowestIsNormalized, NormalizedKeeps
<1> HIDE DEF p
<1>2. AtMost(p, f) /\ AtMost(f, p)
  BY <1>1, AtMostOrders
<1>3. IsLeast(p, {f})
  BY <1>1, <1>2 DEF IsLeast
<1>4. ASSUME NEW q \in Ratio, IsLeast(q, F)
      PROVE  /\ AtMost(f, q) => IsLeast(p, F \cup {f})
             /\ AtMost(q, f) => IsLeast(q, F \cup {f})
  <2>1. Positive(q)
    BY <1>4 DEF IsLeast, InLowestTerms, Ratio, Positive
  <2>2. ASSUME AtMost(f, q), NEW g \in F PROVE AtMost(p, g)
    <3>1. AtMost(q, g) /\ Positive(g)
      BY <1>4, <2>2 DEF IsLeast
    <3>2. AtMost(f, g)
      BY <2>1, <2>2, <3>1, AtMostOrders
    <3> QED BY <1>1, <1>2, <3>1, <3>2, AtMostOrders
  <2>3. AtMost(f, q) => IsLeast(p, F \cup {f})
    BY <1>1, <1>2, <2>2 DEF IsLeast
  <2>4. AtMost(q, f) => IsLeast(q, F \cup {f})
    BY <1>4 DEF IsLeast
  <2> QED BY <2>3, <2>4
<1> QED BY <1>3, <1>4 DEF p

\* The greater of the greatest fraction and another is the greatest of all.
LEMMA GreatestJoins ==
  ASSUME NEW f, Positive(f), NEW F, \A g \in F : Positive(g)
  PROVE  /\ IsGreatest(Normalized(f), {f})
         /\ \A q \in Ratio : IsGreatest(q, F) =>
              /\ AtMost(q, f) => IsGreatest(Normalized(f), F \cup {f})
              /\ AtMost(f, q) => IsGreatest(q, F \cup {f})
<1> DEFINE p == Normalized(f)
<1>1. InLowestTerms(p) /\ SameFraction(f, p) /\ Positive(p)
  BY LowestIsNormalized, NormalizedKeeps
<1> HIDE DEF p
<1>2. AtMost(p, f) /\ AtMost(f, p)
  BY <1>1, AtMostOrders
<1>3. IsGreatest(p, {f})
  BY <1>1, <1>2 DEF IsGreatest
<1>4. ASSUME NEW q \in Ratio, IsGreatest(q, F)
      PROVE  /\ AtMost(q, f) => IsGreatest(p, F \cup {f})
             /\ AtMost(f, q) => IsGreatest(q, F \cup {f})
  <2>1. Positive(q)
    BY <1>4 DEF IsGreatest, InLowestTerms, Ratio, Positive
  <2>2. ASSUME AtMost(q, f), NEW g \in F PROVE AtMost(g, p)
    <3>1. AtMost(g, q) /\ Positive(g)
      BY <1>4, <2>2 DEF IsGreatest
    <3>2. AtMost(g, f)
      BY <2>1, <2>2, <3>1, AtMostOrders
    <3> QED BY <1>1, <1>2, <3>1, <3>2, AtMostOrders
  <2>3. AtMost(q, f) => IsGreatest(p, F \cup {f})
    BY <1>1, <1>2, <2>2 DEF IsGreatest
  <2>4. AtMost(f, q) => IsGreatest(q, F \cup {f})
    BY <1>4 DEF IsGreatest
  <2> QED BY <2>3, <2>4
<1> QED BY <1>3, <1>4 DEF p

-----------------------------------------------------------------------------
\* Nothing but an option of kind "frequency", or one that names a pin, a timer,
\* a waveform or a source, can contradict another.
LEMMA NoContradiction ==
  ASSUME NEW S, NEW o, o.kind \in {"duty_step", "counter_bits"}
  PROVE  /\ Contradictory(S \cup {o}) <=> Contradictory(S)
         /\ PinsOf(S \cup {o}) = PinsOf(S) /\ TimersOf(S \cup {o}) = TimersOf(S)
         /\ WaveformsOf(S \cup {o}) = WaveformsOf(S) /\ SourcesOf(S \cup {o}) = SourcesOf(S)
         /\ Given("frequency", S \cup {o}) = Given("frequency", S)
<1>1. /\ PinsOf(S \cup {o}) = PinsOf(S) /\ TimersOf(S \cup {o}) = TimersOf(S)
      /\ WaveformsOf(S \cup {o}) = WaveformsOf(S) /\ SourcesOf(S \cup {o}) = SourcesOf(S)
  BY NamedGrow
<1>2. Given("frequency", S \cup {o}) = Given("frequency", S)
  BY GivenGrows
<1> QED BY <1>1, <1>2, ContradictoryParts

\* The greatest width is kept.
LEMMA BitsFollow ==
  ASSUME NEW t, NEW A, A \subseteq Option, NEW c, Follows(t, c, A),
         NEW o \in Option, o.kind = "counter_bits", o.bits # 0
  PROVE  /\ o.bits <= c.counter_bits_at_least => Follows(t, c, A \cup {o})
         /\ o.bits > c.counter_bits_at_least =>
              Follows(t, [c EXCEPT !.counter_bits_at_least = o.bits], A \cup {o})
<1> DEFINE S == Sound(t, A)
           wide == Given("counter_bits", S)
           n == c.counter_bits_at_least
           d == [c EXCEPT !.counter_bits_at_least = o.bits]
<1>1. c \in Config /\ Tells(c, S) /\ o.bits \in Nat /\ n \in Nat
  BY OptionFields, ConfigFields DEF Follows
<1>2. ~Unsupported(t, o) /\ ~IllFormed(o)
  BY DEF Unsupported, IllFormed
<1>3. d \in Config /\ d.counter_bits_at_least = o.bits /\ d.error = c.error
      /\ SameBut("counter_bits_at_least", d, c)
  BY <1>1 DEF Config, SameBut
<1>4. \A p \in wide : p.bits \in Nat
  BY OptionFields DEF Given, Sound
<1>5. Given("counter_bits", S \cup {o}) = wide \cup {o}
      /\ Given("duty_step", S \cup {o}) = Given("duty_step", S)
  <2> HIDE DEF S
  <2>1. Given("counter_bits", S \cup {o}) = wide \cup {o}
    BY DEF Given
  <2>2. Given("duty_step", S \cup {o}) = Given("duty_step", S)
    BY DEF Given
  <2> QED BY <2>1, <2>2
<1> HIDE DEF S, wide, d
<1>6. TellsBits(n, wide)
  BY <1>1, TellsParts DEF wide
<1>7. /\ o.bits <= n => TellsBits(n, wide \cup {o})
      /\ o.bits > n => TellsBits(o.bits, wide \cup {o})
  <2>1. {p.bits : p \in wide \cup {o}} = {p.bits : p \in wide} \cup {o.bits}
    OBVIOUS
  <2>2. \A p \in wide : p.bits <= n
    BY <1>6 DEF TellsBits
  <2>3. ASSUME o.bits <= n PROVE OneOf(n, {p.bits : p \in wide} \cup {o.bits}, 0)
    <3>1. wide # {}
      BY <1>1, <1>6, <2>3 DEF TellsBits, OneOf
    <3> QED BY <1>6, <3>1 DEF TellsBits, OneOf
  <2>4. OneOf(o.bits, {p.bits : p \in wide} \cup {o.bits}, 0)
    BY DEF OneOf
  <2>5. o.bits > n => \A p \in wide \cup {o} : p.bits <= o.bits
    BY <1>1, <1>4, <2>2
  <2> QED BY <1>1, <2>1, <2>2, <2>3, <2>4, <2>5 DEF TellsBits
<1>8. ASSUME o.bits <= n PROVE Tells(c, S \cup {o})
  BY <1>1, <1>5, <1>7, <1>8, NoContradiction, TellsParts DEF wide
<1>9. ASSUME o.bits > n PROVE Tells(d, S \cup {o})
  <2>a. /\ TellsWindow(c.frequency, Given("frequency", S))
        /\ TellsStep(c.step, Given("duty_step", S))
        /\ OneOf(c.pin, PinsOf(S), 0) /\ OneOf(c.required_timer, TimersOf(S), 0)
        /\ OneOf(c.waveform, WaveformsOf(S), "any") /\ OneOf(c.source, SourcesOf(S), "any")
    BY <1>1, TellsParts
  <2>b. /\ d.frequency = c.frequency /\ d.step = c.step
        /\ d.pin = c.pin /\ d.required_timer = c.required_timer
        /\ d.waveform = c.waveform /\ d.source = c.source
    BY <1>3 DEF SameBut
  <2>c. TellsBits(d.counter_bits_at_least, Given("counter_bits", S \cup {o}))
    BY <1>3, <1>5, <1>7, <1>9
  <2> QED BY <1>5, <2>a, <2>b, <2>c, NoContradiction, TellsParts
<1>10. Contradictory(S \cup {o}) <=> Contradictory(S)
  BY NoContradiction
<1>11. ASSUME o.bits <= n PROVE Follows(t, c, A \cup {o})
  BY <1>1, <1>2, <1>8, <1>10, <1>11, JoinFollows DEF S
<1>12. ASSUME o.bits > n PROVE Follows(t, d, A \cup {o})
  BY <1>2, <1>3, <1>9, <1>10, <1>12, JoinFollows DEF S
<1> QED BY <1>11, <1>12 DEF d

\* The least step is kept.
LEMMA StepFollows ==
  ASSUME NEW t, NEW A, A \subseteq Option, NEW c, Follows(t, c, A),
         NEW o \in Option, o.kind = "duty_step", FineStep(o.step)
  PROVE  IF c.step.n = 0 \/ AtMost(o.step, c.step)
         THEN Follows(t, [c EXCEPT !.step = Normalized(o.step)], A \cup {o})
         ELSE Follows(t, c, A \cup {o})
<1> DEFINE S == Sound(t, A)
           fine == Given("duty_step", S)
           steps == {p.step : p \in fine}
           d == [c EXCEPT !.step = Normalized(o.step)]
<1>1. c \in Config /\ Tells(c, S) /\ o.step \in Ratio /\ c.step \in Ratio
  BY OptionFields, ConfigFields DEF Follows
<1>2. ~Unsupported(t, o) /\ ~IllFormed(o) /\ Positive(o.step) /\ o.step.n # 0
  BY <1>1, MillionAssumption DEF Unsupported, IllFormed, FineStep, Valid, Positive, Ratio
<1>3. d \in Config /\ d.step = Normalized(o.step) /\ d.error = c.error
      /\ SameBut("step", d, c)
  <2>1. Normalized(o.step) \in Ratio
    BY <1>2, NormalizedKeeps
  <2> QED BY <1>1, <2>1 DEF Config, SameBut
<1>4. \A p \in fine : Positive(p.step) /\ p.step.n # 0
  BY OptionFields, MillionAssumption DEF Given, Sound, IllFormed, Valid, Positive, Ratio
<1>5. Given("duty_step", S \cup {o}) = fine \cup {o}
      /\ Given("counter_bits", S \cup {o}) = Given("counter_bits", S)
  <2> HIDE DEF S
  <2>1. Given("duty_step", S \cup {o}) = fine \cup {o}
    BY DEF Given
  <2>2. Given("counter_bits", S \cup {o}) = Given("counter_bits", S)
    BY DEF Given
  <2> QED BY <2>1, <2>2
<1> HIDE DEF S, fine
<1>6. \A f \in steps : Positive(f) /\ f.n # 0
  BY <1>4
<1>7. {p.step : p \in fine \cup {o}} = steps \cup {o.step} /\ (steps = {} <=> fine = {})
  OBVIOUS
<1>8. fine # {} => IsLeast(c.step, steps) /\ c.step.n # 0
  <2> SUFFICES ASSUME fine # {} PROVE IsLeast(c.step, steps) /\ c.step.n # 0
    OBVIOUS
  <2>1. IsLeast(c.step, steps)
    BY <1>1, TellsParts DEF fine, TellsStep
  <2>2. PICK f \in steps : SameFraction(f, c.step)
    BY <2>1 DEF IsLeast
  <2>3. f.n \in Nat \ {0} /\ f.d \in Nat /\ c.step.d \in Nat \ {0}
    BY <1>1, <1>6, <2>1 DEF Positive, IsLeast, InLowestTerms, Ratio
  <2>4. f.n * c.step.d = c.step.n * f.d
    BY <2>2 DEF SameFraction
  <2>5. f.n * c.step.d # 0
    <3> DEFINE x == f.n
               y == c.step.d
    <3>1. x \in Nat \ {0} /\ y \in Nat \ {0}
      BY <2>3
    <3> HIDE DEF x, y
    <3>2. x * y # 0
      BY <3>1, SMT
    <3> QED BY <3>2 DEF x, y
  <2>6. 0 * f.d = 0
    BY <2>3
  <2> QED BY <2>1, <2>4, <2>5, <2>6
<1>9. fine = {} => c.step.n = 0
  <2>1. TellsStep(c.step, fine)
    BY <1>1, TellsParts DEF fine
  <2>2. NoConfig.step.n = 0
    BY DEF NoConfig
  <2> QED BY <2>1, <2>2 DEF TellsStep
<1>10. /\ IsLeast(Normalized(o.step), {o.step})
       /\ IsLeast(c.step, steps) =>
            /\ AtMost(o.step, c.step) => IsLeast(Normalized(o.step), steps \cup {o.step})
            /\ AtMost(c.step, o.step) => IsLeast(c.step, steps \cup {o.step})
  BY <1>1, <1>2, <1>6, LeastJoins
<1> HIDE DEF steps, d
<1>11. ASSUME c.step.n = 0 \/ AtMost(o.step, c.step)
       PROVE  TellsStep(d.step, fine \cup {o})
  <2>1. IsLeast(d.step, steps \cup {o.step})
    <3>1. CASE fine = {}
      BY <1>3, <1>7, <1>10, <3>1
    <3>2. CASE fine # {}
      BY <1>3, <1>8, <1>10, <1>11, <3>2
    <3> QED BY <3>1, <3>2
  <2> QED BY <1>7, <2>1 DEF TellsStep
<1>12. ASSUME ~(c.step.n = 0 \/ AtMost(o.step, c.step))
       PROVE  TellsStep(c.step, fine \cup {o})
  <2>1. fine # {}
    BY <1>9, <1>12
  <2>2. Positive(c.step)
    BY <1>1, <1>8, <2>1 DEF IsLeast, InLowestTerms, Ratio, Positive
  <2>3. AtMost(c.step, o.step)
    BY <1>2, <1>12, <2>2, AtMostOrders
  <2>4. IsLeast(c.step, steps \cup {o.step})
    BY <1>8, <1>10, <2>1, <2>3
  <2> QED BY <1>7, <2>4 DEF TellsStep
<1>13. Contradictory(S \cup {o}) <=> Contradictory(S)
  BY NoContradiction
<1>14. ASSUME c.step.n = 0 \/ AtMost(o.step, c.step) PROVE Follows(t, d, A \cup {o})
  <2>a. /\ TellsWindow(c.frequency, Given("frequency", S))
        /\ TellsBits(c.counter_bits_at_least, Given("counter_bits", S))
        /\ OneOf(c.pin, PinsOf(S), 0) /\ OneOf(c.required_timer, TimersOf(S), 0)
        /\ OneOf(c.waveform, WaveformsOf(S), "any") /\ OneOf(c.source, SourcesOf(S), "any")
    BY <1>1, TellsParts
  <2>b. /\ d.frequency = c.frequency /\ d.counter_bits_at_least = c.counter_bits_at_least
        /\ d.pin = c.pin /\ d.required_timer = c.required_timer
        /\ d.waveform = c.waveform /\ d.source = c.source
    BY <1>3 DEF SameBut
  <2>c. TellsStep(d.step, Given("duty_step", S \cup {o}))
    BY <1>5, <1>11, <1>14
  <2>1. Tells(d, S \cup {o})
    BY <1>5, <2>a, <2>b, <2>c, NoContradiction, TellsParts
  <2> QED BY <1>2, <1>3, <1>13, <2>1, JoinFollows DEF S
<1>15. ASSUME ~(c.step.n = 0 \/ AtMost(o.step, c.step)) PROVE Follows(t, c, A \cup {o})
  <2>1. Tells(c, S \cup {o})
    BY <1>1, <1>5, <1>12, <1>15, NoContradiction, TellsParts
  <2> QED BY <1>1, <1>2, <1>13, <2>1, JoinFollows DEF S
<1> QED BY <1>14, <1>15 DEF d

-----------------------------------------------------------------------------
(* Windows. *)

\* Products of naturals grow with their factors.
LEMMA Products ==
  ASSUME NEW a \in Nat, NEW b \in Nat, NEW x \in Nat, NEW y \in Nat, a <= b, x <= y
  PROVE  a * x <= b * y /\ a * x \in Nat
<1>1. a * x <= b * x
  <2>1. (b - a) \in Nat /\ (b - a) * x \in Nat
    OBVIOUS
  <2>2. (b - a) * x = b * x - a * x
    BY SMT
  <2> QED BY <2>1, <2>2
<1>2. b * x <= b * y
  <2>1. (y - x) \in Nat /\ b * (y - x) \in Nat
    OBVIOUS
  <2>2. b * (y - x) = b * y - b * x
    BY SMT
  <2> QED BY <2>1, <2>2
<1> QED BY <1>1, <1>2

\* An option that gives a window.
Rates(o) == o.rate \in Ratio /\ Valid(o.rate) /\ o.ppm \in Nat /\ o.ppm <= Million

\* The frequencies that say something are valid ones.
LEMMA SoundRates ==
  ASSUME NEW t, NEW A, A \subseteq Option
  PROVE  \A o \in Given("frequency", Sound(t, A)) : Rates(o)
BY OptionFields DEF Given, Sound, Unsupported, IllFormed, Rates

\* The bounds of a valid frequency are fractions.
LEMMA RateBounds ==
  ASSUME NEW o, Rates(o)
  PROVE  /\ Positive(LowerOf(o)) /\ BoundValid(LowerOf(o))
         /\ Positive(UpperOf(o)) /\ BoundValid(UpperOf(o)) /\ UpperOf(o).n > 0
<1> DEFINE n == o.rate.n
           less == Million - o.ppm
           more == Million + o.ppm
<1>1. /\ n \in Nat /\ n >= 1 /\ n <= Million /\ o.rate.d \in 1 .. Million
      /\ Million \in Nat /\ less \in Nat /\ less <= Million
      /\ more \in Nat /\ more >= 1 /\ more <= 2 * Million
  BY MillionAssumption DEF Rates, Valid, Ratio
<1>2. /\ LowerOf(o) = [n |-> n * less, d |-> o.rate.d]
      /\ UpperOf(o) = [n |-> n * more, d |-> o.rate.d]
  BY DEF LowerOf, UpperOf
<1> HIDE DEF n, less, more
<1>3. n * less <= Million * Million /\ n * less \in Nat
  BY <1>1, Products
<1>4. n * more <= Million * (2 * Million) /\ n * more \in Nat
  BY <1>1, Products
<1>5. 1 * 1 <= n * more
  BY <1>1, Products
<1>6. Million * (2 * Million) = 2 * Million * Million /\ Million * Million <= 2 * Million * Million
  <2>1. Million * Million \in Nat
    BY <1>1
  <2>2. 2 * Million * Million = 2 * (Million * Million)
    BY <1>1, SMT
  <2>3. Million * (2 * Million) = 2 * Million * Million
    BY <1>1, SMT
  <2> QED BY <2>1, <2>2, <2>3
<1>7. n * less <= 2 * Million * Million
  <2>1. Million * Million \in Nat /\ 2 * Million * Million \in Nat
    BY <1>1
  <2> QED BY <1>3, <1>6, <2>1
<1>8. Positive(LowerOf(o)) /\ Positive(UpperOf(o)) /\ UpperOf(o).n > 0
  BY <1>1, <1>2, <1>3, <1>4, <1>5 DEF Positive
<1>9. BoundValid(LowerOf(o))
  BY <1>1, <1>2, <1>7 DEF BoundValid
<1>10. BoundValid(UpperOf(o))
  BY <1>1, <1>2, <1>4, <1>6 DEF BoundValid
<1> QED BY <1>8, <1>9, <1>10

\* Bounds stay bounds in lowest terms.
LEMMA NormalizedBound ==
  ASSUME NEW f, Positive(f), BoundValid(f)
  PROVE  BoundValid(Normalized(f)) /\ (f.n > 0 => Normalized(f).n > 0)
<1>1. /\ Positive(Normalized(f)) /\ Normalized(f).n <= f.n /\ Normalized(f).d <= f.d
      /\ (f.n > 0 => Normalized(f).n > 0)
  BY NormalizedKeeps
<1> DEFINE b == 2 * Million * Million
<1>2. b \in Nat /\ f.n <= b /\ f.n \in Nat
  BY MillionAssumption DEF BoundValid, Positive
<1>3. Normalized(f).n \in Nat
  BY <1>1 DEF Positive
<1> HIDE DEF b
<1>4. Normalized(f).n <= b
  BY <1>1, <1>2, <1>3
<1>5. Normalized(f).d \in 1 .. Million
  BY <1>1, MillionAssumption DEF BoundValid, Positive
<1> QED BY <1>1, <1>4, <1>5 DEF b, BoundValid

\* The window of some options is valid; it is empty if two of them clash.
LEMMA WindowOfRates ==
  ASSUME NEW R, R # {}, \A o \in R : Rates(o), NEW w \in Window, TellsWindow(w, R)
  PROVE  /\ WindowValid(w)
         /\ Empty(w) <=> Clashes(R)
<1>1. /\ w.specified /\ w.lower \in Ratio /\ w.upper \in Ratio
      /\ IsGreatest(w.lower, {LowerOf(o) : o \in R})
      /\ IsLeast(w.upper, {UpperOf(o) : o \in R})
  BY DEF TellsWindow, Window
<1>2. PICK p \in R : SameFraction(LowerOf(p), w.lower)
  BY <1>1 DEF IsGreatest
<1>3. PICK q \in R : SameFraction(UpperOf(q), w.upper)
  BY <1>1 DEF IsLeast
<1>4. /\ Positive(LowerOf(p)) /\ BoundValid(LowerOf(p))
      /\ Positive(UpperOf(q)) /\ BoundValid(UpperOf(q)) /\ UpperOf(q).n > 0
  BY RateBounds
<1>5. w.lower = Normalized(LowerOf(p)) /\ w.upper = Normalized(UpperOf(q))
  BY <1>1, <1>2, <1>3, <1>4, LowestIsNormalized DEF IsGreatest, IsLeast
<1>6. WindowValid(w) /\ Positive(w.lower) /\ Positive(w.upper)
  BY <1>1, <1>4, <1>5, NormalizedBound, NormalizedKeeps DEF WindowValid
<1>7. ASSUME AtMost(w.lower, w.upper), NEW x \in R, NEW y \in R
      PROVE  AtMost(LowerOf(x), UpperOf(y))
  <2>1. Positive(LowerOf(x)) /\ Positive(UpperOf(y))
    BY RateBounds
  <2>2. AtMost(LowerOf(x), w.lower) /\ AtMost(w.upper, UpperOf(y))
    BY <1>1 DEF IsGreatest, IsLeast
  <2>3. AtMost(LowerOf(x), w.upper)
    BY <1>6, <1>7, <2>1, <2>2, AtMostOrders
  <2> QED BY <1>6, <2>1, <2>2, <2>3, AtMostOrders
<1>8. ASSUME AtMost(LowerOf(p), UpperOf(q)) PROVE AtMost(w.lower, w.upper)
  <2>1. AtMost(w.lower, UpperOf(q))
    BY <1>2, <1>4, <1>6, <1>8, AtMostAgrees
  <2> QED BY <1>3, <1>4, <1>6, <2>1, AtMostAgrees
<1> QED BY <1>6, <1>7, <1>8 DEF Empty, Clashes

\* The intersection of a window with another tells both.
LEMMA WindowJoins ==
  ASSUME NEW R, \A p \in R : Rates(p), NEW o, Rates(o), NEW w \in Window, TellsWindow(w, R)
  PROVE  LET v == Intersect(w, Around(o.rate, o.ppm))
         IN  v \in Window /\ TellsWindow(v, R \cup {o})
<1> DEFINE lower == LowerOf(o)
           upper == UpperOf(o)
           around == Around(o.rate, o.ppm)
           v == Intersect(w, around)
           lowers == {LowerOf(p) : p \in R}
           uppers == {UpperOf(p) : p \in R}
<1>1. Positive(lower) /\ Positive(upper)
  BY RateBounds
<1>2. around = [specified |-> TRUE, lower |-> Normalized(lower), upper |-> Normalized(upper)]
  BY DEF Around, LowerOf, UpperOf
<1>3. /\ Normalized(lower) \in Ratio /\ Positive(Normalized(lower))
      /\ SameFraction(Normalized(lower), lower)
      /\ Normalized(upper) \in Ratio /\ Positive(Normalized(upper))
      /\ SameFraction(Normalized(upper), upper)
  BY <1>1, NormalizedKeeps
<1>4. /\ {LowerOf(p) : p \in R \cup {o}} = lowers \cup {lower}
      /\ {UpperOf(p) : p \in R \cup {o}} = uppers \cup {upper}
  OBVIOUS
<1>5. /\ \A f \in lowers : Positive(f)
      /\ \A f \in uppers : Positive(f)
  BY RateBounds
<1>w. w.lower \in Ratio /\ w.upper \in Ratio
  BY DEF Window
<1>6. /\ IsGreatest(Normalized(lower), {lower})
      /\ IsGreatest(w.lower, lowers) =>
           /\ AtMost(w.lower, lower) => IsGreatest(Normalized(lower), lowers \cup {lower})
           /\ AtMost(lower, w.lower) => IsGreatest(w.lower, lowers \cup {lower})
  BY <1>1, <1>5, <1>w, GreatestJoins
<1>7. /\ IsLeast(Normalized(upper), {upper})
      /\ IsLeast(w.upper, uppers) =>
           /\ AtMost(upper, w.upper) => IsLeast(Normalized(upper), uppers \cup {upper})
           /\ AtMost(w.upper, upper) => IsLeast(w.upper, uppers \cup {upper})
  BY <1>1, <1>5, <1>w, LeastJoins
<1> HIDE DEF lower, upper, around, lowers, uppers
<1>8. CASE R = {}
  <2>1. ~w.specified
    BY <1>8 DEF TellsWindow, Unspecified
  <2>2. v = around
    BY <2>1 DEF Intersect
  <2>3. lowers = {} /\ uppers = {}
    BY <1>8 DEF lowers, uppers
  <2>4. v \in Window
    <3>1. around \in Window
      BY <1>2, <1>3 DEF Window
    <3> QED BY <2>2, <3>1
  <2>5. v.specified /\ IsGreatest(v.lower, lowers \cup {lower}) /\ IsLeast(v.upper, uppers \cup {upper})
    BY <1>2, <1>6, <1>7, <2>2, <2>3
  <2> QED BY <1>4, <2>4, <2>5 DEF TellsWindow, around
<1>9. CASE R # {}
  <2>1. w.specified /\ IsGreatest(w.lower, lowers) /\ IsLeast(w.upper, uppers)
    BY <1>9 DEF TellsWindow, lowers, uppers
  <2>2. v = [specified |-> TRUE,
             lower |-> IF AtMost(w.lower, Normalized(lower)) THEN Normalized(lower) ELSE w.lower,
             upper |-> IF AtMost(w.upper, Normalized(upper)) THEN w.upper ELSE Normalized(upper)]
    BY <1>2, <2>1 DEF Intersect
  <2>3. Positive(w.lower) /\ Positive(w.upper)
    BY <1>w, <2>1 DEF IsGreatest, IsLeast, InLowestTerms, Positive, Ratio
  <2>4. v \in Window
    BY <1>3, <1>w, <2>2 DEF Window
  <2>5. IsGreatest(v.lower, lowers \cup {lower})
    <3>1. AtMost(w.lower, Normalized(lower)) <=> AtMost(w.lower, lower)
      BY <1>1, <1>3, <2>3, AtMostAgrees
    <3>2. ~AtMost(w.lower, lower) => AtMost(lower, w.lower)
      BY <1>1, <2>3, AtMostOrders
    <3>3. v.lower = IF AtMost(w.lower, lower) THEN Normalized(lower) ELSE w.lower
      BY <2>2, <3>1
    <3> QED BY <1>6, <2>1, <3>2, <3>3
  <2>6. IsLeast(v.upper, uppers \cup {upper})
    <3>1. AtMost(w.upper, Normalized(upper)) <=> AtMost(w.upper, upper)
      BY <1>1, <1>3, <2>3, AtMostAgrees
    <3>2. ~AtMost(w.upper, upper) => AtMost(upper, w.upper)
      BY <1>1, <2>3, AtMostOrders
    <3>3. v.upper = IF AtMost(w.upper, upper) THEN w.upper ELSE Normalized(upper)
      BY <2>2, <3>1
    <3> QED BY <1>7, <2>1, <3>2, <3>3
  <2>7. v.specified
    BY <2>2
  <2> QED BY <1>4, <2>4, <2>5, <2>6, <2>7 DEF TellsWindow, around
<1> QED BY <1>8, <1>9 DEF around

\* Intersecting with a frequency's window tells it, or the conflict.
LEMMA FrequencyFollows ==
  ASSUME NEW t, NEW A, A \subseteq Option, NEW c, Follows(t, c, A),
         NEW o \in Option, o.kind = "frequency", ~Unsupported(t, o), ~IllFormed(o)
  PROVE  LET window == Intersect(c.frequency, Around(o.rate, o.ppm))
             narrowed == [c EXCEPT !.frequency = window]
         IN  Follows(t, IF Empty(window) THEN Failed(narrowed, "conflict") ELSE narrowed,
                     A \cup {o})
<1> DEFINE S == Sound(t, A)
           rates == Given("frequency", S)
           window == Intersect(c.frequency, Around(o.rate, o.ppm))
           narrowed == [c EXCEPT !.frequency = window]
           d == IF Empty(window) THEN Failed(narrowed, "conflict") ELSE narrowed
           clash == Clashes(rates \cup {o})
<1>1. c \in Config /\ Tells(c, S) /\ c.frequency \in Window
  BY ConfigFields DEF Follows
<1>2. Rates(o)
  BY OptionFields DEF Unsupported, IllFormed, Rates
<1>3. \A p \in rates : Rates(p)
  BY SoundRates
<1>4. Given("frequency", S \cup {o}) = rates \cup {o}
      /\ Given("duty_step", S \cup {o}) = Given("duty_step", S)
      /\ Given("counter_bits", S \cup {o}) = Given("counter_bits", S)
  <2> HIDE DEF S
  <2>1. Given("frequency", S \cup {o}) = rates \cup {o}
    BY DEF Given
  <2>2. Given("duty_step", S \cup {o}) = Given("duty_step", S)
    BY DEF Given
  <2>3. Given("counter_bits", S \cup {o}) = Given("counter_bits", S)
    BY DEF Given
  <2> QED BY <2>1, <2>2, <2>3
<1>5. /\ PinsOf(S \cup {o}) = PinsOf(S) /\ TimersOf(S \cup {o}) = TimersOf(S)
      /\ WaveformsOf(S \cup {o}) = WaveformsOf(S) /\ SourcesOf(S \cup {o}) = SourcesOf(S)
  BY NamedGrow
<1> HIDE DEF S, rates, window
<1>6. /\ TellsWindow(c.frequency, rates)
      /\ TellsStep(c.step, Given("duty_step", S))
      /\ TellsBits(c.counter_bits_at_least, Given("counter_bits", S))
      /\ OneOf(c.pin, PinsOf(S), 0) /\ OneOf(c.required_timer, TimersOf(S), 0)
      /\ OneOf(c.waveform, WaveformsOf(S), "any") /\ OneOf(c.source, SourcesOf(S), "any")
  BY <1>1, TellsParts DEF rates
<1>7. window \in Window /\ TellsWindow(window, rates \cup {o})
  BY <1>1, <1>2, <1>3, <1>6, WindowJoins DEF window
<1>8. Empty(window) <=> clash
  <2>1. \A p \in rates \cup {o} : Rates(p)
    BY <1>2, <1>3
  <2> QED BY <1>7, <2>1, WindowOfRates
<1>9. /\ narrowed \in Config /\ narrowed.frequency = window /\ narrowed.error = c.error
      /\ SameBut("frequency", narrowed, c)
  BY <1>1, <1>7 DEF Config, SameBut
<1> HIDE DEF narrowed, clash
<1>10. /\ Failed(narrowed, "conflict") \in Config
       /\ SameBut("error", Failed(narrowed, "conflict"), narrowed)
       /\ Failed(narrowed, "conflict").error = "conflict"
  BY <1>9, FailedIs
<1>11. d \in Config /\ SameBut("error", d, narrowed)
  BY <1>9, <1>10 DEF SameBut
<1>12. d.error = IF clash THEN "conflict" ELSE c.error
  BY <1>8, <1>9, <1>10
<1> HIDE DEF d
<1>13. /\ d.frequency = window /\ d.step = c.step
       /\ d.counter_bits_at_least = c.counter_bits_at_least
       /\ d.pin = c.pin /\ d.required_timer = c.required_timer
       /\ d.waveform = c.waveform /\ d.source = c.source
  BY <1>9, <1>11 DEF SameBut
<1>14. Tells(d, S \cup {o})
  BY <1>4, <1>5, <1>6, <1>7, <1>13, TellsParts
<1>15. Contradictory(S \cup {o}) <=> Contradictory(S) \/ clash
  <2>1. Clashes(rates) => clash
    BY DEF Clashes, clash
  <2>2. /\ Contradictory(S \cup {o}) <=>
             \/ clash \/ Differ(PinsOf(S)) \/ Differ(TimersOf(S))
             \/ Differ(WaveformsOf(S)) \/ Differ(SourcesOf(S))
        /\ Contradictory(S) <=>
             \/ Clashes(rates) \/ Differ(PinsOf(S)) \/ Differ(TimersOf(S))
             \/ Differ(WaveformsOf(S)) \/ Differ(SourcesOf(S))
    BY <1>4, <1>5, ContradictoryParts DEF clash, rates
  <2> QED BY <2>1, <2>2
<1>16. clash \in BOOLEAN
  BY DEF clash, Clashes
<1>17. Follows(t, d, A \cup {o})
  BY <1>11, <1>12, <1>14, <1>15, <1>16, JoinFollows DEF S
<1> QED BY <1>17 DEF d, narrowed, window

-----------------------------------------------------------------------------
(* The declaration.  What has been declared does not change. *)

Declared == resident \in Residents /\ instances \in Programs

\* The types of what has been declared.
LEMMA UsesAre ==
  ASSUME Declared
  PROVE  /\ resident \in Targets
         /\ AllUses \in Seq(Use) /\ Len(AllUses) \in Nat
         /\ \A k \in 1 .. Len(AllUses) :
              /\ AllUses[k] \in Use /\ AllUses[k].options \in Seq(Option)
              /\ AllUses[k].instance \in Nat /\ AllUses[k].local \in Nat
              /\ Key(AllUses[k]) \in Nat \X Nat
<1>1. AllUses \in Seq(Use) /\ resident \in Targets
  BY DeclarationAssumption DEF Declared, AllUses
<1>2. \A use \in Use : /\ use.options \in Seq(Option)
                       /\ use.instance \in Nat /\ use.local \in Nat
                       /\ Key(use) \in Nat \X Nat
  BY DEF Use, Key
<1>3. Len(AllUses) \in Nat /\ \A k \in 1 .. Len(AllUses) : AllUses[k] \in Use
  BY <1>1
<1> QED BY <1>1, <1>2, <1>3

\* The uses change with the program only.
LEMMA SameUses ==
  ASSUME UNCHANGED <<resident, instances>>
  PROVE  AllUses' = AllUses /\ (Declared' <=> Declared) /\ (Trusted' <=> Trusted)
BY DEF AllUses, Declared, Trusted

\* As many keys as requests: they differ.
LEMMA TrustedIsValid ==
  ASSUME Declared
  PROVE  Trusted <=> ValidIdentities
<1> DEFINE n == Len(AllUses)
           S == 1 .. n
           K(k) == Key(AllUses[k])
           keys == {K(k) : k \in S}
           f == [k \in S |-> K(k)]
<1>1. n \in Nat /\ \A k \in S : AllUses[k].instance \in Nat /\ AllUses[k].local \in Nat
  BY UsesAre
<1>2. IsFiniteSet(S) /\ Cardinality(S) = n
  <2>1. 1 \in Int /\ n \in Int
    BY <1>1
  <2>2. IsFiniteSet(S) /\ Cardinality(S) = IF 1 > n THEN 0 ELSE n - 1 + 1
    BY <2>1, FS_Interval
  <2> QED BY <1>1, <2>2
<1>3. f \in Surjection(S, keys)
  BY DEF Surjection
<1>4. Cardinality(keys) = n <=> f \in Injection(S, keys)
  BY <1>2, <1>3, FS_Surjection
<1>5. f \in Injection(S, keys) <=> \A i, j \in S : K(i) = K(j) => i = j
  <2>1. f \in [S -> keys]
    OBVIOUS
  <2> QED BY <2>1 DEF Injection, IsInjective
<1>6. \A k \in S : K(k)[1] = AllUses[k].instance /\ K(k)[2] = AllUses[k].local
  BY DEF Key
<1>7. ValidIdentities <=> /\ \A k \in S : AllUses[k].instance # 0 /\ AllUses[k].local # 0
                          /\ \A i \in S : \A j \in 1 .. (i - 1) : K(i) # K(j)
  BY DEF ValidIdentities
<1>8. Trusted <=> /\ Cardinality(keys) = n
                  /\ \A k \in S : 0 \notin {K(k)[1], K(k)[2]}
  BY DEF Trusted
<1> HIDE DEF K, keys, f, n
<1>9. (\A i, j \in S : K(i) = K(j) => i = j)
        <=> \A i \in S : \A j \in 1 .. (i - 1) : K(i) # K(j)
  <2>1. ASSUME \A i, j \in S : K(i) = K(j) => i = j, NEW i \in S, NEW j \in 1 .. (i - 1)
        PROVE  K(i) # K(j)
    <3>1. j \in S /\ j # i
      BY <1>1
    <3> QED BY <2>1, <3>1
  <2>2. ASSUME \A i \in S : \A j \in 1 .. (i - 1) : K(i) # K(j),
               NEW i \in S, NEW j \in S, K(i) = K(j)
        PROVE  i = j
    <3>1. CASE i < j
      <4>1. i \in 1 .. (j - 1)
        BY <1>1, <3>1
      <4> QED BY <2>2, <4>1
    <3>2. CASE j < i
      <4>1. j \in 1 .. (i - 1)
        BY <1>1, <3>2
      <4> QED BY <2>2, <4>1
    <3> QED BY <1>1, <3>1, <3>2
  <2> QED BY <2>1, <2>2
<1> QED BY <1>4, <1>5, <1>6, <1>7, <1>8, <1>9

\* The active options among the first are options, and grow one at a time.
LEMMA ActiveOnesGrow ==
  ASSUME NEW t, NEW list \in Seq(Option), NEW n \in Nat, n <= Len(list)
  PROVE  /\ ActiveOnes(t, list, n) \subseteq Option
         /\ ActiveOnes(t, list, 0) = {}
         /\ n < Len(list) =>
              ActiveOnes(t, list, n + 1)
                = IF Active(t, list[n + 1]) THEN ActiveOnes(t, list, n) \cup {list[n + 1]}
                                            ELSE ActiveOnes(t, list, n)
<1>1. \A i \in 1 .. n : list[i] \in Option
  OBVIOUS
<1>2. ActiveOnes(t, list, n) \subseteq Option
  BY <1>1 DEF ActiveOnes
<1>3. ActiveOnes(t, list, 0) = {}
  BY DEF ActiveOnes
<1>4. 1 .. (n + 1) = (1 .. n) \cup {n + 1}
  OBVIOUS
<1>5. ActiveOnes(t, list, n + 1)
        = IF Active(t, list[n + 1]) THEN ActiveOnes(t, list, n) \cup {list[n + 1]}
                                    ELSE ActiveOnes(t, list, n)
  BY <1>4 DEF ActiveOnes
<1> QED BY <1>2, <1>3, <1>5

\* Before any option, a Config tells nothing.
LEMMA NothingFollows ==
  ASSUME NEW t
  PROVE  Follows(t, NoConfig, {})
<1>1. NoConfig \in Config
  BY DEF NoConfig, Config, Window, Unspecified, Ratio, Errors, Rank
<1>2. Sound(t, {}) = {}
  BY DEF Sound
<1>3. /\ \A kind : Given(kind, {}) = {}
      /\ PinsOf({}) = {} /\ TimersOf({}) = {} /\ WaveformsOf({}) = {} /\ SourcesOf({}) = {}
  BY DEF Given, PinsOf, TimersOf, WaveformsOf, SourcesOf
<1>4. /\ NoConfig.frequency = Unspecified /\ NoConfig.pin = 0
      /\ NoConfig.waveform = "any" /\ NoConfig.source = "any"
      /\ NoConfig.required_timer = 0 /\ NoConfig.counter_bits_at_least = 0
      /\ NoConfig.error = "none"
  BY DEF NoConfig
<1>5. Tells(NoConfig, {})
  BY <1>3, <1>4, TellsParts DEF TellsWindow, TellsStep, TellsBits, OneOf
<1>6. ErrorSoFar(t, {}) = "none"
  BY <1>2, <1>3 DEF ErrorSoFar, ErrorOf, Contradictory, Differ
<1> QED BY <1>1, <1>2, <1>4, <1>5, <1>6 DEF Follows

-----------------------------------------------------------------------------
(* The step that applies an option, whichever it is. *)

\* Applying an option takes it from those to do; without effect if inactive.
LEMMA ApplyVisits ==
  ASSUME Apply
  PROVE  Visit /\ (Active(resident, Head(todo)) \/ ApplyInactive)
BY DEF Apply, ApplyInactive, ApplyUnknown, ApplyFrequency, ApplyDutyStepAtMost, ApplyPin,
       ApplyCounterBitsAtLeast, ApplyRequireTimer, ApplyAvrWaveform, ApplyAvrSource,
       ApplyApbClock, Applying

\* An option for another target leaves the Config alone.
LEMMA ApplyInactiveFollows ==
  ASSUME NEW A, Follows(resident, config, A), ApplyInactive, NEW d, d = config'
  PROVE  Follows(resident, d, A) /\ ~Active(resident, Head(todo))
BY DEF ApplyInactive

\* The primary template.
LEMMA ApplyUnknownFollows ==
  ASSUME NEW A, NEW c, c = config, NEW t, t = resident, Follows(t, c, A),
         ApplyUnknown, NEW d, d = config', NEW o, o = Head(todo)
  PROVE  Follows(t, d, A \cup {o})
<1>1. d = Failed(c, "unsupported_option") /\ Unsupported(t, o)
  BY DEF ApplyUnknown, Applying, Refuse, Unsupported
<1> QED BY <1>1, RefusedFollows

\* The action that applies a frequency.
LEMMA ApplyFrequencyFollows ==
  ASSUME NEW A, A \subseteq Option, NEW c, c = config, NEW t, t = resident, Follows(t, c, A),
         ApplyFrequency, NEW d, d = config', NEW o \in Option, o = Head(todo)
  PROVE  Follows(t, d, A \cup {o})
<1> DEFINE possible == Valid(o.rate) /\ o.ppm <= Million
           window == Intersect(c.frequency, Around(o.rate, o.ppm))
           narrowed == [c EXCEPT !.frequency = window]
<1>0. o.kind = "frequency"
  BY DEF ApplyFrequency, Applying
<1>1. \/ ~o.supported /\ d = Failed(c, "unsupported_option")
      \/ o.supported /\ ~possible /\ d = Failed(c, "invalid_value")
      \/ o.supported /\ possible
           /\ d = IF Empty(window) THEN Failed(narrowed, "conflict") ELSE narrowed
  BY DEF ApplyFrequency, Refuse
<1>2. /\ Unsupported(t, o) <=> ~o.supported
      /\ IllFormed(o) <=> o.supported /\ ~possible
  BY <1>0 DEF Unsupported, IllFormed
<1>3. CASE ~o.supported /\ d = Failed(c, "unsupported_option")
  BY <1>2, <1>3, RefusedFollows
<1>4. CASE o.supported /\ ~possible /\ d = Failed(c, "invalid_value")
  BY <1>2, <1>4, RefusedFollows
<1>5. CASE o.supported /\ possible
             /\ d = IF Empty(window) THEN Failed(narrowed, "conflict") ELSE narrowed
  BY <1>0, <1>2, <1>5, FrequencyFollows
<1> QED BY <1>1, <1>3, <1>4, <1>5

\* The action that applies a duty step.
LEMMA ApplyStepFollows ==
  ASSUME NEW A, A \subseteq Option, NEW c, c = config, NEW t, t = resident, Follows(t, c, A),
         ApplyDutyStepAtMost, NEW d, d = config', NEW o \in Option, o = Head(todo)
  PROVE  Follows(t, d, A \cup {o})
<1>0. o.kind = "duty_step"
  BY DEF ApplyDutyStepAtMost, Applying
<1>1. \/ ~FineStep(o.step) /\ d = Failed(c, "invalid_value")
      \/ FineStep(o.step)
           /\ d = IF c.step.n = 0 \/ AtMost(o.step, c.step)
                  THEN [c EXCEPT !.step = Normalized(o.step)] ELSE c
  BY DEF ApplyDutyStepAtMost, Refuse
<1>2. ~Unsupported(t, o) /\ (IllFormed(o) <=> ~FineStep(o.step))
  BY <1>0 DEF Unsupported, IllFormed, FineStep
<1>3. CASE ~FineStep(o.step) /\ d = Failed(c, "invalid_value")
  BY <1>2, <1>3, RefusedFollows
<1>4. CASE FineStep(o.step)
             /\ d = IF c.step.n = 0 \/ AtMost(o.step, c.step)
                    THEN [c EXCEPT !.step = Normalized(o.step)] ELSE c
  BY <1>0, <1>4, StepFollows
<1> QED BY <1>1, <1>3, <1>4

\* The action that applies a pin.
LEMMA ApplyPinFollows ==
  ASSUME NEW A, A \subseteq Option, NEW c, c = config, NEW t, t = resident, Follows(t, c, A),
         ApplyPin, NEW d, d = config', NEW o \in Option, o = Head(todo)
  PROVE  Follows(t, d, A \cup {o})
<1>0. o.kind = "pin"
  BY DEF ApplyPin, Applying
<1>1. \/ o.pin = 0 /\ d = Failed(c, "invalid_value")
      \/ o.pin # 0 /\ d = Merged(c, "pin", 0, o.pin)
  BY DEF ApplyPin, Refuse, Merge
<1>2. ~Unsupported(t, o) /\ (IllFormed(o) <=> o.pin = 0)
  BY <1>0 DEF Unsupported, IllFormed
<1>3. CASE o.pin = 0 /\ d = Failed(c, "invalid_value")
  BY <1>2, <1>3, RefusedFollows
<1>4. CASE o.pin # 0 /\ d = Merged(c, "pin", 0, o.pin)
  BY <1>0, <1>4, PinFollows
<1> QED BY <1>1, <1>3, <1>4

\* The action that applies a counter width.
LEMMA ApplyBitsFollows ==
  ASSUME NEW A, A \subseteq Option, NEW c, c = config, NEW t, t = resident, Follows(t, c, A),
         ApplyCounterBitsAtLeast, NEW d, d = config', NEW o \in Option, o = Head(todo)
  PROVE  Follows(t, d, A \cup {o})
<1> DEFINE n == c.counter_bits_at_least
<1>0. o.kind = "counter_bits" /\ o.bits \in Nat /\ n \in Nat
  BY OptionFields, ConfigFields DEF ApplyCounterBitsAtLeast, Applying, Follows
<1>1. \/ o.bits = 0 /\ d = Failed(c, "invalid_value")
      \/ o.bits > n /\ d = [c EXCEPT !.counter_bits_at_least = o.bits]
      \/ o.bits # 0 /\ o.bits <= n /\ d = c
  BY DEF ApplyCounterBitsAtLeast, Refuse
<1>2. ~Unsupported(t, o) /\ (IllFormed(o) <=> o.bits = 0)
  BY <1>0 DEF Unsupported, IllFormed
<1>3. CASE o.bits = 0 /\ d = Failed(c, "invalid_value")
  BY <1>2, <1>3, RefusedFollows
<1>4. CASE o.bits > n /\ d = [c EXCEPT !.counter_bits_at_least = o.bits]
  <2>1. o.bits # 0
    BY <1>0, <1>4
  <2> QED BY <1>0, <1>4, <2>1, BitsFollow
<1>5. CASE o.bits # 0 /\ o.bits <= n /\ d = c
  BY <1>0, <1>5, BitsFollow
<1> QED BY <1>1, <1>3, <1>4, <1>5

\* The action that applies a timer.
LEMMA ApplyTimerFollows ==
  ASSUME NEW A, A \subseteq Option, NEW c, c = config, NEW t, t = resident, Follows(t, c, A),
         ApplyRequireTimer, NEW d, d = config', NEW o \in Option, o = Head(todo)
  PROVE  Follows(t, d, A \cup {o})
<1> DEFINE known == t = "atmega328p" /\ o.timer # 0
<1>0. o.kind = "require_timer"
  BY DEF ApplyRequireTimer, Applying
<1>1. \/ ~known /\ d = Failed(c, "unsupported_option")
      \/ known /\ d = Merged(c, "required_timer", 0, o.timer)
  BY DEF ApplyRequireTimer, Refuse, Merge
<1>2. Unsupported(t, o) <=> ~known
  BY <1>0 DEF Unsupported
<1>3. CASE ~known /\ d = Failed(c, "unsupported_option")
  BY <1>2, <1>3, RefusedFollows
<1>4. CASE known /\ d = Merged(c, "required_timer", 0, o.timer)
  BY <1>0, <1>4, TimerFollows
<1> QED BY <1>1, <1>3, <1>4

\* The action that applies a waveform.
LEMMA ApplyWaveformFollows ==
  ASSUME NEW A, A \subseteq Option, NEW c, c = config, NEW t \in Targets, t = resident,
         Follows(t, c, A), ApplyAvrWaveform, NEW d, d = config', NEW o \in Option, o = Head(todo)
  PROVE  Follows(t, d, A \cup {o})
<1>0. o.kind = "avr_waveform"
  BY DEF ApplyAvrWaveform, Applying
<1>1. \/ ~Matches(t, "avr") /\ d = Failed(c, "unsupported_option")
      \/ Matches(t, "avr") /\ d = Merged(c, "waveform", "any", o.waveform)
  BY DEF ApplyAvrWaveform, Refuse, Merge
<1>2. Unsupported(t, o) <=> ~Matches(t, "avr")
  BY <1>0 DEF Unsupported, Matches, Targets
<1>3. CASE ~Matches(t, "avr") /\ d = Failed(c, "unsupported_option")
  BY <1>2, <1>3, RefusedFollows
<1>4. CASE Matches(t, "avr") /\ d = Merged(c, "waveform", "any", o.waveform)
  BY <1>0, <1>4, WaveformFollows
<1> QED BY <1>1, <1>3, <1>4

\* The action that applies a clock source.
LEMMA ApplySourceFollows ==
  ASSUME NEW A, A \subseteq Option, NEW c, c = config, NEW t \in Targets, t = resident,
         Follows(t, c, A), ApplyAvrSource, NEW d, d = config', NEW o \in Option, o = Head(todo)
  PROVE  Follows(t, d, A \cup {o})
<1>0. o.kind = "avr_source"
  BY DEF ApplyAvrSource, Applying
<1>1. \/ ~Matches(t, "avr") /\ d = Failed(c, "unsupported_option")
      \/ Matches(t, "avr") /\ d = Merged(c, "source", "any", o.source)
  BY DEF ApplyAvrSource, Refuse, Merge
<1>2. Unsupported(t, o) <=> ~Matches(t, "avr")
  BY <1>0 DEF Unsupported, Matches, Targets
<1>3. CASE ~Matches(t, "avr") /\ d = Failed(c, "unsupported_option")
  BY <1>2, <1>3, RefusedFollows
<1>4. CASE Matches(t, "avr") /\ d = Merged(c, "source", "any", o.source)
  BY <1>0, <1>4, SourceFollows
<1> QED BY <1>1, <1>3, <1>4

\* The action that applies the APB clock.
LEMMA ApplyApbFollows ==
  ASSUME NEW A, A \subseteq Option, NEW c, c = config, NEW t, t = resident, Follows(t, c, A),
         ApplyApbClock, NEW d, d = config', NEW o \in Option, o = Head(todo)
  PROVE  Follows(t, d, A \cup {o})
<1>0. o.kind = "apb_clock"
  BY DEF ApplyApbClock, Applying
<1>1. \/ t # "esp32" /\ d = Failed(c, "unsupported_option")
      \/ t = "esp32" /\ d = Merged(c, "source", "any", "apb")
  BY DEF ApplyApbClock, Refuse, Merge
<1>2. Unsupported(t, o) <=> t # "esp32"
  BY <1>0 DEF Unsupported
<1>3. CASE t # "esp32" /\ d = Failed(c, "unsupported_option")
  BY <1>2, <1>3, RefusedFollows
<1>4. CASE t = "esp32" /\ d = Merged(c, "source", "any", "apb")
  BY <1>0, <1>4, ApbFollows
<1> QED BY <1>1, <1>3, <1>4

\* Whatever option is applied, the Config tells it as well.
LEMMA ApplyFollows ==
  ASSUME NEW A, A \subseteq Option, resident \in Targets, Follows(resident, config, A),
         Apply, NEW d, d = config', NEW o \in Option, o = Head(todo)
  PROVE  Follows(resident, d, IF Active(resident, o) THEN A \cup {o} ELSE A)
<1>1. PICK t : t = resident
  OBVIOUS
<1>2. PICK c : c = config
  OBVIOUS
<1>3. t \in Targets /\ Follows(t, c, A)
  BY <1>1, <1>2
<1>4. ASSUME Active(t, o), ~ApplyInactive PROVE Follows(t, d, A \cup {o})
  <2>1. CASE ApplyUnknown
    BY <1>1, <1>2, <1>3, <2>1, ApplyUnknownFollows
  <2>2. CASE ApplyFrequency
    BY <1>1, <1>2, <1>3, <2>2, ApplyFrequencyFollows
  <2>3. CASE ApplyDutyStepAtMost
    BY <1>1, <1>2, <1>3, <2>3, ApplyStepFollows
  <2>4. CASE ApplyPin
    BY <1>1, <1>2, <1>3, <2>4, ApplyPinFollows
  <2>5. CASE ApplyCounterBitsAtLeast
    BY <1>1, <1>2, <1>3, <2>5, ApplyBitsFollows
  <2>6. CASE ApplyRequireTimer
    BY <1>1, <1>2, <1>3, <2>6, ApplyTimerFollows
  <2>7. CASE ApplyAvrWaveform
    BY <1>1, <1>2, <1>3, <2>7, ApplyWaveformFollows
  <2>8. CASE ApplyAvrSource
    BY <1>1, <1>2, <1>3, <2>8, ApplySourceFollows
  <2>9. CASE ApplyApbClock
    BY <1>1, <1>2, <1>3, <2>9, ApplyApbFollows
  <2> QED BY <1>4, <2>1, <2>2, <2>3, <2>4, <2>5, <2>6, <2>7, <2>8, <2>9 DEF Apply
<1>5. ASSUME ApplyInactive PROVE Follows(t, d, A) /\ ~Active(t, o)
  BY <1>1, <1>2, <1>3, <1>5, ApplyInactiveFollows
<1>6. Active(t, o) \/ ApplyInactive
  BY <1>1, ApplyVisits
<1> QED BY <1>1, <1>4, <1>5, <1>6

-----------------------------------------------------------------------------
(* The invariant of the declaration. *)

DeclaredInv == Declared /\ DeclareInv /\ ConfigsTellTheirSets

\* The configurations of the request that is being evaluated.
LEMMA Evaluating ==
  ASSUME Declared, DeclareTypeOK, declaring = "apply"
  PROVE  TellsApplied <=>
           /\ Len(values) < Len(AllUses)
           /\ LET options == AllUses[Len(values) + 1].options
                  count == Len(options) - Len(todo)
              IN  /\ count \in Nat
                  /\ \A i \in DOMAIN todo : todo[i] = options[count + i]
                  /\ Follows(resident, config, ActiveOnes(resident, options, count))
<1>1. config \in Config /\ todo \in Seq(Option) /\ Len(values) \in Nat /\ Len(todo) \in Nat
  BY DEF DeclareTypeOK
<1>2. Len(values) < Len(AllUses) => AllUses[Len(values) + 1].options \in Seq(Option)
  <2>1. Len(AllUses) \in Nat
    BY UsesAre
  <2>2. Len(values) < Len(AllUses) => Len(values) + 1 \in 1 .. Len(AllUses)
    BY <1>1, <2>1
  <2> QED BY <2>2, UsesAre
<1>3. ASSUME Len(values) < Len(AllUses)
      PROVE  LET options == AllUses[Len(values) + 1].options
                 count == Len(options) - Len(todo)
             IN  count >= 0 <=> count \in Nat
  <2>1. Len(AllUses[Len(values) + 1].options) \in Nat
    BY <1>2, <1>3
  <2> QED BY <1>1, <2>1
<1>4. \A S : ErrorOf(resident, S, FALSE) = ErrorSoFar(resident, S)
  BY DEF ErrorSoFar
<1>5. TellsApplied <=>
        /\ Len(values) < Len(AllUses)
        /\ LET options == AllUses[Len(values) + 1].options
               count == Len(options) - Len(todo)
               applied == ActiveOnes(resident, options, count)
           IN  /\ count >= 0
               /\ \A i \in DOMAIN todo : todo[i] = options[count + i]
               /\ Tells(config, Sound(resident, applied))
               /\ config.error = ErrorSoFar(resident, applied)
  BY DEF TellsApplied, ErrorSoFar
<1> QED BY <1>1, <1>3, <1>5 DEF Follows

\* Names are checked before anything is evaluated.
LEMMA CheckNamesInv == ASSUME DeclaredInv, CheckNames PROVE DeclaredInv'
<1>1. /\ declaring = "identities" /\ declaring' \in {"next", "done"}
      /\ resident' = resident /\ instances' = instances /\ config' = config /\ todo' = todo
      /\ Declared /\ DeclareTypeOK /\ RequestsAreDeclared
  BY DEF CheckNames, DeclaredInv, DeclareInv
<1>2. AllUses' = AllUses /\ (Declared' <=> Declared) /\ (Trusted' <=> Trusted)
  BY <1>1, SameUses
<1>3. values = <<>> /\ Len(AllUses) \in Nat
  BY <1>1, UsesAre DEF RequestsAreDeclared
<1>4. TellsApplied'
  BY <1>1 DEF TellsApplied
<1>5. CASE ValidIdentities /\ declaring' = "next" /\ values' = values
  <2>1. Trusted
    BY <1>1, <1>5, TrustedIsValid
  <2>2. DeclareTypeOK'
    BY <1>1, <1>2, <1>5 DEF DeclareTypeOK
  <2>3. RequestsAreDeclared'
    BY <1>1, <1>2, <1>5, <2>1 DEF RequestsAreDeclared
  <2>4. ConfigsTellTheirSets'
    BY <1>3, <1>5 DEF ConfigsTellTheirSets
  <2> QED BY <1>1, <1>2, <1>4, <2>2, <2>3, <2>4 DEF DeclaredInv, DeclareInv
<1>6. CASE /\ ~ValidIdentities /\ declaring' = "done"
           /\ values' = [i \in 1 .. Len(AllUses) |->
                           [key |-> Key(AllUses[i]), config |-> NoConfig]]
  <2>1. ~Trusted
    BY <1>1, <1>6, TrustedIsValid
  <2>2. /\ values' \in Seq([key : Nat \X Nat, config : Config])
        /\ Len(values') = Len(AllUses) /\ DOMAIN values' = 1 .. Len(AllUses)
    <3>1. \A i \in 1 .. Len(AllUses) :
            [key |-> Key(AllUses[i]), config |-> NoConfig] \in [key : Nat \X Nat, config : Config]
      <4>1. NoConfig \in Config
        BY NothingFollows DEF Follows
      <4> QED BY <1>1, <4>1, UsesAre
    <3> QED BY <1>3, <1>6, <3>1
  <2>3. DeclareTypeOK'
    BY <1>1, <1>2, <1>3, <1>6, <2>2 DEF DeclareTypeOK
  <2>4. \A k \in DOMAIN values' : values'[k].key = Key(AllUses[k]) /\ values'[k].config = NoConfig
    BY <1>6, <2>2
  <2>5. RequestsAreDeclared'
    BY <1>1, <1>2, <1>6, <2>1, <2>2, <2>4 DEF RequestsAreDeclared
  <2>6. ConfigsTellTheirSets'
    BY <1>2, <2>1 DEF ConfigsTellTheirSets
  <2> QED BY <1>1, <1>2, <1>4, <2>3, <2>5, <2>6 DEF DeclaredInv, DeclareInv
<1> QED BY <1>5, <1>6 DEF CheckNames

\* A request starts with a Config that tells nothing.
LEMMA BeginInv == ASSUME DeclaredInv, Begin PROVE DeclaredInv'
<1>1. /\ declaring = "next" /\ declaring' = "apply" /\ Len(values) < Len(AllUses)
      /\ resident' = resident /\ instances' = instances /\ values' = values
      /\ config' = NoConfig /\ todo' = AllUses[Len(values) + 1].options
      /\ Declared /\ DeclareTypeOK /\ RequestsAreDeclared /\ ConfigsTellTheirSets
  BY DEF Begin, DeclaredInv, DeclareInv
<1>2. AllUses' = AllUses /\ Declared' /\ (Trusted' <=> Trusted)
  BY <1>1, SameUses
<1> DEFINE options == AllUses[Len(values) + 1].options
<1>3. options \in Seq(Option)
  <2>1. Len(AllUses) \in Nat /\ Len(values) \in Nat
    BY <1>1, UsesAre DEF DeclareTypeOK
  <2>2. Len(values) + 1 \in 1 .. Len(AllUses)
    BY <1>1, <2>1
  <2> QED BY <1>1, <2>2, UsesAre
<1>4. DeclareTypeOK'
  <2>1. NoConfig \in Config
    BY NothingFollows DEF Follows
  <2> QED BY <1>1, <1>2, <1>3, <2>1 DEF DeclareTypeOK
<1> HIDE DEF options
<1>5. /\ Len(options) - Len(todo') = 0
      /\ ActiveOnes(resident, options, 0) = {}
      /\ \A i \in DOMAIN todo' : todo'[i] = options[0 + i]
  <2>1. todo' = options
    BY <1>1 DEF options
  <2>2. Len(options) \in Nat /\ \A i \in DOMAIN options : 0 + i = i
    BY <1>3
  <2>3. ActiveOnes(resident, options, 0) = {}
    BY DEF ActiveOnes
  <2> QED BY <2>1, <2>2, <2>3
<1>6. Follows(resident, config', ActiveOnes(resident, options, 0))
  BY <1>1, <1>5, NothingFollows
<1>7. /\ Tells(config', Sound(resident, ActiveOnes(resident, options, 0)))
      /\ config'.error = ErrorOf(resident, ActiveOnes(resident, options, 0), FALSE)
  BY <1>6 DEF Follows, ErrorSoFar
<1>8. TellsApplied'
  <2>1. /\ Len(values') < Len(AllUses')
        /\ AllUses'[Len(values') + 1].options = options
        /\ resident' = resident
    BY <1>1, <1>2 DEF options
  <2> DEFINE n == Len(options) - Len(todo')
  <2>2. /\ n >= 0
        /\ \A i \in DOMAIN todo' : todo'[i] = options[n + i]
        /\ Tells(config', Sound(resident, ActiveOnes(resident, options, n)))
        /\ config'.error = ErrorOf(resident, ActiveOnes(resident, options, n), FALSE)
    <3>1. n = 0
      BY <1>5
    <3> HIDE DEF n
    <3>2. ActiveOnes(resident, options, n) = ActiveOnes(resident, options, 0)
      BY <3>1
    <3> QED BY <1>5, <1>7, <3>1, <3>2
  <2> QED BY <2>1, <2>2 DEF TellsApplied
<1>9. RequestsAreDeclared'
  BY <1>1, <1>2 DEF RequestsAreDeclared
<1>10. ConfigsTellTheirSets'
  BY <1>1, <1>2 DEF ConfigsTellTheirSets
<1> QED BY <1>2, <1>4, <1>8, <1>9, <1>10 DEF DeclaredInv, DeclareInv

\* Applying an option keeps the invariant.
LEMMA ApplyInv == ASSUME DeclaredInv, Apply PROVE DeclaredInv'
<1>1. /\ declaring = "apply" /\ declaring' = "apply" /\ todo # <<>> /\ todo' = Tail(todo)
      /\ resident' = resident /\ instances' = instances /\ values' = values
      /\ Declared /\ DeclareTypeOK /\ TellsApplied /\ RequestsAreDeclared
      /\ ConfigsTellTheirSets
  BY ApplyVisits DEF Visit, DeclaredInv, DeclareInv
<1>2. AllUses' = AllUses /\ Declared' /\ (Trusted' <=> Trusted)
  BY <1>1, SameUses
<1> DEFINE options == AllUses[Len(values) + 1].options
           count == Len(options) - Len(todo)
           applied == ActiveOnes(resident, options, count)
<1>3. /\ Len(values) < Len(AllUses) /\ count \in Nat
      /\ \A i \in DOMAIN todo : todo[i] = options[count + i]
      /\ Follows(resident, config, applied)
  BY <1>1, Evaluating
<1>4. options \in Seq(Option) /\ resident \in Targets
  <2>1. Len(AllUses) \in Nat /\ Len(values) \in Nat
    BY <1>1, UsesAre DEF DeclareTypeOK
  <2>2. Len(values) + 1 \in 1 .. Len(AllUses)
    BY <1>3, <2>1
  <2> QED BY <1>1, <2>2, UsesAre
<1>5. todo \in Seq(Option) /\ Len(todo) \in Nat \ {0} /\ 1 \in DOMAIN todo
  BY <1>1 DEF DeclareTypeOK
<1> DEFINE o == Head(todo)
<1> HIDE DEF options
<1>6. o \in Option /\ o = options[count + 1]
  BY <1>3, <1>5
<1>7. /\ todo' \in Seq(Option) /\ Len(todo') = Len(todo) - 1
      /\ Len(options) - Len(todo') = count + 1 /\ count < Len(options) /\ count + 1 \in Nat
  <2>1. Len(options) \in Nat
    BY <1>4
  <2> QED BY <1>1, <1>5, <2>1, <1>3
<1>8. \A i \in DOMAIN todo' : todo'[i] = options[(count + 1) + i]
  <2> SUFFICES ASSUME NEW i \in DOMAIN todo' PROVE todo'[i] = options[(count + 1) + i]
    OBVIOUS
  <2>1. i \in Nat /\ i + 1 \in DOMAIN todo /\ todo'[i] = todo[i + 1]
    BY <1>1, <1>5
  <2>2. todo[i + 1] = options[count + (i + 1)]
    BY <1>3, <2>1
  <2>3. count + (i + 1) = (count + 1) + i
    BY <1>3, <2>1
  <2> QED BY <2>1, <2>2, <2>3
<1>9. /\ applied \subseteq Option
      /\ ActiveOnes(resident, options, count + 1)
           = IF Active(resident, o) THEN applied \cup {o} ELSE applied
  <2>1. count <= Len(options)
    BY <1>3, <1>4, <1>7
  <2> HIDE DEF count, o
  <2> QED BY <1>3, <1>4, <1>6, <1>7, <2>1, ActiveOnesGrow
<1> HIDE DEF count, applied, o
<1>10. Follows(resident, config', ActiveOnes(resident, options, count + 1))
  <2>1. PICK d : d = config'
    OBVIOUS
  <2>2. PICK p \in Option : p = o
    BY <1>6
  <2>3. Follows(resident, d, IF Active(resident, p) THEN applied \cup {p} ELSE applied)
    BY <1>3, <1>4, <1>9, <2>1, <2>2, ApplyFollows DEF o
  <2> QED BY <1>9, <2>1, <2>2, <2>3
<1>11. DeclareTypeOK'
  <2>1. config' \in Config
    BY <1>10 DEF Follows
  <2> QED BY <1>1, <1>2, <1>7, <2>1 DEF DeclareTypeOK
<1>12. /\ Tells(config', Sound(resident, ActiveOnes(resident, options, count + 1)))
       /\ config'.error = ErrorOf(resident, ActiveOnes(resident, options, count + 1), FALSE)
  BY <1>10 DEF Follows, ErrorSoFar
<1>13. TellsApplied'
  <2>1. /\ Len(values') < Len(AllUses')
        /\ AllUses'[Len(values') + 1].options = options
        /\ resident' = resident
    BY <1>1, <1>2, <1>3 DEF options
  <2>2. count + 1 >= 0
    BY <1>7
  <2> QED BY <1>7, <1>8, <1>12, <2>1, <2>2 DEF TellsApplied
<1>14. RequestsAreDeclared'
  BY <1>1, <1>2 DEF RequestsAreDeclared
<1>15. ConfigsTellTheirSets'
  BY <1>1, <1>2 DEF ConfigsTellTheirSets
<1> QED BY <1>2, <1>11, <1>13, <1>14, <1>15 DEF DeclaredInv, DeclareInv

\* Returning keeps the invariant.
LEMMA ReturnInv == ASSUME DeclaredInv, Return PROVE DeclaredInv'
<1>1. /\ declaring = "next" /\ declaring' = "done" /\ Len(values) = Len(AllUses)
      /\ resident' = resident /\ instances' = instances /\ values' = values
      /\ config' = config /\ todo' = todo
      /\ Declared /\ DeclareTypeOK /\ RequestsAreDeclared /\ ConfigsTellTheirSets
  BY DEF Return, DeclaredInv, DeclareInv
<1>2. AllUses' = AllUses /\ Declared' /\ (Trusted' <=> Trusted)
  BY <1>1, SameUses
<1>3. DeclareTypeOK'
  BY <1>1, <1>2 DEF DeclareTypeOK
<1>4. TellsApplied'
  BY <1>1 DEF TellsApplied
<1>5. RequestsAreDeclared'
  BY <1>1, <1>2 DEF RequestsAreDeclared
<1>6. ConfigsTellTheirSets'
  BY <1>1, <1>2 DEF ConfigsTellTheirSets
<1> QED BY <1>2, <1>3, <1>4, <1>5, <1>6 DEF DeclaredInv, DeclareInv

\* What must be given is in the Config if it is among the options.
LEMMA CompleteIsGiven ==
  ASSUME NEW t, NEW A, A \subseteq Option, NEW c, Follows(t, c, A)
  PROVE  /\ WindowValid(c.frequency) <=> Given("frequency", Sound(t, A)) # {}
         /\ Valid(c.step) <=> Given("duty_step", Sound(t, A)) # {}
         /\ c.pin # 0 <=> Given("pin", Sound(t, A)) # {}
<1> DEFINE S == Sound(t, A)
           rates == Given("frequency", S)
           fine == Given("duty_step", S)
<1>1. c \in Config /\ c.frequency \in Window /\ c.step \in Ratio /\ c.pin \in Nat
  BY ConfigFields DEF Follows
<1>2. /\ TellsWindow(c.frequency, rates) /\ TellsStep(c.step, fine)
      /\ OneOf(c.pin, PinsOf(S), 0)
  BY TellsParts DEF Follows
<1>3. WindowValid(c.frequency) <=> rates # {}
  <2>1. rates = {} => ~c.frequency.specified
    BY <1>2 DEF TellsWindow, Unspecified
  <2>2. \A p \in rates : Rates(p)
    BY SoundRates
  <2> HIDE DEF rates
  <2>3. rates # {} => WindowValid(c.frequency)
    BY <1>1, <1>2, <2>2, WindowOfRates
  <2> QED BY <2>1, <2>3 DEF WindowValid
<1>4. Valid(c.step) <=> fine # {}
  <2>1. fine = {} => ~Valid(c.step)
    <3>1. NoConfig.step.n = 0
      BY DEF NoConfig
    <3> QED BY <1>2, <3>1 DEF TellsStep, Valid
  <2>2. ASSUME fine # {} PROVE Valid(c.step)
    <3>1. IsLeast(c.step, {p.step : p \in fine})
      BY <1>2, <2>2 DEF TellsStep
    <3>2. PICK p \in fine : SameFraction(p.step, c.step)
      BY <3>1 DEF IsLeast
    <3>3. Valid(p.step) /\ Positive(p.step)
      BY OptionFields, MillionAssumption DEF Given, Sound, IllFormed, Valid, Positive, Ratio
    <3>4. c.step = Normalized(p.step)
      BY <1>1, <3>1, <3>2, <3>3, LowestIsNormalized DEF IsLeast
    <3>5. /\ Positive(c.step) /\ c.step.n <= p.step.n /\ c.step.d <= p.step.d /\ c.step.n > 0
      <4>1. p.step.n > 0
        BY <3>3 DEF Valid
      <4> QED BY <3>3, <3>4, <4>1, NormalizedKeeps
    <3> QED BY <3>3, <3>5, MillionAssumption DEF Valid, Positive
  <2> QED BY <2>1, <2>2
<1>5. c.pin # 0 <=> Given("pin", S) # {}
  <2>1. 0 \notin PinsOf(S)
    BY NoneUnset
  <2>2. PinsOf(S) = {} <=> Given("pin", S) = {}
    BY DEF PinsOf
  <2> HIDE DEF S
  <2> QED BY <1>2, <2>1, <2>2 DEF OneOf
<1> QED BY <1>3, <1>4, <1>5

\* What request() returns tells the options, and the worst there is to say.
LEMMA FinalTells ==
  ASSUME NEW t, NEW A, A \subseteq Option, NEW c, Follows(t, c, A),
         NEW final,
         final = IF WindowValid(c.frequency) /\ Valid(c.step) /\ c.pin # 0
                 THEN c ELSE Failed(c, "invalid_value")
  PROVE  /\ final \in Config /\ Tells(final, Sound(t, A))
         /\ final.error = ErrorOf(t, A, Incomplete(Sound(t, A)))
<1> DEFINE S == Sound(t, A)
<1>1. c \in Config /\ Tells(c, S) /\ c.error = ErrorSoFar(t, A)
  BY DEF Follows
<1>2. final = IF Incomplete(S) THEN Failed(c, "invalid_value") ELSE c
  BY CompleteIsGiven DEF Incomplete
<1>3. Failed(c, "invalid_value") \in Config /\ SameBut("error", Failed(c, "invalid_value"), c)
      /\ Failed(c, "invalid_value").error
           = IF Rank["invalid_value"] > Rank[c.error] THEN "invalid_value" ELSE c.error
  BY <1>1, FailedIs
<1>4. final \in Config /\ Tells(final, S)
  BY <1>1, <1>2, <1>3, TellsSame
<1>5. CASE ~Incomplete(S)
  BY <1>1, <1>2, <1>5 DEF ErrorOf, ErrorSoFar
<1>6. CASE Incomplete(S)
  <2> DEFINE e == c.error
             f == Failed(c, "invalid_value").error
             g == ErrorOf(t, A, Incomplete(S))
  <2>1. e = IF Contradictory(S) THEN "conflict"
            ELSE IF \E p \in A : Unsupported(t, p) THEN "unsupported_option"
            ELSE IF \E p \in A : IllFormed(p) THEN "invalid_value"
            ELSE "none"
    BY <1>1 DEF ErrorOf, ErrorSoFar
  <2>2. g = IF Contradictory(S) THEN "conflict"
            ELSE IF \E p \in A : Unsupported(t, p) THEN "unsupported_option"
            ELSE "invalid_value"
    BY <1>6 DEF ErrorOf
  <2>3. e \in {"none", "invalid_value", "unsupported_option", "conflict"}
    BY <2>1
  <2>4. g = IF e \in {"conflict", "unsupported_option"} THEN e ELSE "invalid_value"
    BY <2>1, <2>2
  <2> HIDE DEF e, g, f
  <2>5. f = IF Rank["invalid_value"] > Rank[e] THEN "invalid_value" ELSE e
    BY <1>3 DEF e, f
  <2>6. f = g
    BY <2>3, <2>4, <2>5, Ranks
  <2>7. final.error = f
    BY <1>2, <1>6 DEF f
  <2> QED BY <1>4, <2>6, <2>7 DEF g
<1> QED BY <1>4, <1>5, <1>6

\* A request that is finished has the result of its set of options.
LEMMA FinishInv == ASSUME DeclaredInv, Finish PROVE DeclaredInv'
<1> DEFINE final == IF WindowValid(config.frequency) /\ Valid(config.step) /\ config.pin # 0
                    THEN config ELSE Failed(config, "invalid_value")
           last == Len(values) + 1
           row == [key |-> Key(AllUses[last]), config |-> final]
           options == AllUses[last].options
           given == ActiveOnes(resident, options, Len(options))
<1>1. /\ declaring = "apply" /\ declaring' = "next" /\ todo = <<>>
      /\ resident' = resident /\ instances' = instances /\ config' = config /\ todo' = todo
      /\ values' = Append(values, row)
      /\ Declared /\ DeclareTypeOK /\ TellsApplied /\ RequestsAreDeclared
      /\ ConfigsTellTheirSets
  BY DEF Finish, DeclaredInv, DeclareInv
<1>2. AllUses' = AllUses /\ Declared' /\ (Trusted' <=> Trusted)
  BY <1>1, SameUses
<1>3. /\ Len(values) < Len(AllUses)
      /\ LET count == Len(options) - Len(todo)
         IN  count \in Nat /\ Follows(resident, config, ActiveOnes(resident, options, count))
  BY <1>1, Evaluating
<1>4. /\ Len(AllUses) \in Nat /\ Len(values) \in Nat /\ last \in 1 .. Len(AllUses)
      /\ values \in Seq([key : Nat \X Nat, config : Config])
      /\ DOMAIN values = 1 .. Len(values)
  BY <1>1, <1>3, UsesAre DEF DeclareTypeOK
<1>5. options \in Seq(Option) /\ Key(AllUses[last]) \in Nat \X Nat
  BY <1>1, <1>4, UsesAre
<1> HIDE DEF options
<1>6. Len(options) \in Nat /\ Len(options) - Len(todo) = Len(options)
  BY <1>1, <1>5
<1>7. Follows(resident, config, given) /\ given \subseteq Option
  <2>1. Follows(resident, config, given)
    BY <1>3, <1>6
  <2>2. given \subseteq Option
    <3>1. \A i \in 1 .. Len(options) : options[i] \in Option
      BY <1>5
    <3> QED BY <3>1 DEF given, ActiveOnes
  <2> QED BY <2>1, <2>2
<1> HIDE DEF given
<1>8. /\ final \in Config /\ Tells(final, Sound(resident, given))
      /\ final.error = ErrorOf(resident, given, Incomplete(Sound(resident, given)))
  BY <1>7, FinalTells
<1> HIDE DEF final
<1>9. /\ row \in [key : Nat \X Nat, config : Config]
      /\ row.key = Key(AllUses[last]) /\ row.config = final
  BY <1>5, <1>8
<1> HIDE DEF row
<1>10. /\ values' \in Seq([key : Nat \X Nat, config : Config])
       /\ Len(values') = last /\ DOMAIN values' = 1 .. last
       /\ values'[last] = row
       /\ \A k \in 1 .. Len(values) : values'[k] = values[k]
       /\ \A k \in 1 .. last : k = last \/ k \in DOMAIN values
  BY <1>1, <1>4, <1>9
<1> HIDE DEF last
<1>11. DeclareTypeOK'
  <2>1. last <= Len(AllUses)
    BY <1>4
  <2> QED BY <1>1, <1>2, <1>10, <2>1 DEF DeclareTypeOK
<1>12. TellsApplied'
  BY <1>1 DEF TellsApplied
<1>13. RequestsAreDeclared'
  <2>1. \A k \in DOMAIN values' : values'[k].key = Key(AllUses[k])
    BY <1>1, <1>4, <1>9, <1>10 DEF RequestsAreDeclared
  <2> QED BY <1>1, <1>2, <2>1 DEF RequestsAreDeclared
<1>14. ConfigsTellTheirSets'
  <2> SUFFICES ASSUME Trusted, NEW k \in DOMAIN values'
               PROVE  LET all == AllUses[k].options
                          ones == ActiveOnes(resident, all, Len(all))
                          sound == Sound(resident, ones)
                      IN  /\ values'[k].config.error
                               = ErrorOf(resident, ones, Incomplete(sound))
                          /\ Tells(values'[k].config, sound)
    BY <1>1, <1>2 DEF ConfigsTellTheirSets
  <2>1. CASE k = last
    BY <1>8, <1>9, <1>10, <2>1 DEF options, given
  <2>2. CASE k \in DOMAIN values
    BY <1>1, <1>4, <1>10, <2>2 DEF ConfigsTellTheirSets
  <2> QED BY <1>10, <2>1, <2>2
<1> QED BY <1>2, <1>11, <1>12, <1>13, <1>14 DEF DeclaredInv, DeclareInv

\* Every step of requests() keeps the invariant.
LEMMA DeclareStepInv == ASSUME DeclaredInv, Declare PROVE DeclaredInv'
<1>1. CASE CheckNames
  BY <1>1, CheckNamesInv
<1>2. CASE Begin
  BY <1>2, BeginInv
<1>3. CASE Apply
  BY <1>3, ApplyInv
<1>4. CASE Finish
  BY <1>4, FinishInv
<1>5. CASE Return
  BY <1>5, ReturnInv
<1> QED BY <1>1, <1>2, <1>3, <1>4, <1>5 DEF Declare

-----------------------------------------------------------------------------
(* From the declaration to the plan. *)

CompileInv == SolveInv /\ DeclaredInv /\ Handed

\* While solve runs, the declaration's invariant stays.
LEMMA StutterDeclared == ASSUME DeclaredInv, UNCHANGED declaration PROVE DeclaredInv'
<1>1. UNCHANGED <<resident, instances, declaring, config, todo, values>>
  BY DEF declaration
<1>2. AllUses' = AllUses /\ (Declared' <=> Declared) /\ (Trusted' <=> Trusted)
  BY <1>1, SameUses
<1>3. DeclareTypeOK'
  BY <1>1, <1>2 DEF DeclaredInv, DeclareInv, DeclareTypeOK
<1>4. TellsApplied'
  BY <1>1, <1>2 DEF DeclaredInv, DeclareInv, TellsApplied
<1>5. RequestsAreDeclared'
  BY <1>1, <1>2 DEF DeclaredInv, DeclareInv, RequestsAreDeclared
<1>6. ConfigsTellTheirSets'
  BY <1>1, <1>2 DEF DeclaredInv, ConfigsTellTheirSets
<1> QED BY <1>2, <1>3, <1>4, <1>5, <1>6 DEF DeclaredInv, DeclareInv

\* Sorting keeps the number of the requests and their set.
LEMMA Rearranged ==
  ASSUME requests \in Seq(Request), SortRequests
  PROVE  Len(requests') = Len(requests) /\ ToSet(requests') = ToSet(requests)
<1>1. PICK order : Rearranges(order, Rows) /\ requests' = [i \in Rows |-> requests[order[i]]]
  BY DEF SortRequests, Orders
<1>2. Rows = 1 .. Len(requests) /\ Len(requests) \in Nat
  BY RowsAre
<1>3. order \in [Rows -> Rows] /\ \A i \in Rows : \E j \in Rows : order[j] = i
  BY <1>1 DEF Rearranges
<1>4. \A i \in Rows : requests[order[i]] \in Request
  BY <1>2, <1>3
<1>5. requests' \in Seq(Request) /\ Len(requests') = Len(requests) /\ DOMAIN requests' = Rows
  BY <1>1, <1>2, <1>4
<1>6. ToSet(requests') = ToSet(requests)
  <2>1. ToSet(requests') = {requests[order[i]] : i \in Rows}
    BY <1>1, <1>5 DEF ToSet
  <2>2. ToSet(requests) = {requests[i] : i \in Rows}
    BY DEF ToSet, Rows
  <2> QED BY <1>3, <2>1, <2>2
<1> QED BY <1>5, <1>6

\* What was handed to solve stays in it.
LEMMA SolveHanded ==
  ASSUME requests \in Seq(Request), Handed, Solve, UNCHANGED declaration
  PROVE  Handed'
<1>1. pc # "call"
  BY DEF Solve, SortRequests, CheckIdentities, CheckRequests, NormalizeModel, CheckPins,
         Group, Mark, Search
<1>2. Len(requests') = Len(requests) /\ ToSet(requests') = ToSet(requests)
  <2>1. CASE SortRequests
    BY <2>1, Rearranged
  <2>2. CASE ~SortRequests
    <3>1. requests' = requests
      BY <2>2 DEF Solve, CheckIdentities, CheckRequests, NormalizeModel, CheckPins,
                  Group, Mark, Search
    <3> QED BY <3>1
  <2> QED BY <2>1, <2>2
<1> QED BY <1>1, <1>2 DEF Handed, declaration

\* The invariant of both holds initially.
LEMMA CompileInitInv == CompileInit => CompileInv
<1> SUFFICES ASSUME CompileInit PROVE CompileInv
  OBVIOUS
<1>1. SolveInv /\ pc = "call"
  BY InitInv DEF CompileInit, Init, Start
<1>2. /\ Declared /\ declaring = "identities" /\ config = NoConfig /\ todo = <<>>
      /\ values = <<>>
  BY DEF CompileInit, DeclareInit, DeclareStart, Declared
<1>3. DeclareTypeOK
  <2>1. NoConfig \in Config
    BY NothingFollows DEF Follows
  <2>2. resident \in Targets /\ Len(AllUses) \in Nat
    BY <1>2, UsesAre
  <2>3. Len(values) = 0 /\ values \in Seq([key : Nat \X Nat, config : Config])
    BY <1>2
  <2>4. todo \in Seq(Option)
    BY <1>2
  <2> QED BY <1>2, <2>1, <2>2, <2>3, <2>4 DEF DeclareTypeOK
<1>4. TellsApplied /\ RequestsAreDeclared /\ ConfigsTellTheirSets
  <2>1. DOMAIN values = {}
    BY <1>2
  <2> QED BY <1>2, <2>1 DEF TellsApplied, RequestsAreDeclared, ConfigsTellTheirSets
<1>5. Handed
  BY <1>1 DEF Handed
<1> QED BY <1>1, <1>2, <1>3, <1>4, <1>5 DEF CompileInv, DeclaredInv, DeclareInv

\* Every step of both keeps the invariant.
LEMMA CompileNextInv == CompileInv /\ [CompileNext]_compileVars => CompileInv'
<1> SUFFICES ASSUME CompileInv, [CompileNext]_compileVars PROVE CompileInv'
  OBVIOUS
<1>0. SolveInv /\ DeclaredInv /\ Handed /\ requests \in Seq(Request)
  BY DEF CompileInv, SolveInv, Inv, TypeOK
<1>1. CASE Evaluate
  <2>1. DeclaredInv'
    BY <1>0, <1>1, DeclareStepInv DEF Evaluate
  <2>2. SolveInv'
    BY <1>0, <1>1, StutterInv DEF Evaluate
  <2>3. Handed'
    BY <1>1 DEF Evaluate, Handed, vars
  <2> QED BY <2>1, <2>2, <2>3 DEF CompileInv
<1>2. CASE Hand
  <2>1. values \in Seq(Request)
    BY <1>0 DEF DeclaredInv, DeclareInv, DeclareTypeOK, Request
  <2>2. SolveInv'
    BY <1>0, <1>2, <2>1, CallInv DEF Hand
  <2>3. DeclaredInv'
    BY <1>0, <1>2, StutterDeclared DEF Hand
  <2>4. Handed'
    BY <1>2 DEF Hand, Call, Handed, declaration
  <2> QED BY <2>2, <2>3, <2>4 DEF CompileInv
<1>3. CASE Check
  <2>1. PICK list \in RequestLists : Call(list)
    BY <1>3 DEF Check
  <2>2. SolveInv'
    <3>1. list \in Seq(Request)
      BY ProblemAssumption
    <3> QED BY <1>0, <2>1, <3>1, CallInv
  <2>3. DeclaredInv'
    BY <1>0, <1>3, StutterDeclared DEF Check
  <2>4. Handed'
    BY <1>3 DEF Check, Handed, declaration
  <2> QED BY <2>2, <2>3, <2>4 DEF CompileInv
<1>4. CASE Compile
  <2>1. SolveInv'
    BY <1>0, <1>4, SolveStepInv DEF Compile
  <2>2. DeclaredInv'
    BY <1>0, <1>4, StutterDeclared DEF Compile
  <2>3. Handed'
    BY <1>0, <1>4, SolveHanded DEF Compile
  <2> QED BY <2>1, <2>2, <2>3 DEF CompileInv
<1>5. CASE Finished \/ UNCHANGED compileVars
  <2>1. UNCHANGED vars /\ UNCHANGED declaration
    BY <1>5 DEF Finished, Returned, compileVars
  <2>2. SolveInv' /\ DeclaredInv'
    BY <1>0, <2>1, StutterInv, StutterDeclared
  <2>3. Handed'
    BY <1>0, <2>1 DEF Handed, vars, declaration
  <2> QED BY <2>2, <2>3 DEF CompileInv
<1> QED BY <1>1, <1>2, <1>3, <1>4, <1>5 DEF CompileNext

-----------------------------------------------------------------------------
(* The answer and the declaration. *)

\* What solve has not refused for its names was declared with good ones.
LEMMA UntrustedIsBad ==
  ASSUME CompileInv, instances # <<>>, pc # "call", \A i \in Rows : ~BadIdentity(i)
  PROVE  Trusted
<1> DEFINE n == Len(AllUses)
           keys == {Key(AllUses[k]) : k \in 1 .. n}
           f == [i \in Rows |-> requests[i].key]
<1>1. /\ requests \in Seq(Request) /\ Declared /\ declaring = "done"
      /\ Len(requests) = Len(values) /\ ToSet(requests) = ToSet(values)
      /\ Len(values) = n /\ \A k \in DOMAIN values : values[k].key = Key(AllUses[k])
      /\ values \in Seq([key : Nat \X Nat, config : Config])
  BY DEF CompileInv, SolveInv, Inv, TypeOK, DeclaredInv, DeclareInv, DeclareTypeOK,
         RequestsAreDeclared, Handed
<1>2. /\ Rows = 1 .. n /\ n \in Nat /\ IsFiniteSet(Rows) /\ Cardinality(Rows) = n
      /\ DOMAIN values = 1 .. n
  BY <1>1, RowsAre
<1>3. /\ \A i \in Rows : \E k \in 1 .. n : requests[i] = values[k]
      /\ \A k \in 1 .. n : \E i \in Rows : requests[i] = values[k]
  BY <1>1, <1>2 DEF ToSet, Rows
<1>4. f \in [Rows -> keys] /\ \A key \in keys : \E i \in Rows : f[i] = key
  <2>1. \A k \in 1 .. n : values[k].key = Key(AllUses[k])
    BY <1>1, <1>2
  <2>2. \A i \in Rows : \E k \in 1 .. n : requests[i].key = Key(AllUses[k])
    BY <1>3, <2>1
  <2>3. \A k \in 1 .. n : \E i \in Rows : requests[i].key = Key(AllUses[k])
    BY <1>3, <2>1
  <2>4. \A i \in Rows : f[i] = requests[i].key
    OBVIOUS
  <2>5. f \in [Rows -> keys]
    BY <2>2
  <2> HIDE DEF f
  <2> QED BY <2>3, <2>4, <2>5
<1>5. \A i, j \in Rows : f[i] = f[j] => i = j
  BY <1>1, NoneTwice
<1>6. Cardinality(keys) = n
  <2> HIDE DEF f, keys
  <2>1. \A i, j \in Rows : f[i] = f[j] => i = j
    BY <1>5
  <2>2. f \in [Rows -> keys]
    BY <1>4
  <2>3. \A key \in keys : \E i \in Rows : f[i] = key
    BY <1>4
  <2>4. IsFiniteSet(Rows) /\ Cardinality(Rows) = n
    BY <1>2
  <2>5. PICK S : S = Rows
    OBVIOUS
  <2>6. IsFiniteSet(S) /\ f \in [S -> keys]
    BY <2>2, <2>4, <2>5
  <2>7. \A i, j \in S : f[i] = f[j] => i = j
    BY <2>1, <2>5
  <2>8. \A key \in keys : \E i \in S : f[i] = key
    BY <2>3, <2>5
  <2>9. Cardinality(keys) = Cardinality(S)
    BY <2>6, <2>7, <2>8, Paired
  <2> QED BY <2>4, <2>5, <2>9
<1>7. \A key \in keys : 0 \notin {key[1], key[2]}
  BY <1>4 DEF BadIdentity, Nameless
<1> QED BY <1>6, <1>7 DEF Trusted

\* With no error, one value is named at most, and it is the one asked for.
LEMMA OneNamed ==
  ASSUME NEW v, NEW S, NEW unset, OneOf(v, S, unset), ~Differ(S), NEW w \in S
  PROVE  v = w
BY DEF OneOf, Differ

\* What meets a Config without error meets each option that it tells.
LEMMA OptionGranted ==
  ASSUME NEW t \in Targets, NEW A, A \subseteq Option, NEW r, r.config \in Config,
         Tells(r.config, Sound(t, A)), r.config.error = "none",
         r.config.error = ErrorOf(t, A, Incomplete(Sound(t, A))),
         NEW c, Positive(c.frequency), c.counter_bits \in Nat,
         NEW e, Positive(e.step), Asks(c, e, r), NEW o \in A
  PROVE  Grants(c, e, o)
<1> DEFINE S == Sound(t, A)
           g == r.config
<1>1. o \in S /\ o \in Option /\ ~Unsupported(t, o) /\ ~IllFormed(o) /\ ~Contradictory(S)
  BY DEF ErrorOf, Sound
<1>2. /\ TellsWindow(g.frequency, Given("frequency", S))
      /\ TellsStep(g.step, Given("duty_step", S))
      /\ TellsBits(g.counter_bits_at_least, Given("counter_bits", S))
      /\ OneOf(g.pin, PinsOf(S), 0)
      /\ OneOf(g.required_timer, TimersOf(S), 0)
      /\ OneOf(g.waveform, WaveformsOf(S), "any")
      /\ OneOf(g.source, SourcesOf(S), "any")
  BY TellsParts
<1>3. /\ ~Differ(PinsOf(S)) /\ ~Differ(TimersOf(S))
      /\ ~Differ(WaveformsOf(S)) /\ ~Differ(SourcesOf(S))
  BY <1>1, ContradictoryParts
<1>4. /\ 0 \notin TimersOf(S) /\ "any" \notin WaveformsOf(S) /\ "any" \notin SourcesOf(S)
  BY NoneUnset
<1>5. /\ g.frequency \in Window /\ g.step \in Ratio /\ g.counter_bits_at_least \in Nat
      /\ g.frequency.lower \in Ratio /\ g.frequency.upper \in Ratio
  BY ConfigFields DEF Window
<1>6. /\ e.pin = g.pin
      /\ LET rate == [n |-> c.frequency.n * Million, d |-> c.frequency.d]
         IN  AtMost(g.frequency.lower, rate) /\ AtMost(rate, g.frequency.upper)
      /\ AtMost(e.step, g.step)
      /\ c.counter_bits >= g.counter_bits_at_least
      /\ g.required_timer # 0 => c.timer = g.required_timer
      /\ g.waveform # "any" => c.waveform = g.waveform
      /\ g.source # "any" => c.source = g.source
  BY DEF Asks
<1>7. o \in Given(o.kind, S)
  BY <1>1 DEF Given
<1>8. o.kind \in {"unknown", "apb_clock", "frequency", "duty_step", "pin", "counter_bits",
                  "require_timer", "avr_waveform", "avr_source"}
  BY <1>1, OptionFields
<1>s. \A p \in Given("frequency", S) : Rates(p)
  BY SoundRates
<1> HIDE DEF S, g
<1>9. CASE o.kind = "frequency"
  <2> DEFINE rate == [n |-> c.frequency.n * Million, d |-> c.frequency.d]
             w == g.frequency
  <2>1. o \in Given("frequency", S)
    BY <1>7, <1>9
  <2>2. /\ IsGreatest(w.lower, {LowerOf(p) : p \in Given("frequency", S)})
        /\ IsLeast(w.upper, {UpperOf(p) : p \in Given("frequency", S)})
    BY <1>2, <2>1 DEF TellsWindow
  <2>3. AtMost(LowerOf(o), w.lower) /\ AtMost(w.upper, UpperOf(o))
    BY <2>1, <2>2 DEF IsGreatest, IsLeast
  <2>4. Positive(LowerOf(o)) /\ Positive(UpperOf(o))
    BY <1>s, <2>1, RateBounds
  <2>5. Positive(w.lower) /\ Positive(w.upper)
    BY <1>5, <2>2 DEF IsGreatest, IsLeast, InLowestTerms, Positive, Ratio
  <2>6. Positive(rate)
    BY MillionAssumption DEF Positive
  <2>7. AtMost(w.lower, rate) /\ AtMost(rate, w.upper)
    BY <1>6
  <2> HIDE DEF rate, w
  <2>8. AtMost(LowerOf(o), rate) /\ AtMost(rate, UpperOf(o))
    BY <2>3, <2>4, <2>5, <2>6, <2>7, AtMostOrders
  <2>9. /\ o.rate.n * (Million - o.ppm) * c.frequency.d
             <= c.frequency.n * Million * o.rate.d
        /\ c.frequency.n * Million * o.rate.d
             <= o.rate.n * (Million + o.ppm) * c.frequency.d
    BY <2>8 DEF AtMost, LowerOf, UpperOf, rate
  <2>10. /\ o.rate.n \in Nat /\ o.rate.d \in Nat /\ o.ppm \in Nat /\ o.ppm <= Million
         /\ Million \in Nat /\ c.frequency.n \in Nat /\ c.frequency.d \in Nat
    BY <1>s, <2>1, MillionAssumption DEF Rates, Ratio, Positive
  <2>11. /\ o.rate.n * (Million - o.ppm) * c.frequency.d \in Int
         /\ c.frequency.n * Million * o.rate.d \in Int
    BY <2>10
  <2>12. c.frequency.n * Million * o.rate.d
           >= o.rate.n * (Million - o.ppm) * c.frequency.d
    BY <2>9, <2>11
  <2> QED BY <1>9, <2>9, <2>12 DEF Grants
<1>10. CASE o.kind = "duty_step"
  <2>1. o \in Given("duty_step", S)
    BY <1>7, <1>10
  <2>2. IsLeast(g.step, {p.step : p \in Given("duty_step", S)})
    BY <1>2, <2>1 DEF TellsStep
  <2>3. AtMost(g.step, o.step)
    BY <2>1, <2>2 DEF IsLeast
  <2>4. Positive(g.step) /\ Positive(o.step)
    <3>1. Positive(g.step)
      BY <1>5, <2>2 DEF IsLeast, InLowestTerms, Positive, Ratio
    <3>2. Positive(o.step)
      BY <1>1, <1>10, OptionFields, MillionAssumption DEF IllFormed, Valid, Positive, Ratio
    <3> QED BY <3>1, <3>2
  <2>5. AtMost(e.step, o.step)
    BY <1>6, <2>3, <2>4, AtMostOrders
  <2> QED BY <1>10, <2>5 DEF Grants, AtMost
<1>11. CASE o.kind = "pin"
  <2>1. o.pin \in PinsOf(S)
    BY <1>7, <1>11 DEF PinsOf
  <2>2. g.pin = o.pin
    BY <1>2, <1>3, <2>1, OneNamed
  <2> QED BY <1>6, <1>11, <2>2 DEF Grants
<1>12. CASE o.kind = "counter_bits"
  <2>1. o.bits <= g.counter_bits_at_least
    BY <1>2, <1>7, <1>12 DEF TellsBits
  <2>2. o.bits \in Nat
    BY <1>1, <1>12, OptionFields
  <2>3. c.counter_bits >= o.bits
    BY <1>5, <1>6, <2>1, <2>2
  <2> QED BY <1>12, <2>3 DEF Grants
<1>13. CASE o.kind = "require_timer"
  <2>1. o.timer \in TimersOf(S)
    BY <1>7, <1>13 DEF TimersOf
  <2>2. g.required_timer = o.timer
    BY <1>2, <1>3, <2>1, OneNamed
  <2> QED BY <1>4, <1>6, <1>13, <2>1, <2>2 DEF Grants
<1>14. CASE o.kind = "avr_waveform"
  <2>1. o.waveform \in WaveformsOf(S)
    BY <1>7, <1>14 DEF WaveformsOf
  <2>2. g.waveform = o.waveform
    BY <1>2, <1>3, <2>1, OneNamed
  <2> QED BY <1>4, <1>6, <1>14, <2>1, <2>2 DEF Grants
<1>15. CASE o.kind = "avr_source"
  <2>1. o.source \in SourcesOf(S)
    BY <1>7, <1>15 DEF SourcesOf
  <2>2. g.source = o.source
    BY <1>2, <1>3, <2>1, OneNamed
  <2> QED BY <1>4, <1>6, <1>15, <2>1, <2>2 DEF Grants
<1>16. CASE o.kind = "apb_clock"
  <2>1. "apb" \in SourcesOf(S)
    BY <1>7, <1>16 DEF SourcesOf
  <2>2. g.source = "apb"
    BY <1>2, <1>3, <2>1, OneNamed
  <2> QED BY <1>4, <1>6, <1>16, <2>1, <2>2 DEF Grants
<1>17. o.kind # "unknown"
  BY <1>1 DEF Unsupported
<1> QED BY <1>8, <1>9, <1>10, <1>11, <1>12, <1>13, <1>14, <1>15, <1>16, <1>17

\* Each use has just one row, with its answer.
LEMMA RowOfUse ==
  ASSUME CompileInv, instances # <<>>, pc # "call", \A i \in Rows : ~BadIdentity(i)
  PROVE  /\ Len(requests) = Len(AllUses) /\ DOMAIN AllUses = 1 .. Len(AllUses)
         /\ DOMAIN values = 1 .. Len(AllUses)
         /\ \A k \in 1 .. Len(AllUses) : \E i \in Rows :
              /\ requests[i] = values[k] /\ requests[i].key = Key(AllUses[k])
              /\ \A h \in Rows : requests[h].key = Key(AllUses[k]) => h = i
<1>1. /\ requests \in Seq(Request) /\ Declared /\ declaring = "done"
      /\ Len(requests) = Len(values) /\ ToSet(requests) = ToSet(values)
      /\ Len(values) = Len(AllUses)
      /\ \A k \in DOMAIN values : values[k].key = Key(AllUses[k])
      /\ values \in Seq([key : Nat \X Nat, config : Config])
  BY DEF CompileInv, SolveInv, Inv, TypeOK, DeclaredInv, DeclareInv, DeclareTypeOK,
         RequestsAreDeclared, Handed
<1>2. AllUses \in Seq(Use) /\ Len(AllUses) \in Nat
  BY <1>1, UsesAre
<1>3. DOMAIN AllUses = 1 .. Len(AllUses) /\ DOMAIN values = 1 .. Len(AllUses)
  BY <1>1, <1>2
<1>4. ASSUME NEW k \in 1 .. Len(AllUses)
      PROVE  \E i \in Rows :
               /\ requests[i] = values[k] /\ requests[i].key = Key(AllUses[k])
               /\ \A h \in Rows : requests[h].key = Key(AllUses[k]) => h = i
  <2>1. values[k] \in ToSet(values) /\ values[k].key = Key(AllUses[k])
    BY <1>1, <1>3 DEF ToSet
  <2>2. PICK i \in Rows : requests[i] = values[k]
    BY <1>1, <2>1 DEF ToSet, Rows
  <2>3. requests[i].key = Key(AllUses[k])
    BY <2>1, <2>2
  <2>4. ASSUME NEW h \in Rows, requests[h].key = Key(AllUses[k])
        PROVE  h = i
    BY <1>1, <2>3, <2>4, NoneTwice
  <2> QED BY <2>2, <2>3, <2>4
<1> QED BY <1>1, <1>3, <1>4

\* What a problem is that has been solved.
LEMMA Answering ==
  ASSUME CompileInv, instances # <<>>, pc = "done", status = "success"
  PROVE  /\ requests \in Seq(Request) /\ candidates \in Seq(Candidate)
         /\ \A i \in Rows : ~BadIdentity(i) /\ ~BadRequest(i)
         /\ \A c \in Columns : candidates[c] \in Candidate /\ CandidateValid(candidates[c])
         /\ \A c, d \in Columns : candidates[c].key = candidates[d].key
                                    => candidates[c] = candidates[d]
<1>1. requests \in Seq(Request) /\ candidates \in Seq(Candidate)
  BY DEF CompileInv, SolveInv, Inv, TypeOK
<1>2. OnlyCheckedSearched
  BY DEF CompileInv, SolveInv, Inv
<1>3. ~Answered({"invalid_identity", "duplicate_identity"})
      /\ \A parts : Reached(parts)
  BY DEF Answered, Reached
<1>4. \A i \in Rows : ~BadIdentity(i)
  BY <1>2, <1>3 DEF OnlyCheckedSearched
<1>5. \A i \in Rows : ~BadRequest(i)
  BY <1>2, <1>3 DEF OnlyCheckedSearched
<1>6. PartsValid /\ \A c, d \in Columns : Consistent(candidates[c], candidates[d])
  BY <1>2, <1>3 DEF OnlyCheckedSearched
<1>7. \A c \in Columns : candidates[c] \in Candidate
  BY <1>1 DEF Columns
<1> QED BY <1>1, <1>4, <1>5, <1>6, <1>7 DEF PartsValid, Consistent

\* The row of a use has a candidate with an endpoint that asks what it says.
LEMMA UseServed ==
  ASSUME CompileInv, instances # <<>>, pc = "done", status = "success",
         NEW a \in Assignments, \A i \in Rows : plan[i] = candidates[a[requests[i].key[1]]].key,
         NEW k \in 1 .. Len(AllUses), NEW i \in Rows,
         requests[i] = values[k], requests[i].key = Key(AllUses[k])
  PROVE  Served(AllUses[k], plan[i])
<1> DEFINE use == AllUses[k]
           r == requests[i]
           o == r.key[1]
           j == a[o]
           c == candidates[j]
           A == ActiveOnes(resident, use.options, Len(use.options))
<1>1. /\ requests \in Seq(Request) /\ candidates \in Seq(Candidate)
      /\ \A h \in Rows : ~BadIdentity(h) /\ ~BadRequest(h)
      /\ \A d \in Columns : candidates[d] \in Candidate /\ CandidateValid(candidates[d])
  BY Answering
<1>2. /\ Declared /\ ConfigsTellTheirSets /\ declaring = "done"
  BY DEF CompileInv, DeclaredInv, Handed
<1>3. Trusted
  BY <1>1, UntrustedIsBad
<1>4. k \in DOMAIN values
  BY <1>1, RowOfUse
<1>5. /\ Tells(r.config, Sound(resident, A))
      /\ r.config.error = ErrorOf(resident, A, Incomplete(Sound(resident, A)))
  BY <1>2, <1>3, <1>4 DEF ConfigsTellTheirSets
<1>6. r.config.error = "none"
  BY <1>1 DEF BadRequest
<1>7. r.config \in Config
  BY <1>1, RowsAre
<1>8. use.options \in Seq(Option) /\ resident \in Targets
  BY <1>2, UsesAre
<1>9. A \subseteq Option /\ \A n \in DOMAIN use.options :
        Active(resident, use.options[n]) => use.options[n] \in A
  <2>1. Len(use.options) \in Nat /\ DOMAIN use.options = 1 .. Len(use.options)
    BY <1>8
  <2>2. A \subseteq Option
    <3> HIDE DEF use
    <3> DEFINE n == Len(use.options)
    <3>1. n \in Nat /\ n <= n
      BY <2>1
    <3> QED BY <1>8, <3>1, ActiveOnesGrow
  <2> QED BY <2>1, <2>2 DEF ActiveOnes
<1>10. o \in Instances /\ r \in RequestsOf(o)
  BY DEF Instances, RequestsOf, ToSet, Rows
<1>11. j \in Columns /\ Serves(j, o) /\ plan[i] = c.key
  BY <1>10 DEF Assignments
<1>12. c \in Candidate /\ CandidateValid(c)
  BY <1>1, <1>11
<1>13. /\ KeysOf(c) = {q.key : q \in RequestsOf(o)}
       /\ \A q \in RequestsOf(o), e \in ToSet(c.endpoints) :
            e.request = q.key => Asks(c, e, q)
  BY <1>11, ServesIsAsks
<1>14. PICK e \in ToSet(c.endpoints) : e.request = r.key
  BY <1>10, <1>13 DEF KeysOf
<1>15. Asks(c, e, r) /\ e.request = Key(use)
  BY <1>10, <1>13, <1>14
<1>16. PICK m \in DOMAIN c.endpoints : e = c.endpoints[m]
  BY <1>12, CandidateFields
<1>17. Positive(e.step) /\ Positive(c.frequency) /\ c.counter_bits \in Nat
  <2>1. FineStep(c.endpoints[m].step) /\ c.frequency.n > 0 /\ c.frequency.d > 0
    BY <1>12, <1>16 DEF CandidateValid, EndpointValid
  <2>2. c.frequency \in Ratio /\ e.step \in Ratio /\ c.counter_bits \in Nat
    BY <1>12, CandidateFields
  <2>3. e.step.n \in 1 .. Million /\ e.step.d \in 1 .. Million
    BY <1>16, <2>1 DEF FineStep, Valid
  <2>4. Positive(e.step)
    BY <2>3, MillionAssumption DEF Positive
  <2>5. Positive(c.frequency)
    <3> HIDE DEF c
    <3> QED BY <2>1, <2>2 DEF Positive, Ratio
  <2> QED BY <2>2, <2>4, <2>5
<1>18. ASSUME NEW n \in DOMAIN use.options, Active(resident, use.options[n])
       PROVE  Grants(c, e, use.options[n])
  <2>1. use.options[n] \in A
    BY <1>9, <1>18
  <2> HIDE DEF A, c, r, use
  <2> QED BY <1>5, <1>6, <1>7, <1>8, <1>9, <1>15, <1>17, <2>1, OptionGranted
<1>19. j \in DOMAIN candidates
  BY <1>11 DEF Columns
<1> QED BY <1>11, <1>15, <1>16, <1>18, <1>19 DEF Served

\* A candidate is shared by the uses of one instance exactly.
LEMMA OnePerInstance ==
  ASSUME CompileInv, instances # <<>>, pc = "done", status = "success",
         NEW a \in Assignments, \A i \in Rows : plan[i] = candidates[a[requests[i].key[1]]].key,
         NEW i \in Rows, NEW j \in Rows
  PROVE  plan[i] = plan[j] <=> requests[i].key[1] = requests[j].key[1]
<1> DEFINE o == requests[i].key[1]
           q == requests[j].key[1]
<1>1. /\ o \in Instances /\ requests[i] \in RequestsOf(o)
      /\ q \in Instances /\ requests[j] \in RequestsOf(q)
  BY DEF Instances, RequestsOf, ToSet, Rows
<1>2. a[o] \in Columns /\ a[q] \in Columns /\ Serves(a[o], o) /\ Serves(a[q], q)
  BY <1>1 DEF Assignments
<1>3. ASSUME candidates[a[o]].key = candidates[a[q]].key
      PROVE  o = q
  <2>1. candidates[a[o]] = candidates[a[q]]
    BY <1>2, <1>3, Answering
  <2>2. {r.key : r \in RequestsOf(o)} = {r.key : r \in RequestsOf(q)}
    <3>1. KeysOf(candidates[a[o]]) = {r.key : r \in RequestsOf(o)}
      BY <1>2, ServesIsAsks
    <3>2. KeysOf(candidates[a[q]]) = {r.key : r \in RequestsOf(q)}
      BY <1>2, ServesIsAsks
    <3> QED BY <2>1, <3>1, <3>2
  <2>3. PICK r \in RequestsOf(q) : r.key = requests[i].key
    <3>1. requests[i].key \in {r.key : r \in RequestsOf(o)}
      BY <1>1
    <3>2. requests[i].key \in {r.key : r \in RequestsOf(q)}
      BY <2>2, <3>1
    <3> QED BY <3>2
  <2> QED BY <2>3 DEF RequestsOf
<1> QED BY <1>3

\* A plan is about the declaration.
LEMMA AnswerOfSuccess ==
  ASSUME CompileInv, instances # <<>>, pc = "done", status = "success"
  PROVE  LET uses == AllUses
             row(use) == CHOOSE i \in DOMAIN requests : requests[i].key = Key(use)
         IN  /\ Len(requests) = Len(uses)
             /\ \A k \in DOMAIN uses :
                  /\ \E i \in DOMAIN requests : requests[i].key = Key(uses[k])
                  /\ Served(uses[k], plan[row(uses[k])])
             /\ \A k, l \in DOMAIN uses :
                  plan[row(uses[k])] = plan[row(uses[l])]
                    <=> uses[k].instance = uses[l].instance
<1> DEFINE row(use) == CHOOSE i \in DOMAIN requests : requests[i].key = Key(use)
<1>1. PICK a \in Assignments : \A i \in Rows : plan[i] = candidates[a[requests[i].key[1]]].key
  BY DEF CompileInv, SolveInv, Promises, PlanIsSound, Answered
<1>2. \A i \in Rows : ~BadIdentity(i)
  BY Answering
<1>3. /\ Len(requests) = Len(AllUses) /\ DOMAIN AllUses = 1 .. Len(AllUses)
      /\ \A k \in 1 .. Len(AllUses) : \E i \in Rows :
           /\ requests[i] = values[k] /\ requests[i].key = Key(AllUses[k])
           /\ \A h \in Rows : requests[h].key = Key(AllUses[k]) => h = i
  BY <1>2, RowOfUse
<1>4. ASSUME NEW k \in 1 .. Len(AllUses)
      PROVE  /\ row(AllUses[k]) \in Rows /\ requests[row(AllUses[k])] = values[k]
             /\ requests[row(AllUses[k])].key = Key(AllUses[k])
             /\ requests[row(AllUses[k])].key[1] = AllUses[k].instance
  <2>1. PICK i \in Rows :
           /\ requests[i] = values[k] /\ requests[i].key = Key(AllUses[k])
           /\ \A h \in Rows : requests[h].key = Key(AllUses[k]) => h = i
    BY <1>3
  <2>2. row(AllUses[k]) = i
    BY <2>1 DEF Rows
  <2>3. Key(AllUses[k])[1] = AllUses[k].instance
    BY DEF Key
  <2> HIDE DEF row
  <2> QED BY <2>1, <2>2, <2>3
<1> HIDE DEF row
<1>5. \A k \in DOMAIN AllUses :
        /\ \E i \in DOMAIN requests : requests[i].key = Key(AllUses[k])
        /\ Served(AllUses[k], plan[row(AllUses[k])])
  <2> SUFFICES ASSUME NEW k \in 1 .. Len(AllUses)
               PROVE  /\ \E i \in DOMAIN requests : requests[i].key = Key(AllUses[k])
                      /\ Served(AllUses[k], plan[row(AllUses[k])])
    BY <1>3
  <2>1. /\ row(AllUses[k]) \in Rows /\ requests[row(AllUses[k])] = values[k]
        /\ requests[row(AllUses[k])].key = Key(AllUses[k])
    BY <1>4
  <2>2. Served(AllUses[k], plan[row(AllUses[k])])
    BY <1>1, <2>1, UseServed
  <2> QED BY <2>1, <2>2 DEF Rows
<1>6. \A k, l \in DOMAIN AllUses :
        plan[row(AllUses[k])] = plan[row(AllUses[l])]
          <=> AllUses[k].instance = AllUses[l].instance
  <2> SUFFICES ASSUME NEW k \in 1 .. Len(AllUses), NEW l \in 1 .. Len(AllUses)
               PROVE  plan[row(AllUses[k])] = plan[row(AllUses[l])]
                        <=> AllUses[k].instance = AllUses[l].instance
    BY <1>3
  <2>1. row(AllUses[k]) \in Rows /\ requests[row(AllUses[k])].key[1] = AllUses[k].instance
    BY <1>4
  <2>2. row(AllUses[l]) \in Rows /\ requests[row(AllUses[l])].key[1] = AllUses[l].instance
    BY <1>4
  <2> QED BY <1>1, <2>1, <2>2, OnePerInstance
<1> QED BY <1>3, <1>5, <1>6 DEF row

\* So is any other answer.
LEMMA AnswerIsDeclared == CompileInv => AnswerIsOfTheDeclaration
<1> SUFFICES ASSUME CompileInv PROVE AnswerIsOfTheDeclaration
  OBVIOUS
<1>1. ASSUME instances # <<>>, pc = "done", ~ValidIdentities
      PROVE  status \in {"invalid_identity", "duplicate_identity"}
  <2>1. Declared /\ OnlyCheckedSearched
    BY DEF CompileInv, DeclaredInv, SolveInv, Inv
  <2>2. ~Trusted
    BY <1>1, <2>1, TrustedIsValid
  <2>3. ~\A i \in Rows : ~BadIdentity(i)
    BY <1>1, <2>2, UntrustedIsBad
  <2>4. pc \notin {"call", "sort", "identities"}
    BY <1>1
  <2> QED BY <2>1, <2>3, <2>4 DEF OnlyCheckedSearched, Answered
<1>2. ASSUME instances # <<>>, pc = "done", status = "success"
      PROVE  LET uses == AllUses
                 row(use) == CHOOSE i \in DOMAIN requests : requests[i].key = Key(use)
             IN  /\ Len(requests) = Len(uses)
                 /\ \A k \in DOMAIN uses :
                      /\ \E i \in DOMAIN requests : requests[i].key = Key(uses[k])
                      /\ Served(uses[k], plan[row(uses[k])])
                 /\ \A k, l \in DOMAIN uses :
                      plan[row(uses[k])] = plan[row(uses[l])]
                        <=> uses[k].instance = uses[l].instance
  BY <1>2, AnswerOfSuccess
<1> QED BY <1>1, <1>2 DEF AnswerIsOfTheDeclaration

-----------------------------------------------------------------------------

\* The inductive invariant of the declaration and the allocation together.
LEMMA CompileInvariant == CompileSpec => []CompileInv
<1>1. CompileInit => CompileInv
  BY CompileInitInv
<1>2. CompileInv /\ [CompileNext]_compileVars => CompileInv'
  BY CompileNextInv
<1> QED BY <1>1, <1>2, PTL DEF CompileSpec

\* pwm::requests answers each declared request once, solve works on that, and
\* each part of solve has what the checks before it have made sure of, for all
\* problems, declared or written by a caller.
THEOREM PhasesArePrepared == CompileSpec => []PhasesInv
<1>1. CompileInv => PhasesInv
  BY DEF CompileInv, DeclaredInv, SolveInv, PhasesInv
<1> QED BY <1>1, CompileInvariant, PTL

\* A plan of pwm::solve serves every instance with free hardware of its own.
THEOREM PlansAreSound == CompileSpec => []PlanIsSound
<1>1. CompileInv => PlanIsSound
  BY DEF CompileInv, SolveInv, Promises
<1> QED BY <1>1, CompileInvariant, PTL

\* A refusal of pwm::solve has the reason it gives, and blames the right one.
THEOREM RefusalsAreJustified == CompileSpec => []RefusalIsJustified
<1>1. CompileInv => RefusalIsJustified
  BY DEF CompileInv, SolveInv, Promises
<1> QED BY <1>1, CompileInvariant, PTL

\* A plan of pwm::solve is the one preferred, however the backend enumerates.
THEOREM PlansArePreferred == CompileSpec => []PlanIsPreferred
<1>1. CompileInv => PlanIsPreferred
  BY DEF CompileInv, SolveInv, Promises
<1> QED BY <1>1, CompileInvariant, PTL

\* The error of a request, and what its Config tells, follow from the set of
\* its options; of conflicting names the Config has one.
THEOREM ConfigsAreOfTheirSets == CompileSpec => []ResultIsOfTheSet
<1>1. CompileInv => ResultIsOfTheSet
  BY DEF CompileInv, DeclaredInv, ResultIsOfTheSet
<1> QED BY <1>1, CompileInvariant, PTL

\* A plan meets every active option of every use that was declared.
THEOREM AnswersAreOfTheDeclaration == CompileSpec => []AnswerIsOfTheDeclaration
<1>1. CompileInv => AnswerIsOfTheDeclaration
  BY AnswerIsDeclared
<1> QED BY <1>1, CompileInvariant, PTL

=============================================================================
