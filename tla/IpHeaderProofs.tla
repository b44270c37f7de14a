--------------------------- MODULE IpHeaderProofs ---------------------------
(***************************************************************************)
(* Proofs about IpHeader for every size of a nibble, a header and the      *)
(* array, every position of the checksum and every change of one word.     *)
(*                                                                         *)
(* Inv is inductive.  It says where the checksum field is while            *)
(* validate_checksum runs (Field), what a sender puts into it (FilledIn)   *)
(* and what a verdict says of the packet it was given for (Judged).  What  *)
(* a change of one word does to the sum is shown by induction over the     *)
(* words (OneWordChanges).                                                 *)
(***************************************************************************)
EXTENDS IpHeader, Integers, FiniteSetTheorems, WellFoundedInduction, TLAPS

\* A packet whose checksum field has been set to zero.
Zeroed(p) == [p EXCEPT ![CHECKSUM] = 0]

\* The sender's checksum, over the header that the IHL announces; the first
\* word holds the IHL and is not zero.
FilledIn ==
  /\ built[1] # 0
  /\ built[CHECKSUM] = calculate_checksum(Zeroed(built), IHL(built) * IHL_WORDS)

\* One word has changed at most, and no other; inside validate_checksum the
\* checksum field is not what it was.
OneChange == \A i, j \in damaged : i = j

Rest ==
  \A i \in 1..BUFFER :
    i \notin damaged /\ (pc = "idle" \/ i # CHECKSUM) => packet[i] = built[i]

\* Inside validate_checksum the field is zero, and its value is saved.
Field ==
  pc = "validating" =>
    /\ packet[CHECKSUM] = 0
    /\ verdict = "none"
    /\ CHECKSUM \notin damaged => original = built[CHECKSUM]

\* A verdict is that of the packet as it is now.
Judged ==
  verdict \in {"VALID", "INVALID"} =>
    /\ pc = "idle"
    /\ verdict = "VALID" <=>
         calculate_checksum(Zeroed(packet), FIXED) = packet[CHECKSUM]

\* A packet is judged only when its header is no shorter than the fixed one.
LongEnough ==
  pc = "validating" \/ verdict \in {"VALID", "INVALID"} =>
    FIXED <= IHL(packet) * IHL_WORDS

Inv == TypeOK /\ FilledIn /\ OneChange /\ Rest /\ Field /\ Judged /\ LongEnough

-----------------------------------------------------------------------------
(* Numbers.                                                                *)

LEMMA DivMod ==
  ASSUME NEW x \in Nat, NEW w \in Nat \ {0}
  PROVE  /\ x \div w \in Nat
         /\ x % w \in 0..(w - 1)
         /\ x = w * (x \div w) + (x % w)
BY SMTT(30)

LEMMA DivModUnique ==
  ASSUME NEW q \in Nat, NEW r \in Nat, NEW w \in Nat \ {0}, r < w
  PROVE  (q * w + r) % w = r /\ (q * w + r) \div w = q
BY SMTT(30)

LEMMA TimesMonotonic ==
  ASSUME NEW a \in Nat, NEW b \in Nat, NEW c \in Nat, a <= b
  PROVE  a * c <= b * c
BY SMTT(30)

\* The sizes, and where the checksum lies.
LEMMA Sizes ==
  /\ NIBBLE \in Nat /\ NIBBLE >= 2
  /\ BYTE \in Nat /\ BYTE >= NIBBLE /\ BYTE = NIBBLE * NIBBLE
  /\ WORD \in Nat /\ WORD >= BYTE /\ WORD - 1 \in Nat \ {0}
  /\ FIXED \in 1..BUFFER /\ BUFFER \in Nat
  /\ CHECKSUM \in 2..FIXED /\ CHECKSUM \in 1..BUFFER
<1>1. NIBBLE \in Nat /\ NIBBLE >= 2 /\ MIN_IHL \in Nat /\ MIN_IHL <= NIBBLE - 1
      /\ MIN_IHL >= 1 /\ IHL_WORDS \in Nat /\ IHL_WORDS >= 1 /\ BUFFER \in Nat
      /\ NIBBLE - 1 \in Nat
  BY IpAssumption
<1>2. BYTE \in Nat /\ BYTE = NIBBLE * NIBBLE /\ 2 * NIBBLE <= BYTE
  BY <1>1, TimesMonotonic DEF BYTE
<1>3. BYTE >= 4
  BY <1>1, <1>2
<1>4. WORD \in Nat /\ WORD = BYTE * BYTE /\ 4 * BYTE <= WORD
  BY <1>2, <1>3, TimesMonotonic DEF WORD
<1>5. FIXED \in Nat /\ 1 * IHL_WORDS <= FIXED /\ FIXED <= (NIBBLE - 1) * IHL_WORDS
  BY <1>1, TimesMonotonic DEF FIXED
<1>6. FIXED \in 1..BUFFER
  <2>1. (NIBBLE - 1) * IHL_WORDS <= BUFFER /\ 1 * IHL_WORDS = IHL_WORDS
    BY <1>1, IpAssumption
  <2>2. (NIBBLE - 1) * IHL_WORDS \in Nat
    BY <1>1
  <2> QED
    BY <1>1, <1>5, <2>1, <2>2
<1>7. CHECKSUM \in 2..FIXED
  BY IpAssumption
<1> QED
  BY <1>1, <1>2, <1>3, <1>4, <1>6, <1>7

\* The header that an IHL announces fits into the array.
LEMMA AnyHeaderFits ==
  ASSUME NEW ihl \in Nat, ihl < NIBBLE
  PROVE  ihl * IHL_WORDS \in 0..BUFFER
<1>1. ihl <= NIBBLE - 1 /\ NIBBLE - 1 \in Nat /\ IHL_WORDS \in Nat
  BY Sizes, IpAssumption
<1>2. ihl * IHL_WORDS \in Nat /\ ihl * IHL_WORDS <= (NIBBLE - 1) * IHL_WORDS
  BY <1>1, TimesMonotonic
<1>3. (NIBBLE - 1) * IHL_WORDS <= BUFFER /\ (NIBBLE - 1) * IHL_WORDS \in Nat
  BY <1>1, IpAssumption
<1> QED
  BY <1>2, <1>3, Sizes

\* The IHL of a packet is a nibble, and one that is long enough scales to at
\* least the fixed header.
LEMMA IHLIsNibble ==
  ASSUME NEW p \in [1..BUFFER -> Word]
  PROVE  /\ p[1] \in Nat
         /\ IHL(p) \in Nat /\ IHL(p) < NIBBLE
         /\ IHL(p) * IHL_WORDS \in 0..BUFFER
         /\ IHL(p) >= MIN_IHL => FIXED <= IHL(p) * IHL_WORDS
         /\ IHL(p) >= MIN_IHL => p[1] # 0
<1>1. p[1] \in Nat
  BY Sizes DEF Word
<1>2. IHL(p) \in Nat /\ IHL(p) < NIBBLE
  <2>1. NIBBLE \in Nat \ {0}
    BY Sizes
  <2>2. p[1] % NIBBLE \in 0..(NIBBLE - 1)
    BY <1>1, <2>1, DivMod
  <2> QED
    BY <2>1, <2>2 DEF IHL
<1>3. IHL(p) * IHL_WORDS \in 0..BUFFER
  BY <1>2, AnyHeaderFits
<1>4. MIN_IHL \in Nat /\ MIN_IHL >= 1 /\ IHL_WORDS \in Nat
  BY IpAssumption
<1>5. IHL(p) >= MIN_IHL => FIXED <= IHL(p) * IHL_WORDS
  BY <1>2, <1>4, TimesMonotonic DEF FIXED
<1>6. ASSUME p[1] = 0 PROVE IHL(p) = 0
  <2>1. (0 * NIBBLE + 0) % NIBBLE = 0
    BY Sizes, DivModUnique
  <2>2. 0 * NIBBLE + 0 = 0
    BY Sizes
  <2> QED
    BY <1>6, <2>1, <2>2 DEF IHL
<1> QED
  BY <1>1, <1>2, <1>3, <1>4, <1>5, <1>6

-----------------------------------------------------------------------------
(* Induction, over a set: the induction theorems of the library take an    *)
(* operator as a parameter, which the provers cannot instantiate.          *)

\* A set of natural numbers has a least element.
LEMMA LeastElement ==
  ASSUME NEW T, T \subseteq Nat, T # {}
  PROVE  \E x \in T : \A y \in T : x <= y
<1> DEFINE R == OpToRel(<, Nat)
<1>1. IsWellFoundedOn(R, Nat)
  BY NatLessThanWellFounded
<1>2. \A y, x \in Nat : y < x => <<y, x>> \in R
  BY DEF OpToRel
<1> HIDE DEF R
<1>3. PICK x \in T : \A y \in T : ~ (<<y, x>> \in R)
  BY <1>1, WFMin
<1>4. \A y \in T : ~(y < x)
  BY <1>2, <1>3
<1>5. \A y \in T : x <= y
  BY <1>4
<1> QED
  BY <1>5

\* A set with 0, and with n + 1 whenever n is in it, has every number.
LEMMA SetInduction ==
  ASSUME NEW T, 0 \in T, \A n \in Nat : n \in T => n + 1 \in T
  PROVE  Nat \subseteq T
<1>1. SUFFICES ASSUME Nat \ T # {} PROVE FALSE
  OBVIOUS
<1>2. PICK x \in Nat \ T : \A y \in Nat \ T : x <= y
  BY <1>1, LeastElement
<1>3. x # 0 /\ x \in Nat
  BY <1>2
<1>4. x - 1 \in Nat /\ ~(x <= x - 1)
  BY <1>3
<1>5. x - 1 \in T
  BY <1>2, <1>4
<1>6. (x - 1) + 1 \in T
  BY <1>4, <1>5
<1> QED
  BY <1>3, <1>6

-----------------------------------------------------------------------------
(* The sum.                                                                *)

\* The recursion of PartialSums up to m has a solution.
LEMMA PartialSumsSolution ==
  ASSUME NEW p, NEW m \in Nat
  PROVE  \E g : g = [k \in 0..m |-> IF k = 0 THEN 0 ELSE g[k - 1] + p[k]]
<1> DEFINE Solves(g, n) == g = [k \in 0..n |-> IF k = 0 THEN 0 ELSE g[k - 1] + p[k]]
           T == {n \in Nat : \E g : Solves(g, n)}
<1>1. 0 \in T
  <2>1. Solves([k \in 0..0 |-> 0], 0)
    OBVIOUS
  <2> QED
    BY <2>1
<1>2. ASSUME NEW n \in Nat, n \in T PROVE n + 1 \in T
  <2>1. PICK g : Solves(g, n)
    BY <1>2
  <2> DEFINE h == [k \in 0..(n + 1) |-> IF k = n + 1 THEN g[n] + p[n + 1] ELSE g[k]]
  <2>2. Solves(h, n + 1)
    <3>1. ASSUME NEW k \in 0..(n + 1)
          PROVE  h[k] = IF k = 0 THEN 0 ELSE h[k - 1] + p[k]
      <4>1. CASE k = n + 1
        BY <4>1
      <4>2. CASE k \in 1..n
        <5>1. h[k] = g[k] /\ h[k - 1] = g[k - 1] /\ k \in 0..n /\ k # 0
          BY <4>2
        <5>2. g[k] = g[k - 1] + p[k]
          BY <5>1, <2>1
        <5> HIDE DEF h
        <5> QED
          BY <5>1, <5>2
      <4>3. CASE k = 0
        <5>1. h[k] = g[k] /\ g[0] = 0
          BY <4>3, <2>1
        <5> QED
          BY <4>3, <5>1
      <4> QED
        BY <4>1, <4>2, <4>3
    <3> QED
      BY <3>1
  <2>3. \E x : Solves(x, n + 1)
    BY <2>2
  <2> QED
    BY <2>3
<1> HIDE DEF T
<1>3. m \in T
  BY <1>1, <1>2, SetInduction
<1> QED
  BY <1>3 DEF T

\* What is written as the recursive definition of PartialSums holds of it.
LEMMA PartialSumsEquation ==
  ASSUME NEW p, NEW n \in Nat
  PROVE  /\ PartialSums(p, n)[0] = 0
         /\ \A k \in 1..n : PartialSums(p, n)[k] = PartialSums(p, n)[k - 1] + p[k]
<1>1. \E g : g = [k \in 0..n |-> IF k = 0 THEN 0 ELSE g[k - 1] + p[k]]
  BY PartialSumsSolution
<1>2. PartialSums(p, n) =
        CHOOSE g : g = [k \in 0..n |-> IF k = 0 THEN 0 ELSE g[k - 1] + p[k]]
  BY DEF PartialSums
<1>3. PartialSums(p, n) =
        [k \in 0..n |-> IF k = 0 THEN 0 ELSE PartialSums(p, n)[k - 1] + p[k]]
  BY <1>1, <1>2
<1>4. \A k \in 0..n :
        PartialSums(p, n)[k] = IF k = 0 THEN 0 ELSE PartialSums(p, n)[k - 1] + p[k]
  BY <1>3
<1> QED
  BY <1>4

\* The sum of words is a natural number, and not zero if the first is not.
LEMMA TotalType ==
  ASSUME NEW p \in [1..BUFFER -> Word], NEW n \in 0..BUFFER
  PROVE  Total(p, n) \in Nat /\ (n >= 1 => Total(p, n) >= p[1])
<1> DEFINE s == PartialSums(p, n)
           T == {k \in Nat : k <= n => s[k] \in Nat /\ (k >= 1 => s[k] >= p[1])}
<1>1. n \in Nat /\ n <= BUFFER /\ BUFFER \in Nat
  BY Sizes
<1>2. s[0] = 0 /\ \A k \in 1..n : s[k] = s[k - 1] + p[k]
  BY <1>1, PartialSumsEquation
<1> HIDE DEF s
<1>3. 0 \in T
  BY <1>2
<1>4. ASSUME NEW k \in Nat, k \in T PROVE k + 1 \in T
  <2>1. SUFFICES ASSUME k + 1 <= n PROVE s[k + 1] \in Nat /\ s[k + 1] >= p[1]
    OBVIOUS
  <2>2. s[k] \in Nat /\ (k >= 1 => s[k] >= p[1])
    BY <1>1, <1>4, <2>1
  <2>3. k + 1 \in 1..n /\ (k + 1) - 1 = k /\ k + 1 \in 1..BUFFER /\ 1 \in 1..BUFFER
    BY <1>1, <2>1
  <2>4. s[k + 1] = s[k] + p[k + 1]
    BY <1>2, <2>3
  <2>5. p[k + 1] \in Nat /\ p[1] \in Nat
    BY <2>3, Sizes DEF Word
  <2>6. CASE k = 0
    BY <1>2, <2>4, <2>5, <2>6
  <2>7. CASE k >= 1
    BY <2>2, <2>4, <2>5, <2>7
  <2> QED
    BY <2>6, <2>7
<1> HIDE DEF T
<1>5. n \in T
  BY <1>1, <1>3, <1>4, SetInduction
<1> QED
  BY <1>1, <1>5 DEF T, s, Total

\* A change of one word changes the sum by as much.
LEMMA OneWordChanges ==
  ASSUME NEW p \in [1..BUFFER -> Word], NEW q \in [1..BUFFER -> Word],
         NEW n \in 0..BUFFER, NEW i \in 1..n,
         \A j \in 1..n : j # i => p[j] = q[j]
  PROVE  Total(q, n) = Total(p, n) + (q[i] - p[i])
<1> DEFINE s == PartialSums(p, n)
           t == PartialSums(q, n)
           T == {k \in Nat : k <= n => /\ s[k] \in Nat
                                       /\ t[k] = s[k] + (IF i <= k THEN q[i] - p[i] ELSE 0)}
<1>1. n \in Nat /\ n <= BUFFER /\ BUFFER \in Nat /\ i \in Nat /\ i <= n /\ i >= 1
  BY Sizes
<1>2. s[0] = 0 /\ \A k \in 1..n : s[k] = s[k - 1] + p[k]
  BY <1>1, PartialSumsEquation
<1>3. t[0] = 0 /\ \A k \in 1..n : t[k] = t[k - 1] + q[k]
  BY <1>1, PartialSumsEquation
<1> HIDE DEF s, t
<1>4. 0 \in T
  BY <1>1, <1>2, <1>3
<1>5. ASSUME NEW k \in Nat, k \in T PROVE k + 1 \in T
  <2>1. SUFFICES ASSUME k + 1 <= n
                 PROVE  /\ s[k + 1] \in Nat
                        /\ t[k + 1] = s[k + 1] + (IF i <= k + 1 THEN q[i] - p[i] ELSE 0)
    OBVIOUS
  <2>2. s[k] \in Nat /\ t[k] = s[k] + (IF i <= k THEN q[i] - p[i] ELSE 0)
    BY <1>1, <1>5, <2>1
  <2>3. k + 1 \in 1..n /\ (k + 1) - 1 = k /\ k + 1 \in 1..BUFFER /\ i \in 1..BUFFER
    BY <1>1, <2>1
  <2>4. s[k + 1] = s[k] + p[k + 1] /\ t[k + 1] = t[k] + q[k + 1]
    BY <1>2, <1>3, <2>3
  <2>5. p[k + 1] \in Nat /\ q[k + 1] \in Nat /\ p[i] \in Nat /\ q[i] \in Nat
    BY <2>3, Sizes DEF Word
  <2>6. CASE k + 1 = i
    BY <1>1, <2>2, <2>4, <2>5, <2>6
  <2>7. CASE k + 1 # i
    <3>1. p[k + 1] = q[k + 1] /\ (i <= k + 1 <=> i <= k)
      BY <1>1, <2>3, <2>7
    <3> QED
      BY <2>2, <2>4, <2>5, <3>1
  <2> QED
    BY <2>6, <2>7
<1> HIDE DEF T
<1>6. n \in T
  BY <1>1, <1>4, <1>5, SetInduction
<1> QED
  BY <1>1, <1>6 DEF T, s, t, Total

\* The sum of a packet's words is that of the first of them and of the rest.
LEMMA PrefixSums ==
  ASSUME NEW p \in [1..BUFFER -> Word], NEW n \in 0..BUFFER, NEW m \in 0..n
  PROVE  Total(p, m) \in Nat /\ Total(p, n) \in Nat /\ Total(p, m) <= Total(p, n)
<1> DEFINE s == PartialSums(p, n)
           t == PartialSums(p, m)
           T == {k \in Nat : k <= m => s[k] = t[k]}
           U == {k \in Nat : m + k <= n => s[m + k] \in Nat /\ t[m] <= s[m + k]}
<1>1. n \in Nat /\ n <= BUFFER /\ BUFFER \in Nat /\ m \in Nat /\ m <= n /\ m \in 0..BUFFER
  BY Sizes
<1>2. s[0] = 0 /\ \A k \in 1..n : s[k] = s[k - 1] + p[k]
  BY <1>1, PartialSumsEquation
<1>3. t[0] = 0 /\ \A k \in 1..m : t[k] = t[k - 1] + p[k]
  BY <1>1, PartialSumsEquation
<1>4. t[m] \in Nat /\ s[n] \in Nat
  BY <1>1, TotalType DEF Total
<1> HIDE DEF s, t
<1>5. 0 \in T
  BY <1>2, <1>3
<1>6. ASSUME NEW k \in Nat, k \in T PROVE k + 1 \in T
  <2>1. SUFFICES ASSUME k + 1 <= m PROVE s[k + 1] = t[k + 1]
    OBVIOUS
  <2>2. k + 1 \in 1..m /\ k + 1 \in 1..n /\ (k + 1) - 1 = k /\ s[k] = t[k]
    BY <1>1, <1>6, <2>1
  <2>3. s[k + 1] = s[k] + p[k + 1] /\ t[k + 1] = t[k] + p[k + 1]
    BY <1>2, <1>3, <2>2
  <2> QED
    BY <2>2, <2>3
<1> HIDE DEF T
<1>7. m \in T
  BY <1>1, <1>5, <1>6, SetInduction
<1>8. s[m] = t[m]
  BY <1>1, <1>7 DEF T
<1>9. 0 \in U
  BY <1>1, <1>4, <1>8
<1>10. ASSUME NEW k \in Nat, k \in U PROVE k + 1 \in U
  <2>1. SUFFICES ASSUME m + (k + 1) <= n
                 PROVE  s[m + (k + 1)] \in Nat /\ t[m] <= s[m + (k + 1)]
    OBVIOUS
  <2>2. /\ m + (k + 1) \in 1..n /\ m + (k + 1) \in 1..BUFFER
        /\ (m + (k + 1)) - 1 = m + k /\ m + k <= n
    BY <1>1, <2>1
  <2>3. s[m + (k + 1)] = s[m + k] + p[m + (k + 1)]
    BY <1>2, <2>2
  <2>4. p[m + (k + 1)] \in Nat
    BY <2>2, Sizes DEF Word
  <2>5. s[m + k] \in Nat /\ t[m] <= s[m + k]
    BY <1>10, <2>2
  <2> QED
    BY <1>4, <2>3, <2>4, <2>5
<1> HIDE DEF U
<1>11. n - m \in Nat /\ m + (n - m) = n
  BY <1>1
<1>12. n - m \in U
  BY <1>9, <1>10, <1>11, SetInduction
<1>13. t[m] <= s[n]
  BY <1>11, <1>12 DEF U
<1> QED
  BY <1>4, <1>13 DEF s, t, Total

-----------------------------------------------------------------------------
(* The checksum.                                                           *)

LEMMA ChecksumIsWord ==
  ASSUME NEW p \in [1..BUFFER -> Word], NEW n \in 0..BUFFER
  PROVE  calculate_checksum(p, n) \in Word
<1> DEFINE t == Total(p, n)
           m == WORD - 1
           r == (t - 1) % m
<1>1. t \in Nat /\ m \in Nat \ {0} /\ WORD = m + 1
  BY TotalType, Sizes
<1>2. calculate_checksum(p, n) = IF t = 0 THEN m ELSE m - (1 + r)
  BY DEF calculate_checksum
<1> HIDE DEF t, m
<1>3. CASE t = 0
  BY <1>1, <1>2, <1>3 DEF Word
<1>4. CASE t # 0
  <2>1. r \in 0..(m - 1)
    <3>1. t - 1 \in Nat
      BY <1>1, <1>4
    <3> QED
      BY <1>1, <3>1, DivMod
  <2> HIDE DEF r
  <2> QED
    BY <1>1, <1>2, <1>4, <2>1 DEF Word
<1> QED
  BY <1>3, <1>4

\* m more makes no difference to the remainder by m.
LEMMA RemainderShift ==
  ASSUME NEW x \in Nat, NEW m \in Nat \ {0}
  PROVE  (x + m) % m = x % m
<1> DEFINE a == x \div m
           r == x % m
<1>1. a \in Nat /\ r \in 0..(m - 1) /\ x = m * a + r
  BY DivMod
<1> HIDE DEF a, r
<1>2. x + m = (a + 1) * m + r /\ a + 1 \in Nat /\ r \in Nat /\ r < m
  BY <1>1
<1>3. ((a + 1) * m + r) % m = r
  BY ONLY <1>2, DivModUnique
<1> QED
  BY <1>2, <1>3 DEF r

\* d more makes no difference to the remainder by m exactly when m divides d.
LEMMA RemainderAfter ==
  ASSUME NEW x \in Nat, NEW d \in Nat, NEW m \in Nat \ {0}
  PROVE  x % m = (x + d) % m <=> d % m = 0
<1> DEFINE a == x \div m
           r == x % m
           b == (x + d) \div m
           q == (x + d) % m
           c == d \div m
           e == d % m
<1>1. a \in Nat /\ r \in 0..(m - 1) /\ x = m * a + r
  BY DivMod
<1>2. b \in Nat /\ q \in 0..(m - 1) /\ x + d = m * b + q
  <2>1. x + d \in Nat
    OBVIOUS
  <2> QED
    BY <2>1, DivMod
<1>3. c \in Nat /\ e \in 0..(m - 1) /\ d = m * c + e
  BY DivMod
<1>4. ASSUME e = 0 PROVE q = r
  <2> HIDE DEF a, c, r, e
  <2>1. x + d = (a + c) * m + r /\ a + c \in Nat /\ r \in Nat /\ r < m
    BY <1>1, <1>3, <1>4
  <2>2. ((a + c) * m + r) % m = r
    BY ONLY <2>1, DivModUnique
  <2> QED
    BY <2>1, <2>2
<1>5. ASSUME q = r PROVE e = 0
  <2> HIDE DEF a, b, q, r
  <2>1. d = m * b - m * a /\ m * a \in Nat /\ m * b \in Nat
    BY <1>1, <1>2, <1>5
  <2>2. a <= b
    <3>1. SUFFICES ASSUME b + 1 <= a PROVE FALSE
      BY <1>1, <1>2
    <3>2. (b + 1) * m <= a * m
      BY <1>1, <1>2, <3>1, TimesMonotonic
    <3>3. (b + 1) * m = m * b + m /\ a * m = m * a
      BY <1>1, <1>2
    <3> QED
      BY <2>1, <3>2, <3>3
  <2>3. d = (b - a) * m + 0 /\ b - a \in Nat /\ 0 < m
    BY <1>1, <1>2, <2>1, <2>2
  <2>4. ((b - a) * m + 0) % m = 0
    BY ONLY <2>3, DivModUnique
  <2> QED
    BY <2>3, <2>4
<1> QED
  BY <1>4, <1>5

\* Two positive sums that differ by the change of a word have the same
\* remainder exactly when the word is the same number as before.
LEMMA SameRemainder ==
  ASSUME NEW x \in Nat, NEW y \in Nat, NEW u \in Word, NEW v \in Word,
         y = x + (v - u)
  PROVE  x % (WORD - 1) = y % (WORD - 1) <=> SameNumber(v, u)
<1> DEFINE m == WORD - 1
<1>1. m \in Nat \ {0} /\ u \in 0..m /\ v \in 0..m
  BY Sizes DEF Word
<1>2. SameNumber(v, u) <=> v = u \/ {v, u} = {0, m}
  BY DEF SameNumber
<1> HIDE DEF m
<1>3. ASSUME SameNumber(v, u) PROVE x % m = y % m
  <2>1. CASE v = u
    BY <1>1, <2>1
  <2>2. CASE v = m /\ u = 0
    <3>1. y = x + m
      BY <1>1, <2>2
    <3> QED
      BY <1>1, <3>1, RemainderShift
  <2>3. CASE v = 0 /\ u = m
    <3>1. x = y + m
      BY <1>1, <2>3
    <3> QED
      BY <1>1, <3>1, RemainderShift
  <2> QED
    BY <1>2, <1>3, <2>1, <2>2, <2>3
<1>4. ASSUME x % m = y % m PROVE SameNumber(v, u)
  <2> DEFINE a == x \div m
             b == y \div m
             r == x % m
  <2>1. a \in Nat /\ b \in Nat /\ r \in Nat /\ x = m * a + r /\ y = m * b + r
    <3>1. a \in Nat /\ r \in 0..(m - 1) /\ x = m * a + r
      BY ONLY <1>1, DivMod
    <3>2. b \in Nat /\ y = m * b + (y % m)
      BY ONLY <1>1, DivMod
    <3> HIDE DEF a, b
    <3> QED
      BY <1>1, <1>4, <3>1, <3>2
  <2> HIDE DEF a, b, r
  <2>2. CASE a = b
    BY <1>1, <1>2, <2>1, <2>2
  <2>3. CASE a < b
    <3> DEFINE d == b - a
    <3>1. d \in Nat /\ d >= 1 /\ b = a + d
      BY <2>1, <2>3
    <3> HIDE DEF d
    <3>2. v - u = d * m
      <4>1. y = m * a + d * m + r
        BY <1>1, <2>1, <3>1
      <4> DEFINE e == m * a
                 f == d * m
      <4>2. e \in Nat /\ f \in Nat
        BY <1>1, <2>1, <3>1
      <4>3. y = e + f + r /\ x = e + r
        BY <2>1, <4>1
      <4> HIDE DEF e, f
      <4>4. v - u = f
        BY <1>1, <2>1, <4>2, <4>3
      <4> QED
        BY <4>4 DEF f
    <3>3. 1 * m <= d * m /\ d * m \in Nat
      BY <1>1, <3>1, TimesMonotonic
    <3>4. v = m /\ u = 0
      BY <1>1, <3>2, <3>3
    <3> QED
      BY <1>2, <3>4
  <2>4. CASE b < a
    <3> DEFINE d == a - b
    <3>1. d \in Nat /\ d >= 1 /\ a = b + d
      BY <2>1, <2>4
    <3> HIDE DEF d
    <3>2. u - v = d * m
      <4>1. x = m * b + d * m + r
        BY <1>1, <2>1, <3>1
      <4> DEFINE e == m * b
                 f == d * m
      <4>2. e \in Nat /\ f \in Nat
        BY <1>1, <2>1, <3>1
      <4>3. x = e + f + r /\ y = e + r
        BY <2>1, <4>1
      <4> HIDE DEF e, f
      <4>4. u - v = f
        BY <1>1, <2>1, <4>2, <4>3
      <4> QED
        BY <4>4 DEF f
    <3>3. 1 * m <= d * m /\ d * m \in Nat
      BY <1>1, <3>1, TimesMonotonic
    <3>4. u = m /\ v = 0
      BY <1>1, <3>2, <3>3
    <3> QED
      BY <1>2, <3>4
  <2> QED
    BY <2>1, <2>2, <2>3, <2>4
<1> QED
  BY <1>3, <1>4 DEF m

\* The checksums of two headers that do not begin with zero and differ in one
\* word at most are equal exactly when that word is the same number in both.
LEMMA SameChecksum ==
  ASSUME NEW p \in [1..BUFFER -> Word], NEW q \in [1..BUFFER -> Word],
         NEW n \in 1..BUFFER, NEW i \in 1..n,
         \A j \in 1..n : j # i => p[j] = q[j],
         p[1] # 0, q[1] # 0
  PROVE  calculate_checksum(p, n) = calculate_checksum(q, n) <=> SameNumber(q[i], p[i])
<1> DEFINE s == Total(p, n)
           t == Total(q, n)
           m == WORD - 1
           a == (s - 1) % m
           b == (t - 1) % m
<1>1. n \in 0..BUFFER /\ i \in 1..BUFFER /\ n >= 1 /\ 1 \in 1..BUFFER
  BY Sizes
<1>2. p[i] \in Word /\ q[i] \in Word /\ p[1] \in Nat /\ q[1] \in Nat
  BY <1>1, Sizes DEF Word
<1>3. s \in Nat /\ t \in Nat /\ s >= p[1] /\ t >= q[1]
  BY <1>1, TotalType
<1>4. t = s + (q[i] - p[i])
  BY <1>1, OneWordChanges
<1>5. calculate_checksum(p, n) = IF s = 0 THEN m ELSE m - (1 + a)
  BY DEF calculate_checksum
<1>6. calculate_checksum(q, n) = IF t = 0 THEN m ELSE m - (1 + b)
  BY DEF calculate_checksum
<1> HIDE DEF s, t
<1>7. s - 1 \in Nat /\ t - 1 \in Nat /\ s # 0 /\ t # 0
  BY <1>2, <1>3
<1>8. t - 1 = (s - 1) + (q[i] - p[i])
  BY <1>2, <1>3, <1>4, Sizes DEF Word
<1>9. a = b <=> SameNumber(q[i], p[i])
  BY <1>2, <1>7, <1>8, SameRemainder
<1>10. a \in Nat /\ b \in Nat /\ m \in Nat
  <2>1. m \in Nat \ {0}
    BY Sizes
  <2> HIDE DEF m
  <2>2. a \in 0..(m - 1) /\ b \in 0..(m - 1)
    BY <1>7, <2>1, DivMod
  <2> QED
    BY <2>1, <2>2
<1> HIDE DEF a, b, m
<1>11. m - (1 + a) = m - (1 + b) <=> a = b
  BY <1>10
<1> QED
  BY <1>5, <1>6, <1>7, <1>9, <1>11

-----------------------------------------------------------------------------
(* The initial states.                                                     *)

\* The header that a sender builds, before its checksum is filled in.
LEMMA HeaderType ==
  ASSUME NEW ihl \in MIN_IHL..(NIBBLE - 1), NEW fields \in HeaderFields(ihl)
  PROVE  Header(ihl, fields) \in [1..BUFFER -> Word] /\ Header(ihl, fields)[1] # 0
<1> DEFINE p == Header(ihl, fields)
<1>1. /\ ihl \in Nat /\ ihl >= 1 /\ ihl <= NIBBLE - 1
      /\ VERSION \in Nat /\ VERSION <= NIBBLE - 1 /\ NIBBLE - 1 \in Nat
  BY Sizes, IpAssumption
<1>2. /\ VERSION * NIBBLE \in Nat
      /\ VERSION * NIBBLE <= (NIBBLE - 1) * NIBBLE
      /\ (NIBBLE - 1) * NIBBLE = BYTE - NIBBLE
  BY <1>1, Sizes, TimesMonotonic
<1>3. FirstWord(VERSION, ihl) \in Word /\ FirstWord(VERSION, ihl) # 0
  BY <1>1, <1>2, Sizes DEF FirstWord, Word
<1>4. 0 \in Word
  BY Sizes DEF Word
<1>5. \A i \in DOMAIN fields : fields[i] \in Word
  BY IpAssumption DEF HeaderFields
<1>6. p = [i \in 1..BUFFER |-> IF i = 1 THEN FirstWord(VERSION, ihl)
                               ELSE IF i \in DOMAIN fields THEN fields[i] ELSE 0]
  BY DEF Header
<1>7. p \in [1..BUFFER -> Word]
  BY <1>3, <1>4, <1>5, <1>6
<1>8. p[1] = FirstWord(VERSION, ihl)
  BY <1>6, Sizes
<1> QED
  BY <1>3, <1>7, <1>8

\* A word of the array is replaced, and no other.
LEMMA ReplaceWord ==
  ASSUME NEW p \in [1..BUFFER -> Word], NEW i \in 1..BUFFER, NEW w \in Word
  PROVE  /\ [p EXCEPT ![i] = w] \in [1..BUFFER -> Word]
         /\ [p EXCEPT ![i] = w][i] = w
         /\ \A j \in 1..BUFFER : j # i => [p EXCEPT ![i] = w][j] = p[j]
OBVIOUS

LEMMA ZeroedType ==
  ASSUME NEW p \in [1..BUFFER -> Word]
  PROVE  /\ Zeroed(p) \in [1..BUFFER -> Word]
         /\ Zeroed(p)[CHECKSUM] = 0
         /\ \A j \in 1..BUFFER : j # CHECKSUM => Zeroed(p)[j] = p[j]
         /\ Zeroed(p)[1] = p[1]
<1>1. 0 \in Word /\ CHECKSUM \in 1..BUFFER /\ 1 \in 1..BUFFER /\ 1 # CHECKSUM
  BY Sizes DEF Word
<1> QED
  BY <1>1, ReplaceWord DEF Zeroed

\* What Filled does to a header.
LEMMA FilledType ==
  ASSUME NEW p \in [1..BUFFER -> Word]
  PROVE  /\ Filled(p) \in [1..BUFFER -> Word]
         /\ Filled(p)[1] = p[1]
         /\ Filled(p)[CHECKSUM] =
              calculate_checksum(Zeroed(Filled(p)), IHL(Filled(p)) * IHL_WORDS)
<1> DEFINE c == calculate_checksum(Zeroed(p), IHL(p) * IHL_WORDS)
           q == Filled(p)
<1>1. c \in Word
  BY ZeroedType, IHLIsNibble, ChecksumIsWord
<1>2. q = [p EXCEPT ![CHECKSUM] = c]
  BY DEF Filled, Zeroed
<1>3. CHECKSUM \in 1..BUFFER /\ 1 \in 1..BUFFER /\ 1 # CHECKSUM
  BY Sizes
<1> HIDE DEF c, q
<1>4. /\ q \in [1..BUFFER -> Word] /\ q[CHECKSUM] = c
      /\ \A j \in 1..BUFFER : j # CHECKSUM => q[j] = p[j]
  BY <1>1, <1>2, <1>3, ReplaceWord
<1>5. q[1] = p[1]
  BY <1>3, <1>4
<1>6. Zeroed(q) = Zeroed(p)
  BY <1>2, <1>3 DEF Zeroed
<1>7. IHL(q) = IHL(p)
  BY <1>5 DEF IHL
<1>8. q[CHECKSUM] = calculate_checksum(Zeroed(q), IHL(q) * IHL_WORDS)
  BY <1>4, <1>6, <1>7 DEF c
<1> QED
  BY <1>4, <1>5, <1>8 DEF q

LEMMA InvInit == Init => Inv
<1> SUFFICES ASSUME Init PROVE Inv
  OBVIOUS
<1>1. PICK ihl \in MIN_IHL..(NIBBLE - 1) :
        \E fields \in HeaderFields(ihl) : built = Filled(Header(ihl, fields))
  BY DEF Init
<1>2. PICK fields \in HeaderFields(ihl) : built = Filled(Header(ihl, fields))
  BY <1>1
<1>3. Header(ihl, fields) \in [1..BUFFER -> Word] /\ Header(ihl, fields)[1] # 0
  BY HeaderType
<1>4. built \in [1..BUFFER -> Word] /\ FilledIn
  BY <1>2, <1>3, FilledType DEF FilledIn
<1>5. /\ pc = "idle" /\ packet = built /\ length \in 0..BUFFER /\ original = 0
      /\ verdict = "none" /\ damaged = {}
  BY DEF Init
<1>6. TypeOK
  <2>1. 0 \in Word
    BY Sizes DEF Word
  <2>2. Cardinality(damaged) = 0
    BY <1>5, FS_EmptySet
  <2> QED
    BY <1>4, <1>5, <2>1, <2>2 DEF TypeOK
<1>7. OneChange /\ Rest /\ Field /\ Judged /\ LongEnough
  BY <1>5 DEF OneChange, Rest, Field, Judged, LongEnough
<1> QED
  BY <1>4, <1>6, <1>7 DEF Inv

-----------------------------------------------------------------------------
(* The steps.                                                              *)

LEMMA InvChange ==
  ASSUME Inv, NEW i \in 1..BUFFER, NEW word \in Damage, Change(i, word)
  PROVE  Inv'
<1>1. /\ pc = "idle" /\ pc' = pc /\ damaged = {} /\ damaged' = {i}
      /\ packet' = [packet EXCEPT ![i] = word] /\ verdict' = "none"
      /\ UNCHANGED <<length, original, built>>
  BY DEF Change
<1>2. word \in Word /\ packet \in [1..BUFFER -> Word]
  BY IpAssumption DEF Inv, TypeOK
<1>3. /\ packet' \in [1..BUFFER -> Word]
      /\ \A j \in 1..BUFFER : j # i => packet'[j] = packet[j]
  BY <1>1, <1>2, ReplaceWord
<1>4. TypeOK'
  <2>1. Cardinality(damaged') = 1
    BY <1>1, FS_Singleton
  <2> QED
    BY <1>1, <1>3, <2>1 DEF Inv, TypeOK
<1>5. FilledIn' /\ OneChange' /\ Field' /\ Judged' /\ LongEnough'
  BY <1>1 DEF Inv, FilledIn, OneChange, Field, Judged, LongEnough
<1>6. Rest'
  BY <1>1, <1>3 DEF Inv, Rest
<1> QED
  BY <1>4, <1>5, <1>6 DEF Inv

LEMMA InvRefuse == Inv /\ Refuse => Inv'
<1> SUFFICES ASSUME Inv, Refuse PROVE Inv'
  OBVIOUS
<1>1. /\ pc = "idle" /\ UNCHANGED <<pc, original, packet, length, built, damaged>>
      /\ verdict' \in {"bad_version", "bad_ihl", "too_long"}
  BY DEF Refuse, Report
<1>2. TypeOK'
  BY <1>1 DEF Inv, TypeOK
<1>3. FilledIn' /\ OneChange' /\ Rest' /\ Field' /\ Judged' /\ LongEnough'
  BY <1>1 DEF Inv, FilledIn, OneChange, Rest, Field, Judged, LongEnough
<1> QED
  BY <1>2, <1>3 DEF Inv

LEMMA InvStart == Inv /\ StartValidation => Inv'
<1> SUFFICES ASSUME Inv, StartValidation PROVE Inv'
  OBVIOUS
<1>1. /\ pc = "idle" /\ pc' = "validating" /\ ~BadIHL
      /\ original' = packet[CHECKSUM] /\ packet' = [packet EXCEPT ![CHECKSUM] = 0]
      /\ verdict' = "none" /\ UNCHANGED <<length, built, damaged>>
  BY DEF StartValidation, ZeroField
<1>2. /\ packet \in [1..BUFFER -> Word] /\ length \in Nat
      /\ CHECKSUM \in 1..BUFFER /\ MIN_IHL \in Nat
  BY Sizes, IpAssumption DEF Inv, TypeOK
<1>3. packet' = Zeroed(packet)
  BY <1>1 DEF Zeroed
<1>4. /\ packet' \in [1..BUFFER -> Word] /\ packet'[CHECKSUM] = 0
      /\ packet'[1] = packet[1]
      /\ \A j \in 1..BUFFER : j # CHECKSUM => packet'[j] = packet[j]
  BY <1>2, <1>3, ZeroedType
<1>5. original' \in Word
  BY <1>1, <1>2
<1>6. TypeOK'
  BY <1>1, <1>4, <1>5 DEF Inv, TypeOK
<1>7. FilledIn' /\ OneChange' /\ Judged'
  BY <1>1 DEF Inv, FilledIn, OneChange, Judged
<1>8. Rest'
  BY <1>1, <1>4 DEF Inv, Rest
<1>9. Field'
  BY <1>1, <1>2, <1>4 DEF Inv, Rest, Field
<1>10. LongEnough'
  <2>1. IHL(packet)' = IHL(packet)
    BY <1>4 DEF IHL
  <2>2. IHL(packet) \in Nat
    BY <1>2, IHLIsNibble
  <2>3. IHL(packet) >= MIN_IHL
    BY <1>1, <1>2, <2>2 DEF BadIHL
  <2>4. FIXED <= IHL(packet) * IHL_WORDS
    BY <1>2, <2>3, IHLIsNibble
  <2> QED
    BY <2>1, <2>4 DEF LongEnough
<1> QED
  BY <1>6, <1>7, <1>8, <1>9, <1>10 DEF Inv

LEMMA InvEnd == Inv /\ EndValidation => Inv'
<1> SUFFICES ASSUME Inv, EndValidation PROVE Inv'
  OBVIOUS
<1>1. /\ pc = "validating" /\ pc' = "idle"
      /\ packet' = [packet EXCEPT ![CHECKSUM] = original]
      /\ verdict' = IF Calculated = original THEN "VALID" ELSE "INVALID"
      /\ UNCHANGED <<length, original, built, damaged>>
  BY DEF EndValidation, Restore
<1>2. /\ packet \in [1..BUFFER -> Word] /\ original \in Word
      /\ CHECKSUM \in 1..BUFFER /\ 1 \in 1..BUFFER /\ 1 # CHECKSUM
  BY Sizes DEF Inv, TypeOK
<1>3. /\ packet' \in [1..BUFFER -> Word] /\ packet'[CHECKSUM] = original
      /\ \A j \in 1..BUFFER : j # CHECKSUM => packet'[j] = packet[j]
  BY <1>1, <1>2, ReplaceWord
<1>4. packet[CHECKSUM] = 0 /\ (CHECKSUM \notin damaged => original = built[CHECKSUM])
  BY <1>1 DEF Inv, Field
<1>5. TypeOK'
  BY <1>1, <1>3 DEF Inv, TypeOK
<1>6. FilledIn' /\ OneChange' /\ Field'
  BY <1>1 DEF Inv, FilledIn, OneChange, Field
<1>7. Rest'
  BY <1>1, <1>3, <1>4 DEF Inv, Rest
<1>8. Judged'
  <2>1. Zeroed(packet') = packet
    BY <1>1, <1>2, <1>4 DEF Zeroed
  <2>2. verdict' = "VALID" <=> calculate_checksum(Zeroed(packet'), FIXED) = packet'[CHECKSUM]
    BY <1>1, <1>3, <2>1 DEF Calculated
  <2> QED
    BY <1>1, <2>2 DEF Judged, Zeroed, calculate_checksum, Total
<1>9. LongEnough'
  <2>1. IHL(packet)' = IHL(packet)
    BY <1>2, <1>3 DEF IHL
  <2> QED
    BY <1>1, <2>1 DEF Inv, LongEnough
<1> QED
  BY <1>5, <1>6, <1>7, <1>8, <1>9 DEF Inv

LEMMA InvStep == Inv /\ [Next]_vars => Inv'
<1> SUFFICES ASSUME Inv, [Next]_vars PROVE Inv'
  OBVIOUS
<1>1. CASE \E i \in 1..BUFFER, word \in Damage : Change(i, word)
  BY <1>1, InvChange
<1>2. CASE Refuse
  BY <1>2, InvRefuse
<1>3. CASE StartValidation
  BY <1>3, InvStart
<1>4. CASE EndValidation
  BY <1>4, InvEnd
<1>5. CASE UNCHANGED vars
  BY <1>5 DEF vars, Inv, TypeOK, FilledIn, OneChange, Rest, Field, Judged, LongEnough
<1> QED
  BY <1>1, <1>2, <1>3, <1>4, <1>5 DEF Next

LEMMA InvAlways == Spec => []Inv
<1> QED
  BY InvInit, InvStep, PTL DEF Spec

-----------------------------------------------------------------------------
(* The theorems.                                                           *)

\* Every word of the array stays a word, the checksum included, whose sum
\* is folded until no carry is left.
THEOREM TypeCorrect == Spec => []TypeOK
<1> QED
  BY InvAlways, PTL DEF Inv

\* validate_checksum gives the packet back as it got it, whichever word has
\* changed on the way.
THEOREM PacketRestoredAlways == Spec => []PacketRestored
<1>1. Inv => PacketRestored
  BY DEF Inv, Rest, PacketRestored
<1> QED
  BY <1>1, InvAlways, PTL

\* The checksum of the fixed header detects the change of any one word, but
\* for 0x0000 in the place of 0xFFFF or the reverse, and accepts what has
\* not changed: for every size of a word and of the header, whatever the
\* values of the fields.
THEOREM VerdictIsRightAlways == Spec => []VerdictIsRight
<1>1. Inv => VerdictIsRight
  <2> SUFFICES ASSUME Inv, verdict \in {"VALID", "INVALID"},
                      IHL(built) = MIN_IHL, IHL(packet) = MIN_IHL
               PROVE  verdict = "VALID" <=>
                        /\ packet[CHECKSUM] = built[CHECKSUM]
                        /\ \A i \in (1..FIXED) \ {CHECKSUM} : SameNumber(packet[i], built[i])
    BY DEF VerdictIsRight
  <2> DEFINE p == Zeroed(packet)
             b == Zeroed(built)
  <2>1. /\ packet \in [1..BUFFER -> Word] /\ built \in [1..BUFFER -> Word]
        /\ pc = "idle" /\ damaged \subseteq 1..BUFFER
    BY DEF Inv, TypeOK, Judged
  <2>2. verdict = "VALID" <=> calculate_checksum(p, FIXED) = packet[CHECKSUM]
    BY DEF Inv, Judged
  <2>3. built[CHECKSUM] = calculate_checksum(b, FIXED) /\ built[1] # 0
    BY DEF Inv, FilledIn, FIXED
  <2>4. /\ p \in [1..BUFFER -> Word] /\ b \in [1..BUFFER -> Word]
        /\ p[CHECKSUM] = 0 /\ b[CHECKSUM] = 0
        /\ p[1] = packet[1] /\ b[1] = built[1]
        /\ \A j \in 1..BUFFER : j # CHECKSUM => p[j] = packet[j] /\ b[j] = built[j]
    BY <2>1, ZeroedType
  <2>5. p[1] # 0 /\ b[1] # 0
    <3>1. MIN_IHL \in Nat /\ IHL(packet) >= MIN_IHL
      BY IpAssumption
    <3> QED
      BY <2>1, <2>3, <2>4, <3>1, IHLIsNibble
  <2>6. \A j \in 1..BUFFER : j \notin damaged => packet[j] = built[j]
    BY <2>1 DEF Inv, Rest
  <2>7. /\ FIXED \in 1..BUFFER /\ CHECKSUM \in 1..FIXED
        /\ 1..FIXED \subseteq 1..BUFFER /\ 1 \in 1..FIXED /\ 1 # CHECKSUM
    BY Sizes
  <2> HIDE DEF p, b
  <2>8. ASSUME NEW i \in 1..FIXED, i # CHECKSUM,
               \A j \in 1..FIXED : j # i => packet[j] = built[j]
        PROVE  verdict = "VALID" <=>
                 /\ packet[CHECKSUM] = built[CHECKSUM]
                 /\ \A k \in (1..FIXED) \ {CHECKSUM} : SameNumber(packet[k], built[k])
    <3>1. \A j \in 1..FIXED : j # i => b[j] = p[j]
      BY <2>4, <2>7, <2>8
    <3>2. calculate_checksum(b, FIXED) = calculate_checksum(p, FIXED)
            <=> SameNumber(p[i], b[i])
      BY <2>4, <2>5, <2>7, <3>1, SameChecksum
    <3>3. p[i] = packet[i] /\ b[i] = built[i]
      BY <2>4, <2>7, <2>8
    <3>4. packet[CHECKSUM] = built[CHECKSUM]
      BY <2>7, <2>8
    <3>5. \A k \in (1..FIXED) \ {CHECKSUM} : k # i => SameNumber(packet[k], built[k])
      BY <2>8 DEF SameNumber
    <3>6. i \in (1..FIXED) \ {CHECKSUM}
      BY <2>8
    <3> QED
      BY <2>2, <2>3, <3>2, <3>3, <3>4, <3>5, <3>6
  <2>9. CASE \E i \in 1..FIXED : i # CHECKSUM /\ i \in damaged
    <3>1. PICK i \in 1..FIXED : i # CHECKSUM /\ i \in damaged
      BY <2>9
    <3>2. \A j \in 1..FIXED : j # i => packet[j] = built[j]
      BY <2>6, <2>7, <3>1 DEF Inv, OneChange
    <3> QED
      BY <2>8, <3>1, <3>2
  <2>10. CASE \A i \in 1..FIXED : i # CHECKSUM => i \notin damaged
    <3>1. \A j \in 1..FIXED : j # CHECKSUM => packet[j] = built[j]
      BY <2>6, <2>7, <2>10
    <3>2. \A j \in 1..FIXED : b[j] = p[j]
      BY <2>4, <2>7, <3>1
    <3>3. SameNumber(p[1], b[1])
      BY <2>7, <3>2 DEF SameNumber
    <3>4. calculate_checksum(b, FIXED) = calculate_checksum(p, FIXED)
      <4>1. \A j \in 1..FIXED : j # 1 => b[j] = p[j]
        BY <3>2
      <4>2. calculate_checksum(b, FIXED) = calculate_checksum(p, FIXED)
              <=> SameNumber(p[1], b[1])
        BY <2>4, <2>5, <2>7, <4>1, SameChecksum
      <4> QED
        BY <3>3, <4>2
    <3>5. \A k \in (1..FIXED) \ {CHECKSUM} : SameNumber(packet[k], built[k])
      BY <3>1 DEF SameNumber
    <3> QED
      BY <2>2, <2>3, <3>4, <3>5
  <2> QED
    BY <2>9, <2>10
<1> QED
  BY <1>1, InvAlways, PTL

\* What exactly is wrong with headers that have options: a header that
\* arrives as it was sent is VALID if and only if its options sum to zero in
\* one's complement, since validate_checksum leaves them out.  In particular
\* every header without options is VALID.
THEOREM OptionsExplainedAlways == Spec => []OptionsExplained
<1>1. Inv => OptionsExplained
  <2> SUFFICES ASSUME Inv, verdict \in {"VALID", "INVALID"}, damaged = {}
               PROVE  verdict = "VALID" <=> OptionsSum % (WORD - 1) = 0
    BY DEF OptionsExplained
  <2> DEFINE n == IHL(built) * IHL_WORDS
             b == Zeroed(built)
             s == Total(b, FIXED)
             t == Total(b, n)
             m == WORD - 1
             d == OptionsSum
  <2>1. packet \in [1..BUFFER -> Word] /\ built \in [1..BUFFER -> Word] /\ pc = "idle"
    BY DEF Inv, TypeOK, Judged
  <2>2. packet = built
    <3>1. \A j \in 1..BUFFER : packet[j] = built[j]
      BY <2>1 DEF Inv, Rest
    <3>2. /\ packet = [j \in 1..BUFFER |-> packet[j]]
          /\ built = [j \in 1..BUFFER |-> built[j]]
      BY <2>1
    <3> QED
      BY <3>1, <3>2, Zenon
  <2>3. verdict = "VALID" <=> calculate_checksum(b, FIXED) = calculate_checksum(b, n)
    BY <2>2 DEF Inv, Judged, FilledIn
  <2>4. /\ n \in 0..BUFFER /\ n \in Nat
        /\ FIXED \in 1..BUFFER /\ FIXED \in 0..BUFFER /\ FIXED \in 0..n /\ FIXED >= 1
    <3>1. FIXED <= n
      BY <2>2 DEF Inv, LongEnough
    <3>2. n \in 0..BUFFER /\ FIXED \in 1..BUFFER
      BY <2>1, IHLIsNibble, Sizes
    <3> HIDE DEF n
    <3> QED
      BY <3>1, <3>2, Sizes
  <2>5. /\ b \in [1..BUFFER -> Word] /\ b[CHECKSUM] = 0 /\ b[1] = built[1]
        /\ \A j \in 1..BUFFER : j # CHECKSUM => b[j] = built[j]
    BY <2>1, ZeroedType
  <2>6. built[CHECKSUM] \in Nat /\ built[1] \in Nat /\ built[1] # 0
    BY <2>1, Sizes DEF Inv, FilledIn, Word
  <2>7. CHECKSUM \in 1..FIXED /\ CHECKSUM \in 1..n
    <3> HIDE DEF n
    <3> QED
      BY <2>4, Sizes
  <2> HIDE DEF n, b
  <2>8. s \in Nat /\ t \in Nat /\ s <= t
    BY <2>4, <2>5, PrefixSums
  <2>9. s >= 1 /\ t >= 1
    <3>1. s >= b[1]
      BY <2>4, <2>5, TotalType
    <3> QED
      BY <2>5, <2>6, <2>8, <3>1
  <2>10. d = t - s
    <3>1. Total(built, FIXED) = s + (built[CHECKSUM] - b[CHECKSUM])
      <4>1. \A j \in 1..FIXED : j # CHECKSUM => b[j] = built[j]
        BY <2>4, <2>5, Sizes
      <4>2. built \in [1..BUFFER -> Word] /\ b \in [1..BUFFER -> Word]
        BY <2>1, <2>5
      <4> QED
        BY <2>4, <2>7, <4>1, <4>2, OneWordChanges
    <3>2. Total(built, n) = t + (built[CHECKSUM] - b[CHECKSUM])
      <4>1. \A j \in 1..n : j # CHECKSUM => b[j] = built[j]
        BY <2>4, <2>5, Sizes
      <4>2. built \in [1..BUFFER -> Word] /\ b \in [1..BUFFER -> Word]
        BY <2>1, <2>5
      <4> QED
        BY <2>4, <2>7, <4>1, <4>2, OneWordChanges
    <3> HIDE DEF s, t
    <3> QED
      BY <2>5, <2>6, <2>8, <3>1, <3>2 DEF OptionsSum, n
  <2>11. /\ calculate_checksum(b, FIXED) = m - (1 + ((s - 1) % m))
         /\ calculate_checksum(b, n) = m - (1 + ((t - 1) % m))
    <3>1. s # 0 /\ t # 0
      BY <2>8, <2>9
    <3> QED
      BY <3>1 DEF calculate_checksum
  <2> HIDE DEF s, t, m, d
  <2>12. m \in Nat \ {0} /\ s - 1 \in Nat /\ d \in Nat /\ t - 1 = (s - 1) + d
    BY <2>8, <2>9, <2>10, Sizes DEF m
  <2>13. (s - 1) % m = (t - 1) % m <=> d % m = 0
    <3>1. (s - 1) % m = ((s - 1) + d) % m <=> d % m = 0
      BY ONLY <2>12, RemainderAfter
    <3> QED
      BY <2>12, <3>1
  <2>14. m - (1 + ((s - 1) % m)) = m - (1 + ((t - 1) % m)) <=> (s - 1) % m = (t - 1) % m
    <3>1. t - 1 \in Nat
      BY <2>12
    <3>2. (s - 1) % m \in 0..(m - 1) /\ (t - 1) % m \in 0..(m - 1)
      BY <2>12, <3>1, DivMod
    <3> DEFINE a == (s - 1) % m
               c == (t - 1) % m
    <3> HIDE DEF a, c
    <3>3. m - (1 + a) = m - (1 + c) <=> a = c
      BY <2>12, <3>2 DEF a, c
    <3> QED
      BY <3>3 DEF a, c
  <2> QED
    BY <2>3, <2>11, <2>13, <2>14 DEF m, d
<1> QED
  BY <1>1, InvAlways, PTL
=============================================================================
