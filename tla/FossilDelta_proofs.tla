--------------------------- MODULE FossilDelta_proofs ---------------------------
(***************************************************************************)
(* Proofs about FossilDelta, for data, deltas and command lists of any     *)
(* length: the checksum is the sum of the words of the data, decoding      *)
(* always ends, and what the encoder writes decodes to what it meant.      *)
(* Loops are recursive functions; an induction over their steps is made    *)
(* with UpTo, from the well-foundedness of < on Nat.                       *)
(***************************************************************************)
EXTENDS FossilDelta, SequenceTheorems, WellFoundedInduction, TLAPS

-------------------------------------------------------------------------------
(* Induction.                                                                  *)

\* A set of natural numbers has a least member.  Every induction below rests on it.
LEMMA LeastNumber ==
  ASSUME NEW S \in SUBSET Nat, S # {}
  PROVE  \E n \in S : \A m \in S : n <= m
<1> DEFINE R == OpToRel(<,Nat)
<1>1. IsWellFoundedOn(R, Nat)
  BY NatLessThanWellFounded
<1>3. \A m, n \in Nat : m < n => <<m, n>> \in R
  BY DEF OpToRel
<1> HIDE DEF R
<1>2. PICK n \in S : \A m \in S : ~(<<m, n>> \in R)
  BY <1>1, WFMin
<1>5. ASSUME NEW m \in S PROVE n <= m
  <2>1. m \in Nat /\ n \in Nat OBVIOUS
  <2>2. ~(m < n) BY <1>2, <1>3, <2>1
  <2> QED BY <2>1, <2>2
<1> QED BY <1>5

\* Induction over the numbers up to a bound.
LEMMA UpTo ==
  ASSUME NEW S, NEW n \in Nat, 0 \in S, \A k \in 1 .. n : k - 1 \in S => k \in S
  PROVE  0 .. n \subseteq S
<1> DEFINE Missing == {k \in Nat : k <= n /\ k \notin S}
<1> SUFFICES ASSUME Missing # {} PROVE FALSE
  OBVIOUS
<1>1. PICK k \in Missing : \A m \in Missing : k <= m
  BY LeastNumber
<1>2. k # 0 /\ k \in 1 .. n /\ k - 1 \notin Missing
  BY <1>1
<1> QED BY <1>1, <1>2

-------------------------------------------------------------------------------
(* Words.                                                                      *)

\* All that most proofs need to know of the size of a half word.
LEMMA Halves == Half \in Int /\ Half > 1
BY DEF Half

\* The size of a half word.
LEMMA Half65536 == Half = 65536
BY DEF Half

\* Division with remainder, by each of the divisors that digits and lanes need.
LEMMA By4 ==
  ASSUME NEW x \in Int, NEW r \in Int, 0 <= r, r < 4
  PROVE  (4 * x + r) \div 4 = x /\ (4 * x + r) % 4 = r
OBVIOUS

\* By 64.
LEMMA By64 ==
  ASSUME NEW x \in Int, NEW r \in Int, 0 <= r, r < 64
  PROVE  (64 * x + r) \div 64 = x /\ (64 * x + r) % 64 = r
OBVIOUS

\* By 256.
LEMMA By256 ==
  ASSUME NEW x \in Int, NEW r \in Int, 0 <= r, r < 256
  PROVE  (256 * x + r) \div 256 = x /\ (256 * x + r) % 256 = r
OBVIOUS

\* By 1024.
LEMMA By1024 ==
  ASSUME NEW x \in Int, NEW r \in Int, 0 <= r, r < 1024
  PROVE  (1024 * x + r) \div 1024 = x /\ (1024 * x + r) % 1024 = r
OBVIOUS

\* By 4096.
LEMMA By4096 ==
  ASSUME NEW x \in Int, NEW r \in Int, 0 <= r, r < 4096
  PROVE  (4096 * x + r) \div 4096 = x /\ (4096 * x + r) % 4096 = r
OBVIOUS

\* By 16384.
LEMMA By16384 ==
  ASSUME NEW x \in Int, NEW r \in Int, 0 <= r, r < 16384
  PROVE  (16384 * x + r) \div 16384 = x /\ (16384 * x + r) % 16384 = r
OBVIOUS

\* By the size of a half word.
LEMMA ByHalf ==
  ASSUME NEW x \in Int, NEW r \in Int, 0 <= r, r < 65536
  PROVE  (65536 * x + r) \div 65536 = x /\ (65536 * x + r) % 65536 = r
OBVIOUS

\* The sum of two half words, or of two and a carry: its quotient and its rest.
LEMMA Carry ==
  ASSUME NEW x \in Int, 0 <= x, x < 2 * Half
  PROVE  /\ x \div Half = (IF x < Half THEN 0 ELSE 1)
         /\ x % Half = (IF x < Half THEN x ELSE x - Half)
<1> DEFINE h == Half
<1>h. h = 65536
  BY Half65536
<1> SUFFICES /\ x \div h = (IF x < h THEN 0 ELSE 1)
             /\ x % h = (IF x < h THEN x ELSE x - h)
  OBVIOUS
<1>1. x < 131072
  BY Half65536
<1> HIDE DEF h
<1>2. CASE x < 65536
  <2>1. 65536 * 0 + x = x
    BY <1>1
  <2>2. (65536 * 0 + x) \div 65536 = 0 /\ (65536 * 0 + x) % 65536 = x
    BY <1>1, <1>2, ByHalf
  <2> QED BY <1>h, <1>2, <2>1, <2>2
<1>3. CASE ~(x < 65536)
  <2> DEFINE r == x - 65536
  <2>1. r \in Int /\ 0 <= r /\ r < 65536 /\ 65536 * 1 + r = x
    BY <1>1, <1>3
  <2> HIDE DEF r
  <2>2. (65536 * 1 + r) \div 65536 = 1 /\ (65536 * 1 + r) % 65536 = r
    BY <2>1, ByHalf
  <2>3. x \div 65536 = 1 /\ x % 65536 = x - 65536
    BY <2>1, <2>2 DEF r
  <2> QED BY <1>h, <1>3, <2>3
<1> QED BY <1>2, <1>3

\* A sum of half words cut to one, and its carry: Plus without div and mod.
Low(x) == IF x < Half THEN x ELSE x - Half
Over(x) == IF x < Half THEN 0 ELSE 1

\* wrapping_add() gives a u32.
LEMMA PlusIs ==
  ASSUME NEW v \in Word, NEW w \in Word
  PROVE  /\ Plus(v, w) \in Word
         /\ Plus(v, w).lo = Low(v.lo + w.lo)
         /\ Plus(v, w).hi = Low(v.hi + w.hi + Over(v.lo + w.lo))
<1> DEFINE x == v.lo + w.lo
           y == v.hi + w.hi + Over(x)
<1>1. v.lo \in 0 .. Half - 1 /\ w.lo \in 0 .. Half - 1 /\ v.hi \in 0 .. Half - 1 /\ w.hi \in 0 .. Half - 1
  BY DEF Word
<1>2. x \in Int /\ 0 <= x /\ x < 2 * Half
  BY <1>1, Halves
<1>3. x \div Half = Over(x) /\ x % Half = Low(x) /\ Over(x) \in 0 .. 1 /\ Low(x) \in 0 .. Half - 1
  BY <1>2, Carry, Halves DEF Over, Low
<1>4. y \in Int /\ 0 <= y /\ y < 2 * Half
  BY <1>1, <1>3, Halves
<1>5. y % Half = Low(y) /\ Low(y) \in 0 .. Half - 1
  BY <1>4, Carry, Halves DEF Low
<1>6. Plus(v, w) = [hi |-> y % Half, lo |-> x % Half]
  BY <1>3 DEF Plus
<1> HIDE DEF x, y
<1>7. Plus(v, w) = [hi |-> Low(y), lo |-> Low(x)]
  BY <1>3, <1>5, <1>6
<1> QED BY <1>3, <1>5, <1>7 DEF Word, x, y

\* 0 is a u32.
LEMMA ZeroWord == Zero \in Word
BY Halves DEF Zero, Word

\* Words with equal halves are equal.
LEMMA WordsEqual ==
  ASSUME NEW v \in Word, NEW w \in Word, v.hi = w.hi, v.lo = w.lo
  PROVE  v = w
BY DEF Word

\* Adding 0.
LEMMA PlusZero ==
  ASSUME NEW v \in Word
  PROVE  Plus(v, Zero) = v /\ Plus(Zero, v) = v
<1>1. v.lo \in 0 .. Half - 1 /\ v.hi \in 0 .. Half - 1 /\ v = [hi |-> v.hi, lo |-> v.lo]
  BY DEF Word
<1>2. Plus(v, Zero) \in Word /\ Plus(Zero, v) \in Word
  BY PlusIs, ZeroWord
<1>3. /\ Plus(v, Zero).lo = v.lo /\ Plus(v, Zero).hi = v.hi
      /\ Plus(Zero, v).lo = v.lo /\ Plus(Zero, v).hi = v.hi
  <2>1. Zero.lo = 0 /\ Zero.hi = 0
    BY DEF Zero
  <2> QED BY <1>1, <2>1, PlusIs, ZeroWord, Halves DEF Low, Over
<1> QED BY <1>2, <1>3, WordsEqual

\* The order in which two words are added does not matter.
LEMMA PlusCommutes ==
  ASSUME NEW v \in Word, NEW w \in Word
  PROVE  Plus(v, w) = Plus(w, v)
<1>1. v.lo + w.lo = w.lo + v.lo /\ v.hi + w.hi = w.hi + v.hi
  BY Halves DEF Word
<1> QED BY <1>1 DEF Plus

\* Nor does the order of three: what overflows is lost alike.
LEMMA PlusAssociates ==
  ASSUME NEW u \in Word, NEW v \in Word, NEW w \in Word
  PROVE  Plus(Plus(u, v), w) = Plus(u, Plus(v, w))
<1> DEFINE a == Plus(u, v)
           b == Plus(v, w)
           x == Plus(a, w)
           y == Plus(u, b)
<1>1. /\ a \in Word /\ a.lo = Low(u.lo + v.lo) /\ a.hi = Low(u.hi + v.hi + Over(u.lo + v.lo))
      /\ b \in Word /\ b.lo = Low(v.lo + w.lo) /\ b.hi = Low(v.hi + w.hi + Over(v.lo + w.lo))
  BY PlusIs
<1> HIDE DEF a, b
<1>2. /\ x \in Word /\ x.lo = Low(a.lo + w.lo) /\ x.hi = Low(a.hi + w.hi + Over(a.lo + w.lo))
      /\ y \in Word /\ y.lo = Low(u.lo + b.lo) /\ y.hi = Low(u.hi + b.hi + Over(u.lo + b.lo))
  BY <1>1, PlusIs
<1>3. /\ u.lo \in 0 .. Half - 1 /\ v.lo \in 0 .. Half - 1 /\ w.lo \in 0 .. Half - 1
      /\ u.hi \in 0 .. Half - 1 /\ v.hi \in 0 .. Half - 1 /\ w.hi \in 0 .. Half - 1
  BY DEF Word
<1> HIDE DEF x, y
<1>4. x.lo = y.lo
  BY <1>1, <1>2, <1>3, Halves DEF Low
<1>5. Over(u.lo + v.lo) + Over(a.lo + w.lo) = Over(v.lo + w.lo) + Over(u.lo + b.lo)
  BY <1>1, <1>3, Halves DEF Low, Over
<1>6. x.hi = y.hi
  <2> DEFINE c == Over(u.lo + v.lo)
             d == Over(a.lo + w.lo)
             e == Over(v.lo + w.lo)
             f == Over(u.lo + b.lo)
  <2>1. c \in 0 .. 1 /\ d \in 0 .. 1 /\ e \in 0 .. 1 /\ f \in 0 .. 1 /\ c + d = e + f
    BY <1>5 DEF Over
  <2>2. /\ a.hi = Low(u.hi + v.hi + c) /\ x.hi = Low(a.hi + w.hi + d)
        /\ b.hi = Low(v.hi + w.hi + e) /\ y.hi = Low(u.hi + b.hi + f)
    BY <1>1, <1>2
  <2> HIDE DEF c, d, e, f
  <2> QED BY <1>3, <2>1, <2>2, Halves DEF Low
<1> QED BY <1>2, <1>4, <1>6, WordsEqual DEF x, y, a, b

-------------------------------------------------------------------------------
(* Sums.                                                                       *)

\* The steps of a sum.
Sums(sum, words) ==
  /\ sum[0] = Zero
  /\ \A k \in 1 .. Len(words) : sum[k] = Plus(sum[k - 1], words[k])
  /\ SumOf(words) = sum[Len(words)]

\* A sum is taken one word at a time.
LEMMA SumUnfolds ==
  ASSUME NEW words, Len(words) \in Nat
  PROVE  \E sum : Sums(sum, words)
<1> DEFINE Steps(n, g) == g = [k \in 0 .. n |-> IF k = 0 THEN Zero ELSE Plus(g[k - 1], words[k])]
           S == {n \in 0 .. Len(words) : \E g : Steps(n, g)}
<1>1. 0 \in S
  <2> DEFINE g == [k \in 0 .. 0 |-> Zero]
  <2>1. Steps(0, g)
    OBVIOUS
  <2> HIDE DEF g
  <2> QED BY <2>1
<1>2. ASSUME NEW n \in 1 .. Len(words), n - 1 \in S
      PROVE  n \in S
  <2>1. PICK g : Steps(n - 1, g)
    BY <1>2
  <2> DEFINE h == [k \in 0 .. n |-> IF k = n THEN Plus(g[n - 1], words[n]) ELSE g[k]]
  <2>2. ASSUME NEW k \in 0 .. n
        PROVE  h[k] = IF k = 0 THEN Zero ELSE Plus(h[k - 1], words[k])
    <3>1. CASE k = n
      <4>1. h[n] = Plus(g[n - 1], words[n]) /\ h[n - 1] = g[n - 1] /\ n # 0
        OBVIOUS
      <4> QED BY <3>1, <4>1
    <3>2. CASE k # n /\ k = 0
      <4>1. g[0] = Zero
        BY <2>1
      <4> QED BY <3>2, <4>1
    <3>3. CASE k # n /\ k # 0
      <4>1. h[k] = g[k] /\ h[k - 1] = g[k - 1]
        BY <3>3
      <4>2. g[k] = Plus(g[k - 1], words[k])
        <5>1. k \in 0 .. n - 1 /\ k # 0
          BY <3>3
        <5> QED BY <2>1, <5>1
      <4> QED BY <3>3, <4>1, <4>2
    <3> QED BY <3>1, <3>2, <3>3
  <2>3. Steps(n, h)
    BY <2>2
  <2> HIDE DEF h, Steps
  <2> QED BY <2>3
<1>3. Len(words) \in S
  <2> HIDE DEF S
  <2>1. 0 .. Len(words) \subseteq S
    BY <1>1, <1>2, UpTo
  <2> QED BY <2>1
<1>4. PICK g : Steps(Len(words), g)
  BY <1>3
<1> DEFINE sum == CHOOSE f : Steps(Len(words), f)
<1>5. Steps(Len(words), sum)
  BY <1>4
<1>6. SumOf(words) = sum[Len(words)]
  BY DEF SumOf
<1> HIDE DEF sum
<1>7. sum[0] = Zero
  BY <1>5
<1>8. ASSUME NEW k \in 1 .. Len(words)
      PROVE  sum[k] = Plus(sum[k - 1], words[k])
  <2>1. k \in 0 .. Len(words) /\ k # 0
    OBVIOUS
  <2>2. \A i \in 0 .. Len(words) : sum[i] = IF i = 0 THEN Zero ELSE Plus(sum[i - 1], words[i])
    BY <1>5
  <2> QED BY <2>1, <2>2
<1> QED BY <1>6, <1>7, <1>8 DEF Sums

\* The sum of words is a word, and so is every step to it.
LEMMA SumType ==
  ASSUME NEW words \in Seq(Word), NEW sum, Sums(sum, words)
  PROVE  \A k \in 0 .. Len(words) : sum[k] \in Word
<1> DEFINE S == {k \in 0 .. Len(words) : sum[k] \in Word}
<1>1. 0 \in S
  BY ZeroWord DEF Sums
<1>2. ASSUME NEW n \in 1 .. Len(words), n - 1 \in S
      PROVE  n \in S
  <2>1. sum[n] = Plus(sum[n - 1], words[n]) /\ words[n] \in Word /\ sum[n - 1] \in Word
    BY <1>2 DEF Sums
  <2> QED BY <2>1, PlusIs
<1>3. 0 .. Len(words) \subseteq S
  <2>1. Len(words) \in Nat
    OBVIOUS
  <2> HIDE DEF S
  <2> QED BY <1>1, <1>2, <2>1, UpTo
<1> QED BY <1>3

\* The sum of a list, in steps that are words.
LEMMA SumSteps ==
  ASSUME NEW words \in Seq(Word)
  PROVE  \E sum : Sums(sum, words) /\ \A k \in 0 .. Len(words) : sum[k] \in Word
<1>1. Len(words) \in Nat
  OBVIOUS
<1>2. PICK sum : Sums(sum, words)
  BY <1>1, SumUnfolds
<1> QED BY <1>2, SumType

\* Two sums of two words, added crosswise.
LEMMA PlusSwaps ==
  ASSUME NEW a \in Word, NEW b \in Word, NEW c \in Word, NEW d \in Word
  PROVE  Plus(Plus(a, b), Plus(c, d)) = Plus(Plus(a, c), Plus(b, d))
<1>1. Plus(c, d) \in Word /\ Plus(b, d) \in Word /\ Plus(b, c) \in Word /\ Plus(c, b) \in Word
  BY PlusIs
<1>2. Plus(Plus(a, b), Plus(c, d)) = Plus(a, Plus(b, Plus(c, d)))
  BY <1>1, PlusAssociates
<1>3. Plus(b, Plus(c, d)) = Plus(Plus(b, c), d)
  BY PlusAssociates
<1>4. Plus(b, c) = Plus(c, b)
  BY PlusCommutes
<1>5. Plus(Plus(c, b), d) = Plus(c, Plus(b, d))
  BY PlusAssociates
<1>6. Plus(a, Plus(c, Plus(b, d))) = Plus(Plus(a, c), Plus(b, d))
  BY <1>1, PlusAssociates
<1> QED BY <1>2, <1>3, <1>4, <1>5, <1>6

\* A byte in each place of a word.
LEMMA LaneType ==
  ASSUME NEW b \in Byte
  PROVE  /\ Lane(b, 0) = [hi |-> 0, lo |-> b] /\ Lane(b, 1) = [hi |-> 0, lo |-> b * 256]
         /\ Lane(b, 2) = [hi |-> b, lo |-> 0] /\ Lane(b, 3) = [hi |-> b * 256, lo |-> 0]
         /\ \A k \in 0 .. 3 : Lane(b, k) \in Word
         /\ b \in Int /\ 0 <= b /\ b < 256
<1>1. b \in Int /\ 0 <= b /\ b < 256
  BY DEF Byte
<1>2. b * 256 \in Int /\ 0 <= b * 256 /\ b * 256 < Half /\ b < Half
  BY <1>1 DEF Half
<1>3. /\ Lane(b, 0) = [hi |-> 0, lo |-> b] /\ Lane(b, 1) = [hi |-> 0, lo |-> b * 256]
      /\ Lane(b, 2) = [hi |-> b, lo |-> 0] /\ Lane(b, 3) = [hi |-> b * 256, lo |-> 0]
  BY DEF Lane
<1>4. Lane(b, 0) \in Word /\ Lane(b, 1) \in Word /\ Lane(b, 2) \in Word /\ Lane(b, 3) \in Word
  BY <1>1, <1>2, <1>3, Halves DEF Word
<1>5. \A k \in 0 .. 3 : k = 0 \/ k = 1 \/ k = 2 \/ k = 3
  OBVIOUS
<1> QED BY <1>1, <1>3, <1>4, <1>5

\* Four bytes in their places make the big-endian word of the four.
LEMMA LanesOfWord ==
  ASSUME NEW b1 \in Byte, NEW b2 \in Byte, NEW b3 \in Byte, NEW b4 \in Byte
  PROVE  Plus(Plus(Plus(Lane(b4, 0), Lane(b3, 1)), Lane(b2, 2)), Lane(b1, 3))
           = [hi |-> b1 * 256 + b2, lo |-> b3 * 256 + b4]
<1> DEFINE l4 == Lane(b4, 0)
           l3 == Lane(b3, 1)
           l2 == Lane(b2, 2)
           l1 == Lane(b1, 3)
           x == Plus(l4, l3)
           y == Plus(x, l2)
           z == Plus(y, l1)
<1>1. /\ l4 \in Word /\ l3 \in Word /\ l2 \in Word /\ l1 \in Word
      /\ l4.hi = 0 /\ l4.lo = b4 /\ l3.hi = 0 /\ l3.lo = b3 * 256
      /\ l2.hi = b2 /\ l2.lo = 0 /\ l1.hi = b1 * 256 /\ l1.lo = 0
      /\ b1 \in Int /\ b2 \in Int /\ b3 \in Int /\ b4 \in Int
      /\ 0 <= b1 /\ 0 <= b2 /\ 0 <= b3 /\ 0 <= b4 /\ b1 < 256 /\ b2 < 256 /\ b3 < 256 /\ b4 < 256
  BY LaneType
<1>2. b3 * 256 + b4 < Half /\ b1 * 256 + b2 < Half /\ b3 * 256 + b4 \in Int /\ b1 * 256 + b2 \in Int
      /\ b2 < Half /\ 0 < Half
  BY <1>1 DEF Half
<1> HIDE DEF l4, l3, l2, l1
<1>3. x \in Word /\ x.lo = Low(b4 + b3 * 256) /\ x.hi = Low(0 + 0 + Over(b4 + b3 * 256))
  BY <1>1, PlusIs
<1>4. x.lo = b3 * 256 + b4 /\ x.hi = 0
  BY <1>1, <1>2, <1>3 DEF Low, Over
<1> HIDE DEF x
<1>5. y \in Word /\ y.lo = Low(b3 * 256 + b4 + 0) /\ y.hi = Low(0 + b2 + Over(b3 * 256 + b4 + 0))
  BY <1>1, <1>3, <1>4, PlusIs
<1>6. y.lo = b3 * 256 + b4 /\ y.hi = b2
  BY <1>1, <1>2, <1>5 DEF Low, Over
<1> HIDE DEF y
<1>7. z \in Word /\ z.lo = Low(b3 * 256 + b4 + 0) /\ z.hi = Low(b2 + b1 * 256 + Over(b3 * 256 + b4 + 0))
  BY <1>1, <1>5, <1>6, PlusIs
<1>8. z.lo = b3 * 256 + b4 /\ z.hi = b1 * 256 + b2
  BY <1>1, <1>2, <1>7 DEF Low, Over
<1> HIDE DEF z
<1>9. z = [hi |-> b1 * 256 + b2, lo |-> b3 * 256 + b4]
  <2>1. z = [hi |-> z.hi, lo |-> z.lo]
    BY <1>7 DEF Word
  <2> QED BY <1>8, <2>1
<1> QED BY <1>9 DEF z, y, x, l4, l3, l2, l1

-------------------------------------------------------------------------------
(* The checksum.                                                               *)

\* The bytes of a text, and the zeros after them.
ByteAt(t, k) == IF k <= Len(t) THEN t[k] ELSE 0

\* Each of them is a byte.
LEMMA BytesOf ==
  ASSUME NEW t \in Seq(Byte), NEW k \in Nat, k > 0
  PROVE  ByteAt(t, k) \in Byte
<1>1. 0 \in Byte
  BY DEF Byte
<1>2. k <= Len(t) => t[k] \in Byte
  OBVIOUS
<1> QED BY <1>1, <1>2 DEF ByteAt

\* The word of four lanes.
LEMMA WordOfLanes ==
  ASSUME NEW t \in Seq(Byte), NEW n \in Nat, n > 0
  PROVE  /\ BigEndian(t, n) \in Word
         /\ BigEndian(t, n) = Plus(Plus(Plus(Lane(ByteAt(t, 4 * n), 0), Lane(ByteAt(t, 4 * n - 1), 1)),
                                        Lane(ByteAt(t, 4 * n - 2), 2)), Lane(ByteAt(t, 4 * n - 3), 3))
<1>1. ASSUME NEW k \in Nat, k > 0 PROVE ByteAt(t, k) \in Byte
  BY <1>1, BytesOf
<1> DEFINE b1 == ByteAt(t, 4 * n - 3)
           b2 == ByteAt(t, 4 * n - 2)
           b3 == ByteAt(t, 4 * n - 1)
           b4 == ByteAt(t, 4 * n)
<1>2. b1 \in Byte /\ b2 \in Byte /\ b3 \in Byte /\ b4 \in Byte
  BY <1>1
<1>3. BigEndian(t, n) = [hi |-> b1 * 256 + b2, lo |-> b3 * 256 + b4]
  BY DEF BigEndian, ByteAt
<1> HIDE DEF b1, b2, b3, b4
<1> DEFINE z == Plus(Plus(Plus(Lane(b4, 0), Lane(b3, 1)), Lane(b2, 2)), Lane(b1, 3))
<1>4. z = [hi |-> b1 * 256 + b2, lo |-> b3 * 256 + b4]
  BY <1>2, LanesOfWord
<1>5. z \in Word
  BY <1>2, LaneType, PlusIs
<1> QED BY <1>3, <1>4, <1>5 DEF b1, b2, b3, b4

\* The whole chunks of four bytes, and the chunks with the one that zeros fill up.
LEMMA Quarters ==
  ASSUME NEW n \in Nat
  PROVE  /\ n \div 4 \in Nat /\ 4 * (n \div 4) <= n /\ n <= 4 * (n \div 4) + 3
         /\ (n + 3) \div 4 = IF n = 4 * (n \div 4) THEN n \div 4 ELSE n \div 4 + 1
OBVIOUS

\* checksum() adds up four lanes and the bytes left over, each lane shifted on its own; what
\* it computes is the sum of the big-endian words of the data, for data of any length.
THEOREM ChecksumIsWordSum ==
  ASSUME NEW t \in Seq(Byte)
  PROVE  Checksum(t) = WordSum(t) /\ WordSum(t) \in Word
<1> DEFINE n      == Len(t)
           chunks == n \div 4
           all    == (n + 3) \div 4
           words  == [k \in 1 .. all |-> BigEndian(t, k)]
           column(i) == [k \in 1 .. chunks |-> Lane(t[4 * (k - 1) + i], 4 - i)]
           left(i) == IF 4 * chunks + i <= n THEN Lane(t[4 * chunks + i], 4 - i) ELSE Zero
<1>1. /\ n \in Nat /\ chunks \in Nat /\ 4 * chunks <= n /\ n <= 4 * chunks + 3
      /\ all = (IF n = 4 * chunks THEN chunks ELSE chunks + 1)
  BY Quarters
<1>2. words \in Seq(Word) /\ Len(words) = all /\ \A k \in 1 .. all : words[k] = BigEndian(t, k)
  <2>1. \A k \in 1 .. all : BigEndian(t, k) \in Word
    BY <1>1, WordOfLanes
  <2> QED BY <1>1, <2>1
<1>3. ASSUME NEW i \in 1 .. 4
      PROVE  /\ column(i) \in Seq(Word) /\ Len(column(i)) = chunks
             /\ \A k \in 1 .. chunks : column(i)[k] = Lane(ByteAt(t, 4 * k - 4 + i), 4 - i)
  <2>1. ASSUME NEW k \in 1 .. chunks
        PROVE  /\ Lane(t[4 * (k - 1) + i], 4 - i) \in Word
               /\ t[4 * (k - 1) + i] = ByteAt(t, 4 * k - 4 + i)
    <3>1. 4 * (k - 1) + i \in 1 .. n /\ 4 * (k - 1) + i = 4 * k - 4 + i /\ 4 - i \in 0 .. 3
      BY <1>1
    <3>2. t[4 * (k - 1) + i] \in Byte
      BY <3>1
    <3>3. Lane(t[4 * (k - 1) + i], 4 - i) \in Word
      BY <3>1, <3>2, LaneType
    <3>4. ByteAt(t, 4 * (k - 1) + i) = t[4 * (k - 1) + i]
      BY <3>1 DEF ByteAt
    <3> QED BY <3>1, <3>3, <3>4
  <2>2. Len(column(i)) = chunks /\ column(i) \in Seq(Word)
    BY <1>1, <2>1
  <2> QED BY <2>1, <2>2
<1>4. ASSUME NEW i \in 1 .. 3
      PROVE  /\ left(i) \in Word /\ left(i) = Lane(ByteAt(t, 4 * chunks + i), 4 - i)
             /\ n = 4 * chunks => left(i) = Zero
  <2>1. Lane(0, 4 - i) = Zero
    BY DEF Lane, Zero
  <2>2. 4 * chunks + i \in Nat /\ 4 * chunks + i > 0 /\ 4 - i \in 0 .. 3
    BY <1>1
  <2>3. ByteAt(t, 4 * chunks + i) \in Byte
    BY <2>2, BytesOf
  <2>4. left(i) = Lane(ByteAt(t, 4 * chunks + i), 4 - i)
    BY <2>1 DEF ByteAt
  <2>5. Lane(ByteAt(t, 4 * chunks + i), 4 - i) \in Word
    BY <2>2, <2>3, LaneType
  <2>6. n = 4 * chunks => left(i) = Zero
    BY <1>1
  <2> HIDE DEF left
  <2> QED BY <2>4, <2>5, <2>6
<1>5. /\ WordSum(t) = SumOf(words)
      /\ Checksum(t) = SumOf(<<SumOf(column(4)), SumOf(column(3)), SumOf(column(2)), SumOf(column(1)),
                               left(3), left(2), left(1)>>)
  BY DEF WordSum, Checksum
<1>6. PICK w : Sums(w, words) /\ \A k \in 0 .. Len(words) : w[k] \in Word
  BY <1>2, SumSteps
<1>7. PICK c1 : Sums(c1, column(1)) /\ \A k \in 0 .. Len(column(1)) : c1[k] \in Word
  <2>1. column(1) \in Seq(Word)
    BY <1>3
  <2> HIDE DEF column
  <2> QED BY <2>1, SumSteps
<1>8. PICK c2 : Sums(c2, column(2)) /\ \A k \in 0 .. Len(column(2)) : c2[k] \in Word
  <2>1. column(2) \in Seq(Word)
    BY <1>3
  <2> HIDE DEF column
  <2> QED BY <2>1, SumSteps
<1>9. PICK c3 : Sums(c3, column(3)) /\ \A k \in 0 .. Len(column(3)) : c3[k] \in Word
  <2>1. column(3) \in Seq(Word)
    BY <1>3
  <2> HIDE DEF column
  <2> QED BY <2>1, SumSteps
<1>10. PICK c4 : Sums(c4, column(4)) /\ \A k \in 0 .. Len(column(4)) : c4[k] \in Word
  <2>1. column(4) \in Seq(Word)
    BY <1>3
  <2> HIDE DEF column
  <2> QED BY <2>1, SumSteps
<1> HIDE DEF words, column, left, n, chunks, all
<1>11. /\ w[0] = Zero /\ \A k \in 1 .. all : w[k] = Plus(w[k - 1], BigEndian(t, k))
       /\ SumOf(words) = w[all] /\ \A k \in 0 .. all : w[k] \in Word
  BY <1>2, <1>6 DEF Sums
<1>12. /\ c1[0] = Zero /\ \A k \in 1 .. chunks : c1[k] = Plus(c1[k - 1], Lane(ByteAt(t, 4 * k - 4 + 1), 4 - 1))
       /\ SumOf(column(1)) = c1[chunks] /\ \A k \in 0 .. chunks : c1[k] \in Word
  <2>1. Len(column(1)) = chunks /\ \A k \in 1 .. chunks : column(1)[k] = Lane(ByteAt(t, 4 * k - 4 + 1), 4 - 1)
    BY <1>3
  <2> QED BY <1>7, <2>1 DEF Sums
<1>13. /\ c2[0] = Zero /\ \A k \in 1 .. chunks : c2[k] = Plus(c2[k - 1], Lane(ByteAt(t, 4 * k - 4 + 2), 4 - 2))
       /\ SumOf(column(2)) = c2[chunks] /\ \A k \in 0 .. chunks : c2[k] \in Word
  <2>1. Len(column(2)) = chunks /\ \A k \in 1 .. chunks : column(2)[k] = Lane(ByteAt(t, 4 * k - 4 + 2), 4 - 2)
    BY <1>3
  <2> QED BY <1>8, <2>1 DEF Sums
<1>14. /\ c3[0] = Zero /\ \A k \in 1 .. chunks : c3[k] = Plus(c3[k - 1], Lane(ByteAt(t, 4 * k - 4 + 3), 4 - 3))
       /\ SumOf(column(3)) = c3[chunks] /\ \A k \in 0 .. chunks : c3[k] \in Word
  <2>1. Len(column(3)) = chunks /\ \A k \in 1 .. chunks : column(3)[k] = Lane(ByteAt(t, 4 * k - 4 + 3), 4 - 3)
    BY <1>3
  <2> QED BY <1>9, <2>1 DEF Sums
<1>15. /\ c4[0] = Zero /\ \A k \in 1 .. chunks : c4[k] = Plus(c4[k - 1], Lane(ByteAt(t, 4 * k - 4 + 4), 4 - 4))
       /\ SumOf(column(4)) = c4[chunks] /\ \A k \in 0 .. chunks : c4[k] \in Word
  <2>1. Len(column(4)) = chunks /\ \A k \in 1 .. chunks : column(4)[k] = Lane(ByteAt(t, 4 * k - 4 + 4), 4 - 4)
    BY <1>3
  <2> QED BY <1>10, <2>1 DEF Sums
<1> DEFINE together(k) == Plus(Plus(Plus(c4[k], c3[k]), c2[k]), c1[k])
           S == {k \in 0 .. chunks : w[k] = together(k)}
<1>16. 0 \in S
  <2>1. Plus(Plus(Plus(Zero, Zero), Zero), Zero) = Zero
    BY PlusZero, ZeroWord
  <2> QED BY <1>1, <1>11, <1>12, <1>13, <1>14, <1>15, <2>1
<1>17. ASSUME NEW k \in 1 .. chunks, k - 1 \in S
       PROVE  k \in S
  <2> DEFINE b1 == ByteAt(t, 4 * k - 3)
             b2 == ByteAt(t, 4 * k - 2)
             b3 == ByteAt(t, 4 * k - 1)
             b4 == ByteAt(t, 4 * k)
  <2>1. k \in Nat /\ k > 0 /\ k \in 1 .. all /\ k - 1 \in 0 .. chunks
        /\ 4 * k - 3 \in 1 .. n /\ 4 * k - 2 \in 1 .. n /\ 4 * k - 1 \in 1 .. n /\ 4 * k \in 1 .. n
    BY <1>1
  <2>2. b1 \in Byte /\ b2 \in Byte /\ b3 \in Byte /\ b4 \in Byte
    BY <2>1 DEF ByteAt, n
  <2>3. /\ 4 * k - 4 + 1 = 4 * k - 3 /\ 4 * k - 4 + 2 = 4 * k - 2 /\ 4 * k - 4 + 3 = 4 * k - 1
        /\ 4 * k - 4 + 4 = 4 * k /\ 4 - 1 = 3 /\ 4 - 2 = 2 /\ 4 - 3 = 1 /\ 4 - 4 = 0
    BY <2>1
  <2>4. /\ c1[k] = Plus(c1[k - 1], Lane(b1, 3)) /\ c2[k] = Plus(c2[k - 1], Lane(b2, 2))
        /\ c3[k] = Plus(c3[k - 1], Lane(b3, 1)) /\ c4[k] = Plus(c4[k - 1], Lane(b4, 0))
    BY <1>12, <1>13, <1>14, <1>15, <2>3
  <2>5. w[k] = Plus(w[k - 1], Plus(Plus(Plus(Lane(b4, 0), Lane(b3, 1)), Lane(b2, 2)), Lane(b1, 3)))
    BY <1>11, <2>1, WordOfLanes
  <2>6. w[k - 1] = together(k - 1)
    BY <1>17
  <2>7. /\ c1[k - 1] \in Word /\ c2[k - 1] \in Word /\ c3[k - 1] \in Word /\ c4[k - 1] \in Word
        /\ Lane(b1, 3) \in Word /\ Lane(b2, 2) \in Word /\ Lane(b3, 1) \in Word /\ Lane(b4, 0) \in Word
    BY <1>12, <1>13, <1>14, <1>15, <2>1, <2>2, LaneType
  <2> HIDE DEF b1, b2, b3, b4
  <2> DEFINE a1 == c1[k - 1]
             a2 == c2[k - 1]
             a3 == c3[k - 1]
             a4 == c4[k - 1]
             e1 == Lane(b1, 3)
             e2 == Lane(b2, 2)
             e3 == Lane(b3, 1)
             e4 == Lane(b4, 0)
  <2>8. w[k] = together(k)
    <3>1. together(k) = Plus(Plus(Plus(Plus(a4, e4), Plus(a3, e3)), Plus(a2, e2)), Plus(a1, e1))
      BY <2>4
    <3>2. w[k] = Plus(Plus(Plus(Plus(a4, a3), a2), a1), Plus(Plus(Plus(e4, e3), e2), e1))
      BY <2>5, <2>6
    <3>4. /\ a1 \in Word /\ a2 \in Word /\ a3 \in Word /\ a4 \in Word
          /\ e1 \in Word /\ e2 \in Word /\ e3 \in Word /\ e4 \in Word
      BY <2>7
    <3> HIDE DEF a1, a2, a3, a4, e1, e2, e3, e4
    <3>3. Plus(Plus(Plus(Plus(a4, e4), Plus(a3, e3)), Plus(a2, e2)), Plus(a1, e1))
            = Plus(Plus(Plus(Plus(a4, a3), a2), a1), Plus(Plus(Plus(e4, e3), e2), e1))
      <4> DEFINE x == Plus(a4, a3)
                 y == Plus(e4, e3)
                 u == Plus(x, a2)
                 v == Plus(y, e2)
      <4>1. x \in Word /\ y \in Word /\ u \in Word /\ v \in Word
        BY <3>4, PlusIs
      <4>2. Plus(Plus(a4, e4), Plus(a3, e3)) = Plus(x, y)
        BY <3>4, PlusSwaps
      <4>3. Plus(Plus(x, y), Plus(a2, e2)) = Plus(u, v)
        <5> HIDE DEF x, y
        <5> QED BY <3>4, <4>1, PlusSwaps
      <4>4. Plus(Plus(u, v), Plus(a1, e1)) = Plus(Plus(u, a1), Plus(v, e1))
        <5> HIDE DEF u, v
        <5> QED BY <3>4, <4>1, PlusSwaps
      <4> QED BY <4>2, <4>3, <4>4
    <3> HIDE DEF together
    <3> QED BY <3>1, <3>2, <3>3
  <2> QED BY <2>8
<1>18. w[chunks] = together(chunks)
  <2> HIDE DEF S
  <2>1. 0 .. chunks \subseteq S
    BY <1>1, <1>16, <1>17, UpTo
  <2>2. chunks \in S
    BY <1>1, <2>1
  <2> QED BY <2>2 DEF S
<1> DEFINE l1 == left(1)
           l2 == left(2)
           l3 == left(3)
           rest == Plus(Plus(l3, l2), l1)
<1>19. /\ l1 \in Word /\ l2 \in Word /\ l3 \in Word /\ w[chunks] \in Word
       /\ c1[chunks] \in Word /\ c2[chunks] \in Word /\ c3[chunks] \in Word /\ c4[chunks] \in Word
  BY <1>1, <1>4, <1>11, <1>12, <1>13, <1>14, <1>15
<1>20. Checksum(t) = Plus(Plus(Plus(w[chunks], l3), l2), l1)
  <2> DEFINE seven == <<SumOf(column(4)), SumOf(column(3)), SumOf(column(2)), SumOf(column(1)), l3, l2, l1>>
  <2>1. /\ Len(seven) = 7 /\ seven[1] = c4[chunks] /\ seven[2] = c3[chunks] /\ seven[3] = c2[chunks]
        /\ seven[4] = c1[chunks] /\ seven[5] = l3 /\ seven[6] = l2 /\ seven[7] = l1
    BY <1>12, <1>13, <1>14, <1>15
  <2>2. Checksum(t) = SumOf(seven)
    BY <1>5
  <2> HIDE DEF seven, l1, l2, l3
  <2>3. PICK s : Sums(s, seven)
    BY <2>1, SumUnfolds
  <2>4. /\ s[0] = Zero /\ s[1] = Plus(s[1 - 1], seven[1]) /\ s[2] = Plus(s[2 - 1], seven[2])
        /\ s[3] = Plus(s[3 - 1], seven[3]) /\ s[4] = Plus(s[4 - 1], seven[4]) /\ s[5] = Plus(s[5 - 1], seven[5])
        /\ s[6] = Plus(s[6 - 1], seven[6]) /\ s[7] = Plus(s[7 - 1], seven[7]) /\ SumOf(seven) = s[7]
    BY <2>1, <2>3 DEF Sums
  <2>5. s[1] = c4[chunks]
    BY <1>19, <2>1, <2>4, PlusZero
  <2>6. s[4] = w[chunks]
    BY <1>18, <2>1, <2>4, <2>5
  <2> QED BY <2>1, <2>2, <2>4, <2>6
<1>21. Checksum(t) = Plus(w[chunks], rest)
  <2> HIDE DEF l1, l2, l3
  <2>1. Plus(l3, l2) \in Word
    BY <1>19, PlusIs
  <2>2. Plus(Plus(w[chunks], l3), l2) = Plus(w[chunks], Plus(l3, l2))
    BY <1>19, PlusAssociates
  <2>3. Plus(Plus(w[chunks], Plus(l3, l2)), l1) = Plus(w[chunks], Plus(Plus(l3, l2), l1))
    BY <1>19, <2>1, PlusAssociates
  <2> QED BY <1>20, <2>2, <2>3
<1>22. CASE n = 4 * chunks
  <2>1. l1 = Zero /\ l2 = Zero /\ l3 = Zero
    BY <1>4, <1>22
  <2>2. rest = Zero
    <3> HIDE DEF l1, l2, l3
    <3> QED BY <2>1, PlusZero, ZeroWord
  <2>3. Plus(w[chunks], Zero) = w[chunks] /\ all = chunks
    BY <1>1, <1>19, <1>22, PlusZero
  <2> QED BY <1>5, <1>11, <1>19, <1>21, <2>2, <2>3
<1>23. CASE n # 4 * chunks
  <2> DEFINE k == chunks + 1
  <2>1. all = k /\ k \in Nat /\ k > 0 /\ k \in 1 .. all /\ k - 1 = chunks
    BY <1>1, <1>23
  <2>2. /\ 4 * k = 4 * chunks + 4 /\ 4 * k - 1 = 4 * chunks + 3 /\ 4 * k - 2 = 4 * chunks + 2
        /\ 4 * k - 3 = 4 * chunks + 1 /\ ~(4 * chunks + 4 <= n)
        /\ 4 - 1 = 3 /\ 4 - 2 = 2 /\ 4 - 3 = 1
    BY <1>1
  <2> HIDE DEF k
  <2>3. ByteAt(t, 4 * k) = 0 /\ Lane(0, 0) = Zero
    BY <2>2 DEF ByteAt, Lane, Zero, n
  <2>4. Lane(ByteAt(t, 4 * k - 1), 1) = l3 /\ Lane(ByteAt(t, 4 * k - 2), 2) = l2 /\ Lane(ByteAt(t, 4 * k - 3), 3) = l1
    BY <1>4, <2>2
  <2> HIDE DEF l1, l2, l3
  <2>5. BigEndian(t, k) = Plus(Plus(Plus(Zero, l3), l2), l1) /\ BigEndian(t, k) \in Word
    BY <2>1, <2>3, <2>4, WordOfLanes
  <2>6. BigEndian(t, k) = rest
    BY <1>19, <2>5, PlusZero
  <2>7. w[all] = Plus(w[chunks], rest)
    BY <1>11, <2>1, <2>6
  <2>8. w[all] \in Word
    BY <1>11, <2>1
  <2> QED BY <1>5, <1>11, <1>21, <2>7, <2>8
<1> QED BY <1>22, <1>23

-------------------------------------------------------------------------------
(* Reading numbers.                                                            *)

\* What a digit stands for.
LEMMA Values ==
  ASSUME NEW b \in Byte
  PROVE  Z_VALUE[b] \in Int /\ -1 <= Z_VALUE[b] /\ Z_VALUE[b] <= 63
<1>1. b \in Int
  BY DEF Byte
<1>2. Z_VALUE[b] = CASE b \in 48 .. 57  -> b - 48
                    [] b \in 65 .. 90  -> b - 55
                    [] b = 95          -> 36
                    [] b \in 97 .. 122 -> b - 60
                    [] b = 126         -> 63
                    [] OTHER           -> -1
  BY DEF Z_VALUE
<1> QED BY <1>1, <1>2

\* A digit stands for six bits.
LEMMA DigitValue ==
  ASSUME NEW b \in Byte, Z_VALUE[b] >= 0
  PROVE  Z_VALUE[b] \in 0 .. 63
<1> DEFINE v == Z_VALUE[b]
<1>1. v \in Int /\ v <= 63 /\ v >= 0
  BY Values
<1> HIDE DEF v
<1>2. v \in 0 .. 63
  BY <1>1
<1> QED BY <1>2 DEF v

\* The run of digits ends before the first byte that is none.
LEMMA RunEnds ==
  ASSUME NEW d \in Seq(Byte), NEW p \in 1 .. Len(d) + 1
  PROVE  /\ RunEnd(d, p) \in p .. Len(d) + 1
         /\ \A k \in p .. RunEnd(d, p) - 1 : Z_VALUE[d[k]] >= 0
         /\ RunEnd(d, p) <= Len(d) => Z_VALUE[d[RunEnd(d, p)]] < 0
<1> DEFINE S == {q \in p .. Len(d) + 1 : q <= Len(d) => Z_VALUE[d[q]] < 0}
<1>1. S \in SUBSET Nat /\ Len(d) + 1 \in S
  OBVIOUS
<1>2. PICK q \in S : \A m \in S : q <= m
  BY <1>1, LeastNumber
<1>3. \A k \in p .. q - 1 : Z_VALUE[d[k]] >= 0
  <2> SUFFICES ASSUME NEW k \in p .. q - 1 PROVE Z_VALUE[d[k]] >= 0
    OBVIOUS
  <2>1. k \in p .. Len(d) + 1 /\ k <= Len(d) /\ ~(Z_VALUE[d[k]] < 0)
    BY <1>2
  <2>2. d[k] \in Byte
    BY <2>1
  <2>3. Z_VALUE[d[k]] \in Int
    BY <2>2, Values
  <2> HIDE DEF S
  <2> QED BY <2>1, <2>3
<1> QED BY <1>2, <1>3 DEF RunEnd

\* The steps in which the n digits from position p on are read.
Reading(value, d, p, n) ==
  /\ value[0] = Zero
  /\ \A k \in 1 .. n : value[k] = ShiftIn(value[k - 1], Z_VALUE[d[p + k - 1]])

\* An integer is read one digit at a time.
LEMMA IntUnfolds ==
  ASSUME NEW d, NEW p \in Nat, NEW next \in Nat, p <= next
  PROVE  \E value : Reading(value, d, p, next - p) /\ IntBefore(d, p, next).v = value[next - p]
<1> DEFINE Steps(n, g) == g = [k \in 0 .. n |->
                                 IF k = 0 THEN Zero ELSE ShiftIn(g[k - 1], Z_VALUE[d[p + k - 1]])]
           S == {n \in 0 .. next - p : \E g : Steps(n, g)}
<1>1. 0 \in S
  <2> DEFINE g == [k \in 0 .. 0 |-> Zero]
  <2>1. Steps(0, g)
    OBVIOUS
  <2> HIDE DEF g
  <2> QED BY <2>1
<1>2. ASSUME NEW n \in 1 .. next - p, n - 1 \in S
      PROVE  n \in S
  <2>1. PICK g : Steps(n - 1, g)
    BY <1>2
  <2> DEFINE h == [k \in 0 .. n |-> IF k = n THEN ShiftIn(g[n - 1], Z_VALUE[d[p + n - 1]]) ELSE g[k]]
  <2>2. ASSUME NEW k \in 0 .. n
        PROVE  h[k] = IF k = 0 THEN Zero ELSE ShiftIn(h[k - 1], Z_VALUE[d[p + k - 1]])
    <3>1. CASE k = n
      <4>1. h[n] = ShiftIn(g[n - 1], Z_VALUE[d[p + n - 1]]) /\ h[n - 1] = g[n - 1] /\ n # 0
        OBVIOUS
      <4> QED BY <3>1, <4>1
    <3>2. CASE k # n /\ k = 0
      <4>1. g[0] = Zero
        BY <2>1
      <4> QED BY <3>2, <4>1
    <3>3. CASE k # n /\ k # 0
      <4>1. h[k] = g[k] /\ h[k - 1] = g[k - 1]
        BY <3>3
      <4>2. g[k] = ShiftIn(g[k - 1], Z_VALUE[d[p + k - 1]])
        <5>1. k \in 0 .. n - 1 /\ k # 0
          BY <3>3
        <5> QED BY <2>1, <5>1
      <4> QED BY <3>3, <4>1, <4>2
    <3> QED BY <3>1, <3>2, <3>3
  <2>3. Steps(n, h)
    BY <2>2
  <2> HIDE DEF h, Steps
  <2> QED BY <2>3
<1>3. next - p \in S
  <2> HIDE DEF S
  <2>1. 0 .. next - p \subseteq S
    BY <1>1, <1>2, UpTo
  <2> QED BY <2>1
<1>4. PICK g : Steps(next - p, g)
  BY <1>3
<1> DEFINE value == CHOOSE f : Steps(next - p, f)
<1>5. Steps(next - p, value)
  BY <1>4
<1>6. IntBefore(d, p, next).v = value[next - p]
  BY DEF IntBefore
<1> HIDE DEF value
<1>7. value[0] = Zero
  BY <1>5
<1>8. ASSUME NEW k \in 1 .. next - p
      PROVE  value[k] = ShiftIn(value[k - 1], Z_VALUE[d[p + k - 1]])
  <2>1. k \in 0 .. next - p /\ k # 0
    OBVIOUS
  <2>2. \A i \in 0 .. next - p : value[i] = IF i = 0 THEN Zero ELSE ShiftIn(value[i - 1], Z_VALUE[d[p + i - 1]])
    BY <1>5
  <2> QED BY <2>1, <2>2
<1> QED BY <1>6, <1>7, <1>8 DEF Reading

\* The halves of a word.
LEMMA WordParts ==
  ASSUME NEW v \in Word
  PROVE  /\ v.hi \in Int /\ v.lo \in Int /\ 0 <= v.hi /\ 0 <= v.lo /\ v.hi < Half /\ v.lo < Half
         /\ v = [hi |-> v.hi, lo |-> v.lo]
BY Halves DEF Word

\* Two halves make a word.
LEMMA MakesWord ==
  ASSUME NEW x \in Int, NEW y \in Int, 0 <= x, x < Half, 0 <= y, y < Half
  PROVE  [hi |-> x, lo |-> y] \in Word
BY Halves DEF Word

\* (v << 6) + c is a u32: the shift loses what leaves the word, and the sum does not overflow.
LEMMA ShiftInType ==
  ASSUME NEW v \in Word, NEW c \in 0 .. 63
  PROVE  ShiftIn(v, c) \in Word
<1>1. v.hi \in Int /\ v.lo \in Int /\ 0 <= v.hi /\ 0 <= v.lo /\ v.hi < 65536 /\ v.lo < 65536
  BY WordParts, Half65536
<1> DEFINE x == (v.hi * 64 + v.lo \div 1024) % 65536
           y == (v.lo * 64) % 65536
<1>2. x \in Int /\ 0 <= x /\ x < 65536
  BY <1>1
<1>3. y \in Int /\ 0 <= y /\ y <= 65536 - 64
  BY <1>1
<1>4. y + c \in Int /\ 0 <= y + c /\ y + c < 65536
  BY <1>3
<1>5. ShiftIn(v, c) = [hi |-> x, lo |-> y + c]
  BY DEF ShiftIn, Half
<1> HIDE DEF x, y
<1>6. x < Half /\ y + c < Half
  BY <1>2, <1>4, Half65536
<1> QED BY <1>2, <1>4, <1>5, <1>6, MakesWord

\* get_int() reads a word and never goes back.
LEMMA GetIntReads ==
  ASSUME NEW d \in Seq(Byte), NEW p \in 1 .. Len(d) + 1
  PROVE  /\ GetInt(d, p).v \in Word /\ GetInt(d, p).next \in p .. Len(d) + 1
         /\ GetInt(d, p).bad \in BOOLEAN
<1> DEFINE next == RunEnd(d, p)
<1>1. next \in p .. Len(d) + 1 /\ \A k \in p .. next - 1 : Z_VALUE[d[k]] >= 0
  BY RunEnds
<1> HIDE DEF next
<1>2. next \in Nat /\ p \in Nat /\ p <= next
  BY <1>1
<1>3. PICK value : Reading(value, d, p, next - p) /\ IntBefore(d, p, next).v = value[next - p]
  BY <1>2, IntUnfolds
<1> DEFINE S == {k \in 0 .. next - p : value[k] \in Word}
<1>4. 0 \in S
  BY <1>2, <1>3, ZeroWord DEF Reading
<1>5. ASSUME NEW n \in 1 .. next - p, n - 1 \in S
      PROVE  n \in S
  <2>1. value[n] = ShiftIn(value[n - 1], Z_VALUE[d[p + n - 1]]) /\ value[n - 1] \in Word
    BY <1>3, <1>5 DEF Reading
  <2>2. p + n - 1 \in p .. next - 1 /\ p + n - 1 \in 1 .. Len(d)
    BY <1>1
  <2>3. d[p + n - 1] \in Byte
    BY <2>2
  <2>5. Z_VALUE[d[p + n - 1]] \in 0 .. 63
    <3> DEFINE b == d[p + n - 1]
    <3>1. b \in Byte /\ Z_VALUE[b] >= 0
      BY <1>1, <2>2, <2>3
    <3> HIDE DEF b
    <3>2. Z_VALUE[b] \in 0 .. 63
      BY <3>1, DigitValue
    <3> QED BY <3>2 DEF b
  <2>6. value[n] \in Word
    <3> DEFINE c == Z_VALUE[d[p + n - 1]]
               u == value[n - 1]
    <3>1. c \in 0 .. 63 /\ u \in Word /\ value[n] = ShiftIn(u, c)
      BY <2>1, <2>5
    <3> HIDE DEF c, u
    <3> QED BY <3>1, ShiftInType
  <2> QED BY <2>6
<1>6. value[next - p] \in Word
  <2> DEFINE m == next - p
  <2>3. m \in Nat /\ \A n \in 1 .. m : n - 1 \in S => n \in S
    BY <1>2, <1>5
  <2> HIDE DEF S, m
  <2>4. 0 .. m \subseteq S
    BY <1>4, <2>3, UpTo
  <2>1. 0 .. next - p \subseteq S
    BY <2>4 DEF m
  <2>2. next - p \in S
    BY <1>2, <2>1
  <2> QED BY <2>2 DEF S
<1>7. GetInt(d, p) = IntBefore(d, p, next)
  BY DEF GetInt, next
<1>8. IntBefore(d, p, next).next = next /\ IntBefore(d, p, next).bad \in BOOLEAN
  BY DEF IntBefore
<1> QED BY <1>1, <1>3, <1>6, <1>7, <1>8

\* A number cut at 64 KiB is a length.
LEMMA SizeType ==
  ASSUME NEW w \in Word
  PROVE  Size(w) \in Nat
BY Halves DEF Size, Word

-------------------------------------------------------------------------------
(* The commands of a delta.                                                    *)

\* What decoding may end with.
DecodeResult == [ok : BOOLEAN, data : Seq(Byte)]

\* The errors and the data are results.
LEMMA ResultsAre ==
  /\ Error \in DecodeResult
  /\ \A out \in Seq(Byte) : Ok(out) \in DecodeResult
<1>1. <<>> \in Seq(Byte)
  OBVIOUS
<1> HIDE DEF Byte
<1> QED BY <1>1 DEF Error, Ok, DecodeResult

\* A command moves forward, by no more than the delta has.
LEMMA CommandMoves ==
  ASSUME NEW source \in Seq(Byte), NEW d \in Seq(Byte), NEW limit,
         NEW p \in 1 .. Len(d), NEW out \in Seq(Byte)
  PROVE  LET c == Command(source, limit, d, p, out)
         IN  /\ c.more \in BOOLEAN /\ c.result \in DecodeResult
             /\ c.more => c.next \in p + 1 .. Len(d) + 2 /\ c.out \in Seq(Byte)
<1> DEFINE n == GetInt(d, p)
           q == n.next
           count == Size(n.v)
           o == GetInt(d, q + 1)
           Fine(c) == /\ c.more \in BOOLEAN /\ c.result \in DecodeResult
                      /\ c.more => c.next \in p + 1 .. Len(d) + 2 /\ c.out \in Seq(Byte)
<1>1. q \in p .. Len(d) + 1 /\ count \in Nat /\ n.bad \in BOOLEAN
  <2>1. p \in 1 .. Len(d) + 1
    OBVIOUS
  <2>2. n.v \in Word /\ n.next \in p .. Len(d) + 1 /\ n.bad \in BOOLEAN
    BY <2>1, GetIntReads
  <2> HIDE DEF n
  <2> QED BY <2>2, SizeType
<1>2. q <= Len(d) => o.next \in q + 1 .. Len(d) + 1 /\ Size(o.v) \in Nat /\ o.bad \in BOOLEAN
  <2> HAVE q <= Len(d)
  <2> HIDE DEF q
  <2>1. q + 1 \in 1 .. Len(d) + 1
    BY <1>1
  <2>2. o.v \in Word /\ o.next \in q + 1 .. Len(d) + 1 /\ o.bad \in BOOLEAN
    BY <2>1, GetIntReads
  <2> HIDE DEF o
  <2> QED BY <2>2, SizeType
<1> HIDE DEF n, q, count, o, Fine
<1>3. ASSUME NEW r \in DecodeResult PROVE Fine(Stop(r))
  BY <1>3 DEF Fine, Stop
<1>4. ASSUME NEW next \in p + 1 .. Len(d) + 2, NEW more \in Seq(Byte)
      PROVE  Fine(Continue(next, out \o more))
  BY <1>4, ResultsAre DEF Fine, Continue
<1>5. CASE n.bad \/ q > Len(d)
  <2>1. Command(source, limit, d, p, out) = Stop(Error)
    BY <1>5 DEF Command, n, q
  <2> QED BY <1>3, <2>1, ResultsAre DEF Fine
<1>6. CASE ~(n.bad \/ q > Len(d)) /\ d[q] = At
  <2>1. \/ Command(source, limit, d, p, out) = Stop(Error)
        \/ /\ Size(o.v) + count <= Len(source)
           /\ Command(source, limit, d, p, out)
                = Continue(o.next + 1, out \o Copied(source, Size(o.v), count))
    <3>1. Size(o.v) + count \in Int /\ Len(source) \in Int
      BY <1>1, <1>2, <1>6
    <3>2. Command(source, limit, d, p, out) = CopyCommand(source, limit, d, q, count, out)
      BY <1>6 DEF Command, n, q, count, At, Colon, Semicolon
    <3>3. CopyCommand(source, limit, d, q, count, out) =
            IF \/ o.bad
               \/ o.next <= Len(d) /\ d[o.next] # Comma
               \/ Len(out) + count > limit
               \/ Size(o.v) + count > Len(source)
            THEN Stop(Error)
            ELSE Continue(o.next + 1, out \o Copied(source, Size(o.v), count))
      BY DEF CopyCommand, o
    <3> QED BY <3>1, <3>2, <3>3
  <2>2. q <= Len(d) /\ o.next + 1 \in p + 1 .. Len(d) + 2
    BY <1>1, <1>2, <1>6
  <2>3. Size(o.v) + count <= Len(source) => Copied(source, Size(o.v), count) \in Seq(Byte)
    <3>1. Size(o.v) \in Nat
      BY <1>2, <2>2
    <3> DEFINE z == Size(o.v)
    <3> HIDE DEF z
    <3>2. z + count <= Len(source) => \A i \in z + 1 .. z + count : source[i] \in Byte
      BY <1>1, <3>1 DEF z
    <3>3. z + 1 \in Int /\ z + count \in Int
      BY <1>1, <3>1 DEF z
    <3>4. z + count <= Len(source) => SubSeq(source, z + 1, z + count) \in Seq(Byte)
      BY <3>2, <3>3, SubSeqProperties
    <3> QED BY <3>4 DEF Copied, z
  <2> QED BY <1>3, <1>4, <2>1, <2>2, <2>3, ResultsAre DEF Fine
<1>7. CASE ~(n.bad \/ q > Len(d)) /\ d[q] = Colon
  <2>1. \/ Command(source, limit, d, p, out) = Stop(Error)
        \/ /\ q + count <= Len(d)
           /\ Command(source, limit, d, p, out) = Continue(q + 1 + count, out \o SubSeq(d, q + 1, q + count))
    <3>1. q + count \in Int /\ Len(d) \in Int
      BY <1>1
    <3>2. Command(source, limit, d, p, out) = InsertCommand(limit, d, q, count, out)
      BY <1>7 DEF Command, n, q, count, At, Colon, Semicolon
    <3> QED BY <3>1, <3>2 DEF InsertCommand
  <2>2. q + count <= Len(d) => q + 1 + count \in p + 1 .. Len(d) + 2
    BY <1>1
  <2>3. q + count <= Len(d) => SubSeq(d, q + 1, q + count) \in Seq(Byte)
    <3>1. q + count <= Len(d) => \A i \in q + 1 .. q + count : d[i] \in Byte
      BY <1>1
    <3>2. q + 1 \in Int /\ q + count \in Int
      BY <1>1
    <3> QED BY <3>1, <3>2, SubSeqProperties
  <2> QED BY <1>3, <1>4, <2>1, <2>2, <2>3, ResultsAre DEF Fine
<1>8. CASE ~(n.bad \/ q > Len(d)) /\ d[q] = Semicolon
  <2>1. Command(source, limit, d, p, out) = Stop(Ok(out)) \/ Command(source, limit, d, p, out) = Stop(Error)
    BY <1>8 DEF Command, n, q, At, Colon, Semicolon, ChecksumCommand
  <2> QED BY <1>3, <2>1, ResultsAre DEF Fine
<1>9. CASE ~(n.bad \/ q > Len(d)) /\ d[q] # At /\ d[q] # Colon /\ d[q] # Semicolon
  <2>1. Command(source, limit, d, p, out) = Stop(Error)
    BY <1>9 DEF Command, n, q
  <2> QED BY <1>3, <2>1, ResultsAre DEF Fine
<1> QED BY <1>5, <1>6, <1>7, <1>8, <1>9 DEF Fine

\* What the run makes of the output at position p, by what it makes of it further on.
After(run, source, limit, d, p, out) ==
  IF p > Len(d) THEN Error
  ELSE IF Command(source, limit, d, p, out).more
       THEN run[Command(source, limit, d, p, out).next][Command(source, limit, d, p, out).out]
       ELSE Command(source, limit, d, p, out).result

\* Each step of the run is what the command there leads to.
RunsBy(run, source, limit, d, from) ==
  \A p \in from .. Len(d) + 2, out \in Seq(Byte) : run[p][out] = After(run, source, limit, d, p, out)

\* A step looks at the run further on only.
LEMMA AfterAgrees ==
  ASSUME NEW source \in Seq(Byte), NEW d \in Seq(Byte), NEW limit,
         NEW p \in 1 .. Len(d) + 2, NEW out \in Seq(Byte), NEW g, NEW h,
         \A q \in p + 1 .. Len(d) + 2, o \in Seq(Byte) : g[q][o] = h[q][o]
  PROVE  After(g, source, limit, d, p, out) = After(h, source, limit, d, p, out)
<1>1. CASE p > Len(d)
  BY <1>1 DEF After
<1>2. CASE ~(p > Len(d))
  <2> DEFINE c == Command(source, limit, d, p, out)
  <2>1. p \in 1 .. Len(d)
    BY <1>2
  <2>2. c.more \in BOOLEAN /\ (c.more => c.next \in p + 1 .. Len(d) + 2 /\ c.out \in Seq(Byte))
    BY <2>1, CommandMoves
  <2>3. /\ After(g, source, limit, d, p, out) = IF c.more THEN g[c.next][c.out] ELSE c.result
        /\ After(h, source, limit, d, p, out) = IF c.more THEN h[c.next][c.out] ELSE c.result
    BY <1>2 DEF After
  <2> HIDE DEF c
  <2> QED BY <2>2, <2>3
<1> QED BY <1>1, <1>2

\* The loop of apply_delta() is a run: it always moves forward, so it ends.
LEMMA RunUnfolds ==
  ASSUME NEW source \in Seq(Byte), NEW d \in Seq(Byte), NEW limit
  PROVE  \E run : /\ RunsBy(run, source, limit, d, 1)
                  /\ \A start : RunFrom(source, limit, d, start) = run[start][<<>>]
<1> DEFINE last == Len(d) + 2
           after(g, p, out) == After(g, source, limit, d, p, out)
           S == {m \in 0 .. last - 1 : \E g : RunsBy(g, source, limit, d, last - m)}
<1>1. last \in Nat /\ last > 0 /\ last - 1 \in Nat
  OBVIOUS
<1>2. 0 \in S
  <2> DEFINE g == [p \in 1 .. last |-> [out \in Seq(Byte) |-> Error]]
  <2>1. ASSUME NEW p \in last .. last, NEW out \in Seq(Byte)
        PROVE  g[p][out] = After(g, source, limit, d, p, out)
    <3>1. p \in 1 .. last /\ p > Len(d)
      OBVIOUS
    <3>2. g[p][out] = Error
      BY <3>1
    <3> HIDE DEF g
    <3> QED BY <3>1, <3>2 DEF After
  <2> HIDE DEF g
  <2>2. RunsBy(g, source, limit, d, last - 0)
    BY <2>1 DEF RunsBy
  <2> QED BY <1>1, <2>2
<1>3. ASSUME NEW m \in 1 .. last - 1, m - 1 \in S
      PROVE  m \in S
  <2> DEFINE from == last - m
  <2>1. from \in 1 .. last - 1 /\ last - (m - 1) = from + 1
    BY <1>1
  <2>2. PICK g : RunsBy(g, source, limit, d, from + 1)
    BY <1>3, <2>1
  <2> HIDE DEF from
  <2> DEFINE h == [p \in 1 .. last |-> [out \in Seq(Byte) |->
                     IF p = from THEN after(g, p, out) ELSE g[p][out]]]
  <2>3. \A p \in 1 .. last, out \in Seq(Byte) :
          h[p][out] = IF p = from THEN after(g, p, out) ELSE g[p][out]
    <3> HIDE DEF after
    <3> QED OBVIOUS
  <2> HIDE DEF h
  <2>4. ASSUME NEW p \in from .. last, NEW out \in Seq(Byte)
        PROVE  h[p][out] = After(h, source, limit, d, p, out)
    <3>1. p \in 1 .. last
      BY <2>1
    <3>2. \A q \in p + 1 .. last, o \in Seq(Byte) : g[q][o] = h[q][o]
      <4>1. \A q \in p + 1 .. last : q \in 1 .. last /\ q # from
        BY <2>1
      <4> HIDE DEF last, after
      <4> QED BY <2>3, <4>1
    <3>3. After(g, source, limit, d, p, out) = After(h, source, limit, d, p, out)
      BY <3>1, <3>2, AfterAgrees
    <3>4. CASE p = from
      BY <2>3, <3>1, <3>3, <3>4
    <3>5. CASE p # from
      <4>1. p \in from + 1 .. last
        BY <2>1, <3>5
      <4>2. g[p][out] = After(g, source, limit, d, p, out)
        BY <2>2, <4>1 DEF RunsBy
      <4>3. h[p][out] = g[p][out]
        <5> HIDE DEF after
        <5> QED BY <2>3, <3>1, <3>5
      <4> QED BY <3>3, <4>2, <4>3
    <3> QED BY <3>4, <3>5
  <2>5. RunsBy(h, source, limit, d, last - m)
    BY <2>4 DEF RunsBy, from
  <2> QED BY <2>5
<1>4. PICK g : RunsBy(g, source, limit, d, 1)
  <2> DEFINE top == last - 1
  <2>1. top \in Nat /\ \A m \in 1 .. top : m - 1 \in S => m \in S
    BY <1>1, <1>3
  <2> HIDE DEF S, top
  <2>2. 0 .. top \subseteq S
    BY <1>2, <2>1, UpTo
  <2>3. last - 1 \in S /\ last - (last - 1) = 1
    BY <1>1, <2>1, <2>2 DEF top
  <2> USE DEF S
  <2>4. \E g : RunsBy(g, source, limit, d, last - (last - 1))
    BY <2>3
  <2> QED BY <2>3, <2>4
<1> DEFINE Whole(run) == run = [p \in 1 .. Len(d) + 2 |-> [out \in Seq(Byte) |-> after(run, p, out)]]
           h == [p \in 1 .. Len(d) + 2 |-> [out \in Seq(Byte) |-> after(g, p, out)]]
<1>5. Whole(h)
  <2>1. ASSUME NEW p \in 1 .. Len(d) + 2, NEW out \in Seq(Byte)
        PROVE  h[p][out] = g[p][out] /\ h[p][out] = after(g, p, out)
    <3>1. g[p][out] = after(g, p, out)
      BY <1>4 DEF RunsBy
    <3>2. h[p][out] = after(g, p, out)
      <4> HIDE DEF after
      <4> QED OBVIOUS
    <3> QED BY <3>1, <3>2
  <2>2. ASSUME NEW p \in 1 .. Len(d) + 2, NEW out \in Seq(Byte)
        PROVE  after(g, p, out) = after(h, p, out)
    <3>1. \A q \in p + 1 .. Len(d) + 2, o \in Seq(Byte) : g[q][o] = h[q][o]
      <4>1. \A q \in p + 1 .. Len(d) + 2 : q \in 1 .. Len(d) + 2
        OBVIOUS
      <4> HIDE DEF h
      <4> QED BY <2>1, <4>1
    <3> HIDE DEF h
    <3> QED BY <3>1, AfterAgrees
  <2> HIDE DEF after
  <2>3. h = [p \in 1 .. Len(d) + 2 |-> [out \in Seq(Byte) |-> after(h, p, out)]]
    BY <2>2
  <2> QED BY <2>3
<1> DEFINE run == CHOOSE f : Whole(f)
<1>6. Whole(run)
  <2> HIDE DEF h, Whole
  <2> QED BY <1>5
<1>7. \A start : RunFrom(source, limit, d, start) = run[start][<<>>]
  BY DEF RunFrom, After
<1> HIDE DEF run
<1>8. RunsBy(run, source, limit, d, 1)
  <2> SUFFICES ASSUME NEW p \in 1 .. Len(d) + 2, NEW out \in Seq(Byte)
               PROVE  run[p][out] = after(run, p, out)
    BY DEF RunsBy
  <2> DEFINE copy == [q \in 1 .. Len(d) + 2 |-> [o \in Seq(Byte) |-> after(run, q, o)]]
  <2>1. run = copy
    BY <1>6
  <2>2. copy[p][out] = after(run, p, out)
    <3> HIDE DEF after
    <3> QED OBVIOUS
  <2> HIDE DEF copy, after
  <2> QED BY <2>1, <2>2
<1> QED BY <1>7, <1>8

\* The run ends with data or an error, from wherever it starts.
LEMMA RunType ==
  ASSUME NEW source \in Seq(Byte), NEW d \in Seq(Byte), NEW limit, NEW run,
         RunsBy(run, source, limit, d, 1)
  PROVE  \A p \in 1 .. Len(d) + 2, out \in Seq(Byte) : run[p][out] \in DecodeResult
<1> DEFINE last == Len(d) + 2
           Typed(p) == \A out \in Seq(Byte) : run[p][out] \in DecodeResult
           S == {m \in 0 .. last - 1 : \A p \in last - m .. last : Typed(p)}
<1>1. last \in Nat /\ last > 0 /\ last - 1 \in Nat
  OBVIOUS
<1>2. ASSUME NEW p \in 1 .. last, NEW out \in Seq(Byte), \A q \in p + 1 .. last : Typed(q)
      PROVE  run[p][out] \in DecodeResult
  <2>1. run[p][out] = After(run, source, limit, d, p, out)
    BY DEF RunsBy
  <2>2. CASE p > Len(d)
    BY <2>1, <2>2, ResultsAre DEF After
  <2>3. CASE ~(p > Len(d))
    <3> DEFINE c == Command(source, limit, d, p, out)
    <3>1. p \in 1 .. Len(d)
      BY <2>3
    <3>2. c.more \in BOOLEAN /\ c.result \in DecodeResult
          /\ (c.more => c.next \in p + 1 .. Len(d) + 2 /\ c.out \in Seq(Byte))
      BY <3>1, CommandMoves
    <3>3. run[p][out] = IF c.more THEN run[c.next][c.out] ELSE c.result
      BY <2>1, <2>3 DEF After
    <3>4. \A q \in p + 1 .. last, o \in Seq(Byte) : run[q][o] \in DecodeResult
      BY <1>2
    <3> HIDE DEF c
    <3> QED BY <3>2, <3>3, <3>4
  <2> QED BY <2>2, <2>3
<1>3. 0 \in S
  <2>1. ASSUME NEW out \in Seq(Byte) PROVE run[last][out] \in DecodeResult
    BY <1>1, <1>2
  <2>2. \A p \in last - 0 .. last : p = last
    BY <1>1
  <2> QED BY <1>1, <2>1, <2>2
<1>4. ASSUME NEW m \in 1 .. last - 1, m - 1 \in S
      PROVE  m \in S
  <2>1. \A q \in last - m + 1 .. last : Typed(q)
    <3>1. last - (m - 1) = last - m + 1
      BY <1>1
    <3> QED BY <1>4, <3>1
  <2>2. last - m \in 1 .. last
    BY <1>1
  <2>3. Typed(last - m)
    BY <1>2, <2>1, <2>2
  <2>4. \A p \in last - m .. last : p = last - m \/ p \in last - m + 1 .. last
    BY <1>1
  <2> HIDE DEF Typed
  <2> QED BY <2>1, <2>3, <2>4
<1>5. last - 1 \in S
  <2> DEFINE top == last - 1
  <2>1. top \in Nat /\ \A m \in 1 .. top : m - 1 \in S => m \in S
    BY <1>1, <1>4
  <2> HIDE DEF S, top
  <2>2. 0 .. top \subseteq S
    BY <1>3, <2>1, UpTo
  <2> QED BY <2>1, <2>2 DEF top
<1>6. \A p \in 1 .. last : Typed(p)
  <2>1. last - (last - 1) = 1
    BY <1>1
  <2> QED BY <1>5, <2>1
<1> QED BY <1>6

\* apply_delta() ends with data or an error, whatever the delta is: it reads no byte that is
\* not there, neither of the source nor of the delta.
THEOREM ApplyDeltaType ==
  ASSUME NEW s \in Seq(Byte), NEW d \in Seq(Byte)
  PROVE  ApplyDelta(s, d) \in [ok : BOOLEAN, data : Seq(Byte)]
<1> DEFINE size == GetInt(d, 1)
<1>1. 1 \in 1 .. Len(d) + 1
  OBVIOUS
<1>2. size.next \in 1 .. Len(d) + 1 /\ size.bad \in BOOLEAN
  BY <1>1, GetIntReads
<1>3. \A limit : RunFrom(s, limit, d, size.next + 1) \in DecodeResult
  <2> TAKE limit
  <2>1. PICK run : /\ RunsBy(run, s, limit, d, 1)
                   /\ \A start : RunFrom(s, limit, d, start) = run[start][<<>>]
    BY RunUnfolds
  <2>2. size.next + 1 \in 1 .. Len(d) + 2 /\ <<>> \in Seq(Byte)
    BY <1>2
  <2> HIDE DEF size
  <2>3. \A p \in 1 .. Len(d) + 2, out \in Seq(Byte) : run[p][out] \in DecodeResult
    BY <2>1, RunType
  <2>4. run[size.next + 1][<<>>] \in DecodeResult
    BY <2>2, <2>3
  <2> QED BY <2>1, <2>4
<1>4. ApplyDelta(s, d) = Error \/ ApplyDelta(s, d) = RunFrom(s, Size(size.v), d, size.next + 1)
  BY DEF ApplyDelta
<1> HIDE DEF size
<1>5. ApplyDelta(s, d) \in DecodeResult
  BY <1>3, <1>4, ResultsAre
<1> QED BY <1>5 DEF DecodeResult

-------------------------------------------------------------------------------
(* Writing numbers.                                                            *)

\* Each six bits have a digit, and it is an ASCII character.
LEMMA DigitOfIs ==
  ASSUME NEW c \in 0 .. 63
  PROVE  DigitOf(c) \in Byte /\ Z_VALUE[DigitOf(c)] = c /\ DigitOf(c) < 128
<1> DEFINE b == IF c < 10 THEN c + 48 ELSE IF c < 36 THEN c + 55 ELSE IF c = 36 THEN 95
                ELSE IF c < 63 THEN c + 60 ELSE 126
<1>1. b \in Byte
  BY DEF Byte
<1>2. \A x \in Byte : Z_VALUE[x] =
         CASE x \in 48 .. 57  -> x - 48
           [] x \in 65 .. 90  -> x - 55
           [] x = 95          -> 36
           [] x \in 97 .. 122 -> x - 60
           [] x = 126         -> 63
           [] OTHER           -> -1
  BY DEF Z_VALUE
<1>3. Z_VALUE[b] = c
  <2>1. CASE c < 10
    BY <1>1, <1>2, <2>1
  <2>2. CASE ~(c < 10) /\ c < 36
    BY <1>1, <1>2, <2>2
  <2>3. CASE c = 36
    BY <1>1, <1>2, <2>3
  <2>4. CASE ~(c < 37) /\ c < 63
    BY <1>1, <1>2, <2>4
  <2>5. CASE c = 63
    BY <1>1, <1>2, <2>5
  <2> QED BY <2>1, <2>2, <2>3, <2>4, <2>5
<1> HIDE DEF b
<1>4. DigitOf(c) \in Byte /\ Z_VALUE[DigitOf(c)] = c
  BY <1>1, <1>3 DEF DigitOf
<1>5. ASSUME NEW x \in Byte, x >= 128 PROVE Z_VALUE[x] = -1
  <2>1. x \in Int
    BY DEF Byte
  <2> QED BY <1>2, <1>5, <2>1
<1>6. DigitOf(c) \in Int
  BY <1>4 DEF Byte
<1> QED BY <1>4, <1>5, <1>6

\* The six digits of a word.
SixOf(w) == <<w.hi \div 16384, (w.hi \div 256) % 64, (w.hi \div 4) % 64,
              (w.hi % 4) * 16 + w.lo \div 4096, (w.lo \div 64) % 64, w.lo % 64>>

\* The first of them that is written.
Leading(w, first) ==
  (first = 6 \/ SixOf(w)[first] # 0) /\ \A j \in 1 .. first - 1 : SixOf(w)[j] = 0

\* Shifting in six bits, when nothing leaves the word.
LEMMA ShiftIs ==
  ASSUME NEW hi \in Int, NEW x \in Int, NEW r \in Int, NEW c \in Int,
         0 <= r, r < 1024, 0 <= hi * 64 + x, hi * 64 + x < 65536
  PROVE  ShiftIn([hi |-> hi, lo |-> 1024 * x + r], c) = [hi |-> hi * 64 + x, lo |-> 64 * r + c]
<1> DEFINE lo == 1024 * x + r
           y  == hi * 64 + x
<1>1. lo \in Int /\ lo \div 1024 = x
  BY By1024
<1>2. lo * 64 = 65536 * x + 64 * r /\ 64 * r \in Int /\ 0 <= 64 * r /\ 64 * r < 65536
  OBVIOUS
<1>3. (lo * 64) % 65536 = 64 * r
  <2> DEFINE z == 64 * r
  <2>1. z \in Int /\ 0 <= z /\ z < 65536 /\ lo * 64 = 65536 * x + z
    BY <1>2
  <2> HIDE DEF z, lo
  <2>2. (lo * 64) % 65536 = z
    BY <2>1, ByHalf
  <2> QED BY <2>2 DEF z
<1>4. y % 65536 = y
  <2>1. y \in Int /\ 0 <= y /\ y < 65536
    OBVIOUS
  <2> HIDE DEF y
  <2> QED BY <2>1
<1>5. ShiftIn([hi |-> hi, lo |-> lo], c)
        = [hi |-> (hi * 64 + lo \div 1024) % 65536, lo |-> ((lo * 64) % 65536) + c]
  <2> HIDE DEF lo
  <2> QED BY Half65536 DEF ShiftIn
<1> HIDE DEF lo
<1>6. hi * 64 + lo \div 1024 = y
  BY <1>1
<1> HIDE DEF y
<1>7. ShiftIn([hi |-> hi, lo |-> lo], c) = [hi |-> y, lo |-> 64 * r + c]
  BY <1>3, <1>4, <1>5, <1>6
<1> QED BY <1>7 DEF lo, y

\* Shifting in six bits, when they all stay in the lower half.
LEMMA ShiftSmall ==
  ASSUME NEW r \in Int, NEW c \in Int, 0 <= r, r < 1024
  PROVE  ShiftIn([hi |-> 0, lo |-> r], c) = [hi |-> 0, lo |-> 64 * r + c]
<1>1. (0 * 64 + r \div 1024) % 65536 = 0
  OBVIOUS
<1>2. (r * 64) % 65536 = 64 * r
  OBVIOUS
<1>3. ShiftIn([hi |-> 0, lo |-> r], c)
        = [hi |-> (0 * 64 + r \div 1024) % 65536, lo |-> ((r * 64) % 65536) + c]
  BY Half65536 DEF ShiftIn
<1> QED BY <1>1, <1>2, <1>3

\* The digits of a word, shifted in one after the other, make the word.
LEMMA SixShifts ==
  ASSUME NEW w \in Word
  PROVE  \E P : /\ P[0] = Zero /\ P[6] = w
                /\ \A k \in 1 .. 6 : P[k] = ShiftIn(P[k - 1], SixOf(w)[k]) /\ SixOf(w)[k] \in 0 .. 63
<1> DEFINE h == w.hi
           l == w.lo
           a == h \div 16384
           ha == h % 16384
           p == ha \div 4096
           hp == ha % 4096
           q == hp \div 256
           hq == hp % 256
           r == hq \div 64
           hr == hq % 64
           s == hr \div 4
           e == hr % 4
           f == l \div 4096
           lf == l % 4096
           g == lf \div 64
           i == lf % 64
<1>1. h \in Int /\ 0 <= h /\ h < 65536 /\ l \in Int /\ 0 <= l /\ l < 65536 /\ w = [hi |-> h, lo |-> l]
  BY WordParts, Half65536
<1>0. SixOf(w) = <<h \div 16384, (h \div 256) % 64, (h \div 4) % 64,
                   (h % 4) * 16 + l \div 4096, (l \div 64) % 64, l % 64>>
  BY DEF SixOf
<1> HIDE DEF h, l
<1>2. a \in Int /\ 0 <= a /\ a < 4 /\ ha \in Int /\ 0 <= ha /\ ha < 16384 /\ h = 16384 * a + ha
  BY <1>1
<1>7. f \in Int /\ 0 <= f /\ f < 16 /\ lf \in Int /\ 0 <= lf /\ lf < 4096 /\ l = 4096 * f + lf
  BY <1>1
<1> HIDE DEF a, ha, f, lf
<1>3. p \in Int /\ 0 <= p /\ p < 4 /\ hp \in Int /\ 0 <= hp /\ hp < 4096 /\ ha = 4096 * p + hp
  BY <1>2
<1>8. g \in Int /\ 0 <= g /\ g < 64 /\ i \in Int /\ 0 <= i /\ i < 64 /\ lf = 64 * g + i
  BY <1>7
<1> HIDE DEF p, hp, g, i
<1>4. q \in Int /\ 0 <= q /\ q < 16 /\ hq \in Int /\ 0 <= hq /\ hq < 256 /\ hp = 256 * q + hq
  BY <1>3
<1> HIDE DEF q, hq
<1>5. r \in Int /\ 0 <= r /\ r < 4 /\ hr \in Int /\ 0 <= hr /\ hr < 64 /\ hq = 64 * r + hr
  BY <1>4
<1> HIDE DEF r, hr
<1>6. s \in Int /\ 0 <= s /\ s < 16 /\ e \in Int /\ 0 <= e /\ e < 4 /\ hr = 4 * s + e
  BY <1>5
<1> HIDE DEF s, e
<1>9. /\ h = 16384 * a + 4096 * p + 256 * q + 64 * r + 4 * s + e
      /\ l = 4096 * f + 64 * g + i
      /\ a \in Int /\ p \in Int /\ q \in Int /\ r \in Int /\ s \in Int /\ e \in Int
      /\ f \in Int /\ g \in Int /\ i \in Int
      /\ 0 <= a /\ 0 <= p /\ 0 <= q /\ 0 <= r /\ 0 <= s /\ 0 <= e /\ 0 <= f /\ 0 <= g /\ 0 <= i
      /\ a < 4 /\ p < 4 /\ q < 16 /\ r < 4 /\ s < 16 /\ e < 4 /\ f < 16 /\ g < 64 /\ i < 64
  BY <1>2, <1>3, <1>4, <1>5, <1>6, <1>7, <1>8
<1> DEFINE x2 == 16 * p + q
           x3 == 16 * r + s
           x4 == 16 * e + f
<1>10. h \div 16384 = a
  <2> DEFINE z == 4096 * p + 256 * q + 64 * r + 4 * s + e
  <2>1. z \in Int /\ 0 <= z /\ z < 16384 /\ h = 16384 * a + z
    BY <1>9
  <2> HIDE DEF z
  <2> QED BY <1>9, <2>1, By16384
<1>11. (h \div 256) % 64 = x2
  <2> DEFINE z == 64 * r + 4 * s + e
             y == 64 * a + x2
  <2>1. z \in Int /\ 0 <= z /\ z < 256 /\ h = 256 * y + z /\ y \in Int
        /\ x2 \in Int /\ 0 <= x2 /\ x2 < 64
    BY <1>9
  <2> HIDE DEF z, y
  <2>2. h \div 256 = y
    BY <2>1, By256
  <2> HIDE DEF x2
  <2>3. y % 64 = x2
    BY <1>9, <2>1, By64 DEF y
  <2> QED BY <2>2, <2>3
<1>12. (h \div 4) % 64 = x3 /\ h % 4 = e
  <2> DEFINE z == 64 * a + 16 * p + q
             y == 64 * z + x3
  <2>1. h = 4 * y + e /\ y \in Int /\ z \in Int /\ x3 \in Int /\ 0 <= x3 /\ x3 < 64
    BY <1>9
  <2> HIDE DEF y
  <2>2. h \div 4 = y /\ h % 4 = e
    BY <1>9, <2>1, By4
  <2> HIDE DEF x3, z
  <2>3. y % 64 = x3
    BY <2>1, By64 DEF y
  <2> QED BY <2>2, <2>3
<1>13. l \div 4096 = f
  <2> DEFINE z == 64 * g + i
  <2>1. z \in Int /\ 0 <= z /\ z < 4096 /\ l = 4096 * f + z
    BY <1>9
  <2> HIDE DEF z
  <2> QED BY <1>9, <2>1, By4096
<1>14. (l \div 64) % 64 = g /\ l % 64 = i
  <2> DEFINE y == 64 * f + g
  <2>1. y \in Int /\ l = 64 * y + i
    BY <1>9
  <2> HIDE DEF y
  <2>2. l \div 64 = y /\ l % 64 = i
    BY <1>9, <2>1, By64
  <2>3. y % 64 = g
    BY <1>9, By64 DEF y
  <2> QED BY <2>2, <2>3
<1>15. SixOf(w) = <<a, x2, x3, x4, g, i>>
  <2>1. e * 16 + f = x4
    BY <1>9
  <2> HIDE DEF x2, x3, x4
  <2> QED BY <1>0, <1>10, <1>11, <1>12, <1>13, <1>14, <2>1
<1>16. /\ a \in 0 .. 63 /\ x2 \in 0 .. 63 /\ x3 \in 0 .. 63 /\ x4 \in 0 .. 63 /\ g \in 0 .. 63 /\ i \in 0 .. 63
  BY <1>9
<1> DEFINE v1 == [hi |-> 0, lo |-> a]
           v2 == [hi |-> 0, lo |-> 64 * a + x2]
           v3 == [hi |-> 0, lo |-> 4096 * a + 64 * x2 + x3]
           v4 == [hi |-> 4 * a + p, lo |-> 4096 * q + 64 * x3 + x4]
           v5 == [hi |-> 256 * a + 64 * p + 4 * q + r, lo |-> 4096 * s + 64 * x4 + g]
<1>21. v1 = ShiftIn(Zero, a)
  <2>1. 64 * 0 + a = a
    BY <1>9
  <2>2. ShiftIn([hi |-> 0, lo |-> 0], a) = [hi |-> 0, lo |-> 64 * 0 + a]
    BY <1>9, ShiftSmall
  <2> QED BY <2>1, <2>2 DEF Zero
<1>22. v2 = ShiftIn(v1, x2)
  <2>1. x2 \in Int /\ a \in Int /\ 0 <= a /\ a < 1024
    BY <1>9
  <2> HIDE DEF x2
  <2> QED BY <2>1, ShiftSmall
<1>23. v3 = ShiftIn(v2, x3)
  <2> DEFINE z == 64 * a + x2
  <2>1. x3 \in Int /\ z \in Int /\ 0 <= z /\ z < 1024
        /\ 64 * z + x3 = 4096 * a + 64 * x2 + x3
    BY <1>9
  <2> HIDE DEF x2, x3, z
  <2>2. ShiftIn([hi |-> 0, lo |-> z], x3) = [hi |-> 0, lo |-> 64 * z + x3]
    BY <2>1, ShiftSmall
  <2> QED BY <2>1, <2>2 DEF z
<1>24. v4 = ShiftIn(v3, x4)
  <2> DEFINE t == 0
             y == 4 * a + p
             z == 64 * q + x3
  <2>1. /\ x4 \in Int /\ y \in Int /\ z \in Int /\ 0 <= z /\ z < 1024
        /\ 1024 * y + z = 4096 * a + 64 * x2 + x3 /\ 64 * z + x4 = 4096 * q + 64 * x3 + x4
    BY <1>9
  <2>3. t \in Int /\ 0 <= t * 64 + y /\ t * 64 + y < 65536
    BY <1>9
  <2>4. t * 64 + y = y
    BY <1>9
  <2> HIDE DEF x2, x3, x4, z, y, t
  <2>2. ShiftIn([hi |-> t, lo |-> 1024 * y + z], x4) = [hi |-> t * 64 + y, lo |-> 64 * z + x4]
    BY <2>1, <2>3, ShiftIs
  <2> QED BY <2>1, <2>2, <2>4 DEF y, t
<1>25. v5 = ShiftIn(v4, g)
  <2> DEFINE t == 4 * a + p
             y == 4 * q + r
             z == 64 * s + x4
             o == 256 * a + 64 * p + 4 * q + r
  <2>1. /\ t \in Int /\ y \in Int /\ z \in Int /\ 0 <= z /\ z < 1024 /\ g \in Int
        /\ 1024 * y + z = 4096 * q + 64 * x3 + x4 /\ 64 * z + g = 4096 * s + 64 * x4 + g
        /\ t * 64 + y = o /\ 0 <= t * 64 + y /\ t * 64 + y < 65536
    BY <1>9
  <2> HIDE DEF x3, x4, z, y, t, o
  <2>2. ShiftIn([hi |-> t, lo |-> 1024 * y + z], g) = [hi |-> t * 64 + y, lo |-> 64 * z + g]
    BY <2>1, ShiftIs
  <2> QED BY <2>1, <2>2 DEF t, o
<1>26. w = ShiftIn(v5, i)
  <2> DEFINE t == 256 * a + 64 * p + 4 * q + r
             y == 4 * s + e
             z == 64 * f + g
  <2>1. /\ t \in Int /\ y \in Int /\ z \in Int /\ 0 <= z /\ z < 1024 /\ i \in Int
        /\ 1024 * y + z = 4096 * s + 64 * x4 + g /\ 64 * z + i = l
        /\ t * 64 + y = h /\ 0 <= t * 64 + y /\ t * 64 + y < 65536
    BY <1>1, <1>9
  <2> HIDE DEF x4, z, y, t
  <2>2. ShiftIn([hi |-> t, lo |-> 1024 * y + z], i) = [hi |-> t * 64 + y, lo |-> 64 * z + i]
    BY <2>1, ShiftIs
  <2>3. [hi |-> t, lo |-> 1024 * y + z] = v5
    BY <2>1 DEF t
  <2> HIDE DEF v5
  <2>4. [hi |-> t * 64 + y, lo |-> 64 * z + i] = w
    BY <1>1, <2>1
  <2> QED BY <2>2, <2>3, <2>4
<1> HIDE DEF v1, v2, v3, v4, v5, x2, x3, x4
<1> DEFINE P == [k \in 0 .. 6 |-> CASE k = 0 -> Zero [] k = 1 -> v1 [] k = 2 -> v2 [] k = 3 -> v3
                                    [] k = 4 -> v4 [] k = 5 -> v5 [] k = 6 -> w]
<1>31. P[0] = Zero /\ P[1] = v1 /\ P[2] = v2 /\ P[3] = v3 /\ P[4] = v4 /\ P[5] = v5 /\ P[6] = w
  OBVIOUS
<1> HIDE DEF P
<1>32. /\ P[1] = ShiftIn(P[1 - 1], SixOf(w)[1]) /\ P[2] = ShiftIn(P[2 - 1], SixOf(w)[2])
       /\ P[3] = ShiftIn(P[3 - 1], SixOf(w)[3]) /\ P[4] = ShiftIn(P[4 - 1], SixOf(w)[4])
       /\ P[5] = ShiftIn(P[5 - 1], SixOf(w)[5]) /\ P[6] = ShiftIn(P[6 - 1], SixOf(w)[6])
  BY <1>15, <1>21, <1>22, <1>23, <1>24, <1>25, <1>26, <1>31
<1>33. \A k \in 1 .. 6 : SixOf(w)[k] \in 0 .. 63
  BY <1>15, <1>16
<1>34. \A k \in 1 .. 6 : k = 1 \/ k = 2 \/ k = 3 \/ k = 4 \/ k = 5 \/ k = 6
  OBVIOUS
<1>35. \A k \in 1 .. 6 : P[k] = ShiftIn(P[k - 1], SixOf(w)[k])
  BY <1>32, <1>34
<1> QED BY <1>31, <1>33, <1>35

\* Digits writes the digits from the first that is not zero on.
LEMMA DigitsAre ==
  ASSUME NEW w \in Word
  PROVE  \E first \in 1 .. 6 :
           /\ \A j \in 1 .. first - 1 : SixOf(w)[j] = 0
           /\ Digits(w) = [k \in 1 .. 7 - first |-> DigitOf(SixOf(w)[first + k - 1])]
<1> DEFINE S == {k \in 1 .. 6 : k = 6 \/ SixOf(w)[k] # 0}
<1>1. S \in SUBSET Nat /\ 6 \in S
  OBVIOUS
<1>2. PICK n \in S : \A m \in S : n <= m
  <2> HIDE DEF S
  <2> QED BY <1>1, LeastNumber
<1>3. n \in 1 .. 6 /\ Leading(w, n)
  <2>1. n \in 1 .. 6 /\ (n = 6 \/ SixOf(w)[n] # 0)
    BY <1>2
  <2>2. ASSUME NEW j \in 1 .. n - 1 PROVE SixOf(w)[j] = 0
    <3>1. j \in 1 .. 6 /\ ~(n <= j)
      BY <2>1
    <3>2. j \notin S
      BY <1>2, <3>1
    <3> QED BY <3>1, <3>2
  <2> QED BY <2>1, <2>2 DEF Leading
<1> DEFINE first == CHOOSE k \in 1 .. 6 : Leading(w, k)
<1>4. first \in 1 .. 6 /\ Leading(w, first)
  BY <1>3
<1>5. Digits(w) = [k \in 1 .. 7 - first |-> DigitOf(SixOf(w)[first + k - 1])]
  BY DEF Digits, SixOf, Leading
<1> HIDE DEF first
<1>6. \A j \in 1 .. first - 1 : SixOf(w)[j] = 0
  BY <1>4 DEF Leading
<1> QED BY <1>4, <1>5, <1>6

\* A number is written in bytes.
LEMMA DigitsType ==
  ASSUME NEW w \in Word
  PROVE  Digits(w) \in Seq(Byte)
<1>1. PICK P : \A k \in 1 .. 6 : SixOf(w)[k] \in 0 .. 63
  BY SixShifts
<1>2. PICK first \in 1 .. 6 : Digits(w) = [k \in 1 .. 7 - first |-> DigitOf(SixOf(w)[first + k - 1])]
  BY DigitsAre
<1>3. ASSUME NEW k \in 1 .. 7 - first PROVE DigitOf(SixOf(w)[first + k - 1]) \in Byte
  <2>1. first + k - 1 \in 1 .. 6
    OBVIOUS
  <2>2. SixOf(w)[first + k - 1] \in 0 .. 63
    BY <1>1, <2>1
  <2> QED BY <2>2, DigitOfIs
<1>4. 7 - first \in Nat
  OBVIOUS
<1> HIDE DEF Byte
<1> QED BY <1>2, <1>3, <1>4

\* The digits, read one after the other, make the word.
LEMMA DigitsMake ==
  ASSUME NEW w \in Word
  PROVE  \E P : /\ P[0] = Zero /\ P[Len(Digits(w))] = w
                /\ \A k \in 1 .. Len(Digits(w)) : /\ P[k] = ShiftIn(P[k - 1], Z_VALUE[Digits(w)[k]])
                                                  /\ Z_VALUE[Digits(w)[k]] >= 0
<1> DEFINE six == SixOf(w)
<1>1. PICK P : /\ P[0] = Zero /\ P[6] = w
               /\ \A k \in 1 .. 6 : P[k] = ShiftIn(P[k - 1], six[k]) /\ six[k] \in 0 .. 63
  BY SixShifts
<1>2. PICK first \in 1 .. 6 :
        /\ \A j \in 1 .. first - 1 : six[j] = 0
        /\ Digits(w) = [k \in 1 .. 7 - first |-> DigitOf(six[first + k - 1])]
  BY DigitsAre
<1> HIDE DEF six
<1>3. ShiftIn(Zero, 0) = Zero
  <2>1. ShiftIn([hi |-> 0, lo |-> 0], 0) = [hi |-> 0, lo |-> 64 * 0 + 0]
    BY ShiftSmall
  <2> QED BY <2>1 DEF Zero
<1>4. P[first - 1] = Zero
  <2> DEFINE S == {k \in 0 .. first - 1 : P[k] = Zero}
             n == first - 1
  <2>1. 0 \in S /\ n \in Nat
    BY <1>1
  <2>2. ASSUME NEW k \in 1 .. n, k - 1 \in S PROVE k \in S
    <3>1. k \in 1 .. 6 /\ six[k] = 0 /\ P[k - 1] = Zero
      BY <1>2, <2>2
    <3>2. P[k] = ShiftIn(P[k - 1], six[k])
      BY <1>1, <3>1
    <3> QED BY <1>3, <3>1, <3>2
  <2> HIDE DEF S, n
  <2>3. 0 .. n \subseteq S
    BY <2>1, <2>2, UpTo
  <2>4. n \in S
    BY <2>1, <2>3
  <2> QED BY <2>4 DEF S, n
<1> DEFINE Q == [k \in 0 .. 7 - first |-> P[first - 1 + k]]
<1>5. Len(Digits(w)) = 7 - first
  <2>1. 7 - first \in Nat
    OBVIOUS
  <2> QED BY <1>2, <2>1
<1>6. Q[0] = Zero /\ Q[7 - first] = w
  <2>1. first - 1 + 0 = first - 1 /\ first - 1 + (7 - first) = 6 /\ 0 \in 0 .. 7 - first /\ 7 - first \in 0 .. 7 - first
    OBVIOUS
  <2> QED BY <1>1, <1>4, <2>1
<1>7. ASSUME NEW k \in 1 .. 7 - first
      PROVE  Q[k] = ShiftIn(Q[k - 1], Z_VALUE[Digits(w)[k]]) /\ Z_VALUE[Digits(w)[k]] >= 0
  <2> DEFINE j == first + k - 1
  <2>1. j \in 1 .. 6 /\ first - 1 + k = j /\ first - 1 + (k - 1) = j - 1 /\ k \in 0 .. 7 - first /\ k - 1 \in 0 .. 7 - first
    OBVIOUS
  <2>2. Q[k] = P[j] /\ Q[k - 1] = P[j - 1]
    BY <2>1
  <2>3. P[j] = ShiftIn(P[j - 1], six[j]) /\ six[j] \in 0 .. 63
    BY <1>1, <2>1
  <2>4. Digits(w)[k] = DigitOf(six[j])
    BY <1>2
  <2> HIDE DEF j, Q
  <2> DEFINE c == six[j]
  <2>5. Z_VALUE[DigitOf(c)] = c
    <3>1. c \in 0 .. 63
      BY <2>3
    <3> HIDE DEF c
    <3> QED BY <3>1, DigitOfIs
  <2> QED BY <2>2, <2>3, <2>4, <2>5
<1> HIDE DEF Q
<1> QED BY <1>5, <1>6, <1>7

\* From position p on, d has the digits of w, and then something that is no digit.
Spells(d, p, w) ==
  /\ p + Len(Digits(w)) <= Len(d)
  /\ \A k \in 1 .. Len(Digits(w)) : d[p + k - 1] = Digits(w)[k]
  /\ Z_VALUE[d[p + Len(Digits(w))]] < 0 /\ d[p + Len(Digits(w))] < 128

\* get_int() reads the number that was written.
LEMMA ReadsBack ==
  ASSUME NEW d \in Seq(Byte), NEW p \in 1 .. Len(d), NEW w \in Word, Spells(d, p, w)
  PROVE  GetInt(d, p) = [v |-> w, next |-> p + Len(Digits(w)), bad |-> FALSE]
<1> DEFINE n == Len(Digits(w))
           next == RunEnd(d, p)
<1>1. n \in Nat /\ p + n <= Len(d)
  BY DigitsType DEF Spells
<1>2. PICK P : /\ P[0] = Zero /\ P[n] = w
               /\ \A k \in 1 .. n : /\ P[k] = ShiftIn(P[k - 1], Z_VALUE[Digits(w)[k]])
                                    /\ Z_VALUE[Digits(w)[k]] >= 0
  BY DigitsMake
<1>3. \A k \in 1 .. n : d[p + k - 1] = Digits(w)[k]
  BY DEF Spells
<1>4. Z_VALUE[d[p + n]] < 0 /\ d[p + n] < 128 /\ Z_VALUE[d[p + n]] \in Int /\ d[p + n] \in Int
  <2>1. p + n \in 1 .. Len(d)
    BY <1>1
  <2>2. d[p + n] \in Byte
    BY <2>1
  <2>3. Z_VALUE[d[p + n]] \in Int /\ d[p + n] \in Int
    <3> DEFINE b == d[p + n]
    <3>1. b \in Byte
      BY <2>2
    <3> HIDE DEF b
    <3>2. Z_VALUE[b] \in Int
      BY <3>1, Values
    <3>3. b \in Int
      BY <3>1 DEF Byte
    <3> QED BY <3>2, <3>3 DEF b
  <2> QED BY <2>3 DEF Spells
<1> HIDE DEF n
<1>5. /\ next \in p .. Len(d) + 1 /\ \A k \in p .. next - 1 : Z_VALUE[d[k]] >= 0
      /\ next <= Len(d) => Z_VALUE[d[next]] < 0
  <2>1. p \in 1 .. Len(d) + 1
    OBVIOUS
  <2> QED BY <2>1, RunEnds
<1> HIDE DEF next
<1>6. next = p + n
  <2>1. CASE next < p + n
    <3> DEFINE k == next - p + 1
    <3>1. k \in 1 .. n /\ p + k - 1 = next /\ next <= Len(d)
      BY <1>1, <1>5, <2>1
    <3>2. d[next] = Digits(w)[k] /\ Z_VALUE[Digits(w)[k]] >= 0
      BY <1>2, <1>3, <3>1
    <3>3. Z_VALUE[d[next]] >= 0 /\ Z_VALUE[d[next]] < 0
      BY <1>5, <3>1, <3>2
    <3>4. Z_VALUE[d[next]] \in Int
      <4> DEFINE b == d[next]
      <4>1. b \in Byte
        BY <1>5, <3>1
      <4> HIDE DEF b
      <4>2. Z_VALUE[b] \in Int
        BY <4>1, Values
      <4> QED BY <4>2 DEF b
    <3> HIDE DEF k
    <3> DEFINE z == Z_VALUE[d[next]]
    <3>5. z \in Int /\ z >= 0 /\ z < 0
      BY <3>3, <3>4
    <3> HIDE DEF z
    <3> QED BY <3>5
  <2>2. CASE next > p + n
    <3>1. p + n \in p .. next - 1
      BY <1>1, <1>5, <2>2
    <3>2. Z_VALUE[d[p + n]] >= 0
      BY <1>5, <3>1
    <3> DEFINE z == Z_VALUE[d[p + n]]
    <3>3. z \in Int /\ z >= 0 /\ z < 0
      BY <1>4, <3>2
    <3> HIDE DEF z
    <3> QED BY <3>3
  <2>3. next \in Int /\ p + n \in Int
    BY <1>1, <1>5
  <2> QED BY <2>1, <2>2, <2>3
<1>7. PICK value : Reading(value, d, p, n) /\ IntBefore(d, p, next).v = value[n]
  <2>1. next \in Nat /\ p \in Nat /\ p <= next /\ next - p = n
    BY <1>1, <1>6
  <2>2. \E value : Reading(value, d, p, next - p) /\ IntBefore(d, p, next).v = value[next - p]
    BY <2>1, IntUnfolds
  <2> QED BY <2>1, <2>2
<1>8. value[n] = w
  <2> DEFINE S == {k \in 0 .. n : value[k] = P[k]}
  <2>1. 0 \in S
    BY <1>1, <1>2, <1>7 DEF Reading
  <2>2. ASSUME NEW k \in 1 .. n, k - 1 \in S PROVE k \in S
    <3>1. value[k] = ShiftIn(value[k - 1], Z_VALUE[d[p + k - 1]]) /\ value[k - 1] = P[k - 1]
      BY <1>7, <2>2 DEF Reading
    <3>2. P[k] = ShiftIn(P[k - 1], Z_VALUE[d[p + k - 1]])
      BY <1>2, <1>3
    <3> QED BY <3>1, <3>2
  <2> HIDE DEF S
  <2>3. 0 .. n \subseteq S
    BY <1>1, <2>1, <2>2, UpTo
  <2>4. n \in S
    BY <1>1, <2>3
  <2> QED BY <1>2, <2>4 DEF S
<1>9. GetInt(d, p) = IntBefore(d, p, next)
  BY DEF GetInt, next
<1>10. IntBefore(d, p, next) = [v |-> IntBefore(d, p, next).v, next |-> next,
                                bad |-> next <= Len(d) /\ d[next] >= 128]
  BY DEF IntBefore
<1>11. (next <= Len(d) /\ d[next] >= 128) = FALSE
  <2> DEFINE b == d[next]
  <2>1. b \in Int /\ b < 128
    BY <1>4, <1>6
  <2> HIDE DEF b
  <2>2. ~(b >= 128)
    BY <2>1
  <2> QED BY <2>2 DEF b
<1>12. GetInt(d, p) = [v |-> w, next |-> p + n, bad |-> FALSE]
  BY <1>6, <1>7, <1>8, <1>9, <1>10, <1>11
<1> QED BY <1>12 DEF n

-------------------------------------------------------------------------------
(* Deltas as they are written.                                                 *)

\* The bytes of s are in d from position p on.
Holds(d, p, s) ==
  p + Len(s) <= Len(d) + 1 /\ \A j \in 1 .. Len(s) : d[p + j - 1] = s[j]

\* A sequence holds itself.
LEMMA HoldsItself ==
  ASSUME NEW d \in Seq(Byte)
  PROVE  Holds(d, 1, d)
BY DEF Holds

\* Where two sequences stand, put together, each of them stands.
LEMMA HoldsParts ==
  ASSUME NEW d \in Seq(Byte), NEW p \in Nat, NEW s \in Seq(Byte), NEW t \in Seq(Byte),
         NEW q, q = p + Len(s), Holds(d, p, s \o t)
  PROVE  Holds(d, p, s) /\ Holds(d, q, t)
<1>1. Len(s \o t) = Len(s) + Len(t) /\ Len(s) \in Nat /\ Len(t) \in Nat /\ Len(d) \in Nat
  OBVIOUS
<1>2. \A i \in 1 .. Len(s) + Len(t) : (s \o t)[i] = IF i <= Len(s) THEN s[i] ELSE t[i - Len(s)]
  BY ConcatProperties
<1>3. p + Len(s) + Len(t) <= Len(d) + 1
  BY <1>1 DEF Holds
<1>4. \A j \in 1 .. Len(s) + Len(t) : d[p + j - 1] = (s \o t)[j]
  BY <1>1 DEF Holds
<1>5. ASSUME NEW j \in 1 .. Len(s) PROVE d[p + j - 1] = s[j]
  <2>1. j \in 1 .. Len(s) + Len(t) /\ j <= Len(s)
    BY <1>1
  <2> QED BY <1>2, <1>4, <2>1
<1>6. ASSUME NEW j \in 1 .. Len(t) PROVE d[p + Len(s) + j - 1] = t[j]
  <2> DEFINE i == Len(s) + j
  <2>1. i \in 1 .. Len(s) + Len(t) /\ ~(i <= Len(s)) /\ i - Len(s) = j /\ p + i - 1 = p + Len(s) + j - 1
    BY <1>1
  <2> HIDE DEF i
  <2> QED BY <1>2, <1>4, <2>1
<1> QED BY <1>1, <1>3, <1>5, <1>6 DEF Holds

\* Where a single byte stands.
LEMMA HoldsByte ==
  ASSUME NEW d \in Seq(Byte), NEW p \in Nat, NEW b, Holds(d, p, <<b>>)
  PROVE  p <= Len(d) /\ d[p] = b
<1>1. p + 1 <= Len(d) + 1 /\ \A j \in 1 .. 1 : d[p + j - 1] = <<b>>[j]
  BY DEF Holds
<1>2. d[p + 1 - 1] = <<b>>[1]
  BY <1>1
<1>3. p + 1 - 1 = p /\ <<b>>[1] = b
  OBVIOUS
<1>4. p <= Len(d)
  BY <1>1
<1> QED BY <1>2, <1>3, <1>4

\* The bytes that end a number.
Ends(b) == b \in Byte /\ Z_VALUE[b] < 0 /\ b < 128

\* Those of the format end a number.
LEMMA Terminators ==
  Ends(Newline) /\ Ends(Comma) /\ Ends(Colon) /\ Ends(Semicolon) /\ Ends(At)
BY DEF Ends, Newline, Comma, Colon, Semicolon, At, Byte, Z_VALUE

\* get_int() reads a number that stands in a delta with one of them after it.
LEMMA ReadsWritten ==
  ASSUME NEW d \in Seq(Byte), NEW p \in 1 .. Len(d) + 1, NEW w \in Word, NEW b, Ends(b),
         Holds(d, p, Digits(w)), Holds(d, p + Len(Digits(w)), <<b>>)
  PROVE  /\ p + Len(Digits(w)) <= Len(d) /\ d[p + Len(Digits(w))] = b /\ Len(Digits(w)) \in Nat
         /\ GetInt(d, p) = [v |-> w, next |-> p + Len(Digits(w)), bad |-> FALSE]
<1> DEFINE n == Len(Digits(w))
<1>1. n \in Nat /\ p + n \in Nat
  BY DigitsType
<1>2. p + n <= Len(d) /\ d[p + n] = b
  <2> HIDE DEF n
  <2> DEFINE q == p + n
  <2>1. q \in Nat /\ Holds(d, q, <<b>>)
    BY <1>1 DEF n
  <2> HIDE DEF q
  <2>2. q <= Len(d) /\ d[q] = b
    BY <2>1, HoldsByte
  <2> QED BY <2>2 DEF q
<1>3. Spells(d, p, w)
  BY <1>2 DEF Spells, Holds, Ends
<1>4. p \in 1 .. Len(d)
  BY <1>1, <1>2
<1> HIDE DEF n
<1>5. GetInt(d, p) = [v |-> w, next |-> p + Len(Digits(w)), bad |-> FALSE]
  BY <1>3, <1>4, ReadsBack
<1> QED BY <1>1, <1>2, <1>5 DEF n

\* A length below 64 KiB is written and read exactly.
LEMMA NumbersAre ==
  ASSUME NEW n \in Nat, n < Half
  PROVE  /\ [hi |-> 0, lo |-> n] \in Word /\ Number(n) = Digits([hi |-> 0, lo |-> n])
         /\ Size([hi |-> 0, lo |-> n]) = n
<1>1. [hi |-> 0, lo |-> n] \in Word
  BY Halves, MakesWord
<1> QED BY <1>1 DEF Number, Size

\* The texts the model tells apart by their length: Size() cuts a number at 64 KiB.
Text == {t \in Seq(Byte) : Len(t) < Half}

\* The commands that can be made from a text.
CommandsOn(source) ==
  {c \in {Copy(offset, count) : offset \in Nat, count \in Nat} : c.offset + c.count <= Len(source)}
    \cup {Insert(bytes) : bytes \in Seq(Byte)}

\* What a command says.
Said(source, c) ==
  IF c.kind = "copy" THEN SubSeq(source, c.offset + 1, c.offset + c.count) ELSE c.bytes

\* A command is one of the two, and says as much as it counts.
LEMMA CommandsAre ==
  ASSUME NEW source \in Seq(Byte), NEW c \in CommandsOn(source)
  PROVE  /\ Said(source, c) \in Seq(Byte)
         /\ c.count \in Nat /\ Len(Said(source, c)) = c.count
         /\ c.kind = "copy" => c.offset \in Nat /\ c.offset + c.count <= Len(source)
         /\ c.kind = "copy" => Said(source, c) = Copied(source, c.offset, c.count)
         /\ c.kind # "copy" => c.bytes \in Seq(Byte) /\ Said(source, c) = c.bytes
<1>1. CASE \E offset \in Nat, count \in Nat : c = Copy(offset, count) /\ c.offset + c.count <= Len(source)
  <2>1. PICK offset \in Nat, count \in Nat : c = Copy(offset, count) /\ c.offset + c.count <= Len(source)
    BY <1>1
  <2>2. c.kind = "copy" /\ c.offset = offset /\ c.count = count
    BY <2>1 DEF Copy
  <2>3. \A i \in offset + 1 .. offset + count : source[i] \in Byte
    BY <2>1, <2>2
  <2>4. /\ SubSeq(source, offset + 1, offset + count) \in Seq(Byte)
        /\ Len(SubSeq(source, offset + 1, offset + count)) =
             IF offset + 1 <= offset + count THEN offset + count - (offset + 1) + 1 ELSE 0
    <3>1. offset + 1 \in Int /\ offset + count \in Int
      OBVIOUS
    <3> QED BY <2>3, <3>1, SubSeqProperties
  <2>5. Len(SubSeq(source, offset + 1, offset + count)) = count
    BY <2>4
  <2> QED BY <2>1, <2>2, <2>4, <2>5 DEF Said, Copied
<1>2. CASE \E bytes \in Seq(Byte) : c = Insert(bytes)
  <2>1. PICK bytes \in Seq(Byte) : c = Insert(bytes)
    BY <1>2
  <2>2. c.kind = "insert" /\ c.count = Len(bytes) /\ c.bytes = bytes
    BY <2>1 DEF Insert
  <2> QED BY <2>2 DEF Said
<1> QED BY <1>1, <1>2 DEF CommandsOn

\* A command is written in bytes.
LEMMA WrittenType ==
  ASSUME NEW source \in Text, NEW c \in CommandsOn(source), c.count < Half
  PROVE  Written(c) \in Seq(Byte)
<1>1. source \in Seq(Byte) /\ Len(source) < Half
  BY DEF Text
<1>2. /\ c.count \in Nat
      /\ c.kind = "copy" => c.offset \in Nat /\ c.offset + c.count <= Len(source)
      /\ c.kind # "copy" => c.bytes \in Seq(Byte)
  BY <1>1, CommandsAre
<1>3. Number(c.count) \in Seq(Byte)
  BY <1>2, NumbersAre, DigitsType
<1>4. At \in Byte /\ Comma \in Byte /\ Colon \in Byte
  BY Terminators DEF Ends
<1> HIDE DEF Byte
<1>5. CASE c.kind = "copy"
  <2>1. c.offset < Half
    <3>1. c.offset <= Len(source)
      BY <1>1, <1>2, <1>5
    <3> DEFINE o == c.offset
    <3>2. o \in Int /\ Len(source) \in Int /\ o <= Len(source)
      BY <1>1, <1>2, <1>5, <3>1
    <3> HIDE DEF o
    <3>3. o < Half
      BY <1>1, <3>2, Halves
    <3> QED BY <3>3 DEF o
  <2>2. Number(c.offset) \in Seq(Byte)
    BY <1>2, <1>5, <2>1, NumbersAre, DigitsType
  <2>3. Written(c) = Number(c.count) \o <<At>> \o Number(c.offset) \o <<Comma>>
    BY <1>5 DEF Written
  <2> QED BY <1>3, <1>4, <2>2, <2>3
<1>6. CASE c.kind # "copy"
  <2>1. Written(c) = Number(c.count) \o <<Colon>> \o c.bytes
    BY <1>6 DEF Written
  <2> QED BY <1>2, <1>3, <1>4, <1>6, <2>1
<1> QED BY <1>5, <1>6

\* A copy that stands in a delta is carried out as it was meant.
LEMMA CopyRuns ==
  ASSUME NEW source \in Text, NEW d \in Seq(Byte), NEW limit \in Nat, limit < Half,
         NEW p \in 1 .. Len(d) + 1, NEW out \in Seq(Byte),
         NEW c \in CommandsOn(source), c.kind = "copy", Len(out) + c.count <= limit,
         Holds(d, p, Written(c))
  PROVE  Command(source, limit, d, p, out) = Continue(p + Len(Written(c)), out \o Said(source, c))
<1> DEFINE n == [hi |-> 0, lo |-> c.count]
           o == [hi |-> 0, lo |-> c.offset]
           N == Digits(n)
           O == Digits(o)
           q == p + Len(N)
           x == q + 1 + Len(O)
<1>1. source \in Seq(Byte) /\ Len(source) \in Nat /\ Len(source) < Half /\ Len(out) \in Nat
  BY DEF Text
<1>2. /\ c.count \in Nat /\ c.offset \in Nat /\ c.offset + c.count <= Len(source)
      /\ Said(source, c) = Copied(source, c.offset, c.count)
  BY <1>1, CommandsAre
<1>3. c.count < Half /\ c.offset < Half
  <2> DEFINE i == c.count
             j == c.offset
  <2>1. i \in Int /\ j \in Int /\ 0 <= i /\ 0 <= j /\ j + i <= Len(source)
    BY <1>2
  <2> HIDE DEF i, j
  <2>2. i < Half /\ j < Half
    BY <1>1, <2>1, Halves
  <2> QED BY <2>2 DEF i, j
<1>4. n \in Word /\ o \in Word /\ Number(c.count) = N /\ Number(c.offset) = O
      /\ Size(n) = c.count /\ Size(o) = c.offset
  BY <1>2, <1>3, NumbersAre
<1> HIDE DEF n, o
<1>5. N \in Seq(Byte) /\ O \in Seq(Byte) /\ At \in Byte /\ Comma \in Byte /\ Ends(At) /\ Ends(Comma)
  BY <1>4, DigitsType, Terminators DEF Ends
<1>6. Written(c) = ((N \o <<At>>) \o O) \o <<Comma>>
  BY <1>4 DEF Written
<1> HIDE DEF N, O
<1>7. <<At>> \in Seq(Byte) /\ <<Comma>> \in Seq(Byte) /\ Len(<<At>>) = 1 /\ Len(<<Comma>>) = 1
  <2> HIDE DEF Byte
  <2> QED BY <1>5
<1>8. N \o <<At>> \in Seq(Byte) /\ (N \o <<At>>) \o O \in Seq(Byte)
  <2> HIDE DEF Byte
  <2> QED BY <1>5, <1>7
<1>9. /\ Len(N) \in Nat /\ Len(O) \in Nat /\ Len(N \o <<At>>) = Len(N) + 1
      /\ Len((N \o <<At>>) \o O) = Len(N) + 1 + Len(O)
      /\ Len(Written(c)) = Len(N) + 1 + Len(O) + 1
  <2> HIDE DEF Byte
  <2> QED BY <1>5, <1>6, <1>7, <1>8
<1>10. p \in Nat /\ q \in Nat /\ q + 1 \in Nat /\ x \in Nat /\ p + Len(N \o <<At>>) = q + 1
       /\ p + Len((N \o <<At>>) \o O) = x /\ p + Len(N) = q /\ p + Len(Written(c)) = x + 1
  BY <1>9
<1> HIDE DEF q, x
<1> DEFINE y == q + 1
<1>20. y = p + Len(N \o <<At>>)
  BY <1>10
<1> HIDE DEF y
<1>11. Holds(d, p, (N \o <<At>>) \o O) /\ Holds(d, x, <<Comma>>)
  <2> DEFINE A == (N \o <<At>>) \o O
             B == <<Comma>>
  <2>1. A \in Seq(Byte) /\ B \in Seq(Byte) /\ Holds(d, p, A \o B) /\ x = p + Len(A)
    BY <1>6, <1>7, <1>8, <1>10
  <2> HIDE DEF A, B
  <2>2. Holds(d, p, A) /\ Holds(d, x, B)
    BY <1>10, <2>1, HoldsParts
  <2> QED BY <2>2 DEF A, B
<1>12. Holds(d, p, N \o <<At>>) /\ Holds(d, y, O)
  BY <1>5, <1>8, <1>10, <1>11, <1>20, HoldsParts
<1>21. Holds(d, p, N) /\ Holds(d, q, <<At>>)
  BY <1>5, <1>7, <1>10, <1>12, HoldsParts
<1>13. GetInt(d, p) = [v |-> n, next |-> q, bad |-> FALSE] /\ q <= Len(d) /\ d[q] = At
  BY <1>4, <1>5, <1>10, <1>21, ReadsWritten DEF N
<1>14. y \in 1 .. Len(d) + 1 /\ x = y + Len(O) /\ y = q + 1
  BY <1>10, <1>13 DEF x, y
<1>15. GetInt(d, q + 1) = [v |-> o, next |-> x, bad |-> FALSE] /\ x <= Len(d) /\ d[x] = Comma
  <2>2. Holds(d, y, Digits(o)) /\ Holds(d, y + Len(Digits(o)), <<Comma>>) /\ x = y + Len(Digits(o))
    BY <1>11, <1>12, <1>14 DEF O
  <2>3. y \in 1 .. Len(d) + 1
    BY <1>14
  <2>1. GetInt(d, y) = [v |-> o, next |-> x, bad |-> FALSE] /\ x <= Len(d) /\ d[x] = Comma
    BY <1>4, <1>5, <2>2, <2>3, ReadsWritten
  <2> QED BY <1>14, <2>1
<1>16. p + Len(Written(c)) = x + 1
  BY <1>10
<1>17. Command(source, limit, d, p, out) = CopyCommand(source, limit, d, q, c.count, out)
  <2> DEFINE G == GetInt(d, p)
  <2>1. G.v = n /\ G.next = q /\ ~G.bad /\ ~(q > Len(d)) /\ d[q] = At
    BY <1>10, <1>13
  <2>2. Command(source, limit, d, p, out) =
          IF G.bad \/ G.next > Len(d) THEN Stop(Error)
          ELSE CASE d[G.next] = At        -> CopyCommand(source, limit, d, G.next, Size(G.v), out)
                 [] d[G.next] = Colon     -> InsertCommand(limit, d, G.next, Size(G.v), out)
                 [] d[G.next] = Semicolon -> ChecksumCommand(limit, G.v, out)
                 [] OTHER                 -> Stop(Error)
    BY DEF Command
  <2> HIDE DEF G
  <2> QED BY <1>4, <2>1, <2>2 DEF At, Colon, Semicolon
<1>18. ~(Len(out) + c.count > limit) /\ ~(c.offset + c.count > Len(source))
  BY <1>1, <1>2
<1>19. CopyCommand(source, limit, d, q, c.count, out) = Continue(x + 1, out \o Copied(source, c.offset, c.count))
  BY <1>4, <1>15, <1>18 DEF CopyCommand
<1> QED BY <1>2, <1>16, <1>17, <1>19

\* A piece of d.
LEMMA CopiedOut ==
  ASSUME NEW d \in Seq(Byte), NEW q \in Nat, NEW n \in Nat, NEW s \in Seq(Byte), Len(s) = n,
         q + 1 + n <= Len(d) + 1, \A j \in 1 .. n : d[q + 1 + j - 1] = s[j]
  PROVE  SubSeq(d, q + 1, q + n) = s
<1> DEFINE t == SubSeq(d, q + 1, q + n)
<1>1. \A i \in q + 1 .. q + n : d[i] \in Byte
  <2> HIDE DEF Byte
  <2> QED OBVIOUS
<1>2. t \in Seq(Byte)
  BY <1>1, SubSeqProperties
<1>3. Len(t) = n /\ \A i \in 1 .. n : t[i] = d[q + 1 + i - 1]
  <2> DEFINE x == q + 1
             y == q + n
  <2>1. x \in Int /\ y \in Int
    OBVIOUS
  <2>2. Len(t) = (IF x <= y THEN y - x + 1 ELSE 0) /\ \A i \in 1 .. y - x + 1 : t[i] = d[x + i - 1]
    <3>1. \A i \in x .. y : d[i] \in Byte
      BY <1>1
    <3> HIDE DEF x, y, Byte
    <3>2. Len(SubSeq(d, x, y)) = (IF x <= y THEN y - x + 1 ELSE 0)
          /\ \A i \in 1 .. y - x + 1 : SubSeq(d, x, y)[i] = d[x + i - 1]
      BY <2>1, <3>1, SubSeqProperties
    <3> QED BY <3>2 DEF x, y
  <2>3. y - x + 1 = n /\ (IF x <= y THEN y - x + 1 ELSE 0) = n
    OBVIOUS
  <2> HIDE DEF t
  <2> QED BY <2>2, <2>3
<1> HIDE DEF t
<1>4. t = s
  BY <1>2, <1>3, SeqEqual
<1> QED BY <1>4 DEF t

\* The same for an insertion.
LEMMA InsertRuns ==
  ASSUME NEW source \in Text, NEW d \in Seq(Byte), NEW limit \in Nat, limit < Half,
         NEW p \in 1 .. Len(d) + 1, NEW out \in Seq(Byte),
         NEW c \in CommandsOn(source), c.kind # "copy", Len(out) + c.count <= limit,
         Holds(d, p, Written(c))
  PROVE  Command(source, limit, d, p, out) = Continue(p + Len(Written(c)), out \o Said(source, c))
<1> DEFINE n == [hi |-> 0, lo |-> c.count]
           N == Digits(n)
           q == p + Len(N)
           bytes == c.bytes
<1>1. source \in Seq(Byte) /\ Len(out) \in Nat
  BY DEF Text
<1>2. c.count \in Nat /\ bytes \in Seq(Byte) /\ Said(source, c) = bytes /\ Len(bytes) = c.count
  BY <1>1, CommandsAre
<1>3. c.count < Half
  <2> DEFINE i == c.count
  <2>1. i \in Int /\ Len(out) + i <= limit
    BY <1>2
  <2> HIDE DEF i
  <2>2. i < Half
    BY <1>1, <2>1, Halves
  <2> QED BY <2>2 DEF i
<1>4. n \in Word /\ Number(c.count) = N /\ Size(n) = c.count
  BY <1>2, <1>3, NumbersAre
<1> HIDE DEF n
<1>5. N \in Seq(Byte) /\ Colon \in Byte /\ Ends(Colon)
  BY <1>4, DigitsType, Terminators DEF Ends
<1>6. Written(c) = (N \o <<Colon>>) \o bytes
  BY <1>4 DEF Written
<1> HIDE DEF N, bytes
<1>7. <<Colon>> \in Seq(Byte) /\ Len(<<Colon>>) = 1
  <2> HIDE DEF Byte
  <2> QED BY <1>5
<1>8. N \o <<Colon>> \in Seq(Byte)
  <2> HIDE DEF Byte
  <2> QED BY <1>5, <1>7
<1>9. /\ Len(N) \in Nat /\ Len(bytes) \in Nat /\ Len(N \o <<Colon>>) = Len(N) + 1
      /\ Len(Written(c)) = Len(N) + 1 + Len(bytes)
  <2>1. Len(N) \in Nat /\ Len(bytes) \in Nat /\ Len(N \o <<Colon>>) = Len(N) + 1
    <3> HIDE DEF Byte
    <3> QED BY <1>2, <1>5, <1>7
  <2>2. Len((N \o <<Colon>>) \o bytes) = Len(N \o <<Colon>>) + Len(bytes)
    <3> DEFINE A == N \o <<Colon>>
    <3>1. A \in Seq(Byte)
      BY <1>8
    <3> HIDE DEF Byte, A
    <3>2. Len(A \o bytes) = Len(A) + Len(bytes)
      BY <1>2, <3>1, ConcatProperties
    <3> QED BY <3>2 DEF A
  <2> QED BY <1>6, <2>1, <2>2
<1>10. p \in Nat /\ q \in Nat /\ p + Len(N \o <<Colon>>) = q + 1 /\ p + Len(N) = q
       /\ p + Len(Written(c)) = q + 1 + Len(bytes)
  BY <1>9
<1> HIDE DEF q
<1> DEFINE y == q + 1
<1>20. y = p + Len(N \o <<Colon>>) /\ y = q + 1
  BY <1>10
<1> HIDE DEF y
<1>11. Holds(d, p, N \o <<Colon>>) /\ Holds(d, y, bytes)
  <2> DEFINE A == N \o <<Colon>>
  <2>1. A \in Seq(Byte) /\ Holds(d, p, A \o bytes) /\ y = p + Len(A)
    BY <1>6, <1>8, <1>20
  <2> HIDE DEF A
  <2>2. Holds(d, p, A) /\ Holds(d, y, bytes)
    BY <1>2, <1>10, <2>1, HoldsParts
  <2> QED BY <2>2 DEF A
<1>21. Holds(d, p, N) /\ Holds(d, q, <<Colon>>)
  BY <1>5, <1>7, <1>10, <1>11, HoldsParts
<1>12. GetInt(d, p) = [v |-> n, next |-> q, bad |-> FALSE] /\ q <= Len(d) /\ d[q] = Colon /\ q \in Nat
  BY <1>4, <1>5, <1>10, <1>21, ReadsWritten DEF N
<1>13. p + Len(Written(c)) = q + 1 + c.count
  BY <1>2, <1>10
<1>14. q + 1 + c.count <= Len(d) + 1 /\ \A j \in 1 .. c.count : d[q + 1 + j - 1] = bytes[j]
  <2>1. y + c.count <= Len(d) + 1 /\ \A j \in 1 .. c.count : d[y + j - 1] = bytes[j]
    BY <1>2, <1>11 DEF Holds
  <2> QED BY <1>20, <2>1
<1>15. SubSeq(d, q + 1, q + c.count) = bytes
  <2> DEFINE k == c.count
  <2>1. /\ k \in Nat /\ bytes \in Seq(Byte) /\ Len(bytes) = k /\ q \in Nat /\ q + 1 + k <= Len(d) + 1
        /\ \A j \in 1 .. k : d[q + 1 + j - 1] = bytes[j]
    BY <1>2, <1>12, <1>14
  <2> HIDE DEF k
  <2>2. SubSeq(d, q + 1, q + k) = bytes
    <3> HIDE DEF Byte
    <3> QED BY <2>1, CopiedOut
  <2> QED BY <2>2 DEF k
<1>16. Command(source, limit, d, p, out) = InsertCommand(limit, d, q, c.count, out)
  BY <1>4, <1>12 DEF Command, At, Colon, Semicolon
<1>17. ~(Len(out) + c.count > limit) /\ ~(q + c.count > Len(d))
  BY <1>1, <1>2, <1>12, <1>14
<1>18. InsertCommand(limit, d, q, c.count, out) = Continue(q + 1 + c.count, out \o bytes)
  BY <1>15, <1>17 DEF InsertCommand
<1> QED BY <1>2, <1>13, <1>16, <1>18

\* The sequences, put one after the other.
Joins(flat, seqs) ==
  /\ flat[0] = <<>>
  /\ \A k \in 1 .. Len(seqs) : flat[k] = flat[k - 1] \o seqs[k]
  /\ \A k \in 0 .. Len(seqs) : flat[k] \in Seq(Byte)
  /\ FlattenSeq(seqs) = flat[Len(seqs)]

\* Sequences are put together one after the other.
LEMMA FlattenUnfolds ==
  ASSUME NEW seqs \in Seq(Seq(Byte))
  PROVE  \E flat : Joins(flat, seqs)
<1> DEFINE n == Len(seqs)
           Steps(m, g) == g = [k \in 1 .. m |-> IF k = 1 THEN seqs[k] ELSE g[k - 1] \o seqs[k]]
           S == {m \in 0 .. n : \E g : Steps(m, g)}
<1>1. n \in Nat /\ \A k \in 1 .. n : seqs[k] \in Seq(Byte)
  OBVIOUS
<1> HIDE DEF n
<1>2. 0 \in S
  <2> DEFINE g == [k \in 1 .. 0 |-> <<>>]
  <2>1. Steps(0, g)
    OBVIOUS
  <2> HIDE DEF g, Steps
  <2> QED BY <1>1, <2>1
<1>3. ASSUME NEW m \in 1 .. n, m - 1 \in S
      PROVE  m \in S
  <2>1. PICK g : Steps(m - 1, g)
    BY <1>3
  <2> DEFINE step(k, f) == IF k = 1 THEN seqs[k] ELSE f[k - 1] \o seqs[k]
             h == [k \in 1 .. m |-> IF k = m THEN step(m, g) ELSE g[k]]
  <2>2. ASSUME NEW k \in 1 .. m
        PROVE  h[k] = step(k, h)
    <3>1. CASE k = m
      <4>1. h[m] = step(m, g)
        BY <1>1
      <4>2. m # 1 => h[m - 1] = g[m - 1]
        BY <1>1
      <4> HIDE DEF h
      <4> QED BY <3>1, <4>1, <4>2
    <3>2. CASE k # m
      <4>1. k \in 1 .. m - 1 /\ h[k] = g[k]
        BY <3>2
      <4>2. k # 1 => h[k - 1] = g[k - 1]
        BY <3>2
      <4>3. g[k] = step(k, g)
        <5> DEFINE copy == [i \in 1 .. m - 1 |-> step(i, g)]
        <5>1. g = copy
          BY <2>1
        <5>2. copy[k] = step(k, g)
          <6> HIDE DEF step
          <6> QED BY <4>1
        <5> HIDE DEF copy, step
        <5> QED BY <5>1, <5>2
      <4> HIDE DEF h
      <4> QED BY <4>1, <4>2, <4>3
    <3> QED BY <3>1, <3>2
  <2>3. h = [k \in 1 .. m |-> step(k, h)]
    <3>1. h = [k \in 1 .. m |-> h[k]]
      OBVIOUS
    <3> HIDE DEF h, step
    <3> QED BY <2>2, <3>1
  <2>4. Steps(m, h)
    BY <2>3
  <2> HIDE DEF h, Steps, step
  <2> QED BY <2>4
<1>4. PICK g : Steps(n, g)
  <2> HIDE DEF S
  <2>1. 0 .. n \subseteq S
    BY <1>1, <1>2, <1>3, UpTo
  <2>2. n \in S
    BY <1>1, <2>1
  <2> QED BY <2>2 DEF S
<1> DEFINE flatten == CHOOSE f : Steps(n, f)
           flat == [k \in 0 .. n |-> IF k = 0 THEN <<>> ELSE flatten[k]]
<1>5. Steps(n, flatten)
  BY <1>4
<1>6. n # 0 => FlattenSeq(seqs) = flatten[n]
  BY DEF FlattenSeq, n
<1> HIDE DEF flatten
<1>7. ASSUME NEW k \in 1 .. n
      PROVE  flatten[k] = IF k = 1 THEN seqs[k] ELSE flatten[k - 1] \o seqs[k]
  <2> DEFINE step(i, f) == IF i = 1 THEN seqs[i] ELSE f[i - 1] \o seqs[i]
             copy == [i \in 1 .. n |-> step(i, flatten)]
  <2>1. flatten = copy
    BY <1>5
  <2>2. copy[k] = step(k, flatten)
    <3> HIDE DEF step
    <3> QED OBVIOUS
  <2> HIDE DEF copy, step
  <2>3. flatten[k] = step(k, flatten)
    BY <2>1, <2>2
  <2> QED BY <2>3 DEF step
<1>8. flat[0] = <<>> /\ \A k \in 1 .. n : flat[k] = flatten[k]
  BY <1>1
<1> HIDE DEF flat
<1>9. ASSUME NEW k \in 1 .. n PROVE flat[k] = flat[k - 1] \o seqs[k]
  <2>1. CASE k = 1
    <3>1. <<>> \o seqs[k] = seqs[k]
      BY <1>1, ConcatEmptySeq
    <3>2. flat[k - 1] = <<>> /\ flat[k] = flatten[k]
      BY <1>8, <2>1
    <3> QED BY <1>7, <2>1, <3>1, <3>2
  <2>2. CASE k # 1
    <3>1. k - 1 \in 1 .. n
      BY <1>1, <2>2
    <3>2. flat[k] = flatten[k] /\ flat[k - 1] = flatten[k - 1]
      BY <1>8, <3>1
    <3> QED BY <1>7, <2>2, <3>2
  <2> QED BY <2>1, <2>2
<1>10. \A k \in 0 .. n : flat[k] \in Seq(Byte)
  <2> DEFINE T == {k \in 0 .. n : flat[k] \in Seq(Byte)}
  <2>1. 0 \in T
    <3>1. <<>> \in Seq(Byte)
      BY EmptySeq
    <3>2. 0 \in 0 .. n
      BY <1>1
    <3>3. flat[0] \in Seq(Byte)
      BY <1>8, <3>1
    <3> QED BY <3>2, <3>3
  <2>2. ASSUME NEW k \in 1 .. n, k - 1 \in T PROVE k \in T
    <3>1. flat[k] = flat[k - 1] \o seqs[k] /\ flat[k - 1] \in Seq(Byte) /\ seqs[k] \in Seq(Byte)
      BY <1>1, <1>9, <2>2
    <3>2. flat[k] \in Seq(Byte)
      BY <3>1, ConcatProperties
    <3> QED BY <3>2
  <2>3. 0 .. n \subseteq T
    <3> HIDE DEF T
    <3> QED BY <1>1, <2>1, <2>2, UpTo
  <2> QED BY <2>3
<1>11. FlattenSeq(seqs) = flat[n]
  <2>1. CASE n # 0
    <3>1. n \in 1 .. n
      BY <1>1, <2>1
    <3> QED BY <1>6, <1>8, <2>1, <3>1
  <2>2. CASE n = 0
    <3>1. FlattenSeq(seqs) = seqs
      BY <2>2 DEF FlattenSeq, n
    <3>2. seqs = <<>>
      BY <2>2 DEF n
    <3> QED BY <1>8, <2>2, <3>1, <3>2
  <2> QED BY <2>1, <2>2
<1> QED BY <1>8, <1>9, <1>10, <1>11 DEF Joins, n

\* Either command is carried out as it was meant.
LEMMA CommandRuns ==
  ASSUME NEW source \in Text, NEW d \in Seq(Byte), NEW limit \in Nat, limit < Half,
         NEW p \in 1 .. Len(d) + 1, NEW out \in Seq(Byte),
         NEW c \in CommandsOn(source), Len(out) + c.count <= limit, Holds(d, p, Written(c))
  PROVE  Command(source, limit, d, p, out) = Continue(p + Len(Written(c)), out \o Said(source, c))
<1>1. CASE c.kind = "copy"
  BY <1>1, CopyRuns
<1>2. CASE c.kind # "copy"
  BY <1>2, InsertRuns
<1> QED BY <1>1, <1>2

\* What the commands say, one after the other, and that it never exceeds what they say in all.
LEMMA SaidSoFar ==
  ASSUME NEW source \in Text, NEW commands \in Seq(CommandsOn(source)), Meaning(source, commands) \in Text
  PROVE  \E M : /\ M[0] = <<>> /\ M[Len(commands)] = Meaning(source, commands)
                /\ \A k \in 0 .. Len(commands) :
                     M[k] \in Seq(Byte) /\ Len(M[k]) <= Len(Meaning(source, commands))
                /\ \A k \in 1 .. Len(commands) :
                     /\ M[k] = M[k - 1] \o Said(source, commands[k])
                     /\ Len(M[k]) = Len(M[k - 1]) + commands[k].count
                     /\ commands[k].count \in Nat /\ commands[k].count < Half
<1> DEFINE n == Len(commands)
           said == [k \in DOMAIN commands |-> Said(source, commands[k])]
           target == Meaning(source, commands)
<1>1. n \in Nat /\ DOMAIN commands = 1 .. n /\ \A k \in 1 .. n : commands[k] \in CommandsOn(source)
  OBVIOUS
<1>2. source \in Seq(Byte)
  BY DEF Text
<1>3. \A k \in 1 .. n : /\ Said(source, commands[k]) \in Seq(Byte)
                        /\ commands[k].count \in Nat /\ Len(Said(source, commands[k])) = commands[k].count
  BY <1>1, <1>2, CommandsAre
<1>4. said \in Seq(Seq(Byte)) /\ Len(said) = n /\ \A k \in 1 .. n : said[k] = Said(source, commands[k])
  <2> HIDE DEF n
  <2> QED BY <1>1, <1>3
<1>5. target = FlattenSeq(said)
  BY DEF Meaning, Said
<1> HIDE DEF said
<1>6. PICK M : Joins(M, said)
  BY <1>4, FlattenUnfolds
<1> HIDE DEF n, target
<1>7. /\ M[0] = <<>> /\ M[n] = target /\ \A k \in 0 .. n : M[k] \in Seq(Byte)
      /\ \A k \in 1 .. n : M[k] = M[k - 1] \o Said(source, commands[k])
  BY <1>4, <1>5, <1>6 DEF Joins
<1>8. ASSUME NEW k \in 1 .. n
      PROVE  Len(M[k]) = Len(M[k - 1]) + commands[k].count /\ Len(M[k]) \in Nat /\ Len(M[k - 1]) \in Nat
  <2> DEFINE x == M[k - 1]
             y == Said(source, commands[k])
  <2>3. k - 1 \in 0 .. n
    BY <1>1
  <2>1. x \in Seq(Byte) /\ y \in Seq(Byte) /\ M[k] = x \o y /\ Len(y) = commands[k].count
    BY <1>3, <1>7, <2>3
  <2> HIDE DEF x, y
  <2>2. Len(x \o y) = Len(x) + Len(y) /\ Len(x) \in Nat /\ Len(y) \in Nat
    BY <2>1, ConcatProperties, LenProperties
  <2> QED BY <2>1, <2>2 DEF x
<1> DEFINE S == {i \in 0 .. n : Len(M[n - i]) <= Len(target)}
<1>9. 0 \in S
  <2>1. n - 0 = n /\ Len(target) \in Nat
    BY <1>1, <1>7
  <2> QED BY <1>1, <1>7, <2>1
<1>10. ASSUME NEW i \in 1 .. n, i - 1 \in S
       PROVE  i \in S
  <2> DEFINE k == n - (i - 1)
  <2>1. k \in 1 .. n /\ k - 1 = n - i
    BY <1>1
  <2>2. Len(M[k]) <= Len(target)
    BY <1>10
  <2> HIDE DEF k
  <2>3. commands[k].count \in Nat /\ Len(target) \in Nat
    BY <1>1, <1>3, <1>7, <2>1
  <2> DEFINE x == Len(M[k])
             y == Len(M[k - 1])
             z == commands[k].count
  <2>4. x = y + z /\ x \in Nat /\ y \in Nat /\ z \in Nat /\ x <= Len(target)
    BY <1>8, <2>1, <2>2, <2>3
  <2> HIDE DEF x, y, z
  <2>5. y <= Len(target)
    BY <2>3, <2>4
  <2>6. Len(M[n - i]) <= Len(target)
    BY <2>1, <2>5 DEF y
  <2> QED BY <2>6
<1>11. ASSUME NEW k \in 0 .. n PROVE Len(M[k]) <= Len(target)
  <2> HIDE DEF S
  <2>1. 0 .. n \subseteq S
    BY <1>1, <1>9, <1>10, UpTo
  <2>2. n - k \in S /\ n - (n - k) = k
    BY <1>1, <2>1
  <2> USE DEF S
  <2>3. Len(M[n - (n - k)]) <= Len(target)
    BY <2>2
  <2> QED BY <2>2, <2>3
<1>12. ASSUME NEW k \in 1 .. n PROVE commands[k].count < Half
  <2> DEFINE x == Len(M[k])
             y == Len(M[k - 1])
             z == commands[k].count
             t == Len(target)
  <2>1. x = y + z /\ x \in Nat /\ y \in Nat /\ z \in Nat /\ x <= t /\ t \in Nat /\ t < Half
    <3>1. k \in 0 .. n /\ k - 1 \in 0 .. n
      BY <1>1
    <3>2. x = y + z /\ z \in Nat /\ x <= t
      BY <1>3, <1>7, <1>8, <1>11, <3>1
    <3>3. x \in Nat /\ y \in Nat
      BY <1>3, <1>7, <1>8, <3>1, LenProperties
    <3>4. t \in Nat /\ t < Half
      BY LenProperties DEF Text, target
    <3> QED BY <3>2, <3>3, <3>4
  <2> HIDE DEF x, y, z, t
  <2>2. z < Half
    BY <2>1, Halves
  <2> QED BY <2>2 DEF z
<1> QED BY <1>3, <1>7, <1>8, <1>11, <1>12 DEF n, target

\* Where each command of a delta stands.
LEMMA WrittenSoFar ==
  ASSUME NEW source \in Text, NEW commands \in Seq(CommandsOn(source)),
         \A k \in 1 .. Len(commands) : commands[k].count < Half,
         NEW d \in Seq(Byte), NEW b \in Nat,
         Holds(d, b, FlattenSeq([k \in DOMAIN commands |-> Written(commands[k])]))
  PROVE  \E W : /\ W[0] = <<>>
                /\ W[Len(commands)] = FlattenSeq([k \in DOMAIN commands |-> Written(commands[k])])
                /\ \A k \in 0 .. Len(commands) : W[k] \in Seq(Byte)
                /\ \A k \in 1 .. Len(commands) :
                     /\ Holds(d, b + Len(W[k - 1]), Written(commands[k]))
                     /\ Len(W[k]) = Len(W[k - 1]) + Len(Written(commands[k]))
                     /\ Len(Written(commands[k])) \in Nat
<1> DEFINE n == Len(commands)
           written == [k \in DOMAIN commands |-> Written(commands[k])]
<1>1. n \in Nat /\ DOMAIN commands = 1 .. n /\ \A k \in 1 .. n : commands[k] \in CommandsOn(source)
  OBVIOUS
<1>2. \A k \in 1 .. n : Written(commands[k]) \in Seq(Byte)
  BY <1>1, WrittenType
<1>3. written \in Seq(Seq(Byte)) /\ Len(written) = n /\ \A k \in 1 .. n : written[k] = Written(commands[k])
  <2> HIDE DEF n
  <2> QED BY <1>1, <1>2
<1>4. Holds(d, b, FlattenSeq(written))
  OBVIOUS
<1> HIDE DEF written
<1>5. PICK W : Joins(W, written)
  BY <1>3, FlattenUnfolds
<1> HIDE DEF n
<1>6. /\ W[0] = <<>> /\ W[n] = FlattenSeq(written) /\ \A k \in 0 .. n : W[k] \in Seq(Byte)
      /\ \A k \in 1 .. n : W[k] = W[k - 1] \o Written(commands[k])
  BY <1>3, <1>5 DEF Joins
<1> DEFINE S == {i \in 0 .. n : Holds(d, b, W[n - i])}
<1>7. ASSUME NEW k \in 1 .. n, Holds(d, b, W[k])
      PROVE  Holds(d, b, W[k - 1]) /\ Holds(d, b + Len(W[k - 1]), Written(commands[k]))
  <2> DEFINE x == W[k - 1]
             y == Written(commands[k])
             q == b + Len(x)
  <2>3. k - 1 \in 0 .. n
    BY <1>1
  <2>1. x \in Seq(Byte) /\ y \in Seq(Byte) /\ W[k] = x \o y
    BY <1>2, <1>6, <2>3
  <2> HIDE DEF x, y, q
  <2>2. Holds(d, b, x) /\ Holds(d, q, y)
    BY <1>7, <2>1, HoldsParts DEF q
  <2> QED BY <2>2 DEF x, y, q
<1>8. 0 \in S
  <2>1. n - 0 = n
    BY <1>1
  <2> QED BY <1>1, <1>4, <1>6, <2>1
<1>9. ASSUME NEW i \in 1 .. n, i - 1 \in S
      PROVE  i \in S
  <2> DEFINE k == n - (i - 1)
  <2>1. k \in 1 .. n /\ k - 1 = n - i
    BY <1>1
  <2>2. Holds(d, b, W[k])
    BY <1>9
  <2> HIDE DEF k
  <2>3. Holds(d, b, W[n - i])
    BY <1>7, <2>1, <2>2
  <2> QED BY <2>3
<1>10. ASSUME NEW k \in 1 .. n
       PROVE  Holds(d, b + Len(W[k - 1]), Written(commands[k]))
  <2> HIDE DEF S
  <2>1. 0 .. n \subseteq S
    BY <1>1, <1>8, <1>9, UpTo
  <2>2. n - k \in S /\ n - (n - k) = k
    BY <1>1, <2>1
  <2> USE DEF S
  <2>3. Holds(d, b, W[n - (n - k)])
    BY <2>2
  <2> QED BY <1>7, <2>2, <2>3
<1>11. ASSUME NEW k \in 1 .. n
       PROVE  Len(W[k]) = Len(W[k - 1]) + Len(Written(commands[k])) /\ Len(Written(commands[k])) \in Nat
  <2> DEFINE x == W[k - 1]
             y == Written(commands[k])
  <2>3. k - 1 \in 0 .. n
    BY <1>1
  <2>1. x \in Seq(Byte) /\ y \in Seq(Byte) /\ W[k] = x \o y
    BY <1>2, <1>6, <2>3
  <2> HIDE DEF x, y
  <2>2. Len(x \o y) = Len(x) + Len(y) /\ Len(y) \in Nat
    BY <2>1, ConcatProperties, LenProperties
  <2> QED BY <2>1, <2>2 DEF x, y
<1> QED BY <1>6, <1>10, <1>11 DEF n, written

\* Two sequences put together.
LEMMA Concatenated ==
  ASSUME NEW s \in Seq(Byte), NEW t \in Seq(Byte)
  PROVE  s \o t \in Seq(Byte) /\ Len(s \o t) = Len(s) + Len(t) /\ Len(s) \in Nat /\ Len(t) \in Nat
BY ConcatProperties, LenProperties

\* Five sequences put together, and where each of them is.
LEMMA FiveParts ==
  ASSUME NEW s1 \in Seq(Byte), NEW s2 \in Seq(Byte), NEW s3 \in Seq(Byte), NEW s4 \in Seq(Byte),
         NEW s5 \in Seq(Byte)
  PROVE  LET d == s1 \o s2 \o s3 \o s4 \o s5
         IN  /\ d \in Seq(Byte) /\ Holds(d, 1, s1) /\ Holds(d, 1 + Len(s1), s2)
             /\ Holds(d, 1 + Len(s1) + Len(s2), s3) /\ Holds(d, 1 + Len(s1) + Len(s2) + Len(s3), s4)
             /\ Holds(d, 1 + Len(s1) + Len(s2) + Len(s3) + Len(s4), s5)
<1> DEFINE x == s1 \o s2
           y == x \o s3
           z == y \o s4
           d == z \o s5
           p1 == 1
           p2 == 1 + Len(s1)
           p3 == 1 + Len(s1) + Len(s2)
           p4 == 1 + Len(s1) + Len(s2) + Len(s3)
           p5 == 1 + Len(s1) + Len(s2) + Len(s3) + Len(s4)
<1>1. Len(s1) \in Nat /\ Len(s2) \in Nat /\ Len(s3) \in Nat /\ Len(s4) \in Nat
  BY LenProperties
<1>2. x \in Seq(Byte) /\ Len(x) = Len(s1) + Len(s2)
  BY Concatenated
<1>3. d = z \o s5 /\ z = y \o s4 /\ y = x \o s3 /\ x = s1 \o s2
  OBVIOUS
<1> HIDE DEF x
<1>4. y \in Seq(Byte) /\ Len(y) = Len(x) + Len(s3)
  BY <1>2, Concatenated
<1> HIDE DEF y
<1>5. z \in Seq(Byte) /\ Len(z) = Len(y) + Len(s4)
  BY <1>4, Concatenated
<1> HIDE DEF z, d
<1>6. d \in Seq(Byte)
  BY <1>3, <1>5, Concatenated
<1>7. p5 = p1 + Len(z) /\ p4 = p1 + Len(y) /\ p3 = p1 + Len(x) /\ p2 = p1 + Len(s1) /\ p1 \in Nat
  BY <1>1, <1>2, <1>4, <1>5
<1> HIDE DEF p2, p3, p4, p5
<1>8. Holds(d, p1, z \o s5)
  BY <1>3, <1>6, HoldsItself
<1> HIDE DEF p1
<1>9. Holds(d, p1, z) /\ Holds(d, p5, s5)
  BY <1>5, <1>6, <1>7, <1>8, HoldsParts
<1>10. Holds(d, p1, y) /\ Holds(d, p4, s4)
  BY <1>3, <1>4, <1>6, <1>7, <1>9, HoldsParts
<1>11. Holds(d, p1, x) /\ Holds(d, p3, s3)
  BY <1>2, <1>3, <1>6, <1>7, <1>10, HoldsParts
<1>12. Holds(d, p1, s1) /\ Holds(d, p2, s2)
  BY <1>3, <1>6, <1>7, <1>11, HoldsParts
<1> QED BY <1>6, <1>9, <1>10, <1>11, <1>12 DEF d, z, y, x, p1, p2, p3, p4, p5

\* What the last command of a delta leads to.
LEMMA ChecksumRuns ==
  ASSUME NEW source, NEW d \in Seq(Byte), NEW p \in 1 .. Len(d) + 1, NEW out \in Seq(Byte),
         Holds(d, p, Digits(WordSum(out))), Holds(d, p + Len(Digits(WordSum(out))), <<Semicolon>>)
  PROVE  p <= Len(d) /\ Command(source, Len(out), d, p, out) = Stop(Ok(out))
<1> DEFINE w == WordSum(out)
           q == p + Len(Digits(w))
           G == GetInt(d, p)
<1>1. w \in Word /\ w = Checksum(out)
  BY ChecksumIsWordSum
<1>2. Ends(Semicolon)
  BY Terminators
<1> HIDE DEF w
<1>3. /\ q <= Len(d) /\ d[q] = Semicolon /\ Len(Digits(w)) \in Nat
      /\ G = [v |-> w, next |-> q, bad |-> FALSE]
  BY <1>1, <1>2, ReadsWritten DEF w
<1>4. p <= Len(d) /\ q \in Nat
  BY <1>3
<1>5. G.v = w /\ G.next = q /\ ~G.bad /\ ~(q > Len(d))
  BY <1>3, <1>4
<1>6. Command(source, Len(out), d, p, out) =
        IF G.bad \/ G.next > Len(d) THEN Stop(Error)
        ELSE CASE d[G.next] = At        -> CopyCommand(source, Len(out), d, G.next, Size(G.v), out)
               [] d[G.next] = Colon     -> InsertCommand(Len(out), d, G.next, Size(G.v), out)
               [] d[G.next] = Semicolon -> ChecksumCommand(Len(out), G.v, out)
               [] OTHER                 -> Stop(Error)
  BY DEF Command
<1> HIDE DEF G, q
<1>7. Command(source, Len(out), d, p, out) = ChecksumCommand(Len(out), w, out)
  BY <1>3, <1>5, <1>6 DEF At, Colon, Semicolon
<1> QED BY <1>1, <1>4, <1>7 DEF ChecksumCommand

\* What apply_delta() makes of a delta is what the encoder meant: for any list of copies and
\* insertions over a source below 64 KiB whose meaning is below 64 KiB, the delta the encoder
\* writes decodes to that meaning, with its size and checksum accepted.
THEOREM DeltasDecode ==
  ASSUME NEW source \in Text, NEW commands \in Seq(CommandsOn(source)),
         Meaning(source, commands) \in Text
  PROVE  /\ Encode(source, commands) \in Seq(Byte)
         /\ ApplyDelta(source, Encode(source, commands)) = Ok(Meaning(source, commands))
<1> DEFINE n == Len(commands)
           target == Meaning(source, commands)
           t == Len(target)
           N == Number(t)
           body == FlattenSeq([k \in DOMAIN commands |-> Written(commands[k])])
           D == Digits(WordSum(target))
           d == Encode(source, commands)
           b == 2 + Len(N)
<1>1. source \in Seq(Byte) /\ target \in Seq(Byte) /\ t \in Nat /\ t < Half /\ n \in Nat
  BY DEF Text
<1>2. d = N \o <<Newline>> \o body \o D \o <<Semicolon>>
  BY DEF Encode
<1>3. PICK M : /\ M[0] = <<>> /\ M[n] = target
               /\ \A k \in 0 .. n : M[k] \in Seq(Byte) /\ Len(M[k]) <= t
               /\ \A k \in 1 .. n : /\ M[k] = M[k - 1] \o Said(source, commands[k])
                                    /\ Len(M[k]) = Len(M[k - 1]) + commands[k].count
                                    /\ commands[k].count \in Nat /\ commands[k].count < Half
  BY SaidSoFar
<1> DEFINE w == [hi |-> 0, lo |-> t]
<1>4. w \in Word /\ N = Digits(w) /\ Size(w) = t
  <2> HIDE DEF t
  <2> QED BY <1>1, NumbersAre
<1> HIDE DEF w
<1>5. N \in Seq(Byte) /\ D \in Seq(Byte)
  BY <1>1, <1>4, ChecksumIsWordSum, DigitsType
<1>6. body \in Seq(Byte)
  <2> DEFINE written == [k \in DOMAIN commands |-> Written(commands[k])]
  <2>1. \A k \in 1 .. n : commands[k] \in CommandsOn(source)
    OBVIOUS
  <2>2. \A k \in 1 .. n : Written(commands[k]) \in Seq(Byte)
    BY <1>3, <2>1, WrittenType
  <2>3. DOMAIN commands = 1 .. n
    OBVIOUS
  <2>4. written \in Seq(Seq(Byte))
    <3> HIDE DEF n
    <3> QED BY <1>1, <2>2, <2>3
  <2> HIDE DEF written
  <2>5. PICK flat : Joins(flat, written)
    BY <2>4, FlattenUnfolds
  <2>6. FlattenSeq(written) \in Seq(Byte)
    <3>1. Len(written) \in Nat /\ Len(written) \in 0 .. Len(written)
      BY <2>4
    <3> QED BY <2>5, <3>1 DEF Joins
  <2> QED BY <2>6 DEF written
<1> HIDE DEF d, N, D, target, t
<1>7. /\ d \in Seq(Byte) /\ Holds(d, 1, N) /\ Holds(d, 1 + Len(N), <<Newline>>)
      /\ Holds(d, b, body) /\ Holds(d, b + Len(body), D) /\ Holds(d, b + Len(body) + Len(D), <<Semicolon>>)
  <2> DEFINE nl == <<Newline>>
             sc == <<Semicolon>>
             p2 == 1 + Len(N)
             p4 == b + Len(body)
             p5 == b + Len(body) + Len(D)
  <2>1. nl \in Seq(Byte) /\ sc \in Seq(Byte) /\ Len(nl) = 1
    <3>1. Newline \in Byte /\ Semicolon \in Byte
      BY Terminators DEF Ends
    <3> QED BY <3>1
  <2>2. d = N \o nl \o body \o D \o sc
    BY <1>2
  <2> HIDE DEF nl, sc, body
  <2>3. p2 = 1 + Len(N) /\ b = 1 + Len(N) + Len(nl) /\ p4 = 1 + Len(N) + Len(nl) + Len(body)
        /\ p5 = 1 + Len(N) + Len(nl) + Len(body) + Len(D)
    <3>1. Len(N) \in Nat /\ Len(body) \in Nat /\ Len(D) \in Nat
      BY <1>5, <1>6, LenProperties
    <3> QED BY <2>1, <3>1
  <2>4. /\ d \in Seq(Byte) /\ Holds(d, 1, N) /\ Holds(d, 1 + Len(N), nl)
        /\ Holds(d, 1 + Len(N) + Len(nl), body) /\ Holds(d, 1 + Len(N) + Len(nl) + Len(body), D)
        /\ Holds(d, 1 + Len(N) + Len(nl) + Len(body) + Len(D), sc)
    <3> DEFINE e == N \o nl \o body \o D \o sc
    <3>1. /\ e \in Seq(Byte) /\ Holds(e, 1, N) /\ Holds(e, 1 + Len(N), nl)
          /\ Holds(e, 1 + Len(N) + Len(nl), body) /\ Holds(e, 1 + Len(N) + Len(nl) + Len(body), D)
          /\ Holds(e, 1 + Len(N) + Len(nl) + Len(body) + Len(D), sc)
      BY <1>5, <1>6, <2>1, FiveParts
    <3> HIDE DEF e
    <3>2. d = e
      BY <2>2 DEF e
    <3> QED BY <3>1, <3>2
  <2> HIDE DEF p2, p4, p5, b
  <2>5. Holds(d, p2, nl) /\ Holds(d, b, body) /\ Holds(d, p4, D) /\ Holds(d, p5, sc)
    BY <2>3, <2>4
  <2> QED BY <2>4, <2>5 DEF p2, p4, p5, nl, sc
<1>8. Len(N) \in Nat /\ b \in Nat /\ 1 \in 1 .. Len(d) + 1
  BY <1>5, <1>7
<1>9. PICK W : /\ W[0] = <<>> /\ W[n] = body
               /\ \A k \in 0 .. n : W[k] \in Seq(Byte)
               /\ \A k \in 1 .. n : /\ Holds(d, b + Len(W[k - 1]), Written(commands[k]))
                                    /\ Len(W[k]) = Len(W[k - 1]) + Len(Written(commands[k]))
                                    /\ Len(Written(commands[k])) \in Nat
  <2>1. \A k \in 1 .. n : commands[k].count < Half
    BY <1>3
  <2>2. b \in Nat /\ d \in Seq(Byte) /\ Holds(d, b, body)
    BY <1>7, <1>8
  <2> HIDE DEF b
  <2> QED BY <2>1, <2>2, WrittenSoFar
<1>10. /\ 1 + Len(N) <= Len(d) /\ d[1 + Len(N)] = Newline
       /\ GetInt(d, 1) = [v |-> w, next |-> 1 + Len(N), bad |-> FALSE]
  BY <1>4, <1>7, <1>8, Terminators, ReadsWritten
<1>11. ApplyDelta(source, d) = RunFrom(source, t, d, b)
  <2> DEFINE G == GetInt(d, 1)
  <2>1. G.v = w /\ G.next = 1 + Len(N) /\ ~G.bad /\ ~(G.next > Len(d)) /\ d[G.next] = Newline
    BY <1>8, <1>10
  <2>2. ApplyDelta(source, d) = IF G.bad \/ G.next > Len(d) \/ d[G.next] # Newline
                                THEN Error ELSE RunFrom(source, Size(G.v), d, G.next + 1)
    BY DEF ApplyDelta
  <2> HIDE DEF G
  <2>3. 1 + Len(N) + 1 = b
    BY <1>8
  <2> QED BY <1>4, <2>1, <2>2, <2>3
<1>12. PICK run : /\ RunsBy(run, source, t, d, 1)
                  /\ \A start : RunFrom(source, t, d, start) = run[start][<<>>]
  <2>1. source \in Seq(Byte) /\ d \in Seq(Byte)
    BY <1>1, <1>7
  <2> QED BY <2>1, RunUnfolds
<1> HIDE DEF b, n, body
<1> DEFINE pos(k) == b + Len(W[k])
<1>13. \A k \in 0 .. n : Len(W[k]) \in Nat
  BY <1>9, LenProperties
<1>14. pos(n) \in 1 .. Len(d) + 1 /\ pos(n) <= Len(d) /\ Command(source, t, d, pos(n), target) = Stop(Ok(target))
  <2>1. pos(n) = b + Len(body) /\ pos(n) \in Nat /\ pos(n) > 0
    BY <1>1, <1>8, <1>9, <1>13 DEF b
  <2>2. Holds(d, pos(n), D) /\ Holds(d, pos(n) + Len(D), <<Semicolon>>)
    BY <1>7, <2>1
  <2> HIDE DEF pos
  <2>3. pos(n) \in 1 .. Len(d) + 1
    BY <1>5, <1>7, <2>1, <2>2, LenProperties DEF Holds
  <2> QED BY <1>1, <1>7, <2>2, <2>3, ChecksumRuns DEF D, t
<1> DEFINE Before(k) == pos(k) \in 1 .. Len(d)
<1>15. \A k \in 0 .. n : Before(k)
  <2> DEFINE S == {i \in 0 .. n : Before(n - i)}
  <2>1. 0 \in S
    <3>1. n - 0 = n
      BY <1>1
    <3>2. pos(n) \in 1 .. Len(d)
      <4> HIDE DEF pos
      <4> QED BY <1>14
    <3> QED BY <1>1, <3>1, <3>2
  <2>2. ASSUME NEW i \in 1 .. n, i - 1 \in S PROVE i \in S
    <3> DEFINE k == n - (i - 1)
    <3>1. k \in 1 .. n /\ k - 1 = n - i /\ k \in 0 .. n /\ k - 1 \in 0 .. n
      BY <1>1
    <3>2. Before(k)
      BY <2>2
    <3> HIDE DEF k
    <3>3. pos(k - 1) \in 1 .. Len(d)
      <4> DEFINE x == Len(W[k - 1])
                 y == Len(W[k])
                 z == Len(Written(commands[k]))
      <4>1. y = x + z /\ x \in Nat /\ y \in Nat /\ z \in Nat /\ b + y \in 1 .. Len(d) /\ b \in Nat /\ b > 0
        <5>1. y = x + z /\ x \in Nat /\ y \in Nat /\ z \in Nat
          BY <1>9, <1>13, <3>1
        <5>2. b + y \in 1 .. Len(d)
          BY <3>2
        <5>3. b \in Nat /\ b > 0
          BY <1>8 DEF b
        <5> HIDE DEF x, y, z
        <5> QED BY <5>1, <5>2, <5>3
      <4> HIDE DEF x, y, z
      <4>2. b + x \in 1 .. Len(d)
        BY <4>1
      <4> QED BY <4>2 DEF x
    <3> QED BY <3>1, <3>3
  <2> HIDE DEF S
  <2>3. 0 .. n \subseteq S
    BY <1>1, <2>1, <2>2, UpTo
  <2> TAKE k \in 0 .. n
  <2>4. n - k \in S /\ n - (n - k) = k
    BY <1>1, <2>3
  <2> HIDE DEF Before
  <2>5. Before(n - (n - k))
    BY <2>4 DEF S
  <2> QED BY <2>4, <2>5
<1>16. ASSUME NEW k \in 1 .. n
       PROVE  run[pos(k - 1)][M[k - 1]] = run[pos(k)][M[k]]
  <2> DEFINE p == pos(k - 1)
             out == M[k - 1]
             c == commands[k]
             C == Command(source, t, d, p, out)
  <2>1. k - 1 \in 0 .. n
    BY <1>1
  <2>2. p \in 1 .. Len(d) /\ out \in Seq(Byte) /\ c \in CommandsOn(source)
    BY <1>3, <1>15, <2>1 DEF n
  <2>3. Holds(d, p, Written(c))
    BY <1>9
  <2>4. Len(out) + c.count <= t
    <3>1. k \in 0 .. n
      BY <1>1
    <3>2. Len(M[k]) = Len(out) + c.count /\ Len(M[k]) <= t
      BY <1>3, <3>1
    <3> QED BY <3>2
  <2>5. pos(k) = p + Len(Written(c)) /\ M[k] = out \o Said(source, c)
    <3> DEFINE x == Len(W[k - 1])
               z == Len(Written(commands[k]))
    <3>1. Len(W[k]) = x + z /\ x \in Nat /\ z \in Nat
      BY <1>9, <1>13, <2>1
    <3> HIDE DEF x, z
    <3>2. b + Len(W[k]) = b + x + z
      BY <1>8, <3>1
    <3> QED BY <1>3, <3>2 DEF x, z
  <2> HIDE DEF p, out, c
  <2>6. C = Continue(pos(k), M[k])
    <3>1. p \in 1 .. Len(d) + 1
      BY <2>2
    <3>2. C = Continue(p + Len(Written(c)), out \o Said(source, c))
      BY <1>1, <1>7, <2>2, <2>3, <2>4, <3>1, CommandRuns
    <3> QED BY <2>5, <3>2
  <2>7. C.more /\ C.next = pos(k) /\ C.out = M[k]
    BY <2>6 DEF Continue
  <2>8. run[p][out] = After(run, source, t, d, p, out)
    <3>1. p \in 1 .. Len(d) + 2
      BY <2>2
    <3> QED BY <1>12, <2>2, <3>1 DEF RunsBy
  <2>9. After(run, source, t, d, p, out) = IF C.more THEN run[C.next][C.out] ELSE C.result
    <3>1. ~(p > Len(d))
      BY <2>2
    <3> QED BY <3>1 DEF After
  <2> HIDE DEF C, pos
  <2>10. run[p][out] = run[pos(k)][M[k]]
    BY <2>7, <2>8, <2>9
  <2> QED BY <2>10 DEF p, out
<1>17. run[pos(0)][M[0]] = run[pos(n)][M[n]]
  <2> DEFINE S == {k \in 0 .. n : run[pos(0)][M[0]] = run[pos(k)][M[k]]}
  <2>1. 0 \in S
    BY <1>1
  <2>2. \A k \in 1 .. n : k - 1 \in S => k \in S
    <3> HIDE DEF pos
    <3> QED BY <1>16
  <2> HIDE DEF S
  <2>3. 0 .. n \subseteq S
    BY <1>1, <2>1, <2>2, UpTo
  <2>4. n \in S
    BY <1>1, <2>3
  <2> QED BY <2>4 DEF S
<1>18. run[pos(n)][target] = Ok(target)
  <2> DEFINE p == pos(n)
             C == Command(source, t, d, p, target)
  <2> HIDE DEF pos
  <2>1. C.more = FALSE /\ C.result = Ok(target)
    BY <1>14 DEF Stop
  <2>2. run[p][target] = After(run, source, t, d, p, target)
    <3>1. p \in 1 .. Len(d) + 2
      BY <1>14
    <3> QED BY <1>1, <1>12, <3>1 DEF RunsBy
  <2>3. After(run, source, t, d, p, target) = IF C.more THEN run[C.next][C.out] ELSE C.result
    <3>1. ~(p > Len(d))
      BY <1>14
    <3> QED BY <3>1 DEF After
  <2> HIDE DEF C, p
  <2>4. run[p][target] = Ok(target)
    BY <2>1, <2>2, <2>3
  <2> QED BY <2>4 DEF p
<1>19. pos(0) = b
  BY <1>8, <1>9, EmptySeq
<1>20. ApplyDelta(source, d) = run[b][<<>>]
  BY <1>11, <1>12
<1>21. ApplyDelta(source, d) = Ok(target)
  <2> HIDE DEF pos
  <2> QED BY <1>3, <1>17, <1>18, <1>19, <1>20
<1> QED BY <1>7, <1>21 DEF d, target

\* The length of the common prefix of two texts.
IsShared(source, target, n) ==
  /\ n <= Len(source) /\ SubSeq(source, 1, n) = SubSeq(target, 1, n)
  /\ n = Len(source) \/ n = Len(target) \/ source[n + 1] # target[n + 1]

\* Two texts have a longest common prefix.
LEMMA SharedExists ==
  ASSUME NEW source \in Seq(Byte), NEW target \in Seq(Byte)
  PROVE  \E n \in 0 .. Len(target) : IsShared(source, target, n)
<1> DEFINE Stops(n) == n = Len(source) \/ n = Len(target) \/ source[n + 1] # target[n + 1]
           S == {n \in 0 .. Len(target) : n <= Len(source) /\ Stops(n)}
<1>1. Len(source) \in Nat /\ Len(target) \in Nat
  BY LenProperties
<1>2. S \in SUBSET Nat /\ S # {}
  <2>1. CASE Len(source) <= Len(target)
    BY <1>1, <2>1
  <2>2. CASE Len(target) <= Len(source)
    BY <1>1, <2>2
  <2> QED BY <1>1, <2>1, <2>2
<1>3. PICK n \in S : \A m \in S : n <= m
  <2> HIDE DEF S
  <2> QED BY <1>2, LeastNumber
<1>4. n \in 0 .. Len(target) /\ n <= Len(source) /\ Stops(n) /\ n \in Nat
  BY <1>3
<1>5. ASSUME NEW i \in 1 .. n PROVE source[i] = target[i]
  <2>1. i - 1 \in 0 .. Len(target) /\ i - 1 <= Len(source) /\ ~(n <= i - 1) /\ i - 1 + 1 = i
    BY <1>1, <1>4
  <2>2. i - 1 \notin S
    <3> HIDE DEF S
    <3> QED BY <1>3, <2>1
  <2>3. ~Stops(i - 1)
    BY <2>1, <2>2
  <2> QED BY <2>1, <2>3
<1>6. SubSeq(source, 1, n) = SubSeq(target, 1, n)
  <2> DEFINE x == SubSeq(source, 1, n)
             y == SubSeq(target, 1, n)
  <2>1. \A i \in 1 .. n : source[i] \in Byte /\ target[i] \in Byte
    <3>1. \A i \in 1 .. n : i \in 1 .. Len(source) /\ i \in 1 .. Len(target)
      BY <1>1, <1>4
    <3> QED BY <3>1, ElementOfSeq
  <2>2. x \in Seq(Byte) /\ y \in Seq(Byte)
    BY <1>4, <2>1, SubSeqProperties
  <2>3. Len(x) = n /\ \A i \in 1 .. n : x[i] = source[i]
    BY <1>4, <2>1
  <2>4. Len(y) = n /\ \A i \in 1 .. n : y[i] = target[i]
    BY <1>4, <2>1
  <2> HIDE DEF x, y
  <2>5. \A i \in 1 .. n : x[i] = y[i]
    BY <1>5, <2>3, <2>4
  <2>6. x = y
    BY <2>2, <2>3, <2>4, <2>5, SeqEqual
  <2> QED BY <2>6 DEF x, y
<1> QED BY <1>4, <1>6 DEF IsShared

\* Copying a prefix is a command.
LEMMA PrefixIsCommand ==
  ASSUME NEW source \in Seq(Byte), NEW n \in Nat, n <= Len(source)
  PROVE  Copy(0, n) \in CommandsOn(source)
<1>1. Copy(0, n) \in {Copy(offset, count) : offset \in Nat, count \in Nat}
  OBVIOUS
<1>2. Copy(0, n).offset + Copy(0, n).count <= Len(source)
  BY DEF Copy
<1> QED BY <1>1, <1>2 DEF CommandsOn

\* DeltaOf copies the common prefix and inserts the rest.
LEMMA DeltaOfIs ==
  ASSUME NEW source \in Text, NEW target \in Text
  PROVE  \E commands \in Seq(CommandsOn(source)) :
           Meaning(source, commands) = target /\ DeltaOf(source, target) = Encode(source, commands)
<1> DEFINE shared == CHOOSE n \in 0 .. Len(target) : IsShared(source, target, n)
           rest == SubSeq(target, shared + 1, Len(target))
           commands == <<Copy(0, shared), Insert(rest)>>
           prefix == SubSeq(source, 1, shared)
<1>1. source \in Seq(Byte) /\ target \in Seq(Byte) /\ Len(source) \in Nat /\ Len(target) \in Nat
  BY LenProperties DEF Text
<1>2. shared \in 0 .. Len(target) /\ IsShared(source, target, shared)
  <2>1. \E n \in 0 .. Len(target) : IsShared(source, target, n)
    BY <1>1, SharedExists
  <2> QED BY <2>1
<1>3. DeltaOf(source, target) = Encode(source, commands)
  BY DEF DeltaOf, IsShared
<1> HIDE DEF shared
<1>4. shared \in Nat /\ shared <= Len(target) /\ shared <= Len(source) /\ prefix = SubSeq(target, 1, shared)
  BY <1>1, <1>2 DEF IsShared
<1>5. rest \in Seq(Byte)
  <2>1. shared + 1 \in Int /\ \A i \in shared + 1 .. Len(target) : target[i] \in Byte
    <3>1. \A i \in shared + 1 .. Len(target) : i \in 1 .. Len(target)
      BY <1>1, <1>4
    <3> QED BY <1>1, <1>4, <3>1, ElementOfSeq
  <2> QED BY <1>1, <2>1, SubSeqProperties
<1>6. Copy(0, shared) \in CommandsOn(source)
  BY <1>1, <1>4, PrefixIsCommand
<1>7. Insert(rest) \in CommandsOn(source)
  <2> HIDE DEF rest
  <2> QED BY <1>5 DEF CommandsOn
<1>8. commands \in Seq(CommandsOn(source)) /\ Len(commands) = 2
      /\ commands[1] = Copy(0, shared) /\ commands[2] = Insert(rest) /\ DOMAIN commands = 1 .. 2
  <2> HIDE DEF rest
  <2> QED BY <1>6, <1>7
<1> DEFINE said == [k \in DOMAIN commands |-> Said(source, commands[k])]
<1>9. said[1] = prefix /\ said[2] = rest /\ Len(said) = 2
  <2>1. Said(source, Copy(0, shared)) = prefix
    BY <1>4 DEF Said, Copy
  <2>2. Said(source, Insert(rest)) = rest
    BY DEF Said, Insert
  <2>3. said[1] = Said(source, commands[1]) /\ said[2] = Said(source, commands[2]) /\ Len(said) = 2
    <3> HIDE DEF commands
    <3> QED BY <1>8
  <2> HIDE DEF said, commands, rest, prefix
  <2> QED BY <1>8, <2>1, <2>2, <2>3
<1>10. said \in Seq(Seq(Byte))
  <2>1. \A k \in 1 .. 2 : Said(source, commands[k]) \in Seq(Byte)
    <3>1. \A k \in 1 .. 2 : commands[k] \in CommandsOn(source)
      <4> HIDE DEF commands
      <4> QED BY <1>8
    <3> HIDE DEF commands
    <3> QED BY <1>1, <3>1, CommandsAre
  <2> HIDE DEF commands
  <2>2. said = [k \in 1 .. 2 |-> Said(source, commands[k])]
    BY <1>8
  <2> QED BY <2>1, <2>2
<1>11. Meaning(source, commands) = FlattenSeq(said)
  BY DEF Meaning, Said
<1> HIDE DEF said, commands, rest, prefix
<1>12. PICK flat : Joins(flat, said)
  BY <1>10, FlattenUnfolds
<1>13. flat[0] = <<>> /\ flat[1] = flat[1 - 1] \o said[1] /\ flat[2] = flat[2 - 1] \o said[2] /\ FlattenSeq(said) = flat[2]
  BY <1>9, <1>12 DEF Joins
<1>14. prefix \in Seq(Byte)
  <2>1. said[1] \in Seq(Byte)
    BY <1>9, <1>10, ElementOfSeq
  <2> QED BY <1>9, <2>1
<1>15. <<>> \o prefix = prefix
  BY <1>14, ConcatEmptySeq
<1>16. prefix \o rest = target
  <2>1. shared \in 1 - 1 .. Len(target) /\ Len(target) \in shared .. Len(target) /\ 1 \in 1 .. Len(target) + 1
    BY <1>1, <1>4
  <2>2. SubSeq(target, 1, shared) \o SubSeq(target, shared + 1, Len(target)) = SubSeq(target, 1, Len(target))
    BY <1>1, <2>1, ConcatAdjacentSubSeq
  <2>3. SubSeq(target, 1, Len(target)) = target
    BY <1>1, SubSeqFull
  <2> QED BY <1>4, <2>2, <2>3 DEF rest
<1>17. Meaning(source, commands) = target
  <2>1. 1 - 1 = 0 /\ 2 - 1 = 1
    OBVIOUS
  <2>2. flat[1 - 1] = <<>> /\ flat[2 - 1] = flat[1]
    BY <1>13, <2>1
  <2>3. flat[1] = prefix
    BY <1>9, <1>13, <1>15, <2>2
  <2>4. flat[2] = prefix \o rest
    BY <1>9, <1>13, <2>2, <2>3
  <2> QED BY <1>11, <1>13, <1>16, <2>4
<1> QED BY <1>3, <1>8, <1>17

\* The server's delta is a sequence of bytes.
LEMMA DeltaOfType ==
  ASSUME NEW s \in Text, NEW t \in Text
  PROVE  DeltaOf(s, t) \in Seq(Byte)
<1>1. PICK commands \in Seq(CommandsOn(s)) :
        Meaning(s, commands) = t /\ DeltaOf(s, t) = Encode(s, commands)
  BY DeltaOfIs
<1> QED BY <1>1, DeltasDecode

\* The server's delta from one text to another decodes to the other text.
THEOREM RoundTrip ==
  ASSUME NEW s \in Text, NEW t \in Text
  PROVE  ApplyDelta(s, DeltaOf(s, t)) = Ok(t)
<1>1. PICK commands \in Seq(CommandsOn(s)) :
        Meaning(s, commands) = t /\ DeltaOf(s, t) = Encode(s, commands)
  BY DeltaOfIs
<1> QED BY <1>1, DeltasDecode
===============================================================================
