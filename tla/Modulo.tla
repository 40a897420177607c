------------------------------- MODULE Modulo --------------------------------
(***************************************************************************)
(* Facts about % with a modulus that is not known, which the provers do    *)
(* not find by themselves.  Counts that run freely and wrap, and the slots *)
(* of rings they index, are what they are for.                             *)
(***************************************************************************)
EXTENDS Integers, TLAPS

\* A remainder lies below the modulus.
LEMMA ModRange ==
  ASSUME NEW a \in Int, NEW m \in Nat \ {0}
  PROVE  a % m \in 0 .. m - 1
OBVIOUS

\* A number splits into a multiple of the modulus and its remainder.
LEMMA ModSplit ==
  ASSUME NEW a \in Int, NEW m \in Nat \ {0}
  PROVE  \E q \in Int : a = m * q + (a % m)
<1>1. a = m * (a \div m) + (a % m)
  OBVIOUS
<1>2. a \div m \in Int
  OBVIOUS
<1> QED
  BY <1>1, <1>2

\* There is one such way.
LEMMA MultipleBelow ==
  ASSUME NEW m \in Nat \ {0}, NEW q \in Int,
         NEW r \in 0 .. m - 1, NEW s \in 0 .. m - 1, m * q + r = s
  PROVE  q = 0 /\ r = s
<1>1. q > 0 => m * q >= m
  OBVIOUS
<1>2. q < 0 => m * q <= -m
  OBVIOUS
<1> QED
  BY <1>1, <1>2

LEMMA ModUnique ==
  ASSUME NEW m \in Nat \ {0}, NEW q \in Int, NEW r \in 0 .. m - 1
  PROVE  (m * q + r) % m = r
<1> DEFINE a == m * q + r
<1>1. a \in Int
  OBVIOUS
<1>2. PICK p \in Int : a = m * p + (a % m)
  BY <1>1, ModSplit
<1>3. a % m \in 0 .. m - 1
  BY <1>1, ModRange
<1>4. m * (q - p) + r = a % m
  BY <1>2, <1>3
<1> HIDE DEF a
<1>5. r = a % m
  BY <1>3, <1>4, MultipleBelow
<1> QED
  BY <1>5 DEF a

\* What is below the modulus already is its own remainder.
LEMMA ModSmall ==
  ASSUME NEW m \in Nat \ {0}, NEW a \in 0 .. m - 1
  PROVE  a % m = a
OBVIOUS

\* Multiples of the modulus do not show.
LEMMA ModAddMultiple ==
  ASSUME NEW a \in Int, NEW q \in Int, NEW m \in Nat \ {0}
  PROVE  (a + m * q) % m = a % m
<1>1. PICK p \in Int : a = m * p + (a % m)
  BY ModSplit
<1>2. a % m \in 0 .. m - 1
  BY ModRange
<1>3. a + m * q = m * (p + q) + (a % m)
  BY <1>1, <1>2
<1>4. (m * (p + q) + (a % m)) % m = a % m
  BY <1>2, ModUnique
<1> QED
  BY <1>3, <1>4

\* An outer remainder swallows an inner one, also of a multiple of its modulus.
LEMMA ModOfMod ==
  ASSUME NEW a \in Int, NEW m \in Nat \ {0}, NEW n \in Nat \ {0}, m % n = 0
  PROVE  (a % m) % n = a % n
<1>1. PICK p \in Int : a = m * p + (a % m)
  BY ModSplit
<1>0. m \in Int
  OBVIOUS
<1>2. PICK c \in Int : m = n * c + (m % n)
  BY <1>0, ModSplit
<1>3. a % m \in Int /\ c * p \in Int
  BY ModRange
<1>4. a = (a % m) + n * (c * p)
  BY <1>1, <1>2, <1>3
<1> DEFINE r == a % m
<1>5. (r + n * (c * p)) % n = r % n
  BY <1>3, ModAddMultiple
<1> QED
  BY <1>4, <1>5

\* A remainder and what it is the remainder of differ by a multiple.
LEMMA ModDiffers ==
  ASSUME NEW a \in Int, NEW m \in Nat \ {0}, NEW n \in Nat \ {0}, m % n = 0
  PROVE  \E q \in Int : a % m \in Int /\ a = (a % m) + n * q
<1>1. PICK p \in Int : a = m * p + (a % m)
  BY ModSplit
<1>2. m \in Int
  OBVIOUS
<1>3. PICK c \in Int : m = n * c + (m % n)
  BY <1>2, ModSplit
<1>4. a % m \in Int /\ c * p \in Int
  BY ModRange
<1>5. a = (a % m) + n * (c * p)
  BY <1>1, <1>3, <1>4
<1> QED
  BY <1>4, <1>5

\* Sums and differences may take remainders first.
LEMMA ModPlus ==
  ASSUME NEW a \in Int, NEW b \in Int, NEW m \in Nat \ {0}, NEW n \in Nat \ {0}, m % n = 0
  PROVE  ((a % m) + b) % n = (a + b) % n
<1> DEFINE r == a % m
           y == r + b
<1>1. PICK q \in Int : r \in Int /\ a = r + n * q
  BY ModDiffers, ZenonT(100)
<1> HIDE DEF r
<1>2. a + b = y + n * q /\ y \in Int
  BY <1>1
<1> HIDE DEF y
<1>3. (y + n * q) % n = y % n
  BY <1>2, ModAddMultiple
<1> QED
  BY <1>2, <1>3 DEF r, y

LEMMA ModMinus ==
  ASSUME NEW a \in Int, NEW b \in Int, NEW m \in Nat \ {0}, NEW n \in Nat \ {0}, m % n = 0
  PROVE  ((a % m) - b) % n = (a - b) % n
<1> DEFINE r == a % m
           y == r - b
<1>1. PICK q \in Int : r \in Int /\ a = r + n * q
  BY ModDiffers, ZenonT(100)
<1> HIDE DEF r
<1>2. a - b = y + n * q /\ y \in Int
  BY <1>1
<1> HIDE DEF y
<1>3. (y + n * q) % n = y % n
  BY <1>2, ModAddMultiple
<1> QED
  BY <1>2, <1>3 DEF r, y

LEMMA ModTaken ==
  ASSUME NEW a \in Int, NEW b \in Int, NEW m \in Nat \ {0}, NEW n \in Nat \ {0}, m % n = 0
  PROVE  (b - (a % m)) % n = (b - a) % n
<1> DEFINE r == a % m
           y == b - a
<1>1. PICK q \in Int : r \in Int /\ a = r + n * q
  BY ModDiffers, ZenonT(100)
<1> HIDE DEF r
<1>2. b - r = y + n * q /\ y \in Int
  BY <1>1
<1> HIDE DEF y
<1>3. (y + n * q) % n = y % n
  BY <1>2, ModAddMultiple
<1> QED
  BY <1>2, <1>3 DEF r, y
==============================================================================
