--------------------------- MODULE IpChecksum_proofs ---------------------------
(***************************************************************************)
(* What compute_ip_checksum returns is the checksum of RFC 791, for any    *)
(* size of a byte and any header that is short for the width of the sum.   *)
(* On the way: the sum never wraps, and the loops move (i grows by a word, *)
(* a carry makes the sum smaller).                                         *)
(***************************************************************************)
EXTENDS IpChecksum, SequenceTheorems, FiniteSetTheorems, WellFoundedInduction, TLAPS

LEMMA Sizes ==
    /\ Byte \in Nat /\ Word \in Nat /\ UInt32 \in Nat
    /\ Word >= 4 /\ Word >= 2 * Byte /\ UInt32 >= 4 * Word
<1>1. Byte \in Nat /\ Byte >= 2
    BY ByteAssumption
<1>2. Word \in Nat /\ Word >= 2 * Byte /\ Word >= 4
    BY <1>1 DEF Word
<1>3. \A w \in Nat : w >= 4 => w * w \in Nat /\ w * w >= 4 * w
    OBVIOUS
<1> QED  BY <1>1, <1>2, <1>3 DEF UInt32

LEMMA SmallMod ==
    ASSUME NEW n \in Nat, n < UInt32
    PROVE  n % UInt32 = n
<1>1. \A u \in Nat : n < u => n % u = n
    OBVIOUS
<1> QED  BY <1>1, Sizes

\* The value of two bytes is a word.
LEMMA WordOfBytes ==
    ASSUME NEW h \in Bytes, NEW l \in Bytes
    PROVE  h * Byte + l \in 0..(Word - 1)
<1>1. Byte \in Nat /\ Byte >= 2 /\ h \in Nat /\ l \in Nat /\ h <= Byte - 1 /\ l <= Byte - 1
    BY ByteAssumption DEF Bytes
<1>2. h * Byte <= (Byte - 1) * Byte
    BY <1>1
<1>3. (Byte - 1) * Byte = Byte * Byte - Byte
    BY <1>1
<1> QED  BY <1>1, <1>2, <1>3 DEF Word

\* A carry leaves less than there was.
LEMMA CarryShrinks ==
    ASSUME NEW s \in Nat, s \div Word # 0
    PROVE  (s % Word) + (s \div Word) \in Nat /\ (s % Word) + (s \div Word) < s
<1>1. PICK w \in Nat, q \in Nat, r \in Nat :
        /\ w = Word /\ w >= 4 /\ q = s \div w /\ r = s % w
        /\ s = w * q + r /\ q >= 1
    BY Sizes
<1>2. w * q >= 4 * q
    BY <1>1
<1> QED  BY <1>1, <1>2

\* And what it takes away is a multiple of Word - 1.
LEMMA CarryTakesMultiples ==
    ASSUME NEW s \in Nat
    PROVE  \E k \in Nat : s = (s % Word) + (s \div Word) + k * (Word - 1)
<1>1. PICK w \in Nat : w = Word /\ w >= 4
    BY Sizes
<1>2. PICK q \in Nat, r \in Nat : q = s \div w /\ r = s % w /\ s = w * q + r
    BY <1>1
<1>3. q * (w - 1) = w * q - q
    BY <1>1
<1>4. s = r + q + q * (w - 1)
    BY <1>2, <1>3
<1> QED  BY <1>1, <1>2, <1>4

-----------------------------------------------------------------------------
\* After i bytes the sum is at most i / 2 words.
Bounded == sum <= (i \div 2) * (Word - 1)
Inv == TypeOK /\ Bounded

LEMMA Short ==
    ASSUME TypeOK
    PROVE  /\ Len(data) \in Nat /\ Len(data) % 2 = 0 /\ Len(data) <= 2 * Word
           /\ i \in Nat /\ i <= Len(data) /\ i \div 2 \in Nat /\ i \div 2 <= Word
<1>1. Len(data) \in Nat /\ Len(data) % 2 = 0 /\ Len(data) <= MaxBytes /\ i \in 0..Len(data)
    BY LenProperties DEF TypeOK, Headers
<1>2. Len(data) <= 2 * Word
    BY <1>1, HeaderAssumption, Sizes
<1> QED  BY <1>1, <1>2, Sizes

\* Word words of Word - 1 stay below Word * Word.
LEMMA BoundFits ==
    ASSUME TypeOK
    PROVE  (i \div 2) * (Word - 1) \in Nat /\ (i \div 2) * (Word - 1) < UInt32
<1>1. \A n, w \in Nat : n <= w /\ w >= 4 => n * (w - 1) \in Nat /\ n * (w - 1) < w * w
    <2> SUFFICES ASSUME NEW n \in Nat, NEW w \in Nat, n <= w, w >= 4
                 PROVE  n * (w - 1) \in Nat /\ n * (w - 1) < w * w
        OBVIOUS
    <2>1. n * (w - 1) <= w * (w - 1)
        OBVIOUS
    <2>2. w * (w - 1) = w * w - w
        OBVIOUS
    <2> QED  BY <2>1, <2>2
<1> QED  BY <1>1, Short, Sizes DEF UInt32

LEMMA InvInit == Init => Inv
<1> SUFFICES ASSUME Init PROVE Inv
    OBVIOUS
<1>1. PICK n \in 1..MaxBytes : n % 4 = 0 /\ data \in [1..n -> Bytes]
    BY DEF Init
<1>2. data \in Seq(Bytes) /\ Len(data) = n /\ n % 2 = 0 /\ n \in Nat
    BY <1>1, HeaderAssumption, IsASeq, LenProperties
<1>3. data \in Headers
    BY <1>1, <1>2 DEF Headers
<1>4. i = 0 /\ sum = 0 /\ ret = -1
    BY DEF Init
<1> QED  BY <1>2, <1>3, <1>4, Sizes DEF Inv, TypeOK, Bounded

LEMMA InvStep == Inv /\ [Next]_vars => Inv'
<1> SUFFICES ASSUME Inv, [Next]_vars PROVE Inv'
    OBVIOUS
<1>1. TypeOK /\ Bounded /\ sum \in Nat
    BY DEF Inv, TypeOK
<1>2. CASE Add
    <2>1. i + 1 \in 1..Len(data) /\ i + 2 \in 1..Len(data) /\ i % 2 = 0
        BY <1>1, <1>2, Short DEF Add, TypeOK
    <2>2. WordAt(i) \in 0..(Word - 1)
        BY <1>1, <2>1, WordOfBytes, ElementOfSeq DEF WordAt, TypeOK, Headers
    <2>3. (i + 2) \div 2 = (i \div 2) + 1 /\ (i + 2) % 2 = 0 /\ i + 2 \in 0..Len(data)
        BY <1>1, <2>1, Short
    <2>4. sum + WordAt(i) <= ((i + 2) \div 2) * (Word - 1)
        <3>1. \A n, w \in Nat : (n + 1) * (w - 1) = n * (w - 1) + (w - 1)
            OBVIOUS
        <3>2. WordAt(i) \in Nat /\ WordAt(i) <= Word - 1 /\ Word \in Nat /\ i \div 2 \in Nat
            BY <1>1, <2>2, Short, Sizes
        <3>3. PICK n \in Nat, w \in Nat, a \in Nat :
                n = i \div 2 /\ w = Word /\ a = WordAt(i) /\ a <= w - 1
            BY <3>2
        <3>4. sum <= n * (w - 1) /\ n * (w - 1) \in Nat
            BY <1>1, <3>3, BoundFits DEF Bounded
        <3>5. sum + a <= (n + 1) * (w - 1)
            BY <1>1, <3>1, <3>3, <3>4
        <3> QED  BY <2>3, <3>3, <3>5
    <2>5. i' = i + 2 /\ data' = data /\ ret' = ret /\ sum' = (sum + WordAt(i)) % UInt32
        BY <1>2 DEF Add
    <2>6. sum' \in 0..(UInt32 - 1) /\ sum' <= sum + WordAt(i)
        BY <1>1, <2>2, <2>5, Sizes
    <2> QED  BY <1>1, <2>2, <2>3, <2>4, <2>5, <2>6, Short, Sizes DEF Inv, TypeOK, Bounded
<1>3. CASE Carry
    <2>1. /\ (sum % Word) + (sum \div Word) \in Nat /\ (sum % Word) + (sum \div Word) < sum
          /\ sum < UInt32 /\ (sum % Word) + (sum \div Word) < UInt32
        BY <1>1, <1>3, CarryShrinks, Sizes DEF Carry, TypeOK
    <2>2. sum' = (sum % Word) + (sum \div Word)
        BY <1>1, <1>3, <2>1, SmallMod, Sizes DEF Carry
    <2>3. sum' \in 0..(UInt32 - 1) /\ sum' < sum
        BY <1>1, <2>1, <2>2, Sizes
    <2>4. i' = i /\ data' = data /\ ret' = ret
        BY <1>3 DEF Carry
    <2> QED  BY <1>1, <2>3, <2>4, Short, Sizes DEF Inv, TypeOK, Bounded
<1>4. CASE Return
    <2>1. Word - 1 - (sum % Word) \in 0..(Word - 1)
        BY <1>1, Sizes
    <2> QED  BY <1>1, <1>4, <2>1 DEF Return, Inv, TypeOK, Bounded
<1>5. CASE UNCHANGED vars
    BY <1>1, <1>5 DEF vars, Inv, TypeOK, Bounded
<1> QED  BY <1>2, <1>3, <1>4, <1>5 DEF Next, Done

LEMMA SpecInv == Spec => []Inv
BY InvInit, InvStep, PTL DEF Spec

\* No carry is lost: the uint32_t that compute_ip_checksum adds in never wraps,
\* whatever the bytes of the header are.
THEOREM SumNeverWraps == Spec => []NeverWraps
<1>1. Inv => NeverWraps
    BY BoundFits DEF Inv, Bounded, NeverWraps
<1> QED  BY <1>1, SpecInv, PTL

\* The loops of compute_ip_checksum come to an end: a step moves i on by a word,
\* or makes the sum smaller, or returns.
Progresses == i' = i + 2 \/ (i' = i /\ sum' < sum) \/ ret' # -1
THEOREM EveryStepCounts == Spec => [][Progresses]_vars
<1>1. ASSUME Inv, [Next]_vars PROVE [Progresses]_vars
    <2>1. CASE Carry
        <3>1. /\ (sum % Word) + (sum \div Word) \in Nat
              /\ (sum % Word) + (sum \div Word) < sum /\ sum < UInt32
            BY <1>1, <2>1, CarryShrinks, Sizes DEF Carry, Inv, TypeOK
        <3>2. (sum % Word) + (sum \div Word) < UInt32 /\ sum \in Nat
            BY <1>1, <3>1, Sizes DEF Inv, TypeOK
        <3>3. sum' = (sum % Word) + (sum \div Word)
            BY <2>1, <3>1, <3>2, SmallMod DEF Carry
        <3> QED  BY <2>1, <3>1, <3>3 DEF Carry, Progresses
    <2>2. CASE Return
        <3>1. sum \in Nat
            BY <1>1 DEF Inv, TypeOK
        <3>2. Word - 1 - (sum % Word) # -1
            BY <3>1, Sizes
        <3> QED  BY <2>2, <3>2 DEF Return, Progresses
    <2> QED  BY <1>1, <2>1, <2>2 DEF Next, Add, Done, Progresses
<1> QED  BY <1>1, SpecInv, PTL DEF Spec

\* The loop over the carries keeps what the words add up to modulo Word - 1, on
\* which "Good" depends: it takes multiples of Word - 1 away and nothing else.
KeepsResidue == Carry => \E k \in Nat : sum = sum' + k * (Word - 1)
THEOREM CarriesKeepResidue == Spec => [][KeepsResidue]_vars
<1>1. ASSUME Inv, Carry PROVE KeepsResidue
    <2>1. /\ sum \in Nat /\ (sum % Word) + (sum \div Word) \in Nat
          /\ (sum % Word) + (sum \div Word) < UInt32
        BY <1>1, CarryShrinks, Sizes DEF Carry, Inv, TypeOK
    <2>2. sum' = (sum % Word) + (sum \div Word)
        BY <1>1, <2>1, SmallMod DEF Carry
    <2> QED  BY <2>1, <2>2, CarryTakesMultiples DEF KeepsResidue
<1>2. ASSUME Inv PROVE [KeepsResidue]_vars
    BY <1>1, <1>2 DEF KeepsResidue
<1> QED  BY <1>2, SpecInv, PTL

-----------------------------------------------------------------------------
\* A set of naturals has a least element: the intervals up to its elements are
\* finite sets, among which inclusion is well founded.
LEMMA Smallest ==
    ASSUME NEW S, S \subseteq Nat, S # {}
    PROVE  \E x \in S : \A y \in S : x <= y
<1>1. PICK n \in S : TRUE
  OBVIOUS
<1> DEFINE D == 1..n
           T == {1..k : k \in {m \in S : m <= n}}
<1>2. IsFiniteSet(D)
  BY <1>1, FS_Interval
<1>3. IsWellFoundedOn(StrictSubsetOrdering(D), SUBSET D)
  <2>1. IsWellFoundedOn(StrictSubsetOrdering(D), FiniteSubsetsOf(D))
    BY FS_StrictSubsetOrderingWellFounded
  <2>2. FiniteSubsetsOf(D) = SUBSET D
    BY <1>2, FS_FiniteSubsetsOfFinite
  <2> QED BY <2>1, <2>2
<1>4. T \subseteq SUBSET D /\ T # {}
  BY <1>1
<1>5. PICK X \in T : \A Y \in T : ~ (<<Y, X>> \in StrictSubsetOrdering(D))
  <2> HIDE DEF T, D
  <2> QED BY <1>3, <1>4, WFMin
<1>6. PICK x \in S : x <= n /\ X = 1..x
  BY <1>5
<1>7. ASSUME NEW y \in S, y < x PROVE FALSE
  <2>1. 1..y \in T
     BY <1>1, <1>6, <1>7
  <2>2. 1..y # 1..x /\ 1..y \subseteq 1..x
     <3>1. x \in 1..x /\ x \notin 1..y
       BY <1>7
     <3> QED BY <1>7, <3>1
  <2>3. <<1..y, X>> \in StrictSubsetOrdering(D)
     BY <1>1, <1>6, <1>7, <2>2 DEF StrictSubsetOrdering
  <2> QED BY <2>1, <2>3, <1>5
<1> QED BY <1>7

\* Induction over the naturals, for a set rather than a predicate.
LEMMA Inductive ==
    ASSUME NEW S, 0 \in S, \A m \in Nat : m \in S => m + 1 \in S
    PROVE  \A m \in Nat : m \in S
<1> SUFFICES ASSUME Nat \ S # {} PROVE FALSE
    OBVIOUS
<1>1. PICK m \in Nat \ S : \A k \in Nat \ S : m <= k
    BY Smallest
<1>2. m - 1 \in Nat /\ m - 1 \in S
    <2>1. m - 1 \in Nat
        BY <1>1
    <2>2. ~(m <= m - 1)
        BY <1>1
    <2> QED  BY <1>1, <2>1, <2>2
<1>3. (m - 1) + 1 \in S
    BY <1>2
<1>4. (m - 1) + 1 = m
    BY <1>1
<1> QED  BY <1>3, <1>4

\* The function that Sums chooses exists: by induction, up to every length.
LEMMA SumsUnfold ==
    ASSUME NEW d \in Seq(Bytes)
    PROVE  Sums(d) = [n \in 0..Len(d) |->
             IF n < 2 THEN 0 ELSE Sums(d)[n - 2] + d[n - 1] * Byte + d[n]]
<1> DEFINE B(f, n) == IF n < 2 THEN 0 ELSE f[n - 2] + d[n - 1] * Byte + d[n]
           Upto(m) == \E f : f = [n \in 0..m |-> B(f, n)]
           S == {m \in Nat : Upto(m)}
<1>1. 0 \in S
    <2> DEFINE f == [n \in 0..0 |-> 0]
    <2>1. f = [n \in 0..0 |-> B(f, n)]
        OBVIOUS
    <2> QED  BY <2>1
<1>2. ASSUME NEW m \in Nat, m \in S PROVE m + 1 \in S
    <2>1. PICK f : f = [n \in 0..m |-> B(f, n)]
        BY <1>2
    <2> DEFINE g == [n \in 0..(m + 1) |-> IF n = m + 1 THEN B(f, m + 1) ELSE f[n]]
    <2>2. ASSUME NEW n \in 0..(m + 1) PROVE g[n] = B(g, n)
        <3>1. n >= 2 => n - 2 \in 0..m /\ g[n - 2] = f[n - 2]
            BY <2>2
        <3>2. B(g, n) = B(f, n)
            BY <2>2, <3>1
        <3>3. n # m + 1 => n \in 0..m /\ f[n] = B(f, n)
            BY <2>1, <2>2
        <3> QED  BY <2>2, <3>2, <3>3
    <2>3. g = [n \in 0..(m + 1) |-> g[n]]
        OBVIOUS
    <2> HIDE DEF g
    <2>4. g = [n \in 0..(m + 1) |-> B(g, n)]
        BY <2>2, <2>3
    <2> QED  BY <2>4
<1>3. Len(d) \in S
    <2> HIDE DEF S
    <2>1. \A m \in Nat : m \in S
        BY <1>1, <1>2, Inductive
    <2> QED  BY <2>1, LenProperties
<1>4. PICK f : f = [n \in 0..Len(d) |-> B(f, n)]
    BY <1>3
<1> QED  BY <1>4 DEF Sums

\* Each word adds its value to the sum before it.
LEMMA SumsStep ==
    ASSUME NEW d \in Seq(Bytes)
    PROVE  /\ Sums(d)[0] = 0
           /\ \A n \in Nat : n + 2 <= Len(d) =>
                Sums(d)[n + 2] = Sums(d)[n] + d[n + 1] * Byte + d[n + 2]
<1>1. Len(d) \in Nat
    BY LenProperties
<1>2. Sums(d)[0] = 0
    <2>1. 0 \in 0..Len(d) /\ 0 < 2
        BY <1>1
    <2> QED  BY <2>1, SumsUnfold
<1>3. ASSUME NEW n \in Nat, n + 2 <= Len(d)
      PROVE  Sums(d)[n + 2] = Sums(d)[n] + d[n + 1] * Byte + d[n + 2]
    <2>1. PICK m \in 0..Len(d) : m = n + 2 /\ ~(m < 2) /\ m - 2 = n /\ m - 1 = n + 1
        BY <1>1, <1>3
    <2>2. Sums(d)[m] = Sums(d)[m - 2] + d[m - 1] * Byte + d[m]
        BY <2>1, SumsUnfold
    <2> QED  BY <2>1, <2>2
<1> QED  BY <1>2, <1>3

\* The remainder is the only number below m that is a multiple of m away.
LEMMA RemainderIs ==
    ASSUME NEW m \in Nat, m > 0, NEW r \in 0..(m - 1), NEW k \in Nat
    PROVE  (r + k * m) % m = r
<1>1. PICK n \in Nat : n = r + k * m
    OBVIOUS
<1>2. PICK q \in Int, s \in 0..(m - 1) : q = n \div m /\ s = n % m /\ n = m * q + s
    OBVIOUS
<1>3. r - s = m * (q - k)
    BY <1>1, <1>2
<1>4. q - k = 0
    <2>1. ASSUME NEW t \in Int, t >= 1 PROVE m * t >= m
        BY <2>1
    <2>2. ASSUME NEW t \in Int, t <= -1 PROVE m * t <= -m
        <3>1. m * (-t) >= m
            BY <2>1, <2>2
        <3>2. m * (-t) = -(m * t)
            OBVIOUS
        <3> QED  BY <3>1, <3>2
    <2>3. PICK t \in Int : t = q - k
        BY <1>2
    <2>4. m * t < m /\ m * t > -m
        BY <1>2, <1>3, <2>3
    <2> QED  BY <2>1, <2>2, <2>3, <2>4
<1>5. m * (q - k) = 0
    BY <1>4
<1> QED  BY <1>1, <1>2, <1>3, <1>5

-----------------------------------------------------------------------------
\* While words are added the sum is theirs; from then on a multiple of Word - 1
\* may be missing, but never all of it.
Added ==
    /\ i < Len(data) => sum = Sums(data)[i]
    /\ \E k \in Nat : Sums(data)[i] = sum + k * (Word - 1)
    /\ sum = 0 => Sums(data)[i] = 0
    /\ ret # -1 => i = Len(data) /\ sum < Word /\ ret = Word - 1 - sum

LEMMA AddedInit == Init => Added
<1> SUFFICES ASSUME Init PROVE Added
    OBVIOUS
<1>1. Inv /\ i = 0 /\ sum = 0 /\ ret = -1
    BY InvInit DEF Init
<1>2. Sums(data)[0] = 0
    BY <1>1, SumsStep DEF Inv, TypeOK, Headers
<1>3. Sums(data)[i] = sum + 0 * (Word - 1)
    BY <1>1, <1>2, Sizes
<1> QED  BY <1>1, <1>2, <1>3 DEF Added

LEMMA AddedStep == Inv /\ Added /\ [Next]_vars => Added'
<1> SUFFICES ASSUME Inv, Added, [Next]_vars PROVE Added'
    OBVIOUS
<1>1. TypeOK /\ sum \in Nat /\ sum < UInt32 /\ data \in Seq(Bytes)
    BY Sizes DEF Inv, TypeOK, Headers
<1>2. CASE Add
    <2>1. i + 1 \in 1..Len(data) /\ i + 2 \in 1..Len(data) /\ i \in Nat /\ i + 2 <= Len(data)
        BY <1>1, <1>2, Short DEF Add, TypeOK
    <2>2. WordAt(i) \in 0..(Word - 1)
        BY <1>1, <2>1, WordOfBytes, ElementOfSeq DEF WordAt
    <2>3. i' = i + 2 /\ data' = data /\ ret' = -1 /\ sum' = (sum + WordAt(i)) % UInt32
        BY <1>2 DEF Add
    <2>4. sum + WordAt(i) \in Nat /\ sum + WordAt(i) < UInt32
        <3>1. PICK w \in Nat, n \in Nat, u \in Nat, a \in Nat :
                /\ w = Word /\ n = i \div 2 /\ u = UInt32 /\ a = WordAt(i) /\ a <= w - 1 /\ w >= 4
            <4>1. Word \in Nat /\ Word >= 4 /\ UInt32 \in Nat /\ i \div 2 \in Nat
                BY <1>1, Short, Sizes
            <4>2. WordAt(i) \in Nat /\ WordAt(i) <= Word - 1
                BY <2>2, <4>1
            <4> QED  BY <4>1, <4>2
        <3>2. n < w
            <4>1. i + 2 <= 2 * w
                BY <1>1, <2>1, <3>1, Short
            <4> QED  BY <2>1, <3>1, <4>1
        <3>3. sum <= n * (w - 1)
            BY <3>1 DEF Inv, Bounded
        <3>4. n * (w - 1) + (w - 1) = (n + 1) * (w - 1) /\ n * (w - 1) \in Nat
            BY <3>1
        <3>5. (n + 1) * (w - 1) <= w * (w - 1)
            BY <3>1, <3>2
        <3>6. w * (w - 1) < w * w /\ u = w * w
            BY <3>1 DEF UInt32
        <3>7. (n + 1) * (w - 1) \in Nat /\ w * (w - 1) \in Nat
            BY <3>1
        <3>8. sum + a <= (n + 1) * (w - 1)
            BY SMTT(30), <1>1, <3>1, <3>3, <3>4, <3>7
        <3>9. sum + a < u
            BY <1>1, <3>1, <3>5, <3>6, <3>7, <3>8
        <3> QED  BY <1>1, <3>1, <3>9
    <2>5. sum' = sum + WordAt(i)
        BY <2>3, <2>4, SmallMod
    <2>6. sum = Sums(data)[i]
        BY <1>2 DEF Add, Added
    <2>7. Sums(data)[i + 2] = Sums(data)[i] + data[i + 1] * Byte + data[i + 2]
        BY <1>1, <2>1, SumsStep
    <2>8. sum' = Sums(data)[i + 2]
        <3>1. data[i + 1] \in Nat /\ data[i + 2] \in Nat /\ data[i + 1] * Byte \in Nat
            <4>1. data[i + 1] \in Bytes /\ data[i + 2] \in Bytes
                BY <1>1, <2>1, ElementOfSeq
            <4> QED  BY <4>1, Sizes DEF Bytes
        <3> QED  BY <1>1, <2>5, <2>6, <2>7, <3>1 DEF WordAt
    <2>9. sum' = Sums(data')[i'] /\ sum' \in Nat
        BY <2>3, <2>4, <2>5, <2>8
    <2>10. Sums(data')[i'] = sum' + 0 * (Word - 1)
        BY <2>9, Sizes
    <2> QED  BY <2>3, <2>9, <2>10 DEF Added
<1>3. CASE Carry
    <2>1. /\ (sum % Word) + (sum \div Word) \in Nat /\ (sum % Word) + (sum \div Word) < UInt32
          /\ (sum % Word) + (sum \div Word) # 0
        <3>1. sum \div Word # 0 /\ sum % Word \in Nat /\ sum \div Word \in Nat
            BY <1>1, <1>3, Sizes DEF Carry
        <3> QED  BY <1>1, <3>1, CarryShrinks, Sizes
    <2>2. /\ sum' = (sum % Word) + (sum \div Word)
          /\ i' = i /\ data' = data /\ ret' = -1 /\ i = Len(data)
        BY <1>3, <2>1, SmallMod DEF Carry
    <2>3. PICK k \in Nat : sum = sum' + k * (Word - 1)
        BY <1>1, <2>2, CarryTakesMultiples
    <2>4. PICK l \in Nat : Sums(data)[i] = sum + l * (Word - 1)
        BY DEF Added
    <2>5. Sums(data')[i'] = sum' + (k + l) * (Word - 1)
        <3>1. k * (Word - 1) + l * (Word - 1) = (k + l) * (Word - 1)
            BY Sizes
        <3>2. k * (Word - 1) \in Nat /\ l * (Word - 1) \in Nat /\ (k + l) * (Word - 1) \in Nat
            BY Sizes
        <3> QED  BY <2>1, <2>2, <2>3, <2>4, <3>1, <3>2
    <2>6. ~(i' < Len(data')) /\ k + l \in Nat
        BY <1>1, <2>2, Short
    <2> QED  BY <2>1, <2>2, <2>5, <2>6 DEF Added
<1>4. CASE Return
    <2>1. sum < Word /\ sum % Word = sum
        <3>1. PICK w \in Nat : w = Word /\ w >= 4
            BY Sizes
        <3>2. sum \div w = 0
            BY <1>4, <3>1 DEF Return
        <3> QED  BY <1>1, <3>1, <3>2
    <2>2. ret' = Word - 1 - sum /\ i = Len(data) /\ UNCHANGED <<data, i, sum>>
        BY <1>4, <2>1 DEF Return
    <2> QED  BY <2>1, <2>2 DEF Added
<1>5. CASE UNCHANGED vars
    BY <1>5 DEF vars, Added
<1> QED  BY <1>2, <1>3, <1>4, <1>5 DEF Next, Done

\* compute_ip_checksum returns the complement of the one's complement sum of the
\* header, and 0, which the page calls "Good", for a header that adds up and no other.
THEOREM ReturnsTheChecksum == Spec => []ReturnsChecksum
<1>1. Inv /\ Added => ReturnsChecksum
    <2> SUFFICES ASSUME Inv, Added, ret # -1
                 PROVE  /\ ret = Word - 1 - OnesComplementSum
                        /\ (ret = 0) <=> (Total > 0 /\ Total % (Word - 1) = 0)
        BY DEF ReturnsChecksum
    <2>1. PICK m \in Nat, k \in Nat, s \in Nat :
            /\ m = Word - 1 /\ m >= 3 /\ s = sum /\ s <= m
            /\ Total = s + k * m /\ (s = 0 => Total = 0) /\ ret = m - s
        <3>1. Word - 1 \in Nat /\ Word - 1 >= 3 /\ sum \in Nat
            BY Sizes DEF Inv, TypeOK
        <3>2. sum < Word /\ ret = Word - 1 - sum /\ i = Len(data)
            BY DEF Added
        <3>3. PICK k \in Nat : Sums(data)[i] = sum + k * (Word - 1)
            BY DEF Added
        <3>4. Total = Sums(data)[i] /\ (sum = 0 => Total = 0)
            BY <3>2 DEF Added, Total
        <3>5. sum <= Word - 1
            BY <3>1, <3>2, Sizes
        <3> QED  BY <3>1, <3>2, <3>3, <3>4, <3>5
    <2>2. k * m \in Nat /\ Total \in Nat
        BY <2>1
    <2>3. CASE s = 0
        <3>1. Total = 0 /\ OnesComplementSum = 0 /\ ret = m
            BY <2>1, <2>3 DEF OnesComplementSum
        <3>2. ret = Word - 1 - OnesComplementSum
            <4>1. \A x \in Nat : x = x - 0
                OBVIOUS
            <4> QED  BY <2>1, <3>1, <4>1
        <3>3. ret # 0
            <4>1. m # 0
                BY <2>1
            <4> QED  BY <3>1, <4>1
        <3>4. ~(Total > 0)
            BY <3>1
        <3> QED  BY <3>2, <3>3, <3>4
    <2>4. CASE s # 0
        <3>1. Total > 0 /\ Total - 1 = (s - 1) + k * m
            BY <2>1, <2>2, <2>4
        <3>2. (Total - 1) % m = s - 1
            <4>1. s - 1 \in 0..(m - 1) /\ m > 0
                BY <2>1, <2>4
            <4>2. ((s - 1) + k * m) % m = s - 1
                BY <4>1, RemainderIs
            <4> QED  BY <3>1, <4>2
        <3>3. OnesComplementSum = s
            BY <2>1, <3>1, <3>2 DEF OnesComplementSum
        <3>4. CASE s = m
            <4>1. Total = 0 + (k + 1) * m
                BY <2>1, <3>4
            <4>2. Total % m = 0
                <5>1. 0 \in 0..(m - 1) /\ k + 1 \in Nat
                    BY <2>1
                <5> QED  BY <2>1, <4>1, <5>1, RemainderIs
            <4> QED  BY <2>1, <3>1, <3>3, <3>4, <4>2
        <3>5. CASE s # m
            <4>1. Total % m = s
                <5>1. s \in 0..(m - 1) /\ m > 0
                    BY <2>1, <3>5
                <5>2. (s + k * m) % m = s
                    BY <5>1, RemainderIs
                <5> QED  BY <2>1, <5>2
            <4> QED  BY <2>1, <2>4, <3>3, <3>5, <4>1
        <3> QED  BY <3>4, <3>5
    <2> QED  BY <2>3, <2>4
<1>2. Spec => [](Inv /\ Added)
    BY InvInit, InvStep, AddedInit, AddedStep, PTL DEF Spec
<1> QED  BY <1>1, <1>2, PTL
=============================================================================
