------------------------- MODULE CompactCodecProofs -------------------------
(***************************************************************************)
(* Proofs about CompactCodec, for every range of a byte, every width of a  *)
(* size, every block and every cut of it.                                  *)
(***************************************************************************)
EXTENDS CompactCodec, SequenceFacts

-----------------------------------------------------------------------------
(* Numbers and their bytes. *)

LEMMA DivisionFacts ==
  ASSUME NEW n \in Nat
  PROVE  /\ n \div Base \in Nat /\ n % Base \in Byte
         /\ n = (n % Base) + Base * (n \div Base)
  BY CodecAssumption DEF Byte

RestsOf(n, w, f) ==
  f = [i \in 0 .. w |-> IF i = 0 THEN n ELSE f[i - 1] \div Base]

(* The recursion Higher is defined by has a solution. *)
LEMMA RestsExist ==
  ASSUME NEW n \in Nat, NEW w \in Nat
  PROVE  \E f \in [0 .. w -> Nat] : RestsOf(n, w, f)
<1> DEFINE T == {m \in Nat : ~ \E f \in [0 .. m -> Nat] : RestsOf(n, m, f)}
<1>1. SUFFICES ASSUME T # {} PROVE FALSE
  OBVIOUS
<1> DEFINE m == Min(T)
<1>2. m \in T /\ \A k \in T : m <= k
  <2> T \in SUBSET Nat
    OBVIOUS
  <2> HIDE DEF T
  <2> QED
    BY <1>1, LeastNumber
<1> HIDE DEF m
<1>3. m # 0
  <2> DEFINE f == [i \in 0 .. 0 |-> n]
  <2>1. f \in [0 .. 0 -> Nat] /\ RestsOf(n, 0, f)
    BY DEF RestsOf
  <2> QED
    BY <1>2, <2>1
<1>4. m \in Nat /\ m - 1 \in Nat /\ m - 1 \notin T
  <2>1. m \in Nat
    BY <1>2
  <2> HIDE DEF T
  <2> QED
    BY <1>2, <1>3, <2>1
<1>5. PICK f \in [0 .. m - 1 -> Nat] : RestsOf(n, m - 1, f)
  BY <1>4
<1> DEFINE g == [i \in 0 .. m |-> IF i = m THEN f[m - 1] \div Base ELSE f[i]]
<1>6. f[m - 1] \in Nat
  BY <1>4
<1>7. g \in [0 .. m -> Nat]
  <2>1. f[m - 1] \div Base \in Nat
    BY <1>6, DivisionFacts
  <2>2. \A i \in 0 .. m : i # m => i \in 0 .. m - 1
    BY <1>4
  <2> QED
    BY <2>1, <2>2
<1>8. ASSUME NEW i \in 0 .. m
      PROVE  g[i] = IF i = 0 THEN n ELSE g[i - 1] \div Base
  <2>1. CASE i = m
    BY <1>3, <1>4, <2>1
  <2>2. CASE i # m
    <3>1. i \in 0 .. m - 1 /\ (i # 0 => i - 1 \in 0 .. m - 1 /\ i - 1 # m /\ i - 1 \in 0 .. m)
      BY <1>4, <2>2
    <3>2. f[i] = IF i = 0 THEN n ELSE f[i - 1] \div Base
      BY <1>5, <3>1 DEF RestsOf
    <3> QED
      BY <2>2, <3>1, <3>2
  <2> QED
    BY <2>1, <2>2
<1>9. RestsOf(n, m, g)
  BY <1>8 DEF RestsOf
<1> QED
  BY <1>2, <1>7, <1>9

(* Two solutions agree as far as both go. *)
LEMMA RestsAgree ==
  ASSUME NEW n \in Nat, NEW w \in Nat, NEW v \in Nat, w <= v,
         NEW f, RestsOf(n, w, f), NEW g, RestsOf(n, v, g)
  PROVE  \A i \in 0 .. w : f[i] = g[i]
<1> DEFINE T == {i \in 0 .. w : f[i] # g[i]}
<1>1. SUFFICES ASSUME T # {} PROVE FALSE
  OBVIOUS
<1> DEFINE m == Min(T)
<1>2. m \in T /\ \A k \in T : m <= k
  <2> T \in SUBSET Nat
    OBVIOUS
  <2> HIDE DEF T
  <2> QED
    BY <1>1, LeastNumber
<1> HIDE DEF m
<1>3. m \in 0 .. w /\ f[m] # g[m] /\ m \in 0 .. v
  BY <1>2
<1>4. m # 0
  BY <1>3 DEF RestsOf
<1>5. m - 1 \in 0 .. w /\ m - 1 \in 0 .. v /\ m - 1 \notin T
  BY <1>2, <1>3, <1>4
<1>6. f[m - 1] = g[m - 1]
  BY <1>5
<1>7. f[m] = f[m - 1] \div Base /\ g[m] = g[m - 1] \div Base
  BY <1>3, <1>4 DEF RestsOf
<1> QED
  BY <1>3, <1>6, <1>7

LEMMA HigherFacts ==
  ASSUME NEW n \in Nat, NEW w \in Nat
  PROVE  /\ Higher(n, w) \in Nat
         /\ Higher(n, 0) = n
         /\ Higher(n, w + 1) = Higher(n, w) \div Base
<1> DEFINE H(k) == CHOOSE f : RestsOf(n, k, f)
<1>1. \A k \in Nat : Higher(n, k) = H(k)[k]
  BY DEF Higher, RestsOf
<1>2. \A k \in Nat : RestsOf(n, k, H(k))
  BY RestsExist
<1> HIDE DEF H
<1>3. Higher(n, 0) = n
  BY <1>1, <1>2 DEF RestsOf
<1>4. PICK f \in [0 .. w -> Nat] : RestsOf(n, w, f)
  BY RestsExist
<1>5. Higher(n, w) \in Nat
  <2>1. f[w] = H(w)[w]
    BY <1>2, <1>4, RestsAgree
  <2> QED
    BY <1>1, <1>4, <2>1
<1>6. H(w)[w] = H(w + 1)[w]
  BY <1>2, RestsAgree
<1>7. H(w + 1)[w + 1] = H(w + 1)[w] \div Base
  <2>1. w + 1 \in 0 .. w + 1 /\ w + 1 # 0 /\ (w + 1) - 1 = w
    OBVIOUS
  <2> QED
    BY <1>2, <2>1 DEF RestsOf
<1> QED
  BY <1>1, <1>3, <1>5, <1>6, <1>7

LEMMA ToBytesFacts ==
  ASSUME NEW n \in Nat, NEW w \in Nat
  PROVE  /\ ToBytes(n, w) \in Seq(Byte) /\ ToBytes(n, w) \in Seq(Nat)
         /\ Len(ToBytes(n, w)) = w
         /\ \A i \in 1 .. w : ToBytes(n, w)[i] = Higher(n, i - 1) % Base
<1>1. \A i \in 1 .. w : Higher(n, i - 1) % Base \in Byte
  BY HigherFacts, DivisionFacts
<1>2. \A i \in 1 .. w : Higher(n, i - 1) % Base \in Nat
  BY <1>1, CodecAssumption DEF Byte
<1>3. ToBytes(n, w) \in Seq(Byte) /\ Len(ToBytes(n, w)) = w
  BY <1>1 DEF ToBytes
<1>4. ToBytes(n, w) \in Seq(Nat)
  BY <1>2 DEF ToBytes
<1> QED
  BY <1>3, <1>4 DEF ToBytes
-----------------------------------------------------------------------------
(* LittleEndian, a fold from the last byte to the first. *)

ValuesOf(s, lo, f) ==
  f = [S \in SUBSET (lo .. Len(s)) |->
         IF S = {} THEN 0 ELSE s[Min(S)] + Base * f[S \ {Min(S)}]]

LEMMA ValuesExist ==
  ASSUME NEW s \in Seq(Nat), NEW d \in 0 .. Len(s)
  PROVE  LET lo == Len(s) - d + 1
         IN  \E f : ValuesOf(s, lo, f)
<1> DEFINE N == Len(s)
           From(k) == N - k + 1
           Ok(k) == \E f : ValuesOf(s, From(k), f)
           T == {k \in 0 .. N : ~Ok(k)}
<1>0. N \in Nat
  BY LenProperties
<1>1. SUFFICES ASSUME T # {} PROVE FALSE
  OBVIOUS
<1> DEFINE m == Min(T)
<1>2. m \in T /\ \A k \in T : m <= k
  <2> T \in SUBSET Nat
    BY <1>0
  <2> HIDE DEF T
  <2> QED
    BY <1>1, LeastNumber
<1> HIDE DEF m
<1>3. m # 0
  <2> DEFINE f == [S \in SUBSET (From(0) .. N) |-> 0]
  <2>1. SUBSET (From(0) .. N) = {{}}
    BY <1>0
  <2>2. ValuesOf(s, From(0), f)
    BY <2>1 DEF ValuesOf
  <2> QED
    BY <1>2, <2>2
<1>4. m \in 0 .. N /\ m - 1 \in 0 .. N /\ m - 1 \notin T
  <2>1. m \in 0 .. N
    BY <1>2
  <2> HIDE DEF T
  <2> QED
    BY <1>0, <1>2, <1>3, <2>1
<1> DEFINE lo == From(m)
<1>5. From(m - 1) = lo + 1 /\ lo \in 1 .. N
  BY <1>0, <1>3, <1>4
<1>6. PICK f : ValuesOf(s, lo + 1, f)
  BY <1>4, <1>5
<1> HIDE DEF lo, N
<1> DEFINE g == [S \in SUBSET (lo .. N) |->
                   IF lo \in S THEN s[lo] + Base * f[S \ {lo}] ELSE f[S]]
<1>8. ASSUME NEW S \in SUBSET (lo .. N)
      PROVE  /\ S \ {lo} \in SUBSET (lo + 1 .. N)
             /\ lo \notin S => S \in SUBSET (lo + 1 .. N)
  <2>1. \A i \in lo .. N : i # lo => i \in lo + 1 .. N
    BY <1>0, <1>5
  <2> QED
    BY <2>1
<1>10. ASSUME NEW S \in SUBSET (lo .. N)
       PROVE  g[S] = IF S = {} THEN 0 ELSE s[Min(S)] + Base * g[S \ {Min(S)}]
  <2>1. CASE lo \in S
    <3>1. Min(S) = lo
      <4>1. S \in SUBSET Nat /\ S # {} /\ \A i \in S : lo <= i
        BY <1>0, <1>5, <2>1
      <4> DEFINE n == Min(S)
      <4>2. n \in S /\ n <= lo
        BY <2>1, <4>1, LeastNumber
      <4> HIDE DEF n
      <4>3. n = lo
        BY <1>0, <1>5, <4>1, <4>2
      <4> QED
        BY <4>3 DEF n
    <3>2. g[S \ {lo}] = f[S \ {lo}]
      OBVIOUS
    <3> QED
      BY <2>1, <3>1, <3>2
  <2>2. CASE lo \notin S
    <3>1. S \in SUBSET (lo + 1 .. N)
      BY <1>8, <2>2
    <3>2. f[S] = IF S = {} THEN 0 ELSE s[Min(S)] + Base * f[S \ {Min(S)}]
      BY <1>6, <3>1 DEF ValuesOf, N
    <3>3. g[S] = f[S] /\ g[S \ {Min(S)}] = f[S \ {Min(S)}]
      BY <2>2
    <3> QED
      BY <3>2, <3>3
  <2> QED
    BY <2>1, <2>2
<1>11. ValuesOf(s, lo, g)
  BY <1>10 DEF ValuesOf, N
<1> QED
  BY <1>2, <1>11 DEF lo, N

(* The value of the bytes from the i-th on. *)
LEMMA LittleEndianFacts ==
  ASSUME NEW s \in Seq(Nat)
  PROVE  \E v \in [1 .. Len(s) + 1 -> Nat] :
           /\ v[Len(s) + 1] = 0
           /\ \A i \in 1 .. Len(s) : v[i] = s[i] + Base * v[i + 1]
           /\ LittleEndian(s) = v[1]
<1> DEFINE N == Len(s)
<1>1. N \in Nat /\ DOMAIN s = 1 .. N
  BY LenProperties
<1>2. \E f : ValuesOf(s, 1, f)
  <2>1. N \in 0 .. N /\ N - N + 1 = 1
    BY <1>1
  <2> QED
    BY <2>1, ValuesExist
<1> DEFINE f == CHOOSE h : ValuesOf(s, 1, h)
           v == [i \in 1 .. N + 1 |-> f[i .. N]]
<1>3. LittleEndian(s) = f[1 .. N] /\ ValuesOf(s, 1, f)
  BY <1>1, <1>2 DEF LittleEndian, FoldRight, MapThenFoldSet, ValuesOf
<1> HIDE DEF f
<1>4. v[N + 1] = 0 /\ LittleEndian(s) = v[1]
  <2>1. N + 1 .. N = {} /\ N + 1 \in 1 .. N + 1 /\ 1 \in 1 .. N + 1
    BY <1>1
  <2>2. f[{}] = 0
    BY <1>3 DEF ValuesOf
  <2> QED
    BY <1>3, <2>1, <2>2
<1>5. ASSUME NEW i \in 1 .. N
      PROVE  v[i] = s[i] + Base * v[i + 1]
  <2> DEFINE S == i .. N
             n == Min(S)
  <2>1. S \in SUBSET Nat /\ i \in S /\ S \in SUBSET (1 .. N)
    BY <1>1
  <2>2. n \in S /\ n <= i
    BY <2>1, LeastNumber
  <2>3. n = i
    <3> HIDE DEF n
    <3> QED
      BY <1>1, <2>2
  <2>4. S \ {i} = i + 1 .. N
    BY <1>1
  <2>5. f[S] = s[n] + Base * f[S \ {n}]
    BY <1>3, <2>1 DEF ValuesOf
  <2>6. i \in 1 .. N + 1 /\ i + 1 \in 1 .. N + 1
    BY <1>1
  <2> HIDE DEF n
  <2> QED
    BY <2>3, <2>4, <2>5, <2>6
<1>6. v \in [1 .. N + 1 -> Nat]
  <2> DEFINE T == {d \in 0 .. N : v[N + 1 - d] \notin Nat}
  <2> HIDE DEF v
  <2>1. T = {}
    <3> SUFFICES ASSUME T # {} PROVE FALSE
      OBVIOUS
    <3> DEFINE m == Min(T)
    <3>1. m \in T /\ \A k \in T : m <= k
      <4> T \in SUBSET Nat
        BY <1>1
      <4> HIDE DEF T
      <4> QED
        BY LeastNumber
    <3> HIDE DEF m
    <3>2. m \in 0 .. N /\ v[N + 1 - m] \notin Nat
      BY <3>1
    <3>3. m # 0
      BY <1>1, <1>4, <3>2
    <3>4. m - 1 \in 0 .. N /\ m - 1 \notin T
      <4> HIDE DEF T
      <4> QED
        BY <1>1, <3>1, <3>2, <3>3
    <3> DEFINE i == N + 1 - m
    <3>5. i \in 1 .. N /\ i + 1 = N + 1 - (m - 1)
      BY <1>1, <3>2, <3>3
    <3>6. v[i + 1] \in Nat
      BY <3>4, <3>5
    <3>7. s[i] \in Nat /\ v[i] = s[i] + Base * v[i + 1]
      BY <1>5, <3>5, ElementOfSeq
    <3> HIDE DEF i
    <3>8. \A a, b \in Nat : b + Base * a \in Nat
      <4>1. \A a \in Nat : Base * a \in Nat
        BY CodecAssumption
      <4>2. \A b, c \in Nat : b + c \in Nat
        OBVIOUS
      <4> QED
        BY <4>1, <4>2
    <3>9. v[i] \in Nat
      BY <3>6, <3>7, <3>8
    <3> QED
      BY <3>2, <3>9 DEF i
  <2>2. ASSUME NEW i \in 1 .. N + 1 PROVE v[i] \in Nat
    <3>1. N + 1 - i \in 0 .. N /\ N + 1 - (N + 1 - i) = i
      BY <1>1
    <3> QED
      BY <2>1, <3>1
  <2> QED
    BY <2>2 DEF v
<1> QED
  BY <1>4, <1>5, <1>6

(* Reading back what was written. *)
LEMMA LittleEndianOfBytes ==
  ASSUME NEW n \in Nat, NEW w \in Nat, Fits(n, w)
  PROVE  LittleEndian(ToBytes(n, w)) = n
<1> DEFINE s == ToBytes(n, w)
<1>1. s \in Seq(Nat) /\ Len(s) = w /\ \A i \in 1 .. w : s[i] = Higher(n, i - 1) % Base
  BY ToBytesFacts
<1> HIDE DEF s
<1>2. PICK v \in [1 .. w + 1 -> Nat] :
        /\ v[w + 1] = 0
        /\ \A i \in 1 .. w : v[i] = s[i] + Base * v[i + 1]
        /\ LittleEndian(s) = v[1]
  BY <1>1, LittleEndianFacts
<1> DEFINE T == {d \in 0 .. w : v[w + 1 - d] # Higher(n, w - d)}
<1>3. T = {}
  <2> SUFFICES ASSUME T # {} PROVE FALSE
    OBVIOUS
  <2> DEFINE m == Min(T)
  <2>1. m \in T /\ \A k \in T : m <= k
    <3> T \in SUBSET Nat
      OBVIOUS
    <3> HIDE DEF T
    <3> QED
      BY LeastNumber
  <2> HIDE DEF m
  <2>2. m \in 0 .. w /\ v[w + 1 - m] # Higher(n, w - m)
    BY <2>1
  <2>3. m # 0
    BY <1>2, <2>2 DEF Fits
  <2>4. m - 1 \in 0 .. w /\ m - 1 \notin T
    <3> HIDE DEF T
    <3> QED
      BY <2>1, <2>2, <2>3
  <2> DEFINE i == w + 1 - m
             high == Higher(n, i - 1)
  <2>5. i \in 1 .. w /\ i + 1 = w + 1 - (m - 1) /\ i = w - (m - 1) /\ i - 1 = w - m
        /\ i - 1 \in Nat /\ (i - 1) + 1 = i
    BY <2>2, <2>3
  <2>6. v[i + 1] = Higher(n, i)
    BY <2>4, <2>5
  <2> HIDE DEF i
  <2>7. high \in Nat /\ Higher(n, i) = high \div Base
    BY <2>5, HigherFacts
  <2>8. v[i] = (high % Base) + Base * (high \div Base)
    BY <1>1, <1>2, <2>5, <2>6, <2>7
  <2>9. v[i] = high
    <3> HIDE DEF high
    <3> QED
      BY <2>7, <2>8, DivisionFacts
  <2> QED
    BY <2>2, <2>5, <2>9 DEF i
<1>4. v[1] = Higher(n, 0)
  <2>1. w \in 0 .. w /\ w + 1 - w = 1 /\ w - w = 0
    OBVIOUS
  <2>2. w \notin T
    BY <1>3
  <2> QED
    BY <2>1, <2>2
<1> QED
  BY <1>2, <1>4, HigherFacts DEF s

(* A smaller number fits wherever a greater one does. *)
LEMMA FitsBelow ==
  ASSUME NEW n \in Nat, NEW k \in Nat, k <= n, NEW w \in Nat, Fits(n, w)
  PROVE  Fits(k, w)
<1> DEFINE T == {i \in 0 .. w : ~(Higher(k, i) <= Higher(n, i))}
<1>1. T = {}
  <2> SUFFICES ASSUME T # {} PROVE FALSE
    OBVIOUS
  <2> DEFINE m == Min(T)
  <2>1. m \in T /\ \A i \in T : m <= i
    <3> T \in SUBSET Nat
      OBVIOUS
    <3> HIDE DEF T
    <3> QED
      BY LeastNumber
  <2> HIDE DEF m
  <2>2. m \in 0 .. w /\ ~(Higher(k, m) <= Higher(n, m))
    BY <2>1
  <2>3. m # 0
    BY <2>2, HigherFacts
  <2>4. m - 1 \in 0 .. w /\ m - 1 \notin T
    <3> HIDE DEF T
    <3> QED
      BY <2>1, <2>2, <2>3
  <2> DEFINE a == Higher(k, m - 1)
             b == Higher(n, m - 1)
  <2>5. m - 1 \in Nat /\ (m - 1) + 1 = m /\ a <= b
    BY <2>2, <2>4
  <2>6. /\ a \in Nat /\ b \in Nat
        /\ Higher(k, m) = a \div Base /\ Higher(n, m) = b \div Base
    BY <2>5, HigherFacts
  <2> HIDE DEF a, b
  <2>7. a \div Base <= b \div Base
    BY <2>5, <2>6, CodecAssumption
  <2> QED
    BY <2>2, <2>6, <2>7
<1>2. Higher(k, w) <= 0
  <2>1. w \in 0 .. w /\ w \notin T
    BY <1>1
  <2> QED
    BY <2>1 DEF Fits
<1>3. Higher(k, w) \in Nat
  BY HigherFacts
<1> DEFINE high == Higher(k, w)
<1>4. high = 0
  <2>1. high \in Nat /\ high <= 0
    BY <1>2, <1>3
  <2> HIDE DEF high
  <2> QED
    BY <2>1
<1> QED
  BY <1>4 DEF Fits

-----------------------------------------------------------------------------
(* Sizes and heights, read where they were written. *)

(* As far as s goes it says what t says. *)
Agrees(s, t) == \A i \in 1 .. Len(t) : i <= Len(s) => s[i] = t[i]

LEMMA ReadTagged ==
  ASSUME NEW n \in Nat, NEW w \in Nat, Fits(n, w), NEW tag \in Nat,
         NEW s \in Seq(Nat), Agrees(s, << tag >> \o ToBytes(n, w))
  PROVE  /\ Len(<< tag >> \o ToBytes(n, w)) = 1 + w
         /\ s # << >> => s[1] = tag
         /\ ~(Len(s) < 1 + w) => LittleEndian(SubSeq(s, 2, 1 + w)) = n
<1> DEFINE bytes == ToBytes(n, w)
           t == << tag >> \o bytes
<1>1. /\ bytes \in Seq(Nat) /\ Len(bytes) = w /\ << tag >> \in Seq(Nat) /\ Len(<< tag >>) = 1
      /\ Len(s) \in Nat
  BY ToBytesFacts, LenProperties
<1>2. /\ Len(t) = 1 + w
      /\ \A i \in 1 .. 1 + w : t[i] = IF i <= 1 THEN << tag >>[i] ELSE bytes[i - 1]
  <2> HIDE DEF bytes
  <2> QED
    BY <1>1, ConcatProperties
<1> HIDE DEF bytes, t
<1>3. Agrees(s, t)
  BY DEF t, bytes
<1>4. ASSUME s # << >> PROVE s[1] = tag
  <2>1. 1 <= Len(s) /\ 1 \in 1 .. 1 + w
    BY <1>1, <1>4, EmptySeq
  <2>2. t[1] = tag
    BY <1>2, <2>1
  <2> QED
    BY <1>2, <1>3, <2>1, <2>2 DEF Agrees
<1>5. ASSUME ~(Len(s) < 1 + w) PROVE SubSeq(s, 2, 1 + w) = bytes
  <2>1. \A i \in 2 .. 1 + w : s[i] \in Nat /\ s[i] = bytes[i - 1]
    <3> TAKE i \in 2 .. 1 + w
    <3>1. i \in 1 .. Len(s) /\ i \in 1 .. 1 + w /\ ~(i <= 1) /\ i <= Len(s)
      BY <1>1, <1>5
    <3> QED
      BY <1>2, <1>3, <3>1, ElementOfSeq DEF Agrees
  <2> DEFINE part == SubSeq(s, 2, 1 + w)
  <2>2. /\ part \in Seq(Nat)
        /\ Len(part) = IF 2 <= 1 + w THEN (1 + w) - 2 + 1 ELSE 0
        /\ \A i \in 1 .. (1 + w) - 2 + 1 : part[i] = s[2 + i - 1]
    <3>1. 2 \in Int /\ 1 + w \in Int
      OBVIOUS
    <3> HIDE DEF part
    <3> QED
      BY <2>1, <3>1, SubSeqProperties DEF part
  <2> HIDE DEF part
  <2>3. Len(part) = w
    BY <2>2
  <2>4. \A i \in 1 .. w : part[i] = bytes[i]
    <3> TAKE i \in 1 .. w
    <3>1. i \in 1 .. (1 + w) - 2 + 1 /\ 2 + i - 1 \in 2 .. 1 + w /\ (2 + i - 1) - 1 = i
      OBVIOUS
    <3> QED
      BY <2>1, <2>2, <3>1
  <2>5. part = bytes
    BY <1>1, <2>2, <2>3, <2>4, SeqEqual
  <2> QED
    BY <2>5 DEF part
<1>6. LittleEndian(bytes) = n
  BY LittleEndianOfBytes DEF bytes
<1> QED
  BY <1>2, <1>4, <1>5, <1>6 DEF t, bytes

(* A size is one byte, or a tag and its bytes. *)
LEMMA WriteCompactSizeFacts ==
  ASSUME NEW n \in Nat, Fits(n, Wide[2])
  PROVE  /\ WriteCompactSize(n) \in Seq(Nat)
         /\ Len(WriteCompactSize(n)) \in Nat \ {0}
         /\ \/ n < Base - 3 /\ WriteCompactSize(n) = << n >>
            \/ \E k \in {1, 2} :
                 /\ Fits(n, Wide[k])
                 /\ WriteCompactSize(n) = << Base - 4 + k >> \o ToBytes(n, Wide[k])
<1>1. Base \in Nat /\ Base > 4 /\ Wide[1] \in Nat \ {0} /\ Wide[2] \in Nat \ {0}
  BY CodecAssumption
<1>2. CASE n < Base - 3
  <2>1. ~(n >= Base - 3)
    BY <1>1, <1>2
  <2>2. WriteCompactSize(n) = << n >>
    BY <1>2, <2>1 DEF WriteCompactSize
  <2>3. << n >> \in Seq(Nat) /\ Len(<< n >>) = 1
    OBVIOUS
  <2> QED
    BY <1>2, <2>2, <2>3
<1>3. ASSUME NEW k \in {1, 2}
      PROVE  LET t == << Base - 4 + k >> \o ToBytes(n, Wide[k])
             IN  t \in Seq(Nat) /\ Len(t) \in Nat \ {0}
  <2> DEFINE tag == Base - 4 + k
             w == Wide[k]
             bytes == ToBytes(n, w)
  <2>1. tag \in Nat /\ w \in Nat \ {0}
    BY <1>1
  <2> HIDE DEF tag, w
  <2>2. bytes \in Seq(Nat) /\ Len(bytes) = w
    BY <2>1, ToBytesFacts
  <2> HIDE DEF bytes
  <2>3. << tag >> \in Seq(Nat) /\ Len(<< tag >>) = 1
    BY <2>1
  <2>4. << tag >> \o bytes \in Seq(Nat) /\ Len(<< tag >> \o bytes) = 1 + w
    BY <2>2, <2>3, ConcatProperties
  <2>5. 1 + w \in Nat \ {0}
    BY <2>1
  <2> QED
    BY <2>4, <2>5 DEF tag, w, bytes
<1>4. CASE ~(n < Base - 3) /\ Fits(n, Wide[1])
  <2>1. n >= Base - 3 /\ Base - 3 = Base - 4 + 1
    BY <1>1, <1>4
  <2>2. WriteCompactSize(n) = << Base - 4 + 1 >> \o ToBytes(n, Wide[1])
    BY <1>4, <2>1 DEF WriteCompactSize
  <2> QED
    BY <1>3, <1>4, <2>2
<1>5. CASE ~(n < Base - 3) /\ ~Fits(n, Wide[1])
  <2>1. Base - 2 = Base - 4 + 2
    BY <1>1
  <2>2. WriteCompactSize(n) = << Base - 4 + 2 >> \o ToBytes(n, Wide[2])
    BY <1>5, <2>1 DEF WriteCompactSize
  <2> QED
    BY <1>3, <2>2
<1> QED
  BY <1>2, <1>4, <1>5

(* A size is read back if all of it is there, and found cut short if not. *)
LEMMA ReadCompactSizeFacts ==
  ASSUME NEW n \in Nat, Fits(n, Wide[2]), NEW s \in Seq(Nat),
         Agrees(s, WriteCompactSize(n))
  PROVE  ReadCompactSize(s) = IF Len(s) < Len(WriteCompactSize(n))
                              THEN Short
                              ELSE [value |-> n, used |-> Len(WriteCompactSize(n))]
<1>1. Base \in Nat /\ Base > 4 /\ Wide[1] \in Nat \ {0} /\ Wide[2] \in Nat \ {0}
  BY CodecAssumption
<1>2. Len(s) \in Nat /\ (Len(s) = 0 <=> s = << >>)
  BY LenProperties, EmptySeq
<1>3. CASE n < Base - 3 /\ WriteCompactSize(n) = << n >>
  <2>1. << n >> \in Seq(Nat) /\ Len(<< n >>) = 1 /\ << n >>[1] = n
    OBVIOUS
  <2>2. s # << >> => s[1] = n
    BY <1>2, <1>3, <2>1 DEF Agrees
  <2>3. ReadCompactSize(s) = IF s = << >> THEN Short ELSE [value |-> n, used |-> 1]
    BY <1>3, <2>2 DEF ReadCompactSize
  <2>4. Len(s) < 1 <=> s = << >>
    BY <1>2
  <2> QED
    BY <1>3, <2>1, <2>3, <2>4
<1>4. ASSUME NEW k \in {1, 2}, Fits(n, Wide[k]),
             WriteCompactSize(n) = << Base - 4 + k >> \o ToBytes(n, Wide[k])
      PROVE  ReadCompactSize(s) = IF Len(s) < Len(WriteCompactSize(n))
                                  THEN Short
                                  ELSE [value |-> n, used |-> Len(WriteCompactSize(n))]
  <2> DEFINE tag == Base - 4 + k
             w == Wide[k]
  <2>1. tag \in Nat /\ w \in Nat \ {0} /\ ~(tag < Base - 3) /\ tag - (Base - 4) = k
    BY <1>1
  <2> HIDE DEF tag, w
  <2>2. /\ Len(WriteCompactSize(n)) = 1 + w
        /\ s # << >> => s[1] = tag
        /\ ~(Len(s) < 1 + w) => LittleEndian(SubSeq(s, 2, 1 + w)) = n
    BY <1>4, <2>1, ReadTagged DEF tag, w
  <2>3. s = << >> => Len(s) < 1 + w
    BY <1>2, <2>1
  <2>4. ReadCompactSize(s) = IF Len(s) < 1 + w THEN Short ELSE [value |-> n, used |-> 1 + w]
    <3>1. CASE s = << >>
      BY <2>3, <3>1 DEF ReadCompactSize
    <3>2. CASE s # << >>
      <4>1. Wide[s[1] - (Base - 4)] = w /\ ~(s[1] < Base - 3)
        BY <2>1, <2>2, <3>2 DEF w
      <4> QED
        BY <2>2, <3>2, <4>1 DEF ReadCompactSize
    <3> QED
      BY <3>1, <3>2
  <2> QED
    BY <2>2, <2>4
<1> QED
  BY <1>3, <1>4, WriteCompactSizeFacts

(* What is pushed for a number is what is read back, when all of it is in  *)
(* front of the script.                                                    *)
LEMMA NumberPushFacts ==
  ASSUME NEW n \in Nat, \E w \in 1 .. MaxPush : Fits(2 * n, w),
         NEW script \in Seq(Nat), IsPrefix(NumberPush(n), script)
  PROVE  PushedNumber(script) = n
<1> DEFINE T == {w \in 1 .. MaxPush : Fits(2 * n, w)}
           width == Min(T)
           t == NumberPush(n)
<1>1. MaxPush \in Nat /\ Op1 \in Nat /\ OpLast \in Nat /\ MaxPush < Op1
  BY CodecAssumption
<1>2. width \in 1 .. MaxPush /\ Fits(2 * n, width)
  <2>1. T \in SUBSET Nat /\ T # {}
    BY <1>1
  <2>2. width \in T
    BY <2>1, LeastNumber
  <2> QED
    BY <2>2
<1>3. t = << width >> \o ToBytes(n, width)
  BY DEF NumberPush
<1> HIDE DEF T, width, t
<1>4. width \in Nat /\ width # 0 /\ ~(width > MaxPush) /\ width \notin Op1 .. OpLast
  BY <1>1, <1>2
<1>5. Fits(n, width)
  <2>1. 2 * n \in Nat /\ n <= 2 * n
    OBVIOUS
  <2> QED
    BY <1>2, <1>4, <2>1, FitsBelow
<1>6. t \in Seq(Nat)
  <2>1. << width >> \in Seq(Nat) /\ ToBytes(n, width) \in Seq(Nat)
    BY <1>4, ToBytesFacts
  <2> QED
    BY <1>3, <2>1, ConcatProperties
<1>7. Len(t) <= Len(script) /\ SubSeq(t, 1, Len(t)) = SubSeq(script, 1, Len(t))
  BY DEF IsPrefix, t
<1>8. Agrees(script, t)
  <2>1. Len(t) \in Nat /\ Len(script) \in Nat
    BY <1>6, LenProperties
  <2>2. \A i \in 1 .. Len(t) : t[i] \in Nat /\ script[i] \in Nat
    BY <1>6, <1>7, <2>1, ElementOfSeq
  <2>3. \A i \in 1 .. Len(t) - 1 + 1 : /\ SubSeq(t, 1, Len(t))[i] = t[1 + i - 1]
                                       /\ SubSeq(script, 1, Len(t))[i] = script[1 + i - 1]
    BY <2>1, <2>2, SubSeqProperties
  <2>4. \A i \in 1 .. Len(t) : i \in 1 .. Len(t) - 1 + 1 /\ 1 + i - 1 = i
    BY <2>1
  <2> QED
    BY <1>7, <2>3, <2>4 DEF Agrees
<1>9. /\ Len(t) = 1 + width
      /\ script # << >> => script[1] = width
      /\ ~(Len(script) < 1 + width) => LittleEndian(SubSeq(script, 2, 1 + width)) = n
  BY <1>3, <1>4, <1>5, <1>8, ReadTagged
<1>10. ~(Len(script) < 1 + width) /\ script # << >>
  BY <1>4, <1>7, <1>9, LenProperties, EmptySeq
<1> QED
  BY <1>4, <1>9, <1>10 DEF PushedNumber

(* A block whose coinbase states a height is read as having that height.   *)
LEMMA HeightRead ==
  ASSUME NEW h \in Nat \ {GenesisBits}, \E w \in 1 .. MaxPush : Fits(2 * h, w),
         NEW script \in Seq(Nat), IsPrefix(HeightScript(h), script)
  PROVE  CoinbaseHeight(script) = h
<1>1. CASE h = 0
  <2>1. HeightScript(h) = NumberPush(GenesisBits)
    BY <1>1, CodecAssumption DEF HeightScript
  <2>2. PushedNumber(script) = GenesisBits
    BY <2>1, NumberPushFacts, CodecAssumption, BlockAssumption
  <2> QED
    BY <1>1, <2>2 DEF CoinbaseHeight
<1>2. CASE h \in 1 .. OpLast - Op1 + 1
  <2>1. /\ Op1 \in Nat /\ OpLast \in Nat /\ Op1 # 0
        /\ h # 0 /\ h + Op1 - 1 \in Op1 .. OpLast /\ h + Op1 - 1 # 0
        /\ (h + Op1 - 1) - (Op1 - 1) = h
    BY <1>2, CodecAssumption
  <2>2. HeightScript(h) = << h + Op1 - 1 >>
    BY <1>2, <2>1 DEF HeightScript
  <2> DEFINE op == h + Op1 - 1
  <2> HIDE DEF op
  <2>3. /\ << op >> \in Seq(Nat) /\ Len(<< op >>) = 1 /\ << op >>[1] = op
    BY <2>1 DEF op
  <2>4. Len(<< op >>) <= Len(script) /\ SubSeq(<< op >>, 1, 1) = SubSeq(script, 1, 1)
    BY <2>2, <2>3 DEF IsPrefix, op
  <2>5. script # << >> /\ Len(script) \in Nat /\ 1 \in 1 .. Len(script)
    BY <2>3, <2>4, LenProperties, EmptySeq
  <2>6. script[1] = op
    <3>1. script[1] \in Nat /\ << op >>[1] \in Nat
      BY <2>1, <2>3, <2>5, ElementOfSeq DEF op
    <3>2. \A i \in 1 .. 1 : script[i] \in Nat /\ << op >>[i] \in Nat
      BY <3>1
    <3>3. \A i \in 1 .. 1 - 1 + 1 : /\ SubSeq(<< op >>, 1, 1)[i] = << op >>[1 + i - 1]
                                   /\ SubSeq(script, 1, 1)[i] = script[1 + i - 1]
      BY <3>2, SubSeqProperties
    <3>4. 1 \in 1 .. 1 - 1 + 1 /\ 1 + 1 - 1 = 1
      OBVIOUS
    <3>5. SubSeq(<< op >>, 1, 1)[1] = << op >>[1] /\ SubSeq(script, 1, 1)[1] = script[1]
      BY <3>3, <3>4
    <3> QED
      BY <2>3, <2>4, <3>5
  <2>7. PushedNumber(script) = h
    BY <2>1, <2>5, <2>6 DEF PushedNumber, op
  <2> QED
    BY <2>7 DEF CoinbaseHeight
<1>3. CASE h # 0 /\ h \notin 1 .. OpLast - Op1 + 1
  <2>1. HeightScript(h) = NumberPush(h)
    BY <1>3 DEF HeightScript
  <2>2. PushedNumber(script) = h
    BY <2>1, NumberPushFacts
  <2> QED
    BY <2>2 DEF CoinbaseHeight
<1> QED
  BY <1>1, <1>2, <1>3

LEMMA BlockHeight ==
  ASSUME NEW b \in Blocks, b.txs # << >>
  PROVE  CoinbaseHeight(b.txs[1].script) = b.height
<1> DEFINE tx == b.txs[1]
<1>1. tx \in Tx
  <2>1. b.txs \in Seq(Tx)
    BY BlockAssumption
  <2>2. 1 \in 1 .. Len(b.txs)
    BY <2>1, EmptySeq
  <2> QED
    BY <2>1, <2>2, ElementOfSeq
<1>2. tx.script \in Seq(Nat)
  <2>1. Byte \subseteq Nat
    BY CodecAssumption DEF Byte
  <2>2. tx.script \in Seq(Byte)
    BY <1>1 DEF Tx
  <2> QED
    BY <2>1, <2>2, SeqMonotonic
<1>3. CASE b.height = -1
  <2>1. PushedNumber(tx.script) = -1
    BY <1>3, BlockAssumption
  <2>2. GenesisBits # -1
    BY CodecAssumption
  <2> QED
    BY <1>3, <2>1, <2>2 DEF CoinbaseHeight
<1>4. CASE b.height # -1
  <2>1. /\ b.height \in Nat \ {GenesisBits}
        /\ \E w \in 1 .. MaxPush : Fits(2 * b.height, w)
        /\ IsPrefix(HeightScript(b.height), tx.script)
    BY <1>4, BlockAssumption
  <2> QED
    BY <1>2, <2>1, HeightRead
<1> QED
  BY <1>3, <1>4
-----------------------------------------------------------------------------
(* The bytes in front of the transactions. *)

(* The end of the equihash solution. *)
SolutionEnd(b) == HeaderPrefix + Len(WriteCompactSize(b.solution)) + b.solution

LEMMA SerialHeadFacts ==
  ASSUME NEW b \in Blocks
  PROVE  LET head == SerialHead(b)
             first == WriteCompactSize(b.solution)
             second == WriteCompactSize(Len(b.txs))
         IN  /\ head \in Seq(Nat)
             /\ Len(first) \in Nat \ {0} /\ Len(second) \in Nat \ {0}
             /\ SolutionEnd(b) \in Nat
             /\ Len(head) = SolutionEnd(b) + Len(second)
             /\ \A i \in 1 .. Len(first) : head[HeaderPrefix + i] = first[i]
             /\ \A i \in 1 .. Len(second) : head[SolutionEnd(b) + i] = second[i]
<1> DEFINE zeros(k) == [i \in 1 .. k |-> 0]
           first == WriteCompactSize(b.solution)
           second == WriteCompactSize(Len(b.txs))
           solution == b.solution
           p == zeros(HeaderPrefix)
           q == p \o first
           z == zeros(solution)
           r == q \o z
<1>1. HeaderPrefix \in Nat /\ solution \in Nat /\ Len(b.txs) \in Nat
  BY CodecAssumption, BlockAssumption, LenProperties
<1>2. \A k \in Nat : zeros(k) \in Seq(Nat) /\ Len(zeros(k)) = k
  OBVIOUS
<1>3. /\ first \in Seq(Nat) /\ Len(first) \in Nat \ {0}
      /\ second \in Seq(Nat) /\ Len(second) \in Nat \ {0}
  BY <1>1, BlockAssumption, WriteCompactSizeFacts
<1>4. SerialHead(b) = r \o second
  BY DEF SerialHead
<1>5. p \in Seq(Nat) /\ Len(p) = HeaderPrefix
  BY <1>1, <1>2
<1>5a. z \in Seq(Nat) /\ Len(z) = solution
  BY <1>1, <1>2
<1> DEFINE m == Len(first)
           n == Len(second)
<1>6. m \in Nat \ {0} /\ n \in Nat \ {0}
  BY <1>3
<1> HIDE DEF zeros, first, second, p, m, n, solution, z
<1>7. /\ q \in Seq(Nat) /\ Len(q) = HeaderPrefix + m
      /\ \A i \in 1 .. HeaderPrefix + m : q[i] = IF i <= HeaderPrefix THEN p[i] ELSE first[i - HeaderPrefix]
  BY <1>3, <1>5, ConcatProperties DEF m
<1> HIDE DEF q
<1> DEFINE l == HeaderPrefix + m
<1>7a. q \in Seq(Nat) /\ Len(q) = l
  BY <1>7
<1> HIDE DEF l
<1>8. /\ r \in Seq(Nat) /\ Len(r) = l + solution
      /\ \A i \in 1 .. l + solution : r[i] = IF i <= l THEN q[i] ELSE z[i - l]
  BY <1>5a, <1>7a, ConcatProperties
<1> DEFINE E == l + solution
           head == r \o second
<1>8a. r \in Seq(Nat) /\ Len(r) = E
  BY <1>8
<1> HIDE DEF r, E
<1>9. /\ head \in Seq(Nat) /\ Len(head) = E + n
      /\ \A i \in 1 .. E + n : head[i] = IF i <= E THEN r[i] ELSE second[i - E]
  BY <1>8a, <1>3, ConcatProperties DEF n
<1> HIDE DEF head
<1>10. ASSUME NEW i \in 1 .. m PROVE head[HeaderPrefix + i] = first[i]
  <2> DEFINE j == HeaderPrefix + i
  <2>1. /\ j \in 1 .. E + n /\ j <= E
        /\ j \in 1 .. l + solution /\ j <= l
        /\ j \in 1 .. HeaderPrefix + m /\ ~(j <= HeaderPrefix) /\ j - HeaderPrefix = i
    BY <1>1, <1>6 DEF l, E
  <2> HIDE DEF j
  <2> QED
    BY <1>7, <1>8, <1>9, <2>1 DEF j
<1>11. ASSUME NEW i \in 1 .. n PROVE head[E + i] = second[i]
  <2> DEFINE j == E + i
  <2>1. j \in 1 .. E + n /\ ~(j <= E) /\ j - E = i
    BY <1>1, <1>6 DEF l, E
  <2> HIDE DEF j
  <2> QED
    BY <1>9, <2>1 DEF j
<1>12. SolutionEnd(b) = E /\ E \in Nat
  BY <1>1, <1>6 DEF SolutionEnd, m, first, solution, l, E
<1> QED
  BY <1>3, <1>4, <1>9, <1>10, <1>11, <1>12 DEF head, m, n, first, second
-----------------------------------------------------------------------------
(* CommitmentCounts, a fold from the first transaction to the last. *)

TalliesOf(s, k, f) ==
  f = [S \in SUBSET (1 .. k) |->
         IF S = {} THEN ZeroSizes ELSE SaturatingAdd(f[S \ {Max(S)}], s[Max(S)].notes)]

LEMMA GreatestNumber ==
  ASSUME NEW k \in Nat, NEW S \in SUBSET (1 .. k), k \in S
  PROVE  Max(S) = k
<1> DEFINE P(x) == x \in S /\ \A y \in S : x >= y
           m == CHOOSE x : P(x)
<1>1. P(k)
  OBVIOUS
<1>2. P(m)
  BY <1>1
<1>3. Max(S) = m
  BY DEF Max
<1> HIDE DEF m
<1>4. m \in 1 .. k /\ m >= k
  BY <1>2
<1> QED
  BY <1>3, <1>4

LEMMA TalliesExist ==
  ASSUME NEW s, NEW n \in Nat
  PROVE  \E f : TalliesOf(s, n, f)
<1> DEFINE T == {k \in 0 .. n : ~ \E f : TalliesOf(s, k, f)}
<1>1. SUFFICES ASSUME T # {} PROVE FALSE
  OBVIOUS
<1> DEFINE m == Min(T)
<1>2. m \in T /\ \A k \in T : m <= k
  <2> T \in SUBSET Nat
    OBVIOUS
  <2> HIDE DEF T
  <2> QED
    BY <1>1, LeastNumber
<1> HIDE DEF m
<1>3. m # 0
  <2> DEFINE f == [S \in SUBSET (1 .. 0) |-> ZeroSizes]
  <2>1. SUBSET (1 .. 0) = {{}}
    OBVIOUS
  <2>2. TalliesOf(s, 0, f)
    BY <2>1 DEF TalliesOf
  <2> QED
    BY <1>2, <2>2
<1>4. m \in Nat /\ m - 1 \in Nat /\ m - 1 \in 0 .. n /\ m - 1 \notin T
  <2>1. m \in 0 .. n
    BY <1>2
  <2> HIDE DEF T
  <2> QED
    BY <1>2, <1>3, <2>1
<1>5. PICK f : TalliesOf(s, m - 1, f)
  BY <1>4
<1> DEFINE g == [S \in SUBSET (1 .. m) |->
                   IF m \in S THEN SaturatingAdd(f[S \ {m}], s[m].notes) ELSE f[S]]
<1>6. ASSUME NEW S \in SUBSET (1 .. m)
      PROVE  g[S] = IF S = {} THEN ZeroSizes
                    ELSE SaturatingAdd(g[S \ {Max(S)}], s[Max(S)].notes)
  <2>1. CASE m \in S
    <3>1. Max(S) = m
      BY <1>4, <2>1, GreatestNumber
    <3>2. g[S \ {m}] = f[S \ {m}]
      OBVIOUS
    <3> QED
      BY <2>1, <3>1, <3>2
  <2>2. CASE m \notin S
    <3>1. S \in SUBSET (1 .. m - 1)
      <4>1. \A i \in 1 .. m : i # m => i \in 1 .. m - 1
        BY <1>4
      <4> QED
        BY <2>2, <4>1
    <3>2. f[S] = IF S = {} THEN ZeroSizes
                 ELSE SaturatingAdd(f[S \ {Max(S)}], s[Max(S)].notes)
      BY <1>5, <3>1 DEF TalliesOf
    <3>3. g[S] = f[S] /\ g[S \ {Max(S)}] = f[S \ {Max(S)}]
      BY <2>2
    <3> QED
      BY <3>2, <3>3
  <2> QED
    BY <2>1, <2>2
<1>7. TalliesOf(s, m, g)
  <2> HIDE DEF T
  <2> QED
    BY <1>6 DEF TalliesOf
<1> QED
  BY <1>2, <1>7

(* The sum of the commitments of the first i transactions. *)
LEMMA CommitmentCountsFacts ==
  ASSUME NEW S, NEW s \in Seq(S)
  PROVE  \E v : /\ v[0] = ZeroSizes
                /\ \A i \in 1 .. Len(s) : v[i] = SaturatingAdd(v[i - 1], s[i].notes)
                /\ CommitmentCounts(s) = v[Len(s)]
<1> DEFINE n == Len(s)
<1>1. n \in Nat /\ DOMAIN s = 1 .. n
  BY LenProperties
<1> DEFINE f == CHOOSE h : TalliesOf(s, n, h)
           v == [i \in 0 .. n |-> f[1 .. i]]
<1>2. TalliesOf(s, n, f)
  BY <1>1, TalliesExist
<1>3. CommitmentCounts(s) = f[1 .. n]
  BY <1>1 DEF CommitmentCounts, FoldLeft, MapThenFoldSet, TalliesOf
<1> HIDE DEF f, n
<1>4. v[0] = ZeroSizes /\ CommitmentCounts(s) = v[n]
  <2>1. 1 .. 0 = {} /\ 0 \in 0 .. n /\ n \in 0 .. n
    BY <1>1
  <2>2. f[{}] = ZeroSizes
    BY <1>2 DEF TalliesOf
  <2> QED
    BY <1>3, <2>1, <2>2
<1>5. ASSUME NEW i \in 1 .. n
      PROVE  v[i] = SaturatingAdd(v[i - 1], s[i].notes)
  <2> DEFINE I == 1 .. i
  <2>1. i \in Nat /\ i \in I /\ I # {} /\ I \in SUBSET (1 .. n) /\ i \in 0 .. n /\ i - 1 \in 0 .. n
    BY <1>1
  <2>2. Max(I) = i
    BY <2>1, GreatestNumber
  <2>3. I \ {i} = 1 .. i - 1
    BY <2>1
  <2>4. f[I] = SaturatingAdd(f[I \ {Max(I)}], s[Max(I)].notes)
    BY <1>2, <2>1 DEF TalliesOf
  <2> QED
    BY <2>1, <2>2, <2>3, <2>4
<1> QED
  BY <1>4, <1>5 DEF n

LEMMA SaturatingFacts ==
  ASSUME NEW c \in Sizes, NEW d \in Sizes
  PROVE  /\ SaturatingAdd(c, d) \in Sizes
         /\ IsZero(d) => SaturatingAdd(c, d) = c
<1>1. \A p \in Pools : c[p] \in 0 .. U32Max /\ d[p] \in 0 .. U32Max
  BY DEF Sizes
<1>2. \A a, b \in 0 .. U32Max :
        /\ (IF a + b > U32Max THEN U32Max ELSE a + b) \in 0 .. U32Max
        /\ b = 0 => (IF a + b > U32Max THEN U32Max ELSE a + b) = a
  BY U32Assumption
<1>3. SaturatingAdd(c, d) \in Sizes
  BY <1>1, <1>2 DEF SaturatingAdd, Sizes
<1>4. ASSUME IsZero(d) PROVE SaturatingAdd(c, d) = c
  <2>1. \A p \in Pools : (IF c[p] + d[p] > U32Max THEN U32Max ELSE c[p] + d[p]) = c[p]
    BY <1>1, <1>2, <1>4 DEF IsZero
  <2>2. SaturatingAdd(c, d) = [p \in Pools |-> c[p]]
    BY <2>1 DEF SaturatingAdd
  <2> QED
    BY <2>2 DEF Sizes
<1> QED
  BY <1>3, <1>4

LEMMA CommitmentCountsAppend ==
  ASSUME NEW S, NEW s \in Seq(S), NEW e \in S, \A t \in S : t.notes \in Sizes
  PROVE  /\ CommitmentCounts(<< >>) = ZeroSizes
         /\ CommitmentCounts(s) \in Sizes
         /\ CommitmentCounts(Append(s, e)) = SaturatingAdd(CommitmentCounts(s), e.notes)
<1>1. CommitmentCounts(<< >>) = ZeroSizes
  BY EmptySeq, CommitmentCountsFacts
<1> DEFINE n == Len(s)
           more == Append(s, e)
<1>2. /\ n \in Nat /\ more \in Seq(S) /\ Len(more) = n + 1
      /\ \A i \in 1 .. n : more[i] = s[i]
      /\ more[n + 1] = e
  BY LenProperties, AppendFacts
<1> HIDE DEF more
<1>3. PICK v : /\ v[0] = ZeroSizes
               /\ \A i \in 1 .. n : v[i] = SaturatingAdd(v[i - 1], s[i].notes)
               /\ CommitmentCounts(s) = v[n]
  BY CommitmentCountsFacts
<1>4. PICK u : /\ u[0] = ZeroSizes
               /\ \A i \in 1 .. n + 1 : u[i] = SaturatingAdd(u[i - 1], more[i].notes)
               /\ CommitmentCounts(more) = u[n + 1]
  BY <1>2, CommitmentCountsFacts
<1>5. \A i \in 1 .. n : s[i].notes \in Sizes
  BY ElementOfSeq
<1> HIDE DEF n
<1> DEFINE T == {i \in 0 .. n : ~(u[i] = v[i] /\ v[i] \in Sizes)}
<1>6. T = {}
  <2> SUFFICES ASSUME T # {} PROVE FALSE
    OBVIOUS
  <2> DEFINE m == Min(T)
  <2>1. m \in T /\ \A k \in T : m <= k
    <3> T \in SUBSET Nat
      BY <1>2
    <3> HIDE DEF T
    <3> QED
      BY LeastNumber
  <2> HIDE DEF m
  <2>2. m \in 0 .. n /\ ~(u[m] = v[m] /\ v[m] \in Sizes)
    BY <2>1
  <2>3. m # 0
    <3>1. ZeroSizes \in Sizes
      BY U32Assumption DEF ZeroSizes, Sizes
    <3> QED
      BY <1>3, <1>4, <2>2, <3>1
  <2>4. m \in 1 .. n /\ m \in 1 .. n + 1 /\ m - 1 \in 0 .. n /\ m - 1 \notin T
    <3> HIDE DEF T
    <3> QED
      BY <1>2, <2>1, <2>2, <2>3
  <2>5. u[m - 1] = v[m - 1] /\ v[m - 1] \in Sizes
    BY <2>4
  <2>6. more[m] = s[m] /\ s[m].notes \in Sizes
    BY <1>2, <1>5, <2>4
  <2> QED
    BY <1>3, <1>4, <2>2, <2>4, <2>5, <2>6, SaturatingFacts
<1>7. u[n] = v[n] /\ v[n] \in Sizes
  <2>1. n \in 0 .. n /\ n \notin T
    BY <1>2, <1>6
  <2> QED
    BY <2>1
<1>8. u[n + 1] = SaturatingAdd(u[n], e.notes)
  <2>1. n + 1 \in 1 .. n + 1 /\ (n + 1) - 1 = n
    BY <1>2
  <2> QED
    BY <1>2, <1>4, <2>1
<1> QED
  BY <1>1, <1>3, <1>4, <1>7, <1>8 DEF more
-----------------------------------------------------------------------------
(* The invariant: what is left to read is what is left of the block, and   *)
(* what was kept is what was read.                                         *)

Reading == step \in {"header", "count", "txs"}

CompactTx == [index : Nat, spends : Nat, notes : Sizes]

CodecShape ==
  /\ block \in Blocks /\ whole \in BOOLEAN
  /\ raw \in [head : Seq(Nat), txs : Seq(Tx), extra : Nat]
  /\ step \in {"header", "count", "txs", "ok", "error"}
  /\ count \in Nat /\ index \in 0 .. count
  /\ height \in Nat \cup {-1}
  /\ vtx \in Seq(CompactTx)

(* The bytes that were read. *)
Skipped ==
  CASE step = "header" -> 0
    [] step = "count" -> SolutionEnd(block)
    [] OTHER -> Len(SerialHead(block))

HeadOK ==
  Reading =>
    /\ Skipped + Len(raw.head) <= Len(SerialHead(block))
    /\ \A i \in 1 .. Len(raw.head) : raw.head[i] = SerialHead(block)[Skipped + i]

TxsOK ==
  Reading =>
    /\ index + Len(raw.txs) <= Len(block.txs)
    /\ \A i \in 1 .. Len(raw.txs) : raw.txs[i] = block.txs[index + i]

WholeOK ==
  Reading =>
    (whole <=> /\ Skipped + Len(raw.head) = Len(SerialHead(block))
               /\ index + Len(raw.txs) = Len(block.txs)
               /\ raw.extra = 0)

CountOK ==
  /\ step \in {"header", "count"} => count = 0
  /\ step = "txs" => count = Len(block.txs)

HeightOK ==
  /\ index = 0 => height = -1
  /\ index > 0 => height = block.height /\ height # -1

Verdict ==
  /\ step = "ok" => /\ whole /\ height = block.height /\ height # -1
                    /\ index = Len(block.txs)
  /\ step = "error" => ~whole \/ block.height = -1

KeptOK ==
  /\ index <= Len(block.txs)
  /\ ToSet(vtx) = {Compact(i - 1, block.txs[i]) : i \in HasMaterial \cap 1 .. index}
  /\ \A i, j \in 1 .. Len(vtx) : i < j => vtx[i].index < vtx[j].index
  /\ \A i \in 1 .. Len(vtx) : vtx[i].index < index
  /\ CommitmentCounts(vtx) = CommitmentCounts(SubSeq(block.txs, 1, index))

CodecInv ==
  CodecShape /\ HeadOK /\ TxsOK /\ WholeOK /\ CountOK /\ HeightOK /\ Verdict /\ KeptOK
-----------------------------------------------------------------------------
(* Initially: a block, cut somewhere or not, with nothing read. *)

LEMMA PartFacts ==
  ASSUME NEW S, NEW s \in Seq(S), NEW k \in 0 .. Len(s)
  PROVE  /\ SubSeq(s, 1, k) \in Seq(S) /\ Len(SubSeq(s, 1, k)) = k
         /\ \A i \in 1 .. k : SubSeq(s, 1, k)[i] = s[i]
         /\ SubSeq(s, k + 1, Len(s)) \in Seq(S)
         /\ Len(SubSeq(s, k + 1, Len(s))) = Len(s) - k
         /\ \A i \in 1 .. Len(s) - k : SubSeq(s, k + 1, Len(s))[i] = s[k + i]
<1> DEFINE n == Len(s)
<1>1. n \in Nat /\ k \in Nat /\ k <= n
  BY LenProperties
<1>2. \A i \in 1 .. n : s[i] \in S
  BY ElementOfSeq
<1> HIDE DEF n
<1>3. /\ SubSeq(s, 1, k) \in Seq(S)
      /\ Len(SubSeq(s, 1, k)) = IF 1 <= k THEN k - 1 + 1 ELSE 0
      /\ \A i \in 1 .. k - 1 + 1 : SubSeq(s, 1, k)[i] = s[1 + i - 1]
  <2>1. 1 \in Int /\ k \in Int /\ \A i \in 1 .. k : s[i] \in S
    BY <1>1, <1>2
  <2> QED
    BY <2>1, SubSeqProperties
<1>4. /\ SubSeq(s, k + 1, n) \in Seq(S)
      /\ Len(SubSeq(s, k + 1, n)) = IF k + 1 <= n THEN n - (k + 1) + 1 ELSE 0
      /\ \A i \in 1 .. n - (k + 1) + 1 : SubSeq(s, k + 1, n)[i] = s[k + 1 + i - 1]
  <2>1. k + 1 \in Int /\ n \in Int /\ \A i \in k + 1 .. n : s[i] \in S
    BY <1>1, <1>2
  <2> QED
    BY <2>1, SubSeqProperties
<1>5. Len(SubSeq(s, 1, k)) = k /\ Len(SubSeq(s, k + 1, n)) = n - k
  BY <1>1, <1>3, <1>4
<1>6. \A i \in 1 .. k : i \in 1 .. k - 1 + 1 /\ 1 + i - 1 = i
  BY <1>1
<1>7. \A i \in 1 .. n - k : i \in 1 .. n - (k + 1) + 1 /\ k + 1 + i - 1 = k + i
  BY <1>1
<1> QED
  BY <1>3, <1>4, <1>5, <1>6, <1>7 DEF n

LEMMA BlockFacts ==
  ASSUME NEW b \in Blocks
  PROVE  /\ b.txs \in Seq(Tx) /\ Len(b.txs) \in Nat
         /\ SerialHead(b) \in Seq(Nat) /\ Len(SerialHead(b)) \in Nat
  BY BlockAssumption, LenProperties, SerialHeadFacts

LEMMA InitShape == CodecInit => CodecShape /\ HeadOK /\ TxsOK /\ WholeOK
<1> SUFFICES ASSUME CodecInit PROVE CodecShape /\ HeadOK /\ TxsOK /\ WholeOK
  OBVIOUS
<1> DEFINE head == SerialHead(block)
           txs == block.txs
           l == Len(head)
           m == Len(txs)
<1>1. /\ block \in Blocks
      /\ head \in Seq(Nat) /\ l \in Nat /\ txs \in Seq(Tx) /\ m \in Nat
  BY BlockFacts DEF CodecInit
<1>2. PICK n \in 0 .. l + m : \E extra \in 0 .. 1 :
        /\ extra = 1 => n = l + m
        /\ whole = (n = l + m /\ extra = 0)
        /\ raw = Received(block, n, extra)
  BY DEF CodecInit, SerialLength
<1>3. PICK extra \in 0 .. 1 : /\ extra = 1 => n = l + m
                              /\ whole = (n = l + m /\ extra = 0)
                              /\ raw = Received(block, n, extra)
  BY <1>2
<1> DEFINE k == IF n < l THEN n ELSE l
           rest == IF n > l THEN n - l ELSE 0
<1>4. /\ raw.head = SubSeq(head, 1, k) /\ raw.txs = SubSeq(txs, 1, rest)
      /\ raw.extra = extra
      /\ raw = [head |-> raw.head, txs |-> raw.txs, extra |-> raw.extra]
  BY <1>3 DEF Received
<1> HIDE DEF head, txs, l, m
<1>5. n \in Nat /\ k \in 0 .. l /\ rest \in 0 .. m
  BY <1>1, <1>2
<1>6. n = l + m <=> k = l /\ rest = m
  BY <1>1, <1>5
<1> HIDE DEF k, rest
<1>7. /\ raw.head \in Seq(Nat) /\ Len(raw.head) = k
      /\ \A i \in 1 .. k : raw.head[i] = head[i]
  <2> DEFINE part == SubSeq(head, 1, k)
  <2>1. part \in Seq(Nat) /\ Len(part) = k /\ \A i \in 1 .. k : part[i] = head[i]
    BY <1>1, <1>5, PartFacts DEF l
  <2>2. raw.head = part
    BY <1>4
  <2> HIDE DEF part
  <2> QED
    BY <2>1, <2>2
<1>8. /\ raw.txs \in Seq(Tx) /\ Len(raw.txs) = rest
      /\ \A i \in 1 .. rest : raw.txs[i] = txs[i]
  BY <1>1, <1>4, <1>5, PartFacts DEF m
<1>9. step = "header" /\ count = 0 /\ index = 0 /\ height = -1 /\ vtx = << >>
  BY DEF CodecInit
<1>10. CodecShape
  <2>1. raw \in [head : Seq(Nat), txs : Seq(Tx), extra : Nat]
    <3>1. raw.extra \in Nat
      BY <1>4
    <3>2. raw.head \in Seq(Nat) /\ raw.txs \in Seq(Tx)
      BY <1>7, <1>8
    <3>3. \A a \in Seq(Nat), b \in Seq(Tx), c \in Nat :
            [head |-> a, txs |-> b, extra |-> c] \in [head : Seq(Nat), txs : Seq(Tx), extra : Nat]
      OBVIOUS
    <3> QED
      BY <1>4, <3>1, <3>2, <3>3
  <2>2. whole \in BOOLEAN
    BY <1>3
  <2>3. vtx \in Seq(CompactTx)
    BY <1>9, EmptySeq
  <2> QED
    BY <1>1, <1>9, <2>1, <2>2, <2>3 DEF CodecShape
<1>11. Skipped = 0
  BY <1>9 DEF Skipped
<1>12. HeadOK
  <2>1. 0 + k <= l /\ \A i \in 1 .. k : 0 + i = i
    BY <1>1, <1>5
  <2> QED
    BY <1>7, <1>11, <2>1 DEF HeadOK, l, head
<1>13. TxsOK
  <2>1. 0 + rest <= m /\ \A i \in 1 .. rest : 0 + i = i
    BY <1>1, <1>5
  <2> QED
    BY <1>8, <1>9, <2>1 DEF TxsOK, m, txs
<1>14. WholeOK
  <2>1. whole <=> k = l /\ rest = m /\ raw.extra = 0
    BY <1>3, <1>4, <1>6
  <2>2. 0 + k = k /\ 0 + rest = rest
    BY <1>5
  <2> QED
    BY <1>7, <1>8, <1>9, <1>11, <2>1, <2>2 DEF WholeOK, l, m, head, txs
<1> QED
  BY <1>10, <1>12, <1>13, <1>14

LEMMA InitCodecInv == CodecInit => CodecInv
<1> SUFFICES ASSUME CodecInit PROVE CodecInv
  OBVIOUS
<1>1. /\ block \in Blocks /\ step = "header" /\ count = 0 /\ index = 0
      /\ height = -1 /\ vtx = << >>
  BY DEF CodecInit
<1>2. CountOK /\ HeightOK /\ Verdict
  BY <1>1 DEF CountOK, HeightOK, Verdict
<1>3. KeptOK
  <2>1. ToSet(vtx) = {}
    BY <1>1 DEF ToSet
  <2>2. HasMaterial \cap 1 .. index = {}
    BY <1>1
  <2>3. Len(vtx) = 0 /\ 1 .. 0 = {}
    BY <1>1, EmptySeq
  <2>4. SubSeq(block.txs, 1, index) = << >>
    BY <1>1, SubSeqEmpty
  <2>5. index <= Len(block.txs)
    BY <1>1, BlockFacts
  <2> QED
    BY <1>1, <2>1, <2>2, <2>3, <2>4, <2>5 DEF KeptOK
<1> QED
  BY <1>2, <1>3, InitShape DEF CodecInv
-----------------------------------------------------------------------------
(* The header and the transaction count. *)

LEMMA SkipKeeps ==
  ASSUME CodecInv, Reading, NEW n \in 0 .. Len(raw.head), raw' = Skip(n),
         UNCHANGED << block, whole, index >>, Reading', Skipped \in Nat,
         Skipped' = Skipped + n
  PROVE  /\ raw' \in [head : Seq(Nat), txs : Seq(Tx), extra : Nat]
         /\ Len(raw'.head) = Len(raw.head) - n
         /\ HeadOK' /\ TxsOK' /\ WholeOK'
<1> DEFINE h == raw.head
           g == SubSeq(h, n + 1, Len(h))
           head == SerialHead(block)
<1>1. /\ h \in Seq(Nat) /\ raw.txs \in Seq(Tx) /\ raw.extra \in Nat
      /\ raw \in [head : Seq(Nat), txs : Seq(Tx), extra : Nat]
      /\ block \in Blocks
  BY DEF CodecInv, CodecShape
<1>2. /\ Len(h) \in Nat /\ n \in Nat /\ n <= Len(h) /\ Len(head) \in Nat
  BY <1>1, LenProperties, BlockFacts
<1>3. /\ g \in Seq(Nat) /\ Len(g) = Len(h) - n
      /\ \A i \in 1 .. Len(h) - n : g[i] = h[n + i]
  BY <1>1, PartFacts
<1>4. raw' = [raw EXCEPT !.head = g]
  BY DEF Skip
<1>5. raw'.head = g /\ raw'.txs = raw.txs /\ raw'.extra = raw.extra
  BY <1>1, <1>4
<1>6. /\ Skipped + Len(h) <= Len(head)
      /\ \A i \in 1 .. Len(h) : h[i] = head[Skipped + i]
  BY DEF CodecInv, HeadOK
<1>7. block' = block /\ whole' = whole /\ index' = index
  OBVIOUS
<1> DEFINE s == Skipped
           l == Len(h)
           t == s + n
<1>8. s \in Nat /\ Skipped' = t
  OBVIOUS
<1> HIDE DEF g, h, head, s, l, t
<1>9. raw' \in [head : Seq(Nat), txs : Seq(Tx), extra : Nat]
  BY <1>1, <1>3, <1>4
<1>10. Len(raw'.head) = l - n
  BY <1>3, <1>5 DEF l
<1>11. t + (l - n) = s + l
  BY <1>2, <1>8 DEF l, t
<1>12. HeadOK'
  <2>1. t + (l - n) <= Len(head)
    BY <1>6, <1>11 DEF s, l
  <2>2. ASSUME NEW i \in 1 .. l - n PROVE g[i] = head[t + i]
    <3>1. n + i \in 1 .. l /\ s + (n + i) = t + i
      BY <1>2, <1>8 DEF l, t
    <3>2. g[i] = h[n + i]
      BY <1>3 DEF l
    <3>3. h[n + i] = head[s + (n + i)]
      BY <1>6, <3>1 DEF s, l
    <3> QED
      BY <3>1, <3>2, <3>3
  <2>3. head = SerialHead(block')
    BY <1>7 DEF head
  <2> QED
    BY <1>5, <1>8, <1>10, <2>1, <2>2, <2>3 DEF HeadOK
<1>13. TxsOK'
  BY <1>5, <1>7 DEF CodecInv, TxsOK
<1>14. WholeOK'
  <2>1. whole <=> s + l = Len(head) /\ index + Len(raw.txs) = Len(block.txs) /\ raw.extra = 0
    BY DEF CodecInv, WholeOK, s, l, h, head
  <2>2. whole' <=> t + (l - n) = Len(head) /\ index' + Len(raw'.txs) = Len(block'.txs)
                   /\ raw'.extra = 0
    BY <1>5, <1>7, <1>11, <2>1
  <2>3. head = SerialHead(block')
    BY <1>7 DEF head
  <2> QED
    BY <1>8, <1>10, <2>2, <2>3 DEF WholeOK
<1> QED
  BY <1>9, <1>10, <1>12, <1>13, <1>14 DEF l, h

(* The bound is passed if and only if the whole solution is there. *)
LEMMA HeaderEndFacts ==
  ASSUME CodecInv, step = "header"
  PROVE  /\ SolutionEnd(block) \in Nat
         /\ HeaderEnd > 0 /\ HeaderEnd <= Len(raw.head) =>
              HeaderEnd = SolutionEnd(block) /\ SolutionEnd(block) \in 0 .. Len(raw.head)
         /\ HeaderEnd = 0 \/ HeaderEnd > Len(raw.head) =>
              Len(raw.head) < SolutionEnd(block)
<1> DEFINE h == raw.head
           first == WriteCompactSize(block.solution)
           head == SerialHead(block)
           l == Len(h)
           m == Len(first)
           solution == block.solution
           E == SolutionEnd(block)
           part == SubSeq(h, HeaderPrefix + 1, l)
           size == ReadCompactSize(part)
<1>1. block \in Blocks /\ h \in Seq(Nat) /\ l \in Nat
  BY LenProperties DEF CodecInv, CodecShape
<1>2. /\ solution \in Nat /\ Fits(solution, Wide[2]) /\ HeaderPrefix \in Nat
      /\ m \in Nat \ {0} /\ E = HeaderPrefix + m + solution
      /\ \A i \in 1 .. m : head[HeaderPrefix + i] = first[i]
      /\ l <= Len(head) /\ \A i \in 1 .. l : h[i] = head[i]
  <2>1. solution \in Nat /\ Fits(solution, Wide[2]) /\ HeaderPrefix \in Nat
    BY <1>1, BlockAssumption, CodecAssumption
  <2>2. m \in Nat \ {0} /\ \A i \in 1 .. m : head[HeaderPrefix + i] = first[i]
    BY <1>1, SerialHeadFacts
  <2>3. Skipped = 0
    BY DEF Skipped
  <2>4. 0 + l <= Len(head) /\ \A i \in 1 .. l : h[i] = head[0 + i]
    BY <2>3 DEF CodecInv, HeadOK, Reading
  <2>5. Len(head) \in Nat
    BY <1>1, BlockFacts
  <2>6. l <= Len(head) /\ \A i \in 1 .. l : 0 + i = i
    BY <1>1, <2>4, <2>5
  <2> QED
    BY <2>1, <2>2, <2>4, <2>6 DEF SolutionEnd
<1>3. HeaderEnd = IF l < HeaderPrefix \/ size = Short THEN 0
                  ELSE HeaderPrefix + size.used + size.value
  BY DEF HeaderEnd
<1> HIDE DEF E, h, head, first, l, m, solution, size
<1>4. E \in Nat
  BY <1>2
<1>5. CASE l < HeaderPrefix
  <2>1. l < E /\ ~(0 > 0)
    BY <1>1, <1>2, <1>5
  <2>2. HeaderEnd = 0
    BY <1>3, <1>5
  <2> QED
    BY <1>4, <2>1, <2>2 DEF E, l, h
<1>6. CASE ~(l < HeaderPrefix)
  <2>1. HeaderPrefix \in 0 .. l
    BY <1>1, <1>2, <1>6
  <2>2. /\ part \in Seq(Nat) /\ Len(part) = l - HeaderPrefix
        /\ \A i \in 1 .. l - HeaderPrefix : part[i] = h[HeaderPrefix + i]
    BY <1>1, <2>1, PartFacts DEF l
  <2> HIDE DEF part
  <2>3. Agrees(part, first)
    <3>1. SUFFICES ASSUME NEW i \in 1 .. m, i <= l - HeaderPrefix
                   PROVE  part[i] = first[i]
      BY <2>2 DEF Agrees, m
    <3>2. i \in 1 .. l - HeaderPrefix /\ HeaderPrefix + i \in 1 .. l
      BY <1>1, <1>2, <3>1
    <3> QED
      BY <1>2, <2>2, <3>2
  <2>4. size = IF l - HeaderPrefix < m THEN Short ELSE [value |-> solution, used |-> m]
    BY <1>2, <2>2, <2>3, ReadCompactSizeFacts DEF size, first, m, solution
  <2>5. CASE l - HeaderPrefix < m
    <3>1. l < E /\ ~(0 > 0)
      BY <1>1, <1>2, <2>5
    <3>2. HeaderEnd = 0
      BY <1>3, <2>4, <2>5
    <3> QED
      BY <1>4, <3>1, <3>2 DEF E, l, h
  <2>6. CASE ~(l - HeaderPrefix < m)
    <3>1. size.used = m /\ size.value = solution
      BY <2>4, <2>6
    <3>2. size # Short
      BY <1>2, <3>1 DEF Short
    <3>3. HeaderEnd = E
      BY <1>2, <1>3, <1>6, <3>1, <3>2
    <3>4. E # 0 /\ (E <= l => E \in 0 .. l) /\ (E > l => l < E)
      BY <1>1, <1>2
    <3> QED
      BY <1>4, <3>3, <3>4 DEF E, l, h
  <2> QED
    BY <2>5, <2>6
<1> QED
  BY <1>5, <1>6

(* What the header leaves alone. *)
LEMMA KeptUnchanged ==
  ASSUME CodecInv, UNCHANGED << block, index, height, vtx >>
  PROVE  HeightOK' /\ KeptOK'
<1>1. block' = block /\ index' = index /\ height' = height /\ vtx' = vtx
  OBVIOUS
<1>2. HeightOK'
  BY <1>1 DEF CodecInv, HeightOK
<1>3. HasMaterial' = HasMaterial
  BY <1>1 DEF HasMaterial
<1>4. KeptOK'
  BY <1>1, <1>3 DEF CodecInv, KeptOK
<1> QED
  BY <1>2, <1>4

(* A parser that gives up is right to: something is missing or left over,  *)
(* or there is no height.                                                  *)
LEMMA RefusedKeeps ==
  ASSUME CodecInv, Refused, ~whole \/ block.height = -1
  PROVE  CodecInv'
<1>1. step' = "error" /\ UNCHANGED << block, whole, raw, count, index, height, vtx >>
  BY DEF Refused
<1>2. HeightOK' /\ KeptOK'
  BY <1>1, KeptUnchanged
<1>3. CodecShape'
  BY <1>1 DEF CodecInv, CodecShape
<1>4. ~Reading'
  BY <1>1 DEF Reading
<1>5. HeadOK' /\ TxsOK' /\ WholeOK'
  BY <1>4 DEF HeadOK, TxsOK, WholeOK
<1>6. CountOK' /\ Verdict'
  BY <1>1 DEF CountOK, Verdict
<1> QED
  BY <1>2, <1>3, <1>5, <1>6 DEF CodecInv

LEMMA HeaderStep == CodecInv /\ ReadHeader => CodecInv'
<1> SUFFICES ASSUME CodecInv, ReadHeader PROVE CodecInv'
  OBVIOUS
<1>1. /\ step = "header" /\ step' = "count" /\ raw' = Skip(HeaderEnd)
      /\ HeaderEnd > 0 /\ HeaderEnd <= Len(raw.head)
      /\ UNCHANGED << block, whole, count, index, height, vtx >>
  BY DEF ReadHeader
<1>2. HeaderEnd = SolutionEnd(block) /\ SolutionEnd(block) \in 0 .. Len(raw.head)
  BY <1>1, HeaderEndFacts
<1>3. Skipped = 0 /\ Skipped' = SolutionEnd(block) /\ Reading /\ Reading'
  BY <1>1 DEF Skipped, Reading
<1>4. Skipped' = Skipped + SolutionEnd(block) /\ Skipped \in Nat
  BY <1>1, <1>3, HeaderEndFacts
<1>5. raw' \in [head : Seq(Nat), txs : Seq(Tx), extra : Nat] /\ HeadOK' /\ TxsOK' /\ WholeOK'
  BY <1>1, <1>2, <1>3, <1>4, SkipKeeps
<1>6. HeightOK' /\ KeptOK'
  BY <1>1, KeptUnchanged
<1>7. CodecShape'
  BY <1>1, <1>5 DEF CodecInv, CodecShape
<1>8. CountOK' /\ Verdict'
  BY <1>1 DEF CodecInv, CountOK, Verdict
<1> QED
  BY <1>5, <1>6, <1>7, <1>8 DEF CodecInv

LEMMA HeaderCutStep == CodecInv /\ HeaderTruncated => CodecInv'
<1> SUFFICES ASSUME CodecInv, HeaderTruncated PROVE CodecInv'
  OBVIOUS
<1> DEFINE E == SolutionEnd(block)
           l == Len(raw.head)
           m == Len(WriteCompactSize(Len(block.txs)))
<1>1. step = "header" /\ Refused
  BY DEF HeaderTruncated
<1>2. l < E /\ E \in Nat
  BY <1>1, HeaderEndFacts DEF HeaderTruncated
<1>3. Len(SerialHead(block)) = E + m /\ m \in Nat \ {0} /\ l \in Nat
  BY SerialHeadFacts, LenProperties DEF CodecInv, CodecShape
<1>4. Skipped = 0 /\ Reading
  BY <1>1 DEF Skipped, Reading
<1>5. whole => 0 + l = Len(SerialHead(block))
  BY <1>4 DEF CodecInv, WholeOK
<1> HIDE DEF E, l, m
<1>6. ~(0 + l = E + m)
  BY <1>2, <1>3
<1> QED
  BY <1>1, <1>3, <1>5, <1>6, RefusedKeeps

(* The count is read if and only if its bytes are the ones left. *)
LEMMA CountFacts ==
  ASSUME CodecInv, step = "count"
  PROVE  LET m == Len(WriteCompactSize(Len(block.txs)))
         IN  /\ m \in Nat \ {0} /\ Len(raw.head) \in 0 .. m
             /\ Skipped \in Nat /\ Len(SerialHead(block)) = Skipped + m
             /\ ReadCompactSize(raw.head) =
                  IF Len(raw.head) < m THEN Short ELSE [value |-> Len(block.txs), used |-> m]
<1> DEFINE h == raw.head
           n == Len(block.txs)
           second == WriteCompactSize(n)
           head == SerialHead(block)
           l == Len(h)
           m == Len(second)
           E == SolutionEnd(block)
<1>1. block \in Blocks /\ h \in Seq(Nat) /\ l \in Nat /\ Skipped = E /\ Reading
  BY LenProperties DEF CodecInv, CodecShape, Skipped, Reading
<1>2. /\ E \in Nat /\ m \in Nat \ {0} /\ Len(head) = E + m
      /\ \A i \in 1 .. m : head[E + i] = second[i]
  BY <1>1, SerialHeadFacts
<1>3. E + l <= Len(head) /\ \A i \in 1 .. l : h[i] = head[E + i]
  BY <1>1 DEF CodecInv, HeadOK
<1>4. n \in Nat /\ Fits(n, Wide[2])
  BY <1>1, BlockFacts, BlockAssumption
<1> HIDE DEF h, n, second, head, l, m, E
<1>5. l \in 0 .. m
  BY <1>1, <1>2, <1>3
<1>6. Agrees(h, second)
  <2>1. SUFFICES ASSUME NEW i \in 1 .. m, i <= l PROVE h[i] = second[i]
    BY DEF Agrees, l, m
  <2>2. i \in 1 .. l
    BY <1>1, <1>2, <2>1
  <2> QED
    BY <1>2, <1>3, <2>2
<1>7. ReadCompactSize(h) = IF l < m THEN Short ELSE [value |-> n, used |-> m]
  BY <1>1, <1>4, <1>6, ReadCompactSizeFacts DEF second, l, m
<1> QED
  BY <1>1, <1>2, <1>5, <1>7 DEF h, n, second, head, l, m

LEMMA CountStep == CodecInv /\ ReadCount => CodecInv'
<1> SUFFICES ASSUME CodecInv, ReadCount PROVE CodecInv'
  OBVIOUS
<1> DEFINE m == Len(WriteCompactSize(Len(block.txs)))
           size == ReadCompactSize(raw.head)
<1>1. /\ step = "count" /\ step' = "txs" /\ size # Short
      /\ raw' = Skip(size.used) /\ count' = size.value
      /\ UNCHANGED << block, whole, index, height, vtx >>
  BY DEF ReadCount
<1>2. /\ m \in Nat \ {0} /\ Len(raw.head) \in 0 .. m
      /\ Skipped \in Nat /\ Len(SerialHead(block)) = Skipped + m
      /\ size = IF Len(raw.head) < m THEN Short ELSE [value |-> Len(block.txs), used |-> m]
  BY <1>1, CountFacts
<1> HIDE DEF m, size
<1>3. size = [value |-> Len(block.txs), used |-> m]
  BY <1>1, <1>2
<1>4. size.used = m /\ size.value = Len(block.txs)
  BY <1>3
<1>5. m \in 0 .. Len(raw.head)
  <2> DEFINE l == Len(raw.head)
  <2>1. ~(l < m)
    BY <1>1, <1>2
  <2>2. l \in 0 .. m /\ m \in Nat
    BY <1>2
  <2> HIDE DEF l
  <2>3. m \in 0 .. l
    BY <2>1, <2>2
  <2> QED
    BY <2>3 DEF l
<1>6. Reading /\ Reading'
  BY <1>1 DEF Reading
<1>7. Skipped' = Skipped + m
  <2>1. Skipped' = Len(SerialHead(block'))
    BY <1>1 DEF Skipped
  <2> QED
    BY <1>1, <1>2, <2>1
<1>8. raw' \in [head : Seq(Nat), txs : Seq(Tx), extra : Nat] /\ HeadOK' /\ TxsOK' /\ WholeOK'
  BY <1>1, <1>2, <1>4, <1>5, <1>6, <1>7, SkipKeeps
<1>9. HeightOK' /\ KeptOK'
  BY <1>1, KeptUnchanged
<1>10. CodecShape'
  <2>1. count' \in Nat
    BY <1>1, <1>4, BlockFacts DEF CodecInv, CodecShape
  <2>2. index' = 0
    BY <1>1 DEF CodecInv, CodecShape, CountOK
  <2> QED
    BY <1>1, <1>8, <2>1, <2>2 DEF CodecInv, CodecShape
<1>11. CountOK' /\ Verdict'
  BY <1>1, <1>4 DEF CountOK, Verdict
<1> QED
  BY <1>8, <1>9, <1>10, <1>11 DEF CodecInv

LEMMA CountCutStep == CodecInv /\ CountTruncated => CodecInv'
<1> SUFFICES ASSUME CodecInv, CountTruncated PROVE CodecInv'
  OBVIOUS
<1> DEFINE m == Len(WriteCompactSize(Len(block.txs)))
           l == Len(raw.head)
           s == Skipped
<1>1. step = "count" /\ Refused /\ ReadCompactSize(raw.head) = Short
  BY DEF CountTruncated
<1>2. /\ m \in Nat \ {0} /\ l \in 0 .. m
      /\ s \in Nat /\ Len(SerialHead(block)) = s + m
      /\ ReadCompactSize(raw.head) =
           IF l < m THEN Short ELSE [value |-> Len(block.txs), used |-> m]
  BY <1>1, CountFacts
<1>3. whole => s + l = Len(SerialHead(block))
  BY <1>1 DEF CodecInv, WholeOK, Reading
<1> HIDE DEF m, l, s
<1>4. l < m
  <2>1. ASSUME ~(l < m) PROVE FALSE
    <3>1. ReadCompactSize(raw.head).used = m
      BY <1>2, <2>1
    <3> QED
      BY <1>1, <1>2, <3>1 DEF Short
  <2> QED
    BY <2>1
<1>5. ~(s + l = s + m)
  BY <1>2, <1>4
<1> QED
  BY <1>1, <1>2, <1>3, <1>5, RefusedKeeps
-----------------------------------------------------------------------------
(* The transactions. *)

LEMMA TxsFacts ==
  ASSUME CodecInv, step = "txs"
  PROVE  /\ count = Len(block.txs) /\ count \in Nat /\ index \in 0 .. count
         /\ Len(raw.txs) \in Nat /\ index + Len(raw.txs) <= count
         /\ whole <=> index + Len(raw.txs) = count /\ raw.extra = 0
<1> DEFINE l == Len(raw.head)
           k == Len(SerialHead(block))
<1>1. /\ block \in Blocks /\ l \in Nat /\ k \in Nat /\ Len(raw.txs) \in Nat
      /\ count \in Nat /\ index \in 0 .. count /\ count = Len(block.txs)
  BY LenProperties, BlockFacts DEF CodecInv, CodecShape, CountOK
<1>2. Reading /\ Skipped = k
  BY DEF Reading, Skipped
<1>3. k + l <= k /\ index + Len(raw.txs) <= count
  BY <1>1, <1>2 DEF CodecInv, HeadOK, TxsOK
<1>4. whole <=> k + l = k /\ index + Len(raw.txs) = count /\ raw.extra = 0
  BY <1>1, <1>2 DEF CodecInv, WholeOK
<1> HIDE DEF l, k
<1>5. k + l = k
  BY <1>1, <1>3
<1> QED
  BY <1>1, <1>3, <1>4, <1>5

(* The first transaction left is the next one of the block. *)
LEMMA NextTx ==
  ASSUME CodecInv, step = "txs", raw.txs # << >>
  PROVE  /\ index + 1 \in 1 .. Len(block.txs)
         /\ Head(raw.txs) \in Tx /\ Head(raw.txs) = block.txs[index + 1]
         /\ index = 0 => CoinbaseHeight(Head(raw.txs).script) = block.height
<1> DEFINE t == raw.txs
           n == Len(t)
<1>1. t \in Seq(Tx) /\ block \in Blocks /\ Reading
  BY DEF CodecInv, CodecShape, Reading
<1>2. n \in Nat \ {0} /\ Head(t) \in Tx /\ Head(t) = t[1]
  BY <1>1, TailFacts
<1>3. index \in Nat /\ index + n <= Len(block.txs) /\ Len(block.txs) \in Nat
  BY TxsFacts
<1>4. \A i \in 1 .. n : t[i] = block.txs[index + i]
  BY <1>1 DEF CodecInv, TxsOK
<1> HIDE DEF t, n
<1>5. Head(t) = block.txs[index + 1] /\ index + 1 \in 1 .. Len(block.txs)
  BY <1>2, <1>3, <1>4
<1>6. ASSUME index = 0 PROVE CoinbaseHeight(Head(t).script) = block.height
  <2>1. Head(t) = block.txs[1]
    BY <1>5, <1>6
  <2>2. block.txs # << >>
    BY <1>3, <1>5, EmptySeq
  <2> QED
    BY <1>1, <2>1, <2>2, BlockHeight
<1> QED
  BY <1>2, <1>5, <1>6 DEF t

(* Material is a spend or a commitment in some pool. *)
LEMMA ShieldedFacts ==
  ASSUME NEW tx \in Tx
  PROVE  /\ tx.spends \in Nat /\ tx.notes \in Sizes
         /\ Shielded(tx) <=> tx.spends + tx.notes["sapling"] + tx.notes["orchard"] +
                             tx.notes["ironwood"] > 0
<1>1. tx.spends \in Nat /\ tx.notes \in Sizes
  BY DEF Tx
<1> DEFINE a == tx.spends
           b == tx.notes["sapling"]
           c == tx.notes["orchard"]
           d == tx.notes["ironwood"]
<1>2. a \in Nat /\ b \in Nat /\ c \in Nat /\ d \in Nat
  BY <1>1, U32Assumption DEF Sizes, Pools
<1>3. IsZero(tx.notes) <=> b = 0 /\ c = 0 /\ d = 0
  BY DEF IsZero, Pools
<1>4. Shielded(tx) <=> a > 0 \/ ~(b = 0 /\ c = 0 /\ d = 0)
  BY <1>3 DEF Shielded
<1> HIDE DEF a, b, c, d
<1>5. a > 0 \/ ~(b = 0 /\ c = 0 /\ d = 0) <=> a + b + c + d > 0
  BY <1>2
<1> QED
  BY <1>1, <1>4, <1>5 DEF a, b, c, d

(* Reading on keeps the compact transactions what they were to be. *)
LEMMA KeptStep == CodecInv /\ ReadTx => KeptOK' /\ vtx' \in Seq(CompactTx)
<1> SUFFICES ASSUME CodecInv, ReadTx PROVE KeptOK' /\ vtx' \in Seq(CompactTx)
  OBVIOUS
<1> DEFINE tx == Head(raw.txs)
           new == Compact(index, tx)
           k == index + 1
           done == SubSeq(block.txs, 1, index)
           Kept(i) == {Compact(j - 1, block.txs[j]) : j \in HasMaterial \cap 1 .. i}
<1>1. /\ step = "txs" /\ raw.txs # << >> /\ block' = block /\ index' = k
      /\ vtx' = IF Shielded(tx) THEN Append(vtx, new) ELSE vtx
  BY DEF ReadTx, Readable
<1>2. /\ k \in 1 .. Len(block.txs) /\ tx \in Tx /\ tx = block.txs[k]
  BY <1>1, NextTx
<1>3. /\ block \in Blocks /\ block.txs \in Seq(Tx) /\ Len(block.txs) \in Nat
      /\ index \in Nat /\ vtx \in Seq(CompactTx) /\ index < k /\ k - 1 = index
  BY BlockFacts DEF CodecInv, CodecShape
<1>4. /\ index <= Len(block.txs)
      /\ ToSet(vtx) = Kept(index)
      /\ \A i, j \in 1 .. Len(vtx) : i < j => vtx[i].index < vtx[j].index
      /\ \A i \in 1 .. Len(vtx) : vtx[i].index < index
      /\ CommitmentCounts(vtx) = CommitmentCounts(done)
  BY DEF CodecInv, KeptOK
<1>5. tx.spends \in Nat /\ tx.notes \in Sizes
  BY <1>2, ShieldedFacts
<1>6. new \in CompactTx /\ new.index = index /\ new.notes = tx.notes
  BY <1>3, <1>5 DEF CompactTx, Compact
<1>7. Shielded(tx) <=> k \in HasMaterial
  <2>1. DOMAIN block.txs = 1 .. Len(block.txs)
    BY <1>3, LenProperties
  <2>2. k \in HasMaterial <=> tx.spends + tx.notes["sapling"] + tx.notes["orchard"] +
                              tx.notes["ironwood"] > 0
    BY <1>2, <2>1 DEF HasMaterial
  <2> QED
    BY <1>2, <2>2, ShieldedFacts
<1>8. Kept(k) = IF Shielded(tx) THEN Kept(index) \cup {new} ELSE Kept(index)
  <2>1. 1 .. k = (1 .. index) \cup {k}
    BY <1>3
  <2>2. HasMaterial \cap 1 .. k = (HasMaterial \cap 1 .. index) \cup (HasMaterial \cap {k})
    BY <2>1
  <2>3. Compact(k - 1, block.txs[k]) = new
    BY <1>2, <1>3
  <2>4. CASE Shielded(tx)
    <3>1. HasMaterial \cap 1 .. k = (HasMaterial \cap 1 .. index) \cup {k}
      BY <1>7, <2>2, <2>4
    <3> QED
      BY <2>3, <2>4, <3>1
  <2>5. CASE ~Shielded(tx)
    <3>1. HasMaterial \cap 1 .. k = HasMaterial \cap 1 .. index
      BY <1>7, <2>2, <2>5
    <3> QED
      BY <2>5, <3>1
  <2> QED
    BY <2>4, <2>5
<1>9. CommitmentCounts(SubSeq(block.txs, 1, k)) = SaturatingAdd(CommitmentCounts(done), tx.notes)
  <2>1. done \in Seq(Tx) /\ index \in 0 .. Len(block.txs)
    BY <1>3, <1>4, PartFacts
  <2>2. SubSeq(block.txs, 1, k) = done \o << tx >>
    <3>1. 1 \in 1 .. Len(block.txs) /\ k \in 1 .. Len(block.txs)
      BY <1>2, <1>3
    <3>2. SubSeq(block.txs, 1, k) = SubSeq(block.txs, 1, k - 1) \o << block.txs[k] >>
      BY <1>3, <3>1, SubSeqRecursiveSecond
    <3> QED
      BY <1>2, <1>3, <3>2
  <2>3. SubSeq(block.txs, 1, k) = Append(done, tx)
    BY <1>2, <2>1, <2>2, AppendIsConcat
  <2>4. \A t \in Tx : t.notes \in Sizes
    BY DEF Tx
  <2> HIDE DEF done, tx
  <2> QED
    BY <1>2, <2>1, <2>3, <2>4, CommitmentCountsAppend
<1>10. /\ CommitmentCounts(vtx) \in Sizes
       /\ CommitmentCounts(Append(vtx, new)) = SaturatingAdd(CommitmentCounts(vtx), tx.notes)
  <2>1. \A t \in CompactTx : t.notes \in Sizes
    BY DEF CompactTx
  <2> HIDE DEF new
  <2> QED
    BY <1>3, <1>6, <2>1, CommitmentCountsAppend
<1>11. HasMaterial' = HasMaterial
  BY <1>1 DEF HasMaterial
<1>12. CASE Shielded(tx)
  <2> DEFINE more == Append(vtx, new)
             n == Len(vtx)
  <2>1. /\ more \in Seq(CompactTx) /\ Len(more) = n + 1 /\ n \in Nat
        /\ \A i \in 1 .. n : more[i] = vtx[i]
        /\ more[n + 1] = new
    BY <1>3, <1>6, LenProperties, AppendFacts
  <2>2. vtx' = more
    BY <1>1, <1>12
  <2>3. ToSet(more) = Kept(k)
    <3>1. ToSet(more) = ToSet(vtx) \cup {new}
      <4>1. ToSet(more) = Range(more) /\ ToSet(vtx) = Range(vtx)
        BY DEF ToSet, Range
      <4> HIDE DEF new
      <4>2. Range(more) = Range(vtx) \cup {new}
        BY <1>3, <1>6, RangeFacts
      <4> QED
        BY <4>1, <4>2
    <3> QED
      BY <1>4, <1>8, <1>12, <3>1
  <2> HIDE DEF more, n, Kept, new
  <2>4. \A i \in 1 .. n + 1 : i \in 1 .. n \/ i = n + 1
    BY <2>1
  <2>5. \A i \in 1 .. n : vtx[i].index \in Nat
    <3>1. \A i \in 1 .. n : vtx[i] \in CompactTx
      BY <1>3, ElementOfSeq DEF n
    <3> QED
      BY <3>1 DEF CompactTx
  <2>6. \A i \in 1 .. n + 1 : more[i].index < k
    <3>1. \A i \in 1 .. n : more[i].index < k
      <4>1. \A a \in Nat : a < index => a < k
        BY <1>3
      <4> QED
        BY <1>4, <2>1, <2>5, <4>1 DEF n
    <3>2. more[n + 1].index < k
      BY <1>3, <1>6, <2>1
    <3> QED
      BY <2>4, <3>1, <3>2
  <2>7. ASSUME NEW i \in 1 .. n + 1, NEW j \in 1 .. n + 1, i < j
        PROVE  more[i].index < more[j].index
    <3>1. i \in 1 .. n
      BY <2>1, <2>7
    <3>2. CASE j \in 1 .. n
      BY <1>4, <2>1, <2>7, <3>1, <3>2 DEF n
    <3>3. CASE j = n + 1
      BY <1>4, <1>6, <2>1, <3>1, <3>3 DEF n
    <3> QED
      BY <2>4, <3>2, <3>3
  <2>8. CommitmentCounts(more) = CommitmentCounts(SubSeq(block.txs, 1, k))
    BY <1>4, <1>9, <1>10 DEF more
  <2>9. k <= Len(block.txs)
    BY <1>2
  <2>10. ToSet(vtx') = {Compact(j - 1, block'.txs[j]) : j \in HasMaterial' \cap 1 .. index'}
    BY <1>1, <1>11, <2>2, <2>3 DEF Kept
  <2>11. Len(vtx') = n + 1
    BY <2>1, <2>2
  <2> QED
    BY <1>1, <2>1, <2>2, <2>6, <2>7, <2>8, <2>9, <2>10, <2>11 DEF KeptOK
<1>13. CASE ~Shielded(tx)
  <2>1. vtx' = vtx
    BY <1>1, <1>13
  <2>2. CommitmentCounts(vtx) = CommitmentCounts(SubSeq(block.txs, 1, k))
    <3>1. IsZero(tx.notes)
      BY <1>13 DEF Shielded
    <3> HIDE DEF tx, done
    <3> QED
      BY <1>4, <1>5, <1>9, <1>10, <3>1, SaturatingFacts
  <2>3. ToSet(vtx') = {Compact(j - 1, block'.txs[j]) : j \in HasMaterial' \cap 1 .. index'}
    BY <1>1, <1>4, <1>8, <1>11, <1>13, <2>1
  <2>4. \A i \in 1 .. Len(vtx) : vtx[i].index < k
    <3>0. \A i \in 1 .. Len(vtx) : vtx[i] \in CompactTx
      BY <1>3, ElementOfSeq
    <3>1. \A i \in 1 .. Len(vtx) : vtx[i].index \in Nat
      BY <3>0 DEF CompactTx
    <3>2. \A a \in Nat : a < index => a < k
      BY <1>3
    <3> QED
      BY <1>4, <3>1, <3>2
  <2>5. k <= Len(block.txs)
    BY <1>2
  <2> HIDE DEF k
  <2> QED
    BY <1>1, <1>3, <1>4, <2>1, <2>2, <2>3, <2>4, <2>5 DEF KeptOK
<1> QED
  BY <1>12, <1>13

LEMMA TxStep == CodecInv /\ ReadTx => CodecInv'
<1> SUFFICES ASSUME CodecInv, ReadTx PROVE CodecInv'
  OBVIOUS
<1> DEFINE t == raw.txs
           rest == Tail(t)
           n == Len(t)
<1>1. /\ step = "txs" /\ index < count /\ t # << >>
      /\ index = 0 => CoinbaseHeight(Head(t).script) # -1
      /\ height' = IF index = 0 THEN CoinbaseHeight(Head(t).script) ELSE height
      /\ raw' = [raw EXCEPT !.txs = rest] /\ index' = index + 1
      /\ UNCHANGED << block, whole, step, count >>
  BY DEF ReadTx, Readable
<1>2. /\ t \in Seq(Tx) /\ raw \in [head : Seq(Nat), txs : Seq(Tx), extra : Nat]
      /\ block \in Blocks
  BY DEF CodecInv, CodecShape
<1>3. /\ n \in Nat \ {0} /\ rest \in Seq(Tx) /\ Len(rest) = n - 1
      /\ \A i \in 1 .. n - 1 : rest[i] = t[i + 1]
  BY <1>1, <1>2, TailFacts
<1>4. /\ count \in Nat /\ index \in 0 .. count /\ count = Len(block.txs)
      /\ index + n <= count
  BY <1>1, TxsFacts
<1>5. KeptOK' /\ vtx' \in Seq(CompactTx)
  BY KeptStep
<1>6. raw'.head = raw.head /\ raw'.txs = rest /\ raw'.extra = raw.extra
  BY <1>1, <1>2
<1>7. HeightOK' /\ height' \in Nat \cup {-1}
  <2>1. index = 0 => height' = block.height /\ height' # -1
    BY <1>1, NextTx
  <2>2. index # 0 => height' = block.height /\ height' # -1
    <3>1. index # 0 => index > 0
      BY <1>4
    <3> QED
      BY <1>1, <3>1 DEF CodecInv, HeightOK
  <2>3. index + 1 > 0 /\ index + 1 # 0
    BY <1>4
  <2>4. block.height \in Nat \cup {-1}
    BY <1>2, BlockAssumption
  <2> QED
    BY <1>1, <2>1, <2>2, <2>3, <2>4 DEF HeightOK
<1>8. Reading /\ Reading' /\ Skipped' = Skipped
  <2>1. Skipped = Len(SerialHead(block)) /\ Skipped' = Len(SerialHead(block'))
    BY <1>1 DEF Skipped
  <2> QED
    BY <1>1, <2>1 DEF Reading
<1> HIDE DEF n, rest
<1>9. raw' \in [head : Seq(Nat), txs : Seq(Tx), extra : Nat]
  BY <1>1, <1>2, <1>3
<1>10. CodecShape'
  <2>1. index + 1 \in 0 .. count
    BY <1>1, <1>4
  <2> QED
    BY <1>1, <1>5, <1>7, <1>9, <2>1 DEF CodecInv, CodecShape
<1>11. HeadOK'
  <2>1. /\ Skipped + Len(raw.head) <= Len(SerialHead(block))
        /\ \A i \in 1 .. Len(raw.head) : raw.head[i] = SerialHead(block)[Skipped + i]
    BY <1>8 DEF CodecInv, HeadOK
  <2>2. SerialHead(block') = SerialHead(block)
    BY <1>1
  <2> QED
    BY <1>6, <1>8, <2>1, <2>2 DEF HeadOK
<1>12. Len(rest) = n - 1 /\ (index + 1) + (n - 1) = index + n
  BY <1>3, <1>4
<1>13. TxsOK'
  <2>1. \A i \in 1 .. n : t[i] = block.txs[index + i]
    BY <1>8 DEF CodecInv, TxsOK, n
  <2>2. \A i \in 1 .. n - 1 : rest[i] = block.txs[(index + 1) + i]
    <3> TAKE i \in 1 .. n - 1
    <3>1. i + 1 \in 1 .. n /\ index + (i + 1) = (index + 1) + i
      BY <1>3, <1>4
    <3> QED
      BY <1>3, <2>1, <3>1
  <2>3. (index + 1) + (n - 1) <= Len(block.txs)
    BY <1>4, <1>12
  <2> QED
    BY <1>1, <1>6, <1>12, <2>2, <2>3 DEF TxsOK
<1>14. WholeOK'
  <2>1. whole <=> /\ Skipped + Len(raw.head) = Len(SerialHead(block))
                  /\ index + n = Len(block.txs)
                  /\ raw.extra = 0
    BY <1>8 DEF CodecInv, WholeOK, n
  <2>2. whole' <=> /\ Skipped' + Len(raw'.head) = Len(SerialHead(block))
                   /\ index' + Len(raw'.txs) = Len(block.txs)
                   /\ raw'.extra = 0
    BY <1>1, <1>6, <1>8, <1>12, <2>1
  <2>3. SerialHead(block') = SerialHead(block)
    BY <1>1
  <2> QED
    BY <1>1, <2>2, <2>3 DEF WholeOK
<1>15. CountOK' /\ Verdict'
  BY <1>1 DEF CodecInv, CountOK, Verdict
<1> QED
  BY <1>5, <1>7, <1>10, <1>11, <1>13, <1>14, <1>15 DEF CodecInv

LEMMA TxCutStep == CodecInv /\ TxUnreadable => CodecInv'
<1> SUFFICES ASSUME CodecInv, TxUnreadable PROVE CodecInv'
  OBVIOUS
<1>1. step = "txs" /\ index < count /\ ~Readable /\ Refused
  BY DEF TxUnreadable
<1>2. /\ count \in Nat /\ index \in 0 .. count
      /\ whole <=> index + Len(raw.txs) = count /\ raw.extra = 0
  BY <1>1, TxsFacts
<1>3. CASE raw.txs = << >>
  <2>1. Len(raw.txs) = 0
    BY <1>3, EmptySeq
  <2>2. ~(index + 0 = count)
    BY <1>1, <1>2
  <2> QED
    BY <1>1, <1>2, <2>1, <2>2, RefusedKeeps
<1>4. CASE raw.txs # << >>
  <2>1. block.height = -1
    BY <1>1, <1>4, NextTx DEF Readable
  <2> QED
    BY <1>1, <2>1, RefusedKeeps
<1> QED
  BY <1>3, <1>4

LEMMA FinishStep == CodecInv /\ Finish => CodecInv'
<1> SUFFICES ASSUME CodecInv, Finish PROVE CodecInv'
  OBVIOUS
<1>1. /\ step = "txs" /\ index = count /\ raw.txs = << >> /\ raw.extra = 0
      /\ height # -1 /\ step' = "ok"
      /\ UNCHANGED << block, whole, raw, count, index, height, vtx >>
  BY DEF Finish
<1>2. /\ count = Len(block.txs) /\ count \in Nat /\ index \in 0 .. count
      /\ whole <=> index + Len(raw.txs) = count /\ raw.extra = 0
  BY <1>1, TxsFacts
<1>3. Len(raw.txs) = 0
  BY <1>1, EmptySeq
<1>4. whole
  <2>1. index + 0 = count
    BY <1>1, <1>2
  <2> QED
    BY <1>1, <1>2, <1>3, <2>1
<1>5. height = block.height
  <2>1. index # 0 => index > 0
    BY <1>2
  <2> QED
    BY <1>1, <2>1 DEF CodecInv, HeightOK
<1>6. HeightOK' /\ KeptOK'
  BY <1>1, KeptUnchanged
<1>7. CodecShape'
  BY <1>1 DEF CodecInv, CodecShape
<1>8. HeadOK' /\ TxsOK' /\ WholeOK' /\ CountOK'
  BY <1>1 DEF HeadOK, TxsOK, WholeOK, CountOK, Reading
<1>9. Verdict'
  BY <1>1, <1>2, <1>4, <1>5 DEF Verdict
<1> QED
  BY <1>6, <1>7, <1>8, <1>9 DEF CodecInv

LEMMA FinishRefusedStep == CodecInv /\ FinishRefused => CodecInv'
<1> SUFFICES ASSUME CodecInv, FinishRefused PROVE CodecInv'
  OBVIOUS
<1> DEFINE n == Len(raw.txs)
<1>1. /\ step = "txs" /\ index = count /\ Refused
      /\ raw.txs # << >> \/ raw.extra > 0 \/ height = -1
  BY DEF FinishRefused
<1>2. /\ count = Len(block.txs) /\ count \in Nat /\ index \in 0 .. count
      /\ n \in Nat /\ index + n <= count
      /\ whole <=> index + n = count /\ raw.extra = 0
  BY <1>1, TxsFacts
<1>3. /\ block \in Blocks /\ raw.txs \in Seq(Tx) /\ raw.extra \in Nat
  BY DEF CodecInv, CodecShape
<1>4. raw.txs = << >>
  <2>1. raw.txs # << >> => n \in Nat \ {0}
    BY <1>3, EmptySeq
  <2> HIDE DEF n
  <2>2. n = 0
    BY <1>1, <1>2
  <2> QED
    BY <2>1, <2>2
<1>5. CASE raw.extra > 0
  <2> DEFINE e == raw.extra
  <2>1. e \in Nat /\ e > 0
    BY <1>3, <1>5
  <2> HIDE DEF e
  <2>2. e # 0
    BY <2>1
  <2>3. raw.extra # 0
    BY <2>2 DEF e
  <2> QED
    BY <1>1, <1>2, <2>3, RefusedKeeps
<1>6. CASE height = -1
  <2>1. index # 0 => index > 0
    BY <1>2
  <2>2. count = 0
    BY <1>1, <1>6, <2>1 DEF CodecInv, HeightOK
  <2>3. block.txs = << >>
    BY <1>2, <1>3, <2>2, BlockFacts, EmptySeq
  <2>4. block.height = -1
    BY <1>3, <2>3, BlockAssumption
  <2> QED
    BY <1>1, <2>4, RefusedKeeps
<1> QED
  BY <1>1, <1>4, <1>5, <1>6
-----------------------------------------------------------------------------
(* The theorems. *)

LEMMA StepCodecInv == CodecInv /\ [CodecNext]_codecVars => CodecInv'
<1> SUFFICES ASSUME CodecInv, [CodecNext]_codecVars PROVE CodecInv'
  OBVIOUS
<1>1. CASE UNCHANGED codecVars
  <2>1. UNCHANGED << block, whole, raw, step, count, index, height, vtx >>
    BY <1>1 DEF codecVars
  <2>2. HeightOK' /\ KeptOK'
    BY <2>1, KeptUnchanged
  <2>3. Skipped' = Skipped /\ Reading' = Reading
    <3>1. block' = block /\ step' = step
      BY <2>1
    <3> QED
      BY <3>1 DEF Skipped, Reading
  <2>4. SerialHead(block') = SerialHead(block)
    BY <2>1
  <2>5. HeadOK' /\ TxsOK' /\ WholeOK'
    BY <2>1, <2>3, <2>4 DEF CodecInv, HeadOK, TxsOK, WholeOK
  <2>6. CodecShape' /\ CountOK' /\ Verdict'
    BY <2>1 DEF CodecInv, CodecShape, CountOK, Verdict
  <2> QED
    BY <2>2, <2>5, <2>6 DEF CodecInv
<1>2. CASE ReadHeader
  BY <1>2, HeaderStep
<1>3. CASE HeaderTruncated
  BY <1>3, HeaderCutStep
<1>4. CASE ReadCount
  BY <1>4, CountStep
<1>5. CASE CountTruncated
  BY <1>5, CountCutStep
<1>6. CASE ReadTx
  BY <1>6, TxStep
<1>7. CASE TxUnreadable
  BY <1>7, TxCutStep
<1>8. CASE Finish
  BY <1>8, FinishStep
<1>9. CASE FinishRefused
  BY <1>9, FinishRefusedStep
<1> QED
  BY <1>1, <1>2, <1>3, <1>4, <1>5, <1>6, <1>7, <1>8, <1>9 DEF CodecNext

(* What is left of the input is what is left of the block, and what was    *)
(* kept is what was read, at every step of raw_block_to_compact.           *)
THEOREM CodecAlways == CodecSpec => []CodecInv
  BY InitCodecInv, StepCodecInv, PTL DEF CodecSpec

(* The locals of the parser keep their types, and a compact transaction is *)
(* numbered below the next one to read.                                    *)
THEOREM CodecTypeCorrect == CodecSpec => []CodecTypeOK
<1>1. CodecInv => CodecTypeOK
  <2> SUFFICES ASSUME CodecInv PROVE CodecTypeOK
    OBVIOUS
  <2> DEFINE Item == [index : 0 .. index - 1, spends : Nat, notes : Sizes]
  <2>1. vtx \in Seq(CompactTx) /\ index \in Nat /\ Len(vtx) \in Nat
    BY LenProperties DEF CodecInv, CodecShape
  <2>2. ASSUME NEW i \in 1 .. Len(vtx) PROVE vtx[i] \in Item
    <3>1. vtx[i] \in CompactTx
      BY <2>1, ElementOfSeq
    <3>2. vtx[i].index \in Nat /\ vtx[i].index < index
      BY <3>1 DEF CodecInv, KeptOK, CompactTx
    <3>3. \A a \in Nat : a < index => a \in 0 .. index - 1
      BY <2>1
    <3>4. vtx[i].index \in 0 .. index - 1
      BY <3>2, <3>3
    <3> QED
      BY <3>1, <3>4 DEF CompactTx
  <2> HIDE DEF Item
  <2>3. vtx \in Seq(Item)
    <3>1. vtx = [i \in 1 .. Len(vtx) |-> vtx[i]]
      BY <2>1, LenProperties
    <3>2. [i \in 1 .. Len(vtx) |-> vtx[i]] \in Seq(Item)
      BY <2>1, <2>2
    <3> QED
      BY <3>1, <3>2
  <2> QED
    BY <2>3 DEF CodecInv, CodecShape, CodecTypeOK, Item
<1> QED
  BY <1>1, CodecAlways, PTL

(* The parser of src/compact.rs takes a block if and only if all of it     *)
(* came, with nothing behind it and a height in its coinbase.              *)
THEOREM WholeBlocksOnly == CodecSpec => []OnlyWholeBlocks
<1>1. CodecInv => OnlyWholeBlocks
  BY DEF CodecInv, Verdict, OnlyWholeBlocks
<1> QED
  BY <1>1, CodecAlways, PTL

(* coinbase_height reads the height that was pushed, in whatever form.     *)
THEOREM HeightIsRead == CodecSpec => []HeightSurvives
<1>1. CodecInv => HeightSurvives
  BY DEF CodecInv, Verdict, HeightSurvives
<1> QED
  BY <1>1, CodecAlways, PTL

(* to_compact_tx drops nothing a wallet or the tree sizes depend on.       *)
THEOREM ShieldedIsKept == CodecSpec => []KeepsShielded
<1>1. CodecInv => KeepsShielded
  <2> SUFFICES ASSUME CodecInv, step = "ok" PROVE KeepsShielded
    BY DEF KeepsShielded
  <2> DEFINE n == Len(block.txs)
  <2>1. /\ index = n /\ block.txs \in Seq(Tx) /\ vtx \in Seq(CompactTx)
    BY BlockFacts DEF CodecInv, CodecShape, Verdict
  <2>2. HasMaterial \cap 1 .. n = HasMaterial
    BY <2>1, LenProperties DEF HasMaterial
  <2>3. SubSeq(block.txs, 1, n) = block.txs
    BY <2>1, SubSeqFull
  <2>4. DOMAIN vtx = 1 .. Len(vtx)
    BY <2>1, LenProperties
  <2> HIDE DEF n
  <2> QED
    BY <2>1, <2>2, <2>3, <2>4 DEF CodecInv, KeptOK, KeepsShielded
<1> QED
  BY <1>1, CodecAlways, PTL
=============================================================================
