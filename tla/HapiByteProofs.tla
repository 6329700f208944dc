--------------------------- MODULE HapiByteProofs ---------------------------
(***************************************************************************)
(* The encodings are right for every key, name, id and set of categories:  *)
(* what is written by a layout is read by it, wherever it lies and         *)
(* whatever follows it, and the library's declarations are those of the    *)
(* program.                                                                *)
(*                                                                         *)
(* Sequences of bytes are never taken apart byte by byte: At(c, k, b) says *)
(* where b lies in c, and all that is written and read is put together     *)
(* from lemmas on it.                                                      *)
(***************************************************************************)
EXTENDS HapiWireProperties, HapiProofs, SequenceTheorems

-----------------------------------------------------------------------------
(* Bit masks.                                                              *)

\* What is left of the mask m above the bits below v.
Above(m, v, r) == \E low \in Nat : low < v /\ m = low + v * r

\* One binary digit of a mask is taken off its lower end.
LEMMA Peel ==
  ASSUME NEW m, NEW v \in Nat, v > 0, NEW b \in {0, 1}, NEW r \in Nat,
         Above(m, v, b + 2 * r)
  PROVE  /\ (m \div v) % 2 = b
         /\ Above(m, 2 * v, r)
<1>1. PICK low \in Nat : low < v /\ m = low + v * (b + 2 * r)
  BY DEF Above
<1>2. m \div v = b + 2 * r
  BY <1>1
<1>3. (b + 2 * r) % 2 = b
  OBVIOUS
<1>4. CASE b = 0
  <2>1. m = low + (2 * v) * r /\ low < 2 * v
    BY <1>1, <1>4
  <2>. QED
    BY <1>2, <1>3, <2>1 DEF Above
<1>5. CASE b = 1
  <2>1. m = (low + v) + (2 * v) * r /\ low + v < 2 * v /\ low + v \in Nat
    BY <1>1, <1>5
  <2>. QED
    BY <1>2, <1>3, <2>1 DEF Above
<1>. QED
  BY <1>4, <1>5

\* The digit of v and the digits above it.
Digit(values, v, r, higher) == r = Has(values, v) + 2 * higher

Below(r, n) == r \in Nat /\ r < n

LEMMA HasIsBit ==
  ASSUME NEW values, NEW v
  PROVE  Has(values, v) \in {0, 1} /\ (Has(values, v) = 1 <=> v \in values)
BY DEF Has

\* How large a number of so many digits is, and what its lowest digit is.
LEMMA DigitBelow ==
  ASSUME NEW values, NEW v, NEW r, NEW higher, NEW n \in Nat,
         Digit(values, v, r, higher), Below(higher, n)
  PROVE  Below(r, 2 * n)
BY HasIsBit DEF Digit, Below

LEMMA DigitIs ==
  ASSUME NEW values, NEW m, NEW v \in Nat, v > 0, NEW r, NEW higher, NEW n,
         Digit(values, v, r, higher), Below(higher, n), Above(m, v, r)
  PROVE  /\ HasBit(m, v) <=> v \in values
         /\ Above(m, 2 * v, higher)
<1>1. PICK b \in {0, 1} : b = Has(values, v) /\ (b = 1 <=> v \in values)
  BY HasIsBit
<1>2. Above(m, v, b + 2 * higher) /\ higher \in Nat
  BY <1>1 DEF Digit, Below
<1>3. (m \div v) % 2 = b /\ Above(m, 2 * v, higher)
  BY <1>2, Peel
<1>. QED
  BY <1>1, <1>3 DEF HasBit

\* Each bit of a mask is that of the value it was or-ed from.
LEMMA OrBits ==
  ASSUME NEW values
  PROVE  /\ IsU32(Or(values))
         /\ HasBit(Or(values), 1) <=> 1 \in values
         /\ HasBit(Or(values), 2) <=> 2 \in values
         /\ HasBit(Or(values), 4) <=> 4 \in values
         /\ HasBit(Or(values), 8) <=> 8 \in values
         /\ HasBit(Or(values), 16) <=> 16 \in values
         /\ HasBit(Or(values), 32) <=> 32 \in values
         /\ HasBit(Or(values), 64) <=> 64 \in values
         /\ HasBit(Or(values), 128) <=> 128 \in values
         /\ HasBit(Or(values), 256) <=> 256 \in values
         /\ HasBit(Or(values), 512) <=> 512 \in values
         /\ HasBit(Or(values), 1024) <=> 1024 \in values
         /\ HasBit(Or(values), 2048) <=> 2048 \in values
         /\ HasBit(Or(values), 4096) <=> 4096 \in values
         /\ HasBit(Or(values), 8192) <=> 8192 \in values
         /\ HasBit(Or(values), 16384) <=> 16384 \in values
         /\ HasBit(Or(values), 32768) <=> 32768 \in values
         /\ HasBit(Or(values), 65536) <=> 65536 \in values
         /\ HasBit(Or(values), 131072) <=> 131072 \in values
         /\ HasBit(Or(values), 262144) <=> 262144 \in values
<1>1. PICK r18 : Digit(values, 262144, r18, 0)
  BY SMT DEF Digit
<1>2. PICK r17 : Digit(values, 131072, r17, r18)
  BY SMT DEF Digit
<1>3. PICK r16 : Digit(values, 65536, r16, r17)
  BY SMT DEF Digit
<1>4. PICK r15 : Digit(values, 32768, r15, r16)
  BY SMT DEF Digit
<1>5. PICK r14 : Digit(values, 16384, r14, r15)
  BY SMT DEF Digit
<1>6. PICK r13 : Digit(values, 8192, r13, r14)
  BY SMT DEF Digit
<1>7. PICK r12 : Digit(values, 4096, r12, r13)
  BY SMT DEF Digit
<1>8. PICK r11 : Digit(values, 2048, r11, r12)
  BY SMT DEF Digit
<1>9. PICK r10 : Digit(values, 1024, r10, r11)
  BY SMT DEF Digit
<1>10. PICK r9 : Digit(values, 512, r9, r10)
  BY SMT DEF Digit
<1>11. PICK r8 : Digit(values, 256, r8, r9)
  BY SMT DEF Digit
<1>12. PICK r7 : Digit(values, 128, r7, r8)
  BY SMT DEF Digit
<1>13. PICK r6 : Digit(values, 64, r6, r7)
  BY SMT DEF Digit
<1>14. PICK r5 : Digit(values, 32, r5, r6)
  BY SMT DEF Digit
<1>15. PICK r4 : Digit(values, 16, r4, r5)
  BY SMT DEF Digit
<1>16. PICK r3 : Digit(values, 8, r3, r4)
  BY SMT DEF Digit
<1>17. PICK r2 : Digit(values, 4, r2, r3)
  BY SMT DEF Digit
<1>18. PICK r1 : Digit(values, 2, r1, r2)
  BY SMT DEF Digit
<1>19. PICK r0 : Digit(values, 1, r0, r1)
  BY SMT DEF Digit
<1>20. Or(values) = r0
  BY <1>1, <1>2, <1>3, <1>4, <1>5, <1>6, <1>7, <1>8, <1>9, <1>10, <1>11,
     <1>12, <1>13, <1>14, <1>15, <1>16, <1>17, <1>18, <1>19, SMT DEF Or, Digit
<1>21. Below(0, 1)
  BY DEF Below
<1>22. Below(r18, 2)
  BY <1>21, <1>1, DigitBelow, SMT
<1>23. Below(r17, 4)
  BY <1>22, <1>2, DigitBelow, SMT
<1>24. Below(r16, 8)
  BY <1>23, <1>3, DigitBelow, SMT
<1>25. Below(r15, 16)
  BY <1>24, <1>4, DigitBelow, SMT
<1>26. Below(r14, 32)
  BY <1>25, <1>5, DigitBelow, SMT
<1>27. Below(r13, 64)
  BY <1>26, <1>6, DigitBelow, SMT
<1>28. Below(r12, 128)
  BY <1>27, <1>7, DigitBelow, SMT
<1>29. Below(r11, 256)
  BY <1>28, <1>8, DigitBelow, SMT
<1>30. Below(r10, 512)
  BY <1>29, <1>9, DigitBelow, SMT
<1>31. Below(r9, 1024)
  BY <1>30, <1>10, DigitBelow, SMT
<1>32. Below(r8, 2048)
  BY <1>31, <1>11, DigitBelow, SMT
<1>33. Below(r7, 4096)
  BY <1>32, <1>12, DigitBelow, SMT
<1>34. Below(r6, 8192)
  BY <1>33, <1>13, DigitBelow, SMT
<1>35. Below(r5, 16384)
  BY <1>34, <1>14, DigitBelow, SMT
<1>36. Below(r4, 32768)
  BY <1>35, <1>15, DigitBelow, SMT
<1>37. Below(r3, 65536)
  BY <1>36, <1>16, DigitBelow, SMT
<1>38. Below(r2, 131072)
  BY <1>37, <1>17, DigitBelow, SMT
<1>39. Below(r1, 262144)
  BY <1>38, <1>18, DigitBelow, SMT
<1>40. Below(r0, 524288)
  BY <1>39, <1>19, DigitBelow, SMT
<1>41. Above(r0, 1, r0)
  BY <1>40, SMT DEF Above, Below
<1>42. /\ HasBit(r0, 1) <=> 1 \in values
       /\ Above(r0, 2, r1)
  BY <1>41, <1>19, <1>39, DigitIs, SMT
<1>43. /\ HasBit(r0, 2) <=> 2 \in values
       /\ Above(r0, 4, r2)
  BY <1>42, <1>18, <1>38, DigitIs, SMT
<1>44. /\ HasBit(r0, 4) <=> 4 \in values
       /\ Above(r0, 8, r3)
  BY <1>43, <1>17, <1>37, DigitIs, SMT
<1>45. /\ HasBit(r0, 8) <=> 8 \in values
       /\ Above(r0, 16, r4)
  BY <1>44, <1>16, <1>36, DigitIs, SMT
<1>46. /\ HasBit(r0, 16) <=> 16 \in values
       /\ Above(r0, 32, r5)
  BY <1>45, <1>15, <1>35, DigitIs, SMT
<1>47. /\ HasBit(r0, 32) <=> 32 \in values
       /\ Above(r0, 64, r6)
  BY <1>46, <1>14, <1>34, DigitIs, SMT
<1>48. /\ HasBit(r0, 64) <=> 64 \in values
       /\ Above(r0, 128, r7)
  BY <1>47, <1>13, <1>33, DigitIs, SMT
<1>49. /\ HasBit(r0, 128) <=> 128 \in values
       /\ Above(r0, 256, r8)
  BY <1>48, <1>12, <1>32, DigitIs, SMT
<1>50. /\ HasBit(r0, 256) <=> 256 \in values
       /\ Above(r0, 512, r9)
  BY <1>49, <1>11, <1>31, DigitIs, SMT
<1>51. /\ HasBit(r0, 512) <=> 512 \in values
       /\ Above(r0, 1024, r10)
  BY <1>50, <1>10, <1>30, DigitIs, SMT
<1>52. /\ HasBit(r0, 1024) <=> 1024 \in values
       /\ Above(r0, 2048, r11)
  BY <1>51, <1>9, <1>29, DigitIs, SMT
<1>53. /\ HasBit(r0, 2048) <=> 2048 \in values
       /\ Above(r0, 4096, r12)
  BY <1>52, <1>8, <1>28, DigitIs, SMT
<1>54. /\ HasBit(r0, 4096) <=> 4096 \in values
       /\ Above(r0, 8192, r13)
  BY <1>53, <1>7, <1>27, DigitIs, SMT
<1>55. /\ HasBit(r0, 8192) <=> 8192 \in values
       /\ Above(r0, 16384, r14)
  BY <1>54, <1>6, <1>26, DigitIs, SMT
<1>56. /\ HasBit(r0, 16384) <=> 16384 \in values
       /\ Above(r0, 32768, r15)
  BY <1>55, <1>5, <1>25, DigitIs, SMT
<1>57. /\ HasBit(r0, 32768) <=> 32768 \in values
       /\ Above(r0, 65536, r16)
  BY <1>56, <1>4, <1>24, DigitIs, SMT
<1>58. /\ HasBit(r0, 65536) <=> 65536 \in values
       /\ Above(r0, 131072, r17)
  BY <1>57, <1>3, <1>23, DigitIs, SMT
<1>59. /\ HasBit(r0, 131072) <=> 131072 \in values
       /\ Above(r0, 262144, r18)
  BY <1>58, <1>2, <1>22, DigitIs, SMT
<1>60. /\ HasBit(r0, 262144) <=> 262144 \in values
       /\ Above(r0, 524288, 0)
  BY <1>59, <1>1, <1>21, DigitIs, SMT
<1>61. IsU32(r0)
  BY <1>40, SMT DEF IsU32, Below
<1>. QED
  BY <1>20, <1>42, <1>43, <1>44, <1>45, <1>46, <1>47, <1>48, <1>49, <1>50,
     <1>51, <1>52, <1>53, <1>54, <1>55, <1>56, <1>57, <1>58, <1>59, <1>60,
     <1>61, SMT

\* The two tables of category values, and that no entry occurs twice.
LEMMA BitOfCategory ==
  ASSUME NEW i \in 1 .. 20
  PROVE  CategoryBit[Categories[i]] = CategoryValues[i]
BY SMT DEF CategoryBit, Categories, CategoryValues

LEMMA Positions ==
  ASSUME NEW i \in 1 .. 20, NEW j \in 1 .. 20, Categories[i] = Categories[j]
  PROVE  i = j
BY SMT DEF Categories

LEMMA ValuePositions ==
  ASSUME NEW i \in 1 .. 20, NEW j \in 1 .. 20,
         CategoryValues[i] = CategoryValues[j]
  PROVE  i = j
BY SMT DEF CategoryValues

LEMMA CategoryPosition ==
  /\ DOMAIN Categories = 1 .. 20
  /\ DOMAIN CategoryValues = 1 .. 20
  /\ \A c \in Category : \E i \in 1 .. 20 : c = Categories[i]
  /\ \A i \in 1 .. 20 : Categories[i] = "Safe" <=> i = 1
<1>1. DOMAIN Categories = 1 .. 20 /\ DOMAIN CategoryValues = 1 .. 20
  BY SMT DEF Categories, CategoryValues
<1>2. Categories[1] = "Safe"
  BY SMT DEF Categories
<1>. QED
  BY <1>1, <1>2, Positions, CategoryAssumption

\* The bits of the values of categories.
LEMMA ValueBits ==
  ASSUME NEW values, NEW i \in 1 .. 20
  PROVE  HasBit(Or(values), CategoryValues[i])
             <=> i # 1 /\ CategoryValues[i] \in values
<1>1. CASE i = 1
  <2>1. CategoryValues[1] = 0
    BY SMT DEF CategoryValues
  <2>. QED
    BY <1>1, <2>1 DEF HasBit
<1>2. CASE i \in 2 .. 20
  <2>1. CategoryValues[i] \in {1, 2, 4, 8, 16, 32, 64, 128, 256, 512, 1024,
                               2048,
      4096, 8192, 16384, 32768, 65536, 131072, 262144}
    BY <1>2, SMT DEF CategoryValues
  <2>. QED
    BY <1>2, <2>1, OrBits, SMT
<1>. QED
  BY <1>1, <1>2

\* A set of categories is read from its mask, but for Safe.
LEMMA MaskRound ==
  ASSUME NEW s, s \subseteq Category
  PROVE  /\ IsU32(Bitmask(s))
         /\ Members(Bitmask(s)) = s \ {"Safe"}
<1>. DEFINE values == {CategoryBit[c] : c \in s}
<1>1. Bitmask(s) = Or(values)
  BY DEF Bitmask
<1>2. ASSUME NEW c \in Category
      PROVE  HasBit(Or(values), CategoryBit[c]) <=> c \in s \ {"Safe"}
  <2>1. PICK i \in 1 .. 20 : /\ c = Categories[i]
                              /\ CategoryBit[c] = CategoryValues[i]
    BY CategoryPosition, BitOfCategory
  <2>2. CategoryValues[i] \in values <=> c \in s
    <3>1. CASE CategoryValues[i] \in values
      <4>1. PICK d \in s : CategoryValues[i] = CategoryBit[d]
        BY <3>1
      <4>2. PICK j \in 1 .. 20 : /\ d = Categories[j]
                                  /\ CategoryBit[d] = CategoryValues[j]
        BY CategoryPosition, BitOfCategory
      <4>. QED
        BY <3>1, <4>1, <4>2, <2>1, ValuePositions
    <3>. QED
      BY <3>1, <2>1
  <2>3. HasBit(Or(values), CategoryBit[c])
            <=> i # 1 /\ CategoryValues[i] \in values
    BY <2>1, ValueBits
  <2>. QED
    BY <2>1, <2>2, <2>3, CategoryPosition
<1>3. Members(Or(values)) = s \ {"Safe"}
  BY <1>2 DEF Members
<1>. QED
  BY <1>1, <1>3, OrBits

\* The bytes b lie in c behind the first k.
At(c, k, b) == /\ k + Len(b) <= Len(c)
               /\ \A i \in 1 .. Len(b) : c[k + i] = b[i]

\* Pieces of runs of bytes.
LEMMA Slice ==
  ASSUME NEW c \in Seq(Byte), NEW k \in Nat, NEW n \in k .. Len(c)
  PROVE  /\ SubSeq(c, k + 1, n) \in Seq(Byte)
         /\ Len(SubSeq(c, k + 1, n)) = n - k
         /\ \A i \in 1 .. n - k : SubSeq(c, k + 1, n)[i] = c[k + i]
<1>1. \A i \in k + 1 .. n : c[i] \in Byte
  BY ElementOfSeq
<1>2. /\ SubSeq(c, k + 1, n) \in Seq(Byte)
      /\ Len(SubSeq(c, k + 1, n)) = n - k
      /\ \A i \in 1 .. n - (k + 1) + 1 :
             SubSeq(c, k + 1, n)[i] = c[(k + 1) + i - 1]
  BY <1>1, SubSeqProperties
<1>. QED
  BY <1>2

LEMMA AtSlice ==
  ASSUME NEW c \in Seq(Byte), NEW b \in Seq(Byte), NEW k \in Nat, At(c, k, b)
  PROVE  SubSeq(c, k + 1, k + Len(b)) = b
<1>. DEFINE s == SubSeq(c, k + 1, k + Len(b))
<1>1. k + Len(b) \in k .. Len(c)
  BY DEF At
<1>2. /\ s \in Seq(Byte) /\ Len(s) = Len(b)
      /\ \A i \in 1 .. Len(b) : s[i] = c[k + i]
  BY <1>1, Slice
<1>. HIDE DEF s
<1>3. \A i \in 1 .. Len(s) : s[i] = b[i]
  BY <1>2 DEF At
<1>4. s = b
  BY <1>2, <1>3, SeqEqual
<1>. QED
  BY <1>4 DEF s

LEMMA AtFront ==
  ASSUME NEW c \in Seq(Byte), NEW b \in Seq(Byte), At(c, 0, b)
  PROVE  SubSeq(c, 1, Len(b)) = b
<1>1. SubSeq(c, 0 + 1, 0 + Len(b)) = b
  BY AtSlice
<1>2. 0 + 1 = 1 /\ 0 + Len(b) = Len(b)
  OBVIOUS
<1>. QED
  BY <1>1, <1>2

\* What follows the first k bytes begins with the bytes that lie there.
LEMMA AtTail ==
  ASSUME NEW c \in Seq(Byte), NEW b \in Seq(Byte), NEW k \in Nat, At(c, k, b)
  PROVE  /\ SubSeq(c, k + 1, Len(c)) \in Seq(Byte)
         /\ Len(SubSeq(c, k + 1, Len(c))) = Len(c) - k
         /\ At(SubSeq(c, k + 1, Len(c)), 0, b)
         /\ SubSeq(SubSeq(c, k + 1, Len(c)), 1, Len(b)) = b
<1>. DEFINE r == SubSeq(c, k + 1, Len(c))
<1>1. Len(c) \in k .. Len(c)
  BY DEF At
<1>2. /\ r \in Seq(Byte) /\ Len(r) = Len(c) - k
      /\ \A i \in 1 .. Len(c) - k : r[i] = c[k + i]
  BY <1>1, Slice
<1>. HIDE DEF r
<1>3. At(r, 0, b)
  BY <1>2 DEF At
<1>4. SubSeq(r, 1, Len(b)) = b
  BY <1>2, <1>3, AtFront
<1>. QED
  BY <1>2, <1>3, <1>4 DEF r

Joined(r, p, q) == /\ Len(r) = Len(p) + Len(q)
                   /\ \A i \in 1 .. Len(p) : r[i] = p[i]
                   /\ \A i \in 1 .. Len(q) : r[Len(p) + i] = q[i]

\* Runs of bytes joined, and where their parts lie.
LEMMA Concat ==
  ASSUME NEW p \in Seq(Byte), NEW q \in Seq(Byte)
  PROVE  p \o q \in Seq(Byte) /\ Joined(p \o q, p, q)
BY ConcatProperties DEF Joined

LEMMA AtConcat ==
  ASSUME NEW c \in Seq(Byte), NEW k \in Nat, NEW r \in Seq(Byte),
         NEW p \in Seq(Byte), NEW q \in Seq(Byte),
         Joined(r, p, q), At(c, k, r)
  PROVE  At(c, k, p) /\ At(c, k + Len(p), q)
<1>1. k + Len(p) + Len(q) <= Len(c)
  BY DEF At, Joined
<1>2. ASSUME NEW i \in 1 .. Len(p) PROVE c[k + i] = p[i]
  BY DEF At, Joined
<1>3. ASSUME NEW i \in 1 .. Len(q) PROVE c[(k + Len(p)) + i] = q[i]
  <2>1. Len(p) + i \in 1 .. Len(r)
    BY DEF Joined
  <2>2. c[k + (Len(p) + i)] = r[Len(p) + i]
    BY <2>1 DEF At
  <2>. QED
    BY <2>2 DEF Joined
<1>. QED
  BY <1>1, <1>2, <1>3 DEF At

LEMMA AtParts ==
  ASSUME NEW r \in Seq(Byte), NEW p \in Seq(Byte), NEW q \in Seq(Byte),
         Joined(r, p, q)
  PROVE  At(r, 0, p) /\ At(r, Len(p), q)
BY DEF At, Joined

\* Four and eight bytes are the number they were made from.
LEMMA U32Round ==
  ASSUME NEW n, IsU32(n)
  PROVE  /\ U32Bytes(n) \in Seq(Byte)
         /\ Len(U32Bytes(n)) = 4
         /\ U32(U32Bytes(n)) = n
<1>1. U32Bytes(n) \in Seq(Byte) /\ Len(U32Bytes(n)) = 4
  BY SMT DEF U32Bytes, IsU32, Byte
<1>2. U32(U32Bytes(n)) = n
  BY SMT DEF U32Bytes, U32, IsU32
<1>. QED
  BY <1>1, <1>2

LEMMA U32Reads ==
  ASSUME NEW c \in Seq(Byte), NEW n, IsU32(n), At(c, 0, U32Bytes(n))
  PROVE  U32(c) = n
<1>1. U32(c) = U32(U32Bytes(n))
  BY U32Round, SMT DEF At, U32
<1>. QED
  BY <1>1, U32Round

LEMMA U64Round ==
  ASSUME NEW n, IsU64(n)
  PROVE  /\ U64Bytes(n) \in Seq(Byte)
         /\ Len(U64Bytes(n)) = 8
         /\ U64(U64Bytes(n)) = n
<1>. DEFINE h == (n \div 65536) \div 65536
            l == n % 4294967296
            b == U64Bytes(n)
<1>1. /\ n \in Nat /\ h \in Nat /\ l \in Nat
      /\ IsU32(h) /\ IsU32(l)
      /\ n = l + 65536 * (65536 * h)
  BY SMT DEF IsU32, IsU64
<1>2. U32Bytes(n) = U32Bytes(l)
  BY <1>1, SMT DEF U32Bytes
<1>. HIDE DEF l
<1>3. b = U32Bytes(l) \o U32Bytes(h)
  BY <1>2, SMT DEF U64Bytes
<1>. HIDE DEF h, b
<1>4. PICK lo \in Seq(Byte) : lo = U32Bytes(l) /\ Len(lo) = 4 /\ U32(lo) = l
  BY <1>1, U32Round, SMT
<1>5. PICK hi \in Seq(Byte) : hi = U32Bytes(h) /\ Len(hi) = 4 /\ U32(hi) = h
  BY <1>1, U32Round, SMT
<1>6. b \in Seq(Byte) /\ Joined(b, lo, hi)
  BY <1>3, <1>4, <1>5, Concat
<1>7. Len(b) = 8
  BY <1>4, <1>5, <1>6 DEF Joined
<1>8. At(b, 0, lo) /\ At(b, 4, hi)
  BY <1>4, <1>6, AtParts
<1>9. U32(b) = l
  BY <1>1, <1>4, <1>6, <1>8, U32Reads
<1>10. SubSeq(b, 5, 8) = hi
  <2>1. SubSeq(b, 4 + 1, 4 + Len(hi)) = hi
    BY <1>6, <1>8, AtSlice
  <2>. QED
    BY <1>5, <2>1
<1>11. U64(b) = l + 65536 * (65536 * h)
  <2>1. U32(SubSeq(b, 5, 8)) = h
    BY <1>5, <1>10
  <2>. QED
    BY <1>9, <2>1, SMT DEF U64
<1>. QED
  BY <1>1, <1>6, <1>7, <1>11, SMT DEF b

\* Enumerations: no variant occurs twice, so its position says which it is.
LEMMA VariantsAre ==
  ASSUME NEW type \in DOMAIN Variants
  PROVE  /\ Len(Variants[type]) \in 1 .. 20
         /\ DOMAIN Variants[type] = 1 .. Len(Variants[type])
         /\ \A i, j \in DOMAIN Variants[type] :
                Variants[type][i] = Variants[type][j] => i = j
<1>1. CASE type = "Category"
  <2>1. Variants[type] = Categories /\ Len(Categories) = 20
    BY <1>1, SMT DEF Variants, Categories
  <2>. QED
    BY <2>1, CategoryPosition, Positions
<1>2. CASE type = "HapiAccountType"
  <2>1. Variants[type] = HapiAccountType
    BY <1>2, SMT DEF Variants
  <2>. QED
    BY <2>1, SMT DEF HapiAccountType
<1>3. CASE type = "ReporterType"
  <2>1. Variants[type] = <<"Inactive", "Tracer", "Full", "Authority">>
    BY <1>3, SMT DEF Variants
  <2>. QED
    BY <2>1, SMT
<1>4. CASE type = "CaseStatus"
  <2>1. Variants[type] = <<"Open", "Closed">>
    BY <1>4, SMT DEF Variants
  <2>. QED
    BY <2>1, SMT
<1>5. DOMAIN Variants = {"HapiAccountType", "ReporterType", "CaseStatus",
                         "Category"}
  BY SMT DEF Variants
<1>. QED
  BY <1>1, <1>2, <1>3, <1>4, <1>5

LEMMA IndexIs ==
  ASSUME NEW s, NEW n \in Nat, DOMAIN s = 1 .. n,
         \A i, j \in DOMAIN s : s[i] = s[j] => i = j,
         NEW i \in DOMAIN s
  PROVE  IndexOf(s, s[i]) = i - 1
<1>1. (CHOOSE j \in DOMAIN s : s[j] = s[i]) = i
  OBVIOUS
<1>. QED
  BY <1>1 DEF IndexOf

\* What the fields of a type hold.
Holdable(type, v) ==
    \/ type = "u8" /\ v \in Byte
    \/ type = "u32" /\ IsU32(v)
    \/ type = "u64" /\ IsU64(v)
    \/ type = "CategorySet" /\ v \subseteq Category \ {"Safe"}
    \/ type = "Pubkey" /\ v \in Pubkey
    \/ type = "String" /\ v \in Name
    \/ /\ type \in DOMAIN Variants
       /\ \E i \in DOMAIN Variants[type] : v = Variants[type][i]

\* The CASEs on types, one by one.
LEMMA TypesDiffer ==
  ASSUME NEW type \in DOMAIN Variants
  PROVE  type \notin {"u8", "u32", "u64", "CategorySet", "Pubkey", "String"}
<1>1. DOMAIN Variants = {"HapiAccountType", "ReporterType", "CaseStatus",
                         "Category"}
  BY SMT DEF Variants
<1>. QED
  BY <1>1

LEMMA HoldableIs ==
  /\ \A v : Holdable("u8", v) <=> v \in Byte
  /\ \A v : Holdable("u32", v) <=> IsU32(v)
  /\ \A v : Holdable("u64", v) <=> IsU64(v)
  /\ \A v : Holdable("CategorySet", v) <=> v \subseteq Category \ {"Safe"}
  /\ \A v : Holdable("Pubkey", v) <=> v \in Pubkey
  /\ \A v : Holdable("String", v) <=> v \in Name
  /\ \A type \in DOMAIN Variants : \A v :
         Holdable(type, v) <=> \E i \in DOMAIN Variants[type] :
                                   v = Variants[type][i]
BY TypesDiffer, Zenon DEF Holdable

LEMMA BytesOfIs ==
  /\ \A v : BytesOf("u8", v) = <<v>>
  /\ \A v : BytesOf("u32", v) = U32Bytes(v)
  /\ \A v : BytesOf("u64", v) = U64Bytes(v)
  /\ \A v : BytesOf("CategorySet", v) = U32Bytes(Bitmask(v))
  /\ \A v : BytesOf("Pubkey", v) = KeyBytes[v]
  /\ \A v : BytesOf("String", v) = U32Bytes(Len(NameBytes[v])) \o NameBytes[v]
  /\ \A type \in DOMAIN Variants : \A v :
         BytesOf(type, v) = <<IndexOf(Variants[type], v)>>
BY TypesDiffer DEF BytesOf

LEMMA ValueOfIs ==
  /\ \A b : ValueOf("u8", b) = b[1]
  /\ \A b : ValueOf("u32", b) = U32(b)
  /\ \A b : ValueOf("u64", b) = U64(b)
  /\ \A b : ValueOf("CategorySet", b) = Members(U32(b))
  /\ \A b : ValueOf("Pubkey", b) = KeyOf(b)
  /\ \A b : ValueOf("String", b) = NameOf(SubSeq(b, 5, Len(b)))
  /\ \A type \in DOMAIN Variants : \A b :
         ValueOf(type, b) = Variants[type][b[1] + 1]
BY TypesDiffer DEF ValueOf

\* Keys and names are known by their bytes.
LEMMA KeysAndNames ==
  /\ \A k \in Pubkey : KeyOf(KeyBytes[k]) = k
  /\ \A n \in Name : NameOf(NameBytes[n]) = n
BY BytesAssumption DEF KeyOf, NameOf

LEMMA SizeIs ==
  /\ Size("u8") = 1 /\ Size("u32") = 4 /\ Size("u64") = 8
  /\ Size("CategorySet") = 4 /\ Size("Pubkey") = 32
  /\ \A type \in DOMAIN Variants : Size(type) = 1
BY TypesDiffer DEF Size

LEMMA FunctionIsSequence ==
  ASSUME NEW n \in Nat, NEW f \in [1 .. n -> Byte]
  PROVE  f \in Seq(Byte) /\ Len(f) = n
OBVIOUS

\* A variant is one byte, its position.
LEMMA VariantBytes ==
  ASSUME NEW type \in DOMAIN Variants, NEW i \in DOMAIN Variants[type],
         NEW b, b = BytesOf(type, Variants[type][i])
  PROVE  /\ b = <<i - 1>> /\ i - 1 \in Byte
         /\ i \in 1 .. Len(Variants[type]) /\ Len(Variants[type]) \in Nat
         /\ ValueOf(type, b) = Variants[type][i]
<1>1. /\ i \in 1 .. Len(Variants[type]) /\ Len(Variants[type]) \in 1 .. 20
      /\ DOMAIN Variants[type] = 1 .. Len(Variants[type])
  BY VariantsAre
<1>2. IndexOf(Variants[type], Variants[type][i]) = i - 1
  <2>. DEFINE s == Variants[type]
              n == Len(s)
  <2>1. /\ n \in Nat /\ DOMAIN s = 1 .. n /\ i \in DOMAIN s
        /\ \A j, k \in DOMAIN s : s[j] = s[k] => j = k
    BY <1>1, VariantsAre
  <2>. HIDE DEF s, n
  <2>2. IndexOf(s, s[i]) = i - 1
    BY <2>1, IndexIs
  <2>. QED
    BY <2>2 DEF s
<1>3. b = <<i - 1>>
  BY <1>2, BytesOfIs
<1>4. i - 1 \in Byte
  <2>. DEFINE n == Len(Variants[type])
  <2>1. n \in 1 .. 20 /\ i \in 1 .. n
    BY <1>1
  <2>. HIDE DEF n
  <2>. QED
    BY <2>1 DEF Byte
<1>5. ValueOf(type, b) = Variants[type][b[1] + 1]
  BY ValueOfIs
<1>. QED
  BY <1>1, <1>3, <1>4, <1>5

\* The bytes of a value of any type but String are Size of them, and are the
\* value again.
LEMMA FixedBytes ==
  ASSUME NEW type, NEW v, Holdable(type, v), type # "String",
         NEW b, b = BytesOf(type, v)
  PROVE  /\ b \in Seq(Byte)
         /\ Len(b) = Size(type) /\ Len(b) > 0
         /\ ValueOf(type, b) = v
         /\ type \in DOMAIN Variants => b[1] < Len(Variants[type])
<1>1. CASE type = "u8"
  <2>1. b = <<v>> /\ v \in Byte
    BY <1>1, HoldableIs, BytesOfIs
  <2>2. ValueOf(type, b) = b[1] /\ Size(type) = 1
    BY <1>1, ValueOfIs, SizeIs
  <2>3. type \notin DOMAIN Variants
    BY <1>1, TypesDiffer
  <2>4. b \in Seq(Byte) /\ Len(b) = 1 /\ b[1] = v
    BY <2>1
  <2>. QED
    BY <2>2, <2>3, <2>4
<1>2. CASE type = "u32"
  <2>1. b \in Seq(Byte) /\ Len(b) = 4 /\ U32(b) = v
    BY <1>2, HoldableIs, BytesOfIs, U32Round
  <2>2. ValueOf(type, b) = U32(b) /\ Size(type) = 4
    BY <1>2, ValueOfIs, SizeIs
  <2>3. type \notin DOMAIN Variants
    BY <1>2, TypesDiffer
  <2>. QED
    BY <2>1, <2>2, <2>3
<1>3. CASE type = "u64"
  <2>1. b \in Seq(Byte) /\ Len(b) = 8 /\ U64(b) = v
    BY <1>3, HoldableIs, BytesOfIs, U64Round
  <2>2. ValueOf(type, b) = U64(b) /\ Size(type) = 8
    BY <1>3, ValueOfIs, SizeIs
  <2>3. type \notin DOMAIN Variants
    BY <1>3, TypesDiffer
  <2>. QED
    BY <2>1, <2>2, <2>3
<1>4. CASE type = "CategorySet"
  <2>1. b = U32Bytes(Bitmask(v)) /\ v \subseteq Category \ {"Safe"}
    BY <1>4, HoldableIs, BytesOfIs
  <2>2. IsU32(Bitmask(v)) /\ Members(Bitmask(v)) = v
    BY <2>1, MaskRound
  <2>3. b \in Seq(Byte) /\ Len(b) = 4 /\ U32(b) = Bitmask(v)
    BY <2>1, <2>2, U32Round
  <2>4. ValueOf(type, b) = Members(U32(b)) /\ Size(type) = 4
    BY <1>4, ValueOfIs, SizeIs
  <2>5. type \notin DOMAIN Variants
    BY <1>4, TypesDiffer
  <2>. QED
    BY <2>2, <2>3, <2>4, <2>5
<1>5. CASE type = "Pubkey"
  <2>1. b = KeyBytes[v] /\ v \in Pubkey
    BY <1>5, HoldableIs, BytesOfIs
  <2>2. b \in Seq(Byte) /\ Len(b) = 32
    <3>1. b \in [1 .. 32 -> Byte]
      BY <2>1, BytesAssumption
    <3>. QED
      BY <3>1, FunctionIsSequence
  <2>3. ValueOf(type, b) = v /\ Size(type) = 32
    BY <1>5, <2>1, ValueOfIs, KeysAndNames, SizeIs
  <2>4. type \notin DOMAIN Variants
    BY <1>5, TypesDiffer
  <2>. QED
    BY <2>2, <2>3, <2>4
<1>6. CASE type \in DOMAIN Variants
  <2>1. PICK i \in DOMAIN Variants[type] : v = Variants[type][i]
    BY <1>6, HoldableIs
  <2>2. /\ b = <<i - 1>> /\ i - 1 \in Byte
        /\ i \in 1 .. Len(Variants[type]) /\ Len(Variants[type]) \in Nat
        /\ ValueOf(type, b) = v
    BY <1>6, <2>1, VariantBytes
  <2>3. Size(type) = 1
    BY <1>6, SizeIs
  <2>. QED
    BY <2>2, <2>3
<1>. QED
  BY <1>1, <1>2, <1>3, <1>4, <1>5, <1>6 DEF Holdable

\* A name is its length and its bytes, and is read from them.
LEMMA StringBytes ==
  ASSUME NEW v \in Name, NEW b, b = BytesOf("String", v)
  PROVE  /\ b \in Seq(Byte)
         /\ Len(b) = 4 + NameLen[v]
         /\ At(b, 0, U32Bytes(NameLen[v]))
         /\ ValueOf("String", b) = v
<1>. DEFINE n == NameLen[v]
<1>1. /\ n \in Nat /\ IsU32(n)
      /\ NameBytes[v] \in Seq(Byte)
      /\ Len(NameBytes[v]) = n
  BY NameAssumption, BytesAssumption
<1>. HIDE DEF n
<1>2. PICK lo \in Seq(Byte) : lo = U32Bytes(n) /\ Len(lo) = 4
  BY <1>1, U32Round
<1>3. PICK s \in Seq(Byte) : s = NameBytes[v] /\ Len(s) = n
  BY <1>1
<1>4. b = lo \o s
  BY <1>2, <1>3, BytesOfIs
<1>5. b \in Seq(Byte) /\ Joined(b, lo, s)
  BY <1>4, Concat
<1>6. Len(b) = 4 + n
  BY <1>2, <1>3, <1>5 DEF Joined
<1>7. At(b, 0, lo) /\ At(b, 4, s)
  BY <1>2, <1>3, <1>5, AtParts
<1>8. SubSeq(b, 5, Len(b)) = s
  <2>1. SubSeq(b, 4 + 1, 4 + Len(s)) = s
    BY <1>5, <1>7, AtSlice
  <2>. QED
    BY <2>1, <1>3, <1>6
<1>. QED
  BY <1>2, <1>5, <1>6, <1>3, <1>7, <1>8, ValueOfIs, KeysAndNames DEF n

\* What lies in a part lies in the whole.
LEMMA AtTrans ==
  ASSUME NEW c \in Seq(Byte), NEW b \in Seq(Byte), NEW a \in Seq(Byte),
         NEW k \in Nat, NEW j \in Nat, At(c, k, b), At(b, j, a)
  PROVE  At(c, k + j, a)
<1>1. (k + j) + Len(a) <= Len(c)
  BY DEF At
<1>2. ASSUME NEW i \in 1 .. Len(a) PROVE c[(k + j) + i] = a[i]
  <2>1. j + i \in 1 .. Len(b)
    BY DEF At
  <2>2. c[k + (j + i)] = b[j + i] /\ b[j + i] = a[i]
    BY <2>1 DEF At
  <2>. QED
    BY <2>2
<1>. QED
  BY <1>1, <1>2 DEF At

LEMMA AtBegin ==
  ASSUME NEW c \in Seq(Byte), NEW b \in Seq(Byte), NEW a \in Seq(Byte),
         NEW j \in Nat, At(c, 0, b), At(b, j, a)
  PROVE  At(c, j, a)
<1>1. At(c, 0 + j, a) /\ 0 + j = j
  BY AtTrans
<1>. QED
  BY <1>1

ReadAs(type, r, b, v) ==
    /\ IsValue(type, r)
    /\ Width(type, r) = Len(b)
    /\ ValueOf(type, SubSeq(r, 1, Width(type, r))) = v

\* A value is read where it lies, whatever follows it.
LEMMA ValueRead ==
  ASSUME NEW c \in Seq(Byte), NEW k \in Nat, NEW type, NEW v,
         Holdable(type, v), NEW b, b = BytesOf(type, v), At(c, k, b),
         NEW r, r = SubSeq(c, k + 1, Len(c))
  PROVE  ReadAs(type, r, b, v)
<1>1. CASE type # "String"
  <2>1. /\ b \in Seq(Byte) /\ Len(b) = Size(type) /\ Len(b) > 0
        /\ ValueOf(type, b) = v
        /\ type \in DOMAIN Variants => b[1] < Len(Variants[type])
    BY <1>1, FixedBytes
  <2>2. /\ r \in Seq(Byte) /\ At(r, 0, b)
        /\ SubSeq(r, 1, Len(b)) = b
    BY <2>1, AtTail
  <2>3. Width(type, r) = Len(b)
    BY <1>1, <2>1 DEF Width
  <2>4. Len(r) >= Len(b) /\ r[1] = b[1]
    BY <2>1, <2>2 DEF At
  <2>. QED
    BY <2>1, <2>2, <2>3, <2>4 DEF IsValue, ReadAs
<1>2. CASE type = "String"
  <2>. DEFINE n == NameLen[v]
  <2>1. v \in Name /\ n \in Nat /\ IsU32(n)
    BY <1>2, HoldableIs, NameAssumption, BytesAssumption
  <2>. HIDE DEF n
  <2>2. /\ b \in Seq(Byte) /\ Len(b) = 4 + n
        /\ At(b, 0, U32Bytes(n))
        /\ ValueOf("String", b) = v
    BY <1>2, <2>1, StringBytes DEF n
  <2>3. /\ r \in Seq(Byte) /\ At(r, 0, b)
        /\ SubSeq(r, 1, Len(b)) = b
    BY <2>2, AtTail
  <2>4. At(r, 0, U32Bytes(n))
    BY <2>1, <2>2, <2>3, AtBegin, U32Round
  <2>5. U32(r) = n
    BY <2>1, <2>3, <2>4, U32Reads
  <2>6. Len(r) >= 4 + n
    BY <2>1, <2>2, <2>3 DEF At
  <2>7. Width("String", r) = 4 + n
    BY <2>1, <2>5, <2>6 DEF Width
  <2>8. "String" \notin DOMAIN Variants
    BY TypesDiffer
  <2>9. IsValue("String", r)
    BY <2>1, <2>6, <2>7, <2>8 DEF IsValue
  <2>. QED
    BY <1>2, <2>2, <2>3, <2>7, <2>9 DEF ReadAs
<1>. QED
  BY <1>1, <1>2

LEMMA BytesOfHoldable ==
  ASSUME NEW type, NEW v, Holdable(type, v)
  PROVE  /\ BytesOf(type, v) \in Seq(Byte)
         /\ type # "String" => Len(BytesOf(type, v)) = Size(type)
<1>1. CASE type # "String"
  BY <1>1, FixedBytes
<1>2. CASE type = "String"
  BY <1>2, HoldableIs, StringBytes
<1>. QED
  BY <1>1, <1>2

-----------------------------------------------------------------------------
(* Structs.                                                                *)

\* Five runs of bytes lie in r one after the other.
Parts(r, p, q, s, t, u) ==
    /\ r \in Seq(Byte)
    /\ Len(r) = Len(p) + Len(q) + Len(s) + Len(t) + Len(u)
    /\ At(r, 0, p)
    /\ At(r, Len(p), q)
    /\ At(r, Len(p) + Len(q), s)
    /\ At(r, Len(p) + Len(q) + Len(s), t)
    /\ At(r, Len(p) + Len(q) + Len(s) + Len(t), u)

LEMMA Five ==
  ASSUME NEW p \in Seq(Byte), NEW q \in Seq(Byte), NEW s \in Seq(Byte),
         NEW t \in Seq(Byte), NEW u \in Seq(Byte),
         NEW r, r = p \o q \o s \o t \o u
  PROVE  Parts(r, p, q, s, t, u)
<1>1. PICK r2 \in Seq(Byte) : r2 = p \o q /\ Joined(r2, p, q)
  BY Concat
<1>2. PICK r3 \in Seq(Byte) : r3 = r2 \o s /\ Joined(r3, r2, s)
  BY Concat
<1>3. PICK r4 \in Seq(Byte) : r4 = r3 \o t /\ Joined(r4, r3, t)
  BY Concat
<1>4. r = r4 \o u
  BY <1>1, <1>2, <1>3, Zenon
<1>5. r \in Seq(Byte) /\ Joined(r, r4, u)
  BY <1>4, Concat
<1>6. /\ Len(r2) = Len(p) + Len(q)
      /\ Len(r3) = Len(p) + Len(q) + Len(s)
      /\ Len(r4) = Len(p) + Len(q) + Len(s) + Len(t)
      /\ Len(r) = Len(p) + Len(q) + Len(s) + Len(t) + Len(u)
  BY <1>1, <1>2, <1>3, <1>5 DEF Joined
<1>7. /\ At(r2, 0, p) /\ At(r2, Len(p), q)
      /\ At(r3, 0, r2) /\ At(r3, Len(r2), s)
      /\ At(r4, 0, r3) /\ At(r4, Len(r3), t)
      /\ At(r, 0, r4) /\ At(r, Len(r4), u)
  BY <1>1, <1>2, <1>3, <1>5, AtParts
<1>8. /\ 0 \in Nat /\ Len(p) \in Nat /\ Len(r2) \in Nat /\ Len(r3) \in Nat
  OBVIOUS
<1>9. At(r, 0, r3)
  BY <1>5, <1>7, <1>8, AtBegin
<1>10. At(r, Len(r3), t)
  BY <1>5, <1>7, <1>8, AtBegin
<1>11. At(r, 0, r2)
  BY <1>5, <1>7, <1>8, <1>9, AtBegin
<1>12. At(r, Len(r2), s)
  BY <1>5, <1>7, <1>8, <1>9, AtBegin
<1>13. At(r, 0, p)
  BY <1>5, <1>7, <1>8, <1>11, AtBegin
<1>14. At(r, Len(p), q)
  BY <1>5, <1>7, <1>8, <1>11, AtBegin
<1>. QED
  BY <1>5, <1>6, <1>7, <1>10, <1>12, <1>13, <1>14 DEF Parts

\* A layout as the modules declare them: at most five fields with names of
\* their own, and none but the last is a string.
WellFormed(layout) ==
    /\ Len(layout) \in 0 .. 5
    /\ DOMAIN layout = 1 .. Len(layout)
    /\ \A i \in DOMAIN layout : i < Len(layout) => layout[i].type # "String"
    /\ \A i, j \in DOMAIN layout : layout[i].name = layout[j].name => i = j

Fitting(layout, struct) ==
    \A i \in DOMAIN layout :
        Holdable(layout[i].type, struct[layout[i].name])

\* The bytes of a field; there are none behind the last.
LEMMA FieldsOf ==
  ASSUME NEW layout, WellFormed(layout), NEW struct, Fitting(layout, struct),
         NEW i \in 1 .. 5
  PROVE  /\ FieldBytes(layout, struct, i) \in Seq(Byte)
         /\ i > Len(layout) => Len(FieldBytes(layout, struct, i)) = 0
         /\ i < Len(layout) =>
                Len(FieldBytes(layout, struct, i)) = Size(layout[i].type)
<1>1. CASE i \in DOMAIN layout
  BY <1>1, BytesOfHoldable DEF FieldBytes, Fitting, WellFormed
<1>2. CASE i \notin DOMAIN layout
  BY <1>2 DEF FieldBytes, WellFormed
<1>. QED
  BY <1>1, <1>2

\* Where the fields of a struct lie.
LEMMA Serialized ==
  ASSUME NEW layout, WellFormed(layout), NEW struct, Fitting(layout, struct),
         NEW r, r = serialize(layout, struct)
  PROVE  /\ r \in Seq(Byte)
         /\ \A i \in DOMAIN layout :
                /\ Offset(layout, i) \in Nat
                /\ At(r, Offset(layout, i), FieldBytes(layout, struct, i))
         /\ Len(layout) = 0 => Len(r) = 0
         /\ Len(layout) \in DOMAIN layout =>
                Len(r) = Offset(layout, Len(layout))
                         + Len(FieldBytes(layout, struct, Len(layout)))
<1>. DEFINE n == Len(layout)
<1>1. PICK p \in Seq(Byte) : /\ p = FieldBytes(layout, struct, 1)
                             /\ 1 > n => Len(p) = 0
                             /\ 1 < n => Len(p) = Size(layout[1].type)
  BY FieldsOf
<1>2. PICK q \in Seq(Byte) : /\ q = FieldBytes(layout, struct, 2)
                             /\ 2 > n => Len(q) = 0
                             /\ 2 < n => Len(q) = Size(layout[2].type)
  BY FieldsOf
<1>3. PICK s \in Seq(Byte) : /\ s = FieldBytes(layout, struct, 3)
                             /\ 3 > n => Len(s) = 0
                             /\ 3 < n => Len(s) = Size(layout[3].type)
  BY FieldsOf
<1>4. PICK t \in Seq(Byte) : /\ t = FieldBytes(layout, struct, 4)
                             /\ 4 > n => Len(t) = 0
                             /\ 4 < n => Len(t) = Size(layout[4].type)
  BY FieldsOf
<1>5. PICK u \in Seq(Byte) : /\ u = FieldBytes(layout, struct, 5)
                             /\ 5 > n => Len(u) = 0
  BY FieldsOf
<1>6. r = p \o q \o s \o t \o u
  BY <1>1, <1>2, <1>3, <1>4, <1>5, Zenon DEF serialize
<1>. HIDE DEF n
<1>7. Parts(r, p, q, s, t, u)
  BY <1>6, Five
<1>8. n \in 0 .. 5 /\ DOMAIN layout = 1 .. n
  BY DEF WellFormed, n
<1>9. /\ 1 <= n => Offset(layout, 1) = 0
      /\ 2 <= n => Offset(layout, 2) = Len(p)
      /\ 3 <= n => Offset(layout, 3) = Len(p) + Len(q)
      /\ 4 <= n => Offset(layout, 4) = Len(p) + Len(q) + Len(s)
      /\ 5 <= n => Offset(layout, 5) = Len(p) + Len(q) + Len(s) + Len(t)
  BY <1>1, <1>2, <1>3, <1>4, <1>8 DEF Offset
<1>10. ASSUME NEW i \in DOMAIN layout
       PROVE  /\ Offset(layout, i) \in Nat
              /\ At(r, Offset(layout, i), FieldBytes(layout, struct, i))
  <2>1. CASE i = 1
    BY <2>1, <1>1, <1>7, <1>8, <1>9 DEF Parts
  <2>2. CASE i = 2
    BY <2>2, <1>2, <1>7, <1>8, <1>9 DEF Parts
  <2>3. CASE i = 3
    BY <2>3, <1>3, <1>7, <1>8, <1>9 DEF Parts
  <2>4. CASE i = 4
    BY <2>4, <1>4, <1>7, <1>8, <1>9 DEF Parts
  <2>5. CASE i = 5
    BY <2>5, <1>5, <1>7, <1>8, <1>9 DEF Parts
  <2>. QED
    BY <1>8, <2>1, <2>2, <2>3, <2>4, <2>5
<1>11. Len(r) = Len(p) + Len(q) + Len(s) + Len(t) + Len(u)
  BY <1>7 DEF Parts
<1>12. ASSUME NEW i \in DOMAIN layout, i >= n
       PROVE  Len(r) = Offset(layout, i) + Len(FieldBytes(layout, struct, i))
  <2>1. CASE i = 1
    BY <2>1, <1>1, <1>2, <1>3, <1>4, <1>5, <1>8, <1>9, <1>11, <1>12
  <2>2. CASE i = 2
    BY <2>2, <1>2, <1>3, <1>4, <1>5, <1>8, <1>9, <1>11, <1>12
  <2>3. CASE i = 3
    BY <2>3, <1>3, <1>4, <1>5, <1>8, <1>9, <1>11, <1>12
  <2>4. CASE i = 4
    <3>1. Len(u) = 0 /\ 4 <= n
      BY <2>4, <1>5, <1>8, <1>12
    <3>2. Offset(layout, 4) = Len(p) + Len(q) + Len(s)
      BY <3>1, <1>9
    <3>3. Len(r) = Offset(layout, 4) + Len(t)
      BY <3>1, <3>2, <1>11
    <3>. QED
      BY <2>4, <3>3, <1>4
  <2>5. CASE i = 5
    BY <2>5, <1>5, <1>8, <1>9, <1>11, <1>12
  <2>. QED
    BY <1>8, <2>1, <2>2, <2>3, <2>4, <2>5
<1>13. n = 0 => Len(r) = 0
  BY <1>1, <1>2, <1>3, <1>4, <1>5, <1>11
<1>14. n \in DOMAIN layout =>
           Len(r) = Offset(layout, n) + Len(FieldBytes(layout, struct, n))
  <2>1. n >= n
    BY <1>8
  <2>. QED
    BY <2>1, <1>12, Zenon
<1>. QED
  BY <1>7, <1>10, <1>13, <1>14 DEF n, Parts

\* A struct is read where it was written, whatever follows it.
LEMMA StructRead ==
  ASSUME NEW layout, WellFormed(layout), NEW struct, Fitting(layout, struct),
         NEW c \in Seq(Byte), At(c, 0, serialize(layout, struct)),
         NEW read, read = try_from_slice_unchecked(layout, c)
  PROVE  /\ read.ok
         /\ read.struct = [f \in {layout[i].name : i \in DOMAIN layout} |->
                               struct[f]]
         /\ read.length = Len(serialize(layout, struct))
<1>. DEFINE r == serialize(layout, struct)
            b(i) == FieldBytes(layout, struct, i)
            from(i) == From(layout, c, i)
<1>1. /\ r \in Seq(Byte)
      /\ \A i \in DOMAIN layout : Offset(layout, i) \in Nat
                                  /\ At(r, Offset(layout, i), b(i))
      /\ Len(layout) = 0 => Len(r) = 0
      /\ Len(layout) \in DOMAIN layout =>
             Len(r) = Offset(layout, Len(layout)) + Len(b(Len(layout)))
  BY Serialized
<1>. HIDE DEF r
<1>2. At(c, 0, r)
  BY DEF r
<1>3. ASSUME NEW i \in DOMAIN layout
      PROVE  /\ IsValue(layout[i].type, from(i))
             /\ Width(layout[i].type, from(i)) = Len(b(i))
             /\ FieldValue(layout, c, i) = struct[layout[i].name]
  <2>1. PICK x : x = b(i) /\ x = BytesOf(layout[i].type, struct[layout[i].name])
    BY DEF FieldBytes
  <2>2. /\ Holdable(layout[i].type, struct[layout[i].name])
        /\ x \in Seq(Byte)
    BY <2>1, BytesOfHoldable DEF Fitting
  <2>3. PICK k \in Nat : k = Offset(layout, i) /\ At(r, k, x)
    BY <1>1, <2>1
  <2>4. At(c, k, x)
    BY <1>1, <1>2, <2>2, <2>3, AtBegin
  <2>5. PICK y : y = from(i) /\ y = SubSeq(c, k + 1, Len(c))
    BY <2>3 DEF From
  <2>6. ReadAs(layout[i].type, y, x, struct[layout[i].name])
    BY <2>1, <2>2, <2>3, <2>4, <2>5, ValueRead
  <2>7. FieldValue(layout, c, i)
            = ValueOf(layout[i].type, SubSeq(y, 1, Width(layout[i].type, y)))
    BY <2>5, Zenon DEF FieldValue
  <2>. QED
    BY <2>1, <2>5, <2>6, <2>7 DEF ReadAs
<1>. HIDE DEF b, from
<1>4. read.ok
  BY <1>3 DEF try_from_slice_unchecked, from
<1>5. ASSUME NEW i \in DOMAIN layout
      PROVE  Position(layout, layout[i].name) = i
  BY DEF Position, WellFormed
<1>6. read.struct = [f \in {layout[i].name : i \in DOMAIN layout} |->
                         FieldValue(layout, c, Position(layout, f))]
  BY DEF try_from_slice_unchecked
<1>7. read.struct = [f \in {layout[i].name : i \in DOMAIN layout} |->
                         struct[f]]
  BY <1>3, <1>5, <1>6
<1>8. read.length = Len(r)
  <2>1. read.length = IF Len(layout) = 0 THEN 0
                      ELSE Offset(layout, Len(layout))
                           + Width(layout[Len(layout)].type, from(Len(layout)))
    BY DEF try_from_slice_unchecked, from
  <2>2. Len(layout) # 0 => Len(layout) \in DOMAIN layout
    BY DEF WellFormed
  <2>. QED
    BY <1>1, <1>3, <2>1, <2>2
<1>. QED
  BY <1>4, <1>7, <1>8 DEF r

-----------------------------------------------------------------------------
(* The layouts.                                                            *)

LEMMA AccountLayouts ==
  /\ DOMAIN AccountLayout = {"Community", "Network", "Reporter", "Case",
                             "Address"}
  /\ \A kind \in DOMAIN AccountLayout : WellFormed(AccountLayout[kind])
<1>1. WellFormed(AccountLayout.Community)
  BY SMT DEF AccountLayout, WellFormed, Field
<1>2. WellFormed(AccountLayout.Network)
  BY SMT DEF AccountLayout, WellFormed, Field
<1>3. WellFormed(AccountLayout.Reporter)
  BY SMT DEF AccountLayout, WellFormed, Field
<1>4. WellFormed(AccountLayout.Case)
  BY SMT DEF AccountLayout, WellFormed, Field
<1>5. WellFormed(AccountLayout.Address)
  BY SMT DEF AccountLayout, WellFormed, Field
<1>6. DOMAIN AccountLayout = {"Community", "Network", "Reporter", "Case",
                              "Address"}
  BY DEF AccountLayout
<1>. QED
  BY <1>1, <1>2, <1>3, <1>4, <1>5, <1>6


\* The values of records and instructions can be held by their fields.
LEMMA HoldableEnums ==
  /\ \A v \in {"Community", "Network", "Reporter", "Case", "Address"} :
         Holdable("HapiAccountType", v)
  /\ \A v \in ReporterType : Holdable("ReporterType", v)
  /\ \A v \in CaseStatus : Holdable("CaseStatus", v)
  /\ \A v \in Category : Holdable("Category", v)
<1>1. /\ {"HapiAccountType", "ReporterType", "CaseStatus", "Category"}
             \subseteq DOMAIN Variants
      /\ Variants.HapiAccountType = HapiAccountType
      /\ Variants.ReporterType = <<"Inactive", "Tracer", "Full", "Authority">>
      /\ Variants.CaseStatus = <<"Open", "Closed">>
      /\ Variants.Category = Categories
  BY SMT DEF Variants
<1>2. ASSUME NEW v \in {"Community", "Network", "Reporter", "Case", "Address"}
      PROVE  \E i \in DOMAIN HapiAccountType : v = HapiAccountType[i]
  BY SMT DEF HapiAccountType
<1>3. ASSUME NEW v \in ReporterType
      PROVE  \E i \in DOMAIN Variants.ReporterType :
                 v = Variants.ReporterType[i]
  BY <1>1, SMT DEF ReporterType
<1>4. ASSUME NEW v \in CaseStatus
      PROVE  \E i \in DOMAIN Variants.CaseStatus : v = Variants.CaseStatus[i]
  BY <1>1, SMT DEF CaseStatus
<1>5. ASSUME NEW v \in Category
      PROVE  \E i \in DOMAIN Categories : v = Categories[i]
  BY CategoryPosition
<1>. QED
  BY <1>1, <1>2, <1>3, <1>4, <1>5, HoldableIs

LEMMA HoldableIds ==
  ASSUME NEW id \in CaseId
  PROVE  Holdable("u64", id)
<1>1. IsU64(CaseIdCount - 1) /\ id \in 0 .. CaseIdCount - 1
  BY BytesAssumption DEF CaseId
<1>2. IsU64(id)
  BY <1>1, CaseIdAssumption, SMT DEF IsU64
<1>. QED
  BY <1>2, HoldableIs

\* The length of a struct is that of its fixed part and of its last field.
LEMMA Length ==
  ASSUME NEW layout, WellFormed(layout), NEW struct, Fitting(layout, struct),
         NEW n \in DOMAIN layout, n = Len(layout)
  PROVE  Len(serialize(layout, struct))
             = Offset(layout, n) + Len(FieldBytes(layout, struct, n))
<1>1. PICK r : r = serialize(layout, struct)
  OBVIOUS
<1>. QED
  BY <1>1, Serialized

LEMMA TypeNames ==
  /\ {"HapiAccountType", "ReporterType", "CaseStatus", "Category"}
         = DOMAIN Variants
  /\ \A type \in DOMAIN Variants : type # "String"
BY TypesDiffer, SMT DEF Variants

\* A record fits the layout of its kind, and has the length it is said to have.
FitsLayout(layout, d) ==
    /\ Fitting(layout, d)
    /\ DOMAIN d = {layout[i].name : i \in DOMAIN layout}
    /\ d = [f \in DOMAIN d |-> d[f]]
    /\ LengthOf(d) = Len(serialize(layout, d))

\* The records of each kind fit its layout.
LEMMA CommunityFits ==
  ASSUME NEW d \in Community
  PROVE  FitsLayout(AccountLayout.Community, d)
<1>. DEFINE l == AccountLayout.Community
<1>1. /\ DOMAIN l = 1 .. 4 /\ Len(l) = 4
      /\ l[1].name = "account_type" /\ l[1].type = "HapiAccountType"
      /\ l[2].name = "authority" /\ l[2].type = "Pubkey"
      /\ l[3].name = "next_case_id" /\ l[3].type = "u64"
      /\ l[4].name = "name" /\ l[4].type = "String"
  BY SMT DEF AccountLayout, Field
<1>2. /\ Holdable("HapiAccountType", d.account_type)
      /\ Holdable("Pubkey", d.authority)
      /\ Holdable("u64", d.next_case_id)
      /\ Holdable("String", d.name)
  BY HoldableEnums, HoldableIds, HoldableIs, BytesAssumption,
     CategoryAssumption DEF Community
<1>3. /\ DOMAIN d = {"account_type", "authority", "next_case_id", "name"}
      /\ d = [f \in DOMAIN d |-> d[f]]
  BY DEF Community
<1>4. WellFormed(l)
  BY AccountLayouts
<1>5. d.account_type = "Community"
  BY DEF Community
<1>. HIDE DEF l
<1>6. Fitting(l, d)
  BY <1>1, <1>2 DEF Fitting
<1>7. DOMAIN d = {l[i].name : i \in DOMAIN l}
  <2>1. \A i \in DOMAIN l : l[i].name \in DOMAIN d
    BY <1>1, <1>3
  <2>2. \A f \in DOMAIN d : \E i \in DOMAIN l : f = l[i].name
    BY <1>1, <1>3
  <2>. QED
    BY <2>1, <2>2
<1>8. Offset(l, 4) = 41
  BY <1>1, SizeIs, TypeNames DEF Offset
<1>9. Len(FieldBytes(l, d, 4)) = 4 + NameLen[d.name]
  <2>1. FieldBytes(l, d, 4) = BytesOf("String", d.name) /\ d.name \in Name
    BY <1>1, <1>2, HoldableIs DEF FieldBytes
  <2>. QED
    BY <2>1, StringBytes
<1>12. NameLen[d.name] \in Nat
  BY <1>2, HoldableIs, NameAssumption
<1>10. Len(serialize(l, d)) = 41 + 4 + NameLen[d.name]
  <2>1. 4 \in DOMAIN l /\ 4 = Len(l)
    BY <1>1
  <2>2. Len(serialize(l, d)) = Offset(l, 4) + Len(FieldBytes(l, d, 4))
    BY <2>1, <1>4, <1>6, Length
  <2>. QED
    BY <2>2, <1>8, <1>9, <1>12
<1>11. LengthOf(d) = 41 + 4 + NameLen[d.name]
  <2>2. SizeWithoutName[d.account_type] = 41 + 4
    BY <1>5, SMT DEF SizeWithoutName
  <2>3. LengthOf(d) = SizeWithoutName[d.account_type] + NameLen[d.name]
    BY <1>3 DEF LengthOf
  <2>. QED
    BY <1>12, <2>2, <2>3
<1>. QED
  BY <1>3, <1>5, <1>6, <1>7, <1>10, <1>11 DEF FitsLayout, l

LEMMA NetworkFits ==
  ASSUME NEW d \in Network
  PROVE  FitsLayout(AccountLayout.Network, d)
<1>. DEFINE l == AccountLayout.Network
<1>1. /\ DOMAIN l = 1 .. 2 /\ Len(l) = 2
      /\ l[1].name = "account_type" /\ l[1].type = "HapiAccountType"
      /\ l[2].name = "name" /\ l[2].type = "String"
  BY SMT DEF AccountLayout, Field
<1>2. /\ Holdable("HapiAccountType", d.account_type)
      /\ Holdable("String", d.name)
  BY HoldableEnums, HoldableIds, HoldableIs, BytesAssumption,
     CategoryAssumption DEF Network
<1>3. /\ DOMAIN d = {"account_type", "name"}
      /\ d = [f \in DOMAIN d |-> d[f]]
  BY DEF Network
<1>4. WellFormed(l)
  BY AccountLayouts
<1>5. d.account_type = "Network"
  BY DEF Network
<1>. HIDE DEF l
<1>6. Fitting(l, d)
  BY <1>1, <1>2 DEF Fitting
<1>7. DOMAIN d = {l[i].name : i \in DOMAIN l}
  <2>1. \A i \in DOMAIN l : l[i].name \in DOMAIN d
    BY <1>1, <1>3
  <2>2. \A f \in DOMAIN d : \E i \in DOMAIN l : f = l[i].name
    BY <1>1, <1>3
  <2>. QED
    BY <2>1, <2>2
<1>8. Offset(l, 2) = 1
  BY <1>1, SizeIs, TypeNames DEF Offset
<1>9. Len(FieldBytes(l, d, 2)) = 4 + NameLen[d.name]
  <2>1. FieldBytes(l, d, 2) = BytesOf("String", d.name) /\ d.name \in Name
    BY <1>1, <1>2, HoldableIs DEF FieldBytes
  <2>. QED
    BY <2>1, StringBytes
<1>12. NameLen[d.name] \in Nat
  BY <1>2, HoldableIs, NameAssumption
<1>10. Len(serialize(l, d)) = 1 + 4 + NameLen[d.name]
  <2>1. 2 \in DOMAIN l /\ 2 = Len(l)
    BY <1>1
  <2>2. Len(serialize(l, d)) = Offset(l, 2) + Len(FieldBytes(l, d, 2))
    BY <2>1, <1>4, <1>6, Length
  <2>. QED
    BY <2>2, <1>8, <1>9, <1>12
<1>11. LengthOf(d) = 1 + 4 + NameLen[d.name]
  <2>2. SizeWithoutName[d.account_type] = 1 + 4
    BY <1>5, SMT DEF SizeWithoutName
  <2>3. LengthOf(d) = SizeWithoutName[d.account_type] + NameLen[d.name]
    BY <1>3 DEF LengthOf
  <2>. QED
    BY <1>12, <2>2, <2>3
<1>. QED
  BY <1>3, <1>5, <1>6, <1>7, <1>10, <1>11 DEF FitsLayout, l

LEMMA ReporterFits ==
  ASSUME NEW d \in Reporter
  PROVE  FitsLayout(AccountLayout.Reporter, d)
<1>. DEFINE l == AccountLayout.Reporter
<1>1. /\ DOMAIN l = 1 .. 3 /\ Len(l) = 3
      /\ l[1].name = "account_type" /\ l[1].type = "HapiAccountType"
      /\ l[2].name = "reporter_type" /\ l[2].type = "ReporterType"
      /\ l[3].name = "name" /\ l[3].type = "String"
  BY SMT DEF AccountLayout, Field
<1>2. /\ Holdable("HapiAccountType", d.account_type)
      /\ Holdable("ReporterType", d.reporter_type)
      /\ Holdable("String", d.name)
  BY HoldableEnums, HoldableIds, HoldableIs, BytesAssumption,
     CategoryAssumption DEF Reporter
<1>3. /\ DOMAIN d = {"account_type", "reporter_type", "name"}
      /\ d = [f \in DOMAIN d |-> d[f]]
  BY DEF Reporter
<1>4. WellFormed(l)
  BY AccountLayouts
<1>5. d.account_type = "Reporter"
  BY DEF Reporter
<1>. HIDE DEF l
<1>6. Fitting(l, d)
  BY <1>1, <1>2 DEF Fitting
<1>7. DOMAIN d = {l[i].name : i \in DOMAIN l}
  <2>1. \A i \in DOMAIN l : l[i].name \in DOMAIN d
    BY <1>1, <1>3
  <2>2. \A f \in DOMAIN d : \E i \in DOMAIN l : f = l[i].name
    BY <1>1, <1>3
  <2>. QED
    BY <2>1, <2>2
<1>8. Offset(l, 3) = 2
  BY <1>1, SizeIs, TypeNames DEF Offset
<1>9. Len(FieldBytes(l, d, 3)) = 4 + NameLen[d.name]
  <2>1. FieldBytes(l, d, 3) = BytesOf("String", d.name) /\ d.name \in Name
    BY <1>1, <1>2, HoldableIs DEF FieldBytes
  <2>. QED
    BY <2>1, StringBytes
<1>12. NameLen[d.name] \in Nat
  BY <1>2, HoldableIs, NameAssumption
<1>10. Len(serialize(l, d)) = 2 + 4 + NameLen[d.name]
  <2>1. 3 \in DOMAIN l /\ 3 = Len(l)
    BY <1>1
  <2>2. Len(serialize(l, d)) = Offset(l, 3) + Len(FieldBytes(l, d, 3))
    BY <2>1, <1>4, <1>6, Length
  <2>. QED
    BY <2>2, <1>8, <1>9, <1>12
<1>11. LengthOf(d) = 2 + 4 + NameLen[d.name]
  <2>2. SizeWithoutName[d.account_type] = 2 + 4
    BY <1>5, SMT DEF SizeWithoutName
  <2>3. LengthOf(d) = SizeWithoutName[d.account_type] + NameLen[d.name]
    BY <1>3 DEF LengthOf
  <2>. QED
    BY <1>12, <2>2, <2>3
<1>. QED
  BY <1>3, <1>5, <1>6, <1>7, <1>10, <1>11 DEF FitsLayout, l

LEMMA CaseFits ==
  ASSUME NEW d \in Case
  PROVE  FitsLayout(AccountLayout.Case, d)
<1>. DEFINE l == AccountLayout.Case
<1>1. /\ DOMAIN l = 1 .. 5 /\ Len(l) = 5
      /\ l[1].name = "account_type" /\ l[1].type = "HapiAccountType"
      /\ l[2].name = "reporter_key" /\ l[2].type = "Pubkey"
      /\ l[3].name = "categories" /\ l[3].type = "CategorySet"
      /\ l[4].name = "status" /\ l[4].type = "CaseStatus"
      /\ l[5].name = "name" /\ l[5].type = "String"
  BY SMT DEF AccountLayout, Field
<1>2. /\ Holdable("HapiAccountType", d.account_type)
      /\ Holdable("Pubkey", d.reporter_key)
      /\ Holdable("CategorySet", d.categories)
      /\ Holdable("CaseStatus", d.status)
      /\ Holdable("String", d.name)
  BY HoldableEnums, HoldableIds, HoldableIs, BytesAssumption,
     CategoryAssumption DEF Case
<1>3. /\ DOMAIN d = {"account_type", "reporter_key", "categories", "status",
                     "name"}
      /\ d = [f \in DOMAIN d |-> d[f]]
  BY DEF Case
<1>4. WellFormed(l)
  BY AccountLayouts
<1>5. d.account_type = "Case"
  BY DEF Case
<1>. HIDE DEF l
<1>6. Fitting(l, d)
  BY <1>1, <1>2 DEF Fitting
<1>7. DOMAIN d = {l[i].name : i \in DOMAIN l}
  <2>1. \A i \in DOMAIN l : l[i].name \in DOMAIN d
    BY <1>1, <1>3
  <2>2. \A f \in DOMAIN d : \E i \in DOMAIN l : f = l[i].name
    BY <1>1, <1>3
  <2>. QED
    BY <2>1, <2>2
<1>8. Offset(l, 5) = 38
  BY <1>1, SizeIs, TypeNames DEF Offset
<1>9. Len(FieldBytes(l, d, 5)) = 4 + NameLen[d.name]
  <2>1. FieldBytes(l, d, 5) = BytesOf("String", d.name) /\ d.name \in Name
    BY <1>1, <1>2, HoldableIs DEF FieldBytes
  <2>. QED
    BY <2>1, StringBytes
<1>12. NameLen[d.name] \in Nat
  BY <1>2, HoldableIs, NameAssumption
<1>10. Len(serialize(l, d)) = 38 + 4 + NameLen[d.name]
  <2>1. 5 \in DOMAIN l /\ 5 = Len(l)
    BY <1>1
  <2>2. Len(serialize(l, d)) = Offset(l, 5) + Len(FieldBytes(l, d, 5))
    BY <2>1, <1>4, <1>6, Length
  <2>. QED
    BY <2>2, <1>8, <1>9, <1>12
<1>11. LengthOf(d) = 38 + 4 + NameLen[d.name]
  <2>2. SizeWithoutName[d.account_type] = 38 + 4
    BY <1>5, SMT DEF SizeWithoutName
  <2>3. LengthOf(d) = SizeWithoutName[d.account_type] + NameLen[d.name]
    BY <1>3 DEF LengthOf
  <2>. QED
    BY <1>12, <2>2, <2>3
<1>. QED
  BY <1>3, <1>5, <1>6, <1>7, <1>10, <1>11 DEF FitsLayout, l

LEMMA AddressFits ==
  ASSUME NEW d \in Address
  PROVE  FitsLayout(AccountLayout.Address, d)
<1>. DEFINE l == AccountLayout.Address
<1>1. /\ DOMAIN l = 1 .. 4 /\ Len(l) = 4
      /\ l[1].name = "account_type" /\ l[1].type = "HapiAccountType"
      /\ l[2].name = "risk" /\ l[2].type = "u8"
      /\ l[3].name = "case_id" /\ l[3].type = "u64"
      /\ l[4].name = "category" /\ l[4].type = "Category"
  BY SMT DEF AccountLayout, Field
<1>2. /\ Holdable("HapiAccountType", d.account_type)
      /\ Holdable("u8", d.risk)
      /\ Holdable("u64", d.case_id)
      /\ Holdable("Category", d.category)
  BY HoldableEnums, HoldableIds, HoldableIs, BytesAssumption,
     CategoryAssumption DEF Address
<1>3. /\ DOMAIN d = {"account_type", "risk", "case_id", "category"}
      /\ d = [f \in DOMAIN d |-> d[f]]
  BY DEF Address
<1>4. WellFormed(l)
  BY AccountLayouts
<1>5. d.account_type = "Address"
  BY DEF Address
<1>. HIDE DEF l
<1>6. Fitting(l, d)
  BY <1>1, <1>2 DEF Fitting
<1>7. DOMAIN d = {l[i].name : i \in DOMAIN l}
  <2>1. \A i \in DOMAIN l : l[i].name \in DOMAIN d
    BY <1>1, <1>3
  <2>2. \A f \in DOMAIN d : \E i \in DOMAIN l : f = l[i].name
    BY <1>1, <1>3
  <2>. QED
    BY <2>1, <2>2
<1>8. Offset(l, 4) = 10
  BY <1>1, SizeIs, TypeNames DEF Offset
<1>9. Len(FieldBytes(l, d, 4)) = 1
  <2>1. FieldBytes(l, d, 4) = BytesOf("Category", d.category)
    BY <1>1 DEF FieldBytes
  <2>. QED
    BY <2>1, <1>2, BytesOfHoldable, SizeIs, TypeNames
<1>10. Len(serialize(l, d)) = 10 + 1
  <2>1. 4 \in DOMAIN l /\ 4 = Len(l)
    BY <1>1
  <2>2. Len(serialize(l, d)) = Offset(l, 4) + Len(FieldBytes(l, d, 4))
    BY <2>1, <1>4, <1>6, Length
  <2>. QED
    BY <2>2, <1>8, <1>9
<1>11. LengthOf(d) = 10 + 1
  <2>1. LengthOf(d) = MaxSize[d.account_type]
    BY <1>3 DEF LengthOf
  <2>. QED
    BY <2>1, <1>5, SMT DEF MaxSize
<1>. QED
  BY <1>3, <1>5, <1>6, <1>7, <1>10, <1>11 DEF FitsLayout, l

-----------------------------------------------------------------------------
(* Records in their cells.                                                 *)

\* So does every record, and it is as long as HapiAccounts says.
LEMMA DataFits ==
  ASSUME NEW d \in AccountData
  PROVE  /\ d.account_type \in DOMAIN AccountLayout
         /\ WellFormed(AccountLayout[d.account_type])
         /\ FitsLayout(AccountLayout[d.account_type], d)
<1>1. CASE d \in Community
  BY <1>1, CommunityFits, AccountLayouts DEF Community
<1>2. CASE d \in Network
  BY <1>2, NetworkFits, AccountLayouts DEF Network
<1>3. CASE d \in Reporter
  BY <1>3, ReporterFits, AccountLayouts DEF Reporter
<1>4. CASE d \in Case
  BY <1>4, CaseFits, AccountLayouts DEF Case
<1>5. CASE d \in Address
  BY <1>5, AddressFits, AccountLayouts DEF Address
<1>. QED
  BY <1>1, <1>2, <1>3, <1>4, <1>5 DEF AccountData

LEMMA RecordBytes ==
  ASSUME NEW d \in AccountData
  PROVE  /\ try_record_to_vec(d) \in Seq(Byte)
         /\ LengthOf(d) = Len(try_record_to_vec(d))
<1>1. PICK r : r = try_record_to_vec(d)
  OBVIOUS
<1>2. r \in Seq(Byte)
  BY <1>1, DataFits, Serialized DEF try_record_to_vec, FitsLayout
<1>. QED
  BY <1>1, <1>2, DataFits DEF try_record_to_vec, FitsLayout

\* The first field of every layout is the type of the account.
LEMMA TypeFirst ==
  ASSUME NEW kind \in DOMAIN AccountLayout
  PROVE  /\ 1 \in DOMAIN AccountLayout[kind]
         /\ AccountLayout[kind][1].name = "account_type"
         /\ AccountLayout[kind][1].type = "HapiAccountType"
<1>1. /\ 1 \in DOMAIN AccountLayout.Community
      /\ AccountLayout.Community[1] = Field("account_type", "HapiAccountType")
  BY SMT DEF AccountLayout
<1>2. /\ 1 \in DOMAIN AccountLayout.Network
      /\ AccountLayout.Network[1] = Field("account_type", "HapiAccountType")
  BY SMT DEF AccountLayout
<1>3. /\ 1 \in DOMAIN AccountLayout.Reporter
      /\ AccountLayout.Reporter[1] = Field("account_type", "HapiAccountType")
  BY SMT DEF AccountLayout
<1>4. /\ 1 \in DOMAIN AccountLayout.Case
      /\ AccountLayout.Case[1] = Field("account_type", "HapiAccountType")
  BY SMT DEF AccountLayout
<1>5. /\ 1 \in DOMAIN AccountLayout.Address
      /\ AccountLayout.Address[1] = Field("account_type", "HapiAccountType")
  BY SMT DEF AccountLayout
<1>6. /\ Field("account_type", "HapiAccountType").name = "account_type"
      /\ Field("account_type", "HapiAccountType").type = "HapiAccountType"
  BY DEF Field
<1>. QED
  BY <1>1, <1>2, <1>3, <1>4, <1>5, <1>6, AccountLayouts

\* A cell that begins with the bytes of a record holds that record.
LEMMA RecordRead ==
  ASSUME NEW d \in AccountData,
         NEW c \in Seq(Byte), At(c, 0, try_record_to_vec(d))
  PROVE  /\ KindOf(c) = d.account_type
         /\ Record(c) = d
         /\ try_from_slice_unchecked(AccountLayout[d.account_type], c).ok
<1>1. PICK l : l = AccountLayout[d.account_type]
  OBVIOUS
<1>2. /\ WellFormed(l) /\ FitsLayout(l, d)
      /\ 1 \in DOMAIN l
      /\ l[1].name = "account_type" /\ l[1].type = "HapiAccountType"
  BY <1>1, DataFits, TypeFirst
<1>3. Fitting(l, d)
  BY <1>2 DEF FitsLayout
<1>4. PICK r : r = serialize(l, d)
  OBVIOUS
<1>5. At(c, 0, r) /\ r \in Seq(Byte)
  BY <1>1, <1>2, <1>3, <1>4, Serialized DEF try_record_to_vec
<1>6. KindOf(c) = d.account_type
  <2>1. PICK k \in Nat : /\ k = Offset(l, 1)
                         /\ At(r, k, FieldBytes(l, d, 1))
    BY <1>2, <1>3, <1>4, Serialized
  <2>2. k = 0
    BY <2>1 DEF Offset
  <2>3. PICK x : x = BytesOf("HapiAccountType", d.account_type)
    OBVIOUS
  <2>4. FieldBytes(l, d, 1) = x
    BY <2>3, <1>2 DEF FieldBytes
  <2>5. /\ Holdable("HapiAccountType", d.account_type)
        /\ "HapiAccountType" \in DOMAIN Variants
    BY HoldableEnums, TypeNames, DataFits, AccountLayouts
  <2>6. PICK i \in DOMAIN Variants.HapiAccountType :
            d.account_type = Variants.HapiAccountType[i]
    BY <2>5, HoldableIs
  <2>7. x = <<i - 1>> /\ i \in 1 .. Len(Variants.HapiAccountType)
    BY <2>3, <2>5, <2>6, VariantBytes
  <2>8. Len(Variants.HapiAccountType) \in 1 .. 20
    BY <2>5, VariantsAre
  <2>9. At(r, 0, x)
    BY <2>1, <2>2, <2>4
  <2>10. x \in Seq(Byte)
    BY <2>3, <2>5, BytesOfHoldable
  <2>11. At(c, 0, x)
    BY <1>5, <2>9, <2>10, AtBegin
  <2>12. i \in Nat /\ c[1] = i - 1
    BY <2>7, <2>8, <2>11 DEF At
  <2>13. Variants.HapiAccountType = HapiAccountType
    BY SMT DEF Variants
  <2>. QED
    BY <2>6, <2>12, <2>13 DEF KindOf
<1>7. PICK read : read = try_from_slice_unchecked(l, c)
  OBVIOUS
<1>8. /\ read.ok
      /\ read.struct = [f \in {l[i].name : i \in DOMAIN l} |-> d[f]]
  BY <1>2, <1>3, <1>4, <1>5, <1>7, StructRead
<1>9. read.struct = d
  BY <1>2, <1>8 DEF FitsLayout
<1>. QED
  BY <1>1, <1>6, <1>7, <1>8, <1>9 DEF Record

-----------------------------------------------------------------------------
(* Instructions.                                                           *)

\* The types of the arguments, in the program and in the library.
ProgramType ==
    [name |-> "String", reporter_type |-> "ReporterType", case_id |-> "u64",
     categories |-> "CategorySet", status |-> "CaseStatus",
     address |-> "Pubkey", risk |-> "u8", category |-> "Category"]

JsType ==
    [name |-> "String", reporter_type |-> "u8", case_id |-> "u64",
     categories |-> "u32", status |-> "u8", address |-> "Pubkey",
     risk |-> "u8", category |-> "u8"]

\* An instruction of the program and the layout it travels by.
FitsOp(i, ix) ==
    LET fields == HapiInstruction[i].fields
        names  == {fields[j].name : j \in DOMAIN fields}
    IN  /\ ix.op = HapiInstruction[i].name
        /\ WellFormed(fields)
        /\ Fitting(fields, ix)
        /\ \A j \in DOMAIN fields :
               /\ fields[j].name \in DOMAIN ProgramType
               /\ fields[j].type = ProgramType[fields[j].name]
        /\ DOMAIN ix = {"op", "accounts"} \cup names
        /\ {"op", "accounts"} \cap names = {}
        /\ ix = [f \in DOMAIN ix |-> ix[f]]

\* The instructions and their tags.
LEMMA OpNames ==
  /\ Len(HapiInstruction) = 10 /\ DOMAIN HapiInstruction = 1 .. 10
  /\ HapiInstruction[1].name = "CreateCommunity"
  /\ HapiInstruction[2].name = "UpdateCommunity"
  /\ HapiInstruction[3].name = "CreateNetwork"
  /\ HapiInstruction[4].name = "UpdateNetwork"
  /\ HapiInstruction[5].name = "CreateReporter"
  /\ HapiInstruction[6].name = "UpdateReporter"
  /\ HapiInstruction[7].name = "CreateCase"
  /\ HapiInstruction[8].name = "UpdateCase"
  /\ HapiInstruction[9].name = "CreateAddress"
  /\ HapiInstruction[10].name = "UpdateAddress"
BY SMT DEF HapiInstruction, Op

\* Two instructions have two names.
LEMMA TagIs ==
  ASSUME NEW i \in 1 .. 10
  PROVE  Tag(HapiInstruction[i].name) = i - 1
<1>1. ASSUME NEW j \in 1 .. 10,
             HapiInstruction[j].name = HapiInstruction[i].name
      PROVE  j = i
  BY <1>1, OpNames
<1>2. (CHOOSE j \in DOMAIN HapiInstruction :
           HapiInstruction[j].name = HapiInstruction[i].name) = i
  BY <1>1, OpNames
<1>. QED
  BY <1>2 DEF Tag

\* The instructions of each kind fit its layout.
LEMMA CreateCommunityFits ==
  ASSUME NEW ix \in Instruction, ix.op = "CreateCommunity"
  PROVE  FitsOp(1, ix)
<1>. DEFINE l == HapiInstruction[1].fields
<1>1. /\ DOMAIN l = 1 .. 1 /\ Len(l) = 1
      /\ l[1].name = "name" /\ l[1].type = "String"
  BY SMT DEF HapiInstruction, Op, Field
<1>2. /\ DOMAIN ix = {"op", "accounts", "name"}
      /\ ix = [f \in DOMAIN ix |-> ix[f]]
  BY DEF Instruction
<1>3. /\ ix.name \in Name
  BY DEF Instruction
<1>4. /\ Holdable("String", ix.name)
  BY <1>3, HoldableEnums, HoldableIds, HoldableIs, BytesAssumption,
     CategoryAssumption
<1>. HIDE DEF l
<1>5. Fitting(l, ix)
  BY <1>1, <1>4 DEF Fitting
<1>6. {l[j].name : j \in DOMAIN l} = {"name"}
  BY <1>1
<1>7. WellFormed(l)
  BY <1>1, SMT DEF WellFormed
<1>8. \A j \in DOMAIN l : /\ l[j].name \in DOMAIN ProgramType
                            /\ l[j].type = ProgramType[l[j].name]
  BY <1>1, SMT DEF ProgramType
<1>. QED
  BY <1>1, <1>2, <1>5, <1>6, <1>7, <1>8, OpNames DEF FitsOp, l

LEMMA UpdateCommunityFits ==
  ASSUME NEW ix \in Instruction, ix.op = "UpdateCommunity"
  PROVE  FitsOp(2, ix)
<1>. DEFINE l == HapiInstruction[2].fields
<1>1. /\ DOMAIN l = 1 .. 0 /\ Len(l) = 0
  BY SMT DEF HapiInstruction, Op, Field
<1>2. /\ DOMAIN ix = {"op", "accounts"}
      /\ ix = [f \in DOMAIN ix |-> ix[f]]
  BY DEF Instruction
<1>. HIDE DEF l
<1>5. Fitting(l, ix)
  BY <1>1 DEF Fitting
<1>6. {l[j].name : j \in DOMAIN l} = {}
  BY <1>1
<1>7. WellFormed(l)
  BY <1>1, SMT DEF WellFormed
<1>8. \A j \in DOMAIN l : /\ l[j].name \in DOMAIN ProgramType
                            /\ l[j].type = ProgramType[l[j].name]
  BY <1>1, SMT DEF ProgramType
<1>. QED
  BY <1>1, <1>2, <1>5, <1>6, <1>7, <1>8, OpNames DEF FitsOp, l

LEMMA CreateNetworkFits ==
  ASSUME NEW ix \in Instruction, ix.op = "CreateNetwork"
  PROVE  FitsOp(3, ix)
<1>. DEFINE l == HapiInstruction[3].fields
<1>1. /\ DOMAIN l = 1 .. 1 /\ Len(l) = 1
      /\ l[1].name = "name" /\ l[1].type = "String"
  BY SMT DEF HapiInstruction, Op, Field
<1>2. /\ DOMAIN ix = {"op", "accounts", "name"}
      /\ ix = [f \in DOMAIN ix |-> ix[f]]
  BY DEF Instruction
<1>3. /\ ix.name \in Name
  BY DEF Instruction
<1>4. /\ Holdable("String", ix.name)
  BY <1>3, HoldableEnums, HoldableIds, HoldableIs, BytesAssumption,
     CategoryAssumption
<1>. HIDE DEF l
<1>5. Fitting(l, ix)
  BY <1>1, <1>4 DEF Fitting
<1>6. {l[j].name : j \in DOMAIN l} = {"name"}
  BY <1>1
<1>7. WellFormed(l)
  BY <1>1, SMT DEF WellFormed
<1>8. \A j \in DOMAIN l : /\ l[j].name \in DOMAIN ProgramType
                            /\ l[j].type = ProgramType[l[j].name]
  BY <1>1, SMT DEF ProgramType
<1>. QED
  BY <1>1, <1>2, <1>5, <1>6, <1>7, <1>8, OpNames DEF FitsOp, l

LEMMA UpdateNetworkFits ==
  ASSUME NEW ix \in Instruction, ix.op = "UpdateNetwork"
  PROVE  FitsOp(4, ix)
<1>. DEFINE l == HapiInstruction[4].fields
<1>1. /\ DOMAIN l = 1 .. 0 /\ Len(l) = 0
  BY SMT DEF HapiInstruction, Op, Field
<1>2. /\ DOMAIN ix = {"op", "accounts"}
      /\ ix = [f \in DOMAIN ix |-> ix[f]]
  BY DEF Instruction
<1>. HIDE DEF l
<1>5. Fitting(l, ix)
  BY <1>1 DEF Fitting
<1>6. {l[j].name : j \in DOMAIN l} = {}
  BY <1>1
<1>7. WellFormed(l)
  BY <1>1, SMT DEF WellFormed
<1>8. \A j \in DOMAIN l : /\ l[j].name \in DOMAIN ProgramType
                            /\ l[j].type = ProgramType[l[j].name]
  BY <1>1, SMT DEF ProgramType
<1>. QED
  BY <1>1, <1>2, <1>5, <1>6, <1>7, <1>8, OpNames DEF FitsOp, l

LEMMA CreateReporterFits ==
  ASSUME NEW ix \in Instruction, ix.op = "CreateReporter"
  PROVE  FitsOp(5, ix)
<1>. DEFINE l == HapiInstruction[5].fields
<1>1. /\ DOMAIN l = 1 .. 2 /\ Len(l) = 2
      /\ l[1].name = "reporter_type" /\ l[1].type = "ReporterType"
      /\ l[2].name = "name" /\ l[2].type = "String"
  BY SMT DEF HapiInstruction, Op, Field
<1>2. /\ DOMAIN ix = {"op", "accounts", "reporter_type", "name"}
      /\ ix = [f \in DOMAIN ix |-> ix[f]]
  BY DEF Instruction
<1>3. /\ ix.reporter_type \in ReporterType
      /\ ix.name \in Name
  BY DEF Instruction
<1>4. /\ Holdable("ReporterType", ix.reporter_type)
      /\ Holdable("String", ix.name)
  BY <1>3, HoldableEnums, HoldableIds, HoldableIs, BytesAssumption,
     CategoryAssumption
<1>. HIDE DEF l
<1>5. Fitting(l, ix)
  BY <1>1, <1>4 DEF Fitting
<1>6. {l[j].name : j \in DOMAIN l} = {"reporter_type", "name"}
  BY <1>1
<1>7. WellFormed(l)
  BY <1>1, SMT DEF WellFormed
<1>8. \A j \in DOMAIN l : /\ l[j].name \in DOMAIN ProgramType
                            /\ l[j].type = ProgramType[l[j].name]
  BY <1>1, SMT DEF ProgramType
<1>. QED
  BY <1>1, <1>2, <1>5, <1>6, <1>7, <1>8, OpNames DEF FitsOp, l

LEMMA UpdateReporterFits ==
  ASSUME NEW ix \in Instruction, ix.op = "UpdateReporter"
  PROVE  FitsOp(6, ix)
<1>. DEFINE l == HapiInstruction[6].fields
<1>1. /\ DOMAIN l = 1 .. 2 /\ Len(l) = 2
      /\ l[1].name = "reporter_type" /\ l[1].type = "ReporterType"
      /\ l[2].name = "name" /\ l[2].type = "String"
  BY SMT DEF HapiInstruction, Op, Field
<1>2. /\ DOMAIN ix = {"op", "accounts", "reporter_type", "name"}
      /\ ix = [f \in DOMAIN ix |-> ix[f]]
  BY DEF Instruction
<1>3. /\ ix.reporter_type \in ReporterType
      /\ ix.name \in Name
  BY DEF Instruction
<1>4. /\ Holdable("ReporterType", ix.reporter_type)
      /\ Holdable("String", ix.name)
  BY <1>3, HoldableEnums, HoldableIds, HoldableIs, BytesAssumption,
     CategoryAssumption
<1>. HIDE DEF l
<1>5. Fitting(l, ix)
  BY <1>1, <1>4 DEF Fitting
<1>6. {l[j].name : j \in DOMAIN l} = {"reporter_type", "name"}
  BY <1>1
<1>7. WellFormed(l)
  BY <1>1, SMT DEF WellFormed
<1>8. \A j \in DOMAIN l : /\ l[j].name \in DOMAIN ProgramType
                            /\ l[j].type = ProgramType[l[j].name]
  BY <1>1, SMT DEF ProgramType
<1>. QED
  BY <1>1, <1>2, <1>5, <1>6, <1>7, <1>8, OpNames DEF FitsOp, l

LEMMA CreateCaseFits ==
  ASSUME NEW ix \in Instruction, ix.op = "CreateCase"
  PROVE  FitsOp(7, ix)
<1>. DEFINE l == HapiInstruction[7].fields
<1>1. /\ DOMAIN l = 1 .. 4 /\ Len(l) = 4
      /\ l[1].name = "case_id" /\ l[1].type = "u64"
      /\ l[2].name = "categories" /\ l[2].type = "CategorySet"
      /\ l[3].name = "status" /\ l[3].type = "CaseStatus"
      /\ l[4].name = "name" /\ l[4].type = "String"
  BY SMT DEF HapiInstruction, Op, Field
<1>2. /\ DOMAIN ix = {"op", "accounts", "case_id", "categories", "status",
                      "name"}
      /\ ix = [f \in DOMAIN ix |-> ix[f]]
  BY DEF Instruction
<1>3. /\ ix.case_id \in CaseId
      /\ ix.categories \in CategorySet
      /\ ix.status \in CaseStatus
      /\ ix.name \in Name
  BY DEF Instruction
<1>4. /\ Holdable("u64", ix.case_id)
      /\ Holdable("CategorySet", ix.categories)
      /\ Holdable("CaseStatus", ix.status)
      /\ Holdable("String", ix.name)
  BY <1>3, HoldableEnums, HoldableIds, HoldableIs, BytesAssumption,
     CategoryAssumption
<1>. HIDE DEF l
<1>5. Fitting(l, ix)
  BY <1>1, <1>4 DEF Fitting
<1>6. {l[j].name : j \in DOMAIN l} = {"case_id", "categories", "status", "name"}
  BY <1>1
<1>7. WellFormed(l)
  BY <1>1, SMT DEF WellFormed
<1>8. \A j \in DOMAIN l : /\ l[j].name \in DOMAIN ProgramType
                            /\ l[j].type = ProgramType[l[j].name]
  BY <1>1, SMT DEF ProgramType
<1>. QED
  BY <1>1, <1>2, <1>5, <1>6, <1>7, <1>8, OpNames DEF FitsOp, l

LEMMA UpdateCaseFits ==
  ASSUME NEW ix \in Instruction, ix.op = "UpdateCase"
  PROVE  FitsOp(8, ix)
<1>. DEFINE l == HapiInstruction[8].fields
<1>1. /\ DOMAIN l = 1 .. 2 /\ Len(l) = 2
      /\ l[1].name = "categories" /\ l[1].type = "CategorySet"
      /\ l[2].name = "status" /\ l[2].type = "CaseStatus"
  BY SMT DEF HapiInstruction, Op, Field
<1>2. /\ DOMAIN ix = {"op", "accounts", "categories", "status"}
      /\ ix = [f \in DOMAIN ix |-> ix[f]]
  BY DEF Instruction
<1>3. /\ ix.categories \in CategorySet
      /\ ix.status \in CaseStatus
  BY DEF Instruction
<1>4. /\ Holdable("CategorySet", ix.categories)
      /\ Holdable("CaseStatus", ix.status)
  BY <1>3, HoldableEnums, HoldableIds, HoldableIs, BytesAssumption,
     CategoryAssumption
<1>. HIDE DEF l
<1>5. Fitting(l, ix)
  BY <1>1, <1>4 DEF Fitting
<1>6. {l[j].name : j \in DOMAIN l} = {"categories", "status"}
  BY <1>1
<1>7. WellFormed(l)
  BY <1>1, SMT DEF WellFormed
<1>8. \A j \in DOMAIN l : /\ l[j].name \in DOMAIN ProgramType
                            /\ l[j].type = ProgramType[l[j].name]
  BY <1>1, SMT DEF ProgramType
<1>. QED
  BY <1>1, <1>2, <1>5, <1>6, <1>7, <1>8, OpNames DEF FitsOp, l

LEMMA CreateAddressFits ==
  ASSUME NEW ix \in Instruction, ix.op = "CreateAddress"
  PROVE  FitsOp(9, ix)
<1>. DEFINE l == HapiInstruction[9].fields
<1>1. /\ DOMAIN l = 1 .. 4 /\ Len(l) = 4
      /\ l[1].name = "address" /\ l[1].type = "Pubkey"
      /\ l[2].name = "risk" /\ l[2].type = "u8"
      /\ l[3].name = "case_id" /\ l[3].type = "u64"
      /\ l[4].name = "category" /\ l[4].type = "Category"
  BY SMT DEF HapiInstruction, Op, Field
<1>2. /\ DOMAIN ix = {"op", "accounts", "address", "risk", "case_id",
                      "category"}
      /\ ix = [f \in DOMAIN ix |-> ix[f]]
  BY DEF Instruction
<1>3. /\ ix.address \in Pubkey
      /\ ix.risk \in Risk
      /\ ix.case_id \in CaseId
      /\ ix.category \in Category
  BY DEF Instruction
<1>4. /\ Holdable("Pubkey", ix.address)
      /\ Holdable("u8", ix.risk)
      /\ Holdable("u64", ix.case_id)
      /\ Holdable("Category", ix.category)
  BY <1>3, HoldableEnums, HoldableIds, HoldableIs, BytesAssumption,
     CategoryAssumption
<1>. HIDE DEF l
<1>5. Fitting(l, ix)
  BY <1>1, <1>4 DEF Fitting
<1>6. {l[j].name : j \in DOMAIN l} = {"address", "risk", "case_id", "category"}
  BY <1>1
<1>7. WellFormed(l)
  BY <1>1, SMT DEF WellFormed
<1>8. \A j \in DOMAIN l : /\ l[j].name \in DOMAIN ProgramType
                            /\ l[j].type = ProgramType[l[j].name]
  BY <1>1, SMT DEF ProgramType
<1>. QED
  BY <1>1, <1>2, <1>5, <1>6, <1>7, <1>8, OpNames DEF FitsOp, l

LEMMA UpdateAddressFits ==
  ASSUME NEW ix \in Instruction, ix.op = "UpdateAddress"
  PROVE  FitsOp(10, ix)
<1>. DEFINE l == HapiInstruction[10].fields
<1>1. /\ DOMAIN l = 1 .. 3 /\ Len(l) = 3
      /\ l[1].name = "risk" /\ l[1].type = "u8"
      /\ l[2].name = "case_id" /\ l[2].type = "u64"
      /\ l[3].name = "category" /\ l[3].type = "Category"
  BY SMT DEF HapiInstruction, Op, Field
<1>2. /\ DOMAIN ix = {"op", "accounts", "risk", "case_id", "category"}
      /\ ix = [f \in DOMAIN ix |-> ix[f]]
  BY DEF Instruction
<1>3. /\ ix.risk \in Risk
      /\ ix.case_id \in CaseId
      /\ ix.category \in Category
  BY DEF Instruction
<1>4. /\ Holdable("u8", ix.risk)
      /\ Holdable("u64", ix.case_id)
      /\ Holdable("Category", ix.category)
  BY <1>3, HoldableEnums, HoldableIds, HoldableIs, BytesAssumption,
     CategoryAssumption
<1>. HIDE DEF l
<1>5. Fitting(l, ix)
  BY <1>1, <1>4 DEF Fitting
<1>6. {l[j].name : j \in DOMAIN l} = {"risk", "case_id", "category"}
  BY <1>1
<1>7. WellFormed(l)
  BY <1>1, SMT DEF WellFormed
<1>8. \A j \in DOMAIN l : /\ l[j].name \in DOMAIN ProgramType
                            /\ l[j].type = ProgramType[l[j].name]
  BY <1>1, SMT DEF ProgramType
<1>. QED
  BY <1>1, <1>2, <1>5, <1>6, <1>7, <1>8, OpNames DEF FitsOp, l

LEMMA InstructionFits ==
  ASSUME NEW ix \in Instruction, ix.op # "Malformed"
  PROVE  \E i \in 1 .. 10 : FitsOp(i, ix)
<1>1. ix.op \in {"CreateCommunity", "UpdateCommunity", "CreateNetwork",
                 "UpdateNetwork", "CreateReporter", "UpdateReporter",
                 "CreateCase", "UpdateCase", "CreateAddress",
                 "UpdateAddress"}
  BY DEF Instruction
<1>. QED
  BY <1>1, CreateCommunityFits, UpdateCommunityFits, CreateNetworkFits,
     UpdateNetworkFits, CreateReporterFits, UpdateReporterFits,
     CreateCaseFits, UpdateCaseFits, CreateAddressFits,
     UpdateAddressFits

-----------------------------------------------------------------------------
(* What is meant arrives.                                                  *)

\* Masks of the same bits are the same.
LEMMA OrSame ==
  ASSUME NEW v, NEW w, \A x \in Nat \ {0} : x \in v <=> x \in w
  PROVE  Or(v) = Or(w)
<1>1. \A x \in Nat \ {0} : Has(v, x) = Has(w, x)
  BY DEF Has
<1>. QED
  BY <1>1, SMT DEF Or

\* Safe has no bit in a mask.
LEMMA SafeHasNoBit ==
  ASSUME NEW s, s \subseteq Category
  PROVE  Bitmask(s) = Bitmask(s \ {"Safe"})
<1>1. ASSUME NEW x \in Nat \ {0}, NEW c \in s, x = CategoryBit[c]
      PROVE  c # "Safe"
  BY <1>1, SMT DEF CategoryBit
<1>2. \A x \in Nat \ {0} : x \in {CategoryBit[c] : c \in s}
                     <=> x \in {CategoryBit[c] : c \in s \ {"Safe"}}
  BY <1>1
<1>. QED
  BY <1>2, OrSame DEF Bitmask

\* The instruction and its meaning differ in Safe at most.
LEMMA MeantIs ==
  ASSUME NEW by, NEW ix, Encodable(by, ix),
         ~(by = "js" /\ ix.op = "UpdateCommunity"),
         NEW m, m = MeantInstruction(by, ix)
  PROVE  /\ m \in Instruction /\ m.op = ix.op /\ m.accounts = ix.accounts
         /\ m.op # "Malformed"
         /\ DOMAIN m = DOMAIN ix
         /\ \A f \in DOMAIN m : f # "categories" => m[f] = ix[f]
         /\ "categories" \in DOMAIN m =>
                /\ ix.categories \subseteq Category
                /\ m.categories = ix.categories \ {"Safe"}
<1>1. m \in Instruction /\ ix.op # "Malformed"
  BY DEF Encodable
<1>2. /\ DOMAIN m = DOMAIN ix
      /\ \A f \in DOMAIN m : f # "categories" => m[f] = ix[f]
      /\ "categories" \in DOMAIN m =>
             m.categories = ix.categories \ {"Safe"}
  BY DEF MeantInstruction
<1>3. "op" \in DOMAIN m /\ "accounts" \in DOMAIN m
  BY <1>1 DEF Instruction
<1>4. m.op = ix.op /\ m.accounts = ix.accounts
  BY <1>2, <1>3
<1>. QED
  BY <1>1, <1>2, <1>4 DEF Encodable

\* An instruction and its meaning are the same bytes.
LEMMA MeantBytes ==
  ASSUME NEW by, NEW ix, Encodable(by, ix),
         ~(by = "js" /\ ix.op = "UpdateCommunity"),
         NEW m, m = MeantInstruction(by, ix), NEW i \in 1 .. 10, FitsOp(i, m),
         NEW j \in Nat
  PROVE  FieldBytes(HapiInstruction[i].fields, ix, j)
             = FieldBytes(HapiInstruction[i].fields, m, j)
<1>1. PICK l : l = HapiInstruction[i].fields
  OBVIOUS
<1>2. CASE j \notin DOMAIN l
  BY <1>1, <1>2 DEF FieldBytes
<1>3. CASE j \in DOMAIN l
  <2>1. PICK f : f = l[j].name
    OBVIOUS
  <2>2. /\ f \in DOMAIN m
        /\ l[j].type = ProgramType[f]
    BY <1>1, <1>3, <2>1 DEF FitsOp
  <2>3. BytesOf(l[j].type, ix[f]) = BytesOf(l[j].type, m[f])
    <3>1. CASE f # "categories"
      BY <3>1, <2>2, MeantIs
    <3>2. CASE f = "categories"
      <4>1. l[j].type = "CategorySet"
        BY <2>2, <3>2, SMT DEF ProgramType
      <4>2. /\ ix.categories \subseteq Category
            /\ m.categories = ix.categories \ {"Safe"}
        BY <2>2, <3>2, MeantIs
      <4>3. Bitmask(ix.categories) = Bitmask(m.categories)
        BY <4>2, SafeHasNoBit
      <4>. QED
        BY <3>2, <4>1, <4>3, BytesOfIs
    <3>. QED
      BY <3>1, <3>2
  <2>. QED
    BY <1>1, <1>3, <2>1, <2>3 DEF FieldBytes
<1>. QED
  BY <1>2, <1>3

\* What the Rust builders send of an instruction is its tag and its meaning.
LEMMA MeantSent ==
  ASSUME NEW by, NEW ix, Encodable(by, ix),
         ~(by = "js" /\ ix.op = "UpdateCommunity"),
         NEW m, m = MeantInstruction(by, ix), NEW i \in 1 .. 10, FitsOp(i, m)
  PROVE  try_to_vec(ix) = <<i - 1>> \o serialize(HapiInstruction[i].fields, m)
<1>1. Tag(ix.op) = i - 1
  BY MeantIs, TagIs DEF FitsOp
<1>2. Tag(ix.op) + 1 = i
  BY <1>1
<1>3. PICK l : l = HapiInstruction[i].fields
  OBVIOUS
<1>4. serialize(l, ix) = serialize(l, m)
  <2>1. \A j \in Nat : FieldBytes(l, ix, j) = FieldBytes(l, m, j)
    BY <1>3, MeantBytes
  <2>. QED
    BY <2>1 DEF serialize
<1>. QED
  BY <1>1, <1>2, <1>3, <1>4 DEF try_to_vec

\* A tag and the bytes of the arguments are that instruction again.
LEMMA Unpacked ==
  ASSUME NEW m, NEW i \in 1 .. 10, FitsOp(i, m),
         NEW data, data = <<i - 1>> \o serialize(HapiInstruction[i].fields, m)
  PROVE  Unpack(data, m.accounts) = m
<1>1. PICK o : o = HapiInstruction[i]
  OBVIOUS
<1>2. PICK s : s = serialize(o.fields, m)
  OBVIOUS
<1>3. WellFormed(o.fields) /\ Fitting(o.fields, m)
  BY <1>1 DEF FitsOp
<1>4. s \in Seq(Byte)
  BY <1>2, <1>3, Serialized
<1>5. /\ data # << >> /\ data[1] = i - 1 /\ Tail(data) = s
      /\ i - 1 \in Byte
  <2>1. i - 1 \in Byte
    BY SMT DEF Byte
  <2>2. data = <<i - 1>> \o s
    BY <1>1, <1>2
  <2>. QED
    BY <1>4, <2>1, <2>2
<1>6. /\ ~(data[1] >= Len(HapiInstruction))
      /\ HapiInstruction[data[1] + 1] = o
  BY <1>1, <1>5, OpNames
<1>7. PICK read : read = try_from_slice_unchecked(o.fields, s)
  OBVIOUS
<1>8. At(s, 0, s)
  BY <1>4 DEF At
<1>9. /\ read.ok
      /\ read.struct = [f \in {o.fields[j].name : j \in DOMAIN o.fields} |->
                            m[f]]
      /\ read.length = Len(s)
  <2>1. PICK l : l = o.fields
    OBVIOUS
  <2>2. WellFormed(l) /\ Fitting(l, m) /\ At(s, 0, serialize(l, m))
    BY <1>2, <1>3, <1>8, <2>1
  <2>3. read = try_from_slice_unchecked(l, s)
    BY <1>7, <2>1
  <2>4. /\ read.ok
        /\ read.struct = [f \in {l[j].name : j \in DOMAIN l} |-> m[f]]
        /\ read.length = Len(serialize(l, m))
    BY <1>4, <2>2, <2>3, StructRead
  <2>. QED
    BY <1>2, <2>1, <2>4
<1>10. PICK args : args = try_from_slice(o.fields, s)
  OBVIOUS
<1>11. args.ok /\ args.struct = read.struct
  BY <1>7, <1>9, <1>10 DEF try_from_slice, try_from_slice_unchecked
<1>12. Unpack(data, m.accounts) = WithArguments(o.name, m.accounts, args.struct)
  BY <1>5, <1>6, <1>10, <1>11 DEF Unpack
<1>13. WithArguments(o.name, m.accounts, args.struct) = m
  <2>1. PICK names : names = {o.fields[j].name : j \in DOMAIN o.fields}
    OBVIOUS
  <2>2. /\ m.op = o.name
        /\ DOMAIN m = {"op", "accounts"} \cup names
        /\ {"op", "accounts"} \cap names = {}
        /\ m = [f \in DOMAIN m |-> m[f]]
    BY <1>1, <2>1 DEF FitsOp
  <2>3. args.struct = [f \in names |-> m[f]]
    BY <1>9, <1>11, <2>1
  <2>4. WithArguments(o.name, m.accounts, args.struct)
            = [f \in {"op", "accounts"} \cup names |-> m[f]]
    BY <2>2, <2>3 DEF WithArguments
  <2>. QED
    BY <2>2, <2>4
<1>. QED
  BY <1>12, <1>13

-----------------------------------------------------------------------------
(* The library.                                                            *)

\* The tables of the library are those of the program.
LEMMA JsTables ==
  /\ CategoryValue = CategoryBit
  /\ \A i \in 1 .. 20 : CategoryValue[Categories[i]] = CategoryValues[i]
  /\ \A v \in ReporterType :
         JsEnum.ReporterType[v] = IndexOf(Variants.ReporterType, v)
  /\ \A v \in CaseStatus :
         JsEnum.CaseStatus[v] = IndexOf(Variants.CaseStatus, v)
  /\ \A i \in 1 .. 10 :
         HapiInstructionTag[HapiInstruction[i].name] = i - 1
<1>1. CategoryValue = CategoryBit
  BY SMT DEF CategoryValue, CategoryBit
<1>2. \A i \in 1 .. 20 : CategoryValue[Categories[i]] = CategoryValues[i]
  BY <1>1, BitOfCategory
<1>3. ASSUME NEW v \in ReporterType
      PROVE  JsEnum.ReporterType[v] = IndexOf(Variants.ReporterType, v)
  <2>. DEFINE s == Variants.ReporterType
  <2>1. s = <<"Inactive", "Tracer", "Full", "Authority">>
    BY SMT DEF Variants
  <2>2. DOMAIN s = 1 .. 4 /\ \A i, j \in DOMAIN s : s[i] = s[j] => i = j
    BY <2>1, SMT
  <2>3. PICK i \in 1 .. 4 : v = s[i]
    BY <2>1, SMT DEF ReporterType
  <2>. HIDE DEF s
  <2>4. IndexOf(s, s[i]) = i - 1
    BY <2>2, IndexIs
  <2>5. JsEnum.ReporterType[v] = i - 1
    BY <2>1, <2>3, SMT DEF JsEnum
  <2>. QED
    BY <2>3, <2>4, <2>5 DEF s
<1>4. ASSUME NEW v \in CaseStatus
      PROVE  JsEnum.CaseStatus[v] = IndexOf(Variants.CaseStatus, v)
  <2>. DEFINE s == Variants.CaseStatus
  <2>1. s = <<"Open", "Closed">>
    BY SMT DEF Variants
  <2>2. DOMAIN s = 1 .. 2 /\ \A i, j \in DOMAIN s : s[i] = s[j] => i = j
    BY <2>1, SMT
  <2>3. PICK i \in 1 .. 2 : v = s[i]
    BY <2>1, SMT DEF CaseStatus
  <2>. HIDE DEF s
  <2>4. IndexOf(s, s[i]) = i - 1
    BY <2>2, IndexIs
  <2>5. JsEnum.CaseStatus[v] = i - 1
    BY <2>1, <2>3, SMT DEF JsEnum
  <2>. QED
    BY <2>3, <2>4, <2>5 DEF s
<1>5. ASSUME NEW i \in 1 .. 10
      PROVE  HapiInstructionTag[HapiInstruction[i].name] = i - 1
  BY OpNames, SMT DEF HapiInstructionTag
<1>. QED
  BY <1>1, <1>2, <1>3, <1>4, <1>5

LEMMA NumberOf ==
  ASSUME NEW i \in 1 .. 20, NEW c, c = Categories[i]
  PROVE  categoryToBinary(CategoryValue[c]) = IndexOf(Categories, c)
<1>2. CategoryValue[c] = CategoryValues[i]
  BY JsTables
<1>3. IndexOf(CategoryValues, CategoryValues[i]) = i - 1
  <2>1. \A j, k \in DOMAIN CategoryValues :
            CategoryValues[j] = CategoryValues[k] => j = k
    BY CategoryPosition, ValuePositions
  <2>. QED
    BY <2>1, CategoryPosition, IndexIs
<1>4. IndexOf(Categories, Categories[i]) = i - 1
  <2>1. \A j, k \in DOMAIN Categories :
            Categories[j] = Categories[k] => j = k
    BY CategoryPosition, Positions
  <2>. QED
    BY <2>1, CategoryPosition, IndexIs
<1>. QED
  BY <1>2, <1>3, <1>4 DEF categoryToBinary

\* An argument is the same bytes in both clients.
LEMMA SameArgument ==
  ASSUME NEW ix, NEW f \in DOMAIN ProgramType, f \in DOMAIN ix,
         f # "categories" => Holdable(ProgramType[f], ix[f])
  PROVE  BytesOf(JsType[f], Argument(ix, f)) = BytesOf(ProgramType[f], ix[f])
<1>1. CASE f \in {"name", "case_id", "address", "risk"}
  <2>1. JsType[f] = ProgramType[f]
    BY <1>1, SMT DEF JsType, ProgramType
  <2>2. Argument(ix, f) = ix[f]
    BY <1>1 DEF Argument
  <2>. QED
    BY <2>1, <2>2
<1>2. CASE f = "categories"
  <2>1. JsType[f] = "u32" /\ ProgramType[f] = "CategorySet"
    BY <1>2, SMT DEF JsType, ProgramType
  <2>2. Argument(ix, "categories")
            = Or({CategoryValue[c] : c \in ix.categories})
    BY Zenon DEF Argument, categoriesToBitmask
  <2>3. Argument(ix, "categories") = Bitmask(ix.categories)
    BY <2>2, JsTables, Zenon DEF Bitmask
  <2>. QED
    BY <1>2, <2>1, <2>3, BytesOfIs, Zenon
<1>3. CASE f = "category"
  <2>1. JsType[f] = "u8" /\ ProgramType[f] = "Category"
    BY <1>3, SMT DEF JsType, ProgramType
  <2>2. \E i \in DOMAIN Variants.Category : ix.category = Variants.Category[i]
    BY <1>3, <2>1, HoldableIs, TypeNames
  <2>3. Variants.Category = Categories
    BY SMT DEF Variants
  <2>4. PICK i \in 1 .. 20 : ix.category = Categories[i]
    BY <2>2, <2>3, CategoryPosition
  <2>5. Argument(ix, "category") = categoryToBinary(CategoryValue[ix.category])
    BY Zenon DEF Argument
  <2>6. Argument(ix, "category") = IndexOf(Variants.Category, ix.category)
    BY <2>3, <2>4, <2>5, NumberOf
  <2>7. BytesOf("Category", ix.category)
            = <<IndexOf(Variants.Category, ix.category)>>
    BY BytesOfIs, TypeNames
  <2>8. BytesOf("u8", Argument(ix, "category")) = <<Argument(ix, "category")>>
    BY BytesOfIs
  <2>. QED
    BY <1>3, <2>1, <2>6, <2>7, <2>8, Zenon
<1>4. CASE f = "reporter_type"
  <2>1. JsType[f] = "u8" /\ ProgramType[f] = "ReporterType"
    BY <1>4, SMT DEF JsType, ProgramType
  <2>2. \E i \in DOMAIN Variants.ReporterType :
            ix.reporter_type = Variants.ReporterType[i]
    BY <1>4, <2>1, HoldableIs, TypeNames
  <2>3. Variants.ReporterType = <<"Inactive", "Tracer", "Full", "Authority">>
    BY SMT DEF Variants
  <2>4. ix.reporter_type \in ReporterType
    BY <2>2, <2>3, SMT DEF ReporterType
  <2>5. Argument(ix, "reporter_type") = JsEnum.ReporterType[ix.reporter_type]
    BY Zenon DEF Argument
  <2>6. Argument(ix, "reporter_type")
            = IndexOf(Variants.ReporterType, ix.reporter_type)
    BY <2>4, <2>5, JsTables
  <2>7. BytesOf("ReporterType", ix.reporter_type)
            = <<IndexOf(Variants.ReporterType, ix.reporter_type)>>
    BY BytesOfIs, TypeNames
  <2>8. BytesOf("u8", Argument(ix, "reporter_type"))
            = <<Argument(ix, "reporter_type")>>
    BY BytesOfIs
  <2>. QED
    BY <1>4, <2>1, <2>6, <2>7, <2>8, Zenon
<1>5. CASE f = "status"
  <2>1. JsType[f] = "u8" /\ ProgramType[f] = "CaseStatus"
    BY <1>5, SMT DEF JsType, ProgramType
  <2>2. \E i \in DOMAIN Variants.CaseStatus :
            ix.status = Variants.CaseStatus[i]
    BY <1>5, <2>1, HoldableIs, TypeNames
  <2>3. Variants.CaseStatus = <<"Open", "Closed">>
    BY SMT DEF Variants
  <2>4. ix.status \in CaseStatus
    BY <2>2, <2>3, SMT DEF CaseStatus
  <2>5. Argument(ix, "status") = JsEnum.CaseStatus[ix.status]
    BY Zenon DEF Argument
  <2>6. Argument(ix, "status") = IndexOf(Variants.CaseStatus, ix.status)
    BY <2>4, <2>5, JsTables
  <2>7. BytesOf("CaseStatus", ix.status)
            = <<IndexOf(Variants.CaseStatus, ix.status)>>
    BY BytesOfIs, TypeNames
  <2>8. BytesOf("u8", Argument(ix, "status")) = <<Argument(ix, "status")>>
    BY BytesOfIs
  <2>. QED
    BY <1>5, <2>1, <2>6, <2>7, <2>8, Zenon
<1>6. f \in {"name", "case_id", "address", "risk", "categories", "category",
             "reporter_type", "status"}
  BY SMT DEF ProgramType
<1>. QED
  BY <1>1, <1>2, <1>3, <1>4, <1>5, <1>6

\* The structs of the library have the fields of those of the program.
SameFields(i) ==
    LET fields == HapiInstruction[i].fields
        schema == IxSchema[HapiInstruction[i].name]
    IN  /\ DOMAIN schema = DOMAIN fields
        /\ \A j \in DOMAIN fields :
               /\ schema[j].name = fields[j].name
               /\ schema[j].type = JsType[fields[j].name]

LEMMA SchemasMatch ==
  ASSUME NEW i \in 1 .. 10, i \notin {2, 4}
  PROVE  SameFields(i)
<1>1. SameFields(1)
  <2>. DEFINE fields == HapiInstruction[1].fields
              schema == IxSchema.CreateCommunity
  <2>1. DOMAIN schema = 1 .. 1 /\ DOMAIN fields = 1 .. 1
    BY SMT DEF HapiInstruction, Op, IxSchema
  <2>2. /\ schema[1].name = fields[1].name
        /\ schema[1].type = JsType[fields[1].name]
    BY SMT DEF HapiInstruction, Op, Field, IxSchema, JsType
  <2>. HIDE DEF fields, schema
  <2>. QED
    BY <2>1, <2>2, OpNames DEF SameFields, fields, schema
<1>2. SameFields(3)
  <2>. DEFINE fields == HapiInstruction[3].fields
              schema == IxSchema.CreateNetwork
  <2>1. DOMAIN schema = 1 .. 1 /\ DOMAIN fields = 1 .. 1
    BY SMT DEF HapiInstruction, Op, IxSchema
  <2>2. /\ schema[1].name = fields[1].name
        /\ schema[1].type = JsType[fields[1].name]
    BY SMT DEF HapiInstruction, Op, Field, IxSchema, JsType
  <2>. HIDE DEF fields, schema
  <2>. QED
    BY <2>1, <2>2, OpNames DEF SameFields, fields, schema
<1>3. SameFields(5)
  <2>. DEFINE fields == HapiInstruction[5].fields
              schema == IxSchema.CreateReporter
  <2>1. DOMAIN schema = 1 .. 2 /\ DOMAIN fields = 1 .. 2
    BY SMT DEF HapiInstruction, Op, IxSchema
  <2>2. /\ schema[1].name = fields[1].name
        /\ schema[1].type = JsType[fields[1].name]
    BY SMT DEF HapiInstruction, Op, Field, IxSchema, JsType
  <2>3. /\ schema[2].name = fields[2].name
        /\ schema[2].type = JsType[fields[2].name]
    BY SMT DEF HapiInstruction, Op, Field, IxSchema, JsType
  <2>. HIDE DEF fields, schema
  <2>. QED
    BY <2>1, <2>2, <2>3, OpNames DEF SameFields, fields, schema
<1>4. SameFields(6)
  <2>. DEFINE fields == HapiInstruction[6].fields
              schema == IxSchema.UpdateReporter
  <2>1. DOMAIN schema = 1 .. 2 /\ DOMAIN fields = 1 .. 2
    BY SMT DEF HapiInstruction, Op, IxSchema
  <2>2. /\ schema[1].name = fields[1].name
        /\ schema[1].type = JsType[fields[1].name]
    BY SMT DEF HapiInstruction, Op, Field, IxSchema, JsType
  <2>3. /\ schema[2].name = fields[2].name
        /\ schema[2].type = JsType[fields[2].name]
    BY SMT DEF HapiInstruction, Op, Field, IxSchema, JsType
  <2>. HIDE DEF fields, schema
  <2>. QED
    BY <2>1, <2>2, <2>3, OpNames DEF SameFields, fields, schema
<1>5. SameFields(7)
  <2>. DEFINE fields == HapiInstruction[7].fields
              schema == IxSchema.CreateCase
  <2>1. DOMAIN schema = 1 .. 4 /\ DOMAIN fields = 1 .. 4
    BY SMT DEF HapiInstruction, Op, IxSchema
  <2>2. /\ schema[1].name = fields[1].name
        /\ schema[1].type = JsType[fields[1].name]
    BY SMT DEF HapiInstruction, Op, Field, IxSchema, JsType
  <2>3. /\ schema[2].name = fields[2].name
        /\ schema[2].type = JsType[fields[2].name]
    BY SMT DEF HapiInstruction, Op, Field, IxSchema, JsType
  <2>4. /\ schema[3].name = fields[3].name
        /\ schema[3].type = JsType[fields[3].name]
    BY SMT DEF HapiInstruction, Op, Field, IxSchema, JsType
  <2>5. /\ schema[4].name = fields[4].name
        /\ schema[4].type = JsType[fields[4].name]
    BY SMT DEF HapiInstruction, Op, Field, IxSchema, JsType
  <2>. HIDE DEF fields, schema
  <2>. QED
    BY <2>1, <2>2, <2>3, <2>4, <2>5, OpNames DEF SameFields, fields, schema
<1>6. SameFields(8)
  <2>. DEFINE fields == HapiInstruction[8].fields
              schema == IxSchema.UpdateCase
  <2>1. DOMAIN schema = 1 .. 2 /\ DOMAIN fields = 1 .. 2
    BY SMT DEF HapiInstruction, Op, IxSchema
  <2>2. /\ schema[1].name = fields[1].name
        /\ schema[1].type = JsType[fields[1].name]
    BY SMT DEF HapiInstruction, Op, Field, IxSchema, JsType
  <2>3. /\ schema[2].name = fields[2].name
        /\ schema[2].type = JsType[fields[2].name]
    BY SMT DEF HapiInstruction, Op, Field, IxSchema, JsType
  <2>. HIDE DEF fields, schema
  <2>. QED
    BY <2>1, <2>2, <2>3, OpNames DEF SameFields, fields, schema
<1>7. SameFields(9)
  <2>. DEFINE fields == HapiInstruction[9].fields
              schema == IxSchema.CreateAddress
  <2>1. DOMAIN schema = 1 .. 4 /\ DOMAIN fields = 1 .. 4
    BY SMT DEF HapiInstruction, Op, IxSchema
  <2>2. /\ schema[1].name = fields[1].name
        /\ schema[1].type = JsType[fields[1].name]
    BY SMT DEF HapiInstruction, Op, Field, IxSchema, JsType
  <2>3. /\ schema[2].name = fields[2].name
        /\ schema[2].type = JsType[fields[2].name]
    BY SMT DEF HapiInstruction, Op, Field, IxSchema, JsType
  <2>4. /\ schema[3].name = fields[3].name
        /\ schema[3].type = JsType[fields[3].name]
    BY SMT DEF HapiInstruction, Op, Field, IxSchema, JsType
  <2>5. /\ schema[4].name = fields[4].name
        /\ schema[4].type = JsType[fields[4].name]
    BY SMT DEF HapiInstruction, Op, Field, IxSchema, JsType
  <2>. HIDE DEF fields, schema
  <2>. QED
    BY <2>1, <2>2, <2>3, <2>4, <2>5, OpNames DEF SameFields, fields, schema
<1>8. SameFields(10)
  <2>. DEFINE fields == HapiInstruction[10].fields
              schema == IxSchema.UpdateAddress
  <2>1. DOMAIN schema = 1 .. 3 /\ DOMAIN fields = 1 .. 3
    BY SMT DEF HapiInstruction, Op, IxSchema
  <2>2. /\ schema[1].name = fields[1].name
        /\ schema[1].type = JsType[fields[1].name]
    BY SMT DEF HapiInstruction, Op, Field, IxSchema, JsType
  <2>3. /\ schema[2].name = fields[2].name
        /\ schema[2].type = JsType[fields[2].name]
    BY SMT DEF HapiInstruction, Op, Field, IxSchema, JsType
  <2>4. /\ schema[3].name = fields[3].name
        /\ schema[3].type = JsType[fields[3].name]
    BY SMT DEF HapiInstruction, Op, Field, IxSchema, JsType
  <2>. HIDE DEF fields, schema
  <2>. QED
    BY <2>1, <2>2, <2>3, <2>4, OpNames DEF SameFields, fields, schema
<1>. QED
  BY <1>1, <1>2, <1>3, <1>4, <1>5, <1>6, <1>7, <1>8

\* An instruction the library has a builder for is the same bytes in both
\* clients.
LEMMA EncodedAlike ==
  ASSUME NEW by, NEW ix, Encodable(by, ix),
         ix.op \notin {"UpdateCommunity", "UpdateNetwork"}
  PROVE  encode(ix) = try_to_vec(ix)
<1>1. PICK m : m = MeantInstruction(by, ix)
  OBVIOUS
<1>2. /\ m \in Instruction /\ m.op = ix.op /\ m.op # "Malformed"
      /\ DOMAIN m = DOMAIN ix
      /\ \A f \in DOMAIN m : f # "categories" => m[f] = ix[f]
  BY <1>1, MeantIs
<1>3. PICK i \in 1 .. 10 : FitsOp(i, m)
  BY <1>2, InstructionFits
<1>4. PICK l : l = HapiInstruction[i].fields
  OBVIOUS
<1>5. ix.op = HapiInstruction[i].name /\ i \notin {2, 4}
  BY <1>2, <1>3, OpNames DEF FitsOp
<1>6. PICK schema : schema = IxSchema[ix.op]
  OBVIOUS
<1>7. /\ DOMAIN schema = DOMAIN l
      /\ \A j \in DOMAIN l : /\ schema[j].name = l[j].name
                             /\ schema[j].type = JsType[l[j].name]
  BY <1>4, <1>5, <1>6, SchemasMatch DEF SameFields
<1>8. PICK args : args = [f \in DOMAIN ix |-> Argument(ix, f)]
  OBVIOUS
<1>9. ASSUME NEW j \in Nat
      PROVE  FieldBytes(schema, args, j) = FieldBytes(l, ix, j)
  <2>1. CASE j \notin DOMAIN l
    BY <2>1, <1>7 DEF FieldBytes
  <2>2. CASE j \in DOMAIN l
    <3>1. PICK f : f = l[j].name
      OBVIOUS
    <3>2. /\ f \in DOMAIN ix /\ f \in DOMAIN ProgramType
          /\ l[j].type = ProgramType[f]
          /\ Holdable(l[j].type, m[f])
      BY <2>2, <3>1, <1>2, <1>3, <1>4 DEF FitsOp, Fitting
    <3>3. f # "categories" => Holdable(ProgramType[f], ix[f])
      BY <3>2, <1>2
    <3>4. BytesOf(JsType[f], Argument(ix, f)) = BytesOf(ProgramType[f], ix[f])
      BY <3>2, <3>3, SameArgument
    <3>5. args[f] = Argument(ix, f)
      BY <3>2, <1>8
    <3>6. FieldBytes(schema, args, j) = BytesOf(JsType[f], args[f])
      BY <2>2, <3>1, <1>7 DEF FieldBytes
    <3>7. FieldBytes(l, ix, j) = BytesOf(ProgramType[f], ix[f])
      BY <2>2, <3>1, <3>2 DEF FieldBytes
    <3>. QED
      BY <3>4, <3>5, <3>6, <3>7
  <2>. QED
    BY <2>1, <2>2
<1>10. serialize(schema, args) = serialize(l, ix)
  <2>1. /\ FieldBytes(schema, args, 1) = FieldBytes(l, ix, 1)
        /\ FieldBytes(schema, args, 2) = FieldBytes(l, ix, 2)
        /\ FieldBytes(schema, args, 3) = FieldBytes(l, ix, 3)
        /\ FieldBytes(schema, args, 4) = FieldBytes(l, ix, 4)
        /\ FieldBytes(schema, args, 5) = FieldBytes(l, ix, 5)
    BY <1>9
  <2>. QED
    BY <2>1, Zenon DEF serialize
<1>11. encode(ix) = <<HapiInstructionTag[ix.op]>> \o serialize(schema, args)
  BY <1>6, <1>8 DEF encode
<1>12. try_to_vec(ix) = <<i - 1>> \o serialize(l, ix)
  <2>1. Tag(ix.op) = i - 1 /\ Tag(ix.op) + 1 = i
    BY <1>5, TagIs
  <2>. QED
    BY <2>1, <1>4 DEF try_to_vec
<1>13. HapiInstructionTag[ix.op] = i - 1
  BY <1>5, JsTables
<1>. QED
  BY <1>10, <1>11, <1>12, <1>13

\* The library's UpdateCommunity has a name behind its tag, which leaves bytes
\* over: the program takes it for no instruction.
LEMMA UpdateRefused ==
  ASSUME NEW ix, Encodable("js", ix), ix.op = "UpdateCommunity"
  PROVE  Received("js", ix) = Malformed(ix.accounts)
<1>1. PICK args : args = [f \in DOMAIN ix |-> Argument(ix, f)]
  OBVIOUS
<1>2. PICK l : l = IxSchema.UpdateCommunity
  OBVIOUS
<1>3. /\ DOMAIN l = 1 .. 1 /\ Len(l) = 1
      /\ l[1].name = "name" /\ l[1].type = "String"
  BY <1>2, SMT DEF IxSchema, Field
<1>4. WellFormed(l)
  BY <1>3, SMT DEF WellFormed
<1>5. args["name"] \in Name
  <2>1. Argument(ix, "name") = ix["name"]
    BY DEF Argument
  <2>. QED
    BY <1>1, <2>1 DEF Encodable
<1>6. Fitting(l, args)
  BY <1>3, <1>5, HoldableIs DEF Fitting
<1>7. PICK s \in Seq(Byte) : s = serialize(l, args)
  BY <1>4, <1>6, Serialized
<1>8. Len(s) # 0
  <2>1. 1 \in DOMAIN l /\ 1 = Len(l)
    BY <1>3
  <2>2. Len(s) = Offset(l, 1) + Len(FieldBytes(l, args, 1))
    BY <1>4, <1>6, <1>7, <2>1, Length
  <2>3. Offset(l, 1) = 0
    BY DEF Offset
  <2>4. FieldBytes(l, args, 1) = BytesOf("String", args["name"])
    BY <1>3 DEF FieldBytes
  <2>5. PICK n \in Name : n = args["name"]
    BY <1>5
  <2>6. Len(BytesOf("String", n)) = 4 + NameLen[n] /\ NameLen[n] \in Nat
    BY StringBytes, NameAssumption
  <2>7. Len(FieldBytes(l, args, 1)) = 4 + NameLen[n]
    BY <2>4, <2>5, <2>6, Zenon
  <2>8. Len(s) = 0 + (4 + NameLen[n])
    BY <2>2, <2>3, <2>7, Zenon
  <2>. QED
    BY <2>6, <2>8
<1>9. encode(ix) = <<1>> \o s
  <2>1. HapiInstructionTag.UpdateCommunity = 1
    BY SMT DEF HapiInstructionTag
  <2>. QED
    BY <1>1, <1>2, <1>7, <2>1 DEF encode
<1>10. PICK data : data = encode(ix)
  OBVIOUS
<1>11. 1 \in Byte
  BY SMT DEF Byte
<1>12. data # << >> /\ data[1] = 1 /\ Tail(data) = s
  BY <1>9, <1>10, <1>11
<1>13. PICK o : o = HapiInstruction[2]
  OBVIOUS
<1>14. Len(o.fields) = 0
  BY <1>13, SMT DEF HapiInstruction, Op
<1>15. ~try_from_slice(o.fields, s).ok
  <2>1. PICK read : read = try_from_slice_unchecked(o.fields, s)
    OBVIOUS
  <2>2. read.length = 0
    BY <1>14, <2>1 DEF try_from_slice_unchecked
  <2>3. try_from_slice(o.fields, s).ok => read.length = Len(s)
    BY <2>1 DEF try_from_slice, try_from_slice_unchecked
  <2>. QED
    BY <1>8, <2>2, <2>3
<1>16. Unpack(data, ix.accounts) = Malformed(ix.accounts)
  <2>1. /\ ~(data[1] >= Len(HapiInstruction))
        /\ HapiInstruction[data[1] + 1] = o
    BY <1>12, <1>13, OpNames
  <2>. QED
    BY <1>12, <1>15, <2>1 DEF Unpack
<1>. QED
  BY <1>10, <1>16 DEF Received, Data

\* What a client means is what arrives.
LEMMA Arrives ==
  ASSUME NEW by \in {"js", "rust"}, NEW ix, Encodable(by, ix)
  PROVE  Received(by, ix) = MeantInstruction(by, ix)
<1>1. CASE by = "js" /\ ix.op = "UpdateCommunity"
  BY <1>1, UpdateRefused DEF MeantInstruction
<1>2. CASE ~(by = "js" /\ ix.op = "UpdateCommunity")
  <2>1. Data(by, ix) = try_to_vec(ix)
    <3>1. CASE by = "js"
      <4>1. ix.op \notin {"UpdateCommunity", "UpdateNetwork"}
        BY <1>2, <3>1 DEF Encodable
      <4>. QED
        BY <3>1, <4>1, EncodedAlike DEF Data
    <3>2. CASE by = "rust"
      BY <3>2 DEF Data
    <3>. QED
      BY <3>1, <3>2
  <2>2. PICK m : m = MeantInstruction(by, ix)
    OBVIOUS
  <2>3. /\ m \in Instruction /\ m.op # "Malformed"
        /\ m.accounts = ix.accounts
    BY <1>2, <2>2, MeantIs
  <2>4. PICK i \in 1 .. 10 : FitsOp(i, m)
    BY <2>3, InstructionFits
  <2>5. try_to_vec(ix) = <<i - 1>> \o serialize(HapiInstruction[i].fields, m)
    BY <1>2, <2>2, <2>4, MeantSent
  <2>6. Unpack(try_to_vec(ix), m.accounts) = m
    BY <2>4, <2>5, Unpacked
  <2>. QED
    BY <2>1, <2>2, <2>3, <2>6 DEF Received
<1>. QED
  BY <1>1, <1>2

-----------------------------------------------------------------------------
(* The records in the library.                                             *)

\* The types of the fields of records, in the program and in the library, and
\* the value the library reads for that of the program.
FieldType ==
    [account_type |-> "HapiAccountType", authority |-> "Pubkey",
     next_case_id |-> "u64", name |-> "String",
     reporter_type |-> "ReporterType", reporter_key |-> "Pubkey",
     categories |-> "CategorySet", status |-> "CaseStatus", risk |-> "u8",
     case_id |-> "u64", category |-> "Category"]

StateType ==
    [account_type |-> "u8", authority |-> "Pubkey", next_case_id |-> "u64",
     name |-> "String", reporter_type |-> "u8", reporter_key |-> "Pubkey",
     categories |-> "u32", status |-> "u8", risk |-> "u8", case_id |-> "u64",
     category |-> "u8"]

StateValue(f, v) ==
    IF f = "categories" THEN Bitmask(v)
    ELSE IF FieldType[f] \in DOMAIN Variants
         THEN IndexOf(Variants[FieldType[f]], v) ELSE v

StateRecord(d) == [f \in DOMAIN d |-> StateValue(f, d[f])]

\* A value and the one the library reads for it are the same bytes.
LEMMA SameValue ==
  ASSUME NEW f \in DOMAIN FieldType, NEW v, Holdable(FieldType[f], v)
  PROVE  /\ BytesOf(StateType[f], StateValue(f, v)) = BytesOf(FieldType[f], v)
         /\ Holdable(StateType[f], StateValue(f, v))
<1>1. CASE f \in {"authority", "next_case_id", "name", "reporter_key", "risk",
                  "case_id"}
  <2>1. StateType[f] = FieldType[f]
    BY <1>1, SMT DEF StateType, FieldType
  <2>2. FieldType[f] \in {"Pubkey", "u64", "String", "u8"} /\ f # "categories"
    BY <1>1, SMT DEF FieldType
  <2>3. FieldType[f] \notin DOMAIN Variants
    BY <2>2, TypesDiffer
  <2>4. StateValue(f, v) = v
    BY <2>2, <2>3 DEF StateValue
  <2>. QED
    BY <2>1, <2>4
<1>2. CASE f = "categories"
  <2>1. StateType[f] = "u32" /\ FieldType[f] = "CategorySet"
    BY <1>2, SMT DEF StateType, FieldType
  <2>2. StateValue(f, v) = Bitmask(v)
    BY <1>2 DEF StateValue
  <2>3. v \subseteq Category
    BY <2>1, HoldableIs
  <2>4. IsU32(Bitmask(v))
    BY <2>3, MaskRound
  <2>. QED
    BY <2>1, <2>2, <2>4, BytesOfIs, HoldableIs
<1>3. CASE f \in {"account_type", "reporter_type", "status", "category"}
  <2>1. PICK type \in DOMAIN Variants : type = FieldType[f]
    <3>1. FieldType[f] \in {"HapiAccountType", "ReporterType", "CaseStatus",
                            "Category"}
      BY <1>3, SMT DEF FieldType
    <3>. QED
      BY <3>1, TypeNames
  <2>2. StateType[f] = "u8" /\ f # "categories"
    BY <1>3, SMT DEF StateType
  <2>3. PICK i \in DOMAIN Variants[type] : v = Variants[type][i]
    BY <2>1, HoldableIs
  <2>4. BytesOf(type, v) = <<i - 1>> /\ i - 1 \in Byte
    BY <2>3, VariantBytes
  <2>5. BytesOf(type, v) = <<IndexOf(Variants[type], v)>>
    BY BytesOfIs
  <2>6. StateValue(f, v) = IndexOf(Variants[type], v)
    BY <2>1, <2>2 DEF StateValue
  <2>7. StateValue(f, v) = i - 1
    BY <2>4, <2>5, <2>6
  <2>8. BytesOf("u8", StateValue(f, v)) = <<StateValue(f, v)>>
    BY BytesOfIs
  <2>. QED
    BY <2>1, <2>2, <2>4, <2>7, <2>8, HoldableIs
<1>4. f \in {"account_type", "authority", "next_case_id", "name",
             "reporter_type", "reporter_key", "categories", "status", "risk",
             "case_id", "category"}
  BY SMT DEF FieldType
<1>. QED
  BY <1>1, <1>2, <1>3, <1>4

\* The schemas of the library have the fields of the program's layouts, and
\* the sizes declared with them are those of the accounts.
SameState(kind) ==
    LET layout == AccountLayout[kind]
        schema == StateOf[kind].schema
    IN  /\ DOMAIN schema = DOMAIN layout
        /\ \A i \in DOMAIN layout :
               /\ layout[i].name \in DOMAIN FieldType
               /\ layout[i].type = FieldType[layout[i].name]
               /\ schema[i].name = layout[i].name
               /\ schema[i].type = StateType[layout[i].name]
        /\ Len(schema) = Len(layout)
        /\ StateOf[kind].size = MaxSize[kind]

LEMMA StatesMatch ==
  ASSUME NEW kind \in DOMAIN AccountLayout
  PROVE  SameState(kind)
<1>1. SameState("Community")
  <2>. DEFINE layout == AccountLayout.Community
              schema == CommunityState.schema
  <2>1. DOMAIN layout = 1 .. 4 /\ DOMAIN schema = 1 .. 4
    BY SMT DEF AccountLayout, CommunityState
  <2>2. Len(layout) = 4 /\ Len(schema) = 4
    BY SMT DEF AccountLayout, CommunityState
  <2>3. CommunityState.size = MaxSize.Community
    BY SMT DEF CommunityState, MaxSize
  <2>4. StateOf["Community"] = CommunityState
    BY DEF StateOf
  <2>5. /\ layout[1].name = "account_type"
        /\ layout[1].type = FieldType["account_type"]
        /\ schema[1].name = "account_type"
        /\ schema[1].type = StateType["account_type"]
        /\ "account_type" \in DOMAIN FieldType
    BY SMT DEF AccountLayout, Field, CommunityState, FieldType, StateType
  <2>6. /\ layout[2].name = "authority"
        /\ layout[2].type = FieldType["authority"]
        /\ schema[2].name = "authority"
        /\ schema[2].type = StateType["authority"]
        /\ "authority" \in DOMAIN FieldType
    BY SMT DEF AccountLayout, Field, CommunityState, FieldType, StateType
  <2>7. /\ layout[3].name = "next_case_id"
        /\ layout[3].type = FieldType["next_case_id"]
        /\ schema[3].name = "next_case_id"
        /\ schema[3].type = StateType["next_case_id"]
        /\ "next_case_id" \in DOMAIN FieldType
    BY SMT DEF AccountLayout, Field, CommunityState, FieldType, StateType
  <2>8. /\ layout[4].name = "name"
        /\ layout[4].type = FieldType["name"]
        /\ schema[4].name = "name"
        /\ schema[4].type = StateType["name"]
        /\ "name" \in DOMAIN FieldType
    BY SMT DEF AccountLayout, Field, CommunityState, FieldType, StateType
  <2>. HIDE DEF layout, schema
  <2>. QED
    BY <2>1, <2>2, <2>3, <2>4, <2>5, <2>6, <2>7, <2>8
       DEF SameState, layout, schema
<1>2. SameState("Network")
  <2>. DEFINE layout == AccountLayout.Network
              schema == NetworkState.schema
  <2>1. DOMAIN layout = 1 .. 2 /\ DOMAIN schema = 1 .. 2
    BY SMT DEF AccountLayout, NetworkState
  <2>2. Len(layout) = 2 /\ Len(schema) = 2
    BY SMT DEF AccountLayout, NetworkState
  <2>3. NetworkState.size = MaxSize.Network
    BY SMT DEF NetworkState, MaxSize
  <2>4. StateOf["Network"] = NetworkState
    BY DEF StateOf
  <2>5. /\ layout[1].name = "account_type"
        /\ layout[1].type = FieldType["account_type"]
        /\ schema[1].name = "account_type"
        /\ schema[1].type = StateType["account_type"]
        /\ "account_type" \in DOMAIN FieldType
    BY SMT DEF AccountLayout, Field, NetworkState, FieldType, StateType
  <2>6. /\ layout[2].name = "name"
        /\ layout[2].type = FieldType["name"]
        /\ schema[2].name = "name"
        /\ schema[2].type = StateType["name"]
        /\ "name" \in DOMAIN FieldType
    BY SMT DEF AccountLayout, Field, NetworkState, FieldType, StateType
  <2>. HIDE DEF layout, schema
  <2>. QED
    BY <2>1, <2>2, <2>3, <2>4, <2>5, <2>6
       DEF SameState, layout, schema
<1>3. SameState("Reporter")
  <2>. DEFINE layout == AccountLayout.Reporter
              schema == ReporterState.schema
  <2>1. DOMAIN layout = 1 .. 3 /\ DOMAIN schema = 1 .. 3
    BY SMT DEF AccountLayout, ReporterState
  <2>2. Len(layout) = 3 /\ Len(schema) = 3
    BY SMT DEF AccountLayout, ReporterState
  <2>3. ReporterState.size = MaxSize.Reporter
    BY SMT DEF ReporterState, MaxSize
  <2>4. StateOf["Reporter"] = ReporterState
    BY DEF StateOf
  <2>5. /\ layout[1].name = "account_type"
        /\ layout[1].type = FieldType["account_type"]
        /\ schema[1].name = "account_type"
        /\ schema[1].type = StateType["account_type"]
        /\ "account_type" \in DOMAIN FieldType
    BY SMT DEF AccountLayout, Field, ReporterState, FieldType, StateType
  <2>6. /\ layout[2].name = "reporter_type"
        /\ layout[2].type = FieldType["reporter_type"]
        /\ schema[2].name = "reporter_type"
        /\ schema[2].type = StateType["reporter_type"]
        /\ "reporter_type" \in DOMAIN FieldType
    BY SMT DEF AccountLayout, Field, ReporterState, FieldType, StateType
  <2>7. /\ layout[3].name = "name"
        /\ layout[3].type = FieldType["name"]
        /\ schema[3].name = "name"
        /\ schema[3].type = StateType["name"]
        /\ "name" \in DOMAIN FieldType
    BY SMT DEF AccountLayout, Field, ReporterState, FieldType, StateType
  <2>. HIDE DEF layout, schema
  <2>. QED
    BY <2>1, <2>2, <2>3, <2>4, <2>5, <2>6, <2>7
       DEF SameState, layout, schema
<1>4. SameState("Case")
  <2>. DEFINE layout == AccountLayout.Case
              schema == CaseState.schema
  <2>1. DOMAIN layout = 1 .. 5 /\ DOMAIN schema = 1 .. 5
    BY SMT DEF AccountLayout, CaseState
  <2>2. Len(layout) = 5 /\ Len(schema) = 5
    BY SMT DEF AccountLayout, CaseState
  <2>3. CaseState.size = MaxSize.Case
    BY SMT DEF CaseState, MaxSize
  <2>4. StateOf["Case"] = CaseState
    BY DEF StateOf
  <2>5. /\ layout[1].name = "account_type"
        /\ layout[1].type = FieldType["account_type"]
        /\ schema[1].name = "account_type"
        /\ schema[1].type = StateType["account_type"]
        /\ "account_type" \in DOMAIN FieldType
    BY SMT DEF AccountLayout, Field, CaseState, FieldType, StateType
  <2>6. /\ layout[2].name = "reporter_key"
        /\ layout[2].type = FieldType["reporter_key"]
        /\ schema[2].name = "reporter_key"
        /\ schema[2].type = StateType["reporter_key"]
        /\ "reporter_key" \in DOMAIN FieldType
    BY SMT DEF AccountLayout, Field, CaseState, FieldType, StateType
  <2>7. /\ layout[3].name = "categories"
        /\ layout[3].type = FieldType["categories"]
        /\ schema[3].name = "categories"
        /\ schema[3].type = StateType["categories"]
        /\ "categories" \in DOMAIN FieldType
    BY SMT DEF AccountLayout, Field, CaseState, FieldType, StateType
  <2>8. /\ layout[4].name = "status"
        /\ layout[4].type = FieldType["status"]
        /\ schema[4].name = "status"
        /\ schema[4].type = StateType["status"]
        /\ "status" \in DOMAIN FieldType
    BY SMT DEF AccountLayout, Field, CaseState, FieldType, StateType
  <2>9. /\ layout[5].name = "name"
        /\ layout[5].type = FieldType["name"]
        /\ schema[5].name = "name"
        /\ schema[5].type = StateType["name"]
        /\ "name" \in DOMAIN FieldType
    BY SMT DEF AccountLayout, Field, CaseState, FieldType, StateType
  <2>. HIDE DEF layout, schema
  <2>. QED
    BY <2>1, <2>2, <2>3, <2>4, <2>5, <2>6, <2>7, <2>8, <2>9
       DEF SameState, layout, schema
<1>5. SameState("Address")
  <2>. DEFINE layout == AccountLayout.Address
              schema == AddressState.schema
  <2>1. DOMAIN layout = 1 .. 4 /\ DOMAIN schema = 1 .. 4
    BY SMT DEF AccountLayout, AddressState
  <2>2. Len(layout) = 4 /\ Len(schema) = 4
    BY SMT DEF AccountLayout, AddressState
  <2>3. AddressState.size = MaxSize.Address
    BY SMT DEF AddressState, MaxSize
  <2>4. StateOf["Address"] = AddressState
    BY DEF StateOf
  <2>5. /\ layout[1].name = "account_type"
        /\ layout[1].type = FieldType["account_type"]
        /\ schema[1].name = "account_type"
        /\ schema[1].type = StateType["account_type"]
        /\ "account_type" \in DOMAIN FieldType
    BY SMT DEF AccountLayout, Field, AddressState, FieldType, StateType
  <2>6. /\ layout[2].name = "risk"
        /\ layout[2].type = FieldType["risk"]
        /\ schema[2].name = "risk"
        /\ schema[2].type = StateType["risk"]
        /\ "risk" \in DOMAIN FieldType
    BY SMT DEF AccountLayout, Field, AddressState, FieldType, StateType
  <2>7. /\ layout[3].name = "case_id"
        /\ layout[3].type = FieldType["case_id"]
        /\ schema[3].name = "case_id"
        /\ schema[3].type = StateType["case_id"]
        /\ "case_id" \in DOMAIN FieldType
    BY SMT DEF AccountLayout, Field, AddressState, FieldType, StateType
  <2>8. /\ layout[4].name = "category"
        /\ layout[4].type = FieldType["category"]
        /\ schema[4].name = "category"
        /\ schema[4].type = StateType["category"]
        /\ "category" \in DOMAIN FieldType
    BY SMT DEF AccountLayout, Field, AddressState, FieldType, StateType
  <2>. HIDE DEF layout, schema
  <2>. QED
    BY <2>1, <2>2, <2>3, <2>4, <2>5, <2>6, <2>7, <2>8
       DEF SameState, layout, schema
<1>. QED
  BY <1>1, <1>2, <1>3, <1>4, <1>5, AccountLayouts

\* The library's schema reads the record that the program's layout wrote.
LEMMA StateRead ==
  ASSUME NEW d \in AccountData, NEW kind, kind = d.account_type,
         NEW c \in Seq(Byte), At(c, 0, try_record_to_vec(d))
  PROVE  try_from_slice_unchecked(StateOf[kind].schema, c).struct
             = StateRecord(d)
<1>1. PICK layout : layout = AccountLayout[kind]
  OBVIOUS
<1>2. PICK schema : schema = StateOf[kind].schema
  OBVIOUS
<1>3. /\ kind \in DOMAIN AccountLayout
      /\ WellFormed(layout) /\ FitsLayout(layout, d)
  BY <1>1, DataFits
<1>4. SameState(kind)
  BY <1>3, StatesMatch
<1>5. /\ DOMAIN schema = DOMAIN layout /\ Len(schema) = Len(layout)
      /\ \A i \in DOMAIN layout :
             /\ layout[i].name \in DOMAIN FieldType
             /\ layout[i].type = FieldType[layout[i].name]
             /\ schema[i].name = layout[i].name
             /\ schema[i].type = StateType[layout[i].name]
  BY <1>1, <1>2, <1>4 DEF SameState
<1>6. /\ Fitting(layout, d)
      /\ DOMAIN d = {layout[i].name : i \in DOMAIN layout}
  BY <1>3 DEF FitsLayout
<1>7. PICK r : r = StateRecord(d)
  OBVIOUS
<1>8. DOMAIN r = DOMAIN d
  BY <1>7 DEF StateRecord
<1>9. ASSUME NEW i \in DOMAIN layout
      PROVE  /\ BytesOf(schema[i].type, r[schema[i].name])
                    = BytesOf(layout[i].type, d[layout[i].name])
             /\ Holdable(schema[i].type, r[schema[i].name])
  <2>1. PICK f : f = layout[i].name
    OBVIOUS
  <2>2. f \in DOMAIN d /\ f \in DOMAIN FieldType
    BY <1>5, <1>6, <2>1
  <2>3. r[f] = StateValue(f, d[f])
    BY <1>7, <2>2 DEF StateRecord
  <2>4. Holdable(FieldType[f], d[f])
    BY <1>5, <1>6, <2>1 DEF Fitting
  <2>. QED
    BY <1>5, <2>1, <2>2, <2>3, <2>4, SameValue
<1>10. WellFormed(schema)
  <2>1. \A i \in DOMAIN schema : i < Len(schema) => schema[i].type # "String"
    <3>. SUFFICES ASSUME NEW i \in DOMAIN layout, i < Len(layout)
                  PROVE  schema[i].type # "String"
      BY <1>5
    <3>1. layout[i].type # "String"
      BY <1>3 DEF WellFormed
    <3>2. \A f \in DOMAIN FieldType :
              FieldType[f] # "String" => StateType[f] # "String"
      BY SMT DEF FieldType, StateType
    <3>. QED
      BY <1>5, <3>1, <3>2
  <2>. QED
    BY <1>3, <1>5, <2>1 DEF WellFormed
<1>11. Fitting(schema, r)
  BY <1>5, <1>9 DEF Fitting
<1>12. \A i \in 1 .. 5 : FieldBytes(schema, r, i) = FieldBytes(layout, d, i)
  BY <1>5, <1>9 DEF FieldBytes
<1>13. serialize(schema, r) = serialize(layout, d)
  BY <1>12, SMT DEF serialize
<1>14. try_record_to_vec(d) = serialize(layout, d)
  BY <1>1 DEF try_record_to_vec
<1>15. PICK read : read = try_from_slice_unchecked(schema, c)
  OBVIOUS
<1>16. read.struct = [f \in {schema[i].name : i \in DOMAIN schema} |-> r[f]]
  BY <1>10, <1>11, <1>13, <1>14, <1>15, StructRead
<1>17. {schema[i].name : i \in DOMAIN schema} = DOMAIN r
  BY <1>5, <1>6, <1>8
<1>18. r = [f \in DOMAIN r |-> r[f]]
  BY <1>7 DEF StateRecord
<1>. QED
  BY <1>2, <1>7, <1>15, <1>16, <1>17, <1>18

\* The positions of variants are the library's numbers for them.
LEMMA NumbersAlike ==
  /\ \A v \in {"Community", "Network", "Reporter", "Case", "Address"} :
         StateValue("account_type", v) = JsEnum.HapiAccountType[v]
  /\ \A v \in ReporterType :
         StateValue("reporter_type", v) = JsEnum.ReporterType[v]
  /\ \A v \in CaseStatus : StateValue("status", v) = JsEnum.CaseStatus[v]
  /\ \A v \in Category :
         CategoryValues[StateValue("category", v) + 1] = CategoryValue[v]
  /\ \A v : StateValue("categories", v) = Bitmask(v)
  /\ \A v : \A f \in {"authority", "next_case_id", "name", "reporter_key",
                      "risk", "case_id"} : StateValue(f, v) = v
<1>1. \A f \in {"account_type", "reporter_type", "status", "category"} :
          \A v : StateValue(f, v) = IndexOf(Variants[FieldType[f]], v)
  <2>1. \A f \in {"account_type", "reporter_type", "status", "category"} :
            FieldType[f] \in DOMAIN Variants /\ f # "categories"
    <3>1. \A f \in {"account_type", "reporter_type", "status", "category"} :
              /\ FieldType[f] \in {"HapiAccountType", "ReporterType",
                                   "CaseStatus", "Category"}
              /\ f # "categories"
      BY SMT DEF FieldType
    <3>. QED
      BY <3>1, TypeNames
  <2>. QED
    BY <2>1 DEF StateValue
<1>2. /\ FieldType["account_type"] = "HapiAccountType"
      /\ FieldType["reporter_type"] = "ReporterType"
      /\ FieldType["status"] = "CaseStatus"
      /\ FieldType["category"] = "Category"
  BY SMT DEF FieldType
<1>3. ASSUME NEW v \in {"Community", "Network", "Reporter", "Case", "Address"}
      PROVE  StateValue("account_type", v) = JsEnum.HapiAccountType[v]
  <2>1. StateValue("account_type", v) = IndexOf(Variants.HapiAccountType, v)
    BY <1>1, <1>2
  <2>2. PICK s : s = Variants.HapiAccountType
    OBVIOUS
  <2>3. s = <<"Uninitialized", "Community", "Network", "Reporter", "Case",
              "Address">>
    BY <2>2, SMT DEF Variants, HapiAccountType
  <2>4. DOMAIN s = 1 .. 6 /\ 6 \in Nat
    BY <2>3, SMT
  <2>5. \A i, j \in DOMAIN s : s[i] = s[j] => i = j
    BY <2>2, TypeNames, VariantsAre
  <2>6. \A i \in 1 .. 6 : JsEnum.HapiAccountType[s[i]] = i - 1
    BY <2>3, SMT DEF JsEnum
  <2>7. \E i \in 1 .. 6 : v = s[i]
    BY <2>3, SMT
  <2>8. PICK i \in 1 .. 6 : v = s[i]
    BY <2>7
  <2>9. IndexOf(s, s[i]) = i - 1
    BY <2>4, <2>5, IndexIs
  <2>. QED
    BY <2>1, <2>2, <2>6, <2>8, <2>9
<1>4. ASSUME NEW v \in ReporterType
      PROVE  StateValue("reporter_type", v) = JsEnum.ReporterType[v]
  BY <1>1, <1>2, JsTables
<1>5. ASSUME NEW v \in CaseStatus
      PROVE  StateValue("status", v) = JsEnum.CaseStatus[v]
  BY <1>1, <1>2, JsTables
<1>6. ASSUME NEW v \in Category
      PROVE  CategoryValues[StateValue("category", v) + 1] = CategoryValue[v]
  <2>1. PICK i \in 1 .. 20 : v = Categories[i]
    BY CategoryPosition
  <2>2. Variants.Category = Categories
    BY SMT DEF Variants
  <2>3. IndexOf(Categories, v) = i - 1
    <3>1. \A x, y \in DOMAIN Categories : Categories[x] = Categories[y] => x = y
      BY CategoryPosition, Positions
    <3>. QED
      BY <2>1, <3>1, CategoryPosition, IndexIs
  <2>4. StateValue("category", v) + 1 = i
    BY <1>1, <1>2, <2>2, <2>3
  <2>. QED
    BY <2>1, <2>4, JsTables
<1>7. \A v : StateValue("categories", v) = Bitmask(v)
  BY DEF StateValue
<1>8. ASSUME NEW v, NEW f \in {"authority", "next_case_id", "name",
                               "reporter_key", "risk", "case_id"}
      PROVE  StateValue(f, v) = v
  <2>1. FieldType[f] \in {"Pubkey", "u64", "String", "u8"} /\ f # "categories"
    BY SMT DEF FieldType
  <2>2. FieldType[f] \notin DOMAIN Variants
    BY <2>1, TypesDiffer
  <2>. QED
    BY <2>1, <2>2 DEF StateValue
<1>. QED
  BY <1>3, <1>4, <1>5, <1>6, <1>7, <1>8

\* Case.fromState finds the categories in their mask.
LEMMA MaskInJs ==
  ASSUME NEW s, s \subseteq Category \ {"Safe"}
  PROVE  {CategoryValues[i] : i \in {j \in DOMAIN CategoryValues :
                                 HasBit(Bitmask(s), CategoryValues[j])}}
             = {CategoryValue[c] : c \in s}
<1>1. PICK v : v = {CategoryBit[c] : c \in s}
  OBVIOUS
<1>2. Bitmask(s) = Or(v)
  BY <1>1 DEF Bitmask
<1>3. DOMAIN CategoryValues = 1 .. 20
  BY CategoryPosition
<1>4. \A j \in 1 .. 20 : HasBit(Bitmask(s), CategoryValues[j])
                             <=> j # 1 /\ CategoryValues[j] \in v
  BY <1>2, ValueBits
<1>5. ASSUME NEW x \in v
      PROVE  \E j \in 1 .. 20 : j # 1 /\ x = CategoryValues[j]
  <2>1. PICK c \in s : x = CategoryBit[c]
    BY <1>1, <1>5
  <2>2. PICK j \in 1 .. 20 : c = Categories[j]
    BY <2>1, CategoryPosition
  <2>3. j # 1
    BY <2>1, <2>2, CategoryPosition
  <2>. QED
    BY <2>1, <2>2, <2>3, BitOfCategory
<1>6. {CategoryValues[i] : i \in {j \in 1 .. 20 :
                               HasBit(Bitmask(s), CategoryValues[j])}} = v
  BY <1>4, <1>5
<1>. QED
  BY <1>1, <1>3, <1>6, JsTables

\* What the library makes of an account is the record in its own values.
LEMMA JsRead ==
  ASSUME NEW d \in AccountData, NEW c \in Seq(Byte),
         At(c, 0, try_record_to_vec(d))
  PROVE  deserialize(d.account_type, c) = RecordInJs(d)
<1>1. PICK kind : kind = d.account_type
  OBVIOUS
<1>2. PICK r : r = StateRecord(d)
  OBVIOUS
<1>3. deserialize(kind, c) = fromState(kind, r)
  BY <1>1, <1>2, StateRead DEF deserialize
<1>4. CASE kind = "Community"
  <2>1. d \in Community
    BY <1>1, <1>4, DataFields
  <2>2. /\ DOMAIN d = {"account_type", "authority", "next_case_id", "name"}
        /\ d.account_type = "Community"
    BY <2>1 DEF Community
  <2>3. /\ DOMAIN r = DOMAIN d
        /\ \A f \in DOMAIN d : r[f] = StateValue(f, d[f])
    BY <1>2 DEF StateRecord
  <2>4. r = [f \in DOMAIN d |-> r[f]]
    BY <1>2 DEF StateRecord
  <2>5. /\ r.authority = d.authority /\ r.next_case_id = d.next_case_id
        /\ r.name = d.name
    BY <2>2, <2>3, NumbersAlike
  <2>6. PICK t : t = Community_fromState(r)
    OBVIOUS
  <2>7. t = [r EXCEPT !.account_type = JsEnum.HapiAccountType.Community,
                      !.next_case_id = u64(@)]
    BY <2>6 DEF Community_fromState
  <2>8. t = [f \in DOMAIN d |->
                 IF f = "account_type" THEN JsEnum.HapiAccountType.Community
                 ELSE IF f = "next_case_id" THEN u64(d.next_case_id)
                 ELSE r[f]]
    BY <2>2, <2>3, <2>4, <2>5, <2>7
  <2>9. \A f \in DOMAIN d : t[f] = InJs(f, d[f])
    BY <2>2, <2>5, <2>8 DEF InJs
  <2>10. t = RecordInJs(d)
    BY <2>8, <2>9 DEF RecordInJs
  <2>11. fromState(kind, r) = t
    BY <1>4, <2>6 DEF fromState
  <2>. QED
    BY <1>1, <1>3, <2>10, <2>11
<1>5. CASE kind \in {"Network", "Reporter"}
  <2>1. /\ kind = "Network" => d \in Network
        /\ kind = "Reporter" => d \in Reporter
    BY <1>1, DataFields
  <2>2. \/ DOMAIN d = {"account_type", "name"}
        \/ /\ DOMAIN d = {"account_type", "reporter_type", "name"}
           /\ d.reporter_type \in ReporterType
    BY <1>5, <2>1 DEF Network, Reporter
  <2>3. d.account_type \in {"Community", "Network", "Reporter", "Case",
                            "Address"}
    BY DataFields
  <2>4. \A f \in DOMAIN d : StateValue(f, d[f]) = InJs(f, d[f])
    BY <2>2, <2>3, NumbersAlike DEF InJs
  <2>5. r = RecordInJs(d)
    BY <1>2, <2>4 DEF StateRecord, RecordInJs
  <2>6. fromState(kind, r) = r
    BY <1>5 DEF fromState
  <2>. QED
    BY <1>1, <1>3, <2>5, <2>6
<1>6. CASE kind = "Case"
  <2>1. d \in Case
    BY <1>1, <1>6, DataFields
  <2>2. /\ DOMAIN d = {"account_type", "reporter_key", "categories", "status",
                       "name"}
        /\ d.account_type = "Case" /\ d.status \in CaseStatus
        /\ d.categories \subseteq Category \ {"Safe"}
    BY <2>1, CategoryAssumption DEF Case
  <2>3. /\ DOMAIN r = DOMAIN d
        /\ \A f \in DOMAIN d : r[f] = StateValue(f, d[f])
    BY <1>2 DEF StateRecord
  <2>4. r = [f \in DOMAIN d |-> r[f]]
    BY <1>2 DEF StateRecord
  <2>5. /\ r.account_type = JsEnum.HapiAccountType[d.account_type]
        /\ r.reporter_key = d.reporter_key
        /\ r.categories = Bitmask(d.categories)
        /\ r.status = JsEnum.CaseStatus[d.status]
        /\ r.name = d.name
    BY <2>2, <2>3, NumbersAlike
  <2>6. PICK t : t = Case_fromState(r)
    OBVIOUS
  <2>7. PICK w : w = {CategoryValue[x] : x \in d.categories}
    OBVIOUS
  <2>8. {CategoryValues[i] : i \in {j \in DOMAIN CategoryValues :
                                 HasBit(r.categories, CategoryValues[j])}} = w
    BY <2>2, <2>5, <2>7, MaskInJs
  <2>9. t = [r EXCEPT !.categories = w]
    BY <2>6, <2>8 DEF Case_fromState
  <2>10. t = [f \in DOMAIN d |-> IF f = "categories" THEN w ELSE r[f]]
    BY <2>3, <2>4, <2>9
  <2>11. \A f \in DOMAIN d : t[f] = InJs(f, d[f])
    BY <2>2, <2>5, <2>7, <2>10 DEF InJs
  <2>12. t = RecordInJs(d)
    BY <2>10, <2>11 DEF RecordInJs
  <2>13. fromState(kind, r) = t
    BY <1>6, <2>6 DEF fromState
  <2>. QED
    BY <1>1, <1>3, <2>12, <2>13
<1>7. CASE kind = "Address"
  <2>1. d \in Address
    BY <1>1, <1>7, DataFields
  <2>2. /\ DOMAIN d = {"account_type", "risk", "case_id", "category"}
        /\ d.account_type = "Address" /\ d.category \in Category
    BY <2>1 DEF Address
  <2>3. /\ DOMAIN r = DOMAIN d
        /\ \A f \in DOMAIN d : r[f] = StateValue(f, d[f])
    BY <1>2 DEF StateRecord
  <2>4. r = [f \in DOMAIN d |-> r[f]]
    BY <1>2 DEF StateRecord
  <2>5. /\ r.account_type = JsEnum.HapiAccountType[d.account_type]
        /\ r.risk = d.risk /\ r.case_id = d.case_id
        /\ CategoryValues[r.category + 1] = CategoryValue[d.category]
    BY <2>2, <2>3, NumbersAlike
  <2>6. PICK t : t = Address_fromState(r)
    OBVIOUS
  <2>7. t = [r EXCEPT !.case_id = BN(@), !.category = CategoryValues[@ + 1]]
    BY <2>6 DEF Address_fromState
  <2>8. PICK x : x = CategoryValues[r.category + 1]
    OBVIOUS
  <2>9. t = [f \in DOMAIN d |-> IF f = "case_id" THEN BN(d.case_id)
                                ELSE IF f = "category" THEN x
                                ELSE r[f]]
    BY <2>2, <2>3, <2>4, <2>5, <2>7, <2>8
  <2>10. \A f \in DOMAIN d : t[f] = InJs(f, d[f])
    BY <2>2, <2>5, <2>8, <2>9 DEF InJs
  <2>11. t = RecordInJs(d)
    BY <2>9, <2>10 DEF RecordInJs
  <2>12. fromState(kind, r) = t
    BY <1>7, <2>6 DEF fromState
  <2>. QED
    BY <1>1, <1>3, <2>11, <2>12
<1>. QED
  BY <1>1, <1>4, <1>5, <1>6, <1>7, DataFields

-----------------------------------------------------------------------------
(* What the clients make of ids, categories and paths.                     *)

\* The library's digits, turned round again, are those of the program.
LEMMA BufferIs ==
  ASSUME NEW n, IsU64(n)
  PROVE  /\ bnToBuffer(n, 8) = U64Bytes(n)
         /\ Len(bnToBuffer(n, 8)) = 8
         /\ fromBuffer(bnToBuffer(n, 8)) = n
<1>1. PICK d \in Seq(Byte) : d = U64Bytes(n) /\ Len(d) = 8 /\ U64(d) = n
  BY U64Round
<1>2. d = [i \in 1 .. 8 |-> d[i]]
  BY <1>1
<1>. DEFINE Highest(k) == /\ k = 1 \/ d[k] # 0
                          /\ \A j \in k + 1 .. 8 : d[j] = 0
<1>3. \E k \in 1 .. 8 : Highest(k)
  <2>. SUFFICES ASSUME \A k \in 1 .. 8 : ~Highest(k)
                PROVE  FALSE
    OBVIOUS
  <2>1. d[8] = 0
    BY SMT
  <2>2. d[7] = 0
    BY <2>1, SMT
  <2>3. d[6] = 0
    BY <2>1, <2>2, SMT
  <2>4. d[5] = 0
    BY <2>1, <2>2, <2>3, SMT
  <2>5. d[4] = 0
    BY <2>1, <2>2, <2>3, <2>4, SMT
  <2>6. d[3] = 0
    BY <2>1, <2>2, <2>3, <2>4, <2>5, SMT
  <2>7. d[2] = 0
    BY <2>1, <2>2, <2>3, <2>4, <2>5, <2>6, SMT
  <2>8. Highest(1)
    BY <2>1, <2>2, <2>3, <2>4, <2>5, <2>6, <2>7, SMT
  <2>. QED
    BY <2>8
<1>4. PICK k : k = CHOOSE x \in 1 .. 8 : Highest(x)
  OBVIOUS
<1>5. k \in 1 .. 8 /\ Highest(k)
  BY <1>3, <1>4
<1>6. PICK a : a = [i \in 1 .. k |-> d[k + 1 - i]]
  OBVIOUS
<1>7. toArray(n) = a
  BY <1>1, <1>4, <1>6 DEF toArray
<1>8. Len(a) = k
  BY <1>5, <1>6
<1>9. PICK b : b = [i \in 1 .. 8 |-> IF i <= k THEN a[k + 1 - i] ELSE 0]
  OBVIOUS
<1>10. bnToBuffer(n, 8) = b
  BY <1>7, <1>8, <1>9 DEF bnToBuffer
<1>11. \A i \in 1 .. 8 : b[i] = d[i]
  <2>. TAKE i \in 1 .. 8
  <2>1. CASE i <= k
    <3>1. k + 1 - i \in 1 .. k /\ k + 1 - (k + 1 - i) = i
      BY <1>5, <2>1
    <3>2. a[k + 1 - i] = d[i]
      BY <1>6, <3>1
    <3>. QED
      BY <1>9, <2>1, <3>2
  <2>2. CASE ~(i <= k)
    <3>1. i \in k + 1 .. 8
      BY <1>5, <2>2
    <3>. QED
      BY <1>5, <1>9, <2>2, <3>1
  <2>. QED
    BY <2>1, <2>2
<1>12. b = d
  BY <1>2, <1>9, <1>11
<1>. QED
  BY <1>1, <1>10, <1>12 DEF fromBuffer

\* The library's ids are the seeds and numbers of the program.
LEMMA Ids == IdsAgree
<1>1. \A n \in Numbers : IsU64(n)
  BY SMT DEF Numbers, IsU64
<1>2. \A n \in Numbers : toBuffer(u64(n)) = bnToBuffer(n, 8)
  BY DEF toBuffer, u64
<1>. QED
  BY <1>1, <1>2, BufferIs DEF IdsAgree

\* The library's category numbers are those of the program.
LEMMA CategoryNumbers == CategoriesAgree
<1>1. ASSUME NEW c \in Category
      PROVE  categoryToBinary(CategoryValue[c]) = IndexOf(Categories, c)
  BY <1>1, CategoryPosition, NumberOf
<1>2. ASSUME NEW c, NEW d
      PROVE  categoriesToBitmask({CategoryValue[c], CategoryValue[d]})
                 = Bitmask({c, d})
  <2>1. {CategoryValue[c], CategoryValue[d]} = {CategoryBit[x] : x \in {c, d}}
    BY JsTables
  <2>. QED
    BY <2>1 DEF categoriesToBitmask, Bitmask
<1>. QED
  BY <1>1, <1>2 DEF CategoriesAgree

\* The first slash of a path ends a community without one.
LEMMA PathParts ==
  ASSUME NEW x \in Name, HasNoSlash(x), NEW y \in Name
  PROVE  parse_network_path(NetworkPath(x, y)) = <<NameBytes[x], NameBytes[y]>>
<1>1. PICK p \in Seq(Byte) : p = NameBytes[x]
  BY BytesAssumption, NameAssumption, FunctionIsSequence
<1>2. PICK q \in Seq(Byte) : q = NameBytes[y]
  BY BytesAssumption, NameAssumption, FunctionIsSequence
<1>3. Slash \in Byte
  BY SMT DEF Slash, Byte
<1>4. PICK s \in Seq(Byte) : s = <<Slash>>
  <2>1. <<Slash>> \in Seq(Byte)
    BY <1>3
  <2>. QED
    BY <2>1
<1>5. Len(s) = 1 /\ s[1] = Slash
  BY <1>4
<1>6. PICK r \in Seq(Byte) : r = p \o s /\ Joined(r, p, s)
  BY Concat
<1>7. PICK t \in Seq(Byte) : t = r \o q /\ Joined(t, r, q)
  BY Concat
<1>8. NetworkPath(x, y) = t
  BY <1>1, <1>2, <1>4, <1>6, <1>7 DEF NetworkPath
<1>9. PICK n \in Nat : n = Len(p)
  OBVIOUS
<1>10. /\ Len(r) = n + 1 /\ Len(t) = n + 1 + Len(q)
       /\ At(t, 0, r) /\ At(t, n + 1, q)
  <2>1. Len(r) = n + 1
    BY <1>5, <1>6, <1>9 DEF Joined
  <2>2. Len(t) = n + 1 + Len(q)
    BY <1>7, <2>1 DEF Joined
  <2>3. At(t, 0, r) /\ At(t, Len(r), q)
    BY <1>7, AtParts
  <2>. QED
    BY <2>1, <2>2, <2>3
<1>11. At(r, 0, p) /\ At(r, n, s)
  BY <1>6, <1>9, AtParts
<1>12. At(t, 0, p) /\ At(t, n, s)
  BY <1>10, <1>11, AtBegin
<1>13. t[n + 1] = Slash
  BY <1>5, <1>12 DEF At
<1>14. \A i \in 1 .. n : t[i] # Slash
  <2>1. \A i \in 1 .. n : t[i] = p[i]
    BY <1>9, <1>12 DEF At
  <2>2. \A i \in 1 .. n : p[i] # Slash
    BY <1>1, <1>9 DEF HasNoSlash
  <2>. QED
    BY <2>1, <2>2
<1>15. DOMAIN t = 1 .. n + 1 + Len(q) /\ Len(q) \in Nat
  BY <1>10
<1>. DEFINE First(i) == t[i] = Slash /\ \A j \in 1 .. i - 1 : t[j] # Slash
<1>16. n + 1 \in DOMAIN t /\ First(n + 1)
  BY <1>13, <1>14, <1>15
<1>17. \A i \in DOMAIN t : First(i) => i = n + 1
  <2>. SUFFICES ASSUME NEW i \in 1 .. n + 1 + Len(q), First(i)
                PROVE  i = n + 1
    BY <1>15
  <2>1. ~(i \in 1 .. n)
    BY <1>14
  <2>2. ~(i > n + 1)
    <3>. SUFFICES ASSUME i > n + 1
                  PROVE  FALSE
      OBVIOUS
    <3>1. n + 1 \in 1 .. i - 1
      BY <1>15
    <3>. QED
      BY <1>13, <3>1
  <2>. QED
    BY <1>15, <2>1, <2>2
<1>18. PICK at : at = CHOOSE i \in DOMAIN t : First(i)
  OBVIOUS
<1>19. at = n + 1
  BY <1>16, <1>17, <1>18
<1>. HIDE DEF First
<1>20. parse_network_path(t)
           = <<SubSeq(t, 1, at - 1), SubSeq(t, at + 1, Len(t))>>
  BY <1>18 DEF parse_network_path, First
<1>21. SubSeq(t, 1, n) = p
  BY <1>9, <1>12, AtFront
<1>22. SubSeq(t, n + 1 + 1, n + 1 + Len(q)) = q
  <2>1. n + 1 \in Nat
    OBVIOUS
  <2>. QED
    BY <1>10, <2>1, AtSlice
<1>23. at - 1 = n /\ at + 1 = n + 1 + 1 /\ Len(t) = n + 1 + Len(q)
  BY <1>10, <1>19
<1>. QED
  BY <1>1, <1>2, <1>8, <1>20, <1>21, <1>22, <1>23
=============================================================================
