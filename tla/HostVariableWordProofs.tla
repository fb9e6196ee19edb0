----------------------- MODULE HostVariableWordProofs -----------------------
(***************************************************************************)
(* With the constants of the code, every change that HostVariable makes to *)
(* the flags is the one that the shifts and masks of FlagsWord make.       *)
(***************************************************************************)
EXTENDS HostVariableProofs

\* The layout of the code: four bits a count, up to fifteen buffers.
Layout == LOCK_MAX = 15 /\ SHM_BUFFER_CNT <= 15

LEMMA FourBits == ASSUME Layout PROVE CountBits = 4
<1>1. 2^4 = LOCK_MAX + 1 /\ 4 \in 1 .. LOCK_MAX
  BY DEF Layout
<1>2. ASSUME NEW n \in 1 .. LOCK_MAX, 2^n = LOCK_MAX + 1
      PROVE  n = 4
  <2>1. n \in 1 .. 15 /\ 2^n = 16
    BY <1>2 DEF Layout
  <2>2. n # 1  BY <2>1, 2^1 # 16
  <2>3. n # 2  BY <2>1, 2^2 # 16
  <2>4. n # 3  BY <2>1, 2^3 # 16
  <2>5. n # 5  BY <2>1, 2^5 # 16
  <2>6. n # 6  BY <2>1, 2^6 # 16
  <2>7. n # 7  BY <2>1, 2^7 # 16
  <2>8. n # 8  BY <2>1, 2^8 # 16
  <2>9. n # 9  BY <2>1, 2^9 # 16
  <2>10. n # 10  BY <2>1, 2^10 # 16
  <2>11. n # 11  BY <2>1, 2^11 # 16
  <2>12. n # 12  BY <2>1, 2^12 # 16
  <2>13. n # 13  BY <2>1, 2^13 # 16
  <2>14. n # 14  BY <2>1, 2^14 # 16
  <2>15. n # 15  BY <2>1, 2^15 # 16
  <2> QED BY <2>1, <2>2, <2>3, <2>4, <2>5, <2>6, <2>7, <2>8, <2>9, <2>10, <2>11, <2>12, <2>13, <2>14, <2>15
<1> QED BY <1>1, <1>2 DEF CountBits

\* The bits of a number below sixteen.
LEMMA BinaryOf ==
  ASSUME Layout, NEW n \in 0 .. 15
  PROVE  /\ FW!Binary(n) \subseteq 0 .. 3
         /\ 0 \in FW!Binary(n) <=> n % 2 = 1
         /\ 1 \in FW!Binary(n) <=> (n \div 2) % 2 = 1
         /\ 2 \in FW!Binary(n) <=> (n \div 4) % 2 = 1
         /\ 3 \in FW!Binary(n) <=> (n \div 8) % 2 = 1
<1>1. FW!Binary(n) = {i \in 0 .. 4 : (n \div 2^i) % 2 = 1}
  BY FourBits DEF FW!Binary
<1>2. 2^0 = 1 /\ 2^1 = 2 /\ 2^2 = 4 /\ 2^3 = 8 /\ 2^4 = 16
  OBVIOUS
<1>3. 4 \notin FW!Binary(n)
  BY <1>1, <1>2
<1>4. 0 \in FW!Binary(n) <=> n % 2 = 1
  <2>1. n \div 2^0 = n
    BY <1>2
  <2> QED BY <1>1, <2>1
<1>5. 1 \in FW!Binary(n) <=> (n \div 2) % 2 = 1
  BY <1>1, <1>2
<1>6. 2 \in FW!Binary(n) <=> (n \div 4) % 2 = 1
  BY <1>1, <1>2
<1>7. 3 \in FW!Binary(n) <=> (n \div 8) % 2 = 1
  BY <1>1, <1>2
<1>8. FW!Binary(n) \subseteq 0 .. 4
  BY <1>1
<1> QED BY <1>3, <1>4, <1>5, <1>6, <1>7, <1>8

\* A write lock, and no lock.
LEMMA BinaryOnesZero == ASSUME Layout PROVE FW!Binary(15) = 0 .. 3 /\ FW!Binary(0) = {}
<1>1. 15 % 2 = 1 /\ (15 \div 2) % 2 = 1 /\ (15 \div 4) % 2 = 1 /\ (15 \div 8) % 2 = 1
  OBVIOUS
<1>2. 0 % 2 = 0 /\ (0 \div 2) % 2 = 0 /\ (0 \div 4) % 2 = 0 /\ (0 \div 8) % 2 = 0
  OBVIOUS
<1>3. 0 \in FW!Binary(15) /\ 1 \in FW!Binary(15) /\ 2 \in FW!Binary(15) /\ 3 \in FW!Binary(15)
  BY <1>1, BinaryOf
<1>4. 0 \notin FW!Binary(0) /\ 1 \notin FW!Binary(0) /\ 2 \notin FW!Binary(0) /\ 3 \notin FW!Binary(0)
  BY <1>2, BinaryOf
<1>5. FW!Binary(15) \subseteq 0 .. 3 /\ FW!Binary(0) \subseteq 0 .. 3
  BY BinaryOf
<1> QED BY <1>3, <1>4, <1>5

LEMMA NumberOf == ASSUME Layout, NEW n \in 0 .. 15 PROVE FW!Number(FW!Binary(n)) = n
<1>1. 2^CountBits - 1 = 15
  BY FourBits
<1>2. ASSUME NEW m \in 0 .. 15, FW!Binary(m) = FW!Binary(n)
      PROVE  m = n
  <2>1. /\ m % 2 = 1 <=> n % 2 = 1
        /\ (m \div 2) % 2 = 1 <=> (n \div 2) % 2 = 1
        /\ (m \div 4) % 2 = 1 <=> (n \div 4) % 2 = 1
        /\ (m \div 8) % 2 = 1 <=> (n \div 8) % 2 = 1
    BY <1>2, BinaryOf
  <2> QED BY <2>1
<1> QED BY <1>1, <1>2 DEF FW!Number

\* The fields of the packed word, bit by bit.
LEMMA PackedField ==
  ASSUME Layout, HostVariableAssumption, NEW f \in FlagWords, NEW b \in 0 .. 15
  PROVE  /\ Field(f, b) \in 0 .. 15
         /\ Pack(f) \subseteq 0 .. 63
         /\ \A i \in 0 .. 3 : 4 * b + i \in Pack(f) <=> i \in FW!Binary(Field(f, b))
<1>1. Field(f, b) \in 0 .. 15
  BY DEF Field, FlagWords, Buffers, Layout, HostVariableAssumption
<1>2. Pack(f) = {i \in 0 .. 63 : (Field(f, i \div 4) \div 2^(i % 4)) % 2 = 1}
  BY FourBits DEF Pack
<1>3. ASSUME NEW i \in 0 .. 3
      PROVE  4 * b + i \in Pack(f) <=> i \in FW!Binary(Field(f, b))
  <2>1. 4 * b + i \in 0 .. 63 /\ (4 * b + i) \div 4 = b /\ (4 * b + i) % 4 = i
    OBVIOUS
  <2>2. 4 * b + i \in Pack(f) <=> (Field(f, b) \div 2^i) % 2 = 1
    BY <1>2, <2>1
  <2>3. FW!Binary(Field(f, b)) = {j \in 0 .. 4 : (Field(f, b) \div 2^j) % 2 = 1}
    BY FourBits DEF FW!Binary
  <2> QED BY <2>2, <2>3
<1> QED BY <1>1, <1>2, <1>3

\* A word is what its fields are.
LEMMA SameWord ==
  ASSUME NEW v \in SUBSET (0 .. 63), NEW w \in SUBSET (0 .. 63),
         \A b \in 0 .. 15 : \A i \in 0 .. 3 : 4 * b + i \in v <=> 4 * b + i \in w
  PROVE  v = w
<1>1. ASSUME NEW n \in 0 .. 63
      PROVE  n \in v <=> n \in w
  <2>1. n \div 4 \in 0 .. 15 /\ n % 4 \in 0 .. 3 /\ 4 * (n \div 4) + (n % 4) = n
    OBVIOUS
  <2> QED BY <2>1
<1> QED BY <1>1

-----------------------------------------------------------------------------
(* Shifts, masks and fields *)

LEMMA ShiftedDown ==
  ASSUME Layout, NEW w \in SUBSET (0 .. 63), NEW b \in 0 .. 15, NEW i \in 0 .. 3
  PROVE  i \in FW!Shr(w, b * CountBits) <=> 4 * b + i \in w
<1>1. FW!Shr(w, b * CountBits) = {j - 4 * b : j \in {k \in w : k >= 4 * b}}
  <2>1. b * CountBits = 4 * b
    BY FourBits
  <2> QED BY <2>1 DEF FW!Shr
<1>2. ASSUME NEW j \in {k \in w : k >= 4 * b}, i = j - 4 * b
      PROVE  4 * b + i \in w
  BY <1>2
<1>3. ASSUME 4 * b + i \in w
      PROVE  i \in FW!Shr(w, b * CountBits)
  <2>1. 4 * b + i \in {k \in w : k >= 4 * b} /\ i = (4 * b + i) - 4 * b
    BY <1>3
  <2> QED BY <1>1, <2>1
<1> QED BY <1>1, <1>2, <1>3

LEMMA ShiftedUp ==
  ASSUME Layout, NEW w \in SUBSET (0 .. 3), NEW b \in 0 .. 15
  PROVE  /\ FW!Shl(w, b * CountBits) \subseteq 0 .. 63
         /\ \A c \in 0 .. 15 : \A i \in 0 .. 3 :
              4 * c + i \in FW!Shl(w, b * CountBits) <=> c = b /\ i \in w
<1>1. FW!Shl(w, b * CountBits) = {j + 4 * b : j \in w} \cap (0 .. 63)
  BY FourBits DEF FW!Shl, FW!Bits
<1>2. ASSUME NEW c \in 0 .. 15, NEW i \in 0 .. 3
      PROVE  4 * c + i \in FW!Shl(w, b * CountBits) <=> c = b /\ i \in w
  <2>1. ASSUME NEW j \in w, 4 * c + i = j + 4 * b
        PROVE  c = b /\ i = j
    BY <2>1
  <2>2. ASSUME c = b, i \in w
        PROVE  4 * c + i \in FW!Shl(w, b * CountBits)
    <3>1. 4 * c + i \in 0 .. 63 /\ 4 * c + i = i + 4 * b
      BY <2>2
    <3> QED BY <1>1, <2>2, <3>1
  <2> QED BY <1>1, <2>1, <2>2
<1> QED BY <1>1, <1>2

LEMMA MaskOf ==
  ASSUME Layout, NEW b \in 0 .. 15
  PROVE  /\ FW!FieldMask(b) \subseteq 0 .. 63
         /\ \A c \in 0 .. 15 : \A i \in 0 .. 3 : 4 * c + i \in FW!FieldMask(b) <=> c = b
<1>1. FW!FieldMask(b) = FW!Shl(0 .. 3, b * CountBits)
  BY FourBits DEF FW!FieldMask, FW!Ones
<1> QED BY <1>1, ShiftedUp

\* What the code reads out of the word.
LEMMA CountOf ==
  ASSUME Layout, HostVariableAssumption, NEW f \in FlagWords, NEW b \in 0 .. 15
  PROVE  FW!Count(Pack(f), b) = Field(f, b)
<1>1. ASSUME NEW i \in 0 .. 3
      PROVE  i \in FW!Shr(Pack(f), b * CountBits) <=> i \in FW!Binary(Field(f, b))
  BY PackedField, ShiftedDown
<1>2. FW!Binary(Field(f, b)) \subseteq 0 .. 3
  BY PackedField, BinaryOf
<1>3. FW!Shr(Pack(f), b * CountBits) \cap (0 .. 3) = FW!Binary(Field(f, b))
  BY <1>1, <1>2
<1>4. FW!Ones = 0 .. 3
  BY FourBits DEF FW!Ones
<1>5. FW!Count(Pack(f), b) = FW!Number(FW!Binary(Field(f, b)))
  BY <1>3, <1>4 DEF FW!Count
<1> QED BY <1>5, PackedField, NumberOf

LEMMA TargetOf ==
  ASSUME Layout, HostVariableAssumption, NEW f \in FlagWords
  PROVE  FW!Target(Pack(f)) = f.target
<1>1. Pack(f) \subseteq 0 .. 63 /\ Field(f, 15) = f.target /\ f.target \in 0 .. 15
  BY PackedField DEF Field
<1>2. FW!Top = 15 * CountBits /\ FW!Shr(Pack(f), 60) \subseteq 0 .. 3
  BY <1>1 DEF FW!Top, FW!Shr
<1>3. ASSUME NEW i \in 0 .. 3
      PROVE  i \in FW!Shr(Pack(f), FW!Top) <=> i \in FW!Binary(f.target)
  BY <1>1, <1>2, PackedField, ShiftedDown
<1>4. FW!Binary(f.target) \subseteq 0 .. 3
  BY <1>1, BinaryOf
<1>5. FW!Shr(Pack(f), FW!Top) = FW!Binary(f.target)
  <2>1. FW!Top = 60
    BY FourBits DEF FW!Top
  <2> QED BY <1>2, <1>3, <1>4, <2>1
<1> QED BY <1>1, <1>5, NumberOf DEF FW!Target

\* What it makes of the word.
LEMMA WithFieldOf ==
  ASSUME Layout, HostVariableAssumption, NEW f \in FlagWords, NEW b \in Buffers, NEW n \in 0 .. 15
  PROVE  /\ WithCount(f, b, n) \in FlagWords
         /\ FW!WithField(Pack(f), b, n) = Pack(WithCount(f, b, n))
<1>1. b \in 0 .. 14 /\ LOCK_MAX = 15
  BY DEF Layout, Buffers, HostVariableAssumption
<1>2. WithCount(f, b, n) \in FlagWords
  BY <1>1 DEF WithCount, FlagWords
<1> DEFINE g == WithCount(f, b, n)
           w == FW!WithField(Pack(f), b, n)
<1>3. w = (Pack(f) \cap ((0 .. 63) \ FW!FieldMask(b))) \cup FW!Shl(FW!Binary(n), b * CountBits)
  BY FourBits DEF FW!WithField, FW!Complement, FW!Bits
<1>4. FW!Binary(n) \in SUBSET (0 .. 3)
  BY BinaryOf
<1>5. w \subseteq 0 .. 63 /\ Pack(g) \subseteq 0 .. 63 /\ Pack(f) \subseteq 0 .. 63
  BY <1>1, <1>2, <1>3, <1>4, ShiftedUp, PackedField
<1>6. ASSUME NEW c \in 0 .. 15, NEW i \in 0 .. 3
      PROVE  4 * c + i \in w <=> 4 * c + i \in Pack(g)
  <2>1. 4 * c + i \in Pack(g) <=> i \in FW!Binary(Field(g, c))
    BY <1>2, PackedField
  <2>2. Field(g, c) = IF c = b THEN n ELSE Field(f, c)
    BY <1>1 DEF Field, WithCount, FlagWords
  <2>3. 4 * c + i \in w <=> IF c = b THEN i \in FW!Binary(n) ELSE 4 * c + i \in Pack(f)
    BY <1>1, <1>3, <1>4, <1>5, ShiftedUp, MaskOf
  <2> QED BY <2>1, <2>2, <2>3, PackedField
<1>7. w = Pack(g)
  BY <1>5, <1>6, SameWord
<1> QED BY <1>2, <1>7

\* The writer's lock, its release and the new target.
LEMMA LockOf ==
  ASSUME Layout, HostVariableAssumption, NEW f \in FlagWords, NEW b \in Buffers
  PROVE  /\ Pack(f) \cup FW!Shl(FW!Ones, 4 * b) = Pack(WithCount(f, b, LOCK_MAX))
         /\ Pack(f) \cap FW!Complement(FW!FieldMask(b)) = Pack(WithCount(f, b, 0))
<1>1. b \in 0 .. 14 /\ LOCK_MAX = 15 /\ 0 \in 0 .. 15 /\ 15 \in 0 .. 15
  BY DEF Layout, Buffers, HostVariableAssumption
<1>2. FW!Shl(FW!Ones, 4 * b) = FW!FieldMask(b)
  BY FourBits, <1>1 DEF FW!FieldMask
<1>3. FW!Complement(FW!FieldMask(b)) = (0 .. 63) \ FW!FieldMask(b)
  BY FourBits DEF FW!Complement, FW!Bits
<1>4. FW!Binary(15) = 0 .. 3 /\ FW!Binary(0) = {}
  BY BinaryOnesZero
<1>5. /\ FW!WithField(Pack(f), b, 15) = Pack(WithCount(f, b, 15))
      /\ FW!WithField(Pack(f), b, 0) = Pack(WithCount(f, b, 0))
  BY <1>1, WithFieldOf
<1>6. FW!Shl({}, b * CountBits) = {} /\ FW!Shl(0 .. 3, b * CountBits) = FW!FieldMask(b)
  BY FourBits DEF FW!Shl, FW!FieldMask, FW!Ones
<1>7. Pack(f) \subseteq 0 .. 63 /\ FW!FieldMask(b) \subseteq 0 .. 63
  BY <1>1, PackedField, MaskOf
<1>8. /\ FW!WithField(Pack(f), b, 15) = Pack(f) \cup FW!FieldMask(b)
      /\ FW!WithField(Pack(f), b, 0) = Pack(f) \cap FW!Complement(FW!FieldMask(b))
  BY <1>3, <1>4, <1>6, <1>7 DEF FW!WithField
<1> QED BY <1>1, <1>2, <1>5, <1>8

LEMMA PublishOf ==
  ASSUME Layout, HostVariableAssumption, NEW f \in FlagWords, NEW b \in Buffers
  PROVE  FW!Shl(FW!Binary(b), FW!Top)
           \cup (Pack(f) \cap (0 .. FW!Top - 1) \cap FW!Complement(FW!FieldMask(b)))
         = Pack(WithTarget(WithCount(f, b, 0), b))
<1>1. b \in 0 .. 14 /\ 0 \in 0 .. 15 /\ 15 \in 0 .. 15 /\ 15 \notin Buffers
  BY DEF Layout, Buffers, HostVariableAssumption
<1> DEFINE e == WithCount(f, b, 0)
           g == WithTarget(e, b)
           w == FW!Shl(FW!Binary(b), FW!Top)
                  \cup (Pack(f) \cap (0 .. FW!Top - 1) \cap FW!Complement(FW!FieldMask(b)))
<1>2. FW!Top = 60 /\ FW!Top = 15 * CountBits
  BY FourBits DEF FW!Top
<1>3. e \in FlagWords /\ g \in FlagWords
  BY <1>1, WithFieldOf DEF WithTarget, FlagWords
<1>4. w = FW!Shl(FW!Binary(b), FW!Top) \cup (Pack(e) \cap (0 .. 59))
  BY <1>2, LockOf
<1>5. FW!Binary(b) \in SUBSET (0 .. 3)
  BY <1>1, BinaryOf
<1>6. /\ FW!Shl(FW!Binary(b), FW!Top) \subseteq 0 .. 63
      /\ \A c \in 0 .. 15 : \A i \in 0 .. 3 :
           4 * c + i \in FW!Shl(FW!Binary(b), FW!Top) <=> c = 15 /\ i \in FW!Binary(b)
  BY <1>1, <1>2, <1>5, ShiftedUp
<1>7. w \subseteq 0 .. 63 /\ Pack(g) \subseteq 0 .. 63
  BY <1>1, <1>3, <1>4, <1>6, PackedField
<1>8. ASSUME NEW c \in 0 .. 15, NEW i \in 0 .. 3
      PROVE  4 * c + i \in w <=> 4 * c + i \in Pack(g)
  <2>1. Field(g, c) = IF c = 15 THEN b ELSE Field(e, c)
    BY DEF Field, WithTarget, WithCount
  <2>2. /\ 4 * c + i \in Pack(g) <=> i \in FW!Binary(Field(g, c))
        /\ 4 * c + i \in Pack(e) <=> i \in FW!Binary(Field(e, c))
    BY <1>3, PackedField
  <2>3. 4 * c + i \in 0 .. 59 <=> c # 15
    OBVIOUS
  <2> QED BY <1>4, <1>6, <2>1, <2>2, <2>3
<1>9. w = Pack(g)
  BY <1>7, <1>8, SameWord
<1> QED BY <1>9

\* The mask of free buffers.
LEMMA FreeMaskOf ==
  ASSUME Layout, HostVariableAssumption, NEW f \in FlagWords
  PROVE  FW!FreeMask(Pack(f)) = {4 * b : b \in FreeBuffers(f)}
<1>1. /\ f.target \in 0 .. 14 /\ Buffers \subseteq 0 .. 14 /\ LOCK_MAX = 15
      /\ Pack(f) \subseteq 0 .. 63 /\ 0 \in 0 .. 15
      /\ FreeBuffers(f) \subseteq Buffers
  <2>1. Pack(f) \subseteq 0 .. 63
    BY PackedField
  <2>2. f.target \in Buffers
    BY DEF FlagWords
  <2> QED BY <2>1, <2>2 DEF Layout, Buffers, HostVariableAssumption, FreeBuffers
<1> DEFINE any == UNION {FW!Shr(Pack(f), n) : n \in FW!Ones}
<1>2. FW!FreeMask(Pack(f)) = ((0 .. 63) \ (any \cup FW!FieldMask(f.target))) \cap {4 * b : b \in 0 .. 14}
  <2>1. FW!Bits = 0 .. 63 /\ CountBits = 4
    BY FourBits DEF FW!Bits
  <2>2. FW!Target(Pack(f)) = f.target
    BY TargetOf
  <2>3. FW!FreeMask(Pack(f)) = FW!Complement(any \cup FW!FieldMask(FW!Target(Pack(f))))
                                \cap {CountBits * b : b \in 0 .. 14}
    BY DEF FW!FreeMask
  <2> HIDE DEF any
  <2>4. FW!Complement(any \cup FW!FieldMask(f.target)) = (0 .. 63) \ (any \cup FW!FieldMask(f.target))
    BY <2>1 DEF FW!Complement
  <2> QED BY <2>1, <2>2, <2>3, <2>4
<1>3. ASSUME NEW b \in 0 .. 14
      PROVE  4 * b \in any <=> Field(f, b) # 0
  <2>1. ASSUME NEW n \in 0 .. 3
        PROVE  4 * b \in FW!Shr(Pack(f), n) <=> 4 * b + n \in Pack(f)
    <3>1. ASSUME NEW j \in {k \in Pack(f) : k >= n}, 4 * b = j - n
          PROVE  4 * b + n \in Pack(f)
      BY <1>1, <3>1
    <3>2. ASSUME 4 * b + n \in Pack(f)
          PROVE  4 * b + n \in {k \in Pack(f) : k >= n} /\ 4 * b = (4 * b + n) - n
      BY <3>2
    <3>3. FW!Shr(Pack(f), n) = {j - n : j \in {k \in Pack(f) : k >= n}}
      BY DEF FW!Shr
    <3> QED BY <3>1, <3>2, <3>3
  <2>2. FW!Ones = 0 .. 3
    BY FourBits DEF FW!Ones
  <2>3. 4 * b \in any <=> \E n \in 0 .. 3 : 4 * b + n \in Pack(f)
    BY <2>1, <2>2
  <2>4. 4 * b \in any <=> \E n \in 0 .. 3 : n \in FW!Binary(Field(f, b))
    BY <2>3, PackedField
  <2>5. (\E n \in 0 .. 3 : n \in FW!Binary(Field(f, b))) <=> Field(f, b) # 0
    <3>1. Field(f, b) \in 0 .. 15
      BY PackedField
    <3> DEFINE n == Field(f, b)
    <3>2. n # 0 => n % 2 = 1 \/ (n \div 2) % 2 = 1 \/ (n \div 4) % 2 = 1 \/ (n \div 8) % 2 = 1
      BY <3>1
    <3>3. n = 0 => n % 2 # 1 /\ (n \div 2) % 2 # 1 /\ (n \div 4) % 2 # 1 /\ (n \div 8) % 2 # 1
      BY <3>1
    <3> HIDE DEF n
    <3>4. n \in 0 .. 15
      BY <3>1 DEF n
    <3>5. (\E i \in 0 .. 3 : i \in FW!Binary(n)) <=> n # 0
      BY <3>2, <3>3, <3>4, BinaryOf
    <3> QED BY <3>5 DEF n
  <2> QED BY <2>4, <2>5
<1>4. ASSUME NEW b \in 0 .. 14
      PROVE  4 * b \in FW!FieldMask(f.target) <=> b = f.target
  <2>1. 4 * b + 0 \in FW!FieldMask(f.target) <=> b = f.target
    BY <1>1, MaskOf
  <2> QED BY <2>1
<1>5. ASSUME NEW b \in 0 .. 14
      PROVE  4 * b \in FW!FreeMask(Pack(f)) <=> b \in FreeBuffers(f)
  <2>1. 4 * b \in 0 .. 63
    OBVIOUS
  <2>2. Field(f, b) = 0 /\ b # f.target <=> b \in FreeBuffers(f)
    BY <1>1 DEF Field, FreeBuffers
  <2> QED BY <1>2, <1>3, <1>4, <2>1, <2>2
<1>6. FW!FreeMask(Pack(f)) \subseteq {4 * b : b \in 0 .. 14}
  BY <1>2
<1> QED BY <1>1, <1>5, <1>6

-----------------------------------------------------------------------------
(* The steps *)

\* The word that link_host_variable stores.
LEMMA InitPacked == ASSUME Layout, Init PROVE FW!Init
<1> DEFINE n == SHM_BUFFER_CNT
           w == FW!Shl(0 .. (15 - n) * CountBits - 1, n * CountBits)
<1>1. n \in 1 .. 15 /\ LOCK_MAX = 15 /\ FlagsInit \in FlagWords /\ flags = FlagsInit
  BY Constants, HostVariableAssumption DEF Layout, Init
<1> HIDE DEF n
<1>2. w = {i + 4 * n : i \in 0 .. (15 - n) * 4 - 1} \cap (0 .. 63)
  BY FourBits, <1>1 DEF FW!Shl, FW!Bits
<1>3. ASSUME NEW c \in 0 .. 15, NEW i \in 0 .. 3
      PROVE  4 * c + i \in w <=> c \in n .. 14
  <2>1. ASSUME NEW j \in 0 .. (15 - n) * 4 - 1, 4 * c + i = j + 4 * n
        PROVE  c \in n .. 14
    BY <1>1, <2>1
  <2>2. ASSUME c \in n .. 14
        PROVE  4 * c + i \in w
    <3>1. /\ 4 * c + i - 4 * n \in 0 .. (15 - n) * 4 - 1
          /\ 4 * c + i = (4 * c + i - 4 * n) + 4 * n /\ 4 * c + i \in 0 .. 63
      BY <1>1, <2>2
    <3> HIDE DEF w
    <3> QED BY <1>2, <3>1
  <2> HIDE DEF w
  <2> QED BY <1>2, <2>1, <2>2
<1>4. ASSUME NEW c \in 0 .. 15, NEW i \in 0 .. 3
      PROVE  4 * c + i \in Pack(FlagsInit) <=> c \in n .. 14
  <2>1. Field(FlagsInit, c) = IF c \in n .. 14 THEN 15 ELSE 0
    BY <1>1 DEF Field, FlagsInit, Buffers, n
  <2>2. i \in FW!Binary(15) /\ i \notin FW!Binary(0)
    BY BinaryOnesZero
  <2>3. 4 * c + i \in Pack(FlagsInit) <=> i \in FW!Binary(Field(FlagsInit, c))
    BY <1>1, PackedField, HostVariableAssumption
  <2> QED BY <2>1, <2>2, <2>3
<1>5. w \subseteq 0 .. 63 /\ Pack(FlagsInit) \subseteq 0 .. 63
  <2>1. Pack(FlagsInit) \subseteq 0 .. 63
    <3>1. 0 \in 0 .. 15
      OBVIOUS
    <3> QED BY <1>1, <3>1, PackedField, HostVariableAssumption
  <2> QED BY <1>2, <2>1
<1>6. w = Pack(FlagsInit)
  <2> HIDE DEF w
  <2> QED BY <1>3, <1>4, <1>5, SameWord
<1> QED BY <1>1, <1>6 DEF FW!Init, n

LEMMA FlagsTyped ==
  ASSUME Layout, IInv
  PROVE  /\ flags \in FlagWords /\ flags.target \in Buffers
         /\ Buffers \subseteq 0 .. 14
         /\ \A b \in Buffers : flags.count[b] \in 0 .. 15
<1>1. flags \in FlagWords
  BY DEF IInv, TypeOK
<1>2. Buffers \subseteq 0 .. 14
  BY HostVariableAssumption DEF Buffers, Layout
<1>3. flags.target \in Buffers /\ \A b \in Buffers : flags.count[b] \in 0 .. LOCK_MAX
  BY <1>1 DEF FlagWords
<1> QED BY <1>1, <1>2, <1>3 DEF Layout

\* A read acquires: the count of the target, which no writer has, goes up.
LEMMA AcquireReadPacked ==
  ASSUME Layout, IInv, NEW r \in Readers, ReadAcquire(r), flags' # flags
  PROVE  FW!AcquireRead
<1> DEFINE b == flags.target
           n == flags.count[b] + 1
<1>1. flags \in FlagWords /\ b \in Buffers /\ b \in 0 .. 14 /\ flags.count[b] \in 0 .. 15
  BY FlagsTyped
<1>2. n # 15 /\ flags' = WithCount(flags, b, n)
  BY DEF Layout, ReadAcquire, CasSucceeds, CasFails
<1>3. flags.count[b] < 15
  BY <1>1 DEF IInv, LockAccounting, ReadLocked, WriteLocked, Layout
<1>4. n \in 0 .. 15
  BY <1>1, <1>3
<1>5. FW!Target(Pack(flags)) = b /\ FW!Count(Pack(flags), b) = flags.count[b]
  <2>1. Field(flags, b) = flags.count[b]
    BY <1>1 DEF Field
  <2> QED BY <1>1, <2>1, TargetOf, CountOf, HostVariableAssumption
<1>6. FW!WithField(Pack(flags), b, n) = Pack(flags')
  <2> HIDE DEF n
  <2> QED BY <1>1, <1>2, <1>4, WithFieldOf, HostVariableAssumption
<1>7. 2^CountBits - 1 = 15
  BY FourBits
<1> QED BY <1>2, <1>5, <1>6, <1>7 DEF FW!AcquireRead

\* A read releases: its count is not zero.
LEMMA ReleaseReadPacked ==
  ASSUME Layout, IInv, NEW r \in Readers, ReadRelease(r), flags' # flags
  PROVE  \E b \in 0 .. SHM_BUFFER_CNT - 1 : FW!ReleaseRead(b)
<1> DEFINE b == slot[r]
           n == flags.count[b] - 1
<1>1. flags \in FlagWords /\ b \in Buffers /\ b \in 0 .. 14 /\ flags.count[b] \in 0 .. 15
  <2>1. b \in Buffers
    BY Constants DEF IInv, TypeOK
  <2> QED BY <2>1, FlagsTyped
<1>2. pc[r] = "r_release" /\ flags' = WithCount(flags, b, n)
  BY DEF ReadRelease, At, CasSucceeds, CasFails
<1>3. r \in ReadersOf(b) /\ flags.count[b] = Cardinality(ReadersOf(b))
  BY <1>1, <1>2 DEF IInv, LockAccounting, ReadLocked, WriteLocked, ReadersOf, Reading
<1>4. flags.count[b] # 0
  BY <1>3, ReadersFinite, FS_EmptySet
<1>5. n \in 0 .. 15
  BY <1>1, <1>4
<1>6. FW!Count(Pack(flags), b) = flags.count[b]
  <2>1. Field(flags, b) = flags.count[b]
    BY <1>1 DEF Field
  <2> QED BY <1>1, <2>1, CountOf, HostVariableAssumption
<1>7. FW!WithField(Pack(flags), b, n) = Pack(flags')
  <2> HIDE DEF n
  <2> QED BY <1>1, <1>2, <1>5, WithFieldOf, HostVariableAssumption
<1>8. FW!ReleaseRead(b)
  BY <1>6, <1>7 DEF FW!ReleaseRead
<1> QED BY <1>1, <1>8 DEF Buffers

\* A write takes the first free buffer there is.
LEMMA AcquireWritePacked ==
  ASSUME Layout, IInv, NEW w \in Writers, WriteAcquire(w), flags' # flags
  PROVE  FW!AcquireWrite
<1> DEFINE F == FreeBuffers(flags)
<1>1. flags \in FlagWords /\ F \subseteq Buffers /\ Buffers \subseteq 0 .. 14
  BY FlagsTyped DEF FreeBuffers
<1>2. PICK b \in F : (\A c \in F : b <= c) /\ flags' = WithCount(flags, b, LOCK_MAX)
  BY DEF WriteAcquire, CasSucceeds, CasFails
<1>3. FW!FreeMask(Pack(flags)) = {4 * c : c \in F}
  BY <1>1, FreeMaskOf, HostVariableAssumption
<1> HIDE DEF F
<1>4. FW!Min({4 * c : c \in F}) = 4 * b
  <2>1. 4 * b \in {4 * c : c \in F} /\ \A m \in {4 * c : c \in F} : 4 * b <= m
    BY <1>1, <1>2
  <2>2. ASSUME NEW x \in {4 * c : c \in F}, \A m \in {4 * c : c \in F} : x <= m
        PROVE  x = 4 * b
    BY <1>1, <1>2, <2>1, <2>2
  <2> QED BY <2>1, <2>2 DEF FW!Min
<1>5. Pack(flags) \cup FW!Shl(FW!Ones, 4 * b) = Pack(flags')
  BY <1>1, <1>2, LockOf, HostVariableAssumption
<1>6. FW!FreeMask(Pack(flags)) # {}
  BY <1>2, <1>3
<1> QED BY <1>3, <1>4, <1>5, <1>6 DEF FW!AcquireWrite

\* A write publishes its buffer or gives it back.
LEMMA WriteEndsPacked ==
  ASSUME Layout, IInv, NEW w \in Writers, WritePublish(w) \/ WriteDiscard(w), flags' # flags
  PROVE  \E b \in 0 .. SHM_BUFFER_CNT - 1 : FW!Publish(b) \/ FW!Discard(b)
<1> DEFINE b == slot[w]
<1>1. flags \in FlagWords /\ b \in Buffers
  BY Constants DEF IInv, TypeOK
<1>2. CASE WritePublish(w)
  <2>1. flags' = WithTarget(WithCount(flags, b, 0), b)
    BY <1>2 DEF WritePublish, CasSucceeds, CasFails
  <2>2. FW!Publish(b)
    BY <1>1, <2>1, PublishOf, HostVariableAssumption DEF FW!Publish
  <2> QED BY <1>1, <2>2 DEF Buffers
<1>3. CASE WriteDiscard(w)
  <2>1. flags' = WithCount(flags, b, 0)
    BY <1>3 DEF WriteDiscard
  <2>2. FW!Discard(b)
    BY <1>1, <2>1, LockOf, HostVariableAssumption DEF FW!Discard
  <2> QED BY <1>1, <2>2 DEF Buffers
<1> QED BY <1>2, <1>3

LEMMA StepPacked == ASSUME Layout, IInv, [Next]_vars, flags' # flags PROVE FW!Next
<1>1. CASE \E r \in Readers : ReadBegin(r) \/ ReadStep(r)
  <2>1. PICK r \in Readers : ReadAcquire(r) \/ ReadRelease(r)
    BY <1>1 DEF ReadStep, ReadBegin, ReadRefused, ReadCopy, ReadReload, shared
  <2> QED BY <2>1, AcquireReadPacked, ReleaseReadPacked DEF FW!Next
<1>2. CASE \E w \in Writers : WriteBegin(w) \/ WriteStep(w)
  <2>1. PICK w \in Writers : WriteAcquire(w) \/ WritePublish(w) \/ WriteDiscard(w)
    BY <1>2 DEF WriteStep, WriteBegin, WriteLoad, WriteRefused, WriteStamp, WriteCopy, WriteReload,
                WriteCheck, shared
  <2> QED BY <2>1, AcquireWritePacked, WriteEndsPacked DEF FW!Next
<1>3. CASE \E p \in Threads : Crash(p)
  BY <1>3 DEF Crash, shared
<1>4. CASE UNCHANGED vars
  BY <1>4 DEF vars
<1> QED BY <1>1, <1>2, <1>3, <1>4 DEF Next

\* With the four-bit counts of the code and up to fifteen buffers, every
\* change of the flags is the one its shifts and masks make of the word, so
\* that the records of HostVariable stand for what is in memory.
THEOREM FollowsPackedWord == ASSUME Layout PROVE Spec => PackedWord
<1>1. Init => FW!Init
  BY InitPacked
<1>2. IInv /\ [Next]_vars => [flags' # flags => FW!Next]_vars
  BY StepPacked
<1> QED BY <1>1, <1>2, Invariant, PTL DEF Spec, PackedWord
=============================================================================
