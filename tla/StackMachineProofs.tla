-------------------------- MODULE StackMachineProofs --------------------------
(***************************************************************************)
(* The compiled code implements the stack machine, for every word size,    *)
(* every size of the two arrays, every program and every call.             *)
(***************************************************************************)
EXTENDS RubyVMProofs, NaturalsInduction, WellFoundedInduction

\* The state of the stack machine, as RubyVM!Promised maps it.
Operands == [ i \in 1 .. stack_ptr |-> Denotes(stack[i - 1]) ]
Localvars == [ l \in LocalSlots |-> IF locals[l] = Undef THEN [t |-> "absent", n |-> 0]
                                                        ELSE Denotes(locals[l]) ]
Objects == [ r \in Refs |-> IF block # "op" /\ r = hash THEN Free ELSE View(heap[r]) ]
IvarsOf == [ x \in Ivars |-> Denotes(ivars[x]) ]
Status == IF status \in {"overrun", "wild"} THEN "undefined" ELSE status

-----------------------------------------------------------------------------
(* StackMachine and RubyVM extend the same modules.                        *)

LEMMA SameWords ==
    /\ Promised!FixRange = FixRange /\ Promised!RubyFixnums = RubyFixnums
    /\ Promised!RubyValues = RubyValues
    /\ \A n : Promised!Fix(n) = Fix(n) /\ Promised!Obj(n) = Obj(n)
    /\ \A w : Promised!Denotes(w) = Denotes(w)
    /\ Promised!Nil = Obj(4) /\ Promised!False = Obj(0) /\ Promised!True = Obj(2)
  BY DEF Promised!FixRange, FixRange, Promised!RubyFixnums, RubyFixnums, Promised!RubyValues, RubyValues,
     Promised!Fix, Fix, Promised!Obj, Obj, Promised!Denotes, Denotes, Promised!isFixnum, isFixnum,
     Promised!Word, Word, Promised!WordMod, WordMod, Promised!Nil, Promised!False, Promised!True,
     Promised!Qnil, Promised!Qfalse, Promised!Qtrue

LEMMA SameViews == \A o : Promised!View(o) = View(o)
  BY SameWords DEF Promised!View, View

LEMMA SameShapes ==
    /\ \A i : Promised!reads(i) = reads(i) /\ Promised!pops(i) = pops(i) /\ Promised!pushes(i) = pushes(i)
    /\ \A c, i : Promised!target(c, i) = target(c, i)
    /\ \A p : Promised!IsProgram(p) = IsProgram(p)
<1>1. Promised!Shape = Shape /\ Promised!Ops = Ops
  BY DEF Promised!Shape, Shape, Promised!Ops, Ops
<1>2. \A c, i : Promised!target(c, i) = target(c, i)
  BY DEF Promised!target, target
<1>3. Promised!Instr = Instr /\ Promised!Branches = Branches
  BY <1>1 DEF Promised!Instr, Instr, Promised!Branches, Branches
<1>4. \A i : Promised!reads(i) = reads(i) /\ Promised!pops(i) = pops(i) /\ Promised!pushes(i) = pushes(i)
  BY <1>1 DEF Promised!reads, reads, Promised!pops, pops, Promised!pushes, pushes
<1>5. \A p : Promised!IsProgram(p) = IsProgram(p)
  BY <1>2, <1>3 DEF Promised!IsProgram, IsProgram
<1> QED  BY <1>2, <1>4, <1>5

LEMMA Mapped ==
    /\ \A n : Promised!top(n) = Operands[Len(Operands) - n + 1]
    /\ \A n : Promised!rest(n) = SubSeq(Operands, 1, Len(Operands) - n)
    /\ \A n : Promised!last(n) = SubSeq(Operands, Len(Operands) - n + 1, Len(Operands))
    /\ Promised!ins = code[pc + 1]
    /\ \A op : Promised!Fetched(op) <=> Status = "running" /\ pc < Len(code) /\ code[pc + 1].op = op
    /\ Promised!still <=> UNCHANGED <<program, self, farg, Status, Denotes(result)>>
    /\ Promised!pure <=> UNCHANGED <<Localvars, Objects, IvarsOf>>
  BY DEF Promised!top, Promised!rest, Promised!last, Promised!ins, Promised!Fetched, Promised!still,
     Promised!pure, Operands, Localvars, Objects, IvarsOf, Status, code

-----------------------------------------------------------------------------
(* Arithmetic modulo the words.                                            *)

LEMMA Divides ==
    ASSUME NEW d \in Nat, d > 0, NEW n \in Int
    PROVE  /\ n = d * (n \div d) + (n % d) /\ n \div d \in Int /\ n % d \in 0 .. d - 1
  OBVIOUS

LEMMA Remainder ==
    ASSUME NEW d \in Nat, d > 0, NEW q \in Int, NEW r \in 0 .. d - 1
    PROVE  (d * q + r) % d = r
<1>1. PICK n \in Int : n = d * q + r
  OBVIOUS
<1>2. PICK p \in Int, s \in 0 .. d - 1 : p = n \div d /\ s = n % d /\ n = d * p + s
  BY <1>1, Divides
<1>3. d * (q - p) = s - r
  BY <1>1, <1>2
<1>4. q - p = 0
  <2>1. CASE q - p >= 1
    <3>1. d * (q - p) >= d
      BY <2>1
    <3> QED  BY <1>2, <1>3, <3>1
  <2>2. CASE q - p <= -1
    <3>1. d * (q - p) <= -d
      BY <2>2
    <3> QED  BY <1>2, <1>3, <3>1
  <2> QED  BY <2>1, <2>2
<1> QED  BY <1>1, <1>2, <1>3, <1>4

\* What a remainder of a division by 2^(w-1) is as a signed integer.
Signed(z) == IF z < FixLimit THEN z ELSE z - 2 * FixLimit

\* What a word denotes: Fixnums lose their tag and keep their value.
LEMMA WordDenotes ==
    ASSUME NEW w \in Word
    PROVE  /\ isFixnum(w) => /\ Denotes(w) = Fix(Signed(fix2int(w))) /\ w = 2 * fix2int(w) + 1
                             /\ fix2int(w) \in 0 .. 2 * FixLimit - 1
           /\ ~isFixnum(w) => Denotes(w) = Obj(w)
<1>1. w \in Int /\ 0 <= w /\ w < 4 * FixLimit /\ FixLimit \in Nat /\ FixLimit >= 2
  BY FixLimitAssumption DEF Word, WordMod
<1>2. ASSUME w % 2 = 1
      PROVE  /\ w = 2 * (w \div 2) + 1 /\ w \div 2 \in 0 .. 2 * FixLimit - 1
             /\ w < 2 * FixLimit <=> w \div 2 < FixLimit
  BY <1>1, <1>2
<1> QED  BY <1>1, <1>2 DEF Denotes, isFixnum, fix2int, Signed

LEMMA SignedRange ==
    ASSUME NEW z \in 0 .. 2 * FixLimit - 1
    PROVE  /\ Signed(z) \in FixRange /\ Signed(z) \in Int
           /\ \E i \in {0, 1} : z = Signed(z) + (2 * FixLimit) * i
           /\ Signed(z) >= 0 <=> Signed(z) = z
           /\ Signed(z) < 0 => z >= FixLimit
  BY FixLimitAssumption DEF Signed, FixRange

\* Different words denote different values.
LEMMA DenotesApart ==
    ASSUME NEW v \in Word, NEW w \in Word, Denotes(v) = Denotes(w)
    PROVE  v = w
<1>1. Denotes(v).t = Denotes(w).t /\ Denotes(v).n = Denotes(w).n
  OBVIOUS
<1>2. isFixnum(v) <=> isFixnum(w)
  BY <1>1, WordDenotes DEF Fix, Obj
<1>3. CASE isFixnum(v)
  <2>1. Signed(fix2int(v)) = Signed(fix2int(w))
    BY <1>1, <1>2, <1>3, WordDenotes DEF Fix
  <2>2. fix2int(v) \in 0 .. 2 * FixLimit - 1 /\ fix2int(w) \in 0 .. 2 * FixLimit - 1
    BY <1>2, <1>3, WordDenotes
  <2>3. fix2int(v) = fix2int(w)
    BY <2>1, <2>2, FixLimitAssumption DEF Signed
  <2>4. v = 2 * fix2int(v) + 1 /\ w = 2 * fix2int(w) + 1
    BY <1>2, <1>3, WordDenotes
  <2> QED  BY <2>3, <2>4
<1>4. CASE ~isFixnum(v)
  BY <1>1, <1>2, <1>4, WordDenotes DEF Obj
<1> QED  BY <1>3, <1>4

\* num2fix loses what does not fit the Fixnums.
LEMMA Retagged ==
    ASSUME NEW v \in Int
    PROVE  /\ num2fix(v) \in Word /\ v % (2 * FixLimit) \in 0 .. 2 * FixLimit - 1
           /\ Denotes(num2fix(v)) = Fix(Signed(v % (2 * FixLimit)))
<1>1. PICK d \in Nat : d = 2 * FixLimit /\ d > 0 /\ WordMod = 2 * d
  BY FixLimitAssumption DEF WordMod
<1>2. PICK q \in Int, r \in 0 .. d - 1 : v = d * q + r /\ r = v % d
  <2>1. v = d * (v \div d) + (v % d) /\ v \div d \in Int /\ v % d \in 0 .. d - 1
    BY <1>1, Divides
  <2> QED  BY <2>1
<1>3. PICK s \in Int : s = 2 * r
  OBVIOUS
<1>4. s \in 0 .. WordMod - 1
  <2>1. r \in Int /\ 0 <= r /\ r <= d - 1
    BY <1>1
  <2> QED  BY <1>1, <1>3, <2>1
<1>5. v * 2 = WordMod * q + s
  <2>1. d * q \in Int /\ v * 2 = 2 * (d * q) + s /\ (2 * d) * q = 2 * (d * q)
    BY <1>1, <1>2, <1>3
  <2> QED  BY <1>1, <2>1
<1>a. WordMod \in Nat /\ WordMod > 0
  BY <1>1
<1>6. (v * 2) % WordMod = s
  BY <1>a, <1>4, <1>5, Remainder
<1>7. s % 2 = 0 /\ (s + 1) % 2 = 1 /\ (s + 1) \div 2 = r
  BY <1>3
<1>8. num2fix(v) = s + 1
  BY <1>6, <1>7 DEF num2fix, mul, xorFlag
<1>9. num2fix(v) \in Word /\ isFixnum(num2fix(v)) /\ fix2int(num2fix(v)) = r
  <2>1. s + 1 \in 0 .. WordMod - 1
    <3>1. r \in Int /\ 0 <= r /\ r <= d - 1
      BY <1>1
    <3> QED  BY <1>1, <1>3, <3>1
  <2> QED  BY <1>7, <1>8, <2>1 DEF Word, isFixnum, fix2int
<1>10. v % (2 * FixLimit) = r /\ r \in 0 .. 2 * FixLimit - 1
  <2>1. v % d = r
    BY <1>2
  <2> QED  BY <1>1, <2>1
<1> QED  BY <1>9, <1>10, WordDenotes

\* A result that is congruent to a Fixnum is that Fixnum.
LEMMA Congruent ==
    ASSUME NEW n \in FixRange, NEW q \in Int, NEW v \in Int, v = n + (2 * FixLimit) * q
    PROVE  Denotes(num2fix(v)) = Fix(n)
<1>1. PICK d \in Nat : d = 2 * FixLimit /\ d > 0
  BY FixLimitAssumption
<1>2. CASE n >= 0
  <2>1. n \in 0 .. d - 1 /\ v = d * q + n
    BY <1>1, <1>2, FixLimitAssumption DEF FixRange
  <2>2. v % d = n
    BY <1>1, <2>1, Remainder
  <2>3. Signed(n) = n
    BY <1>2, FixLimitAssumption DEF Signed, FixRange
  <2> QED  BY <1>1, <2>2, <2>3, Retagged
<1>3. CASE n < 0
  <2>0. n + d \in 0 .. d - 1 /\ n \in Int
    BY <1>1, <1>3, FixLimitAssumption DEF FixRange
  <2>1. v = d * (q - 1) + (n + d) /\ q - 1 \in Int
    <3>1. d * q \in Int /\ d * (q - 1) = d * q - d /\ v = n + d * q
      BY <1>1
    <3> QED  BY <1>1, <2>0, <3>1
  <2>2. v % d = n + d
    BY <1>1, <2>0, <2>1, Remainder
  <2>3. Signed(n + d) = n
    BY <1>1, <1>3, FixLimitAssumption DEF Signed, FixRange
  <2> QED  BY <1>1, <2>2, <2>3, Retagged
<1> QED  BY <1>2, <1>3 DEF FixRange

LEMMA Reduced ==
    ASSUME NEW v \in Int
    PROVE  \E p \in Int : v % WordMod = v - (2 * FixLimit) * p /\ v % WordMod \in Int
<1>1. WordMod \in Nat /\ WordMod > 0 /\ WordMod = (2 * FixLimit) * 2
  BY FixLimitAssumption DEF WordMod
<1>2. v = WordMod * (v \div WordMod) + (v % WordMod) /\ v \div WordMod \in Int /\ v % WordMod \in Int
  <2>1. WordMod \in Nat /\ WordMod > 0
    BY <1>1
  <2> QED  BY <2>1, Divides
<1>3. PICK p \in Int, m \in Int : v = WordMod * p + m /\ m = v % WordMod
  BY <1>2
<1>4. WordMod * p = (2 * FixLimit) * (2 * p)
  BY <1>1, FixLimitAssumption
<1>5. (2 * FixLimit) * (2 * p) \in Int /\ 2 * p \in Int
  BY FixLimitAssumption
<1>6. m = v - (2 * FixLimit) * (2 * p)
  BY <1>3, <1>4, <1>5
<1> QED  BY <1>3, <1>5, <1>6

\* The remainder and the double remainder of a congruent number.
LEMMA ReducedResult ==
    ASSUME NEW n \in FixRange, NEW q \in Int, NEW v \in Int, v = n + (2 * FixLimit) * q
    PROVE  Denotes(num2fix(v % WordMod)) = Fix(n)
<1>1. PICK p \in Int, m \in Int : m = v % WordMod /\ m = v - (2 * FixLimit) * p
  BY Reduced
<1>2. PICK d \in Int : d = 2 * FixLimit
  BY FixLimitAssumption
<1>3. m = n + d * (q - p)
  <2>1. n \in Int /\ d * (q - p) = d * q - d * p /\ d * q \in Int /\ d * p \in Int
    BY <1>2, FixLimitAssumption DEF FixRange
  <2> QED  BY <1>1, <1>2, <2>1
<1>4. m = n + (2 * FixLimit) * (q - p) /\ q - p \in Int
  BY <1>2, <1>3
<1> QED  BY <1>1, <1>4, Congruent

\* Operands that are Fixnums, and what they are untagged.
LEMMA FixOperands ==
    ASSUME NEW v \in Word, NEW w \in Word, Promised!AreFix(Denotes(v), Denotes(w))
    PROVE  \E i \in Int, j \in Int :
               /\ Denotes(v).n \in Int /\ Denotes(w).n \in Int
               /\ fix2int(v) = Denotes(v).n + (2 * FixLimit) * i
               /\ fix2int(w) = Denotes(w).n + (2 * FixLimit) * j
<1>1. isFixnum(v) /\ isFixnum(w)
  BY WordDenotes DEF Promised!AreFix, Obj
<1>2. Denotes(v).n = Signed(fix2int(v)) /\ Denotes(w).n = Signed(fix2int(w))
  BY <1>1, WordDenotes DEF Fix
<1>3. fix2int(v) \in 0 .. 2 * FixLimit - 1 /\ fix2int(w) \in 0 .. 2 * FixLimit - 1
  BY <1>1, WordDenotes
<1>4. PICK i \in {0, 1} : fix2int(v) = Denotes(v).n + (2 * FixLimit) * i
  BY <1>2, <1>3, SignedRange
<1>5. PICK j \in {0, 1} : fix2int(w) = Denotes(w).n + (2 * FixLimit) * j
  BY <1>2, <1>3, SignedRange
<1>6. Denotes(v).n \in Int /\ Denotes(w).n \in Int
  BY <1>2, <1>3, SignedRange
<1> QED  BY <1>4, <1>5, <1>6

\* What an operation gives where the promise leaves the result open.
LEMMA SomeFixnum ==
    ASSUME NEW v \in Int
    PROVE  Denotes(num2fix(v)) \in RubyFixnums
  BY Retagged, SignedRange DEF RubyFixnums

LEMMA FixResult ==
    ASSUME NEW v \in Word, NEW w \in Word, NEW m \in Int, NEW n,
           Promised!AreFix(Denotes(v), Denotes(w)) => \E q \in Int : m = n + (2 * FixLimit) * q
    PROVE  Denotes(num2fix(m % WordMod)) \in Promised!IntResults(Denotes(v), Denotes(w), n)
<1>1. CASE Promised!AreFix(Denotes(v), Denotes(w)) /\ n \in FixRange
  <2>1. PICK q \in Int : m = n + (2 * FixLimit) * q
    BY <1>1
  <2>2. Denotes(num2fix(m % WordMod)) = Fix(n)
    BY <1>1, <2>1, ReducedResult
  <2> QED  BY <1>1, <2>2, SameWords DEF Promised!IntResults
<1>2. CASE ~(Promised!AreFix(Denotes(v), Denotes(w)) /\ n \in FixRange)
  <2>1. m % WordMod \in Int
    BY Reduced
  <2>2. Denotes(num2fix(m % WordMod)) \in RubyFixnums
    BY <2>1, SomeFixnum
  <2> QED  BY <1>2, <2>2, SameWords DEF Promised!IntResults
<1> QED  BY <1>1, <1>2

\* add, sub and mul on untagged words, tagged again, are the operations on
\* integers, as far as the result is a Fixnum.
LEMMA Arithmetic ==
    ASSUME NEW v \in Word, NEW w \in Word
    PROVE  /\ Denotes(num2fix(add(fix2int(w), fix2int(v))))
                  \in Promised!IntResults(Denotes(v), Denotes(w), Denotes(v).n + Denotes(w).n)
           /\ Denotes(num2fix(sub(fix2int(v), fix2int(w))))
                  \in Promised!IntResults(Denotes(v), Denotes(w), Denotes(v).n - Denotes(w).n)
           /\ Denotes(num2fix(mul(fix2int(w), fix2int(v))))
                  \in Promised!IntResults(Denotes(v), Denotes(w), Denotes(v).n * Denotes(w).n)
<1>1. PICK x \in Int, y \in Int : x = fix2int(v) /\ y = fix2int(w)
  BY Tagging
<1>2. PICK a, b : a = Denotes(v).n /\ b = Denotes(w).n
  OBVIOUS
<1>3. PICK d \in Int : d = 2 * FixLimit
  BY FixLimitAssumption
<1>4. ASSUME NEW i \in Int, NEW j \in Int, a \in Int, b \in Int, x = a + d * i, y = b + d * j
      PROVE  /\ \E q \in Int : y + x = (a + b) + d * q
             /\ \E q \in Int : x - y = (a - b) + d * q
             /\ \E q \in Int : y * x = a * b + d * q
  <2>1. d * (i + j) = d * i + d * j /\ d * (i - j) = d * i - d * j
    OBVIOUS
  <2>2. d * i \in Int /\ d * j \in Int /\ i + j \in Int /\ i - j \in Int
    OBVIOUS
  <2>3. y + x = (a + b) + d * (i + j) /\ x - y = (a - b) + d * (i - j)
    BY <1>4, <2>1, <2>2
  <2>4. y * x = a * b + d * ((a * j + b * i) + d * (i * j))
    BY <1>4
  <2>5. (a * j + b * i) + d * (i * j) \in Int
    BY <1>4
  <2> QED  BY <2>2, <2>3, <2>4, <2>5
<1>5. ASSUME Promised!AreFix(Denotes(v), Denotes(w))
      PROVE  /\ \E q \in Int : y + x = (a + b) + d * q
             /\ \E q \in Int : x - y = (a - b) + d * q
             /\ \E q \in Int : y * x = a * b + d * q
  <2>1. PICK i \in Int, j \in Int : /\ a \in Int /\ b \in Int
                                    /\ x = a + d * i /\ y = b + d * j
    BY <1>1, <1>2, <1>3, <1>5, FixOperands
  <2> QED  BY <1>4, <2>1
<1>6. Denotes(num2fix((y + x) % WordMod)) \in Promised!IntResults(Denotes(v), Denotes(w), a + b)
  <2>1. PICK m, n : m = y + x /\ n = a + b
    OBVIOUS
  <2>2. m \in Int
    BY <2>1
  <2>3. Promised!AreFix(Denotes(v), Denotes(w)) => \E q \in Int : m = n + (2 * FixLimit) * q
    BY <1>3, <1>5, <2>1
  <2>4. Denotes(num2fix(m % WordMod)) \in Promised!IntResults(Denotes(v), Denotes(w), n)
    BY <2>2, <2>3, FixResult
  <2> QED  BY <2>1, <2>4
<1>7. Denotes(num2fix((x - y) % WordMod)) \in Promised!IntResults(Denotes(v), Denotes(w), a - b)
  <2>1. PICK m, n : m = x - y /\ n = a - b
    OBVIOUS
  <2>2. m \in Int
    BY <2>1
  <2>3. Promised!AreFix(Denotes(v), Denotes(w)) => \E q \in Int : m = n + (2 * FixLimit) * q
    BY <1>3, <1>5, <2>1
  <2>4. Denotes(num2fix(m % WordMod)) \in Promised!IntResults(Denotes(v), Denotes(w), n)
    BY <2>2, <2>3, FixResult
  <2> QED  BY <2>1, <2>4
<1>8. Denotes(num2fix((y * x) % WordMod)) \in Promised!IntResults(Denotes(v), Denotes(w), a * b)
  <2>1. PICK m, n : m = y * x /\ n = a * b
    OBVIOUS
  <2>2. m \in Int
    BY <2>1
  <2>3. Promised!AreFix(Denotes(v), Denotes(w)) => \E q \in Int : m = n + (2 * FixLimit) * q
    BY <1>3, <1>5, <2>1
  <2>4. Denotes(num2fix(m % WordMod)) \in Promised!IntResults(Denotes(v), Denotes(w), n)
    BY <2>2, <2>3, FixResult
  <2> QED  BY <2>1, <2>4
<1> QED  BY <1>1, <1>2, <1>6, <1>7, <1>8 DEF add, sub, mul

\* The comparisons order the integers that are not negative.
LEMMA Comparison ==
    ASSUME NEW v \in Word, NEW w \in Word
    PROVE  /\ Denotes(boolWord(icmp_slt(fix2int(v), fix2int(w))))
                  \in Promised!CompareResults(Denotes(v), Denotes(w), Denotes(v).n < Denotes(w).n)
           /\ Denotes(boolWord(icmp_sgt(fix2int(v), fix2int(w))))
                  \in Promised!CompareResults(Denotes(v), Denotes(w), Denotes(v).n > Denotes(w).n)
           /\ Denotes(boolWord(icmp_sge(fix2int(v), fix2int(w))))
                  \in Promised!CompareResults(Denotes(v), Denotes(w), Denotes(v).n >= Denotes(w).n)
<1>1. \A u \in Word : fix2int(u) \in Int /\ signed(fix2int(u)) = fix2int(u)
  BY FixLimitAssumption DEF Word, WordMod, signed, fix2int
<1>2. boolWord(TRUE) = 2 /\ boolWord(FALSE) = 0
  <2>1. WordMod \in Nat /\ WordMod >= 8
    BY FixLimitAssumption DEF WordMod
  <2>2. 2 % WordMod = 2 /\ 0 % WordMod = 0
    BY <2>1
  <2>3. (1 * 2) % WordMod = 2 /\ (0 * 2) % WordMod = 0
    BY <2>2
  <2> QED  BY <2>3 DEF boolWord, mul
<1>3. Denotes(0) = Obj(0) /\ Denotes(2) = Obj(2)
  BY DEF Denotes, isFixnum
<1>4. ASSUME NEW c \in BOOLEAN, NEW e \in BOOLEAN,
             Promised!AreFix(Denotes(v), Denotes(w)) /\ Denotes(v).n >= 0 /\ Denotes(w).n >= 0 => (c <=> e)
      PROVE  Denotes(boolWord(c)) \in Promised!CompareResults(Denotes(v), Denotes(w), e)
  BY <1>2, <1>3, <1>4, SameWords DEF Promised!CompareResults, Promised!Truth
<1>5. ASSUME Promised!AreFix(Denotes(v), Denotes(w)), Denotes(v).n >= 0, Denotes(w).n >= 0
      PROVE  Denotes(v).n = fix2int(v) /\ Denotes(w).n = fix2int(w)
  <2>1. isFixnum(v) /\ isFixnum(w)
    BY <1>5, WordDenotes DEF Promised!AreFix, Obj
  <2>2. Denotes(v).n = Signed(fix2int(v)) /\ Denotes(w).n = Signed(fix2int(w))
    BY <2>1, WordDenotes DEF Fix
  <2>3. fix2int(v) \in 0 .. 2 * FixLimit - 1 /\ fix2int(w) \in 0 .. 2 * FixLimit - 1
    BY <2>1, WordDenotes
  <2> QED  BY <1>5, <2>2, <2>3, SignedRange
<1>6. Denotes(boolWord(icmp_slt(fix2int(v), fix2int(w))))
          \in Promised!CompareResults(Denotes(v), Denotes(w), Denotes(v).n < Denotes(w).n)
  <2>1. PICK c \in BOOLEAN : c <=> icmp_slt(fix2int(v), fix2int(w))
    OBVIOUS
  <2>2. PICK e \in BOOLEAN : e <=> Denotes(v).n < Denotes(w).n
    OBVIOUS
  <2>3. Promised!AreFix(Denotes(v), Denotes(w)) /\ Denotes(v).n >= 0 /\ Denotes(w).n >= 0 => (c <=> e)
    BY <1>1, <1>5, <2>1, <2>2 DEF icmp_slt
  <2>4. Denotes(boolWord(c)) \in Promised!CompareResults(Denotes(v), Denotes(w), e)
    BY <1>4, <2>3
  <2> QED  BY <2>1, <2>2, <2>4 DEF boolWord, Promised!CompareResults, Promised!Truth
<1>7. Denotes(boolWord(icmp_sgt(fix2int(v), fix2int(w))))
          \in Promised!CompareResults(Denotes(v), Denotes(w), Denotes(v).n > Denotes(w).n)
  <2>1. PICK c \in BOOLEAN : c <=> icmp_sgt(fix2int(v), fix2int(w))
    OBVIOUS
  <2>2. PICK e \in BOOLEAN : e <=> Denotes(v).n > Denotes(w).n
    OBVIOUS
  <2>3. Promised!AreFix(Denotes(v), Denotes(w)) /\ Denotes(v).n >= 0 /\ Denotes(w).n >= 0 => (c <=> e)
    BY <1>1, <1>5, <2>1, <2>2 DEF icmp_sgt
  <2>4. Denotes(boolWord(c)) \in Promised!CompareResults(Denotes(v), Denotes(w), e)
    BY <1>4, <2>3
  <2> QED  BY <2>1, <2>2, <2>4 DEF boolWord, Promised!CompareResults, Promised!Truth
<1>8. Denotes(boolWord(icmp_sge(fix2int(v), fix2int(w))))
          \in Promised!CompareResults(Denotes(v), Denotes(w), Denotes(v).n >= Denotes(w).n)
  <2>1. PICK c \in BOOLEAN : c <=> icmp_sge(fix2int(v), fix2int(w))
    OBVIOUS
  <2>2. PICK e \in BOOLEAN : e <=> Denotes(v).n >= Denotes(w).n
    OBVIOUS
  <2>3. Promised!AreFix(Denotes(v), Denotes(w)) /\ Denotes(v).n >= 0 /\ Denotes(w).n >= 0 => (c <=> e)
    BY <1>1, <1>5, <2>1, <2>2 DEF icmp_sge
  <2>4. Denotes(boolWord(c)) \in Promised!CompareResults(Denotes(v), Denotes(w), e)
    BY <1>4, <2>3
  <2> QED  BY <2>1, <2>2, <2>4 DEF boolWord, Promised!CompareResults, Promised!Truth
<1> QED  BY <1>6, <1>7, <1>8

-----------------------------------------------------------------------------
(* The operand stack.                                                      *)

LEMMA OperandStack ==
    ASSUME Inv
    PROVE  /\ stack_ptr \in Nat /\ stack_ptr <= StackSize /\ Len(Operands) = stack_ptr
           /\ \A n \in 1 .. stack_ptr : Promised!top(n) = Denotes(peek(n)) /\ peek(n) \in Word
<1>1. stack_ptr \in Nat /\ stack_ptr <= StackSize
  BY SizeAssumption DEF Inv, TypeOK
<1>2. Len(Operands) = stack_ptr
  BY <1>1 DEF Operands
<1>3. ASSUME NEW n \in 1 .. stack_ptr
      PROVE  Promised!top(n) = Denotes(peek(n)) /\ peek(n) \in Word
  <2>1. stack_ptr - n + 1 \in 1 .. stack_ptr /\ (stack_ptr - n + 1) - 1 = stack_ptr - n
    BY <1>1
  <2>2. Operands[stack_ptr - n + 1] = Denotes(stack[stack_ptr - n])
    BY <2>1 DEF Operands
  <2>3. peek(n) \in Word
    BY <1>1, PeekWord
  <2> QED  BY <1>2, <2>2, <2>3, Mapped DEF peek
<1> QED  BY <1>1, <1>2, <1>3

\* popPush takes the top operands and puts the values of words in their place.
LEMMA Replaced ==
    ASSUME Inv, NEW k \in Nat, NEW vals \in Seq(Word), popPush(k, vals),
           k <= stack_ptr, stack_ptr - k + Len(vals) <= StackSize
    PROVE  Operands' = Promised!rest(k) \o [i \in 1 .. Len(vals) |-> Denotes(vals[i])]
<1>1. PICK m \in Nat, l \in Nat : m = stack_ptr - k /\ l = Len(vals) /\ m + l <= StackSize
  BY OperandStack
<1>2. stack_ptr' = m + l
  BY <1>1 DEF popPush
<1>3. stack' = [s \in Slots |-> IF s \in m .. m + l - 1 THEN vals[s - m + 1] ELSE stack[s]]
  BY <1>1 DEF popPush
<1>4. ASSUME NEW i \in 1 .. m PROVE stack'[i - 1] = stack[i - 1]
  <2>1. i - 1 \in Slots /\ i - 1 \notin m .. m + l - 1
    BY <1>1, SizeAssumption DEF Slots
  <2> QED  BY <1>3, <2>1
<1>5. ASSUME NEW i \in 1 .. l PROVE stack'[m + i - 1] = vals[i]
  <2>1. m + i - 1 \in Slots /\ m + i - 1 \in m .. m + l - 1 /\ (m + i - 1) - m + 1 = i
    BY <1>1, SizeAssumption DEF Slots
  <2> QED  BY <1>3, <2>1
<1>6. Operands' = [i \in 1 .. m + l |-> Denotes(stack'[i - 1])]
  BY <1>2 DEF Operands
<1>7. Promised!rest(k) = [i \in 1 .. m |-> Denotes(stack[i - 1])]
  <2>1. Promised!rest(k) = SubSeq(Operands, 1, m)
    BY <1>1, OperandStack, Mapped
  <2>2. \A i \in 1 .. m : i \in 1 .. stack_ptr
    BY <1>1, OperandStack
  <2>3. \A i \in 1 .. m : Operands[i] = Denotes(stack[i - 1])
    BY <2>2 DEF Operands
  <2>4. SubSeq(Operands, 1, m) = [i \in 1 .. m |-> Operands[i]]
    BY <1>1, <2>2, OperandStack
  <2> QED  BY <2>1, <2>3, <2>4
<1>8. PICK p, q : p = Promised!rest(k) /\ q = [i \in 1 .. l |-> Denotes(vals[i])]
  OBVIOUS
<1>9. PICK V : V = { Denotes(stack[i - 1]) : i \in 1 .. m } \cup { Denotes(vals[i]) : i \in 1 .. l }
  OBVIOUS
<1>10. p \in Seq(V) /\ Len(p) = m /\ q \in Seq(V) /\ Len(q) = l
  BY <1>7, <1>8, <1>9
<1>11. /\ DOMAIN (p \o q) = 1 .. m + l
       /\ \A i \in 1 .. m : (p \o q)[i] = p[i]
       /\ \A i \in 1 .. l : (p \o q)[m + i] = q[i]
       /\ p \o q = [i \in 1 .. m + l |-> (p \o q)[i]]
  <2>1. p \o q \in Seq(V) /\ Len(p \o q) = m + l
    BY <1>10
  <2>2. DOMAIN (p \o q) = 1 .. m + l /\ p \o q = [i \in 1 .. m + l |-> (p \o q)[i]]
    <3>1. PICK s : s = p \o q
      OBVIOUS
    <3>2. s \in [1 .. m + l -> V]
      <4>1. s \in Seq(V) /\ Len(s) = m + l
        BY <2>1, <3>1
      <4> QED  BY <4>1
    <3>3. DOMAIN s = 1 .. m + l /\ s = [i \in 1 .. m + l |-> s[i]]
      BY <3>2
    <3> QED  BY <3>1, <3>3
  <2>3. \A i \in 1 .. m : (p \o q)[i] = p[i]
    BY <1>10
  <2>4. ASSUME NEW i \in 1 .. l PROVE (p \o q)[m + i] = q[i]
    <3>1. m + i \in m + 1 .. m + l /\ (m + i) - m = i
      OBVIOUS
    <3> QED  BY <1>10, <3>1
  <2> QED  BY <2>2, <2>3, <2>4
<1>12. ASSUME NEW i \in 1 .. m + l PROVE Denotes(stack'[i - 1]) = (p \o q)[i]
  <2>1. CASE i \in 1 .. m
    BY <1>4, <1>7, <1>8, <1>11, <2>1
  <2>2. CASE i \notin 1 .. m
    <3>1. PICK j \in 1 .. l : i = m + j
      BY <2>2
    <3>2. stack'[m + j - 1] = vals[j] /\ (p \o q)[m + j] = q[j]
      BY <1>5, <1>11
    <3>3. m + j - 1 = i - 1 /\ m + j = i
      BY <3>1
    <3>4. stack'[i - 1] = vals[j] /\ (p \o q)[i] = q[j]
      BY <3>2, <3>3
    <3>5. q[j] = Denotes(vals[j])
      BY <1>8
    <3> QED  BY <3>4, <3>5
  <2> QED  BY <2>1, <2>2
<1> QED  BY <1>1, <1>6, <1>8, <1>11, <1>12

\* The three ways the opcodes use it.
LEMMA ReplacedBy ==
    ASSUME Inv, NEW k \in Nat, k <= stack_ptr
    PROVE  /\ popPush(k, <<>>) => Operands' = Promised!rest(k) \o <<>>
           /\ \A w \in Word : popPush(k, <<w>>) /\ stack_ptr - k + 1 <= StackSize =>
                  Operands' = Promised!rest(k) \o <<Denotes(w)>>
           /\ \A v, w \in Word : popPush(k, <<v, w>>) /\ stack_ptr - k + 2 <= StackSize =>
                  Operands' = Promised!rest(k) \o <<Denotes(v), Denotes(w)>>
<1>1. ASSUME popPush(k, <<>>) PROVE Operands' = Promised!rest(k) \o <<>>
  <2>1. <<>> \in Seq(Word) /\ Len(<<>>) = 0 /\ stack_ptr - k + Len(<<>>) <= StackSize
    BY OperandStack, Pushed, SizeAssumption
  <2>2. [i \in 1 .. Len(<<>>) |-> Denotes(<<>>[i])] = <<>>
    BY <2>1
  <2>3. Operands' = Promised!rest(k) \o [i \in 1 .. Len(<<>>) |-> Denotes(<<>>[i])]
    BY <1>1, <2>1, Replaced
  <2> QED  BY <2>2, <2>3
<1>2. ASSUME NEW w \in Word, popPush(k, <<w>>), stack_ptr - k + 1 <= StackSize
      PROVE  Operands' = Promised!rest(k) \o <<Denotes(w)>>
  <2>1. PICK vals : vals = <<w>>
    OBVIOUS
  <2>2. vals \in Seq(Word) /\ Len(vals) = 1 /\ vals[1] = w
    BY <2>1
  <2>3. [i \in 1 .. Len(vals) |-> Denotes(vals[i])] = <<Denotes(w)>>
    BY <2>2
  <2>4. Operands' = Promised!rest(k) \o [i \in 1 .. Len(vals) |-> Denotes(vals[i])]
    BY <1>2, <2>1, <2>2, Replaced
  <2> QED  BY <2>3, <2>4
<1>3. ASSUME NEW v \in Word, NEW w \in Word, popPush(k, <<v, w>>), stack_ptr - k + 2 <= StackSize
      PROVE  Operands' = Promised!rest(k) \o <<Denotes(v), Denotes(w)>>
  <2>1. PICK vals : vals = <<v, w>>
    OBVIOUS
  <2>2. vals \in Seq(Word) /\ Len(vals) = 2 /\ vals[1] = v /\ vals[2] = w
    BY <2>1
  <2>3. [i \in 1 .. Len(vals) |-> Denotes(vals[i])] = <<Denotes(v), Denotes(w)>>
    BY <2>2
  <2>4. Operands' = Promised!rest(k) \o [i \in 1 .. Len(vals) |-> Denotes(vals[i])]
    BY <1>3, <2>1, <2>2, Replaced
  <2> QED  BY <2>3, <2>4
<1> QED  BY <1>1, <1>2, <1>3


-----------------------------------------------------------------------------
(* A step of the code is a step of the stack machine, or none.             *)

LEMMA Execution ==
    ASSUME Inv, NEW op, Executing(op)
    PROVE  /\ Promised!Executing(op) /\ Status = "running" /\ block = "op"
           /\ pc < Len(code) /\ code[pc + 1].op = op /\ operand = Promised!ins.arg
           /\ stack_ptr >= reads(code[pc + 1])
           /\ stack_ptr - pops(code[pc + 1]) + pushes(code[pc + 1]) <= StackSize
<1>1. /\ status = "running" /\ block = "op" /\ pc < Len(code) /\ code[pc + 1].op = op
      /\ stack_ptr >= reads(code[pc + 1])
      /\ stack_ptr - pops(code[pc + 1]) + pushes(code[pc + 1]) <= StackSize
  BY DEF Executing, Fetched, InBounds
<1>2. Status = "running"
  BY <1>1 DEF Status
<1>3. Promised!Fetched(op) /\ Promised!ins = code[pc + 1] /\ operand = code[pc + 1].arg
  BY <1>1, <1>2, Mapped DEF operand
<1>4. Promised!CanTake
  BY <1>1, <1>3, OperandStack, SameShapes, Mapped DEF Promised!CanTake, Operands
<1> QED  BY <1>1, <1>2, <1>3, <1>4 DEF Promised!Executing

\* What the parts of the state stand for depends on them alone.
LEMMA Untouched ==
    /\ UNCHANGED locals => UNCHANGED Localvars
    /\ UNCHANGED <<heap, block, hash>> => UNCHANGED Objects
    /\ UNCHANGED ivars => UNCHANGED IvarsOf
    /\ UNCHANGED <<stack, stack_ptr>> => UNCHANGED Operands
    /\ UNCHANGED status => UNCHANGED Status
  BY DEF Localvars, Objects, IvarsOf, Operands, Status

LEMMA GoesOn ==
    ASSUME Inv, next, NEW k, NEW vs, Operands' = Promised!rest(k) \o vs
    PROVE  Promised!Yields(k, vs)
<1>1. pc' = pc + 1 /\ UNCHANGED <<program, self, farg, status, result>>
  BY DEF next, registers
<1>2. Promised!still
  BY <1>1, Mapped, Untouched
<1> QED  BY <1>1, <1>2 DEF Promised!Yields, Operands

LEMMA StaysPure ==
    ASSUME UNCHANGED <<locals, heap, ivars, block, hash>>
    PROVE  Promised!pure
  BY Mapped, Untouched

\* An opcode that takes k operands and pushes a word.
LEMMA YieldsOne ==
    ASSUME Inv, NEW op, Executing(op), next, NEW k \in Nat, NEW w \in Word, popPush(k, <<w>>),
           op \in Ops, Shape[op][1] >= k, Shape[op][2] = k, Shape[op][3] = 1, op # "newhash"
    PROVE  Promised!Executing(op) /\ Promised!Yields(k, <<Denotes(w)>>)
<1>1. k <= stack_ptr /\ stack_ptr - k + 1 <= StackSize
  <2>1. Shape[op][1] <= stack_ptr /\ stack_ptr - k + 1 <= StackSize /\ Shape[op][1] \in Nat
    BY Shapes DEF Ops, Shape
  <2> QED  BY <2>1, OperandStack
<1>2. Operands' = Promised!rest(k) \o <<Denotes(w)>>
  BY <1>1, ReplacedBy
<1> QED  BY <1>2, Execution, GoesOn

\* An opcode that leaves the stack alone.
LEMMA Kept ==
    ASSUME Inv, UNCHANGED <<stack, stack_ptr>>
    PROVE  Operands' = Promised!rest(0) \o <<>>
<1>1. stack \in [Slots -> MaybeWord] /\ stack_ptr \in Nat
  BY OperandStack DEF Inv, TypeOK
<1>2. stack_ptr - 0 + Len(<<>>) = stack_ptr /\ stack_ptr - 0 .. stack_ptr - 0 + Len(<<>>) - 1 = {}
  BY <1>1
<1>3. stack = [s \in Slots |-> stack[s]]
  BY <1>1
<1>4. stack = [s \in Slots |-> IF s \in stack_ptr - 0 .. stack_ptr - 0 + Len(<<>>) - 1
                                THEN <<>>[s - (stack_ptr - 0) + 1] ELSE stack[s]]
  BY <1>2, <1>3
<1>5. popPush(0, <<>>)
  BY <1>2, <1>4 DEF popPush
<1> QED  BY <1>1, <1>5, ReplacedBy

LEMMA StackRefines ==
    ASSUME Inv, StackStep
    PROVE  Promised!Next
<1>1. CASE nop
  <2>1. Executing("nop") /\ next /\ UNCHANGED <<stack, stack_ptr, locals, heap, ivars, block, hash>>
    BY <1>1 DEF nop, onlyStack, next, registers
  <2>2. Operands' = Promised!rest(0) \o <<>>
    BY <2>1, Kept
  <2>3. Promised!nop
    BY <2>1, <2>2, Execution, GoesOn, StaysPure DEF Promised!nop
  <2> QED  BY <2>3 DEF Promised!Next
<1>2. CASE putnil
  <2>1. Executing("putnil") /\ next /\ popPush(0, <<Qnil>>) /\ UNCHANGED <<locals, heap, ivars, block, hash>>
    BY <1>2 DEF putnil, onlyStack, next, registers, push
  <2>2. Qnil \in Word /\ Denotes(Qnil) = Obj(4)
    BY SmallWords DEF Qnil, Denotes, isFixnum
  <2>3. Promised!Executing("putnil") /\ Promised!Yields(0, <<Denotes(Qnil)>>)
    BY <2>1, <2>2, YieldsOne DEF Ops, Shape
  <2>4. Promised!putnil
    BY <2>1, <2>2, <2>3, StaysPure, SameWords DEF Promised!putnil
  <2> QED  BY <2>4 DEF Promised!Next
<1>3. CASE putself
  <2>1. Executing("putself") /\ next /\ popPush(0, <<self>>) /\ UNCHANGED <<locals, heap, ivars, block, hash>>
    BY <1>3 DEF putself, onlyStack, next, registers, push
  <2>2. self \in Word
    BY DEF Inv, TypeOK
  <2>3. Promised!Executing("putself") /\ Promised!Yields(0, <<Denotes(self)>>)
    BY <2>1, <2>2, YieldsOne DEF Ops, Shape
  <2>4. Promised!putself
    BY <2>1, <2>3, StaysPure, SameWords DEF Promised!putself
  <2> QED  BY <2>4 DEF Promised!Next
<1>4. CASE putobject
  <2>1. Executing("putobject") /\ next /\ popPush(0, <<operand>>) /\ UNCHANGED <<locals, heap, ivars, block, hash>>
    BY <1>4 DEF putobject, onlyStack, next, registers, push
  <2>2. operand \in Word
    BY <2>1, FetchedInstr, ProgramsAssumption DEF Executing, Inv, operand, code
  <2>3. Promised!Executing("putobject") /\ Promised!Yields(0, <<Denotes(operand)>>)
    BY <2>1, <2>2, YieldsOne DEF Ops, Shape
  <2>4. operand = Promised!ins.arg
    BY <2>1, Execution
  <2>5. Promised!putobject
    BY <2>1, <2>3, <2>4, StaysPure, SameWords DEF Promised!putobject
  <2> QED  BY <2>5 DEF Promised!Next
<1>5. CASE pop
  <2>1. Executing("pop") /\ next /\ popPush(1, <<>>) /\ UNCHANGED <<locals, heap, ivars, block, hash>>
    BY <1>5 DEF pop, onlyStack, next, registers
  <2>2. 1 <= stack_ptr
    BY <2>1, Shapes DEF Shape, Ops
  <2>3. Operands' = Promised!rest(1) \o <<>>
    BY <2>1, <2>2, ReplacedBy
  <2>4. Promised!pop
    BY <2>1, <2>3, Execution, GoesOn, StaysPure DEF Promised!pop
  <2> QED  BY <2>4 DEF Promised!Next
<1>6. CASE dup
  <2>1. Executing("dup") /\ next /\ popPush(0, <<peek(1)>>) /\ UNCHANGED <<locals, heap, ivars, block, hash>>
    BY <1>6 DEF dup, onlyStack, next, registers, push
  <2>2. 1 <= stack_ptr
    BY <2>1, Shapes DEF Shape, Ops
  <2>3. peek(1) \in Word /\ Promised!top(1) = Denotes(peek(1))
    BY <2>2, OperandStack
  <2>4. Promised!Executing("dup") /\ Promised!Yields(0, <<Denotes(peek(1))>>)
    BY <2>1, <2>3, YieldsOne DEF Ops, Shape
  <2>5. Promised!dup
    BY <2>1, <2>3, <2>4, StaysPure DEF Promised!dup
  <2> QED  BY <2>5 DEF Promised!Next
<1>7. CASE swap
  <2>1. Executing("swap") /\ next /\ popPush(2, <<peek(1), peek(2)>>) /\ UNCHANGED <<locals, heap, ivars, block, hash>>
    BY <1>7 DEF swap, onlyStack, next, registers
  <2>2. 2 <= stack_ptr
    BY <2>1, Shapes DEF Shape, Ops
  <2>3. /\ peek(1) \in Word /\ Promised!top(1) = Denotes(peek(1))
        /\ peek(2) \in Word /\ Promised!top(2) = Denotes(peek(2))
    <3>1. 1 \in 1 .. stack_ptr /\ 2 \in 1 .. stack_ptr
      BY <2>2, OperandStack
    <3> QED  BY <3>1, OperandStack
  <2>4. stack_ptr - 2 + 2 <= StackSize
    BY OperandStack
  <2>5. Operands' = Promised!rest(2) \o <<Denotes(peek(1)), Denotes(peek(2))>>
    BY <2>1, <2>2, <2>3, <2>4, ReplacedBy
  <2>6. Promised!swap
    BY <2>1, <2>3, <2>5, Execution, GoesOn, StaysPure DEF Promised!swap
  <2> QED  BY <2>6 DEF Promised!Next
<1> QED  BY <1>1, <1>2, <1>3, <1>4, <1>5, <1>6, <1>7 DEF StackStep

LEMMA ArithRefines ==
    ASSUME Inv, ArithStep
    PROVE  Promised!Next
<1>1. ASSUME NEW op \in {"opt_plus", "opt_minus", "opt_mult", "opt_lt", "opt_gt", "opt_ge"}, Executing(op)
      PROVE  /\ peek(1) \in Word /\ Promised!top(1) = Denotes(peek(1))
             /\ peek(2) \in Word /\ Promised!top(2) = Denotes(peek(2))
  <2>1. op \in Ops /\ op # "newhash" /\ Shape[op][1] = 2
    BY DEF Ops, Shape
  <2>2. 2 <= stack_ptr
    BY <1>1, <2>1, Shapes
  <2>3. 1 \in 1 .. stack_ptr /\ 2 \in 1 .. stack_ptr
    BY <2>2, OperandStack
  <2> QED  BY <2>3, OperandStack
<1>2. ASSUME NEW op \in {"opt_plus", "opt_minus", "opt_mult", "opt_lt", "opt_gt", "opt_ge"},
             NEW w \in Word, arithmetic(op, w), NEW results, Denotes(w) \in results
      PROVE  Promised!arithmetic(op, results)
  <2>1. Executing(op) /\ popPush(2, <<w>>) /\ next /\ UNCHANGED <<locals, heap, ivars, block, hash>>
    BY <1>2 DEF arithmetic, onlyStack, next, registers
  <2>2. op \in Ops /\ op # "newhash" /\ Shape[op] = <<2, 2, 1>>
    BY DEF Ops, Shape
  <2>3. Promised!Executing(op) /\ Promised!Yields(2, <<Denotes(w)>>)
    BY <2>1, <2>2, YieldsOne
  <2> QED  BY <1>2, <2>1, <2>3, StaysPure DEF Promised!arithmetic
<1>3. \A v, w \in Word : /\ num2fix(add(fix2int(v), fix2int(w))) \in Word
                         /\ num2fix(sub(fix2int(v), fix2int(w))) \in Word
                         /\ num2fix(mul(fix2int(v), fix2int(w))) \in Word
  <2>1. ASSUME NEW v \in Word, NEW w \in Word
        PROVE  /\ add(fix2int(v), fix2int(w)) \in Int /\ sub(fix2int(v), fix2int(w)) \in Int
               /\ mul(fix2int(v), fix2int(w)) \in Int
    <3>1. fix2int(v) \in Int /\ fix2int(w) \in Int
      BY Tagging
    <3>2. add(fix2int(v), fix2int(w)) \in Word /\ sub(fix2int(v), fix2int(w)) \in Word
          /\ mul(fix2int(v), fix2int(w)) \in Word
      BY <3>1, WordOps
    <3>3. Word \subseteq Int
      BY DEF Word
    <3> QED  BY <3>2, <3>3
  <2> QED  BY <2>1, Tagging
<1>4. PICK x, y : x = peek(1) /\ y = peek(2)
  OBVIOUS
<1>5. CASE opt_plus
  <2>1. arithmetic("opt_plus", num2fix(add(fix2int(x), fix2int(y)))) /\ Executing("opt_plus")
    BY <1>4, <1>5 DEF opt_plus, arithmetic
  <2>2. x \in Word /\ y \in Word /\ Promised!top(1) = Denotes(x) /\ Promised!top(2) = Denotes(y)
    BY <1>1, <1>4, <2>1
  <2>3. Promised!opt_plus
    BY <1>2, <1>3, <2>1, <2>2, Arithmetic DEF Promised!opt_plus
  <2> QED  BY <2>3 DEF Promised!Next
<1>6. CASE opt_minus
  <2>1. arithmetic("opt_minus", num2fix(sub(fix2int(y), fix2int(x)))) /\ Executing("opt_minus")
    BY <1>4, <1>6 DEF opt_minus, arithmetic
  <2>2. x \in Word /\ y \in Word /\ Promised!top(1) = Denotes(x) /\ Promised!top(2) = Denotes(y)
    BY <1>1, <1>4, <2>1
  <2>3. Promised!opt_minus
    BY <1>2, <1>3, <2>1, <2>2, Arithmetic DEF Promised!opt_minus
  <2> QED  BY <2>3 DEF Promised!Next
<1>7. CASE opt_mult
  <2>1. arithmetic("opt_mult", num2fix(mul(fix2int(x), fix2int(y)))) /\ Executing("opt_mult")
    BY <1>4, <1>7 DEF opt_mult, arithmetic
  <2>2. x \in Word /\ y \in Word /\ Promised!top(1) = Denotes(x) /\ Promised!top(2) = Denotes(y)
    BY <1>1, <1>4, <2>1
  <2>3. Promised!opt_mult
    BY <1>2, <1>3, <2>1, <2>2, Arithmetic DEF Promised!opt_mult
  <2> QED  BY <2>3 DEF Promised!Next
<1>8. CASE opt_lt
  <2>1. arithmetic("opt_lt", boolWord(icmp_slt(fix2int(y), fix2int(x)))) /\ Executing("opt_lt")
    BY <1>4, <1>8 DEF opt_lt, arithmetic
  <2>2. x \in Word /\ y \in Word /\ Promised!top(1) = Denotes(x) /\ Promised!top(2) = Denotes(y)
    BY <1>1, <1>4, <2>1
  <2>3. PICK w : w = boolWord(icmp_slt(fix2int(y), fix2int(x)))
    OBVIOUS
  <2>4. w \in Word
    <3>1. (IF icmp_slt(fix2int(y), fix2int(x)) THEN 1 ELSE 0) \in Int
      OBVIOUS
    <3> QED  BY <2>3, <3>1, WordOps DEF boolWord
  <2>5. Denotes(w) \in Promised!CompareResults(Denotes(y), Denotes(x), Denotes(y).n < Denotes(x).n)
    BY <2>2, <2>3, Comparison
  <2>6. Promised!opt_lt
    BY <1>2, <2>1, <2>2, <2>3, <2>4, <2>5 DEF Promised!opt_lt
  <2> QED  BY <2>6 DEF Promised!Next
<1>9. CASE opt_gt
  <2>1. arithmetic("opt_gt", boolWord(icmp_sgt(fix2int(y), fix2int(x)))) /\ Executing("opt_gt")
    BY <1>4, <1>9 DEF opt_gt, arithmetic
  <2>2. x \in Word /\ y \in Word /\ Promised!top(1) = Denotes(x) /\ Promised!top(2) = Denotes(y)
    BY <1>1, <1>4, <2>1
  <2>3. PICK w : w = boolWord(icmp_sgt(fix2int(y), fix2int(x)))
    OBVIOUS
  <2>4. w \in Word
    <3>1. (IF icmp_sgt(fix2int(y), fix2int(x)) THEN 1 ELSE 0) \in Int
      OBVIOUS
    <3> QED  BY <2>3, <3>1, WordOps DEF boolWord
  <2>5. Denotes(w) \in Promised!CompareResults(Denotes(y), Denotes(x), Denotes(y).n > Denotes(x).n)
    BY <2>2, <2>3, Comparison
  <2>6. Promised!opt_gt
    BY <1>2, <2>1, <2>2, <2>3, <2>4, <2>5 DEF Promised!opt_gt
  <2> QED  BY <2>6 DEF Promised!Next
<1>10. CASE opt_ge
  <2>1. arithmetic("opt_ge", boolWord(icmp_sge(fix2int(y), fix2int(x)))) /\ Executing("opt_ge")
    BY <1>4, <1>10 DEF opt_ge, arithmetic
  <2>2. x \in Word /\ y \in Word /\ Promised!top(1) = Denotes(x) /\ Promised!top(2) = Denotes(y)
    BY <1>1, <1>4, <2>1
  <2>3. PICK w : w = boolWord(icmp_sge(fix2int(y), fix2int(x)))
    OBVIOUS
  <2>4. w \in Word
    <3>1. (IF icmp_sge(fix2int(y), fix2int(x)) THEN 1 ELSE 0) \in Int
      OBVIOUS
    <3> QED  BY <2>3, <3>1, WordOps DEF boolWord
  <2>5. Denotes(w) \in Promised!CompareResults(Denotes(y), Denotes(x), Denotes(y).n >= Denotes(x).n)
    BY <2>2, <2>3, Comparison
  <2>6. Promised!opt_ge
    BY <1>2, <2>1, <2>2, <2>3, <2>4, <2>5 DEF Promised!opt_ge
  <2> QED  BY <2>6 DEF Promised!Next
<1> QED  BY <1>5, <1>6, <1>7, <1>8, <1>9, <1>10 DEF ArithStep

\* The activation ends: only the status changes.
LEMMA Halts ==
    ASSUME NEW s, Halt(s)
    PROVE  UNCHANGED <<program, self, farg, pc, Operands, Localvars, Objects, IvarsOf, result>>
<1>1. UNCHANGED <<program, self, farg, pc, result, stack, stack_ptr, locals, heap, ivars, block, hash>>
  BY DEF Halt, memory
<1> QED  BY <1>1, Untouched

LEMMA HaltsMapped ==
    ASSUME NEW s \in {"overrun", "wild", "raised"}, Halt(s)
    PROVE  /\ s # "raised" => Promised!Halt("undefined")
           /\ s = "raised" => Promised!Halt("raised")
<1>1. UNCHANGED <<program, self, farg, pc, Operands, Localvars, Objects, IvarsOf, result>>
  BY Halts
<1>2. Status' = IF s = "raised" THEN "raised" ELSE "undefined"
  BY DEF Halt, Status
<1>3. Promised!pure
  BY <1>1, Mapped
<1>4. UNCHANGED Denotes(result)
  BY <1>1
<1> QED  BY <1>1, <1>2, <1>3, <1>4 DEF Promised!Halt, Operands, Status

\* An instruction that lacks operands or room.
LEMMA OverrunRefines ==
    ASSUME Inv, Overrun
    PROVE  Promised!Next
<1>1. /\ status = "running" /\ pc < Len(code) /\ Halt("overrun")
      /\ ~(stack_ptr >= reads(code[pc + 1]) /\ stack_ptr - pops(code[pc + 1]) + pushes(code[pc + 1]) <= StackSize)
  BY DEF Overrun, Fetched, InBounds
<1>2. ~Promised!CanTake
  BY <1>1, OperandStack, SameShapes, Mapped DEF Promised!CanTake, Operands
<1>3. Promised!Halt("undefined")
  BY <1>1, HaltsMapped
<1>4. Promised!undefined
  BY <1>1, <1>2, <1>3 DEF Promised!undefined, code
<1> QED  BY <1>4 DEF Promised!Next

-----------------------------------------------------------------------------
(* The locals, the branches, and the two ends of the activation.           *)

LEMMA EnterRefines ==
    ASSUME Inv, enter
    PROVE  Promised!Next
<1>1. /\ status = "entry" /\ popPush(0, <<farg>>) /\ status' = "running"
      /\ UNCHANGED <<program, self, farg, locals, pc, block, hash, heap, ivars, result>>
  BY DEF enter, push
<1>2. farg \in Word /\ stack_ptr = 0 /\ 0 <= stack_ptr /\ 0 \in Nat /\ stack_ptr - 0 + 1 <= StackSize
  BY <1>1, SizeAssumption DEF Inv, TypeOK
<1>3. Operands' = Promised!rest(0) \o <<Denotes(farg)>>
  BY <1>1, <1>2, ReplacedBy
<1>4. Operands = <<>>
  BY <1>2 DEF Operands
<1>5. Promised!rest(0) = <<>>
  BY <1>4, Mapped
<1>6. Operands' = <<Denotes(farg)>>
  <2>1. \A d : <<>> \o <<d>> = <<d>>
    OBVIOUS
  <2> QED  BY <1>3, <1>5, <2>1
<1>7. Promised!pure
  BY <1>1, StaysPure
<1>8. Status = "entry" /\ Status' = "running" /\ UNCHANGED Denotes(result)
  BY <1>1 DEF Status
<1>9. Promised!enter
  BY <1>1, <1>6, <1>7, <1>8, SameWords DEF Promised!enter, Operands, Status
<1> QED  BY <1>9 DEF Promised!Next

LEMMA LocalRefines ==
    ASSUME Inv, LocalStep
    PROVE  Promised!Next
<1>1. stack \in [Slots -> MaybeWord] /\ locals \in [LocalSlots -> MaybeWord] /\ DOMAIN Localvars = LocalSlots
  BY DEF Inv, TypeOK, Localvars
<1>2. \A w \in Word : w # Undef /\ Denotes(w) # [t |-> "absent", n |-> 0] /\ Denotes(w) \in RubyValues
  BY UndefAssumption DEF Denotes, Fix, Obj, RubyValues
<1>3. ASSUME NEW l \in LocalSlots, NEW w \in Word, locals' = [locals EXCEPT ![l] = w]
      PROVE  Localvars' = [Localvars EXCEPT ![l] = Denotes(w)]
  BY <1>1, <1>2, <1>3 DEF Localvars
<1>4. CASE setlocal
  <2>1. /\ Executing("setlocal") /\ operand \in LocalSlots /\ popPush(1, <<>>) /\ next
        /\ locals' = [locals EXCEPT ![operand] = peek(1)] /\ UNCHANGED <<heap, ivars, block, hash>>
    BY <1>4 DEF setlocal, next, registers
  <2>2. 1 <= stack_ptr
    BY <2>1, Shapes DEF Shape, Ops
  <2>3. peek(1) \in Word /\ Promised!top(1) = Denotes(peek(1))
    BY <2>2, OperandStack
  <2>4. Operands' = Promised!rest(1) \o <<>>
    BY <2>1, <2>2, ReplacedBy
  <2>5. PICK w, l : w \in Word /\ w = peek(1) /\ l = operand
    BY <2>3
  <2>6. Localvars' = [Localvars EXCEPT ![l] = Denotes(w)]
    BY <1>3, <2>1, <2>5
  <2>7. Promised!Executing("setlocal") /\ l = Promised!ins.arg
    BY <2>1, <2>5, Execution
  <2>8. Promised!Yields(1, <<>>) /\ UNCHANGED <<Objects, IvarsOf>>
    BY <2>1, <2>4, GoesOn, Untouched
  <2>9. Promised!setlocal
    BY <1>1, <2>1, <2>3, <2>5, <2>6, <2>7, <2>8 DEF Promised!setlocal, Localvars, Objects, IvarsOf
  <2> QED  BY <2>9 DEF Promised!Next
<1>5. CASE getlocal
  <2>1. /\ Executing("getlocal") /\ operand \in LocalSlots /\ next /\ UNCHANGED <<heap, ivars, block, hash>>
    BY <1>5 DEF getlocal, next, registers
  <2>2. PICK w \in contents(locals[operand]) :
            locals' = [locals EXCEPT ![operand] = w] /\ popPush(0, <<w>>)
    BY <1>5 DEF getlocal, push
  <2>3. w \in Word /\ (locals[operand] # Undef => w = locals[operand])
    BY <1>1, <2>1, <2>2 DEF contents, MaybeWord
  <2>4. PICK l : l = operand
    OBVIOUS
  <2>5. Localvars' = [Localvars EXCEPT ![l] = Denotes(w)]
    BY <1>3, <2>1, <2>2, <2>3, <2>4
  <2>6. Promised!Executing("getlocal") /\ Promised!Yields(0, <<Denotes(w)>>)
    BY <2>1, <2>2, <2>3, YieldsOne DEF Ops, Shape
  <2>7. UNCHANGED <<Objects, IvarsOf>> /\ l = Promised!ins.arg
    BY <2>1, <2>4, Execution, Untouched
  <2>8. Denotes(w) \in IF Localvars[l] = [t |-> "absent", n |-> 0] THEN RubyValues ELSE {Localvars[l]}
    BY <1>2, <2>1, <2>3, <2>4 DEF Localvars
  <2>9. Promised!getlocal
    BY <1>1, <2>1, <2>4, <2>5, <2>6, <2>7, <2>8, SameWords
    DEF Promised!getlocal, Promised!Absent, Localvars, Objects, IvarsOf
  <2> QED  BY <2>9 DEF Promised!Next
<1>6. CASE localOverrun
  <2>1. /\ status = "running" /\ block = "op" /\ pc < Len(code) /\ code[pc + 1].op \in {"setlocal", "getlocal"}
        /\ code[pc + 1].arg \notin LocalSlots /\ Halt("overrun")
    BY <1>6 DEF localOverrun, Fetched, operand
  <2>2. Status = "running" /\ Promised!ins = code[pc + 1]
    BY <2>1, Mapped DEF Status
  <2>3. ~Promised!Local(Promised!ins.arg)
    BY <1>1, <2>1, <2>2 DEF Promised!Local, Localvars
  <2>4. Promised!Halt("undefined")
    BY <2>1, HaltsMapped
  <2>5. Promised!undefined
    BY <2>1, <2>2, <2>3, <2>4 DEF Promised!undefined, code, Status
  <2> QED  BY <2>5 DEF Promised!Next
<1> QED  BY <1>4, <1>5, <1>6 DEF LocalStep

\* The operand of a branch, the index of an instance variable: the operands
\* an instruction reads are values of the stack machine.
LEMMA Reads ==
    ASSUME Inv, NEW op \in Ops, Executing(op), op # "newhash", NEW n \in 1 .. Shape[op][1]
    PROVE  peek(n) \in Word /\ Promised!top(n) = Denotes(peek(n)) /\ n <= stack_ptr
<1>1. Shape[op][1] <= stack_ptr /\ Shape[op][1] \in Nat
  BY Shapes DEF Shape, Ops
<1>2. n \in 1 .. stack_ptr
  BY <1>1, OperandStack
<1> QED  BY <1>2, OperandStack

\* A pop.
LEMMA Popped ==
    ASSUME Inv, NEW k \in Nat, k <= stack_ptr, popPush(k, <<>>)
    PROVE  Operands' = Promised!rest(k)
<1>1. Operands' = Promised!rest(k) \o <<>>
  BY ReplacedBy
<1>2. PICK S : S = { Operands[i] : i \in 1 .. stack_ptr }
  OBVIOUS
<1>3. Operands \in Seq(S) /\ Len(Operands) = stack_ptr /\ stack_ptr \in Nat
  <2>1. stack_ptr \in Nat /\ Len(Operands) = stack_ptr
    BY OperandStack
  <2>2. Operands = [i \in 1 .. stack_ptr |-> Operands[i]]
    BY DEF Operands
  <2>3. \A i \in 1 .. stack_ptr : Operands[i] \in S
    BY <1>2
  <2>4. Operands \in [1 .. stack_ptr -> S]
    BY <2>2, <2>3
  <2> QED  BY <2>1, <2>4
<1>4. Promised!rest(k) \in Seq(S)
  <2>1. Promised!rest(k) = SubSeq(Operands, 1, stack_ptr - k)
    BY <1>3, Mapped
  <2>2. \A s \in Seq(S) : \A m \in 0 .. Len(s) : SubSeq(s, 1, m) \in Seq(S)
    OBVIOUS
  <2>3. stack_ptr - k \in 0 .. Len(Operands)
    BY <1>3
  <2> QED  BY <1>3, <2>1, <2>2, <2>3
<1>5. \A s \in Seq(S) : s \o <<>> = s
  OBVIOUS
<1> QED  BY <1>1, <1>4, <1>5

\* Only the word 0 denotes false.
LEMMA FalseWord ==
    ASSUME NEW w \in Word
    PROVE  w = 0 <=> Denotes(w) = Obj(0)
<1>1. 0 \in Word /\ Denotes(0) = Obj(0)
  BY SmallWords DEF Denotes, isFixnum
<1> QED  BY <1>1, DenotesApart

LEMMA BranchRefines ==
    ASSUME Inv, BranchStep
    PROVE  Promised!Next
<1>1. ASSUME NEW i, goto(i), UNCHANGED <<locals, heap, ivars>>
      PROVE  Promised!goto(i)
  <2>1. pc' = i /\ UNCHANGED <<program, self, farg, status, result, locals, heap, ivars, block, hash>>
    BY <1>1 DEF goto, registers
  <2>2. Promised!pure /\ Promised!still
    BY <2>1, StaysPure, Mapped, Untouched
  <2> QED  BY <2>1, <2>2 DEF Promised!goto
<1>2. ASSUME NEW op \in {"branchif", "branchunless"}, Executing(op), popPush(1, <<>>),
             UNCHANGED <<locals, heap, ivars>>, NEW takenIf \in BOOLEAN,
             goto(IF (peek(1) = 0) = takenIf THEN pc + 1 ELSE target(code, operand))
      PROVE  Promised!branch(op, takenIf)
  <2>1. op \in Ops /\ op # "newhash" /\ 1 \in 1 .. Shape[op][1] /\ 1 \in Nat
    BY DEF Ops, Shape
  <2>2. peek(1) \in Word /\ Promised!top(1) = Denotes(peek(1)) /\ 1 <= stack_ptr
    BY <1>2, <2>1, Reads
  <2>3. Operands' = Promised!rest(1)
    BY <1>2, <2>1, <2>2, Popped
  <2>4. PICK c \in BOOLEAN : c <=> peek(1) # 0
    OBVIOUS
  <2>5. c \in Promised!BranchResults(Promised!top(1))
    BY <2>2, <2>4, FalseWord, SameWords DEF Promised!BranchResults
  <2>6. PICK i : i = IF c = takenIf THEN target(code, operand) ELSE pc + 1
    OBVIOUS
  <2>7. goto(i)
    BY <1>2, <2>4, <2>6
  <2>8. Promised!goto(i)
    BY <1>1, <1>2, <2>7
  <2>9. Promised!Executing(op) /\ operand = Promised!ins.arg
    BY <1>2, Execution
  <2>10. i = IF c = takenIf THEN Promised!target(program.code, Promised!ins.arg) ELSE pc + 1
    BY <2>6, <2>9, SameShapes DEF code
  <2> QED  BY <2>3, <2>5, <2>8, <2>9, <2>10 DEF Promised!branch, Operands
<1>3. CASE jump
  <2>1. Executing("jump") /\ goto(target(code, operand)) /\ UNCHANGED <<stack, stack_ptr, locals, heap, ivars>>
    BY <1>3 DEF jump, memory
  <2>2. Promised!goto(target(code, operand)) /\ UNCHANGED Operands
    BY <1>1, <2>1, Untouched
  <2>3. Promised!Executing("jump") /\ operand = Promised!ins.arg
    BY <2>1, Execution
  <2>4. Promised!jump
    BY <2>2, <2>3, SameShapes DEF Promised!jump, Operands, code
  <2> QED  BY <2>4 DEF Promised!Next
<1>4. CASE branchif
  <2>1. Promised!branch("branchif", TRUE)
    <3>1. Executing("branchif") /\ popPush(1, <<>>) /\ UNCHANGED <<locals, heap, ivars>>
          /\ goto(IF peek(1) = 0 THEN pc + 1 ELSE target(code, operand))
      BY <1>4 DEF branchif
    <3> QED  BY <1>2, <3>1
  <2> QED  BY <2>1 DEF Promised!Next, Promised!branchif
<1>5. CASE branchunless
  <2>1. Promised!branch("branchunless", FALSE)
    <3>1. Executing("branchunless") /\ popPush(1, <<>>) /\ UNCHANGED <<locals, heap, ivars>>
          /\ goto(IF peek(1) = 0 THEN target(code, operand) ELSE pc + 1)
      BY <1>5 DEF branchunless
    <3> QED  BY <1>2, <3>1
  <2> QED  BY <2>1 DEF Promised!Next, Promised!branchunless
<1>6. CASE return
  <2>1. /\ status = "running" /\ pc = Len(code) /\ stack_ptr > 0 /\ popPush(1, <<>>)
        /\ result' = peek(1) /\ status' = "returned"
        /\ UNCHANGED <<program, self, farg, locals, pc, block, hash, heap, ivars>>
    BY <1>6 DEF return
  <2>2. 1 \in 1 .. stack_ptr /\ 1 <= stack_ptr /\ 1 \in Nat /\ stack_ptr \in Nat
    BY <2>1, OperandStack
  <2>3. Promised!top(1) = Denotes(peek(1))
    BY <2>2, OperandStack
  <2>4. Operands' = Promised!rest(1)
    BY <2>1, <2>2, Popped
  <2>5. Promised!pure /\ Status = "running" /\ Status' = "returned" /\ Len(Operands) > 0
    BY <2>1, <2>2, StaysPure, OperandStack DEF Status
  <2>6. Denotes(result)' = Promised!top(1)
    BY <2>1, <2>3
  <2>7. Promised!return
    BY <2>1, <2>4, <2>5, <2>6 DEF Promised!return, Operands, Status, code
  <2> QED  BY <2>7 DEF Promised!Next
<1>7. CASE returnOverrun
  <2>1. status = "running" /\ pc = Len(code) /\ stack_ptr = 0 /\ Halt("overrun")
    BY <1>7 DEF returnOverrun
  <2>2. Operands = <<>> /\ Status = "running"
    BY <2>1 DEF Operands, Status
  <2>3. Promised!Halt("undefined")
    BY <2>1, HaltsMapped
  <2>4. Promised!undefined
    BY <2>1, <2>2, <2>3 DEF Promised!undefined, code, Operands, Status
  <2> QED  BY <2>4 DEF Promised!Next
<1> QED  BY <1>3, <1>4, <1>5, <1>6, <1>7 DEF BranchStep

-----------------------------------------------------------------------------
(* Objects of the interpreter.                                             *)

\* The array a word refers to is the array its value refers to.
LEMMA ArrayMapped ==
    ASSUME Inv, block = "op", NEW w \in Word
    PROVE  /\ Promised!IsArray(Denotes(w)) <=> IsArray(w)
           /\ IsArray(w) => /\ Denotes(w) = Obj(w)
                            /\ Promised!Elems(Denotes(w)) = [i \in 1 .. Len(elems(w)) |-> Denotes(elems(w)[i])]
                            /\ Objects[w] = [kind |-> "array", elems |-> Promised!Elems(Denotes(w))]
<1>1. Objects = [r \in Refs |-> View(heap[r])]
  BY DEF Objects
<1>2. \A r \in Refs : View(heap[r]).kind = heap[r].kind /\ Denotes(r) = Obj(r)
  <2>1. \A r \in Refs : Denotes(r) = Obj(r)
    BY RefsAssumption DEF Denotes
  <2>2. ASSUME NEW r \in Refs PROVE View(heap[r]).kind = heap[r].kind
    BY DEF View
  <2> QED  BY <2>1, <2>2
<1>3. CASE isFixnum(w)
  <2>1. w \notin Refs /\ Denotes(w).t = "fix"
    BY <1>3, RefsAssumption DEF Denotes, Fix
  <2> QED  BY <2>1 DEF IsArray, Promised!IsArray
<1>4. CASE ~isFixnum(w)
  <2>1. Denotes(w) = Obj(w) /\ Denotes(w).t = "obj" /\ Denotes(w).n = w
    BY <1>4 DEF Denotes, Obj
  <2>2. Promised!IsArray(Denotes(w)) <=> w \in Refs /\ Objects[w].kind = "array"
    BY <2>1 DEF Promised!IsArray, Objects
  <2>3. Promised!IsArray(Denotes(w)) <=> IsArray(w)
    BY <1>1, <1>2, <2>2 DEF IsArray
  <2>4. ASSUME IsArray(w)
        PROVE  /\ Promised!Elems(Denotes(w)) = [i \in 1 .. Len(elems(w)) |-> Denotes(elems(w)[i])]
               /\ Objects[w] = [kind |-> "array", elems |-> Promised!Elems(Denotes(w))]
    <3>1. w \in Refs /\ heap[w].kind = "array" /\ elems(w) \in Seq(Word) /\ heap[w].elems = elems(w)
      BY <2>4, ArrayElems DEF elems, IsArray
    <3>2. DOMAIN elems(w) = 1 .. Len(elems(w))
      BY <3>1
    <3>3. Objects[w] = [kind |-> "array", elems |-> [i \in 1 .. Len(elems(w)) |-> Denotes(elems(w)[i])]]
      BY <1>1, <3>1, <3>2 DEF View
    <3>4. Promised!Elems(Denotes(w)) = Objects[w].elems
      BY <2>1 DEF Promised!Elems, Objects
    <3> QED  BY <3>3, <3>4
  <2> QED  BY <2>1, <2>3, <2>4
<1> QED  BY <1>3, <1>4

\* An index below the largest length an array can have is no negative Fixnum.
LEMMA IndexMapped ==
    ASSUME NEW w \in Word
    PROVE  /\ fix2int(w) \in Nat
           /\ Denotes(w).t = "fix" <=> isFixnum(w)
           /\ \A i \in 0 .. MaxArrayLen - 1 :
                  Promised!IsIndex(Denotes(w), i) <=> isFixnum(w) /\ fix2int(w) = i
<1>1. fix2int(w) \in Nat
  BY Tagging
<1>2. CASE ~isFixnum(w)
  BY <1>1, <1>2 DEF Denotes, Obj, Promised!IsIndex
<1>3. CASE isFixnum(w)
  <2>1. Denotes(w) = Fix(Signed(fix2int(w))) /\ fix2int(w) \in 0 .. 2 * FixLimit - 1
    BY <1>3, WordDenotes
  <2>2. Denotes(w).t = "fix" /\ Denotes(w).n = Signed(fix2int(w))
    BY <2>1 DEF Fix
  <2>3. ASSUME NEW i \in 0 .. MaxArrayLen - 1
        PROVE  Signed(fix2int(w)) = i <=> fix2int(w) = i
    <3>1. Signed(fix2int(w)) >= 0 <=> Signed(fix2int(w)) = fix2int(w)
      BY <2>1, SignedRange
    <3>2. i \in Nat /\ i < FixLimit
      BY MaxArrayLenAssumption, FixLimitAssumption
    <3> QED  BY <2>1, <3>1, <3>2, FixLimitAssumption DEF Signed
  <2> QED  BY <1>1, <1>3, <2>2, <2>3 DEF Promised!IsIndex
<1> QED  BY <1>2, <1>3

LEMMA ArefRefines ==
    ASSUME Inv, opt_aref
    PROVE  Promised!Next
<1>1. /\ Executing("opt_aref") /\ next /\ UNCHANGED <<locals, heap, ivars, block, hash>> /\ block = "op"
      /\ IsArray(peek(2)) /\ fix2int(peek(1)) < Len(elems(peek(2)))
      /\ popPush(2, <<elems(peek(2))[fix2int(peek(1)) + 1]>>)
  BY DEF opt_aref, onlyStack, next, registers, Executing, Fetched
<1>2. /\ peek(1) \in Word /\ Promised!top(1) = Denotes(peek(1))
      /\ peek(2) \in Word /\ Promised!top(2) = Denotes(peek(2))
  <2>1. "opt_aref" \in Ops /\ 1 \in 1 .. Shape["opt_aref"][1] /\ 2 \in 1 .. Shape["opt_aref"][1]
    BY DEF Ops, Shape
  <2> QED  BY <1>1, <2>1, Reads
<1>3. PICK x, a, s, z : x = peek(1) /\ a = peek(2) /\ s = elems(peek(2)) /\ z = fix2int(peek(1))
  OBVIOUS
<1>4. s \in Seq(Word) /\ Len(s) <= MaxArrayLen /\ z \in Nat /\ Len(s) \in Nat /\ z < Len(s)
  BY <1>1, <1>2, <1>3, ArrayElems, IndexMapped
<1>5. PICK w : w = s[z + 1]
  OBVIOUS
<1>6. w \in Word /\ z + 1 \in 1 .. Len(s)
  BY <1>4, <1>5
<1>7. Promised!Executing("opt_aref") /\ Promised!Yields(2, <<Denotes(w)>>) /\ Promised!pure
  <2>1. popPush(2, <<w>>)
    BY <1>1, <1>3, <1>5
  <2> QED  BY <1>1, <1>6, <2>1, YieldsOne, StaysPure DEF Ops, Shape
<1>8. /\ Promised!IsArray(Promised!top(2))
      /\ Promised!Elems(Promised!top(2)) = [i \in 1 .. Len(s) |-> Denotes(s[i])]
  BY <1>1, <1>2, <1>3, ArrayMapped
<1>9. Promised!Elems(Promised!top(2))[z + 1] = Denotes(w) /\ Len(Promised!Elems(Promised!top(2))) = Len(s)
      /\ DOMAIN Promised!Elems(Promised!top(2)) = 1 .. Len(s)
  BY <1>4, <1>5, <1>6, <1>8
<1>10. Promised!opt_aref
  <2>1. CASE isFixnum(x)
    <3>1. z \in 0 .. MaxArrayLen - 1 /\ z \in 0 .. Len(s) - 1
      BY <1>4, MaxArrayLenAssumption, FixLimitAssumption
    <3>2. Promised!IsIndex(Promised!top(1), z)
      BY <1>2, <1>3, <2>1, <3>1, IndexMapped
    <3> QED  BY <1>7, <1>8, <1>9, <3>1, <3>2 DEF Promised!opt_aref
  <2>2. CASE ~isFixnum(x)
    <3>1. Promised!top(1).t # "fix"
      BY <1>2, <1>3, <2>2, IndexMapped
    <3> QED  BY <1>6, <1>7, <1>8, <1>9, <3>1 DEF Promised!opt_aref
  <2> QED  BY <2>1, <2>2
<1> QED  BY <1>10 DEF Promised!Next

LEMMA LengthRefines ==
    ASSUME Inv, opt_length
    PROVE  Promised!Next
<1>1. /\ Executing("opt_length") /\ next /\ UNCHANGED <<locals, heap, ivars, block, hash>> /\ block = "op"
      /\ IsArray(peek(1)) /\ popPush(1, <<num2fix(Len(elems(peek(1))))>>)
  BY DEF opt_length, onlyStack, next, registers, Executing, Fetched
<1>2. peek(1) \in Word /\ Promised!top(1) = Denotes(peek(1))
  <2>1. "opt_length" \in Ops /\ 1 \in 1 .. Shape["opt_length"][1]
    BY DEF Ops, Shape
  <2> QED  BY <1>1, <2>1, Reads
<1>3. PICK n : n = Len(elems(peek(1)))
  OBVIOUS
<1>4. elems(peek(1)) \in Seq(Word) /\ n <= MaxArrayLen /\ n \in Nat
  BY <1>1, <1>2, <1>3, ArrayElems
<1>5. n \in FixRange /\ n \in Int /\ 0 \in Int /\ n = n + (2 * FixLimit) * 0
  BY <1>4, MaxArrayLenAssumption, FixLimitAssumption DEF FixRange
<1>6. PICK w : w = num2fix(n)
  OBVIOUS
<1>7. w \in Word /\ Denotes(w) = Fix(n)
  BY <1>5, <1>6, Tagging, Congruent
<1>8. Promised!Executing("opt_length") /\ Promised!Yields(1, <<Fix(n)>>) /\ Promised!pure
  <2>1. popPush(1, <<w>>)
    BY <1>1, <1>3, <1>6
  <2> QED  BY <1>1, <1>7, <2>1, YieldsOne, StaysPure DEF Ops, Shape
<1>9. Promised!IsArray(Promised!top(1)) /\ Len(Promised!Elems(Promised!top(1))) = n
  <2>1. /\ Promised!IsArray(Promised!top(1))
        /\ Promised!Elems(Promised!top(1)) = [i \in 1 .. n |-> Denotes(elems(peek(1))[i])]
    BY <1>1, <1>2, <1>3, ArrayMapped
  <2> QED  BY <1>4, <2>1
<1>10. Promised!opt_length
  BY <1>8, <1>9, SameWords DEF Promised!opt_length
<1> QED  BY <1>10 DEF Promised!Next

\* rb_ary_store stores the values the words denote.
LEMMA StoreMapped ==
    ASSUME NEW s \in Seq(Word), NEW i \in Nat, NEW w \in Word, NEW t,
           Len(t) = Len(s), \A n \in 1 .. Len(s) : t[n] = Denotes(s[n]),
           NEW u, u = rb_ary_store(s, i, w)
    PROVE  [n \in DOMAIN u |-> Denotes(u[n])] = Promised!Stored(t, i, Denotes(w))
<1>1. Len(t) = Len(s) /\ Len(s) \in Nat /\ Promised!Nil = Denotes(Qnil)
  BY SameWords DEF Denotes, isFixnum, Qnil
<1>2. PICK m : m = IF i < Len(s) THEN Len(s) ELSE i + 1
  OBVIOUS
<1>4. u = [n \in 1 .. m |-> IF n = i + 1 THEN w ELSE IF n <= Len(s) THEN s[n] ELSE Qnil]
  BY <1>2 DEF rb_ary_store
<1>5. Promised!Stored(t, i, Denotes(w))
        = [n \in 1 .. m |-> IF n = i + 1 THEN Denotes(w) ELSE IF n <= Len(s) THEN t[n] ELSE Denotes(Qnil)]
  BY <1>1, <1>2 DEF Promised!Stored
<1>6. ASSUME NEW n \in 1 .. m
      PROVE  Denotes(u[n]) = IF n = i + 1 THEN Denotes(w) ELSE IF n <= Len(s) THEN t[n] ELSE Denotes(Qnil)
  <2>1. u[n] = IF n = i + 1 THEN w ELSE IF n <= Len(s) THEN s[n] ELSE Qnil
    BY <1>4
  <2>2. n <= Len(s) => t[n] = Denotes(s[n])
    <3>1. n \in Nat /\ n >= 1
      BY <1>2, <1>1
    <3> QED  BY <3>1, <1>1
  <2> QED  BY <2>1, <2>2
<1> QED  BY <1>4, <1>5, <1>6

\* Objects of the heap the program knows: none is under construction.
LEMMA HeapMapped ==
    ASSUME block = "op", UNCHANGED block
    PROVE  Objects = [r \in Refs |-> View(heap[r])] /\ Objects' = [r \in Refs |-> View(heap'[r])]
  BY DEF Objects

LEMMA AsetRefines ==
    ASSUME Inv, opt_aset
    PROVE  Promised!Next
<1>1. /\ Executing("opt_aset") /\ next /\ UNCHANGED <<locals, ivars, block, hash>> /\ block = "op"
      /\ IsArray(peek(3)) /\ fix2int(peek(2)) < MaxArrayLen /\ popPush(3, <<peek(1)>>)
      /\ heap' = [heap EXCEPT ![peek(3)].elems = rb_ary_store(@, fix2int(peek(2)), peek(1))]
  BY DEF opt_aset, next, registers, Executing, Fetched
<1>2. /\ peek(1) \in Word /\ Promised!top(1) = Denotes(peek(1))
      /\ peek(2) \in Word /\ Promised!top(2) = Denotes(peek(2))
      /\ peek(3) \in Word /\ Promised!top(3) = Denotes(peek(3))
  <2>1. /\ "opt_aset" \in Ops /\ 1 \in 1 .. Shape["opt_aset"][1] /\ 2 \in 1 .. Shape["opt_aset"][1]
        /\ 3 \in 1 .. Shape["opt_aset"][1]
    BY DEF Ops, Shape
  <2> QED  BY <1>1, <2>1, Reads
<1>3. PICK x, y, a, s, z : x = peek(1) /\ y = peek(2) /\ a = peek(3) /\ s = elems(peek(3)) /\ z = fix2int(peek(2))
  OBVIOUS
<1>4. /\ x \in Word /\ a \in Refs /\ heap[a] = Array(s) /\ s \in Seq(Word)
      /\ z \in Nat /\ z \in 0 .. MaxArrayLen - 1
  <2>1. a \in Refs /\ heap[a] = Array(s) /\ s \in Seq(Word)
    BY <1>1, <1>2, <1>3, ArrayElems
  <2>2. z \in Nat
    BY <1>2, <1>3, IndexMapped
  <2> QED  BY <1>1, <1>2, <1>3, <2>1, <2>2, MaxArrayLenAssumption, FixLimitAssumption
<1>5. PICK t : t = [n \in 1 .. Len(s) |-> Denotes(s[n])]
  OBVIOUS
<1>6. Promised!IsArray(Promised!top(3)) /\ Promised!top(3).n = a /\ Objects[a] = [kind |-> "array", elems |-> t]
  <2>1. Promised!IsArray(Promised!top(3)) /\ Promised!top(3) = Obj(a)
    BY <1>1, <1>2, <1>3, ArrayMapped
  <2>2. Promised!Elems(Denotes(a)) = t /\ Objects[a] = [kind |-> "array", elems |-> Promised!Elems(Denotes(a))]
    BY <1>1, <1>2, <1>3, <1>5, ArrayMapped
  <2> QED  BY <2>1, <2>2 DEF Obj
<1>7. PICK u : u = rb_ary_store(s, z, x)
  OBVIOUS
<1>8. heap' = [heap EXCEPT ![a] = Array(u)]
  <2>1. heap' = [heap EXCEPT ![a].elems = rb_ary_store(@, z, x)]
    BY <1>1, <1>3
  <2>2. heap[a] = [kind |-> "array", elems |-> s]
    BY <1>4 DEF Array
  <2>3. [heap[a] EXCEPT !.elems = u] = [kind |-> "array", elems |-> u]
    BY <2>2
  <2>4. rb_ary_store(heap[a].elems, z, x) = u
    BY <1>7, <2>2
  <2> QED  BY <2>1, <2>3, <2>4 DEF Array
<1>9. Objects' = [Objects EXCEPT ![a] = [kind |-> "array", elems |-> Promised!Stored(t, z, Denotes(x))]]
  <2>1. [n \in DOMAIN u |-> Denotes(u[n])] = Promised!Stored(t, z, Denotes(x))
    <3>1. Len(t) = Len(s) /\ \A n \in 1 .. Len(s) : t[n] = Denotes(s[n])
      BY <1>4, <1>5
    <3> QED  BY <1>4, <1>7, <3>1, StoreMapped
  <2>2. View(Array(u)) = [kind |-> "array", elems |-> Promised!Stored(t, z, Denotes(x))]
    BY <2>1 DEF View, Array
  <2>3. Objects = [r \in Refs |-> View(heap[r])] /\ Objects' = [r \in Refs |-> View(heap'[r])]
    BY <1>1, HeapMapped
  <2>4. DOMAIN heap = Refs
    BY DEF Inv, TypeOK, IsHeap
  <2> QED  BY <1>4, <1>8, <2>2, <2>3, <2>4
<1>10. Objects' = [Objects EXCEPT ![Promised!top(3).n].elems = Promised!Stored(@, z, Promised!top(1))]
  <2>1. PICK v : v = Promised!Stored(t, z, Denotes(x))
    OBVIOUS
  <2>2. [Objects[a] EXCEPT !.elems = v] = [kind |-> "array", elems |-> v] /\ Objects[a].elems = t
    BY <1>6
  <2>3. Promised!Stored(Objects[a].elems, z, Promised!top(1)) = v
    BY <1>2, <1>3, <2>1, <2>2
  <2> QED  BY <1>6, <1>9, <2>1, <2>2, <2>3
<1>11. Promised!IsIndex(Promised!top(2), z) \/ Promised!top(2).t # "fix"
  BY <1>2, <1>3, <1>4, IndexMapped
<1>12. Promised!Executing("opt_aset") /\ Promised!Yields(3, <<Promised!top(1)>>) /\ UNCHANGED <<Localvars, IvarsOf>>
  <2>1. popPush(3, <<x>>)
    BY <1>1, <1>3
  <2> QED  BY <1>1, <1>2, <1>3, <2>1, YieldsOne, Untouched DEF Ops, Shape
<1>13. Promised!opt_aset
  BY <1>4, <1>6, <1>10, <1>11, <1>12 DEF Promised!opt_aset, Objects, Localvars, IvarsOf
<1> QED  BY <1>13 DEF Promised!Next

\* The index is no index of any array: it is negative, or no integer.
LEMMA IndexTooBigRefines ==
    ASSUME Inv, indexTooBig
    PROVE  Promised!Next
<1>1. /\ Executing("opt_aset") /\ block = "op" /\ IsArray(peek(3)) /\ fix2int(peek(2)) >= MaxArrayLen
      /\ Halt("raised")
  BY DEF indexTooBig, Executing, Fetched
<1>2. /\ peek(2) \in Word /\ Promised!top(2) = Denotes(peek(2))
      /\ peek(3) \in Word /\ Promised!top(3) = Denotes(peek(3))
  <2>1. /\ "opt_aset" \in Ops /\ 2 \in 1 .. Shape["opt_aset"][1] /\ 3 \in 1 .. Shape["opt_aset"][1]
    BY DEF Ops, Shape
  <2> QED  BY <1>1, <2>1, Reads
<1>3. Promised!IsArray(Promised!top(3))
  BY <1>1, <1>2, ArrayMapped
<1>4. \A i \in 0 .. MaxArrayLen - 1 : ~Promised!IsIndex(Promised!top(2), i)
  BY <1>1, <1>2, IndexMapped, MaxArrayLenAssumption
<1>5. Promised!Halt("raised")
  BY <1>1, HaltsMapped
<1>6. Promised!Executing("opt_aset")
  BY <1>1, Execution
<1>7. Promised!raise
  BY <1>3, <1>4, <1>5, <1>6 DEF Promised!raise
<1> QED  BY <1>7 DEF Promised!Next

\* The access hits no array, or no element of one.
LEMMA WildRefines ==
    ASSUME Inv, Wild
    PROVE  Promised!Next
<1>1. Halt("wild")
  BY DEF Wild
<1>2. Promised!Halt("undefined")
  BY <1>1, HaltsMapped
<1>3. ASSUME NEW op \in {"opt_aref", "opt_length", "opt_aset"}, Executing(op), NEW n \in 1 .. Shape[op][1]
      PROVE  /\ peek(n) \in Word /\ Promised!top(n) = Denotes(peek(n)) /\ block = "op" /\ status = "running"
             /\ Promised!Executing(op) /\ pc < Len(program.code) /\ Promised!ins.op = op /\ Status = "running"
             /\ Promised!IsArray(Promised!top(n)) <=> IsArray(peek(n))
  <2>1. op \in Ops /\ op # "newhash"
    BY DEF Ops, Shape
  <2>2. peek(n) \in Word /\ Promised!top(n) = Denotes(peek(n)) /\ block = "op" /\ status = "running"
        /\ pc < Len(program.code) /\ code[pc + 1].op = op
    BY <1>3, <2>1, Reads DEF Executing, Fetched, code
  <2>3. Promised!Executing(op) /\ Promised!ins.op = op /\ Status = "running"
    BY <1>3, <2>2, Execution, Mapped DEF Status
  <2>4. Promised!IsArray(Promised!top(n)) <=> IsArray(peek(n))
    BY <2>2, ArrayMapped
  <2> QED  BY <2>2, <2>3, <2>4
<1>4. CASE Executing("opt_length") /\ ~IsArray(peek(1))
  <2>1. 1 \in 1 .. Shape["opt_length"][1]
    BY DEF Shape
  <2>2. status = "running" /\ pc < Len(program.code) /\ Promised!ins.op = "opt_length" /\ Status = "running"
        /\ ~Promised!IsArray(Promised!top(1))
    BY <1>3, <1>4, <2>1
  <2>3. Promised!undefined
    BY <1>2, <2>2 DEF Promised!undefined, Status
  <2> QED  BY <2>3 DEF Promised!Next
<1>5. CASE Executing("opt_aset") /\ ~IsArray(peek(3))
  <2>1. 3 \in 1 .. Shape["opt_aset"][1]
    BY DEF Shape
  <2>2. status = "running" /\ pc < Len(program.code) /\ Promised!ins.op = "opt_aset" /\ Status = "running"
        /\ ~Promised!IsArray(Promised!top(3))
    BY <1>3, <1>5, <2>1
  <2>3. Promised!undefined
    BY <1>2, <2>2 DEF Promised!undefined, Status
  <2> QED  BY <2>3 DEF Promised!Next
<1>6. CASE Executing("opt_aref") /\ ~(IsArray(peek(2)) /\ fix2int(peek(1)) < Len(elems(peek(2))))
  <2>1. 1 \in 1 .. Shape["opt_aref"][1] /\ 2 \in 1 .. Shape["opt_aref"][1]
    BY DEF Shape
  <2>2. /\ peek(1) \in Word /\ Promised!top(1) = Denotes(peek(1))
        /\ peek(2) \in Word /\ Promised!top(2) = Denotes(peek(2)) /\ block = "op"
        /\ status = "running" /\ pc < Len(program.code) /\ Promised!ins.op = "opt_aref" /\ Status = "running"
        /\ Promised!IsArray(Promised!top(2)) <=> IsArray(peek(2))
    BY <1>3, <1>6, <2>1
  <2>3. ASSUME IsArray(peek(2)), NEW i \in 0 .. Len(Promised!Elems(Promised!top(2))) - 1,
               Promised!IsIndex(Promised!top(1), i)
        PROVE  FALSE
    <3>1. elems(peek(2)) \in Seq(Word) /\ Len(elems(peek(2))) <= MaxArrayLen
      BY <2>2, <2>3, ArrayElems
    <3>2. Promised!Elems(Promised!top(2)) = [j \in 1 .. Len(elems(peek(2))) |-> Denotes(elems(peek(2))[j])]
      BY <2>2, <2>3, ArrayMapped
    <3>3. Len(Promised!Elems(Promised!top(2))) = Len(elems(peek(2))) /\ Len(elems(peek(2))) \in Nat
      BY <3>1, <3>2
    <3>4. i \in 0 .. MaxArrayLen - 1 /\ i < Len(elems(peek(2)))
      BY <3>1, <3>3, MaxArrayLenAssumption, FixLimitAssumption
    <3>5. fix2int(peek(1)) = i
      BY <2>2, <2>3, <3>4, IndexMapped
    <3> QED  BY <1>6, <2>3, <3>4, <3>5
  <2>4. Promised!undefined
    BY <1>2, <2>2, <2>3 DEF Promised!undefined, Status
  <2> QED  BY <2>4 DEF Promised!Next
<1> QED  BY <1>4, <1>5, <1>6 DEF Wild

LEMMA IvarRefines ==
    ASSUME Inv, getinstancevariable \/ setinstancevariable
    PROVE  Promised!Next
<1>1. ASSUME NEW op \in {"getinstancevariable", "setinstancevariable"}, Executing(op)
      PROVE  operand \in Ivars /\ operand = Promised!ins.arg /\ Promised!Executing(op)
  <2>1. Promised!Executing(op) /\ operand = Promised!ins.arg
    BY <1>1, Execution
  <2>2. operand \in Ivars
    BY <1>1, FetchedInstr, ProgramsAssumption DEF Executing, Inv, operand, code
  <2> QED  BY <2>1, <2>2
<1>2. ivars \in [Ivars -> Word] /\ DOMAIN IvarsOf = Ivars
  BY DEF Inv, TypeOK, IvarsOf
<1>3. CASE getinstancevariable
  <2>1. /\ Executing("getinstancevariable") /\ popPush(0, <<ivars[operand]>>) /\ next
        /\ UNCHANGED <<locals, heap, ivars, block, hash>>
    BY <1>3 DEF getinstancevariable, push, onlyStack, next, registers
  <2>2. operand \in Ivars /\ operand = Promised!ins.arg
    BY <1>1, <2>1
  <2>3. ivars[operand] \in Word /\ Denotes(ivars[operand]) = IvarsOf[operand]
    BY <1>2, <2>2 DEF IvarsOf
  <2>4. Promised!Executing("getinstancevariable") /\ Promised!Yields(0, <<Denotes(ivars[operand])>>) /\ Promised!pure
    BY <2>1, <2>3, YieldsOne, StaysPure DEF Ops, Shape
  <2>5. Promised!getinstancevariable
    BY <2>2, <2>3, <2>4 DEF Promised!getinstancevariable, IvarsOf
  <2> QED  BY <2>5 DEF Promised!Next
<1>4. CASE setinstancevariable
  <2>1. /\ Executing("setinstancevariable") /\ ivars' = [ivars EXCEPT ![operand] = peek(1)] /\ next
        /\ UNCHANGED <<stack, stack_ptr, locals, heap, block, hash>>
    BY <1>4 DEF setinstancevariable, next, registers
  <2>2. operand \in Ivars /\ operand = Promised!ins.arg /\ Promised!Executing("setinstancevariable")
    BY <1>1, <2>1
  <2>3. peek(1) \in Word /\ Promised!top(1) = Denotes(peek(1))
    <3>1. "setinstancevariable" \in Ops /\ 1 \in 1 .. Shape["setinstancevariable"][1]
      BY DEF Ops, Shape
    <3> QED  BY <2>1, <3>1, Reads
  <2>4. PICK w, x : w = peek(1) /\ x = operand
    OBVIOUS
  <2>5. IvarsOf' = [IvarsOf EXCEPT ![x] = Denotes(w)]
    <3>1. ivars' = [ivars EXCEPT ![x] = w] /\ x \in Ivars
      BY <2>1, <2>2, <2>4
    <3> QED  BY <1>2, <3>1 DEF IvarsOf
  <2>6. Promised!Yields(0, <<>>) /\ UNCHANGED <<Localvars, Objects>>
    BY <2>1, Kept, GoesOn, Untouched
  <2>7. Promised!setinstancevariable
    BY <2>2, <2>3, <2>4, <2>5, <2>6 DEF Promised!setinstancevariable, IvarsOf, Localvars, Objects
  <2> QED  BY <2>7 DEF Promised!Next
<1> QED  BY <1>3, <1>4

\* The interpreter hands out a reference nobody holds: to the program it is a
\* new object, whatever the heap holds for it later.
LEMMA Allocated ==
    ASSUME Inv, block = "op", UNCHANGED block, NEW r \in Refs, NEW obj, allocate(obj, r)
    PROVE  Promised!Allocates(View(obj), r)
<1>1. heap[r].kind = "free" /\ heap' = [heap EXCEPT ![r] = obj] /\ DOMAIN heap = Refs
  BY DEF allocate, Inv, TypeOK, IsHeap
<1>2. Objects = [q \in Refs |-> View(heap[q])] /\ Objects' = [q \in Refs |-> View(heap'[q])]
  BY HeapMapped
<1>3. View(heap[r]).kind = "free"
  BY <1>1 DEF View
<1>4. Objects[r].kind = "free" /\ Objects' = [Objects EXCEPT ![r] = View(obj)]
  BY <1>1, <1>2, <1>3
<1> QED  BY <1>4 DEF Promised!Allocates, Objects

LEMMA MakesRefines ==
    ASSUME Inv, newarray \/ send
    PROVE  Promised!Next
<1>1. View(Array(<<>>)) = [kind |-> "array", elems |-> <<>>] /\ View(String) = [kind |-> "string", elems |-> <<>>]
  BY DEF View, Array, String
<1>2. ASSUME NEW op \in {"newarray", "send"}, Executing(op), NEW obj, NEW r \in Refs,
             allocate(obj, r), popPush(0, <<r>>), next, UNCHANGED <<locals, ivars>>
      PROVE  Promised!Makes(op, View(obj))
  <2>1. op \in Ops /\ op # "newhash" /\ Shape[op] = <<0, 0, 1>> /\ block = "op" /\ UNCHANGED block
    BY <1>2 DEF Ops, Shape, Executing, Fetched, next, registers
  <2>2. Promised!Allocates(View(obj), r)
    BY <1>2, <2>1, Allocated
  <2>3. r \in Word /\ Denotes(r) = Obj(r)
    BY RefsAssumption DEF Denotes
  <2>4. Promised!Executing(op) /\ Promised!Yields(0, <<Obj(r)>>)
    BY <1>2, <2>1, <2>3, YieldsOne
  <2>5. UNCHANGED <<Localvars, IvarsOf>>
    BY <1>2, Untouched
  <2> QED  BY <2>2, <2>4, <2>5, SameWords DEF Promised!Makes, Localvars, IvarsOf
<1>3. CASE newarray
  <2>1. Promised!Makes("newarray", View(Array(<<>>)))
    BY <1>2, <1>3 DEF newarray, push
  <2>2. Promised!newarray
    BY <1>1, <2>1 DEF Promised!newarray
  <2> QED  BY <2>2 DEF Promised!Next
<1>4. CASE send
  <2>1. Promised!Makes("send", View(String))
    BY <1>2, <1>4 DEF send, push
  <2>2. Promised!send
    BY <1>1, <2>1 DEF Promised!send
  <2> QED  BY <2>2 DEF Promised!Next
<1> QED  BY <1>3, <1>4

LEMMA OutOfMemoryRefines ==
    ASSUME Inv, outOfMemory
    PROVE  Promised!Next
<1>1. Halt("raised") /\ (Executing("newarray") \/ Executing("send") \/ Fetched({"newhash"}))
  BY DEF outOfMemory
<1>2. Promised!Halt("raised")
  BY <1>1, HaltsMapped
<1>3. Promised!Executing("newarray") \/ Promised!Executing("send") \/ Promised!Fetched("newhash")
  <2>1. Fetched({"newhash"}) => Promised!Fetched("newhash")
    BY Mapped DEF Fetched, Status
  <2> QED  BY <1>1, <2>1, Execution
<1>4. Promised!raise
  BY <1>2, <1>3 DEF Promised!raise
<1> QED  BY <1>4 DEF Promised!Next

LEMMA ObjectRefines ==
    ASSUME Inv, ObjectStep
    PROVE  Promised!Next
  BY ArefRefines, LengthRefines, AsetRefines, IndexTooBigRefines, WildRefines, IvarRefines, MakesRefines,
     OutOfMemoryRefines DEF ObjectStep

-----------------------------------------------------------------------------
(* newhash: what its loop has built so far.                                *)

Evens(m) == { i \in 0 .. m - 1 : i % 2 = 0 }

\* f maps the words at the even slots of s above b, m slots in all, each to the
\* word one slot above its last occurrence.
PairsOf(s, f, b, m) ==
    /\ DOMAIN f = { s[b + i] : i \in Evens(m) }
    /\ \A i \in Evens(m) :
           (\A j \in Evens(m) : j > i => s[b + j] # s[b + i]) => f[s[b + i]] = s[b + i + 1]

\* The loop has read m slots, from the lowest operand up; after its last round
\* these are the operands, and the slot above the top for an odd count.
LoopBuilt(b, m) ==
    /\ m >= 0 /\ m % 2 = 0 /\ idx >= -1 /\ (block = "exit" => idx <= 0)
    /\ m > 0 => b >= 0 /\ \A s \in b .. b + m - 1 : s \in Slots /\ stack[s] \in Word
    /\ PairsOf(stack, heap[hash].elems, b, m)

HashBuilt ==
    block # "op" =>
        /\ operand <= 0 => block = "exit" /\ heap[hash].elems = <<>>
        /\ operand > 0  => LoopBuilt(stack_ptr - operand, operand - idx)

LEMMA EvenSteps ==
    ASSUME NEW m \in Nat, m % 2 = 0
    PROVE  /\ Evens(m + 2) = Evens(m) \cup {m} /\ (m + 2) % 2 = 0
           /\ \A i \in Evens(m) : i \in Nat /\ i + 1 < m
<1>1. ASSUME NEW i \in 0 .. m - 1, i % 2 = 0 PROVE i + 1 < m
  <2>1. (m - 1) % 2 # 0
    OBVIOUS
  <2>2. i < m - 1 \/ i = m - 1
    OBVIOUS
  <2> QED  BY <1>1, <2>1, <2>2
<1>2. (m + 1) % 2 = 1 /\ (m + 2) % 2 = 0
  OBVIOUS
<1>3. \A i : i \in 0 .. m + 1 <=> i \in 0 .. m - 1 \/ i = m \/ i = m + 1
  OBVIOUS
<1>4. m + 2 - 1 = m + 1
  OBVIOUS
<1> QED  BY <1>1, <1>2, <1>3, <1>4 DEF Evens

LEMMA LoopRound ==
    ASSUME Inv, HashBuilt, hashLoop
    PROVE  HashBuilt'
<1>1. /\ status = "running" /\ block = "loop" /\ idx > 0 /\ hash \in Refs /\ heap[hash].kind = "hash" /\ idx \in Int
      /\ stack_ptr \in Nat /\ IsHeap(heap) /\ operand \in Int /\ stack \in [Slots -> MaybeWord] /\ StackSize \in Nat
  <2>1. status = "running" /\ block = "loop"
    BY DEF hashLoop
  <2>2. code[pc + 1] \in Instr
    BY <2>1, InHash
  <2> QED  BY <2>1, <2>2, InHash, SizeAssumption DEF Inv, TypeOK, operand, Instr
<1>2. PICK v \in contents(peek(idx - 1)) :
          /\ heap' = [heap EXCEPT ![hash].elems = rb_hash_aset(@, peek(idx), v)]
          /\ stack' = [stack EXCEPT ![stack_ptr - idx + 1] = v]
  BY DEF hashLoop
<1>3. /\ stack_ptr - idx >= 0 /\ stack_ptr - idx + 1 < StackSize /\ idx' = idx - 2
      /\ block' = (IF idx - 2 > 0 THEN "loop" ELSE "exit") /\ UNCHANGED <<stack_ptr, hash, operand>>
  BY DEF hashLoop, operand, code
<1>4. PICK b, m, k, f : b = stack_ptr - operand /\ m = operand - idx /\ k = peek(idx) /\ f = heap[hash].elems
  OBVIOUS
<1>5. operand > 0 /\ LoopBuilt(b, m)
  BY <1>1, <1>4 DEF HashBuilt
<1>6. /\ b \in Nat /\ m \in Nat /\ m % 2 = 0 /\ stack_ptr - idx = b + m
      /\ b + m \in Slots /\ b + m + 1 \in Slots /\ k = stack[b + m] /\ peek(idx - 1) = stack[b + m + 1]
  <2>1. b \in Int /\ m \in Nat /\ m % 2 = 0 /\ stack_ptr - idx = b + m /\ stack_ptr - (idx - 1) = b + m + 1
    BY <1>1, <1>4, <1>5 DEF LoopBuilt
  <2>2. b >= 0
    BY <1>1, <1>3, <1>5, <2>1 DEF LoopBuilt
  <2>3. b + m \in 0 .. StackSize - 1 /\ b + m + 1 \in 0 .. StackSize - 1
    BY <1>1, <1>3, <2>1, <2>2
  <2> QED  BY <1>4, <2>1, <2>2, <2>3 DEF Slots, peek
<1>7. k \in Word /\ v \in Word
  <2>1. k \in Word
    BY <1>1, <1>3, <1>4, PeekWord
  <2>2. stack[b + m + 1] \in MaybeWord
    BY <1>1, <1>6
  <2> QED  BY <1>2, <1>6, <2>1, <2>2 DEF contents, MaybeWord
<1>8. /\ \A i \in Int : i < m + 1 => stack'[b + i] = stack[b + i] \/ b + i \notin Slots
      /\ stack'[b + m] = k /\ stack'[b + m + 1] = v
  BY <1>1, <1>2, <1>6
<1>9. PICK g : g = rb_hash_aset(f, k, v)
  OBVIOUS
<1>10. heap'[hash].elems = g
  <2>1. heap[hash] = Hash(f)
    BY <1>1, <1>4, Kinds DEF IsHeap
  <2>2. [heap[hash] EXCEPT !.elems = g] = Hash(g)
    BY <2>1 DEF Hash
  <2>3. heap' = [heap EXCEPT ![hash] = Hash(g)]
    BY <1>2, <1>4, <1>9, <2>2
  <2> QED  BY <1>1, <2>3 DEF IsHeap, Hash
<1>11. /\ Evens(m + 2) = Evens(m) \cup {m} /\ (m + 2) % 2 = 0 /\ \A i \in Evens(m) : i \in Nat /\ i + 1 < m
       /\ m \in Evens(m + 2)
  BY <1>6, EvenSteps
<1>12. \A i \in Evens(m) : stack'[b + i] = stack[b + i] /\ stack'[b + i + 1] = stack[b + i + 1]
  <2>1. ASSUME NEW i \in Evens(m)
        PROVE  stack'[b + i] = stack[b + i] /\ stack'[b + i + 1] = stack[b + i + 1]
    <3>1. i \in Nat /\ i + 1 < m
      BY <1>11
    <3>2. b + i \in Slots /\ b + i + 1 \in Slots /\ b + i # b + m + 1 /\ b + i + 1 # b + m + 1
      <4>1. b + m + 1 <= StackSize - 1
        BY <1>1, <1>6 DEF Slots
      <4> QED  BY <1>1, <1>6, <3>1, <4>1 DEF Slots
    <3> QED  BY <1>1, <1>2, <1>6, <3>2
  <2> QED  BY <2>1
<1>13. DOMAIN g = { stack'[b + i] : i \in Evens(m + 2) }
  <2>1. DOMAIN f = { stack[b + i] : i \in Evens(m) }
    BY <1>4, <1>5 DEF LoopBuilt, PairsOf
  <2>2. DOMAIN g = DOMAIN f \cup {k}
    BY <1>9 DEF rb_hash_aset
  <2>3. { stack'[b + i] : i \in Evens(m + 2) } = { stack[b + i] : i \in Evens(m) } \cup {k}
    BY <1>8, <1>11, <1>12
  <2> QED  BY <2>1, <2>2, <2>3
<1>14. ASSUME NEW i \in Evens(m + 2), \A j \in Evens(m + 2) : j > i => stack'[b + j] # stack'[b + i]
       PROVE  g[stack'[b + i]] = stack'[b + i + 1]
  <2>1. CASE i = m
    <3>1. g[k] = v
      BY <1>9 DEF rb_hash_aset
    <3> QED  BY <1>8, <2>1, <3>1
  <2>2. CASE i # m
    <3>1. i \in Evens(m) /\ i \in Nat /\ i < m
      BY <1>6, <1>11, <2>2
    <3>2. \A j \in Evens(m) : j > i => stack[b + j] # stack[b + i]
      BY <1>11, <1>12, <1>14, <3>1
    <3>3. f[stack[b + i]] = stack[b + i + 1] /\ stack[b + i] \in DOMAIN f
      BY <1>4, <1>5, <3>1, <3>2 DEF LoopBuilt, PairsOf
    <3>4. stack[b + i] # k
      BY <1>6, <1>8, <1>11, <1>12, <1>14, <3>1
    <3>5. g[stack[b + i]] = f[stack[b + i]]
      BY <1>9, <3>3, <3>4 DEF rb_hash_aset
    <3> QED  BY <1>12, <3>1, <3>3, <3>5
  <2> QED  BY <2>1, <2>2
<1>15. \A s \in b .. b + (m + 2) - 1 : s \in Slots /\ stack'[s] \in Word
  <2>1. ASSUME NEW s \in b .. b + (m + 2) - 1
        PROVE  s \in Slots /\ stack'[s] \in Word
    <3>1. s \in b .. b + m - 1 \/ s = b + m \/ s = b + m + 1
      BY <1>6
    <3>2. CASE s \in b .. b + m - 1
      <4>1. m > 0 /\ s # b + m + 1
        BY <1>6, <3>2
      <4>2. s \in Slots /\ stack[s] \in Word
        BY <1>5, <3>2, <4>1 DEF LoopBuilt
      <4> QED  BY <1>1, <1>2, <1>6, <4>1, <4>2
    <3>3. CASE s = b + m \/ s = b + m + 1
      BY <1>6, <1>7, <1>8, <3>3
    <3> QED  BY <3>1, <3>2, <3>3
  <2> QED  BY <2>1
<1>16. PICK n : n = m + 2
  OBVIOUS
<1>17. b = (stack_ptr - operand)' /\ n = (operand - idx)' /\ operand' > 0 /\ n \in Nat
  BY <1>1, <1>3, <1>4, <1>5, <1>6, <1>16
<1>18. n >= 0 /\ n % 2 = 0 /\ idx' >= -1 /\ (block' = "exit" => idx' <= 0)
  BY <1>1, <1>3, <1>6, <1>11, <1>16
<1>19. b >= 0 /\ \A s \in b .. b + n - 1 : s \in Slots /\ stack'[s] \in Word
  BY <1>6, <1>15, <1>16
<1>20. PairsOf(stack', heap'[hash].elems, b, n)
  BY <1>10, <1>13, <1>14, <1>16 DEF PairsOf
<1>21. LoopBuilt(stack_ptr - operand, operand - idx)'
  BY <1>3, <1>17, <1>18, <1>19, <1>20 DEF LoopBuilt
<1>22. ~(operand' <= 0)
  BY <1>1, <1>3, <1>5
<1> QED  BY <1>21, <1>22 DEF HashBuilt

LEMMA HashStarts ==
    ASSUME Inv, newhash
    PROVE  HashBuilt'
<1>1. PICK r \in Refs : heap[r].kind = "free" /\ heap' = [heap EXCEPT ![r] = Hash(<<>>)] /\ hash' = r
  BY DEF newhash, allocate
<1>2. /\ idx' = operand /\ block' = (IF operand > 0 THEN "loop" ELSE "exit") /\ UNCHANGED <<operand, stack_ptr, stack>>
      /\ operand \in Int /\ stack_ptr \in Nat
  <2>1. operand \in Int
    BY FetchedInstr DEF newhash
  <2> QED  BY <2>1, OperandStack DEF newhash, operand, code, memory
<1>3. heap'[hash'].elems = <<>> /\ DOMAIN heap = Refs
  BY <1>1 DEF Inv, TypeOK, IsHeap, Hash
<1>4. \A b : PairsOf(stack', <<>>, b, 0)
  <2>1. Evens(0) = {}
    BY DEF Evens
  <2> QED  BY <2>1 DEF PairsOf
<1>5. CASE operand > 0
  <2>1. PICK b, m : b = (stack_ptr - operand)' /\ m = (operand - idx)'
    OBVIOUS
  <2>2. m = 0 /\ m >= 0 /\ m % 2 = 0 /\ idx' >= -1 /\ block' # "exit" /\ ~(m > 0)
    BY <1>2, <1>5, <2>1
  <2>3. PairsOf(stack', heap'[hash'].elems, b, m)
    BY <1>3, <1>4, <2>2
  <2>4. LoopBuilt(stack_ptr - operand, operand - idx)'
    BY <2>1, <2>2, <2>3 DEF LoopBuilt
  <2> QED  BY <1>2, <1>5, <2>4 DEF HashBuilt
<1>6. CASE ~(operand > 0)
  BY <1>2, <1>3, <1>6 DEF HashBuilt
<1> QED  BY <1>5, <1>6

\* No instruction but newhash leaves its basic block.
LEMMA InOneBlock ==
    ASSUME Inv, \/ enter \/ Overrun \/ StackStep \/ LocalStep \/ ArithStep \/ ObjectStep \/ BranchStep
    PROVE  block = "op" /\ UNCHANGED block
<1>1. ASSUME NEW ops, Fetched(ops) PROVE block = "op"
  BY <1>1 DEF Fetched
<1>2. ASSUME NEW s, Halt(s) PROVE UNCHANGED block
  BY <1>2 DEF Halt
<1>3. next => UNCHANGED block
  BY DEF next, registers
<1>4. ASSUME NEW i, goto(i) PROVE UNCHANGED block
  BY <1>4 DEF goto, registers
<1>5. CASE enter
  BY <1>5 DEF enter, Inv, TypeOK
<1>6. CASE Overrun
  BY <1>1, <1>2, <1>6 DEF Overrun
<1>7. CASE StackStep
  BY <1>1, <1>3, <1>7 DEF StackStep, nop, putnil, putself, putobject, pop, dup, swap, onlyStack, Executing
<1>8. CASE LocalStep
  BY <1>1, <1>2, <1>3, <1>8 DEF LocalStep, setlocal, getlocal, localOverrun, Executing
<1>9. CASE ArithStep
  BY <1>1, <1>3, <1>9
  DEF ArithStep, opt_plus, opt_minus, opt_mult, opt_lt, opt_gt, opt_ge, arithmetic, onlyStack, Executing
<1>10. CASE ObjectStep
  BY <1>1, <1>2, <1>3, <1>10
  DEF ObjectStep, opt_aref, opt_length, opt_aset, indexTooBig, Wild, getinstancevariable, setinstancevariable,
      newarray, send, outOfMemory, onlyStack, Executing
<1>11. CASE BranchStep
  BY <1>1, <1>2, <1>4, <1>11
  DEF BranchStep, jump, branchif, branchunless, return, returnOverrun, Executing
<1> QED  BY <1>5, <1>6, <1>7, <1>8, <1>9, <1>10, <1>11

LEMMA HashKept ==
    ASSUME Inv, HashBuilt, [Next]_vars
    PROVE  HashBuilt'
<1>1. CASE \/ enter \/ Overrun \/ StackStep \/ LocalStep \/ ArithStep \/ ObjectStep \/ BranchStep
  BY <1>1, InOneBlock DEF HashBuilt
<1>2. CASE newhash
  BY <1>2, HashStarts
<1>3. CASE hashLoop
  BY <1>3, LoopRound
<1>4. CASE hashExit
  BY <1>4 DEF hashExit, HashBuilt
<1>5. CASE hashOverrun \/ Finished \/ UNCHANGED vars
  <2>1. UNCHANGED <<program, stack, stack_ptr, pc, block, hash, idx, heap>>
    BY <1>5 DEF hashOverrun, Halt, Finished, vars, memory
  <2>2. UNCHANGED operand
    BY <2>1 DEF operand, code
  <2> QED  BY <2>1, <2>2 DEF HashBuilt, LoopBuilt
<1> QED  BY <1>1, <1>2, <1>3, <1>4, <1>5 DEF Next, Step, HashStep

\* The largest element of a set of numbers.
LEMMA Greatest ==
    ASSUME NEW n \in Nat, NEW T, T \subseteq 0 .. n, T # {}
    PROVE  \E x \in T : \A y \in T : y <= x
<1>1. PICK R : IsWellFoundedOn(R, Nat) /\ \A x, y \in Nat : y < x => <<y, x>> \in R
  <2>1. \A x, y \in Nat : y < x => <<y, x>> \in OpToRel(<, Nat)
    BY DEF OpToRel
  <2> QED  BY <2>1, NatLessThanWellFounded, Zenon
<1>2. PICK U : U = { n - x : x \in T }
  OBVIOUS
<1>3. U \subseteq Nat /\ U # {}
  <2>1. \A x \in T : n - x \in Nat
    OBVIOUS
  <2>2. PICK x : x \in T
    OBVIOUS
  <2> QED  BY <1>2, <2>1, <2>2
<1>4. PICK u \in U : \A y \in U : ~(<<y, u>> \in R)
  BY <1>1, <1>3, WFMin
<1>5. PICK x \in T : u = n - x
  BY <1>2, <1>4
<1>6. ASSUME NEW y \in T PROVE y <= x
  <2>1. n - y \in U /\ n - y \in Nat /\ u \in Nat
    BY <1>2, <1>3, <1>4
  <2>2. ~(n - y < u)
    BY <1>1, <1>4, <2>1, Zenon
  <2>3. x \in Int /\ y \in Int
    OBVIOUS
  <2> QED  BY <1>5, <2>1, <2>2, <2>3
<1> QED  BY <1>6

\* vs are the values of the m words of s above b.
ValuesOf(vs, s, b, m) ==
    /\ DOMAIN vs = 1 .. m
    /\ \A i \in 1 .. m : s[b + i - 1] \in Word /\ vs[i] = Denotes(s[b + i - 1])

\* The hash the loop leaves behind maps the values of the operands as the
\* stack machine pairs them.
LEMMA PairsMapped ==
    ASSUME NEW s, NEW f, NEW b \in Nat, NEW m \in Nat, m % 2 = 0, PairsOf(s, f, b, m),
           NEW vs, ValuesOf(vs, s, b, m)
    PROVE  View(Hash(f)) = [kind |-> "hash", elems |-> Promised!Pairs(vs)]
<1>1. \A i \in Evens(m) : /\ i \in Nat /\ i + 1 < m /\ i + 1 \in 1 .. m /\ i + 2 \in 1 .. m /\ (i + 1) % 2 = 1
                          /\ s[b + i] \in Word /\ vs[i + 1] = Denotes(s[b + i])
                          /\ vs[i + 2] = Denotes(s[b + i + 1])
  <2>1. ASSUME NEW i \in Evens(m)
        PROVE  /\ i \in Nat /\ i + 1 < m /\ i + 1 \in 1 .. m /\ i + 2 \in 1 .. m /\ (i + 1) % 2 = 1
               /\ s[b + i] \in Word /\ vs[i + 1] = Denotes(s[b + i])
               /\ vs[i + 2] = Denotes(s[b + i + 1])
    <3>1. i \in Nat /\ i + 1 < m
      BY EvenSteps
    <3>2. (i + 1) % 2 = 1
      BY <3>1 DEF Evens
    <3>3. i + 1 \in 1 .. m /\ i + 2 \in 1 .. m /\ b + (i + 1) - 1 = b + i
          /\ b + (i + 2) - 1 = b + i + 1
      BY <3>1
    <3>4. /\ vs[i + 1] = Denotes(s[b + (i + 1) - 1]) /\ vs[i + 2] = Denotes(s[b + (i + 2) - 1])
          /\ s[b + (i + 1) - 1] \in Word
      BY <3>3 DEF ValuesOf
    <3> QED  BY <3>1, <3>2, <3>3, <3>4
  <2> QED  BY <2>1
<1>2. DOMAIN vs = 1 .. m
  BY DEF ValuesOf
<1>3. \A j \in DOMAIN vs : j % 2 = 1 => j - 1 \in Evens(m)
  <2>1. ASSUME NEW j \in 1 .. m, j % 2 = 1 PROVE j - 1 \in Evens(m)
    <3>1. (j - 1) % 2 = 0 /\ j - 1 \in 0 .. m - 1
      BY <2>1
    <3> QED  BY <3>1 DEF Evens
  <2> QED  BY <1>2, <2>1
<1>4. PICK K : K = { vs[i] : i \in { j \in DOMAIN vs : j % 2 = 1 } }
  OBVIOUS
<1>5. DOMAIN f = { s[b + i] : i \in Evens(m) }
  BY DEF PairsOf
<1>6. { Denotes(w) : w \in DOMAIN f } = K
  <2>1. ASSUME NEW w \in DOMAIN f PROVE Denotes(w) \in K
    <3>1. PICK i \in Evens(m) : w = s[b + i]
      BY <1>5
    <3> QED  BY <1>1, <1>2, <1>4, <3>1
  <2>2. ASSUME NEW k \in K PROVE \E w \in DOMAIN f : k = Denotes(w)
    <3>1. PICK j \in DOMAIN vs : j % 2 = 1 /\ k = vs[j]
      BY <1>4
    <3>2. j - 1 \in Evens(m) /\ (j - 1) + 1 = j
      BY <1>2, <1>3, <3>1
    <3>3. k = Denotes(s[b + (j - 1)]) /\ s[b + (j - 1)] \in DOMAIN f
      BY <1>1, <1>5, <3>1, <3>2
    <3> QED  BY <3>3
  <2> QED  BY <2>1, <2>2
<1>7. ASSUME NEW k \in K, NEW l, l = CHOOSE i \in DOMAIN vs : /\ i % 2 = 1 /\ vs[i] = k
                                             /\ \A j \in DOMAIN vs : j % 2 = 1 /\ vs[j] = k => j <= i
      PROVE  Denotes(f[CHOOSE w \in DOMAIN f : Denotes(w) = k]) = vs[l + 1]
  <2>1. PICK T : T = { i \in DOMAIN vs : i % 2 = 1 /\ vs[i] = k }
    OBVIOUS
  <2>2. T \subseteq 0 .. m /\ T # {}
    BY <1>2, <1>4, <2>1
  <2>3. \E i \in T : \A j \in T : j <= i
    BY <2>2, Greatest
  <2>4. /\ l \in DOMAIN vs /\ l % 2 = 1 /\ vs[l] = k
        /\ \A j \in DOMAIN vs : j % 2 = 1 /\ vs[j] = k => j <= l
    BY <1>7, <2>1, <2>3
  <2>5. PICK i : i = l - 1
    OBVIOUS
  <2>6. i \in Evens(m) /\ i \in Nat /\ l = i + 1 /\ l + 1 = i + 2
    <3>1. l - 1 \in Evens(m) /\ l \in Int
      BY <1>2, <1>3, <2>4
    <3>2. i \in Nat
      BY <1>1, <2>5, <3>1
    <3> QED  BY <2>5, <3>1, <3>2
  <2>7. \A j \in Evens(m) : j > i => s[b + j] # s[b + i]
    <3>1. ASSUME NEW j \in Evens(m), j > i, s[b + j] = s[b + i] PROVE FALSE
      <4>1. vs[j + 1] = k /\ j + 1 \in DOMAIN vs /\ (j + 1) % 2 = 1 /\ j \in Nat
        BY <1>1, <1>2, <2>4, <2>6, <3>1
      <4>2. j + 1 <= l
        BY <2>4, <4>1
      <4> QED  BY <2>6, <3>1, <4>1, <4>2
    <3> QED  BY <3>1
  <2>8. f[s[b + i]] = s[b + i + 1]
    BY <2>6, <2>7 DEF PairsOf
  <2>9. \A w \in DOMAIN f : Denotes(w) = k => w = s[b + i]
    <3>1. ASSUME NEW w \in DOMAIN f, Denotes(w) = k PROVE w = s[b + i]
      <4>1. w \in Word
        BY <1>1, <1>5
      <4>2. s[b + i] \in Word /\ Denotes(s[b + i]) = k
        BY <1>1, <2>4, <2>6
      <4> QED  BY <3>1, <4>1, <4>2, DenotesApart
    <3> QED  BY <3>1
  <2>10. s[b + i] \in DOMAIN f /\ Denotes(s[b + i]) = k
    BY <1>1, <1>5, <2>4, <2>6
  <2>11. (CHOOSE w \in DOMAIN f : Denotes(w) = k) = s[b + i]
    BY <2>9, <2>10
  <2>12. vs[l + 1] = Denotes(s[b + i + 1])
    BY <1>1, <2>6
  <2> QED  BY <2>8, <2>11, <2>12
<1>8. [k \in K |-> Denotes(f[CHOOSE w \in DOMAIN f : Denotes(w) = k])] = Promised!Pairs(vs)
  <2> DEFINE latest(k) == CHOOSE i \in DOMAIN vs : /\ i % 2 = 1 /\ vs[i] = k
                                   /\ \A j \in DOMAIN vs : j % 2 = 1 /\ vs[j] = k => j <= i
             val(k) == Denotes(f[CHOOSE w \in DOMAIN f : Denotes(w) = k])
  <2>1. \A k \in K : val(k) = vs[latest(k) + 1]
    BY <1>7
  <2>2. Promised!Pairs(vs) = [k \in K |-> vs[latest(k) + 1]]
    BY <1>4, Zenon DEF Promised!Pairs
  <2> HIDE DEF latest, val
  <2>3. [k \in K |-> val(k)] = [k \in K |-> vs[latest(k) + 1]]
    BY <2>1
  <2> QED  BY <2>2, <2>3 DEF val
<1>9. View(Hash(f)) = [kind |-> "hash", elems |-> [k \in K |-> Denotes(f[CHOOSE w \in DOMAIN f : Denotes(w) = k])]]
  BY <1>6 DEF View, Hash
<1> QED  BY <1>8, <1>9

LEMMA HashExitRefines ==
    ASSUME Inv, HashBuilt, hashExit
    PROVE  Promised!Next
<1>1. /\ status = "running" /\ block = "exit" /\ stack_ptr < StackSize /\ popPush(0, <<hash>>)
      /\ block' = "op" /\ pc' = pc + 1
      /\ UNCHANGED <<program, self, farg, locals, hash, heap, ivars, status, result>>
  BY DEF hashExit, push
<1>2. /\ pc < Len(code) /\ code[pc + 1].op = "newhash" /\ hash \in Refs /\ hash \in Word
      /\ heap[hash].kind = "hash" /\ IsHeap(heap) /\ operand \in Int /\ idx \in Int
      /\ stack_ptr \in Nat /\ Len(Operands) = stack_ptr /\ StackSize \in Nat /\ stack \in [Slots -> MaybeWord]
  <2>1. status = "running" /\ block # "op"
    BY <1>1
  <2>2. code[pc + 1] \in Instr /\ pc \in 0 .. Len(code) - 1 /\ Len(code) \in Nat
    BY <2>1, InHash DEF Inv, TypeOK, IsProgram, code
  <2>3. stack \in [Slots -> MaybeWord]
    BY DEF Inv, TypeOK
  <2> QED  BY <2>1, <2>2, <2>3, InHash, OperandStack, SizeAssumption DEF operand, Instr
<1>3. PICK f : f = heap[hash].elems
  OBVIOUS
<1>4. heap[hash] = Hash(f)
  BY <1>2, <1>3, Kinds DEF IsHeap
<1>5. /\ operand <= 0 => f = <<>>
      /\ operand > 0 => LoopBuilt(stack_ptr - operand, operand - idx) /\ idx <= 0
  BY <1>1, <1>3 DEF HashBuilt, LoopBuilt
<1>6. operand <= stack_ptr
  BY <1>2, <1>5 DEF LoopBuilt
<1>7. Promised!ins = code[pc + 1] /\ Promised!ins.arg = operand /\ Status = "running" /\ Promised!Fetched("newhash")
  BY <1>1, <1>2, Mapped DEF Status, operand
<1>8. Promised!Executing("newhash")
  <2>1. reads(code[pc + 1]) = operand /\ pops(code[pc + 1]) = 0 /\ pushes(code[pc + 1]) = 1
    BY <1>2 DEF reads, pops, pushes, Shape, operand
  <2>2. Promised!CanTake
    BY <1>1, <1>2, <1>6, <1>7, <2>1, SameShapes DEF Promised!CanTake, Operands
  <2> QED  BY <1>7, <2>2 DEF Promised!Executing
<1>9. PICK o, r : o = View(Hash(f)) /\ r = hash
  OBVIOUS
<1>10. Promised!Yields(0, <<Promised!Obj(r)>>)
  <2>1. Operands' = Promised!rest(0) \o <<Denotes(hash)>>
    <3>1. 0 <= stack_ptr /\ stack_ptr - 0 + 1 <= StackSize /\ 0 \in Nat
      BY <1>1, <1>2
    <3> QED  BY <1>1, <1>2, <3>1, ReplacedBy
  <2>2. Promised!still
    BY <1>1, Mapped, Untouched
  <2>3. Denotes(hash) = Promised!Obj(r)
    BY <1>2, <1>9, RefsAssumption, SameWords DEF Denotes
  <2> QED  BY <1>1, <2>1, <2>2, <2>3 DEF Promised!Yields, Operands
<1>11. Promised!Allocates(o, r)
  <2>1. Objects = [q \in Refs |-> IF q = hash THEN Free ELSE View(heap[q])]
    BY <1>1 DEF Objects
  <2>2. Objects' = [q \in Refs |-> View(heap[q])]
    BY <1>1 DEF Objects
  <2>3. Objects' = [Objects EXCEPT ![hash] = View(Hash(f))] /\ Objects[hash].kind = "free"
    BY <1>2, <1>4, <2>1, <2>2 DEF Free
  <2> QED  BY <1>9, <2>3 DEF Promised!Allocates, Objects
<1>12. UNCHANGED <<Localvars, IvarsOf>>
  BY <1>1, Untouched
<1>13. Promised!Makes("newhash", View(Hash(f)))
  <2>1. r \in Refs /\ Promised!Makes("newhash", o)
    BY <1>2, <1>8, <1>9, <1>10, <1>11, <1>12 DEF Promised!Makes, Localvars, IvarsOf
  <2> QED  BY <1>9, <2>1
<1> DEFINE vs(v) == IF operand <= 0 THEN <<>>
                    ELSE IF operand % 2 = 0 THEN Promised!last(operand) ELSE Append(Promised!last(operand), v)
<1>14. ASSUME NEW v \in RubyValues, View(Hash(f)) = [kind |-> "hash", elems |-> Promised!Pairs(vs(v))]
       PROVE  Promised!Next
  <2>1. Promised!newhash
    BY <1>7, <1>13, <1>14, SameWords DEF Promised!newhash
  <2> QED  BY <2>1 DEF Promised!Next
<1>15. CASE operand <= 0
  <2>1. PICK v : v \in RubyValues
    BY SmallWords DEF RubyValues
  <2>2. vs(v) = <<>> /\ f = <<>>
    BY <1>5, <1>15
  <2>3. View(Hash(<<>>)) = [kind |-> "hash", elems |-> Promised!Pairs(<<>>)]
    <3>1. PairsOf(stack, <<>>, 0, 0)
      BY DEF PairsOf, Evens
    <3>2. ValuesOf(<<>>, stack, 0, 0) /\ 0 % 2 = 0
      BY DEF ValuesOf
    <3> QED  BY <3>1, <3>2, PairsMapped
  <2> QED  BY <1>14, <2>1, <2>2, <2>3
<1>16. CASE operand > 0
  <2>1. PICK b, m : b = stack_ptr - operand /\ m = operand - idx
    OBVIOUS
  <2>2. /\ m \in Nat /\ m % 2 = 0 /\ b \in Nat /\ PairsOf(stack, f, b, m) /\ (idx = 0 \/ idx = -1)
        /\ \A i \in b .. b + m - 1 : stack[i] \in Word
    BY <1>2, <1>3, <1>5, <1>16, <2>1 DEF LoopBuilt
  <2>3. PICK t : t = [i \in 1 .. m |-> Denotes(stack[b + i - 1])]
    OBVIOUS
  <2>4. View(Hash(f)) = [kind |-> "hash", elems |-> Promised!Pairs(t)]
    <3>1. ValuesOf(t, stack, b, m)
      <4>1. \A i \in 1 .. m : b + i - 1 \in b .. b + m - 1
        BY <2>2
      <4> QED  BY <2>2, <2>3, <4>1 DEF ValuesOf
    <3> QED  BY <2>2, <3>1, PairsMapped
  <2>5. Promised!last(operand) = [i \in 1 .. operand |-> Denotes(stack[b + i - 1])]
    <3>1. Promised!last(operand) = SubSeq(Operands, b + 1, stack_ptr)
      BY <1>2, <2>1, Mapped
    <3>2. SubSeq(Operands, b + 1, stack_ptr) = [i \in 1 .. operand |-> Operands[b + i]]
      BY <1>2, <1>6, <1>16, <2>1, <2>2
    <3>3. \A i \in 1 .. operand : Operands[b + i] = Denotes(stack[b + i - 1])
      BY <1>2, <1>6, <1>16, <2>1, <2>2 DEF Operands
    <3> QED  BY <3>1, <3>2, <3>3
  <2>6. CASE idx = 0
    <3>1. PICK v : v \in RubyValues
      BY SmallWords DEF RubyValues
    <3>2. m = operand /\ ~(operand <= 0) /\ operand % 2 = 0
      BY <1>2, <1>16, <2>1, <2>2, <2>6
    <3>3. vs(v) = t
      BY <2>3, <2>5, <3>2
    <3> QED  BY <1>14, <2>4, <3>1, <3>3
  <2>7. CASE idx = -1
    <3>1. m = operand + 1 /\ ~(operand <= 0)
      BY <1>2, <1>16, <2>1, <2>7
    <3>2. operand % 2 # 0
      BY <1>2, <2>2, <3>1
    <3>3. PICK v : v = Denotes(stack[b + m - 1])
      OBVIOUS
    <3>4. v \in RubyValues
      <4>1. b + m - 1 \in b .. b + m - 1
        BY <1>2, <1>16, <2>2, <3>1
      <4> QED  BY <2>2, <3>3, <4>1 DEF RubyValues
    <3>5. Append(Promised!last(operand), v) = t
      <4>1. PICK q : q = Promised!last(operand)
        OBVIOUS
      <4>2. q = [i \in 1 .. operand |-> Denotes(stack[b + i - 1])] /\ operand \in Nat
        BY <1>2, <1>16, <2>5, <4>1
      <4>3. PICK S : S = { q[i] : i \in 1 .. operand }
        OBVIOUS
      <4>4. q \in Seq(S) /\ Len(q) = operand
        <5>1. q \in [1 .. operand -> S]
          BY <4>2, <4>3
        <5> QED  BY <4>2, <5>1
      <4>5. Append(q, v) = [i \in 1 .. operand + 1 |-> IF i <= operand THEN q[i] ELSE v]
        BY <4>2, <4>4
      <4>6. \A i \in 1 .. operand + 1 :
                (IF i <= operand THEN q[i] ELSE v) = Denotes(stack[b + i - 1])
        BY <2>2, <3>1, <3>3, <4>2
      <4> QED  BY <2>3, <3>1, <4>1, <4>5, <4>6
    <3>6. vs(v) = t
      BY <3>1, <3>2, <3>5
    <3> QED  BY <1>14, <2>4, <3>4, <3>6
  <2> QED  BY <2>2, <2>6, <2>7
<1> QED  BY <1>2, <1>15, <1>16

LEMMA HashRefines ==
    ASSUME Inv, HashBuilt, HashStep
    PROVE  Promised!Next \/ UNCHANGED <<program, self, farg, pc, Operands, Localvars, Objects, IvarsOf, status, result>>
<1>1. CASE newhash
  <2>1. PICK r \in Refs : heap[r].kind = "free" /\ heap' = [heap EXCEPT ![r] = Hash(<<>>)] /\ hash' = r
    BY <1>1 DEF newhash, allocate
  <2>2. /\ block = "op" /\ block' # "op" /\ UNCHANGED <<program, self, farg, stack, stack_ptr, locals, pc, ivars, status, result>>
    BY <1>1 DEF newhash, Fetched, memory
  <2>3. heap[r] = Free /\ View(Free) = Free /\ DOMAIN heap = Refs
    <3>1. IsObject(heap[r]) /\ DOMAIN heap = Refs
      BY DEF Inv, TypeOK, IsHeap
    <3>2. heap[r] = Free
      BY <2>1, <3>1 DEF IsObject, Free, String, Array, Hash
    <3> QED  BY <3>1, <3>2 DEF View, Free
  <2>4. Objects = [q \in Refs |-> View(heap[q])]
    BY <2>2 DEF Objects
  <2>5. Objects' = [q \in Refs |-> IF q = r THEN Free ELSE View(heap'[q])]
    BY <2>1, <2>2 DEF Objects
  <2>6. \A q \in Refs : q # r => heap'[q] = heap[q]
    BY <2>1, <2>3
  <2>7. UNCHANGED Objects
    BY <2>3, <2>4, <2>5, <2>6
  <2> QED  BY <2>2, <2>7, Untouched
<1>2. CASE hashLoop
  <2>1. /\ block = "loop" /\ block' # "op" /\ UNCHANGED <<program, self, farg, stack_ptr, locals, pc, hash, ivars, status, result>>
        /\ status = "running"
    BY <1>2 DEF hashLoop
  <2>2. PICK v \in contents(peek(idx - 1)) :
            /\ heap' = [heap EXCEPT ![hash].elems = rb_hash_aset(@, peek(idx), v)]
            /\ stack' = [stack EXCEPT ![stack_ptr - idx + 1] = v]
    BY <1>2 DEF hashLoop
  <2>3. hash \in Refs /\ DOMAIN heap = Refs /\ stack \in [Slots -> MaybeWord] /\ idx \in Int /\ idx > 0 /\ stack_ptr \in Nat
    BY <2>1, InHash DEF Inv, TypeOK, IsHeap
  <2>4. UNCHANGED Objects
    <3>1. Objects = [q \in Refs |-> IF q = hash THEN Free ELSE View(heap[q])]
      BY <2>1 DEF Objects
    <3>2. Objects' = [q \in Refs |-> IF q = hash THEN Free ELSE View(heap'[q])]
      BY <2>1 DEF Objects
    <3>3. \A q \in Refs : q # hash => heap'[q] = heap[q]
      BY <2>2, <2>3
    <3> QED  BY <3>1, <3>2, <3>3
  <2>5. \A s \in 0 .. stack_ptr - 1 : stack'[s] = stack[s]
    <3>1. ASSUME NEW s \in 0 .. stack_ptr - 1 PROVE stack'[s] = stack[s]
      <4>1. stack[s] \in Word
        BY DEF Inv, LiveSlotsWritten
      <4>2. s \in Slots
        BY <2>3, SizeAssumption DEF Slots, Inv, TypeOK
      <4>3. CASE s = stack_ptr - idx + 1
        <5>1. peek(idx - 1) = stack[s]
          BY <2>3, <4>3 DEF peek
        <5>2. v = stack[s]
          BY <2>2, <4>1, <5>1, UndefAssumption DEF contents
        <5> QED  BY <2>2, <2>3, <4>2, <4>3, <5>2
      <4>4. CASE s # stack_ptr - idx + 1
        BY <2>2, <2>3, <4>2, <4>4
      <4> QED  BY <4>3, <4>4
    <3> QED  BY <3>1
  <2>6. UNCHANGED Operands
    <3>1. \A i \in 1 .. stack_ptr : stack'[i - 1] = stack[i - 1]
      BY <2>3, <2>5
    <3> QED  BY <2>1, <3>1 DEF Operands
  <2> QED  BY <2>1, <2>4, <2>6, Untouched
<1>3. CASE hashExit
  BY <1>3, HashExitRefines
<1>4. CASE hashOverrun
  <2>1. /\ status = "running" /\ Halt("overrun")
        /\ \/ block = "loop" /\ ~(stack_ptr - idx >= 0 /\ stack_ptr - idx + 1 < StackSize)
           \/ block = "exit" /\ stack_ptr >= StackSize
    BY <1>4 DEF hashOverrun
  <2>2. /\ pc < Len(code) /\ code[pc + 1].op = "newhash" /\ operand \in Int /\ idx \in Int /\ stack_ptr \in Nat
        /\ StackSize \in Nat /\ block # "op" /\ (block = "loop" => idx > 0)
    <3>1. block # "op"
      BY <2>1
    <3>2. code[pc + 1] \in Instr /\ pc \in 0 .. Len(code) - 1 /\ Len(code) \in Nat
      BY <2>1, <3>1, InHash DEF Inv, TypeOK, IsProgram, code
    <3> QED  BY <2>1, <3>1, <3>2, InHash, SizeAssumption DEF operand, Instr, Inv, TypeOK
  <2>3. stack_ptr < operand \/ stack_ptr >= StackSize
    <3>1. CASE block = "exit"
      BY <2>1, <3>1
    <3>2. CASE block = "loop"
      <4>1. operand > 0 /\ LoopBuilt(stack_ptr - operand, operand - idx)
        BY <2>2, <3>2 DEF HashBuilt
      <4> QED  BY <2>1, <2>2, <3>2, <4>1 DEF LoopBuilt
    <3> QED  BY <2>1, <3>1, <3>2
  <2>4. Promised!ins = code[pc + 1] /\ Status = "running"
    BY <2>1, Mapped DEF Status
  <2>5. ~Promised!CanTake
    <3>1. reads(code[pc + 1]) = operand /\ pops(code[pc + 1]) = 0 /\ pushes(code[pc + 1]) = 1
      BY <2>2 DEF reads, pops, pushes, Shape, operand
    <3> QED  BY <2>2, <2>3, <2>4, <3>1, SameShapes, OperandStack DEF Promised!CanTake, Operands
  <2>6. Promised!Halt("undefined")
    BY <2>1, HaltsMapped
  <2>7. Promised!undefined
    BY <2>2, <2>4, <2>5, <2>6 DEF Promised!undefined, code, Status
  <2> QED  BY <2>7 DEF Promised!Next
<1> QED  BY <1>1, <1>2, <1>3, <1>4 DEF HashStep

-----------------------------------------------------------------------------
(* The refinement.                                                         *)

LEMMA InitRefines == Init => Promised!Init
<1> SUFFICES ASSUME Init PROVE Promised!Init
  OBVIOUS
<1>1. PICK c \in Calls : self = c.self /\ farg = c.farg /\ heap = c.heap /\ ivars = c.ivars
  BY DEF Init
<1>2. /\ program \in Programs /\ stack_ptr = 0 /\ pc = 0 /\ block = "op" /\ status = "entry" /\ result = Qnil
      /\ locals = [s \in LocalSlots |-> Undef]
  BY DEF Init
<1>3. Promised!IsProgram(program)
  BY <1>2, ProgramsAssumption, SameShapes
<1>4. Objects = [r \in Refs |-> Promised!View(c.heap[r])]
  BY <1>1, <1>2, SameViews DEF Objects
<1>5. IvarsOf = [x \in DOMAIN c.ivars |-> Promised!Denotes(c.ivars[x])]
  BY <1>1, CallsAssumption, SameWords DEF IvarsOf
<1>6. Operands = <<>>
  BY <1>2 DEF Operands
<1>7. Localvars = [s \in 0 .. LocalsSize - 1 |-> Promised!Absent]
  BY <1>2 DEF Localvars, LocalSlots, Promised!Absent
<1>8. Status = "entry" /\ Denotes(result) = Promised!Nil
  BY <1>2, SameWords DEF Status, Denotes, isFixnum, Qnil
<1> QED  BY <1>1, <1>2, <1>3, <1>4, <1>5, <1>6, <1>7, <1>8
         DEF Promised!Init, Objects, IvarsOf, Operands, Localvars, Status

LEMMA StepRefines ==
    ASSUME Inv, HashBuilt, [Next]_vars
    PROVE  [Promised!Next]_Promised!vars
<1>1. ASSUME UNCHANGED <<program, self, farg, pc, Operands, Localvars, Objects, IvarsOf, status, result>>
      PROVE  UNCHANGED Promised!vars
  <2>1. UNCHANGED Status /\ UNCHANGED Denotes(result)
    BY <1>1 DEF Status
  <2> QED  BY <1>1, <2>1 DEF Promised!vars, Operands, Localvars, Objects, IvarsOf, Status
<1>2. CASE Finished \/ UNCHANGED vars
  <2>1. UNCHANGED <<program, self, farg, pc, stack, stack_ptr, locals, heap, ivars, block, hash, status, result>>
    BY <1>2 DEF Finished, vars, memory
  <2> QED  BY <1>1, <2>1, Untouched
<1>3. CASE Step
  <2>1. CASE HashStep
    BY <1>1, <2>1, HashRefines
  <2>2. CASE \/ enter \/ Overrun \/ StackStep \/ LocalStep \/ ArithStep \/ ObjectStep \/ BranchStep
    BY <2>2, EnterRefines, OverrunRefines, StackRefines, LocalRefines, ArithRefines, ObjectRefines, BranchRefines
  <2> QED  BY <1>3, <2>1, <2>2 DEF Step
<1> QED  BY <1>2, <1>3 DEF Next

LEMMA InitHash == Init => HashBuilt
  BY DEF Init, HashBuilt

\* What the loop of newhash has built so far, in every state of every run.
THEOREM HashInvariance == Spec => []HashBuilt
<1>1. Init => HashBuilt
  BY InitHash
<1>2. Inv /\ HashBuilt /\ [Next]_vars => HashBuilt'
  BY HashKept
<1> QED  BY <1>1, <1>2, Invariance, PTL DEF Spec

\* The code RubyVM.compile_bytecode emits does to Ruby values what the stack
\* machine promises: every behaviour of the one is a behaviour of the other,
\* whatever the word size, the program and the call.
THEOREM Refinement == Spec => ImplementsStackMachine
<1>1. Init => Promised!Init
  BY InitRefines
<1>2. Inv /\ HashBuilt /\ [Next]_vars => [Promised!Next]_Promised!vars
  BY StepRefines
<1> QED  BY <1>1, <1>2, Invariance, HashInvariance, PTL DEF Spec, ImplementsStackMachine, Promised!Spec
==============================================================================
