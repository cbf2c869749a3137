-------------------------- MODULE RubyCallsProofs --------------------------
(***************************************************************************)
(* The two loops of lib/ruby_calls.rb are correct for every word size and  *)
(* every array.                                                            *)
(***************************************************************************)
EXTENDS RubyCalls, TLAPS

N == Len(given)

\* After k rounds of reverse the k first and k last elements have changed
\* places, and the others have not moved.
ReversedUpTo(k) ==
    \A i \in 1 .. N :
        ary[i] = IF i <= k \/ i > N - k THEN given[N + 1 - i] ELSE given[i]

\* The word add1 makes of w.
plusOne(w) == num2fix(add(1, fix2int(w)))

\* After k rounds of add1 the k first elements have changed.
AddedUpTo(k) ==
    \A i \in 1 .. N : ary[i] = IF i <= k THEN plusOne(given[i]) ELSE given[i]

\* The inductive invariant: how far each loop has come.
LoopInv ==
    /\ func = "reverse" =>
           /\ ReversedUpTo(idx)
           /\ block = "entry" => status = "running" /\ idx = 0
           /\ block = "loop" => idx = 0 \/ 2 * idx < N
           /\ block = "exit" => 2 * idx >= N - 1
    /\ func = "add1" =>
           /\ AddedUpTo(idx)
           /\ block = "entry" => status = "running" /\ idx = 0
           /\ block = "exit" => idx = N
    /\ status = "wild" => func \in {"last", "swap"} /\ given = <<>>
    /\ func \in {"add1", "reverse"} /\ status = "returned" => block = "exit"

Inv == TypeOK /\ LoopInv

-----------------------------------------------------------------------------
(* Words.                                                                  *)

LEMMA Modulus ==
    ASSUME NEW m \in Nat, m > 0, NEW n \in Int
    PROVE  /\ 0 <= n /\ n < m => n % m = n
           /\ n = m => n % m = 0
           /\ n = -1 => n % m = m - 1
<1>1. ASSUME 0 <= n, n < m PROVE n % m = n
  BY <1>1
<1>2. m % m = 0
  OBVIOUS
<1>3. (-1) % m = m - 1
  OBVIOUS
<1> QED  BY <1>1, <1>2, <1>3

LEMMA WordModNat == WordMod \in Nat /\ WordMod >= 8 /\ WordMod = 4 * FixLimit /\ FixLimit \in Nat
  BY FixLimitAssumption DEF WordMod

\* Arithmetic on lengths and indices does not wrap, but for the last index of
\* an empty array.
LEMMA Indices ==
    ASSUME NEW n \in 0 .. MaxArrayLen
    PROVE  /\ add(1, n) = n + 1
           /\ sub(n, 1) = IF n = 0 THEN WordMod - 1 ELSE n - 1
           /\ sub(n, 0) = n
           /\ \A k \in 0 .. n : sub(n, k) = n - k
<1>1. n \in Nat /\ n + 1 < WordMod
  BY ArraysAssumption, WordModNat
<1>2. (1 + n) % WordMod = n + 1
  BY <1>1, WordModNat, Modulus
<1>3. (n - 1) % WordMod = IF n = 0 THEN WordMod - 1 ELSE n - 1
  BY <1>1, WordModNat, Modulus
<1>4. ASSUME NEW k \in 0 .. n PROVE (n - k) % WordMod = n - k
  BY <1>1, WordModNat, Modulus
<1> QED  BY <1>1, <1>2, <1>3, <1>4 DEF add, sub

\* The add of the emitted code is a word; on a Fixnum it counts one up and
\* wraps from the largest to the smallest.
LEMMA PlusOne ==
    ASSUME NEW w \in Word
    PROVE  /\ plusOne(w) \in Word
           /\ isFixnum(w) => Denotes(plusOne(w)) = Fix(Successor(Denotes(w).n))
<1> DEFINE h == w \div 2
<1>1. h \in Nat /\ h < 2 * FixLimit /\ (w = 2 * h \/ w = 2 * h + 1) /\ w \in Nat
  BY WordModNat DEF Word
<1>2. add(1, h) = h + 1
  BY <1>1, WordModNat, Modulus DEF add
<1>3. mul(h + 1, 2) = IF h + 1 = 2 * FixLimit THEN 0 ELSE 2 * (h + 1)
  <2>1. (h + 1) * 2 \in Int /\ (h + 1) * 2 = 2 * (h + 1)
    BY <1>1
  <2>2. 0 <= 2 * (h + 1) /\ 2 * (h + 1) <= WordMod /\ (2 * (h + 1) = WordMod <=> h + 1 = 2 * FixLimit)
    BY <1>1, WordModNat
  <2> QED  BY <2>1, <2>2, WordModNat, Modulus DEF mul
<1>4. plusOne(w) = IF h + 1 = 2 * FixLimit THEN 1 ELSE 2 * h + 3
  BY <1>1, <1>2, <1>3 DEF plusOne, num2fix, fix2int, xorFlag
<1>5. plusOne(w) \in Word
  BY <1>1, <1>4, WordModNat DEF Word
<1>6. ASSUME isFixnum(w) PROVE Denotes(plusOne(w)) = Fix(Successor(Denotes(w).n))
  <2>1. w = 2 * h + 1
    BY <1>1, <1>6 DEF isFixnum
  <2>2. Denotes(w).n = IF h < FixLimit THEN h ELSE h - 2 * FixLimit
    BY <1>1, <1>6, <2>1, WordModNat DEF Denotes, Fix
  <2>3. CASE h + 1 = 2 * FixLimit
    BY <1>1, <1>4, <2>2, <2>3, WordModNat DEF Denotes, isFixnum, Successor
  <2>4. CASE h + 1 # 2 * FixLimit
    <3>1. isFixnum(plusOne(w)) /\ plusOne(w) \div 2 = h + 1
      BY <1>1, <1>4, <2>4 DEF isFixnum
    <3>2. plusOne(w) < 2 * FixLimit <=> h + 1 < FixLimit
      BY <1>1, <1>4, <2>4, WordModNat
    <3> QED  BY <1>1, <2>2, <2>4, <3>1, <3>2, WordModNat DEF Denotes, Successor
  <2> QED  BY <2>3, <2>4
<1> QED  BY <1>5, <1>6

-----------------------------------------------------------------------------
(* The invariant.                                                          *)

LEMMA InitInv == ASSUME Init PROVE Inv
<1>1. given \in Seq(Word) /\ Len(given) <= MaxArrayLen /\ Len(given) \in Nat /\ ary = given
  BY ArraysAssumption DEF Init
<1>2. Qnil \in Word
  BY WordModNat DEF Word, Qnil
<1>3. TypeOK
  BY <1>1, <1>2 DEF Init, TypeOK
<1>4. ReversedUpTo(0) /\ AddedUpTo(0)
  BY <1>1 DEF ReversedUpTo, AddedUpTo, N
<1> QED  BY <1>3, <1>4 DEF Init, Inv, LoopInv

\* The bounds every step may use.
LEMMA Bounds ==
    ASSUME TypeOK
    PROVE  /\ N \in 0 .. MaxArrayLen /\ Len(ary) = N /\ N \in Nat
           /\ idx \in 0 .. N
           /\ DOMAIN ary = 1 .. N /\ DOMAIN given = 1 .. N
           /\ \A i \in 1 .. N : ary[i] \in Word /\ given[i] \in Word
  BY ArraysAssumption DEF TypeOK, N

\* Where the loop goes after a round, for a limit that is no word short.
LEMMA Repeats ==
    ASSUME Inv, block = "loop", NEW limit, repeats(limit)
    PROVE  /\ idx' = idx + 1
           /\ block' = IF idx + 1 < limit THEN "loop" ELSE "exit"
           /\ UNCHANGED <<func, given, status, result>>
<1>1. idx \in 0 .. MaxArrayLen
  BY Bounds, ArraysAssumption DEF Inv
<1> QED  BY <1>1, Indices DEF repeats

\* A round of add1.
LEMMA Add1Round == ASSUME Inv, add1 PROVE Inv'
<1>1. func = "add1" /\ block = "loop" /\ status = "running" /\ idx < N
  BY DEF add1, running, Inv, TypeOK, N
<1>2. /\ idx' = idx + 1
      /\ block' = IF idx + 1 < N THEN "loop" ELSE "exit"
      /\ UNCHANGED <<func, given, status, result>>
  BY <1>1, Repeats, Bounds DEF add1, alen, Inv
<1>3. ary' = [ary EXCEPT ![idx + 1] = plusOne(ary[idx + 1])]
  BY DEF add1, aref, plusOne
<1>4. idx + 1 \in 1 .. N /\ N' = N
  BY <1>1, <1>2, Bounds DEF Inv, N
<1>5. ary' \in Seq(Word) /\ Len(ary') = N
  <2>1. ary[idx + 1] \in Word
    BY <1>4, Bounds DEF Inv
  <2>2. plusOne(ary[idx + 1]) \in Word
    BY <2>1, PlusOne
  <2> QED  BY <1>3, <1>4, <2>2, Bounds DEF Inv, TypeOK
<1>6. AddedUpTo(idx)'
  <2>1. \A i \in 1 .. N : ary'[i] = IF i = idx + 1 THEN plusOne(ary[i]) ELSE ary[i]
    BY <1>3, <1>4, Bounds DEF Inv
  <2>2. \A i \in 1 .. N : ary[i] = IF i <= idx THEN plusOne(given[i]) ELSE given[i]
    BY <1>1 DEF Inv, LoopInv, AddedUpTo
  <2> QED  BY <1>2, <1>4, <2>1, <2>2, Bounds DEF AddedUpTo, Inv
<1>7. TypeOK'
  BY <1>1, <1>2, <1>4, <1>5, Bounds DEF Inv, TypeOK, N
<1>8. LoopInv'
  BY <1>1, <1>2, <1>4, <1>6, Bounds DEF Inv, LoopInv
<1> QED  BY <1>7, <1>8 DEF Inv

\* A round of reverse.
LEMMA ReverseRound == ASSUME Inv, reverse PROVE Inv'
<1>1. func = "reverse" /\ block = "loop" /\ status = "running" /\ idx < N
  BY DEF reverse, running, Inv, TypeOK, N
<1>2. /\ last_idx = N - 1 /\ sub(last_idx, idx) = N - 1 - idx
      /\ N \in Nat /\ idx \in Nat /\ N <= MaxArrayLen
  <2>1. alen = N /\ N \in 0 .. MaxArrayLen /\ N # 0 /\ idx \in 0 .. N - 1
    BY <1>1, Bounds, ArraysAssumption DEF Inv, alen
  <2>2. last_idx = N - 1 /\ N - 1 \in 0 .. MaxArrayLen
    BY <2>1, Indices, ArraysAssumption DEF last_idx
  <2>3. sub(N - 1, idx) = (N - 1) - idx
    BY <2>1, <2>2, Indices
  <2> QED  BY <2>1, <2>2, <2>3
<1>3. /\ idx' = idx + 1
      /\ block' = IF idx + 1 < N \div 2 THEN "loop" ELSE "exit"
      /\ UNCHANGED <<func, given, status, result>>
  BY <1>1, Repeats, Bounds DEF reverse, half_len, udiv, alen, Inv
<1>4. ary' = [ary EXCEPT ![idx + 1] = ary[N - idx], ![N - idx] = ary[idx + 1]]
  <2>1. (N - 1 - idx) + 1 = N - idx
    BY <1>2
  <2>2. ary' = exchange(idx, N - 1 - idx)
    BY <1>2 DEF reverse
  <2> QED  BY <2>1, <2>2 DEF exchange, aref
<1>5. idx + 1 \in 1 .. N /\ N - idx \in 1 .. N /\ N' = N
  BY <1>1, <1>2, <1>3 DEF N
<1>6. ary' \in Seq(Word) /\ Len(ary') = N
  <2>1. ary[idx + 1] \in Word /\ ary[N - idx] \in Word
    BY <1>5, Bounds DEF Inv
  <2> QED  BY <1>4, <1>5, <2>1, Bounds DEF Inv, TypeOK
<1>7. ReversedUpTo(idx)'
  <2>1. \A i \in 1 .. N : ary'[i] = IF i = N - idx THEN ary[idx + 1]
                                    ELSE IF i = idx + 1 THEN ary[N - idx] ELSE ary[i]
    BY <1>4, <1>5, Bounds DEF Inv
  <2>2. \A i \in 1 .. N :
          ary[i] = IF i <= idx \/ i > N - idx THEN given[N + 1 - i] ELSE given[i]
    BY <1>1 DEF Inv, LoopInv, ReversedUpTo
  <2>3. idx + 1 <= N - idx
    BY <1>1, <1>2 DEF Inv, LoopInv
  <2>4. ary[idx + 1] = given[idx + 1] /\ ary[N - idx] = given[N - idx]
    BY <1>2, <1>5, <2>2, <2>3
  <2>5. \A i \in 1 .. N :
          ary'[i] = IF i <= idx + 1 \/ i > N - (idx + 1) THEN given[N + 1 - i] ELSE given[i]
    <3> SUFFICES ASSUME NEW i \in 1 .. N
                 PROVE  ary'[i] = IF i <= idx + 1 \/ i > N - (idx + 1)
                                  THEN given[N + 1 - i] ELSE given[i]
      OBVIOUS
    <3>1. CASE i = N - idx
      <4>1. N + 1 - i = idx + 1 /\ i > N - (idx + 1)
        BY <1>2, <3>1
      <4> QED  BY <2>1, <2>4, <3>1, <4>1
    <3>2. CASE i # N - idx /\ i = idx + 1
      <4>1. N + 1 - i = N - idx
        BY <1>2, <3>2
      <4> QED  BY <2>1, <2>4, <3>2, <4>1
    <3>3. CASE i # N - idx /\ i # idx + 1
      <4>1. (i <= idx + 1 \/ i > N - (idx + 1)) <=> (i <= idx \/ i > N - idx)
        BY <1>2, <3>3
      <4> QED  BY <2>1, <2>2, <3>3, <4>1
    <3> QED  BY <3>1, <3>2, <3>3
  <2> QED  BY <1>3, <1>5, <2>5 DEF ReversedUpTo
<1>8. TypeOK'
  <2>1. idx + 1 < N \div 2 => idx + 1 < N
    BY <1>2
  <2> QED  BY <1>1, <1>2, <1>3, <1>5, <1>6, <2>1 DEF Inv, TypeOK, N
<1>9. LoopInv'
  <2>1. idx + 1 < N \div 2 => 2 * (idx + 1) < N
    BY <1>2
  <2>2. ~(idx + 1 < N \div 2) => 2 * (idx + 1) >= N - 1
    BY <1>2
  <2> QED  BY <1>1, <1>3, <1>5, <1>7, <2>1, <2>2 DEF Inv, LoopInv
<1> QED  BY <1>8, <1>9 DEF Inv

\* The last index of an array that has one.
LEMMA LastIndex ==
    ASSUME Inv, N # 0
    PROVE  last_idx = N - 1 /\ sub(last_idx, 0) = N - 1 /\ alen = N /\ N \in Nat
<1>1. alen = N /\ N \in 0 .. MaxArrayLen /\ MaxArrayLen \in Nat
  BY Bounds, ArraysAssumption DEF Inv, alen
<1>2. last_idx = N - 1 /\ N - 1 \in 0 .. MaxArrayLen
  BY <1>1, Indices DEF last_idx
<1>3. sub(N - 1, 0) = N - 1
  BY <1>1, <1>2, Indices
<1> QED  BY <1>1, <1>2, <1>3

\* No access of a loop goes wild, and those of last and swap only when there
\* is no element.
LEMMA WildOnlyEmpty ==
    ASSUME Inv, Wild
    PROVE  func \in {"last", "swap"} /\ given = <<>>
<1>1. alen = N /\ N \in Nat /\ idx \in 0 .. N
  BY Bounds DEF Inv, alen
<1>2. N = 0 => given = <<>>
  BY DEF N, Inv, TypeOK
<1>3. CASE running("last", "entry") /\ ~InArray(last_idx)
  BY <1>1, <1>2, <1>3, LastIndex DEF running, InArray
<1>4. CASE running("swap", "entry") /\ ~(InArray(0) /\ InArray(sub(last_idx, 0)))
  BY <1>1, <1>2, <1>4, LastIndex DEF running, InArray
<1>5. CASE running("add1", "loop") /\ ~InArray(idx)
  BY <1>1, <1>5 DEF running, InArray, Inv, TypeOK, N
<1>6. CASE running("reverse", "loop") /\ ~(InArray(idx) /\ InArray(sub(last_idx, idx)))
  <2>1. idx < N
    BY <1>6 DEF running, Inv, TypeOK, N
  <2>2. last_idx = N - 1 /\ N - 1 \in 0 .. MaxArrayLen /\ idx \in 0 .. N - 1
    BY <1>1, <2>1, LastIndex, Bounds, ArraysAssumption DEF Inv
  <2>3. sub(N - 1, idx) = (N - 1) - idx
    BY <2>2, Indices
  <2> QED  BY <1>1, <1>6, <2>1, <2>2, <2>3 DEF InArray
<1> QED  BY <1>3, <1>4, <1>5, <1>6 DEF Wild

LEMMA NextInv == ASSUME Inv, [Next]_vars PROVE Inv'
<1>1. CASE last
  <2>1. InArray(last_idx) /\ func = "last"
    BY <1>1 DEF last, running
  <2>2. ASSUME N # 0 PROVE result' \in Word
    <3>1. last_idx + 1 \in 1 .. N
      BY <2>2, LastIndex
    <3>2. ary[last_idx + 1] \in Word
      BY <3>1, Bounds DEF Inv
    <3> QED  BY <1>1, <3>2 DEF last, aref
  <2>3. N # 0
    <3>1. N = 0 => last_idx = WordMod - 1 /\ alen = 0
      BY Indices, ArraysAssumption, Bounds DEF last_idx, alen, Inv
    <3> QED  BY <2>1, <3>1, WordModNat DEF InArray
  <2>4. TypeOK'
    BY <1>1, <2>2, <2>3 DEF last, Inv, TypeOK
  <2>5. LoopInv'
    BY <1>1, <2>1 DEF last, Inv, LoopInv
  <2> QED  BY <2>4, <2>5 DEF Inv
<1>2. CASE swap
  <2>1. func = "swap" /\ InArray(0)
    BY <1>2 DEF swap, running
  <2>2. N # 0
    BY <2>1, Bounds DEF InArray, alen, Inv
  <2>3. ary' = [ary EXCEPT ![1] = ary[N], ![N] = ary[1]]
    <3>1. sub(last_idx, 0) = N - 1 /\ (N - 1) + 1 = N /\ 0 + 1 = 1
      BY <2>2, LastIndex
    <3>2. ary' = exchange(0, N - 1)
      BY <1>2, <3>1 DEF swap
    <3> QED  BY <3>1, <3>2 DEF exchange, aref
  <2>4. ary[1] \in Word /\ ary[N] \in Word /\ N \in 1 .. N /\ 1 \in 1 .. N
    BY <2>2, Bounds DEF Inv
  <2>5. ary' \in Seq(Word) /\ Len(ary') = N
    BY <2>3, <2>4, Bounds DEF Inv, TypeOK
  <2>6. TypeOK'
    BY <1>2, <2>5 DEF swap, Inv, TypeOK, N
  <2>7. LoopInv'
    BY <1>2, <2>1 DEF swap, Inv, LoopInv
  <2> QED  BY <2>6, <2>7 DEF Inv
<1>3. CASE enter
  <2>1. /\ status = "running" /\ func \in {"add1", "reverse"} /\ block = "entry"
        /\ idx = 0 /\ idx' = 0
        /\ UNCHANGED <<func, given, ary, status, result>>
    BY <1>3 DEF enter, running, Inv, LoopInv
  <2>2. block' = IF N = 0 THEN "exit" ELSE "loop"
    BY <1>3, Bounds DEF enter, alen, Inv
  <2>3. TypeOK'
    BY <2>1, <2>2, Bounds DEF Inv, TypeOK, N
  <2>4. N' = N /\ (ReversedUpTo(idx) => ReversedUpTo(idx)') /\ (AddedUpTo(idx) => AddedUpTo(idx)')
    BY <2>1 DEF N, ReversedUpTo, AddedUpTo
  <2>5. LoopInv'
    BY <2>1, <2>2, <2>4, Bounds DEF Inv, LoopInv
  <2> QED  BY <2>3, <2>5 DEF Inv
<1>4. CASE add1
  BY <1>4, Add1Round
<1>5. CASE reverse
  BY <1>5, ReverseRound
<1>6. CASE return \/ Wild \/ UNCHANGED vars
  <2>1. /\ UNCHANGED <<func, given, ary, block, idx, result>>
        /\ status' \in {status, "returned", "wild"}
        /\ status' = "wild" => func \in {"last", "swap"} /\ given = <<>>
        /\ func \in {"add1", "reverse"} /\ status' = "returned" => block = "exit"
        /\ status # "running" => status' = status
    BY <1>6, WildOnlyEmpty DEF return, Wild, running, vars, Inv, LoopInv
  <2>2. TypeOK'
    BY <2>1 DEF Inv, TypeOK
  <2>3. N' = N /\ (ReversedUpTo(idx) => ReversedUpTo(idx)') /\ (AddedUpTo(idx) => AddedUpTo(idx)')
    BY <2>1 DEF N, ReversedUpTo, AddedUpTo
  <2>4. block = "entry" /\ func \in {"add1", "reverse"} => status' = status
    BY <1>6, <2>1, WildOnlyEmpty DEF return, Wild, running, vars, Inv
  <2>5. LoopInv'
    BY <2>1, <2>3, <2>4 DEF Inv, LoopInv
  <2> QED  BY <2>2, <2>5 DEF Inv
<1> QED  BY <1>1, <1>2, <1>3, <1>4, <1>5, <1>6 DEF Next, Step, Finished

LEMMA Invariance == Spec => []Inv
  BY InitInv, NextInv, PTL DEF Spec

-----------------------------------------------------------------------------
\* The elements stay words and the array keeps its length.
THEOREM Typed == Spec => []TypeOK
  BY Invariance, PTL DEF Inv

\* aref and aset, which check nothing, are never given an index outside the
\* array by add1 or reverse, nor by last or swap on an array with an element.
THEOREM InsideArray == Spec => []StaysInArray
<1>1. Inv => StaysInArray
  BY DEF Inv, LoopInv, StaysInArray
<1> QED  BY <1>1, Invariance, PTL

\* reverse reverses every array.
THEOREM ReverseCorrect == Spec => []Reverses
<1>1. ASSUME Inv, func = "reverse", status = "returned", NEW i \in DOMAIN given
      PROVE  ary[i] = given[Len(given) + 1 - i]
  <2>1. i \in 1 .. N /\ N \in Nat /\ idx \in Nat /\ 2 * idx >= N - 1
    BY <1>1, Bounds DEF Inv, LoopInv
  <2>2. ary[i] = IF i <= idx \/ i > N - idx THEN given[N + 1 - i] ELSE given[i]
    BY <1>1, <2>1 DEF Inv, LoopInv, ReversedUpTo
  <2>3. i <= idx \/ i > N - idx \/ N + 1 - i = i
    BY <2>1
  <2> QED  BY <2>2, <2>3 DEF N
<1>2. Inv => Reverses
  BY <1>1 DEF Reverses
<1> QED  BY <1>2, Invariance, PTL

\* add1 adds one to every Fixnum of every array.
THEOREM Add1Correct == Spec => []AddsOne
<1>1. ASSUME Inv, func = "add1", status = "returned", NEW i \in DOMAIN given,
             isFixnum(given[i])
      PROVE  Denotes(ary[i]) = Fix(Successor(Denotes(given[i]).n))
  <2>1. i \in 1 .. N /\ given[i] \in Word
    BY <1>1, Bounds DEF Inv
  <2>2. ary[i] = plusOne(given[i])
    BY <1>1, <2>1, Bounds DEF Inv, LoopInv, AddedUpTo
  <2> QED  BY <1>1, <2>1, <2>2, PlusOne
<1>2. Inv => AddsOne
  BY <1>1 DEF AddsOne
<1> QED  BY <1>2, Invariance, PTL
=============================================================================
