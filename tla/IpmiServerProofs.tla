--------------------------- MODULE IpmiServerProofs ---------------------------
(***************************************************************************)
(* Proofs about IpmiServer, for every set of clients, scripts, strays and  *)
(* addresses and any number of faults.                                     *)
(*                                                                         *)
(* The first half is about bytes: that a checksum closes the sum of what   *)
(* it is computed from, for sequences of any length; where the bytes of a  *)
(* datagram lie; and that what sessionless_data makes of the client's      *)
(* question is the answer the client accepts.  The second half carries     *)
(* that along in the state: the datagrams under way are such questions and *)
(* such answers, and a client that has had the answer for the MAC address  *)
(* knows the one the BMC was given.                                        *)
(***************************************************************************)
EXTENDS IpmiServer, SequenceTheorems, WellFoundedInduction, TLAPS

-----------------------------------------------------------------------------
(* Induction.  The library's induction theorems take an operator, so it is  *)
(* done with sets: a set of numbers that is not empty has a least member.   *)

(* The order of the numbers, as the library has it.                          *)
Below == {p \in Nat \X Nat : p[1] < p[2]}

(* A set of numbers that is not empty has a least member.                    *)
LEMMA Least ==
    ASSUME NEW T \in SUBSET Nat, T # {}
    PROVE  \E x \in T : \A y \in T : x <= y
<1>1. OpToRel(<, Nat) = Below
  BY DEF OpToRel, Below
<1>2. PICK x \in T : \A y \in T : ~(<<y, x>> \in Below)
  BY <1>1, NatLessThanWellFounded, WFMin
<1>3. ASSUME NEW y \in T PROVE x <= y
  <2>1. x \in Nat /\ y \in Nat /\ ~(<<y, x>> \in Below)
    BY <1>2
  <2>2. ~(y < x)
    BY <2>1 DEF Below
  <2>3. QED
    BY <2>1, <2>2
<1>4. QED
  BY <1>3

(* So what holds of 0 and passes to the next number holds of them all.       *)
LEMMA Induction ==
    ASSUME NEW N \in Nat, NEW T \in SUBSET (0 .. N), 0 \in T,
           \A n \in 1 .. N : n - 1 \in T => n \in T
    PROVE  T = 0 .. N
<1> SUFFICES ASSUME (0 .. N) \ T # {} PROVE FALSE
  OBVIOUS
<1> DEFINE R == (0 .. N) \ T
<1>1. R \in SUBSET Nat /\ R # {}
  OBVIOUS
<1>2. PICK x \in R : \A y \in R : x <= y
  <2> HIDE DEF R
  <2>1. QED
    BY <1>1, Least
<1>3. x \in 1 .. N /\ x - 1 \in 0 .. N
  BY <1>2
<1>4. x - 1 \notin T
  BY <1>2, <1>3
<1>5. x - 1 \in (0 .. N) \ T
  BY <1>3, <1>4
<1>6. QED
  BY <1>2, <1>3, <1>5

(* f sums the first N numbers of s, one after the other.                     *)
Sums(s, N, f) ==
    f = [n \in 0 .. N |-> IF n = 0 THEN 0 ELSE f[n - 1] + s[n]]

(* The function that sums the beginnings of a sequence: numbers, one more each. *)
LEMMA SumsAre ==
    ASSUME NEW s \in Seq(Nat), NEW N \in 0 .. Len(s), NEW f, Sums(s, N, f)
    PROVE  /\ f \in [0 .. N -> Nat] /\ f[0] = 0
           /\ \A n \in 1 .. N : f[n] = f[n - 1] + s[n]
<1>1. f[0] = 0 /\ \A n \in 1 .. N : f[n] = f[n - 1] + s[n]
  BY DEF Sums
<1>2. \A n \in 1 .. N : s[n] \in Nat
  OBVIOUS
<1> DEFINE T == {n \in 0 .. N : f[n] \in Nat}
<1>3. N \in Nat /\ 0 \in T
  BY <1>1
<1>4. ASSUME NEW n \in 1 .. N, n - 1 \in T PROVE n \in T
  <2>1. f[n - 1] \in Nat /\ s[n] \in Nat
    BY <1>2, <1>4
  <2>2. f[n] \in Nat
    BY <1>1, <2>1
  <2>3. QED
    BY <2>2
<1>5. T = 0 .. N
  <2> HIDE DEF T
  <2>1. T \in SUBSET (0 .. N)
    BY DEF T
  <2>2. QED
    BY <1>3, <1>4, <2>1, Induction
<1>6. QED
  BY <1>1, <1>5 DEF Sums

(* There is one for every length, step by step.                              *)
LEMMA SumsExist ==
    ASSUME NEW s \in Seq(Nat), NEW N \in 0 .. Len(s)
    PROVE  \E f : Sums(s, N, f)
<1> DEFINE T == {n \in 0 .. N : \E f : Sums(s, n, f)}
<1>1. 0 \in T
  <2>1. Sums(s, 0, [n \in 0 .. 0 |-> 0])
    BY DEF Sums
  <2>2. QED
    BY <2>1
<1>2. ASSUME NEW n \in 1 .. N, n - 1 \in T PROVE n \in T
  <2>1. PICK f : Sums(s, n - 1, f)
    BY <1>2
  <2> DEFINE g == [m \in 0 .. n |-> IF m = n THEN f[n - 1] + s[n] ELSE f[m]]
  <2>2. \A m \in 0 .. n - 1 : f[m] = IF m = 0 THEN 0 ELSE f[m - 1] + s[m]
    BY <2>1 DEF Sums
  <2>3. ASSUME NEW m \in 0 .. n
        PROVE  g[m] = IF m = 0 THEN 0 ELSE g[m - 1] + s[m]
    <3>1. CASE m = n
      BY <3>1
    <3>2. CASE m # n /\ m # 0
      BY <2>2, <3>2
    <3>3. CASE m # n /\ m = 0
      BY <2>2, <3>3
    <3>4. QED
      BY <3>1, <3>2, <3>3
  <2>4. Sums(s, n, g)
    <3> HIDE DEF g
    <3>1. g = [m \in 0 .. n |-> g[m]]
      BY DEF g
    <3>2. QED
      BY <2>3, <3>1 DEF Sums
  <2>5. QED
    BY <2>4
<1>3. T = 0 .. N
  <2> HIDE DEF T
  <2>1. T \in SUBSET (0 .. N)
    BY DEF T
  <2>2. QED
    BY <1>1, <1>2, <2>1, Induction
<1>4. N \in T
  <2> HIDE DEF T
  <2>1. N \in 0 .. N
    OBVIOUS
  <2>2. QED
    BY <1>3, <2>1
<1>5. QED
  BY <1>4

(* Where two sequences agree, so do their sums.                              *)
LEMMA SumsUnique ==
    ASSUME NEW s \in Seq(Nat), NEW t \in Seq(Nat), NEW N \in Nat,
           N <= Len(s), N <= Len(t), \A n \in 1 .. N : s[n] = t[n],
           NEW f, Sums(s, Len(s), f), NEW g, Sums(t, Len(t), g)
    PROVE  f[N] = g[N]
<1>1. f[0] = 0 /\ g[0] = 0
      /\ \A n \in 1 .. N : f[n] = f[n - 1] + s[n] /\ g[n] = g[n - 1] + t[n]
  <2>1. Len(s) \in 0 .. Len(s) /\ Len(t) \in 0 .. Len(t)
    OBVIOUS
  <2>2. \A n \in 1 .. N : n \in 1 .. Len(s) /\ n \in 1 .. Len(t)
    OBVIOUS
  <2>3. f[0] = 0 /\ \A n \in 1 .. Len(s) : f[n] = f[n - 1] + s[n]
    BY <2>1, SumsAre
  <2>4. g[0] = 0 /\ \A n \in 1 .. Len(t) : g[n] = g[n - 1] + t[n]
    BY <2>1, SumsAre
  <2>5. QED
    BY <2>2, <2>3, <2>4
<1> DEFINE T == {n \in 0 .. N : f[n] = g[n]}
<1>2. 0 \in T /\ \A n \in 1 .. N : n - 1 \in T => n \in T
  BY <1>1
<1>3. T = 0 .. N
  <2> HIDE DEF T
  <2>1. T \in SUBSET (0 .. N)
    BY DEF T
  <2>2. QED
    BY <1>2, <2>1, Induction
<1>4. QED
  BY <1>3

(* SumOf takes the last of the sums.                                         *)
LEMMA SumOfIs ==
    ASSUME NEW s \in Seq(Nat)
    PROVE  \E f : Sums(s, Len(s), f) /\ SumOf(s) = f[Len(s)]
<1> DEFINE f == CHOOSE f : Sums(s, Len(s), f)
<1>1. Sums(s, Len(s), f)
  BY SumsExist
<1>2. SumOf(s) = f[Len(s)]
  BY DEF SumOf, Sums
<1>3. QED
  BY <1>1, <1>2

(* The sum of numbers is a number.                                           *)
LEMMA SumOfNat == ASSUME NEW s \in Seq(Nat) PROVE SumOf(s) \in Nat
<1>1. PICK f : Sums(s, Len(s), f) /\ SumOf(s) = f[Len(s)]
  BY SumOfIs
<1>2. QED
  BY <1>1, SumsAre

(* One number more adds that number.                                         *)
LEMMA SumOfOneMore ==
    ASSUME NEW s \in Seq(Nat), NEW x \in Nat
    PROVE  SumOf(s \o <<x>>) = SumOf(s) + x
<1> DEFINE t == s \o <<x>>
<1>1. t \in Seq(Nat) /\ Len(t) = Len(s) + 1 /\ t[Len(t)] = x
      /\ \A n \in 1 .. Len(s) : s[n] = t[n]
  OBVIOUS
<1>2. PICK f : Sums(s, Len(s), f) /\ SumOf(s) = f[Len(s)]
  BY SumOfIs
<1> HIDE DEF t
<1>3. PICK g : Sums(t, Len(t), g) /\ SumOf(t) = g[Len(t)]
  BY <1>1, SumOfIs
<1>4. Len(s) \in Nat /\ Len(s) <= Len(s) /\ Len(s) <= Len(t)
      /\ Len(t) \in 0 .. Len(t) /\ Len(t) \in 1 .. Len(t) /\ Len(t) - 1 = Len(s)
  BY <1>1
<1>5. f[Len(s)] = g[Len(s)]
  <2>1. Sums(s, Len(s), f) /\ Sums(t, Len(t), g)
    BY <1>2, <1>3
  <2>2. \A N \in Nat : N <= Len(s) /\ N <= Len(t) /\ (\A n \in 1 .. N : s[n] = t[n])
           => f[N] = g[N]
    BY <1>1, <2>1, SumsUnique
  <2>3. QED
    BY <1>1, <1>4, <2>2
<1>6. g[Len(t)] = g[Len(s)] + x
  <2>1. \A n \in 1 .. Len(t) : g[n] = g[n - 1] + t[n]
    BY <1>1, <1>4, <1>3, SumsAre
  <2>2. QED
    BY <1>1, <1>4, <2>1
<1>7. QED
  BY <1>2, <1>3, <1>5, <1>6 DEF t

(* A checksum is a byte that makes the sum of what it closes 0, modulo 256,   *)
(* however long that is (pyghmi's _checksum as send_auth_cap_v2 calls it).    *)
LEMMA ChecksumCloses ==
    ASSUME NEW s \in Seq(Nat)
    PROVE  Checksum(s) \in Byte /\ SumOf(s \o <<Checksum(s)>>) % 256 = 0
<1>1. SumOf(s) \in Nat
  BY SumOfNat
<1>2. ASSUME NEW n \in Nat
      PROVE  /\ (256 - (n % 256)) % 256 \in 0 .. 255
             /\ (n + ((256 - (n % 256)) % 256)) % 256 = 0
  <2>1. PICK r \in 0 .. 255 : r = n % 256
    OBVIOUS
  <2>2. PICK q \in Nat : n = 256 * q + r
    <3>1. n \div 256 \in Nat /\ n = 256 * (n \div 256) + (n % 256)
      OBVIOUS
    <3>2. QED
      BY <2>1, <3>1
  <2>3. CASE r = 0
    <3>1. (256 - r) % 256 = 0 /\ (n + 0) % 256 = 0
      BY <2>1, <2>3
    <3>2. QED
      BY <2>1, <3>1
  <2>4. CASE r # 0
    <3>1. (256 - r) % 256 = 256 - r
      BY <2>4
    <3>2. n + (256 - r) = 256 * (q + 1)
      BY <2>2
    <3>3. (256 * (q + 1)) % 256 = 0
      OBVIOUS
    <3>4. QED
      BY <2>1, <3>1, <3>2, <3>3
  <2>5. QED
    BY <2>3, <2>4
<1>3. Checksum(s) \in 0 .. 255
  <2>1. PICK n \in Nat : n = SumOf(s)
    BY <1>1
  <2>2. Checksum(s) = (256 - (n % 256)) % 256
    BY <2>1, Zenon DEF Checksum
  <2>3. QED
    BY <1>2, <2>2
<1>4. SumOf(s \o <<Checksum(s)>>) = SumOf(s) + Checksum(s)
  <2>1. \A n \in 0 .. 255 : n \in Nat
    OBVIOUS
  <2>2. Checksum(s) \in Nat
    BY <1>3, <2>1
  <2>3. QED
    BY <2>2, SumOfOneMore
<1>5. QED
  BY <1>1, <1>2, <1>3, <1>4 DEF Checksum, Byte

-----------------------------------------------------------------------------
(* Sequences of bytes, joined and cut.                                      *)

(* Two sequences of bytes, one after the other.                              *)
LEMMA Joined ==
    ASSUME NEW s \in Seq(Byte), NEW t \in Seq(Byte)
    PROVE  /\ s \o t \in Seq(Byte) /\ Len(s \o t) = Len(s) + Len(t)
           /\ \A i \in 1 .. Len(s) : (s \o t)[i] = s[i]
           /\ \A i \in 1 .. Len(t) : (s \o t)[Len(s) + i] = t[i]
<1>1. /\ s \o t \in Seq(Byte)
      /\ Len(s \o t) = Len(s) + Len(t)
      /\ \A i \in 1 .. Len(s) + Len(t) :
            (s \o t)[i] = IF i <= Len(s) THEN s[i] ELSE t[i - Len(s)]
  BY ConcatProperties
<1>2. Len(s) \in Nat /\ Len(t) \in Nat
  OBVIOUS
<1>3. ASSUME NEW i \in 1 .. Len(s) PROVE (s \o t)[i] = s[i]
  BY <1>1, <1>2
<1>4. ASSUME NEW i \in 1 .. Len(t) PROVE (s \o t)[Len(s) + i] = t[i]
  <2>1. /\ Len(s) + i \in 1 .. Len(s) + Len(t) /\ ~(Len(s) + i <= Len(s))
        /\ Len(s) + i - Len(s) = i
    BY <1>2
  <2>2. QED
    BY <1>1, <2>1
<1>5. QED
  BY <1>1, <1>3, <1>4

(* What is cut off the front, and what is left.                              *)
LEMMA Cut ==
    ASSUME NEW s \in Seq(Byte), NEW t \in Seq(Byte)
    PROVE  SubSeq(s \o t, 1, Len(s)) = s /\ From(s \o t, Len(s)) = t
<1>1. s \o t \in Seq(Byte) /\ Len(s \o t) = Len(s) + Len(t)
      /\ Len(s) \in Nat /\ Len(t) \in Nat
  BY Joined
<1>2. \A i \in 1 .. Len(s) + Len(t) : (s \o t)[i] \in Byte
  BY <1>1, ElementOfSeq
<1> DEFINE p == SubSeq(s \o t, 1, Len(s))
           q == SubSeq(s \o t, Len(s) + 1, Len(s) + Len(t))
<1>3. /\ p \in Seq(Byte) /\ Len(p) = Len(s)
      /\ \A i \in 1 .. Len(s) : p[i] = (s \o t)[i]
  <2>1. \A i \in 1 .. Len(s) : (s \o t)[i] \in Byte
    BY <1>1, <1>2
  <2>2. /\ p \in Seq(Byte)
        /\ Len(p) = IF 1 <= Len(s) THEN Len(s) - 1 + 1 ELSE 0
        /\ \A i \in 1 .. Len(s) - 1 + 1 : p[i] = (s \o t)[1 + i - 1]
    BY <1>1, <2>1, SubSeqProperties
  <2>3. QED
    BY <1>1, <2>2
<1>4. /\ q \in Seq(Byte) /\ Len(q) = Len(t)
      /\ \A i \in 1 .. Len(t) : q[i] = (s \o t)[Len(s) + i]
  <2>1. \A i \in Len(s) + 1 .. Len(s) + Len(t) : (s \o t)[i] \in Byte
    BY <1>1, <1>2
  <2>2. /\ q \in Seq(Byte)
        /\ Len(q) = IF Len(s) + 1 <= Len(s) + Len(t)
                    THEN Len(s) + Len(t) - (Len(s) + 1) + 1 ELSE 0
        /\ \A i \in 1 .. Len(s) + Len(t) - (Len(s) + 1) + 1 :
              q[i] = (s \o t)[Len(s) + 1 + i - 1]
    BY <1>1, <2>1, SubSeqProperties
  <2>3. QED
    BY <1>1, <2>2
<1> HIDE DEF p, q
<1>5. \A i \in 1 .. Len(p) : p[i] = s[i]
  BY <1>3, Joined
<1>6. \A i \in 1 .. Len(q) : q[i] = t[i]
  BY <1>4, Joined
<1>7. p = s
  BY <1>3, <1>5, SeqEqual
<1>8. q = t
  BY <1>4, <1>6, SeqEqual
<1>9. QED
  BY <1>1, <1>7, <1>8 DEF p, q, From

(* Two parts, each with its checksum, behind a header.                       *)
Sealed(s) == s \o <<Checksum(s)>>

(* A sealed part: one byte more, and the sum is 0.                           *)
LEMMA SealedIs ==
    ASSUME NEW s \in Seq(Byte)
    PROVE  /\ Sealed(s) \in Seq(Byte) /\ Len(Sealed(s)) = Len(s) + 1
           /\ \A i \in 1 .. Len(s) : Sealed(s)[i] = s[i]
           /\ SumOf(Sealed(s)) % 256 = 0
           /\ <<Checksum(s)>> \in Seq(Byte)
<1>1. s \in Seq(Nat)
  <2>1. Byte \subseteq Nat
    BY DEF Byte
  <2>2. QED
    BY <2>1, SeqMonotonic
<1>2. Checksum(s) \in Byte /\ SumOf(Sealed(s)) % 256 = 0
  BY <1>1, ChecksumCloses DEF Sealed
<1>3. <<Checksum(s)>> \in Seq(Byte) /\ Len(<<Checksum(s)>>) = 1
  BY <1>2
<1>4. QED
  BY <1>2, <1>3, Joined DEF Sealed

(* Joining sequences of bytes, the brackets do not matter.                   *)
LEMMA Associates ==
    \A x, y, z \in Seq(Byte) : (x \o y) \o z = x \o (y \o z)
<1>1. TAKE x, y, z \in Seq(Byte)
<1>2. QED
  BY ConcatAssociative

(* How CapsAnswer and Message put a packet together.                         *)
LEMMA PartsJoined ==
    ASSUME NEW h \in Seq(Byte), NEW s \in Seq(Byte), NEW t \in Seq(Byte)
    PROVE  /\ h \o s \o <<Checksum(s)>> \o t \o <<Checksum(t)>>
                = h \o (Sealed(s) \o Sealed(t))
           /\ s \o <<Checksum(s)>> \o t \o <<Checksum(t)>> = Sealed(s) \o Sealed(t)
<1> DEFINE x == <<Checksum(s)>>
           y == <<Checksum(t)>>
<1>1. x \in Seq(Byte) /\ y \in Seq(Byte)
  BY SealedIs
<1>2. Sealed(s) = s \o x /\ Sealed(t) = t \o y
  BY Zenon DEF Sealed
<1>3. Sealed(s) \in Seq(Byte) /\ Sealed(t) \in Seq(Byte)
  BY SealedIs
<1> HIDE DEF x, y
<1>4. Sealed(s) \o t \in Seq(Byte)
  BY <1>3, Joined
<1>5. (Sealed(s) \o t) \o y = Sealed(s) \o (t \o y)
  BY <1>1, <1>3
<1>6. (h \o s) \o x = h \o (s \o x)
  BY <1>1, Associates, Zenon
<1>7. (h \o Sealed(s)) \o t = h \o (Sealed(s) \o t)
  BY <1>3, Associates, Zenon
<1>8. (h \o (Sealed(s) \o t)) \o y = h \o ((Sealed(s) \o t) \o y)
  BY <1>1, <1>4, Associates, Zenon
<1>9. ((s \o x) \o t) \o y = Sealed(s) \o Sealed(t)
  BY <1>2, <1>5, Zenon
<1>10. (((h \o s) \o x) \o t) \o y = h \o (Sealed(s) \o Sealed(t))
  BY <1>2, <1>5, <1>6, <1>7, <1>8, Zenon
<1>11. QED
  BY <1>9, <1>10, Zenon DEF x, y

(* A sequence of n bytes.                                                    *)
Bytes(s, n) == s \in Seq(Byte) /\ Len(s) = n

(* The zeros of the headers.                                                 *)
LEMMA ZerosAre ==
    /\ Bytes(Zeros(7), 7) /\ Bytes(Zeros(8), 8) /\ Bytes(Zeros(9), 9) /\ Bytes(Zeros(42), 42)
    /\ Zeros(9)[1] = 0
BY DEF Zeros, Byte, Bytes

(* The header of either version, for a message of n bytes.                   *)
Head15 == <<6, 0, 255, 7, 0>>
Head20 == <<6, 0, 255, 7, 6>>
Size15(n) == <<n>>
Size20(n) == <<n, 0>>

(* The length in a header.                                                   *)
LEMMA SizesAre ==
    ASSUME NEW n \in Byte
    PROVE  /\ Bytes(Size15(n), 1) /\ Size15(n)[1] = n
           /\ Bytes(Size20(n), 2) /\ Size20(n)[1] = n /\ Size20(n)[2] = 0
BY DEF Size15, Size20, Byte, Bytes

(* The first bytes of a header.                                              *)
LEMMA HeadsAre ==
    /\ Bytes(Head15, 5) /\ Bytes(Head20, 5)
    /\ Head15[1] = 6 /\ Head15[2] = 0 /\ Head15[3] = 255 /\ Head15[4] = 7 /\ Head15[5] = 0
    /\ Head20[1] = 6 /\ Head20[2] = 0 /\ Head20[3] = 255 /\ Head20[4] = 7 /\ Head20[5] = 6
BY DEF Head15, Head20, Byte, Bytes

(* The offset at which the message begins.                                   *)
Offset(v2) == IF v2 THEN 16 ELSE 14

(* d begins like a packet of that version with n bytes in it.                *)
Begins(d, v2, n) ==
    /\ d[1] = 6 /\ d[2] = 0 /\ d[3] = 255 /\ d[4] = 7
    /\ d[5] = IF v2 THEN 6 ELSE 0
    /\ IF v2 THEN d[6] = 0 /\ d[15] = n /\ d[16] = 0 ELSE d[14] = n

(* The header of a packet with n bytes in it.                                *)
HeaderFor(v2, n) ==
    IF v2 THEN Head20 \o Zeros(9) \o Size20(n) ELSE Head15 \o Zeros(8) \o Size15(n)


(* p has k bytes: m of s, and n of t behind them.                            *)
Follows(p, s, m, t, n, k) ==
    /\ Bytes(p, k)
    /\ \A i \in 1 .. m : p[i] = s[i]
    /\ \A i \in 1 .. n : p[m + i] = t[i]

(* What is joined lies one behind the other.                                 *)
LEMMA JoinFollows ==
    \A m, n, k \in Nat : k = m + n =>
        \A s, t : Bytes(s, m) /\ Bytes(t, n) => Follows(s \o t, s, m, t, n, k)
<1>1. TAKE m, n, k \in Nat
<1>2. HAVE k = m + n
<1>3. TAKE s, t
<1>4. HAVE Bytes(s, m) /\ Bytes(t, n)
<1>5. PICK p : p = s \o t
  OBVIOUS
<1>6. s \in Seq(Byte) /\ t \in Seq(Byte)
  BY <1>4 DEF Bytes
<1>7. p \in Seq(Byte) /\ Len(p) = Len(s) + Len(t)
  BY <1>6, <1>5, Joined
<1>8. \A i \in 1 .. Len(s) : p[i] = s[i]
  BY <1>6, <1>5, Joined
<1>9. \A i \in 1 .. Len(t) : p[Len(s) + i] = t[i]
  BY <1>6, <1>5, Joined
<1>10. Len(s) = m /\ Len(t) = n
  BY <1>4 DEF Bytes
<1>11. Bytes(p, k)
  BY <1>2, <1>7, <1>10 DEF Bytes
<1>12. \A i \in 1 .. m : p[i] = s[i]
  BY <1>8, <1>10
<1>13. \A i \in 1 .. n : p[m + i] = t[i]
  BY <1>9, <1>10
<1>14. Follows(p, s, m, t, n, k)
  BY <1>11, <1>12, <1>13 DEF Follows
<1>15. QED
  BY <1>5, <1>14, Zenon

(* A header is as long as its version has it, and begins as it should.       *)
LEMMA HeaderIs ==
    ASSUME NEW v2 \in BOOLEAN, NEW n \in Byte
    PROVE  /\ Bytes(HeaderFor(v2, n), Offset(v2))
           /\ Begins(HeaderFor(v2, n), v2, n)
<1>1. \A h, p : /\ Follows(p, Head20, 5, Zeros(9), 9, 14)
                /\ Follows(h, p, 14, Size20(n), 2, 16)
                => Begins(h, TRUE, n) /\ Bytes(h, 16)
  <2> SUFFICES ASSUME NEW h, NEW p, Follows(p, Head20, 5, Zeros(9), 9, 14),
                      Follows(h, p, 14, Size20(n), 2, 16)
               PROVE  Begins(h, TRUE, n) /\ Bytes(h, 16)
    OBVIOUS
  <2>1. /\ p[1] = Head20[1] /\ p[2] = Head20[2] /\ p[3] = Head20[3]
        /\ p[4] = Head20[4] /\ p[5] = Head20[5] /\ p[5 + 1] = Zeros(9)[1]
    BY DEF Follows
  <2>2. /\ h[1] = p[1] /\ h[2] = p[2] /\ h[3] = p[3] /\ h[4] = p[4] /\ h[5] = p[5]
        /\ h[6] = p[6] /\ h[14 + 1] = Size20(n)[1] /\ h[14 + 2] = Size20(n)[2]
    BY DEF Follows
  <2>3. /\ h[1] = 6 /\ h[2] = 0 /\ h[3] = 255 /\ h[4] = 7 /\ h[5] = 6
        /\ h[6] = 0 /\ h[15] = n /\ h[16] = 0
    BY <2>1, <2>2, HeadsAre, ZerosAre, SizesAre
  <2>4. QED
    BY <2>3 DEF Begins, Follows
<1>2. \A h, p : /\ Follows(p, Head15, 5, Zeros(8), 8, 13)
                /\ Follows(h, p, 13, Size15(n), 1, 14)
                => Begins(h, FALSE, n) /\ Bytes(h, 14)
  <2> SUFFICES ASSUME NEW h, NEW p, Follows(p, Head15, 5, Zeros(8), 8, 13),
                      Follows(h, p, 13, Size15(n), 1, 14)
               PROVE  Begins(h, FALSE, n) /\ Bytes(h, 14)
    OBVIOUS
  <2>1. /\ p[1] = Head15[1] /\ p[2] = Head15[2] /\ p[3] = Head15[3]
        /\ p[4] = Head15[4] /\ p[5] = Head15[5]
    BY DEF Follows
  <2>2. /\ h[1] = p[1] /\ h[2] = p[2] /\ h[3] = p[3] /\ h[4] = p[4] /\ h[5] = p[5]
        /\ h[13 + 1] = Size15(n)[1]
    BY DEF Follows
  <2>3. /\ h[1] = 6 /\ h[2] = 0 /\ h[3] = 255 /\ h[4] = 7 /\ h[5] = 0
        /\ h[14] = n
    BY <2>1, <2>2, HeadsAre, SizesAre
  <2>4. QED
    BY <2>3 DEF Begins, Follows
<1>3. /\ Follows(Head20 \o Zeros(9), Head20, 5, Zeros(9), 9, 14)
      /\ Follows(Head15 \o Zeros(8), Head15, 5, Zeros(8), 8, 13)
  BY ZerosAre, HeadsAre, JoinFollows
<1>4. Bytes(Head20 \o Zeros(9), 14) /\ Bytes(Head15 \o Zeros(8), 13)
  BY <1>3, Zenon DEF Follows
<1>5. /\ Follows(Head20 \o Zeros(9) \o Size20(n), Head20 \o Zeros(9), 14, Size20(n), 2, 16)
      /\ Follows(Head15 \o Zeros(8) \o Size15(n), Head15 \o Zeros(8), 13, Size15(n), 1, 14)
  BY <1>4, SizesAre, JoinFollows
<1>6. CASE v2
  BY <1>1, <1>3, <1>5, <1>6 DEF HeaderFor, Offset
<1>7. CASE ~v2
  BY <1>2, <1>3, <1>5, <1>7 DEF HeaderFor, Offset
<1>8. QED
  BY <1>6, <1>7

(* A packet is its header and its message.                                   *)
LEMMA PacketIs ==
    ASSUME NEW v2 \in BOOLEAN, NEW n \in Byte, NEW message, Bytes(message, n)
    PROVE  /\ Packet(v2, message) = HeaderFor(v2, n) \o message
           /\ Bytes(Packet(v2, message), Offset(v2) + n)
           /\ Begins(Packet(v2, message), v2, n)
           /\ \A i \in 1 .. n : Packet(v2, message)[Offset(v2) + i] = message[i]
<1>1. Packet(v2, message) = HeaderFor(v2, n) \o message
  <2>1. Len(message) = n
    BY DEF Bytes
  <2>2. QED
    BY <2>1 DEF Packet, HeaderFor, Head15, Head20, Size15, Size20
<1>2. Bytes(HeaderFor(v2, n), Offset(v2)) /\ Begins(HeaderFor(v2, n), v2, n)
  BY HeaderIs
<1>3. n \in Nat /\ Offset(v2) \in Nat /\ Offset(v2) + n \in Nat
  BY DEF Offset, Byte
<1>4. Follows(Packet(v2, message), HeaderFor(v2, n), Offset(v2), message, n, Offset(v2) + n)
  BY <1>1, <1>2, <1>3, JoinFollows, Zenon
<1>5. \A d, h : Follows(d, h, Offset(v2), message, n, Offset(v2) + n) /\ Begins(h, v2, n)
               => Begins(d, v2, n)
  <2> SUFFICES ASSUME NEW d, NEW h, Follows(d, h, Offset(v2), message, n, Offset(v2) + n),
                      Begins(h, v2, n)
               PROVE  Begins(d, v2, n)
    OBVIOUS
  <2>1. \A i \in 1 .. Offset(v2) : d[i] = h[i]
    BY Zenon DEF Follows
  <2>2. CASE v2
    BY <2>1, <2>2 DEF Begins, Offset
  <2>3. CASE ~v2
    BY <2>1, <2>3 DEF Begins, Offset
  <2>4. QED
    BY <2>2, <2>3
<1>6. QED
  BY <1>1, <1>2, <1>4, <1>5, Zenon DEF Follows

(* SealedIs, by the length.                                                  *)
LEMMA SealedBytes ==
    \A n, k \in Nat : k = n + 1 =>
        \A s : Bytes(s, n) =>
            /\ Bytes(Sealed(s), k)
            /\ \A i \in 1 .. n : Sealed(s)[i] = s[i]
            /\ SumOf(Sealed(s)) % 256 = 0
<1>1. TAKE n, k \in Nat
<1>2. HAVE k = n + 1
<1>3. TAKE s
<1>4. HAVE Bytes(s, n)
<1>5. s \in Seq(Byte) /\ Len(s) = n
  BY <1>4 DEF Bytes
<1>6. Sealed(s) \in Seq(Byte) /\ Len(Sealed(s)) = n + 1 /\ SumOf(Sealed(s)) % 256 = 0
  BY <1>5, SealedIs
<1>7. \A i \in 1 .. n : Sealed(s)[i] = s[i]
  BY <1>5, SealedIs
<1>8. Bytes(Sealed(s), k)
  BY <1>2, <1>6 DEF Bytes
<1>9. QED
  BY <1>6, <1>7, <1>8

(* Short sequences, by name.                                                 *)
Two(a, b)      == <<a, b>>
Three(a, b, c) == <<a, b, c>>

(* Two bytes, and three.                                                     *)
LEMMA TwoAre ==
    ASSUME NEW a \in Byte, NEW b \in Byte
    PROVE  Bytes(Two(a, b), 2) /\ Two(a, b)[1] = a /\ Two(a, b)[2] = b
BY DEF Two, Byte, Bytes

LEMMA ThreeAre ==
    ASSUME NEW a \in Byte, NEW b \in Byte, NEW c \in Byte
    PROVE  /\ Bytes(Three(a, b, c), 3)
           /\ Three(a, b, c)[1] = a /\ Three(a, b, c)[2] = b /\ Three(a, b, c)[3] = c
BY DEF Three, Byte, Bytes

(* What the server says of itself has nine bytes.                            *)
LEMMA AuthCapIs == Bytes(AuthCap, 9)
BY DEF AuthCap, Byte, Bytes

(* What a client asks outside of a session: a message of n bytes, with data  *)
(* that begins with x.                                                       *)
Asked(m, seq, cmd, x, n) ==
    /\ Bytes(m, n) /\ m[1] = 32 /\ m[2] = 24 /\ m[4] = 129
    /\ m[5] = seq * 4 /\ m[6] = cmd /\ m[7] = x

(* Where the bytes of such a message lie.                                    *)
LEMMA MessageIs ==
    ASSUME NEW seq \in 0 .. 63, NEW cmd \in Byte, NEW x, NEW data, NEW k \in {2, 3},
           Bytes(data, k), data[1] = x
    PROVE  Asked(Message(6, seq, cmd, data), seq, cmd, x, k + 7)
<1>1. seq * 4 \in Byte /\ 32 \in Byte /\ 24 \in Byte /\ 129 \in Byte
  BY DEF Byte
<1> DEFINE head == Two(32, 24)
           tri  == Three(129, seq * 4, cmd)
           body == tri \o data
<1>2. /\ Bytes(head, 2) /\ head[1] = 32 /\ head[2] = 24
      /\ Bytes(tri, 3) /\ tri[1] = 129 /\ tri[2] = seq * 4 /\ tri[3] = cmd
  <2>1. Bytes(head, 2) /\ head[1] = 32 /\ head[2] = 24
    BY <1>1, TwoAre
  <2>2. Bytes(tri, 3) /\ tri[1] = 129 /\ tri[2] = seq * 4 /\ tri[3] = cmd
    BY <1>1, ThreeAre
  <2>3. QED
    BY <2>1, <2>2, Zenon
<1> HIDE DEF head, tri
<1>3. Follows(body, tri, 3, data, k, 3 + k)
  BY <1>2, JoinFollows
<1>4. Message(6, seq, cmd, data) = Sealed(head) \o Sealed(body)
  <2>1. head \in Seq(Byte) /\ body \in Seq(Byte)
    BY <1>2, <1>3 DEF Follows, Bytes
  <2>2. /\ head = <<BmcAddr, 6 * 4>>
        /\ body = <<ConsoleAddr, seq * 4, cmd>> \o data
    BY DEF head, tri, Two, Three, BmcAddr, ConsoleAddr
  <2>3. Message(6, seq, cmd, data)
          = head \o <<Checksum(head)>> \o body \o <<Checksum(body)>>
    <3> HIDE DEF body
    <3>1. QED
      BY <2>2 DEF Message
  <2> HIDE DEF body
  <2>4. QED
    BY <2>1, <2>3, PartsJoined
<1> HIDE DEF body
<1>5. Bytes(body, 3 + k)
  BY <1>3, Zenon DEF Follows
<1>6. /\ Bytes(Sealed(head), 3) /\ \A i \in 1 .. 2 : Sealed(head)[i] = head[i]
  BY <1>2, SealedBytes
<1>7. /\ Bytes(Sealed(body), 4 + k) /\ \A i \in 1 .. 3 + k : Sealed(body)[i] = body[i]
  <2>1. 3 + k \in Nat /\ 4 + k \in Nat /\ 4 + k = 3 + k + 1
    OBVIOUS
  <2>2. QED
    BY <1>5, <2>1, SealedBytes
<1>8. Follows(Sealed(head) \o Sealed(body), Sealed(head), 3, Sealed(body), 4 + k, k + 7)
  <2>1. 3 \in Nat /\ 4 + k \in Nat /\ k + 7 \in Nat /\ k + 7 = 3 + (4 + k)
    OBVIOUS
  <2>2. QED
    BY <1>6, <1>7, <2>1, JoinFollows
<1>9. body[1] = 129 /\ body[2] = seq * 4 /\ body[3] = cmd /\ body[4] = x
  <2>1. body[1] = tri[1] /\ body[2] = tri[2] /\ body[3] = tri[3] /\ body[3 + 1] = data[1]
    BY <1>3 DEF Follows
  <2>2. QED
    BY <1>2, <2>1
<1>10. /\ Sealed(head)[1] = 32 /\ Sealed(head)[2] = 24
       /\ Sealed(body)[1] = 129 /\ Sealed(body)[2] = seq * 4
       /\ Sealed(body)[3] = cmd /\ Sealed(body)[4] = x
  BY <1>2, <1>6, <1>7, <1>9
<1>11. ASSUME NEW p, NEW y, NEW z, Follows(p, y, 3, z, 4 + k, k + 7),
              y[1] = 32, y[2] = 24, z[1] = 129, z[2] = seq * 4, z[3] = cmd, z[4] = x
       PROVE  Asked(p, seq, cmd, x, k + 7)
  <2>1. /\ p[1] = y[1] /\ p[2] = y[2] /\ p[3 + 1] = z[1] /\ p[3 + 2] = z[2]
        /\ p[3 + 3] = z[3] /\ p[3 + 4] = z[4]
    BY <1>11 DEF Follows
  <2>2. Bytes(p, k + 7)
    BY <1>11, Zenon DEF Follows
  <2>3. QED
    BY <1>11, <2>1, <2>2 DEF Asked
<1>12. QED
  BY <1>4, <1>8, <1>10, <1>11

(* The question with the header of its version before it.                    *)
Laid(d, v2, seq, cmd, x, n) ==
    /\ Bytes(d, Offset(v2) + n) /\ Begins(d, v2, n)
    /\ d[Offset(v2) + 1] = 32 /\ d[Offset(v2) + 2] = 24 /\ d[Offset(v2) + 4] = 129
    /\ d[Offset(v2) + 5] = seq * 4 /\ d[Offset(v2) + 6] = cmd /\ d[Offset(v2) + 7] = x

(* The two questions lie where their version has them.                       *)
LEMMA QuestionsAreLaid ==
    ASSUME NEW v2 \in BOOLEAN, NEW seq \in 0 .. 63
    PROVE  /\ Laid(Caps(v2, seq), v2, seq, 56, 142, 9)
           /\ Laid(Ciphers(v2, seq), v2, seq, 84, 14, 10)
<1>1. ASSUME NEW m, NEW cmd, NEW x, NEW n \in {9, 10}, Asked(m, seq, cmd, x, n)
      PROVE  Laid(Packet(v2, m), v2, seq, cmd, x, n)
  <2>1. Bytes(m, n) /\ n \in Byte
    BY <1>1 DEF Asked, Byte
  <2>2. /\ Bytes(Packet(v2, m), Offset(v2) + n) /\ Begins(Packet(v2, m), v2, n)
        /\ \A i \in 1 .. n : Packet(v2, m)[Offset(v2) + i] = m[i]
    BY <2>1, PacketIs
  <2>3. ASSUME NEW d, Bytes(d, Offset(v2) + n), Begins(d, v2, n),
               \A i \in 1 .. n : d[Offset(v2) + i] = m[i]
        PROVE  Laid(d, v2, seq, cmd, x, n)
    BY <1>1, <2>3 DEF Asked, Laid
  <2>4. QED
    BY <2>2, <2>3, Zenon
<1> DEFINE two   == Two(142, 4)
           three == Three(14, 0, 128)
<1>2. Bytes(two, 2) /\ two[1] = 142 /\ Bytes(three, 3) /\ three[1] = 14
  <2>1. 142 \in Byte /\ 4 \in Byte /\ 14 \in Byte /\ 0 \in Byte /\ 128 \in Byte
    BY DEF Byte
  <2>2. QED
    BY <2>1, TwoAre, ThreeAre
<1>3. two = <<142, 4>> /\ three = <<14, 0, 128>>
  BY DEF Two, Three
<1> HIDE DEF two, three
<1>4. 56 \in Byte /\ 84 \in Byte /\ 2 + 7 = 9 /\ 3 + 7 = 10
  BY DEF Byte
<1>5. Asked(Message(6, seq, 56, two), seq, 56, 142, 9)
  BY <1>2, <1>4, MessageIs
<1>6. Asked(Message(6, seq, 84, three), seq, 84, 14, 10)
  BY <1>2, <1>4, MessageIs
<1>7. QED
  BY <1>1, <1>3, <1>5, <1>6 DEF Caps, Ciphers

(* What the code reads in such a question.                                   *)
Opened(e, seq, cmd, x) ==
    /\ At(e, 14) = 32 /\ At(e, 15) = 24 /\ At(e, 17) = 129
    /\ At(e, 18) = seq * 4 /\ At(e, 19) = cmd /\ At(e, 20) = x
    /\ Len(e) \in Nat /\ Len(e) >= 22

(* Cut as the code cuts it, it is laid out the same in either version.       *)
LEMMA Unwrapped ==
    ASSUME NEW v2 \in BOOLEAN, NEW seq \in 0 .. 63, NEW cmd, NEW x, NEW n \in {9, 10},
           NEW d, Laid(d, v2, seq, cmd, x, n)
    PROVE  Opened(Unwrap(d), seq, cmd, x)
<1>1. CASE v2
  <2>1. /\ d \in Seq(Byte) /\ Len(d) = 16 + n /\ d[5] = 6
        /\ d[17] = 32 /\ d[18] = 24 /\ d[20] = 129
        /\ d[21] = seq * 4 /\ d[22] = cmd /\ d[23] = x
    BY <1>1 DEF Laid, Begins, Bytes, Offset
  <2>2. Unwrap(d) = SubSeq(d, 3, 16 + n)
    BY <2>1 DEF Unwrap, At, From
  <2>3. /\ Len(SubSeq(d, 3, 16 + n)) = 14 + n
        /\ \A i \in 1 .. 14 + n : SubSeq(d, 3, 16 + n)[i] = d[i + 2]
    BY <2>1
  <2>4. QED
    BY <2>1, <2>2, <2>3 DEF At, Opened
<1>2. CASE ~v2
  <2>1. /\ d[5] = 0 /\ Len(d) = 14 + n
        /\ d[15] = 32 /\ d[16] = 24 /\ d[18] = 129
        /\ d[19] = seq * 4 /\ d[20] = cmd /\ d[21] = x
    BY <1>2 DEF Laid, Begins, Bytes, Offset
  <2>2. Unwrap(d) = d
    BY <2>1 DEF Unwrap, At
  <2>3. QED
    BY <2>1, <2>2 DEF At, Opened
<1>3. QED
  BY <1>1, <1>2

(* Fields of a byte that share it.                                           *)
LEMMA Fields ==
    ASSUME NEW seq \in 0 .. 63
    PROVE  /\ 24 \div 4 = 6 /\ 24 % 4 = 0 /\ 142 \div 128 = 1 /\ 142 % 16 = 14
           /\ (seq * 4) % 4 = 0 /\ (seq * 4) \div 4 = seq
OBVIOUS

(* d is a request of that command and version, and nothing else.             *)
Requests(d, v2, cmd) ==
    /\ ~IsPing(d) /\ ~IsOpen(d) /\ (At(d, 4) = 6 <=> v2)
    /\ \A other : IsRequest(d, other) <=> other = cmd

(* It is taken for a request of that command.                                *)
LEMMA IsAsked ==
    ASSUME NEW v2 \in BOOLEAN, NEW seq \in 0 .. 63, NEW cmd, NEW x, NEW n \in {9, 10},
           NEW d, Laid(d, v2, seq, cmd, x, n)
    PROVE  Requests(d, v2, cmd)
<1>1. /\ Len(d) >= 23 /\ At(d, 0) = 6 /\ At(d, 2) = 255 /\ At(d, 3) = 7
      /\ At(d, 4) = (IF v2 THEN 6 ELSE 0) /\ (v2 => At(d, 5) = 0)
  BY DEF Laid, Begins, Bytes, Offset, At
<1>2. ~IsPing(d) /\ IsIpmi(d) /\ ~IsOpen(d) /\ (At(d, 4) = 6 <=> v2)
  <2>1. At(d, 4) = 6 <=> v2
    BY <1>1
  <2>2. v2 => At(d, 5) # 16
    BY <1>1
  <2>3. Len(d) \in Nat /\ ~(Len(d) \in 10 .. 21) /\ Len(d) >= 22
    BY <1>1 DEF Laid, Bytes, Offset
  <2>4. QED
    BY <1>1, <2>1, <2>2, <2>3 DEF IsPing, IsIpmi, IsOpen
<1>3. At(Unwrap(d), 15) = 24 /\ At(Unwrap(d), 19) = cmd
  <2>1. Opened(Unwrap(d), seq, cmd, x)
    BY Unwrapped, Zenon
  <2>2. QED
    BY <2>1 DEF Opened
<1>4. QED
  BY <1>1, <1>2, <1>3, Fields DEF IsRequest, Requests

(* The code knows it for what it is, and reads its fields right.             *)
LEMMA CapsHeard ==
    ASSUME NEW v2 \in BOOLEAN, NEW seq \in 0 .. 63, NEW d, Laid(d, v2, seq, 56, 142, 9)
    PROVE  sessionless_data(d) = {CapsAnswer(Header(v2), 32, 0, 129, 0, seq)}
<1>1. /\ At(Unwrap(d), 14) = 32 /\ At(Unwrap(d), 15) = 24 /\ At(Unwrap(d), 17) = 129
      /\ At(Unwrap(d), 18) = seq * 4 /\ At(Unwrap(d), 20) = 142 /\ Len(Unwrap(d)) >= 22
  <2>1. 9 \in {9, 10}
    OBVIOUS
  <2>2. Opened(Unwrap(d), seq, 56, 142)
    BY <2>1, Unwrapped, Zenon
  <2>3. QED
    BY <2>2 DEF Opened
<1>2. /\ ~IsPing(d) /\ ~IsOpen(d) /\ IsRequest(d, 56) /\ ~IsRequest(d, 84)
      /\ (At(d, 4) = 6 <=> v2)
  <2>1. 9 \in {9, 10} /\ 84 # 56
    OBVIOUS
  <2>2. Requests(d, v2, 56)
    BY <2>1, IsAsked, Zenon
  <2>3. QED
    BY <2>1, <2>2 DEF Requests
<1>3. IsCaps(d) /\ ~IsCiphers(d)
  BY <1>1, <1>2, Fields DEF IsCaps, IsCiphers
<1>4. Capabilities(d) = CapsAnswer(Header(v2), 32, 0, 129, 0, seq)
  BY <1>1, <1>2, Fields DEF Capabilities
<1>5. QED
  BY <1>2, <1>3, <1>4 DEF sessionless_data

(* So it does the question for the cipher suites.                            *)
LEMMA CiphersHeard ==
    ASSUME NEW v2 \in BOOLEAN, NEW seq \in 0 .. 63, NEW d, Laid(d, v2, seq, 84, 14, 10)
    PROVE  sessionless_data(d) = {SuitesFor(seq)}
<1>1. /\ At(Unwrap(d), 14) = 32 /\ At(Unwrap(d), 15) = 24 /\ At(Unwrap(d), 17) = 129
      /\ At(Unwrap(d), 18) = seq * 4
  <2>1. 10 \in {9, 10}
    OBVIOUS
  <2>2. Opened(Unwrap(d), seq, 84, 14)
    BY <2>1, Unwrapped, Zenon
  <2>3. QED
    BY <2>2 DEF Opened
<1>2. ~IsPing(d) /\ ~IsOpen(d) /\ IsRequest(d, 84) /\ ~IsRequest(d, 56)
  <2>1. 10 \in {9, 10} /\ 84 # 56
    OBVIOUS
  <2>2. Requests(d, v2, 84)
    BY <2>1, IsAsked, Zenon
  <2>3. QED
    BY <2>1, <2>2 DEF Requests
<1>3. IsCiphers(d) /\ ~IsCaps(d)
  BY <1>2 DEF IsCiphers, IsCaps
<1>4. Suites(d) = SuitesFor(seq)
  BY <1>1, Fields DEF Suites, SuitesFor, BmcAddr, ConsoleAddr
<1>5. QED
  BY <1>2, <1>3, <1>4 DEF sessionless_data

(* A sequence of some bytes is not empty.                                    *)
LEMMA NotNone ==
    ASSUME NEW n \in Nat \ {0}, NEW s, Bytes(s, n)
    PROVE  s \in Seq(Byte) /\ s # <<>> /\ Len(s) = n
<1>1. s \in Seq(Byte) /\ Len(s) = n
  BY DEF Bytes
<1>2. Len(<<>>) = 0
  OBVIOUS
<1>3. QED
  BY <1>1, <1>2

(* Cut behind m bytes, p is s and t.                                         *)
Split(p, s, m, t) == SubSeq(p, 1, m) = s /\ From(p, m) = t

(* What is joined can be cut again.                                          *)
LEMMA JoinSplits ==
    \A m, n \in Nat : \A s, t : Bytes(s, m) /\ Bytes(t, n) => Split(s \o t, s, m, t)
<1>1. TAKE m, n \in Nat
<1>2. TAKE s, t
<1>3. HAVE Bytes(s, m) /\ Bytes(t, n)
<1>4. s \in Seq(Byte) /\ t \in Seq(Byte) /\ Len(s) = m
  BY <1>3 DEF Bytes
<1>5. SubSeq(s \o t, 1, Len(s)) = s /\ From(s \o t, Len(s)) = t
  BY <1>4, Cut
<1>6. QED
  BY <1>4, <1>5 DEF Split

(* The first bytes of a sequence.                                            *)
LEMMA FirstBytes ==
    ASSUME NEW s \in Seq(Byte), NEW n \in Nat, n <= Len(s),
           NEW t \in Seq(Byte), Len(t) = n, \A i \in 1 .. n : s[i] = t[i]
    PROVE  SubSeq(s, 1, n) = t
<1> DEFINE p == SubSeq(s, 1, n)
<1>1. \A i \in 1 .. n : s[i] \in Byte
  BY ElementOfSeq
<1>2. /\ p \in Seq(Byte)
      /\ Len(p) = IF 1 <= n THEN n - 1 + 1 ELSE 0
      /\ \A i \in 1 .. n - 1 + 1 : p[i] = s[1 + i - 1]
  BY <1>1, SubSeqProperties
<1>3. Len(p) = n /\ \A i \in 1 .. n : p[i] = s[i]
  BY <1>2
<1> HIDE DEF p
<1>4. \A i \in 1 .. Len(p) : p[i] = t[i]
  BY <1>3
<1>5. p = t
  BY <1>2, <1>3, <1>4, SeqEqual
<1>6. QED
  BY <1>5 DEF p

(* A well-formed answer with that message in it.                             *)
Carries(v2, a, p) ==
    a \in Seq(Byte) /\ WellFormed(v2, a) /\ From(a, Offset(v2)) = p

(* A header before two sealed parts is well formed.                          *)
LEMMA PartsFit ==
    ASSUME NEW v2 \in BOOLEAN, NEW h, NEW s, NEW t,
           Bytes(h, Offset(v2)), Begins(h, v2, 16), Bytes(s, 3), Bytes(t, 13),
           SumOf(s) % 256 = 0, SumOf(t) % 256 = 0
    PROVE  Carries(v2, h \o (s \o t), s \o t)
<1>1. Follows(s \o t, s, 3, t, 13, 16) /\ Split(s \o t, s, 3, t)
  BY JoinFollows, JoinSplits
<1>2. ASSUME NEW b, Follows(b, s, 3, t, 13, 16), Split(b, s, 3, t)
      PROVE  Carries(v2, h \o b, b)
  <2>1. Bytes(b, 16) /\ 16 \in Nat /\ Offset(v2) \in Nat /\ Offset(v2) + 16 \in Nat
    BY <1>2 DEF Follows, Offset
  <2>2. /\ Follows(h \o b, h, Offset(v2), b, 16, Offset(v2) + 16)
        /\ Split(h \o b, h, Offset(v2), b)
    BY <2>1, JoinFollows, JoinSplits
  <2>3. ASSUME NEW a, Follows(a, h, Offset(v2), b, 16, Offset(v2) + 16),
               Split(a, h, Offset(v2), b)
        PROVE  Carries(v2, a, b)
    <3>1. Bytes(a, Offset(v2) + 16) /\ \A i \in 1 .. Offset(v2) : a[i] = h[i]
      BY <2>3, Zenon DEF Follows
    <3>2. Begins(a, v2, 16)
      <4>1. CASE v2
        BY <3>1, <4>1 DEF Begins, Offset
      <4>2. CASE ~v2
        BY <3>1, <4>2 DEF Begins, Offset
      <4>3. QED
        BY <4>1, <4>2
    <3>3. a \in Seq(Byte) /\ Len(a) = Offset(v2) + 16 /\ Len(b) = 16
      BY <2>1, <3>1 DEF Bytes
    <3>4. SubSeq(a, 1, 5) = <<6, 0, 255, 7, IF v2 THEN 6 ELSE 0>>
      <4> DEFINE five == <<6, 0, 255, 7, IF v2 THEN 6 ELSE 0>>
      <4>1. /\ five \in Seq(Byte) /\ Len(five) = 5 /\ five[1] = 6 /\ five[2] = 0
            /\ five[3] = 255 /\ five[4] = 7 /\ five[5] = IF v2 THEN 6 ELSE 0
        BY DEF Byte
      <4> HIDE DEF five
      <4>2. 5 \in Nat /\ 5 <= Len(a)
        BY <3>3 DEF Offset
      <4>3. \A i \in 1 .. 5 : a[i] = five[i]
        <5>1. /\ a[1] = five[1] /\ a[2] = five[2] /\ a[3] = five[3] /\ a[4] = five[4]
              /\ a[5] = five[5]
          BY <3>2, <4>1 DEF Begins
        <5>2. QED
          BY <5>1
      <4>4. SubSeq(a, 1, 5) = five
        BY <3>3, <4>1, <4>2, <4>3, FirstBytes
      <4>5. QED
        BY <4>4 DEF five
    <3>5. 16 = IF v2 THEN At(a, 14) + 256 * At(a, 15) ELSE At(a, 13)
      BY <3>2 DEF Begins, At
    <3>6. /\ From(a, Offset(v2)) = b /\ SubSeq(b, 1, 3) = s /\ From(b, 3) = t
      BY <1>2, <2>3, Zenon DEF Split
    <3>7. WellFormed(v2, a)
      <4>1. Len(a) > Offset(v2) + 6
        BY <3>3 DEF Offset
      <4>2. Len(From(a, Offset(v2))) = 16
        BY <3>3, <3>6
      <4>3. /\ SumOf(SubSeq(From(a, Offset(v2)), 1, 3)) % 256 = 0
            /\ SumOf(From(From(a, Offset(v2)), 3)) % 256 = 0
        BY <3>6
      <4>4. QED
        BY <3>4, <3>5, <4>1, <4>2, <4>3, Zenon DEF WellFormed, Offset
    <3>8. QED
      BY <3>3, <3>6, <3>7, Zenon DEF Carries
  <2>4. QED
    BY <2>2, <2>3
<1>3. QED
  BY <1>1, <1>2

(* The message of an answer that is addressed and numbered for the question. *)
Replies(p, seq) ==
    p[1] = 129 /\ p[2] = 28 /\ p[4] = 32 /\ p[5] = seq * 4 /\ p[6] = 56

(* The answer is what the client checks for.                                 *)
LEMMA CapsAnswerFits ==
    ASSUME NEW v2 \in BOOLEAN, NEW seq \in 0 .. 63
    PROVE  /\ CapsAnswer(Header(v2), 32, 0, 129, 0, seq) \in Seq(Byte)
           /\ CapsFor(v2, seq, CapsAnswer(Header(v2), 32, 0, 129, 0, seq))
<1>1. /\ seq * 4 \in Byte /\ 32 \in Byte /\ 28 \in Byte /\ 129 \in Byte
      /\ 56 \in Byte /\ 16 \in Byte
  BY DEF Byte
<1> DEFINE head == Two(129, 28)
           tri  == Three(32, seq * 4, 56)
           body == tri \o AuthCap
<1>2. /\ Bytes(head, 2) /\ head[1] = 129 /\ head[2] = 28
      /\ Bytes(tri, 3) /\ tri[1] = 32 /\ tri[2] = seq * 4 /\ tri[3] = 56
  <2>1. Bytes(head, 2) /\ head[1] = 129 /\ head[2] = 28
    BY <1>1, TwoAre
  <2>2. Bytes(tri, 3) /\ tri[1] = 32 /\ tri[2] = seq * 4 /\ tri[3] = 56
    BY <1>1, ThreeAre
  <2>3. QED
    BY <2>1, <2>2, Zenon
<1> HIDE DEF head, tri
<1>3. Follows(body, tri, 3, AuthCap, 9, 12)
  BY <1>2, AuthCapIs, JoinFollows
<1> HIDE DEF body
<1>4. Bytes(body, 12)
  BY <1>3, Zenon DEF Follows
<1>5. /\ Bytes(Sealed(head), 3) /\ SumOf(Sealed(head)) % 256 = 0
      /\ Bytes(Sealed(body), 13) /\ SumOf(Sealed(body)) % 256 = 0
      /\ \A i \in 1 .. 2 : Sealed(head)[i] = head[i]
      /\ \A i \in 1 .. 12 : Sealed(body)[i] = body[i]
  BY <1>2, <1>4, SealedBytes
<1>6. Bytes(HeaderFor(v2, 16), Offset(v2)) /\ Begins(HeaderFor(v2, 16), v2, 16)
  BY <1>1, HeaderIs
<1>7. Header(v2) = HeaderFor(v2, 16)
  BY DEF Header, HeaderFor, Head15, Head20, Size15, Size20
<1>8. CapsAnswer(Header(v2), 32, 0, 129, 0, seq)
          = HeaderFor(v2, 16) \o (Sealed(head) \o Sealed(body))
  <2>1. /\ head \in Seq(Byte) /\ body \in Seq(Byte) /\ HeaderFor(v2, 16) \in Seq(Byte)
    BY <1>2, <1>4, <1>6 DEF Bytes
  <2>2. head = <<129, 0 + 28>> /\ body = <<32, 0 + seq * 4, 56>> \o AuthCap
    BY DEF head, body, tri, Two, Three
  <2>3. CapsAnswer(Header(v2), 32, 0, 129, 0, seq)
          = HeaderFor(v2, 16) \o head \o <<Checksum(head)>> \o body \o <<Checksum(body)>>
    BY <1>7, <2>2 DEF CapsAnswer
  <2>4. QED
    BY <2>1, <2>3, PartsJoined
<1>9. body[1] = 32 /\ body[2] = seq * 4 /\ body[3] = 56
  <2>1. body[1] = tri[1] /\ body[2] = tri[2] /\ body[3] = tri[3]
    BY <1>3 DEF Follows
  <2>2. QED
    BY <1>2, <2>1
<1>10. /\ Sealed(head)[1] = 129 /\ Sealed(head)[2] = 28
       /\ Sealed(body)[1] = 32 /\ Sealed(body)[2] = seq * 4 /\ Sealed(body)[3] = 56
  BY <1>2, <1>5, <1>9
<1>11. Follows(Sealed(head) \o Sealed(body), Sealed(head), 3, Sealed(body), 13, 16)
  BY <1>5, JoinFollows
<1>12. \A p, x, y :
          /\ Follows(p, x, 3, y, 13, 16) /\ x[1] = 129 /\ x[2] = 28
          /\ y[1] = 32 /\ y[2] = seq * 4 /\ y[3] = 56
          => Replies(p, seq)
  <2> SUFFICES ASSUME NEW p, NEW x, NEW y, Follows(p, x, 3, y, 13, 16), x[1] = 129,
                      x[2] = 28, y[1] = 32, y[2] = seq * 4, y[3] = 56
               PROVE  Replies(p, seq)
    OBVIOUS
  <2>1. p[1] = x[1] /\ p[2] = x[2] /\ p[3 + 1] = y[1] /\ p[3 + 2] = y[2] /\ p[3 + 3] = y[3]
    BY DEF Follows
  <2>2. QED
    BY <2>1 DEF Replies
<1>13. Replies(Sealed(head) \o Sealed(body), seq)
  BY <1>10, <1>11, <1>12
<1>14. Carries(v2, HeaderFor(v2, 16) \o (Sealed(head) \o Sealed(body)),
               Sealed(head) \o Sealed(body))
  BY <1>5, <1>6, PartsFit
<1>15. Carries(v2, CapsAnswer(Header(v2), 32, 0, 129, 0, seq), Sealed(head) \o Sealed(body))
  BY <1>8, <1>14, Zenon
<1>16. \A a, p : Carries(v2, a, p) /\ Replies(p, seq)
                => a \in Seq(Byte) /\ CapsFor(v2, seq, a)
  BY DEF Carries, Replies, CapsFor, Offset, ConsoleAddr, BmcAddr
<1>17. QED
  BY <1>13, <1>15, <1>16, Zenon

(* What may be sent outside of a session, and what may come back.            *)
Fitting(v2, a) ==
    /\ a \in Seq(Byte) /\ a # <<>>
    /\ \/ a = OpenAnswer
       \/ a \in Pongs \cup SuitesAnswers
       \/ WellFormed(v2, a)

(* A datagram, asked in that version, that is answered right.                *)
Datagram(v2, d) ==
    d \in Seq(Byte) /\ d # <<>> /\ \A a \in sessionless_data(d) : Fitting(v2, a)

(* So the question is a datagram that is answered right;                     *)
LEMMA CapsDatagram ==
    ASSUME NEW v2 \in BOOLEAN, NEW seq \in 0 .. 63
    PROVE  Datagram(v2, Caps(v2, seq))
<1>1. Laid(Caps(v2, seq), v2, seq, 56, 142, 9)
  BY QuestionsAreLaid
<1>2. sessionless_data(Caps(v2, seq)) = {CapsAnswer(Header(v2), 32, 0, 129, 0, seq)}
  BY <1>1, CapsHeard
<1>3. \A d : Laid(d, v2, seq, 56, 142, 9) => d \in Seq(Byte) /\ d # <<>>
  BY DEF Laid, Bytes, Offset
<1>4. Caps(v2, seq) \in Seq(Byte) /\ Caps(v2, seq) # <<>>
  BY <1>1, <1>3
<1>5. \A a : a \in Seq(Byte) /\ WellFormed(v2, a) => Fitting(v2, a)
  BY DEF Fitting, WellFormed
<1>6. QED
  BY <1>2, <1>4, <1>5, CapsAnswerFits, Zenon DEF Datagram, CapsFor

(* and so is the question for the cipher suites;                             *)
LEMMA CiphersDatagram ==
    ASSUME NEW v2 \in BOOLEAN, NEW seq \in 0 .. 63
    PROVE  Datagram(v2, Ciphers(v2, seq))
<1>1. Laid(Ciphers(v2, seq), v2, seq, 84, 14, 10)
  BY QuestionsAreLaid
<1>2. sessionless_data(Ciphers(v2, seq)) = {SuitesFor(seq)}
  BY <1>1, CiphersHeard
<1>3. \A d : Laid(d, v2, seq, 84, 14, 10) => d \in Seq(Byte) /\ d # <<>>
  BY DEF Laid, Bytes, Offset
<1>4. Ciphers(v2, seq) \in Seq(Byte) /\ Ciphers(v2, seq) # <<>>
  BY <1>1, <1>3
<1>5. SuitesFor(seq) \in Seq(Byte) /\ SuitesFor(seq) # <<>>
  BY DEF SuitesFor, CipherSuites, BmcAddr, ConsoleAddr, Byte
<1>6. Fitting(v2, SuitesFor(seq))
  BY <1>5, Zenon DEF Fitting, SuitesAnswers
<1>7. QED
  BY <1>2, <1>4, <1>6, Zenon DEF Datagram

(* A pong is made of bytes.                                                  *)
LEMMA PongIs ==
    ASSUME NEW tag \in 0 .. 63
    PROVE  Pong(tag) \in Seq(Byte) /\ Pong(tag) # <<>>
<1> DEFINE front == <<6, 0, 255, 6, 0, 0, 17, 190, 64, tag, 0, 16, 0, 0, 17, 190,
                      0, 0, 0, 0, 129>>
<1>1. Bytes(front, 21)
  BY DEF Bytes, Byte
<1>2. Pong(tag) = front \o Zeros(7)
  BY DEF Pong
<1> HIDE DEF front
<1>3. Follows(front \o Zeros(7), front, 21, Zeros(7), 7, 28)
  BY <1>1, ZerosAre, JoinFollows
<1>4. Bytes(Pong(tag), 28)
  BY <1>2, <1>3, Zenon DEF Follows
<1>5. 28 \in Nat \ {0}
  OBVIOUS
<1>6. QED
  BY <1>4, <1>5, NotNone, Zenon

(* A ping is heard for one, and answered under its tag.                      *)
LEMMA PingHeard ==
    ASSUME NEW tag \in 0 .. 63
    PROVE  /\ Ping(tag) \in Seq(Byte) /\ Ping(tag) # <<>>
           /\ sessionless_data(Ping(tag)) = {Pong(tag)}
<1>1. Ping(tag) \in Seq(Byte) /\ Ping(tag) # <<>>
  BY DEF Ping, Byte
<1>2. IsPing(Ping(tag)) /\ At(Ping(tag), 9) = tag
  <2> DEFINE four == <<6, 0, 255, 6>>
  <2>1. /\ Len(Ping(tag)) = 12 /\ Ping(tag)[1] = 6 /\ Ping(tag)[2] = 0
        /\ Ping(tag)[3] = 255 /\ Ping(tag)[4] = 6 /\ Ping(tag)[9] = 128
        /\ Ping(tag)[10] = tag
    BY DEF Ping
  <2>2. /\ four \in Seq(Byte) /\ Len(four) = 4 /\ four[1] = 6 /\ four[2] = 0
        /\ four[3] = 255 /\ four[4] = 6
    BY DEF Byte
  <2> HIDE DEF four
  <2>3. \A i \in 1 .. 4 : Ping(tag)[i] = four[i]
    <3>1. /\ Ping(tag)[1] = four[1] /\ Ping(tag)[2] = four[2]
          /\ Ping(tag)[3] = four[3] /\ Ping(tag)[4] = four[4]
      BY <2>1, <2>2
    <3>2. QED
      BY <3>1
  <2>4. 4 \in Nat /\ 4 <= Len(Ping(tag))
    BY <2>1
  <2>5. SubSeq(Ping(tag), 1, 4) = four
    BY <1>1, <2>2, <2>3, <2>4, FirstBytes
  <2>6. QED
    BY <2>1, <2>5 DEF IsPing, At, four
<1>3. sessionless_data(Ping(tag)) = {Pong(tag)}
  <2>1. ~IsIpmi(Ping(tag))
    BY DEF Ping, IsIpmi, At
  <2>2. QED
    BY <1>2, <2>1 DEF sessionless_data, IsOpen, IsCaps, IsCiphers, IsRequest
<1>4. QED
  BY <1>1, <1>3

(* A ping is a datagram that is answered right,                              *)
LEMMA PingDatagram ==
    ASSUME NEW v2 \in BOOLEAN, NEW tag \in 0 .. 63
    PROVE  Datagram(v2, Ping(tag))
<1>1. Fitting(v2, Pong(tag))
  BY PongIs, Zenon DEF Fitting, Pongs
<1>2. QED
  BY <1>1, PingHeard, Zenon DEF Datagram

(* An open request is heard for one.                                         *)
LEMMA OpenHeard ==
    /\ OpenRequest \in Seq(Byte) /\ OpenRequest # <<>>
    /\ sessionless_data(OpenRequest) = {OpenAnswer} /\ IsOpen(OpenRequest)
<1> DEFINE front == <<6, 0, 255, 7, 6, 16>>
<1>1. /\ Bytes(front, 6) /\ front[1] = 6 /\ front[3] = 255 /\ front[4] = 7
      /\ front[5] = 6 /\ front[6] = 16
  BY DEF Bytes, Byte
<1>2. OpenRequest = front \o Zeros(42)
  BY DEF OpenRequest
<1> HIDE DEF front
<1>3. Follows(OpenRequest, front, 6, Zeros(42), 42, 48)
  <2>1. Follows(front \o Zeros(42), front, 6, Zeros(42), 42, 48)
    BY <1>1, ZerosAre, JoinFollows
  <2>2. QED
    BY <1>2, <2>1, Zenon
<1>4. ASSUME NEW d, Follows(d, front, 6, Zeros(42), 42, 48)
      PROVE  d \in Seq(Byte) /\ d # <<>> /\ ~IsPing(d) /\ IsOpen(d)
  <2>1. Bytes(d, 48) /\ \A i \in 1 .. 6 : d[i] = front[i]
    BY <1>4, Zenon DEF Follows
  <2>2. 48 \in Nat \ {0}
    OBVIOUS
  <2>3. d \in Seq(Byte) /\ d # <<>> /\ Len(d) = 48
    BY <2>1, <2>2, NotNone, Zenon
  <2>4. d[1] = 6 /\ d[3] = 255 /\ d[4] = 7 /\ d[5] = 6 /\ d[6] = 16
    BY <1>1, <2>1
  <2>5. QED
    BY <2>3, <2>4 DEF IsPing, IsOpen, IsIpmi, At
<1>5. sessionless_data(OpenRequest) = {OpenAnswer}
  <2>1. IsOpen(OpenRequest) /\ ~IsPing(OpenRequest)
    BY <1>3, <1>4
  <2>2. \A cmd : ~IsRequest(OpenRequest, cmd)
    BY <2>1 DEF IsOpen, IsRequest
  <2>3. QED
    BY <2>1, <2>2 DEF sessionless_data, IsCaps, IsCiphers
<1>6. QED
  BY <1>3, <1>4, <1>5

(* and so is an open request.                                                *)
LEMMA OpenDatagram ==
    ASSUME NEW v2 \in BOOLEAN
    PROVE  Datagram(v2, OpenRequest)
<1>1. Fitting(v2, OpenAnswer)
  <2>1. OpenAnswer \in Seq(Byte) /\ OpenAnswer # <<>>
    BY DEF OpenAnswer, Byte
  <2>2. QED
    BY <2>1, Zenon DEF Fitting
<1>2. QED
  BY <1>1, OpenHeard, Zenon DEF Datagram

(* Whatever a client asks for outside of a session, in either version and    *)
(* under any number, sessionless_data does not raise on it and has exactly   *)
(* one answer for it, and that answer is what the client is waiting for: the *)
(* pong of its tag, the answer to an open request, cipher suites addressed   *)
(* and numbered for it, or capabilities laid out, summed, addressed and      *)
(* numbered as the client checks them.                                       *)
THEOREM QuestionsAnswered ==
    ASSUME NEW v2 \in BOOLEAN, NEW seq \in 0 .. 63
    PROVE  /\ sessionless_data(Ping(seq)) = {Pong(seq)}
           /\ sessionless_data(OpenRequest) = {OpenAnswer}
           /\ sessionless_data(Ciphers(v2, seq)) = {SuitesFor(seq)}
           /\ \E a : sessionless_data(Caps(v2, seq)) = {a} /\ CapsFor(v2, seq, a)
           /\ \A d \in {Ping(seq), OpenRequest, Caps(v2, seq), Ciphers(v2, seq)} : ~Raises(d)
<1>1. /\ Laid(Caps(v2, seq), v2, seq, 56, 142, 9)
      /\ Laid(Ciphers(v2, seq), v2, seq, 84, 14, 10)
  BY QuestionsAreLaid
<1>2. sessionless_data(Caps(v2, seq)) = {CapsAnswer(Header(v2), 32, 0, 129, 0, seq)}
  BY <1>1, CapsHeard
<1>3. sessionless_data(Ciphers(v2, seq)) = {SuitesFor(seq)}
  BY <1>1, CiphersHeard
<1>4. ASSUME NEW cmd, NEW x, NEW n \in {9, 10}, NEW d, Laid(d, v2, seq, cmd, x, n)
      PROVE  ~Raises(d)
  <2>1. ~(Len(Unwrap(d)) < 22)
    <3>1. Opened(Unwrap(d), seq, cmd, x)
      BY <1>4, Unwrapped, Zenon
    <3>2. QED
      BY <3>1 DEF Opened
  <2>2. d \in Seq(Byte) /\ ~(Len(d) <= 8) /\ Len(d) # 9
    BY <1>4 DEF Laid, Bytes, Offset
  <2>3. QED
    BY <2>1, <2>2 DEF Raises
<1>5. ~Raises(Ping(seq))
  <2>1. Len(Ping(seq)) = 12 /\ ~IsIpmi(Ping(seq))
    BY DEF Ping, IsIpmi, At
  <2>2. QED
    BY <2>1 DEF Raises, IsRequest
<1>6. ~Raises(OpenRequest)
  <2>1. ASSUME NEW d \in Seq(Byte), IsOpen(d) PROVE ~Raises(d)
    <3>1. ~(Len(d) <= 8) /\ Len(d) # 9
      <4>1. Len(d) >= 22
        BY <2>1, Zenon DEF IsOpen, IsIpmi
      <4>2. Len(d) \in Nat
        BY <2>1
      <4>3. \A n \in Nat : n >= 22 => ~(n <= 8) /\ n # 9
        OBVIOUS
      <4>4. QED
        BY <4>1, <4>2, <4>3, Zenon
    <3>2. ~IsRequest(d, 56)
      BY <2>1 DEF IsOpen, IsRequest
    <3>3. QED
      BY <3>1, <3>2 DEF Raises
  <2>2. QED
    BY <2>1, OpenHeard, Zenon
<1>7. QED
  BY <1>1, <1>2, <1>3, <1>4, <1>5, <1>6, CapsAnswerFits, PingHeard, OpenHeard

-----------------------------------------------------------------------------
(* The state.                                                                *)

Numbers == 0 .. 63

Record == [script : Seq(Question), at : Nat, seq : Numbers, v2 : BOOLEAN,
           mac : {None} \cup Seq(Byte)]

(* A client goes through its script.                                         *)
Known(c) == /\ client[c].script \in Scripts[c]
            /\ client[c].at \in 1 .. Len(client[c].script) + 1

Clients == client \in [Client -> Record] /\ \A c \in Client : Known(c)

(* Its script has the question.                                              *)
Asking(c, q) == \E i \in 1 .. Len(client[c].script) : client[c].script[i] = q

(* What travels inside of a session.                                         *)
Msg == [netfn : Nat, cmd : Nat, param : Nat, code : Nat, data : Seq(Byte),
        seq : Numbers]

(* What a client sends: what is answered right, or a question of its script. *)
Inner(c, m) ==
    \E q \in DOMAIN Inside :
        /\ Asking(c, q)
        /\ m.netfn = Inside[q][1] /\ m.cmd = Inside[q][2] /\ m.param = Inside[q][3]

Sends(m) ==
    /\ m.from \in Client /\ m.to = Bmc /\ m.msg \in Msg
    /\ \/ Datagram(client[m.from].v2, m.raw)
       \/ m.raw = <<>> /\ Inner(m.from, m.msg)

(* What the BMC answers.  An answer with the function and the command of the *)
(* address carries it, unless the client asks for another parameter too.     *)
Lan(c, m) ==
    m.netfn = 13 /\ m.cmd = 2 =>
        m.data = <<0>> \o MacBytes \/ (m.data = <<0>> /\ Asking(c, "ip"))

Answers(m) ==
    /\ m.from = Bmc /\ m.to \in Client /\ m.msg \in Msg
    /\ \/ Fitting(client[m.to].v2, m.raw)
       \/ m.raw = <<>> /\ Lan(m.to, m.msg)

(* All that is under way.                                                    *)
Datagrams == \A m \in net : Sends(m) \/ Answers(m)

(* A client that has had the answer to the question for the address knows it.*)
Learned(c) ==
    ~Asking(c, "ip") =>
        \A i \in 1 .. Len(client[c].script) :
            i < client[c].at /\ client[c].script[i] = "mac" => client[c].mac = MacBytes

(* The inductive invariant.  RightMac speaks of clients that are done; it is *)
(* Learned, of every client at any point of its script, together with what   *)
(* is under way, that makes it hold in the next state.                       *)
Inv ==
    /\ Clients /\ Datagrams /\ session \subseteq Client /\ faults \in 0 .. MaxFaults
    /\ \A c \in Client : Learned(c)

(* What is asked inside of a session.                                        *)
LEMMA Questions ==
    /\ \A q \in DOMAIN Inside :
          /\ Inside[q][1] \in Nat /\ Inside[q][2] \in Nat /\ Inside[q][3] \in Nat
          /\ Inside[q][1] # 13
          /\ (Inside[q][1] = 12 /\ Inside[q][2] = 2 /\ Inside[q][3] # 5) => q = "ip"
    /\ "mac" \in DOMAIN Inside /\ Inside["mac"][1] = 12 /\ Inside["mac"][2] = 2
<1>1. DOMAIN Inside = {"device", "reset", "access", "info", "bootdev", "timer", "mac", "ip"}
  BY DEF Inside
<1>2. /\ Inside["device"] = <<6, 1, 0>> /\ Inside["reset"] = <<6, 2, 0>>
      /\ Inside["access"] = <<6, 65, 0>> /\ Inside["info"] = <<6, 66, 0>>
      /\ Inside["bootdev"] = <<0, 9, 5>> /\ Inside["timer"] = <<6, 36, 0>>
      /\ Inside["mac"] = <<12, 2, 5>> /\ Inside["ip"] = <<12, 2, 3>>
  BY DEF Inside
<1>3. QED
  BY <1>1, <1>2

(* The answer that carries the address, and the address in it.               *)
LEMMA MacIs ==
    /\ <<0>> \o MacBytes \in Seq(Byte) /\ <<0>> \o MacBytes # <<>>
    /\ Tail(<<0>> \o MacBytes) = MacBytes
    /\ MacBytes \in Seq(Byte)
<1>1. Bytes(MacBytes, 6)
  <2>1. \A i \in 1 .. 6 : 16 * Fakemac[i][1] + Fakemac[i][2] \in Byte
    <3>1. \A i \in 1 .. 6 : Fakemac[i] \in (0 .. 15) \X (0 .. 15)
      BY IpmiServerAssumption
    <3>2. \A a, b \in 0 .. 15 : 16 * a + b \in 0 .. 255
      OBVIOUS
    <3>3. QED
      BY <3>1, <3>2 DEF Byte
  <2>2. MacBytes \in Seq(Byte) /\ Len(MacBytes) = 6
    BY <2>1 DEF MacBytes
  <2>3. QED
    BY <2>2 DEF Bytes
<1>2. PICK one : one = <<0>>
  OBVIOUS
<1>3. Bytes(one, 1)
  BY <1>2 DEF Byte, Bytes
<1>4. Follows(one \o MacBytes, one, 1, MacBytes, 6, 7)
  BY <1>1, <1>3, JoinFollows
<1>5. ASSUME NEW p, Follows(p, one, 1, MacBytes, 6, 7)
      PROVE  p \in Seq(Byte) /\ p # <<>> /\ Tail(p) = MacBytes
  <2>1. Bytes(p, 7)
    BY <1>5, Zenon DEF Follows
  <2>2. \A i \in 1 .. 6 : p[1 + i] = MacBytes[i]
    BY <1>5, Zenon DEF Follows
  <2>3. 7 \in Nat \ {0}
    OBVIOUS
  <2>4. p \in Seq(Byte) /\ p # <<>> /\ Len(p) = 7
    BY <2>1, <2>3, NotNone, Zenon
  <2>5. /\ Tail(p) \in Seq(Byte) /\ Len(Tail(p)) = Len(p) - 1
        /\ \A i \in 1 .. Len(Tail(p)) : Tail(p)[i] = p[i + 1]
    BY <2>4, HeadTailProperties, Zenon
  <2> DEFINE r == Tail(p)
  <2> HIDE DEF r
  <2>6. r \in Seq(Byte) /\ Len(r) = 6 /\ \A i \in 1 .. 6 : r[i] = p[i + 1]
    <3>1. /\ r \in Seq(Byte) /\ Len(r) = Len(p) - 1
          /\ \A i \in 1 .. Len(r) : r[i] = p[i + 1]
      BY <2>5, Zenon DEF r
    <3>2. QED
      BY <2>4, <3>1
  <2>7. \A i \in 1 .. 6 : r[i] = MacBytes[i]
    BY <2>2, <2>6
  <2>8. MacBytes \in Seq(Byte) /\ Len(MacBytes) = 6
    BY <1>1 DEF Bytes
  <2>9. r = MacBytes
    BY <2>6, <2>7, <2>8, SeqEqual
  <2>10. QED
    BY <2>4, <2>9 DEF r
<1>6. MacBytes \in Seq(Byte)
  BY <1>1 DEF Bytes
<1>7. QED
  BY <1>2, <1>4, <1>5, <1>6

(* What handle_raw_request may answer: the address to none but its question. *)
LEMMA Handled ==
    ASSUME NEW netfn \in Nat, NEW cmd \in Nat, NEW param \in Nat,
           NEW answer \in handle_raw_request(netfn, cmd, param)
    PROVE  /\ answer.code \in Nat /\ answer.data \in Seq(Byte)
           /\ (netfn = 12 /\ cmd = 2) =>
                 (answer.data = <<0>> \o MacBytes \/ (answer.data = <<0>> /\ param # 5))
<1>1. \A code \in Nat, data \in Seq(Byte) :
         Says(code, data).code = code /\ Says(code, data).data = data
  BY DEF Says
<1>2. <<>> \in Seq(Byte) /\ <<0>> \in Seq(Byte) /\ 0 \in Nat /\ 128 \in Nat
  BY DEF Byte
<1>3. CASE netfn = 12 /\ cmd = 2
  <2>1. <<netfn, cmd>> \notin Library
    BY <1>3 DEF Library
  <2>2. answer = get_lan_configuration_parameters(param)
    BY <1>3, <2>1 DEF handle_raw_request
  <2>3. PICK data : data = <<0>> \o MacBytes
    OBVIOUS
  <2>4. data \in Seq(Byte)
    BY <2>3, MacIs
  <2>5. CASE param = 5
    <3>1. answer = Says(0, data)
      BY <2>2, <2>3, <2>5 DEF get_lan_configuration_parameters
    <3>2. answer.code = 0 /\ answer.data = data
      BY <1>1, <1>2, <2>4, <3>1
    <3>3. QED
      BY <1>2, <2>3, <2>4, <3>2
  <2>6. CASE param # 5
    <3>1. answer = Says(128, <<0>>)
      BY <2>2, <2>6 DEF get_lan_configuration_parameters
    <3>2. answer.code = 128 /\ answer.data = <<0>>
      BY <3>1 DEF Says
    <3>3. QED
      BY <1>2, <2>6, <3>2
  <2>7. QED
    BY <2>5, <2>6
<1>4. CASE ~(netfn = 12 /\ cmd = 2)
  <2>1. \/ answer = get_channel_access \/ answer = get_channel_info
        \/ \E code \in Nat : answer = Says(code, <<>>)
    BY <1>4 DEF handle_raw_request
  <2>2. /\ <<34, 4>> \in Seq(Byte) /\ <<2, 4, 1, 128, 242, 27, 0, 0, 0>> \in Seq(Byte)
    BY DEF Byte
  <2>3. \E code \in Nat, data \in Seq(Byte) : answer = Says(code, data)
    BY <1>2, <2>1, <2>2 DEF get_channel_access, get_channel_info
  <2>4. answer.code \in Nat /\ answer.data \in Seq(Byte)
    BY <1>1, <2>3
  <2>5. QED
    BY <1>4, <2>4
<1>5. QED
  BY <1>3, <1>4

(* A datagram stays right while scripts and versions stay.                   *)
LEMMA Unmoved ==
    ASSUME \A c \in Client : /\ client'[c].script = client[c].script
                             /\ client'[c].v2 = client[c].v2,
           NEW m, Sends(m) \/ Answers(m)
    PROVE  Sends(m)' \/ Answers(m)'
<1>1. \A c \in Client : \A q : Asking(c, q)' <=> Asking(c, q)
  BY DEF Asking
<1>2. CASE Sends(m)
  BY <1>1, <1>2 DEF Sends, Inner
<1>3. CASE Answers(m)
  BY <1>1, <1>3 DEF Answers, Lan
<1>4. QED
  BY <1>2, <1>3

(* n is a message of that content.                                           *)
Holds(n, netfn, cmd, param, data) ==
    n \in Msg /\ n.netfn = netfn /\ n.cmd = cmd /\ n.param = param /\ n.data = data

(* An answer keeps the command of its request.                               *)
LEMMA Filled ==
    ASSUME NEW m \in Msg, NEW code \in Nat, NEW data \in Seq(Byte)
    PROVE  Holds([m EXCEPT !.netfn = @ + 1, !.code = code, !.data = data],
                 m.netfn + 1, m.cmd, m.param, data)
<1> DEFINE n == [m EXCEPT !.netfn = @ + 1, !.code = code, !.data = data]
<1>1. m.netfn + 1 \in Nat
  BY DEF Msg
<1>2. n \in Msg
  BY <1>1 DEF Msg
<1>3. n.netfn = m.netfn + 1 /\ n.cmd = m.cmd /\ n.param = m.param /\ n.data = data
  BY DEF Msg
<1> HIDE DEF n
<1>4. Holds(n, m.netfn + 1, m.cmd, m.param, data)
  BY <1>2, <1>3 DEF Holds
<1>5. QED
  BY <1>4, Zenon DEF n

(* No message is a message of no content.                                    *)
LEMMA NoMsgIs == NoMsg \in Msg
BY DEF NoMsg, Msg, Numbers

(* A request carries its question.                                           *)
LEMMA Put ==
    ASSUME NEW q \in DOMAIN Inside, NEW seq \in Numbers
    PROVE  Holds([NoMsg EXCEPT !.netfn = Inside[q][1], !.cmd = Inside[q][2],
                               !.param = Inside[q][3], !.seq = seq],
                 Inside[q][1], Inside[q][2], Inside[q][3], <<>>)
<1>1. ASSUME NEW m \in Msg, NEW a \in Nat, NEW b \in Nat, NEW e \in Nat
      PROVE  LET n == [m EXCEPT !.netfn = a, !.cmd = b, !.param = e, !.seq = seq]
             IN Holds(n, a, b, e, m.data)
  <2> DEFINE n == [m EXCEPT !.netfn = a, !.cmd = b, !.param = e, !.seq = seq]
  <2>1. n \in Msg
    BY DEF Msg
  <2>2. n.netfn = a /\ n.cmd = b /\ n.param = e /\ n.data = m.data
    BY DEF Msg
  <2> HIDE DEF n
  <2>3. Holds(n, a, b, e, m.data)
    BY <2>1, <2>2 DEF Holds
  <2>4. QED
    BY <2>3, Zenon DEF n
<1>2. /\ Inside[q][1] \in Nat /\ Inside[q][2] \in Nat /\ Inside[q][3] \in Nat
  BY Questions
<1>3. NoMsg.data = <<>>
  BY DEF NoMsg
<1>4. QED
  BY <1>1, <1>2, <1>3, NoMsgIs, Zenon

(* Whatever reaches the BMC, what it sends is an answer.                     *)
LEMMA Delivered ==
    ASSUME Inv, NEW m \in net, m.to = Bmc, NEW rest \in SUBSET net,
           Reaches(m, rest), UNCHANGED client
    PROVE  Datagrams' /\ session' \subseteq Client
<1>1. Sends(m)
  BY IpmiServerAssumption DEF Inv, Datagrams, Answers
<1>2. m.from \in Client /\ m.msg \in Msg
  BY <1>1 DEF Sends
<1>3. \A c \in Client : client'[c].script = client[c].script /\ client'[c].v2 = client[c].v2
  OBVIOUS
<1>4. ASSUME NEW n \in rest PROVE Sends(n)' \/ Answers(n)'
  BY <1>3, Unmoved DEF Inv, Datagrams
<1>5. CASE m.raw # <<>>
  <2>1. /\ net' = rest \cup {Raw(Bmc, m.from, d) : d \in sessionless_data(m.raw)}
        /\ session' \in {{}, session, session \cup {m.from}}
    BY <1>5 DEF Reaches
  <2>2. ASSUME NEW d \in sessionless_data(m.raw)
        PROVE  Answers(Raw(Bmc, m.from, d))'
    <3>1. Fitting(client[m.from].v2, d)
      BY <1>1, <1>5 DEF Sends, Datagram
    <3>2. /\ Raw(Bmc, m.from, d).from = Bmc /\ Raw(Bmc, m.from, d).to = m.from
          /\ Raw(Bmc, m.from, d).raw = d /\ Raw(Bmc, m.from, d).msg = NoMsg
      BY DEF Raw
    <3>3. QED
      BY <1>2, <1>3, <3>1, <3>2, NoMsgIs DEF Answers
  <2>3. Datagrams'
    BY <1>4, <2>1, <2>2 DEF Datagrams
  <2>4. session' \subseteq Client
    BY <1>2, <2>1 DEF Inv
  <2>5. QED
    BY <2>3, <2>4
<1>6. CASE m.raw = <<>>
  <2>1. session' = session
    BY <1>6 DEF Reaches
  <2>2. Inner(m.from, m.msg)
    BY <1>1, <1>6 DEF Sends, Datagram
  <2>3. CASE m.from \notin session
    <3>1. net' = rest
      BY <1>6, <2>3 DEF Reaches
    <3>2. QED
      BY <1>4, <2>1, <3>1 DEF Datagrams, Inv
  <2>4. CASE m.from \in session
    <3>1. PICK answer \in handle_raw_request(m.msg.netfn, m.msg.cmd, m.msg.param) :
              net' = rest \cup {Reply(m, answer)}
      BY <1>6, <2>4 DEF Reaches
    <3>2. m.msg.netfn \in Nat /\ m.msg.cmd \in Nat /\ m.msg.param \in Nat
      BY <1>2 DEF Msg
    <3>3. /\ answer.code \in Nat /\ answer.data \in Seq(Byte)
          /\ (m.msg.netfn = 12 /\ m.msg.cmd = 2) =>
                (answer.data = <<0>> \o MacBytes \/ (answer.data = <<0>> /\ m.msg.param # 5))
      BY <3>2, Handled
    <3>4. (m.msg.netfn = 12 /\ m.msg.cmd = 2 /\ m.msg.param # 5) => Asking(m.from, "ip")
      BY <2>2, Questions DEF Inner
    <3> DEFINE n == [m.msg EXCEPT !.netfn = @ + 1, !.code = answer.code, !.data = answer.data]
    <3>5. /\ Reply(m, answer).from = Bmc /\ Reply(m, answer).to = m.from
          /\ Reply(m, answer).raw = <<>> /\ Reply(m, answer).msg = n
      BY DEF Reply, Session
    <3>6. Holds(n, m.msg.netfn + 1, m.msg.cmd, m.msg.param, answer.data)
      BY <1>2, <3>3, Filled, Zenon
    <3> HIDE DEF n
    <3>7. /\ n \in Msg /\ n.netfn = m.msg.netfn + 1 /\ n.cmd = m.msg.cmd
          /\ n.data = answer.data
      BY <3>6 DEF Holds
    <3>8. Lan(m.from, n)
      <4>1. n.netfn = 13 => m.msg.netfn = 12
        BY <3>2, <3>7
      <4>2. QED
        BY <3>3, <3>4, <3>7, <4>1 DEF Lan
    <3>9. Answers(Reply(m, answer))
      BY <1>2, <3>7, <3>5, <3>8 DEF Answers
    <3>10. Sends(Reply(m, answer))' \/ Answers(Reply(m, answer))'
      BY <1>3, <3>9, Unmoved
    <3>11. QED
      BY <1>4, <2>1, <3>1, <3>10 DEF Datagrams, Inv
  <2>5. QED
    BY <2>3, <2>4
<1>7. QED
  BY <1>5, <1>6

(* What a client asks is a question of its script.                           *)
LEMMA Requested ==
    ASSUME Inv, NEW c \in Client, ~Done(c)
    PROVE  Sends(Request(c))
<1>1. /\ client[c].at \in 1 .. Len(client[c].script) /\ client[c].seq \in Numbers
      /\ client[c].v2 \in BOOLEAN /\ client[c].script \in Seq(Question)
  <2>1. client[c] \in Record /\ client[c].at \in 1 .. Len(client[c].script) + 1
    BY DEF Inv, Clients, Known
  <2>2. /\ client[c].seq \in Numbers
        /\ client[c].v2 \in BOOLEAN /\ client[c].script \in Seq(Question)
    BY <2>1 DEF Record
  <2>3. QED
    BY <2>1, <2>2 DEF Done
<1>2. PICK q : q = Asks(c)
  OBVIOUS
<1>3. q \in Question /\ Asking(c, q)
  BY <1>1, <1>2 DEF Asks, Asking
<1>4. ASSUME NEW d, Datagram(client[c].v2, d) PROVE Sends(Raw(c, Bmc, d))
  <2>1. /\ Raw(c, Bmc, d).from = c /\ Raw(c, Bmc, d).to = Bmc
        /\ Raw(c, Bmc, d).raw = d /\ Raw(c, Bmc, d).msg = NoMsg
    BY DEF Raw
  <2>2. QED
    BY <1>4, <2>1, NoMsgIs DEF Sends
<1>5. CASE q = "ping"
  BY <1>1, <1>2, <1>4, <1>5, PingDatagram DEF Request, Numbers
<1>6. CASE q = "caps"
  BY <1>1, <1>2, <1>4, <1>6, CapsDatagram DEF Request, Numbers
<1>7. CASE q = "ciphers"
  BY <1>1, <1>2, <1>4, <1>7, CiphersDatagram DEF Request, Numbers
<1>8. CASE q = "open"
  BY <1>1, <1>2, <1>4, <1>8, OpenDatagram DEF Request
<1>9. CASE q \in DOMAIN Inside
  <2> DEFINE n == [NoMsg EXCEPT !.netfn = Inside[q][1], !.cmd = Inside[q][2],
                                !.param = Inside[q][3], !.seq = client[c].seq]
  <2>1. Request(c) = Session(c, Bmc, n)
    <3>1. q # "ping" /\ q # "caps" /\ q # "ciphers" /\ q # "open"
      BY <1>9 DEF Inside
    <3>2. QED
      BY <1>2, <3>1 DEF Request
  <2>2. Holds(n, Inside[q][1], Inside[q][2], Inside[q][3], <<>>)
    BY <1>1, <1>9, Put, Zenon
  <2> HIDE DEF n
  <2>3. n \in Msg /\ n.netfn = Inside[q][1] /\ n.cmd = Inside[q][2] /\ n.param = Inside[q][3]
    BY <2>2 DEF Holds
  <2>4. Inner(c, n)
    BY <1>3, <1>9, <2>3 DEF Inner
  <2>5. /\ Session(c, Bmc, n).from = c /\ Session(c, Bmc, n).to = Bmc
        /\ Session(c, Bmc, n).raw = <<>> /\ Session(c, Bmc, n).msg = n
    BY DEF Session
  <2>6. QED
    BY <2>1, <2>3, <2>4, <2>5 DEF Sends
<1>10. QED
  BY <1>3, <1>5, <1>6, <1>7, <1>8, <1>9 DEF Question

(* It holds in the beginning.                                                *)
LEMMA InitInv == Init => Inv
<1> SUFFICES ASSUME Init PROVE Inv
  OBVIOUS
<1>1. PICK script \in [Client -> UNION {Scripts[c] : c \in Client}],
           v2 \in [Client -> BOOLEAN], seq \in FirstSeq :
          /\ \A c \in Client : script[c] \in Scripts[c]
          /\ client = [c \in Client |-> [script |-> script[c], at |-> 1, v2 |-> v2[c],
                                        seq |-> seq, mac |-> None]]
  BY DEF Init
<1>2. ASSUME NEW c \in Client
      PROVE  /\ client[c] \in Record /\ client[c].script = script[c] /\ client[c].at = 1
             /\ client[c].v2 \in BOOLEAN
  <2>1. script[c] \in Seq(Question) /\ seq \in Numbers /\ v2[c] \in BOOLEAN
    BY <1>1, IpmiServerAssumption DEF Numbers
  <2>2. client[c] = [script |-> script[c], at |-> 1, v2 |-> v2[c], seq |-> seq, mac |-> None]
    BY <1>1
  <2>3. QED
    BY <2>1, <2>2 DEF Record
<1>3. Clients
  <2>1. ASSUME NEW c \in Client PROVE Known(c)
    <3>1. Len(client[c].script) \in Nat
      BY <1>2 DEF Record
    <3>2. QED
      BY <1>1, <1>2, <3>1 DEF Known
  <2>2. client = [c \in Client |-> client[c]]
    BY <1>1
  <2>3. client \in [Client -> Record]
    BY <1>2, <2>2
  <2>4. QED
    BY <2>1, <2>3 DEF Clients
<1>4. Datagrams
  <2>1. PICK c \in Client, d \in Strays : net = {Raw(c, Bmc, d)}
    BY DEF Init
  <2>2. Datagram(client[c].v2, d)
    BY IpmiServerAssumption DEF Datagram
  <2>3. /\ Raw(c, Bmc, d).from = c /\ Raw(c, Bmc, d).to = Bmc
        /\ Raw(c, Bmc, d).raw = d /\ Raw(c, Bmc, d).msg = NoMsg
    BY DEF Raw
  <2>4. Sends(Raw(c, Bmc, d))
    BY <2>2, <2>3, NoMsgIs DEF Sends
  <2>5. QED
    BY <2>1, <2>4 DEF Datagrams
<1>5. session \subseteq Client /\ faults \in 0 .. MaxFaults
  BY IpmiServerAssumption DEF Init
<1>6. ASSUME NEW c \in Client PROVE Learned(c)
  BY <1>2 DEF Learned
<1>7. QED
  BY <1>3, <1>4, <1>5, <1>6 DEF Inv

(* A step that leaves the clients alone keeps what is said of them;          *)
LEMMA Kept ==
    ASSUME Inv, UNCHANGED client
    PROVE  Clients' /\ \A c \in Client : Learned(c)'
<1>1. \A c \in Client : \A q : Asking(c, q)' <=> Asking(c, q)
  BY DEF Asking
<1>2. QED
  BY <1>1 DEF Inv, Clients, Known, Learned

(* with no datagram more, the rest are right;                                *)
LEMMA Fewer ==
    ASSUME Inv, UNCHANGED client, net' \subseteq net
    PROVE  Datagrams'
<1>1. \A c \in Client : client'[c].script = client[c].script /\ client'[c].v2 = client[c].v2
  OBVIOUS
<1>2. ASSUME NEW m \in net PROVE Sends(m)' \/ Answers(m)'
  BY <1>1, Unmoved DEF Inv, Datagrams
<1>3. QED
  BY <1>2 DEF Datagrams

(* and a fault is counted.                                                   *)
LEMMA Counted ==
    ASSUME Inv, NEW kind, Fault(kind)
    PROVE  faults' \in 0 .. MaxFaults
BY IpmiServerAssumption DEF Inv, Fault

(* Each action keeps it: a datagram received,                                *)
LEMMA ReceiveInv == ASSUME Inv, NEW m \in net, Receive(m) PROVE Inv'
<1>1. m.to = Bmc /\ Reaches(m, net \ {m}) /\ UNCHANGED <<client, faults>>
  BY DEF Receive
<1>2. Datagrams' /\ session' \subseteq Client
  BY <1>1, Delivered
<1>3. QED
  BY <1>1, <1>2, Kept DEF Inv

(* received and still under way,                                             *)
LEMMA DuplicateInv == ASSUME Inv, NEW m \in net, Duplicate(m) PROVE Inv'
<1>1. m.to = Bmc /\ Reaches(m, net) /\ UNCHANGED client /\ Fault("duplicate")
  BY DEF Duplicate
<1>2. Datagrams' /\ session' \subseteq Client
  BY <1>1, Delivered
<1>3. QED
  BY <1>1, <1>2, Kept, Counted DEF Inv

(* lost;                                                                     *)
LEMMA LoseInv == ASSUME Inv, NEW m \in net, Lose(m) PROVE Inv'
<1>1. net' \subseteq net /\ UNCHANGED <<client, session>> /\ Fault("lose")
  BY DEF Lose
<1>2. QED
  BY <1>1, Kept, Counted, Fewer DEF Inv

(* a stop and start of the BMC;                                              *)
LEMMA RestartInv == ASSUME Inv, Restart PROVE Inv'
<1>1. session' = {} /\ UNCHANGED <<client, net>> /\ Fault("restart")
  BY DEF Restart
<1>2. QED
  BY <1>1, Kept, Counted, Fewer DEF Inv

(* a question.                                                               *)
LEMMA AskInv == ASSUME Inv, NEW c \in Client, Ask(c) PROVE Inv'
<1>1. ~Done(c) /\ net' = net \cup {Request(c)} /\ UNCHANGED <<client, session, faults>>
  BY DEF Ask
<1>2. Sends(Request(c))
  BY <1>1, Requested
<1>3. \A k \in Client : client'[k].script = client[k].script /\ client'[k].v2 = client[k].v2
  BY <1>1
<1>4. Datagrams'
  <2>1. ASSUME NEW m \in net' PROVE Sends(m)' \/ Answers(m)'
    <3>1. Sends(m) \/ Answers(m)
      BY <1>1, <1>2 DEF Inv, Datagrams
    <3>2. QED
      BY <1>3, <3>1, Unmoved
  <2>2. QED
    BY <2>1 DEF Datagrams
<1>5. QED
  BY <1>1, <1>4, Kept DEF Inv

(* A client moves on in its script or goes back to its beginning.            *)
LEMMA Moved ==
    ASSUME Inv, NEW c \in Client, NEW r \in Record,
           r.script = client[c].script, r.v2 = client[c].v2,
           r.at \in 1 .. Len(client[c].script) + 1,
           client' = [client EXCEPT ![c] = r],
           net' \subseteq net, session' \subseteq Client, faults' \in 0 .. MaxFaults,
           ~Asking(c, "ip") =>
               \A i \in 1 .. Len(client[c].script) :
                   i < r.at /\ client[c].script[i] = "mac" => r.mac = MacBytes
    PROVE  Inv'
<1>1. /\ client' \in [Client -> Record] /\ client'[c] = r
      /\ \A k \in Client : k # c => client'[k] = client[k]
  BY DEF Inv, Clients
<1>2. \A k \in Client : client'[k].script = client[k].script /\ client'[k].v2 = client[k].v2
  BY <1>1
<1>3. \A k \in Client : \A q : Asking(k, q)' <=> Asking(k, q)
  BY <1>2 DEF Asking
<1>4. ASSUME NEW k \in Client PROVE Known(k)' /\ Learned(k)'
  <2>1. CASE k = c
    BY <1>1, <1>2, <1>3, <2>1 DEF Inv, Clients, Known, Learned
  <2>2. CASE k # c
    BY <1>1, <1>2, <1>3, <2>2 DEF Inv, Clients, Known, Learned
  <2>3. QED
    BY <2>1, <2>2
<1>5. Datagrams'
  <2>1. ASSUME NEW m \in net PROVE Sends(m)' \/ Answers(m)'
    BY <1>2, Unmoved DEF Inv, Datagrams
  <2>2. QED
    BY <2>1 DEF Datagrams
<1>6. QED
  BY <1>1, <1>4, <1>5 DEF Inv, Clients

(* The number of a question wraps around.                                    *)
LEMMA Wraps == \A n \in Numbers : (n + 1) % 64 \in Numbers
BY DEF Numbers

(* A client that begins again has learnt nothing yet of this round;          *)
LEMMA BeginAgainInv == ASSUME Inv, NEW c \in Client, BeginAgain(c) PROVE Inv'
<1> DEFINE r == [client[c] EXCEPT !.at = 1, !.seq = (@ + 1) % 64]
<1>1. client[c] \in Record /\ client \in [Client -> Record]
  BY DEF Inv, Clients
<1>2. (client[c].seq + 1) % 64 \in Numbers
  <2>1. client[c].seq \in Numbers
    BY <1>1 DEF Record
  <2>2. QED
    BY <2>1, Wraps
<1>3. r \in Record /\ r.at = 1 /\ r.script = client[c].script /\ r.v2 = client[c].v2
  BY <1>1, <1>2 DEF Record
<1>4. client' = [client EXCEPT ![c] = r]
  BY DEF BeginAgain
<1>5. net' = net /\ session' = session /\ faults' = faults
  BY DEF BeginAgain
<1> HIDE DEF r
<1>6. Len(client[c].script) \in Nat
  BY <1>1 DEF Record
<1>7. /\ r.at \in 1 .. Len(client[c].script) + 1
      /\ \A i \in 1 .. Len(client[c].script) : ~(i < r.at)
  BY <1>3, <1>6
<1>8. net' \subseteq net /\ session' \subseteq Client /\ faults' \in 0 .. MaxFaults
  BY <1>5 DEF Inv
<1>9. QED
  BY <1>3, <1>4, <1>7, <1>8, Moved

(* one that takes the answer for the address takes the address.              *)
LEMMA TakeInv == ASSUME Inv, NEW c \in Client, NEW m \in net, Take(c, m) PROVE Inv'
<1>1. m.to = c /\ net' = net \ {m} /\ UNCHANGED <<session, faults>>
  BY DEF Take
<1>2. Answers(m)
  BY <1>1, IpmiServerAssumption DEF Inv, Datagrams, Sends
<1>3. CASE Done(c) \/ ~Fits(c, m)
  <2>1. UNCHANGED client
    BY <1>3 DEF Take
  <2>2. QED
    BY <1>1, <2>1, Kept, Fewer DEF Inv
<1>4. CASE ~Done(c) /\ Fits(c, m)
  <2> DEFINE mac == IF Asks(c) = "mac" THEN Tail(m.msg.data) ELSE client[c].mac
             r   == [client[c] EXCEPT !.at = @ + 1, !.seq = (@ + 1) % 64, !.mac = mac]
  <2>1. /\ client[c] \in Record /\ client \in [Client -> Record]
        /\ client[c].at \in 1 .. Len(client[c].script) + 1
        /\ Len(client[c].script) \in Nat /\ client[c].seq \in Numbers
        /\ client[c].mac \in {None} \cup Seq(Byte) /\ client[c].at \in Nat
    BY DEF Inv, Clients, Known, Record
  <2>2. Asks(c) = "mac" =>
           m.msg.data = <<0>> \o MacBytes \/ (m.msg.data = <<0>> /\ Asking(c, "ip"))
    <3> SUFFICES ASSUME Asks(c) = "mac"
                 PROVE  m.msg.data = <<0>> \o MacBytes
                        \/ (m.msg.data = <<0>> /\ Asking(c, "ip"))
      OBVIOUS
    <3>1. m.raw = <<>> /\ m.msg.netfn = Inside["mac"][1] + 1 /\ m.msg.cmd = Inside["mac"][2]
      BY <1>4 DEF Fits
    <3>2. m.msg.netfn = 13 /\ m.msg.cmd = 2
      BY <3>1, Questions
    <3>3. Lan(c, m.msg)
      BY <1>1, <1>2, <3>1 DEF Answers, Fitting
    <3>4. QED
      BY <3>2, <3>3 DEF Lan
  <2>3. mac \in {None} \cup Seq(Byte)
    <3>1. Tail(<<0>>) \in Seq(Byte)
      OBVIOUS
    <3>2. CASE Asks(c) = "mac"
      BY <2>2, <3>1, <3>2, MacIs
    <3>3. CASE Asks(c) # "mac"
      BY <2>1, <3>3
    <3>4. QED
      BY <3>2, <3>3
  <2>4. Asks(c) = "mac" /\ ~Asking(c, "ip") => mac = MacBytes
    BY <2>2, MacIs
  <2>5. Asks(c) # "mac" => mac = client[c].mac
    OBVIOUS
  <2>6. client' = [client EXCEPT ![c] = r]
    BY <1>4 DEF Take
  <2> HIDE DEF mac
  <2>7. (client[c].seq + 1) % 64 \in Numbers /\ client[c].at + 1 \in Nat
    BY <2>1, Wraps
  <2>8. r \in Record
    BY <2>1, <2>3, <2>7 DEF Record
  <2>9. /\ r.at = client[c].at + 1 /\ r.mac = mac
        /\ r.script = client[c].script /\ r.v2 = client[c].v2
    BY <2>1 DEF Record
  <2> HIDE DEF r
  <2>10. r.at \in 1 .. Len(client[c].script) + 1
    BY <1>4, <2>1, <2>9 DEF Done
  <2>11. ASSUME ~Asking(c, "ip"), NEW i \in 1 .. Len(client[c].script),
                i < r.at, client[c].script[i] = "mac"
         PROVE  r.mac = MacBytes
    <3>1. CASE i < client[c].at
      <4>1. client[c].mac = MacBytes
        BY <2>11, <3>1 DEF Inv, Learned
      <4>2. QED
        BY <2>4, <2>5, <2>9, <2>11, <4>1
    <3>2. CASE i = client[c].at
      BY <2>4, <2>9, <2>11, <3>2 DEF Asks
    <3>3. QED
      BY <2>1, <2>9, <2>11, <3>1, <3>2
  <2>12. net' \subseteq net /\ session' \subseteq Client /\ faults' \in 0 .. MaxFaults
    BY <1>1 DEF Inv
  <2>13. QED
    BY <2>6, <2>8, <2>9, <2>10, <2>11, <2>12, Moved
<1>5. QED
  BY <1>3, <1>4

(* Every step keeps the invariant.                                           *)
LEMMA NextInv == ASSUME Inv, [Next]_vars PROVE Inv'
<1>1. ASSUME NEW m \in net, Receive(m) PROVE Inv'
  BY <1>1, ReceiveInv
<1>2. ASSUME NEW m \in net, Lose(m) PROVE Inv'
  BY <1>2, LoseInv
<1>3. ASSUME NEW m \in net, Duplicate(m) PROVE Inv'
  BY <1>3, DuplicateInv
<1>4. ASSUME NEW c \in Client, Ask(c) PROVE Inv'
  BY <1>4, AskInv
<1>5. ASSUME NEW c \in Client, Learns(c) PROVE Inv'
  BY <1>5, TakeInv DEF Learns
<1>6. ASSUME NEW c \in Client, BeginAgain(c) PROVE Inv'
  BY <1>6, BeginAgainInv
<1>7. CASE Restart
  BY <1>7, RestartInv
<1>8. CASE UNCHANGED vars
  BY <1>8, Kept, Fewer DEF vars, Inv
<1>9. QED
  BY <1>1, <1>2, <1>3, <1>4, <1>5, <1>6, <1>7, <1>8 DEF Next

(* The invariant holds throughout.                                           *)
THEOREM AlwaysInv == Spec => []Inv
<1>1. Init => Inv
  BY InitInv
<1>2. Inv /\ [Next]_vars => Inv'
  BY NextInv
<1>3. QED
  BY <1>1, <1>2, PTL DEF Spec

(* TypeOK: every variable keeps its type, and whatever is under way, asked or *)
(* answered, is made of bytes (sessionless_data, send_auth_cap_v2).          *)
THEOREM IpmiServerTypeCorrect == Spec => []TypeOK
<1>1. Inv => TypeOK
  <2> SUFFICES ASSUME Inv PROVE TypeOK
    OBVIOUS
  <2>1. ASSUME NEW c \in Client
        PROVE  /\ client[c].script \in Scripts[c]
               /\ client[c].at \in 1 .. Len(client[c].script) + 1
               /\ client[c].seq \in 0 .. 63
    BY DEF Inv, Clients, Known, Record, Numbers
  <2>2. ASSUME NEW m \in net
        PROVE  /\ {m.from, m.to} \subseteq Client \cup {Bmc}
               /\ m.raw \in Seq(Byte) /\ m.msg.data \in Seq(Byte)
    <3>1. /\ m.from \in Client \cup {Bmc} /\ m.to \in Client \cup {Bmc}
          /\ m.msg.data \in Seq(Byte)
      BY DEF Inv, Datagrams, Sends, Answers, Msg
    <3>2. m.raw \in Seq(Byte)
      <4>1. <<>> \in Seq(Byte)
        OBVIOUS
      <4>2. CASE Sends(m)
        BY <4>1, <4>2, Zenon DEF Sends, Datagram
      <4>3. CASE Answers(m)
        BY <4>1, <4>3, Zenon DEF Answers, Fitting
      <4>4. QED
        BY <4>2, <4>3 DEF Inv, Datagrams
    <3>3. QED
      BY <3>1, <3>2
  <2>3. QED
    BY <2>1, <2>2 DEF TypeOK, Inv
<1>2. QED
  BY <1>1, AlwaysInv, PTL

(* AnswersFit: whatever the BMC sends outside of a session, to any client and *)
(* whatever was lost, duplicated or restarted, is a pong, the answer to an open *)
(* request, cipher suites addressed to the client, or capabilities the       *)
(* client's own checks accept.                                               *)
THEOREM AnswersAlwaysFit == Spec => []AnswersFit
<1>1. Inv => AnswersFit
  <2> SUFFICES ASSUME Inv, NEW m \in net, m.from = Bmc, m.raw # <<>>
               PROVE  \/ m.raw = OpenAnswer
                      \/ m.raw \in Pongs \cup SuitesAnswers
                      \/ WellFormed(client[m.to].v2, m.raw)
    BY DEF AnswersFit
  <2>1. Answers(m)
    BY IpmiServerAssumption DEF Inv, Datagrams, Sends
  <2>2. Fitting(client[m.to].v2, m.raw)
    BY <2>1 DEF Answers
  <2>3. QED
    BY <2>2, Zenon DEF Fitting
<1>2. QED
  BY <1>1, AlwaysInv, PTL

(* RightMac: a client that is done has the MAC address the BMC was given.  It *)
(* needs that no client asks for the address and for another LAN parameter   *)
(* within one script: the two answers carry the same function and command and *)
(* only one of 64 numbers, so that a late answer to the one could be taken for *)
(* an answer to the other.                                                   *)
THEOREM MacAlwaysRight ==
    ASSUME \A c \in Client : \A script \in Scripts[c] :
               ~({"mac", "ip"} \subseteq {script[i] : i \in DOMAIN script})
    PROVE  Spec => []RightMac
<1>1. Inv => RightMac
  <2> SUFFICES ASSUME Inv, NEW c \in Client, Done(c), NEW i \in DOMAIN client[c].script,
                      client[c].script[i] = "mac"
               PROVE  client[c].mac = MacBytes
    BY DEF RightMac
  <2>1. /\ client[c].script \in Seq(Question) /\ client[c].script \in Scripts[c]
        /\ client[c].at \in Nat
    BY DEF Inv, Clients, Known, Record
  <2>2. DOMAIN client[c].script = 1 .. Len(client[c].script) /\ Len(client[c].script) \in Nat
    BY <2>1
  <2>3. ~Asking(c, "ip")
    BY <2>1, <2>2 DEF Asking
  <2>4. i < client[c].at
    BY <2>1, <2>2 DEF Done
  <2>5. QED
    BY <2>2, <2>3, <2>4 DEF Inv, Learned
<1>2. QED
  BY <1>1, AlwaysInv, PTL

=============================================================================
