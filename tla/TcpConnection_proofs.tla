------------------------ MODULE TcpConnection_proofs ------------------------
(***************************************************************************)
(* Theorems about TcpConnection.tla, for any conversations of any length,  *)
(* any payloads whose length fits its four bytes, any version of the two   *)
(* programs, any limit on payloads and any place where the connection      *)
(* breaks: what is on its way to an end is a piece of the tape of its      *)
(* peer, the packets one behind the other as encodePacket makes them, and  *)
(* the reader stands where a packet or a payload begins.                   *)
(*                                                                         *)
(* The first parts are about numbers, sequences and headers; the tape and  *)
(* the inductive invariant come next; then every action keeps it.          *)
(***************************************************************************)
EXTENDS TcpConnection, SequenceTheorems, TLAPS
-----------------------------------------------------------------------------
(* Division with remainder *)

\* A product with a larger factor exceeds one with a smaller one by the other factor.
LEMMA Products ==
    ASSUME NEW d \in Nat, NEW q \in Int, NEW p \in Int, q < p
    PROVE  d * q + d <= d * p
<1>1. PICK k \in Nat : p = q + 1 + k
  <2>1. p = q + 1 + (p - q - 1) /\ p - q - 1 \in Nat
    OBVIOUS
  <2> QED
    BY <2>1
<1>2. d * p = d * q + d + d * k
  BY <1>1
<1>3. d * k \in Nat
  BY <1>1
<1>4. d * q \in Int /\ d * p \in Int
  OBVIOUS
<1> QED
  BY <1>2, <1>3, <1>4

\* Division with remainder.
LEMMA Division ==
    ASSUME NEW n \in Nat, NEW d \in Nat \ {0}
    PROVE  /\ n \div d \in Nat
           /\ n % d \in 0 .. d - 1
           /\ n = d * (n \div d) + (n % d)
  BY SMT

\* Its parts, named: what a proof picks to reason about them.
LEMMA QuotientAndRest ==
    ASSUME NEW n \in Nat, NEW d \in Nat \ {0}
    PROVE  \E q \in Nat, r \in 0 .. d - 1 : q = n \div d /\ r = n % d /\ n = d * q + r
  BY Division, Zenon

\* Only one quotient leaves a remainder smaller than the divisor.
LEMMA DivisionIsUnique ==
    ASSUME NEW n \in Nat, NEW d \in Nat \ {0}, NEW q \in Nat, NEW r \in 0 .. d - 1,
           n = d * q + r
    PROVE  n \div d = q
  BY SMT

\* To divide by a product is to divide by its factors, one after the other.
LEMMA DivisionTwice ==
    ASSUME NEW n \in Nat, NEW a \in Nat \ {0}, NEW b \in Nat \ {0}
    PROVE  n \div (a * b) = (n \div a) \div b
<1>1. PICK q \in Nat, r \in 0 .. a - 1 : q = n \div a /\ n = a * q + r
  BY Division
<1>2. PICK s \in Nat, t \in 0 .. b - 1 : s = q \div b /\ q = b * s + t
  BY Division
<1>3. a * b \in Nat \ {0}
  <2>1. a * b \in Nat
    OBVIOUS
  <2>2. a * 0 + a <= a * b
    BY Products
  <2>3. a * 0 = 0
    OBVIOUS
  <2> QED
    BY <2>1, <2>2, <2>3
<1>4. n = (a * b) * s + (a * t + r)
  <2>1. a * q = a * (b * s + t)
    BY <1>2
  <2>4. a * (b * s + t) = (a * b) * s + a * t
    BY Z3
  <2>2. (a * b) * s \in Int /\ a * t \in Int
    BY <1>2
  <2> QED
    BY <1>1, <2>1, <2>2, <2>4
<1>5. a * t + r \in 0 .. a * b - 1
  <2>1. a * t + a <= a * b
    BY Products
  <2>2. a * t \in Nat /\ a * b \in Nat
    OBVIOUS
  <2> QED
    BY <2>1, <2>2, <1>1
<1>6. n \div (a * b) = s
  <2>1. a * b \in Nat \ {0} /\ s \in Nat
    BY <1>2, <1>3
  <2>2. a * t + r \in 0 .. a * b - 1
    BY <1>5
  <2> QED
    BY <1>4, <2>1, <2>2, DivisionIsUnique
<1> QED
  BY <1>1, <1>2, <1>6
-----------------------------------------------------------------------------
(* Sequences *)

\* What lies between two places of a sequence.
LEMMA SubSeqFacts ==
    ASSUME NEW S, NEW s \in Seq(S), NEW m \in 1 .. Len(s) + 1, NEW n \in m - 1 .. Len(s)
    PROVE  /\ SubSeq(s, m, n) \in Seq(S)
           /\ Len(SubSeq(s, m, n)) = n - m + 1
           /\ \A i \in 1 .. n - m + 1 : SubSeq(s, m, n)[i] = s[m + i - 1]
<1>1. \A i \in m .. n : s[i] \in S
  BY ElementOfSeq
<1>2. m \in Int /\ n \in Int /\ Len(s) \in Nat
  BY LenProperties
<1>3. SubSeq(s, m, n) \in Seq(S) /\ Len(SubSeq(s, m, n)) = IF m <= n THEN n - m + 1 ELSE 0
  BY <1>1, <1>2, SubSeqProperties
<1>4. \A i \in 1 .. n - m + 1 : SubSeq(s, m, n)[i] = s[m + i - 1]
  BY <1>1, <1>2, SubSeqProperties
<1> QED
  BY <1>2, <1>3, <1>4

\* The first places of a part of a sequence, and the rest of the part.
LEMMA SubSeqFirst ==
    ASSUME NEW S, NEW s \in Seq(S), NEW m \in 1 .. Len(s) + 1, NEW n \in m - 1 .. Len(s),
           NEW w \in 0 .. n - m + 1
    PROVE  /\ SubSeq(SubSeq(s, m, n), 1, w) = SubSeq(s, m, m + w - 1)
           /\ SubSeq(SubSeq(s, m, n), w + 1, n - m + 1) = SubSeq(s, m + w, n)
<1>0. m \in Nat \ {0} /\ n \in Int /\ Len(s) \in Nat /\ n - m + 1 \in Nat
  BY LenProperties
<1> DEFINE t == SubSeq(s, m, n)
<1>1. t \in Seq(S) /\ Len(t) = n - m + 1 /\ \A i \in 1 .. n - m + 1 : t[i] = s[m + i - 1]
  BY SubSeqFacts
<1>2. SubSeq(t, 1, w) \in Seq(S) /\ Len(SubSeq(t, 1, w)) = w
      /\ \A i \in 1 .. w : SubSeq(t, 1, w)[i] = t[1 + i - 1]
  <2>1. 1 \in 1 .. Len(t) + 1 /\ w \in 1 - 1 .. Len(t)
    BY <1>0, <1>1
  <2>2. w - 1 + 1 = w
    BY <1>0
  <2> QED
    BY <1>1, <2>1, <2>2, SubSeqFacts
<1>3. SubSeq(t, w + 1, n - m + 1) \in Seq(S) /\ Len(SubSeq(t, w + 1, n - m + 1)) = n - m + 1 - w
      /\ \A i \in 1 .. n - m + 1 - w : SubSeq(t, w + 1, n - m + 1)[i] = t[w + i]
  <2>1. w + 1 \in 1 .. Len(t) + 1 /\ n - m + 1 \in (w + 1) - 1 .. Len(t)
    BY <1>0, <1>1
  <2>2. (n - m + 1) - (w + 1) + 1 = n - m + 1 - w
    BY <1>0
  <2>3. \A i \in 1 .. n - m + 1 - w : (w + 1) + i - 1 = w + i
    BY <1>0
  <2> QED
    BY <1>1, <2>1, <2>2, <2>3, SubSeqFacts
<1>4. SubSeq(s, m, m + w - 1) \in Seq(S) /\ Len(SubSeq(s, m, m + w - 1)) = w
      /\ \A i \in 1 .. w : SubSeq(s, m, m + w - 1)[i] = s[m + i - 1]
  <2>1. m + w - 1 \in m - 1 .. Len(s)
    BY <1>0
  <2>2. (m + w - 1) - m + 1 = w
    BY <1>0
  <2> QED
    BY <2>1, <2>2, SubSeqFacts
<1>5. SubSeq(s, m + w, n) \in Seq(S) /\ Len(SubSeq(s, m + w, n)) = n - m + 1 - w
      /\ \A i \in 1 .. n - m + 1 - w : SubSeq(s, m + w, n)[i] = s[m + w + i - 1]
  <2>1. m + w \in 1 .. Len(s) + 1 /\ n \in (m + w) - 1 .. Len(s)
    BY <1>0
  <2>2. n - (m + w) + 1 = n - m + 1 - w
    BY <1>0
  <2> QED
    BY <2>1, <2>2, SubSeqFacts
<1>6. \A i \in 1 .. w : SubSeq(t, 1, w)[i] = SubSeq(s, m, m + w - 1)[i]
  <2> TAKE i \in 1 .. w
  <2>1. 1 + i - 1 = i /\ i \in 1 .. n - m + 1
    BY <1>0
  <2> HIDE DEF t
  <2> QED
    BY <1>1, <1>2, <1>4, <2>1
<1>7. \A i \in 1 .. n - m + 1 - w :
          SubSeq(t, w + 1, n - m + 1)[i] = SubSeq(s, m + w, n)[i]
  <2> TAKE i \in 1 .. n - m + 1 - w
  <2>1. w + i \in 1 .. n - m + 1 /\ m + (w + i) - 1 = m + w + i - 1
    BY <1>0
  <2> HIDE DEF t
  <2> QED
    BY <1>1, <1>3, <1>5, <2>1
<1>8. SubSeq(t, 1, w) = SubSeq(s, m, m + w - 1)
  BY <1>2, <1>4, <1>6, SeqEqual
<1>9. SubSeq(t, w + 1, n - m + 1) = SubSeq(s, m + w, n)
  BY <1>3, <1>5, <1>7, SeqEqual
<1> QED
  BY <1>8, <1>9

\* What follows a place of a sequence grows with the sequence.
LEMMA SubSeqGrows ==
    ASSUME NEW S, NEW s \in Seq(S), NEW t \in Seq(S), NEW m \in 1 .. Len(s) + 1
    PROVE  SubSeq(s, m, Len(s)) \o t = SubSeq(s \o t, m, Len(s \o t))
<1>0. m \in Nat \ {0} /\ Len(s) \in Nat /\ Len(t) \in Nat
  BY LenProperties
<1>1. SubSeq(s, m, Len(s)) \in Seq(S) /\ Len(SubSeq(s, m, Len(s))) = Len(s) - m + 1
      /\ \A i \in 1 .. Len(s) - m + 1 : SubSeq(s, m, Len(s))[i] = s[m + i - 1]
  BY <1>0, SubSeqFacts
<1>2. s \o t \in Seq(S) /\ Len(s \o t) = Len(s) + Len(t)
      /\ \A i \in 1 .. Len(s) + Len(t) :
             (s \o t)[i] = IF i <= Len(s) THEN s[i] ELSE t[i - Len(s)]
  BY ConcatProperties
<1> DEFINE u == s \o t
<1>3. SubSeq(u, m, Len(u)) \in Seq(S) /\ Len(SubSeq(u, m, Len(u))) = Len(u) - m + 1
      /\ \A i \in 1 .. Len(u) - m + 1 : SubSeq(u, m, Len(u))[i] = u[m + i - 1]
  <2>1. m \in 1 .. Len(u) + 1 /\ Len(u) \in m - 1 .. Len(u)
    BY <1>0, <1>2
  <2> QED
    BY <1>2, <2>1, SubSeqFacts
<1> DEFINE v == SubSeq(s, m, Len(s))
<1>4. v \o t \in Seq(S) /\ Len(v \o t) = Len(v) + Len(t)
      /\ \A i \in 1 .. Len(v) + Len(t) :
             (v \o t)[i] = IF i <= Len(v) THEN v[i] ELSE t[i - Len(v)]
  BY <1>1, ConcatProperties
<1>5. \A i \in 1 .. Len(v) + Len(t) : (v \o t)[i] = SubSeq(u, m, Len(u))[i]
  <2> TAKE i \in 1 .. Len(v) + Len(t)
  <2>1. SubSeq(u, m, Len(u))[i] = u[m + i - 1] /\ m + i - 1 \in 1 .. Len(s) + Len(t)
    BY <1>0, <1>1, <1>2, <1>3
  <2>2. u[m + i - 1] = IF m + i - 1 <= Len(s) THEN s[m + i - 1] ELSE t[(m + i - 1) - Len(s)]
    BY <1>2, <2>1
  <2>3. (v \o t)[i] = IF i <= Len(v) THEN v[i] ELSE t[i - Len(v)]
    BY <1>4
  <2>4. CASE i <= Len(v)
    <3>1. v[i] = s[m + i - 1] /\ m + i - 1 <= Len(s)
      BY <1>0, <1>1, <2>4
    <3> HIDE DEF u, v
    <3> QED
      BY <2>1, <2>2, <2>3, <2>4, <3>1
  <2>5. CASE ~ i <= Len(v)
    <3>1. (m + i - 1) - Len(s) = i - Len(v) /\ ~ m + i - 1 <= Len(s)
      BY <1>0, <1>1, <2>5
    <3> HIDE DEF u, v
    <3> QED
      BY <2>1, <2>2, <2>3, <2>5, <3>1
  <2> QED
    BY <2>4, <2>5
<1>6. Len(v \o t) = Len(SubSeq(u, m, Len(u)))
  BY <1>0, <1>1, <1>2, <1>3, <1>4
<1>7. v \o t = SubSeq(u, m, Len(u))
  <2> HIDE DEF u, v
  <2> QED
    BY <1>3, <1>4, <1>5, <1>6, SeqEqual
<1> QED
  BY <1>7
-----------------------------------------------------------------------------
(* Numbers and headers as bytes *)

Byte == 0 .. Base - 1

\* Four bytes are enough for it.
Fits(n) == n < Base * Base * Base * Base

\* A byte has two values at least, and so its place counts for something.
LEMMA Weights ==
    /\ Base \in Nat \ {0}
    /\ Base * Base \in Nat \ {0}
    /\ Base * Base * Base \in Nat \ {0}
    /\ Base * Base * Base * Base \in Nat \ {0}
    /\ Weight[1] = 1 /\ Weight[2] = Base /\ Weight[3] = Base * Base
    /\ Weight[4] = Base * Base * Base
    /\ \A i \in 1 .. 8 : Weight[i] \in Nat \ {0}
<1>1. \A a, b \in Nat \ {0} : a * b \in Nat \ {0}
  <2> TAKE a, b \in Nat \ {0}
  <2>1. a * b \in Nat
    OBVIOUS
  <2>2. a * 0 + a <= a * b
    BY Products
  <2>3. a * 0 = 0
    OBVIOUS
  <2> QED
    BY <2>1, <2>2, <2>3
<1>2. Base \in Nat \ {0}
  BY BaseAssumption
<1>3. PICK two : two = Base * Base
  OBVIOUS
<1>4. two \in Nat \ {0}
  BY <1>1, <1>2, <1>3
<1>5. PICK four : four = two * two
  OBVIOUS
<1>6. four \in Nat \ {0}
  BY <1>1, <1>4, <1>5
<1>7. two * Base \in Nat \ {0} /\ four * Base \in Nat \ {0} /\ four * two \in Nat \ {0}
  BY <1>1, <1>2, <1>4, <1>6
<1>8. four * two * Base \in Nat \ {0}
  BY <1>1, <1>2, <1>7
<1>9. Weight = <<1, Base, two, two * Base, four, four * Base, four * two, four * two * Base>>
  BY <1>3, <1>5 DEF Weight
<1>10. \A i \in 1 .. 8 : Weight[i] \in Nat \ {0}
  <2> TAKE i \in 1 .. 8
  <2>1. i = 1 \/ i = 2 \/ i = 3 \/ i = 4 \/ i = 5 \/ i = 6 \/ i = 7 \/ i = 8
    OBVIOUS
  <2>2. 1 \in Nat \ {0}
    OBVIOUS
  <2> QED
    BY <2>1, <2>2, <1>2, <1>4, <1>6, <1>7, <1>8, <1>9
<1>11. Base * Base * Base * Base \in Nat \ {0}
  BY <1>1, <1>2, <1>3, <1>7
<1> QED
  BY <1>2, <1>3, <1>4, <1>7, <1>9, <1>10, <1>11

\* A number is written in as many bytes as it is wide.
LEMMA NumberIsBytes ==
    ASSUME NEW n \in Nat, NEW w \in 1 .. 8
    PROVE  /\ NumberBytes(n, w) \in Seq(Byte)
           /\ Len(NumberBytes(n, w)) = w
           /\ \A i \in 1 .. w : NumberBytes(n, w)[i] = (n \div Weight[i]) % Base
<1>1. \A i \in 1 .. w : (n \div Weight[i]) % Base \in Byte
  <2> TAKE i \in 1 .. w
  <2>1. Weight[i] \in Nat \ {0} /\ Base \in Nat \ {0}
    BY Weights
  <2>2. n \div Weight[i] \in Nat
    BY <2>1, Division
  <2> QED
    BY <2>1, <2>2, Division DEF Byte
<1>2. w \in Nat
  OBVIOUS
<1> QED
  BY <1>1, <1>2 DEF NumberBytes

\* A number of four bytes is read as it was written, if it fits (writeU32, readU32).
LEMMA NumberReadsBack ==
    ASSUME NEW n \in Nat, Fits(n), NEW bytes,
           \A i \in 1 .. 4 : bytes[i] = (n \div Weight[i]) % Base
    PROVE  NumberAt(bytes, 4) = n
<1>1. PICK b \in Nat \ {0} : b = Base
  BY Weights
<1>2. b * b \in Nat \ {0} /\ b * b * b \in Nat \ {0}
  BY <1>1, Weights
<1>3. PICK q1 \in Nat, r1 \in 0 .. b - 1 : q1 = n \div b /\ r1 = n % b /\ n = b * q1 + r1
  BY <1>1, QuotientAndRest
<1>4. PICK q2 \in Nat, r2 \in 0 .. b - 1 : q2 = q1 \div b /\ r2 = q1 % b /\ q1 = b * q2 + r2
  BY <1>1, <1>3, QuotientAndRest
<1>5. PICK q3 \in Nat, r3 \in 0 .. b - 1 : q3 = q2 \div b /\ r3 = q2 % b /\ q2 = b * q3 + r3
  BY <1>1, <1>4, QuotientAndRest
<1>6. n \div (b * b) = q2
  BY <1>3, <1>4, DivisionTwice
<1>7. n \div (b * b * b) = q3
  BY <1>2, <1>5, <1>6, DivisionTwice
<1>8. n = b * b * b * q3 + b * b * r3 + b * r2 + r1
  <2>1. b * q2 = b * (b * q3 + r3) /\ b * q1 = b * (b * q2 + r2)
    BY <1>4, <1>5
  <2>2. b * (b * q2 + r2) = b * (b * q2) + b * r2
    BY Z3
  <2>3. b * (b * q2) = b * (b * (b * q3 + r3))
    BY <2>1
  <2>4. b * (b * (b * q3 + r3)) = b * b * b * q3 + b * b * r3
    BY Z3
  <2>5. b * b * b * q3 \in Int /\ b * b * r3 \in Int /\ b * r2 \in Int /\ b * q1 \in Int
    OBVIOUS
  <2> QED
    BY <1>3, <2>1, <2>2, <2>3, <2>4, <2>5
<1>9. q3 < b
  <2> SUFFICES ASSUME b <= q3 PROVE FALSE
    OBVIOUS
  <2>1. b * b * b * b <= b * b * b * q3
    <3>1. CASE b = q3
      BY <1>2, <3>1
    <3>2. CASE b < q3
      <4>1. (b * b * b) * b + b * b * b <= (b * b * b) * q3
        BY <1>2, <3>2, Products
      <4>2. (b * b * b) * b \in Int /\ (b * b * b) * q3 \in Int
        OBVIOUS
      <4> QED
        BY <1>2, <4>1, <4>2
    <3> QED
      BY <3>1, <3>2
  <2>2. b * b * r3 \in Nat /\ b * r2 \in Nat /\ b * b * b * q3 \in Nat /\ b * b * b * b \in Nat
    OBVIOUS
  <2>3. n < b * b * b * b
    BY <1>1 DEF Fits
  <2> QED
    BY <1>8, <2>1, <2>2, <2>3
<1>10. q3 % b = q3
  BY <1>9
<1>11. n \div 1 = n
  OBVIOUS
<1>12. bytes[1] = r1 /\ bytes[2] = r2 /\ bytes[3] = r3 /\ bytes[4] = q3
  <2>1. bytes[1] = (n \div 1) % b /\ bytes[2] = (n \div b) % b
        /\ bytes[3] = (n \div (b * b)) % b /\ bytes[4] = (n \div (b * b * b)) % b
    BY <1>1, Weights
  <2> QED
    BY <2>1, <1>3, <1>4, <1>5, <1>6, <1>7, <1>10, <1>11
<1>13. NumberAt(bytes, 4) = bytes[1] * Weight[1] + bytes[2] * Weight[2] + bytes[3] * Weight[3]
                            + bytes[4] * Weight[4] + 0 + 0 + 0 + 0
  BY DEF NumberAt
<1>14. NumberAt(bytes, 4) = r1 * 1 + r2 * b + r3 * (b * b) + q3 * (b * b * b) + 0 + 0 + 0 + 0
  BY <1>1, <1>12, <1>13, Weights
<1>15. r2 * b = b * r2 /\ r3 * (b * b) = b * b * r3 /\ q3 * (b * b * b) = b * b * b * q3
  BY Z3
<1>16. b * r2 \in Int /\ b * b * r3 \in Int /\ b * b * b * q3 \in Int
  OBVIOUS
<1> QED
  BY <1>8, <1>14, <1>15, <1>16

\* What stands before and after the seam of two sequences.
LEMMA Seam ==
    ASSUME NEW S, NEW s \in Seq(S), NEW t \in Seq(S), NEW m, NEW n, Len(s) = m, Len(t) = n
    PROVE  /\ s \o t \in Seq(S)
           /\ Len(s \o t) = m + n
           /\ \A i \in 1 .. m : (s \o t)[i] = s[i]
           /\ \A i \in 1 .. n : (s \o t)[m + i] = t[i]
<1>1. Len(s) \in Nat /\ Len(t) \in Nat
  BY LenProperties
<1>2. /\ s \o t \in Seq(S)
      /\ Len(s \o t) = Len(s) + Len(t)
      /\ \A i \in 1 .. Len(s) + Len(t) :
             (s \o t)[i] = IF i <= Len(s) THEN s[i] ELSE t[i - Len(s)]
  BY ConcatProperties
<1>3. \A i \in 1 .. Len(s) : (s \o t)[i] = s[i]
  <2> TAKE i \in 1 .. Len(s)
  <2>1. i \in 1 .. Len(s) + Len(t) /\ i <= Len(s)
    BY <1>1
  <2> QED
    BY <1>2, <2>1
<1>4. \A i \in 1 .. Len(t) : (s \o t)[Len(s) + i] = t[i]
  <2> TAKE i \in 1 .. Len(t)
  <2>1. Len(s) + i \in 1 .. Len(s) + Len(t) /\ ~ Len(s) + i <= Len(s) /\ (Len(s) + i) - Len(s) = i
    BY <1>1
  <2> QED
    BY <1>2, <2>1
<1> QED
  BY <1>2, <1>3, <1>4

\* A packet is a header that tells the length of the payload, and the payload behind it.
ReadsBack(packet, payload) ==
    /\ packet \in Seq(Byte)
    /\ Len(packet) = HeaderSize + Len(payload)
    /\ SubSeq(packet, HeaderSize + 1, Len(packet)) = payload
    /\ DecodeHeader(SubSeq(packet, 1, HeaderSize)).payloadLength = Len(payload)

\* The receiver makes that of what was encoded (encodePacket, readPacketHeader).
LEMMA PacketReadsBack ==
    ASSUME NEW type \in Nat, NEW number \in Nat, NEW version \in Nat,
           NEW payload \in Seq(Byte), Fits(Len(payload))
    PROVE  ReadsBack(EncodePacket(type, number, version, payload), payload)
<1>0. SUFFICES ASSUME NEW packet, packet = EncodePacket(type, number, version, payload)
               PROVE  ReadsBack(packet, payload)
  OBVIOUS
<1>1. PICK size \in Nat : size = Len(payload)
  BY LenProperties
<1>2. PICK two \in 1 .. 8, four \in 1 .. 8, eight \in 1 .. 8 : two = 2 /\ four = 4 /\ eight = 8
  OBVIOUS
<1> DEFINE a == NumberBytes(Base, four)
           b == NumberBytes(version, two)
           c == NumberBytes(type, two)
           d == NumberBytes(number, four)
           l == NumberBytes(size, four)
           x == NumberBytes(0, eight)
           ab == a \o b
           abc == ab \o c
           front == abc \o d
           most == front \o l
           header == most \o x
<1>3. packet = header \o payload
  BY <1>0, <1>1, <1>2, Zenon DEF EncodePacket
<1>4. Base \in Nat /\ 0 \in Nat
  BY Weights
<1>5. /\ a \in Seq(Byte) /\ Len(a) = four
      /\ b \in Seq(Byte) /\ Len(b) = two
      /\ c \in Seq(Byte) /\ Len(c) = two
      /\ d \in Seq(Byte) /\ Len(d) = four
      /\ l \in Seq(Byte) /\ Len(l) = four
      /\ x \in Seq(Byte) /\ Len(x) = eight
  BY <1>1, <1>4, NumberIsBytes, Zenon
<1>6. \A i \in 1 .. four : l[i] = (size \div Weight[i]) % Base
  BY <1>1, NumberIsBytes, Zenon
<1> HIDE DEF a, b, c, d, l, x
<1>7. ab \in Seq(Byte) /\ Len(ab) = four + two
  BY <1>5, Seam
<1> HIDE DEF ab
<1>8. abc \in Seq(Byte) /\ Len(abc) = four + two + two
  BY <1>5, <1>7, Seam
<1> HIDE DEF abc
<1>9. front \in Seq(Byte) /\ Len(front) = four + two + two + four
  BY <1>5, <1>8, Seam
<1> HIDE DEF front
<1>10. PICK n12 \in Nat, n16 \in Nat, n24 \in Nat : n12 = 12 /\ n16 = 16 /\ n24 = 24
  OBVIOUS
<1>11. Len(front) = n12
  BY <1>2, <1>9, <1>10
<1>12. most \in Seq(Byte) /\ Len(most) = n16 /\ \A i \in 1 .. four : most[n12 + i] = l[i]
  <2>1. n12 + four = n16
    BY <1>2, <1>10
  <2> QED
    BY <1>5, <1>9, <1>11, <2>1, Seam
<1> HIDE DEF most
<1>13. header \in Seq(Byte) /\ Len(header) = n24 /\ \A i \in 1 .. n16 : header[i] = most[i]
  <2>1. n16 + eight = n24
    BY <1>2, <1>10
  <2> QED
    BY <1>5, <1>12, <2>1, Seam
<1> HIDE DEF header
<1>14. /\ packet \in Seq(Byte)
       /\ Len(packet) = n24 + size
       /\ \A i \in 1 .. n24 : packet[i] = header[i]
       /\ \A i \in 1 .. size : packet[n24 + i] = payload[i]
  <2>1. /\ header \o payload \in Seq(Byte)
        /\ Len(header \o payload) = n24 + size
        /\ \A i \in 1 .. n24 : (header \o payload)[i] = header[i]
        /\ \A i \in 1 .. size : (header \o payload)[n24 + i] = payload[i]
    BY <1>1, <1>13, Seam
  <2> QED
    BY <1>3, <2>1
<1>15. SubSeq(packet, n24 + 1, Len(packet)) = payload
  <2>1. n24 + 1 \in 1 .. Len(packet) + 1 /\ Len(packet) \in (n24 + 1) - 1 .. Len(packet)
        /\ Len(packet) - (n24 + 1) + 1 = size
    BY <1>14
  <2> DEFINE rest == SubSeq(packet, n24 + 1, Len(packet))
  <2>2. /\ rest \in Seq(Byte)
        /\ Len(rest) = size
        /\ \A i \in 1 .. size : rest[i] = packet[(n24 + 1) + i - 1]
    <3>1. PICK m, n : m = n24 + 1 /\ n = Len(packet)
      OBVIOUS
    <3>2. m \in 1 .. Len(packet) + 1 /\ n \in m - 1 .. Len(packet) /\ n - m + 1 = size
      BY <2>1, <3>1
    <3>3. /\ SubSeq(packet, m, n) \in Seq(Byte)
          /\ Len(SubSeq(packet, m, n)) = n - m + 1
          /\ \A i \in 1 .. n - m + 1 : SubSeq(packet, m, n)[i] = packet[m + i - 1]
      BY <1>14, <3>2, SubSeqFacts
    <3> QED
      BY <3>1, <3>2, <3>3
  <2> HIDE DEF rest
  <2>3. \A i \in 1 .. size : (n24 + 1) + i - 1 = n24 + i
    OBVIOUS
  <2>4. \A i \in 1 .. size : rest[i] = payload[i]
    BY <1>14, <2>2, <2>3
  <2>5. rest = payload
    BY <1>1, <2>2, <2>4, SeqEqual
  <2> QED
    BY <2>5 DEF rest
<1>16. DecodeHeader(SubSeq(packet, 1, n24)).payloadLength = size
  <2>1. 1 \in 1 .. Len(packet) + 1 /\ n24 \in 1 - 1 .. Len(packet) /\ n24 - 1 + 1 = n24
    BY <1>14
  <2> DEFINE h == SubSeq(packet, 1, n24)
  <2>2. h \in Seq(Byte) /\ Len(h) = n24 /\ \A i \in 1 .. n24 : h[i] = packet[1 + i - 1]
    BY <1>14, <2>1, SubSeqFacts
  <2> HIDE DEF h
  <2>3. n12 + 1 \in 1 .. Len(h) + 1 /\ Len(h) \in (n12 + 1) - 1 .. Len(h)
        /\ Len(h) - (n12 + 1) + 1 = n12
    BY <1>10, <2>2
  <2> DEFINE tail == SubSeq(h, n12 + 1, Len(h))
  <2>4. \A i \in 1 .. n12 : tail[i] = h[(n12 + 1) + i - 1]
    BY <2>2, <2>3, SubSeqFacts
  <2>5. tail = Drop(SubSeq(packet, 1, n24), 12)
    BY <1>10, Zenon DEF Drop, h
  <2> HIDE DEF tail
  <2>6. \A i \in 1 .. four : tail[i] = l[i]
    <3> TAKE i \in 1 .. four
    <3>1. i \in 1 .. n12 /\ (n12 + 1) + i - 1 = n12 + i /\ n12 + i \in 1 .. n24
          /\ n12 + i \in 1 .. n16 /\ 1 + (n12 + i) - 1 = n12 + i
      BY <1>2, <1>10
    <3>2. tail[i] = h[n12 + i] /\ h[n12 + i] = packet[n12 + i]
      BY <2>2, <2>4, <3>1
    <3> QED
      BY <1>12, <1>13, <1>14, <3>1, <3>2
  <2>7. Fits(size)
    BY <1>1
  <2>8. NumberAt(tail, 4) = size
    <3>1. \A i \in 1 .. 4 : tail[i] = (size \div Weight[i]) % Base
      BY <1>2, <1>6, <2>6
    <3> QED
      BY <2>7, <3>1, NumberReadsBack, Zenon
  <2> QED
    BY <2>5, <2>8 DEF DecodeHeader
<1> QED
  <2>1. HeaderSize = n24
    BY <1>10 DEF HeaderSize
  <2> QED
    BY <1>1, <1>14, <1>15, <1>16, <2>1, Zenon DEF ReadsBack
-----------------------------------------------------------------------------
(* The invariant *)

\* The i-th packet of an end as it goes over the wire, and the header a reader makes of it.
Made(e, i) ==
    EncodePacket(TypeNumber(talk.space)[talk.packets[e][i].kind], i, talk.version[e],
                 payloads[e][i])

HeaderOf(e, i) == DecodeHeader(SubSeq(Made(e, i), 1, HeaderSize))

\* What the handler of the peer should be given for it.
Delivery(e, i) == [header |-> HeaderOf(e, i), payload |-> payloads[e][i]]

Count(e) == Len(talk.packets[e])

\* A conversation does not change while it is held.
Script ==
    /\ talk \in Conversations
    /\ payloads = [e \in Ends |-> [i \in DOMAIN talk.packets[e] |->
                       Payload(talk.space, talk.packets[e][i])]]

Operations == {"none", "pending", "done", "aborted"}

TypeInv ==
    /\ sent \in [Ends -> Nat]
    /\ writeQueue \in [Ends -> Seq(Seq(Byte))]
    /\ writing \in [Ends -> BOOLEAN]
    /\ closed \in [Ends -> BOOLEAN]
    /\ write \in [Ends -> Operations]
    /\ read \in [Ends -> Operations]
    /\ expects \in [Ends -> {"header", "payload"}]
    /\ readHeader = [e \in Ends |-> readHeader[e]]
    /\ readBuffer \in [Ends -> Seq(Byte)]
    /\ stream \in [Ends -> Seq(Byte)]
    /\ broken \in BOOLEAN
    /\ handled = [e \in Ends |-> handled[e]]
    /\ undefined \in [Ends -> BOOLEAN]

\* The packets in the queue of an end are the last ones it sent, in their order.
Queued(e) ==
    /\ Len(writeQueue[e]) <= sent[e]
    /\ \A j \in 1 .. Len(writeQueue[e]) :
           writeQueue[e][j] = Made(e, sent[e] - Len(writeQueue[e]) + j)

Sending(e) ==
    /\ sent[e] <= Count(e)
    /\ undefined[e] => closed[e]
    /\ closed[e] => broken
    /\ write[e] = "pending" => ~ closed[e]
    /\ write[e] = "aborted" => closed[e]
    /\ read[e] \in {"none", "aborted"} => closed[e]
    /\ ~ closed[e] => /\ writing[e] <=> write[e] \in {"pending", "done"}
                      /\ writing[e] <=> writeQueue[e] # <<>>
                      /\ Queued(e)

\* How many packets the kernel has taken from an end that is open.
Transmitted(e) == sent[e] - Len(writeQueue[e]) + (IF write[e] = "done" THEN 1 ELSE 0)

\* The first k packets of an end, one behind the other: the i-th ends at at[i].
Tape(e, k, at, wire) ==
    /\ at \in [0 .. k -> Nat]
    /\ at[0] = 0
    /\ wire \in Seq(Byte)
    /\ Len(wire) = at[k]
    /\ \A i \in 0 .. k : at[i] <= Len(wire)
    /\ \A i \in 1 .. k : /\ at[i] = at[i - 1] + Len(Made(e, i))
                         /\ SubSeq(wire, at[i - 1] + 1, at[i]) = Made(e, i)

\* An end that has handled h packets reads on from where it is on the tape, and what is
\* under way to it is the tape from there to a place m, its end unless something broke.
Header(r) == expects[r] = "header"

Following(r, k, at, wire, m) ==
    LET e == Peer(r)
        h == Len(handled[r])
    IN  /\ k \in h .. sent[e]
        /\ Tape(e, k, at, wire)
        /\ m \in 0 .. Len(wire)
        /\ ~ broken => k = Transmitted(e) /\ m = Len(wire)
        /\ read[r] = "pending" /\ Header(r) =>
               /\ at[h] <= m
               /\ stream[r] = SubSeq(wire, at[h] + 1, m)
        /\ read[r] = "done" /\ Header(r) =>
               /\ h < k
               /\ at[h] + HeaderSize <= m
               /\ stream[r] = SubSeq(wire, at[h] + HeaderSize + 1, m)
               /\ readBuffer[r] = SubSeq(Made(e, h + 1), 1, HeaderSize)
        /\ read[r] = "pending" /\ ~ Header(r) =>
               /\ h < k
               /\ at[h] + HeaderSize <= m
               /\ stream[r] = SubSeq(wire, at[h] + HeaderSize + 1, m)
               /\ readHeader[r] = HeaderOf(e, h + 1)
        /\ read[r] = "done" /\ ~ Header(r) =>
               /\ h < k
               /\ at[h + 1] <= m
               /\ stream[r] = SubSeq(wire, at[h + 1] + 1, m)
               /\ readHeader[r] = HeaderOf(e, h + 1)
               /\ readBuffer[r] = payloads[e][h + 1]

Handed(r) ==
    /\ Len(handled[r]) \in Nat
    /\ handled[r] = [i \in 1 .. Len(handled[r]) |-> Delivery(Peer(r), i)]

Reading(r) == Handed(r) /\ \E k, at, wire, m : Following(r, k, at, wire, m)

Inv == Script /\ TypeInv /\ \A e \in Ends : Sending(e) /\ Reading(e)

\* Two ends, each the peer of the other.
LEMMA Peers == \A e \in Ends : Peer(e) \in Ends /\ Peer(e) # e /\ Peer(Peer(e)) = e
               /\ \A r \in Ends : r # e => r = Peer(e)
  BY DEF Ends, Peer

\* Every packet of a conversation, as it is made and as it is read.
LEMMA Packets ==
    ASSUME Script, NEW e \in Ends
    PROVE  /\ Count(e) \in Nat
           /\ \A i \in 1 .. Count(e) :
                  /\ Made(e, i) \in Seq(Byte)
                  /\ payloads[e][i] \in Seq(Byte)
                  /\ Len(payloads[e][i]) \in Nat
                  /\ Len(Made(e, i)) = HeaderSize + Len(payloads[e][i])
                  /\ SubSeq(Made(e, i), HeaderSize + 1, Len(Made(e, i))) = payloads[e][i]
                  /\ HeaderOf(e, i).payloadLength = Len(payloads[e][i])
<1>1. talk.packets[e] \in Seq(Range(talk.packets[e])) /\ talk.version[e] \in Nat
  BY ConversationsAssumption DEF Script
<1>2. Count(e) \in Nat /\ DOMAIN talk.packets[e] = 1 .. Count(e)
  BY <1>1, LenProperties DEF Count
<1>3. ASSUME NEW i \in 1 .. Count(e)
      PROVE  /\ payloads[e][i] \in Seq(Byte) /\ Fits(Len(payloads[e][i]))
             /\ TypeNumber(talk.space)[talk.packets[e][i].kind] \in Nat
  <2>1. payloads[e][i] = Payload(talk.space, talk.packets[e][i]) /\ i \in DOMAIN talk.packets[e]
    BY <1>2 DEF Script
  <2> QED
    BY <2>1, ConversationsAssumption, Zenon DEF Script, Byte, Fits
<1>4. ASSUME NEW i \in 1 .. Count(e)
      PROVE  /\ Made(e, i) \in Seq(Byte)
             /\ Len(Made(e, i)) = HeaderSize + Len(payloads[e][i])
             /\ SubSeq(Made(e, i), HeaderSize + 1, Len(Made(e, i))) = payloads[e][i]
             /\ HeaderOf(e, i).payloadLength = Len(payloads[e][i])
  <2>1. PICK type, version, payload : /\ type = TypeNumber(talk.space)[talk.packets[e][i].kind]
                                      /\ version = talk.version[e] /\ payload = payloads[e][i]
    OBVIOUS
  <2>2. type \in Nat /\ i \in Nat /\ version \in Nat /\ payload \in Seq(Byte) /\ Fits(Len(payload))
    BY <1>1, <1>2, <1>3, <2>1
  <2>3. ReadsBack(EncodePacket(type, i, version, payload), payload)
    BY <2>2, PacketReadsBack
  <2>4. ReadsBack(Made(e, i), payloads[e][i])
    BY <2>1, <2>3, Zenon DEF Made
  <2> QED
    BY <2>4, Zenon DEF ReadsBack, HeaderOf
<1>5. \A i \in 1 .. Count(e) : Len(payloads[e][i]) \in Nat
  BY <1>3, LenProperties
<1> QED
  BY <1>2, <1>3, <1>4, <1>5
-----------------------------------------------------------------------------
(* The tape *)

\* The bytes of a sequence behind place a, up to place b.
LEMMA Slice ==
    ASSUME NEW S, NEW s \in Seq(S), NEW a \in Nat, NEW b \in Nat, a <= b, b <= Len(s),
           NEW l, l = b - a
    PROVE  /\ SubSeq(s, a + 1, b) \in Seq(S)
           /\ Len(SubSeq(s, a + 1, b)) = l
           /\ \A j \in 1 .. l : SubSeq(s, a + 1, b)[j] = s[a + j]
<1>1. Len(s) \in Nat
  BY LenProperties
<1>2. a + 1 \in 1 .. Len(s) + 1 /\ b \in (a + 1) - 1 .. Len(s) /\ b - (a + 1) + 1 = l
  BY <1>1
<1>3. SubSeq(s, a + 1, b) \in Seq(S)
  BY <1>2, SubSeqFacts
<1>4. Len(SubSeq(s, a + 1, b)) = l
  BY <1>2, SubSeqFacts
<1>5. \A j \in 1 .. l : SubSeq(s, a + 1, b)[j] = s[a + j]
  <2> TAKE j \in 1 .. l
  <2>1. SubSeq(s, a + 1, b)[j] = s[(a + 1) + j - 1]
    BY <1>2, SubSeqFacts
  <2>2. (a + 1) + j - 1 = a + j
    OBVIOUS
  <2> QED
    BY <2>1, <2>2
<1> QED
  BY <1>3, <1>4, <1>5

\* The first w of them, and the rest.
LEMMA Cut ==
    ASSUME NEW S, NEW s \in Seq(S), NEW a \in Nat, NEW b \in Nat, b <= Len(s),
           NEW w \in Nat, a + w <= b, NEW l, l = b - a
    PROVE  /\ SubSeq(SubSeq(s, a + 1, b), 1, w) = SubSeq(s, a + 1, a + w)
           /\ SubSeq(SubSeq(s, a + 1, b), w + 1, l) = SubSeq(s, a + w + 1, b)
<1>1. Len(s) \in Nat
  BY LenProperties
<1>2. a + 1 \in 1 .. Len(s) + 1 /\ b \in (a + 1) - 1 .. Len(s) /\ b - (a + 1) + 1 = l
      /\ w \in 0 .. b - (a + 1) + 1 /\ (a + 1) + w - 1 = a + w /\ (a + 1) + w = a + w + 1
  BY <1>1
<1>3. SubSeq(SubSeq(s, a + 1, b), 1, w) = SubSeq(s, a + 1, (a + 1) + w - 1)
  BY <1>2, SubSeqFirst
<1>4. SubSeq(SubSeq(s, a + 1, b), w + 1, b - (a + 1) + 1) = SubSeq(s, (a + 1) + w, b)
  BY <1>2, SubSeqFirst
<1> QED
  BY <1>2, <1>3, <1>4, Zenon

\* The tape of an end that has sent nothing.
LEMMA TapeStarts ==
    ASSUME NEW e \in Ends
    PROVE  Tape(e, 0, [i \in 0 .. 0 |-> 0], <<>>)
<1>1. <<>> \in Seq(Byte) /\ Len(<<>>) = 0
  BY EmptySeq
<1> QED
  BY <1>1 DEF Tape

\* The tape of an end gets longer by one packet (send, doWrite).
LEMMA TapeGrows ==
    ASSUME NEW e \in Ends, NEW k \in Nat, NEW at, NEW wire, Tape(e, k, at, wire),
           Made(e, k + 1) \in Seq(Byte)
    PROVE  \E longer : /\ Tape(e, k + 1, longer, wire \o Made(e, k + 1))
                       /\ \A i \in 0 .. k : longer[i] = at[i]
<1>1. PICK made \in Seq(Byte) : made = Made(e, k + 1)
  BY Zenon
<1> DEFINE new == wire \o made
           longer == [i \in 0 .. k + 1 |-> IF i <= k THEN at[i] ELSE Len(wire) + Len(made)]
<1>2. /\ at \in [0 .. k -> Nat] /\ at[0] = 0 /\ wire \in Seq(Byte) /\ Len(wire) = at[k]
      /\ \A i \in 0 .. k : at[i] \in Nat /\ at[i] <= Len(wire)
      /\ \A i \in 1 .. k : /\ at[i] = at[i - 1] + Len(Made(e, i))
                           /\ SubSeq(wire, at[i - 1] + 1, at[i]) = Made(e, i)
  BY DEF Tape
<1>3. Len(wire) \in Nat /\ Len(made) \in Nat
  BY <1>1, <1>2, LenProperties
<1>4. /\ new \in Seq(Byte) /\ Len(new) = Len(wire) + Len(made)
      /\ \A i \in 1 .. Len(wire) : new[i] = wire[i]
      /\ \A i \in 1 .. Len(made) : new[Len(wire) + i] = made[i]
  <2>1. wire \in Seq(Byte)
    BY <1>2
  <2> QED
    BY <1>1, <2>1, Seam
<1>5. /\ longer \in [0 .. k + 1 -> Nat]
      /\ \A i \in 0 .. k : longer[i] = at[i]
      /\ longer[k + 1] = Len(new)
  BY <1>2, <1>3, <1>4
<1>6. \A i \in 0 .. k + 1 : longer[i] <= Len(new)
  BY <1>2, <1>3, <1>4, <1>5
<1> HIDE DEF new, longer
<1>7. ASSUME NEW i \in 1 .. k
      PROVE  /\ longer[i] = longer[i - 1] + Len(Made(e, i))
             /\ SubSeq(new, longer[i - 1] + 1, longer[i]) = Made(e, i)
  <2>10. i - 1 \in 0 .. k /\ i \in 0 .. k
    OBVIOUS
  <2>1. PICK m \in Nat, n \in Nat : m = at[i - 1] /\ n = at[i]
    BY <1>2, <2>10
  <2>2. longer[i - 1] = m /\ longer[i] = n
    BY <1>5, <2>1, <2>10
  <2>3. SubSeq(wire, m + 1, n) = Made(e, i) /\ n = m + Len(Made(e, i)) /\ n <= Len(wire)
    BY <1>2, <2>1, <2>10
  <2>4. Len(Made(e, i)) \in Nat
    <3>1. SubSeq(wire, m + 1, n) \in Seq(Byte)
      <4>1. \A j \in m + 1 .. n : wire[j] \in Byte
        <5> TAKE j \in m + 1 .. n
        <5>1. j \in 1 .. Len(wire)
          BY <1>3, <2>3
        <5> QED
          BY <1>2, <5>1, ElementOfSeq
      <4> QED
        BY <4>1, SubSeqProperties
    <3> QED
      BY <2>3, <3>1, LenProperties
  <2>5. m <= n /\ n <= Len(wire) /\ n <= Len(new)
    BY <1>3, <1>4, <2>3, <2>4
  <2>11. wire \in Seq(Byte) /\ new \in Seq(Byte)
    BY <1>2, <1>4
  <2> DEFINE s == SubSeq(wire, m + 1, n)
             t == SubSeq(new, m + 1, n)
  <2>6. PICK l \in Nat : l = n - m
    BY <2>5
  <2>7. /\ s \in Seq(Byte) /\ Len(s) = l
        /\ \A j \in 1 .. l : s[j] = wire[m + j]
    <3>1. SubSeq(wire, m + 1, n) \in Seq(Byte)
      BY <2>5, <2>6, <2>11, Slice
    <3>2. Len(SubSeq(wire, m + 1, n)) = l
      BY <2>5, <2>6, <2>11, Slice
    <3>3. \A j \in 1 .. l : SubSeq(wire, m + 1, n)[j] = wire[m + j]
      BY <2>5, <2>6, <2>11, Slice
    <3> QED
      BY <3>1, <3>2, <3>3
  <2>12. /\ t \in Seq(Byte) /\ Len(t) = l
         /\ \A j \in 1 .. l : t[j] = new[m + j]
    <3>1. SubSeq(new, m + 1, n) \in Seq(Byte)
      BY <2>5, <2>6, <2>11, Slice
    <3>2. Len(SubSeq(new, m + 1, n)) = l
      BY <2>5, <2>6, <2>11, Slice
    <3>3. \A j \in 1 .. l : SubSeq(new, m + 1, n)[j] = new[m + j]
      BY <2>5, <2>6, <2>11, Slice
    <3> QED
      BY <3>1, <3>2, <3>3
  <2> HIDE DEF s, t
  <2>8. \A j \in 1 .. l : t[j] = s[j]
    <3> TAKE j \in 1 .. l
    <3>1. m + j \in 1 .. Len(wire)
      BY <1>3, <2>5, <2>6
    <3> QED
      BY <1>4, <2>7, <2>12, <3>1
  <2>9. s = t
    BY <2>7, <2>12, <2>8, SeqEqual
  <2> QED
    BY <2>2, <2>3, <2>9 DEF s, t
<1>8. /\ longer[k + 1] = longer[k] + Len(made)
      /\ SubSeq(new, longer[k] + 1, longer[k + 1]) = made
  <2>1. PICK m \in Nat, n \in Nat : m = Len(wire) /\ n = Len(new)
    BY <1>3, <1>4
  <2>7. k \in 0 .. k
    OBVIOUS
  <2>8. m = longer[k] /\ n = longer[k + 1]
    BY <1>2, <1>5, <2>1, <2>7
  <2>2. n = m + Len(made) /\ m <= n /\ n <= Len(new) /\ Len(made) = n - m
    BY <1>3, <1>4, <2>1
  <2> DEFINE t == SubSeq(new, m + 1, n)
  <2>9. PICK l \in Nat : l = Len(made)
    BY <1>3
  <2>4. /\ t \in Seq(Byte) /\ Len(t) = Len(made)
        /\ \A j \in 1 .. Len(made) : t[j] = new[m + j]
    <3>1. l = n - m /\ new \in Seq(Byte)
      BY <1>4, <2>2, <2>9
    <3>2. t \in Seq(Byte)
      BY <2>2, <3>1, Slice
    <3>3. Len(t) = l
      BY <2>2, <3>1, Slice
    <3>4. \A j \in 1 .. l : t[j] = new[m + j]
      BY <2>2, <3>1, Slice
    <3> QED
      BY <2>9, <3>2, <3>3, <3>4
  <2> HIDE DEF t
  <2>5. \A j \in 1 .. Len(made) : t[j] = made[j]
    BY <1>4, <2>1, <2>4
  <2>6. t = made
    BY <1>1, <2>4, <2>5, SeqEqual
  <2> QED
    BY <2>2, <2>6, <2>8 DEF t
<1>9. Tape(e, k + 1, longer, new)
  <2>1. longer[0] = 0
    BY <1>2, <1>5
  <2>2. ASSUME NEW i \in 1 .. k + 1
        PROVE  /\ longer[i] = longer[i - 1] + Len(Made(e, i))
               /\ SubSeq(new, longer[i - 1] + 1, longer[i]) = Made(e, i)
    <3>1. CASE i \in 1 .. k
      BY <1>7, <3>1
    <3>2. CASE i = k + 1
      <4>1. i - 1 = k
        BY <3>2
      <4> QED
        BY <1>1, <1>8, <3>2, <4>1
    <3> QED
      BY <3>1, <3>2
  <2> QED
    BY <1>4, <1>5, <1>6, <2>1, <2>2 DEF Tape
<1> QED
  BY <1>1, <1>5, <1>9 DEF new

\* The packet behind the first h on the tape: its header, then its payload.
PacketAt(e, at, wire, h) ==
    /\ at[h] \in Nat
    /\ at[h + 1] = at[h] + HeaderSize + Len(payloads[e][h + 1])
    /\ at[h + 1] <= Len(wire)
    /\ SubSeq(wire, at[h] + 1, at[h] + HeaderSize) = SubSeq(Made(e, h + 1), 1, HeaderSize)
    /\ SubSeq(wire, at[h] + HeaderSize + 1, at[h + 1]) = payloads[e][h + 1]

\* What a reader finds on the tape behind the packets it has handled.
LEMMA TapeHoldsPackets ==
    ASSUME Script, NEW e \in Ends, NEW k \in Nat, k <= Count(e), NEW at, NEW wire,
           Tape(e, k, at, wire), NEW h \in Nat, h < k
    PROVE  PacketAt(e, at, wire, h)
<1>1. h + 1 \in 1 .. Count(e) /\ h + 1 \in 1 .. k /\ h \in 0 .. k /\ (h + 1) - 1 = h
  BY Packets
<1>2. PICK made \in Seq(Byte), size \in Nat :
          /\ made = Made(e, h + 1)
          /\ size = Len(payloads[e][h + 1])
          /\ Len(made) = HeaderSize + size
          /\ SubSeq(made, HeaderSize + 1, Len(made)) = payloads[e][h + 1]
  BY <1>1, Packets, Zenon
<1>10. h + 1 \in 0 .. k
  BY <1>1
<1>3. PICK m \in Nat, n \in Nat : m = at[h] /\ n = at[h + 1]
  BY <1>1, <1>10 DEF Tape
<1>4. /\ n = m + Len(made) /\ SubSeq(wire, m + 1, n) = made
      /\ wire \in Seq(Byte) /\ n <= Len(wire)
  <2>1. /\ at[h + 1] = at[(h + 1) - 1] + Len(Made(e, h + 1))
        /\ SubSeq(wire, at[(h + 1) - 1] + 1, at[h + 1]) = Made(e, h + 1)
        /\ wire \in Seq(Byte) /\ at[h + 1] <= Len(wire)
    BY <1>1, <1>10, Zenon DEF Tape
  <2> QED
    BY <1>1, <1>2, <1>3, <2>1, Zenon
<1>5. HeaderSize \in Nat /\ Len(wire) \in Nat
  BY <1>4, LenProperties DEF HeaderSize
<1>11. PICK l \in Nat : l = Len(made)
  BY <1>2, LenProperties
<1>6. m + HeaderSize <= n /\ l = n - m /\ n <= Len(wire)
  BY <1>2, <1>4, <1>5, <1>11
<1>7. /\ SubSeq(SubSeq(wire, m + 1, n), 1, HeaderSize) = SubSeq(wire, m + 1, m + HeaderSize)
      /\ SubSeq(SubSeq(wire, m + 1, n), HeaderSize + 1, l) = SubSeq(wire, m + HeaderSize + 1, n)
  <2>1. wire \in Seq(Byte)
    BY <1>4
  <2>2. SubSeq(SubSeq(wire, m + 1, n), 1, HeaderSize) = SubSeq(wire, m + 1, m + HeaderSize)
    BY <1>5, <1>6, <2>1, Cut
  <2>3. SubSeq(SubSeq(wire, m + 1, n), HeaderSize + 1, l) = SubSeq(wire, m + HeaderSize + 1, n)
    BY <1>5, <1>6, <2>1, Cut
  <2> QED
    BY <2>2, <2>3
<1>8. /\ SubSeq(wire, m + 1, m + HeaderSize) = SubSeq(made, 1, HeaderSize)
      /\ SubSeq(wire, m + HeaderSize + 1, n) = SubSeq(made, HeaderSize + 1, Len(made))
  BY <1>4, <1>11, <1>7, Zenon
<1>9. n = m + HeaderSize + size
  <2>1. n = m + l /\ l = HeaderSize + size
    BY <1>2, <1>4, <1>11, Zenon
  <2> QED
    BY <1>5, <2>1
<1> QED
  BY <1>2, <1>3, <1>4, <1>8, <1>9, Zenon DEF PacketAt
-----------------------------------------------------------------------------
(* What a step leaves as it is *)

\* Packets are made of what does not change.
LEMMA SameTalk ==
    ASSUME UNCHANGED <<talk, payloads>>
    PROVE  /\ Script => Script'
           /\ \A e : Count(e)' = Count(e)
           /\ \A e, i : Made(e, i)' = Made(e, i)
           /\ \A e, i : HeaderOf(e, i)' = HeaderOf(e, i)
           /\ \A e, i : Delivery(e, i)' = Delivery(e, i)
           /\ \A e, k, at, wire : Tape(e, k, at, wire)' <=> Tape(e, k, at, wire)
<1>1. Script => Script'
  BY DEF Script
<1>2. \A e : Count(e)' = Count(e)
  BY DEF Count
<1>3. \A e, i : Made(e, i)' = Made(e, i)
  BY DEF Made
<1>4. \A e, i : HeaderOf(e, i)' = HeaderOf(e, i)
  BY DEF Made, HeaderOf
<1>5. \A e, i : Delivery(e, i)' = Delivery(e, i)
  BY DEF Made, HeaderOf, Delivery
<1>6. \A e, k, at, wire : Tape(e, k, at, wire)' <=> Tape(e, k, at, wire)
  BY DEF Made, Tape
<1> QED
  BY <1>1, <1>2, <1>3, <1>4, <1>5, <1>6, Zenon

\* An end whose reads are left alone reads on where it is, if its peer has sent no less,
\* and the kernel has taken no more of it as long as nothing is broken.
LEMMA ReadingFrame ==
    ASSUME NEW r \in Ends, TypeInv, Reading(r), UNCHANGED <<talk, payloads>>,
           handled'[r] = handled[r], expects'[r] = expects[r], readHeader'[r] = readHeader[r],
           readBuffer'[r] = readBuffer[r], stream'[r] = stream[r],
           read'[r] \in {read[r], "none", "aborted"},
           sent'[Peer(r)] \in Nat, sent[Peer(r)] <= sent'[Peer(r)],
           ~ broken' => ~ broken /\ Transmitted(Peer(r))' = Transmitted(Peer(r))
    PROVE  Reading(r)'
<1>1. Handed(r)'
  <2>1. handled'[r] = [i \in 1 .. Len(handled'[r]) |-> Delivery(Peer(r), i)]
    BY DEF Reading, Handed
  <2>2. \A i : Delivery(Peer(r), i)' = Delivery(Peer(r), i)
    BY SameTalk, Zenon
  <2>3. Len(handled'[r]) \in Nat
    BY DEF Reading, Handed
  <2> QED
    BY <2>1, <2>2, <2>3 DEF Handed, Peer
<1>2. PICK k, at, wire, m : Following(r, k, at, wire, m)
  BY Zenon DEF Reading
<1>3. Following(r, k, at, wire, m)'
  <2> DEFINE e == Peer(r)
             h == Len(handled[r])
  <2>1. k \in h .. sent'[e] /\ Tape(e, k, at, wire) /\ m \in 0 .. Len(wire)
    BY <1>2, Peers DEF Following, TypeInv, Reading, Handed
  <2>2. Tape(e, k, at, wire)'
    BY <2>1, SameTalk, Zenon DEF Peer
  <2>3. ~ broken' => k = Transmitted(e)' /\ m = Len(wire)
    BY <1>2 DEF Following
  <2>4. \A i : HeaderOf(e, i)' = HeaderOf(e, i) /\ Made(e, i)' = Made(e, i)
    BY SameTalk, Zenon
  <2>5. /\ read'[r] = "pending" /\ expects'[r] = "header" =>
               /\ at[h] <= m
               /\ stream'[r] = SubSeq(wire, at[h] + 1, m)
        /\ read'[r] = "done" /\ expects'[r] = "header" =>
               /\ h < k
               /\ at[h] + HeaderSize <= m
               /\ stream'[r] = SubSeq(wire, at[h] + HeaderSize + 1, m)
               /\ readBuffer'[r] = SubSeq(Made(e, h + 1), 1, HeaderSize)
        /\ read'[r] = "pending" /\ ~ expects'[r] = "header" =>
               /\ h < k
               /\ at[h] + HeaderSize <= m
               /\ stream'[r] = SubSeq(wire, at[h] + HeaderSize + 1, m)
               /\ readHeader'[r] = HeaderOf(e, h + 1)
        /\ read'[r] = "done" /\ ~ expects'[r] = "header" =>
               /\ h < k
               /\ at[h + 1] <= m
               /\ stream'[r] = SubSeq(wire, at[h + 1] + 1, m)
               /\ readHeader'[r] = HeaderOf(e, h + 1)
               /\ readBuffer'[r] = payloads[e][h + 1]
    <3>1. read'[r] \in {"pending", "done"} => read'[r] = read[r]
      OBVIOUS
    <3> QED
      BY <1>2, <3>1, Zenon DEF Following, Header
  <2> QED
    BY <2>1, <2>2, <2>3, <2>4, <2>5 DEF Following, Header, Peer
<1> QED
  BY <1>1, <1>3, Zenon DEF Reading

\* What an end has to do with writing, untouched.
Aside(e) ==
    /\ sent'[e] = sent[e]
    /\ writeQueue'[e] = writeQueue[e]
    /\ writing'[e] = writing[e]
    /\ closed'[e] = closed[e]
    /\ write'[e] = write[e]
    /\ undefined'[e] = undefined[e]

\* An end whose writes are left alone stays as it is, and so does what its peer sees of it.
LEMMA SendingFrame ==
    ASSUME NEW e \in Ends, Sending(e), UNCHANGED <<talk, payloads>>, Aside(e),
           read'[e] = read[e] \/ read'[e] \notin {"none", "aborted"} \/ closed[e],
           broken => broken'
    PROVE  Sending(e)'
<1>1. Queued(e) => Queued(e)'
  BY SameTalk DEF Queued, Aside
<1>2. Count(e)' = Count(e)
  BY SameTalk, Zenon
<1> QED
  BY <1>1, <1>2, Zenon DEF Sending, Aside

\* As many packets as before have been taken from it.
LEMMA TransmittedFrame ==
    ASSUME NEW e \in Ends, Aside(e)
    PROVE  Transmitted(e)' = Transmitted(e)
  BY DEF Transmitted, Aside
-----------------------------------------------------------------------------
(* The invariant holds *)

\* Nothing of nothing.
LEMMA Nothing ==
    /\ <<>> \in Seq(Byte) /\ <<>> \in Seq(Seq(Byte))
    /\ Len(<<>>) = 0
    /\ SubSeq(<<>>, 0 + 1, 0) = <<>>
    /\ \A f : <<>> = [i \in 1 .. 0 |-> f[i]]
<1>1. <<>> \in Seq(Byte) /\ <<>> \in Seq(Seq(Byte)) /\ Len(<<>>) = 0
  BY EmptySeq
<1>2. SubSeq(<<>>, 0 + 1, 0) = <<>>
  OBVIOUS
<1>3. \A f : <<>> = [i \in 1 .. 0 |-> f[i]]
  OBVIOUS
<1> QED
  BY <1>1, <1>2, <1>3, Zenon

\* Two programs that have just been connected (start).
LEMMA InitInv ==
    ASSUME Init
    PROVE  Inv
<1>1. Script
  BY DEF Init, Script
<1>2. TypeInv
  BY Nothing DEF Init, TypeInv, Operations
<1>3. ASSUME NEW e \in Ends
      PROVE  Sending(e)
  <2>1. Count(e) \in Nat
    BY <1>1, Packets
  <2>2. Queued(e)
    BY Nothing DEF Init, Queued
  <2> QED
    BY <2>1, <2>2 DEF Init, Sending
<1>4. ASSUME NEW r \in Ends
      PROVE  Reading(r)
  <2>1. handled[r] = <<>> /\ stream[r] = <<>> /\ read[r] = "pending" /\ Header(r)
    BY DEF Init, Header
  <2>2. PICK zero \in Nat : zero = 0
    OBVIOUS
  <2>3. Len(<<>>) = zero /\ SubSeq(<<>>, zero + 1, zero) = <<>>
    BY Nothing, <2>2
  <2>4. Handed(r)
    <3>1. Len(handled[r]) = zero
      BY <2>1, <2>3
    <3>2. <<>> = [i \in 1 .. zero |-> Delivery(Peer(r), i)]
      BY <2>2
    <3> QED
      BY <2>1, <3>1, <3>2 DEF Handed
  <2>5. PICK at : at = [i \in 0 .. 0 |-> 0]
    OBVIOUS
  <2>6. Tape(Peer(r), zero, at, <<>>)
    BY <2>2, <2>5, Peers, TapeStarts
  <2>7. sent[Peer(r)] = 0 /\ Transmitted(Peer(r)) = zero
    BY Peers, Nothing, <2>2 DEF Init, Transmitted
  <2>8. at[zero] = 0
    BY <2>2, <2>5
  <2>9. zero \in 0 .. Len(<<>>) /\ zero = Len(<<>>) /\ zero \in zero .. 0 /\ at[zero] <= zero
    BY <2>2, <2>3, <2>8
  <2>10. at[zero] = zero
    BY <2>2, <2>8
  <2>11. Following(r, zero, at, <<>>, zero)
    BY <2>1, <2>3, <2>6, <2>7, <2>9, <2>10, Zenon DEF Following
  <2> QED
    BY <2>4, <2>11, Zenon DEF Reading
<1> QED
  BY <1>1, <1>2, <1>3, <1>4 DEF Inv

\* What a step of an end has to show, when it leaves the other end alone.
LEMMA OneEndMoves ==
    ASSUME Inv, UNCHANGED <<talk, payloads>>, TypeInv', NEW e \in Ends,
           Aside(Peer(e)), read'[Peer(e)] = read[Peer(e)], broken => broken',
           Sending(e)', Reading(e)', Reading(Peer(e))'
    PROVE  Inv'
<1>1. Sending(Peer(e))'
  <2>1. Peer(e) \in Ends /\ Sending(Peer(e))
    BY Peers DEF Inv
  <2> QED
    BY <2>1, SendingFrame
<1>2. \A r \in Ends : Sending(r)' /\ Reading(r)'
  BY <1>1, Peers, Zenon
<1>3. Script'
  BY SameTalk, Zenon DEF Inv
<1> QED
  BY <1>2, <1>3, Zenon DEF Inv

\* Of a conversation that is going on.
LEMMA NextPacket ==
    ASSUME Script, NEW e \in Ends, sent[e] \in Nat, sent[e] < Count(e)
    PROVE  Encoded(e) = Made(e, sent[e] + 1) /\ Encoded(e) \in Seq(Byte)
<1>1. Encoded(e) = Made(e, sent[e] + 1)
  BY DEF Encoded, Made
<1>2. Count(e) \in Nat /\ \A i \in 1 .. Count(e) : Made(e, i) \in Seq(Byte)
  BY Packets
<1>3. sent[e] + 1 \in 1 .. Count(e)
  BY <1>2
<1> QED
  BY <1>1, <1>2, <1>3

\* send: the packet is put behind the others, and a write is started if there is none.
LEMMA SendKeeps ==
    ASSUME Inv, NEW e \in Ends, Send(e)
    PROVE  Inv'
<1> DEFINE f == Peer(e)
<1>1. f \in Ends /\ f # e /\ Peer(f) = e
  BY Peers
<1>2. TypeInv /\ Script /\ Sending(e) /\ Reading(e) /\ Reading(f)
  BY <1>1 DEF Inv
<1>3. PICK queue : queue = Append(writeQueue[e], Encoded(e))
  OBVIOUS
<1>4. /\ sent[e] < Count(e)
      /\ sent' = [sent EXCEPT ![e] = @ + 1]
      /\ writeQueue' = [writeQueue EXCEPT ![e] = queue]
      /\ ~ undefined[e]
      /\ UNCHANGED <<talk, payloads, closed, stream, broken, undefined, read, expects, readHeader,
                     readBuffer, handled>>
  BY <1>3 DEF Send, DoWrite, Count, readVars
<1>5. /\ writing[e] => UNCHANGED <<writing, write>>
      /\ ~ writing[e] /\ (closed[e] \/ queue = <<>>) =>
             /\ writing' = [writing EXCEPT ![e] = FALSE]
             /\ write' = [write EXCEPT ![e] = write[e]]
      /\ ~ writing[e] /\ ~ (closed[e] \/ queue = <<>>) =>
             /\ writing' = [writing EXCEPT ![e] = TRUE]
             /\ write' = [write EXCEPT ![e] = "pending"]
  BY <1>3 DEF Send, DoWrite
<1>6. PICK n \in Nat, l \in Nat : n = sent[e] /\ l = Len(writeQueue[e])
  <2>1. sent[e] \in Nat /\ writeQueue[e] \in Seq(Seq(Byte))
    BY <1>2 DEF TypeInv
  <2> QED
    BY <2>1, LenProperties
<1>7. Encoded(e) = Made(e, n + 1) /\ Encoded(e) \in Seq(Byte)
  BY <1>2, <1>4, <1>6, NextPacket
<1>8. /\ queue \in Seq(Seq(Byte)) /\ Len(queue) = l + 1 /\ queue # <<>>
      /\ \A j \in 1 .. l : queue[j] = writeQueue[e][j]
      /\ queue[l + 1] = Made(e, n + 1)
  <2>1. writeQueue[e] \in Seq(Seq(Byte))
    BY <1>2 DEF TypeInv
  <2>2. queue \in Seq(Seq(Byte)) /\ Len(queue) = l + 1 /\ queue[l + 1] = Encoded(e)
        /\ \A j \in 1 .. l : queue[j] = writeQueue[e][j]
    BY <1>3, <1>6, <1>7, <2>1, AppendProperties
  <2>3. queue # <<>>
    BY <2>2, EmptySeq
  <2> QED
    BY <1>7, <2>2, <2>3
<1>9. sent' \in [Ends -> Nat] /\ sent'[e] = n + 1 /\ sent'[f] = sent[f]
      /\ writeQueue'[e] = queue /\ writeQueue'[f] = writeQueue[f]
      /\ writing'[f] = writing[f] /\ write'[f] = write[f]
  BY <1>1, <1>2, <1>4, <1>5, <1>6 DEF TypeInv
<1>10. TypeInv'
  BY <1>2, <1>4, <1>5, <1>8, <1>9 DEF TypeInv, Operations
<1>11. Sending(e)'
  <2>1. Count(e) \in Nat /\ Count(e)' = Count(e)
    BY <1>2, <1>4, Packets, SameTalk
  <2>2. sent'[e] <= Count(e)'
    BY <1>4, <1>6, <1>9, <2>1
  <2>3. CASE closed[e]
    <3>1. write'[e] = write[e]
      BY <1>2, <1>5, <2>3 DEF TypeInv
    <3> QED
      BY <1>2, <1>4, <2>2, <2>3, <3>1 DEF Sending
  <2>4. CASE ~ closed[e]
    <3>1. Queued(e) /\ (writing[e] <=> write[e] \in {"pending", "done"})
      BY <1>2, <2>4 DEF Sending
    <3>2. Queued(e)'
      <4>1. l <= n /\ \A j \in 1 .. l : writeQueue[e][j] = Made(e, n - l + j)
        BY <1>6, <3>1 DEF Queued
      <4>2. \A j \in 1 .. l + 1 : queue[j] = Made(e, (n + 1) - (l + 1) + j)
        <5> TAKE j \in 1 .. l + 1
        <5>1. CASE j = l + 1
          <6>1. (n + 1) - (l + 1) + j = n + 1
            BY <5>1
          <6> QED
            BY <1>8, <5>1, <6>1
        <5>2. CASE j \in 1 .. l
          <6>1. (n + 1) - (l + 1) + j = n - l + j
            OBVIOUS
          <6> QED
            BY <1>8, <4>1, <5>2, <6>1
        <5> QED
          BY <5>1, <5>2
      <4>3. \A i : Made(e, i)' = Made(e, i)
        BY <1>4, SameTalk
      <4>4. Len(queue) <= n + 1
        BY <1>8, <4>1
      <4>5. \A j \in 1 .. Len(queue) : queue[j] = Made(e, (n + 1) - Len(queue) + j)
        BY <1>8, <4>2, Zenon
      <4> QED
        BY <1>9, <4>3, <4>4, <4>5, Zenon DEF Queued
    <3>3. writing'[e] /\ write'[e] \in {"pending", "done"}
      BY <1>2, <1>5, <1>8, <2>4, <3>1 DEF TypeInv
    <3> QED
      BY <1>2, <1>4, <1>8, <1>9, <2>2, <2>4, <3>2, <3>3 DEF Sending
  <2> QED
    BY <2>3, <2>4
<1>12. Reading(e)'
  <2>1. Transmitted(f)' = Transmitted(f)
    BY <1>4, <1>9 DEF Transmitted
  <2>2. sent'[f] \in Nat /\ sent[f] <= sent'[f]
    BY <1>1, <1>9
  <2> QED
    BY <1>2, <1>4, <2>1, <2>2, ReadingFrame
<1>13. Reading(f)'
  <2>1. ASSUME ~ broken
        PROVE  Transmitted(e)' = Transmitted(e)
    <3>1. ~ closed[e] /\ (writing[e] <=> write[e] \in {"pending", "done"})
          /\ (writing[e] <=> writeQueue[e] # <<>>)
      BY <1>2, <2>1 DEF Sending
    <3>2. write'[e] = "done" <=> write[e] = "done"
      BY <1>2, <1>5, <1>8, <3>1 DEF TypeInv
    <3>3. (n + 1) - (l + 1) = n - l
      OBVIOUS
    <3> QED
      BY <1>6, <1>8, <1>9, <3>2, <3>3 DEF Transmitted
  <2>2. sent'[e] \in Nat /\ sent[e] <= sent'[e]
    BY <1>6, <1>9
  <2> QED
    BY <1>1, <1>2, <1>4, <2>1, <2>2, ReadingFrame
<1>14. Aside(f)
  BY <1>4, <1>9 DEF Aside
<1> QED
  BY <1>4, <1>10, <1>11, <1>12, <1>13, <1>14, OneEndMoves

\* The kernel appends a packet to the tape and to what is under way.
LEMMA StreamGrows ==
    ASSUME NEW wire \in Seq(Byte), NEW made \in Seq(Byte), NEW p \in Nat, p <= Len(wire)
    PROVE  /\ SubSeq(wire, p + 1, Len(wire)) \o made
                  = SubSeq(wire \o made, p + 1, Len(wire \o made))
           /\ p <= Len(wire \o made)
<1>1. Len(wire) \in Nat /\ Len(made) \in Nat /\ Len(wire \o made) = Len(wire) + Len(made)
  BY LenProperties, ConcatProperties
<1>2. p + 1 \in 1 .. Len(wire) + 1 /\ p <= Len(wire \o made)
  BY <1>1
<1>3. SubSeq(wire, p + 1, Len(wire)) \o made = SubSeq(wire \o made, p + 1, Len(wire \o made))
  BY <1>2, SubSeqGrows
<1> QED
  BY <1>2, <1>3, Zenon

\* The end that will read a packet finds it behind all the others.
LEMMA TransmitReading ==
    ASSUME Inv, NEW e \in Ends, Transmit(e), ~ broken, TypeInv'
    PROVE  Reading(Peer(e))'
<1>1. PICK r \in Ends : r = Peer(e) /\ Peer(r) = e /\ r # e
  BY Peers
<1>2. TypeInv /\ Script /\ Sending(e) /\ Reading(r)
  BY <1>1 DEF Inv
<1>21. PICK made : made = Head(writeQueue[e])
  OBVIOUS
<1>3. PICK n \in Nat, l \in Nat : n = sent[e] /\ l = Len(writeQueue[e])
  <2>1. sent[e] \in Nat /\ writeQueue[e] \in Seq(Seq(Byte))
    BY <1>2 DEF TypeInv
  <2> QED
    BY <2>1, LenProperties
<1>4. /\ write[e] = "pending" /\ write'[e] = "done"
      /\ stream'[r] = stream[r] \o made
      /\ UNCHANGED <<talk, payloads, sent, writeQueue, broken, read, expects, readHeader,
                     readBuffer, handled>>
  BY <1>1, <1>2, <1>21 DEF Transmit, TypeInv, readVars
<1>5. l \in 1 .. n /\ made = Made(e, n - l + 1) /\ made \in Seq(Byte)
  <2>1. Queued(e) /\ writeQueue[e] # <<>> /\ writeQueue[e] \in Seq(Seq(Byte))
    BY <1>2, <1>4 DEF Sending, TypeInv
  <2>2. l # 0 /\ made = writeQueue[e][1] /\ made \in Seq(Byte)
    BY <1>3, <1>21, <2>1, HeadTailProperties, EmptySeq
  <2>3. l <= n /\ \A j \in 1 .. l : writeQueue[e][j] = Made(e, n - l + j)
    BY <1>3, <2>1, Zenon DEF Queued
  <2>4. 1 \in 1 .. l
    BY <2>2
  <2> QED
    BY <2>2, <2>3, <2>4
<1>6. PICK k, at, wire, m : Following(r, k, at, wire, m)
  BY <1>2, Zenon DEF Reading
<1>7. PICK h \in Nat : h = Len(handled[r])
  BY <1>2 DEF Reading, Handed
<1>8. Transmitted(e) = n - l /\ Transmitted(e)' = n - l + 1
  BY <1>3, <1>4 DEF Transmitted
<1>9. /\ k = n - l /\ m = Len(wire) /\ Tape(e, k, at, wire) /\ k \in h .. n
  BY <1>1, <1>3, <1>6, <1>7, <1>8 DEF Following
<1>10. k \in Nat /\ k + 1 \in h .. n /\ made = Made(e, k + 1) /\ Made(e, k + 1) \in Seq(Byte)
  BY <1>5, <1>9
<1>11. PICK longer : /\ Tape(e, k + 1, longer, wire \o made)
                     /\ \A i \in 0 .. k : longer[i] = at[i]
  BY <1>9, <1>10, TapeGrows
<1>12. PICK new : new = wire \o made
  OBVIOUS
<1>13. wire \in Seq(Byte) /\ new \in Seq(Byte) /\ Len(new) \in Nat
       /\ \A i \in 0 .. k : at[i] \in Nat /\ at[i] <= Len(wire)
  <2>1. wire \in Seq(Byte) /\ \A i \in 0 .. k : at[i] \in Nat /\ at[i] <= Len(wire)
    BY <1>9 DEF Tape
  <2>2. new \in Seq(Byte)
    BY <1>10, <1>12, <2>1, ConcatProperties
  <2> QED
    BY <2>1, <2>2, LenProperties
<1>14. \A p \in Nat : p <= Len(wire) /\ stream[r] = SubSeq(wire, p + 1, Len(wire)) =>
                          stream'[r] = SubSeq(new, p + 1, Len(new)) /\ p <= Len(new)
  <2> TAKE p \in Nat
  <2> HAVE p <= Len(wire) /\ stream[r] = SubSeq(wire, p + 1, Len(wire))
  <2>1. SubSeq(wire, p + 1, Len(wire)) \o made = SubSeq(new, p + 1, Len(new)) /\ p <= Len(new)
    <3>1. made \in Seq(Byte) /\ wire \in Seq(Byte)
      BY <1>10, <1>13
    <3>2. /\ SubSeq(wire, p + 1, Len(wire)) \o made
                 = SubSeq(wire \o made, p + 1, Len(wire \o made))
          /\ p <= Len(wire \o made)
      BY <3>1, StreamGrows
    <3> QED
      BY <1>12, <3>2
  <2> QED
    BY <1>4, <2>1, Zenon
<1>15. at[h] \in Nat /\ at[h] <= Len(wire) /\ longer[h] = at[h] /\ at[h] + HeaderSize \in Nat
  <2>1. h \in 0 .. k
    BY <1>9
  <2> QED
    BY <1>11, <1>13, <2>1 DEF HeaderSize
<1>16. h < k => /\ at[h + 1] \in Nat /\ at[h + 1] <= Len(wire) /\ longer[h + 1] = at[h + 1]
                /\ h < k + 1
  <2>1. h < k => h + 1 \in 0 .. k /\ h < k + 1
    BY <1>9
  <2> QED
    BY <1>11, <1>13, <2>1
<1>17. /\ k + 1 \in h .. sent'[e]
       /\ Tape(e, k + 1, longer, new)
       /\ Len(new) \in 0 .. Len(new)
       /\ k + 1 = Transmitted(e)'
  BY <1>3, <1>4, <1>8, <1>9, <1>10, <1>11, <1>12, <1>13
<1>18. /\ read[r] = "pending" /\ Header(r) =>
             /\ longer[h] <= Len(new)
             /\ stream'[r] = SubSeq(new, longer[h] + 1, Len(new))
       /\ read[r] = "done" /\ Header(r) =>
             /\ h < k + 1
             /\ longer[h] + HeaderSize <= Len(new)
             /\ stream'[r] = SubSeq(new, longer[h] + HeaderSize + 1, Len(new))
             /\ readBuffer[r] = SubSeq(Made(e, h + 1), 1, HeaderSize)
       /\ read[r] = "pending" /\ ~ Header(r) =>
             /\ h < k + 1
             /\ longer[h] + HeaderSize <= Len(new)
             /\ stream'[r] = SubSeq(new, longer[h] + HeaderSize + 1, Len(new))
             /\ readHeader[r] = HeaderOf(e, h + 1)
       /\ read[r] = "done" /\ ~ Header(r) =>
             /\ h < k + 1
             /\ longer[h + 1] <= Len(new)
             /\ stream'[r] = SubSeq(new, longer[h + 1] + 1, Len(new))
             /\ readHeader[r] = HeaderOf(e, h + 1)
             /\ readBuffer[r] = payloads[e][h + 1]
  BY <1>1, <1>6, <1>7, <1>9, <1>14, <1>15, <1>16, Zenon DEF Following
<1>19. Following(r, k + 1, longer, new, Len(new))'
  <2>1. /\ Tape(e, k + 1, longer, new)'
        /\ \A i : HeaderOf(e, i)' = HeaderOf(e, i) /\ Made(e, i)' = Made(e, i)
    BY <1>4, <1>17, SameTalk, Zenon
  <2>2. Peer(r)' = e /\ Header(r)' = Header(r) /\ Len(handled'[r]) = h
    BY <1>1, <1>4, <1>7 DEF Peer, Header
  <2> QED
    BY <1>4, <1>17, <1>18, <2>1, <2>2 DEF Following
<1>20. Handed(r)'
  <2>1. \A i : Delivery(Peer(r), i)' = Delivery(Peer(r), i)
    BY <1>4, SameTalk, Zenon DEF Peer
  <2> QED
    BY <1>2, <1>4, <2>1 DEF Reading, Handed, Peer
<1> QED
  BY <1>1, <1>19, <1>20, Zenon DEF Reading, Peer

\* The kernel has taken the packet in front.
LEMMA TransmitKeeps ==
    ASSUME Inv, NEW e \in Ends, Transmit(e)
    PROVE  Inv'
<1> DEFINE f == Peer(e)
<1>1. f \in Ends /\ f # e /\ Peer(f) = e
  BY Peers
<1>2. TypeInv /\ Script /\ Sending(e) /\ Reading(e) /\ Reading(f)
  BY <1>1 DEF Inv
<1>3. /\ write[e] = "pending"
      /\ write' = [write EXCEPT ![e] = "done"]
      /\ UNCHANGED <<talk, payloads, sent, writeQueue, writing, closed, broken, undefined, read,
                     expects, readHeader, readBuffer, handled>>
  BY DEF Transmit, readVars
<1>4. stream' \in [Ends -> Seq(Byte)] /\ stream'[e] = stream[e] /\ (broken => stream' = stream)
  <2>1. CASE broken
    BY <1>2, <2>1 DEF Transmit, TypeInv
  <2>2. CASE ~ broken
    <3>1. PICK made : made = Head(writeQueue[e]) /\ stream' = [stream EXCEPT ![f] = @ \o made]
      BY <2>2 DEF Transmit
    <3>2. writeQueue[e] # <<>> /\ writeQueue[e] \in Seq(Seq(Byte))
      BY <1>2, <1>3 DEF Sending, TypeInv
    <3>3. made \in Seq(Byte)
      BY <3>1, <3>2, HeadTailProperties
    <3>4. stream[f] \o made \in Seq(Byte)
      BY <1>1, <1>2, <3>3, ConcatProperties DEF TypeInv
    <3> QED
      BY <1>1, <1>2, <2>2, <3>1, <3>4 DEF TypeInv
  <2> QED
    BY <2>1, <2>2
<1>5. TypeInv'
  BY <1>2, <1>3, <1>4 DEF TypeInv, Operations
<1>6. write'[e] = "done" /\ write'[f] = write[f]
  BY <1>1, <1>2, <1>3 DEF TypeInv
<1>7. Sending(e)'
  <2>1. Queued(e)' <=> Queued(e)
    BY <1>3, SameTalk DEF Queued
  <2>2. Count(e)' = Count(e)
    BY <1>3, SameTalk
  <2> QED
    BY <1>2, <1>3, <1>6, <2>1, <2>2 DEF Sending
<1>8. Reading(e)'
  <2>1. Transmitted(f)' = Transmitted(f)
    BY <1>3, <1>6 DEF Transmitted
  <2>2. sent'[f] \in Nat /\ sent[f] <= sent'[f]
    BY <1>1, <1>2, <1>3 DEF TypeInv
  <2> QED
    BY <1>2, <1>3, <1>4, <2>1, <2>2, ReadingFrame
<1>9. Reading(f)'
  <2>1. CASE ~ broken
    BY <1>5, <2>1, TransmitReading
  <2>2. CASE broken
    <3>1. sent'[e] \in Nat /\ sent[e] <= sent'[e]
      BY <1>2, <1>3 DEF TypeInv
    <3> QED
      BY <1>1, <1>2, <1>3, <1>4, <2>2, <3>1, ReadingFrame
  <2> QED
    BY <2>1, <2>2
<1>10. Aside(f)
  BY <1>3, <1>6 DEF Aside
<1> QED
  BY <1>3, <1>5, <1>7, <1>8, <1>9, <1>10, OneEndMoves

\* A step that closes its end, or finds it closed: the connection is broken, and no
\* read goes on.
LEMMA ClosedKeeps ==
    ASSUME Inv, NEW e \in Ends, TypeInv',
           UNCHANGED <<talk, payloads, sent, expects, readHeader, readBuffer, stream, handled>>,
           broken', closed'[e], write'[e] # "pending",
           read'[e] \in {read[e], "none", "aborted"},
           Aside(Peer(e)), read'[Peer(e)] = read[Peer(e)]
    PROVE  Inv'
<1> DEFINE f == Peer(e)
<1>1. f \in Ends /\ f # e /\ Peer(f) = e
  BY Peers
<1>2. TypeInv /\ Script /\ Sending(e) /\ Reading(e) /\ Reading(f)
  BY <1>1 DEF Inv
<1>3. \A r \in Ends : sent'[r] \in Nat /\ sent[r] <= sent'[r]
  BY <1>2 DEF TypeInv
<1>4. Sending(e)'
  <2>1. Count(e)' = Count(e)
    BY SameTalk
  <2> QED
    BY <1>2, <2>1 DEF Sending
<1>5. Reading(e)'
  BY <1>1, <1>2, <1>3, ReadingFrame
<1>6. Reading(f)'
  BY <1>1, <1>2, <1>3, ReadingFrame
<1> QED
  BY <1>4, <1>5, <1>6, OneEndMoves

\* close and handleError of a connection that was open.
LEMMA CloseKeeps ==
    ASSUME Inv, NEW e \in Ends, NEW itsRead \in {"none", read[e]},
           NEW itsWrite \in {"none", write[e]},
           Close(e, itsRead, itsWrite)
    PROVE  Inv'
<1>1. Peer(e) \in Ends /\ Peer(e) # e
  BY Peers
<1>2. TypeInv
  BY DEF Inv
<1>3. PICK r, w : r = Aborted(itsRead) /\ w = Aborted(itsWrite)
  OBVIOUS
<1>4. r \in {read[e], "none", "aborted"} /\ r \in Operations /\ w \in Operations /\ w # "pending"
  BY <1>2, <1>3 DEF Aborted, TypeInv, Operations
<1>5. /\ closed' = [closed EXCEPT ![e] = TRUE]
      /\ writing' = [writing EXCEPT ![e] = FALSE]
      /\ writeQueue' = [writeQueue EXCEPT ![e] = <<>>]
      /\ read' = [read EXCEPT ![e] = r]
      /\ write' = [write EXCEPT ![e] = w]
      /\ broken' = TRUE
      /\ UNCHANGED <<talk, payloads, sent, expects, readHeader, readBuffer, stream, handled,
                     undefined>>
  BY <1>3 DEF Close
<1>6. <<>> \in Seq(Seq(Byte))
  BY EmptySeq
<1>7. TypeInv'
  BY <1>2, <1>4, <1>5, <1>6 DEF TypeInv
<1>8. closed'[e] /\ write'[e] = w /\ read'[e] = r
  BY <1>2, <1>5 DEF TypeInv
<1>9. Aside(Peer(e)) /\ read'[Peer(e)] = read[Peer(e)]
  BY <1>1, <1>2, <1>5 DEF Aside, TypeInv
<1> QED
  BY <1>4, <1>5, <1>7, <1>8, <1>9, ClosedKeeps

\* The completion handlers of operations that close has aborted.
LEMMA OperationAbortedKeeps ==
    ASSUME Inv, NEW e \in Ends, OperationAborted(e)
    PROVE  Inv'
<1>1. Peer(e) \in Ends /\ Peer(e) # e
  BY Peers
<1>2. TypeInv /\ Sending(e)
  BY DEF Inv
<1>3. closed[e] /\ broken /\ write[e] # "pending"
  BY <1>2 DEF OperationAborted, Sending
<1>4. /\ writing' = [writing EXCEPT ![e] = FALSE]
      /\ writeQueue' = [writeQueue EXCEPT ![e] = <<>>]
      /\ UNCHANGED <<talk, payloads, sent, closed, expects, readHeader, readBuffer, stream, broken,
                     handled, undefined>>
  BY DEF OperationAborted
<1>5. \/ write' = [write EXCEPT ![e] = "none"] /\ read' = read
      \/ read' = [read EXCEPT ![e] = "none"] /\ write' = write
  BY DEF OperationAborted
<1>6. <<>> \in Seq(Seq(Byte))
  BY EmptySeq
<1>7. TypeInv'
  BY <1>2, <1>4, <1>5, <1>6 DEF TypeInv, Operations
<1>8. write'[e] # "pending" /\ read'[e] \in {read[e], "none", "aborted"}
  BY <1>2, <1>3, <1>5 DEF TypeInv
<1>9. Aside(Peer(e)) /\ read'[Peer(e)] = read[Peer(e)]
  BY <1>1, <1>2, <1>4, <1>5 DEF Aside, TypeInv
<1> QED
  BY <1>3, <1>4, <1>7, <1>8, <1>9, ClosedKeeps

\* The completion handler of a write: pop_front, and the next write.
LEMMA WriteDoneKeeps ==
    ASSUME Inv, NEW e \in Ends, WriteDone(e)
    PROVE  Inv'
<1> DEFINE f == Peer(e)
<1>1. f \in Ends /\ f # e /\ Peer(f) = e
  BY Peers
<1>2. TypeInv /\ Script /\ Sending(e) /\ Reading(e) /\ Reading(f)
  BY <1>1 DEF Inv
<1>3. /\ write[e] = "done"
      /\ UNCHANGED <<talk, payloads, sent, closed, stream, read, expects, readHeader,
                     readBuffer, handled>>
  BY DEF WriteDone, readVars
<1>4. CASE writeQueue[e] = <<>>
  <2>1. /\ undefined' = [undefined EXCEPT ![e] = TRUE]
        /\ broken' = TRUE
        /\ write' = [write EXCEPT ![e] = "none"]
        /\ UNCHANGED <<writing, writeQueue>>
    BY <1>4 DEF WriteDone
  <2>2. closed[e]
    BY <1>2, <1>3, <1>4 DEF Sending
  <2>3. TypeInv'
    BY <1>2, <1>3, <2>1 DEF TypeInv, Operations
  <2>4. write'[e] # "pending" /\ read'[e] = read[e]
    BY <1>2, <1>3, <2>1 DEF TypeInv
  <2>5. Aside(f) /\ read'[f] = read[f]
    BY <1>1, <1>2, <1>3, <2>1 DEF Aside, TypeInv
  <2> QED
    BY <1>3, <2>1, <2>2, <2>3, <2>4, <2>5, ClosedKeeps
<1>5. CASE writeQueue[e] # <<>>
  <2>1. PICK rest : rest = Tail(writeQueue[e])
    OBVIOUS
  <2>2. PICK n \in Nat, l \in Nat : n = sent[e] /\ l = Len(writeQueue[e])
    <3>1. sent[e] \in Nat /\ writeQueue[e] \in Seq(Seq(Byte))
      BY <1>2 DEF TypeInv
    <3> QED
      BY <3>1, LenProperties
  <2>3. /\ rest \in Seq(Seq(Byte)) /\ l # 0 /\ Len(rest) = l - 1
        /\ \A j \in 1 .. l - 1 : rest[j] = writeQueue[e][j + 1]
    <3>1. writeQueue[e] \in Seq(Seq(Byte))
      BY <1>2 DEF TypeInv
    <3>2. rest \in Seq(Seq(Byte)) /\ Len(rest) = l - 1
          /\ \A j \in 1 .. l - 1 : rest[j] = writeQueue[e][j + 1]
      BY <1>5, <2>1, <2>2, <3>1, HeadTailProperties
    <3>3. l # 0
      BY <1>5, <2>2, <3>1, EmptySeq
    <3> QED
      BY <3>2, <3>3
  <2>4. /\ writeQueue' = [writeQueue EXCEPT ![e] = rest]
        /\ UNCHANGED <<undefined, broken>>
        /\ closed[e] \/ rest = <<>> => /\ writing' = [writing EXCEPT ![e] = FALSE]
                                       /\ write' = [write EXCEPT ![e] = "none"]
        /\ ~ (closed[e] \/ rest = <<>>) => /\ writing' = [writing EXCEPT ![e] = TRUE]
                                           /\ write' = [write EXCEPT ![e] = "pending"]
    BY <1>5, <2>1 DEF WriteDone, DoWrite
  <2>5. TypeInv'
    BY <1>2, <1>3, <2>3, <2>4 DEF TypeInv, Operations
  <2>6. Aside(f) /\ read'[f] = read[f] /\ writeQueue'[e] = rest /\ write'[e] # "done"
        /\ write'[e] # "aborted"
    BY <1>1, <1>2, <1>3, <2>4 DEF Aside, TypeInv
  <2>7. Sending(e)'
    <3>1. Count(e)' = Count(e)
      BY <1>3, SameTalk
    <3>2. CASE closed[e]
      <4>1. write'[e] = "none"
        BY <1>2, <2>4, <3>2 DEF TypeInv
      <4> QED
        BY <1>2, <1>3, <2>4, <3>1, <3>2, <4>1 DEF Sending
    <3>3. CASE ~ closed[e]
      <4>1. (writing'[e] <=> write'[e] = "pending") /\ (writing'[e] <=> rest # <<>>)
        BY <1>2, <2>4, <3>3 DEF TypeInv
      <4>2. l <= n /\ \A j \in 1 .. l : writeQueue[e][j] = Made(e, n - l + j)
        BY <1>2, <2>2, <3>3, Zenon DEF Sending, Queued
      <4>3. \A j \in 1 .. l - 1 : rest[j] = Made(e, n - (l - 1) + j)
        <5> TAKE j \in 1 .. l - 1
        <5>1. j + 1 \in 1 .. l /\ n - l + (j + 1) = n - (l - 1) + j
          OBVIOUS
        <5> QED
          BY <2>3, <4>2, <5>1
      <4>4. Queued(e)'
        <5>1. \A i : Made(e, i)' = Made(e, i)
          BY <1>3, SameTalk
        <5>2. l - 1 <= n
          BY <4>2
        <5>3. sent'[e] = n /\ Len(writeQueue'[e]) = l - 1
          BY <1>3, <2>2, <2>3, <2>6
        <5> QED
          BY <2>6, <4>3, <5>1, <5>2, <5>3, Zenon DEF Queued
      <4> QED
        BY <1>2, <1>3, <2>4, <2>6, <3>1, <3>3, <4>1, <4>4 DEF Sending
    <3> QED
      BY <3>2, <3>3
  <2>8. Reading(e)'
    <3>1. Transmitted(f)' = Transmitted(f)
      BY <2>6, <1>1, TransmittedFrame
    <3>2. sent'[f] \in Nat /\ sent[f] <= sent'[f]
      BY <1>1, <1>2, <1>3 DEF TypeInv
    <3> QED
      BY <1>2, <1>3, <2>4, <3>1, <3>2, ReadingFrame
  <2>9. Reading(f)'
    <3>1. Transmitted(e)' = Transmitted(e)
      <4>1. Transmitted(e) = n - l + 1
        BY <1>3, <2>2 DEF Transmitted
      <4>2. Transmitted(e)' = n - (l - 1) + 0
        BY <1>3, <2>2, <2>3, <2>6 DEF Transmitted
      <4> QED
        BY <4>1, <4>2
    <3>2. sent'[e] \in Nat /\ sent[e] <= sent'[e]
      BY <1>2, <1>3 DEF TypeInv
    <3> QED
      BY <1>1, <1>2, <1>3, <2>4, <3>1, <3>2, ReadingFrame
  <2> QED
    BY <1>3, <2>4, <2>5, <2>6, <2>7, <2>8, <2>9, OneEndMoves
<1> QED
  BY <1>4, <1>5

\* What a step has to show that has to do with reading only.
LEMMA ReaderMoves ==
    ASSUME Inv, NEW e \in Ends, TypeInv',
           UNCHANGED <<talk, payloads, writeVars, closed, broken, undefined>>,
           read'[e] \notin {"none", "aborted"} \/ closed[e], Reading(e)',
           LET f == Peer(e)
           IN  /\ handled'[f] = handled[f] /\ expects'[f] = expects[f]
               /\ readHeader'[f] = readHeader[f] /\ readBuffer'[f] = readBuffer[f]
               /\ stream'[f] = stream[f] /\ read'[f] = read[f]
    PROVE  Inv'
<1>1. PICK f \in Ends : f = Peer(e) /\ f # e /\ Peer(f) = e
  BY Peers
<1>2. TypeInv /\ Sending(e) /\ Reading(f)
  BY DEF Inv
<1>3. Aside(e) /\ Aside(f)
  BY DEF Aside, writeVars
<1>4. Sending(e)'
  BY <1>2, <1>3, SendingFrame
<1>5. Reading(f)'
  <2>1. Transmitted(e)' = Transmitted(e)
    BY <1>3, TransmittedFrame
  <2>2. sent'[e] \in Nat /\ sent[e] <= sent'[e]
    BY <1>2 DEF TypeInv, writeVars
  <2> QED
    BY <1>1, <1>2, <2>1, <2>2, ReadingFrame
<1>6. Aside(Peer(e)) /\ read'[Peer(e)] = read[Peer(e)] /\ Reading(Peer(e))'
  BY <1>1, <1>3, <1>5, Zenon
<1> QED
  BY <1>4, <1>6, OneEndMoves

\* What is asked for is cut off the front of what is under way.
CutOff(wire, p, m, w, under) ==
    /\ p + w <= m
    /\ SubSeq(under, 1, w) = SubSeq(wire, p + 1, p + w)
    /\ Drop(under, w) = SubSeq(wire, p + w + 1, m)

\* The kernel cuts what is asked for off the front of what is under way.
LEMMA Taken ==
    ASSUME NEW wire \in Seq(Byte), NEW p \in Nat, NEW m \in Nat, p <= m, m <= Len(wire),
           NEW w \in Nat, NEW under, under = SubSeq(wire, p + 1, m), Len(under) >= w
    PROVE  CutOff(wire, p, m, w, under)
<1>1. PICK l \in Nat : l = m - p
  OBVIOUS
<1>2. Len(under) = l
  BY <1>1, Slice
<1>3. p + w <= m
  BY <1>1, <1>2
<1>4. SubSeq(SubSeq(wire, p + 1, m), 1, w) = SubSeq(wire, p + 1, p + w)
  BY <1>1, <1>3, Cut
<1>5. SubSeq(SubSeq(wire, p + 1, m), w + 1, l) = SubSeq(wire, p + w + 1, m)
  BY <1>1, <1>3, Cut
<1> QED
  BY <1>2, <1>3, <1>4, <1>5, Zenon DEF Drop, CutOff

\* What an end knows of the tape it reads.
LEMMA ReaderKnows ==
    ASSUME Inv, NEW r \in Ends, NEW k, NEW at, NEW wire, NEW m, Following(r, k, at, wire, m)
    PROVE  /\ Len(handled[r]) \in Nat /\ k \in Nat /\ m \in Nat /\ m <= Len(wire)
           /\ k \in Len(handled[r]) .. sent[Peer(r)] /\ k <= Count(Peer(r))
           /\ wire \in Seq(Byte) /\ Len(wire) = at[k] /\ Len(wire) \in Nat
           /\ at[Len(handled[r])] \in Nat
           /\ Tape(Peer(r), k, at, wire)
           /\ ~ broken => k = Transmitted(Peer(r)) /\ m = Len(wire)
<1>1. PICK f \in Ends : f = Peer(r)
  BY Peers
<1>2. PICK h \in Nat : h = Len(handled[r])
  BY DEF Inv, Reading, Handed
<1>3. k \in h .. sent[f] /\ Tape(f, k, at, wire) /\ m \in 0 .. Len(wire)
      /\ (~ broken => k = Transmitted(Peer(r)) /\ m = Len(wire))
  BY <1>1, <1>2, Zenon DEF Following
<1>4. sent[f] \in Nat /\ sent[f] <= Count(f) /\ Count(f) \in Nat
  BY Packets DEF Inv, Sending, TypeInv
<1>5. wire \in Seq(Byte) /\ Len(wire) = at[k] /\ at \in [0 .. k -> Nat]
  BY <1>3, Zenon DEF Tape
<1>6. Len(wire) \in Nat
  BY <1>5, LenProperties
<1>7. k \in Nat /\ m \in Nat /\ m <= Len(wire) /\ k <= Count(f) /\ at[h] \in Nat
  BY <1>2, <1>3, <1>4, <1>5, <1>6
<1> QED
  BY <1>1, <1>2, <1>3, <1>5, <1>6, <1>7, Zenon

\* A read that is done has taken the next header, or the payload behind it, and nothing else.
LEMMA ReceiveReading ==
    ASSUME Inv, NEW e \in Ends, Receive(e), TypeInv'
    PROVE  Reading(e)'
<1>1. PICK f \in Ends : f = Peer(e)
  BY Peers
<1>2. TypeInv /\ Script /\ Reading(e)
  BY DEF Inv
<1>3. PICK k, at, wire, m : Following(e, k, at, wire, m)
  BY <1>2, Zenon DEF Reading
<1>4. PICK h \in Nat : h = Len(handled[e])
  BY <1>2 DEF Reading, Handed
<1>5. /\ k \in Nat /\ m \in Nat /\ m <= Len(wire)
      /\ k \in h .. sent[f] /\ k <= Count(f)
      /\ wire \in Seq(Byte) /\ Len(wire) = at[k] /\ Len(wire) \in Nat
      /\ at[h] \in Nat
      /\ Tape(f, k, at, wire)
      /\ (~ broken => k = Transmitted(f) /\ m = Len(wire))
  BY <1>1, <1>3, <1>4, ReaderKnows
<1>6. PICK w, under : w = Wanted(e) /\ under = stream[e]
  OBVIOUS
<1>7. /\ read[e] = "pending" /\ read'[e] = "done"
      /\ readBuffer'[e] = SubSeq(under, 1, w)
      /\ stream'[e] = Drop(under, w)
      /\ Len(under) >= w
      /\ UNCHANGED <<talk, payloads, sent, writeQueue, write, expects, readHeader, broken, handled>>
  BY <1>2, <1>6 DEF Receive, TypeInv, writeVars
<1>8. HeaderSize \in Nat /\ HeaderSize # 0
  BY DEF HeaderSize
<1>9. h < k => /\ at[h + 1] = at[h] + HeaderSize + Len(payloads[f][h + 1])
               /\ SubSeq(wire, at[h] + 1, at[h] + HeaderSize)
                      = SubSeq(Made(f, h + 1), 1, HeaderSize)
               /\ SubSeq(wire, at[h] + HeaderSize + 1, at[h + 1]) = payloads[f][h + 1]
  <2> HAVE h < k
  <2>1. PacketAt(f, at, wire, h)
    BY <1>2, <1>5, TapeHoldsPackets
  <2> QED
    BY <2>1, Zenon DEF PacketAt
<1>10. h < k => /\ Len(payloads[f][h + 1]) \in Nat
                /\ HeaderOf(f, h + 1).payloadLength = Len(payloads[f][h + 1])
  <2>1. h < k => h + 1 \in 1 .. Count(f)
    <3>1. Count(f) \in Nat
      BY <1>2, Packets
    <3> QED
      BY <1>5, <3>1
  <2> QED
    BY <1>2, <2>1, Packets
<1>11. CASE Header(e)
  <2>1. w = HeaderSize /\ under = SubSeq(wire, at[h] + 1, m) /\ at[h] <= m
    BY <1>3, <1>4, <1>6, <1>7, <1>11 DEF Following, Wanted, Header
  <2>2. /\ at[h] + HeaderSize <= m
        /\ readBuffer'[e] = SubSeq(wire, at[h] + 1, at[h] + HeaderSize)
        /\ stream'[e] = SubSeq(wire, at[h] + HeaderSize + 1, m)
    <3>1. PICK p \in Nat : p = at[h]
      BY <1>5
    <3>2. under = SubSeq(wire, p + 1, m) /\ p <= m /\ Len(under) >= HeaderSize
      BY <1>7, <2>1, <3>1
    <3>3. CutOff(wire, p, m, HeaderSize, under)
      BY <1>5, <1>8, <3>2, Taken
    <3> QED
      BY <1>7, <2>1, <3>1, <3>3, Zenon DEF CutOff
  <2>3. h < k
    <3>1. h # k
      BY <1>5, <1>8, <2>2
    <3> QED
      BY <1>5, <3>1
  <2>4. readBuffer'[e] = SubSeq(Made(f, h + 1), 1, HeaderSize)
    BY <1>9, <2>2, <2>3, Zenon
  <2>5. Tape(f, k, at, wire)' /\ \A i : Made(f, i)' = Made(f, i)
    BY <1>5, <1>7, SameTalk, Zenon
  <2>6. Peer(e) = f /\ Header(e)' /\ Len(handled'[e]) = h /\ Transmitted(f)' = Transmitted(f)
    BY <1>1, <1>4, <1>7, <1>11 DEF Header, Transmitted
  <2>7. m \in 0 .. Len(wire) /\ k \in h .. sent'[f]
    BY <1>5, <1>7
  <2>8. Following(e, k, at, wire, m)'
    BY <1>5, <1>7, <2>2, <2>3, <2>4, <2>5, <2>6, <2>7, Zenon DEF Following, Peer
  <2> QED
    <3>1. Handed(e)'
      BY <1>2, <1>7, SameTalk DEF Reading, Handed, Peer
    <3> QED
      BY <2>8, <3>1, Zenon DEF Reading
<1>12. CASE ~ Header(e)
  <2>1. w = readHeader[e].payloadLength /\ under = SubSeq(wire, at[h] + HeaderSize + 1, m)
        /\ h < k /\ at[h] + HeaderSize <= m /\ readHeader[e] = HeaderOf(f, h + 1)
    BY <1>1, <1>3, <1>4, <1>6, <1>7, <1>12 DEF Following, Wanted, Header
  <2>2. PICK p \in Nat : p = at[h] + HeaderSize
    BY <1>5, <1>8
  <2>3. w \in Nat /\ at[h + 1] = p + w
    BY <1>9, <1>10, <2>1, <2>2
  <2>4. /\ p + w <= m
        /\ readBuffer'[e] = SubSeq(wire, p + 1, p + w)
        /\ stream'[e] = SubSeq(wire, p + w + 1, m)
    <3>1. under = SubSeq(wire, p + 1, m) /\ p <= m /\ Len(under) >= w
      BY <1>7, <2>1, <2>2
    <3>2. CutOff(wire, p, m, w, under)
      BY <1>5, <2>3, <3>1, Taken
    <3> QED
      BY <1>7, <3>2, Zenon DEF CutOff
  <2>5. /\ at[h + 1] <= m
        /\ readBuffer'[e] = payloads[f][h + 1]
        /\ stream'[e] = SubSeq(wire, at[h + 1] + 1, m)
    BY <1>9, <2>1, <2>2, <2>3, <2>4, Zenon
  <2>6. Tape(f, k, at, wire)' /\ \A i : HeaderOf(f, i)' = HeaderOf(f, i)
    BY <1>5, <1>7, SameTalk, Zenon
  <2>7. Peer(e) = f /\ ~ Header(e)' /\ Len(handled'[e]) = h /\ Transmitted(f)' = Transmitted(f)
    BY <1>1, <1>4, <1>7, <1>12 DEF Header, Transmitted
  <2>8. m \in 0 .. Len(wire) /\ k \in h .. sent'[f]
    BY <1>5, <1>7
  <2>9. Following(e, k, at, wire, m)'
    BY <1>5, <1>7, <2>1, <2>5, <2>6, <2>7, <2>8, Zenon DEF Following, Peer
  <2> QED
    <3>1. Handed(e)'
      BY <1>2, <1>7, SameTalk DEF Reading, Handed, Peer
    <3> QED
      BY <2>9, <3>1, Zenon DEF Reading
<1> QED
  BY <1>11, <1>12

\* The kernel has as many bytes as a read asks for.
LEMMA ReceiveKeeps ==
    ASSUME Inv, NEW e \in Ends, Receive(e)
    PROVE  Inv'
<1> DEFINE f == Peer(e)
<1>1. f \in Ends /\ f # e
  BY Peers
<1>2. TypeInv /\ Script /\ Reading(e)
  BY DEF Inv
<1>3. PICK w, under : w = Wanted(e) /\ under = stream[e]
  OBVIOUS
<1>4. PICK taken, left : taken = SubSeq(under, 1, w) /\ left = Drop(under, w)
  OBVIOUS
<1>5. /\ readBuffer' = [readBuffer EXCEPT ![e] = taken]
      /\ stream' = [stream EXCEPT ![e] = left]
      /\ read' = [read EXCEPT ![e] = "done"]
      /\ UNCHANGED <<talk, payloads, writeVars, closed, expects, readHeader, broken, handled,
                     undefined>>
  BY <1>3, <1>4 DEF Receive
<1>6. under \in Seq(Byte) /\ Len(under) >= w /\ w \in Nat
  <2>1. under \in Seq(Byte) /\ Len(under) >= w
    BY <1>2, <1>3 DEF TypeInv, Receive
  <2>2. w \in Nat
    <3>1. CASE Header(e)
      BY <1>3, <3>1 DEF Header, Wanted, HeaderSize
    <3>2. CASE ~ Header(e)
      <4>1. PICK k, at, wire, m : Following(e, k, at, wire, m)
        BY <1>2, Zenon DEF Reading
      <4>2. PICK h \in Nat : h = Len(handled[e])
        BY <1>2 DEF Reading, Handed
      <4>3. h < k /\ readHeader[e] = HeaderOf(f, h + 1)
        BY <3>2, <4>1, <4>2, Zenon DEF Following, Receive
      <4>4. k \in Nat /\ k <= Count(f)
        BY <4>1, ReaderKnows
      <4>5. Count(f) \in Nat
        BY <1>1, <1>2, Packets
      <4>6. h + 1 \in 1 .. Count(f)
        BY <4>2, <4>3, <4>4, <4>5
      <4>7. HeaderOf(f, h + 1).payloadLength \in Nat
        BY <1>1, <1>2, <4>6, Packets
      <4> QED
        BY <1>3, <3>2, <4>3, <4>7, Zenon DEF Header, Wanted
    <3> QED
      BY <3>1, <3>2
  <2> QED
    BY <2>1, <2>2
<1>7. taken \in Seq(Byte) /\ left \in Seq(Byte)
  <2>1. Len(under) \in Nat
    BY <1>6, LenProperties
  <2>2. 1 \in 1 .. Len(under) + 1 /\ w \in 1 - 1 .. Len(under)
        /\ w + 1 \in 1 .. Len(under) + 1 /\ Len(under) \in (w + 1) - 1 .. Len(under)
    BY <1>6, <2>1
  <2>3. taken \in Seq(Byte)
    BY <1>4, <1>6, <2>2, SubSeqFacts, Zenon
  <2>4. left \in Seq(Byte)
    BY <1>4, <1>6, <2>2, SubSeqFacts, Zenon DEF Drop
  <2> QED
    BY <2>3, <2>4
<1>8. TypeInv'
  BY <1>2, <1>5, <1>7 DEF TypeInv, Operations, writeVars
<1>9. Reading(e)'
  BY <1>8, ReceiveReading
<1>10. read'[e] = "done"
  BY <1>2, <1>5 DEF TypeInv
<1>11. /\ handled'[f] = handled[f] /\ expects'[f] = expects[f]
       /\ readHeader'[f] = readHeader[f] /\ readBuffer'[f] = readBuffer[f]
       /\ stream'[f] = stream[f] /\ read'[f] = read[f]
  BY <1>1, <1>2, <1>5 DEF TypeInv
<1> QED
  BY <1>5, <1>8, <1>9, <1>10, <1>11, ReaderMoves

\* One more packet that is handled.
LEMMA OneMore ==
    ASSUME NEW h \in Nat, NEW list, NEW full, NEW D,
           list = [i \in 1 .. h |-> full[i]], D = full[h + 1]
    PROVE  /\ Append(list, D) = [i \in 1 .. h + 1 |-> full[i]]
           /\ Len(Append(list, D)) = h + 1
<1>1. PICK S : S = { full[i] : i \in 1 .. h + 1 }
  OBVIOUS
<1>2. list \in Seq(S) /\ D \in S /\ Len(list) = h
  <2>1. \A i \in 1 .. h : full[i] \in S
    BY <1>1
  <2>2. h + 1 \in 1 .. h + 1
    OBVIOUS
  <2> QED
    BY <1>1, <2>1, <2>2
<1>3. PICK longer : longer = [i \in 1 .. h + 1 |-> full[i]]
  OBVIOUS
<1>4. longer \in Seq(S) /\ Len(longer) = h + 1
  BY <1>1, <1>3
<1>5. /\ Append(list, D) \in Seq(S) /\ Len(Append(list, D)) = h + 1
      /\ \A i \in 1 .. h : Append(list, D)[i] = list[i]
      /\ Append(list, D)[h + 1] = D
  BY <1>2, AppendProperties
<1>6. \A i \in 1 .. h + 1 : Append(list, D)[i] = longer[i]
  <2> TAKE i \in 1 .. h + 1
  <2>1. CASE i = h + 1
    BY <1>3, <1>5, <2>1
  <2>2. CASE i \in 1 .. h
    BY <1>3, <1>5, <2>2
  <2> QED
    BY <2>1, <2>2
<1>7. Append(list, D) = longer
  BY <1>4, <1>5, <1>6, SeqEqual
<1> QED
  BY <1>3, <1>5, <1>7

\* A packet has been read, and the next header is awaited.
LEMMA HandleReading ==
    ASSUME Inv, NEW e \in Ends, TypeInv',
           UNCHANGED <<talk, payloads, writeVars, broken, stream>>,
           NEW k, NEW at, NEW wire, NEW m, Following(e, k, at, wire, m),
           NEW h \in Nat, h = Len(handled[e]), h < k,
           at[h + 1] <= m, stream[e] = SubSeq(wire, at[h + 1] + 1, m),
           handled'[e] = Append(handled[e], Delivery(Peer(e), h + 1)),
           expects'[e] = "header", read'[e] \in {"pending", "aborted"}
    PROVE  Reading(e)'
<1>1. PICK f \in Ends : f = Peer(e)
  BY Peers
<1>2. TypeInv /\ Script /\ Reading(e)
  BY DEF Inv
<1>3. /\ k \in Nat /\ m \in Nat /\ m <= Len(wire)
      /\ k \in h .. sent[f] /\ k <= Count(f)
      /\ wire \in Seq(Byte) /\ Len(wire) = at[k] /\ Len(wire) \in Nat
      /\ Tape(f, k, at, wire)
      /\ (~ broken => k = Transmitted(f) /\ m = Len(wire))
  BY <1>1, ReaderKnows
<1>4. /\ handled'[e] = [i \in 1 .. h + 1 |-> Delivery(f, i)]
      /\ Len(handled'[e]) = h + 1
  <2>1. PICK full : full = [i \in 1 .. h + 1 |-> Delivery(f, i)]
    OBVIOUS
  <2>2. handled[e] = [i \in 1 .. h |-> Delivery(f, i)]
    BY <1>1, <1>2 DEF Reading, Handed
  <2>3. handled[e] = [i \in 1 .. h |-> full[i]] /\ Delivery(f, h + 1) = full[h + 1]
    BY <2>1, <2>2
  <2>4. Append(handled[e], Delivery(f, h + 1)) = [i \in 1 .. h + 1 |-> full[i]]
        /\ Len(Append(handled[e], Delivery(f, h + 1))) = h + 1
    BY <2>3, OneMore
  <2>5. [i \in 1 .. h + 1 |-> full[i]] = [i \in 1 .. h + 1 |-> Delivery(f, i)]
    BY <2>1
  <2> QED
    BY <1>1, <2>4, <2>5, Zenon
<1>5. Handed(e)'
  <2>1. \A i : Delivery(Peer(e), i)' = Delivery(Peer(e), i)
    BY SameTalk, Zenon DEF Peer
  <2> QED
    BY <1>1, <1>4, <2>1 DEF Handed, Peer
<1>6. Following(e, k, at, wire, m)'
  <2>1. Tape(f, k, at, wire)'
    BY <1>3, SameTalk, Zenon
  <2>2. Peer(e) = f /\ Header(e)' /\ Transmitted(f)' = Transmitted(f)
    BY <1>1 DEF Header, Transmitted, writeVars
  <2>3. m \in 0 .. Len(wire) /\ k \in h + 1 .. sent'[f]
    BY <1>3 DEF writeVars
  <2>4. read'[e] # "done"
    OBVIOUS
  <2> QED
    BY <1>3, <1>4, <2>1, <2>2, <2>3, <2>4, Zenon DEF Following, Peer
<1> QED
  BY <1>5, <1>6, Zenon DEF Reading

\* The completion handler of readHeader: the payload is read next, or there is none.
LEMMA HeaderDoneKeeps ==
    ASSUME Inv, NEW e \in Ends, HeaderDone(e)
    PROVE  Inv'
<1> DEFINE f == Peer(e)
<1>1. f \in Ends /\ f # e
  BY Peers
<1>2. TypeInv /\ Script /\ Reading(e)
  BY DEF Inv
<1>3. PICK header, next : header = DecodeHeader(readBuffer[e])
                          /\ next = IF closed[e] THEN "aborted" ELSE "pending"
  OBVIOUS
<1>4. next \in {"pending", "aborted"} /\ (next = "aborted" => closed[e])
  BY <1>3
<1>5. /\ read[e] = "done" /\ expects[e] = "header"
      /\ readHeader' = [readHeader EXCEPT ![e] = header]
      /\ readBuffer' = [readBuffer EXCEPT ![e] = <<>>]
      /\ read' = [read EXCEPT ![e] = next]
      /\ UNCHANGED <<talk, payloads, writeVars, closed, stream, broken, undefined>>
      /\ \/ /\ header.payloadLength = 0
            /\ handled' = [handled EXCEPT ![e] = Append(@, [header |-> header, payload |-> <<>>])]
            /\ expects' = [expects EXCEPT ![e] = "header"]
         \/ /\ header.payloadLength # 0
            /\ handled' = handled
            /\ expects' = [expects EXCEPT ![e] = "payload"]
  BY <1>3 DEF HeaderDone, Handle, StartRead
<1>6. <<>> \in Seq(Byte)
  BY EmptySeq
<1>7. TypeInv'
  BY <1>2, <1>4, <1>5, <1>6 DEF TypeInv, Operations, writeVars
<1>8. /\ handled'[f] = handled[f] /\ expects'[f] = expects[f]
      /\ readHeader'[f] = readHeader[f] /\ readBuffer'[f] = readBuffer[f]
      /\ stream'[f] = stream[f] /\ read'[f] = read[f] /\ read'[e] = next
      /\ readHeader'[e] = header
  BY <1>1, <1>2, <1>5 DEF TypeInv
<1>9. PICK k, at, wire, m : Following(e, k, at, wire, m)
  BY <1>2, Zenon DEF Reading
<1>10. PICK h \in Nat : h = Len(handled[e])
  BY <1>2 DEF Reading, Handed
<1>11. /\ k \in Nat /\ m \in Nat /\ m <= Len(wire)
       /\ k \in h .. sent[f] /\ k <= Count(f)
       /\ wire \in Seq(Byte) /\ Len(wire) \in Nat
       /\ at[h] \in Nat
       /\ Tape(f, k, at, wire)
       /\ (~ broken => k = Transmitted(f) /\ m = Len(wire))
  BY <1>1, <1>9, <1>10, ReaderKnows
<1>12. /\ h < k
       /\ at[h] + HeaderSize <= m
       /\ stream[e] = SubSeq(wire, at[h] + HeaderSize + 1, m)
       /\ readBuffer[e] = SubSeq(Made(f, h + 1), 1, HeaderSize)
  BY <1>5, <1>9, <1>10, Zenon DEF Following, Header
<1>13. header = HeaderOf(f, h + 1)
  BY <1>3, <1>12, Zenon DEF HeaderOf
<1>14. Reading(e)'
  <2>1. CASE header.payloadLength = 0
    <3>1. Count(f) \in Nat
      BY <1>1, <1>2, Packets
    <3>2. h + 1 \in 1 .. Count(f)
      BY <1>11, <1>12, <3>1
    <3>3. payloads[f][h + 1] \in Seq(Byte) /\ Len(payloads[f][h + 1]) = header.payloadLength
      BY <1>1, <1>2, <1>13, <3>2, Packets
    <3>4. payloads[f][h + 1] = <<>>
      BY <2>1, <3>3, EmptySeq
    <3>5. handled'[e] = Append(handled[e], Delivery(Peer(e), h + 1)) /\ expects'[e] = "header"
      BY <1>2, <1>5, <1>13, <2>1, <3>4 DEF TypeInv, Delivery
    <3>6. at[h + 1] = at[h] + HeaderSize
      <4>1. PacketAt(f, at, wire, h)
        BY <1>1, <1>2, <1>11, <1>12, TapeHoldsPackets
      <4>2. at[h + 1] = at[h] + HeaderSize + Len(payloads[f][h + 1])
        BY <4>1, Zenon DEF PacketAt
      <4>3. Len(payloads[f][h + 1]) = 0
        BY <2>1, <3>3
      <4>4. at[h] + HeaderSize \in Nat
        BY <1>11 DEF HeaderSize
      <4> QED
        BY <4>2, <4>3, <4>4
    <3>7. at[h + 1] <= m /\ stream[e] = SubSeq(wire, at[h + 1] + 1, m)
      BY <1>12, <3>6, Zenon
    <3>8. read'[e] \in {"pending", "aborted"}
      BY <1>4, <1>8
    <3> QED
      BY <1>5, <1>7, <1>9, <1>10, <1>12, <3>5, <3>7, <3>8, HandleReading
  <2>2. CASE header.payloadLength # 0
    <3>1. handled' = handled /\ expects'[e] = "payload"
      BY <1>2, <1>5, <2>2 DEF TypeInv
    <3>2. Tape(f, k, at, wire)' /\ \A i : HeaderOf(f, i)' = HeaderOf(f, i)
      BY <1>5, <1>11, SameTalk, Zenon
    <3>3. Peer(e) = f /\ ~ Header(e)' /\ Transmitted(f)' = Transmitted(f) /\ Len(handled'[e]) = h
      BY <1>5, <1>10, <3>1 DEF Header, Transmitted, writeVars
    <3>4. m \in 0 .. Len(wire) /\ k \in h .. sent'[f] /\ read'[e] # "done"
      BY <1>4, <1>5, <1>8, <1>11 DEF writeVars
    <3>5. stream' = stream /\ (broken' <=> broken)
      BY <1>5
    <3>6. Following(e, k, at, wire, m)'
      BY <1>8, <1>11, <1>12, <1>13, <3>2, <3>3, <3>4, <3>5, Zenon DEF Following, Peer
    <3>7. Handed(e)'
      BY <1>2, <1>5, <3>1, SameTalk DEF Reading, Handed, Peer
    <3> QED
      BY <3>6, <3>7, Zenon DEF Reading
  <2> QED
    BY <2>1, <2>2
<1>15. read'[e] \notin {"none", "aborted"} \/ closed[e]
  BY <1>4, <1>8
<1> QED
  BY <1>5, <1>7, <1>8, <1>14, <1>15, ReaderMoves

\* The completion handler of readPayload.
LEMMA PayloadDoneKeeps ==
    ASSUME Inv, NEW e \in Ends, PayloadDone(e)
    PROVE  Inv'
<1> DEFINE f == Peer(e)
<1>1. f \in Ends /\ f # e
  BY Peers
<1>2. TypeInv /\ Script /\ Reading(e)
  BY DEF Inv
<1>3. PICK next : next = IF closed[e] THEN "aborted" ELSE "pending"
  OBVIOUS
<1>4. next \in {"pending", "aborted"} /\ (next = "aborted" => closed[e])
  BY <1>3
<1>5. /\ read[e] = "done" /\ ~ Header(e)
      /\ handled' = [handled EXCEPT ![e] =
                        Append(@, [header |-> readHeader[e], payload |-> readBuffer[e]])]
      /\ expects' = [expects EXCEPT ![e] = "header"]
      /\ readBuffer' = [readBuffer EXCEPT ![e] = <<>>]
      /\ read' = [read EXCEPT ![e] = next]
      /\ UNCHANGED <<talk, payloads, writeVars, closed, readHeader, stream, broken, undefined>>
  BY <1>3 DEF PayloadDone, Handle, StartRead, Header
<1>6. <<>> \in Seq(Byte)
  BY EmptySeq
<1>7. TypeInv'
  BY <1>2, <1>4, <1>5, <1>6 DEF TypeInv, Operations, writeVars
<1>8. /\ handled'[f] = handled[f] /\ expects'[f] = expects[f]
      /\ readHeader'[f] = readHeader[f] /\ readBuffer'[f] = readBuffer[f]
      /\ stream'[f] = stream[f] /\ read'[f] = read[f]
  BY <1>1, <1>2, <1>5 DEF TypeInv
<1>9. PICK k, at, wire, m : Following(e, k, at, wire, m)
  BY <1>2, Zenon DEF Reading
<1>10. PICK h \in Nat : h = Len(handled[e])
  BY <1>2 DEF Reading, Handed
<1>11. /\ h < k
       /\ at[h + 1] <= m
       /\ stream[e] = SubSeq(wire, at[h + 1] + 1, m)
       /\ readHeader[e] = HeaderOf(f, h + 1)
       /\ readBuffer[e] = payloads[f][h + 1]
  BY <1>5, <1>9, <1>10, Zenon DEF Following
<1>12. handled'[e] = Append(handled[e], Delivery(Peer(e), h + 1)) /\ expects'[e] = "header"
       /\ read'[e] = next
  BY <1>2, <1>5, <1>11 DEF TypeInv, Delivery
<1>13. read'[e] \in {"pending", "aborted"} /\ (read'[e] \notin {"none", "aborted"} \/ closed[e])
  BY <1>4, <1>12
<1>14. Reading(e)'
  BY <1>5, <1>7, <1>9, <1>10, <1>11, <1>12, <1>13, HandleReading
<1> QED
  BY <1>5, <1>7, <1>8, <1>13, <1>14, ReaderMoves

\* A header that is not valid: the connection is closed.
LEMMA HeaderInvalidKeeps ==
    ASSUME Inv, NEW e \in Ends, HeaderInvalid(e)
    PROVE  Inv'
<1>1. Peer(e) \in Ends /\ Peer(e) # e
  BY Peers
<1>2. TypeInv /\ Sending(e)
  BY DEF Inv
<1>3. CASE closed[e]
  <2>1. /\ read' = [read EXCEPT ![e] = "none"]
        /\ UNCHANGED <<talk, payloads, writeVars, closed, expects, readHeader, readBuffer, stream,
                       broken, handled, undefined>>
    BY <1>3 DEF HeaderInvalid
  <2>2. TypeInv' /\ read'[e] = "none" /\ read'[Peer(e)] = read[Peer(e)]
    BY <1>1, <1>2, <2>1 DEF TypeInv, Operations, writeVars
  <2>3. broken /\ write[e] # "pending"
    BY <1>2, <1>3 DEF Sending
  <2>4. Aside(Peer(e))
    BY <2>1 DEF Aside, writeVars
  <2>5. broken' /\ closed'[e] /\ write'[e] # "pending" /\ read'[e] \in {read[e], "none", "aborted"}
    BY <1>3, <2>1, <2>2, <2>3 DEF writeVars
  <2> QED
    BY <2>1, <2>2, <2>4, <2>5, ClosedKeeps DEF writeVars
<1>4. CASE ~ closed[e]
  <2>1. Close(e, "none", write[e])
    BY <1>4 DEF HeaderInvalid
  <2> QED
    BY <2>1, CloseKeeps
<1> QED
  BY <1>3, <1>4

\* The lesser of two numbers.
LEMMA LesserOfTwo ==
    ASSUME NEW a \in Nat, NEW b \in Nat
    PROVE  Min({a, b}) \in 0 .. b
<1>1. \E x \in {a, b} : \A y \in {a, b} : x <= y
  <2>1. CASE a <= b
    BY <2>1
  <2>2. CASE b <= a
    BY <2>2
  <2> QED
    BY <2>1, <2>2
<1>2. Min({a, b}) \in {a, b} /\ \A y \in {a, b} : Min({a, b}) <= y
  BY <1>1 DEF Min
<1> QED
  BY <1>2

\* What is left of the bytes under way is still a piece of the tape.
LEMMA BreakReading ==
    ASSUME Inv, Break, NEW r \in Ends
    PROVE  Reading(r)' /\ stream'[r] \in Seq(Byte)
<1>1. PICK f \in Ends : f = Peer(r)
  BY Peers
<1>2. TypeInv /\ Script /\ Reading(r)
  BY DEF Inv
<1>3. PICK n \in Cuts : stream' = [e \in Ends |-> SubSeq(stream[e], 1, Min({n, Len(stream[e])}))]
  BY DEF Break
<1>4. PICK under \in Seq(Byte) : under = stream[r]
  BY <1>2 DEF TypeInv
<1>5. PICK c : c = Min({n, Len(under)})
  OBVIOUS
<1>6. c \in 0 .. Len(under) /\ Len(under) \in Nat /\ stream'[r] = SubSeq(under, 1, c)
  <2>1. n \in Nat /\ Len(under) \in Nat
    BY CutsAssumption, LenProperties
  <2>2. Min({n, Len(under)}) \in 0 .. Len(under)
    BY <2>1, LesserOfTwo
  <2> QED
    BY <1>3, <1>4, <1>5, <2>1, <2>2
<1>7. /\ broken'
      /\ UNCHANGED <<talk, payloads, writeVars, closed, readVars, undefined>>
  BY DEF Break
<1>8. stream'[r] \in Seq(Byte)
  <2>1. 1 \in 1 .. Len(under) + 1 /\ c \in 1 - 1 .. Len(under)
    BY <1>6
  <2> QED
    BY <1>4, <1>6, <2>1, SubSeqFacts, Zenon
<1>9. PICK k, at, wire, m : Following(r, k, at, wire, m)
  BY <1>2, Zenon DEF Reading
<1>10. PICK h \in Nat : h = Len(handled[r])
  BY <1>2 DEF Reading, Handed
<1>11. /\ k \in Nat /\ m \in Nat /\ m <= Len(wire)
       /\ k \in h .. sent[f] /\ k <= Count(f)
       /\ wire \in Seq(Byte) /\ Len(wire) \in Nat
       /\ at[h] \in Nat
       /\ Tape(f, k, at, wire)
  BY <1>1, <1>9, <1>10, ReaderKnows
<1>12. Tape(f, k, at, wire)' /\ \A i : HeaderOf(f, i)' = HeaderOf(f, i) /\ Made(f, i)' = Made(f, i)
  BY <1>7, <1>11, SameTalk, Zenon
<1>13. /\ Peer(r) = f /\ (Header(r)' <=> Header(r)) /\ Len(handled'[r]) = h
       /\ k \in h .. sent'[f] /\ read'[r] = read[r] /\ readHeader'[r] = readHeader[r]
       /\ readBuffer'[r] = readBuffer[r] /\ payloads' = payloads
  BY <1>1, <1>7, <1>10, <1>11 DEF Header, readVars, writeVars
<1>14. \A p \in Nat : p <= m /\ under = SubSeq(wire, p + 1, m) =>
           /\ p + c \in 0 .. Len(wire) /\ p <= p + c
           /\ SubSeq(under, 1, c) = SubSeq(wire, p + 1, p + c)
  <2> TAKE p \in Nat
  <2> HAVE p <= m /\ under = SubSeq(wire, p + 1, m)
  <2>1. PICK l \in Nat : l = m - p
    OBVIOUS
  <2>2. Len(under) = l
    BY <1>11, <2>1, Slice
  <2>3. p + c <= m /\ c \in Nat /\ p + c \in 0 .. Len(wire) /\ p <= p + c
    BY <1>6, <1>11, <2>1, <2>2
  <2>4. SubSeq(SubSeq(wire, p + 1, m), 1, c) = SubSeq(wire, p + 1, p + c)
    BY <1>11, <2>1, <2>3, Cut
  <2> QED
    BY <2>3, <2>4, Zenon
<1>15. Handed(r)'
  BY <1>2, <1>7, SameTalk DEF Reading, Handed, Peer, readVars
<1>16. HeaderSize \in Nat
  BY DEF HeaderSize
<1>17. \E n1 : Following(r, k, at, wire, n1)'
  <2>1. CASE read[r] \notin {"pending", "done"}
    <3>1. m \in 0 .. Len(wire) /\ read'[r] # "pending" /\ read'[r] # "done"
      BY <1>11, <1>13, <2>1
    <3>2. Following(r, k, at, wire, m)'
      BY <1>7, <1>12, <1>13, <3>1, Zenon DEF Following, Peer
    <3> QED
      BY <3>2, Zenon
  <2>2. CASE read[r] = "pending" /\ Header(r)
    <3>1. at[h] <= m /\ under = SubSeq(wire, at[h] + 1, m)
      BY <1>4, <1>9, <1>10, <2>2, Zenon DEF Following
    <3>2. PICK p \in Nat : p = at[h]
      BY <1>11
    <3>3. p + c \in 0 .. Len(wire) /\ at[h] <= p + c /\ stream'[r] = SubSeq(wire, at[h] + 1, p + c)
      BY <1>6, <1>14, <3>1, <3>2, Zenon
    <3>4. read'[r] # "done"
      BY <1>13, <2>2
    <3>5. Following(r, k, at, wire, p + c)'
      BY <1>7, <1>12, <1>13, <2>2, <3>3, <3>4, Zenon DEF Following, Peer
    <3> QED
      BY <3>5, Zenon
  <2>3. CASE read[r] = "done" /\ Header(r)
    <3>1. /\ h < k /\ at[h] + HeaderSize <= m
          /\ under = SubSeq(wire, at[h] + HeaderSize + 1, m)
          /\ readBuffer[r] = SubSeq(Made(f, h + 1), 1, HeaderSize)
      BY <1>1, <1>4, <1>9, <1>10, <2>3, Zenon DEF Following
    <3>2. PICK p \in Nat : p = at[h] + HeaderSize
      BY <1>11, <1>16
    <3>3. /\ p + c \in 0 .. Len(wire) /\ at[h] + HeaderSize <= p + c
          /\ stream'[r] = SubSeq(wire, at[h] + HeaderSize + 1, p + c)
      BY <1>6, <1>14, <3>1, <3>2, Zenon
    <3>4. read'[r] # "pending"
      BY <1>13, <2>3
    <3>5. Following(r, k, at, wire, p + c)'
      BY <1>7, <1>12, <1>13, <2>3, <3>1, <3>3, <3>4, Zenon DEF Following, Peer
    <3> QED
      BY <3>5, Zenon
  <2>4. CASE read[r] = "pending" /\ ~ Header(r)
    <3>1. /\ h < k /\ at[h] + HeaderSize <= m
          /\ under = SubSeq(wire, at[h] + HeaderSize + 1, m)
          /\ readHeader[r] = HeaderOf(f, h + 1)
      BY <1>1, <1>4, <1>9, <1>10, <2>4, Zenon DEF Following
    <3>2. PICK p \in Nat : p = at[h] + HeaderSize
      BY <1>11, <1>16
    <3>3. /\ p + c \in 0 .. Len(wire) /\ at[h] + HeaderSize <= p + c
          /\ stream'[r] = SubSeq(wire, at[h] + HeaderSize + 1, p + c)
      BY <1>6, <1>14, <3>1, <3>2, Zenon
    <3>4. read'[r] # "done"
      BY <1>13, <2>4
    <3>5. Following(r, k, at, wire, p + c)'
      BY <1>7, <1>12, <1>13, <2>4, <3>1, <3>3, <3>4, Zenon DEF Following, Peer
    <3> QED
      BY <3>5, Zenon
  <2>5. CASE read[r] = "done" /\ ~ Header(r)
    <3>1. /\ h < k /\ at[h + 1] <= m
          /\ under = SubSeq(wire, at[h + 1] + 1, m)
          /\ readHeader[r] = HeaderOf(f, h + 1)
          /\ readBuffer[r] = payloads[f][h + 1]
      BY <1>1, <1>4, <1>9, <1>10, <2>5, Zenon DEF Following
    <3>2. PICK p \in Nat : p = at[h + 1]
      <4>1. h + 1 \in 0 .. k
        BY <1>11, <3>1
      <4> QED
        BY <1>11, <4>1 DEF Tape
    <3>3. /\ p + c \in 0 .. Len(wire) /\ at[h + 1] <= p + c
          /\ stream'[r] = SubSeq(wire, at[h + 1] + 1, p + c)
      BY <1>6, <1>14, <3>1, <3>2, Zenon
    <3>4. read'[r] # "pending"
      BY <1>13, <2>5
    <3>5. Following(r, k, at, wire, p + c)'
      BY <1>7, <1>12, <1>13, <2>5, <3>1, <3>3, <3>4, Zenon DEF Following, Peer
    <3> QED
      BY <3>5, Zenon
  <2> QED
    BY <2>1, <2>2, <2>3, <2>4, <2>5
<1>18. Reading(r)'
  BY <1>15, <1>17, Zenon DEF Reading
<1> QED
  BY <1>8, <1>18

\* The connection breaks.
LEMMA BreakKeeps ==
    ASSUME Inv, Break
    PROVE  Inv'
<1>1. /\ broken' = TRUE
      /\ UNCHANGED <<talk, payloads, writeVars, closed, readVars, undefined>>
      /\ stream' = [e \in Ends |-> stream'[e]]
  BY DEF Break
<1>2. TypeInv
  BY DEF Inv
<1>3. \A r \in Ends : Reading(r)' /\ stream'[r] \in Seq(Byte)
  BY BreakReading
<1>4. TypeInv'
  BY <1>1, <1>2, <1>3 DEF TypeInv, readVars, writeVars
<1>5. ASSUME NEW r \in Ends
      PROVE  Sending(r)'
  <2>1. Aside(r) /\ read'[r] = read[r]
    BY <1>1 DEF Aside, readVars, writeVars
  <2>2. Sending(r)
    BY DEF Inv
  <2> QED
    BY <1>1, <2>1, <2>2, SendingFrame
<1>6. Script'
  BY <1>1, SameTalk, Zenon DEF Inv
<1> QED
  BY <1>3, <1>4, <1>5, <1>6, Zenon DEF Inv

\* Every step of the two programs, the kernel and the network.
LEMMA StepKeeps ==
    ASSUME Inv, [Next]_vars
    PROVE  Inv'
<1>1. ASSUME NEW e \in Ends, Send(e)
      PROVE  Inv'
  BY <1>1, SendKeeps
<1>2. ASSUME NEW e \in Ends, Program(e)
      PROVE  Inv'
  <2>1. CASE WriteDone(e)
    BY <2>1, WriteDoneKeeps
  <2>2. CASE WriteFails(e)
    <3>1. Close(e, read[e], "none")
      BY <2>2 DEF WriteFails
    <3> QED
      BY <3>1, CloseKeeps
  <2>3. CASE OperationAborted(e)
    BY <2>3, OperationAbortedKeeps
  <2>4. CASE ReadFails(e)
    <3>1. Close(e, "none", write[e])
      BY <2>4 DEF ReadFails
    <3> QED
      BY <3>1, CloseKeeps
  <2>5. CASE HeaderDone(e)
    BY <2>5, HeaderDoneKeeps
  <2>6. CASE HeaderInvalid(e)
    BY <2>6, HeaderInvalidKeeps
  <2>7. CASE PayloadDone(e)
    BY <2>7, PayloadDoneKeeps
  <2> QED
    BY <1>2, <2>1, <2>2, <2>3, <2>4, <2>5, <2>6, <2>7 DEF Program
<1>3. ASSUME NEW e \in Ends, Kernel(e)
      PROVE  Inv'
  BY <1>3, TransmitKeeps, ReceiveKeeps DEF Kernel
<1>4. CASE Break
  BY <1>4, BreakKeeps
<1>5. CASE UNCHANGED vars
  <2>1. UNCHANGED <<talk, payloads>>
    BY <1>5 DEF vars
  <2>2. TypeInv'
    BY <1>5 DEF Inv, TypeInv, vars
  <2>3. ASSUME NEW e \in Ends
        PROVE  Sending(e)' /\ Reading(e)'
    <3>1. Aside(e) /\ Aside(Peer(e))
      BY <1>5 DEF Aside, vars
    <3>2. Sending(e)'
      <4>1. Sending(e) /\ read'[e] = read[e] /\ (broken => broken')
        BY <1>5 DEF Inv, vars
      <4> QED
        BY <2>1, <3>1, <4>1, SendingFrame
    <3>3. Reading(e)'
      <4>1. Peer(e) \in Ends /\ sent[Peer(e)] \in Nat /\ sent' = sent
        BY <1>5, Peers DEF Inv, TypeInv, vars
      <4>2. Transmitted(Peer(e))' = Transmitted(Peer(e))
        BY <3>1, <4>1, TransmittedFrame
      <4>3. TypeInv /\ Reading(e)
        BY DEF Inv
      <4> QED
        BY <1>5, <2>1, <4>1, <4>2, <4>3, ReadingFrame DEF vars
    <3> QED
      BY <3>2, <3>3
  <2>4. Script'
    BY <2>1, SameTalk, Zenon DEF Inv
  <2> QED
    BY <2>2, <2>3, <2>4, Zenon DEF Inv
<1> QED
  BY <1>1, <1>2, <1>3, <1>4, <1>5 DEF Next

\* Whatever is sent and whenever the connection breaks: an end that is open has the packets
\* nobody has taken yet in its queue, in their order, and an end that reads stands between
\* two packets, between a header and its payload, or has one of the two in its hands.
\* (send, doWrite, readHeader, readPayload, close, handleError)
THEOREM Invariance ==
    Spec => []Inv
<1>1. Init => Inv
  BY InitInv
<1>2. Inv /\ [Next]_vars => Inv'
  BY StepKeeps
<1> QED
  BY <1>1, <1>2, PTL DEF Spec

\* Every variable has its type, and while a connection is open there is one write at most,
\* which is under way as long as something is queued: send and the completion of a write
\* cannot disagree about writing_.  Only a connection that has been closed pops an empty
\* queue.  (send, doWrite, close)
THEOREM WritesAreSerialised ==
    Spec => []OneWriteAtATime
<1>1. Inv => OneWriteAtATime
  <2> SUFFICES ASSUME Inv PROVE OneWriteAtATime
    OBVIOUS
  <2>1. ASSUME NEW e \in Ends
        PROVE  /\ sent[e] \in 0 .. Len(talk.packets[e])
               /\ \A i \in DOMAIN writeQueue[e] : \A j \in DOMAIN writeQueue[e][i] :
                      writeQueue[e][i][j] \in 0 .. Base - 1
               /\ write[e] \in {"none", "pending", "done", "aborted"}
               /\ read[e] \in {"none", "pending", "done", "aborted"}
               /\ expects[e] \in {"header", "payload"}
               /\ {writing[e], closed[e], undefined[e]} \subseteq BOOLEAN
    <3>1. Count(e) \in Nat /\ sent[e] \in Nat /\ sent[e] <= Count(e)
      BY Packets DEF Inv, TypeInv, Sending
    <3>2. writeQueue[e] \in Seq(Seq(Byte))
      BY DEF Inv, TypeInv
    <3>3. ASSUME NEW i \in DOMAIN writeQueue[e], NEW j \in DOMAIN writeQueue[e][i]
          PROVE  writeQueue[e][i][j] \in 0 .. Base - 1
      <4>1. writeQueue[e][i] \in Seq(Byte)
        BY <3>2, ElementOfSeq, LenProperties
      <4>2. writeQueue[e][i][j] \in Byte
        BY <4>1, ElementOfSeq, LenProperties
      <4> QED
        BY <4>2 DEF Byte
    <3>4. sent[e] \in 0 .. Len(talk.packets[e])
      BY <3>1 DEF Count
    <3> QED
      BY <3>3, <3>4 DEF Inv, TypeInv, Operations
  <2>2. TypeOK
    BY <2>1 DEF TypeOK, Inv, TypeInv
  <2>3. ASSUME NEW e \in Ends
        PROVE  IF undefined[e] THEN closed[e]
               ELSE ~ closed[e] => /\ writing[e] <=> write[e] \in {"pending", "done"}
                                   /\ writing[e] <=> writeQueue[e] # <<>>
    BY Zenon DEF Inv, Sending
  <2> QED
    BY <2>2, <2>3, Zenon DEF OneWriteAtATime
<1> QED
  BY <1>1, Invariance, PTL

\* What the packet handler of an end is given is what its peer has made of its packets, one
\* by one, none left out, none twice and none put together from two: the header as it was
\* encoded and the payload byte for byte.
PacketsInOrder ==
    \A e \in Ends :
        /\ Len(handled[e]) <= sent[Peer(e)]
        /\ DOMAIN handled[e] = 1 .. Len(handled[e])
        /\ \A i \in DOMAIN handled[e] :
               i \in DOMAIN talk.packets[Peer(e)] /\ handled[e][i] = Delivery(Peer(e), i)

\* However the kernel cuts the bytes, whenever the connection breaks and at whatever point
\* the two programs are: nothing else reaches a packet handler.  (readHeader, readPayload)
THEOREM FramesAreKept ==
    Spec => []PacketsInOrder
<1>1. Inv => PacketsInOrder
  <2> SUFFICES ASSUME Inv, NEW e \in Ends
               PROVE  /\ Len(handled[e]) <= sent[Peer(e)]
                      /\ DOMAIN handled[e] = 1 .. Len(handled[e])
                      /\ \A i \in DOMAIN handled[e] : i \in DOMAIN talk.packets[Peer(e)]
                                                      /\ handled[e][i] = Delivery(Peer(e), i)
    BY Zenon DEF PacketsInOrder
  <2>1. PICK f \in Ends : f = Peer(e)
    BY Peers
  <2>2. PICK h \in Nat : h = Len(handled[e])
    BY DEF Inv, Reading, Handed
  <2>3. handled[e] = [i \in 1 .. h |-> Delivery(f, i)]
    BY <2>1, <2>2 DEF Inv, Reading, Handed
  <2>4. PICK k, at, wire, m : Following(e, k, at, wire, m)
    BY Zenon DEF Inv, Reading
  <2>5. k \in h .. sent[f] /\ k <= Count(f) /\ k \in Nat
    BY <2>1, <2>2, <2>4, ReaderKnows
  <2>6. Count(f) \in Nat /\ sent[f] \in Nat /\ DOMAIN talk.packets[f] = 1 .. Count(f)
    <3>1. talk.packets[f] \in Seq(Range(talk.packets[f]))
      BY ConversationsAssumption DEF Inv, Script
    <3>2. Count(f) \in Nat /\ DOMAIN talk.packets[f] = 1 .. Count(f)
      BY <3>1, LenProperties DEF Count
    <3> QED
      BY <3>2 DEF Inv, TypeInv
  <2>7. h <= sent[f] /\ h <= Count(f)
    BY <2>5, <2>6
  <2>8. DOMAIN handled[e] = 1 .. h
    BY <2>3
  <2>9. ASSUME NEW i \in 1 .. h
        PROVE  i \in DOMAIN talk.packets[f] /\ handled[e][i] = Delivery(f, i)
    <3>1. i \in 1 .. Count(f)
      BY <2>6, <2>7
    <3> QED
      BY <2>3, <2>6, <3>1
  <2> QED
    BY <2>1, <2>2, <2>7, <2>8, <2>9, Zenon
<1> QED
  BY <1>1, Invariance, PTL

\* Each packet of a conversation alone: the deserializers make of its header and its payload
\* what they should, and only one of them accepts it.
PacketsReadBack ==
    \A c \in Conversations : \A e \in Ends : \A i \in DOMAIN c.packets[e] :
        LET p == c.packets[e][i]
            payload == Payload(c.space, p)
            packet == EncodePacket(TypeNumber(c.space)[p.kind], i, c.version[e], payload)
        IN  Understood(c.space, DecodeHeader(SubSeq(packet, 1, HeaderSize)), payload)
                = {Expected(c.space, p)}

\* If every packet can be read back when it is alone, then a connection changes nothing
\* about that: what a program is given is what the other one has sent, to the last field,
\* wherever the network cuts or breaks it.  (encodePacket, readHeader, readPayload)
THEOREM PacketsArrive ==
    ASSUME PacketsReadBack
    PROVE  Spec => []PacketsArriveAsSent
<1>1. Inv /\ PacketsInOrder => PacketsArriveAsSent
  <2> SUFFICES ASSUME Inv, PacketsInOrder, NEW e \in Ends, NEW i \in DOMAIN handled[e]
               PROVE  Understood(talk.space, handled[e][i].header, handled[e][i].payload)
                          = {Expected(talk.space, talk.packets[Peer(e)][i])}
    BY Zenon DEF PacketsArriveAsSent, PacketsInOrder
  <2>1. PICK f \in Ends : f = Peer(e)
    BY Peers
  <2>2. i \in DOMAIN talk.packets[f] /\ handled[e][i] = Delivery(f, i)
    BY <2>1, Zenon DEF PacketsInOrder
  <2>3. talk \in Conversations /\ payloads[f][i] = Payload(talk.space, talk.packets[f][i])
    BY <2>2 DEF Inv, Script
  <2>4. handled[e][i].header = HeaderOf(f, i) /\ handled[e][i].payload = payloads[f][i]
    BY <2>2 DEF Delivery
  <2>5. PICK p : p = talk.packets[f][i]
    OBVIOUS
  <2>6. PICK payload : payload = Payload(talk.space, p)
    OBVIOUS
  <2>7. PICK packet :
            packet = EncodePacket(TypeNumber(talk.space)[p.kind], i, talk.version[f], payload)
    OBVIOUS
  <2>8. Understood(talk.space, DecodeHeader(SubSeq(packet, 1, HeaderSize)), payload)
            = {Expected(talk.space, p)}
    BY <2>2, <2>3, <2>5, <2>6, <2>7, PacketsReadBack, Zenon DEF PacketsReadBack
  <2>9. HeaderOf(f, i) = DecodeHeader(SubSeq(packet, 1, HeaderSize)) /\ payloads[f][i] = payload
    BY <2>3, <2>5, <2>6, <2>7, Zenon DEF HeaderOf, Made
  <2> QED
    BY <2>1, <2>4, <2>5, <2>8, <2>9, Zenon
<1> QED
  BY <1>1, Invariance, FramesAreKept, PTL
=============================================================================
