--------------------------- MODULE LabWriteProofs ---------------------------
(***************************************************************************)
(* What holds of a write request on its way for all requests, all frames   *)
(* of other devices, all idle bytes in front of them, all bytes behind     *)
(* them and every changed byte: crafting, framing and decoding fit         *)
(* together, and the checksum notices a changed byte.                      *)
(***************************************************************************)
EXTENDS LabWrite, RecursionProofs

-----------------------------------------------------------------------------
(* Checksums.                                                              *)

(* What a byte is, in a form for arithmetic.                               *)
LEMMA OctetRange == \A x : x \in Octet <=> x \in Int /\ 0 <= x /\ x <= 255
BY DEF Octet

(* Two lists that are the same but in one place.                           *)
DifferAt(s, t, i) ==
    Len(t) = Len(s) /\ i \in 1..Len(s) /\ \A n \in 1..Len(s) : n # i => t[n] = s[n]

(* A sum changes by as much as one element does.                           *)
LEMMA SumChanged ==
  ASSUME NEW s \in Seq(Nat), NEW t \in Seq(Nat), NEW i, DifferAt(s, t, i)
  PROVE  Total(t) = Total(s) + (t[i] - s[i])
<1> DEFINE N == Len(s)
           v == t[i]
           f == SumUpTo(s)
           g == SumUpTo(t)
           old == [n \in 1..N |-> Plus(s[n])]
           new == [n \in 1..N |-> Plus(t[n])]
<1>1. /\ t \in Seq(Nat) /\ Len(t) = N /\ N \in Nat /\ i \in 1..N
      /\ v \in Nat /\ t[i] = v /\ \A n \in 1..N : n # i => t[n] = s[n]
  BY DEF DifferAt
<1> HIDE DEF v
<1>2. Iterates(f, N, Nat, 0, old)
  BY SumIterates
<1>3. Iterates(g, N, Nat, 0, new)
  <2>1. Iterates(g, Len(t), Nat, 0, [n \in 1..Len(t) |-> Plus(t[n])])
    BY <1>1, SumIterates
  <2> QED
    BY <1>1, <2>1
<1>4. s[i] \in Nat /\ \A n \in 1..N : s[n] \in Nat /\ t[n] \in Nat
  BY <1>1
<1>5. ASSUME NEW n \in Nat, n + 1 \in 1..N
      PROVE  /\ f[n] \in Nat /\ g[n] \in Nat
             /\ f[n + 1] = f[n] + s[n + 1] /\ g[n + 1] = g[n] + t[n + 1]
  <2>1. n \in 0..N /\ (n + 1) - 1 = n
    BY <1>1, <1>5
  <2>2. f[n] \in Nat /\ g[n] \in Nat
    BY <1>2, <1>3, <2>1 DEF Iterates
  <2>3. f[n + 1] = old[n + 1][f[n]] /\ g[n + 1] = new[n + 1][g[n]]
    <3> HIDE DEF old, new, f, g
    <3> QED
      BY <1>2, <1>3, <1>5, <2>1 DEF Iterates
  <2>4. old[n + 1] = Plus(s[n + 1]) /\ new[n + 1] = Plus(t[n + 1])
    BY <1>5
  <2> HIDE DEF old, new, f, g
  <2> QED
    BY <1>4, <1>5, <2>2, <2>3, <2>4 DEF Plus
<1> DEFINE S == {n \in Nat : n <= N => g[n] = f[n] + (IF n >= i THEN v - s[i] ELSE 0)}
<1>6. 0 \in S
  BY <1>1, <1>2, <1>3 DEF Iterates
<1>7. ASSUME NEW n \in Nat, n \in S PROVE n + 1 \in S
  <2> SUFFICES ASSUME n + 1 <= N
               PROVE  g[n + 1] = f[n + 1] + (IF n + 1 >= i THEN v - s[i] ELSE 0)
    OBVIOUS
  <2>1. n + 1 \in 1..N /\ n <= N
    BY <1>1
  <2>2. g[n] = f[n] + (IF n >= i THEN v - s[i] ELSE 0)
    BY <1>7, <2>1
  <2>3. /\ f[n] \in Nat /\ g[n] \in Nat /\ s[n + 1] \in Nat /\ t[n + 1] \in Nat
        /\ f[n + 1] = f[n] + s[n + 1] /\ g[n + 1] = g[n] + t[n + 1]
    BY <1>4, <1>5, <2>1
  <2>4. /\ f[n] \in Int /\ g[n] \in Int /\ s[i] \in Int
        /\ n < i => g[n] = f[n]
        /\ n >= i => g[n] = f[n] + (v - s[i])
    BY SMTT(30), <1>1, <1>4, <2>2, <2>3
  <2>5. CASE n + 1 = i
    <3>1. t[n + 1] = v /\ s[n + 1] = s[i] /\ n < i
      BY <1>1, <2>5
    <3>2. g[n + 1] = f[n] + v /\ f[n + 1] = f[n] + s[i]
      BY <2>3, <2>4, <3>1
    <3> HIDE DEF f, g
    <3> QED
      BY <1>1, <2>4, <2>5, <3>2
  <2>6. CASE n + 1 < i
    <3>1. t[n + 1] = s[n + 1] /\ n < i
      BY <1>1, <2>1, <2>6
    <3>2. g[n + 1] = f[n + 1] /\ f[n + 1] \in Nat
      BY <2>3, <2>4, <3>1
    <3>3. ~ (n + 1 >= i)
      BY <1>1, <2>6
    <3> QED
      BY <3>2, <3>3
  <2>7. CASE n + 1 > i
    <3>1. t[n + 1] = s[n + 1] /\ n >= i
      BY <1>1, <2>1, <2>7
    <3>2. g[n + 1] = (f[n] + (v - s[i])) + s[n + 1] /\ f[n + 1] = f[n] + s[n + 1]
      BY <2>3, <2>4, <3>1
    <3> HIDE DEF f, g
    <3>3. s[n + 1] \in Int /\ f[n] \in Int /\ s[i] \in Int /\ v \in Int
      BY <1>1, <2>3, <2>4
    <3>4. g[n + 1] = f[n + 1] + (v - s[i])
      BY <3>2, <3>3
    <3>5. n + 1 >= i
      BY <1>1, <2>7
    <3> QED
      BY <3>4, <3>5
  <2> QED
    BY <1>1, <2>5, <2>6, <2>7
<1>8. N \in S
  <2> HIDE DEF S
  <2> QED
    BY <1>1, <1>6, <1>7, SetInduction
<1>9. g[N] = f[N] + (v - s[i])
  BY <1>1, <1>8
<1>10. Total(s) = f[N] /\ Total(t) = g[N]
  BY <1>1, TotalIsLast
<1> QED
  BY <1>9, <1>10 DEF v

(* A sum without the first element.                                        *)
LEMMA SumDrop ==
  ASSUME NEW t \in Seq(Nat), NEW u \in Seq(Nat), Len(t) = Len(u) + 1,
         \A n \in 1..Len(u) : t[n + 1] = u[n]
  PROVE  Total(t) = t[1] + Total(u)
<1> DEFINE N == Len(u)
           f == SumUpTo(t)
           g == SumUpTo(u)
           long == [n \in 1..(N + 1) |-> Plus(t[n])]
           short == [n \in 1..N |-> Plus(u[n])]
<1>1. /\ N \in Nat /\ Len(t) = N + 1
      /\ \A n \in 1..N : t[n + 1] = u[n] /\ u[n] \in Nat
      /\ \A n \in 1..(N + 1) : t[n] \in Nat
  OBVIOUS
<1>2. Iterates(g, N, Nat, 0, short)
  BY SumIterates
<1>3. Iterates(f, N + 1, Nat, 0, long)
  <2>1. Iterates(f, Len(t), Nat, 0, [n \in 1..Len(t) |-> Plus(t[n])])
    BY SumIterates
  <2> QED
    BY <1>1, <2>1
<1>4. ASSUME NEW n \in 1..(N + 1)
      PROVE  f[n - 1] \in Nat /\ f[n] = f[n - 1] + t[n]
  <2>1. n - 1 \in 0..(N + 1)
    BY <1>1
  <2>2. long[n] = Plus(t[n])
    OBVIOUS
  <2> HIDE DEF long, f
  <2>3. f[n - 1] \in Nat /\ f[n] = long[n][f[n - 1]]
    BY <1>3, <2>1 DEF Iterates
  <2> QED
    BY <1>1, <2>2, <2>3 DEF Plus
<1>5. ASSUME NEW n \in 1..N
      PROVE  g[n - 1] \in Nat /\ g[n] = g[n - 1] + u[n]
  <2>1. n - 1 \in 0..N
    BY <1>1
  <2>2. short[n] = Plus(u[n])
    OBVIOUS
  <2> HIDE DEF short, g
  <2>3. g[n - 1] \in Nat /\ g[n] = short[n][g[n - 1]]
    BY <1>2, <2>1 DEF Iterates
  <2> QED
    BY <1>1, <2>2, <2>3 DEF Plus
<1>6. f[0] = 0 /\ g[0] = 0
  BY <1>2, <1>3 DEF Iterates
<1>7. Total(t) = f[N + 1] /\ Total(u) = g[N]
  BY <1>1, TotalIsLast
<1> DEFINE S == {n \in Nat : n <= N => f[n + 1] = t[1] + g[n]}
<1> HIDE DEF f, g, long, short, N
<1>8. 0 \in S
  <2>1. 1 \in 1..(N + 1)
    BY <1>1
  <2>2. f[1] = f[1 - 1] + t[1] /\ t[1] \in Nat
    BY <1>1, <1>4, <2>1
  <2> QED
    BY <1>6, <2>2
<1>9. ASSUME NEW n \in Nat, n \in S PROVE n + 1 \in S
  <2> SUFFICES ASSUME n + 1 <= N PROVE f[(n + 1) + 1] = t[1] + g[n + 1]
    OBVIOUS
  <2>1. n + 1 \in 1..N /\ (n + 1) + 1 \in 1..(N + 1) /\ 1 \in 1..(N + 1)
        /\ (n + 1) - 1 = n /\ ((n + 1) + 1) - 1 = n + 1
    BY <1>1
  <2>2. f[n + 1] = t[1] + g[n]
    BY <1>1, <1>9
  <2>3. f[(n + 1) + 1] = f[n + 1] + t[(n + 1) + 1]
    BY <1>4, <2>1
  <2>4. g[n + 1] = g[n] + u[n + 1] /\ g[n] \in Nat
    BY <1>5, <2>1
  <2>5. t[(n + 1) + 1] = u[n + 1] /\ u[n + 1] \in Nat /\ t[1] \in Nat
    BY <1>1, <2>1
  <2> QED
    BY <2>2, <2>3, <2>4, <2>5
<1>10. N \in S
  <2> HIDE DEF S
  <2> QED
    BY <1>1, <1>8, <1>9, SetInduction
<1> QED
  BY <1>1, <1>7, <1>10

LEMMA OctetsAreNumbers == \A s \in Seq(Octet) : s \in Seq(Nat)
<1> SUFFICES ASSUME NEW s \in Seq(Octet) PROVE s \in Seq(Nat)
  OBVIOUS
<1>1. \A x \in Octet : x \in Nat
  BY OctetRange
<1>2. Len(s) \in Nat /\ s = [n \in 1..Len(s) |-> s[n]] /\ \A n \in 1..Len(s) : s[n] \in Octet
  OBVIOUS
<1>3. \A n \in 1..Len(s) : s[n] \in Nat
  BY <1>1, <1>2
<1> QED
  BY <1>2, <1>3

LEMMA TotalOfOctets ==
  ASSUME NEW s \in Seq(Octet)
  PROVE  Total(s) \in Nat
BY OctetsAreNumbers, SumTyped

LEMMA ChecksumTyped ==
  ASSUME NEW s \in Seq(Octet)
  PROVE  Checksum(s) \in Nat /\ Checksum(s) < 65536
<1> DEFINE n == Total(s)
<1>1. n \in Nat
  BY TotalOfOctets
<1> HIDE DEF n
<1>2. n % 65536 \in Nat /\ n % 65536 < 65536
  BY <1>1
<1> QED
  BY <1>2 DEF Checksum, n

LEMMA TrailerBytes ==
  ASSUME NEW body \in Seq(Octet)
  PROVE  /\ Trailer(body) \in Seq(Octet) /\ Len(Trailer(body)) = 2
         /\ BigEndian(Trailer(body)) = Checksum(body)
<1> DEFINE c == Checksum(body)
<1>1. c \in Nat /\ c < 65536
  BY ChecksumTyped
<1>2. Trailer(body) = <<c \div 256, c % 256>>
  BY DEF Trailer
<1> HIDE DEF c
<1> DEFINE h == c \div 256
           l == c % 256
<1>3. h \in Nat /\ h < 256 /\ l \in Nat /\ l < 256 /\ (h * 256) + l = c
  BY <1>1
<1>5. Trailer(body) = <<h, l>>
  BY <1>2
<1> HIDE DEF h, l
<1>4. h \in Octet /\ l \in Octet
  BY <1>3, OctetRange
<1>6. BigEndian(<<h, l>>) = (h * 256) + l
  BY DEF BigEndian
<1> QED
  BY <1>3, <1>4, <1>5, <1>6 DEF c

(* A changed sum has another checksum: it changes by less than a byte.     *)
LEMMA OtherChecksum ==
  ASSUME NEW a \in Nat, NEW x \in Octet, NEW y \in Octet, x # y, a + (y - x) \in Nat
  PROVE  /\ (a + (y - x)) % 65536 # a % 65536
         /\ ((a + (y - x)) + 18) % 256 # (a + 18) % 256
<1> DEFINE b == a + (y - x)
<1>1. /\ b \in Nat /\ b # a /\ b - a < 256 /\ a - b < 256
  BY OctetRange
<1> HIDE DEF b
<1>2. ASSUME NEW m \in {256, 65536}, NEW p \in Nat, NEW q \in Nat,
             p # q, p - q < 256, q - p < 256
      PROVE  p % m # q % m
  <2>1. CASE m = 256
    BY <1>2, <2>1
  <2>2. CASE m = 65536
    BY <1>2, <2>2
  <2> QED
    BY <2>1, <2>2
<1>3. b % 65536 # a % 65536
  BY <1>1, <1>2
<1>4. (b + 18) % 256 # (a + 18) % 256
  <2>1. b + 18 \in Nat /\ a + 18 \in Nat /\ b + 18 # a + 18
        /\ (b + 18) - (a + 18) < 256 /\ (a + 18) - (b + 18) < 256
    BY <1>1
  <2> QED
    BY <1>2, <2>1
<1> QED
  BY <1>3, <1>4 DEF b

LEMMA OtherTrailer ==
  ASSUME NEW a \in Octet, NEW b \in Octet, NEW x \in Octet, NEW y \in Octet,
         (a * 256) + b = (x * 256) + y
  PROVE  a = x /\ b = y
BY OctetRange

(* One byte of a sequence that is changed.                                 *)
LEMMA ByteChanged ==
  ASSUME NEW s \in Seq(Octet), NEW i \in 1..Len(s), NEW v \in Octet
  PROVE  /\ [s EXCEPT ![i] = v] \in Seq(Octet) /\ Len([s EXCEPT ![i] = v]) = Len(s)
         /\ Len(s) \in Nat /\ i \in Nat
         /\ \A n \in 1..Len(s) : [s EXCEPT ![i] = v][n] = IF n = i THEN v ELSE s[n]
OBVIOUS

LEMMA ChecksumNotices ==
  ASSUME NEW s \in Seq(Octet), NEW t \in Seq(Octet), NEW i, DifferAt(s, t, i), t[i] # s[i]
  PROVE  Checksum(t) # Checksum(s) /\ (Total(t) + 18) % 256 # (Total(s) + 18) % 256
<1> DEFINE a == Total(s)
           x == s[i]
           v == t[i]
<1>1. v \in Octet /\ x \in Octet /\ x # v
  BY DEF DifferAt
<1>2. s \in Seq(Nat) /\ t \in Seq(Nat)
  BY OctetsAreNumbers
<1>3. Total(t) = a + (v - x)
  BY <1>2, SumChanged
<1>4. a \in Nat /\ Total(t) \in Nat
  BY TotalOfOctets
<1> HIDE DEF a, x, v
<1>5. a + (v - x) \in Nat
  BY <1>3, <1>4
<1>6. /\ (a + (v - x)) % 65536 # a % 65536
      /\ ((a + (v - x)) + 18) % 256 # (a + 18) % 256
  BY <1>1, <1>4, <1>5, OtherChecksum
<1> QED
  BY <1>3, <1>6 DEF Checksum, a

(* A frame of which one byte is another does not pass verify_checksum.     *)
LEMMA OneByteOfA5 ==
  ASSUME NEW s \in Seq(Octet), VerifyA5(s), NEW i \in 1..Len(s), NEW v \in Octet, v # s[i]
  PROVE  ~ VerifyA5([s EXCEPT ![i] = v])
<1> DEFINE N == Len(s)
           t == [s EXCEPT ![i] = v]
           b == SubSeq(s, 1, N - 2)
           d == SubSeq(t, 1, N - 2)
<1>1. /\ t \in Seq(Octet) /\ Len(t) = N /\ N \in Nat /\ i \in Nat
      /\ t[i] = v /\ \A n \in 1..N : n # i => t[n] = s[n]
  BY ByteChanged
<1>2. N >= 8 /\ i <= N
  BY <1>1 DEF VerifyA5
<1>3. /\ AllBut(s, 2) = b /\ AllBut(t, 2) = d
      /\ BigEndian(From(s, Len(s) - 1)) = (s[N - 1] * 256) + s[N]
      /\ BigEndian(From(t, Len(t) - 1)) = (t[N - 1] * 256) + t[N]
  <2>1. /\ SubSeq(s, N - 1, N)[1] = s[N - 1] /\ SubSeq(s, N - 1, N)[2] = s[N]
        /\ SubSeq(t, N - 1, N)[1] = t[N - 1] /\ SubSeq(t, N - 1, N)[2] = t[N]
    BY <1>1, <1>2
  <2> HIDE DEF t
  <2> QED
    BY <1>1, <2>1 DEF AllBut, From, BigEndian
<1>4. /\ b \in Seq(Octet) /\ Len(b) = N - 2 /\ \A n \in 1..(N - 2) : b[n] = s[n]
      /\ d \in Seq(Octet) /\ Len(d) = N - 2 /\ \A n \in 1..(N - 2) : d[n] = t[n]
  BY <1>1, <1>2
<1>5. Checksum(b) = (s[N - 1] * 256) + s[N]
  BY <1>3 DEF VerifyA5
<1>6. SUFFICES Checksum(d) # (t[N - 1] * 256) + t[N]
  BY <1>3 DEF VerifyA5
<1> HIDE DEF N, t, b, d
<1>7. CASE i <= N - 2
  <2>1. i \in 1..Len(b) /\ b[i] = s[i]
    BY <1>1, <1>4, <1>7
  <2>2. ASSUME NEW n \in 1..Len(b), n # i PROVE d[n] = b[n]
    <3>1. n \in 1..(N - 2) /\ n \in 1..N
      BY <1>1, <1>2, <1>4
    <3> QED
      BY <1>1, <1>4, <2>2, <3>1
  <2>3. DifferAt(b, d, i) /\ d[i] # b[i]
    BY <1>1, <1>4, <2>1, <2>2 DEF DifferAt
  <2>5. Checksum(d) # Checksum(b)
    BY <1>4, <2>3, ChecksumNotices
  <2>4. t[N - 1] = s[N - 1] /\ t[N] = s[N]
    BY <1>1, <1>2, <1>7
  <2> QED
    BY <1>5, <2>4, <2>5
<1>8. CASE i > N - 2
  <2>1. ASSUME NEW n \in 1..(N - 2) PROVE d[n] = b[n]
    <3>1. n \in 1..N /\ n # i
      BY <1>1, <1>2, <1>8
    <3> QED
      BY <1>1, <1>4, <3>1
  <2>2. d = b
    BY <1>4, <2>1
  <2>3. /\ s[N - 1] \in Octet /\ s[N] \in Octet /\ t[N - 1] \in Octet /\ t[N] \in Octet
    BY <1>1, <1>2 DEF N
  <2>4. t[N - 1] # s[N - 1] \/ t[N] # s[N]
    BY <1>1, <1>2, <1>8
  <2>5. (t[N - 1] * 256) + t[N] # (s[N - 1] * 256) + s[N]
    <3> DEFINE p == t[N - 1]
               q == t[N]
               x == s[N - 1]
               y == s[N]
    <3>1. p \in Octet /\ q \in Octet /\ x \in Octet /\ y \in Octet /\ (p # x \/ q # y)
      BY <2>3, <2>4
    <3> HIDE DEF p, q, x, y
    <3>2. (p * 256) + q # (x * 256) + y
      BY <3>1, OtherTrailer
    <3> QED
      BY <3>2 DEF p, q, x, y
  <2> QED
    BY <1>5, <2>2, <2>5
<1> QED
  BY <1>1, <1>2, <1>7, <1>8

LEMMA PartsOfIC ==
  ASSUME NEW s \in Seq(Octet), VerifyIC(s)
  PROVE  /\ s[1] = 16 /\ s[2] = 2 /\ s[Len(s) - 1] = 16 /\ s[Len(s)] = 3
         /\ s[Len(s) - 2] = (Total(SubSeq(s, 3, Len(s) - 3)) + 18) % 256
<1> DEFINE N == Len(s)
           a == SubSeq(s, 1, 2)
           z == SubSeq(s, N - 1, N)
<1>1. N >= 5 /\ N \in Nat /\ a = <<16, 2>> /\ z = <<16, 3>>
      /\ s[N - 2] = (Total(SubSeq(s, 3, N - 3)) + 18) % 256
  BY DEF VerifyIC, From
<1>2. a[1] = s[1] /\ a[2] = s[2] /\ z[1] = s[N - 1] /\ z[2] = s[N]
  BY <1>1
<1> HIDE DEF N, a, z
<1>3. a[1] = 16 /\ a[2] = 2 /\ z[1] = 16 /\ z[2] = 3
  BY <1>1
<1> QED
  BY <1>1, <1>2, <1>3 DEF N

LEMMA OneByteOfIC ==
  ASSUME NEW s \in Seq(Octet), VerifyIC(s), NEW i \in 1..Len(s), NEW v \in Octet, v # s[i]
  PROVE  ~ VerifyIC([s EXCEPT ![i] = v])
<1> DEFINE N == Len(s)
           t == [s EXCEPT ![i] = v]
           b == SubSeq(s, 3, N - 3)
           d == SubSeq(t, 3, N - 3)
<1>1. /\ t \in Seq(Octet) /\ Len(t) = N /\ N \in Nat /\ i \in Nat
      /\ t[i] = v /\ \A n \in 1..N : n # i => t[n] = s[n]
  BY ByteChanged
<1>2. N >= 5 /\ 1 <= i /\ i <= N
  BY <1>1 DEF VerifyIC
<1>3. /\ b \in Seq(Octet) /\ Len(b) = N - 5 /\ \A n \in 1..(N - 5) : b[n] = s[n + 2]
      /\ d \in Seq(Octet) /\ Len(d) = N - 5 /\ \A n \in 1..(N - 5) : d[n] = t[n + 2]
  BY <1>1, <1>2
<1>4. /\ s[1] = 16 /\ s[2] = 2 /\ s[N - 1] = 16 /\ s[N] = 3
      /\ s[N - 2] = (Total(b) + 18) % 256
  BY PartsOfIC
<1> SUFFICES ASSUME VerifyIC(t) PROVE FALSE
  OBVIOUS
<1>5. /\ t[1] = 16 /\ t[2] = 2 /\ t[N - 1] = 16 /\ t[N] = 3
      /\ t[N - 2] = (Total(d) + 18) % 256
  <2> HIDE DEF t
  <2> QED
    BY <1>1, PartsOfIC
<1> HIDE DEF N, t, b, d
<1>6. i \notin {1, 2, N - 1, N}
  BY <1>1, <1>4, <1>5
<1>7. CASE i = N - 2
  <2>1. ASSUME NEW n \in 1..(N - 5) PROVE d[n] = b[n]
    <3>1. n + 2 \in 1..N /\ n + 2 # i
      BY <1>1, <1>2, <1>7
    <3> QED
      BY <1>1, <1>3, <3>1
  <2>2. d = b
    BY <1>3, <2>1
  <2> QED
    BY <1>1, <1>4, <1>5, <1>7, <2>2
<1>8. CASE i # N - 2
  <2>1. i >= 3 /\ i <= N - 3 /\ i - 2 \in 1..(N - 5) /\ (i - 2) + 2 = i
    BY <1>1, <1>2, <1>6, <1>8
  <2> DEFINE j == i - 2
  <2>2. ASSUME NEW n \in 1..Len(b), n # j PROVE d[n] = b[n]
    <3>1. n \in 1..(N - 5) /\ n + 2 \in 1..N /\ n + 2 # i
      BY <1>1, <1>2, <1>3, <2>2
    <3> QED
      BY <1>1, <1>3, <3>1
  <2>3. j \in 1..Len(b) /\ d[j] = v /\ b[j] = s[i]
    BY <1>1, <1>3, <2>1
  <2> HIDE DEF j
  <2>4. DifferAt(b, d, j) /\ d[j] # b[j]
    BY <1>3, <2>2, <2>3 DEF DifferAt
  <2>7. (Total(d) + 18) % 256 # (Total(b) + 18) % 256
    BY <1>3, <2>4, ChecksumNotices
  <2>8. t[N - 2] = s[N - 2]
    BY <1>1, <1>2, <1>8
  <2> QED
    BY <1>4, <1>5, <2>7, <2>8
<1> QED
  BY <1>7, <1>8

-----------------------------------------------------------------------------
(* The bytes of a crafted frame.                                           *)

Body(h, p) == <<165>> \o [i \in 1..4 |-> Low(h[i])] \o <<Len(p)>> \o p

LEMMA LowOfOctet == \A n \in Octet : Low(n) = n
<1> SUFFICES ASSUME NEW n \in Octet PROVE Low(n) = n
  OBVIOUS
<1>1. n \in Int /\ 0 <= n /\ n <= 255
  BY OctetRange
<1> QED
  BY <1>1 DEF Low

LEMMA LowTyped == \A n \in Int : Low(n) \in Octet
<1> SUFFICES ASSUME NEW n \in Int PROVE Low(n) \in Octet
  OBVIOUS
<1>1. n % 256 \in Int /\ 0 <= n % 256 /\ n % 256 <= 255
  OBVIOUS
<1> QED
  BY <1>1, OctetRange DEF Low

(* One sequence behind another.                                            *)
IsJoin(S, u, s, t) ==
    /\ u \in Seq(S) /\ Len(u) = Len(s) + Len(t)
    /\ \A i \in 1..Len(s) : u[i] = s[i]
    /\ \A i \in 1..Len(t) : u[Len(s) + i] = t[i]

LEMMA Joined ==
  ASSUME NEW S, NEW s \in Seq(S), NEW t \in Seq(S)
  PROVE  IsJoin(S, s \o t, s, t)
<1> DEFINE u == s \o t
           m == Len(s)
           n == Len(t)
<1>1. m \in Nat /\ n \in Nat
  OBVIOUS
<1>2. /\ u \in Seq(S) /\ Len(u) = m + n
      /\ \A i \in 1..(m + n) : u[i] = IF i <= m THEN s[i] ELSE t[i - m]
  BY ConcatProperties
<1> HIDE DEF u, m, n
<1>3. ASSUME NEW i \in 1..m PROVE u[i] = s[i]
  <2>1. i \in 1..(m + n) /\ i <= m
    BY <1>1
  <2> QED
    BY <1>2, <2>1
<1>4. ASSUME NEW i \in 1..n PROVE u[m + i] = t[i]
  <2>1. m + i \in 1..(m + n) /\ ~ (m + i <= m) /\ (m + i) - m = i
    BY <1>1
  <2> QED
    BY <1>2, <2>1
<1> QED
  BY <1>2, <1>3, <1>4 DEF u, m, n, IsJoin

LEMMA BodyBytes ==
  ASSUME NEW h, \A i \in 1..4 : h[i] \in Octet, NEW p \in Seq(Octet), Len(p) \in Octet
  PROVE  /\ Body(h, p) \in Seq(Octet) /\ Len(Body(h, p)) = 6 + Len(p)
         /\ Body(h, p)[1] = 165 /\ \A i \in 1..4 : Body(h, p)[1 + i] = h[i]
         /\ Body(h, p)[6] = Len(p) /\ \A i \in 1..Len(p) : Body(h, p)[6 + i] = p[i]
<1> DEFINE L == Len(p)
           q == [i \in 1..4 |-> Low(h[i])]
           one == <<165>>
           len == <<L>>
           two == one \o q
           three == two \o len
           all == three \o p
<1>1. \A i \in 1..4 : Low(h[i]) = h[i]
  BY LowOfOctet
<1>2. q \in Seq(Octet) /\ Len(q) = 4 /\ \A i \in 1..4 : q[i] = h[i]
  BY <1>1
<1>3. /\ one \in Seq(Octet) /\ Len(one) = 1 /\ one[1] = 165
      /\ len \in Seq(Octet) /\ Len(len) = 1 /\ len[1] = L
  <2>1. 165 \in Octet
    BY SMTT(30), OctetRange
  <2> QED
    BY <2>1
<1> HIDE DEF L, q, one, len
<1>4. /\ two \in Seq(Octet) /\ Len(two) = 1 + 4
      /\ \A i \in 1..1 : two[i] = one[i]
      /\ \A i \in 1..4 : two[1 + i] = q[i]
  <2>1. one \in Seq(Octet) /\ q \in Seq(Octet)
    BY <1>2, <1>3
  <2>2. IsJoin(Octet, two, one, q)
    BY <2>1, Joined
  <2> HIDE DEF two
  <2> QED
    BY <1>2, <1>3, <2>2 DEF IsJoin
<1> HIDE DEF two
<1>5. /\ two \in Seq(Octet) /\ Len(two) = 5 /\ two[1] = 165 /\ \A i \in 1..4 : two[1 + i] = h[i]
  BY <1>2, <1>3, <1>4
<1>6. /\ three \in Seq(Octet) /\ Len(three) = 5 + 1
      /\ \A i \in 1..5 : three[i] = two[i]
      /\ \A i \in 1..1 : three[5 + i] = len[i]
  <2>1. two \in Seq(Octet) /\ len \in Seq(Octet)
    BY <1>3, <1>5
  <2>2. IsJoin(Octet, three, two, len)
    BY <2>1, Joined
  <2> HIDE DEF three
  <2> QED
    BY <1>3, <1>5, <2>2 DEF IsJoin
<1> HIDE DEF three
<1>7. /\ three \in Seq(Octet) /\ Len(three) = 6 /\ three[1] = 165 /\ three[6] = L
      /\ \A i \in 1..4 : three[1 + i] = h[i]
  <2>1. three[1] = two[1] /\ three[5 + 1] = len[1]
    BY <1>6
  <2>2. ASSUME NEW i \in 1..4 PROVE three[1 + i] = two[1 + i]
    BY <1>6
  <2> QED
    BY <1>3, <1>5, <1>6, <2>1, <2>2
<1>8. /\ all \in Seq(Octet) /\ Len(all) = 6 + L
      /\ \A i \in 1..6 : all[i] = three[i]
      /\ \A i \in 1..L : all[6 + i] = p[i]
  <2>1. three \in Seq(Octet) /\ p \in Seq(Octet)
    BY <1>7
  <2>2. IsJoin(Octet, all, three, p)
    BY <2>1, Joined
  <2> HIDE DEF all
  <2> QED
    BY <1>7, <2>2 DEF IsJoin, L
<1> HIDE DEF all
<1>9. all[1] = 165 /\ all[6] = L
  BY <1>7, <1>8
<1>10. ASSUME NEW i \in 1..4 PROVE all[1 + i] = h[i]
  <2>1. 1 + i \in 1..6
    OBVIOUS
  <2> QED
    BY <1>7, <1>8, <2>1
<1>11. Body(h, p) = all
  BY DEF Body, all, three, two, len, one, q, L
<1> QED
  BY <1>8, <1>9, <1>10, <1>11 DEF L

CraftedBytes(raw, h, p) ==
    /\ raw \in Seq(Octet) /\ Len(raw) = 11 + Len(p)
    /\ raw[1] = 255 /\ raw[2] = 0 /\ raw[3] = 255 /\ raw[4] = 165
    /\ \A i \in 1..4 : raw[4 + i] = h[i]
    /\ raw[9] = Len(p)
    /\ \A i \in 1..Len(p) : raw[9 + i] = p[i]

LEMMA BuiltBytes ==
  ASSUME NEW h, \A i \in 1..4 : h[i] \in Octet, NEW p \in Seq(Octet), Len(p) \in Octet
  PROVE  /\ CraftedBytes(BuildA5(h, p), h, p)
         /\ From(BuildA5(h, p), 4) = Body(h, p) \o Trailer(Body(h, p))
<1> DEFINE L == Len(p)
           b == Body(h, p)
           t == Trailer(b)
           pre == <<255, 0, 255>>
           front == pre \o b
           all == front \o t
           ends == b \o t
<1>1. /\ b \in Seq(Octet) /\ Len(b) = 6 + L /\ b[1] = 165 /\ \A i \in 1..4 : b[1 + i] = h[i]
      /\ b[6] = L /\ \A i \in 1..L : b[6 + i] = p[i]
  BY BodyBytes
<1>2. t \in Seq(Octet) /\ Len(t) = 2
  BY <1>1, TrailerBytes
<1>3. pre \in Seq(Octet) /\ Len(pre) = 3 /\ pre[1] = 255 /\ pre[2] = 0 /\ pre[3] = 255
  <2>1. 255 \in Octet
    BY OctetRange
  <2>2. 0 \in Octet
    BY OctetRange
  <2> QED
    BY <2>1, <2>2
<1>4. BuildA5(h, p) = all
  BY DEF BuildA5, Body
<1>0. L \in Nat
  OBVIOUS
<1> HIDE DEF b, t, pre, L
<1>5. /\ front \in Seq(Octet) /\ Len(front) = 3 + (6 + L)
      /\ \A i \in 1..3 : front[i] = pre[i]
      /\ \A i \in 1..(6 + L) : front[3 + i] = b[i]
  <2>1. pre \in Seq(Octet) /\ b \in Seq(Octet)
    BY <1>1, <1>3
  <2>2. IsJoin(Octet, front, pre, b)
    BY <2>1, Joined
  <2> HIDE DEF front
  <2> QED
    BY <1>1, <1>3, <2>2 DEF IsJoin
<1>6. /\ ends \in Seq(Octet) /\ Len(ends) = (6 + L) + 2
      /\ \A i \in 1..(6 + L) : ends[i] = b[i]
      /\ \A i \in 1..2 : ends[(6 + L) + i] = t[i]
  <2>1. b \in Seq(Octet) /\ t \in Seq(Octet)
    BY <1>1, <1>2
  <2>2. IsJoin(Octet, ends, b, t)
    BY <2>1, Joined
  <2> HIDE DEF ends
  <2> QED
    BY <1>1, <1>2, <2>2 DEF IsJoin
<1> HIDE DEF front, ends
<1>7. /\ all \in Seq(Octet) /\ Len(all) = (3 + (6 + L)) + 2
      /\ \A i \in 1..(3 + (6 + L)) : all[i] = front[i]
      /\ \A i \in 1..2 : all[(3 + (6 + L)) + i] = t[i]
  <2>1. front \in Seq(Octet) /\ t \in Seq(Octet)
    BY <1>2, <1>5
  <2>2. IsJoin(Octet, all, front, t)
    BY <2>1, Joined
  <2> HIDE DEF all
  <2> QED
    BY <1>2, <1>5, <2>2 DEF IsJoin
<1> HIDE DEF all
<1>16. Len(all) = 11 + L /\ Len(ends) = 8 + L
  BY <1>0, <1>6, <1>7
<1>8. /\ \A i \in 1..3 : all[i] = pre[i]
      /\ \A i \in 1..(6 + L) : all[3 + i] = b[i]
  <2>1. ASSUME NEW i \in 1..(6 + L) PROVE all[3 + i] = b[i]
    <3>1. 3 + i \in 1..(3 + (6 + L))
      BY <1>0
    <3> QED
      BY <1>5, <1>7, <3>1
  <2>2. ASSUME NEW i \in 1..3 PROVE all[i] = pre[i]
    <3>1. i \in 1..(3 + (6 + L))
      BY <1>0
    <3> QED
      BY <1>5, <1>7, <3>1
  <2> QED
    BY <2>1, <2>2
<1>9. SubSeq(all, 4, Len(all)) = ends
  <2> DEFINE u == SubSeq(all, 4, Len(all))
  <2>1. u \in Seq(Octet) /\ Len(u) = 8 + L /\ \A i \in 1..(8 + L) : u[i] = all[3 + i]
    BY <1>0, <1>7, <1>16
  <2> HIDE DEF u
  <2>2. ASSUME NEW i \in 1..(8 + L) PROVE u[i] = ends[i]
    <3>1. CASE i \in 1..(6 + L)
      BY <1>6, <1>8, <2>1, <3>1
    <3>2. CASE i \notin 1..(6 + L)
      <4>1. PICK j \in 1..2 : i = (6 + L) + j
        <5>1. i - (6 + L) \in 1..2 /\ i = (6 + L) + (i - (6 + L))
          BY <1>0, <3>2
        <5> QED
          BY <5>1
      <4>2. 3 + i = (3 + (6 + L)) + j
        BY <1>0, <4>1
      <4>3. u[i] = all[3 + i]
        BY <2>1
      <4>4. ends[(6 + L) + j] = t[j]
        BY <1>6
      <4>5. all[(3 + (6 + L)) + j] = t[j]
        BY <1>7
      <4> QED
        BY <4>1, <4>2, <4>3, <4>4, <4>5
    <3> QED
      BY <3>1, <3>2
  <2>3. u = ends
    BY SMTT(30), <1>6, <1>16, <2>1, <2>2
  <2> QED
    BY <2>3 DEF u
<1>10. /\ all[1] = 255 /\ all[2] = 0 /\ all[3] = 255 /\ all[4] = 165 /\ all[9] = L
  <2>1. 1 \in 1..(6 + L) /\ 6 \in 1..(6 + L)
    BY <1>0
  <2>2. all[3 + 1] = b[1] /\ all[3 + 6] = b[6]
    BY <1>8, <2>1
  <2> QED
    BY <1>1, <1>3, <1>8, <2>2
<1>11. \A i \in 1..4 : all[4 + i] = h[i]
  <2> SUFFICES ASSUME NEW i \in 1..4 PROVE all[4 + i] = h[i]
    OBVIOUS
  <2>1. 1 + i \in 1..(6 + L) /\ 3 + (1 + i) = 4 + i
    BY <1>0
  <2> QED
    BY <1>1, <1>8, <2>1
<1>12. \A i \in 1..L : all[9 + i] = p[i]
  <2> SUFFICES ASSUME NEW i \in 1..L PROVE all[9 + i] = p[i]
    OBVIOUS
  <2>1. 6 + i \in 1..(6 + L) /\ 3 + (6 + i) = 9 + i
    BY <1>0
  <2> QED
    BY <1>1, <1>8, <2>1
<1>13. From(BuildA5(h, p), 4) = b \o t
  BY <1>4, <1>9 DEF From, ends
<1>14. all \in Seq(Octet) /\ Len(all) = 11 + L
  BY <1>7, <1>16
<1>15. CraftedBytes(all, h, p)
  BY <1>10, <1>11, <1>12, <1>14 DEF CraftedBytes, L
<1> QED
  BY <1>4, <1>13, <1>15 DEF b, t

(* What is crafted passes its own checksum.                                *)
LEMMA TrailerVerifies ==
  ASSUME NEW b \in Seq(Octet), Len(b) >= 6
  PROVE  VerifyA5(b \o Trailer(b))
<1> DEFINE t == Trailer(b)
           f == b \o t
           n == Len(b)
           front == SubSeq(f, 1, Len(f) - 2)
           back == SubSeq(f, Len(f) - 1, Len(f))
<1>1. t \in Seq(Octet) /\ Len(t) = 2 /\ BigEndian(t) = Checksum(b) /\ n \in Nat
  BY TrailerBytes
<1> HIDE DEF t, n
<1>2. IsJoin(Octet, f, b, t)
  BY <1>1, Joined
<1> HIDE DEF f
<1>3. /\ f \in Seq(Octet) /\ Len(f) = n + 2
      /\ \A i \in 1..n : f[i] = b[i]
      /\ \A i \in 1..2 : f[n + i] = t[i]
  BY <1>1, <1>2 DEF IsJoin, n
<1>4. front = b
  <2>1. front \in Seq(Octet) /\ Len(front) = n /\ \A i \in 1..n : front[i] = f[i]
    BY <1>1, <1>3
  <2> HIDE DEF front
  <2> QED
    BY SMTT(30), <1>3, <2>1 DEF n
<1>5. back = t
  <2>1. back \in Seq(Octet) /\ Len(back) = 2 /\ \A i \in 1..2 : back[i] = f[n + i]
    BY <1>1, <1>3
  <2> HIDE DEF back
  <2>2. \A i \in 1..2 : back[i] = t[i]
    BY <1>3, <2>1
  <2> QED
    BY <1>1, <2>1, <2>2
<1>6. Len(f) >= 8
  BY <1>1, <1>3 DEF n
<1> QED
  BY <1>1, <1>4, <1>5, <1>6 DEF VerifyA5, AllBut, From, f, t

LEMMA BuiltVerifies ==
  ASSUME NEW h, \A i \in 1..4 : h[i] \in Octet, NEW p \in Seq(Octet), Len(p) \in Octet
  PROVE  VerifyA5(From(BuildA5(h, p), 4))
<1>1. Body(h, p) \in Seq(Octet) /\ Len(Body(h, p)) = 6 + Len(p) /\ Len(p) \in Nat
  BY BodyBytes
<1>2. From(BuildA5(h, p), 4) = Body(h, p) \o Trailer(Body(h, p))
  BY BuiltBytes
<1>3. Len(Body(h, p)) >= 6
  BY <1>1
<1> QED
  BY <1>1, <1>2, <1>3, TrailerVerifies

LEMMA LeastIs ==
  ASSUME NEW S, NEW k \in S, S \subseteq Int, \A n \in S : k <= n
  PROVE  Min(S) = k
<1>1. \A x \in S : (\A y \in S : x <= y) => x = k
  BY SMT
<1> QED
  BY <1>1 DEF Min

LEMMA MarkedAt ==
  ASSUME NEW raw, Len(raw) \in Nat, Len(raw) >= 4,
         raw[1] = 255, raw[2] = 0, raw[3] = 255, raw[4] = 165
  PROVE  A5At(raw) = 4
<1> DEFINE marks == {m \in 3..Len(raw) : raw[m] = 165 /\ raw[m - 1] = 255 /\ raw[m - 2] = 0}
<1>1. 4 \in marks
  OBVIOUS
<1>2. marks \subseteq Int
  OBVIOUS
<1>3. \A m \in marks : 4 <= m
  OBVIOUS
<1>4. Min(marks) = 4
  <2>1. PICK k : k = 4
    OBVIOUS
  <2>2. k \in marks /\ \A m \in marks : k <= m
    BY <1>1, <1>3, <2>1
  <2> HIDE DEF marks
  <2>3. Min(marks) = k
    BY <1>2, <2>2, LeastIs
  <2> QED
    BY <2>1, <2>3
<1> QED
  BY <1>1, <1>4 DEF A5At

LEMMA WithinBoth ==
  ASSUME NEW raw, NEW s \in Seq(Nat), NEW t \in Seq(Nat), Within(raw, s), Within(raw, t)
  PROVE  Within(raw, s \o t)
<1> DEFINE u == s \o t
           m == Len(s)
           n == Len(t)
<1>1. IsJoin(Nat, u, s, t)
  BY Joined
<1> HIDE DEF u
<1>2. /\ u \in Seq(Nat) /\ Len(u) = m + n /\ m \in Nat /\ n \in Nat
      /\ \A i \in 1..m : u[i] = s[i] /\ A5At(raw) + s[i] <= Len(raw)
      /\ \A i \in 1..n : u[m + i] = t[i] /\ A5At(raw) + t[i] <= Len(raw)
  BY SMTT(30), <1>1 DEF IsJoin, Within
<1> HIDE DEF m, n
<1>3. ASSUME NEW i \in 1..(m + n) PROVE A5At(raw) + u[i] <= Len(raw)
  <2>1. CASE i <= m
    <3>1. i \in 1..m
      BY <1>2, <2>1
    <3> QED
      BY <1>2, <3>1
  <2>2. CASE i > m
    <3>1. i - m \in 1..n /\ m + (i - m) = i
      BY <1>2, <2>2
    <3> QED
      BY <1>2, <3>1
  <2> QED
    BY <1>2, <2>1, <2>2
<1> QED
  BY <1>2, <1>3 DEF Within, u

LEMMA Shapes ==
  /\ Shape(134) = [type |-> "CircuitChange", at |-> <<6, 7>>, least |-> 2]
  /\ Shape(136) = [type |-> "HeatChange", at |-> <<6, 7, 8>>, least |-> 4]
  /\ Shape(2).type = "SystemStatus" /\ Shape(8).type = "TempStatus"
BY DEF Shape

(* A frame with the bytes of a write request is read as this request.      *)
LEMMA CircuitDecoded ==
  ASSUME NEW raw \in Seq(Octet), Len(raw) = 13, A5At(raw) = 4, raw[8] = 134, raw[9] = 2
  PROVE  DecodeA5(raw) = [type |-> "CircuitChange",
                          header |-> <<raw[5], raw[6], raw[7], 134, 2>>,
                          fields |-> <<raw[10], raw[11]>>]
<1> DEFINE shape == [type |-> "CircuitChange", at |-> <<6, 7>>, least |-> 2]
<1>1. Within(raw, HeaderAt) /\ Within(raw, <<6, 7>>) /\ Within(raw, <<4>>)
  BY DEF Within, HeaderAt
<1>2. HeaderAt \in Seq(Nat) /\ <<6, 7>> \in Seq(Nat)
  BY DEF HeaderAt
<1>3. Within(raw, HeaderAt \o <<6, 7>>)
  BY <1>1, <1>2, WithinBoth
<1>4. Values(raw, HeaderAt) = <<raw[5], raw[6], raw[7], 134, 2>>
  BY DEF Values, HeaderAt
<1>5. Values(raw, <<6, 7>>) = <<raw[10], raw[11]>>
  BY DEF Values
<1>6. Values(raw, <<4>>)[1] = 134
  BY DEF Values
<1>7. DecodeA5(raw) = ParseAs(Shape(134), raw)
  BY <1>1, <1>6 DEF DecodeA5, Commands
<1>8. ParseAs(shape, raw) = [type |-> "CircuitChange", header |-> Values(raw, HeaderAt),
                             fields |-> Values(raw, <<6, 7>>)]
  BY <1>3, <1>4 DEF ParseAs
<1> QED
  BY <1>4, <1>5, <1>7, <1>8, Shapes

LEMMA HeatDecoded ==
  ASSUME NEW raw \in Seq(Octet), Len(raw) = 15, A5At(raw) = 4, raw[8] = 136, raw[9] = 4
  PROVE  DecodeA5(raw) = [type |-> "HeatChange",
                          header |-> <<raw[5], raw[6], raw[7], 136, 4>>,
                          fields |-> <<raw[10], raw[11], raw[12]>>]
<1> DEFINE shape == [type |-> "HeatChange", at |-> <<6, 7, 8>>, least |-> 4]
<1>1. Within(raw, HeaderAt) /\ Within(raw, <<6, 7, 8>>) /\ Within(raw, <<4>>)
  BY DEF Within, HeaderAt
<1>2. HeaderAt \in Seq(Nat) /\ <<6, 7, 8>> \in Seq(Nat)
  BY DEF HeaderAt
<1>3. Within(raw, HeaderAt \o <<6, 7, 8>>)
  BY <1>1, <1>2, WithinBoth
<1>4. Values(raw, HeaderAt) = <<raw[5], raw[6], raw[7], 136, 4>>
  BY DEF Values, HeaderAt
<1>5. Values(raw, <<6, 7, 8>>) = <<raw[10], raw[11], raw[12]>>
  BY DEF Values
<1>6. Values(raw, <<4>>)[1] = 136
  BY DEF Values
<1>7. DecodeA5(raw) = ParseAs(Shape(136), raw)
  BY <1>1, <1>6 DEF DecodeA5, Commands
<1>8. ParseAs(shape, raw) = [type |-> "HeatChange", header |-> Values(raw, HeaderAt),
                             fields |-> Values(raw, <<6, 7, 8>>)]
  BY <1>3, <1>4 DEF ParseAs
<1> QED
  BY <1>4, <1>5, <1>7, <1>8, Shapes

(* A message of a write request, and what its bytes are decoded to.        *)
WriteMessage(m) ==
    /\ m.type \in Writes
    /\ m.header \in Seq(Octet) /\ Len(m.header) = 5
    /\ m.fields \in Seq(Octet) /\ Len(m.fields) = IF m.type = "CircuitChange" THEN 2 ELSE 3

OnOff(status) == IF status # 0 THEN 1 ELSE 0

Canonical(m) ==
    IF m.type = "CircuitChange"
    THEN [type |-> "CircuitChange",
          header |-> <<m.header[1], m.header[2], m.header[3], 134, 2>>,
          fields |-> <<m.fields[1], OnOff(m.fields[2])>>]
    ELSE [type |-> "HeatChange",
          header |-> <<m.header[1], m.header[2], m.header[3], 136, 4>>,
          fields |-> <<m.fields[1], m.fields[2], m.fields[3]>>]

(* A frame as it lies in a buffer, with its own LEN or another one.        *)
SyncFront(raw) ==
    /\ raw \in Seq(Octet) /\ Len(raw) \in {13, 15}
    /\ raw[1] = 255 /\ raw[2] = 0 /\ raw[3] = 255 /\ raw[4] = 165

FrontOfA5(raw) == SyncFront(raw) /\ raw[9] = Len(raw) - 11

BeginsSync(raw) ==
    /\ raw \in Seq(Octet) /\ Len(raw) >= 13
    /\ raw[1] = 255 /\ raw[2] = 0 /\ raw[3] = 255 /\ raw[4] = 165

LEMMA HexOfCircuit ==
  ASSUME NEW m, WriteMessage(m), m.type = "CircuitChange"
  PROVE  /\ FrontOfA5(ToHex(m))
         /\ ChecksumOk([kind |-> "a5", raw |-> ToHex(m)])
         /\ DecodeA5(ToHex(m)) = Canonical(m)
<1> DEFINE h == [m.header EXCEPT ![4] = 134]
           p == CircuitPayload(m.fields[1], m.fields[2])
           raw == BuildA5(h, p)
<1>1. /\ m.header \in Seq(Octet) /\ Len(m.header) = 5
      /\ m.fields \in Seq(Octet) /\ Len(m.fields) = 2
  BY DEF WriteMessage
<1>2. m.fields[1] \in Octet /\ m.fields[2] \in Octet
  BY <1>1
<1>3. p = <<m.fields[1], OnOff(m.fields[2])>>
  BY <1>2, LowOfOctet DEF CircuitPayload, OnOff
<1>4. 134 \in Octet /\ 0 \in Octet /\ 1 \in Octet /\ 2 \in Octet
  <2>1. 134 \in Octet
    BY OctetRange
  <2>2. 0 \in Octet
    BY OctetRange
  <2>3. 1 \in Octet
    BY OctetRange
  <2>4. 2 \in Octet
    BY OctetRange
  <2> QED
    BY <2>1, <2>2, <2>3, <2>4
<1>5. p \in Seq(Octet) /\ Len(p) = 2 /\ Len(p) \in Octet
  BY <1>2, <1>3, <1>4 DEF OnOff
<1>6. /\ h[1] = m.header[1] /\ h[2] = m.header[2] /\ h[3] = m.header[3] /\ h[4] = 134
      /\ \A i \in 1..4 : h[i] \in Octet
  BY <1>1, <1>4
<1>7. ToHex(m) = raw
  BY DEF ToHex
<1>8. p[1] = m.fields[1] /\ p[2] = OnOff(m.fields[2])
  BY <1>3
<1> HIDE DEF h, p
<1>9. /\ raw \in Seq(Octet) /\ Len(raw) = 11 + Len(p)
      /\ raw[1] = 255 /\ raw[2] = 0 /\ raw[3] = 255 /\ raw[4] = 165
      /\ \A i \in 1..4 : raw[4 + i] = h[i]
      /\ raw[9] = Len(p)
      /\ \A i \in 1..Len(p) : raw[9 + i] = p[i]
  <2>1. CraftedBytes(raw, h, p)
    BY <1>5, <1>6, BuiltBytes
  <2> HIDE DEF raw
  <2> QED
    BY <2>1 DEF CraftedBytes
<1>10. VerifyA5(From(raw, 4))
  BY <1>5, <1>6, BuiltVerifies
<1> HIDE DEF raw
<1>11. /\ Len(raw) = 13 /\ raw[9] = 2
       /\ raw[4 + 1] = h[1] /\ raw[4 + 2] = h[2] /\ raw[4 + 3] = h[3] /\ raw[4 + 4] = h[4]
       /\ raw[9 + 1] = p[1] /\ raw[9 + 2] = p[2]
  BY <1>5, <1>9
<1>12. /\ raw[5] = m.header[1] /\ raw[6] = m.header[2] /\ raw[7] = m.header[3]
       /\ raw[8] = 134 /\ raw[10] = m.fields[1] /\ raw[11] = OnOff(m.fields[2])
  BY <1>6, <1>8, <1>11
<1>13. A5At(raw) = 4
  BY <1>9, <1>11, MarkedAt
<1>14. DecodeA5(raw) = Canonical(m)
  BY <1>9, <1>11, <1>12, <1>13, CircuitDecoded DEF Canonical
<1>15. ChecksumOk([kind |-> "a5", raw |-> raw])
  BY <1>10, <1>13 DEF ChecksumOk
<1>16. FrontOfA5(raw)
  BY <1>9, <1>11 DEF FrontOfA5, SyncFront
<1> QED
  BY <1>7, <1>14, <1>15, <1>16

LEMMA HexOfHeat ==
  ASSUME NEW m, WriteMessage(m), m.type = "HeatChange"
  PROVE  /\ FrontOfA5(ToHex(m))
         /\ ChecksumOk([kind |-> "a5", raw |-> ToHex(m)])
         /\ DecodeA5(ToHex(m)) = Canonical(m)
<1> DEFINE h == [m.header EXCEPT ![4] = 136]
           p == HeatPayload(m.fields[1], m.fields[2], m.fields[3])
           raw == BuildA5(h, p)
<1>1. /\ m.header \in Seq(Octet) /\ Len(m.header) = 5
      /\ m.fields \in Seq(Octet) /\ Len(m.fields) = 3
  BY DEF WriteMessage
<1>2. m.fields[1] \in Octet /\ m.fields[2] \in Octet /\ m.fields[3] \in Octet
  BY <1>1
<1>3. p = <<m.fields[1], m.fields[2], m.fields[3], 0>>
  BY <1>2, LowOfOctet DEF HeatPayload
<1>4. 136 \in Octet /\ 0 \in Octet /\ 4 \in Octet
  <2>1. 136 \in Octet
    BY OctetRange
  <2>2. 0 \in Octet
    BY OctetRange
  <2>3. 4 \in Octet
    BY OctetRange
  <2> QED
    BY <2>1, <2>2, <2>3
<1>5. p \in Seq(Octet) /\ Len(p) = 4 /\ Len(p) \in Octet
  BY <1>2, <1>3, <1>4
<1>6. /\ h[1] = m.header[1] /\ h[2] = m.header[2] /\ h[3] = m.header[3] /\ h[4] = 136
      /\ \A i \in 1..4 : h[i] \in Octet
  BY <1>1, <1>4
<1>7. ToHex(m) = raw
  BY DEF ToHex
<1>8. p[1] = m.fields[1] /\ p[2] = m.fields[2] /\ p[3] = m.fields[3]
  BY <1>3
<1> HIDE DEF h, p
<1>9. /\ raw \in Seq(Octet) /\ Len(raw) = 11 + Len(p)
      /\ raw[1] = 255 /\ raw[2] = 0 /\ raw[3] = 255 /\ raw[4] = 165
      /\ \A i \in 1..4 : raw[4 + i] = h[i]
      /\ raw[9] = Len(p)
      /\ \A i \in 1..Len(p) : raw[9 + i] = p[i]
  <2>1. CraftedBytes(raw, h, p)
    BY <1>5, <1>6, BuiltBytes
  <2> HIDE DEF raw
  <2> QED
    BY <2>1 DEF CraftedBytes
<1>10. VerifyA5(From(raw, 4))
  BY <1>5, <1>6, BuiltVerifies
<1> HIDE DEF raw
<1>11. /\ Len(raw) = 15 /\ raw[9] = 4
       /\ raw[4 + 1] = h[1] /\ raw[4 + 2] = h[2] /\ raw[4 + 3] = h[3] /\ raw[4 + 4] = h[4]
       /\ raw[9 + 1] = p[1] /\ raw[9 + 2] = p[2] /\ raw[9 + 3] = p[3]
  BY <1>5, <1>9
<1>12. /\ raw[5] = m.header[1] /\ raw[6] = m.header[2] /\ raw[7] = m.header[3]
       /\ raw[8] = 136 /\ raw[10] = m.fields[1] /\ raw[11] = m.fields[2]
       /\ raw[12] = m.fields[3]
  BY <1>6, <1>8, <1>11
<1>13. A5At(raw) = 4
  BY <1>9, <1>11, MarkedAt
<1>14. DecodeA5(raw) = Canonical(m)
  BY <1>9, <1>11, <1>12, <1>13, HeatDecoded DEF Canonical
<1>15. ChecksumOk([kind |-> "a5", raw |-> raw])
  BY <1>10, <1>13 DEF ChecksumOk
<1>16. FrontOfA5(raw)
  BY <1>9, <1>11 DEF FrontOfA5, SyncFront
<1> QED
  BY <1>7, <1>14, <1>15, <1>16

LEMMA HexFacts ==
  ASSUME NEW m, WriteMessage(m)
  PROVE  /\ FrontOfA5(ToHex(m))
         /\ ChecksumOk([kind |-> "a5", raw |-> ToHex(m)])
         /\ DecodeA5(ToHex(m)) = Canonical(m)
<1>1. m.type = "CircuitChange" \/ m.type = "HeatChange"
  BY DEF WriteMessage, Writes
<1> QED
  BY <1>1, HexOfCircuit, HexOfHeat

(* The bytes of what is decoded are those it was decoded from.             *)
LEMMA HexAgain ==
  ASSUME NEW m, WriteMessage(m)
  PROVE  ToHex(Canonical(m)) = ToHex(m)
<1> DEFINE c == Canonical(m)
<1>1. CASE m.type = "CircuitChange"
  <2>1. /\ m.header \in Seq(Octet) /\ Len(m.header) = 5
        /\ m.fields \in Seq(Octet) /\ Len(m.fields) = 2
    BY <1>1 DEF WriteMessage
  <2> DEFINE g == [c.header EXCEPT ![4] = 134]
             h == [m.header EXCEPT ![4] = 134]
  <2>2. /\ c.type = "CircuitChange"
        /\ c.header = <<m.header[1], m.header[2], m.header[3], 134, 2>>
        /\ c.fields = <<m.fields[1], OnOff(m.fields[2])>>
    BY <1>1 DEF Canonical
  <2> HIDE DEF c
  <2>3. \A i \in 1..4 : g[i] = h[i]
    BY <2>1, <2>2
  <2>4. CircuitPayload(c.fields[1], c.fields[2]) = CircuitPayload(m.fields[1], m.fields[2])
    BY <2>2 DEF CircuitPayload, OnOff
  <2>5. ToHex(c) = BuildA5(g, CircuitPayload(c.fields[1], c.fields[2]))
    BY <2>2 DEF ToHex
  <2>6. ToHex(m) = BuildA5(h, CircuitPayload(m.fields[1], m.fields[2]))
    BY <1>1 DEF ToHex
  <2> HIDE DEF g, h
  <2>7. \A p : BuildA5(g, p) = BuildA5(h, p)
    <3>1. [i \in 1..4 |-> Low(g[i])] = [i \in 1..4 |-> Low(h[i])]
      BY <2>3
    <3> QED
      BY <3>1, Zenon DEF BuildA5
  <2> QED
    BY <2>4, <2>5, <2>6, <2>7 DEF c
<1>2. CASE m.type = "HeatChange"
  <2>1. /\ m.header \in Seq(Octet) /\ Len(m.header) = 5
        /\ m.fields \in Seq(Octet) /\ Len(m.fields) = 3
    BY <1>2 DEF WriteMessage
  <2> DEFINE g == [c.header EXCEPT ![4] = 136]
             h == [m.header EXCEPT ![4] = 136]
  <2>2. /\ c.type = "HeatChange"
        /\ c.header = <<m.header[1], m.header[2], m.header[3], 136, 4>>
        /\ c.fields = <<m.fields[1], m.fields[2], m.fields[3]>>
    BY <1>2 DEF Canonical
  <2> HIDE DEF c
  <2>3. \A i \in 1..4 : g[i] = h[i]
    BY <2>1, <2>2
  <2>4. HeatPayload(c.fields[1], c.fields[2], c.fields[3])
            = HeatPayload(m.fields[1], m.fields[2], m.fields[3])
    BY <2>2
  <2>5. ToHex(c) = BuildA5(g, HeatPayload(c.fields[1], c.fields[2], c.fields[3]))
    BY <2>2 DEF ToHex
  <2>6. ToHex(m) = BuildA5(h, HeatPayload(m.fields[1], m.fields[2], m.fields[3]))
    BY <1>2 DEF ToHex
  <2> HIDE DEF g, h
  <2>7. \A p : BuildA5(g, p) = BuildA5(h, p)
    <3>1. [i \in 1..4 |-> Low(g[i])] = [i \in 1..4 |-> Low(h[i])]
      BY <2>3
    <3> QED
      BY <3>1, Zenon DEF BuildA5
  <2> QED
    BY <2>4, <2>5, <2>6, <2>7 DEF c
<1> QED
  BY <1>1, <1>2 DEF WriteMessage, Writes

LEMMA FiveOf ==
  ASSUME NEW S, NEW u \in Seq(S), Len(u) = 5
  PROVE  u = <<u[1], u[2], u[3], u[4], u[5]>>
<1> DEFINE v == <<u[1], u[2], u[3], u[4], u[5]>>
<1>1. u[1] \in S /\ u[2] \in S /\ u[3] \in S /\ u[4] \in S /\ u[5] \in S
  OBVIOUS
<1>2. v \in Seq(S) /\ Len(v) = 5 /\ \A i \in 1..5 : v[i] = u[i]
  BY <1>1
<1> HIDE DEF v
<1>3. v = u
  BY <1>2
<1> QED
  BY <1>3 DEF v

LEMMA PrefixIs ==
  ASSUME NEW S, NEW t \in Seq(S), NEW u \in Seq(S), NEW n, n = Len(u), n <= Len(t),
         \A i \in 1..n : t[i] = u[i]
  PROVE  SubSeq(t, 1, n) = u
<1> DEFINE v == SubSeq(t, 1, n)
<1>1. v \in Seq(S) /\ Len(v) = n /\ \A i \in 1..n : v[i] = t[i]
  OBVIOUS
<1> HIDE DEF v
<1>2. v = u
  BY <1>1
<1> QED
  BY <1>2 DEF v

(* The message that is crafted from a request.                             *)
LEMMA BuiltIsWrite ==
  ASSUME NEW r \in Requests
  PROVE  WriteMessage(Built(r)) /\ Canonical(Built(r)) = Built(r)
<1> DEFINE m == Built(r)
           three == SubSeq(r.header, 1, 3)
<1>1. /\ r.type \in Writes
      /\ r.header \in Seq(Octet) /\ Len(r.header) = 3
      /\ r.fields \in Seq(Int) /\ Len(r.fields) = IF r.type = "CircuitChange" THEN 2 ELSE 3
  BY LabAssumption
<1>2. three = r.header /\ \A i \in 1..3 : r.header[i] \in Octet
  BY <1>1
<1>3. ASSUME NEW c \in Octet, NEW n \in Octet
      PROVE  three \o <<c, n>> = <<r.header[1], r.header[2], r.header[3], c, n>>
  <2> DEFINE t == <<c, n>>
             u == three \o t
  <2>1. t \in Seq(Octet) /\ Len(t) = 2 /\ t[1] = c /\ t[2] = n
    OBVIOUS
  <2>2. three \in Seq(Octet) /\ Len(three) = 3 /\ \A i \in 1..3 : three[i] = r.header[i]
    BY <1>1, <1>2
  <2> HIDE DEF three, t
  <2>3. IsJoin(Octet, u, three, t)
    BY <2>1, <2>2, Joined
  <2> HIDE DEF u
  <2>4. /\ u \in Seq(Octet) /\ Len(u) = 5
        /\ \A i \in 1..3 : u[i] = three[i]
        /\ \A i \in 1..2 : u[3 + i] = t[i]
    BY <2>1, <2>2, <2>3 DEF IsJoin
  <2>5. u[1] = three[1] /\ u[2] = three[2] /\ u[3] = three[3] /\ u[3 + 1] = c /\ u[3 + 2] = n
    BY <2>1, <2>4
  <2>6. /\ u[1] = r.header[1] /\ u[2] = r.header[2] /\ u[3] = r.header[3]
        /\ u[4] = c /\ u[5] = n
    BY <2>2, <2>5
  <2>7. u = <<u[1], u[2], u[3], u[4], u[5]>>
    BY <2>4, FiveOf
  <2> QED
    BY <2>6, <2>7 DEF u, t
<1>4. 134 \in Octet /\ 136 \in Octet /\ 2 \in Octet /\ 4 \in Octet
  <2>1. 134 \in Octet
    BY OctetRange
  <2>2. 136 \in Octet
    BY OctetRange
  <2>3. 2 \in Octet
    BY OctetRange
  <2>4. 4 \in Octet
    BY OctetRange
  <2> QED
    BY <2>1, <2>2, <2>3, <2>4
<1>5. CASE r.type = "CircuitChange"
  <2> DEFINE c == Low(r.fields[1])
             s == OnOff(r.fields[2])
  <2>1. r.fields[1] \in Int /\ r.fields[2] \in Int /\ Len(r.fields) = 2
    BY <1>1, <1>5
  <2>2. c \in Octet /\ s \in Octet
    <3>1. c \in Octet
      BY <2>1, LowTyped
    <3>2. 0 \in Octet
      BY OctetRange
    <3>3. 1 \in Octet
      BY OctetRange
    <3> QED
      BY <3>1, <3>2, <3>3 DEF OnOff
  <2>3. CircuitPayload(r.fields[1], r.fields[2]) = <<c, s>>
    BY DEF CircuitPayload, OnOff
  <2>4. OnOff(s) = s
    BY DEF OnOff
  <2> HIDE DEF c, s, three
  <2>5. m = [type |-> "CircuitChange",
             header |-> <<r.header[1], r.header[2], r.header[3], 134, 2>>,
             fields |-> <<c, s>>]
    <3>1. Len(<<c, s>>) = 2 /\ SubSeq(<<c, s>>, 1, 2) = <<c, s>>
      <4> DEFINE t == <<c, s>>
      <4>1. t \in Seq(Octet) /\ Len(t) = 2
        BY <2>2
      <4> HIDE DEF t
      <4>2. SubSeq(t, 1, 2) = t
        BY <4>1, PrefixIs
      <4> QED
        BY <4>1, <4>2 DEF t
    <3>2. m = [type |-> "CircuitChange", header |-> three \o <<134, 2>>, fields |-> <<c, s>>]
      BY <1>5, <2>1, <2>3, <3>1 DEF Built, three
    <3> QED
      BY <1>3, <1>4, <3>2
  <2> HIDE DEF m
  <2>6. WriteMessage(m)
    BY <1>2, <1>4, <2>2, <2>5 DEF WriteMessage, Writes
  <2>7. Canonical(m) = m
    BY <2>4, <2>5 DEF Canonical
  <2> QED
    BY <2>6, <2>7 DEF m
<1>6. CASE r.type = "HeatChange"
  <2> DEFINE p == Low(r.fields[1])
             s == Low(r.fields[2])
             d == Low(r.fields[3])
  <2>1. r.fields[1] \in Int /\ r.fields[2] \in Int /\ r.fields[3] \in Int /\ Len(r.fields) = 3
    BY <1>1, <1>6
  <2>2. p \in Octet /\ s \in Octet /\ d \in Octet
    BY <2>1, LowTyped
  <2>3. HeatPayload(r.fields[1], r.fields[2], r.fields[3]) = <<p, s, d, 0>>
    BY DEF HeatPayload
  <2> HIDE DEF p, s, d, three
  <2>5. m = [type |-> "HeatChange",
             header |-> <<r.header[1], r.header[2], r.header[3], 136, 4>>,
             fields |-> <<p, s, d>>]
    <3>1. Len(<<p, s, d, 0>>) = 4 /\ SubSeq(<<p, s, d, 0>>, 1, 3) = <<p, s, d>>
      <4> DEFINE t == <<p, s, d, 0>>
                 u == <<p, s, d>>
      <4>1. 0 \in Octet
        BY OctetRange
      <4>2. t \in Seq(Octet) /\ Len(t) = 4 /\ u \in Seq(Octet) /\ Len(u) = 3
        BY <2>2, <4>1
      <4>3. t[1] = u[1] /\ t[2] = u[2] /\ t[3] = u[3]
        OBVIOUS
      <4> HIDE DEF t, u
      <4>4. \A i \in 1..3 : t[i] = u[i]
        BY <4>3
      <4>5. SubSeq(t, 1, 3) = u
        BY <4>2, <4>4, PrefixIs
      <4> QED
        BY <4>2, <4>5 DEF t, u
    <3>2. m = [type |-> "HeatChange", header |-> three \o <<136, 4>>, fields |-> <<p, s, d>>]
      BY <1>6, <2>1, <2>3, <3>1 DEF Built, three
    <3> QED
      BY <1>3, <1>4, <3>2
  <2> HIDE DEF m
  <2>6. WriteMessage(m)
    BY <1>2, <1>4, <2>2, <2>5 DEF WriteMessage, Writes
  <2>7. Canonical(m) = m
    BY <2>5 DEF Canonical
  <2> QED
    BY <2>6, <2>7 DEF m
<1> QED
  BY <1>1, <1>5, <1>6 DEF Writes

-----------------------------------------------------------------------------
(* What decoding makes of any frame at all.                                *)

LEMMA LeastMark ==
  ASSUME NEW S, S \subseteq Nat, S # {}
  PROVE  Min(S) \in S /\ \A n \in S : Min(S) <= n
<1>1. PICK k \in S : \A n \in S : k <= n
  BY LeastNumber
<1>2. S \subseteq Int
  OBVIOUS
<1>3. Min(S) = k
  BY <1>1, <1>2, LeastIs
<1> QED
  BY <1>1, <1>3

LEMMA A5AtTyped ==
  ASSUME NEW raw \in Seq(Octet)
  PROVE  A5At(raw) \in Nat
<1> DEFINE marks == {m \in 3..Len(raw) : raw[m] = 165 /\ raw[m - 1] = 255 /\ raw[m - 2] = 0}
<1>1. marks \subseteq Nat
  OBVIOUS
<1> HIDE DEF marks
<1>2. marks # {} => Min(marks) \in Nat
  BY <1>1, LeastMark
<1> QED
  BY <1>2 DEF A5At, marks

LEMMA ValuesTyped ==
  ASSUME NEW raw \in Seq(Octet), NEW at \in Seq(Nat \ {0}), Within(raw, at)
  PROVE  /\ Values(raw, at) \in Seq(Octet) /\ Len(Values(raw, at)) = Len(at)
         /\ \A i \in 1..Len(at) : Values(raw, at)[i] = raw[A5At(raw) + at[i]]
<1> DEFINE a == A5At(raw)
<1>1. a \in Nat
  BY A5AtTyped
<1>2. ASSUME NEW i \in 1..Len(at) PROVE raw[a + at[i]] \in Octet
  <2>1. a + at[i] <= Len(raw) /\ at[i] \in Nat \ {0}
    BY DEF Within
  <2>2. a + at[i] \in 1..Len(raw)
    BY <1>1, <2>1
  <2> QED
    BY <2>2
<1> HIDE DEF a
<1> DEFINE v == [i \in 1..Len(at) |-> raw[a + at[i]]]
<1>3. v \in Seq(Octet) /\ Len(v) = Len(at)
  BY <1>2
<1>4. Values(raw, at) = v
  BY DEF Values, a
<1>5. \A i \in 1..Len(at) : v[i] = raw[a + at[i]]
  OBVIOUS
<1> HIDE DEF v
<1> QED
  BY <1>3, <1>4, <1>5 DEF a

LEMMA WithinParts ==
  ASSUME NEW raw, NEW s \in Seq(Nat), NEW t \in Seq(Nat), Within(raw, s \o t)
  PROVE  Within(raw, s) /\ Within(raw, t)
<1> DEFINE u == s \o t
           m == Len(s)
           n == Len(t)
<1>1. IsJoin(Nat, u, s, t)
  BY Joined
<1> HIDE DEF u
<1>2. /\ u \in Seq(Nat) /\ Len(u) = m + n /\ m \in Nat /\ n \in Nat
      /\ \A i \in 1..m : u[i] = s[i]
      /\ \A i \in 1..n : u[m + i] = t[i]
      /\ \A i \in 1..(m + n) : A5At(raw) + u[i] <= Len(raw)
  <2>1. Within(raw, u)
    BY DEF u
  <2>2. /\ u \in Seq(Nat) /\ Len(u) = m + n /\ m \in Nat /\ n \in Nat
        /\ \A i \in 1..m : u[i] = s[i]
        /\ \A i \in 1..n : u[m + i] = t[i]
    BY <1>1 DEF IsJoin
  <2>3. DOMAIN u = 1..(m + n)
    BY <2>2
  <2>4. \A i \in 1..(m + n) : A5At(raw) + u[i] <= Len(raw)
    BY <2>1, <2>3, Zenon DEF Within
  <2> QED
    BY <2>2, <2>4
<1> HIDE DEF m, n
<1>3. ASSUME NEW i \in 1..m PROVE A5At(raw) + s[i] <= Len(raw)
  <2>1. i \in 1..(m + n)
    BY <1>2
  <2>2. u[i] = s[i] /\ A5At(raw) + u[i] <= Len(raw)
    BY <1>2, <2>1
  <2> QED
    BY <2>2
<1>4. ASSUME NEW i \in 1..n PROVE A5At(raw) + t[i] <= Len(raw)
  <2>1. m + i \in 1..(m + n)
    BY <1>2
  <2>2. u[m + i] = t[i] /\ A5At(raw) + u[m + i] <= Len(raw)
    BY <1>2, <2>1
  <2> QED
    BY <2>2
<1>5. DOMAIN s = 1..m /\ DOMAIN t = 1..n
  BY DEF m, n
<1> QED
  BY <1>3, <1>4, <1>5 DEF Within

(* A write request is only decoded of its own command, with bytes enough.  *)
CommandOf(type) == IF type = "CircuitChange" THEN 134 ELSE 136
LeastOf(type)   == IF type = "CircuitChange" THEN 2 ELSE 4

LEMMA ParsedWrite ==
  ASSUME NEW raw \in Seq(Octet), NEW c \in {134, 136}, Values(raw, << 4 >>)[1] = c,
         ParseAs(Shape(c), raw).type \in Writes
  PROVE  LET m == ParseAs(Shape(c), raw)
         IN  /\ WriteMessage(m) /\ m.type = Shape(c).type /\ m.header[4] = CommandOf(m.type)
             /\ m.header[5] >= LeastOf(m.type)
<1> DEFINE at == Shape(c).at
           type == Shape(c).type
           m == ParseAs(Shape(c), raw)
<1>1. m # Raised
  BY DEF Raised, Writes
<1>2. /\ Within(raw, HeaderAt \o at) /\ Values(raw, HeaderAt)[5] >= Shape(c).least
      /\ m = [type |-> type, header |-> Values(raw, HeaderAt), fields |-> Values(raw, at)]
  BY <1>1 DEF ParseAs
<1>3. \/ c = 134 /\ type = "CircuitChange" /\ at = <<6, 7>> /\ Shape(c).least = 2
      \/ c = 136 /\ type = "HeatChange" /\ at = <<6, 7, 8>> /\ Shape(c).least = 4
  BY Shapes
<1> HIDE DEF at, type, m
<1>4. /\ at \in Seq(Nat \ {0}) /\ Len(at) = IF type = "CircuitChange" THEN 2 ELSE 3
      /\ at \in Seq(Nat)
      /\ HeaderAt \in Seq(Nat \ {0}) /\ Len(HeaderAt) = 5 /\ HeaderAt[4] = 4
      /\ HeaderAt \in Seq(Nat)
  <2>1. /\ HeaderAt \in Seq(Nat \ {0}) /\ Len(HeaderAt) = 5 /\ HeaderAt[4] = 4
        /\ HeaderAt \in Seq(Nat)
    BY DEF HeaderAt
  <2>2. CASE c = 134
    <3>1. type = "CircuitChange" /\ at = <<6, 7>>
      BY <1>3, <2>2
    <3> QED
      BY <2>1, <3>1
  <2>3. CASE c = 136
    <3>1. type = "HeatChange" /\ at = <<6, 7, 8>>
      BY <1>3, <2>3
    <3> QED
      BY <2>1, <3>1
  <2> QED
    BY <2>2, <2>3
<1>5. Within(raw, HeaderAt) /\ Within(raw, at)
  BY <1>2, <1>4, WithinParts
<1> DEFINE hd == Values(raw, HeaderAt)
           fs == Values(raw, at)
<1>6. /\ hd \in Seq(Octet) /\ Len(hd) = 5 /\ hd[4] = raw[A5At(raw) + 4]
      /\ fs \in Seq(Octet) /\ Len(fs) = IF type = "CircuitChange" THEN 2 ELSE 3
  <2>1. /\ hd \in Seq(Octet) /\ Len(hd) = Len(HeaderAt)
        /\ \A i \in 1..Len(HeaderAt) : hd[i] = raw[A5At(raw) + HeaderAt[i]]
    <3>1. HeaderAt \in Seq(Nat \ {0}) /\ Within(raw, HeaderAt)
      BY <1>4, <1>5
    <3>2. hd \in Seq(Octet)
      BY Zenon, <3>1, ValuesTyped
    <3>3. Len(hd) = Len(HeaderAt)
      BY Zenon, <3>1, ValuesTyped
    <3>4. \A i \in 1..Len(HeaderAt) : hd[i] = raw[A5At(raw) + HeaderAt[i]]
      BY <3>1 DEF Values
    <3> QED
      BY <3>2, <3>3, <3>4
  <2>2. fs \in Seq(Octet) /\ Len(fs) = Len(at)
    BY <1>4, <1>5, ValuesTyped
  <2> HIDE DEF hd, fs
  <2> QED
    BY <1>4, <2>1, <2>2
<1>7. Values(raw, <<4>>)[1] = raw[A5At(raw) + 4]
  BY DEF Values
<1>8. m = [type |-> type, header |-> hd, fields |-> fs]
  BY <1>2
<1>9. hd[5] >= Shape(c).least
  BY <1>2
<1> HIDE DEF hd, fs
<1>10. m.type = type /\ m.header = hd /\ m.fields = fs
  BY <1>8
<1>11. WriteMessage(m)
  BY <1>3, <1>6, <1>10 DEF WriteMessage, Writes
<1>12. m.header[4] = CommandOf(m.type) /\ m.header[5] >= LeastOf(m.type)
  BY <1>3, <1>6, <1>7, <1>9, <1>10 DEF CommandOf, LeastOf
<1> QED
  BY <1>10, <1>11, <1>12 DEF m, type

LEMMA DecodedWrite ==
  ASSUME NEW f, f.raw \in Seq(Octet), Decode(f).type \in Writes
  PROVE  /\ WriteMessage(Decode(f)) /\ Decode(f).header[4] = CommandOf(Decode(f).type)
         /\ Decode(f).header[5] >= LeastOf(Decode(f).type)
<1> DEFINE raw == f.raw
           c == Values(raw, <<4>>)[1]
<1>1. \A r, k : ParseUnknown(r, k).type \notin Writes
  BY DEF ParseUnknown, RawOnly, Writes
<1>2. Decode(f) = DecodeA5(raw)
  BY <1>1 DEF Decode, Quarantined, Writes
<1>3. c \in Commands /\ DecodeA5(raw) = ParseAs(Shape(c), raw)
  BY <1>1, <1>2 DEF DecodeA5, Raised, Writes
<1>4. c \in {134, 136}
  <2>1. CASE c = 2
    <3>1. ParseAs(Shape(c), raw).type \in {"SystemStatus", "ValueError"}
      BY <2>1, Shapes DEF ParseAs, Raised
    <3> QED
      BY <1>2, <1>3, <3>1 DEF Writes
  <2>2. CASE c = 8
    <3>1. ParseAs(Shape(c), raw).type \in {"TempStatus", "ValueError"}
      BY <2>2, Shapes DEF ParseAs, Raised
    <3> QED
      BY <1>2, <1>3, <3>1 DEF Writes
  <2> QED
    BY <1>3, <2>1, <2>2 DEF Commands
<1> HIDE DEF c
<1>5. Values(raw, <<4>>)[1] = c
  BY DEF c
<1> QED
  BY <1>2, <1>3, <1>4, <1>5, ParsedWrite

-----------------------------------------------------------------------------
(* The framer, of which this is an instance.                               *)

Raw == [kind : {"a5", "intellichlor"}, raw : Seq(Octet)]

(* Idle bytes in front of a frame are skipped, and then it is taken whole. *)
LEMMA LeadTyped == \A lead \in Seq({0, 255}) : lead \in Seq(Octet)
<1> SUFFICES ASSUME NEW lead \in Seq({0, 255}) PROVE lead \in Seq(Octet)
  OBVIOUS
<1>1. 0 \in Octet
  BY OctetRange
<1>2. 255 \in Octet
  BY OctetRange
<1>3. \A i \in 1..Len(lead) : lead[i] \in Octet
  BY <1>1, <1>2
<1>4. lead = [i \in 1..Len(lead) |-> lead[i]] /\ Len(lead) \in Nat
  OBVIOUS
<1> QED
  BY <1>3, <1>4

LiesBehind(lead, raw, b) ==
    /\ Bus!Synced(b) /\ Bus!Start(b) = Len(lead) + 1
    /\ Bus!A5AtFront(b) => lead = <<>>
    /\ ~ Bus!ICAtFront(b)
    /\ Bus!HeaderHere(b) /\ Bus!A5Length(b) = Len(lead) + (11 + raw[9])
    /\ SubSeq(b, Len(lead) + 1, Len(b)) = raw
    /\ b \in Seq(Octet)

LEMMA SyncBehindLead ==
  ASSUME NEW lead \in Seq({0, 255}), NEW raw, BeginsSync(raw), NEW b,
         IsJoin(Octet, b, lead, raw)
  PROVE  LiesBehind(lead, raw, b)
<1> DEFINE L == Len(lead)
           N == Len(raw)
<1>1. /\ raw \in Seq(Octet) /\ N \in Nat /\ N >= 13
      /\ raw[1] = 255 /\ raw[2] = 0 /\ raw[3] = 255 /\ raw[4] = 165
  BY DEF BeginsSync
<1>2. L \in Nat /\ \A i \in 1..L : lead[i] \in {0, 255}
  OBVIOUS
<1> HIDE DEF L, N
<1>4. /\ b \in Seq(Octet) /\ Len(b) = L + N
      /\ \A i \in 1..L : b[i] = lead[i]
      /\ \A i \in 1..N : b[L + i] = raw[i]
  BY DEF IsJoin, L, N
<1>5. /\ b[L + 1] = 255 /\ b[L + 2] = 0 /\ b[L + 3] = 255 /\ b[L + 4] = 165
      /\ b[L + 9] = raw[9]
  BY SMTT(30), <1>1, <1>4
<1>18. raw[9] \in Octet
  BY <1>1 DEF N
<1>6. ASSUME NEW i \in 1..(L + 3) PROVE b[i] \in {0, 255}
  <2>1. CASE i <= L
    <3>1. i \in 1..L
      BY <1>2, <2>1
    <3> QED
      BY <1>2, <1>4, <3>1
  <2>2. CASE i > L
    <3>1. i = L + 1 \/ i = L + 2 \/ i = L + 3
      BY <1>2, <2>2
    <3> QED
      BY <1>5, <3>1
  <2> QED
    BY <1>2, <2>1, <2>2
<1> DEFINE marks == Bus!A5Marks(b)
           stx == Bus!ICMarks(b)
<1>7. \A m \in marks \union stx : m \in Nat /\ m \in 1..Len(b) /\ (b[m] = 165 \/ b[m] = 16)
  BY <1>4 DEF Bus!A5Marks, Bus!ICMarks, Bus!Positions
<1>8. L + 4 \in marks /\ L + 4 \notin stx
  <2>1. L + 4 \in 1..Len(b) /\ L + 4 > 2 /\ (L + 4) - 1 = L + 3 /\ (L + 4) - 2 = L + 2
    BY <1>1, <1>2, <1>4
  <2> QED
    BY SMTT(30), <1>5, <2>1 DEF Bus!A5Marks, Bus!ICMarks, Bus!Positions
<1> HIDE DEF marks, stx
<1>9. \A m \in marks \union stx : L + 4 <= m
  <2> SUFFICES ASSUME NEW m \in marks \union stx, ~ (L + 4 <= m) PROVE FALSE
    OBVIOUS
  <2>1. m \in Nat /\ m \in 1..Len(b) /\ (b[m] = 165 \/ b[m] = 16)
    BY <1>7
  <2>2. m \in 1..(L + 3)
    BY <1>2, <2>1
  <2> QED
    BY <1>6, <2>1, <2>2
<1>10. Bus!Mark(b) = L + 4
  <2>1. marks \union stx \subseteq Int /\ L + 4 \in marks \union stx
    BY <1>7, <1>8
  <2>2. Min(marks \union stx) = L + 4
    <3>1. PICK k : k = L + 4
      OBVIOUS
    <3>2. k \in marks \union stx /\ \A m \in marks \union stx : k <= m
      BY <1>9, <2>1, <3>1
    <3>3. Min(marks \union stx) = k
      BY <2>1, <3>2, LeastIs
    <3> QED
      BY <3>1, <3>3
  <2>3. Bus!Min(marks \union stx) = Min(marks \union stx)
    BY DEF Bus!Min, Min
  <2> QED
    BY <2>2, <2>3 DEF Bus!Mark, marks, stx
<1>11. Bus!Synced(b)
  BY <1>8 DEF Bus!Synced, marks, stx
<1>12. Bus!Start(b) = L + 1
  <2>1. L + 4 > 3 /\ (L + 4) - 3 = L + 1
    BY <1>2
  <2> QED
    BY <1>5, <1>8, <1>10, <2>1 DEF Bus!Start, stx
<1>13. Bus!A5AtFront(b) => lead = <<>>
  <2> SUFFICES ASSUME Bus!A5AtFront(b) PROVE lead = <<>>
    OBVIOUS
  <2>1. L + 1 = 1
    BY <1>12 DEF Bus!A5AtFront
  <2>2. L = 0
    BY <1>2, <2>1
  <2> QED
    BY <1>2, <2>2 DEF L
<1>14. ~ Bus!ICAtFront(b)
  BY <1>8, <1>10 DEF Bus!ICAtFront, stx
<1>15. Bus!HeaderHere(b)
  <2>1. Len(b) >= (L + 4) + 5
    BY <1>1, <1>2, <1>4
  <2> QED
    BY <1>10, <2>1 DEF Bus!HeaderHere
<1>16. Bus!A5Length(b) = L + (11 + raw[9])
  <2>4. raw[9] % 256 = raw[9]
    BY <1>18, LowOfOctet DEF Low
  <2>5. raw[9] \in Int
    BY <1>18, OctetRange
  <2>1. (L + 4) + 5 = L + 9 /\ raw[9] % 256 = raw[9] /\ raw[9] \in Int
    BY <1>2, <2>4, <2>5
  <2>2. Bus!A5Length(b) = (((L + 4) + 5) + (b[(L + 4) + 5] % 256)) + 2
    BY <1>10 DEF Bus!A5Length
  <2>3. Bus!A5Length(b) = ((L + 9) + raw[9]) + 2
    BY <1>5, <2>1, <2>2
  <2> DEFINE n == raw[9]
             all == Bus!A5Length(b)
  <2>6. L \in Int /\ n \in Int /\ all = ((L + 9) + n) + 2
    BY <1>2, <2>1, <2>3
  <2> HIDE DEF n, all
  <2>7. all = L + (11 + n)
    BY ONLY <2>6
  <2> QED
    BY <2>7 DEF n, all
<1>17. SubSeq(b, L + 1, Len(b)) = raw
  <2> DEFINE u == SubSeq(b, L + 1, Len(b))
  <2>1. u \in Seq(Octet) /\ Len(u) = N /\ \A i \in 1..N : u[i] = b[L + i]
    BY <1>1, <1>2, <1>4
  <2> HIDE DEF u
  <2>2. raw \in Seq(Octet) /\ Len(raw) = N /\ \A i \in 1..N : u[i] = raw[i]
    BY <1>1, <1>4, <2>1 DEF N
  <2>3. u = raw
    BY SMTT(30), <2>1, <2>2
  <2> QED
    BY <2>3 DEF u
<1> QED
  BY <1>4, <1>11, <1>12, <1>13, <1>14, <1>15, <1>16, <1>17 DEF L, LiesBehind

(* A frame and what is on the bus behind it.                               *)
Follows(z, w, t) ==
    /\ IsJoin(Octet, z, w, t) /\ BeginsSync(z) /\ z[9] = w[9]
    /\ SubSeq(z, 1, Len(w)) = w

LEMMA SameBytes ==
  ASSUME NEW u \in Seq(Octet), NEW v \in Seq(Octet), Len(u) = Len(v),
         \A i \in 1..Len(u) : u[i] = v[i]
  PROVE  u = v
OBVIOUS

LEMMA FiveBytes ==
  ASSUME NEW h \in Seq(Octet), Len(h) = 5
  PROVE  h = <<h[1], h[2], h[3], h[4], h[5]>>
OBVIOUS

(* Offsets up to k are inside a frame that has k bytes behind its A5.      *)
LEMMA WithinLong ==
  ASSUME NEW raw, NEW at, NEW k, k <= 8,
         A5At(raw) = 4, Len(raw) \in Nat, 4 + k <= Len(raw), k \in Nat,
         \A i \in DOMAIN at : at[i] \in Nat /\ at[i] <= k
  PROVE  Within(raw, at)
BY DEF Within

LEMMA StreamFollows ==
  ASSUME NEW w, SyncFront(w), NEW t \in Seq(Octet)
  PROVE  Follows(w \o t, w, t)
<1> DEFINE z == w \o t
           N == Len(w)
           T == Len(t)
<1>1. /\ w \in Seq(Octet) /\ N \in Nat /\ N >= 13 /\ T \in Nat
      /\ w[1] = 255 /\ w[2] = 0 /\ w[3] = 255 /\ w[4] = 165
  <2>1. /\ w \in Seq(Octet) /\ N \in {13, 15} /\ T \in Nat
        /\ w[1] = 255 /\ w[2] = 0 /\ w[3] = 255 /\ w[4] = 165
    BY DEF SyncFront
  <2> HIDE DEF N
  <2> QED
    BY <2>1
<1>2. IsJoin(Octet, z, w, t)
  BY <1>1, Joined
<1> HIDE DEF z
<1>3. z \in Seq(Octet) /\ Len(z) = N + T /\ \A i \in 1..N : z[i] = w[i]
  BY <1>2 DEF IsJoin
<1>7. Len(w) = N
  OBVIOUS
<1> HIDE DEF N, T
<1>4. \A i \in {1, 2, 3, 4, 9} : i \in 1..N
  BY <1>1
<1>5. BeginsSync(z) /\ z[9] = w[9]
  BY <1>1, <1>3, <1>4 DEF BeginsSync
<1>6. SubSeq(z, 1, N) = w
  <2> DEFINE u == SubSeq(z, 1, N)
  <2>1. u \in Seq(Octet) /\ Len(u) = N /\ \A i \in 1..N : u[i] = z[i]
    BY <1>1, <1>3
  <2> HIDE DEF u
  <2>2. \A i \in 1..N : u[i] = w[i]
    BY <1>3, <2>1
  <2>3. u = w
    BY <1>1, <1>7, <2>1, <2>2
  <2> QED
    BY <2>3 DEF u
<1> QED
  BY <1>2, <1>5, <1>6 DEF Follows, z, N

(* Three in a row are one behind the other two, and two behind the first.  *)
LEMMA JoinedTwice ==
  ASSUME NEW S, NEW s \in Seq(S), NEW t \in Seq(S), NEW u \in Seq(S)
  PROVE  IsJoin(S, (s \o t) \o u, s, t \o u)
<1>1. t \o u \in Seq(S)
  BY ConcatProperties
<1>2. (s \o t) \o u = s \o (t \o u)
  BY ConcatAssociative
<1> DEFINE v == t \o u
<1>3. v \in Seq(S) /\ (s \o t) \o u = s \o v
  BY <1>1, <1>2
<1> HIDE DEF v
<1>4. IsJoin(S, s \o v, s, v)
  BY <1>3, Joined
<1> QED
  BY <1>3, <1>4 DEF v

(* Nothing begins in an empty buffer.                                      *)
LEMMA EmptyBuffer ==
  ~ Bus!Synced(<<>>) /\ ~ Bus!A5AtFront(<<>>) /\ ~ Bus!ICAtFront(<<>>)
<1>1. Bus!Positions(<<>>) = {}
  BY DEF Bus!Positions
<1>2. ~ Bus!Synced(<<>>)
  BY <1>1 DEF Bus!Synced, Bus!A5Marks, Bus!ICMarks
<1> QED
  BY <1>2 DEF Bus!A5AtFront, Bus!ICAtFront

(* Whatever is in the buffer, what is cut off it is a part of it.          *)
LEMMA FrontTyped ==
  ASSUME NEW b \in Seq(Octet), Bus!Synced(b)
  PROVE  Bus!Mark(b) \in Nat /\ Bus!Mark(b) >= 1 /\ Bus!Mark(b) <= Len(b) /\ Bus!Start(b) \in Nat
<1> DEFINE S == Bus!A5Marks(b) \union Bus!ICMarks(b)
<1>1. S # {} /\ S \subseteq Nat /\ \A m \in S : m >= 1 /\ m <= Len(b)
  BY DEF Bus!Synced, Bus!A5Marks, Bus!ICMarks, Bus!Positions
<1>2. Bus!Mark(b) = Min(S)
  BY DEF Bus!Mark, Bus!Min, Min
<1>3. \A m \in Bus!A5Marks(b) : m > 2
  BY DEF Bus!A5Marks, Bus!Positions
<1>4. \A m \in S : m \in Bus!ICMarks(b) \/ m > 2
  BY <1>3
<1> HIDE DEF S
<1>5. Min(S) \in S
  BY <1>1, LeastMark
<1>6. /\ Bus!Mark(b) \in Nat /\ Bus!Mark(b) >= 1 /\ Bus!Mark(b) <= Len(b)
      /\ Bus!Mark(b) \in Bus!ICMarks(b) \/ Bus!Mark(b) > 2
  BY <1>1, <1>2, <1>4, <1>5
<1>7. Bus!Start(b) \in Nat
  BY <1>6 DEF Bus!Start
<1> QED
  BY <1>6, <1>7

LEMMA CutTyped ==
  ASSUME NEW b \in Seq(Octet), NEW n \in Nat
  PROVE  /\ SubSeq(b, n + 1, Len(b)) \in Seq(Octet)
         /\ n <= Len(b) => SubSeq(b, 1, n) \in Seq(Octet)
OBVIOUS

-----------------------------------------------------------------------------
(* The invariant.                                                          *)

TypeInv ==
    /\ buf \in Seq(Octet) /\ frames \in Seq(Raw) /\ draining \in BOOLEAN
    /\ tail \in Seq(Octet)
    /\ item = NoItem \/ \E f \in Raw : item = Decode(f)

(* Nothing is on its way before something is put on the bus.               *)
QuietInv == origin = "none" => buf = <<>> /\ frames = <<>> /\ ~draining /\ item = NoItem

(* Frames are cut off the front, and begin with the sync that cut them or  *)
(* end with the delimiter.                                                 *)
Piece(s, b) ==
    \E a \in Nat : a + Len(s) <= Len(b) /\ \A n \in 1..Len(s) : s[n] = b[a + n]

Shaped(f) ==
    \/ /\ f.kind = "a5" /\ A5At(f.raw) \in {3, 4} /\ A5At(f.raw) + 7 <= Len(f.raw)
       /\ Len(f.raw) = A5At(f.raw) + f.raw[A5At(f.raw) + 5] + 7
    \/ /\ f.kind = "intellichlor" /\ Len(f.raw) >= 2
       /\ f.raw[Len(f.raw) - 1] = 16 /\ f.raw[Len(f.raw)] = 3

AllPieces ==
    \E lead \in Seq({0, 255}), b \in Seq(Octet) :
        /\ IsJoin(Octet, b, lead, Stream) /\ Piece(buf, b)
        /\ \A k \in 1..Len(frames) : Shaped(frames[k]) /\ Piece(frames[k].raw, b)

(* A request whose sync is as it was crafted: in the buffer behind its     *)
(* lead, waiting for more bytes than there are because of a LEN that is    *)
(* too large, or taken up to its LEN as the first of the frames, and the   *)
(* only one when nothing is behind it.                                     *)
Until      == 11 + wire[9]
InBuffer   == /\ frames = <<>> /\ draining
              /\ \E lead \in Seq({0, 255}) : IsJoin(Octet, buf, lead, Stream)
Waiting    == frames = <<>> /\ ~draining /\ ~ (Until <= Len(Stream))
FirstTaken == /\ frames # <<>> /\ Until <= Len(Stream)
              /\ frames[1] = [kind |-> "a5", raw |-> SubSeq(Stream, 1, Until)]
              /\ Until = Len(Stream) => Len(frames) = 1 /\ buf = <<>>

(* As it was crafted, or with one byte changed.                            *)
OneChange(m, bytes) ==
    /\ bytes \in Seq(Octet)
    /\ \E j : DifferAt(ToHex(m), bytes, j) /\ bytes[j] # ToHex(m)[j]

SentInv ==
    origin \in {"crafted", "changed"} =>
        /\ WriteMessage(asked) /\ Canonical(asked) = asked
        /\ origin = "crafted" => wire = ToHex(asked)
        /\ origin = "changed" => OneChange(asked, wire)
        /\ AllPieces
        /\ SyncFront(wire) => InBuffer \/ Waiting \/ FirstTaken
        /\ item = NoItem \/ item = Decode(frames[1])

(* Only the lab asks for anything, and only a frame is decoded.            *)
AskedInv   == origin \in {"crafted", "changed"} \/ asked = NoItem
DecodedInv == item = NoItem \/ (~draining /\ frames # <<>>)

LabInv == TypeInv /\ QuietInv /\ AskedInv /\ DecodedInv /\ SentInv

-----------------------------------------------------------------------------
(* One turn of the framer.                                                 *)

LEMMA DrainTyped ==
  ASSUME buf \in Seq(Octet), frames \in Seq(Raw), Bus!Drain
  PROVE  buf' \in Seq(Octet) /\ frames' \in Seq(Raw) /\ draining' \in BOOLEAN
<1>1. CASE Bus!NoSync
  <2>1. Len(buf) > 4 => Len(buf) - 3 \in Nat /\ (Len(buf) - 4) + 1 = Len(buf) - 3
                        /\ Len(buf) - 4 \in Nat
    OBVIOUS
  <2>2. Len(buf) > 4 => SubSeq(buf, Len(buf) - 3, Len(buf)) \in Seq(Octet)
    BY <2>1, CutTyped
  <2> QED
    BY <1>1, <2>2 DEF Bus!NoSync
<1>2. CASE Bus!SkipNoise
  <2>1. Bus!Start(buf) \in Nat /\ Bus!Start(buf) > 1
    BY <1>2, FrontTyped DEF Bus!SkipNoise
  <2>2. Bus!Start(buf) - 1 \in Nat
    BY <2>1
  <2> QED
    BY <1>2, <2>2, CutTyped DEF Bus!SkipNoise, Bus!Drop
<1>3. CASE Bus!TakeA5
  <2> DEFINE n == Bus!A5Length(buf)
  <2>1. n \in Nat /\ n <= Len(buf)
    <3>1. Bus!Mark(buf) \in Nat
      BY <1>3, FrontTyped DEF Bus!TakeA5, Bus!A5AtFront
    <3>2. Bus!Mark(buf) + 5 \in 1..Len(buf)
      BY <1>3, <3>1 DEF Bus!TakeA5, Bus!HeaderHere
    <3>3. buf[Bus!Mark(buf) + 5] \in Nat
      BY <3>2, OctetRange
    <3> QED
      BY <1>3, <3>1, <3>3 DEF Bus!TakeA5, Bus!A5Length
  <2> HIDE DEF n
  <2>2. SubSeq(buf, n + 1, Len(buf)) \in Seq(Octet) /\ SubSeq(buf, 1, n) \in Seq(Octet)
    BY <2>1, CutTyped
  <2>3. /\ frames' = Append(frames, [kind |-> "a5", raw |-> SubSeq(buf, 1, n)])
        /\ buf' = SubSeq(buf, n + 1, Len(buf)) /\ draining' = draining /\ draining
    BY <1>3 DEF Bus!TakeA5, Bus!Take, Bus!Drop, n
  <2>4. [kind |-> "a5", raw |-> SubSeq(buf, 1, n)] \in Raw
    BY <2>2 DEF Raw
  <2> QED
    BY <2>2, <2>3, <2>4
<1>4. CASE Bus!WaitA5
  BY <1>4 DEF Bus!WaitA5, Bus!Wait
<1>5. CASE Bus!TakeIC
  <2> DEFINE S == Bus!ICEnds(buf)
             n == Bus!Min(S) + 1
  <2>1. S # {} /\ S \subseteq Nat /\ \A e \in S : e < Len(buf)
    BY <1>5 DEF Bus!TakeIC, Bus!ICEnds, Bus!Positions
  <2> HIDE DEF S
  <2>2. Bus!Min(S) = Min(S)
    BY DEF Bus!Min, Min
  <2>3. n \in Nat /\ n <= Len(buf)
    <3>1. Min(S) \in S
      BY <2>1, LeastMark
    <3>2. Min(S) \in Nat /\ Min(S) < Len(buf)
      BY <2>1, <3>1
    <3> QED
      BY <2>2, <3>2
  <2>4. /\ frames' = Append(frames, [kind |-> "intellichlor", raw |-> SubSeq(buf, 1, n)])
        /\ buf' = SubSeq(buf, n + 1, Len(buf)) /\ draining' = draining /\ draining
    BY <1>5 DEF Bus!TakeIC, Bus!Take, Bus!Drop, S
  <2> HIDE DEF n
  <2>5. SubSeq(buf, n + 1, Len(buf)) \in Seq(Octet) /\ SubSeq(buf, 1, n) \in Seq(Octet)
    BY <2>3, CutTyped
  <2>6. [kind |-> "intellichlor", raw |-> SubSeq(buf, 1, n)] \in Raw
    BY <2>5 DEF Raw
  <2> QED
    BY <2>4, <2>5, <2>6
<1>6. CASE Bus!AbandonIC
  <2>1. 1 \in Nat
    OBVIOUS
  <2>2. SubSeq(buf, 1 + 1, Len(buf)) \in Seq(Octet)
    BY <2>1, CutTyped
  <2> QED
    BY <1>6, <2>2 DEF Bus!AbandonIC, Bus!Drop
<1>7. CASE Bus!WaitIC
  BY <1>7 DEF Bus!WaitIC, Bus!Wait
<1> QED
  BY <1>1, <1>2, <1>3, <1>4, <1>5, <1>6, <1>7 DEF Bus!Drain

LEMMA DrainEmpty ==
  ASSUME buf = <<>>, Bus!Drain
  PROVE  buf' = <<>> /\ frames' = frames
<1>1. ~ Bus!Synced(buf) /\ ~ Bus!A5AtFront(buf) /\ ~ Bus!ICAtFront(buf)
  BY EmptyBuffer
<1>2. Bus!NoSync
  BY <1>1 DEF Bus!Drain, Bus!SkipNoise, Bus!TakeA5, Bus!WaitA5, Bus!TakeIC, Bus!AbandonIC,
              Bus!WaitIC
<1>3. ~ (Len(buf) > 4)
  OBVIOUS
<1> QED
  BY <1>2, <1>3 DEF Bus!NoSync

-----------------------------------------------------------------------------
(* Frames are pieces of what came, each as long as its own LEN says.       *)

LEMMA PieceOfPiece ==
  ASSUME NEW b \in Seq(Octet), NEW s \in Seq(Octet), Piece(s, b),
         NEW lo \in Nat, lo >= 1, NEW hi \in Nat, hi <= Len(s), lo <= hi + 1
  PROVE  Piece(SubSeq(s, lo, hi), b)
<1> DEFINE t == SubSeq(s, lo, hi)
           m == Len(s)
           k == Len(b)
<1>1. PICK a \in Nat : a + Len(s) <= Len(b) /\ \A n \in 1..Len(s) : s[n] = b[a + n]
  BY DEF Piece
<1>2. /\ Len(t) = (hi - lo) + 1 /\ m \in Nat /\ k \in Nat /\ hi <= m
      /\ \A n \in 1..((hi - lo) + 1) : t[n] = s[(lo + n) - 1]
  OBVIOUS
<1>3. a + m <= k /\ \A n \in 1..m : s[n] = b[a + n]
  BY <1>1
<1> HIDE DEF t, m, k
<1>4. a + (lo - 1) \in Nat /\ (a + (lo - 1)) + Len(t) <= k
  BY <1>2, <1>3
<1>5. ASSUME NEW n \in 1..Len(t) PROVE t[n] = b[(a + (lo - 1)) + n]
  <2>1. (lo + n) - 1 \in 1..m /\ a + ((lo + n) - 1) = (a + (lo - 1)) + n
    BY <1>2
  <2> QED
    BY <1>2, <1>3, <1>5, <2>1
<1>6. \E c \in Nat : c + Len(t) <= k /\ \A n \in 1..Len(t) : t[n] = b[c + n]
  BY <1>4, <1>5
<1> QED
  BY <1>6 DEF Piece, t, k

(* What find_a5_index finds.                                               *)
Marked(raw, m) == /\ m \in 3..Len(raw) /\ raw[m] = 165
                  /\ raw[m - 1] = 255 /\ raw[m - 2] = 0

LEMMA MarkIsThere ==
  ASSUME NEW raw \in Seq(Octet), A5At(raw) # 0
  PROVE  Marked(raw, A5At(raw))
<1> DEFINE marks == {m \in 3..Len(raw) : raw[m] = 165 /\ raw[m - 1] = 255 /\ raw[m - 2] = 0}
<1>1. marks \subseteq Nat
  OBVIOUS
<1>2. \A m \in marks : /\ m \in 3..Len(raw) /\ raw[m] = 165
                        /\ raw[m - 1] = 255 /\ raw[m - 2] = 0
  OBVIOUS
<1>3. marks # {} /\ A5At(raw) = Min(marks)
  BY DEF A5At
<1> HIDE DEF marks
<1>4. A5At(raw) \in marks
  BY <1>1, <1>3, LeastMark
<1> QED
  BY <1>2, <1>4 DEF Marked

LEMMA FirstMarkIs ==
  ASSUME NEW raw \in Seq(Octet), NEW k \in 3..Len(raw),
         raw[k] = 165, raw[k - 1] = 255, raw[k - 2] = 0,
         \A m \in 3..Len(raw) : raw[m] = 165 /\ raw[m - 1] = 255 /\ raw[m - 2] = 0 => k <= m
  PROVE  A5At(raw) = k
<1> DEFINE marks == {m \in 3..Len(raw) : raw[m] = 165 /\ raw[m - 1] = 255 /\ raw[m - 2] = 0}
<1>1. k \in marks /\ marks \subseteq Int /\ \A m \in marks : k <= m
  OBVIOUS
<1>2. A5At(raw) = IF marks = {} THEN 0 ELSE Min(marks)
  BY DEF A5At
<1> HIDE DEF marks
<1>3. Min(marks) = k
  BY ONLY <1>1, LeastIs
<1> QED
  BY <1>1, <1>2, <1>3

(* One turn cuts off the front of the buffer; what it takes is a frame.    *)
Cuts(b, now, f) ==
    \E k \in 0..Len(b) : now = SubSeq(b, k + 1, Len(b)) /\ f.raw = SubSeq(b, 1, k)

LEMMA TakesA5 ==
  ASSUME buf \in Seq(Octet), Bus!TakeA5
  PROVE  \E f : Cuts(buf, buf', f) /\ Shaped(f) /\ frames' = Append(frames, f)
<1> DEFINE M == Bus!Mark(buf)
           n == Bus!A5Length(buf)
           raw == SubSeq(buf, 1, n)
           f == [kind |-> "a5", raw |-> raw]
           marks == Bus!A5Marks(buf)
<1>1. Bus!Synced(buf) /\ Bus!Start(buf) = 1 /\ M \in marks
      /\ Len(buf) >= M + 5 /\ Len(buf) >= n
  BY DEF Bus!TakeA5, Bus!A5AtFront, Bus!HeaderHere
<1>2. frames' = Append(frames, f) /\ buf' = SubSeq(buf, n + 1, Len(buf))
  BY DEF Bus!TakeA5, Bus!Take, Bus!Drop
<1>3. /\ M \in Nat /\ M > 2 /\ M <= Len(buf)
      /\ buf[M] = 165 /\ buf[M - 1] = 255 /\ buf[M - 2] = 0
  BY <1>1 DEF Bus!A5Marks, Bus!Positions
<1>4. M \in {3, 4}
  <2>1. M \notin Bus!ICMarks(buf)
    BY <1>3 DEF Bus!ICMarks
  <2> QED
    BY <1>1, <1>3, <2>1 DEF Bus!Start
<1>5. \A m \in marks : M <= m
  <2> DEFINE S == marks \union Bus!ICMarks(buf)
  <2>1. S \subseteq Nat /\ S # {}
    BY <1>1 DEF Bus!A5Marks, Bus!ICMarks, Bus!Positions
  <2>2. M = Min(S)
    BY DEF Bus!Mark, Bus!Min, Min
  <2> HIDE DEF M, S
  <2>3. \A m \in S : M <= m
    BY <2>1, <2>2, LeastMark
  <2> QED
    BY <2>3 DEF S
<1> DEFINE len == buf[M + 5]
<1>6. len \in Nat /\ n = ((M + 5) + len) + 2
  <2>1. M + 5 \in 1..Len(buf)
    BY <1>1, <1>3
  <2>2. len \in Octet
    BY <2>1
  <2>3. len % 256 = len /\ len \in Nat
    BY <2>2, LowOfOctet, OctetRange DEF Low
  <2>4. n = ((M + 5) + (len % 256)) + 2
    BY DEF Bus!A5Length
  <2> HIDE DEF n, len
  <2> QED
    BY <2>3, <2>4
<1> DEFINE L == Len(buf)
<1>7. \A m \in marks : m \in Nat /\ M <= m
  BY <1>5 DEF Bus!A5Marks, Bus!Positions
<1>8. \A m \in Nat : m > 2 /\ m <= L /\ buf[m] = 165 /\ buf[m - 1] = 255 /\ buf[m - 2] = 0
                       => M <= m
  BY <1>5 DEF Bus!A5Marks, Bus!Positions
<1>9. L \in Nat /\ n <= L
  BY <1>1
<1> HIDE DEF M, n, marks, len
<1>10. n \in Nat
  BY <1>3, <1>6
<1>11. raw \in Seq(Octet) /\ Len(raw) = n /\ \A i \in 1..n : raw[i] = buf[i]
  BY <1>9, <1>10
<1> HIDE DEF L, raw
<1>12. A5At(raw) = M
  <2>1. M \in 3..Len(raw) /\ raw[M] = 165 /\ raw[M - 1] = 255 /\ raw[M - 2] = 0
    <3>1. M \in 1..n /\ M - 1 \in 1..n /\ M - 2 \in 1..n /\ M >= 3
      BY <1>3, <1>6
    <3> QED
      BY <1>3, <1>11, <3>1
  <2>2. ASSUME NEW m \in 3..Len(raw), raw[m] = 165, raw[m - 1] = 255, raw[m - 2] = 0
        PROVE  M <= m
    <3>1. m \in 1..n /\ m - 1 \in 1..n /\ m - 2 \in 1..n /\ m \in Nat /\ m > 2 /\ m <= L
      BY <1>9, <1>10, <1>11
    <3>2. buf[m] = 165 /\ buf[m - 1] = 255 /\ buf[m - 2] = 0
      BY <1>11, <2>2, <3>1
    <3> QED
      BY <1>8, <3>1, <3>2
  <2> QED
    BY ONLY <1>11, <2>1, <2>2, FirstMarkIs
<1>13. raw[M + 5] = len
  <2>1. M + 5 \in 1..n
    BY <1>3, <1>6
  <2> QED
    BY <1>11, <2>1 DEF len
<1>14. Shaped(f)
  <2>1. M + 7 <= n /\ n = (M + len) + 7
    BY <1>3, <1>6
  <2> QED
    BY <1>4, <1>11, <1>12, <1>13, <2>1 DEF Shaped
<1>15. Cuts(buf, buf', f)
  <2>1. n \in 0..Len(buf) /\ f.raw = SubSeq(buf, 1, n)
    BY <1>9, <1>10 DEF L, raw
  <2> QED
    BY <1>2, <2>1 DEF Cuts
<1> QED
  BY <1>2, <1>14, <1>15

LEMMA TakesIC ==
  ASSUME buf \in Seq(Octet), Bus!TakeIC
  PROVE  \E f : Cuts(buf, buf', f) /\ Shaped(f) /\ frames' = Append(frames, f)
<1> DEFINE S == Bus!ICEnds(buf)
           n == Bus!Min(S) + 1
           raw == SubSeq(buf, 1, n)
           f == [kind |-> "intellichlor", raw |-> raw]
<1>1. /\ S # {} /\ S \subseteq Nat
      /\ \A e \in S : 3 <= e /\ e < Len(buf) /\ buf[e] = 16 /\ buf[e + 1] = 3
  BY DEF Bus!TakeIC, Bus!ICEnds, Bus!Positions
<1>2. frames' = Append(frames, f) /\ buf' = SubSeq(buf, n + 1, Len(buf))
  BY DEF Bus!TakeIC, Bus!Take, Bus!Drop
<1> HIDE DEF S
<1>4. n \in Nat /\ n >= 4 /\ n <= Len(buf) /\ buf[n - 1] = 16 /\ buf[n] = 3
  <2>1. Bus!Min(S) = Min(S)
    BY DEF Bus!Min, Min
  <2>2. Min(S) \in S
    BY <1>1, LeastMark
  <2>3. /\ Min(S) \in Nat /\ 3 <= Min(S) /\ Min(S) < Len(buf)
        /\ buf[Min(S)] = 16 /\ buf[Min(S) + 1] = 3
    BY <1>1, <2>2
  <2>4. (Min(S) + 1) - 1 = Min(S)
    BY <2>3
  <2> QED
    BY <2>1, <2>3, <2>4
<1> HIDE DEF n
<1>5. Len(raw) = n /\ raw[n - 1] = buf[n - 1] /\ raw[n] = buf[n]
  BY <1>4
<1>6. Shaped(f)
  <2>1. Len(raw) >= 2
    BY <1>4, <1>5
  <2> HIDE DEF raw
  <2> QED
    BY <1>4, <1>5, <2>1 DEF Shaped
<1>7. Cuts(buf, buf', f)
  <2>1. n \in 0..Len(buf) /\ f.raw = raw
    BY <1>4
  <2> QED
    BY <1>2, <2>1 DEF Cuts
<1> QED
  BY <1>2, <1>6, <1>7

LEMMA DrainCuts ==
  ASSUME buf \in Seq(Octet), Bus!Drain
  PROVE  \/ frames' = frames /\ \E k \in 0..Len(buf) : buf' = SubSeq(buf, k + 1, Len(buf))
         \/ \E f : Cuts(buf, buf', f) /\ Shaped(f) /\ frames' = Append(frames, f)
<1>0. SubSeq(buf, 0 + 1, Len(buf)) = buf /\ 0 \in 0..Len(buf)
  OBVIOUS
<1>1. CASE Bus!NoSync
  <2>1. CASE Len(buf) > 4
    <3>1. Len(buf) - 4 \in 0..Len(buf) /\ (Len(buf) - 4) + 1 = Len(buf) - 3
      BY <2>1
    <3>2. buf' = SubSeq(buf, (Len(buf) - 4) + 1, Len(buf)) /\ frames' = frames
      BY <1>1, <2>1, <3>1 DEF Bus!NoSync
    <3> QED
      BY <3>1, <3>2
  <2>2. CASE ~ (Len(buf) > 4)
    BY <1>0, <1>1, <2>2 DEF Bus!NoSync
  <2> QED
    BY <2>1, <2>2
<1>2. CASE Bus!SkipNoise
  <2> DEFINE k == Bus!Start(buf) - 1
  <2>1. k \in 0..Len(buf)
    <3>1. Bus!Mark(buf) \in Nat /\ Bus!Mark(buf) <= Len(buf) /\ Bus!Start(buf) > 1
      BY <1>2, FrontTyped DEF Bus!SkipNoise
    <3>2. Bus!Start(buf) <= Bus!Mark(buf) /\ Bus!Start(buf) \in Int
      BY <3>1 DEF Bus!Start
    <3> QED
      BY <3>1, <3>2
  <2>2. buf' = SubSeq(buf, k + 1, Len(buf)) /\ frames' = frames
    BY <1>2 DEF Bus!SkipNoise, Bus!Drop
  <2> QED
    BY <2>1, <2>2
<1>3. CASE Bus!TakeA5
  BY <1>3, TakesA5
<1>4. CASE Bus!TakeIC
  BY <1>4, TakesIC
<1>5. CASE Bus!AbandonIC
  <2>1. 1 \in 0..Len(buf)
    <3>1. Bus!Mark(buf) \in Nat /\ Bus!Mark(buf) >= 1 /\ Bus!Mark(buf) <= Len(buf)
      BY <1>5, FrontTyped DEF Bus!AbandonIC, Bus!ICAtFront
    <3> QED
      BY <3>1
  <2> QED
    BY <1>5, <2>1 DEF Bus!AbandonIC, Bus!Drop
<1>6. CASE Bus!WaitA5 \/ Bus!WaitIC
  BY <1>0, <1>6 DEF Bus!WaitA5, Bus!WaitIC, Bus!Wait
<1> QED
  BY <1>1, <1>2, <1>3, <1>4, <1>5, <1>6 DEF Bus!Drain

LEMMA DrainPieces ==
  ASSUME buf \in Seq(Octet), frames \in Seq(Raw), Bus!Drain, AllPieces,
         wire' = wire, tail' = tail
  PROVE  AllPieces'
<1>1. PICK lead \in Seq({0, 255}), b \in Seq(Octet) :
          /\ IsJoin(Octet, b, lead, Stream) /\ Piece(buf, b)
          /\ \A k \in 1..Len(frames) : Shaped(frames[k]) /\ Piece(frames[k].raw, b)
  BY DEF AllPieces
<1>2. ASSUME NEW k \in 0..Len(buf)
      PROVE  Piece(SubSeq(buf, k + 1, Len(buf)), b) /\ Piece(SubSeq(buf, 1, k), b)
  <2>1. /\ k + 1 \in Nat /\ k + 1 >= 1 /\ Len(buf) \in Nat /\ Len(buf) <= Len(buf)
        /\ k + 1 <= Len(buf) + 1 /\ 1 \in Nat /\ 1 >= 1 /\ k \in Nat /\ k <= Len(buf)
        /\ 1 <= k + 1
    OBVIOUS
  <2>2. Piece(SubSeq(buf, k + 1, Len(buf)), b)
    BY <1>1, <2>1, PieceOfPiece
  <2>3. Piece(SubSeq(buf, 1, k), b)
    BY <1>1, <2>1, PieceOfPiece
  <2> QED
    BY <2>2, <2>3
<1>3. SUFFICES /\ Piece(buf', b)
               /\ \A k \in 1..Len(frames') : Shaped(frames'[k]) /\ Piece(frames'[k].raw, b)
  <2>1. IsJoin(Octet, b, lead, Stream')
    BY <1>1 DEF Stream
  <2> QED
    BY <2>1, Zenon DEF AllPieces
<1>4. CASE frames' = frames /\ \E k \in 0..Len(buf) : buf' = SubSeq(buf, k + 1, Len(buf))
  BY <1>1, <1>2, <1>4
<1>5. CASE \E f : Cuts(buf, buf', f) /\ Shaped(f) /\ frames' = Append(frames, f)
  <2>1. PICK f : Cuts(buf, buf', f) /\ Shaped(f) /\ frames' = Append(frames, f)
    BY <1>5
  <2>2. Piece(buf', b) /\ Piece(f.raw, b)
    BY <1>2, <2>1 DEF Cuts
  <2>3. Len(frames') = Len(frames) + 1 /\ Len(frames) \in Nat
        /\ \A k \in 1..(Len(frames) + 1) :
              frames'[k] = IF k = Len(frames) + 1 THEN f ELSE frames[k]
    BY <2>1
  <2>4. ASSUME NEW k \in 1..Len(frames') PROVE Shaped(frames'[k]) /\ Piece(frames'[k].raw, b)
    <3>1. CASE k = Len(frames) + 1
      BY <2>1, <2>2, <2>3, <3>1
    <3>2. CASE k # Len(frames) + 1
      <4>1. k \in 1..Len(frames) /\ frames'[k] = frames[k]
        BY <2>3, <3>2
      <4> QED
        BY <1>1, <4>1
    <3> QED
      BY <3>1, <3>2
  <2> QED
    BY <2>2, <2>4
<1> QED
  BY <1>4, <1>5, DrainCuts

(* The first frame stays the first.                                        *)
LEMMA DrainFirst ==
  ASSUME buf \in Seq(Octet), frames \in Seq(Raw), Bus!Drain, frames # <<>>
  PROVE  frames' # <<>> /\ frames'[1] = frames[1]
<1>1. frames' = frames \/ \E f : frames' = Append(frames, f)
  BY DrainCuts
<1>2. Len(frames) \in Nat /\ Len(frames) # 0
  OBVIOUS
<1>3. \A f : Append(frames, f) # <<>> /\ Append(frames, f)[1] = frames[1]
  BY <1>2
<1> QED
  BY <1>1, <1>3

(* A request that begins as it should is taken up to its LEN.              *)
LEMMA DrainSync ==
  ASSUME InBuffer, SyncFront(wire), tail \in Seq(Octet), Bus!Drain, wire' = wire, tail' = tail
  PROVE  (InBuffer \/ Waiting \/ FirstTaken)'
<1> DEFINE z == Stream
<1>0. z' = z /\ Until' = Until /\ Follows(z, wire, tail)
  BY StreamFollows DEF Stream, Until
<1>7. BeginsSync(z) /\ z[9] = wire[9] /\ z \in Seq(Octet)
  BY <1>0 DEF Follows, BeginsSync
<1>8. PICK lead \in Seq({0, 255}) : IsJoin(Octet, buf, lead, z)
  BY DEF InBuffer
<1>1. frames = <<>> /\ draining
  BY DEF InBuffer
<1>9. Until \in Int
  <2>1. wire[9] \in Octet
    BY DEF SyncFront
  <2> DEFINE n == wire[9]
  <2>2. n \in Int
    BY <2>1, OctetRange
  <2> HIDE DEF n
  <2>3. 11 + n \in Int
    BY <2>2
  <2> QED
    BY <2>3 DEF n, Until
<1>10. (InBuffer' <=> /\ frames' = <<>> /\ draining'
                      /\ \E one \in Seq({0, 255}) : IsJoin(Octet, buf', one, z))
       /\ (Waiting' <=> frames' = <<>> /\ ~draining' /\ ~ (Until <= Len(z)))
       /\ (FirstTaken' <=> /\ frames' # <<>> /\ Until <= Len(z)
                           /\ frames'[1] = [kind |-> "a5", raw |-> SubSeq(z, 1, Until)]
                           /\ Until = Len(z) => Len(frames') = 1 /\ buf' = <<>>)
  BY <1>0 DEF InBuffer, Waiting, FirstTaken
<1> HIDE DEF z
<1>2. /\ Bus!Synced(buf) /\ Bus!Start(buf) = Len(lead) + 1
      /\ Bus!A5AtFront(buf) => lead = <<>>
      /\ ~ Bus!ICAtFront(buf)
      /\ Bus!HeaderHere(buf) /\ Bus!A5Length(buf) = Len(lead) + Until
      /\ SubSeq(buf, Len(lead) + 1, Len(buf)) = z
      /\ buf \in Seq(Octet)
  BY <1>7, <1>8, SyncBehindLead DEF LiesBehind, Until
<1>3. Bus!SkipNoise \/ Bus!TakeA5 \/ Bus!WaitA5
  BY <1>2 DEF Bus!Drain, Bus!NoSync, Bus!TakeIC, Bus!AbandonIC, Bus!WaitIC
<1>4. CASE Bus!SkipNoise
  <2>1. buf' = z
    <3>1. Len(lead) \in Nat /\ ((Len(lead) + 1) - 1) + 1 = Len(lead) + 1
      OBVIOUS
    <3>2. buf' = SubSeq(buf, (Bus!Start(buf) - 1) + 1, Len(buf))
      BY <1>4 DEF Bus!SkipNoise, Bus!Drop
    <3> QED
      BY <1>2, <3>1, <3>2
  <2>2. IsJoin(Octet, buf', <<>>, z)
    BY <1>7, <2>1 DEF IsJoin
  <2>3. <<>> \in Seq({0, 255})
    OBVIOUS
  <2>4. frames' = <<>> /\ draining'
    BY <1>1, <1>4 DEF Bus!SkipNoise, Bus!Drop
  <2> QED
    BY <1>10, <2>2, <2>3, <2>4
<1>5. CASE Bus!A5AtFront(buf)
  <2>1. lead = <<>> /\ Len(lead) = 0
    BY <1>2, <1>5
  <2>2. buf = z
    <3>1. SubSeq(buf, 1, Len(buf)) = buf
      BY <1>2
    <3> QED
      BY <1>2, <2>1, <3>1
  <2>3. Bus!A5Length(buf) = Until
    <3>1. 0 + Until = Until
      BY <1>9
    <3> QED
      BY <1>2, <2>1, <3>1
  <2> DEFINE f == [kind |-> "a5", raw |-> SubSeq(z, 1, Until)]
  <2>4. CASE Bus!TakeA5
    <3>1. frames' = Append(frames, f) /\ Until <= Len(z)
          /\ buf' = SubSeq(z, Until + 1, Len(z))
      BY <1>9, <2>2, <2>3, <2>4 DEF Bus!TakeA5, Bus!Take, Bus!Drop
    <3>2. frames' = <<f>>
      BY <1>1, <3>1
    <3>3. frames' # <<>> /\ frames'[1] = f /\ Len(frames') = 1
      BY <3>2
    <3>4. Until = Len(z) => buf' = <<>>
      BY <1>7, <3>1
    <3> QED
      BY <1>10, <3>1, <3>3, <3>4
  <2>5. CASE Bus!WaitA5
    <3>1. frames' = <<>> /\ ~draining'
      BY <1>1, <2>5 DEF Bus!WaitA5, Bus!Wait
    <3>2. Len(z) < Until
      BY <1>2, <2>2, <2>3, <2>5 DEF Bus!WaitA5
    <3>3. Len(z) \in Int
      BY <1>7
    <3>4. ~ (Until <= Len(z))
      BY <1>9, <3>2, <3>3
    <3> QED
      BY <1>10, <3>1, <3>4
  <2>6. ~ Bus!SkipNoise
    <3>1. ~ (Bus!Start(buf) > 1)
      BY <1>2, <2>1
    <3> QED
      BY <3>1 DEF Bus!SkipNoise
  <2> QED
    BY <1>3, <2>4, <2>5, <2>6
<1>6. Bus!TakeA5 \/ Bus!WaitA5 => Bus!A5AtFront(buf)
  BY DEF Bus!TakeA5, Bus!WaitA5
<1> QED
  BY <1>3, <1>4, <1>5, <1>6

-----------------------------------------------------------------------------
(* What is put on the bus.                                                 *)

LEMMA DeviceTyped ==
  ASSUME NEW f \in Received
  PROVE  LET bytes == BuildA5(<<0, 15, 16, f.command>>, [i \in 1..f.length |-> f.fill])
         IN  bytes \in Seq(Octet) /\ [bytes EXCEPT ![Len(bytes)] = Low(@ + 1)] \in Seq(Octet)
<1> DEFINE h == <<0, 15, 16, f.command>>
           p == [i \in 1..f.length |-> f.fill]
           bytes == BuildA5(h, p)
<1>1. f.command \in Octet /\ f.length \in Octet /\ f.fill \in Octet
  BY LabAssumption
<1>2. f.length \in Nat
  BY <1>1, OctetRange
<1>3. p \in Seq(Octet) /\ Len(p) = f.length
  BY <1>1, <1>2
<1>4. \A i \in 1..4 : h[i] \in Octet
  <2>1. 0 \in Octet
    BY OctetRange
  <2>2. 15 \in Octet
    BY OctetRange
  <2>3. 16 \in Octet
    BY OctetRange
  <2> QED
    BY <1>1, <2>1, <2>2, <2>3
<1> HIDE DEF h, p
<1>5. CraftedBytes(bytes, h, p)
  BY <1>1, <1>3, <1>4, BuiltBytes
<1> HIDE DEF bytes
<1>6. bytes \in Seq(Octet) /\ Len(bytes) = 11 + f.length
  BY <1>3, <1>5 DEF CraftedBytes
<1>7. Len(bytes) \in 1..Len(bytes)
  BY <1>2, <1>6
<1>8. Low(bytes[Len(bytes)] + 1) \in Octet
  <2>1. bytes[Len(bytes)] + 1 \in Int
    BY <1>6, <1>7, OctetRange
  <2> QED
    BY <2>1, LowTyped
<1>9. [bytes EXCEPT ![Len(bytes)] = Low(@ + 1)] \in Seq(Octet)
  BY <1>6, <1>7, <1>8, ByteChanged
<1> QED
  BY <1>6, <1>9 DEF bytes, h, p

(* What is put on the bus is in the buffer, and the rest is as it was.     *)
Placed(lead, w, t) ==
    /\ lead \in Seq({0, 255}) /\ t \in Seq(Octet) /\ TypeInv'
    /\ wire' = w /\ tail' = t /\ Stream' = w \o t /\ IsJoin(Octet, buf', lead, w \o t)
    /\ buf' \in Seq(Octet) /\ frames' = <<>> /\ draining' /\ item' = NoItem

LEMMA PutPlaces ==
  ASSUME NEW bytes \in Seq(Octet), NEW lead \in Leads, NEW rest \in Tails, NEW how, NEW message,
         QuietInv, origin = "none", Put(bytes, lead, rest, how, message)
  PROVE  Placed(lead, bytes, rest)
<1>1. lead \in Seq({0, 255}) /\ lead \in Seq(Octet) /\ rest \in Seq(Octet)
  BY LabAssumption, LeadTyped
<1>2. buf = <<>> /\ item = NoItem
  BY DEF QuietInv
<1> DEFINE d == (lead \o bytes) \o rest
<1>3. /\ buf' = buf \o d /\ frames' = <<>> /\ draining' = TRUE
      /\ item' = item /\ wire' = bytes /\ tail' = rest
  BY DEF Put, Bus!Feed
<1>4. IsJoin(Octet, d, lead, bytes \o rest)
  BY <1>1, JoinedTwice
<1> HIDE DEF d
<1>5. d \in Seq(Octet)
  BY <1>4 DEF IsJoin
<1>6. buf' = d
  BY <1>2, <1>3, <1>5, NothingJoined
<1>7. <<>> \in Seq(Raw)
  OBVIOUS
<1>8. TypeInv'
  BY <1>1, <1>2, <1>3, <1>5, <1>6, <1>7 DEF TypeInv
<1>9. Stream' = bytes \o rest
  BY <1>3 DEF Stream
<1> QED
  BY <1>1, <1>2, <1>3, <1>4, <1>5, <1>6, <1>8, <1>9 DEF Placed

(* A request, changed or not, begins its way in the buffer.                *)
LEMMA PlacedIsSent ==
  ASSUME NEW lead, NEW w, NEW t, Placed(lead, w, t)
  PROVE  InBuffer' /\ AllPieces'
<1>1. /\ lead \in Seq({0, 255}) /\ IsJoin(Octet, buf', lead, Stream')
      /\ buf' \in Seq(Octet) /\ frames' = <<>> /\ draining'
  BY DEF Placed
<1>2. InBuffer'
  BY <1>1 DEF InBuffer
<1>3. Piece(buf', buf')
  <2> DEFINE d == buf'
             n == Len(d)
  <2>1. n \in Nat
    BY <1>1
  <2> HIDE DEF d, n
  <2>2. 0 \in Nat /\ 0 + n <= n /\ \A k \in 1..n : d[k] = d[0 + k]
    BY <2>1
  <2>3. Piece(d, d)
    BY <2>2 DEF Piece, n
  <2> QED
    BY <2>3 DEF d
<1>4. \A k \in 1..Len(frames') : Shaped(frames'[k]) /\ Piece(frames'[k].raw, buf')
  <2>1. Len(frames') = 0
    BY <1>1
  <2> QED
    BY <2>1
<1>5. AllPieces'
  BY <1>1, <1>3, <1>4, Zenon DEF AllPieces
<1> QED
  BY <1>2, <1>5

LEMMA SendKeeps ==
  ASSUME NEW r \in Requests, NEW lead \in Leads, NEW rest \in Tails,
         QuietInv, origin = "none", Send(r, lead, rest)
  PROVE  LabInv'
<1> DEFINE m == Built(r)
           bytes == ToHex(m)
<1>1. WriteMessage(m) /\ Canonical(m) = m
  BY BuiltIsWrite
<1>2. Put(bytes, lead, rest, "crafted", m)
  BY DEF Send
<1> HIDE DEF m
<1>3. bytes \in Seq(Octet)
  BY <1>1, HexFacts DEF FrontOfA5, SyncFront
<1> HIDE DEF bytes
<1>4. Placed(lead, bytes, rest)
  BY <1>2, <1>3, PutPlaces
<1>5. origin' = "crafted" /\ asked' = m
  BY <1>2 DEF Put
<1>6. InBuffer' /\ AllPieces'
  BY <1>4, PlacedIsSent
<1>7. TypeInv' /\ wire' = bytes /\ item' = NoItem
  BY <1>4 DEF Placed
<1>8. SentInv'
  BY <1>1, <1>5, <1>6, <1>7 DEF SentInv, bytes
<1> QED
  BY <1>5, <1>7, <1>8 DEF LabInv, QuietInv, AskedInv, DecodedInv

LEMMA SendChangedKeeps ==
  ASSUME NEW r \in Requests, NEW lead \in Leads, NEW rest \in Tails,
         NEW i \in 1..15, NEW v \in Changes,
         QuietInv, origin = "none", SendChanged(r, lead, rest, i, v)
  PROVE  LabInv'
<1> DEFINE m == Built(r)
           bytes == ToHex(m)
           other == [bytes EXCEPT ![i] = v]
<1>1. WriteMessage(m) /\ Canonical(m) = m
  BY BuiltIsWrite
<1>2. i \in 1..Len(bytes) /\ bytes[i] # v /\ v \in Octet
  <2>1. FrontOfA5(bytes)
    BY <1>1, HexFacts
  <2>2. Len(bytes) \in Nat
    BY <2>1 DEF FrontOfA5, SyncFront
  <2> QED
    BY <2>2, LabAssumption DEF SendChanged
<1>3. Put(other, lead, rest, "changed", m)
  BY DEF SendChanged
<1> HIDE DEF m
<1>4. bytes \in Seq(Octet)
  BY <1>1, HexFacts DEF FrontOfA5, SyncFront
<1>5. /\ other \in Seq(Octet) /\ Len(other) = Len(bytes)
      /\ \A n \in 1..Len(bytes) : other[n] = IF n = i THEN v ELSE bytes[n]
  BY <1>2, <1>4, ByteChanged
<1> HIDE DEF other
<1>6. DifferAt(bytes, other, i) /\ other[i] # bytes[i]
  BY <1>2, <1>5 DEF DifferAt
<1>7. OneChange(m, other)
  BY <1>5, <1>6 DEF OneChange
<1>8. Placed(lead, other, rest)
  BY <1>3, <1>5, PutPlaces
<1>9. origin' = "changed" /\ asked' = m
  BY <1>3 DEF Put
<1>10. InBuffer' /\ AllPieces'
  BY <1>8, PlacedIsSent
<1>11. TypeInv' /\ wire' = other /\ item' = NoItem
  BY <1>8 DEF Placed
<1>12. SentInv'
  BY <1>1, <1>7, <1>9, <1>10, <1>11 DEF SentInv
<1> QED
  BY <1>9, <1>11, <1>12 DEF LabInv, QuietInv, AskedInv, DecodedInv

LEMMA DeviceKeeps ==
  ASSUME NEW f \in Received, NEW lead \in Leads, NEW rest \in Tails,
         QuietInv, origin = "none", Device(f, lead, rest)
  PROVE  LabInv'
<1> DEFINE bytes == BuildA5(<<0, 15, 16, f.command>>, [i \in 1..f.length |-> f.fill])
           sent == IF f.ok THEN bytes ELSE [bytes EXCEPT ![Len(bytes)] = Low(@ + 1)]
<1>1. sent \in Seq(Octet)
  BY DeviceTyped
<1>2. Put(sent, lead, rest, "received", NoItem)
  BY DEF Device
<1> HIDE DEF sent
<1>3. Placed(lead, sent, rest)
  BY <1>1, <1>2, PutPlaces
<1>4. origin' = "received" /\ asked' = NoItem
  BY <1>2 DEF Put
<1>5. TypeInv' /\ item' = NoItem
  BY <1>3 DEF Placed
<1> QED
  BY <1>4, <1>5 DEF LabInv, QuietInv, AskedInv, DecodedInv, SentInv

-----------------------------------------------------------------------------
(* Every step.                                                             *)

LEMMA InitLab == Init => LabInv
<1>1. <<>> \in Seq(Octet) /\ <<>> \in Seq(Raw)
  OBVIOUS
<1> QED
  BY <1>1 DEF Init, Bus!Init, LabInv, TypeInv, QuietInv, AskedInv, DecodedInv, SentInv

LEMMA ReadKeeps ==
  ASSUME LabInv, Read
  PROVE  LabInv'
<1>1. /\ Bus!Drain /\ wire' = wire /\ tail' = tail /\ asked' = asked
      /\ origin' = origin /\ item' = item
  BY DEF Read
<1>2. draining
  BY <1>1 DEF Bus!Drain, Bus!NoSync, Bus!SkipNoise, Bus!TakeA5, Bus!WaitA5, Bus!TakeIC,
              Bus!AbandonIC, Bus!WaitIC
<1>3. origin # "none" /\ item = NoItem
  BY <1>2 DEF LabInv, QuietInv, DecodedInv
<1>4. buf \in Seq(Octet) /\ frames \in Seq(Raw) /\ tail \in Seq(Octet)
  BY DEF LabInv, TypeInv
<1>5. TypeInv'
  <2>1. buf' \in Seq(Octet) /\ frames' \in Seq(Raw) /\ draining' \in BOOLEAN
    BY <1>1, <1>4, DrainTyped
  <2> QED
    BY <1>1, <1>3, <1>4, <2>1 DEF TypeInv
<1>6. Stream' = Stream /\ Until' = Until
  BY <1>1 DEF Stream, Until
<1>7. SentInv'
  <2> SUFFICES ASSUME origin \in {"crafted", "changed"} PROVE SentInv'
    BY <1>1 DEF SentInv
  <2>1. /\ WriteMessage(asked) /\ Canonical(asked) = asked
        /\ origin = "crafted" => wire = ToHex(asked)
        /\ origin = "changed" => OneChange(asked, wire)
        /\ AllPieces
        /\ SyncFront(wire) => InBuffer \/ Waiting \/ FirstTaken
    BY DEF LabInv, SentInv
  <2>2. AllPieces'
    BY <1>1, <1>4, <2>1, DrainPieces
  <2>3. SyncFront(wire) => (InBuffer \/ Waiting \/ FirstTaken)'
    <3> SUFFICES ASSUME SyncFront(wire) PROVE (InBuffer \/ Waiting \/ FirstTaken)'
      OBVIOUS
    <3>1. CASE InBuffer
      BY <1>1, <1>4, <3>1, DrainSync
    <3>2. CASE Waiting
      BY <1>2, <3>2 DEF Waiting
    <3>3. CASE FirstTaken
      <4>1. frames' # <<>> /\ frames'[1] = frames[1]
        BY <1>1, <1>4, <3>3, DrainFirst DEF FirstTaken
      <4>2. buf = <<>> => buf' = <<>> /\ frames' = frames
        BY <1>1, DrainEmpty
      <4> QED
        BY <1>6, <3>3, <4>1, <4>2 DEF FirstTaken
    <3> QED
      BY <2>1, <3>1, <3>2, <3>3
  <2>4. SyncFront(wire)' <=> SyncFront(wire)
    BY <1>1
  <2> QED
    BY <1>1, <1>3, <2>1, <2>2, <2>3, <2>4 DEF SentInv
<1> QED
  BY <1>1, <1>3, <1>5, <1>7 DEF LabInv, QuietInv, AskedInv, DecodedInv

LEMMA DecodeKeeps ==
  ASSUME LabInv, DecodeFrame
  PROVE  LabInv'
<1>1. /\ origin # "none" /\ ~draining /\ frames # <<>> /\ item' = Decode(frames[1])
      /\ wire' = wire /\ tail' = tail /\ asked' = asked /\ origin' = origin
      /\ buf' = buf /\ frames' = frames /\ draining' = draining
  BY DEF DecodeFrame, framer
<1>2. frames[1] \in Raw
  <2>1. frames \in Seq(Raw)
    BY DEF LabInv, TypeInv
  <2> QED
    BY <1>1, <2>1
<1>3. TypeInv'
  BY <1>1, <1>2 DEF LabInv, TypeInv
<1>4. SentInv'
  <2>1. (AllPieces' <=> AllPieces) /\ (FirstTaken' <=> FirstTaken) /\ (Waiting' <=> Waiting)
        /\ (InBuffer' <=> InBuffer) /\ (SyncFront(wire)' <=> SyncFront(wire))
    BY <1>1 DEF AllPieces, FirstTaken, Waiting, InBuffer, Stream, Until
  <2> QED
    BY <1>1, <2>1 DEF LabInv, SentInv
<1> QED
  BY <1>1, <1>3, <1>4 DEF LabInv, QuietInv, AskedInv, DecodedInv

LEMMA StepLab == LabInv /\ [Next]_vars => LabInv'
<1> SUFFICES ASSUME LabInv, [Next]_vars PROVE LabInv'
  OBVIOUS
<1>0. QuietInv
  BY DEF LabInv
<1>1. CASE UNCHANGED vars
  <2>1. /\ buf' = buf /\ frames' = frames /\ draining' = draining /\ item' = item
        /\ wire' = wire /\ tail' = tail /\ asked' = asked /\ origin' = origin
    BY <1>1 DEF vars, framer
  <2>2. (AllPieces' <=> AllPieces) /\ (FirstTaken' <=> FirstTaken) /\ (Waiting' <=> Waiting)
        /\ (InBuffer' <=> InBuffer)
    BY <2>1 DEF AllPieces, FirstTaken, Waiting, InBuffer, Stream, Until
  <2> QED
    BY <2>1, <2>2 DEF LabInv, TypeInv, QuietInv, AskedInv, DecodedInv, SentInv
<1>2. ASSUME origin = "none", NEW lead \in Leads, NEW rest \in Tails, NEW r \in Requests,
             Send(r, lead, rest)
      PROVE  LabInv'
  BY <1>0, <1>2, SendKeeps
<1>3. ASSUME origin = "none", NEW lead \in Leads, NEW rest \in Tails, NEW r \in Requests,
             NEW i \in 1..15, NEW v \in Changes, SendChanged(r, lead, rest, i, v)
      PROVE  LabInv'
  BY <1>0, <1>3, SendChangedKeeps
<1>4. ASSUME origin = "none", NEW lead \in Leads, NEW rest \in Tails, NEW f \in Received,
             Device(f, lead, rest)
      PROVE  LabInv'
  BY <1>0, <1>4, DeviceKeeps
<1>5. CASE Read
  BY <1>5, ReadKeeps
<1>6. CASE DecodeFrame
  BY <1>6, DecodeKeeps
<1>7. CASE Rest
  BY <1>1, <1>7 DEF Rest
<1> QED
  BY <1>1, <1>2, <1>3, <1>4, <1>5, <1>6, <1>7 DEF Next

(* At every moment of a lab send, for all requests and all bytes around    *)
(* them, the types hold and a frame is where Send and _drain can have it:  *)
(* if its sync is whole, in the buffer behind its idle bytes or taken up   *)
(* to its own LEN as the first frame, the only one when nothing follows;   *)
(* and always in pieces that each begin with a sync of their own.          *)
THEOREM LabInvariant == Spec => []LabInv
<1> QED
  BY InitLab, StepLab, PTL DEF Spec

-----------------------------------------------------------------------------
(* The properties.                                                         *)

LEMMA ItemDecoded ==
  ASSUME TypeInv, Decoded, item.type \in Writes
  PROVE  /\ WriteMessage(item) /\ item.header[4] = CommandOf(item.type)
         /\ item.header[5] >= LeastOf(item.type)
<1>1. PICK f \in Raw : item = Decode(f)
  BY DEF TypeInv, Decoded
<1>2. f.raw \in Seq(Octet)
  BY DEF Raw
<1> QED
  BY <1>1, <1>2, DecodedWrite

LEMMA FieldsInside == LabInv => WriteFieldsInPayload
<1> SUFFICES ASSUME LabInv, Decoded, item.type \in Writes,
                    NEW c \in Commands, Shape(c).type = item.type,
                    NEW i \in DOMAIN Shape(c).at
             PROVE  Shape(c).at[i] < 6 + item.header[5]
  BY DEF WriteFieldsInPayload
<1>1. /\ item.header[5] >= LeastOf(item.type) /\ WriteMessage(item)
  BY ItemDecoded DEF LabInv
<1>2. item.header[5] \in Int
  <2>1. item.header[5] \in Octet
    BY <1>1 DEF WriteMessage
  <2> QED
    BY <2>1, OctetRange
<1>3. c = 134 \/ c = 136
  BY Shapes DEF Commands, Writes
<1>4. CASE c = 134
  <2>1. Shape(c).at = <<6, 7>> /\ item.type = "CircuitChange"
    BY <1>4, Shapes
  <2>2. Shape(c).at[i] \in Int /\ Shape(c).at[i] <= 7
    BY <2>1
  <2>3. item.header[5] >= 2
    BY <1>1, <2>1 DEF LeastOf
  <2> QED
    BY <1>2, <2>2, <2>3
<1>5. CASE c = 136
  <2>1. Shape(c).at = <<6, 7, 8>> /\ item.type = "HeatChange"
    BY <1>5, Shapes
  <2>2. Shape(c).at[i] \in Int /\ Shape(c).at[i] <= 8
    BY <2>1
  <2>3. item.header[5] >= 4
    BY <1>1, <2>1 DEF LeastOf
  <2> QED
    BY <1>2, <2>2, <2>3
<1> QED
  BY <1>3, <1>4, <1>5

LEMMA SamePrefix ==
  ASSUME NEW S, NEW s \in Seq(S), NEW T, NEW t \in Seq(T), NEW n \in Nat,
         n <= Len(s), n <= Len(t), \A i \in 1..n : s[i] = t[i]
  PROVE  SubSeq(s, 1, n) = SubSeq(t, 1, n)
<1> DEFINE u == SubSeq(s, 1, n)
           v == SubSeq(t, 1, n)
<1>1. u \in Seq(S) /\ Len(u) = n /\ \A i \in 1..n : u[i] = s[i]
  OBVIOUS
<1>2. v \in Seq(T) /\ Len(v) = n /\ \A i \in 1..n : v[i] = t[i]
  OBVIOUS
<1> HIDE DEF u, v
<1>3. u = v
  BY <1>1, <1>2
<1> QED
  BY <1>3 DEF u, v

LEMMA DecodedAgain == LabInv => WriteAgain
<1> SUFFICES ASSUME LabInv, Decoded, item.type \in Writes PROVE WriteAgain
  BY DEF WriteAgain
<1> DEFINE again == DecodeA5(ToHex(item))
<1>1. WriteMessage(item) /\ item.header[4] = CommandOf(item.type)
  BY ItemDecoded DEF LabInv
<1>2. ChecksumOk([kind |-> "a5", raw |-> ToHex(item)]) /\ again = Canonical(item)
  BY <1>1, HexFacts
<1>3. ToHex(again) = ToHex(item)
  BY <1>1, <1>2, HexAgain
<1>4. again.type = item.type
  BY <1>1, <1>2 DEF Canonical, WriteMessage, Writes
<1>5. SubSeq(again.header, 1, 4) = SubSeq(item.header, 1, 4)
  <2> DEFINE new == again.header
             old == item.header
  <2>1. old \in Seq(Octet) /\ Len(old) = 5 /\ old[4] = CommandOf(item.type)
    BY <1>1 DEF WriteMessage
  <2>2. /\ new[1] = old[1] /\ new[2] = old[2] /\ new[3] = old[3] /\ new[4] = CommandOf(item.type)
        /\ Len(new) = 5 /\ new \in Seq(Int)
    <3>1. /\ old[1] \in Int /\ old[2] \in Int /\ old[3] \in Int
      BY <2>1, OctetRange
    <3>2. CASE item.type = "CircuitChange"
      <4>1. new = <<old[1], old[2], old[3], 134, 2>>
        BY <1>2, <3>2 DEF Canonical
      <4> QED
        BY <3>1, <3>2, <4>1 DEF CommandOf
    <3>3. CASE item.type # "CircuitChange"
      <4>1. new = <<old[1], old[2], old[3], 136, 4>>
        BY <1>2, <3>3 DEF Canonical
      <4> QED
        BY <3>1, <3>3, <4>1 DEF CommandOf
    <3> QED
      BY <3>2, <3>3
  <2>3. \A i \in 1..4 : new[i] = old[i]
    BY <2>1, <2>2
  <2> HIDE DEF new, old
  <2>4. 4 <= Len(new) /\ 4 <= Len(old)
    BY <2>1, <2>2
  <2>5. SubSeq(new, 1, 4) = SubSeq(old, 1, 4)
    BY <2>1, <2>2, <2>3, <2>4, SamePrefix
  <2> QED
    BY <2>5 DEF new, old
<1>6. ASSUME NEW i \in DOMAIN item.fields
      PROVE  again.fields[i] = IF item.type = "CircuitChange" /\ i = 2 /\ item.fields[2] # 0
                               THEN 1 ELSE item.fields[i]
  <2>1. CASE item.type = "CircuitChange"
    <3>1. again.fields = <<item.fields[1], OnOff(item.fields[2])>> /\ i \in 1..2
      BY <1>1, <1>2, <2>1 DEF Canonical, WriteMessage
    <3> QED
      BY <2>1, <3>1 DEF OnOff
  <2>2. CASE item.type # "CircuitChange"
    <3>1. again.fields = <<item.fields[1], item.fields[2], item.fields[3]>> /\ i \in 1..3
      BY <1>1, <1>2, <2>2 DEF Canonical, WriteMessage
    <3> QED
      BY <2>2, <3>1
  <2> QED
    BY <2>1, <2>2
<1> QED
  BY <1>2, <1>3, <1>4, <1>5, <1>6 DEF WriteAgain

(* A crafted request is the first frame, whatever is behind it.            *)
LEMMA CraftedFirst ==
  ASSUME LabInv, origin = "crafted", ~draining
  PROVE  /\ frames # <<>> /\ frames[1] = [kind |-> "a5", raw |-> wire]
         /\ tail = <<>> => Len(frames) = 1 /\ buf = <<>>
<1>1. /\ WriteMessage(asked) /\ wire = ToHex(asked) /\ tail \in Seq(Octet)
      /\ SyncFront(wire) => InBuffer \/ Waiting \/ FirstTaken
  BY DEF LabInv, TypeInv, SentInv
<1>2. SyncFront(wire) /\ wire[9] = Len(wire) - 11
  BY <1>1, HexFacts DEF FrontOfA5
<1>3. Follows(Stream, wire, tail)
  BY <1>1, <1>2, StreamFollows DEF Stream
<1> DEFINE N == Len(wire)
           T == Len(tail)
<1>4. N \in Nat /\ T \in Nat /\ Len(Stream) = N + T /\ SubSeq(Stream, 1, N) = wire
  BY SMTT(30), <1>1, <1>2, <1>3 DEF Follows, IsJoin, SyncFront
<1>5. Until = 11 + (N - 11)
  BY <1>2 DEF Until
<1>8. tail = <<>> => T = 0
  OBVIOUS
<1> HIDE DEF N, T
<1>6. Until = N /\ Until <= Len(Stream) /\ (tail = <<>> => Until = Len(Stream))
  BY <1>4, <1>5, <1>8
<1>7. FirstTaken
  BY <1>1, <1>2, <1>6 DEF InBuffer, Waiting
<1> QED
  BY <1>4, <1>6, <1>7 DEF FirstTaken

LEMMA CraftedDecoded == LabInv => CraftedIsDecoded
<1> SUFFICES ASSUME LabInv PROVE CraftedIsDecoded
  OBVIOUS
<1>1. ASSUME origin = "crafted", Framed
      PROVE  /\ frames # <<>> /\ frames[1] = [kind |-> "a5", raw |-> wire]
             /\ tail = <<>> => Len(frames) = 1 /\ buf = <<>>
  BY <1>1, CraftedFirst DEF Framed
<1>2. ASSUME origin = "crafted", Decoded PROVE item = asked
  <2>1. /\ WriteMessage(asked) /\ Canonical(asked) = asked /\ wire = ToHex(asked)
        /\ item = Decode(frames[1]) /\ ~draining
    BY <1>2 DEF LabInv, SentInv, DecodedInv, Decoded
  <2> DEFINE f == [kind |-> "a5", raw |-> wire]
  <2>2. frames[1] = f
    BY <1>2, <2>1, CraftedFirst
  <2>3. ChecksumOk(f) /\ DecodeA5(wire) = asked
    BY <2>1, HexFacts
  <2>4. Decode(f) = asked
    BY <2>3 DEF Decode
  <2> QED
    BY <2>1, <2>2, <2>4
<1>3. WriteAgain
  BY DecodedAgain
<1> QED
  BY <1>1, <1>2, <1>3 DEF CraftedIsDecoded

-----------------------------------------------------------------------------
(* A changed request.                                                      *)

(* Frames with the same bytes from their A5 on are decoded alike.          *)
LEMMA SameBody ==
  ASSUME NEW r \in Seq(Octet), NEW s \in Seq(Octet), A5At(r) # 0, A5At(s) # 0,
         From(r, A5At(r)) = From(s, A5At(s))
  PROVE  DecodeA5(r) = DecodeA5(s)
<1> DEFINE p == A5At(r)
           q == A5At(s)
           m == Len(r)
           n == Len(s)
           u == SubSeq(r, p, m)
           v == SubSeq(s, q, n)
<1>1. p \in 3..m /\ q \in 3..n
  BY MarkIsThere DEF Marked
<1>2. m \in Nat /\ n \in Nat
  OBVIOUS
<1>3. u = v
  BY DEF From
<1> HIDE DEF p, q
<1>4. /\ Len(u) = (m - p) + 1 /\ \A i \in 1..((m - p) + 1) : u[i] = r[(p + i) - 1]
      /\ Len(v) = (n - q) + 1 /\ \A i \in 1..((n - q) + 1) : v[i] = s[(q + i) - 1]
  BY <1>1, <1>2
<1> HIDE DEF m, n, u, v
<1>5. m - p = n - q
  BY <1>1, <1>2, <1>3, <1>4
<1>6. ASSUME NEW i \in Nat, p + i <= m PROVE r[p + i] = s[q + i]
  <2>1. i + 1 \in 1..((m - p) + 1) /\ i + 1 \in 1..((n - q) + 1)
        /\ (p + (i + 1)) - 1 = p + i /\ (q + (i + 1)) - 1 = q + i
    BY <1>1, <1>2, <1>5, <1>6
  <2> QED
    BY <1>3, <1>4, <2>1
<1>7. ASSUME NEW at \in Seq(Nat)
      PROVE  /\ Within(r, at) <=> Within(s, at)
             /\ Within(r, at) => Values(r, at) = Values(s, at)
  <2>1. \A i \in DOMAIN at : at[i] \in Nat
    OBVIOUS
  <2>2. \A k \in Nat : p + k <= m <=> q + k <= n
    BY <1>1, <1>2, <1>5
  <2>3. Within(r, at) <=> \A i \in DOMAIN at : p + at[i] <= m
    BY DEF Within, p, m
  <2>4. Within(s, at) <=> \A i \in DOMAIN at : q + at[i] <= n
    BY DEF Within, q, n
  <2>5. Within(r, at) => \A i \in DOMAIN at : r[p + at[i]] = s[q + at[i]]
    BY <1>6, <2>1, <2>3
  <2>6. /\ Values(r, at) = [i \in DOMAIN at |-> r[p + at[i]]]
        /\ Values(s, at) = [i \in DOMAIN at |-> s[q + at[i]]]
    BY DEF Values, p, q
  <2>7. Within(r, at) <=> Within(s, at)
    BY <2>1, <2>2, <2>3, <2>4
  <2>8. Within(r, at) => Values(r, at) = Values(s, at)
    BY <2>5, <2>6
  <2> QED
    BY <2>7, <2>8
<1>8. HeaderAt \in Seq(Nat) /\ << 4 >> \in Seq(Nat) /\ \A c \in Commands : Shape(c).at \in Seq(Nat)
  <2>1. HeaderAt \in Seq(Nat) /\ << 4 >> \in Seq(Nat)
    BY DEF HeaderAt
  <2>2. Shape(2).at = <<6, 7, 8, 20, 21, 24>> /\ Shape(8).at = <<7, 8, 9, 10, 11>>
        /\ Shape(134).at = <<6, 7>> /\ Shape(136).at = <<6, 7, 8>>
    BY DEF Shape
  <2>3. /\ <<6, 7, 8, 20, 21, 24>> \in Seq(Nat) /\ <<7, 8, 9, 10, 11>> \in Seq(Nat)
        /\ <<6, 7>> \in Seq(Nat) /\ <<6, 7, 8>> \in Seq(Nat)
    OBVIOUS
  <2>4. Shape(2).at \in Seq(Nat) /\ Shape(8).at \in Seq(Nat)
        /\ Shape(134).at \in Seq(Nat) /\ Shape(136).at \in Seq(Nat)
    BY Zenon, <2>2, <2>3
  <2> QED
    BY <2>1, <2>4 DEF Commands
<1>9. p # 0 /\ q # 0
  BY DEF p, q
<1>10. \A c : ParseUnknown(r, c) = ParseUnknown(s, c)
  BY <1>7, <1>8, <1>9 DEF ParseUnknown, p, q
<1>11. ASSUME NEW c \in Commands PROVE ParseAs(Shape(c), r) = ParseAs(Shape(c), s)
  <2> DEFINE at == Shape(c).at
             all == HeaderAt \o at
  <2>1. at \in Seq(Nat) /\ HeaderAt \in Seq(Nat)
    BY <1>8
  <2>2. all \in Seq(Nat)
    <3> HIDE DEF at
    <3> QED
      BY <2>1
  <2>3. Within(r, all) <=> Within(s, all)
    <3> HIDE DEF all
    <3> QED
      BY <1>7, <2>2
  <2>4. Within(r, all) => Within(r, HeaderAt) /\ Within(r, at)
    <3> HIDE DEF at
    <3> QED
      BY <2>1, WithinParts
  <2>5. Within(r, all) => Values(r, HeaderAt) = Values(s, HeaderAt) /\ Values(r, at) = Values(s, at)
    <3> HIDE DEF at, all
    <3> QED
      BY <1>7, <2>1, <2>4
  <2>6. A5At(r) # 0 /\ A5At(s) # 0
    OBVIOUS
  <2> QED
    BY ONLY <2>3, <2>5, <2>6 DEF ParseAs, at, all
<1>12. (Within(r, << 4 >>) <=> Within(s, << 4 >>))
       /\ (Within(r, << 4 >>) => Values(r, << 4 >>) = Values(s, << 4 >>))
  BY <1>7, <1>8
<1>13. A5At(r) # 0 /\ A5At(s) # 0
  OBVIOUS
<1> QED
  BY ONLY <1>10, <1>11, <1>12, <1>13 DEF DecodeA5

(* The header of a decoded write request is that of its bytes.             *)
LEMMA HeaderIs ==
  ASSUME NEW raw \in Seq(Octet), DecodeA5(raw).type \in Writes
  PROVE  A5At(raw) # 0 /\ \A i \in 1..5 : DecodeA5(raw).header[i] = raw[A5At(raw) + i]
<1> DEFINE c == Values(raw, << 4 >>)[1]
<1>1. \A k : ParseUnknown(raw, k).type \notin Writes
  BY DEF ParseUnknown, RawOnly, Writes
<1>2. A5At(raw) # 0 /\ DecodeA5(raw) = ParseAs(Shape(c), raw)
  BY <1>1 DEF DecodeA5, Raised, Writes
<1> HIDE DEF c
<1>3. DecodeA5(raw).header = Values(raw, HeaderAt)
  <2>1. ParseAs(Shape(c), raw) # Raised
    BY <1>2 DEF Raised, Writes
  <2>2. ParseAs(Shape(c), raw).header = Values(raw, HeaderAt)
    BY <2>1 DEF ParseAs
  <2> QED
    BY <1>2, <2>2
<1>4. ASSUME NEW i \in 1..5 PROVE Values(raw, HeaderAt)[i] = raw[A5At(raw) + i]
  <2>1. DOMAIN HeaderAt = 1..5 /\ HeaderAt[i] = i
    BY DEF HeaderAt
  <2> QED
    BY <2>1 DEF Values
<1> QED
  BY <1>2, <1>3, <1>4

(* The bytes a message is crafted to.                                      *)
Crafts(m, s) ==
    /\ FrontOfA5(s) /\ A5At(s) = 4 /\ VerifyA5(From(s, 4)) /\ DecodeA5(s) = m
    /\ s[8] = CommandOf(m.type) /\ s[9] = LeastOf(m.type)
    /\ \A i \in 1..5 : m.header[i] = s[4 + i]

LEMMA AskedBytes ==
  ASSUME NEW m, WriteMessage(m), Canonical(m) = m
  PROVE  Crafts(m, ToHex(m))
<1> DEFINE s == ToHex(m)
<1>1. FrontOfA5(s) /\ ChecksumOk([kind |-> "a5", raw |-> s]) /\ DecodeA5(s) = m
  BY HexFacts
<1> HIDE DEF s
<1>2. s \in Seq(Octet) /\ Len(s) \in Nat /\ Len(s) >= 4
      /\ s[1] = 255 /\ s[2] = 0 /\ s[3] = 255 /\ s[4] = 165
  BY <1>1 DEF FrontOfA5, SyncFront
<1>3. A5At(s) = 4
  BY <1>2, MarkedAt
<1>4. VerifyA5(From(s, 4))
  BY <1>1, <1>3 DEF ChecksumOk
<1>5. m.type \in Writes
  BY DEF WriteMessage
<1>6. \A i \in 1..5 : m.header[i] = s[4 + i]
  BY <1>1, <1>2, <1>3, <1>5, HeaderIs
<1>7. m.header[4] = CommandOf(m.type) /\ m.header[5] = LeastOf(m.type)
  <2>1. CASE m.type = "CircuitChange"
    <3>1. m.header = <<m.header[1], m.header[2], m.header[3], 134, 2>>
      BY <2>1 DEF Canonical
    <3> DEFINE h == m.header
    <3> HIDE DEF h
    <3>2. h = <<h[1], h[2], h[3], 134, 2>>
      BY <3>1 DEF h
    <3>3. h[4] = 134 /\ h[5] = 2
      BY <3>2
    <3> QED
      BY <2>1, <3>3 DEF CommandOf, LeastOf, h
  <2>2. CASE m.type # "CircuitChange"
    <3>1. m.header = <<m.header[1], m.header[2], m.header[3], 136, 4>>
      BY <2>2 DEF Canonical
    <3> DEFINE h == m.header
    <3> HIDE DEF h
    <3>2. h = <<h[1], h[2], h[3], 136, 4>>
      BY <3>1 DEF h
    <3>3. h[4] = 136 /\ h[5] = 4
      BY <3>2
    <3> QED
      BY <2>2, <3>3 DEF CommandOf, LeastOf, h
  <2> QED
    BY <2>1, <2>2
<1>8. s[4 + 4] = m.header[4] /\ s[4 + 5] = m.header[5]
  BY <1>6
<1>9. s[8] = CommandOf(m.type) /\ s[9] = LeastOf(m.type)
  BY <1>7, <1>8
<1> QED
  BY <1>1, <1>3, <1>4, <1>6, <1>9 DEF Crafts, s

(* The frame from an A5 to its trailer, as verify_checksum reads it.       *)
LEMMA VerifyAt ==
  ASSUME NEW s \in Seq(Octet), NEW p \in Nat, p >= 1, NEW n \in Nat, n <= Len(s), n >= p + 7,
         VerifyA5(SubSeq(s, p, n))
  PROVE  Checksum(SubSeq(s, p, n - 2)) = (s[n - 1] * 256) + s[n]
<1> DEFINE u == SubSeq(s, p, n)
           k == Len(u)
           x == SubSeq(u, 1, k - 2)
           y == SubSeq(s, p, n - 2)
           z == SubSeq(u, k - 1, k)
<1>1. /\ u \in Seq(Octet) /\ k = (n - p) + 1 /\ k \in Nat
      /\ \A i \in 1..((n - p) + 1) : u[i] = s[(p + i) - 1]
  OBVIOUS
<1>2. Checksum(x) = (z[1] * 256) + z[2]
  BY DEF VerifyA5, AllBut, From, BigEndian
<1> HIDE DEF u, k
<1>3. z[1] = u[k - 1] /\ z[2] = u[k]
  BY <1>1
<1>4. u[k - 1] = s[n - 1] /\ u[k] = s[n]
  <2>1. k - 1 \in 1..((n - p) + 1) /\ k \in 1..((n - p) + 1)
        /\ (p + (k - 1)) - 1 = n - 1 /\ (p + k) - 1 = n
    BY <1>1
  <2> QED
    BY <1>1, <2>1
<1>5. /\ x \in Seq(Octet) /\ Len(x) = (n - p) - 1 /\ \A i \in 1..((n - p) - 1) : x[i] = u[i]
  BY <1>1
<1>6. /\ y \in Seq(Octet) /\ Len(y) = (n - p) - 1
      /\ \A i \in 1..((n - p) - 1) : y[i] = s[(p + i) - 1]
  OBVIOUS
<1> HIDE DEF x, y, z
<1>7. ASSUME NEW i \in 1..((n - p) - 1) PROVE x[i] = y[i]
  <2>1. i \in 1..((n - p) + 1)
    OBVIOUS
  <2> QED
    BY <1>1, <1>5, <1>6, <2>1
<1>8. x = y
  BY ONLY SMTT(30), <1>5, <1>6, <1>7
<1> QED
  BY <1>2, <1>3, <1>4, <1>8 DEF y

(* A write request that is decoded of any bytes w behind idle ones comes   *)
(* from an A5 at one of them, whose sync lies there as far as it can.      *)
SyncAt(f, w, q, len) ==
    /\ q >= 1 /\ (q + len) + 7 <= Len(w)
    /\ w[q] = 165 /\ (q >= 2 => w[q - 1] = 255) /\ (q >= 3 => w[q - 2] = 0)
    /\ \A i \in 1..5 : Decode(f).header[i] = w[q + i]
    /\ w[q + 5] = len /\ len >= LeastOf(Decode(f).type) /\ w[q + 4] = CommandOf(Decode(f).type)
    /\ A5At(f.raw) # 0 /\ Decode(f) = DecodeA5(f.raw)
    /\ From(f.raw, A5At(f.raw)) = SubSeq(w, q, (q + len) + 7)
    /\ VerifyA5(SubSeq(w, q, (q + len) + 7))

LEMMA WriteHasSync ==
  ASSUME NEW lead \in Seq({0, 255}), NEW w \in Seq(Octet), NEW b, IsJoin(Octet, b, lead, w),
         NEW f \in Raw, Shaped(f), Piece(f.raw, b), Decode(f).type \in Writes
  PROVE  \E q \in Nat, len \in Nat : SyncAt(f, w, q, len)
<1> DEFINE raw == f.raw
           M == A5At(raw)
           len == raw[M + 5]
           L == Len(lead)
           N == Len(w)
           R == Len(raw)
           message == Decode(f)
<1>1. raw \in Seq(Octet) /\ f.kind \in {"a5", "intellichlor"}
  BY DEF Raw
<1>2. /\ ChecksumOk(f) /\ f.kind = "a5" /\ message = DecodeA5(raw)
  <2>1. \A k : ParseUnknown(raw, k).type \notin Writes
    BY DEF ParseUnknown, RawOnly, Writes
  <2>2. ChecksumOk(f) /\ f.kind # "intellichlor"
    BY <2>1 DEF Decode, Quarantined, Writes
  <2> QED
    BY <1>1, <2>2 DEF Decode
<1>3. VerifyA5(From(raw, M))
  BY <1>2 DEF ChecksumOk
<1>4. M # 0 /\ \A i \in 1..5 : message.header[i] = raw[M + i]
  <2>1. DecodeA5(raw).type \in Writes
    BY <1>2
  <2>2. M # 0 /\ \A i \in 1..5 : DecodeA5(raw).header[i] = raw[M + i]
    BY <1>1, <2>1, HeaderIs
  <2> QED
    BY <1>2, <2>2
<1>5. message.header[4] = CommandOf(message.type) /\ message.header[5] >= LeastOf(message.type)
  <2>1. f.raw \in Seq(Octet)
    BY <1>1
  <2>2. message.header[4] = CommandOf(message.type)
    BY Zenon, <2>1, DecodedWrite
  <2>3. message.header[5] >= LeastOf(message.type)
    BY Zenon, <2>1, DecodedWrite
  <2> QED
    BY <2>2, <2>3
<1>6. M \in 3..R /\ raw[M] = 165 /\ raw[M - 1] = 255 /\ raw[M - 2] = 0
  <2>1. Marked(raw, M)
    BY Zenon, <1>1, <1>4, MarkIsThere
  <2> HIDE DEF raw, M
  <2> QED
    BY <2>1 DEF Marked
<1>7. M + 7 <= R /\ R = (M + len) + 7
  BY <1>2 DEF Shaped
<1>8. /\ L \in Nat /\ N \in Nat /\ R \in Nat
      /\ \A i \in 1..L : lead[i] \in {0, 255}
  BY <1>1
<1>9. Len(b) = L + N /\ (\A i \in 1..L : b[i] = lead[i]) /\ (\A i \in 1..N : b[L + i] = w[i])
  BY DEF IsJoin
<1>10. PICK a \in Nat : a + R <= L + N /\ \A n \in 1..R : raw[n] = b[a + n]
  BY <1>9 DEF Piece
<1>11. len \in Nat
  <2>1. M + 5 \in 1..R
    <3> HIDE DEF M, R, len
    <3> QED
      BY <1>6, <1>7, <1>8
  <2>2. raw[M + 5] \in Octet
    BY <1>1, <2>1
  <2> QED
    BY <2>2, OctetRange
<1>12. From(raw, M) = SubSeq(raw, M, R)
  BY DEF From
<1> HIDE DEF raw, M, len, L, N, R, message
<1>13. a + M > L
  <2> SUFFICES ASSUME ~ (a + M > L) PROVE FALSE
    OBVIOUS
  <2>1. M \in 1..R /\ a + M \in 1..L
    BY <1>6, <1>8
  <2>2. raw[M] \in {0, 255}
    BY <1>8, <1>9, <1>10, <2>1
  <2> QED
    BY <1>6, <2>2
<1> DEFINE q == (a + M) - L
<1>14. q \in Nat /\ q >= 1 /\ (q + len) + 7 <= N
  BY <1>6, <1>7, <1>8, <1>10, <1>11, <1>13
<1>15. ASSUME NEW i \in Int, q + i >= 1, M + i >= 1, i <= len + 7
       PROVE  raw[M + i] = w[q + i]
  <2>1. M + i \in 1..R /\ q + i \in 1..N /\ a + (M + i) = L + (q + i)
    BY <1>6, <1>7, <1>8, <1>10, <1>11, <1>13, <1>14, <1>15
  <2>2. raw[M + i] = b[a + (M + i)]
    BY <1>10, <2>1
  <2>3. b[L + (q + i)] = w[q + i]
    BY <1>9, <2>1
  <2> QED
    BY <2>1, <2>2, <2>3
<1> HIDE DEF q
<1>16. w[q] = 165
  <2>2. /\ 0 \in Int /\ q + 0 >= 1 /\ M + 0 >= 1 /\ 0 <= len + 7
        /\ M + 0 = M /\ q + 0 = q
    BY <1>6, <1>8, <1>11, <1>14
  <2>1. raw[M + 0] = w[q + 0]
    BY <1>15, <2>2
  <2> QED
    BY <1>6, <2>1, <2>2
<1>17. q >= 2 => w[q - 1] = 255
  <2> SUFFICES ASSUME q >= 2 PROVE w[q - 1] = 255
    OBVIOUS
  <2>1. -1 \in Int /\ q + (-1) >= 1 /\ M + (-1) >= 1 /\ -1 <= len + 7
        /\ M + (-1) = M - 1 /\ q + (-1) = q - 1
    BY <1>6, <1>8, <1>11, <1>14
  <2> QED
    BY <1>6, <1>15, <2>1
<1>18. q >= 3 => w[q - 2] = 0
  <2> SUFFICES ASSUME q >= 3 PROVE w[q - 2] = 0
    OBVIOUS
  <2>1. -2 \in Int /\ q + (-2) >= 1 /\ M + (-2) >= 1 /\ -2 <= len + 7
        /\ M + (-2) = M - 2 /\ q + (-2) = q - 2
    BY <1>6, <1>8, <1>11, <1>14
  <2> QED
    BY <1>6, <1>15, <2>1
<1>19. ASSUME NEW i \in 1..5 PROVE message.header[i] = w[q + i] /\ w[q + i] = raw[M + i]
  <2>1. i \in Int /\ q + i >= 1 /\ M + i >= 1 /\ i <= len + 7
    BY <1>6, <1>8, <1>11, <1>14
  <2> QED
    BY <1>4, <1>15, <2>1
<1>20. w[q + 5] = len /\ len >= LeastOf(message.type) /\ w[q + 4] = CommandOf(message.type)
  <2>1. 5 \in 1..5 /\ 4 \in 1..5
    OBVIOUS
  <2>2. message.header[5] = w[q + 5] /\ w[q + 5] = raw[M + 5] /\ message.header[4] = w[q + 4]
    BY <1>19, <2>1
  <2> QED
    BY <1>5, <2>2 DEF len
<1>21. SubSeq(raw, M, R) = SubSeq(w, q, (q + len) + 7)
  <2> DEFINE u == SubSeq(raw, M, R)
             v == SubSeq(w, q, (q + len) + 7)
             k == len + 8
  <2>1. u \in Seq(Octet) /\ Len(u) = k /\ \A i \in 1..k : u[i] = raw[(M + i) - 1]
    BY <1>1, <1>6, <1>7, <1>8, <1>11 DEF R
  <2>2. v \in Seq(Octet) /\ Len(v) = k /\ \A i \in 1..k : v[i] = w[(q + i) - 1]
    BY <1>8, <1>11, <1>14 DEF N
  <2> HIDE DEF u, v, k
  <2>3. ASSUME NEW i \in 1..k PROVE u[i] = v[i]
    <3>1. i - 1 \in Int /\ q + (i - 1) >= 1 /\ M + (i - 1) >= 1 /\ i - 1 <= len + 7
          /\ M + (i - 1) = (M + i) - 1 /\ q + (i - 1) = (q + i) - 1
      BY <1>6, <1>8, <1>11, <1>14 DEF k
    <3>2. raw[M + (i - 1)] = w[q + (i - 1)]
      BY <1>15, <3>1
    <3> QED
      BY <2>1, <2>2, <3>1, <3>2
  <2>4. u = v
    BY ONLY SMTT(30), <2>1, <2>2, <2>3
  <2> QED
    BY <2>4 DEF u, v
<1>22. SyncAt(f, w, q, len)
  BY <1>2, <1>3, <1>4, <1>12, <1>14, <1>16, <1>17, <1>18, <1>19, <1>20, <1>21
     DEF SyncAt, raw, M, N, message
<1> QED
  BY <1>11, <1>14, <1>22

(* The bytes of a request, one of them changed.                            *)
Altered(m, s, w, j) ==
    WriteMessage(m) /\ Crafts(m, s) /\ w \in Seq(Octet) /\ DifferAt(s, w, j) /\ w[j] # s[j]

(* A write request that is decoded in spite of a change in the sync is     *)
(* the request itself, or its protocol or destination was the command.     *)
Itself(f, s)        == From(f.raw, A5At(f.raw)) = From(s, 4)
Shifted(message, m) == \/ message.header[4] = m.header[1] /\ message.header[1] = 0
                       \/ message.header[4] = m.header[2] /\ message.header[2] = 165

(* From its A5 on, a frame lies behind the request.                        *)
PartOf(f, t) == \E k \in 0..Len(t) : \E n \in 0..Len(t) - k :
                    From(f.raw, A5At(f.raw)) = SubSeq(t, k + 1, k + n)

LEMMA FalseSync ==
  ASSUME NEW m, NEW s, NEW w, NEW j, Altered(m, s, w, j), j <= 4,
         NEW t \in Seq(Octet), NEW z, IsJoin(Octet, z, w, t),
         \A k \in 3..Len(w) : w[k] = 165 /\ w[k - 1] = 255 /\ w[k - 2] = 0 => k = 4,
         NEW f, NEW q \in Nat, NEW len \in Nat, SyncAt(f, z, q, len), Decode(f).type \in Writes
  PROVE  Itself(f, s) \/ Shifted(Decode(f), m) \/ PartOf(f, t)
<1> DEFINE N == Len(s)
           T == Len(t)
           h == Decode(f).header
<1>1. /\ s \in Seq(Octet) /\ N \in {13, 15} /\ s[9] = N - 11
      /\ s[1] = 255 /\ s[2] = 0 /\ s[3] = 255 /\ s[4] = 165
      /\ s[5] = m.header[1] /\ s[6] = m.header[2]
  <2>1. \A i \in 1..5 : m.header[i] = s[4 + i]
    BY DEF Altered, Crafts
  <2>2. 1 \in 1..5 /\ 2 \in 1..5 /\ 4 + 1 = 5 /\ 4 + 2 = 6
    OBVIOUS
  <2>3. s[5] = m.header[1] /\ s[6] = m.header[2]
    BY <2>1, <2>2
  <2> QED
    BY <2>3 DEF Altered, Crafts, FrontOfA5, SyncFront
<1>2. /\ w \in Seq(Octet) /\ Len(w) = N /\ j \in 1..N /\ j <= 4 /\ w[j] # s[j]
      /\ \A i \in 1..N : i # j => w[i] = s[i]
  BY DEF Altered, DifferAt
<1>3. /\ z \in Seq(Octet) /\ Len(z) = N + T /\ T \in Nat
      /\ \A i \in 1..N : z[i] = w[i]
      /\ \A i \in 1..T : z[N + i] = t[i]
  BY <1>2 DEF IsJoin
<1>4. /\ q >= 1 /\ (q + len) + 7 <= N + T
      /\ z[q] = 165 /\ (q >= 2 => z[q - 1] = 255) /\ (q >= 3 => z[q - 2] = 0)
      /\ \A i \in 1..5 : h[i] = z[q + i]
  BY <1>3 DEF SyncAt
<1>5. z[q + 5] = len
  BY DEF SyncAt
<1>6. From(f.raw, A5At(f.raw)) = SubSeq(z, q, (q + len) + 7)
  BY DEF SyncAt
<1>17. \A k \in 3..N : w[k] = 165 /\ w[k - 1] = 255 /\ w[k - 2] = 0 => k = 4
  BY <1>2
<1>16. Len(s) = N /\ Len(t) = T
  OBVIOUS
<1> HIDE DEF N, T, h
<1>14. N \in Nat /\ N >= 13 /\ N <= 15
  BY <1>1
<1>15. /\ j # 1 => w[1] = s[1]
       /\ j # 2 => w[2] = s[2]
       /\ j # 3 => w[3] = s[3]
       /\ j # 4 => w[4] = s[4]
       /\ w[5] = s[5] /\ w[6] = s[6] /\ w[9] = s[9]
  <2>1. \A i \in {1, 2, 3, 4, 5, 6, 9} : i \in 1..N
    BY <1>14
  <2>2. \A i \in {5, 6, 9} : i # j
    BY <1>2
  <2> QED
    BY <1>2, <2>1, <2>2
<1>18. \A i \in {1, 2, 3, 4, 5, 6, 9} : z[i] = w[i]
  BY <1>3, <1>14
<1>8. CASE q = 1
  <2>1. w[1] = 165
    BY <1>4, <1>8, <1>18
  <2>2. j = 1
    BY <1>1, <1>15, <2>1
  <2>3. w[2] = 0 /\ w[5] = s[5]
    BY <1>1, <1>15, <2>2
  <2>4. h[1] = z[2] /\ h[4] = z[5]
    BY <1>4, <1>8
  <2>5. z[2] = w[2] /\ z[5] = w[5]
    BY <1>18
  <2> QED
    BY <1>1, <2>3, <2>4, <2>5 DEF Shifted, h
<1>9. CASE q = 2
  <2>1. w[2] = 165
    BY <1>4, <1>9, <1>18
  <2>2. j = 2
    BY <1>1, <1>15, <2>1
  <2>3. w[4] = 165 /\ w[6] = s[6]
    BY <1>1, <1>15, <2>2
  <2>4. h[2] = z[4] /\ h[4] = z[6]
    BY <1>4, <1>9
  <2>5. z[4] = w[4] /\ z[6] = w[6]
    BY <1>18
  <2> QED
    BY <1>1, <2>3, <2>4, <2>5 DEF Shifted, h
<1>10. q >= 3 /\ q <= N => q = 4
  <2> SUFFICES ASSUME q >= 3, q <= N PROVE q = 4
    OBVIOUS
  <2>1. q \in 1..N /\ q - 1 \in 1..N /\ q - 2 \in 1..N /\ q \in 3..N /\ q >= 2
    BY <1>14
  <2>2. z[q] = w[q] /\ z[q - 1] = w[q - 1] /\ z[q - 2] = w[q - 2]
    BY <1>3, <2>1
  <2>3. w[q] = 165 /\ w[q - 1] = 255 /\ w[q - 2] = 0
    BY SMTT(30), <1>4, <2>1, <2>2
  <2> QED
    BY <1>17, <2>1, <2>3
<1>11. CASE q = 4
  <2>1. z[3] = 255 /\ z[2] = 0 /\ z[4] = 165
    BY <1>4, <1>11
  <2>6. w[3] = 255 /\ w[2] = 0 /\ w[4] = 165
    BY <1>18, <2>1
  <2>2. j = 1
    BY SMTT(30), <1>1, <1>2, <1>14, <2>6
  <2>3. z[9] = s[9]
    BY <1>15, <1>18
  <2>4. (q + len) + 7 = N
    BY <1>1, <1>5, <1>11, <1>14, <2>3
  <2>5. SubSeq(z, 4, N) = SubSeq(s, 4, N)
    <3> DEFINE u == SubSeq(z, 4, N)
               v == SubSeq(s, 4, N)
               k == N - 3
    <3>1. /\ u \in Seq(Octet) /\ Len(u) = k /\ \A i \in 1..k : u[i] = z[i + 3]
          /\ v \in Seq(Octet) /\ Len(v) = k /\ \A i \in 1..k : v[i] = s[i + 3]
      BY <1>1, <1>3, <1>14, <1>16
    <3>2. ASSUME NEW i \in 1..k PROVE z[i + 3] = s[i + 3]
      <4>1. i + 3 \in 1..N /\ i + 3 # j
        BY <1>14, <2>2
      <4> QED
        BY <1>2, <1>3, <4>1
    <3>4. k \in Nat
      BY <1>14
    <3> HIDE DEF u, v, k
    <3>5. \A i \in 1..k : u[i] = v[i]
      BY <3>1, <3>2
    <3>3. u = v
      BY <3>1, <3>5, SameBytes
    <3> QED
      BY <3>3 DEF u, v
  <2> QED
    BY <1>6, <1>11, <2>4, <2>5 DEF Itself, From, N
<1>12. CASE q > N
  <2> DEFINE a == (q - N) - 1
             n == len + 8
             u == SubSeq(z, q, (q + len) + 7)
             v == SubSeq(t, a + 1, a + n)
  <2>1. a \in 0..T /\ n \in 0..(T - a) /\ a \in Nat /\ n \in Nat /\ q = N + a + 1
    BY <1>3, <1>4, <1>12, <1>14
  <2>2. u \in Seq(Octet) /\ Len(u) = n /\ \A i \in 1..n : u[i] = z[(q + i) - 1]
    BY SMTT(30), <1>3, <1>4
  <2>3. v \in Seq(Octet) /\ Len(v) = n /\ \A i \in 1..n : v[i] = t[a + i]
    <3> HIDE DEF a, n
    <3>1. a + n <= Len(t)
      BY <1>3, <1>16, <2>1
    <3> QED
      BY <2>1, <3>1
  <2>4. ASSUME NEW i \in 1..n PROVE z[(q + i) - 1] = t[a + i]
    <3>1. a + i \in 1..T /\ (q + i) - 1 = N + (a + i)
      BY <1>3, <1>14, <2>1
    <3> QED
      BY <1>3, <3>1
  <2> HIDE DEF u, v
  <2>5. u = v
    <3> HIDE DEF a, n
    <3>1. \A i \in 1..n : u[i] = v[i]
      BY <2>2, <2>3, <2>4
    <3> QED
      BY <2>2, <2>3, <3>1, SameBytes
  <2>6. From(f.raw, A5At(f.raw)) = SubSeq(t, a + 1, a + n)
    BY <1>6, <2>5 DEF u, v
  <2> HIDE DEF a, n
  <2> QED
    BY <1>16, <2>1, <2>6 DEF PartOf
<1> QED
  <2>1. q = 1 \/ q = 2 \/ q = 4 \/ q > N
    BY <1>4, <1>10, <1>14
  <2> QED
    BY <1>8, <1>9, <1>11, <1>12, <2>1

(* What a change leaves of a request that is decoded behind its own sync.  *)
Noticed(d, m, w, j) ==
    \/ d = Quarantined
    \/ j = 9 /\ w[9] < m.header[5] /\ d = Raised
    \/ j = 9 /\ w[9] > m.header[5] /\ d = [m EXCEPT !.header[5] = w[9]]

(* A frame with the bytes of a write request but a larger LEN, and what    *)
(* that makes longer, is read as this request with this LEN.               *)
LEMMA LongerDecoded ==
  ASSUME NEW m, NEW s, WriteMessage(m), Canonical(m) = m, Crafts(m, s), NEW raw \in Seq(Octet),
         Len(raw) >= Len(s), A5At(raw) = 4, raw[9] \in Int, raw[9] > s[9],
         \A i \in 5..12 : i # 9 => raw[i] = s[i]
  PROVE  DecodeA5(raw) = [m EXCEPT !.header[5] = raw[9]]
<1>1. /\ s \in Seq(Octet) /\ Len(s) \in {13, 15} /\ s[9] = Len(s) - 11
      /\ s[8] = CommandOf(m.type) /\ s[9] = LeastOf(m.type) /\ A5At(s) = 4 /\ DecodeA5(s) = m
      /\ \A i \in 1..5 : m.header[i] = s[4 + i]
  BY DEF Crafts, FrontOfA5, SyncFront
<1>2. /\ raw[5] = s[5] /\ raw[6] = s[6] /\ raw[7] = s[7] /\ raw[8] = s[8]
      /\ raw[10] = s[10] /\ raw[11] = s[11] /\ raw[12] = s[12]
  OBVIOUS
<1>3. Len(raw) \in Nat
  OBVIOUS
<1>16. A5At(raw) = 4 /\ Len(raw) >= 13
  <2> DEFINE N == Len(s)
             R == Len(raw)
  <2>1. N \in {13, 15} /\ R >= N /\ R \in Nat
    BY <1>1, <1>3
  <2> HIDE DEF N, R
  <2>2. R >= 13
    BY ONLY <2>1
  <2> QED
    BY <2>2 DEF R
<1>4. Within(raw, HeaderAt) /\ Within(raw, << 4 >>)
  <2>1. \A i \in DOMAIN HeaderAt : HeaderAt[i] \in Nat /\ HeaderAt[i] <= 8
    <3>1. /\ DOMAIN HeaderAt = 1..5 /\ HeaderAt[1] = 1 /\ HeaderAt[2] = 2
          /\ HeaderAt[3] = 3 /\ HeaderAt[4] = 4 /\ HeaderAt[5] = 5
      BY DEF HeaderAt
    <3>2. ASSUME NEW i \in 1..5 PROVE HeaderAt[i] \in Nat /\ HeaderAt[i] <= 8
      <4>1. i = 1 \/ i = 2 \/ i = 3 \/ i = 4 \/ i = 5
        OBVIOUS
      <4> QED
        BY ONLY <3>1, <4>1
    <3> QED
      BY <3>1, <3>2
  <2>2. \A i \in DOMAIN << 4 >> : << 4 >>[i] \in Nat /\ << 4 >>[i] <= 8
    OBVIOUS
  <2>3. 8 \in Nat /\ 8 <= 8 /\ 4 + 8 <= Len(raw)
    BY <1>3, <1>16
  <2> QED
    BY <1>3, <1>16, <2>1, <2>2, <2>3, WithinLong
<1>5. Values(raw, HeaderAt) = <<raw[5], raw[6], raw[7], raw[8], raw[9]>>
  BY SMTT(30) DEF Values, HeaderAt
<1>6. Values(raw, << 4 >>)[1] = raw[8]
  BY DEF Values
<1>7. HeaderAt \in Seq(Nat)
  BY DEF HeaderAt
<1>8. m.header = <<s[5], s[6], s[7], s[8], s[9]>>
  <2>1. m.header \in Seq(Octet) /\ Len(m.header) = 5
    BY DEF WriteMessage
  <2>2. /\ m.header[1] = s[5] /\ m.header[2] = s[6] /\ m.header[3] = s[7]
        /\ m.header[4] = s[8] /\ m.header[5] = s[9]
    <3>1. 1 \in 1..5 /\ 2 \in 1..5 /\ 3 \in 1..5 /\ 4 \in 1..5 /\ 5 \in 1..5
      OBVIOUS
    <3> QED
      BY <1>1, <3>1
  <2> DEFINE h == m.header
  <2>3. h = <<h[1], h[2], h[3], h[4], h[5]>>
    BY <2>1, FiveBytes
  <2> QED
    BY <2>2, <2>3
<1>9. [m EXCEPT !.header[5] = raw[9]] =
         [type |-> m.type, header |-> <<raw[5], raw[6], raw[7], raw[8], raw[9]>>, fields |-> m.fields]
  <2>1. m = [type |-> m.type, header |-> m.header, fields |-> m.fields]
    BY DEF Canonical
  <2>2. [m.header EXCEPT ![5] = raw[9]] = <<raw[5], raw[6], raw[7], raw[8], raw[9]>>
    BY SMTT(30), <1>2, <1>8
  <2> DEFINE h == m.header
             g == [h EXCEPT ![5] = raw[9]]
  <2>3. [m EXCEPT !.header[5] = raw[9]] = [m EXCEPT !.header = g]
    OBVIOUS
  <2> HIDE DEF g
  <2>4. [m EXCEPT !.header = g] = [type |-> m.type, header |-> g, fields |-> m.fields]
    BY SMTT(30), <2>1
  <2> QED
    BY <2>2, <2>3, <2>4 DEF g, h
<1>10. CASE m.type = "CircuitChange"
  <2>1. raw[8] = 134 /\ s[9] = 2 /\ Len(s) = 13
    <3>1. s[8] = 134 /\ s[9] = 2
      BY ONLY <1>1, <1>10 DEF CommandOf, LeastOf
    <3>2. Len(s) = 13
      <4> DEFINE N == Len(s)
      <4>1. N \in {13, 15} /\ 2 = N - 11
        BY ONLY <1>1, <3>1
      <4> HIDE DEF N
      <4>2. N = 13
        BY ONLY <4>1
      <4> QED
        BY <4>2 DEF N
    <3> QED
      BY <1>2, <3>1, <3>2
  <2>2. m.fields = <<s[10], s[11]>>
    <3>1. s[8] = 134
      BY <1>2, <2>1
    <3> QED
      BY SMTT(30), <1>1, <2>1, <3>1, CircuitDecoded
  <2>3. Within(raw, <<6, 7>>) /\ <<6, 7>> \in Seq(Nat)
    BY <1>3, <2>1 DEF Within
  <2>4. Within(raw, HeaderAt \o <<6, 7>>)
    BY <1>4, <1>7, <2>3, WithinBoth
  <2>5. Values(raw, <<6, 7>>) = <<raw[10], raw[11]>>
    BY DEF Values
  <2>6. DecodeA5(raw) = ParseAs(Shape(134), raw)
    BY <1>4, <1>6, <2>1 DEF DecodeA5, Commands
  <2>7. Values(raw, HeaderAt)[5] >= 2
    BY <1>5, <2>1
  <2> DEFINE shape == [type |-> "CircuitChange", at |-> <<6, 7>>, least |-> 2]
  <2>8. ParseAs(shape, raw) = [type |-> "CircuitChange", header |-> Values(raw, HeaderAt),
                               fields |-> Values(raw, <<6, 7>>)]
    BY <1>16, <2>4, <2>7 DEF ParseAs
  <2>9. Shape(134) = shape
    BY Shapes
  <2>10. m.fields = <<raw[10], raw[11]>>
    BY <1>2, <2>2
  <2> HIDE DEF shape
  <2> QED
    BY ONLY <1>5, <1>9, <1>10, <2>5, <2>6, <2>8, <2>9, <2>10
<1>11. CASE m.type = "HeatChange"
  <2>1. raw[8] = 136 /\ s[9] = 4 /\ Len(s) = 15
    <3>1. s[8] = 136 /\ s[9] = 4
      BY ONLY <1>1, <1>11 DEF CommandOf, LeastOf
    <3>2. Len(s) = 15
      <4> DEFINE N == Len(s)
      <4>1. N \in {13, 15} /\ 4 = N - 11
        BY ONLY <1>1, <3>1
      <4> HIDE DEF N
      <4>2. N = 15
        BY ONLY <4>1
      <4> QED
        BY <4>2 DEF N
    <3> QED
      BY <1>2, <3>1, <3>2
  <2>2. m.fields = <<s[10], s[11], s[12]>>
    <3>1. s[8] = 136
      BY <1>2, <2>1
    <3>2. DecodeA5(s) = [type |-> "HeatChange", header |-> <<s[5], s[6], s[7], 136, 4>>,
                         fields |-> <<s[10], s[11], s[12]>>]
      BY ONLY <1>1, <2>1, <3>1, HeatDecoded
    <3> QED
      BY ONLY <1>1, <3>2
  <2>3. Within(raw, <<6, 7, 8>>) /\ <<6, 7, 8>> \in Seq(Nat)
    <3>1. /\ \A i \in DOMAIN <<6, 7, 8>> : <<6, 7, 8>>[i] \in Nat /\ <<6, 7, 8>>[i] <= 8
          /\ <<6, 7, 8>> \in Seq(Nat)
      BY SMTT(30)
    <3>2. 8 \in Nat /\ 8 <= 8 /\ 4 + 8 <= Len(raw)
      BY <1>3, <1>16
    <3> QED
      BY <1>3, <1>16, <3>1, <3>2, WithinLong
  <2>4. Within(raw, HeaderAt \o <<6, 7, 8>>)
    BY <1>4, <1>7, <2>3, WithinBoth
  <2>5. Values(raw, <<6, 7, 8>>) = <<raw[10], raw[11], raw[12]>>
    BY SMTT(30) DEF Values
  <2>6. DecodeA5(raw) = ParseAs(Shape(136), raw)
    BY <1>4, <1>6, <2>1 DEF DecodeA5, Commands
  <2>7. Values(raw, HeaderAt)[5] >= 4
    BY <1>5, <2>1
  <2> DEFINE shape == [type |-> "HeatChange", at |-> <<6, 7, 8>>, least |-> 4]
  <2>8. ParseAs(shape, raw) = [type |-> "HeatChange", header |-> Values(raw, HeaderAt),
                               fields |-> Values(raw, <<6, 7, 8>>)]
    BY <1>16, <2>4, <2>7 DEF ParseAs
  <2>9. Shape(136) = shape
    BY Shapes
  <2>10. m.fields = <<raw[10], raw[11], raw[12]>>
    BY <1>2, <2>2
  <2> HIDE DEF shape
  <2> QED
    BY ONLY <1>5, <1>9, <1>11, <2>5, <2>6, <2>8, <2>9, <2>10
<1> QED
  BY <1>10, <1>11 DEF WriteMessage, Writes

(* A change behind the sync: the frame that is taken up to its LEN has a   *)
(* wrong checksum or, with a smaller LEN, is too short for its parser, or, *)
(* with a larger one, is the request and some bytes that follow it.        *)
LEMMA BehindSync ==
  ASSUME NEW m, NEW s, NEW w, NEW j, Altered(m, s, w, j), Canonical(m) = m, j >= 5,
         NEW t \in Seq(Octet), NEW z, Follows(z, w, t), 11 + w[9] <= Len(z)
  PROVE  Noticed(Decode([kind |-> "a5", raw |-> SubSeq(z, 1, 11 + w[9])]), m, w, j)
<1> DEFINE N == Len(s)
           k == 11 + w[9]
           raw == SubSeq(z, 1, k)
           f == [kind |-> "a5", raw |-> raw]
<1>1. /\ s \in Seq(Octet) /\ N \in {13, 15} /\ s[9] = N - 11
      /\ s[1] = 255 /\ s[2] = 0 /\ s[3] = 255 /\ s[4] = 165
      /\ s[8] = CommandOf(m.type) /\ s[9] = LeastOf(m.type)
  BY DEF Altered, Crafts, FrontOfA5, SyncFront
<1>2. /\ w \in Seq(Octet) /\ Len(w) = N /\ j \in 1..N /\ w[j] # s[j]
      /\ \A i \in 1..N : i # j => w[i] = s[i]
  BY DEF Altered, DifferAt
<1>3. VerifyA5(From(s, 4)) /\ From(s, 4) = SubSeq(s, 4, N)
  BY DEF Altered, Crafts, From
<1>4. Len(s) = N
  OBVIOUS
<1>14. z \in Seq(Octet) /\ Len(z) >= N /\ k <= Len(z) /\ \A i \in 1..N : z[i] = w[i]
  <2>1. Len(z) = Len(w) + Len(t) /\ Len(t) \in Nat /\ Len(w) = N /\ N \in Nat
    BY <1>1, <1>2 DEF Follows, IsJoin
  <2> HIDE DEF N
  <2> QED
    BY <2>1 DEF Follows, IsJoin
<1>15. m.header[5] = s[9]
  <2>1. 5 \in 1..5 /\ 4 + 5 = 9
    OBVIOUS
  <2> QED
    BY <2>1 DEF Altered, Crafts
<1> HIDE DEF N
<1>5. N \in Nat /\ N >= 13 /\ N <= 15
  BY <1>1
<1>6. w[1] = 255 /\ w[2] = 0 /\ w[3] = 255 /\ w[4] = 165
  <2>1. \A i \in {1, 2, 3, 4} : i \in 1..N /\ i # j
    BY <1>2, <1>5
  <2> QED
    BY SMTT(30), <1>1, <1>2, <2>1
<1>7. w[9] \in Int /\ w[9] >= 0
  <2>1. 9 \in 1..N
    BY <1>5
  <2>2. w[9] \in Octet
    BY <1>2, <2>1
  <2> QED
    BY <2>2, OctetRange
<1>8. k \in Nat /\ k >= 11 /\ k <= Len(z) /\ Len(z) \in Nat
  BY <1>7, <1>14
<1> HIDE DEF k
<1>16. /\ raw \in Seq(Octet) /\ Len(raw) = k /\ \A i \in 1..k : raw[i] = z[i]
  BY <1>8, <1>14
<1> HIDE DEF raw
<1>9. raw \in Seq(Octet) /\ Len(raw) = k /\ \A i \in 1..k : i <= N => raw[i] = w[i]
  <2>1. \A i \in 1..k : i <= N => i \in 1..N
    BY <1>5
  <2> QED
    BY <1>14, <1>16, <2>1
<1>10. A5At(raw) = 4
  <2>1. raw[1] = 255 /\ raw[2] = 0 /\ raw[3] = 255 /\ raw[4] = 165
    <3>1. \A i \in {1, 2, 3, 4} : i \in 1..k /\ i <= N
      BY <1>5, <1>8
    <3> QED
      BY <1>6, <1>9, <3>1
  <2> QED
    BY SMTT(30), <1>8, <1>9, <2>1, MarkedAt
<1>11. ChecksumOk(f) <=> VerifyA5(From(raw, 4))
  BY <1>10 DEF ChecksumOk
<1>12. CASE j # 9
  <2>1. w[9] = s[9]
    <3>1. 9 \in 1..N
      BY <1>5
    <3> QED
      BY <1>2, <1>12, <3>1
  <2>2. k = N
    BY <1>1, <1>5, <2>1 DEF k
  <2> DEFINE u == SubSeq(s, 4, N)
             v == SubSeq(raw, 4, N)
             new == [u EXCEPT ![j - 3] = w[j]]
  <2>3. u \in Seq(Octet) /\ Len(u) = N - 3 /\ \A i \in 1..(N - 3) : u[i] = s[i + 3]
    BY <1>1, <1>4, <1>5
  <2>4. v \in Seq(Octet) /\ Len(v) = N - 3 /\ \A i \in 1..(N - 3) : v[i] = raw[i + 3]
    BY <1>5, <1>9, <2>2
  <2>5. VerifyA5(u) /\ From(raw, 4) = v
    BY <1>3, <1>9, <2>2 DEF From
  <2> HIDE DEF u, v
  <2>6. j - 3 \in 1..Len(u) /\ w[j] \in Octet
    BY <1>2, <1>5, <2>3
  <2>7. w[j] # u[j - 3]
    BY <1>2, <2>3, <2>6
  <2>8. ~ VerifyA5(new)
    BY <2>3, <2>5, <2>6, <2>7, OneByteOfA5
  <2>9. /\ new \in Seq(Octet) /\ Len(new) = Len(u)
        /\ \A n \in 1..Len(u) : new[n] = IF n = j - 3 THEN w[j] ELSE u[n]
    BY <2>3, <2>6, ByteChanged
  <2> HIDE DEF new
  <2>10. ASSUME NEW i \in 1..(N - 3) PROVE new[i] = v[i]
    <3>1. i + 3 \in 1..N /\ i + 3 \in 1..k /\ i + 3 <= N /\ i \in 1..Len(u)
      BY <1>5, <2>2, <2>3
    <3>2. v[i] = w[i + 3] /\ u[i] = s[i + 3]
      BY <1>9, <2>3, <2>4, <3>1
    <3>3. CASE i = j - 3
      <4>1. i + 3 = j
        BY <1>2, <3>3
      <4> QED
        BY <2>9, <3>1, <3>2, <3>3, <4>1
    <3>4. CASE i # j - 3
      <4>1. i + 3 # j
        BY <1>2, <3>4
      <4> QED
        BY <1>2, <2>9, <3>1, <3>2, <3>4, <4>1
    <3> QED
      BY <3>3, <3>4
  <2>11. new = v
    <3>1. Len(new) = Len(v) /\ \A i \in 1..Len(new) : new[i] = v[i]
      BY <2>3, <2>4, <2>9, <2>10
    <3> QED
      BY <2>4, <2>9, <3>1, SameBytes
  <2> QED
    BY <1>11, <2>5, <2>8, <2>11 DEF Noticed, Decode, f, raw, k
<1>17. j = 9 => w[9] # s[9] /\ s[9] \in Int /\ raw[9] = w[9]
  <2>1. 9 \in 1..k /\ 9 <= N /\ N - 11 \in Int
    BY <1>5, <1>8
  <2> QED
    BY <1>1, <1>2, <1>9, <2>1
<1>18. CASE j = 9 /\ w[9] > s[9]
  <2>1. Len(raw) >= Len(s)
    BY SMTT(30), <1>1, <1>4, <1>5, <1>7, <1>9, <1>18 DEF k
  <2>2. ASSUME NEW i \in 5..12, i # 9 PROVE raw[i] = s[i]
    <3>1. i \in 1..k /\ i <= N /\ i \in 1..N
      BY <1>4, <1>5, <1>9, <2>1
    <3> QED
      BY <1>2, <1>9, <1>18, <2>2, <3>1
  <2>3. WriteMessage(m) /\ Crafts(m, s)
    BY DEF Altered
  <2>4. raw[9] \in Int /\ raw[9] > s[9]
    BY <1>7, <1>17, <1>18
  <2>5. DecodeA5(raw) = [m EXCEPT !.header[5] = raw[9]]
    <3>1. \A i \in 5..12 : i # 9 => raw[i] = s[i]
      BY <2>2
    <3>2. raw \in Seq(Octet) /\ Canonical(m) = m
      BY <1>9
    <3> QED
      BY ONLY SMTT(30), <1>10, <2>1, <2>3, <2>4, <3>1, <3>2, LongerDecoded
  <2>6. Decode(f) = Quarantined \/ Decode(f) = [m EXCEPT !.header[5] = w[9]]
    BY <1>17, <1>18, <2>5 DEF Decode
  <2> QED
    BY <1>15, <1>18, <2>6 DEF Noticed, f, raw, k
<1>13. CASE j = 9 /\ w[9] < s[9]
  <2>1. w[9] < LeastOf(m.type)
    BY <1>1, <1>13
  <2>2. raw[8] = CommandOf(m.type) /\ raw[9] = w[9]
    <3>1. 8 \in 1..N /\ 8 # j /\ 8 \in 1..k /\ 9 \in 1..k /\ 8 <= N /\ 9 <= N
      BY <1>5, <1>8, <1>13
    <3> QED
      BY SMTT(30), <1>1, <1>2, <1>9, <3>1
  <2> DEFINE c == Values(raw, << 4 >>)[1]
  <2>3. c = raw[8]
    <3>1. DOMAIN << 4 >> = 1..1 /\ 4 + 4 = 8
      OBVIOUS
    <3>2. c = raw[A5At(raw) + 4]
      BY <3>1 DEF Values
    <3> QED
      BY <1>10, <3>1, <3>2
  <2>4. Values(raw, HeaderAt)[5] = w[9]
    <3>1. DOMAIN HeaderAt = 1..5 /\ HeaderAt[5] = 5 /\ 4 + 5 = 9
      BY DEF HeaderAt
    <3>2. Values(raw, HeaderAt)[5] = raw[A5At(raw) + 5]
      BY <3>1 DEF Values
    <3> QED
      BY <1>10, <2>2, <3>1, <3>2
  <2>5. Within(raw, << 4 >>)
    <3>1. \A i \in DOMAIN << 4 >> : << 4 >>[i] = 4
      OBVIOUS
    <3>2. 4 + 4 <= Len(raw)
      BY <1>8, <1>9
    <3>3. ASSUME NEW i \in DOMAIN << 4 >> PROVE A5At(raw) + << 4 >>[i] <= Len(raw)
      <4>1. << 4 >>[i] = 4
        BY ONLY <3>1, i \in DOMAIN << 4 >>
      <4> QED
        BY ONLY Zenon, <1>10, <3>2, <4>1
    <3> QED
      BY ONLY Zenon, <3>3 DEF Within
  <2> HIDE DEF c
  <2>6. c \in Commands /\ Shape(c).least = LeastOf(m.type)
    <3>1. (c = 134 /\ LeastOf(m.type) = 2) \/ (c = 136 /\ LeastOf(m.type) = 4)
      BY <2>2, <2>3 DEF CommandOf, LeastOf
    <3>2. Shape(134).least = 2 /\ Shape(136).least = 4
      BY Shapes
    <3> QED
      BY <3>1, <3>2 DEF Commands
  <2>7. ~ (w[9] >= LeastOf(m.type))
    <3>1. LeastOf(m.type) \in Int
      BY DEF LeastOf
    <3> QED
      BY <1>7, <2>1, <3>1
  <2>8. ParseAs(Shape(c), raw) = Raised
    BY <2>4, <2>6, <2>7 DEF ParseAs
  <2>9. DecodeA5(raw) = Raised
    BY <1>10, <2>5, <2>6, <2>8 DEF DecodeA5, c
  <2>10. Decode(f) = Quarantined \/ Decode(f) = Raised
    BY <2>9 DEF Decode
  <2> QED
    BY <1>13, <1>15, <2>10 DEF Noticed, f, raw, k
<1> QED
  <2>1. w[9] < s[9] \/ w[9] > s[9] \/ w[9] = s[9] \/ j # 9
    BY <1>7, <1>17
  <2> QED
    BY <1>12, <1>13, <1>17, <1>18, <2>1

(* An IntelliChlor frame ends in 10 03, a request in its checksum, of so   *)
(* few bytes that it is not as large.                                      *)
LEMMA SumAtMost ==
  ASSUME NEW s \in Seq(Octet)
  PROVE  Total(s) <= 255 * Len(s)
<1> DEFINE S == {n \in Nat : \A t \in Seq(Octet) : Len(t) = n => Total(t) <= 255 * n}
<1>1. 0 \in S
  <2>1. ASSUME NEW t \in Seq(Octet), Len(t) = 0 PROVE Total(t) = 0
    <3>1. t \in Seq(Nat)
      BY OctetsAreNumbers
    <3> QED
      BY <2>1, <3>1, SumOfNothing
  <2> QED
    BY <2>1
<1>2. ASSUME NEW n \in Nat, n \in S PROVE n + 1 \in S
  <2> SUFFICES ASSUME NEW t \in Seq(Octet), Len(t) = n + 1 PROVE Total(t) <= 255 * (n + 1)
    OBVIOUS
  <2> DEFINE u == SubSeq(t, 2, n + 1)
  <2>1. u \in Seq(Octet) /\ Len(u) = n /\ \A i \in 1..n : u[i] = t[i + 1]
    OBVIOUS
  <2> HIDE DEF u
  <2>2. Total(u) <= 255 * n
    BY <1>2, <2>1
  <2>3. t \in Seq(Nat) /\ u \in Seq(Nat)
    BY <2>1, OctetsAreNumbers
  <2>4. Total(t) = t[1] + Total(u)
    <3>1. Len(t) = Len(u) + 1 /\ \A i \in 1..Len(u) : t[i + 1] = u[i]
      BY <2>1
    <3> QED
      BY <2>3, <3>1, SumDrop
  <2>5. t[1] \in Int /\ t[1] <= 255
    <3>1. t[1] \in Octet
      OBVIOUS
    <3> QED
      BY <3>1, OctetRange
  <2>6. Total(u) \in Nat
    BY <2>1, TotalOfOctets
  <2> DEFINE a == Total(t)
             b == Total(u)
             c == t[1]
  <2>7. a = c + b /\ c \in Int /\ c <= 255 /\ b \in Nat /\ b <= 255 * n
    BY <2>2, <2>4, <2>5, <2>6
  <2> HIDE DEF a, b, c
  <2>8. a <= 255 * (n + 1)
    BY ONLY n \in Nat, <2>7
  <2> QED
    BY <2>8 DEF a
<1> HIDE DEF S
<1>3. \A n \in Nat : n \in S
  BY <1>1, <1>2, SetInduction
<1>4. Len(s) \in S
  BY <1>3
<1> QED
  BY <1>4 DEF S

LEMMA ChlorIsOther ==
  ASSUME NEW m, NEW s, Crafts(m, s),
         NEW f \in Raw, f.raw[Len(f.raw) - 1] = 16, A5At(f.raw) # 0
  PROVE  ~ Itself(f, s)
<1> SUFFICES ASSUME Itself(f, s) PROVE FALSE
  OBVIOUS
<1> DEFINE raw == f.raw
           M == A5At(raw)
           R == Len(raw)
           N == Len(s)
           u == SubSeq(raw, M, R)
           v == SubSeq(s, 4, N)
           x == SubSeq(s, 4, N - 2)
<1>1. raw \in Seq(Octet) /\ R \in Nat /\ raw[R - 1] = 16
  BY DEF Raw
<1>2. M \in 3..R
  <2>1. Marked(raw, M)
    BY <1>1, MarkIsThere
  <2> HIDE DEF raw, M
  <2> QED
    BY <2>1 DEF Marked
<1>3. s \in Seq(Octet) /\ N \in Nat /\ N >= 13 /\ N <= 15 /\ VerifyA5(v)
  <2>1. s \in Seq(Octet) /\ N \in {13, 15} /\ VerifyA5(From(s, 4))
    BY DEF Crafts, FrontOfA5, SyncFront
  <2>2. VerifyA5(v)
    BY <2>1 DEF From
  <2> HIDE DEF N, v
  <2> QED
    BY <2>1, <2>2
<1>4. u = v
  BY DEF Itself, From
<1>5. Checksum(x) = (s[N - 1] * 256) + s[N]
  <2>1. 4 \in Nat /\ 4 >= 1 /\ N <= Len(s) /\ N >= 4 + 7
    BY <1>3
  <2> QED
    BY <1>3, <2>1, VerifyAt
<1>6. x \in Seq(Octet) /\ Len(x) = N - 5
  BY <1>3
<1>7. Len(s) = N /\ Len(raw) = R
  OBVIOUS
<1> HIDE DEF raw, M, R, N, x
<1>8. /\ Len(u) = (R - M) + 1 /\ \A i \in 1..((R - M) + 1) : u[i] = raw[(M + i) - 1]
      /\ Len(v) = N - 3 /\ \A i \in 1..(N - 3) : v[i] = s[i + 3]
  BY <1>1, <1>2, <1>3, <1>7
<1> HIDE DEF u, v
<1>9. R - M = N - 4
  BY <1>1, <1>2, <1>3, <1>4, <1>8
<1>10. s[N - 1] = 16
  <2>1. /\ N - 4 \in 1..((R - M) + 1) /\ N - 4 \in 1..(N - 3)
        /\ (M + (N - 4)) - 1 = R - 1 /\ (N - 4) + 3 = N - 1
    BY <1>1, <1>2, <1>3, <1>9
  <2> QED
    BY <1>1, <1>4, <1>8, <2>1
<1>11. s[N] \in Int /\ s[N] >= 0
  <2>1. s[N] \in Octet
    BY <1>3, <1>7
  <2> QED
    BY <2>1, OctetRange
<1> DEFINE n == Total(x)
<1>12. n \in Nat /\ n <= 2550
  <2>1. n \in Nat /\ n <= 255 * (N - 5) /\ N - 5 <= 10 /\ N - 5 \in Nat
    BY <1>3, <1>6, SumAtMost, TotalOfOctets
  <2> HIDE DEF n
  <2> QED
    BY ONLY <1>3, <2>1
<1>13. n % 65536 = (16 * 256) + s[N]
  BY <1>5, <1>10 DEF Checksum
<1> HIDE DEF n
<1>14. n % 65536 = n
  BY <1>12
<1> QED
  BY <1>11, <1>12, <1>13, <1>14

(* What a changed request is decoded to is the first of its frames.        *)
FirstFrame(f) ==
    /\ f = frames[1] /\ f \in Raw /\ item = Decode(f) /\ Shaped(f)
    /\ \E lead \in Seq({0, 255}), b \in Seq(Octet) : IsJoin(Octet, b, lead, Stream) /\ Piece(f.raw, b)

LEMMA ChangedDecoded ==
  ASSUME LabInv, origin = "changed", Decoded
  PROVE  /\ FirstFrame(frames[1]) /\ Canonical(asked) = asked
         /\ \E j : Altered(asked, ToHex(asked), wire, j)
<1>1. /\ WriteMessage(asked) /\ Canonical(asked) = asked /\ OneChange(asked, wire) /\ AllPieces
      /\ frames # <<>> /\ item = Decode(frames[1]) /\ frames \in Seq(Raw)
  BY DEF LabInv, SentInv, DecodedInv, TypeInv, Decoded
<1>2. 1 \in 1..Len(frames) /\ frames[1] \in Raw
  BY <1>1
<1>3. PICK lead \in Seq({0, 255}), b \in Seq(Octet) :
          /\ IsJoin(Octet, b, lead, Stream)
          /\ \A k \in 1..Len(frames) : Shaped(frames[k]) /\ Piece(frames[k].raw, b)
  BY <1>1 DEF AllPieces
<1>4. Shaped(frames[1]) /\ Piece(frames[1].raw, b)
  BY <1>2, <1>3
<1>5. FirstFrame(frames[1])
  BY ONLY Zenon, <1>1, <1>2, <1>3, <1>4 DEF FirstFrame
<1>6. PICK j : DifferAt(ToHex(asked), wire, j) /\ wire[j] # ToHex(asked)[j]
  BY <1>1 DEF OneChange
<1>7. Crafts(asked, ToHex(asked)) /\ wire \in Seq(Octet)
  BY <1>1, AskedBytes DEF OneChange
<1>8. Altered(asked, ToHex(asked), wire, j)
  BY <1>1, <1>6, <1>7 DEF Altered
<1> QED
  BY <1>1, <1>5, <1>8

(* A changed request behind idle bytes and in front of others.             *)
LEMMA ChangedStream ==
  ASSUME LabInv, origin = "changed", Decoded,
         NEW j, Altered(asked, ToHex(asked), wire, j)
  PROVE  /\ tail \in Seq(Octet)
         /\ j >= 5 => SyncFront(wire) /\ Follows(Stream, wire, tail)
         /\ IsJoin(Octet, Stream, wire, tail) /\ Stream \in Seq(Octet)
<1> DEFINE s == ToHex(asked)
<1>1. /\ s \in Seq(Octet) /\ Len(s) \in {13, 15}
      /\ s[1] = 255 /\ s[2] = 0 /\ s[3] = 255 /\ s[4] = 165
      /\ wire \in Seq(Octet) /\ Len(wire) = Len(s)
      /\ \A i \in 1..Len(s) : i # j => wire[i] = s[i]
  BY DEF Altered, Crafts, FrontOfA5, SyncFront, DifferAt
<1> HIDE DEF s
<1>2. tail \in Seq(Octet)
  BY DEF LabInv, TypeInv
<1>3. ASSUME j >= 5 PROVE SyncFront(wire)
  <2>1. \A i \in {1, 2, 3, 4} : i \in 1..Len(s) /\ i # j
    BY <1>1, <1>3
  <2>2. wire[1] = 255 /\ wire[2] = 0 /\ wire[3] = 255 /\ wire[4] = 165
    BY <1>1, <2>1
  <2> QED
    BY <1>1, <2>2 DEF SyncFront
<1>4. IsJoin(Octet, Stream, wire, tail)
  BY <1>1, <1>2, Joined DEF Stream
<1>5. SyncFront(wire) => Follows(Stream, wire, tail)
  BY <1>2, StreamFollows DEF Stream
<1> QED
  BY <1>2, <1>3, <1>4, <1>5 DEF IsJoin

(* Behind the sync a change is noticed.                                    *)
LEMMA NoticedBehindSync ==
  ASSUME LabInv, origin = "changed", Decoded,
         NEW j, Altered(asked, ToHex(asked), wire, j), j >= 5
  PROVE  Noticed(item, asked, wire, j)
<1>1. SyncFront(wire) /\ Follows(Stream, wire, tail) /\ tail \in Seq(Octet)
  BY ChangedStream DEF LabInv, TypeInv
<1>2. frames # <<>> /\ ~draining /\ item = Decode(frames[1]) /\ Canonical(asked) = asked
  BY DEF LabInv, SentInv, DecodedInv, Decoded
<1>3. FirstTaken
  BY <1>1, <1>2 DEF LabInv, SentInv, InBuffer, Waiting
<1>4. 11 + wire[9] <= Len(Stream)
      /\ item = Decode([kind |-> "a5", raw |-> SubSeq(Stream, 1, 11 + wire[9])])
  BY <1>2, <1>3 DEF FirstTaken, Until
<1>5. Noticed(Decode([kind |-> "a5", raw |-> SubSeq(Stream, 1, 11 + wire[9])]), asked, wire, j)
  BY <1>1, <1>2, <1>4, BehindSync
<1> QED
  BY <1>4, <1>5

(* A write request that comes out of one whose sync is changed.            *)
InSpite(f) ==
    /\ A5At(f.raw) # 0 /\ item = DecodeA5(f.raw)
    /\ item.header[4] \in {134, 136}
    /\ Itself(f, ToHex(asked)) \/ Shifted(item, asked) \/ OfTail

LEMMA DecodedInSpite ==
  ASSUME LabInv, origin = "changed", Decoded, item.type \in Writes, OneSync,
         NEW j, Altered(asked, ToHex(asked), wire, j), j <= 4
  PROVE  InSpite(frames[1])
<1> DEFINE f == frames[1]
           s == ToHex(asked)
<1>1. FirstFrame(f)
  BY ChangedDecoded
<1>3. f \in Raw /\ item = Decode(f) /\ Shaped(f)
  BY <1>1 DEF FirstFrame
<1>4. PICK lead \in Seq({0, 255}), b \in Seq(Octet) : IsJoin(Octet, b, lead, Stream) /\ Piece(f.raw, b)
  BY <1>1 DEF FirstFrame
<1>5. Stream \in Seq(Octet) /\ IsJoin(Octet, Stream, wire, tail) /\ tail \in Seq(Octet)
  BY ChangedStream DEF LabInv, TypeInv
<1>6. \A k \in 3..Len(wire) : wire[k] = 165 /\ wire[k - 1] = 255 /\ wire[k - 2] = 0 => k = 4
  <2>1. ASSUME NEW k \in 3..Len(wire), wire[k] = 165, wire[k - 1] = 255, wire[k - 2] = 0
        PROVE  k \in Bus!A5Marks(wire)
    BY <2>1 DEF Bus!A5Marks, Bus!Positions
  <2>2. Bus!A5Marks(wire) \subseteq {4}
    BY DEF OneSync
  <2> QED
    BY <2>1, <2>2
<1> HIDE DEF f, s
<1>7. PICK q \in Nat, len \in Nat : SyncAt(f, Stream, q, len)
  BY <1>3, <1>4, <1>5, WriteHasSync
<1>8. Itself(f, s) \/ Shifted(Decode(f), asked) \/ PartOf(f, tail)
  BY <1>3, <1>5, <1>6, <1>7, FalseSync DEF s
<1>9. A5At(f.raw) # 0 /\ item = DecodeA5(f.raw)
  BY <1>3, <1>7 DEF SyncAt
<1>10. item.header[4] \in {134, 136}
  <2>1. 4 \in 1..5
    OBVIOUS
  <2>2. Decode(f).header[4] = CommandOf(Decode(f).type)
    BY <1>7, <2>1 DEF SyncAt
  <2> QED
    BY <1>3, <2>2 DEF CommandOf
<1>11. PartOf(f, tail) => OfTail
  BY DEF PartOf, OfTail, FromSync, f
<1> QED
  BY <1>3, <1>8, <1>9, <1>10, <1>11 DEF InSpite, f, s

(* The bytes of a request, from its A5 on, are decoded to the request.     *)
LEMMA ItselfDecoded ==
  ASSUME NEW m, NEW s, Crafts(m, s), NEW f \in Raw, A5At(f.raw) # 0, Itself(f, s)
  PROVE  DecodeA5(f.raw) = m /\ VerifyA5(From(f.raw, A5At(f.raw)))
<1>1. /\ s \in Seq(Octet) /\ A5At(s) = 4 /\ VerifyA5(From(s, 4)) /\ DecodeA5(s) = m
  BY DEF Crafts, FrontOfA5, SyncFront
<1>2. f.raw \in Seq(Octet)
  BY DEF Raw
<1>3. From(f.raw, A5At(f.raw)) = From(s, A5At(s))
  BY <1>1 DEF Itself
<1>4. A5At(s) # 0
  BY <1>1
<1>5. DecodeA5(f.raw) = DecodeA5(s)
  BY <1>2, <1>1, <1>3, <1>4, SameBody
<1> QED
  BY <1>1, <1>3, <1>5

LEMMA ChangeNoticed == LabInv => ChangeIsNoticed
<1> SUFFICES ASSUME LabInv, origin = "changed", Decoded
             PROVE  /\ \A i \in 5..Len(wire) : Changed(i) => Noticed(item, asked, wire, i)
                    /\ PlainHeader /\ OneSync /\ item.type \in Writes =>
                          \/ item = asked
                          \/ Changed(9) /\ item = [asked EXCEPT !.header[5] = wire[9]]
                          \/ OfTail
  BY DEF ChangeIsNoticed, Noticed
<1>1. FirstFrame(frames[1])
  BY ChangedDecoded
<1>2. PICK j : Altered(asked, ToHex(asked), wire, j)
  BY ChangedDecoded
<1>5. /\ wire[j] # ToHex(asked)[j] /\ Len(wire) = Len(ToHex(asked)) /\ j \in Int
      /\ \A n \in 1..Len(ToHex(asked)) : n # j => wire[n] = ToHex(asked)[n]
  BY <1>2 DEF Altered, DifferAt
<1>3. ASSUME NEW i \in 5..Len(wire), Changed(i)
      PROVE  Noticed(item, asked, wire, i)
  <2>1. i \in 1..Len(ToHex(asked)) /\ i >= 5
    BY <1>5
  <2>2. i = j
    BY <1>3, <1>5, <2>1 DEF Changed
  <2> QED
    BY <1>2, <2>1, <2>2, NoticedBehindSync
<1>4. ASSUME PlainHeader, OneSync, item.type \in Writes
      PROVE  \/ item = asked
             \/ Changed(9) /\ item = [asked EXCEPT !.header[5] = wire[9]]
             \/ OfTail
  <2>1. CASE j >= 5
    <3>1. Noticed(item, asked, wire, j)
      BY <1>2, <2>1, NoticedBehindSync
    <3>2. item # Quarantined /\ item # Raised
      BY <1>4 DEF Quarantined, Raised, Writes
    <3> QED
      BY <1>5, <3>1, <3>2 DEF Noticed, Changed
  <2>2. CASE j <= 4
    <3>1. InSpite(frames[1])
      BY <1>2, <1>4, <2>2, DecodedInSpite
    <3>2. ~ Shifted(item, asked)
      <4>1. asked.header[1] \notin {134, 136} /\ asked.header[2] \notin {134, 136}
        BY ONLY Zenon, <1>4 DEF PlainHeader
      <4>2. item.header[4] \in {134, 136}
        BY ONLY Zenon, <3>1 DEF InSpite
      <4> QED
        BY ONLY Zenon, <4>1, <4>2 DEF Shifted
    <3>3. frames[1] \in Raw /\ Crafts(asked, ToHex(asked))
      BY <1>1, <1>2 DEF FirstFrame, Altered
    <3>4. A5At(frames[1].raw) # 0 /\ item = DecodeA5(frames[1].raw)
      BY <3>1 DEF InSpite
    <3>5. Itself(frames[1], ToHex(asked)) => item = asked
      BY <3>3, <3>4, ItselfDecoded
    <3> QED
      BY <3>1, <3>2, <3>5 DEF InSpite
  <2> QED
    BY <1>5, <2>1, <2>2
<1> QED
  BY <1>3, <1>4

LEMMA DiffsAgree == LabInv => DiffAgrees
<1> SUFFICES ASSUME LabInv, Decoded, asked # NoItem
             PROVE  /\ SameTx(ToHex(asked), frames[1].raw) => item = asked
                    /\ OneSync /\ item = asked =>
                          SameTx(ToHex(asked), frames[1].raw) \/ OfTail
  BY DEF DiffAgrees
<1> DEFINE f == frames[1]
           s == ToHex(asked)
<1>1. origin = "crafted" \/ origin = "changed"
  BY DEF LabInv, AskedInv
<1>2. CASE origin = "crafted"
  <2>1. WriteMessage(asked) /\ Canonical(asked) = asked /\ wire = s /\ ~draining
    BY <1>2 DEF LabInv, SentInv, DecodedInv, Decoded
  <2>2. f.raw = s
    BY <1>2, <2>1, CraftedFirst
  <2>3. A5At(s) = 4
    BY <2>1, AskedBytes DEF Crafts
  <2>4. item = asked
    BY <1>2, CraftedDecoded DEF CraftedIsDecoded
  <2> QED
    BY <2>2, <2>3, <2>4 DEF SameTx
<1>3. CASE origin = "changed"
  <2>1. FirstFrame(f)
    BY <1>3, ChangedDecoded
  <2>2. PICK j : Altered(asked, s, wire, j)
    BY <1>3, ChangedDecoded
  <2>3. f \in Raw /\ item = Decode(f) /\ Shaped(f) /\ f.kind \in {"a5", "intellichlor"}
    BY <2>1 DEF FirstFrame, Raw
  <2>4. Crafts(asked, s) /\ WriteMessage(asked) /\ j \in Int
    BY <2>2 DEF Altered, DifferAt
  <2>5. A5At(s) = 4
    BY <2>4 DEF Crafts
  <2>6. ASSUME item = asked, OneSync PROVE SameTx(s, f.raw) \/ OfTail
    <3>1. asked.type \in Writes
      BY <2>4 DEF WriteMessage
    <3>2. j <= 4
      <4> SUFFICES ASSUME j >= 5 PROVE FALSE
        BY <2>4
      <4>1. Noticed(item, asked, wire, j)
        BY <1>3, <2>2, NoticedBehindSync
      <4>2. item # Quarantined /\ item # Raised
        BY <2>6, <3>1 DEF Quarantined, Raised, Writes
      <4>3. wire[9] > asked.header[5] /\ asked = [asked EXCEPT !.header[5] = wire[9]]
        BY <2>6, <4>1, <4>2 DEF Noticed
      <4>4. asked.header \in Seq(Octet) /\ Len(asked.header) = 5
        BY <2>4 DEF WriteMessage
      <4>5. asked.header[5] = wire[9]
        <5> DEFINE g == [asked.header EXCEPT ![5] = wire[9]]
        <5>1. g[5] = wire[9]
          BY <4>4
        <5>2. Canonical(asked) = asked
          BY <1>3, ChangedDecoded
        <5>3. asked = [type |-> asked.type, header |-> asked.header, fields |-> asked.fields]
          BY <5>2 DEF Canonical
        <5>4. [asked EXCEPT !.header[5] = wire[9]] = [asked EXCEPT !.header = g]
          OBVIOUS
        <5> HIDE DEF g
        <5>5. [asked EXCEPT !.header = g].header = g
          BY <5>3
        <5> QED
          BY <4>3, <5>1, <5>4, <5>5
      <4>6. asked.header[5] \in Int
        BY <4>4, OctetRange
      <4> QED
        BY <4>3, <4>5, <4>6
    <3>3. InSpite(f)
      BY <1>3, <2>2, <2>6, <3>1, <3>2, DecodedInSpite
    <3>4. ~ Shifted(item, asked)
      BY <2>6, <3>3 DEF InSpite, Shifted
    <3> QED
      BY <2>5, <3>3, <3>4 DEF InSpite, Itself, SameTx
  <2>7. ASSUME SameTx(s, f.raw) PROVE item = asked
    <3>1. A5At(f.raw) # 0 /\ Itself(f, s)
      BY <2>5, <2>7 DEF SameTx, Itself
    <3>2. f.kind # "intellichlor"
      <4> SUFFICES ASSUME f.kind = "intellichlor" PROVE FALSE
        OBVIOUS
      <4>1. f.raw[Len(f.raw) - 1] = 16
        BY <2>3 DEF Shaped
      <4> HIDE DEF f, s
      <4> QED
        BY <2>3, <2>4, <3>1, <4>1, ChlorIsOther
    <3>3. DecodeA5(f.raw) = asked /\ VerifyA5(From(f.raw, A5At(f.raw)))
      <4> HIDE DEF f, s
      <4> QED
        BY <2>3, <2>4, <3>1, ItselfDecoded
    <3>4. f.kind = "a5"
      BY <2>3, <3>2
    <3> QED
      BY <2>3, <3>3, <3>4 DEF Decode, ChecksumOk
  <2> QED
    BY <2>6, <2>7
<1> QED
  BY <1>1, <1>2, <1>3

-----------------------------------------------------------------------------
(* The theorems.                                                           *)

(* A crafted request, whatever its circuit, set points and header are,     *)
(* however many idle bytes are in front of it and whatever is behind it,   *)
(* is the first frame that comes out of the framer and is decoded to the   *)
(* message it was crafted from; and what is decoded as a write request     *)
(* says the same when it is crafted again.                                 *)
THEOREM CraftedDecodes == Spec => []CraftedIsDecoded
<1>1. LabInv => CraftedIsDecoded
  BY CraftedDecoded
<1> QED
  BY <1>1, LabInvariant, PTL

(* The least LEN of the registered parsers keeps the fields of a decoded   *)
(* write request inside its payload, whatever bytes the bus delivers.      *)
THEOREM FieldsStayInside == Spec => []WriteFieldsInPayload
<1>1. LabInv => WriteFieldsInPayload
  BY FieldsInside
<1> QED
  BY <1>1, LabInvariant, PTL

(* Whatever byte of a crafted request is changed, whatever idle bytes are  *)
(* in front of it and whatever bytes follow: a change behind the sync is   *)
(* stopped by verify_checksum or by the parser, but for a LEN that was     *)
(* made larger and finds a good checksum in what follows, which changes    *)
(* nothing else of the request; and behind a changed sync the framer finds *)
(* the request itself, a frame of what follows, or nothing that parses as  *)
(* a write, if protocol and destination of the request are not commands of *)
(* one and no second sync is in its bytes.                                 *)
THEOREM ChangesAreNoticed == Spec => []ChangeIsNoticed
<1>1. LabInv => ChangeIsNoticed
  BY ChangeNoticed
<1> QED
  BY <1>1, LabInvariant, PTL

(* For a request sent as it was crafted and for one with any byte changed, *)
(* whatever is around it on the bus: a frame that diff_tx() finds the same *)
(* as the request is decoded to it, and one that is decoded to it is the   *)
(* same to diff_tx() or is a frame of what follows.                        *)
THEOREM DiffAlwaysAgrees == Spec => []DiffAgrees
<1>1. LabInv => DiffAgrees
  BY DiffsAgree
<1> QED
  BY <1>1, LabInvariant, PTL

(* verify_checksum of a frame, A5 or IntelliChlor and of any length, fails *)
(* when any one of its bytes is replaced by any other.                     *)
THEOREM OneByteIsNoticed ==
  \A s \in Seq(Octet) : \A i \in 1..Len(s) : \A v \in Octet \ {s[i]} :
      /\ VerifyA5(s) => ~ VerifyA5([s EXCEPT ![i] = v])
      /\ VerifyIC(s) => ~ VerifyIC([s EXCEPT ![i] = v])
BY OneByteOfA5, OneByteOfIC

=============================================================================
