--------------------------- MODULE RecursionProofs ---------------------------
(***************************************************************************)
(* Induction and recursion over the natural numbers, in a first-order form *)
(* that needs no operator as a parameter: what is to be shown of n is that *)
(* n is in a set, and a recursive definition is a function that steps.     *)
(***************************************************************************)
EXTENDS Triage, SequencesExt, SequenceTheorems, WellFoundedInduction, TLAPS

(* Every set of natural numbers has a least one.                           *)
LEMMA LeastNumber ==
  ASSUME NEW T, T \subseteq Nat, T # {}
  PROVE  \E n \in T : \A m \in T : n <= m
<1> DEFINE R == {ss \in Nat \X Nat : ss[1] < ss[2]}
<1>1. IsWellFoundedOn(R, Nat)
  BY NatLessThanWellFounded DEF OpToRel
<1>2. \E n \in T : \A m \in T : ~ (<<m, n>> \in R)
  <2> HIDE DEF R
  <2> QED
    BY <1>1, WFMin
<1>3. PICK n \in T : \A m \in T : ~ (<<m, n>> \in R)
  BY <1>2
<1>4. ASSUME NEW m \in T PROVE n <= m
  <2>1. m \in Nat /\ n \in Nat /\ ~ (<<m, n>> \in R)
    BY <1>3
  <2>2. ~ (m < n)
    BY <2>1
  <2> QED
    BY <2>1, <2>2
<1> QED
  BY <1>4

LEMMA SetInduction ==
  ASSUME NEW S, 0 \in S, \A n \in Nat : n \in S => n + 1 \in S
  PROVE  \A n \in Nat : n \in S
<1> SUFFICES ASSUME Nat \ S # {} PROVE FALSE
  OBVIOUS
<1>1. PICK n \in Nat \ S : \A m \in Nat \ S : n <= m
  BY LeastNumber
<1>2. n - 1 \in Nat /\ n - 1 \in S
  BY <1>1
<1>3. n \in S
  BY <1>2
<1> QED
  BY <1>1, <1>3

(* f starts at a and takes these steps.                                    *)
Iterates(f, N, A, a, step) ==
    f \in [0..N -> A] /\ f[0] = a /\ \A n \in 1..N : f[n] = step[n][f[n - 1]]

LEMMA IterationExists ==
  ASSUME NEW A, NEW a \in A, NEW N \in Nat, NEW step \in [1..N -> [A -> A]]
  PROVE  \E f : Iterates(f, N, A, a, step)
<1> DEFINE S == {n \in Nat : n <= N => \E f : Iterates(f, n, A, a, step)}
<1>1. 0 \in S
  <2>1. Iterates([i \in 0..0 |-> a], 0, A, a, step)
    BY DEF Iterates
  <2> QED
    BY <2>1
<1>2. ASSUME NEW n \in Nat, n \in S PROVE n + 1 \in S
  <2> SUFFICES ASSUME n + 1 <= N PROVE \E f : Iterates(f, n + 1, A, a, step)
    OBVIOUS
  <2>1. PICK f : Iterates(f, n, A, a, step)
    BY <1>2
  <2> DEFINE g == [i \in 0..(n + 1) |-> IF i = n + 1 THEN step[n + 1][f[n]] ELSE f[i]]
  <2>2. f \in [0..n -> A] /\ f[0] = a /\ \A i \in 1..n : f[i] = step[i][f[i - 1]]
    BY <2>1 DEF Iterates
  <2>3. n + 1 \in 1..N /\ f[n] \in A
    BY <2>2
  <2>4. step[n + 1][f[n]] \in A
    BY <2>3
  <2>5. \A i \in 0..n : g[i] = f[i]
    OBVIOUS
  <2>6. g[n + 1] = step[n + 1][f[n]]
    OBVIOUS
  <2>7. g \in [0..(n + 1) -> A]
    BY <2>2, <2>4
  <2> HIDE DEF g
  <2>8. ASSUME NEW i \in 1..(n + 1) PROVE g[i] = step[i][g[i - 1]]
    <3>1. CASE i = n + 1
      BY <2>5, <2>6, <3>1
    <3>2. CASE i \in 1..n
      <4>1. i \in 0..n /\ i - 1 \in 0..n
        BY <3>2
      <4> QED
        BY <2>2, <2>5, <3>2, <4>1
    <3> QED
      BY <3>1, <3>2
  <2>9. g[0] = a
    BY <2>2, <2>5
  <2> QED
    BY <2>7, <2>8, <2>9 DEF Iterates
<1>3. N \in S
  <2> HIDE DEF S
  <2> QED
    BY <1>1, <1>2, SetInduction
<1> QED
  BY <1>3

(* Two iterations agree as far as their steps do.                          *)
LEMMA IterationsAgree ==
  ASSUME NEW A, NEW B, NEW a, NEW N, NEW M, NEW step, NEW jump, NEW f, NEW g,
         NEW K \in Nat, N \in Nat, M \in Nat, K <= N, K <= M,
         Iterates(f, N, A, a, step), Iterates(g, M, B, a, jump),
         \A n \in 1..K : step[n] = jump[n]
  PROVE  \A n \in 0..K : f[n] = g[n]
<1> DEFINE S == {n \in Nat : n <= K => f[n] = g[n]}
<1>1. 0 \in S
  BY DEF Iterates
<1>2. ASSUME NEW n \in Nat, n \in S PROVE n + 1 \in S
  <2> SUFFICES ASSUME n + 1 <= K PROVE f[n + 1] = g[n + 1]
    OBVIOUS
  <2>1. f[n] = g[n]
    BY <1>2
  <2>2. n + 1 \in 1..N /\ n + 1 \in 1..M /\ n + 1 \in 1..K /\ (n + 1) - 1 = n
    OBVIOUS
  <2>3. f[n + 1] = step[n + 1][f[n]] /\ g[n + 1] = jump[n + 1][g[n]]
    BY <2>2 DEF Iterates
  <2> QED
    BY <2>1, <2>2, <2>3
<1>3. \A n \in Nat : n \in S
  <2> HIDE DEF S
  <2> QED
    BY <1>1, <1>2, SetInduction
<1> QED
  BY <1>3

-----------------------------------------------------------------------------
(* Subsequences, of lists of every length.                                 *)

(* Looking at one element, as a function of what was taken before it.      *)
Look(S, x, takes) == [s \in Seq(S) |-> IF takes THEN Append(s, x) ELSE s]

LEMMA TakingIterates ==
  ASSUME NEW S, NEW s \in Seq(S), NEW I
  PROVE  Iterates(TakenUpTo(s, I), Len(s), Seq(S), <<>>,
                  [n \in 1..Len(s) |-> Look(S, s[n], n \in I)])
<1> DEFINE N == Len(s)
           step == [n \in 1..N |-> Look(S, s[n], n \in I)]
           Body(f) == [n \in 0..N |-> IF n = 0 THEN <<>>
                                      ELSE IF n \in I THEN Append(f[n - 1], s[n])
                                      ELSE f[n - 1]]
<1>1. N \in Nat /\ <<>> \in Seq(S)
  OBVIOUS
<1>2. step \in [1..N -> [Seq(S) -> Seq(S)]]
  <2>1. ASSUME NEW n \in 1..N, NEW t \in Seq(S)
        PROVE  (IF n \in I THEN Append(t, s[n]) ELSE t) \in Seq(S)
    OBVIOUS
  <2> QED
    BY <2>1 DEF Look
<1>3. PICK f : Iterates(f, N, Seq(S), <<>>, step)
  <2> HIDE DEF N, step
  <2> QED
    BY <1>1, <1>2, IterationExists
<1>4. ASSUME NEW g, Iterates(g, N, Seq(S), <<>>, step) PROVE g = Body(g)
  <2>1. g \in [0..N -> Seq(S)] /\ g[0] = <<>> /\ \A n \in 1..N : g[n] = step[n][g[n - 1]]
    BY <1>4 DEF Iterates
  <2>2. ASSUME NEW n \in 1..N PROVE g[n] = Body(g)[n]
    <3>1. n - 1 \in 0..N /\ n # 0 /\ n \in 0..N
      BY <1>1
    <3>2. step[n][g[n - 1]] = IF n \in I THEN Append(g[n - 1], s[n]) ELSE g[n - 1]
      BY <2>1, <3>1 DEF Look
    <3> QED
      BY <2>1, <3>1, <3>2
  <2>3. \A n \in 0..N : n = 0 \/ n \in 1..N
    BY <1>1
  <2>4. \A n \in 0..N : g[n] = Body(g)[n]
    BY <2>1, <2>2, <2>3
  <2> QED
    BY <2>1, <2>4
<1>5. ASSUME NEW g, g = Body(g) PROVE Iterates(g, N, Seq(S), <<>>, step)
  <2>1. g[0] = <<>> /\ DOMAIN g = 0..N
    BY <1>1, <1>5
  <2>2. ASSUME NEW n \in Nat, n + 1 \in 0..N, g[n] \in Seq(S)
        PROVE  g[n + 1] \in Seq(S) /\ g[n + 1] = step[n + 1][g[n]]
    <3>1. n + 1 \in 1..N /\ n + 1 # 0 /\ (n + 1) - 1 = n /\ s[n + 1] \in S
      BY <1>1, <2>2
    <3>2. g[n + 1] = IF n + 1 \in I THEN Append(g[n], s[n + 1]) ELSE g[n]
      BY <1>5, <2>2, <3>1
    <3>3. step[n + 1][g[n]] = IF n + 1 \in I THEN Append(g[n], s[n + 1]) ELSE g[n]
      BY <2>2, <3>1 DEF Look
    <3>4. Append(g[n], s[n + 1]) \in Seq(S)
      BY <2>2, <3>1
    <3> QED
      BY <2>2, <3>2, <3>3, <3>4
  <2> DEFINE T == {n \in Nat : n \in 0..N => g[n] \in Seq(S)}
  <2>3. \A n \in Nat : n \in T
    <3>1. 0 \in T
      BY <2>1
    <3>2. ASSUME NEW n \in Nat, n \in T PROVE n + 1 \in T
      <4>1. n + 1 \in 0..N => n \in 0..N
        BY <1>1
      <4>2. n + 1 \in 0..N => g[n + 1] \in Seq(S)
        BY <2>2, <3>2, <4>1
      <4> QED
        BY <4>2
    <3> HIDE DEF T
    <3> QED
      BY <3>1, <3>2, SetInduction
  <2>4. \A n \in 0..N : g[n] \in Seq(S)
    BY <1>1, <2>3
  <2>5. \A n \in 1..N : g[n] = step[n][g[n - 1]]
    <3> SUFFICES ASSUME NEW n \in 1..N PROVE g[n] = step[n][g[n - 1]]
      OBVIOUS
    <3>1. n - 1 \in Nat /\ (n - 1) + 1 = n /\ n \in 0..N /\ n - 1 \in 0..N
      BY <1>1
    <3> QED
      BY <2>2, <2>4, <3>1
  <2>6. g \in [0..N -> Seq(S)]
    BY <1>5, <2>4
  <2> HIDE DEF N, step
  <2> QED
    BY <2>1, <2>5, <2>6 DEF Iterates
<1>6. TakenUpTo(s, I) = Body(TakenUpTo(s, I))
  BY <1>3, <1>4 DEF TakenUpTo
<1> HIDE DEF Body
<1> QED
  BY <1>5, <1>6

LEMMA SubsequenceTyped ==
  ASSUME NEW S, NEW s \in Seq(S), NEW I
  PROVE  Subsequence(s, I) \in Seq(S)
BY TakingIterates DEF Subsequence, Iterates

LEMMA SubsequenceOfNothing ==
  ASSUME NEW I
  PROVE  Subsequence(<<>>, I) = <<>>
<1>1. <<>> \in Seq({}) /\ Len(<<>>) = 0
  OBVIOUS
<1>2. Iterates(TakenUpTo(<<>>, I), Len(<<>>), Seq({}), <<>>,
               [n \in 1..Len(<<>>) |-> Look({}, <<>>[n], n \in I)])
  <2> HIDE DEF Iterates
  <2> QED
    BY Zenon, <1>1, TakingIterates
<1>3. TakenUpTo(<<>>, I)[0] = <<>>
  BY Zenon, <1>2 DEF Iterates
<1> QED
  BY Zenon, <1>1, <1>3 DEF Subsequence

(* Only the positions of the list count.                                   *)
LEMMA SubsequenceSame ==
  ASSUME NEW S, NEW s \in Seq(S), NEW I, NEW J,
         \A n \in 1..Len(s) : n \in I <=> n \in J
  PROVE  Subsequence(s, I) = Subsequence(s, J)
<1> DEFINE N == Len(s)
           f == TakenUpTo(s, I)
           g == TakenUpTo(s, J)
           old == [n \in 1..N |-> Look(S, s[n], n \in I)]
           new == [n \in 1..N |-> Look(S, s[n], n \in J)]
<1>1. N \in Nat
  OBVIOUS
<1>2. Iterates(f, N, Seq(S), <<>>, old) /\ Iterates(g, N, Seq(S), <<>>, new)
  BY TakingIterates
<1>3. ASSUME NEW n \in 1..N PROVE old[n] = new[n]
  <2>1. n \in I <=> n \in J
    OBVIOUS
  <2> QED
    BY <2>1 DEF Look
<1> HIDE DEF f, g, old, new
<1>4. N <= N /\ \A n \in 1..N : old[n] = new[n]
  BY <1>1, <1>3
<1>5. \A n \in 0..N : f[n] = g[n]
  BY <1>1, <1>2, <1>4, IterationsAgree
<1>6. f[N] = g[N]
  BY <1>1, <1>5
<1> QED
  BY <1>6 DEF Subsequence, f, g, N

(* An element that is appended is looked at after all the others.          *)
LEMMA SubsequenceAppend ==
  ASSUME NEW S, NEW s \in Seq(S), NEW x \in S, NEW I
  PROVE  Subsequence(Append(s, x), I) =
             IF Len(s) + 1 \in I THEN Append(Subsequence(s, I), x) ELSE Subsequence(s, I)
<1> DEFINE N == Len(s)
           more == Append(s, x)
           f == TakenUpTo(s, I)
           g == TakenUpTo(more, I)
           old == [n \in 1..N |-> Look(S, s[n], n \in I)]
           new == [n \in 1..N + 1 |-> Look(S, more[n], n \in I)]
           last == Look(S, x, N + 1 \in I)
<1>1. /\ more \in Seq(S) /\ Len(more) = N + 1 /\ N \in Nat
      /\ more[N + 1] = x /\ \A n \in 1..N : more[n] = s[n]
  OBVIOUS
<1>2. Iterates(f, N, Seq(S), <<>>, old) /\ Iterates(g, N + 1, Seq(S), <<>>, new)
  <2>1. Iterates(g, Len(more), Seq(S), <<>>, [n \in 1..Len(more) |-> Look(S, more[n], n \in I)])
    BY <1>1, TakingIterates
  <2> QED
    BY <1>1, <2>1, TakingIterates
<1>3. \A n \in 1..N : old[n] = new[n]
  BY <1>1
<1>4. new[N + 1] = last
  BY <1>1
<1> HIDE DEF f, g, old, new, more, last
<1>5. f[N] = g[N]
  BY <1>1, <1>2, <1>3, IterationsAgree
<1>6. g[N + 1] = last[g[N]] /\ f[N] \in Seq(S)
  BY <1>1, <1>2, <1>4 DEF Iterates
<1>7. g[N + 1] = IF N + 1 \in I THEN Append(f[N], x) ELSE f[N]
  BY <1>5, <1>6 DEF last, Look
<1> QED
  BY <1>1, <1>7 DEF Subsequence, f, g, more

(* The same when the positions are those of a test on the list itself.     *)
LEMMA SubsequenceOneMore ==
  ASSUME NEW S, NEW s \in Seq(S), NEW x \in S, NEW I, NEW J,
         \A n \in 1..Len(s) : n \in I <=> n \in J
  PROVE  Subsequence(Append(s, x), J) =
             IF Len(s) + 1 \in J THEN Append(Subsequence(s, I), x) ELSE Subsequence(s, I)
<1>1. Subsequence(s, I) = Subsequence(s, J)
  BY SubsequenceSame
<1>2. Subsequence(Append(s, x), J) =
          IF Len(s) + 1 \in J THEN Append(Subsequence(s, J), x) ELSE Subsequence(s, J)
  BY SubsequenceAppend
<1> QED
  BY <1>1, <1>2

(* To prove something of all lists, it is enough to prove it of the empty  *)
(* list and of a list with an element more: P holds the lists it holds of. *)
LEMMA ListInduction ==
  ASSUME NEW S, NEW P, <<>> \in P,
         \A s \in Seq(S), x \in S : s \in P => Append(s, x) \in P
  PROVE  \A s \in Seq(S) : s \in P
<1> DEFINE Q == {n \in Nat : \A s \in Seq(S) : Len(s) = n => s \in P}
<1>1. 0 \in Q
  OBVIOUS
<1>2. ASSUME NEW n \in Nat, n \in Q PROVE n + 1 \in Q
  <2> SUFFICES ASSUME NEW s \in Seq(S), Len(s) = n + 1 PROVE s \in P
    OBVIOUS
  <2> DEFINE front == SubSeq(s, 1, n)
  <2>1. front \in Seq(S) /\ Len(front) = n /\ s[n + 1] \in S
    OBVIOUS
  <2>2. s = Append(front, s[n + 1])
    OBVIOUS
  <2>3. front \in P
    BY <1>2, <2>1
  <2> HIDE DEF front
  <2> QED
    BY <2>1, <2>2, <2>3
<1>3. \A n \in Nat : n \in Q
  <2> HIDE DEF Q
  <2> QED
    BY <1>1, <1>2, SetInduction
<1> SUFFICES ASSUME NEW s \in Seq(S) PROVE s \in P
  OBVIOUS
<1>4. Len(s) \in Nat /\ Len(s) \in Q
  BY <1>3
<1> QED
  BY <1>4

LEMMA SubsequenceAll ==
  ASSUME NEW S, NEW s \in Seq(S), NEW I, 1..Len(s) \subseteq I
  PROVE  Subsequence(s, I) = s
<1> DEFINE P == {t \in Seq(S) : Subsequence(t, Nat) = t}
<1>1. <<>> \in P
  BY SubsequenceOfNothing
<1>2. ASSUME NEW t \in Seq(S), NEW x \in S, t \in P PROVE Append(t, x) \in P
  <2>1. Len(t) + 1 \in Nat /\ Append(t, x) \in Seq(S)
    OBVIOUS
  <2> QED
    BY <1>2, <2>1, SubsequenceAppend
<1>3. s \in P
  <2> HIDE DEF P
  <2> QED
    BY <1>1, <1>2, ListInduction
<1>4. \A n \in 1..Len(s) : n \in I <=> n \in Nat
  OBVIOUS
<1>5. Subsequence(s, I) = Subsequence(s, Nat)
  BY <1>4, SubsequenceSame
<1> QED
  BY <1>3, <1>5

LEMMA SubsequenceNone ==
  ASSUME NEW S, NEW s \in Seq(S), NEW I, 1..Len(s) \cap I = {}
  PROVE  Subsequence(s, I) = <<>>
<1> DEFINE P == {t \in Seq(S) : Subsequence(t, {}) = <<>>}
<1>1. <<>> \in P
  BY SubsequenceOfNothing
<1>2. ASSUME NEW t \in Seq(S), NEW x \in S, t \in P PROVE Append(t, x) \in P
  <2>1. Append(t, x) \in Seq(S)
    OBVIOUS
  <2> QED
    BY <1>2, <2>1, SubsequenceAppend
<1>3. s \in P
  <2> HIDE DEF P
  <2> QED
    BY <1>1, <1>2, ListInduction
<1>4. \A n \in 1..Len(s) : n \in I <=> n \in {}
  OBVIOUS
<1>5. Subsequence(s, I) = Subsequence(s, {})
  BY <1>4, SubsequenceSame
<1> QED
  BY <1>3, <1>5

-----------------------------------------------------------------------------
(* What extract_frames returns.                                            *)

LEMMA ExtractTyped ==
  ASSUME NEW S, NEW lines \in Seq(S), NEW id
  PROVE  ExtractFrames(lines, id) \in Seq(S)
BY SubsequenceTyped DEF ExtractFrames

LEMMA ExtractNothing ==
  ASSUME NEW id
  PROVE  ExtractFrames(<<>>, id) = <<>>
BY SubsequenceOfNothing DEF ExtractFrames

(* A line written to the log is found by its tag, after all the others.    *)
LEMMA ExtractAppend ==
  ASSUME NEW S, NEW lines \in Seq(S), NEW line \in S, NEW id
  PROVE  ExtractFrames(Append(lines, line), id) =
             IF line.cap = id THEN Append(ExtractFrames(lines, id), line)
                              ELSE ExtractFrames(lines, id)
<1> DEFINE more == Append(lines, line)
           I == {n \in 1..Len(lines) : lines[n].cap = id}
           J == {n \in 1..Len(more) : more[n].cap = id}
<1>1. /\ Len(more) = Len(lines) + 1 /\ Len(lines) \in Nat
      /\ more[Len(lines) + 1] = line /\ \A n \in 1..Len(lines) : more[n] = lines[n]
  OBVIOUS
<1>2. Len(lines) + 1 \in J <=> line.cap = id
  BY <1>1
<1>3. \A n \in 1..Len(lines) : n \in I <=> n \in J
  BY <1>1
<1> HIDE DEF I, J
<1>4. Subsequence(more, J) = IF line.cap = id THEN Append(Subsequence(lines, I), line)
                                              ELSE Subsequence(lines, I)
  BY <1>2, <1>3, SubsequenceOneMore
<1> QED
  BY <1>4 DEF ExtractFrames, I, J

-----------------------------------------------------------------------------
(* Sums.                                                                   *)

(* The sums of the first n elements, for every n.                          *)
SumUpTo(s) ==
    LET sum[n \in 0..Len(s)] == IF n = 0 THEN 0 ELSE sum[n - 1] + s[n]
    IN  sum

Plus(k) == [m \in Nat |-> m + k]

LEMMA SumIterates ==
  ASSUME NEW s \in Seq(Nat)
  PROVE  Iterates(SumUpTo(s), Len(s), Nat, 0,
                  [n \in 1..Len(s) |-> Plus(s[n])])
<1> DEFINE N == Len(s)
           step == [n \in 1..N |-> Plus(s[n])]
           Body(f) == [n \in 0..N |-> IF n = 0 THEN 0 ELSE f[n - 1] + s[n]]
<1>1. N \in Nat /\ \A n \in 1..N : s[n] \in Nat
  OBVIOUS
<1>2. step \in [1..N -> [Nat -> Nat]]
  BY <1>1 DEF Plus
<1>3. PICK f : Iterates(f, N, Nat, 0, step)
  <2> HIDE DEF N, step
  <2> QED
    BY <1>1, <1>2, IterationExists
<1>4. ASSUME NEW g, Iterates(g, N, Nat, 0, step) PROVE g = Body(g)
  <2>1. g \in [0..N -> Nat] /\ g[0] = 0 /\ \A n \in 1..N : g[n] = step[n][g[n - 1]]
    BY <1>4 DEF Iterates
  <2>2. ASSUME NEW n \in 1..N PROVE g[n] = Body(g)[n]
    <3>1. n - 1 \in 0..N /\ n # 0 /\ n \in 0..N
      BY <1>1
    <3>2. step[n][g[n - 1]] = g[n - 1] + s[n]
      BY <2>1, <3>1 DEF Plus
    <3> QED
      BY <2>1, <3>1, <3>2
  <2>3. \A n \in 0..N : n = 0 \/ n \in 1..N
    BY <1>1
  <2>4. \A n \in 0..N : g[n] = Body(g)[n]
    BY <2>1, <2>2, <2>3
  <2> QED
    BY <2>1, <2>4
<1>5. ASSUME NEW g, g = Body(g) PROVE Iterates(g, N, Nat, 0, step)
  <2>1. g[0] = 0 /\ DOMAIN g = 0..N
    BY <1>1, <1>5
  <2>2. ASSUME NEW n \in Nat, n + 1 \in 0..N, g[n] \in Nat
        PROVE  g[n + 1] \in Nat /\ g[n + 1] = step[n + 1][g[n]]
    <3>1. n + 1 \in 1..N /\ n + 1 # 0 /\ (n + 1) - 1 = n
      BY <1>1, <2>2
    <3>2. g[n + 1] = g[n] + s[n + 1]
      BY <1>5, <2>2, <3>1
    <3>3. step[n + 1][g[n]] = g[n] + s[n + 1]
      BY <2>2, <3>1 DEF Plus
    <3> QED
      BY <1>1, <2>2, <3>1, <3>2, <3>3
  <2> DEFINE T == {n \in Nat : n \in 0..N => g[n] \in Nat}
  <2>3. \A n \in Nat : n \in T
    <3>1. 0 \in T
      BY <2>1
    <3>2. ASSUME NEW n \in Nat, n \in T PROVE n + 1 \in T
      <4>1. n + 1 \in 0..N => n \in 0..N
        BY <1>1
      <4>2. n + 1 \in 0..N => g[n + 1] \in Nat
        BY <2>2, <3>2, <4>1
      <4> QED
        BY <4>2
    <3> HIDE DEF T
    <3> QED
      BY <3>1, <3>2, SetInduction
  <2>4. \A n \in 0..N : g[n] \in Nat
    BY <1>1, <2>3
  <2>5. \A n \in 1..N : g[n] = step[n][g[n - 1]]
    <3> SUFFICES ASSUME NEW n \in 1..N PROVE g[n] = step[n][g[n - 1]]
      OBVIOUS
    <3>1. n - 1 \in Nat /\ (n - 1) + 1 = n /\ n \in 0..N /\ n - 1 \in 0..N
      BY <1>1
    <3> QED
      BY <2>2, <2>4, <3>1
  <2>6. g \in [0..N -> Nat]
    BY <1>5, <2>4
  <2> HIDE DEF N, step
  <2> QED
    BY <2>1, <2>5, <2>6 DEF Iterates
<1>6. SumUpTo(s) = Body(SumUpTo(s))
  BY <1>3, <1>4 DEF SumUpTo
<1> HIDE DEF Body
<1> QED
  BY <1>5, <1>6

(* The sum of a range is that of its halves.                               *)
Halved(s, f) ==
    [r \in (0..Len(s)) \X (0..Len(s)) |->
            IF r[2] = r[1] THEN 0
            ELSE IF r[2] = r[1] + 1 THEN s[r[2]]
            ELSE f[<<r[1], (r[1] + r[2]) \div 2>>] + f[<<(r[1] + r[2]) \div 2, r[2]>>]]

LEMMA TotalIsLast ==
  ASSUME NEW s \in Seq(Nat)
  PROVE  Total(s) = SumUpTo(s)[Len(s)]
<1> DEFINE N == Len(s)
           p == SumUpTo(s)
           D == (0..N) \X (0..N)
           diff == [r \in D |-> p[r[2]] - p[r[1]]]
<1>1. N \in Nat /\ \A n \in 1..N : s[n] \in Nat
  OBVIOUS
<1>2. p[0] = 0 /\ p \in [0..N -> Nat] /\ \A n \in 0..N : n + 1 \in 0..N => p[n + 1] = p[n] + s[n + 1]
  <2> DEFINE step == [n \in 1..N |-> Plus(s[n])]
  <2>1. Iterates(p, N, Nat, 0, step)
    BY SumIterates
  <2>2. p[0] = 0 /\ p \in [0..N -> Nat] /\ \A n \in 1..N : p[n] = step[n][p[n - 1]]
    <3> HIDE DEF step, p
    <3> QED
      BY <2>1 DEF Iterates
  <2>3. ASSUME NEW n \in 0..N, n + 1 \in 0..N PROVE p[n + 1] = p[n] + s[n + 1]
    <3>1. n + 1 \in 1..N /\ (n + 1) - 1 = n
      BY <1>1, <2>3
    <3>2. step[n + 1] = Plus(s[n + 1]) /\ p[n] \in Nat
      BY <2>2, <3>1
    <3> HIDE DEF step, p
    <3>3. p[n + 1] = step[n + 1][p[n]]
      BY <2>2, <3>1
    <3> QED
      BY <1>1, <3>1, <3>2, <3>3 DEF Plus
  <2> QED
    BY <2>2, <2>3
<1> HIDE DEF p
<1>3. \A i, j \in 0..N : <<i, j>> \in D /\ diff[<<i, j>>] = p[j] - p[i]
  OBVIOUS
<1>4. diff = Halved(s, diff)
  <2>1. ASSUME NEW r \in D PROVE diff[r] = Halved(s, diff)[r]
    <3>1. PICK i \in 0..N, j \in 0..N : r = <<i, j>>
      BY <2>1
    <3> DEFINE m == (i + j) \div 2
    <3>2. m \in 0..N
      BY <1>1
    <3>3. r[1] = i /\ r[2] = j
      BY <3>1
    <3>4. Halved(s, diff)[r] = IF j = i THEN 0 ELSE IF j = i + 1 THEN s[j]
                               ELSE diff[<<i, m>>] + diff[<<m, j>>]
      <4> HIDE DEF diff
      <4> QED
        BY <2>1, <3>3 DEF Halved
    <3> HIDE DEF m, diff, D
    <3>5. diff[<<i, m>>] = p[m] - p[i] /\ diff[<<m, j>>] = p[j] - p[m] /\ diff[r] = p[j] - p[i]
      BY <1>3, <3>1, <3>2
    <3>6. p[i] \in Nat /\ p[j] \in Nat /\ p[m] \in Nat
      BY <1>2, <3>2
    <3>7. j = i + 1 => p[j] - p[i] = s[j]
      <4>1. ASSUME j = i + 1 PROVE p[j] = p[i] + s[j] /\ j \in 1..N
        BY <1>1, <1>2, <4>1
      <4> QED
        BY <1>1, <3>6, <4>1
    <3> QED
      BY <3>4, <3>5, <3>6, <3>7
  <2>2. diff = [r \in D |-> diff[r]]
    OBVIOUS
  <2>3. Halved(s, diff) = [r \in D |-> Halved(s, diff)[r]]
    BY DEF Halved
  <2> HIDE DEF diff, D
  <2> QED
    BY <2>1, <2>2, <2>3
<1> DEFINE f == SumOfRanges(s)
<1>5. f = Halved(s, f)
  <2>1. f = CHOOSE g : g = Halved(s, g)
    BY DEF SumOfRanges, Halved
  <2> HIDE DEF f, diff
  <2> QED
    BY <1>4, <2>1
<1> HIDE DEF f, diff
<1> DEFINE T == {n \in Nat : \A i, j \in 0..N : j - i = n => f[<<i, j>>] = p[j] - p[i]}
<1>6. ASSUME NEW n \in Nat, \A m \in 0..(n - 1) : m \in T PROVE n \in T
  <2> SUFFICES ASSUME NEW i \in 0..N, NEW j \in 0..N, j - i = n
               PROVE  f[<<i, j>>] = p[j] - p[i]
    OBVIOUS
  <2> DEFINE m == (i + j) \div 2
  <2>1. <<i, j>> \in D /\ <<i, j>>[1] = i /\ <<i, j>>[2] = j
    OBVIOUS
  <2>2. Halved(s, f)[<<i, j>>] = IF j = i THEN 0 ELSE IF j = i + 1 THEN s[j]
                             ELSE f[<<i, m>>] + f[<<m, j>>]
    BY <2>1 DEF Halved
  <2>3. p[i] \in Nat /\ p[j] \in Nat
    BY <1>2
  <2>4. CASE j = i
    BY <1>5, <2>2, <2>3, <2>4
  <2>5. CASE j = i + 1
    BY <1>1, <1>2, <1>5, <2>2, <2>3, <2>5
  <2>6. CASE j # i /\ j # i + 1
    <3>1. m \in 0..N /\ m - i \in 0..(n - 1) /\ j - m \in 0..(n - 1)
      BY <1>1, <2>6
    <3> HIDE DEF m
    <3>2. f[<<i, m>>] = p[m] - p[i] /\ f[<<m, j>>] = p[j] - p[m] /\ p[m] \in Nat
      BY <1>2, <1>6, <3>1
    <3>3. f[<<i, j>>] = f[<<i, m>>] + f[<<m, j>>]
      BY <1>5, <2>2, <2>6 DEF m
    <3> QED
      BY <2>3, <3>2, <3>3
  <2> QED
    BY <2>4, <2>5, <2>6
<1>7. \A n \in Nat : n \in T
  <2> HIDE DEF T
  <2> SUFFICES ASSUME Nat \ T # {} PROVE FALSE
    OBVIOUS
  <2>1. PICK n \in Nat \ T : \A k \in Nat \ T : n <= k
    BY LeastNumber
  <2>2. \A m \in 0..(n - 1) : m \in T
    BY <2>1
  <2> QED
    BY <1>6, <2>1, <2>2
<1>8. N \in T /\ 0 \in 0..N /\ N \in 0..N /\ N - 0 = N
  BY <1>1, <1>7
<1>9. f[<<0, N>>] = p[N] - p[0] /\ p[N] \in Nat
  BY <1>2, <1>8
<1> QED
  BY <1>2, <1>9 DEF Total, f, p

LEMMA SumTyped ==
  ASSUME NEW s \in Seq(Nat)
  PROVE  Total(s) \in Nat
<1>1. Len(s) \in 0..Len(s)
  OBVIOUS
<1> QED
  BY <1>1, SumIterates, TotalIsLast DEF Iterates

LEMMA SumOfNothing ==
  ASSUME NEW s \in Seq(Nat), Len(s) = 0
  PROVE  Total(s) = 0
BY SumIterates, TotalIsLast DEF Iterates

LEMMA SumAppend ==
  ASSUME NEW s \in Seq(Nat), NEW x \in Nat
  PROVE  Total(Append(s, x)) = Total(s) + x
<1> DEFINE N == Len(s)
           more == Append(s, x)
           f == SumUpTo(s)
           g == SumUpTo(more)
           old == [n \in 1..N |-> Plus(s[n])]
           new == [n \in 1..N + 1 |-> Plus(more[n])]
<1>1. /\ more \in Seq(Nat) /\ Len(more) = N + 1 /\ N \in Nat
      /\ more[N + 1] = x /\ \A n \in 1..N : more[n] = s[n]
  OBVIOUS
<1>2. Iterates(f, N, Nat, 0, old) /\ Iterates(g, N + 1, Nat, 0, new)
  <2>1. Iterates(g, Len(more), Nat, 0, [n \in 1..Len(more) |-> Plus(more[n])])
    BY <1>1, SumIterates
  <2> QED
    BY <1>1, <2>1, SumIterates
<1>3. \A n \in 1..N : old[n] = new[n]
  BY <1>1
<1>4. new[N + 1] = Plus(x)
  BY <1>1
<1> HIDE DEF f, g, old, new, more
<1>5. f[N] = g[N]
  BY <1>1, <1>2, <1>3, IterationsAgree
<1>6. g[N + 1] = Plus(x)[g[N]] /\ f[N] \in Nat
  <2>1. N + 1 \in 1..N + 1 /\ (N + 1) - 1 = N /\ N \in 0..N
    BY <1>1
  <2> HIDE DEF N
  <2>2. g[N + 1] = new[N + 1][g[N]]
    BY <1>2, <2>1 DEF Iterates
  <2> QED
    BY <1>2, <1>4, <2>1, <2>2 DEF Iterates
<1> QED
  <2>1. Total(more) = g[N + 1] /\ Total(s) = f[N]
    BY <1>1, TotalIsLast DEF f, g, more
  <2> QED
    BY <1>1, <1>5, <1>6, <2>1 DEF Plus, more

(* The frames of all rows.                                                 *)
Counts(list) == [n \in 1..Len(list) |-> list[n].frames]

LEMMA CountsTyped ==
  ASSUME NEW S, NEW list \in Seq(S), \A r \in S : r.frames \in Nat
  PROVE  /\ Counts(list) \in Seq(Nat) /\ Len(Counts(list)) = Len(list)
         /\ TotalFrames(list) = Total(Counts(list))
<1>1. Len(list) \in Nat /\ \A n \in 1..Len(list) : list[n].frames \in Nat
  OBVIOUS
<1> QED
  BY <1>1 DEF Counts, TotalFrames

LEMMA TotalTyped ==
  ASSUME NEW S, NEW list \in Seq(S), \A r \in S : r.frames \in Nat
  PROVE  TotalFrames(list) \in Nat
BY CountsTyped, SumTyped

LEMMA TotalOfNothing == TotalFrames(<<>>) = 0
<1> DEFINE R == [frames : Nat]
<1>1. \A r \in R : r.frames \in Nat
  OBVIOUS
<1>2. <<>> \in Seq(R) /\ Len(<<>>) = 0
  OBVIOUS
<1> HIDE DEF R
<1>3. Counts(<<>>) \in Seq(Nat) /\ Len(Counts(<<>>)) = 0
      /\ TotalFrames(<<>>) = Total(Counts(<<>>))
  BY <1>1, <1>2, CountsTyped
<1> QED
  BY <1>3, SumOfNothing

LEMMA TotalAppend ==
  ASSUME NEW S, NEW list \in Seq(S), NEW row \in S, \A r \in S : r.frames \in Nat
  PROVE  TotalFrames(Append(list, row)) = TotalFrames(list) + row.frames
<1>1. Append(list, row) \in Seq(S) /\ row.frames \in Nat
  OBVIOUS
<1>2. /\ Counts(list) \in Seq(Nat) /\ Len(Counts(list)) = Len(list)
      /\ Counts(Append(list, row)) \in Seq(Nat)
      /\ Len(Counts(Append(list, row))) = Len(Append(list, row))
      /\ TotalFrames(list) = Total(Counts(list))
      /\ TotalFrames(Append(list, row)) = Total(Counts(Append(list, row)))
  BY <1>1, CountsTyped
<1>3. Counts(Append(list, row)) = Append(Counts(list), row.frames)
  BY <1>1 DEF Counts
<1> QED
  BY <1>1, <1>2, <1>3, SumAppend

-----------------------------------------------------------------------------
(* Pieces laid end to end, however many there are.                         *)

LEMMA NothingJoined ==
  ASSUME NEW S, NEW t \in Seq(S)
  PROVE  <<>> \o t = t /\ t \o <<>> = t
BY ConcatEmptySeq

LEMMA AppendJoined ==
  ASSUME NEW S, NEW s \in Seq(S), NEW t \in Seq(S), NEW x \in S
  PROVE  s \o Append(t, x) = Append(s \o t, x)
<1>1. <<x>> \in Seq(S) /\ s \o t \in Seq(S)
  OBVIOUS
<1>2. Append(t, x) = t \o <<x>> /\ Append(s \o t, x) = (s \o t) \o <<x>>
  BY <1>1, AppendIsConcat
<1>3. (s \o t) \o <<x>> = s \o (t \o <<x>>)
  BY <1>1, ConcatAssociative
<1> QED
  BY <1>2, <1>3

Behind(S, piece) == [t \in Seq(S) |-> t \o piece]

Joins(f, pieces, S) ==
    Iterates(f, Len(pieces), Seq(S), <<>>, [n \in 1..Len(pieces) |-> Behind(S, pieces[n])])

LEMMA FlattenJoins ==
  ASSUME NEW S, NEW pieces \in Seq(Seq(S))
  PROVE  \E f : Joins(f, pieces, S) /\ FlattenSeq(pieces) = f[Len(pieces)]
<1> DEFINE N == Len(pieces)
           step == [n \in 1..N |-> Behind(S, pieces[n])]
           Body(h) == [i \in 1..N |-> IF i = 1 THEN pieces[i] ELSE h[i - 1] \o pieces[i]]
           flat == CHOOSE h : h = Body(h)
<1>1. N \in Nat /\ <<>> \in Seq(S) /\ \A n \in 1..N : pieces[n] \in Seq(S)
  OBVIOUS
<1>2. step \in [1..N -> [Seq(S) -> Seq(S)]]
  BY <1>1 DEF Behind
<1>3. PICK f : Iterates(f, N, Seq(S), <<>>, step)
  <2> HIDE DEF N, step
  <2> QED
    BY <1>1, <1>2, IterationExists
<1>4. f \in [0..N -> Seq(S)] /\ f[0] = <<>> /\ \A n \in 1..N : f[n] = step[n][f[n - 1]]
  BY <1>3 DEF Iterates
<1>5. ASSUME NEW n \in Nat, n + 1 \in 1..N
      PROVE  f[n] \in Seq(S) /\ pieces[n + 1] \in Seq(S) /\ f[n + 1] = f[n] \o pieces[n + 1]
  <2>1. n \in 0..N /\ (n + 1) - 1 = n
    BY <1>1, <1>5
  <2>2. f[n] \in Seq(S) /\ pieces[n + 1] \in Seq(S)
    BY <1>1, <1>4, <1>5, <2>1
  <2>3. f[n + 1] = step[n + 1][f[n]]
    <3> HIDE DEF step, N
    <3> QED
      BY <1>4, <1>5, <2>1
  <2>4. step[n + 1] = Behind(S, pieces[n + 1])
    BY <1>5
  <2> QED
    BY <2>2, <2>3, <2>4 DEF Behind
<1>6. 1 \in 1..N => f[1] = pieces[1]
  <2> SUFFICES ASSUME 1 \in 1..N PROVE f[1] = pieces[1]
    OBVIOUS
  <2>1. 0 \in Nat /\ 0 + 1 = 1
    OBVIOUS
  <2>2. pieces[1] \in Seq(S) /\ f[1] = f[0] \o pieces[1]
    BY <1>5, <2>1
  <2>3. <<>> \o pieces[1] = pieces[1]
    BY <2>2, NothingJoined
  <2> QED
    BY <1>4, <2>2, <2>3
<1>7. flat = Body(flat)
  <2> DEFINE g == [n \in 1..N |-> f[n]]
  <2>1. ASSUME NEW n \in 1..N PROVE g[n] = Body(g)[n]
    <3>1. CASE n = 1
      BY <1>6, <3>1
    <3>2. CASE n # 1
      <4>1. n - 1 \in 1..N /\ n - 1 \in Nat /\ (n - 1) + 1 = n
        BY <1>1, <3>2
      <4>2. f[n] = f[n - 1] \o pieces[n]
        BY <1>5, <4>1
      <4>3. g[n] = f[n] /\ g[n - 1] = f[n - 1]
        BY <4>1
      <4>4. Body(g)[n] = g[n - 1] \o pieces[n]
        BY <3>2
      <4> QED
        BY <4>2, <4>3, <4>4
    <3> QED
      BY <3>1, <3>2
  <2>2. g = Body(g)
    <3> HIDE DEF g
    <3>1. DOMAIN g = 1..N
      BY DEF g
    <3>2. g = [n \in 1..N |-> g[n]]
      BY DEF g
    <3> QED
      BY <2>1, <3>2
  <2> HIDE DEF Body, g
  <2> QED
    BY <2>2
<1>8. \A n \in Nat : n \in 1..N => flat[n] = f[n]
  <2> HIDE DEF flat
  <2> DEFINE T == {n \in Nat : n \in 1..N => flat[n] = f[n]}
  <2>1. 0 \in T
    OBVIOUS
  <2>2. ASSUME NEW n \in Nat, n \in T PROVE n + 1 \in T
    <3> SUFFICES ASSUME n + 1 \in 1..N PROVE flat[n + 1] = f[n + 1]
      OBVIOUS
    <3>1. flat[n + 1] = Body(flat)[n + 1]
      BY <1>7
    <3>2. CASE n = 0
      <4>1. flat[1] = pieces[1]
        BY <3>1, <3>2
      <4> QED
        BY <1>6, <3>2, <4>1
    <3>3. CASE n # 0
      <4>1. n \in 1..N /\ (n + 1) - 1 = n /\ n + 1 # 1
        BY <1>1, <3>3
      <4>2. flat[n] = f[n]
        BY <2>2, <4>1
      <4>3. flat[n + 1] = flat[n] \o pieces[n + 1]
        BY <3>1, <4>1
      <4> QED
        BY <1>5, <4>2, <4>3
    <3> QED
      BY <3>2, <3>3
  <2> HIDE DEF T
  <2>3. \A n \in Nat : n \in T
    BY <2>1, <2>2, SetInduction
  <2> QED
    BY <2>3 DEF T
<1>9. FlattenSeq(pieces) = f[N]
  <2>1. CASE N = 0
    BY <1>4, <2>1 DEF FlattenSeq
  <2>2. CASE N # 0
    <3>1. FlattenSeq(pieces) = flat[N]
      BY <2>2 DEF FlattenSeq
    <3>2. N \in 1..N
      BY <1>1, <2>2
    <3> HIDE DEF flat
    <3> QED
      BY <1>1, <1>8, <3>1, <3>2
  <2> QED
    BY <2>1, <2>2
<1> QED
  BY <1>3, <1>9 DEF Joins

LEMMA FlattenTyped ==
  ASSUME NEW S, NEW pieces \in Seq(Seq(S))
  PROVE  FlattenSeq(pieces) \in Seq(S)
<1>1. Len(pieces) \in 0..Len(pieces)
  OBVIOUS
<1> QED
  BY <1>1, FlattenJoins DEF Joins, Iterates

(* One step of the joining.                                                *)
LEMMA JoinStep ==
  ASSUME NEW S, NEW pieces \in Seq(Seq(S)), NEW f, Joins(f, pieces, S),
         NEW n \in Nat, n + 1 <= Len(pieces)
  PROVE  f[n] \in Seq(S) /\ f[n + 1] = f[n] \o pieces[n + 1]
<1>1. n + 1 \in 1..Len(pieces) /\ n \in 0..Len(pieces) /\ (n + 1) - 1 = n
  OBVIOUS
<1>2. f[n] \in Seq(S)
  BY <1>1 DEF Joins, Iterates
<1>3. f[n + 1] = [m \in 1..Len(pieces) |-> Behind(S, pieces[m])][n + 1][f[n]]
  BY <1>1 DEF Joins, Iterates
<1> QED
  BY <1>1, <1>2, <1>3 DEF Behind

LEMMA FlattenNothing ==
  ASSUME NEW S, NEW pieces \in Seq(Seq(S)), \A n \in 1..Len(pieces) : pieces[n] = <<>>
  PROVE  FlattenSeq(pieces) = <<>>
<1>1. PICK f : Joins(f, pieces, S) /\ FlattenSeq(pieces) = f[Len(pieces)]
  BY FlattenJoins
<1> DEFINE T == {n \in Nat : n <= Len(pieces) => f[n] = <<>>}
<1>2. 0 \in T
  BY <1>1 DEF Joins, Iterates
<1>3. ASSUME NEW n \in Nat, n \in T PROVE n + 1 \in T
  <2> SUFFICES ASSUME n + 1 <= Len(pieces) PROVE f[n + 1] = <<>>
    OBVIOUS
  <2>1. f[n + 1] = f[n] \o pieces[n + 1]
    BY <1>1, JoinStep
  <2>2. f[n] = <<>> /\ pieces[n + 1] = <<>>
    BY <1>3
  <2> QED
    BY <2>1, <2>2
<1> HIDE DEF T
<1>4. \A n \in Nat : n \in T
  BY <1>2, <1>3, SetInduction
<1>5. Len(pieces) \in Nat
  OBVIOUS
<1> QED
  BY <1>1, <1>4, <1>5 DEF T

(* An element put at the end of the last piece that has any is the last.   *)
Longer(more, pieces, k, x) ==
    /\ k \in 1..Len(pieces) /\ Len(more) = Len(pieces)
    /\ \A n \in 1..Len(pieces) : n # k => more[n] = pieces[n]
    /\ more[k] = Append(pieces[k], x)
    /\ \A n \in 1..Len(pieces) : n > k => pieces[n] = <<>>

LEMMA FlattenAppend ==
  ASSUME NEW S, NEW pieces \in Seq(Seq(S)), NEW more \in Seq(Seq(S)), NEW x \in S,
         NEW k, Longer(more, pieces, k, x)
  PROVE  FlattenSeq(more) = Append(FlattenSeq(pieces), x)
<1> DEFINE N == Len(pieces)
<1>1. PICK f : Joins(f, pieces, S) /\ FlattenSeq(pieces) = f[N]
  BY FlattenJoins
<1>2. PICK g : Joins(g, more, S) /\ FlattenSeq(more) = g[N]
  BY FlattenJoins DEF Longer
<1>3. ASSUME NEW n \in Nat, n + 1 <= N
      PROVE  /\ f[n] \in Seq(S) /\ f[n + 1] = f[n] \o pieces[n + 1] /\ pieces[n + 1] \in Seq(S)
             /\ g[n + 1] = g[n] \o more[n + 1]
  <2>1. n + 1 \in 1..N
    BY <1>3
  <2>2. f[n] \in Seq(S) /\ f[n + 1] = f[n] \o pieces[n + 1]
    BY <1>1, <1>3, JoinStep
  <2>3. n + 1 <= Len(more)
    BY <1>3 DEF Longer
  <2>4. g[n + 1] = g[n] \o more[n + 1]
    BY <1>2, <2>3, JoinStep
  <2> QED
    BY <2>1, <2>2, <2>4
<1>4. f[0] = <<>> /\ g[0] = <<>>
  BY <1>1, <1>2 DEF Joins, Iterates
<1> DEFINE T == {n \in Nat : n <= N => g[n] = IF n < k THEN f[n] ELSE Append(f[n], x)}
<1>5. 0 \in T
  BY <1>4 DEF Longer
<1>6. ASSUME NEW n \in Nat, n \in T PROVE n + 1 \in T
  <2> SUFFICES ASSUME n + 1 <= N
               PROVE  g[n + 1] = IF n + 1 < k THEN f[n + 1] ELSE Append(f[n + 1], x)
    OBVIOUS
  <2>1. n + 1 \in 1..N /\ N \in Nat /\ k \in 1..N
    BY DEF Longer
  <2>2. CASE n + 1 < k
    <3>1. g[n] = f[n] /\ more[n + 1] = pieces[n + 1]
      BY <1>6, <2>1, <2>2 DEF Longer
    <3> QED
      BY <1>3, <2>2, <3>1
  <2>3. CASE n + 1 = k
    <3>1. n < k /\ n <= N /\ more[n + 1] = Append(pieces[n + 1], x)
      BY <2>1, <2>3 DEF Longer
    <3>2. g[n] = f[n] /\ more[n + 1] = Append(pieces[n + 1], x)
      BY <1>6, <3>1
    <3>3. f[n] \in Seq(S) /\ pieces[n + 1] \in Seq(S) /\ x \in S
      BY <1>3
    <3>4. f[n] \o Append(pieces[n + 1], x) = Append(f[n] \o pieces[n + 1], x)
      <4> DEFINE a == f[n]
                 b == pieces[n + 1]
      <4>1. a \in Seq(S) /\ b \in Seq(S)
        BY <3>3
      <4> HIDE DEF a, b
      <4>2. a \o Append(b, x) = Append(a \o b, x)
        BY <4>1, AppendJoined
      <4> QED
        BY <4>2 DEF a, b
    <3>5. g[n + 1] = g[n] \o more[n + 1] /\ f[n + 1] = f[n] \o pieces[n + 1]
      BY <1>3
    <3>6. g[n + 1] = Append(f[n + 1], x)
      BY <3>2, <3>4, <3>5, Zenon
    <3> QED
      BY <2>3, <3>6
  <2>4. CASE n + 1 > k
    <3>1. ~ (n < k) /\ n <= N /\ n + 1 # k /\ ~ (n + 1 < k)
      BY <2>1, <2>4
    <3>2. g[n] = Append(f[n], x)
      BY <1>6, <3>1
    <3>3. pieces[n + 1] = <<>> /\ more[n + 1] = <<>>
      BY <2>1, <2>4, <3>1 DEF Longer
    <3>4. f[n] \in Seq(S)
      BY <1>3
    <3>5. Append(f[n], x) \in Seq(S)
      BY <3>4
    <3>6. Append(f[n], x) \o <<>> = Append(f[n], x) /\ f[n] \o <<>> = f[n]
      BY <3>4, <3>5, NothingJoined
    <3>7. g[n + 1] = Append(f[n + 1], x)
      BY <1>3, <3>2, <3>3, <3>6
    <3> QED
      BY <3>1, <3>7
  <2>5. n + 1 < k \/ n + 1 = k \/ n + 1 > k
    BY <2>1
  <2> QED
    BY <2>2, <2>3, <2>4, <2>5
<1> HIDE DEF T
<1>7. \A n \in Nat : n \in T
  BY <1>5, <1>6, SetInduction
<1>8. N \in Nat /\ N \in T /\ ~ (N < k)
  BY <1>7 DEF Longer
<1> QED
  BY <1>1, <1>2, <1>8 DEF T

LEMMA OneEntryMore ==
  ASSUME NEW S, NEW s \in Seq(S), NEW x \in S
  PROVE  /\ Append(s, x) \in Seq(S) /\ Len(Append(s, x)) = Len(s) + 1 /\ Len(s) \in Nat
         /\ Append(s, x)[Len(s) + 1] = x /\ \A n \in 1..Len(s) : Append(s, x)[n] = s[n]
OBVIOUS

=============================================================================
