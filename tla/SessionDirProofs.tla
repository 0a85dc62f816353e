-------------------------- MODULE SessionDirProofs --------------------------
(***************************************************************************)
(* What SessionDir promises, for every set of launches, every catalog,     *)
(* every number of runs in a directory and every moment a run is killed.   *)
(***************************************************************************)
EXTENDS SessionDir, RecursionProofs

-----------------------------------------------------------------------------
(* The catalog: what the code leaves of it is what the flags ask for.      *)

(* load_catalog and filter_catalog on a catalog with one entry more.       *)
LEMMA ExcludeTyped ==
  ASSUME NEW S, NEW s \in Seq(S)
  PROVE  ExcludeIntellichlor(s) \in Seq(S)
BY SubsequenceTyped DEF ExcludeIntellichlor

LEMMA ExcludeAppend ==
  ASSUME NEW S, NEW s \in Seq(S), NEW x \in S
  PROVE  ExcludeIntellichlor(Append(s, x)) =
             IF x \in Reserved THEN ExcludeIntellichlor(s)
                               ELSE Append(ExcludeIntellichlor(s), x)
<1> DEFINE more == Append(s, x)
           I == {n \in 1..Len(s) : s[n] \notin Reserved}
           J == {n \in 1..Len(more) : more[n] \notin Reserved}
<1>1. (Len(s) + 1 \in J <=> x \notin Reserved) /\ \A n \in 1..Len(s) : n \in I <=> n \in J
  BY OneEntryMore
<1> HIDE DEF I, J
<1>2. Subsequence(more, J) =
          IF Len(s) + 1 \in J THEN Append(Subsequence(s, I), x) ELSE Subsequence(s, I)
  BY <1>1, SubsequenceOneMore
<1> QED
  BY <1>1, <1>2 DEF ExcludeIntellichlor, I, J

LEMMA KeepTyped ==
  ASSUME NEW S, NEW s \in Seq(S), NEW only
  PROVE  KeepOnly(s, only) \in Seq(S)
BY SubsequenceTyped DEF KeepOnly

LEMMA KeepAppend ==
  ASSUME NEW S, NEW s \in Seq(S), NEW x \in S, NEW only
  PROVE  KeepOnly(Append(s, x), only) =
             IF only = None \/ x \in only THEN Append(KeepOnly(s, only), x)
                                          ELSE KeepOnly(s, only)
<1> DEFINE more == Append(s, x)
           I == {n \in 1..Len(s) : s[n] \in only}
           J == {n \in 1..Len(more) : more[n] \in only}
<1>1. (Len(s) + 1 \in J <=> x \in only) /\ \A n \in 1..Len(s) : n \in I <=> n \in J
  BY OneEntryMore
<1> HIDE DEF I, J
<1>2. Subsequence(more, J) =
          IF Len(s) + 1 \in J THEN Append(Subsequence(s, I), x) ELSE Subsequence(s, I)
  BY <1>1, SubsequenceOneMore
<1>3. CASE only = None
  BY <1>3 DEF KeepOnly
<1>4. CASE only # None
  <2>1. KeepOnly(more, only) = Subsequence(more, J) /\ KeepOnly(s, only) = Subsequence(s, I)
    BY <1>4 DEF KeepOnly, I, J
  <2> QED
    BY <1>1, <1>2, <1>4, <2>1
<1> QED
  BY <1>3, <1>4

LEMMA WantedAppend ==
  ASSUME NEW S, NEW s \in Seq(S), NEW x \in S, NEW only, NEW from
  PROVE  Subsequence(Append(s, x), Wanted(Append(s, x), only, from)) =
             IF /\ x \notin Reserved
                /\ from # None => (from \in Range(s) \/ from = x) /\ from \notin Reserved
                /\ only # {} => x \in only
             THEN Append(Subsequence(s, Wanted(s, only, from)), x)
             ELSE Subsequence(s, Wanted(s, only, from))
<1> DEFINE more == Append(s, x)
           I == Wanted(s, only, from)
           J == Wanted(more, only, from)
           new == /\ x \notin Reserved
                  /\ from # None => (from \in Range(s) \/ from = x) /\ from \notin Reserved
                  /\ only # {} => x \in only
<1>1. /\ more \in Seq(S) /\ Len(more) = Len(s) + 1 /\ Len(s) \in Nat
      /\ more[Len(s) + 1] = x /\ \A n \in 1..Len(s) : more[n] = s[n]
  BY OneEntryMore
<1> HIDE DEF more
<1>2. ASSUME NEW n \in 1..Len(s) PROVE n \in I <=> n \in J
  <2>1. \A j \in 1..n : more[j] = s[j]
    BY <1>1
  <2>2. n \in 1..Len(more) /\ more[n] = s[n]
    BY <1>1
  <2> QED
    BY <2>1, <2>2 DEF Wanted
<1>3. Len(s) + 1 \in J <=> new
  <2>1. (\E j \in 1..Len(s) + 1 : more[j] = from) <=> from \in Range(s) \/ from = x
    <3>1. ASSUME NEW j \in 1..Len(s) + 1, more[j] = from
          PROVE  from \in Range(s) \/ from = x
      <4>1. CASE j = Len(s) + 1
        BY <1>1, <3>1, <4>1
      <4>2. CASE j # Len(s) + 1
        <5>1. j \in 1..Len(s) /\ j \in DOMAIN s
          BY <1>1, <4>2
        <5> QED
          BY <1>1, <3>1, <5>1 DEF Range
      <4> QED
        BY <4>1, <4>2
    <3>2. ASSUME from \in Range(s) PROVE \E j \in 1..Len(s) + 1 : more[j] = from
      <4>1. PICK j \in DOMAIN s : s[j] = from
        BY <3>2 DEF Range
      <4>2. j \in 1..Len(s) /\ j \in 1..Len(s) + 1
        BY <1>1, <4>1
      <4> QED
        BY <1>1, <4>1, <4>2
    <3>3. Len(s) + 1 \in 1..Len(s) + 1
      BY <1>1
    <3> QED
      BY <1>1, <3>1, <3>2, <3>3
  <2>2. Len(s) + 1 \in 1..Len(more)
    BY <1>1
  <2> QED
    BY <1>1, <2>1, <2>2 DEF Wanted
<1> HIDE DEF I, J, new
<1>4. Subsequence(more, J) =
          IF Len(s) + 1 \in J THEN Append(Subsequence(s, I), x) ELSE Subsequence(s, I)
  BY <1>2, SubsequenceOneMore DEF more
<1> QED
  BY <1>3, <1>4 DEF I, J, new, more

(* The first position of an id, which --from-id starts at.                  *)
First(s, id, p) == p \in 1..Len(s) /\ s[p] = id /\ \A q \in 1..Len(s) : s[q] = id => p <= q

LEMMA FirstExists ==
  ASSUME NEW S, NEW s \in Seq(S), NEW id \in Range(s)
  PROVE  \E p : First(s, id, p)
<1> DEFINE I == {n \in 1..Len(s) : s[n] = id}
<1>1. I \subseteq Nat /\ I # {}
  BY DEF Range
<1>2. \E p \in I : \A q \in I : p <= q
  <2> HIDE DEF I
  <2> QED
    BY <1>1, LeastNumber
<1> QED
  BY <1>2 DEF First

LEMMA FromIdFirst ==
  ASSUME NEW S, NEW s \in Seq(S), NEW id, NEW p, First(s, id, p)
  PROVE  FromId(s, id) = SubSeq(s, p, Len(s))
<1> DEFINE I == {n \in 1..Len(s) : s[n] = id}
<1>1. p \in I /\ \A q \in I : p <= q
  BY DEF First
<1>2. I \subseteq Nat
  OBVIOUS
<1>3. Min(I) = p
  <2> HIDE DEF I
  <2>1. \A m \in I : (\A q \in I : m <= q) => m = p
    BY <1>1, <1>2
  <2> QED
    BY <1>1, <2>1 DEF Min
<1>4. SelectInSeq(s, LAMBDA e : e = id) = Min(I)
  BY <1>1 DEF SelectInSeq
<1> QED
  BY <1>3, <1>4 DEF FromId

LEMMA FromIdTyped ==
  ASSUME NEW S, NEW s \in Seq(S), NEW id \in Range(s)
  PROVE  FromId(s, id) \in Seq(S)
<1>1. PICK p : First(s, id, p)
  BY FirstExists
<1>2. FromId(s, id) = SubSeq(s, p, Len(s))
  BY <1>1, FromIdFirst
<1>3. p \in 1..Len(s) /\ Len(s) \in Nat
  BY <1>1 DEF First
<1>4. SubSeq(s, p, Len(s)) \in Seq(S)
  BY <1>3
<1> QED
  BY <1>2, <1>4

LEMMA FromIdAppend ==
  ASSUME NEW S, NEW s \in Seq(S), NEW x \in S, NEW id \in Range(s)
  PROVE  FromId(Append(s, x), id) = Append(FromId(s, id), x)
<1> DEFINE more == Append(s, x)
<1>1. /\ more \in Seq(S) /\ Len(more) = Len(s) + 1 /\ Len(s) \in Nat
      /\ more[Len(s) + 1] = x /\ \A n \in 1..Len(s) : more[n] = s[n]
  BY OneEntryMore
<1>2. PICK p : First(s, id, p)
  BY FirstExists
<1>3. First(more, id, p)
  <2> HIDE DEF more
  <2>1. p \in 1..Len(more) /\ more[p] = id
    BY <1>1, <1>2 DEF First
  <2>2. ASSUME NEW q \in 1..Len(more), more[q] = id PROVE p <= q
    <3>1. q \in 1..Len(s) \/ q = Len(s) + 1
      BY <1>1
    <3> QED
      BY <1>1, <1>2, <2>2, <3>1 DEF First
  <2> QED
    BY <2>1, <2>2 DEF First
<1>4. FromId(s, id) = SubSeq(s, p, Len(s)) /\ FromId(more, id) = SubSeq(more, p, Len(s) + 1)
  <2> HIDE DEF more
  <2> QED
    BY <1>1, <1>2, <1>3, FromIdFirst
<1>5. p \in 1..Len(s)
  BY <1>2 DEF First
<1>6. SubSeq(more, p, Len(s) + 1) = Append(SubSeq(s, p, Len(s)), x)
  BY <1>1, <1>5
<1> QED
  BY <1>4, <1>6

LEMMA FromIdLast ==
  ASSUME NEW S, NEW s \in Seq(S), NEW id \in S, id \notin Range(s)
  PROVE  FromId(Append(s, id), id) = <<id>>
<1> DEFINE more == Append(s, id)
<1>1. /\ more \in Seq(S) /\ Len(more) = Len(s) + 1 /\ Len(s) \in Nat
      /\ more[Len(s) + 1] = id /\ \A n \in 1..Len(s) : more[n] = s[n]
  BY OneEntryMore
<1>2. \A n \in 1..Len(s) : s[n] # id
  BY DEF Range
<1>3. First(more, id, Len(s) + 1)
  <2> HIDE DEF more
  <2>1. ASSUME NEW q \in 1..Len(more), more[q] = id PROVE Len(s) + 1 <= q
    <3>1. q \in 1..Len(s) \/ q = Len(s) + 1
      BY <1>1
    <3> QED
      BY <1>1, <1>2, <2>1, <3>1
  <2> QED
    BY <1>1, <2>1 DEF First
<1>4. FromId(more, id) = SubSeq(more, Len(s) + 1, Len(s) + 1)
  <2> HIDE DEF more
  <2> QED
    BY <1>1, <1>3, FromIdFirst
<1>5. SubSeq(more, Len(s) + 1, Len(s) + 1) = <<id>>
  <2> DEFINE tail == SubSeq(more, Len(s) + 1, Len(s) + 1)
  <2>1. tail \in Seq(S) /\ Len(tail) = 1 /\ tail[1] = id
    <3> HIDE DEF more
    <3> QED
      BY <1>1
  <2> HIDE DEF tail
  <2>2. tail = <<id>>
    BY <2>1
  <2> QED
    BY <2>2 DEF tail
<1> QED
  BY <1>4, <1>5

LEMMA RangeAppend ==
  ASSUME NEW S, NEW s \in Seq(S), NEW x \in S
  PROVE  Range(Append(s, x)) = Range(s) \union {x}
<1>1. /\ DOMAIN s = 1..Len(s) /\ DOMAIN Append(s, x) = 1..Len(s) + 1 /\ Len(s) \in Nat
      /\ Append(s, x)[Len(s) + 1] = x /\ \A n \in 1..Len(s) : Append(s, x)[n] = s[n]
  BY OneEntryMore
<1>2. \A n \in 1..Len(s) + 1 : n \in 1..Len(s) \/ n = Len(s) + 1
  BY <1>1
<1>3. 1..Len(s) \subseteq 1..Len(s) + 1 /\ Len(s) + 1 \in 1..Len(s) + 1
  BY <1>1
<1> QED
  BY <1>1, <1>2, <1>3 DEF Range

(* The ids that --only and --from-id leave, by position and by the code.   *)
Agrees(s, only, from) ==
    LET e == ExcludeIntellichlor(s)
        wanted == Subsequence(s, Wanted(s, only, from))
    IN  /\ from # None => (from \in Range(e) <=> from \in Range(s) /\ from \notin Reserved)
        /\ IF from = None THEN KeepOnly(e, ParseIdList(only)) = wanted
           ELSE IF from \in Range(e) THEN KeepOnly(FromId(e, from), ParseIdList(only)) = wanted
           ELSE wanted = <<>>

(* By induction over the catalog.                                          *)
LEMMA AlwaysAgrees ==
  ASSUME NEW S, NEW s \in Seq(S), NEW only, only # None, NEW from
  PROVE  Agrees(s, only, from)
<1> DEFINE P == {t \in Seq(S) : Agrees(t, only, from)}
           keeps(x) == only # {} => x \in only
<1>1. <<>> \in P
  <2>1. <<>> \in Seq(S) /\ Range(<<>>) = {}
    BY DEF Range
  <2>2. ExcludeIntellichlor(<<>>) = <<>>
    BY SubsequenceOfNothing DEF ExcludeIntellichlor
  <2>3. Subsequence(<<>>, Wanted(<<>>, only, from)) = <<>> /\ KeepOnly(<<>>, ParseIdList(only)) = <<>>
    BY SubsequenceOfNothing DEF KeepOnly
  <2> QED
    BY <2>1, <2>2, <2>3 DEF Agrees
<1>2. ASSUME NEW t \in Seq(S), NEW x \in S, t \in P PROVE Append(t, x) \in P
  <2> DEFINE e == ExcludeIntellichlor(t)
             more == Append(t, x)
             wanted == Subsequence(t, Wanted(t, only, from))
             only2 == ParseIdList(only)
  <2>1. e \in Seq(S) /\ more \in Seq(S)
    BY ExcludeTyped
  <2>2. ExcludeIntellichlor(more) = IF x \in Reserved THEN e ELSE Append(e, x)
    BY ExcludeAppend
  <2>3. Range(more) = Range(t) \union {x} /\ Range(Append(e, x)) = Range(e) \union {x}
    BY <2>1, RangeAppend
  <2>4. Subsequence(more, Wanted(more, only, from)) =
            IF /\ x \notin Reserved
               /\ from # None => (from \in Range(t) \/ from = x) /\ from \notin Reserved
               /\ keeps(x)
            THEN Append(wanted, x) ELSE wanted
    BY WantedAppend
  <2>5. \A u \in Seq(S) : KeepOnly(Append(u, x), only2) =
            IF keeps(x) THEN Append(KeepOnly(u, only2), x) ELSE KeepOnly(u, only2)
    <3>1. only2 = None \/ x \in only2 <=> keeps(x)
      BY DEF ParseIdList
    <3> HIDE DEF only2, keeps
    <3> QED
      BY <3>1, KeepAppend
  <2>6. Agrees(t, only, from)
    BY <1>2
  <2>7. from # None => (from \in Range(ExcludeIntellichlor(more))
                          <=> from \in Range(more) /\ from \notin Reserved)
    BY <2>2, <2>3, <2>6 DEF Agrees
  <2>8. CASE from = None
    <3>1. KeepOnly(e, only2) = wanted
      BY <2>6, <2>8 DEF Agrees
    <3> HIDE DEF e, more, wanted, only2, keeps
    <3>2. KeepOnly(ExcludeIntellichlor(more), only2) = Subsequence(more, Wanted(more, only, from))
      BY <2>1, <2>2, <2>4, <2>5, <2>8, <3>1
    <3> QED
      BY <2>1, <2>8, <3>2 DEF Agrees, more, only2
  <2>9. CASE from # None /\ from \in Range(e)
    <3>1. KeepOnly(FromId(e, from), only2) = wanted /\ from \in Range(t) /\ from \notin Reserved
      BY <2>6, <2>9 DEF Agrees
    <3>2. FromId(Append(e, x), from) = Append(FromId(e, from), x) /\ FromId(e, from) \in Seq(S)
      BY <2>1, <2>9, FromIdAppend, FromIdTyped
    <3> HIDE DEF e, more, wanted, only2, keeps
    <3>3. /\ from \in Range(ExcludeIntellichlor(more))
          /\ KeepOnly(FromId(ExcludeIntellichlor(more), from), only2)
                = Subsequence(more, Wanted(more, only, from))
      BY <2>2, <2>3, <2>4, <2>5, <2>9, <3>1, <3>2
    <3> QED
      BY <2>1, <2>7, <2>9, <3>3 DEF Agrees, more, only2
  <2>10. CASE from # None /\ from \notin Range(e) /\ from = x /\ x \notin Reserved
    <3>1. wanted = <<>>
      BY <2>6, <2>10 DEF Agrees
    <3>2. FromId(Append(e, x), from) = <<x>>
      BY <2>1, <2>10, FromIdLast
    <3>3. <<>> \in Seq(S) /\ Append(<<>>, x) = <<x>> /\ KeepOnly(<<>>, only2) = <<>>
      BY SubsequenceOfNothing DEF KeepOnly
    <3> HIDE DEF e, more, wanted, only2, keeps
    <3>4. KeepOnly(<<x>>, only2) = IF keeps(x) THEN <<x>> ELSE <<>>
      BY <2>5, <3>3
    <3>5. /\ from \in Range(ExcludeIntellichlor(more))
          /\ KeepOnly(FromId(ExcludeIntellichlor(more), from), only2)
                = Subsequence(more, Wanted(more, only, from))
      BY <2>2, <2>3, <2>4, <2>10, <3>1, <3>2, <3>3, <3>4
    <3> QED
      BY <2>1, <2>7, <2>10, <3>5 DEF Agrees, more, only2
  <2>11. CASE from # None /\ from \notin Range(e) /\ ~ (from = x /\ x \notin Reserved)
    <3>1. wanted = <<>> /\ ~ (from \in Range(t) /\ from \notin Reserved)
      BY <2>6, <2>11 DEF Agrees
    <3> HIDE DEF e, more, wanted, only2, keeps
    <3>2. /\ from \notin Range(ExcludeIntellichlor(more))
          /\ Subsequence(more, Wanted(more, only, from)) = <<>>
      BY <2>2, <2>3, <2>4, <2>11, <3>1
    <3> QED
      BY <2>1, <2>7, <2>11, <3>2 DEF Agrees, more
  <2> QED
    BY <2>8, <2>9, <2>10, <2>11
<1> HIDE DEF P
<1>3. s \in P
  BY <1>1, <1>2, ListInduction
<1> QED
  BY <1>3 DEF P

(* A launch walks the ids its flags ask for, and is refused only without.  *)
LEMMA SelectedIsAsked ==
  ASSUME NEW l \in Launches
  PROVE  /\ IdsAsked(l) \in Seq(Ids)
         /\ Selected(l) \in {Failed, <<>>} => IdsAsked(l) = <<>>
         /\ Selected(l) \notin {Failed, <<>>} => Selected(l) = IdsAsked(l)
<1> DEFINE s == Entries(l)
           e == ExcludeIntellichlor(s)
           only == l.only
           from == l.from
<1>1. CASE s = Failed
  <2>1. LoadCatalog(l.catalog) = Failed
    BY <1>1 DEF LoadCatalog, LoadCatalogFile, Entries
  <2> QED
    BY <1>1, <2>1 DEF IdsAsked, Selected
<1>2. CASE s # Failed /\ Malformed \in Range(s)
  <2>1. l.catalog # None
    BY <1>2, LaunchAssumption DEF Entries
  <2>2. LoadCatalog(l.catalog) = Failed
    BY <1>2, <2>1 DEF LoadCatalog, LoadCatalogFile, Entries
  <2> QED
    BY <1>2, <2>2 DEF IdsAsked, Selected
<1>3. CASE s # Failed /\ Malformed \notin Range(s)
  <2>1. s \in Seq(Ids)
    <3>1. s \in Seq(Ids \union {Malformed})
      BY <1>3, LaunchAssumption
    <3>2. \A n \in 1..Len(s) : s[n] \in Ids
      <4> TAKE n \in 1..Len(s)
      <4>1. s[n] \in Range(s)
        BY <3>1 DEF Range
      <4>2. Range(s) \in {Range(Entries(k)) : k \in {k \in Launches : Entries(k) # Failed}}
        BY <1>3
      <4> HIDE DEF s
      <4>3. s[n] # Malformed
        BY <1>3, <4>1
      <4>4. s[n] \in UNION {Range(Entries(k)) : k \in {k \in Launches : Entries(k) # Failed}}
        BY <4>1, <4>2
      <4> QED
        BY <4>3, <4>4 DEF Ids
    <3> HIDE DEF s
    <3> QED
      BY <3>1, <3>2
  <2>2. Agrees(s, only, from)
    <3>1. only # None
      BY LaunchAssumption
    <3> HIDE DEF s, only, from
    <3> QED
      BY <2>1, <3>1, AlwaysAgrees
  <2>3. IdsAsked(l) = Subsequence(s, Wanted(s, only, from))
    BY <1>3 DEF IdsAsked
  <2>4. LoadCatalog(l.catalog) = e
    BY <1>3 DEF LoadCatalog, LoadCatalogFile, Entries
  <2>5. e # Failed
    <3>1. e \in Seq(Ids \union {Malformed})
      <4>1. s \in Seq(Ids \union {Malformed})
        BY <1>3, LaunchAssumption
      <4> HIDE DEF s
      <4> QED
        BY <4>1, ExcludeTyped
    <3> QED
      BY <3>1, LaunchAssumption
  <2>6. Selected(l) = FilterCatalog(e, ParseIdList(only), from)
    BY <2>4, <2>5 DEF Selected
  <2>7. IdsAsked(l) \in Seq(Ids)
    <3> HIDE DEF s, only, from
    <3> QED
      BY <2>1, <2>3, SubsequenceTyped
  <2> HIDE DEF s, only, from, e
  <2>8. Selected(l) = IdsAsked(l) \/ (Selected(l) = Failed /\ IdsAsked(l) = <<>>)
    BY <2>2, <2>3, <2>6 DEF Agrees, FilterCatalog, e
  <2>9. IdsAsked(l) # Failed
    <3>1. Ids \subseteq Ids \union {Malformed}
      OBVIOUS
    <3> QED
      BY <2>7, <3>1, LaunchAssumption
  <2> QED
    BY <2>7, <2>8, <2>9
<1> QED
  BY <1>1, <1>2, <1>3

(* .env gives a variable only when the shell does not.                     *)
LEMMA EnvIsVariable ==
  ASSUME NEW l, NEW k \in Keys, NEW default
  PROVE  Env(LoadEnvFile(l.shell, l.dotenv), k, default) = Variable(l, k, default)
BY DEF Env, LoadEnvFile, Variable

(* The endpoint a launch without --tcp connects to.                        *)
Endpoint(l) == [host |-> Variable(l, "host", DefaultHost),
                port |-> IF Variable(l, "port", DefaultPort) = NotANumber
                         THEN DefaultPort ELSE Variable(l, "port", DefaultPort)]

LEMMA SettingsAreVariables ==
  ASSUME NEW l \in Launches
  PROVE  /\ LoadTransportSettings(LoadEnvFile(l.shell, l.dotenv)).transport = "tcp"
               <=> Variable(l, "transport", "serial") = "tcp"
         /\ LoadTransportSettings(LoadEnvFile(l.shell, l.dotenv)).device
               = Variable(l, "device", DefaultDevice)
         /\ LoadTransportSettings(LoadEnvFile(l.shell, l.dotenv)).endpoint = Endpoint(l)
         /\ Variable(l, "device", DefaultDevice) \in Devices
         /\ Endpoint(l) \in Endpoints
<1> DEFINE env == LoadEnvFile(l.shell, l.dotenv)
<1>1. {"transport", "device", "host", "port"} \subseteq Keys
  BY DEF Keys
<1>2. /\ Env(env, "transport", "serial") = Variable(l, "transport", "serial")
      /\ Env(env, "device", DefaultDevice) = Variable(l, "device", DefaultDevice)
      /\ Env(env, "host", DefaultHost) = Variable(l, "host", DefaultHost)
      /\ Env(env, "port", DefaultPort) = Variable(l, "port", DefaultPort)
  BY <1>1, EnvIsVariable
<1>3. ASSUME NEW k, NEW default PROVE Variable(l, k, default) \in Said(k) \union {default}
  BY DEF Variable, Said
<1>4. Variable(l, "device", DefaultDevice) \in Devices
  BY <1>3 DEF Devices
<1>5. Endpoint(l) \in Endpoints
  <2>1. /\ Variable(l, "host", DefaultHost) \in Said("host") \union {DefaultHost}
        /\ Variable(l, "port", DefaultPort) \in Said("port") \union {DefaultPort}
    BY <1>3
  <2> QED
    BY <2>1 DEF Endpoint, Endpoints
<1> HIDE DEF env
<1> QED
  BY <1>2, <1>4, <1>5 DEF LoadTransportSettings, Endpoint, env

(* The three kinds of bus.                                                 *)
LEMMA FileIsAsked ==
  ASSUME NEW l \in Launches, Bus(l) = Resolved(None, None, l.file), l.file # None,
         BusAsked(l) = <<"file", l.file>>
  PROVE  /\ BuildWatchTransport(Bus(l)) = <<"file", l.file>>
         /\ DescribeSource(Bus(l)) = <<"file", l.file>>
         /\ Bus(l).file = l.file /\ <<"file", l.file>> # Failed
<1>1. <<"file", l.file>> \in
        {"file", "tcp", "serial"} \X (Endpoints \union Devices \union {k.file : k \in Launches})
  OBVIOUS
<1> QED
  BY <1>1, LaunchAssumption DEF BuildWatchTransport, DescribeSource, Resolved

LEMMA SerialIsAsked ==
  ASSUME NEW l \in Launches, NEW device \in Devices, Bus(l) = Resolved(None, device, None)
  PROVE  /\ BuildWatchTransport(Bus(l)) = <<"serial", device>>
         /\ DescribeSource(Bus(l)) = <<"serial", device>>
         /\ Bus(l).file = None /\ <<"serial", device>> # Failed
<1>1. <<"serial", device>> \in
        {"file", "tcp", "serial"} \X (Endpoints \union Devices \union {k.file : k \in Launches})
  OBVIOUS
<1> QED
  BY <1>1, LaunchAssumption DEF BuildWatchTransport, DescribeSource, Resolved

LEMMA TcpIsAsked ==
  ASSUME NEW l \in Launches, NEW e \in Endpoints, Bus(l) = Resolved(e, None, None),
         BusAsked(l) = <<"tcp", e>>
  PROVE  /\ BuildWatchTransport(Bus(l)) = Failed => BadBus(BusAsked(l))
         /\ BuildWatchTransport(Bus(l)) # Failed
               => SameBus(BuildWatchTransport(Bus(l)), BusAsked(l))
         /\ DescribeSource(Bus(l)) = <<"tcp", e>> /\ Bus(l).file = None
<1>2. e # None
  BY LaunchAssumption
<1>3. Bus(l).tcp = e /\ Bus(l).file = None /\ DescribeSource(Bus(l)) = <<"tcp", e>>
  BY <1>2 DEF Resolved, DescribeSource
<1>4. BuildWatchTransport(Bus(l)) = IF ParseTcpEndpoint(e) = Failed THEN Failed
                                    ELSE <<"tcp", ParseTcpEndpoint(e)>>
  BY <1>2, <1>3 DEF BuildWatchTransport
<1>5. e # Failed /\ [e EXCEPT !.port = DefaultPort] # Failed
  <2>1. [e EXCEPT !.port = DefaultPort] \in Endpoints
    BY DEF Endpoints
  <2> QED
    BY <2>1, LaunchAssumption
<1>6. ASSUME NEW x \in Endpoints PROVE <<"tcp", x>> # Failed
  <2>1. <<"tcp", x>> \in
        {"file", "tcp", "serial"} \X (Endpoints \union Devices \union {k.file : k \in Launches})
    OBVIOUS
  <2> QED
    BY <2>1, LaunchAssumption
<1>7. <<"tcp", e>>[1] = "tcp" /\ <<"tcp", e>>[2] = e
  OBVIOUS
<1>8. CASE e.port = None
  <2> DEFINE p == [e EXCEPT !.port = DefaultPort]
  <2>1. ParseTcpEndpoint(e) = p /\ p \in Endpoints /\ p.host = e.host /\ p.port = DefaultPort
    BY <1>8 DEF ParseTcpEndpoint, Endpoints
  <2> HIDE DEF p
  <2>2. BuildWatchTransport(Bus(l)) = <<"tcp", p>> /\ <<"tcp", p>> # Failed
    BY <1>4, <1>5, <1>6, <2>1 DEF p
  <2>3. SameBus(<<"tcp", p>>, <<"tcp", e>>)
    BY <1>8, <2>1 DEF SameBus
  <2> QED
    BY <1>3, <2>2, <2>3
<1>9. CASE e.port # None /\ (e.host = Blank \/ e.port = NotANumber)
  <2>1. BadBus(<<"tcp", e>>)
    BY <1>7, <1>9 DEF BadBus
  <2>2. BuildWatchTransport(Bus(l)) = Failed
    BY <1>4, <1>9 DEF ParseTcpEndpoint
  <2> QED
    BY <1>3, <2>1, <2>2
<1>10. CASE e.port # None /\ ~ (e.host = Blank \/ e.port = NotANumber)
  <2>1. BuildWatchTransport(Bus(l)) = <<"tcp", e>>
    BY <1>4, <1>5, <1>10 DEF ParseTcpEndpoint
  <2> QED
    BY <1>3, <1>6, <2>1 DEF SameBus
<1> QED
  BY <1>8, <1>9, <1>10

(* A flag beats a variable, a variable beats .env, .env beats the default; *)
(* the source in the session meta is the bus the transport reads.          *)
LEMMA BusIsAsked ==
  ASSUME NEW l \in Launches
  PROVE  /\ Bus(l).file \notin Files \union {None} => BadBus(BusAsked(l))
         /\ BuildWatchTransport(Bus(l)) = Failed => BadBus(BusAsked(l))
         /\ BuildWatchTransport(Bus(l)) # Failed
               => SameBus(BuildWatchTransport(Bus(l)), BusAsked(l))
         /\ SameBus(DescribeSource(Bus(l)), BusAsked(l))
<1> DEFINE cfg == LoadTransportSettings(LoadEnvFile(l.shell, l.dotenv))
           tcp == Variable(l, "transport", "serial") = "tcp"
<1>0. /\ cfg.transport = "tcp" <=> tcp
      /\ cfg.device = Variable(l, "device", DefaultDevice) /\ cfg.device \in Devices
      /\ cfg.endpoint = Endpoint(l) /\ Endpoint(l) \in Endpoints
  BY SettingsAreVariables
<1>1. Bus(l) = ResolveCliTransport(l, cfg)
  BY DEF Bus
<1>2. l.serial \in Devices
  BY DEF Devices
<1>3. l.tcp \notin {None, Blank} => l.tcp \in Endpoints
  <2>1. l.tcp \notin {None, Blank} => l.tcp \in Flagged
    BY DEF Flagged
  <2> QED
    BY <2>1, LaunchAssumption
<1>4. None # Blank
  BY LaunchAssumption
<1>5. "file" # "tcp" /\ "file" # "serial" /\ "tcp" # "serial"
  OBVIOUS
<1> HIDE DEF cfg, tcp
<1>6. CASE l.file # None
  <2>1. BusAsked(l) = <<"file", l.file>>
    BY <1>5, <1>6 DEF BusAsked
  <2>2. Bus(l) = Resolved(None, None, l.file)
    BY <1>1, <1>6 DEF ResolveCliTransport
  <2>3. <<"file", l.file>>[1] = "file" /\ <<"file", l.file>>[2] = l.file
    OBVIOUS
  <2>4. l.file \notin Files => BadBus(<<"file", l.file>>)
    BY <2>3 DEF BadBus
  <2> QED
    BY <1>6, <2>1, <2>2, <2>4, FileIsAsked DEF SameBus
<1>7. CASE l.file = None /\ (l.tcp # None \/ (l.serial = None /\ tcp))
  <2> DEFINE e == IF l.tcp \in {None, Blank} THEN Endpoint(l) ELSE l.tcp
  <2>1. e \in Endpoints
    BY <1>0, <1>3
  <2>2. BusAsked(l) = <<"tcp", e>>
    BY <1>5, <1>7 DEF BusAsked, Endpoint, tcp
  <2>3. Bus(l) = Resolved(e, None, None)
    BY <1>0, <1>1, <1>4, <1>7 DEF ResolveCliTransport
  <2> HIDE DEF e
  <2> QED
    BY <2>1, <2>2, <2>3, TcpIsAsked DEF SameBus
<1>8. CASE l.file = None /\ l.tcp = None /\ (l.serial # None \/ ~ tcp)
  <2> DEFINE device == IF l.serial \in {None, Blank} THEN Variable(l, "device", DefaultDevice)
                       ELSE l.serial
  <2>1. device \in Devices
    BY <1>0, <1>2
  <2>2. BusAsked(l) = <<"serial", device>>
    BY <1>5, <1>8 DEF BusAsked, tcp
  <2>3. Bus(l) = Resolved(None, device, None)
    BY <1>0, <1>1, <1>4, <1>8 DEF ResolveCliTransport
  <2> HIDE DEF device
  <2> QED
    BY <2>1, <2>2, <2>3, SerialIsAsked DEF SameBus
<1> QED
  BY <1>6, <1>7, <1>8

-----------------------------------------------------------------------------
(* The invariants of a run.                                                *)

(* The log and the state of the walk are of the run in progress.           *)
Live == pc \notin {"shell", "open"}

(* The values of the fields, as their declarations have them.              *)
TypeInv ==
    /\ pc \in {"shell", "open", "select", "armed", "remaining", "index", "root", "meta"}
    /\ walk \in Seq(Ids) /\ at \in 0..Len(walk) /\ asked.ids \in Seq(Ids)
    /\ DOMAIN slices \subseteq Nat \X Ids /\ slices \in [DOMAIN slices -> Seq(Line)]
    /\ log \in Seq(Line) \union {NoFile}
    /\ index \in Seq(Row) \union {NoFile} /\ rows \in Seq(Row)
    /\ count \in Nat /\ start \in Nat /\ frameSeq \in Nat /\ run \in Nat
    /\ half \in BOOLEAN /\ quit \in BOOLEAN /\ raised \in BOOLEAN /\ reading \in BOOLEAN
    /\ active \in Ids \union {NoCap}

(* What the phase of the walk says of the cursor and of the open window.   *)
PhaseInv ==
    /\ ~ Live => /\ key = NoSlice /\ active = NoCap /\ half = FALSE /\ count = 0
                 /\ frameSeq = 0 /\ rows = <<>> /\ at = 0
    /\ pc \in {"open", "select", "armed"} => quit = FALSE /\ raised = FALSE
    /\ pc = "armed" => at >= 1 /\ key = SliceDir(at, walk[at]) /\ active = walk[at]
    /\ key # NoSlice => /\ pc \in {"armed", "remaining"}
                        /\ \E k \in 1..at : key = SliceDir(k, walk[k]) /\ active = walk[k]
    /\ raised = FALSE /\ pc # "armed" => key = NoSlice /\ active = NoCap
    /\ pc = "remaining" /\ at < Len(walk) => quit = TRUE \/ raised = TRUE
    /\ pc \in {"index", "root", "meta"} => at = Len(walk)
    /\ pc \in {"root", "meta"} => index = rows

(* The log of a run in progress has its numbered lines and no others; a    *)
(* root line that is still to be put in a slice is the last, of the active *)
(* capability.                                                             *)
LogInv ==
    /\ Live => /\ log \in Seq(Line) /\ Len(log) = frameSeq
               /\ \A n \in 1..Len(log) : log[n].run = run
    /\ log # NoFile => \A n \in 1..Len(log) :
            log[n].run <= run /\ (pc = "open" => log[n].run < run)
    /\ half = TRUE => Len(log) > 0 /\ log[Len(log)].cap = active

(* A run that was not refused is the one the launch asks for.              *)
AskInv ==
    /\ pc # "shell" => /\ outcome = "none" /\ asked.ids = walk /\ asked.skip = skip
                       /\ SameBus(bus, asked.bus) /\ SameBus(source, asked.bus)
    /\ pc = "shell" => walk = <<>>

BaseInv == TypeInv /\ PhaseInv /\ LogInv /\ AskInv

(* Emptying a slice leaves the others, and a slice is emptied only for the *)
(* next capability.                                                        *)
LEMMA Emptying ==
  ASSUME TypeInv, NEW dir \in Nat \X Ids, Emptied(dir)
  PROVE  /\ DOMAIN slices' = DOMAIN slices \union {dir}
         /\ DOMAIN slices' \subseteq Nat \X Ids /\ slices' \in [DOMAIN slices' -> Seq(Line)]
         /\ slices'[dir] = <<>>
         /\ \A d \in DOMAIN slices : d # dir => slices'[d] = slices[d]
BY DEF TypeInv, Emptied

LEMMA NextEntry ==
  ASSUME TypeInv, at < Len(walk)
  PROVE  /\ at \in Nat /\ at + 1 \in 1..Len(walk) /\ walk[at + 1] \in Ids
         /\ SliceDir(at + 1, walk[at + 1]) \in Nat \X Ids
BY DEF TypeInv, SliceDir

LEMMA NotNoSlice ==
  ASSUME NEW k, NEW id
  PROVE  SliceDir(k, id) # NoSlice
BY DEF SliceDir, NoSlice

LEMMA AnswerTyped ==
  ASSUME NEW k \in Endings
  PROVE  /\ k[1] \in {"done", "skipped", "not_run"} /\ k[2] \in BOOLEAN
         /\ k[1] = "not_run" => k[2] = TRUE
         /\ walk[at] \in skip => k[1] = "skipped"
<1>0. walk[at] \in skip => k = <<"skipped", FALSE>>
  BY DEF Endings
<1>1. \/ k = <<"done", FALSE>> \/ k = <<"skipped", FALSE>>
      \/ k = <<"skipped", TRUE>> \/ k = <<"not_run", TRUE>>
  BY <1>0, AnswersAssumption DEF Endings
<1>2. CASE k = <<"done", FALSE>>
  BY <1>0, <1>2
<1>3. CASE k = <<"skipped", FALSE>>
  BY <1>3
<1>4. CASE k = <<"skipped", TRUE>>
  BY <1>4
<1>5. CASE k = <<"not_run", TRUE>>
  BY <1>0, <1>5
<1> QED
  BY <1>1, <1>2, <1>3, <1>4, <1>5

(* The line is put in the open slice, if there is one.                     *)
Tagging == active # NoCap /\ key # NoSlice

LEMMA Slicing ==
  ASSUME TypeInv, SliceLine, NEW line \in Line, line = Last(log)
  PROVE  /\ DOMAIN slices' = DOMAIN slices /\ slices' \in [DOMAIN slices' -> Seq(Line)]
         /\ \A d \in DOMAIN slices : d # key => slices'[d] = slices[d]
         /\ Tagging /\ key \in DOMAIN slices => slices'[key] = Append(slices[key], line)
         /\ ~ Tagging => slices' = slices
         /\ count' = IF Tagging THEN count + 1 ELSE count
<1>1. CASE Tagging
  <2>1. slices' = [slices EXCEPT ![key] = Append(slices[key], line)] /\ count' = count + 1
    BY <1>1 DEF SliceLine, Tagging
  <2>2. key \in DOMAIN slices => Append(slices[key], line) \in Seq(Line)
    BY DEF TypeInv
  <2>3. slices \in [DOMAIN slices -> Seq(Line)]
    BY DEF TypeInv
  <2> QED
    BY <1>1, <2>1, <2>2, <2>3
<1>2. CASE ~ Tagging
  BY <1>2 DEF SliceLine, Tagging, TypeInv
<1> QED
  BY <1>1, <1>2

LEMMA Losing ==
  ASSUME MemoryLost
  PROVE  /\ pc' = "shell" /\ walk' = <<>> /\ walk' \in Seq(Ids) /\ at' = 0
         /\ at' \in 0..Len(walk') /\ active' = NoCap /\ key' = NoSlice
         /\ count' = 0 /\ start' = 0 /\ reading' = FALSE /\ frameSeq' = 0 /\ half' = FALSE
         /\ rows' = <<>> /\ rows' \in Seq(Row) /\ run' = run /\ asked' = asked
BY DEF MemoryLost, ForgetSlice

LEMMA TypeStep ==
  ASSUME BaseInv, [Next]_vars
  PROVE  TypeInv'
<1> USE DEF BaseInv, Live
<1>1. ASSUME NEW l \in Launches, Launch(l) PROVE TypeInv'
  <2>1. IdsAsked(l) \in Seq(Ids) /\ (Selected(l) \notin {Failed, <<>>} => Selected(l) \in Seq(Ids))
    BY SelectedIsAsked
  <2>2. 0 \in 0..Len(walk') /\ walk' \in Seq(Ids)
    <3>1. walk' \in Seq(Ids)
      BY <1>1, <2>1 DEF Launch, Refused, TypeInv
    <3> QED
      BY <3>1
  <2>3. asked'.ids \in Seq(Ids)
    BY <1>1, <2>1 DEF Launch
  <2>4. pc' \in {"shell", "open"} /\ run' \in Nat
    BY <1>1 DEF Launch, TypeInv
  <2> QED
    BY <1>1, <2>2, <2>3, <2>4 DEF Launch, TypeInv, disk, window, reader
<1>2. CASE Open
  BY <1>2 DEF Open, TypeInv, walking, window, reader, history
<1>3. CASE Arm
  <2>1. /\ at + 1 \in 1..Len(walk) /\ walk[at + 1] \in Ids
        /\ SliceDir(at + 1, walk[at + 1]) \in Nat \X Ids
    BY <1>3, NextEntry DEF Arm
  <2>2. DOMAIN slices' \subseteq Nat \X Ids /\ slices' \in [DOMAIN slices' -> Seq(Line)]
    BY <1>3, <2>1, Emptying DEF Arm
  <2> QED
    BY <1>3, <2>1, <2>2 DEF Arm, TypeInv, history
<1>4. ASSUME NEW k \in Endings, Finalize(k[1], k[2]) PROVE TypeInv'
  <2>1. k[1] \in {"done", "skipped", "not_run"} /\ k[2] \in BOOLEAN
    BY AnswerTyped
  <2>2. at \in 1..Len(walk) /\ walk[at] \in Ids /\ key \in Nat \X Ids
    BY <1>4 DEF Finalize, TypeInv, PhaseInv, SliceDir
  <2>3. Attempt(k[1]) \in Row
    BY <2>1, <2>2 DEF Attempt, Row, TypeInv
  <2> QED
    BY <1>4, <2>1, <2>3 DEF Finalize, ForgetSlice, TypeInv, disk, reader, history
<1>5. CASE WalkEnds
  BY <1>5 DEF WalkEnds, TypeInv, disk, walking, window, reader, history
<1>6. CASE CtrlC
  BY <1>6 DEF CtrlC, TypeInv, disk, window, reader, history
<1>7. CASE RootLine
  <2>1. log \in Seq(Line) /\ [run |-> run, seq |-> frameSeq, cap |-> active] \in Line
    BY <1>7 DEF RootLine, LogInv, TypeInv, Line
  <2> QED
    BY <1>7, <2>1 DEF RootLine, TypeInv, walking, window, history
<1>8. CASE SliceLine
  <2>1. log \in Seq(Line) /\ Len(log) > 0 => Last(log) \in Line
    BY DEF Last
  <2>2. log \in Seq(Line) /\ Len(log) > 0
    BY <1>8 DEF SliceLine, LogInv, PhaseInv
  <2>3. /\ DOMAIN slices' = DOMAIN slices /\ slices' \in [DOMAIN slices' -> Seq(Line)]
        /\ count' \in Nat
    <3>1. count' = IF Tagging THEN count + 1 ELSE count
      BY <1>8, <2>1, <2>2, Slicing
    <3>2. DOMAIN slices' = DOMAIN slices /\ slices' \in [DOMAIN slices' -> Seq(Line)]
      BY <1>8, <2>1, <2>2, Slicing
    <3> QED
      BY <3>1, <3>2 DEF TypeInv
  <2> QED
    BY <1>8, <2>3 DEF SliceLine, TypeInv, walking, history
<1>9. CASE MarkNotRun
  <2>1. /\ at + 1 \in 1..Len(walk) /\ walk[at + 1] \in Ids
        /\ SliceDir(at + 1, walk[at + 1]) \in Nat \X Ids
    BY <1>9, NextEntry DEF MarkNotRun
  <2>2. DOMAIN slices' \subseteq Nat \X Ids /\ slices' \in [DOMAIN slices' -> Seq(Line)]
    BY <1>9, <2>1, Emptying DEF MarkNotRun
  <2>3. rows' \in Seq(Row)
    BY <1>9, <2>1 DEF MarkNotRun, Row, TypeInv
  <2> QED
    BY SMTT(30), <1>9, <2>1, <2>2, <2>3 DEF MarkNotRun, TypeInv, window, reader, history
<1>10. CASE CloseSlice
  BY <1>10 DEF CloseSlice, ForgetSlice, TypeInv, disk, walking, reader, history
<1>11. CASE WriteIndex
  BY <1>11 DEF WriteIndex, TypeInv, walking, window, reader, history
<1>12. CASE CloseRoot
  BY <1>12 DEF CloseRoot, TypeInv, walking, window, history
<1>13. CASE WriteMeta
  BY <1>13, Losing DEF WriteMeta, TypeInv
<1>14. CASE Kill
  <2>1. \A n \in 0..Len(rows) : SubSeq(rows, 1, n) \in Seq(Row)
    BY DEF TypeInv
  <2>2. index' \in Seq(Row) \union {NoFile}
    BY <1>14, <2>1 DEF Kill, TypeInv
  <2>3. MemoryLost /\ log' = log /\ slices' = slices /\ quit' = quit /\ raised' = raised
    BY <1>14 DEF Kill
  <2> QED
    BY <2>2, <2>3, Losing DEF TypeInv
<1>15. CASE UNCHANGED vars
  BY <1>15 DEF vars, TypeInv, disk, walking, window, reader, history
<1> QED
  BY <1>1, <1>2, <1>3, <1>4, <1>5, <1>6, <1>7, <1>8, <1>9, <1>10, <1>11, <1>12, <1>13, <1>14,
     <1>15 DEF Next, Walk

LEMMA Initially ==
  ASSUME Init
  PROVE  BaseInv
<1>1. TypeInv
  <2>1. /\ slices = [d \in {} |-> <<>>] /\ walk = <<>> /\ at = 0 /\ asked.ids = <<>> /\ rows = <<>>
        /\ log = NoFile /\ index = NoFile /\ count = 0 /\ start = 0 /\ frameSeq = 0 /\ run = 0
        /\ half = FALSE /\ quit = FALSE /\ raised = FALSE /\ reading = FALSE
        /\ active = NoCap /\ pc = "shell"
    BY DEF Init, Idle, NoWindow
  <2>2. DOMAIN slices = {} /\ slices \in [{} -> Seq(Line)]
    BY <2>1
  <2>3. DOMAIN slices \subseteq Nat \X Ids /\ slices \in [DOMAIN slices -> Seq(Line)]
    BY <2>2
  <2>4. walk \in Seq(Ids) /\ at \in 0..Len(walk) /\ asked.ids \in Seq(Ids) /\ rows \in Seq(Row)
    BY <2>1
  <2> QED
    BY <2>1, <2>3, <2>4 DEF TypeInv
<1>2. PhaseInv /\ LogInv /\ AskInv
  BY DEF Init, Idle, NoWindow, PhaseInv, LogInv, AskInv, Live
<1> QED
  BY <1>1, <1>2 DEF BaseInv

LEMMA PhaseStep ==
  ASSUME BaseInv, [Next]_vars
  PROVE  PhaseInv'
<1> USE DEF BaseInv, Live
<1>1. ASSUME NEW l \in Launches, Launch(l) PROVE PhaseInv'
  BY <1>1 DEF Launch, PhaseInv, disk, window, reader
<1>2. CASE Open
  BY <1>2 DEF Open, PhaseInv, walking, window, reader, history
<1>3. CASE Arm
  <2>1. at + 1 \in 1..at' /\ at' >= 1 /\ walk' = walk /\ at' = at + 1
    BY <1>3, NextEntry DEF Arm, TypeInv
  <2>2. key' = SliceDir(at', walk'[at']) /\ active' = walk'[at']
    BY <1>3, <2>1 DEF Arm
  <2> QED
    BY <1>3, <2>1, <2>2 DEF Arm, PhaseInv, history
<1>4. ASSUME NEW k \in Endings, Finalize(k[1], k[2]) PROVE PhaseInv'
  <2>1. k[2] \in BOOLEAN
    BY AnswerTyped
  <2> QED
    BY <1>4, <2>1 DEF Finalize, ForgetSlice, PhaseInv, disk, reader, history
<1>5. CASE WalkEnds
  BY <1>5 DEF WalkEnds, PhaseInv, disk, walking, window, reader, history
<1>6. CASE CtrlC
  <2>1. CASE pc = "armed"
    BY <1>6, <2>1 DEF CtrlC, PhaseInv, disk, window, reader, history
  <2>2. CASE pc = "select"
    BY <1>6, <2>2 DEF CtrlC, PhaseInv, disk, window, reader, history
  <2> QED
    BY <1>6, <2>1, <2>2 DEF CtrlC
<1>7. CASE RootLine
  BY <1>7 DEF RootLine, PhaseInv, walking, window, history
<1>8. CASE SliceLine
  BY <1>8 DEF SliceLine, PhaseInv, walking, history
<1>9. CASE MarkNotRun
  BY <1>9 DEF MarkNotRun, PhaseInv, TypeInv, window, reader, history
<1>10. CASE CloseSlice
  BY <1>10 DEF CloseSlice, ForgetSlice, PhaseInv, disk, walking, reader, history
<1>11. CASE WriteIndex
  BY <1>11 DEF WriteIndex, PhaseInv, walking, window, reader, history
<1>12. CASE CloseRoot
  BY <1>12 DEF CloseRoot, PhaseInv, walking, window, history
<1>13. CASE WriteMeta \/ Kill
  <2>1. MemoryLost /\ raised' = raised
    BY <1>13 DEF WriteMeta, Kill
  <2> QED
    BY <2>1, Losing DEF PhaseInv
<1>14. CASE UNCHANGED vars
  BY <1>14 DEF vars, PhaseInv, disk, walking, window, reader, history
<1> QED
  BY <1>1, <1>2, <1>3, <1>4, <1>5, <1>6, <1>7, <1>8, <1>9, <1>10, <1>11, <1>12, <1>13, <1>14
  DEF Next, Walk

(* LogInv: only RootLine writes to the root log, one numbered line at a    *)
(* time, and only Open begins it anew, with nothing numbered.              *)
LEMMA LogStep ==
  ASSUME BaseInv, [Next]_vars
  PROVE  LogInv'
<1> USE DEF BaseInv, Live
<1>1. ASSUME NEW l \in Launches, Launch(l) PROVE LogInv'
  <2>1. log' = log /\ run' = run + 1 /\ half' = half /\ pc' \in {"shell", "open"} /\ pc = "shell"
    BY <1>1 DEF Launch, disk, reader
  <2>2. half = FALSE
    BY <2>1 DEF PhaseInv
  <2>3. ASSUME log # NoFile, NEW n \in 1..Len(log)
        PROVE  log[n].run <= run + 1 /\ log[n].run < run + 1
    <3>1. log \in Seq(Line) /\ n \in DOMAIN log
      BY <2>3 DEF TypeInv
    <3>2. log[n].run \in Nat /\ run \in Nat
      <4>1. log[n] \in Line
        BY <3>1
      <4> QED
        BY <4>1 DEF Line, TypeInv
    <3>3. log[n].run <= run
      BY <2>3 DEF LogInv
    <3> QED
      BY <3>2, <3>3
  <2> QED
    BY <2>1, <2>2, <2>3 DEF LogInv
<1>2. CASE Open
  BY <1>2 DEF Open, LogInv, PhaseInv, walking, window, reader, history
<1>3. CASE Arm
  BY <1>3 DEF Arm, LogInv, history
<1>4. ASSUME NEW k \in Endings, Finalize(k[1], k[2]) PROVE LogInv'
  <2>1. pc' \in {"remaining", "select"} /\ log' = log /\ run' = run /\ half' = half
        /\ frameSeq' = frameSeq /\ half = FALSE /\ pc = "armed"
    BY <1>4 DEF Finalize, TypeInv, disk, reader, history
  <2> QED
    BY <2>1 DEF LogInv
<1>5. CASE WalkEnds \/ CtrlC \/ MarkNotRun
  BY <1>5 DEF WalkEnds, CtrlC, MarkNotRun, LogInv, disk, walking, window, reader, history
<1>6. CASE CloseSlice \/ WriteIndex
  BY <1>6 DEF CloseSlice, WriteIndex, LogInv, TypeInv, disk, walking, window, reader, history
<1>7. CASE RootLine
  <2> DEFINE line == [run |-> run, seq |-> frameSeq, cap |-> active]
  <2>1. log \in Seq(Line) /\ line \in Line /\ Live
    BY <1>7 DEF RootLine, LogInv, TypeInv, Line
  <2>2. log' = Append(log, line) /\ line.run = run /\ line.cap = active
    BY <1>7 DEF RootLine
  <2>3. /\ pc' = pc /\ run' = run /\ half' = TRUE /\ frameSeq' = frameSeq + 1
        /\ active' = active
    BY <1>7 DEF RootLine, window, history
  <2> HIDE DEF line
  <2>4. /\ log' \in Seq(Line) /\ Len(log') = Len(log) + 1 /\ Len(log) \in Nat
        /\ log'[Len(log) + 1] = line /\ \A n \in 1..Len(log) : log'[n] = log[n]
    BY <2>1, <2>2, OneEntryMore
  <2>5. \A n \in 1..Len(log') : log'[n].run = run
    <3> TAKE n \in 1..Len(log')
    <3>1. n \in 1..Len(log) \/ n = Len(log) + 1
      BY <2>4
    <3> QED
      BY <2>1, <2>2, <2>4, <3>1 DEF LogInv
  <2>6. run <= run /\ Len(log') > 0 /\ Len(log') = frameSeq'
    BY <2>1, <2>3, <2>4 DEF TypeInv, LogInv
  <2>7. pc # "open"
    BY <2>1
  <2> QED
    BY <2>2, <2>3, <2>4, <2>5, <2>6, <2>7 DEF LogInv
<1>8. CASE SliceLine \/ CloseRoot
  BY <1>8 DEF SliceLine, CloseRoot, LogInv, walking, window, history
<1>9. CASE WriteMeta \/ Kill
  <2>1. MemoryLost /\ log' = log
    BY <1>9 DEF WriteMeta, Kill
  <2> QED
    BY <2>1, Losing DEF LogInv
<1>10. CASE UNCHANGED vars
  BY <1>10 DEF vars, LogInv, disk, walking, window, reader, history
<1> QED
  BY <1>1, <1>2, <1>3, <1>4, <1>5, <1>6, <1>7, <1>8, <1>9, <1>10 DEF Next, Walk

LEMMA AskStep ==
  ASSUME BaseInv, [Next]_vars
  PROVE  AskInv'
<1> USE DEF BaseInv, Live
<1>1. ASSUME NEW l \in Launches, Launch(l) PROVE AskInv'
  <2>1. CASE Refused(l)
    BY <1>1, <2>1 DEF Launch, AskInv
  <2>2. CASE ~ Refused(l)
    <3>1. /\ pc' = "open" /\ outcome' = "none" /\ walk' = Selected(l) /\ skip' = l.skip
          /\ bus' = BuildWatchTransport(Bus(l)) /\ source' = DescribeSource(Bus(l))
          /\ asked' = [ids |-> IdsAsked(l), skip |-> l.skip, bus |-> BusAsked(l)]
      BY <1>1, <2>2 DEF Launch
    <3>2. Selected(l) = IdsAsked(l)
      BY <2>2, SelectedIsAsked DEF Refused
    <3>3. SameBus(BuildWatchTransport(Bus(l)), BusAsked(l))
      BY <2>2, BusIsAsked DEF Refused
    <3>4. SameBus(DescribeSource(Bus(l)), BusAsked(l))
      BY BusIsAsked
    <3> QED
      BY <3>1, <3>2, <3>3, <3>4 DEF AskInv
  <2> QED
    BY <2>1, <2>2
<1>2. CASE Open
  BY <1>2 DEF Open, AskInv, walking, history
<1>3. CASE Arm
  BY <1>3 DEF Arm, AskInv, history
<1>4. ASSUME NEW k \in Endings, Finalize(k[1], k[2]) PROVE AskInv'
  BY <1>4 DEF Finalize, AskInv, history
<1>5. CASE WalkEnds \/ CtrlC \/ MarkNotRun \/ RootLine
  BY <1>5 DEF WalkEnds, CtrlC, MarkNotRun, RootLine, AskInv, walking, history
<1>6. CASE CloseSlice \/ WriteIndex \/ CloseRoot \/ SliceLine
  BY <1>6 DEF CloseSlice, WriteIndex, CloseRoot, SliceLine, AskInv, walking, history
<1>7. CASE WriteMeta \/ Kill
  <2>1. MemoryLost
    BY <1>7 DEF WriteMeta, Kill
  <2> QED
    BY <2>1, Losing DEF AskInv
<1>8. CASE UNCHANGED vars
  BY <1>8 DEF vars, AskInv, walking, history
<1> QED
  BY <1>1, <1>2, <1>3, <1>4, <1>5, <1>6, <1>7, <1>8 DEF Next, Walk

\* In every run of a directory, whatever earlier runs left there: the fields have
\* their types, a slice is open only between arm_capability and disarm_and_index, the
\* root log has the lines _on_sequenced_frame numbered and no line of a later run,
\* and the ids and the bus a run walks with are those its flags select.
THEOREM BaseSafe == Spec => []BaseInv
<1>1. BaseInv /\ [Next]_vars => BaseInv'
  BY TypeStep, PhaseStep, LogStep, AskStep DEF BaseInv
<1> QED
  BY Initially, <1>1, PTL DEF Spec

(* A line is in a slice of its capability; those of the run in progress    *)
(* are in slices the walk has come to, none of them after the open one.    *)
Placed(d, line) ==
    /\ line.cap = d[2] /\ line.run <= run
    /\ line.run = run => /\ pc # "open" /\ (Live => d[1] <= at)
                         /\ key # NoSlice => d[1] <= key[1]

SliceInv ==
    /\ key # NoSlice => key \in DOMAIN slices
    /\ \A d \in DOMAIN slices : \A n \in 1..Len(slices[d]) : Placed(d, slices[d][n])

LEMMA LineOfSlice ==
  ASSUME TypeInv, NEW d \in DOMAIN slices, NEW n \in 1..Len(slices[d])
  PROVE  /\ slices[d] \in Seq(Line) /\ slices[d][n] \in Line
         /\ slices[d][n].run \in Nat /\ d[1] \in Nat /\ d[2] \in Ids
<1>1. slices[d] \in Seq(Line)
  BY DEF TypeInv
<1>2. slices[d][n] \in Line
  BY <1>1
<1>3. d \in Nat \X Ids
  BY DEF TypeInv
<1> QED
  BY <1>1, <1>2, <1>3 DEF Line

LEMMA StillPlaced ==
  ASSUME TypeInv, SliceInv, slices' = slices, run' = run, pc' = "open" => pc = "open",
         Live' => at' \in Nat /\ at <= at' /\ pc # "shell", key' \in {key, NoSlice}
  PROVE  SliceInv'
<1> SUFFICES ASSUME NEW d \in DOMAIN slices, NEW n \in 1..Len(slices[d])
             PROVE  Placed(d, slices[d][n])'
  BY DEF SliceInv
<1>1. Placed(d, slices[d][n])
  BY DEF SliceInv
<1>2. slices[d][n].run \in Nat /\ d[1] \in Nat /\ at \in Nat
  BY LineOfSlice DEF TypeInv
<1> QED
  BY <1>1, <1>2 DEF Placed, Live

(* A slice is opened, and emptied, for the next capability.                *)
LEMMA EmptiedPlaced ==
  ASSUME TypeInv, SliceInv, Live, at < Len(walk), at' = at + 1, pc' # "open", run' = run,
         NEW dir \in Nat \X Ids, dir[1] = at + 1, Emptied(dir), key' \in {key, NoSlice, dir}
  PROVE  SliceInv'
<1>1. /\ DOMAIN slices' = DOMAIN slices \union {dir} /\ slices'[dir] = <<>>
      /\ \A d \in DOMAIN slices : d # dir => slices'[d] = slices[d]
  BY Emptying
<1>2. ASSUME NEW d \in DOMAIN slices', NEW n \in 1..Len(slices'[d])
      PROVE  Placed(d, slices[d][n])'
  <2>1. d # dir /\ d \in DOMAIN slices /\ slices'[d] = slices[d]
    BY <1>1, <1>2
  <2>2. Placed(d, slices[d][n])
    BY <1>2, <2>1 DEF SliceInv
  <2>3. slices[d][n].run \in Nat /\ d[1] \in Nat /\ at \in Nat
    BY SMTT(30), <1>2, <2>1, LineOfSlice DEF TypeInv
  <2>4. slices[d][n].run = run => d[1] <= at + 1 /\ (key' # NoSlice => d[1] <= key'[1])
    BY <2>2, <2>3 DEF Placed
  <2> QED
    BY <2>1, <2>2, <2>4 DEF Placed
<1> QED
  BY <1>1, <1>2 DEF SliceInv

LEMMA SliceStep ==
  ASSUME BaseInv, SliceInv, [Next]_vars
  PROVE  SliceInv'
<1> USE DEF BaseInv
<1>1. ASSUME NEW l \in Launches, Launch(l) PROVE SliceInv'
  <2>1. slices' = slices /\ key' = key /\ run' = run + 1 /\ pc = "shell" /\ run \in Nat
    BY <1>1 DEF Launch, disk, window, TypeInv
  <2>2. key = NoSlice
    BY <2>1 DEF PhaseInv, Live
  <2> SUFFICES ASSUME NEW d \in DOMAIN slices, NEW n \in 1..Len(slices[d])
               PROVE  Placed(d, slices[d][n])'
    BY <2>1, <2>2 DEF SliceInv
  <2>3. Placed(d, slices[d][n]) /\ slices[d][n].run \in Nat
    BY LineOfSlice DEF SliceInv
  <2> QED
    BY <2>1, <2>3 DEF Placed
<1>2. CASE Open
  <2>1. slices' = slices /\ run' = run /\ key' = key /\ pc = "open" /\ pc' = "select" /\ at' = at
    BY <1>2 DEF Open, walking, window, history
  <2> QED
    BY <2>1, StillPlaced DEF TypeInv
<1>3. CASE Arm
  <2> DEFINE dir == SliceDir(at + 1, walk[at + 1])
  <2>1. dir \in Nat \X Ids /\ dir[1] = at + 1
    BY <1>3, NextEntry DEF Arm, SliceDir
  <2>2. /\ Live /\ at < Len(walk) /\ at' = at + 1 /\ pc' # "open" /\ run' = run
        /\ Emptied(dir) /\ key' = dir
    BY <1>3 DEF Arm, Live, history
  <2> HIDE DEF dir
  <2> QED
    BY <2>1, <2>2, EmptiedPlaced
<1>4. ASSUME NEW k \in Endings, Finalize(k[1], k[2]) PROVE SliceInv'
  <2>1. /\ slices' = slices /\ run' = run /\ key' = NoSlice /\ pc = "armed" /\ at' = at
        /\ pc' \in {"remaining", "select"}
    BY <1>4 DEF Finalize, ForgetSlice, disk, history
  <2> QED
    BY <2>1, StillPlaced DEF TypeInv
<1>5. CASE CtrlC
  <2>1. /\ slices' = slices /\ run' = run /\ key' = key /\ pc # "shell" /\ at' \in {at, at + 1}
        /\ pc' = "remaining"
    BY <1>5 DEF CtrlC, disk, window, history
  <2> QED
    BY <2>1, StillPlaced DEF TypeInv
<1>6. CASE WalkEnds \/ RootLine \/ CloseSlice \/ WriteIndex \/ CloseRoot
  <2>1. /\ slices' = slices /\ run' = run /\ key' \in {key, NoSlice} /\ pc # "shell" /\ at' = at
        /\ pc' # "open"
    BY <1>6 DEF WalkEnds, RootLine, CloseSlice, WriteIndex, CloseRoot, ForgetSlice, disk, walking,
       window, history
  <2> QED
    BY <2>1, StillPlaced DEF TypeInv
<1>7. CASE SliceLine
  <2>1. log \in Seq(Line) /\ Len(log) > 0 /\ Live /\ half = TRUE
    BY <1>7 DEF SliceLine, LogInv, PhaseInv
  <2>2. PICK line \in Line : line = Last(log) /\ line = log[Len(log)]
    BY <2>1 DEF Last
  <2>3. line.run = run /\ line.cap = active
    BY <2>1, <2>2 DEF LogInv
  <2>4. /\ run' = run /\ key' = key /\ pc' = pc /\ at' = at
    BY <1>7 DEF SliceLine, walking, history
  <2>5. CASE Tagging
    <3>1. PICK k \in 1..at : key = SliceDir(k, walk[k]) /\ active = walk[k]
      BY <2>5 DEF Tagging, PhaseInv
    <3>2. key[1] = k /\ key[2] = active /\ k <= at /\ k \in Nat /\ key \in DOMAIN slices
      BY <2>5, <3>1 DEF Tagging, SliceInv, SliceDir, TypeInv
    <3>3. /\ DOMAIN slices' = DOMAIN slices /\ slices'[key] = Append(slices[key], line)
          /\ \A d \in DOMAIN slices : d # key => slices'[d] = slices[d]
      BY <1>7, <2>2, <2>5, <3>2, Slicing
    <3>4. slices[key] \in Seq(Line)
      BY <3>2 DEF TypeInv
    <3>5. /\ Len(slices'[key]) = Len(slices[key]) + 1 /\ Len(slices[key]) \in Nat
          /\ slices'[key][Len(slices[key]) + 1] = line
          /\ \A n \in 1..Len(slices[key]) : slices'[key][n] = slices[key][n]
      BY <2>2, <3>3, <3>4, OneEntryMore
    <3>6. Placed(key, line)'
      BY <2>1, <2>3, <2>4, <3>2 DEF Placed, TypeInv, Live
    <3>7. ASSUME NEW d \in DOMAIN slices', NEW n \in 1..Len(slices'[d])
          PROVE  Placed(d, slices[d][n])'
      <4>1. CASE d = key /\ n = Len(slices[key]) + 1
        BY <2>4, <3>5, <3>6, <4>1 DEF Placed, Live
      <4>2. CASE ~ (d = key /\ n = Len(slices[key]) + 1)
        <5>1. d \in DOMAIN slices /\ n \in 1..Len(slices[d]) /\ slices'[d][n] = slices[d][n]
          BY <3>3, <3>5, <3>7, <4>2
        <5>2. Placed(d, slices[d][n])
          BY <5>1 DEF SliceInv
        <5> QED
          BY <2>4, <5>1, <5>2 DEF Placed, Live
      <4> QED
        BY <4>1, <4>2
    <3> QED
      BY <2>4, <3>2, <3>3, <3>7 DEF SliceInv
  <2>6. CASE ~ Tagging
    <3>1. slices' = slices
      BY <1>7, <2>2, <2>6, Slicing
    <3> QED
      BY <2>1, <2>4, <3>1, StillPlaced DEF TypeInv, Live
  <2> QED
    BY <2>5, <2>6
<1>8. CASE MarkNotRun
  <2> DEFINE dir == SliceDir(at + 1, walk[at + 1])
  <2>1. dir \in Nat \X Ids /\ dir[1] = at + 1
    BY <1>8, NextEntry DEF MarkNotRun, SliceDir
  <2>2. /\ Live /\ at < Len(walk) /\ at' = at + 1 /\ pc' # "open" /\ run' = run
        /\ Emptied(dir) /\ key' = key
    BY <1>8 DEF MarkNotRun, Live, window, history
  <2> HIDE DEF dir
  <2> QED
    BY <2>1, <2>2, EmptiedPlaced
<1>9. CASE WriteMeta \/ Kill
  <2>1. MemoryLost /\ slices' = slices
    BY <1>9 DEF WriteMeta, Kill
  <2> QED
    BY <2>1, Losing, StillPlaced DEF Live
<1>10. CASE UNCHANGED vars
  <2>1. slices' = slices /\ key' = key /\ run' = run /\ pc' = pc /\ at' = at
    BY <1>10 DEF vars, disk, walking, window, history
  <2> QED
    BY <2>1 DEF SliceInv, Placed, Live
<1> QED
  BY <1>1, <1>2, <1>3, <1>4, <1>5, <1>6, <1>7, <1>8, <1>9, <1>10 DEF Next, Walk

(* What an earlier run put in the slice of a capability this one does not  *)
(* walk stays there: the step of OthersKept.                               *)
LEMMA EmptyingKeeps ==
  ASSUME TypeInv, SliceInv, at < Len(walk), Emptied(SliceDir(at + 1, walk[at + 1]))
  PROVE  SlicesKept
<1> DEFINE dir == SliceDir(at + 1, walk[at + 1])
<1>1. dir \in Nat \X Ids /\ dir[2] = walk[at + 1] /\ walk[at + 1] \in Range(walk)
  BY NextEntry DEF SliceDir, Range, TypeInv
<1> HIDE DEF dir
<1>2. /\ DOMAIN slices' = DOMAIN slices \union {dir}
      /\ \A d \in DOMAIN slices : d # dir => slices'[d] = slices[d]
  BY <1>1, Emptying DEF dir
<1> SUFFICES ASSUME NEW d \in DOMAIN slices, NEW n \in 1..Len(slices[d]),
                    slices[d][n].cap \notin Range(walk)
             PROVE  d \in DOMAIN slices' /\ slices[d][n] \in Range(slices'[d])
  BY DEF SlicesKept
<1>3. d # dir
  BY <1>1 DEF SliceInv, Placed
<1>4. slices[d] \in Seq(Line)
  BY LineOfSlice
<1> QED
  BY <1>2, <1>3, <1>4 DEF Range

LEMMA OthersStep ==
  ASSUME BaseInv, SliceInv, [Next]_vars
  PROVE  [SlicesKept]_vars
<1> USE DEF BaseInv
<1>1. CASE Arm \/ MarkNotRun
  BY <1>1, EmptyingKeeps DEF Arm, MarkNotRun
<1>2. CASE SliceLine
  <2> DEFINE line == Last(log)
  <2>1. log \in Seq(Line) /\ Len(log) > 0
    BY <1>2 DEF SliceLine, LogInv, PhaseInv
  <2>2. line \in Line
    BY <2>1 DEF Last
  <2> HIDE DEF line
  <2>3. ASSUME NEW d \in DOMAIN slices, NEW n \in 1..Len(slices[d])
        PROVE  d \in DOMAIN slices' /\ slices[d][n] \in Range(slices'[d])
    <3>1. slices[d] \in Seq(Line)
      BY LineOfSlice
    <3>2. /\ DOMAIN slices' = DOMAIN slices
          /\ slices'[d] = slices[d] \/ slices'[d] = Append(slices[d], line)
      BY <1>2, <2>2, Slicing DEF line
    <3>3. n \in DOMAIN slices[d] /\ n \in DOMAIN Append(slices[d], line)
      BY <2>2, <3>1, OneEntryMore
    <3>4. Append(slices[d], line)[n] = slices[d][n]
      BY <2>2, <3>1, OneEntryMore
    <3> QED
      BY <3>2, <3>3, <3>4 DEF Range
  <2> QED
    BY <2>3 DEF SlicesKept
<1>3. CASE slices' = slices
  <2>1. ASSUME NEW d \in DOMAIN slices, NEW n \in 1..Len(slices[d])
        PROVE  slices[d][n] \in Range(slices[d])
    BY LineOfSlice DEF Range
  <2> QED
    BY <1>3, <2>1 DEF SlicesKept
<1>4. slices' = slices \/ Arm \/ MarkNotRun \/ SliceLine
  BY DEF Next, Walk, Launch, Open, Finalize, WalkEnds, CtrlC, RootLine, CloseSlice, WriteIndex,
     CloseRoot, WriteMeta, Kill, vars, disk
<1> QED
  BY <1>1, <1>2, <1>3, <1>4

\* Every line in capabilities/<seq>_<id>/frames.jsonl is tagged with that id, and this
\* run has written only to slices whose capability the walk has come to.
THEOREM SlicesSafe == Spec => []SliceInv
<1>1. Init => SliceInv
  BY DEF Init, NoWindow, SliceInv
<1>2. BaseInv /\ SliceInv /\ [Next]_vars => SliceInv'
  BY SliceStep
<1> QED
  BY <1>1, <1>2, BaseSafe, PTL DEF Spec

(* A line is tagged with a capability the walk has come to.                *)
Reached == {walk[k] : k \in 1..at} \union {NoCap}

TagInv == Live => active \in Reached /\ \A n \in 1..Len(log) : log[n].cap \in Reached

LEMMA TagStep ==
  ASSUME BaseInv, TagInv, [Next]_vars
  PROVE  TagInv'
<1> USE DEF BaseInv
<1>1. CASE pc' \in {"shell", "open"}
  BY <1>1 DEF TagInv, Live
<1>2. CASE Open
  BY <1>2 DEF Open, TagInv, Live, Reached, PhaseInv, walking, window
<1>3. CASE Arm
  <2>1. /\ Live /\ walk' = walk /\ at' = at + 1 /\ active' = walk'[at'] /\ log' = log
        /\ at \in Nat
    BY <1>3 DEF Arm, Live, TypeInv
  <2>2. Reached \subseteq Reached' /\ active' \in Reached'
    BY <2>1 DEF Reached
  <2> QED
    BY <2>1, <2>2 DEF TagInv
<1>4. CASE MarkNotRun
  <2>1. /\ Live /\ walk' = walk /\ at' = at + 1 /\ active' = active /\ log' = log
        /\ at \in Nat
    BY <1>4 DEF MarkNotRun, Live, TypeInv, window
  <2>2. Reached \subseteq Reached'
    BY <2>1 DEF Reached
  <2> QED
    BY <2>1, <2>2 DEF TagInv
<1>5. CASE CtrlC
  <2>1. /\ Live /\ walk' = walk /\ at' \in {at, at + 1} /\ active' = active /\ log' = log
        /\ at \in Nat
    BY <1>5 DEF CtrlC, Live, TypeInv, window, disk
  <2>2. Reached \subseteq Reached'
    BY <2>1 DEF Reached
  <2> QED
    BY <2>1, <2>2 DEF TagInv
<1>6. CASE RootLine
  <2> DEFINE line == [run |-> run, seq |-> frameSeq, cap |-> active]
  <2>1. /\ Live /\ walk' = walk /\ at' = at /\ active' = active
        /\ log' = Append(log, line)
    BY <1>6 DEF RootLine, Live, walking, window
  <2>2. line \in Line /\ log \in Seq(Line) /\ line.cap = active
    BY <2>1 DEF TypeInv, LogInv, Line
  <2> HIDE DEF line
  <2>3. Reached' = Reached
    BY <2>1 DEF Reached
  <2>4. \A n \in 1..Len(log') : (n \in 1..Len(log) /\ log'[n] = log[n]) \/ log'[n] = line
    BY <2>1, <2>2
  <2> QED
    BY <2>1, <2>2, <2>3, <2>4 DEF TagInv
<1>7. CASE \E k \in Endings : Finalize(k[1], k[2])
  BY <1>7 DEF Finalize, TagInv, Live, Reached, disk
<1>8. CASE WalkEnds \/ SliceLine \/ CloseSlice \/ WriteIndex \/ CloseRoot \/ UNCHANGED vars
  BY <1>8
  DEF WalkEnds, SliceLine, CloseSlice, WriteIndex, CloseRoot, TagInv, Live, Reached, disk,
      walking, window, vars
<1>9. ASSUME NEW l \in Launches, Launch(l) PROVE pc' \in {"shell", "open"}
  BY <1>9 DEF Launch
<1>10. CASE WriteMeta \/ Kill
  BY <1>1, <1>10, Losing DEF WriteMeta, Kill
<1> QED
  BY <1>1, <1>2, <1>3, <1>4, <1>5, <1>6, <1>7, <1>8, <1>9, <1>10 DEF Next, Walk

\* Arm truncates the slice of the capability it arms and no other, and Open the root log:
\* no step of a run takes a line of a capability it does not walk out of a slice, and the
\* root log has only lines of this run, of the capabilities it has come to.
THEOREM OtherSlicesSurvive == Spec => OthersKept
<1>1. BaseInv /\ SliceInv /\ [Next]_vars => [SlicesKept]_vars
  BY OthersStep
<1>2. Init => TagInv
  BY DEF Init, TagInv, Live
<1>3. BaseInv /\ TagInv /\ [Next]_vars => TagInv'
  BY TagStep
<1>4. BaseInv /\ TagInv => LogReplaced
  BY DEF BaseInv, TagInv, LogInv, Live, Reached, LogReplaced
<1>5. [SlicesKept]_vars /\ LogReplaced => [SlicesKept /\ LogReplaced]_vars
  OBVIOUS
<1> QED
  BY <1>1, <1>2, <1>3, <1>4, <1>5, BaseSafe, SlicesSafe, PTL DEF Spec, OthersKept

-----------------------------------------------------------------------------
(* The rows and the open window.                                           *)

LEMMA RangeKept ==
  ASSUME NEW S, NEW s \in Seq(S), NEW x \in S, NEW a \in Nat, NEW b \in Nat, b <= Len(s)
  PROVE  SubSeq(Append(s, x), a + 1, b) = SubSeq(s, a + 1, b)
OBVIOUS

LEMMA RangeGrown ==
  ASSUME NEW S, NEW s \in Seq(S), NEW a \in Nat, NEW b \in Nat, a <= b, b < Len(s)
  PROVE  SubSeq(s, a + 1, b + 1) = Append(SubSeq(s, a + 1, b), s[b + 1])
OBVIOUS

LEMMA RangeEmpty ==
  ASSUME NEW S, NEW s \in Seq(S), NEW a \in Nat
  PROVE  SubSeq(s, a + 1, a) = <<>>
OBVIOUS

(* The open slice is the range of the log that began when it was armed.    *)
WindowInv ==
    /\ key = NoSlice => count = 0
    /\ key # NoSlice => /\ start + count + (IF half = TRUE THEN 1 ELSE 0) = Len(log)
                        /\ slices[key] = SubSeq(log, start + 1, start + count)

LEMMA WindowStep ==
  ASSUME BaseInv, SliceInv, WindowInv, [Next]_vars
  PROVE  WindowInv'
<1> USE DEF BaseInv
<1>1. ASSUME key' = key, count' = count, key = NoSlice PROVE WindowInv'
  BY <1>1 DEF WindowInv
<1>2. ASSUME key' = NoSlice, count' = 0 PROVE WindowInv'
  BY <1>2 DEF WindowInv
<1>3. ASSUME key' = key, count' = count, start' = start, log' = log, half' = half,
             slices' = slices
      PROVE  WindowInv'
  BY <1>3 DEF WindowInv
<1>4. ASSUME NEW l \in Launches, Launch(l) PROVE WindowInv'
  BY <1>3, <1>4 DEF Launch, disk, window, reader
<1>5. CASE Open
  BY <1>1, <1>5 DEF Open, window, PhaseInv, Live
<1>6. CASE Arm
  <2> DEFINE dir == SliceDir(at + 1, walk[at + 1])
  <2>1. dir \in Nat \X Ids /\ dir # NoSlice
    BY <1>6, NextEntry, NotNoSlice DEF Arm
  <2>2. /\ Emptied(dir) /\ key' = dir /\ count' = 0 /\ start' = frameSeq /\ log' = log
        /\ half' = half /\ half = FALSE /\ Live
    BY <1>6 DEF Arm, Live, TypeInv
  <2> HIDE DEF dir
  <2>3. slices'[dir] = <<>>
    BY <2>1, <2>2, Emptying
  <2>4. log \in Seq(Line) /\ Len(log) = frameSeq /\ frameSeq \in Nat
    BY <2>2 DEF LogInv, TypeInv
  <2>5. SubSeq(log, frameSeq + 1, frameSeq + 0) = <<>>
    BY <2>4, RangeEmpty
  <2> QED
    BY <2>1, <2>2, <2>3, <2>4, <2>5 DEF WindowInv
<1>7. ASSUME NEW k \in Endings, Finalize(k[1], k[2]) PROVE WindowInv'
  BY <1>2, <1>7 DEF Finalize, ForgetSlice
<1>8. CASE WalkEnds \/ CtrlC \/ WriteIndex
  BY <1>3, <1>8 DEF WalkEnds, CtrlC, WriteIndex, disk, window, reader
<1>9. CASE RootLine
  <2>1. PICK line \in Line : log' = Append(log, line)
    BY <1>9 DEF RootLine, Line, TypeInv
  <2>2. /\ half = FALSE /\ half' = TRUE /\ key' = key /\ count' = count /\ start' = start
        /\ slices' = slices /\ Live
    BY <1>9 DEF RootLine, window, TypeInv, Live
  <2>3. log \in Seq(Line) /\ count \in Nat /\ start \in Nat
    BY <2>2 DEF LogInv, TypeInv
  <2>4. Len(log') = Len(log) + 1 /\ Len(log) \in Nat
    BY <2>1, <2>3, OneEntryMore
  <2>5. CASE key # NoSlice
    <3>1. start + count = Len(log) /\ slices[key] = SubSeq(log, start + 1, start + count)
      BY <2>2, <2>3, <2>5 DEF WindowInv
    <3>2. SubSeq(log', start + 1, start + count) = SubSeq(log, start + 1, start + count)
      BY <2>1, <2>3, <3>1, RangeKept
    <3> QED
      BY <2>2, <2>3, <2>4, <2>5, <3>1, <3>2 DEF WindowInv
  <2> QED
    BY <1>1, <2>2, <2>5
<1>10. CASE SliceLine
  <2>1. /\ half = TRUE /\ half' = FALSE /\ log' = log /\ key' = key /\ start' = start
        /\ active' = active
    BY <1>10 DEF SliceLine
  <2>2. /\ log \in Seq(Line) /\ Len(log) > 0 /\ count \in Nat /\ start \in Nat
    BY <2>1 DEF LogInv, TypeInv, PhaseInv
  <2>3. PICK line \in Line : line = Last(log) /\ line = log[Len(log)]
    BY <2>2 DEF Last
  <2>4. CASE key # NoSlice
    <3>1. Tagging /\ key \in DOMAIN slices
      <4>1. PICK k \in 1..at : active = walk[k]
        BY <2>4 DEF PhaseInv
      <4>2. active \in Ids
        BY <4>1 DEF TypeInv
      <4> QED
        BY <2>4, <4>2, LaunchAssumption DEF Tagging, SliceInv
    <3>2. slices'[key] = Append(slices[key], line) /\ count' = count + 1
      BY <1>10, <2>3, <3>1, Slicing
    <3>3. start + count + 1 = Len(log) /\ slices[key] = SubSeq(log, start + 1, start + count)
      BY <2>1, <2>4 DEF WindowInv
    <3>4. SubSeq(log, start + 1, start + count + 1)
              = Append(SubSeq(log, start + 1, start + count), log[start + count + 1])
      <4> DEFINE b == start + count
      <4>1. b \in Nat /\ start <= b /\ b < Len(log)
        BY <2>2, <3>3
      <4> HIDE DEF b
      <4>2. SubSeq(log, start + 1, b + 1) = Append(SubSeq(log, start + 1, b), log[b + 1])
        BY <2>2, <4>1, RangeGrown
      <4> QED
        BY <4>2 DEF b
    <3>5. start + (count + 1) = start + count + 1
      BY <2>2
    <3>6. slices'[key] = SubSeq(log, start + 1, start + (count + 1))
      BY <2>3, <3>2, <3>3, <3>4, <3>5
    <3>7. start' + count' + (IF half' = TRUE THEN 1 ELSE 0) = Len(log')
      BY <2>1, <2>2, <3>2, <3>3
    <3>8. slices'[key'] = SubSeq(log', start' + 1, start' + count')
      BY <2>1, <3>2, <3>6
    <3> QED
      BY <2>1, <2>4, <3>7, <3>8 DEF WindowInv
  <2>5. CASE key = NoSlice
    <3>1. ~ Tagging
      BY <2>5 DEF Tagging
    <3>2. count' = count
      BY <1>10, <2>3, <3>1, Slicing
    <3> QED
      BY <1>1, <2>1, <2>5, <3>2
  <2> QED
    BY <2>4, <2>5
<1>11. CASE MarkNotRun
  <2> DEFINE dir == SliceDir(at + 1, walk[at + 1])
  <2>1. dir \in Nat \X Ids /\ dir[1] = at + 1 /\ at \in Nat
    BY <1>11, NextEntry DEF MarkNotRun, SliceDir
  <2>2. /\ Emptied(dir) /\ key' = key /\ count' = count /\ start' = start /\ log' = log
        /\ half' = half
    BY <1>11 DEF MarkNotRun, window, reader
  <2> HIDE DEF dir
  <2>3. CASE key # NoSlice
    <3>1. PICK k \in 1..at : key = SliceDir(k, walk[k])
      BY <2>3 DEF PhaseInv
    <3>2. key[1] \in Nat /\ key[1] <= at
      BY <2>1, <3>1 DEF SliceDir
    <3>3. key \in DOMAIN slices /\ key # dir
      BY <2>1, <2>3, <3>2 DEF SliceInv
    <3>4. slices'[key] = slices[key]
      BY <2>1, <2>2, <3>3, Emptying
    <3> QED
      BY <2>2, <2>3, <3>4 DEF WindowInv
  <2> QED
    BY <1>1, <2>2, <2>3
<1>12. CASE CloseSlice
  BY <1>2, <1>12 DEF CloseSlice, ForgetSlice
<1>13. CASE CloseRoot
  BY <1>1, <1>13 DEF CloseRoot, window, PhaseInv
<1>14. CASE WriteMeta \/ Kill
  BY <1>2, <1>14, Losing DEF WriteMeta, Kill
<1>15. CASE UNCHANGED vars
  BY <1>3, <1>15 DEF vars, disk, window, reader
<1> QED
  BY <1>4, <1>5, <1>6, <1>7, <1>8, <1>9, <1>10, <1>11, <1>12, <1>13, <1>14, <1>15 DEF Next, Walk

(* A row is of a capability the walk has passed; its slice is the range of *)
(* the log that it gives.                                                  *)
Recorded(row) ==
    /\ row.seq \in 1..at /\ row.id = walk[row.seq] /\ row.dir = SliceDir(row.seq, row.id)
    /\ row.dir \in DOMAIN slices /\ row.dir # key
    /\ row.start + row.frames <= Len(log)
    /\ slices[row.dir] = SubSeq(log, row.start + 1, row.start + row.frames)
    /\ row.id \in skip => row.status \in {"skipped", "not_run"}
    /\ row.status = "not_run" => quit = TRUE \/ raised = TRUE

RowInv == \A k \in 1..Len(rows) : Recorded(rows[k])

(* What does not touch the slice of a row keeps the row true.              *)
LEMMA StillRecorded ==
  ASSUME TypeInv, NEW row \in Row, Recorded(row), log \in Seq(Line),
         at' \in Nat, at <= at', walk' = walk, skip' = skip,
         row.dir \in DOMAIN slices' /\ slices'[row.dir] = slices[row.dir], key' # row.dir,
         log' = log \/ \E line \in Line : log' = Append(log, line),
         quit = TRUE \/ raised = TRUE => quit' = TRUE \/ raised' = TRUE
  PROVE  Recorded(row)'
<1>1. /\ row.start \in Nat /\ row.frames \in Nat /\ row.start + row.frames \in Nat
      /\ row.start + row.frames <= Len(log) /\ Len(log) \in Nat
  <2>1. row.start \in Nat /\ row.frames \in Nat
    BY DEF Row
  <2>2. row.start + row.frames <= Len(log)
    BY DEF Recorded
  <2> QED
    BY <2>1, <2>2
<1>2. row.seq \in 1..at'
  BY SMTT(30) DEF Recorded, TypeInv
<1>3. /\ row.start + row.frames <= Len(log')
      /\ SubSeq(log', row.start + 1, row.start + row.frames)
            = SubSeq(log, row.start + 1, row.start + row.frames)
  <2>1. CASE log' = log
    BY <1>1, <2>1
  <2>2. ASSUME NEW line \in Line, log' = Append(log, line)
        PROVE  /\ row.start + row.frames <= Len(log')
               /\ SubSeq(log', row.start + 1, row.start + row.frames)
                     = SubSeq(log, row.start + 1, row.start + row.frames)
    <3>1. Len(log') = Len(log) + 1
      BY <2>2, OneEntryMore
    <3>2. row.start + row.frames <= Len(log')
      BY <1>1, <3>1
    <3>3. SubSeq(Append(log, line), row.start + 1, row.start + row.frames)
             = SubSeq(log, row.start + 1, row.start + row.frames)
      <4> DEFINE a == row.start
                 b == row.start + row.frames
      <4>1. a \in Nat /\ b \in Nat /\ b <= Len(log)
        BY <1>1
      <4> HIDE DEF a, b
      <4>2. SubSeq(Append(log, line), a + 1, b) = SubSeq(log, a + 1, b)
        BY <4>1, RangeKept
      <4> QED
        BY <4>2 DEF a, b
    <3> QED
      BY <2>2, <3>2, <3>3
  <2> QED
    BY <2>1, <2>2
<1> QED
  BY <1>2, <1>3 DEF Recorded

LEMMA RowOfRows ==
  ASSUME TypeInv, NEW k \in 1..Len(rows)
  PROVE  rows[k] \in Row
BY DEF TypeInv

(* The slices of the rows stay when that of the next capability is emptied.*)
LEMMA EmptyingKeepsRow ==
  ASSUME TypeInv, at < Len(walk), Emptied(SliceDir(at + 1, walk[at + 1])),
         NEW row \in Row, Recorded(row)
  PROVE  /\ row.dir \in DOMAIN slices' /\ slices'[row.dir] = slices[row.dir]
         /\ row.dir # SliceDir(at + 1, walk[at + 1])
<1> DEFINE dir == SliceDir(at + 1, walk[at + 1])
<1>1. dir \in Nat \X Ids /\ dir[1] = at + 1 /\ at \in Nat
  BY NextEntry DEF SliceDir
<1>2. row.dir # dir /\ row.dir \in DOMAIN slices
  <2>1. row.dir[1] = row.seq /\ row.seq \in 1..at
    BY DEF Recorded, SliceDir
  <2> HIDE DEF dir
  <2> QED
    BY <1>1, <2>1 DEF Recorded
<1> HIDE DEF dir
<1> QED
  BY <1>1, <1>2, Emptying DEF dir

LEMMA RowStep ==
  ASSUME BaseInv, SliceInv, WindowInv, RowInv, [Next]_vars
  PROVE  RowInv'
<1> USE DEF BaseInv
<1>1. ASSUME rows' = <<>> PROVE RowInv'
  BY <1>1 DEF RowInv
<1>2. ASSUME rows' = rows, Live, at' \in Nat, at <= at', walk' = walk, skip' = skip,
             slices' = slices, key' \in {key, NoSlice},
             log' = log \/ \E line \in Line : log' = Append(log, line),
             quit = TRUE \/ raised = TRUE => quit' = TRUE \/ raised' = TRUE
      PROVE  RowInv'
  <2> SUFFICES ASSUME NEW k \in 1..Len(rows) PROVE Recorded(rows[k])'
    BY <1>2 DEF RowInv
  <2>1. PICK row \in Row : row = rows[k]
    BY RowOfRows
  <2>2. Recorded(row) /\ row.dir # NoSlice
    BY <2>1, NotNoSlice DEF RowInv, Recorded
  <2>3. key' # row.dir /\ row.dir \in DOMAIN slices
    BY <1>2, <2>2 DEF Recorded
  <2>4. log \in Seq(Line)
    BY <1>2 DEF LogInv
  <2>5. Recorded(row)'
    BY <1>2, <2>2, <2>3, <2>4, StillRecorded
  <2> QED
    BY <1>2, <2>1, <2>5 DEF Recorded
<1>3. ASSUME NEW l \in Launches, Launch(l) PROVE RowInv'
  BY <1>1, <1>3 DEF Launch, PhaseInv, Live
<1>4. CASE Open
  BY <1>1, <1>4 DEF Open, PhaseInv, Live
<1>5. CASE Arm
  <2> SUFFICES ASSUME NEW k \in 1..Len(rows) PROVE Recorded(rows[k])'
    BY <1>5 DEF RowInv, Arm
  <2>1. PICK row \in Row : row = rows[k]
    BY RowOfRows
  <2>2. Recorded(row)
    BY <2>1 DEF RowInv
  <2>3. /\ at < Len(walk) /\ at' = at + 1 /\ Emptied(SliceDir(at + 1, walk[at + 1]))
        /\ key' = SliceDir(at + 1, walk[at + 1]) /\ rows' = rows /\ walk' = walk
        /\ skip' = skip /\ log' = log /\ quit' = quit /\ raised' = raised /\ Live
    BY <1>5 DEF Arm, Live
  <2>4. /\ row.dir \in DOMAIN slices' /\ slices'[row.dir] = slices[row.dir]
        /\ row.dir # key'
    BY <2>2, <2>3, EmptyingKeepsRow
  <2>5. log \in Seq(Line) /\ at' \in Nat /\ at <= at'
    BY <2>3 DEF LogInv, TypeInv
  <2>6. Recorded(row)'
    BY <2>2, <2>3, <2>4, <2>5, StillRecorded
  <2> QED
    BY <2>1, <2>3, <2>6 DEF Recorded
<1>6. ASSUME NEW a \in Endings, Finalize(a[1], a[2]) PROVE RowInv'
  <2>1. a[1] \in {"done", "skipped", "not_run"} /\ (a[1] = "not_run" => a[2] = TRUE)
    BY AnswerTyped
  <2>2. /\ pc = "armed" /\ half = FALSE /\ (walk[at] \in skip => a[1] = "skipped")
        /\ rows' = Append(rows, Attempt(a[1])) /\ key' = NoSlice /\ quit' = a[2]
        /\ at' = at /\ walk' = walk /\ skip' = skip /\ raised' = raised /\ log' = log
        /\ slices' = slices
    BY <1>6, AnswerTyped DEF Finalize, ForgetSlice, disk, reader, TypeInv
  <2>3. /\ at \in 1..Len(walk) /\ at \in Nat /\ key = SliceDir(at, walk[at])
        /\ walk[at] \in Ids /\ key # NoSlice /\ Live /\ quit = FALSE /\ raised = FALSE
    BY <2>2, NotNoSlice DEF PhaseInv, TypeInv, Live
  <2>4. /\ key \in DOMAIN slices /\ start + count + 0 = Len(log)
        /\ slices[key] = SubSeq(log, start + 1, start + count)
    BY <2>2, <2>3 DEF SliceInv, WindowInv
  <2>5. count \in Nat /\ start \in Nat /\ key \in Nat \X Ids
    BY <2>4 DEF TypeInv
  <2>6. PICK new \in Row : /\ rows' = Append(rows, new) /\ new = Attempt(a[1])
    BY <2>1, <2>2, <2>3, <2>5 DEF Attempt, Row
  <2>7. /\ new.seq = at /\ new.id = walk[at] /\ new.status = a[1] /\ new.frames = count
        /\ new.dir = key /\ new.start = start
    BY <2>6 DEF Attempt
  <2>8. Recorded(new)'
    <3>1. new.start + new.frames <= Len(log)
      BY <2>4, <2>5, <2>7
    <3>2. new.seq \in 1..at /\ new.dir # NoSlice
      BY <2>3, <2>7
    <3>3. slices[new.dir] = SubSeq(log, new.start + 1, new.start + new.frames)
      BY <2>4, <2>7
    <3>4. /\ new.id \in skip => new.status \in {"skipped", "not_run"}
          /\ new.status = "not_run" => quit' = TRUE
      BY <2>1, <2>2, <2>7
    <3> QED
      BY <2>2, <2>3, <2>4, <2>7, <3>1, <3>2, <3>3, <3>4 DEF Recorded
  <2>9. ASSUME NEW k \in 1..Len(rows) PROVE Recorded(rows[k])'
    <3>1. PICK row \in Row : row = rows[k]
      BY RowOfRows
    <3>2. Recorded(row) /\ row.dir # NoSlice
      BY <3>1, NotNoSlice DEF RowInv, Recorded
    <3>3. row.dir \in DOMAIN slices /\ log \in Seq(Line) /\ at <= at
      BY <2>3, <3>2 DEF Recorded, LogInv
    <3>4. Recorded(row)'
      BY <2>2, <2>3, <3>2, <3>3, StillRecorded
    <3>5. rows'[k] = rows[k]
      BY <2>6, OneEntryMore DEF TypeInv
    <3> QED
      BY <3>1, <3>4, <3>5 DEF Recorded
  <2> QED
    BY <2>6, <2>8, <2>9 DEF RowInv, TypeInv
<1>7. CASE WalkEnds \/ WriteIndex \/ CloseSlice \/ CloseRoot \/ CtrlC
  <2>1. /\ rows' = rows /\ walk' = walk /\ skip' = skip /\ slices' = slices
        /\ key' \in {key, NoSlice} /\ log' = log /\ Live /\ at' \in {at, at + 1}
        /\ quit' = quit
    BY <1>7 DEF WalkEnds, CtrlC, WriteIndex, CloseSlice, CloseRoot, ForgetSlice, disk, walking,
       window, reader, Live
  <2>2. raised = TRUE => raised' = TRUE
    BY <1>7 DEF WalkEnds, CtrlC, WriteIndex, CloseSlice, CloseRoot, walking
  <2>3. at' \in Nat /\ at <= at'
    BY <2>1 DEF TypeInv
  <2> QED
    BY <1>2, <2>1, <2>2, <2>3
<1>8. CASE RootLine
  <2>1. PICK line \in Line : log' = Append(log, line)
    BY <1>8 DEF RootLine, Line, TypeInv
  <2>2. /\ rows' = rows /\ walk' = walk /\ skip' = skip /\ slices' = slices /\ key' = key
        /\ Live /\ at' = at /\ quit' = quit /\ raised' = raised
    BY <1>8 DEF RootLine, walking, window, Live
  <2>3. at' \in Nat /\ at <= at'
    BY <2>2 DEF TypeInv
  <2> QED
    BY <1>2, <2>1, <2>2, <2>3
<1>9. CASE SliceLine
  <2>1. /\ log' = log /\ key' = key /\ rows' = rows /\ walk' = walk /\ skip' = skip
        /\ at' = at /\ quit' = quit /\ raised' = raised
    BY <1>9 DEF SliceLine, walking
  <2>2. log \in Seq(Line) /\ Len(log) > 0 /\ Live
    BY <1>9 DEF SliceLine, LogInv, PhaseInv
  <2>3. PICK line \in Line : line = Last(log)
    BY <2>2 DEF Last
  <2> SUFFICES ASSUME NEW k \in 1..Len(rows) PROVE Recorded(rows[k])'
    BY <2>1 DEF RowInv
  <2>4. PICK row \in Row : row = rows[k]
    BY RowOfRows
  <2>5. Recorded(row)
    BY <2>4 DEF RowInv
  <2>6. /\ row.dir \in DOMAIN slices' /\ slices'[row.dir] = slices[row.dir] /\ key' # row.dir
    BY <1>9, <2>1, <2>3, <2>5, Slicing DEF Recorded
  <2>7. at' \in Nat /\ at <= at'
    BY <2>1 DEF TypeInv
  <2>8. Recorded(row)'
    BY <2>1, <2>2, <2>5, <2>6, <2>7, StillRecorded
  <2> QED
    BY <2>1, <2>4, <2>8 DEF Recorded
<1>10. CASE MarkNotRun
  <2> DEFINE dir == SliceDir(at + 1, walk[at + 1])
  <2>1. /\ pc = "remaining" /\ at < Len(walk) /\ at' = at + 1 /\ Emptied(dir) /\ key' = key
        /\ walk' = walk /\ skip' = skip /\ log' = log /\ quit' = quit /\ raised' = raised /\ Live
    BY <1>10 DEF MarkNotRun, window, Live
  <2>2. /\ at + 1 \in 1..Len(walk) /\ walk[at + 1] \in Ids /\ at \in Nat
        /\ dir \in Nat \X Ids /\ dir[1] = at + 1
    BY <2>1, NextEntry DEF SliceDir
  <2>3. PICK new \in Row : /\ rows' = Append(rows, new) /\ new.seq = at + 1 /\ new.frames = 0
                          /\ new.id = walk[at + 1] /\ new.status = "not_run"
                          /\ new.dir = dir /\ new.start = 0
    <3> DEFINE r == [seq |-> at + 1, id |-> walk[at + 1], status |-> "not_run",
                     frames |-> 0, dir |-> dir, start |-> 0]
    <3>1. r \in Row
      BY <2>2 DEF Row
    <3>2. rows' = Append(rows, r)
      BY <1>10 DEF MarkNotRun
    <3> QED
      BY <3>1, <3>2
  <2>4. key # dir
    <3>1. CASE key = NoSlice
      BY <3>1, NotNoSlice
    <3>2. CASE key # NoSlice
      <4>1. PICK k \in 1..at : key = SliceDir(k, walk[k])
        BY <3>2 DEF PhaseInv
      <4>2. key[1] = k /\ k <= at /\ k \in Nat
        BY <2>2, <4>1 DEF SliceDir
      <4> QED
        BY <2>2, <4>2
    <3> QED
      BY <3>1, <3>2
  <2>5. log \in Seq(Line) /\ (quit = TRUE \/ raised = TRUE)
    BY <2>1 DEF LogInv, PhaseInv
  <2>6. Recorded(new)'
    <3>1. dir \in DOMAIN slices' /\ slices'[dir] = <<>>
      <4> HIDE DEF dir
      <4> QED
        BY <2>1, <2>2, Emptying
    <3>2. SubSeq(log, 0 + 1, 0 + 0) = <<>> /\ 0 + 0 <= Len(log)
      BY <2>5, RangeEmpty
    <3>3. new.seq \in 1..at'
      BY <2>1, <2>2, <2>3
    <3> QED
      BY <2>1, <2>3, <2>4, <2>5, <3>1, <3>2, <3>3 DEF Recorded
  <2>7. ASSUME NEW k \in 1..Len(rows) PROVE Recorded(rows[k])'
    <3>1. PICK row \in Row : row = rows[k]
      BY RowOfRows
    <3>2. Recorded(row)
      BY <3>1 DEF RowInv
    <3>3. /\ row.dir \in DOMAIN slices' /\ slices'[row.dir] = slices[row.dir]
          /\ row.dir # key'
      BY <2>1, <3>2, EmptyingKeepsRow DEF Recorded
    <3>4. at' \in Nat /\ at <= at'
      BY <2>1, <2>2
    <3>5. Recorded(row)'
      BY <2>1, <2>5, <3>2, <3>3, <3>4, StillRecorded
    <3>6. rows'[k] = rows[k]
      BY <2>3, OneEntryMore DEF TypeInv
    <3> QED
      BY <3>1, <3>5, <3>6 DEF Recorded
  <2> QED
    BY <2>3, <2>6, <2>7 DEF RowInv, TypeInv
<1>11. CASE WriteMeta \/ Kill
  BY <1>1, <1>11, Losing DEF WriteMeta, Kill
<1>12. CASE UNCHANGED vars
  BY <1>12 DEF vars, disk, walking, window, reader, RowInv, Recorded
<1> QED
  BY <1>3, <1>4, <1>5, <1>6, <1>7, <1>8, <1>9, <1>10, <1>11, <1>12 DEF Next, Walk

(* The rows are those of the capabilities passed, in the order of the      *)
(* walk; after a Ctrl-C, of all but the one it interrupted.                *)
OrderInv ==
    Live => IF raised = TRUE
            THEN /\ Len(rows) + 1 = at
                 /\ \E lost \in 1..at : \A k \in 1..Len(rows) :
                        rows[k].seq = IF k < lost THEN k ELSE k + 1
            ELSE /\ Len(rows) + (IF pc = "armed" THEN 1 ELSE 0) = at
                 /\ \A k \in 1..Len(rows) : rows[k].seq = k

LEMMA OrderStep ==
  ASSUME BaseInv, OrderInv, [Next]_vars
  PROVE  OrderInv'
<1> USE DEF BaseInv
<1>1. ASSUME rows' = rows, at' = at, raised' = raised, pc' = "armed" <=> pc = "armed", Live' => Live
      PROVE  OrderInv'
  BY <1>1 DEF OrderInv
<1>2. Len(rows) \in Nat /\ at \in Nat /\ rows \in Seq(Row)
  BY DEF TypeInv
<1>3. ASSUME NEW l \in Launches, Launch(l) PROVE OrderInv'
  BY <1>3 DEF Launch, OrderInv, Live
<1>4. CASE Open
  <2>1. rows' = <<>> /\ at' = 0 /\ raised' = FALSE /\ pc' = "select"
    BY <1>4 DEF Open, PhaseInv, Live, walking
  <2> QED
    BY <2>1 DEF OrderInv
<1>5. CASE Arm
  <2>1. rows' = rows /\ at' = at + 1 /\ raised' = raised /\ raised = FALSE /\ pc' = "armed"
        /\ pc = "select"
    BY <1>5 DEF Arm, PhaseInv
  <2> QED
    BY <1>2, <2>1 DEF OrderInv, Live
<1>6. ASSUME NEW a \in Endings, Finalize(a[1], a[2]) PROVE OrderInv'
  <2>1. /\ rows' = Append(rows, Attempt(a[1])) /\ at' = at /\ raised' = raised /\ raised = FALSE
        /\ pc = "armed" /\ pc' # "armed"
    BY <1>6 DEF Finalize, PhaseInv
  <2>2. Attempt(a[1]) \in Row /\ Attempt(a[1]).seq = at
    <3>1. a[1] \in {"done", "skipped", "not_run"}
      BY AnswerTyped
    <3>2. at \in 1..Len(walk) /\ walk[at] \in Ids /\ key \in Nat \X Ids
      BY <2>1 DEF TypeInv, PhaseInv, SliceDir
    <3> QED
      BY <1>2, <3>1, <3>2 DEF Attempt, Row, TypeInv
  <2>3. Len(rows) + 1 = at /\ \A k \in 1..Len(rows) : rows[k].seq = k
    BY <2>1 DEF OrderInv, Live
  <2>4. /\ Len(rows') = Len(rows) + 1 /\ rows'[Len(rows) + 1] = Attempt(a[1])
        /\ \A k \in 1..Len(rows) : rows'[k] = rows[k]
    BY <1>2, <2>1, <2>2, OneEntryMore
  <2>5. \A k \in 1..Len(rows') : rows'[k].seq = k
    <3> TAKE k \in 1..Len(rows')
    <3>1. k \in 1..Len(rows) \/ k = Len(rows) + 1
      BY <1>2, <2>4
    <3> QED
      BY <2>2, <2>3, <2>4, <3>1
  <2> QED
    BY <1>2, <2>1, <2>3, <2>4, <2>5 DEF OrderInv
<1>7. CASE WalkEnds \/ WriteIndex \/ CloseSlice \/ CloseRoot \/ RootLine \/ SliceLine
  BY <1>1, <1>7 DEF WalkEnds, WriteIndex, CloseSlice, CloseRoot, RootLine, SliceLine, walking, Live
<1>8. CASE CtrlC
  <2>1. rows' = rows /\ raised' = TRUE /\ raised = FALSE
    BY <1>8 DEF CtrlC, PhaseInv
  <2>2. Len(rows) + 1 = at' /\ \A k \in 1..Len(rows) : rows[k].seq = k
    BY <1>2, <1>8, <2>1 DEF CtrlC, OrderInv, Live
  <2>3. at' \in 1..at' /\ \A k \in 1..Len(rows) : k < at'
    BY <1>2, <2>2
  <2> QED
    BY <2>1, <2>2, <2>3 DEF OrderInv
<1>9. CASE MarkNotRun
  <2>1. PICK new \in Row : rows' = Append(rows, new) /\ new.seq = at + 1
    <3> DEFINE r == [seq |-> at + 1, id |-> walk[at + 1], status |-> "not_run", frames |-> 0,
                     dir |-> SliceDir(at + 1, walk[at + 1]), start |-> 0]
    <3>1. r \in Row
      BY <1>2, <1>9, NextEntry DEF MarkNotRun, Row
    <3>2. rows' = Append(rows, r)
      BY <1>9 DEF MarkNotRun
    <3> QED
      BY <3>1, <3>2
  <2>2. at' = at + 1 /\ raised' = raised /\ pc = "remaining" /\ pc' = pc
    BY <1>9 DEF MarkNotRun
  <2>3. /\ Len(rows') = Len(rows) + 1 /\ rows'[Len(rows) + 1] = new
        /\ \A k \in 1..Len(rows) : rows'[k] = rows[k]
    BY <1>2, <2>1, OneEntryMore
  <2>4. \A k \in 1..Len(rows') : k \in 1..Len(rows) \/ k = Len(rows) + 1
    BY <1>2, <2>3
  <2>5. CASE raised = TRUE
    <3>1. Len(rows) + 1 = at
      BY <2>2, <2>5 DEF OrderInv, Live
    <3>2. PICK lost \in 1..at : \A k \in 1..Len(rows) : rows[k].seq = IF k < lost THEN k ELSE k + 1
      BY <2>2, <2>5 DEF OrderInv, Live
    <3>3. ASSUME NEW k \in 1..Len(rows')
          PROVE  rows'[k].seq = IF k < lost THEN k ELSE k + 1
      <4>1. CASE k \in 1..Len(rows)
        BY <2>3, <3>2, <4>1
      <4>2. CASE k = Len(rows) + 1
        BY <1>2, <2>1, <2>3, <3>1, <3>2, <4>2
      <4> QED
        BY <2>4, <4>1, <4>2
    <3>4. lost \in 1..at'
      BY <1>2, <2>2, <3>2
    <3>5. Len(rows') + 1 = at'
      BY <1>2, <2>2, <2>3, <3>1
    <3> QED
      BY <2>2, <2>5, <3>3, <3>4, <3>5 DEF OrderInv
  <2>6. CASE ~ (raised = TRUE)
    <3>1. Len(rows) = at /\ \A k \in 1..Len(rows) : rows[k].seq = k
      BY <1>2, <2>2, <2>6 DEF OrderInv, Live
    <3>2. \A k \in 1..Len(rows') : rows'[k].seq = k
      BY <2>1, <2>3, <2>4, <3>1
    <3>3. Len(rows') = at'
      BY <2>2, <2>3, <3>1
    <3> QED
      BY <1>2, <2>2, <2>3, <2>6, <3>2, <3>3 DEF OrderInv
  <2> QED
    BY <2>5, <2>6
<1>10. CASE WriteMeta \/ Kill
  BY <1>10, Losing DEF WriteMeta, Kill, OrderInv, Live
<1>11. CASE UNCHANGED vars
  BY <1>1, <1>11 DEF vars, walking, Live
<1> QED
  BY <1>3, <1>4, <1>5, <1>6, <1>7, <1>8, <1>9, <1>10, <1>11 DEF Next, Walk

\* The open slice is the end of the root log, a row of the index gives the range of the
\* root log that its closed slice holds, and the rows are those of the capabilities
\* passed, in order, without the one whose prompt a Ctrl-C interrupted.
THEOREM RowsSafe == Spec => [](WindowInv /\ RowInv /\ OrderInv)
<1>1. Init => WindowInv /\ RowInv /\ OrderInv
  BY DEF Init, Idle, NoWindow, WindowInv, RowInv, OrderInv, Live
<1>2. BaseInv /\ SliceInv /\ WindowInv /\ RowInv /\ OrderInv /\ [Next]_vars
        => (WindowInv /\ RowInv /\ OrderInv)'
  BY WindowStep, RowStep, OrderStep
<1> QED
  BY <1>1, <1>2, BaseSafe, SlicesSafe, PTL DEF Spec

-----------------------------------------------------------------------------
(* Slices and extraction.                                                  *)

LEMMA PrefixOfItself ==
  ASSUME NEW S, NEW s \in Seq(S)
  PROVE  IsPrefix(s, s)
BY DEF IsPrefix

LEMMA PrefixOfMore ==
  ASSUME NEW S, NEW s \in Seq(S), NEW t \in Seq(S), NEW x \in S, IsPrefix(s, t)
  PROVE  IsPrefix(s, Append(t, x))
<1>1. /\ Len(s) <= Len(t) /\ Len(s) \in Nat /\ Len(t) \in Nat
      /\ SubSeq(s, 1, Len(s)) = SubSeq(t, 1, Len(s)) /\ Len(Append(t, x)) = Len(t) + 1
  BY OneEntryMore DEF IsPrefix
<1>2. SubSeq(Append(t, x), 0 + 1, Len(s)) = SubSeq(t, 0 + 1, Len(s))
  <2> DEFINE b == Len(s)
  <2>1. b \in Nat /\ b <= Len(t) /\ 0 \in Nat
    BY <1>1
  <2> HIDE DEF b
  <2> QED
    BY <2>1, RangeKept DEF b
<1>3. 0 + 1 = 1
  OBVIOUS
<1> QED
  BY <1>1, <1>2, <1>3 DEF IsPrefix

(* A list with one line more, seen through a tag.                          *)
LEMMA OfRunTyped ==
  ASSUME NEW S, NEW lines \in Seq(S), NEW r
  PROVE  OfRun(lines, r) \in Seq(S)
BY SubsequenceTyped DEF OfRun

LEMMA OfRunAppend ==
  ASSUME NEW S, NEW lines \in Seq(S), NEW line \in S, NEW r
  PROVE  OfRun(Append(lines, line), r) =
             IF line.run = r THEN Append(OfRun(lines, r), line) ELSE OfRun(lines, r)
<1> DEFINE more == Append(lines, line)
           I == {n \in 1..Len(lines) : lines[n].run = r}
           J == {n \in 1..Len(more) : more[n].run = r}
<1>1. (Len(lines) + 1 \in J <=> line.run = r) /\ \A n \in 1..Len(lines) : n \in I <=> n \in J
  BY OneEntryMore
<1> HIDE DEF I, J
<1>2. Subsequence(more, J) =
          IF Len(lines) + 1 \in J THEN Append(Subsequence(lines, I), line)
                                  ELSE Subsequence(lines, I)
  BY <1>1, SubsequenceOneMore
<1> QED
  BY <1>1, <1>2 DEF OfRun, I, J

LEMMA OfRunAll ==
  ASSUME NEW S, NEW lines \in Seq(S), NEW r, \A n \in 1..Len(lines) : lines[n].run = r
  PROVE  OfRun(lines, r) = lines
<1> DEFINE I == {n \in 1..Len(lines) : lines[n].run = r}
<1>1. 1..Len(lines) \subseteq I
  OBVIOUS
<1> HIDE DEF I
<1> QED
  BY <1>1, SubsequenceAll DEF OfRun, I

LEMMA OfRunNone ==
  ASSUME NEW S, NEW lines \in Seq(S), NEW r, \A n \in 1..Len(lines) : lines[n].run # r
  PROVE  OfRun(lines, r) = <<>>
<1> DEFINE I == {n \in 1..Len(lines) : lines[n].run = r}
<1>1. 1..Len(lines) \cap I = {}
  OBVIOUS
<1> HIDE DEF I
<1> QED
  BY <1>1, SubsequenceNone DEF OfRun, I

LEMMA TaggedTyped ==
  ASSUME NEW S, NEW lines \in Seq(S)
  PROVE  Tagged(lines) \in Seq(S)
BY SubsequenceTyped DEF Tagged

LEMMA TaggedAppend ==
  ASSUME NEW S, NEW lines \in Seq(S), NEW line \in S
  PROVE  Tagged(Append(lines, line)) =
             IF line.cap # NoCap THEN Append(Tagged(lines), line) ELSE Tagged(lines)
<1> DEFINE more == Append(lines, line)
           I == {n \in 1..Len(lines) : lines[n].cap # NoCap}
           J == {n \in 1..Len(more) : more[n].cap # NoCap}
<1>1. /\ Len(lines) + 1 \in J <=> line.cap # NoCap
      /\ \A n \in 1..Len(lines) : n \in I <=> n \in J
  BY OneEntryMore
<1> HIDE DEF I, J
<1>2. Subsequence(more, J) =
          IF Len(lines) + 1 \in J THEN Append(Subsequence(lines, I), line)
                                  ELSE Subsequence(lines, I)
  BY <1>1, SubsequenceOneMore
<1> QED
  BY <1>1, <1>2 DEF Tagged, I, J

-----------------------------------------------------------------------------
(* The slices of an id, one piece for each place it has in the walk.       *)
Piece(n, id) ==
    IF asked.ids[n] = id /\ SliceDir(n, id) \in DOMAIN slices
    THEN OfRun(slices[SliceDir(n, id)], run) ELSE <<>>

Pieces(id) == [n \in 1..Len(asked.ids) |-> Piece(n, id)]

LEMMA SlicedIsPieces ==
  ASSUME NEW id
  PROVE  Sliced(id) = FlattenSeq(Pieces(id))
BY DEF Sliced, Pieces, Piece

LEMMA PiecesTyped ==
  ASSUME TypeInv, NEW id
  PROVE  /\ Pieces(id) \in Seq(Seq(Line)) /\ Len(Pieces(id)) = Len(asked.ids)
         /\ \A n \in 1..Len(asked.ids) : Pieces(id)[n] = Piece(n, id)
         /\ Sliced(id) \in Seq(Line)
<1>1. ASSUME NEW n \in 1..Len(asked.ids) PROVE Piece(n, id) \in Seq(Line)
  <2>1. CASE SliceDir(n, id) \in DOMAIN slices
    <3>1. slices[SliceDir(n, id)] \in Seq(Line)
      BY <2>1 DEF TypeInv
    <3> QED
      BY <3>1, OfRunTyped DEF Piece
  <2> QED
    BY <2>1 DEF Piece
<1>2. Len(asked.ids) \in Nat
  BY DEF TypeInv
<1>3. Pieces(id) \in Seq(Seq(Line))
  BY <1>1, <1>2 DEF Pieces
<1>4. FlattenSeq(Pieces(id)) \in Seq(Line)
  <2> DEFINE p == Pieces(id)
  <2> HIDE DEF p
  <2>1. p \in Seq(Seq(Line)) => FlattenSeq(p) \in Seq(Line)
    BY FlattenTyped
  <2> QED
    BY <1>3, <2>1 DEF p
<1>5. Sliced(id) \in Seq(Line)
  BY <1>4, SlicedIsPieces
<1>6. Len(Pieces(id)) = Len(asked.ids) /\ \A n \in 1..Len(asked.ids) : Pieces(id)[n] = Piece(n, id)
  BY <1>2 DEF Pieces
<1> QED
  BY <1>3, <1>5, <1>6

LEMMA SamePieces ==
  ASSUME NEW id, asked' = asked, \A n \in 1..Len(asked.ids) : Piece(n, id)' = Piece(n, id)
  PROVE  Sliced(id)' = Sliced(id)
<1>1. Pieces(id)' = Pieces(id)
  BY DEF Pieces
<1>2. Sliced(id) = FlattenSeq(Pieces(id)) /\ Sliced(id)' = FlattenSeq(Pieces(id)')
  BY DEF Sliced, Pieces, Piece
<1> QED
  BY <1>1, <1>2

(* No slice has a line of the run.                                         *)
LEMMA NothingSliced ==
  ASSUME TypeInv, NEW id,
         \A d \in DOMAIN slices : \A n \in 1..Len(slices[d]) : slices[d][n].run # run
  PROVE  Sliced(id) = <<>>
<1>1. ASSUME NEW n \in 1..Len(asked.ids) PROVE Piece(n, id) = <<>>
  <2> DEFINE d == SliceDir(n, id)
  <2>1. CASE d \in DOMAIN slices
    <3>1. slices[d] \in Seq(Line) /\ \A m \in 1..Len(slices[d]) : slices[d][m].run # run
      BY <2>1 DEF TypeInv
    <3> HIDE DEF d
    <3>2. OfRun(slices[d], run) = <<>>
      BY <3>1, OfRunNone
    <3> QED
      BY <3>2 DEF Piece, d
  <2> QED
    BY <2>1 DEF Piece
<1>2. \A n \in 1..Len(Pieces(id)) : Pieces(id)[n] = <<>>
  BY <1>1, PiecesTyped
<1> QED
  BY <1>2, PiecesTyped, FlattenNothing, SlicedIsPieces

(* The slice emptied next has nothing of the run.                          *)
LEMMA EmptyingKeepsPieces ==
  ASSUME TypeInv, SliceInv, Live, at < Len(walk), Emptied(SliceDir(at + 1, walk[at + 1])),
         asked' = asked, asked.ids = walk, run' = run, NEW id
  PROVE  Sliced(id)' = Sliced(id)
<1> DEFINE dir == SliceDir(at + 1, walk[at + 1])
<1>1. dir \in Nat \X Ids /\ dir[1] = at + 1 /\ at \in Nat
  BY NextEntry DEF SliceDir
<1>2. /\ DOMAIN slices' = DOMAIN slices \union {dir} /\ slices'[dir] = <<>>
      /\ \A d \in DOMAIN slices : d # dir => slices'[d] = slices[d]
  <2> HIDE DEF dir
  <2> QED
    BY <1>1, Emptying DEF dir
<1>3. ASSUME dir \in DOMAIN slices PROVE OfRun(slices[dir], run) = <<>>
  <2>1. slices[dir] \in Seq(Line)
    BY <1>3 DEF TypeInv
  <2> HIDE DEF dir
  <2>2. ASSUME NEW m \in 1..Len(slices[dir]) PROVE slices[dir][m].run # run
    BY <1>1, <1>3 DEF SliceInv, Placed
  <2> QED
    BY <2>1, <2>2, OfRunNone
<1>4. OfRun(<<>>, run) = <<>>
  BY SubsequenceOfNothing DEF OfRun
<1>5. ASSUME NEW n \in 1..Len(asked.ids) PROVE Piece(n, id)' = Piece(n, id)
  <2> HIDE DEF dir
  <2>1. CASE SliceDir(n, id) = dir
    <3>1. Piece(n, id) = <<>>
      BY <1>3, <2>1 DEF Piece
    <3>2. Piece(n, id)' = <<>>
      BY <1>2, <1>4, <2>1 DEF Piece
    <3> QED
      BY <3>1, <3>2
  <2>2. CASE SliceDir(n, id) # dir
    BY <1>2, <2>2 DEF Piece
  <2> QED
    BY <2>1, <2>2
<1> QED
  BY <1>5, SamePieces

(* A line put in the open slice is the last the slices of its id have.     *)
LEMMA SlicingGrowsPieces ==
  ASSUME BaseInv, SliceInv, TypeInv', SliceLine, Tagging, NEW line \in Line, line = Last(log),
         line.run = run, NEW id \in Ids
  PROVE  Sliced(id)' = IF id = active THEN Append(Sliced(id), line) ELSE Sliced(id)
<1> USE DEF BaseInv
<1>1. half = TRUE /\ Live /\ asked' = asked /\ run' = run /\ asked.ids = walk /\ at \in Nat
  BY DEF SliceLine, PhaseInv, AskInv, Live, history, TypeInv
<1>2. PICK k \in 1..at : key = SliceDir(k, walk[k]) /\ active = walk[k]
  BY DEF Tagging, PhaseInv
<1>3. /\ k \in 1..Len(walk) /\ k \in Nat /\ key \in DOMAIN slices /\ slices[key] \in Seq(Line)
      /\ key[1] = k
  BY SMTT(30), <1>1, <1>2 DEF Tagging, SliceInv, TypeInv, SliceDir
<1>4. /\ DOMAIN slices' = DOMAIN slices /\ slices'[key] = Append(slices[key], line)
      /\ \A d \in DOMAIN slices : d # key => slices'[d] = slices[d]
  BY <1>3, Slicing
<1>5. ASSUME NEW n \in 1..Len(walk), SliceDir(n, id) # key
      PROVE  Piece(n, id)' = Piece(n, id)
  BY <1>1, <1>4, <1>5 DEF Piece
<1>6. CASE id # active
  <2>1. \A n \in 1..Len(walk) : SliceDir(n, id) # key
    BY <1>2, <1>6 DEF SliceDir
  <2> QED
    BY <1>1, <1>5, <1>6, <2>1, SamePieces
<1>7. CASE id = active
  <2>1. Piece(k, id)' = Append(Piece(k, id), line)
    <3>1. Piece(k, id) = OfRun(slices[key], run) /\ Piece(k, id)' = OfRun(slices'[key], run)
      BY <1>1, <1>2, <1>3, <1>4, <1>7 DEF Piece
    <3>2. OfRun(Append(slices[key], line), run) = Append(OfRun(slices[key], run), line)
      BY <1>3, OfRunAppend
    <3> QED
      BY <1>4, <3>1, <3>2
  <2>2. ASSUME NEW n \in 1..Len(walk), n # k PROVE Piece(n, id)' = Piece(n, id)
    <3>1. SliceDir(n, id) # key
      BY <1>2, <2>2 DEF SliceDir
    <3> QED
      BY <1>5, <3>1
  <2>3. ASSUME NEW n \in 1..Len(walk), n > k PROVE Piece(n, id) = <<>>
    <3> DEFINE d == SliceDir(n, id)
    <3>1. CASE d \in DOMAIN slices
      <4>1. slices[d] \in Seq(Line) /\ d[1] = n /\ ~ (n <= k) /\ key # NoSlice
        BY SMTT(30), <1>3, <2>3, <3>1 DEF TypeInv, SliceDir, Tagging
      <4>2. ASSUME NEW m \in 1..Len(slices[d]) PROVE slices[d][m].run # run
        BY <1>3, <3>1, <4>1 DEF SliceInv, Placed
      <4> HIDE DEF d
      <4>3. OfRun(slices[d], run) = <<>>
        BY <4>1, <4>2, OfRunNone
      <4> QED
        BY <4>3 DEF Piece, d
    <3> QED
      BY <3>1 DEF Piece
  <2> DEFINE pieces == Pieces(id)
             more == Pieces(id)'
  <2>4. /\ pieces \in Seq(Seq(Line)) /\ Len(pieces) = Len(walk)
        /\ \A n \in 1..Len(walk) : pieces[n] = Piece(n, id)
    BY <1>1, PiecesTyped
  <2>5. /\ more \in Seq(Seq(Line)) /\ Len(more) = Len(walk)
        /\ \A n \in 1..Len(walk) : more[n] = Piece(n, id)'
    <3>1. TypeInv' => /\ (Pieces(id) \in Seq(Seq(Line)))' /\ (Len(Pieces(id)) = Len(asked.ids))'
                      /\ (\A n \in 1..Len(asked.ids) : Pieces(id)[n] = Piece(n, id))'
      <4>1. TypeInv => /\ Pieces(id) \in Seq(Seq(Line)) /\ Len(Pieces(id)) = Len(asked.ids)
                       /\ \A n \in 1..Len(asked.ids) : Pieces(id)[n] = Piece(n, id)
        BY PiecesTyped
      <4> QED
        BY PiecesTyped, PTL
    <3> QED
      BY <1>1, <3>1
  <2> HIDE DEF pieces, more
  <2>6. Longer(more, pieces, k, line)
    BY <1>3, <2>1, <2>2, <2>3, <2>4, <2>5 DEF Longer
  <2>7. FlattenSeq(more) = Append(FlattenSeq(pieces), line)
    BY <2>4, <2>5, <2>6, FlattenAppend
  <2>8. Sliced(id) = FlattenSeq(pieces)
    BY SlicedIsPieces DEF pieces
  <2>9. Sliced(id)' = FlattenSeq(more)
    BY DEF Sliced, Pieces, Piece, more
  <2> QED
    BY <1>7, <2>7, <2>8, <2>9
<1> QED
  BY <1>6, <1>7

(* What extraction finds of an id is what its slices have, and the line    *)
(* that is not yet in one; the window a Ctrl-C left tags lines that no     *)
(* slice gets once it is closed.                                           *)
Shown(id) ==
    IF raised = TRUE /\ key = NoSlice THEN IsPrefix(Sliced(id), ExtractFrames(log, id))
    ELSE ExtractFrames(log, id) = IF half = TRUE /\ active = id
                                  THEN Append(Sliced(id), log[Len(log)]) ELSE Sliced(id)

PieceInv == Live => \A id \in Ids : Shown(id)

LEMMA UnseenIsShown ==
  ASSUME TypeInv, NEW id \in Ids, Shown(id), ~ (raised = TRUE /\ key = NoSlice),
         half = FALSE \/ active = NoCap
  PROVE  ExtractFrames(log, id) = Sliced(id) /\ IsPrefix(Sliced(id), ExtractFrames(log, id))
<1>1. ExtractFrames(log, id) = Sliced(id)
  BY LaunchAssumption DEF Shown
<1>2. Sliced(id) \in Seq(Line)
  BY PiecesTyped
<1> QED
  BY <1>1, <1>2, PrefixOfItself

LEMMA LineTagged ==
  ASSUME TypeInv, RootLine
  PROVE  \E line \in Line : log' = Append(log, line) /\ line.cap = active
<1> DEFINE line == [run |-> run, seq |-> frameSeq, cap |-> active]
<1>1. line \in Line /\ line.cap = active /\ log' = Append(log, line)
  BY DEF RootLine, Line, TypeInv
<1> HIDE DEF line
<1> QED
  BY <1>1

LEMMA PieceStep ==
  ASSUME BaseInv, SliceInv, PieceInv, TypeInv', [Next]_vars
  PROVE  PieceInv'
<1> USE DEF BaseInv
<1> SUFFICES ASSUME Live', NEW id \in Ids PROVE Shown(id)'
  BY DEF PieceInv
<1>1. ASSUME Live PROVE Shown(id)
  BY <1>1 DEF PieceInv
<1>2. ASSUME slices' = slices, asked' = asked, run' = run PROVE Sliced(id)' = Sliced(id)
  BY <1>2 DEF Sliced
<1>3. ASSUME Live, log' = log, half' = half, active' = active, raised' = raised, key' = key,
             Sliced(id)' = Sliced(id)
      PROVE  Shown(id)'
  BY <1>1, <1>3 DEF Shown
<1>4. ASSUME Live, log' = log, half' = FALSE, half = FALSE \/ active = NoCap, raised' = FALSE,
             raised = FALSE, Sliced(id)' = Sliced(id)
      PROVE  Shown(id)'
  <2>1. ExtractFrames(log, id) = Sliced(id)
    BY <1>1, <1>4, UnseenIsShown
  <2> QED
    BY <1>4, <2>1 DEF Shown
<1>5. ASSUME NEW l \in Launches, Launch(l) PROVE FALSE
  BY <1>5 DEF Launch, Live
<1>6. CASE Open
  <2>1. /\ log' = <<>> /\ slices' = slices /\ asked' = asked /\ run' = run /\ half' = half
        /\ half = FALSE /\ raised' = raised /\ raised = FALSE /\ pc = "open"
    BY <1>6 DEF Open, walking, reader, history, PhaseInv, Live
  <2>2. \A d \in DOMAIN slices : \A n \in 1..Len(slices[d]) : slices[d][n].run # run
    BY <2>1 DEF SliceInv, Placed
  <2>3. Sliced(id) = <<>>
    BY <2>2, NothingSliced
  <2>4. ExtractFrames(<<>>, id) = <<>>
    BY ExtractNothing
  <2> QED
    BY <1>2, <2>1, <2>3, <2>4 DEF Shown
<1>7. CASE Arm
  <2>1. /\ Live /\ log' = log /\ half' = FALSE /\ half = FALSE /\ raised' = FALSE /\ raised = FALSE
        /\ at < Len(walk) /\ Emptied(SliceDir(at + 1, walk[at + 1])) /\ asked' = asked
        /\ asked.ids = walk /\ run' = run
    BY <1>7 DEF Arm, history, PhaseInv, AskInv, TypeInv, Live
  <2>2. Sliced(id)' = Sliced(id)
    BY <2>1, EmptyingKeepsPieces
  <2> QED
    BY <1>4, <2>1, <2>2
<1>8. ASSUME NEW a \in Endings, Finalize(a[1], a[2]) PROVE Shown(id)'
  <2>1. /\ Live /\ log' = log /\ half' = FALSE /\ half = FALSE /\ raised' = FALSE /\ raised = FALSE
        /\ slices' = slices /\ asked' = asked /\ run' = run
    BY <1>8 DEF Finalize, disk, reader, history, PhaseInv, TypeInv, Live
  <2> QED
    BY <1>2, <1>4, <2>1
<1>9. CASE WalkEnds \/ WriteIndex
  <2>1. /\ Live /\ log' = log /\ half' = half /\ active' = active /\ raised' = raised /\ key' = key
        /\ slices' = slices /\ asked' = asked /\ run' = run
    BY <1>9 DEF WalkEnds, WriteIndex, disk, walking, window, reader, history, Live
  <2> QED
    BY <1>2, <1>3, <2>1
<1>10. CASE CtrlC
  <2>1. /\ Live /\ log' = log /\ half' = half /\ active' = active /\ raised = FALSE
        /\ raised' = TRUE /\ key' = key /\ slices' = slices /\ asked' = asked /\ run' = run
    BY <1>10 DEF CtrlC, disk, window, reader, history, PhaseInv, Live
  <2>2. Sliced(id)' = Sliced(id) /\ Shown(id)
    BY <1>1, <1>2, <2>1
  <2>3. CASE key = NoSlice
    <3>1. active = NoCap
      BY <1>10, <2>1, <2>3, NotNoSlice DEF CtrlC, PhaseInv
    <3>2. IsPrefix(Sliced(id), ExtractFrames(log, id))
      BY <2>1, <2>2, <3>1, UnseenIsShown
    <3> QED
      BY <2>1, <2>2, <2>3, <3>2 DEF Shown
  <2>4. CASE key # NoSlice
    BY <2>1, <2>2, <2>4 DEF Shown
  <2> QED
    BY <2>3, <2>4
<1>11. CASE RootLine
  <2>1. PICK line \in Line : log' = Append(log, line) /\ line.cap = active
    BY <1>11, LineTagged
  <2>2. /\ Live /\ half = FALSE /\ half' = TRUE /\ active' = active /\ raised' = raised
        /\ key' = key /\ slices' = slices /\ asked' = asked /\ run' = run
    BY <1>11 DEF RootLine, walking, window, history, TypeInv, Live
  <2>3. log \in Seq(Line)
    BY <2>2 DEF LogInv
  <2>4. Sliced(id)' = Sliced(id) /\ Shown(id) /\ Sliced(id) \in Seq(Line)
        /\ ExtractFrames(log, id) \in Seq(Line)
    BY <1>1, <1>2, <2>2, <2>3, PiecesTyped, ExtractTyped
  <2>5. ExtractFrames(log', id) = IF active = id THEN Append(ExtractFrames(log, id), line)
                                  ELSE ExtractFrames(log, id)
    BY <2>1, <2>3, ExtractAppend
  <2>6. log'[Len(log')] = line
    BY <2>1, <2>3, OneEntryMore
  <2>7. CASE raised = TRUE /\ key = NoSlice
    <3>1. IsPrefix(Sliced(id), ExtractFrames(log, id))
      BY <2>4, <2>7 DEF Shown
    <3>2. IsPrefix(Sliced(id), Append(ExtractFrames(log, id), line))
      BY <2>4, <3>1, PrefixOfMore
    <3> QED
      BY <2>2, <2>4, <2>5, <2>7, <3>1, <3>2 DEF Shown
  <2>8. CASE ~ (raised = TRUE /\ key = NoSlice)
    <3>1. ExtractFrames(log, id) = Sliced(id)
      BY <2>2, <2>4, <2>8, UnseenIsShown
    <3> QED
      BY <2>2, <2>4, <2>5, <2>6, <2>8, <3>1 DEF Shown
  <2> QED
    BY <2>7, <2>8
<1>12. CASE SliceLine
  <2>1. /\ Live /\ half = TRUE /\ half' = FALSE /\ log' = log /\ active' = active /\ key' = key
        /\ raised' = raised /\ asked' = asked /\ run' = run
    BY <1>12 DEF SliceLine, walking, history, PhaseInv
  <2>2. log \in Seq(Line) /\ Len(log) > 0
    BY <2>1 DEF LogInv
  <2>3. PICK line \in Line : line = Last(log) /\ line = log[Len(log)] /\ line.run = run
    BY <2>1, <2>2 DEF Last, LogInv
  <2>4. Shown(id)
    BY <1>1, <2>1
  <2>5. CASE Tagging
    <3>1. Sliced(id)' = IF id = active THEN Append(Sliced(id), line) ELSE Sliced(id)
      BY <1>12, <2>3, <2>5, SlicingGrowsPieces
    <3> QED
      BY <2>1, <2>3, <2>4, <2>5, <3>1 DEF Shown, Tagging
  <2>6. CASE ~ Tagging
    <3>1. slices' = slices
      BY <1>12, <2>3, <2>6, Slicing
    <3>2. Sliced(id)' = Sliced(id)
      BY <1>2, <2>1, <3>1
    <3>3. CASE raised = TRUE /\ key = NoSlice
      BY <2>1, <2>4, <3>2, <3>3 DEF Shown
    <3>4. CASE ~ (raised = TRUE /\ key = NoSlice)
      <4>1. active = NoCap
        <5>1. CASE key = NoSlice
          BY <3>4, <5>1, NotNoSlice DEF PhaseInv, TypeInv
        <5>2. CASE key # NoSlice
          BY <2>6, <5>2 DEF Tagging
        <5> QED
          BY <5>1, <5>2
      <4>2. ExtractFrames(log, id) = Sliced(id)
        BY <2>4, <3>4, <4>1, UnseenIsShown
      <4> QED
        BY <2>1, <3>2, <3>4, <4>2 DEF Shown
    <3> QED
      BY <3>3, <3>4
  <2> QED
    BY <2>5, <2>6
<1>13. CASE MarkNotRun
  <2>1. /\ Live /\ log' = log /\ half' = half /\ active' = active /\ raised' = raised /\ key' = key
        /\ at < Len(walk) /\ Emptied(SliceDir(at + 1, walk[at + 1])) /\ asked' = asked
        /\ asked.ids = walk /\ run' = run
    BY <1>13 DEF MarkNotRun, window, reader, history, AskInv, Live
  <2>2. Sliced(id)' = Sliced(id)
    BY <2>1, EmptyingKeepsPieces
  <2> QED
    BY <1>3, <2>1, <2>2
<1>14. CASE CloseSlice \/ CloseRoot
  <2>1. /\ Live /\ log' = log /\ half' = FALSE /\ active' = active /\ raised' = raised
        /\ key' = NoSlice /\ slices' = slices /\ asked' = asked /\ run' = run
    BY <1>14 DEF CloseSlice, CloseRoot, ForgetSlice, disk, walking, window, reader, history,
       PhaseInv, TypeInv, Live
  <2>2. Sliced(id)' = Sliced(id) /\ Shown(id)
    BY <1>1, <1>2, <2>1
  <2>3. raised = FALSE => active = NoCap
    BY <1>14 DEF CloseSlice, CloseRoot, PhaseInv
  <2>4. half = FALSE \/ key = NoSlice
    BY <1>14 DEF CloseSlice, CloseRoot, PhaseInv, TypeInv
  <2>5. CASE raised = FALSE
    BY <1>4, <2>1, <2>2, <2>3, <2>5
  <2>6. CASE raised # FALSE
    <3>1. raised = TRUE
      BY <2>6 DEF TypeInv
    <3>2. IsPrefix(Sliced(id), ExtractFrames(log, id))
      BY <2>2, <2>4, <3>1, UnseenIsShown DEF Shown
    <3> QED
      BY <2>1, <2>2, <3>1, <3>2 DEF Shown
  <2> QED
    BY <2>5, <2>6
<1>15. CASE WriteMeta \/ Kill
  BY <1>15, Losing DEF WriteMeta, Kill, Live
<1>16. CASE UNCHANGED vars
  <2>1. /\ Live /\ log' = log /\ half' = half /\ active' = active /\ raised' = raised /\ key' = key
        /\ slices' = slices /\ asked' = asked /\ run' = run
    BY <1>16 DEF vars, disk, walking, window, reader, history, Live
  <2> QED
    BY <1>2, <1>3, <2>1
<1> QED
  BY <1>5, <1>6, <1>7, <1>8, <1>9, <1>10, <1>11, <1>12, <1>13, <1>14, <1>15, <1>16 DEF Next, Walk

(* Every tagged line is counted: by a row, by the open window, or about to *)
(* be.                                                                     *)
Pending == IF half = TRUE /\ active # NoCap THEN 1 ELSE 0

TaggedInv == Live /\ raised = FALSE => Len(Tagged(log)) = TotalFrames(rows) + count + Pending

LEMMA RowsCounted ==
  ASSUME TypeInv
  PROVE  /\ TotalFrames(rows) \in Nat
         /\ \A row \in Row : TotalFrames(Append(rows, row)) = TotalFrames(rows) + row.frames
<1>1. \A r \in Row : r.frames \in Nat
  BY DEF Row
<1>2. rows \in Seq(Row)
  BY DEF TypeInv
<1> QED
  BY <1>1, <1>2, TotalTyped, TotalAppend

LEMMA TaggedStep ==
  ASSUME BaseInv, SliceInv, WindowInv, TaggedInv, [Next]_vars
  PROVE  TaggedInv'
<1> USE DEF BaseInv
<1> SUFFICES ASSUME Live', raised' = FALSE
             PROVE  Len(Tagged(log')) = TotalFrames(rows') + count' + Pending'
  BY DEF TaggedInv
<1>0. TotalFrames(rows) \in Nat /\ count \in Nat
  BY RowsCounted DEF TypeInv
<1>1. ASSUME Live, raised = FALSE, log' = log, rows' = rows, count' = count, Pending' = Pending
      PROVE  Len(Tagged(log')) = TotalFrames(rows') + count' + Pending'
  BY <1>1 DEF TaggedInv
<1>2. ASSUME NEW l \in Launches, Launch(l) PROVE FALSE
  BY <1>2 DEF Launch, Live
<1>3. CASE Open
  <2>1. log' = <<>> /\ rows' = <<>> /\ count' = 0 /\ Pending' = 0
    BY <1>3 DEF Open, window, reader, PhaseInv, Live, Pending
  <2>2. Tagged(<<>>) = <<>> /\ TotalFrames(<<>>) = 0
    BY SubsequenceOfNothing, TotalOfNothing DEF Tagged
  <2> QED
    BY <2>1, <2>2
<1>4. CASE Arm
  <2>1. /\ Live /\ raised = FALSE /\ log' = log /\ rows' = rows /\ count' = 0 /\ half = FALSE
        /\ half' = half /\ key = NoSlice
    BY <1>4 DEF Arm, PhaseInv, TypeInv, Live
  <2>2. count = 0 /\ Pending = 0 /\ Pending' = 0
    BY <2>1 DEF WindowInv, Pending
  <2> QED
    BY <1>1, <2>1, <2>2
<1>5. ASSUME NEW a \in Endings, Finalize(a[1], a[2])
      PROVE  Len(Tagged(log')) = TotalFrames(rows') + count' + Pending'
  <2>1. /\ Live /\ raised = FALSE /\ log' = log /\ rows' = Append(rows, Attempt(a[1])) /\ count' = 0
        /\ half = FALSE /\ half' = half /\ pc = "armed"
    BY <1>5 DEF Finalize, ForgetSlice, disk, reader, PhaseInv, TypeInv, Live
  <2>2. Attempt(a[1]) \in Row /\ Attempt(a[1]).frames = count
    <3>1. a[1] \in {"done", "skipped", "not_run"}
      BY AnswerTyped
    <3>2. at \in 1..Len(walk) /\ walk[at] \in Ids /\ key \in Nat \X Ids
      BY <2>1 DEF TypeInv, PhaseInv, SliceDir
    <3> QED
      BY <3>1, <3>2 DEF Attempt, Row, TypeInv
  <2>3. TotalFrames(rows') = TotalFrames(rows) + count
    BY <2>1, <2>2, RowsCounted
  <2>4. Pending = 0 /\ Pending' = 0
    BY <2>1 DEF Pending
  <2>5. Len(Tagged(log)) = TotalFrames(rows) + count + 0
    BY <2>1, <2>4 DEF TaggedInv
  <2> QED
    BY <1>0, <2>1, <2>3, <2>4, <2>5
<1>6. CASE WalkEnds \/ WriteIndex
  BY <1>1, <1>6 DEF WalkEnds, WriteIndex, disk, walking, window, reader, Pending, Live
<1>7. CASE CtrlC
  BY <1>7 DEF CtrlC
<1>8. CASE RootLine
  <2>1. PICK line \in Line : log' = Append(log, line) /\ line.cap = active
    BY <1>8, LineTagged
  <2>2. /\ Live /\ half = FALSE /\ half' = TRUE /\ active' = active /\ raised = FALSE
        /\ rows' = rows /\ count' = count
    BY <1>8 DEF RootLine, walking, window, TypeInv, Live
  <2>3. log \in Seq(Line)
    BY <2>2 DEF LogInv
  <2>4. Tagged(log') = IF active # NoCap THEN Append(Tagged(log), line) ELSE Tagged(log)
    BY <2>1, <2>3, TaggedAppend
  <2>5. Tagged(log) \in Seq(Line)
    BY <2>3, TaggedTyped
  <2>6. Len(Append(Tagged(log), line)) = Len(Tagged(log)) + 1 /\ Len(Tagged(log)) \in Nat
    BY <2>5, OneEntryMore
  <2>7. Pending = 0 /\ Pending' = IF active # NoCap THEN 1 ELSE 0
    BY <2>2 DEF Pending
  <2>8. Len(Tagged(log)) = TotalFrames(rows) + count + 0
    BY <2>2, <2>7 DEF TaggedInv
  <2> QED
    BY <1>0, <2>2, <2>4, <2>6, <2>7, <2>8
<1>9. CASE SliceLine
  <2>1. /\ Live /\ half = TRUE /\ half' = FALSE /\ log' = log /\ active' = active /\ raised = FALSE
        /\ rows' = rows
    BY <1>9 DEF SliceLine, walking, PhaseInv
  <2>2. log \in Seq(Line) /\ Len(log) > 0
    BY <2>1 DEF LogInv
  <2>3. PICK line \in Line : line = Last(log)
    BY <2>2 DEF Last
  <2>4. count' = IF Tagging THEN count + 1 ELSE count
    BY <1>9, <2>3, Slicing
  <2>5. Tagging <=> active # NoCap
    <3>1. key = NoSlice => active = NoCap
      BY <2>1, NotNoSlice DEF PhaseInv
    <3> QED
      BY <3>1 DEF Tagging
  <2>6. Pending' = 0 /\ Pending = IF active # NoCap THEN 1 ELSE 0
    BY <2>1 DEF Pending
  <2>7. Len(Tagged(log)) = TotalFrames(rows) + count + Pending
    BY <2>1 DEF TaggedInv
  <2> QED
    BY <1>0, <2>1, <2>4, <2>5, <2>6, <2>7
<1>10. CASE MarkNotRun
  <2>1. PICK new \in Row : rows' = Append(rows, new) /\ new.frames = 0
    <3> DEFINE r == [seq |-> at + 1, id |-> walk[at + 1], status |-> "not_run", frames |-> 0,
                     dir |-> SliceDir(at + 1, walk[at + 1]), start |-> 0]
    <3>1. r \in Row
      BY <1>10, NextEntry DEF MarkNotRun, Row
    <3>2. rows' = Append(rows, r)
      BY <1>10 DEF MarkNotRun
    <3> QED
      BY <3>1, <3>2
  <2>2. /\ Live /\ raised = FALSE /\ log' = log /\ count' = count /\ half' = half
        /\ active' = active
    BY <1>10 DEF MarkNotRun, window, reader, Live
  <2>3. TotalFrames(rows') = TotalFrames(rows) + 0
    BY <2>1, RowsCounted
  <2>4. Pending' = Pending /\ Len(Tagged(log)) = TotalFrames(rows) + count + Pending
    BY <2>2 DEF Pending, TaggedInv
  <2> QED
    BY <1>0, <2>2, <2>3, <2>4
<1>11. CASE CloseSlice \/ CloseRoot
  <2>1. /\ Live /\ raised = FALSE /\ log' = log /\ rows' = rows /\ active' = active
        /\ count' \in {0, count} /\ key = NoSlice /\ active = NoCap
    BY <1>11 DEF CloseSlice, CloseRoot, ForgetSlice, disk, walking, window, reader, PhaseInv, Live
  <2>2. count = 0 /\ Pending = 0 /\ Pending' = 0
    BY <2>1 DEF WindowInv, Pending
  <2> QED
    BY <1>1, <2>1, <2>2
<1>12. CASE WriteMeta \/ Kill
  BY <1>12, Losing DEF WriteMeta, Kill, Live
<1>13. CASE UNCHANGED vars
  BY <1>1, <1>13 DEF vars, disk, walking, window, reader, Pending, Live
<1> QED
  BY <1>2, <1>3, <1>4, <1>5, <1>6, <1>7, <1>8, <1>9, <1>10, <1>11, <1>12, <1>13 DEF Next, Walk

\* extract_frames finds in the root log what the slices of the id have and at most the
\* line still on its way to one, and every tagged line is counted by a row or by the
\* open window: the two files _on_sequenced_frame writes never drift apart.
THEOREM PiecesSafe == Spec => [](PieceInv /\ TaggedInv)
<1>1. Init => PieceInv /\ TaggedInv
  BY DEF Init, PieceInv, TaggedInv, Live
<1>2. BaseInv /\ BaseInv' /\ SliceInv /\ WindowInv /\ PieceInv /\ TaggedInv /\ [Next]_vars
        => (PieceInv /\ TaggedInv)'
  BY PieceStep, TaggedStep DEF BaseInv
<1> QED
  BY <1>1, <1>2, BaseSafe, SlicesSafe, RowsSafe, PTL DEF Spec

-----------------------------------------------------------------------------
(* The properties.                                                         *)

LEMMA Removed ==
  ASSUME NEW S, NEW s \in Seq(S), NEW lost \in 1..Len(s)
  PROVE  /\ RemoveAt(s, lost) \in Seq(S) /\ Len(RemoveAt(s, lost)) = Len(s) - 1
         /\ \A k \in 1..Len(s) - 1 : RemoveAt(s, lost)[k] = s[IF k < lost THEN k ELSE k + 1]
<1> DEFINE a == SubSeq(s, 1, lost - 1)
           b == SubSeq(s, lost + 1, Len(s))
<1>1. Len(s) \in Nat /\ lost \in Nat /\ 1 <= lost /\ lost <= Len(s)
  OBVIOUS
<1>2. /\ a \in Seq(S) /\ Len(a) = lost - 1 /\ \A k \in 1..lost - 1 : a[k] = s[k]
  BY <1>1
<1>3. /\ b \in Seq(S) /\ Len(b) = Len(s) - lost
      /\ \A k \in 1..Len(s) - lost : b[k] = s[k + lost]
  BY <1>1
<1>4. RemoveAt(s, lost) = a \o b
  BY DEF RemoveAt
<1> HIDE DEF a, b
<1>5. /\ a \o b \in Seq(S) /\ Len(a \o b) = Len(a) + Len(b)
      /\ \A k \in 1..Len(a) + Len(b) : (a \o b)[k] = IF k <= Len(a) THEN a[k] ELSE b[k - Len(a)]
  BY <1>2, <1>3, ConcatProperties
<1>6. Len(a) + Len(b) = Len(s) - 1
  BY <1>1, <1>2, <1>3
<1>7. ASSUME NEW k \in 1..Len(s) - 1
      PROVE  (a \o b)[k] = s[IF k < lost THEN k ELSE k + 1]
  <2>1. (a \o b)[k] = IF k <= Len(a) THEN a[k] ELSE b[k - Len(a)]
    BY <1>5, <1>6
  <2>2. CASE k < lost
    <3>1. k <= Len(a) /\ k \in 1..lost - 1
      BY <1>1, <1>2, <2>2
    <3> QED
      BY <1>2, <2>1, <2>2, <3>1
  <2>3. CASE ~ (k < lost)
    <3>1. ~ (k <= Len(a)) /\ k - Len(a) \in 1..Len(s) - lost /\ (k - Len(a)) + lost = k + 1
      BY <1>1, <1>2, <2>3
    <3> QED
      BY <1>3, <2>1, <2>3, <3>1
  <2> QED
    BY <2>2, <2>3
<1> QED
  BY <1>4, <1>5, <1>6, <1>7

(* At the end of a walk the rows are the ids asked for.                    *)
LEMMA RowsListed ==
  ASSUME BaseInv, RowInv, OrderInv, pc = "meta"
  PROVE  \/ raised = FALSE /\ [n \in 1..Len(rows) |-> rows[n].id] = walk
         \/ /\ raised = TRUE /\ Len(rows) = Len(walk) - 1
            /\ \E lost \in 1..Len(walk) :
                  [n \in 1..Len(rows) |-> rows[n].id] = RemoveAt(walk, lost)
<1> DEFINE ids == [n \in 1..Len(rows) |-> rows[n].id]
<1>1. /\ Live /\ at = Len(walk) /\ at \in Nat /\ rows \in Seq(Row) /\ Len(rows) \in Nat
      /\ walk \in Seq(Ids)
  BY DEF BaseInv, TypeInv, PhaseInv, Live
<1>2. ids \in Seq(Ids) /\ Len(ids) = Len(rows) /\ \A n \in 1..Len(rows) : ids[n] = rows[n].id
  <2>1. ASSUME NEW n \in 1..Len(rows) PROVE rows[n].id \in Ids
    <3>1. rows[n] \in Row
      BY <1>1
    <3> QED
      BY <3>1 DEF Row
  <2> QED
    BY <1>1, <2>1
<1>3. \A n \in 1..Len(rows) : ids[n] = walk[rows[n].seq]
  BY <1>2 DEF RowInv, Recorded
<1> HIDE DEF ids
<1>4. CASE raised = FALSE
  <2>1. Len(rows) = Len(walk) /\ \A n \in 1..Len(rows) : rows[n].seq = n
    BY <1>1, <1>4 DEF OrderInv
  <2>2. Len(ids) = Len(walk) /\ \A n \in 1..Len(ids) : ids[n] = walk[n]
    BY <1>2, <1>3, <2>1
  <2>3. ids = walk
    BY <1>1, <1>2, <2>2, SeqEqual
  <2> QED
    BY <1>4, <2>3 DEF ids
<1>5. CASE raised = TRUE
  <2>1. Len(rows) = Len(walk) - 1
    BY <1>1, <1>5 DEF OrderInv
  <2>2. PICK lost \in 1..Len(walk) :
            \A n \in 1..Len(rows) : rows[n].seq = IF n < lost THEN n ELSE n + 1
    BY <1>1, <1>5 DEF OrderInv
  <2>3. /\ RemoveAt(walk, lost) \in Seq(Ids) /\ Len(RemoveAt(walk, lost)) = Len(walk) - 1
        /\ \A n \in 1..Len(walk) - 1 :
              RemoveAt(walk, lost)[n] = walk[IF n < lost THEN n ELSE n + 1]
    BY <1>1, Removed
  <2>4. /\ Len(ids) = Len(RemoveAt(walk, lost))
        /\ \A n \in 1..Len(ids) : ids[n] = RemoveAt(walk, lost)[n]
    BY SMTT(30), <1>2, <1>3, <2>1, <2>2, <2>3
  <2>5. ids = RemoveAt(walk, lost)
    BY <1>2, <2>3, <2>4, SeqEqual
  <2> QED
    BY <1>5, <2>1, <2>5 DEF ids
<1> QED
  BY <1>4, <1>5 DEF BaseInv, TypeInv

LEMMA FlagsStep ==
  ASSUME BaseInv, BaseInv', RowInv, OrderInv, RunAnswersFlags, [Next]_vars
  PROVE  RunAnswersFlags'
<1>1. pc' # "shell" => SameBus(bus, asked.bus)' /\ SameBus(source, asked.bus)'
  BY DEF BaseInv, AskInv
<1>2. ASSUME outcome' = "none" PROVE RunAnswersFlags'
  BY <1>1, <1>2 DEF RunAnswersFlags
<1>3. ASSUME outcome' = "killed" PROVE RunAnswersFlags'
  BY <1>1, <1>3 DEF RunAnswersFlags
<1>4. ASSUME NEW l \in Launches, Launch(l) PROVE RunAnswersFlags'
  <2>1. CASE Refused(l)
    <3>1. /\ outcome' = "refused"
          /\ asked' = [ids |-> IdsAsked(l), skip |-> l.skip, bus |-> BusAsked(l)]
      BY <1>4, <2>1 DEF Launch
    <3>2. IdsAsked(l) = <<>> \/ BadBus(BusAsked(l))
      BY <2>1, SelectedIsAsked, BusIsAsked DEF Refused
    <3> QED
      BY <1>1, <3>1, <3>2 DEF RunAnswersFlags
  <2>2. CASE ~ Refused(l)
    BY <1>2, <1>4, <2>2 DEF Launch
  <2> QED
    BY <2>1, <2>2
<1>5. CASE WriteMeta
  <2>1. /\ pc = "meta" /\ outcome' = "ended" /\ meta'.source = source /\ index' = index
        /\ asked' = asked /\ quit' = quit /\ raised' = raised /\ pc' = "shell"
    BY <1>5, Losing DEF WriteMeta
  <2>2. /\ index = rows /\ asked.ids = walk /\ asked.skip = skip
        /\ SameBus(source, asked.bus)
    BY <2>1 DEF BaseInv, PhaseInv, AskInv
  <2>3. RowsOf(asked.ids)'
    <3> DEFINE ids == [n \in 1..Len(rows) |-> rows[n].id]
    <3>1. \/ raised = FALSE /\ ids = walk
          \/ /\ raised = TRUE /\ Len(rows) = Len(walk) - 1
             /\ \E lost \in 1..Len(walk) : ids = RemoveAt(walk, lost)
      BY <2>1, RowsListed
    <3>2. /\ index' = rows /\ raised' = raised /\ asked.ids' = walk
          /\ [n \in 1..Len(index') |-> index'[n].id] = ids
      BY <2>1, <2>2
    <3> HIDE DEF ids
    <3> QED
      BY <3>1, <3>2 DEF RowsOf
  <2>4. \A n \in 1..Len(rows) : /\ rows[n].id \in skip => rows[n].status \in {"skipped", "not_run"}
                                /\ rows[n].status = "not_run" => quit = TRUE \/ raised = TRUE
    BY DEF RowInv, Recorded
  <2>5. \A n \in 1..Len(index') :
            /\ index'[n].id \in asked'.skip => index'[n].status \in {"skipped", "not_run"}
            /\ index'[n].status = "not_run" => quit' \/ raised'
    BY <2>1, <2>2, <2>4
  <2>6. SameBus(meta'.source, asked'.bus)
    BY <2>1, <2>2
  <2> QED
    BY <1>1, <2>1, <2>3, <2>5, <2>6 DEF RunAnswersFlags
<1>6. CASE Kill
  BY <1>3, <1>6 DEF Kill
<1>7. CASE UNCHANGED vars
  BY <1>7 DEF vars, disk, walking, history, RunAnswersFlags, RowsOf
<1>8. ASSUME pc # "shell", outcome' = outcome PROVE RunAnswersFlags'
  BY <1>2, <1>8 DEF BaseInv, AskInv
<1>9. CASE Open \/ Arm \/ WalkEnds \/ CtrlC \/ (\E k \in Endings : Finalize(k[1], k[2]))
  BY <1>8, <1>9 DEF Open, Arm, WalkEnds, CtrlC, Finalize, history
<1>10. CASE RootLine \/ MarkNotRun \/ CloseSlice \/ WriteIndex \/ CloseRoot
  BY <1>8, <1>10 DEF RootLine, MarkNotRun, CloseSlice, WriteIndex, CloseRoot, history
<1>11. CASE SliceLine
  <2>1. pc # "shell"
    BY <1>11 DEF SliceLine, BaseInv, PhaseInv, Live
  <2> QED
    BY <1>8, <1>11, <2>1 DEF SliceLine, history
<1> QED
  BY <1>4, <1>5, <1>6, <1>7, <1>9, <1>10, <1>11 DEF Next, Walk

\* For every combination of flags, shell variables and .env file: what a run records
\* of itself (session meta, index.json) is the bus and the walk it was asked for, it is
\* refused only when there is no such walk or bus, and a row is not_run only after a q
\* or a Ctrl-C.
THEOREM FlagsAnswered == Spec => []RunAnswersFlags
<1>1. Init => RunAnswersFlags
  BY DEF Init, RunAnswersFlags
<1>2. BaseInv /\ BaseInv' /\ RowInv /\ OrderInv /\ RunAnswersFlags /\ [Next]_vars
        => RunAnswersFlags'
  BY FlagsStep
<1> QED
  BY <1>1, <1>2, BaseSafe, RowsSafe, PTL DEF Spec

(* What triage and extraction say when meta.json is about to be written.   *)
LEMMA WalkTriaged ==
  ASSUME BaseInv, WindowInv, RowInv, OrderInv, PieceInv, TaggedInv, pc = "meta"
  PROVE  /\ \A n \in 1..Len(rows) : CapabilitySlice(rows[n]) =
                SubSeq(log, rows[n].start + 1, rows[n].start + rows[n].frames)
         /\ raised = FALSE =>
              /\ \A n \in 1..Len(rows) : ExtractFrames(log, rows[n].id) =
                    FlattenSeq([k \in 1..Len(rows) |->
                        IF rows[k].id = rows[n].id THEN CapabilitySlice(rows[k]) ELSE <<>>])
              /\ TotalFrames(rows) = Len(Tagged(log))
<1> USE DEF BaseInv
<1>1. /\ Live /\ at = Len(walk) /\ at \in Nat /\ rows \in Seq(Row) /\ Len(rows) \in Nat
      /\ walk \in Seq(Ids) /\ asked.ids = walk /\ key = NoSlice
      /\ log \in Seq(Line) /\ \A n \in 1..Len(log) : log[n].run = run
  BY DEF TypeInv, PhaseInv, AskInv, LogInv, Live
<1>2. ASSUME NEW n \in 1..Len(rows)
      PROVE  /\ rows[n].dir \in DOMAIN slices /\ CapabilitySlice(rows[n]) = slices[rows[n].dir]
             /\ slices[rows[n].dir]
                  = SubSeq(log, rows[n].start + 1, rows[n].start + rows[n].frames)
  BY DEF RowInv, Recorded, CapabilitySlice
<1>3. ASSUME NEW n \in 1..Len(rows)
      PROVE  OfRun(CapabilitySlice(rows[n]), run) = CapabilitySlice(rows[n])
  <2> DEFINE a == rows[n].start
             b == rows[n].start + rows[n].frames
  <2>1. a \in Nat /\ b \in Nat /\ b <= Len(log)
    <3>1. rows[n] \in Row
      BY <1>1
    <3>2. rows[n].start + rows[n].frames <= Len(log)
      BY DEF RowInv, Recorded
    <3> QED
      BY <3>1, <3>2 DEF Row
  <2>2. CapabilitySlice(rows[n]) = SubSeq(log, a + 1, b)
    BY <1>2
  <2> HIDE DEF a, b
  <2>3. /\ SubSeq(log, a + 1, b) \in Seq(Line)
        /\ \A m \in 1..Len(SubSeq(log, a + 1, b)) : SubSeq(log, a + 1, b)[m].run = run
    BY <1>1, <2>1
  <2>4. OfRun(SubSeq(log, a + 1, b), run) = SubSeq(log, a + 1, b)
    BY <2>3, OfRunAll
  <2> QED
    BY <2>2, <2>4
<1>4. ASSUME raised = FALSE
      PROVE  /\ Len(rows) = Len(walk) /\ active = NoCap /\ count = 0
             /\ \A k \in 1..Len(rows) : /\ rows[k].id = walk[k]
                                        /\ rows[k].dir = SliceDir(k, walk[k])
  <2>1. Len(rows) = Len(walk) /\ \A k \in 1..Len(rows) : rows[k].seq = k
    BY <1>1, <1>4 DEF OrderInv
  <2> QED
    BY <1>1, <1>4, <2>1 DEF RowInv, Recorded, PhaseInv, WindowInv
<1>5. ASSUME raised = FALSE, NEW n \in 1..Len(rows)
      PROVE  ExtractFrames(log, rows[n].id) = FlattenSeq([k \in 1..Len(rows) |->
                 IF rows[k].id = rows[n].id THEN CapabilitySlice(rows[k]) ELSE <<>>])
  <2> DEFINE id == rows[n].id
  <2>1. id \in Ids
    <3>1. rows[n] \in Row
      BY <1>1
    <3> QED
      BY <3>1 DEF Row
  <2>2. ExtractFrames(log, id) = Sliced(id)
    <3> HIDE DEF id
    <3>1. Shown(id)
      BY <1>1, <2>1 DEF PieceInv
    <3> QED
      BY <1>4, <1>5, <2>1, <3>1, UnseenIsShown
  <2>3. ASSUME NEW k \in 1..Len(rows)
        PROVE  Piece(k, id) = IF rows[k].id = id THEN CapabilitySlice(rows[k]) ELSE <<>>
    <3>1. asked.ids[k] = rows[k].id
      BY <1>1, <1>4, <1>5
    <3> HIDE DEF id
    <3>2. CASE rows[k].id = id
      <4>1. SliceDir(k, id) = rows[k].dir /\ asked.ids[k] = id
        BY <1>4, <1>5, <3>1, <3>2
      <4>2. rows[k].dir \in DOMAIN slices /\ CapabilitySlice(rows[k]) = slices[rows[k].dir]
        BY <1>2
      <4>3. Piece(k, id) = OfRun(CapabilitySlice(rows[k]), run)
        BY <4>1, <4>2 DEF Piece
      <4> QED
        BY <1>3, <3>2, <4>3
    <3>3. CASE rows[k].id # id
      BY <3>1, <3>3 DEF Piece
    <3> QED
      BY <3>2, <3>3
  <2>4. Pieces(id) = [k \in 1..Len(rows) |->
                          IF rows[k].id = id THEN CapabilitySlice(rows[k]) ELSE <<>>]
    <3>1. Pieces(id) = [k \in 1..Len(rows) |-> Piece(k, id)]
      BY <1>1, <1>4, <1>5 DEF Pieces
    <3> HIDE DEF id
    <3> QED
      BY <2>3, <3>1
  <2>5. Sliced(id) = FlattenSeq(Pieces(id))
    BY SlicedIsPieces
  <2> QED
    BY <2>2, <2>4, <2>5
<1>6. ASSUME raised = FALSE PROVE TotalFrames(rows) = Len(Tagged(log))
  <2>1. Len(Tagged(log)) = TotalFrames(rows) + 0 + 0
    BY <1>1, <1>4, <1>6 DEF TaggedInv, Pending
  <2>2. TotalFrames(rows) \in Nat
    BY RowsCounted
  <2> QED
    BY <2>1, <2>2
<1> QED
  BY <1>2, <1>5, <1>6

LEMMA TriageStep ==
  ASSUME BaseInv, WindowInv, RowInv, OrderInv, PieceInv, TaggedInv, TriageDescribesRun,
         [Next]_vars
  PROVE  TriageDescribesRun'
<1>1. ASSUME outcome' # "ended" PROVE TriageDescribesRun'
  BY <1>1 DEF TriageDescribesRun
<1>2. CASE WriteMeta
  <2>1. /\ pc = "meta" /\ index' = index /\ log' = log /\ slices' = slices /\ raised' = raised
        /\ meta'.mode = "capability_guided"
        /\ meta'.counts = [status \in {"done", "skipped", "not_run"} |->
                               Len(WithStatus(rows, status))]
    BY <1>2 DEF WriteMeta
  <2>2. index' = rows /\ index' # NoFile
    BY <2>1, LaunchAssumption DEF BaseInv, PhaseInv, TypeInv
  <2>3. SummarizeSession' = meta'.counts
    BY <2>1, <2>2 DEF SummarizeSession, LoadIndex
  <2>4. ASSUME NEW k \in 1..Len(rows)
        PROVE  CapabilitySlice(index[k])' = CapabilitySlice(rows[k])
    BY <2>1, <2>2 DEF CapabilitySlice
  <2>5. \A n \in 1..Len(index') : CapabilitySlice(index[n])' =
            SubSeq(log', index'[n].start + 1, index'[n].start + index'[n].frames)
    BY <2>1, <2>2, <2>4, WalkTriaged
  <2>6. ASSUME raised' = FALSE
        PROVE  /\ \A n \in 1..Len(index') : ExtractFrames(log', index'[n].id) =
                     FlattenSeq([k \in 1..Len(index') |->
                         IF index'[k].id = index'[n].id THEN CapabilitySlice(index[k])'
                                                        ELSE <<>>])
               /\ TotalFrames(index') = Len(Tagged(log'))
    <3>1. ASSUME NEW id
          PROVE  [k \in 1..Len(index') |->
                     IF index'[k].id = id THEN CapabilitySlice(index[k])' ELSE <<>>]
               = [k \in 1..Len(rows) |->
                     IF rows[k].id = id THEN CapabilitySlice(rows[k]) ELSE <<>>]
      BY <2>2, <2>4
    <3>2. /\ \A n \in 1..Len(rows) : ExtractFrames(log, rows[n].id) =
                    FlattenSeq([k \in 1..Len(rows) |->
                        IF rows[k].id = rows[n].id THEN CapabilitySlice(rows[k]) ELSE <<>>])
          /\ TotalFrames(rows) = Len(Tagged(log))
      BY <2>1, <2>6, WalkTriaged
    <3> QED
      BY <2>1, <2>2, <3>1, <3>2
  <2> QED
    BY <2>1, <2>3, <2>5, <2>6 DEF TriageDescribesRun, BaseInv, TypeInv
<1>3. ASSUME NEW l \in Launches, Launch(l) PROVE outcome' # "ended"
  BY <1>3 DEF Launch
<1>4. CASE Kill
  BY <1>1, <1>4 DEF Kill
<1>5. ASSUME pc # "shell", outcome' = outcome PROVE TriageDescribesRun'
  BY <1>1, <1>5 DEF BaseInv, AskInv
<1>6. CASE Open \/ Arm \/ WalkEnds \/ CtrlC \/ (\E k \in Endings : Finalize(k[1], k[2]))
  BY <1>5, <1>6 DEF Open, Arm, WalkEnds, CtrlC, Finalize, history
<1>7. CASE RootLine \/ MarkNotRun \/ CloseSlice \/ WriteIndex \/ CloseRoot
  BY <1>5, <1>7 DEF RootLine, MarkNotRun, CloseSlice, WriteIndex, CloseRoot, history
<1>8. CASE SliceLine
  <2>1. pc # "shell"
    BY <1>8 DEF SliceLine, BaseInv, PhaseInv, Live
  <2> QED
    BY <1>5, <1>8, <2>1 DEF SliceLine, history
<1>9. CASE UNCHANGED vars
  BY <1>9 DEF vars, disk, walking, history, TriageDescribesRun, SummarizeSession, LoadIndex,
     CapabilitySlice
<1> QED
  BY <1>1, <1>2, <1>3, <1>4, <1>6, <1>7, <1>8, <1>9 DEF Next, Walk

\* After every run that reached its end, whatever earlier runs left in the directory,
\* summarize_session and extract_frames describe that run: the counts are those of its
\* meta.json, a row's slice is the range of the root log it gives, and the lines of an
\* id are its windows one after the other.
THEOREM TriageTrue == Spec => []TriageDescribesRun
<1>1. Init => TriageDescribesRun
  BY DEF Init, TriageDescribesRun
<1>2. BaseInv /\ WindowInv /\ RowInv /\ OrderInv /\ PieceInv /\ TaggedInv /\ TriageDescribesRun
        /\ [Next]_vars => TriageDescribesRun'
  BY TriageStep
<1> QED
  BY <1>1, <1>2, BaseSafe, RowsSafe, PiecesSafe, PTL DEF Spec

-----------------------------------------------------------------------------
(* Neither the log nor a slice has a line of the run.                      *)
NothingWritten ==
    /\ \A d \in DOMAIN slices : \A n \in 1..Len(slices[d]) : slices[d][n].run # run
    /\ log # NoFile => \A n \in 1..Len(log) : log[n].run # run

LEMMA RecoversNothing ==
  ASSUME TypeInv, NothingWritten
  PROVE  ExtractRecovers
<1> SUFFICES ASSUME NEW id \in Range(asked.ids)
             PROVE  LET found == OfRun(IF log = NoFile THEN <<>> ELSE ExtractFrames(log, id), run)
                    IN  /\ IsPrefix(Sliced(id), found)
                        /\ ~ raised => Len(found) <= Len(Sliced(id)) + 1
  BY DEF ExtractRecovers
<1> DEFINE lines == IF log = NoFile THEN <<>> ELSE ExtractFrames(log, id)
           old == {line \in Line : line.run # run}
<1>1. lines \in Seq(old)
  <2>1. CASE log = NoFile
    BY <2>1
  <2>2. CASE log # NoFile
    <3>1. log \in Seq(old)
      BY <2>2 DEF TypeInv, NothingWritten
    <3> HIDE DEF old
    <3> QED
      BY <2>2, <3>1, ExtractTyped
  <2> QED
    BY <2>1, <2>2
<1>2. OfRun(lines, run) = <<>>
  <2> HIDE DEF lines
  <2>1. lines \in Seq(Line) /\ \A n \in 1..Len(lines) : lines[n].run # run
    BY <1>1
  <2> QED
    BY <2>1, OfRunNone
<1>3. Sliced(id) = <<>>
  BY NothingSliced DEF NothingWritten
<1>4. IsPrefix(<<>>, <<>>) /\ Len(<<>>) <= Len(<<>>) + 1
  BY DEF IsPrefix
<1> QED
  BY <1>2, <1>3, <1>4

LEMMA RecoversLive ==
  ASSUME BaseInv, PieceInv, Live
  PROVE  ExtractRecovers
<1> USE DEF BaseInv
<1> SUFFICES ASSUME NEW id \in Range(asked.ids)
             PROVE  LET found == OfRun(IF log = NoFile THEN <<>> ELSE ExtractFrames(log, id), run)
                    IN  /\ IsPrefix(Sliced(id), found)
                        /\ ~ raised => Len(found) <= Len(Sliced(id)) + 1
  BY DEF ExtractRecovers
<1> DEFINE lines == ExtractFrames(log, id)
           new == {line \in Line : line.run = run}
<1>1. id \in Ids
  BY DEF Range, TypeInv
<1>2. log \in Seq(Line) /\ log # NoFile /\ \A n \in 1..Len(log) : log[n].run = run
  BY LaunchAssumption DEF LogInv
<1>3. lines \in Seq(new) /\ lines \in Seq(Line)
  <2>1. log \in Seq(new)
    BY <1>2
  <2> HIDE DEF new
  <2> QED
    BY <1>2, <2>1, ExtractTyped
<1>4. OfRun(lines, run) = lines
  <2> HIDE DEF lines
  <2>1. \A n \in 1..Len(lines) : lines[n].run = run
    BY <1>3
  <2> QED
    BY <1>3, <2>1, OfRunAll
<1>5. Sliced(id) \in Seq(Line) /\ Shown(id)
  BY <1>1, PiecesTyped DEF PieceInv
<1> HIDE DEF lines
<1>6. IsPrefix(Sliced(id), lines) /\ (raised = FALSE => Len(lines) <= Len(Sliced(id)) + 1)
  <2>1. CASE raised = TRUE /\ key = NoSlice
    BY <1>5, <2>1 DEF Shown, lines
  <2>2. CASE ~ (raised = TRUE /\ key = NoSlice) /\ ~ (half = TRUE /\ active = id)
    <3>1. lines = Sliced(id)
      BY <1>5, <2>2 DEF Shown, lines
    <3> QED
      BY <1>5, <3>1, PrefixOfItself
  <2>3. CASE ~ (raised = TRUE /\ key = NoSlice) /\ half = TRUE /\ active = id
    <3>1. PICK last \in Line : last = log[Len(log)]
      BY <1>2, <2>3 DEF LogInv
    <3>2. lines = Append(Sliced(id), last)
      BY <1>5, <2>3, <3>1 DEF Shown, lines
    <3>3. Len(lines) = Len(Sliced(id)) + 1 /\ Len(Sliced(id)) \in Nat
      BY <1>5, <3>2, OneEntryMore
    <3>4. IsPrefix(Sliced(id), lines)
      BY <1>5, <3>2, PrefixOfItself, PrefixOfMore
    <3> QED
      BY <3>3, <3>4
  <2> QED
    BY <2>1, <2>2, <2>3
<1> QED
  BY <1>2, <1>4, <1>6 DEF lines, TypeInv

LEMMA RecoversStep ==
  ASSUME BaseInv, BaseInv', SliceInv, SliceInv', PieceInv', ExtractRecovers, [Next]_vars
  PROVE  ExtractRecovers'
<1>1. ASSUME Live' PROVE ExtractRecovers'
  <2>1. BaseInv /\ PieceInv /\ Live => ExtractRecovers
    BY RecoversLive
  <2>2. BaseInv' /\ PieceInv' /\ Live' => ExtractRecovers'
    BY RecoversLive, PTL
  <2> QED
    BY <1>1, <2>2
<1>2. ASSUME NothingWritten' PROVE ExtractRecovers'
  <2>1. TypeInv' /\ NothingWritten' => ExtractRecovers'
    BY RecoversNothing, PTL
  <2> QED
    BY <1>2, <2>1 DEF BaseInv
<1>3. CASE pc' = "open"
  <2>1. \A d \in DOMAIN slices' : \A n \in 1..Len(slices'[d]) : slices'[d][n].run # run'
    BY <1>3 DEF SliceInv, Placed
  <2>2. ASSUME log' # NoFile, NEW n \in 1..Len(log') PROVE log'[n].run # run'
    <3>1. log' \in Seq(Line) /\ run' \in Nat
      BY <2>2 DEF BaseInv, TypeInv
    <3>2. log'[n] \in Line /\ log'[n].run < run'
      BY <1>3, <2>2, <3>1 DEF BaseInv, LogInv
    <3> QED
      BY <3>1, <3>2 DEF Line
  <2> QED
    BY <1>2, <2>1, <2>2 DEF NothingWritten
<1>4. CASE pc' = "shell"
  <2>1. CASE WriteMeta \/ Kill \/ UNCHANGED vars
    <3>1. /\ log' = log /\ slices' = slices /\ asked' = asked /\ run' = run /\ raised' = raised
      BY <2>1, Losing DEF WriteMeta, Kill, vars, disk, walking, history
    <3> QED
      BY <3>1 DEF ExtractRecovers, Sliced
  <2>2. ASSUME NEW l \in Launches, Launch(l) PROVE ExtractRecovers'
    <3>1. log' = log /\ slices' = slices /\ run' = run + 1 /\ run \in Nat
      BY <2>2 DEF Launch, disk, BaseInv, TypeInv
    <3>2. ASSUME NEW d \in DOMAIN slices, NEW n \in 1..Len(slices[d])
          PROVE  slices[d][n].run # run + 1
      <4>1. slices[d][n].run <= run /\ slices[d][n].run \in Nat
        BY LineOfSlice DEF SliceInv, Placed, BaseInv
      <4> QED
        BY <3>1, <4>1
    <3>3. ASSUME log # NoFile, NEW n \in 1..Len(log) PROVE log[n].run # run + 1
      <4>1. log \in Seq(Line)
        BY <3>3 DEF BaseInv, TypeInv
      <4>2. log[n].run <= run /\ log[n] \in Line
        BY <3>3, <4>1 DEF BaseInv, LogInv
      <4> QED
        BY <3>1, <4>2 DEF Line
    <3> QED
      BY <1>2, <3>1, <3>2, <3>3 DEF NothingWritten
  <2>3. \/ WriteMeta \/ Kill \/ UNCHANGED vars \/ \E l \in Launches : Launch(l)
    BY <1>4 DEF Next, Walk, Open, Arm, Finalize, WalkEnds, CtrlC, RootLine, SliceLine, MarkNotRun,
       CloseSlice, WriteIndex, CloseRoot, BaseInv, PhaseInv, Live
  <2> QED
    BY <2>1, <2>2, <2>3
<1> QED
  BY <1>1, <1>3, <1>4 DEF Live

\* extract_frames recovers the slices at any moment, so after a kill as well: of the
\* lines of the latest run it gives what the slices of the id have, in order, and at
\* most one line more.
THEOREM Recovers == Spec => []ExtractRecovers
<1>1. Init => ExtractRecovers
  BY DEF Init, ExtractRecovers, Range
<1>2. BaseInv /\ BaseInv' /\ SliceInv /\ SliceInv' /\ PieceInv' /\ ExtractRecovers
        /\ [Next]_vars => ExtractRecovers'
  BY RecoversStep
<1> QED
  BY <1>1, <1>2, BaseSafe, SlicesSafe, PiecesSafe, PTL DEF Spec

=============================================================================
