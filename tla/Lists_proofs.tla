---------------------------- MODULE Lists_proofs ----------------------------
(***************************************************************************)
(* What is proved of the columns of the lists and of what the lists ask    *)
(* for, two of the machines of Widgets_proofs.                             *)
(***************************************************************************)
EXTENDS Widgets_proofs

-----------------------------------------------------------------------------
(***************************************************************************)
(* Columns: what is saved is merged, laid out and displayed by choosing    *)
(* from sequences (Only).  What holds of the empty sequence, and of each   *)
(* with one more element, holds of all (ByAppending), since numbers have a *)
(* least one.                                                              *)
(***************************************************************************)

\* Sequences are built by appending.
LEMMA ByAppending ==
  ASSUME NEW C, NEW G, <<>> \in G,
         \A s \in Seq(C), x \in C : s \in G => Append(s, x) \in G
  PROVE  \A s \in Seq(C) : s \in G
<1> SUFFICES ASSUME NEW t \in Seq(C), t \notin G PROVE FALSE
  OBVIOUS
<1> DEFINE B == {n \in Nat : \E s \in Seq(C) : s \notin G /\ Len(s) = n}
<1>1. B \subseteq Nat /\ Len(t) \in B
  OBVIOUS
<1>2. PICK m \in B : \A n \in B : m <= n
  BY <1>1, LeastNatural
<1>3. PICK s \in Seq(C) : s \notin G /\ Len(s) = m
  OBVIOUS
<1>4. PICK r \in Seq(C), x \in C : s = Append(r, x)
  BY <1>3, SequenceEmptyOrAppend
<1>5. Len(r) \in Nat /\ m = Len(r) + 1
  BY <1>3, <1>4, AppendProperties
<1>6. r \in G
  BY <1>2, <1>5
<1> QED BY <1>3, <1>4, <1>6

\* f says, of each beginning of the sequence, what is wanted of it
Picks(f, s, wanted) ==
  f = [n \in 0 .. Len(s) |->
         IF n = 0 THEN <<>>
         ELSE IF s[n] \in wanted THEN Append(f[n - 1], s[n]) ELSE f[n - 1]]

\* There is only one way to pick what is wanted.
LEMMA PicksOnce ==
  ASSUME NEW s, Len(s) \in Nat, NEW wanted, NEW f, NEW g, Picks(f, s, wanted), Picks(g, s, wanted)
  PROVE  f = g
<1> DEFINE B == {n \in 0 .. Len(s) : f[n] # g[n]}
<1>1. SUFFICES ASSUME NEW k \in B PROVE FALSE
  BY DEF Picks
<1>2. B \subseteq Nat /\ B # {}
  BY <1>1
<1>3. PICK m \in B : \A n \in B : m <= n
  BY <1>2, LeastNatural
<1>4. m \in 0 .. Len(s) /\ f[m] # g[m]
  OBVIOUS
<1>5. m # 0
  BY <1>4 DEF Picks
<1>6. m - 1 \in 0 .. Len(s) /\ ~ (m <= m - 1)
  BY <1>4, <1>5
<1>7. f[m - 1] = g[m - 1]
  BY <1>3, <1>6
<1> QED BY <1>4, <1>5, <1>7 DEF Picks

\* It is what Only picks.
LEMMA OnlyIsPicked ==
  ASSUME NEW s, Len(s) \in Nat, NEW wanted, NEW f, Picks(f, s, wanted)
  PROVE  Only(s, wanted) = f[Len(s)]
<1> DEFINE g == CHOOSE h : Picks(h, s, wanted)
<1>1. Picks(g, s, wanted)
  <2> HIDE DEF Picks
  <2> QED OBVIOUS
<1>2. Only(s, wanted) = g[Len(s)]
  BY DEF Only, Picks
<1> HIDE DEF g
<1> QED BY <1>1, <1>2, PicksOnce

\* Of nothing, nothing is picked.
LEMMA OnlyOfNone ==
  ASSUME NEW wanted
  PROVE  Only(<<>>, wanted) = <<>>
<1> DEFINE f == [n \in 0 .. 0 |-> <<>>]
<1>1. Len(<<>>) = 0 /\ f[0] = <<>>
  OBVIOUS
<1>2. Picks(f, <<>>, wanted)
  BY <1>1 DEF Picks
<1> HIDE DEF f
<1> QED BY <1>1, <1>2, OnlyIsPicked

\* A sequence is picked from, step by step
Picked(C, s, wanted) == \E f \in [0 .. Len(s) -> Seq(C)] : Picks(f, s, wanted)

\* Picking goes on with what is appended.
LEMMA PickingGoesOn ==
  ASSUME NEW C, NEW s \in Seq(C), NEW x \in C, NEW wanted,
         NEW f \in [0 .. Len(s) -> Seq(C)], Picks(f, s, wanted)
  PROVE  /\ Picked(C, Append(s, x), wanted)
         /\ Only(Append(s, x), wanted)
              = IF x \in wanted THEN Append(f[Len(s)], x) ELSE f[Len(s)]
<1> DEFINE n == Len(s)
           t == Append(s, x)
           y == IF x \in wanted THEN Append(f[n], x) ELSE f[n]
           g == [k \in 0 .. (n + 1) |-> IF k <= n THEN f[k] ELSE y]
<1>1. n \in Nat /\ Len(t) = n + 1 /\ t[n + 1] = x /\ \A k \in 1 .. n : t[k] = s[k]
  BY AppendProperties
<1>2. f[n] \in Seq(C) /\ y \in Seq(C)
  BY <1>1, AppendProperties
<1>3. g \in [0 .. (n + 1) -> Seq(C)] /\ g[n + 1] = y
      /\ \A k \in 0 .. (n + 1) : g[k] = IF k <= n THEN f[k] ELSE y
  BY <1>1, <1>2
<1> HIDE DEF n, t, g
<1>4. \A k \in 0 .. n : f[k] = IF k = 0 THEN <<>>
                               ELSE IF s[k] \in wanted THEN Append(f[k - 1], s[k]) ELSE f[k - 1]
  BY DEF Picks, n
<1>5. ASSUME NEW k \in 0 .. (n + 1)
      PROVE  g[k] = IF k = 0 THEN <<>>
                    ELSE IF t[k] \in wanted THEN Append(g[k - 1], t[k]) ELSE g[k - 1]
  <2>1. CASE k = n + 1
    <3>1. k # 0 /\ k - 1 = n /\ n \in 0 .. (n + 1) /\ n <= n
      BY <1>1, <2>1
    <3>2. g[k - 1] = f[n]
      BY <1>3, <3>1
    <3> QED BY <1>1, <1>3, <2>1, <3>1, <3>2
  <2>2. CASE k # n + 1
    <3>1. k \in 0 .. n /\ k <= n /\ (k # 0 => k \in 1 .. n /\ k - 1 \in 0 .. (n + 1) /\ k - 1 <= n)
      BY <1>1, <2>2
    <3>2. k # 0 => g[k - 1] = f[k - 1] /\ t[k] = s[k]
      BY <1>1, <1>3, <3>1
    <3> QED BY <1>3, <1>4, <3>1, <3>2
  <2> QED BY <2>1, <2>2
<1>6. Picks(g, t, wanted)
  BY <1>1, <1>3, <1>5 DEF Picks
<1>7. Only(t, wanted) = g[n + 1]
  BY <1>1, <1>6, OnlyIsPicked
<1>8. Picked(C, t, wanted)
  BY <1>1, <1>3, <1>6 DEF Picked
<1> QED BY <1>3, <1>7, <1>8 DEF t, n

\* What is wanted can be picked of every sequence.
LEMMA EverySequencePicked ==
  ASSUME NEW C, NEW wanted
  PROVE  \A s \in Seq(C) : Picked(C, s, wanted)
<1> DEFINE G == {s \in Seq(C) : Picked(C, s, wanted)}
<1>1. <<>> \in G
  <2> DEFINE f == [n \in 0 .. 0 |-> <<>>]
  <2>1. f \in [0 .. Len(<<>>) -> Seq(C)] /\ Picks(f, <<>>, wanted)
    BY DEF Picks
  <2> QED BY <2>1 DEF Picked
<1>2. ASSUME NEW s \in Seq(C), NEW x \in C, s \in G PROVE Append(s, x) \in G
  BY <1>2, PickingGoesOn DEF Picked
<1> HIDE DEF G
<1>3. \A s \in Seq(C) : s \in G
  BY <1>1, <1>2, ByAppending
<1> QED BY <1>3 DEF G

\* What is picked of a sequence with one more.
LEMMA OnlyOfMore ==
  ASSUME NEW C, NEW s \in Seq(C), NEW x \in C, NEW wanted
  PROVE  /\ Only(s, wanted) \in Seq(C)
         /\ Only(Append(s, x), wanted)
              = IF x \in wanted THEN Append(Only(s, wanted), x) ELSE Only(s, wanted)
<1>1. PICK f \in [0 .. Len(s) -> Seq(C)] : Picks(f, s, wanted)
  BY EverySequencePicked DEF Picked
<1>2. Len(s) \in Nat /\ f[Len(s)] \in Seq(C)
  OBVIOUS
<1>3. Only(s, wanted) = f[Len(s)]
  BY <1>1, <1>2, OnlyIsPicked
<1> QED BY <1>1, <1>2, <1>3, PickingGoesOn

\* The same, said of all sequences.
LEMMA OnlyOfAnyMore ==
  ASSUME NEW C, NEW wanted
  PROVE  \A s \in Seq(C), x \in C :
           Only(Append(s, x), wanted) = IF x \in wanted THEN Append(Only(s, wanted), x) ELSE Only(s, wanted)
BY OnlyOfMore

\* One more element is one more in the range.
LEMMA RangeOfMore ==
  ASSUME NEW C, NEW s \in Seq(C), NEW x \in C
  PROVE  Range(Append(s, x)) = Range(s) \cup {x}
<1>1. Len(s) \in Nat /\ Append(s, x) \in Seq(C) /\ Len(Append(s, x)) = Len(s) + 1
      /\ Append(s, x)[Len(s) + 1] = x /\ \A i \in 1 .. Len(s) : Append(s, x)[i] = s[i]
  BY AppendProperties
<1>2. 1 .. (Len(s) + 1) = (1 .. Len(s)) \cup {Len(s) + 1}
  BY <1>1
<1>3. Range(Append(s, x)) = {Append(s, x)[i] : i \in 1 .. (Len(s) + 1)}
  BY <1>1, RangeEquality
<1>4. Range(s) = {s[i] : i \in 1 .. Len(s)}
  BY RangeEquality
<1> QED BY <1>1, <1>2, <1>3, <1>4

\* What is picked is what is there and wanted.
LEMMA RangeOfOnly ==
  ASSUME NEW C, NEW wanted
  PROVE  \A s \in Seq(C) : Only(s, wanted) \in Seq(C) /\ Range(Only(s, wanted)) = Range(s) \cap wanted
<1> DEFINE G == {s \in Seq(C) : /\ Only(s, wanted) \in Seq(C)
                                /\ Range(Only(s, wanted)) = Range(s) \cap wanted}
<1>1. <<>> \in G
  <2>1. Range(<<>>) = {} /\ Only(<<>>, wanted) = <<>> /\ <<>> \in Seq(C)
    BY OnlyOfNone DEF Range
  <2> QED BY <2>1
<1>2. ASSUME NEW s \in Seq(C), NEW x \in C, s \in G PROVE Append(s, x) \in G
  <2>1. Append(s, x) \in Seq(C) /\ Range(Append(s, x)) = Range(s) \cup {x}
    BY AppendProperties, RangeOfMore
  <2>2. Only(s, wanted) \in Seq(C) /\ Range(Only(s, wanted)) = Range(s) \cap wanted
    BY <1>2
  <2>3. CASE x \in wanted
    <3>1. Only(Append(s, x), wanted) = Append(Only(s, wanted), x)
      BY <2>3, OnlyOfMore
    <3>2. /\ Append(Only(s, wanted), x) \in Seq(C)
          /\ Range(Append(Only(s, wanted), x)) = Range(Only(s, wanted)) \cup {x}
      BY <2>2, AppendProperties, RangeOfMore
    <3> QED BY <2>1, <2>2, <2>3, <3>1, <3>2
  <2>4. CASE x \notin wanted
    <3>1. Only(Append(s, x), wanted) = Only(s, wanted)
      BY <2>4, OnlyOfMore
    <3> QED BY <2>1, <2>2, <2>4, <3>1
  <2> QED BY <2>3, <2>4
<1> HIDE DEF G
<1>3. \A s \in Seq(C) : s \in G
  BY <1>1, <1>2, ByAppending
<1> QED BY <1>3 DEF G

\* Appending to what is joined.
LEMMA JoinedAppended ==
  ASSUME NEW C, NEW r \in Seq(C), NEW s \in Seq(C), NEW x \in C
  PROVE  r \o Append(s, x) = Append(r \o s, x)
<1>1. <<x>> \in Seq(C) /\ r \o s \in Seq(C)
  BY ConcatProperties
<1>2. Append(s, x) = s \o <<x>> /\ Append(r \o s, x) = (r \o s) \o <<x>>
  BY <1>1, AppendIsConcat
<1> QED BY <1>1, <1>2, ConcatAssociative

\* What is picked of two, joined, is picked of each.
LEMMA OnlyOfJoined ==
  ASSUME NEW C, NEW wanted, NEW r \in Seq(C)
  PROVE  \A s \in Seq(C) : Only(r \o s, wanted) = Only(r, wanted) \o Only(s, wanted)
<1> DEFINE G == {s \in Seq(C) : Only(r \o s, wanted) = Only(r, wanted) \o Only(s, wanted)}
<1>0. Only(r, wanted) \in Seq(C)
  BY RangeOfOnly
<1>1. <<>> \in G
  BY <1>0, OnlyOfNone, ConcatEmptySeq
<1>2. ASSUME NEW s \in Seq(C), NEW x \in C, s \in G PROVE Append(s, x) \in G
  <2>1. Append(s, x) \in Seq(C) /\ r \o s \in Seq(C) /\ r \o Append(s, x) = Append(r \o s, x)
    BY AppendProperties, ConcatProperties, JoinedAppended
  <2>2. Only(s, wanted) \in Seq(C) /\ Only(r \o s, wanted) = Only(r, wanted) \o Only(s, wanted)
    BY <1>2, RangeOfOnly
  <2>3. CASE x \in wanted
    <3>1. /\ Only(Append(r \o s, x), wanted) = Append(Only(r \o s, wanted), x)
          /\ Only(Append(s, x), wanted) = Append(Only(s, wanted), x)
      BY <2>1, <2>3, OnlyOfMore
    <3>2. Only(r, wanted) \o Append(Only(s, wanted), x) = Append(Only(r, wanted) \o Only(s, wanted), x)
      BY <1>0, <2>2, JoinedAppended
    <3> QED BY <2>1, <2>2, <3>1, <3>2
  <2>4. CASE x \notin wanted
    <3>1. \A t \in Seq(C) : Only(Append(t, x), wanted) = Only(t, wanted)
      BY <2>4, OnlyOfMore
    <3> QED BY <2>1, <2>2, <3>1
  <2> QED BY <2>3, <2>4
<1> HIDE DEF G
<1>3. \A s \in Seq(C) : s \in G
  BY <1>1, <1>2, ByAppending
<1> QED BY <1>3 DEF G

\* Picking twice is picking what is wanted both times.
LEMMA OnlyOfOnly ==
  ASSUME NEW C, NEW P, NEW Q
  PROVE  \A s \in Seq(C) : Only(Only(s, P), Q) = Only(s, P \cap Q)
<1> DEFINE R == P \cap Q
           G == {s \in Seq(C) : Only(Only(s, P), Q) = Only(s, R)}
<1>1. <<>> \in G
  BY OnlyOfNone
<1>2. ASSUME NEW s \in Seq(C), NEW x \in C, s \in G PROVE Append(s, x) \in G
  <2>1. Append(s, x) \in Seq(C) /\ Only(s, P) \in Seq(C)
    BY AppendProperties, RangeOfOnly
  <2>2. Only(Append(s, x), P) = IF x \in P THEN Append(Only(s, P), x) ELSE Only(s, P)
    BY OnlyOfMore
  <2>3. Only(Append(s, x), R) = IF x \in R THEN Append(Only(s, R), x) ELSE Only(s, R)
    <3> HIDE DEF R
    <3> QED BY OnlyOfMore
  <2>4. Only(Append(Only(s, P), x), Q)
          = IF x \in Q THEN Append(Only(Only(s, P), Q), x) ELSE Only(Only(s, P), Q)
    BY <2>1, OnlyOfMore
  <2>5. Only(Only(s, P), Q) = Only(s, R)
    BY <1>2
  <2>6. x \in R <=> x \in P /\ x \in Q
    OBVIOUS
  <2> HIDE DEF R
  <2>7. CASE x \in P /\ x \in Q
    BY <2>1, <2>2, <2>3, <2>4, <2>5, <2>6, <2>7
  <2>8. CASE x \in P /\ x \notin Q
    BY <2>1, <2>2, <2>3, <2>4, <2>5, <2>6, <2>8
  <2>9. CASE x \notin P
    BY <2>1, <2>2, <2>3, <2>5, <2>6, <2>9
  <2> QED BY <2>7, <2>8, <2>9
<1> HIDE DEF G
<1>3. \A s \in Seq(C) : s \in G
  BY <1>1, <1>2, ByAppending
<1> QED BY <1>3 DEF G

\* All is picked when all is wanted, and nothing when nothing is.
LEMMA OnlyAllOrNone ==
  ASSUME NEW C, NEW wanted
  PROVE  \A s \in Seq(C) : /\ Range(s) \subseteq wanted => Only(s, wanted) = s
                           /\ Range(s) \cap wanted = {} => Only(s, wanted) = <<>>
<1> DEFINE G == {s \in Seq(C) : /\ Range(s) \subseteq wanted => Only(s, wanted) = s
                                /\ Range(s) \cap wanted = {} => Only(s, wanted) = <<>>}
<1>1. <<>> \in G
  BY OnlyOfNone
<1>2. ASSUME NEW s \in Seq(C), NEW x \in C, s \in G PROVE Append(s, x) \in G
  <2>1. Append(s, x) \in Seq(C) /\ Range(Append(s, x)) = Range(s) \cup {x}
    BY AppendProperties, RangeOfMore
  <2>2. Only(Append(s, x), wanted) = IF x \in wanted THEN Append(Only(s, wanted), x) ELSE Only(s, wanted)
    BY OnlyOfMore
  <2>3. /\ Range(s) \subseteq wanted => Only(s, wanted) = s
        /\ Range(s) \cap wanted = {} => Only(s, wanted) = <<>>
    BY <1>2
  <2>4. Range(Append(s, x)) \subseteq wanted => Only(Append(s, x), wanted) = Append(s, x)
    BY <2>1, <2>2, <2>3
  <2>5. Range(Append(s, x)) \cap wanted = {} => Only(Append(s, x), wanted) = <<>>
    BY <2>1, <2>2, <2>3
  <2> QED BY <2>1, <2>4, <2>5
<1> HIDE DEF G
<1>3. \A s \in Seq(C) : s \in G
  BY <1>1, <1>2, ByAppending
<1> QED BY <1>3 DEF G

\* Only what is there is picked.
LEMMA OnlyOfWhatIsThere ==
  ASSUME NEW C, NEW s \in Seq(C), NEW P, NEW Q, Range(s) \cap P = Range(s) \cap Q
  PROVE  Only(s, P) = Only(s, Q)
<1>1. Only(s, Range(s)) = s
  BY OnlyAllOrNone
<1>2. Only(Only(s, Range(s)), P) = Only(s, Range(s) \cap P)
  BY OnlyOfOnly
<1>3. Only(Only(s, Range(s)), Q) = Only(s, Range(s) \cap Q)
  BY OnlyOfOnly
<1> QED BY <1>1, <1>2, <1>3

\* The ids of what is there.
LEMMA IdsOfRange ==
  ASSUME NEW s \in Seq(ColumnStates)
  PROVE  Range(ColIds(s)) = {c.colId : c \in Range(s)}
BY DEF ColIds, Range

\* Ids are distinct, position by position.
LEMMA DistinctIds ==
  ASSUME NEW s \in Seq(ColumnStates)
  PROVE  IsInjective(ColIds(s)) <=> \A i, j \in 1 .. Len(s) : s[i].colId = s[j].colId => i = j
<1>1. DOMAIN ColIds(s) = 1 .. Len(s) /\ \A i \in 1 .. Len(s) : ColIds(s)[i] = s[i].colId
  BY DEF ColIds
<1> QED BY <1>1 DEF IsInjective

\* Two sequences with distinct ids that share none, joined.
LEMMA DistinctJoined ==
  ASSUME NEW r \in Seq(ColumnStates), NEW s \in Seq(ColumnStates),
         IsInjective(ColIds(r)), IsInjective(ColIds(s)),
         Range(ColIds(r)) \cap Range(ColIds(s)) = {}
  PROVE  IsInjective(ColIds(r \o s))
<1> DEFINE t == r \o s
           m == Len(r)
           n == Len(s)
<1>1. /\ m \in Nat /\ n \in Nat /\ t \in Seq(ColumnStates) /\ Len(t) = m + n
      /\ \A i \in 1 .. (m + n) : t[i] = IF i <= m THEN r[i] ELSE s[i - m]
  BY ConcatProperties
<1>2. /\ \A i, j \in 1 .. m : r[i].colId = r[j].colId => i = j
      /\ \A i, j \in 1 .. n : s[i].colId = s[j].colId => i = j
  BY DistinctIds
<1>3. \A i \in 1 .. m, j \in 1 .. n : r[i].colId # s[j].colId
  <2>1. ASSUME NEW i \in 1 .. m, NEW j \in 1 .. n PROVE r[i].colId # s[j].colId
    <3>1. r[i] \in Range(r) /\ s[j] \in Range(s)
      BY RangeEquality
    <3>2. r[i].colId \in Range(ColIds(r)) /\ s[j].colId \in Range(ColIds(s))
      BY <3>1, IdsOfRange
    <3> QED BY <3>2
  <2> QED BY <2>1
<1> HIDE DEF t, m, n
<1>4. ASSUME NEW i \in 1 .. (m + n), NEW j \in 1 .. (m + n), t[i].colId = t[j].colId PROVE i = j
  <2>1. CASE i <= m /\ j <= m
    BY <1>1, <1>2, <1>4, <2>1
  <2>2. CASE ~ (i <= m) /\ ~ (j <= m)
    <3>1. i - m \in 1 .. n /\ j - m \in 1 .. n
      BY <1>1, <2>2
    <3>2. i - m = j - m
      BY <1>1, <1>2, <1>4, <2>2, <3>1
    <3> QED BY <1>1, <3>2
  <2>3. CASE i <= m /\ ~ (j <= m)
    <3>1. i \in 1 .. m /\ j - m \in 1 .. n
      BY <1>1, <2>3
    <3> QED BY <1>1, <1>3, <1>4, <2>3, <3>1
  <2>4. CASE ~ (i <= m) /\ j <= m
    <3>1. j \in 1 .. m /\ i - m \in 1 .. n
      BY <1>1, <2>4
    <3> QED BY <1>1, <1>3, <1>4, <2>4, <3>1
  <2> QED BY <2>1, <2>2, <2>3, <2>4
<1>5. IsInjective(ColIds(t))
  BY <1>1, <1>4, DistinctIds
<1> QED BY <1>5 DEF t

\* One more id that is not there yet leaves the ids distinct, and only such a one.
LEMMA DistinctAppended ==
  ASSUME NEW s \in Seq(ColumnStates), NEW x \in ColumnStates
  PROVE  IsInjective(ColIds(Append(s, x)))
           <=> IsInjective(ColIds(s)) /\ x.colId \notin Range(ColIds(s))
<1> DEFINE t == Append(s, x)
           n == Len(s)
<1>1. /\ n \in Nat /\ t \in Seq(ColumnStates) /\ Len(t) = n + 1
      /\ t[n + 1] = x /\ \A i \in 1 .. n : t[i] = s[i]
  BY AppendProperties
<1>2. x.colId \in Range(ColIds(s)) <=> \E i \in 1 .. n : s[i].colId = x.colId
  BY IdsOfRange, RangeEquality
<1>3. IsInjective(ColIds(s)) <=> \A i, j \in 1 .. n : s[i].colId = s[j].colId => i = j
  BY DistinctIds
<1> HIDE DEF t, n
<1>4. IsInjective(ColIds(t)) <=> \A i, j \in 1 .. (n + 1) : t[i].colId = t[j].colId => i = j
  BY <1>1, DistinctIds
<1>5. /\ \A i \in 1 .. n : i \in 1 .. (n + 1) /\ i # n + 1
      /\ \A i \in 1 .. (n + 1) : i \in 1 .. n \/ i = n + 1
      /\ n + 1 \in 1 .. (n + 1)
  BY <1>1
<1>6. (\A i, j \in 1 .. (n + 1) : t[i].colId = t[j].colId => i = j)
        <=> /\ \A i, j \in 1 .. n : s[i].colId = s[j].colId => i = j
            /\ \A i \in 1 .. n : s[i].colId # x.colId
  BY <1>1, <1>5
<1>7. IsInjective(ColIds(t)) <=> IsInjective(ColIds(s)) /\ x.colId \notin Range(ColIds(s))
  BY <1>2, <1>3, <1>4, <1>6
<1> QED BY <1>7 DEF t

\* What is picked of distinct ids has distinct ids.
LEMMA DistinctPicked ==
  ASSUME NEW wanted
  PROVE  \A s \in Seq(ColumnStates) : IsInjective(ColIds(s)) => IsInjective(ColIds(Only(s, wanted)))
<1> DEFINE C == ColumnStates
           G == {s \in Seq(C) : IsInjective(ColIds(s)) => IsInjective(ColIds(Only(s, wanted)))}
<1>1. <<>> \in G
  <2>1. Only(<<>>, wanted) = <<>> /\ <<>> \in Seq(C)
    BY OnlyOfNone
  <2> QED BY <2>1
<1>2. ASSUME NEW s \in Seq(C), NEW x \in C, s \in G PROVE Append(s, x) \in G
  <2>1. Append(s, x) \in Seq(C) /\ Only(s, wanted) \in Seq(C)
        /\ Range(Only(s, wanted)) = Range(s) \cap wanted
    BY AppendProperties, RangeOfOnly
  <2>2. Only(Append(s, x), wanted) = IF x \in wanted THEN Append(Only(s, wanted), x) ELSE Only(s, wanted)
    BY OnlyOfMore
  <2>3. SUFFICES ASSUME IsInjective(ColIds(Append(s, x)))
                 PROVE  IsInjective(ColIds(Only(Append(s, x), wanted)))
    BY <2>1
  <2>4. IsInjective(ColIds(s)) /\ x.colId \notin Range(ColIds(s))
    BY <2>3, DistinctAppended
  <2>5. IsInjective(ColIds(Only(s, wanted)))
    BY <1>2, <2>4
  <2>6. Range(ColIds(Only(s, wanted))) \subseteq Range(ColIds(s))
    BY <2>1, IdsOfRange
  <2>7. IsInjective(ColIds(Append(Only(s, wanted), x)))
    BY <2>1, <2>4, <2>5, <2>6, DistinctAppended
  <2> QED BY <2>2, <2>5, <2>7
<1> HIDE DEF C, G
<1>3. \A s \in Seq(C) : s \in G
  BY <1>1, <1>2, ByAppending
<1> QED BY <1>3 DEF C, G

\* A column as it is laid out
LaidColumn(c) == IF c.colId \in FlexColumns THEN [c EXCEPT !.width = DefinedWidth] ELSE c

\* Only its width changes, once.
LEMMA LaidColumnFacts ==
  ASSUME NEW c \in ColumnStates
  PROVE  /\ LaidColumn(c) \in ColumnStates
         /\ LaidColumn(c).colId = c.colId /\ LaidColumn(c).pinned = c.pinned
         /\ LaidColumn(c).width = IF c.colId \in FlexColumns THEN DefinedWidth ELSE c.width
         /\ LaidColumn(LaidColumn(c)) = LaidColumn(c)
BY DEF LaidColumn, ColumnStates, Widths

\* Columns are laid out one by one.
LEMMA LaidFacts ==
  ASSUME NEW s \in Seq(ColumnStates)
  PROVE  /\ Laid(s) \in Seq(ColumnStates) /\ Len(Laid(s)) = Len(s)
         /\ \A i \in 1 .. Len(s) : Laid(s)[i] = LaidColumn(s[i])
         /\ ColIds(Laid(s)) = ColIds(s) /\ Laid(Laid(s)) = Laid(s)
<1> DEFINE n == Len(s)
           t == [i \in 1 .. n |-> LaidColumn(s[i])]
<1>1. n \in Nat /\ DOMAIN s = 1 .. n /\ \A i \in 1 .. n : s[i] \in ColumnStates
  OBVIOUS
<1>2. Laid(s) = t
  BY <1>1 DEF Laid, LaidColumn
<1>3. \A i \in 1 .. n : t[i] = LaidColumn(s[i]) /\ LaidColumn(s[i]) \in ColumnStates
  BY <1>1, LaidColumnFacts
<1>4. t \in [1 .. n -> ColumnStates]
  BY <1>3
<1>5. t \in Seq(ColumnStates) /\ Len(t) = n /\ DOMAIN t = 1 .. n
  BY <1>1, <1>4
<1> HIDE DEF t, n
<1>6. ColIds(t) = ColIds(s)
  BY <1>1, <1>3, <1>5, LaidColumnFacts DEF ColIds
<1>7. Laid(t) = t
  <2>1. Laid(t) = [i \in 1 .. n |-> LaidColumn(t[i])]
    BY <1>5 DEF Laid, LaidColumn
  <2>2. \A i \in 1 .. n : LaidColumn(t[i]) = t[i]
    BY <1>1, <1>3, LaidColumnFacts
  <2>3. t = [i \in 1 .. n |-> t[i]]
    BY <1>4
  <2> QED BY <2>1, <2>2, <2>3
<1> QED BY <1>1, <1>2, <1>3, <1>5, <1>6, <1>7 DEF n

\* One more is laid out beside the others.
LEMMA LaidAppended ==
  ASSUME NEW s \in Seq(ColumnStates), NEW x \in ColumnStates
  PROVE  Laid(Append(s, x)) = Append(Laid(s), LaidColumn(x))
<1> DEFINE n == Len(s)
           t == Append(s, x)
           y == LaidColumn(x)
           u == Append(Laid(s), y)
<1>1. /\ n \in Nat /\ t \in Seq(ColumnStates) /\ Len(t) = n + 1
      /\ t[n + 1] = x /\ \A i \in 1 .. n : t[i] = s[i]
  BY AppendProperties
<1>2. y \in ColumnStates /\ Laid(s) \in Seq(ColumnStates) /\ Len(Laid(s)) = n
      /\ \A i \in 1 .. n : Laid(s)[i] = LaidColumn(s[i])
  BY LaidFacts, LaidColumnFacts
<1>3. /\ u \in Seq(ColumnStates) /\ Len(u) = n + 1
      /\ u[n + 1] = y /\ \A i \in 1 .. n : u[i] = Laid(s)[i]
  BY <1>2, AppendProperties
<1>4. /\ Laid(t) \in Seq(ColumnStates) /\ Len(Laid(t)) = n + 1
      /\ \A i \in 1 .. (n + 1) : Laid(t)[i] = LaidColumn(t[i])
  BY <1>1, LaidFacts
<1> HIDE DEF n, t, u
<1>5. ASSUME NEW i \in 1 .. (n + 1) PROVE Laid(t)[i] = u[i]
  <2>1. CASE i = n + 1
    BY <1>1, <1>3, <1>4, <2>1
  <2>2. CASE i # n + 1
    <3>1. i \in 1 .. n
      BY <1>1, <2>2
    <3> QED BY <1>1, <1>2, <1>3, <1>4, <3>1
  <2> QED BY <2>1, <2>2
<1>6. Laid(t) = u
  BY <1>3, <1>4, <1>5, SeqEqual
<1> QED BY <1>6 DEF t, u

\* Two, joined, are laid out each.
LEMMA LaidJoined ==
  ASSUME NEW r \in Seq(ColumnStates), NEW s \in Seq(ColumnStates)
  PROVE  Laid(r \o s) = Laid(r) \o Laid(s)
<1> DEFINE m == Len(r)
           n == Len(s)
           t == r \o s
           p == Laid(r)
           q == Laid(s)
           u == p \o q
<1>1. /\ m \in Nat /\ n \in Nat /\ t \in Seq(ColumnStates) /\ Len(t) = m + n
      /\ \A i \in 1 .. (m + n) : t[i] = IF i <= m THEN r[i] ELSE s[i - m]
  BY ConcatProperties
<1>2. p \in Seq(ColumnStates) /\ Len(p) = m /\ \A i \in 1 .. m : p[i] = LaidColumn(r[i])
  BY LaidFacts
<1>3. q \in Seq(ColumnStates) /\ Len(q) = n /\ \A i \in 1 .. n : q[i] = LaidColumn(s[i])
  BY LaidFacts
<1>4. /\ u \in Seq(ColumnStates) /\ Len(u) = m + n
      /\ \A i \in 1 .. (m + n) : u[i] = IF i <= m THEN p[i] ELSE q[i - m]
  <2> HIDE DEF p, q, m, n
  <2> QED BY <1>2, <1>3, ConcatProperties
<1>5. /\ Laid(t) \in Seq(ColumnStates) /\ Len(Laid(t)) = m + n
      /\ \A i \in 1 .. (m + n) : Laid(t)[i] = LaidColumn(t[i])
  BY <1>1, LaidFacts
<1> HIDE DEF m, n, t, p, q, u
<1>6. ASSUME NEW i \in 1 .. (m + n) PROVE Laid(t)[i] = u[i]
  <2>1. CASE i <= m
    BY <1>1, <1>2, <1>4, <1>5, <2>1
  <2>2. CASE ~ (i <= m)
    <3>1. i - m \in 1 .. n
      BY <1>1, <2>2
    <3> QED BY <1>1, <1>3, <1>4, <1>5, <2>2, <3>1
  <2> QED BY <2>1, <2>2
<1>7. Laid(t) = u
  BY <1>1, <1>4, <1>5, <1>6, SeqEqual
<1> QED BY <1>7 DEF t, u, p, q

\* Columns that are wanted whatever their width are picked before or after they are laid out.
LEMMA OnlyOfLaid ==
  ASSUME NEW wanted, \A c \in ColumnStates : LaidColumn(c) \in wanted <=> c \in wanted
  PROVE  \A s \in Seq(ColumnStates) : Only(Laid(s), wanted) = Laid(Only(s, wanted))
<1> DEFINE C == ColumnStates
           G == {s \in Seq(C) : Only(Laid(s), wanted) = Laid(Only(s, wanted))}
<1>1. <<>> \in G
  <2>1. Only(<<>>, wanted) = <<>> /\ <<>> \in Seq(C) /\ Laid(<<>>) = <<>>
    BY OnlyOfNone DEF Laid
  <2> QED BY <2>1
<1>2. ASSUME NEW s \in Seq(C), NEW x \in C, s \in G PROVE Append(s, x) \in G
  <2>1. Append(s, x) \in Seq(C) /\ Only(s, wanted) \in Seq(C) /\ Laid(s) \in Seq(C)
        /\ LaidColumn(x) \in C
    BY AppendProperties, RangeOfOnly, LaidFacts, LaidColumnFacts
  <2>2. Only(Append(s, x), wanted) = IF x \in wanted THEN Append(Only(s, wanted), x) ELSE Only(s, wanted)
    BY OnlyOfMore
  <2>3. Laid(Append(s, x)) = Append(Laid(s), LaidColumn(x))
    BY LaidAppended
  <2>4. Only(Append(Laid(s), LaidColumn(x)), wanted)
          = IF LaidColumn(x) \in wanted THEN Append(Only(Laid(s), wanted), LaidColumn(x))
            ELSE Only(Laid(s), wanted)
    <3> HIDE DEF C
    <3> QED BY <2>1, OnlyOfAnyMore
  <2>5. Laid(Append(Only(s, wanted), x)) = Append(Laid(Only(s, wanted)), LaidColumn(x))
    BY <2>1, LaidAppended
  <2>6. Only(Laid(s), wanted) = Laid(Only(s, wanted)) /\ (LaidColumn(x) \in wanted <=> x \in wanted)
    BY <1>2
  <2>7. Only(Laid(Append(s, x)), wanted) = Laid(Only(Append(s, x), wanted))
    BY <2>2, <2>3, <2>4, <2>5, <2>6
  <2> QED BY <2>1, <2>7
<1> HIDE DEF C, G
<1>3. \A s \in Seq(C) : s \in G
  BY <1>1, <1>2, ByAppending
<1> QED BY <1>3 DEF C, G

\* Those of some ids, pinned ones, and the others, are such.
LEMMA WantedWhateverTheWidth ==
  /\ \A ids, c : c \in ColumnStates =>
       (LaidColumn(c) \in OfColumns(ids) <=> c \in OfColumns(ids))
  /\ \A c \in ColumnStates : /\ LaidColumn(c) \in Pinned <=> c \in Pinned
                             /\ LaidColumn(c) \in ColumnStates \ Pinned <=> c \in ColumnStates \ Pinned
BY LaidColumnFacts DEF OfColumns, Pinned

\* The pinned columns are the first
PinnedLead(s) == \A i, j \in 1 .. Len(s) : i < j /\ s[j].pinned => s[i].pinned

\* What is displayed are the columns there are, the pinned ones first.
LEMMA DisplayedFacts ==
  ASSUME NEW s \in Seq(ColumnStates)
  PROVE  /\ Displayed(s) \in Seq(ColumnStates) /\ PinnedLead(Displayed(s))
         /\ Range(Displayed(s)) = Range(s) /\ Range(ColIds(Displayed(s))) = Range(ColIds(s))
         /\ IsInjective(ColIds(s)) => IsInjective(ColIds(Displayed(s)))
<1> DEFINE N == ColumnStates \ Pinned
           p == Only(s, Pinned)
           q == Only(s, N)
           m == Len(p)
           n == Len(q)
<1>1. /\ p \in Seq(ColumnStates) /\ Range(p) = Range(s) \cap Pinned
      /\ q \in Seq(ColumnStates) /\ Range(q) = Range(s) \cap N
  BY RangeOfOnly
<1>2. Displayed(s) = p \o q
  BY DEF Displayed
<1>3. IsInjective(ColIds(s)) => IsInjective(ColIds(p)) /\ IsInjective(ColIds(q))
  BY DistinctPicked
<1> HIDE DEF p, q, N
<1>4. /\ m \in Nat /\ n \in Nat /\ p \o q \in Seq(ColumnStates) /\ Len(p \o q) = m + n
      /\ \A i \in 1 .. (m + n) : (p \o q)[i] = IF i <= m THEN p[i] ELSE q[i - m]
  BY <1>1, ConcatProperties
<1>5. Range(p \o q) = Range(s)
  <2>1. Range(p \o q) = Range(p) \cup Range(q)
    BY <1>1, RangeConcatenation
  <2>2. Range(s) \subseteq ColumnStates
    BY RangeOfSeq
  <2> QED BY <1>1, <2>1, <2>2 DEF N
<1>6. Range(ColIds(p \o q)) = Range(ColIds(s))
  BY <1>4, <1>5, IdsOfRange
<1>7. PinnedLead(p \o q)
  <2>1. \A i \in 1 .. m : p[i].pinned
    BY <1>1, RangeEquality DEF Pinned
  <2>2. \A i \in 1 .. n : ~ q[i].pinned
    BY <1>1, RangeEquality DEF Pinned, N
  <2> HIDE DEF m, n
  <2>3. ASSUME NEW i \in 1 .. (m + n), NEW j \in 1 .. (m + n), i < j, (p \o q)[j].pinned
        PROVE  (p \o q)[i].pinned
    <3>1. CASE j <= m
      <4>1. i \in 1 .. m /\ i <= m
        BY <1>4, <2>3, <3>1
      <4> QED BY <1>4, <2>1, <4>1
    <3>2. CASE ~ (j <= m)
      <4>1. j - m \in 1 .. n
        BY <1>4, <3>2
      <4> QED BY <1>4, <2>2, <2>3, <3>2, <4>1
    <3> QED BY <3>1, <3>2
  <2> QED BY <1>4, <2>3 DEF PinnedLead
<1>8. IsInjective(ColIds(s)) => IsInjective(ColIds(p \o q))
  <2>1. SUFFICES ASSUME IsInjective(ColIds(s)) PROVE IsInjective(ColIds(p \o q))
    OBVIOUS
  <2>2. \A i, j \in 1 .. Len(s) : s[i].colId = s[j].colId => i = j
    BY <2>1, DistinctIds
  <2>3. \A c, d \in Range(s) : c.colId = d.colId => c = d
    BY <2>2, RangeEquality
  <2>4. Range(ColIds(p)) \cap Range(ColIds(q)) = {}
    <3>1. ASSUME NEW c \in Range(p), NEW d \in Range(q) PROVE c.colId # d.colId
      BY <1>1, <2>3 DEF N
    <3>2. Range(ColIds(p)) = {c.colId : c \in Range(p)} /\ Range(ColIds(q)) = {c.colId : c \in Range(q)}
      BY <1>1, IdsOfRange
    <3> QED BY <3>1, <3>2
  <2> QED BY <1>1, <1>3, <2>1, <2>4, DistinctJoined
<1> QED BY <1>2, <1>4, <1>5, <1>6, <1>7, <1>8

\* Nothing moves when the pinned columns are the first.
LEMMA LeadingDisplayed ==
  \A s \in Seq(ColumnStates) : PinnedLead(s) => Displayed(s) = s
<1> DEFINE C == ColumnStates
           N == C \ Pinned
           G == {s \in Seq(C) : PinnedLead(s) => Only(s, Pinned) \o Only(s, N) = s}
<1>1. <<>> \in G
  <2>1. /\ Only(<<>>, Pinned) = <<>> /\ Only(<<>>, N) = <<>>
        /\ <<>> \in Seq(C) /\ <<>> \o <<>> = <<>>
    BY OnlyOfNone
  <2> QED BY <2>1
<1>2. ASSUME NEW s \in Seq(C), NEW x \in C, s \in G PROVE Append(s, x) \in G
  <2> DEFINE t == Append(s, x)
             n == Len(s)
  <2>1. /\ n \in Nat /\ t \in Seq(C) /\ Len(t) = n + 1
        /\ t[n + 1] = x /\ \A i \in 1 .. n : t[i] = s[i]
    BY AppendProperties
  <2>2. /\ Only(t, Pinned) = IF x \in Pinned THEN Append(Only(s, Pinned), x) ELSE Only(s, Pinned)
        /\ Only(t, N) = IF x \in N THEN Append(Only(s, N), x) ELSE Only(s, N)
    BY OnlyOfAnyMore
  <2>3. /\ Only(s, Pinned) \in Seq(C) /\ Only(s, N) \in Seq(C)
        /\ Only(s, Pinned) \o <<>> = Only(s, Pinned) /\ t \o <<>> = t
    BY <2>1, RangeOfOnly, ConcatEmptySeq
  <2>4. x.pinned <=> x \in Pinned
    BY DEF Pinned
  <2> HIDE DEF t, n
  <2>5. SUFFICES ASSUME PinnedLead(t) PROVE Only(t, Pinned) \o Only(t, N) = t
    BY <2>1 DEF t
  <2>6. \A i, j \in 1 .. (n + 1) : i < j /\ t[j].pinned => t[i].pinned
    BY <2>1, <2>5 DEF PinnedLead
  <2>7. CASE x \in Pinned
    <3>1. ASSUME NEW i \in 1 .. n PROVE s[i] \in Pinned
      <4>1. i \in 1 .. (n + 1) /\ n + 1 \in 1 .. (n + 1) /\ i < n + 1
        BY <2>1
      <4>2. t[i].pinned
        BY <2>1, <2>4, <2>6, <2>7, <4>1
      <4>3. s[i] \in C
        BY <2>1, ElementOfSeq DEF n
      <4> QED BY <2>1, <4>2, <4>3 DEF Pinned
    <3>2. Range(s) \subseteq Pinned
      BY <3>1, RangeEquality DEF n
    <3>3. Only(s, Pinned) = s /\ Only(s, N) = <<>>
      BY <3>2, OnlyAllOrNone
    <3>4. Only(t, Pinned) = t /\ Only(t, N) = <<>>
      BY <2>2, <2>7, <3>3 DEF t
    <3> QED BY <2>3, <3>4
  <2>8. CASE x \notin Pinned
    <3>1. \A i, j \in 1 .. n : i < j /\ s[j].pinned => s[i].pinned
      <4>1. 1 .. n \subseteq 1 .. (n + 1)
        BY <2>1
      <4> QED BY <2>1, <2>6, <4>1
    <3>2. Only(s, Pinned) \o Only(s, N) = s
      BY <1>2, <3>1 DEF PinnedLead, n
    <3>3. Only(t, Pinned) = Only(s, Pinned) /\ Only(t, N) = Append(Only(s, N), x)
      BY <2>2, <2>8
    <3>4. Only(s, Pinned) \o Append(Only(s, N), x) = Append(Only(s, Pinned) \o Only(s, N), x)
      BY <2>3, JoinedAppended
    <3> QED BY <3>2, <3>3, <3>4 DEF t
  <2> QED BY <2>7, <2>8
<1>3. \A s \in Seq(C) : s \in G
  <2> HIDE DEF C, G
  <2> QED BY <1>1, <1>2, ByAppending
<1> QED BY <1>3 DEF Displayed

\* Displaying, laying out and picking some columns: the order does not matter.
LEMMA DisplayedLaid ==
  ASSUME NEW s \in Seq(ColumnStates)
  PROVE  Laid(Displayed(s)) = Displayed(Laid(s))
<1> DEFINE N == ColumnStates \ Pinned
<1>1. /\ \A c \in ColumnStates : LaidColumn(c) \in Pinned <=> c \in Pinned
      /\ \A c \in ColumnStates : LaidColumn(c) \in N <=> c \in N
  BY WantedWhateverTheWidth
<1> HIDE DEF N
<1>2. Only(Laid(s), Pinned) = Laid(Only(s, Pinned))
  BY <1>1, OnlyOfLaid
<1>3. Only(Laid(s), N) = Laid(Only(s, N))
  BY <1>1, OnlyOfLaid
<1>4. Only(s, Pinned) \in Seq(ColumnStates) /\ Only(s, N) \in Seq(ColumnStates)
  BY RangeOfOnly
<1>5. Laid(Only(s, Pinned) \o Only(s, N)) = Laid(Only(s, Pinned)) \o Laid(Only(s, N))
  BY <1>4, LaidJoined
<1> QED BY <1>2, <1>3, <1>5 DEF Displayed, N

\* Displaying picked columns is picking displayed ones.
LEMMA DisplayedPicked ==
  ASSUME NEW s \in Seq(ColumnStates), NEW wanted
  PROVE  Only(Displayed(s), wanted) = Displayed(Only(s, wanted))
<1> DEFINE N == ColumnStates \ Pinned
           p == Only(s, Pinned)
           q == Only(s, N)
           u == Only(s, wanted)
<1>1. p \in Seq(ColumnStates) /\ q \in Seq(ColumnStates)
  BY RangeOfOnly
<1>2. Only(p \o q, wanted) = Only(p, wanted) \o Only(q, wanted)
  <2> HIDE DEF p, q
  <2> QED BY <1>1, OnlyOfJoined
<1>3. Only(p, wanted) = Only(s, Pinned \cap wanted) /\ Only(q, wanted) = Only(s, N \cap wanted)
  BY OnlyOfOnly
<1>4. Only(u, Pinned) = Only(s, wanted \cap Pinned) /\ Only(u, N) = Only(s, wanted \cap N)
  BY OnlyOfOnly
<1>5. Pinned \cap wanted = wanted \cap Pinned /\ N \cap wanted = wanted \cap N
  OBVIOUS
<1>6. Displayed(s) = p \o q /\ Displayed(u) = Only(u, Pinned) \o Only(u, N)
  BY DEF Displayed
<1> QED BY <1>2, <1>3, <1>4, <1>5, <1>6

\* Laying picked columns out is picking from those that are laid out.
LEMMA LaidPicked ==
  ASSUME NEW s \in Seq(ColumnStates), NEW ids
  PROVE  Only(Laid(s), OfColumns(ids)) = Laid(Only(s, OfColumns(ids)))
<1>1. \A c \in ColumnStates : LaidColumn(c) \in OfColumns(ids) <=> c \in OfColumns(ids)
  BY WantedWhateverTheWidth
<1> QED BY <1>1, OnlyOfLaid

-----------------------------------------------------------------------------
(***************************************************************************)
(* Definitions, what was saved, and the merge of both.                     *)
(***************************************************************************)

\* The states are those of the columns of a release, the pinned ones first
AreColumnsOf(s, n) ==
  /\ s \in Seq(ColumnStates) /\ PinnedLead(s)
  /\ IsInjective(ColIds(s)) /\ Range(ColIds(s)) = Range(Releases[n])

\* The columns of a release are as they are defined, and laid out so.
LEMMA DefaultFacts ==
  ASSUME NEW n \in DOMAIN Releases
  PROVE  /\ AreColumnsOf(DefaultState(n), n) /\ Laid(DefaultState(n)) = DefaultState(n)
         /\ Displayed(DefaultState(n)) = DefaultState(n)
         /\ \A i \in 1 .. Len(DefaultState(n)) : DefaultState(n)[i].width = DefinedWidth
<1> DEFINE R == Releases[n]
           d == DefaultState(n)
<1>1. /\ R \in Seq(Range(R)) /\ IsInjective(R)
      /\ \A i, j \in DOMAIN R : i < j /\ R[j] \in PinnedFirst => R[i] \in PinnedFirst
  BY ColumnStateAssumption
<1>2. Len(R) \in Nat /\ DOMAIN R = 1 .. Len(R)
  BY <1>1
<1>3. d = [i \in 1 .. Len(R) |-> ColumnDefinition(R[i])]
  BY <1>2 DEF DefaultState
<1>4. \A i \in 1 .. Len(R) : R[i] \in UNION {Range(Releases[k]) : k \in DOMAIN Releases}
  <2>1. \A i \in 1 .. Len(R) : R[i] \in Range(R)
    BY <1>2 DEF Range
  <2> QED BY <2>1
<1> HIDE DEF R
<1>5. \A i \in 1 .. Len(R) :
        /\ ColumnDefinition(R[i]) \in ColumnStates
        /\ ColumnDefinition(R[i]).colId = R[i]
        /\ ColumnDefinition(R[i]).width = DefinedWidth
        /\ ColumnDefinition(R[i]).pinned <=> R[i] \in PinnedFirst
  <2> SUFFICES ASSUME NEW i \in 1 .. Len(R)
               PROVE  /\ ColumnDefinition(R[i]) \in ColumnStates
                      /\ ColumnDefinition(R[i]).colId = R[i]
                      /\ ColumnDefinition(R[i]).width = DefinedWidth
                      /\ ColumnDefinition(R[i]).pinned <=> R[i] \in PinnedFirst
    OBVIOUS
  <2> DEFINE b == R[i] \in PinnedFirst
  <2>1. ColumnDefinition(R[i]) = [colId |-> R[i], width |-> DefinedWidth, pinned |-> b]
    BY DEF ColumnDefinition
  <2>2. b \in BOOLEAN /\ DefinedWidth \in Widths
    BY DEF Widths
  <2> HIDE DEF b
  <2>3. [colId |-> R[i], width |-> DefinedWidth, pinned |-> b] \in ColumnStates
    BY <1>4, <2>2 DEF ColumnStates
  <2>4. ColumnDefinition(R[i]).colId = R[i] /\ ColumnDefinition(R[i]).width = DefinedWidth
    BY <2>1
  <2>5. ColumnDefinition(R[i]).pinned = b
    BY <2>1
  <2>6. ColumnDefinition(R[i]).pinned <=> R[i] \in PinnedFirst
    BY <2>2, <2>5 DEF b
  <2> QED BY <2>1, <2>3, <2>4, <2>6
<1>6. d \in [1 .. Len(R) -> ColumnStates]
  BY <1>3, <1>5
<1>7. d \in Seq(ColumnStates) /\ Len(d) = Len(R) /\ \A i \in 1 .. Len(R) : d[i] = ColumnDefinition(R[i])
  BY <1>2, <1>3, <1>6
<1> HIDE DEF d
<1>8. PinnedLead(d)
  BY <1>1, <1>2, <1>5, <1>7 DEF PinnedLead
<1>9. IsInjective(ColIds(d)) /\ Range(ColIds(d)) = Range(R)
  <2>1. ColIds(d) = R
    <3>1. DOMAIN d = 1 .. Len(R) /\ R = [i \in 1 .. Len(R) |-> R[i]]
      BY <1>1, <1>7
    <3> QED BY <1>5, <1>7, <3>1 DEF ColIds
  <2> QED BY <1>1, <2>1
<1>10. Laid(d) = d
  <2>1. /\ Laid(d) \in Seq(ColumnStates) /\ Len(Laid(d)) = Len(d)
        /\ \A i \in 1 .. Len(d) : Laid(d)[i] = LaidColumn(d[i])
    BY <1>7, LaidFacts
  <2>2. \A i \in 1 .. Len(d) : LaidColumn(d[i]) = d[i]
    <3>1. ASSUME NEW c \in ColumnStates, c.width = DefinedWidth PROVE LaidColumn(c) = c
      BY <3>1 DEF LaidColumn, ColumnStates
    <3> QED BY <1>5, <1>7, <3>1
  <2> QED BY <1>7, <2>1, <2>2, SeqEqual
<1>11. Displayed(d) = d
  BY <1>7, <1>8, LeadingDisplayed
<1>12. \A i \in 1 .. Len(d) : d[i].width = DefinedWidth
  BY <1>5, <1>7
<1> QED BY <1>7, <1>8, <1>9, <1>10, <1>11, <1>12 DEF AreColumnsOf, d, R

\* States differ from the default just when, laid out, they are others.
LEMMA DivergedFacts ==
  ASSUME NEW n \in DOMAIN Releases, NEW s \in Seq(ColumnStates)
  PROVE  Diverged(s, DefaultState(n)) <=> Laid(s) # DefaultState(n)
<1> DEFINE d == DefaultState(n)
           t == Laid(s)
<1>1. d \in Seq(ColumnStates) /\ \A i \in 1 .. Len(d) : d[i].width = DefinedWidth
  BY DefaultFacts DEF AreColumnsOf
<1>2. /\ t \in Seq(ColumnStates) /\ Len(t) = Len(s) /\ ColIds(t) = ColIds(s)
      /\ \A i \in 1 .. Len(s) : t[i] = LaidColumn(s[i])
  BY LaidFacts
<1> HIDE DEF d, t
<1>3. CASE ColIds(s) # ColIds(d)
  BY <1>2, <1>3 DEF Diverged, d, t
<1>4. CASE ColIds(s) = ColIds(d)
  <2>1. /\ DOMAIN s = 1 .. Len(s) /\ DOMAIN d = 1 .. Len(d) /\ Len(s) \in Nat /\ Len(d) \in Nat
        /\ DOMAIN ColIds(s) = DOMAIN s /\ DOMAIN ColIds(d) = DOMAIN d
    BY <1>1 DEF ColIds
  <2>2. Len(s) = Len(d)
    <3> DEFINE m == Len(s)
               k == Len(d)
    <3>1. m \in Nat /\ k \in Nat /\ 1 .. m = 1 .. k
      <4>1. DOMAIN ColIds(s) = DOMAIN ColIds(d)
        BY <1>4, Zenon
      <4> QED BY <2>1, <4>1, Zenon
    <3> HIDE DEF m, k
    <3>2. CASE m < k
      <4>1. k \in 1 .. k /\ k \notin 1 .. m
        BY <3>1, <3>2
      <4> QED BY <3>1, <4>1
    <3>3. CASE k < m
      <4>1. m \in 1 .. m /\ m \notin 1 .. k
        BY <3>1, <3>3
      <4> QED BY <3>1, <4>1
    <3>4. m = k
      BY <3>1, <3>2, <3>3
    <3> QED BY <3>4 DEF m, k
  <2>3. \A i \in 1 .. Len(d) : s[i] \in ColumnStates /\ d[i] \in ColumnStates
                               /\ s[i].colId = d[i].colId /\ d[i].width = DefinedWidth
    <3>1. ASSUME NEW i \in 1 .. Len(d) PROVE s[i].colId = d[i].colId
      <4>1. ColIds(s)[i] = s[i].colId /\ ColIds(d)[i] = d[i].colId
        BY <2>1, <2>2 DEF ColIds
      <4> QED BY <1>4, <4>1
    <3> QED BY <1>1, <2>2, <3>1, ElementOfSeq
  <2>4. \A c, e \in ColumnStates : c.colId = e.colId /\ e.width = DefinedWidth =>
          (LaidColumn(c) = e <=> /\ c.pinned = e.pinned
                                 /\ e.colId \in FlexColumns \/ c.width = e.width)
    <3> SUFFICES ASSUME NEW c \in ColumnStates, NEW e \in ColumnStates,
                        c.colId = e.colId, e.width = DefinedWidth
                 PROVE  LaidColumn(c) = e <=> /\ c.pinned = e.pinned
                                              /\ e.colId \in FlexColumns \/ c.width = e.width
      OBVIOUS
    <3>1. \A x, y \in ColumnStates :
            x = y <=> x.colId = y.colId /\ x.width = y.width /\ x.pinned = y.pinned
      BY DEF ColumnStates
    <3> QED BY <3>1, LaidColumnFacts
  <2>5. t = d <=> \A i \in 1 .. Len(d) : t[i] = d[i]
    BY <1>1, <1>2, <2>2, SeqEqual
  <2>6. t = d <=> \A i \in 1 .. Len(d) :
                     /\ s[i].pinned = d[i].pinned
                     /\ d[i].colId \in FlexColumns \/ s[i].width = d[i].width
    BY <1>2, <2>2, <2>3, <2>4, <2>5
  <2>7. Diverged(s, d) <=> \E i \in 1 .. Len(d) :
                             \/ s[i].pinned # d[i].pinned
                             \/ d[i].colId \notin FlexColumns /\ s[i].width # d[i].width
    BY <1>4, <2>1 DEF Diverged
  <2> QED BY <2>6, <2>7 DEF d, t
<1> QED BY <1>3, <1>4

\* What is merged of saved and defined columns: the saved ones that are still
\* defined, in their order, then the new ones.
LEMMA MergeSavedFacts ==
  ASSUME NEW n \in DOMAIN Releases, NEW s \in Seq(ColumnStates), IsInjective(ColIds(s))
  PROVE  LET merged == MergeSaved(s, DefaultState(n))
             kept == Only(s, OfColumns(Range(Releases[n])))
         IN /\ merged \in Seq(ColumnStates) /\ IsInjective(ColIds(merged))
            /\ Range(ColIds(merged)) = Range(Releases[n])
            /\ kept \in Seq(ColumnStates)
            /\ Only(merged, OfColumns(Range(ColIds(kept)))) = kept
            /\ Range(ColIds(s)) = Range(Releases[n]) => merged = s
<1> DEFINE d == DefaultState(n)
           ids == Range(Releases[n])
           W == OfColumns(ids)
           old == OfColumns(Range(ColIds(s)))
           N == ColumnStates \ old
           new == Only(d, N)
           kept == Only(s, W)
           keptIds == Range(ColIds(kept))
           K == OfColumns(keptIds)
           merged == Only(s \o new, W)
<1>1. d \in Seq(ColumnStates) /\ IsInjective(ColIds(d)) /\ Range(ColIds(d)) = ids
  BY DefaultFacts DEF AreColumnsOf
<1>2. MergeSaved(s, d) = merged
  BY <1>1 DEF MergeSaved, SyncNewOrRemovedColumns
<1>3. \A S : \A c \in ColumnStates : c \in OfColumns(S) <=> c.colId \in S
  BY DEF OfColumns
<1>4. \A t \in Seq(ColumnStates) : Range(t) \subseteq ColumnStates
  BY RangeOfSeq
<1>5. new \in Seq(ColumnStates) /\ Range(new) = Range(d) \cap N /\ IsInjective(ColIds(new))
  BY <1>1, RangeOfOnly, DistinctPicked
<1>6. kept \in Seq(ColumnStates) /\ Range(kept) = Range(s) \cap W /\ IsInjective(ColIds(kept))
  BY RangeOfOnly, DistinctPicked
<1> HIDE DEF d, ids
<1>7. Range(new) \subseteq W
  <2>1. \A c \in Range(d) : c.colId \in ids
    BY <1>1, IdsOfRange
  <2> QED BY <1>1, <1>3, <1>4, <1>5, <2>1
<1>8. s \o new \in Seq(ColumnStates) /\ merged = kept \o new
  <2>1. Only(new, W) = new
    <3> HIDE DEF new, W
    <3> QED BY <1>5, <1>7, OnlyAllOrNone
  <2>2. Only(s \o new, W) = Only(s, W) \o Only(new, W)
    <3> HIDE DEF new, W
    <3> QED BY <1>5, OnlyOfJoined
  <2>3. s \o new \in Seq(ColumnStates)
    <3> HIDE DEF new
    <3> QED BY <1>5, ConcatProperties
  <2> QED BY <2>1, <2>2, <2>3
<1>9. Range(ColIds(kept)) = {c.colId : c \in Range(kept)} /\ Range(ColIds(new)) = {c.colId : c \in Range(new)}
      /\ Range(ColIds(s)) = {c.colId : c \in Range(s)} /\ Range(ColIds(d)) = {c.colId : c \in Range(d)}
  BY <1>1, <1>5, <1>6, IdsOfRange
<1> HIDE DEF merged, new, kept, W
<1>10. Range(ColIds(kept)) \cap Range(ColIds(new)) = {}
  <2>1. ASSUME NEW c \in Range(kept), NEW e \in Range(new) PROVE c.colId # e.colId
    <3>1. c \in Range(s) /\ e \in ColumnStates /\ e \notin old
      BY <1>5, <1>6, <2>1 DEF N
    <3>2. c.colId \in Range(ColIds(s)) /\ e.colId \notin Range(ColIds(s))
      BY <1>3, <1>9, <3>1
    <3> QED BY <3>2
  <2> QED BY <1>9, <2>1
<1>11. /\ kept \o new \in Seq(ColumnStates) /\ IsInjective(ColIds(kept \o new))
       /\ Range(kept \o new) = Range(kept) \cup Range(new)
  BY <1>5, <1>6, <1>10, DistinctJoined, ConcatProperties, RangeConcatenation
<1>12. Range(ColIds(kept \o new)) = ids
  <2>1. Range(ColIds(kept \o new)) = {c.colId : c \in Range(kept) \cup Range(new)}
    BY <1>11, IdsOfRange
  <2>2. ASSUME NEW c \in Range(kept) \cup Range(new) PROVE c.colId \in ids
    BY <1>3, <1>4, <1>5, <1>6, <1>7 DEF W
  <2>3. ASSUME NEW x \in ids PROVE \E c \in Range(kept) \cup Range(new) : c.colId = x
    <3>1. CASE x \in Range(ColIds(s))
      <4>1. PICK c \in Range(s) : c.colId = x
        BY <1>9, <3>1
      <4>2. c \in W
        BY <1>3, <1>4, <4>1 DEF W
      <4> QED BY <1>6, <4>1, <4>2
    <3>2. CASE x \notin Range(ColIds(s))
      <4>1. PICK c \in Range(d) : c.colId = x
        BY <1>1, <1>9
      <4>2. c \in ColumnStates /\ c \notin old
        BY <1>1, <1>3, <1>4, <3>2, <4>1
      <4> QED BY <1>5, <4>1, <4>2 DEF N
    <3> QED BY <3>1, <3>2
  <2> QED BY <2>1, <2>2, <2>3
<1>13. Only(merged, K) = kept
  <2>1. Range(kept) \subseteq K
    BY <1>3, <1>4, <1>6, <1>9
  <2>2. Range(new) \cap K = {}
    <3>1. ASSUME NEW c \in Range(new) PROVE c \notin K
      <4>1. c \in ColumnStates /\ c.colId \in Range(ColIds(new))
        BY <1>4, <1>5, <1>9
      <4> QED BY <1>3, <1>10, <4>1
    <3> QED BY <3>1
  <2> HIDE DEF K
  <2>3. Only(kept, K) = kept /\ Only(new, K) = <<>>
    BY <1>5, <1>6, <2>1, <2>2, OnlyAllOrNone
  <2>4. Only(kept \o new, K) = Only(kept, K) \o Only(new, K)
    BY <1>5, <1>6, OnlyOfJoined
  <2> QED BY <1>6, <1>8, <2>3, <2>4, ConcatEmptySeq
<1>14. ASSUME Range(ColIds(s)) = ids PROVE merged = s
  <2>1. Range(s) \subseteq W
    BY <1>3, <1>4, <1>9, <1>14 DEF W
  <2>2. Range(new) = {}
    <3>1. ASSUME NEW c \in Range(new) PROVE FALSE
      <4>1. c \in ColumnStates /\ c \in Range(d) /\ c \notin old
        BY <1>4, <1>5 DEF N
      <4>2. c.colId \in Range(ColIds(s))
        BY <1>1, <1>9, <1>14, <4>1
      <4> QED BY <1>3, <4>1, <4>2
    <3> QED BY <3>1
  <2>3. kept = s
    BY <2>1, OnlyAllOrNone DEF kept
  <2>4. new = <<>>
    <3>1. \A i \in 1 .. Len(new) : new[i] \in Range(new)
      BY <1>5, RangeEquality
    <3> QED BY <1>5, <2>2, <3>1
  <2> QED BY <1>8, <2>3, <2>4, ConcatEmptySeq
<1> QED BY <1>2, <1>6, <1>8, <1>11, <1>12, <1>13, <1>14 DEF d, ids, W, kept, K, keptIds

\* A column that is dragged elsewhere: the others move up.
LEMMA MovedColumn ==
  ASSUME NEW s \in Seq(ColumnStates), NEW from \in 1 .. Len(s), NEW to \in 1 .. Len(s),
         IsInjective(ColIds(s))
  PROVE  LET t == InsertAt(RemoveAt(s, from), to, s[from])
         IN t \in Seq(ColumnStates) /\ IsInjective(ColIds(t)) /\ Range(ColIds(t)) = Range(ColIds(s))
<1> DEFINE C == ColumnStates
           n == Len(s)
           x == s[from]
           a == SubSeq(s, 1, from - 1)
           b == SubSeq(s, from + 1, n)
           r == RemoveAt(s, from)
           c == SubSeq(r, 1, to - 1)
           e == SubSeq(r, to, Len(r))
           t == InsertAt(r, to, x)
<1>1. n \in Nat /\ from \in 1 .. n /\ to \in 1 .. n /\ x \in C /\ \A i \in 1 .. n : s[i] \in C
  BY ElementOfSeq
<1>2. a \in Seq(C) /\ Len(a) = from - 1 /\ \A i \in 1 .. (from - 1) : a[i] = s[i]
  <2>1. from - 1 \in Int /\ \A i \in 1 .. (from - 1) : s[i] \in C
    BY <1>1
  <2>2. /\ a \in Seq(C) /\ Len(a) = IF 1 <= from - 1 THEN (from - 1) - 1 + 1 ELSE 0
        /\ \A i \in 1 .. (from - 1) - 1 + 1 : a[i] = s[1 + i - 1]
    BY <2>1, SubSeqProperties
  <2> QED BY <1>1, <2>2
<1>3. b \in Seq(C) /\ Len(b) = n - from /\ \A i \in 1 .. (n - from) : b[i] = s[from + i]
  <2>1. from + 1 \in Int /\ n \in Int /\ \A i \in (from + 1) .. n : s[i] \in C
    BY <1>1
  <2>2. /\ b \in Seq(C) /\ Len(b) = IF from + 1 <= n THEN n - (from + 1) + 1 ELSE 0
        /\ \A i \in 1 .. n - (from + 1) + 1 : b[i] = s[(from + 1) + i - 1]
    BY <2>1, SubSeqProperties
  <2> QED BY <1>1, <2>2
<1>4. r = a \o b
  BY DEF RemoveAt
<1>5. /\ r \in Seq(C) /\ Len(r) = n - 1
      /\ \A i \in 1 .. (n - 1) : r[i] = IF i < from THEN s[i] ELSE s[i + 1]
  <2> HIDE DEF a, b
  <2>1. /\ a \o b \in Seq(C) /\ Len(a \o b) = Len(a) + Len(b)
        /\ \A i \in 1 .. Len(a) + Len(b) : (a \o b)[i] = IF i <= Len(a) THEN a[i] ELSE b[i - Len(a)]
    BY <1>2, <1>3, ConcatProperties
  <2> HIDE DEF r, n
  <2>2. Len(r) = n - 1
    BY <1>1, <1>2, <1>3, <1>4, <2>1
  <2>3. ASSUME NEW i \in 1 .. (n - 1) PROVE r[i] = IF i < from THEN s[i] ELSE s[i + 1]
    <3>1. r[i] = IF i <= from - 1 THEN a[i] ELSE b[i - (from - 1)]
      BY <1>1, <1>2, <1>3, <1>4, <2>1
    <3>2. CASE i < from
      <4>1. i \in 1 .. (from - 1)
        BY <1>1, <3>2
      <4> QED BY <1>1, <1>2, <3>1, <3>2, <4>1
    <3>3. CASE ~ (i < from)
      <4>1. i - (from - 1) \in 1 .. (n - from) /\ from + (i - (from - 1)) = i + 1 /\ ~ (i <= from - 1)
        BY <1>1, <3>3
      <4> QED BY <1>3, <3>1, <3>3, <4>1
    <3> QED BY <3>2, <3>3
  <2> QED BY <1>4, <2>1, <2>2, <2>3
<1> HIDE DEF r, n, x
<1>6. c \in Seq(C) /\ Len(c) = to - 1 /\ \A i \in 1 .. (to - 1) : c[i] = r[i]
  <2>1. to - 1 \in Int /\ \A i \in 1 .. (to - 1) : r[i] \in C
    BY <1>1, <1>5
  <2>2. /\ c \in Seq(C) /\ Len(c) = IF 1 <= to - 1 THEN (to - 1) - 1 + 1 ELSE 0
        /\ \A i \in 1 .. (to - 1) - 1 + 1 : c[i] = r[1 + i - 1]
    BY <2>1, SubSeqProperties
  <2> QED BY <1>1, <2>2
<1>7. e \in Seq(C) /\ Len(e) = n - to /\ \A i \in 1 .. (n - to) : e[i] = r[to + i - 1]
  <2>1. to \in Int /\ Len(r) \in Int /\ \A i \in to .. Len(r) : r[i] \in C
    BY <1>1, <1>5
  <2>2. /\ e \in Seq(C) /\ Len(e) = IF to <= Len(r) THEN Len(r) - to + 1 ELSE 0
        /\ \A i \in 1 .. Len(r) - to + 1 : e[i] = r[to + i - 1]
    BY <2>1, SubSeqProperties
  <2> QED BY <1>1, <1>5, <2>2
<1>8. t = c \o <<x>> \o e
  BY DEF InsertAt
<1> HIDE DEF c, e, t
<1> DEFINE o == <<x>>
           cx == c \o o
<1>9. cx \in Seq(C) /\ Len(cx) = to /\ \A i \in 1 .. to : cx[i] = IF i < to THEN r[i] ELSE x
  <2>1. o \in Seq(C) /\ Len(o) = 1 /\ o[1] = x
    BY <1>1
  <2> HIDE DEF o
  <2>2. /\ cx \in Seq(C) /\ Len(cx) = Len(c) + Len(o)
        /\ \A i \in 1 .. Len(c) + Len(o) : cx[i] = IF i <= Len(c) THEN c[i] ELSE o[i - Len(c)]
    BY <1>6, <2>1, ConcatProperties
  <2> HIDE DEF cx
  <2>3. ASSUME NEW i \in 1 .. to PROVE cx[i] = IF i < to THEN r[i] ELSE x
    <3>1. CASE i < to
      <4>1. i \in 1 .. (to - 1) /\ i <= to - 1 /\ i \in 1 .. (to - 1) + 1
        BY <1>1, <3>1
      <4>2. cx[i] = c[i]
        BY <1>6, <2>1, <2>2, <4>1
      <4> QED BY <1>6, <3>1, <4>1, <4>2
    <3>2. CASE ~ (i < to)
      <4>1. i = to /\ i - (to - 1) = 1 /\ ~ (i <= to - 1)
        BY <1>1, <3>2
      <4> QED BY <1>1, <1>6, <2>1, <2>2, <3>2, <4>1
    <3> QED BY <3>1, <3>2
  <2> QED BY <1>1, <1>6, <2>1, <2>2, <2>3
<1> HIDE DEF cx, o
<1> DEFINE Up(k) == IF k < from THEN k ELSE k + 1
           p(k) == IF k < to THEN Up(k) ELSE IF k = to THEN from ELSE Up(k - 1)
           Down(i) == IF i < from THEN i ELSE i - 1
           q(i) == IF i = from THEN to ELSE IF Down(i) < to THEN Down(i) ELSE Down(i) + 1
<1>10. /\ t \in Seq(C) /\ Len(t) = n
       /\ \A k \in 1 .. n : t[k] = IF k < to THEN r[k] ELSE IF k = to THEN x ELSE r[k - 1]
  <2>1. /\ cx \o e \in Seq(C) /\ Len(cx \o e) = Len(cx) + Len(e)
        /\ \A i \in 1 .. Len(cx) + Len(e) : (cx \o e)[i] = IF i <= Len(cx) THEN cx[i] ELSE e[i - Len(cx)]
    BY <1>7, <1>9, ConcatProperties
  <2>2. t = cx \o e
    BY <1>8 DEF cx, o
  <2>3. Len(cx) + Len(e) = n
    BY <1>1, <1>7, <1>9
  <2>4. ASSUME NEW k \in 1 .. n
        PROVE  t[k] = IF k < to THEN r[k] ELSE IF k = to THEN x ELSE r[k - 1]
    <3>1. CASE k <= to
      <4>1. k \in 1 .. to
        BY <1>1, <3>1
      <4> QED BY <1>1, <1>9, <2>1, <2>2, <2>3, <3>1, <4>1
    <3>2. CASE ~ (k <= to)
      <4>1. k - to \in 1 .. (n - to) /\ to + (k - to) - 1 = k - 1 /\ ~ (k < to) /\ k # to
        BY <1>1, <3>2
      <4> QED BY <1>7, <1>9, <2>1, <2>2, <2>3, <3>2, <4>1
    <3> QED BY <3>1, <3>2
  <2> QED BY <2>1, <2>2, <2>3, <2>4
<1>11. \A k \in 1 .. n : p(k) \in 1 .. n /\ t[k] = s[p(k)]
  <2> SUFFICES ASSUME NEW k \in 1 .. n PROVE p(k) \in 1 .. n /\ t[k] = s[p(k)]
    OBVIOUS
  <2>0. ASSUME NEW i \in 1 .. (n - 1) PROVE Up(i) \in 1 .. n /\ r[i] = s[Up(i)]
    <3>1. CASE i < from
      BY <1>1, <1>5, <3>1
    <3>2. CASE ~ (i < from)
      BY <1>1, <1>5, <3>2
    <3> QED BY <3>1, <3>2
  <2> HIDE DEF Up
  <2>1. CASE k < to
    <3>1. k \in 1 .. (n - 1) /\ p(k) = Up(k)
      BY <1>1, <2>1
    <3> QED BY <1>10, <2>0, <2>1, <3>1
  <2>2. CASE k = to
    <3>1. p(k) = from
      BY <1>1, <2>2
    <3> QED BY <1>1, <1>10, <2>2, <3>1 DEF x
  <2>3. CASE to < k
    <3>1. k - 1 \in 1 .. (n - 1) /\ ~ (k < to) /\ k # to /\ p(k) = Up(k - 1)
      BY <1>1, <2>3
    <3> QED BY <1>10, <2>0, <3>1
  <2> QED BY <1>1, <2>1, <2>2, <2>3
<1>12. \A k, l \in 1 .. n : p(k) = p(l) => k = l
  BY <1>1
<1>13. \A i \in 1 .. n : q(i) \in 1 .. n /\ p(q(i)) = i
  BY <1>1
<1> HIDE DEF p, q
<1>14. IsInjective(ColIds(t))
  <2>1. \A i, j \in 1 .. n : s[i].colId = s[j].colId => i = j
    BY DistinctIds DEF n
  <2>2. \A k, l \in 1 .. n : t[k].colId = t[l].colId => k = l
    BY <1>11, <1>12, <2>1
  <2> QED BY <1>10, <2>2, DistinctIds
<1>15. Range(t) = Range(s)
  <2>1. Range(t) = {t[k] : k \in 1 .. n} /\ Range(s) = {s[i] : i \in 1 .. n}
    BY <1>10, RangeEquality DEF n
  <2>2. \A i \in 1 .. n : q(i) \in 1 .. n /\ t[q(i)] = s[i]
    BY <1>11, <1>13
  <2> QED BY <1>11, <2>1, <2>2
<1>16. Range(ColIds(t)) = Range(ColIds(s))
  BY <1>10, <1>15, IdsOfRange
<1> QED BY <1>10, <1>14, <1>16 DEF t, r, x

\* Columns that change and keep their ids, place by place.
LEMMA ChangedColumns ==
  ASSUME NEW s \in Seq(ColumnStates), NEW t, t = [i \in 1 .. Len(s) |-> t[i]],
         \A i \in 1 .. Len(s) : t[i] \in ColumnStates /\ t[i].colId = s[i].colId
  PROVE  /\ t \in Seq(ColumnStates) /\ Len(t) = Len(s) /\ ColIds(t) = ColIds(s)
         /\ (\A i \in 1 .. Len(s) : t[i].pinned = s[i].pinned) => (PinnedLead(s) => PinnedLead(t))
<1>1. Len(s) \in Nat /\ DOMAIN s = 1 .. Len(s) /\ t \in [1 .. Len(s) -> ColumnStates]
  OBVIOUS
<1>2. t \in Seq(ColumnStates) /\ Len(t) = Len(s) /\ DOMAIN t = 1 .. Len(s)
  BY <1>1
<1>3. ColIds(t) = ColIds(s)
  BY <1>1, <1>2 DEF ColIds
<1> QED BY <1>1, <1>2, <1>3 DEF PinnedLead

\* A column that is widened, pinned or unpinned.
LEMMA ChangedColumn ==
  ASSUME NEW c \in ColumnStates
  PROVE  /\ \A w \in Widths : LET x == [c EXCEPT !.width = w]
                              IN x \in ColumnStates /\ x.colId = c.colId /\ x.pinned = c.pinned
         /\ \A b \in BOOLEAN : LET x == [c EXCEPT !.pinned = b]
                               IN x \in ColumnStates /\ x.colId = c.colId
BY DEF ColumnStates

-----------------------------------------------------------------------------
(***************************************************************************)
(* The grid has the columns of its release, what is saved those of the     *)
(* release it was saved under, both with the pinned ones first; so neither *)
(* laying out, displaying nor merging moves what was saved.                *)
(***************************************************************************)

\* What is saved is whole, and different says whether it differs
SavedInv ==
  saved # Absent =>
    /\ saved \in [columnState : Seq(ColumnStates), under : DOMAIN Releases]
    /\ AreColumnsOf(saved.columnState, saved.under)
    /\ different \in BOOLEAN
    /\ different <=> Laid(saved.columnState) # DefaultState(saved.under)

\* What of it is still defined
Kept == IF saved = Absent THEN DefaultState(release)
        ELSE Only(saved.columnState, OfColumns(Range(Releases[release])))

\* The grid shows it, and the reset is offered when it differs
ShownInv ==
  release # Absent /\ ~unsaved =>
    /\ Only(Laid(columns), OfColumns(Range(ColIds(Kept)))) = Displayed(Laid(Kept))
    /\ ~Merged => (deviated <=> Laid(columns) # DefaultState(release))

ColumnInv ==
  /\ newest \in DOMAIN Releases
  /\ release # Absent => release \in DOMAIN Releases /\ AreColumnsOf(columns, release)
  /\ release = Absent => columns = <<>>
  /\ SavedInv /\ ShownInv

\* What is displayed of columns are such columns.
LEMMA DisplayedColumns ==
  ASSUME NEW n \in DOMAIN Releases, NEW s \in Seq(ColumnStates), IsInjective(ColIds(s)),
         Range(ColIds(s)) = Range(Releases[n])
  PROVE  AreColumnsOf(Displayed(s), n)
BY DisplayedFacts DEF AreColumnsOf

\* Columns that are displayed come back as they are laid out.
LEMMA ColumnsStay ==
  ASSUME NEW n \in DOMAIN Releases, NEW s, AreColumnsOf(s, n)
  PROVE  /\ Only(s, OfColumns(Range(Releases[n]))) = s
         /\ Only(Laid(s), OfColumns(Range(ColIds(s)))) = Displayed(Laid(s))
         /\ Displayed(Laid(s)) = Laid(s)
<1> DEFINE ids == Range(Releases[n])
           t == Laid(s)
           W == OfColumns(ids)
<1>1. s \in Seq(ColumnStates) /\ PinnedLead(s) /\ Range(ColIds(s)) = ids
  BY DEF AreColumnsOf
<1>2. t \in Seq(ColumnStates) /\ ColIds(t) = ColIds(s)
  BY <1>1, LaidFacts
<1> HIDE DEF t, ids
<1>3. ASSUME NEW u \in Seq(ColumnStates), Range(ColIds(u)) = ids PROVE Only(u, W) = u
  <2>1. Range(u) \subseteq ColumnStates /\ Range(ColIds(u)) = {c.colId : c \in Range(u)}
    BY RangeOfSeq, IdsOfRange
  <2>2. Range(u) \subseteq W
    BY <1>3, <2>1 DEF OfColumns
  <2> HIDE DEF W
  <2> QED BY <2>2, OnlyAllOrNone
<1>4. Only(s, W) = s /\ Only(t, W) = t
  BY <1>1, <1>2, <1>3
<1>5. Displayed(t) = t
  <2>1. Displayed(s) = s
    BY <1>1, LeadingDisplayed
  <2>2. Laid(Displayed(s)) = Displayed(Laid(s))
    BY <1>1, DisplayedLaid
  <2> QED BY <2>1, <2>2 DEF t
<1> QED BY <1>1, <1>4, <1>5 DEF t, ids, W

\* What was saved under some release comes back when it is merged with the columns of another.
LEMMA MergedComesBack ==
  ASSUME NEW n \in DOMAIN Releases, NEW m \in DOMAIN Releases, NEW s, AreColumnsOf(s, m)
  PROVE  LET c == Displayed(Laid(MergeSaved(s, DefaultState(n))))
             kept == Only(s, OfColumns(Range(Releases[n])))
         IN /\ AreColumnsOf(c, n)
            /\ Only(Laid(c), OfColumns(Range(ColIds(kept)))) = Displayed(Laid(kept))
            /\ m = n => Laid(c) = Laid(s)
<1> DEFINE merged == MergeSaved(s, DefaultState(n))
           kept == Only(s, OfColumns(Range(Releases[n])))
           keptIds == Range(ColIds(kept))
           W == OfColumns(keptIds)
           laid == Laid(merged)
           c == Displayed(laid)
<1>1. s \in Seq(ColumnStates) /\ IsInjective(ColIds(s)) /\ Range(ColIds(s)) = Range(Releases[m])
  BY DEF AreColumnsOf
<1>2. /\ merged \in Seq(ColumnStates) /\ IsInjective(ColIds(merged))
      /\ Range(ColIds(merged)) = Range(Releases[n]) /\ kept \in Seq(ColumnStates)
      /\ Only(merged, W) = kept
      /\ Range(ColIds(s)) = Range(Releases[n]) => merged = s
  BY <1>1, MergeSavedFacts
<1> HIDE DEF merged, kept
<1>3. /\ laid \in Seq(ColumnStates) /\ ColIds(laid) = ColIds(merged) /\ Laid(laid) = laid
  BY <1>2, LaidFacts
<1>4. Only(laid, W) = Laid(kept)
  BY <1>2, LaidPicked
<1> HIDE DEF laid, W
<1>5. AreColumnsOf(c, n)
  BY <1>2, <1>3, DisplayedColumns
<1>6. Laid(c) = c
  BY <1>3, DisplayedLaid
<1>7. Only(c, W) = Displayed(Only(laid, W))
  BY <1>3, DisplayedPicked
<1>8. ASSUME m = n PROVE Laid(c) = Laid(s)
  <2>1. merged = s
    BY <1>1, <1>2, <1>8
  <2>2. Displayed(Laid(s)) = Laid(s)
    BY ColumnsStay
  <2> QED BY <1>6, <2>1, <2>2 DEF laid
<1> QED BY <1>4, <1>5, <1>6, <1>7, <1>8 DEF c, laid, merged, kept, W, keptIds

\* Whatever is saved of the grid comes back as it is.
LEMMA SaveKeeps ==
  ASSUME NEW s, newest \in DOMAIN Releases, release \in DOMAIN Releases, AreColumnsOf(s, release),
         Save(s), UNCHANGED <<release, newest>>
  PROVE  ColumnInv'
<1> DEFINE record == [columnState |-> s, under |-> release]
<1>1. /\ s \in Seq(ColumnStates) /\ release # Absent
      /\ record \in [columnState : Seq(ColumnStates), under : DOMAIN Releases] /\ record # Absent
  BY ColumnStateAssumption DEF AreColumnsOf
<1>2. /\ columns' = s /\ saved' = record /\ ~ unsaved' /\ release' = release /\ newest' = newest
      /\ deviated' = Diverged(s, DefaultState(release)) /\ different' = deviated'
  BY DEF Save
<1>3. record.columnState = s /\ record.under = release
  OBVIOUS
<1> HIDE DEF record
<1>4. Diverged(s, DefaultState(release)) <=> Laid(s) # DefaultState(release)
  BY <1>1, DivergedFacts
<1>5. Diverged(s, DefaultState(release)) \in BOOLEAN
  BY DEF Diverged
<1>6. SavedInv'
  BY <1>1, <1>2, <1>3, <1>4, <1>5 DEF SavedInv
<1>7. Kept' = s
  <2>1. Kept' = Only(s, OfColumns(Range(Releases[release])))
    BY <1>1, <1>2, <1>3 DEF Kept
  <2> QED BY <2>1, ColumnsStay
<1>8. ShownInv'
  <2>1. Only(Laid(s), OfColumns(Range(ColIds(s)))) = Displayed(Laid(s))
    BY ColumnsStay
  <2> QED BY <1>2, <1>4, <1>7, <2>1 DEF ShownInv
<1> QED BY <1>1, <1>2, <1>6, <1>8 DEF ColumnInv

\* Columns that change with no drag ending.
LEMMA ChangeKeeps ==
  ASSUME ColumnInv, release # Absent => AreColumnsOf(columns', release),
         release = Absent => columns' = <<>>,
         unsaved' = TRUE, UNCHANGED <<release, newest, saved, different, deviated>>
  PROVE  ColumnInv'
BY DEF ColumnInv, SavedInv, ShownInv

\* Every step keeps ColumnInv.
LEMMA ColumnInduction ==
  /\ ColumnInit => ColumnInv
  /\ ColumnInv /\ [ColumnNext]_columnVars => ColumnInv'
<1>1. ColumnInit => ColumnInv
  BY ColumnStateAssumption DEF ColumnInit, ColumnInv, SavedInv, ShownInv
<1>2. ASSUME ColumnInv, [ColumnNext]_columnVars PROVE ColumnInv'
  <2>0. /\ newest \in DOMAIN Releases /\ SavedInv /\ ShownInv
        /\ release # Absent => release \in DOMAIN Releases /\ AreColumnsOf(columns, release)
        /\ release = Absent => columns = <<>>
    BY <1>2 DEF ColumnInv
  <2>a. columns \in Seq(ColumnStates) /\ DOMAIN columns = 1 .. Len(columns) /\ Len(columns) \in Nat
    <3>1. columns \in Seq(ColumnStates)
      <4>1. <<>> \in Seq(ColumnStates)
        OBVIOUS
      <4>2. CASE release = Absent
        BY <2>0, <4>1, <4>2
      <4>3. CASE release # Absent
        BY <2>0, <4>3 DEF AreColumnsOf
      <4> QED BY <4>2, <4>3
    <3> QED BY <3>1
  <2>b. \A n \in DOMAIN columns : n \in 1 .. Len(columns) /\ release \in DOMAIN Releases
                                  /\ AreColumnsOf(columns, release) /\ columns[n] \in ColumnStates
    BY <2>0, <2>a, ElementOfSeq
  <2>1. CASE UNCHANGED columnVars
    BY <1>2, <2>1 DEF columnVars, ColumnInv, SavedInv, ShownInv, Kept, Merged
  <2>2. CASE Open
    <3>1. /\ release' = newest /\ newest' = newest /\ saved' = saved /\ different' = different
          /\ unsaved' = unsaved /\ newest # Absent
      BY <2>0, <2>2, ColumnStateAssumption DEF Open
    <3>2. SavedInv'
      BY <2>0, <3>1 DEF SavedInv
    <3>3. CASE saved = Absent
      <4> DEFINE d == DefaultState(newest)
      <4>1. columns' = d /\ ~ deviated' /\ AreColumnsOf(d, newest) /\ Laid(d) = d
        BY <2>0, <2>2, <3>3, DefaultFacts DEF Open
      <4>2. Kept' = d
        BY <3>1, <3>3 DEF Kept
      <4>3. Only(Laid(d), OfColumns(Range(ColIds(d)))) = Displayed(Laid(d))
        BY <2>0, <4>1, ColumnsStay
      <4> HIDE DEF d
      <4>4. ShownInv'
        BY <3>1, <4>1, <4>2, <4>3 DEF ShownInv, d
      <4> QED BY <2>0, <3>1, <3>2, <4>1, <4>4 DEF ColumnInv
    <3>4. CASE saved # Absent
      <4> DEFINE s == saved.columnState
                 m == saved.under
                 c == Displayed(Laid(MergeSaved(s, DefaultState(newest))))
                 kept == Only(s, OfColumns(Range(Releases[newest])))
      <4>1. m \in DOMAIN Releases /\ AreColumnsOf(s, m) /\ different \in BOOLEAN
            /\ (different <=> Laid(s) # DefaultState(m))
        BY <2>0, <3>4 DEF SavedInv
      <4>2. columns' = c /\ deviated' = different
        BY <2>2, <3>4 DEF Open
      <4>3. Kept' = kept
        BY <3>1, <3>4 DEF Kept
      <4>4. Merged' <=> m # newest
        BY <3>1, <3>4 DEF Merged
      <4> HIDE DEF s, m
      <4>5. /\ AreColumnsOf(c, newest)
            /\ Only(Laid(c), OfColumns(Range(ColIds(kept)))) = Displayed(Laid(kept))
            /\ m = newest => Laid(c) = Laid(s)
        BY <2>0, <4>1, MergedComesBack
      <4> HIDE DEF c, kept
      <4>6. ShownInv'
        BY <3>1, <4>1, <4>2, <4>3, <4>4, <4>5 DEF ShownInv
      <4> QED BY <2>0, <3>1, <3>2, <4>2, <4>5, <4>6 DEF ColumnInv
    <3> QED BY <3>3, <3>4
  <2>3. CASE Close
    BY <2>0, <2>3 DEF Close, ColumnInv, SavedInv, ShownInv
  <2>4. CASE RollOut
    BY <2>0, <2>4 DEF RollOut, ColumnInv, SavedInv, ShownInv, Kept, Merged
  <2>5. CASE ResetColumns
    <3>1. release \in DOMAIN Releases
      BY <2>0, <2>5 DEF ResetColumns
    <3>2. /\ AreColumnsOf(DefaultState(release), release)
          /\ Displayed(DefaultState(release)) = DefaultState(release)
      BY <3>1, DefaultFacts
    <3>3. Save(DefaultState(release)) /\ UNCHANGED <<release, newest>>
      BY <2>5, <3>2 DEF ResetColumns
    <3> QED BY <2>0, <3>1, <3>2, <3>3, SaveKeeps
  <2>6. ASSUME NEW n \in DOMAIN columns, NEW to \in DOMAIN columns, DragColumn(n, to) PROVE ColumnInv'
    <3>1. PICK t : t = InsertAt(RemoveAt(columns, n), to, columns[n])
      OBVIOUS
    <3>2. t \in Seq(ColumnStates) /\ IsInjective(ColIds(t)) /\ Range(ColIds(t)) = Range(ColIds(columns))
      BY <2>a, <2>b, <3>1, MovedColumn DEF AreColumnsOf
    <3>3. AreColumnsOf(Displayed(t), release)
      BY <2>b, <3>2, DisplayedColumns DEF AreColumnsOf
    <3>4. Save(Displayed(t)) /\ UNCHANGED <<release, newest>>
      BY <2>6, <3>1 DEF DragColumn
    <3> QED BY <2>0, <2>b, <3>3, <3>4, SaveKeeps
  <2>7. ASSUME NEW n \in DOMAIN columns, NEW width \in Widths, DragEdge(n, width) PROVE ColumnInv'
    <3> DEFINE x == [columns[n] EXCEPT !.width = width]
    <3>1. PICK t : t = [columns EXCEPT ![n] = x]
      OBVIOUS
    <3>2. x \in ColumnStates /\ x.colId = columns[n].colId /\ x.pinned = columns[n].pinned
      BY <2>b, ChangedColumn
    <3>3. t = [columns EXCEPT ![n].width = width]
      BY <3>1
    <3> HIDE DEF x
    <3>4. /\ t = [i \in 1 .. Len(columns) |-> t[i]]
          /\ \A i \in 1 .. Len(columns) : t[i] = IF i = n THEN x ELSE columns[i]
      BY <2>a, <3>1
    <3>5. \A i \in 1 .. Len(columns) : t[i] \in ColumnStates /\ t[i].colId = columns[i].colId
                                       /\ t[i].pinned = columns[i].pinned
      BY <2>a, <2>b, <3>2, <3>4
    <3>6. t \in Seq(ColumnStates) /\ ColIds(t) = ColIds(columns) /\ (PinnedLead(columns) => PinnedLead(t))
      BY <2>a, <3>4, <3>5, ChangedColumns
    <3>7. AreColumnsOf(t, release)
      BY <2>b, <3>6 DEF AreColumnsOf
    <3>8. Save(t) /\ UNCHANGED <<release, newest>>
      BY <2>7, <3>3 DEF DragEdge
    <3> QED BY <2>0, <2>b, <3>7, <3>8, SaveKeeps
  <2>8. ASSUME NEW n \in DOMAIN columns, TogglePinned(n) PROVE ColumnInv'
    <3> DEFINE b == ~ columns[n].pinned
               x == [columns[n] EXCEPT !.pinned = b]
    <3>1. PICK t : t = [columns EXCEPT ![n] = x]
      OBVIOUS
    <3>2. x \in ColumnStates /\ x.colId = columns[n].colId
      <4>1. b \in BOOLEAN
        OBVIOUS
      <4> HIDE DEF b
      <4> QED BY <2>b, <4>1, ChangedColumn
    <3>3. t = [columns EXCEPT ![n].pinned = ~@]
      BY <3>1
    <3> HIDE DEF x
    <3>4. /\ t = [i \in 1 .. Len(columns) |-> t[i]]
          /\ \A i \in 1 .. Len(columns) : t[i] = IF i = n THEN x ELSE columns[i]
      BY <2>a, <3>1
    <3>5. \A i \in 1 .. Len(columns) : t[i] \in ColumnStates /\ t[i].colId = columns[i].colId
      BY <2>a, <2>b, <3>2, <3>4
    <3>6. t \in Seq(ColumnStates) /\ ColIds(t) = ColIds(columns)
      BY <2>a, <3>4, <3>5, ChangedColumns
    <3>7. AreColumnsOf(Displayed(t), release)
      BY <2>b, <3>6, DisplayedColumns DEF AreColumnsOf
    <3>8. /\ columns' = Displayed(t) /\ unsaved' = TRUE
          /\ UNCHANGED <<release, newest, saved, different, deviated>>
      BY <2>8, <3>3 DEF TogglePinned
    <3>9. release # Absent
      BY <2>b, ColumnStateAssumption
    <3> QED BY <1>2, <3>7, <3>8, <3>9, ChangeKeeps
  <2>9. ASSUME NEW viewportWidth, ProcessUnpinnedColumns(viewportWidth) PROVE ColumnInv'
    <3>1. PICK U : U = ColumnsToUnpin(columns, viewportWidth)
      OBVIOUS
    <3> DEFINE b(i) == columns[i].pinned /\ i \notin U
               x(i) == [columns[i] EXCEPT !.pinned = b(i)]
    <3>2. PICK t : t = [i \in DOMAIN columns |-> x(i)]
      OBVIOUS
    <3>3. \A i \in 1 .. Len(columns) : x(i) \in ColumnStates /\ x(i).colId = columns[i].colId
      <4> SUFFICES ASSUME NEW i \in 1 .. Len(columns)
                   PROVE  x(i) \in ColumnStates /\ x(i).colId = columns[i].colId
        OBVIOUS
      <4>1. b(i) \in BOOLEAN /\ columns[i] \in ColumnStates
        BY <2>a, <2>b
      <4> HIDE DEF b
      <4> QED BY <4>1, ChangedColumn
    <3>4. t = [i \in DOMAIN columns |-> [columns[i] EXCEPT !.pinned = @ /\ i \notin U]]
      BY <3>2
    <3> HIDE DEF x
    <3>5. t = [i \in 1 .. Len(columns) |-> t[i]] /\ \A i \in 1 .. Len(columns) : t[i] = x(i)
      BY <2>a, <3>2
    <3>6. t \in Seq(ColumnStates) /\ ColIds(t) = ColIds(columns) /\ Len(t) = Len(columns)
      BY <2>a, <3>3, <3>5, ChangedColumns
    <3>7. release # Absent => AreColumnsOf(Displayed(t), release)
      BY <2>0, <3>6, DisplayedColumns DEF AreColumnsOf
    <3>8. release = Absent => Displayed(t) = <<>>
      <4>1. SUFFICES ASSUME release = Absent PROVE Displayed(t) = <<>>
        OBVIOUS
      <4>2. t = <<>>
        <5>1. Len(columns) = 0
          BY <2>0, <4>1
        <5> QED BY <3>6, <5>1, EmptySeq
      <4>3. PinnedLead(t)
        BY <4>2 DEF PinnedLead
      <4> QED BY <3>6, <4>2, <4>3, LeadingDisplayed
    <3>9. /\ columns' = Displayed(t) /\ unsaved' = TRUE
          /\ UNCHANGED <<release, newest, saved, different, deviated>>
      BY <2>9, <3>1, <3>4 DEF ProcessUnpinnedColumns
    <3> QED BY <1>2, <3>7, <3>8, <3>9, ChangeKeeps
  <2> QED BY <1>2, <2>1, <2>2, <2>3, <2>4, <2>5, <2>6, <2>7, <2>8, <2>9 DEF ColumnNext
<1> QED BY <1>1, <1>2

\* From it follows what was to be shown.
LEMMA ColumnsCome == ColumnInv => ColumnsComeBack
BY DEF ColumnInv, ShownInv, Kept, AreColumnsOf, ColumnsComeBack

\* ColumnInv holds in every state.
THEOREM ColumnInvariant == Spec => []ColumnInv
<1>1. WidgetsInit => ColumnInv
  BY ColumnInduction, AllWidgetsStart
<1>2. ColumnInv /\ [WidgetsNext]_widgetVars => ColumnInv'
  BY ColumnInduction, OneWidgetMoves
<1> QED BY <1>1, <1>2, PTL DEF Spec, widgetVars

\* For any releases, rolled out and back in any order, and any number of
\* drags: whatever was saved, and under whichever of them, the grid has each
\* column of its release once, and those that were saved are as wide, pinned
\* and ordered as they were; the reset is offered just when they differ.
THEOREM ColumnsBack == Spec => []ColumnsComeBack
BY ColumnInvariant, ColumnsCome, PTL

-----------------------------------------------------------------------------
(***************************************************************************)
(* Requests of lists: the invariant.                                       *)
(***************************************************************************)

\* The lists and their tables have the shape that the guards keep
QueryShape ==
  /\ list \in Lists /\ completed \in BOOLEAN /\ switching \in BOOLEAN /\ slipped \in BOOLEAN
  /\ completed \/ switching => list = "batch"
  /\ switching => unsettled = <<>>
  /\ toggled \subseteq DOMAIN TogglesOf(list)
  /\ sortedBy # Absent => sortedBy \in DOMAIN ColumnsOf(list) /\ Col(sortedBy).sort # Absent

\* Floating filters are set to a comparator they offer, texts are typed in filters of texts
FiltersSet ==
  /\ DOMAIN radio = DOMAIN FirstComparators(list)
  /\ \A c \in DOMAIN radio : radio[c] \in ToSet(Col(c).offers)
  /\ \A c \in DOMAIN unsettled : c \in FilterNames /\ Col(c).kind = "text"

\* Filters are of columns there are, with a comparator that is offered and a value
FilterSound(l, c, filter) ==
  LET col == ColumnsOf(l)[c] IN
  /\ c \in DOMAIN ColumnsOf(l) /\ filter.type \in ToSet(col.offers) /\ filter.value # Blank
  /\ col.booleans # <<>> => filter.value \in col.options
ChosenSound ==
  /\ \A c \in DOMAIN chosen : FilterSound(list, c, chosen[c])
  /\ completed /\ ~switching => DOMAIN chosen \subseteq {"batchId", "type"}

\* A filter has the comparator its floating filter is set to
ChosenAsSet ==
  ~switching =>
    \A c \in DOMAIN chosen :
      Col(c).kind # "date" /\ c \notin restored \union DOMAIN unsettled => chosen[c].type = Setting(c)

\* No filter is in force that a toggle or another filter disables, but for a text that slipped in
ChosenTogether == slipped \/ \A c \in DOMAIN chosen : ~IsDisabled(c)

AskedForThis == asked # Absent /\ ~switching => asked = RequestFor(list, chosen, toggled, sortedBy)

ListQueryInv ==
  QueryShape /\ FiltersSet /\ ChosenSound /\ ChosenAsSet /\ ChosenTogether /\ AskedForThis
-----------------------------------------------------------------------------
(***************************************************************************)
(* Requests of lists: what the tables of the columns say.  Each column     *)
(* fits its list (Behaved), and what its filter becomes is read by the     *)
(* engine as it is meant (Understood).                                     *)
(***************************************************************************)

\* The engine reads the parameter p as a condition on a field
Reading(l, ended, p, condition) ==
  /\ p \notin EngineFlags(l, ended) \union {"dueDates", "createTimes"}
  /\ p \in DOMAIN EngineFields(l, ended) /\ EngineFields(l, ended)[p] = condition

\* The form in which the value of a filter reaches the engine
FormSent(l, format, type) ==
  IF type = "contains" THEN "%"
  ELSE IF type = "multi" /\ format = "textArray" /\ l \notin {"job",
                                                              "processDefinition"} THEN "array"
  ELSE Blank

\* Every option is a flag of the engine, or the other value of one
Flagged(l, ended, options, booleans) ==
  \A v \in options :
    IF v \in ToSet(booleans) THEN v \in EngineFlags(l, ended)
    ELSE v = "active" /\ Head(booleans) \in EngineFlags(l, ended)

\* What the engine makes of the filters of a column: all but the priority of jobs
Understood(l, ended, c) ==
  LET col == ColumnsOf(l)[c] IN
  /\ col.kind \in {"text", "multi", "select"} /\ col.booleans = <<>> =>
       \A type \in ToSet(col.offers) :
         LET p == IF type \in DOMAIN col.keys THEN col.keys[type] ELSE c
         IN IF c = "priority"
            THEN p \notin EngineFlags(l, ended) \union {"dueDates", "createTimes"}
                          \union DOMAIN EngineFields(l, ended)
            ELSE Reading(l, ended, p, <<c, type, FormSent(l, col.format, type)>>)
  /\ col.booleans # <<>> => Flagged(l, ended, col.options, col.booleans)
  /\ col.kind = "date" =>
       \E b, a : /\ col.keys = Ends(b, a)
                 /\ IF col.format = "text"
                    THEN /\ Reading(l, ended, b, <<c, "before", Blank>>)
                         /\ Reading(l, ended, a, <<c, "after", Blank>>)
                    ELSE /\ b = "lt" /\ a = "gt" /\ col.format \notin EngineFlags(l, ended)
                         /\ \/ col.format = "dueDates" /\ c = "dueDate"
                            \/ col.format = "createTimes" /\ c = "createTime"

\* The column that the engine sorts by, told by its key
SortsBack(l, key, c) ==
  key # Absent => \A ended \in BOOLEAN :
    LET keys == EngineSorts(l, ended)
    IN IF key \in DOMAIN keys THEN c = keys[key]
       ELSE IF key \in SortsOnItsOwnName(l, ended) THEN c = key
       ELSE l = "batch" /\ c = "endTime" /\ ~ended

\* Who excludes a column is another and is excluded by it
Mutual(l, c, disabledBy, toggles) ==
  /\ c \notin disabledBy
  /\ \A d \in disabledBy : d \in DOMAIN ColumnsOf(l) => c \in ColumnsOf(l)[d].disabledBy
  /\ \A t \in toggles : t \in DOMAIN TogglesOf(l) => c \in TogglesOf(l)[t]

\* What a filter offers
Offering(col) ==
  /\ col.kind \in {"none", "text", "multi", "select", "date"}
  /\ col.kind = "none" => col.offers = <<>>
  /\ col.kind # "none" => /\ Head(col.offers) \in ToSet(col.offers)
                          /\ ~ (Len(col.offers) > 1) => ToSet(col.offers) = {Head(col.offers)}
  /\ col.kind = "multi" => "multi" \in ToSet(col.offers)
  /\ col.kind = "select" => col.offers = <<"equals">>
  /\ col.kind = "date" => ToSet(col.offers) = {"inRange", "before", "after"}
  /\ col.booleans # <<>> => col.kind = "select"

\* The columns and options that the engine's clashes are about keep their names
NamesApart(l, c, options) ==
  /\ c \notin {"latestVersion", "withRetriesLeft", "noRetriesLeft"}
  /\ options \intersect {Blank, "latestVersion", "version", "deploymentId", "name", "id",
                         "jobDefinitionId"} = {}
  /\ l = "job" /\ c # "retries" => options \intersect {"withRetriesLeft", "noRetriesLeft"} = {}

Behaved(l, c) ==
  LET col == ColumnsOf(l)[c] IN
  /\ Offering(col)
  /\ col.kind # "date" /\ l = "batch" => Len(col.offers) <= 1
  /\ col.kind = "date" => col.disabledBy = {} /\ col.disabledByToggles = {}
  /\ Mutual(l, c, col.disabledBy, col.disabledByToggles)
  /\ NamesApart(l, c, col.options)
  /\ SortsBack(l, col.sort, c)

FitsTable(l, c) == Behaved(l, c) /\ Understood(l, FALSE, c)

\* A column with the filter of another, sorted by a key, excluded by others
IsColumn(col, filter, sort, disabledBy, toggles) ==
  /\ col.kind = filter.kind /\ col.offers = filter.offers /\ col.keys = filter.keys
  /\ col.format = filter.format /\ col.options = filter.options /\ col.booleans = filter.booleans
  /\ col.sort = sort /\ col.disabledBy = disabledBy /\ col.disabledByToggles = toggles

-----------------------------------------------------------------------------
\* What is offered as a set
LEMMA Offered ==
  /\ ToSet(<<>>) = {} /\ Len(<<>>) = 0
  /\ \A x : ToSet(<<x>>) = {x} /\ Len(<<x>>) = 1 /\ Head(<<x>>) = x /\ <<x>> # <<>>
  /\ \A x, y : ToSet(<<x, y>>) = {x, y} /\ Len(<<x, y>>) = 2 /\ Head(<<x, y>>) = x /\ <<x, y>> # <<>>
  /\ \A x, y, z : /\ ToSet(<<x, y, z>>) = {x, y, z} /\ Len(<<x, y, z>>) = 3
                   /\ Head(<<x, y, z>>) = x /\ <<x, y, z>> # <<>>
BY DEF ToSet

\* What a filter offers that offers one comparator.
LEMMA OffersOne ==
  ASSUME NEW filter, NEW x, filter.offers = <<x>>, filter.kind \in {"text", "multi", "select"},
         filter.kind = "multi" => x = "multi", filter.kind = "select" => x = "equals",
         filter.booleans # <<>> => filter.kind = "select"
  PROVE  Offering(filter) /\ Len(filter.offers) <= 1
<1>1. ToSet(filter.offers) = {x} /\ Head(filter.offers) = x /\ Len(filter.offers) = 1
  BY Offered
<1> QED BY <1>1 DEF Offering

\* What a filter offers that offers some.
LEMMA OffersMore ==
  ASSUME NEW filter, filter.booleans = <<>>,
         \/ filter.kind = "text" /\ \E x, y : filter.offers = <<x, y>>
         \/ filter.kind = "date" /\ filter.offers = <<"inRange", "before", "after">>
  PROVE  Offering(filter)
<1>1. CASE filter.kind = "text" /\ \E x, y : filter.offers = <<x, y>>
  <2>1. Head(filter.offers) \in ToSet(filter.offers) /\ Len(filter.offers) > 1
    BY <1>1, Offered
  <2> QED BY <1>1, <2>1 DEF Offering
<1>2. CASE filter.kind = "date" /\ filter.offers = <<"inRange", "before", "after">>
  <2>1. /\ ToSet(filter.offers) = {"inRange", "before", "after"}
        /\ Head(filter.offers) = "inRange" /\ Len(filter.offers) > 1
    BY <1>2, Offered
  <2> QED BY <1>2, <2>1 DEF Offering
<1> QED BY <1>1, <1>2

\* No one excludes most of the columns.
LEMMA NoneExcluded == \A l, c : Mutual(l, c, {}, {})
BY DEF Mutual

\* A column behaves if its parts do.
LEMMA BehavesByParts ==
  ASSUME NEW l, NEW c, NEW filter, NEW sort, NEW disabledBy, NEW toggles,
         IsColumn(ColumnsOf(l)[c], filter, sort, disabledBy, toggles),
         Offering(filter), filter.kind = "date" => disabledBy = {} /\ toggles = {},
         filter.kind # "date" /\ l = "batch" => Len(filter.offers) <= 1,
         Mutual(l, c, disabledBy, toggles), NamesApart(l, c, filter.options), SortsBack(l, sort, c)
  PROVE  Behaved(l, c)
<1> DEFINE col == ColumnsOf(l)[c]
<1> HIDE DEF col
<1>1. /\ col.kind = filter.kind /\ col.offers = filter.offers /\ col.options = filter.options
      /\ col.booleans = filter.booleans /\ col.sort = sort /\ col.disabledBy = disabledBy
      /\ col.disabledByToggles = toggles
  BY DEF col, IsColumn
<1>2. Offering(col)
  BY <1>1 DEF Offering
<1> QED BY <1>1, <1>2 DEF col, Behaved

\* Columns without a filter.
LEMMA BareFits ==
  ASSUME NEW l, NEW c, NEW sort, IsColumn(ColumnsOf(l)[c], Bare, sort, {}, {}),
         NamesApart(l, c, {}), SortsBack(l, sort, c)
  PROVE  FitsTable(l, c)
<1> DEFINE col == ColumnsOf(l)[c]
<1> HIDE DEF col
<1>1. Bare.kind = "none" /\ Bare.offers = <<>> /\ Bare.options = {} /\ Bare.booleans = <<>>
  BY DEF Bare, Column
<1>2. Offering(Bare) /\ Len(Bare.offers) <= 1
  BY <1>1 DEF Offering
<1>3. Behaved(l, c)
  BY <1>1, <1>2, NoneExcluded, BehavesByParts
<1>4. col.kind = "none" /\ col.booleans = <<>>
  BY <1>1 DEF col, IsColumn
<1>5. Understood(l, FALSE, c)
  BY <1>4 DEF Understood, col
<1> QED BY <1>3, <1>5 DEF FitsTable

\* A filter that is compared for equality, under the name of its column.
LEMMA ExactFits ==
  ASSUME NEW l, NEW c, c # "priority", NEW filter, NEW sort, NEW disabledBy, NEW toggles,
         filter = Exact \/ \E options : filter = Choice(options, <<>>),
         IsColumn(ColumnsOf(l)[c], filter, sort, disabledBy, toggles),
         Mutual(l, c, disabledBy, toggles), NamesApart(l, c, filter.options), SortsBack(l, sort, c)
  PROVE  /\ Reading(l, FALSE, c, <<c, "equals", Blank>>) => FitsTable(l, c)
         /\ Reading(l, TRUE, c, <<c, "equals", Blank>>) => Understood(l, TRUE, c)
<1> DEFINE col == ColumnsOf(l)[c]
<1>1. /\ filter.kind \in {"text", "select"} /\ filter.offers = <<"equals">> /\ filter.keys = <<>>
      /\ filter.booleans = <<>>
  BY DEF Exact, Text, Choice, Column
<1>2. Offering(filter) /\ Len(filter.offers) <= 1
  BY <1>1, OffersOne
<1> HIDE DEF col
<1>3. Behaved(l, c)
  BY <1>1, <1>2, BehavesByParts
<1>4. /\ col.kind \in {"text", "select"} /\ col.booleans = <<>> /\ col.offers = <<"equals">>
      /\ col.keys = <<>>
  BY <1>1, Zenon DEF col, IsColumn
<1>5. ToSet(col.offers) = {"equals"} /\ DOMAIN col.keys = {}
  BY <1>4, Offered
<1>6. \A type \in ToSet(col.offers) : type = "equals" /\ type \notin DOMAIN col.keys
  BY <1>5
<1>7. FormSent(l, col.format, "equals") = Blank
  BY DEF FormSent
<1>8. ASSUME NEW ended, Reading(l, ended, c, <<c, "equals", Blank>>) PROVE Understood(l, ended, c)
  BY <1>4, <1>6, <1>7, <1>8 DEF Understood, col
<1> QED BY <1>3, <1>8 DEF FitsTable

\* A filter that is compared for equality.
LEMMA ExactAsFits ==
  ASSUME NEW l, NEW c, c # "priority", NEW key, NEW sort, NEW disabledBy, NEW toggles,
         IsColumn(ColumnsOf(l)[c], ExactAs(key), sort, disabledBy, toggles),
         Mutual(l, c, disabledBy, toggles), NamesApart(l, c, {}), SortsBack(l, sort, c),
         Reading(l, FALSE, key, <<c, "equals", Blank>>)
  PROVE  FitsTable(l, c)
<1> DEFINE col == ColumnsOf(l)[c]
           filter == ExactAs(key)
<1>1. /\ filter.kind = "text" /\ filter.offers = <<"equals">> /\ filter.keys = [equals |-> key]
      /\ filter.options = {} /\ filter.booleans = <<>>
  BY DEF ExactAs, Text, Column
<1> HIDE DEF col, filter
<1>2. Offering(filter) /\ Len(filter.offers) <= 1
  BY <1>1, OffersOne
<1>3. Behaved(l, c)
  BY <1>1, <1>2, BehavesByParts DEF filter
<1>4. /\ col.kind = "text" /\ col.booleans = <<>> /\ col.offers = <<"equals">>
      /\ col.keys = [equals |-> key]
  BY <1>1, Zenon DEF col, filter, IsColumn
<1>5. ToSet(col.offers) = {"equals"} /\ DOMAIN col.keys = {"equals"} /\ col.keys["equals"] = key
  <2>1. DOMAIN [equals |-> key] = {"equals"} /\ [equals |-> key]["equals"] = key
    OBVIOUS
  <2> QED BY <1>4, <2>1, Offered
<1>6. FormSent(l, col.format, "equals") = Blank
  BY DEF FormSent
<1>7. Understood(l, FALSE, c)
  BY <1>4, <1>5, <1>6 DEF Understood, col
<1> QED BY <1>3, <1>7 DEF FitsTable

\* A filter that is compared for a part of the text.
LEMMA ContainsFits ==
  ASSUME NEW l, NEW c, c # "priority", NEW key, NEW sort, NEW disabledBy, NEW toggles,
         IsColumn(ColumnsOf(l)[c], Text(<<"contains">>, [contains |-> key]), sort, disabledBy,
                  toggles),
         Mutual(l, c, disabledBy, toggles), NamesApart(l, c, {}), SortsBack(l, sort, c),
         Reading(l, FALSE, key, <<c, "contains", "%">>)
  PROVE  FitsTable(l, c)
<1> DEFINE col == ColumnsOf(l)[c]
           filter == Text(<<"contains">>, [contains |-> key])
<1>1. /\ filter.kind = "text" /\ filter.offers = <<"contains">> /\ filter.keys = [contains |-> key]
      /\ filter.options = {} /\ filter.booleans = <<>>
  BY DEF Text, Column
<1> HIDE DEF col, filter
<1>2. Offering(filter) /\ Len(filter.offers) <= 1
  BY <1>1, OffersOne
<1>3. Behaved(l, c)
  BY <1>1, <1>2, BehavesByParts DEF filter
<1>4. /\ col.kind = "text" /\ col.booleans = <<>> /\ col.offers = <<"contains">>
      /\ col.keys = [contains |-> key]
  BY <1>1, Zenon DEF col, filter, IsColumn
<1>5. /\ ToSet(col.offers) = {"contains"}
      /\ DOMAIN col.keys = {"contains"}
      /\ col.keys["contains"] = key
  <2>1. DOMAIN [contains |-> key] = {"contains"} /\ [contains |-> key]["contains"] = key
    OBVIOUS
  <2> QED BY <1>4, <2>1, Offered
<1>6. FormSent(l, col.format, "contains") = "%"
  BY DEF FormSent
<1>7. Understood(l, FALSE, c)
  BY <1>4, <1>5, <1>6 DEF Understood, col
<1> QED BY <1>3, <1>7 DEF FitsTable

\* A filter that is compared either way.
LEMMA LikeOrExactFits ==
  ASSUME NEW l, l # "batch", NEW c, c # "priority", NEW like, NEW key, NEW sort,
         IsColumn(ColumnsOf(l)[c], LikeOrExact(like, key), sort, {}, {}),
         NamesApart(l, c, {}), SortsBack(l, sort, c),
         Reading(l, FALSE, like, <<c, "contains", "%">>),
         Reading(l, FALSE, key, <<c, "equals", Blank>>)
  PROVE  FitsTable(l, c)
<1> DEFINE col == ColumnsOf(l)[c]
           filter == LikeOrExact(like, key)
           keys == [contains |-> like, equals |-> key]
<1>1. /\ filter.kind = "text" /\ filter.offers = <<"contains", "equals">> /\ filter.keys = keys
      /\ filter.options = {} /\ filter.booleans = <<>>
  BY DEF LikeOrExact, Text, Column
<1>2. DOMAIN keys = {"contains", "equals"} /\ keys["contains"] = like /\ keys["equals"] = key
  OBVIOUS
<1> HIDE DEF col, filter, keys
<1>3. Offering(filter)
  BY <1>1, OffersMore
<1>4. Behaved(l, c)
  BY <1>1, <1>3, NoneExcluded, BehavesByParts DEF filter
<1>5. /\ col.kind = "text" /\ col.booleans = <<>> /\ col.offers = <<"contains", "equals">>
      /\ col.keys = keys
  BY <1>1, Zenon DEF col, filter, IsColumn
<1>6. ToSet(col.offers) = {"contains", "equals"}
  BY <1>5, Offered
<1>7. FormSent(l, col.format, "contains") = "%" /\ FormSent(l, col.format, "equals") = Blank
  BY DEF FormSent
<1>8. Understood(l, FALSE, c)
  BY <1>2, <1>5, <1>6, <1>7 DEF Understood, col
<1> QED BY <1>4, <1>8 DEF FitsTable

\* A filter of several values.
LEMMA SeveralFits ==
  ASSUME NEW l, NEW c, c # "priority", NEW format, NEW key, NEW sort, NEW disabledBy,
         IsColumn(ColumnsOf(l)[c], Several(format, key), sort, disabledBy, {}),
         Mutual(l, c, disabledBy, {}), NamesApart(l, c, {}), SortsBack(l, sort, c),
         Reading(l, FALSE, key, <<c, "multi", FormSent(l, format, "multi")>>)
  PROVE  FitsTable(l, c)
<1> DEFINE col == ColumnsOf(l)[c]
           filter == Several(format, key)
<1>1. /\ filter.kind = "multi" /\ filter.offers = <<"multi">> /\ filter.keys = [multi |-> key]
      /\ filter.options = {} /\ filter.booleans = <<>> /\ filter.format = format
  BY DEF Several, Column
<1> HIDE DEF col, filter
<1>2. Offering(filter) /\ Len(filter.offers) <= 1
  BY <1>1, OffersOne
<1>3. Behaved(l, c)
  BY <1>1, <1>2, BehavesByParts DEF filter
<1>4. /\ col.kind = "multi" /\ col.booleans = <<>> /\ col.offers = <<"multi">>
      /\ col.keys = [multi |-> key] /\ col.format = format
  BY <1>1, Zenon DEF col, filter, IsColumn
<1>5. ToSet(col.offers) = {"multi"} /\ DOMAIN col.keys = {"multi"} /\ col.keys["multi"] = key
  <2>1. DOMAIN [multi |-> key] = {"multi"} /\ [multi |-> key]["multi"] = key
    OBVIOUS
  <2> QED BY <1>4, <2>1, Offered
<1>6. Understood(l, FALSE, c)
  BY <1>4, <1>5 DEF Understood, col
<1> QED BY <1>3, <1>6 DEF FitsTable

\* Filters of dates are alike.
LEMMA DateBehaves ==
  ASSUME NEW l, NEW c, NEW filter, filter.kind = "date", filter.offers = <<"inRange", "before", "after">>,
         filter.options = {}, filter.booleans = <<>>, NEW sort,
         IsColumn(ColumnsOf(l)[c], filter, sort, {}, {}), NamesApart(l, c, {}),
         SortsBack(l, sort, c)
  PROVE  Behaved(l, c)
<1>1. Offering(filter)
  BY OffersMore
<1> QED BY <1>1, NoneExcluded, BehavesByParts

\* A filter of dates, whose ends are parameters of their own.
LEMMA DateFits ==
  ASSUME NEW l, NEW c, NEW b, NEW a, NEW sort,
         IsColumn(ColumnsOf(l)[c], DateColumn(b, a), sort, {}, {}),
         NamesApart(l, c, {}), SortsBack(l, sort, c),
         Reading(l, FALSE, b, <<c, "before", Blank>>), Reading(l, FALSE, a, <<c, "after", Blank>>)
  PROVE  FitsTable(l, c)
<1> DEFINE col == ColumnsOf(l)[c]
           filter == DateColumn(b, a)
<1>1. /\ filter.kind = "date" /\ filter.offers = <<"inRange", "before", "after">>
      /\ filter.options = {} /\ filter.booleans = <<>> /\ filter.keys = Ends(b, a)
      /\ filter.format = "text"
  BY DEF DateColumn, Column
<1> HIDE DEF col, filter
<1>2. IsColumn(col, filter, sort, {}, {})
  BY DEF col, filter
<1>3. Behaved(l, c)
  BY <1>1, <1>2, DateBehaves DEF col
<1>4. col.kind = "date" /\ col.booleans = <<>> /\ col.keys = Ends(b, a) /\ col.format = "text"
  BY <1>1, <1>2, Zenon DEF IsColumn
<1>5. Understood(l, FALSE, c)
  BY <1>4 DEF Understood, col
<1> QED BY <1>3, <1>5 DEF FitsTable

\* A filter of dates, whose ends are in an array.
LEMMA DateArrayFits ==
  ASSUME NEW l, NEW c, NEW format, format \notin EngineFlags(l, FALSE) \union {"text"}, NEW sort,
         IsColumn(ColumnsOf(l)[c], DateArray(format), sort, {}, {}),
         NamesApart(l, c, {}), SortsBack(l, sort, c),
         (format = "dueDates" /\ c = "dueDate") \/ (format = "createTimes" /\ c = "createTime")
  PROVE  FitsTable(l, c)
<1> DEFINE col == ColumnsOf(l)[c]
           filter == DateArray(format)
<1>1. /\ filter.kind = "date" /\ filter.offers = <<"inRange", "before", "after">>
      /\ filter.options = {} /\ filter.booleans = <<>> /\ filter.keys = Ends("lt", "gt")
      /\ filter.format = format
  BY DEF DateArray, DateColumn, Column
<1> HIDE DEF col, filter
<1>2. IsColumn(col, filter, sort, {}, {})
  BY DEF col, filter
<1>3. Behaved(l, c)
  BY <1>1, <1>2, DateBehaves DEF col
<1>4. /\ col.kind = "date" /\ col.booleans = <<>> /\ col.keys = Ends("lt", "gt")
      /\ col.format = format
  BY <1>1, <1>2, Zenon DEF IsColumn
<1>5. Understood(l, FALSE, c)
  BY <1>4 DEF Understood, col
<1> QED BY <1>3, <1>5 DEF FitsTable

\* A filter that chooses one of the engine's flags.
LEMMA ChoiceFits ==
  ASSUME NEW l, NEW c, NEW options, NEW booleans, booleans # <<>>, NEW sort, NEW toggles,
         IsColumn(ColumnsOf(l)[c], Choice(options, booleans), sort, {}, toggles),
         Mutual(l, c, {}, toggles), NamesApart(l, c, options), SortsBack(l, sort, c),
         Flagged(l, FALSE, options, booleans)
  PROVE  FitsTable(l, c)
<1> DEFINE col == ColumnsOf(l)[c]
           filter == Choice(options, booleans)
<1>1. /\ filter.kind = "select" /\ filter.offers = <<"equals">> /\ filter.options = options
      /\ filter.booleans = booleans
  BY DEF Choice, Column
<1> HIDE DEF col, filter
<1>2. Offering(filter) /\ Len(filter.offers) <= 1
  BY <1>1, OffersOne
<1>3. Behaved(l, c)
  BY <1>1, <1>2, BehavesByParts DEF filter
<1>4. col.kind = "select" /\ col.booleans = booleans /\ col.options = options
  BY <1>1, Zenon DEF col, filter, IsColumn
<1>5. Understood(l, FALSE, c)
  BY <1>4 DEF Understood, col
<1> QED BY <1>3, <1>5 DEF FitsTable

\* A filter that the engine does not know, of either comparator.
LEMMA UnreadFits ==
  ASSUME NEW l, l # "batch", NEW x, NEW y, NEW keys, {x, y} \intersect DOMAIN keys = {}, NEW sort,
         IsColumn(ColumnsOf(l)["priority"], Text(<<x, y>>, keys), sort, {}, {}),
         NamesApart(l, "priority", {}), SortsBack(l, sort, "priority"),
         "priority" \notin EngineFlags(l, FALSE) \union DOMAIN EngineFields(l, FALSE)
  PROVE  FitsTable(l, "priority")
<1> DEFINE col == ColumnsOf(l)["priority"]
           filter == Text(<<x, y>>, keys)
<1>1. /\ filter.kind = "text" /\ filter.offers = <<x, y>> /\ filter.keys = keys
      /\ filter.options = {} /\ filter.booleans = <<>>
  BY DEF Text, Column
<1> HIDE DEF col, filter
<1>2. Offering(filter)
  BY <1>1, OffersMore
<1>3. Behaved(l, "priority")
  BY <1>1, <1>2, NoneExcluded, BehavesByParts DEF filter
<1>4. col.kind = "text" /\ col.booleans = <<>> /\ col.offers = <<x, y>> /\ col.keys = keys
  BY <1>1, Zenon DEF col, filter, IsColumn
<1>5. ToSet(col.offers) = {x, y}
  BY <1>4, Offered
<1>6. \A type \in ToSet(col.offers) : type \notin DOMAIN col.keys
  BY <1>4, <1>5
<1>7. Understood(l, FALSE, "priority")
  BY <1>4, <1>6 DEF Understood, col
<1> QED BY <1>3, <1>7 DEF FitsTable

\* A filter of several values, or of a part of one.
LEMMA SeveralOrLikeFits ==
  ASSUME NEW l, l # "batch", NEW c, c # "priority", NEW format, NEW many, NEW like, NEW sort,
         IsColumn(ColumnsOf(l)[c],
                  [Several(format, many) EXCEPT !.offers = <<"contains", "multi">>,
                                                !.keys = [multi |-> many, contains |-> like]],
                  sort, {}, {}),
         NamesApart(l, c, {}), SortsBack(l, sort, c),
         Reading(l, FALSE, like, <<c, "contains", "%">>),
         Reading(l, FALSE, many, <<c, "multi", FormSent(l, format, "multi")>>)
  PROVE  FitsTable(l, c)
<1> DEFINE col == ColumnsOf(l)[c]
           keys == [multi |-> many, contains |-> like]
           filter == [Several(format, many) EXCEPT !.offers = <<"contains", "multi">>,
                      !.keys = keys]
<1>1. /\ filter.kind = "multi" /\ filter.offers = <<"contains", "multi">> /\ filter.keys = keys
      /\ filter.options = {} /\ filter.booleans = <<>> /\ filter.format = format
  BY DEF Several, Column
<1>2. DOMAIN keys = {"contains", "multi"} /\ keys["contains"] = like /\ keys["multi"] = many
  OBVIOUS
<1>3. IsColumn(col, filter, sort, {}, {})
  OBVIOUS
<1> HIDE DEF col, filter, keys
<1>4. Offering(filter)
  <2>1. /\ Head(filter.offers) = "contains" /\ Len(filter.offers) > 1
        /\ ToSet(filter.offers) = {"contains", "multi"}
    BY <1>1, Offered
  <2> QED BY <1>1, <2>1 DEF Offering
<1>5. Behaved(l, c)
  BY <1>1, <1>3, <1>4, NoneExcluded, BehavesByParts DEF col
<1>6. /\ col.kind = "multi" /\ col.booleans = <<>> /\ col.offers = <<"contains", "multi">>
      /\ col.keys = keys /\ col.format = format
  BY <1>1, <1>3, Zenon DEF IsColumn
<1>7. ToSet(col.offers) = {"contains", "multi"}
  BY <1>6, Offered
<1>8. FormSent(l, col.format, "contains") = "%"
  BY DEF FormSent
<1>9. Understood(l, FALSE, c)
  BY <1>2, <1>6, <1>7, <1>8 DEF Understood, col
<1> QED BY <1>5, <1>9 DEF FitsTable

\* A set in some order.
LEMMA SetInOrder ==
  ASSUME NEW S, IsFiniteSet(S), S # {}
  PROVE  ToSet(SetToSeq(S)) = S /\ SetToSeq(S) # <<>>
<1> DEFINE n == Cardinality(S)
           f == SetToSeq(S)
<1>1. n \in Nat /\ ExistsBijection(1..n, S) /\ n # 0
  BY FS_CardinalityType, FS_EmptySet
<1>2. \E g \in [1..n -> S] : IsInjective(g)
  BY <1>1 DEF ExistsBijection, Bijection, Injection
<1>3. f \in [1..n -> S] /\ IsInjective(f)
  BY <1>2 DEF SetToSeq
<1>4. f \in Injection(1..n, S)
  BY <1>3 DEF Injection
<1>5. Cardinality(1..n) = n
  <2>1. 1 \in Int /\ n \in Int /\ ~ (1 > n)
    BY <1>1
  <2> QED BY <2>1, FS_Interval
<1> HIDE DEF f, n
<1>6. f \in Surjection(1..n, S)
  <2>1. Cardinality(1..n) = Cardinality(S)
    BY <1>5 DEF n
  <2> QED BY <1>4, <2>1, FS_Injection
<1>7. \A s \in S : \E i \in 1..n : f[i] = s
  BY <1>6 DEF Surjection
<1>8. DOMAIN f = 1..n
  BY <1>3
<1>9. f # <<>>
  <2>1. 1 \in DOMAIN f
    BY <1>1, <1>8
  <2> QED BY <2>1
<1>10. ToSet(f) = S
  BY <1>3, <1>7, <1>8 DEF ToSet
<1> QED BY <1>9, <1>10 DEF f

\* The states of process instances.
LEMMA StatesFinite == IsFiniteSet(InstanceStates) /\ InstanceStates # {}
<1> DEFINE three == {"active"} \union {"completed"} \union {"suspended"}
           five == three \union {"externallyTerminated"} \union {"internallyTerminated"}
<1>1. InstanceStates = five \union {"finished"} \union {"unfinished"}
  BY DEF InstanceStates
<1>2. \A S, x : IsFiniteSet(S) => IsFiniteSet(S \union {x})
  BY FS_AddElement
<1>3. IsFiniteSet(three)
  BY <1>2, FS_Singleton
<1>4. IsFiniteSet(five)
  BY <1>2, <1>3
<1>5. IsFiniteSet(five \union {"finished"} \union {"unfinished"})
  BY <1>2, <1>4
<1> QED BY <1>1, <1>5

\* Every column of the list of incidents fits.
LEMMA IncidentTable ==
  \A c \in DOMAIN ColumnsOf("incident") : FitsTable("incident", c)
<1>0. DOMAIN ColumnsOf("incident") =
        {"id", "processDefinitionKey", "processDefinitionId", "processInstanceId", "createTime",
         "endTime", "incidentType", "activityId", "failedActivityId", "causeIncidentId",
         "rootCauseIncidentId", "incidentMessage", "jobDefinitionId", "status"}
  BY DEF ColumnsOf, IncidentColumns, OtherIncidentColumns, ++
<1>f. EngineFields("incident", FALSE) = IncidentFields
  BY DEF EngineFields
<1>g. EngineFlags("incident", FALSE) = {"open", "deleted", "resolved"}
  BY DEF EngineFlags
<1>1. FitsTable("incident", "id")
  <2>0. ColumnsOf("incident")["id"] = Sortable("incidentId", ExactAs("incidentId"))
    BY Zenon DEF ColumnsOf, IncidentColumns, OtherIncidentColumns, ++
  <2>1. IsColumn(ColumnsOf("incident")["id"], ExactAs("incidentId"), "incidentId", {}, {})
    BY <2>0, Zenon DEF IsColumn, Sortable, ExactAs, Text, Column
  <2>2. NamesApart("incident", "id", {}) /\ SortsBack("incident", "incidentId", "id")
    BY DEF NamesApart, SortsBack, EngineSorts, SortsOnItsOwnName
  <2>3. /\ "incidentId" \in DOMAIN IncidentFields
        /\ IncidentFields["incidentId"] = <<"id", "equals", Blank>>
    BY Zenon DEF IncidentFields, Equals, Reads, Like, Listed, Period, ++
  <2>4. Reading("incident", FALSE, "incidentId", <<"id", "equals", Blank>>)
    BY <1>f, <1>g, <2>3 DEF Reading
  <2> QED BY <2>1, <2>2, <2>4, NoneExcluded, ExactAsFits
<1>2. FitsTable("incident", "processDefinitionKey")
  <2>0. ColumnsOf("incident")["processDefinitionKey"]
          = Sortable("processDefinitionKey",
                     Several("commaSeparatedList", "processDefinitionKeyIn"))
    BY Zenon DEF ColumnsOf, IncidentColumns, OtherIncidentColumns, ++
  <2>1. IsColumn(ColumnsOf("incident")["processDefinitionKey"],
                 Several("commaSeparatedList", "processDefinitionKeyIn"), "processDefinitionKey",
                 {}, {})
    BY <2>0, Zenon DEF IsColumn, Sortable, Several, Column
  <2>2. /\ NamesApart("incident", "processDefinitionKey", {})
        /\ SortsBack("incident", "processDefinitionKey", "processDefinitionKey")
    BY DEF NamesApart, SortsBack, EngineSorts, SortsOnItsOwnName
  <2>3. /\ "processDefinitionKeyIn" \in DOMAIN IncidentFields
        /\ IncidentFields["processDefinitionKeyIn"] = <<"processDefinitionKey", "multi", Blank>>
    BY Zenon DEF IncidentFields, Equals, Reads, Like, Listed, Period, ++
  <2>4. Reading("incident", FALSE, "processDefinitionKeyIn",
                <<"processDefinitionKey", "multi", Blank>>)
    BY <1>f, <1>g, <2>3 DEF Reading
  <2>5. FormSent("incident", "commaSeparatedList", "multi") = Blank
    BY DEF FormSent
  <2> QED BY <2>1, <2>2, <2>4, <2>5, NoneExcluded, SeveralFits
<1>3. FitsTable("incident", "processDefinitionId")
  <2>0. ColumnsOf("incident")["processDefinitionId"] = Sortable("processDefinitionId", Exact)
    BY Zenon DEF ColumnsOf, IncidentColumns, OtherIncidentColumns, ++
  <2>1. IsColumn(ColumnsOf("incident")["processDefinitionId"], Exact, "processDefinitionId", {}, {})
    BY <2>0, Zenon DEF IsColumn, Sortable, Exact, Text, Column
  <2>2. /\ NamesApart("incident", "processDefinitionId", {})
        /\ SortsBack("incident", "processDefinitionId", "processDefinitionId")
    BY DEF NamesApart, SortsBack, EngineSorts, SortsOnItsOwnName
  <2>3. /\ "processDefinitionId" \in DOMAIN IncidentFields
        /\ IncidentFields["processDefinitionId"] = <<"processDefinitionId", "equals", Blank>>
    BY Zenon DEF IncidentFields, Equals, Reads, Like, Listed, Period, ++
  <2>4. Reading("incident", FALSE, "processDefinitionId",
                <<"processDefinitionId", "equals", Blank>>)
    BY <1>f, <1>g, <2>3 DEF Reading
  <2>5. Exact.options = {}
    BY DEF Exact, Text, Column
  <2> QED BY <2>1, <2>2, <2>4, <2>5, NoneExcluded, ExactFits
<1>4. FitsTable("incident", "processInstanceId")
  <2>0. ColumnsOf("incident")["processInstanceId"] = Sortable("processInstanceId", Exact)
    BY Zenon DEF ColumnsOf, IncidentColumns, OtherIncidentColumns, ++
  <2>1. IsColumn(ColumnsOf("incident")["processInstanceId"], Exact, "processInstanceId", {}, {})
    BY <2>0, Zenon DEF IsColumn, Sortable, Exact, Text, Column
  <2>2. /\ NamesApart("incident", "processInstanceId", {})
        /\ SortsBack("incident", "processInstanceId", "processInstanceId")
    BY DEF NamesApart, SortsBack, EngineSorts, SortsOnItsOwnName
  <2>3. /\ "processInstanceId" \in DOMAIN IncidentFields
        /\ IncidentFields["processInstanceId"] = <<"processInstanceId", "equals", Blank>>
    BY Zenon DEF IncidentFields, Equals, Reads, Like, Listed, Period, ++
  <2>4. Reading("incident", FALSE, "processInstanceId", <<"processInstanceId", "equals", Blank>>)
    BY <1>f, <1>g, <2>3 DEF Reading
  <2>5. Exact.options = {}
    BY DEF Exact, Text, Column
  <2> QED BY <2>1, <2>2, <2>4, <2>5, NoneExcluded, ExactFits
<1>5. FitsTable("incident", "createTime")
  <2>0. ColumnsOf("incident")["createTime"]
          = Sortable("createTime", DateColumn("createTimeBefore", "createTimeAfter"))
    BY Zenon DEF ColumnsOf, IncidentColumns, OtherIncidentColumns, ++
  <2>1. IsColumn(ColumnsOf("incident")["createTime"],
                 DateColumn("createTimeBefore", "createTimeAfter"), "createTime", {}, {})
    BY <2>0, Zenon DEF IsColumn, Sortable, DateColumn, Column
  <2>2. /\ NamesApart("incident", "createTime", {})
        /\ SortsBack("incident", "createTime", "createTime")
    BY DEF NamesApart, SortsBack, EngineSorts, SortsOnItsOwnName
  <2>3. /\ "createTimeBefore" \in DOMAIN IncidentFields
        /\ IncidentFields["createTimeBefore"] = <<"createTime", "before", Blank>>
    BY Zenon DEF IncidentFields, Equals, Reads, Like, Listed, Period, ++
  <2>4. /\ "createTimeAfter" \in DOMAIN IncidentFields
        /\ IncidentFields["createTimeAfter"] = <<"createTime", "after", Blank>>
    BY Zenon DEF IncidentFields, Equals, Reads, Like, Listed, Period, ++
  <2>5. Reading("incident", FALSE, "createTimeBefore", <<"createTime", "before", Blank>>)
    BY <1>f, <1>g, <2>3 DEF Reading
  <2>6. Reading("incident", FALSE, "createTimeAfter", <<"createTime", "after", Blank>>)
    BY <1>f, <1>g, <2>4 DEF Reading
  <2> QED BY <2>1, <2>2, <2>5, <2>6, DateFits
<1>6. FitsTable("incident", "endTime")
  <2>0. ColumnsOf("incident")["endTime"]
          = Sortable("endTime", DateColumn("endTimeBefore", "endTimeAfter"))
    BY Zenon DEF ColumnsOf, IncidentColumns, OtherIncidentColumns, ++
  <2>1. IsColumn(ColumnsOf("incident")["endTime"], DateColumn("endTimeBefore", "endTimeAfter"),
                 "endTime", {}, {})
    BY <2>0, Zenon DEF IsColumn, Sortable, DateColumn, Column
  <2>2. NamesApart("incident", "endTime", {}) /\ SortsBack("incident", "endTime", "endTime")
    BY DEF NamesApart, SortsBack, EngineSorts, SortsOnItsOwnName
  <2>3. /\ "endTimeBefore" \in DOMAIN IncidentFields
        /\ IncidentFields["endTimeBefore"] = <<"endTime", "before", Blank>>
    BY Zenon DEF IncidentFields, Equals, Reads, Like, Listed, Period, ++
  <2>4. /\ "endTimeAfter" \in DOMAIN IncidentFields
        /\ IncidentFields["endTimeAfter"] = <<"endTime", "after", Blank>>
    BY Zenon DEF IncidentFields, Equals, Reads, Like, Listed, Period, ++
  <2>5. Reading("incident", FALSE, "endTimeBefore", <<"endTime", "before", Blank>>)
    BY <1>f, <1>g, <2>3 DEF Reading
  <2>6. Reading("incident", FALSE, "endTimeAfter", <<"endTime", "after", Blank>>)
    BY <1>f, <1>g, <2>4 DEF Reading
  <2> QED BY <2>1, <2>2, <2>5, <2>6, DateFits
<1>7. FitsTable("incident", "incidentType")
  <2>0. ColumnsOf("incident")["incidentType"]
          = Sortable("incidentType", Choice({"failedJob", "failedExternalTask"}, <<>>))
    BY Zenon DEF ColumnsOf, IncidentColumns, OtherIncidentColumns, ++
  <2>1. IsColumn(ColumnsOf("incident")["incidentType"],
                 Choice({"failedJob", "failedExternalTask"}, <<>>), "incidentType", {}, {})
    BY <2>0, Zenon DEF IsColumn, Sortable, Choice, Column
  <2>2. /\ NamesApart("incident", "incidentType", {"failedJob", "failedExternalTask"})
        /\ SortsBack("incident", "incidentType", "incidentType")
    BY DEF NamesApart, SortsBack, EngineSorts, SortsOnItsOwnName
  <2>3. /\ "incidentType" \in DOMAIN IncidentFields
        /\ IncidentFields["incidentType"] = <<"incidentType", "equals", Blank>>
    BY Zenon DEF IncidentFields, Equals, Reads, Like, Listed, Period, ++
  <2>4. Reading("incident", FALSE, "incidentType", <<"incidentType", "equals", Blank>>)
    BY <1>f, <1>g, <2>3 DEF Reading
  <2>5. (Choice({"failedJob", "failedExternalTask"}, <<>>)).options
          = {"failedJob", "failedExternalTask"}
    BY DEF Choice, Column
  <2> QED BY <2>1, <2>2, <2>4, <2>5, NoneExcluded, ExactFits
<1>8. FitsTable("incident", "activityId")
  <2>0. ColumnsOf("incident")["activityId"] = Sortable("activityId", Exact)
    BY Zenon DEF ColumnsOf, IncidentColumns, OtherIncidentColumns, ++
  <2>1. IsColumn(ColumnsOf("incident")["activityId"], Exact, "activityId", {}, {})
    BY <2>0, Zenon DEF IsColumn, Sortable, Exact, Text, Column
  <2>2. /\ NamesApart("incident", "activityId", {})
        /\ SortsBack("incident", "activityId", "activityId")
    BY DEF NamesApart, SortsBack, EngineSorts, SortsOnItsOwnName
  <2>3. /\ "activityId" \in DOMAIN IncidentFields
        /\ IncidentFields["activityId"] = <<"activityId", "equals", Blank>>
    BY Zenon DEF IncidentFields, Equals, Reads, Like, Listed, Period, ++
  <2>4. Reading("incident", FALSE, "activityId", <<"activityId", "equals", Blank>>)
    BY <1>f, <1>g, <2>3 DEF Reading
  <2>5. Exact.options = {}
    BY DEF Exact, Text, Column
  <2> QED BY <2>1, <2>2, <2>4, <2>5, NoneExcluded, ExactFits
<1>9. FitsTable("incident", "failedActivityId")
  <2>0. ColumnsOf("incident")["failedActivityId"] = Exact
    BY Zenon DEF ColumnsOf, IncidentColumns, OtherIncidentColumns, ++
  <2>1. IsColumn(ColumnsOf("incident")["failedActivityId"], Exact, Absent, {}, {})
    BY <2>0, Zenon DEF IsColumn, Exact, Text, Column
  <2>2. /\ NamesApart("incident", "failedActivityId", {})
        /\ SortsBack("incident", Absent, "failedActivityId")
    BY Zenon DEF NamesApart, SortsBack
  <2>3. /\ "failedActivityId" \in DOMAIN IncidentFields
        /\ IncidentFields["failedActivityId"] = <<"failedActivityId", "equals", Blank>>
    BY Zenon DEF IncidentFields, Equals, Reads, Like, Listed, Period, ++
  <2>4. Reading("incident", FALSE, "failedActivityId", <<"failedActivityId", "equals", Blank>>)
    BY <1>f, <1>g, <2>3 DEF Reading
  <2>5. Exact.options = {}
    BY DEF Exact, Text, Column
  <2> QED BY <2>1, <2>2, <2>4, <2>5, NoneExcluded, ExactFits
<1>10. FitsTable("incident", "causeIncidentId")
  <2>0. ColumnsOf("incident")["causeIncidentId"] = Sortable("causeIncidentId", Exact)
    BY Zenon DEF ColumnsOf, IncidentColumns, OtherIncidentColumns, ++
  <2>1. IsColumn(ColumnsOf("incident")["causeIncidentId"], Exact, "causeIncidentId", {}, {})
    BY <2>0, Zenon DEF IsColumn, Sortable, Exact, Text, Column
  <2>2. /\ NamesApart("incident", "causeIncidentId", {})
        /\ SortsBack("incident", "causeIncidentId", "causeIncidentId")
    BY DEF NamesApart, SortsBack, EngineSorts, SortsOnItsOwnName
  <2>3. /\ "causeIncidentId" \in DOMAIN IncidentFields
        /\ IncidentFields["causeIncidentId"] = <<"causeIncidentId", "equals", Blank>>
    BY Zenon DEF IncidentFields, Equals, Reads, Like, Listed, Period, ++
  <2>4. Reading("incident", FALSE, "causeIncidentId", <<"causeIncidentId", "equals", Blank>>)
    BY <1>f, <1>g, <2>3 DEF Reading
  <2>5. Exact.options = {}
    BY DEF Exact, Text, Column
  <2> QED BY <2>1, <2>2, <2>4, <2>5, NoneExcluded, ExactFits
<1>11. FitsTable("incident", "rootCauseIncidentId")
  <2>0. ColumnsOf("incident")["rootCauseIncidentId"] = Sortable("rootCauseIncidentId", Exact)
    BY Zenon DEF ColumnsOf, IncidentColumns, OtherIncidentColumns, ++
  <2>1. IsColumn(ColumnsOf("incident")["rootCauseIncidentId"], Exact, "rootCauseIncidentId", {}, {})
    BY <2>0, Zenon DEF IsColumn, Sortable, Exact, Text, Column
  <2>2. /\ NamesApart("incident", "rootCauseIncidentId", {})
        /\ SortsBack("incident", "rootCauseIncidentId", "rootCauseIncidentId")
    BY DEF NamesApart, SortsBack, EngineSorts, SortsOnItsOwnName
  <2>3. /\ "rootCauseIncidentId" \in DOMAIN IncidentFields
        /\ IncidentFields["rootCauseIncidentId"] = <<"rootCauseIncidentId", "equals", Blank>>
    BY Zenon DEF IncidentFields, Equals, Reads, Like, Listed, Period, ++
  <2>4. Reading("incident", FALSE, "rootCauseIncidentId",
                <<"rootCauseIncidentId", "equals", Blank>>)
    BY <1>f, <1>g, <2>3 DEF Reading
  <2>5. Exact.options = {}
    BY DEF Exact, Text, Column
  <2> QED BY <2>1, <2>2, <2>4, <2>5, NoneExcluded, ExactFits
<1>12. FitsTable("incident", "incidentMessage")
  <2>0. ColumnsOf("incident")["incidentMessage"]
          = Sortable("incidentMessage", LikeOrExact("incidentMessageLike", "incidentMessage"))
    BY Zenon DEF ColumnsOf, IncidentColumns, OtherIncidentColumns, ++
  <2>1. IsColumn(ColumnsOf("incident")["incidentMessage"],
                 LikeOrExact("incidentMessageLike", "incidentMessage"), "incidentMessage", {}, {})
    BY <2>0, Zenon DEF IsColumn, Sortable, LikeOrExact, Text, Column
  <2>2. /\ NamesApart("incident", "incidentMessage", {})
        /\ SortsBack("incident", "incidentMessage", "incidentMessage")
    BY DEF NamesApart, SortsBack, EngineSorts, SortsOnItsOwnName
  <2>3. /\ "incidentMessageLike" \in DOMAIN IncidentFields
        /\ IncidentFields["incidentMessageLike"] = <<"incidentMessage", "contains", "%">>
    BY Zenon DEF IncidentFields, Equals, Reads, Like, Listed, Period, ++
  <2>4. /\ "incidentMessage" \in DOMAIN IncidentFields
        /\ IncidentFields["incidentMessage"] = <<"incidentMessage", "equals", Blank>>
    BY Zenon DEF IncidentFields, Equals, Reads, Like, Listed, Period, ++
  <2>5. Reading("incident", FALSE, "incidentMessageLike", <<"incidentMessage", "contains", "%">>)
    BY <1>f, <1>g, <2>3 DEF Reading
  <2>6. Reading("incident", FALSE, "incidentMessage", <<"incidentMessage", "equals", Blank>>)
    BY <1>f, <1>g, <2>4 DEF Reading
  <2> QED BY <2>1, <2>2, <2>5, <2>6, LikeOrExactFits
<1>13. FitsTable("incident", "jobDefinitionId")
  <2>0. ColumnsOf("incident")["jobDefinitionId"]
          = Several("commaSeparatedList", "jobDefinitionIdIn")
    BY Zenon DEF ColumnsOf, IncidentColumns, OtherIncidentColumns, ++
  <2>1. IsColumn(ColumnsOf("incident")["jobDefinitionId"],
                 Several("commaSeparatedList", "jobDefinitionIdIn"), Absent, {}, {})
    BY <2>0, Zenon DEF IsColumn, Several, Column
  <2>2. /\ NamesApart("incident", "jobDefinitionId", {})
        /\ SortsBack("incident", Absent, "jobDefinitionId")
    BY Zenon DEF NamesApart, SortsBack
  <2>3. /\ "jobDefinitionIdIn" \in DOMAIN IncidentFields
        /\ IncidentFields["jobDefinitionIdIn"] = <<"jobDefinitionId", "multi", Blank>>
    BY Zenon DEF IncidentFields, Equals, Reads, Like, Listed, Period, ++
  <2>4. Reading("incident", FALSE, "jobDefinitionIdIn", <<"jobDefinitionId", "multi", Blank>>)
    BY <1>f, <1>g, <2>3 DEF Reading
  <2>5. FormSent("incident", "commaSeparatedList", "multi") = Blank
    BY DEF FormSent
  <2> QED BY <2>1, <2>2, <2>4, <2>5, NoneExcluded, SeveralFits
<1>14. FitsTable("incident", "status")
  <2>0. ColumnsOf("incident")["status"]
          = Sortable("incidentState",
                     Choice({"open", "deleted", "resolved"}, <<"open", "deleted", "resolved">>))
    BY Zenon DEF ColumnsOf, IncidentColumns, OtherIncidentColumns, ++
  <2>1. IsColumn(ColumnsOf("incident")["status"],
                 Choice({"open", "deleted", "resolved"}, <<"open", "deleted", "resolved">>),
                 "incidentState", {}, {})
    BY <2>0, Zenon DEF IsColumn, Sortable, Choice, Column
  <2>2. /\ NamesApart("incident", "status", {"open", "deleted", "resolved"})
        /\ SortsBack("incident", "incidentState", "status")
    BY DEF NamesApart, SortsBack, EngineSorts, SortsOnItsOwnName
  <2>3. /\ ToSet(<<"open", "deleted", "resolved">>) = {"open", "deleted", "resolved"}
        /\ Head(<<"open", "deleted", "resolved">>) = "open"
    BY Offered
  <2>4. <<"open", "deleted", "resolved">> # <<>>
    BY Offered
  <2>5. Flagged("incident", FALSE, {"open", "deleted", "resolved"},
                <<"open", "deleted", "resolved">>)
    BY <1>g, <2>3 DEF Flagged
  <2> QED BY <2>1, <2>2, <2>4, <2>5, NoneExcluded, ChoiceFits
<1> QED BY <1>0, <1>1, <1>2, <1>3, <1>4, <1>5, <1>6, <1>7, <1>8, <1>9, <1>10, <1>11, <1>12, <1>13,
             <1>14

\* Every column of the list of jobs fits.
LEMMA JobTable ==
  \A c \in DOMAIN ColumnsOf("job") : FitsTable("job", c)
<1>0. DOMAIN ColumnsOf("job") =
        {"id", "jobDefinitionId", "processDefinitionKey", "exceptionMessage", "failedActivityId",
         "processDefinitionId", "retries", "suspended", "dueDate", "createTime", "priority"}
  BY DEF ColumnsOf, JobColumns, OtherJobColumns, ++
<1>f. EngineFields("job", FALSE) = JobFields
  BY DEF EngineFields
<1>g. EngineFlags("job", FALSE)
        = {"withRetriesLeft", "noRetriesLeft", "active", "suspended", "executable", "withException"}
  BY DEF EngineFlags
<1>1. FitsTable("job", "id")
  <2>0. ColumnsOf("job")["id"]
          = Sortable("jobId", ByFilters({"jobDefinitionId"}, Several("textArray", "jobIds")))
    BY Zenon DEF ColumnsOf, JobColumns, OtherJobColumns, ++
  <2>1. IsColumn(ColumnsOf("job")["id"], Several("textArray", "jobIds"), "jobId",
                 {"jobDefinitionId"}, {})
    BY <2>0, Zenon DEF IsColumn, Sortable, ByFilters, Several, Column
  <2>2. NamesApart("job", "id", {}) /\ SortsBack("job", "jobId", "id")
    BY DEF NamesApart, SortsBack, EngineSorts, SortsOnItsOwnName
  <2>3. "jobIds" \in DOMAIN JobFields /\ JobFields["jobIds"] = <<"id", "multi", Blank>>
    BY Zenon DEF JobFields, Equals, Reads, Like, Listed, Period, ++
  <2>4. Reading("job", FALSE, "jobIds", <<"id", "multi", Blank>>)
    BY <1>f, <1>g, <2>3 DEF Reading
  <2>5. FormSent("job", "textArray", "multi") = Blank
    BY DEF FormSent
  <2>6. ColumnsOf("job")["jobDefinitionId"].disabledBy = {"id"}
    BY DEF ColumnsOf, JobColumns, OtherJobColumns, ++, Sortable, ByFilters, ByToggle, Bare, Text,
         Exact, ExactAs, LikeOrExact, Several, Choice, DateColumn, DateArray, Column
  <2>7. Mutual("job", "id", {"jobDefinitionId"}, {})
    BY <2>6 DEF Mutual
  <2> QED BY <2>1, <2>2, <2>4, <2>5, <2>7, SeveralFits
<1>2. FitsTable("job", "jobDefinitionId")
  <2>0. ColumnsOf("job")["jobDefinitionId"] = ByFilters({"id"}, Exact)
    BY Zenon DEF ColumnsOf, JobColumns, OtherJobColumns, ++
  <2>1. IsColumn(ColumnsOf("job")["jobDefinitionId"], Exact, Absent, {"id"}, {})
    BY <2>0, Zenon DEF IsColumn, ByFilters, Exact, Text, Column
  <2>2. NamesApart("job", "jobDefinitionId", {}) /\ SortsBack("job", Absent, "jobDefinitionId")
    BY Zenon DEF NamesApart, SortsBack
  <2>3. /\ "jobDefinitionId" \in DOMAIN JobFields
        /\ JobFields["jobDefinitionId"] = <<"jobDefinitionId", "equals", Blank>>
    BY Zenon DEF JobFields, Equals, Reads, Like, Listed, Period, ++
  <2>4. Reading("job", FALSE, "jobDefinitionId", <<"jobDefinitionId", "equals", Blank>>)
    BY <1>f, <1>g, <2>3 DEF Reading
  <2>5. Exact.options = {}
    BY DEF Exact, Text, Column
  <2>6. ColumnsOf("job")["id"].disabledBy = {"jobDefinitionId"}
    BY DEF ColumnsOf, JobColumns, OtherJobColumns, ++, Sortable, ByFilters, ByToggle, Bare, Text,
         Exact, ExactAs, LikeOrExact, Several, Choice, DateColumn, DateArray, Column
  <2>7. Mutual("job", "jobDefinitionId", {"id"}, {})
    BY <2>6 DEF Mutual
  <2> QED BY <2>1, <2>2, <2>4, <2>5, <2>7, ExactFits
<1>3. FitsTable("job", "processDefinitionKey")
  <2>0. ColumnsOf("job")["processDefinitionKey"] = Sortable("processDefinitionKey", Exact)
    BY Zenon DEF ColumnsOf, JobColumns, OtherJobColumns, ++
  <2>1. IsColumn(ColumnsOf("job")["processDefinitionKey"], Exact, "processDefinitionKey", {}, {})
    BY <2>0, Zenon DEF IsColumn, Sortable, Exact, Text, Column
  <2>2. /\ NamesApart("job", "processDefinitionKey", {})
        /\ SortsBack("job", "processDefinitionKey", "processDefinitionKey")
    BY DEF NamesApart, SortsBack, EngineSorts, SortsOnItsOwnName
  <2>3. /\ "processDefinitionKey" \in DOMAIN JobFields
        /\ JobFields["processDefinitionKey"] = <<"processDefinitionKey", "equals", Blank>>
    BY Zenon DEF JobFields, Equals, Reads, Like, Listed, Period, ++
  <2>4. Reading("job", FALSE, "processDefinitionKey", <<"processDefinitionKey", "equals", Blank>>)
    BY <1>f, <1>g, <2>3 DEF Reading
  <2>5. Exact.options = {}
    BY DEF Exact, Text, Column
  <2> QED BY <2>1, <2>2, <2>4, <2>5, NoneExcluded, ExactFits
<1>4. FitsTable("job", "exceptionMessage")
  <2>0. ColumnsOf("job")["exceptionMessage"] = Exact
    BY Zenon DEF ColumnsOf, JobColumns, OtherJobColumns, ++
  <2>1. IsColumn(ColumnsOf("job")["exceptionMessage"], Exact, Absent, {}, {})
    BY <2>0, Zenon DEF IsColumn, Exact, Text, Column
  <2>2. NamesApart("job", "exceptionMessage", {}) /\ SortsBack("job", Absent, "exceptionMessage")
    BY Zenon DEF NamesApart, SortsBack
  <2>3. /\ "exceptionMessage" \in DOMAIN JobFields
        /\ JobFields["exceptionMessage"] = <<"exceptionMessage", "equals", Blank>>
    BY Zenon DEF JobFields, Equals, Reads, Like, Listed, Period, ++
  <2>4. Reading("job", FALSE, "exceptionMessage", <<"exceptionMessage", "equals", Blank>>)
    BY <1>f, <1>g, <2>3 DEF Reading
  <2>5. Exact.options = {}
    BY DEF Exact, Text, Column
  <2> QED BY <2>1, <2>2, <2>4, <2>5, NoneExcluded, ExactFits
<1>5. FitsTable("job", "failedActivityId")
  <2>0. ColumnsOf("job")["failedActivityId"] = Exact
    BY Zenon DEF ColumnsOf, JobColumns, OtherJobColumns, ++
  <2>1. IsColumn(ColumnsOf("job")["failedActivityId"], Exact, Absent, {}, {})
    BY <2>0, Zenon DEF IsColumn, Exact, Text, Column
  <2>2. NamesApart("job", "failedActivityId", {}) /\ SortsBack("job", Absent, "failedActivityId")
    BY Zenon DEF NamesApart, SortsBack
  <2>3. /\ "failedActivityId" \in DOMAIN JobFields
        /\ JobFields["failedActivityId"] = <<"failedActivityId", "equals", Blank>>
    BY Zenon DEF JobFields, Equals, Reads, Like, Listed, Period, ++
  <2>4. Reading("job", FALSE, "failedActivityId", <<"failedActivityId", "equals", Blank>>)
    BY <1>f, <1>g, <2>3 DEF Reading
  <2>5. Exact.options = {}
    BY DEF Exact, Text, Column
  <2> QED BY <2>1, <2>2, <2>4, <2>5, NoneExcluded, ExactFits
<1>6. FitsTable("job", "processDefinitionId")
  <2>0. ColumnsOf("job")["processDefinitionId"] = Sortable("processDefinitionId", Exact)
    BY Zenon DEF ColumnsOf, JobColumns, OtherJobColumns, ++
  <2>1. IsColumn(ColumnsOf("job")["processDefinitionId"], Exact, "processDefinitionId", {}, {})
    BY <2>0, Zenon DEF IsColumn, Sortable, Exact, Text, Column
  <2>2. /\ NamesApart("job", "processDefinitionId", {})
        /\ SortsBack("job", "processDefinitionId", "processDefinitionId")
    BY DEF NamesApart, SortsBack, EngineSorts, SortsOnItsOwnName
  <2>3. /\ "processDefinitionId" \in DOMAIN JobFields
        /\ JobFields["processDefinitionId"] = <<"processDefinitionId", "equals", Blank>>
    BY Zenon DEF JobFields, Equals, Reads, Like, Listed, Period, ++
  <2>4. Reading("job", FALSE, "processDefinitionId", <<"processDefinitionId", "equals", Blank>>)
    BY <1>f, <1>g, <2>3 DEF Reading
  <2>5. Exact.options = {}
    BY DEF Exact, Text, Column
  <2> QED BY <2>1, <2>2, <2>4, <2>5, NoneExcluded, ExactFits
<1>7. FitsTable("job", "retries")
  <2>0. ColumnsOf("job")["retries"]
          = Sortable("jobRetries",
                     ByToggle("withRetriesLeft",
                              Choice({"withRetriesLeft", "noRetriesLeft"},
                                     <<"withRetriesLeft", "noRetriesLeft">>)))
    BY Zenon DEF ColumnsOf, JobColumns, OtherJobColumns, ++
  <2>1. IsColumn(ColumnsOf("job")["retries"],
                 Choice({"withRetriesLeft", "noRetriesLeft"},
                        <<"withRetriesLeft", "noRetriesLeft">>), "jobRetries", {},
                        {"withRetriesLeft"})
    BY <2>0, Zenon DEF IsColumn, Sortable, ByToggle, Choice, Column
  <2>2. /\ NamesApart("job", "retries", {"withRetriesLeft", "noRetriesLeft"})
        /\ SortsBack("job", "jobRetries", "retries")
    BY DEF NamesApart, SortsBack, EngineSorts, SortsOnItsOwnName
  <2>3. /\ ToSet(<<"withRetriesLeft", "noRetriesLeft">>) = {"withRetriesLeft", "noRetriesLeft"}
        /\ Head(<<"withRetriesLeft", "noRetriesLeft">>) = "withRetriesLeft"
    BY Offered
  <2>4. <<"withRetriesLeft", "noRetriesLeft">> # <<>>
    BY Offered
  <2>5. Flagged("job", FALSE, {"withRetriesLeft", "noRetriesLeft"},
                <<"withRetriesLeft", "noRetriesLeft">>)
    BY <1>g, <2>3 DEF Flagged
  <2>6. Mutual("job", "retries", {}, {"withRetriesLeft"})
    BY DEF Mutual, TogglesOf
  <2> QED BY <2>1, <2>2, <2>4, <2>5, <2>6, ChoiceFits
<1>8. FitsTable("job", "suspended")
  <2>0. ColumnsOf("job")["suspended"] = Choice({"active", "suspended"}, <<"active", "suspended">>)
    BY Zenon DEF ColumnsOf, JobColumns, OtherJobColumns, ++
  <2>1. IsColumn(ColumnsOf("job")["suspended"],
                 Choice({"active", "suspended"}, <<"active", "suspended">>), Absent, {}, {})
    BY <2>0, Zenon DEF IsColumn, Choice, Column
  <2>2. /\ NamesApart("job", "suspended", {"active", "suspended"})
        /\ SortsBack("job", Absent, "suspended")
    BY DEF NamesApart, SortsBack
  <2>3. /\ ToSet(<<"active", "suspended">>) = {"active", "suspended"}
        /\ Head(<<"active", "suspended">>) = "active"
    BY Offered
  <2>4. <<"active", "suspended">> # <<>>
    BY Offered
  <2>5. Flagged("job", FALSE, {"active", "suspended"}, <<"active", "suspended">>)
    BY <1>g, <2>3 DEF Flagged
  <2> QED BY <2>1, <2>2, <2>4, <2>5, NoneExcluded, ChoiceFits
<1>9. FitsTable("job", "dueDate")
  <2>0. ColumnsOf("job")["dueDate"] = Sortable("jobDueDate", DateArray("dueDates"))
    BY Zenon DEF ColumnsOf, JobColumns, OtherJobColumns, ++
  <2>1. IsColumn(ColumnsOf("job")["dueDate"], DateArray("dueDates"), "jobDueDate", {}, {})
    BY <2>0, Zenon DEF IsColumn, Sortable, DateArray, DateColumn, Column
  <2>2. NamesApart("job", "dueDate", {}) /\ SortsBack("job", "jobDueDate", "dueDate")
    BY DEF NamesApart, SortsBack, EngineSorts, SortsOnItsOwnName
  <2>3. "dueDates" \notin EngineFlags("job", FALSE) \union {"text"}
    BY <1>g
  <2> QED BY <2>1, <2>2, <2>3, DateArrayFits
<1>10. FitsTable("job", "createTime")
  <2>0. ColumnsOf("job")["createTime"] = DateArray("createTimes")
    BY Zenon DEF ColumnsOf, JobColumns, OtherJobColumns, ++
  <2>1. IsColumn(ColumnsOf("job")["createTime"], DateArray("createTimes"), Absent, {}, {})
    BY <2>0, Zenon DEF IsColumn, DateArray, DateColumn, Column
  <2>2. NamesApart("job", "createTime", {}) /\ SortsBack("job", Absent, "createTime")
    BY Zenon DEF NamesApart, SortsBack
  <2>3. "createTimes" \notin EngineFlags("job", FALSE) \union {"text"}
    BY <1>g
  <2> QED BY <2>1, <2>2, <2>3, DateArrayFits
<1>11. FitsTable("job", "priority")
  <2>0. ColumnsOf("job")["priority"]
          = Sortable("jobPriority",
                     Text(<<"lessThanOrEqual", "greaterThanOrEqual">>,
                          [lessThan |-> "priorityLowerThanOrEquals",
                           greaterThan |-> "priorityHigherThanOrEquals"]))
    BY Zenon DEF ColumnsOf, JobColumns, OtherJobColumns, ++
  <2>1. IsColumn(ColumnsOf("job")["priority"],
                 Text(<<"lessThanOrEqual", "greaterThanOrEqual">>,
                      [lessThan |-> "priorityLowerThanOrEquals",
                       greaterThan |-> "priorityHigherThanOrEquals"]), "jobPriority", {}, {})
    BY <2>0, Zenon DEF IsColumn, Sortable, Text, Column
  <2>2. NamesApart("job", "priority", {}) /\ SortsBack("job", "jobPriority", "priority")
    BY DEF NamesApart, SortsBack, EngineSorts, SortsOnItsOwnName
  <2>3. {"lessThanOrEqual", "greaterThanOrEqual"}
          \intersect DOMAIN [lessThan |-> "priorityLowerThanOrEquals",
                             greaterThan |-> "priorityHigherThanOrEquals"] = {}
    OBVIOUS
  <2>4. "priority" \notin DOMAIN JobFields
    BY Zenon DEF JobFields, Equals, Reads, Like, Listed, Period, ++
  <2>5. "priority" \notin EngineFlags("job", FALSE) \union DOMAIN EngineFields("job", FALSE)
    BY <1>f, <1>g, <2>4
  <2> QED BY <2>1, <2>2, <2>3, <2>5, UnreadFits
<1> QED BY <1>0, <1>1, <1>2, <1>3, <1>4, <1>5, <1>6, <1>7, <1>8, <1>9, <1>10, <1>11

\* Every column of the list of process instances fits.
LEMMA InstanceTable ==
  \A c \in DOMAIN ColumnsOf("processInstance") : FitsTable("processInstance", c)
<1>0. DOMAIN ColumnsOf("processInstance") =
        {"id", "processDefinitionName", "processDefinitionVersion", "state", "startUserId",
         "startTime", "endTime", "businessKey", "processDefinitionKey", "processDefinitionId",
         "superProcessInstanceId", "duration"}
  BY DEF ColumnsOf, InstanceColumns, OtherInstanceColumns, ++
<1>f. EngineFields("processInstance", FALSE) = InstanceFields
  BY DEF EngineFields
<1>g. EngineFlags("processInstance", FALSE) = InstanceStates \union {"withIncidents"}
  BY DEF EngineFlags
<1>1. FitsTable("processInstance", "id")
  <2>0. ColumnsOf("processInstance")["id"]
          = Sortable("instanceId", Several("textArray", "processInstanceIds"))
    BY Zenon DEF ColumnsOf, InstanceColumns, OtherInstanceColumns, ++
  <2>1. IsColumn(ColumnsOf("processInstance")["id"], Several("textArray", "processInstanceIds"),
                 "instanceId", {}, {})
    BY <2>0, Zenon DEF IsColumn, Sortable, Several, Column
  <2>2. NamesApart("processInstance", "id", {}) /\ SortsBack("processInstance", "instanceId", "id")
    BY DEF NamesApart, SortsBack, EngineSorts, SortsOnItsOwnName
  <2>3. /\ "processInstanceIds" \in DOMAIN InstanceFields
        /\ InstanceFields["processInstanceIds"] = <<"id", "multi", "array">>
    BY Zenon DEF InstanceFields, Equals, Reads, Like, Listed, Period, ++
  <2>4. Reading("processInstance", FALSE, "processInstanceIds", <<"id", "multi", "array">>)
    BY <1>f, <1>g, <2>3 DEF Reading, InstanceStates
  <2>5. FormSent("processInstance", "textArray", "multi") = "array"
    BY DEF FormSent
  <2> QED BY <2>1, <2>2, <2>4, <2>5, NoneExcluded, SeveralFits
<1>2. FitsTable("processInstance", "processDefinitionName")
  <2>0. ColumnsOf("processInstance")["processDefinitionName"]
          = LikeOrExact("processDefinitionNameLike", "processDefinitionName")
    BY Zenon DEF ColumnsOf, InstanceColumns, OtherInstanceColumns, ++
  <2>1. IsColumn(ColumnsOf("processInstance")["processDefinitionName"],
                 LikeOrExact("processDefinitionNameLike", "processDefinitionName"), Absent, {}, {})
    BY <2>0, Zenon DEF IsColumn, LikeOrExact, Text, Column
  <2>2. /\ NamesApart("processInstance", "processDefinitionName", {})
        /\ SortsBack("processInstance", Absent, "processDefinitionName")
    BY Zenon DEF NamesApart, SortsBack
  <2>3. /\ "processDefinitionNameLike" \in DOMAIN InstanceFields
        /\ InstanceFields["processDefinitionNameLike"]
             = <<"processDefinitionName", "contains", "%">>
    BY Zenon DEF InstanceFields, Equals, Reads, Like, Listed, Period, ++
  <2>4. /\ "processDefinitionName" \in DOMAIN InstanceFields
        /\ InstanceFields["processDefinitionName"] = <<"processDefinitionName", "equals", Blank>>
    BY Zenon DEF InstanceFields, Equals, Reads, Like, Listed, Period, ++
  <2>5. Reading("processInstance", FALSE, "processDefinitionNameLike",
                <<"processDefinitionName", "contains", "%">>)
    BY <1>f, <1>g, <2>3 DEF Reading, InstanceStates
  <2>6. Reading("processInstance", FALSE, "processDefinitionName",
                <<"processDefinitionName", "equals", Blank>>)
    BY <1>f, <1>g, <2>4 DEF Reading, InstanceStates
  <2> QED BY <2>1, <2>2, <2>5, <2>6, LikeOrExactFits
<1>3. FitsTable("processInstance", "processDefinitionVersion")
  <2>0. ColumnsOf("processInstance")["processDefinitionVersion"]
          = Sortable("definitionVersion", Bare)
    BY Zenon DEF ColumnsOf, InstanceColumns, OtherInstanceColumns, ++
  <2>1. IsColumn(ColumnsOf("processInstance")["processDefinitionVersion"], Bare,
                 "definitionVersion", {}, {})
    BY <2>0, Zenon DEF IsColumn, Sortable, Bare, Column
  <2>2. /\ NamesApart("processInstance", "processDefinitionVersion", {})
        /\ SortsBack("processInstance", "definitionVersion", "processDefinitionVersion")
    BY DEF NamesApart, SortsBack, EngineSorts, SortsOnItsOwnName
  <2> QED BY <2>1, <2>2, BareFits
<1>4. FitsTable("processInstance", "state")
  <2>0. ColumnsOf("processInstance")["state"] = Choice(InstanceStates, SetToSeq(InstanceStates))
    BY Zenon DEF ColumnsOf, InstanceColumns, OtherInstanceColumns, ++
  <2>1. IsColumn(ColumnsOf("processInstance")["state"],
                 Choice(InstanceStates, SetToSeq(InstanceStates)), Absent, {}, {})
    BY <2>0, Zenon DEF IsColumn, Choice, Column
  <2>2. /\ NamesApart("processInstance", "state", InstanceStates)
        /\ SortsBack("processInstance", Absent, "state")
    BY DEF NamesApart, SortsBack, InstanceStates
  <2>3. IsFiniteSet(InstanceStates) /\ InstanceStates # {}
    BY StatesFinite
  <2>4. ToSet(SetToSeq(InstanceStates)) = InstanceStates /\ SetToSeq(InstanceStates) # <<>>
    BY <2>3, SetInOrder
  <2>5. Flagged("processInstance", FALSE, InstanceStates, SetToSeq(InstanceStates))
    BY <1>g, <2>4 DEF Flagged
  <2> QED BY <2>1, <2>2, <2>4, <2>5, NoneExcluded, ChoiceFits
<1>5. FitsTable("processInstance", "startUserId")
  <2>0. ColumnsOf("processInstance")["startUserId"] = ExactAs("startedBy")
    BY Zenon DEF ColumnsOf, InstanceColumns, OtherInstanceColumns, ++
  <2>1. IsColumn(ColumnsOf("processInstance")["startUserId"], ExactAs("startedBy"), Absent, {}, {})
    BY <2>0, Zenon DEF IsColumn, ExactAs, Text, Column
  <2>2. /\ NamesApart("processInstance", "startUserId", {})
        /\ SortsBack("processInstance", Absent, "startUserId")
    BY Zenon DEF NamesApart, SortsBack
  <2>3. /\ "startedBy" \in DOMAIN InstanceFields
        /\ InstanceFields["startedBy"] = <<"startUserId", "equals", Blank>>
    BY Zenon DEF InstanceFields, Equals, Reads, Like, Listed, Period, ++
  <2>4. Reading("processInstance", FALSE, "startedBy", <<"startUserId", "equals", Blank>>)
    BY <1>f, <1>g, <2>3 DEF Reading, InstanceStates
  <2> QED BY <2>1, <2>2, <2>4, NoneExcluded, ExactAsFits
<1>6. FitsTable("processInstance", "startTime")
  <2>0. ColumnsOf("processInstance")["startTime"]
          = Sortable("startTime", DateColumn("startedBefore", "startedAfter"))
    BY Zenon DEF ColumnsOf, InstanceColumns, OtherInstanceColumns, ++
  <2>1. IsColumn(ColumnsOf("processInstance")["startTime"],
                 DateColumn("startedBefore", "startedAfter"), "startTime", {}, {})
    BY <2>0, Zenon DEF IsColumn, Sortable, DateColumn, Column
  <2>2. /\ NamesApart("processInstance", "startTime", {})
        /\ SortsBack("processInstance", "startTime", "startTime")
    BY DEF NamesApart, SortsBack, EngineSorts, SortsOnItsOwnName
  <2>3. /\ "startedBefore" \in DOMAIN InstanceFields
        /\ InstanceFields["startedBefore"] = <<"startTime", "before", Blank>>
    BY Zenon DEF InstanceFields, Equals, Reads, Like, Listed, Period, ++
  <2>4. /\ "startedAfter" \in DOMAIN InstanceFields
        /\ InstanceFields["startedAfter"] = <<"startTime", "after", Blank>>
    BY Zenon DEF InstanceFields, Equals, Reads, Like, Listed, Period, ++
  <2>5. Reading("processInstance", FALSE, "startedBefore", <<"startTime", "before", Blank>>)
    BY <1>f, <1>g, <2>3 DEF Reading, InstanceStates
  <2>6. Reading("processInstance", FALSE, "startedAfter", <<"startTime", "after", Blank>>)
    BY <1>f, <1>g, <2>4 DEF Reading, InstanceStates
  <2> QED BY <2>1, <2>2, <2>5, <2>6, DateFits
<1>7. FitsTable("processInstance", "endTime")
  <2>0. ColumnsOf("processInstance")["endTime"]
          = Sortable("endTime", DateColumn("finishedBefore", "finishedAfter"))
    BY Zenon DEF ColumnsOf, InstanceColumns, OtherInstanceColumns, ++
  <2>1. IsColumn(ColumnsOf("processInstance")["endTime"],
                 DateColumn("finishedBefore", "finishedAfter"), "endTime", {}, {})
    BY <2>0, Zenon DEF IsColumn, Sortable, DateColumn, Column
  <2>2. /\ NamesApart("processInstance", "endTime", {})
        /\ SortsBack("processInstance", "endTime", "endTime")
    BY DEF NamesApart, SortsBack, EngineSorts, SortsOnItsOwnName
  <2>3. /\ "finishedBefore" \in DOMAIN InstanceFields
        /\ InstanceFields["finishedBefore"] = <<"endTime", "before", Blank>>
    BY Zenon DEF InstanceFields, Equals, Reads, Like, Listed, Period, ++
  <2>4. /\ "finishedAfter" \in DOMAIN InstanceFields
        /\ InstanceFields["finishedAfter"] = <<"endTime", "after", Blank>>
    BY Zenon DEF InstanceFields, Equals, Reads, Like, Listed, Period, ++
  <2>5. Reading("processInstance", FALSE, "finishedBefore", <<"endTime", "before", Blank>>)
    BY <1>f, <1>g, <2>3 DEF Reading, InstanceStates
  <2>6. Reading("processInstance", FALSE, "finishedAfter", <<"endTime", "after", Blank>>)
    BY <1>f, <1>g, <2>4 DEF Reading, InstanceStates
  <2> QED BY <2>1, <2>2, <2>5, <2>6, DateFits
<1>8. FitsTable("processInstance", "businessKey")
  <2>0. ColumnsOf("processInstance")["businessKey"]
          = Sortable("businessKey",
                     LikeOrExact("processInstanceBusinessKeyLike", "processInstanceBusinessKey"))
    BY Zenon DEF ColumnsOf, InstanceColumns, OtherInstanceColumns, ++
  <2>1. IsColumn(ColumnsOf("processInstance")["businessKey"],
                 LikeOrExact("processInstanceBusinessKeyLike", "processInstanceBusinessKey"),
                 "businessKey", {}, {})
    BY <2>0, Zenon DEF IsColumn, Sortable, LikeOrExact, Text, Column
  <2>2. /\ NamesApart("processInstance", "businessKey", {})
        /\ SortsBack("processInstance", "businessKey", "businessKey")
    BY DEF NamesApart, SortsBack, EngineSorts, SortsOnItsOwnName
  <2>3. /\ "processInstanceBusinessKeyLike" \in DOMAIN InstanceFields
        /\ InstanceFields["processInstanceBusinessKeyLike"] = <<"businessKey", "contains", "%">>
    BY Zenon DEF InstanceFields, Equals, Reads, Like, Listed, Period, ++
  <2>4. /\ "processInstanceBusinessKey" \in DOMAIN InstanceFields
        /\ InstanceFields["processInstanceBusinessKey"] = <<"businessKey", "equals", Blank>>
    BY Zenon DEF InstanceFields, Equals, Reads, Like, Listed, Period, ++
  <2>5. Reading("processInstance", FALSE, "processInstanceBusinessKeyLike",
                <<"businessKey", "contains", "%">>)
    BY <1>f, <1>g, <2>3 DEF Reading, InstanceStates
  <2>6. Reading("processInstance", FALSE, "processInstanceBusinessKey",
                <<"businessKey", "equals", Blank>>)
    BY <1>f, <1>g, <2>4 DEF Reading, InstanceStates
  <2> QED BY <2>1, <2>2, <2>5, <2>6, LikeOrExactFits
<1>9. FitsTable("processInstance", "processDefinitionKey")
  <2>0. ColumnsOf("processInstance")["processDefinitionKey"]
          = Sortable("definitionKey", Several("textArray", "processDefinitionKeyIn"))
    BY Zenon DEF ColumnsOf, InstanceColumns, OtherInstanceColumns, ++
  <2>1. IsColumn(ColumnsOf("processInstance")["processDefinitionKey"],
                 Several("textArray", "processDefinitionKeyIn"), "definitionKey", {}, {})
    BY <2>0, Zenon DEF IsColumn, Sortable, Several, Column
  <2>2. /\ NamesApart("processInstance", "processDefinitionKey", {})
        /\ SortsBack("processInstance", "definitionKey", "processDefinitionKey")
    BY DEF NamesApart, SortsBack, EngineSorts, SortsOnItsOwnName
  <2>3. /\ "processDefinitionKeyIn" \in DOMAIN InstanceFields
        /\ InstanceFields["processDefinitionKeyIn"] = <<"processDefinitionKey", "multi", "array">>
    BY Zenon DEF InstanceFields, Equals, Reads, Like, Listed, Period, ++
  <2>4. Reading("processInstance", FALSE, "processDefinitionKeyIn",
                <<"processDefinitionKey", "multi", "array">>)
    BY <1>f, <1>g, <2>3 DEF Reading, InstanceStates
  <2>5. FormSent("processInstance", "textArray", "multi") = "array"
    BY DEF FormSent
  <2> QED BY <2>1, <2>2, <2>4, <2>5, NoneExcluded, SeveralFits
<1>10. FitsTable("processInstance", "processDefinitionId")
  <2>0. ColumnsOf("processInstance")["processDefinitionId"] = Sortable("definitionId", Exact)
    BY Zenon DEF ColumnsOf, InstanceColumns, OtherInstanceColumns, ++
  <2>1. IsColumn(ColumnsOf("processInstance")["processDefinitionId"], Exact, "definitionId", {}, {})
    BY <2>0, Zenon DEF IsColumn, Sortable, Exact, Text, Column
  <2>2. /\ NamesApart("processInstance", "processDefinitionId", {})
        /\ SortsBack("processInstance", "definitionId", "processDefinitionId")
    BY DEF NamesApart, SortsBack, EngineSorts, SortsOnItsOwnName
  <2>3. /\ "processDefinitionId" \in DOMAIN InstanceFields
        /\ InstanceFields["processDefinitionId"] = <<"processDefinitionId", "equals", Blank>>
    BY Zenon DEF InstanceFields, Equals, Reads, Like, Listed, Period, ++
  <2>4. Reading("processInstance", FALSE, "processDefinitionId",
                <<"processDefinitionId", "equals", Blank>>)
    BY <1>f, <1>g, <2>3 DEF Reading, InstanceStates
  <2>5. Exact.options = {}
    BY DEF Exact, Text, Column
  <2> QED BY <2>1, <2>2, <2>4, <2>5, NoneExcluded, ExactFits
<1>11. FitsTable("processInstance", "superProcessInstanceId")
  <2>0. ColumnsOf("processInstance")["superProcessInstanceId"] = Exact
    BY Zenon DEF ColumnsOf, InstanceColumns, OtherInstanceColumns, ++
  <2>1. IsColumn(ColumnsOf("processInstance")["superProcessInstanceId"], Exact, Absent, {}, {})
    BY <2>0, Zenon DEF IsColumn, Exact, Text, Column
  <2>2. /\ NamesApart("processInstance", "superProcessInstanceId", {})
        /\ SortsBack("processInstance", Absent, "superProcessInstanceId")
    BY Zenon DEF NamesApart, SortsBack
  <2>3. /\ "superProcessInstanceId" \in DOMAIN InstanceFields
        /\ InstanceFields["superProcessInstanceId"] = <<"superProcessInstanceId", "equals", Blank>>
    BY Zenon DEF InstanceFields, Equals, Reads, Like, Listed, Period, ++
  <2>4. Reading("processInstance", FALSE, "superProcessInstanceId",
                <<"superProcessInstanceId", "equals", Blank>>)
    BY <1>f, <1>g, <2>3 DEF Reading, InstanceStates
  <2>5. Exact.options = {}
    BY DEF Exact, Text, Column
  <2> QED BY <2>1, <2>2, <2>4, <2>5, NoneExcluded, ExactFits
<1>12. FitsTable("processInstance", "duration")
  <2>0. ColumnsOf("processInstance")["duration"] = Sortable("duration", Bare)
    BY Zenon DEF ColumnsOf, InstanceColumns, OtherInstanceColumns, ++
  <2>1. IsColumn(ColumnsOf("processInstance")["duration"], Bare, "duration", {}, {})
    BY <2>0, Zenon DEF IsColumn, Sortable, Bare, Column
  <2>2. /\ NamesApart("processInstance", "duration", {})
        /\ SortsBack("processInstance", "duration", "duration")
    BY DEF NamesApart, SortsBack, EngineSorts, SortsOnItsOwnName
  <2> QED BY <2>1, <2>2, BareFits
<1> QED BY <1>0, <1>1, <1>2, <1>3, <1>4, <1>5, <1>6, <1>7, <1>8, <1>9, <1>10, <1>11, <1>12

\* Every column of the list of process definitions fits.
LEMMA DefinitionTable ==
  \A c \in DOMAIN ColumnsOf("processDefinition") : FitsTable("processDefinition", c)
<1>0. DOMAIN ColumnsOf("processDefinition") =
        {"id", "name", "version", "deploymentId", "versionTag", "key", "suspended"}
  BY DEF ColumnsOf, DefinitionColumns
<1>f. EngineFields("processDefinition", FALSE) = DefinitionFields
  BY DEF EngineFields
<1>g. EngineFlags("processDefinition", FALSE) = {"active", "suspended", "latestVersion"}
  BY DEF EngineFlags
<1>1. FitsTable("processDefinition", "id")
  <2>0. ColumnsOf("processDefinition")["id"]
          = Sortable("id", Several("textArray", "processDefinitionIdIn"))
    BY Zenon DEF ColumnsOf, DefinitionColumns
  <2>1. IsColumn(ColumnsOf("processDefinition")["id"],
                 Several("textArray", "processDefinitionIdIn"), "id", {}, {})
    BY <2>0, Zenon DEF IsColumn, Sortable, Several, Column
  <2>2. NamesApart("processDefinition", "id", {}) /\ SortsBack("processDefinition", "id", "id")
    BY DEF NamesApart, SortsBack, EngineSorts, SortsOnItsOwnName
  <2>3. /\ "processDefinitionIdIn" \in DOMAIN DefinitionFields
        /\ DefinitionFields["processDefinitionIdIn"] = <<"id", "multi", Blank>>
    BY Zenon DEF DefinitionFields, Equals, Reads, Like, Listed, Period, ++
  <2>4. Reading("processDefinition", FALSE, "processDefinitionIdIn", <<"id", "multi", Blank>>)
    BY <1>f, <1>g, <2>3 DEF Reading
  <2>5. FormSent("processDefinition", "textArray", "multi") = Blank
    BY DEF FormSent
  <2> QED BY <2>1, <2>2, <2>4, <2>5, NoneExcluded, SeveralFits
<1>2. FitsTable("processDefinition", "name")
  <2>0. ColumnsOf("processDefinition")["name"] = Sortable("name", LikeOrExact("nameLike", "name"))
    BY Zenon DEF ColumnsOf, DefinitionColumns
  <2>1. IsColumn(ColumnsOf("processDefinition")["name"], LikeOrExact("nameLike", "name"), "name",
                 {}, {})
    BY <2>0, Zenon DEF IsColumn, Sortable, LikeOrExact, Text, Column
  <2>2. /\ NamesApart("processDefinition", "name", {})
        /\ SortsBack("processDefinition", "name", "name")
    BY DEF NamesApart, SortsBack, EngineSorts, SortsOnItsOwnName
  <2>3. /\ "nameLike" \in DOMAIN DefinitionFields
        /\ DefinitionFields["nameLike"] = <<"name", "contains", "%">>
    BY Zenon DEF DefinitionFields, Equals, Reads, Like, Listed, Period, ++
  <2>4. "name" \in DOMAIN DefinitionFields /\ DefinitionFields["name"] = <<"name", "equals", Blank>>
    BY Zenon DEF DefinitionFields, Equals, Reads, Like, Listed, Period, ++
  <2>5. Reading("processDefinition", FALSE, "nameLike", <<"name", "contains", "%">>)
    BY <1>f, <1>g, <2>3 DEF Reading
  <2>6. Reading("processDefinition", FALSE, "name", <<"name", "equals", Blank>>)
    BY <1>f, <1>g, <2>4 DEF Reading
  <2> QED BY <2>1, <2>2, <2>5, <2>6, LikeOrExactFits
<1>3. FitsTable("processDefinition", "version")
  <2>0. ColumnsOf("processDefinition")["version"]
          = Sortable("version", ByToggle("latestVersion", Exact))
    BY Zenon DEF ColumnsOf, DefinitionColumns
  <2>1. IsColumn(ColumnsOf("processDefinition")["version"], Exact, "version", {}, {"latestVersion"})
    BY <2>0, Zenon DEF IsColumn, Sortable, ByToggle, Exact, Text, Column
  <2>2. /\ NamesApart("processDefinition", "version", {})
        /\ SortsBack("processDefinition", "version", "version")
    BY DEF NamesApart, SortsBack, EngineSorts, SortsOnItsOwnName
  <2>3. /\ "version" \in DOMAIN DefinitionFields
        /\ DefinitionFields["version"] = <<"version", "equals", Blank>>
    BY Zenon DEF DefinitionFields, Equals, Reads, Like, Listed, Period, ++
  <2>4. Reading("processDefinition", FALSE, "version", <<"version", "equals", Blank>>)
    BY <1>f, <1>g, <2>3 DEF Reading
  <2>5. Exact.options = {}
    BY DEF Exact, Text, Column
  <2>6. Mutual("processDefinition", "version", {}, {"latestVersion"})
    BY DEF Mutual, TogglesOf
  <2> QED BY <2>1, <2>2, <2>4, <2>5, <2>6, ExactFits
<1>4. FitsTable("processDefinition", "deploymentId")
  <2>0. ColumnsOf("processDefinition")["deploymentId"]
          = Sortable("deploymentId", ByToggle("latestVersion", Exact))
    BY Zenon DEF ColumnsOf, DefinitionColumns
  <2>1. IsColumn(ColumnsOf("processDefinition")["deploymentId"], Exact, "deploymentId", {},
                 {"latestVersion"})
    BY <2>0, Zenon DEF IsColumn, Sortable, ByToggle, Exact, Text, Column
  <2>2. /\ NamesApart("processDefinition", "deploymentId", {})
        /\ SortsBack("processDefinition", "deploymentId", "deploymentId")
    BY DEF NamesApart, SortsBack, EngineSorts, SortsOnItsOwnName
  <2>3. /\ "deploymentId" \in DOMAIN DefinitionFields
        /\ DefinitionFields["deploymentId"] = <<"deploymentId", "equals", Blank>>
    BY Zenon DEF DefinitionFields, Equals, Reads, Like, Listed, Period, ++
  <2>4. Reading("processDefinition", FALSE, "deploymentId", <<"deploymentId", "equals", Blank>>)
    BY <1>f, <1>g, <2>3 DEF Reading
  <2>5. Exact.options = {}
    BY DEF Exact, Text, Column
  <2>6. Mutual("processDefinition", "deploymentId", {}, {"latestVersion"})
    BY DEF Mutual, TogglesOf
  <2> QED BY <2>1, <2>2, <2>4, <2>5, <2>6, ExactFits
<1>5. FitsTable("processDefinition", "versionTag")
  <2>0. ColumnsOf("processDefinition")["versionTag"]
          = Sortable("versionTag", LikeOrExact("versionTagLike", "versionTag"))
    BY Zenon DEF ColumnsOf, DefinitionColumns
  <2>1. IsColumn(ColumnsOf("processDefinition")["versionTag"],
                 LikeOrExact("versionTagLike", "versionTag"), "versionTag", {}, {})
    BY <2>0, Zenon DEF IsColumn, Sortable, LikeOrExact, Text, Column
  <2>2. /\ NamesApart("processDefinition", "versionTag", {})
        /\ SortsBack("processDefinition", "versionTag", "versionTag")
    BY DEF NamesApart, SortsBack, EngineSorts, SortsOnItsOwnName
  <2>3. /\ "versionTagLike" \in DOMAIN DefinitionFields
        /\ DefinitionFields["versionTagLike"] = <<"versionTag", "contains", "%">>
    BY Zenon DEF DefinitionFields, Equals, Reads, Like, Listed, Period, ++
  <2>4. /\ "versionTag" \in DOMAIN DefinitionFields
        /\ DefinitionFields["versionTag"] = <<"versionTag", "equals", Blank>>
    BY Zenon DEF DefinitionFields, Equals, Reads, Like, Listed, Period, ++
  <2>5. Reading("processDefinition", FALSE, "versionTagLike", <<"versionTag", "contains", "%">>)
    BY <1>f, <1>g, <2>3 DEF Reading
  <2>6. Reading("processDefinition", FALSE, "versionTag", <<"versionTag", "equals", Blank>>)
    BY <1>f, <1>g, <2>4 DEF Reading
  <2> QED BY <2>1, <2>2, <2>5, <2>6, LikeOrExactFits
<1>6. FitsTable("processDefinition", "key")
  <2>0. ColumnsOf("processDefinition")["key"]
          = Sortable("key",
                     [Several("textArray", "keysIn") EXCEPT !.offers = <<"contains", "multi">>,
                      !.keys = [multi |-> "keysIn", contains |-> "keyLike"]])
    BY Zenon DEF ColumnsOf, DefinitionColumns
  <2>1. IsColumn(ColumnsOf("processDefinition")["key"],
                 [Several("textArray", "keysIn") EXCEPT !.offers = <<"contains", "multi">>,
                  !.keys = [multi |-> "keysIn", contains |-> "keyLike"]], "key", {}, {})
    BY <2>0, Zenon DEF IsColumn, Sortable, Several, Column
  <2>2. NamesApart("processDefinition", "key", {}) /\ SortsBack("processDefinition", "key", "key")
    BY DEF NamesApart, SortsBack, EngineSorts, SortsOnItsOwnName
  <2>3. /\ "keyLike" \in DOMAIN DefinitionFields
        /\ DefinitionFields["keyLike"] = <<"key", "contains", "%">>
    BY Zenon DEF DefinitionFields, Equals, Reads, Like, Listed, Period, ++
  <2>4. /\ "keysIn" \in DOMAIN DefinitionFields
        /\ DefinitionFields["keysIn"] = <<"key", "multi", Blank>>
    BY Zenon DEF DefinitionFields, Equals, Reads, Like, Listed, Period, ++
  <2>5. Reading("processDefinition", FALSE, "keyLike", <<"key", "contains", "%">>)
    BY <1>f, <1>g, <2>3 DEF Reading
  <2>6. Reading("processDefinition", FALSE, "keysIn", <<"key", "multi", Blank>>)
    BY <1>f, <1>g, <2>4 DEF Reading
  <2>7. FormSent("processDefinition", "textArray", "multi") = Blank
    BY DEF FormSent
  <2> QED BY <2>1, <2>2, <2>5, <2>6, <2>7, SeveralOrLikeFits
<1>7. FitsTable("processDefinition", "suspended")
  <2>0. ColumnsOf("processDefinition")["suspended"]
          = Choice({"active", "suspended"}, <<"active", "suspended">>)
    BY Zenon DEF ColumnsOf, DefinitionColumns
  <2>1. IsColumn(ColumnsOf("processDefinition")["suspended"],
                 Choice({"active", "suspended"}, <<"active", "suspended">>), Absent, {}, {})
    BY <2>0, Zenon DEF IsColumn, Choice, Column
  <2>2. /\ NamesApart("processDefinition", "suspended", {"active", "suspended"})
        /\ SortsBack("processDefinition", Absent, "suspended")
    BY DEF NamesApart, SortsBack
  <2>3. /\ ToSet(<<"active", "suspended">>) = {"active", "suspended"}
        /\ Head(<<"active", "suspended">>) = "active"
    BY Offered
  <2>4. <<"active", "suspended">> # <<>>
    BY Offered
  <2>5. Flagged("processDefinition", FALSE, {"active", "suspended"}, <<"active", "suspended">>)
    BY <1>g, <2>3 DEF Flagged
  <2> QED BY <2>1, <2>2, <2>4, <2>5, NoneExcluded, ChoiceFits
<1> QED BY <1>0, <1>1, <1>2, <1>3, <1>4, <1>5, <1>6, <1>7

\* Every column of the list of decision definitions fits.
LEMMA DecisionTable ==
  \A c \in DOMAIN ColumnsOf("decisionDefinition") : FitsTable("decisionDefinition", c)
<1>0. DOMAIN ColumnsOf("decisionDefinition") =
        {"id", "name", "version", "key", "deploymentId"}
  BY DEF ColumnsOf, DecisionColumns
<1>f. EngineFields("decisionDefinition", FALSE) = DecisionFields
  BY DEF EngineFields
<1>g. EngineFlags("decisionDefinition", FALSE) = {"latestVersion"}
  BY DEF EngineFlags
<1>1. FitsTable("decisionDefinition", "id")
  <2>0. ColumnsOf("decisionDefinition")["id"] = Sortable("id", Bare)
    BY Zenon DEF ColumnsOf, DecisionColumns
  <2>1. IsColumn(ColumnsOf("decisionDefinition")["id"], Bare, "id", {}, {})
    BY <2>0, Zenon DEF IsColumn, Sortable, Bare, Column
  <2>2. NamesApart("decisionDefinition", "id", {}) /\ SortsBack("decisionDefinition", "id", "id")
    BY DEF NamesApart, SortsBack, EngineSorts, SortsOnItsOwnName
  <2> QED BY <2>1, <2>2, BareFits
<1>2. FitsTable("decisionDefinition", "name")
  <2>0. ColumnsOf("decisionDefinition")["name"]
          = Sortable("name",
                     ByToggle("latestVersion", Text(<<"contains">>, [contains |-> "nameLike"])))
    BY Zenon DEF ColumnsOf, DecisionColumns
  <2>1. IsColumn(ColumnsOf("decisionDefinition")["name"],
                 Text(<<"contains">>, [contains |-> "nameLike"]), "name", {}, {"latestVersion"})
    BY <2>0, Zenon DEF IsColumn, Sortable, ByToggle, Text, Column
  <2>2. /\ NamesApart("decisionDefinition", "name", {})
        /\ SortsBack("decisionDefinition", "name", "name")
    BY DEF NamesApart, SortsBack, EngineSorts, SortsOnItsOwnName
  <2>3. /\ "nameLike" \in DOMAIN DecisionFields
        /\ DecisionFields["nameLike"] = <<"name", "contains", "%">>
    BY Zenon DEF DecisionFields, Equals, Reads, Like, Listed, Period, ++
  <2>4. Reading("decisionDefinition", FALSE, "nameLike", <<"name", "contains", "%">>)
    BY <1>f, <1>g, <2>3 DEF Reading
  <2>5. Mutual("decisionDefinition", "name", {}, {"latestVersion"})
    BY DEF Mutual, TogglesOf
  <2> QED BY <2>1, <2>2, <2>4, <2>5, ContainsFits
<1>3. FitsTable("decisionDefinition", "version")
  <2>0. ColumnsOf("decisionDefinition")["version"]
          = Sortable("version", ByToggle("latestVersion", Exact))
    BY Zenon DEF ColumnsOf, DecisionColumns
  <2>1. IsColumn(ColumnsOf("decisionDefinition")["version"], Exact, "version", {},
                 {"latestVersion"})
    BY <2>0, Zenon DEF IsColumn, Sortable, ByToggle, Exact, Text, Column
  <2>2. /\ NamesApart("decisionDefinition", "version", {})
        /\ SortsBack("decisionDefinition", "version", "version")
    BY DEF NamesApart, SortsBack, EngineSorts, SortsOnItsOwnName
  <2>3. /\ "version" \in DOMAIN DecisionFields
        /\ DecisionFields["version"] = <<"version", "equals", Blank>>
    BY Zenon DEF DecisionFields, Equals, Reads, Like, Listed, Period, ++
  <2>4. Reading("decisionDefinition", FALSE, "version", <<"version", "equals", Blank>>)
    BY <1>f, <1>g, <2>3 DEF Reading
  <2>5. Exact.options = {}
    BY DEF Exact, Text, Column
  <2>6. Mutual("decisionDefinition", "version", {}, {"latestVersion"})
    BY DEF Mutual, TogglesOf
  <2> QED BY <2>1, <2>2, <2>4, <2>5, <2>6, ExactFits
<1>4. FitsTable("decisionDefinition", "key")
  <2>0. ColumnsOf("decisionDefinition")["key"]
          = Sortable("key", Text(<<"contains">>, [contains |-> "keyLike"]))
    BY Zenon DEF ColumnsOf, DecisionColumns
  <2>1. IsColumn(ColumnsOf("decisionDefinition")["key"],
                 Text(<<"contains">>, [contains |-> "keyLike"]), "key", {}, {})
    BY <2>0, Zenon DEF IsColumn, Sortable, Text, Column
  <2>2. NamesApart("decisionDefinition", "key", {}) /\ SortsBack("decisionDefinition", "key", "key")
    BY DEF NamesApart, SortsBack, EngineSorts, SortsOnItsOwnName
  <2>3. /\ "keyLike" \in DOMAIN DecisionFields
        /\ DecisionFields["keyLike"] = <<"key", "contains", "%">>
    BY Zenon DEF DecisionFields, Equals, Reads, Like, Listed, Period, ++
  <2>4. Reading("decisionDefinition", FALSE, "keyLike", <<"key", "contains", "%">>)
    BY <1>f, <1>g, <2>3 DEF Reading
  <2> QED BY <2>1, <2>2, <2>4, NoneExcluded, ContainsFits
<1>5. FitsTable("decisionDefinition", "deploymentId")
  <2>0. ColumnsOf("decisionDefinition")["deploymentId"]
          = Sortable("deploymentId", ByToggle("latestVersion", Exact))
    BY Zenon DEF ColumnsOf, DecisionColumns
  <2>1. IsColumn(ColumnsOf("decisionDefinition")["deploymentId"], Exact, "deploymentId", {},
                 {"latestVersion"})
    BY <2>0, Zenon DEF IsColumn, Sortable, ByToggle, Exact, Text, Column
  <2>2. /\ NamesApart("decisionDefinition", "deploymentId", {})
        /\ SortsBack("decisionDefinition", "deploymentId", "deploymentId")
    BY DEF NamesApart, SortsBack, EngineSorts, SortsOnItsOwnName
  <2>3. /\ "deploymentId" \in DOMAIN DecisionFields
        /\ DecisionFields["deploymentId"] = <<"deploymentId", "equals", Blank>>
    BY Zenon DEF DecisionFields, Equals, Reads, Like, Listed, Period, ++
  <2>4. Reading("decisionDefinition", FALSE, "deploymentId", <<"deploymentId", "equals", Blank>>)
    BY <1>f, <1>g, <2>3 DEF Reading
  <2>5. Exact.options = {}
    BY DEF Exact, Text, Column
  <2>6. Mutual("decisionDefinition", "deploymentId", {}, {"latestVersion"})
    BY DEF Mutual, TogglesOf
  <2> QED BY <2>1, <2>2, <2>4, <2>5, <2>6, ExactFits
<1> QED BY <1>0, <1>1, <1>2, <1>3, <1>4, <1>5

\* Every column of the list of deployments fits.
LEMMA DeploymentTable ==
  \A c \in DOMAIN ColumnsOf("deployment") : FitsTable("deployment", c)
<1>0. DOMAIN ColumnsOf("deployment") =
        {"id", "deploymentTime", "source", "name"}
  BY DEF ColumnsOf, DeploymentColumns
<1>f. EngineFields("deployment", FALSE) = DeploymentFields
  BY DEF EngineFields
<1>g. EngineFlags("deployment", FALSE) = {}
  BY DEF EngineFlags
<1>1. FitsTable("deployment", "id")
  <2>0. ColumnsOf("deployment")["id"] = Sortable("id", Exact)
    BY Zenon DEF ColumnsOf, DeploymentColumns
  <2>1. IsColumn(ColumnsOf("deployment")["id"], Exact, "id", {}, {})
    BY <2>0, Zenon DEF IsColumn, Sortable, Exact, Text, Column
  <2>2. NamesApart("deployment", "id", {}) /\ SortsBack("deployment", "id", "id")
    BY DEF NamesApart, SortsBack, EngineSorts, SortsOnItsOwnName
  <2>3. "id" \in DOMAIN DeploymentFields /\ DeploymentFields["id"] = <<"id", "equals", Blank>>
    BY Zenon DEF DeploymentFields, Equals, Reads, Like, Listed, Period, ++
  <2>4. Reading("deployment", FALSE, "id", <<"id", "equals", Blank>>)
    BY <1>f, <1>g, <2>3 DEF Reading
  <2>5. Exact.options = {}
    BY DEF Exact, Text, Column
  <2> QED BY <2>1, <2>2, <2>4, <2>5, NoneExcluded, ExactFits
<1>2. FitsTable("deployment", "deploymentTime")
  <2>0. ColumnsOf("deployment")["deploymentTime"]
          = Sortable("deploymentTime", DateColumn("before", "after"))
    BY Zenon DEF ColumnsOf, DeploymentColumns
  <2>1. IsColumn(ColumnsOf("deployment")["deploymentTime"], DateColumn("before", "after"),
                 "deploymentTime", {}, {})
    BY <2>0, Zenon DEF IsColumn, Sortable, DateColumn, Column
  <2>2. /\ NamesApart("deployment", "deploymentTime", {})
        /\ SortsBack("deployment", "deploymentTime", "deploymentTime")
    BY DEF NamesApart, SortsBack, EngineSorts, SortsOnItsOwnName
  <2>3. /\ "before" \in DOMAIN DeploymentFields
        /\ DeploymentFields["before"] = <<"deploymentTime", "before", Blank>>
    BY Zenon DEF DeploymentFields, Equals, Reads, Like, Listed, Period, ++
  <2>4. /\ "after" \in DOMAIN DeploymentFields
        /\ DeploymentFields["after"] = <<"deploymentTime", "after", Blank>>
    BY Zenon DEF DeploymentFields, Equals, Reads, Like, Listed, Period, ++
  <2>5. Reading("deployment", FALSE, "before", <<"deploymentTime", "before", Blank>>)
    BY <1>f, <1>g, <2>3 DEF Reading
  <2>6. Reading("deployment", FALSE, "after", <<"deploymentTime", "after", Blank>>)
    BY <1>f, <1>g, <2>4 DEF Reading
  <2> QED BY <2>1, <2>2, <2>5, <2>6, DateFits
<1>3. FitsTable("deployment", "source")
  <2>0. ColumnsOf("deployment")["source"] = Exact
    BY Zenon DEF ColumnsOf, DeploymentColumns
  <2>1. IsColumn(ColumnsOf("deployment")["source"], Exact, Absent, {}, {})
    BY <2>0, Zenon DEF IsColumn, Exact, Text, Column
  <2>2. NamesApart("deployment", "source", {}) /\ SortsBack("deployment", Absent, "source")
    BY Zenon DEF NamesApart, SortsBack
  <2>3. /\ "source" \in DOMAIN DeploymentFields
        /\ DeploymentFields["source"] = <<"source", "equals", Blank>>
    BY Zenon DEF DeploymentFields, Equals, Reads, Like, Listed, Period, ++
  <2>4. Reading("deployment", FALSE, "source", <<"source", "equals", Blank>>)
    BY <1>f, <1>g, <2>3 DEF Reading
  <2>5. Exact.options = {}
    BY DEF Exact, Text, Column
  <2> QED BY <2>1, <2>2, <2>4, <2>5, NoneExcluded, ExactFits
<1>4. FitsTable("deployment", "name")
  <2>0. ColumnsOf("deployment")["name"]
          = Sortable("name", Text(<<"contains">>, [contains |-> "nameLike"]))
    BY Zenon DEF ColumnsOf, DeploymentColumns
  <2>1. IsColumn(ColumnsOf("deployment")["name"], Text(<<"contains">>, [contains |-> "nameLike"]),
                 "name", {}, {})
    BY <2>0, Zenon DEF IsColumn, Sortable, Text, Column
  <2>2. NamesApart("deployment", "name", {}) /\ SortsBack("deployment", "name", "name")
    BY DEF NamesApart, SortsBack, EngineSorts, SortsOnItsOwnName
  <2>3. /\ "nameLike" \in DOMAIN DeploymentFields
        /\ DeploymentFields["nameLike"] = <<"name", "contains", "%">>
    BY Zenon DEF DeploymentFields, Equals, Reads, Like, Listed, Period, ++
  <2>4. Reading("deployment", FALSE, "nameLike", <<"name", "contains", "%">>)
    BY <1>f, <1>g, <2>3 DEF Reading
  <2> QED BY <2>1, <2>2, <2>4, NoneExcluded, ContainsFits
<1> QED BY <1>0, <1>1, <1>2, <1>3, <1>4

\* Every column of the list of batches fits.
LEMMA BatchTable ==
  \A c \in DOMAIN ColumnsOf("batch") : FitsTable("batch", c)
<1>0. DOMAIN ColumnsOf("batch") =
        {"batchId", "suspended", "startTime", "type", "createUserId", "endTime"}
  BY DEF ColumnsOf, BatchColumns
<1>f. EngineFields("batch", FALSE) = BatchFields(FALSE)
  BY DEF EngineFields
<1>g. EngineFlags("batch", FALSE) = {"suspended"}
  BY DEF EngineFlags
<1>1. FitsTable("batch", "batchId")
  <2>0. ColumnsOf("batch")["batchId"] = Sortable("batchId", Exact)
    BY Zenon DEF ColumnsOf, BatchColumns
  <2>1. IsColumn(ColumnsOf("batch")["batchId"], Exact, "batchId", {}, {})
    BY <2>0, Zenon DEF IsColumn, Sortable, Exact, Text, Column
  <2>2. NamesApart("batch", "batchId", {}) /\ SortsBack("batch", "batchId", "batchId")
    BY DEF NamesApart, SortsBack, EngineSorts, SortsOnItsOwnName
  <2>3. /\ "batchId" \in DOMAIN BatchFields(FALSE)
        /\ BatchFields(FALSE)["batchId"] = <<"batchId", "equals", Blank>>
    BY Zenon DEF BatchFields, Equals, Reads, Like, Listed, Period, ++
  <2>4. Reading("batch", FALSE, "batchId", <<"batchId", "equals", Blank>>)
    BY <1>f, <1>g, <2>3 DEF Reading
  <2>5. Exact.options = {}
    BY DEF Exact, Text, Column
  <2> QED BY <2>1, <2>2, <2>4, <2>5, NoneExcluded, ExactFits
<1>2. FitsTable("batch", "suspended")
  <2>0. ColumnsOf("batch")["suspended"] = Choice({"active", "suspended"}, <<"suspended">>)
    BY Zenon DEF ColumnsOf, BatchColumns
  <2>1. IsColumn(ColumnsOf("batch")["suspended"], Choice({"active", "suspended"}, <<"suspended">>),
                 Absent, {}, {})
    BY <2>0, Zenon DEF IsColumn, Choice, Column
  <2>2. /\ NamesApart("batch", "suspended", {"active", "suspended"})
        /\ SortsBack("batch", Absent, "suspended")
    BY DEF NamesApart, SortsBack
  <2>3. ToSet(<<"suspended">>) = {"suspended"} /\ Head(<<"suspended">>) = "suspended"
    BY Offered
  <2>4. <<"suspended">> # <<>>
    BY Offered
  <2>5. Flagged("batch", FALSE, {"active", "suspended"}, <<"suspended">>)
    BY <1>g, <2>3 DEF Flagged
  <2> QED BY <2>1, <2>2, <2>4, <2>5, NoneExcluded, ChoiceFits
<1>3. FitsTable("batch", "startTime")
  <2>0. ColumnsOf("batch")["startTime"]
          = Sortable("startTime", DateColumn("startedBefore", "startedAfter"))
    BY Zenon DEF ColumnsOf, BatchColumns
  <2>1. IsColumn(ColumnsOf("batch")["startTime"], DateColumn("startedBefore", "startedAfter"),
                 "startTime", {}, {})
    BY <2>0, Zenon DEF IsColumn, Sortable, DateColumn, Column
  <2>2. NamesApart("batch", "startTime", {}) /\ SortsBack("batch", "startTime", "startTime")
    BY DEF NamesApart, SortsBack, EngineSorts, SortsOnItsOwnName
  <2>3. /\ "startedBefore" \in DOMAIN BatchFields(FALSE)
        /\ BatchFields(FALSE)["startedBefore"] = <<"startTime", "before", Blank>>
    BY Zenon DEF BatchFields, Equals, Reads, Like, Listed, Period, ++
  <2>4. /\ "startedAfter" \in DOMAIN BatchFields(FALSE)
        /\ BatchFields(FALSE)["startedAfter"] = <<"startTime", "after", Blank>>
    BY Zenon DEF BatchFields, Equals, Reads, Like, Listed, Period, ++
  <2>5. Reading("batch", FALSE, "startedBefore", <<"startTime", "before", Blank>>)
    BY <1>f, <1>g, <2>3 DEF Reading
  <2>6. Reading("batch", FALSE, "startedAfter", <<"startTime", "after", Blank>>)
    BY <1>f, <1>g, <2>4 DEF Reading
  <2> QED BY <2>1, <2>2, <2>5, <2>6, DateFits
<1>4. FitsTable("batch", "type")
  <2>0. ColumnsOf("batch")["type"] = Exact
    BY Zenon DEF ColumnsOf, BatchColumns
  <2>1. IsColumn(ColumnsOf("batch")["type"], Exact, Absent, {}, {})
    BY <2>0, Zenon DEF IsColumn, Exact, Text, Column
  <2>2. NamesApart("batch", "type", {}) /\ SortsBack("batch", Absent, "type")
    BY Zenon DEF NamesApart, SortsBack
  <2>3. /\ "type" \in DOMAIN BatchFields(FALSE)
        /\ BatchFields(FALSE)["type"] = <<"type", "equals", Blank>>
    BY Zenon DEF BatchFields, Equals, Reads, Like, Listed, Period, ++
  <2>4. Reading("batch", FALSE, "type", <<"type", "equals", Blank>>)
    BY <1>f, <1>g, <2>3 DEF Reading
  <2>5. Exact.options = {}
    BY DEF Exact, Text, Column
  <2> QED BY <2>1, <2>2, <2>4, <2>5, NoneExcluded, ExactFits
<1>5. FitsTable("batch", "createUserId")
  <2>0. ColumnsOf("batch")["createUserId"] = ExactAs("createdBy")
    BY Zenon DEF ColumnsOf, BatchColumns
  <2>1. IsColumn(ColumnsOf("batch")["createUserId"], ExactAs("createdBy"), Absent, {}, {})
    BY <2>0, Zenon DEF IsColumn, ExactAs, Text, Column
  <2>2. NamesApart("batch", "createUserId", {}) /\ SortsBack("batch", Absent, "createUserId")
    BY Zenon DEF NamesApart, SortsBack
  <2>3. /\ "createdBy" \in DOMAIN BatchFields(FALSE)
        /\ BatchFields(FALSE)["createdBy"] = <<"createUserId", "equals", Blank>>
    BY Zenon DEF BatchFields, Equals, Reads, Like, Listed, Period, ++
  <2>4. Reading("batch", FALSE, "createdBy", <<"createUserId", "equals", Blank>>)
    BY <1>f, <1>g, <2>3 DEF Reading
  <2> QED BY <2>1, <2>2, <2>4, NoneExcluded, ExactAsFits
<1>6. FitsTable("batch", "endTime")
  <2>0. ColumnsOf("batch")["endTime"] = Sortable("endTime", Bare)
    BY Zenon DEF ColumnsOf, BatchColumns
  <2>1. IsColumn(ColumnsOf("batch")["endTime"], Bare, "endTime", {}, {})
    BY <2>0, Zenon DEF IsColumn, Sortable, Bare, Column
  <2>2. NamesApart("batch", "endTime", {}) /\ SortsBack("batch", "endTime", "endTime")
    BY DEF NamesApart, SortsBack, EngineSorts, SortsOnItsOwnName
  <2> QED BY <2>1, <2>2, BareFits
<1> QED BY <1>0, <1>1, <1>2, <1>3, <1>4, <1>5, <1>6

\* The toggles of a list are flags of the engine, and no other condition has their names
TogglesFit(l) ==
  /\ DOMAIN TogglesOf(l) \subseteq EngineFlags(l, FALSE)
  /\ DOMAIN TogglesOf(l) \intersect {"version", "deploymentId", "name", "id", "jobDefinitionId",
                                     "noRetriesLeft"} = {}
  /\ l = "batch" => DOMAIN TogglesOf(l) = {}

\* What the engine does not take together is excluded
ClashesExcluded(l) ==
  /\ \A c \in DOMAIN ColumnsOf(l) \intersect {"version", "deploymentId"} :
       "latestVersion" \in DOMAIN TogglesOf(l) =>
         "latestVersion" \in ColumnsOf(l)[c].disabledByToggles
  /\ l = "decisionDefinition" => "latestVersion" \in ColumnsOf(l)["name"].disabledByToggles
  /\ l = "job" => /\ "jobDefinitionId" \in ColumnsOf(l)["id"].disabledBy
                  /\ "withRetriesLeft" \in ColumnsOf(l)["retries"].disabledByToggles

\* The keys by which the engine sorts
KeysOfSorts(l, ended) == DOMAIN EngineSorts(l, ended) \union SortsOnItsOwnName(l, ended)

\* The defaults of a list are filters, toggles and a sorting of it, which do not exclude each other
DefaultsFit(l) ==
  /\ \A c \in DOMAIN DefaultFiltersOf(l) :
       /\ FilterSound(l, c, DefaultFiltersOf(l)[c])
       /\ ColumnsOf(l)[c].disabledBy = {} /\ ColumnsOf(l)[c].disabledByToggles = {}
  /\ DefaultTogglesOf(l) \subseteq DOMAIN TogglesOf(l)
  /\ DefaultSortingOf(l) \in DOMAIN ColumnsOf(l)
  /\ ColumnsOf(l)[DefaultSortingOf(l)].sort \in KeysOfSorts(l, FALSE)
  /\ l = "batch" => DefaultFiltersOf(l) = <<>>

\* Every column fits its list.
LEMMA ColumnsFit == \A l \in Lists : \A c \in DOMAIN ColumnsOf(l) : FitsTable(l, c)
BY IncidentTable, JobTable, InstanceTable, DefinitionTable, DecisionTable, DeploymentTable,
   BatchTable, Zenon DEF Lists

\* The columns of completed batches that can be filtered are read by the engine too.
LEMMA CompletedFit ==
  \A c \in {"batchId", "type"} : c \in DOMAIN ColumnsOf("batch") /\ Understood("batch", TRUE, c)
<1> SUFFICES ASSUME NEW c \in {"batchId", "type"}
             PROVE  c \in DOMAIN ColumnsOf("batch") /\ Understood("batch", TRUE, c)
  OBVIOUS
<1> DEFINE sort == IF c = "batchId" THEN "batchId" ELSE Absent
<1>1. /\ ColumnsOf("batch")["batchId"] = Sortable("batchId", Exact)
      /\ ColumnsOf("batch")["type"] = Exact
      /\ c \in DOMAIN ColumnsOf("batch")
  BY DEF ColumnsOf, BatchColumns
<1>2. IsColumn(ColumnsOf("batch")[c], Exact, sort, {}, {}) /\ Exact.options = {}
  <2>1. /\ IsColumn(ColumnsOf("batch")["batchId"], Exact, "batchId", {}, {})
        /\ IsColumn(ColumnsOf("batch")["type"], Exact, Absent, {}, {}) /\ Exact.options = {}
    BY <1>1, Zenon DEF IsColumn, Sortable, Exact, Text, Column
  <2> QED BY <2>1
<1>3. EngineFields("batch", TRUE) = BatchFields(TRUE) /\ EngineFlags("batch", TRUE) = {}
  BY DEF EngineFields, EngineFlags
<1>4. c \in DOMAIN BatchFields(TRUE) /\ BatchFields(TRUE)[c] = <<c, "equals", Blank>>
  BY DEF BatchFields, Equals, ++
<1>5. Reading("batch", TRUE, c, <<c, "equals", Blank>>)
  BY <1>3, <1>4 DEF Reading
<1>6. SortsBack("batch", sort, c) /\ NamesApart("batch", c, {}) /\ c # "priority"
  BY DEF SortsBack, EngineSorts, SortsOnItsOwnName, NamesApart
<1> QED BY <1>1, <1>2, <1>5, <1>6, NoneExcluded, ExactFits

\* The toggles fit.
LEMMA AllTogglesFit == \A l \in Lists : TogglesFit(l)
<1> SUFFICES ASSUME NEW l \in Lists PROVE TogglesFit(l)
  OBVIOUS
<1>1. \A t \in DOMAIN TogglesOf(l) :
        \/ l = "job" /\ t \in {"executable", "withException", "withRetriesLeft"}
        \/ l \in {"processDefinition", "decisionDefinition"} /\ t = "latestVersion"
        \/ l = "processInstance" /\ t = "withIncidents"
  BY DEF TogglesOf, Lists
<1>2. DOMAIN TogglesOf(l) \subseteq EngineFlags(l, FALSE)
  BY <1>1 DEF EngineFlags
<1> QED BY <1>1, <1>2 DEF TogglesFit

\* What clashes is excluded.
LEMMA AllClashesExcluded == \A l \in Lists : ClashesExcluded(l)
<1> SUFFICES ASSUME NEW l \in Lists PROVE ClashesExcluded(l)
  OBVIOUS
<1>1. "latestVersion" \in DOMAIN TogglesOf(l) => l \in {"processDefinition", "decisionDefinition"}
  BY DEF TogglesOf, Lists
<1>2. /\ ColumnsOf("processDefinition")["version"].disabledByToggles = {"latestVersion"}
      /\ ColumnsOf("processDefinition")["deploymentId"].disabledByToggles = {"latestVersion"}
  BY DEF ColumnsOf, DefinitionColumns, Sortable, ByToggle, Exact, Text, Column
<1>3. /\ ColumnsOf("decisionDefinition")["version"].disabledByToggles = {"latestVersion"}
      /\ ColumnsOf("decisionDefinition")["deploymentId"].disabledByToggles = {"latestVersion"}
      /\ ColumnsOf("decisionDefinition")["name"].disabledByToggles = {"latestVersion"}
  BY DEF ColumnsOf, DecisionColumns, Sortable, ByToggle, Exact, Text, Column
<1>4. ColumnsOf("job")["id"].disabledBy = {"jobDefinitionId"}
  BY DEF ColumnsOf, JobColumns, OtherJobColumns, ++, Sortable, ByFilters, Several, Column
<1>5. ColumnsOf("job")["retries"].disabledByToggles = {"withRetriesLeft"}
  BY DEF ColumnsOf, JobColumns, OtherJobColumns, ++, Sortable, ByToggle, Choice, Column
<1> QED BY <1>1, <1>2, <1>3, <1>4, <1>5 DEF ClashesExcluded

\* The defaults fit.
LEMMA AllDefaultsFit == \A l \in Lists : DefaultsFit(l)
<1> SUFFICES ASSUME NEW l \in Lists PROVE DefaultsFit(l)
  OBVIOUS
<1>1. DefaultTogglesOf(l) \subseteq DOMAIN TogglesOf(l)
  BY DEF DefaultTogglesOf, TogglesOf, Lists
<1>2. ASSUME NEW c, NEW options, NEW booleans, NEW sort, NEW value, value # Blank,
             c \in DOMAIN ColumnsOf(l),
             IsColumn(ColumnsOf(l)[c], Choice(options, booleans), sort, {}, {}), value \in options
      PROVE  /\ FilterSound(l, c, Equal(value))
             /\ ColumnsOf(l)[c].disabledBy = {} /\ ColumnsOf(l)[c].disabledByToggles = {}
  <2> DEFINE filter == Choice(options, booleans)
  <2>1. filter.offers = <<"equals">> /\ filter.options = options /\ filter.booleans = booleans
    BY DEF Choice, Column
  <2> HIDE DEF filter
  <2>2. /\ ColumnsOf(l)[c].offers = <<"equals">> /\ ColumnsOf(l)[c].options = options
        /\ ColumnsOf(l)[c].disabledBy = {} /\ ColumnsOf(l)[c].disabledByToggles = {}
    BY <1>2, <2>1 DEF IsColumn, filter
  <2>3. "equals" \in ToSet(ColumnsOf(l)[c].offers)
    BY <2>2, Offered
  <2>4. Equal(value).type = "equals" /\ Equal(value).value = value
    BY DEF Equal
  <2> QED BY <1>2, <2>2, <2>3, <2>4 DEF FilterSound
<1>3. "open" # Blank /\ "active" # Blank
  BY Zenon DEF Blank
<1>4. CASE l = "incident"
  <2>1. /\ ColumnsOf(l)["status"] = Sortable("incidentState",
             Choice({"open", "deleted", "resolved"}, <<"open", "deleted", "resolved">>))
        /\ ColumnsOf(l)["createTime"]
             = Sortable("createTime", DateColumn("createTimeBefore", "createTimeAfter"))
        /\ {"status", "createTime"} \subseteq DOMAIN ColumnsOf(l)
    BY <1>4, Zenon DEF ColumnsOf, IncidentColumns, OtherIncidentColumns, ++
  <2>2. IsColumn(ColumnsOf(l)["status"], Choice({"open", "deleted", "resolved"},
                 <<"open", "deleted", "resolved">>), "incidentState", {}, {})
    BY <2>1, Zenon DEF IsColumn, Sortable, Choice, Column
  <2>3. ColumnsOf(l)["createTime"].sort = "createTime"
    BY <2>1, Zenon DEF Sortable, DateColumn, Column
  <2>4. DefaultFiltersOf(l) = [status |-> Equal("open")] /\ DefaultSortingOf(l) = "createTime"
    BY <1>4 DEF DefaultFiltersOf, DefaultSortingOf
  <2>5. DOMAIN DefaultFiltersOf(l) = {"status"} /\ DefaultFiltersOf(l)["status"] = Equal("open")
    BY <2>4
  <2>6. /\ FilterSound(l, "status", Equal("open"))
        /\ ColumnsOf(l)["status"].disabledBy = {} /\ ColumnsOf(l)["status"].disabledByToggles = {}
    BY <1>2, <1>3, <2>1, <2>2
  <2>7. \A c \in DOMAIN DefaultFiltersOf(l) :
          /\ FilterSound(l, c, DefaultFiltersOf(l)[c])
          /\ ColumnsOf(l)[c].disabledBy = {} /\ ColumnsOf(l)[c].disabledByToggles = {}
    BY <2>5, <2>6
  <2>8. /\ DefaultSortingOf(l) \in DOMAIN ColumnsOf(l)
        /\ ColumnsOf(l)[DefaultSortingOf(l)].sort \in KeysOfSorts(l, FALSE)
    BY <2>1, <2>3, <2>4, <1>4 DEF KeysOfSorts, EngineSorts, SortsOnItsOwnName
  <2> QED BY <1>1, <1>4, <2>7, <2>8 DEF DefaultsFit
<1>5. CASE l = "processInstance"
  <2>1. /\ ColumnsOf(l)["state"] = Choice(InstanceStates, SetToSeq(InstanceStates))
        /\ ColumnsOf(l)["startTime"]
             = Sortable("startTime", DateColumn("startedBefore", "startedAfter"))
        /\ {"state", "startTime"} \subseteq DOMAIN ColumnsOf(l)
    BY <1>5, Zenon DEF ColumnsOf, InstanceColumns, OtherInstanceColumns, ++
  <2>2. IsColumn(ColumnsOf(l)["state"], Choice(InstanceStates, SetToSeq(InstanceStates)), Absent,
                 {}, {})
    BY <2>1, Zenon DEF IsColumn, Choice, Column
  <2>3. ColumnsOf(l)["startTime"].sort = "startTime"
    BY <2>1, Zenon DEF Sortable, DateColumn, Column
  <2>4. DefaultFiltersOf(l) = [state |-> Equal("active")] /\ DefaultSortingOf(l) = "startTime"
    BY <1>5 DEF DefaultFiltersOf, DefaultSortingOf
  <2>5. DOMAIN DefaultFiltersOf(l) = {"state"} /\ DefaultFiltersOf(l)["state"] = Equal("active")
    BY <2>4
  <2>6. "active" \in InstanceStates
    BY DEF InstanceStates
  <2>7. /\ FilterSound(l, "state", Equal("active"))
        /\ ColumnsOf(l)["state"].disabledBy = {} /\ ColumnsOf(l)["state"].disabledByToggles = {}
    BY <1>2, <1>3, <2>1, <2>2, <2>6
  <2>8. \A c \in DOMAIN DefaultFiltersOf(l) :
          /\ FilterSound(l, c, DefaultFiltersOf(l)[c])
          /\ ColumnsOf(l)[c].disabledBy = {} /\ ColumnsOf(l)[c].disabledByToggles = {}
    BY <2>5, <2>7
  <2>9. /\ DefaultSortingOf(l) \in DOMAIN ColumnsOf(l)
        /\ ColumnsOf(l)[DefaultSortingOf(l)].sort \in KeysOfSorts(l, FALSE)
    BY <2>1, <2>3, <2>4, <1>5 DEF KeysOfSorts, EngineSorts, SortsOnItsOwnName
  <2> QED BY <1>1, <1>5, <2>8, <2>9 DEF DefaultsFit
<1>6. CASE l = "processDefinition"
  <2>1. /\ ColumnsOf(l)["suspended"] = Choice({"active", "suspended"}, <<"active", "suspended">>)
        /\ ColumnsOf(l)["name"] = Sortable("name", LikeOrExact("nameLike", "name"))
        /\ {"suspended", "name"} \subseteq DOMAIN ColumnsOf(l)
    BY <1>6, Zenon DEF ColumnsOf, DefinitionColumns
  <2>2. IsColumn(ColumnsOf(l)["suspended"],
                 Choice({"active", "suspended"}, <<"active", "suspended">>),
                 Absent, {}, {})
    BY <2>1, Zenon DEF IsColumn, Choice, Column
  <2>3. ColumnsOf(l)["name"].sort = "name"
    BY <2>1, Zenon DEF Sortable, LikeOrExact, Text, Column
  <2>4. DefaultFiltersOf(l) = [suspended |-> Equal("active")] /\ DefaultSortingOf(l) = "name"
    BY <1>6 DEF DefaultFiltersOf, DefaultSortingOf
  <2>5. /\ DOMAIN DefaultFiltersOf(l) = {"suspended"}
        /\ DefaultFiltersOf(l)["suspended"] = Equal("active")
    BY <2>4
  <2>6. /\ FilterSound(l, "suspended", Equal("active"))
        /\ ColumnsOf(l)["suspended"].disabledBy = {}
        /\ ColumnsOf(l)["suspended"].disabledByToggles = {}
    BY <1>2, <1>3, <2>1, <2>2
  <2>7. \A c \in DOMAIN DefaultFiltersOf(l) :
          /\ FilterSound(l, c, DefaultFiltersOf(l)[c])
          /\ ColumnsOf(l)[c].disabledBy = {} /\ ColumnsOf(l)[c].disabledByToggles = {}
    BY <2>5, <2>6
  <2>8. /\ DefaultSortingOf(l) \in DOMAIN ColumnsOf(l)
        /\ ColumnsOf(l)[DefaultSortingOf(l)].sort \in KeysOfSorts(l, FALSE)
    BY <2>1, <2>3, <2>4, <1>6 DEF KeysOfSorts, EngineSorts, SortsOnItsOwnName
  <2> QED BY <1>1, <1>6, <2>7, <2>8 DEF DefaultsFit
<1>7. CASE l \in {"job", "decisionDefinition", "deployment", "batch"}
  <2>1. DefaultFiltersOf(l) = <<>>
    BY <1>7 DEF DefaultFiltersOf
  <2>2. /\ DefaultSortingOf("job") = "dueDate" /\ DefaultSortingOf("decisionDefinition") = "key"
        /\ DefaultSortingOf("deployment") = "deploymentTime"
        /\ DefaultSortingOf("batch") = "startTime"
    BY DEF DefaultSortingOf
  <2>3. ColumnsOf("job")["dueDate"].sort = "jobDueDate" /\ "dueDate" \in DOMAIN ColumnsOf("job")
    BY Zenon DEF ColumnsOf, JobColumns, OtherJobColumns, ++, Sortable, DateArray, DateColumn, Column
  <2>4. /\ ColumnsOf("decisionDefinition")["key"].sort = "key"
        /\ "key" \in DOMAIN ColumnsOf("decisionDefinition")
    BY Zenon DEF ColumnsOf, DecisionColumns, Sortable, Text, Column
  <2>5. /\ ColumnsOf("deployment")["deploymentTime"].sort = "deploymentTime"
        /\ "deploymentTime" \in DOMAIN ColumnsOf("deployment")
    BY Zenon DEF ColumnsOf, DeploymentColumns, Sortable, DateColumn, Column
  <2>6. /\ ColumnsOf("batch")["startTime"].sort = "startTime"
        /\ "startTime" \in DOMAIN ColumnsOf("batch")
    BY Zenon DEF ColumnsOf, BatchColumns, Sortable, DateColumn, Column
  <2>7. /\ DefaultSortingOf(l) \in DOMAIN ColumnsOf(l)
        /\ ColumnsOf(l)[DefaultSortingOf(l)].sort \in KeysOfSorts(l, FALSE)
    <3>1. CASE l = "job"
      BY <3>1, <2>2, <2>3 DEF KeysOfSorts, EngineSorts, SortsOnItsOwnName
    <3>2. CASE l = "decisionDefinition"
      BY <3>2, <2>2, <2>4 DEF KeysOfSorts, EngineSorts, SortsOnItsOwnName
    <3>3. CASE l = "deployment"
      BY <3>3, <2>2, <2>5 DEF KeysOfSorts, EngineSorts, SortsOnItsOwnName
    <3>4. CASE l = "batch"
      BY <3>4, <2>2, <2>6 DEF KeysOfSorts, EngineSorts, SortsOnItsOwnName
    <3> QED BY <1>7, <3>1, <3>2, <3>3, <3>4
  <2>8. \A c \in DOMAIN DefaultFiltersOf(l) : FALSE
    BY <2>1
  <2> QED BY <1>1, <2>1, <2>7, <2>8 DEF DefaultsFit
<1> QED BY <1>4, <1>5, <1>6, <1>7 DEF Lists

\* Only jobs have a priority.
LEMMA PriorityIsText ==
  \A l \in Lists : "priority" \in DOMAIN ColumnsOf(l) =>
    ColumnsOf(l)["priority"].kind = "text" /\ ColumnsOf(l)["priority"].booleans = <<>>
<1> SUFFICES ASSUME NEW l \in Lists, "priority" \in DOMAIN ColumnsOf(l)
             PROVE  /\ ColumnsOf(l)["priority"].kind = "text"
                    /\ ColumnsOf(l)["priority"].booleans = <<>>
  OBVIOUS
<1>1. l = "job"
  BY DEF Lists, ColumnsOf, IncidentColumns, OtherIncidentColumns, InstanceColumns,
         OtherInstanceColumns, DefinitionColumns, DecisionColumns, DeploymentColumns, BatchColumns,
         ++
<1>2. ColumnsOf("job")["priority"].kind = "text" /\ ColumnsOf("job")["priority"].booleans = <<>>
  BY Zenon DEF ColumnsOf, JobColumns, OtherJobColumns, ++, Sortable, Text, Column
<1> QED BY <1>1, <1>2

\* The columns that can be filtered are columns of the list.
LEMMA FiltersAreColumns ==
  ASSUME list \in Lists, completed => list = "batch"
  PROVE  /\ FilterNames \subseteq DOMAIN ColumnsOf(list)
         /\ ColumnNames \subseteq DOMAIN ColumnsOf(list)
<1>1. DOMAIN ColumnsOf("batch")
        = {"batchId", "suspended", "startTime", "type", "createUserId", "endTime"}
      /\ DOMAIN BatchColumns = DOMAIN ColumnsOf("batch")
  BY DEF ColumnsOf, BatchColumns
<1>2. ColumnNames \subseteq DOMAIN ColumnsOf(list)
  BY <1>1 DEF ColumnNames
<1>3. FilterNames \subseteq DOMAIN ColumnsOf(list)
  BY <1>1, <1>2 DEF FilterNames
<1> QED BY <1>2, <1>3

-----------------------------------------------------------------------------
\* What the engine hears of a parameter that a filter or a toggle becomes
Heard(l, ended, p) == HeardAs(l, ended, JoinArrays(l, p))

\* What the engine hears of a parameter that it reads.
LEMMA ReadingHeard ==
  ASSUME NEW l, NEW ended, NEW parameter, NEW condition, Reading(l, ended, parameter[1], condition),
         JoinArrays(l, parameter) = <<parameter[1], condition[3], parameter[3]>>
  PROVE  Heard(l, ended, parameter) = {<<condition[1], condition[2], parameter[3]>>}
<1>1. /\ parameter[1] \notin EngineFlags(l, ended)
      /\ parameter[1] \notin {"dueDates", "createTimes"}
      /\ parameter[1] \in DOMAIN EngineFields(l, ended)
      /\ EngineFields(l, ended)[parameter[1]] = condition
  BY DEF Reading
<1>2. HeardAs(l, ended, <<parameter[1], condition[3], parameter[3]>>)
        = {<<condition[1], condition[2], parameter[3]>>}
  BY <1>1 DEF HeardAs
<1> QED BY <1>2 DEF Heard

\* What the engine hears of a flag.
LEMMA FlagHeard ==
  ASSUME NEW l, NEW ended, NEW flag, flag \in EngineFlags(l, ended), NEW told
  PROVE  Heard(l, ended, <<flag, Blank, told>>)
           = {<<IF told = "true" THEN flag ELSE "active", "is", "true">>}
<1>1. JoinArrays(l, <<flag, Blank, told>>) = <<flag, Blank, told>>
  BY DEF JoinArrays
<1> QED BY <1>1 DEF Heard, HeardAs

\* A filter of texts, of several values or of a choice is heard as the column
\* compared with the value.
LEMMA PlainHeard ==
  ASSUME NEW l, NEW ended, NEW c, NEW filter,
         LET col == ColumnsOf(l)[c] IN
         /\ col.kind \in {"text", "multi", "select"} /\ col.booleans = <<>>
         /\ filter.type \in ToSet(col.offers),
         Understood(l, ended, c)
  PROVE  UNION {Heard(l, ended, p) : p \in TransformFilter(ColumnsOf(l)[c], c, filter)}
           = IF c = "priority" THEN {} ELSE Meaning(ColumnsOf(l)[c], c, filter.type, filter.value)
<1> DEFINE col == ColumnsOf(l)[c]
           p == IF filter.type \in DOMAIN col.keys THEN col.keys[filter.type] ELSE c
           written == FilterValue(filter.type, col.format)
<1>1. /\ col.kind \in {"text", "multi", "select"} /\ col.booleans = <<>>
      /\ filter.type \in ToSet(col.offers)
  OBVIOUS
<1>2. IF c = "priority"
      THEN p \notin EngineFlags(l, ended) \union {"dueDates", "createTimes"}
                    \union DOMAIN EngineFields(l, ended)
      ELSE Reading(l, ended, p, <<c, filter.type, FormSent(l, col.format, filter.type)>>)
  BY <1>1 DEF Understood
<1> HIDE DEF col
<1>3. TransformFilter(col, c, filter) = {<<p, written, filter.value>>}
  BY <1>1 DEF TransformFilter, ParameterOf
<1>4. Meaning(col, c, filter.type, filter.value) = {<<c, filter.type, filter.value>>}
  BY <1>1 DEF Meaning
<1> HIDE DEF p
<1>5. CASE c = "priority"
  <2>1. \A f : JoinArrays(l, <<p, f, filter.value>>)[1] = p
    BY DEF JoinArrays
  <2>2. Heard(l, ended, <<p, written, filter.value>>) = {}
    <3> DEFINE q == JoinArrays(l, <<p, written, filter.value>>)
    <3>1. q[1] = p
      BY <2>1
    <3> HIDE DEF q
    <3>2. HeardAs(l, ended, q) = {}
      BY <3>1, <1>2, <1>5 DEF HeardAs
    <3> QED BY <3>2 DEF Heard, q
  <2> QED BY <1>3, <1>5, <2>2 DEF col
<1>6. CASE c # "priority"
  <2> DEFINE read == FormSent(l, col.format, filter.type)
  <2>1. JoinArrays(l, <<p, written, filter.value>>) = <<p, read, filter.value>>
    BY DEF JoinArrays, FormSent, FilterValue
  <2>2. Reading(l, ended, p, <<c, filter.type, read>>)
    BY <1>2, <1>6
  <2> HIDE DEF read, written
  <2> DEFINE parameter == <<p, written, filter.value>>
             condition == <<c, filter.type, read>>
  <2>3. /\ parameter[1] = p /\ parameter[3] = filter.value
        /\ condition[1] = c /\ condition[2] = filter.type /\ condition[3] = read
    OBVIOUS
  <2>4. /\ Reading(l, ended, parameter[1], condition)
        /\ JoinArrays(l, parameter) = <<parameter[1], condition[3], parameter[3]>>
    BY <2>1, <2>2
  <2>5. Heard(l, ended, parameter) = {<<c, filter.type, filter.value>>}
    <3> HIDE DEF parameter, condition
    <3> QED BY <2>3, <2>4, ReadingHeard
  <2> QED BY <1>3, <1>4, <1>6, <2>5 DEF col
<1> QED BY <1>5, <1>6

\* An option that becomes a flag is heard as the flag it names, "active" as the flag it denies.
LEMMA OptionHeard ==
  ASSUME NEW l, NEW ended, NEW c, NEW filter,
         LET col == ColumnsOf(l)[c] IN
         /\ col.kind = "select" /\ col.booleans # <<>> /\ filter.value \in col.options,
         Understood(l, ended, c)
  PROVE  UNION {Heard(l, ended, p) : p \in TransformFilter(ColumnsOf(l)[c], c, filter)}
           = Meaning(ColumnsOf(l)[c], c, filter.type, filter.value)
<1> DEFINE col == ColumnsOf(l)[c]
           v == filter.value
<1>1. col.kind = "select" /\ col.booleans # <<>> /\ v \in col.options
  OBVIOUS
<1>2. IF v \in ToSet(col.booleans) THEN v \in EngineFlags(l, ended)
      ELSE v = "active" /\ Head(col.booleans) \in EngineFlags(l, ended)
  BY <1>1 DEF Understood, Flagged
<1> HIDE DEF col
<1>3. TransformFilter(col, c, filter) = {BooleanFilter(col, v)}
  BY <1>1 DEF TransformFilter
<1>4. Meaning(col, c, filter.type, v) = {<<v, "is", "true">>}
  BY <1>1 DEF Meaning
<1> HIDE DEF v
<1>5. Heard(l, ended, BooleanFilter(col, v)) = {<<v, "is", "true">>}
  <2>1. CASE v \in ToSet(col.booleans)
    <3>1. BooleanFilter(col, v) = <<v, Blank, "true">>
      BY <2>1 DEF BooleanFilter
    <3> QED BY <1>2, <2>1, <3>1, FlagHeard
  <2>2. CASE v \notin ToSet(col.booleans)
    <3>1. BooleanFilter(col, v) = <<Head(col.booleans), Blank, "false">>
      BY <2>2 DEF BooleanFilter
    <3> QED BY <1>2, <2>2, <3>1, FlagHeard
  <2> QED BY <2>1, <2>2
<1> QED BY <1>3, <1>4, <1>5 DEF col, v

\* A date is heard as the end or the ends of the period it means.
LEMMA DateHeard ==
  ASSUME NEW l, NEW ended, NEW c, NEW filter,
         ColumnsOf(l)[c].kind = "date", filter.type \in {"inRange", "before", "after"},
         Understood(l, ended, c)
  PROVE  UNION {Heard(l, ended, p) : p \in TransformFilter(ColumnsOf(l)[c], c, filter)}
           = Meaning(ColumnsOf(l)[c], c, filter.type, filter.value)
<1> DEFINE col == ColumnsOf(l)[c]
           type == filter.type
<1>1. PICK b, a :
        /\ col.keys = Ends(b, a)
        /\ IF col.format = "text"
           THEN /\ Reading(l, ended, b, <<c, "before", Blank>>)
                /\ Reading(l, ended, a, <<c, "after", Blank>>)
           ELSE /\ b = "lt" /\ a = "gt" /\ col.format \notin EngineFlags(l, ended)
                /\ \/ col.format = "dueDates" /\ c = "dueDate"
                   \/ col.format = "createTimes" /\ c = "createTime"
  BY DEF Understood
<1> HIDE DEF col
<1>2. col.kind = "date"
  BY DEF col
<1>3. /\ {<<e[1], Blank, e[2]>> : e \in Ends(b, a)["inRange"]}
           = {<<b, Blank, "dateTo">>, <<a, Blank, "dateFrom">>}
      /\ {<<e[1], Blank, e[2]>> : e \in Ends(b, a)["before"]} = {<<b, Blank, "dateFrom">>}
      /\ {<<e[1], Blank, e[2]>> : e \in Ends(b, a)["after"]} = {<<a, Blank, "dateFrom">>}
      /\ {<<col.format, e[1], e[2]>> : e \in Ends(b, a)["inRange"]}
           = {<<col.format, b, "dateTo">>, <<col.format, a, "dateFrom">>}
      /\ {<<col.format, e[1], e[2]>> : e \in Ends(b, a)["before"]} = {<<col.format, b, "dateFrom">>}
      /\ {<<col.format, e[1], e[2]>> : e \in Ends(b, a)["after"]} = {<<col.format, a, "dateFrom">>}
  <2> DEFINE to == <<b, "dateTo">>
             since == <<a, "dateFrom">>
             until == <<b, "dateFrom">>
  <2>1. /\ Ends(b, a)["inRange"] = {to, since}
        /\ Ends(b, a)["before"] = {until} /\ Ends(b, a)["after"] = {since}
    BY Zenon DEF Ends
  <2>2. /\ to[1] = b /\ to[2] = "dateTo" /\ since[1] = a /\ since[2] = "dateFrom"
        /\ until[1] = b /\ until[2] = "dateFrom"
    OBVIOUS
  <2> HIDE DEF to, since, until
  <2> QED BY <2>1, <2>2
<1>4. /\ type = "inRange" => Meaning(col, c, type, filter.value)
                               = {<<c, "after", "dateFrom">>, <<c, "before", "dateTo">>}
      /\ type # "inRange" => Meaning(col, c, type, filter.value) = {<<c, type, "dateFrom">>}
  BY <1>2 DEF Meaning
<1>5. CASE col.format = "text"
  <2>1. \A v : /\ Heard(l, ended, <<b, Blank, v>>) = {<<c, "before", v>>}
               /\ Heard(l, ended, <<a, Blank, v>>) = {<<c, "after", v>>}
    <3> SUFFICES ASSUME NEW v, NEW p, NEW comparator, Reading(l, ended, p, <<c, comparator, Blank>>)
                 PROVE  Heard(l, ended, <<p, Blank, v>>) = {<<c, comparator, v>>}
      BY <1>1, <1>5
    <3> DEFINE parameter == <<p, Blank, v>>
               condition == <<c, comparator, Blank>>
    <3>1. /\ parameter[1] = p /\ parameter[3] = v
          /\ condition[1] = c /\ condition[2] = comparator /\ condition[3] = Blank
      OBVIOUS
    <3>2. /\ Reading(l, ended, parameter[1], condition)
          /\ JoinArrays(l, parameter) = <<parameter[1], condition[3], parameter[3]>>
      BY DEF JoinArrays
    <3> HIDE DEF parameter, condition
    <3>3. Heard(l, ended, parameter) = {<<c, comparator, v>>}
      BY <3>1, <3>2, ReadingHeard
    <3> QED BY <3>3 DEF parameter
  <2>2. CASE type = "inRange"
    <3>1. TransformFilter(col, c, filter) = {<<e[1], Blank, e[2]>> : e \in Ends(b, a)["inRange"]}
      BY <1>1, <1>2, <1>5, <2>2 DEF TransformFilter, DateFilterByComparator
    <3>2. TransformFilter(col, c, filter) = {<<b, Blank, "dateTo">>, <<a, Blank, "dateFrom">>}
      BY <3>1, <1>3
    <3> QED BY <1>4, <2>1, <2>2, <3>2 DEF col
  <2>3. CASE type = "before"
    <3>1. TransformFilter(col, c, filter) = {<<e[1], Blank, e[2]>> : e \in Ends(b, a)["before"]}
      BY <1>1, <1>2, <1>5, <2>3 DEF TransformFilter, DateFilterByComparator
    <3>2. TransformFilter(col, c, filter) = {<<b, Blank, "dateFrom">>}
      BY <3>1, <1>3
    <3> QED BY <1>4, <2>1, <2>3, <3>2 DEF col
  <2>4. CASE type = "after"
    <3>1. TransformFilter(col, c, filter) = {<<e[1], Blank, e[2]>> : e \in Ends(b, a)["after"]}
      BY <1>1, <1>2, <1>5, <2>4 DEF TransformFilter, DateFilterByComparator
    <3>2. TransformFilter(col, c, filter) = {<<a, Blank, "dateFrom">>}
      BY <3>1, <1>3
    <3> QED BY <1>4, <2>1, <2>4, <3>2 DEF col
  <2> QED BY <2>2, <2>3, <2>4
<1>6. CASE col.format # "text"
  <2>1. ASSUME NEW written \in {"lt", "gt"}, NEW v
        PROVE  Heard(l, ended, <<col.format, written, v>>)
                 = {<<c, IF written = "lt" THEN "before" ELSE "after", v>>}
    <3>1. JoinArrays(l, <<col.format, written, v>>) = <<col.format, written, v>>
      BY DEF JoinArrays
    <3>2. HeardAs(l, ended, <<col.format, written, v>>)
            = {<<c, IF written = "lt" THEN "before" ELSE "after", v>>}
      BY <1>1, <1>6 DEF HeardAs
    <3> QED BY <3>1, <3>2 DEF Heard
  <2>2. \A v : /\ Heard(l, ended, <<col.format, b, v>>) = {<<c, "before", v>>}
               /\ Heard(l, ended, <<col.format, a, v>>) = {<<c, "after", v>>}
    BY <1>1, <1>6, <2>1
  <2>3. CASE type = "inRange"
    <3>1. TransformFilter(col, c,
                          filter) = {<<col.format, e[1], e[2]>> : e \in Ends(b, a)["inRange"]}
      BY <1>1, <1>2, <1>6, <2>3 DEF TransformFilter, DateArrayFilter
    <3>2. TransformFilter(col, c, filter)
            = {<<col.format, b, "dateTo">>, <<col.format, a, "dateFrom">>}
      BY <3>1, <1>3
    <3> QED BY <1>4, <2>2, <2>3, <3>2 DEF col
  <2>4. CASE type = "before"
    <3>1. TransformFilter(col, c,
                          filter) = {<<col.format, e[1], e[2]>> : e \in Ends(b, a)["before"]}
      BY <1>1, <1>2, <1>6, <2>4 DEF TransformFilter, DateArrayFilter
    <3>2. TransformFilter(col, c, filter) = {<<col.format, b, "dateFrom">>}
      BY <3>1, <1>3
    <3> QED BY <1>4, <2>2, <2>4, <3>2 DEF col
  <2>5. CASE type = "after"
    <3>1. TransformFilter(col, c, filter) = {<<col.format, e[1], e[2]>> : e \in Ends(b, a)["after"]}
      BY <1>1, <1>2, <1>6, <2>5 DEF TransformFilter, DateArrayFilter
    <3>2. TransformFilter(col, c, filter) = {<<col.format, a, "dateFrom">>}
      BY <3>1, <1>3
    <3> QED BY <1>4, <2>2, <2>5, <3>2 DEF col
  <2> QED BY <2>3, <2>4, <2>5
<1> QED BY <1>5, <1>6

\* A toggle is heard as the flag it names.
LEMMA ToggleHeard ==
  ASSUME NEW l \in Lists, NEW t \in DOMAIN TogglesOf(l), NEW ended \in BOOLEAN
  PROVE  Heard(l, ended, ToggleParameter(t)) = {<<t, "is", "true">>}
<1>1. t \in EngineFlags(l, FALSE) /\ l # "batch"
  BY AllTogglesFit DEF TogglesFit
<1>2. EngineFlags(l, ended) = EngineFlags(l, FALSE)
  BY <1>1 DEF EngineFlags
<1> QED BY <1>1, <1>2, FlagHeard DEF ToggleParameter

\* The filter of a column is heard as it is meant, but for the priority of jobs.
LEMMA FilterHeard ==
  ASSUME NEW l \in Lists, NEW ended \in BOOLEAN, NEW c, NEW filter,
         FilterSound(l, c, filter), Understood(l, ended, c)
  PROVE  UNION {Heard(l, ended, p) : p \in TransformFilter(ColumnsOf(l)[c], c, filter)}
           = IF c = "priority" THEN {} ELSE Meaning(ColumnsOf(l)[c], c, filter.type, filter.value)
<1> DEFINE col == ColumnsOf(l)[c]
<1>1. /\ c \in DOMAIN ColumnsOf(l) /\ filter.type \in ToSet(col.offers)
      /\ col.booleans # <<>> => filter.value \in col.options
  BY DEF FilterSound
<1>2. Offering(col)
  BY <1>1, ColumnsFit DEF FitsTable, Behaved
<1>3. c = "priority" => col.kind = "text" /\ col.booleans = <<>>
  BY <1>1, PriorityIsText
<1> HIDE DEF col
<1>4. col.kind # "none"
  <2>1. ToSet(<<>>) = {}
    BY Offered
  <2> QED BY <1>1, <1>2, <2>1 DEF Offering
<1>5. CASE col.booleans # <<>>
  BY <1>1, <1>2, <1>3, <1>5, OptionHeard DEF Offering, col
<1>6. CASE col.kind = "date"
  BY <1>1, <1>2, <1>3, <1>6, DateHeard DEF Offering, col
<1>7. CASE col.kind \in {"text", "multi", "select"} /\ col.booleans = <<>>
  BY <1>1, <1>7, PlainHeard DEF col
<1> QED BY <1>2, <1>4, <1>5, <1>6, <1>7 DEF Offering

-----------------------------------------------------------------------------
(***************************************************************************)
(* Requests of lists: every step keeps the invariant.                      *)
(***************************************************************************)

\* Columns of the list behave.
LEMMA ColumnsBehave ==
  ASSUME list \in Lists, NEW c \in DOMAIN ColumnsOf(list)
  PROVE  /\ Offering(Col(c)) /\ Mutual(list, c, Col(c).disabledBy, Col(c).disabledByToggles)
         /\ Col(c).kind # "date" /\ list = "batch" => Len(Col(c).offers) <= 1
         /\ Col(c).kind = "date" => Col(c).disabledBy = {} /\ Col(c).disabledByToggles = {}
BY ColumnsFit DEF FitsTable, Behaved, Col

\* Which floating filters can be set to a comparator
HasRadio(c) ==
  c \in DOMAIN ColumnsOf(list) /\ Len(Col(c).offers) > 1 /\ Col(c).kind # "date"

\* The comparators the floating filters are set to at first are the first that each offers.
LEMMA RadiosFirst ==
  ASSUME list \in Lists
  PROVE  /\ \A c : c \in DOMAIN FirstComparators(list) <=> HasRadio(c)
         /\ \A c \in DOMAIN FirstComparators(list) :
              FirstComparators(list)[c] \in ToSet(Col(c).offers)
<1>1. \A c : c \in DOMAIN FirstComparators(list) <=> HasRadio(c)
  BY DEF FirstComparators, HasRadio, Col
<1>2. \A c \in DOMAIN FirstComparators(list) : FirstComparators(list)[c] = Head(Col(c).offers)
  BY DEF FirstComparators, Col
<1>3. ASSUME NEW c, HasRadio(c) PROVE Head(Col(c).offers) \in ToSet(Col(c).offers)
  <2>1. Offering(Col(c)) /\ Len(Col(c).offers) > 1 /\ Col(c).kind # "date"
    BY <1>3, ColumnsBehave DEF HasRadio
  <2>2. Len(<<>>) = 0
    BY Offered
  <2>3. Col(c).kind # "none"
    BY <2>1, <2>2 DEF Offering
  <2> QED BY <2>1, <2>3 DEF Offering
<1> QED BY <1>1, <1>2, <1>3

\* What a floating filter is set to, it offers; it is the only one where there is no choice.
LEMMA SettingOffered ==
  ASSUME QueryShape, FiltersSet, NEW c \in DOMAIN ColumnsOf(list), Col(c).kind \notin {"none", "date"}
  PROVE  /\ Setting(c) \in ToSet(Col(c).offers)
         /\ c \notin DOMAIN radio => ToSet(Col(c).offers) = {Head(Col(c).offers)}
<1>1. list \in Lists
  BY DEF QueryShape
<1>2. Offering(Col(c))
  BY <1>1, ColumnsBehave
<1>3. Head(Col(c).offers) \in ToSet(Col(c).offers)
  BY <1>2 DEF Offering
<1>4. c \in DOMAIN radio => radio[c] \in ToSet(Col(c).offers)
  BY DEF FiltersSet
<1>5. c \notin DOMAIN radio => ToSet(Col(c).offers) = {Head(Col(c).offers)}
  <2>1. c \notin DOMAIN radio => ~ HasRadio(c)
    BY <1>1, RadiosFirst DEF FiltersSet
  <2>2. ~ HasRadio(c) => ~ (Len(Col(c).offers) > 1)
    BY DEF HasRadio
  <2> QED BY <1>2, <2>1, <2>2 DEF Offering
<1> QED BY <1>3, <1>4, <1>5 DEF Setting

\* Where there is a comparator to choose there is a filter.
LEMMA RadiosAreFilters ==
  ASSUME QueryShape, FiltersSet, NEW c \in DOMAIN radio
  PROVE  /\ c \in FilterNames /\ c \in DOMAIN ColumnsOf(list)
         /\ Col(c).kind \in {"text", "multi"}
<1>1. list \in Lists /\ (completed => list = "batch")
  BY DEF QueryShape
<1>2. HasRadio(c)
  BY <1>1, RadiosFirst DEF FiltersSet
<1>3. c \in DOMAIN ColumnsOf(list) /\ Len(Col(c).offers) > 1 /\ Col(c).kind # "date"
  BY <1>2 DEF HasRadio
<1>4. list # "batch" /\ Offering(Col(c))
  <2>1. Offering(Col(c)) /\ (list = "batch" => Len(Col(c).offers) <= 1)
    BY <1>1, <1>3, ColumnsBehave
  <2>2. Len(Col(c).offers) \in Int => ~ (Len(Col(c).offers) > 1 /\ Len(Col(c).offers) <= 1)
    OBVIOUS
  <2> QED BY <1>3, <2>1, <2>2
<1>5. c \in FilterNames
  BY <1>1, <1>3, <1>4 DEF FilterNames, ColumnNames
<1>6. Col(c).kind \in {"text", "multi"}
  <2>1. Len(<<>>) = 0 /\ Len(<<"equals">>) = 1
    BY Offered
  <2>2. ~ (0 > 1) /\ ~ (1 > 1)
    OBVIOUS
  <2>3. Col(c).offers # <<>> /\ Col(c).offers # <<"equals">>
    BY <1>3, <2>1, <2>2, Zenon
  <2> QED BY <1>3, <1>4, <2>3 DEF Offering
<1> QED BY <1>3, <1>5, <1>6

\* A step of a filter: what it keeps, and the parts of the invariant that depend on the filters.
LEMMA FilterByKeeps ==
  ASSUME ListQueryInv, ~switching, NEW c \in FilterNames, NEW type, NEW value, FilterBy(c, type, value),
         UNCHANGED <<list, completed, switching>>,
         value # Blank => /\ type \in ToSet(Col(c).offers)
                          /\ Col(c).booleans # <<>> => value \in Col(c).options
                          /\ Col(c).kind # "date" => type = Setting(c)',
         slipped => slipped', IsDisabled(c) /\ value # Blank => slipped',
         \A d \in DOMAIN chosen : d # c => Setting(d)' = Setting(d),
         DOMAIN unsettled \ {c} \subseteq DOMAIN unsettled'
  PROVE  /\ ChosenSound' /\ ChosenAsSet' /\ ChosenTogether' /\ AskedForThis'
         /\ UNCHANGED <<toggled, sortedBy>>
<1>1. /\ toggled' = toggled /\ sortedBy' = sortedBy /\ restored' = restored \ {c}
      /\ chosen' = IF value = Blank THEN WithoutFilter(c) ELSE WithFilter(c, type, value)
      /\ asked' = RequestFor(list, chosen', toggled', sortedBy')
      /\ list' = list /\ completed' = completed /\ switching' = switching
  BY DEF FilterBy, Ask
<1>2. list \in Lists /\ c \in DOMAIN ColumnsOf(list)
  BY FiltersAreColumns DEF ListQueryInv, QueryShape
<1>3. \A d \in DOMAIN chosen' :
        \/ d = c /\ value # Blank /\ chosen'[d].type = type /\ chosen'[d].value = value
        \/ d # c /\ d \in DOMAIN chosen /\ chosen'[d] = chosen[d]
  <2>1. CASE value = Blank
    BY <1>1, <2>1 DEF WithoutFilter, Restrict
  <2>2. CASE value # Blank
    BY <1>1, <2>2 DEF WithFilter, ++
  <2> QED BY <2>1, <2>2
<1>4. ChosenSound'
  <2>1. ASSUME NEW d \in DOMAIN chosen' PROVE FilterSound(list, d, chosen'[d])
    <3>1. CASE d = c
      BY <1>2, <1>3, <3>1 DEF FilterSound, Col
    <3>2. CASE d # c
      BY <1>3, <3>2 DEF ListQueryInv, ChosenSound
    <3> QED BY <3>1, <3>2
  <2>2. ASSUME completed PROVE DOMAIN chosen' \subseteq {"batchId", "type"}
    BY <1>3, <2>2 DEF ListQueryInv, ChosenSound, FilterNames
  <2> QED BY <1>1, <2>1, <2>2 DEF ChosenSound
<1>5. ChosenAsSet'
  <2>1. SUFFICES ASSUME NEW d \in DOMAIN chosen', Col(d).kind # "date",
                        d \notin restored' \union DOMAIN unsettled'
                 PROVE  chosen'[d].type = Setting(d)'
    BY <1>1 DEF ChosenAsSet, Col
  <2>2. CASE d = c
    BY <1>3, <2>1, <2>2
  <2>3. CASE d # c
    <3>1. d \notin restored \union DOMAIN unsettled
      BY <1>1, <2>1, <2>3
    <3>2. chosen[d].type = Setting(d)
      BY <1>3, <2>1, <2>3, <3>1 DEF ListQueryInv, ChosenAsSet
    <3> QED BY <1>3, <2>3, <3>2
  <2> QED BY <2>2, <2>3
<1>6. ChosenTogether'
  <2>1. SUFFICES ASSUME ~ slipped', NEW d \in DOMAIN chosen' PROVE ~ IsDisabled(d)'
    BY DEF ChosenTogether
  <2>2. /\ \A e \in DOMAIN chosen : ~ IsDisabled(e)
        /\ value # Blank => ~ IsDisabled(c)
    BY <2>1 DEF ListQueryInv, ChosenTogether
  <2>3. ~ IsDisabled(d)
    BY <1>3, <2>2
  <2>4. d \in DOMAIN ColumnsOf(list)
    BY <1>2, <1>3 DEF ListQueryInv, ChosenSound, FilterSound
  <2>5. Mutual(list, d, Col(d).disabledBy, Col(d).disabledByToggles)
    BY <1>2, <2>4, ColumnsBehave
  <2>6. Col(d).disabledBy \intersect DOMAIN chosen' = {}
    <3>1. SUFFICES ASSUME NEW e \in Col(d).disabledBy, e \in DOMAIN chosen' PROVE FALSE
      OBVIOUS
    <3>2. e \notin DOMAIN chosen
      BY <2>3 DEF IsDisabled
    <3>3. e = c /\ value # Blank
      BY <1>3, <3>1, <3>2
    <3>4. d # c
      BY <2>5, <3>3 DEF Mutual
    <3>5. d \in DOMAIN chosen /\ d \in Col(c).disabledBy
      BY <1>2, <1>3, <2>5, <3>3, <3>4 DEF Mutual, Col
    <3> QED BY <2>2, <3>3, <3>5 DEF IsDisabled
  <2>7. Col(d).disabledByToggles \intersect toggled' = {}
    BY <1>1, <2>3 DEF IsDisabled
  <2> QED BY <1>1, <2>6, <2>7 DEF IsDisabled, Col
<1>7. AskedForThis'
  BY <1>1 DEF AskedForThis
<1> QED BY <1>1, <1>4, <1>5, <1>6, <1>7

\* The parts about the lists and the floating filters stay where neither those nor the list move.
LEMMA ShapeStays ==
  ASSUME QueryShape, FiltersSet,
         UNCHANGED <<list, completed, toggled, sortedBy, switching>>, slipped' \in BOOLEAN,
         DOMAIN unsettled' \subseteq DOMAIN unsettled, switching => unsettled' = <<>>,
         DOMAIN radio' = DOMAIN radio, \A c \in DOMAIN radio : radio'[c] \in ToSet(Col(c).offers)
  PROVE  QueryShape' /\ FiltersSet'
<1>1. QueryShape'
  BY DEF QueryShape, Col
<1>2. \A c \in DOMAIN unsettled' : c \in FilterNames /\ Col(c).kind = "text"
  BY DEF FiltersSet
<1>3. FilterNames' = FilterNames /\ FirstComparators(list') = FirstComparators(list)
  BY DEF FilterNames, ColumnNames
<1>4. FiltersSet'
  BY <1>2, <1>3 DEF FiltersSet, Col
<1> QED BY <1>1, <1>4

\* The defaults are filters that are in force together.
LEMMA DefaultsSound ==
  ASSUME list \in Lists, completed => list = "batch"
  PROVE  /\ \A c \in DOMAIN DefaultFiltersOf(list) :
              FilterSound(list, c, DefaultFiltersOf(list)[c])
              /\ Col(c).disabledBy = {} /\ Col(c).disabledByToggles = {}
         /\ completed => DOMAIN DefaultFiltersOf(list) = {}
         /\ DefaultTogglesOf(list) \subseteq DOMAIN TogglesOf(list)
         /\ DefaultSortingOf(list) \in DOMAIN ColumnsOf(list)
         /\ Col(DefaultSortingOf(list)).sort # Absent
<1>1. DefaultsFit(list)
  BY AllDefaultsFit
<1>2. Absent \notin KeysOfSorts(list, FALSE)
  BY AbsentIsNoKey DEF KeysOfSorts
<1>3. DOMAIN <<>> = {}
  OBVIOUS
<1> QED BY <1>1, <1>2, <1>3 DEF DefaultsFit, Col

\* The invariant holds at first.
LEMMA ListQueryStarts == ListQueryInit => ListQueryInv
<1> SUFFICES ASSUME ListQueryInit PROVE ListQueryInv
  OBVIOUS
<1>1. /\ list \in Lists /\ completed = FALSE /\ unsettled = <<>> /\ switching = FALSE
      /\ chosen = DefaultFiltersOf(list) /\ toggled = DefaultTogglesOf(list)
      /\ sortedBy = DefaultSortingOf(list) /\ radio = FirstComparators(list)
      /\ asked = Absent /\ restored = DOMAIN chosen /\ slipped = FALSE
  BY DEF ListQueryInit
<1>2. DOMAIN <<>> = {}
  OBVIOUS
<1>3. QueryShape
  BY <1>1, DefaultsSound DEF QueryShape
<1>4. FiltersSet
  BY <1>1, <1>2, RadiosFirst DEF FiltersSet
<1>5. ChosenSound
  BY <1>1, DefaultsSound DEF ChosenSound
<1>6. ChosenAsSet
  BY <1>1 DEF ChosenAsSet
<1>7. ChosenTogether
  BY <1>1, DefaultsSound DEF ChosenTogether, IsDisabled
<1>8. AskedForThis
  BY <1>1 DEF AskedForThis
<1> QED BY <1>3, <1>4, <1>5, <1>6, <1>7, <1>8 DEF ListQueryInv

\* Every step of the floating filters keeps it.
LEMMA FiltersKeepListQuery ==
  ASSUME ListQueryInv,
         TextSettles \/ ClearText \/ ChooseComparator \/ PickItems \/ PickOption \/ PickDates
  PROVE  ListQueryInv'
<1>0. /\ QueryShape /\ FiltersSet /\ ChosenSound /\ ChosenAsSet /\ ChosenTogether /\ AskedForThis
      /\ list \in Lists /\ slipped \in BOOLEAN
  BY DEF ListQueryInv, QueryShape
<1>a. FilterNames \subseteq DOMAIN ColumnsOf(list)
  BY <1>0, FiltersAreColumns DEF QueryShape
<1>b. DOMAIN <<>> = {}
  OBVIOUS
<1>c. \A c : DOMAIN Drop(c) = DOMAIN unsettled \ {c}
  BY DEF Drop, Restrict
<1>d. ASSUME NEW c \in FilterNames
      PROVE  /\ Offering(Col(c))
             /\ Col(c).kind = "date" => Col(c).disabledBy = {} /\ Col(c).disabledByToggles = {}
  BY <1>0, <1>a, ColumnsBehave
<1>1. CASE TextSettles
  <2>1. PICK c \in DOMAIN unsettled :
          /\ FilterBy(c, Setting(c), unsettled[c]) /\ unsettled' = Drop(c)
          /\ slipped' = (slipped \/ (IsDisabled(c) /\ unsettled[c] # Blank))
    BY <1>1 DEF TextSettles
  <2>2. UNCHANGED <<events, list, completed, radio, switching>>
    BY <1>1 DEF TextSettles
  <2>3. ~ switching /\ c \in FilterNames /\ Col(c).kind = "text"
    BY <1>0, <1>b DEF QueryShape, FiltersSet
  <2>4. \A d : Setting(d)' = Setting(d)
    BY <2>2 DEF Setting, Col
  <2>5. Setting(c) \in ToSet(Col(c).offers)
    BY <1>0, <1>a, <2>3, SettingOffered
  <2>6. Col(c).booleans = <<>>
    BY <1>d, <2>3 DEF Offering
  <2>7. /\ ChosenSound'
        /\ ChosenAsSet'
        /\ ChosenTogether'
        /\ AskedForThis'
        /\ UNCHANGED <<toggled, sortedBy>>
    BY <1>c, <2>1, <2>2, <2>3, <2>4, <2>5, <2>6, FilterByKeeps
  <2>8. QueryShape' /\ FiltersSet'
    BY <1>0, <1>c, <2>1, <2>2, <2>3, <2>7, ShapeStays DEF FiltersSet
  <2> QED BY <2>7, <2>8 DEF ListQueryInv
<1>2. CASE ClearText
  <2>1. PICK c \in FilterNames : FilterBy(c, Setting(c), Blank) /\ unsettled' = Drop(c)
    BY <1>2 DEF ClearText
  <2>2. UNCHANGED <<list, completed, radio, switching, slipped>> /\ ~ switching
    BY <1>2 DEF ClearText, UserActs
  <2>3. \A d : Setting(d)' = Setting(d)
    BY <2>2 DEF Setting, Col
  <2>4. /\ ChosenSound'
        /\ ChosenAsSet'
        /\ ChosenTogether'
        /\ AskedForThis'
        /\ UNCHANGED <<toggled, sortedBy>>
    BY <1>c, <2>1, <2>2, <2>3, FilterByKeeps
  <2>5. QueryShape' /\ FiltersSet'
    BY <1>0, <1>c, <2>1, <2>2, <2>4, ShapeStays DEF FiltersSet
  <2> QED BY <2>4, <2>5 DEF ListQueryInv
<1>3. CASE ChooseComparator
  <2>1. PICK c \in DOMAIN radio : \E type \in ToSet(Col(c).offers) \ {radio[c]} :
          /\ ~IsDisabled(c) /\ radio' = [radio EXCEPT ![c] = type]
          /\ IF TextShown(c) = Blank THEN UNCHANGED <<chosen, toggled, sortedBy, asked, restored,
                                                      unsettled>>
             ELSE /\ unsettled' = Drop(c)
                  /\ FilterBy(c, type,
                              IF Col(c).kind = "multi" /\ type # "multi" THEN "a" ELSE TextShown(c))
    BY <1>3 DEF ChooseComparator
  <2>2. PICK type \in ToSet(Col(c).offers) :
          /\ ~IsDisabled(c) /\ radio' = [radio EXCEPT ![c] = type]
          /\ IF TextShown(c) = Blank THEN UNCHANGED <<chosen, toggled, sortedBy, asked, restored,
                                                      unsettled>>
             ELSE /\ unsettled' = Drop(c)
                  /\ FilterBy(c, type,
                              IF Col(c).kind = "multi" /\ type # "multi" THEN "a" ELSE TextShown(c))
    BY <2>1
  <2>3. UNCHANGED <<list, completed, switching, slipped>> /\ ~ switching
    BY <1>3 DEF ChooseComparator, UserActs
  <2>4. c \in FilterNames /\ c \in DOMAIN ColumnsOf(list) /\ Col(c).kind \in {"text", "multi"}
    BY <1>0, RadiosAreFilters
  <2>5. Col(c).booleans = <<>>
    BY <1>d, <2>4 DEF Offering
  <2>6. /\ DOMAIN radio' = DOMAIN radio /\ radio'[c] = type
        /\ \A d \in DOMAIN radio : d # c => radio'[d] = radio[d]
    BY <2>2
  <2>7. /\ \A d : d # c => Setting(d)' = Setting(d)
        /\ Setting(c)' = type
    BY <2>3, <2>6 DEF Setting, Col
  <2>8. \A d \in DOMAIN radio : radio'[d] \in ToSet(Col(d).offers)
    BY <1>0, <2>6 DEF FiltersSet
  <2>9. CASE TextShown(c) = Blank
    <3>1. UNCHANGED <<chosen, toggled, sortedBy, asked, restored, unsettled>>
      BY <2>2, <2>9
    <3>2. QueryShape' /\ FiltersSet'
      BY <1>0, <2>3, <2>6, <2>8, <3>1, ShapeStays
    <3>3. c \in DOMAIN chosen => c \in DOMAIN unsettled
      BY <1>0, <2>9 DEF TextShown, ChosenSound, FilterSound
    <3>4. ChosenAsSet'
      <4>1. SUFFICES ASSUME NEW d \in DOMAIN chosen, Col(d).kind # "date",
                            d \notin restored \union DOMAIN unsettled
                     PROVE  chosen[d].type = Setting(d)'
        BY <2>3, <3>1 DEF ChosenAsSet, Col
      <4>2. d # c
        BY <3>3, <4>1
      <4> QED BY <1>0, <2>3, <2>7, <4>1, <4>2 DEF ChosenAsSet
    <3>5. ChosenSound' /\ ChosenTogether' /\ AskedForThis'
      BY <1>0, <2>3, <3>1 DEF ChosenSound, ChosenTogether, AskedForThis, IsDisabled, Col
    <3> QED BY <3>2, <3>4, <3>5 DEF ListQueryInv
  <2>10. CASE TextShown(c) # Blank
    <3> DEFINE value == IF Col(c).kind = "multi" /\ type # "multi" THEN "a" ELSE TextShown(c)
    <3>1. unsettled' = Drop(c) /\ FilterBy(c, type, value)
      BY <2>2, <2>10
    <3> HIDE DEF value
    <3>2. /\ ChosenSound'
          /\ ChosenAsSet'
          /\ ChosenTogether'
          /\ AskedForThis'
          /\ UNCHANGED <<toggled, sortedBy>>
      BY <1>c, <2>2, <2>3, <2>4, <2>5, <2>7, <3>1, FilterByKeeps
    <3>3. QueryShape' /\ FiltersSet'
      BY <1>0, <1>c, <2>3, <2>6, <2>8, <3>1, <3>2, ShapeStays
    <3> QED BY <3>2, <3>3 DEF ListQueryInv
  <2> QED BY <2>9, <2>10
<1>4. CASE PickItems
  <2>1. PICK c \in FilterNames, items \in {"a", "a,b", Blank} :
          /\ Col(c).kind = "multi" /\ ~IsDisabled(c) /\ items # TextShown(c)
          /\ LET type == IF items = "a,b" THEN "multi" ELSE Setting(c) IN
               /\ FilterBy(c, type, items)
               /\ radio' = [d \in DOMAIN radio |-> IF d = c THEN type ELSE radio[d]]
    BY <1>4 DEF PickItems
  <2> DEFINE type == IF items = "a,b" THEN "multi" ELSE Setting(c)
  <2>2. UNCHANGED <<list, completed, unsettled, switching, slipped>> /\ ~ switching
    BY <1>4 DEF PickItems, UserActs
  <2>3. /\ Setting(c) \in ToSet(Col(c).offers)
        /\ c \notin DOMAIN radio => ToSet(Col(c).offers) = {Head(Col(c).offers)}
    BY <1>0, <1>a, <2>1, SettingOffered
  <2>4. Col(c).booleans = <<>> /\ "multi" \in ToSet(Col(c).offers)
    BY <1>d, <2>1 DEF Offering
  <2>5. type \in ToSet(Col(c).offers)
    BY <2>3, <2>4
  <2>6. /\ FilterBy(c, type, items)
        /\ radio' = [d \in DOMAIN radio |-> IF d = c THEN type ELSE radio[d]]
    BY <2>1
  <2> HIDE DEF type
  <2>7. /\ DOMAIN radio' = DOMAIN radio /\ (c \in DOMAIN radio => radio'[c] = type)
        /\ \A d \in DOMAIN radio : d # c => radio'[d] = radio[d]
    BY <2>6
  <2>8. /\ \A d : d # c => Setting(d)' = Setting(d)
        /\ Setting(c)' = type
    BY <2>2, <2>3, <2>5, <2>7 DEF Setting, Col
  <2>9. \A d \in DOMAIN radio : radio'[d] \in ToSet(Col(d).offers)
    BY <1>0, <2>5, <2>7 DEF FiltersSet
  <2>10. /\ ChosenSound'
         /\ ChosenAsSet'
         /\ ChosenTogether'
         /\ AskedForThis'
         /\ UNCHANGED <<toggled, sortedBy>>
    BY <2>1, <2>2, <2>4, <2>5, <2>6, <2>8, FilterByKeeps
  <2>11. QueryShape' /\ FiltersSet'
    BY <1>0, <2>2, <2>7, <2>9, <2>10, ShapeStays
  <2> QED BY <2>10, <2>11 DEF ListQueryInv
<1>5. CASE PickOption
  <2>0. PICK c \in FilterNames : \E option \in Col(c).options \union {Blank} :
          /\ Col(c).kind = "select" /\ ~IsDisabled(c) /\ FilterBy(c, "equals", option)
    BY <1>5 DEF PickOption
  <2>1. PICK option \in Col(c).options \union {Blank} :
          Col(c).kind = "select" /\ ~IsDisabled(c) /\ FilterBy(c, "equals", option)
    BY <2>0
  <2>2. UNCHANGED <<list, completed, radio, unsettled, switching, slipped>> /\ ~ switching
    BY <1>5 DEF PickOption, UserActs
  <2>3. Col(c).offers = <<"equals">>
    BY <1>d, <2>1 DEF Offering
  <2>4. ToSet(Col(c).offers) = {"equals"}
    BY <2>3, Offered
  <2>5. Setting(c) = "equals"
    BY <1>0, <1>a, <2>1, <2>4, SettingOffered
  <2>6. \A d : Setting(d)' = Setting(d)
    BY <2>2 DEF Setting, Col
  <2>7. /\ ChosenSound'
        /\ ChosenAsSet'
        /\ ChosenTogether'
        /\ AskedForThis'
        /\ UNCHANGED <<toggled, sortedBy>>
    BY <2>1, <2>2, <2>4, <2>5, <2>6, FilterByKeeps
  <2>8. QueryShape' /\ FiltersSet'
    BY <1>0, <2>2, <2>7, ShapeStays DEF FiltersSet
  <2> QED BY <2>7, <2>8 DEF ListQueryInv
<1>6. CASE PickDates
  <2>0. PICK c \in FilterNames :
          \E type \in ToSet(Col(c).offers), date \in {"date", Blank} :
            Col(c).kind = "date" /\ FilterBy(c, type, date)
    BY <1>6 DEF PickDates
  <2>1. PICK type \in ToSet(Col(c).offers), date \in {"date", Blank} :
          Col(c).kind = "date" /\ FilterBy(c, type, date)
    BY <2>0
  <2>2. UNCHANGED <<list, completed, radio, unsettled, switching, slipped>> /\ ~ switching
    BY <1>6 DEF PickDates, UserActs
  <2>3. Col(c).booleans = <<>> /\ ~ IsDisabled(c)
    BY <1>d, <2>1 DEF Offering, IsDisabled
  <2>4. \A d : Setting(d)' = Setting(d)
    BY <2>2 DEF Setting, Col
  <2>5. /\ ChosenSound'
        /\ ChosenAsSet'
        /\ ChosenTogether'
        /\ AskedForThis'
        /\ UNCHANGED <<toggled, sortedBy>>
    BY <2>1, <2>2, <2>3, <2>4, FilterByKeeps
  <2>6. QueryShape' /\ FiltersSet'
    BY <1>0, <2>2, <2>5, ShapeStays DEF FiltersSet
  <2> QED BY <2>5, <2>6 DEF ListQueryInv
<1> QED BY <1>1, <1>2, <1>3, <1>4, <1>5, <1>6

\* Every other step keeps it.
LEMMA PageKeepsListQuery ==
  ASSUME ListQueryInv,
         \/ LoadList \/ TypeText \/ SelectToggleFilter \/ SelectHeaderSort \/ SwitchBatches
         \/ BatchesSwitched \/ ResetList \/ OpenListAgain \/ UNCHANGED listQueryVars
  PROVE  ListQueryInv'
<1>0. /\ QueryShape /\ FiltersSet /\ ChosenSound /\ ChosenAsSet /\ ChosenTogether /\ AskedForThis
      /\ list \in Lists /\ slipped \in BOOLEAN /\ completed \in BOOLEAN
      /\ (completed \/ switching => list = "batch") /\ (switching => unsettled = <<>>)
  BY DEF ListQueryInv, QueryShape
<1>a. FilterNames \subseteq DOMAIN ColumnsOf(list) /\ ColumnNames \subseteq DOMAIN ColumnsOf(list)
  BY <1>0, FiltersAreColumns
<1>b. DOMAIN <<>> = {}
  OBVIOUS
<1>c. \A c \in DOMAIN radio : radio[c] \in ToSet(Col(c).offers)
  BY <1>0 DEF FiltersSet
<1>1. CASE UNCHANGED listQueryVars
  <2>1. UNCHANGED <<list, completed, chosen, toggled, sortedBy, radio, unsettled, switching, asked,
                    restored, slipped>>
    BY <1>1 DEF listQueryVars
  <2>2. QueryShape' /\ FiltersSet'
    BY <1>0, <1>c, <2>1, ShapeStays
  <2>3. ChosenSound' /\ ChosenAsSet' /\ ChosenTogether' /\ AskedForThis'
    BY <1>0, <2>1 DEF ChosenSound, ChosenAsSet, ChosenTogether, AskedForThis, IsDisabled, Setting,
         Col
  <2> QED BY <2>2, <2>3 DEF ListQueryInv
<1>2. CASE LoadList
  <2>1. /\ asked' = RequestFor(list, chosen, toggled, sortedBy)
        /\ UNCHANGED <<list, completed, chosen, toggled, sortedBy, radio, unsettled, switching,
                       restored, slipped>>
    BY <1>2 DEF LoadList
  <2>2. QueryShape' /\ FiltersSet'
    BY <1>0, <1>c, <2>1, ShapeStays
  <2>3. ChosenSound' /\ ChosenAsSet' /\ ChosenTogether' /\ AskedForThis'
    BY <1>0, <2>1 DEF ChosenSound, ChosenAsSet, ChosenTogether, AskedForThis, IsDisabled, Setting,
         Col
  <2> QED BY <2>2, <2>3 DEF ListQueryInv
<1>3. CASE TypeText
  <2>1. PICK c \in FilterNames, typedText \in {"text", Blank} :
          Col(c).kind = "text" /\ unsettled' = [d \in {c} |-> typedText] ++ unsettled
    BY <1>3 DEF TypeText
  <2>2. /\ UNCHANGED <<list, completed, chosen, toggled, sortedBy, radio, switching, asked,
                       restored,
                       slipped>>
        /\ ~ switching
    BY <1>3 DEF TypeText, UserActs
  <2>3. DOMAIN unsettled' = DOMAIN unsettled \union {c}
    BY <2>1 DEF ++
  <2>4. QueryShape'
    BY <1>0, <2>2 DEF QueryShape, Col
  <2>5. FiltersSet'
    <3>1. \A d \in DOMAIN unsettled' : d \in FilterNames /\ Col(d).kind = "text"
      BY <1>0, <2>1, <2>3 DEF FiltersSet
    <3>2. FilterNames' = FilterNames
      BY <2>2 DEF FilterNames, ColumnNames
    <3> QED BY <1>0, <2>2, <3>1, <3>2 DEF FiltersSet, Col
  <2>6. ChosenSound' /\ ChosenTogether' /\ AskedForThis'
    BY <1>0, <2>2 DEF ChosenSound, ChosenTogether, AskedForThis, IsDisabled, Col
  <2>7. ChosenAsSet'
    <3>1. \A d : d \notin restored' \union DOMAIN unsettled' =>
                   d \notin restored \union DOMAIN unsettled
      BY <2>2, <2>3
    <3> QED BY <1>0, <2>2, <3>1 DEF ChosenAsSet, Setting, Col
  <2> QED BY <2>4, <2>5, <2>6, <2>7 DEF ListQueryInv
<1>4. CASE SelectToggleFilter
  <2>1. PICK t \in DOMAIN TogglesOf(list) :
          /\ TogglesOf(list)[t] \intersect DOMAIN chosen = {}
          /\ Ask(chosen, (toggled \union {t}) \ (toggled \intersect {t}), sortedBy)
    BY <1>4 DEF SelectToggleFilter
  <2>2. /\ chosen' = chosen /\ sortedBy' = sortedBy
        /\ toggled' \subseteq toggled \union {t}
        /\ asked' = RequestFor(list, chosen, toggled', sortedBy)
        /\ UNCHANGED <<list, completed, radio, unsettled, switching, restored, slipped>>
    BY <1>4, <2>1 DEF SelectToggleFilter, Ask
  <2>3. QueryShape'
    BY <1>0, <2>2 DEF QueryShape, Col
  <2>4. FiltersSet'
    <3>1. FilterNames' = FilterNames
      BY <2>2 DEF FilterNames, ColumnNames
    <3> QED BY <1>0, <2>2, <3>1 DEF FiltersSet, Col
  <2>5. ChosenSound' /\ ChosenAsSet' /\ AskedForThis'
    BY <1>0, <2>2 DEF ChosenSound, ChosenAsSet, AskedForThis, Setting, Col
  <2>6. ChosenTogether'
    <3>1. SUFFICES ASSUME ~ slipped, NEW c \in DOMAIN chosen PROVE ~ IsDisabled(c)'
      BY <2>2 DEF ChosenTogether
    <3>2. c \in DOMAIN ColumnsOf(list) /\ ~ IsDisabled(c)
      BY <1>0, <3>1 DEF ChosenSound, FilterSound, ChosenTogether
    <3>3. t \notin Col(c).disabledByToggles
      BY <1>0, <2>1, <3>2, ColumnsBehave DEF Mutual
    <3> QED BY <2>2, <3>2, <3>3 DEF IsDisabled, Col
  <2> QED BY <2>3, <2>4, <2>5, <2>6 DEF ListQueryInv
<1>5. CASE SelectHeaderSort
  <2>1. PICK c \in {d \in ColumnNames : Col(d).sort # Absent} \union {Absent} : Ask(chosen, toggled, c)
    BY <1>5 DEF SelectHeaderSort
  <2>2. /\ chosen' = chosen /\ toggled' = toggled /\ sortedBy' = c
        /\ asked' = RequestFor(list, chosen, toggled, c)
        /\ UNCHANGED <<list, completed, radio, unsettled, switching, restored, slipped>>
    BY <1>5, <2>1 DEF SelectHeaderSort, Ask
  <2>3. c # Absent => c \in DOMAIN ColumnsOf(list) /\ Col(c).sort # Absent
    BY <1>a, <2>1
  <2>4. QueryShape'
    BY <1>0, <2>2, <2>3 DEF QueryShape, Col
  <2>5. FiltersSet'
    <3>1. FilterNames' = FilterNames
      BY <2>2 DEF FilterNames, ColumnNames
    <3> QED BY <1>0, <2>2, <3>1 DEF FiltersSet, Col
  <2>6. ChosenSound' /\ ChosenAsSet' /\ ChosenTogether' /\ AskedForThis'
    BY <1>0, <2>2 DEF ChosenSound, ChosenAsSet, ChosenTogether, AskedForThis, IsDisabled, Setting,
         Col
  <2> QED BY <2>4, <2>5, <2>6 DEF ListQueryInv
<1>6. CASE SwitchBatches
  <2>1. /\ list = "batch" /\ completed' = ~completed /\ switching' = TRUE
        /\ radio' = FirstComparators(list) /\ unsettled' = <<>>
        /\ UNCHANGED <<list, chosen, toggled, sortedBy, restored, slipped>>
    BY <1>6 DEF SwitchBatches
  <2>2. QueryShape'
    BY <1>0, <2>1 DEF QueryShape, Col
  <2>3. FiltersSet'
    BY <1>0, <1>b, <2>1, RadiosFirst DEF FiltersSet, Col
  <2>4. ChosenSound' /\ ChosenAsSet' /\ AskedForThis'
    BY <1>0, <2>1 DEF ChosenSound, ChosenAsSet, AskedForThis
  <2>5. ChosenTogether'
    BY <1>0, <2>1 DEF ChosenTogether, IsDisabled, Col
  <2> QED BY <2>2, <2>3, <2>4, <2>5 DEF ListQueryInv
<1>7. CASE BatchesSwitched
  <2>1. /\ switching /\ switching' = FALSE /\ restored' = {}
        /\ chosen' = <<>> /\ toggled' = toggled
        /\ sortedBy' = (IF sortedBy = "endTime" THEN Absent ELSE sortedBy)
        /\ asked' = RequestFor(list, chosen', toggled', sortedBy')
        /\ UNCHANGED <<list, completed, radio, unsettled, slipped>>
    BY <1>7 DEF BatchesSwitched, Ask
  <2>2. DOMAIN chosen' = {}
    BY <1>b, <2>1
  <2>3. QueryShape'
    BY <1>0, <2>1 DEF QueryShape, Col
  <2>4. FiltersSet'
    <3>1. FilterNames' = FilterNames
      BY <2>1 DEF FilterNames, ColumnNames
    <3> QED BY <1>0, <2>1, <3>1 DEF FiltersSet, Col
  <2>5. ChosenSound' /\ ChosenAsSet' /\ ChosenTogether' /\ AskedForThis'
    BY <2>1, <2>2 DEF ChosenSound, ChosenAsSet, ChosenTogether, AskedForThis
  <2> QED BY <2>3, <2>4, <2>5 DEF ListQueryInv
<1>8. CASE ResetList
  <2>1. /\ chosen' = DefaultFiltersOf(list) /\ toggled' = DefaultTogglesOf(list)
        /\ sortedBy' = DefaultSortingOf(list) /\ restored' = DOMAIN DefaultFiltersOf(list)
        /\ asked' = RequestFor(list, chosen', toggled', sortedBy')
        /\ unsettled' = Restrict(unsettled, DOMAIN unsettled \ DOMAIN chosen)
        /\ UNCHANGED <<list, completed, radio, switching, slipped>> /\ ~ switching
    BY <1>8 DEF ResetList, UserActs, Ask
  <2>2. DOMAIN unsettled' \subseteq DOMAIN unsettled
    BY <2>1 DEF Restrict
  <2>3. QueryShape'
    BY <1>0, <2>1, DefaultsSound DEF QueryShape, Col
  <2>4. FiltersSet'
    <3>1. FilterNames' = FilterNames
      BY <2>1 DEF FilterNames, ColumnNames
    <3> QED BY <1>0, <2>1, <2>2, <3>1 DEF FiltersSet, Col
  <2>5. ChosenSound'
    BY <1>0, <2>1, DefaultsSound DEF ChosenSound
  <2>6. ChosenAsSet' /\ AskedForThis'
    BY <2>1 DEF ChosenAsSet, AskedForThis
  <2>7. ChosenTogether'
    BY <1>0, <2>1, DefaultsSound DEF ChosenTogether, IsDisabled, Col
  <2> QED BY <2>3, <2>4, <2>5, <2>6, <2>7 DEF ListQueryInv
<1>9. CASE OpenListAgain
  <2>1. /\ completed' = FALSE /\ unsettled' = <<>> /\ restored' = DOMAIN chosen
        /\ radio' = FirstComparators(list) /\ asked' = RequestFor(list, chosen, toggled, sortedBy)
        /\ UNCHANGED <<list, chosen, toggled, sortedBy, switching, slipped>> /\ ~ switching
    BY <1>9 DEF OpenListAgain, UserActs
  <2>2. QueryShape'
    BY <1>0, <2>1 DEF QueryShape, Col
  <2>3. FiltersSet'
    BY <1>0, <1>b, <2>1, RadiosFirst DEF FiltersSet, Col
  <2>4. ChosenSound' /\ ChosenAsSet' /\ AskedForThis'
    BY <1>0, <2>1 DEF ChosenSound, ChosenAsSet, AskedForThis
  <2>5. ChosenTogether'
    BY <1>0, <2>1 DEF ChosenTogether, IsDisabled, Col
  <2> QED BY <2>2, <2>3, <2>4, <2>5 DEF ListQueryInv
<1> QED BY <1>1, <1>2, <1>3, <1>4, <1>5, <1>6, <1>7, <1>8, <1>9

\* ListQueryInv holds at first and every step keeps it.
LEMMA ListQueryInduction ==
  /\ ListQueryInit => ListQueryInv
  /\ ListQueryInv /\ [ListQueryNext]_listQueryVars => ListQueryInv'
BY ListQueryStarts, FiltersKeepListQuery, PageKeepsListQuery DEF ListQueryNext

-----------------------------------------------------------------------------
(***************************************************************************)
(* Requests of lists: what follows from the invariant.                     *)
(***************************************************************************)

\* What a request of the filters and the toggles says is what the engine hears of each.
LEMMA RequestHeard ==
  ASSUME NEW l, NEW ended, NEW filters, NEW toggles, NEW sort
  PROVE  UNION {HeardAs(l, ended, p) : p \in RequestFor(l, filters, toggles, sort).parameters}
           = (UNION {UNION {Heard(l, ended, p) : p \in TransformFilter(ColumnsOf(l)[c], c, filters[c])} :
                      c \in DOMAIN filters})
             \union UNION {Heard(l, ended,
                                 ToggleParameter(t)) : t \in toggles \intersect DOMAIN TogglesOf(l)}
<1> DEFINE parameters == (UNION {TransformFilter(ColumnsOf(l)[c], c,
                                                 filters[c]) : c \in DOMAIN filters})
                         \union {ToggleParameter(t) : t \in toggles \intersect DOMAIN TogglesOf(l)}
<1>1. RequestFor(l, filters, toggles, sort).parameters = {JoinArrays(l, p) : p \in parameters}
  BY Zenon DEF RequestFor
<1>2. UNION {HeardAs(l, ended, p) : p \in {JoinArrays(l, p) : p \in parameters}}
        = UNION {Heard(l, ended, p) : p \in parameters}
  BY DEF Heard
<1>3. UNION {Heard(l, ended, p) : p \in parameters}
        = (UNION {UNION {Heard(l, ended, p) : p \in TransformFilter(ColumnsOf(l)[c], c,
                                                                    filters[c])} :
                   c \in DOMAIN filters})
          \union UNION {Heard(l, ended,
                              ToggleParameter(t)) : t \in toggles \intersect DOMAIN TogglesOf(l)}
  <2> DEFINE heard == UNION {UNION {Heard(l, ended, p) : p \in TransformFilter(ColumnsOf(l)[c], c, filters[c])} :
                               c \in DOMAIN filters}
             flagged == UNION {Heard(l, ended, ToggleParameter(t)) :
                                 t \in toggles \intersect DOMAIN TogglesOf(l)}
  <2>1. ASSUME NEW p \in parameters, NEW x \in Heard(l, ended, p) PROVE x \in heard \union flagged
    <3>1. CASE \E c \in DOMAIN filters : p \in TransformFilter(ColumnsOf(l)[c], c, filters[c])
      <4>1. PICK c \in DOMAIN filters : p \in TransformFilter(ColumnsOf(l)[c], c, filters[c])
        BY <3>1
      <4>2. x \in UNION {Heard(l, ended, q) : q \in TransformFilter(ColumnsOf(l)[c], c, filters[c])}
        BY <4>1
      <4>3. x \in heard
        BY <4>2
      <4> QED BY <4>3
    <3>2. CASE p \in {ToggleParameter(t) : t \in toggles \intersect DOMAIN TogglesOf(l)}
      <4>1. x \in flagged
        BY <3>2
      <4> QED BY <4>1
    <3>3. \/ \E c \in DOMAIN filters : p \in TransformFilter(ColumnsOf(l)[c], c, filters[c])
          \/ p \in {ToggleParameter(t) : t \in toggles \intersect DOMAIN TogglesOf(l)}
      OBVIOUS
    <3> QED BY <3>1, <3>2, <3>3
  <2>2. ASSUME NEW x \in heard PROVE \E p \in parameters : x \in Heard(l, ended, p)
    <3>1. PICK c \in DOMAIN filters :
            x \in UNION {Heard(l, ended, p) : p \in TransformFilter(ColumnsOf(l)[c], c, filters[c])}
      BY <2>2
    <3>2. PICK p \in TransformFilter(ColumnsOf(l)[c], c, filters[c]) : x \in Heard(l, ended, p)
      BY <3>1
    <3>3. p \in parameters
      BY <3>2
    <3> QED BY <3>2, <3>3
  <2>3. ASSUME NEW x \in flagged PROVE \E p \in parameters : x \in Heard(l, ended, p)
    <3>1. PICK t \in toggles \intersect DOMAIN TogglesOf(l) : x \in Heard(l, ended, ToggleParameter(t))
      BY <2>3
    <3>2. ToggleParameter(t) \in parameters
      OBVIOUS
    <3> QED BY <3>1, <3>2
  <2> HIDE DEF heard, flagged, parameters
  <2>4. UNION {Heard(l, ended, p) : p \in parameters} = heard \union flagged
    BY <2>1, <2>2, <2>3
  <2> QED BY <2>4 DEF heard, flagged
<1> QED BY <1>1, <1>2, <1>3

\* The engine understands the filters that are chosen.
LEMMA ChosenUnderstood ==
  ASSUME QueryShape, ChosenSound, ~switching, NEW c \in DOMAIN chosen
  PROVE  Understood(list, completed, c)
<1>1. /\ list \in Lists /\ completed \in BOOLEAN /\ c \in DOMAIN ColumnsOf(list)
      /\ completed => list = "batch" /\ c \in {"batchId", "type"}
  BY DEF QueryShape, ChosenSound, FilterSound
<1>2. CASE completed = TRUE
  <2>1. Understood("batch", TRUE, c)
    BY <1>1, <1>2, CompletedFit
  <2> QED BY <1>1, <1>2, <2>1
<1>3. CASE completed = FALSE
  <2>1. Understood(list, FALSE, c)
    BY <1>1, ColumnsFit DEF FitsTable
  <2> QED BY <1>3, <2>1
<1> QED BY <1>1, <1>2, <1>3

\* The engine hears what the filters and the toggles show.
LEMMA HearsWhatIsShown ==
  ASSUME ListQueryInv, asked # Absent, ~switching
  PROVE  UNION {HeardAs(list, completed, p) : p \in asked.parameters}
           = (UNION {MeantBy(c) : c \in DOMAIN chosen \ {"priority"}})
             \union {<<t, "is", "true">> : t \in toggled}
<1>0. /\ QueryShape /\ ChosenSound /\ ChosenAsSet /\ list \in Lists /\ completed \in BOOLEAN
      /\ toggled \subseteq DOMAIN TogglesOf(list)
      /\ asked = RequestFor(list, chosen, toggled, sortedBy)
  BY DEF ListQueryInv, QueryShape, AskedForThis
<1>1. ASSUME NEW c \in DOMAIN chosen
      PROVE  UNION {Heard(list, completed, p) : p \in TransformFilter(ColumnsOf(list)[c], c, chosen[c])}
               = IF c = "priority" THEN {} ELSE MeantBy(c)
  <2>1. FilterSound(list, c, chosen[c]) /\ Understood(list, completed, c)
    BY <1>0, ChosenUnderstood DEF ChosenSound
  <2>2. ComparatorShown(c) = chosen[c].type
    BY <1>0 DEF ComparatorShown, ChosenAsSet
  <2>3. MeantBy(c) = Meaning(ColumnsOf(list)[c], c, chosen[c].type, chosen[c].value)
    BY <2>2 DEF MeantBy, Col
  <2> QED BY <1>0, <2>1, <2>3, FilterHeard
<1>2. ASSUME NEW t \in toggled
      PROVE  Heard(list, completed, ToggleParameter(t)) = {<<t, "is", "true">>}
  BY <1>0, ToggleHeard
<1>3. UNION {UNION {Heard(list, completed, p) : p \in TransformFilter(ColumnsOf(list)[c], c, chosen[c])} :
               c \in DOMAIN chosen}
        = UNION {MeantBy(c) : c \in DOMAIN chosen \ {"priority"}}
  BY <1>1
<1>4. UNION {Heard(list, completed,
                   ToggleParameter(t)) : t \in toggled \intersect DOMAIN TogglesOf(list)}
        = {<<t, "is", "true">> : t \in toggled}
  BY <1>0, <1>2
<1>5. UNION {HeardAs(list, completed, p) : p \in RequestFor(list, chosen, toggled,
                                                            sortedBy).parameters}
        = (UNION {UNION {Heard(list, completed, p) : p \in TransformFilter(ColumnsOf(list)[c], c, chosen[c])} :
                   c \in DOMAIN chosen})
          \union UNION {Heard(list, completed, ToggleParameter(t)) :
                          t \in toggled \intersect DOMAIN TogglesOf(list)}
  BY RequestHeard
<1> QED BY <1>0, <1>3, <1>4, <1>5

\* The request sorts by the column that is sorted, if the engine knows its key.
LEMMA SortsWhatIsShown ==
  ASSUME ListQueryInv, asked # Absent, ~switching
  PROVE  LET keys == EngineSorts(list, completed)
         IN /\ asked.sort \in KeysOfSorts(list, completed) =>
                 sortedBy = IF asked.sort \in DOMAIN keys THEN keys[asked.sort] ELSE asked.sort
            /\ asked.sort \notin KeysOfSorts(list, completed) \union {Absent} =>
                 list = "batch" /\ sortedBy = "endTime" /\ ~completed
            /\ asked.sort = Absent => sortedBy = Absent
<1> DEFINE keys == EngineSorts(list, completed)
           key == Col(sortedBy).sort
<1>0. /\ list \in Lists /\ completed \in BOOLEAN
      /\ asked = RequestFor(list, chosen, toggled, sortedBy)
      /\ sortedBy # Absent => sortedBy \in DOMAIN ColumnsOf(list) /\ key # Absent
  BY DEF ListQueryInv, QueryShape, AskedForThis
<1>1. asked.sort = IF sortedBy = Absent THEN Absent ELSE key
  <2>1. asked.sort = IF sortedBy = Absent THEN Absent ELSE IF key = Absent THEN sortedBy ELSE key
    BY <1>0, Zenon DEF RequestFor, Col
  <2> QED BY <1>0, <2>1
<1>2. Absent \notin KeysOfSorts(list, completed)
  BY <1>0, AbsentIsNoKey DEF KeysOfSorts
<1>3. CASE sortedBy = Absent
  BY <1>1, <1>2, <1>3
<1>4. CASE sortedBy # Absent
  <2>1. SortsBack(list, key, sortedBy)
    BY <1>0, <1>4, ColumnsFit DEF FitsTable, Behaved, Col
  <2>2. IF key \in DOMAIN keys THEN sortedBy = keys[key]
        ELSE IF key \in SortsOnItsOwnName(list, completed) THEN sortedBy = key
        ELSE list = "batch" /\ sortedBy = "endTime" /\ ~ completed
    BY <1>0, <1>4, <2>1 DEF SortsBack
  <2>3. asked.sort = key /\ key # Absent
    BY <1>0, <1>1, <1>4
  <2> HIDE DEF key
  <2>4. /\ asked.sort \in KeysOfSorts(list, completed) =>
             sortedBy = IF asked.sort \in DOMAIN keys THEN keys[asked.sort] ELSE asked.sort
        /\ asked.sort \notin KeysOfSorts(list, completed) \union {Absent} =>
             list = "batch" /\ sortedBy = "endTime" /\ ~completed
        /\ asked.sort = Absent => sortedBy = Absent
    BY <2>2, <2>3 DEF KeysOfSorts, keys
  <2> QED BY <2>4
<1> QED BY <1>3, <1>4

\* Where the engine refuses a request, a text slipped in.
LEMMA ClashSlipped ==
  ASSUME ListQueryInv, NEW heard,
         heard = (UNION {MeantBy(c) : c \in DOMAIN chosen \ {"priority"}})
                   \union {<<t, "is", "true">> : t \in toggled},
         EngineClash(list, {h[1] : h \in heard})
  PROVE  slipped
<1> DEFINE fields == {h[1] : h \in heard}
<1>0. /\ list \in Lists /\ toggled \subseteq DOMAIN TogglesOf(list)
      /\ \A c \in DOMAIN chosen : /\ c \in DOMAIN ColumnsOf(list)
                                  /\ Col(c).booleans # <<>> => chosen[c].value \in Col(c).options
  BY DEF ListQueryInv, QueryShape, ChosenSound, FilterSound, Col
<1> SUFFICES ASSUME ~ slipped PROVE FALSE
  OBVIOUS
<1>1. \A c \in DOMAIN chosen : ~ IsDisabled(c)
  BY DEF ListQueryInv, ChosenTogether
<1>2. ASSUME NEW f \in fields
      PROVE  \/ f \in DOMAIN chosen \/ f \in toggled
             \/ \E c \in DOMAIN chosen : f = chosen[c].value /\ f \in Col(c).options
  <2>1. PICK h \in heard : f = h[1]
    OBVIOUS
  <2>2. (\E t \in toggled : h = <<t, "is", "true">>) \/ \E c \in DOMAIN chosen : h \in MeantBy(c)
    OBVIOUS
  <2>3. CASE \E t \in toggled : h = <<t, "is", "true">>
    BY <2>1, <2>3
  <2>4. CASE \E c \in DOMAIN chosen : h \in MeantBy(c)
    <3>1. PICK c \in DOMAIN chosen : h \in MeantBy(c)
      BY <2>4
    <3>2. CASE Col(c).kind = "date"
      <4>1. h[1] = c
        BY <3>1, <3>2 DEF MeantBy, Meaning
      <4> QED BY <2>1, <4>1
    <3>3. CASE Col(c).kind # "date" /\ Col(c).booleans # <<>>
      <4>1. h[1] = chosen[c].value
        BY <3>1, <3>3 DEF MeantBy, Meaning
      <4> QED BY <1>0, <2>1, <3>3, <4>1
    <3>4. CASE Col(c).kind # "date" /\ Col(c).booleans = <<>>
      <4>1. h[1] = c
        BY <3>1, <3>4 DEF MeantBy, Meaning
      <4> QED BY <2>1, <4>1
    <3> QED BY <3>2, <3>3, <3>4
  <2> QED BY <2>2, <2>3, <2>4
<1>3. ASSUME NEW c \in DOMAIN chosen PROVE NamesApart(list, c, Col(c).options)
  BY <1>0, ColumnsFit DEF FitsTable, Behaved, Col
<1>4. TogglesFit(list) /\ ClashesExcluded(list)
  BY <1>0, AllTogglesFit, AllClashesExcluded
<1> HIDE DEF fields
<1>5. "latestVersion" \in fields => "latestVersion" \in toggled
  BY <1>2, <1>3 DEF NamesApart
<1>6. \A f \in {"version", "deploymentId", "name", "id", "jobDefinitionId"} :
        f \in fields => f \in DOMAIN chosen
  BY <1>0, <1>2, <1>3, <1>4 DEF NamesApart, TogglesFit
<1>7. CASE "latestVersion" \in fields /\ fields \intersect {"version", "deploymentId"} # {}
  <2>1. PICK c \in {"version", "deploymentId"} : c \in DOMAIN chosen
    BY <1>6, <1>7
  <2>2. "latestVersion" \in Col(c).disabledByToggles
    BY <1>0, <1>4, <1>5, <1>7, <2>1 DEF ClashesExcluded, Col
  <2> QED BY <1>1, <1>5, <1>7, <2>1, <2>2 DEF IsDisabled
<1>8. CASE list = "decisionDefinition" /\ {"latestVersion", "name"} \subseteq fields
  <2>1. "latestVersion" \in Col("name").disabledByToggles
    BY <1>4, <1>8 DEF ClashesExcluded, Col
  <2> QED BY <1>1, <1>5, <1>6, <1>8, <2>1 DEF IsDisabled
<1>9. CASE list = "job" /\ {"id", "jobDefinitionId"} \subseteq fields
  <2>1. "jobDefinitionId" \in Col("id").disabledBy
    BY <1>4, <1>9 DEF ClashesExcluded, Col
  <2> QED BY <1>1, <1>6, <1>9, <2>1 DEF IsDisabled
<1>10. CASE list = "job" /\ {"withRetriesLeft", "noRetriesLeft"} \subseteq fields
  <2>1. "retries" \in DOMAIN chosen /\ chosen["retries"].value = "noRetriesLeft"
    BY <1>0, <1>2, <1>3, <1>4, <1>10 DEF NamesApart, TogglesFit
  <2>2. "withRetriesLeft" \in toggled
    BY <1>2, <1>3, <1>10, <2>1 DEF NamesApart
  <2>3. "withRetriesLeft" \in Col("retries").disabledByToggles
    BY <1>4, <1>10 DEF ClashesExcluded, Col
  <2> QED BY <1>1, <2>1, <2>2, <2>3 DEF IsDisabled
<1>11. EngineClash(list, fields)
  BY DEF fields
<1> QED BY <1>7, <1>8, <1>9, <1>10, <1>11 DEF EngineClash

\* From the invariant follows what was to be shown.
LEMMA ListShows == ListQueryInv => ListAsksWhatItShows
<1> SUFFICES ASSUME ListQueryInv, asked # Absent, ~switching PROVE ListAsksWhatItShows
  BY DEF ListAsksWhatItShows
<1> DEFINE heard == UNION {HeardAs(list, completed, p) : p \in asked.parameters}
<1>1. heard = (UNION {MeantBy(c) : c \in DOMAIN chosen \ {"priority"}})
                \union {<<t, "is", "true">> : t \in toggled}
  BY HearsWhatIsShown
<1>2. EngineClash(list, {h[1] : h \in heard}) => slipped
  <2> HIDE DEF heard
  <2> QED BY <1>1, ClashSlipped
<1> QED BY <1>1, <1>2, SortsWhatIsShown DEF ListAsksWhatItShows, KeysOfSorts

\* ListQueryInv holds in every state.
THEOREM ListQueryInvariant == Spec => []ListQueryInv
<1>1. WidgetsInit => ListQueryInv
  BY ListQueryInduction, AllWidgetsStart
<1>2. ListQueryInv /\ [WidgetsNext]_widgetVars => ListQueryInv'
  BY ListQueryInduction, OneWidgetMoves
<1> QED BY <1>1, <1>2, PTL DEF Spec, widgetVars

\* After any number of inputs, on each of the seven lists: the engine hears the filters, the toggles
\* and the sorted column as the page shows them, whatever table of the columns they pass through;
\* what it does not take together is asked for only by a text that was typed just before.
THEOREM ListAsks == Spec => []ListAsksWhatItShows
BY ListQueryInvariant, ListShows, PTL

=============================================================================
