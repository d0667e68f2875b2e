---------------------------- MODULE FilterProofs ----------------------------
(***************************************************************************)
(* What filtering a stack preserves.  The provers cannot instantiate the   *)
(* library's induction theorems, whose hypothesis is an operator; the      *)
(* induction here is over sets, from the well-foundedness of < on Nat.     *)
(***************************************************************************)
EXTENDS Filters, SequencesExt, SequenceTheorems, WellFoundedInduction, TLAPS

\* A nonempty set of natural numbers has a least element.
LEMMA LeastElement ==
  ASSUME NEW T \in SUBSET Nat, T # {}
  PROVE  \E x \in T : \A y \in T : x <= y
<1> DEFINE R == {ss \in Nat \X Nat : ss[1] < ss[2]}
<1>1. IsWellFoundedOn(R, Nat)
  BY NatLessThanWellFounded DEF OpToRel
<1>2. \A x, y \in Nat : y < x => <<y, x>> \in R
  OBVIOUS
<1> HIDE DEF R
<1>3. PICK x \in T : \A y \in T : ~(<<y, x>> \in R)
  BY <1>1, WFMin
<1>4. \A y \in T : ~(y < x)
  BY <1>2, <1>3
<1>5. \A y \in T : x <= y
  BY <1>4
<1>6. QED
  BY <1>5

\* Induction over the natural numbers, for a set.
LEMMA NatInductionSet ==
  ASSUME NEW T, 0 \in T, \A n \in Nat : n \in T => n + 1 \in T
  PROVE  Nat \subseteq T
<1> DEFINE U == Nat \ T
<1>1. CASE U # {}
  <2>1. PICK x \in U : \A y \in U : x <= y
    BY <1>1, LeastElement
  <2>2. x # 0 /\ x - 1 \in Nat
    BY <2>1
  <2>3. x - 1 \in T
    BY <2>1, <2>2
  <2>4. QED
    BY <2>1, <2>2, <2>3
<1>2. QED
  BY <1>1

\* Induction over sequences, for a set.
LEMMA SeqInductionSet ==
  ASSUME NEW X, NEW T, <<>> \in T,
         \A s \in Seq(X), x \in X : s \in T => Append(s, x) \in T
  PROVE  Seq(X) \subseteq T
<1> DEFINE U == {n \in Nat : \A s \in Seq(X) : Len(s) = n => s \in T}
<1>1. 0 \in U
  BY EmptySeq
<1>2. ASSUME NEW n \in Nat, n \in U
      PROVE  n + 1 \in U
  <2>1. SUFFICES ASSUME NEW s \in Seq(X), Len(s) = n + 1
                 PROVE  s \in T
    OBVIOUS
  <2>2. s # <<>>
    BY <2>1
  <2>3. PICK t \in Seq(X), x \in X : s = Append(t, x)
    BY <2>2, SequenceEmptyOrAppend
  <2>4. Len(t) = n
    BY <2>1, <2>3
  <2>5. QED
    BY <1>2, <2>3, <2>4
<1>3. Nat \subseteq U
  <2> HIDE DEF U
  <2>1. QED
    BY <1>1, <1>2, NatInductionSet
<1>4. QED
  BY <1>3

-----------------------------------------------------------------------------
\* The equations of the recursion, for a function on 0 .. n.
Unfolds(f, s, S, n) ==
  f = [i \in 0 .. n |->
         IF i = 0 THEN <<>>
         ELSE IF s[i] \in S THEN Append(f[i - 1], s[i]) ELSE f[i - 1]]

\* There is such a function for every n.
LEMMA UnfoldExists ==
  ASSUME NEW s, NEW S
  PROVE  \A n \in Nat : \E f : Unfolds(f, s, S, n)
<1> DEFINE T == {n \in Nat : \E f : Unfolds(f, s, S, n)}
<1>1. 0 \in T
  <2>1. Unfolds([i \in 0 .. 0 |-> <<>>], s, S, 0)
    BY DEF Unfolds
  <2>2. QED
    BY <2>1
<1>2. ASSUME NEW n \in Nat, n \in T
      PROVE  n + 1 \in T
  <2>1. PICK f : Unfolds(f, s, S, n)
    BY <1>2
  <2> DEFINE last == IF s[n + 1] \in S THEN Append(f[n], s[n + 1]) ELSE f[n]
             g == [i \in 0 .. n + 1 |-> IF i = n + 1 THEN last ELSE f[i]]
  <2>2. \A i \in 0 .. n : f[i] = IF i = 0 THEN <<>>
                                 ELSE IF s[i] \in S THEN Append(f[i - 1], s[i]) ELSE f[i - 1]
    BY <2>1 DEF Unfolds
  <2>3. \A i \in 0 .. n + 1 :
          g[i] = IF i = 0 THEN <<>>
                 ELSE IF s[i] \in S THEN Append(g[i - 1], s[i]) ELSE g[i - 1]
    BY <2>2
  <2>4. Unfolds(g, s, S, n + 1)
    BY <2>3 DEF Unfolds
  <2>5. QED
    BY <2>4
<1>3. Nat \subseteq T
  <2> HIDE DEF T
  <2>1. QED
    BY <1>1, <1>2, NatInductionSet
<1>4. QED
  BY <1>3

\* Kept satisfies its equations.
LEMMA KeptUnfolds ==
  ASSUME NEW s, NEW S, Len(s) \in Nat
  PROVE  /\ Kept(s, S)[0] = <<>>
         /\ \A i \in 1 .. Len(s) :
              Kept(s, S)[i] = IF s[i] \in S THEN Append(Kept(s, S)[i - 1], s[i])
                                            ELSE Kept(s, S)[i - 1]
<1>1. \E f : Unfolds(f, s, S, Len(s))
  BY UnfoldExists
<1>2. Kept(s, S) = CHOOSE f : Unfolds(f, s, S, Len(s))
  BY DEF Kept, Unfolds
<1>3. Unfolds(Kept(s, S), s, S, Len(s))
  BY <1>1, <1>2
<1>4. \A i \in 0 .. Len(s) :
        Kept(s, S)[i] = IF i = 0 THEN <<>>
                        ELSE IF s[i] \in S THEN Append(Kept(s, S)[i - 1], s[i])
                                           ELSE Kept(s, S)[i - 1]
  BY <1>3, Zenon DEF Unfolds
<1>5. 0 \in 0 .. Len(s) /\ \A i \in 1 .. Len(s) : i \in 0 .. Len(s) /\ i # 0
  OBVIOUS
<1>6. QED
  BY <1>4, <1>5

\* What is kept of a prefix depends on that prefix only.
LEMMA KeptOfPrefix ==
  ASSUME NEW X, NEW s \in Seq(X), NEW x \in X, NEW S
  PROVE  \A i \in 0 .. Len(s) : Kept(Append(s, x), S)[i] = Kept(s, S)[i]
<1> DEFINE t == Append(s, x)
           T == {i \in Nat : i <= Len(s) => Kept(t, S)[i] = Kept(s, S)[i]}
<1>1. Len(t) = Len(s) + 1 /\ Len(s) \in Nat /\ \A i \in 1 .. Len(s) : t[i] = s[i]
  OBVIOUS
<1>2. Kept(t, S)[0] = <<>> /\ Kept(s, S)[0] = <<>>
  BY <1>1, KeptUnfolds
<1>3. \A i \in 1 .. Len(s) :
        /\ Kept(t, S)[i] = IF t[i] \in S THEN Append(Kept(t, S)[i - 1], t[i])
                                         ELSE Kept(t, S)[i - 1]
        /\ Kept(s, S)[i] = IF s[i] \in S THEN Append(Kept(s, S)[i - 1], s[i])
                                         ELSE Kept(s, S)[i - 1]
  <2>1. Len(t) \in Nat /\ \A i \in 1 .. Len(s) : i \in 1 .. Len(t)
    BY <1>1
  <2> HIDE DEF t
  <2>2. QED
    BY <1>1, <2>1, KeptUnfolds
<1> HIDE DEF t
<1>4. 0 \in T
  BY <1>2
<1>5. ASSUME NEW n \in Nat, n \in T
      PROVE  n + 1 \in T
  <2>1. CASE n + 1 <= Len(s)
    <3>1. n + 1 \in 1 .. Len(s) /\ (n + 1) - 1 = n /\ n <= Len(s)
      BY <1>1, <2>1
    <3>2. Kept(t, S)[n] = Kept(s, S)[n]
      BY <1>5, <3>1
    <3>3. Kept(t, S)[n + 1] = Kept(s, S)[n + 1]
      BY <1>1, <1>3, <3>1, <3>2
    <3>4. QED
      BY <3>3
  <2>2. QED
    BY <1>1, <2>1
<1>6. Nat \subseteq T
  <2> HIDE DEF T
  <2>1. QED
    BY <1>4, <1>5, NatInductionSet
<1>7. QED
  BY <1>1, <1>6 DEF t

\* Nothing is kept of the empty sequence.
LEMMA KeepEmpty ==
  ASSUME NEW S
  PROVE  Keep(<<>>, S) = <<>>
<1>1. Len(<<>>) = 0
  OBVIOUS
<1>2. QED
  BY <1>1, KeptUnfolds DEF Keep

\* The last element is kept or not.
LEMMA KeepAppend ==
  ASSUME NEW X, NEW s \in Seq(X), NEW x \in X, NEW S
  PROVE  Keep(Append(s, x), S) = IF x \in S THEN Append(Keep(s, S), x) ELSE Keep(s, S)
<1> DEFINE t == Append(s, x)
<1>1. Len(t) = Len(s) + 1 /\ Len(s) \in Nat /\ t[Len(s) + 1] = x
  OBVIOUS
<1>2. Kept(t, S)[Len(s)] = Kept(s, S)[Len(s)]
  BY <1>1, KeptOfPrefix
<1> HIDE DEF t
<1>3. Len(t) \in Nat /\ Len(t) \in 1 .. Len(t) /\ Len(t) - 1 = Len(s)
  BY <1>1
<1>4. Kept(t, S)[Len(t)] = IF t[Len(t)] \in S THEN Append(Kept(t, S)[Len(t) - 1], t[Len(t)])
                                              ELSE Kept(t, S)[Len(t) - 1]
  BY <1>3, KeptUnfolds
<1>5. QED
  BY <1>1, <1>2, <1>3, <1>4 DEF Keep, t

-----------------------------------------------------------------------------
\* What is kept is in S and comes from the sequence.
LEMMA KeepIsSeq ==
  ASSUME NEW X, NEW S
  PROVE  \A s \in Seq(X) : Keep(s, S) \in Seq(X \cap S)
<1> DEFINE T == {s \in Seq(X) : Keep(s, S) \in Seq(X \cap S)}
<1>1. <<>> \in T
  BY KeepEmpty, EmptySeq
<1>2. ASSUME NEW s \in Seq(X), NEW x \in X, s \in T
      PROVE  Append(s, x) \in T
  <2>1. Keep(Append(s, x), S) = IF x \in S THEN Append(Keep(s, S), x) ELSE Keep(s, S)
    BY KeepAppend
  <2>2. Append(s, x) \in Seq(X) /\ Keep(s, S) \in Seq(X \cap S)
    BY <1>2
  <2>3. CASE x \in S
    <3>1. Append(Keep(s, S), x) \in Seq(X \cap S)
      BY <2>2, <2>3, AppendProperties
    <3>2. QED
      BY <2>1, <2>2, <2>3, <3>1
  <2>4. QED
    BY <2>1, <2>2, <2>3
<1>3. Seq(X) \subseteq T
  <2> HIDE DEF T
  <2>1. QED
    BY <1>1, <1>2, SeqInductionSet
<1>4. QED
  BY <1>3

\* Filtering distributes over concatenation.
LEMMA KeepConcat ==
  ASSUME NEW X, NEW S, NEW s \in Seq(X)
  PROVE  \A t \in Seq(X) : Keep(s \o t, S) = Keep(s, S) \o Keep(t, S)
<1> DEFINE T == {t \in Seq(X) : Keep(s \o t, S) = Keep(s, S) \o Keep(t, S)}
<1>0. \A t \in Seq(X) : Keep(t, S) \in Seq(X)
  <2>1. \A t \in Seq(X) : Keep(t, S) \in Seq(X \cap S)
    BY KeepIsSeq
  <2>2. QED
    BY <2>1, SeqMonotonic
<1>1. <<>> \in T
  <2>1. s \o <<>> = s /\ <<>> \in Seq(X)
    BY ConcatEmptySeq
  <2>2. Keep(s, S) \o <<>> = Keep(s, S)
    BY <1>0, ConcatEmptySeq
  <2>3. QED
    BY <2>1, <2>2, KeepEmpty
<1>2. ASSUME NEW t \in Seq(X), NEW x \in X, t \in T
      PROVE  Append(t, x) \in T
  <2>1. s \o t \in Seq(X) /\ s \o Append(t, x) = Append(s \o t, x)
        /\ Append(t, x) \in Seq(X)
    <3>1. /\ Append(t, x) = t \o <<x>> /\ <<x>> \in Seq(X) /\ s \o t \in Seq(X)
          /\ Append(t, x) \in Seq(X)
      BY AppendIsConcat
    <3>2. (s \o t) \o <<x>> = s \o (t \o <<x>>)
      BY <3>1, ConcatAssociative
    <3>3. Append(s \o t, x) = (s \o t) \o <<x>>
      BY <3>1, AppendIsConcat
    <3>4. QED
      BY <3>1, <3>2, <3>3
  <2>2. Keep(s \o Append(t, x), S)
          = IF x \in S THEN Append(Keep(s \o t, S), x) ELSE Keep(s \o t, S)
    BY <2>1, KeepAppend
  <2>3. Keep(Append(t, x), S) = IF x \in S THEN Append(Keep(t, S), x) ELSE Keep(t, S)
    BY KeepAppend
  <2>4. Append(Keep(s, S) \o Keep(t, S), x) = Keep(s, S) \o Append(Keep(t, S), x)
    <3> DEFINE a == Keep(s, S)
               b == Keep(t, S)
    <3>1. a \in Seq(X) /\ b \in Seq(X)
      BY <1>0
    <3> HIDE DEF a, b
    <3>2. /\ Append(b, x) = b \o <<x>> /\ <<x>> \in Seq(X) /\ a \o b \in Seq(X)
      BY <3>1, AppendIsConcat
    <3>3. (a \o b) \o <<x>> = a \o (b \o <<x>>)
      BY <3>1, <3>2, ConcatAssociative, SMTT(30)
    <3>4. Append(a \o b, x) = (a \o b) \o <<x>>
      BY <3>2, AppendIsConcat
    <3>5. Append(a \o b, x) = a \o Append(b, x)
      BY <3>2, <3>3, <3>4
    <3>6. QED
      BY <3>5 DEF a, b
  <2>5. Keep(s \o t, S) = Keep(s, S) \o Keep(t, S)
    BY <1>2
  <2>6. QED
    BY <2>1, <2>2, <2>3, <2>4, <2>5, Zenon
<1>3. Seq(X) \subseteq T
  <2> HIDE DEF T
  <2>1. QED
    BY <1>1, <1>2, SeqInductionSet
<1>4. QED
  BY <1>3

\* All is kept of a sequence over S, and nothing of one over elements outside S.
LEMMA KeepAllOrNone ==
  ASSUME NEW X, NEW S
  PROVE  /\ X \subseteq S => \A s \in Seq(X) : Keep(s, S) = s
         /\ X \cap S = {} => \A s \in Seq(X) : Keep(s, S) = <<>>
<1> DEFINE T == {s \in Seq(X) : Keep(s, S) = s}
           U == {s \in Seq(X) : Keep(s, S) = <<>>}
<1>1. <<>> \in T /\ <<>> \in U
  BY KeepEmpty
<1>2. ASSUME X \subseteq S, NEW s \in Seq(X), NEW x \in X, s \in T
      PROVE  Append(s, x) \in T
  <2>1. Keep(Append(s, x), S) = IF x \in S THEN Append(Keep(s, S), x) ELSE Keep(s, S)
    BY KeepAppend
  <2>2. Keep(s, S) = s /\ x \in S
    BY <1>2
  <2>3. QED
    BY <2>1, <2>2
<1>3. ASSUME X \cap S = {}, NEW s \in Seq(X), NEW x \in X, s \in U
      PROVE  Append(s, x) \in U
  <2>1. Keep(Append(s, x), S) = IF x \in S THEN Append(Keep(s, S), x) ELSE Keep(s, S)
    BY KeepAppend
  <2>2. Keep(s, S) = <<>> /\ x \notin S
    BY <1>3
  <2>3. QED
    BY <2>1, <2>2
<1>4. X \subseteq S => Seq(X) \subseteq T
  <2> HIDE DEF T
  <2>1. QED
    BY <1>1, <1>2, SeqInductionSet
<1>5. X \cap S = {} => Seq(X) \subseteq U
  <2> HIDE DEF U
  <2>1. QED
    BY <1>1, <1>3, SeqInductionSet
<1>6. QED
  BY <1>4, <1>5

\* A filter after a wider one.
LEMMA KeepNarrower ==
  ASSUME NEW X, NEW S, NEW W, S \subseteq W
  PROVE  \A s \in Seq(X) : Keep(Keep(s, W), S) = Keep(s, S)
<1> DEFINE T == {s \in Seq(X) : Keep(Keep(s, W), S) = Keep(s, S)}
<1>1. <<>> \in T
  BY KeepEmpty
<1>2. ASSUME NEW s \in Seq(X), NEW x \in X, s \in T
      PROVE  Append(s, x) \in T
  <2>1. /\ Keep(Append(s, x), W) = IF x \in W THEN Append(Keep(s, W), x) ELSE Keep(s, W)
        /\ Keep(Append(s, x), S) = IF x \in S THEN Append(Keep(s, S), x) ELSE Keep(s, S)
    BY KeepAppend
  <2>2. Keep(s, W) \in Seq(X)
    <3>1. Keep(s, W) \in Seq(X \cap W)
      BY KeepIsSeq
    <3>2. QED
      BY <3>1, SeqMonotonic
  <2>3. Keep(Append(Keep(s, W), x), S)
          = IF x \in S THEN Append(Keep(Keep(s, W), S), x) ELSE Keep(Keep(s, W), S)
    BY <2>2, KeepAppend
  <2>4. Keep(Keep(s, W), S) = Keep(s, S) /\ Append(s, x) \in Seq(X)
    BY <1>2
  <2>5. QED
    BY <2>1, <2>3, <2>4
<1>3. Seq(X) \subseteq T
  <2> HIDE DEF T
  <2>1. QED
    BY <1>1, <1>2, SeqInductionSet
<1>4. QED
  BY <1>3

\* Filters by a set and by its complement share out the sequence.
LEMMA KeepLengths ==
  ASSUME NEW X, NEW S, NEW U, X \subseteq S \cup U, S \cap U = {}
  PROVE  \A s \in Seq(X) : Len(s) = Len(Keep(s, S)) + Len(Keep(s, U))
<1> DEFINE T == {s \in Seq(X) : Len(s) = Len(Keep(s, S)) + Len(Keep(s, U))}
<1>1. <<>> \in T
  BY KeepEmpty
<1>2. ASSUME NEW s \in Seq(X), NEW x \in X, s \in T
      PROVE  Append(s, x) \in T
  <2>1. /\ Keep(Append(s, x), U) = IF x \in U THEN Append(Keep(s, U), x) ELSE Keep(s, U)
        /\ Keep(Append(s, x), S) = IF x \in S THEN Append(Keep(s, S), x) ELSE Keep(s, S)
    BY KeepAppend
  <2> DEFINE a == Keep(s, S)
             b == Keep(s, U)
  <2>2. a \in Seq(X) /\ b \in Seq(X)
    <3>1. a \in Seq(X \cap S) /\ b \in Seq(X \cap U)
      BY KeepIsSeq
    <3> HIDE DEF a, b
    <3>2. QED
      BY <3>1, SeqMonotonic
  <2>3. Len(s) = Len(a) + Len(b)
    BY <1>2
  <2>4. Keep(Append(s, x), U) = (IF x \in U THEN Append(b, x) ELSE b)
        /\ Keep(Append(s, x), S) = (IF x \in S THEN Append(a, x) ELSE a)
    BY <2>1
  <2> HIDE DEF a, b
  <2>5. Len(Append(s, x)) = Len(s) + 1 /\ Len(Append(a, x)) = Len(a) + 1
        /\ Len(Append(b, x)) = Len(b) + 1 /\ Len(a) \in Nat /\ Len(b) \in Nat
    BY <2>2
  <2>6. QED
    BY <2>3, <2>4, <2>5
<1>3. Seq(X) \subseteq T
  <2> HIDE DEF T
  <2>1. QED
    BY <1>1, <1>2, SeqInductionSet
<1>4. QED
  BY <1>3

-----------------------------------------------------------------------------
\* What precedes the i-th element, and what follows it.
Before(s, i) == SubSeq(s, 1, i - 1)
After(s, i)  == SubSeq(s, i + 1, Len(s))

\* A sequence is what precedes an element, the element, and what follows it.
LEMMA RemoveParts ==
  ASSUME NEW X, NEW s \in Seq(X), NEW i \in 1 .. Len(s)
  PROVE  /\ Before(s, i) \in Seq(X) /\ After(s, i) \in Seq(X)
         /\ s = (Before(s, i) \o <<s[i]>>) \o After(s, i)
         /\ RemoveAt(s, i) = Before(s, i) \o After(s, i)
         /\ Len(Before(s, i)) = i - 1 /\ Len(After(s, i)) = Len(s) - i
         /\ \A j \in 1 .. Len(After(s, i)) : After(s, i)[j] = s[i + j]
<1>1. Len(s) \in Nat /\ \A j \in 1 .. Len(s) : s[j] \in X
  OBVIOUS
<1>2. Before(s, i) \in Seq(X) /\ Len(Before(s, i)) = i - 1
  BY <1>1, SubSeqProperties DEF Before
<1>3. /\ After(s, i) \in Seq(X) /\ Len(After(s, i)) = Len(s) - i
      /\ \A j \in 1 .. Len(After(s, i)) : After(s, i)[j] = s[i + j]
  BY <1>1, SubSeqProperties DEF After
<1>4. SubSeq(s, 1, i) = Before(s, i) \o <<s[i]>>
  BY <1>1, SubSeqRecursiveSecond DEF Before
<1>5. SubSeq(s, 1, i) \o After(s, i) = SubSeq(s, 1, Len(s))
  BY <1>1, ConcatAdjacentSubSeq DEF After
<1>6. SubSeq(s, 1, Len(s)) = s
  BY SubSeqFull
<1>7. RemoveAt(s, i) = Before(s, i) \o After(s, i)
  BY DEF RemoveAt, Before, After
<1>8. QED
  BY <1>2, <1>3, <1>4, <1>5, <1>6, <1>7

\* Removing an element keeps a sequence a sequence, one shorter.
LEMMA RemoveIsSeq ==
  ASSUME NEW X, NEW s \in Seq(X), NEW i \in 1 .. Len(s)
  PROVE  RemoveAt(s, i) \in Seq(X) /\ Len(RemoveAt(s, i)) = Len(s) - 1
<1> DEFINE u == Before(s, i)
           v == After(s, i)
<1>1. /\ u \in Seq(X) /\ v \in Seq(X)
      /\ s = (u \o <<s[i]>>) \o v
      /\ RemoveAt(s, i) = u \o v
      /\ Len(u) = i - 1 /\ Len(v) = Len(s) - i
      /\ \A j \in 1 .. Len(v) : v[j] = s[i + j]
  BY RemoveParts
<1> HIDE DEF u, v
<1>2. u \o v \in Seq(X) /\ Len(u \o v) = Len(u) + Len(v)
  BY <1>1, ConcatProperties
<1>3. Len(s) \in Nat
  OBVIOUS
<1>4. QED
  BY <1>1, <1>2, <1>3

\* What a filter keeps when an element is removed: all, if it did not keep that one, and
\* one less otherwise; it loses its last if it kept none of those that follow.
LEMMA KeepRemove ==
  ASSUME NEW X, NEW s \in Seq(X), NEW i \in 1 .. Len(s), NEW S
  PROVE  /\ s[i] \notin S => Keep(RemoveAt(s, i), S) = Keep(s, S)
         /\ s[i] \in S => Len(Keep(s, S)) = Len(Keep(RemoveAt(s, i), S)) + 1
         /\ s[i] \in S /\ (\A j \in i + 1 .. Len(s) : s[j] \notin S) =>
              Keep(s, S) = Append(Keep(RemoveAt(s, i), S), s[i])
<1> DEFINE u == Before(s, i)
           v == After(s, i)
<1>1. /\ u \in Seq(X) /\ v \in Seq(X)
      /\ s = (u \o <<s[i]>>) \o v
      /\ RemoveAt(s, i) = u \o v
      /\ Len(u) = i - 1 /\ Len(v) = Len(s) - i
      /\ \A j \in 1 .. Len(v) : v[j] = s[i + j]
  BY RemoveParts
<1> HIDE DEF u, v
<1> DEFINE a == Keep(u, S)
           b == Keep(v, S)
           x == s[i]
<1>2. x \in X /\ Append(u, x) \in Seq(X) /\ Append(u, x) = u \o <<x>>
  BY <1>1, AppendIsConcat
<1>3. a \in Seq(X) /\ b \in Seq(X) /\ b \in Seq(X \cap S)
  <2>1. a \in Seq(X \cap S) /\ b \in Seq(X \cap S)
    BY <1>1, KeepIsSeq
  <2> HIDE DEF a, b
  <2>2. QED
    BY <2>1, SeqMonotonic
<1>4. Keep(RemoveAt(s, i), S) = a \o b
  BY <1>1, KeepConcat
<1>5. Keep(Append(u, x), S) = IF x \in S THEN Append(a, x) ELSE a
  <2>1. u \in Seq(X) /\ x \in X
    BY <1>1, <1>2
  <2>2. QED
    BY <2>1, KeepAppend, ZenonT(30)
<1>6. Keep(s, S) = Keep(Append(u, x), S) \o b
  <2>1. Keep(Append(u, x) \o v, S) = Keep(Append(u, x), S) \o Keep(v, S)
    BY <1>1, <1>2, KeepConcat
  <2>2. Append(u, x) \o v = s
    BY <1>1, <1>2
  <2>3. QED
    BY <2>1, <2>2
<1>7. CASE x \notin S
  BY <1>4, <1>5, <1>6, <1>7
<1>8. CASE x \in S
  <2>1. Keep(s, S) = Append(a, x) \o b
    BY <1>5, <1>6, <1>8
  <2>2. Len(Keep(s, S)) = Len(Keep(RemoveAt(s, i), S)) + 1
    <3> HIDE DEF a, b, x
    <3>1. /\ Append(a, x) \in Seq(X) /\ Len(Append(a, x)) = Len(a) + 1
          /\ Len(Append(a, x) \o b) = Len(Append(a, x)) + Len(b)
          /\ Len(a \o b) = Len(a) + Len(b) /\ Len(a) \in Nat /\ Len(b) \in Nat
      BY <1>2, <1>3
    <3>2. QED
      BY <1>4, <2>1, <3>1
  <2>3. ASSUME \A j \in i + 1 .. Len(s) : s[j] \notin S
        PROVE  Keep(s, S) = Append(Keep(RemoveAt(s, i), S), x)
    <3>1. Len(s) \in Nat /\ Len(v) \in Nat
      BY <1>1
    <3>2. \A j \in 1 .. Len(v) : v[j] \in X \ S
      <4>1. SUFFICES ASSUME NEW j \in 1 .. Len(v) PROVE v[j] \in X \ S
        OBVIOUS
      <4>2. i + j \in i + 1 .. Len(s) /\ v[j] = s[i + j] /\ v[j] \in X
        BY <1>1, <3>1
      <4>3. QED
        BY <2>3, <4>2
    <3>3. v \in Seq(X \ S)
      <4>1. v \in Seq(X)
        BY <1>1
      <4>2. QED
        BY <3>1, <3>2, <4>1
    <3>4. b = <<>>
      BY <3>3, KeepAllOrNone
    <3>5. Append(a, x) \o <<>> = Append(a, x) /\ a \o <<>> = a
      <4> HIDE DEF a, x
      <4>1. Append(a, x) \in Seq(X)
        BY <1>2, <1>3
      <4>2. QED
        BY <1>3, <4>1, ConcatEmptySeq
    <3>6. QED
      BY <1>4, <2>1, <3>4, <3>5
  <2>4. QED
    BY <1>8, <2>2, <2>3
<1>9. QED
  BY <1>7, <1>8

\* A filter that keeps something keeps a last one.
LEMMA LastKept ==
  ASSUME NEW X, NEW S
  PROVE  \A s \in Seq(X) : Keep(s, S) # <<>> =>
           \E i \in 1 .. Len(s) : /\ s[i] \in S /\ s[i] = Last(Keep(s, S))
                                  /\ \A j \in i + 1 .. Len(s) : s[j] \notin S
<1> DEFINE P(s) == \E i \in 1 .. Len(s) : /\ s[i] \in S /\ s[i] = Last(Keep(s, S))
                                           /\ \A j \in i + 1 .. Len(s) : s[j] \notin S
           T == {s \in Seq(X) : Keep(s, S) # <<>> => P(s)}
<1>1. <<>> \in T
  BY KeepEmpty
<1>2. ASSUME NEW s \in Seq(X), NEW x \in X, s \in T
      PROVE  Append(s, x) \in T
  <2> DEFINE t == Append(s, x)
             a == Keep(s, S)
  <2>1. /\ t \in Seq(X) /\ Len(t) = Len(s) + 1 /\ Len(s) \in Nat
        /\ \A j \in 1 .. Len(s) : t[j] = s[j]
        /\ t[Len(s) + 1] = x
    OBVIOUS
  <2>2. Keep(t, S) = IF x \in S THEN Append(a, x) ELSE a
    BY KeepAppend
  <2>3. a \in Seq(X)
    <3>1. a \in Seq(X \cap S)
      BY KeepIsSeq
    <3> HIDE DEF a
    <3>2. QED
      BY <3>1, SeqMonotonic
  <2>4. CASE x \in S
    <3>1. Last(Keep(t, S)) = x
      <4>1. Keep(t, S) = Append(a, x)
        BY <2>2, <2>4
      <4> HIDE DEF a, t
      <4>2. Len(Append(a, x)) = Len(a) + 1 /\ Append(a, x)[Len(a) + 1] = x
        BY <2>3
      <4>3. QED
        BY <4>1, <4>2 DEF Last
    <3> HIDE DEF t
    <3>2. /\ Len(t) \in 1 .. Len(t) /\ t[Len(t)] = x
          /\ \A j \in Len(t) + 1 .. Len(t) : FALSE
      BY <2>1
    <3>3. P(t)
      BY <2>4, <3>1, <3>2
    <3> HIDE DEF P
    <3>4. QED
      BY <2>1, <3>3 DEF t
  <2>5. CASE x \notin S /\ Keep(t, S) # <<>>
    <3>1. Keep(t, S) = a
      BY <2>2, <2>5
    <3>2. P(s)
      BY <1>2, <2>5, <3>1
    <3>3. PICK i \in 1 .. Len(s) : /\ s[i] \in S /\ s[i] = Last(a)
                                   /\ \A j \in i + 1 .. Len(s) : s[j] \notin S
      BY <3>2
    <3> HIDE DEF t, a
    <3>4. i \in 1 .. Len(t) /\ t[i] = s[i]
      BY <2>1
    <3>5. \A j \in i + 1 .. Len(t) : t[j] \notin S
      <4>1. \A j \in i + 1 .. Len(t) : j \in i + 1 .. Len(s) \/ j = Len(s) + 1
        BY <2>1
      <4>2. \A j \in i + 1 .. Len(s) : t[j] = s[j]
        BY <2>1
      <4>3. QED
        BY <2>1, <2>5, <3>3, <4>1, <4>2
    <3>6. P(t)
      BY <3>1, <3>3, <3>4, <3>5
    <3> HIDE DEF P
    <3>7. QED
      BY <2>1, <3>6 DEF t
  <2>6. QED
    BY <2>1, <2>4, <2>5
<1>3. Seq(X) \subseteq T
  <2> HIDE DEF T
  <2>1. QED
    BY <1>1, <1>2, SeqInductionSet
<1>4. QED
  BY <1>3

\* An element of S is kept: the filter keeps something exactly if there is one.
LEMMA KeepSomething ==
  ASSUME NEW X, NEW s \in Seq(X), NEW S
  PROVE  (\E i \in 1 .. Len(s) : s[i] \in S) <=> Len(Keep(s, S)) > 0
<1>1. Keep(s, S) \in Seq(X \cap S)
  BY KeepIsSeq
<1>2. ASSUME NEW i \in 1 .. Len(s), s[i] \in S
      PROVE  Len(Keep(s, S)) > 0
  <2>1. Len(Keep(s, S)) = Len(Keep(RemoveAt(s, i), S)) + 1
    BY <1>2, KeepRemove
  <2>2. Keep(RemoveAt(s, i), S) \in Seq(X \cap S)
    BY RemoveIsSeq, KeepIsSeq
  <2>3. Len(Keep(RemoveAt(s, i), S)) \in Nat
    BY <2>2, LenProperties
  <2>4. QED
    BY <2>1, <2>3
<1>3. ASSUME Len(Keep(s, S)) > 0
      PROVE  \E i \in 1 .. Len(s) : s[i] \in S
  <2>1. Keep(s, S) # <<>>
    BY <1>3
  <2>2. QED
    BY <2>1, LastKept
<1>4. QED
  BY <1>2, <1>3

\* Two filters may be applied in either order.
LEMMA KeepSwap ==
  ASSUME NEW X, NEW S, NEW W
  PROVE  \A s \in Seq(X) : Keep(Keep(s, W), S) = Keep(Keep(s, S), W)
<1> DEFINE T == {s \in Seq(X) : Keep(Keep(s, W), S) = Keep(Keep(s, S), W)}
<1>1. <<>> \in T
  BY KeepEmpty
<1>2. ASSUME NEW s \in Seq(X), NEW x \in X, s \in T
      PROVE  Append(s, x) \in T
  <2>1. /\ Keep(Append(s, x), W) = IF x \in W THEN Append(Keep(s, W), x) ELSE Keep(s, W)
        /\ Keep(Append(s, x), S) = IF x \in S THEN Append(Keep(s, S), x) ELSE Keep(s, S)
    BY KeepAppend
  <2>2. Keep(s, W) \in Seq(X) /\ Keep(s, S) \in Seq(X)
    <3>1. Keep(s, W) \in Seq(X \cap W) /\ Keep(s, S) \in Seq(X \cap S)
      BY KeepIsSeq
    <3>2. QED
      BY <3>1, SeqMonotonic
  <2>3. /\ Keep(Append(Keep(s, W), x), S)
             = IF x \in S THEN Append(Keep(Keep(s, W), S), x) ELSE Keep(Keep(s, W), S)
        /\ Keep(Append(Keep(s, S), x), W)
             = IF x \in W THEN Append(Keep(Keep(s, S), W), x) ELSE Keep(Keep(s, S), W)
    BY <2>2, KeepAppend
  <2>4. Keep(Keep(s, W), S) = Keep(Keep(s, S), W) /\ Append(s, x) \in Seq(X)
    BY <1>2
  <2>5. QED
    BY <2>1, <2>3, <2>4
<1>3. Seq(X) \subseteq T
  <2> HIDE DEF T
  <2>1. QED
    BY <1>1, <1>2, SeqInductionSet
<1>4. QED
  BY <1>3

\* A nonempty sequence is its front and its last element.
LEMMA FrontLast ==
  ASSUME NEW X, NEW s \in Seq(X), s # <<>>
  PROVE  /\ Front(s) \in Seq(X) /\ Last(s) \in X
         /\ Len(Front(s)) = Len(s) - 1
         /\ \A i \in 1 .. Len(s) - 1 : Front(s)[i] = s[i]
         /\ s = Append(Front(s), Last(s))
<1>1. Len(s) \in Nat \ {0} /\ \A i \in 1 .. Len(s) : s[i] \in X
  BY EmptySeq, ElementOfSeq
<1>2. /\ Front(s) \in Seq(X) /\ Len(Front(s)) = Len(s) - 1
      /\ \A i \in 1 .. Len(s) - 1 : Front(s)[i] = s[i]
  <2>1. PICK m \in Nat : m = Len(s) - 1
    BY <1>1
  <2>2. \A i \in 1 .. m : s[i] \in X
    BY <1>1, <2>1
  <2>3. /\ SubSeq(s, 1, m) \in Seq(X)
        /\ Len(SubSeq(s, 1, m)) = m
        /\ \A i \in 1 .. m : SubSeq(s, 1, m)[i] = s[i]
    BY <2>2, SubSeqProperties
  <2>4. QED
    BY <2>1, <2>3 DEF Front
<1>3. Last(s) \in X /\ Last(s) = s[Len(s)]
  BY <1>1 DEF Last
<1>4. s = Append(Front(s), Last(s))
  <2> DEFINE t == Append(Front(s), Last(s))
  <2>1. /\ t \in Seq(X) /\ Len(t) = Len(s) /\ t[Len(s)] = s[Len(s)]
        /\ \A i \in 1 .. Len(s) - 1 : t[i] = s[i]
    BY <1>1, <1>2, <1>3, AppendProperties
  <2> HIDE DEF t
  <2>2. \A i \in 1 .. Len(s) : s[i] = t[i]
    BY <1>1, <2>1
  <2>3. s = t
    BY <2>1, <2>2, SeqEqual
  <2>4. QED
    BY <2>3 DEF t
<1>5. QED
  BY <1>2, <1>3, <1>4

\* A nonempty set of positions has a greatest element, which Max finds.
LEMMA LastPosition ==
  ASSUME NEW n \in Nat, NEW T \in SUBSET (1 .. n), T # {}
  PROVE  Max(T) \in T /\ \A y \in T : y <= Max(T)
<1> DEFINE U == {k \in Nat : \E x \in T : k = n - x}
<1>1. U \in SUBSET Nat
  OBVIOUS
<1>2. \A x \in T : x \in 1 .. n /\ n - x \in Nat /\ n - x \in U
  OBVIOUS
<1>3. U # {}
  BY <1>2
<1>4. PICK u \in U : \A v \in U : u <= v
  BY <1>1, <1>3, LeastElement
<1>5. PICK x \in T : u = n - x
  BY <1>4
<1>6. \A y \in T : x >= y
  <2>1. TAKE y \in T
  <2>2. u <= n - y /\ x \in 1 .. n /\ y \in 1 .. n
    BY <1>2, <1>4, <2>1
  <2>3. QED
    BY <1>5, <2>2
<1>7. \E z \in T : \A y \in T : z >= y
  BY <1>6
<1>8. Max(T) \in T /\ \A y \in T : Max(T) >= y
  BY <1>7 DEF Max
<1>9. QED
  BY <1>8

-----------------------------------------------------------------------------
(* Folds.  FoldLeft is a recursion over the sets of positions of the        *)
(* sequence; for a step that stays within A it has a solution, and along    *)
(* the prefixes of the positions it is the run of the loop.                 *)

\* The greatest element, when it is known.
LEMMA MaxIs ==
  ASSUME NEW n \in Nat, NEW u \in SUBSET (1 .. n), NEW x \in u, \A y \in u : y <= x
  PROVE  Max(u) = x
<1>1. Max(u) \in u /\ \A y \in u : y <= Max(u)
  BY LastPosition
<1>2. \A y \in u : y \in Int
  OBVIOUS
<1>3. Max(u) \in Int /\ x \in Int /\ x <= Max(u) /\ Max(u) <= x
  BY <1>1, <1>2
<1>4. QED
  BY <1>3

\* The least element.
LEMMA FirstPosition ==
  ASSUME NEW n \in Nat, NEW T \in SUBSET (1 .. n), T # {}
  PROVE  Min(T) \in T /\ \A y \in T : Min(T) <= y
<1>1. T \in SUBSET Nat
  OBVIOUS
<1>2. PICK x \in T : \A y \in T : x <= y
  BY <1>1, LeastElement
<1>3. QED
  BY <1>2 DEF Min

\* The positions up to i.
LEMMA PrefixSets ==
  ASSUME NEW n \in Nat
  PROVE  /\ 1 .. 0 = {} /\ 1 .. 0 \in SUBSET (1 .. n)
         /\ \A i \in 1 .. n : /\ 1 .. i \in SUBSET (1 .. n) /\ 1 .. i # {}
                              /\ Max(1 .. i) = i /\ (1 .. i) \ {i} = 1 .. (i - 1)
<1>1. 1 .. 0 = {} /\ 1 .. 0 \in SUBSET (1 .. n)
  OBVIOUS
<1>2. ASSUME NEW i \in 1 .. n
      PROVE  /\ 1 .. i \in SUBSET (1 .. n) /\ 1 .. i # {}
             /\ Max(1 .. i) = i /\ (1 .. i) \ {i} = 1 .. (i - 1)
  <2>1. 1 .. i \in SUBSET (1 .. n) /\ i \in 1 .. i /\ \A y \in 1 .. i : y <= i
    OBVIOUS
  <2>2. Max(1 .. i) = i
    BY <2>1, MaxIs
  <2>3. (1 .. i) \ {i} = 1 .. (i - 1)
    OBVIOUS
  <2>4. QED
    BY <2>1, <2>2, <2>3
<1>3. QED
  BY <1>1, <1>2, Zenon

\* g solves the recursion whose step is F and whose start is b.
Solves(g, n, A, b, F) ==
  /\ g \in [SUBSET (1 .. n) -> A]
  /\ \A u \in SUBSET (1 .. n) : g[u] = IF u = {} THEN b ELSE F[<<g[u \ {Max(u)}], Max(u)>>]

\* The recursion has a solution.
LEMMA FoldExists ==
  ASSUME NEW A, NEW b \in A, NEW F \in [A \X Nat -> A]
  PROVE  \A n \in Nat : \E g : Solves(g, n, A, b, F)
<1> DEFINE T == {n \in Nat : \E g : Solves(g, n, A, b, F)}
<1>1. 0 \in T
  <2> DEFINE g == [u \in SUBSET (1 .. 0) |-> b]
  <2>1. \A u \in SUBSET (1 .. 0) : u = {}
    OBVIOUS
  <2>2. Solves(g, 0, A, b, F)
    BY <2>1 DEF Solves
  <2>3. QED
    BY <2>2
<1>2. ASSUME NEW n \in Nat, n \in T
      PROVE  n + 1 \in T
  <2>0. PICK g : Solves(g, n, A, b, F)
    BY <1>2
  <2>1. /\ g \in [SUBSET (1 .. n) -> A]
        /\ \A u \in SUBSET (1 .. n) : g[u] = IF u = {} THEN b ELSE F[<<g[u \ {Max(u)}], Max(u)>>]
    BY <2>0 DEF Solves
  <2> DEFINE m == n + 1
             h == [u \in SUBSET (1 .. m) |->
                    IF m \in u THEN F[<<g[u \ {m}], m>>] ELSE g[u]]
  <2>2. \A u \in SUBSET (1 .. m) : /\ u \ {m} \in SUBSET (1 .. n)
                                   /\ m \notin u => u \in SUBSET (1 .. n)
    OBVIOUS
  <2>3. h \in [SUBSET (1 .. m) -> A]
    <3>1. \A u \in SUBSET (1 .. m) : (IF m \in u THEN F[<<g[u \ {m}], m>>] ELSE g[u]) \in A
      BY <2>1, <2>2
    <3>2. QED
      BY <3>1
  <2>4. ASSUME NEW u \in SUBSET (1 .. m)
        PROVE  h[u] = IF u = {} THEN b ELSE F[<<h[u \ {Max(u)}], Max(u)>>]
    <3>1. CASE m \in u
      <4>1. m \in Nat /\ \A y \in u : y <= m
        OBVIOUS
      <4>2. Max(u) = m
        BY <3>1, <4>1, MaxIs
      <4>3. h[u \ {m}] = g[u \ {m}]
        BY <2>2
      <4>4. h[u] = F[<<g[u \ {m}], m>>]
        BY <3>1
      <4>5. QED
        BY <3>1, <4>2, <4>3, <4>4
    <3>2. CASE m \notin u
      <4>1. u \in SUBSET (1 .. n) /\ h[u] = g[u]
        BY <2>2, <3>2
      <4>2. h[u \ {Max(u)}] = g[u \ {Max(u)}]
        <5>1. u \ {Max(u)} \in SUBSET (1 .. m) /\ m \notin u \ {Max(u)}
          BY <3>2
        <5>2. QED
          BY <5>1
      <4>3. g[u] = IF u = {} THEN b ELSE F[<<g[u \ {Max(u)}], Max(u)>>]
        BY <2>1, <4>1
      <4>4. QED
        BY <4>1, <4>2, <4>3
    <3>3. QED
      BY <3>1, <3>2
  <2>5. QED
    <3> HIDE DEF h
    <3>1. Solves(h, m, A, b, F)
      BY <2>3, <2>4 DEF Solves
    <3>2. m \in Nat
      OBVIOUS
    <3>3. QED
      BY <3>1, <3>2
<1>3. Nat \subseteq T
  <2> HIDE DEF T
  <2>1. QED
    BY <1>1, <1>2, NatInductionSet
<1>4. QED
  BY <1>3

\* The greatest position of a set and the positions below it.
LEMMA MaxInside ==
  ASSUME NEW n \in Nat
  PROVE  \A u \in SUBSET (1 .. n) : u # {} =>
           Max(u) \in 1 .. n /\ u \ {Max(u)} \in SUBSET (1 .. n)
<1>1. ASSUME NEW u \in SUBSET (1 .. n), u # {}
      PROVE  Max(u) \in 1 .. n /\ u \ {Max(u)} \in SUBSET (1 .. n)
  <2>1. Max(u) \in u
    BY <1>1, LastPosition
  <2>2. QED
    BY <2>1
<1>2. QED
  BY <1>1

\* Induction up to a bound.
LEMMA UpToInduction ==
  ASSUME NEW n \in Nat, NEW T, 0 \in T, \A i \in 1 .. n : i - 1 \in T => i \in T
  PROVE  n \in T /\ \A i \in 0 .. n : i \in T
<1> DEFINE U == {i \in Nat : i <= n => i \in T}
<1>1. 0 \in U
  OBVIOUS
<1>2. ASSUME NEW i \in Nat, i \in U
      PROVE  i + 1 \in U
  <2>1. CASE i + 1 <= n
    <3>1. i + 1 \in 1 .. n /\ (i + 1) - 1 = i /\ i \in T
      BY <1>2, <2>1
    <3>2. QED
      BY <3>1
  <2>2. QED
    BY <2>1
<1>3. Nat \subseteq U
  <2> HIDE DEF U
  <2>1. QED
    BY <1>1, <1>2, NatInductionSet
<1>4. QED
  BY <1>3
=============================================================================
