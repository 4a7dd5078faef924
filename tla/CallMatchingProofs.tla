------------------------- MODULE CallMatchingProofs -------------------------
(***************************************************************************)
(* Theorems about the operators of CallMatching, for lines and paths of    *)
(* any length: what splitting a line into commands finds and keeps, what   *)
(* "Always allow" offers and a grant covers, and where a path leads.       *)
(***************************************************************************)
EXTENDS CallMatching, SequenceTheorems, WellFoundedInduction, FiniteSetTheorems, TLAPS

-----------------------------------------------------------------------------
(* Induction over the positions of a sequence.                             *)

\* A set of positions has a least one: below it there is no smaller interval 0..n.
LEMMA Least ==
  ASSUME NEW N \in Nat, NEW T \in SUBSET (0..N), T # {}
  PROVE  \E n \in T : \A m \in T : n <= m
  <1> DEFINE S == 0..N
             R == StrictSubsetOrdering(S)
             I == {0..n : n \in T}
  <1>1. IsFiniteSet(S) BY FS_Interval
  <1>2. IsWellFoundedOn(R, FiniteSubsetsOf(S)) BY FS_StrictSubsetOrderingWellFounded
  <1>3. FiniteSubsetsOf(S) = SUBSET S BY <1>1, FS_FiniteSubsetsOfFinite
  <1>4. I \subseteq SUBSET S /\ I # {}
    <2>1. \A n \in T : 0..n \subseteq S OBVIOUS
    <2>2. PICK n : n \in T OBVIOUS
    <2>3. 0..n \in I BY <2>2
    <2>4. QED BY <2>1, <2>3
  <1>5. PICK x \in I : \A y \in I : <<y, x>> \notin R
    <2> HIDE DEF R, I, S
    <2>1. IsWellFoundedOn(R, SUBSET S) BY <1>2, <1>3
    <2>2. QED BY <2>1, <1>4, WFMin
  <1>6. PICK n \in T : x = 0..n OBVIOUS
  <1>7. ASSUME NEW m \in T, m < n PROVE FALSE
    <2>1. 0..m \in SUBSET S /\ 0..n \in SUBSET S /\ 0..m \in I OBVIOUS
    <2>2. 0..m \subseteq 0..n /\ 0..m # 0..n BY <1>7
    <2>3. <<0..m, 0..n>> \in R BY <2>1, <2>2 DEF R, StrictSubsetOrdering
    <2>4. QED BY <1>5, <1>6, <2>1, <2>3
  <1>8. QED BY <1>7

\* And a greatest one.
LEMMA Greatest ==
  ASSUME NEW N \in Nat, NEW T \in SUBSET (0..N), T # {}
  PROVE  \E n \in T : \A m \in T : m <= n
  <1> DEFINE U == {N - n : n \in T}
  <1>1. U \in SUBSET (0..N) /\ U # {}
    <2>1. \A n \in T : N - n \in 0..N OBVIOUS
    <2>2. PICK n : n \in T OBVIOUS
    <2>3. N - n \in U BY <2>2
    <2>4. QED BY <2>1, <2>3
  <1>2. PICK u \in U : \A v \in U : u <= v BY <1>1, Least
  <1>3. PICK n \in T : u = N - n BY <1>2
  <1>4. ASSUME NEW m \in T PROVE m <= n
    <2>1. N - m \in U /\ m \in 0..N /\ n \in 0..N OBVIOUS
    <2>2. N - n <= N - m BY <1>2, <1>3, <2>1
    <2>3. QED BY <2>1, <2>2
  <1>5. QED BY <1>4

\* Min and Max of positions are what they are called.
LEMMA MinMax ==
  ASSUME NEW N \in Nat, NEW T \in SUBSET (0..N), T # {}
  PROVE  /\ Min(T) \in T /\ \A m \in T : Min(T) <= m
         /\ Max(T) \in T /\ \A m \in T : m <= Max(T)
  <1>1. \E n \in T : \A m \in T : n <= m BY Least
  <1>2. \E n \in T : \A m \in T : n >= m BY Greatest
  <1>3. Max(T) \in T /\ \A m \in T : Max(T) >= m BY <1>2 DEF Max
  <1>4. QED BY <1>1, <1>3 DEF Min

\* What holds of 0 and is handed on from each position to the next holds of all.
LEMMA Induction ==
  ASSUME NEW N \in Nat, NEW A, 0 \in A, \A n \in 1..N : n - 1 \in A => n \in A
  PROVE  0..N \subseteq A
  <1> SUFFICES ASSUME (0..N) \ A # {} PROVE FALSE OBVIOUS
  <1> DEFINE T == (0..N) \ A
  <1>1. PICK n \in T : \A m \in T : n <= m BY Least
  <1>2. n # 0 /\ n - 1 \in 0..N /\ n \in 1..N /\ ~ n <= n - 1 OBVIOUS
  <1>3. n - 1 \in A BY <1>1, <1>2
  <1>4. QED BY <1>2, <1>3

\* From base on, f[n] makes the value at n of the one before it.
Computed(g, N, base, f) == g[0] = base /\ \A n \in 1..N : g[n] = f[n][g[n - 1]]

\* A value that is computed from the one before it exists at every position.
LEMMA Recursion ==
  ASSUME NEW N \in Nat, NEW A, NEW base \in A, NEW f \in [1..N -> [A -> A]]
  PROVE  \E g \in [0..N -> A] : Computed(g, N, base, f)
  <1> DEFINE Upto(k, g) == /\ g \in [0..k -> A] /\ g[0] = base
                           /\ \A n \in 1..k : g[n] = f[n][g[n - 1]]
             D == {k \in 0..N : \E g : Upto(k, g)}
  <1>1. 0 \in D
    <2>1. Upto(0, [n \in 0..0 |-> base]) OBVIOUS
    <2> HIDE DEF Upto
    <2>2. QED BY <2>1
  <1>2. ASSUME NEW k \in 1..N, k - 1 \in D PROVE k \in D
    <2>1. PICK g : Upto(k - 1, g) BY <1>2
    <2> DEFINE h == [n \in 0..k |-> IF n = k THEN f[k][g[k - 1]] ELSE g[n]]
    <2>2. k - 1 \in 0..(k - 1) /\ g[k - 1] \in A BY <2>1
    <2>3. f[k][g[k - 1]] \in A BY <2>2
    <2>4. \A n \in 0..k : h[n] \in A BY <2>1, <2>3
    <2>5. h[0] = base BY <2>1
    <2>6. ASSUME NEW n \in 1..k PROVE h[n] = f[n][h[n - 1]]
      <3>1. h[n - 1] = g[n - 1] OBVIOUS
      <3>2. CASE n = k BY <3>1, <3>2
      <3>3. CASE n \in 1..(k - 1) BY <2>1, <3>1, <3>3
      <3>4. QED BY <3>2, <3>3
    <2>7. Upto(k, h) BY <2>4, <2>5, <2>6
    <2> HIDE DEF Upto, h
    <2>8. QED BY <2>7
  <1>3. N \in D
    <2> HIDE DEF D
    <2>1. 0..N \subseteq D BY <1>1, <1>2, Induction
    <2>2. QED BY <2>1
  <1>4. PICK g : Upto(N, g) BY <1>3
  <1>5. QED BY <1>4 DEF Computed

-----------------------------------------------------------------------------
(* What strip and split make of a sequence.                                *)

\* x is what stands in t from i to j.
Copy(x, t, i, j) ==
  Len(x) = j - i + 1 /\ \A k \in 1..(j - i + 1) : x[k] = t[i + k - 1]

\* A subsequence.
LEMMA SubSeqIs ==
  ASSUME NEW W, NEW t \in Seq(W), NEW i \in 1..Len(t), NEW j \in i..Len(t)
  PROVE  SubSeq(t, i, j) \in Seq(W) /\ Copy(SubSeq(t, i, j), t, i, j)
  <1>1. Len(t) \in Nat /\ \A k \in i..j : t[k] \in W BY LenProperties
  <1>2. /\ SubSeq(t, i, j) \in Seq(W) /\ Len(SubSeq(t, i, j)) = j - i + 1
        /\ \A k \in 1..(j - i + 1) : SubSeq(t, i, j)[k] = t[i + k - 1]
    BY <1>1, SubSeqProperties
  <1>3. QED BY <1>2 DEF Copy

\* What is kept stands at positions.
LEMMA KeptMinMax ==
  ASSUME NEW W, NEW t \in Seq(W), NEW S, Kept(t, S) # {}
  PROVE  /\ Min(Kept(t, S)) \in Kept(t, S) /\ \A i \in Kept(t, S) : Min(Kept(t, S)) <= i
         /\ Max(Kept(t, S)) \in Kept(t, S) /\ \A i \in Kept(t, S) : i <= Max(Kept(t, S))
  <1>1. Len(t) \in Nat /\ Kept(t, S) \in SUBSET (0..Len(t)) BY LenProperties DEF Kept
  <1> HIDE DEF Kept
  <1>2. QED BY <1>1, MinMax

\* str.strip leaves what stands between the first and the last that it does not take.
Between(t, S, p, q) ==
  /\ p \in 1..Len(t) /\ q \in 1..Len(t) /\ p <= q /\ t[p] \notin S /\ t[q] \notin S
  /\ Trim(t, S) # <<>> /\ Copy(Trim(t, S), t, p, q)
  /\ \A k \in 1..Len(t) : k < p \/ k > q => t[k] \in S

LEMMA TrimIs ==
  ASSUME NEW W, NEW t \in Seq(W), NEW S
  PROVE  /\ Trim(t, S) \in Seq(W)
         /\ Kept(t, S) = {} => Trim(t, S) = <<>>
         /\ Kept(t, S) # {} => \E p, q : Between(t, S, p, q)
  <1>1. CASE Kept(t, S) = {} BY <1>1, EmptySeq DEF Trim
  <1>2. CASE Kept(t, S) # {}
    <2> DEFINE p == Min(Kept(t, S))
               q == Max(Kept(t, S))
    <2>1. p \in Kept(t, S) /\ q \in Kept(t, S) /\ \A i \in Kept(t, S) : p <= i /\ i <= q
      BY <1>2, KeptMinMax
    <2>2. Trim(t, S) = SubSeq(t, p, q) BY <1>2 DEF Trim
    <2> HIDE DEF p, q
    <2>3. /\ p \in 1..Len(t) /\ q \in 1..Len(t) /\ p <= q /\ t[p] \notin S /\ t[q] \notin S
          /\ Len(t) \in Nat
      BY <2>1, LenProperties DEF Kept
    <2>4. SubSeq(t, p, q) \in Seq(W) /\ Copy(SubSeq(t, p, q), t, p, q)
      BY <2>3, SubSeqIs
    <2>5. SubSeq(t, p, q) # <<>>
      <3>1. Len(SubSeq(t, p, q)) = q - p + 1 /\ Len(<<>>) = 0 BY <2>4, EmptySeq DEF Copy
      <3>2. q - p + 1 # 0 BY <2>3
      <3>3. QED BY <3>1, <3>2
    <2>6. \A k \in 1..Len(t) : k < p \/ k > q => t[k] \in S
      BY <2>1, <2>3, LenProperties DEF Kept
    <2>7. QED BY <1>2, <2>2, <2>3, <2>4, <2>5, <2>6 DEF Between
  <1>3. QED BY <1>1, <1>2

\* One piece between what is stripped is what is left.
LEMMA TrimOne ==
  ASSUME NEW W, NEW t \in Seq(W), NEW S, NEW d \in 1..Len(t), t[d] \notin S,
         \A k \in 1..Len(t) : k # d => t[k] \in S
  PROVE  Trim(t, S) = <<t[d]>>
  <1>1. DOMAIN t = 1..Len(t) /\ Len(t) \in Nat /\ t[d] \in W BY LenProperties
  <1>2. d \in Kept(t, S) BY <1>1 DEF Kept
  <1>3. PICK p, q : Between(t, S, p, q) BY <1>2, TrimIs
  <1>4. p = d /\ q = d BY <1>1, <1>3 DEF Between
  <1>5. d - d + 1 = 1 /\ d + 1 - 1 = d BY <1>1
  <1>6. Len(Trim(t, S)) = 1 /\ Trim(t, S)[1] = t[d]
    BY <1>3, <1>4, <1>5 DEF Between, Copy
  <1>7. <<t[d]>> \in Seq(W) /\ Len(<<t[d]>>) = 1 /\ <<t[d]>>[1] = t[d] BY <1>1
  <1>8. Trim(t, S) \in Seq(W) BY TrimIs
  <1>9. QED BY <1>6, <1>7, <1>8, SeqEqual

\* str.split: the part that begins at i ends at e.
PartEnds(t, i, e, E) ==
  /\ e \in i..Len(t)
  /\ e = Len(t) \/ t[e + 1] \in E
  /\ \A k \in i..e : t[k] \notin E

LEMMA PartIs ==
  ASSUME NEW W, NEW t \in Seq(W), NEW E, NEW i \in 1..Len(t), t[i] \notin E
  PROVE  /\ PartEnds(t, i, End(t, i, E), E)
         /\ PartAt(t, i, E) \in Seq(W) /\ Copy(PartAt(t, i, E), t, i, End(t, i, E))
  <1> DEFINE T == {j \in i..Len(t) : j = Len(t) \/ t[j + 1] \in E}
             e == Min(T)
  <1>1. Len(t) \in Nat BY LenProperties
  <1>2. T \in SUBSET (0..Len(t)) /\ T # {}
    <2>1. Len(t) \in T BY <1>1
    <2>2. QED BY <1>1, <2>1
  <1>3. e \in T /\ \A j \in T : e <= j
    <2> HIDE DEF T
    <2>1. QED BY <1>1, <1>2, MinMax
  <1>4. End(t, i, E) = e BY DEF End
  <1> HIDE DEF e
  <1>5. e \in i..Len(t) /\ (e = Len(t) \/ t[e + 1] \in E) BY <1>3
  <1>6. ASSUME NEW k \in i..e PROVE t[k] \notin E
    <2>1. SUFFICES ASSUME t[k] \in E PROVE FALSE OBVIOUS
    <2>2. k - 1 \in i..Len(t) /\ k - 1 + 1 = k /\ k - 1 < e BY <1>1, <1>5, <2>1
    <2>3. k - 1 \in T BY <2>1, <2>2
    <2>4. e <= k - 1 BY <1>3, <2>3
    <2>5. QED BY <1>1, <1>5, <2>2, <2>4
  <1>7. PartAt(t, i, E) = SubSeq(t, i, e) BY <1>4 DEF PartAt
  <1>8. QED BY <1>4, <1>5, <1>6, <1>7, SubSeqIs DEF PartEnds

\* It ends at one position only.
LEMMA EndUnique ==
  ASSUME NEW W, NEW t \in Seq(W), NEW E, NEW i \in 1..Len(t), NEW e,
         PartEnds(t, i, e, E)
  PROVE  End(t, i, E) = e
  <1>1. Len(t) \in Nat /\ e \in i..Len(t) BY LenProperties DEF PartEnds
  <1>2. t[i] \notin E BY <1>1 DEF PartEnds
  <1>3. PartEnds(t, i, End(t, i, E), E) BY <1>2, PartIs
  <1> DEFINE f == End(t, i, E)
  <1>4. f \in i..Len(t) BY <1>3 DEF PartEnds
  <1>5. ~ f < e
    <2>1. SUFFICES ASSUME f < e PROVE FALSE OBVIOUS
    <2>2. f # Len(t) /\ f + 1 \in i..e BY <1>1, <1>4, <2>1
    <2>3. QED BY <1>3, <2>2 DEF PartEnds
  <1>6. ~ e < f
    <2>1. SUFFICES ASSUME e < f PROVE FALSE OBVIOUS
    <2>2. e # Len(t) /\ e + 1 \in i..f BY <1>1, <1>4, <2>1
    <2>3. QED BY <1>3, <2>2 DEF PartEnds
  <1>7. QED BY <1>1, <1>4, <1>5, <1>6

\* A part of one piece.
LEMMA PartOfOne ==
  ASSUME NEW W, NEW t \in Seq(W), NEW E, NEW i \in 1..Len(t), t[i] \notin E,
         i = Len(t) \/ t[i + 1] \in E
  PROVE  PartAt(t, i, E) = <<t[i]>>
  <1>1. Len(t) \in Nat /\ t[i] \in W BY LenProperties
  <1>2. PartEnds(t, i, i, E) BY <1>1 DEF PartEnds
  <1>3. PartAt(t, i, E) \in Seq(W) /\ Copy(PartAt(t, i, E), t, i, i)
    BY <1>2, EndUnique, PartIs
  <1>4. i - i + 1 = 1 /\ i + 1 - 1 = i BY <1>1
  <1>5. Len(PartAt(t, i, E)) = 1 /\ PartAt(t, i, E)[1] = t[i] BY <1>3, <1>4 DEF Copy
  <1>6. <<t[i]>> \in Seq(W) /\ Len(<<t[i]>>) = 1 /\ <<t[i]>>[1] = t[i] BY <1>1
  <1>7. QED BY <1>3, <1>5, <1>6, SeqEqual

\* Every piece that does not separate is in a part.
LEMMA PartAround ==
  ASSUME NEW W, NEW t \in Seq(W), NEW E, NEW z \in 1..Len(t), t[z] \notin E
  PROVE  \E i \in Starts(t, E) :
           /\ i \in 1..Len(t) /\ t[i] \notin E /\ i <= z /\ z <= End(t, i, E)
           /\ PartAt(t, i, E) \in Split(t, E)
  <1>1. Len(t) \in Nat /\ DOMAIN t = 1..Len(t) BY LenProperties
  <1> DEFINE T == {i \in 1..z : \A j \in i..z : t[j] \notin E}
  <1>2. z \in T /\ T \in SUBSET (0..Len(t)) BY <1>1
  <1>3. PICK i \in T : \A m \in T : i <= m
    <2> HIDE DEF T
    <2>1. QED BY <1>1, <1>2, Least
  <1>4. i \in 1..Len(t) /\ i <= z /\ \A j \in i..z : t[j] \notin E BY <1>1, <1>3
  <1>5. t[i] \notin E BY <1>1, <1>4
  <1>6. i = 1 \/ t[i - 1] \in E
    <2>1. SUFFICES ASSUME i # 1, t[i - 1] \notin E PROVE FALSE OBVIOUS
    <2>2. i - 1 \in 1..z /\ \A j \in (i - 1)..z : j = i - 1 \/ j \in i..z
      BY <1>1, <1>4, <2>1
    <2>3. i - 1 \in T BY <1>4, <2>1, <2>2
    <2>4. QED BY <1>3, <1>4, <2>3
  <1>7. i \in Starts(t, E) BY <1>1, <1>4, <1>5, <1>6 DEF Starts
  <1>8. PartEnds(t, i, End(t, i, E), E) BY <1>4, <1>5, PartIs
  <1>9. z <= End(t, i, E)
    <2> DEFINE e == End(t, i, E)
    <2>1. SUFFICES ASSUME e < z PROVE FALSE BY <1>1, <1>4, <1>8 DEF PartEnds
    <2>2. e \in i..Len(t) /\ e # Len(t) /\ e + 1 \in i..z BY <1>1, <1>4, <1>8, <2>1 DEF PartEnds
    <2>3. QED BY <1>4, <1>8, <2>2 DEF PartEnds
  <1>10. PartAt(t, i, E) \in Split(t, E) BY <1>7 DEF Split
  <1>11. QED BY <1>4, <1>5, <1>7, <1>9, <1>10

-----------------------------------------------------------------------------
(* The first two words.                                                    *)

\* The command of a line that does not begin with a blank ends at a blank, or at the end.
Leads(s, e) == PartEnds(s, 1, e, Blank) /\ Copy(Program(s), s, 1, e)

LEMMA ProgramIsFirst ==
  ASSUME NEW W, NEW s \in Seq(W), s # <<>>, s[1] \notin Blank
  PROVE  /\ Len(s) \in Nat \ {0} /\ DOMAIN s = 1..Len(s)
         /\ 1 \in Starts(s, Blank) /\ Min(Starts(s, Blank)) = 1
         /\ Program(s) \in Seq(W) /\ Program(s) = PartAt(s, 1, Blank)
         /\ Leads(s, End(s, 1, Blank))
  <1>1. Len(s) \in Nat \ {0} /\ DOMAIN s = 1..Len(s) BY LenProperties, EmptySeq
  <1>2. 1 \in Starts(s, Blank) /\ Starts(s, Blank) \in SUBSET (0..Len(s))
    BY <1>1 DEF Starts
  <1>3. Min(Starts(s, Blank)) \in Starts(s, Blank) /\ Min(Starts(s, Blank)) <= 1
    BY <1>1, <1>2, MinMax
  <1>4. Min(Starts(s, Blank)) \in 1..Len(s) BY <1>1, <1>3 DEF Starts
  <1>5. Min(Starts(s, Blank)) = 1 BY <1>1, <1>3, <1>4
  <1>6. Program(s) = PartAt(s, 1, Blank) BY <1>5 DEF Program
  <1>7. 1 \in 1..Len(s) BY <1>1
  <1>8. /\ PartEnds(s, 1, End(s, 1, Blank), Blank)
        /\ PartAt(s, 1, Blank) \in Seq(W)
        /\ Copy(PartAt(s, 1, Blank), s, 1, End(s, 1, Blank))
    BY <1>7, PartIs
  <1>9. QED BY <1>1, <1>2, <1>5, <1>6, <1>8 DEF Leads

\* Where a command ends there is a second word, if a blank and no second blank follow.
LEMMA SecondIsSecond ==
  ASSUME NEW W, NEW s \in Seq(W), s # <<>>, s[1] \notin Blank, NEW e, Leads(s, e)
  PROVE  /\ \A j \in Others(s) : j \in (e + 2)..Len(s) /\ s[j] \notin Blank
         /\ e + 2 <= Len(s) /\ s[e + 2] \notin Blank
              => HasSecond(s) /\ Second(s) = PartAt(s, e + 2, Blank)
  <1>1. Len(s) \in Nat \ {0} /\ DOMAIN s = 1..Len(s) /\ Min(Starts(s, Blank)) = 1
    BY ProgramIsFirst
  <1>2. e \in 1..Len(s) /\ (e = Len(s) \/ s[e + 1] \in Blank) /\ \A k \in 1..e : s[k] \notin Blank
    BY DEF Leads, PartEnds
  <1>0. e \in Nat /\ Len(s) \in Nat /\ 1 <= e /\ e <= Len(s)
    <2>1. Len(s) \in Nat BY <1>1
    <2>2. e \in 1..Len(s) BY <1>2
    <2>3. QED BY <2>1, <2>2
  <1>3. Others(s) = {j \in 2..Len(s) : s[j] \notin Blank /\ s[j - 1] \in Blank}
    <2>1. Others(s) = Starts(s, Blank) \ {1} BY <1>1 DEF Others
    <2>2. QED BY <1>1, <2>1 DEF Starts
  <1>4. ASSUME NEW j \in Others(s) PROVE j \in (e + 2)..Len(s) /\ s[j] \notin Blank
    <2>1. j \in 2..Len(s) /\ s[j] \notin Blank /\ s[j - 1] \in Blank BY <1>3
    <2>2. j - 1 \notin 1..e BY <1>2, <2>1
    <2>3. j # e + 1
      <3>1. SUFFICES ASSUME j = e + 1 PROVE FALSE OBVIOUS
      <3>2. e # Len(s)
        <4>1. j <= Len(s) BY <1>0, <2>1
        <4>2. QED BY <1>0, <3>1, <4>1
      <3>3. QED BY <1>2, <2>1, <3>1, <3>2
    <2>4. j \in Nat /\ 2 <= j /\ j <= Len(s) BY <1>0, <2>1
    <2>5. e < j - 1 BY <1>0, <2>2, <2>4
    <2>6. QED BY <1>0, <2>1, <2>4, <2>5
  <1>5. ASSUME e + 2 <= Len(s), s[e + 2] \notin Blank
        PROVE  HasSecond(s) /\ Second(s) = PartAt(s, e + 2, Blank)
    <2>1. e # Len(s) /\ e + 2 \in 2..Len(s) /\ e + 2 - 1 = e + 1 BY <1>0, <1>5
    <2>2. e + 2 \in Others(s) BY <1>2, <1>3, <1>5, <2>1
    <2>3. Others(s) \in SUBSET (0..Len(s)) BY <1>1, <1>3
    <2>4. Min(Others(s)) \in Others(s) /\ Min(Others(s)) <= e + 2
      BY <1>1, <2>2, <2>3, MinMax
    <2>5. Min(Others(s)) = e + 2 BY <1>0, <1>4, <2>4
    <2>6. QED BY <2>2, <2>5 DEF HasSecond, Second
  <1>6. QED BY <1>4, <1>5

-----------------------------------------------------------------------------
-----------------------------------------------------------------------------
(* Splitting a line into commands (grants.split_segments).                 *)

\* What the loop has at hand.
Cuts(W) == [segments : SUBSET Seq(W), current : Seq(W), quote : SUBSET W]

\* One piece more.
LEMMA CutType ==
  ASSUME NEW W, NEW a \in Cuts(W), NEW w \in W
  PROVE  Cut(a, w) \in Cuts(W)
  <1>1. Append(a.current, w) \in Seq(W) BY AppendProperties DEF Cuts
  <1>2. Trim(a.current, Blank) \in Seq(W) /\ <<>> \in Seq(W) BY TrimIs, EmptySeq DEF Cuts
  <1>3. QED BY <1>1, <1>2 DEF Cut, Cuts

\* The loop goes over the pieces one by one.
LEMMA ScanIs ==
  ASSUME NEW W, NEW t \in Seq(W)
  PROVE  /\ Len(t) \in Nat
         /\ Scan(t) \in [0..Len(t) -> Cuts(W)]
         /\ Scan(t)[0] = NothingCut
         /\ \A n \in 1..Len(t) : t[n] \in W /\ Scan(t)[n] = Cut(Scan(t)[n - 1], t[n])
  <1> DEFINE N == Len(t)
             Table == [n \in 1..N |-> [a \in Cuts(W) |-> Cut(a, t[n])]]
             Loop(g) == g = [n \in 0..N |-> IF n = 0 THEN NothingCut
                                            ELSE Cut(g[n - 1], t[n])]
  <1>1. N \in Nat /\ \A n \in 1..N : t[n] \in W BY LenProperties
  <1>2. NothingCut \in Cuts(W) BY EmptySeq DEF NothingCut, Cuts
  <1>3. Table \in [1..N -> [Cuts(W) -> Cuts(W)]] BY <1>1, CutType
  <1>4. \E g : Loop(g)
    <2> HIDE DEF Table, N
    <2>1. PICK g \in [0..N -> Cuts(W)] : Computed(g, N, NothingCut, Table)
      BY <1>1, <1>2, <1>3, Recursion
    <2>2. \A n \in 1..N : n - 1 \in 0..N BY <1>1
    <2>3. \A n \in 1..N : Table[n][g[n - 1]] = Cut(g[n - 1], t[n])
      BY <2>1, <2>2 DEF Table, Computed
    <2>4. \A n \in 0..N : g[n] = IF n = 0 THEN NothingCut ELSE Cut(g[n - 1], t[n])
      BY <2>1, <2>3, <1>1 DEF Computed
    <2>5. g = [n \in 0..N |-> g[n]] BY <2>1
    <2>6. Loop(g) BY <2>4, <2>5
    <2> HIDE DEF Loop
    <2>7. QED BY <2>6
  <1>5. Scan(t) = CHOOSE g : Loop(g) BY DEF Scan
  <1>6. Loop(Scan(t)) BY <1>4, <1>5
  <1>7. Scan(t)[0] = NothingCut BY <1>1, <1>6
  <1>8. \A n \in 1..N : Scan(t)[n] = Cut(Scan(t)[n - 1], t[n]) BY <1>1, <1>6
  <1>9. \A n \in 0..N : Scan(t)[n] \in Cuts(W)
    <2> DEFINE D == {n \in 0..N : Scan(t)[n] \in Cuts(W)}
    <2>1. 0 \in D BY <1>1, <1>2, <1>7
    <2>2. \A n \in 1..N : n - 1 \in D => n \in D BY <1>1, <1>8, CutType
    <2>3. 0..N \subseteq D
      <3> HIDE DEF D, N
      <3>1. QED BY <1>1, <2>1, <2>2, Induction
    <2>4. QED BY <2>3
  <1>10. Scan(t) \in [0..N -> Cuts(W)] BY <1>6, <1>9
  <1>11. QED BY <1>1, <1>7, <1>8, <1>10

\* s stands in t from p on: at a piece that is no operator, with nothing but blanks
\* between that piece and the operator before it, and up to a blank, an operator or the end.
StandsAt(s, t, p) ==
  /\ p \in 1..Len(t) /\ p + Len(s) <= Len(t) + 1
  /\ \A i \in 1..Len(s) : s[i] = t[p + i - 1]
  /\ t[p] \notin Operators \cup Blank
  /\ \A k \in 1..(p - 1) : t[k] \in Blank \/ \E m \in k..(p - 1) : t[m] \in Operators
  /\ p + Len(s) <= Len(t) => t[p + Len(s)] \in Operators \cup Blank

\* s is a command of the line t.
CommandOf(s, t) == s # <<>> /\ \E p : StandsAt(s, t, p)

\* What is at hand after n pieces began behind an operator, at p, and has none but in quotes.
AtHandFrom(p, t, n, a) ==
  /\ Len(a.current) = n - p + 1 /\ \A i \in 1..(n - p + 1) : a.current[i] = t[p + i - 1]
  /\ p = 1 \/ t[p - 1] \in Operators
  /\ \A i \in p..n : t[i] \in Operators => \E j \in p..(i - 1) : t[j] \in Quotes
  /\ a.quote # {} => \E j \in p..n : t[j] \in Quotes

AtHand(t, n, a) == \E p \in 1..(n + 1) : AtHandFrom(p, t, n, a)

\* What was cut off are commands, and nothing has been dropped.
Found(t, n, a) ==
  /\ \A s \in a.segments : s = <<>> \/ CommandOf(s, t)
  /\ \A i \in 1..n : \/ t[i] \in Operators \cup Blank \cup Pieces(a.current)
                     \/ \E s \in a.segments : t[i] \in Pieces(s)

\* What is at hand is a command when it is cut off.
LEMMA CutOff ==
  ASSUME NEW W, NEW t \in Seq(W), NEW n \in 0..Len(t), NEW a \in Cuts(W), AtHand(t, n, a),
         n < Len(t) => t[n + 1] \in Operators
  PROVE  Trim(a.current, Blank) = <<>> \/ CommandOf(Trim(a.current, Blank), t)
  <1>1. Len(t) \in Nat /\ a.current \in Seq(W) BY LenProperties DEF Cuts
  <1>2. PICK p \in 1..(n + 1) : AtHandFrom(p, t, n, a) BY DEF AtHand
  <1>3. CASE Kept(a.current, Blank) = {} BY <1>1, <1>3, TrimIs
  <1>4. CASE Kept(a.current, Blank) # {}
    <2> DEFINE c == a.current
               s == Trim(c, Blank)
    <2>0. PICK P, Q : Between(c, Blank, P, Q) BY <1>1, <1>4, TrimIs
    <2>1. /\ P \in 1..Len(c) /\ Q \in 1..Len(c)
          /\ P <= Q /\ c[P] \notin Blank /\ s # <<>> /\ Len(s) = Q - P + 1
          /\ \A i \in 1..(Q - P + 1) : s[i] = c[P + i - 1]
          /\ \A k \in 1..Len(c) : k < P \/ k > Q => c[k] \in Blank
      BY <2>0 DEF Between, Copy
    <2> HIDE DEF s
    <2>2. /\ Len(c) = n - p + 1 /\ \A i \in 1..(n - p + 1) : c[i] = t[p + i - 1]
          /\ p = 1 \/ t[p - 1] \in Operators
          /\ \A i \in p..n : t[i] \in Operators => \E j \in p..(i - 1) : t[j] \in Quotes
      BY <1>2 DEF AtHandFrom
    <2> HIDE DEF c
    <2> DEFINE r == p + P - 1
    <2>3. r \in 1..Len(t) /\ r \in p..n /\ t[r] = c[P] BY <1>1, <2>1, <2>2
    <2>4. r + Len(s) <= Len(t) + 1 BY <1>1, <2>1, <2>2
    <2>5. ASSUME NEW i \in 1..Len(s) PROVE s[i] = t[r + i - 1]
      <3>1. i \in 1..(Q - P + 1) /\ P + i - 1 \in 1..(n - p + 1) BY <1>1, <2>1, <2>2
      <3>2. s[i] = c[P + i - 1] BY <2>1, <3>1
      <3>3. c[P + i - 1] = t[p + (P + i - 1) - 1] BY <2>2, <3>1
      <3>4. p + (P + i - 1) - 1 = r + i - 1 BY <1>1, <2>1, <2>2, <3>1
      <3>5. QED BY <3>2, <3>3, <3>4
    <2>6. \A k \in p..(r - 1) : t[k] \in Blank
      <3>1. ASSUME NEW k \in p..(r - 1) PROVE t[k] \in Blank
        <4>1. k - p + 1 \in 1..Len(c) /\ k - p + 1 < P /\ p + (k - p + 1) - 1 = k
          BY <1>1, <2>1, <2>2
        <4>2. c[k - p + 1] \in Blank BY <2>1, <4>1
        <4>3. c[k - p + 1] = t[p + (k - p + 1) - 1] BY <2>2, <4>1
        <4>4. QED BY <4>1, <4>2, <4>3
      <3>2. QED BY <3>1
    <2>7. t[r] \notin Operators
      <3>1. SUFFICES ASSUME t[r] \in Operators PROVE FALSE OBVIOUS
      <3>2. PICK j \in p..(r - 1) : t[j] \in Quotes BY <2>2, <2>3, <3>1
      <3>3. QED BY <2>6, <3>2, MatchingAssumption
    <2>8. ASSUME NEW k \in 1..(r - 1), t[k] \notin Blank
          PROVE  \E m \in k..(r - 1) : t[m] \in Operators
      <3>1. k < p BY <2>6, <2>8, <1>1, <2>3
      <3>2. p - 1 \in k..(r - 1) /\ t[p - 1] \in Operators BY <2>2, <2>3, <3>1, <1>1
      <3>3. QED BY <3>2
    <2> HIDE DEF r
    <2>9. ASSUME r + Len(s) <= Len(t) PROVE t[r + Len(s)] \in Operators \cup Blank
      <3>1. r + Len(s) = p + Q BY <1>1, <2>1, <2>2 DEF r
      <3>2. CASE Q = Len(c)
        <4>1. p + Q = n + 1 /\ n < Len(t) BY <1>1, <2>1, <2>2, <2>9, <3>1, <3>2
        <4>2. QED BY <3>1, <4>1
      <3>3. CASE Q # Len(c)
        <4>1. Q + 1 \in 1..(n - p + 1) /\ Q + 1 > Q /\ p + (Q + 1) - 1 = p + Q
          BY <1>1, <2>1, <2>2, <3>3
        <4>2. c[Q + 1] \in Blank /\ c[Q + 1] = t[p + (Q + 1) - 1] BY <2>1, <2>2, <4>1
        <4>3. QED BY <3>1, <4>1, <4>2
      <3>4. QED BY <3>2, <3>3
    <2>11. t[r] \notin Blank BY <2>1, <2>3
    <2>12. StandsAt(s, t, r) BY <2>3, <2>4, <2>5, <2>7, <2>8, <2>9, <2>11 DEF StandsAt
    <2>13. CommandOf(s, t) BY <2>1, <2>12 DEF CommandOf
    <2>14. QED BY <2>13 DEF s, c
  <1>5. QED BY <1>3, <1>4

\* One piece more is at hand, or an operator begins anew.
LEMMA AtHandNext ==
  ASSUME NEW W, NEW t \in Seq(W), NEW n \in 1..Len(t), NEW a \in Cuts(W),
         AtHand(t, n - 1, a)
  PROVE  AtHand(t, n, Cut(a, t[n]))
  <1>1. Len(t) \in Nat /\ t[n] \in W /\ n - 1 + 1 = n BY LenProperties
  <1>2. PICK p \in 1..n : AtHandFrom(p, t, n - 1, a) BY <1>1 DEF AtHand
  <1> DEFINE w == t[n]
             b == Cut(a, w)
  <1>3. CASE a.quote = {} /\ w \notin Quotes /\ w \in Operators
    <2>1. b.current = <<>> /\ b.quote = {} BY <1>3 DEF Cut, Cuts
    <2> HIDE DEF b
    <2>2. Len(b.current) = 0 BY <2>1, EmptySeq
    <2>3. n + 1 - 1 = n /\ n - (n + 1) + 1 = 0 /\ (n + 1)..n = {} /\ 1..0 = {} BY <1>1
    <2>4. AtHandFrom(n + 1, t, n, b) BY <1>3, <2>1, <2>2, <2>3 DEF AtHandFrom
    <2>5. n + 1 \in 1..(n + 1) BY <1>1
    <2>6. QED BY <2>4, <2>5 DEF AtHand, b
  <1>4. CASE ~ (a.quote = {} /\ w \notin Quotes /\ w \in Operators)
    <2>1. b.current = Append(a.current, w) BY <1>4 DEF Cut, Cuts
    <2>2. b.quote # {} => a.quote # {} \/ w \in Quotes BY <1>4 DEF Cut, Cuts
    <2> HIDE DEF b
    <2>3. /\ Len(a.current) = n - p /\ \A i \in 1..(n - p) : a.current[i] = t[p + i - 1]
      BY <1>1, <1>2 DEF AtHandFrom
    <2>4. /\ Len(b.current) = n - p + 1 /\ b.current[n - p + 1] = w
          /\ \A i \in 1..(n - p) : b.current[i] = a.current[i]
      BY <1>1, <2>1, <2>3, AppendProperties DEF Cuts
    <2>5. ASSUME NEW i \in 1..(n - p + 1) PROVE b.current[i] = t[p + i - 1]
      <3>1. CASE i = n - p + 1 BY <1>1, <2>4, <3>1
      <3>2. CASE i \in 1..(n - p) BY <2>3, <2>4, <3>2
      <3>3. QED BY <1>1, <3>1, <3>2
    <2>6. a.quote # {} => \E j \in p..(n - 1) : t[j] \in Quotes BY <1>2 DEF AtHandFrom
    <2>7. ASSUME NEW i \in p..n, t[i] \in Operators
          PROVE  \E j \in p..(i - 1) : t[j] \in Quotes
      <3>1. CASE i = n
        <4>1. w \in Operators /\ w \notin Quotes BY <2>7, <3>1, MatchingAssumption
        <4>2. a.quote # {} BY <1>4, <4>1
        <4>3. QED BY <2>6, <3>1, <4>2
      <3>2. CASE i \in p..(n - 1) BY <1>2, <2>7, <3>2 DEF AtHandFrom
      <3>3. QED BY <1>1, <3>1, <3>2
    <2>8. b.quote # {} => \E j \in p..n : t[j] \in Quotes
      <3>1. n \in p..n /\ p..(n - 1) \subseteq p..n BY <1>1
      <3>2. QED BY <2>2, <2>6, <3>1
    <2>9. p = 1 \/ t[p - 1] \in Operators BY <1>2 DEF AtHandFrom
    <2>10. AtHandFrom(p, t, n, b) BY <2>4, <2>5, <2>7, <2>8, <2>9 DEF AtHandFrom
    <2>11. p \in 1..(n + 1) BY <1>1
    <2>12. QED BY <2>10, <2>11 DEF AtHand, b
  <1>5. QED BY <1>3, <1>4

\* str.strip drops blanks only.
LEMMA TrimKeeps ==
  ASSUME NEW W, NEW c \in Seq(W)
  PROVE  Pieces(c) \subseteq Pieces(Trim(c, Blank)) \cup Blank
  <1>1. DOMAIN c = 1..Len(c) /\ Len(c) \in Nat BY LenProperties
  <1>2. ASSUME NEW i \in 1..Len(c), c[i] \notin Blank PROVE c[i] \in Pieces(Trim(c, Blank))
    <2>1. Kept(c, Blank) # {} BY <1>1, <1>2 DEF Kept
    <2>0. PICK p, q : Between(c, Blank, p, q) BY <2>1, TrimIs
    <2>2. /\ p \in 1..Len(c) /\ q \in 1..Len(c)
          /\ p <= q /\ Len(Trim(c, Blank)) = q - p + 1
          /\ \A k \in 1..(q - p + 1) : Trim(c, Blank)[k] = c[p + k - 1]
          /\ \A k \in 1..Len(c) : k < p \/ k > q => c[k] \in Blank
      BY <2>0 DEF Between, Copy
    <2>3. i - p + 1 \in 1..(q - p + 1) /\ p + (i - p + 1) - 1 = i BY <1>1, <1>2, <2>2
    <2>4. Trim(c, Blank)[i - p + 1] = c[i] BY <2>2, <2>3
    <2>5. DOMAIN Trim(c, Blank) = 1..(q - p + 1) BY <2>2, TrimIs, LenProperties
    <2>6. QED BY <2>3, <2>4, <2>5 DEF Pieces
  <1>3. QED BY <1>1, <1>2 DEF Pieces

\* Cutting finds a command, and keeps every piece.
LEMMA FoundNext ==
  ASSUME NEW W, NEW t \in Seq(W), NEW n \in 1..Len(t), NEW a \in Cuts(W),
         AtHand(t, n - 1, a), Found(t, n - 1, a)
  PROVE  Found(t, n, Cut(a, t[n]))
  <1>1. Len(t) \in Nat /\ t[n] \in W /\ n - 1 \in 0..Len(t) BY LenProperties
  <1>2. a.current \in Seq(W) BY DEF Cuts
  <1>3. 1..n = 1..(n - 1) \cup {n} BY <1>1
  <1> DEFINE w == t[n]
             b == Cut(a, w)
  <1>4. CASE a.quote = {} /\ w \notin Quotes /\ w \in Operators
    <2>1. b.segments = a.segments \cup {Trim(a.current, Blank)} BY <1>4 DEF Cut, Cuts
    <2> HIDE DEF b
    <2>2. Trim(a.current, Blank) = <<>> \/ CommandOf(Trim(a.current, Blank), t)
      <3>1. n - 1 + 1 = n BY <1>1
      <3>2. QED BY <1>1, <1>4, <3>1, CutOff
    <2>3. \A s \in b.segments : s = <<>> \/ CommandOf(s, t) BY <2>1, <2>2 DEF Found
    <2>4. Pieces(a.current) \subseteq Pieces(Trim(a.current, Blank)) \cup Blank BY <1>2, TrimKeeps
    <2>5. \A i \in 1..(n - 1) : \/ t[i] \in Operators \cup Blank
                                \/ \E s \in b.segments : t[i] \in Pieces(s)
      BY <2>1, <2>4 DEF Found
    <2>6. QED BY <1>3, <1>4, <2>3, <2>5 DEF Found, b
  <1>5. CASE ~ (a.quote = {} /\ w \notin Quotes /\ w \in Operators)
    <2>1. b.segments = a.segments /\ b.current = Append(a.current, w)
      BY <1>5 DEF Cut, Cuts
    <2> HIDE DEF b
    <2>2. /\ Len(b.current) = Len(a.current) + 1 /\ Len(a.current) \in Nat
          /\ \A i \in 1..Len(a.current) : b.current[i] = a.current[i]
          /\ b.current[Len(a.current) + 1] = w
          /\ DOMAIN b.current = 1..(Len(a.current) + 1)
          /\ DOMAIN a.current = 1..Len(a.current)
      BY <1>1, <1>2, <2>1, AppendProperties, LenProperties
    <2>3. Pieces(a.current) \cup {w} \subseteq Pieces(b.current)
      <3>1. Pieces(a.current) = {a.current[i] : i \in 1..Len(a.current)} BY <2>2 DEF Pieces
      <3>2. Pieces(b.current) = {b.current[i] : i \in 1..(Len(a.current) + 1)}
        BY <2>2 DEF Pieces
      <3>3. ASSUME NEW i \in 1..Len(a.current) PROVE a.current[i] \in Pieces(b.current)
        <4>1. i \in 1..(Len(a.current) + 1) /\ b.current[i] = a.current[i] BY <2>2
        <4>2. QED BY <3>2, <4>1
      <3>4. w \in Pieces(b.current) BY <2>2, <3>2
      <3>5. QED BY <3>1, <3>3, <3>4
    <2>4. QED BY <1>3, <2>1, <2>3 DEF Found, b
  <1>6. QED BY <1>4, <1>5

\* So it is after every piece.
LEMMA ScanFinds ==
  ASSUME NEW W, NEW t \in Seq(W), NEW n \in 0..Len(t)
  PROVE  Scan(t)[n] \in Cuts(W) /\ AtHand(t, n, Scan(t)[n]) /\ Found(t, n, Scan(t)[n])
  <1> DEFINE Good(k) == AtHand(t, k, Scan(t)[k]) /\ Found(t, k, Scan(t)[k])
             D == {k \in 0..Len(t) : Good(k)}
  <1>1. Len(t) \in Nat BY LenProperties
  <1>2. 0 \in D
    <2>1. AtHandFrom(1, t, 0, NothingCut) BY EmptySeq DEF AtHandFrom, NothingCut
    <2>2. AtHand(t, 0, NothingCut) BY <2>1 DEF AtHand
    <2>3. Found(t, 0, NothingCut) BY DEF Found, NothingCut
    <2>4. QED BY <1>1, <2>2, <2>3, ScanIs
  <1>3. ASSUME NEW k \in 1..Len(t), k - 1 \in D PROVE k \in D
    <2>1. /\ Scan(t)[k - 1] \in Cuts(W) /\ k - 1 \in 0..Len(t)
          /\ Scan(t)[k] = Cut(Scan(t)[k - 1], t[k])
      BY <1>1, ScanIs
    <2>2. Good(k - 1) BY <1>3
    <2>3. Good(k) BY <2>1, <2>2, AtHandNext, FoundNext
    <2>4. QED BY <2>3, <1>1
  <1>4. n \in D
    <2> HIDE DEF D
    <2>1. QED BY <1>1, <1>2, <1>3, Induction
  <1>5. QED BY <1>4, ScanIs

\* Every segment is a command of the line: no grant and no rule is asked about pieces
\* that were not there, or were not together (grants.split_segments).
THEOREM SegmentsAreCommands ==
  ASSUME NEW W, NEW t \in Seq(W), NEW s \in Segments(t)
  PROVE  CommandOf(s, t) /\ s \in Seq(W)
  <1> DEFINE a == Scan(t)[Len(t)]
  <1>1. Len(t) \in 0..Len(t) BY LenProperties
  <1>2. a \in Cuts(W) /\ AtHand(t, Len(t), a) /\ Found(t, Len(t), a) BY <1>1, ScanFinds
  <1>3. s \in a.segments \cup {Trim(a.current, Blank)} /\ s # <<>> BY DEF Segments
  <1> HIDE DEF a
  <1>4. Trim(a.current, Blank) = <<>> \/ CommandOf(Trim(a.current, Blank), t) BY <1>1, <1>2, CutOff
  <1>5. a.current \in Seq(W) /\ a.segments \subseteq Seq(W) BY <1>2 DEF Cuts
  <1>6. QED BY <1>2, <1>3, <1>4, <1>5, TrimIs DEF Found

\* And no piece of the line is in none of them, but operators and blanks: what is granted segment
\* by segment is granted whole.
THEOREM SegmentsDropNothing ==
  ASSUME NEW W, NEW t \in Seq(W), NEW w \in Pieces(t), w \notin Operators \cup Blank
  PROVE  \E s \in Segments(t) : w \in Pieces(s)
  <1> DEFINE a == Scan(t)[Len(t)]
  <1>1. Len(t) \in 0..Len(t) /\ DOMAIN t = 1..Len(t) BY LenProperties
  <1>2. a \in Cuts(W) /\ Found(t, Len(t), a) BY <1>1, ScanFinds
  <1>3. Segments(t) = (a.segments \cup {Trim(a.current, Blank)}) \ {<<>>} BY DEF Segments
  <1> HIDE DEF a
  <1>4. w \in Pieces(a.current) \/ \E s \in a.segments : w \in Pieces(s)
    BY <1>1, <1>2 DEF Found, Pieces
  <1>5. Pieces(a.current) \subseteq Pieces(Trim(a.current, Blank)) \cup Blank
    BY <1>2, TrimKeeps DEF Cuts
  <1>6. Pieces(<<>>) = {} BY EmptySeq, LenProperties DEF Pieces
  <1>7. QED BY <1>3, <1>4, <1>5, <1>6

\* What every rule about a segment starts from.
LEMMA SegmentIs ==
  ASSUME NEW W, NEW t \in Seq(W), NEW s \in Segments(t)
  PROVE  /\ s \in Seq(W) /\ s # <<>> /\ s[1] \notin Blank /\ Pieces(s) \subseteq Pieces(t)
         /\ Len(s) \in Nat \ {0} /\ Len(t) \in Nat
         /\ DOMAIN s = 1..Len(s) /\ DOMAIN t = 1..Len(t)
         /\ \E p : StandsAt(s, t, p)
         /\ Spaced(t) => Spaced(s)
  <1>1. s # <<>> /\ s \in Seq(W) BY SegmentsAreCommands DEF CommandOf
  <1>2. /\ Len(s) \in Nat \ {0} /\ Len(t) \in Nat
        /\ DOMAIN s = 1..Len(s) /\ DOMAIN t = 1..Len(t)
    BY <1>1, EmptySeq, LenProperties
  <1>3. PICK p : StandsAt(s, t, p) BY SegmentsAreCommands DEF CommandOf
  <1>4. /\ p \in 1..Len(t) /\ p + Len(s) <= Len(t) + 1 /\ t[p] \notin Blank
        /\ \A i \in 1..Len(s) : s[i] = t[p + i - 1]
    BY <1>3 DEF StandsAt
  <1>5. s[1] = t[p] /\ s[1] \notin Blank
    <2>1. 1 \in 1..Len(s) /\ p + 1 - 1 = p BY <1>2, <1>4
    <2>2. QED BY <1>4, <2>1
  <1>6. \A i \in 1..Len(s) : p + i - 1 \in 1..Len(t) BY <1>2, <1>4
  <1>7. Pieces(s) \subseteq Pieces(t) BY <1>2, <1>4, <1>6 DEF Pieces
  <1>8. ASSUME Spaced(t) PROVE Spaced(s)
    <2>1. SUFFICES ASSUME NEW i \in 1..Len(s), s[i] \in Blank
                   PROVE  s[i] = Space /\ i > 1 /\ s[i - 1] \notin Blank
      BY <1>2 DEF Spaced
    <2>2. i # 1 BY <1>5, <2>1
    <2>3. /\ i \in Nat /\ i > 1 /\ i - 1 \in 1..Len(s) /\ p + (i - 1) - 1 = (p + i - 1) - 1
      BY <1>2, <1>4, <2>2
    <2>4. t[p + i - 1] = Space /\ t[(p + i - 1) - 1] \notin Blank
      BY <1>2, <1>4, <1>6, <1>8, <2>1 DEF Spaced
    <2>5. s[i] = t[p + i - 1] /\ s[i - 1] = t[(p + i - 1) - 1] BY <1>4, <2>3
    <2>6. QED BY <2>3, <2>4, <2>5
  <1>9. QED BY <1>1, <1>2, <1>3, <1>5, <1>7, <1>8

-----------------------------------------------------------------------------
(* What "Always allow" offers, and what a grant covers (grants.py).        *)

\* A prefix, position by position.
LEMMA PrefixIs ==
  ASSUME NEW W, NEW s \in Seq(W), NEW t \in Seq(W)
  PROVE  IsPrefix(s, t) <=> Len(s) <= Len(t) /\ \A i \in 1..Len(s) : s[i] = t[i]
  <1>1. Len(s) \in Nat /\ Len(t) \in Nat BY LenProperties
  <1>2. SubSeq(s, 1, Len(s)) = s BY SubSeqFull
  <1>3. ASSUME Len(s) <= Len(t)
        PROVE  /\ SubSeq(t, 1, Len(s)) \in Seq(W) /\ Len(SubSeq(t, 1, Len(s))) = Len(s)
               /\ \A i \in 1..Len(s) : SubSeq(t, 1, Len(s))[i] = t[i]
    <2>1. \A i \in 1..Len(s) : t[i] \in W BY <1>1, <1>3, LenProperties
    <2>2. /\ SubSeq(t, 1, Len(s)) \in Seq(W)
          /\ Len(SubSeq(t, 1, Len(s))) = IF 1 <= Len(s) THEN Len(s) - 1 + 1 ELSE 0
          /\ \A i \in 1..(Len(s) - 1 + 1) : SubSeq(t, 1, Len(s))[i] = t[1 + i - 1]
      BY <1>1, <2>1, SubSeqProperties
    <2>3. QED BY <1>1, <2>2
  <1>4. ASSUME Len(s) <= Len(t), \A i \in 1..Len(s) : s[i] = t[i] PROVE s = SubSeq(t, 1, Len(s))
    BY <1>3, <1>4, SeqEqual
  <1>5. QED BY <1>2, <1>3, <1>4 DEF IsPrefix

\* All but the last of a sequence is a prefix of it.
LEMMA FrontIs ==
  ASSUME NEW W, NEW t \in Seq(W), t # <<>>
  PROVE  /\ Len(t) \in Nat \ {0} /\ Front(t) \in Seq(W) /\ Len(Front(t)) = Len(t) - 1
         /\ \A i \in 1..(Len(t) - 1) : Front(t)[i] = t[i]
         /\ IsPrefix(Front(t), t)
  <1>1. Len(t) \in Nat \ {0} BY LenProperties, EmptySeq
  <1>2. \A i \in 1..(Len(t) - 1) : t[i] \in W BY <1>1, LenProperties
  <1>3. /\ Front(t) \in Seq(W)
        /\ Len(Front(t)) = IF 1 <= Len(t) - 1 THEN Len(t) - 1 - 1 + 1 ELSE 0
        /\ \A i \in 1..(Len(t) - 1 - 1 + 1) : Front(t)[i] = t[1 + i - 1]
    BY <1>1, <1>2, SubSeqProperties DEF Front
  <1>4. Len(Front(t)) = Len(t) - 1 /\ \A i \in 1..(Len(t) - 1) : Front(t)[i] = t[i]
    <2>1. Len(t) - 1 - 1 + 1 = Len(t) - 1 /\ \A i \in 1..(Len(t) - 1) : 1 + i - 1 = i
      BY <1>1
    <2>2. ~ 1 <= Len(t) - 1 => Len(t) - 1 = 0
      <3>1. PICK n \in Nat \ {0} : Len(t) = n BY <1>1
      <3>2. ~ 1 <= n - 1 => n - 1 = 0 OBVIOUS
      <3>3. QED BY <3>1, <3>2
    <2>3. QED BY <1>3, <2>1, <2>2
  <1>5. Len(Front(t)) <= Len(t) BY <1>1, <1>4
  <1>6. QED BY <1>1, <1>3, <1>4, <1>5, PrefixIs

\* A prefix with one piece more.
LEMMA PrefixAndOne ==
  ASSUME NEW W, NEW s \in Seq(W), NEW t \in Seq(W), NEW w \in W
  PROVE  IsPrefix(s \o <<w>>, t) <=>
           /\ Len(s) < Len(t) /\ t[Len(s) + 1] = w
           /\ \A i \in 1..Len(s) : s[i] = t[i]
  <1> DEFINE u == s \o <<w>>
  <1>1. Len(s) \in Nat /\ Len(t) \in Nat BY LenProperties
  <1>2. <<w>> \in Seq(W) /\ Len(<<w>>) = 1 /\ <<w>>[1] = w OBVIOUS
  <1>3. /\ u \in Seq(W) /\ Len(u) = Len(s) + 1
        /\ \A i \in 1..(Len(s) + 1) : u[i] = IF i <= Len(s) THEN s[i] ELSE <<w>>[i - Len(s)]
    BY <1>2, ConcatProperties
  <1>4. Len(s) + 1 \in 1..(Len(s) + 1) /\ ~ Len(s) + 1 <= Len(s) /\ Len(s) + 1 - Len(s) = 1
    BY <1>1
  <1>5. u[Len(s) + 1] = w BY <1>2, <1>3, <1>4
  <1>6. \A i \in 1..Len(s) : i \in 1..(Len(s) + 1) /\ i <= Len(s) BY <1>1
  <1>7. \A i \in 1..Len(s) : u[i] = s[i] BY <1>3, <1>6
  <1>8. \A i \in 1..(Len(s) + 1) : i \in 1..Len(s) \/ i = Len(s) + 1 BY <1>1
  <1>9. IsPrefix(u, t) <=> Len(u) <= Len(t) /\ \A i \in 1..Len(u) : u[i] = t[i]
    BY <1>3, PrefixIs
  <1>10. Len(u) = Len(s) + 1 BY <1>3
  <1> HIDE DEF u
  <1>11. (\A i \in 1..Len(u) : u[i] = t[i])
           <=> t[Len(s) + 1] = w /\ \A i \in 1..Len(s) : s[i] = t[i]
    BY <1>4, <1>5, <1>6, <1>7, <1>8, <1>10
  <1>12. Len(u) <= Len(t) <=> Len(s) < Len(t) BY <1>1, <1>10
  <1>13. QED BY <1>9, <1>11, <1>12 DEF u

\* The prefix a segment is granted under, and where it ends in the segment.
HasSub(s) == HasSecond(s) /\ Second(s) \in Singles(Bare)

LEMMA PrefixOfIs ==
  ASSUME NEW W, Space \in W, NEW s \in Seq(W), s # <<>>, s[1] \notin Blank,
         NEW e, Leads(s, e)
  PROVE  /\ e \in 1..Len(s) /\ PrefixOf(s) \in Seq(W)
         /\ \A k \in 1..e : PrefixOf(s)[k] = s[k] /\ s[k] \notin Blank
         /\ ~ HasSub(s) => Len(PrefixOf(s)) = e
         /\ HasSub(s) =>
              /\ Len(PrefixOf(s)) = e + 2 /\ PrefixOf(s)[e + 1] = Space
              /\ Second(s) = <<PrefixOf(s)[e + 2]>> /\ PrefixOf(s)[e + 2] \in Bare
  <1>1. Len(s) \in Nat \ {0} /\ Program(s) \in Seq(W) BY ProgramIsFirst
  <1>2. e \in 1..Len(s) /\ \A k \in 1..e : s[k] \notin Blank BY DEF Leads, PartEnds
  <1>3. Len(Program(s)) = e /\ \A k \in 1..e : Program(s)[k] = s[k]
    <2>1. e - 1 + 1 = e /\ \A k \in 1..e : 1 + k - 1 = k BY <1>1, <1>2
    <2>2. QED BY <2>1 DEF Leads, Copy
  <1>4. CASE ~ HasSub(s)
    <2>1. PrefixOf(s) = Program(s) BY <1>4 DEF PrefixOf, HasSub
    <2>2. QED BY <1>1, <1>2, <1>3, <1>4, <2>1
  <1>5. CASE HasSub(s)
    <2>1. PICK v \in Bare : Second(s) = <<v>> BY <1>5 DEF HasSub, Singles
    <2>2. v \in W
      <3>1. DOMAIN s = 1..Len(s) BY LenProperties
      <3>2. PICK j \in Others(s) : j = Min(Others(s))
        <4>0. Starts(s, Blank) \subseteq 1..Len(s) /\ Len(s) \in Nat BY <1>1, <3>1 DEF Starts
        <4>1. Others(s) \in SUBSET (0..Len(s)) /\ Others(s) # {}
          BY <1>5, <4>0 DEF Others, HasSub, HasSecond
        <4>2. Min(Others(s)) \in Others(s) BY <1>1, <4>1, MinMax
        <4>3. QED BY <4>2
      <3>3. j \in 1..Len(s) /\ s[j] \notin Blank
        <4>1. j \in Starts(s, Blank) BY <3>2 DEF Others
        <4>2. QED BY <3>1, <4>1 DEF Starts
      <3>4. PartAt(s, j, Blank) \in Seq(W) BY <3>3, PartIs
      <3>5. <<v>> \in Seq(W) BY <2>1, <3>2, <3>4 DEF Second
      <3>6. Len(<<v>>) = 1 /\ <<v>>[1] = v OBVIOUS
      <3>7. QED BY <3>5, <3>6, ElementOfSeq
    <2> DEFINE a == Program(s) \o <<Space>>
    <2>3. <<Space>> \in Seq(W) /\ Len(<<Space>>) = 1 /\ <<Space>>[1] = Space OBVIOUS
    <2>4. /\ a \in Seq(W) /\ Len(a) = e + 1
          /\ \A i \in 1..(e + 1) : a[i] = IF i <= e THEN Program(s)[i] ELSE <<Space>>[i - e]
      BY <1>1, <1>3, <2>3, ConcatProperties
    <2>5. \A k \in 1..e : k \in 1..(e + 1) /\ k \in 1..(e + 2) /\ k <= e /\ k <= e + 1
      BY <1>1, <1>2
    <2>6. /\ e + 1 \in 1..(e + 1) /\ e + 1 \in 1..(e + 2) /\ e + 2 \in 1..(e + 2)
          /\ ~ e + 1 <= e /\ e + 1 <= e + 1 /\ ~ e + 2 <= e + 1
          /\ e + 1 - e = 1 /\ e + 2 - (e + 1) = 1 /\ e + 1 + 1 = e + 2
      BY <1>1, <1>2
    <2>7. a[e + 1] = Space /\ \A k \in 1..e : a[k] = s[k]
      <3>1. a[e + 1] = <<Space>>[e + 1 - e] BY <2>4, <2>6
      <3>2. ASSUME NEW k \in 1..e PROVE a[k] = s[k] BY <1>3, <2>4, <2>5
      <3>3. QED BY <2>3, <2>6, <3>1, <3>2
    <2>8. a \in Seq(W) /\ Len(a) = e + 1 BY <2>4
    <2> HIDE DEF a
    <2>9. <<v>> \in Seq(W) /\ Len(<<v>>) = 1 /\ <<v>>[1] = v BY <2>2
    <2>10. /\ a \o <<v>> \in Seq(W) /\ Len(a \o <<v>>) = e + 2
           /\ \A i \in 1..(e + 2) :
                (a \o <<v>>)[i] = IF i <= e + 1 THEN a[i] ELSE <<v>>[i - (e + 1)]
      <3>1. /\ a \o <<v>> \in Seq(W) /\ Len(a \o <<v>>) = Len(a) + Len(<<v>>)
            /\ \A i \in 1..(Len(a) + Len(<<v>>)) :
                 (a \o <<v>>)[i] = IF i <= Len(a) THEN a[i] ELSE <<v>>[i - Len(a)]
        BY <2>8, <2>9, ConcatProperties
      <3>2. Len(a) = e + 1 /\ Len(a) + Len(<<v>>) = e + 2 BY <1>1, <1>2, <2>8, <2>9
      <3>3. QED BY <3>1, <3>2
    <2>11. PrefixOf(s) = a \o <<v>> BY <1>5, <2>1 DEF PrefixOf, HasSub, a
    <2>12. PrefixOf(s)[e + 1] = Space /\ PrefixOf(s)[e + 2] = v
      BY <2>6, <2>7, <2>9, <2>10, <2>11
    <2>13. \A k \in 1..e : PrefixOf(s)[k] = s[k] BY <2>5, <2>7, <2>10, <2>11
    <2>14. QED BY <1>2, <1>5, <2>1, <2>10, <2>11, <2>12, <2>13
  <1>6. QED BY <1>4, <1>5

\* A pattern covers a line that is it, or goes on with a space (grants._matches_one).
ByPattern(p, t) == t = p \/ IsPrefix(p \o <<Space>>, t)

LEMMA PatternIs ==
  ASSUME NEW W, Space \in W, NEW p \in Seq(W), NEW t \in Seq(W)
  PROVE  ByPattern(p, t) <=>
           /\ Len(p) <= Len(t) /\ \A i \in 1..Len(p) : p[i] = t[i]
           /\ Len(p) < Len(t) => t[Len(p) + 1] = Space
  <1>1. Len(p) \in Nat /\ Len(t) \in Nat BY LenProperties
  <1>2. IsPrefix(p \o <<Space>>, t) <=>
          /\ Len(p) < Len(t) /\ t[Len(p) + 1] = Space
          /\ \A i \in 1..Len(p) : p[i] = t[i]
    BY PrefixAndOne
  <1>3. t = p <=> Len(p) = Len(t) /\ \A i \in 1..Len(p) : p[i] = t[i] BY SeqEqual
  <1>4. Len(p) <= Len(t) <=> Len(p) = Len(t) \/ Len(p) < Len(t) BY <1>1
  <1>5. Len(p) = Len(t) => ~ Len(p) < Len(t) BY <1>1
  <1>6. QED BY <1>2, <1>3, <1>4, <1>5 DEF ByPattern

\* A command is covered by the prefix it is granted under, when its words are a space apart.
LEMMA PrefixCovers ==
  ASSUME NEW W, Space \in W, NEW s \in Seq(W), s # <<>>, s[1] \notin Blank, Spaced(s)
  PROVE  PrefixOf(s) # <<>> /\ ByPattern(PrefixOf(s), s)
  <1>1. Len(s) \in Nat \ {0} /\ DOMAIN s = 1..Len(s) BY ProgramIsFirst
  <1>2. PICK e : Leads(s, e) BY ProgramIsFirst
  <1>3. /\ e \in 1..Len(s) /\ PrefixOf(s) \in Seq(W)
        /\ \A k \in 1..e : PrefixOf(s)[k] = s[k] /\ s[k] \notin Blank
        /\ ~ HasSub(s) => Len(PrefixOf(s)) = e
        /\ HasSub(s) =>
             /\ Len(PrefixOf(s)) = e + 2 /\ PrefixOf(s)[e + 1] = Space
             /\ Second(s) = <<PrefixOf(s)[e + 2]>> /\ PrefixOf(s)[e + 2] \in Bare
    BY <1>2, PrefixOfIs
  <1>4. Len(s) \in Nat /\ e \in Nat /\ 1 <= e /\ e <= Len(s)
    <2>1. Len(s) \in Nat BY <1>1
    <2>2. e \in 1..Len(s) BY <1>3
    <2>3. QED BY <2>1, <2>2
  <1>5. e < Len(s) => s[e + 1] = Space /\ s[e + 1] \in Blank
    <2>1. SUFFICES ASSUME e < Len(s) PROVE s[e + 1] = Space /\ s[e + 1] \in Blank OBVIOUS
    <2>2. e # Len(s) /\ e + 1 \in 1..Len(s) BY <1>4, <2>1
    <2>3. s[e + 1] \in Blank BY <1>2, <2>2 DEF Leads, PartEnds
    <2>4. QED BY <1>1, <2>2, <2>3 DEF Spaced
  <1>6. PrefixOf(s) # <<>>
    <2>1. Len(PrefixOf(s)) # 0 BY <1>3, <1>4
    <2>2. QED BY <2>1, EmptySeq
  <1>7. CASE ~ HasSub(s)
    <2>1. Len(PrefixOf(s)) = e BY <1>3, <1>7
    <2>2. /\ Len(PrefixOf(s)) <= Len(s)
          /\ \A i \in 1..Len(PrefixOf(s)) : PrefixOf(s)[i] = s[i]
          /\ Len(PrefixOf(s)) < Len(s) => s[Len(PrefixOf(s)) + 1] = Space
      BY <1>3, <1>4, <1>5, <2>1
    <2>3. QED BY <1>3, <1>6, <2>2, PatternIs
  <1>8. CASE HasSub(s)
    <2>1. /\ Len(PrefixOf(s)) = e + 2 /\ PrefixOf(s)[e + 1] = Space
          /\ Second(s) = <<PrefixOf(s)[e + 2]>>
      BY <1>3, <1>8
    <2>2. PICK j \in Others(s) : j \in (e + 2)..Len(s)
      BY <1>2, <1>8, SecondIsSecond DEF HasSub, HasSecond
    <2>3. e + 2 <= Len(s) /\ e < Len(s) /\ e + 2 \in 1..Len(s) /\ e + 2 - 1 = e + 1
      BY <1>4, <2>2
    <2>4. s[e + 1] = Space /\ s[e + 1] \in Blank BY <1>5, <2>3
    <2>5. s[e + 2] \notin Blank
      <3>1. DOMAIN s = 1..Len(s) BY <1>1
      <3>2. \A i \in 1..Len(s) : s[i] \in Blank => s[i - 1] \notin Blank
        BY <3>1 DEF Spaced
      <3>3. e + 2 \in 1..Len(s) BY <2>3
      <3>4. s[e + 2] \in Blank => s[e + 2 - 1] \notin Blank BY <1>4, <3>2, <3>3
      <3>5. s[e + 2 - 1] \in Blank BY <2>3, <2>4
      <3>6. QED BY <3>4, <3>5
    <2>6. Second(s) = PartAt(s, e + 2, Blank) BY <1>2, <2>3, <2>5, SecondIsSecond
    <2>7. PICK f : PartEnds(s, e + 2, f, Blank) /\ Copy(Second(s), s, e + 2, f)
      BY <2>3, <2>5, <2>6, PartIs
    <2>8. f = e + 2 /\ s[e + 2] = PrefixOf(s)[e + 2]
      <3>1. Len(Second(s)) = 1 /\ Second(s)[1] = PrefixOf(s)[e + 2] BY <2>1
      <3>2. f \in (e + 2)..Len(s) /\ Len(Second(s)) = f - (e + 2) + 1
        BY <2>7 DEF PartEnds, Copy
      <3>3. f = e + 2
        <4>1. f \in (e + 2)..Len(s) BY <3>2
        <4>2. f \in Int BY <4>1
        <4>3. 1 = f - (e + 2) + 1 BY <3>1, <3>2
        <4>4. QED BY <1>4, <4>2, <4>3
      <3>4. f - (e + 2) + 1 = 1 /\ e + 2 + 1 - 1 = e + 2 BY <1>4, <3>3
      <3>5. Second(s)[1] = s[e + 2] BY <2>7, <3>4 DEF Copy
      <3>6. QED BY <3>1, <3>3, <3>5
    <2>9. e + 2 < Len(s) => s[e + 3] = Space
      <3>1. SUFFICES ASSUME e + 2 < Len(s) PROVE s[e + 3] = Space OBVIOUS
      <3>2. e + 2 # Len(s) /\ e + 3 \in 1..Len(s) /\ e + 2 + 1 = e + 3 BY <1>4, <3>1
      <3>3. s[e + 3] \in Blank BY <2>7, <2>8, <3>2 DEF PartEnds
      <3>4. QED BY <1>1, <3>2, <3>3 DEF Spaced
    <2>10. \A i \in 1..(e + 2) : i \in 1..e \/ i = e + 1 \/ i = e + 2 BY <1>4
    <2>11. \A i \in 1..(e + 2) : PrefixOf(s)[i] = s[i] BY <1>3, <2>1, <2>4, <2>8, <2>10
    <2>12. e + 2 + 1 = e + 3 BY <1>4
    <2>13. QED BY <1>3, <1>6, <2>1, <2>3, <2>9, <2>11, <2>12, PatternIs
  <1>9. QED BY <1>7, <1>8

\* What a prefix covers is the same program, with the same subcommand.
LEMMA PrefixSays ==
  ASSUME NEW W, Space \in W, NEW s \in Seq(W), s # <<>>, s[1] \notin Blank,
         NEW t \in Seq(W), t # <<>>, t[1] \notin Blank, ByPattern(PrefixOf(s), t)
  PROVE  /\ Program(s) = Program(t)
         /\ HasSub(s) => HasSecond(t) /\ Second(s) = Second(t)
  <1>1. PICK e : Leads(s, e) BY ProgramIsFirst
  <1>2. /\ e \in 1..Len(s) /\ PrefixOf(s) \in Seq(W)
        /\ \A k \in 1..e : PrefixOf(s)[k] = s[k] /\ s[k] \notin Blank
        /\ ~ HasSub(s) => Len(PrefixOf(s)) = e
        /\ HasSub(s) =>
             /\ Len(PrefixOf(s)) = e + 2 /\ PrefixOf(s)[e + 1] = Space
             /\ Second(s) = <<PrefixOf(s)[e + 2]>> /\ PrefixOf(s)[e + 2] \in Bare
    BY <1>1, PrefixOfIs
  <1>3. /\ Len(PrefixOf(s)) <= Len(t)
        /\ \A i \in 1..Len(PrefixOf(s)) : PrefixOf(s)[i] = t[i]
        /\ Len(PrefixOf(s)) < Len(t) => t[Len(PrefixOf(s)) + 1] = Space
    BY <1>2, PatternIs
  <1>4. Len(t) \in Nat /\ Len(s) \in Nat BY LenProperties
  <1>5. e \in Nat /\ 1 <= e /\ e <= Len(s)
    <2>1. e \in 1..Len(s) BY <1>2
    <2>2. QED BY <1>4, <2>1
  <1>6. e <= Len(PrefixOf(s)) /\ Len(PrefixOf(s)) \in Nat /\ 1..e \subseteq 1..Len(PrefixOf(s))
    <2>1. Len(PrefixOf(s)) = e \/ Len(PrefixOf(s)) = e + 2 BY <1>2
    <2>2. QED BY <1>5, <2>1
  <1>7. \A k \in 1..e : t[k] = s[k] /\ t[k] \notin Blank BY <1>2, <1>3, <1>6
  <1>8. e < Len(t) => t[e + 1] = Space
    <2>1. CASE HasSub(s)
      <3>1. e + 1 \in 1..Len(PrefixOf(s)) BY <1>2, <1>5, <2>1
      <3>2. QED BY <1>2, <1>3, <2>1, <3>1
    <2>2. CASE ~ HasSub(s) BY <1>2, <1>3, <2>2
    <2>3. QED BY <2>1, <2>2
  <1>9. PartEnds(t, 1, e, Blank)
    <2>1. e \in 1..Len(t) BY <1>3, <1>4, <1>5, <1>6
    <2>2. e = Len(t) \/ t[e + 1] \in Blank
      <3>1. e <= Len(t) BY <1>4, <1>5, <2>1
      <3>3. e = Len(t) \/ e < Len(t) BY <1>4, <1>5, <3>1
      <3>2. QED BY <1>8, <3>3, MatchingAssumption
    <2>3. QED BY <1>7, <2>1, <2>2 DEF PartEnds
  <1>10. Leads(t, e)
    <2>1. Leads(t, End(t, 1, Blank)) BY ProgramIsFirst
    <2>2. 1 \in 1..Len(t)
      <3>1. e \in 1..Len(t) BY <1>9 DEF PartEnds
      <3>2. QED BY <1>4, <1>5, <3>1
    <2>3. End(t, 1, Blank) = e BY <1>9, <2>2, EndUnique
    <2>4. QED BY <2>1, <2>3
  <1>11. Program(s) = Program(t)
    <2>1. Program(s) \in Seq(W) /\ Program(t) \in Seq(W) BY ProgramIsFirst
    <2>2. e - 1 + 1 = e /\ \A k \in 1..e : 1 + k - 1 = k BY <1>5
    <2>3. /\ Len(Program(s)) = e /\ Len(Program(t)) = e
          /\ \A k \in 1..e : Program(s)[k] = s[k] /\ Program(t)[k] = t[k]
      BY <1>1, <1>10, <2>2 DEF Leads, Copy
    <2>4. QED BY <1>7, <2>1, <2>3, SeqEqual
  <1>12. ASSUME HasSub(s) PROVE HasSecond(t) /\ Second(s) = Second(t)
    <2>1. /\ Len(PrefixOf(s)) = e + 2 /\ Second(s) = <<PrefixOf(s)[e + 2]>>
          /\ PrefixOf(s)[e + 2] \in Bare
      BY <1>2, <1>12
    <2>2. e + 2 \in 1..(e + 2) /\ e + 2 + 1 = e + 3 BY <1>5
    <2>3. e + 2 <= Len(t) /\ t[e + 2] = PrefixOf(s)[e + 2] BY <1>3, <2>1, <2>2
    <2>4. t[e + 2] \notin Blank BY <2>1, <2>3, MatchingAssumption
    <2>5. HasSecond(t) /\ Second(t) = PartAt(t, e + 2, Blank)
      BY <1>10, <2>3, <2>4, SecondIsSecond
    <2>6. e + 2 \in 1..Len(t) BY <1>4, <1>5, <2>3
    <2>7. e + 2 = Len(t) \/ t[e + 2 + 1] \in Blank
      <3>1. e + 2 = Len(t) \/ e + 2 < Len(t) BY <1>4, <1>5, <2>3
      <3>2. QED BY <1>3, <2>1, <3>1, MatchingAssumption
    <2>8. PartAt(t, e + 2, Blank) = <<t[e + 2]>> BY <2>4, <2>6, <2>7, PartOfOne
    <2>9. QED BY <2>1, <2>3, <2>5, <2>8
  <1>13. QED BY <1>11, <1>12

\* More grants cover no less.
LEMMA CoverGrows ==
  ASSUME NEW G, NEW H, G \subseteq H, NEW tool, NEW t, CoveredBy(G, tool, t)
  PROVE  CoveredBy(H, tool, t)
  BY DEF CoveredBy, EverySegment

\* "Always allow" covers the call it was pressed for, whatever the line is put together
\* from, if its words are a space apart (grants.suggest, grants.covered_by).
THEOREM SuggestionCovers ==
  ASSUME NEW tool, NEW t, Suggest(tool, t) # {},
         t # NoText => t # <<>> /\ t \in Seq(Pieces(t)),
         tool = "Bash" /\ t # NoText => Spaced(t)
  PROVE  CoveredBy(Suggest(tool, t), tool, t)
  <1> DEFINE S == Suggest(tool, t)
             W == Pieces(t) \cup {Space}
  <1>1. CASE t = NoText
    <2>1. tool \notin MustBeScoped /\ Grant(tool, "any", <<>>) \in S BY <1>1 DEF Suggest
    <2>2. QED BY <1>1, <2>1 DEF CoveredBy, Grant
  <1>2. CASE t # NoText /\ tool # "Bash"
    <2>1. Grant(tool, "prefix", t) \in S BY <1>2 DEF Suggest
    <2>2. t \in Seq(Pieces(t)) /\ Len(t) \in Nat \ {0} BY <1>2, EmptySeq
    <2>3. Front(t) \in Seq(Pieces(t)) /\ IsPrefix(Front(t), t) BY <2>2, FrontIs
    <2>4. Continues(t, t) BY <2>2, <2>3 DEF Continues, Last
    <2>5. MatchesOne(Grant(tool, "prefix", t), tool, t) BY <1>2, <2>4 DEF MatchesOne, Grant
    <2>6. QED BY <1>2, <2>1, <2>5 DEF CoveredBy
  <1>3. CASE t # NoText /\ tool = "Bash"
    <2>1. S = SuggestBash(tool, t) BY <1>3 DEF Suggest
    <2>2. CASE Grant(tool, "exact", t) \in S BY <1>3, <2>2 DEF CoveredBy
    <2>3. CASE Grant(tool, "exact", t) \notin S
      <3>1. /\ ~ IsSpecial(t) /\ Segments(t) # {}
            /\ S = {Grant(tool, "prefix", PrefixOf(s)) : s \in Segments(t)}
        BY <2>1, <2>3 DEF SuggestBash
      <3>2. ASSUME NEW s \in Segments(t) PROVE \E g \in S : MatchesOne(g, tool, s)
        <4>1. t \in Seq(W) /\ Space \in W BY <1>3, SeqMonotonic
        <4> HIDE DEF W
        <4>2. /\ s \in Seq(W) /\ s # <<>> /\ s[1] \notin Blank /\ Pieces(s) \subseteq Pieces(t)
              /\ Spaced(s)
          BY <1>3, <4>1, SegmentIs
        <4>3. PrefixOf(s) # <<>> /\ ByPattern(PrefixOf(s), s) BY <4>1, <4>2, PrefixCovers
        <4>4. ~ IsSpecial(s) BY <3>1, <4>2 DEF IsSpecial
        <4>5. MatchesOne(Grant(tool, "prefix", PrefixOf(s)), tool, s)
          BY <1>3, <4>3, <4>4 DEF MatchesOne, Grant, ByPattern
        <4>6. QED BY <3>1, <4>5
      <3>3. QED BY <1>3, <3>1, <3>2 DEF CoveredBy, EverySegment
    <2>4. QED BY <2>2, <2>3
  <1>4. QED BY <1>1, <1>2, <1>3

-----------------------------------------------------------------------------
(* What the hook sees of a command (approve.py).                           *)

\* Where the name of a command stands in the line: between blanks, operators and the ends.
NameAt(s, t, p, e) ==
  /\ p \in 1..Len(t) /\ e \in 1..Len(s) /\ p + e <= Len(t) + 1
  /\ \A i \in 1..e : Program(s)[i] = t[p + i - 1] /\ t[p + i - 1] \notin Blank
  /\ Len(Program(s)) = e
  /\ p > 1 => t[p - 1] \in Operators \cup Blank
  /\ p + e <= Len(t) => t[p + e] \in Operators \cup Blank

LEMMA NameIs ==
  ASSUME NEW W, NEW t \in Seq(W), NEW s \in Segments(t), NEW p, StandsAt(s, t, p)
  PROVE  \E e : Leads(s, e) /\ NameAt(s, t, p, e)
  <1>1. /\ s \in Seq(W) /\ s # <<>> /\ s[1] \notin Blank
        /\ Len(s) \in Nat /\ Len(t) \in Nat
    BY SegmentIs
  <1>2. PICK e : Leads(s, e) BY <1>1, ProgramIsFirst
  <1>3. /\ e \in 1..Len(s)
        /\ e = Len(s) \/ s[e + 1] \in Blank
        /\ \A k \in 1..e : s[k] \notin Blank
    BY <1>2 DEF Leads, PartEnds
  <1>4. /\ p \in 1..Len(t) /\ p + Len(s) <= Len(t) + 1
        /\ \A i \in 1..Len(s) : s[i] = t[p + i - 1]
        /\ \A k \in 1..(p - 1) : t[k] \in Blank \/ \E m \in k..(p - 1) : t[m] \in Operators
        /\ p + Len(s) <= Len(t) => t[p + Len(s)] \in Operators \cup Blank
    BY DEF StandsAt
  <1>5. /\ e \in Nat /\ 1 <= e /\ e <= Len(s) /\ p \in Nat /\ 1 <= p /\ p <= Len(t)
    BY <1>1, <1>3, <1>4
  <1>6. Len(Program(s)) = e /\ \A k \in 1..e : Program(s)[k] = s[k]
    <2>1. e - 1 + 1 = e /\ \A k \in 1..e : 1 + k - 1 = k BY <1>5
    <2>2. QED BY <1>2, <2>1 DEF Leads, Copy
  <1>7. \A i \in 1..e : Program(s)[i] = t[p + i - 1] /\ t[p + i - 1] \notin Blank
    <2>1. \A i \in 1..e : i \in 1..Len(s) BY <1>1, <1>5
    <2>2. QED BY <1>3, <1>4, <1>6, <2>1
  <1>8. p > 1 => t[p - 1] \in Operators \cup Blank
    <2>1. SUFFICES ASSUME p > 1 PROVE t[p - 1] \in Operators \cup Blank OBVIOUS
    <2>2. p - 1 \in 1..(p - 1) /\ \A m \in (p - 1)..(p - 1) : m = p - 1 BY <1>5, <2>1
    <2>3. QED BY <1>4, <2>2
  <1>9. p + e <= Len(t) => t[p + e] \in Operators \cup Blank
    <2>1. CASE e = Len(s) BY <1>4, <2>1
    <2>2. CASE e # Len(s)
      <3>1. e + 1 \in 1..Len(s) /\ p + (e + 1) - 1 = p + e BY <1>1, <1>5, <2>2
      <3>2. s[e + 1] = t[p + (e + 1) - 1] /\ s[e + 1] \in Blank BY <1>3, <1>4, <2>2, <3>1
      <3>3. QED BY <3>1, <3>2
    <2>3. QED BY <2>1, <2>2
  <1>10. p + e <= Len(t) + 1 BY <1>1, <1>4, <1>5
  <1>11. NameAt(s, t, p, e) BY <1>3, <1>4, <1>6, <1>7, <1>8, <1>9, <1>10 DEF NameAt
  <1>12. QED BY <1>2, <1>11

\* A name in a line the hook has no reason to ask about is none of _ASK_COMMANDS, as far
\* as it is not glued to another name: the text between two blanks goes on beyond an
\* operator.
LEMMA AskCommandsAsk ==
  ASSUME NEW W, NEW t \in Seq(W), ~ ReasonToAsk(t), NEW s \in Segments(t),
         NEW w \in AskCommands, Trim(Program(s), Quotes) = <<w>>
  PROVE  \E x \in Split(t, Blank) :
           w \in Pieces(x) /\ Pieces(Trim(x, Trimmed)) \cap Operators # {}
  <1>1. /\ s \in Seq(W) /\ s # <<>> /\ s[1] \notin Blank
        /\ Len(s) \in Nat /\ Len(t) \in Nat /\ DOMAIN t = 1..Len(t)
    BY SegmentIs
  <1>2. PICK p : StandsAt(s, t, p) BY SegmentIs
  <1>3. PICK e : NameAt(s, t, p, e) BY <1>2, NameIs
  <1> DEFINE n == Program(s)
  <1>4. n \in Seq(W) BY <1>1, ProgramIsFirst
  <1> HIDE DEF n
  <1>5. /\ p \in Nat /\ e \in Nat /\ 1 <= p /\ 1 <= e /\ p <= Len(t) /\ p + e <= Len(t) + 1
        /\ Len(n) = e
    BY <1>1, <1>3 DEF NameAt, n
  <1>6. \A i \in 1..e : n[i] = t[p + i - 1] /\ t[p + i - 1] \notin Blank
    BY <1>3 DEF NameAt, n
  <1>7. w \notin Trimmed /\ w \notin Blank /\ Quotes \subseteq Trimmed /\ Operators \subseteq Trimmed
    BY MatchingAssumption
  \* The name is w, in quotation marks perhaps.
  <1>8. PICK c \in 1..e : n[c] = w /\ \A k \in 1..e : k # c => n[k] \in Quotes
    <2>1. Trim(n, Quotes) # <<>> /\ Len(Trim(n, Quotes)) = 1 /\ Trim(n, Quotes)[1] = w
      BY DEF n
    <2>2. Kept(n, Quotes) # {} BY <1>4, <2>1, TrimIs
    <2>3. PICK a, b : Between(n, Quotes, a, b) BY <1>4, <2>2, TrimIs
    <2>4. /\ a \in 1..e /\ b \in 1..e /\ a <= b /\ b - a + 1 = 1
          /\ \A k \in 1..e : k < a \/ k > b => n[k] \in Quotes
      BY <1>5, <2>1, <2>3 DEF Between, Copy
    <2>5. a = b /\ 1 \in 1..(b - a + 1) /\ a + 1 - 1 = a BY <1>5, <2>4
    <2>6. n[a] = w BY <2>1, <2>3, <2>5 DEF Between, Copy
    <2>7. \A k \in 1..e : k # a => k < a \/ k > a BY <1>5, <2>4
    <2>8. QED BY <2>4, <2>5, <2>6, <2>7
  <1> DEFINE z == p + c - 1
  <1>9. z \in 1..Len(t) /\ t[z] = w /\ z \in Nat /\ p <= z /\ z < p + e
    BY <1>1, <1>5, <1>6, <1>8
  <1> HIDE DEF z
  <1>10. PICK i \in Starts(t, Blank) :
           /\ i \in 1..Len(t) /\ t[i] \notin Blank /\ i <= z /\ z <= End(t, i, Blank)
           /\ PartAt(t, i, Blank) \in Split(t, Blank)
    BY <1>7, <1>9, PartAround
  <1> DEFINE x == PartAt(t, i, Blank)
             f == End(t, i, Blank)
  <1>11. x \in Seq(W) /\ Copy(x, t, i, f) /\ PartEnds(t, i, f, Blank) BY <1>10, PartIs
  <1>12. x \in Split(t, Blank) /\ z <= f BY <1>10
  <1> HIDE DEF x, f
  <1>13. /\ i \in Nat /\ f \in Nat /\ 1 <= i /\ i <= z /\ z <= f /\ f <= Len(t)
         /\ Len(x) = f - i + 1
    <2>1. i \in 1..Len(t) /\ i <= z BY <1>10
    <2>2. i \in Nat /\ 1 <= i BY <1>1, <2>1
    <2>3. f \in i..Len(t) BY <1>11 DEF PartEnds
    <2>4. f \in Nat /\ f <= Len(t) BY <1>1, <2>2, <2>3
    <2>5. Len(x) = f - i + 1 BY <1>11 DEF Copy
    <2>6. QED BY <1>12, <2>1, <2>2, <2>4, <2>5
  <1>14. ASSUME NEW k \in i..f
         PROVE  k - i + 1 \in 1..Len(x) /\ x[k - i + 1] = t[k] /\ t[k] \notin Blank
    <2>1. k - i + 1 \in 1..(f - i + 1) /\ i + (k - i + 1) - 1 = k BY <1>13
    <2>2. x[k - i + 1] = t[i + (k - i + 1) - 1] BY <1>11, <2>1 DEF Copy
    <2>3. QED BY <1>11, <1>13, <2>1, <2>2 DEF PartEnds
  <1> DEFINE d == z - i + 1
  <1>15. d \in 1..Len(x) /\ x[d] = w BY <1>9, <1>13, <1>14
  <1>16. w \in Pieces(x)
    <2>1. DOMAIN x = 1..Len(x) BY <1>11, LenProperties
    <2>2. QED BY <1>15, <2>1 DEF Pieces
  <1>17. d \in Kept(x, Trimmed)
    <2>1. DOMAIN x = 1..Len(x) BY <1>11, LenProperties
    <2>2. QED BY <1>7, <1>15, <2>1 DEF Kept
  <1>18. PICK P, Q : Between(x, Trimmed, P, Q) BY <1>11, <1>17, TrimIs
  <1>19. /\ P \in Nat /\ Q \in Nat /\ 1 <= P /\ P <= d /\ d <= Q /\ Q <= Len(x)
         /\ d \in Nat
    <2>1. P \in 1..Len(x) /\ Q \in 1..Len(x) /\ Len(x) \in Nat BY <1>13, <1>18 DEF Between
    <2>2. \A k \in 1..Len(x) : k < P \/ k > Q => x[k] \in Trimmed BY <1>18 DEF Between
    <2>3. ~ d < P /\ ~ d > Q BY <1>7, <1>15, <2>2
    <2>4. QED BY <1>9, <1>13, <2>1, <2>3
  <1>20. SUFFICES ASSUME Pieces(Trim(x, Trimmed)) \cap Operators = {} PROVE FALSE
    BY <1>12, <1>16
  <1>21. ASSUME NEW k \in P..Q PROVE x[k] \notin Operators
    <2>1. k - P + 1 \in 1..(Q - P + 1) /\ P + (k - P + 1) - 1 = k BY <1>19
    <2>2. /\ Len(Trim(x, Trimmed)) = Q - P + 1
          /\ Trim(x, Trimmed)[k - P + 1] = x[P + (k - P + 1) - 1]
      BY <1>18, <2>1 DEF Between, Copy
    <2>3. DOMAIN Trim(x, Trimmed) = 1..(Q - P + 1)
      BY <1>11, <2>2, TrimIs, LenProperties
    <2>4. x[k] \in Pieces(Trim(x, Trimmed)) BY <2>1, <2>2, <2>3 DEF Pieces
    <2>5. QED BY <1>20, <2>4
  \* Beyond the name there is an operator, and nothing but quotation marks within.
  <1>22. P = d
    <2>1. SUFFICES ASSUME P < d PROVE FALSE BY <1>19
    <2> DEFINE k == i + P - 1
    <2>2. k \in i..f /\ k < z /\ k - i + 1 = P /\ k \in Nat BY <1>9, <1>13, <1>19, <2>1
    <2> HIDE DEF k
    <2>3. x[P] = t[k] /\ t[k] \notin Trimmed BY <1>14, <1>18, <2>2 DEF Between
    <2>4. CASE k >= p
      <3>1. k - p + 1 \in 1..e /\ k - p + 1 # c /\ p + (k - p + 1) - 1 = k
        BY <1>5, <1>9, <2>2, <2>4 DEF z
      <3>2. n[k - p + 1] = t[k] /\ n[k - p + 1] \in Quotes BY <1>6, <1>8, <3>1
      <3>3. QED BY <1>7, <2>3, <3>2
    <2>5. CASE k < p
      <3>1. p > 1 /\ p - 1 \in i..f /\ p - 1 - i + 1 \in P..Q
        BY <1>5, <1>9, <1>13, <1>19, <2>2, <2>5
      <3>2. t[p - 1] \notin Blank /\ x[p - 1 - i + 1] = t[p - 1] BY <1>14, <3>1
      <3>3. t[p - 1] \in Operators BY <1>3, <3>1, <3>2 DEF NameAt
      <3>4. QED BY <1>21, <3>1, <3>2, <3>3
    <2>6. QED BY <1>5, <2>2, <2>4, <2>5
  <1>23. Q = d
    <2>1. SUFFICES ASSUME Q > d PROVE FALSE BY <1>19
    <2> DEFINE k == i + Q - 1
    <2>2. k \in i..f /\ k > z /\ k - i + 1 = Q /\ k \in Nat BY <1>9, <1>13, <1>19, <2>1
    <2> HIDE DEF k
    <2>3. x[Q] = t[k] /\ t[k] \notin Trimmed BY <1>14, <1>18, <2>2 DEF Between
    <2>4. CASE k < p + e
      <3>1. k - p + 1 \in 1..e /\ k - p + 1 # c /\ p + (k - p + 1) - 1 = k
        BY <1>5, <1>9, <2>2, <2>4 DEF z
      <3>2. n[k - p + 1] = t[k] /\ n[k - p + 1] \in Quotes BY <1>6, <1>8, <3>1
      <3>3. QED BY <1>7, <2>3, <3>2
    <2>5. CASE k >= p + e
      <3>0. PICK m \in Nat : m = p + e BY <1>5
      <3>1. m <= Len(t) /\ m \in i..f /\ m - i + 1 \in P..Q
        BY <1>5, <1>9, <1>13, <1>19, <2>2, <2>5, <3>0
      <3>2. t[m] \notin Blank /\ x[m - i + 1] = t[m] BY <1>14, <3>1
      <3>3. t[m] \in Operators BY <1>3, <3>0, <3>1, <3>2 DEF NameAt
      <3>4. QED BY <1>21, <3>1, <3>2, <3>3
    <2>6. QED BY <1>5, <2>2, <2>4, <2>5
  <1>24. Trim(x, Trimmed) = <<w>>
    <2>1. \A k \in 1..Len(x) : k # d => x[k] \in Trimmed
      <3>1. \A k \in 1..Len(x) : k < d \/ k > d => x[k] \in Trimmed
        BY <1>18, <1>22, <1>23 DEF Between
      <3>2. \A k \in 1..Len(x) : k # d => k < d \/ k > d BY <1>13, <1>15
      <3>3. QED BY <3>1, <3>2
    <2>2. QED BY <1>7, <1>11, <1>15, <2>1, TrimOne
  <1>25. <<w>> \in Stripped(t) BY <1>12, <1>24 DEF Stripped
  <1>26. QED BY <1>25 DEF ReasonToAsk, Singles

\* A line without a single & has its commands where the hook looks for them, when their
\* name is one piece.
THEOREM HookSeesCommands ==
  ASSUME NEW W, NEW t \in Seq(W), Pieces(t) \cap (Operators \ HookOperators) = {},
         NEW s \in Segments(t), NEW w, Program(s) = <<w>>
  PROVE  <<w>> \in Heads(t)
  <1>1. Len(t) \in Nat /\ DOMAIN t = 1..Len(t) BY SegmentIs
  <1>2. PICK p : StandsAt(s, t, p) BY SegmentIs
  <1>3. PICK e : NameAt(s, t, p, e) BY <1>2, NameIs
  <1>4. e = 1 BY <1>3 DEF NameAt
  <1>5. /\ p \in 1..Len(t) /\ p \in Nat /\ t[p] = w /\ t[p] \notin Blank
        /\ p + 1 <= Len(t) => t[p + 1] \in Operators \cup Blank
    <2>1. p \in 1..Len(t) BY <1>2 DEF StandsAt
    <2>2. 1 \in 1..e /\ p + 1 - 1 = p BY <1>1, <1>4, <2>1
    <2>3. t[p] = w /\ t[p] \notin Blank BY <1>3, <2>2 DEF NameAt
    <2>4. QED BY <1>1, <1>3, <1>4, <2>1, <2>3 DEF NameAt
  <1>6. /\ t[p] \notin Operators
        /\ \A k \in 1..(p - 1) : t[k] \in Blank \/ \E m \in k..(p - 1) : t[m] \in Operators
    BY <1>2 DEF StandsAt
  <1>7. \A m \in 1..Len(t) : t[m] \in Operators => t[m] \in HookOperators
    BY <1>1 DEF Pieces
  <1>8. t[p] \notin HookOperators BY <1>5, <1>6, MatchingAssumption
  <1>9. PICK i \in Starts(t, HookOperators) :
          /\ i \in 1..Len(t) /\ t[i] \notin HookOperators
          /\ i <= p /\ p <= End(t, i, HookOperators)
          /\ PartAt(t, i, HookOperators) \in Split(t, HookOperators)
    BY <1>5, <1>8, PartAround
  <1> DEFINE q == PartAt(t, i, HookOperators)
             f == End(t, i, HookOperators)
  <1>10. q \in Seq(W) /\ Copy(q, t, i, f) /\ PartEnds(t, i, f, HookOperators)
    BY <1>9, PartIs
  <1>11. q \in Split(t, HookOperators) /\ p <= f BY <1>9
  <1> HIDE DEF q, f
  <1>12. /\ i \in Nat /\ f \in Nat /\ 1 <= i /\ i <= p /\ p <= f /\ f <= Len(t)
         /\ Len(q) = f - i + 1
    <2>1. i \in 1..Len(t) /\ i <= p BY <1>9
    <2>2. i \in Nat /\ 1 <= i BY <1>1, <2>1
    <2>3. f \in i..Len(t) BY <1>10 DEF PartEnds
    <2>4. f \in Nat /\ f <= Len(t) BY <1>1, <2>2, <2>3
    <2>5. Len(q) = f - i + 1 BY <1>10 DEF Copy
    <2>6. QED BY <1>11, <2>1, <2>2, <2>4, <2>5
  <1>13. ASSUME NEW k \in i..f
         PROVE  k - i + 1 \in 1..Len(q) /\ q[k - i + 1] = t[k] /\ t[k] \notin HookOperators
    <2>1. k - i + 1 \in 1..(f - i + 1) /\ i + (k - i + 1) - 1 = k BY <1>12
    <2>2. q[k - i + 1] = t[i + (k - i + 1) - 1] BY <1>10, <2>1 DEF Copy
    <2>3. QED BY <1>10, <1>12, <2>1, <2>2 DEF PartEnds
  \* Before the name there are blanks only.
  <1>14. ASSUME NEW k \in i..(p - 1) PROVE t[k] \in Blank
    <2>1. SUFFICES ASSUME t[k] \notin Blank PROVE FALSE OBVIOUS
    <2>2. k \in 1..(p - 1) BY <1>5, <1>12
    <2>3. PICK m \in k..(p - 1) : t[m] \in Operators BY <1>6, <2>1, <2>2
    <2>4. m \in 1..Len(t) /\ m \in i..f BY <1>1, <1>5, <1>12, <2>3
    <2>5. QED BY <1>7, <1>13, <2>3, <2>4
  <1>15. PICK d \in 1..Len(q) : d = p - i + 1
    <2>1. p \in i..f BY <1>5, <1>12
    <2>2. QED BY <1>13, <2>1
  <1>16. q[d] = w /\ DOMAIN q = 1..Len(q) /\ Len(q) \in Nat
    <2>1. p \in i..f BY <1>5, <1>12
    <2>2. QED BY <1>5, <1>10, <1>13, <1>15, <2>1, LenProperties
  <1>17. ASSUME NEW k \in 1..(d - 1) PROVE q[k] \in Blank
    <2>1. PICK j \in i..(p - 1) : j = i + k - 1 BY <1>5, <1>12, <1>15
    <2>2. j \in i..f /\ j - i + 1 = k BY <1>5, <1>12, <1>15, <2>1
    <2>3. QED BY <1>13, <1>14, <2>1, <2>2
  <1>18. d \in Nat /\ 1 <= d /\ d <= Len(q) BY <1>15, <1>16
  <1>19. d \in Starts(q, Blank)
    <2>1. d = 1 \/ d - 1 \in 1..(d - 1) BY <1>18
    <2>2. d = 1 \/ q[d - 1] \in Blank BY <1>17, <2>1
    <2>3. q[d] \notin Blank BY <1>5, <1>16
    <2>4. QED BY <1>16, <2>2, <2>3 DEF Starts
  <1>20. Min(Starts(q, Blank)) = d
    <2>1. \A k \in Starts(q, Blank) : k \in 1..Len(q) /\ q[k] \notin Blank
      BY <1>16 DEF Starts
    <2>2. Starts(q, Blank) \in SUBSET (0..Len(q)) /\ Starts(q, Blank) # {}
      <3>1. Starts(q, Blank) \subseteq 1..Len(q) BY <2>1
      <3>2. 1..Len(q) \subseteq 0..Len(q) BY <1>16
      <3>3. QED BY <1>19, <3>1, <3>2
    <2>3. Min(Starts(q, Blank)) \in Starts(q, Blank) /\ Min(Starts(q, Blank)) <= d
      BY <1>16, <1>19, <2>2, MinMax
    <2> DEFINE k == Min(Starts(q, Blank))
    <2>4. k \in 1..Len(q) /\ q[k] \notin Blank /\ k <= d BY <2>1, <2>3
    <2> HIDE DEF k
    <2>5. k \notin 1..(d - 1) BY <1>17, <2>4
    <2>6. k \in Nat /\ 1 <= k BY <1>16, <2>4
    <2>7. k = d BY <1>18, <2>4, <2>5, <2>6
    <2>8. QED BY <2>7 DEF k
  \* And behind it a blank, or nothing.
  <1>21. d = Len(q) \/ q[d + 1] \in Blank
    <2>1. SUFFICES ASSUME d # Len(q) PROVE q[d + 1] \in Blank OBVIOUS
    <2>2. PICK j \in i..f : j = p + 1 BY <1>5, <1>12, <1>15, <1>18, <2>1
    <2>3. j - i + 1 = d + 1 /\ j \in 1..Len(t) BY <1>1, <1>5, <1>12, <1>15, <2>2
    <2>4. q[d + 1] = t[j] /\ t[j] \notin HookOperators BY <1>13, <2>3
    <2>5. t[j] \in Operators \cup Blank BY <1>1, <1>5, <2>2, <2>3
    <2>6. QED BY <1>7, <2>3, <2>4, <2>5
  <1>22. PartAt(q, d, Blank) = <<w>>
    <2>1. q[d] \notin Blank BY <1>5, <1>16
    <2>2. PartAt(q, d, Blank) = <<q[d]>> BY <1>10, <1>15, <1>21, <2>1, PartOfOne
    <2>3. QED BY <1>16, <2>2
  <1>23. Program(q) = <<w>> BY <1>20, <1>22 DEF Program
  <1>24. QED BY <1>11, <1>19, <1>23 DEF Heads

\* A path that one of a line's commands names is named by the line.
LEMMA PathsAreNamed ==
  ASSUME NEW W, NEW t \in Seq(W), NEW s \in Segments(t),
         NEW w \in Mutators, Program(s) = <<w>>, Outside(s, TRUE) # {}
  PROVE  Outside(t, TRUE) # {}
  <1>1. /\ s \in Seq(W) /\ s # <<>> /\ s[1] \notin Blank
        /\ Len(s) \in Nat /\ Len(t) \in Nat
        /\ DOMAIN s = 1..Len(s) /\ DOMAIN t = 1..Len(t)
    BY SegmentIs
  <1>2. PICK p : StandsAt(s, t, p) BY SegmentIs
  <1>3. /\ p \in 1..Len(t) /\ p + Len(s) <= Len(t) + 1
        /\ \A k \in 1..Len(s) : s[k] = t[p + k - 1]
    BY <1>2 DEF StandsAt
  <1>4. PICK y \in Stripped(s) :
          /\ y # <<>> /\ y[1] \in DOMAIN Written
          /\ Class(y) \notin {"workspace", "scratch"}
    BY DEF Outside
  <1>5. PICK i \in Starts(s, Blank) : y = Trim(PartAt(s, i, Blank), Trimmed)
    BY <1>4 DEF Stripped, Split
  <1>6. i \in 1..Len(s) /\ s[i] \notin Blank /\ (i = 1 \/ s[i - 1] \in Blank)
    BY <1>1, <1>5 DEF Starts
  <1> DEFINE x == PartAt(s, i, Blank)
             f == End(s, i, Blank)
  <1>7. x \in Seq(W) /\ Copy(x, s, i, f) /\ PartEnds(s, i, f, Blank) BY <1>1, <1>6, PartIs
  <1>8. y = Trim(x, Trimmed) BY <1>5
  <1>9. i = 1 => x = <<w>> BY <1>1, ProgramIsFirst
  <1> HIDE DEF x, f
  <1>10. y \in Seq(W) /\ Kept(x, Trimmed) # {} BY <1>4, <1>7, <1>8, TrimIs
  <1>11. PICK P, Q : Between(x, Trimmed, P, Q) BY <1>7, <1>10, TrimIs
  <1>12. /\ i \in Nat /\ f \in Nat /\ 1 <= i /\ i <= f /\ f <= Len(s) /\ Len(x) = f - i + 1
         /\ p \in Nat /\ 1 <= p
    <2>1. i \in Nat /\ 1 <= i BY <1>1, <1>6
    <2>2. f \in i..Len(s) BY <1>7 DEF PartEnds
    <2>3. f \in Nat /\ i <= f /\ f <= Len(s) BY <1>1, <2>1, <2>2
    <2>4. Len(x) = f - i + 1 BY <1>7 DEF Copy
    <2>5. QED BY <1>1, <1>3, <2>1, <2>3, <2>4
  <1>13. /\ P \in Nat /\ Q \in Nat /\ 1 <= P /\ P <= Q /\ Q <= Len(x) /\ Len(x) \in Nat
         /\ x[P] \notin Trimmed /\ x[Q] \notin Trimmed
         /\ \A k \in 1..Len(x) : k < P => x[k] \in Trimmed
         /\ Len(y) = Q - P + 1 /\ y[1] = x[P]
    <2>1. P \in 1..Len(x) /\ Q \in 1..Len(x) /\ P <= Q /\ Len(x) \in Nat
      BY <1>7, <1>11, LenProperties DEF Between
    <2>2. 1 \in 1..(Q - P + 1) /\ P + 1 - 1 = P BY <2>1
    <2>3. Len(y) = Q - P + 1 /\ y[1] = x[P] BY <1>8, <1>11, <2>2 DEF Between, Copy
    <2>4. QED BY <1>11, <2>1, <2>3 DEF Between
  \* It is not the name of the command.
  <1>14. i # 1
    <2>1. SUFFICES ASSUME i = 1 PROVE FALSE OBVIOUS
    <2>2. Len(x) = 1 /\ x[1] = w BY <1>9, <2>1
    <2>3. P = 1 BY <1>13, <2>2
    <2>4. w \in DOMAIN Written BY <1>4, <1>13, <2>2, <2>3
    <2>5. QED BY <2>4, MatchingAssumption
  \* So it begins behind a blank of the line, and goes on at least as far.
  <1>15. PICK j \in 1..Len(t) : j = p + i - 1 BY <1>1, <1>3, <1>12
  <1>16. t[j] \notin Blank /\ j \in Starts(t, Blank)
    <2>1. t[j] = s[i] BY <1>3, <1>6, <1>15
    <2>2. i - 1 \in 1..Len(s) /\ p + (i - 1) - 1 = j - 1 BY <1>1, <1>12, <1>14, <1>15
    <2>3. t[j - 1] = s[i - 1] BY <1>3, <2>2
    <2>4. s[i - 1] \in Blank BY <1>6, <1>14
    <2>5. QED BY <1>1, <1>6, <2>1, <2>3, <2>4 DEF Starts
  <1> DEFINE z == PartAt(t, j, Blank)
             g == End(t, j, Blank)
  <1>17. z \in Seq(W) /\ Copy(z, t, j, g) /\ PartEnds(t, j, g, Blank) BY <1>16, PartIs
  <1>18. Trim(z, Trimmed) \in Stripped(t) BY <1>16 DEF Stripped, Split
  <1> HIDE DEF z, g
  <1>19. j \in Nat /\ g \in Nat /\ j <= g /\ g <= Len(t) /\ Len(z) = g - j + 1
    <2>1. j \in Nat BY <1>1
    <2>2. g \in j..Len(t) BY <1>17 DEF PartEnds
    <2>3. g \in Nat /\ j <= g /\ g <= Len(t) BY <1>1, <2>1, <2>2
    <2>4. Len(z) = g - j + 1 BY <1>17 DEF Copy
    <2>5. QED BY <2>1, <2>3, <2>4
  <1>20. ASSUME NEW k \in 1..Len(x)
         PROVE  t[j + k - 1] = x[k] /\ j + k - 1 \in 1..Len(t) /\ x[k] \notin Blank
    <2>1. PICK m \in i..f : m = i + k - 1 BY <1>12
    <2>2. m \in 1..Len(s) /\ p + m - 1 = j + k - 1 BY <1>1, <1>12, <1>15, <2>1
    <2>3. x[k] = s[m] BY <1>7, <1>12, <2>1 DEF Copy
    <2>4. s[m] \notin Blank BY <1>7 DEF PartEnds
    <2>5. s[m] = t[p + m - 1] BY <1>3, <2>2
    <2>6. p + m - 1 \in 1..Len(t) BY <1>1, <1>3, <1>12, <2>2
    <2>7. QED BY <2>2, <2>3, <2>4, <2>5, <2>6
  <1>21. Len(x) <= Len(z)
    <2>1. SUFFICES ASSUME Len(z) < Len(x) PROVE FALSE BY <1>13, <1>19
    <2>2. PICK k \in 1..Len(x) : k = Len(z) + 1 BY <1>13, <1>19, <2>1
    <2>3. j + k - 1 = g + 1 BY <1>19, <2>2
    <2>4. g + 1 \in 1..Len(t) /\ t[g + 1] \notin Blank BY <1>20, <2>3
    <2>5. g + 1 <= Len(t) BY <1>1, <1>19, <2>4
    <2>6. Len(t) \in Nat /\ g \in Nat BY <1>1, <1>19
    <2>7. g # Len(t) BY <2>5, <2>6
    <2>8. QED BY <1>17, <2>4, <2>7 DEF PartEnds
  <1>22. \A k \in 1..Len(x) : k \in 1..Len(z) /\ z[k] = x[k]
    <2>1. SUFFICES ASSUME NEW k \in 1..Len(x) PROVE k \in 1..Len(z) /\ z[k] = x[k] OBVIOUS
    <2>2. k \in 1..Len(z) BY <1>13, <1>19, <1>21
    <2>3. z[k] = t[j + k - 1] BY <1>17, <1>19, <2>2 DEF Copy
    <2>4. QED BY <1>20, <2>2, <2>3
  \* Stripped, it begins with the same name, and is no shorter.
  <1>23. P \in 1..Len(x) /\ Q \in 1..Len(x) BY <1>13
  <1>24. Kept(z, Trimmed) # {}
    <2>1. DOMAIN z = 1..Len(z) BY <1>17, LenProperties
    <2>2. QED BY <1>13, <1>22, <1>23, <2>1 DEF Kept
  <1>25. PICK A, B : Between(z, Trimmed, A, B) BY <1>17, <1>24, TrimIs
  <1>26. /\ A \in Nat /\ B \in Nat /\ 1 <= A /\ A <= B /\ B <= Len(z)
         /\ z[A] \notin Trimmed
         /\ \A k \in 1..Len(z) : k < A \/ k > B => z[k] \in Trimmed
         /\ Len(Trim(z, Trimmed)) = B - A + 1 /\ Trim(z, Trimmed)[1] = z[A]
         /\ Trim(z, Trimmed) # <<>>
    <2>1. A \in 1..Len(z) /\ B \in 1..Len(z) /\ A <= B /\ Len(z) \in Nat
      BY <1>17, <1>25, LenProperties DEF Between
    <2>2. 1 \in 1..(B - A + 1) /\ A + 1 - 1 = A BY <2>1
    <2>3. Len(Trim(z, Trimmed)) = B - A + 1 /\ Trim(z, Trimmed)[1] = z[A]
      BY <1>25, <2>2 DEF Between, Copy
    <2>4. QED BY <1>25, <2>1, <2>3 DEF Between
  <1>27. ~ P < A /\ ~ Q > B BY <1>13, <1>22, <1>23, <1>26
  <1>28. ~ A < P
    <2>1. SUFFICES ASSUME A < P PROVE FALSE OBVIOUS
    <2>2. A \in 1..Len(x) BY <1>13, <1>26, <2>1
    <2>3. QED BY <1>13, <1>22, <1>26, <2>1, <2>2
  <1>29. A = P /\ Q <= B BY <1>13, <1>26, <1>27, <1>28
  <1>30. Trim(z, Trimmed)[1] = y[1] BY <1>13, <1>22, <1>23, <1>26, <1>29
  <1>31. Trim(z, Trimmed) = <<Root>> => y = <<Root>>
    <2>1. SUFFICES ASSUME Trim(z, Trimmed) = <<Root>> PROVE y = <<Root>> OBVIOUS
    <2>2. B - A + 1 = 1 /\ y[1] = Root BY <1>26, <1>30, <2>1
    <2>3. Len(y) = 1 BY <1>13, <1>26, <1>29, <2>2
    <2>4. y[1] \in W /\ <<y[1]>> \in Seq(W) /\ Len(<<y[1]>>) = 1
      BY <1>10, <2>3, ElementOfSeq
    <2>5. \A k \in 1..1 : y[k] = <<y[1]>>[k] OBVIOUS
    <2>6. y = <<y[1]>> BY <1>10, <2>3, <2>4, <2>5, SeqEqual
    <2>7. QED BY <2>2, <2>6
  <1>32. Class(Trim(z, Trimmed)) \notin {"workspace", "scratch"}
    <2>1. y # <<Root>> BY <1>4 DEF Class
    <2>2. Class(Trim(z, Trimmed)) = Class(y) BY <1>30, <1>31, <2>1 DEF Class
    <2>3. QED BY <1>4, <2>2
  <1>33. QED BY <1>4, <1>18, <1>26, <1>30, <1>32 DEF Outside

\* What the hook lets through is ordinary, command by command, as far as it looks: no
\* command that asks, unless it is glued to another by an operator; no phrase that does; and
\* in a line without a single &, no mutator with a path written outside.
THEOREM NoReasonMeansOrdinary ==
  ASSUME NEW W, NEW t \in Seq(W), ~ ReasonToAsk(t), NEW s \in Segments(t)
  PROVE  /\ \A w \in AskCommands : Trim(Program(s), Quotes) = <<w>> =>
              \E x \in Split(t, Blank) :
                w \in Pieces(x) /\ Pieces(Trim(x, Trimmed)) \cap Operators # {}
         /\ \A ph \in Phrases : ~ IsPrefix(ph, s)
         /\ Program(s) \in Singles(Mutators) /\ Pieces(t) \cap (Operators \ HookOperators) = {}
              => Outside(s, TRUE) = {}
  <1>1. ASSUME NEW ph \in Phrases, IsPrefix(ph, s) PROVE FALSE
    <2> DEFINE V == W \cup Pieces(ph)
    <2>1. /\ s \in Seq(W) /\ Len(s) \in Nat \ {0} /\ Len(t) \in Nat /\ DOMAIN t = 1..Len(t)
      BY SegmentIs
    <2>2. PICK p : StandsAt(s, t, p) BY SegmentIs
    <2>3. /\ p \in 1..Len(t) /\ p + Len(s) <= Len(t) + 1
          /\ \A i \in 1..Len(s) : s[i] = t[p + i - 1]
      BY <2>2 DEF StandsAt
    <2>4. ph \in Seq(V) /\ s \in Seq(V) /\ t \in Seq(V)
      <3>1. ph \in Seq(Pieces(ph)) BY MatchingAssumption
      <3>2. QED BY <2>1, <3>1, SeqMonotonic
    <2> HIDE DEF V
    <2> DEFINE r == SubSeq(t, p, Len(t))
    <2>5. /\ r \in Seq(V) /\ Len(r) = Len(t) - p + 1
          /\ \A k \in 1..(Len(t) - p + 1) : r[k] = t[p + k - 1]
      <3>1. Len(t) \in p..Len(t) BY <2>1, <2>3
      <3>2. QED BY <2>3, <2>4, <3>1, SubSeqIs DEF Copy
    <2> HIDE DEF r
    <2>6. Len(ph) \in Nat /\ Len(ph) <= Len(s) /\ \A i \in 1..Len(ph) : ph[i] = s[i]
      BY <1>1, <2>4, PrefixIs, LenProperties
    <2>7. Len(ph) <= Len(r) BY <2>1, <2>3, <2>5, <2>6
    <2>8. ASSUME NEW i \in 1..Len(ph) PROVE ph[i] = r[i]
      <3>1. i \in 1..Len(s) /\ i \in 1..(Len(t) - p + 1) BY <2>1, <2>3, <2>6
      <3>2. QED BY <2>3, <2>5, <2>6, <3>1
    <2>9. IsPrefix(ph, r) BY <2>4, <2>5, <2>7, <2>8, PrefixIs
    <2>10. QED BY <2>1, <2>3, <2>9 DEF ReasonToAsk, r
  <1>2. ASSUME NEW w \in Mutators, Program(s) = <<w>>,
               Pieces(t) \cap (Operators \ HookOperators) = {}
        PROVE  Outside(s, TRUE) = {}
    <2>1. <<w>> \in Heads(t) BY <1>2, HookSeesCommands
    <2>2. Mutating(t) BY <2>1 DEF Mutating, Singles
    <2>3. Outside(t, TRUE) = {} BY <2>2 DEF ReasonToAsk
    <2>4. QED BY <1>2, <2>3, PathsAreNamed
  <1>3. QED BY <1>1, <1>2, AskCommandsAsk DEF Singles

-----------------------------------------------------------------------------
(* Where a path leads (approve.py).                                        *)

\* The components that can be left in a path of words from W, links followed.
Plain(W) ==
  (W \cup UNION {Pieces(Link[w]) : w \in DOMAIN Link}) \ (DOMAIN Link \cup {".."})

\* One component more.
LEMMA StepType ==
  ASSUME NEW W, NEW path \in Seq(Plain(W)), NEW w \in W
  PROVE  Step(path, w) \in Seq(Plain(W))
  <1>1. CASE w = ".."
    <2>1. path # <<>> => Front(path) \in Seq(Plain(W))
      <3>1. Len(path) \in Nat BY LenProperties
      <3>2. \A i \in 1..(Len(path) - 1) : path[i] \in Plain(W) BY <3>1, LenProperties
      <3>3. SubSeq(path, 1, Len(path) - 1) \in Seq(Plain(W))
        BY <3>1, <3>2, SubSeqProperties
      <3>4. QED BY <3>3 DEF Front
    <2>2. Step(path, w) = IF path = <<>> THEN <<>> ELSE Front(path)
      BY <1>1, MatchingAssumption DEF Step
    <2>3. QED BY <2>1, <2>2
  <1>2. CASE w # ".." /\ w \in DOMAIN Link
    <2>1. Step(path, w) = Link[w] BY <1>2 DEF Step
    <2>2. Pieces(Link[w]) \subseteq Plain(W) BY <1>2, MatchingAssumption DEF Plain
    <2>3. Link[w] \in Seq(Pieces(Link[w])) BY <1>2, MatchingAssumption
    <2>4. \A i \in 1..Len(Link[w]) : Link[w][i] \in Plain(W) BY <2>2, <2>3, LenProperties
    <2>5. QED BY <2>1, <2>2, <2>3
  <1>3. CASE w # ".." /\ w \notin DOMAIN Link
    <2>1. Step(path, w) = Append(path, w) BY <1>3 DEF Step
    <2>2. w \in Plain(W) BY <1>3 DEF Plain
    <2>3. QED BY <2>1, <2>2, AppendProperties
  <1>4. QED BY <1>1, <1>2, <1>3

\* The components are looked at one by one.
LEMMA ResolveIs ==
  ASSUME NEW W, NEW t \in Seq(W)
  PROVE  /\ Len(t) \in Nat
         /\ Resolve(t)[0] = <<>>
         /\ \A n \in 1..Len(t) : t[n] \in W /\ Resolve(t)[n] = Step(Resolve(t)[n - 1], t[n])
         /\ \A n \in 0..Len(t) : Resolve(t)[n] \in Seq(Plain(W))
  <1> DEFINE N == Len(t)
             P == Seq(Plain(W))
             Table == [n \in 1..N |-> [path \in P |-> Step(path, t[n])]]
             Loop(g) == g = [n \in 0..N |-> IF n = 0 THEN <<>> ELSE Step(g[n - 1], t[n])]
  <1>1. N \in Nat /\ \A n \in 1..N : t[n] \in W BY LenProperties
  <1>2. <<>> \in P BY EmptySeq
  <1>3. Table \in [1..N -> [P -> P]]
    <2> HIDE DEF P
    <2>1. \A n \in 1..N : \A path \in P : Step(path, t[n]) \in P BY <1>1, StepType DEF P
    <2>2. QED BY <2>1
  <1>4. \E g : g \in [0..N -> P] /\ Loop(g)
    <2> HIDE DEF Table, N, P
    <2>1. PICK g \in [0..N -> P] : Computed(g, N, <<>>, Table)
      BY <1>1, <1>2, <1>3, Recursion
    <2>2. \A n \in 1..N : n - 1 \in 0..N BY <1>1
    <2>3. \A n \in 1..N : Table[n][g[n - 1]] = Step(g[n - 1], t[n])
      BY <2>1, <2>2 DEF Table, Computed
    <2>4. \A n \in 0..N : g[n] = IF n = 0 THEN <<>> ELSE Step(g[n - 1], t[n])
      BY <2>1, <2>3, <1>1 DEF Computed
    <2>5. g = [n \in 0..N |-> g[n]] BY <2>1
    <2>6. Loop(g) BY <2>4, <2>5
    <2> HIDE DEF Loop
    <2>7. QED BY <2>1, <2>6
  <1>5. Resolve(t) = CHOOSE g : Loop(g) BY DEF Resolve
  <1>6. Loop(Resolve(t))
    <2> HIDE DEF Loop
    <2>1. QED BY <1>4, <1>5
  <1>7. Resolve(t)[0] = <<>> BY <1>1, <1>6
  <1>8. \A n \in 1..N : Resolve(t)[n] = Step(Resolve(t)[n - 1], t[n]) BY <1>1, <1>6
  <1>9. \A n \in 0..N : Resolve(t)[n] \in P
    <2> DEFINE D == {n \in 0..N : Resolve(t)[n] \in P}
    <2>1. 0 \in D
      <3> HIDE DEF P
      <3>1. QED BY <1>1, <1>2, <1>7
    <2>2. ASSUME NEW n \in 1..N, n - 1 \in D PROVE n \in D
      <3>1. Resolve(t)[n - 1] \in Seq(Plain(W)) /\ n \in 0..N BY <1>1, <2>2
      <3>2. Step(Resolve(t)[n - 1], t[n]) \in Seq(Plain(W)) BY <1>1, <3>1, StepType
      <3>3. QED BY <1>8, <3>1, <3>2
    <2>3. 0..N \subseteq D
      <3> HIDE DEF D, N
      <3>1. QED BY <1>1, <2>1, <2>2, Induction
    <2>4. QED BY <2>3
  <1>10. QED BY <1>1, <1>7, <1>8, <1>9

\* Neither a ".." nor a link is left in the path that is compared with the workspace, so
\* that below it is inside it (approve.inside_workspace: "the load-bearing part").
THEOREM PathsAreResolved ==
  ASSUME NEW W, NEW t \in Seq(W)
  PROVE  /\ RealPath(t) \in Seq(Plain(W))
         /\ Pieces(RealPath(t)) \cap (DOMAIN Link \cup {".."}) = {}
  <1>1. RealPath(t) \in Seq(Plain(W)) BY ResolveIs DEF RealPath
  <1>2. \A i \in DOMAIN RealPath(t) : RealPath(t)[i] \in Plain(W) BY <1>1, LenProperties
  <1>3. QED BY <1>1, <1>2 DEF Plain, Pieces

\* A path below another leads below it, as long as neither a ".." nor a link comes after.
THEOREM PlainTailsStay ==
  ASSUME NEW W, NEW u \in Seq(W), NEW t \in Seq(W), IsPrefix(u, t),
         Pieces(SubSeq(t, Len(u) + 1, Len(t))) \cap (DOMAIN Link \cup {".."}) = {}
  PROVE  IsPrefix(RealPath(u), RealPath(t))
  <1> DEFINE m == Len(u)
             n == Len(t)
             V == Plain(W)
  <1>1. /\ m \in Nat /\ n \in Nat /\ m <= n /\ \A i \in 1..m : u[i] = t[i]
    BY PrefixIs, LenProperties
  <1>2. /\ \A i \in 1..m : Resolve(u)[i] = Step(Resolve(u)[i - 1], u[i])
        /\ \A i \in 1..n : t[i] \in W /\ Resolve(t)[i] = Step(Resolve(t)[i - 1], t[i])
        /\ \A i \in 0..m : Resolve(u)[i] \in Seq(V)
        /\ \A i \in 0..n : Resolve(t)[i] \in Seq(V)
        /\ Resolve(u)[0] = <<>> /\ Resolve(t)[0] = <<>>
    BY ResolveIs
  <1>3. \A i \in (m + 1)..n : t[i] \notin DOMAIN Link \cup {".."}
    <2>1. SUFFICES ASSUME NEW i \in (m + 1)..n PROVE t[i] \notin DOMAIN Link \cup {".."}
      OBVIOUS
    <2>2. m + 1 \in 1..n /\ n \in (m + 1)..n BY <1>1
    <2> DEFINE r == SubSeq(t, m + 1, n)
    <2>3. r \in Seq(W) /\ Copy(r, t, m + 1, n) BY <2>2, SubSeqIs
    <2> HIDE DEF r
    <2>4. i - m \in 1..(n - (m + 1) + 1) /\ m + 1 + (i - m) - 1 = i BY <1>1
    <2>5. r[i - m] = t[i] /\ DOMAIN r = 1..(n - (m + 1) + 1)
      BY <2>3, <2>4, LenProperties DEF Copy
    <2>6. t[i] \in Pieces(r) BY <2>4, <2>5 DEF Pieces
    <2>7. QED BY <2>6 DEF r
  <1> HIDE DEF m, n, V
  <1>4. Resolve(u)[m] = Resolve(t)[m]
    <2> DEFINE D == {k \in 0..m : Resolve(u)[k] = Resolve(t)[k]}
    <2>1. 0 \in D BY <1>1, <1>2
    <2>2. ASSUME NEW k \in 1..m, k - 1 \in D PROVE k \in D
      <3>1. Resolve(u)[k - 1] = Resolve(t)[k - 1] BY <2>2
      <3>2. k \in 1..n /\ k \in 0..m /\ u[k] = t[k] BY <1>1
      <3>3. Resolve(u)[k] = Resolve(t)[k] BY <1>2, <3>1, <3>2
      <3>4. QED BY <3>2, <3>3
    <2> HIDE DEF D
    <2>3. 0..m \subseteq D BY <1>1, <2>1, <2>2, Induction
    <2>4. m \in 0..m BY <1>1
    <2>5. QED BY <2>3, <2>4 DEF D
  <1>5. IsPrefix(Resolve(t)[m], Resolve(t)[n])
    <2> DEFINE a == Resolve(t)[m]
               D == {k \in 0..n : k < m \/ IsPrefix(a, Resolve(t)[k])}
    <2>1. a \in Seq(V) BY <1>1, <1>2
    <2> HIDE DEF a
    <2>2. IsPrefix(a, a) BY <2>1, PrefixIs, LenProperties
    <2>3. 0 \in D
      <3>1. CASE m = 0 BY <1>1, <2>2, <3>1 DEF a
      <3>2. CASE m # 0 BY <1>1, <3>2
      <3>3. QED BY <3>1, <3>2
    <2>4. ASSUME NEW k \in 1..n, k - 1 \in D PROVE k \in D
      <3>1. k \in 0..n /\ k - 1 \in 0..n /\ k \in Nat BY <1>1
      <3>2. CASE k < m BY <3>1, <3>2
      <3>3. CASE k = m BY <2>2, <3>1, <3>3 DEF a
      <3>4. CASE k > m
        <4>1. IsPrefix(a, Resolve(t)[k - 1])
          <5>1. ~ k - 1 < m BY <1>1, <3>1, <3>4
          <5>2. QED BY <2>4, <5>1
        <4>2. t[k] \notin DOMAIN Link \cup {".."}
          <5>1. k \in (m + 1)..n BY <1>1, <3>1, <3>4
          <5>2. QED BY <1>3, <5>1
        <4> DEFINE b == Resolve(t)[k - 1]
        <4>3. b \in Seq(V) BY <1>2, <3>1
        <4>4. Resolve(t)[k] = Append(b, t[k]) BY <1>2, <4>2 DEF Step
        <4>5. Resolve(t)[k] \in Seq(V) BY <1>2, <3>1
        <4>6. t[k] \in V BY <1>2, <4>2 DEF V, Plain
        <4> HIDE DEF b
        <4>7. /\ Len(Append(b, t[k])) = Len(b) + 1 /\ Len(b) \in Nat
              /\ \A i \in 1..Len(b) : Append(b, t[k])[i] = b[i]
          BY <4>3, <4>6, AppendProperties, LenProperties
        <4>8. Len(a) \in Nat /\ Len(a) <= Len(b) /\ \A i \in 1..Len(a) : a[i] = b[i]
          BY <2>1, <4>1, <4>3, PrefixIs, LenProperties DEF b
        <4>9. Len(a) <= Len(b) + 1 /\ \A i \in 1..Len(a) : i \in 1..Len(b)
          BY <4>7, <4>8
        <4>10. Len(a) <= Len(Resolve(t)[k]) /\ \A i \in 1..Len(a) : a[i] = Resolve(t)[k][i]
          BY <4>4, <4>7, <4>8, <4>9
        <4>11. IsPrefix(a, Resolve(t)[k]) BY <2>1, <4>5, <4>10, PrefixIs
        <4>12. QED BY <3>1, <4>11
      <3>5. QED BY <1>1, <3>1, <3>2, <3>3, <3>4
    <2> HIDE DEF D
    <2>5. 0..n \subseteq D BY <1>1, <2>3, <2>4, Induction
    <2>6. n \in 0..n /\ ~ n < m BY <1>1
    <2>7. QED BY <2>5, <2>6 DEF D, a
  <1>6. QED BY <1>4, <1>5 DEF RealPath, m, n
=============================================================================
