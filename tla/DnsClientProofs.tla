-------------------------- MODULE DnsClientProofs --------------------------
(***************************************************************************)
(* Theorems about DnsClient, for any names asked for, any size of the      *)
(* buffer, any messages of the form that servers write, cut anywhere: the  *)
(* walk over an answer is in step with what was sent, and what is printed  *)
(* are the addresses that came.                                            *)
(***************************************************************************)
EXTENDS DnsClient, TLAPS, SequenceTheorems, FiniteSetTheorems, WellFoundedInduction

(* Every non-empty set of naturals has a least element.                    *)
LEMMA LeastElement ==
  ASSUME NEW T, T \subseteq Nat, T # {}
  PROVE  \E m \in T : \A k \in T : m <= k
<1> DEFINE R == {ss \in Nat \X Nat : ss[1] < ss[2]}
<1>1. IsWellFoundedOn(R, Nat)
  BY NatLessThanWellFounded DEF OpToRel
<1> HIDE DEF R
<1>2. PICK m \in T : \A k \in T : ~(<<k, m>> \in R)
  BY <1>1, WFMin
<1>3. \A k \in T : ~(k < m)
  BY <1>2 DEF R
<1>4. QED BY <1>3

(* A function on 0..n can be defined by its first value and by what each   *)
(* value makes of the one before it.                                       *)
Iterates(g, D, base, step, n) ==
  g \in [0..n -> D] /\ g[0] = base /\ \A i \in 1..n : g[i] = step[<<g[i-1], i>>]
LEMMA Iteration ==
  ASSUME NEW D, NEW base \in D, NEW step \in [D \X Nat -> D], NEW n \in Nat
  PROVE  \E g : Iterates(g, D, base, step, n)
<1> USE DEF Iterates
<1> DEFINE Good(k) == \E g \in [0..k -> D] :
                        g[0] = base /\ \A i \in 1..k : g[i] = step[<<g[i-1], i>>]
           Bad == {k \in Nat : ~Good(k)}
<1>1. SUFFICES ASSUME Bad # {} PROVE FALSE
  OBVIOUS
<1>2. PICK m \in Bad : \A k \in Bad : m <= k
  <2>1. Bad \subseteq Nat OBVIOUS
  <2> HIDE DEF Bad
  <2>2. QED BY <1>1, <2>1, LeastElement
<1>3. m # 0
  <2>1. Good(0)
    <3> DEFINE g == [i \in 0..0 |-> base]
    <3>1. g \in [0..0 -> D] /\ g[0] = base OBVIOUS
    <3>2. \A i \in 1..0 : g[i] = step[<<g[i-1], i>>] OBVIOUS
    <3> HIDE DEF g
    <3>3. QED BY <3>1, <3>2
  <2>2. QED BY <2>1
<1>4. m \in Nat /\ m - 1 \in Nat /\ m - 1 < m BY <1>3
<1>5. Good(m-1) BY <1>2, <1>4
<1>6. PICK h \in [0..m-1 -> D] :
        h[0] = base /\ \A i \in 1..m-1 : h[i] = step[<<h[i-1], i>>]
  BY <1>5
<1> DEFINE g == [i \in 0..m |-> IF i = m THEN step[<<h[m-1], m>>] ELSE h[i]]
<1>7. h[m-1] \in D /\ step[<<h[m-1], m>>] \in D
  BY <1>4, <1>6
<1>8. g \in [0..m -> D] BY <1>4, <1>6, <1>7
<1>9. g[0] = base BY <1>4, <1>6
<1>10. \A i \in 1..m : g[i] = step[<<g[i-1], i>>]
  <2>1. TAKE i \in 1..m
  <2>2. CASE i = m BY <2>2, <1>4
  <2>3. CASE i # m
    <3>1. i \in 1..m-1 /\ i - 1 \in 0..m /\ i - 1 # m BY <2>3, <1>4
    <3>2. g[i] = h[i] /\ g[i-1] = h[i-1] BY <3>1, <2>3
    <3>3. QED BY <3>1, <3>2, <1>6
  <2>4. QED BY <2>2, <2>3
<1>11. Good(m) BY <1>8, <1>9, <1>10
<1>12. QED BY <1>2, <1>11
----------------------------------------------------------------------------
(* The library's FlattenSeq joins the pieces of a sequence one by one.      *)

Joins(f, ss, S) ==
  /\ f \in [1..Len(ss) -> Seq(S)]
  /\ FlattenSeq(ss) = f[Len(ss)] /\ f[1] = ss[1]
  /\ \A i \in 2..Len(ss) : f[i] = f[i-1] \o ss[i]
LEMMA FlattenRuns ==
  ASSUME NEW S, NEW ss \in Seq(Seq(S)), ss # <<>>
  PROVE  \E f : Joins(f, ss, S)
<1> DEFINE D == Seq(S)
           IsRun(f) == f = [i \in 1..Len(ss) |-> IF i = 1 THEN ss[i] ELSE f[i-1] \o ss[i]]
           run == CHOOSE f : IsRun(f)
           piece(i) == IF i + 1 \in 1..Len(ss) THEN ss[i+1] ELSE <<>>
           step == [x \in D \X Nat |-> x[1] \o piece(x[2])]
<1>1. PICK n \in Nat : n = Len(ss) - 1 /\ Len(ss) = n + 1 /\ Len(ss) \in Nat /\ Len(ss) # 0
  <2>1. Len(ss) \in Nat /\ Len(ss) # 0 BY LenProperties, EmptySeq
  <2>2. PICK l \in Nat : l = Len(ss) /\ l # 0 BY <2>1
  <2>3. l - 1 \in Nat /\ l = l - 1 + 1 BY <2>2
  <2>4. QED BY <2>2, <2>3
<1>2. ss[1] \in D BY <1>1, ElementOfSeq
<1>3. step \in [D \X Nat -> D]
  <2>1. ASSUME NEW x \in D \X Nat PROVE x[1] \o piece(x[2]) \in D
    <3>1. piece(x[2]) \in D BY ElementOfSeq, EmptySeq
    <3>2. x[1] \in D OBVIOUS
    <3> HIDE DEF piece
    <3>3. QED BY <3>1, <3>2, ConcatProperties
  <2>2. QED BY <2>1
<1> HIDE DEF step
<1>4. PICK g \in [0..n -> D] : g[0] = ss[1] /\ \A i \in 1..n : g[i] = step[<<g[i-1], i>>]
  <2>1. \E g : Iterates(g, D, ss[1], step, n)
    <3> HIDE DEF D
    <3>1. QED BY <1>2, <1>3, Iteration
  <2>2. QED BY <2>1 DEF Iterates
<1> DEFINE f == [i \in 1..Len(ss) |-> g[i-1]]
<1>5. f \in [1..Len(ss) -> D] BY <1>1, <1>4
<1>6. f[1] = ss[1] BY <1>1, <1>4
<1>7. \A i \in 2..Len(ss) : f[i] = f[i-1] \o ss[i]
  <2>1. TAKE i \in 2..Len(ss)
  <2>2. PICK j \in 1..n : j = i - 1 BY <1>1
  <2>3. g[j] = step[<<g[j-1], j>>] /\ g[j-1] \in D BY <1>4
  <2>4. step[<<g[j-1], j>>] = g[j-1] \o piece(j)
    <3>1. PICK x : x = <<g[j-1], j>> OBVIOUS
    <3>2. x \in D \X Nat /\ x[1] = g[j-1] /\ x[2] = j BY <3>1, <2>3
    <3>3. step[x] = x[1] \o piece(x[2]) BY <3>2 DEF step
    <3> HIDE DEF piece
    <3>4. QED BY <3>1, <3>2, <3>3
  <2>5. piece(j) = ss[i] BY <2>2, <1>1
  <2>6. f[i] = g[j] /\ f[i-1] = g[j-1] BY <2>2, <1>1
  <2>7. QED BY <2>3, <2>4, <2>5, <2>6
<1>8. IsRun(f)
  <2>1. ASSUME NEW i \in 1..Len(ss) PROVE f[i] = IF i = 1 THEN ss[i] ELSE f[i-1] \o ss[i]
    <3>1. i = 1 \/ i \in 2..Len(ss) BY <1>1
    <3> HIDE DEF f
    <3>2. QED BY <3>1, <1>6, <1>7
  <2>2. QED BY <2>1
<1>9. IsRun(run) BY <1>8
<1>10. FlattenSeq(ss) = run[Len(ss)]
  BY <1>1 DEF FlattenSeq
<1> HIDE DEF f
<1>11. run[1] = ss[1] /\ \A i \in 2..Len(ss) : run[i] = run[i-1] \o ss[i]
  <2> HIDE DEF run
  <2>1. QED BY <1>9, <1>1
<1>12. run \in [1..Len(ss) -> D]
  <2> HIDE DEF run
  <2> DEFINE Bad == {i \in 1..Len(ss) : run[i] # f[i]}
  <2>1. Bad = {}
    <3>1. SUFFICES ASSUME Bad # {} PROVE FALSE OBVIOUS
    <3>2. PICK m \in Bad : \A k \in Bad : m <= k
      <4>1. Bad \subseteq Nat BY <1>1
      <4> HIDE DEF Bad
      <4>2. QED BY <3>1, <4>1, LeastElement
    <3>3. m \in 2..Len(ss) BY <1>6, <1>11, <1>1
    <3>4. m - 1 \in 1..Len(ss) /\ ~(m <= m - 1) BY <3>3, <1>1
    <3>5. run[m-1] = f[m-1] BY <3>4, <3>2
    <3>6. run[m] = f[m] BY <3>3, <3>5, <1>7, <1>11
    <3>7. QED BY <3>6, <3>2
  <2>2. \A i \in 1..Len(ss) : run[i] = f[i] BY <2>1
  <2>3. DOMAIN run = 1..Len(ss) BY <1>9
  <2>4. QED BY <2>2, <2>3, <1>5, <1>9
<1>13. QED BY <1>10, <1>11, <1>12 DEF Joins

LEMMA FlattenEmpty == FlattenSeq(<<>>) = <<>>
BY DEF FlattenSeq

LEMMA FlattenType ==
  ASSUME NEW S, NEW ss \in Seq(Seq(S))
  PROVE  FlattenSeq(ss) \in Seq(S)
<1>1. CASE ss = <<>> BY <1>1, FlattenEmpty, EmptySeq
<1>2. CASE ss # <<>>
  <2>1. PICK f : Joins(f, ss, S) BY <1>2, FlattenRuns
  <2>2. Len(ss) \in 1..Len(ss) BY <1>2, EmptySeq, LenProperties
  <2>3. QED BY <2>1, <2>2 DEF Joins
<1>3. QED BY <1>1, <1>2

(* One piece more at the end is one piece more at the end.                 *)
LEMMA FlattenAppend ==
  ASSUME NEW S, NEW ss \in Seq(Seq(S)), NEW e \in Seq(S)
  PROVE  FlattenSeq(Append(ss, e)) = FlattenSeq(ss) \o e
<1>1. PICK tt : tt = Append(ss, e) OBVIOUS
<1>2. PICK n : n = Len(ss) OBVIOUS
<1>3. /\ n \in Nat /\ tt \in Seq(Seq(S)) /\ Len(tt) = n + 1
      /\ tt[n+1] = e /\ (\A i \in 1..n : tt[i] = ss[i]) /\ tt # <<>>
  <2>1. PICK D : D = Seq(S) OBVIOUS
  <2>2. ss \in Seq(D) /\ e \in D BY <2>1
  <2>3. n \in Nat /\ tt \in Seq(D) /\ Len(tt) = n + 1 BY <1>1, <1>2, <2>2, AppendProperties, LenProperties
  <2>4. tt[n+1] = e BY <1>1, <1>2, <2>2, <2>3, AppendProperties
  <2>5. \A i \in 1..n : tt[i] = ss[i] BY <1>1, <1>2, <2>2, <2>3, AppendProperties
  <2>6. tt # <<>> BY <2>3, EmptySeq
  <2>7. QED BY <2>1, <2>3, <2>4, <2>5, <2>6
<1>4. PICK f \in [1..n+1 -> Seq(S)] :
        /\ FlattenSeq(tt) = f[n+1] /\ f[1] = tt[1]
        /\ \A i \in 2..n+1 : f[i] = f[i-1] \o tt[i]
  <2>1. \E f : Joins(f, tt, S) BY <1>3, FlattenRuns
  <2>2. QED BY <2>1, <1>3 DEF Joins
<1>5. CASE n = 0
  <2>1. ss = <<>> BY <1>5, <1>2, EmptySeq
  <2>2. FlattenSeq(tt) = e BY <1>5, <1>3, <1>4
  <2>3. FlattenSeq(ss) \o e = e BY <2>1, FlattenEmpty, ConcatEmptySeq
  <2>4. QED BY <1>1, <2>2, <2>3
<1>6. CASE n # 0
  <2>1. ss # <<>> BY <1>6, <1>2, EmptySeq
  <2>2. PICK g \in [1..n -> Seq(S)] :
          /\ FlattenSeq(ss) = g[n] /\ g[1] = ss[1]
          /\ \A i \in 2..n : g[i] = g[i-1] \o ss[i]
    <3>1. \E g : Joins(g, ss, S) BY <2>1, FlattenRuns
    <3>2. QED BY <3>1, <1>2 DEF Joins
  <2> DEFINE Bad == {i \in 1..n : g[i] # f[i]}
  <2>3. Bad = {}
    <3>1. SUFFICES ASSUME Bad # {} PROVE FALSE OBVIOUS
    <3>2. PICK m \in Bad : \A k \in Bad : m <= k
      <4>1. Bad \subseteq Nat BY <1>3
      <4> HIDE DEF Bad
      <4>2. QED BY <3>1, <4>1, LeastElement
    <3>3. m \in 2..n BY <1>3, <1>4, <2>2
    <3>4. m - 1 \in 1..n /\ ~(m <= m - 1) /\ m \in 2..n+1 BY <3>3, <1>3
    <3>5. g[m-1] = f[m-1] BY <3>4, <3>2
    <3>6. g[m] = g[m-1] \o ss[m] BY <3>3, <2>2
    <3>7. f[m] = f[m-1] \o tt[m] BY <3>4, <1>4
    <3>8. tt[m] = ss[m] BY <3>3, <1>3
    <3>9. QED BY <3>2, <3>5, <3>6, <3>7, <3>8
  <2>4. n \in 1..n /\ n + 1 \in 2..n+1 /\ n + 1 - 1 = n BY <1>3, <1>6
  <2>5. f[n] = g[n] BY <2>3, <2>4
  <2>6. f[n+1] = f[n] \o e
    <3>1. PICK q : q = n + 1 OBVIOUS
    <3>2. q \in 2..n+1 /\ q - 1 = n BY <3>1, <2>4
    <3>3. f[q] = f[q-1] \o tt[q] BY <3>2, <1>4
    <3>4. QED BY <3>1, <3>2, <3>3, <1>3
  <2>7. QED BY <1>1, <1>4, <2>2, <2>5, <2>6
<1>7. QED BY <1>5, <1>6

(* What the first k pieces make. *)
Part(ss, k) == FlattenSeq(SubSeq(ss, 1, k))

LEMMA PartEnds ==
  ASSUME NEW S, NEW ss \in Seq(Seq(S))
  PROVE  Part(ss, 0) = <<>> /\ Part(ss, Len(ss)) = FlattenSeq(ss)
<1>1. SubSeq(ss, 1, 0) = <<>> BY SubSeqEmpty
<1>2. SubSeq(ss, 1, Len(ss)) = ss
  <2>1. PICK D : D = Seq(S) OBVIOUS
  <2>2. ss \in Seq(D) BY <2>1
  <2>3. QED BY <2>2, SubSeqFull
<1>3. QED BY <1>1, <1>2, FlattenEmpty DEF Part

LEMMA PartStep ==
  ASSUME NEW S, NEW ss \in Seq(Seq(S)), NEW k \in 1..Len(ss)
  PROVE  /\ Part(ss, k - 1) \in Seq(S) /\ Part(ss, k) \in Seq(S) /\ ss[k] \in Seq(S)
         /\ Part(ss, k) = Part(ss, k - 1) \o ss[k]
         /\ Len(Part(ss, k)) = Len(Part(ss, k - 1)) + Len(ss[k])
<1>1. Len(ss) \in Nat /\ k \in Nat /\ k - 1 \in Nat /\ k - 1 <= Len(ss) /\ k >= 1 BY LenProperties
<1>2. PICK pre : pre = SubSeq(ss, 1, k - 1) OBVIOUS
<1>3. pre \in Seq(Seq(S))
  <2>1. \A i \in 1..k-1 : ss[i] \in Seq(S) BY <1>1, ElementOfSeq
  <2>2. QED BY <1>1, <1>2, <2>1, SubSeqProperties
<1>4. ss[k] \in Seq(S) BY ElementOfSeq
<1>5. SubSeq(ss, 1, k) = pre \o <<ss[k]>> BY <1>1, <1>2, SubSeqRecursiveSecond
<1>6. pre \o <<ss[k]>> = Append(pre, ss[k]) BY <1>3, <1>4
<1>7. FlattenSeq(Append(pre, ss[k])) = FlattenSeq(pre) \o ss[k] BY <1>3, <1>4, FlattenAppend
<1>8. FlattenSeq(pre) \in Seq(S) BY <1>3, FlattenType
<1>9. Part(ss, k) = FlattenSeq(pre) \o ss[k] BY <1>5, <1>6, <1>7 DEF Part
<1>10. Part(ss, k - 1) = FlattenSeq(pre) BY <1>2 DEF Part
<1>11. PICK a, b : a = FlattenSeq(pre) /\ b = ss[k] OBVIOUS
<1>12. a \in Seq(S) /\ b \in Seq(S) BY <1>4, <1>8, <1>11
<1>13. a \o b \in Seq(S) /\ Len(a \o b) = Len(a) + Len(b) BY <1>12, ConcatProperties
<1>14. QED BY <1>9, <1>10, <1>11, <1>12, <1>13

(* The pieces stand one behind the other. *)
LEMMA PartsGrow ==
  ASSUME NEW S, NEW ss \in Seq(Seq(S)), NEW l \in 0..Len(ss), NEW k \in 0..l
  PROVE  /\ Part(ss, k) \in Seq(S) /\ Part(ss, l) \in Seq(S)
         /\ Len(Part(ss, k)) <= Len(Part(ss, l))
         /\ \A j \in 1..Len(Part(ss, k)) : Part(ss, l)[j] = Part(ss, k)[j]
<1>1. Len(ss) \in Nat /\ l \in Nat /\ k \in Nat BY LenProperties
<1> DEFINE Grown(i) == /\ Part(ss, k) \in Seq(S) /\ Part(ss, i) \in Seq(S)
                       /\ Len(Part(ss, k)) <= Len(Part(ss, i))
                       /\ \A j \in 1..Len(Part(ss, k)) : Part(ss, i)[j] = Part(ss, k)[j]
           Bad == {i \in k..l : ~Grown(i)}
<1>2. Grown(k)
  <2>1. Part(ss, k) \in Seq(S)
    <3>1. CASE k = 0
      <4>1. Part(ss, 0) = <<>> BY PartEnds
      <4>2. QED BY <3>1, <4>1, EmptySeq
    <3>2. CASE k # 0
      <4>1. k \in 1..Len(ss) BY <3>2, <1>1
      <4>2. QED BY <4>1, PartStep
    <3>3. QED BY <3>1, <3>2
  <2>2. Len(Part(ss, k)) \in Nat BY <2>1, LenProperties
  <2>3. QED BY <2>1, <2>2
<1>3. SUFFICES ASSUME Bad # {} PROVE FALSE
  <2>1. l \in k..l BY <1>1
  <2>2. Grown(l) BY <1>3, <2>1
  <2>3. QED BY <2>2
<1>4. PICK m \in Bad : \A i \in Bad : m <= i
  <2>1. Bad \subseteq Nat BY <1>1
  <2> HIDE DEF Bad
  <2>2. QED BY <1>3, <2>1, LeastElement
<1>5. m # k BY <1>2
<1>6. m - 1 \in k..l /\ ~(m <= m - 1) /\ m \in 1..Len(ss) BY <1>1, <1>5
<1>7. Grown(m-1)
  <2>1. m - 1 \notin Bad BY <1>4, <1>6
  <2>2. QED BY <2>1, <1>6
<1>8. PICK a, b, c : a = Part(ss, k) /\ b = Part(ss, m-1) /\ c = Part(ss, m) OBVIOUS
<1>9. PICK e : e = ss[m] OBVIOUS
<1>10. a \in Seq(S) /\ b \in Seq(S) /\ c \in Seq(S) /\ e \in Seq(S) /\ c = b \o e /\ Len(a) <= Len(b)
       /\ \A j \in 1..Len(a) : b[j] = a[j]
  BY <1>6, <1>7, <1>8, <1>9, PartStep
<1>11. Len(a) \in Nat /\ Len(b) \in Nat /\ Len(e) \in Nat BY <1>10, LenProperties
<1>12. Len(c) = Len(b) + Len(e) /\ \A j \in 1..Len(b) : c[j] = b[j]
  BY <1>10, <1>11, ConcatProperties
<1>13. Len(a) <= Len(c) /\ \A j \in 1..Len(a) : c[j] = a[j] BY <1>10, <1>11, <1>12
<1>14. Grown(m) BY <1>8, <1>10, <1>13
<1>15. QED BY <1>4, <1>14

(* And each stands where those before it end.                              *)
LEMMA PieceAt ==
  ASSUME NEW S, NEW ss \in Seq(Seq(S)), NEW k \in 1..Len(ss)
  PROVE  /\ FlattenSeq(ss) \in Seq(S) /\ ss[k] \in Seq(S) /\ Part(ss, k - 1) \in Seq(S)
         /\ Len(Part(ss, k - 1)) + Len(ss[k]) <= Len(FlattenSeq(ss))
         /\ \A j \in 1..Len(ss[k]) : FlattenSeq(ss)[Len(Part(ss, k - 1)) + j] = ss[k][j]
<1>1. Len(ss) \in Nat /\ k \in 0..Len(ss) /\ Len(ss) \in 0..Len(ss) BY LenProperties
<1>2. PICK a, b, c, e : a = Part(ss, k) /\ b = Part(ss, k-1) /\ c = Part(ss, Len(ss)) /\ e = ss[k] OBVIOUS
<1>3. a \in Seq(S) /\ b \in Seq(S) /\ e \in Seq(S) /\ a = b \o e BY <1>2, PartStep
<1>4. c \in Seq(S) /\ Len(a) <= Len(c) /\ \A j \in 1..Len(a) : c[j] = a[j] BY <1>1, <1>2, PartsGrow
<1>5. Len(a) \in Nat /\ Len(b) \in Nat /\ Len(e) \in Nat /\ Len(c) \in Nat BY <1>3, <1>4, LenProperties
<1>6. Len(a) = Len(b) + Len(e) /\ \A j \in 1..Len(b) + Len(e) : a[j] = IF j <= Len(b) THEN b[j] ELSE e[j - Len(b)]
  BY <1>3, ConcatProperties
<1>7. ASSUME NEW j \in 1..Len(e) PROVE c[Len(b) + j] = e[j]
  <2>1. PICK i : i = Len(b) + j OBVIOUS
  <2>2. i \in 1..Len(a) /\ ~(i <= Len(b)) /\ i - Len(b) = j BY <2>1, <1>5, <1>6
  <2>3. QED BY <2>1, <2>2, <1>4, <1>6
<1>8. c = FlattenSeq(ss) BY <1>2, PartEnds
<1>9. QED BY <1>2, <1>3, <1>4, <1>5, <1>6, <1>7, <1>8
----------------------------------------------------------------------------
(* The encoder.                                                            *)

LEMMA LabelForm ==
  ASSUME NEW n \in Nat
  PROVE  Label(n) \in Seq(Nat) /\ Len(Label(n)) = n + 1 /\ Label(n)[1] = n
<1>1. PICK a, b : a = <<n>> /\ b = [i \in 1..n |-> Letter] OBVIOUS
<1>2. a \in Seq(Nat) /\ Len(a) = 1 /\ a[1] = n BY <1>1
<1>3. b \in Seq(Nat) /\ Len(b) = n BY <1>1 DEF Letter
<1>4. Label(n) = a \o b BY <1>1 DEF Label
<1>5. PICK c : c = a \o b OBVIOUS
<1>6. c \in Seq(Nat) /\ Len(c) = n + 1 /\ c[1] = a[1]
  <2>1. 1 \in 1..Len(a) + Len(b) /\ 1 <= Len(a) /\ Len(a) + Len(b) = n + 1 BY <1>2, <1>3
  <2>2. QED BY <1>2, <1>3, <1>5, <2>1, ConcatProperties
<1>7. QED BY <1>2, <1>4, <1>5, <1>6

(* What the encoder has written never reaches the last byte of the buffer  *)
(* before the closing zero (dns.c:57).                                     *)
LEMMA EncodedFits ==
  ASSUME NEW labels \in Seq(Nat)
  PROVE  /\ encode_domain_name(labels) \in Seq(Int)
         /\ Len(encode_domain_name(labels)) <= NameBuf
<1> DEFINE D == Seq(Int)
           n == Len(labels)
           Enough(x, i) == ~(x = <<-1>> \/ ~Room(NameBuf - Len(x), labels[i]))
           Next1(x, i) == IF ~Enough(x, i) THEN <<-1>> ELSE x \o Label(labels[i])
           IsRun(f) == f = [i \in 0..n |-> IF i = 0 THEN <<>> ELSE Next1(f[i-1], i)]
           run == CHOOSE f : IsRun(f)
           step == [x \in D \X Nat |-> IF x[2] \in 1..n THEN Next1(x[1], x[2]) ELSE <<>>]
<1>1. n \in Nat /\ NameBuf \in Nat /\ NameBuf # 0 BY LenProperties, DnsAssumption
<1>2. ASSUME NEW x \in D, NEW i \in 1..n
      PROVE  /\ Next1(x, i) \in D
             /\ Len(x) < NameBuf /\ Next1(x, i) # <<-1>> => Len(Next1(x, i)) < NameBuf
  <2>1. labels[i] \in Nat BY ElementOfSeq
  <2>2. PICK y : y = Label(labels[i]) OBVIOUS
  <2>3. y \in D /\ Len(y) = labels[i] + 1
    <3>1. y \in Seq(Nat) /\ Len(y) = labels[i] + 1 BY <2>1, <2>2, LabelForm
    <3>2. QED BY <3>1, SeqMonotonic
  <2>4. <<-1>> \in D OBVIOUS
  <2>5. CASE ~Enough(x, i) BY <2>4, <2>5
  <2>6. CASE Enough(x, i)
    <3>1. Next1(x, i) = x \o y BY <2>2, <2>6
    <3>2. NameBuf - Len(x) > labels[i] + 1 BY <2>6 DEF Room
    <3>3. Len(x) \in Nat BY LenProperties
    <3>4. x \o y \in D /\ Len(x \o y) = Len(x) + Len(y) BY <2>3, ConcatProperties
    <3> HIDE DEF Next1
    <3>5. QED BY <3>1, <3>2, <3>3, <3>4, <2>1, <2>3, <1>1
  <2>7. QED BY <2>5, <2>6
<1> HIDE DEF Next1
<1>3. step \in [D \X Nat -> D]
  <2>1. ASSUME NEW x \in D \X Nat
        PROVE (IF x[2] \in 1..n THEN Next1(x[1], x[2]) ELSE <<>>) \in D
    <3>1. x[1] \in D OBVIOUS
    <3>2. QED BY <3>1, <1>2
  <2>2. QED BY <2>1
<1>4. PICK g : Iterates(g, D, <<>>, step, n)
  <2>1. <<>> \in D OBVIOUS
  <2> HIDE DEF D, n, step
  <2>2. QED BY <2>1, <1>1, <1>3, Iteration
<1>5. \A i \in 1..n : g[i] = Next1(g[i-1], i)
  <2>1. TAKE i \in 1..n
  <2>2. PICK x : x = <<g[i-1], i>> OBVIOUS
  <2>3. g[i] = step[x] /\ g[i-1] \in D
    <3>1. i - 1 \in 0..n BY <1>1
    <3> HIDE DEF D, step, n
    <3>2. QED BY <1>4, <2>2, <3>1 DEF Iterates
  <2>4. x \in D \X Nat /\ x[1] = g[i-1] /\ x[2] = i BY <2>2, <2>3
  <2>5. step[x] = Next1(x[1], x[2]) BY <2>4
  <2>6. QED BY <2>3, <2>4, <2>5
<1>6. IsRun(g)
  <2>1. g = [i \in 0..n |-> g[i]] BY <1>4 DEF Iterates
  <2>2. ASSUME NEW i \in 0..n PROVE g[i] = IF i = 0 THEN <<>> ELSE Next1(g[i-1], i)
    BY <1>4, <1>5 DEF Iterates
  <2>3. QED BY <2>1, <2>2
<1>7. IsRun(run) BY <1>6
<1>8. encode_domain_name(labels) = IF run[n] = <<-1>> THEN <<>> ELSE run[n] \o <<0>>
  BY DEF encode_domain_name, Next1
<1> HIDE DEF run
<1> DEFINE Fits(i) == run[i] \in D /\ (run[i] # <<-1>> => Len(run[i]) < NameBuf)
           Bad == {i \in 0..n : ~Fits(i)}
<1>9. Fits(0)
  <2>1. run[0] = <<>> BY <1>1, <1>7
  <2>2. QED BY <2>1, <1>1, EmptySeq
<1>10. \A i \in 1..n : run[i] = Next1(run[i-1], i)
  <2>1. ASSUME NEW i \in 1..n PROVE run[i] = Next1(run[i-1], i)
    <3>1. i \in 0..n /\ i # 0 BY <1>1
    <3> HIDE DEF Next1
    <3>2. QED BY <3>1, <1>7
  <2> HIDE DEF Next1
  <2>2. QED BY <2>1
<1>11. Bad = {}
  <2>1. SUFFICES ASSUME Bad # {} PROVE FALSE OBVIOUS
  <2>2. PICK m \in Bad : \A i \in Bad : m <= i
    <3>1. Bad \subseteq Nat BY <1>1
    <3> HIDE DEF Bad
    <3>2. QED BY <2>1, <3>1, LeastElement
  <2>3. m # 0 BY <1>9
  <2>4. m \in 1..n /\ m - 1 \in 0..n /\ ~(m <= m - 1) BY <1>1, <2>3
  <2>5. Fits(m-1)
    <3>1. m - 1 \notin Bad BY <2>2, <2>4
    <3>2. QED BY <3>1, <2>4
  <2>6. run[m] = Next1(run[m-1], m) BY <2>4, <1>10
  <2>7. run[m] # <<-1>> => run[m-1] # <<-1>> BY <2>6 DEF Next1
  <2>8. Fits(m) BY <2>4, <2>5, <2>6, <2>7, <1>2
  <2>9. QED BY <2>2, <2>8
<1>12. Fits(n)
  <2>1. n \in 0..n BY <1>1
  <2>2. QED BY <2>1, <1>11
<1>13. CASE run[n] = <<-1>> BY <1>1, <1>8, <1>13, EmptySeq
<1>14. CASE run[n] # <<-1>>
  <2>1. PICK x, y : x = run[n] /\ y = <<0>> OBVIOUS
  <2>2. x \in Seq(Int) /\ y \in Seq(Int) /\ Len(y) = 1 /\ Len(x) \in Nat /\ Len(x) < NameBuf
    BY <2>1, <1>12, <1>14, LenProperties
  <2>3. encode_domain_name(labels) = x \o y BY <1>8, <1>14, <2>1
  <2>4. x \o y \in Seq(Int) /\ Len(x \o y) = Len(x) + Len(y) BY <2>2, ConcatProperties
  <2>5. QED BY <2>2, <2>3, <2>4, <1>1
<1>15. QED BY <1>13, <1>14
----------------------------------------------------------------------------
(* The walk over a name. What it does at one place says all about it.      *)

LEMMA SkipStep ==
  ASSUME body \in Seq(Nat), NEW p \in Nat
  PROVE  skip_dns_name(p) = IF p >= Len(body) THEN -1
                            ELSE IF body[p+1] = 0 THEN p + 1
                            ELSE IF body[p+1] >= 192 THEN p + 2
                            ELSE skip_dns_name(p + body[p+1] + 1)
<1> DEFINE N == Len(body)
           Go(f, q) == IF q >= N THEN -1
                       ELSE IF body[q+1] = 0 THEN q + 1
                       ELSE IF body[q+1] >= 192 THEN PastPointer(q)
                       ELSE f[q + body[q+1] + 1]
           IsWalk(f) == f = [q \in Nat |-> Go(f, q)]
           walk == CHOOSE f : IsWalk(f)
           Good(k) == \E f \in [Nat -> Int] : \A q \in Nat : q >= N - k => f[q] = Go(f, q)
           Bad == {k \in 0..N : ~Good(k)}
<1>1. N \in Nat BY LenProperties
<1>2. ASSUME NEW q \in Nat, q < N PROVE body[q+1] \in Nat
  <2>1. PICK i : i = q + 1 OBVIOUS
  <2>2. i \in 1..N BY <1>1, <1>2, <2>1
  <2>3. body[i] \in Nat BY <2>2, ElementOfSeq
  <2>4. QED BY <2>1, <2>3
<1>3. Good(0)
  <2> DEFINE f == [q \in Nat |-> -1]
  <2>1. f \in [Nat -> Int] OBVIOUS
  <2>2. \A q \in Nat : q >= N - 0 => f[q] = Go(f, q) BY <1>1
  <2> HIDE DEF f, Go
  <2>3. QED BY <2>1, <2>2
<1>4. Bad = {}
  <2>1. SUFFICES ASSUME Bad # {} PROVE FALSE OBVIOUS
  <2>2. PICK m \in Bad : \A k \in Bad : m <= k
    <3>1. Bad \subseteq Nat BY <1>1
    <3> HIDE DEF Bad
    <3>2. QED BY <2>1, <3>1, LeastElement
  <2>3. m # 0 BY <1>3
  <2>4. m \in 1..N /\ m - 1 \in 0..N /\ ~(m <= m - 1) BY <1>1, <2>3
  <2>5. Good(m-1)
    <3>1. m - 1 \notin Bad BY <2>2, <2>4
    <3>2. QED BY <3>1, <2>4
  <2>6. PICK f \in [Nat -> Int] : \A q \in Nat : q >= N - (m-1) => f[q] = Go(f, q)
    BY <2>5
  <2>7. PICK r : r = N - m OBVIOUS
  <2>8. r \in Nat /\ r < N /\ body[r+1] \in Nat
    <3>1. r \in Nat /\ r < N BY <1>1, <2>4, <2>7
    <3>2. QED BY <3>1, <1>2
  <2> DEFINE h == [f EXCEPT ![r] = Go(f, r)]
  <2>9. Go(f, r) \in Int
    <3>1. r + body[r+1] + 1 \in Nat
      <4>1. PICK c \in Nat : c = body[r+1] BY <2>8
      <4>2. r + c + 1 \in Nat BY <2>8
      <4>3. QED BY <4>1, <4>2
    <3>2. f[r + body[r+1] + 1] \in Int BY <3>1, <2>6
    <3>3. PastPointer(r) \in Int BY <2>8 DEF PastPointer
    <3>4. QED BY <2>8, <3>2, <3>3
  <2>10. h \in [Nat -> Int] BY <2>6, <2>9
  <2>11. ASSUME NEW q \in Nat, q >= r PROVE Go(h, q) = Go(f, q)
    <3>1. CASE q >= N BY <3>1
    <3>2. CASE ~(q >= N)
      <4>1. q < N BY <3>2, <1>1
      <4>2. body[q+1] \in Nat BY <4>1, <1>2
      <4>3. q + body[q+1] + 1 \in Nat /\ q + body[q+1] + 1 # r
        <5>1. PICK c \in Nat : c = body[q+1] BY <4>2
        <5>2. q + c + 1 \in Nat /\ q + c + 1 # r BY <2>8, <2>11
        <5>3. QED BY <5>1, <5>2
      <4>4. h[q + body[q+1] + 1] = f[q + body[q+1] + 1]
        <5>1. \A j \in Nat : j # r => h[j] = f[j] BY <2>6, <2>8
        <5> HIDE DEF h
        <5>2. QED BY <4>3, <5>1
      <4> HIDE DEF h
      <4>5. QED BY <4>4
    <3>3. QED BY <3>1, <3>2
  <2>12. ASSUME NEW q \in Nat, q >= N - m PROVE h[q] = Go(h, q)
    <3>1. CASE q = r
      <4>1. h[q] = Go(f, q) BY <3>1, <2>6, <2>8
      <4>2. q >= r BY <3>1
      <4> HIDE DEF h, Go
      <4>3. QED BY <4>1, <4>2, <2>11
    <3>2. CASE q # r
      <4>1. q >= r /\ q >= N - (m-1) BY <3>2, <2>12, <2>7, <2>8, <2>4, <1>1
      <4>2. h[q] = f[q] BY <3>2, <2>6
      <4>3. f[q] = Go(f, q) BY <4>1, <2>6
      <4> HIDE DEF h, Go
      <4>4. QED BY <4>1, <4>2, <4>3, <2>11
    <3>3. QED BY <3>1, <3>2
  <2>13. Good(m)
    <3> HIDE DEF h, Go
    <3>1. QED BY <2>10, <2>12
  <2>14. QED BY <2>2, <2>13
<1>5. Good(N)
  <2>1. N \in 0..N BY <1>1
  <2> HIDE DEF Good
  <2>2. QED BY <2>1, <1>4
<1>6. PICK f \in [Nat -> Int] : \A q \in Nat : q >= N - N => f[q] = Go(f, q)
  BY <1>5
<1>7. IsWalk(f)
  <2>1. \A q \in Nat : f[q] = Go(f, q)
    <3>1. \A q \in Nat : q >= N - N BY <1>1
    <3> HIDE DEF Go
    <3>2. QED BY <3>1, <1>6
  <2>2. f = [q \in Nat |-> f[q]] OBVIOUS
  <2> HIDE DEF Go
  <2>3. QED BY <2>1, <2>2
<1>8. IsWalk(walk) BY <1>7
<1>9. \A q : skip_dns_name(q) = walk[q]
  BY DEF skip_dns_name
<1> HIDE DEF walk
<1>10. walk[p] = Go(walk, p)
  <2> HIDE DEF Go
  <2>1. QED BY <1>8
<1>11. QED BY <1>9, <1>10 DEF PastPointer

(* A name is the labels one by one, and then its end.                      *)
LabelsOf(n) == [i \in DOMAIN n.labels |-> Label(n.labels[i])]
EndOf(n) == IF n.pointer THEN <<192, 12>> ELSE <<0>>

LEMMA NameForm ==
  ASSUME NEW n \in Names
  PROVE  /\ n.labels \in Seq(1..63)
         /\ LabelsOf(n) \in Seq(Seq(Nat)) /\ Len(LabelsOf(n)) = Len(n.labels)
         /\ FlattenSeq(LabelsOf(n)) \in Seq(Nat) /\ EndOf(n) \in Seq(Nat)
         /\ Name(n) = FlattenSeq(LabelsOf(n)) \o EndOf(n) /\ Name(n) \in Seq(Nat)
         /\ Len(Name(n)) = Len(FlattenSeq(LabelsOf(n))) + Len(EndOf(n))
         /\ \/ Len(EndOf(n)) = 1 /\ EndOf(n)[1] = 0
            \/ Len(EndOf(n)) = 2 /\ EndOf(n)[1] = 192
<1>1. PICK lab : lab = n.labels OBVIOUS
<1>2. lab \in Seq(1..63) /\ n.pointer \in BOOLEAN BY <1>1 DEF Names
<1>3. PICK l \in Nat : l = Len(lab) /\ DOMAIN lab = 1..l BY <1>2, LenProperties
<1>4. PICK D : D = Seq(Nat) OBVIOUS
<1>5. PICK ss : ss = LabelsOf(n) OBVIOUS
<1>6. ss \in Seq(D) /\ Len(ss) = l
  <2>1. ASSUME NEW i \in 1..l PROVE Label(lab[i]) \in D
    <3>1. lab[i] \in 1..63 BY <1>2, <1>3
    <3>2. lab[i] \in Nat BY <3>1
    <3>3. QED BY <3>2, <1>4, LabelForm
  <2>2. ss = [i \in 1..l |-> Label(lab[i])] BY <1>1, <1>3, <1>5 DEF LabelsOf
  <2>3. QED BY <2>1, <2>2
<1>7. ss \in Seq(Seq(Nat)) BY <1>4, <1>6
<1>8. PICK a, b : a = FlattenSeq(ss) /\ b = EndOf(n) OBVIOUS
<1>9. a \in Seq(Nat) BY <1>7, <1>8, FlattenType
<1>10. /\ b \in Seq(Nat)
       /\ \/ Len(b) = 1 /\ b[1] = 0
          \/ Len(b) = 2 /\ b[1] = 192
  BY <1>8 DEF EndOf
<1>11. a \o b \in Seq(Nat) /\ Len(a \o b) = Len(a) + Len(b) BY <1>9, <1>10, ConcatProperties
<1>12. Name(n) = a \o b BY <1>5, <1>8 DEF Name, LabelsOf, EndOf
<1>13. QED BY <1>1, <1>2, <1>3, <1>5, <1>6, <1>7, <1>8, <1>9, <1>10, <1>11, <1>12

(* What has come of the bytes s stands behind the first p bytes.           *)
Holds(p, s) == \A j \in 1..Len(s) : p + j <= Len(body) => body[p+j] = s[j]

(* The walk over a name ends behind it, or finds that it is not all there. *)
LEMMA SkipName ==
  ASSUME body \in Seq(Nat), NEW n \in Names, NEW p \in Nat, Holds(p, Name(n))
  PROVE  /\ skip_dns_name(p) = -1 \/ skip_dns_name(p) = p + Len(Name(n))
         /\ p + Len(Name(n)) <= Len(body) => skip_dns_name(p) = p + Len(Name(n))
<1>1. PICK ss, lab, nm, e : ss = LabelsOf(n) /\ lab = n.labels /\ nm = Name(n) /\ e = EndOf(n) OBVIOUS
<1>2. PICK f : f = FlattenSeq(ss) OBVIOUS
<1>3. /\ lab \in Seq(1..63) /\ ss \in Seq(Seq(Nat)) /\ Len(ss) = Len(lab)
      /\ f \in Seq(Nat) /\ e \in Seq(Nat) /\ nm = f \o e /\ nm \in Seq(Nat) /\ Len(nm) = Len(f) + Len(e)
      /\ \/ Len(e) = 1 /\ e[1] = 0
         \/ Len(e) = 2 /\ e[1] = 192
  BY <1>1, <1>2, NameForm
<1>4. PICK m \in Nat : m = Len(ss) /\ m = Len(lab) BY <1>3, LenProperties
<1>5. PICK N \in Nat : N = Len(body) BY LenProperties
<1>6. PICK fl, le \in Nat : fl = Len(f) /\ le = Len(e) BY <1>3, LenProperties
<1> DEFINE Off(i) == Len(Part(ss, i))
           End1 == p + fl + le
           Right(q) == /\ skip_dns_name(q) = -1 \/ skip_dns_name(q) = End1
                       /\ End1 <= N => skip_dns_name(q) = End1
           Bad == {i \in 0..m : ~Right(p + Off(m - i))}
<1>7. Off(0) = 0 /\ Off(m) = fl
  <2>1. Part(ss, 0) = <<>> /\ Part(ss, m) = f BY <1>2, <1>3, <1>4, PartEnds
  <2>2. QED BY <2>1, <1>6, EmptySeq
<1>8. ASSUME NEW j \in 1..fl + le, p + j <= N
      PROVE  body[p+j] = IF j <= fl THEN f[j] ELSE e[j - fl]
  <2>1. j \in 1..Len(nm) BY <1>3, <1>6
  <2>2. body[p+j] = nm[j] BY <2>1, <1>1, <1>5, <1>8 DEF Holds
  <2>3. j \in 1..Len(f) + Len(e) BY <1>6
  <2>4. nm[j] = IF j <= Len(f) THEN f[j] ELSE e[j - Len(f)] BY <2>3, <1>3, ConcatProperties
  <2>5. QED BY <2>2, <2>4, <1>6
<1>9. ASSUME NEW q \in Nat, q >= N PROVE skip_dns_name(q) = -1
  BY <1>5, <1>9, SkipStep
<1>10. Right(p + fl)
  <2>1. PICK q \in Nat : q = p + fl OBVIOUS
  <2>2. le = 1 \/ le = 2 BY <1>3, <1>6
  <2>3. CASE q >= N BY <2>1, <2>2, <2>3, <1>9
  <2>4. CASE q < N
    <3>1. PICK j : j = fl + 1 OBVIOUS
    <3>2. j \in 1..fl + le /\ p + j = q + 1 /\ p + j <= N /\ ~(j <= fl) /\ j - fl = 1
      BY <3>1, <2>1, <2>2, <2>4
    <3>3. body[q+1] = e[1] BY <3>2, <1>8
    <3>4. skip_dns_name(q) = IF body[q+1] = 0 THEN q + 1
                             ELSE IF body[q+1] >= 192 THEN q + 2
                             ELSE skip_dns_name(q + body[q+1] + 1)
      BY <2>4, <1>5, SkipStep
    <3>5. (le = 1 /\ e[1] = 0) \/ (le = 2 /\ e[1] = 192) BY <1>3, <1>6
    <3>6. skip_dns_name(q) = q + le BY <3>3, <3>4, <3>5
    <3>7. QED BY <3>6, <2>1
  <2>5. QED BY <2>3, <2>4
<1>11. ASSUME NEW i \in 1..m, Right(p + Off(i)) PROVE Right(p + Off(i - 1))
  <2>1. i - 1 \in 0..m /\ i \in 1..Len(ss) /\ ss \in Seq(Seq(Nat)) BY <1>3, <1>4
  <2>2. PICK x : x = lab[i] OBVIOUS
  <2>3. x \in 1..63 /\ ss[i] = Label(x)
    <3>1. i \in DOMAIN lab BY <1>3, <1>4, LenProperties
    <3>2. ss[i] = Label(x) BY <3>1, <2>2, <1>1 DEF LabelsOf
    <3>3. x \in 1..63 BY <2>2, <1>3, <1>4
    <3>4. QED BY <3>2, <3>3
  <2>4. PICK s : s = ss[i] OBVIOUS
  <2>5. Len(s) = x + 1 /\ s[1] = x /\ x \in Nat
    <3>1. x \in Nat /\ s = Label(x) BY <2>3, <2>4
    <3>2. QED BY <3>1, LabelForm
  <2>6. PICK o \in Nat : o = Off(i - 1)
    <3>1. Part(ss, i - 1) \in Seq(Nat) BY <2>1, <1>3, PieceAt
    <3>2. QED BY <3>1, LenProperties
  <2>7. Off(i) = o + x + 1
    <3>1. Len(Part(ss, i)) = Len(Part(ss, i - 1)) + Len(ss[i]) BY <2>1, PartStep
    <3>2. QED BY <3>1, <2>4, <2>5, <2>6
  <2>8. o + x + 1 <= fl /\ f[o + 1] = x
    <3>1. /\ Len(Part(ss, i - 1)) + Len(ss[i]) <= Len(FlattenSeq(ss))
          /\ \A j \in 1..Len(ss[i]) : FlattenSeq(ss)[Len(Part(ss, i - 1)) + j] = ss[i][j]
      BY <2>1, PieceAt
    <3>2. o + (x + 1) <= fl /\ \A j \in 1..x+1 : f[o + j] = s[j]
      BY <3>1, <2>4, <2>5, <2>6, <1>2, <1>6
    <3>3. 1 \in 1..x+1 BY <2>5
    <3>4. QED BY <3>2, <3>3, <2>5
  <2>9. PICK q \in Nat : q = p + o OBVIOUS
  <2>10. Right(q)
    <3>1. CASE q >= N
      <4>1. End1 > N BY <3>1, <2>5, <2>8, <2>9
      <4>2. QED BY <4>1, <3>1, <1>9
    <3>2. CASE q < N
      <4>1. PICK j : j = o + 1 OBVIOUS
      <4>2. j \in 1..fl + le /\ p + j = q + 1 /\ p + j <= N /\ j <= fl BY <4>1, <3>2, <2>5, <2>8, <2>9
      <4>3. body[q+1] = x BY <4>1, <4>2, <1>8, <2>8
      <4>4. skip_dns_name(q) = skip_dns_name(q + x + 1)
        <5>1. skip_dns_name(q) = IF body[q+1] = 0 THEN q + 1
                                 ELSE IF body[q+1] >= 192 THEN q + 2
                                 ELSE skip_dns_name(q + body[q+1] + 1)
          BY <3>2, <1>5, SkipStep
        <5>2. body[q+1] # 0 /\ ~(body[q+1] >= 192) BY <4>3, <2>3
        <5>3. QED BY <4>3, <5>1, <5>2
      <4>5. q + x + 1 = p + Off(i) BY <2>5, <2>7, <2>9
      <4>6. skip_dns_name(q) = skip_dns_name(p + Off(i)) BY <4>4, <4>5
      <4>7. QED BY <4>6, <1>11
    <3>3. QED BY <3>1, <3>2
  <2>11. QED BY <2>6, <2>9, <2>10
<1> HIDE DEF Right, Off
<1>12. Bad = {}
  <2>1. SUFFICES ASSUME Bad # {} PROVE FALSE OBVIOUS
  <2>2. PICK k \in Bad : \A i \in Bad : k <= i
    <3>1. Bad \subseteq Nat BY <1>4
    <3> HIDE DEF Bad
    <3>2. QED BY <2>1, <3>1, LeastElement
  <2>3. k # 0 BY <1>7, <1>10
  <2>4. k - 1 \in 0..m /\ ~(k <= k - 1) /\ m - (k - 1) \in 1..m /\ m - (k - 1) - 1 = m - k BY <2>3
  <2>5. Right(p + Off(m - (k - 1)))
    <3>1. k - 1 \notin Bad BY <2>2, <2>4
    <3>2. QED BY <3>1, <2>4
  <2>6. PICK i : i = m - (k - 1) OBVIOUS
  <2>7. i \in 1..m /\ i - 1 = m - k /\ Right(p + Off(i)) BY <2>4, <2>5, <2>6
  <2>8. Right(p + Off(i - 1)) BY <2>7, <1>11
  <2>9. Right(p + Off(m - k)) BY <2>7, <2>8
  <2>10. QED BY <2>2, <2>9
<1>13. Right(p)
  <2>1. m \in 0..m /\ m - m = 0 /\ p + 0 = p OBVIOUS
  <2>2. Right(p + Off(m - m)) BY <2>1, <1>12
  <2>3. QED BY <2>1, <2>2, <1>7
<1>14. End1 = p + Len(Name(n)) BY <1>1, <1>3, <1>6
<1>15. QED BY <1>5, <1>13, <1>14 DEF Right
----------------------------------------------------------------------------
(* The pieces of a message.                                                *)
MessageForms == [ours : BOOLEAN, rcode : 0..15, questions : Seq(Names), answers : Seq(RecordForms)]
Question(n) == Name(n) \o Two(1) \o Two(1)
QuestionsOf(m) == [i \in DOMAIN m.questions |-> Question(m.questions[i])]
RecordsOf(m) == [i \in DOMAIN m.answers |-> Record(m.answers[i])]
Shown(answers) == [i \in DOMAIN answers |-> IF IsAddress(answers[i]) THEN <<answers[i].data>> ELSE <<>>]

(* Where the walk is when k questions, or all of them and k answers, are   *)
(* behind it.                                                              *)
AfterQuestion(m, k) == Len(Part(QuestionsOf(m), k))
AfterAnswer(m, k) == Len(FlattenSeq(QuestionsOf(m))) + Len(Part(RecordsOf(m), k))

LEMMA TwoForm ==
  ASSUME NEW n \in Nat
  PROVE  /\ Two(n) \in Seq(Nat) /\ Len(Two(n)) = 2
         /\ Two(n)[1] \in Nat /\ Two(n)[2] \in Nat /\ Two(n)[1] * 256 + Two(n)[2] = n
<1>1. PICK a, b \in Nat : a = n \div 256 /\ b = n % 256 /\ a * 256 + b = n OBVIOUS
<1>2. Two(n) = <<a, b>> BY <1>1 DEF Two
<1>3. QED BY <1>1, <1>2

(* What two sequences joined have at each place.                           *)
Joined(u, s, t, m, n) ==
  /\ u \in Seq(Nat) /\ Len(u) = m + n
  /\ \A j \in 1..m : u[j] = s[j]
  /\ \A j \in 1..n : u[m + j] = t[j]
LEMMA JoinAt ==
  ASSUME NEW s \in Seq(Nat), NEW t \in Seq(Nat)
  PROVE  Joined(s \o t, s, t, Len(s), Len(t))
<1>1. PICK u : u = s \o t OBVIOUS
<1>2. PICK m, n \in Nat : m = Len(s) /\ n = Len(t) BY LenProperties
<1>3. /\ u \in Seq(Nat) /\ Len(u) = m + n
      /\ \A i \in 1..m+n : u[i] = IF i <= m THEN s[i] ELSE t[i - m]
  BY <1>1, <1>2, ConcatProperties
<1>4. ASSUME NEW j \in 1..n PROVE u[m + j] = t[j]
  <2>1. PICK i : i = m + j OBVIOUS
  <2>2. i \in 1..m+n /\ ~(i <= m) /\ i - m = j BY <2>1
  <2>3. QED BY <2>1, <2>2, <1>3
<1>5. \A j \in 1..m : u[j] = s[j] BY <1>3
<1>6. Joined(u, s, t, m, n) BY <1>3, <1>4, <1>5 DEF Joined
<1>7. QED BY <1>1, <1>2, <1>6

LEMMA QuestionForm ==
  ASSUME NEW n \in Names
  PROVE  /\ Question(n) \in Seq(Nat) /\ Len(Question(n)) = Len(Name(n)) + 4
         /\ \A j \in 1..Len(Name(n)) : Question(n)[j] = Name(n)[j]
<1>1. PICK a, b : a = Name(n) /\ b = Two(1) OBVIOUS
<1>2. a \in Seq(Nat) /\ b \in Seq(Nat) /\ Len(b) = 2 BY <1>1, NameForm, TwoForm
<1>3. PICK m \in Nat : m = Len(a) BY <1>2, LenProperties
<1>4. PICK c : c = a \o b OBVIOUS
<1>5. Joined(c, a, b, m, 2) BY <1>2, <1>3, <1>4, JoinAt
<1>6. c \in Seq(Nat) /\ Len(c) = m + 2 /\ \A j \in 1..m : c[j] = a[j] BY <1>5 DEF Joined
<1>7. PICK l \in Nat : l = m + 2 OBVIOUS
<1>8. PICK d : d = c \o b OBVIOUS
<1>9. Joined(d, c, b, l, 2) BY <1>2, <1>6, <1>7, <1>8, JoinAt
<1>10. d \in Seq(Nat) /\ Len(d) = m + 4 /\ \A j \in 1..m : d[j] = a[j] BY <1>6, <1>7, <1>9 DEF Joined
<1>11. Question(n) = d BY <1>1, <1>4, <1>8 DEF Question
<1>12. QED BY <1>1, <1>3, <1>10, <1>11

(* Where the fields of a record stand, o being the length of its name.     *)
(* The bytes s of a record r whose name takes o of them.                   *)
IsRecord(s, r, o) ==
  /\ r.name \in Names /\ r.type \in Nat /\ r.class \in Nat /\ r.data \in Seq(Nat)
  /\ s \in Seq(Nat) /\ Len(s) = o + 10 + Len(r.data)
  /\ \A j \in 1..o : s[j] = Name(r.name)[j]
  /\ s[o + 1] * 256 + s[o + 2] = r.type
  /\ s[o + 3] * 256 + s[o + 4] = r.class
  /\ s[o + 9] * 256 + s[o + 10] = Len(r.data)
  /\ \A j \in 1..Len(r.data) : s[o + 10 + j] = r.data[j]

LEMMA RecordForm ==
  ASSUME NEW r \in RecordForms, NEW o \in Nat, o = Len(Name(r.name))
  PROVE  IsRecord(Record(r), r, o)
<1>1. r.name \in Names /\ r.type \in Nat /\ r.class \in Nat /\ r.data \in Seq(Nat)
  <2>1. r.name \in Names /\ r.type \in Word /\ r.class \in Word /\ r.data \in Seq(Byte)
    BY DEF RecordForms
  <2>2. Word \subseteq Nat /\ Byte \subseteq Nat BY DEF Word, Byte
  <2>3. r.data \in Seq(Nat) BY <2>1, <2>2, SeqMonotonic
  <2>4. QED BY <2>1, <2>2, <2>3
<1>2. PICK a, b, c, t, l, d : /\ a = Name(r.name) /\ b = Two(r.type) /\ c = Two(r.class)
                              /\ t = Ttl /\ l = Two(Len(r.data)) /\ d = r.data
  OBVIOUS
<1>3. PICK n \in Nat : n = Len(d) BY <1>1, <1>2, LenProperties
<1>4. a \in Seq(Nat) /\ Len(a) = o BY <1>1, <1>2, NameForm
<1>5. b \in Seq(Nat) /\ Len(b) = 2 /\ b[1] * 256 + b[2] = r.type BY <1>1, <1>2, TwoForm
<1>6. c \in Seq(Nat) /\ Len(c) = 2 /\ c[1] * 256 + c[2] = r.class BY <1>1, <1>2, TwoForm
<1>7. t \in Seq(Nat) /\ Len(t) = 4 BY <1>2 DEF Ttl
<1>8. l \in Seq(Nat) /\ Len(l) = 2 /\ l[1] * 256 + l[2] = n BY <1>2, <1>3, TwoForm
<1>9. d \in Seq(Nat) BY <1>1, <1>2
<1>10. PICK s1 : s1 = a \o b OBVIOUS
<1>11. PICK s2 : s2 = s1 \o c OBVIOUS
<1>12. PICK s3 : s3 = s2 \o t OBVIOUS
<1>13. PICK s4 : s4 = s3 \o l OBVIOUS
<1>14. PICK s5 : s5 = s4 \o d OBVIOUS
<1>15. PICK o2, o4, o8, o10 \in Nat : o2 = o + 2 /\ o4 = o2 + 2 /\ o8 = o4 + 4 /\ o10 = o8 + 2 OBVIOUS
<1>16. Joined(s1, a, b, o, 2) /\ s1 \in Seq(Nat) /\ Len(s1) = o2
  <2>1. Joined(s1, a, b, o, 2) BY <1>4, <1>5, <1>10, JoinAt
  <2>2. QED BY <2>1, <1>15 DEF Joined
<1>17. Joined(s2, s1, c, o2, 2) /\ s2 \in Seq(Nat) /\ Len(s2) = o4
  <2>1. Joined(s2, s1, c, o2, 2) BY <1>16, <1>6, <1>11, JoinAt
  <2>2. QED BY <2>1, <1>15 DEF Joined
<1>18. Joined(s3, s2, t, o4, 4) /\ s3 \in Seq(Nat) /\ Len(s3) = o8
  <2>1. Joined(s3, s2, t, o4, 4) BY <1>17, <1>7, <1>12, JoinAt
  <2>2. QED BY <2>1, <1>15 DEF Joined
<1>19. Joined(s4, s3, l, o8, 2) /\ s4 \in Seq(Nat) /\ Len(s4) = o10
  <2>1. Joined(s4, s3, l, o8, 2) BY <1>18, <1>8, <1>13, JoinAt
  <2>2. QED BY <2>1, <1>15 DEF Joined
<1>20. Joined(s5, s4, d, o10, n) /\ s5 \in Seq(Nat) /\ Len(s5) = o10 + n
  <2>1. Joined(s5, s4, d, o10, n) BY <1>19, <1>9, <1>3, <1>14, JoinAt
  <2>2. QED BY <2>1 DEF Joined
<1>21. \A j \in 1..o10 : s5[j] = s4[j] BY <1>20 DEF Joined
<1>22. \A j \in 1..o4 : s5[j] = s2[j]
  <2>1. ASSUME NEW j \in 1..o4 PROVE s5[j] = s2[j]
    <3>1. j \in 1..o8 /\ j \in 1..o10 BY <1>15
    <3>2. s4[j] = s3[j] /\ s3[j] = s2[j] BY <3>1, <1>18, <1>19 DEF Joined
    <3>3. QED BY <3>1, <3>2, <1>21
  <2>2. QED BY <2>1
<1>23. \A j \in 1..o2 : s5[j] = s1[j]
  <2>1. ASSUME NEW j \in 1..o2 PROVE s5[j] = s1[j]
    <3>1. j \in 1..o4 BY <1>15
    <3>2. s2[j] = s1[j] BY <1>17 DEF Joined
    <3>3. QED BY <3>1, <3>2, <1>22
  <2>2. QED BY <2>1
<1>24. \A j \in 1..o : s5[j] = a[j]
  <2>1. ASSUME NEW j \in 1..o PROVE s5[j] = a[j]
    <3>1. j \in 1..o2 BY <1>15
    <3>2. s1[j] = a[j] BY <1>16 DEF Joined
    <3>3. QED BY <3>1, <3>2, <1>23
  <2>2. QED BY <2>1
<1>25. s5[o+1] = b[1] /\ s5[o+2] = b[2]
  <2>1. s1[o+1] = b[1] /\ s1[o+2] = b[2] BY <1>16 DEF Joined
  <2>2. o+1 \in 1..o2 /\ o+2 \in 1..o2 BY <1>15
  <2>3. QED BY <2>1, <2>2, <1>23
<1>26. s5[o+3] = c[1] /\ s5[o+4] = c[2]
  <2>1. s2[o2+1] = c[1] /\ s2[o2+2] = c[2] BY <1>17 DEF Joined
  <2>2. o2+1 \in 1..o4 /\ o2+2 \in 1..o4 /\ o2+1 = o+3 /\ o2+2 = o+4 BY <1>15
  <2>3. QED BY <2>1, <2>2, <1>22
<1>27. s5[o+9] = l[1] /\ s5[o+10] = l[2]
  <2>1. s4[o8+1] = l[1] /\ s4[o8+2] = l[2] BY <1>19 DEF Joined
  <2>2. o8+1 \in 1..o10 /\ o8+2 \in 1..o10 /\ o8+1 = o+9 /\ o8+2 = o+10 BY <1>15
  <2>3. QED BY <2>1, <2>2, <1>21
<1>28. o10 = o + 10 BY <1>15
<1>29. \A j \in 1..n : s5[o + 10 + j] = d[j] BY <1>20, <1>28 DEF Joined
<1>30. Record(r) = s5 BY <1>2, <1>10, <1>11, <1>12, <1>13, <1>14 DEF Record
<1>31. /\ s5[o+1] * 256 + s5[o+2] = r.type /\ s5[o+3] * 256 + s5[o+4] = r.class
       /\ s5[o+9] * 256 + s5[o+10] = n
  BY <1>5, <1>6, <1>8, <1>25, <1>26, <1>27
<1>32. Len(s5) = o + 10 + n BY <1>20, <1>28
<1>33. r.name \in Names /\ r.type \in Nat /\ r.class \in Nat /\ r.data \in Seq(Nat) /\ s5 \in Seq(Nat)
  BY <1>1, <1>20
<1>34. Len(s5) = o + 10 + Len(r.data) /\ \A j \in 1..o : s5[j] = Name(r.name)[j]
  BY <1>2, <1>3, <1>24, <1>32
<1>35. \A j \in 1..Len(r.data) : s5[o + 10 + j] = r.data[j] BY <1>2, <1>3, <1>29
<1>36. s5[o + 9] * 256 + s5[o + 10] = Len(r.data) BY <1>2, <1>3, <1>31
<1>37. IsRecord(s5, r, o) BY <1>31, <1>33, <1>34, <1>35, <1>36 DEF IsRecord
<1>38. QED BY <1>30, <1>37

LEMMA MessagePieces ==
  ASSUME NEW m \in MessageForms
  PROVE  /\ m.questions \in Seq(Names) /\ m.answers \in Seq(RecordForms)
         /\ QuestionsOf(m) \in Seq(Seq(Nat)) /\ Len(QuestionsOf(m)) = Len(m.questions)
         /\ RecordsOf(m) \in Seq(Seq(Nat)) /\ Len(RecordsOf(m)) = Len(m.answers)
         /\ \A k \in 1..Len(m.questions) :
              m.questions[k] \in Names /\ QuestionsOf(m)[k] = Question(m.questions[k])
         /\ \A k \in 1..Len(m.answers) :
              m.answers[k] \in RecordForms /\ RecordsOf(m)[k] = Record(m.answers[k])
         /\ FlattenSeq(QuestionsOf(m)) \in Seq(Nat) /\ FlattenSeq(RecordsOf(m)) \in Seq(Nat)
         /\ Body(m) = FlattenSeq(QuestionsOf(m)) \o FlattenSeq(RecordsOf(m))
<1>1. PICK qs, an : qs = m.questions /\ an = m.answers OBVIOUS
<1>2. qs \in Seq(Names) /\ an \in Seq(RecordForms) BY <1>1 DEF MessageForms
<1>3. PICK ql \in Nat : ql = Len(qs) /\ DOMAIN qs = 1..ql BY <1>2, LenProperties
<1>4. PICK al \in Nat : al = Len(an) /\ DOMAIN an = 1..al BY <1>2, LenProperties
<1>5. PICK D : D = Seq(Nat) OBVIOUS
<1>6. PICK Q, R : Q = QuestionsOf(m) /\ R = RecordsOf(m) OBVIOUS
<1>7. Q \in Seq(D) /\ Len(Q) = ql /\ \A k \in 1..ql : qs[k] \in Names /\ Q[k] = Question(qs[k])
  <2>1. ASSUME NEW k \in 1..ql PROVE qs[k] \in Names /\ Question(qs[k]) \in D
    <3>1. qs[k] \in Names BY <1>2, <1>3
    <3>2. QED BY <3>1, <1>5, QuestionForm
  <2>2. Q = [k \in 1..ql |-> Question(qs[k])] BY <1>1, <1>3, <1>6 DEF QuestionsOf
  <2>3. QED BY <2>1, <2>2
<1>8. R \in Seq(D) /\ Len(R) = al /\ \A k \in 1..al : an[k] \in RecordForms /\ R[k] = Record(an[k])
  <2>1. ASSUME NEW k \in 1..al PROVE an[k] \in RecordForms /\ Record(an[k]) \in D
    <3>1. an[k] \in RecordForms BY <1>2, <1>4, ElementOfSeq
    <3>2. PICK r : r = an[k] OBVIOUS
    <3>3. r \in RecordForms BY <3>1, <3>2
    <3>4. r.name \in Names BY <3>3 DEF RecordForms
    <3>5. PICK o : o = Len(Name(r.name)) OBVIOUS
    <3>6. o \in Nat BY <3>4, <3>5, NameForm, LenProperties
    <3>7. Record(r) \in Seq(Nat) BY <3>3, <3>5, <3>6, RecordForm DEF IsRecord
    <3>8. QED BY <3>1, <3>2, <3>7, <1>5
  <2>2. R = [k \in 1..al |-> Record(an[k])] BY <1>1, <1>4, <1>6 DEF RecordsOf
  <2>3. \A k \in 1..al : R[k] = Record(an[k]) BY <2>2
  <2>4. R \in Seq(D) /\ Len(R) = al BY <2>1, <2>2
  <2>5. QED BY <2>1, <2>3, <2>4
<1>9. Q \in Seq(Seq(Nat)) /\ R \in Seq(Seq(Nat)) BY <1>5, <1>7, <1>8
<1>10. FlattenSeq(Q) \in Seq(Nat) /\ FlattenSeq(R) \in Seq(Nat) BY <1>9, FlattenType
<1>11. Body(m) = FlattenSeq(Q) \o FlattenSeq(R)
  BY <1>6 DEF Body, QuestionsOf, RecordsOf, Question
<1>12. QED BY <1>1, <1>2, <1>3, <1>4, <1>6, <1>7, <1>8, <1>9, <1>10, <1>11

LEMMA MessageEnds ==
  ASSUME NEW m \in MessageForms
  PROVE  /\ Body(m) \in Seq(Nat) /\ Len(m.questions) \in Nat /\ Len(m.answers) \in Nat
         /\ AfterQuestion(m, 0) = 0 /\ AfterQuestion(m, Len(m.questions)) = AfterAnswer(m, 0)
         /\ AfterAnswer(m, Len(m.answers)) = Len(Body(m))
<1>1. PICK Q, R, q, r : /\ Q = QuestionsOf(m) /\ R = RecordsOf(m)
                        /\ q = FlattenSeq(Q) /\ r = FlattenSeq(R)
  OBVIOUS
<1>2. /\ Q \in Seq(Seq(Nat)) /\ Len(Q) = Len(m.questions) /\ R \in Seq(Seq(Nat)) /\ Len(R) = Len(m.answers)
      /\ q \in Seq(Nat) /\ r \in Seq(Nat) /\ Body(m) = q \o r
      /\ m.questions \in Seq(Names) /\ m.answers \in Seq(RecordForms)
  BY <1>1, MessagePieces
<1>3. Part(Q, 0) = <<>> /\ Part(Q, Len(Q)) = q /\ Part(R, 0) = <<>> /\ Part(R, Len(R)) = r
  BY <1>1, <1>2, PartEnds
<1>4. PICK u : u = q \o r OBVIOUS
<1>5. Joined(u, q, r, Len(q), Len(r)) BY <1>2, <1>4, JoinAt
<1>6. Body(m) \in Seq(Nat) /\ Len(Body(m)) = Len(q) + Len(r) BY <1>2, <1>4, <1>5 DEF Joined
<1>7. Len(q) \in Nat /\ Len(m.questions) \in Nat /\ Len(m.answers) \in Nat BY <1>2, LenProperties
<1>8. AfterQuestion(m, 0) = 0 BY <1>1, <1>3, EmptySeq DEF AfterQuestion
<1>9. AfterQuestion(m, Len(m.questions)) = Len(q) BY <1>1, <1>2, <1>3 DEF AfterQuestion
<1>10. AfterAnswer(m, 0) = Len(q)
  <2>1. AfterAnswer(m, 0) = Len(q) + Len(<<>>) BY <1>1, <1>3 DEF AfterAnswer
  <2>2. QED BY <2>1, <1>7
<1>11. AfterAnswer(m, Len(m.answers)) = Len(q) + Len(r) BY <1>1, <1>2, <1>3 DEF AfterAnswer
<1>12. QED BY <1>6, <1>7, <1>8, <1>9, <1>10, <1>11

(* Where a question stands in the message, and where an answer does.       *)
LEMMA QuestionAt ==
  ASSUME NEW m \in MessageForms, NEW k \in 1..Len(m.questions)
  PROVE  /\ m.questions[k] \in Names /\ AfterQuestion(m, k - 1) \in Nat
         /\ AfterQuestion(m, k) = AfterQuestion(m, k - 1) + Len(Question(m.questions[k]))
         /\ AfterQuestion(m, k) <= Len(Body(m))
         /\ \A j \in 1..Len(Question(m.questions[k])) :
              Body(m)[AfterQuestion(m, k - 1) + j] = Question(m.questions[k])[j]
<1>1. PICK Q, q, r : Q = QuestionsOf(m) /\ q = FlattenSeq(Q) /\ r = FlattenSeq(RecordsOf(m)) OBVIOUS
<1>2. PICK s : s = Question(m.questions[k]) OBVIOUS
<1>3. /\ Q \in Seq(Seq(Nat)) /\ k \in 1..Len(Q) /\ Q[k] = s /\ m.questions[k] \in Names
      /\ q \in Seq(Nat) /\ r \in Seq(Nat) /\ Body(m) = q \o r
  BY <1>1, <1>2, MessagePieces
<1>4. PICK o : o = AfterQuestion(m, k - 1) OBVIOUS
<1>5. /\ s \in Seq(Nat) /\ Part(Q, k - 1) \in Seq(Nat)
      /\ Len(Part(Q, k - 1)) + Len(s) <= Len(q)
      /\ \A j \in 1..Len(s) : q[Len(Part(Q, k - 1)) + j] = s[j]
  <2>1. Q \in Seq(Seq(Nat)) /\ k \in 1..Len(Q) BY <1>3
  <2>2. /\ Q[k] \in Seq(Nat) /\ Part(Q, k - 1) \in Seq(Nat)
        /\ Len(Part(Q, k - 1)) + Len(Q[k]) <= Len(FlattenSeq(Q))
        /\ \A j \in 1..Len(Q[k]) : FlattenSeq(Q)[Len(Part(Q, k - 1)) + j] = Q[k][j]
    BY <2>1, PieceAt
  <2>3. Q[k] = s /\ FlattenSeq(Q) = q BY <1>1, <1>3
  <2>4. QED BY <2>2, <2>3
<1>6. Len(Part(Q, k)) = Len(Part(Q, k - 1)) + Len(s) BY <1>3, PartStep
<1>7. PICK l, n, rl \in Nat : l = Len(s) /\ n = Len(q) /\ rl = Len(r) BY <1>3, <1>5, LenProperties
<1>8. o \in Nat /\ o = Len(Part(Q, k - 1)) BY <1>1, <1>4, <1>5, LenProperties DEF AfterQuestion
<1>9. o + l <= n /\ \A j \in 1..l : q[o + j] = s[j] BY <1>5, <1>7, <1>8
<1>10. PICK u : u = q \o r OBVIOUS
<1>11. Joined(u, q, r, n, rl) BY <1>3, <1>7, <1>10, JoinAt
<1>12. Len(u) = n + rl /\ \A j \in 1..n : u[j] = q[j] BY <1>11 DEF Joined
<1>13. ASSUME NEW j \in 1..l PROVE u[o + j] = s[j]
  <2>1. o + j \in 1..n BY <1>8, <1>9
  <2>2. QED BY <2>1, <1>9, <1>12
<1>14. AfterQuestion(m, k) = o + l BY <1>1, <1>6, <1>7, <1>8 DEF AfterQuestion
<1>15. o + l <= Len(u) BY <1>9, <1>12, <1>8
<1>16. Body(m) = u BY <1>3, <1>10
<1>17. QED BY <1>2, <1>3, <1>4, <1>7, <1>8, <1>13, <1>14, <1>15, <1>16

LEMMA AnswerAt ==
  ASSUME NEW m \in MessageForms, NEW k \in 1..Len(m.answers)
  PROVE  /\ m.answers[k] \in RecordForms /\ AfterAnswer(m, k - 1) \in Nat
         /\ AfterAnswer(m, k) = AfterAnswer(m, k - 1) + Len(Record(m.answers[k]))
         /\ AfterAnswer(m, k) <= Len(Body(m))
         /\ \A j \in 1..Len(Record(m.answers[k])) :
              Body(m)[AfterAnswer(m, k - 1) + j] = Record(m.answers[k])[j]
<1>1. PICK R, q, r : R = RecordsOf(m) /\ q = FlattenSeq(QuestionsOf(m)) /\ r = FlattenSeq(R) OBVIOUS
<1>2. PICK s : s = Record(m.answers[k]) OBVIOUS
<1>3. /\ R \in Seq(Seq(Nat)) /\ k \in 1..Len(R) /\ R[k] = s /\ m.answers[k] \in RecordForms
      /\ q \in Seq(Nat) /\ r \in Seq(Nat) /\ Body(m) = q \o r
  BY <1>1, <1>2, MessagePieces
<1>4. PICK o : o = Len(Part(R, k - 1)) OBVIOUS
<1>5. /\ s \in Seq(Nat) /\ Part(R, k - 1) \in Seq(Nat)
      /\ Len(Part(R, k - 1)) + Len(s) <= Len(r)
      /\ \A j \in 1..Len(s) : r[Len(Part(R, k - 1)) + j] = s[j]
  <2>1. R \in Seq(Seq(Nat)) /\ k \in 1..Len(R) BY <1>3
  <2>2. /\ R[k] \in Seq(Nat) /\ Part(R, k - 1) \in Seq(Nat)
        /\ Len(Part(R, k - 1)) + Len(R[k]) <= Len(FlattenSeq(R))
        /\ \A j \in 1..Len(R[k]) : FlattenSeq(R)[Len(Part(R, k - 1)) + j] = R[k][j]
    BY <2>1, PieceAt
  <2>3. R[k] = s /\ FlattenSeq(R) = r BY <1>1, <1>3
  <2>4. QED BY <2>2, <2>3
<1>6. Len(Part(R, k)) = Len(Part(R, k - 1)) + Len(s) BY <1>3, PartStep
<1>7. PICK l, n, rl \in Nat : l = Len(s) /\ n = Len(q) /\ rl = Len(r) BY <1>3, <1>5, LenProperties
<1>8. o \in Nat BY <1>4, <1>5, LenProperties
<1>9. o + l <= rl /\ \A j \in 1..l : r[o + j] = s[j] BY <1>4, <1>5, <1>7, <1>8
<1>10. PICK u : u = q \o r OBVIOUS
<1>11. Joined(u, q, r, n, rl) BY <1>3, <1>7, <1>10, JoinAt
<1>12. Len(u) = n + rl /\ \A j \in 1..rl : u[n + j] = r[j] BY <1>11 DEF Joined
<1>13. ASSUME NEW j \in 1..l PROVE u[n + o + j] = s[j]
  <2>1. PICK i : i = o + j OBVIOUS
  <2>2. i \in 1..rl /\ n + o + j = n + i BY <2>1, <1>8, <1>9
  <2>3. u[n + i] = s[j] BY <2>1, <2>2, <1>9, <1>12
  <2>4. QED BY <2>2, <2>3
<1>14. AfterAnswer(m, k - 1) = n + o BY <1>1, <1>4, <1>7 DEF AfterAnswer
<1>15. AfterAnswer(m, k) = n + o + l
  <2>1. AfterAnswer(m, k) = n + (o + l) BY <1>1, <1>4, <1>6, <1>7 DEF AfterAnswer
  <2>2. QED BY <2>1, <1>8
<1>16. n + o \in Nat /\ n + o + l <= Len(u) BY <1>8, <1>9, <1>12
<1>17. Body(m) = u BY <1>3, <1>10
<1>18. QED BY <1>2, <1>3, <1>7, <1>13, <1>14, <1>15, <1>16, <1>17

(* The answers that are whole are the first ones.                          *)
LEMMA FirstAnswersLength ==
  ASSUME NEW m \in MessageForms, NEW k \in 0..Len(m.answers)
  PROVE  Len(Body(FirstAnswers(m, k))) = AfterAnswer(m, k) /\ AfterAnswer(m, k) \in Nat
<1>1. PICK f : f = FirstAnswers(m, k) OBVIOUS
<1>2. PICK an, fa : an = m.answers /\ fa = SubSeq(an, 1, k) OBVIOUS
<1>3. an \in Seq(RecordForms) /\ Len(an) \in Nat BY <1>2, MessagePieces, LenProperties
<1>4. \A i \in 1..k : an[i] \in RecordForms /\ i \in 1..Len(an) BY <1>2, <1>3, ElementOfSeq
<1>5. k \in Nat /\ k <= Len(an) BY <1>2, <1>3
<1>6. fa \in Seq(RecordForms) /\ Len(fa) = k /\ \A i \in 1..k : fa[i] = an[i]
  <2>1. /\ fa \in Seq(RecordForms) /\ Len(fa) = (IF 1 <= k THEN k - 1 + 1 ELSE 0)
        /\ \A i \in 1..k - 1 + 1 : fa[i] = an[1 + i - 1]
    BY <1>2, <1>4, <1>5, SubSeqProperties
  <2>2. QED BY <2>1, <1>5
<1>7. f \in MessageForms /\ f.answers = fa /\ f.questions = m.questions
  BY <1>1, <1>2, <1>6 DEF FirstAnswers, MessageForms
<1>8. QuestionsOf(f) = QuestionsOf(m) BY <1>7 DEF QuestionsOf
<1>9. RecordsOf(f) = SubSeq(RecordsOf(m), 1, k)
  <2>1. PICK R, F, D : R = RecordsOf(m) /\ F = RecordsOf(f) /\ D = Seq(Nat) OBVIOUS
  <2>2. /\ R \in Seq(D) /\ Len(R) = Len(an) /\ F \in Seq(D) /\ Len(F) = k
        /\ (\A i \in 1..Len(an) : R[i] = Record(an[i])) /\ \A i \in 1..k : F[i] = Record(fa[i])
    BY <2>1, <1>2, <1>6, <1>7, MessagePieces
  <2>3. \A i \in 1..k : R[i] \in D BY <2>2, <1>4, ElementOfSeq
  <2>4. PICK S : S = SubSeq(R, 1, k) OBVIOUS
  <2>5. S \in Seq(D) /\ Len(S) = k /\ \A i \in 1..k : S[i] = R[i]
    <3>1. /\ S \in Seq(D) /\ Len(S) = (IF 1 <= k THEN k - 1 + 1 ELSE 0)
          /\ \A i \in 1..k - 1 + 1 : S[i] = R[1 + i - 1]
      BY <2>3, <2>4, <1>5, SubSeqProperties
    <3>2. QED BY <3>1, <1>5
  <2>6. \A i \in 1..Len(F) : F[i] = S[i] BY <2>2, <2>5, <1>4, <1>6
  <2>7. F = S BY <2>2, <2>5, <2>6, SeqEqual
  <2>8. QED BY <2>1, <2>4, <2>7
<1>10. PICK q, r : q = FlattenSeq(QuestionsOf(m)) /\ r = Part(RecordsOf(m), k) OBVIOUS
<1>11. r = FlattenSeq(RecordsOf(f)) BY <1>9, <1>10 DEF Part
<1>12. q \in Seq(Nat) /\ r \in Seq(Nat) /\ Body(f) = q \o r BY <1>7, <1>8, <1>10, <1>11, MessagePieces
<1>13. PICK u : u = q \o r OBVIOUS
<1>14. Joined(u, q, r, Len(q), Len(r)) BY <1>12, <1>13, JoinAt
<1>15. Len(Body(f)) = Len(q) + Len(r) BY <1>12, <1>13, <1>14 DEF Joined
<1>16. AfterAnswer(m, k) = Len(q) + Len(r) BY <1>10 DEF AfterAnswer
<1>17. Len(q) \in Nat /\ Len(r) \in Nat BY <1>12, LenProperties
<1>18. QED BY <1>1, <1>15, <1>16, <1>17

LEMMA AnswersGrow ==
  ASSUME NEW m \in MessageForms, NEW l \in 0..Len(m.answers), NEW k \in 0..l
  PROVE  AfterAnswer(m, k) <= AfterAnswer(m, l)
<1>1. PICK R : R = RecordsOf(m) OBVIOUS
<1>2. R \in Seq(Seq(Nat)) /\ l \in 0..Len(R) BY <1>1, MessagePieces
<1>3. /\ Part(R, k) \in Seq(Nat) /\ Part(R, l) \in Seq(Nat)
      /\ Len(Part(R, k)) <= Len(Part(R, l))
  BY <1>2, PartsGrow
<1>4. FlattenSeq(QuestionsOf(m)) \in Seq(Nat) BY MessagePieces
<1>5. PICK a, b, c : a = Len(Part(R, k)) /\ b = Len(Part(R, l)) /\ c = Len(FlattenSeq(QuestionsOf(m))) OBVIOUS
<1>6. a \in Nat /\ b \in Nat /\ c \in Nat /\ a <= b BY <1>3, <1>4, <1>5, LenProperties
<1>7. AfterAnswer(m, k) = c + a /\ AfterAnswer(m, l) = c + b BY <1>1, <1>5 DEF AfterAnswer
<1>8. QED BY <1>6, <1>7

LEMMA WholeCount ==
  ASSUME NEW m \in MessageForms, NEW n \in Nat
  PROVE  /\ Cardinality(Whole(m, n)) \in 0..Len(m.answers)
         /\ \A k \in 1..Len(m.answers) : AfterAnswer(m, k) <= n <=> k <= Cardinality(Whole(m, n))
<1>1. PICK l \in Nat : l = Len(m.answers) BY MessageEnds
<1>2. m.answers \in Seq(RecordForms) /\ DOMAIN m.answers = 1..l BY <1>1, MessagePieces, LenProperties
<1>3. Whole(m, n) = {k \in 1..l : AfterAnswer(m, k) <= n}
  <2>1. \A k \in 1..l : Len(Body(FirstAnswers(m, k))) = AfterAnswer(m, k)
    BY <1>1, FirstAnswersLength
  <2>2. Whole(m, n) = {k \in 1..l : Len(Body(FirstAnswers(m, k))) <= n} BY <1>2 DEF Whole
  <2>3. QED BY <2>1, <2>2
<1>4. \A k \in 0..l : AfterAnswer(m, k) \in Nat BY <1>1, FirstAnswersLength
<1> DEFINE T == {k \in 1..l+1 : k = l + 1 \/ (k <= l /\ ~(AfterAnswer(m, k) <= n))}
<1>5. PICK j \in T : \A k \in T : j <= k
  <2>1. T \subseteq Nat /\ l + 1 \in T OBVIOUS
  <2> HIDE DEF T
  <2>2. T # {} BY <2>1
  <2>3. QED BY <2>1, <2>2, LeastElement
<1>6. PICK K \in 0..l : K = j - 1 OBVIOUS
<1>7. ASSUME NEW k \in 1..l PROVE AfterAnswer(m, k) <= n <=> k <= K
  <2>1. CASE k <= K
    <3>1. k \in 1..l+1 /\ ~(j <= k) BY <2>1, <1>6
    <3>2. k \notin T BY <3>1, <1>5
    <3>3. AfterAnswer(m, k) <= n BY <3>1, <3>2
    <3>4. QED BY <2>1, <3>3
  <2>2. CASE ~(k <= K)
    <3>1. j \in 0..k /\ j \in 1..l /\ j # l + 1 BY <2>2, <1>6
    <3>2. ~(AfterAnswer(m, j) <= n) BY <3>1, <1>5
    <3>3. AfterAnswer(m, j) <= AfterAnswer(m, k)
      <4>1. k \in 0..Len(m.answers) BY <1>1
      <4>2. QED BY <3>1, <4>1, AnswersGrow
    <3>4. AfterAnswer(m, j) \in Nat /\ AfterAnswer(m, k) \in Nat BY <3>1, <1>4
    <3>5. ~(AfterAnswer(m, k) <= n) BY <3>2, <3>3, <3>4
    <3>6. QED BY <2>2, <3>5
  <2>3. QED BY <2>1, <2>2
<1>8. Whole(m, n) = 1..K BY <1>3, <1>7
<1>9. Cardinality(Whole(m, n)) = K
  <2>1. Cardinality(1..K) = IF 1 > K THEN 0 ELSE K - 1 + 1 BY FS_Interval
  <2>2. QED BY <2>1, <1>8
<1>10. QED BY <1>1, <1>7, <1>9

(* What the first k answers have to show.                                  *)
AddressesOf(m, k) == Addresses(SubSeq(m.answers, 1, k))

LEMMA ShownForm ==
  ASSUME NEW m \in MessageForms
  PROVE  /\ Shown(m.answers) \in Seq(Seq(Seq(Nat))) /\ Len(Shown(m.answers)) = Len(m.answers)
         /\ Len(m.answers) \in Nat /\ Addresses(m.answers) = FlattenSeq(Shown(m.answers))
         /\ \A k \in 0..Len(m.answers) : AddressesOf(m, k) = Part(Shown(m.answers), k)
         /\ \A k \in 1..Len(m.answers) :
              Shown(m.answers)[k] = IF IsAddress(m.answers[k]) THEN <<m.answers[k].data>> ELSE <<>>
<1>1. PICK an, S, E, D : an = m.answers /\ S = Shown(an) /\ E = Seq(Nat) /\ D = Seq(E) OBVIOUS
<1>2. an \in Seq(RecordForms) BY <1>1, MessagePieces
<1>3. PICK l \in Nat : l = Len(an) /\ DOMAIN an = 1..l BY <1>2, LenProperties
<1> DEFINE shown(r) == IF IsAddress(r) THEN <<r.data>> ELSE <<>>
<1>4. ASSUME NEW r \in RecordForms PROVE shown(r) \in D
  <2>1. PICK d : d = r.data OBVIOUS
  <2>2. d \in Seq(Byte) BY <2>1 DEF RecordForms
  <2>3. Byte \subseteq Nat BY DEF Byte
  <2>4. d \in E BY <2>2, <2>3, <1>1, SeqMonotonic
  <2>5. <<d>> \in D /\ <<>> \in D BY <2>4, <1>1
  <2>6. QED BY <2>1, <2>5
<1>5. ASSUME NEW x \in Seq(RecordForms)
      PROVE  /\ Shown(x) \in Seq(D) /\ Len(Shown(x)) = Len(x)
             /\ \A i \in 1..Len(x) : Shown(x)[i] = shown(x[i])
  <2>1. PICK n \in Nat : n = Len(x) /\ DOMAIN x = 1..n BY LenProperties
  <2>2. Shown(x) = [i \in 1..n |-> shown(x[i])] BY <2>1 DEF Shown
  <2>3. \A i \in 1..n : shown(x[i]) \in D
    <3>1. ASSUME NEW i \in 1..n PROVE shown(x[i]) \in D
      <4>1. PICK r : r = x[i] OBVIOUS
      <4>2. r \in RecordForms BY <4>1, <2>1, ElementOfSeq
      <4> HIDE DEF shown
      <4>3. QED BY <4>1, <4>2, <1>4
    <3> HIDE DEF shown
    <3>2. QED BY <3>1
  <2> HIDE DEF shown
  <2>4. QED BY <2>1, <2>2, <2>3
<1> HIDE DEF shown
<1>6. S \in Seq(D) /\ Len(S) = l /\ \A i \in 1..l : S[i] = shown(an[i]) BY <1>1, <1>2, <1>3, <1>5
<1>7. ASSUME NEW k \in 0..l PROVE AddressesOf(m, k) = Part(S, k)
  <2>1. PICK fa : fa = SubSeq(an, 1, k) OBVIOUS
  <2>2. \A i \in 1..k : an[i] \in RecordForms /\ S[i] \in D
    <3>1. \A i \in 1..k : i \in 1..Len(an) /\ i \in 1..Len(S) BY <1>3, <1>6
    <3>2. QED BY <3>1, <1>2, <1>6, ElementOfSeq
  <2>3. fa \in Seq(RecordForms) /\ Len(fa) = k /\ \A i \in 1..k : fa[i] = an[i]
    <3>1. /\ fa \in Seq(RecordForms) /\ Len(fa) = (IF 1 <= k THEN k - 1 + 1 ELSE 0)
          /\ \A i \in 1..k - 1 + 1 : fa[i] = an[1 + i - 1]
      BY <2>1, <2>2, SubSeqProperties
    <3>2. QED BY <3>1
  <2>4. PICK T, F : T = SubSeq(S, 1, k) /\ F = Shown(fa) OBVIOUS
  <2>5. T \in Seq(D) /\ Len(T) = k /\ \A i \in 1..k : T[i] = S[i]
    <3>1. /\ T \in Seq(D) /\ Len(T) = (IF 1 <= k THEN k - 1 + 1 ELSE 0)
          /\ \A i \in 1..k - 1 + 1 : T[i] = S[1 + i - 1]
      BY <2>2, <2>4, SubSeqProperties
    <3>2. QED BY <3>1
  <2>6. F \in Seq(D) /\ Len(F) = k /\ \A i \in 1..k : F[i] = shown(fa[i]) BY <2>3, <2>4, <1>5
  <2>7. \A i \in 1..k : F[i] = T[i]
    <3>1. \A i \in 1..k : i \in 1..l BY <1>3
    <3>2. QED BY <3>1, <2>3, <2>5, <2>6, <1>6
  <2>8. F = T BY <2>5, <2>6, <2>7, SeqEqual
  <2>9. AddressesOf(m, k) = FlattenSeq(F) BY <2>1, <2>4, <1>1 DEF AddressesOf, Addresses, Shown
  <2>10. QED BY <2>4, <2>8, <2>9 DEF Part
<1>8. Addresses(an) = FlattenSeq(S) BY <1>1 DEF Addresses, Shown
<1>9. S \in Seq(Seq(Seq(Nat))) BY <1>1, <1>6
<1>10. \A i \in 1..l : S[i] = IF IsAddress(an[i]) THEN <<an[i].data>> ELSE <<>> BY <1>6 DEF shown
<1>11. QED BY <1>1, <1>3, <1>6, <1>7, <1>8, <1>9, <1>10

LEMMA AddressesStep ==
  ASSUME NEW m \in MessageForms, NEW k \in 1..Len(m.answers)
  PROVE  /\ AddressesOf(m, k - 1) \in Seq(Seq(Nat))
         /\ AddressesOf(m, k) = IF IsAddress(m.answers[k])
                                THEN Append(AddressesOf(m, k - 1), m.answers[k].data)
                                ELSE AddressesOf(m, k - 1)
<1>1. PICK S, E, l : S = Shown(m.answers) /\ E = Seq(Nat) /\ l = Len(m.answers) OBVIOUS
<1>2. /\ S \in Seq(Seq(E)) /\ Len(S) = l /\ l \in Nat
      /\ \A i \in 0..l : AddressesOf(m, i) = Part(S, i)
      /\ S[k] = IF IsAddress(m.answers[k]) THEN <<m.answers[k].data>> ELSE <<>>
  BY <1>1, ShownForm
<1>3. k \in 1..Len(S) /\ k - 1 \in 0..l /\ k \in 0..l BY <1>1, <1>2
<1>4. PICK a, b, c : a = Part(S, k - 1) /\ b = Part(S, k) /\ c = S[k] OBVIOUS
<1>5. a \in Seq(E) /\ c \in Seq(E) /\ b = a \o c BY <1>2, <1>3, <1>4, PartStep
<1>6. PICK d : d = m.answers[k].data OBVIOUS
<1>7. d \in E
  <2>1. PICK r : r = m.answers[k] OBVIOUS
  <2>2. r \in RecordForms BY <2>1, MessagePieces
  <2>3. r.data \in Seq(Byte) BY <2>2 DEF RecordForms
  <2>4. Byte \subseteq Nat BY DEF Byte
  <2>5. QED BY <2>1, <2>3, <2>4, <1>1, <1>6, SeqMonotonic
<1>8. CASE IsAddress(m.answers[k])
  <2>1. c = <<d>> BY <1>2, <1>4, <1>6, <1>8
  <2>2. a \o <<d>> = Append(a, d) BY <1>5, <1>7
  <2>3. QED BY <2>1, <2>2, <1>1, <1>2, <1>3, <1>4, <1>5, <1>6, <1>8
<1>9. CASE ~IsAddress(m.answers[k])
  <2>1. c = <<>> BY <1>2, <1>4, <1>9
  <2>2. a \o <<>> = a BY <1>5, ConcatEmptySeq
  <2>3. QED BY <2>1, <2>2, <1>1, <1>2, <1>3, <1>4, <1>5, <1>9
<1>10. QED BY <1>8, <1>9

LEMMA AddressesGrow ==
  ASSUME NEW m \in MessageForms, NEW l \in 0..Len(m.answers), NEW k \in 0..l
  PROVE  /\ AddressesOf(m, k) \in Seq(Seq(Nat)) /\ AddressesOf(m, l) \in Seq(Seq(Nat))
         /\ Len(AddressesOf(m, k)) <= Len(AddressesOf(m, l))
         /\ \A j \in 1..Len(AddressesOf(m, k)) : AddressesOf(m, l)[j] = AddressesOf(m, k)[j]
         /\ AddressesOf(m, 0) = <<>> /\ AddressesOf(m, Len(m.answers)) = Addresses(m.answers)
<1>1. PICK S, E, n : S = Shown(m.answers) /\ E = Seq(Nat) /\ n = Len(m.answers) OBVIOUS
<1>2. /\ S \in Seq(Seq(E)) /\ Len(S) = n /\ n \in Nat /\ Addresses(m.answers) = FlattenSeq(S)
      /\ \A i \in 0..n : AddressesOf(m, i) = Part(S, i)
  BY <1>1, ShownForm
<1>3. l \in 0..Len(S) /\ k \in 0..n /\ l \in 0..n /\ n \in 0..n /\ 0 \in 0..n BY <1>1, <1>2
<1>4. /\ Part(S, k) \in Seq(E) /\ Part(S, l) \in Seq(E)
      /\ Len(Part(S, k)) <= Len(Part(S, l))
      /\ \A j \in 1..Len(Part(S, k)) : Part(S, l)[j] = Part(S, k)[j]
  BY <1>2, <1>3, PartsGrow
<1>5. Part(S, 0) = <<>> /\ Part(S, Len(S)) = FlattenSeq(S) BY <1>2, PartEnds
<1>6. AddressesOf(m, k) = Part(S, k) /\ AddressesOf(m, l) = Part(S, l) BY <1>2, <1>3
<1>7. AddressesOf(m, 0) = <<>> /\ AddressesOf(m, n) = Addresses(m.answers) BY <1>2, <1>3, <1>5
<1>8. QED BY <1>1, <1>4, <1>6, <1>7
----------------------------------------------------------------------------
(* The invariant. What has come is a prefix of what was sent; among the    *)
(* questions the walk is where one begins; among the answers it is where   *)
(* one begins, all before it being whole and shown, or it has passed the   *)
(* end, when at most one more is shown.                                    *)

WholeIn(m, b) == Cardinality(Whole(m, Len(b)))
Arrived(m, b) ==
  /\ m \in MessageForms /\ b \in Seq(Nat) /\ Len(b) <= Len(Body(m))
  /\ \A j \in 1..Len(b) : b[j] = Body(m)[j]
InQuestions(m, p, l, pr) ==
  /\ pr = <<>>
  /\ \E k \in 0..Len(m.questions) : l = Len(m.questions) - k /\ p = AfterQuestion(m, k)
OnAnswer(m, b, k, p, pr) ==
  k <= WholeIn(m, b) /\ p = AfterAnswer(m, k) /\ pr = AddressesOf(m, k)
BehindEnd(m, b, k, p, pr) ==
  /\ k > WholeIn(m, b) /\ p \in Nat /\ p >= Len(b)
  /\ \/ pr = AddressesOf(m, WholeIn(m, b))
     \/ \E x \in Seq(Nat) : pr = Append(AddressesOf(m, WholeIn(m, b)), x)
InAnswers(m, b, p, l, pr) ==
  \E k \in 0..Len(m.answers) :
    l = Len(m.answers) - k /\ (OnAnswer(m, b, k, p, pr) \/ BehindEnd(m, b, k, p, pr))
Agrees(m, b, pr) ==
  LET whole == AddressesOf(m, WholeIn(m, b))
      common == IF Len(pr) < Len(whole) THEN Len(pr) ELSE Len(whole)
  IN SubSeq(pr, 1, common) = SubSeq(whole, 1, common) /\ Len(pr) <= Len(whole) + 1
Complete(m, b, pr, r) ==
  b = Body(m) /\ m.ours /\ m.rcode # 3 => r = "ok" /\ pr = Addresses(m.answers)

Came ==
  /\ pc \in {"ask", "wait"} => msg = <<>>
  /\ pc \in {"header", "questions", "answers"} \/ msg # <<>> => Arrived(msg, body) /\ junk \in Byte
Course ==
  /\ pc \in {"ask", "wait", "header", "questions", "answers", "done"}
  /\ pc \in {"ask", "wait", "header"} => pos = 0 /\ printed = <<>>
  /\ pc = "questions" => InQuestions(msg, pos, left, printed)
  /\ pc = "answers" => InAnswers(msg, body, pos, left, printed)
Ended == pc = "done" /\ msg # <<>> => Agrees(msg, body, printed) /\ Complete(msg, body, printed, result)
WalkInv == NameFits /\ Came /\ Course /\ Ended

LEMMA AgreesEmpty ==
  ASSUME NEW m, NEW b, Arrived(m, b)
  PROVE  Agrees(m, b, <<>>)
<1>1. PICK w : w = AddressesOf(m, WholeIn(m, b)) OBVIOUS
<1>2. m \in MessageForms /\ Len(b) \in Nat BY LenProperties DEF Arrived
<1>3. WholeIn(m, b) \in 0..Len(m.answers) /\ Len(m.answers) \in Nat
  BY <1>2, WholeCount, MessageEnds DEF WholeIn
<1>4. w \in Seq(Seq(Nat)) BY <1>1, <1>2, <1>3, AddressesGrow
<1>5. Len(w) \in Nat BY <1>4, LenProperties
<1>6. Len(<<>>) = 0 OBVIOUS
<1>7. PICK c : c = IF Len(<<>>) < Len(w) THEN Len(<<>>) ELSE Len(w) OBVIOUS
<1>8. c = 0 BY <1>5, <1>6, <1>7
<1>9. SubSeq(<<>>, 1, c) = <<>> /\ SubSeq(w, 1, c) = <<>> BY <1>8, SubSeqEmpty
<1>10. QED BY <1>1, <1>5, <1>6, <1>7, <1>9 DEF Agrees

LEMMA SamePrefix ==
  ASSUME NEW S, NEW s \in Seq(S), NEW t \in Seq(S), NEW n \in Nat,
         n <= Len(s), n <= Len(t), \A j \in 1..n : s[j] = t[j]
  PROVE  SubSeq(s, 1, n) = SubSeq(t, 1, n)
<1>1. Len(s) \in Nat /\ Len(t) \in Nat BY LenProperties
<1>2. \A j \in 1..n : j \in 1..Len(s) /\ j \in 1..Len(t) BY <1>1
<1>3. \A j \in 1..n : s[j] \in S /\ t[j] \in S BY <1>2, ElementOfSeq
<1>4. PICK a, b : a = SubSeq(s, 1, n) /\ b = SubSeq(t, 1, n) OBVIOUS
<1>5. a \in Seq(S) /\ Len(a) = n /\ \A j \in 1..n : a[j] = s[j]
  <2>1. /\ a \in Seq(S) /\ Len(a) = (IF 1 <= n THEN n - 1 + 1 ELSE 0)
        /\ \A j \in 1..n - 1 + 1 : a[j] = s[1 + j - 1]
    BY <1>3, <1>4, SubSeqProperties
  <2>2. QED BY <2>1
<1>6. b \in Seq(S) /\ Len(b) = n /\ \A j \in 1..n : b[j] = t[j]
  <2>1. /\ b \in Seq(S) /\ Len(b) = (IF 1 <= n THEN n - 1 + 1 ELSE 0)
        /\ \A j \in 1..n - 1 + 1 : b[j] = t[1 + j - 1]
    BY <1>3, <1>4, SubSeqProperties
  <2>2. QED BY <2>1
<1>7. Len(a) = Len(b) /\ \A j \in 1..Len(a) : a[j] = b[j] BY <1>5, <1>6
<1>8. a = b BY <1>5, <1>6, <1>7, SeqEqual
<1>9. QED BY <1>4, <1>8

LEMMA AgreesInAnswers ==
  ASSUME NEW m, NEW b, NEW p, NEW l, NEW pr, Arrived(m, b), InAnswers(m, b, p, l, pr)
  PROVE  Agrees(m, b, pr)
<1>1. PICK K : K = WholeIn(m, b) OBVIOUS
<1>2. PICK w : w = AddressesOf(m, K) OBVIOUS
<1>3. m \in MessageForms /\ Len(b) \in Nat BY LenProperties DEF Arrived
<1>4. K \in 0..Len(m.answers) /\ Len(m.answers) \in Nat
  BY <1>1, <1>3, WholeCount, MessageEnds DEF WholeIn
<1>5. PICK E : E = Seq(Nat) OBVIOUS
<1>6. w \in Seq(E) BY <1>2, <1>3, <1>4, <1>5, AddressesGrow
<1>7. PICK n \in Nat : n = Len(w) BY <1>6, LenProperties
<1>8. PICK k \in 0..Len(m.answers) : OnAnswer(m, b, k, p, pr) \/ BehindEnd(m, b, k, p, pr)
  BY DEF InAnswers
<1>9. CASE OnAnswer(m, b, k, p, pr)
  <2>1. k \in 0..K /\ pr = AddressesOf(m, k) BY <1>1, <1>4, <1>8, <1>9 DEF OnAnswer
  <2>2. pr \in Seq(E) /\ Len(pr) <= Len(w) /\ \A j \in 1..Len(pr) : w[j] = pr[j]
    BY <2>1, <1>2, <1>3, <1>4, <1>5, AddressesGrow
  <2>3. PICK q \in Nat : q = Len(pr) BY <2>2, LenProperties
  <2>4. q <= n /\ \A j \in 1..q : w[j] = pr[j] BY <2>2, <2>3, <1>7
  <2>5. SubSeq(pr, 1, q) = SubSeq(w, 1, q) BY <2>2, <2>3, <2>4, <1>6, <1>7, SamePrefix
  <2>6. (IF q < n THEN q ELSE n) = q /\ q <= n + 1 BY <2>4
  <2>7. QED BY <2>3, <2>5, <2>6, <1>1, <1>2, <1>7 DEF Agrees
<1>10. CASE BehindEnd(m, b, k, p, pr)
  <2>1. pr = w \/ \E x \in E : pr = Append(w, x) BY <1>1, <1>2, <1>5, <1>10 DEF BehindEnd
  <2>2. pr \in Seq(E) /\ (Len(pr) = n \/ Len(pr) = n + 1) /\ \A j \in 1..n : pr[j] = w[j]
    <3>1. CASE pr = w BY <3>1, <1>6, <1>7
    <3>2. CASE \E x \in E : pr = Append(w, x)
      <4>1. PICK x \in E : pr = Append(w, x) BY <3>2
      <4>2. pr \in Seq(E) /\ Len(pr) = n + 1 /\ \A j \in 1..n : pr[j] = w[j]
        BY <4>1, <1>6, <1>7, AppendProperties
      <4>3. QED BY <4>2
    <3>3. QED BY <2>1, <3>1, <3>2
  <2>3. n <= Len(pr) BY <2>2
  <2>4. SubSeq(pr, 1, n) = SubSeq(w, 1, n) BY <2>2, <2>3, <1>6, <1>7, SamePrefix
  <2>5. (IF Len(pr) < n THEN Len(pr) ELSE n) = n /\ Len(pr) <= n + 1 BY <2>2
  <2>6. QED BY <2>4, <2>5, <1>1, <1>2, <1>7 DEF Agrees
<1>11. QED BY <1>8, <1>9, <1>10

LEMMA WalkImpliesPrints ==
  ASSUME WalkInv
  PROVE  Sound
<1>1. NameFits BY DEF WalkInv
<1>2. ASSUME msg # <<>> PROVE Agrees(msg, body, printed)
  <2>1. Arrived(msg, body) BY <1>2 DEF WalkInv, Came
  <2>2. CASE pc = "header" BY <2>1, <2>2, AgreesEmpty DEF WalkInv, Course
  <2>3. CASE pc = "questions" BY <2>1, <2>3, AgreesEmpty DEF WalkInv, Course, InQuestions
  <2>4. CASE pc = "answers"
    <3>1. InAnswers(msg, body, pos, left, printed) BY <2>4 DEF WalkInv, Course
    <3>2. QED BY <2>1, <3>1, AgreesInAnswers
  <2>5. CASE pc = "done" BY <2>5, <1>2 DEF WalkInv, Ended
  <2>6. pc \notin {"ask", "wait"} BY <1>2 DEF WalkInv, Came
  <2>7. QED BY <2>2, <2>3, <2>4, <2>5, <2>6 DEF WalkInv, Course
<1>3. ASSUME msg # <<>>, pc = "done" PROVE Complete(msg, body, printed, result)
  BY <1>3 DEF WalkInv, Ended
<1>4. PrintsAddresses
  <2>1. SUFFICES ASSUME msg # <<>> PROVE
          LET whole == Addresses(SubSeq(msg.answers, 1, Cardinality(Whole(msg, Len(body)))))
              common == IF Len(printed) < Len(whole) THEN Len(printed) ELSE Len(whole)
          IN /\ SubSeq(printed, 1, common) = SubSeq(whole, 1, common)
             /\ Len(printed) <= Len(whole) + 1
             /\ pc = "done" /\ body = Body(msg) /\ msg.ours /\ msg.rcode # 3
                  => result = "ok" /\ printed = Addresses(msg.answers)
    BY DEF PrintsAddresses
  <2>2. Agrees(msg, body, printed) BY <2>1, <1>2
  <2>3. pc = "done" => Complete(msg, body, printed, result) BY <2>1, <1>3
  <2>4. QED BY <2>2, <2>3 DEF Agrees, Complete, WholeIn, AddressesOf
<1>5. QED BY <1>1, <1>4 DEF Sound

(* A walk that found the end missing did not walk over the whole message.  *)
LEMMA QuestionSkipped ==
  ASSUME Arrived(msg, body), NEW k \in 1..Len(msg.questions), pos = AfterQuestion(msg, k - 1)
  PROVE  /\ skip_dns_name(pos) < 0 => body # Body(msg)
         /\ ~(skip_dns_name(pos) < 0) => skip_dns_name(pos) + 4 = AfterQuestion(msg, k)
<1>1. msg \in MessageForms /\ body \in Seq(Nat) BY DEF Arrived
<1>2. PICK n, q, nm, p, t : /\ n = msg.questions[k] /\ q = Question(n) /\ nm = Name(n)
                            /\ p = AfterQuestion(msg, k - 1) /\ t = AfterQuestion(msg, k)
  OBVIOUS
<1>3. /\ n \in Names /\ p \in Nat /\ t = p + Len(q) /\ t <= Len(Body(msg))
      /\ \A j \in 1..Len(q) : Body(msg)[p + j] = q[j]
  BY <1>1, <1>2, QuestionAt
<1>4. q \in Seq(Nat) /\ Len(q) = Len(nm) + 4 /\ \A j \in 1..Len(nm) : q[j] = nm[j] BY <1>2, <1>3, QuestionForm
<1>5. PICK l, N, W \in Nat : l = Len(nm) /\ N = Len(body) /\ W = Len(Body(msg))
  BY <1>1, <1>2, <1>3, NameForm, MessageEnds, LenProperties
<1>6. Holds(p, nm)
  <2>1. ASSUME NEW j \in 1..l, p + j <= N PROVE body[p + j] = nm[j]
    <3>1. p + j \in 1..Len(body) /\ j \in 1..Len(q) BY <2>1, <1>3, <1>4, <1>5
    <3>2. body[p + j] = Body(msg)[p + j] BY <3>1 DEF Arrived
    <3>3. QED BY <3>1, <3>2, <1>3, <1>4, <1>5
  <2>2. QED BY <2>1, <1>5 DEF Holds
<1>7. PICK z : z = skip_dns_name(p) OBVIOUS
<1>8. (z = -1 \/ z = p + l) /\ (p + l <= N => z = p + l)
  BY <1>1, <1>2, <1>3, <1>5, <1>6, <1>7, SkipName
<1>9. t = p + l + 4 /\ t <= W BY <1>3, <1>4, <1>5
<1>10. z < 0 => N # W BY <1>3, <1>8, <1>9
<1>11. ~(z < 0) => z + 4 = t BY <1>3, <1>8, <1>9
<1>12. QED BY <1>2, <1>5, <1>7, <1>10, <1>11

LEMMA BytesAreNatural ==
  ASSUME body \in Seq(Nat), junk \in Byte, NEW p \in Nat
  PROVE  At(p) \in Nat
<1>1. CASE p < Len(body)
  <2>1. PICK i : i = p + 1 OBVIOUS
  <2>2. i \in 1..Len(body) BY <2>1, <1>1, LenProperties
  <2>3. body[i] \in Nat BY <2>2, ElementOfSeq
  <2>4. At(p) = body[i] BY <2>1, <1>1 DEF At
  <2>5. QED BY <2>3, <2>4
<1>2. CASE ~(p < Len(body)) BY <1>2 DEF At, Byte
<1>3. QED BY <1>1, <1>2

(* The bytes at a place where s is, and the number that two of them are.   *)
HoldsUpTo(a, s, l, N) == l = Len(s) /\ N = Len(body) /\ Holds(a, s)

LEMMA AtHolds ==
  ASSUME NEW a \in Nat, NEW s, NEW N \in Nat, NEW l \in Nat, HoldsUpTo(a, s, l, N),
         NEW j \in 1..l, a + j <= N, NEW q \in Nat, q + 1 = a + j
  PROVE  At(q) = s[j]
<1>1. q < N OBVIOUS
<1>2. N = Len(body) /\ l = Len(s) BY DEF HoldsUpTo
<1>3. body[a + j] = s[j] BY <1>2 DEF HoldsUpTo, Holds
<1>4. At(q) = body[q + 1] BY <1>1, <1>2 DEF At
<1>5. QED BY <1>3, <1>4

LEMMA U16Holds ==
  ASSUME NEW a \in Nat, NEW s, NEW N \in Nat, NEW l \in Nat, HoldsUpTo(a, s, l, N),
         NEW j \in 1..l, NEW i \in 1..l, i = j + 1, a + i <= N, NEW q \in Nat, q + 1 = a + j
  PROVE  U16(q) = s[j] * 256 + s[i]
<1>1. PICK c, x, y : c = q + 1 /\ x = s[j] /\ y = s[i] OBVIOUS
<1>2. c \in Nat /\ c + 1 = a + i /\ a + j <= N BY <1>1
<1>3. At(q) = x BY <1>1, <1>2, AtHolds
<1>4. At(c) = y BY <1>1, <1>2, AtHolds
<1>5. U16(q) = At(q) * 256 + At(c) BY <1>1 DEF U16
<1>6. QED BY <1>1, <1>3, <1>4, <1>5

(* The four bytes behind the fixed fields, and what the client shows then. *)
FourFrom(q) == [i \in 1..4 |-> At(q + 9 + i)]
ShownWith(pr, q) == IF U16(q) = 1 /\ U16(q + 2) = 1 /\ U16(q + 8) = 4 THEN Append(pr, FourFrom(q)) ELSE pr

LEMMA FourIsSeq ==
  ASSUME body \in Seq(Nat), junk \in Byte, NEW q \in Nat
  PROVE  FourFrom(q) \in Seq(Nat) /\ U16(q) \in Nat /\ U16(q + 8) \in Nat
<1>1. ASSUME NEW i \in 1..4 PROVE At(q + 9 + i) \in Nat
  <2>1. PICK c \in Nat : c = q + 9 + i OBVIOUS
  <2>2. QED BY <2>1, BytesAreNatural
<1>2. FourFrom(q) \in [1..4 -> Nat] BY <1>1 DEF FourFrom
<1>3. ASSUME NEW c \in Nat PROVE U16(c) \in Nat
  <2>1. PICK e \in Nat : e = c + 1 OBVIOUS
  <2>2. PICK x, y : x = At(c) /\ y = At(e) OBVIOUS
  <2>3. x \in Nat /\ y \in Nat BY <2>1, <2>2, BytesAreNatural
  <2>4. U16(c) = x * 256 + y BY <2>1, <2>2 DEF U16
  <2>5. QED BY <2>3, <2>4
<1>4. U16(q + 8) \in Nat
  <2>1. PICK e \in Nat : e = q + 8 OBVIOUS
  <2>2. U16(e) \in Nat BY <1>3
  <2>3. QED BY <2>1, <2>2
<1>5. FourFrom(q) \in Seq(Nat)
  <2>1. PICK n \in Nat : n = 4 OBVIOUS
  <2>2. FourFrom(q) \in [1..n -> Nat] BY <1>2, <2>1
  <2>3. QED BY <2>2, SeqDef
<1>6. QED BY <1>3, <1>4, <1>5

(* The fixed fields of a record that has come to their end, and its data   *)
(* if it has come whole.                                                   *)
RecordUpTo(a, r, o, n, N) ==
  Holds(a, Record(r)) /\ o = Len(Name(r.name)) /\ n = Len(r.data) /\ N = Len(body)

LEMMA FieldsRead ==
  ASSUME NEW a \in Nat, NEW r \in RecordForms, NEW o \in Nat, NEW n \in Nat,
         NEW N \in Nat, RecordUpTo(a, r, o, n, N), a + o + 10 <= N
  PROVE  /\ U16(a + o) = r.type /\ U16(a + o + 2) = r.class /\ U16(a + o + 8) = n
         /\ n = 4 /\ a + o + 10 + n <= N => FourFrom(a + o) = r.data
<1>1. PICK s, d : s = Record(r) /\ d = r.data OBVIOUS
<1>2. /\ Len(s) = o + 10 + n /\ d \in Seq(Nat) /\ n = Len(d)
      /\ s[o + 1] * 256 + s[o + 2] = r.type
      /\ s[o + 3] * 256 + s[o + 4] = r.class
      /\ s[o + 9] * 256 + s[o + 10] = n
      /\ \A j \in 1..n : s[o + 10 + j] = d[j]
  <2>1. o = Len(Name(r.name)) /\ n = Len(r.data) BY DEF RecordUpTo
  <2>2. IsRecord(s, r, o) BY <2>1, <1>1, RecordForm
  <2>3. QED BY <2>1, <2>2, <1>1 DEF IsRecord
<1>3. PICK l \in Nat : l = o + 10 + n OBVIOUS
<1>4. PICK j1, j2, j3, j4, j5, j6 :
        j1 = o + 1 /\ j2 = o + 2 /\ j3 = o + 3 /\ j4 = o + 4 /\ j5 = o + 9 /\ j6 = o + 10
  OBVIOUS
<1>5. PICK q, q2, q8 \in Nat : q = a + o /\ q2 = a + o + 2 /\ q8 = a + o + 8 OBVIOUS
<1>6. HoldsUpTo(a, s, l, N) BY <1>1, <1>2, <1>3 DEF HoldsUpTo, RecordUpTo
<1>13. PICK x1, x2, x3, x4, x5, x6 : /\ x1 = s[j1] /\ x2 = s[j2] /\ x3 = s[j3]
                                     /\ x4 = s[j4] /\ x5 = s[j5] /\ x6 = s[j6]
  OBVIOUS
<1>7. U16(q) = x1 * 256 + x2
  <2>1. /\ j1 \in 1..l /\ j2 \in 1..l /\ j2 = j1 + 1
        /\ a + j2 <= N /\ q + 1 = a + j1
    BY <1>3, <1>4, <1>5
  <2>2. QED BY <2>1, <1>6, <1>13, U16Holds
<1>8. U16(q2) = x3 * 256 + x4
  <2>1. /\ j3 \in 1..l /\ j4 \in 1..l /\ j4 = j3 + 1
        /\ a + j4 <= N /\ q2 + 1 = a + j3
    BY <1>3, <1>4, <1>5
  <2>2. QED BY <2>1, <1>6, <1>13, U16Holds
<1>9. U16(q8) = x5 * 256 + x6
  <2>1. /\ j5 \in 1..l /\ j6 \in 1..l /\ j6 = j5 + 1
        /\ a + j6 <= N /\ q8 + 1 = a + j5
    BY <1>3, <1>4, <1>5
  <2>2. QED BY <2>1, <1>6, <1>13, U16Holds
<1>10. U16(q) = r.type /\ U16(q2) = r.class /\ U16(q8) = n BY <1>2, <1>4, <1>7, <1>8, <1>9, <1>13
<1>11. ASSUME n = 4, a + o + 10 + n <= N PROVE FourFrom(q) = d
  <2>1. ASSUME NEW i \in 1..4 PROVE At(q + 9 + i) = d[i]
    <3>1. PICK j \in 1..l : j = o + 10 + i BY <1>3, <1>11
    <3>2. PICK c \in Nat : c = q + 9 + i BY <1>5
    <3>3. a + j <= N /\ c + 1 = a + j BY <3>1, <3>2, <1>5, <1>11
    <3>8. PICK x : x = s[j] OBVIOUS
    <3>4. At(c) = x BY <3>3, <3>8, <1>6, AtHolds
    <3>5. i \in 1..n BY <1>11
    <3>6. s[j] = d[i] BY <3>1, <3>5, <1>2
    <3>7. QED BY <3>2, <3>4, <3>6, <3>8
  <2>2. FourFrom(q) = [i \in 1..4 |-> d[i]] BY <2>1 DEF FourFrom
  <2>3. Len(d) = 4 BY <1>2, <1>11
  <2>4. d = [i \in 1..Len(d) |-> d[i]] BY <1>2
  <2>5. QED BY <2>2, <2>3, <2>4
<1>12. QED BY <1>1, <1>5, <1>10, <1>11

(* A record that begins in place: it is shown as it was sent if it came    *)
(* whole; if not, the walk ends behind the last byte.                      *)
LEMMA RecordRead ==
  ASSUME Arrived(msg, body), junk \in Byte, NEW k \in 1..Len(msg.answers),
         NEW b, b = k - 1, OnAnswer(msg, body, b, pos, printed)
  PROVE  LET p == skip_dns_name(pos) IN
         /\ p < 0 => body # Body(msg)
         /\ ~(p < 0) => \/ OnAnswer(msg, body, k, p + 10 + U16(p + 8), ShownWith(printed, p))
                        \/ BehindEnd(msg, body, k, p + 10 + U16(p + 8), ShownWith(printed, p))
<1>1. msg \in MessageForms /\ body \in Seq(Nat) BY DEF Arrived
<1>2. PICK r, rec, nm, a, t, d : /\ r = msg.answers[k] /\ rec = Record(r) /\ nm = Name(r.name)
                                 /\ a = AfterAnswer(msg, k - 1) /\ t = AfterAnswer(msg, k) /\ d = r.data
  OBVIOUS
<1>3. /\ r \in RecordForms /\ a \in Nat /\ t = a + Len(rec) /\ t <= Len(Body(msg))
      /\ \A j \in 1..Len(rec) : Body(msg)[a + j] = rec[j]
  BY <1>1, <1>2, AnswerAt
<1>4. r.name \in Names BY <1>3 DEF RecordForms
<1>5. PICK o, N, W \in Nat : o = Len(nm) /\ N = Len(body) /\ W = Len(Body(msg))
  BY <1>1, <1>2, <1>4, NameForm, MessageEnds, LenProperties
<1>6. d \in Seq(Nat) /\ Len(rec) = o + 10 + Len(d) /\ \A j \in 1..o : rec[j] = nm[j]
  <2>1. o = Len(Name(r.name)) BY <1>2, <1>5
  <2>2. IsRecord(rec, r, o) BY <2>1, <1>2, <1>3, RecordForm
  <2>3. QED BY <2>2, <1>2 DEF IsRecord
<1>7. PICK n \in Nat : n = Len(d) BY <1>6, LenProperties
<1>8. PICK l \in Nat : l = Len(rec) /\ l = o + 10 + n BY <1>6, <1>7
<1>9. t = a + l /\ t <= W BY <1>3, <1>5, <1>8
<1>10. Holds(a, rec)
  <2>1. ASSUME NEW j \in 1..l, a + j <= N PROVE body[a + j] = rec[j]
    <3>1. a + j \in 1..Len(body) /\ j \in 1..Len(rec) BY <1>3, <1>5, <1>8, <2>1
    <3>2. body[a + j] = Body(msg)[a + j] BY <3>1 DEF Arrived
    <3>3. QED BY <3>1, <3>2, <1>3
  <2>2. QED BY <2>1, <1>5, <1>8 DEF Holds
<1>11. Holds(a, nm)
  <2>1. ASSUME NEW j \in 1..o, a + j <= N PROVE body[a + j] = nm[j]
    <3>1. j \in 1..l BY <1>8
    <3>2. body[a + j] = rec[j] BY <3>1, <2>1, <1>5, <1>8, <1>10 DEF Holds
    <3>3. QED BY <3>2, <1>6
  <2>2. QED BY <2>1, <1>5 DEF Holds
<1>12. PICK p : p = skip_dns_name(pos) OBVIOUS
<1>13. (p = -1 \/ p = a + o) /\ (a + o <= N => p = a + o)
  <2>1. pos = a BY <1>2 DEF OnAnswer
  <2>2. QED BY <2>1, <1>1, <1>2, <1>3, <1>4, <1>5, <1>11, <1>12, SkipName
<1>14. p < 0 => body # Body(msg)
  <2>1. p < 0 => N # W BY <1>3, <1>5, <1>8, <1>9, <1>13
  <2>2. QED BY <2>1, <1>5
<1>15. PICK K : K = WholeIn(msg, body) OBVIOUS
<1>16. K \in 0..Len(msg.answers) /\ Len(msg.answers) \in Nat /\ (t <= N <=> k <= K) /\ b <= K
  <2>1. /\ K \in 0..Len(msg.answers) /\ Len(msg.answers) \in Nat
        /\ (AfterAnswer(msg, k) <= N <=> k <= K)
    BY <1>1, <1>5, <1>15, WholeCount, MessageEnds DEF WholeIn
  <2>2. b <= K BY <1>15 DEF OnAnswer
  <2>3. QED BY <2>1, <2>2, <1>2
<1>17. printed = AddressesOf(msg, b) /\ printed \in Seq(Seq(Nat))
       /\ AddressesOf(msg, k) = IF IsAddress(r) THEN Append(printed, d) ELSE printed
  <2>1. printed = AddressesOf(msg, b) BY DEF OnAnswer
  <2>2. QED BY <2>1, <1>1, <1>2, AddressesStep
<1>18. ASSUME ~(p < 0) PROVE OnAnswer(msg, body, k, p + 10 + U16(p + 8), ShownWith(printed, p))
                              \/ BehindEnd(msg, body, k, p + 10 + U16(p + 8), ShownWith(printed, p))
  <2>1. PICK q \in Nat : q = a + o BY <1>3
  <2>2. p = q BY <2>1, <1>13, <1>18
  <2>3. PICK rd, x, pr : rd = U16(q + 8) /\ x = FourFrom(q) /\ pr = ShownWith(printed, q) OBVIOUS
  <2>4. ASSUME q + 10 <= N
        PROVE  /\ U16(q) = r.type /\ U16(q + 2) = r.class /\ rd = n
               /\ n = 4 /\ q + 10 + n <= N => x = d
    <3>1. RecordUpTo(a, r, o, n, N) BY <1>2, <1>5, <1>7, <1>10 DEF RecordUpTo
    <3>2. /\ U16(a + o) = r.type /\ U16(a + o + 2) = r.class /\ U16(a + o + 8) = n
          /\ n = 4 /\ a + o + 10 + n <= N => FourFrom(a + o) = r.data
      <4>1. a + o + 10 <= N BY <2>1, <2>4
      <4>2. QED BY <3>1, <4>1, <1>1, <1>3, FieldsRead
    <3>3. QED BY <3>2, <2>1, <2>3, <1>2
  <2>5. CASE t <= N
    <3>1. q + 10 <= N /\ q + 10 + n = t BY <2>1, <2>5, <1>3, <1>8, <1>9
    <3>2. U16(q) = r.type /\ U16(q + 2) = r.class /\ rd = n /\ (n = 4 => x = d)
      BY <3>1, <2>4, <2>5
    <3>3. IsAddress(r) <=> r.type = 1 /\ r.class = 1 /\ n = 4 BY <1>2, <1>7 DEF IsAddress
    <3>4. pr = AddressesOf(msg, k)
      <4>1. pr = IF r.type = 1 /\ r.class = 1 /\ n = 4 THEN Append(printed, x) ELSE printed
        BY <3>2, <2>3 DEF ShownWith
      <4>2. CASE IsAddress(r) BY <4>1, <4>2, <3>2, <3>3, <1>17
      <4>3. CASE ~IsAddress(r) BY <4>1, <4>3, <3>3, <1>17
      <4>4. QED BY <4>2, <4>3
    <3>5. k <= K BY <2>5, <1>16
    <3>6. OnAnswer(msg, body, k, t, pr) BY <3>4, <3>5, <1>2, <1>15 DEF OnAnswer
    <3>7. q + 10 + rd = t BY <3>1, <3>2
    <3>8. QED BY <3>6, <3>7, <2>2, <2>3
  <2>6. CASE ~(t <= N)
    <3>1. rd \in Nat /\ x \in Seq(Nat) BY <1>1, <2>3, FourIsSeq
    <3>2. PICK e \in Nat : e = q + 10 + rd BY <3>1
    <3>3. e >= N
      <4>1. CASE q + 10 <= N
        <5>1. rd = n BY <4>1, <2>4
        <5>2. QED BY <5>1, <3>2, <2>1, <2>6, <1>3, <1>8, <1>9
      <4>2. CASE ~(q + 10 <= N) BY <4>2, <3>1, <3>2
      <4>3. QED BY <4>1, <4>2
    <3>4. k > K /\ K = b BY <2>6, <1>16
    <3>5. printed = AddressesOf(msg, K) BY <3>4, <1>17
    <3>6. pr = printed \/ pr = Append(printed, x) BY <2>3 DEF ShownWith
    <3>7. BehindEnd(msg, body, k, e, pr)
      BY <3>1, <3>3, <3>4, <3>5, <3>6, <1>5, <1>15 DEF BehindEnd
    <3>8. QED BY <3>2, <3>7, <2>2, <2>3
  <2>7. QED BY <2>5, <2>6
<1>19. QED BY <1>12, <1>14, <1>18
----------------------------------------------------------------------------
(* Every step keeps the invariant.                                         *)

LEMMA AskKeeps ==
  ASSUME WalkInv, Ask
  PROVE  WalkInv'
<1>1. pc = "ask" /\ msg = <<>> /\ pos = 0 /\ printed = <<>> BY DEF WalkInv, Came, Course, Ask
<1>2. msg' = <<>> /\ pos' = 0 /\ printed' = <<>> /\ (pc' = "wait" \/ pc' = "done")
  BY <1>1 DEF Ask, End
<1>3. NameFits'
  <2>1. PICK d \in Domains : qname' = encode_domain_name(d) BY DEF Ask
  <2>2. d \in Seq(Nat) BY DnsAssumption
  <2>3. Len(encode_domain_name(d)) <= NameBuf BY <2>2, EncodedFits
  <2>4. QED BY <2>1, <2>3 DEF NameFits
<1>4. Came' BY <1>2 DEF Came
<1>5. Course' BY <1>2 DEF Course
<1>6. Ended' BY <1>2 DEF Ended
<1>7. QED BY <1>3, <1>4, <1>5, <1>6 DEF WalkInv

LEMMA NothingCame ==
  ASSUME WalkInv, TimeOut \/ ReceiveFails
  PROVE  WalkInv'
<1>1. pc = "wait" /\ msg = <<>> BY DEF WalkInv, Came, TimeOut, ReceiveFails
<1>2. msg' = <<>> /\ pc' = "done" /\ qname' = qname BY <1>1 DEF TimeOut, ReceiveFails, End
<1>3. NameFits' BY <1>2 DEF WalkInv, NameFits
<1>4. Came' BY <1>2 DEF Came
<1>5. Course' BY <1>2 DEF Course
<1>6. Ended' BY <1>2 DEF Ended
<1>7. QED BY <1>3, <1>4, <1>5, <1>6 DEF WalkInv

LEMMA ReceiveKeeps ==
  ASSUME WalkInv, Receive
  PROVE  WalkInv'
<1>1. pc = "wait" /\ pos = 0 /\ printed = <<>> BY DEF WalkInv, Course, Receive
<1>2. pc' = "header" /\ qname' = qname /\ pos' = 0 /\ printed' = <<>> BY <1>1 DEF Receive
<1>3. PICK m \in Messages, cut \in Cuts, j \in Junk :
        /\ cut <= Len(Body(m))
        /\ msg' = m /\ junk' = j /\ body' = SubSeq(Body(m), 1, Len(Body(m)) - cut)
  BY DEF Receive
<1>4. PICK w, b : w = Body(m) /\ b = body' OBVIOUS
<1>5. m \in MessageForms /\ cut \in Nat /\ j \in Byte BY DnsAssumption DEF MessageForms
<1>6. w \in Seq(Nat) /\ Len(w) \in Nat BY <1>4, <1>5, MessageEnds, LenProperties
<1>7. PICK n \in Nat : n = Len(w) - cut /\ n <= Len(w) BY <1>3, <1>4, <1>5, <1>6
<1>8. b = SubSeq(w, 1, n) BY <1>3, <1>4, <1>7
<1>9. \A i \in 1..n : w[i] \in Nat
  <2>1. \A i \in 1..n : i \in 1..Len(w) BY <1>6, <1>7
  <2>2. QED BY <2>1, <1>6, ElementOfSeq
<1>10. b \in Seq(Nat) /\ Len(b) = n /\ \A i \in 1..n : b[i] = w[i]
  <2>1. /\ b \in Seq(Nat) /\ Len(b) = (IF 1 <= n THEN n - 1 + 1 ELSE 0)
        /\ \A i \in 1..n - 1 + 1 : b[i] = w[1 + i - 1]
    BY <1>8, <1>9, SubSeqProperties
  <2>2. QED BY <2>1
<1>11. Arrived(m, b) BY <1>4, <1>5, <1>7, <1>10 DEF Arrived
<1>12. Arrived(msg', body') /\ junk' \in Byte BY <1>3, <1>4, <1>5, <1>11
<1>13. NameFits' BY <1>2 DEF WalkInv, NameFits
<1>14. Came' BY <1>2, <1>12 DEF Came
<1>15. Course' BY <1>2 DEF Course
<1>16. Ended' BY <1>2 DEF Ended
<1>17. QED BY <1>13, <1>14, <1>15, <1>16 DEF WalkInv

(* What holds after a step of the parser, whichever it is.                 *)
LEMMA ParserKeeps ==
  ASSUME WalkInv, pc \in {"header", "questions", "answers"},
         UNCHANGED <<qname, msg, body, junk>>,
         \/ pc' = "questions" /\ InQuestions(msg, pos', left', printed')
         \/ pc' = "answers" /\ InAnswers(msg, body, pos', left', printed')
         \/ pc' = "done" /\ Agrees(msg, body, printed') /\ Complete(msg, body, printed', result')
  PROVE  WalkInv'
<1>1. Arrived(msg, body) /\ junk \in Byte BY DEF WalkInv, Came
<1>2. NameFits' BY DEF WalkInv, NameFits
<1>3. Came' BY <1>1 DEF Came
<1>4. Course' BY DEF Course
<1>5. Ended' BY DEF Ended
<1>6. QED BY <1>2, <1>3, <1>4, <1>5 DEF WalkInv

LEMMA HeaderKeeps ==
  ASSUME WalkInv, ParseHeader
  PROVE  WalkInv'
<1>1. pc = "header" /\ UNCHANGED <<qname, msg, body, junk, pos, printed>> BY DEF ParseHeader
<1>2. pos' = 0 /\ printed' = <<>> BY <1>1 DEF WalkInv, Course
<1>3. Arrived(msg, body) BY <1>1 DEF WalkInv, Came
<1>4. CASE msg.rcode = 3 \/ ~msg.ours
  <2>1. pc' = "done" BY <1>4 DEF ParseHeader, End
  <2>2. Agrees(msg, body, printed') BY <1>2, <1>3, AgreesEmpty
  <2>3. Complete(msg, body, printed', result') BY <1>4 DEF Complete
  <2>4. QED BY <2>1, <2>2, <2>3, <1>1, ParserKeeps
<1>5. CASE ~(msg.rcode = 3 \/ ~msg.ours)
  <2>1. pc' = "questions" /\ left' = Len(msg.questions) BY <1>5 DEF ParseHeader
  <2>2. AfterQuestion(msg, 0) = 0 /\ Len(msg.questions) \in Nat BY <1>3, MessageEnds DEF Arrived
  <2>3. PICK l \in Nat : l = Len(msg.questions) BY <2>2
  <2>4. 0 \in 0..l /\ l = l - 0 OBVIOUS
  <2>5. InQuestions(msg, pos', left', printed') BY <2>1, <2>2, <2>3, <2>4, <1>2 DEF InQuestions
  <2>6. QED BY <2>1, <2>5, <1>1, ParserKeeps
<1>6. QED BY <1>4, <1>5

LEMMA QuestionKeeps ==
  ASSUME WalkInv, SkipQuestion
  PROVE  WalkInv'
<1>1. pc = "questions" /\ UNCHANGED <<qname, msg, body, junk, printed>> BY DEF SkipQuestion
<1>2. InQuestions(msg, pos, left, printed) /\ Arrived(msg, body) BY <1>1 DEF WalkInv, Course, Came
<1>3. printed' = <<>> BY <1>1, <1>2 DEF InQuestions
<1>4. msg \in MessageForms /\ Len(body) \in Nat BY <1>2, LenProperties DEF Arrived
<1>5. PICK l \in Nat : l = Len(msg.questions) BY <1>4, MessageEnds
<1>6. PICK k \in 0..l : left = l - k /\ pos = AfterQuestion(msg, k) BY <1>2, <1>5 DEF InQuestions
<1>7. CASE left = 0
  <2>1. pc' = "answers" /\ left' = Len(msg.answers) /\ pos' = pos BY <1>7 DEF SkipQuestion
  <2>2. k = l BY <1>6, <1>7
  <2>3. AfterQuestion(msg, l) = AfterAnswer(msg, 0) /\ Len(msg.answers) \in Nat
    BY <1>4, <1>5, MessageEnds
  <2>4. PICK e \in Nat : e = Len(msg.answers) BY <2>3
  <2>5. 0 <= WholeIn(msg, body) BY <1>4, <2>4, WholeCount DEF WholeIn
  <2>6. AddressesOf(msg, 0) = <<>>
    <3>1. 0 \in 0..0 /\ 0 \in 0..Len(msg.answers) BY <2>4
    <3>2. QED BY <3>1, <1>4, AddressesGrow
  <2>7. OnAnswer(msg, body, 0, pos', printed') BY <2>1, <2>2, <2>3, <2>5, <2>6, <1>3, <1>6 DEF OnAnswer
  <2>8. 0 \in 0..e /\ e = e - 0 OBVIOUS
  <2>9. InAnswers(msg, body, pos', left', printed') BY <2>1, <2>4, <2>7, <2>8 DEF InAnswers
  <2>10. QED BY <2>1, <2>9, <1>1, ParserKeeps
<1>8. CASE left # 0
  <2>1. PICK j : j = k + 1 OBVIOUS
  <2>2. j \in 1..l /\ j \in 0..l /\ j - 1 = k /\ left - 1 = l - j BY <2>1, <1>6, <1>8
  <2>3. /\ skip_dns_name(pos) < 0 => body # Body(msg)
        /\ ~(skip_dns_name(pos) < 0) => skip_dns_name(pos) + 4 = AfterQuestion(msg, j)
    <3>1. j \in 1..Len(msg.questions) /\ pos = AfterQuestion(msg, j - 1) BY <2>2, <1>5, <1>6
    <3>2. QED BY <3>1, <1>2, QuestionSkipped
  <2>4. CASE skip_dns_name(pos) < 0
    <3>1. pc' = "done" BY <2>4, <1>8 DEF SkipQuestion, End
    <3>2. Agrees(msg, body, printed') BY <1>2, <1>3, AgreesEmpty
    <3>3. Complete(msg, body, printed', result') BY <2>3, <2>4 DEF Complete
    <3>4. QED BY <3>1, <3>2, <3>3, <1>1, ParserKeeps
  <2>5. CASE ~(skip_dns_name(pos) < 0)
    <3>1. pc' = "questions" /\ pos' = AfterQuestion(msg, j) /\ left' = l - j
      BY <2>2, <2>3, <2>5, <1>1, <1>8 DEF SkipQuestion
    <3>2. InQuestions(msg, pos', left', printed') BY <3>1, <2>2, <1>3, <1>5 DEF InQuestions
    <3>3. QED BY <3>1, <3>2, <1>1, ParserKeeps
  <2>6. QED BY <2>4, <2>5
<1>9. QED BY <1>7, <1>8

(* The walk is never behind the end of a message that came whole.          *)
LEMMA CutBehindEnd ==
  ASSUME NEW m, NEW b, Arrived(m, b), NEW k \in 0..Len(m.answers), k > WholeIn(m, b)
  PROVE  b # Body(m)
<1>1. m \in MessageForms /\ Len(b) \in Nat BY LenProperties DEF Arrived
<1>2. PICK l \in Nat : l = Len(m.answers) /\ AfterAnswer(m, l) = Len(Body(m)) BY <1>1, MessageEnds
<1>3. PICK K, n : K = WholeIn(m, b) /\ n = Len(b) OBVIOUS
<1>4. K \in 0..l /\ \A i \in 1..l : AfterAnswer(m, i) <= n <=> i <= K
  BY <1>1, <1>2, <1>3, WholeCount DEF WholeIn
<1>5. l \in 1..l /\ ~(l <= K) BY <1>2, <1>3, <1>4
<1>6. ~(Len(Body(m)) <= n) BY <1>2, <1>4, <1>5
<1>7. QED BY <1>1, <1>3, <1>6

LEMMA RecordKeeps ==
  ASSUME WalkInv, ReadRecord
  PROVE  WalkInv'
<1>1. pc = "answers" /\ UNCHANGED <<qname, msg, body, junk>> BY DEF ReadRecord
<1>2. InAnswers(msg, body, pos, left, printed) /\ Arrived(msg, body) /\ junk \in Byte
  BY <1>1 DEF WalkInv, Course, Came
<1>3. PICK l \in Nat : l = Len(msg.answers) BY <1>2, MessageEnds DEF Arrived
<1>4. PICK k \in 0..l : left = l - k /\ (OnAnswer(msg, body, k, pos, printed) \/ BehindEnd(msg, body, k, pos, printed))
  BY <1>2, <1>3 DEF InAnswers
<1>5. PICK j : j = k + 1 OBVIOUS
<1>6. j \in 1..l /\ j \in 0..l /\ j - 1 = k /\ left - 1 = l - j BY <1>4, <1>5 DEF ReadRecord
<1>7. PICK p : p = skip_dns_name(pos) OBVIOUS
<1>8. \/ p < 0 /\ pc' = "done" /\ printed' = printed
      \/ /\ ~(p < 0) /\ pc' = "answers" /\ left' = l - j
         /\ pos' = p + 10 + U16(p + 8) /\ printed' = ShownWith(printed, p)
  <2>1. CASE p < 0 BY <2>1, <1>7 DEF ReadRecord, End
  <2>2. CASE ~(p < 0)
    <3>1. /\ printed' = IF U16(p) = 1 /\ U16(p + 2) = 1 /\ U16(p + 8) = 4
                        THEN Append(printed, [i \in 1..4 |-> At(p + 9 + i)]) ELSE printed
          /\ pos' = p + 10 + U16(p + 8) /\ left' = left - 1 /\ pc' = pc
      BY <2>2, <1>7 DEF ReadRecord
    <3>2. printed' = ShownWith(printed, p) BY <3>1 DEF ShownWith, FourFrom
    <3>3. QED BY <3>1, <3>2, <2>2, <1>1, <1>6
  <2>3. QED BY <2>1, <2>2
<1>9. /\ p < 0 => body # Body(msg)
      /\ ~(p < 0) => OnAnswer(msg, body, j, pos', printed') \/ BehindEnd(msg, body, j, pos', printed')
  <2>1. CASE OnAnswer(msg, body, k, pos, printed)
    <3>1. j \in 1..Len(msg.answers) /\ k = j - 1 BY <1>3, <1>6
    <3>2. /\ p < 0 => body # Body(msg)
          /\ ~(p < 0) => \/ OnAnswer(msg, body, j, p + 10 + U16(p + 8), ShownWith(printed, p))
                         \/ BehindEnd(msg, body, j, p + 10 + U16(p + 8), ShownWith(printed, p))
      BY <3>1, <2>1, <1>2, <1>7, RecordRead
    <3>3. QED BY <3>2, <1>8
  <2>2. CASE BehindEnd(msg, body, k, pos, printed)
    <3>1. p = -1
      <4>1. pos \in Nat /\ pos >= Len(body) /\ body \in Seq(Nat) BY <2>2, <1>2 DEF BehindEnd, Arrived
      <4>2. QED BY <4>1, <1>7, SkipStep
    <3>2. k > WholeIn(msg, body) BY <2>2 DEF BehindEnd
    <3>3. body # Body(msg) BY <3>2, <1>2, <1>3, CutBehindEnd
    <3>4. QED BY <3>1, <3>3
  <2>3. QED BY <2>1, <2>2, <1>4
<1>10. CASE p < 0
  <2>1. pc' = "done" /\ printed' = printed BY <1>8, <1>10
  <2>2. Agrees(msg, body, printed') BY <2>1, <1>2, AgreesInAnswers
  <2>3. Complete(msg, body, printed', result') BY <1>9, <1>10 DEF Complete
  <2>4. QED BY <2>1, <2>2, <2>3, <1>1, ParserKeeps
<1>11. CASE ~(p < 0)
  <2>1. pc' = "answers" /\ left' = l - j BY <1>8, <1>11
  <2>2. InAnswers(msg, body, pos', left', printed') BY <2>1, <1>3, <1>6, <1>9, <1>11 DEF InAnswers
  <2>3. QED BY <2>1, <2>2, <1>1, ParserKeeps
<1>12. QED BY <1>10, <1>11

LEMMA FinishKeeps ==
  ASSUME WalkInv, Finish
  PROVE  WalkInv'
<1>1. /\ pc = "answers" /\ left = 0 /\ pc' = "done" /\ result' = "ok"
      /\ UNCHANGED <<qname, msg, body, junk, printed>>
  BY DEF Finish, End
<1>2. InAnswers(msg, body, pos, left, printed) /\ Arrived(msg, body)
  BY <1>1 DEF WalkInv, Course, Came
<1>3. msg \in MessageForms BY <1>2 DEF Arrived
<1>4. PICK l \in Nat : l = Len(msg.answers) BY <1>3, MessageEnds
<1>5. PICK k \in 0..l : left = l - k /\ (OnAnswer(msg, body, k, pos, printed) \/ BehindEnd(msg, body, k, pos, printed))
  BY <1>2, <1>4 DEF InAnswers
<1>6. k = l BY <1>1, <1>5
<1>7. Agrees(msg, body, printed') BY <1>1, <1>2, AgreesInAnswers
<1>8. Complete(msg, body, printed', result')
  <2>1. CASE OnAnswer(msg, body, k, pos, printed)
    <3>1. printed = AddressesOf(msg, l) BY <2>1, <1>6 DEF OnAnswer
    <3>2. l \in 0..Len(msg.answers) /\ 0 \in 0..l BY <1>4
    <3>3. AddressesOf(msg, Len(msg.answers)) = Addresses(msg.answers) BY <3>2, <1>3, AddressesGrow
    <3>4. QED BY <3>1, <3>3, <1>1, <1>4 DEF Complete
  <2>2. CASE BehindEnd(msg, body, k, pos, printed)
    <3>1. k > WholeIn(msg, body) BY <2>2 DEF BehindEnd
    <3>2. body # Body(msg) BY <3>1, <1>2, <1>4, CutBehindEnd
    <3>3. QED BY <3>2 DEF Complete
  <2>3. QED BY <2>1, <2>2, <1>5
<1>9. QED BY <1>1, <1>7, <1>8, ParserKeeps

(* The walk over the answer is in step with what was sent as far as it     *)
(* came (dns.c:101-212).                                                   *)
THEOREM WalkInvariant == Spec => []WalkInv
<1>1. Init => WalkInv
  <2>1. SUFFICES ASSUME Init PROVE WalkInv OBVIOUS
  <2>2. Len(qname) = 0 /\ NameBuf \in Nat BY <2>1, DnsAssumption DEF Init
  <2>3. NameFits BY <2>2 DEF NameFits
  <2>4. Came BY <2>1 DEF Init, Came
  <2>5. Course BY <2>1 DEF Init, Course
  <2>6. Ended BY <2>1 DEF Init, Ended
  <2>7. QED BY <2>3, <2>4, <2>5, <2>6 DEF WalkInv
<1>2. WalkInv /\ [Next]_vars => WalkInv'
  <2>1. SUFFICES ASSUME WalkInv, [Next]_vars PROVE WalkInv' OBVIOUS
  <2>2. CASE Ask BY <2>1, <2>2, AskKeeps
  <2>3. CASE Receive BY <2>1, <2>3, ReceiveKeeps
  <2>4. CASE TimeOut \/ ReceiveFails BY <2>1, <2>4, NothingCame
  <2>5. CASE ParseHeader BY <2>1, <2>5, HeaderKeeps
  <2>6. CASE SkipQuestion BY <2>1, <2>6, QuestionKeeps
  <2>7. CASE ReadRecord BY <2>1, <2>7, RecordKeeps
  <2>8. CASE Finish BY <2>1, <2>8, FinishKeeps
  <2>9. CASE UNCHANGED vars
    <3>1. NameFits' BY <2>1, <2>9 DEF WalkInv, NameFits, vars
    <3>2. Came' BY <2>1, <2>9 DEF WalkInv, Came, vars
    <3>3. Course' BY <2>1, <2>9 DEF WalkInv, Course, vars
    <3>4. Ended' BY <2>1, <2>9 DEF WalkInv, Ended, vars
    <3>5. QED BY <3>1, <3>2, <3>3, <3>4 DEF WalkInv
  <2>10. Rest => UNCHANGED vars BY DEF Rest
  <2>11. QED BY <2>1, <2>2, <2>3, <2>4, <2>5, <2>6, <2>7, <2>8, <2>9, <2>10 DEF Next
<1>3. QED BY <1>1, <1>2, PTL DEF Spec

(* The encoded name fits the buffer it is put in, and what is printed are  *)
(* the addresses that came, in order, to the last of them if the message   *)
(* is whole, with at most one made up (dns.c:57-71, dns.c:151-194).        *)
THEOREM SoundHolds == Spec => []Sound
<1>1. WalkInv => Sound BY WalkImpliesPrints
<1>2. QED BY <1>1, WalkInvariant, PTL
=============================================================================
