-------------------------- MODULE RegionPagesProofs --------------------------
(***************************************************************************)
(* Proofs about RegionPages, for any number of threads, regions and lists, *)
(* any number of pages and every size of groups, up to the first deletion  *)
(* that takes an object of another region for its own header.              *)
(***************************************************************************)
EXTENDS RegionPages, SequenceTheorems, FiniteSetTheorems, TLAPS

-----------------------------------------------------------------------------
(* Pages 1 .. n in places P: S[q] are the pages in place q, in order.      *)

OnePlaceEach(P, S, n) ==
  /\ \A q \in P : S[q] \in Seq(1 .. n)
  /\ \A q1, q2 \in P : \A i \in 1 .. Len(S[q1]), j \in 1 .. Len(S[q2]) :
       S[q1][i] = S[q2][j] => q1 = q2 /\ i = j
  /\ \A p \in 1 .. n : \E q \in P : \E i \in 1 .. Len(S[q]) : S[q][i] = p

LEMMA OnlyThere ==
  ASSUME NEW P, NEW S, NEW n, OnePlaceEach(P, S, n), NEW q1 \in P, NEW q2 \in P,
         NEW i \in 1 .. Len(S[q1]), NEW j \in 1 .. Len(S[q2]),
         S[q1][i] = S[q2][j]
  PROVE  q1 = q2 /\ i = j
<1>1. \A k \in 1 .. Len(S[q1]), l \in 1 .. Len(S[q2]) :
        S[q1][k] = S[q2][l] => q1 = q2 /\ k = l
  BY Zenon DEF OnePlaceEach
<1> QED
  BY <1>1, Zenon

LEMMA FrontOf ==
  ASSUME NEW T, NEW s \in Seq(T), NEW x \in T
  PROVE  /\ <<x>> \o s \in Seq(T) /\ Len(<<x>> \o s) = Len(s) + 1
         /\ <<x>> \o s # <<>>
         /\ (<<x>> \o s)[1] = x /\ Head(<<x>> \o s) = x /\ Tail(<<x>> \o s) = s
         /\ \A i \in 2 .. (Len(s) + 1) : (<<x>> \o s)[i] = s[i - 1]
<1>1. <<x>> \in Seq(T) /\ Len(<<x>>) = 1 /\ <<x>>[1] = x
  OBVIOUS
<1>2. Len(s) \in Nat
  BY LenProperties
<1>3. /\ <<x>> \o s \in Seq(T) /\ Len(<<x>> \o s) = Len(s) + 1
      /\ \A i \in 1 .. Len(s) + 1 :
           (<<x>> \o s)[i] = IF i <= 1 THEN <<x>>[i] ELSE s[i - 1]
  BY <1>1, ConcatProperties
<1>4. <<x>> \o s # <<>>
  BY <1>2, <1>3, EmptySeq
<1>5. (<<x>> \o s)[1] = x
  BY <1>1, <1>2, <1>3
<1>6. Head(<<x>> \o s) = x
  BY <1>3, <1>4, <1>5
<1>7. Tail(<<x>> \o s) = s
  <2>1. /\ Tail(<<x>> \o s) \in Seq(T) /\ Len(Tail(<<x>> \o s)) = Len(s)
        /\ \A i \in 1 .. Len(s) : Tail(<<x>> \o s)[i] = (<<x>> \o s)[i + 1]
    BY <1>2, <1>3, <1>4, HeadTailProperties
  <2>2. \A i \in 1 .. Len(s) : (<<x>> \o s)[i + 1] = s[i]
    BY <1>2, <1>3
  <2> QED
    BY <2>1, <2>2, SeqEqual
<1> QED
  BY <1>2, <1>3, <1>4, <1>5, <1>6, <1>7

LEMMA RestOf ==
  ASSUME NEW T, NEW s \in Seq(T), s # <<>>
  PROVE  /\ Head(s) \in T /\ Head(s) = s[1]
         /\ Tail(s) \in Seq(T) /\ Len(s) \in Nat \ {0} /\ Len(Tail(s)) = Len(s) - 1
         /\ \A i \in 1 .. (Len(s) - 1) : Tail(s)[i] = s[i + 1]
<1>1. /\ Head(s) \in T /\ Tail(s) \in Seq(T) /\ Len(Tail(s)) = Len(s) - 1
      /\ \A i \in 1 .. Len(Tail(s)) : Tail(s)[i] = s[i + 1]
  BY HeadTailProperties
<1>2. Len(s) \in Nat \ {0}
  BY EmptySeq
<1>3. Head(s) = s[1]
  OBVIOUS
<1> QED
  BY <1>1, <1>2, <1>3

\* The first page of one place becomes the first of another.
LEMMA MoveFirst ==
  ASSUME NEW P, NEW n \in Nat, NEW S, NEW S2, OnePlaceEach(P, S, n),
         NEW a \in P, NEW b \in P, a # b, S[a] # <<>>,
         S2[a] = Tail(S[a]), S2[b] = <<Head(S[a])>> \o S[b],
         \A q \in P \ {a, b} : S2[q] = S[q]
  PROVE  OnePlaceEach(P, S2, n)
<1>1. \A q \in P : S[q] \in Seq(1 .. n) /\ Len(S[q]) \in Nat
  BY LenProperties DEF OnePlaceEach
<1>2. /\ Head(S[a]) \in 1 .. n /\ Head(S[a]) = S[a][1]
      /\ S2[a] \in Seq(1 .. n) /\ Len(S[a]) \in Nat \ {0} /\ Len(S2[a]) = Len(S[a]) - 1
      /\ \A i \in 1 .. (Len(S[a]) - 1) : S2[a][i] = S[a][i + 1]
  <2>1. S[a] \in Seq(1 .. n) /\ S[a] # <<>>
    BY <1>1
  <2>2. /\ Head(S[a]) \in 1 .. n /\ Head(S[a]) = S[a][1]
        /\ Tail(S[a]) \in Seq(1 .. n) /\ Len(S[a]) \in Nat \ {0}
        /\ Len(Tail(S[a])) = Len(S[a]) - 1
        /\ \A i \in 1 .. (Len(S[a]) - 1) : Tail(S[a])[i] = S[a][i + 1]
    BY <2>1, RestOf, Zenon
  <2> QED
    BY <2>2
<1>3. /\ S2[b] \in Seq(1 .. n) /\ Len(S2[b]) = Len(S[b]) + 1
      /\ S2[b][1] = S[a][1]
      /\ \A i \in 2 .. (Len(S[b]) + 1) : S2[b][i] = S[b][i - 1]
  BY <1>1, <1>2, FrontOf
<1> DEFINE from(q, i) == IF q = a THEN a ELSE IF q = b /\ i = 1 THEN a ELSE q
           at(q, i) == IF q = a THEN i + 1
                       ELSE IF q # b THEN i ELSE IF i = 1 THEN 1 ELSE i - 1
<1>4. ASSUME NEW q \in P, NEW i \in 1 .. Len(S2[q])
      PROVE  /\ from(q, i) \in P /\ at(q, i) \in 1 .. Len(S[from(q, i)])
             /\ S2[q][i] = S[from(q, i)][at(q, i)]
  <2>1. CASE q = a
    <3>1. i \in 1 .. (Len(S[a]) - 1) /\ i + 1 \in 1 .. Len(S[a])
      <4>1. Len(S[a]) \in Nat /\ i \in 1 .. (Len(S[a]) - 1)
        BY <1>2, <2>1
      <4> QED
        BY <4>1
    <3>2. S2[a][i] = S[a][i + 1]
      BY <1>2, <3>1
    <3> QED
      BY <2>1, <3>1, <3>2
  <2>2. CASE q = b
    <3>1. CASE i = 1
      BY <1>2, <1>3, <2>2, <3>1
    <3>2. CASE i # 1
      <4>1. Len(S[b]) \in Nat /\ i \in 1 .. (Len(S[b]) + 1)
        BY <1>1, <1>3, <2>2
      <4>2. i \in 2 .. (Len(S[b]) + 1) /\ i - 1 \in 1 .. Len(S[b])
        BY <4>1, <3>2
      <4> QED
        BY <1>3, <2>2, <3>2, <4>2
    <3> QED
      BY <3>1, <3>2
  <2>3. CASE q \notin {a, b}
    BY <1>1, <2>3
  <2> QED
    BY <2>1, <2>2, <2>3
<1>5. \A q \in P : S2[q] \in Seq(1 .. n)
  BY <1>1, <1>2, <1>3
<1>6. ASSUME NEW q1 \in P, NEW q2 \in P, NEW i \in 1 .. Len(S2[q1]),
             NEW j \in 1 .. Len(S2[q2]), S2[q1][i] = S2[q2][j]
      PROVE  q1 = q2 /\ i = j
  <2>1. from(q1, i) = from(q2, j) /\ at(q1, i) = at(q2, j)
    <3>1. S[from(q1, i)][at(q1, i)] = S[from(q2, j)][at(q2, j)]
      BY <1>4, <1>6
    <3>2. from(q1, i) \in P /\ from(q2, j) \in P
      BY <1>4
    <3>3. at(q1, i) \in 1 .. Len(S[from(q1, i)]) /\ at(q2, j) \in 1 .. Len(S[from(q2, j)])
      BY <1>4
    <3>4. PICK f1, f2, k1, k2 : /\ f1 = from(q1, i) /\ f2 = from(q2, j)
                                /\ k1 = at(q1, i) /\ k2 = at(q2, j)
      OBVIOUS
    <3> HIDE DEF from, at
    <3>5. /\ f1 \in P /\ f2 \in P /\ k1 \in 1 .. Len(S[f1]) /\ k2 \in 1 .. Len(S[f2])
          /\ S[f1][k1] = S[f2][k2]
      BY <3>1, <3>2, <3>3, <3>4
    <3>6. f1 = f2 /\ k1 = k2
      BY <3>5, OnlyThere, SMT
    <3> QED
      BY <3>4, <3>6
  <2>2. i \in Nat \ {0} /\ j \in Nat \ {0}
    BY <1>5, LenProperties
  <2> QED
    BY <2>1, <2>2
<1>7. ASSUME NEW p \in 1 .. n
      PROVE  \E q \in P : \E i \in 1 .. Len(S2[q]) : S2[q][i] = p
  <2>1. PICK q \in P : \E i \in 1 .. Len(S[q]) : S[q][i] = p
    BY DEF OnePlaceEach
  <2>2. PICK i \in 1 .. Len(S[q]) : S[q][i] = p
    BY <2>1
  <2>3. CASE q = a /\ i = 1
    <3>1. 1 \in 1 .. Len(S2[b]) /\ S2[b][1] = p
      BY <1>1, <1>3, <2>2, <2>3
    <3> QED
      BY <3>1
  <2>4. CASE q = a /\ i # 1
    <3>1. i - 1 \in 1 .. (Len(S[a]) - 1) /\ (i - 1) + 1 = i
      BY <1>2, <2>4
    <3>2. S2[a][i - 1] = p
      BY <1>2, <2>2, <2>4, <3>1
    <3> QED
      BY <1>2, <3>1, <3>2
  <2>5. CASE q = b
    <3>1. i + 1 \in 2 .. (Len(S[b]) + 1) /\ (i + 1) - 1 = i /\ i + 1 \in 1 .. Len(S2[b])
      BY <1>1, <1>3, <2>5
    <3>2. S2[b][i + 1] = p
      BY <1>3, <2>2, <2>5, <3>1
    <3> QED
      BY <3>1, <3>2
  <2>6. CASE q \notin {a, b}
    BY <2>2, <2>6
  <2> QED
    BY <2>3, <2>4, <2>5, <2>6
<1> QED
  BY <1>5, <1>6, <1>7 DEF OnePlaceEach

\* All pages of one place go to an empty one.
LEMMA MoveAll ==
  ASSUME NEW P, NEW n \in Nat, NEW S, NEW S2, OnePlaceEach(P, S, n),
         NEW a \in P, NEW b \in P, a # b, S[b] = <<>>,
         S2[a] = <<>>, S2[b] = S[a],
         \A q \in P \ {a, b} : S2[q] = S[q]
  PROVE  OnePlaceEach(P, S2, n)
<1> DEFINE from(q) == IF q = b THEN a ELSE q
<1>1. \A q \in P : S2[q] \in Seq(1 .. n)
  BY EmptySeq DEF OnePlaceEach
<1>2. \A i \in 1 .. Len(<<>>) : FALSE
  OBVIOUS
<1>3. ASSUME NEW q \in P, NEW i \in 1 .. Len(S2[q])
      PROVE  q # a /\ from(q) \in P /\ S2[q] = S[from(q)]
  BY <1>2
<1>4. ASSUME NEW q1 \in P, NEW q2 \in P, NEW i \in 1 .. Len(S2[q1]),
             NEW j \in 1 .. Len(S2[q2]), S2[q1][i] = S2[q2][j]
      PROVE  q1 = q2 /\ i = j
  <2>1. from(q1) = from(q2) /\ i = j
    <3>1. /\ from(q1) \in P /\ S2[q1] = S[from(q1)]
          /\ from(q2) \in P /\ S2[q2] = S[from(q2)]
      BY <1>3
    <3> HIDE DEF from
    <3>2. /\ i \in 1 .. Len(S[from(q1)]) /\ j \in 1 .. Len(S[from(q2)])
          /\ S[from(q1)][i] = S[from(q2)][j]
      BY <3>1, <1>4
    <3>3. PICK f1, f2 : f1 = from(q1) /\ f2 = from(q2)
      OBVIOUS
    <3>4. /\ f1 \in P /\ f2 \in P /\ i \in 1 .. Len(S[f1]) /\ j \in 1 .. Len(S[f2])
          /\ S[f1][i] = S[f2][j]
      BY <3>1, <3>2, <3>3
    <3>5. f1 = f2 /\ i = j
      BY <3>4, OnlyThere, SMT
    <3> QED
      BY <3>3, <3>5
  <2> QED
    BY <1>3, <2>1
<1>5. ASSUME NEW p \in 1 .. n
      PROVE  \E q \in P : \E i \in 1 .. Len(S2[q]) : S2[q][i] = p
  <2>1. PICK q \in P : \E i \in 1 .. Len(S[q]) : S[q][i] = p
    BY DEF OnePlaceEach
  <2>2. CASE q = a
    BY <2>1, <2>2
  <2>3. CASE q # a
    BY <1>2, <2>1, <2>3
  <2> QED
    BY <2>2, <2>3
<1> QED
  BY <1>1, <1>4, <1>5 DEF OnePlaceEach

\* New pages go to one place, in descending order, in front of what it has.
Descending(s, n, m) ==
  /\ s \in Seq(1 .. (n + m)) /\ Len(s) = m
  /\ \A i \in 1 .. m : s[i] = n + m + 1 - i

PutBefore(P, S, S2, a, s) ==
  S2[a] = s \o S[a] /\ \A q \in P \ {a} : S2[q] = S[q]

LEMMA AddPages ==
  ASSUME NEW P, NEW n \in Nat, NEW S, NEW S2, OnePlaceEach(P, S, n),
         NEW a \in P, NEW m \in Nat,
         NEW new, Descending(new, n, m),
         PutBefore(P, S, S2, a, new)
  PROVE  OnePlaceEach(P, S2, n + m)
<1>0. S2[a] = new \o S[a] /\ \A q \in P \ {a} : S2[q] = S[q]
  BY DEF PutBefore
<1> USE <1>0
<1>1. \A q \in P : S[q] \in Seq(1 .. n) /\ Len(S[q]) \in Nat
  BY LenProperties DEF OnePlaceEach
<1>2. \A q \in P : S[q] \in Seq(1 .. (n + m))
  <2>1. 1 .. n \subseteq 1 .. (n + m)
    OBVIOUS
  <2> QED
    BY <1>1, <2>1, SeqMonotonic
<1>3. /\ S2[a] \in Seq(1 .. (n + m)) /\ Len(S2[a]) = m + Len(S[a])
      /\ \A i \in 1 .. m + Len(S[a]) :
           S2[a][i] = IF i <= m THEN new[i] ELSE S[a][i - m]
  <2>1. S[a] \in Seq(1 .. (n + m))
    BY <1>2
  <2>2. /\ new \o S[a] \in Seq(1 .. (n + m)) /\ Len(new \o S[a]) = Len(new) + Len(S[a])
        /\ \A i \in 1 .. Len(new) + Len(S[a]) :
             (new \o S[a])[i] = IF i <= Len(new) THEN new[i] ELSE S[a][i - Len(new)]
    BY <2>1, ConcatProperties DEF Descending
  <2> QED
    BY <2>2 DEF Descending
<1>4. \A i \in 1 .. m : S2[a][i] = n + m + 1 - i
  BY <1>1, <1>3 DEF Descending
<1>5. \A i \in (m + 1) .. (m + Len(S[a])) : S2[a][i] = S[a][i - m] /\ i - m \in 1 .. Len(S[a])
  BY <1>1, <1>3
<1>6. \A q \in P : S2[q] \in Seq(1 .. (n + m))
  BY <1>2, <1>3
<1> DEFINE old(q, i) == q # a \/ i > m
           at(q, i) == IF q = a THEN i - m ELSE i
<1>7. ASSUME NEW q \in P, NEW i \in 1 .. Len(S2[q])
      PROVE  /\ i \in Nat
             /\ old(q, i) => /\ at(q, i) \in 1 .. Len(S[q])
                             /\ S2[q][i] = S[q][at(q, i)] /\ S2[q][i] \in 1 .. n
             /\ ~old(q, i) => q = a /\ i \in 1 .. m /\ S2[q][i] = n + m + 1 - i
  <2>1. CASE q # a
    <3>1. S2[q] = S[q] /\ i \in 1 .. Len(S[q])
      BY <2>1
    <3>2. S[q][i] \in 1 .. n
      BY <1>1, <3>1, ElementOfSeq
    <3>3. i \in Nat
      BY <1>1, <3>1
    <3>4. at(q, i) = i /\ old(q, i)
      BY <2>1
    <3> HIDE DEF at, old
    <3> QED
      BY <3>1, <3>2, <3>3, <3>4
  <2>2. CASE q = a /\ i > m
    <3>1. i \in (m + 1) .. (m + Len(S[a]))
      BY <1>1, <1>3, <2>2
    <3>2. S2[a][i] = S[a][i - m] /\ i - m \in 1 .. Len(S[a])
      BY <1>5, <3>1
    <3>3. S[a][i - m] \in 1 .. n
      BY <1>1, <3>2, ElementOfSeq
    <3>4. at(q, i) = i - m /\ old(q, i) /\ q = a
      BY <2>2
    <3>5. i \in Nat
      BY <1>1, <3>1
    <3> HIDE DEF at, old
    <3> QED
      BY <3>2, <3>3, <3>4, <3>5
  <2>3. CASE q = a /\ ~(i > m)
    <3>1. i \in 1 .. m
      BY <1>1, <1>3, <2>3
    <3>2. S2[a][i] = n + m + 1 - i
      BY <1>4, <3>1
    <3>3. ~old(q, i) /\ q = a
      BY <2>3
    <3>4. i \in Nat
      BY <3>1
    <3> HIDE DEF at, old
    <3> QED
      BY <3>1, <3>2, <3>3, <3>4
  <2> QED
    BY <2>1, <2>2, <2>3
<1>8. ASSUME NEW q1 \in P, NEW q2 \in P, NEW i \in 1 .. Len(S2[q1]),
             NEW j \in 1 .. Len(S2[q2]), S2[q1][i] = S2[q2][j]
      PROVE  q1 = q2 /\ i = j
  <2>1. CASE old(q1, i) /\ old(q2, j)
    <3>1. /\ at(q1, i) \in 1 .. Len(S[q1]) /\ at(q2, j) \in 1 .. Len(S[q2])
          /\ S[q1][at(q1, i)] = S[q2][at(q2, j)]
      BY <1>7, <1>8, <2>1
    <3>2. q1 = q2 /\ at(q1, i) = at(q2, j)
      <4>1. PICK k1, k2 : k1 = at(q1, i) /\ k2 = at(q2, j)
        OBVIOUS
      <4> HIDE DEF at
      <4>2. k1 \in 1 .. Len(S[q1]) /\ k2 \in 1 .. Len(S[q2]) /\ S[q1][k1] = S[q2][k2]
        BY <3>1, <4>1
      <4>3. q1 = q2 /\ k1 = k2
        BY <4>2, OnlyThere, SMT
      <4> QED
        BY <4>1, <4>3
    <3>3. i \in Nat /\ j \in Nat
      BY <1>7
    <3> QED
      BY <3>2, <3>3
  <2>2. CASE ~old(q1, i) /\ ~old(q2, j)
    <3>1. /\ q1 = a /\ q2 = a /\ i \in 1 .. m /\ j \in 1 .. m
          /\ n + m + 1 - i = n + m + 1 - j
      BY <1>7, <1>8, <2>2
    <3> QED
      BY <3>1
  <2>3. CASE ~(old(q1, i) <=> old(q2, j))
    <3>1. ASSUME NEW k \in 1 .. m PROVE n + m + 1 - k \notin 1 .. n
      OBVIOUS
    <3> QED
      BY <1>7, <1>8, <2>3, <3>1
  <2> QED
    BY <2>1, <2>2, <2>3
<1>9. ASSUME NEW p \in 1 .. (n + m)
       PROVE  \E q \in P : \E i \in 1 .. Len(S2[q]) : S2[q][i] = p
  <2>1. CASE p \in 1 .. n
    <3>1. PICK q \in P : \E i \in 1 .. Len(S[q]) : S[q][i] = p
      BY <2>1 DEF OnePlaceEach
    <3>2. PICK i \in 1 .. Len(S[q]) : S[q][i] = p
      BY <3>1
    <3>3. CASE q # a
      BY <3>2, <3>3
    <3>4. CASE q = a
      <4>1. /\ i + m \in (m + 1) .. (m + Len(S[a])) /\ (i + m) - m = i
            /\ i + m \in 1 .. Len(S2[a])
        BY <1>1, <1>3, <3>2, <3>4
      <4>2. S2[a][i + m] = p
        BY <1>5, <3>2, <3>4, <4>1
      <4> QED
        BY <4>1, <4>2
    <3> QED
      BY <3>3, <3>4
  <2>2. CASE p \notin 1 .. n
    <3>1. n + m + 1 - p \in 1 .. m /\ n + m + 1 - (n + m + 1 - p) = p
      BY <2>2
    <3>2. S2[a][n + m + 1 - p] = p
      BY <1>4, <3>1
    <3>3. n + m + 1 - p \in 1 .. Len(S2[a])
      BY <1>1, <1>3, <3>1
    <3> QED
      BY <3>2, <3>3
  <2> QED
    BY <2>1, <2>2
<1> QED
  BY <1>1, <1>3, <1>6, <1>8, <1>9 DEF OnePlaceEach

\* A place holds at most all pages.
LEMMA AtMostAll ==
  ASSUME NEW P, NEW n \in Nat, NEW S, OnePlaceEach(P, S, n), NEW q \in P
  PROVE  Len(S[q]) \in 0 .. n
<1>1. S[q] \in Seq(1 .. n) /\ Len(S[q]) \in Nat
  BY LenProperties DEF OnePlaceEach
<1>2. S[q] \in [1 .. Len(S[q]) -> 1 .. n]
  BY <1>1, LenProperties
<1>3. S[q] \in Injection(1 .. Len(S[q]), 1 .. n)
  <2>1. \A i, j \in 1 .. Len(S[q]) : S[q][i] = S[q][j] => i = j
    <3> SUFFICES ASSUME NEW i \in 1 .. Len(S[q]), NEW j \in 1 .. Len(S[q]),
                        S[q][i] = S[q][j]
                 PROVE  i = j
      OBVIOUS
    <3> QED
      BY OnlyThere, Zenon
  <2> QED
    BY <1>2, <2>1 DEF Injection, IsInjective
<1>4. IsFiniteSet(1 .. n) /\ Cardinality(1 .. n) = n
  BY FS_Interval
<1>5. Cardinality(1 .. Len(S[q])) = Len(S[q])
  BY <1>1, FS_Interval
<1>6. Cardinality(1 .. Len(S[q])) <= Cardinality(1 .. n)
  BY <1>3, <1>4, FS_Injection
<1> QED
  BY <1>1, <1>4, <1>5, <1>6

-----------------------------------------------------------------------------
(* The inductive invariant *)

Places == ({"list"} \X Lists) \cup ({"region"} \X Regions)
          \cup ({"rest"} \X Threads) \cup ({"hand"} \X Threads)

\* The pages in each place; a thread that links a page to a list has it in hand.
Content ==
  [q \in Places |->
     IF q[1] = "list" THEN list[q[2]]
     ELSE IF q[1] = "region" THEN pages[q[2]]
     ELSE IF q[1] = "rest" THEN rest[q[2]]
     ELSE IF pc[q[2]] = "link" THEN <<Head(chain[q[2]])>> ELSE <<>>]

HomeInv == OnePlaceEach(Places, Content, obtained)

\* Pages are counted in the step that moves them.
CountInv == \A l \in Lists : page_count[l] = Len(list[l])

\* One thread at a time works on a region, or on a list,
UserInv ==
  \A t \in Threads :
    /\ pc[t] = "idle" <=> r[t] = None
    /\ \A u \in Threads : r[t] # None /\ r[u] = r[t] => u = t
    /\ pc[t] \in {"alloc", "unlink", "free", "link"} =>
         list_id[t] \in Lists /\ lock[list_id[t]] = t

\* so that what it loaded from the list, and what it found in the region, is
\* still true.
UpToDate(t) ==
  /\ pc[t] \in {"take", "alloc", "unlink"} =>
       life[r[t]] # "deleted" /\ Len(pages[r[t]]) < MaxPages
  /\ pc[t] \in {"give", "free"} => rest[t] # <<>>
  /\ pc[t] \notin {"give", "free", "link"} => rest[t] = <<>>
  /\ pc[t] \in {"give", "free", "link", "bigpages", "parent"} => header[t] \in Pages
  /\ pc[t] = "unlink" => chain[t] # <<>> /\ chain[t] = list[list_id[t]]
  /\ pc[t] = "link" => chain[t] # <<>> /\ Tail(chain[t]) = list[list_id[t]]

WorkInv == \A t \in Threads : UpToDate(t)

\* All of it, as long as no deletion took an object for its header; the pages
\* of HomeInv are what such a deletion brings out of place.
Sound == TypeOK /\ UserInv /\ WorkInv /\ CountInv /\ HomeInv

IInv == TypeOK /\ UserInv /\ WorkInv /\ CountInv /\ (~stale => HomeInv)

LEMMA InitIInv == Init => IInv
<1> SUFFICES ASSUME Init PROVE IInv
  OBVIOUS
<1> USE RegionAssumption DEF Init
<1>1. <<>> \in Seq(Pages) /\ Len(<<>>) = 0 /\ <<>> \in Seq(1 .. 0)
  BY EmptySeq
<1>2. TypeOK
  <2>1. pc \in [Threads -> {"idle", "take", "alloc", "unlink", "give", "free",
                            "link", "bigpages", "parent"}]
    OBVIOUS
  <2>2. /\ list \in [Lists -> Seq(Pages)] /\ page_count \in [Lists -> 0 .. MaxObtained]
        /\ obtained \in 0 .. MaxObtained /\ pages \in [Regions -> Seq(Pages)]
        /\ chain \in [Threads -> Seq(Pages)] /\ rest \in [Threads -> Seq(Pages)]
    BY <1>1
  <2>3. \A x \in Regions : Len(pages[x]) <= MaxPages /\ (life[x] = "live" <=> pages[x] # <<>>)
    BY <1>1
  <2> QED
    BY <2>1, <2>2, <2>3 DEF TypeOK
<1>3. UserInv /\ WorkInv
  BY DEF UserInv, WorkInv, UpToDate
<1>4. CountInv
  BY <1>1 DEF CountInv
<1>5. HomeInv
  <2>1. \A q \in Places : Content[q] = <<>>
    BY DEF Content, Places
  <2>2. \A i \in 1 .. Len(<<>>) : FALSE
    BY <1>1
  <2>3. \A p \in 1 .. 0 : FALSE
    OBVIOUS
  <2> QED
    BY <1>1, <2>1, <2>2, <2>3 DEF HomeInv, OnePlaceEach
<1> QED
  BY <1>2, <1>3, <1>4, <1>5 DEF IInv

\* A step that leaves the pages where they are.
LEMMA SameHomes ==
  ASSUME HomeInv, UNCHANGED <<list, pages, rest, obtained>>,
         \A t \in Threads : /\ pc'[t] = "link" <=> pc[t] = "link"
                            /\ pc[t] = "link" => chain'[t] = chain[t]
  PROVE  HomeInv'
<1>1. Content' = Content
  BY DEF Content, Places
<1> QED
  BY <1>1 DEF HomeInv, OnePlaceEach

\* What thread t does leaves alone what others work with, if it changes only
\* its region and a list it has the lock of.
LEMMA OthersWork ==
  ASSUME TypeOK, UserInv, WorkInv, NEW t \in Threads,
         \A u \in Threads \ {t} :
           /\ pc'[u] = pc[u] /\ r'[u] = r[u] /\ list_id'[u] = list_id[u]
           /\ chain'[u] = chain[u] /\ rest'[u] = rest[u] /\ header'[u] = header[u],
         \A l \in Lists : list'[l] = list[l] \/ lock[l] = t,
         \A x \in Regions :
           \/ life'[x] = life[x] /\ pages'[x] = pages[x]
           \/ r[t] = x
           \/ \A u \in Threads : r[u] # x,
         UpToDate(t)'
  PROVE  WorkInv'
<1> SUFFICES ASSUME NEW u \in Threads, u # t PROVE UpToDate(u)'
  BY DEF WorkInv
<1>1. UpToDate(u)
  BY DEF WorkInv
<1>2. pc[u] \in {"unlink", "link"} => list'[list_id[u]] = list[list_id[u]]
  BY DEF UserInv
<1>3. pc[u] \in {"take", "alloc", "unlink"} =>
        life'[r[u]] = life[r[u]] /\ pages'[r[u]] = pages[r[u]]
  <2> SUFFICES ASSUME pc[u] \in {"take", "alloc", "unlink"}
               PROVE  life'[r[u]] = life[r[u]] /\ pages'[r[u]] = pages[r[u]]
    OBVIOUS
  <2>1. r[u] # None /\ r[u] \in Regions
    BY DEF UserInv, TypeOK
  <2>2. r[t] # r[u]
    BY <2>1 DEF UserInv
  <2> QED
    BY <2>1, <2>2
<1> QED
  BY <1>1, <1>2, <1>3 DEF UpToDate

\* A place a step leaves alone.
LEMMA SamePlace ==
  ASSUME NEW q \in Places,
         q[1] = "list" => list'[q[2]] = list[q[2]],
         q[1] = "region" => pages'[q[2]] = pages[q[2]],
         q[1] = "rest" => rest'[q[2]] = rest[q[2]],
         q[1] = "hand" => /\ pc'[q[2]] = "link" <=> pc[q[2]] = "link"
                          /\ pc[q[2]] = "link" => chain'[q[2]] = chain[q[2]]
  PROVE  Content'[q] = Content[q]
BY DEF Content, Places

LEMMA BeginStep ==
  ASSUME Sound, NEW t \in Threads, NEW x \in Regions,
         NewRegion(t, x) \/ Grow(t, x)
  PROVE  Sound'
<1> USE RegionAssumption DEF Sound
<1>1. /\ pc[t] = "idle" /\ (\A u \in Threads : r[u] # x)
      /\ r' = [r EXCEPT ![t] = x] /\ pc' = [pc EXCEPT ![t] = "take"]
      /\ UNCHANGED <<list, page_count, lock, obtained, life, pages, word, list_id,
                     chain, rest, header, stale>>
  BY DEF NewRegion, Grow, Goto, Unused
<1>2. life[x] # "deleted" /\ Len(pages[x]) < MaxPages
  <2>1. CASE NewRegion(t, x)
    <3>1. pages[x] = <<>> /\ Len(<<>>) = 0
      BY <2>1, EmptySeq DEF TypeOK, NewRegion
    <3> QED
      BY <2>1, <3>1 DEF NewRegion
  <2>2. CASE Grow(t, x)
    BY <2>2 DEF Grow
  <2> QED
    BY <2>1, <2>2
<1>3. pc' \in [Threads -> {"idle", "take", "alloc", "unlink", "give", "free", "link",
                          "bigpages", "parent"}]
      /\ r' \in [Threads -> Regions \cup {None}]
  BY <1>1 DEF TypeOK
<1>4. TypeOK'
  BY <1>1, <1>3 DEF TypeOK
<1>5. UserInv'
  BY <1>1 DEF TypeOK, UserInv
<1>6. UpToDate(t)'
  <2>1. rest[t] = <<>>
    BY <1>1 DEF WorkInv, UpToDate
  <2>2. pc'[t] = "take" /\ r'[t] = x
    BY <1>1 DEF TypeOK
  <2> QED
    BY <1>1, <1>2, <2>1, <2>2 DEF UpToDate
<1>7. WorkInv'
  BY <1>1, <1>6, OthersWork DEF TypeOK
<1>8. CountInv'
  BY <1>1 DEF CountInv
<1>9. HomeInv'
  BY <1>1, SameHomes DEF TypeOK
<1> QED
  BY <1>4, <1>5, <1>7, <1>8, <1>9

LEMMA DeleteStep ==
  ASSUME Sound, NEW t \in Threads, NEW x \in Regions, DeleteRegion(t, x)
  PROVE  Sound'
<1> USE RegionAssumption DEF Sound
<1>1. /\ pc[t] = "idle" /\ (\A u \in Threads : r[u] # x) /\ life[x] = "live"
      /\ r' = [r EXCEPT ![t] = x] /\ pc' = [pc EXCEPT ![t] = "give"]
      /\ life' = [life EXCEPT ![x] = "deleted"]
      /\ pages' = [pages EXCEPT ![x] = <<>>]
      /\ rest' = [rest EXCEPT ![t] = pages[x]]
      /\ header' = [header EXCEPT ![t] = Last(pages[x])]
      /\ UNCHANGED <<list, page_count, lock, obtained, word, list_id, chain, stale>>
  BY DEF DeleteRegion, Goto, Unused
<1>2. pages[x] \in Seq(Pages) /\ pages[x] # <<>> /\ Last(pages[x]) \in Pages
  <2>1. pages[x] \in Seq(Pages) /\ pages[x] # <<>>
    BY <1>1 DEF TypeOK
  <2>2. Len(pages[x]) \in 1 .. Len(pages[x])
    BY <2>1, EmptySeq
  <2> QED
    BY <2>1, <2>2, ElementOfSeq DEF Last
<1>3. <<>> \in Seq(Pages) /\ Len(<<>>) = 0
  BY EmptySeq
<1>4. TypeOK'
  BY <1>1, <1>2, <1>3 DEF TypeOK
<1>5. UserInv'
  BY <1>1 DEF TypeOK, UserInv
<1>6. UpToDate(t)'
  <2>1. pc'[t] = "give" /\ rest'[t] = pages[x] /\ header'[t] = Last(pages[x])
    BY <1>1 DEF TypeOK
  <2> QED
    BY <1>2, <2>1 DEF UpToDate
<1>7. WorkInv'
  BY <1>1, <1>6, OthersWork DEF TypeOK
<1>8. CountInv'
  BY <1>1 DEF CountInv
<1>9. HomeInv'
  <2>1. <<"region", x>> \in Places /\ <<"rest", t>> \in Places
    BY DEF Places
  <2>2. /\ Content[<<"rest", t>>] = <<>>
        /\ Content'[<<"region", x>>] = <<>>
        /\ Content'[<<"rest", t>>] = Content[<<"region", x>>]
    BY <1>1, <2>1 DEF Content, TypeOK, WorkInv, UpToDate
  <2>3. \A q \in Places \ {<<"region", x>>, <<"rest", t>>} : Content'[q] = Content[q]
    BY <1>1 DEF Content, Places, TypeOK
  <2>4. OnePlaceEach(Places, Content', obtained)
    <3>1. obtained \in Nat
      BY DEF TypeOK
    <3>2. <<"region", x>> # <<"rest", t>>
      OBVIOUS
    <3> HIDE DEF Content, Places
    <3> QED
      BY <2>1, <2>2, <2>3, <3>1, <3>2, MoveAll DEF HomeInv
  <2> QED
    BY <1>1, <2>4 DEF HomeInv
<1> QED
  BY <1>4, <1>5, <1>7, <1>8, <1>9

LEMMA TryLockStep ==
  ASSUME Sound, NEW t \in Threads, NEW l \in Lists, TryLock(t, l)
  PROVE  Sound'
<1> USE RegionAssumption DEF Sound
<1>1. /\ pc[t] \in {"take", "give"} /\ lock[l] = None
      /\ lock' = [lock EXCEPT ![l] = t]
      /\ list_id' = [list_id EXCEPT ![t] = l]
      /\ pc' = [pc EXCEPT ![t] = IF pc[t] = "take" THEN "alloc" ELSE "free"]
      /\ UNCHANGED <<list, page_count, obtained, life, pages, word, r, chain,
                     rest, header, stale>>
  BY DEF TryLock, Goto
<1>2. pc'[t] = (IF pc[t] = "take" THEN "alloc" ELSE "free") /\ list_id'[t] = l
  BY <1>1 DEF TypeOK
<1>3. TypeOK'
  BY <1>1, <1>2 DEF TypeOK
<1>4. UserInv'
  <2> SUFFICES ASSUME NEW u \in Threads
               PROVE  /\ pc'[u] = "idle" <=> r'[u] = None
                      /\ \A v \in Threads : r'[u] # None /\ r'[v] = r'[u] => v = u
                      /\ pc'[u] \in {"alloc", "unlink", "free", "link"} =>
                           list_id'[u] \in Lists /\ lock'[list_id'[u]] = u
    BY DEF UserInv
  <2>1. CASE u = t
    BY <1>1, <1>2, <2>1 DEF UserInv, TypeOK
  <2>2. CASE u # t
    <3>1. pc'[u] = pc[u] /\ list_id'[u] = list_id[u]
      BY <1>1, <2>2 DEF TypeOK
    <3>2. lock[list_id[u]] = u => list_id[u] # l
      BY <1>1
    <3> QED
      BY <1>1, <3>1, <3>2 DEF UserInv, TypeOK
  <2> QED
    BY <2>1, <2>2
<1>5. UpToDate(t)'
  <2>1. UpToDate(t)
    BY DEF WorkInv
  <2> QED
    BY <1>1, <1>2, <2>1 DEF UpToDate
<1>6. WorkInv'
  BY <1>1, <1>5, OthersWork DEF TypeOK
<1>7. CountInv'
  BY <1>1 DEF CountInv
<1>8. HomeInv'
  BY <1>1, SameHomes DEF TypeOK
<1> QED
  BY <1>3, <1>4, <1>6, <1>7, <1>8

\* The counters have their type because a list holds at most all pages.
LEMMA CountersTyped ==
  ASSUME CountInv', HomeInv', obtained' \in 0 .. MaxObtained, MaxObtained \in Nat,
         page_count' \in [Lists -> Int]
  PROVE  page_count' \in [Lists -> 0 .. MaxObtained]
<1> SUFFICES ASSUME NEW l \in Lists PROVE page_count'[l] \in 0 .. MaxObtained
  OBVIOUS
<1>1. <<"list", l>> \in Places /\ Content'[<<"list", l>>] = list'[l]
  BY DEF Places, Content
<1>2. OnePlaceEach(Places, Content', obtained') /\ obtained' \in Nat
  BY DEF HomeInv
<1>3. Len(list'[l]) \in 0 .. obtained'
  <2>1. Len(Content'[<<"list", l>>]) \in 0 .. obtained'
    <3> HIDE DEF Places, Content
    <3> QED
      BY <1>1, <1>2, AtMostAll
  <2> QED
    BY <1>1, <2>1
<1> QED
  BY <1>3 DEF CountInv

LEMMA RefillStep ==
  ASSUME Sound, NEW t \in Threads, NEW n \in Groups, Refill(t, n)
  PROVE  Sound'
<1> USE RegionAssumption DEF Sound
<1> DEFINE l == list_id[t]
           new == [i \in 1 .. n |-> obtained + n + 1 - i]
<1>1. /\ pc[t] = "alloc" /\ obtained + n <= MaxObtained
      /\ list' = [list EXCEPT ![l] = new \o @]
      /\ page_count' = [page_count EXCEPT ![l] = @ + n]
      /\ obtained' = obtained + n
      /\ UNCHANGED <<lock, life, pages, word, pc, r, list_id, chain, rest, header, stale>>
  BY DEF Refill
<1>2. l \in Lists /\ lock[l] = t /\ n \in Nat \ {0} /\ obtained \in Nat
  BY <1>1 DEF UserInv, TypeOK
<1>3. /\ OnePlaceEach(Places, Content', obtained + n)
      /\ Len(list'[l]) = Len(list[l]) + n
  <2>1. <<"list", l>> \in Places /\ Content[<<"list", l>>] = list[l]
    BY <1>2 DEF Places, Content
  <2>2. list'[l] = new \o list[l] /\ Content'[<<"list", l>>] = list'[l]
    BY <1>1, <1>2, <2>1 DEF Content, TypeOK
  <2>3. \A q \in Places \ {<<"list", l>>} : Content'[q] = Content[q]
    BY <1>1, <1>2 DEF Content, Places, TypeOK
  <2>4. OnePlaceEach(Places, Content, obtained)
    BY DEF HomeInv
  <2>5. Content'[<<"list", l>>] = new \o Content[<<"list", l>>]
    BY <2>1, <2>2
  <2>6. n \in Nat /\ obtained \in Nat
    BY <1>2
  <2>7. OnePlaceEach(Places, Content', obtained + n)
    <3>1. Descending(new, obtained, n)
      BY <2>6 DEF Descending
    <3>2. PutBefore(Places, Content, Content', <<"list", l>>, new)
      BY <2>3, <2>5 DEF PutBefore
    <3> HIDE DEF l, new
    <3> QED
      BY <2>1, <2>4, <2>6, <3>1, <3>2, AddPages
  <2>8. Len(list'[l]) = Len(list[l]) + n
    <3>1. /\ new \in Seq(Nat) /\ Len(new) = n
          /\ list[l] \in Seq(Nat) /\ Len(list[l]) \in Nat
      BY <1>2, LenProperties, SeqMonotonic DEF TypeOK, Pages
    <3>2. Len(new \o list[l]) = Len(new) + Len(list[l])
      <4> HIDE DEF new, l
      <4> QED
        BY <3>1, ConcatProperties
    <3> QED
      BY <2>2, <3>1, <3>2
  <2> QED
    BY <2>7, <2>8
<1>4. HomeInv'
  BY <1>1, <1>3 DEF HomeInv
<1>5. CountInv'
  <2> SUFFICES ASSUME NEW k \in Lists PROVE page_count'[k] = Len(list'[k])
    BY DEF CountInv
  <2>1. CASE k = l
    BY <1>1, <1>2, <1>3, <2>1 DEF CountInv, TypeOK
  <2>2. CASE k # l
    BY <1>1, <1>2, <2>2 DEF CountInv, TypeOK
  <2> QED
    BY <2>1, <2>2
<1>6. list' \in [Lists -> Seq(Pages)]
  <2>1. list[l] \in Seq(Pages)
    BY <1>2 DEF TypeOK
  <2>2. new \in Seq(Pages)
    BY <1>1, <1>2 DEF Pages
  <2>3. new \o list[l] \in Seq(Pages)
    BY <2>1, <2>2, ConcatProperties
  <2> QED
    BY <1>1, <2>3 DEF TypeOK
<1>7. TypeOK'
  <2>1. obtained' \in 0 .. MaxObtained
    BY <1>1, <1>2
  <2>2. page_count' \in [Lists -> Int]
    BY <1>1, <1>2 DEF TypeOK
  <2>3. page_count' \in [Lists -> 0 .. MaxObtained]
    BY <1>4, <1>5, <2>1, <2>2, CountersTyped
  <2> QED
    BY <1>1, <1>6, <2>1, <2>3 DEF TypeOK
<1>8. UserInv'
  BY <1>1 DEF UserInv
<1>9. UpToDate(t)'
  <2>1. UpToDate(t)
    BY DEF WorkInv
  <2> QED
    BY <1>1, <2>1 DEF UpToDate
<1>10. WorkInv'
  BY <1>1, <1>2, <1>9, OthersWork DEF TypeOK
<1> QED
  BY <1>4, <1>5, <1>7, <1>8, <1>10

LEMMA LoadFirstStep ==
  ASSUME Sound, NEW t \in Threads, LoadFirst(t)
  PROVE  Sound'
<1> USE RegionAssumption DEF Sound
<1>1. /\ pc[t] = "alloc" /\ page_count[list_id[t]] > 0
      /\ chain' = [chain EXCEPT ![t] = list[list_id[t]]]
      /\ pc' = [pc EXCEPT ![t] = "unlink"]
      /\ UNCHANGED <<list, page_count, lock, obtained, life, pages, word, r,
                     list_id, rest, header, stale>>
  BY DEF LoadFirst, Goto
<1>2. list_id[t] \in Lists
  BY <1>1 DEF UserInv
<1>3. list[list_id[t]] \in Seq(Pages) /\ list[list_id[t]] # <<>>
  <2>1. Len(list[list_id[t]]) > 0
    BY <1>1, <1>2 DEF CountInv
  <2>2. Len(<<>>) = 0
    OBVIOUS
  <2> QED
    BY <1>2, <2>1, <2>2 DEF TypeOK
<1>4. pc'[t] = "unlink" /\ chain'[t] = list[list_id[t]]
  BY <1>1 DEF TypeOK
<1>5. TypeOK'
  BY <1>1, <1>3 DEF TypeOK
<1>6. UserInv'
  BY <1>1 DEF UserInv, TypeOK
<1>7. UpToDate(t)'
  <2>1. UpToDate(t)
    BY DEF WorkInv
  <2> QED
    BY <1>1, <1>3, <1>4, <2>1 DEF UpToDate
<1>8. WorkInv'
  BY <1>1, <1>7, OthersWork DEF TypeOK
<1>9. CountInv'
  BY <1>1 DEF CountInv
<1>10. HomeInv'
  BY <1>1, <1>4, SameHomes DEF TypeOK
<1> QED
  BY <1>5, <1>6, <1>8, <1>9, <1>10

LEMMA AllocStep ==
  ASSUME Sound, NEW t \in Threads, AllocSinglePage(t)
  PROVE  Sound'
<1> USE RegionAssumption DEF Sound
<1> DEFINE l == list_id[t]
           x == r[t]
           p == Head(chain[t])
<1>1. /\ pc[t] = "unlink"
      /\ list' = [list EXCEPT ![l] = Tail(chain[t])]
      /\ page_count' = [page_count EXCEPT ![l] = @ - 1]
      /\ lock' = [lock EXCEPT ![l] = None]
      /\ pages' = [pages EXCEPT ![x] = <<p>> \o @]
      /\ life' = [life EXCEPT ![x] = "live"]
      /\ r' = [r EXCEPT ![t] = None]
      /\ list_id' = [list_id EXCEPT ![t] = None]
      /\ chain' = [chain EXCEPT ![t] = <<>>]
      /\ pc' = [pc EXCEPT ![t] = "idle"]
      /\ UNCHANGED <<obtained, rest, header, stale>>
  BY DEF AllocSinglePage, Goto
<1>0. word' \in [Pages -> Pages \cup {None}]
  <2>1. x \in Regions
    BY <1>1 DEF UserInv, TypeOK
  <2>2. PICK o \in ToSet(pages[x]) \cup {None} : word' = [word EXCEPT ![p] = o]
    BY DEF AllocSinglePage
  <2>3. ToSet(pages[x]) \subseteq Pages
    BY <2>1 DEF TypeOK, ToSet
  <2> QED
    BY <2>2, <2>3 DEF TypeOK
<1>2. UpToDate(t)
  BY DEF WorkInv
<1>3. /\ l \in Lists /\ lock[l] = t /\ x \in Regions
      /\ chain[t] = list[l] /\ chain[t] # <<>> /\ chain[t] \in Seq(Pages)
      /\ rest[t] = <<>> /\ Len(pages[x]) < MaxPages /\ pages[x] \in Seq(Pages)
      /\ obtained \in Nat
  BY <1>1, <1>2 DEF UpToDate, UserInv, TypeOK
<1>4. /\ p \in Pages /\ Tail(chain[t]) \in Seq(Pages)
      /\ Len(Tail(list[l])) = Len(list[l]) - 1 /\ Len(list[l]) \in Nat
  BY <1>3, RestOf
<1>5. /\ <<p>> \o pages[x] \in Seq(Pages) /\ <<p>> \o pages[x] # <<>>
      /\ Len(<<p>> \o pages[x]) = Len(pages[x]) + 1
  BY <1>3, <1>4, FrontOf
<1>6. OnePlaceEach(Places, Content', obtained)
  <2>1. /\ <<"list", l>> \in Places /\ <<"region", x>> \in Places
        /\ <<"list", l>> # <<"region", x>>
    BY <1>3 DEF Places
  <2>2. Content[<<"list", l>>] = list[l] /\ Content[<<"region", x>>] = pages[x]
    BY <2>1 DEF Content
  <2>3. Content'[<<"list", l>>] = list'[l] /\ Content'[<<"region", x>>] = pages'[x]
    <3> HIDE DEF l, x, p
    <3> QED
      BY <2>1 DEF Content
  <2>4. list'[l] = Tail(list[l]) /\ pages'[x] = <<Head(list[l])>> \o pages[x]
    BY <1>1, <1>3 DEF TypeOK
  <2>5. \A q \in Places \ {<<"list", l>>, <<"region", x>>} : Content'[q] = Content[q]
    <3> SUFFICES ASSUME NEW q \in Places, q # <<"list", l>>, q # <<"region", x>>
                 PROVE  Content'[q] = Content[q]
      OBVIOUS
    <3>1. \A k \in Lists \ {l} : list'[k] = list[k]
      BY <1>1 DEF TypeOK
    <3>2. \A y \in Regions \ {x} : pages'[y] = pages[y]
      BY <1>1 DEF TypeOK
    <3>3. \A u \in Threads : /\ pc'[u] = "link" <=> pc[u] = "link"
                             /\ pc[u] = "link" => chain'[u] = chain[u]
      BY <1>1 DEF TypeOK
    <3>4. /\ q[1] = "list" => q[2] \in Lists \ {l}
          /\ q[1] = "region" => q[2] \in Regions \ {x}
          /\ q[1] = "hand" => q[2] \in Threads
      BY DEF Places
    <3> QED
      BY <1>1, <3>1, <3>2, <3>3, <3>4, SamePlace
  <2>6. OnePlaceEach(Places, Content, obtained) /\ Content[<<"list", l>>] # <<>>
    BY <1>3, <2>2 DEF HomeInv
  <2>7. /\ Content'[<<"list", l>>] = Tail(Content[<<"list", l>>])
        /\ Content'[<<"region", x>>] = <<Head(Content[<<"list", l>>])>> \o Content[<<"region", x>>]
    BY <2>2, <2>3, <2>4
  <2> HIDE DEF l, x, p
  <2> QED
    BY <1>3, <2>1, <2>5, <2>6, <2>7, MoveFirst
<1>7. HomeInv'
  BY <1>1, <1>6 DEF HomeInv
<1>8. CountInv'
  <2> SUFFICES ASSUME NEW k \in Lists PROVE page_count'[k] = Len(list'[k])
    BY DEF CountInv
  <2>1. CASE k = l
    BY <1>1, <1>3, <1>4, <2>1 DEF CountInv, TypeOK
  <2>2. CASE k # l
    BY <1>1, <1>3, <2>2 DEF CountInv, TypeOK
  <2> QED
    BY <2>1, <2>2
<1>9. TypeOK'
  <2>1. page_count' \in [Lists -> Int]
    BY <1>1, <1>3 DEF TypeOK
  <2>2. page_count' \in [Lists -> 0 .. MaxObtained]
    BY <1>1, <1>7, <1>8, <2>1, CountersTyped DEF TypeOK
  <2>3. <<>> \in Seq(Pages)
    OBVIOUS
  <2>4. list' \in [Lists -> Seq(Pages)] /\ chain' \in [Threads -> Seq(Pages)]
    BY <1>1, <1>3, <1>4, <2>3 DEF TypeOK
  <2>5. pages' \in [Regions -> Seq(Pages)]
    BY <1>1, <1>3, <1>4, <1>5 DEF TypeOK
  <2>6. ASSUME NEW y \in Regions
        PROVE  Len(pages'[y]) <= MaxPages /\ (life'[y] = "live" <=> pages'[y] # <<>>)
    <3>1. CASE y = x
      <4>1. pages'[y] = <<p>> \o pages[x] /\ life'[y] = "live"
        BY <1>1, <1>3, <3>1 DEF TypeOK
      <4>2. Len(pages[x]) \in Nat /\ MaxPages \in Nat
        BY <1>3, LenProperties
      <4>3. Len(pages'[y]) <= MaxPages
        <5> HIDE DEF x, p
        <5> QED
          BY <1>3, <1>5, <4>1, <4>2
      <4> QED
        BY <1>5, <4>1, <4>3
    <3>2. CASE y # x
      <4>1. pages'[y] = pages[y] /\ life'[y] = life[y]
        BY <1>1, <3>2 DEF TypeOK
      <4> QED
        BY <4>1 DEF TypeOK
    <3> QED
      BY <3>1, <3>2
  <2>7. /\ pc' \in [Threads -> {"idle", "take", "alloc", "unlink", "give", "free",
                                "link", "bigpages", "parent"}]
        /\ r' \in [Threads -> Regions \cup {None}]
        /\ list_id' \in [Threads -> Lists \cup {None}]
        /\ lock' \in [Lists -> Threads \cup {None}]
        /\ life' \in [Regions -> {"none", "live", "deleted"}]
    BY <1>1, <1>3 DEF TypeOK
  <2>8. UNCHANGED <<obtained, rest, header, stale>>
    BY <1>1
  <2> HIDE DEF l, x, p
  <2> QED
    BY <1>0, <2>2, <2>4, <2>5, <2>6, <2>7, <2>8 DEF TypeOK
<1>10. UserInv'
  <2> SUFFICES ASSUME NEW u \in Threads
               PROVE  /\ pc'[u] = "idle" <=> r'[u] = None
                      /\ \A v \in Threads : r'[u] # None /\ r'[v] = r'[u] => v = u
                      /\ pc'[u] \in {"alloc", "unlink", "free", "link"} =>
                           list_id'[u] \in Lists /\ lock'[list_id'[u]] = u
    BY DEF UserInv
  <2>1. CASE u = t
    BY <1>1, <2>1 DEF TypeOK
  <2>2. CASE u # t
    <3>1. pc'[u] = pc[u] /\ list_id'[u] = list_id[u] /\ r'[u] = r[u]
      BY <1>1, <2>2 DEF TypeOK
    <3>2. lock[list_id[u]] = u => list_id[u] # l
      BY <1>3, <2>2
    <3>3. r'[t] = None
      BY <1>1 DEF TypeOK
    <3> QED
      BY <1>1, <3>1, <3>2, <3>3 DEF UserInv, TypeOK
  <2> QED
    BY <2>1, <2>2
<1>11. UpToDate(t)'
  <2>1. pc'[t] = "idle"
    BY <1>1 DEF TypeOK
  <2> QED
    BY <1>1, <1>3, <2>1 DEF UpToDate
<1>12. WorkInv'
  BY <1>1, <1>3, <1>11, OthersWork DEF TypeOK
<1> QED
  BY <1>7, <1>8, <1>9, <1>10, <1>12

LEMMA LinkStep ==
  ASSUME Sound, NEW t \in Threads, LinkPage(t)
  PROVE  Sound'
<1> USE RegionAssumption DEF Sound
<1> DEFINE l == list_id[t]
           p == Head(rest[t])
<1>1. /\ pc[t] = "free"
      /\ chain' = [chain EXCEPT ![t] = <<p>> \o list[l]]
      /\ rest' = [rest EXCEPT ![t] = Tail(rest[t])]
      /\ pc' = [pc EXCEPT ![t] = "link"]
      /\ UNCHANGED <<list, page_count, lock, obtained, life, pages, word, r,
                     list_id, header, stale>>
  BY DEF LinkPage, Goto
<1>2. /\ l \in Lists /\ rest[t] \in Seq(Pages) /\ rest[t] # <<>>
      /\ list[l] \in Seq(Pages) /\ header[t] \in Pages
  BY <1>1 DEF UserInv, WorkInv, UpToDate, TypeOK
<1>3. p \in Pages /\ Tail(rest[t]) \in Seq(Pages)
  BY <1>2, RestOf
<1>4. /\ <<p>> \o list[l] \in Seq(Pages) /\ <<p>> \o list[l] # <<>>
      /\ Head(<<p>> \o list[l]) = p /\ Tail(<<p>> \o list[l]) = list[l]
  BY <1>2, <1>3, FrontOf
<1>5. /\ pc'[t] = "link" /\ chain'[t] = <<p>> \o list[l] /\ rest'[t] = Tail(rest[t])
  BY <1>1 DEF TypeOK
<1>6. TypeOK'
  BY <1>1, <1>3, <1>4 DEF TypeOK
<1>7. UserInv'
  BY <1>1 DEF UserInv, TypeOK
<1>8. UpToDate(t)'
  BY <1>1, <1>2, <1>4, <1>5 DEF UpToDate
<1>9. WorkInv'
  BY <1>1, <1>8, OthersWork DEF TypeOK
<1>10. CountInv'
  BY <1>1 DEF CountInv
<1>11. HomeInv'
  <2>1. /\ <<"rest", t>> \in Places /\ <<"hand", t>> \in Places
        /\ <<"rest", t>> # <<"hand", t>>
    BY DEF Places
  <2>2. Content[<<"rest", t>>] = rest[t] /\ Content[<<"hand", t>>] = <<>>
    BY <1>1, <2>1 DEF Content
  <2>3. Content'[<<"rest", t>>] = Tail(rest[t]) /\ Content'[<<"hand", t>>] = <<p>>
    BY <1>4, <1>5, <2>1 DEF Content
  <2>4. <<p>> = <<p>> \o <<>>
    BY <1>3, ConcatEmptySeq
  <2>5. \A q \in Places \ {<<"rest", t>>, <<"hand", t>>} : Content'[q] = Content[q]
    <3> SUFFICES ASSUME NEW q \in Places, q # <<"rest", t>>, q # <<"hand", t>>
                 PROVE  Content'[q] = Content[q]
      OBVIOUS
    <3>1. \A u \in Threads \ {t} :
            rest'[u] = rest[u] /\ pc'[u] = pc[u] /\ chain'[u] = chain[u]
      BY <1>1 DEF TypeOK
    <3>2. q[1] \in {"rest", "hand"} => q[2] \in Threads \ {t}
      BY DEF Places
    <3> QED
      BY <1>1, <3>1, <3>2, SamePlace
  <2>6. /\ OnePlaceEach(Places, Content, obtained) /\ obtained \in Nat
        /\ Content[<<"rest", t>>] # <<>>
    BY <1>2, <2>2 DEF HomeInv, TypeOK
  <2>7. /\ Content'[<<"rest", t>>] = Tail(Content[<<"rest", t>>])
        /\ Content'[<<"hand", t>>] = <<Head(Content[<<"rest", t>>])>> \o Content[<<"hand", t>>]
    BY <2>2, <2>3, <2>4
  <2>8. OnePlaceEach(Places, Content', obtained)
    <3> HIDE DEF l, p
    <3> QED
      BY <2>1, <2>5, <2>6, <2>7, MoveFirst
  <2> QED
    BY <1>1, <2>8 DEF HomeInv
<1> QED
  BY <1>6, <1>7, <1>9, <1>10, <1>11

LEMMA FreeStep ==
  ASSUME Sound, NEW t \in Threads, FreeSinglePage(t)
  PROVE  Sound'
<1> USE RegionAssumption DEF Sound
<1> DEFINE l == list_id[t]
           p == Head(chain[t])
<1>1. /\ pc[t] = "link"
      /\ list' = [list EXCEPT ![l] = chain[t]]
      /\ page_count' = [page_count EXCEPT ![l] = @ + 1]
      /\ lock' = [lock EXCEPT ![l] = None]
      /\ list_id' = [list_id EXCEPT ![t] = None]
      /\ chain' = [chain EXCEPT ![t] = <<>>]
      /\ pc' = [pc EXCEPT ![t] = IF rest[t] = <<>> THEN "bigpages" ELSE "give"]
      /\ UNCHANGED <<obtained, life, pages, word, r, rest, header, stale>>
  BY DEF FreeSinglePage, Goto
<1>2. UpToDate(t)
  BY DEF WorkInv
<1>3. /\ l \in Lists /\ lock[l] = t
      /\ chain[t] # <<>> /\ chain[t] \in Seq(Pages) /\ Tail(chain[t]) = list[l]
      /\ list[l] \in Seq(Pages) /\ header[t] \in Pages /\ obtained \in Nat
  BY <1>1, <1>2 DEF UpToDate, UserInv, TypeOK
<1>4. /\ p \in Pages /\ Len(list[l]) = Len(chain[t]) - 1 /\ Len(chain[t]) \in Nat
  BY <1>3, RestOf
<1>5. chain[t] = <<p>> \o list[l]
  <2>1. /\ Len(<<p>> \o list[l]) = Len(list[l]) + 1 /\ <<p>> \o list[l] \in Seq(Pages)
        /\ (<<p>> \o list[l])[1] = p
        /\ \A i \in 2 .. (Len(list[l]) + 1) : (<<p>> \o list[l])[i] = list[l][i - 1]
    BY <1>3, <1>4, FrontOf
  <2>2. /\ chain[t][1] = p
        /\ \A i \in 1 .. (Len(chain[t]) - 1) : Tail(chain[t])[i] = chain[t][i + 1]
    BY <1>3, RestOf
  <2>3. ASSUME NEW i \in 1 .. Len(chain[t]), i # 1
        PROVE  chain[t][i] = list[l][i - 1] /\ i \in 2 .. (Len(list[l]) + 1)
    <3>1. i - 1 \in 1 .. (Len(chain[t]) - 1) /\ (i - 1) + 1 = i
      BY <1>4, <2>3
    <3>2. i \in 2 .. (Len(list[l]) + 1)
      BY <1>4, <3>1
    <3> QED
      BY <1>3, <2>2, <3>1, <3>2
  <2>4. \A i \in 1 .. Len(chain[t]) : chain[t][i] = (<<p>> \o list[l])[i]
    <3> HIDE DEF l, p
    <3> QED
      BY <2>1, <2>2, <2>3
  <2>5. Len(<<p>> \o list[l]) = Len(chain[t])
    <3> HIDE DEF l, p
    <3> QED
      BY <1>4, <2>1
  <2> HIDE DEF l, p
  <2> QED
    BY <1>3, <2>1, <2>4, <2>5, SeqEqual
<1>6. OnePlaceEach(Places, Content', obtained)
  <2>1. /\ <<"list", l>> \in Places /\ <<"hand", t>> \in Places
        /\ <<"list", l>> # <<"hand", t>>
    BY <1>3 DEF Places
  <2>2. Content[<<"list", l>>] = list[l] /\ Content[<<"hand", t>>] = <<p>>
    BY <1>1, <2>1 DEF Content
  <2>3. Content'[<<"list", l>>] = chain[t] /\ Content'[<<"hand", t>>] = <<>>
    <3>1. list'[l] = chain[t] /\ pc'[t] # "link"
      BY <1>1, <1>3 DEF TypeOK
    <3> HIDE DEF l, p
    <3> QED
      BY <2>1, <3>1 DEF Content
  <2>4. <<p>> # <<>> /\ Tail(<<p>>) = <<>> /\ Head(<<p>>) = p
    OBVIOUS
  <2>5. \A q \in Places \ {<<"hand", t>>, <<"list", l>>} : Content'[q] = Content[q]
    <3> SUFFICES ASSUME NEW q \in Places, q # <<"list", l>>, q # <<"hand", t>>
                 PROVE  Content'[q] = Content[q]
      OBVIOUS
    <3>1. \A k \in Lists \ {l} : list'[k] = list[k]
      BY <1>1 DEF TypeOK
    <3>2. \A u \in Threads \ {t} : pc'[u] = pc[u] /\ chain'[u] = chain[u]
      BY <1>1 DEF TypeOK
    <3>3. /\ q[1] = "list" => q[2] \in Lists \ {l}
          /\ q[1] = "hand" => q[2] \in Threads \ {t}
      BY DEF Places
    <3> QED
      BY <1>1, <3>1, <3>2, <3>3, SamePlace
  <2>6. /\ OnePlaceEach(Places, Content, obtained) /\ obtained \in Nat
        /\ Content[<<"hand", t>>] # <<>>
    BY <1>3, <2>2, <2>4 DEF HomeInv
  <2>7. /\ Content'[<<"hand", t>>] = Tail(Content[<<"hand", t>>])
        /\ Content'[<<"list", l>>] = <<Head(Content[<<"hand", t>>])>> \o Content[<<"list", l>>]
    BY <1>5, <2>2, <2>3, <2>4
  <2> HIDE DEF l, p
  <2> QED
    BY <2>1, <2>5, <2>6, <2>7, MoveFirst
<1>7. HomeInv'
  BY <1>1, <1>6 DEF HomeInv
<1>8. CountInv'
  <2> SUFFICES ASSUME NEW k \in Lists PROVE page_count'[k] = Len(list'[k])
    BY DEF CountInv
  <2>1. CASE k = l
    BY <1>1, <1>3, <1>4, <2>1 DEF CountInv, TypeOK
  <2>2. CASE k # l
    BY <1>1, <1>3, <2>2 DEF CountInv, TypeOK
  <2> QED
    BY <2>1, <2>2
<1>9. TypeOK'
  <2>1. page_count' \in [Lists -> Int]
    BY <1>1, <1>3 DEF TypeOK
  <2>2. page_count' \in [Lists -> 0 .. MaxObtained]
    BY <1>1, <1>7, <1>8, <2>1, CountersTyped DEF TypeOK
  <2>3. <<>> \in Seq(Pages)
    OBVIOUS
  <2> QED
    BY <1>1, <1>3, <2>2, <2>3 DEF TypeOK
<1>10. UserInv'
  <2> SUFFICES ASSUME NEW u \in Threads
               PROVE  /\ pc'[u] = "idle" <=> r'[u] = None
                      /\ \A v \in Threads : r'[u] # None /\ r'[v] = r'[u] => v = u
                      /\ pc'[u] \in {"alloc", "unlink", "free", "link"} =>
                           list_id'[u] \in Lists /\ lock'[list_id'[u]] = u
    BY DEF UserInv
  <2>1. CASE u = t
    BY <1>1, <2>1 DEF UserInv, TypeOK
  <2>2. CASE u # t
    <3>1. pc'[u] = pc[u] /\ list_id'[u] = list_id[u]
      BY <1>1, <2>2 DEF TypeOK
    <3>2. lock[list_id[u]] = u => list_id[u] # l
      BY <1>3, <2>2
    <3> QED
      BY <1>1, <3>1, <3>2 DEF UserInv, TypeOK
  <2> QED
    BY <2>1, <2>2
<1>11. UpToDate(t)'
  <2>1. pc'[t] = IF rest[t] = <<>> THEN "bigpages" ELSE "give"
    BY <1>1 DEF TypeOK
  <2> QED
    BY <1>1, <1>3, <2>1 DEF UpToDate
<1>12. WorkInv'
  BY <1>1, <1>3, <1>11, OthersWork DEF TypeOK
<1> QED
  BY <1>7, <1>8, <1>9, <1>10, <1>12

\* The deletion reads its header again.  If it finds an object, all but the
\* places of the pages is still in order.
LEMMA LoadBigPagesStep ==
  ASSUME Sound, NEW t \in Threads, LoadBigPages(t)
  PROVE  IInv'
<1> USE RegionAssumption DEF Sound
<1>0. header[t] \in Pages /\ pc[t] = "bigpages" /\ rest[t] = <<>>
  BY DEF LoadBigPages, WorkInv, UpToDate
<1>1. PICK q \in Pages \cup {None} :
        /\ stale' = (q # None)
        /\ rest' = [rest EXCEPT ![t] = IF q = None THEN <<>> ELSE <<q>>]
        /\ pc' = [pc EXCEPT ![t] = IF q = None THEN "parent" ELSE "give"]
        /\ UNCHANGED <<list, page_count, lock, obtained, life, pages, word, r,
                       list_id, chain, header>>
  BY <1>0 DEF LoadBigPages, Found, Goto, TypeOK
<1>2. q # None => q \in Pages /\ <<q>> \in Seq(Pages) /\ <<q>> # <<>>
  OBVIOUS
<1>3. /\ pc'[t] = (IF q = None THEN "parent" ELSE "give")
      /\ rest'[t] = (IF q = None THEN <<>> ELSE <<q>>)
  BY <1>1 DEF TypeOK
<1>4. TypeOK'
  <2>1. rest' \in [Threads -> Seq(Pages)]
    BY <1>1, <1>2 DEF TypeOK
  <2> QED
    BY <1>1, <2>1 DEF TypeOK
<1>5. UserInv'
  BY <1>0, <1>1 DEF UserInv, TypeOK
<1>6. UpToDate(t)'
  BY <1>0, <1>1, <1>2, <1>3 DEF UpToDate
<1>7. WorkInv'
  BY <1>1, <1>6, OthersWork DEF TypeOK
<1>8. CountInv'
  BY <1>1 DEF CountInv
<1>9. ~stale' => HomeInv'
  <2> SUFFICES ASSUME q = None PROVE HomeInv'
    BY <1>1
  <2>1. rest' = rest
    BY <1>0, <1>1 DEF TypeOK
  <2> QED
    BY <1>0, <1>1, <2>1, SameHomes DEF TypeOK
<1> QED
  BY <1>4, <1>5, <1>7, <1>8, <1>9 DEF IInv

LEMMA LoadParentStep ==
  ASSUME Sound, NEW t \in Threads, LoadParent(t)
  PROVE  IInv'
<1> USE RegionAssumption DEF Sound
<1>1. /\ pc[t] = "parent" /\ stale' \in BOOLEAN
      /\ r' = [r EXCEPT ![t] = None]
      /\ header' = [header EXCEPT ![t] = None]
      /\ pc' = [pc EXCEPT ![t] = "idle"]
      /\ UNCHANGED <<list, page_count, lock, obtained, life, pages, word, list_id,
                     chain, rest>>
  BY DEF LoadParent, Goto
<1>2. pc'[t] = "idle" /\ r'[t] = None
  BY <1>1 DEF TypeOK
<1>3. TypeOK'
  BY <1>1 DEF TypeOK
<1>4. UserInv'
  BY <1>1, <1>2 DEF UserInv, TypeOK
<1>5. UpToDate(t)'
  <2>1. rest[t] = <<>>
    BY <1>1 DEF WorkInv, UpToDate
  <2> QED
    BY <1>1, <1>2, <2>1 DEF UpToDate
<1>6. WorkInv'
  BY <1>1, <1>5, OthersWork DEF TypeOK
<1>7. CountInv'
  BY <1>1 DEF CountInv
<1>8. HomeInv'
  BY <1>1, SameHomes DEF TypeOK
<1> QED
  BY <1>3, <1>4, <1>6, <1>7, <1>8 DEF IInv

LEMMA StepIInv == IInv /\ [Next]_vars => IInv'
<1> SUFFICES ASSUME IInv, [Next]_vars
             PROVE  IInv'
  OBVIOUS
<1>1. CASE UNCHANGED vars
  <2>1. CountInv' /\ UserInv' /\ TypeOK'
    BY <1>1 DEF IInv, vars, CountInv, UserInv, TypeOK
  <2>2. WorkInv'
    BY <1>1 DEF IInv, vars, WorkInv, UpToDate
  <2>3. ~stale' => HomeInv'
    BY <1>1, SameHomes DEF IInv, vars
  <2> QED
    BY <2>1, <2>2, <2>3 DEF IInv
<1>2. CASE Done
  BY <1>1, <1>2 DEF Done
<1>3. ~stale => Sound
  BY DEF IInv, Sound
<1>4. Sound' => IInv'
  BY DEF IInv, Sound
<1>5. ASSUME NEW t \in Threads, Proceed(t)
      PROVE  IInv'
  BY <1>3, <1>4, <1>5, LoadFirstStep, AllocStep, LinkStep, FreeStep, RefillStep,
     LoadBigPagesStep, LoadParentStep
     DEF Proceed
<1>6. ASSUME NEW t \in Threads, FindList(t)
      PROVE  IInv'
  BY <1>3, <1>4, <1>6, TryLockStep DEF FindList
<1>7. ASSUME NEW t \in Threads, Begin(t)
      PROVE  IInv'
  BY <1>3, <1>4, <1>7, BeginStep, DeleteStep DEF Begin
<1> QED
  BY <1>1, <1>2, <1>5, <1>6, <1>7 DEF Next

\* The allocator keeps its lists, its counters and its regions in agreement.
THEOREM Inductive == Spec => []IInv
BY InitIInv, StepIInv, PTL DEF Spec

-----------------------------------------------------------------------------
(* The theorems *)

\* Every variable keeps its type: no counter of a list goes below zero or above
\* the number of pages, no region gets more pages than it asked for.
THEOREM TypeCorrect == Spec => []TypeOK
<1>1. IInv => TypeOK
  BY DEF IInv
<1> QED
  BY <1>1, Inductive, PTL

\* The counter of a list that nobody works on is its length (pages.c:466-475).
THEOREM CountersAgree == Spec => []CountsAgree
<1>1. IInv => CountsAgree
  BY DEF IInv, CountInv, CountsAgree
<1> QED
  BY <1>1, Inductive, PTL

\* Until a deletion takes an object for its header (alloc.c:181), every page is
\* in one place: on a list, in a region, or in the hands of a thread that
\* deletes one (pages.c:463-480, 491-497).
THEOREM PagesHaveOneHome == Spec => []OneHomeUntilStale
<1>1. ASSUME Sound
      PROVE  OneHome
  <2> USE <1>1 DEF Sound
  <2> SUFFICES ASSUME NEW p \in 1 .. obtained
               PROVE  Cardinality(Homes(p)) = 1
    BY DEF OneHome
  <2> DEFINE index(q, i) == IF q[1] = "hand" THEN 0 ELSE i
  <2>0. obtained \in Nat /\ obtained \in 0 .. MaxObtained /\ MaxObtained \in Nat
        /\ OnePlaceEach(Places, Content, obtained)
    <3>1. obtained \in 0 .. MaxObtained
      BY DEF TypeOK
    <3>2. OnePlaceEach(Places, Content, obtained)
      BY DEF HomeInv
    <3>3. MaxObtained \in Nat
      BY RegionAssumption
    <3> QED
      BY <3>1, <3>2, <3>3
  <2>1. \A q \in Places : /\ Content[q] \in Seq(1 .. obtained)
                          /\ DOMAIN Content[q] = 1 .. Len(Content[q])
                          /\ Len(Content[q]) \in 0 .. obtained
    <3> SUFFICES ASSUME NEW q \in Places
                 PROVE  /\ Content[q] \in Seq(1 .. obtained)
                        /\ DOMAIN Content[q] = 1 .. Len(Content[q])
                        /\ Len(Content[q]) \in 0 .. obtained
      BY Zenon
    <3>1. Content[q] \in Seq(1 .. obtained)
      BY <2>0, Zenon DEF OnePlaceEach
    <3>2. DOMAIN Content[q] = 1 .. Len(Content[q])
      BY <3>1, LenProperties
    <3>3. Len(Content[q]) \in 0 .. obtained
      BY <2>0, AtMostAll, Zenon
    <3> QED
      BY <3>1, <3>2, <3>3
  <2>2. PICK q \in Places : \E i \in 1 .. Len(Content[q]) : Content[q][i] = p
    BY DEF HomeInv, OnePlaceEach
  <2>3. PICK i \in 1 .. Len(Content[q]) : Content[q][i] = p
    BY <2>2
  <2>4. ASSUME NEW o \in Places, NEW j \in 1 .. Len(Content[o]), Content[o][j] = p
        PROVE  o = q /\ j = i
    BY <2>3, <2>4, OnlyThere, SMT DEF HomeInv
  <2>5. \A n \in 1 .. obtained : n \in Pages
    BY <2>0 DEF Pages
  <2>6. Homes(p) \subseteq {<<q[2], index(q, i)>>}
    <3> SUFFICES ASSUME NEW h \in Homes(p) PROVE h = <<q[2], index(q, i)>>
      OBVIOUS
    <3>1. CASE h \in Lists \X Pages /\ At(h, list[h[1]], p)
      <4>1. <<"list", h[1]>> \in Places /\ Content[<<"list", h[1]>>] = list[h[1]]
        BY <3>1 DEF Places, Content
      <4>2. h[2] \in 1 .. Len(Content[<<"list", h[1]>>]) /\ Content[<<"list", h[1]>>][h[2]] = p
        BY <2>1, <3>1, <4>1 DEF At
      <4>3. <<"list", h[1]>> = q /\ h[2] = i
        BY <2>4, <4>1, <4>2
      <4> QED
        BY <3>1, <4>3
    <3>2. CASE h \in Regions \X Pages /\ At(h, pages[h[1]], p)
      <4>1. <<"region", h[1]>> \in Places /\ Content[<<"region", h[1]>>] = pages[h[1]]
        BY <3>2 DEF Places, Content
      <4>2. h[2] \in 1 .. Len(Content[<<"region", h[1]>>]) /\ Content[<<"region", h[1]>>][h[2]] = p
        BY <2>1, <3>2, <4>1 DEF At
      <4>3. <<"region", h[1]>> = q /\ h[2] = i
        BY <2>4, <4>1, <4>2
      <4> QED
        BY <3>2, <4>3
    <3>3. CASE h \in Threads \X Pages /\ At(h, rest[h[1]], p)
      <4>1. <<"rest", h[1]>> \in Places /\ Content[<<"rest", h[1]>>] = rest[h[1]]
        BY <3>3 DEF Places, Content
      <4>2. h[2] \in 1 .. Len(Content[<<"rest", h[1]>>]) /\ Content[<<"rest", h[1]>>][h[2]] = p
        BY <2>1, <3>3, <4>1 DEF At
      <4>3. <<"rest", h[1]>> = q /\ h[2] = i
        BY <2>4, <4>1, <4>2
      <4> QED
        BY <3>3, <4>3
    <3>4. ASSUME NEW t \in Threads, pc[t] = "link", Head(chain[t]) = p, h = <<t, 0>>
          PROVE  h = <<q[2], index(q, i)>>
      <4>1. <<"hand", t>> \in Places /\ Content[<<"hand", t>>] = <<p>>
        BY <3>4 DEF Places, Content
      <4>2. 1 \in 1 .. Len(Content[<<"hand", t>>]) /\ Content[<<"hand", t>>][1] = p
        BY <4>1
      <4>3. <<"hand", t>> = q
        BY <2>4, <4>1, <4>2
      <4> QED
        BY <3>4, <4>3
    <3> QED
      BY <3>1, <3>2, <3>3, <3>4 DEF Homes
  <2>7. <<q[2], index(q, i)>> \in Homes(p)
    <3>1. i \in DOMAIN Content[q] /\ i \in Pages
      <4>1. Len(Content[q]) \in 0 .. obtained /\ DOMAIN Content[q] = 1 .. Len(Content[q])
        BY <2>1
      <4>2. i \in DOMAIN Content[q]
        BY <4>1
      <4>3. i \in 1 .. obtained
        BY <2>0, <4>1
      <4> QED
        BY <2>5, <4>2, <4>3
    <3>2. CASE q[1] = "list"
      <4>1. q[2] \in Lists /\ Content[q] = list[q[2]]
        BY <3>2 DEF Places, Content
      <4> QED
        BY <2>3, <3>1, <3>2, <4>1 DEF Homes, At
    <3>3. CASE q[1] = "region"
      <4>1. q[2] \in Regions /\ Content[q] = pages[q[2]]
        BY <3>3 DEF Places, Content
      <4> QED
        BY <2>3, <3>1, <3>3, <4>1 DEF Homes, At
    <3>4. CASE q[1] = "rest"
      <4>1. q[2] \in Threads /\ Content[q] = rest[q[2]]
        BY <3>4 DEF Places, Content
      <4> QED
        BY <2>3, <3>1, <3>4, <4>1 DEF Homes, At
    <3>5. CASE q[1] = "hand"
      <4>1. q[2] \in Threads
        BY <3>5 DEF Places
      <4>2. Content[q] = IF pc[q[2]] = "link" THEN <<Head(chain[q[2]])>> ELSE <<>>
        BY <3>5 DEF Places, Content
      <4>3. pc[q[2]] = "link" /\ Head(chain[q[2]]) = p
        <5>1. \A j \in 1 .. Len(<<>>) : FALSE
          OBVIOUS
        <5>2. pc[q[2]] = "link"
          BY <4>2, <5>1
        <5>3. Content[q] = <<Head(chain[q[2]])>>
          BY <4>2, <5>2
        <5>4. i = 1
          BY <5>3
        <5> QED
          BY <2>3, <5>2, <5>3, <5>4
      <4> QED
        BY <3>5, <4>1, <4>3 DEF Homes
    <3> QED
      BY <3>2, <3>3, <3>4, <3>5 DEF Places
  <2>8. Homes(p) = {<<q[2], index(q, i)>>}
    BY <2>6, <2>7
  <2> QED
    BY <2>8, FS_Singleton
<1>2. IInv => OneHomeUntilStale
  BY <1>1 DEF IInv, Sound, OneHomeUntilStale
<1> QED
  BY <1>2, Inductive, PTL
=============================================================================
