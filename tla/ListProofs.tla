----------------------------- MODULE ListProofs -----------------------------
(***************************************************************************)
(* The lists of an mstate: what pushing, taking, unlinking and placing a   *)
(* chunk does to them.                                                     *)
(***************************************************************************)
EXTENDS TilingProofs, WellFoundedInduction

\* The least number of a set.
LEMMA Least ==
  ASSUME NEW T, T \subseteq Nat, T # {}
  PROVE  \E x \in T : \A y \in T : x <= y
<1> DEFINE R == OpToRel(<, Nat)
<1>1. \A x, y \in Nat : <<y, x>> \in R <=> y < x
  BY DEF OpToRel
<1>2. IsWellFoundedOn(R, Nat)
  BY NatLessThanWellFounded
<1> HIDE DEF R
<1>3. \E x \in T : \A y \in T : ~(<<y, x>> \in R)
  BY ONLY <1>2, T \subseteq Nat, T # {}, WFMin, Zenon
<1>4. PICK x \in T : \A y \in T : ~(<<y, x>> \in R)
  BY <1>3
<1>5. ASSUME NEW y \in T PROVE x <= y
  <2>1. x \in Nat /\ y \in Nat /\ ~(<<y, x>> \in R)
    BY <1>4
  <2>2. ~(y < x)
    BY <1>1, <2>1, Zenon
  <2> QED BY ONLY <2>1, <2>2
<1> QED BY <1>5

---------------------------------------------------------------------------
(* Sequences without repetition                                            *)

\* r lists the elements of T, each once.
Lists(r, T) == r \in Seq(Chunk) /\ IsInjective(r) /\ ToSet(r) = T

\* What a list of chunks is, position by position.
LEMMA ListFacts ==
  ASSUME NEW s, NEW T, Lists(s, T)
  PROVE  /\ Len(s) \in Nat /\ DOMAIN s = 1..Len(s)
         /\ \A i \in 1..Len(s) : s[i] \in T /\ s[i] \in Chunk
         /\ \A i, j \in 1..Len(s) : s[i] = s[j] => i = j
         /\ \A p \in T : \E i \in 1..Len(s) : s[i] = p
         /\ s = <<>> <=> T = {}
         /\ s = <<>> <=> Len(s) = 0
<1>1. s \in Seq(Chunk) /\ T = {s[i] : i \in DOMAIN s}
  BY DEF Lists, ToSet
<1>2. Len(s) \in Nat /\ DOMAIN s = 1..Len(s)
  BY <1>1
<1>3. \A i \in 1..Len(s) : s[i] \in T /\ s[i] \in Chunk
  BY <1>1, <1>2
<1>4. \A i, j \in 1..Len(s) : s[i] = s[j] => i = j
  BY <1>2 DEF Lists, IsInjective
<1>5. \A p \in T : \E i \in 1..Len(s) : s[i] = p
  BY <1>1, <1>2
<1>6. s = <<>> <=> Len(s) = 0
  BY <1>1
<1>7. s = <<>> <=> T = {}
  <2>1. Len(s) = 0 => 1..Len(s) = {}
    BY <1>2
  <2>2. Len(s) # 0 => 1 \in 1..Len(s)
    BY <1>2
  <2> QED BY <1>3, <1>5, <1>6, <2>1, <2>2
<1> QED BY <1>2, <1>3, <1>4, <1>5, <1>6, <1>7

\* How a list is recognised.
LEMMA ListIs ==
  ASSUME NEW r \in Seq(Chunk), NEW T,
         \A i, j \in 1..Len(r) : r[i] = r[j] => i = j,
         \A i \in 1..Len(r) : r[i] \in T,
         \A p \in T : \E i \in 1..Len(r) : r[i] = p
  PROVE  Lists(r, T)
<1>1. DOMAIN r = 1..Len(r)
  OBVIOUS
<1>2. IsInjective(r)
  BY <1>1 DEF IsInjective
<1>3. ToSet(r) = T
  BY <1>1 DEF ToSet
<1> QED BY <1>2, <1>3 DEF Lists

\* A chunk goes to the front of a list.
LEMMA Pushes ==
  ASSUME NEW s, NEW T, Lists(s, T), NEW p \in Chunk, p \notin T
  PROVE  Lists(<<p>> \o s, T \cup {p}) /\ <<p>> \o s # <<>>
<1> DEFINE r == <<p>> \o s
<1>1. /\ s \in Seq(Chunk) /\ Len(s) \in Nat
      /\ \A i \in 1..Len(s) : s[i] \in T
      /\ \A i, j \in 1..Len(s) : s[i] = s[j] => i = j
      /\ \A q \in T : \E i \in 1..Len(s) : s[i] = q
  BY ListFacts DEF Lists
<1>2. /\ r \in Seq(Chunk) /\ Len(r) = Len(s) + 1 /\ r[1] = p
      /\ \A i \in 2..Len(r) : r[i] = s[i - 1]
  BY <1>1
<1> HIDE DEF r
<1>3. \A i \in 1..Len(r) : i = 1 \/ (i \in 2..Len(r) /\ i - 1 \in 1..Len(s))
  BY <1>1, <1>2
<1>4. ASSUME NEW i \in 1..Len(r), NEW j \in 1..Len(r), r[i] = r[j] PROVE i = j
  <2>1. CASE i = 1 \/ j = 1
    BY <1>1, <1>2, <1>3, <1>4, <2>1
  <2>2. CASE i # 1 /\ j # 1
    <3>1. i - 1 = j - 1
      BY <1>1, <1>2, <1>3, <1>4, <2>2
    <3> QED BY <3>1
  <2> QED BY <2>1, <2>2
<1>5. \A i \in 1..Len(r) : r[i] \in T \cup {p}
  BY <1>1, <1>2, <1>3
<1>6. ASSUME NEW q \in T \cup {p} PROVE \E i \in 1..Len(r) : r[i] = q
  <2>1. CASE q = p
    <3>1. 1 \in 1..Len(r)
      BY <1>1, <1>2
    <3> QED BY <1>2, <2>1, <3>1
  <2>2. CASE q \in T
    <3>1. PICK i \in 1..Len(s) : s[i] = q
      BY <1>1, <2>2
    <3>2. i + 1 \in 2..Len(r) /\ i + 1 \in 1..Len(r) /\ (i + 1) - 1 = i
      BY <1>1, <1>2
    <3> QED BY <1>2, <3>1, <3>2
  <2> QED BY <2>1, <2>2
<1>7. Lists(r, T \cup {p})
  BY <1>2, <1>4, <1>5, <1>6, ListIs
<1>8. r # <<>>
  BY <1>7, ListFacts
<1> QED BY <1>7, <1>8 DEF r

\* The first chunk leaves a list.
LEMMA Pops ==
  ASSUME NEW s, NEW T, Lists(s, T), s # <<>>
  PROVE  Head(s) \in T /\ Head(s) \in Chunk /\ Lists(Tail(s), T \ {Head(s)})
<1> DEFINE r == Tail(s)
           h == Head(s)
<1>1. /\ s \in Seq(Chunk) /\ Len(s) \in Nat /\ Len(s) # 0
      /\ \A i \in 1..Len(s) : s[i] \in T /\ s[i] \in Chunk
      /\ \A i, j \in 1..Len(s) : s[i] = s[j] => i = j
      /\ \A q \in T : \E i \in 1..Len(s) : s[i] = q
  BY ListFacts DEF Lists
<1>2. /\ r \in Seq(Chunk) /\ Len(r) = Len(s) - 1 /\ h = s[1]
      /\ \A i \in 1..Len(r) : r[i] = s[i + 1]
  BY <1>1
<1> HIDE DEF r, h
<1>3. /\ 1 \in 1..Len(s)
      /\ \A i \in 1..Len(r) : i + 1 \in 1..Len(s) /\ i + 1 # 1
      /\ \A i \in 1..Len(s) : i # 1 => i - 1 \in 1..Len(r) /\ (i - 1) + 1 = i
  BY <1>1, <1>2
<1>4. ASSUME NEW i \in 1..Len(r), NEW j \in 1..Len(r), r[i] = r[j] PROVE i = j
  <2>1. i + 1 = j + 1
    BY <1>1, <1>2, <1>3, <1>4
  <2> QED BY <2>1
<1>5. \A i \in 1..Len(r) : r[i] \in T \ {h}
  BY <1>1, <1>2, <1>3
<1>6. ASSUME NEW q \in T \ {h} PROVE \E i \in 1..Len(r) : r[i] = q
  <2>1. PICK i \in 1..Len(s) : s[i] = q
    BY <1>1
  <2>2. i # 1
    BY <1>2, <2>1
  <2>3. i - 1 \in 1..Len(r) /\ r[i - 1] = q
    BY <1>2, <1>3, <2>1, <2>2
  <2> QED BY <2>3
<1>7. Lists(r, T \ {h})
  BY <1>2, <1>4, <1>5, <1>6, ListIs
<1> QED BY <1>1, <1>2, <1>3, <1>7 DEF r, h

\* The last chunk leaves a list.
LEMMA TakesLast ==
  ASSUME NEW s, NEW T, Lists(s, T), s # <<>>
  PROVE  Last(s) \in T /\ Last(s) \in Chunk /\ Lists(Front(s), T \ {Last(s)})
<1> DEFINE r == Front(s)
           h == Last(s)
<1>1. /\ s \in Seq(Chunk) /\ Len(s) \in Nat /\ Len(s) # 0
      /\ \A i \in 1..Len(s) : s[i] \in T /\ s[i] \in Chunk
      /\ \A i, j \in 1..Len(s) : s[i] = s[j] => i = j
      /\ \A q \in T : \E i \in 1..Len(s) : s[i] = q
  BY ListFacts DEF Lists
<1>2. /\ r \in Seq(Chunk) /\ Len(r) = Len(s) - 1 /\ h = s[Len(s)]
      /\ \A i \in 1..Len(r) : r[i] = s[i]
  <2> DEFINE k == Len(s) - 1
  <2>1. k \in Nat /\ k <= Len(s) /\ r = SubSeq(s, 1, k) /\ h = s[Len(s)]
    BY <1>1 DEF Front, Last
  <2> HIDE DEF k
  <2>2. SubSeq(s, 1, k) \in Seq(Chunk) /\ Len(SubSeq(s, 1, k)) = k
    BY <1>1, <2>1
  <2>3. \A i \in 1..k : SubSeq(s, 1, k)[i] = s[i]
    BY <1>1, <2>1
  <2> QED BY <2>1, <2>2, <2>3 DEF k
<1> HIDE DEF r, h
<1>3. /\ Len(s) \in 1..Len(s)
      /\ \A i \in 1..Len(r) : i \in 1..Len(s) /\ i # Len(s)
      /\ \A i \in 1..Len(s) : i # Len(s) => i \in 1..Len(r)
  BY <1>1, <1>2
<1>4. \A i, j \in 1..Len(r) : r[i] = r[j] => i = j
  BY <1>1, <1>2, <1>3
<1>5. \A i \in 1..Len(r) : r[i] \in T \ {h}
  BY <1>1, <1>2, <1>3
<1>6. ASSUME NEW q \in T \ {h} PROVE \E i \in 1..Len(r) : r[i] = q
  BY <1>1, <1>2, <1>3
<1>7. Lists(r, T \ {h})
  BY <1>2, <1>4, <1>5, <1>6, ListIs
<1> QED BY <1>1, <1>2, <1>3, <1>7 DEF r, h

\* The elements of a concatenation.
LEMMA Concatenates ==
  ASSUME NEW f \in Seq(Chunk), NEW g \in Seq(Chunk)
  PROVE  /\ f \o g \in Seq(Chunk) /\ Len(f \o g) = Len(f) + Len(g)
         /\ Len(f) \in Nat /\ Len(g) \in Nat
         /\ \A k \in 1..Len(f) : (f \o g)[k] = f[k]
         /\ \A k \in 1..(Len(f) + Len(g)) : k > Len(f) => (f \o g)[k] = g[k - Len(f)]
<1>1. f \o g \in Seq(Chunk) /\ Len(f \o g) = Len(f) + Len(g) /\ Len(f) \in Nat /\ Len(g) \in Nat
  OBVIOUS
<1>2. \A k \in 1..(Len(f) + Len(g)) : (f \o g)[k] = IF k <= Len(f) THEN f[k] ELSE g[k - Len(f)]
  OBVIOUS
<1> QED
  BY <1>1, <1>2

\* Position i is taken out.
Deleted(r, s, i) ==
  /\ r \in Seq(Chunk) /\ Len(r) = Len(s) - 1
  /\ \A k \in 1..(i - 1) : r[k] = s[k]
  /\ \A k \in i..(Len(s) - 1) : r[k] = s[k + 1]

\* RemoveAt takes out one position.
LEMMA Deletes ==
  ASSUME NEW s \in Seq(Chunk), NEW i \in 1..Len(s)
  PROVE  Deleted(RemoveAt(s, i), s, i)
<1> DEFINE f == SubSeq(s, 1, i - 1)
           g == SubSeq(s, i + 1, Len(s))
           r == f \o g
<1>1. /\ f \in Seq(Chunk) /\ Len(f) = i - 1 /\ Len(s) \in Nat /\ i \in Nat \ {0} /\ i <= Len(s)
      /\ \A k \in 1..(i - 1) : f[k] = s[k]
  OBVIOUS
<1>2. /\ g \in Seq(Chunk) /\ Len(g) = Len(s) - i
      /\ \A k \in 1..(Len(s) - i) : g[k] = s[i + k]
  OBVIOUS
<1>3. RemoveAt(s, i) = r
  BY DEF RemoveAt
<1> HIDE DEF f, g
<1>4. /\ r \in Seq(Chunk) /\ Len(r) = Len(f) + Len(g)
      /\ \A k \in 1..Len(f) : r[k] = f[k]
      /\ \A k \in 1..(Len(f) + Len(g)) : k > Len(f) => r[k] = g[k - Len(f)]
  BY <1>1, <1>2, Concatenates
<1> HIDE DEF r
<1>5. Len(r) = Len(s) - 1
  BY <1>1, <1>2, <1>4
<1>6. \A k \in 1..(i - 1) : r[k] = s[k]
  BY <1>1, <1>4
<1>7. ASSUME NEW k \in i..(Len(s) - 1) PROVE r[k] = s[k + 1]
  <2>1. /\ k \in 1..(Len(f) + Len(g)) /\ k > Len(f)
        /\ k - Len(f) \in 1..(Len(s) - i) /\ i + (k - Len(f)) = k + 1
    BY <1>1, <1>2
  <2> QED BY <1>2, <1>4, <2>1
<1> QED BY <1>3, <1>4, <1>5, <1>6, <1>7 DEF Deleted

\* unlink takes a chunk off its list, and leaves other lists alone.
LEMMA Unlists ==
  ASSUME NEW s, NEW T, Lists(s, T), NEW p
  PROVE  Lists(Without(s, p), T \ {p})
<1>1. /\ s \in Seq(Chunk) /\ Len(s) \in Nat /\ DOMAIN s = 1..Len(s)
      /\ \A i \in 1..Len(s) : s[i] \in T /\ s[i] \in Chunk
      /\ \A i, j \in 1..Len(s) : s[i] = s[j] => i = j
      /\ \A q \in T : \E i \in 1..Len(s) : s[i] = q
  BY ListFacts DEF Lists
<1>2. CASE p \notin T
  <2>1. T \ {p} = T /\ Without(s, p) = s
    BY <1>2 DEF Without, Lists
  <2> QED BY <2>1
<1>3. CASE p \in T
  <2> DEFINE k == CHOOSE i \in DOMAIN s : s[i] = p
             r == RemoveAt(s, k)
  <2>1. Without(s, p) = r
    BY <1>3 DEF Without, Lists
  <2>2. k \in 1..Len(s) /\ s[k] = p
    BY <1>1, <1>3
  <2> HIDE DEF k
  <2>3. /\ r \in Seq(Chunk) /\ Len(r) = Len(s) - 1
        /\ \A i \in 1..(k - 1) : r[i] = s[i]
        /\ \A i \in k..(Len(s) - 1) : r[i] = s[i + 1]
    BY <1>1, <2>2, Deletes DEF Deleted
  <2> HIDE DEF r
  <2>4. \A i \in 1..Len(r) : \/ i \in 1..(k - 1) /\ i \in 1..Len(s) /\ i < k
                             \/ i \in k..(Len(s) - 1) /\ i + 1 \in 1..Len(s) /\ i + 1 > k
    BY <1>1, <2>2, <2>3
  <2>5. ASSUME NEW i \in 1..Len(r), NEW j \in 1..Len(r), r[i] = r[j] PROVE i = j
    <3>1. CASE i < k /\ j < k
      BY <1>1, <2>2, <2>3, <2>4, <2>5, <3>1
    <3>2. CASE i >= k /\ j >= k
      <4>1. i + 1 = j + 1
        BY <1>1, <2>2, <2>3, <2>4, <2>5, <3>2
      <4> QED BY <4>1
    <3>3. CASE i < k /\ j >= k
      <4>1. i = j + 1
        BY <1>1, <2>2, <2>3, <2>4, <2>5, <3>3
      <4> QED BY <2>2, <3>3, <4>1
    <3>4. CASE i >= k /\ j < k
      <4>1. i + 1 = j
        BY <1>1, <2>2, <2>3, <2>4, <2>5, <3>4
      <4> QED BY <2>2, <3>4, <4>1
    <3> QED BY <2>2, <3>1, <3>2, <3>3, <3>4
  <2>6. ASSUME NEW i \in 1..Len(r) PROVE r[i] \in T \ {p}
    BY <1>1, <2>2, <2>3, <2>4
  <2>7. ASSUME NEW q \in T \ {p} PROVE \E i \in 1..Len(r) : r[i] = q
    <3>1. PICK j \in 1..Len(s) : s[j] = q
      BY <1>1
    <3>2. CASE j < k
      <4>1. j \in 1..(k - 1) /\ j \in 1..Len(r)
        BY <1>1, <2>2, <2>3, <3>2
      <4> QED BY <2>3, <3>1, <4>1
    <3>3. CASE j > k
      <4>1. j - 1 \in k..(Len(s) - 1) /\ j - 1 \in 1..Len(r) /\ (j - 1) + 1 = j
        BY <1>1, <2>2, <2>3, <3>3
      <4> QED BY <2>3, <3>1, <4>1
    <3> QED BY <2>2, <3>1, <3>2, <3>3
  <2> QED BY <2>1, <2>3, <2>5, <2>6, <2>7, ListIs
<1> QED BY <1>2, <1>3

\* A chunk is inserted at position k.
LEMMA Inserts ==
  ASSUME NEW s, NEW T, Lists(s, T), NEW p \in Chunk, p \notin T, NEW k \in 1..(Len(s) + 1)
  PROVE  Lists(InsertAt(s, k, p), T \cup {p}) /\ InsertAt(s, k, p) # <<>>
<1> DEFINE f == SubSeq(s, 1, k - 1)
           g == SubSeq(s, k, Len(s))
           h == f \o <<p>>
           r == h \o g
<1>1. /\ s \in Seq(Chunk) /\ Len(s) \in Nat /\ DOMAIN s = 1..Len(s)
      /\ \A i \in 1..Len(s) : s[i] \in T /\ s[i] \in Chunk
      /\ \A i, j \in 1..Len(s) : s[i] = s[j] => i = j
      /\ \A q \in T : \E i \in 1..Len(s) : s[i] = q
  BY ListFacts DEF Lists
<1>2. /\ f \in Seq(Chunk) /\ Len(f) = k - 1 /\ k \in Nat \ {0} /\ k <= Len(s) + 1
      /\ \A i \in 1..(k - 1) : f[i] = s[i]
  BY <1>1
<1>3. /\ g \in Seq(Chunk) /\ Len(g) = (Len(s) - k) + 1
      /\ \A i \in 1..((Len(s) - k) + 1) : g[i] = s[(k + i) - 1]
  BY <1>1, <1>2
<1>4. InsertAt(s, k, p) = r
  BY DEF InsertAt
<1> HIDE DEF f, g
<1>5. h \in Seq(Chunk) /\ Len(h) = k /\ h[k] = p /\ \A i \in 1..(k - 1) : h[i] = s[i]
  BY <1>2
<1> HIDE DEF h
<1>6. /\ r \in Seq(Chunk) /\ Len(r) = Len(h) + Len(g)
      /\ \A i \in 1..Len(h) : r[i] = h[i]
      /\ \A i \in 1..(Len(h) + Len(g)) : i > Len(h) => r[i] = g[i - Len(h)]
  BY <1>3, <1>5, Concatenates
<1> HIDE DEF r
<1>7. Len(r) = Len(s) + 1
  BY <1>1, <1>2, <1>3, <1>5, <1>6
<1>8. (\A i \in 1..(k - 1) : r[i] = s[i]) /\ r[k] = p
  <2>1. \A i \in 1..(k - 1) : i \in 1..Len(h)
    BY <1>2, <1>5
  <2>2. k \in 1..Len(h)
    BY <1>2, <1>5
  <2> QED BY <1>5, <1>6, <2>1, <2>2
<1>9. ASSUME NEW i \in (k + 1)..(Len(s) + 1) PROVE r[i] = s[i - 1]
  <2>1. /\ i \in 1..(Len(h) + Len(g)) /\ i > Len(h)
        /\ i - Len(h) \in 1..((Len(s) - k) + 1) /\ (k + (i - Len(h))) - 1 = i - 1
    BY <1>1, <1>2, <1>3, <1>5
  <2> QED BY <1>3, <1>6, <2>1
<1>10. \A i \in 1..Len(r) : \/ i = k
                            \/ i \in 1..(k - 1) /\ i \in 1..Len(s) /\ i < k
                            \/ i \in (k + 1)..(Len(s) + 1) /\ i - 1 \in 1..Len(s) /\ i - 1 >= k
  BY <1>1, <1>2, <1>7
<1>11. \A i \in 1..Len(r) : r[i] \in T \cup {p}
  BY <1>1, <1>8, <1>9, <1>10
<1>12. ASSUME NEW i \in 1..Len(r), NEW j \in 1..Len(r), r[i] = r[j] PROVE i = j
  <2>1. CASE i = k \/ j = k
    BY <1>1, <1>8, <1>9, <1>10, <1>12, <2>1
  <2>2. CASE i < k /\ j < k
    BY <1>1, <1>2, <1>8, <1>10, <1>12, <2>2
  <2>3. CASE i > k /\ j > k
    <3>1. i - 1 = j - 1
      BY <1>1, <1>2, <1>9, <1>10, <1>12, <2>3
    <3> QED BY <3>1
  <2>4. CASE i < k /\ j > k
    <3>1. i = j - 1
      BY <1>1, <1>2, <1>8, <1>9, <1>10, <1>12, <2>4
    <3> QED BY <1>2, <2>4, <3>1
  <2>5. CASE i > k /\ j < k
    <3>1. i - 1 = j
      BY <1>1, <1>2, <1>8, <1>9, <1>10, <1>12, <2>5
    <3> QED BY <1>2, <2>5, <3>1
  <2> QED BY <1>2, <2>1, <2>2, <2>3, <2>4, <2>5
<1>13. ASSUME NEW q \in T \cup {p} PROVE \E i \in 1..Len(r) : r[i] = q
  <2>1. CASE q = p
    <3>1. k \in 1..Len(r)
      BY <1>1, <1>2, <1>7
    <3> QED BY <1>8, <2>1, <3>1
  <2>2. CASE q \in T
    <3>1. PICK j \in 1..Len(s) : s[j] = q
      BY <1>1, <2>2
    <3>2. CASE j < k
      <4>1. j \in 1..(k - 1) /\ j \in 1..Len(r)
        BY <1>1, <1>2, <1>7, <3>2
      <4> QED BY <1>8, <3>1, <4>1
    <3>3. CASE j >= k
      <4>1. j + 1 \in (k + 1)..(Len(s) + 1) /\ j + 1 \in 1..Len(r) /\ (j + 1) - 1 = j
        BY <1>1, <1>2, <1>7, <3>3
      <4> QED BY <1>9, <3>1, <4>1
    <3> QED BY <1>2, <3>2, <3>3
  <2> QED BY <2>1, <2>2
<1>14. Lists(r, T \cup {p})
  BY <1>6, <1>11, <1>12, <1>13, ListIs
<1>15. r # <<>>
  BY <1>14, ListFacts
<1> QED BY <1>4, <1>14, <1>15

---------------------------------------------------------------------------
(* The lists of an mstate                                                  *)

QuickOf(a) == UNION {ToSet(a.fastbins[s]) : s \in Fast}

\* What ListsRight says of one mstate a, for the sizes in memory m.
MstOK(a, m) ==
  /\ a \in Mstate
  /\ Lists(a.unsorted, ToSet(a.unsorted))
  /\ \A i \in Bins : Lists(a.bins[i], ToSet(a.bins[i]))
  /\ \A s \in Fast : Lists(a.fastbins[s], ToSet(a.fastbins[s]))
  /\ \A i \in Bins : a.bins[i] # <<>> => i \in a.binmap /\ a.any
  /\ \A i \in Bins : \A p \in ToSet(a.bins[i]) :
       bin_index(chunksize(m, p)) = i /\ p \notin ToSet(a.unsorted)
  /\ \A s \in Fast : a.fastbins[s] # <<>> => a.any
  /\ \A s \in Fast : \A p \in ToSet(a.fastbins[s]) : chunksize(m, p) = s
  /\ a.unsorted # <<>> => a.any

\* A chunk on the unsorted list or in a bin.
LEMMA BinnedIs ==
  ASSUME NEW a, NEW p
  PROVE  p \in Binned(a) <=> p \in ToSet(a.unsorted) \/ \E i \in Bins : p \in ToSet(a.bins[i])
BY DEF Binned

\* A chunk in a fastbin.
LEMMA QuickIs ==
  ASSUME NEW a, NEW p
  PROVE  p \in QuickOf(a) <=> \E s \in Fast : p \in ToSet(a.fastbins[s])
BY DEF QuickOf

\* The fields of an mstate.
LEMMA MstFields ==
  ASSUME NEW a \in Mstate
  PROVE  /\ a.any \in BOOLEAN /\ a.fast \in BOOLEAN
         /\ a.fastbins \in [Fast -> Seq(Chunk)] /\ a.unsorted \in Seq(Chunk)
         /\ a.bins \in [Bins -> Seq(Chunk)] /\ a.binmap \subseteq Bins
         /\ a.last_remainder \in Chunk \cup {Nil}
BY DEF Mstate

\* What a step does to the lists of an mstate: fr are the free chunks, Q the
\* fast ones.
Relists(a, a2, m, fr, Q) ==
  /\ MstOK(a2, m) /\ Binned(a2) = fr /\ QuickOf(a2) = Q
  /\ a2.any = a.any /\ a2.fast = a.fast

InBins(a) == UNION {ToSet(a.bins[i]) : i \in Bins}

\* Another unsorted list.
WithUnsorted(a, r) == [a EXCEPT !.unsorted = r]

\* Another unsorted list keeps the mstate right if its chunks are in no bin.
LEMMA SetsUnsorted ==
  ASSUME NEW a, NEW m, MstOK(a, m), NEW r, NEW T, Lists(r, T),
         a.any \/ r = <<>>, InBins(a) \cap T = {}
  PROVE  Relists(a, WithUnsorted(a, r), m, T \cup InBins(a), QuickOf(a))
<1> DEFINE a2 == WithUnsorted(a, r)
<1>1. r \in Seq(Chunk) /\ ToSet(r) = T
  BY DEF Lists
<1>2. /\ a2 \in Mstate /\ a2.any = a.any /\ a2.fast = a.fast /\ a2.fastbins = a.fastbins
      /\ a2.unsorted = r /\ a2.bins = a.bins /\ a2.binmap = a.binmap
  BY <1>1 DEF MstOK, Mstate, WithUnsorted
<1> HIDE DEF a2
<1>3. MstOK(a2, m)
  <2>1. \A i \in Bins : \A p \in ToSet(a.bins[i]) : p \notin T
    BY DEF InBins
  <2> QED BY <1>1, <1>2, <2>1 DEF MstOK
<1>4. Binned(a2) = T \cup InBins(a)
  BY <1>1, <1>2 DEF Binned, InBins
<1>5. QuickOf(a2) = QuickOf(a)
  BY <1>2 DEF QuickOf
<1> QED BY <1>2, <1>3, <1>4, <1>5 DEF Relists, a2

\* The unsorted list of a right mstate is apart from its bins.
LEMMA UnsortedApart ==
  ASSUME NEW a, NEW m, MstOK(a, m)
  PROVE  /\ Lists(a.unsorted, ToSet(a.unsorted))
         /\ InBins(a) \cap ToSet(a.unsorted) = {}
         /\ Binned(a) = ToSet(a.unsorted) \cup InBins(a)
         /\ a.any \/ a.unsorted = <<>>
BY DEF MstOK, Binned, InBins

\* A chunk is put on the unsorted list.
LEMMA PushesUnsorted ==
  ASSUME NEW a, NEW m, MstOK(a, m), a.any, NEW p \in Chunk, p \notin Binned(a)
  PROVE  Relists(a, [a EXCEPT !.unsorted = <<p>> \o @], m, Binned(a) \cup {p}, QuickOf(a))
<1> DEFINE T == ToSet(a.unsorted)
           r == <<p>> \o a.unsorted
<1>1. Lists(a.unsorted, T) /\ p \notin T /\ p \notin InBins(a) /\ InBins(a) \cap T = {}
      /\ Binned(a) = T \cup InBins(a)
  BY UnsortedApart
<1>2. Lists(r, T \cup {p})
  BY <1>1, Pushes
<1>3. InBins(a) \cap (T \cup {p}) = {}
  BY <1>1
<1>4. [a EXCEPT !.unsorted = <<p>> \o @] = WithUnsorted(a, r)
  BY DEF WithUnsorted
<1> HIDE DEF r
<1>5. Relists(a, WithUnsorted(a, r), m, (T \cup {p}) \cup InBins(a), QuickOf(a))
  BY <1>2, <1>3, SetsUnsorted
<1>6. (T \cup {p}) \cup InBins(a) = Binned(a) \cup {p}
  BY <1>1
<1> QED BY <1>4, <1>5, <1>6

\* The unsorted list was empty.
LEMMA StartsUnsorted ==
  ASSUME NEW a, NEW m, MstOK(a, m), a.any, a.unsorted = <<>>, NEW p \in Chunk, p \notin Binned(a)
  PROVE  Relists(a, [a EXCEPT !.unsorted = <<p>>], m, Binned(a) \cup {p}, QuickOf(a))
<1>1. ToSet(a.unsorted) = {} /\ Binned(a) = {} \cup InBins(a)
  <2>1. Lists(a.unsorted, ToSet(a.unsorted)) /\ Binned(a) = ToSet(a.unsorted) \cup InBins(a)
    BY UnsortedApart
  <2>2. ToSet(a.unsorted) = {}
    BY <2>1, ListFacts
  <2> QED BY <2>1, <2>2
<1>2. Lists(<<p>>, {p})
  BY DEF Lists, IsInjective, ToSet
<1>3. InBins(a) \cap {p} = {}
  BY <1>1
<1>4. Relists(a, WithUnsorted(a, <<p>>), m, {p} \cup InBins(a), QuickOf(a))
  BY <1>2, <1>3, SetsUnsorted
<1>5. {p} \cup InBins(a) = Binned(a) \cup {p}
  BY <1>1
<1> QED BY <1>4, <1>5 DEF WithUnsorted

\* The last chunk of the unsorted list is taken.
LEMMA TakesUnsorted ==
  ASSUME NEW a, NEW m, MstOK(a, m), a.unsorted # <<>>
  PROVE  /\ Relists(a, [a EXCEPT !.unsorted = Front(@)], m,
                    Binned(a) \ {Last(a.unsorted)}, QuickOf(a))
         /\ Last(a.unsorted) \in Binned(a) /\ Last(a.unsorted) \in Chunk
<1> DEFINE T == ToSet(a.unsorted)
           v == Last(a.unsorted)
           r == Front(a.unsorted)
<1>1. /\ Lists(a.unsorted, T) /\ InBins(a) \cap T = {} /\ Binned(a) = T \cup InBins(a)
      /\ a.any
  BY UnsortedApart
<1>2. v \in T /\ v \in Chunk /\ Lists(r, T \ {v})
  BY <1>1, TakesLast
<1>3. InBins(a) \cap (T \ {v}) = {}
  BY <1>1
<1>4. [a EXCEPT !.unsorted = Front(@)] = WithUnsorted(a, r)
  BY DEF WithUnsorted
<1> HIDE DEF r
<1>5. Relists(a, WithUnsorted(a, r), m, (T \ {v}) \cup InBins(a), QuickOf(a))
  BY <1>1, <1>2, <1>3, SetsUnsorted
<1>6. (T \ {v}) \cup InBins(a) = Binned(a) \ {v} /\ v \in Binned(a)
  BY <1>1, <1>2
<1> QED BY <1>2, <1>4, <1>5, <1>6

\* Other bins g, which bm marks.
WithBins(a, g, bm) == [a EXCEPT !.bins = g, !.binmap = bm]
BinsOK(a, m, g, bm) ==
  /\ g \in [Bins -> Seq(Chunk)] /\ bm \in SUBSET Bins
  /\ \A i \in Bins : Lists(g[i], ToSet(g[i]))
  /\ \A i \in Bins : g[i] # <<>> => i \in bm /\ a.any
  /\ \A i \in Bins : \A p \in ToSet(g[i]) :
       bin_index(chunksize(m, p)) = i /\ p \notin ToSet(a.unsorted)

\* Other bins keep the mstate right if they are marked and sorted by size.
LEMMA SetsBins ==
  ASSUME NEW a, NEW m, MstOK(a, m), NEW g, NEW bm, BinsOK(a, m, g, bm)
  PROVE  Relists(a, WithBins(a, g, bm), m,
                 ToSet(a.unsorted) \cup UNION {ToSet(g[i]) : i \in Bins}, QuickOf(a))
<1> DEFINE a2 == WithBins(a, g, bm)
<1>2. /\ a2 \in Mstate /\ a2.any = a.any /\ a2.fast = a.fast /\ a2.fastbins = a.fastbins
      /\ a2.unsorted = a.unsorted /\ a2.bins = g /\ a2.binmap = bm
  BY DEF MstOK, Mstate, WithBins, BinsOK
<1> HIDE DEF a2
<1>3. MstOK(a2, m)
  BY <1>2 DEF MstOK, BinsOK
<1>4. Binned(a2) = ToSet(a.unsorted) \cup UNION {ToSet(g[i]) : i \in Bins}
  BY <1>2 DEF Binned
<1>5. QuickOf(a2) = QuickOf(a)
  BY <1>2 DEF QuickOf
<1> QED BY <1>2, <1>3, <1>4, <1>5 DEF Relists, a2

\* A chunk is unlinked.
LEMMA Unlinked ==
  ASSUME NEW a, NEW m, MstOK(a, m), NEW p
  PROVE  Relists(a, unlink(a, p), m, Binned(a) \ {p}, QuickOf(a))
<1> DEFINE r == Without(a.unsorted, p)
           g == [i \in Bins |-> Without(a.bins[i], p)]
           T == ToSet(a.unsorted)
           a1 == WithUnsorted(a, r)
           a2 == WithBins(a1, g, a.binmap)
<1>1. Lists(a.unsorted, T) /\ InBins(a) \cap T = {} /\ (a.any \/ a.unsorted = <<>>)
  BY UnsortedApart
<1>2. Lists(r, T \ {p}) /\ (r = <<>> \/ a.unsorted # <<>>)
  <2>1. Lists(r, T \ {p})
    BY <1>1, Unlists
  <2>2. r = <<>> \/ T \ {p} # {}
    BY <2>1, ListFacts
  <2>3. T = {} \/ a.unsorted # <<>>
    BY <1>1, ListFacts
  <2> QED BY <2>1, <2>2, <2>3
<1>3. ASSUME NEW i \in Bins
      PROVE  /\ g[i] \in Seq(Chunk) /\ ToSet(g[i]) = ToSet(a.bins[i]) \ {p}
             /\ Lists(g[i], ToSet(g[i])) /\ (g[i] # <<>> => a.bins[i] # <<>>)
  <2>1. Lists(a.bins[i], ToSet(a.bins[i]))
    BY DEF MstOK
  <2>2. Lists(g[i], ToSet(a.bins[i]) \ {p})
    BY <2>1, Unlists
  <2>3. g[i] \in Seq(Chunk) /\ ToSet(g[i]) = ToSet(a.bins[i]) \ {p}
    BY <2>2 DEF Lists
  <2>4. g[i] # <<>> => ToSet(g[i]) # {}
    BY <2>2, <2>3, ListFacts
  <2>5. ToSet(a.bins[i]) # {} => a.bins[i] # <<>>
    BY <2>1, ListFacts
  <2> QED BY <2>2, <2>3, <2>4, <2>5
<1>4. g \in [Bins -> Seq(Chunk)]
  BY <1>3
<1>5. unlink(a, p) = a2
  BY DEF MstOK, Mstate, unlink, WithUnsorted, WithBins
<1> HIDE DEF r, g
<1>6. Relists(a, a1, m, (T \ {p}) \cup InBins(a), QuickOf(a))
  <2>1. InBins(a) \cap (T \ {p}) = {} /\ (a.any \/ r = <<>>)
    BY <1>1, <1>2
  <2> QED BY <1>2, <2>1, SetsUnsorted
<1>7. a1.unsorted = r /\ a.binmap \in SUBSET Bins /\ ToSet(r) = T \ {p}
  BY <1>2 DEF MstOK, Mstate, WithUnsorted, Lists
<1> HIDE DEF a1
<1>8. BinsOK(a1, m, g, a.binmap)
  <2>1. \A i \in Bins : g[i] # <<>> => i \in a.binmap /\ a1.any
    BY <1>3, <1>6 DEF MstOK, Relists
  <2>2. ASSUME NEW i \in Bins, NEW q \in ToSet(g[i])
        PROVE  bin_index(chunksize(m, q)) = i /\ q \notin ToSet(a1.unsorted)
    <3>1. q \in ToSet(a.bins[i])
      BY <1>3
    <3>2. q \notin T /\ bin_index(chunksize(m, q)) = i
      BY <3>1 DEF MstOK
    <3> QED BY <1>7, <3>2
  <2> QED BY <1>3, <1>4, <1>7, <2>1, <2>2 DEF BinsOK
<1>9. Relists(a1, a2, m, ToSet(a1.unsorted) \cup UNION {ToSet(g[i]) : i \in Bins}, QuickOf(a1))
  BY <1>6, <1>8, SetsBins DEF Relists
<1>10. ToSet(a1.unsorted) \cup UNION {ToSet(g[i]) : i \in Bins} = Binned(a) \ {p}
  <2>1. ToSet(a1.unsorted) = T \ {p}
    BY <1>7
  <2>2. UNION {ToSet(g[i]) : i \in Bins} = InBins(a) \ {p}
    <3>1. \A q : q \in UNION {ToSet(g[i]) : i \in Bins} <=> \E i \in Bins : q \in ToSet(g[i])
      OBVIOUS
    <3>2. \A q : q \in InBins(a) <=> \E i \in Bins : q \in ToSet(a.bins[i])
      BY DEF InBins
    <3>3. \A q : \A i \in Bins : q \in ToSet(g[i]) <=> q \in ToSet(a.bins[i]) /\ q # p
      BY <1>3
    <3> QED BY <3>1, <3>2, <3>3
  <2> QED BY <2>1, <2>2, UnsortedApart
<1> QED BY <1>5, <1>6, <1>9, <1>10 DEF Relists

\* One bin is another list.
LEMMA SetsBin ==
  ASSUME NEW a, NEW m, MstOK(a, m), NEW i \in Bins, NEW r, NEW T, Lists(r, T),
         \A p \in T : bin_index(chunksize(m, p)) = i /\ p \notin ToSet(a.unsorted),
         NEW bm, bm \subseteq Bins, r # <<>> => i \in bm /\ a.any,
         \A j \in Bins : j # i /\ a.bins[j] # <<>> => j \in bm
  PROVE  Relists(a, WithBins(a, [a.bins EXCEPT ![i] = r], bm), m,
                 (Binned(a) \ ToSet(a.bins[i])) \cup T, QuickOf(a))
<1> DEFINE g == [a.bins EXCEPT ![i] = r]
<1>1. /\ a.bins \in [Bins -> Seq(Chunk)] /\ r \in Seq(Chunk) /\ ToSet(r) = T
  BY DEF MstOK, Mstate, Lists
<1>2. g \in [Bins -> Seq(Chunk)] /\ g[i] = r /\ \A j \in Bins : j # i => g[j] = a.bins[j]
  BY <1>1
<1> HIDE DEF g
<1>3. BinsOK(a, m, g, bm)
  <2>1. \A j \in Bins : Lists(g[j], ToSet(g[j]))
    BY <1>1, <1>2 DEF MstOK
  <2>2. \A j \in Bins : g[j] # <<>> => j \in bm /\ a.any
    BY <1>2 DEF MstOK
  <2>3. \A j \in Bins : \A p \in ToSet(g[j]) :
          bin_index(chunksize(m, p)) = j /\ p \notin ToSet(a.unsorted)
    BY <1>1, <1>2 DEF MstOK
  <2> QED BY <1>2, <2>1, <2>2, <2>3 DEF BinsOK
<1>4. Relists(a, WithBins(a, g, bm), m,
              ToSet(a.unsorted) \cup UNION {ToSet(g[j]) : j \in Bins}, QuickOf(a))
  BY <1>3, SetsBins
<1>5. ToSet(a.unsorted) \cup UNION {ToSet(g[j]) : j \in Bins}
        = (Binned(a) \ ToSet(a.bins[i])) \cup T
  <2>1. \A q : q \in UNION {ToSet(g[j]) : j \in Bins} <=> \E j \in Bins : q \in ToSet(g[j])
    OBVIOUS
  <2>2. \A q : q \in Binned(a) <=> q \in ToSet(a.unsorted) \/ \E j \in Bins : q \in ToSet(a.bins[j])
    BY BinnedIs
  <2>3. \A q : q \in ToSet(a.unsorted) => q \notin ToSet(a.bins[i])
    BY DEF MstOK
  <2>4. \A q : \A j \in Bins : j # i /\ q \in ToSet(a.bins[j]) => q \notin ToSet(a.bins[i])
    BY DEF MstOK
  <2>5. ASSUME NEW q
        PROVE  (q \in ToSet(a.unsorted) \/ \E j \in Bins : q \in ToSet(g[j]))
                 <=> (q \in Binned(a) /\ q \notin ToSet(a.bins[i])) \/ q \in T
    BY <1>1, <1>2, <2>2, <2>3, <2>4
  <2> QED BY <2>1, <2>5
<1> QED BY <1>4, <1>5 DEF g

\* The last chunk of a bin is taken; empty bins may lose their marks.
LEMMA TakesFromBin ==
  ASSUME NEW a, NEW m, MstOK(a, m), NEW i \in Bins, a.bins[i] # <<>>,
         NEW bm, bm \subseteq Bins, \A j \in Bins : a.bins[j] # <<>> => j \in bm
  PROVE  /\ Relists(a, WithBins(a, [a.bins EXCEPT ![i] = Front(a.bins[i])], bm), m,
                    Binned(a) \ {Last(a.bins[i])}, QuickOf(a))
         /\ Last(a.bins[i]) \in Binned(a) /\ Last(a.bins[i]) \in Chunk
         /\ Last(a.bins[i]) \in ToSet(a.bins[i])
<1> DEFINE T == ToSet(a.bins[i])
           v == Last(a.bins[i])
           r == Front(a.bins[i])
<1>1. /\ Lists(a.bins[i], T) /\ a.any
      /\ \A p \in T : bin_index(chunksize(m, p)) = i /\ p \notin ToSet(a.unsorted)
  BY DEF MstOK
<1>2. v \in T /\ v \in Chunk /\ Lists(r, T \ {v})
  BY <1>1, TakesLast
<1>3. v \in Binned(a) /\ T \subseteq Binned(a)
  BY <1>2, BinnedIs
<1> HIDE DEF r
<1>4. Relists(a, WithBins(a, [a.bins EXCEPT ![i] = r], bm), m,
              (Binned(a) \ T) \cup (T \ {v}), QuickOf(a))
  <2>1. \A p \in T \ {v} : bin_index(chunksize(m, p)) = i /\ p \notin ToSet(a.unsorted)
    BY <1>1
  <2> QED BY <1>1, <1>2, <2>1, SetsBin
<1>5. (Binned(a) \ T) \cup (T \ {v}) = Binned(a) \ {v}
  BY <1>2, <1>3
<1> QED BY <1>2, <1>3, <1>4, <1>5 DEF r

\* malloc_small, and the search of the larger bins.
LEMMA TakesSmall ==
  ASSUME NEW a, NEW m, MstOK(a, m), NEW i \in Bins, a.bins[i] # <<>>
  PROVE  /\ Relists(a, [a EXCEPT !.bins[i] = Front(@)], m,
                    Binned(a) \ {Last(a.bins[i])}, QuickOf(a))
         /\ Last(a.bins[i]) \in Binned(a) /\ Last(a.bins[i]) \in Chunk
         /\ Last(a.bins[i]) \in ToSet(a.bins[i])
<1>1. a.binmap \subseteq Bins /\ \A j \in Bins : a.bins[j] # <<>> => j \in a.binmap
  BY DEF MstOK, Mstate
<1>2. [a EXCEPT !.bins[i] = Front(@)] = WithBins(a, [a.bins EXCEPT ![i] = Front(a.bins[i])], a.binmap)
  BY DEF MstOK, Mstate, WithBins
<1> DEFINE g == [a.bins EXCEPT ![i] = Front(a.bins[i])]
<1> HIDE DEF g
<1>3. Relists(a, WithBins(a, g, a.binmap), m, Binned(a) \ {Last(a.bins[i])}, QuickOf(a))
  BY <1>1, TakesFromBin DEF g
<1>4. /\ Last(a.bins[i]) \in Binned(a) /\ Last(a.bins[i]) \in Chunk
      /\ Last(a.bins[i]) \in ToSet(a.bins[i])
  BY <1>1, TakesFromBin
<1> QED BY <1>2, <1>3, <1>4 DEF g

\* The last chunk of a larger bin leaves it, and marks of empty bins go.
LEMMA TakesLarger ==
  ASSUME NEW a, NEW m, MstOK(a, m), NEW i \in Bins, a.bins[i] # <<>>,
         NEW S, \A j \in Bins : a.bins[j] # <<>> => j \notin S
  PROVE  /\ Relists(a, [a EXCEPT !.bins[i] = Front(@), !.binmap = @ \ S], m,
                    Binned(a) \ {Last(a.bins[i])}, QuickOf(a))
         /\ Last(a.bins[i]) \in Binned(a) /\ Last(a.bins[i]) \in Chunk
         /\ Last(a.bins[i]) \in ToSet(a.bins[i])
<1>1. a.binmap \ S \subseteq Bins /\ \A j \in Bins : a.bins[j] # <<>> => j \in a.binmap \ S
  BY DEF MstOK, Mstate
<1>2. [a EXCEPT !.bins[i] = Front(@), !.binmap = @ \ S]
        = WithBins(a, [a.bins EXCEPT ![i] = Front(a.bins[i])], a.binmap \ S)
  BY DEF MstOK, Mstate, WithBins
<1> DEFINE g == [a.bins EXCEPT ![i] = Front(a.bins[i])]
           bm == a.binmap \ S
<1> HIDE DEF bm
<1>3. Relists(a, WithBins(a, g, bm), m, Binned(a) \ {Last(a.bins[i])}, QuickOf(a))
  BY <1>1, TakesFromBin DEF bm
<1>4. /\ Last(a.bins[i]) \in Binned(a) /\ Last(a.bins[i]) \in Chunk
      /\ Last(a.bins[i]) \in ToSet(a.bins[i])
  BY <1>1, TakesFromBin
<1> QED BY <1>2, <1>3, <1>4 DEF bm

\* Empty bins lose their marks.
LEMMA ClearsMarks ==
  ASSUME NEW a, NEW m, MstOK(a, m), NEW S, \A j \in Bins : a.bins[j] # <<>> => j \notin S
  PROVE  Relists(a, [a EXCEPT !.binmap = @ \ S], m, Binned(a), QuickOf(a))
<1>1. BinsOK(a, m, a.bins, a.binmap \ S)
  BY DEF MstOK, Mstate, BinsOK
<1>2. [a EXCEPT !.binmap = @ \ S] = WithBins(a, a.bins, a.binmap \ S)
  BY DEF MstOK, Mstate, WithBins
<1>3. Relists(a, WithBins(a, a.bins, a.binmap \ S), m,
              ToSet(a.unsorted) \cup UNION {ToSet(a.bins[i]) : i \in Bins}, QuickOf(a))
  BY <1>1, SetsBins
<1> QED BY <1>2, <1>3 DEF Binned

\* The sizes of chunks as the layout has them.
SizesFit(m, S) == \A p \in S : m[p + 4] \in Nat /\ chunksize(m, p) \in ChunkSize

\* A chunk of the unsorted list goes to its bin, where it keeps the order of
\* sizes.
LEMMA Places ==
  ASSUME NEW a, NEW m, MstOK(a, m), a.any, NEW v \in Chunk, v \notin Binned(a),
         SizesFit(m, Binned(a) \cup {v}), bin_index(chunksize(m, v)) \in Bins
  PROVE  Relists(a, PlaceInBin(a, m, v), m, Binned(a) \cup {v}, QuickOf(a))
<1> DEFINE size == chunksize(m, v)
           i    == bin_index(size)
           bin  == a.bins[i]
           T    == ToSet(bin)
           pos  == IF in_smallbin_range(size) \/ bin = <<>> THEN 1
                   ELSE IF size < m[bin[Len(bin)] + 4] THEN Len(bin) + 1
                   ELSE CHOOSE k \in DOMAIN bin :
                     size + 1 >= m[bin[k] + 4] /\ \A j \in 1..(k - 1) : size + 1 < m[bin[j] + 4]
           r == InsertAt(bin, pos, v)
<1>1. /\ Lists(bin, T) /\ i \in Bins
      /\ \A p \in T : bin_index(chunksize(m, p)) = i /\ p \notin ToSet(a.unsorted)
      /\ T \subseteq Binned(a)
  BY BinnedIs DEF MstOK
<1>2. /\ Len(bin) \in Nat /\ DOMAIN bin = 1..Len(bin)
      /\ \A k \in 1..Len(bin) : bin[k] \in T
      /\ bin = <<>> <=> Len(bin) = 0
  BY <1>1, ListFacts
<1>3. v \notin T /\ v \notin ToSet(a.unsorted)
  BY <1>1, BinnedIs
<1>4. \A k \in 1..Len(bin) : m[bin[k] + 4] \in Nat
  BY <1>1, <1>2 DEF SizesFit
<1>5. size \in Nat
  <2>1. size \in MINSIZE..UNIT_SIZE
    BY DEF SizesFit, ChunkSize
  <2> QED BY <2>1, UnitSize DEF MINSIZE
<1>6. PlaceInBin(a, m, v) = WithBins(a, [a.bins EXCEPT ![i] = r], a.binmap \cup {i})
  BY <1>1 DEF PlaceInBin, WithBins, MstOK, Mstate
<1>7. pos \in 1..(Len(bin) + 1)
  <2>1. CASE in_smallbin_range(size) \/ bin = <<>>
    <3>1. pos = 1
      BY ONLY <2>1
    <3> HIDE DEF pos
    <3> QED BY <1>2, <3>1
  <2>2. CASE ~(in_smallbin_range(size) \/ bin = <<>>) /\ size < m[bin[Len(bin)] + 4]
    <3>1. pos = Len(bin) + 1
      BY <2>2
    <3> QED BY <1>2, <3>1
  <2>3. CASE ~(in_smallbin_range(size) \/ bin = <<>>) /\ ~(size < m[bin[Len(bin)] + 4])
    <3> DEFINE P(k) == size + 1 >= m[bin[k] + 4]
    <3>1. Len(bin) \in Nat /\ P(Len(bin)) /\ Len(bin) # 0
      BY <1>2, <1>4, <1>5, <2>3
    <3>2. \E k \in 1..Len(bin) : P(k) /\ \A j \in 1..(k - 1) : ~P(j)
      <4> DEFINE K == {k \in 1..Len(bin) : P(k)}
      <4> HIDE DEF P
      <4>1. K \subseteq Nat /\ Len(bin) \in K
        BY <3>1
      <4>2. PICK k \in K : \A j \in K : k <= j
        BY <4>1, Least
      <4>3. ASSUME NEW j \in 1..(k - 1), P(j) PROVE FALSE
        <5>1. j \in K /\ j < k /\ j \in Nat /\ k \in Nat
          BY <3>1, <4>3
        <5> QED BY <4>2, <5>1
      <4> QED BY <4>3
    <3>3. \E k \in DOMAIN bin :
            size + 1 >= m[bin[k] + 4] /\ \A j \in 1..(k - 1) : size + 1 < m[bin[j] + 4]
      <4>1. PICK k \in 1..Len(bin) : P(k) /\ \A j \in 1..(k - 1) : ~P(j)
        BY <3>2
      <4>2. \A j \in 1..(k - 1) : size + 1 < m[bin[j] + 4]
        <5>1. ASSUME NEW j \in 1..(k - 1) PROVE size + 1 < m[bin[j] + 4]
          <6>1. j \in 1..Len(bin)
            BY <1>2, <4>1
          <6>2. m[bin[j] + 4] \in Nat /\ ~(size + 1 >= m[bin[j] + 4])
            BY <1>4, <4>1, <6>1
          <6> QED BY <1>5, <6>2
        <5> QED BY <5>1
      <4> QED BY <1>2, <4>1, <4>2
    <3>4. pos \in DOMAIN bin
      BY <2>3, <3>3
    <3> QED BY <1>2, <3>4
  <2> QED BY <2>1, <2>2, <2>3
<1> HIDE DEF pos
<1>8. Lists(r, T \cup {v})
  BY <1>1, <1>3, <1>7, Inserts
<1> HIDE DEF r
<1>9. Relists(a, WithBins(a, [a.bins EXCEPT ![i] = r], a.binmap \cup {i}), m,
              (Binned(a) \ T) \cup (T \cup {v}), QuickOf(a))
  <2>1. \A p \in T \cup {v} : bin_index(chunksize(m, p)) = i /\ p \notin ToSet(a.unsorted)
    BY <1>1, <1>3
  <2>2. a.binmap \cup {i} \subseteq Bins /\ \A j \in Bins : a.bins[j] # <<>> => j \in a.binmap \cup {i}
    BY <1>1 DEF MstOK, Mstate
  <2> QED BY <1>1, <1>8, <2>1, <2>2, SetsBin
<1>10. (Binned(a) \ T) \cup (T \cup {v}) = Binned(a) \cup {v}
  BY <1>1
<1> QED BY <1>6, <1>9, <1>10

\* One fastbin is another list.
WithFast(a, s, r) == [a EXCEPT !.fastbins[s] = r]

\* Another fastbin keeps the mstate right if its chunks have its size.
LEMMA SetsFast ==
  ASSUME NEW a, NEW m, MstOK(a, m), NEW s \in Fast, NEW r, NEW T, Lists(r, T),
         a.any, \A p \in T : chunksize(m, p) = s
  PROVE  Relists(a, WithFast(a, s, r), m, Binned(a), (QuickOf(a) \ ToSet(a.fastbins[s])) \cup T)
<1> DEFINE a2 == WithFast(a, s, r)
           g  == [a.fastbins EXCEPT ![s] = r]
<1>1. r \in Seq(Chunk) /\ ToSet(r) = T /\ a.fastbins \in [Fast -> Seq(Chunk)]
  BY DEF Lists, MstOK, Mstate
<1>2. g \in [Fast -> Seq(Chunk)] /\ g[s] = r /\ \A t \in Fast : t # s => g[t] = a.fastbins[t]
  BY <1>1
<1>3. /\ a2 \in Mstate /\ a2.any = a.any /\ a2.fast = a.fast /\ a2.fastbins = g
      /\ a2.unsorted = a.unsorted /\ a2.bins = a.bins /\ a2.binmap = a.binmap
  BY <1>1 DEF MstOK, Mstate, WithFast
<1> HIDE DEF a2, g
<1>4. MstOK(a2, m)
  <2>1. \A t \in Fast : Lists(g[t], ToSet(g[t]))
    BY <1>1, <1>2 DEF MstOK
  <2>2. \A t \in Fast : \A p \in ToSet(g[t]) : chunksize(m, p) = t
    BY <1>1, <1>2 DEF MstOK
  <2> QED BY <1>3, <2>1, <2>2 DEF MstOK
<1>5. Binned(a2) = Binned(a)
  BY <1>3 DEF Binned
<1>6. QuickOf(a2) = (QuickOf(a) \ ToSet(a.fastbins[s])) \cup T
  <2>1. \A q : q \in QuickOf(a2) <=> \E t \in Fast : q \in ToSet(g[t])
    BY <1>3, QuickIs
  <2>2. \A q : q \in QuickOf(a) <=> \E t \in Fast : q \in ToSet(a.fastbins[t])
    BY QuickIs
  <2>3. \A q : \A t \in Fast : t # s /\ q \in ToSet(a.fastbins[t]) => q \notin ToSet(a.fastbins[s])
    BY DEF MstOK
  <2>4. ASSUME NEW q
        PROVE  (\E t \in Fast : q \in ToSet(g[t]))
                 <=> (q \in QuickOf(a) /\ q \notin ToSet(a.fastbins[s])) \/ q \in T
    BY <1>1, <1>2, <2>2, <2>3
  <2> QED BY <2>1, <2>4
<1> QED BY <1>3, <1>4, <1>5, <1>6 DEF Relists, a2

\* The first chunk of a fastbin is taken.
LEMMA TakesFast ==
  ASSUME NEW a, NEW m, MstOK(a, m), NEW s \in Fast, a.fastbins[s] # <<>>
  PROVE  /\ Relists(a, [a EXCEPT !.fastbins[s] = Tail(@)], m, Binned(a),
                    QuickOf(a) \ {Head(a.fastbins[s])})
         /\ Head(a.fastbins[s]) \in QuickOf(a) /\ chunksize(m, Head(a.fastbins[s])) = s
         /\ a.any
<1> DEFINE T == ToSet(a.fastbins[s])
           v == Head(a.fastbins[s])
           r == Tail(a.fastbins[s])
<1>1. Lists(a.fastbins[s], T) /\ a.any /\ \A p \in T : chunksize(m, p) = s
  BY DEF MstOK
<1>2. v \in T /\ Lists(r, T \ {v})
  BY <1>1, Pops
<1>3. v \in QuickOf(a) /\ T \subseteq QuickOf(a)
  BY <1>2, QuickIs
<1>4. [a EXCEPT !.fastbins[s] = Tail(@)] = WithFast(a, s, r)
  BY DEF WithFast, MstOK, Mstate
<1> HIDE DEF r
<1>5. Relists(a, WithFast(a, s, r), m, Binned(a), (QuickOf(a) \ T) \cup (T \ {v}))
  <2>1. \A p \in T \ {v} : chunksize(m, p) = s
    BY <1>1
  <2> QED BY <1>1, <1>2, <2>1, SetsFast
<1>6. (QuickOf(a) \ T) \cup (T \ {v}) = QuickOf(a) \ {v}
  BY <1>2, <1>3
<1> QED BY <1>1, <1>2, <1>3, <1>4, <1>5, <1>6

\* The flags of max_fast: the lists are the same.
SameButFlags(a, a2, m) ==
  /\ MstOK(a2, m) /\ Binned(a2) = Binned(a) /\ QuickOf(a2) = QuickOf(a)
  /\ a2.unsorted = a.unsorted /\ a2.bins = a.bins /\ a2.fastbins = a.fastbins

\* Flags may change as long as ANYCHUNKS_BIT is not lost.
LEMMA SetsFlags ==
  ASSUME NEW a, NEW m, MstOK(a, m), NEW a2 \in Mstate, a.any => a2.any,
         a2.fastbins = a.fastbins, a2.unsorted = a.unsorted, a2.bins = a.bins,
         a2.binmap = a.binmap
  PROVE  SameButFlags(a, a2, m)
<1>1. MstOK(a2, m)
  BY DEF MstOK
<1> QED BY <1>1 DEF Binned, QuickOf, SameButFlags

\* FASTCHUNKS_BIT changes.
LEMMA SetsFastFlag ==
  ASSUME NEW a, NEW m, MstOK(a, m), NEW y \in BOOLEAN
  PROVE  /\ SameButFlags(a, [a EXCEPT !.fast = y], m)
         /\ [a EXCEPT !.fast = y].any = a.any /\ [a EXCEPT !.fast = y].fast = y
<1> DEFINE a2 == [a EXCEPT !.fast = y]
<1>1. /\ a2 \in Mstate /\ a2.any = a.any /\ a2.fast = y /\ a2.fastbins = a.fastbins
      /\ a2.unsorted = a.unsorted /\ a2.bins = a.bins /\ a2.binmap = a.binmap
  BY DEF MstOK, Mstate
<1> HIDE DEF a2
<1>2. SameButFlags(a, a2, m)
  BY <1>1, SetsFlags
<1> QED BY <1>1, <1>2 DEF a2

\* ANYCHUNKS_BIT is set.
LEMMA SetsAnyFlag ==
  ASSUME NEW a, NEW m, MstOK(a, m)
  PROVE  /\ SameButFlags(a, [a EXCEPT !.any = TRUE], m)
         /\ [a EXCEPT !.any = TRUE].any /\ [a EXCEPT !.any = TRUE].fast = a.fast
<1> DEFINE a2 == [a EXCEPT !.any = TRUE]
<1>1. /\ a2 \in Mstate /\ a2.any = TRUE /\ a2.fast = a.fast /\ a2.fastbins = a.fastbins
      /\ a2.unsorted = a.unsorted /\ a2.bins = a.bins /\ a2.binmap = a.binmap
  BY DEF MstOK, Mstate
<1> HIDE DEF a2
<1>2. SameButFlags(a, a2, m)
  BY <1>1, SetsFlags
<1> QED BY <1>1, <1>2 DEF a2

\* last_remainder is another chunk.
LEMMA SetsRemainder ==
  ASSUME NEW a, NEW m, MstOK(a, m), NEW x \in Chunk \cup {Nil},
         NEW a2, a2 = [a EXCEPT !.last_remainder = x]
  PROVE  Relists(a, a2, m, Binned(a), QuickOf(a))
<1>1. /\ a2 \in Mstate /\ a2.any = a.any /\ a2.fast = a.fast /\ a2.fastbins = a.fastbins
      /\ a2.unsorted = a.unsorted /\ a2.bins = a.bins /\ a2.binmap = a.binmap
  BY DEF MstOK, Mstate
<1>2. MstOK(a2, m)
  BY <1>1 DEF MstOK
<1> QED BY <1>1, <1>2 DEF Binned, QuickOf, Relists

\* A small chunk is freed.
LEMMA PushesFast ==
  ASSUME NEW a, NEW m, MstOK(a, m), NEW p \in Chunk, p \notin QuickOf(a), chunksize(m, p) \in Fast,
         NEW a2, a2 = [a EXCEPT !.any = TRUE, !.fast = TRUE,
                                !.fastbins[chunksize(m, p)] = <<p>> \o @]
  PROVE  /\ MstOK(a2, m) /\ Binned(a2) = Binned(a) /\ QuickOf(a2) = QuickOf(a) \cup {p}
         /\ a2.any /\ a2.fast
<1> DEFINE s == chunksize(m, p)
           a1 == [a EXCEPT !.any = TRUE, !.fast = TRUE]
           T == ToSet(a.fastbins[s])
           r == <<p>> \o a.fastbins[s]
<1>1. /\ MstOK(a1, m) /\ Binned(a1) = Binned(a) /\ QuickOf(a1) = QuickOf(a)
      /\ a1.any = TRUE /\ a1.fast = TRUE
  <2>1. /\ a1 \in Mstate /\ a1.any = TRUE /\ a1.fast = TRUE /\ a1.fastbins = a.fastbins
        /\ a1.unsorted = a.unsorted /\ a1.bins = a.bins /\ a1.binmap = a.binmap
    BY DEF MstOK, Mstate
  <2> HIDE DEF a1
  <2>2. SameButFlags(a, a1, m)
    BY <2>1, SetsFlags
  <2> QED BY <2>1, <2>2 DEF SameButFlags
<1>2. a1.fastbins = a.fastbins /\ a2 = WithFast(a1, s, r)
  BY DEF MstOK, Mstate, WithFast
<1>3. Lists(a.fastbins[s], T) /\ p \notin T /\ T \subseteq QuickOf(a)
  BY QuickIs DEF MstOK
<1>4. Lists(r, T \cup {p})
  BY <1>3, Pushes
<1>5. \A q \in T \cup {p} : chunksize(m, q) = s
  BY DEF MstOK
<1> HIDE DEF a1, r, s
<1>6. Relists(a1, WithFast(a1, s, r), m, Binned(a1), (QuickOf(a1) \ T) \cup (T \cup {p}))
  <2>1. s \in Fast /\ T = ToSet(a1.fastbins[s])
    BY <1>2 DEF s
  <2> QED BY <1>1, <1>4, <1>5, <2>1, SetsFast
<1>7. (QuickOf(a1) \ T) \cup (T \cup {p}) = QuickOf(a) \cup {p}
  BY <1>1, <1>3
<1> QED BY <1>1, <1>2, <1>6, <1>7 DEF Relists

\* The sizes of the chunks on the lists are the same in another memory.
LEMMA SameLists ==
  ASSUME NEW a, NEW m, MstOK(a, m), NEW m2, SameSizes(m, m2, Binned(a) \cup QuickOf(a))
  PROVE  MstOK(a, m2)
<1>1. \A i \in Bins : \A p \in ToSet(a.bins[i]) : chunksize(m2, p) = chunksize(m, p)
  BY BinnedIs DEF SameSizes
<1>2. \A s \in Fast : \A p \in ToSet(a.fastbins[s]) : chunksize(m2, p) = chunksize(m, p)
  BY QuickIs DEF SameSizes
<1> QED BY <1>1, <1>2 DEF MstOK

\* Chunk p is merged with its neighbours.
LEMMA MergesLists ==
  ASSUME NEW m, NEW F, NEW U, NEW tp, NEW p \in U, NEW t, Beside(m, F, U, tp, p, t),
         F \cap U = {},
         NEW a, MstOK(a, m), a.any, Binned(a) \subseteq F, QuickOf(a) \subseteq U \ {p},
         NEW m2, SameSizes(m, m2, (F \ {Front_of(m, p), next_chunk(m, p)}) \cup (U \ {p}))
  PROVE  Relists(a, MergedLists(a, m, p, t), m2,
                 (Binned(a) \ {Front_of(m, p), next_chunk(m, p)})
                    \cup (IF next_chunk(m, p) = t THEN {} ELSE {Front_of(m, p)}),
                 QuickOf(a))
<1> DEFINE f  == Front_of(m, p)
           n  == next_chunk(m, p)
           a1 == IF prev_inuse(m, p) THEN a ELSE unlink(a, f)
           a2 == IF n = t \/ inuse(m, n) THEN a1 ELSE unlink(a1, n)
           a3 == [a2 EXCEPT !.unsorted = <<f>> \o @]
<1>1. /\ f \in Chunk
      /\ f = p <=> prev_inuse(m, p)
      /\ n = t => n \notin F \cup U
      /\ n # t => n \in F \cup U /\ (TakesNext(m, p, t) <=> n \in F)
  BY DEF Beside
<1>2. MergedLists(a, m, p, t) = IF n = t THEN a2 ELSE a3
  BY DEF MergedLists
<1>3. Relists(a, a1, m, Binned(a) \ {f}, QuickOf(a))
  <2>1. CASE prev_inuse(m, p)
    <3>1. a1 = a /\ Binned(a) \ {f} = Binned(a)
      BY <1>1, <2>1
    <3> QED BY <3>1 DEF Relists
  <2>2. CASE ~prev_inuse(m, p)
    <3>1. a1 = unlink(a, f)
      BY <2>2
    <3> HIDE DEF a1
    <3> QED BY <3>1, Unlinked
  <2> QED BY <2>1, <2>2
<1> HIDE DEF a1
<1>4. Relists(a1, a2, m, Binned(a1) \ {n}, QuickOf(a1))
  <2>1. CASE n = t \/ inuse(m, n)
    <3>1. n \notin F
      BY <1>1, <2>1 DEF TakesNext
    <3>2. a2 = a1 /\ Binned(a1) \ {n} = Binned(a1)
      BY <1>3, <2>1, <3>1 DEF Relists
    <3> QED BY <1>3, <3>2 DEF Relists
  <2>2. CASE ~(n = t \/ inuse(m, n))
    <3>1. a2 = unlink(a1, n)
      BY <2>2
    <3>2. MstOK(a1, m)
      BY <1>3 DEF Relists
    <3> HIDE DEF a2
    <3> QED BY <3>1, <3>2, Unlinked
  <2> QED BY <2>1, <2>2
<1> HIDE DEF a2
<1>5. /\ MstOK(a2, m) /\ Binned(a2) = Binned(a) \ {f, n} /\ QuickOf(a2) = QuickOf(a)
      /\ a2.any = a.any /\ a2.fast = a.fast
  BY <1>3, <1>4 DEF Relists
<1>6. MstOK(a2, m2)
  <2>1. SameSizes(m, m2, Binned(a2) \cup QuickOf(a2))
    BY <1>5 DEF SameSizes
  <2> QED BY <1>5, <2>1, SameLists
<1>7. CASE n = t
  BY <1>2, <1>5, <1>6, <1>7 DEF Relists
<1>8. CASE n # t
  <2>1. MergedLists(a, m, p, t) = a3
    BY <1>2, <1>8
  <2>2. Relists(a2, a3, m2, Binned(a2) \cup {f}, QuickOf(a2))
    <3>1. a2.any /\ f \in Chunk /\ f \notin Binned(a2)
      BY <1>1, <1>5
    <3> HIDE DEF f
    <3> QED BY <1>6, <3>1, PushesUnsorted
  <2> HIDE DEF a3
  <2> QED BY <1>5, <1>8, <2>1, <2>2 DEF Relists
<1> QED BY <1>7, <1>8

\* What remains of a free chunk.
LEMMA CarvesLists ==
  ASSUME NEW a, NEW m, MstOK(a, m), NEW v, NEW size, NEW nb, NEW adv \in BOOLEAN,
         size - nb < MINSIZE
           \/ (a.any /\ a.unsorted = <<>> /\ v + nb \in Chunk /\ v + nb \notin Binned(a))
  PROVE  Relists(a, CarvedLists(a, v, size, nb, adv), m,
                 IF size - nb < MINSIZE THEN Binned(a) ELSE Binned(a) \cup {v + nb}, QuickOf(a))
<1> DEFINE a1 == [a EXCEPT !.unsorted = <<v + nb>>]
           x  == IF adv THEN v + nb ELSE a.last_remainder
           a2 == [a1 EXCEPT !.last_remainder = x]
<1>1. CASE size - nb < MINSIZE
  <2>1. CarvedLists(a, v, size, nb, adv) = a
    BY <1>1 DEF CarvedLists
  <2> QED BY <1>1, <2>1 DEF Relists
<1>2. CASE ~(size - nb < MINSIZE)
  <2>1. Relists(a, a1, m, Binned(a) \cup {v + nb}, QuickOf(a))
    BY <1>2, StartsUnsorted
  <2>2. x \in Chunk \cup {Nil}
    BY <1>2 DEF MstOK, Mstate
  <2>3. CarvedLists(a, v, size, nb, adv) = a2
    BY <1>2 DEF CarvedLists, MstOK, Mstate
  <2> HIDE DEF a1, x
  <2>4. Relists(a1, a2, m, Binned(a1), QuickOf(a1))
    BY <2>1, <2>2, SetsRemainder DEF Relists
  <2> HIDE DEF a2
  <2> QED BY <1>2, <2>1, <2>3, <2>4 DEF Relists
<1> QED BY <1>1, <1>2
=============================================================================
