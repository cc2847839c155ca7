--------------------------- MODULE SequencesProofs ---------------------------
(***************************************************************************)
(* Theorems about the lists, the queue and the array list of MCSequences,  *)
(* for every set of addresses, values and array lengths.                   *)
(***************************************************************************)
EXTENDS MCSequences, FiniteSetTheorems, SequenceTheorems, WellFoundedInduction, TLAPS

all == <<which, vars, slist, queue, arraylist>>

-----------------------------------------------------------------------------
(* Induction over the steps of a loop, and functions defined by one.       *)

\* What holds at first, and after a step if it did before, holds after m steps.
LEMMA StepByStep ==
    ASSUME NEW N \in Nat, NEW K, 0 \in K, \A m \in 1 .. N : m - 1 \in K => m \in K
    PROVE  \A m \in 0 .. N : m \in K
<1> SUFFICES ASSUME NEW m \in 0 .. N, m \notin K PROVE FALSE
  OBVIOUS
<1> DEFINE R == OpToRel(<, Nat)
           W == (0 .. N) \ K
<1>1. W \subseteq Nat /\ W # {}
  OBVIOUS
<1> HIDE DEF W
<1>2. PICK x \in W : \A y \in W : ~ (<<y, x>> \in R)
  BY <1>1, NatLessThanWellFounded, WFMin
<1>3. \A y \in Nat : y < x => <<y, x>> \in R
  BY <1>1 DEF OpToRel
<1> HIDE DEF R
<1>4. \A y \in W : ~ (y < x)
  BY <1>1, <1>2, <1>3
<1>5. x \in 0 .. N /\ x \notin K /\ x # 0
  BY DEF W
<1>6. x - 1 \in 0 .. N /\ x - 1 \notin W /\ x \in 1 .. N
  BY <1>4, <1>5
<1>. QED  BY <1>5, <1>6 DEF W

\* f has the results of a loop after each of its N steps g, from b on.
Loop(N, b, g, f) == f[0] = b /\ \A m \in 1 .. N : f[m] = g[<<m, f[m - 1]>>]

LEMMA LoopRuns ==
    ASSUME NEW N \in Nat, NEW W, NEW b \in W, NEW g \in [(1 .. N) \X W -> W]
    PROVE  \E f \in [0 .. N -> W] : Loop(N, b, g, f)
<1> DEFINE Run(k, f) == f[0] = b /\ \A m \in 1 .. k : f[m] = g[<<m, f[m - 1]>>]
           K == {k \in 0 .. N : \E f \in [0 .. k -> W] : Run(k, f)}
<1>1. 0 \in K
  <2> DEFINE f == [m \in 0 .. 0 |-> b]
  <2>1. f \in [0 .. 0 -> W] /\ f[0] = b /\ 0 \in 0 .. N /\ 1 .. 0 = {}
    OBVIOUS
  <2>2. Run(0, f)
    BY <2>1
  <2>. QED  BY <2>1, <2>2
<1>2. ASSUME NEW m \in 1 .. N, m - 1 \in K
      PROVE  m \in K
  <2>1. PICK f \in [0 .. m - 1 -> W] : Run(m - 1, f)
    BY <1>2
  <2>2. f[m - 1] \in W /\ m - 1 \in 0 .. m - 1
    OBVIOUS
  <2> DEFINE v == g[<<m, f[m - 1]>>]
             h == [i \in 0 .. m |-> IF i = m THEN v ELSE f[i]]
  <2>3. v \in W
    BY <2>2
  <2> HIDE DEF v
  <2>4. h \in [0 .. m -> W] /\ h[m] = v /\ \A i \in 0 .. m - 1 : h[i] = f[i]
    BY <2>3
  <2> HIDE DEF h
  <2>5. ASSUME NEW i \in 1 .. m PROVE h[i] = g[<<i, h[i - 1]>>]
    <3>1. CASE i = m
      <4>1. h[i - 1] = f[m - 1]
        BY <2>2, <2>4, <3>1
      <4>. QED  BY <2>4, <3>1, <4>1 DEF v
    <3>2. CASE i # m
      <4>1. i \in 1 .. m - 1 /\ i \in 0 .. m - 1 /\ i - 1 \in 0 .. m - 1
        BY <3>2
      <4>2. f[i] = g[<<i, f[i - 1]>>]
        BY <2>1, <4>1
      <4>. QED  BY <2>4, <4>1, <4>2
    <3>. QED  BY <3>1, <3>2
  <2>6. h[0] = b
    BY <2>1, <2>4
  <2>7. Run(m, h) /\ m \in 0 .. N
    BY <2>5, <2>6
  <2>. QED  BY <2>4, <2>7
<1> HIDE DEF K
<1>3. N \in K
  BY <1>1, <1>2, StepByStep
<1>. QED  BY <1>3 DEF K, Loop

-----------------------------------------------------------------------------
(* Sequences.                                                              *)

Elems(s) == {s[i] : i \in 1 .. Len(s)}

\* No element twice.
Once(s) == \A i, j \in 1 .. Len(s) : s[i] = s[j] => i = j

\* The i-th entry, Null behind the last.
Entry(s, i) == IF i \in 1 .. Len(s) THEN s[i] ELSE Null

\* first and the next pointers run through s.
Chain(next, first, s) ==
    first = Entry(s, 1) /\ \A i \in 1 .. Len(s) : next[s[i]] = Entry(s, i + 1)

\* A sequence without repetition is no longer than its set is large.
LEMMA OnceFits ==
    ASSUME NEW E, IsFiniteSet(E), NEW s \in Seq(E), Once(s)
    PROVE  Len(s) <= Cardinality(E) /\ Cardinality(E) \in Nat
<1> DEFINE n == Len(s)
<1>1. n \in Nat /\ s \in [1 .. n -> E]
  OBVIOUS
<1>2. s \in Injection(1 .. n, E)
  BY <1>1 DEF Injection, IsInjective, Once
<1>3. IsFiniteSet(1 .. n) /\ Cardinality(1 .. n) = n
  BY <1>1, FS_Interval, SMTT(30)
<1>4. Cardinality(1 .. n) <= Cardinality(E)
  BY <1>2, FS_Injection
<1>5. Cardinality(E) \in Nat
  BY FS_CardinalityType
<1>. QED  BY <1>3, <1>4, <1>5

\* A loop along the next pointers visits the entries they run through.
LEMMA AlongChain ==
    ASSUME NEW E, IsFiniteSet(E), Null \notin E, NEW s \in Seq(E), Once(s),
           NEW next, NEW first, Chain(next, first, s)
    PROVE  Along(next, first, Cardinality(E)) = s
<1> DEFINE N == Cardinality(E)
           Def(f) == f = [i \in 0 .. N |-> IF i = 0 THEN first
                                          ELSE IF f[i - 1] = Null THEN Null ELSE next[f[i - 1]]]
           at == CHOOSE f : Def(f)
           h == [i \in 0 .. N |-> Entry(s, i + 1)]
<1>1. N \in Nat /\ Len(s) \in Nat /\ Len(s) <= N
  BY OnceFits
<1>2. \A i \in 1 .. Len(s) : s[i] \in E /\ s[i] # Null
  OBVIOUS
<1>3. Def(h)
  <2> SUFFICES ASSUME NEW i \in 0 .. N
               PROVE  h[i] = IF i = 0 THEN first
                             ELSE IF h[i - 1] = Null THEN Null ELSE next[h[i - 1]]
    OBVIOUS
  <2>1. CASE i = 0
    BY <1>1, <2>1 DEF Chain
  <2>2. CASE i # 0
    <3>1. i - 1 \in 0 .. N /\ h[i - 1] = Entry(s, i) /\ h[i] = Entry(s, i + 1)
      BY <1>1, <2>2
    <3>2. CASE i \in 1 .. Len(s)
      <4>1. h[i - 1] = s[i] /\ next[s[i]] = Entry(s, i + 1) /\ s[i] # Null
        BY <1>2, <3>1, <3>2 DEF Chain, Entry
      <4>. QED  BY <2>2, <3>1, <4>1
    <3>3. CASE i \notin 1 .. Len(s)
      <4>1. h[i - 1] = Null /\ h[i] = Null
        BY <1>1, <2>2, <3>1, <3>3, SMTT(30) DEF Entry
      <4>. QED  BY <2>2, <4>1
    <3>. QED  BY <3>2, <3>3
  <2>. QED  BY <2>1, <2>2
<1>4. Def(at)
  BY <1>3
<1>h. \A i \in 0 .. N : h[i] = Entry(s, i + 1)
  OBVIOUS
<1>a. /\ \A i \in 0 .. N : at[i] = IF i = 0 THEN first
                                 ELSE IF at[i - 1] = Null THEN Null ELSE next[at[i - 1]]
      /\ \A i \in 0 .. N : h[i] = IF i = 0 THEN first
                                ELSE IF h[i - 1] = Null THEN Null ELSE next[h[i - 1]]
  BY <1>3, <1>4
<1>b. Along(next, first, N) = [i \in 1 .. Cardinality({j \in 0 .. N : at[j] # Null}) |-> at[i - 1]]
  BY Zenon DEF Along
<1> HIDE DEF N, at, h
<1>5. \A i \in 0 .. N : at[i] = h[i]
  <2> DEFINE K == {i \in 0 .. N : at[i] = h[i]}
  <2>0. 0 \in 0 .. N
    BY <1>1
  <2>1. at[0] = first /\ h[0] = first
    BY <2>0, <1>a, Zenon
  <2>2. ASSUME NEW i \in 1 .. N, at[i - 1] = h[i - 1]
        PROVE  at[i] = h[i]
    <3>1. i \in 0 .. N /\ i # 0
      BY <1>1
    <3>2. at[i] = (IF at[i - 1] = Null THEN Null ELSE next[at[i - 1]])
      BY <1>a, <3>1
    <3>3. h[i] = (IF h[i - 1] = Null THEN Null ELSE next[h[i - 1]])
      BY <1>a, <3>1
    <3>. QED  BY <2>2, <3>2, <3>3
  <2>3. 0 \in K
    BY <1>1, <2>1
  <2>x. \A i \in 1 .. N : i - 1 \in K => i \in K
    BY <1>1, <2>2
  <2> HIDE DEF K
  <2>4. \A i \in 0 .. N : i \in K
    BY <1>1, <2>3, <2>x, StepByStep
  <2>. QED  BY <2>4 DEF K
<1>6. \A i \in 0 .. N : at[i] = IF i < Len(s) THEN s[i + 1] ELSE Null
  BY <1>1, <1>5, <1>h DEF Entry
<1>c. {j \in 0 .. N : at[j] # Null} = 0 .. Len(s) - 1
  <2>1. \A j \in 0 .. N : at[j] # Null <=> j < Len(s)
    BY <1>1, <1>2, <1>6
  <2>. QED  BY <1>1, <2>1
<1>7. Cardinality(0 .. Len(s) - 1) = Len(s)
  <2>1. Len(s) - 1 \in Int /\ 0 \in Int
    BY <1>1
  <2>2. Cardinality(0 .. Len(s) - 1) = IF 0 > Len(s) - 1 THEN 0 ELSE Len(s) - 1 - 0 + 1
    BY <2>1, FS_Interval
  <2>. QED  BY <1>1, <2>2
<1>8. \A i \in 1 .. Len(s) : at[i - 1] = s[i]
  BY <1>1, <1>6
<1>9. Along(next, first, N) = [i \in 1 .. Len(s) |-> at[i - 1]]
  BY <1>b, <1>c, <1>7
<1>10. s = [i \in 1 .. Len(s) |-> s[i]]
  OBVIOUS
<1>11. Along(next, first, N) = s
  BY <1>8, <1>9, <1>10
<1>. QED  BY <1>11 DEF N

-----------------------------------------------------------------------------
(* How often an element occurs in a sequence.                              *)

Places(s, x) == {i \in 1 .. Len(s) : s[i] = x}
Copies(s, x) == Cardinality(Places(s, x))

LEMMA CopiesNat ==
    ASSUME NEW E, NEW s \in Seq(E), NEW x
    PROVE  /\ IsFiniteSet(Places(s, x)) /\ Copies(s, x) \in Nat
           /\ Copies(s, x) = 0 <=> x \notin Elems(s)
<1>1. Len(s) \in Int /\ 1 \in Int /\ Places(s, x) \in SUBSET (1 .. Len(s))
  BY DEF Places
<1>2. IsFiniteSet(1 .. Len(s))
  BY <1>1, FS_Interval
<1>3. IsFiniteSet(Places(s, x))
  BY <1>1, <1>2, FS_Subset
<1>4. Copies(s, x) \in Nat /\ (Copies(s, x) = 0 <=> Places(s, x) = {})
  BY <1>3, FS_CardinalityType, FS_EmptySet DEF Copies
<1>5. Places(s, x) = {} <=> x \notin Elems(s)
  BY DEF Places, Elems
<1>. QED  BY <1>3, <1>4, <1>5

\* Places that correspond one to one are equally many.
LEMMA CopiesBijection ==
    ASSUME NEW E, NEW s \in Seq(E), NEW F, NEW t \in Seq(F), NEW x, NEW y,
           NEW p \in [Places(s, x) -> Places(t, y)],
           \A i, j \in Places(s, x) : p[i] = p[j] => i = j,
           \A j \in Places(t, y) : \E i \in Places(s, x) : p[i] = j
    PROVE  Copies(s, x) = Copies(t, y)
<1>1. p \in Bijection(Places(s, x), Places(t, y))
  BY DEF Bijection, Injection, Surjection, IsInjective
<1>2. ExistsBijection(Places(s, x), Places(t, y))
  BY <1>1 DEF ExistsBijection
<1>3. IsFiniteSet(Places(s, x))
  BY CopiesNat
<1>. QED  BY <1>2, <1>3, FS_Bijection DEF Copies

LEMMA CopiesConcat ==
    ASSUME NEW E, NEW s \in Seq(E), NEW t \in Seq(E), NEW x
    PROVE  Copies(s \o t, x) = Copies(s, x) + Copies(t, x)
<1> DEFINE n == Len(s)
           u == s \o t
           G == Places(s, x)
           B == {i \in n + 1 .. n + Len(t) : u[i] = x}
           p == [i \in Places(t, x) |-> n + i]
<1>1. /\ u \in Seq(E) /\ n \in Nat /\ Len(t) \in Nat /\ Len(u) = n + Len(t)
      /\ \A i \in 1 .. n : u[i] = s[i]
      /\ \A i \in 1 .. Len(t) : n + i \in n + 1 .. n + Len(t) /\ u[n + i] = t[i]
  OBVIOUS
<1> HIDE DEF u, n
<1>2. Places(u, x) = G \cup B
  BY <1>1 DEF Places, n
<1>3. G \cap B = {}
  BY <1>1 DEF Places, n
<1>4. p \in Bijection(Places(t, x), B)
  <2>1. p \in [Places(t, x) -> B]
    BY <1>1 DEF Places
  <2>2. \A i, j \in Places(t, x) : p[i] = p[j] => i = j
    BY <1>1 DEF Places
  <2>3. ASSUME NEW j \in B PROVE \E i \in Places(t, x) : p[i] = j
    <3>1. j - n \in 1 .. Len(t) /\ j = n + (j - n) /\ u[j] = x
      BY <1>1
    <3>2. j - n \in Places(t, x)
      BY <1>1, <3>1 DEF Places
    <3>. QED  BY <3>1, <3>2
  <2> HIDE DEF p, B
  <2>. QED  BY <2>1, <2>2, <2>3 DEF Bijection, Injection, Surjection, IsInjective
<1> HIDE DEF G, B, p
<1>5. IsFiniteSet(G) /\ Cardinality(G) = Copies(s, x) /\ IsFiniteSet(Places(t, x))
  BY CopiesNat DEF G, Copies
<1>6. IsFiniteSet(B) /\ Cardinality(B) = Copies(t, x)
  <2>1. ExistsBijection(Places(t, x), B)
    BY <1>4 DEF ExistsBijection
  <2>. QED  BY <2>1, <1>5, FS_Bijection DEF Copies
<1>7. Cardinality(G \cup B) = Cardinality(G) + Cardinality(B) - 0
  BY <1>3, <1>5, <1>6, FS_Union, FS_EmptySet
<1>8. Copies(s, x) \in Nat /\ Copies(t, x) \in Nat
  BY CopiesNat
<1>9. Copies(u, x) = Cardinality(G) + Cardinality(B)
  BY <1>2, <1>5, <1>6, <1>7, <1>8 DEF Copies
<1>. QED  BY <1>5, <1>6, <1>9 DEF u

LEMMA CopiesSingle ==
    ASSUME NEW e, NEW x
    PROVE  Copies(<<e>>, x) = IF e = x THEN 1 ELSE 0
<1>1. Len(<<e>>) = 1 /\ <<e>>[1] = e
  OBVIOUS
<1>2. Places(<<e>>, x) = IF e = x THEN {1} ELSE {}
  <2>1. \A i \in 1 .. 1 : i = 1
    OBVIOUS
  <2>. QED  BY <1>1, <2>1 DEF Places
<1>. QED  BY <1>2, FS_Singleton, FS_EmptySet DEF Copies

LEMMA CopiesEmpty ==
    ASSUME NEW x PROVE Copies(<<>>, x) = 0
<1>1. Places(<<>>, x) = {}
  BY DEF Places
<1>. QED  BY <1>1, FS_EmptySet DEF Copies

LEMMA CopiesAppend ==
    ASSUME NEW E, NEW s \in Seq(E), NEW e \in E, NEW x
    PROVE  Copies(Append(s, e), x) = Copies(s, x) + IF e = x THEN 1 ELSE 0
<1>1. Append(s, e) = s \o <<e>> /\ <<e>> \in Seq(E)
  BY AppendIsConcat
<1>2. Copies(s \o <<e>>, x) = Copies(s, x) + Copies(<<e>>, x)
  BY <1>1, CopiesConcat
<1>. QED  BY <1>1, <1>2, CopiesSingle

LEMMA CopiesReverse ==
    ASSUME NEW E, NEW s \in Seq(E), NEW x
    PROVE  /\ Reverse(s) \in Seq(E) /\ Len(Reverse(s)) = Len(s)
           /\ Copies(Reverse(s), x) = Copies(s, x)
<1> DEFINE n == Len(s)
           t == Reverse(s)
           p == [i \in Places(t, x) |-> n + 1 - i]
<1>1. n \in Nat /\ t = [j \in 1 .. n |-> s[n - j + 1]]
  BY DEF Reverse
<1>2. \A j \in 1 .. n : n - j + 1 \in 1 .. n /\ n + 1 - j \in 1 .. n
  BY <1>1
<1>3. /\ t \in Seq(E) /\ Len(t) = n
      /\ \A j \in 1 .. n : t[j] = s[n + 1 - j]
  <2>1. \A j \in 1 .. n : n - j + 1 = n + 1 - j /\ s[n - j + 1] \in E
    BY <1>1, <1>2
  <2>. QED  BY <1>1, <2>1
<1> HIDE DEF t
<1>4. /\ \A i : i \in Places(t, x) <=> i \in 1 .. n /\ s[n + 1 - i] = x
      /\ \A i : i \in Places(s, x) <=> i \in 1 .. n /\ s[i] = x
  BY <1>3 DEF Places
<1>5. p \in [Places(t, x) -> Places(s, x)]
  BY <1>2, <1>4
<1>6. \A i, j \in Places(t, x) : p[i] = p[j] => i = j
  BY <1>1, <1>4
<1>7. ASSUME NEW j \in Places(s, x) PROVE \E i \in Places(t, x) : p[i] = j
  <2>1. n + 1 - j \in 1 .. n /\ n + 1 - (n + 1 - j) = j
    BY <1>1, <1>2, <1>4
  <2>2. n + 1 - j \in Places(t, x)
    BY <1>4, <2>1
  <2>. QED  BY <2>1, <2>2
<1> HIDE DEF p, n
<1>8. Copies(t, x) = Copies(s, x)
  BY <1>3, <1>5, <1>6, <1>7, CopiesBijection
<1>. QED  BY <1>3, <1>8 DEF t, n

LEMMA CopiesOnce ==
    ASSUME NEW E, NEW s \in Seq(E)
    PROVE  Once(s) <=> \A x : Copies(s, x) <= 1
<1>1. ASSUME Once(s), NEW x PROVE Copies(s, x) <= 1
  <2>1. CASE x \notin Elems(s)
    <3>1. Copies(s, x) = 0
      BY <2>1, CopiesNat
    <3>. QED  BY <3>1
  <2>2. CASE x \in Elems(s)
    <3>1. PICK i \in 1 .. Len(s) : s[i] = x
      BY <2>2 DEF Elems
    <3>2. Places(s, x) = {i}
      BY <1>1, <3>1 DEF Places, Once
    <3>3. Copies(s, x) = 1
      BY <3>2, FS_Singleton, Zenon DEF Copies
    <3>. QED  BY <3>3
  <2>. QED  BY <2>1, <2>2
<1>2. ASSUME \A x : Copies(s, x) <= 1,
             NEW i \in 1 .. Len(s), NEW j \in 1 .. Len(s), s[i] = s[j]
      PROVE  i = j
  <2> DEFINE P == Places(s, s[i])
  <2>1. i \in P /\ j \in P /\ IsFiniteSet(P) /\ Cardinality(P) <= 1 /\ Cardinality(P) \in Nat
    BY <1>2, CopiesNat DEF Places, Copies
  <2> HIDE DEF P
  <2>2. Cardinality(P) = 1
    BY <2>1, FS_EmptySet
  <2>. QED  BY <2>1, <2>2, FS_Singleton
<1>. QED  BY <1>1, <1>2 DEF Once

-----------------------------------------------------------------------------
(* Selecting from a sequence.                                              *)

\* The first m elements, one after the other.
LEMMA PrefixCopies ==
    ASSUME NEW E, NEW s \in Seq(E)
    PROVE  /\ SubSeq(s, 1, 0) = <<>> /\ SubSeq(s, 1, Len(s)) = s
           /\ \A m \in 0 .. Len(s) : SubSeq(s, 1, m) \in Seq(E) /\ Len(SubSeq(s, 1, m)) = m
           /\ \A m \in 1 .. Len(s) : SubSeq(s, 1, m) = Append(SubSeq(s, 1, m - 1), s[m])
<1>1. Len(s) \in Nat
  OBVIOUS
<1>2. SubSeq(s, 1, 0) = <<>>
  OBVIOUS
<1>3. SubSeq(s, 1, Len(s)) = s
  OBVIOUS
<1>4. \A m \in 0 .. Len(s) : /\ SubSeq(s, 1, m) \in Seq(E) /\ Len(SubSeq(s, 1, m)) = m
                             /\ \A i \in 1 .. m : SubSeq(s, 1, m)[i] = s[i]
  OBVIOUS
<1>5. ASSUME NEW m \in 1 .. Len(s)
      PROVE  SubSeq(s, 1, m) = Append(SubSeq(s, 1, m - 1), s[m])
  <2> DEFINE a == SubSeq(s, 1, m)
             b == SubSeq(s, 1, m - 1)
             c == Append(b, s[m])
  <2>1. m - 1 \in 0 .. Len(s) /\ m \in 0 .. Len(s) /\ s[m] \in E
    OBVIOUS
  <2>2. /\ a \in Seq(E) /\ Len(a) = m /\ \A i \in 1 .. m : a[i] = s[i]
        /\ b \in Seq(E) /\ Len(b) = m - 1 /\ \A i \in 1 .. m - 1 : b[i] = s[i]
    BY <1>4, <2>1
  <2> HIDE DEF a, b
  <2>3. c \in Seq(E) /\ Len(c) = m /\ \A i \in 1 .. m : c[i] = s[i]
    BY <2>1, <2>2
  <2> HIDE DEF c
  <2>4. a = c
    BY <2>2, <2>3, SMTT(30)
  <2>. QED  BY <2>4 DEF a, b, c
<1>. QED  BY <1>2, <1>3, <1>4, <1>5

\* f has the elements kept after each step of Kept's loop.
Keeps(s, C, f) ==
    /\ f[0] = <<>> /\ Kept(s, C) = f[Len(s)]
    /\ \A m \in 1 .. Len(s) :
          f[m] = IF s[m] \in C THEN Append(f[m - 1], s[m]) ELSE f[m - 1]

LEMMA KeptRuns ==
    ASSUME NEW E, NEW s \in Seq(E), NEW C
    PROVE  \E f \in [0 .. Len(s) -> Seq(E)] : Keeps(s, C, f)
<1> DEFINE N == Len(s)
           W == Seq(E)
           nil == <<>>
           Def(f) == f = [i \in 0 .. N |-> IF i = 0 THEN nil
                                          ELSE IF s[i] \in C THEN Append(f[i - 1], s[i]) ELSE f[i - 1]]
           g == [p \in (1 .. N) \X W |-> IF s[p[1]] \in C THEN Append(p[2], s[p[1]]) ELSE p[2]]
<1>1. N \in Nat /\ nil \in W /\ \A m \in 1 .. N : s[m] \in E
  OBVIOUS
<1>2. Kept(s, C) = (CHOOSE f : Def(f))[N]
  BY Zenon DEF Kept
<1>3. \A t \in W, e \in E : Append(t, e) \in W
  OBVIOUS
<1> HIDE DEF W, nil, N
<1>4. g \in [(1 .. N) \X W -> W]
  BY <1>1, <1>3
<1>5. \A m \in 1 .. N, t \in W : g[<<m, t>>] = IF s[m] \in C THEN Append(t, s[m]) ELSE t
  OBVIOUS
<1> HIDE DEF g
<1>6. PICK h \in [0 .. N -> W] : Loop(N, nil, g, h)
  BY <1>1, <1>4, LoopRuns
<1>7. ASSUME NEW m \in 1 .. N
      PROVE  /\ m - 1 \in 0 .. N /\ m \in 0 .. N /\ m # 0 /\ h[m - 1] \in W
             /\ h[m] = IF s[m] \in C THEN Append(h[m - 1], s[m]) ELSE h[m - 1]
  <2>1. m - 1 \in 0 .. N /\ m \in 0 .. N /\ m # 0
    BY <1>1
  <2>2. h[m - 1] \in W
    BY <2>1
  <2>3. h[m] = g[<<m, h[m - 1]>>]
    BY <1>6 DEF Loop
  <2>. QED  BY <1>5, <2>1, <2>2, <2>3
<1>8. Def(h)
  <2>1. h[0] = nil
    BY <1>6 DEF Loop
  <2>2. ASSUME NEW i \in 0 .. N
        PROVE  h[i] = IF i = 0 THEN nil
                      ELSE IF s[i] \in C THEN Append(h[i - 1], s[i]) ELSE h[i - 1]
    <3>1. i = 0 \/ i \in 1 .. N
      BY <1>1
    <3>. QED  BY <1>7, <2>1, <3>1
  <2>3. h = [i \in 0 .. N |-> h[i]]
    BY SMTT(30)
  <2>. QED  BY <2>2, <2>3
<1> DEFINE f == CHOOSE f : Def(f)
<1>9. Def(f)
  BY <1>8, ZenonT(60)
<1>a. \A i \in 0 .. N : f[i] = IF i = 0 THEN nil
                               ELSE IF s[i] \in C THEN Append(f[i - 1], s[i]) ELSE f[i - 1]
  BY <1>9, ZenonT(60)
<1>b. f = [i \in 0 .. N |-> f[i]]
  BY <1>9, ZenonT(60)
<1>c. Kept(s, C) = f[N]
  BY <1>2
<1> HIDE DEF f, Def
<1>d. f[0] = nil
  <2>1. 0 \in 0 .. N
    BY <1>1
  <2>. QED  BY <1>a, <2>1, Zenon
<1>e. ASSUME NEW m \in 1 .. N
      PROVE  f[m] = IF s[m] \in C THEN Append(f[m - 1], s[m]) ELSE f[m - 1]
  BY <1>7, <1>a
<1>f. \A i \in 0 .. N : f[i] \in W
  <2> DEFINE K == {i \in 0 .. N : f[i] \in W}
  <2>1. 0 \in K
    BY <1>1, <1>d
  <2>2. ASSUME NEW m \in 1 .. N, m - 1 \in K PROVE m \in K
    BY <2>2, <1>1, <1>3, <1>7, <1>e
  <2> HIDE DEF K
  <2>3. \A m \in 0 .. N : m \in K
    BY <1>1, <2>1, <2>2, StepByStep
  <2>. QED  BY <2>3 DEF K
<1>g. f \in [0 .. N -> W]
  BY <1>b, <1>f
<1>h. Keeps(s, C, f)
  BY <1>c, <1>d, <1>e DEF nil, N, Keeps
<1>. QED  BY <1>g, <1>h DEF W, N

\* The elements in C, each as often as before, and no others.
LEMMA KeptCopies ==
    ASSUME NEW E, NEW s \in Seq(E), NEW C
    PROVE  /\ Kept(s, C) \in Seq(E) /\ Len(Kept(s, C)) <= Len(s)
           /\ \A x : Copies(Kept(s, C), x) = IF x \in C THEN Copies(s, x) ELSE 0
<1> DEFINE N == Len(s)
<1>1. PICK f \in [0 .. N -> Seq(E)] : Keeps(s, C, f)
  BY KeptRuns
<1>k. /\ f[0] = <<>> /\ Kept(s, C) = f[N]
      /\ \A m \in 1 .. N : f[m] = IF s[m] \in C THEN Append(f[m - 1], s[m]) ELSE f[m - 1]
  BY <1>1 DEF Keeps
<1>2. N \in Nat /\ \A m \in 1 .. N : s[m] \in E
  OBVIOUS
<1> DEFINE Pre(m) == SubSeq(s, 1, m)
<1>p. /\ Pre(0) = <<>> /\ Pre(N) = s
      /\ \A m \in 0 .. N : Pre(m) \in Seq(E)
      /\ \A m \in 1 .. N : Pre(m) = Append(Pre(m - 1), s[m])
  <2>1. N = Len(s)
    OBVIOUS
  <2>. QED  BY <2>1, PrefixCopies
<1> HIDE DEF N, Pre
<1> DEFINE K == {m \in 0 .. N :
                  /\ Len(f[m]) <= m
                  /\ \A x : Copies(f[m], x) = IF x \in C THEN Copies(Pre(m), x) ELSE 0}
<1>3. 0 \in K
  <2>1. \A x : Copies(f[0], x) = 0 /\ Copies(Pre(0), x) = 0
    BY <1>k, <1>p, CopiesEmpty
  <2>2. 0 \in 0 .. N /\ Len(f[0]) <= 0
    BY <1>k, <1>2
  <2>. QED  BY <2>1, <2>2
<1>4. ASSUME NEW m \in 1 .. N, m - 1 \in K PROVE m \in K
  <2>1. m - 1 \in 0 .. N /\ m \in 0 .. N /\ s[m] \in E
    BY <1>2
  <2>2. f[m - 1] \in Seq(E) /\ Pre(m - 1) \in Seq(E)
    BY <1>p, <2>1
  <2>3. Len(f[m]) <= m
    <3>1. Len(f[m - 1]) <= m - 1 /\ Len(f[m - 1]) \in Nat
      BY <1>4, <2>2
    <3>2. Len(Append(f[m - 1], s[m])) = Len(f[m - 1]) + 1
      BY <2>1, <2>2
    <3>3. Len(f[m]) = Len(f[m - 1]) + 1 \/ Len(f[m]) = Len(f[m - 1])
      BY <1>k, <3>2
    <3>4. m \in Nat
      BY <1>2
    <3>. QED  BY <3>1, <3>3, <3>4
  <2>4. ASSUME NEW x PROVE Copies(f[m], x) = IF x \in C THEN Copies(Pre(m), x) ELSE 0
    <3>1. Copies(f[m - 1], x) = IF x \in C THEN Copies(Pre(m - 1), x) ELSE 0
      BY <1>4
    <3>2. Copies(Append(f[m - 1], s[m]), x) = Copies(f[m - 1], x) + IF s[m] = x THEN 1 ELSE 0
      BY <2>1, <2>2, CopiesAppend
    <3>3. Copies(Pre(m), x) = Copies(Pre(m - 1), x) + IF s[m] = x THEN 1 ELSE 0
      <4>1. Pre(m) = Append(Pre(m - 1), s[m])
        BY <1>p
      <4>. QED  BY <4>1, <2>1, <2>2, CopiesAppend
    <3>4. Copies(f[m - 1], x) \in Nat /\ Copies(Pre(m - 1), x) \in Nat
      BY <2>2, CopiesNat
    <3>5. f[m] = IF s[m] \in C THEN Append(f[m - 1], s[m]) ELSE f[m - 1]
      BY <1>k
    <3>. QED  BY <3>1, <3>2, <3>3, <3>4, <3>5
  <2>. QED  BY <2>1, <2>3, <2>4
<1> HIDE DEF K
<1>5. \A m \in 0 .. N : m \in K
  BY <1>2, <1>3, <1>4, StepByStep
<1>6. N \in K /\ N \in 0 .. N
  BY <1>2, <1>5
<1>. QED  BY <1>k, <1>p, <1>6 DEF K, N

\* What one selection leaves out the complementary one has.
LEMMA KeptSplit ==
    ASSUME NEW E, NEW s \in Seq(E), NEW C, NEW T, \A e \in E : e \in C <=> e \notin T
    PROVE  Len(Kept(s, C)) + Len(Kept(s, T)) = Len(s)
<1> DEFINE N == Len(s)
<1>1. PICK f \in [0 .. N -> Seq(E)] : Keeps(s, C, f)
  BY KeptRuns
<1>2. PICK g \in [0 .. N -> Seq(E)] : Keeps(s, T, g)
  BY KeptRuns
<1>k. /\ f[0] = <<>> /\ Kept(s, C) = f[N]
      /\ \A m \in 1 .. N : f[m] = IF s[m] \in C THEN Append(f[m - 1], s[m]) ELSE f[m - 1]
  BY <1>1 DEF Keeps
<1>l. /\ g[0] = <<>> /\ Kept(s, T) = g[N]
      /\ \A m \in 1 .. N : g[m] = IF s[m] \in T THEN Append(g[m - 1], s[m]) ELSE g[m - 1]
  BY <1>2 DEF Keeps
<1>3. N \in Nat /\ \A m \in 1 .. N : s[m] \in E
  OBVIOUS
<1> HIDE DEF N
<1> DEFINE K == {m \in 0 .. N : Len(f[m]) + Len(g[m]) = m}
<1>4. 0 \in K
  BY <1>k, <1>l, <1>3
<1>5. ASSUME NEW m \in 1 .. N, m - 1 \in K PROVE m \in K
  <2>1. m - 1 \in 0 .. N /\ m \in 0 .. N /\ s[m] \in E
    BY <1>3
  <2>2. f[m - 1] \in Seq(E) /\ g[m - 1] \in Seq(E)
    BY <2>1
  <2>3. /\ Len(f[m - 1]) \in Nat /\ Len(Append(f[m - 1], s[m])) = Len(f[m - 1]) + 1
        /\ Len(g[m - 1]) \in Nat /\ Len(Append(g[m - 1], s[m])) = Len(g[m - 1]) + 1
        /\ Len(f[m - 1]) + Len(g[m - 1]) = m - 1
    BY <1>5, <2>1, <2>2
  <2>4. Len(f[m]) = IF s[m] \in C THEN Len(f[m - 1]) + 1 ELSE Len(f[m - 1])
    BY <1>k, <2>3
  <2>5. Len(g[m]) = IF s[m] \in C THEN Len(g[m - 1]) ELSE Len(g[m - 1]) + 1
    BY <1>l, <2>1, <2>3
  <2>6. Len(f[m]) + Len(g[m]) = m
    BY <1>3, <2>3, <2>4, <2>5
  <2>. QED  BY <2>1, <2>6
<1> HIDE DEF K
<1>6. \A m \in 0 .. N : m \in K
  BY <1>3, <1>4, <1>5, StepByStep
<1>7. N \in K
  BY <1>3, <1>6
<1>. QED  BY <1>k, <1>l, <1>7 DEF K, N

\* Without one place the elements behind it move up.
LEMMA KeptRemoves ==
    ASSUME NEW E, NEW s \in Seq(E), NEW k \in 1 .. Len(s), NEW C,
           \A i \in 1 .. Len(s) : s[i] \in C <=> i # k
    PROVE  /\ Kept(s, C) \in Seq(E) /\ Len(Kept(s, C)) = Len(s) - 1
           /\ \A i \in 1 .. Len(s) - 1 : Kept(s, C)[i] = IF i < k THEN s[i] ELSE s[i + 1]
<1> DEFINE N == Len(s)
<1>1. PICK f \in [0 .. N -> Seq(E)] : Keeps(s, C, f)
  BY KeptRuns
<1>2. /\ f[0] = <<>> /\ Kept(s, C) = f[N]
      /\ \A m \in 1 .. N : f[m] = IF s[m] \in C THEN Append(f[m - 1], s[m]) ELSE f[m - 1]
  BY <1>1 DEF Keeps
<1>3. N \in Nat /\ k \in 1 .. N /\ \A m \in 1 .. N : s[m] \in E
  OBVIOUS
<1>4. \A m \in 0 .. N : f[m] \in Seq(E)
  OBVIOUS
<1>5. \A m \in 1 .. N : s[m] \in C <=> m # k
  OBVIOUS
<1> HIDE DEF N
<1> DEFINE L(m) == IF m < k THEN m ELSE m - 1
           K == {m \in 0 .. N :
                  /\ Len(f[m]) = L(m)
                  /\ \A i \in 1 .. L(m) : f[m][i] = IF i < k THEN s[i] ELSE s[i + 1]}
<1>6. 0 \in K
  BY <1>2, <1>3
<1>7. ASSUME NEW m \in 1 .. N, m - 1 \in K PROVE m \in K
  <2>1. m - 1 \in 0 .. N /\ m \in 0 .. N /\ s[m] \in E /\ f[m - 1] \in Seq(E)
    BY <1>3, <1>4
  <2>2. /\ Len(f[m - 1]) = L(m - 1)
        /\ \A i \in 1 .. L(m - 1) : f[m - 1][i] = IF i < k THEN s[i] ELSE s[i + 1]
    BY <1>7
  <2>3. CASE m = k
    <3>1. f[m] = f[m - 1] /\ L(m) = L(m - 1)
      BY <1>2, <1>3, <1>5, <2>3
    <3>. QED  BY <2>1, <2>2, <3>1
  <2>4. CASE m # k
    <3>1. f[m] = Append(f[m - 1], s[m]) /\ L(m) = L(m - 1) + 1
      <4>1. s[m] \in C
        BY <1>5, <2>4
      <4>2. f[m] = Append(f[m - 1], s[m])
        BY <1>2, <4>1
      <4>3. L(m) = L(m - 1) + 1
        BY <1>3, <2>4
      <4>. QED  BY <4>2, <4>3
    <3>2. /\ Len(f[m]) = L(m) /\ f[m][L(m)] = s[m]
          /\ \A i \in 1 .. L(m - 1) : f[m][i] = f[m - 1][i]
      BY <2>1, <2>2, <3>1
    <3>3. s[m] = IF L(m) < k THEN s[L(m)] ELSE s[L(m) + 1]
      BY <1>3, <2>4
    <3>4. \A i \in 1 .. L(m) : i = L(m) \/ i \in 1 .. L(m - 1)
      BY <1>3, <3>1
    <3>. QED  BY <2>1, <2>2, <3>2, <3>3, <3>4
  <2>. QED  BY <2>3, <2>4
<1> HIDE DEF K
<1>8. \A m \in 0 .. N : m \in K
  BY <1>3, <1>6, <1>7, StepByStep
<1>9. N \in K /\ N \in 0 .. N
  BY <1>3, <1>8
<1>. QED  BY <1>2, <1>3, <1>4, <1>9 DEF K, N

\* Selecting entries by their values, and selecting the values.
LEMMA KeptMapped ==
    ASSUME NEW E, NEW s \in Seq(E), NEW C, NEW D, NEW key, NEW T, NEW c \in Seq(D),
           Len(c) = Len(s), \A i \in 1 .. Len(s) : c[i] = key[s[i]],
           \A i \in 1 .. Len(s) : s[i] \in C <=> c[i] \in T
    PROVE  /\ Len(Kept(c, T)) = Len(Kept(s, C))
           /\ \A i \in 1 .. Len(Kept(s, C)) : Kept(c, T)[i] = key[Kept(s, C)[i]]
<1> DEFINE N == Len(s)
<1>1. PICK f \in [0 .. N -> Seq(E)] : Keeps(s, C, f)
  BY KeptRuns
<1>2. PICK g \in [0 .. N -> Seq(D)] : Keeps(c, T, g)
  BY KeptRuns
<1>3. /\ f[0] = <<>> /\ Kept(s, C) = f[N]
      /\ \A m \in 1 .. N : f[m] = IF s[m] \in C THEN Append(f[m - 1], s[m]) ELSE f[m - 1]
  BY <1>1 DEF Keeps
<1>4. /\ g[0] = <<>> /\ Kept(c, T) = g[N]
      /\ \A m \in 1 .. N : g[m] = IF c[m] \in T THEN Append(g[m - 1], c[m]) ELSE g[m - 1]
  BY <1>2 DEF Keeps
<1>5. N \in Nat /\ \A m \in 1 .. N : s[m] \in E /\ c[m] \in D /\ c[m] = key[s[m]]
  OBVIOUS
<1>6. \A m \in 0 .. N : f[m] \in Seq(E) /\ g[m] \in Seq(D)
  OBVIOUS
<1>7. \A m \in 1 .. N : s[m] \in C <=> c[m] \in T
  OBVIOUS
<1> HIDE DEF N
<1> DEFINE K == {m \in 0 .. N :
                  /\ Len(g[m]) = Len(f[m])
                  /\ \A i \in 1 .. Len(f[m]) : g[m][i] = key[f[m][i]]}
<1>8. 0 \in K
  BY <1>3, <1>4, <1>5
<1>9. ASSUME NEW m \in 1 .. N, m - 1 \in K PROVE m \in K
  <2> DEFINE a == f[m - 1]
             b == g[m - 1]
  <2>1. /\ m \in 0 .. N /\ s[m] \in E /\ c[m] \in D /\ c[m] = key[s[m]]
        /\ a \in Seq(E) /\ b \in Seq(D)
    <3>1. m - 1 \in 0 .. N /\ m \in 0 .. N
      BY <1>5
    <3>. QED  BY <1>5, <1>6, <3>1
  <2>2. Len(b) = Len(a) /\ \A i \in 1 .. Len(a) : b[i] = key[a[i]]
    BY <1>9
  <2>3. CASE s[m] \notin C
    <3>1. f[m] = a /\ g[m] = b
      BY <1>3, <1>4, <1>7, <2>3
    <3>. QED  BY <2>1, <2>2, <3>1
  <2>4. CASE s[m] \in C
    <3>1. f[m] = Append(a, s[m]) /\ g[m] = Append(b, c[m])
      BY <1>3, <1>4, <1>7, <2>4
    <3> HIDE DEF a, b
    <3>2. /\ Len(f[m]) = Len(a) + 1 /\ f[m][Len(a) + 1] = s[m]
          /\ \A i \in 1 .. Len(a) : f[m][i] = a[i]
          /\ Len(g[m]) = Len(a) + 1 /\ g[m][Len(a) + 1] = c[m]
          /\ \A i \in 1 .. Len(a) : g[m][i] = b[i]
      BY <2>1, <2>2, <3>1
    <3>3. Len(a) \in Nat /\ \A i \in 1 .. Len(a) + 1 : i = Len(a) + 1 \/ i \in 1 .. Len(a)
      BY <2>1
    <3>. QED  BY <2>1, <2>2, <3>2, <3>3
  <2>. QED  BY <2>3, <2>4
<1> HIDE DEF K
<1>10. \A m \in 0 .. N : m \in K
  BY <1>5, <1>8, <1>9, StepByStep
<1>11. N \in K
  BY <1>5, <1>10
<1>. QED  BY <1>3, <1>4, <1>11 DEF K

-----------------------------------------------------------------------------
(* Sorting by splitting around a pivot.                                    *)

LEMMA BoundedSeqs ==
    ASSUME NEW E, NEW n \in Nat
    PROVE  \A t : t \in BoundedSeq(E, n) <=> t \in Seq(E) /\ Len(t) <= n
<1>1. BoundedSeq(E, n) = UNION {[1 .. m -> E] : m \in 0 .. n}
  BY DEF BoundedSeq, SeqOf
<1>2. ASSUME NEW t \in BoundedSeq(E, n) PROVE t \in Seq(E) /\ Len(t) <= n
  <2>1. PICK m \in 0 .. n : t \in [1 .. m -> E]
    BY <1>1, SMTT(30)
  <2>. QED  BY <2>1
<1>3. ASSUME NEW t \in Seq(E), Len(t) <= n PROVE t \in BoundedSeq(E, n)
  <2>1. Len(t) \in 0 .. n /\ t \in [1 .. Len(t) -> E]
    BY <1>3
  <2>. QED  BY <1>1, <2>1, ZenonT(60)
<1>. QED  BY <1>2, <1>3

\* l, p and r split a sequence that has two elements or more into the ones
\* before the pivot, the pivot, and the ones behind it.
Parts(t, l, p, r) ==
    /\ Len(l) + Len(r) + 1 = Len(t)
    /\ \A x : Copies(t, x) = Copies(l, x) + Copies(r, x) + IF p = x THEN 1 ELSE 0

Splits(E, N, L, P, R) ==
    \A t \in BoundedSeq(E, N) : Len(t) >= 2 =>
        L[t] \in Seq(E) /\ R[t] \in Seq(E) /\ P[t] \in E /\ Parts(t, L[t], P[t], R[t])

\* f sorts by sorting what is on both sides of the pivot.
Sorts(B, L, P, R, f) ==
    f = [t \in B |-> IF Len(t) < 2 THEN t ELSE f[L[t]] \o <<P[t]>> \o f[R[t]]]

LEMMA SplitShorter ==
    ASSUME NEW E, NEW N \in Nat, NEW L, NEW P, NEW R, Splits(E, N, L, P, R),
           NEW t \in BoundedSeq(E, N), Len(t) >= 2
    PROVE  /\ L[t] \in BoundedSeq(E, N) /\ Len(L[t]) < Len(t)
           /\ R[t] \in BoundedSeq(E, N) /\ Len(R[t]) < Len(t)
<1>1. L[t] \in Seq(E) /\ R[t] \in Seq(E) /\ Len(L[t]) + Len(R[t]) + 1 = Len(t)
  BY DEF Splits, Parts
<1>2. t \in Seq(E) /\ Len(t) <= N
  BY BoundedSeqs
<1>3. Len(L[t]) \in Nat /\ Len(R[t]) \in Nat /\ Len(t) \in Nat
  BY <1>1, <1>2
<1>4. Len(L[t]) < Len(t) /\ Len(R[t]) < Len(t) /\ Len(L[t]) <= N /\ Len(R[t]) <= N
  <2> SUFFICES \A a, b, c \in Nat : a + b + 1 = c /\ c <= N => a < c /\ b < c /\ a <= N /\ b <= N
    BY <1>1, <1>2, <1>3
  <2>. QED  OBVIOUS
<1>. QED  BY <1>1, <1>4, BoundedSeqs

\* There is such a function.
LEMMA SortExists ==
    ASSUME NEW E, NEW N \in Nat, NEW L, NEW P, NEW R, Splits(E, N, L, P, R)
    PROVE  \E f : Sorts(BoundedSeq(E, N), L, P, R, f)
<1> DEFINE B(n) == BoundedSeq(E, n)
           K == {n \in 0 .. N : \E f : Sorts(B(n), L, P, R, f)}
<1>1. 0 \in K
  <2> DEFINE f == [t \in B(0) |-> t]
  <2>1. \A t \in B(0) : Len(t) < 2
    BY BoundedSeqs
  <2>2. Sorts(B(0), L, P, R, f)
    BY <2>1 DEF Sorts
  <2>. QED  BY <2>2
<1>2. ASSUME NEW n \in 1 .. N, n - 1 \in K PROVE n \in K
  <2>1. PICK f : Sorts(B(n - 1), L, P, R, f)
    BY <1>2
  <2> DEFINE body(g, t) == IF Len(t) < 2 THEN t ELSE g[L[t]] \o <<P[t]>> \o g[R[t]]
             h == [t \in B(n) |-> IF Len(t) < n THEN f[t] ELSE body(f, t)]
  <2>2. n \in Nat /\ n - 1 \in Nat /\ n <= N
    OBVIOUS
  <2>3. \A t \in B(n) : Len(t) \in Nat /\ t \in Seq(E) /\ Len(t) <= n /\ t \in B(N)
    BY <2>2, BoundedSeqs
  <2>4. \A t \in B(n) : Len(t) < n => t \in B(n - 1) /\ h[t] = f[t]
    BY <2>2, <2>3, BoundedSeqs
  <2>5. \A t \in B(n) : Len(t) < n => f[t] = body(f, t)
    BY <2>1, <2>4 DEF Sorts
  <2>6. \A t \in B(n) : h[t] = body(f, t)
    BY <2>5
  <2>7. ASSUME NEW t \in B(n), Len(t) >= 2
        PROVE  h[L[t]] = f[L[t]] /\ h[R[t]] = f[R[t]]
    <3>1. /\ L[t] \in B(N) /\ Len(L[t]) < Len(t)
          /\ R[t] \in B(N) /\ Len(R[t]) < Len(t)
      BY <2>3, <2>7, SplitShorter
    <3>2. L[t] \in B(n) /\ Len(L[t]) < n /\ R[t] \in B(n) /\ Len(R[t]) < n
      <4>1. Len(L[t]) \in Nat /\ Len(R[t]) \in Nat /\ L[t] \in Seq(E) /\ R[t] \in Seq(E)
        BY <3>1, BoundedSeqs
      <4>. QED  BY <4>1, <2>2, <2>3, <3>1, BoundedSeqs
    <3>. QED  BY <3>2, <2>4
  <2>8. \A t \in B(n) : h[t] = body(h, t)
    <3> SUFFICES ASSUME NEW t \in B(n) PROVE h[t] = body(h, t)
      OBVIOUS
    <3>1. CASE Len(t) < 2
      <4>1. h[t] = body(f, t)
        BY <2>6
      <4>. QED  BY <3>1, <4>1
    <3>2. CASE ~ (Len(t) < 2)
      <4>1. Len(t) >= 2
        BY <2>3, <3>2
      <4>2. h[L[t]] = f[L[t]] /\ h[R[t]] = f[R[t]] /\ h[t] = body(f, t)
        BY <4>1, <2>6, <2>7
      <4> HIDE DEF h
      <4>. QED  BY <4>2
    <3>. QED  BY <3>1, <3>2
  <2>9. h = [t \in B(n) |-> h[t]]
    OBVIOUS
  <2> HIDE DEF h, B
  <2>10. Sorts(B(n), L, P, R, h)
    BY <2>8, <2>9 DEF Sorts
  <2>. QED  BY <2>2, <2>10
<1> HIDE DEF K
<1>3. N \in K
  <2>1. \A n \in 0 .. N : n \in K
    BY <1>1, <1>2, StepByStep
  <2>. QED  BY <2>1
<1>. QED  BY <1>3 DEF K

\* In the order of the keys.
InOrder(key, s) == \A i, j \in 1 .. Len(s) : i < j => key[s[i]] <= key[s[j]]

LEMMA JoinedInOrder ==
    ASSUME NEW E, NEW key, \A e \in E : key[e] \in Int,
           NEW a \in Seq(E), NEW p \in E, NEW b \in Seq(E),
           InOrder(key, a), InOrder(key, b),
           \A x \in Elems(a) : key[x] <= key[p], \A x \in Elems(b) : key[p] <= key[x]
    PROVE  /\ a \o <<p>> \o b \in Seq(E) /\ Len(a \o <<p>> \o b) = Len(a) + Len(b) + 1
           /\ InOrder(key, a \o <<p>> \o b)
<1> DEFINE n == Len(a)
           u == a \o <<p>> \o b
<1>1. n \in Nat /\ Len(b) \in Nat
  OBVIOUS
<1>2. /\ u \in Seq(E) /\ Len(u) = n + 1 + Len(b) /\ u[n + 1] = p
      /\ \A i \in 1 .. n : u[i] = a[i]
      /\ \A i \in 1 .. Len(b) : u[n + 1 + i] = b[i]
  <2> DEFINE v == a \o <<p>>
  <2>1. /\ v \in Seq(E) /\ Len(v) = n + 1 /\ v[n + 1] = p
        /\ \A i \in 1 .. n : v[i] = a[i]
    OBVIOUS
  <2> HIDE DEF v
  <2>2. /\ v \o b \in Seq(E) /\ Len(v \o b) = n + 1 + Len(b)
        /\ \A i \in 1 .. n + 1 : (v \o b)[i] = v[i]
        /\ \A i \in 1 .. Len(b) : (v \o b)[n + 1 + i] = b[i]
    BY <2>1, SMTT(30)
  <2>. QED  BY <1>1, <2>1, <2>2 DEF v
<1> HIDE DEF u, n
<1>3. /\ \A i \in 1 .. n : a[i] \in E /\ a[i] \in Elems(a)
      /\ \A i \in 1 .. Len(b) : b[i] \in E /\ b[i] \in Elems(b)
  BY DEF Elems, n
<1>4. ASSUME NEW i \in 1 .. Len(u), NEW j \in 1 .. Len(u), i < j
      PROVE  key[u[i]] <= key[u[j]]
  <2>1. \A k \in 1 .. Len(u) : k \in 1 .. n \/ k = n + 1 \/ (k - n - 1 \in 1 .. Len(b) /\ k = n + 1 + (k - n - 1))
    BY <1>1, <1>2
  <2>2. CASE j \in 1 .. n
    <3>1. i \in 1 .. n
      BY <1>1, <1>2, <1>4, <2>2
    <3>. QED  BY <1>2, <1>4, <2>2, <3>1 DEF InOrder, n
  <2>3. CASE j = n + 1
    <3>1. i \in 1 .. n
      BY <1>1, <1>2, <1>4, <2>3
    <3>2. key[a[i]] <= key[p]
      BY <1>3, <3>1
    <3>. QED  BY <1>2, <2>3, <3>1, <3>2
  <2>4. CASE j - n - 1 \in 1 .. Len(b) /\ j = n + 1 + (j - n - 1)
    <3>1. u[j] = b[j - n - 1] /\ key[p] <= key[b[j - n - 1]]
          /\ key[p] \in Int /\ key[u[j]] \in Int
      BY <1>2, <1>3, <2>4
    <3>2. CASE i \in 1 .. n
      <4>1. key[u[i]] <= key[p] /\ key[u[i]] \in Int
        BY <1>2, <1>3, <3>2
      <4>. QED  BY <3>1, <4>1
    <3>3. CASE i = n + 1
      BY <1>2, <3>1, <3>3
    <3>4. CASE i - n - 1 \in 1 .. Len(b) /\ i = n + 1 + (i - n - 1)
      <4>1. u[i] = b[i - n - 1] /\ i - n - 1 < j - n - 1
        BY <1>1, <1>2, <1>4, <3>4, SMTT(30)
      <4>2. key[b[i - n - 1]] <= key[b[j - n - 1]]
        BY <2>4, <3>4, <4>1 DEF InOrder
      <4>. QED  BY <3>1, <4>1, <4>2
    <3>. QED  BY <2>1, <3>2, <3>3, <3>4
  <2>. QED  BY <2>1, <2>2, <2>3, <2>4
<1>5. Len(u) = Len(a) + Len(b) + 1
  BY <1>1, <1>2 DEF n
<1>6. InOrder(key, u)
  BY <1>4 DEF InOrder
<1>. QED  BY <1>2, <1>5, <1>6 DEF u

\* The pivot is between the keys of its two sides.
Pivots(E, N, key, L, P, R) ==
    \A t \in BoundedSeq(E, N) : Len(t) >= 2 =>
        /\ \A x \in Elems(L[t]) : key[x] <= key[P[t]]
        /\ \A x \in Elems(R[t]) : key[P[t]] <= key[x]

SortedAs(E, key, u, t) ==
    /\ u \in Seq(E) /\ Len(u) = Len(t) /\ \A x : Copies(u, x) = Copies(t, x)
    /\ InOrder(key, u)

LEMMA SortCorrect ==
    ASSUME NEW E, NEW N \in Nat, NEW L, NEW P, NEW R, Splits(E, N, L, P, R),
           NEW key, \A e \in E : key[e] \in Int, Pivots(E, N, key, L, P, R),
           NEW f, Sorts(BoundedSeq(E, N), L, P, R, f)
    PROVE  \A t \in BoundedSeq(E, N) : SortedAs(E, key, f[t], t)
<1> DEFINE B == BoundedSeq(E, N)
           K == {n \in 0 .. N : \A t \in B : Len(t) <= n => SortedAs(E, key, f[t], t)}
<1>1. \A t \in B : t \in Seq(E) /\ Len(t) \in Nat /\ Len(t) <= N
  BY BoundedSeqs
<1>2. \A t \in B : f[t] = IF Len(t) < 2 THEN t ELSE f[L[t]] \o <<P[t]>> \o f[R[t]]
  BY DEF Sorts
<1>3. ASSUME NEW t \in B, Len(t) < 2 PROVE SortedAs(E, key, f[t], t)
  <2>1. f[t] = t /\ t \in Seq(E) /\ Len(t) \in Nat
    BY <1>1, <1>2, <1>3
  <2>2. InOrder(key, t)
    BY <1>3, <2>1 DEF InOrder
  <2>. QED  BY <2>1, <2>2 DEF SortedAs
<1>4. 0 \in K
  <2>1. \A t \in B : Len(t) <= 0 => Len(t) < 2
    BY <1>1
  <2>. QED  BY <1>3, <2>1
<1>5. ASSUME NEW n \in 1 .. N, n - 1 \in K PROVE n \in K
  <2> SUFFICES ASSUME NEW t \in B, Len(t) <= n PROVE SortedAs(E, key, f[t], t)
    BY DEF K
  <2>1. CASE Len(t) < 2
    BY <1>3, <2>1
  <2>2. CASE ~ (Len(t) < 2)
    <3> DEFINE l == L[t]
               p == P[t]
               r == R[t]
               a == f[l]
               b == f[r]
    <3>1. Len(t) >= 2 /\ Len(t) \in Nat
      BY <1>1, <2>2
    <3>2. f[t] = a \o <<p>> \o b
      BY <1>2, <2>2
    <3>3. /\ l \in B /\ Len(l) < Len(t) /\ r \in B /\ Len(r) < Len(t)
      BY <3>1, SplitShorter
    <3>4. /\ l \in Seq(E) /\ p \in E /\ r \in Seq(E) /\ Parts(t, l, p, r)
      BY <3>1 DEF Splits
    <3>5. \A x \in Elems(l) : key[x] <= key[p]
      BY <3>1 DEF Pivots
    <3>6. \A x \in Elems(r) : key[p] <= key[x]
      BY <3>1 DEF Pivots
    <3> HIDE DEF l, p, r, B
    <3>7. Len(l) <= n - 1 /\ Len(r) <= n - 1
      BY <1>1, <3>1, <3>3
    <3>8. SortedAs(E, key, a, l) /\ SortedAs(E, key, b, r)
      BY <1>5, <3>3, <3>7
    <3> HIDE DEF a, b, K
    <3>9. a \in Seq(E) /\ b \in Seq(E) /\ Elems(a) = Elems(l) /\ Elems(b) = Elems(r)
      <4>1. \A x : Copies(a, x) = Copies(l, x) /\ Copies(b, x) = Copies(r, x)
        BY <3>8 DEF SortedAs
      <4>2. a \in Seq(E) /\ b \in Seq(E)
        BY <3>8 DEF SortedAs
      <4>3. \A x : (x \in Elems(a) <=> x \in Elems(l)) /\ (x \in Elems(b) <=> x \in Elems(r))
        BY <4>1, <4>2, <3>4, CopiesNat
      <4>. QED  BY <4>2, <4>3
    <3>10. /\ f[t] \in Seq(E) /\ Len(f[t]) = Len(a) + Len(b) + 1 /\ InOrder(key, f[t])
      <4>1. InOrder(key, a) /\ InOrder(key, b)
        BY <3>8 DEF SortedAs
      <4>2. /\ \A x \in Elems(a) : key[x] <= key[p]
            /\ \A x \in Elems(b) : key[p] <= key[x]
        BY <3>5, <3>6, <3>9
      <4>3. /\ a \o <<p>> \o b \in Seq(E) /\ Len(a \o <<p>> \o b) = Len(a) + Len(b) + 1
            /\ InOrder(key, a \o <<p>> \o b)
        BY <3>4, <3>9, <4>1, <4>2, JoinedInOrder
      <4>. QED  BY <3>2, <4>3
    <3>11. Len(f[t]) = Len(t)
      BY <3>4, <3>8, <3>10 DEF SortedAs, Parts
    <3>12. ASSUME NEW x PROVE Copies(f[t], x) = Copies(t, x)
      <4>1. <<p>> \in Seq(E) /\ a \o <<p>> \in Seq(E)
        BY <3>4, <3>9
      <4>2. Copies(f[t], x) = Copies(a \o <<p>>, x) + Copies(b, x)
        <5>1. Copies((a \o <<p>>) \o b, x) = Copies(a \o <<p>>, x) + Copies(b, x)
          BY <3>9, <4>1, CopiesConcat
        <5>. QED  BY <3>2, <5>1
      <4>3. Copies(a \o <<p>>, x) = Copies(a, x) + Copies(<<p>>, x)
        BY <3>9, <4>1, CopiesConcat
      <4>4. Copies(<<p>>, x) = IF p = x THEN 1 ELSE 0
        BY CopiesSingle
      <4>5. Copies(t, x) = Copies(l, x) + Copies(r, x) + IF p = x THEN 1 ELSE 0
        BY <3>4 DEF Parts
      <4>6. Copies(a, x) = Copies(l, x) /\ Copies(b, x) = Copies(r, x)
        BY <3>8 DEF SortedAs
      <4>7. Copies(l, x) \in Nat /\ Copies(r, x) \in Nat
        BY <3>4, CopiesNat
      <4>. QED  BY <4>2, <4>3, <4>4, <4>5, <4>6, <4>7
    <3>. QED  BY <3>10, <3>11, <3>12 DEF SortedAs
  <2>. QED  BY <2>1, <2>2
<1> HIDE DEF K, B
<1>6. \A n \in 0 .. N : n \in K
  BY <1>4, <1>5, StepByStep
<1>7. N \in K
  BY <1>6
<1>8. \A t \in B : SortedAs(E, key, f[t], t)
  BY <1>1, <1>7 DEF K
<1>. QED  BY <1>8 DEF B

-----------------------------------------------------------------------------
(* The sort of the lists: the first entry is the pivot, and the others are  *)
(* put to the front of one of two lists.                                    *)

Before(E, key, t) == Reverse(Kept(Tail(t), {n \in E : key[n] < key[t[1]]}))
Behind(E, key, t) == Reverse(Kept(Tail(t), {n \in E : key[n] >= key[t[1]]}))

LEMMA ListParts ==
    ASSUME NEW E, NEW key, \A e \in E : key[e] \in Int, NEW t \in Seq(E), Len(t) >= 2
    PROVE  /\ Before(E, key, t) \in Seq(E) /\ Behind(E, key, t) \in Seq(E) /\ t[1] \in E
           /\ Parts(t, Before(E, key, t), t[1], Behind(E, key, t))
           /\ \A x \in Elems(Before(E, key, t)) : key[x] <= key[t[1]]
           /\ \A x \in Elems(Behind(E, key, t)) : key[t[1]] <= key[x]
<1> DEFINE p == t[1]
           u == Tail(t)
           G == {n \in E : key[n] < key[p]}
           B == {n \in E : key[n] >= key[p]}
           a == Kept(u, G)
           b == Kept(u, B)
           l == Reverse(a)
           r == Reverse(b)
<1>1. /\ p \in E /\ u \in Seq(E) /\ <<p>> \in Seq(E) /\ Len(t) = Len(u) + 1 /\ Len(u) \in Nat
      /\ t = <<p>> \o u
  <2>1. Len(t) \in Nat /\ t # <<>>
    OBVIOUS
  <2>2. p \in E /\ u \in Seq(E) /\ <<p>> \in Seq(E) /\ Len(t) = Len(u) + 1 /\ Len(u) \in Nat
    BY <2>1
  <2>3. t = <<p>> \o u
    BY <2>1, HeadTailProperties
  <2>. QED  BY <2>2, <2>3
<1>2. \A e \in E : e \in G <=> e \notin B
  BY <1>1
<1>3. \A x : (x \in G => x \in E /\ key[x] <= key[p]) /\ (x \in B => x \in E /\ key[p] <= key[x])
  BY <1>1
<1> HIDE DEF p, u, G, B
<1>4. /\ a \in Seq(E) /\ \A x : Copies(a, x) = IF x \in G THEN Copies(u, x) ELSE 0
      /\ b \in Seq(E) /\ \A x : Copies(b, x) = IF x \in B THEN Copies(u, x) ELSE 0
      /\ Len(a) + Len(b) = Len(u)
  BY <1>1, <1>2, KeptCopies, KeptSplit
<1> HIDE DEF a, b
<1>5. /\ l \in Seq(E) /\ Len(l) = Len(a) /\ \A x : Copies(l, x) = Copies(a, x)
      /\ r \in Seq(E) /\ Len(r) = Len(b) /\ \A x : Copies(r, x) = Copies(b, x)
  BY <1>4, CopiesReverse
<1> HIDE DEF l, r
<1>6. Parts(t, l, p, r)
  <2>1. Len(l) + Len(r) + 1 = Len(t)
    BY <1>1, <1>4, <1>5
  <2>2. ASSUME NEW x PROVE Copies(t, x) = Copies(l, x) + Copies(r, x) + IF p = x THEN 1 ELSE 0
    <3>1. Copies(t, x) = Copies(<<p>>, x) + Copies(u, x)
      BY <1>1, CopiesConcat
    <3>2. Copies(<<p>>, x) = IF p = x THEN 1 ELSE 0
      BY CopiesSingle
    <3>3. Copies(u, x) \in Nat /\ (Copies(u, x) = 0 <=> x \notin Elems(u))
      BY <1>1, CopiesNat
    <3>4. Copies(l, x) + Copies(r, x) = Copies(u, x)
      <4>1. x \in Elems(u) => x \in E
        BY <1>1 DEF Elems
      <4>2. Copies(l, x) = IF x \in G THEN Copies(u, x) ELSE 0
        BY <1>4, <1>5
      <4>3. Copies(r, x) = IF x \in B THEN Copies(u, x) ELSE 0
        BY <1>4, <1>5
      <4>4. CASE x \in E
        BY <1>2, <3>3, <4>2, <4>3, <4>4
      <4>5. CASE x \notin E
        BY <1>3, <3>3, <4>1, <4>2, <4>3, <4>5
      <4>. QED  BY <4>4, <4>5
    <3>. QED  BY <3>1, <3>2, <3>3, <3>4
  <2>. QED  BY <2>1, <2>2 DEF Parts
<1>7. \A x : (x \in Elems(l) => x \in G) /\ (x \in Elems(r) => x \in B)
  <2> SUFFICES ASSUME NEW x PROVE (x \in Elems(l) => x \in G) /\ (x \in Elems(r) => x \in B)
    OBVIOUS
  <2>1. (Copies(l, x) = 0 <=> x \notin Elems(l)) /\ (Copies(r, x) = 0 <=> x \notin Elems(r))
    BY <1>5, CopiesNat
  <2>. QED  BY <1>4, <1>5, <2>1
<1>. QED  BY <1>1, <1>3, <1>5, <1>6, <1>7 DEF l, r, a, b, u, p, G, B, Before, Behind

ListSorts(E, N, key, f) ==
    f = [t \in BoundedSeq(E, N) |->
            IF Len(t) < 2 THEN t
            ELSE f[Before(E, key, t)] \o <<t[1]>> \o f[Behind(E, key, t)]]

LEMMA ListSortCorrect ==
    ASSUME NEW E, NEW N \in Nat, NEW key, \A e \in E : key[e] \in Int
    PROVE  /\ \E f : ListSorts(E, N, key, f)
           /\ \A f : ListSorts(E, N, key, f) =>
                \A t \in BoundedSeq(E, N) : SortedAs(E, key, f[t], t)
<1> DEFINE B == BoundedSeq(E, N)
           L == [t \in B |-> Before(E, key, t)]
           P == [t \in B |-> t[1]]
           R == [t \in B |-> Behind(E, key, t)]
<1>1. \A t \in B : t \in Seq(E)
  BY BoundedSeqs
<1>2. \A t \in B : L[t] = Before(E, key, t) /\ P[t] = t[1] /\ R[t] = Behind(E, key, t)
  OBVIOUS
<1>3. \A f : Sorts(B, L, P, R, f) <=> ListSorts(E, N, key, f)
  <2> SUFFICES ASSUME NEW f PROVE Sorts(B, L, P, R, f) <=> ListSorts(E, N, key, f)
    OBVIOUS
  <2>1. [t \in B |-> IF Len(t) < 2 THEN t ELSE f[L[t]] \o <<P[t]>> \o f[R[t]]]
        = [t \in B |-> IF Len(t) < 2 THEN t
                       ELSE f[Before(E, key, t)] \o <<t[1]>> \o f[Behind(E, key, t)]]
    <3> HIDE DEF L, P, R, B
    <3>. QED  BY <1>2
  <2> HIDE DEF L, P, R
  <2>. QED  BY <2>1 DEF Sorts, ListSorts
<1> HIDE DEF L, P, R
<1>4. Splits(E, N, L, P, R) /\ Pivots(E, N, key, L, P, R)
  BY <1>1, <1>2, ListParts DEF Splits, Pivots
<1>5. \E f : Sorts(B, L, P, R, f)
  BY <1>4, SortExists
<1>6. \A f : Sorts(B, L, P, R, f) => \A t \in B : SortedAs(E, key, f[t], t)
  BY <1>4, SortCorrect
<1> HIDE DEF B
<1>7. \A f : ListSorts(E, N, key, f) => \A t \in B : SortedAs(E, key, f[t], t)
  BY <1>3, <1>6
<1>. QED  BY <1>3, <1>5, <1>7 DEF B

-----------------------------------------------------------------------------
(* The doubly-linked list.                                                 *)

\* The next pointers run through s and the prev pointers back.
DoublyLinked(nx, pv, s) ==
    Chain(nx, nx[ListPtr], s) /\ \A i \in 1 .. Len(s) : pv[s[i]] = Entry(s, i - 1)

Pointers ==
    [nxt : [Nodes \cup {ListPtr} -> Nodes \cup {Null}], prev : [Nodes -> Nodes \cup {Null}]]

\* t is s without its k-th element.
Dropped(s, k, t) ==
    Len(t) = Len(s) - 1 /\ \A i \in 1 .. Len(t) : t[i] = IF i < k THEN s[i] ELSE s[i + 1]

\* A sequence without one of its elements.
LEMMA DroppedOnce ==
    ASSUME NEW E, NEW s \in Seq(E), Once(s), NEW k \in 1 .. Len(s), NEW t \in Seq(E),
           Dropped(s, k, t)
    PROVE  Once(t) /\ Elems(t) = Elems(s) \ {s[k]}
<1>1. Len(s) \in Nat /\ Len(t) = Len(s) - 1
  BY DEF Dropped
<1>2. \A i \in 1 .. Len(t) : t[i] = IF i < k THEN s[i] ELSE s[i + 1]
  BY DEF Dropped
<1>3. \A i \in 1 .. Len(t) : i \in 1 .. Len(s) /\ i + 1 \in 1 .. Len(s)
  BY <1>1
<1>4. Once(t)
  BY <1>1, <1>2, <1>3 DEF Once
<1>5. ASSUME NEW x \in Elems(t) PROVE x \in Elems(s) /\ x # s[k]
  <2>1. PICK i \in 1 .. Len(t) : x = t[i]
    BY DEF Elems
  <2>2. i \in 1 .. Len(s) /\ i + 1 \in 1 .. Len(s)
    BY <1>3
  <2>. QED  BY <1>1, <1>2, <2>1, <2>2 DEF Elems, Once
<1>6. ASSUME NEW x \in Elems(s), x # s[k] PROVE x \in Elems(t)
  <2>1. PICK i \in 1 .. Len(s) : x = s[i]
    BY DEF Elems
  <2>2. i # k
    BY <1>6, <2>1
  <2>3. CASE i < k
    <3>1. i \in 1 .. Len(t) /\ t[i] = s[i]
      BY <1>1, <1>2, <2>3
    <3>. QED  BY <2>1, <3>1 DEF Elems
  <2>4. CASE i > k
    <3>1. i - 1 \in 1 .. Len(t) /\ ~ (i - 1 < k) /\ i - 1 + 1 = i
      BY <1>1, <2>4
    <3>2. t[i - 1] = s[i]
      BY <1>2, <3>1
    <3>. QED  BY <2>1, <3>1, <3>2 DEF Elems
  <2>. QED  BY <2>2, <2>3, <2>4
<1>. QED  BY <1>4, <1>5, <1>6

LEMMA WithoutDrops ==
    ASSUME NEW s \in Seq(Nodes), Once(s), NEW k \in 1 .. Len(s)
    PROVE  Without(s, s[k]) \in Seq(Nodes) /\ Dropped(s, k, Without(s, s[k]))
<1> DEFINE C == Nodes \ {s[k]}
<1>1. \A i \in 1 .. Len(s) : s[i] \in C <=> i # k
  BY DEF Once
<1>2. Len(s) \in Nat
  OBVIOUS
<1> HIDE DEF C
<1>3. /\ Kept(s, C) \in Seq(Nodes) /\ Len(Kept(s, C)) = Len(s) - 1
      /\ \A i \in 1 .. Len(s) - 1 : Kept(s, C)[i] = IF i < k THEN s[i] ELSE s[i + 1]
  BY <1>1, KeptRemoves
<1>. QED  BY <1>2, <1>3 DEF Without, Dropped, C

\* Unlinking the k-th entry.
LEMMA UnlinkLinks ==
    ASSUME NEW s \in Seq(Nodes), Once(s), NEW k \in 1 .. Len(s), NEW l \in Pointers,
           DoublyLinked(l.nxt, l.prev, s), NEW t \in Seq(Nodes), Dropped(s, k, t)
    PROVE  Unlink(l, s[k]) \in Pointers
           /\ DoublyLinked(Unlink(l, s[k]).nxt, Unlink(l, s[k]).prev, t)
<1> DEFINE e == s[k]
           u == Unlink(l, e)
           nx == l.nxt
           pv == l.prev
           before == IF pv[e] = Null THEN ListPtr ELSE pv[e]
<1>1. /\ nx \in [Nodes \cup {ListPtr} -> Nodes \cup {Null}] /\ pv \in [Nodes -> Nodes \cup {Null}]
      /\ e \in Nodes /\ Len(s) \in Nat
  BY DEF Pointers
<1>2. u = [nxt  |-> [nx EXCEPT ![before] = nx[e]],
           prev |-> [p \in Nodes |-> IF p = nx[e] THEN pv[e] ELSE pv[p]]]
  BY Zenon DEF Unlink
<1>3. before = IF k = 1 THEN ListPtr ELSE s[k - 1]
  <2>1. pv[e] = Entry(s, k - 1)
    BY DEF DoublyLinked
  <2>. QED  BY <1>1, <2>1, ListAssumption DEF Entry
<1>4. nx[e] = Entry(s, k + 1) /\ pv[e] = Entry(s, k - 1)
  BY DEF DoublyLinked, Chain
<1>5. before \in Nodes \cup {ListPtr}
  BY <1>1, <1>3
<1> HIDE DEF before
<1>6. u \in Pointers
  BY <1>1, <1>2, <1>5 DEF Pointers
<1>7. /\ \A n \in Nodes \cup {ListPtr} : u.nxt[n] = IF n = before THEN nx[e] ELSE nx[n]
      /\ \A n \in Nodes : u.prev[n] = IF n = nx[e] THEN pv[e] ELSE pv[n]
  BY <1>1, <1>2, <1>5
<1> HIDE DEF u
<1>8. \A i \in 1 .. Len(s) : /\ s[i] \in Nodes /\ s[i] # Null /\ s[i] # ListPtr
                             /\ (s[i] = before <=> i = k - 1)
                             /\ (s[i] = nx[e] <=> i = k + 1)
  <2> SUFFICES ASSUME NEW i \in 1 .. Len(s)
               PROVE  /\ s[i] \in Nodes /\ s[i] # Null /\ s[i] # ListPtr
                      /\ (s[i] = before <=> i = k - 1)
                      /\ (s[i] = nx[e] <=> i = k + 1)
    OBVIOUS
  <2>1. s[i] \in Nodes /\ s[i] # Null /\ s[i] # ListPtr
    BY ListAssumption
  <2>2. s[i] = before <=> i = k - 1
    BY <1>1, <1>3, <2>1 DEF Once
  <2>3. s[i] = nx[e] <=> i = k + 1
    BY <1>1, <1>4, <2>1 DEF Once, Entry
  <2>. QED  BY <2>1, <2>2, <2>3
<1>9. /\ Len(t) = Len(s) - 1
      /\ \A i \in 1 .. Len(t) : t[i] = IF i < k THEN s[i] ELSE s[i + 1]
  BY DEF Dropped
<1>10. nx[ListPtr] = Entry(s, 1) /\ \A i \in 1 .. Len(s) : nx[s[i]] = Entry(s, i + 1)
  BY DEF DoublyLinked, Chain
<1>11. \A i \in 1 .. Len(s) : pv[s[i]] = Entry(s, i - 1)
  BY DEF DoublyLinked
<1>12. u.nxt[ListPtr] = Entry(t, 1)
  BY <1>1, <1>3, <1>4, <1>7, <1>8, <1>9, <1>10 DEF Entry
<1>13. ASSUME NEW i \in 1 .. Len(t) PROVE u.nxt[t[i]] = Entry(t, i + 1)
  <2>1. i \in 1 .. Len(s) /\ i + 1 \in 1 .. Len(s)
    BY <1>1, <1>9
  <2>2. CASE i < k
    <3>1. t[i] = s[i] /\ u.nxt[t[i]] = IF i = k - 1 THEN Entry(s, k + 1) ELSE Entry(s, i + 1)
      BY <1>4, <1>7, <1>8, <1>9, <1>10, <2>1, <2>2
    <3>. QED  BY <1>1, <1>9, <2>1, <2>2, <3>1 DEF Entry
  <2>3. CASE i >= k
    <3>1. t[i] = s[i + 1] /\ u.nxt[t[i]] = Entry(s, i + 2)
      BY <1>1, <1>7, <1>8, <1>9, <1>10, <2>1, <2>3, SMTT(30)
    <3>. QED  BY <1>1, <1>9, <2>1, <2>3, <3>1, SMTT(30) DEF Entry
  <2>. QED  BY <1>1, <2>2, <2>3
<1>14. ASSUME NEW i \in 1 .. Len(t) PROVE u.prev[t[i]] = Entry(t, i - 1)
  <2>1. i \in 1 .. Len(s) /\ i + 1 \in 1 .. Len(s)
    BY <1>1, <1>9
  <2>2. CASE i < k
    <3>1. t[i] = s[i] /\ u.prev[t[i]] = Entry(s, i - 1)
      BY <1>1, <1>7, <1>8, <1>9, <1>11, <2>1, <2>2
    <3>. QED  BY <1>1, <1>9, <2>1, <2>2, <3>1 DEF Entry
  <2>3. CASE i >= k
    <3>1. t[i] = s[i + 1] /\ u.prev[t[i]] = IF i = k THEN Entry(s, k - 1) ELSE Entry(s, i)
      BY <1>1, <1>4, <1>7, <1>8, <1>9, <1>11, <2>1, <2>3
    <3>. QED  BY <1>1, <1>9, <2>1, <2>3, <3>1 DEF Entry
  <2>. QED  BY <1>1, <2>2, <2>3
<1>15. DoublyLinked(u.nxt, u.prev, t)
  BY <1>12, <1>13, <1>14 DEF DoublyLinked, Chain
<1>. QED  BY <1>6, <1>15 DEF u

\* The pointers, and the entries in use: those of seq.
ListOK ==
    /\ seq \in Seq(Nodes) /\ Once(seq)
    /\ Links \in Pointers /\ DoublyLinked(nxt, prev, seq)
    /\ st \in [Nodes -> {"free", "used", "removed"}]
    /\ \A n \in Nodes : st[n] = "used" <=> n \in Elems(seq)
    /\ data \in [Nodes -> Data]

\* What follows the k-th element.
IsRest(E, s, k, t) ==
    t \in Seq(E) /\ Len(t) = Len(s) - k /\ \A i \in 1 .. Len(t) : t[i] = s[k + i]

\* The iterator's prev_next is the k-th next pointer; it is at the entry behind
\* it, or at none: at the start, at the end, or where its entry was removed.
IterAt(k) ==
    /\ iter.prev_next = IF k = 0 THEN ListPtr ELSE seq[k]
    /\ \/ k < Len(seq) /\ iter.current = seq[k + 1] /\ IsRest(Nodes, seq, k + 1, todo)
       \/ /\ iter.current = Null \/ (iter.current \in Nodes /\ st[iter.current] = "removed")
          /\ IsRest(Nodes, seq, k, todo)

IterOK ==
    iter # Null =>
        /\ iter = [prev_next |-> iter.prev_next, current |-> iter.current]
        /\ \E k \in 0 .. Len(seq) : IterAt(k)

LEMMA WalkIsSeq == ListOK => Walk = seq
<1> SUFFICES ASSUME ListOK PROVE Walk = seq
  OBVIOUS
<1>1. seq \in Seq(Nodes) /\ Once(seq) /\ Chain(nxt, nxt[ListPtr], seq)
  BY DEF ListOK, DoublyLinked
<1>. QED  BY <1>1, AlongChain, ListAssumption DEF Walk

LEMMA ListInit == Init => ListOK /\ IterOK
<1> SUFFICES ASSUME Init PROVE ListOK /\ IterOK
  OBVIOUS
<1> USE DEF Init
<1>1. seq \in Seq(Nodes) /\ Len(seq) = 0 /\ Once(seq) /\ Elems(seq) = {}
  BY DEF Once, Elems
<1>2. Links \in Pointers
  BY DEF Links, Pointers
<1>3. DoublyLinked(nxt, prev, seq)
  BY <1>1 DEF DoublyLinked, Chain, Entry
<1>4. st \in [Nodes -> {"free", "used", "removed"}] /\ \A n \in Nodes : st[n] # "used"
  OBVIOUS
<1>5. data \in [Nodes -> Data]
  BY ListAssumption
<1>. QED  BY <1>1, <1>2, <1>3, <1>4, <1>5 DEF ListOK, IterOK

LEMMA ListPrepend ==
    ASSUME ListOK, NEW n \in Nodes, NEW d \in Data, list_prepend(n, d)
    PROVE  ListOK'
<1> DEFINE t == seq'
<1>1. /\ seq \in Seq(Nodes) /\ Once(seq) /\ Len(seq) \in Nat
      /\ nxt \in [Nodes \cup {ListPtr} -> Nodes \cup {Null}] /\ prev \in [Nodes -> Nodes \cup {Null}]
      /\ nxt[ListPtr] = Entry(seq, 1)
      /\ \A i \in 1 .. Len(seq) : /\ nxt[seq[i]] = Entry(seq, i + 1)
                                  /\ prev[seq[i]] = Entry(seq, i - 1)
      /\ \A i \in 1 .. Len(seq) : seq[i] \in Nodes /\ seq[i] # Null /\ seq[i] # ListPtr
  BY ListAssumption DEF ListOK, DoublyLinked, Chain, Links, Pointers
<1>2. n \notin Elems(seq) /\ \A i \in 1 .. Len(seq) : seq[i] # n
  BY DEF ListOK, list_prepend, Alloc, Elems
<1>3. /\ t \in Seq(Nodes) /\ Len(t) = Len(seq) + 1 /\ t[1] = n
      /\ \A i \in 1 .. Len(seq) : t[i + 1] = seq[i]
      /\ \A i \in 2 .. Len(t) : i - 1 \in 1 .. Len(seq) /\ t[i] = seq[i - 1]
  <2>1. t = <<n>> \o seq
    BY DEF list_prepend
  <2>2. /\ t \in Seq(Nodes) /\ Len(t) = Len(seq) + 1 /\ t[1] = n
        /\ \A i \in 1 .. Len(seq) : t[i + 1] = seq[i]
    BY <1>1, <2>1
  <2>3. \A i \in 2 .. Len(t) : i - 1 \in 1 .. Len(seq) /\ i - 1 + 1 = i
    BY <1>1, <2>2
  <2>. QED  BY <2>2, <2>3
<1>4. /\ n # ListPtr /\ n # Null
      /\ nxt' = [nxt EXCEPT ![n] = nxt[ListPtr], ![ListPtr] = n]
      /\ prev' = [p \in Nodes |-> IF p = n THEN Null ELSE IF p = nxt[ListPtr] THEN n ELSE prev[p]]
  BY ListAssumption DEF list_prepend, PrevOfFirst
<1>5. /\ nxt' \in [Nodes \cup {ListPtr} -> Nodes \cup {Null}] /\ prev' \in [Nodes -> Nodes \cup {Null}]
      /\ nxt'[ListPtr] = n /\ nxt'[n] = nxt[ListPtr]
      /\ \A m \in Nodes : m # n => nxt'[m] = nxt[m]
      /\ \A m \in Nodes : prev'[m] = IF m = n THEN Null ELSE IF m = nxt[ListPtr] THEN n ELSE prev[m]
  <2>1. nxt[ListPtr] \in Nodes \cup {Null}
    BY <1>1
  <2>2. nxt' \in [Nodes \cup {ListPtr} -> Nodes \cup {Null}]
    BY <1>1, <1>4, <2>1
  <2>3. prev' \in [Nodes -> Nodes \cup {Null}]
    BY <1>1, <1>4, <2>1
  <2>4. nxt'[ListPtr] = n /\ nxt'[n] = nxt[ListPtr] /\ \A m \in Nodes : m # n => nxt'[m] = nxt[m]
    BY <1>1, <1>4, ListAssumption
  <2>5. \A m \in Nodes : prev'[m] = IF m = n THEN Null ELSE IF m = nxt[ListPtr] THEN n ELSE prev[m]
    BY <1>4
  <2>. QED  BY <2>2, <2>3, <2>4, <2>5
<1>6. Once(t)
  <2> SUFFICES ASSUME NEW i \in 1 .. Len(t), NEW j \in 1 .. Len(t), t[i] = t[j] PROVE i = j
    BY DEF Once
  <2>1. (i = 1 \/ i \in 2 .. Len(t)) /\ (j = 1 \/ j \in 2 .. Len(t))
    BY <1>1, <1>3
  <2>2. CASE i = 1 \/ j = 1
    BY <1>2, <1>3, <2>1, <2>2
  <2>3. CASE i \in 2 .. Len(t) /\ j \in 2 .. Len(t)
    <3>1. i - 1 \in 1 .. Len(seq) /\ j - 1 \in 1 .. Len(seq) /\ seq[i - 1] = seq[j - 1]
      BY <1>3, <2>3
    <3>2. i - 1 = j - 1
      BY <1>1, <3>1 DEF Once
    <3>. QED  BY <2>3, <3>2
  <2>. QED  BY <2>1, <2>2, <2>3
<1>7. Elems(t) = Elems(seq) \cup {n}
  <2>1. \A i \in 1 .. Len(t) : i = 1 \/ i \in 2 .. Len(t)
    BY <1>1, <1>3
  <2>2. 1 \in 1 .. Len(t) /\ \A i \in 1 .. Len(seq) : i + 1 \in 1 .. Len(t)
    BY <1>1, <1>3
  <2>3. \A x \in Elems(t) : x \in Elems(seq) \cup {n}
    BY <1>3, <2>1 DEF Elems
  <2>4. \A x \in Elems(seq) : x \in Elems(t)
    BY <1>3, <2>2 DEF Elems
  <2>5. n \in Elems(t)
    BY <1>3, <2>2 DEF Elems
  <2>. QED  BY <2>3, <2>4, <2>5
<1>8. DoublyLinked(nxt', prev', t)
  <2>1. nxt'[ListPtr] = Entry(t, 1)
    BY <1>1, <1>3, <1>5 DEF Entry
  <2>2. ASSUME NEW i \in 1 .. Len(t)
        PROVE  nxt'[t[i]] = Entry(t, i + 1) /\ prev'[t[i]] = Entry(t, i - 1)
    <3>1. CASE i = 1
      BY <1>1, <1>3, <1>5, <3>1 DEF Entry
    <3>2. CASE i \in 2 .. Len(t)
      <4>1. /\ i - 1 \in 1 .. Len(seq) /\ t[i] = seq[i - 1] /\ seq[i - 1] \in Nodes /\ seq[i - 1] # n
            /\ nxt[seq[i - 1]] = Entry(seq, i) /\ prev[seq[i - 1]] = Entry(seq, i - 2)
        BY <1>1, <1>2, <1>3, <3>2
      <4>2. nxt'[t[i]] = Entry(seq, i)
        BY <1>5, <4>1
      <4>3. Entry(seq, i) = Entry(t, i + 1)
        BY <1>1, <1>3, <4>1 DEF Entry
      <4>4. seq[i - 1] = nxt[ListPtr] <=> i = 2
        BY <1>1, <3>2, <4>1 DEF Entry, Once
      <4>5. prev'[t[i]] = IF i = 2 THEN n ELSE Entry(seq, i - 2)
        BY <1>5, <4>1, <4>4
      <4>6. (IF i = 2 THEN n ELSE Entry(seq, i - 2)) = Entry(t, i - 1)
        BY <1>1, <1>3, <3>2, <4>1 DEF Entry
      <4>. QED  BY <4>2, <4>3, <4>5, <4>6
    <3>. QED  BY <1>1, <1>3, <3>1, <3>2
  <2>. QED  BY <2>1, <2>2 DEF DoublyLinked, Chain
<1>9. /\ st' \in [Nodes -> {"free", "used", "removed"}]
      /\ \A m \in Nodes : st'[m] = "used" <=> m \in Elems(t)
  BY <1>7 DEF ListOK, list_prepend, Alloc
<1>10. data' \in [Nodes -> Data]
  BY DEF ListOK, list_prepend, Alloc
<1>11. Links' \in Pointers
  BY <1>5 DEF Links, Pointers
<1> HIDE DEF t
<1>12. t = seq'
  BY DEF t
<1>. QED  BY <1>3, <1>6, <1>8, <1>9, <1>10, <1>11, <1>12 DEF ListOK

\* What ListOK says of each entry.
LEMMA ListFacts ==
    ASSUME ListOK
    PROVE  /\ seq \in Seq(Nodes) /\ Once(seq) /\ Len(seq) \in Nat
           /\ nxt \in [Nodes \cup {ListPtr} -> Nodes \cup {Null}]
           /\ prev \in [Nodes -> Nodes \cup {Null}]
           /\ nxt[ListPtr] = Entry(seq, 1)
           /\ \A i \in 1 .. Len(seq) : /\ nxt[seq[i]] = Entry(seq, i + 1)
                                       /\ prev[seq[i]] = Entry(seq, i - 1)
           /\ \A i \in 1 .. Len(seq) : seq[i] \in Nodes /\ seq[i] # Null /\ seq[i] # ListPtr
           /\ \A i \in 1 .. Len(seq) : seq[i] \in Elems(seq) /\ st[seq[i]] = "used"
BY ListAssumption DEF ListOK, DoublyLinked, Chain, Links, Pointers, Elems

LEMMA ListAppend ==
    ASSUME ListOK, IterOK, NEW n \in Nodes, NEW d \in Data, list_append(n, d)
    PROVE  ListOK' /\ IterOK'
<1> DEFINE t == seq'
           N == Len(seq)
           last == IF N = 0 THEN ListPtr ELSE seq[N]
<1>1. /\ seq \in Seq(Nodes) /\ Once(seq) /\ N \in Nat
      /\ nxt \in [Nodes \cup {ListPtr} -> Nodes \cup {Null}] /\ prev \in [Nodes -> Nodes \cup {Null}]
      /\ nxt[ListPtr] = Entry(seq, 1)
      /\ \A i \in 1 .. N : /\ nxt[seq[i]] = Entry(seq, i + 1)
                           /\ prev[seq[i]] = Entry(seq, i - 1)
      /\ \A i \in 1 .. N : seq[i] \in Nodes /\ seq[i] # Null /\ seq[i] # ListPtr
  BY ListFacts
<1>2. n \notin Elems(seq) /\ \A i \in 1 .. N : seq[i] # n
  BY DEF ListOK, list_append, Alloc, Elems
<1>3. t = Append(seq, n)
  BY DEF list_append
<1>4. /\ t \in Seq(Nodes) /\ Len(t) = N + 1 /\ t[N + 1] = n
      /\ \A i \in 1 .. N : t[i] = seq[i]
  BY <1>1, <1>3
<1>5. LastEntry = last /\ last \in Nodes \cup {ListPtr} /\ last # n
      /\ (last = ListPtr <=> N = 0) /\ n # ListPtr /\ n # Null
  <2>1. Walk = seq
    BY WalkIsSeq
  <2>2. seq = <<>> <=> N = 0
    BY <1>1
  <2>. QED  BY <1>1, <1>2, <2>1, <2>2, ListAssumption DEF LastEntry
<1>6. /\ nxt' = [nxt EXCEPT ![n] = Null, ![last] = n]
      /\ prev' = [prev EXCEPT ![n] = IF N = 0 THEN Null ELSE last]
  BY <1>5, Zenon DEF list_append
<1> HIDE DEF last, t, N
<1>7. /\ nxt' \in [Nodes \cup {ListPtr} -> Nodes \cup {Null}]
      /\ nxt'[n] = Null /\ nxt'[last] = n
      /\ \A m \in Nodes \cup {ListPtr} : m # n /\ m # last => nxt'[m] = nxt[m]
  BY <1>1, <1>5, <1>6
<1>8. /\ prev' \in [Nodes -> Nodes \cup {Null}]
      /\ prev'[n] = IF N = 0 THEN Null ELSE last
      /\ \A m \in Nodes : m # n => prev'[m] = prev[m]
  BY <1>1, <1>5, <1>6
<1>9. \A i \in 1 .. Len(t) : i = N + 1 \/ i \in 1 .. N
  BY <1>1, <1>4
<1>10. Once(t)
  BY <1>1, <1>2, <1>4, <1>9 DEF Once, N
<1>11. Elems(t) = Elems(seq) \cup {n}
  <2>1. N + 1 \in 1 .. Len(t) /\ \A i \in 1 .. N : i \in 1 .. Len(t)
    BY <1>1, <1>4
  <2>. QED  BY <1>4, <1>9, <2>1 DEF Elems, N
<1>12. DoublyLinked(nxt', prev', t)
  <2>1. nxt'[ListPtr] = Entry(t, 1)
    <3>1. CASE N = 0
      <4>1. last = ListPtr /\ t[1] = n /\ 1 \in 1 .. Len(t)
        BY <1>4, <1>5, <3>1
      <4>. QED  BY <1>7, <4>1 DEF Entry
    <3>2. CASE N # 0
      <4>1. nxt'[ListPtr] = nxt[ListPtr] /\ 1 \in 1 .. N /\ 1 \in 1 .. Len(t)
        BY <1>1, <1>4, <1>5, <1>7, <3>2
      <4>. QED  BY <1>1, <1>4, <4>1 DEF Entry, N
    <3>. QED  BY <3>1, <3>2
  <2>2. ASSUME NEW i \in 1 .. Len(t) PROVE nxt'[t[i]] = Entry(t, i + 1)
    <3>1. CASE i = N + 1
      BY <1>1, <1>4, <1>7, <3>1 DEF Entry
    <3>2. CASE i \in 1 .. N /\ i = N
      <4>1. t[i] = last
        BY <1>4, <3>2 DEF last
      <4>. QED  BY <1>1, <1>4, <1>7, <3>2, <4>1 DEF Entry
    <3>3. CASE i \in 1 .. N /\ i # N
      <4>1. t[i] = seq[i] /\ seq[i] # n /\ seq[i] # last /\ seq[i] \in Nodes
        BY <1>1, <1>2, <1>4, <3>3 DEF last, Once, N
      <4>2. nxt'[t[i]] = Entry(seq, i + 1)
        BY <1>1, <1>7, <3>3, <4>1
      <4>3. i + 1 \in 1 .. N /\ i + 1 \in 1 .. Len(t)
        BY <1>1, <1>4, <3>3
      <4>. QED  BY <1>4, <4>2, <4>3 DEF Entry, N
    <3>. QED  BY <1>9, <3>1, <3>2, <3>3
  <2>3. ASSUME NEW i \in 1 .. Len(t) PROVE prev'[t[i]] = Entry(t, i - 1)
    <3>1. CASE i = N + 1
      <4>1. prev'[t[i]] = IF N = 0 THEN Null ELSE seq[N]
        BY <1>4, <1>8, <3>1 DEF last
      <4>2. i - 1 = N /\ (N # 0 => N \in 1 .. N /\ N \in 1 .. Len(t))
        BY <1>1, <1>4, <3>1
      <4>. QED  BY <1>4, <4>1, <4>2 DEF Entry
    <3>2. CASE i \in 1 .. N
      <4>1. prev'[t[i]] = Entry(seq, i - 1)
        BY <1>1, <1>2, <1>4, <1>8, <3>2
      <4>2. i = 1 \/ (i - 1 \in 1 .. N /\ i - 1 \in 1 .. Len(t))
        BY <1>1, <1>4, <3>2
      <4>3. Entry(seq, i - 1) = Entry(t, i - 1)
        BY <1>4, <4>2 DEF Entry, N
      <4>. QED  BY <4>1, <4>3
    <3>. QED  BY <1>9, <3>1, <3>2
  <2>. QED  BY <2>1, <2>2, <2>3 DEF DoublyLinked, Chain
<1>13. /\ st' \in [Nodes -> {"free", "used", "removed"}]
       /\ st' = [st EXCEPT ![n] = "used"] /\ st[n] = "free"
       /\ \A m \in Nodes : st'[m] = "used" <=> m \in Elems(t)
  BY <1>11 DEF ListOK, list_append, Alloc
<1>14. data' \in [Nodes -> Data]
  BY DEF ListOK, list_append, Alloc
<1>15. Links' \in Pointers
  BY <1>7, <1>8 DEF Links, Pointers
<1>16. t = seq'
  BY DEF t
<1>17. ListOK'
  BY <1>4, <1>10, <1>12, <1>13, <1>14, <1>15, <1>16 DEF ListOK
<1>18. IterOK'
  <2>1. CASE iter = Null
    BY <2>1 DEF list_append, IterOK
  <2>2. CASE iter # Null
    <3>1. /\ iter' = iter /\ todo' = Append(todo, n)
          /\ iter = [prev_next |-> iter.prev_next, current |-> iter.current]
      BY <2>2 DEF list_append, IterOK
    <3>2. PICK k \in 0 .. N : IterAt(k)
      BY <2>2 DEF IterOK, N
    <3>3. k \in 0 .. Len(t) /\ k \in Nat
      BY <1>1, <1>4
    <3>4. iter.prev_next = IF k = 0 THEN ListPtr ELSE t[k]
      BY <1>1, <1>4, <3>2 DEF IterAt
    <3>5. \A j \in 0 .. N : IsRest(Nodes, seq, j, todo) => IsRest(Nodes, t, j, Append(todo, n))
      <4> SUFFICES ASSUME NEW j \in 0 .. N, IsRest(Nodes, seq, j, todo)
                   PROVE  IsRest(Nodes, t, j, Append(todo, n))
        OBVIOUS
      <4> DEFINE u == Append(todo, n)
      <4>1. /\ todo \in Seq(Nodes) /\ Len(todo) = N - j /\ Len(todo) \in Nat
            /\ \A i \in 1 .. Len(todo) : todo[i] = seq[j + i]
        BY DEF IsRest, N
      <4>2. /\ u \in Seq(Nodes) /\ Len(u) = Len(todo) + 1 /\ u[Len(todo) + 1] = n
            /\ \A i \in 1 .. Len(todo) : u[i] = todo[i]
        BY <4>1
      <4> HIDE DEF u
      <4>3. Len(u) = Len(t) - j /\ j + (Len(todo) + 1) = N + 1
        BY <1>1, <1>4, <4>1, <4>2
      <4>4. ASSUME NEW i \in 1 .. Len(u) PROVE u[i] = t[j + i]
        <5>1. CASE i = Len(todo) + 1
          BY <1>4, <4>2, <4>3, <5>1
        <5>2. CASE i \in 1 .. Len(todo)
          <6>1. j + i \in 1 .. N
            BY <1>1, <4>1, <5>2
          <6>. QED  BY <1>4, <4>1, <4>2, <5>2, <6>1
        <5>. QED  BY <4>1, <4>2, <5>1, <5>2
      <4>. QED  BY <4>2, <4>3, <4>4 DEF IsRest, u
    <3>6. CASE k < N /\ iter.current = seq[k + 1] /\ IsRest(Nodes, seq, k + 1, todo)
      <4>1. k + 1 \in 1 .. N /\ k + 1 \in 0 .. N /\ k < Len(t)
        BY <1>1, <1>4, <3>3, <3>6
      <4>2. iter.current = t[k + 1] /\ IsRest(Nodes, t, k + 1, Append(todo, n))
        BY <1>4, <3>5, <3>6, <4>1
      <4>3. IterAt(k)'
        BY <3>1, <3>4, <4>1, <4>2, <1>16 DEF IterAt
      <4>. QED  BY <3>1, <3>3, <4>3, <1>16 DEF IterOK
    <3>7. CASE /\ iter.current = Null \/ (iter.current \in Nodes /\ st[iter.current] = "removed")
               /\ IsRest(Nodes, seq, k, todo)
      <4>1. iter.current = Null \/ (iter.current \in Nodes /\ st'[iter.current] = "removed")
        BY <1>13, <3>7 DEF ListOK
      <4>2. IsRest(Nodes, t, k, Append(todo, n))
        BY <3>5, <3>7
      <4>3. IterAt(k)'
        BY <3>1, <3>4, <4>1, <4>2, <1>16 DEF IterAt
      <4>. QED  BY <3>1, <3>3, <4>3, <1>16 DEF IterOK
    <3>. QED  BY <3>2, <3>6, <3>7 DEF IterAt, N
  <2>. QED  BY <2>1, <2>2
<1>. QED  BY <1>17, <1>18

LEMMA ListFree ==
    ASSUME ListOK, list_free
    PROVE  ListOK' /\ IterOK'
<1>1. seq' = <<>> /\ iter' = Null /\ UNCHANGED <<prev, data>>
      /\ nxt' = [nxt EXCEPT ![ListPtr] = Null] /\ st' = Freed(Range(Walk))
  BY DEF list_free, EndIteration
<1>2. seq' \in Seq(Nodes) /\ Len(seq') = 0 /\ Once(seq') /\ Elems(seq') = {}
  BY <1>1 DEF Once, Elems
<1>3. nxt' \in [Nodes \cup {ListPtr} -> Nodes \cup {Null}] /\ nxt'[ListPtr] = Null
  BY <1>1, ListFacts
<1>4. DoublyLinked(nxt', prev', seq')
  BY <1>2, <1>3 DEF DoublyLinked, Chain, Entry
<1>5. Walk = seq /\ seq \in Seq(Nodes)
  BY WalkIsSeq DEF ListOK
<1>6. Range(Walk) = Elems(seq)
  BY <1>5 DEF Range, Elems
<1>7. /\ st' \in [Nodes -> {"free", "used", "removed"}]
      /\ \A n \in Nodes : st'[n] # "used"
  BY <1>1, <1>6 DEF Freed, ListOK
<1>8. Links' \in Pointers
  BY <1>1, <1>3 DEF Links, Pointers, ListOK
<1>9. data' \in [Nodes -> Data]
  BY <1>1 DEF ListOK
<1>10. ListOK'
  BY <1>2, <1>4, <1>7, <1>8, <1>9 DEF ListOK
<1>. QED  BY <1>1, <1>10 DEF IterOK

\* An unlinked entry e is "removed" or "free" afterwards.
LEMMA ListUnlinked ==
    ASSUME ListOK, NEW k \in 1 .. Len(seq), NEW v \in {"free", "removed"},
           SetLinks(Unlink(Links, seq[k])), st' = [st EXCEPT ![seq[k]] = v],
           seq' = Without(seq, seq[k]), data' = data
    PROVE  ListOK' /\ Dropped(seq, k, seq')
<1>1. seq \in Seq(Nodes) /\ Once(seq) /\ seq[k] \in Nodes
  BY ListFacts
<1>2. seq' \in Seq(Nodes) /\ Dropped(seq, k, seq')
  BY <1>1, WithoutDrops
<1>3. Once(seq') /\ Elems(seq') = Elems(seq) \ {seq[k]}
  BY <1>1, <1>2, DroppedOnce
<1>4. Links \in Pointers /\ DoublyLinked(Links.nxt, Links.prev, seq)
  BY DEF ListOK, Links
<1>5. /\ Unlink(Links, seq[k]) \in Pointers
      /\ DoublyLinked(Unlink(Links, seq[k]).nxt, Unlink(Links, seq[k]).prev, seq')
  BY <1>1, <1>2, <1>4, UnlinkLinks
<1>6. nxt' = Unlink(Links, seq[k]).nxt /\ prev' = Unlink(Links, seq[k]).prev
  BY DEF SetLinks
<1>7. Links' \in Pointers /\ DoublyLinked(nxt', prev', seq')
  BY <1>5, <1>6 DEF Links, Pointers
<1>8. /\ st' \in [Nodes -> {"free", "used", "removed"}]
      /\ \A n \in Nodes : st'[n] = "used" <=> n \in Elems(seq')
  BY <1>1, <1>3 DEF ListOK
<1>. QED  BY <1>2, <1>3, <1>7, <1>8 DEF ListOK

\* Without the entry in between the rest follows one place earlier.
LEMMA RestDropped ==
    ASSUME NEW E, NEW s \in Seq(E), NEW j \in Nat, j < Len(s), NEW t, Dropped(s, j + 1, t),
           NEW r, IsRest(E, s, j + 1, r)
    PROVE  IsRest(E, t, j, r)
<1>1. /\ Len(s) \in Nat /\ Len(t) = Len(s) - 1
      /\ \A i \in 1 .. Len(t) : t[i] = IF i < j + 1 THEN s[i] ELSE s[i + 1]
  BY DEF Dropped
<1>2. /\ r \in Seq(E) /\ Len(r) = Len(s) - (j + 1)
      /\ \A i \in 1 .. Len(r) : r[i] = s[j + 1 + i]
  BY DEF IsRest
<1>3. \A i \in 1 .. Len(r) : /\ j + i \in 1 .. Len(t) /\ ~ (j + i < j + 1)
                             /\ j + i + 1 = j + 1 + i
  BY <1>1, <1>2
<1>4. \A i \in 1 .. Len(r) : t[j + i] = s[j + 1 + i]
  BY <1>1, <1>3
<1>5. Len(r) = Len(t) - j
  BY <1>1, <1>2
<1>. QED  BY <1>2, <1>4, <1>5 DEF IsRest

LEMMA ListRemoveEntry ==
    ASSUME ListOK, IterOK, NEW e \in Nodes, list_remove_entry(e)
    PROVE  ListOK' /\ IterOK'
<1>1. PICK k \in 1 .. Len(seq) : e = seq[k]
  BY DEF list_remove_entry, Range, ListOK
<1>2. /\ SetLinks(Unlink(Links, seq[k])) /\ st' = [st EXCEPT ![seq[k]] = "removed"]
      /\ seq' = Without(seq, seq[k]) /\ data' = data
  BY <1>1 DEF list_remove_entry, Unlinked
<1>3. ListOK' /\ Dropped(seq, k, seq')
  BY <1>2, ListUnlinked
<1>4. CASE iter # Null /\ iter.current = e
  <2>1. iter' = iter /\ todo' = todo
    BY <1>4 DEF list_remove_entry
  <2>2. /\ iter = [prev_next |-> iter.prev_next, current |-> iter.current]
        /\ \E j \in 0 .. Len(seq) : IterAt(j)
    BY <1>4 DEF IterOK
  <2>3. PICK j \in 0 .. Len(seq) : IterAt(j)
    BY <2>2
  <2>4. /\ seq \in Seq(Nodes) /\ Once(seq) /\ Len(seq) \in Nat /\ st[e] = "used"
        /\ e # Null /\ e \in Nodes
    BY <1>1, ListFacts
  <2>5. j < Len(seq) /\ e = seq[j + 1] /\ IsRest(Nodes, seq, j + 1, todo)
    BY <1>4, <2>3, <2>4 DEF IterAt
  <2>6. k = j + 1
    <3>1. j + 1 \in 1 .. Len(seq) /\ seq[k] = seq[j + 1]
      BY <1>1, <2>4, <2>5
    <3>. QED  BY <2>4, <3>1 DEF Once
  <2>7. Len(seq') = Len(seq) - 1 /\ \A i \in 1 .. Len(seq') : seq'[i] = IF i < k THEN seq[i] ELSE seq[i + 1]
    BY <1>3 DEF Dropped
  <2>8. IsRest(Nodes, seq', j, todo)
    BY <1>3, <2>4, <2>5, <2>6, RestDropped
  <2>9. iter.prev_next = IF j = 0 THEN ListPtr ELSE seq'[j]
    <3>1. iter.prev_next = IF j = 0 THEN ListPtr ELSE seq[j]
      BY <2>3 DEF IterAt
    <3>2. j # 0 => j \in 1 .. Len(seq') /\ j < k
      BY <2>4, <2>5, <2>6, <2>7
    <3>. QED  BY <2>7, <3>1, <3>2
  <2>10. st'[e] = "removed"
    BY <1>1, <1>2, <2>4 DEF ListOK
  <2>11. IterAt(j)' /\ j \in 0 .. Len(seq')
    BY <1>4, <2>1, <2>4, <2>5, <2>7, <2>8, <2>9, <2>10 DEF IterAt
  <2>12. IterOK'
    BY <2>1, <2>2, <2>11 DEF IterOK
  <2>. QED  BY <1>3, <2>12
<1>5. CASE ~ (iter # Null /\ iter.current = e)
  <2>1. iter' = Null
    BY <1>5 DEF list_remove_entry, EndIteration
  <2>. QED  BY <1>3, <2>1 DEF IterOK
<1>. QED  BY <1>4, <1>5

\* Where the iterator is, m entries being behind it, and what follows.
LEMMA IterFacts ==
    ASSUME ListOK, IterOK, iter # Null
    PROVE  \E k \in 0 .. Len(seq), m \in 0 .. Len(seq) :
              /\ iter.prev_next = IF k = 0 THEN ListPtr ELSE seq[k]
              /\ AtGap => m = k
              /\ ~ AtGap => m = k + 1 /\ iter.current = seq[m]
              /\ NextEntry = Entry(seq, m + 1) /\ IsRest(Nodes, seq, m, todo)
<1>1. PICK k \in 0 .. Len(seq) : IterAt(k)
  BY DEF IterOK
<1>2. /\ seq \in Seq(Nodes) /\ Once(seq) /\ Len(seq) \in Nat
      /\ nxt[ListPtr] = Entry(seq, 1)
      /\ \A i \in 1 .. Len(seq) : nxt[seq[i]] = Entry(seq, i + 1)
      /\ \A i \in 1 .. Len(seq) : seq[i] \in Nodes /\ seq[i] # Null /\ st[seq[i]] = "used"
  BY ListFacts
<1>3. iter.prev_next = IF k = 0 THEN ListPtr ELSE seq[k]
  BY <1>1 DEF IterAt
<1>4. nxt[iter.prev_next] = Entry(seq, k + 1)
  <2>1. k = 0 \/ k \in 1 .. Len(seq)
    BY <1>2
  <2>. QED  BY <1>2, <1>3, <2>1
<1>5. CASE k < Len(seq) /\ iter.current = seq[k + 1] /\ IsRest(Nodes, seq, k + 1, todo)
  <2>1. k + 1 \in 1 .. Len(seq) /\ k + 1 \in 0 .. Len(seq)
    BY <1>2, <1>5
  <2>2. Entry(seq, k + 1) = seq[k + 1] /\ seq[k + 1] # Null
    BY <1>2, <2>1 DEF Entry
  <2>3. ~ AtGap
    BY <1>4, <1>5, <2>2 DEF AtGap
  <2>4. NextEntry = Entry(seq, (k + 1) + 1)
    BY <1>2, <1>5, <2>1, <2>3 DEF NextEntry
  <2>. QED  BY <1>3, <1>5, <2>1, <2>3, <2>4
<1>6. CASE /\ iter.current = Null \/ (iter.current \in Nodes /\ st[iter.current] = "removed")
           /\ IsRest(Nodes, seq, k, todo)
  <2>1. AtGap
    <3>1. Entry(seq, k + 1) = Null \/ (k + 1 \in 1 .. Len(seq) /\ Entry(seq, k + 1) = seq[k + 1])
      BY DEF Entry
    <3>. QED  BY <1>2, <1>4, <1>6, <3>1, ListAssumption DEF AtGap
  <2>2. NextEntry = Entry(seq, k + 1)
    BY <1>4, <2>1 DEF NextEntry
  <2>. QED  BY <1>3, <1>6, <2>1, <2>2
<1>. QED  BY <1>1, <1>5, <1>6 DEF IterAt

LEMMA ListIterExact == ListOK /\ IterOK => IterationExact
<1> SUFFICES ASSUME ListOK, IterOK, iter # Null
             PROVE  NextEntry = IF todo = <<>> THEN Null ELSE todo[1]
  BY DEF IterationExact
<1>1. PICK m \in 0 .. Len(seq) : NextEntry = Entry(seq, m + 1) /\ IsRest(Nodes, seq, m, todo)
  BY IterFacts
<1>2. /\ Len(seq) \in Nat /\ todo \in Seq(Nodes) /\ Len(todo) = Len(seq) - m
      /\ \A i \in 1 .. Len(todo) : todo[i] = seq[m + i]
  BY <1>1 DEF IsRest, ListOK
<1>3. CASE m = Len(seq)
  <2>1. Len(todo) = 0 /\ m + 1 \notin 1 .. Len(seq)
    BY <1>2, <1>3
  <2>2. todo = <<>>
    BY <1>2, <2>1
  <2>. QED  BY <1>1, <2>1, <2>2 DEF Entry
<1>4. CASE m # Len(seq)
  <2>1. m + 1 \in 1 .. Len(seq) /\ 1 \in 1 .. Len(todo) /\ Len(todo) # 0
    BY <1>2, <1>4
  <2>2. todo # <<>> /\ todo[1] = seq[m + 1]
    BY <1>2, <2>1
  <2>. QED  BY <1>1, <2>1, <2>2 DEF Entry
<1>. QED  BY <1>3, <1>4

LEMMA ListIterate ==
    ASSUME ListOK, list_iterate
    PROVE  ListOK' /\ IterOK'
<1>1. /\ UNCHANGED <<st, nxt, prev, data, seq>> /\ todo' = seq
      /\ iter' = [prev_next |-> ListPtr, current |-> Null]
  BY DEF list_iterate, links
<1>2. ListOK'
  BY <1>1 DEF ListOK, Links
<1>3. IsRest(Nodes, seq, 0, seq) /\ 0 \in 0 .. Len(seq)
  <2>1. seq \in Seq(Nodes) /\ Len(seq) \in Nat
    BY DEF ListOK
  <2>. QED  BY <2>1 DEF IsRest
<1>4. IterAt(0)'
  BY <1>1, <1>3 DEF IterAt
<1>. QED  BY <1>1, <1>2, <1>3, <1>4 DEF IterOK

LEMMA ListIterNext ==
    ASSUME ListOK, IterOK, list_iter_next
    PROVE  ListOK' /\ IterOK'
<1>1. /\ UNCHANGED <<st, nxt, prev, data, seq>> /\ iter # Null
      /\ iter' = [prev_next |-> IF AtGap THEN iter.prev_next ELSE iter.current,
                  current   |-> NextEntry]
      /\ todo' = IF todo = <<>> THEN <<>> ELSE Tail(todo)
  BY DEF list_iter_next, links
<1>2. ListOK'
  BY <1>1 DEF ListOK, Links
<1>3. PICK k \in 0 .. Len(seq), m \in 0 .. Len(seq) :
              /\ iter.prev_next = IF k = 0 THEN ListPtr ELSE seq[k]
              /\ AtGap => m = k
              /\ ~ AtGap => m = k + 1 /\ iter.current = seq[m]
              /\ NextEntry = Entry(seq, m + 1) /\ IsRest(Nodes, seq, m, todo)
  BY <1>1, IterFacts
<1>4. /\ Len(seq) \in Nat /\ seq \in Seq(Nodes) /\ todo \in Seq(Nodes) /\ Len(todo) = Len(seq) - m
      /\ \A i \in 1 .. Len(todo) : todo[i] = seq[m + i]
  <2>1. seq \in Seq(Nodes) /\ Len(seq) \in Nat
    BY ListFacts
  <2>2. IsRest(Nodes, seq, m, todo)
    BY <1>3
  <2>. QED  BY <2>1, <2>2 DEF IsRest
<1>5. iter'.prev_next = IF m = 0 THEN ListPtr ELSE seq[m]
  <2>1. CASE AtGap
    <3>1. iter'.prev_next = iter.prev_next /\ m = k
      BY <1>1, <1>3, <2>1
    <3>. QED  BY <1>3, <3>1
  <2>2. CASE ~ AtGap
    <3>1. iter'.prev_next = iter.current /\ m = k + 1 /\ iter.current = seq[m]
      BY <1>1, <1>3, <2>2
    <3>. QED  BY <1>4, <3>1
  <2>. QED  BY <2>1, <2>2
<1>6. CASE m = Len(seq)
  <2>1. Len(todo) = 0 /\ m + 1 \notin 1 .. Len(seq)
    BY <1>4, <1>6
  <2>2. todo' = <<>> /\ todo = <<>>
    BY <1>1, <1>4, <2>1
  <2>3. iter'.current = Null
    BY <1>1, <1>3, <2>1 DEF Entry
  <2>4. IterAt(m)'
    BY <1>1, <1>3, <1>5, <2>2, <2>3 DEF IterAt
  <2>. QED  BY <1>1, <1>2, <2>4 DEF IterOK
<1>7. CASE m # Len(seq)
  <2>1. m + 1 \in 1 .. Len(seq) /\ m < Len(seq) /\ Len(todo) # 0 /\ Len(todo) \in Nat
    BY <1>4, <1>7
  <2>2. todo' = Tail(todo) /\ todo # <<>>
    BY <1>1, <1>4, <2>1
  <2>3. /\ Tail(todo) \in Seq(Nodes) /\ Len(Tail(todo)) = Len(todo) - 1
        /\ \A i \in 1 .. Len(todo) - 1 : Tail(todo)[i] = todo[i + 1]
    BY <1>4, <2>2
  <2>4. IsRest(Nodes, seq, m + 1, todo')
    <3>1. Len(todo') = Len(seq) - (m + 1)
      BY <1>4, <2>2, <2>3
    <3>2. ASSUME NEW i \in 1 .. Len(todo') PROVE todo'[i] = seq[m + 1 + i]
      <4>1. i \in 1 .. Len(todo) - 1 /\ i + 1 \in 1 .. Len(todo) /\ m + (i + 1) = m + 1 + i
        BY <1>4, <2>1, <2>2, <2>3
      <4>. QED  BY <1>4, <2>2, <2>3, <4>1
    <3>. QED  BY <2>2, <2>3, <3>1, <3>2 DEF IsRest
  <2>5. iter'.current = seq[m + 1]
    BY <1>1, <1>3, <2>1 DEF Entry
  <2>6. IterAt(m)'
    BY <1>1, <1>5, <2>1, <2>4, <2>5 DEF IterAt
  <2>. QED  BY <1>1, <1>2, <2>6 DEF IterOK
<1>. QED  BY <1>6, <1>7

LEMMA ListIterRemove ==
    ASSUME ListOK, IterOK, list_iter_remove
    PROVE  ListOK' /\ IterOK'
<1>1. CASE AtGap
  <2>1. UNCHANGED <<st, nxt, prev, data, iter, seq, todo>>
    BY <1>1 DEF list_iter_remove, links
  <2>2. ListOK'
    BY <2>1 DEF ListOK, Links
  <2>3. IterOK'
    BY <2>1 DEF IterOK, IterAt
  <2>. QED  BY <2>2, <2>3
<1>2. CASE ~ AtGap
  <2> DEFINE c == iter.current
  <2>1. /\ nxt' = [nxt EXCEPT ![iter.prev_next] = nxt[c]]
        /\ prev' = [p \in Nodes |-> IF p = nxt[c] THEN prev[c] ELSE prev[p]]
        /\ st' = Freed({c}) /\ iter' = [iter EXCEPT !.current = Null]
        /\ seq' = Without(seq, c) /\ data' = data /\ todo' = todo /\ iter # Null
    BY <1>2 DEF list_iter_remove
  <2>2. PICK k \in 0 .. Len(seq), m \in 0 .. Len(seq) :
              /\ iter.prev_next = IF k = 0 THEN ListPtr ELSE seq[k]
              /\ AtGap => m = k
              /\ ~ AtGap => m = k + 1 /\ iter.current = seq[m]
              /\ NextEntry = Entry(seq, m + 1) /\ IsRest(Nodes, seq, m, todo)
    BY <2>1, IterFacts
  <2>3. m = k + 1 /\ c = seq[m] /\ IsRest(Nodes, seq, m, todo)
    BY <1>2, <2>2
  <2>4. /\ seq \in Seq(Nodes) /\ Once(seq) /\ Len(seq) \in Nat
        /\ \A i \in 1 .. Len(seq) : prev[seq[i]] = Entry(seq, i - 1) /\ seq[i] # Null /\ seq[i] \in Nodes
    BY ListFacts
  <2>5. m \in 1 .. Len(seq) /\ m - 1 = k /\ k \in Nat /\ k < Len(seq)
    BY <2>3, <2>4
  <2>6. prev[c] = Entry(seq, k) /\ c \in Nodes
    BY <2>3, <2>4, <2>5
  <2>7. iter.prev_next = IF prev[c] = Null THEN ListPtr ELSE prev[c]
    <3>1. k = 0 \/ k \in 1 .. Len(seq)
      BY <2>5
    <3>. QED  BY <2>2, <2>4, <2>6, <3>1 DEF Entry
  <2>8. SetLinks(Unlink(Links, c))
    BY <2>1, <2>7 DEF SetLinks, Unlink, Links
  <2>9. st' = [st EXCEPT ![c] = "free"]
    BY <2>1, <2>6 DEF Freed, ListOK
  <2>10. ListOK' /\ Dropped(seq, m, seq')
    BY <2>1, <2>3, <2>5, <2>8, <2>9, ListUnlinked
  <2>11. IsRest(Nodes, seq', k, todo)
    BY <2>3, <2>4, <2>5, <2>10, RestDropped
  <2>12. iter = [prev_next |-> iter.prev_next, current |-> iter.current]
    BY <2>1 DEF IterOK
  <2>13. iter' = [prev_next |-> iter.prev_next, current |-> Null]
    BY <2>1, <2>12
  <2>14. k \in 0 .. Len(seq') /\ (k # 0 => seq'[k] = seq[k])
    BY <2>3, <2>4, <2>5, <2>10 DEF Dropped
  <2>15. IterAt(k)'
    BY <2>1, <2>2, <2>11, <2>13, <2>14 DEF IterAt
  <2>16. IterOK'
    BY <2>13, <2>14, <2>15 DEF IterOK
  <2>. QED  BY <2>10, <2>16
<1>. QED  BY <1>1, <1>2

\* What a loop that selects from s has after i steps: what it kept, and the rest.
Midway(s, f, i) ==
    [j \in 1 .. Len(f[i]) + Len(s) - i |->
        IF j <= Len(f[i]) THEN f[i][j] ELSE s[i + j - Len(f[i])]]

LEMMA MidwaySteps ==
    ASSUME NEW E, NEW s \in Seq(E), NEW C, NEW f \in [0 .. Len(s) -> Seq(E)], Keeps(s, C, f)
    PROVE  /\ Midway(s, f, 0) = s /\ Midway(s, f, Len(s)) = Kept(s, C)
           /\ \A i \in 0 .. Len(s) : Midway(s, f, i) \in Seq(E)
           /\ \A i \in 1 .. Len(s) :
                IF s[i] \in C THEN Midway(s, f, i) = Midway(s, f, i - 1)
                ELSE \E k \in 1 .. Len(Midway(s, f, i - 1)) :
                        /\ Midway(s, f, i - 1)[k] = s[i]
                        /\ Dropped(Midway(s, f, i - 1), k, Midway(s, f, i))
<1> DEFINE N == Len(s)
           M(i) == Midway(s, f, i)
           L(i) == Len(f[i])
<1>1. /\ f[0] = <<>> /\ Kept(s, C) = f[N]
      /\ \A m \in 1 .. N : f[m] = IF s[m] \in C THEN Append(f[m - 1], s[m]) ELSE f[m - 1]
  BY DEF Keeps
<1>2. N \in Nat /\ s = [i \in 1 .. N |-> s[i]] /\ \A m \in 1 .. N : s[m] \in E
  OBVIOUS
<1>3. \A i \in 0 .. N : f[i] \in Seq(E) /\ L(i) \in Nat /\ f[i] = [j \in 1 .. L(i) |-> f[i][j]]
                        /\ \A j \in 1 .. L(i) : f[i][j] \in E
  OBVIOUS
<1>4. \A i \in 0 .. N :
         M(i) = [j \in 1 .. L(i) + N - i |-> IF j <= L(i) THEN f[i][j] ELSE s[i + j - L(i)]]
  BY DEF Midway
<1> HIDE DEF M, N
<1>5. ASSUME NEW i \in 0 .. N
      PROVE  /\ M(i) \in Seq(E) /\ Len(M(i)) = L(i) + N - i
             /\ \A j \in 1 .. L(i) + N - i : M(i)[j] = IF j <= L(i) THEN f[i][j] ELSE s[i + j - L(i)]
  <2> DEFINE n == L(i) + N - i
             m == M(i)
  <2>1. n \in Nat /\ L(i) \in Nat /\ i \in Nat
    BY <1>2, <1>3
  <2>2. \A j \in 1 .. n : j <= L(i) \/ i + j - L(i) \in 1 .. N
    BY <1>2, <2>1
  <2>3. \A j \in 1 .. n : j <= L(i) => j \in 1 .. L(i)
    BY <2>1
  <2>4. m = [j \in 1 .. n |-> IF j <= L(i) THEN f[i][j] ELSE s[i + j - L(i)]]
    BY <1>4
  <2>5. \A j \in 1 .. n : (IF j <= L(i) THEN f[i][j] ELSE s[i + j - L(i)]) \in E
    BY <1>2, <1>3, <2>2, <2>3
  <2> HIDE DEF n, m
  <2>6. m \in [1 .. n -> E]
    BY <2>4, <2>5
  <2>7. m \in Seq(E) /\ Len(m) = n
    BY <2>1, <2>6
  <2>8. \A j \in 1 .. n : m[j] = IF j <= L(i) THEN f[i][j] ELSE s[i + j - L(i)]
    BY <2>4
  <2>. QED  BY <2>7, <2>8 DEF m, n
<1>6. 0 \in 0 .. N /\ N \in 0 .. N /\ L(0) = 0
  BY <1>1, <1>2
<1>7. M(0) = s
  <2>1. Len(M(0)) = N /\ M(0) \in Seq(E)
    BY <1>2, <1>5, <1>6
  <2>2. ASSUME NEW j \in 1 .. N PROVE M(0)[j] = s[j]
    <3>1. j \in 1 .. L(0) + N - 0 /\ ~ (j <= L(0)) /\ 0 + j - L(0) = j
      BY <1>2, <1>6
    <3>. QED  BY <1>5, <1>6, <3>1
  <2>. QED  BY <2>1, <2>2 DEF N
<1>8. M(N) = Kept(s, C)
  <2>1. Len(M(N)) = L(N) /\ M(N) \in Seq(E) /\ f[N] \in Seq(E) /\ L(N) \in Nat
    BY <1>2, <1>3, <1>5, <1>6
  <2>2. ASSUME NEW j \in 1 .. L(N) PROVE M(N)[j] = f[N][j]
    <3>1. j \in 1 .. L(N) + N - N /\ j <= L(N)
      BY <1>2, <2>1
    <3>. QED  BY <1>5, <1>6, <3>1
  <2>3. M(N) = f[N]
    BY <2>1, <2>2
  <2>. QED  BY <1>1, <2>3
<1>9. ASSUME NEW i \in 1 .. N
      PROVE  IF s[i] \in C THEN M(i) = M(i - 1)
             ELSE \E k \in 1 .. Len(M(i - 1)) : M(i - 1)[k] = s[i] /\ Dropped(M(i - 1), k, M(i))
  <2> DEFINE p == f[i - 1]
             l == Len(p)
             a == M(i - 1)
             b == M(i)
  <2>1. i - 1 \in 0 .. N /\ i \in 0 .. N /\ p \in Seq(E) /\ l \in Nat /\ s[i] \in E
    BY <1>2, <1>3
  <2>2. /\ a \in Seq(E) /\ Len(a) = l + N - (i - 1)
        /\ \A j \in 1 .. l + N - (i - 1) : a[j] = IF j <= l THEN p[j] ELSE s[i - 1 + j - l]
    BY <1>5, <2>1
  <2>3. /\ b \in Seq(E) /\ Len(b) = L(i) + N - i
        /\ \A j \in 1 .. L(i) + N - i : b[j] = IF j <= L(i) THEN f[i][j] ELSE s[i + j - L(i)]
    BY <1>5, <2>1
  <2>4. CASE s[i] \in C
    <3>1. f[i] = Append(p, s[i])
      BY <1>1, <2>4
    <3>2. L(i) = l + 1 /\ f[i][l + 1] = s[i] /\ \A j \in 1 .. l : f[i][j] = p[j]
      BY <2>1, <3>1
    <3> HIDE DEF p, l, a, b
    <3>3. Len(b) = Len(a) /\ Len(a) \in Nat
      BY <1>2, <2>1, <2>2, <2>3, <3>2, SMTT(30)
    <3>4. ASSUME NEW j \in 1 .. Len(a) PROVE a[j] = b[j]
      <4>1. j \in 1 .. l + N - (i - 1) /\ j \in 1 .. L(i) + N - i
        BY <2>2, <2>3, <3>3
      <4>2. CASE j <= l
        <5>1. j <= L(i) /\ j \in 1 .. l
          BY <2>1, <3>2, <4>1, <4>2
        <5>. QED  BY <2>2, <2>3, <3>2, <4>1, <4>2, <5>1
      <4>3. CASE j = l + 1
        <5>1. j <= L(i) /\ ~ (j <= l) /\ i - 1 + j - l = i
          BY <2>1, <3>2, <4>3
        <5>. QED  BY <2>2, <2>3, <3>2, <4>1, <4>3, <5>1
      <4>4. CASE j > l + 1
        <5>1. ~ (j <= L(i)) /\ ~ (j <= l) /\ i - 1 + j - l = i + j - L(i)
          BY <2>1, <3>2, <4>1, <4>4
        <5>. QED  BY <2>2, <2>3, <4>1, <5>1
      <4>. QED  BY <2>1, <4>1, <4>2, <4>3, <4>4
    <3>5. a = b
      BY <2>2, <2>3, <3>3, <3>4
    <3>. QED  BY <2>4, <3>5 DEF a, b
  <2>5. CASE s[i] \notin C
    <3>1. f[i] = p /\ L(i) = l
      BY <1>1, <2>5
    <3> HIDE DEF p, l, a, b
    <3>l. /\ Len(a) = l + N - (i - 1) /\ Len(b) = l + N - i
          /\ l \in Nat /\ N \in Nat /\ i \in Nat /\ i >= 1 /\ i <= N
      BY <1>2, <2>1, <2>2, <2>3, <3>1
    <3>2. l + 1 \in 1 .. Len(a) /\ Len(b) = Len(a) - 1
      BY <3>l
    <3>3. a[l + 1] = s[i]
      <4>1. ~ (l + 1 <= l) /\ i - 1 + (l + 1) - l = i /\ l + 1 \in 1 .. l + N - (i - 1)
        BY <3>l
      <4>. QED  BY <2>2, <4>1
    <3>4. ASSUME NEW j \in 1 .. Len(b) PROVE b[j] = IF j < l + 1 THEN a[j] ELSE a[j + 1]
      <4>1. /\ j \in 1 .. l + N - i /\ j \in 1 .. l + N - (i - 1) /\ j + 1 \in 1 .. l + N - (i - 1)
            /\ (j < l + 1 <=> j <= l)
        BY <1>2, <2>1, <2>3, <3>1, SMTT(30)
      <4>2. b[j] = IF j <= l THEN p[j] ELSE s[i + j - l]
        BY <2>3, <3>1, <4>1
      <4>3. CASE j <= l
        <5>1. a[j] = p[j]
          BY <2>2, <4>1, <4>3
        <5>. QED  BY <4>1, <4>2, <4>3, <5>1
      <4>4. CASE ~ (j <= l)
        <5>1. ~ (j + 1 <= l) /\ i - 1 + (j + 1) - l = i + j - l
          BY <2>1, <4>1, <4>4
        <5>2. a[j + 1] = s[i + j - l]
          BY <2>2, <4>1, <5>1
        <5>. QED  BY <4>1, <4>2, <4>4, <5>2
      <4>. QED  BY <4>3, <4>4
    <3>5. Dropped(a, l + 1, b)
      BY <3>2, <3>4 DEF Dropped
    <3>. QED  BY <2>5, <3>2, <3>3, <3>5 DEF a, b
  <2>. QED  BY <2>4, <2>5
<1>. QED  BY <1>5, <1>7, <1>8, <1>9 DEF M, N

LEMMA UnlinkType ==
    ASSUME NEW l \in Pointers, NEW e \in Nodes
    PROVE  Unlink(l, e) \in Pointers
<1>1. /\ l.nxt \in [Nodes \cup {ListPtr} -> Nodes \cup {Null}] /\ l.prev \in [Nodes -> Nodes \cup {Null}]
      /\ l.nxt[e] \in Nodes \cup {Null} /\ l.prev[e] \in Nodes \cup {Null}
  BY DEF Pointers
<1> DEFINE before == IF l.prev[e] = Null THEN ListPtr ELSE l.prev[e]
<1>2. Unlink(l, e) = [nxt  |-> [l.nxt EXCEPT ![before] = l.nxt[e]],
                      prev |-> [p \in Nodes |-> IF p = l.nxt[e] THEN l.prev[e] ELSE l.prev[p]]]
  BY Zenon DEF Unlink
<1>3. [l.nxt EXCEPT ![before] = l.nxt[e]] \in [Nodes \cup {ListPtr} -> Nodes \cup {Null}]
  BY <1>1
<1>4. [p \in Nodes |-> IF p = l.nxt[e] THEN l.prev[e] ELSE l.prev[p]] \in [Nodes -> Nodes \cup {Null}]
  BY <1>1
<1> HIDE DEF before
<1>. QED  BY <1>2, <1>3, <1>4 DEF Pointers

LEMMA ListRemoveData ==
    ASSUME ListOK, NEW d \in Data, list_remove_data(d)
    PROVE  ListOK' /\ IterOK'
<1> DEFINE w == Walk
           N == Len(w)
           C == {n \in Nodes : data[n] # d}
           Def(a) == a = [i \in 0 .. N |->
                            IF i = 0 THEN Links
                            ELSE IF data[w[i]] = d THEN Unlink(a[i - 1], w[i]) ELSE a[i - 1]]
           after == CHOOSE a : Def(a)
           g == [p \in (1 .. N) \X Pointers |->
                    IF data[w[p[1]]] = d THEN Unlink(p[2], w[p[1]]) ELSE p[2]]
<1>1. /\ SetLinks(after[N])
      /\ st' = Freed({n \in Range(w) : data[n] = d})
      /\ seq' = Kept(seq, C) /\ iter' = Null /\ data' = data
  <2>1. SetLinks(after[N])
    BY Zenon DEF list_remove_data
  <2>. QED  BY <2>1 DEF list_remove_data, EndIteration
<1>2. w = seq /\ w \in Seq(Nodes) /\ Once(w) /\ N \in Nat /\ \A m \in 1 .. N : w[m] \in Nodes
  <2>1. w = seq
    BY WalkIsSeq
  <2> HIDE DEF w
  <2>. QED  BY <2>1 DEF ListOK
<1>3. Links \in Pointers /\ DoublyLinked(Links.nxt, Links.prev, w)
  BY <1>2 DEF ListOK, Links
<1> HIDE DEF w, N
<1>4. g \in [(1 .. N) \X Pointers -> Pointers]
  BY <1>2, UnlinkType
<1>5. \A m \in 1 .. N, l \in Pointers : g[<<m, l>>] = IF data[w[m]] = d THEN Unlink(l, w[m]) ELSE l
  OBVIOUS
<1> HIDE DEF g
<1>6. PICK h \in [0 .. N -> Pointers] : Loop(N, Links, g, h)
  BY <1>2, <1>3, <1>4, LoopRuns
<1>7. ASSUME NEW m \in 1 .. N
      PROVE  /\ m - 1 \in 0 .. N /\ m \in 0 .. N /\ m # 0
             /\ h[m] = IF data[w[m]] = d THEN Unlink(h[m - 1], w[m]) ELSE h[m - 1]
  <2>1. m - 1 \in 0 .. N /\ m \in 0 .. N /\ m # 0
    BY <1>2
  <2>2. h[m - 1] \in Pointers
    BY <2>1
  <2>3. h[m] = g[<<m, h[m - 1]>>]
    BY <1>6 DEF Loop
  <2>. QED  BY <1>5, <2>1, <2>2, <2>3
<1>8. Def(h)
  <2>1. h[0] = Links
    BY <1>6 DEF Loop
  <2>2. ASSUME NEW i \in 0 .. N
        PROVE  h[i] = IF i = 0 THEN Links
                      ELSE IF data[w[i]] = d THEN Unlink(h[i - 1], w[i]) ELSE h[i - 1]
    <3>1. i = 0 \/ i \in 1 .. N
      BY <1>2
    <3>. QED  BY <1>7, <2>1, <3>1
  <2>3. h = [i \in 0 .. N |-> h[i]]
    OBVIOUS
  <2>. QED  BY <2>2, <2>3
<1>9. Def(after)
  BY <1>8
<1>10. /\ \A i \in 0 .. N : after[i] = IF i = 0 THEN Links
                              ELSE IF data[w[i]] = d THEN Unlink(after[i - 1], w[i]) ELSE after[i - 1]
  BY <1>9
<1> HIDE DEF after, Def
<1>11. after[0] = Links
  <2>1. 0 \in 0 .. N
    BY <1>2
  <2>. QED  BY <1>10, <2>1, Zenon
<1>12. \A m \in 1 .. N : after[m] = IF w[m] \in C THEN after[m - 1] ELSE Unlink(after[m - 1], w[m])
  BY <1>2, <1>7, <1>10
<1>13. \A n \in Nodes : n \in C <=> data[n] # d
  OBVIOUS
<1> HIDE DEF C
<1>14. PICK f \in [0 .. N -> Seq(Nodes)] : Keeps(w, C, f)
  BY <1>2, KeptRuns DEF N
<1> DEFINE M(i) == Midway(w, f, i)
<1>15. /\ M(0) = w /\ M(N) = Kept(w, C)
       /\ \A i \in 0 .. N : M(i) \in Seq(Nodes)
       /\ \A i \in 1 .. N :
            IF w[i] \in C THEN M(i) = M(i - 1)
            ELSE \E k \in 1 .. Len(M(i - 1)) : M(i - 1)[k] = w[i] /\ Dropped(M(i - 1), k, M(i))
  BY <1>2, <1>14, MidwaySteps DEF N
<1> HIDE DEF M
<1> DEFINE K == {i \in 0 .. N : /\ after[i] \in Pointers /\ Once(M(i))
                                /\ DoublyLinked(after[i].nxt, after[i].prev, M(i))}
<1>16. 0 \in K
  BY <1>2, <1>3, <1>11, <1>15
<1>17. ASSUME NEW m \in 1 .. N, m - 1 \in K PROVE m \in K
  <2>1. /\ after[m - 1] \in Pointers /\ Once(M(m - 1))
        /\ DoublyLinked(after[m - 1].nxt, after[m - 1].prev, M(m - 1))
    BY <1>17
  <2>2. m - 1 \in 0 .. N /\ m \in 0 .. N /\ M(m - 1) \in Seq(Nodes) /\ M(m) \in Seq(Nodes)
    BY <1>2, <1>15
  <2>3. CASE w[m] \in C
    <3>1. after[m] = after[m - 1] /\ M(m) = M(m - 1)
      BY <1>12, <1>15, <2>3
    <3>. QED  BY <2>1, <2>2, <3>1
  <2>4. CASE w[m] \notin C
    <3>1. PICK k \in 1 .. Len(M(m - 1)) : M(m - 1)[k] = w[m] /\ Dropped(M(m - 1), k, M(m))
      BY <1>15, <2>4
    <3>2. after[m] = Unlink(after[m - 1], M(m - 1)[k])
      BY <1>12, <2>4, <3>1
    <3>3. /\ after[m] \in Pointers
          /\ DoublyLinked(after[m].nxt, after[m].prev, M(m))
      BY <2>1, <2>2, <3>1, <3>2, UnlinkLinks
    <3>4. Once(M(m))
      BY <2>1, <2>2, <3>1, DroppedOnce
    <3>. QED  BY <2>2, <3>3, <3>4
  <2>. QED  BY <2>3, <2>4
<1> HIDE DEF K
<1>18. \A m \in 0 .. N : m \in K
  BY <1>2, <1>16, <1>17, StepByStep
<1>19. N \in K
  BY <1>2, <1>18
<1>20. /\ after[N] \in Pointers /\ seq' \in Seq(Nodes) /\ Once(seq')
       /\ DoublyLinked(after[N].nxt, after[N].prev, seq')
  <2>1. seq' = M(N) /\ M(N) \in Seq(Nodes)
    <3>1. N \in 0 .. N
      BY <1>2
    <3>2. seq' = Kept(w, C)
      BY <1>1, <1>2
    <3>. QED  BY <1>15, <3>1, <3>2
  <2>2. /\ after[N] \in Pointers /\ Once(M(N))
        /\ DoublyLinked(after[N].nxt, after[N].prev, M(N))
    BY <1>19 DEF K
  <2>. QED  BY <2>1, <2>2
<1>21. Links' \in Pointers /\ DoublyLinked(nxt', prev', seq')
  <2>1. nxt' = after[N].nxt /\ prev' = after[N].prev
    BY <1>1 DEF SetLinks
  <2>. QED  BY <1>20, <2>1 DEF Links, Pointers
<1>22. \A x \in Nodes : x \in Elems(seq') <=> x \in Elems(seq) /\ data[x] # d
  <2> SUFFICES ASSUME NEW x \in Nodes PROVE x \in Elems(seq') <=> x \in Elems(seq) /\ data[x] # d
    OBVIOUS
  <2>1. Copies(seq', x) = IF x \in C THEN Copies(seq, x) ELSE 0
    BY <1>1, <1>2, KeptCopies
  <2>2. (Copies(seq', x) = 0 <=> x \notin Elems(seq')) /\ (Copies(seq, x) = 0 <=> x \notin Elems(seq))
    BY <1>2, <1>20, CopiesNat
  <2>. QED  BY <1>13, <2>1, <2>2
<1>23. /\ st' \in [Nodes -> {"free", "used", "removed"}]
       /\ \A n \in Nodes : st'[n] = "used" <=> n \in Elems(seq')
  <2>1. Range(w) = Elems(seq)
    BY <1>2 DEF Range, Elems
  <2>2. st' = [n \in Nodes |-> IF n \in Elems(seq) /\ data[n] = d THEN "free" ELSE st[n]]
    BY <1>1, <2>1 DEF Freed
  <2>. QED  BY <1>22, <2>2 DEF ListOK
<1>24. data' \in [Nodes -> Data]
  BY <1>1 DEF ListOK
<1>25. ListOK'
  BY <1>20, <1>21, <1>23, <1>24 DEF ListOK
<1>. QED  BY <1>1, <1>25 DEF IterOK

\* The order of the sort, and what it keeps.
LEMMA SortedWalk ==
    ASSUME ListOK
    PROVE  SortedAs(Nodes, data, Sorted(Walk), seq)
<1> DEFINE N == Cardinality(Nodes)
           sort == CHOOSE f : ListSorts(Nodes, N, data, f)
<1>1. Sorted(seq) = sort[seq]
  BY Zenon DEF Sorted, Joined, ListSorts, Before, Behind
<1>2. N \in Nat /\ seq \in BoundedSeq(Nodes, N)
  <2>1. seq \in Seq(Nodes) /\ Once(seq)
    BY DEF ListOK
  <2>2. Len(seq) <= N /\ N \in Nat
    BY <2>1, OnceFits, ListAssumption
  <2> HIDE DEF N
  <2>. QED  BY <2>1, <2>2, BoundedSeqs
<1>3. \A e \in Nodes : data[e] \in Int
  BY ListAssumption DEF ListOK
<1> HIDE DEF N
<1>4. /\ \E f : ListSorts(Nodes, N, data, f)
      /\ \A f : ListSorts(Nodes, N, data, f) =>
           \A t \in BoundedSeq(Nodes, N) : SortedAs(Nodes, data, f[t], t)
  BY <1>2, <1>3, ListSortCorrect
<1>5. ListSorts(Nodes, N, data, sort)
  BY <1>4
<1> HIDE DEF sort
<1>6. SortedAs(Nodes, data, sort[seq], seq)
  BY <1>2, <1>4, <1>5
<1>. QED  BY <1>1, <1>6, WalkIsSeq

LEMMA ListSort ==
    ASSUME ListOK, list_sort
    PROVE  /\ ListOK' /\ IterOK' /\ InOrder(data, seq') /\ data' = data
           /\ Len(seq') = Len(seq) /\ Elems(seq') = Elems(seq)
<1> DEFINE s == seq'
           At(n) == CHOOSE i \in DOMAIN s : s[i] = n
           After(i) == IF i < Len(s) THEN s[i + 1] ELSE Null
<1>1. /\ seq' = Sorted(Walk) /\ SetLinks(Linked(s)) /\ st' = st /\ data' = data /\ iter' = Null
  BY DEF list_sort, EndIteration
<1>2. SortedAs(Nodes, data, s, seq)
  BY <1>1, SortedWalk
<1>3. /\ nxt' = [n \in Nodes \cup {ListPtr} |->
                    IF n = ListPtr THEN After(0) ELSE IF n \in Range(s) THEN After(At(n)) ELSE nxt[n]]
      /\ prev' = [n \in Nodes |->
                    IF n \notin Range(s) THEN prev[n] ELSE IF At(n) = 1 THEN Null ELSE s[At(n) - 1]]
  <2>1. nxt' = Linked(s).nxt /\ prev' = Linked(s).prev
    BY <1>1 DEF SetLinks
  <2>2. Linked(s) =
       [nxt  |-> [n \in Nodes \cup {ListPtr} |->
                    IF n = ListPtr THEN After(0) ELSE IF n \in Range(s) THEN After(At(n)) ELSE nxt[n]],
        prev |-> [n \in Nodes |->
                    IF n \notin Range(s) THEN prev[n] ELSE IF At(n) = 1 THEN Null ELSE s[At(n) - 1]]]
    BY Zenon DEF Linked
  <2> HIDE DEF After, At
  <2>. QED  BY <2>1, <2>2
<1>4. s \in Seq(Nodes) /\ Len(s) = Len(seq) /\ Len(s) \in Nat /\ \A i \in 1 .. Len(s) : s[i] \in Nodes
  <2>1. s \in Seq(Nodes) /\ Len(s) = Len(seq)
    BY <1>2 DEF SortedAs
  <2> HIDE DEF s
  <2>. QED  BY <2>1
<1>5. seq \in Seq(Nodes) /\ Once(seq) /\ Links \in Pointers
  BY DEF ListOK
<1>6. Once(s) /\ Elems(s) = Elems(seq) /\ InOrder(data, s)
  <2>1. \A x : Copies(s, x) = Copies(seq, x)
    BY <1>2 DEF SortedAs
  <2>2. Once(s)
    BY <1>4, <1>5, <2>1, CopiesOnce
  <2>3. \A x : x \in Elems(s) <=> x \in Elems(seq)
    BY <1>4, <1>5, <2>1, CopiesNat
  <2>4. InOrder(data, s)
    BY <1>2 DEF SortedAs
  <2>. QED  BY <2>2, <2>3, <2>4
<1> HIDE DEF s
<1>7. \A i \in 1 .. Len(s) : At(s[i]) = i
  <2> SUFFICES ASSUME NEW i \in 1 .. Len(s) PROVE At(s[i]) = i
    OBVIOUS
  <2>1. DOMAIN s = 1 .. Len(s)
    BY <1>4
  <2>2. At(s[i]) \in 1 .. Len(s) /\ s[At(s[i])] = s[i]
    BY <2>1
  <2> HIDE DEF At
  <2>. QED  BY <1>6, <2>2 DEF Once
<1>8. Range(s) = Elems(s)
  BY <1>4 DEF Range, Elems
<1>a. \A n \in Elems(s) : At(n) \in 1 .. Len(s) /\ s[At(n)] = n
  BY <1>7 DEF Elems
<1> HIDE DEF At
<1>9. nxt' \in [Nodes \cup {ListPtr} -> Nodes \cup {Null}]
  <2>1. \A i \in 0 .. Len(s) : After(i) \in Nodes \cup {Null}
    <3> SUFFICES ASSUME NEW i \in 0 .. Len(s), i < Len(s) PROVE i + 1 \in 1 .. Len(s)
      BY <1>4
    <3>. QED  BY <1>4
  <2>2. \A n \in Elems(s) : At(n) \in 0 .. Len(s)
    BY <1>a, <1>4
  <2>3. 0 \in 0 .. Len(s)
    BY <1>4
  <2> HIDE DEF After
  <2>4. nxt \in [Nodes \cup {ListPtr} -> Nodes \cup {Null}]
    BY ListFacts
  <2>. QED  BY <1>3, <1>8, <2>1, <2>2, <2>3, <2>4
<1>10. prev' \in [Nodes -> Nodes \cup {Null}]
  <2>1. \A n \in Elems(s) : At(n) # 1 => s[At(n) - 1] \in Nodes
    <3> SUFFICES ASSUME NEW n \in Elems(s), At(n) # 1 PROVE At(n) - 1 \in 1 .. Len(s)
      BY <1>4
    <3>. QED  BY <1>4, <1>a
  <2>2. prev \in [Nodes -> Nodes \cup {Null}]
    BY ListFacts
  <2>. QED  BY <1>3, <1>8, <2>1, <2>2
<1>11. DoublyLinked(nxt', prev', s)
  <2>1. nxt'[ListPtr] = Entry(s, 1)
    <3>1. nxt'[ListPtr] = After(0)
      BY <1>3
    <3>. QED  BY <1>4, <3>1 DEF Entry
  <2>2. ASSUME NEW i \in 1 .. Len(s)
        PROVE  nxt'[s[i]] = Entry(s, i + 1) /\ prev'[s[i]] = Entry(s, i - 1)
    <3>1. s[i] \in Nodes /\ s[i] # ListPtr /\ s[i] \in Range(s) /\ At(s[i]) = i
      BY <1>4, <1>7, <1>8, ListAssumption DEF Elems
    <3>2. nxt'[s[i]] = After(i)
      <4> HIDE DEF After
      <4>. QED  BY <1>3, <3>1
    <3>3. prev'[s[i]] = IF i = 1 THEN Null ELSE s[i - 1]
      BY <1>3, <3>1
    <3>4. After(i) = Entry(s, i + 1)
      BY <1>4 DEF Entry
    <3>5. (IF i = 1 THEN Null ELSE s[i - 1]) = Entry(s, i - 1)
      BY <1>4 DEF Entry
    <3>. QED  BY <3>2, <3>3, <3>4, <3>5
  <2>. QED  BY <2>1, <2>2 DEF DoublyLinked, Chain
<1>12. Links' \in Pointers
  BY <1>9, <1>10 DEF Links, Pointers
<1>13. ListOK'
  BY <1>1, <1>4, <1>6, <1>11, <1>12 DEF ListOK, s
<1>. QED  BY <1>1, <1>4, <1>6, <1>13 DEF IterOK, s

ListInv == ListOK /\ IterOK

LEMMA ListStep == ListInv /\ [Next]_vars => ListInv'
<1> SUFFICES ASSUME ListOK, IterOK, [Next]_vars PROVE ListOK' /\ IterOK'
  BY DEF ListInv
<1>1. CASE \E n \in Nodes, d \in Data : list_prepend(n, d)
  <2>1. ListOK'
    BY <1>1, ListPrepend
  <2>2. iter' = Null
    BY <1>1 DEF list_prepend, EndIteration
  <2>. QED  BY <2>1, <2>2 DEF IterOK
<1>2. CASE \E n \in Nodes, d \in Data : list_append(n, d)
  BY <1>2, ListAppend
<1>3. CASE \E n \in Nodes : list_remove_entry(n)
  BY <1>3, ListRemoveEntry
<1>4. CASE \E d \in Data : list_remove_data(d)
  BY <1>4, ListRemoveData
<1>5. CASE list_free
  BY <1>5, ListFree
<1>6. CASE list_sort
  BY <1>6, ListSort
<1>7. CASE list_iterate
  BY <1>7, ListIterate
<1>8. CASE list_iter_next
  BY <1>8, ListIterNext
<1>9. CASE list_iter_remove
  BY <1>9, ListIterRemove
<1>10. CASE UNCHANGED vars
  <2>1. UNCHANGED <<st, nxt, prev, data, iter, seq, todo>>
    BY <1>10 DEF vars, links
  <2>2. ListOK'
    BY <2>1 DEF ListOK, Links
  <2>3. IterOK'
    BY <2>1 DEF IterOK, IterAt
  <2>. QED  BY <2>2, <2>3
<1>. QED  BY <1>1, <1>2, <1>3, <1>4, <1>5, <1>6, <1>7, <1>8, <1>9, <1>10 DEF Next

LEMMA ListWellLinked == ListOK => WellLinked
<1> SUFFICES ASSUME ListOK PROVE WellLinked
  OBVIOUS
<1>1. Walk = seq
  BY WalkIsSeq
<1>2. /\ seq \in Seq(Nodes) /\ Len(seq) \in Nat /\ DOMAIN seq = 1 .. Len(seq)
      /\ \A i \in 1 .. Len(seq) : prev[seq[i]] = Entry(seq, i - 1)
  <2>1. /\ seq \in Seq(Nodes) /\ Len(seq) \in Nat
        /\ \A i \in 1 .. Len(seq) : prev[seq[i]] = Entry(seq, i - 1)
    BY ListFacts
  <2>. QED  BY <2>1
<1>3. ASSUME NEW i \in DOMAIN seq PROVE prev[seq[i]] = IF i = 1 THEN Null ELSE seq[i - 1]
  BY <1>2 DEF Entry
<1>4. {n \in Nodes : st[n] = "used"} = Range(seq)
  <2>1. Range(seq) = Elems(seq)
    BY <1>2 DEF Range, Elems
  <2>2. Elems(seq) \subseteq Nodes
    BY <1>2 DEF Elems
  <2>. QED  BY <2>1, <2>2 DEF ListOK
<1>. QED  BY <1>1, <1>3, <1>4 DEF WellLinked

LEMMA ListInvariant == MCSpec => []ListInv
<1>1. MCInit => ListInv
  BY ListInit DEF MCInit, ListInv
<1>2. ListInv /\ [MCNext]_<<which, vars, slist, queue, arraylist>> => ListInv'
  <2>1. [MCNext]_<<which, vars, slist, queue, arraylist>> => [Next]_vars
    BY DEF MCNext
  <2>. QED  BY <2>1, ListStep
<1>. QED  BY <1>1, <1>2, PTL DEF MCSpec

\* list.c: whatever calls were made, in whatever order, the next pointers run
\* through exactly the entries that should be there, in order, the prev pointers
\* back, and no linked entry was freed.
THEOREM ListIsWellLinked == MCSpec => []WellLinked
<1>1. ListInv => WellLinked
  BY ListWellLinked DEF ListInv
<1>. QED  BY <1>1, ListInvariant, PTL

\* list_sort orders the values and keeps the entries.
THEOREM ListSortSorts == MCSpec => SortSorts
<1> DEFINE Ordered == list_sort => /\ Range(seq') = Range(seq) /\ Len(seq') = Len(seq)
                                   /\ Ascending(seq')
<1>1. ListInv /\ [MCNext]_<<which, vars, slist, queue, arraylist>> => [Ordered]_vars
  <2> SUFFICES ASSUME ListInv, list_sort
               PROVE  /\ Range(seq') = Range(seq) /\ Len(seq') = Len(seq)
                      /\ Ascending(seq')
    OBVIOUS
  <2>1. ListOK /\ ListOK' /\ InOrder(data, seq')
        /\ Len(seq') = Len(seq) /\ Elems(seq') = Elems(seq)
    BY ListSort DEF ListInv
  <2>2. seq \in Seq(Nodes) /\ seq' \in Seq(Nodes)
    BY <2>1 DEF ListOK
  <2>3. Range(seq) = Elems(seq) /\ Range(seq') = Elems(seq')
    BY <2>2 DEF Range, Elems
  <2>4. DOMAIN seq' = 1 .. Len(seq')
    BY <2>2
  <2>5. Ascending(seq')
    BY <2>1, <2>4 DEF Ascending, InOrder
  <2>. QED  BY <2>1, <2>3, <2>5
<1>. QED  BY <1>1, ListInvariant, PTL DEF MCSpec, SortSorts

-----------------------------------------------------------------------------
(* The singly-linked list.                                                 *)

\* The allocated entries are those of w, which the next pointers run through.
SLinked(nx, da, w) ==
    /\ w \in Seq(Entries) /\ Once(w)
    /\ DOMAIN nx = Elems(w) \cup {ListPtr} /\ Chain(nx, nx[ListPtr], w)
    /\ da \in [Elems(w) -> Data]

Values(da, w) == [i \in 1 .. Len(w) |-> da[w[i]]]

\* The operators of the instance are the ones the lemmas above are about.
LEMMA SNames ==
    /\ \A f : S!Range(f) = Range(f)
    /\ \A s, T : S!Kept(s, T) = Kept(s, T)
    /\ \A T : S!Cardinality(T) = Cardinality(T)
    /\ \A s : S!Reverse(s) = Reverse(s) /\ S!Last(s) = s[Len(s)]
    /\ \A T, n : S!BoundedSeq(T, n) = BoundedSeq(T, n)
    /\ \A f, T : S!Restrict(f, T) = [x \in T |-> f[x]]
<1>1. \A f : S!Range(f) = Range(f)
  BY DEF S!Range, Range
<1>2. \A s, T : S!Kept(s, T) = Kept(s, T)
  BY Zenon DEF S!Kept, Kept
<1>3. \A T : S!Cardinality(T) = Cardinality(T)
  BY Zenon DEF S!Cardinality, Cardinality
<1>4. \A s : S!Reverse(s) = Reverse(s) /\ S!Last(s) = s[Len(s)]
  BY Zenon DEF S!Reverse, Reverse, S!Last
<1>5. \A T, n : S!BoundedSeq(T, n) = BoundedSeq(T, n)
  BY Zenon DEF S!BoundedSeq, BoundedSeq, S!SeqOf, SeqOf
<1>6. \A f, T : S!Restrict(f, T) = [x \in T |-> f[x]]
  BY DEF S!Restrict
<1>. QED  BY <1>1, <1>2, <1>3, <1>4, <1>5, <1>6

LEMMA SWalks ==
    /\ \A w : SLinked(s_nxt, s_data, w) => S!Walk = w
    /\ \A w : SLinked(s_nxt', s_data', w) => S!Walk' = w
<1>1. /\ S!Walk = Along(s_nxt, s_nxt[ListPtr], Cardinality(Entries))
      /\ S!Walk' = Along(s_nxt', s_nxt'[ListPtr], Cardinality(Entries))
  BY Zenon DEF S!Walk, S!Along, Along, S!Cardinality, Cardinality
<1>2. ASSUME NEW nx, NEW da, NEW w, SLinked(nx, da, w)
      PROVE  Along(nx, nx[ListPtr], Cardinality(Entries)) = w
  <2>1. /\ w \in Seq(Entries) /\ Once(w) /\ Chain(nx, nx[ListPtr], w)
    BY <1>2 DEF SLinked
  <2>2. IsFiniteSet(Entries) /\ Null \notin Entries
    BY SequencesAssumption
  <2>. QED  BY <2>1, <2>2, AlongChain
<1>. QED  BY <1>1, <1>2

LEMMA SValues ==
    /\ \A w : SLinked(s_nxt, s_data, w) => S!Contents = Values(s_data, w)
    /\ \A w : SLinked(s_nxt', s_data', w) => S!Contents' = Values(s_data', w)
    /\ \A nx, da, w : SLinked(nx, da, w) =>
          /\ Values(da, w) \in Seq(Data) /\ Len(Values(da, w)) = Len(w)
          /\ \A i \in 1 .. Len(w) : Values(da, w)[i] = da[w[i]] /\ da[w[i]] \in Data
<1>1. ASSUME NEW w, SLinked(s_nxt, s_data, w) PROVE S!Contents = Values(s_data, w)
  <2>1. S!Walk = w /\ DOMAIN w = 1 .. Len(w)
    BY <1>1, SWalks DEF SLinked
  <2>. QED  BY <2>1 DEF S!Contents, Values
<1>2. ASSUME NEW w, SLinked(s_nxt', s_data', w) PROVE S!Contents' = Values(s_data', w)
  <2>1. S!Walk' = w /\ DOMAIN w = 1 .. Len(w)
    BY <1>2, SWalks DEF SLinked
  <2>. QED  BY <2>1 DEF S!Contents, Values
<1>3. ASSUME NEW nx, NEW da, NEW w, SLinked(nx, da, w)
      PROVE  /\ Values(da, w) \in Seq(Data) /\ Len(Values(da, w)) = Len(w)
             /\ \A i \in 1 .. Len(w) : Values(da, w)[i] = da[w[i]] /\ da[w[i]] \in Data
  <2>1. Len(w) \in Nat /\ da \in [Elems(w) -> Data] /\ \A i \in 1 .. Len(w) : w[i] \in Elems(w)
    BY <1>3 DEF SLinked, Elems
  <2>2. \A i \in 1 .. Len(w) : da[w[i]] \in Data
    BY <2>1
  <2>. QED  BY <2>1, <2>2 DEF Values
<1>. QED  BY <1>1, <1>2, <1>3

\* What SLinked says of each entry.
LEMMA SFacts ==
    ASSUME NEW nx, NEW da, NEW w, SLinked(nx, da, w)
    PROVE  /\ w \in Seq(Entries) /\ Once(w) /\ Len(w) \in Nat
           /\ DOMAIN nx = Elems(w) \cup {ListPtr} /\ DOMAIN da = Elems(w)
           /\ nx[ListPtr] = Entry(w, 1)
           /\ \A i \in 1 .. Len(w) : nx[w[i]] = Entry(w, i + 1)
           /\ \A i \in 1 .. Len(w) : /\ w[i] \in Entries /\ w[i] # Null /\ w[i] # ListPtr
                                     /\ w[i] \in Elems(w) /\ da[w[i]] \in Data
BY SequencesAssumption DEF SLinked, Chain, Elems

\* A new entry in the k-th place.
Placed(w, k, n, t) ==
    /\ Len(t) = Len(w) + 1 /\ t[k] = n
    /\ \A i \in 1 .. Len(w) : IF i < k THEN t[i] = w[i] ELSE t[i + 1] = w[i]

LEMMA PlacedOnce ==
    ASSUME NEW E, NEW w \in Seq(E), Once(w), NEW n, n \notin Elems(w), NEW k \in 1 .. Len(w) + 1,
           NEW t \in Seq(E), Placed(w, k, n, t)
    PROVE  Once(t) /\ Elems(t) = Elems(w) \cup {n}
<1>1. /\ Len(w) \in Nat /\ Len(t) = Len(w) + 1 /\ t[k] = n
      /\ \A i \in 1 .. Len(w) : w[i] # n
  BY DEF Placed, Elems
<1>2. \A j \in 1 .. Len(t) : j < k => j \in 1 .. Len(w) /\ t[j] = w[j]
  BY <1>1 DEF Placed
<1>3. ASSUME NEW j \in 1 .. Len(t), j > k PROVE j - 1 \in 1 .. Len(w) /\ t[j] = w[j - 1]
  <2>1. j - 1 \in 1 .. Len(w) /\ ~ (j - 1 < k) /\ j - 1 + 1 = j
    BY <1>1, <1>3
  <2>2. t[j - 1 + 1] = w[j - 1]
    BY <2>1 DEF Placed
  <2>. QED  BY <2>1, <2>2
<1>4. ASSUME NEW i \in 1 .. Len(t), NEW j \in 1 .. Len(t), t[i] = t[j] PROVE i = j
  <2>0. \A m \in 1 .. Len(t) : t[m] = n => m = k
    BY <1>1, <1>2, <1>3
  <2>1. CASE i = k \/ j = k
    BY <1>1, <1>4, <2>0, <2>1
  <2>2. CASE i < k /\ j < k
    <3>1. i \in 1 .. Len(w) /\ j \in 1 .. Len(w) /\ w[i] = w[j]
      BY <1>2, <1>4, <2>2
    <3>. QED  BY <3>1 DEF Once
  <2>3. CASE i > k /\ j > k
    <3>1. i - 1 = j - 1
      BY <1>3, <1>4, <2>3 DEF Once
    <3>. QED  BY <3>1
  <2>4. CASE i < k /\ j > k
    <3>1. i = j - 1
      BY <1>2, <1>3, <1>4, <2>4 DEF Once
    <3>. QED  BY <2>4, <3>1
  <2>5. CASE i > k /\ j < k
    <3>1. i - 1 = j
      BY <1>2, <1>3, <1>4, <2>5 DEF Once
    <3>. QED  BY <2>5, <3>1
  <2>. QED  BY <2>1, <2>2, <2>3, <2>4, <2>5
<1>5. \A x \in Elems(t) : x \in Elems(w) \cup {n}
  <2> SUFFICES ASSUME NEW j \in 1 .. Len(t) PROVE t[j] \in Elems(w) \cup {n}
    BY DEF Elems
  <2>. QED  BY <1>1, <1>2, <1>3 DEF Elems
<1>6. \A i \in 1 .. Len(w) : w[i] \in Elems(t)
  <2> SUFFICES ASSUME NEW i \in 1 .. Len(w) PROVE w[i] \in Elems(t)
    OBVIOUS
  <2>1. i \in 1 .. Len(t) /\ i + 1 \in 1 .. Len(t)
    BY <1>1
  <2>. QED  BY <2>1 DEF Placed, Elems
<1>7. n \in Elems(t)
  BY <1>1 DEF Elems
<1>8. Elems(t) = Elems(w) \cup {n}
  BY <1>5, <1>6, <1>7 DEF Elems
<1>. QED  BY <1>4, <1>8 DEF Once

\* The insertion and the removal of the abstract sequence.
LEMMA InsertPlaces ==
    ASSUME NEW E, NEW w \in Seq(E), NEW k \in 1 .. Len(w) + 1, NEW n \in E
    PROVE  InsertAt(w, k, n) \in Seq(E) /\ Placed(w, k, n, InsertAt(w, k, n))
<1> DEFINE a == SubSeq(w, 1, k - 1)
           b == SubSeq(w, k, Len(w))
           u == a \o <<n>>
           v == u \o b
           N == Len(w)
<1>1. N \in Nat /\ k - 1 \in 0 .. N /\ \A i \in 1 .. N : w[i] \in E
  OBVIOUS
<1>2. a \in Seq(E) /\ Len(a) = k - 1 /\ \A i \in 1 .. k - 1 : a[i] = w[i]
  BY <1>1
<1>3. b \in Seq(E) /\ Len(b) = N + 1 - k /\ \A i \in 1 .. N + 1 - k : b[i] = w[k - 1 + i]
  <2>1. CASE k = N + 1
    <3>1. b = <<>>
      BY <1>1, <2>1
    <3>. QED  BY <1>1, <2>1, <3>1
  <2>2. CASE k \in 1 .. N
    <3>1. b \in Seq(E) /\ Len(b) = N - k + 1
      BY <2>2
    <3>2. \A i \in 1 .. N - k + 1 : b[i] = w[k + i - 1]
      BY <2>2
    <3>3. N - k + 1 = N + 1 - k /\ \A i \in 1 .. N + 1 - k : k + i - 1 = k - 1 + i
      BY <1>1
    <3>. QED  BY <3>1, <3>2, <3>3
  <2>. QED  BY <1>1, <2>1, <2>2
<1>4. InsertAt(w, k, n) = v
  BY DEF InsertAt
<1> HIDE DEF a, b
<1>5. /\ u \in Seq(E) /\ Len(u) = k /\ u[k] = n /\ \A i \in 1 .. k - 1 : u[i] = w[i]
  BY <1>1, <1>2
<1> HIDE DEF u
<1>6. /\ v \in Seq(E) /\ Len(v) = k + (N + 1 - k)
      /\ \A i \in 1 .. k : v[i] = u[i]
      /\ \A i \in 1 .. N + 1 - k : v[k + i] = b[i]
  BY <1>1, <1>3, <1>5
<1> HIDE DEF v, N
<1>7. Len(v) = N + 1 /\ v[k] = n
  BY <1>1, <1>5, <1>6
<1>8. ASSUME NEW i \in 1 .. N PROVE IF i < k THEN v[i] = w[i] ELSE v[i + 1] = w[i]
  <2>1. CASE i < k
    <3>1. i \in 1 .. k /\ i \in 1 .. k - 1
      BY <1>1, <2>1
    <3>. QED  BY <1>5, <1>6, <2>1, <3>1
  <2>2. CASE ~ (i < k)
    <3>1. i + 1 - k \in 1 .. N + 1 - k /\ k + (i + 1 - k) = i + 1 /\ k - 1 + (i + 1 - k) = i
      BY <1>1, <2>2
    <3>. QED  BY <1>3, <1>6, <2>2, <3>1
  <2>. QED  BY <2>1, <2>2
<1>. QED  BY <1>4, <1>6, <1>7, <1>8 DEF Placed, N

LEMMA PlacedUnique ==
    ASSUME NEW E, NEW w \in Seq(E), NEW k \in 1 .. Len(w) + 1, NEW n,
           NEW F, NEW t \in Seq(F), NEW u \in Seq(F), Placed(w, k, n, t), Placed(w, k, n, u)
    PROVE  t = u
<1>1. Len(w) \in Nat /\ Len(t) = Len(w) + 1 /\ Len(u) = Len(w) + 1
  BY DEF Placed
<1>2. ASSUME NEW i \in 1 .. Len(t) PROVE t[i] = u[i]
  <2>1. CASE i = k
    BY <2>1 DEF Placed
  <2>2. CASE i < k
    <3>1. i \in 1 .. Len(w)
      BY <1>1, <2>2
    <3>. QED  BY <2>2, <3>1 DEF Placed
  <2>3. CASE i > k
    <3>1. i - 1 \in 1 .. Len(w) /\ ~ (i - 1 < k) /\ i - 1 + 1 = i
      BY <1>1, <2>3
    <3>2. t[i - 1 + 1] = w[i - 1] /\ u[i - 1 + 1] = w[i - 1]
      BY <3>1 DEF Placed
    <3>. QED  BY <3>1, <3>2
  <2>. QED  BY <1>1, <2>1, <2>2, <2>3
<1>. QED  BY <1>1, <1>2

\* n elements from place k on are cut out.
Cut(w, k, n, t) ==
    /\ Len(t) = Len(w) - n
    /\ \A i \in 1 .. Len(t) : t[i] = IF i < k THEN w[i] ELSE w[i + n]

LEMMA CutIs ==
    ASSUME NEW E, NEW w \in Seq(E), NEW k \in 1 .. Len(w), NEW n \in 0 .. Len(w) + 1 - k,
           NEW F, NEW t \in Seq(F), Cut(w, k, n, t)
    PROVE  t = SubSeq(w, 1, k - 1) \o SubSeq(w, k + n, Len(w))
<1> DEFINE a == SubSeq(w, 1, k - 1)
           b == SubSeq(w, k + n, Len(w))
           v == a \o b
           N == Len(w)
<1>1. N \in Nat /\ k - 1 \in 0 .. N /\ k + n \in 1 .. N + 1 /\ n \in Nat /\ k \in 1 .. N
  OBVIOUS
<1>2. a \in Seq(E) /\ Len(a) = k - 1 /\ \A i \in 1 .. k - 1 : a[i] = w[i]
  BY <1>1
<1>3. b \in Seq(E) /\ Len(b) = N + 1 - (k + n) /\ \A i \in 1 .. N + 1 - (k + n) : b[i] = w[k + n + i - 1]
  <2> DEFINE m == k + n
  <2>0. m \in 1 .. N + 1
    BY <1>1
  <2> HIDE DEF m
  <2>1. CASE m = N + 1
    <3>1. SubSeq(w, m, N) = <<>>
      BY <1>1, <2>1
    <3>. QED  BY <1>1, <2>1, <3>1, SMTT(30) DEF m
  <2>2. CASE m \in 1 .. N
    <3>1. SubSeq(w, m, N) \in Seq(E) /\ Len(SubSeq(w, m, N)) = N - m + 1
      BY <2>2
    <3>2. \A i \in 1 .. N - m + 1 : SubSeq(w, m, N)[i] = w[m + i - 1]
      BY <2>2
    <3>3. N - m + 1 = N + 1 - m
      BY <1>1, <2>2
    <3>. QED  BY <3>1, <3>2, <3>3 DEF m
  <2>. QED  BY <1>1, <2>0, <2>1, <2>2
<1> HIDE DEF a, b
<1>4. /\ v \in Seq(E) /\ Len(v) = k - 1 + (N + 1 - (k + n))
      /\ \A i \in 1 .. k - 1 : v[i] = a[i]
      /\ \A i \in 1 .. N + 1 - (k + n) : v[k - 1 + i] = b[i]
  <2>1. a \in Seq(E) /\ b \in Seq(E)
    BY <1>2, <1>3
  <2>2. /\ v \in Seq(E) /\ Len(v) = Len(a) + Len(b)
        /\ \A i \in 1 .. Len(a) : v[i] = a[i]
        /\ \A i \in 1 .. Len(b) : v[Len(a) + i] = b[i]
    BY <2>1
  <2>3. Len(a) = k - 1 /\ Len(b) = N + 1 - (k + n)
    BY <1>2, <1>3
  <2> HIDE DEF v
  <2>. QED  BY <2>2, <2>3
<1> HIDE DEF v, N
<1>5. Len(t) = N - n /\ Len(v) = N - n /\ N - n \in Nat
  BY <1>1, <1>4 DEF Cut, N
<1>6. ASSUME NEW i \in 1 .. N - n PROVE t[i] = v[i]
  <2>1. t[i] = IF i < k THEN w[i] ELSE w[i + n]
    BY <1>5 DEF Cut
  <2>2. CASE i < k
    <3>1. i \in 1 .. k - 1
      BY <1>1, <1>5, <2>2
    <3>. QED  BY <1>2, <1>4, <2>1, <2>2, <3>1
  <2>3. CASE ~ (i < k)
    <3>1. /\ i - k + 1 \in 1 .. N + 1 - (k + n) /\ k - 1 + (i - k + 1) = i
          /\ k + n + (i - k + 1) - 1 = i + n
      BY <1>1, <1>5, <2>3
    <3>. QED  BY <1>3, <1>4, <2>1, <2>3, <3>1, SMTT(30)
  <2>. QED  BY <2>2, <2>3
<1>7. t = v
  BY <1>4, <1>5, <1>6
<1>. QED  BY <1>7 DEF v, a, b, N

LEMMA DroppedIsCut ==
    ASSUME NEW s, NEW k, NEW t
    PROVE  Dropped(s, k, t) <=> Cut(s, k, 1, t)
BY DEF Dropped, Cut

\* The next pointers, and the values, with a new entry n behind p; without
\* entry e behind p.
NextWith(nx, p, n) ==
    [m \in DOMAIN nx \cup {n} |-> IF m = p THEN n ELSE IF m = n THEN nx[p] ELSE nx[m]]
DataWith(da, n, d) == [m \in DOMAIN da \cup {n} |-> IF m = n THEN d ELSE da[m]]
NextWithout(nx, p, e) == [m \in DOMAIN nx \ {e} |-> IF m = p THEN nx[e] ELSE nx[m]]
DataWithout(da, e) == [x \in DOMAIN da \ {e} |-> da[x]]

\* The entry in front of the k-th place.
PlaceBefore(w, k) == IF k = 1 THEN ListPtr ELSE w[k - 1]

\* A new entry n in the k-th place.
LEMMA SInserted ==
    ASSUME NEW nx, NEW da, NEW w, SLinked(nx, da, w), NEW n \in Entries, n \notin Elems(w),
           NEW d \in Data, NEW k \in 1 .. Len(w) + 1, NEW t \in Seq(Entries), Placed(w, k, n, t)
    PROVE  /\ SLinked(NextWith(nx, PlaceBefore(w, k), n), DataWith(da, n, d), t)
           /\ Placed(Values(da, w), k, d, Values(DataWith(da, n, d), t))
<1> DEFINE p == PlaceBefore(w, k)
           nx2 == NextWith(nx, p, n)
           da2 == DataWith(da, n, d)
<1>p. p = IF k = 1 THEN ListPtr ELSE w[k - 1]
  BY DEF PlaceBefore
<1>n. nx2 = [m \in DOMAIN nx \cup {n} |-> IF m = p THEN n ELSE IF m = n THEN nx[p] ELSE nx[m]]
  BY DEF NextWith
<1>d. da2 = [m \in Elems(w) \cup {n} |-> IF m = n THEN d ELSE da[m]]
  BY SFacts DEF DataWith
<1> HIDE DEF p, nx2, da2
<1>1. /\ w \in Seq(Entries) /\ Once(w) /\ Len(w) \in Nat
      /\ DOMAIN nx = Elems(w) \cup {ListPtr} /\ DOMAIN da = Elems(w)
      /\ nx[ListPtr] = Entry(w, 1)
      /\ \A i \in 1 .. Len(w) : nx[w[i]] = Entry(w, i + 1)
      /\ \A i \in 1 .. Len(w) : /\ w[i] \in Entries /\ w[i] # Null /\ w[i] # ListPtr
                                /\ w[i] \in Elems(w) /\ da[w[i]] \in Data
  BY SFacts
<1>2. Once(t) /\ Elems(t) = Elems(w) \cup {n}
  BY <1>1, PlacedOnce
<1>3. n # Null /\ n # ListPtr /\ \A i \in 1 .. Len(w) : w[i] # n
  BY <1>1, SequencesAssumption
<1>4. /\ Len(t) = Len(w) + 1 /\ t[k] = n /\ Len(t) \in Nat
      /\ \A i \in 1 .. Len(w) : IF i < k THEN t[i] = w[i] ELSE t[i + 1] = w[i]
  BY <1>1 DEF Placed
<1>5. \A j \in 1 .. Len(t) : j < k => j \in 1 .. Len(w) /\ t[j] = w[j]
  BY <1>1, <1>4
<1>6. ASSUME NEW j \in 1 .. Len(t), j > k PROVE j - 1 \in 1 .. Len(w) /\ t[j] = w[j - 1]
  <2>1. j - 1 \in 1 .. Len(w) /\ ~ (j - 1 < k) /\ j - 1 + 1 = j
    BY <1>1, <1>4, <1>6
  <2>2. t[j - 1 + 1] = w[j - 1]
    BY <1>4, <2>1
  <2>. QED  BY <2>1, <2>2
<1>7. \A i \in 1 .. Len(w) : w[i] = p <=> i = k - 1
  <2>1. CASE k = 1
    BY <1>1, <1>p, <2>1
  <2>2. CASE k # 1
    <3>1. k - 1 \in 1 .. Len(w) /\ p = w[k - 1]
      BY <1>1, <1>p, <2>2
    <3>. QED  BY <1>1, <3>1 DEF Once
  <2>. QED  BY <2>1, <2>2
<1>8. nx[p] = Entry(w, k) /\ p \in DOMAIN nx /\ p # n
  <2>1. CASE k = 1
    BY <1>1, <1>3, <1>p, <2>1
  <2>2. CASE k # 1
    <3>1. k - 1 \in 1 .. Len(w) /\ p = w[k - 1] /\ k - 1 + 1 = k
      BY <1>1, <1>p, <2>2
    <3>. QED  BY <1>1, <1>3, <3>1
  <2>. QED  BY <2>1, <2>2
<1>9. /\ nx2[p] = n /\ nx2[n] = Entry(w, k) /\ DOMAIN nx2 = Elems(t) \cup {ListPtr}
      /\ \A m \in DOMAIN nx : m # p /\ m # n => nx2[m] = nx[m]
  BY <1>1, <1>2, <1>8, <1>n
<1>10. nx2[ListPtr] = Entry(t, 1)
  <2>1. CASE k = 1
    <3>1. p = ListPtr /\ 1 \in 1 .. Len(t) /\ t[1] = n
      BY <1>1, <1>4, <1>p, <2>1
    <3>. QED  BY <1>9, <3>1 DEF Entry
  <2>2. CASE k # 1
    <3>1. k - 1 \in 1 .. Len(w) /\ p = w[k - 1] /\ 1 \in 1 .. Len(w) /\ 1 \in 1 .. Len(t) /\ 1 < k
      BY <1>1, <1>4, <1>p, <2>2
    <3>2. ListPtr # p /\ t[1] = w[1]
      BY <1>1, <1>4, <3>1
    <3>3. nx2[ListPtr] = nx[ListPtr]
      BY <1>1, <1>3, <1>9, <3>2
    <3>. QED  BY <1>1, <3>1, <3>2, <3>3 DEF Entry
  <2>. QED  BY <2>1, <2>2
<1>11. ASSUME NEW j \in 1 .. Len(t) PROVE nx2[t[j]] = Entry(t, j + 1)
  <2>1. CASE j = k
    <3>1. nx2[t[j]] = Entry(w, k)
      BY <1>4, <1>9, <2>1
    <3>2. Entry(w, k) = Entry(t, k + 1)
      <4>1. CASE k = Len(w) + 1
        BY <1>1, <1>4, <4>1 DEF Entry
      <4>2. CASE k \in 1 .. Len(w)
        <5>1. k + 1 \in 1 .. Len(t) /\ t[k + 1] = w[k]
          BY <1>1, <1>4, <4>2
        <5>. QED  BY <4>2, <5>1 DEF Entry
      <4>. QED  BY <1>1, <4>1, <4>2
    <3>. QED  BY <2>1, <3>1, <3>2
  <2>2. CASE j < k
    <3>1. j \in 1 .. Len(w) /\ t[j] = w[j]
      BY <1>5, <2>2
    <3>2. CASE j = k - 1
      <4>1. t[j] = p /\ j + 1 = k /\ k \in 1 .. Len(t)
        BY <1>1, <1>4, <1>7, <3>1, <3>2
      <4>. QED  BY <1>4, <1>9, <4>1 DEF Entry
    <3>3. CASE j # k - 1
      <4>1. t[j] # p /\ t[j] # n /\ t[j] \in DOMAIN nx
        BY <1>1, <1>3, <1>7, <3>1, <3>3
      <4>2. nx2[t[j]] = Entry(w, j + 1)
        BY <1>1, <1>9, <3>1, <4>1
      <4>3. j + 1 \in 1 .. Len(w) /\ j + 1 < k /\ j + 1 \in 1 .. Len(t)
        BY <1>1, <1>4, <2>2, <3>1, <3>3
      <4>4. t[j + 1] = w[j + 1]
        BY <1>4, <4>3
      <4>. QED  BY <4>2, <4>3, <4>4 DEF Entry
    <3>. QED  BY <3>2, <3>3
  <2>3. CASE j > k
    <3>1. j - 1 \in 1 .. Len(w) /\ t[j] = w[j - 1] /\ j - 1 # k - 1 /\ j - 1 + 1 = j
      BY <1>6, <2>3
    <3>2. t[j] # p /\ t[j] # n /\ t[j] \in DOMAIN nx
      BY <1>1, <1>3, <1>7, <3>1
    <3>3. nx2[t[j]] = Entry(w, j)
      BY <1>1, <1>9, <3>1, <3>2
    <3>4. Entry(w, j) = Entry(t, j + 1)
      <4>1. CASE j = Len(w) + 1
        BY <1>1, <1>4, <4>1 DEF Entry
      <4>2. CASE j \in 1 .. Len(w)
        <5>1. j + 1 \in 1 .. Len(t) /\ t[j + 1] = w[j]
          BY <1>1, <1>4, <2>3, <4>2
        <5>. QED  BY <4>2, <5>1 DEF Entry
      <4>. QED  BY <1>1, <1>4, <4>1, <4>2
    <3>. QED  BY <3>3, <3>4
  <2>. QED  BY <2>1, <2>2, <2>3
<1>12. da2 \in [Elems(t) -> Data]
  BY <1>2, <1>d DEF SLinked
<1>13. SLinked(nx2, da2, t)
  BY <1>2, <1>9, <1>10, <1>11, <1>12 DEF SLinked, Chain
<1>14. Placed(Values(da, w), k, d, Values(da2, t))
  <2>1. /\ Len(Values(da, w)) = Len(w) /\ Len(Values(da2, t)) = Len(t)
        /\ \A i \in 1 .. Len(w) : Values(da, w)[i] = da[w[i]]
        /\ \A i \in 1 .. Len(t) : Values(da2, t)[i] = da2[t[i]]
    BY <1>1, <1>4, <1>13 DEF Values
  <2>2. da2[n] = d /\ \A i \in 1 .. Len(w) : da2[w[i]] = da[w[i]]
    BY <1>1, <1>3, <1>d
  <2>3. Values(da2, t)[k] = d
    BY <1>1, <1>4, <2>1, <2>2
  <2>4. ASSUME NEW i \in 1 .. Len(w)
        PROVE  IF i < k THEN Values(da2, t)[i] = Values(da, w)[i] ELSE Values(da2, t)[i + 1] = Values(da, w)[i]
    <3>1. i \in 1 .. Len(t) /\ i + 1 \in 1 .. Len(t)
      BY <1>1, <1>4
    <3>2. Values(da, w)[i] = da[w[i]] /\ da2[w[i]] = da[w[i]]
          /\ Values(da2, t)[i] = da2[t[i]] /\ Values(da2, t)[i + 1] = da2[t[i + 1]]
      BY <2>1, <2>2, <3>1
    <3>3. IF i < k THEN t[i] = w[i] ELSE t[i + 1] = w[i]
      BY <1>4
    <3>. QED  BY <3>2, <3>3
  <2> DEFINE a == Values(da, w)
             b == Values(da2, t)
  <2> HIDE DEF a, b
  <2>5. Len(b) = Len(a) + 1 /\ b[k] = d /\ Len(a) = Len(w)
    BY <1>4, <2>1, <2>3 DEF a, b
  <2>6. \A i \in 1 .. Len(a) : IF i < k THEN b[i] = a[i] ELSE b[i + 1] = a[i]
    BY <2>4, <2>5 DEF a, b
  <2>7. Placed(a, k, d, b)
    BY <2>5, <2>6 DEF Placed
  <2>. QED  BY <2>7 DEF a, b
<1>. QED  BY <1>13, <1>14 DEF nx2, da2, p

\* The k-th entry is unlinked and freed.
LEMMA SUnlinked ==
    ASSUME NEW nx, NEW da, NEW w, SLinked(nx, da, w), NEW k \in 1 .. Len(w), NEW t \in Seq(Entries), Dropped(w, k, t)
    PROVE  /\ SLinked(NextWithout(nx, PlaceBefore(w, k), w[k]), DataWithout(da, w[k]), t)
           /\ Dropped(Values(da, w), k, Values(DataWithout(da, w[k]), t))
<1> DEFINE p == PlaceBefore(w, k)
           nx2 == NextWithout(nx, p, w[k])
           da2 == DataWithout(da, w[k])
<1>p. p = IF k = 1 THEN ListPtr ELSE w[k - 1]
  BY DEF PlaceBefore
<1>n. nx2 = [m \in DOMAIN nx \ {w[k]} |-> IF m = p THEN nx[w[k]] ELSE nx[m]]
  BY DEF NextWithout
<1>d. da2 = [x \in Elems(w) \ {w[k]} |-> da[x]]
  BY SFacts DEF DataWithout
<1> HIDE DEF p, nx2, da2
<1>1. /\ w \in Seq(Entries) /\ Once(w) /\ Len(w) \in Nat
      /\ DOMAIN nx = Elems(w) \cup {ListPtr} /\ DOMAIN da = Elems(w)
      /\ nx[ListPtr] = Entry(w, 1)
      /\ \A i \in 1 .. Len(w) : nx[w[i]] = Entry(w, i + 1)
      /\ \A i \in 1 .. Len(w) : /\ w[i] \in Entries /\ w[i] # Null /\ w[i] # ListPtr
                                /\ w[i] \in Elems(w) /\ da[w[i]] \in Data
  BY SFacts
<1>2. Once(t) /\ Elems(t) = Elems(w) \ {w[k]}
  BY <1>1, DroppedOnce
<1>3. /\ Len(t) = Len(w) - 1 /\ Len(t) \in Nat
      /\ \A i \in 1 .. Len(t) : t[i] = IF i < k THEN w[i] ELSE w[i + 1]
  BY <1>1 DEF Dropped
<1>4. \A i \in 1 .. Len(w) : (w[i] = p <=> i = k - 1) /\ (w[i] = w[k] <=> i = k)
  <2>1. CASE k = 1
    BY <1>1, <1>p, <2>1 DEF Once
  <2>2. CASE k # 1
    <3>1. k - 1 \in 1 .. Len(w) /\ p = w[k - 1]
      BY <1>1, <1>p, <2>2
    <3>. QED  BY <1>1, <3>1 DEF Once
  <2>. QED  BY <2>1, <2>2
<1>5. ListPtr # w[k] /\ (p = ListPtr <=> k = 1) /\ nx[w[k]] = Entry(w, k + 1)
  <2>1. k # 1 => k - 1 \in 1 .. Len(w)
    BY <1>1
  <2>. QED  BY <1>1, <1>p, <2>1
<1>6. /\ DOMAIN nx2 = Elems(t) \cup {ListPtr}
      /\ \A m \in DOMAIN nx2 : nx2[m] = IF m = p THEN Entry(w, k + 1) ELSE nx[m]
  BY <1>1, <1>2, <1>5, <1>n
<1>7. nx2[ListPtr] = Entry(t, 1)
  <2>1. nx2[ListPtr] = IF k = 1 THEN Entry(w, 2) ELSE Entry(w, 1)
    BY <1>1, <1>5, <1>6
  <2>. QED  BY <1>1, <1>3, <2>1 DEF Entry
<1>8. ASSUME NEW i \in 1 .. Len(t) PROVE nx2[t[i]] = Entry(t, i + 1)
  <2>1. i \in 1 .. Len(w) /\ i + 1 \in 1 .. Len(w)
    BY <1>1, <1>3
  <2>2. t[i] \in DOMAIN nx2
    BY <1>6 DEF Elems
  <2>3. CASE i < k
    <3>1. t[i] = w[i] /\ nx2[t[i]] = IF i = k - 1 THEN Entry(w, k + 1) ELSE Entry(w, i + 1)
      BY <1>1, <1>3, <1>4, <1>6, <2>1, <2>2, <2>3
    <3>. QED  BY <1>1, <1>3, <2>1, <2>3, <3>1 DEF Entry
  <2>4. CASE i >= k
    <3>1. t[i] = w[i + 1] /\ i + 1 # k - 1
      BY <1>1, <1>3, <2>1, <2>4
    <3>2. t[i] # p /\ nx[t[i]] = Entry(w, i + 1 + 1)
      BY <1>1, <1>4, <2>1, <3>1
    <3>3. nx2[t[i]] = Entry(w, i + 1 + 1)
      BY <1>6, <2>2, <3>2
    <3>. QED  BY <1>1, <1>3, <2>1, <2>4, <3>3 DEF Entry
  <2>. QED  BY <1>1, <2>1, <2>3, <2>4
<1>9. da2 \in [Elems(t) -> Data]
  BY <1>2, <1>d DEF SLinked
<1>10. SLinked(nx2, da2, t)
  BY <1>2, <1>6, <1>7, <1>8, <1>9 DEF SLinked, Chain
<1>11. Dropped(Values(da, w), k, Values(da2, t))
  <2>1. /\ Len(Values(da, w)) = Len(w) /\ Len(Values(da2, t)) = Len(t)
        /\ \A i \in 1 .. Len(w) : Values(da, w)[i] = da[w[i]]
        /\ \A i \in 1 .. Len(t) : Values(da2, t)[i] = da2[t[i]]
    BY <1>1, <1>3 DEF Values
  <2>2. ASSUME NEW i \in 1 .. Len(t)
        PROVE  Values(da2, t)[i] = IF i < k THEN Values(da, w)[i] ELSE Values(da, w)[i + 1]
    <3>1. i \in 1 .. Len(w) /\ i + 1 \in 1 .. Len(w) /\ t[i] \in Elems(t)
      BY <1>1, <1>3 DEF Elems
    <3>2. da2[t[i]] = da[t[i]]
      BY <1>2, <1>d, <3>1
    <3>. QED  BY <1>3, <2>1, <3>1, <3>2
  <2>. QED  BY <1>3, <2>1, <2>2 DEF Dropped
<1>. QED  BY <1>10, <1>11 DEF nx2, da2, p

-----------------------------------------------------------------------------
(* A step of the abstract sequence, from a to b with the result q.         *)

\* The first place of d, counted from 0, or -1.
IsIndex(a, d, q) ==
    \/ d \notin Elems(a) /\ q = -1
    \/ q + 1 \in 1 .. Len(a) /\ a[q + 1] = d /\ \A j \in 1 .. q : a[j] # d

Asks(a, q) ==
    q \in {Null, 0} \/ q \in Elems(a) \/ \E d \in Data : q \in Int /\ IsIndex(a, d, q)

Inserts(a, b, q) == q = 1 /\ \E d \in Data, k \in 1 .. Len(a) + 1 : Placed(a, k, d, b)
Removes(a, b, q) ==
    q \in {1, Null} /\ \E k \in 1 .. Len(a) : \E n \in 0 .. Len(a) + 1 - k : Cut(a, k, n, b)
RemovesData(a, b, q) == \E d \in Data : q = Copies(a, d) /\ b = Kept(a, Data \ {d})
TakesFirst(a, b, q) == Len(a) # 0 /\ q = a[1] /\ Cut(a, 1, 1, b)
TakesLast(a, b, q) == Len(a) # 0 /\ q = a[Len(a)] /\ Cut(a, Len(a), 1, b)
Orders(a, b, q) ==
    /\ q = Null /\ \A d \in Data : Copies(b, d) = Copies(a, d)
    /\ \A i, j \in 1 .. Len(b) : i < j => b[i] <= b[j]

SeqStep(a, b, q) ==
    \/ b = a /\ Asks(a, q)
    \/ Inserts(a, b, q) \/ Removes(a, b, q) \/ RemovesData(a, b, q)
    \/ TakesFirst(a, b, q) \/ TakesLast(a, b, q)
    \/ Orders(a, b, q) \/ (b = <<>> /\ q = Null)

\* The results of the sequence's own removals from its ends.
LEMMA EndsCut ==
    ASSUME NEW E, NEW a \in Seq(E), NEW b \in Seq(E), Len(a) # 0
    PROVE  /\ Cut(a, 1, 1, b) => b = Tail(a) /\ a[1] = Head(a)
           /\ Cut(a, Len(a), 1, b) => b = SubSeq(a, 1, Len(a) - 1)
<1>1. Len(a) \in Nat /\ a # <<>>
  OBVIOUS
<1>2. ASSUME Cut(a, 1, 1, b) PROVE b = Tail(a) /\ a[1] = Head(a)
  <2>1. Len(b) = Len(a) - 1 /\ \A i \in 1 .. Len(b) : b[i] = IF i < 1 THEN a[i] ELSE a[i + 1]
    BY <1>2 DEF Cut
  <2>2. \A i \in 1 .. Len(b) : b[i] = a[i + 1]
    BY <1>1, <2>1
  <2>3. Tail(a) \in Seq(E) /\ Len(Tail(a)) = Len(a) - 1 /\ \A i \in 1 .. Len(a) - 1 : Tail(a)[i] = a[i + 1]
    BY <1>1
  <2>4. b = Tail(a)
    BY <2>1, <2>2, <2>3
  <2>. QED  BY <1>1, <2>4
<1>3. ASSUME Cut(a, Len(a), 1, b) PROVE b = SubSeq(a, 1, Len(a) - 1)
  <2> DEFINE c == SubSeq(a, 1, Len(a) - 1)
  <2>1. Len(b) = Len(a) - 1 /\ \A i \in 1 .. Len(b) : b[i] = IF i < Len(a) THEN a[i] ELSE a[i + 1]
    BY <1>3 DEF Cut
  <2>2. \A i \in 1 .. Len(b) : b[i] = a[i]
    BY <1>1, <2>1
  <2>3. c \in Seq(E) /\ Len(c) = Len(a) - 1 /\ \A i \in 1 .. Len(a) - 1 : c[i] = a[i]
    <3> DEFINE m == Len(a) - 1
    <3>1. m \in 0 .. Len(a)
      BY <1>1
    <3> HIDE DEF m
    <3>2. /\ SubSeq(a, 1, m) \in Seq(E) /\ Len(SubSeq(a, 1, m)) = m
          /\ \A i \in 1 .. m : SubSeq(a, 1, m)[i] = a[i]
      BY <3>1
    <3>. QED  BY <3>2 DEF m
  <2> HIDE DEF c
  <2>4. b = c
    BY <2>1, <2>2, <2>3
  <2>. QED  BY <2>4 DEF c
<1>. QED  BY <1>2, <1>3

FirstIndex(a, d) ==
    IF d \in Elems(a)
    THEN (CHOOSE i \in 1 .. Len(a) : a[i] = d /\ \A j \in 1 .. i - 1 : a[j] # d) - 1
    ELSE -1

LEMMA IndexUnique ==
    ASSUME NEW E, NEW a \in Seq(E), NEW d, NEW q \in Int, IsIndex(a, d, q)
    PROVE  q = FirstIndex(a, d)
<1> DEFINE First(i) == a[i] = d /\ \A j \in 1 .. i - 1 : a[j] # d
           c == CHOOSE i \in 1 .. Len(a) : First(i)
<1>1. CASE d \notin Elems(a)
  <2>1. q = -1
    BY <1>1 DEF IsIndex, Elems
  <2>. QED  BY <1>1, <2>1 DEF FirstIndex
<1>2. CASE d \in Elems(a)
  <2>1. Len(a) \in Nat /\ q + 1 \in 1 .. Len(a) /\ a[q + 1] = d /\ \A j \in 1 .. q : a[j] # d
    BY <1>2 DEF IsIndex
  <2>2. First(q + 1)
    <3>1. q + 1 - 1 = q
      OBVIOUS
    <3>. QED  BY <2>1, <3>1
  <2>3. ASSUME NEW i \in 1 .. Len(a), First(i) PROVE i = q + 1
    <3>1. CASE i < q + 1
      <4>1. i \in 1 .. q
        BY <3>1
      <4>. QED  BY <2>1, <2>3, <4>1
    <3>2. CASE q + 1 < i
      <4>1. q + 1 \in 1 .. i - 1
        BY <2>1, <3>2
      <4>. QED  BY <2>1, <2>3, <4>1
    <3>. QED  BY <3>1, <3>2
  <2>4. c \in 1 .. Len(a) /\ First(c)
    BY <2>1, <2>2
  <2>5. FirstIndex(a, d) = c - 1
    BY <1>2 DEF FirstIndex
  <2> HIDE DEF c, First
  <2>6. c = q + 1
    BY <2>3, <2>4
  <2>. QED  BY <2>5, <2>6
<1>. QED  BY <1>1, <1>2

LEMMA SStepImplements ==
    ASSUME NEW a \in Seq(Data), NEW b \in Seq(Data), S!Contents = a, S!Contents' = b,
           SeqStep(a, b, s_ret')
    PROVE  S!AsSequence!Next
<1> DEFINE q == s_ret'
<1>0. Len(a) \in Nat /\ DOMAIN a = 1 .. Len(a) /\ DOMAIN b = 1 .. Len(b) /\ S!AsSequence!Elements = Elems(a)
  BY DEF S!AsSequence!Elements, S!AsSequence!Range, Elems
<1>1. CASE b = a /\ Asks(a, q)
  <2>1. \A r : q = r => S!AsSequence!Ask(r)
    BY <1>1 DEF S!AsSequence!Ask
  <2>2. CASE q \in {Null, 0}
    BY <2>1, <2>2 DEF S!AsSequence!Next
  <2>3. CASE q \in Elems(a)
    BY <1>0, <2>1, <2>3 DEF S!AsSequence!Next
  <2>4. CASE \E d \in Data : q \in Int /\ IsIndex(a, d, q)
    <3>1. PICK d \in Data : q \in Int /\ IsIndex(a, d, q)
      BY <2>4
    <3>2. S!AsSequence!IndexOf(d) = FirstIndex(a, d)
      BY <1>0 DEF S!AsSequence!IndexOf, FirstIndex
    <3>3. q = S!AsSequence!IndexOf(d)
      BY <3>1, <3>2, IndexUnique
    <3>. QED  BY <2>1, <3>3 DEF S!AsSequence!Next
  <2>. QED  BY <1>1, <2>2, <2>3, <2>4 DEF Asks
<1>2. CASE Inserts(a, b, q)
  <2>1. PICK d \in Data, k \in 1 .. Len(a) + 1 : Placed(a, k, d, b)
    BY <1>2 DEF Inserts
  <2>2. b = InsertAt(a, k, d)
    BY <2>1, InsertPlaces, PlacedUnique
  <2>3. S!AsSequence!Insert(k, d)
    BY <1>2, <2>2 DEF S!AsSequence!Insert, S!AsSequence!InsertAt, InsertAt, Inserts
  <2>. QED  BY <2>3 DEF S!AsSequence!Next
<1>3. CASE Removes(a, b, q)
  <2>0. PICK k \in 1 .. Len(a) : \E n \in 0 .. Len(a) + 1 - k : Cut(a, k, n, b)
    BY <1>3 DEF Removes
  <2>1. PICK n \in 0 .. Len(a) + 1 - k : Cut(a, k, n, b)
    BY <2>0
  <2>2. b = SubSeq(a, 1, k - 1) \o SubSeq(a, k + n, Len(a))
    BY <2>1, CutIs
  <2>3. S!AsSequence!RemoveRange(k, n)
    BY <1>3, <2>2 DEF S!AsSequence!RemoveRange, Removes
  <2>. QED  BY <1>0, <2>3 DEF S!AsSequence!Next
<1>4. CASE RemovesData(a, b, q)
  <2>1. PICK d \in Data : q = Copies(a, d) /\ b = Kept(a, Data \ {d})
    BY <1>4 DEF RemovesData
  <2>2. S!AsSequence!Count(a, d) = Copies(a, d)
    BY <1>0, Zenon DEF S!AsSequence!Count, S!AsSequence!Cardinality, Copies, Places, Cardinality
  <2>3. S!AsSequence!Kept(a, Data \ {d}) = Kept(a, Data \ {d})
    BY Zenon DEF S!AsSequence!Kept, Kept
  <2>4. S!AsSequence!RemoveData(d)
    BY <2>1, <2>2, <2>3 DEF S!AsSequence!RemoveData
  <2>. QED  BY <2>4 DEF S!AsSequence!Next
<1>5. CASE TakesFirst(a, b, q)
  <2>1. b = Tail(a) /\ q = Head(a) /\ a # <<>>
    BY <1>5, EndsCut DEF TakesFirst
  <2>2. S!AsSequence!TakeFirst
    BY <2>1 DEF S!AsSequence!TakeFirst
  <2>. QED  BY <2>2 DEF S!AsSequence!Next
<1>6. CASE TakesLast(a, b, q)
  <2>1. b = SubSeq(a, 1, Len(a) - 1) /\ q = a[Len(a)] /\ a # <<>>
    BY <1>6, EndsCut DEF TakesLast
  <2>2. S!AsSequence!TakeLast
    BY <2>1 DEF S!AsSequence!TakeLast, S!AsSequence!Last, S!AsSequence!Front
  <2>. QED  BY <2>2 DEF S!AsSequence!Next
<1>7. CASE Orders(a, b, q)
  <2>1. \A s \in {a, b} : \A d : S!AsSequence!Count(s, d) = Copies(s, d)
    BY <1>0, Zenon DEF S!AsSequence!Count, S!AsSequence!Cardinality, Copies, Places, Cardinality
  <2>2. S!AsSequence!Sort
    BY <1>0, <1>7, <2>1 DEF S!AsSequence!Sort, Orders
  <2>. QED  BY <2>2 DEF S!AsSequence!Next
<1>8. CASE b = <<>> /\ q = Null
  BY <1>8 DEF S!AsSequence!Next, S!AsSequence!Clear
<1>. QED  BY <1>1, <1>2, <1>3, <1>4, <1>5, <1>6, <1>7, <1>8 DEF SeqStep

-----------------------------------------------------------------------------
(* The calls of the singly-linked list.                                    *)

\* As IterAt: an entry the iterator is left at may have been freed.
SIterAt(it, td, w, k) ==
    /\ it.prev_next = IF k = 0 THEN ListPtr ELSE w[k]
    /\ \/ k < Len(w) /\ it.current = w[k + 1] /\ IsRest(Entries, w, k + 1, td)
       \/ it.current \in {Null} \cup (Entries \ Elems(w)) /\ IsRest(Entries, w, k, td)

SIter(it, td, w) ==
    it # Null =>
        /\ it = [prev_next |-> it.prev_next, current |-> it.current]
        /\ \E k \in 0 .. Len(w) : SIterAt(it, td, w, k)

SState(w) == SLinked(s_nxt, s_data, w) /\ SIter(s_iter, s_todo, w)

\* A call leaves a list, and what it did is a step of the sequence.
SGoes(w) == \E t : SState(t)' /\ SeqStep(Values(s_data, w), Values(s_data', t), s_ret')

LEMMA RestAppended ==
    ASSUME NEW E, NEW w \in Seq(E), NEW n \in E, NEW t \in Seq(E), Placed(w, Len(w) + 1, n, t),
           NEW j \in 0 .. Len(w), NEW r, IsRest(E, w, j, r)
    PROVE  IsRest(E, t, j, Append(r, n))
<1> DEFINE u == Append(r, n)
           N == Len(w)
<1>1. /\ r \in Seq(E) /\ Len(r) = N - j /\ Len(r) \in Nat /\ N \in Nat
      /\ \A i \in 1 .. Len(r) : r[i] = w[j + i]
  BY DEF IsRest
<1>2. /\ u \in Seq(E) /\ Len(u) = Len(r) + 1 /\ u[Len(r) + 1] = n
      /\ \A i \in 1 .. Len(r) : u[i] = r[i]
  BY <1>1
<1> HIDE DEF u, N
<1>3. Len(t) = N + 1 /\ t[N + 1] = n /\ \A i \in 1 .. N : t[i] = w[i]
  <2>1. \A i \in 1 .. N : i < N + 1
    BY <1>1
  <2>. QED  BY <2>1 DEF Placed, N
<1>4. Len(u) = Len(t) - j /\ j + (Len(r) + 1) = N + 1
  BY <1>1, <1>2, <1>3 DEF N
<1>5. ASSUME NEW i \in 1 .. Len(u) PROVE u[i] = t[j + i]
  <2>1. CASE i = Len(r) + 1
    BY <1>2, <1>3, <1>4, <2>1
  <2>2. CASE i \in 1 .. Len(r)
    <3>1. j + i \in 1 .. N
      BY <1>1, <2>2 DEF N
    <3>. QED  BY <1>1, <1>2, <1>3, <2>2, <3>1
  <2>. QED  BY <1>1, <1>2, <2>1, <2>2
<1>. QED  BY <1>2, <1>4, <1>5 DEF IsRest, u

\* The two ways to insert, behind p, in the k-th place.
LEMMA SInsertAfter ==
    ASSUME NEW w, SLinked(s_nxt, s_data, w), NEW n \in Entries, NEW d \in Data,
           NEW k \in 1 .. Len(w) + 1, S!InsertAfter(PlaceBefore(w, k), n, d)
    PROVE  \E t \in Seq(Entries) :
              /\ Placed(w, k, n, t) /\ SLinked(s_nxt', s_data', t) /\ n \notin Elems(w)
              /\ SeqStep(Values(s_data, w), Values(s_data', t), s_ret')
<1> DEFINE t == InsertAt(w, k, n)
<1>1. w \in Seq(Entries) /\ DOMAIN s_data = Elems(w)
  BY SFacts
<1>2. t \in Seq(Entries) /\ Placed(w, k, n, t)
  BY <1>1, InsertPlaces
<1> HIDE DEF t
<1>3. /\ n \notin Elems(w) /\ s_ret' = 1
      /\ s_nxt' = NextWith(s_nxt, PlaceBefore(w, k), n) /\ s_data' = DataWith(s_data, n, d)
  BY <1>1 DEF S!InsertAfter, S!Allocated, NextWith, DataWith
<1>4. SLinked(s_nxt', s_data', t) /\ Placed(Values(s_data, w), k, d, Values(s_data', t))
  BY <1>2, <1>3, SInserted
<1>5. Len(Values(s_data, w)) = Len(w)
  BY SValues
<1>6. Inserts(Values(s_data, w), Values(s_data', t), s_ret')
  BY <1>3, <1>4, <1>5 DEF Inserts
<1>. QED  BY <1>2, <1>3, <1>4, <1>6 DEF SeqStep

LEMMA SPrepend ==
    ASSUME NEW w, SState(w), NEW n \in Entries, NEW d \in Data, S!slist_prepend(n, d)
    PROVE  SGoes(w)
<1>1. SLinked(s_nxt, s_data, w) /\ Len(w) \in Nat
  BY SFacts DEF SState
<1>2. S!InsertAfter(ListPtr, n, d) /\ s_iter' = Null
  BY DEF S!slist_prepend, S!EndIteration
<1>3. 1 \in 1 .. Len(w) + 1 /\ ListPtr = PlaceBefore(w, 1)
  BY <1>1 DEF PlaceBefore
<1>4. PICK t \in Seq(Entries) :
              /\ SLinked(s_nxt', s_data', t)
              /\ SeqStep(Values(s_data, w), Values(s_data', t), s_ret')
  BY <1>1, <1>2, <1>3, SInsertAfter
<1>5. SIter(s_iter', s_todo', t)
  BY <1>2 DEF SIter
<1>. QED  BY <1>4, <1>5 DEF SGoes, SState

LEMMA SAppend ==
    ASSUME NEW w, SState(w), NEW n \in Entries, NEW d \in Data, S!slist_append(n, d)
    PROVE  SGoes(w)
<1> DEFINE k == Len(w) + 1
           p == PlaceBefore(w, k)
<1>1. SLinked(s_nxt, s_data, w) /\ SIter(s_iter, s_todo, w) /\ Len(w) \in Nat /\ w \in Seq(Entries)
      /\ DOMAIN s_data = Elems(w)
  BY SFacts DEF SState
<1>2. S!InsertAfter(p, n, d) /\ k \in 1 .. Len(w) + 1
  <2>1. (IF S!Walk = <<>> THEN ListPtr ELSE S!Last(S!Walk)) = p
    <3>1. S!Walk = w
      BY <1>1, SWalks
    <3>2. (w = <<>> <=> k = 1) /\ k - 1 = Len(w)
      BY <1>1
    <3>. QED  BY <3>1, <3>2, SNames DEF PlaceBefore
  <2>. QED  BY <1>1, <2>1 DEF S!slist_append
<1>3. PICK t \in Seq(Entries) :
              /\ Placed(w, k, n, t) /\ SLinked(s_nxt', s_data', t) /\ n \notin Elems(w)
              /\ SeqStep(Values(s_data, w), Values(s_data', t), s_ret')
  <2> HIDE DEF k
  <2>. QED  BY <1>1, <1>2, SInsertAfter
<1>4. SIter(s_iter', s_todo', t)
  <2>1. CASE s_iter = Null \/ S!Dangling
    <3>1. s_iter' = Null
      BY <2>1 DEF S!slist_append, S!EndIteration
    <3>. QED  BY <3>1 DEF SIter
  <2>2. CASE ~ (s_iter = Null \/ S!Dangling)
    <3>1. s_iter' = s_iter /\ s_todo' = Append(s_todo, n) /\ s_iter # Null
      BY <2>2 DEF S!slist_append
    <3>2. s_iter.current \in Elems(w) \cup {Null}
      BY <1>1, <2>2 DEF S!Dangling, S!Allocated
    <3>3. s_iter = [prev_next |-> s_iter.prev_next, current |-> s_iter.current]
          /\ \E j \in 0 .. Len(w) : SIterAt(s_iter, s_todo, w, j)
      BY <1>1, <3>1 DEF SIter
    <3>4. PICK j \in 0 .. Len(w) : SIterAt(s_iter, s_todo, w, j)
      BY <3>3
    <3>5. Len(t) = Len(w) + 1 /\ \A i \in 1 .. Len(w) : t[i] = w[i]
      <4>1. \A i \in 1 .. Len(w) : i < Len(w) + 1
        BY <1>1
      <4>. QED  BY <1>3, <4>1 DEF Placed
    <3>6. j \in 0 .. Len(t) /\ s_iter.prev_next = IF j = 0 THEN ListPtr ELSE t[j]
      <4>1. j \in 0 .. Len(t) /\ (j # 0 => j \in 1 .. Len(w))
        BY <1>1, <3>5
      <4>. QED  BY <3>4, <3>5, <4>1 DEF SIterAt
    <3>7. CASE j < Len(w) /\ s_iter.current = w[j + 1] /\ IsRest(Entries, w, j + 1, s_todo)
      <4>1. j + 1 \in 0 .. Len(w) /\ j + 1 \in 1 .. Len(w) /\ j < Len(t)
        BY <1>1, <3>5, <3>7
      <4>2. IsRest(Entries, t, j + 1, Append(s_todo, n))
        BY <1>1, <1>3, <3>7, <4>1, RestAppended
      <4>3. SIterAt(s_iter', s_todo', t, j)
        BY <3>1, <3>5, <3>6, <3>7, <4>1, <4>2 DEF SIterAt
      <4>. QED  BY <3>1, <3>3, <3>6, <4>3 DEF SIter
    <3>8. CASE ~ (j < Len(w) /\ s_iter.current = w[j + 1] /\ IsRest(Entries, w, j + 1, s_todo))
      <4>1. s_iter.current = Null /\ IsRest(Entries, w, j, s_todo)
        BY <3>2, <3>4, <3>8 DEF SIterAt
      <4>2. IsRest(Entries, t, j, Append(s_todo, n))
        BY <1>1, <1>3, <4>1, RestAppended
      <4>3. SIterAt(s_iter', s_todo', t, j)
        BY <3>1, <3>6, <4>1, <4>2 DEF SIterAt
      <4>. QED  BY <3>1, <3>3, <3>6, <4>3 DEF SIter
    <3>. QED  BY <3>7, <3>8
  <2>. QED  BY <2>1, <2>2
<1>. QED  BY <1>3, <1>4 DEF SGoes, SState

\* Calls that change neither the list nor its values.
LEMMA SAsks ==
    ASSUME NEW w, SLinked(s_nxt, s_data, w), s_nxt' = s_nxt, s_data' = s_data,
           SIter(s_iter', s_todo', w),
           s_ret' \in {Null, 0} \/ \E i \in 1 .. Len(w) : s_ret' = s_data[w[i]]
    PROVE  SGoes(w)
<1> DEFINE a == Values(s_data, w)
<1>1. /\ a \in Seq(Data) /\ Len(a) = Len(w)
      /\ \A i \in 1 .. Len(w) : a[i] = s_data[w[i]]
  BY SValues
<1> HIDE DEF a
<1>2. Asks(a, s_ret')
  BY <1>1 DEF Asks, Elems
<1>3. SeqStep(a, a, s_ret')
  BY <1>2 DEF SeqStep
<1>. QED  BY <1>3 DEF SGoes, SState, a

LEMMA SFree ==
    ASSUME NEW w, SState(w), S!slist_free
    PROVE  SGoes(w)
<1>1. SLinked(s_nxt, s_data, w) /\ w \in Seq(Entries) /\ DOMAIN s_data = Elems(w) /\ S!Walk = w
  BY SFacts, SWalks DEF SState
<1>2. /\ s_nxt' = [n \in {ListPtr} |-> Null] /\ s_ret' = Null /\ s_iter' = Null
      /\ s_data' = [x \in Elems(w) \ Range(w) |-> s_data[x]]
  BY <1>1, SNames DEF S!slist_free, S!Allocated, S!EndIteration
<1>3. Range(w) = Elems(w)
  BY <1>1 DEF Range, Elems
<1> DEFINE t == <<>>
<1>4. t \in Seq(Entries) /\ Len(t) = 0 /\ Once(t) /\ Elems(t) = {}
  BY DEF Once, Elems
<1> HIDE DEF t
<1>5. SLinked(s_nxt', s_data', t)
  <2>1. s_data' \in [Elems(t) -> Data]
    BY <1>2, <1>3, <1>4
  <2>2. Chain(s_nxt', s_nxt'[ListPtr], t)
    BY <1>2, <1>4 DEF Chain, Entry
  <2>. QED  BY <1>2, <1>4, <2>1, <2>2 DEF SLinked
<1>6. Values(s_data', t) = <<>>
  BY <1>4 DEF Values
<1>7. SIter(s_iter', s_todo', t)
  BY <1>2 DEF SIter
<1>. QED  BY <1>2, <1>5, <1>6, <1>7 DEF SGoes, SState, SeqStep

LEMMA DropExists ==
    ASSUME NEW E, NEW w \in Seq(E), NEW k \in 1 .. Len(w)
    PROVE  \E t \in Seq(E) : Dropped(w, k, t)
<1> DEFINE N == Len(w) - 1
           t == [i \in 1 .. N |-> IF i < k THEN w[i] ELSE w[i + 1]]
<1>1. N \in Nat /\ \A i \in 1 .. N : i \in 1 .. Len(w) /\ i + 1 \in 1 .. Len(w)
  OBVIOUS
<1>2. t \in Seq(E) /\ Len(t) = N
  BY <1>1
<1>3. \A i \in 1 .. N : t[i] = IF i < k THEN w[i] ELSE w[i + 1]
  OBVIOUS
<1> HIDE DEF t
<1>. QED  BY <1>2, <1>3 DEF Dropped

\* The k-th entry is removed.
LEMMA SRemoved ==
    ASSUME NEW w, SLinked(s_nxt, s_data, w), NEW k \in 1 .. Len(w),
           S!Unlink(PlaceBefore(w, k), w[k]), s_ret' \in {1, Null}
    PROVE  \E t \in Seq(Entries) :
              /\ Dropped(w, k, t) /\ SLinked(s_nxt', s_data', t) /\ Elems(t) = Elems(w) \ {w[k]}
              /\ SeqStep(Values(s_data, w), Values(s_data', t), s_ret')
<1>1. w \in Seq(Entries) /\ Once(w) /\ DOMAIN s_data = Elems(w) /\ Len(w) \in Nat
  BY SFacts
<1>2. PICK t \in Seq(Entries) : Dropped(w, k, t)
  BY <1>1, DropExists
<1>3. /\ s_nxt' = NextWithout(s_nxt, PlaceBefore(w, k), w[k])
      /\ s_data' = DataWithout(s_data, w[k])
  BY SNames DEF S!Unlink, S!Allocated, NextWithout, DataWithout
<1>4. SLinked(s_nxt', s_data', t) /\ Dropped(Values(s_data, w), k, Values(s_data', t))
  BY <1>2, <1>3, SUnlinked
<1>5. Elems(t) = Elems(w) \ {w[k]}
  BY <1>1, <1>2, DroppedOnce
<1>6. Removes(Values(s_data, w), Values(s_data', t), s_ret')
  <2>1. Cut(Values(s_data, w), k, 1, Values(s_data', t))
    BY <1>4, DroppedIsCut
  <2>2. Len(Values(s_data, w)) = Len(w)
    BY SValues
  <2>3. 1 \in 0 .. Len(w) + 1 - k
    BY <1>1
  <2>. QED  BY <2>1, <2>2, <2>3 DEF Removes
<1>. QED  BY <1>2, <1>4, <1>5, <1>6 DEF SeqStep

LEMMA SPred ==
    ASSUME NEW w, SLinked(s_nxt, s_data, w), NEW k \in 1 .. Len(w)
    PROVE  S!Pred(w[k]) = PlaceBefore(w, k)
<1>1. /\ w \in Seq(Entries) /\ Once(w) /\ Len(w) \in Nat
      /\ s_nxt[ListPtr] = Entry(w, 1)
      /\ \A i \in 1 .. Len(w) : s_nxt[w[i]] = Entry(w, i + 1)
      /\ \A i \in 1 .. Len(w) : w[i] # Null /\ w[i] # ListPtr
  BY SFacts, ZenonT(60)
<1>2. S!Walk = w /\ S!Range(w) = Elems(w)
  BY <1>1, SWalks DEF S!Range, Elems
<1> DEFINE P == Elems(w) \cup {ListPtr}
           p == PlaceBefore(w, k)
<1>3. S!Pred(w[k]) = CHOOSE q \in P : s_nxt[q] = w[k]
  BY <1>2 DEF S!Pred
<1>4. p \in P /\ s_nxt[p] = w[k]
  <2>1. CASE k = 1
    BY <1>1, <2>1 DEF PlaceBefore, Entry
  <2>2. CASE k # 1
    <3>1. k - 1 \in 1 .. Len(w) /\ p = w[k - 1] /\ k - 1 + 1 = k
      BY <1>1, <2>2 DEF PlaceBefore
    <3>. QED  BY <1>1, <3>1 DEF Entry, Elems
  <2>. QED  BY <2>1, <2>2
<1>5. ASSUME NEW q \in P, s_nxt[q] = w[k] PROVE q = p
  <2>1. CASE q = ListPtr
    <3>1. Entry(w, 1) = w[k] /\ w[k] # Null
      BY <1>1, <1>5, <2>1
    <3>2. 1 \in 1 .. Len(w) /\ w[1] = w[k]
      BY <3>1 DEF Entry
    <3>3. k = 1
      BY <1>1, <3>2 DEF Once
    <3>. QED  BY <2>1, <3>3 DEF PlaceBefore
  <2>2. CASE q \in Elems(w)
    <3>1. PICK i \in 1 .. Len(w) : q = w[i]
      BY <2>2 DEF Elems
    <3>2. Entry(w, i + 1) = w[k] /\ w[k] # Null
      BY <1>1, <1>5, <3>1
    <3>3. i + 1 \in 1 .. Len(w) /\ w[i + 1] = w[k]
      BY <3>2 DEF Entry
    <3>4. i + 1 = k
      BY <1>1, <3>3 DEF Once
    <3>5. k # 1 /\ k - 1 = i
      BY <1>1, <3>4
    <3>. QED  BY <3>1, <3>5 DEF PlaceBefore
  <2>. QED  BY <2>1, <2>2
<1> HIDE DEF P, p
<1>6. (CHOOSE q \in P : s_nxt[q] = w[k]) = p
  BY <1>4, <1>5
<1>. QED  BY <1>3, <1>6 DEF p

\* The rest of the iteration when its entry, the one behind the k-th, is removed.
LEMMA SIterDropped ==
    ASSUME NEW w \in Seq(Entries), NEW k \in 0 .. Len(w), k < Len(w), NEW t \in Seq(Entries),
           Dropped(w, k + 1, t), Elems(t) = Elems(w) \ {w[k + 1]}, NEW td, IsRest(Entries, w, k + 1, td),
           NEW it, it.prev_next = (IF k = 0 THEN ListPtr ELSE w[k]),
           it = [prev_next |-> it.prev_next, current |-> it.current],
           it.current \in {Null, w[k + 1]}
    PROVE  SIter(it, td, t)
<1>1. /\ Len(w) \in Nat /\ k \in Nat /\ Len(t) = Len(w) - 1 /\ w[k + 1] \in Entries
      /\ \A i \in 1 .. Len(t) : t[i] = IF i < k + 1 THEN w[i] ELSE w[i + 1]
  BY DEF Dropped
<1>2. k \in 0 .. Len(t) /\ it.prev_next = IF k = 0 THEN ListPtr ELSE t[k]
  <2>1. k \in 0 .. Len(t) /\ (k # 0 => k \in 1 .. Len(t) /\ k < k + 1)
    BY <1>1
  <2>. QED  BY <1>1, <2>1
<1>3. IsRest(Entries, t, k, td)
  BY <1>1, RestDropped
<1>4. it.current \in {Null} \cup (Entries \ Elems(t))
  BY <1>1
<1>5. SIterAt(it, td, t, k)
  BY <1>2, <1>3, <1>4 DEF SIterAt
<1>. QED  BY <1>2, <1>5 DEF SIter

LEMMA SRemoveEntry ==
    ASSUME NEW w, SState(w), NEW e \in Entries \cup {Null}, S!slist_remove_entry(e)
    PROVE  SGoes(w)
<1>1. /\ SLinked(s_nxt, s_data, w) /\ SIter(s_iter, s_todo, w)
      /\ w \in Seq(Entries) /\ Once(w) /\ Len(w) \in Nat
      /\ \A i \in 1 .. Len(w) : w[i] # Null /\ w[i] \in Elems(w)
  BY SFacts DEF SState
<1>2. S!Walk = w /\ S!Range(w) = Elems(w)
  BY <1>1, SWalks DEF S!Range, Elems
<1>3. CASE e \notin Elems(w)
  <2>1. s_ret' = 0 /\ UNCHANGED <<s_nxt, s_data, s_iter, s_todo>>
    BY <1>2, <1>3 DEF S!slist_remove_entry
  <2>. QED  BY <1>1, <2>1, SAsks
<1>4. CASE e \in Elems(w)
  <2>1. PICK k \in 1 .. Len(w) : e = w[k]
    BY <1>4 DEF Elems
  <2>2. /\ S!Unlink(PlaceBefore(w, k), w[k]) /\ s_ret' = 1
        /\ IF s_iter # Null /\ s_iter.current = e THEN UNCHANGED <<s_iter, s_todo>> ELSE s_iter' = Null
    BY <1>1, <1>2, <1>4, <2>1, SPred DEF S!slist_remove_entry, S!EndIteration
  <2>3. PICK t \in Seq(Entries) :
              /\ Dropped(w, k, t) /\ SLinked(s_nxt', s_data', t) /\ Elems(t) = Elems(w) \ {w[k]}
              /\ SeqStep(Values(s_data, w), Values(s_data', t), s_ret')
    BY <1>1, <2>2, SRemoved
  <2>4. SIter(s_iter', s_todo', t)
    <3>1. CASE s_iter # Null /\ s_iter.current = e
      <4>1. /\ s_iter' = s_iter /\ s_todo' = s_todo
            /\ s_iter = [prev_next |-> s_iter.prev_next, current |-> s_iter.current]
        BY <1>1, <2>2, <3>1 DEF SIter
      <4>2. PICK j \in 0 .. Len(w) : SIterAt(s_iter, s_todo, w, j)
        BY <1>1, <3>1 DEF SIter
      <4>3. /\ j < Len(w) /\ e = w[j + 1] /\ IsRest(Entries, w, j + 1, s_todo)
            /\ s_iter.prev_next = IF j = 0 THEN ListPtr ELSE w[j]
        BY <1>1, <1>4, <2>1, <3>1, <4>2 DEF SIterAt
      <4>4. k = j + 1
        <5>1. j + 1 \in 1 .. Len(w) /\ w[k] = w[j + 1]
          BY <1>1, <2>1, <4>3
        <5>. QED  BY <1>1, <5>1 DEF Once
      <4>5. SIter(s_iter, s_todo, t)
        BY <1>1, <2>1, <2>3, <3>1, <4>1, <4>3, <4>4, SIterDropped
      <4>. QED  BY <4>1, <4>5
    <3>2. CASE ~ (s_iter # Null /\ s_iter.current = e)
      BY <2>2, <3>2 DEF SIter
    <3>. QED  BY <3>1, <3>2
  <2>. QED  BY <2>3, <2>4 DEF SGoes, SState
<1>. QED  BY <1>3, <1>4

LEMMA SIterate ==
    ASSUME NEW w, SState(w), S!slist_iterate
    PROVE  SGoes(w)
<1>1. SLinked(s_nxt, s_data, w) /\ S!Walk = w /\ w \in Seq(Entries) /\ Len(w) \in Nat
  BY SWalks, SFacts DEF SState
<1>2. /\ s_iter' = [prev_next |-> ListPtr, current |-> Null] /\ s_todo' = w /\ s_ret' = Null
      /\ s_nxt' = s_nxt /\ s_data' = s_data
  BY <1>1 DEF S!slist_iterate
<1>3. IsRest(Entries, w, 0, w) /\ 0 \in 0 .. Len(w)
  BY <1>1 DEF IsRest
<1>4. SIterAt(s_iter', s_todo', w, 0)
  BY <1>2, <1>3 DEF SIterAt
<1>5. SIter(s_iter', s_todo', w)
  BY <1>2, <1>3, <1>4 DEF SIter
<1>. QED  BY <1>1, <1>2, <1>5, SAsks

LEMMA SNth ==
    ASSUME NEW w, SState(w), NEW n \in Int, S!slist_nth_data(n)
    PROVE  SGoes(w)
<1>1. SLinked(s_nxt, s_data, w) /\ SIter(s_iter, s_todo, w) /\ S!Walk = w /\ DOMAIN w = 1 .. Len(w)
  BY SWalks, SFacts DEF SState
<1>2. /\ s_ret' = IF n + 1 \in 1 .. Len(w) THEN s_data[w[n + 1]] ELSE Null
      /\ UNCHANGED <<s_nxt, s_data, s_iter, s_todo>>
  BY <1>1 DEF S!slist_nth_data
<1>. QED  BY <1>1, <1>2, SAsks

\* Where the iterator is, m entries being behind it, and what follows.
LEMMA SIterFacts ==
    ASSUME NEW w, SState(w), s_iter # Null
    PROVE  /\ s_iter = [prev_next |-> s_iter.prev_next, current |-> s_iter.current]
           /\ \E k \in 0 .. Len(w), m \in 0 .. Len(w) :
                /\ s_iter.prev_next = IF k = 0 THEN ListPtr ELSE w[k]
                /\ S!AtGap => m = k
                /\ ~ S!AtGap => m = k + 1 /\ s_iter.current = w[m]
                /\ S!NextEntry = Entry(w, m + 1) /\ IsRest(Entries, w, m, s_todo)
<1>1. PICK k \in 0 .. Len(w) : SIterAt(s_iter, s_todo, w, k)
  BY DEF SState, SIter
<1>2. /\ w \in Seq(Entries) /\ Once(w) /\ Len(w) \in Nat
      /\ s_nxt[ListPtr] = Entry(w, 1)
      /\ \A i \in 1 .. Len(w) : s_nxt[w[i]] = Entry(w, i + 1)
      /\ \A i \in 1 .. Len(w) : w[i] # Null /\ w[i] \in Elems(w)
  BY SFacts, ZenonT(60) DEF SState
<1>3. s_iter.prev_next = IF k = 0 THEN ListPtr ELSE w[k]
  BY <1>1 DEF SIterAt
<1>4. s_nxt[s_iter.prev_next] = Entry(w, k + 1)
  <2>1. k = 0 \/ k \in 1 .. Len(w)
    BY <1>2
  <2>. QED  BY <1>2, <1>3, <2>1
<1>5. CASE k < Len(w) /\ s_iter.current = w[k + 1] /\ IsRest(Entries, w, k + 1, s_todo)
  <2>1. k + 1 \in 1 .. Len(w) /\ k + 1 \in 0 .. Len(w)
    BY <1>2, <1>5
  <2>2. Entry(w, k + 1) = w[k + 1] /\ w[k + 1] # Null
    BY <1>2, <2>1 DEF Entry
  <2>3. ~ S!AtGap
    BY <1>4, <1>5, <2>2 DEF S!AtGap
  <2>4. S!NextEntry = Entry(w, (k + 1) + 1)
    BY <1>2, <1>5, <2>1, <2>3 DEF S!NextEntry
  <2>. QED  BY <1>3, <1>5, <2>1, <2>3, <2>4 DEF SState, SIter
<1>6. CASE /\ s_iter.current \in {Null} \cup (Entries \ Elems(w))
           /\ IsRest(Entries, w, k, s_todo)
  <2>1. S!AtGap
    <3>1. Entry(w, k + 1) = Null \/ Entry(w, k + 1) \in Elems(w)
      BY DEF Entry, Elems
    <3>2. s_iter.current = Null \/ s_iter.current # Entry(w, k + 1)
      BY <1>6, <3>1
    <3>. QED  BY <1>4, <3>2 DEF S!AtGap
  <2>2. S!NextEntry = Entry(w, k + 1)
    BY <1>4, <2>1 DEF S!NextEntry
  <2>. QED  BY <1>3, <1>6, <2>1, <2>2 DEF SState, SIter
<1>. QED  BY <1>1, <1>5, <1>6 DEF SIterAt

LEMMA SIterExact ==
    ASSUME NEW w, SState(w)
    PROVE  S!IterationExact
<1> SUFFICES ASSUME s_iter # Null
             PROVE  S!NextEntry = IF s_todo = <<>> THEN Null ELSE s_todo[1]
  BY DEF S!IterationExact
<1>1. PICK m \in 0 .. Len(w) : S!NextEntry = Entry(w, m + 1) /\ IsRest(Entries, w, m, s_todo)
  BY SIterFacts
<1>2. Len(w) \in Nat
  BY SFacts DEF SState
<1>3. /\ s_todo \in Seq(Entries) /\ Len(s_todo) = Len(w) - m
      /\ \A i \in 1 .. Len(s_todo) : s_todo[i] = w[m + i]
  BY <1>1 DEF IsRest
<1>4. CASE m = Len(w)
  <2>1. Len(s_todo) = 0 /\ m + 1 \notin 1 .. Len(w)
    BY <1>2, <1>3, <1>4
  <2>2. s_todo = <<>>
    BY <1>3, <2>1
  <2>. QED  BY <1>1, <2>1, <2>2 DEF Entry
<1>5. CASE m # Len(w)
  <2>1. m + 1 \in 1 .. Len(w) /\ 1 \in 1 .. Len(s_todo) /\ Len(s_todo) # 0
    BY <1>2, <1>3, <1>5
  <2>2. s_todo # <<>> /\ s_todo[1] = w[m + 1]
    BY <1>3, <2>1
  <2>. QED  BY <1>1, <2>1, <2>2 DEF Entry
<1>. QED  BY <1>4, <1>5

LEMMA SIterNext ==
    ASSUME NEW w, SState(w), S!slist_iter_next
    PROVE  SGoes(w)
<1>1. /\ s_nxt' = s_nxt /\ s_data' = s_data /\ s_iter # Null
      /\ s_iter' = [prev_next |-> IF S!AtGap THEN s_iter.prev_next ELSE s_iter.current,
                    current   |-> S!NextEntry]
      /\ s_todo' = IF s_todo = <<>> THEN <<>> ELSE Tail(s_todo)
      /\ s_ret' = IF S!NextEntry = Null THEN Null ELSE s_data[S!NextEntry]
  BY DEF S!slist_iter_next, S!PrevNext
<1>2. PICK k \in 0 .. Len(w), m \in 0 .. Len(w) :
                /\ s_iter.prev_next = IF k = 0 THEN ListPtr ELSE w[k]
                /\ S!AtGap => m = k
                /\ ~ S!AtGap => m = k + 1 /\ s_iter.current = w[m]
                /\ S!NextEntry = Entry(w, m + 1) /\ IsRest(Entries, w, m, s_todo)
  BY <1>1, SIterFacts
<1>3. SLinked(s_nxt, s_data, w) /\ Len(w) \in Nat /\ w \in Seq(Entries)
  BY SFacts DEF SState
<1>4. /\ s_todo \in Seq(Entries) /\ Len(s_todo) = Len(w) - m
      /\ \A i \in 1 .. Len(s_todo) : s_todo[i] = w[m + i]
  <2>1. IsRest(Entries, w, m, s_todo)
    BY <1>2
  <2>. QED  BY <2>1 DEF IsRest
<1>5. s_iter'.prev_next = IF m = 0 THEN ListPtr ELSE w[m]
  <2>1. CASE S!AtGap
    <3>1. s_iter'.prev_next = s_iter.prev_next /\ m = k
      BY <1>1, <1>2, <2>1
    <3>. QED  BY <1>2, <3>1
  <2>2. CASE ~ S!AtGap
    <3>1. s_iter'.prev_next = s_iter.current /\ m = k + 1 /\ s_iter.current = w[m]
      BY <1>1, <1>2, <2>2
    <3>. QED  BY <1>3, <3>1
  <2>. QED  BY <2>1, <2>2
<1>6. s_iter' = [prev_next |-> s_iter'.prev_next, current |-> s_iter'.current]
      /\ s_iter'.current = Entry(w, m + 1)
  BY <1>1, <1>2
<1>7. CASE m = Len(w)
  <2>1. Len(s_todo) = 0 /\ m + 1 \notin 1 .. Len(w)
    BY <1>3, <1>4, <1>7
  <2>2. s_todo' = s_todo
    BY <1>1, <1>4, <2>1
  <2>3. s_iter'.current = Null /\ s_ret' = Null
    BY <1>1, <1>2, <1>6, <2>1 DEF Entry
  <2>4. SIterAt(s_iter', s_todo', w, m)
    BY <1>2, <1>5, <2>2, <2>3 DEF SIterAt
  <2>5. SIter(s_iter', s_todo', w)
    BY <1>6, <2>4 DEF SIter
  <2>. QED  BY <1>1, <1>3, <2>3, <2>5, SAsks
<1>8. CASE m # Len(w)
  <2>0. Len(s_todo) = Len(w) - m /\ Len(w) \in Nat
    BY <1>3, <1>4
  <2>1. m + 1 \in 1 .. Len(w) /\ m < Len(w) /\ Len(s_todo) # 0 /\ Len(s_todo) \in Nat
    BY <1>8, <2>0
  <2>2. s_todo' = Tail(s_todo) /\ s_todo # <<>>
    BY <1>1, <1>4, <2>1
  <2>3. /\ Tail(s_todo) \in Seq(Entries) /\ Len(Tail(s_todo)) = Len(s_todo) - 1
        /\ \A i \in 1 .. Len(s_todo) - 1 : Tail(s_todo)[i] = s_todo[i + 1]
    BY <1>4, <2>2
  <2>4. IsRest(Entries, w, m + 1, s_todo')
    <3>1. Len(s_todo') = Len(w) - (m + 1)
      BY <1>3, <1>4, <2>2, <2>3
    <3>2. ASSUME NEW i \in 1 .. Len(s_todo') PROVE s_todo'[i] = w[m + 1 + i]
      <4>1. i \in 1 .. Len(s_todo) - 1 /\ i + 1 \in 1 .. Len(s_todo) /\ m + (i + 1) = m + 1 + i
        BY <1>4, <2>1, <2>2, <2>3
      <4>. QED  BY <1>4, <2>2, <2>3, <4>1
    <3>. QED  BY <2>2, <2>3, <3>1, <3>2 DEF IsRest
  <2>5. s_iter'.current = w[m + 1] /\ S!NextEntry = w[m + 1]
    BY <1>2, <1>6, <2>1 DEF Entry
  <2>6. SIterAt(s_iter', s_todo', w, m)
    BY <1>5, <2>1, <2>4, <2>5 DEF SIterAt
  <2>7. SIter(s_iter', s_todo', w)
    BY <1>6, <2>6 DEF SIter
  <2>8. \E i \in 1 .. Len(w) : s_ret' = s_data[w[i]]
    <3>1. w[m + 1] # Null
      BY <1>3, <2>1, SFacts
    <3>. QED  BY <1>1, <2>1, <2>5, <3>1
  <2>. QED  BY <1>1, <1>3, <2>7, <2>8, SAsks
<1>. QED  BY <1>7, <1>8

LEMMA SIterRemove ==
    ASSUME NEW w, SState(w), S!slist_iter_remove
    PROVE  SGoes(w)
<1>0. SLinked(s_nxt, s_data, w) /\ SIter(s_iter, s_todo, w) /\ Len(w) \in Nat /\ w \in Seq(Entries)
  BY SFacts DEF SState
<1>1. CASE S!AtGap
  <2>1. UNCHANGED <<s_nxt, s_data, s_iter, s_todo>> /\ s_ret' = Null
    BY <1>1 DEF S!slist_iter_remove
  <2>. QED  BY <1>0, <2>1, SAsks
<1>2. CASE ~ S!AtGap
  <2>1. /\ S!Unlink(s_iter.prev_next, s_iter.current) /\ s_ret' = Null /\ s_iter # Null
        /\ s_iter' = [s_iter EXCEPT !.current = Null] /\ s_todo' = s_todo
    BY <1>2 DEF S!slist_iter_remove
  <2>2. PICK k \in 0 .. Len(w), m \in 0 .. Len(w) :
                /\ s_iter.prev_next = IF k = 0 THEN ListPtr ELSE w[k]
                /\ S!AtGap => m = k
                /\ ~ S!AtGap => m = k + 1 /\ s_iter.current = w[m]
                /\ S!NextEntry = Entry(w, m + 1) /\ IsRest(Entries, w, m, s_todo)
    BY <2>1, SIterFacts
  <2>3. m = k + 1 /\ s_iter.current = w[m] /\ IsRest(Entries, w, m, s_todo)
    BY <1>2, <2>2
  <2>4. m \in 1 .. Len(w) /\ m - 1 = k /\ k < Len(w) /\ (m = 1 <=> k = 0)
    BY <1>0, <2>3
  <2>5. s_iter.prev_next = PlaceBefore(w, m)
    BY <2>2, <2>4 DEF PlaceBefore
  <2>6. PICK t \in Seq(Entries) :
              /\ Dropped(w, m, t) /\ SLinked(s_nxt', s_data', t) /\ Elems(t) = Elems(w) \ {w[m]}
              /\ SeqStep(Values(s_data, w), Values(s_data', t), s_ret')
    BY <1>0, <2>1, <2>3, <2>4, <2>5, SRemoved
  <2>7. /\ s_iter' = [prev_next |-> s_iter'.prev_next, current |-> s_iter'.current]
        /\ s_iter'.prev_next = (IF k = 0 THEN ListPtr ELSE w[k]) /\ s_iter'.current \in {Null, w[k + 1]}
    <3>1. s_iter = [prev_next |-> s_iter.prev_next, current |-> s_iter.current]
      BY <2>1, SIterFacts
    <3>2. s_iter' = [prev_next |-> s_iter.prev_next, current |-> Null]
      BY <2>1, <3>1
    <3>. QED  BY <2>2, <3>2
  <2>8. SIter(s_iter', s_todo', t)
    BY <1>0, <2>1, <2>3, <2>4, <2>6, <2>7, SIterDropped
  <2>. QED  BY <2>6, <2>8 DEF SGoes, SState
<1>. QED  BY <1>1, <1>2

\* The next pointers of the entries D that run through t.
NextAlong(D, t) ==
    LET s == <<ListPtr>> \o t
    IN [m \in D |-> LET i == CHOOSE i \in DOMAIN s : s[i] = m
                    IN IF i < Len(s) THEN s[i + 1] ELSE Null]

LEMMA NextAlongLinks ==
    ASSUME NEW t \in Seq(Entries), Once(t), NEW da \in [Elems(t) -> Data]
    PROVE  SLinked(NextAlong(Elems(t) \cup {ListPtr}, t), da, t)
<1> DEFINE D == Elems(t) \cup {ListPtr}
           s == <<ListPtr>> \o t
           At(m) == CHOOSE i \in DOMAIN s : s[i] = m
           After(i) == IF i < Len(s) THEN s[i + 1] ELSE Null
           nx == NextAlong(D, t)
<1>1. /\ Len(t) \in Nat /\ Len(s) = Len(t) + 1 /\ DOMAIN s = 1 .. Len(t) + 1
      /\ s[1] = ListPtr /\ \A i \in 1 .. Len(t) : s[i + 1] = t[i]
  <2>1. <<ListPtr>> \in Seq(Entries \cup {ListPtr}) /\ t \in Seq(Entries \cup {ListPtr})
        /\ Len(<<ListPtr>>) = 1 /\ <<ListPtr>>[1] = ListPtr
    OBVIOUS
  <2>2. /\ Len(s) = 1 + Len(t) /\ s \in Seq(Entries \cup {ListPtr}) /\ s[1] = ListPtr
        /\ \A i \in 1 .. Len(t) : s[1 + i] = t[i]
    BY <2>1
  <2> HIDE DEF s
  <2>. QED  BY <2>2
<1>2. nx = [m \in D |-> After(At(m))]
  BY Zenon DEF NextAlong
<1> HIDE DEF s, nx
<1>3. \A i \in 1 .. Len(t) : t[i] \in Entries /\ t[i] # ListPtr /\ t[i] \in Elems(t)
  BY SequencesAssumption DEF Elems
<1>4. ASSUME NEW i \in 1 .. Len(t) + 1, NEW j \in 1 .. Len(t) + 1, s[i] = s[j] PROVE i = j
  <2>1. \A m \in 1 .. Len(t) + 1 : m = 1 \/ (m - 1 \in 1 .. Len(t) /\ s[m] = t[m - 1])
    <3> SUFFICES ASSUME NEW m \in 1 .. Len(t) + 1, m # 1
                 PROVE  m - 1 \in 1 .. Len(t) /\ s[m] = t[m - 1]
      OBVIOUS
    <3>1. m - 1 \in 1 .. Len(t) /\ m - 1 + 1 = m
      BY <1>1
    <3>. QED  BY <1>1, <3>1
  <2>2. CASE i = 1 \/ j = 1
    BY <1>1, <1>3, <1>4, <2>1, <2>2
  <2>3. CASE i # 1 /\ j # 1
    <3>1. i - 1 \in 1 .. Len(t) /\ j - 1 \in 1 .. Len(t) /\ t[i - 1] = t[j - 1]
      BY <1>4, <2>1, <2>3
    <3>2. i - 1 = j - 1
      BY <3>1 DEF Once
    <3>. QED  BY <3>2
  <2>. QED  BY <2>2, <2>3
<1>5. \A i \in 1 .. Len(t) + 1 : At(s[i]) = i
  BY <1>1, <1>4
<1> HIDE DEF At
<1>6. \A i \in 1 .. Len(t) + 1 : After(i) = Entry(t, i)
  <2> SUFFICES ASSUME NEW i \in 1 .. Len(t) + 1 PROVE After(i) = Entry(t, i)
    OBVIOUS
  <2>1. i < Len(s) <=> i \in 1 .. Len(t)
    BY <1>1
  <2>. QED  BY <1>1, <2>1 DEF Entry
<1> HIDE DEF After
<1>7. nx[ListPtr] = Entry(t, 1)
  <2>1. At(ListPtr) = 1 /\ 1 \in 1 .. Len(t) + 1
    BY <1>1, <1>5
  <2>. QED  BY <1>2, <1>6, <2>1
<1>8. ASSUME NEW i \in 1 .. Len(t) PROVE nx[t[i]] = Entry(t, i + 1)
  <2>1. i + 1 \in 1 .. Len(t) + 1
    BY <1>1
  <2>2. At(t[i]) = i + 1
    BY <1>1, <1>5, <2>1
  <2>. QED  BY <1>2, <1>3, <1>6, <2>1, <2>2
<1>9. DOMAIN nx = D
  BY <1>2
<1>. QED  BY <1>7, <1>8, <1>9 DEF SLinked, Chain, nx

\* As many entries with the value d as the value has copies.
LEMMA SCount ==
    ASSUME NEW nx, NEW da, NEW w, SLinked(nx, da, w), NEW d
    PROVE  Cardinality({n \in Elems(w) : da[n] = d}) = Copies(Values(da, w), d)
<1> DEFINE a == Values(da, w)
           P == Places(a, d)
           T == {n \in Elems(w) : da[n] = d}
           p == [i \in P |-> w[i]]
<1>1. /\ a \in Seq(Data) /\ Len(a) = Len(w)
      /\ \A i \in 1 .. Len(w) : a[i] = da[w[i]]
  BY SValues
<1> HIDE DEF a
<1>2. \A i : i \in P <=> i \in 1 .. Len(w) /\ da[w[i]] = d
  BY <1>1 DEF Places
<1>3. p \in [P -> T]
  BY <1>2 DEF Elems
<1>4. \A i, j \in P : p[i] = p[j] => i = j
  BY <1>2 DEF Once, SLinked
<1>5. \A n \in T : \E i \in P : p[i] = n
  BY <1>2 DEF Elems
<1>6. IsFiniteSet(P)
  BY <1>1, CopiesNat
<1> HIDE DEF p, P, T
<1>7. p \in Bijection(P, T)
  BY <1>3, <1>4, <1>5 DEF Bijection, Injection, Surjection, IsInjective
<1>8. ExistsBijection(P, T)
  BY <1>7 DEF ExistsBijection
<1>9. Cardinality(T) = Cardinality(P)
  BY <1>6, <1>8, FS_Bijection
<1>. QED  BY <1>9 DEF a, P, T, Copies

LEMMA SRemoveData ==
    ASSUME NEW w, SState(w), NEW d \in Data, S!slist_remove_data(d)
    PROVE  SGoes(w)
<1> DEFINE X == {n \in Elems(w) : s_data[n] = d}
           K == Entries \ X
           t == Kept(w, K)
           a == Values(s_data, w)
           b == Values(s_data', t)
<1>1. /\ SLinked(s_nxt, s_data, w) /\ w \in Seq(Entries) /\ Once(w) /\ Len(w) \in Nat
      /\ DOMAIN s_nxt = Elems(w) \cup {ListPtr} /\ DOMAIN s_data = Elems(w) /\ S!Walk = w
      /\ s_data \in [Elems(w) -> Data] /\ Elems(w) \subseteq Entries
  <2>1. SLinked(s_nxt, s_data, w)
    BY DEF SState
  <2>2. w \in Seq(Entries)
    BY <2>1, SFacts
  <2>3. Elems(w) \subseteq Entries
    BY <2>2 DEF Elems
  <2>. QED  BY <2>1, <2>2, <2>3, SFacts, SWalks DEF SLinked
<1>2. S!Removed(d) = X
  <2>1. S!Range(w) = Elems(w)
    BY <1>1 DEF S!Range, Elems
  <2>. QED  BY <1>1, <2>1 DEF S!Removed
<1>3. /\ s_nxt' = NextAlong(DOMAIN s_nxt \ X, t) /\ s_data' = [x \in Elems(w) \ X |-> s_data[x]]
      /\ s_ret' = Cardinality(X) /\ s_iter' = Null
  <2>1. S!Kept(w, K) = t
    BY SNames
  <2>2. S!Allocated = Elems(w)
    BY <1>1 DEF S!Allocated
  <2> HIDE DEF X, K, t
  <2>3. S!Kept(S!Walk, Entries \ S!Removed(d)) = t
    BY <1>1, <1>2, <2>1 DEF K
  <2>4. s_nxt' = NextAlong((DOMAIN s_nxt) \ S!Removed(d), S!Kept(S!Walk, Entries \ S!Removed(d)))
    BY Zenon DEF S!slist_remove_data, NextAlong
  <2>5. /\ s_data' = S!Restrict(s_data, S!Allocated \ S!Removed(d))
        /\ s_ret' = S!Cardinality(S!Removed(d)) /\ s_iter' = Null
    BY DEF S!slist_remove_data, S!EndIteration
  <2>. QED  BY <1>2, <2>2, <2>3, <2>4, <2>5, SNames
<1>4. t \in Seq(Entries) /\ \A x : Copies(t, x) = IF x \in K THEN Copies(w, x) ELSE 0
  <2> HIDE DEF K
  <2>. QED  BY <1>1, KeptCopies
<1>5. Once(t)
  <2>1. \A x : Copies(w, x) <= 1
    BY <1>1, CopiesOnce
  <2>2. \A x : Copies(t, x) <= 1
    BY <1>4, <2>1
  <2> HIDE DEF t
  <2>. QED  BY <1>4, <2>2, CopiesOnce
<1>6. Elems(t) = Elems(w) \ X
  <2> SUFFICES ASSUME NEW x PROVE x \in Elems(t) <=> x \in Elems(w) \ X
    OBVIOUS
  <2> HIDE DEF t
  <2>1. (Copies(t, x) = 0 <=> x \notin Elems(t)) /\ (Copies(w, x) = 0 <=> x \notin Elems(w))
    BY <1>1, <1>4, CopiesNat
  <2>. QED  BY <1>1, <1>4, <2>1
<1>7. (DOMAIN s_nxt) \ X = Elems(t) \cup {ListPtr}
  <2>1. ListPtr \notin Elems(w)
    BY <1>1, SequencesAssumption
  <2>. QED  BY <1>1, <1>6, <2>1
<1>8. s_data' \in [Elems(t) -> Data] /\ \A x \in Elems(t) : s_data'[x] = s_data[x]
  <2> HIDE DEF X, t
  <2>. QED  BY <1>1, <1>3, <1>6
<1>9. SLinked(s_nxt', s_data', t)
  <2> HIDE DEF X, t
  <2>. QED  BY <1>3, <1>4, <1>5, <1>7, <1>8, NextAlongLinks
<1>10. s_ret' = Copies(a, d)
  BY <1>1, <1>3, SCount
<1>11. /\ a \in Seq(Data) /\ Len(a) = Len(w)
       /\ \A i \in 1 .. Len(w) : a[i] = s_data[w[i]] /\ s_data[w[i]] \in Data
  BY <1>1, SValues
<1>12. \A i \in 1 .. Len(w) : w[i] \in K <=> a[i] \in Data \ {d}
  <2> HIDE DEF a
  <2>1. \A i \in 1 .. Len(w) : w[i] \in Entries /\ w[i] \in Elems(w)
    BY <1>1 DEF Elems
  <2>. QED  BY <1>11, <2>1
<1> HIDE DEF X, K, a
<1> DEFINE T == Data \ {d}
           c == Kept(a, T)
<1> HIDE DEF T
<1>13. Len(c) = Len(t) /\ \A i \in 1 .. Len(t) : c[i] = s_data[t[i]]
  <2>1. w \in Seq(Entries) /\ a \in Seq(Data) /\ Len(a) = Len(w)
    BY <1>1, <1>11
  <2>2. \A i \in 1 .. Len(w) : a[i] = s_data[w[i]]
    BY <1>11
  <2>3. \A i \in 1 .. Len(w) : w[i] \in K <=> a[i] \in T
    BY <1>12 DEF T
  <2>4. /\ Len(Kept(a, T)) = Len(Kept(w, K))
        /\ \A i \in 1 .. Len(Kept(w, K)) : Kept(a, T)[i] = s_data[Kept(w, K)[i]]
    <3> HIDE DEF c, t
    <3>. QED  BY <2>1, <2>2, <2>3, KeptMapped, SMTT(30)
  <2>. QED  BY <2>4
<1>14. c \in Seq(Data)
  BY <1>11, KeptCopies
<1> HIDE DEF t, c
<1>15. b \in Seq(Data) /\ Len(b) = Len(t) /\ \A i \in 1 .. Len(t) : b[i] = s_data'[t[i]]
  BY <1>9, SValues
<1>16. \A i \in 1 .. Len(t) : t[i] \in Elems(t)
  BY DEF Elems
<1> HIDE DEF b
<1>17. \A i \in 1 .. Len(t) : b[i] = c[i]
  BY <1>8, <1>13, <1>15, <1>16
<1>18. b = c
  BY <1>13, <1>14, <1>15, <1>17
<1>19. SeqStep(a, b, s_ret')
  BY <1>10, <1>18 DEF SeqStep, RemovesData, c, T
<1>20. SIter(s_iter', s_todo', t)
  BY <1>3 DEF SIter
<1>. QED  BY <1>9, <1>19, <1>20 DEF SGoes, SState, a, b

LEMMA SSortedWalk ==
    ASSUME NEW w, SLinked(s_nxt, s_data, w)
    PROVE  SortedAs(Elems(w), s_data, S!Sorted(w), w)
<1> DEFINE N == Cardinality(Entries)
           E == Elems(w)
           sort == CHOOSE f : ListSorts(DOMAIN s_data, N, s_data, f)
<1>1. S!Sorted(w) = sort[w]
  <2> DEFINE Def(f) == f = [t \in S!BoundedSeq(DOMAIN s_data, S!Cardinality(Entries)) |->
            IF Len(t) < 2 THEN t
            ELSE f[S!Reverse(S!Kept(Tail(t), {n \in DOMAIN s_data : s_data[n] < s_data[t[1]]}))]
                 \o <<t[1]>>
                 \o f[S!Reverse(S!Kept(Tail(t), {n \in DOMAIN s_data : s_data[n] >= s_data[t[1]]}))]]
  <2>1. S!Sorted(w) = (CHOOSE f : Def(f))[w]
    BY Zenon DEF S!Sorted, S!Allocated
  <2>2. ASSUME NEW f PROVE Def(f) <=> ListSorts(DOMAIN s_data, N, s_data, f)
    BY SNames DEF ListSorts, Before, Behind
  <2> HIDE DEF Def
  <2>3. (CHOOSE f : Def(f)) = sort
    BY <2>2
  <2>. QED  BY <2>1, <2>3
<1>2. N \in Nat /\ w \in BoundedSeq(E, N) /\ DOMAIN s_data = E
  <2>1. w \in Seq(Entries) /\ Once(w) /\ DOMAIN s_data = E
    BY SFacts
  <2>2. Len(w) <= N /\ N \in Nat
    BY <2>1, OnceFits, SequencesAssumption
  <2>3. w \in Seq(E)
    BY <2>1 DEF Elems
  <2> HIDE DEF N, E
  <2>. QED  BY <2>1, <2>2, <2>3, BoundedSeqs
<1>3. \A e \in E : s_data[e] \in Int
  BY ListAssumption DEF SLinked
<1> HIDE DEF N, E
<1>4. /\ \E f : ListSorts(E, N, s_data, f)
      /\ \A f : ListSorts(E, N, s_data, f) =>
           \A t \in BoundedSeq(E, N) : SortedAs(E, s_data, f[t], t)
  BY <1>2, <1>3, ListSortCorrect
<1>5. ListSorts(E, N, s_data, sort)
  BY <1>2, <1>4
<1> HIDE DEF sort
<1>6. SortedAs(E, s_data, sort[w], w)
  BY <1>2, <1>4, <1>5
<1>. QED  BY <1>1, <1>6 DEF E

LEMMA SSort ==
    ASSUME NEW w, SState(w), S!slist_sort
    PROVE  SGoes(w)
<1> DEFINE t == S!Sorted(w)
           a == Values(s_data, w)
           b == Values(s_data', t)
<1>1. /\ SLinked(s_nxt, s_data, w) /\ w \in Seq(Entries) /\ Once(w) /\ S!Walk = w
      /\ DOMAIN s_nxt = Elems(w) \cup {ListPtr} /\ s_data \in [Elems(w) -> Data]
  BY SFacts, SWalks DEF SState, SLinked
<1>2. s_nxt' = NextAlong(DOMAIN s_nxt, S!Sorted(S!Walk))
  BY Zenon DEF S!slist_sort, NextAlong
<1>3. s_data' = s_data /\ s_ret' = Null /\ s_iter' = Null
  BY DEF S!slist_sort, S!EndIteration
<1>4. SortedAs(Elems(w), s_data, t, w)
  BY <1>1, SSortedWalk
<1>5. s_nxt' = NextAlong(Elems(w) \cup {ListPtr}, t)
  BY <1>1, <1>2
<1> HIDE DEF t
<1>6. /\ t \in Seq(Elems(w)) /\ Len(t) = Len(w) /\ InOrder(s_data, t)
      /\ \A x : Copies(t, x) = Copies(w, x)
  BY <1>4 DEF SortedAs
<1>7. t \in Seq(Entries) /\ Once(t)
  <2>1. Elems(w) \subseteq Entries
    BY <1>1 DEF Elems
  <2>2. t \in Seq(Entries)
    BY <1>6, <2>1
  <2>. QED  BY <1>1, <1>6, <2>2, CopiesOnce
<1>8. Elems(t) = Elems(w)
  <2>1. \A x : x \in Elems(t) <=> x \in Elems(w)
    BY <1>1, <1>6, <1>7, CopiesNat
  <2>. QED  BY <2>1
<1>9. SLinked(s_nxt', s_data', t)
  BY <1>1, <1>3, <1>5, <1>7, <1>8, NextAlongLinks
<1>10. /\ b \in Seq(Data) /\ Len(b) = Len(t) /\ \A i \in 1 .. Len(t) : b[i] = s_data[t[i]]
  BY <1>3, <1>9, SValues
<1>11. ASSUME NEW d \in Data PROVE Copies(b, d) = Copies(a, d)
  <2>1. Copies(a, d) = Cardinality({n \in Elems(w) : s_data[n] = d})
    BY <1>1, SCount
  <2>2. Copies(b, d) = Cardinality({n \in Elems(t) : s_data'[n] = d})
    BY <1>9, SCount
  <2>. QED  BY <1>3, <1>8, <2>1, <2>2
<1> HIDE DEF a, b
<1>12. \A i, j \in 1 .. Len(b) : i < j => b[i] <= b[j]
  BY <1>6, <1>10 DEF InOrder
<1>13. Orders(a, b, s_ret')
  BY <1>3, <1>11, <1>12 DEF Orders
<1>14. SIter(s_iter', s_todo', t)
  BY <1>3 DEF SIter
<1>. QED  BY <1>9, <1>13, <1>14 DEF SGoes, SState, SeqStep, a, b

LEMMA SNoMemory ==
    ASSUME NEW w, SState(w), S!slist_no_memory
    PROVE  SGoes(w)
<1>1. UNCHANGED <<s_nxt, s_data, s_iter, s_todo>> /\ s_ret' = 0
  BY DEF S!slist_no_memory
<1>. QED  BY <1>1, SAsks DEF SState

SInv == \E w : SState(w)

\* A call is a step of the sequence, and what is no call changes nothing.
LEMMA SStep ==
    SInv /\ [S!Next]_slist => SInv' /\ [S!AsSequence!Next]_(S!AsSequence!vars)
<1> SUFFICES ASSUME SInv, [S!Next]_slist
             PROVE  SInv' /\ [S!AsSequence!Next]_(S!AsSequence!vars)
  OBVIOUS
<1>1. PICK w : SState(w)
  BY DEF SInv
<1>2. CASE UNCHANGED slist
  <2>1. UNCHANGED <<s_nxt, s_data, s_iter, s_todo, s_ret>>
    BY <1>2 DEF slist
  <2>2. SState(w)'
    BY <1>1, <2>1 DEF SState
  <2>3. S!Contents' = S!Contents
    <3>1. SLinked(s_nxt, s_data, w) /\ SLinked(s_nxt', s_data', w)
      BY <1>1, <2>2 DEF SState
    <3>2. S!Contents = Values(s_data, w) /\ S!Contents' = Values(s_data', w)
      BY <3>1, SValues
    <3>. QED  BY <2>1, <3>2
  <2>. QED  BY <2>1, <2>2, <2>3 DEF SInv, S!AsSequence!vars
<1>3. CASE S!Next
  <2>1. SGoes(w)
    <3>1. CASE \E n \in Entries, d \in Data : S!slist_prepend(n, d)
      BY <1>1, <3>1, SPrepend
    <3>2. CASE \E n \in Entries, d \in Data : S!slist_append(n, d)
      BY <1>1, <3>2, SAppend
    <3>3. CASE S!slist_no_memory
      BY <1>1, <3>3, SNoMemory
    <3>4. CASE \E n \in Entries \cup {Null} : S!slist_remove_entry(n)
      BY <1>1, <3>4, SRemoveEntry
    <3>5. CASE \E d \in Data : S!slist_remove_data(d)
      BY <1>1, <3>5, SRemoveData
    <3>6. CASE S!slist_free
      BY <1>1, <3>6, SFree
    <3>7. CASE S!slist_sort
      BY <1>1, <3>7, SSort
    <3>8. CASE S!slist_iterate
      BY <1>1, <3>8, SIterate
    <3>9. CASE S!slist_iter_next
      BY <1>1, <3>9, SIterNext
    <3>10. CASE S!slist_iter_remove
      BY <1>1, <3>10, SIterRemove
    <3>11. CASE \E n \in -1 .. S!Cardinality(Entries) : S!slist_nth_data(n)
      <4>1. \A n \in -1 .. S!Cardinality(Entries) : n \in Int
        OBVIOUS
      <4>. QED  BY <1>1, <3>11, <4>1, SNth
    <3>. QED  BY <1>3, <3>1, <3>2, <3>3, <3>4, <3>5, <3>6, <3>7, <3>8, <3>9, <3>10, <3>11
              DEF S!Next
  <2>2. PICK t : SState(t)' /\ SeqStep(Values(s_data, w), Values(s_data', t), s_ret')
    BY <2>1 DEF SGoes
  <2>3. SLinked(s_nxt, s_data, w) /\ SLinked(s_nxt', s_data', t)
    BY <1>1, <2>2 DEF SState
  <2>4. /\ S!Contents = Values(s_data, w) /\ S!Contents' = Values(s_data', t)
        /\ Values(s_data, w) \in Seq(Data) /\ Values(s_data', t) \in Seq(Data)
    BY <2>3, SValues
  <2>5. S!AsSequence!Next
    BY <2>2, <2>4, SStepImplements
  <2>. QED  BY <2>2, <2>5 DEF SInv
<1>. QED  BY <1>2, <1>3

LEMMA SInit == S!Init => SInv /\ S!AsSequence!Init
<1> SUFFICES ASSUME S!Init PROVE SInv /\ S!AsSequence!Init
  OBVIOUS
<1> DEFINE t == <<>>
<1>1. /\ s_nxt = [n \in {ListPtr} |-> Null] /\ s_data = [n \in {} |-> Null]
      /\ s_iter = Null /\ s_ret = Null
  BY DEF S!Init
<1>2. t \in Seq(Entries) /\ Len(t) = 0 /\ Once(t) /\ Elems(t) = {}
  BY DEF Once, Elems
<1> HIDE DEF t
<1>3. SLinked(s_nxt, s_data, t)
  <2>1. s_data \in [Elems(t) -> Data]
    BY <1>1, <1>2
  <2>2. Chain(s_nxt, s_nxt[ListPtr], t)
    BY <1>1, <1>2 DEF Chain, Entry
  <2>. QED  BY <1>1, <1>2, <2>1, <2>2 DEF SLinked
<1>4. SIter(s_iter, s_todo, t)
  BY <1>1 DEF SIter
<1>5. S!Contents = <<>>
  <2>1. S!Contents = Values(s_data, t)
    BY <1>3, SValues
  <2>. QED  BY <1>2, <2>1 DEF Values
<1>. QED  BY <1>1, <1>3, <1>4, <1>5 DEF SInv, SState, S!AsSequence!Init

LEMMA SInvariant == MCSpec => []SInv
<1>1. MCInit => SInv
  BY SInit DEF MCInit
<1>2. SInv /\ [MCNext]_all => SInv'
  <2>1. [MCNext]_all => [S!Next]_slist
    BY DEF MCNext, all
  <2>. QED  BY <2>1, SStep
<1>. QED  BY <1>1, <1>2, PTL DEF MCSpec, all

LEMMA SImplements == MCSpec => S!ImplementsSequence
<1>1. MCInit => S!AsSequence!Init
  BY SInit DEF MCInit
<1>2. SInv /\ [MCNext]_all => [S!AsSequence!Next]_(S!AsSequence!vars)
  <2>1. [MCNext]_all => [S!Next]_slist
    BY DEF MCNext, all
  <2>. QED  BY <2>1, SStep
<1>. QED  BY <1>1, <1>2, SInvariant, PTL DEF MCSpec, all, S!ImplementsSequence, S!AsSequence!Spec

\* list.c and slist.c: an iteration returns every entry once and in order, those
\* appended meanwhile included, whatever was removed at the place it is at.
THEOREM IterationsAreExact == MCSpec => []ListIterationsExact
<1>1. ListInv /\ SInv => ListIterationsExact
  BY ListIterExact, SIterExact DEF ListInv, SInv, ListIterationsExact
<1>. QED  BY <1>1, ListInvariant, SInvariant, PTL

-----------------------------------------------------------------------------
(* The queue.                                                              *)

Cell(d, p, n) == [data |-> d, prev |-> p, next |-> n]

\* The allocated entries are those of w, linked both ways between the head and
\* the tail, with the values a.
QLinked(en, hd, tl, w, a) ==
    /\ w \in Seq(Entries) /\ Once(w) /\ a \in Seq(Data) /\ Len(a) = Len(w)
    /\ DOMAIN en = Elems(w) /\ hd = Entry(w, 1) /\ tl = Entry(w, Len(w))
    /\ \A i \in 1 .. Len(w) : en[w[i]] = Cell(a[i], Entry(w, i - 1), Entry(w, i + 1))

\* Hooked and Unhooked of the entries en.
QHooked(en, n, e, p, f) ==
    [m \in DOMAIN en \cup {n} |-> IF m = n THEN e ELSE IF m = p THEN [en[m] EXCEPT ![f] = n] ELSE en[m]]
QUnhooked(en, n, p, f) ==
    [m \in DOMAIN en \ {n} |-> IF m = p THEN [en[m] EXCEPT ![f] = Null] ELSE en[m]]

LEMMA CellSet ==
    ASSUME NEW d, NEW p, NEW n, NEW x
    PROVE  /\ [Cell(d, p, n) EXCEPT !["prev"] = x] = Cell(d, x, n)
           /\ [Cell(d, p, n) EXCEPT !["next"] = x] = Cell(d, p, x)
           /\ Cell(d, p, n).data = d /\ Cell(d, p, n).prev = p /\ Cell(d, p, n).next = n
<1>1. [Cell(d, p, n) EXCEPT !["prev"] = x] = Cell(d, x, n)
  BY SMT DEF Cell
<1>2. [Cell(d, p, n) EXCEPT !["next"] = x] = Cell(d, p, x)
  BY SMT DEF Cell
<1>3. Cell(d, p, n).data = d /\ Cell(d, p, n).prev = p /\ Cell(d, p, n).next = n
  BY SMT DEF Cell
<1>. QED  BY <1>1, <1>2, <1>3

LEMMA QFacts ==
    ASSUME NEW en, NEW hd, NEW tl, NEW w, NEW a, QLinked(en, hd, tl, w, a)
    PROVE  /\ w \in Seq(Entries) /\ Once(w) /\ Len(w) \in Nat /\ a \in Seq(Data) /\ Len(a) = Len(w)
           /\ DOMAIN en = Elems(w) /\ hd = Entry(w, 1) /\ tl = Entry(w, Len(w))
           /\ \A i \in 1 .. Len(w) : /\ w[i] \in Entries /\ w[i] # Null /\ w[i] \in Elems(w)
                                     /\ a[i] \in Data
           /\ Null \notin Elems(w)
<1>1. w \in Seq(Entries) /\ a \in Seq(Data) /\ Len(a) = Len(w) /\ Len(w) \in Nat
  BY DEF QLinked
<1>2. \A i \in 1 .. Len(w) : w[i] \in Entries /\ w[i] # Null /\ a[i] \in Data
  BY <1>1, SequencesAssumption
<1>. QED  BY <1>1, <1>2 DEF QLinked, Elems

\* A new entry at the head.
LEMMA QPushedHead ==
    ASSUME NEW en, NEW hd, NEW tl, NEW w, NEW a, QLinked(en, hd, tl, w, a),
           NEW n \in Entries, n \notin Elems(w), NEW d \in Data
    PROVE  \E t, b : /\ QLinked(QHooked(en, n, Cell(d, Null, hd), hd, "prev"), n,
                                IF hd = Null THEN n ELSE tl, t, b)
                     /\ b \in Seq(Data) /\ Placed(a, 1, d, b)
<1> DEFINE t == InsertAt(w, 1, n)
           b == InsertAt(a, 1, d)
           N == Len(w)
           e2 == QHooked(en, n, Cell(d, Null, hd), hd, "prev")
<1>1. /\ w \in Seq(Entries) /\ Once(w) /\ N \in Nat /\ a \in Seq(Data) /\ Len(a) = N
      /\ DOMAIN en = Elems(w) /\ hd = Entry(w, 1) /\ tl = Entry(w, N)
      /\ \A i \in 1 .. N : /\ w[i] \in Entries /\ w[i] # Null /\ w[i] \in Elems(w)
                           /\ a[i] \in Data
      /\ Null \notin Elems(w)
  BY QFacts
<1>2. 1 \in 1 .. Len(w) + 1 /\ 1 \in 1 .. Len(a) + 1
  BY <1>1
<1>3. t \in Seq(Entries) /\ Placed(w, 1, n, t) /\ b \in Seq(Data) /\ Placed(a, 1, d, b)
  BY <1>1, <1>2, InsertPlaces
<1>4. \A i \in 1 .. N : en[w[i]] = Cell(a[i], Entry(w, i - 1), Entry(w, i + 1))
  BY DEF QLinked
<1>5. e2 = [m \in Elems(w) \cup {n} |-> IF m = n THEN Cell(d, Null, hd)
                                        ELSE IF m = hd THEN [en[m] EXCEPT !["prev"] = n] ELSE en[m]]
  BY <1>1 DEF QHooked
<1> HIDE DEF t, b, N, e2
<1>6. Once(t) /\ Elems(t) = Elems(w) \cup {n}
  BY <1>1, <1>2, <1>3, PlacedOnce
<1>7. Len(t) = N + 1 /\ t[1] = n /\ \A i \in 1 .. N : t[i + 1] = w[i]
  <2>1. \A i \in 1 .. N : ~ (i < 1)
    BY <1>1
  <2>. QED  BY <1>3, <2>1 DEF Placed, N
<1>8. Len(b) = N + 1 /\ b[1] = d /\ \A i \in 1 .. N : b[i + 1] = a[i]
  <2>1. \A i \in 1 .. N : ~ (i < 1)
    BY <1>1
  <2>. QED  BY <1>1, <1>3, <2>1 DEF Placed
<1>9. \A i \in 1 .. N + 1 : Entry(t, i + 1) = Entry(w, i)
  <2> SUFFICES ASSUME NEW i \in 1 .. N + 1 PROVE Entry(t, i + 1) = Entry(w, i)
    OBVIOUS
  <2>1. i + 1 \in 1 .. N + 1 <=> i \in 1 .. N
    BY <1>1
  <2>. QED  BY <1>7, <2>1 DEF Entry, N
<1>10. Entry(t, 1) = n /\ Entry(t, 0) = Null
  <2>1. 1 \in 1 .. N + 1 /\ 0 \notin 1 .. N + 1
    BY <1>1
  <2>. QED  BY <1>7, <2>1 DEF Entry
<1>11. ASSUME NEW j \in 1 .. N + 1 PROVE e2[t[j]] = Cell(b[j], Entry(t, j - 1), Entry(t, j + 1))
  <2>1. CASE j = 1
    <3>1. e2[t[j]] = Cell(d, Null, hd)
      BY <1>5, <1>7, <2>1
    <3>2. j - 1 = 0 /\ j + 1 = 1 + 1 /\ 1 \in 1 .. N + 1
      BY <1>1, <2>1
    <3>3. Entry(t, j - 1) = Null /\ Entry(t, j + 1) = hd
      BY <1>1, <1>9, <1>10, <2>1, <3>2
    <3>. QED  BY <1>8, <2>1, <3>1, <3>3
  <2>2. CASE j # 1
    <3> DEFINE i == j - 1
    <3>1. i \in 1 .. N /\ j = i + 1
      BY <1>1, <2>2
    <3> HIDE DEF i
    <3>2. t[j] = w[i] /\ b[j] = a[i] /\ w[i] # n /\ w[i] \in Elems(w)
      BY <1>1, <1>7, <1>8, <3>1
    <3>3. Entry(t, j + 1) = Entry(w, i + 1)
      <4>1. i + 1 \in 1 .. N + 1 /\ j + 1 = i + 1 + 1
        BY <1>1, <3>1
      <4>. QED  BY <1>9, <4>1
    <3>4. CASE i = 1
      <4>1. hd = w[i]
        BY <1>1, <3>1, <3>4 DEF Entry, N
      <4>2. e2[t[j]] = [en[w[i]] EXCEPT !["prev"] = n]
        BY <1>5, <3>2, <4>1
      <4>3. e2[t[j]] = Cell(a[i], n, Entry(w, i + 1))
        BY <1>4, <3>1, <4>2, CellSet
      <4>4. j - 1 = 1
        BY <3>1, <3>4
      <4>. QED  BY <1>10, <3>2, <3>3, <4>3, <4>4
    <3>5. CASE i # 1
      <4>1. 1 \in 1 .. N /\ i - 1 \in 1 .. N + 1 /\ j - 1 = i - 1 + 1
        BY <1>1, <3>1, <3>5
      <4>2. w[i] # hd
        BY <1>1, <3>1, <3>5, <4>1 DEF Entry, Once, N
      <4>3. e2[t[j]] = en[w[i]]
        BY <1>5, <3>2, <4>2
      <4>4. Entry(t, j - 1) = Entry(w, i - 1)
        BY <1>9, <4>1
      <4>. QED  BY <1>4, <3>1, <3>2, <3>3, <4>3, <4>4
    <3>. QED  BY <3>4, <3>5
  <2>. QED  BY <2>1, <2>2
<1>12. (IF hd = Null THEN n ELSE tl) = Entry(t, Len(t))
  <2>1. CASE N = 0
    <3>1. hd = Null /\ Len(t) = 1
      BY <1>1, <1>7, <2>1 DEF Entry, N
    <3>. QED  BY <1>10, <3>1
  <2>2. CASE N # 0
    <3>1. 1 \in 1 .. N /\ N \in 1 .. N + 1 /\ Len(t) = N + 1
      BY <1>1, <1>7, <2>2
    <3>2. hd # Null
      BY <1>1, <3>1 DEF Entry, N
    <3>. QED  BY <1>1, <1>9, <3>1, <3>2
  <2>. QED  BY <2>1, <2>2
<1>13. DOMAIN e2 = Elems(t)
  BY <1>5, <1>6
<1>14. QLinked(e2, n, IF hd = Null THEN n ELSE tl, t, b)
  BY <1>3, <1>6, <1>7, <1>8, <1>10, <1>11, <1>12, <1>13 DEF QLinked
<1>. QED  BY <1>3, <1>14 DEF e2

\* A new entry at the tail.
LEMMA QPushedTail ==
    ASSUME NEW en, NEW hd, NEW tl, NEW w, NEW a, QLinked(en, hd, tl, w, a),
           NEW n \in Entries, n \notin Elems(w), NEW d \in Data
    PROVE  \E t, b : /\ QLinked(QHooked(en, n, Cell(d, tl, Null), tl, "next"),
                                IF tl = Null THEN n ELSE hd, n, t, b)
                     /\ b \in Seq(Data) /\ Placed(a, Len(a) + 1, d, b)
<1> DEFINE N == Len(w)
           t == InsertAt(w, N + 1, n)
           b == InsertAt(a, N + 1, d)
           e2 == QHooked(en, n, Cell(d, tl, Null), tl, "next")
<1>1. /\ w \in Seq(Entries) /\ Once(w) /\ N \in Nat /\ a \in Seq(Data) /\ Len(a) = N
      /\ DOMAIN en = Elems(w) /\ hd = Entry(w, 1) /\ tl = Entry(w, N)
      /\ \A i \in 1 .. N : /\ w[i] \in Entries /\ w[i] # Null /\ w[i] \in Elems(w)
                           /\ a[i] \in Data
      /\ Null \notin Elems(w)
  BY QFacts
<1>2. N + 1 \in 1 .. Len(w) + 1 /\ N + 1 \in 1 .. Len(a) + 1
  BY <1>1
<1>3. t \in Seq(Entries) /\ Placed(w, N + 1, n, t) /\ b \in Seq(Data) /\ Placed(a, N + 1, d, b)
  BY <1>1, <1>2, InsertPlaces
<1>4. \A i \in 1 .. N : en[w[i]] = Cell(a[i], Entry(w, i - 1), Entry(w, i + 1))
  BY DEF QLinked
<1>5. e2 = [m \in Elems(w) \cup {n} |-> IF m = n THEN Cell(d, tl, Null)
                                        ELSE IF m = tl THEN [en[m] EXCEPT !["next"] = n] ELSE en[m]]
  BY <1>1 DEF QHooked
<1> HIDE DEF t, b, e2
<1>6. Once(t) /\ Elems(t) = Elems(w) \cup {n}
  BY <1>1, <1>2, <1>3, PlacedOnce, SMTT(30)
<1>i. \A i \in 1 .. N : i < N + 1
  BY <1>1
<1>7. Len(t) = N + 1 /\ t[N + 1] = n /\ \A i \in 1 .. N : t[i] = w[i]
  BY <1>3, <1>i DEF Placed
<1>8. Len(b) = N + 1 /\ b[N + 1] = d /\ \A i \in 1 .. N : b[i] = a[i]
  BY <1>1, <1>3, <1>i DEF Placed
<1> HIDE DEF N
<1>9. \A i \in 0 .. N : Entry(t, i) = Entry(w, i)
  <2> SUFFICES ASSUME NEW i \in 0 .. N PROVE Entry(t, i) = Entry(w, i)
    OBVIOUS
  <2>1. i \in 1 .. N + 1 <=> i \in 1 .. N
    BY <1>1
  <2>. QED  BY <1>7, <2>1 DEF Entry, N
<1>10. Entry(t, N + 1) = n /\ Entry(t, N + 2) = Null
  <2>1. N + 1 \in 1 .. N + 1 /\ N + 2 \notin 1 .. N + 1
    BY <1>1
  <2>. QED  BY <1>7, <2>1 DEF Entry
<1>11. ASSUME NEW j \in 1 .. N + 1 PROVE e2[t[j]] = Cell(b[j], Entry(t, j - 1), Entry(t, j + 1))
  <2>1. CASE j = N + 1
    <3>1. e2[t[j]] = Cell(d, tl, Null)
      BY <1>5, <1>7, <2>1
    <3>2. j - 1 = N /\ j + 1 = N + 2 /\ N \in 0 .. N
      BY <1>1, <2>1
    <3>3. Entry(t, j - 1) = tl /\ Entry(t, j + 1) = Null
      BY <1>1, <1>9, <1>10, <3>2
    <3>. QED  BY <1>8, <2>1, <3>1, <3>3
  <2>2. CASE j # N + 1
    <3>1. j \in 1 .. N /\ j - 1 \in 0 .. N
      BY <1>1, <2>2
    <3>2. t[j] = w[j] /\ b[j] = a[j] /\ w[j] # n /\ w[j] \in Elems(w)
      BY <1>1, <1>7, <1>8, <3>1
    <3>3. Entry(t, j - 1) = Entry(w, j - 1)
      BY <1>9, <3>1
    <3>4. CASE j = N
      <4>1. tl = w[j]
        BY <1>1, <3>1, <3>4 DEF Entry, N
      <4>2. e2[t[j]] = [en[w[j]] EXCEPT !["next"] = n]
        BY <1>5, <3>2, <4>1
      <4>3. e2[t[j]] = Cell(a[j], Entry(w, j - 1), n)
        BY <1>4, <3>1, <4>2, CellSet
      <4>. QED  BY <1>10, <3>2, <3>3, <3>4, <4>3
    <3>5. CASE j # N
      <4>1. N \in 1 .. N /\ j + 1 \in 0 .. N
        BY <1>1, <3>1, <3>5
      <4>2. w[j] # tl
        BY <1>1, <3>1, <3>5, <4>1 DEF Entry, Once, N
      <4>3. e2[t[j]] = en[w[j]]
        BY <1>5, <3>2, <4>2
      <4>4. Entry(t, j + 1) = Entry(w, j + 1)
        BY <1>9, <4>1
      <4>. QED  BY <1>4, <3>1, <3>2, <3>3, <4>3, <4>4
    <3>. QED  BY <3>4, <3>5
  <2>. QED  BY <2>1, <2>2
<1>12. (IF tl = Null THEN n ELSE hd) = Entry(t, 1)
  <2>1. CASE N = 0
    <3>1. tl = Null /\ N + 1 = 1
      BY <1>1, <2>1 DEF Entry, N
    <3>. QED  BY <1>10, <3>1
  <2>2. CASE N # 0
    <3>1. N \in 1 .. N /\ 1 \in 0 .. N
      BY <1>1, <2>2
    <3>2. tl # Null
      BY <1>1, <3>1 DEF Entry, N
    <3>. QED  BY <1>1, <1>9, <3>1, <3>2
  <2>. QED  BY <2>1, <2>2
<1>13. DOMAIN e2 = Elems(t) /\ n = Entry(t, Len(t))
  BY <1>5, <1>6, <1>7, <1>10
<1>14. QLinked(e2, IF tl = Null THEN n ELSE hd, n, t, b)
  BY <1>3, <1>6, <1>7, <1>8, <1>11, <1>12, <1>13 DEF QLinked
<1>. QED  BY <1>1, <1>3, <1>14 DEF e2

\* The entry at the head is taken out.
LEMMA QPoppedHead ==
    ASSUME NEW en, NEW hd, NEW tl, NEW w, NEW a, QLinked(en, hd, tl, w, a), Len(w) # 0
    PROVE  \E t, b : /\ QLinked(QUnhooked(en, hd, en[hd].next, "prev"), en[hd].next,
                                IF en[hd].next = Null THEN Null ELSE tl, t, b)
                     /\ b \in Seq(Data) /\ Cut(a, 1, 1, b) /\ en[hd].data = a[1]
<1> DEFINE N == Len(w)
           h == en[hd].next
           e2 == QUnhooked(en, hd, h, "prev")
<1>1. /\ w \in Seq(Entries) /\ Once(w) /\ N \in Nat /\ a \in Seq(Data) /\ Len(a) = N
      /\ DOMAIN en = Elems(w) /\ hd = Entry(w, 1) /\ tl = Entry(w, N)
      /\ \A i \in 1 .. N : /\ w[i] \in Entries /\ w[i] # Null /\ w[i] \in Elems(w)
                           /\ a[i] \in Data
      /\ Null \notin Elems(w)
  BY QFacts
<1>2. 1 \in 1 .. Len(w) /\ 1 \in 1 .. Len(a)
  BY <1>1
<1>3. PICK t \in Seq(Entries) : Dropped(w, 1, t)
  BY <1>1, <1>2, DropExists
<1>b. PICK b \in Seq(Data) : Dropped(a, 1, b)
  BY <1>1, <1>2, DropExists
<1>4. \A i \in 1 .. N : en[w[i]] = Cell(a[i], Entry(w, i - 1), Entry(w, i + 1))
  BY DEF QLinked
<1>5. e2 = [m \in Elems(w) \ {hd} |-> IF m = h THEN [en[m] EXCEPT !["prev"] = Null] ELSE en[m]]
  BY <1>1 DEF QUnhooked
<1>6. Once(t) /\ Elems(t) = Elems(w) \ {w[1]}
  BY <1>1, <1>2, <1>3, DroppedOnce
<1>h. hd = w[1] /\ h = Entry(w, 2) /\ en[hd].data = a[1]
  <2>1. hd = w[1]
    BY <1>1, <1>2 DEF Entry
  <2>2. en[hd] = Cell(a[1], Entry(w, 1 - 1), Entry(w, 1 + 1)) /\ 1 + 1 = 2
    BY <1>2, <1>4, <2>1
  <2>. QED  BY <2>1, <2>2, CellSet
<1> HIDE DEF e2, h
<1>7. Len(t) = N - 1 /\ \A i \in 1 .. N - 1 : t[i] = w[i + 1]
  <2>1. \A i \in 1 .. N - 1 : ~ (i < 1)
    BY <1>1
  <2>. QED  BY <1>3, <2>1 DEF Dropped
<1>8. Len(b) = N - 1 /\ \A i \in 1 .. N - 1 : b[i] = a[i + 1]
  <2>1. \A i \in 1 .. N - 1 : ~ (i < 1)
    BY <1>1
  <2>. QED  BY <1>1, <1>b, <2>1 DEF Dropped
<1>n. N \in Nat /\ N # 0
  BY <1>1
<1> HIDE DEF N
<1>9. \A i \in 1 .. N : Entry(t, i) = Entry(w, i + 1)
  <2> SUFFICES ASSUME NEW i \in 1 .. N PROVE Entry(t, i) = Entry(w, i + 1)
    OBVIOUS
  <2>1. i + 1 \in 1 .. N <=> i \in 1 .. N - 1
    BY <1>n
  <2>. QED  BY <1>7, <2>1 DEF Entry, N
<1>11. ASSUME NEW j \in 1 .. N - 1 PROVE e2[t[j]] = Cell(b[j], Entry(t, j - 1), Entry(t, j + 1))
  <2>1. j + 1 \in 1 .. N /\ 1 \in 1 .. N /\ 2 \in 1 .. N /\ j + 1 # 1 /\ j + 1 - 1 = j
    BY <1>n
  <2>2. t[j] = w[j + 1] /\ b[j] = a[j + 1] /\ w[j + 1] # hd /\ w[j + 1] \in Elems(w)
    BY <1>1, <1>7, <1>8, <1>h, <2>1 DEF Once, N
  <2>3. Entry(t, j + 1) = Entry(w, (j + 1) + 1)
    BY <1>9, <2>1
  <2>4. en[t[j]] = Cell(b[j], Entry(w, j), Entry(t, j + 1))
    BY <1>4, <2>1, <2>2, <2>3
  <2>h. h = w[2]
    BY <1>h, <2>1 DEF Entry, N
  <2>5. CASE j = 1
    <3>1. e2[t[j]] = [en[t[j]] EXCEPT !["prev"] = Null]
      BY <1>5, <2>2, <2>5, <2>h
    <3>2. e2[t[j]] = Cell(b[j], Null, Entry(t, j + 1))
      BY <2>4, <3>1, CellSet
    <3>3. Entry(t, j - 1) = Null
      BY <1>7, <2>5 DEF Entry
    <3>. QED  BY <3>2, <3>3
  <2>6. CASE j # 1
    <3>0. j + 1 # 2 /\ j - 1 \in 1 .. N /\ j - 1 + 1 = j
      BY <1>n, <2>6
    <3>1. w[j + 1] # h
      BY <1>1, <2>1, <2>h, <3>0 DEF Once, N
    <3>2. e2[t[j]] = en[t[j]]
      BY <1>5, <2>2, <3>1
    <3>3. Entry(t, j - 1) = Entry(w, j)
      BY <1>9, <3>0
    <3>. QED  BY <2>4, <3>2, <3>3
  <2>. QED  BY <2>5, <2>6
<1>12. h = Entry(t, 1) /\ (IF h = Null THEN Null ELSE tl) = Entry(t, Len(t))
  <2>0. h = Entry(t, 1)
    <3>1. 1 \in 1 .. N /\ 1 + 1 = 2
      BY <1>n
    <3>. QED  BY <1>9, <1>h, <3>1
  <2>1. CASE N = 1
    <3>1. Len(t) = 0
      BY <1>7, <2>1
    <3>2. Entry(t, 1) = Null /\ Entry(t, Len(t)) = Null
      BY <3>1 DEF Entry
    <3>. QED  BY <2>0, <3>2
  <2>2. CASE N # 1
    <3>1. 2 \in 1 .. N /\ N - 1 \in 1 .. N /\ Len(t) = N - 1 /\ N - 1 + 1 = N
      BY <1>7, <1>n, <2>2
    <3>2. h # Null
      BY <1>1, <1>h, <3>1 DEF Entry, N
    <3>3. Entry(t, N - 1) = Entry(w, N)
      BY <1>9, <3>1
    <3>. QED  BY <1>1, <2>0, <3>1, <3>2, <3>3
  <2>. QED  BY <2>1, <2>2
<1>13. DOMAIN e2 = Elems(t)
  BY <1>5, <1>6, <1>h
<1>14. QLinked(e2, h, IF h = Null THEN Null ELSE tl, t, b)
  BY <1>3, <1>b, <1>6, <1>7, <1>8, <1>11, <1>12, <1>13 DEF QLinked
<1>15. Cut(a, 1, 1, b)
  BY <1>b, DroppedIsCut
<1>. QED  BY <1>b, <1>h, <1>14, <1>15 DEF e2, h

\* The entry at the tail is taken out.
LEMMA QPoppedTail ==
    ASSUME NEW en, NEW hd, NEW tl, NEW w, NEW a, QLinked(en, hd, tl, w, a), Len(w) # 0
    PROVE  \E t, b : /\ QLinked(QUnhooked(en, tl, en[tl].prev, "next"),
                                IF en[tl].prev = Null THEN Null ELSE hd, en[tl].prev, t, b)
                     /\ b \in Seq(Data) /\ Cut(a, Len(a), 1, b) /\ en[tl].data = a[Len(a)]
<1> DEFINE N == Len(w)
           h == en[tl].prev
           e2 == QUnhooked(en, tl, h, "next")
<1>1. /\ w \in Seq(Entries) /\ Once(w) /\ N \in Nat /\ a \in Seq(Data) /\ Len(a) = N
      /\ DOMAIN en = Elems(w) /\ hd = Entry(w, 1) /\ tl = Entry(w, N)
      /\ \A i \in 1 .. N : /\ w[i] \in Entries /\ w[i] # Null /\ w[i] \in Elems(w)
                           /\ a[i] \in Data
      /\ Null \notin Elems(w)
  BY QFacts
<1>2. N \in 1 .. Len(w) /\ N \in 1 .. Len(a)
  BY <1>1
<1>3. PICK t \in Seq(Entries) : Dropped(w, N, t)
  BY <1>1, <1>2, DropExists
<1>b. PICK b \in Seq(Data) : Dropped(a, N, b)
  BY <1>1, <1>2, DropExists
<1>4. \A i \in 1 .. N : en[w[i]] = Cell(a[i], Entry(w, i - 1), Entry(w, i + 1))
  BY DEF QLinked
<1>5. e2 = [m \in Elems(w) \ {tl} |-> IF m = h THEN [en[m] EXCEPT !["next"] = Null] ELSE en[m]]
  BY <1>1 DEF QUnhooked
<1>6. Once(t) /\ Elems(t) = Elems(w) \ {w[N]}
  BY <1>1, <1>2, <1>3, DroppedOnce
<1>h. tl = w[N] /\ h = Entry(w, N - 1) /\ en[tl].data = a[N]
  <2>1. tl = w[N]
    BY <1>1, <1>2 DEF Entry
  <2>2. en[tl] = Cell(a[N], Entry(w, N - 1), Entry(w, N + 1))
    BY <1>2, <1>4, <2>1
  <2>. QED  BY <2>1, <2>2, CellSet
<1> HIDE DEF e2, h
<1>i. \A i \in 1 .. N - 1 : i < N
  BY <1>1
<1>7. Len(t) = N - 1 /\ \A i \in 1 .. N - 1 : t[i] = w[i]
  BY <1>3, <1>i DEF Dropped
<1>8. Len(b) = N - 1 /\ \A i \in 1 .. N - 1 : b[i] = a[i]
  BY <1>1, <1>b, <1>i DEF Dropped
<1>n. N \in Nat /\ N # 0
  BY <1>1
<1>15. Cut(a, Len(a), 1, b)
  BY <1>1, <1>b, DroppedIsCut
<1> HIDE DEF N
<1>9. \A i \in 0 .. N - 1 : Entry(t, i) = Entry(w, i)
  <2> SUFFICES ASSUME NEW i \in 0 .. N - 1 PROVE Entry(t, i) = Entry(w, i)
    OBVIOUS
  <2>1. i \in 1 .. N <=> i \in 1 .. N - 1
    BY <1>n
  <2>. QED  BY <1>7, <2>1 DEF Entry, N
<1>10. Entry(t, N) = Null
  <2>1. N \notin 1 .. N - 1
    BY <1>n
  <2>. QED  BY <1>7, <2>1 DEF Entry
<1>11. ASSUME NEW j \in 1 .. N - 1 PROVE e2[t[j]] = Cell(b[j], Entry(t, j - 1), Entry(t, j + 1))
  <2>1. j \in 1 .. N /\ N \in 1 .. N /\ N - 1 \in 1 .. N /\ j # N /\ j - 1 \in 0 .. N - 1
    BY <1>n
  <2>2. t[j] = w[j] /\ b[j] = a[j] /\ w[j] # tl /\ w[j] \in Elems(w)
    BY <1>1, <1>7, <1>8, <1>h, <2>1 DEF Once, N
  <2>3. Entry(t, j - 1) = Entry(w, j - 1)
    BY <1>9, <2>1
  <2>4. en[t[j]] = Cell(b[j], Entry(t, j - 1), Entry(w, j + 1))
    BY <1>4, <2>1, <2>2, <2>3
  <2>h. h = w[N - 1]
    BY <1>h, <2>1 DEF Entry, N
  <2>5. CASE j = N - 1
    <3>1. e2[t[j]] = [en[t[j]] EXCEPT !["next"] = Null]
      BY <1>5, <2>2, <2>5, <2>h
    <3>2. e2[t[j]] = Cell(b[j], Entry(t, j - 1), Null)
      BY <2>4, <3>1, CellSet
    <3>3. j + 1 = N
      BY <1>n, <2>5
    <3>. QED  BY <1>10, <3>2, <3>3
  <2>6. CASE j # N - 1
    <3>0. j + 1 \in 0 .. N - 1
      BY <1>n, <2>6
    <3>1. w[j] # h
      BY <1>1, <2>1, <2>6, <2>h DEF Once, N
    <3>2. e2[t[j]] = en[t[j]]
      BY <1>5, <2>2, <3>1
    <3>3. Entry(t, j + 1) = Entry(w, j + 1)
      BY <1>9, <3>0
    <3>. QED  BY <2>4, <3>2, <3>3
  <2>. QED  BY <2>5, <2>6
<1>12. h = Entry(t, Len(t)) /\ (IF h = Null THEN Null ELSE hd) = Entry(t, 1)
  <2>0. h = Entry(t, Len(t))
    <3>1. N - 1 \in 0 .. N - 1
      BY <1>n
    <3>. QED  BY <1>7, <1>9, <1>h, <3>1
  <2>1. CASE N = 1
    <3>1. Len(t) = 0
      BY <1>7, <2>1
    <3>2. Entry(t, 1) = Null /\ Entry(t, Len(t)) = Null
      BY <3>1 DEF Entry
    <3>. QED  BY <2>0, <3>2
  <2>2. CASE N # 1
    <3>1. 1 \in 0 .. N - 1 /\ N - 1 \in 1 .. N
      BY <1>n, <2>2
    <3>2. h # Null
      BY <1>1, <1>h, <3>1 DEF Entry, N
    <3>3. Entry(t, 1) = Entry(w, 1)
      BY <1>9, <3>1
    <3>. QED  BY <1>1, <2>0, <3>2, <3>3
  <2>. QED  BY <2>1, <2>2
<1>13. DOMAIN e2 = Elems(t)
  BY <1>5, <1>6, <1>h
<1>14. QLinked(e2, IF h = Null THEN Null ELSE hd, h, t, b)
  BY <1>3, <1>b, <1>6, <1>7, <1>8, <1>11, <1>12, <1>13 DEF QLinked
<1>. QED  BY <1>1, <1>b, <1>h, <1>14, <1>15 DEF e2, h

LEMMA QStepImplements ==
    ASSUME NEW a \in Seq(Data), NEW b \in Seq(Data), Q!Contents = a, Q!Contents' = b,
           SeqStep(a, b, q_ret')
    PROVE  Q!AsSequence!Next
<1> DEFINE q == q_ret'
<1>0. Len(a) \in Nat /\ DOMAIN a = 1 .. Len(a) /\ DOMAIN b = 1 .. Len(b) /\ Q!AsSequence!Elements = Elems(a)
  BY DEF Q!AsSequence!Elements, Q!AsSequence!Range, Elems
<1>1. CASE b = a /\ Asks(a, q)
  <2>1. \A r : q = r => Q!AsSequence!Ask(r)
    BY <1>1 DEF Q!AsSequence!Ask
  <2>2. CASE q \in {Null, 0}
    BY <2>1, <2>2 DEF Q!AsSequence!Next
  <2>3. CASE q \in Elems(a)
    BY <1>0, <2>1, <2>3 DEF Q!AsSequence!Next
  <2>4. CASE \E d \in Data : q \in Int /\ IsIndex(a, d, q)
    <3>1. PICK d \in Data : q \in Int /\ IsIndex(a, d, q)
      BY <2>4
    <3>2. Q!AsSequence!IndexOf(d) = FirstIndex(a, d)
      BY <1>0 DEF Q!AsSequence!IndexOf, FirstIndex
    <3>3. q = Q!AsSequence!IndexOf(d)
      BY <3>1, <3>2, IndexUnique
    <3>. QED  BY <2>1, <3>3 DEF Q!AsSequence!Next
  <2>. QED  BY <1>1, <2>2, <2>3, <2>4 DEF Asks
<1>2. CASE Inserts(a, b, q)
  <2>1. PICK d \in Data, k \in 1 .. Len(a) + 1 : Placed(a, k, d, b)
    BY <1>2 DEF Inserts
  <2>2. b = InsertAt(a, k, d)
    BY <2>1, InsertPlaces, PlacedUnique
  <2>3. Q!AsSequence!Insert(k, d)
    BY <1>2, <2>2 DEF Q!AsSequence!Insert, Q!AsSequence!InsertAt, InsertAt, Inserts
  <2>. QED  BY <2>3 DEF Q!AsSequence!Next
<1>3. CASE Removes(a, b, q)
  <2>0. PICK k \in 1 .. Len(a) : \E n \in 0 .. Len(a) + 1 - k : Cut(a, k, n, b)
    BY <1>3 DEF Removes
  <2>1. PICK n \in 0 .. Len(a) + 1 - k : Cut(a, k, n, b)
    BY <2>0
  <2>2. b = SubSeq(a, 1, k - 1) \o SubSeq(a, k + n, Len(a))
    BY <2>1, CutIs
  <2>3. Q!AsSequence!RemoveRange(k, n)
    BY <1>3, <2>2 DEF Q!AsSequence!RemoveRange, Removes
  <2>. QED  BY <1>0, <2>3 DEF Q!AsSequence!Next
<1>4. CASE RemovesData(a, b, q)
  <2>1. PICK d \in Data : q = Copies(a, d) /\ b = Kept(a, Data \ {d})
    BY <1>4 DEF RemovesData
  <2>2. Q!AsSequence!Count(a, d) = Copies(a, d)
    BY <1>0, Zenon DEF Q!AsSequence!Count, Q!AsSequence!Cardinality, Copies, Places, Cardinality
  <2>3. Q!AsSequence!Kept(a, Data \ {d}) = Kept(a, Data \ {d})
    BY Zenon DEF Q!AsSequence!Kept, Kept
  <2>4. Q!AsSequence!RemoveData(d)
    BY <2>1, <2>2, <2>3 DEF Q!AsSequence!RemoveData
  <2>. QED  BY <2>4 DEF Q!AsSequence!Next
<1>5. CASE TakesFirst(a, b, q)
  <2>1. b = Tail(a) /\ q = Head(a) /\ a # <<>>
    BY <1>5, EndsCut DEF TakesFirst
  <2>2. Q!AsSequence!TakeFirst
    BY <2>1 DEF Q!AsSequence!TakeFirst
  <2>. QED  BY <2>2 DEF Q!AsSequence!Next
<1>6. CASE TakesLast(a, b, q)
  <2>1. b = SubSeq(a, 1, Len(a) - 1) /\ q = a[Len(a)] /\ a # <<>>
    BY <1>6, EndsCut DEF TakesLast
  <2>2. Q!AsSequence!TakeLast
    BY <2>1 DEF Q!AsSequence!TakeLast, Q!AsSequence!Last, Q!AsSequence!Front
  <2>. QED  BY <2>2 DEF Q!AsSequence!Next
<1>7. CASE Orders(a, b, q)
  <2>1. \A s \in {a, b} : \A d : Q!AsSequence!Count(s, d) = Copies(s, d)
    BY <1>0, Zenon DEF Q!AsSequence!Count, Q!AsSequence!Cardinality, Copies, Places, Cardinality
  <2>2. Q!AsSequence!Sort
    BY <1>0, <1>7, <2>1 DEF Q!AsSequence!Sort, Orders
  <2>. QED  BY <2>2 DEF Q!AsSequence!Next
<1>8. CASE b = <<>> /\ q = Null
  BY <1>8 DEF Q!AsSequence!Next, Q!AsSequence!Clear
<1>. QED  BY <1>1, <1>2, <1>3, <1>4, <1>5, <1>6, <1>7, <1>8 DEF SeqStep

QValues(en, w) == [i \in DOMAIN w |-> en[w[i]].data]

\* What a loop along the next pointers finds.
LEMMA QWalks ==
    ASSUME NEW en, NEW hd, NEW tl, NEW w, NEW a, QLinked(en, hd, tl, w, a)
    PROVE  /\ Along([n \in DOMAIN en |-> en[n].next], hd, Cardinality(Entries)) = w
           /\ QValues(en, w) = a
<1> DEFINE nx == [n \in DOMAIN en |-> en[n].next]
<1>1. /\ w \in Seq(Entries) /\ Once(w) /\ Len(w) \in Nat /\ a \in Seq(Data) /\ Len(a) = Len(w)
      /\ DOMAIN en = Elems(w) /\ hd = Entry(w, 1)
      /\ \A i \in 1 .. Len(w) : w[i] \in Elems(w)
  BY QFacts
<1>2. \A i \in 1 .. Len(w) : en[w[i]].data = a[i] /\ en[w[i]].next = Entry(w, i + 1)
  BY CellSet DEF QLinked
<1>3. Chain(nx, hd, w)
  BY <1>1, <1>2 DEF Chain
<1> HIDE DEF nx
<1>4. Along(nx, hd, Cardinality(Entries)) = w
  BY <1>1, <1>3, AlongChain, SequencesAssumption
<1>5. QValues(en, w) = a
  <2>1. DOMAIN w = 1 .. Len(w) /\ a = [i \in 1 .. Len(w) |-> a[i]]
    BY <1>1
  <2>. QED  BY <1>2, <2>1 DEF QValues
<1>. QED  BY <1>4, <1>5 DEF nx

LEMMA QContents ==
    /\ \A w, a : QLinked(entry, head, tail, w, a) => Q!Walk = w /\ Q!Contents = a
    /\ \A w, a : QLinked(entry', head', tail', w, a) => Q!Walk' = w /\ Q!Contents' = a
<1>1. /\ Q!Walk = Along([n \in DOMAIN entry |-> entry[n].next], head, Cardinality(Entries))
      /\ Q!Walk' = Along([n \in DOMAIN entry' |-> entry'[n].next], head', Cardinality(Entries))
  BY Zenon DEF Q!Walk, Q!Along, Along, Q!Cardinality, Cardinality
<1>2. Q!Contents = QValues(entry, Q!Walk) /\ Q!Contents' = QValues(entry', Q!Walk')
  BY Zenon DEF Q!Contents, QValues
<1>3. ASSUME NEW w, NEW a, QLinked(entry, head, tail, w, a) PROVE Q!Walk = w /\ Q!Contents = a
  BY <1>1, <1>2, <1>3, QWalks
<1>4. ASSUME NEW w, NEW a, QLinked(entry', head', tail', w, a) PROVE Q!Walk' = w /\ Q!Contents' = a
  BY <1>1, <1>2, <1>4, QWalks
<1>. QED  BY <1>3, <1>4

QState(w, a) == QLinked(entry, head, tail, w, a)
QInv == \E w, a : QState(w, a)
QGoes(a) == \E t, b : QState(t, b)' /\ SeqStep(a, b, q_ret')

LEMMA QEmpty ==
    /\ QLinked([n \in {} |-> Null], Null, Null, <<>>, <<>>)
    /\ \A en : DOMAIN en = {} => QLinked(en, Null, Null, <<>>, <<>>)
<1> DEFINE t == <<>>
<1>1. t \in Seq(Entries) /\ t \in Seq(Data) /\ Len(t) = 0 /\ Once(t) /\ Elems(t) = {}
  BY DEF Once, Elems
<1> HIDE DEF t
<1>2. Entry(t, 1) = Null /\ Entry(t, Len(t)) = Null
  BY <1>1 DEF Entry
<1>3. ASSUME NEW en, DOMAIN en = {} PROVE QLinked(en, Null, Null, t, t)
  BY <1>1, <1>2, <1>3 DEF QLinked
<1>4. DOMAIN [n \in {} |-> Null] = {}
  OBVIOUS
<1>. QED  BY <1>3, <1>4 DEF t

\* A call is a step of the sequence.
LEMMA QCall ==
    ASSUME NEW w, NEW a, QState(w, a), Q!Next
    PROVE  QGoes(a)
<1>1. /\ w \in Seq(Entries) /\ Len(w) \in Nat /\ a \in Seq(Data) /\ Len(a) = Len(w)
      /\ DOMAIN entry = Elems(w) /\ head = Entry(w, 1) /\ tail = Entry(w, Len(w))
      /\ \A i \in 1 .. Len(w) : w[i] # Null /\ w[i] \in Elems(w)
  BY QFacts DEF QState
<1>2. QLinked(entry, head, tail, w, a)
  BY DEF QState
<1>3. head # Null => Len(w) # 0
  BY <1>1 DEF Entry
<1>4. ASSUME NEW n \in Entries, NEW d \in Data, Q!queue_push_head(n, d) PROVE QGoes(a)
  <2>1. /\ n \notin Elems(w) /\ q_ret' = 1 /\ head' = n
        /\ entry' = QHooked(entry, n, Cell(d, Null, head), head, "prev")
        /\ tail' = IF head = Null THEN n ELSE tail
    BY <1>1, <1>4 DEF Q!queue_push_head, Q!Hooked, Q!FarEnd, QHooked, Cell
  <2>2. PICK t, b : QLinked(entry', head', tail', t, b) /\ Placed(a, 1, d, b)
    BY <1>2, <2>1, QPushedHead
  <2>3. Inserts(a, b, q_ret')
    <3>1. 1 \in 1 .. Len(a) + 1
      BY <1>1
    <3>. QED  BY <2>1, <2>2, <3>1 DEF Inserts
  <2>. QED  BY <2>2, <2>3 DEF QGoes, QState, SeqStep
<1>5. ASSUME NEW n \in Entries, NEW d \in Data, Q!queue_push_tail(n, d) PROVE QGoes(a)
  <2>1. /\ n \notin Elems(w) /\ q_ret' = 1 /\ tail' = n
        /\ entry' = QHooked(entry, n, Cell(d, tail, Null), tail, "next")
        /\ head' = IF tail = Null THEN n ELSE head
    BY <1>1, <1>5 DEF Q!queue_push_tail, Q!Hooked, Q!FarEnd, QHooked, Cell
  <2>2. PICK t, b : QLinked(entry', head', tail', t, b) /\ Placed(a, Len(a) + 1, d, b)
    BY <1>2, <2>1, QPushedTail
  <2>3. Inserts(a, b, q_ret')
    <3>1. Len(a) + 1 \in 1 .. Len(a) + 1
      BY <1>1
    <3>. QED  BY <2>1, <2>2, <3>1 DEF Inserts
  <2>. QED  BY <2>2, <2>3 DEF QGoes, QState, SeqStep
<1>6. ASSUME UNCHANGED <<entry, head, tail>>, Asks(a, q_ret') PROVE QGoes(a)
  <2>1. QLinked(entry', head', tail', w, a) /\ SeqStep(a, a, q_ret')
    BY <1>2, <1>6 DEF SeqStep
  <2>. QED  BY <2>1 DEF QGoes, QState
<1>7. CASE Q!queue_push_fails
  BY <1>6, <1>7 DEF Q!queue_push_fails, Asks
<1>8. CASE Q!queue_pop_head
  <2>1. /\ head # Null /\ q_ret' = entry[head].data /\ head' = entry[head].next
        /\ entry' = QUnhooked(entry, head, entry[head].next, "prev")
        /\ tail' = IF entry[head].next = Null THEN Null ELSE tail
    BY <1>8 DEF Q!queue_pop_head, Q!Unhooked, Q!OtherEnd, QUnhooked
  <2>2. PICK t, b : /\ QLinked(entry', head', tail', t, b)
                    /\ Cut(a, 1, 1, b) /\ q_ret' = a[1]
    BY <1>2, <1>3, <2>1, QPoppedHead
  <2>. QED  BY <1>1, <1>3, <2>1, <2>2 DEF QGoes, QState, SeqStep, TakesFirst
<1>9. CASE Q!queue_pop_tail
  <2>1. /\ head # Null /\ q_ret' = entry[tail].data /\ tail' = entry[tail].prev
        /\ entry' = QUnhooked(entry, tail, entry[tail].prev, "next")
        /\ head' = IF entry[tail].prev = Null THEN Null ELSE head
    BY <1>9 DEF Q!queue_pop_tail, Q!Unhooked, Q!OtherEnd, QUnhooked
  <2>2. PICK t, b : /\ QLinked(entry', head', tail', t, b)
                    /\ Cut(a, Len(a), 1, b) /\ q_ret' = a[Len(a)]
    BY <1>2, <1>3, <2>1, QPoppedTail
  <2>. QED  BY <1>1, <1>3, <2>1, <2>2 DEF QGoes, QState, SeqStep, TakesLast
<1>10. CASE Q!queue_empty
  BY <1>6, <1>10 DEF Q!queue_empty, Asks
<1>11. CASE Q!queue_peek
  <2>1. Len(w) # 0 /\ UNCHANGED <<entry, head, tail>> /\ q_ret' \in {entry[head].data, entry[tail].data}
    BY <1>3, <1>11, SMTT(30) DEF Q!queue_peek
  <2>2. 1 \in 1 .. Len(w) /\ Len(w) \in 1 .. Len(w)
    BY <1>1, <2>1
  <2>3. head = w[1] /\ tail = w[Len(w)]
    BY <1>1, <2>2 DEF Entry
  <2>4. entry[head].data = a[1] /\ entry[tail].data = a[Len(w)]
    BY <1>2, <2>2, <2>3, CellSet DEF QLinked
  <2>5. q_ret' \in Elems(a)
    BY <1>1, <2>1, <2>2, <2>4 DEF Elems
  <2>. QED  BY <1>6, <2>1, <2>5 DEF Asks
<1>12. CASE Q!queue_free
  <2>1. Q!Walk = w
    BY <1>2, QContents
  <2>r. Q!Range(w) = Elems(w)
    <3>1. DOMAIN w = 1 .. Len(w)
      BY <1>1
    <3>. QED  BY <3>1 DEF Q!Range, Elems
  <2>2. /\ entry' = Q!Restrict(entry, DOMAIN entry \ Elems(w))
        /\ head' = Null /\ tail' = Null /\ q_ret' = Null
    BY <1>12, <2>1, <2>r DEF Q!queue_free
  <2>3. DOMAIN entry' = {}
    BY <1>1, <2>2 DEF Q!Restrict
  <2>4. QLinked(entry', head', tail', <<>>, <<>>)
    BY <2>2, <2>3, QEmpty
  <2>. QED  BY <2>2, <2>4 DEF QGoes, QState, SeqStep
<1>. QED  BY <1>4, <1>5, <1>7, <1>8, <1>9, <1>10, <1>11, <1>12 DEF Q!Next

LEMMA QStep ==
    QInv /\ [Q!Next]_queue => QInv' /\ [Q!AsSequence!Next]_(Q!AsSequence!vars)
<1> SUFFICES ASSUME QInv, [Q!Next]_queue
             PROVE  QInv' /\ [Q!AsSequence!Next]_(Q!AsSequence!vars)
  OBVIOUS
<1>1. PICK w, a : QState(w, a)
  BY DEF QInv
<1>a. Q!Contents = a /\ a \in Seq(Data)
  BY <1>1, QContents, QFacts DEF QState
<1>2. CASE UNCHANGED queue
  <2>1. UNCHANGED <<entry, head, tail, q_ret>>
    BY <1>2 DEF queue
  <2>2. QState(w, a)'
    BY <1>1, <2>1 DEF QState
  <2>3. Q!Contents' = a
    BY <2>2, QContents DEF QState
  <2>. QED  BY <1>a, <2>1, <2>2, <2>3 DEF QInv, Q!AsSequence!vars
<1>3. CASE Q!Next
  <2>1. PICK t, b : QState(t, b)' /\ SeqStep(a, b, q_ret')
    BY <1>1, <1>3, QCall DEF QGoes
  <2>2. QLinked(entry', head', tail', t, b)
    BY <2>1 DEF QState
  <2>3. Q!Contents' = b /\ b \in Seq(Data)
    BY <2>2, QContents, QFacts
  <2>4. Q!AsSequence!Next
    BY <1>a, <2>1, <2>3, QStepImplements
  <2>. QED  BY <2>1, <2>4 DEF QInv
<1>. QED  BY <1>2, <1>3

LEMMA QInit == Q!Init => QInv /\ Q!AsSequence!Init
<1> SUFFICES ASSUME Q!Init PROVE QInv /\ Q!AsSequence!Init
  OBVIOUS
<1>1. QLinked(entry, head, tail, <<>>, <<>>) /\ q_ret = Null
  BY QEmpty DEF Q!Init
<1>2. Q!Contents = <<>>
  BY <1>1, QContents
<1>. QED  BY <1>1, <1>2 DEF QInv, QState, Q!AsSequence!Init

LEMMA QImplements == MCSpec => Q!ImplementsSequence
<1>1. MCInit => QInv /\ Q!AsSequence!Init
  BY QInit DEF MCInit
<1>2. QInv /\ [MCNext]_all => QInv' /\ [Q!AsSequence!Next]_(Q!AsSequence!vars)
  <2>1. [MCNext]_all => [Q!Next]_queue
    BY DEF MCNext, all
  <2>. QED  BY <2>1, QStep
<1>. QED  BY <1>1, <1>2, PTL DEF MCSpec, all, Q!ImplementsSequence, Q!AsSequence!Spec

-----------------------------------------------------------------------------
(* The array list.                                                         *)

AValues(ar, n) == [i \in 1 .. n |-> ar[i - 1]]

\* An array of size m, of which the first n slots hold values.
Array(ar, m, n) ==
    /\ m \in Nat /\ m >= 1 /\ DOMAIN ar = 0 .. m - 1
    /\ n \in Nat /\ n <= m /\ n <= MaxLength
    /\ \A i \in 0 .. n - 1 : ar[i] \in Data

AInv == \E m : Array(a_data, m, length)
AGoes == AInv' /\ SeqStep(AValues(a_data, length), AValues(a_data', length'), a_ret')

LEMMA AFacts ==
    ASSUME NEW ar, NEW m, NEW n, Array(ar, m, n)
    PROVE  /\ n \in Nat /\ AValues(ar, n) \in Seq(Data) /\ Len(AValues(ar, n)) = n
           /\ \A i \in 1 .. n : AValues(ar, n)[i] = ar[i - 1] /\ ar[i - 1] \in Data
<1>1. n \in Nat /\ \A i \in 0 .. n - 1 : ar[i] \in Data
  BY DEF Array
<1>2. \A i \in 1 .. n : i - 1 \in 0 .. n - 1
  BY <1>1
<1>. QED  BY <1>1, <1>2 DEF AValues

LEMMA AAlloced ==
    ASSUME NEW m, Array(a_data, m, length)
    PROVE  A!alloced = m
<1>1. m \in Nat /\ DOMAIN a_data = 0 .. m - 1
  BY DEF Array
<1>2. Cardinality(0 .. m - 1) = m
  BY <1>1, FS_Interval
<1>3. A!alloced = Cardinality(DOMAIN a_data)
  BY Zenon DEF A!alloced, A!Cardinality, Cardinality
<1>. QED  BY <1>1, <1>2, <1>3

\* arraylist_enlarge: a slot more than there are values.
LEMMA AEnlarged ==
    ASSUME NEW m, Array(a_data, m, length)
    PROVE  \E k \in Nat : /\ k >= length + 1 /\ DOMAIN A!Enlarged = 0 .. k - 1
                          /\ \A i \in 0 .. length - 1 : A!Enlarged[i] = a_data[i]
<1>1. m \in Nat /\ m >= 1 /\ DOMAIN a_data = 0 .. m - 1 /\ length \in Nat /\ length <= m /\ A!alloced = m
  BY AAlloced DEF Array
<1>2. CASE length + 1 > m
  <2>1. A!Enlarged = [i \in 0 .. 2 * m - 1 |-> IF i < m THEN a_data[i] ELSE Null]
    BY <1>1, <1>2 DEF A!Enlarged, A!Full
  <2>2. 2 * m \in Nat /\ 2 * m >= length + 1
        /\ \A i \in 0 .. length - 1 : i \in 0 .. 2 * m - 1 /\ i < m
    BY <1>1
  <2>. QED  BY <2>1, <2>2
<1>3. CASE ~ (length + 1 > m)
  <2>1. A!Enlarged = a_data /\ m >= length + 1
    BY <1>1, <1>3 DEF A!Enlarged, A!Full
  <2>. QED  BY <1>1, <2>1
<1>. QED  BY <1>2, <1>3

LEMMA AInsert ==
    ASSUME AInv, NEW k \in Int, NEW d \in Data, A!arraylist_insert(k, d)
    PROVE  AGoes
<1>1. PICK m : Array(a_data, m, length)
  BY DEF AInv
<1>2. PICK p \in Nat : /\ p >= length + 1 /\ DOMAIN A!Enlarged = 0 .. p - 1
                       /\ \A i \in 0 .. length - 1 : A!Enlarged[i] = a_data[i]
  BY <1>1, AEnlarged
<1> DEFINE n == length
           e == A!Enlarged
           a == AValues(a_data, n)
           b == AValues(a_data', n + 1)
<1>3. /\ n < MaxLength /\ k \in 0 .. n /\ length' = n + 1 /\ a_ret' = 1
      /\ a_data' = [A!MovedUp(k) EXCEPT ![k] = d]
      /\ A!MovedUp(k) = [i \in DOMAIN e |-> IF i \in k + 1 .. n THEN a_data[i - 1] ELSE e[i]]
  BY DEF A!arraylist_insert, A!MovedUp
<1>4. /\ n \in Nat /\ a \in Seq(Data) /\ Len(a) = n
      /\ \A i \in 1 .. n : a[i] = a_data[i - 1] /\ a_data[i - 1] \in Data
  BY <1>1, AFacts
<1>5. n + 1 <= MaxLength /\ MaxLength \in Nat
  BY <1>3, <1>4, SequencesAssumption
<1>6. /\ DOMAIN a_data' = 0 .. p - 1 /\ a_data'[k] = d
      /\ \A i \in 0 .. n : i # k => a_data'[i] = IF i \in k + 1 .. n THEN a_data[i - 1] ELSE e[i]
  <2>1. k \in 0 .. p - 1 /\ \A i \in 0 .. n : i \in 0 .. p - 1
    BY <1>2, <1>3, <1>4
  <2> HIDE DEF n, e
  <2>. QED  BY <1>2, <1>3, <2>1 DEF e
<1> HIDE DEF a, e
<1>7. ASSUME NEW i \in 0 .. n, i < k PROVE i + 1 \in 1 .. n /\ a_data'[i] = a[i + 1]
  <2>1. i \in 0 .. n - 1 /\ i \notin k + 1 .. n /\ i # k /\ i + 1 \in 1 .. n /\ i + 1 - 1 = i
    BY <1>3, <1>4, <1>7
  <2>. QED  BY <1>2, <1>4, <1>6, <2>1 DEF e
<1>8. ASSUME NEW i \in 0 .. n, i > k PROVE i \in 1 .. n /\ a_data'[i] = a[i]
  <2>1. i \in k + 1 .. n /\ i \in 1 .. n /\ i # k
    BY <1>3, <1>4, <1>8
  <2>. QED  BY <1>4, <1>6, <2>1
<1>9. \A i \in 0 .. n : a_data'[i] \in Data
  <2> SUFFICES ASSUME NEW i \in 0 .. n PROVE a_data'[i] \in Data
    OBVIOUS
  <2>1. \A j \in 1 .. n : a[j] \in Data
    BY <1>4
  <2>2. i < k \/ i = k \/ i > k
    BY <1>3
  <2>. QED  BY <1>6, <1>7, <1>8, <2>1, <2>2
<1>10. Array(a_data', p, length')
  <2>1. p >= 1 /\ n + 1 \in Nat /\ n + 1 <= p /\ (n + 1) - 1 = n
    BY <1>2, <1>4
  <2>. QED  BY <1>3, <1>5, <1>6, <1>9, <2>1 DEF Array
<1>11. Len(b) = n + 1 /\ \A i \in 1 .. n + 1 : b[i] = a_data'[i - 1]
  <2>1. Array(a_data', p, n + 1)
    BY <1>3, <1>10
  <2>2. n + 1 \in Nat
    BY <1>4
  <2>. QED  BY <2>1, <2>2, AFacts
<1> HIDE DEF b
<1>12. Placed(a, k + 1, d, b)
  <2>1. b[k + 1] = d
    <3>1. k + 1 \in 1 .. n + 1 /\ k + 1 - 1 = k
      BY <1>3, <1>4
    <3>. QED  BY <1>6, <1>11, <3>1
  <2>2. ASSUME NEW i \in 1 .. n PROVE IF i < k + 1 THEN b[i] = a[i] ELSE b[i + 1] = a[i]
    <3>1. CASE i < k + 1
      <4>1. i - 1 \in 0 .. n /\ i - 1 < k /\ i - 1 + 1 = i /\ i \in 1 .. n + 1
        BY <1>3, <1>4, <3>1
      <4>2. a_data'[i - 1] = a[i - 1 + 1]
        BY <1>7, <4>1
      <4>. QED  BY <1>11, <3>1, <4>1, <4>2
    <3>2. CASE ~ (i < k + 1)
      <4>1. i \in 0 .. n /\ i > k /\ i + 1 \in 1 .. n + 1 /\ i + 1 - 1 = i
        BY <1>3, <1>4, <3>2
      <4>. QED  BY <1>8, <1>11, <3>2, <4>1
    <3>. QED  BY <3>1, <3>2
  <2>. QED  BY <1>4, <1>11, <2>1, <2>2 DEF Placed
<1>13. k + 1 \in 1 .. Len(a) + 1
  BY <1>3, <1>4
<1>14. Inserts(a, b, a_ret')
  BY <1>3, <1>12, <1>13 DEF Inserts
<1>. QED  BY <1>3, <1>10, <1>14 DEF AGoes, AInv, SeqStep, a, b

\* Calls that change nothing.
LEMMA AAsks ==
    ASSUME AInv, a_data' = a_data, length' = length, Asks(AValues(a_data, length), a_ret')
    PROVE  AGoes
<1>1. AInv'
  BY DEF AInv
<1>. QED  BY <1>1 DEF AGoes, SeqStep

LEMMA ARemoveRange ==
    ASSUME AInv, NEW k \in Int, NEW c \in Int, A!arraylist_remove_range(k, c)
    PROVE  AGoes
<1> DEFINE n == length
           a == AValues(a_data, n)
           b == AValues(a_data', n - c)
<1>1. PICK m : Array(a_data, m, length)
  BY DEF AInv
<1>2. /\ n \in Nat /\ a \in Seq(Data) /\ Len(a) = n
      /\ \A i \in 1 .. n : a[i] = a_data[i - 1] /\ a_data[i - 1] \in Data
  BY <1>1, AFacts
<1>3. CASE k < 0 \/ c < 0 \/ k + c > n
  BY <1>3, AAsks DEF A!arraylist_remove_range, Asks
<1>4. CASE ~ (k < 0 \/ c < 0 \/ k + c > n)
  <2>1. /\ a_data' = [i \in DOMAIN a_data |-> IF i \in k .. n - c - 1 THEN a_data[i + c] ELSE a_data[i]]
        /\ length' = n - c /\ a_ret' = Null
    BY <1>4 DEF A!arraylist_remove_range
  <2>2. k \in Nat /\ c \in Nat /\ k + c <= n /\ n - c \in Nat /\ n - c <= n
    BY <1>2, <1>4
  <2>3. m \in Nat /\ m >= 1 /\ DOMAIN a_data = 0 .. m - 1 /\ n <= m /\ n <= MaxLength
        /\ MaxLength \in Nat
    BY <1>1, SequencesAssumption DEF Array
  <2>4. DOMAIN a_data' = 0 .. m - 1
    BY <2>1, <2>3
  <2> HIDE DEF n, a
  <2>5. ASSUME NEW i \in 1 .. n - c
        PROVE  /\ i \in 1 .. n /\ i + c \in 1 .. n
               /\ a_data'[i - 1] = IF i < k + 1 THEN a[i] ELSE a[i + c]
    <3>1. /\ i \in 1 .. n /\ i + c \in 1 .. n /\ i - 1 \in 0 .. m - 1 /\ i + c - 1 = i - 1 + c
          /\ i < k + 1 <=> i - 1 \notin k .. n - c - 1
      BY <1>2, <2>2, <2>3
    <3>2. a_data'[i - 1] = IF i - 1 \in k .. n - c - 1 THEN a_data[i - 1 + c] ELSE a_data[i - 1]
      BY <2>1, <2>3, <3>1
    <3>3. a[i] = a_data[i - 1] /\ a[i + c] = a_data[i - 1 + c]
      BY <1>2, <3>1
    <3>. QED  BY <3>1, <3>2, <3>3
  <2>6. \A i \in 0 .. n - c - 1 : a_data'[i] \in Data
    <3> SUFFICES ASSUME NEW i \in 0 .. n - c - 1 PROVE a_data'[i] \in Data
      OBVIOUS
    <3>1. i + 1 \in 1 .. n - c /\ i + 1 - 1 = i
      BY <2>2
    <3>2. i + 1 \in 1 .. n /\ i + 1 + c \in 1 .. n /\ a_data'[i] \in {a[i + 1], a[i + 1 + c]}
      BY <2>5, <3>1
    <3>3. \A j \in 1 .. n : a[j] \in Data
      BY <1>2
    <3>. QED  BY <3>2, <3>3
  <2>7. Array(a_data', m, length')
    <3>1. n - c <= m /\ n - c <= MaxLength
      BY <1>2, <2>2, <2>3
    <3>. QED  BY <2>1, <2>2, <2>3, <2>4, <2>6, <3>1 DEF Array
  <2>8. b \in Seq(Data) /\ Len(b) = n - c /\ \A i \in 1 .. n - c : b[i] = a_data'[i - 1]
    BY <2>1, <2>7, AFacts, SMTT(30)
  <2> HIDE DEF b
  <2>9. Cut(a, k + 1, c, b)
    BY <1>2, <2>5, <2>8 DEF Cut
  <2>10. SeqStep(a, b, a_ret')
    <3>1. CASE k < n
      <4>1. k + 1 \in 1 .. Len(a) /\ c \in 0 .. Len(a) + 1 - (k + 1)
        BY <1>2, <2>2, <3>1
      <4>. QED  BY <2>1, <2>9, <4>1 DEF SeqStep, Removes
    <3>2. CASE ~ (k < n)
      <4>1. c = 0 /\ k = n /\ n - c = n /\ \A i \in 1 .. n : i < k + 1
        BY <1>2, <2>2, <3>2
      <4>2. Len(b) = Len(a) /\ \A i \in 1 .. n : b[i] = a[i]
        BY <1>2, <2>5, <2>8, <4>1
      <4>3. b = a
        BY <1>2, <2>8, <4>2
      <4>. QED  BY <2>1, <4>3 DEF SeqStep, Asks
    <3>. QED  BY <3>1, <3>2
  <2>. QED  BY <2>1, <2>7, <2>10 DEF AGoes, AInv, a, b, n
<1>. QED  BY <1>3, <1>4

LEMMA HasLeast ==
    ASSUME NEW N \in Nat, NEW T, T \subseteq 0 .. N, NEW e \in T
    PROVE  \E i \in T : \A j \in T : i <= j
<1> SUFFICES ASSUME \A i \in T : \E j \in T : j < i PROVE FALSE
  <2>1. \A i, j \in T : ~ (i <= j) => j < i
    OBVIOUS
  <2>. QED  BY <2>1
<1> DEFINE K == {m \in 0 .. N : \A j \in T : j > m}
<1>1. 0 \in K
  <2>1. \A j \in T : j \in Nat
    OBVIOUS
  <2>2. 0 \notin T
    BY <2>1
  <2>3. \A j \in T : j > 0
    BY <2>1, <2>2
  <2>. QED  BY <2>3
<1>2. ASSUME NEW m \in 1 .. N, m - 1 \in K PROVE m \in K
  <2>1. \A j \in T : j > m - 1 /\ j \in Nat
    BY <1>2
  <2>2. m \notin T
    BY <2>1
  <2>3. \A j \in T : j > m
    BY <2>1, <2>2
  <2>. QED  BY <2>3
<1> HIDE DEF K
<1>3. \A m \in 0 .. N : m \in K
  BY <1>1, <1>2, StepByStep
<1>4. e \in K
  BY <1>3
<1>. QED  BY <1>4 DEF K

LEMMA AIndexOf ==
    ASSUME AInv, NEW d \in Data, A!arraylist_index_of(d)
    PROVE  AGoes
<1> DEFINE n == length
           a == AValues(a_data, n)
           T == {i \in 0 .. n - 1 : a_data[i] = d}
           q == CHOOSE i \in T : \A j \in T : i <= j
<1>1. PICK m : Array(a_data, m, length)
  BY DEF AInv
<1>2. /\ n \in Nat /\ a \in Seq(Data) /\ Len(a) = n
      /\ \A i \in 1 .. n : a[i] = a_data[i - 1]
  BY <1>1, AFacts
<1>3. a_ret' = (IF T = {} THEN -1 ELSE q) /\ a_data' = a_data /\ length' = length
  BY DEF A!arraylist_index_of
<1> HIDE DEF a, n
<1>4. \A i \in 0 .. n - 1 : i + 1 \in 1 .. n /\ a[i + 1] = a_data[i]
  <2> SUFFICES ASSUME NEW i \in 0 .. n - 1 PROVE i + 1 \in 1 .. n /\ a[i + 1] = a_data[i]
    OBVIOUS
  <2>1. i + 1 \in 1 .. n /\ i + 1 - 1 = i
    BY <1>2
  <2>. QED  BY <1>2, <2>1
<1>5. CASE T = {}
  <2>1. d \notin Elems(a)
    <3> SUFFICES ASSUME NEW i \in 1 .. n, a[i] = d PROVE FALSE
      BY <1>2 DEF Elems
    <3>1. i - 1 \in 0 .. n - 1 /\ a_data[i - 1] = d
      BY <1>2
    <3>. QED  BY <1>5, <3>1
  <2>2. IsIndex(a, d, a_ret') /\ a_ret' \in Int
    BY <1>3, <1>5, <2>1 DEF IsIndex
  <2>. QED  BY <1>3, <2>2, AAsks DEF Asks, a, n
<1>6. CASE T # {}
  <2>1. T \subseteq 0 .. n
    BY <1>2
  <2>2. \E i \in T : \A j \in T : i <= j
    <3>1. PICK e \in T : TRUE
      BY <1>6
    <3> HIDE DEF T
    <3>. QED  BY <1>2, <2>1, <3>1, HasLeast
  <2>3. q \in T /\ \A j \in T : q <= j
    BY <2>2, Zenon
  <2> HIDE DEF q
  <2>4. q \in 0 .. n - 1 /\ a_data[q] = d /\ \A j \in 0 .. n - 1 : j < q => a_data[j] # d
    <3>1. \A j \in T : ~ (j < q)
      BY <1>2, <2>3
    <3>. QED  BY <2>3, <3>1
  <2>5. ASSUME NEW j \in 1 .. q PROVE a[j] # d
    <3>1. j - 1 \in 0 .. n - 1 /\ j - 1 < q /\ j \in 1 .. n
      BY <1>2, <2>4
    <3>. QED  BY <1>2, <2>4, <3>1
  <2>6. q \in Int /\ IsIndex(a, d, q)
    BY <1>2, <1>4, <2>4, <2>5 DEF IsIndex
  <2>. QED  BY <1>3, <1>6, <2>6, AAsks DEF Asks, a, n
<1>. QED  BY <1>5, <1>6

LEMMA AClear ==
    ASSUME AInv, length' = 0, a_ret' = Null, \/ a_data' = a_data
                                             \/ \E k \in Lengths : a_data' = A!NewArray(k)
    PROVE  AGoes
<1>1. PICK p : Array(a_data', p, length')
  <2>0. MaxLength \in Nat /\ Lengths \subseteq Int
    BY SequencesAssumption
  <2>1. CASE a_data' = a_data
    <3>1. PICK m : Array(a_data, m, length)
      BY DEF AInv
    <3>2. m \in Nat /\ m >= 1 /\ DOMAIN a_data' = 0 .. m - 1
      BY <2>1, <3>1 DEF Array
    <3>3. Array(a_data', m, length')
      BY <2>0, <3>2 DEF Array
    <3>. QED  BY <3>3
  <2>2. CASE \E k \in Lengths : a_data' = A!NewArray(k)
    <3>1. PICK k \in Lengths : a_data' = A!NewArray(k)
      BY <2>2
    <3> DEFINE m == IF k <= 0 THEN 16 ELSE k
    <3>2. m \in Nat /\ m >= 1
      BY <2>0
    <3>3. DOMAIN a_data' = 0 .. m - 1
      BY <3>1 DEF A!NewArray
    <3> HIDE DEF m
    <3>4. Array(a_data', m, length')
      BY <2>0, <3>2, <3>3 DEF Array
    <3>. QED  BY <3>4
  <2>. QED  BY <2>1, <2>2
<1>2. AValues(a_data', length') = <<>>
  BY DEF AValues
<1>. QED  BY <1>1, <1>2 DEF AGoes, AInv, SeqStep

LEMMA SwapFacts ==
    ASSUME NEW E, NEW s \in Seq(E), NEW i \in 1 .. Len(s), NEW j \in 1 .. Len(s)
    PROVE  /\ A!Swap(s, i, j) \in Seq(E) /\ Len(A!Swap(s, i, j)) = Len(s)
           /\ A!Swap(s, i, j)[i] = s[j] /\ A!Swap(s, i, j)[j] = s[i]
           /\ \A m \in 1 .. Len(s) : m # i /\ m # j => A!Swap(s, i, j)[m] = s[m]
           /\ \A x : Copies(A!Swap(s, i, j), x) = Copies(s, x)
<1> DEFINE t == A!Swap(s, i, j)
           To(m) == IF m = i THEN j ELSE IF m = j THEN i ELSE m
<1>1. \A m \in 1 .. Len(s) : s[m] \in E
  OBVIOUS
<1>2. t = [m \in 1 .. Len(s) |-> IF m = j THEN s[i] ELSE IF m = i THEN s[j] ELSE s[m]]
  BY DEF A!Swap
<1>3. t \in Seq(E) /\ Len(t) = Len(s)
  BY <1>1, <1>2
<1>4. \A m \in 1 .. Len(s) : t[m] = s[To(m)] /\ To(m) \in 1 .. Len(s) /\ To(To(m)) = m
  BY <1>2
<1>5. ASSUME NEW x PROVE Copies(t, x) = Copies(s, x)
  <2> DEFINE p == [m \in Places(t, x) |-> To(m)]
  <2> HIDE DEF t
  <2>1. /\ \A m : m \in Places(t, x) <=> m \in 1 .. Len(s) /\ s[To(m)] = x
        /\ \A m : m \in Places(s, x) <=> m \in 1 .. Len(s) /\ s[m] = x
    BY <1>3, <1>4 DEF Places
  <2> HIDE DEF To
  <2>2. p \in [Places(t, x) -> Places(s, x)]
    BY <1>4, <2>1
  <2>3. \A k, m \in Places(t, x) : p[k] = p[m] => k = m
    BY <1>4, <2>1
  <2>4. \A m \in Places(s, x) : \E k \in Places(t, x) : p[k] = m
    BY <1>4, <2>1
  <2> HIDE DEF p
  <2>. QED  BY <1>3, <2>2, <2>3, <2>4, CopiesBijection
<1>6. t[i] = s[j] /\ t[j] = s[i] /\ \A m \in 1 .. Len(s) : m # i /\ m # j => t[m] = s[m]
  BY <1>2
<1>. QED  BY <1>3, <1>5, <1>6

\* The first i values of s are divided at p.less into those below the last one
\* and the others.
Divided(s, i, p) ==
    /\ p = [s |-> p.s, less |-> p.less] /\ p.s \in Seq(Data) /\ Len(p.s) = Len(s)
    /\ \A x : Copies(p.s, x) = Copies(s, x)
    /\ p.less \in 0 .. i
    /\ \A j \in 1 .. p.less : p.s[j] < s[Len(s)]
    /\ \A j \in p.less + 1 .. i : p.s[j] >= s[Len(s)]
    /\ \A j \in i + 1 .. Len(s) : p.s[j] = s[j]

Turn(s, p, i) ==
    IF p.s[i] < s[Len(s)] THEN [s |-> A!Swap(p.s, i, p.less + 1), less |-> p.less + 1] ELSE p

LEMMA TurnDivides ==
    ASSUME NEW s \in Seq(Data), NEW i \in 1 .. Len(s) - 1, NEW p, Divided(s, i - 1, p)
    PROVE  Divided(s, i, Turn(s, p, i))
<1> DEFINE n == Len(s)
           v == s[n]
           k == p.less
           u == p.s
<1>1. /\ p = [s |-> u, less |-> k] /\ u \in Seq(Data) /\ Len(u) = n
      /\ \A x : Copies(u, x) = Copies(s, x)
      /\ k \in 0 .. i - 1
      /\ \A j \in 1 .. k : u[j] < v
      /\ \A j \in k + 1 .. i - 1 : u[j] >= v
      /\ \A j \in (i - 1) + 1 .. n : u[j] = s[j]
  BY DEF Divided
<1>2. n \in Nat /\ i \in 1 .. n - 1 /\ k \in Nat
  BY <1>1
<1>3. /\ Data \subseteq Int /\ v \in Int /\ \A j \in 1 .. n : u[j] \in Int
  <2>1. Data \subseteq Int /\ n \in 1 .. n
    BY <1>2, ListAssumption
  <2>. QED  BY <1>1, <2>1
<1>4. Turn(s, p, i) = IF u[i] < v THEN [s |-> A!Swap(u, i, k + 1), less |-> k + 1] ELSE p
  BY DEF Turn
<1> HIDE DEF v, k, u, n
<1>5. CASE ~ (u[i] < v)
  <2>1. u[i] >= v
    BY <1>2, <1>3, <1>5
  <2>2. \A j \in k + 1 .. i : u[j] >= v
    <3>1. \A j \in k + 1 .. i : j = i \/ j \in k + 1 .. i - 1
      BY <1>2
    <3>. QED  BY <1>1, <2>1, <3>1
  <2>3. k \in 0 .. i /\ \A j \in i + 1 .. n : u[j] = s[j]
    BY <1>1, <1>2
  <2>4. Turn(s, p, i) = p
    BY <1>4, <1>5
  <2>5. Divided(s, i, p)
    BY <1>1, <2>2, <2>3 DEF Divided, n, v, k, u
  <2>. QED  BY <2>4, <2>5
<1>6. CASE u[i] < v
  <2> DEFINE t == A!Swap(u, i, k + 1)
             r == [s |-> t, less |-> k + 1]
  <2>1. i \in 1 .. Len(u) /\ k + 1 \in 1 .. Len(u)
    BY <1>1, <1>2
  <2>2. /\ t \in Seq(Data) /\ Len(t) = n /\ t[i] = u[k + 1] /\ t[k + 1] = u[i]
        /\ \A m \in 1 .. n : m # i /\ m # k + 1 => t[m] = u[m]
        /\ \A x : Copies(t, x) = Copies(u, x)
    BY <1>1, <2>1, SwapFacts, ZenonT(60)
  <2> HIDE DEF t
  <2>3. \A j \in 1 .. k + 1 : t[j] < v
    <3> SUFFICES ASSUME NEW j \in 1 .. k + 1 PROVE t[j] < v
      OBVIOUS
    <3>1. CASE j = k + 1
      BY <1>6, <2>2, <3>1
    <3>2. CASE j # k + 1
      <4>1. j \in 1 .. k /\ j \in 1 .. n /\ j # i
        BY <1>1, <1>2, <3>2
      <4>. QED  BY <1>1, <2>2, <3>2, <4>1
    <3>. QED  BY <3>1, <3>2
  <2>4. \A j \in k + 2 .. i : t[j] >= v
    <3> SUFFICES ASSUME NEW j \in k + 2 .. i PROVE t[j] >= v
      OBVIOUS
    <3>1. CASE j = i
      <4>1. k + 1 \in k + 1 .. i - 1
        BY <1>2, <3>1
      <4>. QED  BY <1>1, <2>2, <3>1, <4>1
    <3>2. CASE j # i
      <4>1. j \in k + 1 .. i - 1 /\ j \in 1 .. n /\ j # k + 1
        BY <1>1, <1>2, <3>2
      <4>. QED  BY <1>1, <2>2, <3>2, <4>1
    <3>. QED  BY <3>1, <3>2
  <2>5. \A j \in i + 1 .. n : t[j] = s[j]
    <3> SUFFICES ASSUME NEW j \in i + 1 .. n PROVE t[j] = s[j]
      OBVIOUS
    <3>1. j \in (i - 1) + 1 .. n /\ j \in 1 .. n /\ j # i /\ j # k + 1
      BY <1>1, <1>2
    <3>. QED  BY <1>1, <2>2, <3>1
  <2>6. r.s = t /\ r.less = k + 1 /\ r = [s |-> r.s, less |-> r.less]
    OBVIOUS
  <2>7. k + 1 \in 0 .. i /\ (k + 1) + 1 = k + 2
    BY <1>1, <1>2
  <2> HIDE DEF r
  <2>8. /\ r = [s |-> r.s, less |-> r.less] /\ r.s \in Seq(Data) /\ Len(r.s) = n
        /\ \A x : Copies(r.s, x) = Copies(s, x)
        /\ r.less \in 0 .. i
        /\ \A j \in 1 .. r.less : r.s[j] < v
        /\ \A j \in r.less + 1 .. i : r.s[j] >= v
        /\ \A j \in i + 1 .. n : r.s[j] = s[j]
    BY <1>1, <2>2, <2>3, <2>4, <2>5, <2>6, <2>7
  <2>9. Divided(s, i, r)
    BY <2>8 DEF Divided, n, v
  <2>. QED  BY <1>4, <1>6, <2>9 DEF r, t
<1>. QED  BY <1>5, <1>6

\* The values before the last one, divided, and the last one behind them.
LEMMA PartitionIs ==
    ASSUME NEW s \in Seq(Data), Len(s) >= 1
    PROVE  \E p : /\ Divided(s, Len(s) - 1, p)
                  /\ A!Partitioned(s) = [s |-> A!Swap(p.s, Len(s), p.less + 1), less |-> p.less]
<1> DEFINE n == Len(s)
           N == n - 1
           nil == [s |-> s, less |-> 0]
           W == [s : Seq(Data), less : Nat]
           Def(f) == f = [i \in 0 .. N |-> IF i = 0 THEN nil ELSE Turn(s, f[i - 1], i)]
           g == [q \in (1 .. N) \X W |-> IF Divided(s, q[1] - 1, q[2]) THEN Turn(s, q[2], q[1]) ELSE nil]
<1>1. N \in Nat /\ n \in Nat /\ 1 .. N = 1 .. Len(s) - 1
  OBVIOUS
<1>2. A!Partitioned(s) = [s |-> A!Swap((CHOOSE f : Def(f))[N].s, Len(s), (CHOOSE f : Def(f))[N].less + 1),
                          less |-> (CHOOSE f : Def(f))[N].less]
  BY Zenon DEF A!Partitioned, Turn
<1>3. Divided(s, 0, nil)
  <2>1. nil.s = s /\ nil.less = 0
    OBVIOUS
  <2>2. nil = [s |-> nil.s, less |-> nil.less]
    OBVIOUS
  <2>3. 0 \in 0 .. 0 /\ 1 .. 0 = {} /\ 0 + 1 .. 0 = {}
    OBVIOUS
  <2> HIDE DEF nil
  <2>. QED  BY <2>1, <2>2, <2>3 DEF Divided
<1>4. \A i \in 0 .. N : \A p : Divided(s, i, p) => p \in W
  <2> SUFFICES ASSUME NEW i \in 0 .. N, NEW p, Divided(s, i, p) PROVE p \in W
    OBVIOUS
  <2>1. p = [s |-> p.s, less |-> p.less] /\ p.s \in Seq(Data) /\ p.less \in 0 .. i
    BY DEF Divided
  <2>2. p.less \in Nat
    BY <2>1
  <2>. QED  BY <2>1, <2>2
<1>5. \A m \in 1 .. N : \A p : Divided(s, m - 1, p) => Divided(s, m, Turn(s, p, m))
  BY <1>1, TurnDivides
<1> HIDE DEF nil, W, N, n
<1>6. \A m \in 1 .. N : m \in 0 .. N /\ m - 1 \in 0 .. N /\ m # 0
  BY <1>1
<1>7. nil \in W
  <2>1. 0 \in 0 .. N
    BY <1>1
  <2>. QED  BY <1>3, <1>4, <2>1
<1>8. \A m \in 1 .. N, p \in W : g[<<m, p>>] = IF Divided(s, m - 1, p) THEN Turn(s, p, m) ELSE nil
  OBVIOUS
<1>9. g \in [(1 .. N) \X W -> W]
  <2>1. \A m \in 1 .. N, p \in W : (IF Divided(s, m - 1, p) THEN Turn(s, p, m) ELSE nil) \in W
    BY <1>4, <1>5, <1>6, <1>7
  <2>. QED  BY <2>1
<1> HIDE DEF g
<1>10. PICK h \in [0 .. N -> W] : Loop(N, nil, g, h)
  BY <1>1, <1>7, <1>9, LoopRuns
<1>11. h[0] = nil /\ \A m \in 1 .. N : h[m] = g[<<m, h[m - 1]>>]
  BY <1>10 DEF Loop
<1>12. \A m \in 0 .. N : Divided(s, m, h[m])
  <2> DEFINE K == {m \in 0 .. N : Divided(s, m, h[m])}
  <2>1. 0 \in K
    BY <1>1, <1>3, <1>11
  <2>2. ASSUME NEW m \in 1 .. N, m - 1 \in K PROVE m \in K
    <3>1. Divided(s, m - 1, h[m - 1]) /\ h[m - 1] \in W
      BY <1>6, <2>2
    <3>2. h[m] = Turn(s, h[m - 1], m)
      BY <1>8, <1>11, <3>1
    <3>. QED  BY <1>5, <1>6, <3>1, <3>2
  <2> HIDE DEF K
  <2>3. \A m \in 0 .. N : m \in K
    BY <1>1, <2>1, <2>2, StepByStep
  <2>. QED  BY <2>3 DEF K
<1>13. Def(h)
  <2>1. ASSUME NEW i \in 0 .. N PROVE h[i] = IF i = 0 THEN nil ELSE Turn(s, h[i - 1], i)
    <3>1. i = 0 \/ i \in 1 .. N
      BY <1>1
    <3>2. ASSUME i \in 1 .. N PROVE h[i] = Turn(s, h[i - 1], i)
      <4>1. h[i - 1] \in W /\ Divided(s, i - 1, h[i - 1])
        BY <1>6, <1>12, <3>2
      <4>. QED  BY <1>8, <1>11, <3>2, <4>1
    <3>. QED  BY <1>6, <1>11, <3>1, <3>2
  <2>2. h = [i \in 0 .. N |-> h[i]]
    OBVIOUS
  <2>. QED  BY <2>1, <2>2
<1> DEFINE f == CHOOSE f : Def(f)
<1>14. Def(f)
  BY <1>13
<1>15. \A i \in 0 .. N : f[i] = IF i = 0 THEN nil ELSE Turn(s, f[i - 1], i)
  BY <1>14
<1>16. A!Partitioned(s) = [s |-> A!Swap(f[N].s, Len(s), f[N].less + 1), less |-> f[N].less]
  BY <1>2
<1> HIDE DEF f, Def
<1>17. \A m \in 0 .. N : Divided(s, m, f[m])
  <2> DEFINE K == {m \in 0 .. N : Divided(s, m, f[m])}
  <2>1. 0 \in K
    <3>1. 0 \in 0 .. N
      BY <1>1
    <3>2. f[0] = nil
      BY <1>15, <3>1, Zenon
    <3>. QED  BY <1>3, <3>1, <3>2
  <2>2. ASSUME NEW m \in 1 .. N, m - 1 \in K PROVE m \in K
    <3>1. f[m] = Turn(s, f[m - 1], m) /\ Divided(s, m - 1, f[m - 1])
      BY <1>6, <1>15, <2>2
    <3>. QED  BY <1>5, <1>6, <3>1
  <2> HIDE DEF K
  <2>3. \A m \in 0 .. N : m \in K
    BY <1>1, <2>1, <2>2, StepByStep
  <2>. QED  BY <2>3 DEF K
<1>18. Divided(s, N, f[N])
  BY <1>1, <1>17
<1>. QED  BY <1>16, <1>18 DEF N, n

LEMMA Partition ==
    ASSUME NEW s \in Seq(Data), Len(s) >= 1,
           NEW u, u = A!Partitioned(s).s, NEW k, k = A!Partitioned(s).less
    PROVE  /\ u \in Seq(Data) /\ Len(u) = Len(s) /\ \A x : Copies(u, x) = Copies(s, x)
           /\ k \in 0 .. Len(s) - 1
           /\ \A j \in 1 .. k : u[j] <= u[k + 1]
           /\ \A j \in k + 2 .. Len(s) : u[k + 1] <= u[j]
<1> DEFINE n == Len(s)
           v == s[n]
<1>1. PICK p : /\ Divided(s, n - 1, p)
               /\ A!Partitioned(s) = [s |-> A!Swap(p.s, n, p.less + 1), less |-> p.less]
  BY PartitionIs
<1> DEFINE w == p.s
<1>2. k = p.less /\ u = A!Swap(w, n, k + 1)
  BY <1>1
<1>3. /\ w \in Seq(Data) /\ Len(w) = n
      /\ \A x : Copies(w, x) = Copies(s, x)
      /\ k \in 0 .. n - 1
      /\ \A j \in 1 .. k : w[j] < v
      /\ \A j \in k + 1 .. n - 1 : w[j] >= v
      /\ \A j \in (n - 1) + 1 .. n : w[j] = v
  <2>1. n \in Nat
    OBVIOUS
  <2>2. \A j \in (n - 1) + 1 .. n : j = n
    BY <2>1
  <2>. QED  BY <1>1, <1>2, <2>2 DEF Divided
<1>4. n \in Nat /\ n >= 1 /\ n \in 1 .. n /\ k + 1 \in 1 .. n /\ n \in (n - 1) + 1 .. n
  <2>1. n \in Nat /\ n >= 1
    OBVIOUS
  <2>2. k \in 0 .. n - 1
    BY <1>3
  <2> HIDE DEF n
  <2>. QED  BY <2>1, <2>2
<1>5. Data \subseteq Int /\ v \in Int
  <2>1. Data \subseteq Int
    BY ListAssumption
  <2>2. v \in Data
    BY <1>4
  <2>. QED  BY <2>1, <2>2
<1> HIDE DEF w, v
<1>w. w \in Seq(Data) /\ Len(w) = n
  BY <1>3
<1>6. \A j \in 1 .. n : w[j] \in Int
  <2> HIDE DEF n
  <2>1. \A j \in 1 .. Len(w) : w[j] \in Data
    BY <1>w
  <2>. QED  BY <1>5, <1>w, <2>1
<1>7. /\ u \in Seq(Data) /\ Len(u) = n /\ u[n] = w[k + 1] /\ u[k + 1] = w[n]
      /\ \A m \in 1 .. n : m # n /\ m # k + 1 => u[m] = w[m]
      /\ \A x : Copies(u, x) = Copies(w, x)
  <2>1. w \in Seq(Data) /\ n = Len(w) /\ n \in 1 .. Len(w) /\ k + 1 \in 1 .. Len(w)
    BY <1>4, <1>w
  <2> HIDE DEF n
  <2>2. /\ A!Swap(w, n, k + 1) \in Seq(Data) /\ Len(A!Swap(w, n, k + 1)) = Len(w)
        /\ A!Swap(w, n, k + 1)[n] = w[k + 1] /\ A!Swap(w, n, k + 1)[k + 1] = w[n]
        /\ \A m \in 1 .. Len(w) : m # n /\ m # k + 1 => A!Swap(w, n, k + 1)[m] = w[m]
        /\ \A x : Copies(A!Swap(w, n, k + 1), x) = Copies(w, x)
    <3> DEFINE j == k + 1
    <3>1. j \in 1 .. Len(w)
      BY <2>1
    <3> HIDE DEF j
    <3>2. /\ A!Swap(w, n, j) \in Seq(Data) /\ Len(A!Swap(w, n, j)) = Len(w)
          /\ A!Swap(w, n, j)[n] = w[j] /\ A!Swap(w, n, j)[j] = w[n]
          /\ \A m \in 1 .. Len(w) : m # n /\ m # j => A!Swap(w, n, j)[m] = w[m]
          /\ \A x : Copies(A!Swap(w, n, j), x) = Copies(w, x)
      BY <2>1, <3>1, SwapFacts
    <3>. QED  BY <3>2 DEF j
  <2>. QED  BY <1>2, <2>1, <2>2
<1> HIDE DEF n
<1>8. u[k + 1] = v
  BY <1>3, <1>4, <1>7
<1>9. ASSUME NEW j \in 1 .. k PROVE u[j] <= v
  <2>1. j \in 1 .. n /\ j # n /\ j # k + 1
    BY <1>3, <1>4
  <2>2. u[j] = w[j] /\ w[j] < v /\ w[j] \in Int
    BY <1>3, <1>6, <1>7, <2>1
  <2>. QED  BY <1>5, <2>2
<1>10. ASSUME NEW j \in k + 2 .. n PROVE v <= u[j]
  <2> DEFINE i == IF j = n THEN k + 1 ELSE j
  <2>1. j \in 1 .. n /\ j # k + 1 /\ i \in k + 1 .. n - 1 /\ i \in 1 .. n
    BY <1>3, <1>4
  <2>2. u[j] = w[i]
    BY <1>7, <2>1
  <2> HIDE DEF i
  <2>3. w[i] >= v /\ w[i] \in Int
    BY <1>3, <1>6, <2>1
  <2>. QED  BY <1>5, <2>2, <2>3
<1>. QED  BY <1>3, <1>7, <1>8, <1>9, <1>10 DEF n

\* What arraylist_sort_internal sorts on both sides of the pivot.
Lower(t) == SubSeq(A!Partitioned(t).s, 1, A!Partitioned(t).less)
Pivot(t) == A!Partitioned(t).s[A!Partitioned(t).less + 1]
Upper(t) == SubSeq(A!Partitioned(t).s, A!Partitioned(t).less + 2, Len(t))

LEMMA ArrayParts ==
    ASSUME NEW t \in Seq(Data), Len(t) >= 2
    PROVE  /\ Lower(t) \in Seq(Data) /\ Pivot(t) \in Data /\ Upper(t) \in Seq(Data)
           /\ Parts(t, Lower(t), Pivot(t), Upper(t))
           /\ \A x \in Elems(Lower(t)) : x <= Pivot(t)
           /\ \A x \in Elems(Upper(t)) : Pivot(t) <= x
<1> DEFINE u == A!Partitioned(t).s
           k == A!Partitioned(t).less
           n == Len(t)
           l == SubSeq(u, 1, k)
           r == SubSeq(u, k + 2, n)
           p == u[k + 1]
<1>0. Len(t) >= 1 /\ Len(t) \in Nat
  OBVIOUS
<1>1. /\ u \in Seq(Data) /\ Len(u) = n /\ \A x : Copies(u, x) = Copies(t, x)
      /\ k \in 0 .. n - 1
      /\ \A j \in 1 .. k : u[j] <= u[k + 1]
      /\ \A j \in k + 2 .. n : u[k + 1] <= u[j]
  BY <1>0, Partition
<1> HIDE DEF u, k
<1>2. n \in Nat /\ k \in Nat /\ k \in 0 .. Len(u) /\ k + 1 \in 1 .. Len(u) /\ k + 2 \in 1 .. n + 1
  <2>1. k \in 0 .. n - 1 /\ Len(u) = n /\ n \in Nat
    BY <1>1
  <2> HIDE DEF n
  <2>. QED  BY <2>1
<1>3. p \in Data
  BY <1>1, <1>2
<1>4. l \in Seq(Data) /\ Len(l) = k /\ \A i \in 1 .. k : l[i] = u[i]
  BY <1>1, <1>2
<1>5. r \in Seq(Data) /\ Len(r) = n - k - 1 /\ \A i \in 1 .. n - k - 1 : r[i] = u[k + 1 + i]
  <2> DEFINE m == k + 2
  <2>0. m \in 1 .. n + 1 /\ u \in Seq(Data) /\ Len(u) = n
    BY <1>1, <1>2
  <2> HIDE DEF m, n
  <2>1. CASE m = n + 1
    <3>1. SubSeq(u, m, n) = <<>>
      BY <1>2, <2>1
    <3>2. n - k - 1 = 0
      BY <1>2, <2>1 DEF m
    <3>3. r = <<>>
      BY <3>1 DEF m
    <3> HIDE DEF r
    <3>4. r \in Seq(Data) /\ Len(r) = 0 /\ 1 .. 0 = {}
      BY <3>3
    <3>. QED  BY <3>2, <3>4
  <2>2. CASE m \in 1 .. n
    <3>1. SubSeq(u, m, n) \in Seq(Data) /\ Len(SubSeq(u, m, n)) = n - m + 1
      BY <2>0, <2>2
    <3>2. \A i \in 1 .. n - m + 1 : SubSeq(u, m, n)[i] = u[m + i - 1]
      BY <2>0, <2>2
    <3>3. n - m + 1 = n - k - 1 /\ \A i \in 1 .. n - k - 1 : m + i - 1 = k + 1 + i
      BY <1>2 DEF m
    <3>. QED  BY <3>1, <3>2, <3>3 DEF m
  <2>. QED  BY <1>2, <2>0, <2>1, <2>2
<1> HIDE DEF n, p, l, r
<1> DEFINE c == l \o <<p>>
           q == c \o r
<1>6. /\ c \in Seq(Data) /\ Len(c) = k + 1 /\ c[k + 1] = p /\ \A i \in 1 .. k : c[i] = u[i]
  BY <1>2, <1>3, <1>4, SMTT(30)
<1> HIDE DEF c
<1>7. q = u
  <2>1. /\ q \in Seq(Data) /\ Len(q) = Len(c) + Len(r) /\ \A i \in 1 .. Len(c) : q[i] = c[i]
        /\ \A i \in 1 .. Len(r) : q[Len(c) + i] = r[i]
    <3>1. c \in Seq(Data) /\ r \in Seq(Data)
      BY <1>5, <1>6
    <3>. QED  BY <3>1
  <2> HIDE DEF q
  <2>2. Len(q) = n
    <3>1. Len(c) = k + 1 /\ Len(r) = n - k - 1 /\ Len(q) = Len(c) + Len(r)
      BY <1>5, <1>6, <2>1
    <3>. QED  BY <1>2, <3>1
  <2>3. ASSUME NEW i \in 1 .. n PROVE q[i] = u[i]
    <3>1. CASE i \in 1 .. k
      <4>1. i \in 1 .. k + 1
        BY <1>2, <3>1
      <4>. QED  BY <1>6, <2>1, <3>1, <4>1
    <3>2. CASE i = k + 1
      <4>1. k + 1 \in 1 .. k + 1
        BY <1>2
      <4>. QED  BY <1>6, <2>1, <3>2, <4>1 DEF p
    <3>3. CASE i > k + 1
      <4>1. i - (k + 1) \in 1 .. n - k - 1 /\ k + 1 + (i - (k + 1)) = i
        BY <1>2, <3>3
      <4>. QED  BY <1>5, <1>6, <2>1, <4>1, SMTT(30)
    <3>. QED  BY <1>2, <3>1, <3>2, <3>3
  <2>. QED  BY <1>1, <2>1, <2>2, <2>3
<1>8. ASSUME NEW x PROVE Copies(t, x) = Copies(l, x) + Copies(r, x) + IF p = x THEN 1 ELSE 0
  <2>1. <<p>> \in Seq(Data)
    BY <1>3
  <2>2. Copies(c, x) = Copies(l, x) + Copies(<<p>>, x)
    BY <1>4, <2>1, CopiesConcat DEF c
  <2>3. Copies(q, x) = Copies(c, x) + Copies(r, x)
    BY <1>5, <1>6, CopiesConcat
  <2>4. Copies(t, x) = Copies(q, x)
    BY <1>1, <1>7
  <2>5. Copies(l, x) \in Nat /\ Copies(r, x) \in Nat /\ Copies(<<p>>, x) = IF p = x THEN 1 ELSE 0
    BY <1>4, <1>5, CopiesNat, CopiesSingle
  <2> HIDE DEF q
  <2>. QED  BY <2>2, <2>3, <2>4, <2>5
<1>9. Parts(t, l, p, r)
  <2>1. Len(l) + Len(r) + 1 = Len(t)
    <3>1. Len(l) = k /\ Len(r) = n - k - 1 /\ Len(t) = n
      BY <1>4, <1>5 DEF n
    <3>. QED  BY <1>2, <3>1
  <2>. QED  BY <1>8, <2>1 DEF Parts
<1>10. \A x \in Elems(l) : x <= p
  <2> SUFFICES ASSUME NEW i \in 1 .. k PROVE l[i] <= p
    BY <1>4 DEF Elems
  <2>. QED  BY <1>1, <1>4 DEF p
<1>11. \A x \in Elems(r) : p <= x
  <2> SUFFICES ASSUME NEW i \in 1 .. n - k - 1 PROVE p <= r[i]
    BY <1>5 DEF Elems
  <2>1. k + 1 + i \in k + 2 .. n
    BY <1>2
  <2>. QED  BY <1>1, <1>5, <2>1 DEF p
<1>. QED  BY <1>3, <1>4, <1>5, <1>9, <1>10, <1>11 DEF l, r, p, u, k, n, Lower, Pivot, Upper

LEMMA ArraySorted ==
    ASSUME NEW s \in Seq(Data), Len(s) <= MaxLength
    PROVE  /\ A!Sorted(s) \in Seq(Data) /\ Len(A!Sorted(s)) = Len(s)
           /\ \A x : Copies(A!Sorted(s), x) = Copies(s, x)
           /\ \A i, j \in 1 .. Len(s) : i < j => A!Sorted(s)[i] <= A!Sorted(s)[j]
<1> DEFINE B == BoundedSeq(Data, MaxLength)
           L == [t \in B |-> Lower(t)]
           P == [t \in B |-> Pivot(t)]
           R == [t \in B |-> Upper(t)]
           key == [e \in Data |-> e]
           Def(f) == f = [t \in A!BoundedSeq(Data, MaxLength) |->
                            IF Len(t) <= 1 THEN t ELSE f[Lower(t)] \o <<Pivot(t)>> \o f[Upper(t)]]
<1>0. MaxLength \in Nat /\ Data \subseteq Int
  BY SequencesAssumption, ListAssumption
<1>1. \A t \in B : t \in Seq(Data) /\ Len(t) \in Nat
  BY <1>0, BoundedSeqs
<1>2. \A t \in B : L[t] = Lower(t) /\ P[t] = Pivot(t) /\ R[t] = Upper(t)
  OBVIOUS
<1>3. A!Sorted(s) = (CHOOSE f : Def(f))[s]
  BY Zenon DEF A!Sorted, Lower, Pivot, Upper
<1>4. A!BoundedSeq(Data, MaxLength) = B
  BY Zenon DEF A!BoundedSeq, BoundedSeq, A!SeqOf, SeqOf
<1>5. ASSUME NEW f PROVE Def(f) <=> Sorts(B, L, P, R, f)
  <2>1. [t \in B |-> IF Len(t) < 2 THEN t ELSE f[L[t]] \o <<P[t]>> \o f[R[t]]]
        = [t \in B |-> IF Len(t) <= 1 THEN t ELSE f[Lower(t)] \o <<Pivot(t)>> \o f[Upper(t)]]
    <3>1. \A t \in B : Len(t) < 2 <=> Len(t) <= 1
      BY <1>1
    <3> HIDE DEF L, P, R, B
    <3>. QED  BY <1>2, <3>1
  <2> HIDE DEF L, P, R, B
  <2>. QED  BY <1>4, <2>1 DEF Sorts
<1> HIDE DEF L, P, R, Def
<1>6. Splits(Data, MaxLength, L, P, R)
  BY <1>1, <1>2, ArrayParts DEF Splits
<1>7. Pivots(Data, MaxLength, key, L, P, R)
  <2> SUFFICES ASSUME NEW t \in B, Len(t) >= 2
               PROVE  /\ \A x \in Elems(L[t]) : key[x] <= key[P[t]]
                      /\ \A x \in Elems(R[t]) : key[P[t]] <= key[x]
    BY DEF Pivots
  <2>1. /\ L[t] \in Seq(Data) /\ P[t] \in Data /\ R[t] \in Seq(Data)
        /\ \A x \in Elems(L[t]) : x <= P[t]
        /\ \A x \in Elems(R[t]) : P[t] <= x
    BY <1>1, <1>2, ArrayParts
  <2>2. Elems(L[t]) \subseteq Data /\ Elems(R[t]) \subseteq Data
    BY <2>1 DEF Elems
  <2>. QED  BY <2>1, <2>2
<1>8. \A e \in Data : key[e] \in Int /\ key[e] = e
  BY <1>0
<1> HIDE DEF key
<1>9. \E f : Sorts(B, L, P, R, f)
  BY <1>0, <1>6, SortExists
<1> DEFINE g == CHOOSE f : Def(f)
<1>10. Def(g)
  BY <1>5, <1>9
<1>11. Sorts(B, L, P, R, g)
  BY <1>5, <1>10
<1> HIDE DEF g
<1>12. s \in B
  BY <1>0, BoundedSeqs
<1>13. SortedAs(Data, key, g[s], s)
  BY <1>0, <1>6, <1>7, <1>8, <1>11, <1>12, SortCorrect
<1>14. A!Sorted(s) = g[s]
  BY <1>3 DEF g
<1> DEFINE u == A!Sorted(s)
<1>15. /\ u \in Seq(Data) /\ Len(u) = Len(s) /\ \A x : Copies(u, x) = Copies(s, x)
       /\ \A i, j \in 1 .. Len(u) : i < j => key[u[i]] <= key[u[j]]
  BY <1>13, <1>14 DEF SortedAs, InOrder
<1> HIDE DEF u
<1>16. \A i \in 1 .. Len(u) : u[i] \in Data
  BY <1>15
<1>17. \A i, j \in 1 .. Len(s) : i < j => u[i] <= u[j]
  BY <1>8, <1>15, <1>16
<1>. QED  BY <1>15, <1>17 DEF u

LEMMA ASort ==
    ASSUME AInv, A!arraylist_sort
    PROVE  AGoes
<1> DEFINE n == length
           a == AValues(a_data, n)
           s == A!Sorted(a)
           b == AValues(a_data', n)
<1>1. PICK m : Array(a_data, m, length)
  BY DEF AInv
<1>2. n \in Nat /\ a \in Seq(Data) /\ Len(a) = n
  BY <1>1, AFacts
<1>3. m \in Nat /\ m >= 1 /\ DOMAIN a_data = 0 .. m - 1 /\ n <= m /\ n <= MaxLength
  BY <1>1 DEF Array
<1>4. A!Contents = a
  BY DEF A!Contents, AValues
<1>5. /\ a_data' = [i \in DOMAIN a_data |-> IF i < n THEN s[i + 1] ELSE a_data[i]]
      /\ a_ret' = Null /\ length' = length
  BY <1>4, Zenon DEF A!arraylist_sort
<1> HIDE DEF a
<1>6. /\ s \in Seq(Data) /\ Len(s) = n /\ \A x : Copies(s, x) = Copies(a, x)
      /\ \A i, j \in 1 .. n : i < j => s[i] <= s[j]
  BY <1>2, <1>3, ArraySorted
<1> HIDE DEF s, n
<1>7. \A i \in 1 .. n : i - 1 \in 0 .. m - 1 /\ i - 1 < n /\ i - 1 + 1 = i
  BY <1>2, <1>3
<1>8. ASSUME NEW i \in 1 .. n PROVE a_data'[i - 1] = s[i]
  <2>1. i - 1 \in DOMAIN a_data /\ i - 1 < n /\ i - 1 + 1 = i
    BY <1>3, <1>7
  <2>2. a_data'[i - 1] = s[i - 1 + 1]
    BY <1>5, <2>1
  <2>. QED  BY <2>1, <2>2
<1>9. \A i \in 0 .. n - 1 : a_data'[i] \in Data
  <2> SUFFICES ASSUME NEW i \in 0 .. n - 1 PROVE a_data'[i] \in Data
    OBVIOUS
  <2>1. i + 1 \in 1 .. n /\ i + 1 - 1 = i
    BY <1>2
  <2>2. a_data'[i] = s[i + 1]
    BY <1>8, <2>1
  <2>. QED  BY <1>6, <2>1, <2>2
<1>10. DOMAIN a_data' = 0 .. m - 1
  BY <1>3, <1>5
<1>11. Array(a_data', m, length')
  BY <1>2, <1>3, <1>5, <1>9, <1>10 DEF Array, n
<1>12. b = s
  <2>1. s = [i \in 1 .. n |-> s[i]]
    BY <1>6
  <2>. QED  BY <1>8, <2>1 DEF AValues
<1>13. Orders(a, b, a_ret')
  BY <1>5, <1>6, <1>12 DEF Orders
<1>. QED  BY <1>5, <1>11, <1>13 DEF AGoes, AInv, SeqStep, a, n

LEMMA AStepImplements ==
    ASSUME NEW a \in Seq(Data), NEW b \in Seq(Data), A!Contents = a, A!Contents' = b,
           SeqStep(a, b, a_ret')
    PROVE  A!AsSequence!Next
<1> DEFINE q == a_ret'
<1>0. Len(a) \in Nat /\ DOMAIN a = 1 .. Len(a) /\ DOMAIN b = 1 .. Len(b) /\ A!AsSequence!Elements = Elems(a)
  BY DEF A!AsSequence!Elements, A!AsSequence!Range, Elems
<1>1. CASE b = a /\ Asks(a, q)
  <2>1. \A r : q = r => A!AsSequence!Ask(r)
    BY <1>1 DEF A!AsSequence!Ask
  <2>2. CASE q \in {Null, 0}
    BY <2>1, <2>2 DEF A!AsSequence!Next
  <2>3. CASE q \in Elems(a)
    BY <1>0, <2>1, <2>3 DEF A!AsSequence!Next
  <2>4. CASE \E d \in Data : q \in Int /\ IsIndex(a, d, q)
    <3>1. PICK d \in Data : q \in Int /\ IsIndex(a, d, q)
      BY <2>4
    <3>2. A!AsSequence!IndexOf(d) = FirstIndex(a, d)
      BY <1>0 DEF A!AsSequence!IndexOf, FirstIndex
    <3>3. q = A!AsSequence!IndexOf(d)
      BY <3>1, <3>2, IndexUnique
    <3>. QED  BY <2>1, <3>3 DEF A!AsSequence!Next
  <2>. QED  BY <1>1, <2>2, <2>3, <2>4 DEF Asks
<1>2. CASE Inserts(a, b, q)
  <2>1. PICK d \in Data, k \in 1 .. Len(a) + 1 : Placed(a, k, d, b)
    BY <1>2 DEF Inserts
  <2>2. b = InsertAt(a, k, d)
    BY <2>1, InsertPlaces, PlacedUnique
  <2>3. A!AsSequence!Insert(k, d)
    BY <1>2, <2>2 DEF A!AsSequence!Insert, A!AsSequence!InsertAt, InsertAt, Inserts
  <2>. QED  BY <2>3 DEF A!AsSequence!Next
<1>3. CASE Removes(a, b, q)
  <2>0. PICK k \in 1 .. Len(a) : \E n \in 0 .. Len(a) + 1 - k : Cut(a, k, n, b)
    BY <1>3 DEF Removes
  <2>1. PICK n \in 0 .. Len(a) + 1 - k : Cut(a, k, n, b)
    BY <2>0
  <2>2. b = SubSeq(a, 1, k - 1) \o SubSeq(a, k + n, Len(a))
    BY <2>1, CutIs
  <2>3. A!AsSequence!RemoveRange(k, n)
    BY <1>3, <2>2 DEF A!AsSequence!RemoveRange, Removes
  <2>. QED  BY <1>0, <2>3 DEF A!AsSequence!Next
<1>4. CASE RemovesData(a, b, q)
  <2>1. PICK d \in Data : q = Copies(a, d) /\ b = Kept(a, Data \ {d})
    BY <1>4 DEF RemovesData
  <2>2. A!AsSequence!Count(a, d) = Copies(a, d)
    BY <1>0, Zenon DEF A!AsSequence!Count, A!AsSequence!Cardinality, Copies, Places, Cardinality
  <2>3. A!AsSequence!Kept(a, Data \ {d}) = Kept(a, Data \ {d})
    BY Zenon DEF A!AsSequence!Kept, Kept
  <2>4. A!AsSequence!RemoveData(d)
    BY <2>1, <2>2, <2>3 DEF A!AsSequence!RemoveData
  <2>. QED  BY <2>4 DEF A!AsSequence!Next
<1>5. CASE TakesFirst(a, b, q)
  <2>1. b = Tail(a) /\ q = Head(a) /\ a # <<>>
    BY <1>5, EndsCut DEF TakesFirst
  <2>2. A!AsSequence!TakeFirst
    BY <2>1 DEF A!AsSequence!TakeFirst
  <2>. QED  BY <2>2 DEF A!AsSequence!Next
<1>6. CASE TakesLast(a, b, q)
  <2>1. b = SubSeq(a, 1, Len(a) - 1) /\ q = a[Len(a)] /\ a # <<>>
    BY <1>6, EndsCut DEF TakesLast
  <2>2. A!AsSequence!TakeLast
    BY <2>1 DEF A!AsSequence!TakeLast, A!AsSequence!Last, A!AsSequence!Front
  <2>. QED  BY <2>2 DEF A!AsSequence!Next
<1>7. CASE Orders(a, b, q)
  <2>1. \A s \in {a, b} : \A d : A!AsSequence!Count(s, d) = Copies(s, d)
    BY <1>0, Zenon DEF A!AsSequence!Count, A!AsSequence!Cardinality, Copies, Places, Cardinality
  <2>2. A!AsSequence!Sort
    BY <1>0, <1>7, <2>1 DEF A!AsSequence!Sort, Orders
  <2>. QED  BY <2>2 DEF A!AsSequence!Next
<1>8. CASE b = <<>> /\ q = Null
  BY <1>8 DEF A!AsSequence!Next, A!AsSequence!Clear
<1>. QED  BY <1>1, <1>2, <1>3, <1>4, <1>5, <1>6, <1>7, <1>8 DEF SeqStep

LEMMA ACall == AInv /\ A!Next => AGoes
<1> SUFFICES ASSUME AInv, A!Next PROVE AGoes
  OBVIOUS
<1>1. \A i \in -1 .. MaxLength + 1 : i \in Int
  OBVIOUS
<1>2. \A i \in -1 .. MaxLength : i \in Int
  OBVIOUS
<1>3. CASE \E i \in -1 .. MaxLength + 1, d \in Data : A!arraylist_insert(i, d)
  BY <1>1, <1>3, AInsert
<1>4. CASE \E i \in -1 .. MaxLength + 1 : A!arraylist_insert_fails(i)
  BY <1>4, AAsks DEF A!arraylist_insert_fails, Asks
<1>5. CASE \E i \in -1 .. MaxLength + 1, c \in -1 .. MaxLength : A!arraylist_remove_range(i, c)
  BY <1>1, <1>2, <1>5, ARemoveRange
<1>6. CASE \E d \in Data : A!arraylist_index_of(d)
  BY <1>6, AIndexOf
<1>7. CASE A!arraylist_clear
  BY <1>7, AClear DEF A!arraylist_clear
<1>8. CASE A!arraylist_sort
  BY <1>8, ASort
<1>9. CASE A!arraylist_free
  BY <1>9, AClear DEF A!arraylist_free
<1>. QED  BY <1>3, <1>4, <1>5, <1>6, <1>7, <1>8, <1>9 DEF A!Next

LEMMA AStep ==
    AInv /\ [A!Next]_arraylist => AInv' /\ [A!AsSequence!Next]_(A!AsSequence!vars)
<1> SUFFICES ASSUME AInv, [A!Next]_arraylist
             PROVE  AInv' /\ [A!AsSequence!Next]_(A!AsSequence!vars)
  OBVIOUS
<1>1. A!Contents = AValues(a_data, length) /\ A!Contents' = AValues(a_data', length')
  BY DEF A!Contents, AValues
<1>2. CASE UNCHANGED arraylist
  <2>1. UNCHANGED <<a_data, length, a_ret>>
    BY <1>2 DEF arraylist
  <2>. QED  BY <1>1, <2>1 DEF AInv, A!AsSequence!vars
<1>3. CASE A!Next
  <2>1. AInv' /\ SeqStep(AValues(a_data, length), AValues(a_data', length'), a_ret')
    BY <1>3, ACall DEF AGoes
  <2>2. AValues(a_data, length) \in Seq(Data) /\ AValues(a_data', length') \in Seq(Data)
    BY <2>1, AFacts DEF AInv
  <2>3. A!AsSequence!Next
    BY <1>1, <2>1, <2>2, AStepImplements
  <2>. QED  BY <2>1, <2>3
<1>. QED  BY <1>2, <1>3

LEMMA AInit == A!Init => AInv /\ A!AsSequence!Init
<1> SUFFICES ASSUME A!Init PROVE AInv /\ A!AsSequence!Init
  OBVIOUS
<1>1. PICK k \in Lengths : a_data = A!NewArray(k)
  BY DEF A!Init
<1>2. length = 0 /\ a_ret = Null /\ MaxLength \in Nat /\ Lengths \subseteq Int
  BY SequencesAssumption DEF A!Init
<1> DEFINE m == IF k <= 0 THEN 16 ELSE k
<1>3. m \in Nat /\ m >= 1
  BY <1>2
<1>4. DOMAIN a_data = 0 .. m - 1
  BY <1>1 DEF A!NewArray
<1> HIDE DEF m
<1>5. Array(a_data, m, length)
  BY <1>2, <1>3, <1>4 DEF Array
<1>6. A!Contents = <<>>
  BY <1>2 DEF A!Contents
<1>. QED  BY <1>2, <1>5, <1>6 DEF AInv, A!AsSequence!Init

LEMMA AImplements == MCSpec => A!ImplementsSequence
<1>1. MCInit => AInv /\ A!AsSequence!Init
  BY AInit DEF MCInit
<1>2. AInv /\ [MCNext]_all => AInv' /\ [A!AsSequence!Next]_(A!AsSequence!vars)
  <2>1. [MCNext]_all => [A!Next]_arraylist
    BY DEF MCNext, all
  <2>. QED  BY <2>1, AStep
<1>. QED  BY <1>1, <1>2, PTL DEF MCSpec, all, A!ImplementsSequence, A!AsSequence!Spec

\* slist.c, queue.c and arraylist.c: each is a sequence, whatever calls are made
\* in whatever order: every call changes the values it holds, and returns, what
\* the same call on a sequence would, the ones that fail for want of memory or
\* get a wrong index included.
THEOREM SequencesAreSequences == MCSpec => AreSequences
BY SImplements, QImplements, AImplements DEF AreSequences

=============================================================================
