----------------------------- MODULE KeyedProofs -----------------------------
(***************************************************************************)
(* Theorems about the hash table, the set, the trie and the Bloom filter   *)
(* of MCKeyed, for every set of keys, values, table sizes and parameters.  *)
(***************************************************************************)
EXTENDS MCKeyed, FiniteSetTheorems, SequenceTheorems, WellFoundedInduction, TLAPS

all == <<which, vars, sets, trie, bloom>>

-----------------------------------------------------------------------------
(* The Bloom filter.                                                       *)

IsFilter(f) ==
    f = [table_size |-> f.table_size, num_functions |-> f.num_functions, table |-> f.table]

\* Filter i has the bits of every value it stands for.
Covers(i) ==
    /\ IsFilter(filter[i])
    /\ \A v \in inserted[i] : B!bloom_filter_query(filter[i], v)

\* The operands always exist.
BloomOK ==
    /\ filter = [i \in 1 .. 3 |-> filter[i]] /\ inserted \in [1 .. 3 -> SUBSET Keys]
    /\ Covers(1) /\ Covers(2) /\ (B!Exists(3) => Covers(3))

\* Filters with the same parameters use the same bits for a value.
LEMMA SameIndexes ==
    ASSUME NEW f, NEW g, B!Compatible(f, g), NEW v
    PROVE  B!Indexes(f, v) = B!Indexes(g, v)
BY DEF B!Compatible, B!Indexes, B!Index

LEMMA BloomInit == B!Init => BloomOK
<1> SUFFICES ASSUME B!Init PROVE BloomOK
  OBVIOUS
<1>1. PICK p, q \in Params : filter = <<B!NewFilter(p), B!NewFilter(q), Null>>
  BY DEF B!Init
<1>2. inserted = <<{}, {}, {}>>
  BY DEF B!Init
<1>3. /\ filter = [i \in 1 .. 3 |-> filter[i]] /\ inserted \in [1 .. 3 -> SUBSET Keys]
      /\ inserted[1] = {} /\ inserted[2] = {} /\ inserted[3] = {}
      /\ filter[1] = B!NewFilter(p) /\ filter[2] = B!NewFilter(q) /\ filter[3] = Null
  BY <1>1, <1>2
<1>. QED  BY <1>3 DEF BloomOK, Covers, IsFilter, B!NewFilter, B!Exists

\* One filter changes: its record r stands for the values vs.
LEMMA OneFilter ==
    ASSUME BloomOK, NEW j \in 1 .. 3, NEW r, NEW vs \in SUBSET Keys,
           filter' = [filter EXCEPT ![j] = r], inserted' = [inserted EXCEPT ![j] = vs],
           (j = 3 /\ r = Null) \/ (IsFilter(r) /\ \A v \in vs : B!bloom_filter_query(r, v))
    PROVE  BloomOK'
<1>1. /\ filter' = [i \in 1 .. 3 |-> filter'[i]] /\ filter'[j] = r
      /\ \A i \in 1 .. 3 : i # j => filter'[i] = filter[i]
      /\ inserted' \in [1 .. 3 -> SUBSET Keys] /\ inserted'[j] = vs
      /\ \A i \in 1 .. 3 : i # j => inserted'[i] = inserted[i]
  BY DEF BloomOK
<1>2. \A i \in 1 .. 3 : i # j /\ Covers(i) => Covers(i)'
  BY <1>1 DEF Covers, B!bloom_filter_query, B!Indexes, B!Index, IsFilter
<1>3. (j = 3 /\ r = Null) \/ Covers(j)'
  BY <1>1 DEF Covers, B!bloom_filter_query, B!Indexes, B!Index, IsFilter
<1>. QED  BY <1>1, <1>2, <1>3 DEF BloomOK, B!Exists

LEMMA BloomNext == BloomOK /\ B!Next => BloomOK'
<1> SUFFICES ASSUME BloomOK, B!Next PROVE BloomOK'
  OBVIOUS
<1>1. /\ \A i \in 1 .. 3 : B!Exists(i) => Covers(i)
      /\ inserted \in [1 .. 3 -> SUBSET Keys] /\ filter = [i \in 1 .. 3 |-> filter[i]]
  BY DEF BloomOK
<1>2. ASSUME NEW i \in 1 .. 3, NEW v \in Keys, B!bloom_filter_insert(i, v)
      PROVE  BloomOK'
  <2> DEFINE f == filter[i]
             r == [f EXCEPT !.table = f.table \cup B!Indexes(f, v)]
             vs == inserted[i] \cup {v}
  <2>1. Covers(i)
    BY <1>1, <1>2 DEF B!bloom_filter_insert
  <2>2. filter' = [filter EXCEPT ![i] = r] /\ inserted' = [inserted EXCEPT ![i] = vs]
    BY <1>1, <1>2 DEF B!bloom_filter_insert
  <2>3. /\ IsFilter(r) /\ r.table = f.table \cup B!Indexes(f, v)
        /\ r.table_size = f.table_size /\ r.num_functions = f.num_functions
    BY <2>1 DEF Covers, IsFilter
  <2>4. vs \in SUBSET Keys
    BY <1>1
  <2> HIDE DEF r
  <2>5. \A w : B!Indexes(r, w) = B!Indexes(f, w)
    BY <2>3, SameIndexes DEF B!Compatible
  <2>6. \A w \in vs : B!bloom_filter_query(r, w)
    BY <2>1, <2>3, <2>5 DEF B!bloom_filter_query, Covers
  <2> HIDE DEF vs
  <2>. QED  BY <2>2, <2>3, <2>4, <2>6, OneFilter
<1>3. ASSUME NEW t, NEW vs \in SUBSET Keys, B!Combine(t, vs),
             \A w \in vs : B!Indexes(filter[1], w) \subseteq t
      PROVE  BloomOK'
  <2> DEFINE r == [filter[1] EXCEPT !.table = t]
  <2>1. filter' = [filter EXCEPT ![3] = r] /\ inserted' = [inserted EXCEPT ![3] = vs]
    BY <1>3 DEF B!Combine
  <2>2. /\ IsFilter(r) /\ r.table = t
        /\ r.table_size = filter[1].table_size /\ r.num_functions = filter[1].num_functions
    BY DEF BloomOK, Covers, IsFilter
  <2> HIDE DEF r
  <2>3. \A w : B!Indexes(r, w) = B!Indexes(filter[1], w)
    BY <2>2, SameIndexes DEF B!Compatible
  <2>4. \A w \in vs : B!bloom_filter_query(r, w)
    BY <2>2, <2>3, <1>3 DEF B!bloom_filter_query
  <2>5. 3 \in 1 .. 3
    OBVIOUS
  <2>. QED  BY <2>1, <2>2, <2>4, <2>5, <1>3, OneFilter
<1>4. CASE B!bloom_filter_union \/ B!bloom_filter_intersection
  <2>1. B!Compatible(filter[1], filter[2])
    BY <1>4 DEF B!bloom_filter_union, B!bloom_filter_intersection, B!Combine
  <2>2. /\ \A w \in inserted[1] : B!Indexes(filter[1], w) \subseteq filter[1].table
        /\ \A w \in inserted[2] : B!Indexes(filter[1], w) \subseteq filter[2].table
    BY <2>1, SameIndexes DEF BloomOK, Covers, B!bloom_filter_query
  <2>3. inserted[1] \in SUBSET Keys /\ inserted[2] \in SUBSET Keys
    BY <1>1
  <2>. QED  BY <2>2, <2>3, <1>3, <1>4 DEF B!bloom_filter_union, B!bloom_filter_intersection
<1>5. ASSUME NEW i \in 1 .. 3, NEW j \in 1 .. 3, B!bloom_filter_load(i, j)
      PROVE  BloomOK'
  <2> DEFINE r == [filter[j] EXCEPT !.table = filter[i].table]
  <2>1. /\ Covers(i) /\ Covers(j) /\ B!Compatible(filter[i], filter[j])
        /\ filter' = [filter EXCEPT ![j] = r] /\ inserted' = [inserted EXCEPT ![j] = inserted[i]]
    BY <1>1, <1>5 DEF B!bloom_filter_load
  <2>2. /\ IsFilter(r) /\ r.table = filter[i].table
        /\ r.table_size = filter[j].table_size /\ r.num_functions = filter[j].num_functions
    BY <2>1 DEF Covers, IsFilter
  <2> HIDE DEF r
  <2>3. \A w : B!Indexes(r, w) = B!Indexes(filter[i], w)
    BY <2>1, <2>2, SameIndexes DEF B!Compatible
  <2>4. \A w \in inserted[i] : B!bloom_filter_query(r, w)
    BY <2>1, <2>2, <2>3 DEF B!bloom_filter_query, Covers
  <2>5. inserted[i] \in SUBSET Keys
    BY <1>1
  <2>. QED  BY <2>1, <2>2, <2>4, <2>5, OneFilter
<1>6. ASSUME NEW i \in 1 .. 3, B!bloom_filter_free(i)
      PROVE  BloomOK'
  <2>1. PICK p \in Params :
           filter' = [filter EXCEPT ![i] = IF i = 3 THEN Null ELSE B!NewFilter(p)]
    BY <1>6 DEF B!bloom_filter_free
  <2> DEFINE r == IF i = 3 THEN Null ELSE B!NewFilter(p)
  <2>2. (i = 3 /\ r = Null) \/ IsFilter(r)
    BY DEF IsFilter, B!NewFilter
  <2>3. inserted' = [inserted EXCEPT ![i] = {}] /\ {} \in SUBSET Keys
    BY <1>6 DEF B!bloom_filter_free
  <2>4. filter' = [filter EXCEPT ![i] = r]
    BY <2>1
  <2> HIDE DEF r
  <2>. QED  BY <2>2, <2>3, <2>4, OneFilter
<1>. QED  BY <1>2, <1>4, <1>5, <1>6 DEF B!Next

\* Whatever was inserted, united, intersected, copied and freed, with any
\* salts, table sizes and numbers of functions, a filter finds every value it
\* stands for.
THEOREM BloomFindsAll == MCSpec => []BloomNoFalseNegatives
<1> DEFINE Inv == which = "bloom" => BloomOK
<1>1. MCInit => Inv
  BY BloomInit DEF MCInit
<1>2. Inv /\ [MCNext]_all => Inv'
  <2> SUFFICES ASSUME Inv, [MCNext]_all, which' = "bloom" PROVE BloomOK'
    OBVIOUS
  <2>1. which = "bloom" /\ BloomOK
    BY DEF MCNext, all
  <2>2. CASE B!Next
    BY <2>1, <2>2, BloomNext
  <2>3. CASE UNCHANGED bloom
    BY <2>1, <2>3 DEF bloom, BloomOK, Covers, IsFilter, B!Exists, B!bloom_filter_query,
                      B!Indexes, B!Index
  <2>. QED  BY <2>1, <2>2, <2>3 DEF MCNext, all
<1>3. Inv => BloomNoFalseNegatives
  BY DEF BloomNoFalseNegatives, B!NoFalseNegatives, BloomOK, Covers
<1>. QED  BY <1>1, <1>2, <1>3, PTL DEF MCSpec, all

-----------------------------------------------------------------------------
(* The trie.                                                               *)

\* The keys that have a value, and those that go through the node of path p.
Here == {k \in TrieKeys : T!Present(k)}
Through(p) == {k \in Here : p \in T!Path(k)}

TrieNode == [data : Values \cup {Null}, use_count : Nat]

TrieOK ==
    /\ node \in [DOMAIN node -> TrieNode]
    /\ IsFiniteSet(Here)
    /\ \A p \in DOMAIN node : node[p].use_count = Cardinality(Through(p)) /\ Through(p) # {}

\* The trie counts as the finite sets do.
LEMMA SameCardinality == \A s : T!Cardinality(s) = Cardinality(s)
BY DEF T!Cardinality, Cardinality

LEMMA TrieCounts == TrieOK => TrieUseCountsExact
<1> SUFFICES ASSUME TrieOK PROVE T!UseCountsExact
  BY DEF TrieUseCountsExact
<1>1. \A p : T!Through(p) = Through(p)
  BY DEF Through, Here, T!Through
<1>2. \A p \in DOMAIN node : node[p].use_count = Cardinality(Through(p)) /\ Through(p) # {}
  BY DEF TrieOK
<1>3. ASSUME NEW p \in DOMAIN node
      PROVE  node[p].use_count = Cardinality(T!Through(p)) /\ T!Through(p) # {}
  <2>1. T!Through(p) = Through(p)
    BY <1>1
  <2>. QED  BY <1>2, <2>1, Zenon
<1>. QED  BY <1>3, SameCardinality DEF T!UseCountsExact

\* A key goes through the root and through its own node; the nodes on the way
\* to a node of its path are on its path.
LEMMA Paths ==
    ASSUME NEW k \in Seq(Nat)
    PROVE  /\ k \in T!Path(k) /\ <<>> \in T!Path(k) /\ T!Path(k) \subseteq Seq(Nat)
           /\ \A p \in T!Path(k) : T!Path(p) \subseteq T!Path(k)
<1>1. Len(k) \in Nat /\ SubSeq(k, 1, Len(k)) = k /\ SubSeq(k, 1, 0) = <<>>
  BY SubSeqFull
<1>2. \A n \in 0 .. Len(k) : /\ SubSeq(k, 1, n) \in Seq(Nat) /\ Len(SubSeq(k, 1, n)) = n
                            /\ \A i \in 1 .. n : SubSeq(k, 1, n)[i] = k[i]
  BY <1>1
<1>3. ASSUME NEW n \in 0 .. Len(k), NEW m \in 0 .. n
      PROVE  SubSeq(SubSeq(k, 1, n), 1, m) = SubSeq(k, 1, m)
  <2> DEFINE p == SubSeq(k, 1, n)
  <2>1. p \in Seq(Nat) /\ Len(p) = n /\ \A i \in 1 .. n : p[i] = k[i]
    BY <1>2
  <2> HIDE DEF p
  <2>2. /\ SubSeq(p, 1, m) \in Seq(Nat) /\ Len(SubSeq(p, 1, m)) = m
        /\ \A i \in 1 .. m : SubSeq(p, 1, m)[i] = p[i]
    BY <2>1
  <2>3. m \in 0 .. Len(k) /\ \A i \in 1 .. m : i \in 1 .. n
    BY <1>1
  <2>4. /\ SubSeq(k, 1, m) \in Seq(Nat) /\ Len(SubSeq(k, 1, m)) = m
        /\ \A i \in 1 .. m : SubSeq(k, 1, m)[i] = SubSeq(p, 1, m)[i]
    BY <2>1, <2>2, <2>3, <1>2
  <2>5. SubSeq(p, 1, m) = SubSeq(k, 1, m)
    BY <2>2, <2>4, SeqEqual
  <2>. QED  BY <2>5 DEF p
<1>4. k \in T!Path(k) /\ <<>> \in T!Path(k)
  <2>1. Len(k) \in 0 .. Len(k) /\ 0 \in 0 .. Len(k)
    BY <1>1
  <2>2. \A n \in 0 .. Len(k) : SubSeq(k, 1, n) \in T!Path(k)
    BY DEF T!Path
  <2>3. SubSeq(k, 1, Len(k)) \in T!Path(k) /\ SubSeq(k, 1, 0) \in T!Path(k)
    BY <2>1, <2>2
  <2>. QED  BY <2>3, <1>1
<1>5. T!Path(k) \subseteq Seq(Nat)
  BY <1>2 DEF T!Path
<1>6. ASSUME NEW p \in T!Path(k), NEW q \in T!Path(p)
      PROVE  q \in T!Path(k)
  <2>1. PICK n \in 0 .. Len(k) : p = SubSeq(k, 1, n)
    BY DEF T!Path
  <2>2. PICK m \in 0 .. Len(p) : q = SubSeq(p, 1, m)
    BY DEF T!Path
  <2>3. m \in 0 .. n /\ m \in 0 .. Len(k)
    BY <2>1, <1>1, <1>2
  <2>4. q = SubSeq(k, 1, m)
    BY <2>1, <2>2, <2>3, <1>3
  <2>. QED  BY <2>3, <2>4 DEF T!Path
<1>. QED  BY <1>4, <1>5, <1>6

\* Every node on the way to a node is allocated, so a key has a value exactly
\* when its node has one; and keys go through allocated nodes only.
LEMMA Nodes ==
    ASSUME TrieOK
    PROVE  /\ \A k \in TrieKeys :
                 /\ k \in T!Path(k) /\ <<>> \in T!Path(k)
                 /\ T!Present(k) <=> k \in DOMAIN node /\ node[k].data # Null
                 /\ T!Found(k) <=> k \in DOMAIN node
           /\ \A p : p \notin DOMAIN node => Through(p) = {}
           /\ \A p : IsFiniteSet(Through(p)) /\ Cardinality(Through(p)) \in Nat
           /\ \A p \in DOMAIN node : node[p].use_count >= 1
<1>1. \A k \in TrieKeys : k \in Seq(Nat)
  BY KeyedAssumption
<1>2. \A k \in TrieKeys : k \in T!Path(k) /\ <<>> \in T!Path(k)
  BY <1>1, Paths
<1>3. \A k \in Here : k \in TrieKeys /\ T!Path(k) \subseteq DOMAIN node
  BY DEF Here, T!Present, T!Found
<1>4. \A p \in DOMAIN node : T!Path(p) \subseteq DOMAIN node
  <2> SUFFICES ASSUME NEW p \in DOMAIN node PROVE T!Path(p) \subseteq DOMAIN node
    OBVIOUS
  <2>1. PICK k \in Here : p \in T!Path(k)
    BY DEF TrieOK, Through
  <2>. QED  BY <2>1, <1>1, <1>3, Paths
<1>5. \A k \in TrieKeys : T!Found(k) <=> k \in DOMAIN node
  BY <1>2, <1>4 DEF T!Found
<1>6. \A k \in TrieKeys : T!Present(k) <=> k \in DOMAIN node /\ node[k].data # Null
  BY <1>5 DEF T!Present
<1>7. \A p : p \notin DOMAIN node => Through(p) = {}
  BY <1>3 DEF Through
<1>8. \A p : IsFiniteSet(Through(p)) /\ Cardinality(Through(p)) \in Nat
  <2> SUFFICES ASSUME NEW p PROVE IsFiniteSet(Through(p)) /\ Cardinality(Through(p)) \in Nat
    OBVIOUS
  <2>1. Through(p) \subseteq Here /\ IsFiniteSet(Here)
    BY DEF Through, TrieOK
  <2>2. IsFiniteSet(Through(p))
    BY <2>1, FS_Subset
  <2>. QED  BY <2>2, FS_CardinalityType
<1>9. \A p \in DOMAIN node : node[p].use_count >= 1
  <2> SUFFICES ASSUME NEW p \in DOMAIN node PROVE node[p].use_count >= 1
    OBVIOUS
  <2>1. Through(p) # {} /\ node[p].use_count = Cardinality(Through(p))
    BY DEF TrieOK
  <2>2. Cardinality(Through(p)) # 0
    BY <2>1, <1>8, FS_EmptySet
  <2>. QED  BY <2>1, <2>2, <1>8
<1>. QED  BY <1>2, <1>5, <1>6, <1>7, <1>8, <1>9

\* What a step does to the keys and the counts: the keys that have a value
\* become K, and the count of every node follows.
LEMMA TrieStep ==
    ASSUME node' \in [DOMAIN node' -> TrieNode], NEW K \in SUBSET TrieKeys, IsFiniteSet(K),
           \A k \in TrieKeys : T!Present(k)' <=> k \in K,
           \A p \in DOMAIN node' :
               LET through == {k \in K : p \in T!Path(k)} IN
               node'[p].use_count = Cardinality(through) /\ through # {}
    PROVE  TrieOK' /\ Here' = K
<1>1. Here' = K
  BY DEF Here
<1>2. \A p : Through(p)' = {k \in K : p \in T!Path(k)}
  BY <1>1 DEF Through, T!Path
<1>. QED  BY <1>1, <1>2 DEF TrieOK

\* trie_insert of a key that has no value.
LEMMA TrieInsertNew ==
    ASSUME TrieOK, NEW k \in TrieKeys, NEW v \in Values, ~T!Present(k),
           node' = [T!CountUp(node, T!Path(k)) EXCEPT ![k].data = v]
    PROVE  /\ TrieOK' /\ Here' = Here \cup {k}
           /\ \A j \in Here' : node'[j].data = IF j = k THEN v ELSE node[j].data
<1> DEFINE up == T!CountUp(node, T!Path(k))
<1>1. v # Null /\ node \in [DOMAIN node -> TrieNode]
  BY HashTableAssumption DEF TrieOK
<1>2. /\ DOMAIN up = DOMAIN node \cup T!Path(k) /\ up \in [DOMAIN up -> TrieNode]
      /\ \A p \in DOMAIN up :
            /\ up[p].data = IF p \in DOMAIN node THEN node[p].data ELSE Null
            /\ up[p].use_count = IF p \notin DOMAIN node THEN 1
                                 ELSE IF p \in T!Path(k) THEN node[p].use_count + 1
                                 ELSE node[p].use_count
  <2>1. DOMAIN up = DOMAIN node \cup T!Path(k)
    BY DEF T!CountUp
  <2>2. ASSUME NEW p \in DOMAIN up
        PROVE  /\ up[p] \in TrieNode
               /\ up[p].data = IF p \in DOMAIN node THEN node[p].data ELSE Null
               /\ up[p].use_count = IF p \notin DOMAIN node THEN 1
                                    ELSE IF p \in T!Path(k) THEN node[p].use_count + 1
                                    ELSE node[p].use_count
    <3>1. up[p] = IF p \notin DOMAIN node THEN [data |-> Null, use_count |-> 1]
                  ELSE IF p \in T!Path(k) THEN [node[p] EXCEPT !.use_count = @ + 1] ELSE node[p]
      BY <2>1, <2>2 DEF T!CountUp
    <3> HIDE DEF up
    <3>2. CASE p \notin DOMAIN node
      BY <3>1, <3>2 DEF TrieNode
    <3>3. CASE p \in DOMAIN node
      <4>1. node[p] \in TrieNode
        BY <1>1, <3>3
      <4>. QED  BY <3>1, <3>3, <4>1 DEF TrieNode
    <3>. QED  BY <3>2, <3>3
  <2>3. up = [p \in DOMAIN up |-> up[p]]
    BY DEF T!CountUp
  <2> HIDE DEF up
  <2>. QED  BY <2>1, <2>2, <2>3
<1>3. node' = [up EXCEPT ![k].data = v]
  OBVIOUS
<1> HIDE DEF up
<1>4. k \in T!Path(k) /\ k \in DOMAIN up
  BY <1>2, Nodes
<1>5. /\ DOMAIN node' = DOMAIN node \cup T!Path(k) /\ node' \in [DOMAIN node' -> TrieNode]
      /\ \A p \in DOMAIN node' :
            /\ node'[p].data = IF p = k THEN v ELSE IF p \in DOMAIN node THEN node[p].data ELSE Null
            /\ node'[p].use_count = IF p \notin DOMAIN node THEN 1
                                    ELSE IF p \in T!Path(k) THEN node[p].use_count + 1
                                    ELSE node[p].use_count
  <2>1. DOMAIN node' = DOMAIN up /\ node' = [p \in DOMAIN up |-> node'[p]]
    BY <1>2, <1>3
  <2>2. \A p \in DOMAIN up : p # k => node'[p] = up[p]
    BY <1>2, <1>3
  <2>3. node'[k] = [up[k] EXCEPT !.data = v] /\ up[k] \in TrieNode
    BY <1>2, <1>3, <1>4
  <2>4. node'[k] \in TrieNode /\ node'[k].data = v /\ node'[k].use_count = up[k].use_count
    BY <2>3 DEF TrieNode
  <2>5. ASSUME NEW p \in DOMAIN node'
        PROVE  /\ node'[p] \in TrieNode
               /\ node'[p].data = IF p = k THEN v ELSE IF p \in DOMAIN node THEN node[p].data ELSE Null
               /\ node'[p].use_count = IF p \notin DOMAIN node THEN 1
                                       ELSE IF p \in T!Path(k) THEN node[p].use_count + 1
                                       ELSE node[p].use_count
    <3>1. p \in DOMAIN up
      BY <2>1
    <3>2. CASE p = k
      BY <2>4, <3>1, <3>2, <1>2
    <3>3. CASE p # k
      BY <2>2, <3>1, <3>3, <1>2
    <3>. QED  BY <3>2, <3>3
  <2>6. DOMAIN node' = DOMAIN node \cup T!Path(k)
    BY <2>1, <1>2
  <2>7. node' \in [DOMAIN node' -> TrieNode]
    BY <2>1, <2>5
  <2>. QED  BY <2>5, <2>6, <2>7
<1>6. ASSUME NEW j \in TrieKeys
      PROVE  T!Present(j)' <=> j \in Here \cup {k}
  <2>1. j \in T!Path(j)
    BY Nodes
  <2>2. T!Present(j)' <=> T!Path(j) \subseteq DOMAIN node' /\ node'[j].data # Null
    BY DEF T!Present, T!Found, T!Path
  <2>3. CASE j = k
    BY <2>1, <2>2, <2>3, <1>1, <1>5
  <2>4. CASE j # k
    <3>1. T!Present(j) => T!Path(j) \subseteq DOMAIN node /\ node[j].data # Null /\ j \in DOMAIN node
      BY <2>1 DEF T!Present, T!Found
    <3>2. T!Present(j)' => j \in DOMAIN node /\ node[j].data # Null
      BY <2>1, <2>2, <2>4, <1>5
    <3>3. T!Present(j)' <=> T!Present(j)
      BY <3>1, <3>2, <2>2, <2>4, <1>5, Nodes
    <3>. QED  BY <3>3, <2>4 DEF Here
  <2>. QED  BY <2>3, <2>4
<1>7. IsFiniteSet(Here \cup {k}) /\ Here \cup {k} \in SUBSET TrieKeys /\ k \notin Here
  BY FS_AddElement DEF TrieOK, Here
<1>8. ASSUME NEW p \in DOMAIN node'
      PROVE  LET through == {j \in Here \cup {k} : p \in T!Path(j)} IN
             node'[p].use_count = Cardinality(through) /\ through # {}
  <2> DEFINE through == {j \in Here \cup {k} : p \in T!Path(j)}
  <2>0. IsFiniteSet(Through(p)) /\ k \notin Through(p)
    BY <1>7, Nodes DEF Through
  <2>1. CASE p \in T!Path(k)
    <3>1. through = Through(p) \cup {k}
      BY <2>1 DEF Through
    <3>2. Cardinality(through) = Cardinality(Through(p)) + 1
      BY <3>1, <2>0, FS_AddElement
    <3>3. p \notin DOMAIN node => Cardinality(Through(p)) = 0
      BY Nodes, FS_EmptySet
    <3>4. p \in DOMAIN node => node[p].use_count = Cardinality(Through(p))
      BY DEF TrieOK
    <3> HIDE DEF through
    <3>. QED  BY <3>1, <3>2, <3>3, <3>4, <2>1, <1>5 DEF through
  <2>2. CASE p \notin T!Path(k)
    <3>1. through = Through(p) /\ p \in DOMAIN node
      BY <2>2, <1>5 DEF Through
    <3> HIDE DEF through
    <3>. QED  BY <3>1, <2>2, <1>5 DEF TrieOK, through
  <2>. QED  BY <2>1, <2>2
<1>9. TrieOK' /\ Here' = Here \cup {k}
  BY <1>5, <1>6, <1>7, <1>8, TrieStep
<1>10. \A j \in Here' : node'[j].data = IF j = k THEN v ELSE node[j].data
  <2>1. \A j \in Here : j \in DOMAIN node /\ j \in DOMAIN node'
    BY <1>5, Nodes DEF Here
  <2>. QED  BY <2>1, <1>4, <1>5, <1>9
<1>. QED  BY <1>9, <1>10

\* trie_insert of a key that has a value.
LEMMA TrieReplace ==
    ASSUME TrieOK, NEW k \in TrieKeys, NEW v \in Values, T!Present(k),
           node' = [node EXCEPT ![k].data = v]
    PROVE  /\ TrieOK' /\ Here' = Here
           /\ \A j \in Here' : node'[j].data = IF j = k THEN v ELSE node[j].data
<1>1. v # Null /\ node \in [DOMAIN node -> TrieNode] /\ k \in DOMAIN node /\ node[k] \in TrieNode
  BY HashTableAssumption, Nodes DEF TrieOK
<1>2. DOMAIN node' = DOMAIN node /\ node' = [p \in DOMAIN node |-> node'[p]]
  BY <1>1
<1>3. node'[k] \in TrieNode /\ node'[k].data = v /\ node'[k].use_count = node[k].use_count
  BY <1>1 DEF TrieNode
<1>4. \A p \in DOMAIN node : p # k => node'[p] = node[p]
  BY <1>1
<1>5. node' \in [DOMAIN node' -> TrieNode]
  BY <1>1, <1>2, <1>3, <1>4
<1>6. ASSUME NEW j \in TrieKeys
      PROVE  T!Present(j)' <=> j \in Here
  <2>1. T!Present(j)' <=> T!Path(j) \subseteq DOMAIN node /\ node'[j].data # Null
    BY <1>2 DEF T!Present, T!Found, T!Path
  <2>2. j \in T!Path(j) /\ (T!Present(j) <=> T!Path(j) \subseteq DOMAIN node /\ node[j].data # Null)
    BY Nodes DEF T!Present, T!Found
  <2>. QED  BY <2>1, <2>2, <1>1, <1>3, <1>4 DEF Here
<1>7. ASSUME NEW p \in DOMAIN node'
      PROVE  LET through == {j \in Here : p \in T!Path(j)} IN
             node'[p].use_count = Cardinality(through) /\ through # {}
  <2>1. node'[p].use_count = node[p].use_count
    BY <1>2, <1>3, <1>4
  <2>. QED  BY <1>2, <2>1 DEF TrieOK, Through
<1>8. IsFiniteSet(Here) /\ Here \in SUBSET TrieKeys
  BY DEF TrieOK, Here
<1>9. TrieOK' /\ Here' = Here
  BY <1>5, <1>6, <1>7, <1>8, TrieStep
<1>10. \A j \in Here : j \in DOMAIN node
  BY Nodes DEF Here
<1>. QED  BY <1>3, <1>4, <1>9, <1>10

\* trie_remove of a key that has a value.
LEMMA TrieRemove ==
    ASSUME TrieOK, NEW k \in TrieKeys, T!Present(k),
           node' = T!CountDown([node EXCEPT ![k].data = Null], T!Path(k))
    PROVE  /\ TrieOK' /\ Here' = Here \ {k}
           /\ \A j \in Here' : node'[j].data = node[j].data
<1> DEFINE m == [node EXCEPT ![k].data = Null]
           kept == {q \in DOMAIN node : q \in T!Path(k) => node[q].use_count > 1}
<1>1. /\ node \in [DOMAIN node -> TrieNode] /\ k \in DOMAIN node /\ node[k] \in TrieNode
      /\ k \in Here /\ k \in T!Path(k)
  BY Nodes DEF TrieOK, Here
<1>2. /\ DOMAIN m = DOMAIN node /\ m \in [DOMAIN m -> TrieNode]
      /\ \A p \in DOMAIN m : /\ m[p].data = IF p = k THEN Null ELSE node[p].data
                             /\ m[p].use_count = node[p].use_count
  <2>1. DOMAIN m = DOMAIN node /\ m = [p \in DOMAIN node |-> m[p]]
    BY <1>1
  <2>2. m[k] \in TrieNode /\ m[k].data = Null /\ m[k].use_count = node[k].use_count
    BY <1>1 DEF TrieNode
  <2>3. \A p \in DOMAIN node : p # k => m[p] = node[p]
    BY <1>1
  <2> HIDE DEF m
  <2>. QED  BY <2>1, <2>2, <2>3, <1>1
<1>3. node' = T!CountDown(m, T!Path(k))
  OBVIOUS
<1> HIDE DEF m
<1>4. /\ DOMAIN node' = kept
      /\ node' = [p \in kept |-> IF p \in T!Path(k) THEN [m[p] EXCEPT !.use_count = @ - 1] ELSE m[p]]
  <2>1. {q \in DOMAIN m : q \in T!Path(k) => m[q].use_count > 1} = kept
    BY <1>2
  <2>2. node' = [p \in {q \in DOMAIN m : q \in T!Path(k) => m[q].use_count > 1} |->
                    IF p \in T!Path(k) THEN [m[p] EXCEPT !.use_count = @ - 1] ELSE m[p]]
    BY <1>3 DEF T!CountDown
  <2> HIDE DEF kept
  <2>. QED  BY <2>1, <2>2
<1>5. ASSUME NEW p \in kept
      PROVE  /\ p \in DOMAIN node /\ node'[p] \in TrieNode
             /\ node'[p].data = IF p = k THEN Null ELSE node[p].data
             /\ node'[p].use_count = IF p \in T!Path(k) THEN node[p].use_count - 1
                                     ELSE node[p].use_count
  <2>1. /\ p \in DOMAIN m /\ m[p] \in TrieNode /\ (p \in T!Path(k) => m[p].use_count > 1)
        /\ m[p].data = (IF p = k THEN Null ELSE node[p].data) /\ m[p].use_count = node[p].use_count
    BY <1>2
  <2>2. node'[p] = IF p \in T!Path(k) THEN [m[p] EXCEPT !.use_count = @ - 1] ELSE m[p]
    BY <1>4
  <2>3. p \in DOMAIN node
    OBVIOUS
  <2> HIDE DEF kept
  <2>4. CASE p \in T!Path(k)
    BY <2>1, <2>2, <2>3, <2>4 DEF TrieNode
  <2>5. CASE p \notin T!Path(k)
    BY <2>1, <2>2, <2>3, <2>5
  <2>. QED  BY <2>4, <2>5
<1>6. node' \in [DOMAIN node' -> TrieNode]
  <2>1. node' = [p \in DOMAIN node' |-> node'[p]]
    BY <1>4
  <2>. QED  BY <2>1, <1>4, <1>5
<1>7. ASSUME NEW p \in DOMAIN node
      PROVE  /\ IsFiniteSet(Through(p)) /\ node[p].use_count = Cardinality(Through(p))
             /\ Cardinality(Through(p)) \in Nat
             /\ p \in T!Path(k) => Cardinality(Through(p) \ {k}) = Cardinality(Through(p)) - 1
  <2>1. /\ IsFiniteSet(Through(p)) /\ node[p].use_count = Cardinality(Through(p))
        /\ Cardinality(Through(p)) \in Nat
    BY Nodes DEF TrieOK
  <2>2. p \in T!Path(k) => k \in Through(p)
    BY <1>1 DEF Through
  <2>. QED  BY <2>1, <2>2, FS_RemoveElement
\* A node that another key with a value goes through is kept.
<1>8. ASSUME NEW j \in Here, j # k, NEW p \in T!Path(j)
      PROVE  p \in kept
  <2>1. p \in DOMAIN node /\ j \in Through(p) \ {k}
    BY <1>8 DEF Here, Through, T!Present, T!Found
  <2>2. CASE p \in T!Path(k)
    <3>1. IsFiniteSet(Through(p) \ {k})
      BY <2>1, <1>7, FS_Subset
    <3>2. Cardinality(Through(p) \ {k}) \in Nat /\ Cardinality(Through(p) \ {k}) # 0
      BY <3>1, <2>1, FS_EmptySet, FS_CardinalityType
    <3>. QED  BY <3>2, <2>1, <2>2, <1>7
  <2>. QED  BY <2>1, <2>2
<1>9. ASSUME NEW j \in TrieKeys
      PROVE  T!Present(j)' <=> j \in Here \ {k}
  <2>1. j \in T!Path(j)
    BY Nodes
  <2>2. T!Present(j)' <=> T!Path(j) \subseteq kept /\ node'[j].data # Null
    BY <1>4 DEF T!Present, T!Found, T!Path
  <2>3. j \in Here => node[j].data # Null
    BY DEF Here, T!Present
  <2>4. T!Path(j) \subseteq kept /\ node[j].data # Null => j \in Here
    BY DEF Here, T!Present, T!Found
  <2> HIDE DEF kept
  <2>5. CASE j = k
    BY <2>1, <2>2, <2>5, <1>5
  <2>6. CASE j # k
    BY <2>1, <2>2, <2>3, <2>4, <2>6, <1>5, <1>8
  <2>. QED  BY <2>5, <2>6
<1>10. IsFiniteSet(Here \ {k}) /\ Here \ {k} \in SUBSET TrieKeys
  BY FS_RemoveElement, <1>1 DEF TrieOK, Here
<1>11. ASSUME NEW p \in DOMAIN node'
       PROVE  LET through == {j \in Here \ {k} : p \in T!Path(j)} IN
              node'[p].use_count = Cardinality(through) /\ through # {}
  <2> DEFINE through == {j \in Here \ {k} : p \in T!Path(j)}
  <2>1. p \in kept /\ p \in DOMAIN node
    BY <1>4, <1>5
  <2>2. CASE p \in T!Path(k)
    <3>1. through = Through(p) \ {k} /\ node[p].use_count > 1
      BY <2>1, <2>2 DEF Through
    <3>2. Cardinality(through) = Cardinality(Through(p)) - 1 /\ node[p].use_count = Cardinality(Through(p))
      BY <2>1, <2>2, <3>1, <1>7
    <3>3. node'[p].use_count = node[p].use_count - 1
      BY <1>5, <2>1, <2>2
    <3> HIDE DEF through, kept
    <3>4. Cardinality(through) # 0
      BY <3>1, <3>2, <2>1, <1>7
    <3>5. through # {}
      BY <3>4, FS_EmptySet
    <3>. QED  BY <3>2, <3>3, <3>5 DEF through
  <2>3. CASE p \notin T!Path(k)
    <3>1. through = Through(p)
      BY <2>3 DEF Through
    <3>2. node'[p].use_count = node[p].use_count
      BY <1>5, <2>1, <2>3
    <3> HIDE DEF through, kept
    <3>. QED  BY <3>1, <3>2, <2>1 DEF TrieOK, through
  <2>. QED  BY <2>2, <2>3
<1>12. TrieOK' /\ Here' = Here \ {k}
  BY <1>6, <1>9, <1>10, <1>11, TrieStep
<1>13. ASSUME NEW j \in Here'
       PROVE  node'[j].data = node[j].data
  <2>1. j \in Here /\ j # k /\ j \in T!Path(j)
    BY <1>12, Nodes DEF Here
  <2>. QED  BY <2>1, <1>5, <1>8
<1>. QED  BY <1>12, <1>13

\* trie_insert_rollback undoes exactly what the insertion did before it found no
\* memory: whatever nodes ps were counted or created, the trie is as it was.
LEMMA TrieRollback ==
    ASSUME TrieOK, NEW ps
    PROVE  T!CountDown(T!CountUp(node, ps), ps) = node
<1> DEFINE up == T!CountUp(node, ps)
<1>1. /\ node \in [DOMAIN node -> TrieNode]
      /\ \A p \in DOMAIN node : node[p] \in TrieNode /\ node[p].use_count >= 1
  BY Nodes DEF TrieOK
<1>2. /\ DOMAIN up = DOMAIN node \cup ps
      /\ \A p \in DOMAIN up :
            up[p] = IF p \notin DOMAIN node THEN [data |-> Null, use_count |-> 1]
                    ELSE IF p \in ps THEN [node[p] EXCEPT !.use_count = @ + 1] ELSE node[p]
  BY DEF T!CountUp
<1> HIDE DEF up
<1>3. \A p \in DOMAIN up :
          /\ p \notin DOMAIN node => p \in ps /\ up[p].use_count = 1
          /\ p \in DOMAIN node /\ p \in ps => up[p].use_count > 1
  <2> SUFFICES ASSUME NEW p \in DOMAIN up
               PROVE  /\ p \notin DOMAIN node => p \in ps /\ up[p].use_count = 1
                      /\ p \in DOMAIN node /\ p \in ps => up[p].use_count > 1
    OBVIOUS
  <2>1. CASE p \notin DOMAIN node
    <3>1. up[p] = [data |-> Null, use_count |-> 1]
      BY <1>2, <2>1
    <3>. QED  BY <1>2, <2>1, <3>1
  <2>2. CASE p \in DOMAIN node /\ p \in ps
    <3>1. up[p] = [node[p] EXCEPT !.use_count = @ + 1] /\ node[p] \in TrieNode /\ node[p].use_count >= 1
      BY <1>1, <1>2, <2>2
    <3>. QED  BY <2>2, <3>1 DEF TrieNode
  <2>. QED  BY <2>1, <2>2
<1>4. {q \in DOMAIN up : q \in ps => up[q].use_count > 1} = DOMAIN node
  <2>1. ASSUME NEW q \in DOMAIN up, q \in ps => up[q].use_count > 1
        PROVE  q \in DOMAIN node
    BY <1>3, <2>1
  <2>2. \A q \in DOMAIN node : q \in DOMAIN up /\ (q \in ps => up[q].use_count > 1)
    BY <1>2, <1>3
  <2>. QED  BY <2>1, <2>2
<1>5. ASSUME NEW p \in DOMAIN node
      PROVE  (IF p \in ps THEN [up[p] EXCEPT !.use_count = @ - 1] ELSE up[p]) = node[p]
  <2>1. node[p] \in TrieNode /\ p \in DOMAIN up
    BY <1>1, <1>2
  <2>2. CASE p \in ps
    <3>1. up[p] = [node[p] EXCEPT !.use_count = @ + 1]
      BY <1>2, <2>1, <2>2
    <3> DEFINE c == node[p].use_count
    <3>2. node[p] = [data |-> node[p].data, use_count |-> c] /\ c \in Nat
      BY <2>1 DEF TrieNode
    <3>3. up[p] = [data |-> node[p].data, use_count |-> c + 1] /\ c + 1 - 1 = c
      BY <3>1, <3>2
    <3>. QED  BY <2>2, <3>2, <3>3
  <2>3. CASE p \notin ps
    BY <1>2, <2>1, <2>3
  <2>. QED  BY <2>2, <2>3
<1>6. T!CountDown(up, ps) =
          [p \in {q \in DOMAIN up : q \in ps => up[q].use_count > 1} |->
              IF p \in ps THEN [up[p] EXCEPT !.use_count = @ - 1] ELSE up[p]]
  BY DEF T!CountDown
<1>7. T!CountDown(up, ps) =
          [p \in DOMAIN node |-> IF p \in ps THEN [up[p] EXCEPT !.use_count = @ - 1] ELSE up[p]]
  BY <1>4, <1>6
<1>8. T!CountDown(up, ps) = [p \in DOMAIN node |-> node[p]]
  BY <1>5, <1>7
<1>. QED  BY <1>1, <1>8 DEF up

-----------------------------------------------------------------------------
\* Every call keeps the counts, and changes the keys that have a value and their
\* values as a dictionary would.
LEMMA TrieInsert ==
    ASSUME TrieOK, NEW k \in TrieKeys, NEW v \in Values, T!trie_insert(k, v)
    PROVE  /\ TrieOK' /\ Here' = Here \cup {k}
           /\ \A j \in Here' : node'[j].data = IF j = k THEN v ELSE node[j].data
<1>1. CASE T!Present(k)
  <2>1. node' = [node EXCEPT ![k].data = v]
    BY <1>1 DEF T!trie_insert
  <2>2. k \in Here
    BY <1>1 DEF Here
  <2>. QED  BY <1>1, <2>1, <2>2, TrieReplace
<1>2. CASE ~T!Present(k)
  <2>1. node' = [T!CountUp(node, T!Path(k)) EXCEPT ![k].data = v]
    BY <1>2 DEF T!trie_insert
  <2>. QED  BY <1>2, <2>1, TrieInsertNew
<1>. QED  BY <1>1, <1>2

LEMMA TrieUnchanged ==
    ASSUME TrieOK, node' = node
    PROVE  TrieOK' /\ Here' = Here
BY DEF TrieOK, Here, Through, T!Present, T!Found, T!Path

LEMMA TrieEmpty ==
    /\ node = T!None => TrieOK /\ Here = {}
    /\ node' = T!None => TrieOK' /\ Here' = {}
<1>1. ASSUME node = T!None PROVE TrieOK /\ Here = {}
  <2>1. DOMAIN node = {} /\ node = [p \in {} |-> node[p]]
    BY <1>1 DEF T!None
  <2>2. \A k \in TrieKeys : <<>> \in T!Path(k)
    BY KeyedAssumption, Paths
  <2>3. Here = {}
    BY <2>1, <2>2 DEF Here, T!Present, T!Found
  <2>. QED  BY <2>1, <2>3, FS_EmptySet DEF TrieOK
<1>2. ASSUME node' = T!None PROVE TrieOK' /\ Here' = {}
  <2>1. DOMAIN node' = {} /\ node' = [p \in {} |-> node'[p]]
    BY <1>2 DEF T!None
  <2>2. \A k \in TrieKeys : <<>> \in T!Path(k)
    BY KeyedAssumption, Paths
  <2>3. Here' = {}
    BY <2>1, <2>2 DEF Here, T!Present, T!Found, T!Path
  <2>. QED  BY <2>1, <2>3, FS_EmptySet DEF TrieOK
<1>. QED  BY <1>1, <1>2

LEMMA TrieNext ==
    ASSUME TrieOK, T!Next
    PROVE  TrieOK'
<1>1. ASSUME NEW k \in TrieKeys, NEW v \in Values, T!trie_insert(k, v)
      PROVE  TrieOK'
  BY <1>1, TrieInsert
<1>2. ASSUME NEW k \in TrieKeys, NEW p \in T!Path(k), T!trie_insert_fails(k, p)
      PROVE  TrieOK'
  <2>1. node' = node
    BY <1>2, TrieRollback DEF T!trie_insert_fails
  <2>. QED  BY <2>1, TrieUnchanged
<1>3. ASSUME NEW k \in TrieKeys, T!trie_remove(k)
      PROVE  TrieOK'
  BY <1>3, TrieRemove, TrieUnchanged DEF T!trie_remove
<1>4. ASSUME T!trie_free
      PROVE  TrieOK'
  BY <1>4, TrieEmpty DEF T!trie_free
<1>5. ASSUME node' = node
      PROVE  TrieOK'
  BY <1>5, TrieUnchanged
<1>. QED  BY <1>1, <1>2, <1>3, <1>4, <1>5
          DEF T!Next, T!trie_lookup, T!trie_insert_null, T!trie_num_entries

\* For every set of keys, and wherever an insertion finds no memory, the nodes
\* of the trie are those the keys with a value go through, each with their
\* number as its count.
THEOREM TrieCountsExact == MCSpec => []TrieUseCountsExact
<1>1. MCInit => TrieOK
  BY TrieEmpty DEF MCInit, T!Init
<1>2. TrieOK /\ [MCNext]_all => TrieOK'
  <2> SUFFICES ASSUME TrieOK, [MCNext]_all PROVE TrieOK'
    OBVIOUS
  <2>1. T!Next \/ node' = node
    BY DEF MCNext, all, trie
  <2>. QED  BY <2>1, TrieNext, TrieUnchanged
<1>. QED  BY <1>1, <1>2, TrieCounts, PTL DEF MCSpec, all

-----------------------------------------------------------------------------
(* The trie is a dictionary.                                               *)

LEMMA TrieDict ==
    /\ T!Dict = [k \in Here |-> node[k].data]
    /\ T!Dict' = [k \in Here' |-> node'[k].data]
    /\ T!None = T!Map!Empty
BY DEF T!Dict, Here, T!None, T!Map!Empty

\* Every key with a value goes through the root.
LEMMA TrieRoot ==
    ASSUME TrieOK
    PROVE  Cardinality(Here) = IF <<>> \in DOMAIN node THEN node[<<>>].use_count ELSE 0
<1>1. Through(<<>>) = Here
  BY Nodes DEF Through, Here
<1>2. <<>> \notin DOMAIN node => Through(<<>>) = {}
  BY Nodes
<1>. QED  BY <1>1, <1>2, FS_EmptySet DEF TrieOK

LEMMA TrieMaps ==
    ASSUME TrieOK, T!Next
    PROVE  T!Map!Next
<1>0. T!Map!Empty' = T!Map!Empty /\ T!None' = T!None /\ \A ks : T!Map!Freed(ks) = T!Map!Empty
  BY DEF T!Map!Empty, T!None, T!Map!Freed
<1>1. ASSUME NEW k \in TrieKeys, NEW v \in Values, T!trie_insert(k, v)
      PROVE  T!Map!Insert(k, v)
  <2>1. Here' = Here \cup {k} /\ \A j \in Here' : node'[j].data = IF j = k THEN v ELSE node[j].data
    BY <1>1, TrieInsert
  <2>2. T!Dict' = [j \in Here \cup {k} |-> IF j = k THEN v ELSE T!Dict[j]]
    BY <2>1, TrieDict
  <2>3. DOMAIN T!Dict = Here
    BY TrieDict
  <2>. QED  BY <1>0, <1>1, <2>2, <2>3, TrieDict DEF T!Map!Insert, T!trie_insert
<1>2. ASSUME node' = node, t_ret' = 0
      PROVE  T!Map!InsertFails
  BY <1>0, <1>2, TrieUnchanged, TrieDict DEF T!Map!InsertFails
<1>3. ASSUME NEW k \in TrieKeys, T!trie_remove(k)
      PROVE  T!Map!Remove(k)
  <2>1. /\ Here' = Here \ {k} /\ \A j \in Here' : node'[j].data = node[j].data
        /\ t_ret' = IF k \in Here THEN 1 ELSE 0
    BY <1>3, TrieRemove, TrieUnchanged DEF T!trie_remove, Here
  <2>2. T!Dict' = [j \in Here \ {k} |-> T!Dict[j]] /\ DOMAIN T!Dict = Here
    BY <2>1, TrieDict
  <2>. QED  BY <1>0, <2>1, <2>2, TrieDict DEF T!Map!Remove, T!Map!Restrict
<1>4. ASSUME NEW k \in TrieKeys, T!trie_lookup(k)
      PROVE  T!Map!Lookup(k)
  <2>1. k \in Here <=> T!Found(k) /\ node[k].data # Null
    BY DEF Here, T!Present
  <2>2. t_ret' = IF k \in Here THEN T!Dict[k] ELSE Null
    BY <1>4, <2>1, TrieDict DEF T!trie_lookup
  <2>3. T!Dict' = T!Dict /\ DOMAIN T!Dict = Here
    BY <1>4, TrieUnchanged, TrieDict DEF T!trie_lookup
  <2>. QED  BY <1>0, <2>2, <2>3, TrieDict DEF T!Map!Lookup
<1>5. ASSUME T!trie_num_entries
      PROVE  T!Map!Count
  <2>1. t_ret' = Cardinality(Here)
    BY <1>5, TrieRoot DEF T!trie_num_entries
  <2>2. T!Dict' = T!Dict /\ DOMAIN T!Dict = Here
    BY <1>5, TrieUnchanged, TrieDict DEF T!trie_num_entries
  <2>3. Cardinality(Here) = T!Map!Cardinality(Here)
    BY DEF Cardinality, T!Map!Cardinality
  <2>. QED  BY <1>0, <2>1, <2>2, <2>3, TrieDict DEF T!Map!Count
<1>6. ASSUME T!trie_free
      PROVE  T!Map!Clear
  <2>1. T!Dict' = T!Map!Empty
    BY <1>6, TrieEmpty, TrieDict DEF T!trie_free, T!Map!Empty
  <2>. QED  BY <1>0, <1>6, <2>1, TrieDict DEF T!trie_free, T!Map!Clear
<1>7. ASSUME NEW k \in TrieKeys, NEW p \in T!Path(k), T!trie_insert_fails(k, p)
      PROVE  node' = node /\ t_ret' = 0
  BY <1>7, TrieRollback DEF T!trie_insert_fails
<1>. QED  BY <1>1, <1>2, <1>3, <1>4, <1>5, <1>6, <1>7 DEF T!Next, T!Map!Next, T!trie_insert_null

\* The trie implements the dictionary: shared prefixes, the nodes that come and
\* go and insertions that run out of memory are invisible, and num_entries
\* is the number of keys.
THEOREM TrieIsDictionary == MCSpec => T!ImplementsDictionary
<1>1. MCInit => TrieOK /\ T!Map!Init
  <2> SUFFICES ASSUME MCInit PROVE TrieOK /\ T!Map!Init
    OBVIOUS
  <2>1. node = T!None /\ t_ret = Null
    BY DEF MCInit, T!Init
  <2>2. TrieOK /\ Here = {}
    BY <2>1, TrieEmpty
  <2>3. T!Dict = T!Map!Empty
    BY <2>2, TrieDict DEF T!Map!Empty
  <2>. QED  BY <2>1, <2>2, <2>3, TrieDict DEF T!Map!Init
<1>2. TrieOK /\ [MCNext]_all => TrieOK' /\ [T!Map!Next]_T!Map!vars
  <2> SUFFICES ASSUME TrieOK, [MCNext]_all PROVE TrieOK' /\ [T!Map!Next]_T!Map!vars
    OBVIOUS
  <2>1. CASE T!Next
    BY <2>1, TrieNext, TrieMaps
  <2>2. CASE UNCHANGED trie
    <3>1. node' = node /\ t_ret' = t_ret
      BY <2>2 DEF trie
    <3>2. TrieOK' /\ Here' = Here
      BY <3>1, TrieUnchanged
    <3>3. T!Dict' = T!Dict
      BY <3>1, <3>2, TrieDict
    <3>. QED  BY <3>1, <3>2, <3>3 DEF T!Map!vars, T!None
  <2>. QED  BY <2>1, <2>2 DEF MCNext, all
<1>. QED  BY <1>1, <1>2, PTL DEF MCSpec, all, T!ImplementsDictionary, T!Map!Spec

-----------------------------------------------------------------------------
(* Induction over the steps of a loop, and functions defined by one.       *)

\* What holds at first, and after a step if it did before, holds after m steps.
LEMMA StepByStep ==
    ASSUME NEW N \in Nat, NEW K, 0 \in K, \A m \in 1 .. N : m - 1 \in K => m \in K
    PROVE  \A m \in 0 .. N : m \in K
<1> SUFFICES ASSUME NEW m \in 0 .. N, m \notin K PROVE FALSE
  OBVIOUS
<1> DEFINE R == OpToRel(<, Nat)
           W == (0 .. N) \ K
<1>1. W \subseteq Nat /\ W # {}
  OBVIOUS
<1> HIDE DEF W
<1>2. PICK x \in W : \A y \in W : ~ (<<y, x>> \in R)
  BY <1>1, NatLessThanWellFounded, WFMin
<1>3. \A y \in Nat : y < x => <<y, x>> \in R
  BY <1>1 DEF OpToRel
<1> HIDE DEF R
<1>4. \A y \in W : ~ (y < x)
  BY <1>1, <1>2, <1>3
<1>5. x \in 0 .. N /\ x \notin K /\ x # 0
  BY DEF W
<1>6. x - 1 \in 0 .. N /\ x - 1 \notin W /\ x \in 1 .. N
  BY <1>4, <1>5
<1>. QED  BY <1>5, <1>6 DEF W

\* f has the results of a loop after each of its N steps g, from b on.
Loop(N, b, g, f) == f[0] = b /\ \A m \in 1 .. N : f[m] = g[<<m, f[m - 1]>>]

LEMMA LoopRuns ==
    ASSUME NEW N \in Nat, NEW W, NEW b \in W, NEW g \in [(1 .. N) \X W -> W]
    PROVE  \E f \in [0 .. N -> W] : Loop(N, b, g, f)
<1> DEFINE Run(k, f) == f[0] = b /\ \A m \in 1 .. k : f[m] = g[<<m, f[m - 1]>>]
           K == {k \in 0 .. N : \E f \in [0 .. k -> W] : Run(k, f)}
<1>1. 0 \in K
  <2> DEFINE f == [m \in 0 .. 0 |-> b]
  <2>1. f \in [0 .. 0 -> W] /\ f[0] = b /\ 0 \in 0 .. N /\ 1 .. 0 = {}
    OBVIOUS
  <2>2. Run(0, f)
    BY <2>1
  <2>. QED  BY <2>1, <2>2
<1>2. ASSUME NEW m \in 1 .. N, m - 1 \in K
      PROVE  m \in K
  <2>1. PICK f \in [0 .. m - 1 -> W] : Run(m - 1, f)
    BY <1>2
  <2>2. f[m - 1] \in W /\ m - 1 \in 0 .. m - 1
    OBVIOUS
  <2> DEFINE v == g[<<m, f[m - 1]>>]
             h == [i \in 0 .. m |-> IF i = m THEN v ELSE f[i]]
  <2>3. v \in W
    BY <2>2
  <2> HIDE DEF v
  <2>4. h \in [0 .. m -> W] /\ h[m] = v /\ \A i \in 0 .. m - 1 : h[i] = f[i]
    BY <2>3
  <2> HIDE DEF h
  <2>5. ASSUME NEW i \in 1 .. m PROVE h[i] = g[<<i, h[i - 1]>>]
    <3>1. CASE i = m
      <4>1. h[i - 1] = f[m - 1]
        BY <2>2, <2>4, <3>1
      <4>. QED  BY <2>4, <3>1, <4>1 DEF v
    <3>2. CASE i # m
      <4>1. i \in 1 .. m - 1 /\ i \in 0 .. m - 1 /\ i - 1 \in 0 .. m - 1
        BY <3>2
      <4>2. f[i] = g[<<i, f[i - 1]>>]
        BY <2>1, <4>1
      <4>. QED  BY <2>4, <4>1, <4>2
    <3>. QED  BY <3>1, <3>2
  <2>6. h[0] = b
    BY <2>1, <2>4
  <2>7. Run(m, h) /\ m \in 0 .. N
    BY <2>5, <2>6
  <2>. QED  BY <2>4, <2>7
<1> HIDE DEF K
<1>3. N \in K
  BY <1>1, <1>2, StepByStep
<1>. QED  BY <1>3 DEF K, Loop

-----------------------------------------------------------------------------
(* Sequences of items with different keys.                                 *)

Once(key, s) == \A i, j \in 1 .. Len(s) : key[s[i]] = key[s[j]] => i = j

\* What a walk through chain after chain visits.
Visits(s, e) == \E j \in 1 .. Len(s) : s[j] = e

\* No item of s has the key of one of t.
Apart(key, s, t) == \A d, e : Visits(s, d) /\ Visits(t, e) => key[d] # key[e]

\* FlattenSeq computes what its loop does.
LEMMA FlattenRuns ==
    ASSUME NEW E, NEW ss \in Seq(Seq(E)), ss # <<>>
    PROVE  \E f \in [0 .. Len(ss) -> Seq(E)] :
              /\ f[0] = <<>> /\ \A m \in 1 .. Len(ss) : f[m] = f[m - 1] \o ss[m]
              /\ FlattenSeq(ss) = f[Len(ss)]
<1> DEFINE N == Len(ss)
           Q == Seq(E)
           Def(f) == f = [i \in 1 .. N |-> IF i = 1 THEN ss[i] ELSE f[i - 1] \o ss[i]]
           g == [p \in (1 .. N) \X Q |-> p[2] \o ss[p[1]]]
<1>1. N \in Nat /\ N >= 1 /\ \A m \in 1 .. N : ss[m] \in Q
  BY EmptySeq
<1>2. FlattenSeq(ss) = (CHOOSE f : Def(f))[N]
  <2>1. Len(ss) # 0
    BY <1>1
  <2>. QED  BY <2>1, Zenon DEF FlattenSeq
<1>3. \A s, t \in Q : s \o t \in Q
  BY ConcatProperties
<1> DEFINE nil == <<>>
<1>4. nil \in Q /\ \A s \in Q : nil \o s = s
  BY EmptySeq, ConcatEmptySeq
<1> HIDE DEF Q, nil
<1>5. g \in [(1 .. N) \X Q -> Q]
  BY <1>1, <1>3
<1>6. \A m \in 1 .. N, s \in Q : g[<<m, s>>] = s \o ss[m]
  OBVIOUS
<1> HIDE DEF g, N
<1>7. PICK h \in [0 .. N -> Q] : Loop(N, nil, g, h)
  <2>1. N \in Nat /\ nil \in Q
    BY <1>1, <1>4
  <2>. QED  BY <2>1, <1>5, LoopRuns
<1>8. \A m \in 1 .. N : h[m - 1] \in Q /\ h[m] = h[m - 1] \o ss[m]
  <2> SUFFICES ASSUME NEW m \in 1 .. N PROVE h[m - 1] \in Q /\ h[m] = h[m - 1] \o ss[m]
    OBVIOUS
  <2>1. m - 1 \in 0 .. N
    BY <1>1
  <2>2. h[m - 1] \in Q
    BY <2>1
  <2>3. h[m] = g[<<m, h[m - 1]>>]
    BY <1>7 DEF Loop
  <2>. QED  BY <2>2, <2>3, <1>6
<1> DEFINE f == [i \in 1 .. N |-> h[i]]
<1>9. Def(f)
  <2>1. ASSUME NEW i \in 1 .. N PROVE h[i] = IF i = 1 THEN ss[i] ELSE f[i - 1] \o ss[i]
    <3>1. CASE i = 1
      <4>1. h[1] = h[0] \o ss[1] /\ h[0] = nil /\ ss[1] \in Q
        <5>1. 1 \in 1 .. N /\ 1 - 1 = 0
          BY <1>1
        <5>2. h[1] = h[1 - 1] \o ss[1] /\ ss[1] \in Q
          BY <1>1, <1>8, <5>1
        <5>3. h[0] = nil
          BY <1>7 DEF Loop
        <5>. QED  BY <5>1, <5>2, <5>3
      <4>2. nil \o ss[1] = ss[1]
        BY <1>4, <4>1
      <4>. QED  BY <3>1, <4>1, <4>2
    <3>2. CASE i # 1
      <4>1. i - 1 \in 1 .. N
        BY <1>1, <3>2
      <4>. QED  BY <1>8, <3>2, <4>1
    <3>. QED  BY <3>1, <3>2
  <2>. QED  BY <2>1
<1> DEFINE c == CHOOSE x : Def(x)
<1>10. Def(c)
  BY <1>9, Zenon
<1> HIDE DEF c
\* The loop that was chosen runs as h does.
<1> DEFINE k == [m \in 0 .. N |-> IF m = 0 THEN nil ELSE c[m]]
<1>11. \A m \in 1 .. N : c[m] = IF m = 1 THEN ss[m] ELSE c[m - 1] \o ss[m]
  BY <1>10
<1>12. k[0] = nil /\ \A m \in 1 .. N : k[m] = c[m]
  BY <1>1
<1> HIDE DEF k, Def, f
<1>13. \A m \in 1 .. N : k[m] = k[m - 1] \o ss[m]
  <2> SUFFICES ASSUME NEW m \in 1 .. N PROVE k[m] = k[m - 1] \o ss[m]
    OBVIOUS
  <2>1. CASE m = 1
    <3>1. k[1] = ss[1] /\ k[0] = nil /\ ss[1] \in Q
      BY <1>1, <1>11, <1>12
    <3>2. nil \o ss[1] = ss[1]
      BY <1>4, <3>1
    <3>3. m - 1 = 0
      BY <2>1
    <3>4. k[m] = ss[1] /\ k[m - 1] = nil /\ ss[m] = ss[1]
      BY <2>1, <3>1, <3>3
    <3>. QED  BY <3>2, <3>4
  <2>2. CASE m # 1
    <3>1. m - 1 \in 1 .. N
      BY <1>1, <2>2
    <3>. QED  BY <1>11, <1>12, <2>2, <3>1
  <2>. QED  BY <2>1, <2>2
<1> DEFINE K == {m \in 0 .. N : k[m] \in Q}
<1>14. 0 \in K /\ \A m \in 1 .. N : m - 1 \in K => m \in K
  <2>1. 0 \in K
    <3>1. k[0] \in Q
      BY <1>4, <1>12
    <3>2. 0 \in 0 .. N
      BY <1>1
    <3>. QED  BY <3>1, <3>2
  <2>2. ASSUME NEW m \in 1 .. N, k[m - 1] \in Q PROVE k[m] \in Q
    <3>1. k[m] = k[m - 1] \o ss[m] /\ ss[m] \in Q
      BY <1>1, <1>13
    <3>. QED  BY <1>3, <2>2, <3>1
  <2>. QED  BY <1>1, <2>1, <2>2
<1> HIDE DEF K
<1>15. \A m \in 0 .. N : m \in K
  BY <1>1, <1>14, StepByStep
<1>16. k \in [0 .. N -> Q]
  BY <1>15 DEF k, K
<1>17. FlattenSeq(ss) = k[N]
  BY <1>1, <1>2, <1>12 DEF c
<1>. QED  BY <1>12, <1>13, <1>16, <1>17 DEF N, Q, nil

LEMMA ConcatOnce ==
    ASSUME NEW E, NEW key, NEW s \in Seq(E), NEW t \in Seq(E)
    PROVE  /\ s \o t \in Seq(E)
           /\ \A e : Visits(s \o t, e) <=> Visits(s, e) \/ Visits(t, e)
           /\ Once(key, s) /\ Once(key, t) /\ Apart(key, s, t) => Once(key, s \o t)
<1> DEFINE u == s \o t
           a == Len(s)
           b == Len(t)
<1>1. /\ a \in Nat /\ b \in Nat /\ u \in Seq(E) /\ Len(u) = a + b
      /\ \A i \in 1 .. a + b : u[i] = IF i <= a THEN s[i] ELSE t[i - a]
  BY ConcatProperties
<1> HIDE DEF u
<1>2. \A i \in 1 .. a : i \in 1 .. a + b /\ u[i] = s[i]
  BY <1>1
<1>3. \A i \in 1 .. b : a + i \in 1 .. a + b /\ u[a + i] = t[i]
  <2> SUFFICES ASSUME NEW i \in 1 .. b PROVE a + i \in 1 .. a + b /\ u[a + i] = t[i]
    OBVIOUS
  <2>1. a + i \in 1 .. a + b /\ ~(a + i <= a) /\ (a + i) - a = i
    BY <1>1
  <2>. QED  BY <1>1, <2>1
<1>4. \A i \in 1 .. a + b : \/ i \in 1 .. a /\ u[i] = s[i]
                            \/ i - a \in 1 .. b /\ u[i] = t[i - a]
  BY <1>1
<1>5. ASSUME NEW e PROVE Visits(u, e) <=> Visits(s, e) \/ Visits(t, e)
  <2>1. Visits(s, e) => Visits(u, e)
    BY <1>1, <1>2 DEF Visits
  <2>2. Visits(t, e) => Visits(u, e)
    BY <1>1, <1>3 DEF Visits
  <2>3. Visits(u, e) => Visits(s, e) \/ Visits(t, e)
    BY <1>1, <1>4 DEF Visits
  <2>. QED  BY <2>1, <2>2, <2>3
<1>6. ASSUME Once(key, s), Once(key, t), Apart(key, s, t),
             NEW i \in 1 .. a + b, NEW j \in 1 .. a + b, key[u[i]] = key[u[j]]
      PROVE  i = j
  <2>1. CASE i \in 1 .. a /\ j \in 1 .. a
    BY <1>2, <1>6, <2>1 DEF Once
  <2>2. CASE i - a \in 1 .. b /\ j - a \in 1 .. b
    <3>1. u[i] = t[i - a] /\ u[j] = t[j - a]
      BY <1>1, <1>4, <2>2
    <3>2. i - a = j - a
      BY <1>6, <2>2, <3>1 DEF Once
    <3>. QED  BY <1>1, <3>2
  <2>3. CASE i \in 1 .. a /\ j - a \in 1 .. b
    <3>1. u[i] = s[i] /\ u[j] = t[j - a]
      BY <1>1, <1>4, <2>3
    <3>. QED  BY <1>6, <2>3, <3>1 DEF Visits, Apart
  <2>4. CASE i - a \in 1 .. b /\ j \in 1 .. a
    <3>1. u[j] = s[j] /\ u[i] = t[i - a]
      BY <1>1, <1>4, <2>4
    <3>. QED  BY <1>6, <2>4, <3>1 DEF Visits, Apart
  <2>. QED  BY <1>4, <2>1, <2>2, <2>3, <2>4
<1>7. Once(key, s) /\ Once(key, t) /\ Apart(key, s, t) => Once(key, u)
  BY <1>1, <1>6 DEF Once
<1>. QED  BY <1>1, <1>5, <1>7 DEF u

\* No key is twice in the chains ss.
AllOnce(key, ss) ==
    /\ \A a \in 1 .. Len(ss) : Once(key, ss[a])
    /\ \A a, b \in 1 .. Len(ss) : \A d, e :
          Visits(ss[a], d) /\ Visits(ss[b], e) /\ key[d] = key[e] => a = b

\* The walk through chain after chain visits the items of all chains, once.
LEMMA FlattenOnce ==
    ASSUME NEW E, NEW key, NEW ss \in Seq(Seq(E)), ss # <<>>,
           AllOnce(key, ss)
    PROVE  /\ FlattenSeq(ss) \in Seq(E) /\ Once(key, FlattenSeq(ss))
           /\ \A e : Visits(FlattenSeq(ss), e) <=> \E a \in 1 .. Len(ss) : Visits(ss[a], e)
<1> DEFINE N == Len(ss)
           Q == Seq(E)
<1>1. N \in Nat /\ \A m \in 1 .. N : ss[m] \in Q
  OBVIOUS
<1>2. PICK f \in [0 .. N -> Q] :
          /\ f[0] = <<>> /\ \A m \in 1 .. N : f[m] = f[m - 1] \o ss[m]
          /\ FlattenSeq(ss) = f[N]
  BY FlattenRuns
<1> DEFINE Good(m) == /\ Once(key, f[m])
                      /\ \A e : Visits(f[m], e) <=> \E a \in 1 .. m : Visits(ss[a], e)
           K == {m \in 0 .. N : Good(m)}
<1>3. 0 \in K
  <2>1. Len(f[0]) = 0 /\ 1 .. 0 = {}
    BY <1>2
  <2>2. Good(0)
    BY <2>1 DEF Once, Visits
  <2>. QED  BY <1>1, <2>2
<1>4. ASSUME NEW m \in 1 .. N, m - 1 \in K
      PROVE  m \in K
  <2>1. Good(m - 1) /\ f[m - 1] \in Q /\ ss[m] \in Q /\ f[m] = f[m - 1] \o ss[m]
    BY <1>1, <1>2, <1>4
  <2>2. Apart(key, f[m - 1], ss[m])
    <3> SUFFICES ASSUME NEW d, NEW e, Visits(f[m - 1], d), Visits(ss[m], e), key[d] = key[e]
                 PROVE  FALSE
      BY DEF Apart
    <3>1. PICK a \in 1 .. m - 1 : Visits(ss[a], d)
      BY <2>1
    <3>2. a \in 1 .. N /\ a # m
      BY <1>1
    <3>. QED  BY <3>1, <3>2 DEF AllOnce
  <2>3. Once(key, f[m])
    <3>1. Once(key, f[m - 1]) /\ Once(key, ss[m])
      BY <2>1 DEF AllOnce
    <3>. QED  BY <2>1, <2>2, <3>1, ConcatOnce
  <2>4. ASSUME NEW e PROVE Visits(f[m], e) <=> \E a \in 1 .. m : Visits(ss[a], e)
    <3>1. Visits(f[m], e) <=> Visits(f[m - 1], e) \/ Visits(ss[m], e)
      BY <2>1, ConcatOnce
    <3>2. Visits(f[m - 1], e) <=> \E a \in 1 .. m - 1 : Visits(ss[a], e)
      BY <2>1
    <3>3. \A a : a \in 1 .. m <=> a \in 1 .. m - 1 \/ a = m
      BY <1>1
    <3>. QED  BY <3>1, <3>2, <3>3
  <2>5. Good(m) /\ m \in 0 .. N
    BY <2>3, <2>4
  <2>. QED  BY <2>5
<1> HIDE DEF K, N
<1>5. N \in K
  <2>1. \A m \in 0 .. N : m \in K
    BY <1>1, <1>3, <1>4, StepByStep
  <2>. QED  BY <1>1, <2>1
<1>6. Good(N) /\ f[N] \in Q
  BY <1>1, <1>5 DEF K
<1>. QED  BY <1>2, <1>6 DEF N

-----------------------------------------------------------------------------
(* Tables of chains.                                                       *)

\* t has n chains, every item is in the chain of its key, and no two have a key.
IsTable(E, key, n, t) ==
    /\ t \in [0 .. n - 1 -> Seq(E)]
    /\ \A i \in 0 .. n - 1 : Once(key, t[i]) /\ \A e : Visits(t[i], e) => key[e] % n = i

\* Item e is in a chain of t.
Stored(t, e) == \E i \in DOMAIN t : Visits(t[i], e)

\* No item of t has the key of e.
Fresh(key, t, e) == \A d : Stored(t, d) => key[d] # key[e]

\* t with e at the front of its chain.
Pushed(key, n, t, e) == [t EXCEPT ![key[e] % n] = <<e>> \o @]

LEMMA SingleOnce ==
    ASSUME NEW E, NEW key, NEW e \in E
    PROVE  /\ <<e>> \in Seq(E) /\ Once(key, <<e>>)
           /\ \A d : Visits(<<e>>, d) <=> d = e
<1>1. <<e>> \in Seq(E) /\ Len(<<e>>) = 1 /\ <<e>>[1] = e
  OBVIOUS
<1>. QED  BY <1>1 DEF Once, Visits

\* A new item goes to the front of its chain.
LEMMA PushFront ==
    ASSUME NEW E, NEW key \in [E -> Nat], NEW n \in Nat \ {0}, NEW t, IsTable(E, key, n, t),
           NEW e \in E, Fresh(key, t, e)
    PROVE  /\ IsTable(E, key, n, Pushed(key, n, t, e))
           /\ \A d : Stored(Pushed(key, n, t, e), d) <=> Stored(t, d) \/ d = e
<1> DEFINE c == key[e] % n
           D == 0 .. n - 1
           u == Pushed(key, n, t, e)
<1>1. c \in D /\ t \in [D -> Seq(E)]
  BY DEF IsTable
<1>2. /\ u \in [D -> Seq(E)] /\ u[c] = <<e>> \o t[c]
      /\ \A i \in D : i # c => u[i] = t[i]
  <2>1. t[c] \in Seq(E) /\ <<e>> \o t[c] \in Seq(E)
    BY <1>1, ConcatOnce, SingleOnce
  <2>. QED  BY <1>1, <2>1 DEF Pushed
<1> HIDE DEF u
<1>3. /\ Once(key, u[c]) /\ \A d : Visits(u[c], d) <=> d = e \/ Visits(t[c], d)
  <2>1. Apart(key, <<e>>, t[c])
    BY <1>1, SingleOnce DEF Stored, Apart, Fresh
  <2>2. t[c] \in Seq(E) /\ Once(key, t[c])
    BY <1>1 DEF IsTable
  <2>3. /\ <<e>> \in Seq(E) /\ Once(key, <<e>>)
        /\ \A d : Visits(<<e>>, d) <=> d = e
    BY SingleOnce
  <2> DEFINE one == <<e>>
             tc == t[c]
  <2> HIDE DEF one, tc
  <2>4. Once(key, one \o tc) /\ \A d : Visits(one \o tc, d) <=> Visits(one, d) \/ Visits(tc, d)
    <3>1. /\ one \in Seq(E) /\ tc \in Seq(E)
          /\ Once(key, one) /\ Once(key, tc) /\ Apart(key, one, tc)
      BY <2>1, <2>2, <2>3 DEF one, tc
    <3>. QED  BY <3>1, ConcatOnce
  <2>. QED  BY <1>2, <2>3, <2>4 DEF one, tc
<1>4. \A d : Visits(u[c], d) => key[d] % n = c
  BY <1>1, <1>3 DEF IsTable
<1>5. IsTable(E, key, n, u)
  <2>1. ASSUME NEW i \in D PROVE Once(key, u[i]) /\ \A d : Visits(u[i], d) => key[d] % n = i
    <3>1. CASE i = c
      BY <1>3, <1>4, <3>1
    <3>2. CASE i # c
      BY <1>2, <3>2 DEF IsTable
    <3>. QED  BY <3>1, <3>2
  <2>. QED  BY <1>2, <2>1 DEF IsTable
<1>6. DOMAIN u = D /\ DOMAIN t = D
  BY <1>1, <1>2
<1>7. \A d : Stored(u, d) <=> Stored(t, d) \/ d = e
  BY <1>1, <1>2, <1>3, <1>6 DEF Stored
<1>. QED  BY <1>5, <1>7 DEF u

LEMMA EmptyIsTable ==
    ASSUME NEW E, NEW key, NEW n \in Nat \ {0}
    PROVE  IsTable(E, key, n, EmptyTable(n)) /\ \A e : ~Stored(EmptyTable(n), e)
<1>1. EmptyTable(n) \in [0 .. n - 1 -> Seq(E)] /\ \A i \in 0 .. n - 1 : Len(EmptyTable(n)[i]) = 0
  BY DEF EmptyTable
<1>2. DOMAIN EmptyTable(n) = 0 .. n - 1
  BY DEF EmptyTable
<1>. QED  BY <1>1, <1>2 DEF IsTable, Stored, Visits, Once

LEMMA TableFacts ==
    ASSUME NEW E, NEW key \in [E -> Nat], NEW n \in Nat \ {0}, NEW t, IsTable(E, key, n, t)
    PROVE  /\ DOMAIN t = 0 .. n - 1 /\ Cardinality(DOMAIN t) = n
           /\ \A i \in 0 .. n - 1 : t[i] \in Seq(E)
           /\ \A e : Stored(t, e) => e \in E /\ key[e] % n \in 0 .. n - 1 /\ Visits(t[key[e] % n], e)
           /\ \A d, e : Stored(t, d) /\ Stored(t, e) /\ key[d] = key[e] => d = e
<1>1. DOMAIN t = 0 .. n - 1 /\ t \in [0 .. n - 1 -> Seq(E)]
  BY DEF IsTable
<1>2. Cardinality(DOMAIN t) = n
  <2>1. 0 \in Int /\ n - 1 \in Int /\ (n - 1) - 0 + 1 = n /\ 0 <= n - 1
    OBVIOUS
  <2>. QED  BY <1>1, <2>1, FS_Interval
<1>3. ASSUME NEW e, Stored(t, e)
      PROVE  e \in E /\ key[e] % n \in 0 .. n - 1 /\ Visits(t[key[e] % n], e)
  <2>1. PICK i \in 0 .. n - 1 : Visits(t[i], e)
    BY <1>1, <1>3 DEF Stored
  <2>2. t[i] \in Seq(E) /\ key[e] % n = i
    BY <1>1, <2>1 DEF IsTable
  <2>. QED  BY <2>1, <2>2 DEF Visits
<1>4. ASSUME NEW d, NEW e, Stored(t, d), Stored(t, e), key[d] = key[e]
      PROVE  d = e
  <2> DEFINE i == key[e] % n
  <2>1. i \in 0 .. n - 1 /\ Visits(t[i], d) /\ Visits(t[i], e)
    BY <1>3, <1>4
  <2>2. Once(key, t[i])
    BY <2>1 DEF IsTable
  <2> HIDE DEF i
  <2>3. PICK a \in 1 .. Len(t[i]) : t[i][a] = d
    BY <2>1 DEF Visits
  <2>4. PICK b \in 1 .. Len(t[i]) : t[i][b] = e
    BY <2>1 DEF Visits
  <2>. QED  BY <2>2, <2>3, <2>4, <1>4 DEF Once
<1>. QED  BY <1>1, <1>2, <1>3, <1>4

-----------------------------------------------------------------------------
(* Walking through a table, and moving its items to another one.           *)

\* The walk through chain after chain meets every item once.
LEMMA WalkOnce ==
    ASSUME NEW E, NEW key \in [E -> Nat], NEW n \in Nat \ {0}, NEW t, IsTable(E, key, n, t)
    PROVE  /\ FlattenSeq([i \in 1 .. n |-> t[i - 1]]) \in Seq(E)
           /\ Once(key, FlattenSeq([i \in 1 .. n |-> t[i - 1]]))
           /\ \A e : Visits(FlattenSeq([i \in 1 .. n |-> t[i - 1]]), e) <=> Stored(t, e)
<1> DEFINE ss == [i \in 1 .. n |-> t[i - 1]]
<1>1. \A i \in 1 .. n : i - 1 \in 0 .. n - 1
  OBVIOUS
<1>2. ss \in Seq(Seq(E)) /\ Len(ss) = n /\ \A i \in 1 .. n : ss[i] = t[i - 1]
  BY <1>1 DEF IsTable
<1> HIDE DEF ss
<1>3. ss # <<>>
  BY <1>2
<1>4. \A a \in 1 .. n : Once(key, ss[a]) /\ \A e : Visits(ss[a], e) => key[e] % n = a - 1
  BY <1>1, <1>2 DEF IsTable
<1>5. ASSUME NEW a \in 1 .. n, NEW b \in 1 .. n, NEW d, NEW e,
             Visits(ss[a], d), Visits(ss[b], e), key[d] = key[e]
      PROVE  a = b
  <2>1. a - 1 = b - 1
    BY <1>4, <1>5
  <2>. QED  BY <2>1
<1>6. /\ FlattenSeq(ss) \in Seq(E) /\ Once(key, FlattenSeq(ss))
      /\ \A e : Visits(FlattenSeq(ss), e) <=> \E a \in 1 .. n : Visits(ss[a], e)
  <2>1. AllOnce(key, ss)
    BY <1>2, <1>4, <1>5 DEF AllOnce
  <2>. QED  BY <1>2, <1>3, <2>1, FlattenOnce
<1>7. \A e : Stored(t, e) <=> \E a \in 1 .. n : Visits(ss[a], e)
  <2>1. DOMAIN t = 0 .. n - 1
    BY DEF IsTable
  <2>2. \A i \in 0 .. n - 1 : i + 1 \in 1 .. n /\ ss[i + 1] = t[i]
    <3> SUFFICES ASSUME NEW i \in 0 .. n - 1 PROVE i + 1 \in 1 .. n /\ ss[i + 1] = t[i]
      OBVIOUS
    <3>1. i + 1 \in 1 .. n /\ (i + 1) - 1 = i
      OBVIOUS
    <3>. QED  BY <1>2, <3>1
  <2>3. \A e : (\E a \in 1 .. n : Visits(ss[a], e)) => Stored(t, e)
    BY <2>1, <1>1, <1>2 DEF Stored
  <2>4. \A e : Stored(t, e) => \E a \in 1 .. n : Visits(ss[a], e)
    BY <2>1, <2>2 DEF Stored
  <2>. QED  BY <2>3, <2>4
<1>. QED  BY <1>6, <1>7 DEF ss

\* f has the tables of a loop that pushes the items of walk, one after the other.
Moves(key, n, walk, f) ==
    /\ f[0] = EmptyTable(n)
    /\ \A m \in 1 .. Len(walk) : f[m] = Pushed(key, n, f[m - 1], walk[m])

LEMMA MoveRuns ==
    ASSUME NEW E, NEW key \in [E -> Nat], NEW n \in Nat \ {0}, NEW walk \in Seq(E)
    PROVE  \E f : f = [m \in 0 .. Len(walk) |-> f[m]] /\ Moves(key, n, walk, f)
<1> DEFINE N == Len(walk)
           W == [0 .. n - 1 -> Seq(E)]
           g == [p \in (1 .. N) \X W |-> Pushed(key, n, p[2], walk[p[1]])]
           nil == EmptyTable(n)
<1>1. N \in Nat /\ \A m \in 1 .. N : walk[m] \in E
  OBVIOUS
<1>2. \A t \in W, e \in E : Pushed(key, n, t, e) \in W
  <2> SUFFICES ASSUME NEW t \in W, NEW e \in E PROVE Pushed(key, n, t, e) \in W
    OBVIOUS
  <2>1. key[e] % n \in 0 .. n - 1
    OBVIOUS
  <2>2. <<e>> \o t[key[e] % n] \in Seq(E)
    BY <2>1, SingleOnce, ConcatOnce
  <2>. QED  BY <2>1, <2>2 DEF Pushed
<1>3. nil \in W
  BY EmptyIsTable DEF IsTable
<1> HIDE DEF N, W, nil
<1>4. g \in [(1 .. N) \X W -> W]
  BY <1>1, <1>2
<1>5. \A m \in 1 .. N, t \in W : g[<<m, t>>] = Pushed(key, n, t, walk[m])
  OBVIOUS
<1> HIDE DEF g
<1>6. PICK h \in [0 .. N -> W] : Loop(N, nil, g, h)
  <2>1. N \in Nat /\ nil \in W
    BY <1>1, <1>3
  <2>. QED  BY <2>1, <1>4, LoopRuns
<1>7. ASSUME NEW m \in 1 .. N PROVE h[m] = Pushed(key, n, h[m - 1], walk[m])
  <2>1. m - 1 \in 0 .. N
    BY <1>1
  <2>2. h[m - 1] \in W /\ h[m] = g[<<m, h[m - 1]>>]
    BY <2>1, <1>6 DEF Loop
  <2>. QED  BY <2>2, <1>5
<1>8. h[0] = EmptyTable(n)
  BY <1>6 DEF Loop, nil
<1>9. h = [m \in 0 .. N |-> h[m]]
  OBVIOUS
<1>. QED  BY <1>7, <1>8, <1>9 DEF Moves, N

\* The table that growth fills has the items of the walk, in their chains.
LEMMA MovedIsTable ==
    ASSUME NEW E, NEW key \in [E -> Nat], NEW n \in Nat \ {0}, NEW walk \in Seq(E),
           Once(key, walk), NEW f, Moves(key, n, walk, f)
    PROVE  /\ IsTable(E, key, n, f[Len(walk)])
           /\ \A e : Stored(f[Len(walk)], e) <=> Visits(walk, e)
<1> DEFINE N == Len(walk)
           Good(m) == /\ IsTable(E, key, n, f[m])
                      /\ \A e : Stored(f[m], e) <=> \E j \in 1 .. m : walk[j] = e
           K == {m \in 0 .. N : Good(m)}
<1>1. N \in Nat /\ \A m \in 1 .. N : walk[m] \in E
  OBVIOUS
<1>2. 0 \in K
  <2>1. IsTable(E, key, n, f[0]) /\ \A e : ~Stored(f[0], e)
    BY EmptyIsTable DEF Moves
  <2>2. 1 .. 0 = {}
    OBVIOUS
  <2>3. Good(0)
    BY <2>1, <2>2
  <2>. QED  BY <1>1, <2>3
<1>3. ASSUME NEW m \in 1 .. N, m - 1 \in K
      PROVE  m \in K
  <2> DEFINE e == walk[m]
             t == f[m - 1]
             u == f[m]
  <2>1. /\ IsTable(E, key, n, t) /\ \A d : Stored(t, d) <=> \E j \in 1 .. m - 1 : walk[j] = d
        /\ e \in E /\ u = Pushed(key, n, t, e)
    BY <1>1, <1>3 DEF Moves
  <2>2. Fresh(key, t, e)
    <3> SUFFICES ASSUME NEW d, Stored(t, d), key[d] = key[e] PROVE FALSE
      BY DEF Fresh
    <3>1. PICK j \in 1 .. m - 1 : walk[j] = d
      BY <2>1
    <3>2. j \in 1 .. N /\ j # m
      BY <1>1
    <3>. QED  BY <3>1, <3>2 DEF Once
  <2> HIDE DEF e, t, u
  <2>3. IsTable(E, key, n, u) /\ \A d : Stored(u, d) <=> Stored(t, d) \/ d = e
    BY <2>1, <2>2, PushFront
  <2>4. \A d : Stored(u, d) <=> \E j \in 1 .. m : walk[j] = d
    <3>1. \A j : j \in 1 .. m <=> j \in 1 .. m - 1 \/ j = m
      BY <1>1
    <3>. QED  BY <2>1, <2>3, <3>1 DEF e
  <2>5. Good(m) /\ m \in 0 .. N
    BY <2>3, <2>4 DEF u
  <2>. QED  BY <2>5
<1> HIDE DEF K, N
<1>4. N \in K
  <2>1. \A m \in 0 .. N : m \in K
    BY <1>1, <1>2, <1>3, StepByStep
  <2>. QED  BY <1>1, <2>1
<1>. QED  BY <1>4 DEF K, N, Visits

-----------------------------------------------------------------------------
(* Changing a chain.                                                       *)

LEMMA RemoveAtSeq ==
    ASSUME NEW E, NEW s \in Seq(E), NEW j \in 1 .. Len(s)
    PROVE  /\ RemoveAt(s, j) \in Seq(E) /\ Len(RemoveAt(s, j)) = Len(s) - 1
           /\ \A i \in 1 .. Len(s) - 1 : RemoveAt(s, j)[i] = IF i < j THEN s[i] ELSE s[i + 1]
<1> DEFINE a == SubSeq(s, 1, j - 1)
           b == SubSeq(s, j + 1, Len(s))
<1>1. Len(s) \in Nat /\ j \in Nat /\ j >= 1 /\ j <= Len(s) /\ \A i \in 1 .. Len(s) : s[i] \in E
  OBVIOUS
<1>2. a \in Seq(E) /\ Len(a) = j - 1 /\ \A i \in 1 .. j - 1 : a[i] = s[i]
  <2>1. \A i \in 1 .. j - 1 : s[i] \in E
    BY <1>1
  <2>2. /\ a \in Seq(E) /\ Len(a) = IF 1 <= j - 1 THEN j - 1 - 1 + 1 ELSE 0
        /\ \A i \in 1 .. j - 1 - 1 + 1 : a[i] = s[1 + i - 1]
    BY <1>1, <2>1, SubSeqProperties
  <2> HIDE DEF a
  <2>. QED  BY <1>1, <2>2
<1>3. b \in Seq(E) /\ Len(b) = Len(s) - j /\ \A i \in 1 .. Len(s) - j : b[i] = s[j + i]
  <2>1. \A i \in j + 1 .. Len(s) : s[i] \in E
    BY <1>1
  <2>2. /\ b \in Seq(E) /\ Len(b) = IF j + 1 <= Len(s) THEN Len(s) - (j + 1) + 1 ELSE 0
        /\ \A i \in 1 .. Len(s) - (j + 1) + 1 : b[i] = s[(j + 1) + i - 1]
    BY <1>1, <2>1, SubSeqProperties
  <2> HIDE DEF b
  <2>. QED  BY <1>1, <2>2
<1>4. RemoveAt(s, j) = a \o b
  BY DEF RemoveAt
<1> HIDE DEF a, b
<1>5. /\ a \o b \in Seq(E) /\ Len(a \o b) = Len(a) + Len(b)
      /\ \A i \in 1 .. Len(a) + Len(b) : (a \o b)[i] = IF i <= Len(a) THEN a[i] ELSE b[i - Len(a)]
  BY <1>2, <1>3, ConcatProperties
<1>6. ASSUME NEW i \in 1 .. Len(s) - 1
      PROVE  (a \o b)[i] = IF i < j THEN s[i] ELSE s[i + 1]
  <2>1. (a \o b)[i] = IF i <= j - 1 THEN a[i] ELSE b[i - (j - 1)]
    BY <1>1, <1>2, <1>3, <1>5
  <2>2. CASE i < j
    BY <1>1, <1>2, <2>1, <2>2
  <2>3. CASE ~(i < j)
    <3>1. i - (j - 1) \in 1 .. Len(s) - j /\ j + (i - (j - 1)) = i + 1
      BY <1>1, <2>3
    <3>2. b[i - (j - 1)] = s[j + (i - (j - 1))]
      BY <1>3, <3>1
    <3>. QED  BY <1>1, <2>1, <2>3, <3>1, <3>2
  <2>. QED  BY <2>2, <2>3
<1>. QED  BY <1>1, <1>2, <1>3, <1>4, <1>5, <1>6

LEMMA RemoveAtOnce ==
    ASSUME NEW E, NEW key, NEW s \in Seq(E), Once(key, s), NEW j \in 1 .. Len(s)
    PROVE  /\ RemoveAt(s, j) \in Seq(E) /\ Once(key, RemoveAt(s, j))
           /\ \A e : Visits(RemoveAt(s, j), e) <=> Visits(s, e) /\ key[e] # key[s[j]]
<1> DEFINE r == RemoveAt(s, j)
           N == Len(s)
<1>1. /\ r \in Seq(E) /\ Len(r) = N - 1 /\ N \in Nat
      /\ \A i \in 1 .. N - 1 : r[i] = IF i < j THEN s[i] ELSE s[i + 1]
  BY RemoveAtSeq
<1> HIDE DEF r
<1> DEFINE old(i) == IF i < j THEN i ELSE i + 1
<1>2. \A i \in 1 .. N - 1 : old(i) \in 1 .. N /\ old(i) # j /\ r[i] = s[old(i)]
  BY <1>1
<1>3. \A a, b \in 1 .. N - 1 : old(a) = old(b) => a = b
  BY <1>1
<1>4. \A i \in 1 .. N : i # j => \E a \in 1 .. N - 1 : old(a) = i
  <2> SUFFICES ASSUME NEW i \in 1 .. N, i # j PROVE \E a \in 1 .. N - 1 : old(a) = i
    OBVIOUS
  <2>1. CASE i < j
    BY <1>1, <2>1
  <2>2. CASE i > j
    <3>1. i - 1 \in 1 .. N - 1 /\ old(i - 1) = i
      BY <1>1, <2>2
    <3>. QED  BY <3>1
  <2>. QED  BY <1>1, <2>1, <2>2
<1> HIDE DEF old
<1>5. Once(key, r)
  BY <1>1, <1>2, <1>3 DEF Once
<1>6. ASSUME NEW e, Visits(r, e) PROVE Visits(s, e) /\ key[e] # key[s[j]]
  <2>1. PICK i \in 1 .. N - 1 : r[i] = e
    BY <1>1, <1>6 DEF Visits
  <2>. QED  BY <1>2, <2>1 DEF Visits, Once
<1>7. ASSUME NEW e, Visits(s, e), key[e] # key[s[j]] PROVE Visits(r, e)
  <2>1. PICK i \in 1 .. N : s[i] = e
    BY <1>7 DEF Visits
  <2>2. i # j
    BY <1>7, <2>1
  <2>3. PICK a \in 1 .. N - 1 : old(a) = i
    BY <1>4, <2>2
  <2>. QED  BY <1>1, <1>2, <2>1, <2>3 DEF Visits
<1>. QED  BY <1>1, <1>5, <1>6, <1>7 DEF r

\* s may be chain c of a table of n chains.
MayBeChain(key, n, c, s) == Once(key, s) /\ \A e : Visits(s, e) => key[e] % n = c

\* A chain becomes s.
LEMMA ChainChanged ==
    ASSUME NEW E, NEW key \in [E -> Nat], NEW n \in Nat \ {0}, NEW t, IsTable(E, key, n, t),
           NEW c \in 0 .. n - 1, NEW s \in Seq(E), MayBeChain(key, n, c, s)
    PROVE  /\ IsTable(E, key, n, [t EXCEPT ![c] = s])
           /\ \A e : Stored([t EXCEPT ![c] = s], e)
                       <=> Visits(s, e) \/ (Stored(t, e) /\ key[e] % n # c)
<1> DEFINE u == [t EXCEPT ![c] = s]
<1>1. /\ t \in [0 .. n - 1 -> Seq(E)] /\ u \in [0 .. n - 1 -> Seq(E)] /\ u[c] = s
      /\ \A i \in 0 .. n - 1 : i # c => u[i] = t[i]
  BY DEF IsTable
<1>2. DOMAIN u = 0 .. n - 1 /\ DOMAIN t = 0 .. n - 1
  BY <1>1
<1> HIDE DEF u
<1>3. ASSUME NEW i \in 0 .. n - 1
      PROVE  Once(key, u[i]) /\ \A e : Visits(u[i], e) => key[e] % n = i
  <2>1. CASE i = c
    BY <1>1, <2>1 DEF MayBeChain
  <2>2. CASE i # c
    BY <1>1, <2>2 DEF IsTable
  <2>. QED  BY <2>1, <2>2
<1>4. IsTable(E, key, n, u)
  BY <1>1, <1>3 DEF IsTable
<1>5. ASSUME NEW e PROVE Stored(u, e) <=> Visits(s, e) \/ (Stored(t, e) /\ key[e] % n # c)
  <2>1. \A i \in 0 .. n - 1 : Visits(t[i], e) => key[e] % n = i
    BY DEF IsTable
  <2>. QED  BY <1>1, <1>2, <1>3, <2>1 DEF Stored
<1>. QED  BY <1>4, <1>5 DEF u

\* An item is removed from its chain.
LEMMA RemovedItem ==
    ASSUME NEW E, NEW key \in [E -> Nat], NEW n \in Nat \ {0}, NEW t, IsTable(E, key, n, t),
           NEW c \in 0 .. n - 1, NEW j \in 1 .. Len(t[c])
    PROVE  /\ IsTable(E, key, n, [t EXCEPT ![c] = RemoveAt(@, j)])
           /\ \A e : Stored([t EXCEPT ![c] = RemoveAt(@, j)], e)
                       <=> Stored(t, e) /\ key[e] # key[t[c][j]]
<1> DEFINE s == RemoveAt(t[c], j)
<1>1. /\ t[c] \in Seq(E) /\ Once(key, t[c]) /\ DOMAIN t = 0 .. n - 1
      /\ \A e : Visits(t[c], e) => key[e] % n = c
  BY DEF IsTable
<1>2. [t EXCEPT ![c] = RemoveAt(@, j)] = [t EXCEPT ![c] = s]
  BY <1>1
<1>3. /\ s \in Seq(E) /\ Once(key, s)
      /\ \A e : Visits(s, e) <=> Visits(t[c], e) /\ key[e] # key[t[c][j]]
  BY <1>1, RemoveAtOnce
<1> HIDE DEF s
<1>4. /\ IsTable(E, key, n, [t EXCEPT ![c] = s])
      /\ \A e : Stored([t EXCEPT ![c] = s], e) <=> Visits(s, e) \/ (Stored(t, e) /\ key[e] % n # c)
  <2>1. MayBeChain(key, n, c, s)
    BY <1>1, <1>3 DEF MayBeChain
  <2>. QED  BY <1>3, <2>1, ChainChanged
<1>5. ASSUME NEW e
      PROVE  Visits(s, e) \/ (Stored(t, e) /\ key[e] % n # c)
               <=> Stored(t, e) /\ key[e] # key[t[c][j]]
  <2>1. Stored(t, e) => Visits(t[key[e] % n], e)
    BY TableFacts
  <2>2. Visits(t[c], e) => Stored(t, e)
    BY <1>1 DEF Stored
  <2>3. key[t[c][j]] % n = c
    BY <1>1 DEF Visits
  <2>. QED  BY <1>1, <1>3, <2>1, <2>2, <2>3
<1>. QED  BY <1>2, <1>4, <1>5

\* The key of an item is nowhere else.
LEMMA Elsewhere ==
    ASSUME NEW E, NEW key \in [E -> Nat], NEW n \in Nat \ {0}, NEW t, IsTable(E, key, n, t),
           NEW c \in 0 .. n - 1, NEW p \in 1 .. Len(t[c])
    PROVE  /\ t[c] \in Seq(E) /\ t[c][p] \in E /\ Stored(t, t[c][p])
           /\ \A i \in 0 .. n - 1 : \A e : i # c /\ Visits(t[i], e) => key[e] # key[t[c][p]]
           /\ \A i \in 1 .. Len(t[c]) : i # p => key[t[c][i]] # key[t[c][p]]
<1>1. DOMAIN t = 0 .. n - 1 /\ t[c] \in Seq(E) /\ Once(key, t[c])
  BY DEF IsTable
<1>2. \A i \in 0 .. n - 1 : \A e : Visits(t[i], e) => key[e] % n = i
  BY DEF IsTable
<1>3. t[c][p] \in E /\ Visits(t[c], t[c][p]) /\ Stored(t, t[c][p])
  BY <1>1 DEF Visits, Stored
<1>4. \A i \in 0 .. n - 1 : \A e : i # c /\ Visits(t[i], e) => key[e] # key[t[c][p]]
  BY <1>2, <1>3
<1>5. \A i \in 1 .. Len(t[c]) : i # p => key[t[c][i]] # key[t[c][p]]
  BY <1>1 DEF Once
<1>. QED  BY <1>1, <1>3, <1>4, <1>5

-----------------------------------------------------------------------------
(* Iterators.                                                              *)

\* Item e is at position p of s or behind it.
Rest(s, p, e) == \E i \in p .. Len(s) : s[i] = e

\* Key k is at position p of chain c of t or behind it.
Ahead(key, t, c, p, k) ==
    \E e : /\ key[e] = k
           /\ \/ \E i \in DOMAIN t : i > c /\ Visits(t[i], e)
              \/ c \in DOMAIN t /\ Rest(t[c], p, e)

\* The iterator it is at an item of t, and the keys K are there or ahead; at its
\* end there are none.
Points(key, it, t, K) ==
    \/ it.next_entry = Null /\ K = {}
    \/ \E c \in DOMAIN t : \E p \in 1 .. Len(t[c]) :
          /\ it = [next_entry |-> key[t[c][p]], next_chain |-> c]
          /\ \A k : k \in K <=> Ahead(key, t, c, p, k)

\* The keys that are stored are ahead of the first chain.
LEMMA AllAhead ==
    ASSUME NEW E, NEW key \in [E -> Nat], NEW n \in Nat \ {0}, NEW t, IsTable(E, key, n, t), NEW k
    PROVE  Ahead(key, t, 0, 1, k) <=> \E e : Stored(t, e) /\ key[e] = k
<1>1. DOMAIN t = 0 .. n - 1
  BY DEF IsTable
<1>2. \A e : Rest(t[0], 1, e) <=> Visits(t[0], e)
  BY DEF Rest, Visits
<1>3. \A i \in 0 .. n - 1 : i > 0 \/ i = 0
  OBVIOUS
<1>4. 0 \in 0 .. n - 1
  OBVIOUS
<1>. QED  BY <1>1, <1>2, <1>3, <1>4 DEF Ahead, Stored

\* What is ahead is stored.
LEMMA AheadIsStored ==
    ASSUME NEW E, NEW key \in [E -> Nat], NEW n \in Nat \ {0}, NEW t, IsTable(E, key, n, t),
           NEW c, NEW p \in Nat \ {0}, NEW k, Ahead(key, t, c, p, k)
    PROVE  \E e : Stored(t, e) /\ key[e] = k
<1>1. PICK e : /\ key[e] = k
               /\ \/ \E i \in DOMAIN t : i > c /\ Visits(t[i], e)
                  \/ c \in DOMAIN t /\ Rest(t[c], p, e)
  BY DEF Ahead
<1>2. CASE \E i \in DOMAIN t : i > c /\ Visits(t[i], e)
  BY <1>1, <1>2 DEF Stored
<1>3. CASE c \in DOMAIN t /\ Rest(t[c], p, e)
  <2>1. Len(t[c]) \in Nat
    BY <1>3 DEF IsTable
  <2>2. Visits(t[c], e)
    BY <1>3, <2>1 DEF Visits, Rest
  <2>. QED  BY <1>1, <1>3, <2>2 DEF Stored
<1>. QED  BY <1>1, <1>2, <1>3

\* Behind empty chains nothing is missed.
LEMMA EmptyChains ==
    ASSUME NEW key, NEW n \in Nat \ {0}, NEW t, DOMAIN t = 0 .. n - 1, NEW c \in Nat,
           NEW i \in c .. n, \A j \in c .. i - 1 : t[j] = <<>>, NEW k
    PROVE  Ahead(key, t, c, 1, k) <=> Ahead(key, t, i, 1, k)
<1> DEFINE Late(x) == \E e : key[e] = k /\ \E j \in 0 .. n - 1 : j >= x /\ Visits(t[j], e)
<1>1. \A x \in Nat : Ahead(key, t, x, 1, k) <=> Late(x)
  <2> SUFFICES ASSUME NEW x \in Nat PROVE Ahead(key, t, x, 1, k) <=> Late(x)
    OBVIOUS
  <2>1. \A e : Rest(t[x], 1, e) <=> Visits(t[x], e)
    BY DEF Rest, Visits
  <2>2. \A j \in 0 .. n - 1 : j >= x <=> j > x \/ j = x
    OBVIOUS
  <2>. QED  BY <2>1, <2>2 DEF Ahead
<1>2. \A j \in c .. i - 1 : \A e : ~Visits(t[j], e)
  BY DEF Visits
<1>3. Late(i) => Late(c)
  OBVIOUS
<1>4. ASSUME NEW e, NEW j \in 0 .. n - 1, j >= c, Visits(t[j], e) PROVE j >= i
  <2>1. j \notin c .. i - 1
    BY <1>2, <1>4
  <2>. QED  BY <1>4, <2>1
<1>5. Late(c) => Late(i)
  BY <1>4
<1>6. i \in Nat
  OBVIOUS
<1>. QED  BY <1>1, <1>3, <1>5, <1>6

\* A set of numbers has a least one.
LEMMA Least ==
    ASSUME NEW D, D \subseteq Nat, D # {}
    PROVE  \E x \in D : \A y \in D : x <= y
<1> DEFINE R == OpToRel(<, Nat)
<1>1. PICK x \in D : \A y \in D : ~ (<<y, x>> \in R)
  BY NatLessThanWellFounded, WFMin
<1>2. \A y \in Nat : y < x => <<y, x>> \in R
  BY DEF OpToRel
<1> HIDE DEF R
<1>3. ASSUME NEW y \in D PROVE x <= y
  <2>1. x \in Nat /\ y \in Nat /\ ~(<<y, x>> \in R)
    BY <1>1
  <2>. QED  BY <1>2, <2>1
<1>. QED  BY <1>3

\* it is the iterator at the first item of the chains from c on.
IsFirst(key, n, t, c, it) ==
    LET later == {i \in c .. n - 1 : t[i] # <<>>} IN
    IF later = {} THEN it.next_entry = Null
    ELSE LET i == CHOOSE i \in later : \A j \in later : i <= j
         IN it = [next_entry |-> key[t[i][1]], next_chain |-> i]

LEMMA FirstPoints ==
    ASSUME NEW E, NEW key \in [E -> Nat], NEW n \in Nat \ {0}, NEW t, IsTable(E, key, n, t),
           NEW c \in Nat, c <= n, NEW it, IsFirst(key, n, t, c, it),
           NEW K, \A k : k \in K <=> Ahead(key, t, c, 1, k)
    PROVE  Points(key, it, t, K)
<1> DEFINE later == {i \in c .. n - 1 : t[i] # <<>>}
<1>1. DOMAIN t = 0 .. n - 1 /\ \A i \in 0 .. n - 1 : t[i] \in Seq(E)
  BY DEF IsTable
<1>2. IF later = {} THEN it.next_entry = Null
      ELSE LET i == CHOOSE i \in later : \A j \in later : i <= j
           IN it = [next_entry |-> key[t[i][1]], next_chain |-> i]
  BY DEF IsFirst
<1>3. CASE later = {}
  <2>1. \A j \in c .. n - 1 : t[j] = <<>>
    BY <1>3
  <2>2. n \in c .. n
    OBVIOUS
  <2>3. \A k : Ahead(key, t, c, 1, k) <=> Ahead(key, t, n, 1, k)
    BY <1>1, <2>1, <2>2, EmptyChains
  <2>4. \A k : ~Ahead(key, t, n, 1, k)
    BY <1>1 DEF Ahead
  <2>5. K = {}
    BY <2>3, <2>4
  <2>. QED  BY <1>2, <1>3, <2>5 DEF Points
<1>4. CASE later # {}
  <2> DEFINE i == CHOOSE i \in later : \A j \in later : i <= j
  <2>1. later \subseteq Nat
    OBVIOUS
  <2> HIDE DEF later
  <2>2. \E x \in later : \A y \in later : x <= y
    BY <1>4, <2>1, Least
  <2>3. i \in later /\ \A j \in later : i <= j
    BY <2>2
  <2>4. it = [next_entry |-> key[t[i][1]], next_chain |-> i]
    BY <1>2, <1>4
  <2> HIDE DEF i
  <2>5. /\ i \in c .. n /\ i \in DOMAIN t /\ t[i] # <<>> /\ t[i] \in Seq(E)
        /\ \A j \in c .. i - 1 : t[j] = <<>>
    <3>1. i \in c .. n - 1 /\ t[i] # <<>>
      BY <2>3 DEF later
    <3>2. ASSUME NEW j \in c .. i - 1 PROVE t[j] = <<>>
      <4>1. j \in c .. n - 1 /\ ~(i <= j)
        BY <3>1
      <4>. QED  BY <2>3, <4>1 DEF later
    <3>3. i \in c .. n /\ i \in 0 .. n - 1
      BY <3>1
    <3>4. i \in DOMAIN t /\ t[i] \in Seq(E)
      BY <1>1, <3>3
    <3>. QED  BY <3>1, <3>2, <3>3, <3>4
  <2>6. 1 \in 1 .. Len(t[i])
    BY <2>5
  <2>7. \A k : Ahead(key, t, c, 1, k) <=> Ahead(key, t, i, 1, k)
    BY <1>1, <2>5, EmptyChains
  <2>8. \A k : k \in K <=> Ahead(key, t, i, 1, k)
    BY <2>7
  <2>. QED  BY <2>4, <2>5, <2>6, <2>8 DEF Points
<1>. QED  BY <1>3, <1>4

\* One item on: only the one that was returned is no longer ahead.
LEMMA OneOn ==
    ASSUME NEW E, NEW key \in [E -> Nat], NEW n \in Nat \ {0}, NEW t, IsTable(E, key, n, t),
           NEW c \in 0 .. n - 1, NEW p \in 1 .. Len(t[c]), NEW k
    PROVE  /\ p < Len(t[c]) =>
                 (Ahead(key, t, c, p + 1, k) <=> Ahead(key, t, c, p, k) /\ k # key[t[c][p]])
           /\ p = Len(t[c]) =>
                 (Ahead(key, t, c + 1, 1, k) <=> Ahead(key, t, c, p, k) /\ k # key[t[c][p]])
<1> DEFINE s == t[c]
           x == key[s[p]]
           Later(e) == \E i \in DOMAIN t : i > c /\ Visits(t[i], e)
<1>1. DOMAIN t = 0 .. n - 1 /\ s \in Seq(E)
  BY DEF IsTable
<1>2. \A e : Later(e) => key[e] # x
  <2>1. \A i \in 0 .. n - 1 : \A e : i # c /\ Visits(t[i], e) => key[e] # x
    BY Elsewhere
  <2>. QED  BY <1>1, <2>1
<1>3. \A i \in 1 .. Len(s) : i # p => key[s[i]] # x
  BY Elsewhere
<1>4. Ahead(key, t, c, p, k) <=> \E e : key[e] = k /\ (Later(e) \/ Rest(s, p, e))
  BY <1>1 DEF Ahead
<1>5. ASSUME p < Len(s)
      PROVE  Ahead(key, t, c, p + 1, k) <=> Ahead(key, t, c, p, k) /\ k # x
  <2>1. Ahead(key, t, c, p + 1, k) <=> \E e : key[e] = k /\ (Later(e) \/ Rest(s, p + 1, e))
    BY <1>1 DEF Ahead
  <2>2. key[s[p]] = x
    OBVIOUS
  <2> HIDE DEF Later, s, x
  <2>3. \A e : Rest(s, p + 1, e) => Rest(s, p, e) /\ key[e] # x
    BY <1>1, <1>3 DEF Rest
  <2>4. \A e : Rest(s, p, e) /\ key[e] # x => Rest(s, p + 1, e)
    <3> SUFFICES ASSUME NEW e, Rest(s, p, e), key[e] # x PROVE Rest(s, p + 1, e)
      OBVIOUS
    <3>1. PICK i \in p .. Len(s) : s[i] = e
      BY DEF Rest
    <3>2. i # p
      BY <2>2, <3>1
    <3>. QED  BY <1>1, <3>1, <3>2 DEF Rest
  <2>. QED  BY <1>2, <1>4, <2>1, <2>3, <2>4
<1>6. ASSUME p = Len(s)
      PROVE  Ahead(key, t, c + 1, 1, k) <=> Ahead(key, t, c, p, k) /\ k # x
  <2>1. Ahead(key, t, c + 1, 1, k) <=> \E e : key[e] = k /\ Later(e)
    <3>1. \A i \in DOMAIN t : i > c <=> i > c + 1 \/ i = c + 1
      BY <1>1
    <3>. QED  BY <3>1 DEF Ahead, Rest, Visits
  <2>2. \A e : Rest(s, p, e) <=> e = s[p]
    BY <1>1, <1>6 DEF Rest
  <2>3. key[s[p]] = x
    OBVIOUS
  <2> HIDE DEF Later, s, x
  <2>. QED  BY <1>2, <1>4, <2>1, <2>2, <2>3
<1>. QED  BY <1>5, <1>6

\* it is the iterator behind item p of chain c.
IsNext(key, n, t, c, p, it) ==
    IF p < Len(t[c]) THEN it = [next_entry |-> key[t[c][p + 1]], next_chain |-> c]
    ELSE IsFirst(key, n, t, c + 1, it)

LEMMA NextPoints ==
    ASSUME NEW E, NEW key \in [E -> Nat], NEW n \in Nat \ {0}, NEW t, IsTable(E, key, n, t),
           NEW c \in 0 .. n - 1, NEW p \in 1 .. Len(t[c]), NEW it, IsNext(key, n, t, c, p, it),
           NEW K, \A k : k \in K <=> Ahead(key, t, c, p, k)
    PROVE  Points(key, it, t, K \ {key[t[c][p]]})
<1> DEFINE L == K \ {key[t[c][p]]}
<1>1. DOMAIN t = 0 .. n - 1 /\ t[c] \in Seq(E)
  BY DEF IsTable
<1>2. CASE p < Len(t[c])
  <2>1. it = [next_entry |-> key[t[c][p + 1]], next_chain |-> c]
    BY <1>2 DEF IsNext
  <2>2. p + 1 \in 1 .. Len(t[c])
    BY <1>1, <1>2
  <2>3. \A k : Ahead(key, t, c, p + 1, k) <=> Ahead(key, t, c, p, k) /\ k # key[t[c][p]]
    BY <1>2, OneOn
  <2>4. \A k : k \in L <=> Ahead(key, t, c, p + 1, k)
    BY <2>3
  <2> HIDE DEF L
  <2>5. Points(key, it, t, L)
    BY <1>1, <2>1, <2>2, <2>4 DEF Points
  <2>. QED  BY <2>5 DEF L
<1>3. CASE ~(p < Len(t[c]))
  <2>1. IsFirst(key, n, t, c + 1, it) /\ p = Len(t[c]) /\ c + 1 \in Nat /\ c + 1 <= n
    BY <1>1, <1>3 DEF IsNext
  <2>2. \A k : Ahead(key, t, c + 1, 1, k) <=> Ahead(key, t, c, p, k) /\ k # key[t[c][p]]
    <3>1. p = Len(t[c])
      BY <2>1
    <3> SUFFICES ASSUME NEW k
                 PROVE  Ahead(key, t, c + 1, 1, k) <=> Ahead(key, t, c, p, k) /\ k # key[t[c][p]]
      OBVIOUS
    <3>2. p = Len(t[c]) =>
              (Ahead(key, t, c + 1, 1, k) <=> Ahead(key, t, c, p, k) /\ k # key[t[c][p]])
      BY OneOn
    <3>. QED  BY <3>1, <3>2
  <2>3. \A k : k \in L <=> Ahead(key, t, c + 1, 1, k)
    BY <2>2
  <2> HIDE DEF L
  <2>4. Points(key, it, t, L)
    BY <2>1, <2>3, FirstPoints
  <2>. QED  BY <2>4 DEF L
<1>. QED  BY <1>2, <1>3

\* The iterator is at the first key of K, and at its end when there is none.
LEMMA PointsExactly ==
    ASSUME NEW E, NEW key \in [E -> Nat], NEW n \in Nat \ {0}, NEW t, IsTable(E, key, n, t),
           NEW it, NEW K, Points(key, it, t, K)
    PROVE  IF K = {} THEN it.next_entry = Null ELSE it.next_entry \in K
<1>1. CASE it.next_entry = Null /\ K = {}
  BY <1>1
<1>2. ASSUME NEW c \in DOMAIN t, NEW p \in 1 .. Len(t[c]),
             it = [next_entry |-> key[t[c][p]], next_chain |-> c],
             \A k : k \in K <=> Ahead(key, t, c, p, k)
      PROVE  it.next_entry \in K
  <2>1. t[c] \in Seq(E)
    BY DEF IsTable
  <2>2. Rest(t[c], p, t[c][p])
    BY <2>1 DEF Rest
  <2>3. Ahead(key, t, c, p, key[t[c][p]])
    BY <2>2 DEF Ahead
  <2>. QED  BY <1>2, <2>3
<1>. QED  BY <1>1, <1>2 DEF Points

\* Two items of s, at p and at j.
TwoItems(E, key, s, p, j) ==
    /\ s \in Seq(E) /\ Once(key, s)
    /\ p \in 1 .. Len(s) /\ j \in 1 .. Len(s) /\ j # p

\* Without item j, the item at p is at q, and before the same items but j.
MovesTo(key, s, p, j, q) ==
    /\ q \in 1 .. Len(RemoveAt(s, j)) /\ RemoveAt(s, j)[q] = s[p]
    /\ \A e : Rest(RemoveAt(s, j), q, e) <=> Rest(s, p, e) /\ key[e] # key[s[j]]

\* An iterator survives the removal of another entry of its chain.
LEMMA RestRemoved ==
    ASSUME NEW E, NEW key, NEW s, NEW p, NEW j, TwoItems(E, key, s, p, j)
    PROVE  \E q : MovesTo(key, s, p, j, q)
<1> DEFINE r == RemoveAt(s, j)
           N == Len(s)
           q == IF j < p THEN p - 1 ELSE p
           old(i) == IF i < j THEN i ELSE i + 1
<1>0. p \in 1 .. N /\ j \in 1 .. N /\ j # p /\ Once(key, s)
  BY DEF TwoItems
<1>1. /\ r \in Seq(E) /\ Len(r) = N - 1 /\ N \in Nat
      /\ \A i \in 1 .. N - 1 : r[i] = IF i < j THEN s[i] ELSE s[i + 1]
  BY RemoveAtSeq DEF TwoItems
<1> HIDE DEF r
<1>2. q \in 1 .. N - 1 /\ old(q) = p
  BY <1>0, <1>1
<1>3. \A i \in 1 .. N - 1 : old(i) \in 1 .. N /\ old(i) # j /\ r[i] = s[old(i)]
  BY <1>0, <1>1
<1>4. \A i \in q .. N - 1 : old(i) \in p .. N
  BY <1>0, <1>1, <1>2
<1>5. \A i \in p .. N : i # j => \E a \in q .. N - 1 : old(a) = i
  <2> SUFFICES ASSUME NEW i \in p .. N, i # j PROVE \E a \in q .. N - 1 : old(a) = i
    OBVIOUS
  <2>1. CASE i < j
    <3>1. i \in q .. N - 1 /\ old(i) = i
      BY <1>0, <1>1, <2>1
    <3>. QED  BY <3>1
  <2>2. CASE i > j
    <3>1. i - 1 \in q .. N - 1 /\ old(i - 1) = i
      BY <1>0, <1>1, <2>2
    <3>. QED  BY <3>1
  <2>. QED  BY <1>0, <1>1, <2>1, <2>2
<1> HIDE DEF q, old
<1>6. r[q] = s[p]
  BY <1>2, <1>3
<1>7. ASSUME NEW e, Rest(r, q, e) PROVE Rest(s, p, e) /\ key[e] # key[s[j]]
  <2>1. PICK i \in q .. N - 1 : r[i] = e
    BY <1>1, <1>7 DEF Rest
  <2>2. i \in 1 .. N - 1
    BY <1>0, <1>1, <1>2
  <2>3. old(i) \in 1 .. N /\ old(i) \in p .. N /\ old(i) # j /\ s[old(i)] = e
    BY <1>3, <1>4, <2>1, <2>2
  <2>. QED  BY <1>0, <2>3 DEF Rest, Once
<1>8. ASSUME NEW e, Rest(s, p, e), key[e] # key[s[j]] PROVE Rest(r, q, e)
  <2>1. PICK i \in p .. N : s[i] = e
    BY <1>8 DEF Rest
  <2>2. PICK a \in q .. N - 1 : old(a) = i
    BY <1>5, <1>8, <2>1
  <2>3. a \in 1 .. N - 1
    BY <1>0, <1>1, <1>2
  <2>. QED  BY <1>1, <1>3, <2>1, <2>2, <2>3 DEF Rest
<1>9. MovesTo(key, s, p, j, q)
  BY <1>1, <1>2, <1>6, <1>7, <1>8 DEF r, MovesTo
<1>. QED  BY <1>9

\* An iterator survives the removal of another item.
LEMMA RemovedPoints ==
    ASSUME NEW E, NEW key \in [E -> Nat], NEW n \in Nat \ {0}, NEW t, IsTable(E, key, n, t),
           NEW x \in 0 .. n - 1, NEW j \in 1 .. Len(t[x]),
           NEW it, NEW K, Points(key, it, t, K), it.next_entry # key[t[x][j]]
    PROVE  Points(key, it, [t EXCEPT ![x] = RemoveAt(@, j)], K \ {key[t[x][j]]})
<1> DEFINE s == t[x]
           r == RemoveAt(s, j)
           k == key[s[j]]
           u == [t EXCEPT ![x] = RemoveAt(@, j)]
           L == K \ {k}
<1>1. DOMAIN t = 0 .. n - 1 /\ s \in Seq(E) /\ Once(key, s) /\ k = key[s[j]]
  BY DEF IsTable
<1>2. DOMAIN u = 0 .. n - 1 /\ u[x] = r /\ \A i \in 0 .. n - 1 : i # x => u[i] = t[i]
  BY <1>1
<1>3. \A i \in 0 .. n - 1 : \A e : i # x /\ Visits(t[i], e) => key[e] # k
  BY Elsewhere
<1>4. \A e : Visits(r, e) <=> Visits(s, e) /\ key[e] # k
  BY <1>1, RemoveAtOnce
<1>5. CASE it.next_entry = Null /\ K = {}
  <2>1. L = {}
    BY <1>5
  <2> HIDE DEF L, u, k
  <2>2. Points(key, it, u, L)
    BY <1>5, <2>1 DEF Points
  <2>. QED  BY <2>2 DEF L, u, k
<1>6. ASSUME NEW c \in DOMAIN t, NEW p \in 1 .. Len(t[c]),
             it = [next_entry |-> key[t[c][p]], next_chain |-> c],
             \A y : y \in K <=> Ahead(key, t, c, p, y)
      PROVE  Points(key, it, u, L)
  <2>1. key[t[c][p]] # k /\ t[c] \in Seq(E) /\ c \in 0 .. n - 1 /\ p >= 1
    BY <1>1, <1>6 DEF IsTable
  <2>2. \A i : i \in 1 .. Len(s) /\ t[c] = s /\ i = j => i # p
    BY <1>1, <2>1
  <2> HIDE DEF u, r, k, L
  <2>3. ASSUME NEW e, NEW i \in 0 .. n - 1
        PROVE  Visits(u[i], e) <=> Visits(t[i], e) /\ key[e] # k
    <3>1. CASE i = x
      BY <1>2, <1>4, <3>1
    <3>2. CASE i # x
      BY <1>2, <1>3, <3>2
    <3>. QED  BY <3>1, <3>2
  <2>4. PICK q \in 1 .. Len(u[c]) :
            /\ u[c][q] = t[c][p]
            /\ \A e : Rest(u[c], q, e) <=> Rest(t[c], p, e) /\ key[e] # k
    <3>1. CASE c = x
      <4>1. TwoItems(E, key, s, p, j)
        BY <1>1, <2>2, <3>1 DEF TwoItems
      <4>2. PICK q : MovesTo(key, s, p, j, q)
        BY <4>1, RestRemoved, Zenon
      <4>3. /\ q \in 1 .. Len(r) /\ r[q] = s[p]
            /\ \A e : Rest(r, q, e) <=> Rest(s, p, e) /\ key[e] # k
        BY <4>2 DEF MovesTo, r, k
      <4>4. u[c] = r /\ t[c] = s
        BY <1>2, <3>1
      <4> HIDE DEF s
      <4>. QED  BY <4>3, <4>4
    <3>2. CASE c # x
      <4>1. u[c] = t[c]
        BY <1>2, <2>1, <3>2
      <4>2. \A e : Rest(t[c], p, e) => Visits(t[c], e)
        BY <2>1 DEF Rest, Visits
      <4>3. \A e : Rest(t[c], p, e) => key[e] # k
        BY <1>3, <2>1, <3>2, <4>2
      <4>. QED  BY <4>1, <4>3
    <3>. QED  BY <3>1, <3>2
  <2>5. ASSUME NEW y PROVE Ahead(key, u, c, q, y) <=> Ahead(key, t, c, p, y) /\ y # k
    <3> DEFINE Late(e) == \E i \in 0 .. n - 1 : i > c /\ Visits(t[i], e)
               Late2(e) == \E i \in 0 .. n - 1 : i > c /\ Visits(u[i], e)
    <3>1. Ahead(key, t, c, p, y) <=> \E e : key[e] = y /\ (Late(e) \/ Rest(t[c], p, e))
      BY <1>1, <2>1 DEF Ahead
    <3>2. Ahead(key, u, c, q, y) <=> \E e : key[e] = y /\ (Late2(e) \/ Rest(u[c], q, e))
      BY <1>2, <2>1 DEF Ahead
    <3>3. \A e : Late2(e) <=> Late(e) /\ key[e] # k
      BY <2>3
    <3> HIDE DEF Late, Late2
    <3>. QED  BY <2>4, <3>1, <3>2, <3>3
  <2>6. it = [next_entry |-> key[u[c][q]], next_chain |-> c]
    BY <1>6, <2>4
  <2>7. \A y : y \in L <=> Ahead(key, u, c, q, y)
    BY <1>6, <2>5 DEF L
  <2>. QED  BY <1>2, <2>1, <2>4, <2>6, <2>7 DEF Points
<1>. QED  BY <1>5, <1>6 DEF Points

-----------------------------------------------------------------------------
(* The hash table.                                                         *)

Item == [key : Keys, value : Values]
Key  == [e \in Item |-> e.key]

LEMMA KeyType == Key \in [Item -> Nat] /\ \A e \in Item : Key[e] = e.key /\ e.key \in Keys
BY HashTableAssumption DEF Key, Item

TableOK ==
    /\ table_size \in Nat \ {0} /\ IsTable(Item, Key, table_size, table)
    /\ IsFiniteSet(KeySet) /\ entries = Cardinality(KeySet)
    /\ prime_index \in Nat

\* The entries of a table, and the map they are.
Elems(t) == UNION {Range(t[i]) : i \in DOMAIN t}
DictOf(t) == [k \in {e.key : e \in Elems(t)} |-> (CHOOSE e \in Elems(t) : e.key = k).value]

LEMMA DictDefs ==
    /\ EntrySet = Elems(table) /\ KeySet = {e.key : e \in Elems(table)}
    /\ Dict = DictOf(table) /\ DOMAIN DictOf(table) = KeySet
    /\ EntrySet' = Elems(table') /\ KeySet' = {e.key : e \in Elems(table')}
    /\ Dict' = DictOf(table') /\ DOMAIN DictOf(table') = KeySet'
BY DEF EntrySet, KeySet, Dict, Elems, DictOf

LEMMA ElemsStored ==
    ASSUME NEW n \in Nat \ {0}, NEW t, IsTable(Item, Key, n, t)
    PROVE  \A e : e \in Elems(t) <=> Stored(t, e)
<1>1. \A i \in DOMAIN t : t[i] \in Seq(Item)
  BY TableFacts, KeyType
<1>2. \A i \in DOMAIN t : DOMAIN t[i] = 1 .. Len(t[i])
  BY <1>1
<1>. QED  BY <1>2 DEF Elems, Stored, Visits, Range

\* The map has exactly the pairs that are stored.
LEMMA DictPairs ==
    ASSUME NEW n \in Nat \ {0}, NEW t, IsTable(Item, Key, n, t)
    PROVE  \A k, v : Stored(t, Entry(k, v)) <=> k \in DOMAIN DictOf(t) /\ DictOf(t)[k] = v
<1> DEFINE R == Elems(t)
<1>1. \A e \in R : e \in Item /\ Stored(t, e)
  BY ElemsStored, TableFacts, KeyType
<1>2. \A d, e \in R : d.key = e.key => d = e
  BY <1>1, TableFacts, KeyType
<1>3. \A e \in Item : e = Entry(e.key, e.value)
  BY DEF Item, Entry
<1>4. \A k, v : Entry(k, v).key = k /\ Entry(k, v).value = v
  BY DEF Entry
<1>5. DOMAIN DictOf(t) = {e.key : e \in R}
  BY DEF DictOf
<1>6. \A k \in DOMAIN DictOf(t) : DictOf(t)[k] = (CHOOSE e \in R : e.key = k).value
  BY DEF DictOf
<1>7. \A k, v : Entry(k, v) \in R <=> Stored(t, Entry(k, v))
  BY ElemsStored
<1> HIDE DEF R
<1>8. ASSUME NEW k \in DOMAIN DictOf(t)
      PROVE  \E v : Entry(k, v) \in R /\ DictOf(t)[k] = v
  <2> DEFINE e == CHOOSE x \in R : x.key = k
  <2>1. \E x \in R : x.key = k
    BY <1>5
  <2>2. e \in R /\ e.key = k
    BY <2>1
  <2>3. DictOf(t)[k] = e.value
    BY <1>6
  <2> HIDE DEF e
  <2>. QED  BY <2>2, <2>3, <1>1, <1>3
<1>9. ASSUME NEW k, NEW v, Entry(k, v) \in R
      PROVE  k \in DOMAIN DictOf(t) /\ DictOf(t)[k] = v
  <2>1. k \in DOMAIN DictOf(t)
    BY <1>4, <1>5, <1>9
  <2>2. PICK w : Entry(k, w) \in R /\ DictOf(t)[k] = w
    BY <2>1, <1>8
  <2>3. Entry(k, w) = Entry(k, v)
    BY <2>2, <1>2, <1>4, <1>9
  <2>. QED  BY <2>1, <2>2, <2>3, <1>4
<1>. QED  BY <1>7, <1>8, <1>9

\* A function with the pairs that are stored is the map.
LEMMA DictEqual ==
    ASSUME NEW n \in Nat \ {0}, NEW t, IsTable(Item, Key, n, t),
           NEW D, NEW d \in [D -> Values],
           \A k \in Keys, v \in Values : Stored(t, Entry(k, v)) <=> k \in D /\ d[k] = v,
           D \subseteq Keys
    PROVE  DictOf(t) = d
<1> DEFINE m == DictOf(t)
<1>1. \A k, v : Stored(t, Entry(k, v)) <=> k \in DOMAIN m /\ m[k] = v
  BY DictPairs
<1>2. \A k, v : Stored(t, Entry(k, v)) => k \in Keys /\ v \in Values
  <2> SUFFICES ASSUME NEW k, NEW v, Stored(t, Entry(k, v)) PROVE k \in Keys /\ v \in Values
    OBVIOUS
  <2>1. Entry(k, v) \in Item
    BY TableFacts, KeyType
  <2>. QED  BY <2>1 DEF Item, Entry
<1>3. m = [k \in DOMAIN m |-> m[k]]
  BY DEF DictOf
<1> HIDE DEF m
<1>4. \A k : k \in DOMAIN m <=> k \in D
  <2>1. ASSUME NEW k \in DOMAIN m PROVE k \in D
    BY <1>1, <1>2
  <2>2. ASSUME NEW k \in D PROVE k \in DOMAIN m
    <3>1. k \in Keys /\ d[k] \in Values
      OBVIOUS
    <3>. QED  BY <1>1, <3>1
  <2>. QED  BY <2>1, <2>2
<1>5. DOMAIN m = D
  BY <1>4
<1>6. \A k \in D : m[k] = d[k]
  BY <1>1, <1>5
<1>. QED  BY <1>3, <1>5, <1>6 DEF m

-----------------------------------------------------------------------------
(* Growth of the hash table.                                               *)

\* The walk of hash_table_enlarge meets every entry once.
LEMMA WalkMeetsAll ==
    ASSUME TableOK
    PROVE  /\ AllEntries \in Seq(Item) /\ Once(Key, AllEntries)
           /\ \A e : Visits(AllEntries, e) <=> Stored(table, e)
<1> DEFINE n == table_size
<1>1. n \in Nat \ {0} /\ IsTable(Item, Key, n, table)
  BY DEF TableOK
<1>2. AllEntries = FlattenSeq([i \in 1 .. n |-> table[i - 1]])
  BY DEF AllEntries
<1> HIDE DEF n
<1>. QED  BY <1>1, <1>2, KeyType, WalkOnce

\* hash_table_enlarge moves every entry to the chain of its key.
LEMMA RehashedIsTable ==
    ASSUME TableOK, NEW n \in Nat \ {0}
    PROVE  /\ IsTable(Item, Key, n, Rehashed(n))
           /\ \A e : Stored(Rehashed(n), e) <=> Stored(table, e)
<1> DEFINE walk == AllEntries
           N == Len(walk)
           Def(f) == f = [m \in 0 .. N |->
                             IF m = 0 THEN EmptyTable(n)
                             ELSE [f[m - 1] EXCEPT ![Index(walk[m].key, n)] = <<walk[m]>> \o @]]
           c == CHOOSE f : Def(f)
<1>1. /\ walk \in Seq(Item) /\ Once(Key, walk)
      /\ \A e : Visits(walk, e) <=> Stored(table, e)
  BY WalkMeetsAll
<1>2. Rehashed(n) = c[N]
  BY Zenon DEF Rehashed
<1> HIDE DEF walk
<1>3. N \in Nat /\ \A m \in 1 .. N : walk[m] \in Item
  BY <1>1
<1>4. \A m \in 1 .. N : \A t : [t EXCEPT ![Index(walk[m].key, n)] = <<walk[m]>> \o @]
                                = Pushed(Key, n, t, walk[m])
  BY <1>3, KeyType DEF Pushed, Index
<1>5. PICK h : h = [m \in 0 .. N |-> h[m]] /\ Moves(Key, n, walk, h)
  BY <1>1, KeyType, MoveRuns
<1> HIDE DEF N
<1>6. Def(h)
  <2>1. ASSUME NEW m \in 0 .. N
        PROVE  h[m] = IF m = 0 THEN EmptyTable(n)
                      ELSE [h[m - 1] EXCEPT ![Index(walk[m].key, n)] = <<walk[m]>> \o @]
    <3>1. CASE m = 0
      BY <1>5, <3>1 DEF Moves
    <3>2. CASE m # 0
      <4>1. m \in 1 .. N
        BY <1>3, <3>2
      <4>2. h[m] = Pushed(Key, n, h[m - 1], walk[m])
        BY <1>5, <4>1 DEF Moves, N
      <4>3. [h[m - 1] EXCEPT ![Index(walk[m].key, n)] = <<walk[m]>> \o @]
                = Pushed(Key, n, h[m - 1], walk[m])
        BY <1>4, <4>1
      <4>. QED  BY <3>2, <4>2, <4>3
    <3>. QED  BY <3>1, <3>2
  <2>. QED  BY <1>5, <2>1
<1>7. Def(c)
  BY <1>6, Zenon
<1> HIDE DEF c
<1>8. c[0] = EmptyTable(n)
  BY <1>3, <1>7
<1>9. \A m \in 1 .. N : c[m] = Pushed(Key, n, c[m - 1], walk[m])
  <2> SUFFICES ASSUME NEW m \in 1 .. N PROVE c[m] = Pushed(Key, n, c[m - 1], walk[m])
    OBVIOUS
  <2>1. m \in 0 .. N /\ m # 0
    BY <1>3
  <2>2. c[m] = [c[m - 1] EXCEPT ![Index(walk[m].key, n)] = <<walk[m]>> \o @]
    BY <1>7, <2>1
  <2>. QED  BY <1>4, <2>2
<1>10. Moves(Key, n, walk, c)
  BY <1>8, <1>9 DEF Moves, N
<1>11. IsTable(Item, Key, n, c[N]) /\ \A e : Stored(c[N], e) <=> Visits(walk, e)
  BY <1>1, <1>10, KeyType, MovedIsTable DEF N
<1>. QED  BY <1>1, <1>2, <1>11

\* The table hash_table_insert goes on with.
LEMMA GrownIsTable ==
    ASSUME TableOK
    PROVE  \E n \in Nat \ {0} : /\ IsTable(Item, Key, n, Grown) /\ Cardinality(DOMAIN Grown) = n
                                /\ \A e : Stored(Grown, e) <=> Stored(table, e)
<1>1. CASE TooFull
  <2> DEFINE n == AllocSize(prime_index + 1)
  <2>1. entries \in Nat /\ prime_index \in Nat /\ table_size \in Nat \ {0}
    BY FS_CardinalityType DEF TableOK
  <2>2. entries # 0
    BY <1>1, <2>1 DEF TooFull
  <2>3. n \in Nat \ {0}
    BY <2>1, <2>2, HashTableAssumption DEF AllocSize
  <2>4. Grown = Rehashed(n)
    BY <1>1 DEF Grown
  <2> HIDE DEF n
  <2>5. IsTable(Item, Key, n, Grown) /\ \A e : Stored(Grown, e) <=> Stored(table, e)
    BY <2>3, <2>4, RehashedIsTable
  <2>6. Cardinality(DOMAIN Grown) = n
    BY <2>3, <2>5, KeyType, TableFacts
  <2>. QED  BY <2>3, <2>5, <2>6
<1>2. CASE ~TooFull
  <2>1. Grown = table
    BY <1>2 DEF Grown
  <2>. QED  BY <2>1 DEF TableOK, table_size
<1>. QED  BY <1>1, <1>2

LEMMA AtFacts ==
    ASSUME NEW n \in Nat \ {0}, NEW t, IsTable(Item, Key, n, t), NEW k \in Keys
    PROVE  /\ Index(k, n) \in 0 .. n - 1
           /\ At(t[Index(k, n)], k) = {} => \A e : Stored(t, e) => e.key # k
           /\ \A j \in At(t[Index(k, n)], k) :
                 /\ j \in 1 .. Len(t[Index(k, n)]) /\ t[Index(k, n)][j] \in Item
                 /\ t[Index(k, n)][j].key = k /\ Stored(t, t[Index(k, n)][j])
<1> DEFINE c == Index(k, n)
<1>1. k \in Nat /\ c \in 0 .. n - 1
  BY HashTableAssumption DEF Index
<1>2. t[c] \in Seq(Item) /\ c \in DOMAIN t /\ DOMAIN t[c] = 1 .. Len(t[c])
  BY <1>1, TableFacts, KeyType
<1>3. \A e : Stored(t, e) => e \in Item /\ Visits(t[Index(e.key, n)], e)
  BY TableFacts, KeyType DEF Index
<1>4. At(t[c], k) = {} => \A e : Stored(t, e) => e.key # k
  BY <1>2, <1>3 DEF At, Visits
<1>5. \A j \in At(t[c], k) : /\ j \in 1 .. Len(t[c]) /\ t[c][j] \in Item
                             /\ t[c][j].key = k /\ Stored(t, t[c][j])
  BY <1>2 DEF At, Stored, Visits
<1>. QED  BY <1>1, <1>4, <1>5

\* The value of a key is replaced.
LEMMA Replaced ==
    ASSUME NEW n \in Nat \ {0}, NEW t, IsTable(Item, Key, n, t), NEW k \in Keys, NEW v \in Values,
           NEW j \in At(t[Index(k, n)], k)
    PROVE  /\ IsTable(Item, Key, n, [t EXCEPT ![Index(k, n)][j] = Entry(k, v)])
           /\ \A e : Stored([t EXCEPT ![Index(k, n)][j] = Entry(k, v)], e)
                       <=> (Stored(t, e) /\ e.key # k) \/ e = Entry(k, v)
<1> DEFINE c == Index(k, n)
           x == Entry(k, v)
           s == [t[c] EXCEPT ![j] = x]
<1>1. /\ c \in 0 .. n - 1 /\ j \in 1 .. Len(t[c]) /\ t[c][j] \in Item /\ t[c][j].key = k
      /\ x \in Item /\ x.key = k /\ c = k % n /\ t[c] \in Seq(Item) /\ Once(Key, t[c])
      /\ DOMAIN t = 0 .. n - 1
      /\ \A e : Visits(t[c], e) => Key[e] % n = c
  <2>1. x \in Item /\ x.key = k /\ c = k % n
    BY DEF Item, Entry, Index
  <2>2. c \in 0 .. n - 1 /\ j \in 1 .. Len(t[c]) /\ t[c][j] \in Item /\ t[c][j].key = k
    BY AtFacts
  <2> HIDE DEF c, x
  <2>. QED  BY <2>1, <2>2 DEF IsTable
<1>2. [t EXCEPT ![c][j] = x] = [t EXCEPT ![c] = s]
  BY <1>1
<1> HIDE DEF c, x
<1>3. /\ s \in Seq(Item) /\ Len(s) = Len(t[c])
      /\ \A i \in 1 .. Len(t[c]) : s[i] = IF i = j THEN x ELSE t[c][i]
  BY <1>1, ExceptSeq
<1> HIDE DEF s
<1>4. ASSUME NEW i \in 1 .. Len(t[c]) PROVE t[c][i] \in Item /\ Key[s[i]] = Key[t[c][i]]
  <2>1. t[c][i] \in Item
    BY <1>1
  <2>2. CASE i = j
    <3>1. s[i] = x /\ Key[x] = k /\ Key[t[c][j]] = k
      BY <1>1, <1>3, <2>2, KeyType
    <3>. QED  BY <2>1, <2>2, <3>1
  <2>3. CASE i # j
    BY <1>3, <2>1, <2>3
  <2>. QED  BY <2>2, <2>3
<1>5. Once(Key, s)
  BY <1>1, <1>3, <1>4 DEF Once
<1>6. ASSUME NEW e PROVE Visits(s, e) <=> (Visits(t[c], e) /\ e.key # k) \/ e = x
  <2>1. ASSUME Visits(s, e) PROVE (Visits(t[c], e) /\ e.key # k) \/ e = x
    <3>1. PICK i \in 1 .. Len(t[c]) : s[i] = e
      BY <1>3, <2>1 DEF Visits
    <3>2. CASE i = j
      BY <1>3, <3>1, <3>2
    <3>3. CASE i # j
      <4>1. t[c][i] = e /\ Visits(t[c], e)
        BY <1>3, <3>1, <3>3 DEF Visits
      <4>2. Key[t[c][i]] # Key[t[c][j]]
        BY <1>1, <3>3 DEF Once
      <4>. QED  BY <1>1, <1>4, <4>1, <4>2, KeyType
    <3>. QED  BY <3>2, <3>3
  <2>2. ASSUME Visits(t[c], e), e.key # k PROVE Visits(s, e)
    <3>1. PICK i \in 1 .. Len(t[c]) : t[c][i] = e
      BY <2>2 DEF Visits
    <3>2. i # j
      BY <1>1, <2>2, <3>1
    <3>. QED  BY <1>3, <3>1, <3>2 DEF Visits
  <2>3. Visits(s, x)
    BY <1>1, <1>3 DEF Visits
  <2>. QED  BY <2>1, <2>2, <2>3
<1>7. \A e : Visits(s, e) => Key[e] % n = c
  BY <1>1, <1>6, KeyType
<1>8. /\ IsTable(Item, Key, n, [t EXCEPT ![c] = s])
      /\ \A e : Stored([t EXCEPT ![c] = s], e) <=> Visits(s, e) \/ (Stored(t, e) /\ Key[e] % n # c)
  <2>1. MayBeChain(Key, n, c, s)
    BY <1>5, <1>7 DEF MayBeChain
  <2>2. c \in 0 .. n - 1 /\ s \in Seq(Item) /\ Key \in [Item -> Nat]
    BY <1>1, <1>3, KeyType
  <2>. QED  BY <2>1, <2>2, ChainChanged
<1>9. ASSUME NEW e
      PROVE  Visits(s, e) \/ (Stored(t, e) /\ Key[e] % n # c)
               <=> (Stored(t, e) /\ e.key # k) \/ e = x
  <2>1. Stored(t, e) => e \in Item /\ Key[e] = e.key /\ Visits(t[Key[e] % n], e)
    BY TableFacts, KeyType
  <2>2. Visits(t[c], e) => Stored(t, e)
    BY <1>1 DEF Stored
  <2>. QED  BY <1>1, <1>6, <2>1, <2>2
<1>. QED  BY <1>2, <1>8, <1>9 DEF c, x

\* An entry is removed.
LEMMA RemovedEntry ==
    ASSUME NEW n \in Nat \ {0}, NEW t, IsTable(Item, Key, n, t), NEW k \in Keys,
           NEW j \in At(t[Index(k, n)], k)
    PROVE  /\ IsTable(Item, Key, n, [t EXCEPT ![Index(k, n)] = RemoveAt(@, j)])
           /\ \A e : Stored([t EXCEPT ![Index(k, n)] = RemoveAt(@, j)], e)
                       <=> Stored(t, e) /\ e.key # k
<1> DEFINE c == Index(k, n)
           u == [t EXCEPT ![c] = RemoveAt(@, j)]
<1>1. /\ c \in 0 .. n - 1 /\ j \in 1 .. Len(t[c]) /\ t[c][j] \in Item /\ t[c][j].key = k
  BY AtFacts
<1>2. Key[t[c][j]] = k
  BY <1>1, KeyType
<1>3. \A e : Stored(t, e) => e \in Item /\ Key[e] = e.key
  BY TableFacts, KeyType
<1> HIDE DEF c
<1>4. IsTable(Item, Key, n, u) /\ \A e : Stored(u, e) <=> Stored(t, e) /\ Key[e] # Key[t[c][j]]
  <2>1. Key \in [Item -> Nat] /\ c \in 0 .. n - 1 /\ j \in 1 .. Len(t[c])
    BY <1>1, KeyType
  <2>. QED  BY <2>1, RemovedItem
<1> HIDE DEF u
<1>5. \A e : Stored(u, e) <=> Stored(t, e) /\ e.key # k
  BY <1>2, <1>3, <1>4
<1>. QED  BY <1>4, <1>5 DEF u, c

-----------------------------------------------------------------------------
(* The calls: they keep TableOK, and are those of a dictionary.            *)

LEMMA DictFacts ==
    ASSUME TableOK
    PROVE  /\ KeySet \subseteq Keys /\ Dict \in [KeySet -> Values]
           /\ \A k, v : Stored(table, Entry(k, v)) <=> k \in KeySet /\ Dict[k] = v
           /\ \A e : Stored(table, e) => e \in Item /\ e = Entry(e.key, e.value) /\ e.key \in KeySet
<1>1. table_size \in Nat \ {0} /\ IsTable(Item, Key, table_size, table)
  BY DEF TableOK
<1>2. \A k, v : Stored(table, Entry(k, v)) <=> k \in KeySet /\ Dict[k] = v
  <2>1. \A k, v : Stored(table, Entry(k, v)) <=> k \in DOMAIN DictOf(table) /\ DictOf(table)[k] = v
    BY <1>1, DictPairs
  <2>. QED  BY <2>1, DictDefs
<1>3. \A e : Stored(table, e) => e \in Item /\ e = Entry(e.key, e.value)
  <2>1. \A e : Stored(table, e) => e \in Item
    BY <1>1, TableFacts, KeyType
  <2>2. \A e \in Item : e = Entry(e.key, e.value)
    BY DEF Item, Entry
  <2>. QED  BY <2>1, <2>2
<1>4. \A e : Stored(table, e) => e.key \in KeySet
  <2> SUFFICES ASSUME NEW e, Stored(table, e) PROVE e.key \in KeySet
    OBVIOUS
  <2>1. Stored(table, Entry(e.key, e.value))
    BY <1>3
  <2>. QED  BY <2>1, <1>2
<1>5. \A k \in KeySet : k \in Keys /\ Dict[k] \in Values
  <2> SUFFICES ASSUME NEW k \in KeySet PROVE k \in Keys /\ Dict[k] \in Values
    OBVIOUS
  <2>1. Stored(table, Entry(k, Dict[k]))
    BY <1>2
  <2>2. Entry(k, Dict[k]) \in Item
    BY <2>1, <1>3
  <2>. QED  BY <2>2 DEF Entry, Item
<1>6. Dict = [k \in KeySet |-> Dict[k]]
  BY DEF Dict
<1>. QED  BY <1>2, <1>3, <1>4, <1>5, <1>6

\* The pairs stored in t are those of the function d on D.
Stores(t, D, d) ==
    /\ D \subseteq Keys /\ d \in [D -> Values]
    /\ \A k \in Keys, v \in Values : Stored(t, Entry(k, v)) <=> k \in D /\ d[k] = v

\* The table that a step leaves stores the map d, and counts it.
LEMMA TableStep ==
    ASSUME NEW n \in Nat \ {0}, IsTable(Item, Key, n, table'), prime_index' \in Nat,
           NEW D, IsFiniteSet(D), entries' = Cardinality(D), NEW d, Stores(table', D, d)
    PROVE  TableOK' /\ Dict' = d /\ KeySet' = D
<1>1. DictOf(table') = d
  BY DictEqual DEF Stores
<1>2. Dict' = d /\ KeySet' = D
  <2>1. DOMAIN d = D
    BY DEF Stores
  <2>. QED  BY <1>1, <2>1, DictDefs
<1>3. table_size' = n
  BY TableFacts, KeyType DEF table_size
<1>. QED  BY <1>2, <1>3 DEF TableOK

\* Growth alone is invisible.
LEMMA SameDict ==
    ASSUME TableOK, NEW n \in Nat \ {0}, IsTable(Item, Key, n, table'),
           \A e : Stored(table', e) <=> Stored(table, e), entries' = entries, prime_index' \in Nat
    PROVE  TableOK' /\ Dict' = Dict /\ KeySet' = KeySet
<1>1. /\ KeySet \subseteq Keys /\ Dict \in [KeySet -> Values]
      /\ \A k, v : Stored(table', Entry(k, v)) <=> k \in KeySet /\ Dict[k] = v
  BY DictFacts
<1>2. IsFiniteSet(KeySet) /\ entries' = Cardinality(KeySet)
  BY DEF TableOK
<1>3. Stores(table', KeySet, Dict)
  BY <1>1 DEF Stores
<1>. QED  BY <1>2, <1>3, TableStep

LEMMA TableUnchanged ==
    ASSUME TableOK, table' = table, entries' = entries, prime_index' = prime_index
    PROVE  TableOK' /\ Dict' = Dict /\ KeySet' = KeySet
BY DEF TableOK, Dict, KeySet, EntrySet, table_size

LEMMA EmptyMaps == None = Map!Empty /\ \A K : Map!Freed(K) = [k \in K \cap DOMAIN Dict |-> Dict[k]]
BY DEF None, Map!Empty, Map!Freed, Map!Restrict

LEMMA InsertMaps ==
    ASSUME TableOK, NEW k \in Keys, NEW v \in Values, hash_table_insert(k, v)
    PROVE  TableOK' /\ Map!Insert(k, v)
<1> DEFINE t == Grown
           c == Index(k, Cardinality(DOMAIN t))
           D == KeySet \cup {k}
           d == [j \in D |-> IF j = k THEN v ELSE Dict[j]]
<1>1. PICK n \in Nat \ {0} : /\ IsTable(Item, Key, n, t) /\ Cardinality(DOMAIN t) = n
                             /\ \A e : Stored(t, e) <=> Stored(table, e)
  BY GrownIsTable
<1>2. /\ KeySet \subseteq Keys /\ Dict \in [KeySet -> Values] /\ DOMAIN Dict = KeySet
      /\ \A i, w : Stored(t, Entry(i, w)) <=> i \in KeySet /\ Dict[i] = w
      /\ \A e : Stored(t, e) => e \in Item /\ e = Entry(e.key, e.value) /\ e.key \in KeySet
  BY <1>1, DictFacts
<1>3. prime_index' \in Nat /\ ret' = 1 /\ IsFiniteSet(KeySet) /\ entries = Cardinality(KeySet)
  BY DEF TableOK, hash_table_insert
<1>4. \/ /\ \E j \in At(t[c], k) : /\ table' = [t EXCEPT ![c][j] = Entry(k, v)]
                                   /\ freed' = [x \in {k} |-> t[c][j].value]
         /\ entries' = entries
      \/ /\ At(t[c], k) = {} /\ table' = [t EXCEPT ![c] = <<Entry(k, v)>> \o @]
         /\ entries' = entries + 1 /\ freed' = None
  BY DEF hash_table_insert
<1> HIDE DEF t
<1>5. c = Index(k, n)
  BY <1>1
<1> HIDE DEF c
<1>6. d \in [D -> Values] /\ D \subseteq Keys /\ d[k] = v /\ \A j \in D : j # k => d[j] = Dict[j]
  BY <1>2
<1>7. \A i, w : Entry(i, w).key = i /\ (Entry(i, w) = Entry(k, v) <=> i = k /\ w = v)
  BY DEF Entry
<1> HIDE DEF d
<1>8. ASSUME \A e : Stored(table', e) <=> (Stored(t, e) /\ e.key # k) \/ e = Entry(k, v)
      PROVE  Stores(table', D, d)
  <2>1. \A i \in Keys, w \in Values : Stored(table', Entry(i, w)) <=> i \in D /\ d[i] = w
    BY <1>2, <1>6, <1>7, <1>8
  <2>. QED  BY <1>6, <2>1 DEF Stores
<1>9. CASE \E j \in At(t[c], k) : /\ table' = [t EXCEPT ![c][j] = Entry(k, v)]
                                  /\ freed' = [x \in {k} |-> t[c][j].value]
                                  /\ entries' = entries
  <2>1. PICK j \in At(t[c], k) : /\ table' = [t EXCEPT ![c][j] = Entry(k, v)]
                                 /\ freed' = [x \in {k} |-> t[c][j].value]
                                 /\ entries' = entries
    BY <1>9
  <2>2. /\ IsTable(Item, Key, n, table')
        /\ \A e : Stored(table', e) <=> (Stored(t, e) /\ e.key # k) \/ e = Entry(k, v)
    BY <1>1, <1>5, <2>1, Replaced
  <2>3. Stored(t, t[c][j]) /\ t[c][j].key = k
    BY <1>1, <1>5, AtFacts
  <2>4. k \in KeySet /\ Dict[k] = t[c][j].value
    BY <1>2, <2>3
  <2>5. D = KeySet
    BY <2>4
  <2>6. TableOK' /\ Dict' = d
    <3>1. Stores(table', D, d)
      BY <1>8, <2>2
    <3>2. IsFiniteSet(D) /\ entries' = Cardinality(D)
      BY <1>3, <2>1, <2>5
    <3> HIDE DEF D
    <3>. QED  BY <1>3, <2>2, <3>1, <3>2, TableStep
  <2>7. freed' = Map!Freed({k})
    <3>1. {k} \cap DOMAIN Dict = {k}
      BY <1>2, <2>4
    <3>2. Map!Freed({k}) = [x \in {k} |-> Dict[x]]
      BY <3>1, EmptyMaps
    <3>. QED  BY <2>1, <2>4, <3>2
  <2>. QED  BY <1>2, <1>3, <2>6, <2>7 DEF Map!Insert, d
<1>10. CASE /\ At(t[c], k) = {} /\ table' = [t EXCEPT ![c] = <<Entry(k, v)>> \o @]
            /\ entries' = entries + 1 /\ freed' = None
  <2>1. \A e : Stored(t, e) => e.key # k
    BY <1>1, <1>5, <1>10, AtFacts
  <2>2. Entry(k, v) \in Item /\ Entry(k, v).key = k /\ Key[Entry(k, v)] = k
    BY KeyType DEF Entry, Item
  <2>3. Fresh(Key, t, Entry(k, v))
    BY <1>2, <2>1, <2>2, KeyType DEF Fresh
  <2>4. table' = Pushed(Key, n, t, Entry(k, v))
    BY <1>5, <1>10, <2>2 DEF Pushed, Index
  <2>5. IsTable(Item, Key, n, table') /\ \A e : Stored(table', e) <=> Stored(t, e) \/ e = Entry(k, v)
    BY <1>1, <2>2, <2>3, <2>4, KeyType, PushFront
  <2>6. \A e : Stored(table', e) <=> (Stored(t, e) /\ e.key # k) \/ e = Entry(k, v)
    BY <2>1, <2>5
  <2>7. k \notin KeySet
    <3>1. k \in KeySet => Stored(t, Entry(k, Dict[k]))
      BY <1>2
    <3>2. Entry(k, Dict[k]).key = k
      BY <1>7
    <3>. QED  BY <2>1, <3>1, <3>2
  <2>8. IsFiniteSet(D) /\ entries' = Cardinality(D)
    BY <1>3, <1>10, <2>7, FS_AddElement
  <2>9. TableOK' /\ Dict' = d
    <3>1. Stores(table', D, d)
      BY <1>8, <2>6
    <3> HIDE DEF D
    <3>. QED  BY <1>3, <2>5, <2>8, <3>1, TableStep
  <2>10. freed' = Map!Freed({k})
    <3>1. {k} \cap DOMAIN Dict = {}
      BY <1>2, <2>7
    <3>2. Map!Freed({k}) = None
      BY <3>1, EmptyMaps DEF None
    <3>. QED  BY <1>10, <3>2
  <2>. QED  BY <1>2, <1>3, <2>9, <2>10 DEF Map!Insert, d
<1>. QED  BY <1>4, <1>9, <1>10

LEMMA SameCount == \A K : Map!Cardinality(K) = Cardinality(K)
BY DEF Map!Cardinality, Cardinality, Map!IsFiniteSet, IsFiniteSet

LEMMA FailMaps ==
    ASSUME TableOK, NEW k \in Keys, hash_table_insert_fails(k)
    PROVE  TableOK' /\ Map!InsertFails
<1>1. ret' = 0 /\ freed' = Map!Empty /\ entries' = entries
  BY EmptyMaps DEF hash_table_insert_fails, Returns
<1>2. TableOK' /\ Dict' = Dict
  <2>1. CASE UNCHANGED <<table, prime_index>>
    BY <1>1, <2>1, TableUnchanged
  <2>2. CASE table' = Grown /\ prime_index' = IF TooFull THEN prime_index + 1 ELSE prime_index
    <3>1. prime_index' \in Nat
      BY <2>2 DEF TableOK
    <3>2. PICK n \in Nat \ {0} : /\ IsTable(Item, Key, n, table')
                                 /\ \A e : Stored(table', e) <=> Stored(table, e)
      BY <2>2, GrownIsTable
    <3>. QED  BY <1>1, <3>1, <3>2, SameDict
  <2>. QED  BY <2>1, <2>2 DEF hash_table_insert_fails
<1>. QED  BY <1>1, <1>2 DEF Map!InsertFails

LEMMA LookupMaps ==
    ASSUME TableOK, NEW k \in Keys, hash_table_lookup(k)
    PROVE  TableOK' /\ Map!Lookup(k)
<1> DEFINE n == table_size
           chain == table[Index(k, n)]
           at == At(chain, k)
<1>1. TableOK' /\ Dict' = Dict
  BY TableUnchanged DEF hash_table_lookup
<1>2. freed' = Map!Empty /\ ret' = IF at = {} THEN Null ELSE chain[CHOOSE i \in at : TRUE].value
  BY EmptyMaps DEF hash_table_lookup, Returns
<1>3. n \in Nat \ {0} /\ IsTable(Item, Key, n, table)
  BY DEF TableOK
<1> HIDE DEF n
<1>4. /\ at = {} => \A e : Stored(table, e) => e.key # k
      /\ \A j \in at : chain[j] \in Item /\ chain[j].key = k /\ Stored(table, chain[j])
  BY <1>3, AtFacts
<1>5. /\ DOMAIN Dict = KeySet
      /\ \A i, w : Stored(table, Entry(i, w)) <=> i \in KeySet /\ Dict[i] = w
      /\ \A e : Stored(table, e) => e = Entry(e.key, e.value)
  BY DictFacts
<1> HIDE DEF at, chain
<1>6. CASE at = {}
  <2>1. Entry(k, Dict[k]).key = k
    BY DEF Entry
  <2>2. k \notin KeySet
    BY <1>4, <1>5, <1>6, <2>1
  <2>. QED  BY <1>1, <1>2, <1>5, <1>6, <2>2 DEF Map!Lookup
<1>7. CASE at # {}
  <2> DEFINE j == CHOOSE i \in at : TRUE
  <2>1. j \in at
    BY <1>7
  <2>2. ret' = chain[j].value
    BY <1>2, <1>7
  <2> HIDE DEF j
  <2>3. Stored(table, Entry(k, chain[j].value))
    BY <1>4, <1>5, <2>1
  <2>4. k \in KeySet /\ Dict[k] = chain[j].value
    BY <1>5, <2>3
  <2>. QED  BY <1>1, <1>2, <1>5, <2>2, <2>4 DEF Map!Lookup
<1>. QED  BY <1>6, <1>7

LEMMA RemoveMaps ==
    ASSUME TableOK, NEW k \in Keys, hash_table_remove(k)
    PROVE  TableOK' /\ Map!Remove(k)
<1> DEFINE n == table_size
           c == Index(k, n)
           at == At(table[c], k)
           D == KeySet \ {k}
           d == [j \in D |-> Dict[j]]
<1>1. /\ at = {} => Returns(0) /\ table' = table /\ entries' = entries
      /\ at # {} => \E j \in at : /\ table' = [table EXCEPT ![c] = RemoveAt(@, j)]
                                  /\ entries' = entries - 1
                                  /\ ret' = 1 /\ freed' = [x \in {k} |-> table[c][j].value]
      /\ prime_index' = prime_index
  BY DEF hash_table_remove
<1>2. /\ n \in Nat \ {0} /\ IsTable(Item, Key, n, table)
      /\ IsFiniteSet(KeySet) /\ entries = Cardinality(KeySet) /\ prime_index \in Nat
  BY DEF TableOK
<1> HIDE DEF n
<1>3. /\ at = {} => \A e : Stored(table, e) => e.key # k
      /\ \A j \in at : /\ table[c][j] \in Item /\ table[c][j].key = k
                       /\ Stored(table, table[c][j])
  BY <1>2, AtFacts
<1>4. /\ KeySet \subseteq Keys /\ Dict \in [KeySet -> Values] /\ DOMAIN Dict = KeySet
      /\ \A i, w : Stored(table, Entry(i, w)) <=> i \in KeySet /\ Dict[i] = w
      /\ \A e : Stored(table, e) => e \in Item /\ e = Entry(e.key, e.value) /\ e.key \in KeySet
  BY DictFacts
<1>5. \A i, w : Entry(i, w).key = i
  BY DEF Entry
<1>6. Map!Restrict(Dict, DOMAIN Dict \ {k}) = d
  BY <1>4 DEF Map!Restrict
<1>7. CASE at = {}
  <2>1. k \notin KeySet
    BY <1>3, <1>4, <1>5, <1>7
  <2>2. TableOK' /\ Dict' = Dict
    BY <1>1, <1>7, TableUnchanged
  <2>3. Dict = d
    BY <1>4, <2>1
  <2>4. {k} \cap DOMAIN Dict = {}
    BY <1>4, <2>1
  <2>5. Map!Freed({k}) = None
    BY <2>4, EmptyMaps DEF None
  <2>6. ret' = 0 /\ freed' = None
    BY <1>1, <1>7 DEF Returns
  <2>. QED  BY <1>4, <1>6, <2>1, <2>2, <2>3, <2>5, <2>6 DEF Map!Remove
<1>8. CASE at # {}
  <2>1. PICK j \in at : /\ table' = [table EXCEPT ![c] = RemoveAt(@, j)]
                        /\ entries' = entries - 1
                        /\ ret' = 1 /\ freed' = [x \in {k} |-> table[c][j].value]
    BY <1>1, <1>8
  <2>2. /\ IsTable(Item, Key, n, table')
        /\ \A e : Stored(table', e) <=> Stored(table, e) /\ e.key # k
    BY <1>2, <2>1, RemovedEntry
  <2>3. k \in KeySet /\ Dict[k] = table[c][j].value
    BY <1>3, <1>4
  <2>4. Stores(table', D, d)
    <3>1. d \in [D -> Values] /\ D \subseteq Keys /\ \A i \in D : d[i] = Dict[i]
      BY <1>4
    <3>2. \A i \in Keys, w \in Values : Stored(table', Entry(i, w)) <=> i \in D /\ d[i] = w
      BY <1>4, <1>5, <2>2, <3>1
    <3>. QED  BY <3>1, <3>2 DEF Stores
  <2>5. IsFiniteSet(D) /\ entries' = Cardinality(D)
    BY <1>2, <2>1, <2>3, FS_RemoveElement
  <2>6. TableOK' /\ Dict' = d
    <3>1. prime_index' \in Nat
      BY <1>1, <1>2
    <3> HIDE DEF D, d
    <3>. QED  BY <1>2, <2>2, <2>4, <2>5, <3>1, TableStep
  <2>7. freed' = Map!Freed({k})
    <3>1. {k} \cap DOMAIN Dict = {k}
      BY <1>4, <2>3
    <3>2. Map!Freed({k}) = [x \in {k} |-> Dict[x]]
      BY <3>1, EmptyMaps
    <3>. QED  BY <2>1, <2>3, <3>2
  <2>. QED  BY <1>4, <1>6, <2>1, <2>3, <2>6, <2>7 DEF Map!Remove
<1>. QED  BY <1>7, <1>8

LEMMA CountMaps ==
    ASSUME TableOK, hash_table_num_entries
    PROVE  TableOK' /\ Map!Count
<1>1. TableOK' /\ Dict' = Dict /\ ret' = entries /\ freed' = Map!Empty
  BY TableUnchanged, EmptyMaps DEF hash_table_num_entries, Returns
<1>2. DOMAIN Dict = KeySet /\ entries = Cardinality(KeySet)
  BY DictFacts DEF TableOK
<1>. QED  BY <1>1, <1>2, SameCount DEF Map!Count

\* A table without entries.
EmptyAgain == table = EmptyTable(hash_table_primes[1]) /\ entries = 0 /\ prime_index = 0

LEMMA EmptyNow == EmptyAgain => TableOK /\ Dict = Map!Empty
<1> SUFFICES ASSUME EmptyAgain PROVE TableOK /\ Dict = Map!Empty
  OBVIOUS
<1> DEFINE n == hash_table_primes[1]
<1>1. n \in Nat \ {0}
  BY HashTableAssumption
<1>2. table = EmptyTable(n) /\ entries = 0 /\ prime_index = 0
  BY DEF EmptyAgain
<1> HIDE DEF n
<1>3. IsTable(Item, Key, n, table) /\ \A e : ~Stored(table, e)
  BY <1>1, <1>2, EmptyIsTable
<1>4. table_size = n
  BY <1>1, <1>3, TableFacts, KeyType DEF table_size
<1>5. Elems(table) = {}
  BY <1>1, <1>3, ElemsStored
<1>6. KeySet = {}
  BY <1>5, DictDefs
<1>7. Dict = Map!Empty
  <2>1. Dict = [k \in KeySet |-> Dict[k]]
    BY DEF Dict
  <2>. QED  BY <1>6, <2>1 DEF Map!Empty
<1>. QED  BY <1>1, <1>2, <1>3, <1>4, <1>6, <1>7, FS_EmptySet DEF TableOK

LEMMA FreeMaps ==
    ASSUME TableOK, hash_table_free
    PROVE  TableOK' /\ Map!Clear
<1>1. EmptyAgain'
  BY DEF EmptyAgain, hash_table_free
<1>2. EmptyAgain' => TableOK' /\ Dict' = Map!Empty
  <2>1. EmptyAgain => TableOK /\ Dict = Map!Empty
    BY EmptyNow
  <2>2. (EmptyAgain => TableOK /\ Dict = Map!Empty)'
    BY EmptyNow, PTL
  <2>. QED  BY <2>2 DEF Map!Empty
<1>3. ret' = Null /\ freed' = Dict
  BY DEF hash_table_free, Dict
<1>4. Map!Freed(DOMAIN Dict) = Dict
  <2>1. DOMAIN Dict \cap DOMAIN Dict = DOMAIN Dict
    OBVIOUS
  <2>2. Dict = [k \in DOMAIN Dict |-> Dict[k]]
    BY DEF Dict
  <2>. QED  BY <2>1, <2>2, EmptyMaps
<1>. QED  BY <1>1, <1>2, <1>3, <1>4 DEF Map!Clear

-----------------------------------------------------------------------------
(* The iterator of the hash table.                                         *)

IterOK == iter # Null => Points(Key, iter, table, todo)

LEMMA FirstFromFirst ==
    ASSUME TableOK, NEW c \in Nat
    PROVE  IsFirst(Key, table_size, table, c, FirstFrom(c))
<1> DEFINE n == table_size
           later == {i \in c .. n - 1 : table[i] # <<>>}
           i == CHOOSE i \in later : \A j \in later : i <= j
<1>1. n \in Nat \ {0} /\ IsTable(Item, Key, n, table)
  BY DEF TableOK
<1>2. FirstFrom(c) = IF later = {} THEN [next_entry |-> Null, next_chain |-> n]
                     ELSE [next_entry |-> table[i][1].key, next_chain |-> i]
  BY DEF FirstFrom
<1> HIDE DEF n
<1>3. CASE later = {}
  BY <1>2, <1>3 DEF IsFirst, n
<1>4. ASSUME NEW x \in later, \A j \in later : x <= j
      PROVE  FirstFrom(c) = [next_entry |-> Key[table[i][1]], next_chain |-> i]
  <2>1. i \in later /\ later # {}
    BY <1>4
  <2>2. FirstFrom(c) = [next_entry |-> table[i][1].key, next_chain |-> i]
    BY <1>2, <2>1
  <2> HIDE DEF i
  <2>3. table[i] \in Seq(Item) /\ table[i] # <<>>
    BY <1>1, <2>1 DEF IsTable
  <2>4. table[i][1] \in Item
    BY <2>3
  <2>. QED  BY <2>2, <2>4, KeyType
<1>5. CASE later # {}
  <2>1. later \subseteq Nat
    BY <1>1
  <2> HIDE DEF later, i
  <2>2. \E x \in later : \A j \in later : x <= j
    BY <1>5, <2>1, Least
  <2>3. FirstFrom(c) = [next_entry |-> Key[table[i][1]], next_chain |-> i]
    BY <1>4, <2>2
  <2>. QED  BY <1>5, <2>3 DEF IsFirst, later, i, n
<1>. QED  BY <1>3, <1>5

LEMMA IterateMaps ==
    ASSUME TableOK, hash_table_iterate
    PROVE  TableOK' /\ IterOK' /\ Map!Iterate
<1>1. /\ table' = table /\ iter' = FirstFrom(0) /\ todo' = KeySet
      /\ ret' = Null /\ freed' = Map!Empty
  BY EmptyMaps DEF hash_table_iterate, Returns
<1>2. TableOK' /\ Dict' = Dict
  BY TableUnchanged DEF hash_table_iterate
<1>3. table_size \in Nat \ {0} /\ IsTable(Item, Key, table_size, table)
  BY DEF TableOK
<1>4. ASSUME NEW k PROVE k \in KeySet <=> Ahead(Key, table, 0, 1, k)
  <2>1. Ahead(Key, table, 0, 1, k) <=> \E e : Stored(table, e) /\ Key[e] = k
    BY <1>3, KeyType, AllAhead
  <2>2. k \in KeySet => Stored(table, Entry(k, Dict[k])) /\ Entry(k, Dict[k]).key = k
    BY DictFacts DEF Entry
  <2>3. \A e : Stored(table, e) => e.key \in KeySet /\ Key[e] = e.key
    BY DictFacts, KeyType
  <2>. QED  BY <2>1, <2>2, <2>3
<1>5. IsFirst(Key, table_size, table, 0, FirstFrom(0))
  BY FirstFromFirst
<1>6. Points(Key, FirstFrom(0), table, KeySet)
  <2>1. 0 <= table_size /\ Key \in [Item -> Nat]
    BY <1>3, KeyType
  <2>. QED  BY <1>3, <1>4, <1>5, <2>1, FirstPoints
<1>. QED  BY <1>1, <1>2, <1>6 DEF IterOK, Map!Iterate

LEMMA IterNextMaps ==
    ASSUME TableOK, IterOK, hash_table_iter_next
    PROVE  TableOK' /\ IterOK' /\ Map!Iterate
<1> DEFINE n == table_size
<1>1. /\ iter # Null /\ Points(Key, iter, table, todo) /\ table' = table
      /\ iter.next_entry = Null => Returns(Null) /\ iter' = iter /\ todo' = todo
  BY DEF hash_table_iter_next, IterOK
<1>2. TableOK' /\ Dict' = Dict
  BY TableUnchanged DEF hash_table_iter_next
<1>3. /\ n \in Nat \ {0} /\ IsTable(Item, Key, n, table) /\ Key \in [Item -> Nat]
      /\ DOMAIN table = 0 .. n - 1
  BY KeyType DEF TableOK, IsTable
<1>4. CASE iter.next_entry = Null
  BY <1>1, <1>2, <1>4, EmptyMaps DEF IterOK, Map!Iterate, Returns
<1>5. CASE iter.next_entry # Null
  <2>1. PICK c \in DOMAIN table : \E p \in 1 .. Len(table[c]) :
            /\ iter = [next_entry |-> Key[table[c][p]], next_chain |-> c]
            /\ \A k : k \in todo <=> Ahead(Key, table, c, p, k)
    BY <1>1, <1>5 DEF Points
  <2>2. PICK p \in 1 .. Len(table[c]) :
            /\ iter = [next_entry |-> Key[table[c][p]], next_chain |-> c]
            /\ \A k : k \in todo <=> Ahead(Key, table, c, p, k)
    BY <2>1
  <2> DEFINE chain == table[c]
             i == CHOOSE i \in DOMAIN chain : chain[i].key = iter.next_entry
  <2>3. c \in 0 .. n - 1
    BY <1>3
  <2>4. /\ chain \in Seq(Item) /\ chain[p] \in Item /\ Stored(table, chain[p])
        /\ \A j \in 1 .. Len(chain) : j # p => Key[chain[j]] # Key[chain[p]]
    BY <1>3, <2>3, Elsewhere
  <2>5. \A j \in 1 .. Len(chain) : chain[j] \in Item /\ Key[chain[j]] = chain[j].key
    BY <2>4, KeyType
  <2>6. iter.next_chain = c /\ iter.next_entry = chain[p].key
    BY <2>2, <2>5
  <2>7. /\ Returns(chain[i].value) /\ todo' = todo \ {iter.next_entry}
        /\ iter' = IF i < Len(chain)
                   THEN [iter EXCEPT !.next_entry = chain[i + 1].key]
                   ELSE FirstFrom(NextChain(iter.next_chain))
    BY <1>5, <2>6 DEF hash_table_iter_next
  <2>8. i = p
    <3>1. DOMAIN chain = 1 .. Len(chain)
      BY <2>4
    <3>2. \E j \in DOMAIN chain : chain[j].key = iter.next_entry
      BY <2>6, <3>1
    <3>3. i \in DOMAIN chain /\ chain[i].key = iter.next_entry
      BY <3>2
    <3>4. p \in 1 .. Len(chain)
      OBVIOUS
    <3> HIDE DEF i, chain
    <3>5. Key[chain[i]] = Key[chain[p]]
      BY <2>5, <2>6, <3>1, <3>3, <3>4
    <3>. QED  BY <2>4, <3>1, <3>3, <3>4, <3>5
  <2> HIDE DEF i
  <2>9. Map!Iterate
    <3>1. chain[p] = Entry(chain[p].key, chain[p].value) /\ chain[p].key \in KeySet
      BY <2>4, DictFacts
    <3>2. Dict[chain[p].key] = chain[p].value /\ DOMAIN Dict = KeySet
      BY <2>4, <3>1, DictFacts
    <3>3. ret' = chain[p].value /\ freed' = Map!Empty
      BY <2>7, <2>8, EmptyMaps DEF Returns
    <3> HIDE DEF chain
    <3>. QED  BY <1>2, <3>1, <3>2, <3>3 DEF Map!Iterate
  <2>10. IsNext(Key, n, table, c, p, iter')
    <3>1. CASE p < Len(chain)
      <4>1. p + 1 \in 1 .. Len(chain)
        BY <2>4, <3>1
      <4>2. iter' = [next_entry |-> Key[chain[p + 1]], next_chain |-> c]
        BY <2>2, <2>5, <2>7, <2>8, <3>1, <4>1
      <4>. QED  BY <3>1, <4>2 DEF IsNext
    <3>2. CASE ~(p < Len(chain))
      <4>1. iter' = FirstFrom(c + 1) /\ c + 1 \in Nat
        BY <2>3, <2>6, <2>7, <2>8, <3>2 DEF NextChain
      <4>2. IsFirst(Key, n, table, c + 1, iter')
        BY <4>1, FirstFromFirst
      <4>. QED  BY <3>2, <4>2 DEF IsNext
    <3>. QED  BY <3>1, <3>2
  <2>11. todo' = todo \ {Key[table[c][p]]}
    BY <2>2, <2>7
  <2>12. Points(Key, iter', table, todo \ {Key[table[c][p]]})
    <3> HIDE DEF n
    <3>. QED  BY <1>3, <2>2, <2>3, <2>10, NextPoints
  <2>. QED  BY <1>1, <1>2, <2>9, <2>11, <2>12 DEF IterOK
<1>. QED  BY <1>4, <1>5

\* hash_table_remove of a key that the iterator does not point to.
LEMMA RemoveKeepsIter ==
    ASSUME TableOK, IterOK, NEW k \in Keys, hash_table_remove(k)
    PROVE  IterOK'
<1> SUFFICES ASSUME iter # Null PROVE Points(Key, iter, table', todo')
  BY DEF IterOK, hash_table_remove
<1> DEFINE n == table_size
           x == Index(k, n)
           at == At(table[x], k)
<1>1. /\ iter.next_entry # k /\ todo' = todo \ {k}
      /\ at = {} => table' = table
      /\ at # {} => \E j \in at : table' = [table EXCEPT ![x] = RemoveAt(@, j)]
  BY DEF hash_table_remove
<1>2. n \in Nat \ {0} /\ IsTable(Item, Key, n, table) /\ Key \in [Item -> Nat]
  BY KeyType DEF TableOK
<1>3. Points(Key, iter, table, todo)
  BY DEF IterOK
<1> HIDE DEF n
<1>4. /\ x \in 0 .. n - 1
      /\ at = {} => \A e : Stored(table, e) => e.key # k
      /\ \A j \in at : j \in 1 .. Len(table[x]) /\ table[x][j] \in Item /\ table[x][j].key = k
  BY <1>2, AtFacts
<1> HIDE DEF at, x
<1>5. CASE at = {}
  <2>1. k \notin todo
    <3>1. \A e : Stored(table, e) => Key[e] # k
      BY <1>2, <1>4, <1>5, TableFacts, KeyType
    <3>2. ASSUME NEW c \in DOMAIN table, NEW p \in 1 .. Len(table[c]) PROVE ~Ahead(Key, table, c, p, k)
      <4>1. p \in Nat \ {0}
        OBVIOUS
      <4>. QED  BY <1>2, <3>1, <4>1, AheadIsStored
    <3>. QED  BY <1>3, <3>2 DEF Points
  <2>2. todo' = todo
    BY <1>1, <2>1
  <2>. QED  BY <1>1, <1>3, <1>5, <2>2
<1>6. CASE at # {}
  <2>1. PICK j \in at : table' = [table EXCEPT ![x] = RemoveAt(@, j)]
    BY <1>1, <1>6
  <2>2. j \in 1 .. Len(table[x]) /\ Key[table[x][j]] = k
    BY <1>4, KeyType
  <2>3. iter.next_entry # Key[table[x][j]] /\ todo' = todo \ {Key[table[x][j]]}
    BY <1>1, <2>2
  <2>4. x \in 0 .. n - 1 /\ j \in 1 .. Len(table[x])
    BY <1>4, <2>2
  <2>5. Points(Key, iter, [table EXCEPT ![x] = RemoveAt(@, j)], todo \ {Key[table[x][j]]})
    BY <1>2, <1>3, <2>3, <2>4, RemovedPoints
  <2>. QED  BY <2>1, <2>3, <2>5
<1>. QED  BY <1>5, <1>6

-----------------------------------------------------------------------------
HashOK == TableOK /\ IterOK

LEMMA HashInit == Init => HashOK /\ Map!Init
<1> SUFFICES ASSUME Init PROVE HashOK /\ Map!Init
  OBVIOUS
<1>1. EmptyAgain /\ iter = Null /\ ret = Null /\ freed = Map!Empty
  BY EmptyMaps DEF Init, EmptyAgain
<1>. QED  BY <1>1, EmptyNow DEF HashOK, IterOK, Map!Init

LEMMA HashStep == HashOK /\ [Next]_vars => HashOK' /\ [Map!Next]_Map!vars
<1> SUFFICES ASSUME HashOK, [Next]_vars PROVE HashOK' /\ [Map!Next]_Map!vars
  OBVIOUS
<1>1. TableOK /\ IterOK
  BY DEF HashOK
<1>2. ASSUME NEW k \in Keys, NEW v \in Values, hash_table_insert(k, v)
      PROVE  HashOK' /\ Map!Next
  <2>1. IterOK'
    BY <1>2 DEF hash_table_insert, IterOK
  <2>. QED  BY <1>1, <1>2, <2>1, InsertMaps DEF HashOK, Map!Next
<1>3. ASSUME NEW k \in Keys, hash_table_insert_fails(k)
      PROVE  HashOK' /\ Map!Next
  <2>1. IterOK'
    BY <1>3 DEF hash_table_insert_fails, IterOK
  <2>. QED  BY <1>1, <1>3, <2>1, FailMaps DEF HashOK, Map!Next
<1>4. ASSUME NEW k \in Keys, hash_table_lookup(k)
      PROVE  HashOK' /\ Map!Next
  <2>1. IterOK'
    BY <1>1, <1>4 DEF hash_table_lookup, IterOK
  <2>. QED  BY <1>1, <1>4, <2>1, LookupMaps DEF HashOK, Map!Next
<1>5. ASSUME NEW k \in Keys, hash_table_remove(k)
      PROVE  HashOK' /\ Map!Next
  BY <1>1, <1>5, RemoveMaps, RemoveKeepsIter DEF HashOK, Map!Next
<1>6. ASSUME hash_table_num_entries PROVE HashOK' /\ Map!Next
  <2>1. IterOK'
    BY <1>1, <1>6 DEF hash_table_num_entries, IterOK
  <2>. QED  BY <1>1, <1>6, <2>1, CountMaps DEF HashOK, Map!Next
<1>7. ASSUME hash_table_free PROVE HashOK' /\ Map!Next
  <2>1. IterOK'
    BY <1>7 DEF hash_table_free, IterOK
  <2>. QED  BY <1>1, <1>7, <2>1, FreeMaps DEF HashOK, Map!Next
<1>8. ASSUME hash_table_iterate PROVE HashOK' /\ Map!Next
  BY <1>1, <1>8, IterateMaps DEF HashOK, Map!Next
<1>9. ASSUME hash_table_iter_next PROVE HashOK' /\ Map!Next
  BY <1>1, <1>9, IterNextMaps DEF HashOK, Map!Next
<1>10. ASSUME UNCHANGED vars PROVE HashOK' /\ UNCHANGED Map!vars
  <2>1. /\ table' = table /\ entries' = entries /\ prime_index' = prime_index
        /\ ret' = ret /\ freed' = freed /\ iter' = iter /\ todo' = todo
    BY <1>10 DEF vars
  <2>2. TableOK' /\ Dict' = Dict
    BY <1>1, <2>1, TableUnchanged
  <2>3. IterOK'
    BY <1>1, <2>1 DEF IterOK
  <2>. QED  BY <2>1, <2>2, <2>3 DEF HashOK, Map!vars
<1>. QED
  BY <1>2, <1>3, <1>4, <1>5, <1>6, <1>7, <1>8, <1>9, <1>10 DEF Next

LEMMA HashIteration == HashOK => IterationExact
<1> SUFFICES ASSUME HashOK, iter # Null
             PROVE  IF todo = {} THEN iter.next_entry = Null ELSE iter.next_entry \in todo
  BY DEF IterationExact
<1>1. /\ table_size \in Nat \ {0} /\ IsTable(Item, Key, table_size, table)
      /\ Points(Key, iter, table, todo) /\ Key \in [Item -> Nat]
  BY KeyType DEF HashOK, IterOK, TableOK
<1>. QED  BY <1>1, PointsExactly

LEMMA TableNext == [MCNext]_all => [Next]_vars
BY DEF MCNext, vars, all

\* The inductive invariant: every entry is in the chain of its key, keys are
\* stored once and counted, and the iterator is at the first key of todo.
THEOREM AlwaysHashOK == MCSpec => []HashOK
<1>1. MCInit => HashOK
  BY HashInit DEF MCInit
<1>2. HashOK /\ [MCNext]_all => HashOK'
  BY TableNext, HashStep
<1>. QED  BY <1>1, <1>2, PTL DEF MCSpec, all

\* An iteration over the hash table returns every entry once, also when entries
\* that it has returned are removed, in its own chain or in another.
THEOREM TableIterationExact == MCSpec => []IterationExact
BY AlwaysHashOK, HashIteration, PTL

\* The hash table implements the dictionary: collisions, growth to the next
\* prime or past the last one, and insertions that run out of memory before or
\* after it are invisible, and every value is freed by the call that drops it.
THEOREM TableIsDictionary == MCSpec => ImplementsDictionary
<1>1. MCInit => Map!Init
  BY HashInit DEF MCInit
<1>2. HashOK /\ [MCNext]_all => [Map!Next]_Map!vars
  BY TableNext, HashStep
<1>. QED  BY <1>1, <1>2, AlwaysHashOK, PTL DEF MCSpec, all, ImplementsDictionary, Map!Spec

\* The hash table and the trie implement the dictionary, for every set of keys
\* and values and all table sizes.
THEOREM BothAreDictionaries == MCSpec => AreDictionaries
BY TableIsDictionary, TrieIsDictionary DEF AreDictionaries

-----------------------------------------------------------------------------
(* The set: a table of values that are their own keys.                     *)

Id == [v \in Keys |-> v]

LEMMA IdType == Id \in [Keys -> Nat]
BY HashTableAssumption DEF Id

LEMMA IdIs == \A v \in Keys : Id[v] = v
BY DEF Id

\* The set's operators on sequences and finite sets are those of the library.
LEMMA SameOperators ==
    /\ \A D : S!Cardinality(D) = Cardinality(D)
    /\ \A ss : S!FlattenSeq(ss) = FlattenSeq(ss)
    /\ \A s, j : S!RemoveAt(s, j) = RemoveAt(s, j)
    /\ \A n : S!EmptyTable(n) = EmptyTable(n)
<1>1. \A D : S!Cardinality(D) = Cardinality(D)
  BY DEF S!Cardinality, Cardinality
<1>2. \A ss : S!FlattenSeq(ss) = FlattenSeq(ss)
  BY Zenon DEF S!FlattenSeq, FlattenSeq
<1>3. \A s, j : S!RemoveAt(s, j) = RemoveAt(s, j)
  BY DEF S!RemoveAt, RemoveAt
<1>4. \A n : S!EmptyTable(n) = EmptyTable(n)
  BY DEF S!EmptyTable, EmptyTable
<1>. QED  BY <1>1, <1>2, <1>3, <1>4

Tables == UNION {[0 .. n - 1 -> Seq(Keys)] : n \in Nat \ {0}}
SetRec == [table : Tables, prime_index : Nat, entries : Nat, free_func : BOOLEAN]

SetOK(s) ==
    /\ s \in SetRec
    /\ S!Size(s) \in Nat \ {0} /\ IsTable(Keys, Id, S!Size(s), s.table)
    /\ IsFiniteSet(S!Members(s)) /\ s.entries = Cardinality(S!Members(s))

LEMMA OnceCounts ==
    ASSUME NEW s \in Seq(Keys), Once(Id, s)
    PROVE  IsFiniteSet({s[i] : i \in 1 .. Len(s)}) /\ Cardinality({s[i] : i \in 1 .. Len(s)}) = Len(s)
<1> DEFINE D == 1 .. Len(s)
           R == {s[i] : i \in D}
           f == [i \in D |-> s[i]]
<1>1. Len(s) \in Nat /\ \A i \in D : s[i] \in Keys
  OBVIOUS
<1>2. \A i, j \in D : s[i] = s[j] => i = j
  BY <1>1, IdIs DEF Once
<1>3. f \in Bijection(D, R)
  <2>1. f \in [D -> R] /\ \A i \in D : f[i] = s[i]
    OBVIOUS
  <2>2. \A v \in R : \E i \in D : f[i] = v
    OBVIOUS
  <2> HIDE DEF D, R, f
  <2>3. f \in Injection(D, R)
    BY <1>2, <2>1 DEF Injection, IsInjective
  <2>4. f \in Surjection(D, R)
    BY <2>1, <2>2 DEF Surjection
  <2>. QED  BY <2>3, <2>4 DEF Bijection
<1>4. ExistsBijection(D, R)
  BY <1>3 DEF ExistsBijection
<1>5. IsFiniteSet(D) /\ Cardinality(D) = Len(s)
  <2> DEFINE N == Len(s)
  <2>1. N \in Nat
    BY <1>1
  <2> HIDE DEF N
  <2>2. IsFiniteSet(1 .. N) /\ Cardinality(1 .. N) = IF 1 > N THEN 0 ELSE N - 1 + 1
    BY <2>1, FS_Interval
  <2>3. Cardinality(1 .. N) = N
    BY <2>1, <2>2
  <2>. QED  BY <2>2, <2>3 DEF N
<1> HIDE DEF D, R
<1>. QED  BY <1>4, <1>5, FS_Bijection DEF D, R

\* What the walk, the query and the members of a table of values are.
LEMMA WalkedValues ==
    ASSUME NEW s, NEW n \in Nat \ {0}, IsTable(Keys, Id, n, s.table)
    PROVE  /\ S!Size(s) = n
           /\ S!AllValues(s) \in Seq(Keys) /\ Once(Id, S!AllValues(s))
           /\ \A v : v \in S!Members(s) <=> Stored(s.table, v)
           /\ \A v : Visits(S!AllValues(s), v) <=> v \in S!Members(s)
           /\ S!Members(s) \subseteq Keys
           /\ \A v \in Keys : S!In(s, v) <=> v \in S!Members(s)
<1> DEFINE a == S!AllValues(s)
<1>1. DOMAIN s.table = 0 .. n - 1 /\ Cardinality(DOMAIN s.table) = n
  BY IdType, TableFacts
<1>2. S!Size(s) = n
  BY <1>1, SameOperators DEF S!Size
<1>3. a = FlattenSeq([i \in 1 .. n |-> s.table[i - 1]])
  BY <1>2, SameOperators DEF S!AllValues
<1> HIDE DEF a
<1>4. a \in Seq(Keys) /\ Once(Id, a) /\ \A v : Visits(a, v) <=> Stored(s.table, v)
  BY <1>3, IdType, WalkOnce
<1>5. \A v : Visits(a, v) <=> v \in S!Members(s)
  <2>1. DOMAIN a = 1 .. Len(a)
    BY <1>4
  <2>. QED  BY <2>1 DEF S!Members, S!ToSet, Visits, a
<1>6. S!Members(s) \subseteq Keys
  BY <1>4, <1>5 DEF Visits
<1>7. ASSUME NEW v \in Keys PROVE S!In(s, v) <=> v \in S!Members(s)
  <2> DEFINE c == v % n
  <2>1. v \in Nat /\ c \in 0 .. n - 1 /\ Id[v] = v
    BY HashTableAssumption, IdIs
  <2>2. s.table[c] \in Seq(Keys)
    BY <2>1 DEF IsTable
  <2>3. S!In(s, v) <=> Visits(s.table[c], v)
    <3>1. S!In(s, v) <=> v \in S!Range(s.table[c])
      BY <1>2 DEF S!In, S!ChainOf
    <3>2. DOMAIN s.table[c] = 1 .. Len(s.table[c])
      BY <2>2
    <3> HIDE DEF c
    <3>. QED  BY <3>1, <3>2 DEF S!Range, Visits
  <2>4. Stored(s.table, v) => Visits(s.table[c], v)
    BY <2>1, IdType, TableFacts
  <2>5. Visits(s.table[c], v) => Stored(s.table, v)
    BY <1>1, <2>1 DEF Stored
  <2>. QED  BY <1>4, <1>5, <2>3, <2>4, <2>5
<1>. QED  BY <1>2, <1>4, <1>5, <1>6, <1>7 DEF a

LEMMA SetFacts ==
    ASSUME NEW s, SetOK(s)
    PROVE  /\ S!AllValues(s) \in Seq(Keys) /\ Once(Id, S!AllValues(s))
           /\ \A v : v \in S!Members(s) <=> Stored(s.table, v)
           /\ \A v : Visits(S!AllValues(s), v) <=> v \in S!Members(s)
           /\ S!Members(s) \subseteq Keys
           /\ \A v \in Keys : S!In(s, v) <=> v \in S!Members(s)
BY WalkedValues DEF SetOK

\* The set of the values D.
LEMMA SetMade ==
    ASSUME NEW s \in SetRec, NEW n \in Nat \ {0}, IsTable(Keys, Id, n, s.table),
           NEW D, \A v : Stored(s.table, v) <=> v \in D,
           IsFiniteSet(D), s.entries = Cardinality(D)
    PROVE  SetOK(s) /\ S!Members(s) = D /\ S!Size(s) = n
<1>1. S!Size(s) = n /\ \A v : v \in S!Members(s) <=> Stored(s.table, v)
  BY WalkedValues
<1>2. S!Members(s) = D
  BY <1>1
<1>. QED  BY <1>1, <1>2 DEF SetOK

LEMMA NewSetOK == SetOK(S!NewSet) /\ S!Members(S!NewSet) = {} /\ S!NewSet.free_func = FALSE
<1> DEFINE n == hash_table_primes[1]
           s == S!NewSet
<1>1. n \in Nat \ {0}
  BY HashTableAssumption
<1>2. s = [table |-> EmptyTable(n), prime_index |-> 0, entries |-> 0, free_func |-> FALSE]
  BY SameOperators DEF S!NewSet
<1> HIDE DEF n, s
<1>3. IsTable(Keys, Id, n, s.table) /\ \A v : ~Stored(s.table, v)
  BY <1>1, <1>2, EmptyIsTable
<1>4. s \in SetRec
  <2>1. s.table \in [0 .. n - 1 -> Seq(Keys)]
    BY <1>3 DEF IsTable
  <2>2. EmptyTable(n) \in Tables
    BY <1>1, <1>2, <2>1 DEF Tables
  <2>. QED  BY <1>2, <2>2 DEF SetRec
<1>5. IsFiniteSet({}) /\ s.entries = Cardinality({})
  BY <1>2, FS_EmptySet
<1>6. SetOK(s) /\ S!Members(s) = {}
  BY <1>1, <1>3, <1>4, <1>5, SetMade
<1>. QED  BY <1>2, <1>6 DEF s

-----------------------------------------------------------------------------
(* Growth of a set, insertion and removal.                                 *)

LEMMA RehashedValues ==
    ASSUME NEW n \in Nat \ {0}, NEW walk \in Seq(Keys), Once(Id, walk)
    PROVE  /\ IsTable(Keys, Id, n, S!Rehashed(walk, n))
           /\ \A v : Stored(S!Rehashed(walk, n), v) <=> Visits(walk, v)
<1> DEFINE N == Len(walk)
           Def(f) == f = [m \in 0 .. N |->
                             IF m = 0 THEN S!EmptyTable(n)
                             ELSE [f[m - 1] EXCEPT ![walk[m] % n] = <<walk[m]>> \o @]]
           c == CHOOSE f : Def(f)
<1>1. N \in Nat /\ \A m \in 1 .. N : walk[m] \in Keys
  OBVIOUS
<1>2. S!Rehashed(walk, n) = c[N]
  BY Zenon DEF S!Rehashed
<1>3. \A m \in 1 .. N : \A t : [t EXCEPT ![walk[m] % n] = <<walk[m]>> \o @]
                                = Pushed(Id, n, t, walk[m])
  BY <1>1, IdIs DEF Pushed
<1>4. PICK h : h = [m \in 0 .. N |-> h[m]] /\ Moves(Id, n, walk, h)
  BY IdType, MoveRuns
<1>5. S!EmptyTable(n) = EmptyTable(n)
  BY SameOperators
<1> HIDE DEF N
<1>6. Def(h)
  <2>1. ASSUME NEW m \in 0 .. N
        PROVE  h[m] = IF m = 0 THEN S!EmptyTable(n)
                      ELSE [h[m - 1] EXCEPT ![walk[m] % n] = <<walk[m]>> \o @]
    <3>1. CASE m = 0
      BY <1>4, <1>5, <3>1 DEF Moves
    <3>2. CASE m # 0
      <4>1. m \in 1 .. N
        BY <1>1, <3>2
      <4>2. h[m] = Pushed(Id, n, h[m - 1], walk[m])
        BY <1>4, <4>1 DEF Moves, N
      <4>3. [h[m - 1] EXCEPT ![walk[m] % n] = <<walk[m]>> \o @] = Pushed(Id, n, h[m - 1], walk[m])
        BY <1>3, <4>1
      <4>. QED  BY <3>2, <4>2, <4>3
    <3>. QED  BY <3>1, <3>2
  <2>. QED  BY <1>4, <2>1
<1>7. Def(c)
  BY <1>6, Zenon
<1> HIDE DEF c
<1>8. c[0] = EmptyTable(n)
  BY <1>1, <1>5, <1>7
<1>9. \A m \in 1 .. N : c[m] = Pushed(Id, n, c[m - 1], walk[m])
  <2> SUFFICES ASSUME NEW m \in 1 .. N PROVE c[m] = Pushed(Id, n, c[m - 1], walk[m])
    OBVIOUS
  <2>1. m \in 0 .. N /\ m # 0
    BY <1>1
  <2>2. c[m] = [c[m - 1] EXCEPT ![walk[m] % n] = <<walk[m]>> \o @]
    BY <1>7, <2>1
  <2>. QED  BY <1>3, <2>2
<1>10. Moves(Id, n, walk, c)
  BY <1>8, <1>9 DEF Moves, N
<1>11. IsTable(Keys, Id, n, c[N]) /\ \A v : Stored(c[N], v) <=> Visits(walk, v)
  BY <1>10, IdType, MovedIsTable DEF N
<1>. QED  BY <1>2, <1>11

\* r is s with the values D.
Becomes(s, r, D) == SetOK(r) /\ S!Members(r) = D /\ r.free_func = s.free_func

\* Set s with another table, counter and prime.
LEMMA SetChanged ==
    ASSUME NEW s, SetOK(s), NEW n \in Nat \ {0}, NEW t, IsTable(Keys, Id, n, t),
           NEW i \in Nat, NEW D, \A v : Stored(t, v) <=> v \in D, IsFiniteSet(D)
    PROVE  Becomes(s, [s EXCEPT !.table = t, !.prime_index = i, !.entries = Cardinality(D)], D)
<1> DEFINE r == [s EXCEPT !.table = t, !.prime_index = i, !.entries = Cardinality(D)]
<1>1. s \in SetRec
  BY DEF SetOK
<1>2. t \in Tables
  <2>1. t \in [0 .. n - 1 -> Seq(Keys)]
    BY DEF IsTable
  <2>. QED  BY <2>1 DEF Tables
<1>3. Cardinality(D) \in Nat
  BY FS_CardinalityType
<1>4. /\ r \in SetRec /\ r.table = t /\ r.entries = Cardinality(D)
      /\ r.free_func = s.free_func
  BY <1>1, <1>2, <1>3 DEF SetRec
<1> HIDE DEF r
<1>5. SetOK(r) /\ S!Members(r) = D
  <2>1. IsTable(Keys, Id, n, r.table) /\ \A v : Stored(r.table, v) <=> v \in D
    BY <1>4
  <2>. QED  BY <1>4, <2>1, SetMade
<1>. QED  BY <1>4, <1>5 DEF Becomes, r

\* set_enlarge moves every value to its chain.
LEMMA GrownSet ==
    ASSUME NEW s, SetOK(s)
    PROVE  Becomes(s, S!Grown(s), S!Members(s))
<1> DEFINE D == S!Members(s)
<1>1. /\ s \in SetRec /\ S!Size(s) \in Nat \ {0}
      /\ IsFiniteSet(D) /\ s.entries = Cardinality(D)
  BY DEF SetOK
<1>2. s.entries \in Nat /\ s.prime_index \in Nat
  BY <1>1 DEF SetRec
<1>3. CASE S!TooFull(s)
  <2> DEFINE n == S!AllocSize(s)
             t == S!Rehashed(S!AllValues(s), n)
  <2>1. s.entries # 0
    BY <1>1, <1>2, <1>3 DEF S!TooFull
  <2>2. n \in Nat \ {0}
    BY <1>2, <2>1, HashTableAssumption DEF S!AllocSize
  <2>3. S!Grown(s) = [s EXCEPT !.prime_index = @ + 1, !.table = t]
    BY <1>3 DEF S!Grown, S!Enlarged
  <2> HIDE DEF n
  <2>4. IsTable(Keys, Id, n, t) /\ \A v : Stored(t, v) <=> v \in D
    <3>1. /\ S!AllValues(s) \in Seq(Keys) /\ Once(Id, S!AllValues(s))
          /\ \A v : Visits(S!AllValues(s), v) <=> v \in D
      BY SetFacts
    <3>2. /\ IsTable(Keys, Id, n, t)
          /\ \A v : Stored(t, v) <=> Visits(S!AllValues(s), v)
      BY <2>2, <3>1, RehashedValues
    <3>. QED  BY <3>1, <3>2
  <2> HIDE DEF t, D
  <2>5. Becomes(s, [s EXCEPT !.table = t, !.prime_index = s.prime_index + 1,
                             !.entries = Cardinality(D)], D)
    <3>1. s.prime_index + 1 \in Nat
      BY <1>2
    <3>. QED  BY <1>1, <2>2, <2>4, <3>1, SetChanged
  <2>6. S!Grown(s) = [s EXCEPT !.table = t, !.prime_index = s.prime_index + 1,
                               !.entries = Cardinality(D)]
    BY <1>1, <2>3 DEF SetRec
  <2>. QED  BY <2>5, <2>6 DEF D
<1>4. CASE ~S!TooFull(s)
  <2>1. S!Grown(s) = s
    BY <1>4 DEF S!Grown
  <2>. QED  BY <2>1 DEF Becomes
<1>. QED  BY <1>3, <1>4

\* set_insert
LEMMA InsertedSet ==
    ASSUME NEW s, SetOK(s), NEW v \in Keys
    PROVE  Becomes(s, S!Inserted(s, v), S!Members(s) \cup {v})
<1> DEFINE g == S!Grown(s)
           D == S!Members(s)
<1>1. SetOK(g) /\ S!Members(g) = D /\ g.free_func = s.free_func
  BY GrownSet DEF Becomes
<1>2. S!In(g, v) <=> v \in D
  BY <1>1, SetFacts
<1>3. S!Inserted(s, v) = IF S!In(g, v) THEN g
                         ELSE [g EXCEPT !.table[S!ChainOf(g, v)] = <<v>> \o @, !.entries = @ + 1]
  BY DEF S!Inserted
<1> HIDE DEF g
<1>4. CASE S!In(g, v)
  <2>1. D \cup {v} = D
    BY <1>2, <1>4
  <2>. QED  BY <1>1, <1>3, <1>4, <2>1 DEF Becomes
<1>5. CASE ~S!In(g, v)
  <2> DEFINE n == S!Size(g)
             t == Pushed(Id, n, g.table, v)
             E == D \cup {v}
  <2>1. /\ g \in SetRec /\ n \in Nat \ {0} /\ IsTable(Keys, Id, n, g.table)
        /\ IsFiniteSet(D) /\ g.entries = Cardinality(D)
    BY <1>1 DEF SetOK
  <2>2. v \notin D
    BY <1>2, <1>5
  <2>3. S!ChainOf(g, v) = Id[v] % n
    BY IdIs DEF S!ChainOf
  <2> HIDE DEF n
  <2>4. \A w : w \in D <=> Stored(g.table, w)
    BY <1>1, SetFacts
  <2>5. D \subseteq Keys
    BY <1>1, SetFacts
  <2> HIDE DEF D
  <2>6. Fresh(Id, g.table, v)
    BY <2>2, <2>4, <2>5, IdIs DEF Fresh
  <2>7. IsTable(Keys, Id, n, t) /\ \A w : Stored(t, w) <=> Stored(g.table, w) \/ w = v
    BY <2>1, <2>6, IdType, PushFront
  <2>8. IsFiniteSet(E) /\ Cardinality(E) = g.entries + 1 /\ \A w : Stored(t, w) <=> w \in E
    BY <2>1, <2>2, <2>4, <2>7, FS_AddElement
  <2>9. S!Inserted(s, v) = [g EXCEPT !.table = t, !.prime_index = g.prime_index,
                                     !.entries = Cardinality(E)]
    <3>1. S!Inserted(s, v) = [g EXCEPT !.table[Id[v] % n] = <<v>> \o @, !.entries = @ + 1]
      BY <1>3, <1>5, <2>3
    <3> HIDE DEF E
    <3>. QED  BY <2>1, <2>8, <3>1 DEF SetRec, Pushed
  <2> HIDE DEF t, E
  <2>10. Becomes(g, [g EXCEPT !.table = t, !.prime_index = g.prime_index,
                              !.entries = Cardinality(E)], E)
    <3>1. g.prime_index \in Nat
      BY <2>1 DEF SetRec
    <3>. QED  BY <1>1, <2>1, <2>7, <2>8, <3>1, SetChanged
  <2>. QED  BY <1>1, <2>9, <2>10 DEF Becomes, E, D
<1>. QED  BY <1>4, <1>5

\* Where a value is in its chain.
LEMMA AtValue ==
    ASSUME NEW s, SetOK(s), NEW v \in S!Members(s)
    PROVE  /\ v \in Keys /\ S!ChainOf(s, v) \in 0 .. S!Size(s) - 1
           /\ S!At(s.table[S!ChainOf(s, v)], v) \in 1 .. Len(s.table[S!ChainOf(s, v)])
           /\ s.table[S!ChainOf(s, v)][S!At(s.table[S!ChainOf(s, v)], v)] = v
<1> DEFINE n == S!Size(s)
           c == S!ChainOf(s, v)
           chain == s.table[c]
           j == S!At(chain, v)
<1>1. n \in Nat \ {0} /\ IsTable(Keys, Id, n, s.table)
  BY DEF SetOK
<1>2. v \in Keys /\ Stored(s.table, v)
  BY SetFacts
<1>3. c = Id[v] % n
  BY <1>2, IdIs DEF S!ChainOf
<1> HIDE DEF n, c
<1>4. c \in 0 .. n - 1 /\ Visits(chain, v) /\ chain \in Seq(Keys)
  <2>1. /\ \A i \in 0 .. n - 1 : s.table[i] \in Seq(Keys)
        /\ Id[v] % n \in 0 .. n - 1 /\ Visits(s.table[Id[v] % n], v)
    BY <1>1, <1>2, IdType, TableFacts
  <2>. QED  BY <1>3, <2>1
<1> HIDE DEF chain
<1>5. \E i \in DOMAIN chain : chain[i] = v
  BY <1>4 DEF Visits
<1>6. j \in DOMAIN chain /\ chain[j] = v
  BY <1>5 DEF S!At
<1> HIDE DEF j
<1>7. j \in 1 .. Len(chain)
  BY <1>4, <1>6
<1>. QED  BY <1>2, <1>4, <1>6, <1>7 DEF j, chain, c, n

\* t is the table of s without v.
TakenOut(s, v, t) ==
    \E x \in 0 .. S!Size(s) - 1 : \E j \in 1 .. Len(s.table[x]) :
        s.table[x][j] = v /\ t = [s.table EXCEPT ![x] = RemoveAt(@, j)]

\* set_remove
LEMMA RemovedSet ==
    ASSUME NEW s, SetOK(s), NEW v \in S!Members(s)
    PROVE  /\ Becomes(s, S!Removed(s, v), S!Members(s) \ {v})
           /\ TakenOut(s, v, S!Removed(s, v).table)
<1> DEFINE n == S!Size(s)
           c == S!ChainOf(s, v)
           j == S!At(s.table[c], v)
           t == [s.table EXCEPT ![c] = RemoveAt(@, j)]
           D == S!Members(s)
           E == D \ {v}
<1>1. /\ s \in SetRec /\ n \in Nat \ {0} /\ IsTable(Keys, Id, n, s.table)
      /\ IsFiniteSet(D) /\ s.entries = Cardinality(D)
  BY DEF SetOK
<1>2. v \in Keys /\ c \in 0 .. n - 1 /\ j \in 1 .. Len(s.table[c]) /\ s.table[c][j] = v
  BY AtValue
<1>3. S!Removed(s, v) = [s EXCEPT !.table[c] = S!RemoveAt(@, S!At(@, v)), !.entries = @ - 1]
  BY DEF S!Removed
<1> HIDE DEF c, n
<1>4. DOMAIN s.table = 0 .. n - 1
  BY <1>1 DEF IsTable
<1>5. S!Removed(s, v) = [s EXCEPT !.table = t, !.entries = s.entries - 1]
  <2>1. S!Removed(s, v) = [s EXCEPT !.table = [s.table EXCEPT ![c] = S!RemoveAt(s.table[c], j)],
                                    !.entries = s.entries - 1]
    BY <1>1, <1>2, <1>3, <1>4 DEF SetRec
  <2>2. S!RemoveAt(s.table[c], j) = RemoveAt(s.table[c], j)
    BY SameOperators
  <2>3. t = [s.table EXCEPT ![c] = RemoveAt(s.table[c], j)]
    BY <1>2, <1>4
  <2>. QED  BY <2>1, <2>2, <2>3
<1>6. IsTable(Keys, Id, n, t) /\ \A w : Stored(t, w) <=> Stored(s.table, w) /\ Id[w] # Id[s.table[c][j]]
  <2>1. Id \in [Keys -> Nat] /\ c \in 0 .. n - 1 /\ j \in 1 .. Len(s.table[c])
    BY <1>2, IdType
  <2> HIDE DEF j
  <2>. QED  BY <1>1, <2>1, RemovedItem
<1> HIDE DEF t, j
<1>7. \A w : w \in D <=> Stored(s.table, w)
  BY SetFacts
<1>8. D \subseteq Keys /\ v \in D
  BY SetFacts
<1> HIDE DEF D
<1>9. \A w : Stored(t, w) <=> w \in E
  BY <1>2, <1>6, <1>7, <1>8, IdIs
<1>10. IsFiniteSet(E) /\ Cardinality(E) = s.entries - 1
  BY <1>1, <1>8, FS_RemoveElement
<1> HIDE DEF E
<1>11. Becomes(s, [s EXCEPT !.table = t, !.prime_index = s.prime_index, !.entries = Cardinality(E)], E)
  <2>1. s.prime_index \in Nat
    BY <1>1 DEF SetRec
  <2>. QED  BY <1>1, <1>6, <1>9, <1>10, <2>1, SetChanged
<1>12. /\ [s EXCEPT !.table = t, !.prime_index = s.prime_index, !.entries = Cardinality(E)]
             = S!Removed(s, v)
       /\ S!Removed(s, v).table = t
  BY <1>1, <1>5, <1>10 DEF SetRec
<1>13. Becomes(s, S!Removed(s, v), E)
  BY <1>11, <1>12
<1>14. TakenOut(s, v, t)
  BY <1>2 DEF TakenOut, t, n
<1>. QED  BY <1>12, <1>13, <1>14 DEF E, D

-----------------------------------------------------------------------------
(* set_union and set_intersection: the new set after each value.           *)

\* Value m of vs, if it is wanted; from position a + 1 on, the new set is asked
\* whether it has it.
FillStep(vs, a, D, m, s) ==
    IF vs[m] \notin D \/ (m > a /\ S!In(s, vs[m])) THEN s ELSE S!Inserted(s, vs[m])

Fills(vs, a, D, f) ==
    f = [m \in 0 .. Len(vs) |->
            IF m = 0 THEN S!NewSet ELSE FillStep(vs, a, D, m, f[m - 1])]

LEMMA FillStepOK ==
    ASSUME NEW vs \in Seq(Keys), NEW a, NEW D, NEW m \in 1 .. Len(vs), NEW s, SetOK(s)
    PROVE  Becomes(s, FillStep(vs, a, D, m, s), S!Members(s) \cup ({vs[m]} \cap D))
<1> DEFINE v == vs[m]
           M == S!Members(s)
<1>1. v \in Keys
  OBVIOUS
<1>2. S!In(s, v) <=> v \in M
  BY <1>1, SetFacts
<1>3. FillStep(vs, a, D, m, s) =
          IF v \notin D \/ (m > a /\ S!In(s, v)) THEN s ELSE S!Inserted(s, v)
  BY DEF FillStep
<1>4. Becomes(s, s, M)
  BY DEF Becomes
<1>5. Becomes(s, S!Inserted(s, v), M \cup {v})
  BY <1>1, InsertedSet
<1> HIDE DEF v, M
<1>6. CASE v \notin D
  <2>1. M \cup ({v} \cap D) = M
    BY <1>6
  <2>. QED  BY <1>3, <1>4, <1>6, <2>1 DEF v, M
<1>7. CASE v \in D /\ m > a /\ S!In(s, v)
  <2>1. M \cup ({v} \cap D) = M
    BY <1>2, <1>7
  <2>. QED  BY <1>3, <1>4, <1>7, <2>1 DEF v, M
<1>8. CASE v \in D /\ ~(m > a /\ S!In(s, v))
  <2>1. M \cup ({v} \cap D) = M \cup {v}
    BY <1>8
  <2>. QED  BY <1>3, <1>5, <1>8, <2>1 DEF v, M
<1>. QED  BY <1>6, <1>7, <1>8

LEMMA FillRuns ==
    ASSUME NEW vs \in Seq(Keys), NEW a, NEW D
    PROVE  \E f : Fills(vs, a, D, f)
<1> DEFINE N == Len(vs)
           W == {s \in SetRec : SetOK(s)}
           g == [p \in (1 .. N) \X W |-> FillStep(vs, a, D, p[1], p[2])]
           b == S!NewSet
<1>1. N \in Nat
  OBVIOUS
<1>2. b \in W
  BY NewSetOK DEF SetOK
<1>3. \A m \in 1 .. N : \A s \in W : FillStep(vs, a, D, m, s) \in W
  <2> SUFFICES ASSUME NEW m \in 1 .. N, NEW s \in W PROVE SetOK(FillStep(vs, a, D, m, s))
    BY DEF SetOK
  <2>1. SetOK(s)
    OBVIOUS
  <2>. QED  BY <2>1, FillStepOK DEF Becomes
<1> HIDE DEF N, W, b
<1>4. g \in [(1 .. N) \X W -> W] /\ \A m \in 1 .. N, s \in W : g[<<m, s>>] = FillStep(vs, a, D, m, s)
  BY <1>3
<1> HIDE DEF g
<1>5. PICK h \in [0 .. N -> W] : Loop(N, b, g, h)
  BY <1>1, <1>2, <1>4, LoopRuns
<1>6. ASSUME NEW m \in 0 .. N
      PROVE  h[m] = IF m = 0 THEN b ELSE FillStep(vs, a, D, m, h[m - 1])
  <2>1. CASE m = 0
    BY <1>5, <2>1 DEF Loop
  <2>2. CASE m # 0
    <3>1. m \in 1 .. N /\ m - 1 \in 0 .. N
      BY <1>1, <2>2
    <3>2. h[m - 1] \in W /\ h[m] = g[<<m, h[m - 1]>>]
      BY <1>5, <3>1 DEF Loop
    <3>. QED  BY <1>4, <2>2, <3>1, <3>2
  <2>. QED  BY <2>1, <2>2
<1>7. h = [m \in 0 .. N |-> IF m = 0 THEN b ELSE FillStep(vs, a, D, m, h[m - 1])]
  BY <1>6
<1>. QED  BY <1>7 DEF Fills, N, b

\* After m values the new set has those of them that are wanted, and owns nothing.
LEMMA FillsExactly ==
    ASSUME NEW vs \in Seq(Keys), NEW a, NEW D, NEW f, Fills(vs, a, D, f)
    PROVE  /\ DOMAIN f = 0 .. Len(vs)
           /\ \A m \in 0 .. Len(vs) :
                 Becomes(S!NewSet, f[m], {vs[j] : j \in 1 .. m} \cap D)
<1> DEFINE N == Len(vs)
           Has(m) == {vs[j] : j \in 1 .. m} \cap D
           K == {m \in 0 .. N : Becomes(S!NewSet, f[m], Has(m))}
<1>1. N \in Nat /\ f = [m \in 0 .. N |->
          IF m = 0 THEN S!NewSet ELSE FillStep(vs, a, D, m, f[m - 1])]
  BY DEF Fills
<1>2. f[0] = S!NewSet
  BY <1>1
<1>3. \A m \in 1 .. N : f[m] = FillStep(vs, a, D, m, f[m - 1])
  BY <1>1
<1>4. DOMAIN f = 0 .. N
  BY <1>1
<1>5. 0 \in K
  <2>1. Has(0) = {}
    OBVIOUS
  <2> HIDE DEF Has
  <2>2. Becomes(S!NewSet, f[0], Has(0))
    BY <1>2, <2>1, NewSetOK DEF Becomes
  <2>. QED  BY <1>1, <2>2
<1>6. ASSUME NEW m \in 1 .. N, m - 1 \in K PROVE m \in K
  <2> DEFINE s == f[m - 1]
  <2>1. SetOK(s) /\ S!Members(s) = Has(m - 1) /\ s.free_func = S!NewSet.free_func
    BY <1>6 DEF Becomes
  <2>2. Has(m) = Has(m - 1) \cup ({vs[m]} \cap D)
    <3>1. \A j : j \in 1 .. m <=> j \in 1 .. m - 1 \/ j = m
      BY <1>1
    <3>. QED  BY <3>1
  <2> HIDE DEF s, Has
  <2>3. Becomes(s, FillStep(vs, a, D, m, s), S!Members(s) \cup ({vs[m]} \cap D))
    BY <2>1, FillStepOK
  <2>4. f[m] = FillStep(vs, a, D, m, s)
    BY <1>3 DEF s
  <2>5. Becomes(S!NewSet, f[m], Has(m))
    BY <2>1, <2>2, <2>3, <2>4 DEF Becomes
  <2>. QED  BY <1>1, <2>5
<1> HIDE DEF K
<1>7. \A m \in 0 .. N : m \in K
  BY <1>1, <1>5, <1>6, StepByStep
<1>. QED  BY <1>4, <1>7 DEF K

\* Every value of both sets.
LEMMA UnitedFills ==
    ASSUME SetOK(set[1]), SetOK(set[2])
    PROVE  Fills(S!AllValues(set[1]) \o S!AllValues(set[2]), Len(S!AllValues(set[1])), Keys, S!United)
<1> DEFINE one == S!AllValues(set[1])
           two == S!AllValues(set[2])
           vs == one \o two
           a == Len(one)
           Def(f) == f = [m \in 0 .. Len(vs) |->
                            IF m = 0 THEN S!NewResult
                            ELSE IF m > a /\ S!In(f[m - 1], vs[m]) THEN f[m - 1]
                            ELSE S!Inserted(f[m - 1], vs[m])]
<1>1. S!United = CHOOSE f : Def(f)
  BY Zenon DEF S!United
<1>2. vs \in Seq(Keys)
  BY SetFacts, ConcatOnce
<1> HIDE DEF one, two, vs, a
<1>3. \A m \in 1 .. Len(vs) : vs[m] \in Keys
  BY <1>2
<1>4. ASSUME NEW f PROVE Def(f) <=> Fills(vs, a, Keys, f)
  <2>1. \A m \in 0 .. Len(vs) :
            (IF m = 0 THEN S!NewResult
             ELSE IF m > a /\ S!In(f[m - 1], vs[m]) THEN f[m - 1]
             ELSE S!Inserted(f[m - 1], vs[m]))
            = IF m = 0 THEN S!NewSet ELSE FillStep(vs, a, Keys, m, f[m - 1])
    <3> SUFFICES ASSUME NEW m \in 0 .. Len(vs), m # 0
                 PROVE  (IF m > a /\ S!In(f[m - 1], vs[m]) THEN f[m - 1]
                         ELSE S!Inserted(f[m - 1], vs[m])) = FillStep(vs, a, Keys, m, f[m - 1])
      BY DEF S!NewResult
    <3>1. vs[m] \in Keys
      BY <1>2, <1>3
    <3>. QED  BY <3>1 DEF FillStep
  <2>2. [m \in 0 .. Len(vs) |->
            IF m = 0 THEN S!NewResult
            ELSE IF m > a /\ S!In(f[m - 1], vs[m]) THEN f[m - 1]
            ELSE S!Inserted(f[m - 1], vs[m])]
        = [m \in 0 .. Len(vs) |-> IF m = 0 THEN S!NewSet ELSE FillStep(vs, a, Keys, m, f[m - 1])]
    BY <2>1
  <2>. QED  BY <2>2 DEF Fills
<1>5. \E f : Def(f)
  BY <1>2, <1>4, FillRuns
<1>6. Def(CHOOSE f : Def(f))
  BY <1>5, Zenon
<1> HIDE DEF Def
<1>7. Def(S!United)
  BY <1>1, <1>6
<1>. QED  BY <1>4, <1>7 DEF vs, one, two, a

\* The values of the first set that are in the second.
LEMMA IntersectedFills ==
    ASSUME SetOK(set[1]), SetOK(set[2])
    PROVE  Fills(S!AllValues(set[1]), Len(S!AllValues(set[1])), S!Members(set[2]), S!Intersected)
<1> DEFINE vs == S!AllValues(set[1])
           D == S!Members(set[2])
           Def(f) == f = [m \in 0 .. Len(vs) |->
                            IF m = 0 THEN S!NewResult
                            ELSE IF S!In(set[2], vs[m]) THEN S!Inserted(f[m - 1], vs[m])
                            ELSE f[m - 1]]
<1>1. S!Intersected = CHOOSE f : Def(f)
  BY Zenon DEF S!Intersected
<1>2. vs \in Seq(Keys) /\ \A v \in Keys : S!In(set[2], v) <=> v \in D
  BY SetFacts
<1> HIDE DEF vs, D
<1>3. \A m \in 1 .. Len(vs) : vs[m] \in Keys /\ ~(m > Len(vs))
  BY <1>2
<1>4. ASSUME NEW f PROVE Def(f) <=> Fills(vs, Len(vs), D, f)
  <2>1. \A m \in 0 .. Len(vs) :
            (IF m = 0 THEN S!NewResult
             ELSE IF S!In(set[2], vs[m]) THEN S!Inserted(f[m - 1], vs[m])
             ELSE f[m - 1])
            = IF m = 0 THEN S!NewSet ELSE FillStep(vs, Len(vs), D, m, f[m - 1])
    <3> SUFFICES ASSUME NEW m \in 0 .. Len(vs), m # 0
                 PROVE  (IF S!In(set[2], vs[m]) THEN S!Inserted(f[m - 1], vs[m])
                         ELSE f[m - 1]) = FillStep(vs, Len(vs), D, m, f[m - 1])
      BY DEF S!NewResult
    <3>1. vs[m] \in Keys /\ ~(m > Len(vs)) /\ (S!In(set[2], vs[m]) <=> vs[m] \in D)
      <4>1. m \in 1 .. Len(vs)
        BY <1>2
      <4>. QED  BY <1>2, <1>3, <4>1
    <3>. QED  BY <3>1 DEF FillStep
  <2>2. [m \in 0 .. Len(vs) |->
            IF m = 0 THEN S!NewResult
            ELSE IF S!In(set[2], vs[m]) THEN S!Inserted(f[m - 1], vs[m])
            ELSE f[m - 1]]
        = [m \in 0 .. Len(vs) |-> IF m = 0 THEN S!NewSet ELSE FillStep(vs, Len(vs), D, m, f[m - 1])]
    BY <2>1
  <2>. QED  BY <2>2 DEF Fills
<1>5. \E f : Def(f)
  BY <1>2, <1>4, FillRuns
<1>6. Def(CHOOSE f : Def(f))
  BY <1>5, Zenon
<1> HIDE DEF Def
<1>7. Def(S!Intersected)
  BY <1>1, <1>6
<1>. QED  BY <1>4, <1>7 DEF vs, D

-----------------------------------------------------------------------------
(* The sets: every call keeps SetsOK, and is one of ValueSet.              *)

OKSets == {s \in SetRec : SetOK(s)}

SetsOK == set \in Seq(OKSets) /\ Len(set) \in 2 .. 3

SetIterOK == s_iter # Null => Points(Id, s_iter, set[1].table, s_todo)

\* What the sets hold, and which of them own their values.
Contents == [i \in DOMAIN set |-> S!Members(set[i])]
Owns     == [i \in DOMAIN set |-> set[i].free_func]

LEMMA SetsFacts ==
    ASSUME SetsOK
    PROVE  /\ DOMAIN set = 1 .. Len(set) /\ 1 \in DOMAIN set /\ 2 \in DOMAIN set
           /\ DOMAIN Contents = DOMAIN set /\ DOMAIN Owns = DOMAIN set
           /\ \A i \in DOMAIN set : /\ SetOK(set[i]) /\ Contents[i] = S!Members(set[i])
                                    /\ Owns[i] = set[i].free_func /\ Owns[i] \in BOOLEAN
<1>1. DOMAIN set = 1 .. Len(set) /\ Len(set) \in 2 .. 3 /\ \A i \in DOMAIN set : set[i] \in OKSets
  BY DEF SetsOK
<1>2. 1 \in DOMAIN set /\ 2 \in DOMAIN set
  BY <1>1
<1>3. DOMAIN Contents = DOMAIN set /\ DOMAIN Owns = DOMAIN set
  BY DEF Contents, Owns
<1>4. ASSUME NEW i \in DOMAIN set
      PROVE  /\ SetOK(set[i]) /\ Contents[i] = S!Members(set[i])
             /\ Owns[i] = set[i].free_func /\ Owns[i] \in BOOLEAN
  <2>1. SetOK(set[i]) /\ set[i] \in SetRec
    BY <1>1 DEF OKSets
  <2>. QED  BY <2>1 DEF Contents, Owns, SetRec
<1>. QED  BY <1>1, <1>2, <1>3, <1>4

\* Set i becomes r.
LEMMA OneChanged ==
    ASSUME SetsOK, NEW i \in DOMAIN set, NEW r, SetOK(r), set' = [set EXCEPT ![i] = r]
    PROVE  /\ SetsOK' /\ DOMAIN set' = DOMAIN set /\ set'[i] = r
           /\ \A j \in DOMAIN set : j # i => set'[j] = set[j]
           /\ Contents' = [Contents EXCEPT ![i] = S!Members(r)]
           /\ Owns' = [Owns EXCEPT ![i] = r.free_func]
<1>1. r \in OKSets
  BY DEF OKSets, SetOK
<1>2. set \in Seq(OKSets) /\ Len(set) \in 2 .. 3 /\ i \in 1 .. Len(set) /\ DOMAIN set = 1 .. Len(set)
  BY DEF SetsOK
<1>3. set' \in Seq(OKSets) /\ Len(set') = Len(set)
  BY <1>1, <1>2, ExceptSeq
<1>4. /\ DOMAIN set' = DOMAIN set /\ set'[i] = r
      /\ \A j \in DOMAIN set : j # i => set'[j] = set[j]
  OBVIOUS
<1>5. SetsOK'
  BY <1>2, <1>3 DEF SetsOK
<1>6. Contents' = [j \in DOMAIN set' |-> S!Members(set'[j])]
  BY DEF Contents
<1>7. Owns' = [j \in DOMAIN set' |-> set'[j].free_func]
  BY DEF Owns
<1>8. Contents' = [Contents EXCEPT ![i] = S!Members(r)]
  BY <1>4, <1>6 DEF Contents
<1>9. Owns' = [Owns EXCEPT ![i] = r.free_func]
  BY <1>4, <1>7 DEF Owns
<1>. QED  BY <1>4, <1>5, <1>8, <1>9

LEMMA NoneChanged ==
    ASSUME SetsOK, set' = set
    PROVE  SetsOK' /\ Contents' = Contents /\ Owns' = Owns
BY DEF SetsOK, Contents, Owns

\* An iterator over a first set that does not change.
LEMMA IterKept ==
    ASSUME SetIterOK, set'[1] = set[1], s_iter' = s_iter, s_todo' = s_todo
    PROVE  SetIterOK'
BY DEF SetIterOK

LEMMA IterDropped ==
    ASSUME SetsOK, SetIterOK, NEW i \in DOMAIN set, S!DropIter(i),
           \A j \in DOMAIN set : j # i => set'[j] = set[j]
    PROVE  SetIterOK'
<1>1. CASE i = 1
  BY <1>1 DEF S!DropIter, SetIterOK
<1>2. CASE i # 1
  <2>1. set'[1] = set[1]
    BY <1>2, SetsFacts
  <2>. QED  BY <1>2, <2>1, IterKept DEF S!DropIter
<1>. QED  BY <1>1, <1>2

SetMaps == SetsOK' /\ SetIterOK' /\ S!Sets!Next

LEMMA SetInsertMaps ==
    ASSUME SetsOK, SetIterOK, NEW i \in DOMAIN set, NEW v \in Keys, S!set_insert(i, v)
    PROVE  SetMaps
<1> DEFINE r == S!Inserted(set[i], v)
<1>1. /\ set' = [set EXCEPT ![i] = r] /\ s_freed' = {} /\ S!DropIter(i)
      /\ s_ret' = <<"int", IF S!In(set[i], v) THEN 0 ELSE 1>>
  BY SetsFacts DEF S!set_insert, S!Returns
<1>2. SetOK(set[i]) /\ Contents[i] = S!Members(set[i]) /\ Owns[i] = set[i].free_func
  BY SetsFacts
<1>3. SetOK(r) /\ S!Members(r) = Contents[i] \cup {v} /\ r.free_func = Owns[i]
  BY <1>2, InsertedSet DEF Becomes
<1>4. S!In(set[i], v) <=> v \in Contents[i]
  BY <1>2, SetFacts
<1> HIDE DEF r
<1>5. /\ SetsOK' /\ \A j \in DOMAIN set : j # i => set'[j] = set[j]
      /\ Contents' = [Contents EXCEPT ![i] = Contents[i] \cup {v}]
      /\ Owns' = [Owns EXCEPT ![i] = Owns[i]]
  BY <1>1, <1>3, OneChanged
<1>6. SetIterOK'
  BY <1>1, <1>5, IterDropped
<1>7. DOMAIN Contents = DOMAIN set /\ DOMAIN Owns = DOMAIN set
  BY SetsFacts
<1>8. Owns' = Owns
  BY <1>5, <1>7 DEF Owns
<1>9. S!Sets!Insert(i, v)
  BY <1>1, <1>4, <1>5, <1>7, <1>8 DEF S!Sets!Insert, Contents, Owns
<1>10. S!Sets!Next
  BY <1>7, <1>9 DEF S!Sets!Next, Contents
<1>. QED  BY <1>5, <1>6, <1>10 DEF SetMaps

LEMMA SetInsertFailMaps ==
    ASSUME SetsOK, SetIterOK, NEW i \in DOMAIN set, NEW v \in Keys, S!set_insert_fails(i, v)
    PROVE  SetMaps
<1> DEFINE r == S!Grown(set[i])
<1>1. /\ set' = set \/ set' = [set EXCEPT ![i] = r]
      /\ s_freed' = {} /\ S!DropIter(i) /\ s_ret' = <<"int", 0>>
  BY SetsFacts DEF S!set_insert_fails, S!Returns
<1>2. SetOK(set[i]) /\ Contents[i] = S!Members(set[i]) /\ Owns[i] = set[i].free_func
  BY SetsFacts
<1>3. SetOK(r) /\ S!Members(r) = Contents[i] /\ r.free_func = Owns[i]
  BY <1>2, GrownSet DEF Becomes
<1> HIDE DEF r
<1>4. DOMAIN Contents = DOMAIN set /\ DOMAIN Owns = DOMAIN set
  BY SetsFacts
<1>5. /\ SetsOK' /\ \A j \in DOMAIN set : j # i => set'[j] = set[j]
      /\ Contents' = Contents /\ Owns' = Owns
  <2>1. CASE set' = set
    BY <2>1, NoneChanged
  <2>2. CASE set' = [set EXCEPT ![i] = r]
    <3>1. /\ SetsOK' /\ \A j \in DOMAIN set : j # i => set'[j] = set[j]
          /\ Contents' = [Contents EXCEPT ![i] = Contents[i]]
          /\ Owns' = [Owns EXCEPT ![i] = Owns[i]]
      BY <1>3, <2>2, OneChanged
    <3>. QED  BY <1>4, <3>1 DEF Contents, Owns
  <2>. QED  BY <1>1, <2>1, <2>2
<1>6. SetIterOK'
  BY <1>1, <1>5, IterDropped
<1>7. S!Sets!Fails
  BY <1>1, <1>5 DEF S!Sets!Fails, S!Sets!Asks, Contents, Owns
<1>. QED  BY <1>5, <1>6, <1>7 DEF SetMaps, S!Sets!Next

\* Calls that only return something.
LEMMA SetReadMaps ==
    ASSUME SetsOK, SetIterOK, NEW i \in DOMAIN set, S!Read(i)
    PROVE  SetMaps
<1>1. set' = set /\ s_iter' = s_iter /\ s_todo' = s_todo /\ s_freed' = {}
  BY DEF S!Read, S!set_num_entries, S!set_to_array, S!set_query, S!Reads, S!Returns
<1>2. SetsOK' /\ Contents' = Contents /\ Owns' = Owns
  BY <1>1, NoneChanged
<1>3. SetIterOK'
  BY <1>1, IterKept
<1>4. SetOK(set[i]) /\ Contents[i] = S!Members(set[i]) /\ DOMAIN Contents = DOMAIN set
  BY SetsFacts
<1>5. S!Sets!Asks
  BY <1>1, <1>2 DEF S!Sets!Asks, Contents, Owns
<1>6. CASE S!set_num_entries(i)
  <2>1. s_ret' = <<"int", Cardinality(Contents[i])>>
    BY <1>4, <1>6 DEF S!set_num_entries, S!Returns, SetOK
  <2>2. S!Sets!Cardinality(Contents[i]) = Cardinality(Contents[i])
    BY DEF S!Sets!Cardinality, Cardinality
  <2>3. S!Sets!Count(i)
    BY <1>5, <2>1, <2>2 DEF S!Sets!Count, Contents
  <2>4. S!Sets!Next
    BY <1>4, <2>3 DEF S!Sets!Next, Contents
  <2>. QED  BY <1>2, <1>3, <2>4 DEF SetMaps
<1>7. CASE S!set_to_array(i)
  <2> DEFINE a == S!AllValues(set[i])
  <2>1. s_ret' = <<"array", a>> \/ s_ret' = <<"int", 0>>
    BY <1>7 DEF S!set_to_array, S!Returns
  <2>2. CASE s_ret' = <<"int", 0>>
    <3>1. S!Sets!Fails
      BY <1>5, <2>2 DEF S!Sets!Fails
    <3>. QED  BY <1>2, <1>3, <3>1 DEF SetMaps, S!Sets!Next
  <2>3. CASE s_ret' = <<"array", a>>
    <3>1. a \in Seq(Keys) /\ Once(Id, a) /\ \A v : Visits(a, v) <=> v \in Contents[i]
      BY <1>4, SetFacts
    <3> HIDE DEF a
    <3>2. {a[j] : j \in 1 .. Len(a)} = Contents[i]
      BY <3>1 DEF Visits
    <3>3. Len(a) = Cardinality(Contents[i])
      BY <3>1, <3>2, OnceCounts
    <3>4. S!Sets!Range(a) = Contents[i]
      <4>1. DOMAIN a = 1 .. Len(a)
        BY <3>1
      <4>. QED  BY <3>2, <4>1 DEF S!Sets!Range
    <3>5. S!Sets!Cardinality(Contents[i]) = Cardinality(Contents[i])
      BY DEF S!Sets!Cardinality, Cardinality
    <3>6. s_ret'[1] = "array" /\ s_ret'[2] = a
      BY <2>3
    <3>7. S!Sets!ToArray(i)
      BY <1>5, <3>3, <3>4, <3>5, <3>6 DEF S!Sets!ToArray, Contents
    <3>8. S!Sets!Next
      BY <1>4, <3>7 DEF S!Sets!Next, Contents
    <3>. QED  BY <1>2, <1>3, <3>8 DEF SetMaps
  <2>. QED  BY <2>1, <2>2, <2>3
<1>8. ASSUME NEW v \in Keys, S!set_query(i, v) PROVE SetMaps
  <2>1. S!In(set[i], v) <=> v \in Contents[i]
    BY <1>4, SetFacts
  <2>2. s_ret' = <<"int", IF v \in Contents[i] THEN 1 ELSE 0>>
    BY <1>8, <2>1 DEF S!set_query, S!Returns
  <2>3. S!Sets!Query(i, v)
    BY <1>5, <2>2 DEF S!Sets!Query, Contents
  <2>4. S!Sets!Next
    BY <1>4, <2>3 DEF S!Sets!Next, Contents
  <2>. QED  BY <1>2, <1>3, <2>4 DEF SetMaps
<1>. QED  BY <1>6, <1>7, <1>8 DEF S!Read

LEMMA SetRegisterMaps ==
    ASSUME SetsOK, SetIterOK, NEW i \in DOMAIN set, S!set_register_free_function(i)
    PROVE  SetMaps
<1> DEFINE r == [set[i] EXCEPT !.free_func = TRUE]
<1>1. /\ set' = [set EXCEPT ![i] = r] /\ s_freed' = {} /\ s_ret' = <<"value", Null>>
      /\ s_iter' = s_iter /\ s_todo' = s_todo
  BY SetsFacts DEF S!set_register_free_function, S!Returns
<1>2. SetOK(set[i]) /\ Contents[i] = S!Members(set[i])
  BY SetsFacts
<1>3. r \in SetRec /\ r.table = set[i].table /\ r.entries = set[i].entries /\ r.free_func = TRUE
  BY <1>2 DEF SetOK, SetRec
<1> HIDE DEF r
<1>4. S!Members(r) = S!Members(set[i]) /\ S!Size(r) = S!Size(set[i])
  BY <1>3 DEF S!Members, S!AllValues, S!Size
<1>5. SetOK(r)
  BY <1>2, <1>3, <1>4 DEF SetOK
<1>6. DOMAIN Contents = DOMAIN set /\ DOMAIN Owns = DOMAIN set
  BY SetsFacts
<1>7. /\ SetsOK' /\ set'[i] = r /\ \A j \in DOMAIN set : j # i => set'[j] = set[j]
      /\ Contents' = [Contents EXCEPT ![i] = Contents[i]]
      /\ Owns' = [Owns EXCEPT ![i] = TRUE]
  BY <1>1, <1>2, <1>3, <1>4, <1>5, OneChanged
<1>8. SetIterOK'
  <2>1. 1 \in DOMAIN set
    BY SetsFacts
  <2>2. set'[1].table = set[1].table
    BY <1>3, <1>7, <2>1
  <2>. QED  BY <1>1, <2>2 DEF SetIterOK
<1>9. Contents' = Contents
  BY <1>6, <1>7 DEF Contents
<1>10. S!Sets!RegisterFree(i)
  BY <1>1, <1>6, <1>7, <1>9 DEF S!Sets!RegisterFree, S!Sets!Nothing, Contents, Owns
<1>11. S!Sets!Next
  BY <1>6, <1>10 DEF S!Sets!Next, Contents
<1>. QED  BY <1>7, <1>8, <1>11 DEF SetMaps

LEMMA FirstTwo ==
    ASSUME NEW x, NEW y, NEW z
    PROVE  SubSeq(<<x, y, z>>, 1, 2) = <<x, y>>
<1> DEFINE s == <<x, y, z>>
           t == SubSeq(s, 1, 2)
           E == {x, y, z}
<1>1. s \in Seq(E) /\ Len(s) = 3 /\ s[1] = x /\ s[2] = y
  OBVIOUS
<1> HIDE DEF s, E
<1>2. t \in Seq(E) /\ Len(t) = 2 /\ t[1] = s[1] /\ t[2] = s[2]
  BY <1>1
<1> HIDE DEF t
<1>3. t = <<t[1], t[2]>>
  BY <1>2
<1>. QED  BY <1>1, <1>2, <1>3 DEF s, t

LEMMA SetFreeMaps ==
    ASSUME SetsOK, SetIterOK, NEW i \in DOMAIN set, S!set_free(i)
    PROVE  SetMaps
<1>1. /\ set' = IF i = 3 THEN SubSeq(set, 1, 2) ELSE [set EXCEPT ![i] = S!NewSet]
      /\ s_ret' = <<"value", Null>> /\ s_freed' = S!FreedOf(set[i], S!Members(set[i]))
      /\ S!DropIter(i)
  BY DEF S!set_free
<1>2. /\ Contents[i] = S!Members(set[i]) /\ Owns[i] = set[i].free_func
      /\ DOMAIN Contents = DOMAIN set /\ DOMAIN Owns = DOMAIN set
      /\ DOMAIN set = 1 .. Len(set)
  BY SetsFacts
<1>3. s_freed' = IF Owns[i] THEN Contents[i] \cap Contents[i] ELSE {}
  BY <1>1, <1>2 DEF S!FreedOf
<1>4. /\ SetsOK' /\ SetIterOK'
      /\ Contents' = IF i = 3 THEN SubSeq(Contents, 1, 2) ELSE [Contents EXCEPT ![i] = {}]
      /\ Owns' = IF i = 3 THEN SubSeq(Owns, 1, 2) ELSE [Owns EXCEPT ![i] = FALSE]
  <2>1. CASE i # 3
    <3>1. set' = [set EXCEPT ![i] = S!NewSet]
      BY <1>1, <2>1
    <3>2. SetOK(S!NewSet) /\ S!Members(S!NewSet) = {} /\ S!NewSet.free_func = FALSE
      BY NewSetOK
    <3>3. /\ SetsOK' /\ \A j \in DOMAIN set : j # i => set'[j] = set[j]
          /\ Contents' = [Contents EXCEPT ![i] = {}] /\ Owns' = [Owns EXCEPT ![i] = FALSE]
      BY <3>1, <3>2, OneChanged
    <3>4. SetIterOK'
      BY <1>1, <3>3, IterDropped
    <3>. QED  BY <2>1, <3>3, <3>4
  <2>2. CASE i = 3
    <3>1. Len(set) = 3 /\ set \in Seq(OKSets)
      BY <1>2, <2>2 DEF SetsOK
    <3>2. set' = SubSeq(set, 1, 2)
      BY <1>1, <2>2
    <3>3. set' \in Seq(OKSets) /\ Len(set') = 2 /\ set'[1] = set[1] /\ set'[2] = set[2]
      BY <3>1, <3>2
    <3>4. SetsOK'
      BY <3>3 DEF SetsOK
    <3>5. SetIterOK'
      BY <1>1, <2>2, <3>3, IterKept DEF S!DropIter
    <3>6. DOMAIN set' = 1 .. 2
      BY <3>3
    <3>7. Contents = <<Contents[1], Contents[2], Contents[3]>>
      BY <1>2, <3>1 DEF Contents
    <3>8. Owns = <<Owns[1], Owns[2], Owns[3]>>
      BY <1>2, <3>1 DEF Owns
    <3>9. Contents' = <<Contents[1], Contents[2]>>
      <4>1. Contents' = [j \in DOMAIN set' |-> S!Members(set'[j])]
        BY DEF Contents
      <4>2. Contents[1] = S!Members(set[1]) /\ Contents[2] = S!Members(set[2])
        BY SetsFacts
      <4>. QED  BY <3>3, <3>6, <4>1, <4>2
    <3>10. Owns' = <<Owns[1], Owns[2]>>
      <4>1. Owns' = [j \in DOMAIN set' |-> set'[j].free_func]
        BY DEF Owns
      <4>2. Owns[1] = set[1].free_func /\ Owns[2] = set[2].free_func
        BY SetsFacts
      <4>. QED  BY <3>3, <3>6, <4>1, <4>2
    <3>11. SubSeq(Contents, 1, 2) = <<Contents[1], Contents[2]>>
      <4> DEFINE x == Contents[1]  y == Contents[2]  z == Contents[3]
      <4> HIDE DEF x, y, z
      <4>1. SubSeq(<<x, y, z>>, 1, 2) = <<x, y>>
        BY FirstTwo
      <4>2. Contents = <<x, y, z>>
        BY <3>7 DEF x, y, z
      <4>. QED  BY <4>1, <4>2 DEF x, y
    <3>12. SubSeq(Owns, 1, 2) = <<Owns[1], Owns[2]>>
      <4> DEFINE x == Owns[1]  y == Owns[2]  z == Owns[3]
      <4> HIDE DEF x, y, z
      <4>1. SubSeq(<<x, y, z>>, 1, 2) = <<x, y>>
        BY FirstTwo
      <4>2. Owns = <<x, y, z>>
        BY <3>8 DEF x, y, z
      <4>. QED  BY <4>1, <4>2 DEF x, y
    <3>. QED  BY <2>2, <3>4, <3>5, <3>9, <3>10, <3>11, <3>12
  <2>. QED  BY <2>1, <2>2
<1>5. S!Sets!Free(i)
  BY <1>1, <1>3, <1>4 DEF S!Sets!Free, S!Sets!Freed, S!Sets!Nothing, Contents, Owns
<1>6. S!Sets!Next
  BY <1>2, <1>5 DEF S!Sets!Next, Contents
<1>. QED  BY <1>4, <1>6 DEF SetMaps

LEMMA AppendFacts ==
    ASSUME NEW E, NEW s \in Seq(E), NEW e \in E
    PROVE  /\ Append(s, e) \in Seq(E) /\ Len(Append(s, e)) = Len(s) + 1
           /\ \A j \in 1 .. Len(s) : Append(s, e)[j] = s[j]
           /\ Append(s, e)[Len(s) + 1] = e
OBVIOUS

LEMMA AppendTwo ==
    ASSUME NEW x, NEW y, NEW z
    PROVE  Append(<<x, y>>, z) = <<x, y, z>>
<1> DEFINE s == <<x, y>>
           t == Append(s, z)
           E == {x, y, z}
<1>1. s \in Seq(E) /\ z \in E /\ Len(s) = 2 /\ s[1] = x /\ s[2] = y
  OBVIOUS
<1> HIDE DEF s, E
<1>2. /\ t \in Seq(E) /\ Len(t) = Len(s) + 1
      /\ \A j \in 1 .. Len(s) : t[j] = s[j]
      /\ t[Len(s) + 1] = z
  BY <1>1, AppendFacts
<1> HIDE DEF t
<1>3. Len(t) = 3 /\ t[1] = x /\ t[2] = y /\ t[3] = z
  BY <1>1, <1>2
<1>4. t \in Seq(E) /\ Len(t) = 3
  BY <1>2, <1>3
<1>5. t = <<t[1], t[2], t[3]>>
  BY <1>4
<1>. QED  BY <1>3, <1>5 DEF s, t

LEMMA ThreeItems ==
    ASSUME NEW f, f = [j \in 1 .. 3 |-> f[j]], NEW x, NEW y, NEW z, f[1] = x, f[2] = y, f[3] = z
    PROVE  f = <<x, y, z>>
OBVIOUS

\* The set that set_union or set_intersection has filled with the values D of vs.
LEMMA FilledMaps ==
    ASSUME SetsOK, SetIterOK, Len(set) = 2, s_iter' = s_iter, s_todo' = s_todo,
           NEW vs \in Seq(Keys), NEW a, NEW D, NEW f, Fills(vs, a, D, f),
           \/ /\ \E m \in DOMAIN f : m + 1 \notin DOMAIN f /\ set' = Append(set, f[m])
              /\ s_ret' = <<"int", 1>> /\ s_freed' = {}
           \/ /\ \E m \in DOMAIN f : s_freed' = S!FreedOf(f[m], S!Members(f[m]))
              /\ s_ret' = <<"int", 0>> /\ set' = set
    PROVE  /\ SetsOK' /\ SetIterOK'
           /\ \/ /\ Contents' = Append(Contents, {vs[j] : j \in 1 .. Len(vs)} \cap D)
                 /\ Len(Contents) = 2 /\ Owns' = Append(Owns, FALSE)
                 /\ s_ret' = <<"int", 1>> /\ s_freed' = {}
              \/ S!Sets!Fails
<1> DEFINE N == Len(vs)
           X == {vs[j] : j \in 1 .. N} \cap D
<1>1. /\ DOMAIN f = 0 .. N /\ N \in Nat
      /\ \A m \in 0 .. N : SetOK(f[m]) /\ f[m].free_func = FALSE
      /\ S!Members(f[N]) = X
  BY FillsExactly, NewSetOK DEF Becomes
<1> HIDE DEF N, X
<1>2. CASE /\ \E m \in DOMAIN f : s_freed' = S!FreedOf(f[m], S!Members(f[m]))
           /\ s_ret' = <<"int", 0>> /\ set' = set
  <2>1. PICK m \in DOMAIN f : s_freed' = S!FreedOf(f[m], S!Members(f[m]))
    BY <1>2
  <2>2. s_freed' = {} /\ s_ret' = <<"int", 0>> /\ set' = set
    BY <1>1, <1>2, <2>1 DEF S!FreedOf
  <2>3. SetsOK' /\ Contents' = Contents /\ Owns' = Owns
    BY <2>2, NoneChanged
  <2>4. SetIterOK'
    BY <2>2, IterKept
  <2>5. S!Sets!Fails
    BY <2>2, <2>3 DEF S!Sets!Fails, S!Sets!Asks, Contents, Owns
  <2>. QED  BY <2>3, <2>4, <2>5
<1>3. CASE /\ \E m \in DOMAIN f : m + 1 \notin DOMAIN f /\ set' = Append(set, f[m])
           /\ s_ret' = <<"int", 1>> /\ s_freed' = {}
  <2>1. PICK m \in DOMAIN f : m + 1 \notin DOMAIN f /\ set' = Append(set, f[m])
    BY <1>3
  <2>2. m = N
    BY <1>1, <2>1
  <2> DEFINE r == f[N]
  <2>3. /\ set' = Append(set, r) /\ SetOK(r) /\ S!Members(r) = X /\ r.free_func = FALSE
        /\ s_ret' = <<"int", 1>> /\ s_freed' = {}
    BY <1>1, <1>3, <2>1, <2>2
  <2> HIDE DEF r
  <2>4. r \in OKSets /\ set \in Seq(OKSets)
    BY <2>3 DEF OKSets, SetOK, SetsOK
  <2>5. /\ set' \in Seq(OKSets) /\ Len(set') = 3
        /\ set'[1] = set[1] /\ set'[2] = set[2] /\ set'[3] = r
    <3> DEFINE t == Append(set, r)
    <3>1. /\ t \in Seq(OKSets) /\ Len(t) = Len(set) + 1
          /\ \A j \in 1 .. Len(set) : t[j] = set[j]
          /\ t[Len(set) + 1] = r
      BY <2>4, AppendFacts
    <3> HIDE DEF t
    <3>2. set' = t
      BY <2>3 DEF t
    <3>. QED  BY <3>1, <3>2
  <2>6. SetsOK'
    BY <2>5 DEF SetsOK
  <2>7. SetIterOK'
    BY <2>5, IterKept
  <2>8. /\ DOMAIN set = 1 .. 2 /\ DOMAIN Contents = 1 .. 2 /\ DOMAIN Owns = 1 .. 2
        /\ Contents[1] = S!Members(set[1]) /\ Contents[2] = S!Members(set[2])
        /\ Owns[1] = set[1].free_func /\ Owns[2] = set[2].free_func
    BY SetsFacts
  <2>9. DOMAIN set' = 1 .. 3
    BY <2>5
  <2>10. Contents = <<Contents[1], Contents[2]>>
    BY <2>8 DEF Contents
  <2>11. Owns = <<Owns[1], Owns[2]>>
    BY <2>8 DEF Owns
  <2>12. Contents' = <<Contents[1], Contents[2], X>>
    <3>1. Contents' = [j \in 1 .. 3 |-> S!Members(set'[j])]
      BY <2>9 DEF Contents
    <3>2. Contents'[1] = Contents[1] /\ Contents'[2] = Contents[2] /\ Contents'[3] = X
      BY <2>3, <2>5, <2>8, <3>1
    <3>3. Contents' = [j \in 1 .. 3 |-> Contents'[j]]
      BY <3>1
    <3>. QED  BY <3>2, <3>3, ThreeItems
  <2>13. Owns' = <<Owns[1], Owns[2], FALSE>>
    <3>1. Owns' = [j \in 1 .. 3 |-> set'[j].free_func]
      BY <2>9 DEF Owns
    <3>2. Owns'[1] = Owns[1] /\ Owns'[2] = Owns[2] /\ Owns'[3] = FALSE
      BY <2>3, <2>5, <2>8, <3>1
    <3>3. Owns' = [j \in 1 .. 3 |-> Owns'[j]]
      BY <3>1
    <3> DEFINE o == FALSE
    <3> HIDE DEF o
    <3>4. Owns' = <<Owns[1], Owns[2], o>>
      <4>1. Owns'[3] = o
        BY <3>2 DEF o
      <4>. QED  BY <3>2, <3>3, <4>1, ThreeItems
    <3>. QED  BY <3>4 DEF o
  <2>14. Contents' = Append(Contents, X) /\ Len(Contents) = 2
    <3> DEFINE x == Contents[1]  y == Contents[2]
    <3> HIDE DEF x, y
    <3>1. Contents = <<x, y>> /\ Contents' = <<x, y, X>>
      BY <2>10, <2>12 DEF x, y
    <3>. QED  BY <3>1, AppendTwo
  <2>15. Owns' = Append(Owns, FALSE)
    <3> DEFINE x == Owns[1]  y == Owns[2]
    <3> HIDE DEF x, y
    <3>1. Owns = <<x, y>> /\ Owns' = <<x, y, FALSE>>
      BY <2>11, <2>13 DEF x, y
    <3>. QED  BY <3>1, AppendTwo
  <2>. QED  BY <2>3, <2>6, <2>7, <2>14, <2>15 DEF X, N
<1>. QED  BY <1>2, <1>3

LEMMA SetUnionMaps ==
    ASSUME SetsOK, SetIterOK, Len(set) = 2, S!set_union
    PROVE  SetMaps
<1> DEFINE one == S!AllValues(set[1])
           two == S!AllValues(set[2])
           vs == one \o two
           X == {vs[j] : j \in 1 .. Len(vs)} \cap Keys
           f == S!United
<1>1. /\ s_iter' = s_iter /\ s_todo' = s_todo
      /\ \/ /\ \E m \in DOMAIN f : m + 1 \notin DOMAIN f /\ set' = Append(set, f[m])
            /\ s_ret' = <<"int", 1>> /\ s_freed' = {}
         \/ /\ \E m \in DOMAIN f : s_freed' = S!FreedOf(f[m], S!Members(f[m]))
            /\ s_ret' = <<"int", 0>> /\ set' = set
  BY DEF S!set_union, S!Combine, S!CombineFails, S!Returns
<1>2. /\ SetOK(set[1]) /\ SetOK(set[2])
      /\ Contents[1] = S!Members(set[1]) /\ Contents[2] = S!Members(set[2])
  BY SetsFacts
<1>3. /\ one \in Seq(Keys) /\ two \in Seq(Keys)
      /\ \A v : Visits(one, v) <=> v \in Contents[1]
      /\ \A v : Visits(two, v) <=> v \in Contents[2]
  BY <1>2, SetFacts
<1>4. Fills(vs, Len(one), Keys, f)
  BY <1>2, UnitedFills
<1> HIDE DEF one, two, f
<1>5. vs \in Seq(Keys) /\ \A v : Visits(vs, v) <=> Visits(one, v) \/ Visits(two, v)
  BY <1>3, ConcatOnce
<1> HIDE DEF vs
<1>6. X = Contents[1] \cup Contents[2]
  <2>1. \A v : v \in X <=> Visits(vs, v)
    BY <1>5 DEF Visits
  <2>. QED  BY <1>3, <1>5, <2>1
<1>7. /\ SetsOK' /\ SetIterOK'
      /\ \/ /\ Contents' = Append(Contents, X) /\ Len(Contents) = 2 /\ Owns' = Append(Owns, FALSE)
            /\ s_ret' = <<"int", 1>> /\ s_freed' = {}
         \/ S!Sets!Fails
  BY <1>1, <1>4, <1>5, FilledMaps
<1> HIDE DEF X
<1>8. S!Sets!Combine(Contents[1] \cup Contents[2]) \/ S!Sets!Fails
  BY <1>6, <1>7 DEF S!Sets!Combine, Contents, Owns
<1>9. S!Sets!Next
  BY <1>8 DEF S!Sets!Next, Contents
<1>. QED  BY <1>7, <1>9 DEF SetMaps

LEMMA SetIntersectionMaps ==
    ASSUME SetsOK, SetIterOK, Len(set) = 2, S!set_intersection
    PROVE  SetMaps
<1> DEFINE vs == S!AllValues(set[1])
           D == S!Members(set[2])
           X == {vs[j] : j \in 1 .. Len(vs)} \cap D
           f == S!Intersected
<1>1. /\ s_iter' = s_iter /\ s_todo' = s_todo
      /\ \/ /\ \E m \in DOMAIN f : m + 1 \notin DOMAIN f /\ set' = Append(set, f[m])
            /\ s_ret' = <<"int", 1>> /\ s_freed' = {}
         \/ /\ \E m \in DOMAIN f : s_freed' = S!FreedOf(f[m], S!Members(f[m]))
            /\ s_ret' = <<"int", 0>> /\ set' = set
  BY DEF S!set_intersection, S!Combine, S!CombineFails, S!Returns
<1>2. /\ SetOK(set[1]) /\ SetOK(set[2])
      /\ Contents[1] = S!Members(set[1]) /\ Contents[2] = D
  BY SetsFacts
<1>3. vs \in Seq(Keys) /\ \A v : Visits(vs, v) <=> v \in Contents[1]
  BY <1>2, SetFacts
<1>4. Fills(vs, Len(vs), D, f)
  BY <1>2, IntersectedFills
<1> HIDE DEF vs, D, f
<1>5. X = Contents[1] \cap Contents[2]
  <2>1. \A v : v \in X <=> Visits(vs, v) /\ v \in D
    BY <1>3 DEF Visits
  <2>. QED  BY <1>2, <1>3, <2>1
<1>6. /\ SetsOK' /\ SetIterOK'
      /\ \/ /\ Contents' = Append(Contents, X) /\ Len(Contents) = 2 /\ Owns' = Append(Owns, FALSE)
            /\ s_ret' = <<"int", 1>> /\ s_freed' = {}
         \/ S!Sets!Fails
  BY <1>1, <1>3, <1>4, FilledMaps
<1> HIDE DEF X
<1>7. S!Sets!Combine(Contents[1] \cap Contents[2]) \/ S!Sets!Fails
  BY <1>5, <1>6 DEF S!Sets!Combine, Contents, Owns
<1>8. S!Sets!Next
  BY <1>7 DEF S!Sets!Next, Contents
<1>. QED  BY <1>6, <1>8 DEF SetMaps

LEMMA SetRemoveMaps ==
    ASSUME SetsOK, SetIterOK, NEW i \in DOMAIN set, NEW v \in Keys, S!set_remove(i, v)
    PROVE  SetMaps
<1> DEFINE s == set[i]
           r == S!Removed(s, v)
<1>1. /\ i = 1 /\ s_iter # Null => s_iter.next_entry # v
      /\ IF S!In(s, v) THEN /\ set' = [set EXCEPT ![i] = r]
                            /\ s_ret' = <<"int", 1>> /\ s_freed' = S!FreedOf(s, {v})
         ELSE s_ret' = <<"int", 0>> /\ s_freed' = {} /\ set' = set
      /\ s_todo' = IF i = 1 THEN s_todo \ {v} ELSE s_todo
      /\ s_iter' = s_iter
  BY SetsFacts DEF S!set_remove, S!Returns
<1>2. SetOK(s) /\ Contents[i] = S!Members(s) /\ Owns[i] = s.free_func
  BY SetsFacts
<1>3. DOMAIN Contents = DOMAIN set /\ DOMAIN Owns = DOMAIN set
  BY SetsFacts
<1>4. S!In(s, v) <=> v \in Contents[i]
  BY <1>2, SetFacts
<1>5. /\ S!Size(s) \in Nat \ {0} /\ IsTable(Keys, Id, S!Size(s), s.table)
  BY <1>2 DEF SetOK
<1>6. CASE S!In(s, v)
  <2>1. v \in S!Members(s)
    BY <1>2, <1>4, <1>6
  <2> HIDE DEF s
  <2>2. /\ Becomes(s, r, S!Members(s) \ {v})
        /\ TakenOut(s, v, r.table)
    BY <1>2, <2>1, RemovedSet
  <2>3. SetOK(r) /\ S!Members(r) = Contents[i] \ {v} /\ r.free_func = Owns[i]
    BY <1>2, <2>2 DEF Becomes
  <2> HIDE DEF r
  <2>4. /\ SetsOK' /\ set'[i] = r /\ \A j \in DOMAIN set : j # i => set'[j] = set[j]
        /\ Contents' = [Contents EXCEPT ![i] = Contents[i] \ {v}]
        /\ Owns' = [Owns EXCEPT ![i] = Owns[i]]
    BY <1>1, <1>6, <2>3, OneChanged
  <2>5. Owns' = Owns
    BY <1>3, <2>4 DEF Owns
  <2>6. SetIterOK'
    <3>1. CASE i # 1
      <4>1. set'[1] = set[1] /\ s_todo' = s_todo
        BY <1>1, <2>4, <3>1, SetsFacts
      <4>. QED  BY <1>1, <4>1, IterKept
    <3>2. CASE i = 1
      <4> SUFFICES ASSUME s_iter # Null
                   PROVE  Points(Id, s_iter, r.table, s_todo \ {v})
        BY <1>1, <2>4, <3>2 DEF SetIterOK
      <4>1. PICK x \in 0 .. S!Size(s) - 1 : \E j \in 1 .. Len(s.table[x]) :
                s.table[x][j] = v /\ r.table = [s.table EXCEPT ![x] = RemoveAt(@, j)]
        BY <2>2 DEF TakenOut
      <4>2. PICK j \in 1 .. Len(s.table[x]) :
                s.table[x][j] = v /\ r.table = [s.table EXCEPT ![x] = RemoveAt(@, j)]
        BY <4>1
      <4>3. Points(Id, s_iter, s.table, s_todo)
        BY <3>2 DEF SetIterOK, s
      <4> DEFINE n == S!Size(s)
                 t == s.table
                 k == Id[t[x][j]]
      <4>4. k = v /\ s_iter.next_entry # k
        BY <1>1, <3>2, <4>2, IdIs
      <4>5. /\ Id \in [Keys -> Nat] /\ n \in Nat \ {0} /\ IsTable(Keys, Id, n, t)
            /\ x \in 0 .. n - 1 /\ j \in 1 .. Len(t[x])
        BY <1>5, IdType
      <4> HIDE DEF n, t
      <4>6. Points(Id, s_iter, [t EXCEPT ![x] = RemoveAt(@, j)], s_todo \ {k})
        <5>1. Points(Id, s_iter, t, s_todo) /\ s_iter.next_entry # Id[t[x][j]]
          BY <4>3, <4>4 DEF t
        <5>. QED  BY <4>5, <5>1, RemovedPoints
      <4> HIDE DEF k
      <4>. QED  BY <4>2, <4>4, <4>6 DEF t
    <3>. QED  BY <3>1, <3>2
  <2>7. s_freed' = IF Owns[i] THEN Contents[i] \cap {v} ELSE {}
    <3>1. Contents[i] \cap {v} = {v}
      BY <1>4, <1>6
    <3>. QED  BY <1>1, <1>2, <1>6, <3>1 DEF S!FreedOf
  <2>8. s_ret' = <<"int", IF v \in Contents[i] THEN 1 ELSE 0>>
    BY <1>1, <1>4, <1>6
  <2>9. S!Sets!Remove(i, v)
    BY <1>3, <2>4, <2>5, <2>7, <2>8 DEF S!Sets!Remove, S!Sets!Freed, Contents, Owns
  <2>10. S!Sets!Next
    BY <1>3, <2>9 DEF S!Sets!Next, Contents
  <2>. QED  BY <2>4, <2>6, <2>10 DEF SetMaps
<1>7. CASE ~S!In(s, v)
  <2>1. set' = set /\ s_ret' = <<"int", 0>> /\ s_freed' = {}
    BY <1>1, <1>7
  <2>2. SetsOK' /\ Contents' = Contents /\ Owns' = Owns
    BY <2>1, NoneChanged
  <2>3. S!Sets!Fails
    BY <2>1, <2>2 DEF S!Sets!Fails, S!Sets!Asks, Contents, Owns
  <2>4. SetIterOK'
    <3>1. CASE i # 1
      BY <1>1, <2>1, <3>1, IterKept
    <3>2. CASE i = 1
      <4> SUFFICES ASSUME s_iter # Null
                   PROVE  Points(Id, s_iter, s.table, s_todo \ {v})
        BY <1>1, <2>1, <3>2 DEF SetIterOK
      <4> DEFINE n == S!Size(s)
                 t == s.table
      <4>1. Points(Id, s_iter, t, s_todo)
        BY <3>2 DEF SetIterOK
      <4>2. \A e : Stored(t, e) => Id[e] # v
        <5>1. \A e : Stored(t, e) => e \in Keys /\ e # v
          BY <1>2, <1>4, <1>7, SetFacts
        <5>. QED  BY <5>1, IdIs
      <4>3. n \in Nat \ {0} /\ IsTable(Keys, Id, n, t)
        BY <1>5
      <4> HIDE DEF s, n, t
      <4>4. ASSUME NEW c \in DOMAIN t, NEW p \in 1 .. Len(t[c]) PROVE ~Ahead(Id, t, c, p, v)
        <5>1. p \in Nat \ {0} /\ Id \in [Keys -> Nat]
          BY IdType
        <5>. QED  BY <4>2, <4>3, <5>1, AheadIsStored
      <4>5. v \notin s_todo
        BY <4>1, <4>4 DEF Points
      <4>6. s_todo \ {v} = s_todo
        BY <4>5
      <4>. QED  BY <4>1, <4>6 DEF t
    <3>. QED  BY <3>1, <3>2
  <2>. QED  BY <2>2, <2>3, <2>4 DEF SetMaps, S!Sets!Next
<1>. QED  BY <1>6, <1>7

LEMMA SetFirst ==
    ASSUME SetsOK, NEW c \in Nat
    PROVE  IsFirst(Id, S!Size(set[1]), set[1].table, c, S!FirstFrom(c))
<1> DEFINE n == S!Size(set[1])
           t == set[1].table
           later == {i \in c .. n - 1 : t[i] # <<>>}
           i == CHOOSE i \in later : \A j \in later : i <= j
           it == S!FirstFrom(c)
<1>1. SetOK(set[1])
  BY SetsFacts
<1>2. n \in Nat \ {0} /\ IsTable(Keys, Id, n, t)
  BY <1>1 DEF SetOK
<1>3. it = IF later = {} THEN [next_entry |-> Null, next_chain |-> n]
           ELSE [next_entry |-> t[i][1], next_chain |-> i]
  BY DEF S!FirstFrom
<1> HIDE DEF n, t, it
<1>4. ASSUME later = {} PROVE IsFirst(Id, n, t, c, it)
  BY <1>3, <1>4 DEF IsFirst
<1>5. ASSUME later # {} PROVE IsFirst(Id, n, t, c, it)
  <2>1. later \subseteq Nat
    BY <1>2
  <2> HIDE DEF later
  <2>2. \E x \in later : \A y \in later : x <= y
    BY <1>5, <2>1, Least
  <2>3. i \in later
    BY <2>2
  <2> HIDE DEF i
  <2>4. i \in 0 .. n - 1 /\ t[i] # <<>>
    BY <1>2, <2>3 DEF later
  <2>5. t[i] \in Seq(Keys)
    BY <1>2, <2>4 DEF IsTable
  <2>6. t[i][1] \in Keys
    BY <2>4, <2>5
  <2>7. it = [next_entry |-> Id[t[i][1]], next_chain |-> i]
    BY <1>3, <1>5, <2>6, IdIs
  <2>. QED  BY <1>5, <2>7 DEF IsFirst, later, i
<1>. QED  BY <1>4, <1>5 DEF n, t, it

LEMMA SetIterateMaps ==
    ASSUME SetsOK, S!set_iterate
    PROVE  SetMaps
<1> DEFINE n == S!Size(set[1])
           t == set[1].table
           it == S!FirstFrom(0)
<1>1. /\ s_iter' = it /\ s_todo' = S!Members(set[1]) /\ set' = set
      /\ s_ret' = <<"value", Null>> /\ s_freed' = {}
  BY DEF S!set_iterate, S!Returns
<1>2. SetsOK' /\ Contents' = Contents /\ Owns' = Owns
  BY <1>1, NoneChanged
<1>3. SetOK(set[1])
  BY SetsFacts
<1>4. n \in Nat \ {0} /\ IsTable(Keys, Id, n, t) /\ Id \in [Keys -> Nat]
  BY <1>3, IdType DEF SetOK
<1>5. IsFirst(Id, n, t, 0, it)
  BY SetFirst
<1>6. \A v : v \in S!Members(set[1]) <=> Stored(t, v) /\ v \in Keys
  BY <1>3, SetFacts
<1> HIDE DEF n, t, it
<1>7. \A k : k \in S!Members(set[1]) <=> Ahead(Id, t, 0, 1, k)
  <2>1. \A k : Ahead(Id, t, 0, 1, k) <=> \E e : Stored(t, e) /\ Id[e] = k
    BY <1>4, AllAhead
  <2>2. \A e : Stored(t, e) => e \in Keys
    BY <1>4, TableFacts
  <2>. QED  BY <1>6, <2>1, <2>2, IdIs
<1>8. Points(Id, it, t, S!Members(set[1]))
  BY <1>4, <1>5, <1>7, FirstPoints
<1>9. SetIterOK'
  BY <1>1, <1>8 DEF SetIterOK, t
<1>10. s_ret'[1] = "value" /\ s_ret'[2] = Null
  BY <1>1
<1>11. S!Sets!Iterate
  BY <1>1, <1>2, <1>10 DEF S!Sets!Iterate, S!Sets!Asks, Contents, Owns
<1>. QED  BY <1>2, <1>9, <1>11 DEF SetMaps, S!Sets!Next

LEMMA SetIterNextMaps ==
    ASSUME SetsOK, SetIterOK, S!set_iter_next
    PROVE  SetMaps
<1> DEFINE n == S!Size(set[1])
           t == set[1].table
           e == s_iter.next_entry
<1>1. s_iter # Null /\ set' = set /\ s_ret' = <<"value", e>> /\ s_freed' = {}
  BY DEF S!set_iter_next, S!Returns
<1>2. SetsOK' /\ Contents' = Contents /\ Owns' = Owns
  BY <1>1, NoneChanged
<1>3. SetOK(set[1]) /\ Contents[1] = S!Members(set[1])
  BY SetsFacts
<1>4. n \in Nat \ {0} /\ IsTable(Keys, Id, n, t) /\ Id \in [Keys -> Nat]
  BY <1>3, IdType DEF SetOK
<1>5. Points(Id, s_iter, t, s_todo)
  BY <1>1 DEF SetIterOK
<1>6. s_ret'[1] = "value" /\ s_ret'[2] = e
  BY <1>1
<1>7. CASE e = Null
  <2>1. s_iter' = s_iter /\ s_todo' = s_todo
    BY <1>7 DEF S!set_iter_next
  <2>2. SetIterOK'
    BY <1>1, <2>1, IterKept
  <2>3. S!Sets!Iterate
    BY <1>1, <1>2, <1>6, <1>7 DEF S!Sets!Iterate, S!Sets!Asks, Contents, Owns
  <2>. QED  BY <1>2, <2>2, <2>3 DEF SetMaps, S!Sets!Next
<1>8. CASE e # Null
  <2>1. PICK c \in DOMAIN t : \E p \in 1 .. Len(t[c]) :
            /\ s_iter = [next_entry |-> Id[t[c][p]], next_chain |-> c]
            /\ \A k : k \in s_todo <=> Ahead(Id, t, c, p, k)
    BY <1>5, <1>8 DEF Points
  <2>2. PICK p \in 1 .. Len(t[c]) :
            /\ s_iter = [next_entry |-> Id[t[c][p]], next_chain |-> c]
            /\ \A k : k \in s_todo <=> Ahead(Id, t, c, p, k)
    BY <2>1
  <2> DEFINE chain == t[c]
             rest == S!Behind(chain, e)
  <2>3. c \in 0 .. n - 1
    BY <1>4 DEF IsTable
  <2>4. chain \in Seq(Keys) /\ chain[p] \in Keys /\ Once(Id, chain)
    BY <1>4, <2>3 DEF IsTable
  <2>5. e = chain[p] /\ s_iter.next_chain = c
    BY <2>2, <2>4, IdIs
  <2>6. /\ s_todo' = s_todo \ {e}
        /\ s_iter' = IF rest # <<>> THEN [s_iter EXCEPT !.next_entry = rest[1]]
                     ELSE S!FirstFrom(c + 1)
    BY <1>8, <2>5 DEF S!set_iter_next
  <2>7. e \in Contents[1]
    <3>1. Visits(chain, e)
      BY <2>5 DEF Visits
    <3>2. Stored(t, e)
      BY <3>1 DEF Stored
    <3>. QED  BY <1>3, <3>2, SetFacts
  <2>8. S!Sets!Iterate
    BY <1>1, <1>2, <1>6, <2>7 DEF S!Sets!Iterate, S!Sets!Asks, Contents, Owns
  <2> HIDE DEF n, t, e, chain
  <2>9. S!At(chain, e) = p
    <3>1. DOMAIN chain = 1 .. Len(chain)
      BY <2>4
    <3>2. \A j \in DOMAIN chain : chain[j] = e => j = p
      BY <2>4, <2>5, <3>1 DEF Once, chain
    <3>3. p \in DOMAIN chain /\ chain[p] = e
      BY <2>5, <3>1 DEF chain
    <3>. QED  BY <3>2, <3>3 DEF S!At
  <2>10. rest = SubSeq(chain, p + 1, Len(chain))
    BY <2>9 DEF S!Behind
  <2>11. Len(chain) \in Nat /\ p \in 1 .. Len(chain)
    BY <2>4 DEF chain
  <2>12. IsNext(Id, n, t, c, p, s_iter')
    <3>1. CASE p < Len(chain)
      <4>1. p + 1 \in 1 .. Len(chain)
        BY <2>11, <3>1
      <4>2. Len(rest) = Len(chain) - p /\ rest[1] = chain[p + 1]
        BY <2>4, <2>10, <2>11, <3>1, <4>1
      <4>3. rest # <<>>
        BY <2>11, <3>1, <4>2
      <4>4. chain[p + 1] \in Keys
        BY <2>4, <4>1
      <4>5. s_iter' = [next_entry |-> Id[chain[p + 1]], next_chain |-> c]
        <5>1. s_iter' = [s_iter EXCEPT !.next_entry = chain[p + 1]]
          BY <2>6, <4>2, <4>3
        <5>2. s_iter = [next_entry |-> Id[t[c][p]], next_chain |-> c]
          BY <2>2
        <5>3. Id[chain[p + 1]] = chain[p + 1]
          BY <4>4, IdIs
        <5>. QED  BY <5>1, <5>2, <5>3
      <4>. QED  BY <3>1, <4>5 DEF IsNext, chain
    <3>2. CASE ~(p < Len(chain))
      <4>1. rest = <<>>
        BY <2>4, <2>10, <2>11, <3>2
      <4>2. s_iter' = S!FirstFrom(c + 1) /\ c + 1 \in Nat
        BY <1>4, <2>3, <2>6, <4>1
      <4>3. IsFirst(Id, n, t, c + 1, s_iter')
        BY <4>2, SetFirst DEF n, t
      <4>. QED  BY <3>2, <4>3 DEF IsNext, chain
    <3>. QED  BY <3>1, <3>2
  <2>13. s_todo' = s_todo \ {Id[t[c][p]]}
    BY <2>4, <2>5, <2>6, IdIs DEF chain
  <2>14. Points(Id, s_iter', t, s_todo \ {Id[t[c][p]]})
    <3>1. \A k : k \in s_todo <=> Ahead(Id, t, c, p, k)
      BY <2>2
    <3>2. p \in 1 .. Len(t[c])
      OBVIOUS
    <3>. QED  BY <1>4, <2>3, <2>12, <3>1, <3>2, NextPoints
  <2>15. SetIterOK'
    BY <1>1, <2>13, <2>14 DEF SetIterOK, t
  <2>. QED  BY <1>2, <2>8, <2>15 DEF SetMaps, S!Sets!Next
<1>. QED  BY <1>7, <1>8

-----------------------------------------------------------------------------
SetsHold == SetsOK /\ SetIterOK

LEMMA SetsInit == S!Init => SetsHold /\ S!Sets!Init
<1> SUFFICES ASSUME S!Init PROVE SetsHold /\ S!Sets!Init
  OBVIOUS
<1> DEFINE e == S!NewSet
<1>1. SetOK(e) /\ S!Members(e) = {} /\ e.free_func = FALSE
  BY NewSetOK
<1>2. set = <<e, e>> /\ s_ret = <<"value", Null>> /\ s_freed = {} /\ s_iter = Null
  BY DEF S!Init
<1> HIDE DEF e
<1>3. e \in OKSets
  BY <1>1 DEF OKSets, SetOK
<1>4. SetsOK
  BY <1>2, <1>3 DEF SetsOK
<1>5. SetIterOK
  BY <1>2 DEF SetIterOK
<1>6. DOMAIN set = 1 .. 2 /\ set[1] = e /\ set[2] = e
  BY <1>2
<1>7. Contents = <<{}, {}>>
  BY <1>1, <1>6 DEF Contents
<1>8. Owns = <<FALSE, FALSE>>
  <2> DEFINE o == FALSE
  <2>1. set[1].free_func = o /\ set[2].free_func = o
    BY <1>1, <1>6
  <2> HIDE DEF o
  <2>2. Owns = <<o, o>>
    BY <1>6, <2>1 DEF Owns
  <2>. QED  BY <2>2 DEF o
<1>9. S!Sets!Init
  BY <1>2, <1>7, <1>8 DEF S!Sets!Init, S!Sets!Nothing, Contents, Owns
<1>. QED  BY <1>4, <1>5, <1>9 DEF SetsHold

LEMMA SetsStep == SetsHold /\ [S!Next]_sets => SetsHold' /\ [S!Sets!Next]_S!Sets!vars
<1> SUFFICES ASSUME SetsHold, [S!Next]_sets PROVE SetsHold' /\ [S!Sets!Next]_S!Sets!vars
  OBVIOUS
<1>1. SetsOK /\ SetIterOK
  BY DEF SetsHold
<1>2. /\ DOMAIN set = 1 .. Len(set) /\ Len(set) \in 2 .. 3
      /\ 1 \in DOMAIN set /\ 2 \in DOMAIN set
  BY <1>1, SetsFacts DEF SetsOK
<1>3. CASE UNCHANGED sets
  <2>1. set' = set /\ s_ret' = s_ret /\ s_freed' = s_freed /\ s_iter' = s_iter /\ s_todo' = s_todo
    BY <1>3 DEF sets
  <2>2. SetsOK' /\ Contents' = Contents /\ Owns' = Owns
    BY <1>1, <2>1, NoneChanged
  <2>3. SetIterOK'
    BY <1>1, <2>1, IterKept
  <2>4. UNCHANGED S!Sets!vars
    BY <2>1, <2>2 DEF S!Sets!vars, Contents, Owns
  <2>. QED  BY <2>2, <2>3, <2>4 DEF SetsHold
<1>4. CASE S!Next
  <2>1. ASSUME Len(set) = 2, NEW i \in 1 .. 2,
               S!Read(i) \/ S!set_register_free_function(i) \/ S!set_free(i)
        PROVE  SetMaps
    <3>1. i \in DOMAIN set
      BY <1>2
    <3>. QED  BY <1>1, <2>1, <3>1, SetReadMaps, SetRegisterMaps, SetFreeMaps
  <2>2. ASSUME Len(set) = 2, NEW i \in 1 .. 2, NEW v \in Keys,
               S!set_insert(i, v) \/ S!set_insert_fails(i, v) \/ S!set_remove(i, v)
        PROVE  SetMaps
    <3>1. i \in DOMAIN set
      BY <1>2
    <3>. QED  BY <1>1, <2>2, <3>1, SetInsertMaps, SetInsertFailMaps, SetRemoveMaps
  <2>3. ASSUME Len(set) = 2,
               S!set_union \/ S!set_intersection \/ S!set_iterate \/ S!set_iter_next
        PROVE  SetMaps
    BY <1>1, <2>3, SetUnionMaps, SetIntersectionMaps, SetIterateMaps, SetIterNextMaps
  <2>4. ASSUME Len(set) # 2, S!Read(3) \/ S!set_free(3) PROVE SetMaps
    <3>1. 3 \in DOMAIN set
      BY <1>2, <2>4
    <3>. QED  BY <1>1, <2>4, <3>1, SetReadMaps, SetFreeMaps
  <2>5. SetMaps
    BY <1>4, <2>1, <2>2, <2>3, <2>4 DEF S!Next, S!Operands, S!Result
  <2>. QED  BY <2>5 DEF SetMaps, SetsHold
<1>. QED  BY <1>3, <1>4

LEMMA SetsIteration == SetsHold => S!IterationExact
<1> SUFFICES ASSUME SetsHold, s_iter # Null
             PROVE  IF s_todo = {} THEN s_iter.next_entry = Null ELSE s_iter.next_entry \in s_todo
  BY DEF S!IterationExact
<1>1. SetOK(set[1]) /\ Points(Id, s_iter, set[1].table, s_todo)
  BY SetsFacts DEF SetsHold, SetIterOK
<1>2. /\ S!Size(set[1]) \in Nat \ {0} /\ IsTable(Keys, Id, S!Size(set[1]), set[1].table)
      /\ Id \in [Keys -> Nat]
  BY <1>1, IdType DEF SetOK
<1>. QED  BY <1>1, <1>2, PointsExactly

LEMMA SetsNext == [MCNext]_all => [S!Next]_sets
BY DEF MCNext, sets, all

\* The inductive invariant: every value is in its chain, once, and counted, and
\* the iterator is at the first value of s_todo.
THEOREM AlwaysSetsHold == MCSpec => []SetsHold
<1>1. MCInit => SetsHold
  BY SetsInit DEF MCInit
<1>2. SetsHold /\ [MCNext]_all => SetsHold'
  BY SetsNext, SetsStep
<1>. QED  BY <1>1, <1>2, PTL DEF MCSpec, all

\* An iteration over the table or over a set returns every entry once, also when
\* entries that it has returned are removed, in its own chain or in another.
THEOREM IterationsExact == MCSpec => []KeyedIterationsExact
<1>1. SetsHold /\ HashOK => KeyedIterationsExact
  BY SetsIteration, HashIteration DEF KeyedIterationsExact
<1>. QED  BY <1>1, AlwaysSetsHold, AlwaysHashOK, PTL

\* set.c implements finite sets: collisions, growth, a result that shares the
\* values of its operands, and allocations that fail between two values of a
\* union or an intersection are invisible, and every value is freed by the set
\* that owns it and by no other.
THEOREM SetsAreSets == MCSpec => SetIsSet
<1>1. MCInit => S!Sets!Init
  BY SetsInit DEF MCInit
<1>2. SetsHold /\ [MCNext]_all => [S!Sets!Next]_S!Sets!vars
  BY SetsNext, SetsStep
<1>. QED  BY <1>1, <1>2, AlwaysSetsHold, PTL
          DEF MCSpec, all, SetIsSet, S!ImplementsSet, S!Sets!Spec

=============================================================================
