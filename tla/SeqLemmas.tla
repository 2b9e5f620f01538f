----------------------------- MODULE SeqLemmas -----------------------------
(***************************************************************************)
(* What SequencesExt!InsertAt and RemoveAt return, position by position,   *)
(* and what they and Append do to the set of elements; how long a sequence *)
(* without repetitions is.  The list of the scheduler, the bounded queues  *)
(* and the order of the services are sequences edited with these.          *)
(***************************************************************************)
EXTENDS Integers, FiniteSets, SequencesExt, SequenceTheorems,
        FiniteSetTheorems, TLAPS

(* Inserting e at position k of s shifts the tail by one and nothing else: *)
(* insert_sorted links one node between two neighbours.                    *)
LEMMA InsertAtProperties ==
  ASSUME NEW S, NEW s \in Seq(S), NEW e \in S, NEW k \in 1..(Len(s) + 1)
  PROVE  /\ InsertAt(s, k, e) \in Seq(S)
         /\ Len(InsertAt(s, k, e)) = Len(s) + 1
         /\ \A i \in 1..(Len(s) + 1) :
              InsertAt(s, k, e)[i] = IF i < k THEN s[i]
                                     ELSE IF i = k THEN e ELSE s[i - 1]
<1> DEFINE a == SubSeq(s, 1, k - 1)
           b == SubSeq(s, k, Len(s))
           ae == a \o <<e>>
<1>1. a \in Seq(S) /\ Len(a) = k - 1 /\ \A i \in 1..(k - 1) : a[i] = s[i]
  BY SubSeqProperties, LenProperties
<1>2. b \in Seq(S) /\ Len(b) = Len(s) - k + 1
      /\ \A i \in 1..(Len(s) - k + 1) : b[i] = s[k + i - 1]
  BY SubSeqProperties, LenProperties
<1>3. <<e>> \in Seq(S) /\ Len(<<e>>) = 1 /\ <<e>>[1] = e
  OBVIOUS
<1>4. ae \in Seq(S) /\ Len(ae) = k
      /\ \A i \in 1..k : ae[i] = IF i < k THEN s[i] ELSE e
  BY <1>1, <1>3, ConcatProperties
<1>5. InsertAt(s, k, e) = ae \o b
  BY DEF InsertAt
<1> HIDE DEF a, b, ae
<1>6. /\ ae \o b \in Seq(S)
      /\ Len(ae \o b) = Len(ae) + Len(b)
      /\ \A i \in 1..(Len(ae) + Len(b)) :
           (ae \o b)[i] = IF i <= Len(ae) THEN ae[i] ELSE b[i - Len(ae)]
  <2>1. ae \in Seq(S) /\ b \in Seq(S)
    BY <1>2, <1>4
  <2>2. QED
    BY <2>1, ConcatProperties
<1>7. QED
  BY <1>2, <1>4, <1>5, <1>6, LenProperties

(* Removing position k closes the gap and changes nothing else:            *)
(* claw_list_del links the two neighbours of the node.                     *)
LEMMA RemoveAtProperties ==
  ASSUME NEW S, NEW s \in Seq(S), NEW k \in 1..Len(s)
  PROVE  /\ RemoveAt(s, k) \in Seq(S)
         /\ Len(RemoveAt(s, k)) = Len(s) - 1
         /\ \A i \in 1..(Len(s) - 1) :
              RemoveAt(s, k)[i] = IF i < k THEN s[i] ELSE s[i + 1]
<1> DEFINE a == SubSeq(s, 1, k - 1)
           b == SubSeq(s, k + 1, Len(s))
<1>1. a \in Seq(S) /\ Len(a) = k - 1 /\ \A i \in 1..(k - 1) : a[i] = s[i]
  BY SubSeqProperties, LenProperties
<1>2. b \in Seq(S) /\ Len(b) = Len(s) - k
      /\ \A i \in 1..(Len(s) - k) : b[i] = s[k + i]
  BY SubSeqProperties, LenProperties
<1>3. RemoveAt(s, k) = a \o b
  BY DEF RemoveAt
<1> HIDE DEF a, b
<1>4. /\ a \o b \in Seq(S)
      /\ Len(a \o b) = Len(a) + Len(b)
      /\ \A i \in 1..(Len(a) + Len(b)) :
           (a \o b)[i] = IF i <= Len(a) THEN a[i] ELSE b[i - Len(a)]
  <2>1. a \in Seq(S) /\ b \in Seq(S)
    BY <1>1, <1>2
  <2>2. QED
    BY <2>1, ConcatProperties
<1>5. Len(s) \in Nat /\ Len(a) + Len(b) = Len(s) - 1
  BY <1>1, <1>2, LenProperties
<1>6. ASSUME NEW i \in 1..(Len(s) - 1)
      PROVE  (a \o b)[i] = IF i < k THEN s[i] ELSE s[i + 1]
  <2>1. (a \o b)[i] = IF i <= Len(a) THEN a[i] ELSE b[i - Len(a)]
    BY <1>4, <1>5
  <2>2. CASE i < k
    <3>1. i \in 1..(k - 1) /\ i <= Len(a)
      BY <1>1, <1>5, <2>2
    <3>2. QED
      BY <1>1, <2>1, <2>2, <3>1
  <2>3. CASE ~(i < k)
    <3>1. i - Len(a) \in 1..(Len(s) - k) /\ ~(i <= Len(a))
      BY <1>1, <1>5, <2>3
    <3>2. k + (i - Len(a)) = i + 1
      BY <1>1, <1>5
    <3>3. QED
      BY <1>2, <2>1, <2>3, <3>1, <3>2
  <2>4. QED
    BY <2>2, <2>3
<1>7. QED
  BY <1>3, <1>4, <1>5, <1>6

(* Linking a node that is not in the list keeps every node linked once and *)
(* adds exactly that node.                                                 *)
LEMMA InsertAtElements ==
  ASSUME NEW S, NEW s \in Seq(S), NEW e \in S, NEW k \in 1..(Len(s) + 1)
  PROVE  /\ ToSet(InsertAt(s, k, e)) = ToSet(s) \cup {e}
         /\ IsInjective(s) /\ e \notin ToSet(s) => IsInjective(InsertAt(s, k, e))
<1> DEFINE t == InsertAt(s, k, e)
<1>1. /\ t \in Seq(S) /\ Len(t) = Len(s) + 1 /\ Len(s) \in Nat
      /\ \A i \in 1..(Len(s) + 1) :
           t[i] = IF i < k THEN s[i] ELSE IF i = k THEN e ELSE s[i - 1]
  BY InsertAtProperties, LenProperties
<1>2. DOMAIN s = 1..Len(s) /\ DOMAIN t = 1..(Len(s) + 1)
  BY <1>1, LenProperties
<1> HIDE DEF t
<1>3. ToSet(t) = ToSet(s) \cup {e}
  <2>1. ASSUME NEW x \in ToSet(t) PROVE x \in ToSet(s) \cup {e}
    BY <1>1, <1>2 DEF ToSet
  <2>2. e \in ToSet(t)
    BY <1>1, <1>2 DEF ToSet
  <2>3. ASSUME NEW j \in 1..Len(s) PROVE s[j] \in ToSet(t)
    <3>1. CASE j < k
      <4>1. j \in 1..(Len(s) + 1) /\ t[j] = s[j]
        BY <1>1, <3>1
      <4>2. QED
        BY <4>1, <1>2 DEF ToSet
    <3>2. CASE j >= k
      <4>1. (j + 1) \in 1..(Len(s) + 1) /\ t[j + 1] = s[j]
        BY <1>1, <3>2
      <4>2. QED
        BY <4>1, <1>2 DEF ToSet
    <3>3. QED
      BY <3>1, <3>2
  <2>4. QED
    BY <2>1, <2>2, <2>3, <1>2 DEF ToSet
<1>4. ASSUME IsInjective(s), e \notin ToSet(s) PROVE IsInjective(t)
  <2>1. \A a, b \in 1..Len(s) : s[a] = s[b] => a = b
    BY <1>2, <1>4 DEF IsInjective
  <2>2. \A a \in 1..Len(s) : s[a] # e
    BY <1>2, <1>4 DEF ToSet
  <2>3. SUFFICES ASSUME NEW a \in 1..(Len(s) + 1), NEW b \in 1..(Len(s) + 1),
                        t[a] = t[b]
                 PROVE  a = b
    BY <1>2 DEF IsInjective
  <2> DEFINE pa == IF a < k THEN a ELSE a - 1
             pb == IF b < k THEN b ELSE b - 1
  <2>4. /\ a # k => pa \in 1..Len(s) /\ t[a] = s[pa]
        /\ b # k => pb \in 1..Len(s) /\ t[b] = s[pb]
        /\ a = k => t[a] = e
        /\ b = k => t[b] = e
    BY <1>1
  <2>5. CASE a # k /\ b # k
    <3>1. pa = pb
      BY <2>1, <2>3, <2>4, <2>5
    <3>2. QED
      BY <3>1, <2>5, <1>1
  <2>6. CASE a = k \/ b = k
    BY <2>2, <2>3, <2>4, <2>6
  <2>7. QED
    BY <2>5, <2>6
<1>5. QED
  BY <1>3, <1>4 DEF t

(* Unlinking a node takes exactly that node out of a list in which every   *)
(* node is linked once.                                                    *)
LEMMA RemoveAtElements ==
  ASSUME NEW S, NEW s \in Seq(S), NEW k \in 1..Len(s), IsInjective(s)
  PROVE  /\ ToSet(RemoveAt(s, k)) = ToSet(s) \ {s[k]}
         /\ IsInjective(RemoveAt(s, k))
<1> DEFINE t == RemoveAt(s, k)
<1>1. /\ t \in Seq(S) /\ Len(t) = Len(s) - 1 /\ Len(s) \in Nat
      /\ \A i \in 1..(Len(s) - 1) : t[i] = IF i < k THEN s[i] ELSE s[i + 1]
  BY RemoveAtProperties, LenProperties
<1>2. DOMAIN s = 1..Len(s) /\ DOMAIN t = 1..(Len(s) - 1)
  BY <1>1, LenProperties
<1> HIDE DEF t
<1>3. \A a, b \in 1..Len(s) : s[a] = s[b] => a = b
  BY <1>2 DEF IsInjective
<1>4. \A i \in 1..(Len(s) - 1) :
        \E a \in 1..Len(s) : /\ a # k /\ t[i] = s[a]
                             /\ a = IF i < k THEN i ELSE i + 1
  BY <1>1
<1>5. ToSet(t) = ToSet(s) \ {s[k]}
  <2>1. ASSUME NEW i \in 1..(Len(s) - 1) PROVE t[i] \in ToSet(s) \ {s[k]}
    <3>1. PICK a \in 1..Len(s) : a # k /\ t[i] = s[a]
      BY <1>4
    <3>2. s[a] # s[k]
      BY <1>3, <3>1
    <3>3. QED
      BY <3>1, <3>2, <1>2 DEF ToSet
  <2>2. ASSUME NEW j \in 1..Len(s), j # k PROVE s[j] \in ToSet(t)
    <3>1. CASE j < k
      <4>1. j \in 1..(Len(s) - 1) /\ t[j] = s[j]
        BY <1>1, <3>1
      <4>2. QED
        BY <4>1, <1>2 DEF ToSet
    <3>2. CASE j > k
      <4>1. (j - 1) \in 1..(Len(s) - 1) /\ t[j - 1] = s[j]
        BY <1>1, <3>2
      <4>2. QED
        BY <4>1, <1>2 DEF ToSet
    <3>3. QED
      BY <2>2, <3>1, <3>2
  <2>3. QED
    BY <2>1, <2>2, <1>2 DEF ToSet
<1>6. IsInjective(t)
  <2>1. SUFFICES ASSUME NEW i \in 1..(Len(s) - 1), NEW j \in 1..(Len(s) - 1),
                        t[i] = t[j]
                 PROVE  i = j
    BY <1>2 DEF IsInjective
  <2>2. PICK a \in 1..Len(s) :
          a # k /\ t[i] = s[a] /\ a = IF i < k THEN i ELSE i + 1
    BY <1>4
  <2>3. PICK b \in 1..Len(s) :
          b # k /\ t[j] = s[b] /\ b = IF j < k THEN j ELSE j + 1
    BY <1>4
  <2>4. a = b
    BY <1>3, <2>1, <2>2, <2>3
  <2>5. QED
    BY <2>2, <2>3, <2>4, <1>1
<1>7. QED
  BY <1>5, <1>6 DEF t

(* s does not descend when its elements are weighed by f.                  *)
Ascending(s, f) == \A i, j \in 1..Len(s) : i < j => f[s[i]] <= f[s[j]]

(* Inserting where everything before is at most as heavy, and the next one *)
(* heavier, keeps the order.                                               *)
LEMMA InsertAscending ==
  ASSUME NEW S, NEW s \in Seq(S), NEW e \in S, NEW k \in 1..(Len(s) + 1),
         NEW f \in [S -> Int], Ascending(s, f),
         \A i \in 1..(k - 1) : f[s[i]] <= f[e],
         k <= Len(s) => f[e] <= f[s[k]]
  PROVE  Ascending(InsertAt(s, k, e), f)
<1> DEFINE t == InsertAt(s, k, e)
<1>1. /\ t \in Seq(S) /\ Len(t) = Len(s) + 1 /\ Len(s) \in Nat
      /\ \A i \in 1..(Len(s) + 1) :
           t[i] = IF i < k THEN s[i] ELSE IF i = k THEN e ELSE s[i - 1]
  BY InsertAtProperties, LenProperties
<1> HIDE DEF t
<1>2. \A i \in 1..Len(s) : s[i] \in S /\ f[s[i]] \in Int
  BY LenProperties
<1>3. ASSUME NEW i \in 1..Len(s), i >= k PROVE f[e] <= f[s[i]]
  <2>1. k \in 1..Len(s) /\ f[e] <= f[s[k]]
    BY <1>1, <1>3
  <2>2. i = k \/ f[s[k]] <= f[s[i]]
    BY <1>1, <1>3, <2>1 DEF Ascending
  <2>3. f[e] \in Int /\ f[s[k]] \in Int /\ f[s[i]] \in Int
    BY <1>2, <2>1
  <2>4. QED
    BY <2>1, <2>2, <2>3
<1>4. ASSUME NEW i \in 1..Len(t), NEW j \in 1..Len(t), i < j
      PROVE  f[t[i]] <= f[t[j]]
  <2>1. CASE j < k
    <3>1. /\ t[i] = s[i] /\ t[j] = s[j]
          /\ i \in 1..Len(s) /\ j \in 1..Len(s)
      BY <1>1, <1>4, <2>1
    <3>2. QED
      BY <1>4, <3>1 DEF Ascending
  <2>2. CASE j = k
    <3>1. t[i] = s[i] /\ t[j] = e /\ i \in 1..(k - 1)
      BY <1>1, <1>4, <2>2
    <3>2. QED
      BY <3>1
  <2>3. CASE j > k
    <3>1. t[j] = s[j - 1] /\ j - 1 \in 1..Len(s) /\ j - 1 >= k
      BY <1>1, <2>3
    <3>2. PICK m \in 1..Len(s) : m = j - 1 /\ t[j] = s[m] /\ m >= k
      BY <3>1
    <3>3. CASE i < k
      <4>1. t[i] = s[i] /\ i \in 1..Len(s) /\ i < m
        BY <1>1, <1>4, <3>2, <3>3
      <4>2. QED
        BY <3>2, <4>1 DEF Ascending
    <3>4. CASE i = k
      BY <1>1, <1>3, <3>2, <3>4
    <3>5. CASE i > k
      <4>1. t[i] = s[i - 1] /\ i - 1 \in 1..Len(s)
        BY <1>1, <3>5
      <4>2. PICK l \in 1..Len(s) : l = i - 1 /\ t[i] = s[l]
        BY <4>1
      <4>3. l < m
        BY <1>4, <3>2, <4>2
      <4>4. QED
        BY <3>2, <4>2, <4>3 DEF Ascending
    <3>6. QED
      BY <3>3, <3>4, <3>5
  <2>4. QED
    BY <1>1, <2>1, <2>2, <2>3
<1>5. QED
  BY <1>4 DEF Ascending, t

(* Removing an element keeps the order.                                    *)
LEMMA RemoveAscending ==
  ASSUME NEW S, NEW s \in Seq(S), NEW k \in 1..Len(s), NEW f, Ascending(s, f)
  PROVE  Ascending(RemoveAt(s, k), f)
<1> DEFINE t == RemoveAt(s, k)
<1>1. /\ Len(t) = Len(s) - 1 /\ Len(s) \in Nat
      /\ \A i \in 1..(Len(s) - 1) : t[i] = IF i < k THEN s[i] ELSE s[i + 1]
  BY RemoveAtProperties, LenProperties
<1> HIDE DEF t
<1>2. ASSUME NEW i \in 1..Len(t), NEW j \in 1..Len(t), i < j
      PROVE  f[t[i]] <= f[t[j]]
  <2>1. PICK l \in 1..Len(s) : t[i] = s[l] /\ l = IF i < k THEN i ELSE i + 1
    BY <1>1
  <2>2. PICK m \in 1..Len(s) : t[j] = s[m] /\ m = IF j < k THEN j ELSE j + 1
    BY <1>1
  <2>3. l < m
    BY <1>2, <2>1, <2>2
  <2>4. QED
    BY <2>1, <2>2, <2>3 DEF Ascending
<1>3. QED
  BY <1>2 DEF Ascending, t

(* Appending adds exactly the new element.                                 *)
LEMMA AppendElements ==
  ASSUME NEW S, NEW s \in Seq(S), NEW e \in S
  PROVE  /\ ToSet(Append(s, e)) = ToSet(s) \cup {e}
         /\ IsInjective(s) /\ e \notin ToSet(s) => IsInjective(Append(s, e))
<1> DEFINE t == Append(s, e)
<1>1. /\ t \in Seq(S) /\ Len(t) = Len(s) + 1 /\ Len(s) \in Nat
      /\ \A i \in 1..Len(s) : t[i] = s[i]
      /\ t[Len(s) + 1] = e
  BY AppendProperties, LenProperties
<1>2. DOMAIN s = 1..Len(s) /\ DOMAIN t = 1..(Len(s) + 1)
  BY <1>1, LenProperties
<1> HIDE DEF t
<1>3. ToSet(t) = ToSet(s) \cup {e}
  <2>1. ASSUME NEW i \in 1..(Len(s) + 1) PROVE t[i] \in ToSet(s) \cup {e}
    <3>1. CASE i = Len(s) + 1
      BY <1>1, <3>1
    <3>2. CASE i # Len(s) + 1
      <4>1. i \in 1..Len(s)
        BY <1>1, <3>2
      <4>2. QED
        BY <1>1, <1>2, <4>1 DEF ToSet
    <3>3. QED
      BY <3>1, <3>2
  <2>2. ASSUME NEW i \in 1..Len(s) PROVE s[i] \in ToSet(t)
    <3>1. i \in 1..(Len(s) + 1) /\ t[i] = s[i]
      BY <1>1
    <3>2. QED
      BY <1>2, <3>1 DEF ToSet
  <2>3. e \in ToSet(t)
    <3>1. Len(s) + 1 \in 1..(Len(s) + 1)
      BY <1>1
    <3>2. QED
      BY <1>1, <1>2, <3>1 DEF ToSet
  <2>4. QED
    BY <1>2, <2>1, <2>2, <2>3 DEF ToSet
<1>4. ASSUME IsInjective(s), e \notin ToSet(s) PROVE IsInjective(t)
  <2>1. \A i, j \in 1..Len(s) : s[i] = s[j] => i = j
    BY <1>2, <1>4 DEF IsInjective
  <2>2. \A i \in 1..Len(s) : s[i] # e
    BY <1>2, <1>4 DEF ToSet
  <2>3. \A i, j \in 1..(Len(s) + 1) : t[i] = t[j] => i = j
    BY <1>1, <2>1, <2>2
  <2>4. QED
    BY <1>2, <2>3 DEF IsInjective
<1>5. QED
  BY <1>3, <1>4 DEF t

(* A sequence without repetitions has as many elements as it is long.      *)
LEMMA InjectiveCardinality ==
  ASSUME NEW S, NEW s \in Seq(S), IsInjective(s)
  PROVE  IsFiniteSet(ToSet(s)) /\ Cardinality(ToSet(s)) = Len(s)
<1>1. /\ Len(s) \in Nat /\ s \in [1..Len(s) -> S] /\ DOMAIN s = 1..Len(s)
  BY LenProperties
<1>2. s \in [1..Len(s) -> ToSet(s)]
  BY <1>1 DEF ToSet
<1>3. s \in Bijection(1..Len(s), ToSet(s))
  BY <1>1, <1>2 DEF Bijection, Injection, Surjection, IsInjective, ToSet
<1>4. ExistsBijection(1..Len(s), ToSet(s))
  BY <1>3 DEF ExistsBijection
<1>5. QED
  BY <1>1, <1>4, FS_NatBijection, FS_CountingElements

(* A sequence without repetitions is no longer than one that has all its   *)
(* elements, and as long only if the elements are the same.                *)
LEMMA InjectiveSubset ==
  ASSUME NEW S, NEW s \in Seq(S), NEW t \in Seq(S),
         IsInjective(s), IsInjective(t), ToSet(s) \subseteq ToSet(t)
  PROVE  /\ Len(s) \in Nat /\ Len(t) \in Nat /\ Len(s) <= Len(t)
         /\ Len(s) = Len(t) <=> ToSet(s) = ToSet(t)
<1>1. /\ IsFiniteSet(ToSet(s)) /\ Cardinality(ToSet(s)) = Len(s)
      /\ IsFiniteSet(ToSet(t)) /\ Cardinality(ToSet(t)) = Len(t)
  BY InjectiveCardinality
<1>2. Len(s) \in Nat /\ Len(t) \in Nat
  BY LenProperties
<1>3. /\ Cardinality(ToSet(s)) <= Cardinality(ToSet(t))
      /\ Cardinality(ToSet(t)) = Cardinality(ToSet(s)) => ToSet(t) = ToSet(s)
  BY <1>1, FS_Subset
<1>4. QED
  BY <1>1, <1>2, <1>3

(* Cutting a sequence without repetitions in two shares its elements out.  *)
LEMMA SplitElements ==
  ASSUME NEW S, NEW s \in Seq(S), IsInjective(s), NEW n \in 0..Len(s)
  PROVE  /\ ToSet(SubSeq(s, 1, n)) \cup ToSet(SubSeq(s, n + 1, Len(s))) = ToSet(s)
         /\ ToSet(SubSeq(s, 1, n)) \cap ToSet(SubSeq(s, n + 1, Len(s))) = {}
<1> DEFINE a == SubSeq(s, 1, n)
           b == SubSeq(s, n + 1, Len(s))
<1>1. Len(s) \in Nat /\ DOMAIN s = 1..Len(s)
  BY LenProperties
<1>2. a \in Seq(S) /\ Len(a) = n /\ \A i \in 1..n : a[i] = s[i]
  <2>1. /\ 1 \in 1..(Len(s) + 1) /\ n \in 0..Len(s)
        /\ n - 1 + 1 = n /\ \A i \in 1..n : 1 + i - 1 = i
    BY <1>1
  <2>2. QED
    BY <1>1, <2>1, SubSeqProperties
<1>3. b \in Seq(S) /\ Len(b) = Len(s) - n
      /\ \A i \in 1..(Len(s) - n) : b[i] = s[n + i]
  <2>1. PICK k \in 1..(Len(s) + 1) : k = n + 1
    BY <1>1
  <2>2. SubSeq(s, k, Len(s)) \in Seq(S) /\ Len(SubSeq(s, k, Len(s))) = Len(s) - k + 1
        /\ \A i \in 1..(Len(s) - k + 1) : SubSeq(s, k, Len(s))[i] = s[k + i - 1]
    BY <1>1, SubSeqProperties
  <2>3. b = SubSeq(s, k, Len(s))
    BY <2>1
  <2> HIDE DEF b
  <2>4. Len(s) - k + 1 = Len(s) - n
    BY <1>1, <2>1
  <2>5. ASSUME NEW i \in 1..(Len(s) - n) PROVE b[i] = s[n + i]
    <3>1. b[i] = s[k + i - 1]
      BY <2>2, <2>3, <2>4
    <3>2. k + i - 1 = n + i
      BY <1>1, <2>1
    <3>3. QED
      BY <3>1, <3>2
  <2>6. QED
    BY <2>2, <2>3, <2>4, <2>5
<1>4. DOMAIN a = 1..n /\ DOMAIN b = 1..(Len(s) - n)
  BY <1>2, <1>3, LenProperties
<1> HIDE DEF a, b
<1>5. ToSet(a) = {s[i] : i \in 1..n}
  BY <1>2, <1>4 DEF ToSet
<1>6. ToSet(b) = {s[i] : i \in (n + 1)..Len(s)}
  <2>1. ASSUME NEW i \in 1..(Len(s) - n) PROVE b[i] \in {s[j] : j \in (n + 1)..Len(s)}
    <3>1. n + i \in (n + 1)..Len(s) /\ b[i] = s[n + i]
      BY <1>1, <1>3
    <3>2. QED
      BY <3>1
  <2>2. ASSUME NEW j \in (n + 1)..Len(s) PROVE s[j] \in ToSet(b)
    <3>1. j - n \in 1..(Len(s) - n) /\ b[j - n] = s[j]
      BY <1>1, <1>3
    <3>2. QED
      BY <1>4, <3>1 DEF ToSet
  <2>3. QED
    BY <1>4, <2>1, <2>2 DEF ToSet
<1>7. \A i, j \in 1..Len(s) : s[i] = s[j] => i = j
  BY <1>1 DEF IsInjective
<1>8. ToSet(a) \cup ToSet(b) = ToSet(s)
  <2>1. ToSet(s) = {s[i] : i \in 1..Len(s)}
    BY <1>1 DEF ToSet
  <2>2. 1..Len(s) = (1..n) \cup ((n + 1)..Len(s))
    BY <1>1
  <2>3. QED
    BY <1>5, <1>6, <2>1, <2>2
<1>9. ToSet(a) \cap ToSet(b) = {}
  BY <1>1, <1>5, <1>6, <1>7
<1>10. QED
  BY <1>8, <1>9 DEF a, b

(* Every set of numbers has a least one.  Stated with sets, so that it can *)
(* take the place of an induction over numbers: the intervals 0..k with k  *)
(* in B are finite, so one of them contains no other.                      *)
LEMMA LeastElement ==
  ASSUME NEW B, B \subseteq Nat, B # {}
  PROVE  \E m \in B : \A k \in B : m <= k
<1>1. PICK b \in B : b \in Nat
  OBVIOUS
<1> DEFINE S == 0..b
           T == {0..k : k \in {j \in B : j <= b}}
<1>2. IsFiniteSet(S)
  BY <1>1, FS_Interval
<1>3. IsWellFoundedOn(StrictSubsetOrdering(S), SUBSET S)
  BY <1>2, FS_StrictSubsetOrderingWellFounded, FS_FiniteSubsetsOfFinite
<1>4. T \subseteq SUBSET S
  BY <1>1
<1>5. 0..b \in T
  BY <1>1
<1> HIDE DEF S, T
<1>6. PICK x \in T : \A y \in T : ~(<<y, x>> \in StrictSubsetOrdering(S))
  BY <1>3, <1>4, <1>5, WFMin
<1>7. PICK m \in B : m <= b /\ x = 0..m
  BY <1>6 DEF T
<1>8. ASSUME NEW k \in B, k < m PROVE FALSE
  <2>1. k \in Nat /\ m \in Nat
    OBVIOUS
  <2>2. 0..k \in T
    BY <1>1, <1>7, <1>8, <2>1 DEF T
  <2>3. 0..k \subseteq 0..m /\ m \in 0..m /\ m \notin 0..k
    BY <1>8, <2>1
  <2>4. 0..k \in SUBSET S /\ 0..m \in SUBSET S
    BY <1>4, <1>7, <2>2
  <2>5. <<0..k, x>> \in StrictSubsetOrdering(S)
    BY <1>7, <2>3, <2>4 DEF StrictSubsetOrdering
  <2>6. QED
    BY <1>6, <2>2, <2>5
<1>9. QED
  BY <1>8

(* How often an element is in a sequence.                                  *)
Occurrences(s, c) == Cardinality({i \in DOMAIN s : s[i] = c})

LEMMA OccurrencesType ==
  ASSUME NEW S, NEW s \in Seq(S), NEW c
  PROVE  IsFiniteSet({i \in DOMAIN s : s[i] = c}) /\ Occurrences(s, c) \in Nat
<1> DEFINE P == {i \in DOMAIN s : s[i] = c}
<1>1. IsFiniteSet(1..Len(s)) /\ P \subseteq 1..Len(s)
  <2>1. Len(s) \in Nat /\ DOMAIN s = 1..Len(s)
    BY LenProperties
  <2>2. QED
    BY <2>1, FS_Interval
<1>2. QED
  BY <1>1, FS_Subset, FS_CardinalityType DEF Occurrences

(* Appending counts the new one.                                           *)
LEMMA AppendOccurrences ==
  ASSUME NEW S, NEW s \in Seq(S), NEW e \in S, NEW c
  PROVE  Occurrences(Append(s, e), c) = Occurrences(s, c) + (IF e = c THEN 1 ELSE 0)
<1>1. PICK t : t = Append(s, e)
  OBVIOUS
<1> DEFINE P == {i \in DOMAIN s : s[i] = c}
           Q == {i \in DOMAIN t : t[i] = c}
<1>2. /\ Len(s) \in Nat /\ DOMAIN s = 1..Len(s) /\ DOMAIN t = 1..(Len(s) + 1)
      /\ \A i \in 1..Len(s) : t[i] = s[i]
      /\ t[Len(s) + 1] = e
  BY <1>1, AppendProperties, LenProperties
<1>3. IsFiniteSet(P) /\ Cardinality(P) \in Nat
  BY OccurrencesType DEF Occurrences
<1>4. ASSUME e = c PROVE Cardinality(Q) = Cardinality(P) + 1
  <2>1. Q = P \cup {Len(s) + 1} /\ Len(s) + 1 \notin P
    BY <1>2, <1>4
  <2> HIDE DEF P, Q
  <2>2. QED
    BY <1>3, <2>1, FS_AddElement
<1>5. ASSUME e # c PROVE Cardinality(Q) = Cardinality(P)
  <2>1. Q = P
    BY <1>2, <1>5
  <2> HIDE DEF P, Q
  <2>2. QED
    BY <2>1
<1> HIDE DEF P, Q
<1>6. Cardinality(Q) = Cardinality(P) + (IF e = c THEN 1 ELSE 0)
  BY <1>3, <1>4, <1>5
<1>7. Occurrences(t, c) = Occurrences(s, c) + (IF e = c THEN 1 ELSE 0)
  BY <1>6, Zenon DEF P, Q, Occurrences
<1>8. QED
  BY <1>1, <1>7, Zenon

(* Taking the first element off counts one of it less.                     *)
LEMMA TailOccurrences ==
  ASSUME NEW S, NEW s \in Seq(S), s # <<>>, NEW t, t = Tail(s), NEW c
  PROVE  Occurrences(s, c) = Occurrences(t, c) + (IF Head(s) = c THEN 1 ELSE 0)
<1> DEFINE P == {i \in DOMAIN s : s[i] = c}
           R == P \ {1}
           Q == {i \in DOMAIN t : t[i] = c}
           f == [i \in R |-> i - 1]
<1>1. /\ Len(s) \in Nat /\ Len(s) >= 1 /\ DOMAIN s = 1..Len(s)
      /\ DOMAIN t = 1..(Len(s) - 1) /\ Head(s) = s[1]
      /\ \A i \in 1..(Len(s) - 1) : t[i] = s[i + 1]
  BY HeadTailProperties, LenProperties, EmptySeq
<1>2. IsFiniteSet(P) /\ Cardinality(P) \in Nat
  BY OccurrencesType DEF Occurrences
<1>3. IsFiniteSet(R) /\ Cardinality(R) = Cardinality(P) - (IF s[1] = c THEN 1 ELSE 0)
  <2>1. 1 \in P <=> s[1] = c
    BY <1>1
  <2> HIDE DEF P
  <2>2. QED
    BY <1>2, <2>1, FS_RemoveElement
<1>4. \A i \in R : i \in 2..Len(s) /\ s[i] = c
  BY <1>1
<1>5. f \in Bijection(R, Q)
  <2>1. f \in [R -> Q]
    BY <1>1, <1>4
  <2>2. \A i, j \in R : f[i] = f[j] => i = j
    BY <1>4
  <2>3. ASSUME NEW k \in Q PROVE \E i \in R : f[i] = k
    <3>1. k \in 1..(Len(s) - 1) /\ s[k + 1] = c
      BY <1>1
    <3>2. k + 1 \in 1..Len(s) /\ k + 1 # 1 /\ (k + 1) - 1 = k
      BY <3>1
    <3>3. k + 1 \in P
      BY <3>1, <3>2
    <3>4. k + 1 \in R
      BY <3>2, <3>3
    <3>5. f[k + 1] = k
      BY <3>2, <3>4
    <3>6. QED
      BY <3>4, <3>5
  <2> HIDE DEF f, R, Q
  <2>4. QED
    BY <2>1, <2>2, <2>3 DEF Bijection, Injection, Surjection, IsInjective
<1> HIDE DEF P, Q, R
<1>6. Cardinality(Q) = Cardinality(R)
  <2>1. ExistsBijection(R, Q)
    BY <1>5 DEF ExistsBijection
  <2>2. QED
    BY <1>3, <2>1, FS_Bijection
<1>7. Cardinality(P) = Cardinality(Q) + (IF Head(s) = c THEN 1 ELSE 0)
  BY <1>1, <1>2, <1>3, <1>6
<1>8. QED
  BY <1>7, Zenon DEF P, Q, Occurrences
=============================================================================
