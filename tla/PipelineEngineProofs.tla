------------------------ MODULE PipelineEngineProofs ------------------------
(***************************************************************************)
(* Proofs about PipelineEngine: for every definition of any length the     *)
(* sort accepts exactly the valid graphs, and execution follows the edges. *)
(***************************************************************************)
EXTENDS PipelineEngine, FiniteSetTheorems, FunctionTheorems, SequenceTheorems, TLAPS

(***************************************************************************)
(* Positions and lists                                                     *)
(***************************************************************************)
Injective(s) == \A i, j \in DOMAIN s : s[i] = s[j] => i = j

UpTo(I, i) == {j \in I : j <= i}

\* The number of positions of I up to one of them numbers I from 1.
LEMMA Ranks ==
    ASSUME NEW I \in SUBSET Nat, IsFiniteSet(I)
    PROVE  /\ Cardinality(I) \in Nat
           /\ \A i \in I : Cardinality(UpTo(I, i)) \in 1 .. Cardinality(I)
           /\ \A i, j \in I : Cardinality(UpTo(I, i)) = Cardinality(UpTo(I, j)) => i = j
           /\ \A k \in 1 .. Cardinality(I) : \E i \in I : Cardinality(UpTo(I, i)) = k
<1> DEFINE n == Cardinality(I)
           rank == [i \in I |-> Cardinality(UpTo(I, i))]
<1>1. n \in Nat
  BY FS_CardinalityType
<1>2. ASSUME NEW i \in I
      PROVE  IsFiniteSet(UpTo(I, i)) /\ Cardinality(UpTo(I, i)) \in 1 .. n
  <2>1. UpTo(I, i) \in SUBSET I
    BY DEF UpTo
  <2>2. IsFiniteSet(UpTo(I, i)) /\ Cardinality(UpTo(I, i)) <= n
    BY <2>1, FS_Subset
  <2>3. Cardinality(UpTo(I, i)) \in Nat
    BY <2>2, FS_CardinalityType
  <2>4. i \in UpTo(I, i)
    BY DEF UpTo
  <2>5. Cardinality(UpTo(I, i)) # 0
    BY <2>2, <2>4, FS_EmptySet
  <2>. QED
    BY <1>1, <2>2, <2>3, <2>5
<1>3. ASSUME NEW i \in I, NEW j \in I, i < j
      PROVE  Cardinality(UpTo(I, i)) # Cardinality(UpTo(I, j))
  <2>1. i \in Nat /\ j \in Nat
    OBVIOUS
  <2>2. ASSUME NEW h \in UpTo(I, i)
        PROVE  h \in UpTo(I, j)
    <3>1. h \in I /\ h \in Nat /\ h <= i
      BY DEF UpTo
    <3>. QED
      BY <1>3, <2>1, <3>1 DEF UpTo
  <2>3. j \in UpTo(I, j) /\ j \notin UpTo(I, i)
    BY <1>3, <2>1 DEF UpTo
  <2>4. IsFiniteSet(UpTo(I, j))
    BY <1>2
  <2>. QED
    BY <2>2, <2>3, <2>4, FS_Subset
<1>4. \A i, j \in I : Cardinality(UpTo(I, i)) = Cardinality(UpTo(I, j)) => i = j
  BY <1>3
<1>5. rank \in [I -> 1 .. n]
  BY <1>2
<1>6. rank \in Injection(I, 1 .. n)
  BY <1>4, <1>5, Fun_IsInj
<1>7. IsFiniteSet(1 .. n) /\ Cardinality(1 .. n) = n
  BY <1>1, FS_Interval
<1>8. rank \in Surjection(I, 1 .. n)
  BY <1>6, <1>7, FS_Injection
<1>9. \A k \in 1 .. n : \E i \in I : Cardinality(UpTo(I, i)) = k
  <2>1. \A i \in I : rank[i] = Cardinality(UpTo(I, i))
    OBVIOUS
  <2> HIDE DEF rank, n
  <2>2. \A k \in 1 .. n : \E i \in I : rank[i] = k
    BY <1>8, Fun_SurjectionProperties
  <2>. QED
    BY <2>1, <2>2
<1>. QED
  BY <1>1, <1>2, <1>4, <1>9

\* A non-empty finite set of positions has a first and a last one.
LEMMA FirstAndLast ==
    ASSUME NEW I \in SUBSET Nat, IsFiniteSet(I), I # {}
    PROVE  /\ \E i \in I : \A j \in I : i <= j
           /\ \E i \in I : Cardinality(UpTo(I, i)) = Cardinality(I)
<1>1. Cardinality(I) \in Nat /\ Cardinality(I) # 0
  BY FS_CardinalityType, FS_EmptySet
<1>2. \A k \in 1 .. Cardinality(I) : \E i \in I : Cardinality(UpTo(I, i)) = k
  BY Ranks
<1>3. PICK i \in I : Cardinality(UpTo(I, i)) = 1
  BY <1>1, <1>2, 1 \in 1 .. Cardinality(I)
<1>4. ASSUME NEW j \in I
      PROVE  i <= j
  <2>1. SUFFICES ASSUME j < i PROVE FALSE
    OBVIOUS
  <2>2. j \in UpTo(I, i) /\ i \in UpTo(I, i)
    BY <2>1 DEF UpTo
  <2>3. IsFiniteSet(UpTo(I, i))
    BY FS_Subset DEF UpTo
  <2>4. PICK x : UpTo(I, i) = {x}
    BY <1>3, <2>3, FS_Singleton
  <2>. QED
    BY <2>1, <2>2, <2>4
<1>5. \E i2 \in I : Cardinality(UpTo(I, i2)) = Cardinality(I)
  BY <1>1, <1>2, Cardinality(I) \in 1 .. Cardinality(I)
<1>. QED
  BY <1>4, <1>5

\* InOrder lists the positions of I, each once.
LEMMA InOrderLists ==
    ASSUME NEW I \in SUBSET Nat, IsFiniteSet(I)
    PROVE  /\ Cardinality(I) \in Nat
           /\ DOMAIN InOrder(I) = 1 .. Cardinality(I)
           /\ \A k \in 1 .. Cardinality(I) : InOrder(I)[k] \in I
           /\ \A k, h \in 1 .. Cardinality(I) : InOrder(I)[k] = InOrder(I)[h] => k = h
           /\ \A i \in I : \E k \in 1 .. Cardinality(I) : InOrder(I)[k] = i
<1> DEFINE n == Cardinality(I)
           at == InOrder(I)
<1>1. /\ n \in Nat
      /\ \A i \in I : Cardinality(UpTo(I, i)) \in 1 .. n
      /\ \A i, j \in I : Cardinality(UpTo(I, i)) = Cardinality(UpTo(I, j)) => i = j
      /\ \A k \in 1 .. n : \E i \in I : Cardinality(UpTo(I, i)) = k
  BY Ranks
<1>2. at = [k \in 1 .. n |-> CHOOSE i \in I : Cardinality(UpTo(I, i)) = k]
  BY DEF InOrder, UpTo
<1> HIDE DEF at
<1>3. \A k \in 1 .. n : at[k] \in I /\ Cardinality(UpTo(I, at[k])) = k
  BY <1>1, <1>2
<1>4. \A k, h \in 1 .. n : at[k] = at[h] => k = h
  BY <1>3
<1>5. \A i \in I : \E k \in 1 .. n : at[k] = i
  BY <1>1, <1>3
<1>6. DOMAIN at = 1 .. n
  BY <1>2
<1>. QED
  BY <1>1, <1>3, <1>4, <1>5, <1>6 DEF at

\* The list of the values that g has at the positions I.
LEMMA Listed ==
    ASSUME NEW I \in SUBSET Nat, IsFiniteSet(I), NEW g, NEW S,
           NEW s \in [1 .. Cardinality(I) -> S],
           \A k \in 1 .. Cardinality(I) : s[k] = g[InOrder(I)[k]]
    PROVE  /\ s \in Seq(S)
           /\ Elements(s) = {g[i] : i \in I}
           /\ (\A i, j \in I : g[i] = g[j] => i = j) => Injective(s)
<1> DEFINE n == Cardinality(I)
           at == InOrder(I)
<1>1. n \in Nat
  BY InOrderLists
<1>2. \A k \in 1 .. n : at[k] \in I
  BY InOrderLists
<1>3. \A k, h \in 1 .. n : at[k] = at[h] => k = h
  BY InOrderLists
<1>4. \A i \in I : \E k \in 1 .. n : at[k] = i
  BY InOrderLists
<1>5. \A k \in 1 .. n : s[k] = g[at[k]]
  OBVIOUS
<1> HIDE DEF at
<1>6. s \in Seq(S)
  BY <1>1, SeqDef
<1> HIDE DEF n
<1>7. DOMAIN s = 1 .. n
  BY DEF n
<1>8. ASSUME NEW k \in 1 .. n
      PROVE  s[k] \in {g[i] : i \in I}
  BY <1>2, <1>5
<1>9. ASSUME NEW i \in I
      PROVE  \E k \in 1 .. n : g[i] = s[k]
  BY <1>4, <1>5
<1>10. Elements(s) = {g[i] : i \in I}
  BY <1>7, <1>8, <1>9 DEF Elements
<1>11. ASSUME \A i, j \in I : g[i] = g[j] => i = j
       PROVE  Injective(s)
  <2>1. SUFFICES ASSUME NEW a \in 1 .. n, NEW b \in 1 .. n, s[a] = s[b]
                 PROVE  a = b
    BY <1>7 DEF Injective
  <2>2. g[at[a]] = g[at[b]] /\ at[a] \in I /\ at[b] \in I
    BY <1>2, <1>5, <2>1
  <2>3. at[a] = at[b]
    BY <1>11, <2>2
  <2>. QED
    BY <1>3, <2>3
<1>. QED
  BY <1>6, <1>10, <1>11

\* The elements of the lists the sort builds.
LEMMA Appended ==
    ASSUME NEW S, NEW s \in Seq(S), NEW x \in S
    PROVE  /\ Append(s, x) \in Seq(S)
           /\ DOMAIN Append(s, x) = 1 .. Len(s) + 1
           /\ \A k \in DOMAIN s : Append(s, x)[k] = s[k]
           /\ Append(s, x)[Len(s) + 1] = x
           /\ Elements(Append(s, x)) = Elements(s) \cup {x}
           /\ Injective(s) /\ x \notin Elements(s) => Injective(Append(s, x))
<1> DEFINE t == Append(s, x)
<1>1. Len(s) \in Nat /\ DOMAIN s = 1 .. Len(s)
  BY LenProperties
<1>2. t \in Seq(S) /\ Len(t) = Len(s) + 1
  BY AppendProperties
<1>3. (\A k \in DOMAIN s : t[k] = s[k]) /\ t[Len(s) + 1] = x
  BY <1>1, AppendProperties
<1>4. DOMAIN t = 1 .. Len(s) + 1
  BY <1>2, LenProperties
<1> HIDE DEF t
<1>5. Elements(t) = Elements(s) \cup {x}
  <2>1. ASSUME NEW k \in DOMAIN t
        PROVE  t[k] \in Elements(s) \cup {x}
    <3>1. k \in DOMAIN s \/ k = Len(s) + 1
      BY <1>1, <1>4
    <3>. QED
      BY <1>3, <3>1 DEF Elements
  <2>2. ASSUME NEW k \in DOMAIN s
        PROVE  s[k] \in Elements(t)
    <3>1. k \in DOMAIN t /\ t[k] = s[k]
      BY <1>1, <1>3, <1>4
    <3>. QED
      BY <3>1 DEF Elements
  <2>3. x \in Elements(t)
    <3>1. Len(s) + 1 \in DOMAIN t
      BY <1>1, <1>4
    <3>. QED
      BY <1>3, <3>1 DEF Elements
  <2>. QED
    BY <2>1, <2>2, <2>3 DEF Elements
<1>6. ASSUME Injective(s), x \notin Elements(s)
      PROVE  Injective(t)
  <2>1. SUFFICES ASSUME NEW a \in DOMAIN t, NEW b \in DOMAIN t, t[a] = t[b]
                 PROVE  a = b
    BY DEF Injective
  <2>2. (a \in DOMAIN s \/ a = Len(s) + 1) /\ (b \in DOMAIN s \/ b = Len(s) + 1)
    BY <1>1, <1>4
  <2>3. CASE a \in DOMAIN s /\ b \in DOMAIN s
    BY <1>3, <1>6, <2>1, <2>3 DEF Injective
  <2>4. CASE a \in DOMAIN s /\ b = Len(s) + 1
    BY <1>3, <1>6, <2>1, <2>4 DEF Elements
  <2>5. CASE a = Len(s) + 1 /\ b \in DOMAIN s
    BY <1>3, <1>6, <2>1, <2>5 DEF Elements
  <2>. QED
    BY <2>2, <2>3, <2>4, <2>5
<1>. QED
  BY <1>2, <1>3, <1>4, <1>5, <1>6 DEF t

LEMMA WithoutHead ==
    ASSUME NEW S, NEW s \in Seq(S), s # <<>>, Injective(s)
    PROVE  /\ Tail(s) \in Seq(S) /\ Injective(Tail(s))
           /\ Elements(Tail(s)) = Elements(s) \ {Head(s)}
<1> DEFINE t == Tail(s)
<1>1. Len(s) \in Nat /\ Len(s) # 0 /\ DOMAIN s = 1 .. Len(s) /\ Head(s) = s[1]
  BY LenProperties, EmptySeq
<1>2. t \in Seq(S) /\ Len(t) = Len(s) - 1 /\ \A k \in 1 .. Len(t) : t[k] = s[k + 1]
  BY HeadTailProperties
<1>3. DOMAIN t = 1 .. Len(s) - 1
  BY <1>2, LenProperties
<1> HIDE DEF t
<1>4. \A k \in DOMAIN t : k + 1 \in DOMAIN s /\ t[k] = s[k + 1]
  BY <1>1, <1>2, <1>3
<1>5. Injective(t)
  <2>1. SUFFICES ASSUME NEW a \in DOMAIN t, NEW b \in DOMAIN t, t[a] = t[b]
                 PROVE  a = b
    BY DEF Injective
  <2>2. a + 1 = b + 1
    BY <1>4, <2>1 DEF Injective
  <2>. QED
    BY <1>1, <1>3, <2>2
<1>6. ASSUME NEW k \in DOMAIN t
      PROVE  t[k] \in Elements(s) \ {s[1]}
  <2>1. k + 1 \in DOMAIN s /\ t[k] = s[k + 1] /\ 1 \in DOMAIN s /\ k + 1 # 1
    BY <1>1, <1>3, <1>4
  <2>. QED
    BY <2>1 DEF Injective, Elements
<1>7. ASSUME NEW k \in DOMAIN s, s[k] # s[1]
      PROVE  s[k] \in Elements(t)
  <2>1. k - 1 \in DOMAIN t /\ (k - 1) + 1 = k
    BY <1>1, <1>3, <1>7
  <2>2. t[k - 1] = s[k]
    BY <1>4, <2>1
  <2>. QED
    BY <2>1, <2>2 DEF Elements
<1>8. Elements(t) = Elements(s) \ {s[1]}
  BY <1>6, <1>7 DEF Elements
<1>. QED
  BY <1>1, <1>2, <1>5, <1>8 DEF t

LEMMA Joined ==
    ASSUME NEW S, NEW s \in Seq(S), NEW t \in Seq(S)
    PROVE  /\ s \o t \in Seq(S)
           /\ Elements(s \o t) = Elements(s) \cup Elements(t)
           /\ Injective(s) /\ Injective(t) /\ Elements(s) \cap Elements(t) = {}
                  => Injective(s \o t)
<1> DEFINE u == s \o t
<1>1. /\ Len(s) \in Nat /\ DOMAIN s = 1 .. Len(s)
      /\ Len(t) \in Nat /\ DOMAIN t = 1 .. Len(t)
  BY LenProperties
<1>2. /\ u \in Seq(S) /\ Len(u) = Len(s) + Len(t)
      /\ \A k \in 1 .. Len(s) + Len(t) :
             u[k] = IF k <= Len(s) THEN s[k] ELSE t[k - Len(s)]
  BY ConcatProperties
<1>3. DOMAIN u = 1 .. Len(s) + Len(t)
  BY <1>2, LenProperties
<1> HIDE DEF u
<1>4. ASSUME NEW k \in DOMAIN u
      PROVE  \/ k \in DOMAIN s /\ u[k] = s[k]
             \/ k - Len(s) \in DOMAIN t /\ u[k] = t[k - Len(s)]
  BY <1>1, <1>2, <1>3
<1>5. ASSUME NEW k \in DOMAIN s
      PROVE  k \in DOMAIN u /\ u[k] = s[k]
  BY <1>1, <1>2, <1>3
<1>6. ASSUME NEW k \in DOMAIN t
      PROVE  k + Len(s) \in DOMAIN u /\ u[k + Len(s)] = t[k]
  <2>1. k + Len(s) \in DOMAIN u /\ ~(k + Len(s) <= Len(s)) /\ (k + Len(s)) - Len(s) = k
    BY <1>1, <1>3
  <2>. QED
    BY <1>2, <1>3, <2>1
<1>7. Elements(u) = Elements(s) \cup Elements(t)
  <2>1. \A k \in DOMAIN u : u[k] \in Elements(s) \cup Elements(t)
    BY <1>4 DEF Elements
  <2>2. \A k \in DOMAIN s : s[k] \in Elements(u)
    BY <1>5 DEF Elements
  <2>3. \A k \in DOMAIN t : t[k] \in Elements(u)
    BY <1>6 DEF Elements
  <2>. QED
    BY <2>1, <2>2, <2>3 DEF Elements
<1>8. ASSUME Injective(s), Injective(t), Elements(s) \cap Elements(t) = {}
      PROVE  Injective(u)
  <2>1. SUFFICES ASSUME NEW a \in DOMAIN u, NEW b \in DOMAIN u, u[a] = u[b]
                 PROVE  a = b
    BY DEF Injective
  <2>2. \A k \in DOMAIN s, h \in DOMAIN t : s[k] # t[h]
    BY <1>8 DEF Elements
  <2>3. CASE a \in DOMAIN s /\ u[a] = s[a]
    <3>1. b \in DOMAIN s /\ u[b] = s[b]
      BY <1>4, <2>1, <2>2, <2>3
    <3>. QED
      BY <1>8, <2>1, <2>3, <3>1 DEF Injective
  <2>4. CASE a - Len(s) \in DOMAIN t /\ u[a] = t[a - Len(s)]
    <3>1. b - Len(s) \in DOMAIN t /\ u[b] = t[b - Len(s)]
      BY <1>4, <2>1, <2>2, <2>4
    <3>2. a - Len(s) = b - Len(s)
      BY <1>8, <2>1, <2>4, <3>1 DEF Injective
    <3>. QED
      BY <1>1, <1>3, <3>2
  <2>. QED
    BY <1>4, <2>3, <2>4
<1>. QED
  BY <1>2, <1>7, <1>8 DEF u

(***************************************************************************)
(* The inductive invariant                                                 *)
(***************************************************************************)
Accepted == {"executing", "raised", "failed", "completed"}

Shape ==
    /\ nodes \in Seq(Nodes) /\ edges \in Seq(Edges)
    /\ order \in Seq(InDict) /\ queue \in Seq(InDict)
    /\ DOMAIN degree = InDict
    /\ phase \in Ended \cup {"sorting", "executing"}

\* The edges into an id that the sort has not taken off yet.
Open(id) ==
    {i \in DOMAIN edges : edges[i].dst = id /\ edges[i].src \notin Elements(order)}

\* in_degree counts them; the ids at zero are those sorted and those queued,
\* and each is in one place once.
Counted ==
    /\ \A id \in InDict : degree[id] = Cardinality(Open(id))
    /\ \A id \in InDict :
           degree[id] = 0 <=> id \in Elements(order) \cup Elements(queue)
    /\ Elements(order) \cap Elements(queue) = {}
    /\ Injective(order) /\ Injective(queue)

\* What an id has an edge from was sorted before it.
Forward ==
    \A k \in DOMAIN order, i \in DOMAIN edges :
        edges[i].dst = order[k] => \E j \in 1 .. k - 1 : order[j] = edges[i].src

\* The loop over the order has done a prefix of it.
Executed ==
    /\ Cardinality(DOMAIN results) \in 0 .. Len(order)
    /\ DOMAIN results = {order[k] : k \in 1 .. Cardinality(DOMAIN results)}
    /\ \A id \in DOMAIN results : results[id] \in {"outputs", "error"}
    /\ phase \notin Accepted => DOMAIN results = {}

\* What the phase says of the definition and of the sort.
Judged ==
    /\ phase = "sorting" => nodes # <<>>
    /\ phase = "cyclic" => queue = <<>> /\ Cyclic
    /\ phase = "invalid" => \/ nodes = <<>>
                            \/ ~(EdgesKnown /\ TypesKnown /\ RequiredFilled)
    /\ phase \in Accepted \cup {"KeyError"} =>
           /\ nodes # <<>> /\ ~Cyclic
           /\ EdgesKnown /\ TypesKnown /\ RequiredFilled
           /\ phase = "KeyError" <=> \E i \in DOMAIN edges : edges[i].keys # "to"
    /\ phase \in {"failed", "completed"} =>
           /\ Cardinality(DOMAIN results) = Len(order)
           /\ phase = "failed" <=> \E id \in DOMAIN results : results[id] = "error"

IInv == Shape /\ Counted /\ Forward /\ Executed /\ Judged

(***************************************************************************)
(* Counting edges                                                          *)
(***************************************************************************)
Between(src, dst) == {i \in DOMAIN edges : edges[i].src = src /\ edges[i].dst = dst}

\* The edges from one id to another are a finite set of positions, and Count
\* numbers them.
LEMMA Counting ==
    ASSUME Shape, NEW src, NEW dst
    PROVE  /\ Between(src, dst) \in SUBSET Nat /\ IsFiniteSet(Between(src, dst))
           /\ Open(dst) \in SUBSET Nat /\ IsFiniteSet(Open(dst))
           /\ \A i \in DOMAIN edges :
                 Count(src, dst, i) = Cardinality(UpTo(Between(src, dst), i))
           /\ Count(src, dst, Len(edges)) = Cardinality(Between(src, dst))
<1>1. Len(edges) \in Nat /\ DOMAIN edges = 1 .. Len(edges)
  BY LenProperties DEF Shape
<1>2. IsFiniteSet(1 .. Len(edges))
  BY <1>1, FS_Interval
<1>3. Between(src, dst) \in SUBSET Nat /\ IsFiniteSet(Between(src, dst))
  BY <1>1, <1>2, FS_Subset DEF Between
<1>4. Open(dst) \in SUBSET Nat /\ IsFiniteSet(Open(dst))
  BY <1>1, <1>2, FS_Subset DEF Open
<1>5. ASSUME NEW i \in DOMAIN edges
      PROVE  {j \in 1 .. i : edges[j].src = src /\ edges[j].dst = dst}
                 = UpTo(Between(src, dst), i)
  BY <1>1 DEF Between, UpTo
<1>6. {j \in 1 .. Len(edges) : edges[j].src = src /\ edges[j].dst = dst}
          = Between(src, dst)
  BY <1>1 DEF Between
<1>. QED
  BY <1>3, <1>4, <1>5, <1>6 DEF Count

\* The degree of every id is a natural number.
LEMMA DegreeIsNat ==
    ASSUME Shape, Counted, NEW id \in InDict
    PROVE  degree[id] \in Nat
BY Counting, FS_CardinalityType DEF Counted

\* An edge into an id that has no open edges comes from a sorted id.
LEMMA ClosedIds ==
    ASSUME Shape, Counted, NEW id \in InDict, degree[id] = 0,
           NEW i \in DOMAIN edges, edges[i].dst = id
    PROVE  edges[i].src \in Elements(order)
<1>1. Open(id) = {}
  BY Counting, FS_EmptySet DEF Counted
<1>. QED
  BY <1>1 DEF Open

\* The head of the queue was not sorted, and all the edges into it are from
\* sorted ids.
LEMMA HeadOfQueue ==
    ASSUME Shape, Counted, queue # <<>>, NEW id, id = Head(queue)
    PROVE  /\ id \in InDict /\ id \in Elements(queue) /\ id \notin Elements(order)
           /\ degree[id] = 0
           /\ \A i \in DOMAIN edges :
                 edges[i].dst = id => edges[i].src \in Elements(order)
<1>1. 1 \in DOMAIN queue /\ id = queue[1] /\ id \in InDict
  BY LenProperties, EmptySeq DEF Shape
<1>2. id \in Elements(queue)
  BY <1>1 DEF Elements
<1>3. id \notin Elements(order) /\ degree[id] = 0
  BY <1>1, <1>2 DEF Counted
<1>. QED
  BY <1>1, <1>2, <1>3, ClosedIds

\* The edges from the head of the queue are open.
LEMMA HeadIsOpen ==
    ASSUME Shape, Counted, queue # <<>>, NEW id, id = Head(queue), NEW dst \in InDict
    PROVE  /\ Between(id, dst) \subseteq Open(dst)
           /\ Cardinality(Between(id, dst)) \in 0 .. degree[dst]
<1>1. id \notin Elements(order)
  BY HeadOfQueue
<1>2. Between(id, dst) \subseteq Open(dst)
  BY <1>1 DEF Between, Open
<1>3. IsFiniteSet(Open(dst))
  BY Counting
<1>4. /\ IsFiniteSet(Between(id, dst))
      /\ Cardinality(Between(id, dst)) <= Cardinality(Open(dst))
  BY <1>2, <1>3, FS_Subset
<1>5. Cardinality(Between(id, dst)) \in Nat /\ Cardinality(Open(dst)) \in Nat
  BY <1>3, <1>4, FS_CardinalityType
<1>. QED
  BY <1>2, <1>4, <1>5 DEF Counted

\* The ids freed by a sorted id are those whose last open edges it takes off,
\* each once.
LEMMA FreedIds ==
    ASSUME Shape, Counted, queue # <<>>, NEW id, id = Head(queue)
    PROVE  /\ Freed(id) \in Seq(InDict)
           /\ Elements(Freed(id)) =
                 {x \in InDict : /\ degree[x] # 0
                                 /\ degree[x] = Cardinality(Between(id, x))}
           /\ Injective(Freed(id))
<1> DEFINE I == {i \in DOMAIN edges : FreedBy(i, id)}
           g == [i \in DOMAIN edges |-> edges[i].dst]
           at == InOrder(I)
<1>1. Len(edges) \in Nat /\ DOMAIN edges = 1 .. Len(edges)
  BY LenProperties DEF Shape
<1>2. I \in SUBSET Nat /\ IsFiniteSet(I)
  <2>1. I \in SUBSET (1 .. Len(edges)) /\ I \in SUBSET Nat
    BY <1>1
  <2>2. IsFiniteSet(1 .. Len(edges))
    BY <1>1, FS_Interval
  <2> HIDE DEF I
  <2>. QED
    BY <2>1, <2>2, FS_Subset
<1>3. \A i \in DOMAIN edges : edges[i].dst \in InDict
  BY DEF InDict, Elements
<1>4. \A i \in I : g[i] \in InDict
  BY <1>3
<1>5. /\ Freed(id) \in [1 .. Cardinality(I) -> InDict]
      /\ \A k \in 1 .. Cardinality(I) : Freed(id)[k] = g[at[k]]
  <2>1. DOMAIN at = 1 .. Cardinality(I)
    BY <1>2, InOrderLists
  <2>2. \A k \in 1 .. Cardinality(I) : at[k] \in I
    BY <1>2, InOrderLists
  <2>3. Freed(id) = [k \in 1 .. Cardinality(I) |-> edges[at[k]].dst]
    BY <2>1 DEF Freed
  <2> HIDE DEF at
  <2>4. \A k \in 1 .. Cardinality(I) : g[at[k]] = edges[at[k]].dst /\ g[at[k]] \in InDict
    BY <1>4, <2>2
  <2> HIDE DEF I, g
  <2>. QED
    BY <2>3, <2>4
<1>6. /\ Freed(id) \in Seq(InDict)
      /\ Elements(Freed(id)) = {g[i] : i \in I}
      /\ (\A i, j \in I : g[i] = g[j] => i = j) => Injective(Freed(id))
  <2> HIDE DEF I, g
  <2>1. PICK J, h, s, D : J = I /\ h = g /\ s = Freed(id) /\ D = InDict
    OBVIOUS
  <2>2. /\ J \in SUBSET Nat /\ IsFiniteSet(J) /\ \A i \in J : h[i] \in D
        /\ s \in [1 .. Cardinality(J) -> D]
        /\ \A k \in 1 .. Cardinality(J) : s[k] = h[InOrder(J)[k]]
    BY <1>2, <1>4, <1>5, <2>1
  <2>3. /\ s \in Seq(D)
        /\ Elements(s) = {h[i] : i \in J}
        /\ (\A i, j \in J : h[i] = h[j] => i = j) => Injective(s)
    BY <2>2, Listed, ZenonT(40)
  <2>. QED
    BY <2>1, <2>3
<1>7. ASSUME NEW i \in I
      PROVE  /\ i \in DOMAIN edges /\ i \in Between(id, edges[i].dst)
             /\ degree[edges[i].dst] = Cardinality(UpTo(Between(id, edges[i].dst), i))
  <2>1. /\ i \in DOMAIN edges /\ edges[i].src = id
        /\ degree[edges[i].dst] = Count(id, edges[i].dst, i)
    BY DEF FreedBy
  <2>2. Count(id, edges[i].dst, i) = Cardinality(UpTo(Between(id, edges[i].dst), i))
    BY <2>1, Counting
  <2>. QED
    BY <2>1, <2>2 DEF Between
<1>8. \A i, j \in I : g[i] = g[j] => i = j
  <2>1. SUFFICES ASSUME NEW i \in I, NEW j \in I, edges[i].dst = edges[j].dst
                 PROVE  i = j
    OBVIOUS
  <2>2. /\ Between(id, edges[i].dst) \in SUBSET Nat
        /\ IsFiniteSet(Between(id, edges[i].dst))
    BY Counting
  <2>3. i \in Between(id, edges[i].dst) /\ j \in Between(id, edges[i].dst)
    BY <1>7, <2>1
  <2>4. Cardinality(UpTo(Between(id, edges[i].dst), i))
            = Cardinality(UpTo(Between(id, edges[i].dst), j))
    BY <1>7, <2>1
  <2>. QED
    BY <2>2, <2>3, <2>4, Ranks
<1>9. ASSUME NEW i \in I
      PROVE  /\ degree[edges[i].dst] # 0
             /\ degree[edges[i].dst] = Cardinality(Between(id, edges[i].dst))
  <2> DEFINE dst == edges[i].dst
  <2>1. dst \in InDict
    BY <1>3
  <2>2. Between(id, dst) \in SUBSET Nat /\ IsFiniteSet(Between(id, dst))
    BY Counting
  <2>3. /\ Cardinality(Between(id, dst)) \in Nat
        /\ Cardinality(UpTo(Between(id, dst), i)) \in 1 .. Cardinality(Between(id, dst))
    BY <1>7, <2>2, Ranks
  <2>4. Cardinality(Between(id, dst)) \in 0 .. degree[dst]
    BY <2>1, HeadIsOpen
  <2>5. degree[dst] = Cardinality(UpTo(Between(id, dst), i))
    BY <1>7
  <2> HIDE DEF dst
  <2>6. degree[dst] # 0 /\ degree[dst] = Cardinality(Between(id, dst))
    BY <2>3, <2>4, <2>5
  <2>. QED
    BY <2>6 DEF dst
<1>10. ASSUME NEW x \in InDict, degree[x] # 0, degree[x] = Cardinality(Between(id, x))
       PROVE  \E i \in I : g[i] = x
  <2>1. Between(id, x) \in SUBSET Nat /\ IsFiniteSet(Between(id, x))
    BY Counting
  <2>2. Between(id, x) # {}
    BY <1>10, FS_EmptySet
  <2>3. PICK i \in Between(id, x) :
            Cardinality(UpTo(Between(id, x), i)) = Cardinality(Between(id, x))
    BY <2>1, <2>2, FirstAndLast
  <2>4. i \in DOMAIN edges /\ edges[i].src = id /\ edges[i].dst = x
    BY DEF Between
  <2>5. Count(id, x, i) = Cardinality(UpTo(Between(id, x), i))
    BY <2>4, Counting
  <2>6. FreedBy(i, id)
    BY <1>10, <2>3, <2>4, <2>5 DEF FreedBy
  <2>. QED
    BY <2>4, <2>6
<1>11. {g[i] : i \in I} = {x \in InDict : /\ degree[x] # 0
                                         /\ degree[x] = Cardinality(Between(id, x))}
  <2>1. ASSUME NEW i \in I
        PROVE  /\ g[i] \in InDict /\ degree[g[i]] # 0
               /\ degree[g[i]] = Cardinality(Between(id, g[i]))
    BY <1>4, <1>9
  <2>2. \A x \in InDict : /\ degree[x] # 0
                          /\ degree[x] = Cardinality(Between(id, x))
                          => \E i \in I : g[i] = x
    BY <1>10
  <2> HIDE DEF I, g
  <2>. QED
    BY <2>1, <2>2
<1> HIDE DEF I, g
<1>. QED
  BY <1>6, <1>8, <1>11

(***************************************************************************)
(* One step of the sort                                                    *)
(***************************************************************************)
LEMMA SortLists ==
    ASSUME Shape, Counted, Sort, NEW id, id = Head(queue)
    PROVE  /\ InDict' = InDict
           /\ order' \in Seq(InDict) /\ queue' \in Seq(InDict)
           /\ Elements(order') = Elements(order) \cup {id}
           /\ Elements(queue') = (Elements(queue) \ {id}) \cup Elements(Freed(id))
           /\ Injective(order') /\ Injective(queue')
           /\ Elements(order') \cap Elements(queue') = {}
<1>1. queue # <<>> /\ order' = Append(order, id) /\ queue' = Tail(queue) \o Freed(id)
  BY DEF Sort
<1>2. InDict' = InDict
  BY DEF Sort, InDict, NodeIds
<1>3. id \in InDict /\ id \in Elements(queue) /\ id \notin Elements(order)
  BY <1>1, HeadOfQueue
<1>4. /\ order \in Seq(InDict) /\ queue \in Seq(InDict)
      /\ Injective(order) /\ Injective(queue)
      /\ Elements(order) \cap Elements(queue) = {}
  BY DEF Shape, Counted
<1>5. /\ order' \in Seq(InDict) /\ Injective(order')
      /\ Elements(order') = Elements(order) \cup {id}
  BY <1>1, <1>3, <1>4, Appended
<1>6. /\ Tail(queue) \in Seq(InDict) /\ Injective(Tail(queue))
      /\ Elements(Tail(queue)) = Elements(queue) \ {id}
  BY <1>1, <1>4, WithoutHead
<1>7. /\ Freed(id) \in Seq(InDict) /\ Injective(Freed(id))
      /\ \A x \in Elements(Freed(id)) : x \in InDict /\ degree[x] # 0
  BY <1>1, FreedIds
<1>8. \A x \in Elements(Freed(id)) : x \notin Elements(order) /\ x \notin Elements(queue)
  BY <1>7 DEF Counted
<1>9. Elements(Tail(queue)) \cap Elements(Freed(id)) = {}
  BY <1>6, <1>8
<1>10. /\ queue' \in Seq(InDict) /\ Injective(queue')
       /\ Elements(queue') = (Elements(queue) \ {id}) \cup Elements(Freed(id))
  <2>1. PICK s, t : s = Tail(queue) /\ t = Freed(id)
    OBVIOUS
  <2>2. /\ s \o t \in Seq(InDict) /\ Injective(s \o t)
        /\ Elements(s \o t) = Elements(s) \cup Elements(t)
    BY <1>6, <1>7, <1>9, <2>1, Joined, ZenonT(40)
  <2>. QED
    BY <1>1, <1>6, <2>1, <2>2
<1>11. Elements(order') \cap Elements(queue') = {}
  BY <1>3, <1>4, <1>5, <1>8, <1>10
<1>. QED
  BY <1>2, <1>5, <1>10, <1>11

\* The sort takes the edges from the sorted id off every degree.
LEMMA SortDegrees ==
    ASSUME Shape, Counted, Sort, NEW id, id = Head(queue), NEW x \in InDict
    PROVE  /\ degree'[x] = degree[x] - Cardinality(Between(id, x))
           /\ degree'[x] = Cardinality(Open(x)')
<1>1. queue # <<>> /\ x \in DOMAIN degree
  BY DEF Sort, Shape
<1>2. degree'[x] = degree[x] - Count(id, x, Len(edges))
  BY <1>1 DEF Sort
<1>3. degree'[x] = degree[x] - Cardinality(Between(id, x))
  BY <1>2, Counting
<1>4. Elements(order') = Elements(order) \cup {id} /\ edges' = edges
  BY SortLists DEF Sort
<1>5. Open(x)' = Open(x) \ Between(id, x)
  BY <1>4 DEF Open, Between
<1>6. Open(x) \cap Between(id, x) = Between(id, x)
  BY <1>1, HeadIsOpen
<1>7. IsFiniteSet(Open(x))
  BY Counting
<1>8. Cardinality(Open(x) \ Between(id, x))
          = Cardinality(Open(x)) - Cardinality(Open(x) \cap Between(id, x))
  BY <1>7, FS_Difference
<1>9. degree[x] = Cardinality(Open(x))
  BY DEF Counted
<1>. QED
  BY <1>3, <1>5, <1>6, <1>8, <1>9

LEMMA SortCounted ==
    ASSUME Shape, Counted, Sort
    PROVE  Shape' /\ Counted'
<1>1. PICK id : id = Head(queue)
  OBVIOUS
<1>2. /\ InDict' = InDict
      /\ order' \in Seq(InDict) /\ queue' \in Seq(InDict)
      /\ Elements(order') = Elements(order) \cup {id}
      /\ Elements(queue') = (Elements(queue) \ {id}) \cup Elements(Freed(id))
      /\ Injective(order') /\ Injective(queue')
      /\ Elements(order') \cap Elements(queue') = {}
  BY <1>1, SortLists
<1>3. Shape'
  BY <1>2 DEF Shape, Sort
<1>4. ASSUME NEW x \in InDict
      PROVE  degree'[x] = Cardinality(Open(x)')
  BY <1>1, SortDegrees
<1>5. ASSUME NEW x \in InDict
      PROVE  degree'[x] = 0 <=> x \in Elements(order') \cup Elements(queue')
  <2>1. queue # <<>>
    BY DEF Sort
  <2>2. degree'[x] = degree[x] - Cardinality(Between(id, x))
    BY <1>1, SortDegrees
  <2>3. Cardinality(Between(id, x)) \in 0 .. degree[x]
    BY <1>1, <2>1, HeadIsOpen
  <2>4. degree[x] \in Nat
    BY DegreeIsNat
  <2>5. x \in Elements(Freed(id)) <=> /\ degree[x] # 0
                                      /\ degree[x] = Cardinality(Between(id, x))
    BY <1>1, <2>1, FreedIds
  <2>6. degree[x] = 0 <=> x \in Elements(order) \cup Elements(queue)
    BY DEF Counted
  <2>7. degree'[x] = 0 <=> degree[x] = 0 \/ x \in Elements(Freed(id))
    BY <2>2, <2>3, <2>4, <2>5
  <2>8. id \in Elements(queue)
    BY <1>1, <2>1, HeadOfQueue
  <2>. QED
    BY <1>2, <2>6, <2>7, <2>8
<1>. QED
  BY <1>2, <1>3, <1>4, <1>5 DEF Counted

\* The id that is sorted has edges from sorted ids alone.
LEMMA SortForward ==
    ASSUME Shape, Counted, Forward, Sort
    PROVE  Forward'
<1>1. PICK id : id = Head(queue)
  OBVIOUS
<1>2. queue # <<>> /\ order' = Append(order, id) /\ edges' = edges
  BY <1>1 DEF Sort
<1>3. id \in InDict /\ \A i \in DOMAIN edges :
                           edges[i].dst = id => edges[i].src \in Elements(order)
  BY <1>1, <1>2, HeadOfQueue
<1>4. order \in Seq(InDict) /\ Len(order) \in Nat /\ DOMAIN order = 1 .. Len(order)
  BY LenProperties DEF Shape
<1>5. /\ DOMAIN order' = 1 .. Len(order) + 1
      /\ \A k \in DOMAIN order : order'[k] = order[k]
      /\ order'[Len(order) + 1] = id
  BY <1>2, <1>3, <1>4, Appended
<1>6. SUFFICES ASSUME NEW k \in DOMAIN order', NEW i \in DOMAIN edges,
                      edges[i].dst = order'[k]
               PROVE  \E j \in 1 .. k - 1 : order'[j] = edges[i].src
  BY <1>2 DEF Forward
<1>7. CASE k \in DOMAIN order
  <2>1. PICK j \in 1 .. k - 1 : order[j] = edges[i].src
    BY <1>5, <1>6, <1>7 DEF Forward
  <2>2. j \in DOMAIN order
    BY <1>4, <1>7
  <2>. QED
    BY <1>5, <2>1, <2>2
<1>8. CASE k = Len(order) + 1
  <2>1. edges[i].src \in Elements(order)
    BY <1>3, <1>5, <1>6, <1>8
  <2>2. PICK j \in DOMAIN order : order[j] = edges[i].src
    BY <2>1 DEF Elements
  <2>. QED
    BY <1>4, <1>5, <1>8, <2>2
<1>. QED
  BY <1>4, <1>5, <1>6, <1>7, <1>8

LEMMA SortStep ==
    ASSUME IInv, Sort
    PROVE  IInv'
<1>1. Shape' /\ Counted' /\ Forward'
  BY SortCounted, SortForward DEF IInv
<1>2. phase = "sorting" /\ UNCHANGED <<nodes, edges, phase, results>>
  BY DEF Sort
<1>3. Cardinality(DOMAIN results) = 0 /\ DOMAIN results = {}
  BY <1>2, FS_EmptySet DEF IInv, Executed, Accepted
<1>4. Len(order') \in Nat
  BY <1>1, LenProperties DEF Shape
<1>5. Executed'
  BY <1>2, <1>3, <1>4 DEF Executed
<1>6. Judged'
  BY <1>2 DEF IInv, Judged, Accepted
<1>. QED
  BY <1>1, <1>5, <1>6 DEF IInv

(***************************************************************************)
(* The initial states and the other steps                                  *)
(***************************************************************************)
LEMMA BoundedLists ==
    ASSUME NEW S, NEW n \in Nat, NEW T, S \subseteq T, NEW s \in SeqsUpTo(S, n)
    PROVE  s \in Seq(T)
<1>1. PICK k \in 0 .. n : s \in [1 .. k -> S]
  BY DEF SeqsUpTo
<1>2. s \in [1 .. k -> T]
  BY <1>1
<1>. QED
  BY <1>2, SeqDef

LEMMA OneOdd ==
    ASSUME NEW S, NEW odd, NEW n \in Nat, NEW T, S \subseteq T, odd \subseteq T,
           NEW s \in WithOne(odd, S, n)
    PROVE  s \in Seq(T)
<1>1. PICK t \in SeqsUpTo(S, n), i \in 1 .. n, x \in odd : s = [t EXCEPT ![i] = x]
  BY DEF WithOne
<1>2. PICK k \in 0 .. n : t \in [1 .. k -> S]
  BY DEF SeqsUpTo
<1>3. s \in [1 .. k -> T]
  BY <1>1, <1>2
<1>. QED
  BY <1>3, SeqDef

\* The degrees before the sort, d, count all edges.
Unsorted(d) ==
    /\ nodes \in Seq(Nodes) /\ edges \in Seq(Edges)
    /\ \A id \in InDict : d[id] = Indegree(id)

\* The queue starts with the ids that no edge leads to, each once.
LEMMA RootIds ==
    ASSUME NEW d, Unsorted(d)
    PROVE  /\ Roots(d) \in Seq(InDict) /\ Injective(Roots(d))
           /\ Elements(Roots(d)) = {id \in InDict : d[id] = 0}
<1> DEFINE I == {i \in DOMAIN nodes : RootAt(i, d)}
           g == [i \in DOMAIN nodes |-> nodes[i].id]
           at == InOrder(I)
<1>1. Len(nodes) \in Nat /\ DOMAIN nodes = 1 .. Len(nodes)
  BY LenProperties DEF Unsorted
<1>2. I \in SUBSET Nat /\ IsFiniteSet(I)
  <2>1. I \in SUBSET (1 .. Len(nodes)) /\ I \in SUBSET Nat
    BY <1>1
  <2>2. IsFiniteSet(1 .. Len(nodes))
    BY <1>1, FS_Interval
  <2> HIDE DEF I
  <2>. QED
    BY <2>1, <2>2, FS_Subset
<1>3. \A i \in DOMAIN nodes : nodes[i].id \in InDict
  BY DEF InDict, NodeIds, Elements
<1>4. \A i \in I : i \in DOMAIN nodes /\ g[i] = nodes[i].id /\ g[i] \in InDict
  BY <1>3
<1>5. /\ Roots(d) \in [1 .. Cardinality(I) -> InDict]
      /\ \A k \in 1 .. Cardinality(I) : Roots(d)[k] = g[at[k]]
  <2>1. DOMAIN at = 1 .. Cardinality(I)
    BY <1>2, InOrderLists
  <2>2. \A k \in 1 .. Cardinality(I) : at[k] \in I
    BY <1>2, InOrderLists
  <2>3. Roots(d) = [k \in 1 .. Cardinality(I) |-> nodes[at[k]].id]
    BY <2>1 DEF Roots
  <2> HIDE DEF at
  <2>4. \A k \in 1 .. Cardinality(I) : g[at[k]] = nodes[at[k]].id /\ g[at[k]] \in InDict
    BY <1>4, <2>2
  <2> HIDE DEF I, g
  <2>. QED
    BY <2>3, <2>4
<1>6. /\ Roots(d) \in Seq(InDict)
      /\ Elements(Roots(d)) = {g[i] : i \in I}
      /\ (\A i, j \in I : g[i] = g[j] => i = j) => Injective(Roots(d))
  <2> HIDE DEF I, g
  <2>1. PICK J, h, s, D : J = I /\ h = g /\ s = Roots(d) /\ D = InDict
    OBVIOUS
  <2>2. /\ J \in SUBSET Nat /\ IsFiniteSet(J) /\ \A i \in J : h[i] \in D
        /\ s \in [1 .. Cardinality(J) -> D]
        /\ \A k \in 1 .. Cardinality(J) : s[k] = h[InOrder(J)[k]]
    BY <1>2, <1>4, <1>5, <2>1
  <2>3. /\ s \in Seq(D)
        /\ Elements(s) = {h[i] : i \in J}
        /\ (\A i, j \in J : h[i] = h[j] => i = j) => Injective(s)
    BY <2>2, Listed, ZenonT(40)
  <2>. QED
    BY <2>1, <2>3
<1>7. \A i, j \in I : g[i] = g[j] => i = j
  <2>1. SUFFICES ASSUME NEW i \in I, NEW j \in I, nodes[i].id = nodes[j].id
                 PROVE  i = j
    BY <1>4
  <2>2. ~(i < j) /\ ~(j < i)
    BY <1>1, <2>1 DEF RootAt
  <2>. QED
    BY <1>2, <2>2
<1>8. ASSUME NEW id \in InDict, d[id] = 0
      PROVE  \E i \in I : g[i] = id
  <2> DEFINE At == {i \in DOMAIN nodes : nodes[i].id = id}
  <2>1. {i \in DOMAIN edges : edges[i].dst = id} = {}
    <3>1. Len(edges) \in Nat /\ DOMAIN edges = 1 .. Len(edges)
      BY LenProperties DEF Unsorted
    <3>2. IsFiniteSet(1 .. Len(edges))
      BY <3>1, FS_Interval
    <3>3. IsFiniteSet({i \in DOMAIN edges : edges[i].dst = id})
      BY <3>1, <3>2, FS_Subset
    <3>. QED
      BY <1>8, <3>3, FS_EmptySet DEF Indegree, Unsorted
  <2>2. At # {}
    BY <2>1 DEF InDict, NodeIds, Elements
  <2>3. At \in SUBSET (1 .. Len(nodes)) /\ At \in SUBSET Nat
    BY <1>1
  <2>4. IsFiniteSet(1 .. Len(nodes))
    BY <1>1, FS_Interval
  <2>5. \A i \in DOMAIN nodes : i \in At <=> nodes[i].id = id
    OBVIOUS
  <2> HIDE DEF At
  <2>6. IsFiniteSet(At)
    BY <2>3, <2>4, FS_Subset
  <2>7. PICK i \in At : \A j \in At : i <= j
    BY <2>2, <2>3, <2>6, FirstAndLast
  <2>8. i \in DOMAIN nodes /\ nodes[i].id = id
    BY <1>1, <2>3, <2>5, <2>7
  <2>9. \A j \in 1 .. i - 1 : j \in DOMAIN nodes /\ ~(i <= j)
    BY <1>1, <2>8
  <2>10. \A j \in 1 .. i - 1 : nodes[j].id # id
    BY <2>5, <2>7, <2>9
  <2>. QED
    BY <1>8, <2>8, <2>10 DEF RootAt
<1>9. {g[i] : i \in I} = {id \in InDict : d[id] = 0}
  <2>1. \A i \in I : d[g[i]] = 0
    BY <1>4 DEF RootAt
  <2> HIDE DEF I, g
  <2>. QED
    BY <1>4, <1>8, <2>1
<1> HIDE DEF I, g
<1>. QED
  BY <1>6, <1>7, <1>9

LEMMA InitShape ==
    ASSUME Init
    PROVE  nodes \in Seq(Nodes) /\ edges \in Seq(Edges)
<1>1. MaxNodes \in Nat /\ MaxEdges \in Nat
  BY EngineAssumption
<1>2. PICK N, PN, ON, NN, E, PE, OE, ME :
          /\ N = Nodes /\ PN = PlainNodes /\ ON = Nodes \ PlainNodes
          /\ NN = NeedyNodes /\ E = Edges /\ PE = PlainEdges
          /\ OE = OddEdges /\ ME = Misdirected
  OBVIOUS
<1>3. PICK ns, es : ns = nodes /\ es = edges
  OBVIOUS
<1>4. /\ PN \subseteq N /\ ON \subseteq N /\ NN \subseteq N
      /\ PE \subseteq E /\ OE \subseteq E /\ ME \subseteq E
  BY <1>2 DEF PlainNodes, NeedyNodes, PlainEdges, OrdinaryEdges, OddEdges,
              Misdirected
<1>5. \/ ns \in SeqsUpTo(PN, MaxNodes)
      \/ ns \in WithOne(ON, PN, MaxNodes)
      \/ ns \in WithOne(NN, PN, MaxNodes)
  BY <1>2, <1>3 DEF Init
<1>6. \/ es \in SeqsUpTo(PE, MaxEdges)
      \/ es \in WithOne(OE, PE, MaxEdges)
      \/ es \in WithOne(ME, PE, MaxEdges)
  BY <1>2, <1>3 DEF Init
<1>7. ns \in Seq(N)
  BY <1>1, <1>4, <1>5, BoundedLists, OneOdd
<1>8. es \in Seq(E)
  BY <1>1, <1>4, <1>6, BoundedLists, OneOdd
<1>. QED
  BY <1>2, <1>3, <1>7, <1>8

LEMMA Initially == Init => IInv
<1> SUFFICES ASSUME Init PROVE IInv
  OBVIOUS
<1>1. nodes \in Seq(Nodes) /\ edges \in Seq(Edges)
  BY InitShape
<1>2. /\ degree = [id \in InDict |-> Indegree(id)]
      /\ queue = Roots(degree) /\ order = <<>>
      /\ phase = IF nodes = <<>> THEN "invalid" ELSE "sorting"
      /\ DOMAIN results = {}
  BY DEF Init
<1>3. DOMAIN degree = InDict /\ \A id \in InDict : degree[id] = Indegree(id)
  BY <1>2
<1>4. /\ queue \in Seq(InDict) /\ Injective(queue)
      /\ Elements(queue) = {id \in InDict : degree[id] = 0}
  <2>1. PICK d : d = degree
    OBVIOUS
  <2>2. Unsorted(d)
    BY <1>1, <1>3, <2>1 DEF Unsorted
  <2>. QED
    BY <1>2, <2>1, <2>2, RootIds
<1>5. Elements(order) = {} /\ Injective(order) /\ DOMAIN order = {}
  BY <1>2 DEF Elements, Injective
<1>6. order \in Seq(InDict) /\ Len(order) = 0
  BY <1>2, EmptySeq
<1>7. Shape
  BY <1>1, <1>2, <1>3, <1>4, <1>6 DEF Shape, Ended
<1>8. Counted
  <2>1. ASSUME NEW id \in InDict
        PROVE  degree[id] = Cardinality(Open(id))
    BY <1>3, <1>5 DEF Indegree, Open
  <2>. QED
    BY <1>4, <1>5, <2>1 DEF Counted
<1>9. Forward
  BY <1>5 DEF Forward
<1>10. Executed
  <2>1. Cardinality(DOMAIN results) = 0
    BY <1>2, FS_EmptySet
  <2>2. {order[k] : k \in 1 .. 0} = {}
    OBVIOUS
  <2>. QED
    BY <1>2, <1>6, <2>1, <2>2 DEF Executed
<1>11. Judged
  BY <1>2 DEF Judged, Accepted
<1>. QED
  BY <1>7, <1>8, <1>9, <1>10, <1>11 DEF IInv

\* A step that leaves the definition and the sort alone.
LEMMA SortedStays ==
    ASSUME Shape, Counted, Forward, UNCHANGED <<nodes, edges, degree, queue, order>>,
           phase' \in Ended \cup {"sorting", "executing"}
    PROVE  Shape' /\ Counted' /\ Forward' /\ (Cyclic' <=> Cyclic)
           /\ (EdgesKnown' <=> EdgesKnown) /\ (TypesKnown' <=> TypesKnown)
           /\ (RequiredFilled' <=> RequiredFilled)
<1>1. InDict' = InDict /\ NodeIds' = NodeIds
  BY DEF InDict, NodeIds
<1>2. Shape'
  BY <1>1 DEF Shape
<1>3. \A id \in InDict : Open(id)' = Open(id)
  BY DEF Open
<1>4. Counted'
  BY <1>1, <1>3 DEF Counted
<1>5. Forward'
  BY DEF Forward
<1>6. Cyclic' <=> Cyclic
  BY DEF Cyclic
<1>7. EdgesKnown' <=> EdgesKnown
  BY <1>1 DEF EdgesKnown
<1>8. TypesKnown' <=> TypesKnown
  BY DEF TypesKnown
<1>9. RequiredFilled' <=> RequiredFilled
  BY DEF RequiredFilled
<1>. QED
  BY <1>2, <1>4, <1>5, <1>6, <1>7, <1>8, <1>9

LEMMA ValidateStep ==
    ASSUME IInv, Validate
    PROVE  IInv'
<1>1. /\ phase = "sorting" /\ queue = <<>> /\ nodes # <<>>
      /\ UNCHANGED <<nodes, edges, degree, queue, order, results>>
  BY DEF Validate, IInv, Judged
<1>2. \/ phase' = "cyclic" /\ Cyclic
      \/ phase' = "invalid" /\ ~(EdgesKnown /\ TypesKnown /\ RequiredFilled)
      \/ /\ phase' \in {"executing", "KeyError"} /\ ~Cyclic
         /\ EdgesKnown /\ TypesKnown /\ RequiredFilled
         /\ phase' = "KeyError" <=> \E i \in DOMAIN edges : edges[i].keys # "to"
  BY DEF Validate, Elements
<1>3. Shape' /\ Counted' /\ Forward' /\ (Cyclic' <=> Cyclic)
      /\ (EdgesKnown' <=> EdgesKnown) /\ (TypesKnown' <=> TypesKnown)
      /\ (RequiredFilled' <=> RequiredFilled)
  BY <1>1, <1>2, SortedStays DEF IInv, Ended
<1>4. Executed'
  BY <1>1, <1>2 DEF IInv, Executed, Accepted
<1>5. Judged'
  BY <1>1, <1>2, <1>3 DEF Judged, Accepted
<1>. QED
  BY <1>3, <1>4, <1>5 DEF IInv

\* The next node of the order has not been executed.
LEMMA CurrentIsNew ==
    ASSUME IInv, Cardinality(DOMAIN results) < Len(order)
    PROVE  /\ Cardinality(DOMAIN results) + 1 \in DOMAIN order
           /\ Current = order[Cardinality(DOMAIN results) + 1]
           /\ Current \notin DOMAIN results
           /\ IsFiniteSet(DOMAIN results)
<1> DEFINE m == Cardinality(DOMAIN results)
<1>1. Len(order) \in Nat /\ DOMAIN order = 1 .. Len(order)
  BY LenProperties DEF IInv, Shape
<1>2. m \in Nat /\ m + 1 \in DOMAIN order
  BY <1>1 DEF IInv, Executed
<1>3. DOMAIN results = {order[k] : k \in 1 .. m}
  BY DEF IInv, Executed
<1>4. \A k \in 1 .. m : k \in DOMAIN order /\ k # m + 1
  BY <1>1, <1>2
<1>5. Injective(order)
  BY DEF IInv, Counted
<1>6. order[m + 1] \notin DOMAIN results
  <2> HIDE DEF m
  <2>. QED
    BY <1>2, <1>3, <1>4, <1>5 DEF Injective
<1>7. IsFiniteSet(DOMAIN results)
  <2> HIDE DEF m
  <2> DEFINE f == [k \in 1 .. m |-> order[k]]
  <2>1. IsFiniteSet(1 .. m)
    BY <1>2, FS_Interval
  <2>2. f \in Surjection(1 .. m, DOMAIN results)
    <3>1. f \in [1 .. m -> DOMAIN results] /\ \A x \in DOMAIN results : \E k \in 1 .. m : f[k] = x
      BY <1>3
    <3>. QED
      BY <3>1, Fun_IsSurj
  <2>. QED
    BY <2>1, <2>2, FS_Surjection
<1>. QED
  BY <1>2, <1>6, <1>7 DEF Current

LEMMA ExecuteStep ==
    ASSUME IInv, ExecuteNode
    PROVE  IInv'
<1> DEFINE m == Cardinality(DOMAIN results)
<1>1. /\ phase = "executing" /\ m < Len(order)
      /\ UNCHANGED <<nodes, edges, phase, degree, queue, order>>
  BY DEF ExecuteNode
<1>2. PICK result \in {"outputs", "error"} :
          results' = [id \in DOMAIN results \cup {Current} |->
                         IF id = Current THEN result ELSE results[id]]
  BY DEF ExecuteNode
<1>3. Shape' /\ Counted' /\ Forward' /\ (Cyclic' <=> Cyclic)
      /\ (EdgesKnown' <=> EdgesKnown) /\ (TypesKnown' <=> TypesKnown)
      /\ (RequiredFilled' <=> RequiredFilled)
  BY <1>1, SortedStays DEF IInv
<1>4. /\ m + 1 \in DOMAIN order /\ Current = order[m + 1]
      /\ Current \notin DOMAIN results /\ IsFiniteSet(DOMAIN results)
  BY <1>1, CurrentIsNew
<1>5. DOMAIN results' = DOMAIN results \cup {Current}
  BY <1>2
<1>6. Cardinality(DOMAIN results') = m + 1
  BY <1>4, <1>5, FS_AddElement
<1>7. Len(order) \in Nat /\ DOMAIN order = 1 .. Len(order)
  BY LenProperties DEF IInv, Shape
<1>8. m \in Nat
  BY <1>4, FS_CardinalityType
<1>9. DOMAIN results' = {order'[k] : k \in 1 .. m + 1}
  <2>1. DOMAIN results = {order[k] : k \in 1 .. m}
    BY DEF IInv, Executed
  <2>2. \A k : k \in 1 .. m + 1 <=> k \in 1 .. m \/ k = m + 1
    BY <1>8
  <2> HIDE DEF m
  <2>. QED
    BY <1>1, <1>4, <1>5, <2>1, <2>2
<1>10. \A id \in DOMAIN results' : results'[id] \in {"outputs", "error"}
  BY <1>2 DEF IInv, Executed
<1>11. Executed'
  <2>1. Cardinality(DOMAIN results') \in 0 .. Len(order')
    BY <1>1, <1>4, <1>6, <1>7, <1>8
  <2>2. DOMAIN results' = {order'[k] : k \in 1 .. Cardinality(DOMAIN results')}
    BY <1>6, <1>9
  <2>3. phase' \in Accepted
    BY <1>1 DEF Accepted
  <2>. QED
    BY <1>10, <2>1, <2>2, <2>3 DEF Executed
<1>12. Judged'
  BY <1>1, <1>3 DEF IInv, Judged, Accepted
<1>. QED
  BY <1>3, <1>11, <1>12 DEF IInv

LEMMA RaiseStep ==
    ASSUME IInv, NodeRaises
    PROVE  IInv'
<1>1. /\ phase = "executing" /\ phase' = "raised"
      /\ UNCHANGED <<nodes, edges, degree, queue, order, results>>
  BY DEF NodeRaises
<1>2. Shape' /\ Counted' /\ Forward' /\ (Cyclic' <=> Cyclic)
      /\ (EdgesKnown' <=> EdgesKnown) /\ (TypesKnown' <=> TypesKnown)
      /\ (RequiredFilled' <=> RequiredFilled)
  BY <1>1, SortedStays DEF IInv, Ended
<1>3. Executed'
  BY <1>1 DEF IInv, Executed, Accepted
<1>4. Judged'
  BY <1>1, <1>2 DEF IInv, Judged, Accepted
<1>. QED
  BY <1>2, <1>3, <1>4 DEF IInv

LEMMA ReturnStep ==
    ASSUME IInv, Return
    PROVE  IInv'
<1>1. /\ phase = "executing" /\ Cardinality(DOMAIN results) = Len(order)
      /\ phase' = IF "error" \in Elements(results) THEN "failed" ELSE "completed"
      /\ UNCHANGED <<nodes, edges, degree, queue, order, results>>
  BY DEF Return
<1>2. phase' \in {"failed", "completed"}
  BY <1>1
<1>3. Shape' /\ Counted' /\ Forward' /\ (Cyclic' <=> Cyclic)
      /\ (EdgesKnown' <=> EdgesKnown) /\ (TypesKnown' <=> TypesKnown)
      /\ (RequiredFilled' <=> RequiredFilled)
  BY <1>1, <1>2, SortedStays DEF IInv, Ended
<1>4. Executed'
  BY <1>1, <1>2 DEF IInv, Executed, Accepted
<1>5. phase' = "failed" <=> \E id \in DOMAIN results : results[id] = "error"
  BY <1>1 DEF Elements
<1>6. Judged'
  BY <1>1, <1>2, <1>3, <1>5 DEF IInv, Judged, Accepted
<1>. QED
  BY <1>3, <1>4, <1>6 DEF IInv

LEMMA StutterStep ==
    ASSUME IInv, UNCHANGED vars
    PROVE  IInv'
<1>1. UNCHANGED <<nodes, edges, phase, degree, queue, order, results>>
  BY DEF vars
<1>2. Shape' /\ Counted' /\ Forward' /\ (Cyclic' <=> Cyclic)
      /\ (EdgesKnown' <=> EdgesKnown) /\ (TypesKnown' <=> TypesKnown)
      /\ (RequiredFilled' <=> RequiredFilled)
  BY <1>1, SortedStays DEF IInv, Shape
<1>3. Executed'
  BY <1>1 DEF IInv, Executed
<1>4. Judged'
  BY <1>1, <1>2 DEF IInv, Judged
<1>. QED
  BY <1>2, <1>3, <1>4 DEF IInv

LEMMA Inductive == IInv /\ [Next]_vars => IInv'
<1> SUFFICES ASSUME IInv, [Next]_vars PROVE IInv'
  OBVIOUS
<1>1. CASE Sort
  BY <1>1, SortStep
<1>2. CASE Validate
  BY <1>2, ValidateStep
<1>3. CASE ExecuteNode
  BY <1>3, ExecuteStep
<1>4. CASE NodeRaises
  BY <1>4, RaiseStep
<1>5. CASE Return
  BY <1>5, ReturnStep
<1>6. CASE UNCHANGED vars
  BY <1>6, StutterStep
<1>. QED
  BY <1>1, <1>2, <1>3, <1>4, <1>5, <1>6 DEF Next

\* The sort's account of the graph and the run's account of the sort hold in
\* every state.
THEOREM Invariance == Spec => []IInv
<1>. QED
  BY Initially, Inductive, PTL DEF Spec

(***************************************************************************)
(* What the length of the order says                                       *)
(***************************************************************************)

\* The order has as many ids as its length; the definition has as many as its
\* length when none repeats.
LEMMA Lengths ==
    ASSUME Shape, Counted
    PROVE  /\ IsFiniteSet(Elements(order)) /\ Cardinality(Elements(order)) = Len(order)
           /\ IsFiniteSet(NodeIds) /\ Cardinality(NodeIds) <= Len(nodes)
           /\ Cardinality(NodeIds) = Len(nodes) <=> Distinct
           /\ Len(nodes) \in Nat /\ Len(order) \in Nat /\ Cardinality(NodeIds) \in Nat
<1>1. /\ Len(order) \in Nat /\ DOMAIN order = 1 .. Len(order)
      /\ order \in [1 .. Len(order) -> InDict]
  BY LenProperties DEF Shape
<1>2. order \in [1 .. Len(order) -> Elements(order)]
  BY <1>1 DEF Elements
<1>3. order \in Bijection(1 .. Len(order), Elements(order))
  <2>1. \A i, j \in 1 .. Len(order) : order[i] = order[j] => i = j
    BY <1>1 DEF Counted, Injective
  <2>2. \A x \in Elements(order) : \E i \in 1 .. Len(order) : order[i] = x
    BY <1>1 DEF Elements
  <2>. QED
    BY <1>2, <2>1, <2>2, Fun_IsBij
<1>4. IsFiniteSet(1 .. Len(order)) /\ Cardinality(1 .. Len(order)) = Len(order)
  BY <1>1, FS_Interval
<1>5. IsFiniteSet(Elements(order)) /\ Cardinality(Elements(order)) = Len(order)
  <2>1. ExistsBijection(1 .. Len(order), Elements(order))
    BY <1>3 DEF ExistsBijection
  <2>. QED
    BY <1>4, <2>1, FS_Bijection
<1>6. Len(nodes) \in Nat /\ DOMAIN nodes = 1 .. Len(nodes)
  BY LenProperties DEF Shape
<1>7. IsFiniteSet(1 .. Len(nodes)) /\ Cardinality(1 .. Len(nodes)) = Len(nodes)
  <2>1. PICK n \in Nat : n = Len(nodes)
    BY <1>6
  <2>2. IsFiniteSet(1 .. n) /\ Cardinality(1 .. n) = n
    BY FS_Interval
  <2>. QED
    BY <2>1, <2>2
<1> DEFINE idOf == [i \in 1 .. Len(nodes) |-> nodes[i].id]
<1>8. idOf \in Surjection(1 .. Len(nodes), NodeIds)
  <2>1. idOf \in [1 .. Len(nodes) -> NodeIds]
    BY <1>6 DEF NodeIds, Elements
  <2>2. \A x \in NodeIds : \E i \in 1 .. Len(nodes) : idOf[i] = x
    BY <1>6 DEF NodeIds, Elements
  <2> HIDE DEF idOf
  <2>. QED
    BY <2>1, <2>2, Fun_IsSurj
<1>9. Distinct <=> \A i, j \in 1 .. Len(nodes) : idOf[i] = idOf[j] => i = j
  BY <1>6 DEF Distinct
<1> HIDE DEF idOf
<1>10. /\ IsFiniteSet(NodeIds) /\ Cardinality(NodeIds) <= Len(nodes)
       /\ Cardinality(NodeIds) = Len(nodes)
              <=> idOf \in Injection(1 .. Len(nodes), NodeIds)
  BY <1>7, <1>8, FS_Surjection
<1>11. idOf \in Injection(1 .. Len(nodes), NodeIds) <=> Distinct
  BY <1>8, <1>9, Fun_IsInj, Fun_InjectionProperties, Fun_SurjectionProperties
<1>12. Cardinality(NodeIds) \in Nat
  BY <1>10, FS_CardinalityType
<1>. QED
  BY <1>1, <1>5, <1>6, <1>10, <1>11, <1>12

LEMMA KnownEnds ==
    ASSUME EdgesKnown
    PROVE  InDict = NodeIds
BY DEF EdgesKnown, InDict, Elements

\* An order as long as the definition holds every node, and no id repeats.
LEMMA WholeOrder ==
    ASSUME IInv, ~Cyclic, EdgesKnown
    PROVE  Elements(order) = NodeIds /\ Distinct
<1>1. Elements(order) \in SUBSET NodeIds
  <2>1. order \in Seq(InDict) /\ InDict = NodeIds
    BY KnownEnds DEF IInv, Shape
  <2>2. \A k \in DOMAIN order : order[k] \in NodeIds
    BY <2>1, LenProperties
  <2>. QED
    BY <2>2 DEF Elements
<1>2. /\ Cardinality(Elements(order)) = Len(order)
      /\ IsFiniteSet(NodeIds) /\ Cardinality(NodeIds) <= Len(nodes)
      /\ Cardinality(NodeIds) = Len(nodes) <=> Distinct
      /\ Len(nodes) \in Nat /\ Len(order) \in Nat /\ Cardinality(NodeIds) \in Nat
  BY Lengths DEF IInv
<1>3. Len(order) = Len(nodes)
  BY DEF Cyclic
<1>4. /\ Cardinality(Elements(order)) <= Cardinality(NodeIds)
      /\ Cardinality(Elements(order)) = Cardinality(NodeIds) => Elements(order) = NodeIds
  BY <1>1, <1>2, FS_Subset
<1>. QED
  BY <1>2, <1>3, <1>4

\* An order in which every edge leads forward leaves no cycle.
LEMMA NoCycle ==
    ASSUME IInv, Elements(order) = NodeIds
    PROVE  ~HasCycle
<1>1. SUFFICES ASSUME NEW S \in SUBSET NodeIds, S # {},
                      \A id \in S : \E e \in Elements(edges) : e.dst = id /\ e.src \in S
               PROVE  FALSE
  BY DEF HasCycle
<1> DEFINE I == {k \in DOMAIN order : order[k] \in S}
<1>2. Len(order) \in Nat /\ DOMAIN order = 1 .. Len(order)
  BY LenProperties DEF IInv, Shape
<1>3. I \in SUBSET Nat /\ I \in SUBSET (1 .. Len(order)) /\ I # {}
  BY <1>1, <1>2 DEF Elements
<1>4. IsFiniteSet(1 .. Len(order))
  BY <1>2, FS_Interval
<1>5. PICK k \in I : \A j \in I : k <= j
  <2> HIDE DEF I
  <2>1. IsFiniteSet(I)
    BY <1>3, <1>4, FS_Subset
  <2>. QED
    BY <1>3, <2>1, FirstAndLast
<1>6. k \in DOMAIN order /\ order[k] \in S
  OBVIOUS
<1>7. PICK e \in Elements(edges) : e.dst = order[k] /\ e.src \in S
  BY <1>1, <1>6
<1>8. PICK i \in DOMAIN edges : edges[i] = e
  BY DEF Elements
<1>9. PICK j \in 1 .. k - 1 : order[j] = e.src
  BY <1>6, <1>7, <1>8 DEF IInv, Forward
<1>10. j \in DOMAIN order /\ ~(k <= j)
  BY <1>2, <1>6
<1>11. j \in I
  BY <1>7, <1>9, <1>10
<1>. QED
  BY <1>5, <1>10, <1>11

\* The ids that an empty queue leaves unsorted have predecessors among them.
LEMMA LeftOver ==
    ASSUME IInv, queue = <<>>, Cyclic, EdgesKnown, Distinct
    PROVE  HasCycle
<1> DEFINE S == NodeIds \ Elements(order)
<1>1. InDict = NodeIds
  BY KnownEnds
<1>2. S # {}
  <2>1. SUFFICES ASSUME NodeIds \subseteq Elements(order) PROVE FALSE
    OBVIOUS
  <2>2. \A k \in DOMAIN order : order[k] \in NodeIds
    BY <1>1, LenProperties DEF IInv, Shape
  <2>3. Elements(order) = NodeIds
    BY <2>1, <2>2 DEF Elements
  <2>4. Len(order) = Len(nodes)
    BY <2>3, Lengths DEF IInv
  <2>. QED
    BY <2>4 DEF Cyclic
<1>3. ASSUME NEW id \in S
      PROVE  \E e \in Elements(edges) : e.dst = id /\ e.src \in S
  <2>1. id \in InDict /\ id \notin Elements(order)
    BY <1>1
  <2>2. Elements(queue) = {}
    BY DEF Elements
  <2>3. degree[id] # 0
    BY <2>1, <2>2 DEF IInv, Counted
  <2>4. Cardinality(Open(id)) # 0
    BY <2>1, <2>3 DEF IInv, Counted
  <2>5. Open(id) # {}
    BY <2>4, FS_EmptySet
  <2>6. PICK i \in DOMAIN edges : edges[i].dst = id /\ edges[i].src \notin Elements(order)
    BY <2>5 DEF Open
  <2>7. edges[i] \in Elements(edges)
    BY DEF Elements
  <2>8. edges[i].src \in NodeIds
    BY <2>7 DEF EdgesKnown
  <2>. QED
    BY <2>6, <2>7, <2>8
<1>. QED
  BY <1>2, <1>3 DEF HasCycle

(***************************************************************************)
(* The properties                                                          *)
(***************************************************************************)

LEMMA IInvImpliesTypeOK == IInv => TypeOK
<1> SUFFICES ASSUME IInv PROVE TypeOK
  OBVIOUS
<1>1. phase \in Ended \cup {"sorting", "executing"} /\ DOMAIN degree = InDict
  BY DEF IInv, Shape
<1>2. ASSUME NEW id \in InDict
      PROVE  id \in Ids \cup {Ghost} /\ degree[id] \in Nat
  <2>1. \A i \in DOMAIN nodes : nodes[i].id \in Ids
    <3>1. nodes \in Seq(Nodes)
      BY DEF IInv, Shape
    <3>2. \A i \in DOMAIN nodes : nodes[i] \in Nodes
      BY <3>1, LenProperties
    <3>. QED
      BY <3>2 DEF Nodes
  <2>2. \A i \in DOMAIN edges : edges[i].dst \in Ids \cup {Ghost}
    <3>1. edges \in Seq(Edges)
      BY DEF IInv, Shape
    <3>2. \A i \in DOMAIN edges : edges[i] \in Edges
      BY <3>1, LenProperties
    <3>. QED
      BY <3>2 DEF Edges
  <2>3. id \in Ids \cup {Ghost}
    BY <2>1, <2>2 DEF InDict, NodeIds, Elements
  <2>. QED
    BY <2>3, DegreeIsNat DEF IInv
<1>3. /\ \A k \in DOMAIN order : order[k] \in InDict
      /\ \A k \in DOMAIN queue : queue[k] \in InDict
  BY LenProperties DEF IInv, Shape
<1>4. Elements(queue) \cup Elements(order) \subseteq InDict
  BY <1>3 DEF Elements
<1>5. Elements(results) \subseteq {"outputs", "error"}
  BY DEF IInv, Executed, Elements
<1>. QED
  BY <1>1, <1>2, <1>4, <1>5 DEF TypeOK

LEMMA IInvImpliesUpstreamFirst == IInv => UpstreamFirst
<1> SUFFICES ASSUME IInv, Cardinality(DOMAIN results) < Len(order),
                    NEW e \in Elements(edges), e.dst = Current
             PROVE  e.src \in DOMAIN results
  BY DEF UpstreamFirst
<1> DEFINE m == Cardinality(DOMAIN results)
<1>1. m + 1 \in DOMAIN order /\ Current = order[m + 1]
  BY CurrentIsNew
<1>2. PICK i \in DOMAIN edges : edges[i] = e
  BY DEF Elements
<1>3. PICK j \in 1 .. (m + 1) - 1 : order[j] = e.src
  BY <1>1, <1>2 DEF IInv, Forward
<1>4. m \in Nat
  BY LenProperties DEF IInv, Executed, Shape
<1>5. DOMAIN results = {order[k] : k \in 1 .. m}
  BY DEF IInv, Executed
<1>6. j \in 1 .. m
  BY <1>4
<1>. QED
  BY <1>3, <1>5, <1>6

LEMMA IInvImpliesEveryNodeExecuted == IInv => EveryNodeExecuted
<1> SUFFICES ASSUME IInv, phase \in {"completed", "failed"}
             PROVE  /\ DOMAIN results = NodeIds
                    /\ phase = "completed" <=> \A id \in NodeIds : results[id] = "outputs"
  BY DEF EveryNodeExecuted
<1>1. /\ ~Cyclic /\ EdgesKnown /\ Cardinality(DOMAIN results) = Len(order)
      /\ phase = "failed" <=> \E id \in DOMAIN results : results[id] = "error"
  BY DEF IInv, Judged, Accepted
<1>2. Elements(order) = NodeIds
  BY <1>1, WholeOrder
<1>3. DOMAIN order = 1 .. Len(order)
  BY LenProperties DEF IInv, Shape
<1>4. DOMAIN results = NodeIds
  BY <1>1, <1>2, <1>3 DEF IInv, Executed, Elements
<1>5. \A id \in DOMAIN results : results[id] \in {"outputs", "error"}
  BY DEF IInv, Executed
<1>. QED
  BY <1>1, <1>4, <1>5

LEMMA IInvImpliesVerdictIsRight == IInv => VerdictIsRight
<1> SUFFICES ASSUME IInv, \A e \in Elements(edges) : e.keys = "to", phase # "sorting"
             PROVE  Verdict = IF Acceptable THEN "accepted" ELSE "refused"
  BY DEF VerdictIsRight
<1>1. RequiredFilled <=>
          \A i \in DOMAIN nodes :
              nodes[i].type = "needy" =>
                  \E j \in DOMAIN edges : /\ edges[j].dst = nodes[i].id
                                          /\ edges[j].port = "required"
  BY DEF RequiredFilled, Feeds, Elements
<1>2. CASE phase \in Accepted
  <2>1. nodes # <<>> /\ ~Cyclic /\ EdgesKnown /\ TypesKnown /\ RequiredFilled
    BY <1>2 DEF IInv, Judged
  <2>2. Distinct /\ ~HasCycle
    BY <2>1, WholeOrder, NoCycle
  <2>3. Acceptable
    BY <1>1, <2>1, <2>2 DEF Acceptable
  <2>. QED
    BY <1>2, <2>3 DEF Verdict, Accepted
<1>3. CASE phase = "invalid"
  <2>1. ~Acceptable
    BY <1>1, <1>3 DEF IInv, Judged, Acceptable
  <2>. QED
    BY <1>3, <2>1 DEF Verdict
<1>4. CASE phase = "cyclic"
  <2>1. ~Acceptable
    BY <1>4, LeftOver DEF IInv, Judged, Acceptable
  <2>. QED
    BY <1>4, <2>1 DEF Verdict
<1>5. CASE phase = "KeyError"
  BY <1>5 DEF IInv, Judged, Elements
<1>6. phase \in Accepted \cup {"invalid", "cyclic", "KeyError"}
  BY DEF IInv, Shape, Ended, Accepted
<1>. QED
  BY <1>2, <1>3, <1>4, <1>5, <1>6

\* The sort's structures hold known ids and natural degrees.
THEOREM TypeCorrect == Spec => []TypeOK
<1>. QED
  BY Invariance, IInvImpliesTypeOK, PTL

\* Of the definitions with "to" edges, of any size, the engine executes exactly
\* the valid ones: Kahn's order is as long as the definition if and only if ids
\* are distinct and no set of nodes has all its predecessors in itself.
THEOREM VerdictCorrect == Spec => []VerdictIsRight
<1>. QED
  BY Invariance, IInvImpliesVerdictIsRight, PTL

\* What becomes of a definition in either vocabulary that validation accepts.
VocabularyDecides ==
    phase \in Accepted \cup {"KeyError"} =>
        /\ Acceptable
        /\ phase = "KeyError" <=> \E i \in DOMAIN edges : edges[i].keys # "to"

\* A definition validation lets through was judged on both counts.
LEMMA IInvImpliesVocabularyDecides == IInv => VocabularyDecides
<1> SUFFICES ASSUME IInv, phase \in Accepted \cup {"KeyError"}
             PROVE  /\ Acceptable
                    /\ phase = "KeyError" <=> \E i \in DOMAIN edges : edges[i].keys # "to"
  BY DEF VocabularyDecides
<1>1. /\ nodes # <<>> /\ ~Cyclic /\ EdgesKnown /\ TypesKnown /\ RequiredFilled
      /\ phase = "KeyError" <=> \E i \in DOMAIN edges : edges[i].keys # "to"
  BY DEF IInv, Judged
<1>2. Distinct /\ ~HasCycle
  BY <1>1, WholeOrder, NoCycle
<1>3. \A i \in DOMAIN nodes :
          nodes[i].type = "needy" =>
              \E j \in DOMAIN edges : /\ edges[j].dst = nodes[i].id
                                      /\ edges[j].port = "required"
  BY <1>1 DEF RequiredFilled, Feeds, Elements
<1>. QED
  BY <1>1, <1>2, <1>3 DEF Acceptable

\* The KeyError of execute_pipeline strikes valid definitions only: of those that
\* validation lets through, it strikes every one with a "target" edge, and the
\* others are executed.
THEOREM KeyErrorExplained == Spec => []VocabularyDecides
<1>. QED
  BY Invariance, IInvImpliesVocabularyDecides, PTL

\* No node runs before a node it takes an input from.
THEOREM InputsReady == Spec => []UpstreamFirst
<1>. QED
  BY Invariance, IInvImpliesUpstreamFirst, PTL

\* A run that returns has executed every node, and failed only by an error.
THEOREM AllExecuted == Spec => []EveryNodeExecuted
<1>. QED
  BY Invariance, IInvImpliesEveryNodeExecuted, PTL

(***************************************************************************)
(* The run ends: every step lowers a natural number                        *)
(***************************************************************************)

\* Ids left to sort, then nodes left to execute.
StepsLeft ==
    CASE phase = "sorting" -> 2 * Cardinality(InDict) - Len(order) + 2
      [] phase = "executing" -> Len(order) - Cardinality(DOMAIN results) + 1
      [] OTHER -> 0

Shrinks == /\ StepsLeft \in Nat /\ StepsLeft' \in Nat
           /\ StepsLeft' < StepsLeft

Bounds ==
    /\ Cardinality(InDict) \in Nat /\ Len(order) \in 0 .. Cardinality(InDict)
    /\ Cardinality(DOMAIN results) \in 0 .. Len(order)

LEMMA IInvImpliesBounds == IInv => Bounds
<1> SUFFICES ASSUME IInv PROVE Bounds
  OBVIOUS
<1>1. /\ Len(nodes) \in Nat /\ DOMAIN nodes = 1 .. Len(nodes)
      /\ Len(edges) \in Nat /\ DOMAIN edges = 1 .. Len(edges)
  BY LenProperties DEF IInv, Shape
<1> DEFINE targets == {e.dst : e \in Elements(edges)}
           dstOf == [i \in 1 .. Len(edges) |-> edges[i].dst]
<1>2. IsFiniteSet(targets)
  <2>1. PICK n \in Nat : n = Len(edges)
    BY <1>1
  <2>2. IsFiniteSet(1 .. n)
    BY FS_Interval
  <2>3. dstOf \in [1 .. n -> targets] /\ \A x \in targets : \E i \in 1 .. n : dstOf[i] = x
    BY <1>1, <2>1 DEF Elements
  <2> HIDE DEF dstOf, targets
  <2>4. dstOf \in Surjection(1 .. n, targets)
    BY <2>3, Fun_IsSurj
  <2>. QED
    BY <2>2, <2>4, FS_Surjection
<1>3. IsFiniteSet(NodeIds)
  BY Lengths DEF IInv
<1>4. IsFiniteSet(InDict) /\ Cardinality(InDict) \in Nat
  <2>1. IsFiniteSet(NodeIds \cup targets)
    BY <1>2, <1>3, FS_Union
  <2>2. InDict = NodeIds \cup targets
    BY DEF InDict
  <2>. QED
    BY <2>1, <2>2, FS_CardinalityType
<1>5. Elements(order) \in SUBSET InDict
  <2>1. \A k \in DOMAIN order : order[k] \in InDict
    BY LenProperties DEF IInv, Shape
  <2>. QED
    BY <2>1 DEF Elements
<1>6. Len(order) \in Nat /\ Cardinality(Elements(order)) = Len(order)
  BY Lengths DEF IInv
<1>7. Len(order) <= Cardinality(InDict)
  BY <1>4, <1>5, <1>6, FS_Subset
<1>8. Cardinality(DOMAIN results) \in 0 .. Len(order)
  BY DEF IInv, Executed
<1>. QED
  BY <1>4, <1>6, <1>7, <1>8 DEF Bounds

LEMMA EveryStepShrinks == IInv /\ Bounds /\ Bounds' /\ Next => Shrinks
<1> SUFFICES ASSUME IInv, Bounds, Bounds', Next PROVE Shrinks
  OBVIOUS
<1>1. StepsLeft \in Nat /\ StepsLeft' \in Nat
  <2>1. StepsLeft \in Nat
    BY DEF Bounds, StepsLeft
  <2>2. CASE phase' = "sorting"
    BY <2>1, <2>2 DEF Bounds, StepsLeft
  <2>3. CASE phase' = "executing"
    BY <2>1, <2>3 DEF Bounds, StepsLeft
  <2>4. CASE phase' \notin {"sorting", "executing"}
    BY <2>1, <2>4 DEF Bounds, StepsLeft
  <2>. QED
    BY <2>2, <2>3, <2>4
<1>2. CASE Sort
  <2>1. phase = "sorting" /\ phase' = "sorting" /\ InDict' = InDict
    BY <1>2 DEF Sort, InDict, NodeIds
  <2>2. Len(order') = Len(order) + 1
    BY <1>2, AppendProperties, HeadOfQueue DEF Sort, IInv, Shape
  <2>. QED
    BY <1>1, <2>1, <2>2 DEF Bounds, StepsLeft, Shrinks
<1>3. CASE Validate
  <2>1. /\ phase = "sorting" /\ phase' # "sorting"
        /\ UNCHANGED <<order, results>>
    BY <1>3 DEF Validate
  <2>2. StepsLeft' <= Len(order) + 1
    BY <2>1 DEF Bounds, StepsLeft
  <2>3. StepsLeft >= Len(order) + 2
    BY <2>1 DEF Bounds, StepsLeft
  <2>. QED
    BY <1>1, <2>2, <2>3 DEF Bounds, Shrinks
<1>4. CASE ExecuteNode
  <2>1. /\ phase = "executing" /\ phase' = "executing" /\ order' = order
        /\ Cardinality(DOMAIN results) < Len(order)
    BY <1>4 DEF ExecuteNode
  <2>2. DOMAIN results' = DOMAIN results \cup {Current}
    BY <1>4 DEF ExecuteNode
  <2>3. Cardinality(DOMAIN results') = Cardinality(DOMAIN results) + 1
    BY <2>1, <2>2, CurrentIsNew, FS_AddElement
  <2>. QED
    BY <1>1, <2>1, <2>3 DEF Bounds, StepsLeft, Shrinks
<1>5. CASE NodeRaises
  <2>1. phase = "executing" /\ phase' = "raised"
    BY <1>5 DEF NodeRaises
  <2>. QED
    BY <1>1, <2>1 DEF Bounds, StepsLeft, Shrinks
<1>6. CASE Return
  <2>1. phase = "executing" /\ phase' \in {"failed", "completed"}
    BY <1>6 DEF Return
  <2>. QED
    BY <1>1, <2>1 DEF Bounds, StepsLeft, Shrinks
<1>. QED
  BY <1>2, <1>3, <1>4, <1>5, <1>6 DEF Next

\* Every step lowers StepsLeft: no definition keeps the sort or the loop over
\* the order going for ever.
THEOREM Shrinking == Spec => [][Shrinks]_vars
<1>1. IInv /\ Bounds /\ Bounds' /\ [Next]_vars => [Shrinks]_vars
  BY EveryStepShrinks
<1>. QED
  BY <1>1, Invariance, IInvImpliesBounds, PTL DEF Spec
=============================================================================
