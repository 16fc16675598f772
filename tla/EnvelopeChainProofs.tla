------------------------ MODULE EnvelopeChainProofs ------------------------
(***************************************************************************)
(* What order_by_chain returns on the objects of an unforked chain: the    *)
(* rows in the order they were appended, and nothing else.                 *)
(***************************************************************************)
EXTENDS EnvelopeChain, FiniteSetTheorems, WellFoundedInduction, TLAPS

\* The objects under sequence numbers 0 .. n-1, each pointing at the one before.
Linear(S, n) ==
    /\ \A o \in S : o.seq \in 0..(n - 1)
    /\ \A k \in 0..(n - 1) : \E o \in S : o.seq = k
    /\ \A o, q \in S : o.seq = q.seq => o = q
    /\ \A o, q \in S : chain_hash(o.env) = chain_hash(q.env) => o = q
    /\ \A o \in S : o.seq = 0 => o.env.prev = GENESIS
    /\ \A o, q \in S : q.seq = o.seq + 1 => q.env.prev = chain_hash(o.env)

Objects == [seq : Nat, env : Envelope]

-----------------------------------------------------------------------------
\* Every non-empty set of naturals has a least element (induction as the least
\* counterexample).
LEMMA LeastNat ==
    ASSUME NEW T, T \subseteq Nat, T # {}
    PROVE  \E x \in T : \A y \in T : x <= y
  <1>1. PICK x \in T : \A y \in T : ~ (<<y, x>> \in OpToRel(<, Nat))
    BY NatLessThanWellFounded, WFMin
  <1>2. \A y \in T : ~(y < x)
    BY <1>1 DEF OpToRel
  <1> QED BY <1>2

\* SetToSeqs of a finite set yields sequences over it that miss nothing in length.
LEMMA EnumerationType ==
    ASSUME NEW S, IsFiniteSet(S), NEW s \in SetToSeqs(S)
    PROVE  s \in Seq(S) /\ Len(s) = Cardinality(S)
  <1>1. Cardinality(S) \in Nat
    BY FS_CardinalityType
  <1>2. s \in [1..Cardinality(S) -> S]
    BY DEF SetToSeqs
  <1> QED BY <1>1, <1>2

\* The only enumeration of the empty set is the empty sequence.
LEMMA EmptyEnumeration ==
    ASSUME NEW s \in SetToSeqs({})
    PROVE  s = <<>>
  <1>1. s \in Seq({}) /\ Len(s) = 0
    BY EnumerationType, FS_EmptySet
  <1> QED BY <1>1

\* Walks are sequences of rows of the map.
LEMMA WalkType ==
    ASSUME NEW S, IsFiniteSet(S), NEW w \in Walks(S)
    PROVE  w \in Seq(S) /\ IsWalk(S, w)
  <1>1. Cardinality(S) \in Nat
    BY FS_CardinalityType
  <1>2. PICK n \in 0..Cardinality(S) : w \in [1..n -> S]
    BY DEF Walks
  <1>3. IsWalk(S, w)
    BY DEF Walks
  <1> QED BY <1>1, <1>2, <1>3

\* order_by_chain returns envelopes of the objects it was given.
LEMMA OrderType ==
    ASSUME NEW S, S \subseteq Objects, IsFiniteSet(S), NEW rows \in order_by_chain(S)
    PROVE  rows \in Seq(Envelope)
  <1>1. \A s \in Seq(S) : Envelopes(s) \in Seq(Envelope)
    BY DEF Envelopes, Objects
  <1>2. CASE Cardinality(S) <= 1
    <2>1. PICK s \in SetToSeqs(S) : rows = Envelopes(s)
      BY <1>2 DEF order_by_chain
    <2> QED BY <1>1, <2>1, EnumerationType
  <1>3. CASE ~(Cardinality(S) <= 1)
    <2>1. PICK w \in Walks(ByPrev(S)), rest \in SetToSeqs(Unreached(ByPrev(S))),
               extra \in InKeyOrder(Extra(S)) : rows = Envelopes(w \o rest \o extra)
      BY <1>3 DEF order_by_chain
    <2>2. /\ ByPrev(S) \in SUBSET S
          /\ Unreached(ByPrev(S)) \in SUBSET S
          /\ Extra(S) \in SUBSET S
      BY DEF ByPrev, Unreached, Extra
    <2>3. IsFiniteSet(ByPrev(S)) /\ IsFiniteSet(Unreached(ByPrev(S))) /\ IsFiniteSet(Extra(S))
      BY <2>2, FS_Subset
    <2>4. w \in Seq(S)
      BY <2>1, <2>2, <2>3, WalkType
    <2>5. rest \in Seq(S)
      BY <2>1, <2>2, <2>3, EnumerationType
    <2>6. extra \in Seq(S)
      BY <2>1, <2>2, <2>3, EnumerationType DEF InKeyOrder
    <2>7. w \o rest \o extra \in Seq(S)
      BY <2>4, <2>5, <2>6
    <2> QED BY <1>1, <2>1, <2>7
  <1> QED BY <1>2, <1>3

-----------------------------------------------------------------------------
\* A linear chain of n objects has n objects.
LEMMA LinearCardinality ==
    ASSUME NEW n \in Nat, NEW S, S \subseteq Objects, Linear(S, n)
    PROVE  IsFiniteSet(S) /\ Cardinality(S) = n
  <1> DEFINE f == [i \in 1..n |-> CHOOSE o \in S : o.seq = i - 1]
  <1>1. \A i \in 1..n : f[i] \in S /\ f[i].seq = i - 1
    <2> SUFFICES ASSUME NEW i \in 1..n PROVE f[i] \in S /\ f[i].seq = i - 1
      OBVIOUS
    <2>1. i - 1 \in 0..(n - 1)
      OBVIOUS
    <2>2. \E o \in S : o.seq = i - 1
      BY <2>1 DEF Linear
    <2> QED BY <2>2
  <1>2. f \in Injection(1..n, S)
    <2>1. f \in [1..n -> S]
      BY <1>1
    <2>2. \A a, b \in 1..n : f[a] = f[b] => a = b
      <3> SUFFICES ASSUME NEW a \in 1..n, NEW b \in 1..n, f[a] = f[b] PROVE a = b
        OBVIOUS
      <3>1. f[a].seq = a - 1 /\ f[b].seq = b - 1
        BY <1>1
      <3>2. a - 1 = b - 1
        BY <3>1
      <3> QED BY <3>2
    <2> HIDE DEF f
    <2> QED BY <2>1, <2>2 DEF Injection, IsInjective
  <1>3. f \in Surjection(1..n, S)
    <2>1. f \in [1..n -> S]
      BY <1>1
    <2>2. \A t \in S : \E i \in 1..n : f[i] = t
      <3> SUFFICES ASSUME NEW t \in S PROVE \E i \in 1..n : f[i] = t
        OBVIOUS
      <3>1. t.seq \in 0..(n - 1)
        BY DEF Linear
      <3>2. t.seq + 1 \in 1..n /\ (t.seq + 1) - 1 = t.seq
        BY <3>1
      <3>3. f[t.seq + 1] \in S /\ f[t.seq + 1].seq = t.seq
        BY <1>1, <3>2
      <3>4. f[t.seq + 1] = t
        BY <3>3 DEF Linear
      <3> QED BY <3>2, <3>4
    <2> HIDE DEF f
    <2> QED BY <2>1, <2>2 DEF Surjection
  <1>4. ExistsBijection(1..n, S)
    BY <1>2, <1>3 DEF ExistsBijection, Bijection
  <1>5. IsFiniteSet(1..n) /\ Cardinality(1..n) = n
    BY FS_Interval
  <1> QED BY <1>4, <1>5, FS_Bijection

\* In a linear chain a prev_hash belongs to one row, so the map keeps every row
\* and no row is extra.
LEMMA LinearPrevs ==
    ASSUME NEW n \in Nat, NEW S, S \subseteq Objects, Linear(S, n)
    PROVE  /\ \A o, q \in S : o.env.prev = q.env.prev => o = q
           /\ ByPrev(S) = S
           /\ Extra(S) = {}
  <1>1. \A o \in S : o.seq \in Nat /\ chain_hash(o.env) \in Nat \ {GENESIS}
    BY DEF Objects, Envelope, chain_hash
  <1>2. ASSUME NEW o \in S, o.seq # 0
        PROVE  \E r \in S : o.seq = r.seq + 1 /\ o.env.prev = chain_hash(r.env)
    <2>1. o.seq - 1 \in 0..(n - 1) /\ o.seq = (o.seq - 1) + 1
      BY <1>1, <1>2 DEF Linear
    <2>2. PICK r \in S : r.seq = o.seq - 1
      BY <2>1 DEF Linear
    <2>3. o.seq = r.seq + 1
      BY <2>1, <2>2
    <2> QED BY <2>3 DEF Linear
  <1>3. ASSUME NEW o \in S, NEW q \in S, o.env.prev = q.env.prev
        PROVE  o = q
    <2>1. CASE o.seq = 0 /\ q.seq = 0
      BY <2>1 DEF Linear
    <2>2. CASE o.seq = 0 /\ q.seq # 0
      BY <1>1, <1>2, <1>3, <2>2 DEF Linear
    <2>3. CASE o.seq # 0 /\ q.seq = 0
      BY <1>1, <1>2, <1>3, <2>3 DEF Linear
    <2>4. CASE o.seq # 0 /\ q.seq # 0
      <3>1. PICK r \in S : o.seq = r.seq + 1 /\ o.env.prev = chain_hash(r.env)
        BY <1>2, <2>4
      <3>2. PICK t \in S : q.seq = t.seq + 1 /\ q.env.prev = chain_hash(t.env)
        BY <1>2, <2>4
      <3>3. chain_hash(r.env) = chain_hash(t.env)
        BY <1>3, <3>1, <3>2
      <3>4. r = t
        BY <3>3 DEF Linear
      <3> QED BY <3>1, <3>2, <3>4 DEF Linear
    <2> QED BY <2>1, <2>2, <2>3, <2>4
  <1>4. \A o \in S : ~KeyBefore(o, o)
    BY DEF KeyBefore, Objects, Envelope
  <1>5. ByPrev(S) = S
    BY <1>3, <1>4 DEF ByPrev
  <1>6. Extra(S) = {}
    BY <1>3, <1>4 DEF Extra
  <1> QED BY <1>3, <1>5, <1>6

\* The walk of a linear chain visits every row, row i at position i.
LEMMA LinearWalk ==
    ASSUME NEW n \in Nat, NEW S, S \subseteq Objects, IsFiniteSet(S), Linear(S, n),
           NEW w \in Walks(S)
    PROVE  Len(w) = n /\ \A i \in 1..n : w[i] \in S /\ w[i].seq = i - 1
  <1>1. w \in Seq(S) /\ IsWalk(S, w)
    BY WalkType
  <1>2. \A o \in S : o.seq \in Nat /\ chain_hash(o.env) \in Nat \ {GENESIS}
    BY DEF Objects, Envelope, chain_hash
  <1>3. \A i \in 1..Len(w) : w[i] \in S
    BY <1>1
  <1>4. \A i \in 1..Len(w) : w[i].seq = i - 1
    <2> DEFINE T == { i \in 1..Len(w) : w[i].seq # i - 1 }
    <2> SUFFICES ASSUME T # {} PROVE FALSE
      OBVIOUS
    <2>1. PICK i \in T : \A j \in T : i <= j
      <3>1. T \subseteq Nat
        BY <1>1
      <3> HIDE DEF T
      <3> QED BY <3>1, LeastNat
    <2>2. i \in 1..Len(w) /\ w[i] \in S /\ w[i].seq # i - 1
      BY <1>3, <2>1
    <2>3. ASSUME w[i].seq # 0
          PROVE  \E r \in S : w[i].seq = r.seq + 1 /\ w[i].env.prev = chain_hash(r.env)
      <3> DEFINE k == w[i].seq
      <3>1. k \in 0..(n - 1)
        BY <2>2 DEF Linear
      <3>2. k - 1 \in 0..(n - 1) /\ k = (k - 1) + 1
        BY <2>3, <3>1
      <3>3. PICK r \in S : r.seq = k - 1
        BY <3>2 DEF Linear
      <3>4. w[i].seq = r.seq + 1
        BY <3>2, <3>3
      <3>5. w[i].env.prev = chain_hash(r.env)
        BY <2>2, <3>4 DEF Linear
      <3> QED BY <3>4, <3>5
    <2>4. CASE i = 1
      <3>1. w[i].env.prev = GENESIS
        BY <1>1, <2>2, <2>4 DEF IsWalk
      <3> QED BY <1>2, <2>2, <2>3, <2>4, <3>1
    <2>5. CASE i # 1
      <3>1. i - 1 \in 1..Len(w)
        BY <1>1, <2>2, <2>5
      <3>2. w[i - 1].seq = i - 2
        <4>1. i - 1 \notin T
          BY <2>1, <2>2, <1>1
        <4>2. w[i - 1].seq = (i - 1) - 1
          BY <4>1, <3>1
        <4> QED BY <4>2, <1>1, <2>2
      <3>3. w[i].env.prev = chain_hash(w[i - 1].env) /\ w[i - 1] \in S
        BY <1>1, <1>3, <2>2, <2>5, <3>1 DEF IsWalk
      <3>4. w[i].seq # 0
        BY <1>2, <2>2, <3>3 DEF Linear
      <3>5. PICK r \in S : w[i].seq = r.seq + 1 /\ w[i].env.prev = chain_hash(r.env)
        BY <2>3, <3>4
      <3>6. r = w[i - 1]
        <4>1. chain_hash(r.env) = chain_hash(w[i - 1].env)
          BY <3>3, <3>5
        <4>2. \A o, q \in S : chain_hash(o.env) = chain_hash(q.env) => o = q
          BY DEF Linear
        <4> QED BY <3>3, <4>1, <4>2
      <3> QED BY <1>1, <2>2, <3>2, <3>5, <3>6
    <2> QED BY <2>4, <2>5
  <1>5. Len(w) <= n
    <2>1. CASE Len(w) = 0
      BY <2>1
    <2>2. CASE Len(w) # 0
      <3>1. Len(w) \in 1..Len(w)
        BY <1>1, <2>2
      <3>2. w[Len(w)].seq \in 0..(n - 1) /\ w[Len(w)].seq = Len(w) - 1
        BY <1>3, <1>4, <3>1 DEF Linear
      <3> QED BY <1>1, <3>2
    <2> QED BY <2>1, <2>2
  <1>6. ASSUME Len(w) < n PROVE FALSE
    <2>1. PICK o \in S : o.seq = Len(w)
      BY <1>1, <1>6 DEF Linear
    <2>2. CASE w = <<>>
      BY <1>1, <2>1, <2>2 DEF IsWalk, Cursor, Linear
    <2>3. CASE w # <<>>
      <3>1. Len(w) \in 1..Len(w)
        BY <1>1, <2>3
      <3>2. w[Len(w)] \in S /\ w[Len(w)].seq = Len(w) - 1
        BY <1>3, <1>4, <3>1
      <3>3. o.seq = w[Len(w)].seq + 1
        BY <1>1, <2>1, <3>2
      <3>4. o.env.prev = chain_hash(w[Len(w)].env)
        BY <3>2, <3>3 DEF Linear
      <3> QED BY <1>1, <2>3, <3>4 DEF IsWalk, Cursor
    <2> QED BY <2>2, <2>3
  <1>7. Len(w) = n
    BY <1>1, <1>5, <1>6
  <1> QED BY <1>3, <1>4, <1>7

\* A walk over a linear chain misses no row.
LEMMA LinearReached ==
    ASSUME NEW n \in Nat, NEW S, S \subseteq Objects, IsFiniteSet(S), Linear(S, n),
           NEW w \in Walks(S)
    PROVE  Unreached(S) = {}
  <1> SUFFICES ASSUME NEW o \in Unreached(S) PROVE FALSE
    OBVIOUS
  <1>1. w \in Seq(S) /\ Len(w) = n /\ \A i \in 1..n : w[i] \in S /\ w[i].seq = i - 1
    BY LinearWalk, WalkType
  <1>2. o \in S /\ \A i \in DOMAIN w : w[i] # o
    BY DEF Unreached
  <1>3. o.seq \in 0..(n - 1)
    BY <1>2 DEF Linear
  <1>4. o.seq + 1 \in 1..n /\ (o.seq + 1) - 1 = o.seq
    BY <1>3
  <1>5. w[o.seq + 1] \in S /\ w[o.seq + 1].seq = o.seq
    BY <1>1, <1>4
  <1>6. w[o.seq + 1] = o
    BY <1>2, <1>5 DEF Linear
  <1> QED BY <1>1, <1>2, <1>4, <1>6

\* order_by_chain, given the objects of a linear chain, returns exactly its n rows
\* in append order: row i is the object under sequence number i - 1.
THEOREM OrderOfLinearChain ==
    ASSUME NEW n \in Nat, NEW S, S \subseteq Objects, Linear(S, n),
           NEW rows \in order_by_chain(S)
    PROVE  Len(rows) = n /\ \A i \in 1..n : [seq |-> i - 1, env |-> rows[i]] \in S
  <1>1. IsFiniteSet(S) /\ Cardinality(S) = n
    BY LinearCardinality
  <1>2. ASSUME NEW s \in Seq(S), Len(s) = n, \A i \in 1..n : s[i].seq = i - 1,
               rows = Envelopes(s)
        PROVE  Len(rows) = n /\ \A i \in 1..n : [seq |-> i - 1, env |-> rows[i]] \in S
    <2>1. Len(rows) = n /\ \A i \in 1..n : rows[i] = s[i].env
      BY <1>2 DEF Envelopes
    <2>2. \A i \in 1..n : s[i] \in S /\ s[i] = [seq |-> i - 1, env |-> s[i].env]
      BY <1>2 DEF Objects
    <2> QED BY <2>1, <2>2
  <1>3. CASE n <= 1
    <2>1. PICK s \in SetToSeqs(S) : rows = Envelopes(s)
      BY <1>1, <1>3 DEF order_by_chain
    <2>2. s \in Seq(S) /\ Len(s) = n
      BY <1>1, <2>1, EnumerationType
    <2>3. \A i \in 1..n : s[i].seq = i - 1
      <3> SUFFICES ASSUME NEW i \in 1..n PROVE s[i].seq = i - 1
        OBVIOUS
      <3>1. n = 1 /\ i = 1
        BY <1>3
      <3>2. s[i] \in S
        BY <2>2
      <3>3. s[i].seq \in 0..(n - 1)
        BY <3>2 DEF Linear
      <3> QED BY <3>1, <3>3
    <2> QED BY <1>2, <2>1, <2>2, <2>3
  <1>4. CASE ~(n <= 1)
    <2>1. ByPrev(S) = S /\ Extra(S) = {}
      BY LinearPrevs
    <2>2. PICK w \in Walks(S), rest \in SetToSeqs(Unreached(S)), extra \in InKeyOrder({}) :
              rows = Envelopes(w \o rest \o extra)
      BY <1>1, <1>4, <2>1 DEF order_by_chain
    <2>3. w \in Seq(S) /\ Len(w) = n /\ \A i \in 1..n : w[i] \in S /\ w[i].seq = i - 1
      BY <1>1, LinearWalk, WalkType
    <2>4. Unreached(S) = {}
      BY <1>1, LinearReached
    <2>5. rest = <<>>
      BY <2>2, <2>4, EmptyEnumeration
    <2>6. extra = <<>>
      BY <2>2, EmptyEnumeration DEF InKeyOrder
    <2>7. w \o rest \o extra = w
      BY <2>3, <2>5, <2>6
    <2> QED BY <1>2, <2>2, <2>3, <2>7
  <1> QED BY <1>3, <1>4

\* order_by_chain of a linear chain returns something: the walk along the sequence
\* numbers is one the while loop may take.
LEMMA LinearReadExists ==
    ASSUME NEW n \in Nat, NEW S, S \subseteq Objects, Linear(S, n)
    PROVE  order_by_chain(S) # {}
  <1>1. IsFiniteSet(S) /\ Cardinality(S) = n
    BY LinearCardinality
  <1> DEFINE f == [i \in 1..n |-> CHOOSE o \in S : o.seq = i - 1]
  <1>2. \A i \in 1..n : f[i] \in S /\ f[i].seq = i - 1
    <2> SUFFICES ASSUME NEW i \in 1..n PROVE f[i] \in S /\ f[i].seq = i - 1
      OBVIOUS
    <2>1. i - 1 \in 0..(n - 1)
      OBVIOUS
    <2>2. \E o \in S : o.seq = i - 1
      BY <2>1 DEF Linear
    <2> QED BY <2>2
  <1>3. f \in [1..n -> S] /\ Len(f) = n /\ f \in Seq(S)
    BY <1>2
  <1> HIDE DEF f
  <1>4. CASE n <= 1
    <2>1. f \in SetToSeqs(S)
      <3>1. \A i, j \in 1..n : i = j
        BY <1>4
      <3> QED BY <1>1, <1>3, <3>1 DEF SetToSeqs
    <2> QED BY <1>1, <1>4, <2>1 DEF order_by_chain
  <1>5. CASE ~(n <= 1)
    <2>1. ByPrev(S) = S /\ Extra(S) = {}
      BY LinearPrevs
    <2>2. \A i \in 1..Len(f) :
             f[i].env.prev = (IF i = 1 THEN GENESIS ELSE chain_hash(f[i - 1].env))
      <3> SUFFICES ASSUME NEW i \in 1..n
                   PROVE  f[i].env.prev = (IF i = 1 THEN GENESIS ELSE chain_hash(f[i - 1].env))
        BY <1>3
      <3>1. CASE i = 1
        BY <1>2, <3>1 DEF Linear
      <3>2. CASE i # 1
        <4>1. i - 1 \in 1..n /\ i - 1 = ((i - 1) - 1) + 1
          BY <3>2
        <4>2. f[i] \in S /\ f[i - 1] \in S /\ f[i].seq = f[i - 1].seq + 1
          BY <1>2, <4>1
        <4> QED BY <3>2, <4>2 DEF Linear
      <3> QED BY <3>1, <3>2
    <2>3. \A o \in S : o.env.prev # Cursor(f)
      <3> SUFFICES ASSUME NEW o \in S, o.env.prev = Cursor(f) PROVE FALSE
        OBVIOUS
      <3>1. n \in 1..n /\ f # <<>>
        BY <1>3, <1>5
      <3>2. f[n] \in S /\ f[n].seq = n - 1 /\ Cursor(f) = chain_hash(f[n].env)
        BY <1>2, <1>3, <3>1 DEF Cursor
      <3>3. chain_hash(f[n].env) \in Nat \ {GENESIS}
        BY <3>2 DEF Objects, Envelope, chain_hash
      <3>4. o.seq \in 0..(n - 1) /\ o.seq # 0
        BY <3>2, <3>3 DEF Linear
      <3>5. o.seq - 1 \in 0..(n - 1)
        BY <3>4
      <3>6. PICK r \in S : r.seq = o.seq - 1
        BY <3>5 DEF Linear
      <3>7. o.seq = r.seq + 1
        BY <3>4, <3>6
      <3>8. chain_hash(r.env) = chain_hash(f[n].env)
        BY <3>2, <3>7 DEF Linear
      <3>9. r = f[n]
        BY <3>2, <3>8 DEF Linear
      <3> QED BY <3>2, <3>4, <3>7, <3>9
    <2>4. f \in Walks(S)
      <3>1. n \in 0..Cardinality(S)
        BY <1>1
      <3> QED BY <1>3, <2>2, <2>3, <3>1 DEF Walks, IsWalk
    <2>5. Unreached(S) = {}
      BY <1>1, <2>4, LinearReached
    <2>6. << >> \in SetToSeqs({})
      BY FS_EmptySet DEF SetToSeqs
    <2>7. << >> \in InKeyOrder({})
      <3>1. DOMAIN << >> = {}
        OBVIOUS
      <3> QED BY <2>6, <3>1 DEF InKeyOrder
    <2>8. order_by_chain(S) = { Envelopes(w \o rest \o extra) :
             w \in Walks(S), rest \in SetToSeqs({}), extra \in InKeyOrder({}) }
      BY <1>1, <1>5, <2>1, <2>5 DEF order_by_chain
    <2>9. \E w \in Walks(S), rest \in SetToSeqs({}), extra \in InKeyOrder({}) : TRUE
      BY <2>4, <2>6, <2>7
    <2> QED BY <2>8, <2>9
  <1> QED BY <1>4, <1>5

\* Storing a new row under the next sequence number, pointing at the last row,
\* extends a linear chain.
LEMMA LinearExtend ==
    ASSUME NEW n \in Nat, NEW S, S \subseteq Objects, Linear(S, n),
           NEW new \in Objects, new.seq = n,
           \A o \in S : chain_hash(o.env) # chain_hash(new.env),
           n = 0 => new.env.prev = GENESIS,
           \A o \in S : n = o.seq + 1 => new.env.prev = chain_hash(o.env)
    PROVE  Linear(S \cup {new}, n + 1)
  <1> DEFINE U == S \cup {new}
  <1>0. \A o \in S : o.seq \in 0..(n - 1)
    BY DEF Linear
  <1>1. \A o \in U : o.seq \in 0..((n + 1) - 1)
    BY <1>0
  <1>2. \A k \in 0..((n + 1) - 1) : \E o \in U : o.seq = k
    <2> SUFFICES ASSUME NEW k \in 0..((n + 1) - 1) PROVE \E o \in U : o.seq = k
      OBVIOUS
    <2>1. CASE k = n
      BY <2>1
    <2>2. CASE k # n
      <3>1. k \in 0..(n - 1)
        BY <2>2
      <3> QED BY <3>1 DEF Linear
    <2> QED BY <2>1, <2>2
  <1>3. \A o, q \in U : o.seq = q.seq => o = q
    <2>1. \A o, q \in S : o.seq = q.seq => o = q
      BY DEF Linear
    <2>2. \A o \in S : o.seq # new.seq
      BY <1>0
    <2> QED BY <2>1, <2>2
  <1>4. \A o, q \in U : chain_hash(o.env) = chain_hash(q.env) => o = q
    <2>1. \A o, q \in S : chain_hash(o.env) = chain_hash(q.env) => o = q
      BY DEF Linear
    <2> QED BY <2>1
  <1>5. \A o \in U : o.seq = 0 => o.env.prev = GENESIS
    <2>1. \A o \in S : o.seq = 0 => o.env.prev = GENESIS
      BY DEF Linear
    <2> QED BY <2>1
  <1>6. \A o, q \in U : q.seq = o.seq + 1 => q.env.prev = chain_hash(o.env)
    <2> SUFFICES ASSUME NEW o \in U, NEW q \in U, q.seq = o.seq + 1
                 PROVE  q.env.prev = chain_hash(o.env)
      OBVIOUS
    <2>1. CASE o \in S /\ q \in S
      BY <2>1 DEF Linear
    <2>2. CASE o \in S /\ q = new
      BY <2>2
    <2>3. CASE o = new
      <3>1. q.seq = n + 1
        BY <2>3
      <3> QED BY <1>1, <3>1
    <2> QED BY <2>1, <2>2, <2>3
  <1> HIDE DEF U
  <1>7. Linear(U, n + 1)
    BY <1>1, <1>2, <1>3, <1>4, <1>5, <1>6 DEF Linear
  <1> QED BY <1>7 DEF U

-----------------------------------------------------------------------------
\* verify_log on rows that are chained from genesis and share no action id: a row fails
\* exactly when another key signed it.
LEMMA ChainedRowsVerify ==
    ASSUME NEW rows \in Seq(Envelope), NEW vk, NEW i \in 1..Len(rows),
           \A j, k \in 1..Len(rows) : rows[j].id = rows[k].id => j = k,
           rows[1].prev = GENESIS,
           \A j \in 2..Len(rows) : rows[j].prev = chain_hash(rows[j - 1])
    PROVE  RowOk(rows, vk, i) <=> rows[i].key = vk
  <1>1. \A j \in 1..Len(rows) : ~IsDuplicate(rows, j)
    <2> SUFFICES ASSUME NEW j \in 1..Len(rows), NEW k \in 1..(j - 1), rows[k].id = rows[j].id
                 PROVE  FALSE
      BY DEF IsDuplicate
    <2>1. k \in 1..Len(rows) /\ k # j
      OBVIOUS
    <2> QED BY <2>1
  <1> DEFINE kept == { j \in 1..(i - 1) : ~IsDuplicate(rows, j) }
  <1>2. kept = 1..(i - 1)
    BY <1>1
  <1>3. rows[i].prev = ExpectedPrev(rows, i)
    <2>1. CASE i = 1
      <3>1. kept = {}
        BY <1>2, <2>1
      <3> QED BY <2>1, <3>1 DEF ExpectedPrev
    <2>2. CASE i # 1
      <3>1. i - 1 \in kept /\ \A k \in kept : k <= i - 1
        BY <1>2, <2>2
      <3>2. \A j \in kept : (\A k \in kept : k <= j) => j = i - 1
        BY <1>2, <3>1
      <3> HIDE DEF kept
      <3>3. (CHOOSE j \in kept : \A k \in kept : k <= j) = i - 1
        BY <3>1, <3>2
      <3>4. ExpectedPrev(rows, i) = chain_hash(rows[i - 1])
        BY <3>1, <3>3 DEF ExpectedPrev, kept
      <3>5. i \in 2..Len(rows)
        BY <2>2
      <3> QED BY <3>4, <3>5
    <2> QED BY <2>1, <2>2
  <1> QED BY <1>1, <1>3 DEF RowOk
=============================================================================
