------------------------ MODULE DatagramBytes_proofs -------------------------
(***************************************************************************)
(* Facts about Bytes for queues of any length over any set of datagrams    *)
(* whose sizes are naturals.  The library's induction theorems take an     *)
(* operator; the proofs below argue with the least counterexample of a set *)
(* of naturals instead.                                                    *)
(***************************************************************************)
EXTENDS DatagramBytes, WellFoundedInduction, TLAPS

(* A set of naturals that is not empty has a least element.                *)
LEMMA NatMinimum ==
  ASSUME NEW T \in SUBSET Nat, T # {}
  PROVE  \E m \in T : \A k \in T : m <= k
<1> DEFINE R == OpToRel(<, Nat)
<1>1. IsWellFoundedOn(R, Nat)
  BY NatLessThanWellFounded, Zenon
<1>2. R = {p \in Nat \X Nat : p[1] < p[2]}
  BY Zenon DEF OpToRel
<1>3. \A x, y \in T : y < x => <<y, x>> \in R
  BY <1>2
<1> HIDE DEF R
<1>4. PICK m \in T : \A k \in T : <<k, m>> \notin R
  BY <1>1, WFMin, Zenon
<1>5. \A k \in T : ~(k < m)
  BY <1>3, <1>4
<1> QED BY <1>5

(* f holds the running totals of q.                                        *)
Walk(f, q) ==
  f = [i \in 0..Len(q) |-> IF i = 0 THEN 0 ELSE f[i - 1] + q[i].size]

(* The pointwise form of Walk, which the backends read more easily.        *)
LEMMA WalkIff ==
  ASSUME NEW S, NEW q \in Seq(S), NEW f
  PROVE  Walk(f, q) <=> /\ f = [i \in 0..Len(q) |-> f[i]]
                        /\ f[0] = 0
                        /\ \A i \in 1..Len(q) : f[i] = f[i - 1] + q[i].size
<1>1. Len(q) \in Nat
  OBVIOUS
<1>2. ASSUME Walk(f, q)
      PROVE  /\ f = [i \in 0..Len(q) |-> f[i]]
             /\ f[0] = 0
             /\ \A i \in 1..Len(q) : f[i] = f[i - 1] + q[i].size
  BY <1>1, <1>2 DEF Walk
<1>3. ASSUME f = [i \in 0..Len(q) |-> f[i]],
             f[0] = 0,
             \A i \in 1..Len(q) : f[i] = f[i - 1] + q[i].size
      PROVE  Walk(f, q)
  <2> DEFINE e == [i \in 0..Len(q) |-> IF i = 0 THEN 0 ELSE f[i - 1] + q[i].size]
  <2>1. \A i \in 0..Len(q) : f[i] = IF i = 0 THEN 0 ELSE f[i - 1] + q[i].size
    BY <1>1, <1>3
  <2>2. [i \in 0..Len(q) |-> f[i]] = e
    BY <2>1
  <2>3. f = e
    BY <1>3, <2>2, Zenon
  <2> QED BY <2>3, Zenon DEF Walk
<1> QED BY <1>2, <1>3

(* Running totals are naturals.                                            *)
LEMMA WalkNat ==
  ASSUME NEW S, \A d \in S : d.size \in Nat, NEW q \in Seq(S),
         NEW f, Walk(f, q)
  PROVE  \A i \in 0..Len(q) : f[i] \in Nat
<1> DEFINE T == {i \in 0..Len(q) : f[i] \notin Nat}
<1>1. SUFFICES ASSUME T # {} PROVE FALSE
  OBVIOUS
<1>2. T \in SUBSET Nat
  OBVIOUS
<1>3. PICK m \in T : \A k \in T : m <= k
  BY <1>1, <1>2, NatMinimum
<1>4. f[0] = 0 /\ \A i \in 1..Len(q) : f[i] = f[i - 1] + q[i].size
  BY WalkIff
<1>5. m # 0
  BY <1>4
<1>6. m - 1 \in 0..Len(q) /\ m \in 1..Len(q) /\ m - 1 \notin T
  BY <1>3, <1>5
<1>7. f[m - 1] \in Nat /\ q[m].size \in Nat
  BY <1>6
<1> QED BY <1>3, <1>4, <1>6, <1>7

(* The running totals of a queue are determined by it.                     *)
LEMMA WalkUnique ==
  ASSUME NEW S, \A d \in S : d.size \in Nat, NEW q \in Seq(S),
         NEW f, Walk(f, q), NEW g, Walk(g, q)
  PROVE  f[Len(q)] = g[Len(q)]
<1> DEFINE T == {i \in 0..Len(q) : f[i] # g[i]}
<1>1. SUFFICES ASSUME T # {} PROVE FALSE
  OBVIOUS
<1>2. T \in SUBSET Nat
  OBVIOUS
<1>3. PICK m \in T : \A k \in T : m <= k
  BY <1>1, <1>2, NatMinimum
<1>4. /\ f[0] = 0 /\ \A i \in 1..Len(q) : f[i] = f[i - 1] + q[i].size
      /\ g[0] = 0 /\ \A i \in 1..Len(q) : g[i] = g[i - 1] + q[i].size
  BY WalkIff
<1>5. m # 0
  BY <1>4
<1>6. m - 1 \in 0..Len(q) /\ m \in 1..Len(q) /\ m - 1 \notin T
  BY <1>3, <1>5
<1>7. f[m - 1] = g[m - 1]
  BY <1>6
<1> QED BY <1>3, <1>4, <1>6, <1>7

(* Appending a datagram extends the running totals by one.                 *)
LEMMA WalkAppend ==
  ASSUME NEW S, \A d \in S : d.size \in Nat, NEW q \in Seq(S), NEW d \in S,
         NEW f, Walk(f, q)
  PROVE  Walk([i \in 0..(Len(q) + 1) |->
                 IF i <= Len(q) THEN f[i] ELSE f[Len(q)] + d.size],
              Append(q, d))
<1> DEFINE g == [i \in 0..(Len(q) + 1) |->
                   IF i <= Len(q) THEN f[i] ELSE f[Len(q)] + d.size]
           r == Append(q, d)
<1>1. /\ r \in Seq(S)
      /\ Len(r) = Len(q) + 1
      /\ Len(q) \in Nat
      /\ \A i \in 1..Len(q) : r[i] = q[i]
      /\ r[Len(q) + 1] = d
  OBVIOUS
<1>2. f[0] = 0 /\ \A i \in 1..Len(q) : f[i] = f[i - 1] + q[i].size
  BY WalkIff
<1>3. g = [i \in 0..Len(r) |-> g[i]]
  BY <1>1
<1>4. g[0] = 0
  BY <1>1, <1>2
<1>5. ASSUME NEW i \in 1..Len(r)
      PROVE  g[i] = g[i - 1] + r[i].size
  <2>1. CASE i = Len(q) + 1
    <3>1. g[i - 1] = f[Len(q)] /\ g[i] = f[Len(q)] + d.size
      BY <2>1, <1>1
    <3> QED BY <3>1, <2>1, <1>1
  <2>2. CASE i # Len(q) + 1
    <3>1. i \in 1..Len(q) /\ g[i] = f[i] /\ g[i - 1] = f[i - 1]
      BY <2>2, <1>1
    <3> QED BY <3>1, <1>1, <1>2
  <2> QED BY <2>1, <2>2
<1> HIDE DEF g, r
<1>6. Walk(g, r)
  BY <1>1, <1>3, <1>4, <1>5, WalkIff
<1> QED BY <1>6 DEF g, r

(* Every queue has running totals.                                         *)
LEMMA WalkExists ==
  ASSUME NEW S, \A d \in S : d.size \in Nat, NEW q \in Seq(S)
  PROVE  \E f : Walk(f, q)
<1> DEFINE T == {n \in Nat : \E r \in Seq(S) : Len(r) = n /\ ~\E f : Walk(f, r)}
<1>1. SUFFICES ASSUME T # {} PROVE FALSE
  OBVIOUS
<1>2. PICK m \in T : \A k \in T : m <= k
  BY <1>1, NatMinimum
<1>3. PICK r \in Seq(S) : Len(r) = m /\ ~\E f : Walk(f, r)
  OBVIOUS
<1>4. m # 0
  <2> SUFFICES ASSUME m = 0 PROVE FALSE
    OBVIOUS
  <2> DEFINE z == [i \in 0..Len(r) |-> 0]
  <2>1. z[0] = 0 /\ z = [i \in 0..Len(r) |-> z[i]] /\ 1..Len(r) = {}
    BY <1>3
  <2> HIDE DEF z
  <2>2. Walk(z, r)
    BY <2>1, WalkIff
  <2> QED BY <2>2, <1>3
<1> DEFINE p == SubSeq(r, 1, m - 1)
<1>5. p \in Seq(S) /\ Len(p) = m - 1 /\ r[m] \in S /\ r = Append(p, r[m])
  BY <1>3, <1>4
<1> HIDE DEF p
<1>6. m - 1 \notin T /\ m - 1 \in Nat
  BY <1>2, <1>4
<1>7. PICK f : Walk(f, p)
  BY <1>5, <1>6
<1>8. \E g : Walk(g, Append(p, r[m]))
  BY <1>5, <1>7, WalkAppend
<1> QED BY <1>3, <1>5, <1>8

(* Bytes is the last of the running totals.                                *)
LEMMA BytesWalk ==
  ASSUME NEW S, \A d \in S : d.size \in Nat, NEW q \in Seq(S)
  PROVE  \E f : Walk(f, q) /\ Bytes(q) = f[Len(q)]
<1>1. PICK f : Walk(f, q)
  BY WalkExists
<1> DEFINE u == CHOOSE g : Walk(g, q)
<1>2. Walk(u, q)
  BY <1>1
<1>3. Bytes(q) = u[Len(q)]
  BY Zenon DEF Bytes, Walk
<1> QED BY <1>2, <1>3

(* An empty queue holds nothing.                                           *)
LEMMA BytesEmpty == Bytes(<<>>) = 0
<1>1. PICK f : Walk(f, <<>>) /\ Bytes(<<>>) = f[Len(<<>>)]
  <2>1. <<>> \in Seq({}) /\ \A d \in {} : d.size \in Nat
    OBVIOUS
  <2> QED BY <2>1, BytesWalk
<1> QED BY <1>1 DEF Walk

(* What a queue holds is a natural number of bytes.                        *)
LEMMA BytesNat ==
  ASSUME NEW S, \A d \in S : d.size \in Nat, NEW q \in Seq(S)
  PROVE  Bytes(q) \in Nat
<1>1. PICK f : Walk(f, q) /\ Bytes(q) = f[Len(q)]
  BY BytesWalk
<1> QED BY <1>1, WalkNat

(* A datagram adds its size.                                               *)
LEMMA BytesAppend ==
  ASSUME NEW S, \A d \in S : d.size \in Nat, NEW q \in Seq(S), NEW d \in S
  PROVE  Bytes(Append(q, d)) = Bytes(q) + d.size
<1>1. PICK f : Walk(f, q) /\ Bytes(q) = f[Len(q)]
  BY BytesWalk
<1> DEFINE r == Append(q, d)
           h == [i \in 0..(Len(q) + 1) |->
                   IF i <= Len(q) THEN f[i] ELSE f[Len(q)] + d.size]
<1>2. r \in Seq(S) /\ Len(r) = Len(q) + 1 /\ Len(q) \in Nat
  OBVIOUS
<1>3. PICK g : Walk(g, r) /\ Bytes(r) = g[Len(r)]
  BY <1>2, BytesWalk
<1>4. Walk(h, r)
  BY <1>1, WalkAppend
<1>5. h[Len(r)] = f[Len(q)] + d.size
  BY <1>2
<1> HIDE DEF h, r
<1>6. g[Len(r)] = h[Len(r)]
  BY <1>2, <1>3, <1>4, WalkUnique
<1> QED BY <1>1, <1>3, <1>5, <1>6 DEF r

(* Taking the oldest datagram away takes its size away.                    *)
LEMMA BytesTail ==
  ASSUME NEW S, \A d \in S : d.size \in Nat, NEW q \in Seq(S), q # <<>>
  PROVE  Bytes(Tail(q)) = Bytes(q) - Head(q).size
<1>1. PICK f : Walk(f, q) /\ Bytes(q) = f[Len(q)]
  BY BytesWalk
<1> DEFINE r == Tail(q)
           h == [i \in 0..(Len(q) - 1) |-> f[i + 1] - q[1].size]
<1>2. /\ r \in Seq(S)
      /\ Len(q) \in Nat \ {0}
      /\ Len(r) = Len(q) - 1
      /\ Head(q) = q[1]
      /\ q[1] \in S
      /\ \A i \in 1..Len(r) : r[i] = q[i + 1]
  OBVIOUS
<1>3. PICK g : Walk(g, r) /\ Bytes(r) = g[Len(r)]
  BY <1>2, BytesWalk
<1>4. f[0] = 0 /\ \A i \in 1..Len(q) : f[i] = f[i - 1] + q[i].size
  BY <1>1, WalkIff
<1>5. \A i \in 0..Len(q) : f[i] \in Nat
  BY <1>1, WalkNat
<1>6. h[0] = 0
  <2>1. f[1] = 0 + q[1].size /\ q[1].size \in Nat
    BY <1>2, <1>4
  <2> QED BY <2>1, <1>2
<1>7. ASSUME NEW i \in 1..Len(r)
      PROVE  h[i] = h[i - 1] + r[i].size
  <2>1. f[i + 1] = f[i] + q[i + 1].size /\ r[i] = q[i + 1]
    BY <1>2, <1>4
  <2>2. h[i] = f[i + 1] - q[1].size /\ h[i - 1] = f[i] - q[1].size
    BY <1>2
  <2>3. f[i] \in Nat /\ q[1].size \in Nat /\ q[i + 1].size \in Nat
    BY <1>2, <1>5
  <2> QED BY <2>1, <2>2, <2>3
<1>8. h[Len(r)] = f[Len(q)] - q[1].size
  BY <1>2
<1>9. h = [i \in 0..Len(r) |-> h[i]]
  BY <1>2
<1> HIDE DEF h, r
<1>10. Walk(h, r)
  BY <1>2, <1>6, <1>7, <1>9, WalkIff
<1>11. g[Len(r)] = h[Len(r)]
  BY <1>2, <1>3, <1>10, WalkUnique
<1> QED BY <1>1, <1>2, <1>3, <1>8, <1>11 DEF r

===============================================================================
