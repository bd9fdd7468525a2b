------------------------------ MODULE MoveProofs -------------------------------
(*************************************************************************)
(* Proofs about SequentialMoves: for every number of nodes, the 2-opt    *)
(* moves that a Make function makes give the tour whose gain the Best    *)
(* function has computed.                                                *)
(*                                                                       *)
(* A tour is seen as a ring of blocks, the parts between the removed     *)
(* edges. A 2-opt move whose t1, t2 and t3 are ends of blocks turns some *)
(* blocks around and leaves what is inside of them (FlipBlocks), and it  *)
(* does not matter from where and in which direction the ring is read    *)
(* (RotateBlocks, ReverseBlocks). So a move is followed on the order of  *)
(* 2 to 5 blocks, once for each order in which t1, ..., t2k may lie on   *)
(* the tour. Which orders these are in a case is what Orders4, ...,      *)
(* Orders10 say, and that there are no others is proved from the choice  *)
(* of the nodes (Step).                                                  *)
(*************************************************************************)
EXTENDS SequentialMoves, SequenceTheorems, TLAPS

\* A tour: every node has one place.
Order(s) ==
    /\ s \in [Node -> Node]
    /\ \A i, j \in Node : s[i] = s[j] => i = j
    /\ \A x \in Node : \E i \in Node : s[i] = x

\* What the proofs need of the number of nodes.
LEMMA NodesAre == N \in Nat /\ N >= 5 /\ 1 \in Node /\ N \in Node
BY NAssumption DEF Node

\* Places follow each other, the last and the first too.
LEMMA Following ==
    ASSUME NEW i \in Node
    PROVE  (i % N) + 1 = IF i = N THEN 1 ELSE i + 1
<1>1. N \in Nat /\ N >= 5 /\ i \in 1..N
  BY NAssumption DEF Node
<1> QED
  BY <1>1

\* The places as Unrolled counts them, without the remainders.
LEMMA Unrolling ==
    ASSUME NEW i \in Node, NEW q \in Node
    PROVE  /\ ((q - i + N) % N) + 1 = IF i <= q THEN q - i + 1 ELSE q - i + 1 + N
           /\ ((q + i - 2) % N) + 1 = IF q + i - 1 <= N THEN q + i - 1 ELSE q + i - 1 - N
<1>1. N \in Nat /\ N >= 5 /\ i \in 1..N /\ q \in 1..N
  BY NAssumption DEF Node
<1>2. ASSUME NEW x \in 0..(2 * N - 1) PROVE x % N = IF x < N THEN x ELSE x - N
  BY <1>1
<1>3. q - i + N \in 0..(2 * N - 1) /\ q + i - 2 \in 0..(2 * N - 1)
  BY <1>1
<1>4. (q - i + N) % N = IF q - i + N < N THEN q - i + N ELSE q - i
  BY <1>1, <1>2, <1>3
<1>5. (q + i - 2) % N = IF q + i - 2 < N THEN q + i - 2 ELSE q + i - 2 - N
  BY <1>1, <1>2, <1>3
<1> QED
  BY <1>1, <1>4, <1>5

\* The place of a node.
LEMMA PlaceIs ==
    ASSUME NEW s, Order(s), NEW x \in Node
    PROVE  /\ Place(s, x) \in Node /\ s[Place(s, x)] = x
           /\ \A i \in Node : s[i] = x => Place(s, x) = i
<1>1. PICK i \in Node : s[i] = x
  BY DEF Order
<1>2. Place(s, x) \in Node /\ s[Place(s, x)] = x
  BY <1>1 DEF Place, Node
<1> QED
  BY <1>2 DEF Order

-----------------------------------------------------------------------------
(* A tour read from another place, in either direction.                  *)

\* The i-th place from q on, and from q back.
Up(q, i) == IF q + i - 1 <= N THEN q + i - 1 ELSE q + i - 1 - N
Down(q, i) == IF i <= q THEN q - i + 1 ELSE q - i + 1 + N

\* u is the tour s, read from some place on or back.
Reads(u, s) ==
    /\ u \in [Node -> Node]
    /\ \E q \in Node : \/ \A i \in Node : u[i] = s[Up(q, i)]
                     \/ \A i \in Node : u[i] = s[Down(q, i)]

\* Reading up or down from place q meets every place once.
LEMMA UpDown ==
    ASSUME NEW q \in Node
    PROVE  /\ \A i \in Node : Up(q, i) \in Node /\ Down(q, i) \in Node
           /\ \A i, j \in Node : Up(q, i) = Up(q, j) => i = j
           /\ \A i, j \in Node : Down(q, i) = Down(q, j) => i = j
           /\ \A j \in Node : \E i \in Node : Up(q, i) = j
           /\ \A j \in Node : \E i \in Node : Down(q, i) = j
           /\ Up(q, 1) = q /\ Down(q, 1) = q
           /\ Up(q, N) = (IF q = 1 THEN N ELSE q - 1)
           /\ Down(q, N) = (IF q = N THEN 1 ELSE q + 1)
<1>1. N \in Nat /\ N >= 5 /\ q \in 1..N
  BY NAssumption DEF Node
<1>2. \A i \in 1..N : Up(q, i) \in 1..N /\ Down(q, i) \in 1..N
  BY <1>1 DEF Up, Down
<1>3. \A i, j \in 1..N : Up(q, i) = Up(q, j) => i = j
  BY <1>1 DEF Up
<1>4. \A i, j \in 1..N : Down(q, i) = Down(q, j) => i = j
  BY <1>1 DEF Down
<1>5. ASSUME NEW j \in 1..N PROVE \E i \in 1..N : Up(q, i) = j
  <2>1. CASE j >= q
    <3>1. j - q + 1 \in 1..N /\ Up(q, j - q + 1) = j
      BY <1>1, <2>1 DEF Up
    <3> QED
      BY <3>1
  <2>2. CASE j < q
    <3>1. j - q + 1 + N \in 1..N /\ Up(q, j - q + 1 + N) = j
      BY <1>1, <2>2 DEF Up
    <3> QED
      BY <3>1
  <2> QED
    BY <1>1, <2>1, <2>2
<1>6. ASSUME NEW j \in 1..N PROVE \E i \in 1..N : Down(q, i) = j
  <2>1. CASE j <= q
    <3>1. q - j + 1 \in 1..N /\ Down(q, q - j + 1) = j
      BY <1>1, <2>1 DEF Down
    <3> QED
      BY <3>1
  <2>2. CASE j > q
    <3>1. q - j + 1 + N \in 1..N /\ Down(q, q - j + 1 + N) = j
      BY <1>1, <2>2 DEF Down
    <3> QED
      BY <3>1
  <2> QED
    BY <1>1, <2>1, <2>2
<1>7. /\ Up(q, 1) = q /\ Down(q, 1) = q
      /\ Up(q, N) = (IF q = 1 THEN N ELSE q - 1)
      /\ Down(q, N) = (IF q = N THEN 1 ELSE q + 1)
  BY <1>1 DEF Up, Down
<1> QED
  BY <1>2, <1>3, <1>4, <1>5, <1>6, <1>7 DEF Node

\* A reading visits the same nodes.
LEMMA ReadingIsOrder ==
    ASSUME NEW s, Order(s), NEW u, Reads(u, s)
    PROVE  Order(u)
<1>1. PICK q \in Node : \/ \A i \in Node : u[i] = s[Up(q, i)]
                       \/ \A i \in Node : u[i] = s[Down(q, i)]
  BY DEF Reads
<1>2. u \in [Node -> Node]
  BY DEF Reads
<1>3. CASE \A i \in Node : u[i] = s[Up(q, i)]
  <2>1. \A i, j \in Node : u[i] = u[j] => i = j
    <3> SUFFICES ASSUME NEW i \in Node, NEW j \in Node, u[i] = u[j] PROVE i = j
      OBVIOUS
    <3>1. s[Up(q, i)] = s[Up(q, j)] /\ Up(q, i) \in Node /\ Up(q, j) \in Node
      BY <1>3, UpDown
    <3>2. Up(q, i) = Up(q, j)
      BY <3>1 DEF Order
    <3> QED
      BY <3>2, UpDown
  <2>2. ASSUME NEW x \in Node PROVE \E i \in Node : u[i] = x
    <3>1. PICK j \in Node : s[j] = x
      BY DEF Order
    <3>2. PICK i \in Node : Up(q, i) = j
      BY UpDown
    <3> QED
      BY <1>3, <3>1, <3>2
  <2> QED
    BY <1>2, <2>1, <2>2 DEF Order
<1>4. CASE \A i \in Node : u[i] = s[Down(q, i)]
  <2>1. \A i, j \in Node : u[i] = u[j] => i = j
    <3> SUFFICES ASSUME NEW i \in Node, NEW j \in Node, u[i] = u[j] PROVE i = j
      OBVIOUS
    <3>1. s[Down(q, i)] = s[Down(q, j)] /\ Down(q, i) \in Node /\ Down(q, j) \in Node
      BY <1>4, UpDown
    <3>2. Down(q, i) = Down(q, j)
      BY <3>1 DEF Order
    <3> QED
      BY <3>2, UpDown
  <2>2. ASSUME NEW x \in Node PROVE \E i \in Node : u[i] = x
    <3>1. PICK j \in Node : s[j] = x
      BY DEF Order
    <3>2. PICK i \in Node : Down(q, i) = j
      BY UpDown
    <3> QED
      BY <1>4, <3>1, <3>2
  <2> QED
    BY <1>2, <2>1, <2>2 DEF Order
<1> QED
  BY <1>1, <1>3, <1>4

\* Adjacent is being next to each other.
LEMMA AdjacentIs ==
    ASSUME NEW s, Order(s), NEW i \in Node, NEW j \in Node
    PROVE  Adjacent(s, s[i], s[j]) <=> \/ j = (IF i = N THEN 1 ELSE i + 1)
                                       \/ i = (IF j = N THEN 1 ELSE j + 1)
<1>1. s[i] \in Node /\ s[j] \in Node
  BY DEF Order
<1>2. Place(s, s[i]) = i /\ Place(s, s[j]) = j
  BY <1>1, PlaceIs
<1> QED
  BY <1>2, Following DEF Adjacent

\* Unrolled finds a reading again by its first and its last node.
LEMMA ReadingIsUnrolled ==
    ASSUME NEW s, Order(s), NEW u, Reads(u, s)
    PROVE  Unrolled(s, u[N], u[1]) = u
<1>1. N \in Nat /\ N >= 5 /\ 1 \in Node /\ N \in Node
  BY NodesAre
<1>2. PICK q \in Node : \/ \A i \in Node : u[i] = s[Up(q, i)]
                       \/ \A i \in Node : u[i] = s[Down(q, i)]
  BY DEF Reads
<1>3. u[1] = s[q]
  BY <1>1, <1>2, UpDown
<1>4. Place(s, u[1]) = q
  <2>1. s[q] \in Node
    BY DEF Order
  <2> QED
    BY <1>3, <2>1, PlaceIs
<1>5. u = [i \in Node |-> u[i]]
  BY DEF Reads
<1>6. CASE \A i \in Node : u[i] = s[Up(q, i)]
  <2>1. u[N] = s[IF q = 1 THEN N ELSE q - 1]
    BY <1>1, <1>6, UpDown
  <2>2. (IF q = 1 THEN N ELSE q - 1) \in Node /\ (IF q = N THEN 1 ELSE q + 1) \in Node
        /\ (IF q = 1 THEN N ELSE q - 1) # (IF q = N THEN 1 ELSE q + 1)
    BY <1>1 DEF Node
  <2>3. s[(q % N) + 1] # u[N]
    BY <2>1, <2>2, Following DEF Order
  <2>4. Unrolled(s, u[N], u[1]) = [i \in 1..N |-> s[((q + i - 2) % N) + 1]]
    BY <1>4, <2>3 DEF Unrolled
  <2>5. \A i \in Node : s[((q + i - 2) % N) + 1] = u[i]
    BY <1>6, Unrolling DEF Up
  <2> QED
    BY <1>5, <2>4, <2>5 DEF Node
<1>7. CASE \A i \in Node : u[i] = s[Down(q, i)]
  <2>1. u[N] = s[IF q = N THEN 1 ELSE q + 1]
    BY <1>1, <1>7, UpDown
  <2>2. s[(q % N) + 1] = u[N]
    BY <2>1, Following
  <2>3. Unrolled(s, u[N], u[1]) = [i \in 1..N |-> s[((q - i + N) % N) + 1]]
    BY <1>4, <2>2 DEF Unrolled
  <2>4. \A i \in Node : s[((q - i + N) % N) + 1] = u[i]
    BY <1>7, Unrolling DEF Down
  <2> QED
    BY <1>5, <2>3, <2>4 DEF Node
<1> QED
  BY <1>2, <1>6, <1>7

\* Two nodes next to each other in a reading are so on the tour.
LEMMA ReadingAdjacent ==
    ASSUME NEW s, Order(s), NEW u, Reads(u, s), NEW i \in Node, NEW j \in Node
    PROVE  Adjacent(s, u[i], u[j]) <=> \/ j = (IF i = N THEN 1 ELSE i + 1)
                                       \/ i = (IF j = N THEN 1 ELSE j + 1)
<1>1. N \in Nat /\ N >= 5 /\ i \in 1..N /\ j \in 1..N
  BY NAssumption DEF Node
<1>2. PICK q \in Node : \/ \A x \in Node : u[x] = s[Up(q, x)]
                       \/ \A x \in Node : u[x] = s[Down(q, x)]
  BY DEF Reads
<1>3. q \in 1..N
  BY DEF Node
<1>4. CASE \A x \in Node : u[x] = s[Up(q, x)]
  <2>1. Up(q, i) \in Node /\ Up(q, j) \in Node /\ u[i] = s[Up(q, i)] /\ u[j] = s[Up(q, j)]
    BY <1>4, UpDown
  <2>2. (Up(q, j) = IF Up(q, i) = N THEN 1 ELSE Up(q, i) + 1)
          <=> (j = IF i = N THEN 1 ELSE i + 1)
    BY <1>1, <1>3 DEF Up
  <2>3. (Up(q, i) = IF Up(q, j) = N THEN 1 ELSE Up(q, j) + 1)
          <=> (i = IF j = N THEN 1 ELSE j + 1)
    BY <1>1, <1>3 DEF Up
  <2> QED
    BY <2>1, <2>2, <2>3, AdjacentIs
<1>5. CASE \A x \in Node : u[x] = s[Down(q, x)]
  <2>1. /\ Down(q, i) \in Node /\ Down(q, j) \in Node
        /\ u[i] = s[Down(q, i)] /\ u[j] = s[Down(q, j)]
    BY <1>5, UpDown
  <2>2. (Down(q, i) = IF Down(q, j) = N THEN 1 ELSE Down(q, j) + 1)
          <=> (j = IF i = N THEN 1 ELSE i + 1)
    BY <1>1, <1>3 DEF Down
  <2>3. (Down(q, j) = IF Down(q, i) = N THEN 1 ELSE Down(q, i) + 1)
          <=> (i = IF j = N THEN 1 ELSE j + 1)
    BY <1>1, <1>3 DEF Down
  <2> QED
    BY <2>1, <2>2, <2>3, AdjacentIs
<1> QED
  BY <1>2, <1>4, <1>5

\* The order u, read from place q on or from q back, is still an order of the tour s.
LEMMA ReadOn ==
    ASSUME NEW s, NEW u, Reads(u, s), NEW m \in Node, NEW v \in [Node -> Node],
           \A i \in Node : v[i] = u[Up(m, i)]
    PROVE  Reads(v, s)
<1>1. PICK q \in Node : \/ \A i \in Node : u[i] = s[Up(q, i)]
                       \/ \A i \in Node : u[i] = s[Down(q, i)]
  BY DEF Reads
<1>2. N \in Nat /\ N >= 5 /\ m \in 1..N /\ q \in 1..N
  BY NAssumption DEF Node
<1>3. \A i \in Node : Up(m, i) \in Node
  BY UpDown
<1>4. CASE \A i \in Node : u[i] = s[Up(q, i)]
  <2>1. ASSUME NEW i \in Node PROVE Up(q, Up(m, i)) = Up(Up(q, m), i)
    <3>1. i \in 1..N
      BY DEF Node
    <3> QED
      BY <1>2, <3>1 DEF Up
  <2>2. Up(q, m) \in Node
    BY UpDown
  <2>3. \A i \in Node : v[i] = s[Up(Up(q, m), i)]
    <3> SUFFICES ASSUME NEW i \in Node PROVE v[i] = s[Up(Up(q, m), i)]
      OBVIOUS
    <3>1. v[i] = u[Up(m, i)] /\ Up(m, i) \in Node
      BY <1>3
    <3>2. u[Up(m, i)] = s[Up(q, Up(m, i))]
      BY <3>1, <1>4
    <3> QED
      BY <2>1, <3>1, <3>2
  <2> QED
    BY <2>2, <2>3 DEF Reads
<1>5. CASE \A i \in Node : u[i] = s[Down(q, i)]
  <2>1. ASSUME NEW i \in Node PROVE Down(q, Up(m, i)) = Down(Down(q, m), i)
    <3>1. i \in 1..N
      BY DEF Node
    <3> QED
      BY <1>2, <3>1 DEF Up, Down
  <2>2. Down(q, m) \in Node
    BY UpDown
  <2>3. \A i \in Node : v[i] = s[Down(Down(q, m), i)]
    <3> SUFFICES ASSUME NEW i \in Node PROVE v[i] = s[Down(Down(q, m), i)]
      OBVIOUS
    <3>1. v[i] = u[Up(m, i)] /\ Up(m, i) \in Node
      BY <1>3
    <3>2. u[Up(m, i)] = s[Down(q, Up(m, i))]
      BY <3>1, <1>5
    <3> QED
      BY <2>1, <3>1, <3>2
  <2> QED
    BY <2>2, <2>3 DEF Reads
<1> QED
  BY <1>1, <1>4, <1>5

\* The same, backwards.
LEMMA ReadBack ==
    ASSUME NEW s, NEW u, Reads(u, s), NEW m \in Node, NEW v \in [Node -> Node],
           \A i \in Node : v[i] = u[Down(m, i)]
    PROVE  Reads(v, s)
<1>1. PICK q \in Node : \/ \A i \in Node : u[i] = s[Up(q, i)]
                       \/ \A i \in Node : u[i] = s[Down(q, i)]
  BY DEF Reads
<1>2. N \in Nat /\ N >= 5 /\ m \in 1..N /\ q \in 1..N
  BY NAssumption DEF Node
<1>3. \A i \in Node : Down(m, i) \in Node
  BY UpDown
<1>4. CASE \A i \in Node : u[i] = s[Up(q, i)]
  <2>1. ASSUME NEW i \in Node PROVE Up(q, Down(m, i)) = Down(Up(q, m), i)
    <3>1. i \in 1..N
      BY DEF Node
    <3> QED
      BY <1>2, <3>1 DEF Up, Down
  <2>2. Up(q, m) \in Node
    BY UpDown
  <2>3. \A i \in Node : v[i] = s[Down(Up(q, m), i)]
    <3> SUFFICES ASSUME NEW i \in Node PROVE v[i] = s[Down(Up(q, m), i)]
      OBVIOUS
    <3>1. v[i] = u[Down(m, i)] /\ Down(m, i) \in Node
      BY <1>3
    <3>2. u[Down(m, i)] = s[Up(q, Down(m, i))]
      BY <3>1, <1>4
    <3> QED
      BY <2>1, <3>1, <3>2
  <2> QED
    BY <2>2, <2>3 DEF Reads
<1>5. CASE \A i \in Node : u[i] = s[Down(q, i)]
  <2>1. ASSUME NEW i \in Node PROVE Down(q, Down(m, i)) = Up(Down(q, m), i)
    <3>1. i \in 1..N
      BY DEF Node
    <3> QED
      BY <1>2, <3>1 DEF Up, Down
  <2>2. Down(q, m) \in Node
    BY UpDown
  <2>3. \A i \in Node : v[i] = s[Up(Down(q, m), i)]
    <3> SUFFICES ASSUME NEW i \in Node PROVE v[i] = s[Up(Down(q, m), i)]
      OBVIOUS
    <3>1. v[i] = u[Down(m, i)] /\ Down(m, i) \in Node
      BY <1>3
    <3>2. u[Down(m, i)] = s[Down(q, Down(m, i))]
      BY <3>1, <1>5
    <3> QED
      BY <2>1, <3>1, <3>2
  <2> QED
    BY <2>2, <2>3 DEF Reads
<1> QED
  BY <1>1, <1>4, <1>5

\* u with the places before p in the opposite order.
Turned(u, p) == [i \in Node |-> IF i < p THEN u[p - i] ELSE u[i]]

\* Flip turns the nodes from t2 to the one before t3.
LEMMA FlipTurns ==
    ASSUME NEW s, Order(s), NEW u, Reads(u, s), NEW p \in Node, p # 1
    PROVE  /\ Order(Turned(u, p)) /\ Order(Flip(s, u[N], u[1], u[p]))
           /\ Reads(Turned(u, p), Flip(s, u[N], u[1], u[p]))
<1>1. N \in Nat /\ N >= 5 /\ p \in 1..N /\ 1 \in Node /\ N \in Node
  BY NAssumption DEF Node
<1>2. Order(u)
  BY ReadingIsOrder
<1>3. Adjacent(s, u[1], u[p]) <=> p = 2 \/ p = N
  BY <1>1, ReadingAdjacent
<1>4. Order(Turned(u, p))
  <2>1. \A i \in 1..N : i < p => p - i \in 1..N
    BY <1>1
  <2>2. Turned(u, p) \in [Node -> Node]
    BY <1>2, <2>1 DEF Turned, Order, Node
  <2>3. ASSUME NEW i \in Node, NEW j \in Node, Turned(u, p)[i] = Turned(u, p)[j] PROVE i = j
    <3>1. i \in 1..N /\ j \in 1..N
      BY DEF Node
    <3>2. u[IF i < p THEN p - i ELSE i] = u[IF j < p THEN p - j ELSE j]
      BY <2>3 DEF Turned
    <3>3. (IF i < p THEN p - i ELSE i) \in Node /\ (IF j < p THEN p - j ELSE j) \in Node
      BY <1>1, <3>1 DEF Node
    <3>4. (IF i < p THEN p - i ELSE i) = (IF j < p THEN p - j ELSE j)
      BY <1>2, <3>2, <3>3 DEF Order
    <3> QED
      BY <1>1, <3>1, <3>4
  <2>4. ASSUME NEW x \in Node PROVE \E i \in Node : Turned(u, p)[i] = x
    <3>1. PICK i \in Node : u[i] = x
      BY <1>2 DEF Order
    <3>2. (IF i < p THEN p - i ELSE i) \in Node
      BY <1>1 DEF Node
    <3>3. Turned(u, p)[IF i < p THEN p - i ELSE i] = x
      BY <1>1, <3>1, <3>2 DEF Turned, Node
    <3> QED
      BY <3>2, <3>3
  <2> QED
    BY <2>2, <2>3, <2>4 DEF Order
<1>5. CASE p = 2
  <2>1. Flip(s, u[N], u[1], u[p]) = s
    BY <1>3, <1>5 DEF Flip
  <2>2. Turned(u, p) = u
    <3>1. \A i \in Node : (IF i < p THEN u[p - i] ELSE u[i]) = u[i]
      BY <1>5 DEF Node
    <3>2. u \in [Node -> Node]
      BY <1>2 DEF Order
    <3> QED
      BY <3>1, <3>2 DEF Turned
  <2> QED
    BY <1>4, <2>1, <2>2
<1>6. CASE p = N
  <2>1. Flip(s, u[N], u[1], u[p]) = s
    BY <1>3, <1>6 DEF Flip
  <2>2. N - 1 \in Node
    BY <1>1 DEF Node
  <2>3. ASSUME NEW i \in Node PROVE Turned(u, p)[i] = u[Down(N - 1, i)]
    <3>1. i \in 1..N
      BY DEF Node
    <3>2. Down(N - 1, i) = IF i < N THEN N - i ELSE N
      BY <1>1, <3>1 DEF Down
    <3> QED
      BY <1>1, <1>6, <3>1, <3>2 DEF Turned
  <2>4. Turned(u, p) \in [Node -> Node]
    BY <1>4 DEF Order
  <2>5. Reads(Turned(u, p), s)
    BY <2>2, <2>3, <2>4, ReadBack
  <2> QED
    BY <1>4, <2>1, <2>5
<1>7. CASE p # 2 /\ p # N
  <2>1. Unrolled(s, u[N], u[1]) = u
    BY ReadingIsUnrolled
  <2>2. Place(u, u[p]) = p
    <3>1. u[p] \in Node
      BY <1>2 DEF Order
    <3> QED
      BY <1>2, <3>1, PlaceIs
  <2>3. Flip(s, u[N], u[1], u[p]) = Turned(u, p)
    BY <1>3, <1>7, <2>1, <2>2 DEF Flip, Turned, Node
  <2>4. \A i \in Node : Up(1, i) = i
    BY <1>1 DEF Up, Node
  <2>5. Turned(u, p) \in [Node -> Node]
    BY <1>4 DEF Order
  <2>6. Reads(Turned(u, p), Turned(u, p))
    BY <1>1, <2>4, <2>5 DEF Reads
  <2> QED
    BY <1>4, <2>3, <2>6
<1> QED
  BY <1>5, <1>6, <1>7

-----------------------------------------------------------------------------
(* A tour made of blocks.                                                *)

\* u consists of k blocks, each from h[i] at place p[i] to e[i] at place q[i].
Blocks(u, h, e, p, q, k) ==
    /\ p[1] = 1 /\ q[k] = N
    /\ \A i \in 1..k : /\ p[i] \in Node /\ q[i] \in Node /\ p[i] <= q[i]
                       /\ h[i] = u[p[i]] /\ e[i] = u[q[i]]
    /\ \A i \in 1..k : i # k => p[i + 1] = q[i] + 1
    /\ \A i, j \in 1..k : i < j => q[i] < p[j]

\* The edges within blocks.
Within(u, q, k) == {{u[i], u[i + 1]} : i \in {i \in 1..(N - 1) : \A j \in 1..k : i # q[j]}}

\* The tour s is made of blocks, the edges within which are K.
Lay(s, K, h, e, k) ==
    /\ Order(s)
    /\ \E u, p, q : Reads(u, s) /\ Blocks(u, h, e, p, q, k) /\ K = Within(u, q, k)

\* The blocks before the m-th are turned.
FirstTurned(h, e, h2, e2, k, m) ==
    \A i \in 1..k : /\ h2[i] = IF i < m THEN e[m - i] ELSE h[i]
                    /\ e2[i] = IF i < m THEN h[m - i] ELSE e[i]

\* A flip turns the first blocks.
LEMMA FlipBlocks ==
    ASSUME NEW k \in Nat, NEW m \in 2..k, NEW s, NEW K, NEW h, NEW e, Lay(s, K, h, e, k),
           NEW h2, NEW e2, FirstTurned(h, e, h2, e2, k, m)
    PROVE  /\ Adjacent(s, e[k], h[1]) /\ h[m] # h[1]
           /\ Lay(Flip(s, e[k], h[1], h[m]), K, h2, e2, k)
<1>1. Order(s)
  BY DEF Lay
<1>2. PICK u, p, q : Reads(u, s) /\ Blocks(u, h, e, p, q, k) /\ K = Within(u, q, k)
  BY DEF Lay
<1>3. /\ N \in Nat /\ N >= 5 /\ 1 \in Node /\ N \in Node
      /\ m \in 1..k /\ 1 \in 1..k /\ k \in 1..k
  BY NodesAre
<1>0. \A i \in 1..k : /\ h2[i] = IF i < m THEN e[m - i] ELSE h[i]
                      /\ e2[i] = IF i < m THEN h[m - i] ELSE e[i]
  BY DEF FirstTurned
<1>4. /\ p[1] = 1 /\ q[k] = N
      /\ \A i \in 1..k : /\ p[i] \in 1..N /\ q[i] \in 1..N /\ p[i] <= q[i]
                         /\ h[i] = u[p[i]] /\ e[i] = u[q[i]]
      /\ \A i \in 1..k : i # k => p[i + 1] = q[i] + 1
      /\ \A i, j \in 1..k : i < j => q[i] < p[j]
  BY <1>2 DEF Blocks, Node
<1>5. h[1] = u[1] /\ e[k] = u[N] /\ h[m] = u[p[m]] /\ p[m] \in Node /\ p[m] # 1
  <2>1. q[1] < p[m] /\ q[1] \in 1..N /\ p[m] \in 1..N
    BY <1>3, <1>4
  <2> QED
    BY <1>3, <1>4, <2>1 DEF Node
<1>6. Order(u)
  BY <1>1, <1>2, ReadingIsOrder
<1>7. Adjacent(s, e[k], h[1])
  BY <1>1, <1>2, <1>3, <1>5, ReadingAdjacent
<1>8. h[m] # h[1]
  <2>1. u[p[m]] = u[1] => p[m] = 1
    BY <1>3, <1>5, <1>6 DEF Order
  <2> QED
    BY <1>5, <2>1
<1> DEFINE v == Turned(u, p[m])
           s2 == Flip(s, e[k], h[1], h[m])
           p2 == [i \in 1..k |-> IF i < m THEN p[m] - q[m - i] ELSE p[i]]
           q2 == [i \in 1..k |-> IF i < m THEN p[m] - p[m - i] ELSE q[i]]
<1>9. Order(s2) /\ Reads(v, s2)
  BY <1>1, <1>2, <1>5, FlipTurns
<1>10. \A i \in 1..k : i < m => /\ m - i \in 1..k /\ m - i < m
                                /\ p[m - i] \in 1..N /\ q[m - i] \in 1..N
                                /\ p[m - i] <= q[m - i] /\ q[m - i] < p[m]
  <2> SUFFICES ASSUME NEW i \in 1..k, i < m
               PROVE  /\ m - i \in 1..k /\ m - i < m
                      /\ p[m - i] \in 1..N /\ q[m - i] \in 1..N
                      /\ p[m - i] <= q[m - i] /\ q[m - i] < p[m]
    OBVIOUS
  <2>1. m - i \in 1..k /\ m - i < m
    BY <1>3
  <2> QED
    BY <1>3, <1>4, <2>1
<1>11. ASSUME NEW i \in 1..k
       PROVE  /\ p2[i] \in 1..N /\ q2[i] \in 1..N /\ p2[i] <= q2[i]
              /\ h2[i] = v[p2[i]] /\ e2[i] = v[q2[i]]
  <2>1. CASE i < m
    <3>1. p2[i] = p[m] - q[m - i] /\ q2[i] = p[m] - p[m - i]
      BY <2>1
    <3>2. h2[i] = e[m - i] /\ e2[i] = h[m - i]
      BY <1>0, <2>1
    <3>3. e[m - i] = u[q[m - i]] /\ h[m - i] = u[p[m - i]]
      BY <1>4, <1>10, <2>1
    <3>4. p[m] \in 1..N /\ p[m - i] \in 1..N /\ q[m - i] \in 1..N
          /\ p[m - i] <= q[m - i] /\ q[m - i] < p[m]
      BY <1>3, <1>4, <1>10, <2>1
    <3>5. /\ p2[i] \in 1..N /\ q2[i] \in 1..N /\ p2[i] <= q2[i]
          /\ p2[i] < p[m] /\ q2[i] < p[m]
      BY <1>3, <3>1, <3>4
    <3>6. p[m] - p2[i] = q[m - i] /\ p[m] - q2[i] = p[m - i]
      BY <3>1, <3>4
    <3>7. v[p2[i]] = u[p[m] - p2[i]] /\ v[q2[i]] = u[p[m] - q2[i]]
      <4> HIDE DEF p2, q2
      <4> QED
        BY <3>5 DEF Turned, Node
    <3> QED
      BY <3>2, <3>3, <3>5, <3>6, <3>7
  <2>2. CASE ~(i < m)
    <3>1. p2[i] = p[i] /\ q2[i] = q[i] /\ h2[i] = h[i] /\ e2[i] = e[i]
      BY <1>0, <2>2
    <3>2. /\ p[i] \in 1..N /\ q[i] \in 1..N /\ p[i] <= q[i]
          /\ h[i] = u[p[i]] /\ e[i] = u[q[i]]
      BY <1>4
    <3>3. p[m] <= p[i] /\ p[m] \in 1..N
      BY <1>3, <1>4, <2>2
    <3>4. v[p[i]] = u[p[i]] /\ v[q[i]] = u[q[i]]
      BY <3>2, <3>3 DEF Turned, Node
    <3> QED
      BY <3>1, <3>2, <3>4
  <2> QED
    BY <2>1, <2>2
<1>12. p2[1] = 1 /\ q2[k] = N
  <2>1. p2[1] = p[m] - q[m - 1] /\ m - 1 \in 1..k /\ m - 1 # k
    BY <1>3
  <2>2. p[m - 1 + 1] = q[m - 1] + 1 /\ q[m - 1] \in 1..N /\ p[m] \in 1..N /\ m - 1 + 1 = m
    BY <1>3, <1>4, <2>1
  <2>3. q2[k] = q[k]
    BY <1>3
  <2> QED
    BY <1>4, <2>1, <2>2, <2>3
<1>13. ASSUME NEW i \in 1..k, i # k PROVE p2[i + 1] = q2[i] + 1
  <2>1. CASE i + 1 < m
    <3>1. p2[i + 1] = p[m] - q[m - (i + 1)] /\ q2[i] = p[m] - p[m - i]
      BY <1>3, <2>1
    <3>2. m - (i + 1) \in 1..k /\ m - (i + 1) # k /\ m - (i + 1) + 1 = m - i
      BY <1>3, <2>1
    <3>3. p[m - i] = q[m - (i + 1)] + 1 /\ q[m - (i + 1)] \in 1..N /\ p[m] \in 1..N
      BY <1>3, <1>4, <3>2
    <3> HIDE DEF p2, q2
    <3> QED
      BY <3>1, <3>3
  <2>2. CASE i + 1 = m
    <3>1. p2[i + 1] = p[m] /\ q2[i] = p[m] - p[1]
      BY <1>3, <2>2
    <3> QED
      BY <1>3, <1>4, <3>1
  <2>3. CASE i + 1 > m
    <3>1. i + 1 \in 1..k /\ ~(i + 1 < m) /\ ~(i < m)
      BY <1>3, <1>13, <2>3
    <3>2. p2[i + 1] = p[i + 1] /\ q2[i] = q[i]
      BY <3>1
    <3> QED
      BY <1>4, <1>13, <3>2
  <2> QED
    BY <1>3, <2>1, <2>2, <2>3
<1>14. ASSUME NEW i \in 1..k, NEW j \in 1..k, i < j PROVE q2[i] < p2[j]
  <2>1. CASE j < m
    <3>1. q2[i] = p[m] - p[m - i] /\ p2[j] = p[m] - q[m - j]
      BY <1>14, <2>1
    <3>2. m - j \in 1..k /\ m - i \in 1..k /\ m - j < m - i
      BY <1>3, <1>14, <2>1
    <3>3. q[m - j] < p[m - i] /\ q[m - j] \in 1..N /\ p[m - i] \in 1..N /\ p[m] \in 1..N
      BY <1>3, <1>4, <3>2
    <3> QED
      BY <3>1, <3>3
  <2>2. CASE i < m /\ j >= m
    <3>1. q2[i] = p[m] - p[m - i] /\ p2[j] = p[j]
      BY <2>2
    <3>2. p[m] <= p[j] /\ p[m] \in 1..N /\ p[j] \in 1..N
      BY <1>3, <1>4, <2>2
    <3>3. p[m - i] \in 1..N
      BY <1>10, <2>2
    <3> QED
      BY <3>1, <3>2, <3>3
  <2>3. CASE i >= m
    <3>1. q2[i] = q[i] /\ p2[j] = p[j]
      BY <1>14, <2>3
    <3> QED
      BY <1>4, <1>14, <3>1
  <2> QED
    BY <1>14, <2>1, <2>2, <2>3
<1>15. Blocks(v, h2, e2, p2, q2, k)
  <2> HIDE DEF v, p2, q2
  <2> QED
    BY <1>11, <1>12, <1>13, <1>14 DEF Blocks, Node
<1>16. /\ p[m] \in 1..N /\ p[m] = q[m - 1] + 1 /\ m - 1 \in 1..k /\ m - 1 < m
       /\ q2[m - 1] = p[m] - 1
  <2>1. m - 1 \in 1..k /\ m - 1 < m /\ m - 1 # k /\ m - 1 + 1 = m /\ m - (m - 1) = 1
    BY <1>3
  <2>2. q2[m - 1] = p[m] - p[m - (m - 1)]
    BY <2>1
  <2> HIDE DEF q2
  <2> QED
    BY <1>3, <1>4, <2>1, <2>2
<1>17. \A j \in 1..k : /\ j < m => q[j] < p[m] /\ q2[j] < p[m]
                       /\ j >= m => q[j] >= p[m] /\ q2[j] = q[j]
  <2> SUFFICES ASSUME NEW j \in 1..k
               PROVE  /\ j < m => q[j] < p[m] /\ q2[j] < p[m]
                      /\ j >= m => q[j] >= p[m] /\ q2[j] = q[j]
    OBVIOUS
  <2>1. CASE j < m
    <3>1. q2[j] = p[m] - p[m - j] /\ p[m - j] \in 1..N
      BY <1>10, <2>1
    <3> HIDE DEF q2
    <3> QED
      BY <1>3, <1>4, <1>16, <2>1, <3>1
  <2>2. CASE j >= m
    <3>1. q2[j] = q[j]
      BY <2>2
    <3>2. p[m] <= p[j] /\ p[j] <= q[j] /\ p[j] \in 1..N /\ q[j] \in 1..N
      BY <1>3, <1>4, <2>2
    <3> QED
      BY <1>3, <1>16, <2>2, <3>1, <3>2
  <2> QED
    BY <1>3, <2>1, <2>2
<1>18. ASSUME NEW i \in 1..(N - 1), \A j \in 1..k : i # q[j]
       PROVE  {u[i], u[i + 1]} \in Within(v, q2, k)
  <2>1. CASE i >= p[m]
    <3>1. v[i] = u[i] /\ v[i + 1] = u[i + 1]
      BY <1>3, <1>16, <2>1 DEF Turned, Node
    <3>2. \A j \in 1..k : i # q2[j]
      <4> HIDE DEF q2
      <4> QED
        BY <1>16, <1>17, <1>18, <1>3, <2>1
    <3> HIDE DEF v, q2
    <3> QED
      BY <3>1, <3>2 DEF Within
  <2>2. CASE i < p[m]
    <3>1. i # p[m] - 1
      BY <1>16, <1>18, <1>4
    <3> DEFINE x == p[m] - i - 1
    <3>2. x \in 1..(N - 1) /\ x \in Node /\ x + 1 \in Node /\ x < p[m] /\ x + 1 < p[m]
          /\ p[m] - x = i + 1 /\ p[m] - (x + 1) = i
      BY <1>3, <1>16, <2>2, <3>1 DEF Node
    <3>3. v[x] = u[i + 1] /\ v[x + 1] = u[i]
      <4> HIDE DEF x
      <4> QED
        BY <3>2 DEF Turned
    <3>4. ASSUME NEW j \in 1..k PROVE x # q2[j]
      <4>1. CASE j >= m
        BY <1>16, <1>17, <3>2, <4>1
      <4>2. CASE j < m
        <5>1. q2[j] = p[m] - p[m - j] /\ m - j \in 1..k /\ p[m - j] \in 1..N
          BY <1>10, <4>2
        <5>2. CASE m - j = 1
          <6>1. q2[j] = p[m] - 1
            BY <1>4, <5>1, <5>2
          <6> HIDE DEF q2
          <6> QED
            BY <6>1, <1>16
        <5>3. CASE m - j # 1
          <6>1. m - j - 1 \in 1..k /\ m - j - 1 # k /\ m - j - 1 + 1 = m - j
            BY <1>3, <5>1, <5>3
          <6>2. p[m - j] = q[m - j - 1] + 1 /\ q[m - j - 1] \in 1..N /\ i # q[m - j - 1]
            BY <1>4, <1>18, <6>1
          <6> HIDE DEF q2
          <6> QED
            BY <5>1, <6>2, <1>16
        <5> QED
          BY <5>2, <5>3
      <4> QED
        BY <1>3, <4>1, <4>2
    <3>5. {u[i], u[i + 1]} = {v[x], v[x + 1]}
      BY <3>3
    <3> HIDE DEF v, q2, x
    <3> QED
      BY <3>2, <3>4, <3>5 DEF Within
  <2> QED
    BY <1>16, <2>1, <2>2
<1>19. ASSUME NEW i \in 1..(N - 1), \A j \in 1..k : i # q2[j]
       PROVE  {v[i], v[i + 1]} \in Within(u, q, k)
  <2>1. CASE i >= p[m]
    <3>1. v[i] = u[i] /\ v[i + 1] = u[i + 1]
      BY <1>3, <1>16, <2>1 DEF Turned, Node
    <3>2. \A j \in 1..k : i # q[j]
      <4> HIDE DEF q2
      <4> QED
        BY <1>16, <1>17, <1>19, <1>3, <2>1
    <3> HIDE DEF v, q2
    <3> QED
      BY <3>1, <3>2 DEF Within
  <2>2. CASE i < p[m]
    <3>1. i # p[m] - 1
      <4> HIDE DEF q2
      <4> QED
        BY <1>16, <1>19
    <3> DEFINE x == p[m] - i - 1
    <3>2. x \in 1..(N - 1) /\ i \in Node /\ i + 1 \in Node /\ i + 1 < p[m]
          /\ p[m] - i = x + 1 /\ p[m] - (i + 1) = x
      BY <1>3, <1>16, <2>2, <3>1 DEF Node
    <3>3. v[i] = u[x + 1] /\ v[i + 1] = u[x]
      <4> HIDE DEF x
      <4> QED
        BY <2>2, <3>2 DEF Turned
    <3>4. ASSUME NEW j \in 1..k PROVE x # q[j]
      <4>1. CASE j >= m
        BY <1>16, <1>17, <3>2, <4>1
      <4>2. CASE j < m
        <5>1. j + 1 \in 1..k /\ j # k /\ p[j + 1] = q[j] + 1 /\ q[j] \in 1..N
          BY <1>3, <1>4, <4>2
        <5>2. CASE j + 1 = m
          <6>1. p[m] = q[j] + 1
            BY <5>1, <5>2
          <6> HIDE DEF x
          <6> QED
            BY <1>3, <1>16, <3>2, <5>1, <6>1
        <5>3. CASE j + 1 # m
          <6>1. m - j - 1 \in 1..k /\ m - j - 1 < m /\ m - (m - j - 1) = j + 1
            BY <1>3, <4>2, <5>3
          <6>2. q2[m - j - 1] = p[m] - p[m - (m - j - 1)]
            BY <6>1
          <6>3. q2[m - j - 1] = p[m] - p[j + 1] /\ i # q2[m - j - 1]
            <7> HIDE DEF q2
            <7> QED
              BY <1>19, <6>1, <6>2
          <6> HIDE DEF q2
          <6> QED
            BY <1>16, <5>1, <6>3
        <5> QED
          BY <5>2, <5>3
      <4> QED
        BY <1>3, <4>1, <4>2
    <3>5. {v[i], v[i + 1]} = {u[x], u[x + 1]}
      BY <3>3
    <3> HIDE DEF v, q2, x
    <3> QED
      BY <3>2, <3>4, <3>5 DEF Within
  <2> QED
    BY <1>16, <2>1, <2>2
<1>20. Within(v, q2, k) = Within(u, q, k)
  <2> HIDE DEF v, q2
  <2>1. \A x \in Within(u, q, k) : x \in Within(v, q2, k)
    BY <1>18 DEF Within
  <2>2. \A x \in Within(v, q2, k) : x \in Within(u, q, k)
    BY <1>19 DEF Within
  <2> QED
    BY <2>1, <2>2
<1> QED
  BY <1>2, <1>7, <1>8, <1>9, <1>15, <1>20 DEF Lay

\* The same tour, read from the second block on.
LEMMA RotateBlocks ==
    ASSUME NEW k \in Nat, k >= 2, NEW s, NEW K, NEW h, NEW e, Lay(s, K, h, e, k),
           NEW h2, NEW e2,
           \A i \in 1..k : /\ h2[i] = h[IF i < k THEN i + 1 ELSE 1]
                           /\ e2[i] = e[IF i < k THEN i + 1 ELSE 1]
    PROVE  Lay(s, K, h2, e2, k)
<1>1. Order(s)
  BY DEF Lay
<1>2. PICK u, p, q : Reads(u, s) /\ Blocks(u, h, e, p, q, k) /\ K = Within(u, q, k)
  BY DEF Lay
<1>3. /\ N \in Nat /\ N >= 5 /\ 1 \in Node /\ N \in Node
      /\ 1 \in 1..k /\ 2 \in 1..k /\ k \in 1..k
  BY NodesAre
<1>4. /\ p[1] = 1 /\ q[k] = N
      /\ \A i \in 1..k : /\ p[i] \in 1..N /\ q[i] \in 1..N /\ p[i] <= q[i]
                         /\ h[i] = u[p[i]] /\ e[i] = u[q[i]]
      /\ \A i \in 1..k : i # k => p[i + 1] = q[i] + 1
      /\ \A i, j \in 1..k : i < j => q[i] < p[j]
  BY <1>2 DEF Blocks, Node
<1> DEFINE c == q[1]
           v == [i \in Node |-> u[Up(c + 1, i)]]
           p2 == [i \in 1..k |-> IF i < k THEN p[i + 1] - c ELSE N + 1 - c]
           q2 == [i \in 1..k |-> IF i < k THEN q[i + 1] - c ELSE N]
<1>5. c \in 1..(N - 1) /\ p[2] = c + 1 /\ c + 1 \in Node
  <2>1. p[2] = q[1] + 1 /\ p[2] \in 1..N /\ q[1] \in 1..N
    BY <1>3, <1>4
  <2> QED
    BY <1>3, <2>1 DEF Node
<1>6. u \in [Node -> Node]
  BY <1>2 DEF Reads
<1>7. \A i \in Node : Up(c + 1, i) \in Node
  BY <1>5, UpDown
<1>8. v \in [Node -> Node] /\ \A i \in Node : v[i] = u[Up(c + 1, i)]
  BY <1>6, <1>7
<1>9. Reads(v, s)
  <2> HIDE DEF v, c
  <2> QED
    BY <1>2, <1>5, <1>8, ReadOn
<1>10. \A i \in 1..N : Up(c + 1, i) = IF i <= N - c THEN i + c ELSE i + c - N
  <2> HIDE DEF c
  <2> QED
    BY <1>3, <1>5 DEF Up
<1>11. \A i \in 1..N : v[i] = IF i <= N - c THEN u[i + c] ELSE u[i + c - N]
  <2> HIDE DEF v, c
  <2> QED
    BY <1>8, <1>10 DEF Node
<1>12. \A i \in 1..k : /\ i < k => p2[i] = p[i + 1] - c /\ q2[i] = q[i + 1] - c
                       /\ i = k => p2[i] = N + 1 - c /\ q2[i] = N
  OBVIOUS
<1>13. \A i \in 1..k : i < k => /\ i + 1 \in 1..k
                                /\ p[i + 1] \in 1..N /\ q[i + 1] \in 1..N
                                /\ p[i + 1] > c /\ p[i + 1] <= q[i + 1]
  <2> SUFFICES ASSUME NEW i \in 1..k, i < k
               PROVE  /\ i + 1 \in 1..k /\ p[i + 1] \in 1..N /\ q[i + 1] \in 1..N
                      /\ p[i + 1] > c /\ p[i + 1] <= q[i + 1]
    OBVIOUS
  <2>1. i + 1 \in 1..k /\ 1 < i + 1
    OBVIOUS
  <2>2. q[1] < p[i + 1]
    BY <1>3, <1>4, <2>1
  <2> QED
    BY <1>3, <1>4, <1>5, <2>1, <2>2
<1>14. ASSUME NEW i \in 1..k
       PROVE  /\ p2[i] \in 1..N /\ q2[i] \in 1..N /\ p2[i] <= q2[i]
              /\ h2[i] = v[p2[i]] /\ e2[i] = v[q2[i]]
  <2>1. CASE i < k
    <3>1. /\ h2[i] = h[i + 1] /\ e2[i] = e[i + 1]
          /\ p2[i] = p[i + 1] - c /\ q2[i] = q[i + 1] - c
      BY <1>12, <2>1
    <3>2. h[i + 1] = u[p[i + 1]] /\ e[i + 1] = u[q[i + 1]]
      BY <1>4, <1>13, <2>1
    <3> HIDE DEF v, p2, q2, c
    <3>3. /\ p2[i] \in 1..N /\ q2[i] \in 1..N /\ p2[i] <= q2[i]
          /\ p2[i] <= N - c /\ q2[i] <= N - c
          /\ p2[i] + c = p[i + 1] /\ q2[i] + c = q[i + 1]
      BY <1>3, <1>5, <1>13, <2>1, <3>1
    <3> QED
      BY <1>11, <3>1, <3>2, <3>3
  <2>2. CASE i = k
    <3>1. h2[i] = h[1] /\ e2[i] = e[1] /\ p2[i] = N + 1 - c /\ q2[i] = N
      BY <1>12, <2>2
    <3>2. h[1] = u[1] /\ e[1] = u[c]
      BY <1>3, <1>4
    <3> HIDE DEF v, p2, q2, c
    <3>3. /\ p2[i] \in 1..N /\ q2[i] \in 1..N /\ p2[i] <= q2[i]
          /\ p2[i] > N - c /\ q2[i] > N - c
          /\ p2[i] + c - N = 1 /\ q2[i] + c - N = c
      BY <1>3, <1>5, <3>1
    <3>4. v[p2[i]] = u[p2[i] + c - N] /\ v[q2[i]] = u[q2[i] + c - N]
      BY <1>3, <1>5, <1>11, <3>3
    <3> QED
      BY <3>1, <3>2, <3>3, <3>4
  <2> QED
    BY <2>1, <2>2
<1>15. p2[1] = 1 /\ q2[k] = N
  <2>1. p2[1] = p[2] - c /\ q2[k] = N
    BY <1>3, <1>12
  <2> HIDE DEF p2, q2, c
  <2> QED
    BY <1>5, <2>1
<1>16. ASSUME NEW i \in 1..k, i # k PROVE p2[i + 1] = q2[i] + 1
  <2>1. i < k /\ i + 1 \in 1..k /\ q2[i] = q[i + 1] - c /\ q[i + 1] \in 1..N
    BY <1>12, <1>13, <1>16
  <2>2. CASE i + 1 < k
    <3>1. p2[i + 1] = p[i + 1 + 1] - c /\ p[i + 1 + 1] = q[i + 1] + 1
      BY <1>4, <1>12, <2>1, <2>2
    <3> HIDE DEF p2, q2, c
    <3> QED
      BY <1>5, <2>1, <3>1
  <2>3. CASE i + 1 = k
    <3>1. p2[i + 1] = N + 1 - c /\ q[i + 1] = N
      BY <1>4, <1>12, <2>1, <2>3
    <3> HIDE DEF p2, q2, c
    <3> QED
      BY <1>3, <1>5, <2>1, <3>1
  <2> QED
    BY <2>1, <2>2, <2>3
<1>17. ASSUME NEW i \in 1..k, NEW j \in 1..k, i < j PROVE q2[i] < p2[j]
  <2>1. i < k /\ q2[i] = q[i + 1] - c /\ i + 1 \in 1..k /\ q[i + 1] \in 1..N
    BY <1>12, <1>13, <1>17
  <2>2. CASE j < k
    <3>1. p2[j] = p[j + 1] - c /\ q[i + 1] < p[j + 1] /\ p[j + 1] \in 1..N
      <4>1. j + 1 \in 1..k /\ i + 1 < j + 1
        BY <1>17, <2>2
      <4> QED
        BY <1>4, <1>12, <2>1, <2>2, <4>1
    <3> HIDE DEF p2, q2, c
    <3> QED
      BY <1>5, <2>1, <3>1
  <2>3. CASE j = k
    <3>1. p2[j] = N + 1 - c
      BY <1>12, <2>3
    <3> HIDE DEF p2, q2, c
    <3> QED
      BY <1>3, <1>5, <2>1, <3>1
  <2> QED
    BY <2>2, <2>3
<1>18. Blocks(v, h2, e2, p2, q2, k)
  <2> HIDE DEF v, p2, q2
  <2> QED
    BY <1>14, <1>15, <1>16, <1>17 DEF Blocks, Node
<1>19. ASSUME NEW i \in 1..(N - 1), \A j \in 1..k : i # q[j]
       PROVE  {u[i], u[i + 1]} \in Within(v, q2, k)
  <2>1. i # c
    BY <1>3, <1>19
  <2>2. CASE i > c
    <3>1. /\ i - c \in 1..(N - 1) /\ i - c <= N - c /\ i - c + 1 <= N - c
          /\ i - c \in 1..N /\ i - c + 1 \in 1..N
          /\ i - c + c = i /\ i - c + 1 + c = i + 1
      <4> HIDE DEF c
      <4> QED
        BY <1>3, <1>5, <2>2
    <3>2. v[i - c] = u[i] /\ v[i - c + 1] = u[i + 1]
      <4> HIDE DEF v, c
      <4> QED
        BY <1>11, <3>1
    <3>3. ASSUME NEW j \in 1..k PROVE i - c # q2[j]
      <4>1. CASE j < k
        <5>1. q2[j] = q[j + 1] - c /\ j + 1 \in 1..k /\ i # q[j + 1] /\ q[j + 1] \in 1..N
          BY <1>12, <1>13, <1>19, <4>1
        <5> HIDE DEF q2, c
        <5> QED
          BY <1>5, <5>1
      <4>2. CASE j = k
        <5>1. q2[j] = N
          BY <4>2, <1>12
        <5> HIDE DEF q2, c
        <5> QED
          BY <1>3, <1>5, <3>1, <5>1
      <4> QED
        BY <4>1, <4>2
    <3> DEFINE x == i - c
    <3>4. /\ x \in 1..(N - 1) /\ (\A j \in 1..k : x # q2[j])
          /\ {u[i], u[i + 1]} = {v[x], v[x + 1]}
      BY <3>1, <3>2, <3>3
    <3> HIDE DEF v, q2, x
    <3> QED
      BY <3>4 DEF Within
  <2>3. CASE i < c
    <3> DEFINE x == i + N - c
    <3>1. x \in 1..(N - 1) /\ x > N - c /\ x + 1 > N - c /\ x \in 1..N /\ x + 1 \in 1..N
          /\ x + c - N = i /\ x + 1 + c - N = i + 1
      <4> HIDE DEF c
      <4> QED
        BY <1>3, <1>5, <2>3
    <3>2. v[x] = u[i] /\ v[x + 1] = u[i + 1]
      <4>1. ~(x <= N - c) /\ ~(x + 1 <= N - c)
        BY <1>3, <1>5, <3>1
      <4> HIDE DEF v, c, x
      <4> QED
        BY <1>11, <3>1, <4>1
    <3>3. ASSUME NEW j \in 1..k PROVE x # q2[j]
      <4>1. CASE j < k
        <5>1. q2[j] = q[j + 1] - c /\ q[j + 1] \in 1..N
          BY <1>12, <1>13, <4>1
        <5> HIDE DEF q2, c, x
        <5> QED
          BY <1>3, <1>5, <3>1, <5>1
      <4>2. CASE j = k
        <5>1. q2[j] = N
          BY <4>2, <1>12
        <5> HIDE DEF q2, c, x
        <5> QED
          BY <1>3, <1>5, <3>1, <5>1
      <4> QED
        BY <4>1, <4>2
    <3>4. {u[i], u[i + 1]} = {v[x], v[x + 1]}
      BY <3>2
    <3> HIDE DEF v, q2, x
    <3> QED
      BY <3>1, <3>3, <3>4 DEF Within
  <2> QED
    BY <1>5, <2>1, <2>2, <2>3
<1>20. ASSUME NEW i \in 1..(N - 1), \A j \in 1..k : i # q2[j]
       PROVE  {v[i], v[i + 1]} \in Within(u, q, k)
  <2>1. i # N - c
    <3>1. k - 1 \in 1..k /\ k - 1 < k /\ k - 1 + 1 = k
      OBVIOUS
    <3>2. q2[k - 1] = N - c /\ i # q2[k - 1]
      BY <1>4, <1>12, <1>20, <3>1
    <3> HIDE DEF q2, c
    <3> QED
      BY <3>2
  <2>2. CASE i < N - c
    <3> DEFINE x == i + c
    <3>1. x \in 1..(N - 1) /\ i <= N - c /\ i + 1 <= N - c /\ i \in 1..N /\ i + 1 \in 1..N
          /\ i + 1 + c = x + 1 /\ x > c
      <4> HIDE DEF c
      <4> QED
        BY <1>3, <1>5, <2>2
    <3>2. v[i] = u[x] /\ v[i + 1] = u[x + 1]
      <4>1. v[i] = u[i + c] /\ v[i + 1] = u[i + 1 + c]
        <5> HIDE DEF v, c
        <5> QED
          BY <1>11, <3>1
      <4> QED
        BY <3>1, <4>1
    <3>3. ASSUME NEW j \in 1..k PROVE x # q[j]
      <4>1. CASE j = 1
        <5>1. q[j] = c
          BY <4>1
        <5> HIDE DEF c, x
        <5> QED
          BY <1>3, <1>5, <3>1, <5>1
      <4>2. CASE j # 1
        <5>1. j - 1 \in 1..k /\ j - 1 < k /\ j - 1 + 1 = j
          BY <4>2
        <5>2. q2[j - 1] = q[j] - c /\ i # q2[j - 1] /\ q[j] \in 1..N
          BY <1>4, <1>12, <1>20, <5>1
        <5> HIDE DEF q2, c
        <5> QED
          BY <1>3, <1>5, <5>2
      <4> QED
        BY <4>1, <4>2
    <3>4. {v[i], v[i + 1]} = {u[x], u[x + 1]}
      BY <3>2
    <3> HIDE DEF v, x
    <3> QED
      BY <3>1, <3>3, <3>4 DEF Within
  <2>3. CASE i > N - c
    <3> DEFINE x == i + c - N
    <3>1. /\ x \in 1..(N - 1) /\ ~(i <= N - c) /\ ~(i + 1 <= N - c)
          /\ i \in 1..N /\ i + 1 \in 1..N
          /\ i + 1 + c - N = x + 1 /\ x < c
      <4> HIDE DEF c
      <4> QED
        BY <1>3, <1>5, <2>3
    <3>2. v[i] = u[x] /\ v[i + 1] = u[x + 1]
      <4>1. v[i] = u[i + c - N] /\ v[i + 1] = u[i + 1 + c - N]
        <5> HIDE DEF v, c
        <5> QED
          BY <1>11, <3>1
      <4> QED
        BY <3>1, <4>1
    <3>3. ASSUME NEW j \in 1..k PROVE x # q[j]
      <4>1. CASE j = 1
        <5>1. q[j] = c
          BY <4>1
        <5> HIDE DEF c, x
        <5> QED
          BY <1>3, <1>5, <3>1, <5>1
      <4>2. CASE j # 1
        <5>1. q[1] < p[j] /\ p[j] <= q[j] /\ q[j] \in 1..N /\ p[j] \in 1..N
          BY <1>3, <1>4, <4>2
        <5> HIDE DEF x
        <5> QED
          BY <1>3, <1>5, <3>1, <5>1
      <4> QED
        BY <4>1, <4>2
    <3>4. {v[i], v[i + 1]} = {u[x], u[x + 1]}
      BY <3>2
    <3> HIDE DEF v, x
    <3> QED
      BY <3>1, <3>3, <3>4 DEF Within
  <2> QED
    BY <1>3, <1>5, <2>1, <2>2, <2>3
<1>21. Within(v, q2, k) = Within(u, q, k)
  <2> HIDE DEF v, q2
  <2>1. \A x \in Within(u, q, k) : x \in Within(v, q2, k)
    BY <1>19 DEF Within
  <2>2. \A x \in Within(v, q2, k) : x \in Within(u, q, k)
    BY <1>20 DEF Within
  <2> QED
    BY <2>1, <2>2
<1> QED
  BY <1>1, <1>2, <1>9, <1>18, <1>21 DEF Lay

\* The same tour, read backwards.
LEMMA ReverseBlocks ==
    ASSUME NEW k \in Nat, k >= 1, NEW s, NEW K, NEW h, NEW e, Lay(s, K, h, e, k),
           NEW h2, NEW e2,
           \A i \in 1..k : h2[i] = e[k + 1 - i] /\ e2[i] = h[k + 1 - i]
    PROVE  Lay(s, K, h2, e2, k)
<1>1. Order(s)
  BY DEF Lay
<1>2. PICK u, p, q : Reads(u, s) /\ Blocks(u, h, e, p, q, k) /\ K = Within(u, q, k)
  BY DEF Lay
<1>3. N \in Nat /\ N >= 5 /\ 1 \in Node /\ N \in Node /\ 1 \in 1..k /\ k \in 1..k
  BY NodesAre
<1>4. /\ p[1] = 1 /\ q[k] = N
      /\ \A i \in 1..k : /\ p[i] \in 1..N /\ q[i] \in 1..N /\ p[i] <= q[i]
                         /\ h[i] = u[p[i]] /\ e[i] = u[q[i]]
      /\ \A i \in 1..k : i # k => p[i + 1] = q[i] + 1
      /\ \A i, j \in 1..k : i < j => q[i] < p[j]
  BY <1>2 DEF Blocks, Node
<1> DEFINE v == [i \in Node |-> u[N + 1 - i]]
           p2 == [i \in 1..k |-> N + 1 - q[k + 1 - i]]
           q2 == [i \in 1..k |-> N + 1 - p[k + 1 - i]]
<1>5. u \in [Node -> Node]
  BY <1>2 DEF Reads
<1>6. \A i \in Node : Down(N, i) = N + 1 - i /\ N + 1 - i \in Node
  BY <1>3 DEF Down, Node
<1>7. v \in [Node -> Node] /\ \A i \in Node : v[i] = u[N + 1 - i]
  BY <1>5, <1>6
<1>8. Reads(v, s)
  <2>1. \A i \in Node : v[i] = u[Down(N, i)]
    BY <1>6, <1>7
  <2> HIDE DEF v
  <2> QED
    BY <1>2, <1>3, <1>7, <2>1, ReadBack
<1>9. \A i \in 1..k : /\ k + 1 - i \in 1..k
                      /\ p2[i] = N + 1 - q[k + 1 - i] /\ q2[i] = N + 1 - p[k + 1 - i]
  OBVIOUS
<1>10. ASSUME NEW i \in 1..k
       PROVE  /\ p2[i] \in 1..N /\ q2[i] \in 1..N /\ p2[i] <= q2[i]
              /\ h2[i] = v[p2[i]] /\ e2[i] = v[q2[i]]
  <2> DEFINE j == k + 1 - i
  <2>1. /\ j \in 1..k /\ p2[i] = N + 1 - q[j] /\ q2[i] = N + 1 - p[j]
        /\ h2[i] = e[j] /\ e2[i] = h[j]
    BY <1>9
  <2> HIDE DEF j, p2, q2, v
  <2>2. p[j] \in 1..N /\ q[j] \in 1..N /\ p[j] <= q[j] /\ h[j] = u[p[j]] /\ e[j] = u[q[j]]
    BY <1>4, <2>1
  <2>3. /\ p2[i] \in 1..N /\ q2[i] \in 1..N /\ p2[i] <= q2[i]
        /\ N + 1 - p2[i] = q[j] /\ N + 1 - q2[i] = p[j]
    BY <1>3, <2>1, <2>2
  <2> QED
    BY <1>7, <2>1, <2>2, <2>3 DEF Node
<1>11. p2[1] = 1 /\ q2[k] = N
  <2>1. /\ p2[1] = N + 1 - q[k + 1 - 1] /\ q2[k] = N + 1 - p[k + 1 - k]
        /\ k + 1 - 1 = k /\ k + 1 - k = 1
    BY <1>3, <1>9
  <2> HIDE DEF p2, q2
  <2> QED
    BY <1>3, <1>4, <2>1
<1>12. ASSUME NEW i \in 1..k, i # k PROVE p2[i + 1] = q2[i] + 1
  <2>1. /\ i + 1 \in 1..k /\ k - i \in 1..k /\ k - i # k
        /\ k + 1 - (i + 1) = k - i /\ k - i + 1 = k + 1 - i
    BY <1>12
  <2>2. p2[i + 1] = N + 1 - q[k - i] /\ q2[i] = N + 1 - p[k + 1 - i]
    BY <1>9, <2>1
  <2>3. p[k - i + 1] = q[k - i] + 1 /\ q[k - i] \in 1..N
    BY <1>4, <2>1
  <2>4. p[k + 1 - i] = q[k - i] + 1
    BY <2>1, <2>3
  <2> HIDE DEF p2, q2
  <2> QED
    BY <1>3, <2>2, <2>3, <2>4
<1>13. ASSUME NEW i \in 1..k, NEW j \in 1..k, i < j PROVE q2[i] < p2[j]
  <2>1. q2[i] = N + 1 - p[k + 1 - i] /\ p2[j] = N + 1 - q[k + 1 - j]
    BY <1>9
  <2>2. k + 1 - i \in 1..k /\ k + 1 - j \in 1..k /\ k + 1 - j < k + 1 - i
    BY <1>13
  <2>3. q[k + 1 - j] < p[k + 1 - i] /\ q[k + 1 - j] \in 1..N /\ p[k + 1 - i] \in 1..N
    BY <1>4, <2>2
  <2> HIDE DEF p2, q2
  <2> QED
    BY <1>3, <2>1, <2>3
<1>14. Blocks(v, h2, e2, p2, q2, k)
  <2> HIDE DEF v, p2, q2
  <2> QED
    BY <1>10, <1>11, <1>12, <1>13 DEF Blocks, Node
<1>15. ASSUME NEW i \in 1..(N - 1), \A j \in 1..k : i # q[j]
       PROVE  {u[i], u[i + 1]} \in Within(v, q2, k)
  <2> DEFINE x == N - i
  <2>1. /\ x \in 1..(N - 1) /\ x \in Node /\ x + 1 \in Node
        /\ N + 1 - x = i + 1 /\ N + 1 - (x + 1) = i
    BY <1>3 DEF Node
  <2>2. v[x] = u[i + 1] /\ v[x + 1] = u[i]
    <3> HIDE DEF v, x
    <3> QED
      BY <1>7, <2>1
  <2>3. ASSUME NEW j \in 1..k PROVE x # q2[j]
    <3>1. q2[j] = N + 1 - p[k + 1 - j] /\ k + 1 - j \in 1..k /\ p[k + 1 - j] \in 1..N
      BY <1>4, <1>9
    <3>2. CASE j = k
      <4>1. q2[j] = N
        BY <3>2, <1>11
      <4> HIDE DEF q2
      <4> QED
        BY <1>3, <4>1
    <3>3. CASE j # k
      <4>1. k - j \in 1..k /\ k - j # k /\ k - j + 1 = k + 1 - j
        BY <3>3
      <4>2. p[k + 1 - j] = q[k - j] + 1 /\ q[k - j] \in 1..N /\ i # q[k - j]
        <5>1. p[k - j + 1] = q[k - j] + 1 /\ q[k - j] \in 1..N /\ i # q[k - j]
          BY <1>4, <1>15, <4>1
        <5> QED
          BY <4>1, <5>1
      <4> HIDE DEF q2
      <4> QED
        BY <1>3, <3>1, <4>2
    <3> QED
      BY <3>2, <3>3
  <2>4. {u[i], u[i + 1]} = {v[x], v[x + 1]}
    BY <2>2
  <2> HIDE DEF v, q2, x
  <2> QED
    BY <2>1, <2>3, <2>4 DEF Within
<1>16. ASSUME NEW i \in 1..(N - 1), \A j \in 1..k : i # q2[j]
       PROVE  {v[i], v[i + 1]} \in Within(u, q, k)
  <2> DEFINE x == N - i
  <2>1. /\ x \in 1..(N - 1) /\ i \in Node /\ i + 1 \in Node
        /\ N + 1 - i = x + 1 /\ N + 1 - (i + 1) = x
    BY <1>3 DEF Node
  <2>2. v[i] = u[x + 1] /\ v[i + 1] = u[x]
    <3>1. v[i] = u[N + 1 - i] /\ v[i + 1] = u[N + 1 - (i + 1)]
      <4> HIDE DEF v
      <4> QED
        BY <1>7, <2>1
    <3> QED
      BY <2>1, <3>1
  <2>3. ASSUME NEW j \in 1..k PROVE x # q[j]
    <3>1. CASE j = k
      BY <1>3, <1>4, <2>1, <3>1
    <3>2. CASE j # k
      <4>1. k - j \in 1..k /\ k + 1 - (k - j) = j + 1
        BY <3>2
      <4>2. q2[k - j] = N + 1 - p[j + 1] /\ i # q2[k - j]
        BY <1>9, <1>16, <4>1
      <4>3. p[j + 1] = q[j] + 1 /\ q[j] \in 1..N
        BY <1>4, <3>2
      <4> HIDE DEF q2
      <4> QED
        BY <1>3, <4>2, <4>3
    <3> QED
      BY <3>1, <3>2
  <2>4. {v[i], v[i + 1]} = {u[x], u[x + 1]}
    BY <2>2
  <2> HIDE DEF v, x
  <2> QED
    BY <2>1, <2>3, <2>4 DEF Within
<1>17. Within(v, q2, k) = Within(u, q, k)
  <2> HIDE DEF v, q2
  <2>1. \A x \in Within(u, q, k) : x \in Within(v, q2, k)
    BY <1>15 DEF Within
  <2>2. \A x \in Within(v, q2, k) : x \in Within(u, q, k)
    BY <1>16 DEF Within
  <2> QED
    BY <2>1, <2>2
<1> QED
  BY <1>1, <1>2, <1>8, <1>14, <1>17 DEF Lay

-----------------------------------------------------------------------------
(* The edges of a tour made of blocks.                                   *)

\* The place after i of k, around.
After(i, k) == IF i = k THEN 1 ELSE i + 1

\* The edges of a tour, without the remainder.
LEMMA EdgesAre == \A s : TourEdges(s) = {{s[i], s[After(i, N)]} : i \in Node}
<1> SUFFICES ASSUME NEW s PROVE TourEdges(s) = {{s[i], s[After(i, N)]} : i \in Node}
  OBVIOUS
<1>1. \A i \in Node : (i % N) + 1 = After(i, N)
  BY Following DEF After
<1>2. TourEdges(s) = {{s[i], s[(i % N) + 1]} : i \in Node}
  BY DEF TourEdges, Node
<1> QED
  BY <1>1, <1>2

\* A reading has the same edges.
LEMMA ReadingEdges ==
    ASSUME NEW s, NEW u, Reads(u, s)
    PROVE  TourEdges(u) = TourEdges(s)
<1>1. PICK q \in Node : \/ \A i \in Node : u[i] = s[Up(q, i)]
                       \/ \A i \in Node : u[i] = s[Down(q, i)]
  BY DEF Reads
<1>2. N \in Nat /\ N >= 5 /\ q \in 1..N
  BY NodesAre DEF Node
<1>3. \A i \in Node : After(i, N) \in Node
  BY <1>2 DEF After, Node
<1>4. CASE \A i \in Node : u[i] = s[Up(q, i)]
  <2>1. \A i \in Node : Up(q, i) \in Node /\ Up(q, After(i, N)) = After(Up(q, i), N)
    BY <1>2 DEF Up, After, Node
  <2>2. \A i \in Node : {u[i], u[After(i, N)]} = {s[Up(q, i)], s[After(Up(q, i), N)]}
    BY <1>3, <1>4, <2>1
  <2>3. \A j \in Node : \E i \in Node : Up(q, i) = j
    BY UpDown
  <2>4. \A x \in TourEdges(u) : x \in TourEdges(s)
    BY <2>1, <2>2, EdgesAre
  <2>5. \A x \in TourEdges(s) : x \in TourEdges(u)
    BY <2>2, <2>3, EdgesAre
  <2> QED
    BY <2>4, <2>5
<1>5. CASE \A i \in Node : u[i] = s[Down(q, i)]
  <2>1. \A i \in Node : /\ Down(q, i) \in Node /\ Down(q, After(i, N)) \in Node
                        /\ After(Down(q, After(i, N)), N) = Down(q, i)
    BY <1>2 DEF Down, After, Node
  <2>2. \A i \in Node : {u[i], u[After(i, N)]}
                        = {s[Down(q, After(i, N))], s[After(Down(q, After(i, N)), N)]}
    <3> SUFFICES ASSUME NEW i \in Node
                 PROVE  {u[i], u[After(i, N)]}
                        = {s[Down(q, After(i, N))], s[After(Down(q, After(i, N)), N)]}
      OBVIOUS
    <3>1. u[i] = s[Down(q, i)] /\ u[After(i, N)] = s[Down(q, After(i, N))]
      BY <1>3, <1>5
    <3> QED
      BY <2>1, <3>1
  <2>3. ASSUME NEW j \in Node PROVE \E i \in Node : Down(q, After(i, N)) = j
    <3>1. PICK i \in Node : Down(q, i) = j
      BY UpDown
    <3>2. /\ (IF i = 1 THEN N ELSE i - 1) \in Node
          /\ After(IF i = 1 THEN N ELSE i - 1, N) = i
      BY <1>2 DEF After, Node
    <3> QED
      BY <3>1, <3>2
  <2>4. \A x \in TourEdges(u) : x \in TourEdges(s)
    BY <2>1, <2>2, EdgesAre
  <2>5. ASSUME NEW x \in TourEdges(s) PROVE x \in TourEdges(u)
    <3>1. PICK j \in Node : x = {s[j], s[After(j, N)]}
      BY EdgesAre
    <3>2. PICK i \in Node : Down(q, After(i, N)) = j
      BY <2>3
    <3> QED
      BY <2>2, <3>1, <3>2, EdgesAre
  <2> QED
    BY <2>4, <2>5
<1> QED
  BY <1>1, <1>4, <1>5

\* The edges between blocks.
Between(h, e, k) == {{e[i], h[After(i, k)]} : i \in 1..k}

\* The edges of a tour are those within its blocks and those between them.
LEMMA BlockEdges ==
    ASSUME NEW k \in Nat, k >= 1, NEW s, NEW K, NEW h, NEW e, Lay(s, K, h, e, k)
    PROVE  TourEdges(s) = K \cup Between(h, e, k)
<1>1. PICK u, p, q : Reads(u, s) /\ Blocks(u, h, e, p, q, k) /\ K = Within(u, q, k)
  BY DEF Lay
<1>2. N \in Nat /\ N >= 5 /\ 1 \in 1..k
  BY NodesAre
<1>3. /\ p[1] = 1 /\ q[k] = N
      /\ \A i \in 1..k : /\ p[i] \in 1..N /\ q[i] \in 1..N
                         /\ h[i] = u[p[i]] /\ e[i] = u[q[i]]
      /\ \A i \in 1..k : i # k => p[i + 1] = q[i] + 1
  BY <1>1 DEF Blocks, Node
<1>4. ASSUME NEW i \in 1..k
      PROVE  {e[i], h[After(i, k)]} = {u[q[i]], u[After(q[i], N)]} /\ q[i] \in Node
  <2>1. CASE i = k
    BY <1>2, <1>3, <2>1 DEF After, Node
  <2>2. CASE i # k
    <3>1. i + 1 \in 1..k /\ After(i, k) = i + 1
      BY <2>2 DEF After
    <3>2. p[i + 1] = q[i] + 1 /\ p[i + 1] \in 1..N /\ q[i] \in 1..N
      BY <1>3, <2>2, <3>1
    <3>3. After(q[i], N) = p[i + 1]
      BY <1>2, <3>2 DEF After
    <3> QED
      BY <1>3, <3>1, <3>2, <3>3 DEF Node
  <2> QED
    BY <2>1, <2>2
<1>5. TourEdges(s) = {{u[i], u[After(i, N)]} : i \in Node}
  BY <1>1, ReadingEdges, EdgesAre
<1>6. ASSUME NEW x \in TourEdges(s) PROVE x \in K \cup Between(h, e, k)
  <2>1. PICK i \in Node : x = {u[i], u[After(i, N)]}
    BY <1>5
  <2>2. CASE \E j \in 1..k : i = q[j]
    BY <1>4, <2>1, <2>2 DEF Between
  <2>3. CASE \A j \in 1..k : i # q[j]
    <3>1. i # N
      BY <1>2, <1>3, <2>3
    <3>2. i \in 1..(N - 1) /\ After(i, N) = i + 1
      BY <1>2, <3>1 DEF After, Node
    <3> QED
      BY <1>1, <2>1, <2>3, <3>2 DEF Within
  <2> QED
    BY <2>2, <2>3
<1>7. ASSUME NEW x \in K PROVE x \in TourEdges(s)
  <2>1. PICK i \in 1..(N - 1) : x = {u[i], u[i + 1]}
    BY <1>1 DEF Within
  <2>2. i \in Node /\ After(i, N) = i + 1
    BY <1>2 DEF After, Node
  <2> QED
    BY <1>5, <2>1, <2>2
<1>8. ASSUME NEW x \in Between(h, e, k) PROVE x \in TourEdges(s)
  BY <1>4, <1>5 DEF Between
<1> QED
  BY <1>6, <1>7, <1>8

\* The tour at the call, cut into blocks.
Start == [i \in 1..N |-> i]

\* Its edges.
Orig == {{x, SUC(x)} : x \in Node}

\* It is cut into parts from h[i] to e[i].
Cut(h, e, k) ==
    /\ h[1] = 1 /\ e[k] = N
    /\ \A i \in 1..k : h[i] \in Node /\ e[i] \in Node /\ h[i] <= e[i]
    /\ \A i \in 1..k : i # k => h[i + 1] = e[i] + 1
    /\ \A i, j \in 1..k : i < j => e[i] < h[j]

\* A tour that is cut at edges consists of blocks with these edges between them.
LEMMA StartBlocks ==
    ASSUME NEW k \in Nat, k >= 1, NEW h, NEW e, Cut(h, e, k)
    PROVE  Lay(Start, Orig \ Between(h, e, k), h, e, k)
<1>1. N \in Nat /\ N >= 5 /\ 1 \in Node /\ 1 \in 1..k /\ k \in 1..k
  BY NodesAre
<1>2. \A x \in Node : SUC(x) = After(x, N)
  BY Following DEF SUC, After
<1>3. Order(Start)
  BY DEF Order, Start, Node
<1>4. Reads(Start, Start)
  <2>1. Start \in [Node -> Node]
    BY <1>3 DEF Order
  <2>2. \A i \in Node : Start[i] = Start[Up(1, i)]
    BY <1>1 DEF Up, Node
  <2> QED
    BY <1>1, <2>1, <2>2 DEF Reads
<1>5. Blocks(Start, h, e, h, e, k)
  <2>1. \A i \in Node : Start[i] = i
    BY DEF Start, Node
  <2> QED
    BY <2>1 DEF Cut, Blocks
<1>6. /\ h[1] = 1 /\ e[k] = N
      /\ \A i \in 1..k : h[i] \in 1..N /\ e[i] \in 1..N
      /\ \A i \in 1..k : i # k => h[i + 1] = e[i] + 1
  BY DEF Cut, Node
<1>7. ASSUME NEW i \in 1..(N - 1), \A j \in 1..k : i # e[j]
      PROVE  {i, i + 1} \in {{x, SUC(x)} : x \in Node} \ Between(h, e, k)
  <2>1. i \in Node /\ SUC(i) = i + 1
    BY <1>1, <1>2 DEF After, Node
  <2>2. ASSUME NEW j \in 1..k PROVE {i, i + 1} # {e[j], h[After(j, k)]}
    <3>1. CASE j = k
      BY <1>1, <1>6, <3>1 DEF After
    <3>2. CASE j # k
      <4>1. After(j, k) = j + 1 /\ h[j + 1] = e[j] + 1 /\ e[j] \in 1..N /\ i # e[j]
        BY <1>6, <1>7, <3>2 DEF After
      <4> QED
        BY <1>1, <4>1
    <3> QED
      BY <3>1, <3>2
  <2> QED
    BY <2>1, <2>2 DEF Between
<1>8. ASSUME NEW x \in Node, {x, SUC(x)} \notin Between(h, e, k)
      PROVE  x \in 1..(N - 1) /\ SUC(x) = x + 1 /\ \A j \in 1..k : x # e[j]
  <2>1. ASSUME NEW j \in 1..k, x = e[j] PROVE FALSE
    <3>1. CASE j = k
      BY <1>1, <1>2, <1>6, <1>8, <2>1, <3>1 DEF After, Between
    <3>2. CASE j # k
      <4>1. After(j, k) = j + 1 /\ h[j + 1] = x + 1 /\ j + 1 \in 1..k
        BY <1>6, <2>1, <3>2 DEF After
      <4>2. x + 1 \in 1..N
        BY <1>6, <4>1
      <4>3. SUC(x) = h[After(j, k)]
        BY <1>1, <1>2, <4>1, <4>2 DEF After, Node
      <4> QED
        BY <1>8, <2>1, <4>3 DEF Between
    <3> QED
      BY <3>1, <3>2
  <2>2. x # N
    BY <1>1, <1>6, <2>1
  <2> QED
    BY <1>1, <1>2, <2>1, <2>2 DEF After, Node
<1>9. \A i \in 1..(N - 1) : {Start[i], Start[i + 1]} = {i, i + 1}
  BY <1>1 DEF Start
<1>10. Within(Start, e, k) = {{x, SUC(x)} : x \in Node} \ Between(h, e, k)
  <2>1. ASSUME NEW x \in Within(Start, e, k)
        PROVE  x \in {{y, SUC(y)} : y \in Node} \ Between(h, e, k)
    <3>1. PICK i \in 1..(N - 1) : /\ \A j \in 1..k : i # e[j]
                                 /\ x = {Start[i], Start[i + 1]}
      BY DEF Within
    <3>2. x = {i, i + 1}
      BY <1>9, <3>1
    <3> QED
      BY <1>7, <3>1, <3>2
  <2>2. \A x \in {{y, SUC(y)} : y \in Node} \ Between(h, e, k) : x \in Within(Start, e, k)
    BY <1>8, <1>9 DEF Within
  <2> QED
    BY <2>1, <2>2
<1> QED
  BY <1>3, <1>4, <1>5, <1>10 DEF Lay, Orig

-----------------------------------------------------------------------------
(* Sequences of swaps that make an exchange.                             *)

\* The edges that a move leaves in the tour.
Kept(s) == Orig \ Removed(s)

\* What is asked of the tour r when Swap1 is called with t_a, t_b and t_c.
Fits(r, s, a, b, c) == Adjacent(r, s[a], s[b]) /\ c # b /\ s[c] # s[b]

\* Swap1, by indices.
Turn(r, s, a, b, c) == Flip(r, s[a], s[b], s[c])

\* The swaps of w from the j-th of its numbers on can be made on the tour r and
\* end with the exchange: P holds what there is before and after each of them.
Leads(r, s, w, j) ==
    \E P : /\ <<r, j>> \in P
           /\ \A r1, j1 : <<r1, j1>> \in P =>
                  IF j1 > Len(w) THEN TourEdges(r1) = Kept(s) \cup Added(s)
                  ELSE /\ Fits(r1, s, w[j1], w[j1 + 1], w[j1 + 2])
                       /\ <<Turn(r1, s, w[j1], w[j1 + 1], w[j1 + 2]), j1 + 3>> \in P

\* The first of the swaps fits, and the others lead on from what it does.
LEMMA LeadsOn ==
    ASSUME NEW r, NEW s, NEW w, NEW j, Leads(r, s, w, j), ~(j > Len(w))
    PROVE  /\ Fits(r, s, w[j], w[j + 1], w[j + 2])
           /\ Leads(Turn(r, s, w[j], w[j + 1], w[j + 2]), s, w, j + 3)
BY DEF Leads

\* After the last of them the exchange is made.
LEMMA LeadsToExchange ==
    ASSUME NEW r, NEW s, NEW w, NEW j, Leads(r, s, w, j), j > Len(w)
    PROVE  TourEdges(r) = Kept(s) \cup Added(s)
BY DEF Leads

\* No swap is left, and the exchange is made.
LEMMA LeadsAtEnd ==
    ASSUME NEW r, NEW s, NEW w, NEW j, j > Len(w), TourEdges(r) = Kept(s) \cup Added(s)
    PROVE  Leads(r, s, w, j)
<1> DEFINE P == {<<r, j>>}
<1>1. <<r, j>> \in P /\ \A r1, j1 : <<r1, j1>> \in P => r1 = r /\ j1 = j
  OBVIOUS
<1> HIDE DEF P
<1> QED
  BY <1>1 DEF Leads

\* A swap that fits, before swaps that lead on from what it does.
LEMMA LeadsBefore ==
    ASSUME NEW r, NEW s, NEW w, NEW j, ~(j > Len(w)),
           Fits(r, s, w[j], w[j + 1], w[j + 2]),
           Leads(Turn(r, s, w[j], w[j + 1], w[j + 2]), s, w, j + 3)
    PROVE  Leads(r, s, w, j)
<1> DEFINE r2 == Turn(r, s, w[j], w[j + 1], w[j + 2])
<1>1. PICK P : /\ <<r2, j + 3>> \in P
               /\ \A r1, j1 : <<r1, j1>> \in P =>
                      IF j1 > Len(w) THEN TourEdges(r1) = Kept(s) \cup Added(s)
                      ELSE /\ Fits(r1, s, w[j1], w[j1 + 1], w[j1 + 2])
                           /\ <<Turn(r1, s, w[j1], w[j1 + 1], w[j1 + 2]), j1 + 3>> \in P
  BY DEF Leads
<1> DEFINE Q == P \cup {<<r, j>>}
<1>2. <<r, j>> \in Q
  OBVIOUS
<1>3. ASSUME NEW r1, NEW j1, <<r1, j1>> \in Q
      PROVE  IF j1 > Len(w) THEN TourEdges(r1) = Kept(s) \cup Added(s)
             ELSE /\ Fits(r1, s, w[j1], w[j1 + 1], w[j1 + 2])
                  /\ <<Turn(r1, s, w[j1], w[j1 + 1], w[j1 + 2]), j1 + 3>> \in Q
  <2>1. CASE <<r1, j1>> \in P
    BY <1>1, <2>1
  <2>2. CASE r1 = r /\ j1 = j
    BY <1>1, <2>2
  <2> QED
    BY <1>3, <2>1, <2>2
<1> HIDE DEF Q
<1> QED
  BY <1>2, <1>3 DEF Leads

\* The swap of w at the j-th of its numbers; the next one is at the i-th.
Swap(w, j, i, a, b, c) ==
    /\ i = j + 3 /\ ~(j > Len(w))
    /\ w[j] = a /\ w[j + 1] = b /\ w[j + 2] = c /\ c # b

\* There is none any more.
Over(w, j) == j > Len(w)

\* s is <<t1, ..., tk>>.
Chosen(s, k) == Len(s) = k /\ s[1] = N /\ s[2] = 1 /\ \A i \in 1..k : s[i] \in Node

-----------------------------------------------------------------------------
(* Tours of two parts: from t_x1 to t_x2, from t_x3 to t_x4, ....        *)

Heads4(s, x1, x2, x3, x4) == <<s[x1], s[x3]>>
Tails4(s, x1, x2, x3, x4) == <<s[x2], s[x4]>>

\* The tour at the call, from t2 to t1, is made of these parts.
Line4(s, x1, x2, x3, x4) ==
    /\ s[x1] = 1 /\ s[x4] = N
    /\ s[x1] <= s[x2] /\ s[x3] <= s[x4]
    /\ s[x3] = s[x2] + 1

\* The edges between the parts.
Links4(s, x1, x2, x3, x4) ==
    {{s[x2], s[x3]}, {s[x4], s[x1]}}

\* The swaps of w from the j-th number on lead to the exchange from every tour that
\* visits the parts in this order.
Works4(s, w, j, x1, x2, x3, x4) ==
    \A r : Lay(r, Kept(s), Heads4(s, x1, x2, x3, x4),
                Tails4(s, x1, x2, x3, x4), 2) => Leads(r, s, w, j)

\* It does not matter with which part one begins to read: here it is the second.
LEMMA Rotate4_1 ==
    ASSUME NEW s, NEW w, NEW j,
           NEW x1, NEW x2, NEW x3, NEW x4,
           Works4(s, w, j, x3, x4, x1, x2)
    PROVE  Works4(s, w, j, x1, x2, x3, x4)
BY RotateBlocks DEF Works4, Heads4, Tails4

\* Nor does it matter in which direction.
LEMMA Reverse4_0 ==
    ASSUME NEW s, NEW w, NEW j,
           NEW x1, NEW x2, NEW x3, NEW x4,
           Works4(s, w, j, x4, x3, x2, x1)
    PROVE  Works4(s, w, j, x1, x2, x3, x4)
BY ReverseBlocks DEF Works4, Heads4, Tails4

\* The edges between the parts are the links.
LEMMA Between4 ==
    ASSUME NEW s,
           NEW x1, NEW x2, NEW x3, NEW x4
    PROVE  Between(Heads4(s, x1, x2, x3, x4),
                   Tails4(s, x1, x2, x3, x4), 2)
           = Links4(s, x1, x2, x3, x4)
<1> DEFINE h == Heads4(s, x1, x2, x3, x4)
           e == Tails4(s, x1, x2, x3, x4)
<1>1. {e[1], h[After(1, 2)]} = {s[x2], s[x3]} /\ {e[2], h[After(2, 2)]} = {s[x4], s[x1]}
  BY DEF After, Heads4, Tails4
<1> HIDE DEF h, e
<1>2. \A y : y \in Between(h, e, 2) <=> \E i \in 1..2 : y = {e[i], h[After(i, 2)]}
  BY DEF Between
<1>3. \A i \in 1..2 : i = 1 \/ i = 2
  OBVIOUS
<1>4. 1 \in 1..2 /\ 2 \in 1..2
  OBVIOUS
<1> DEFINE Link(y) == y = {s[x2], s[x3]} \/ y = {s[x4], s[x1]}
<1>5. ASSUME NEW y PROVE y \in Between(h, e, 2) <=> Link(y)
  <2>1. ASSUME NEW i \in 1..2, y = {e[i], h[After(i, 2)]} PROVE Link(y)
    BY <1>1, <1>3, <2>1, Zenon
  <2>2. ASSUME NEW i \in 1..2, y = {e[i], h[After(i, 2)]} PROVE y \in Between(h, e, 2)
    BY <1>2, <2>2, Zenon
  <2>3. ASSUME Link(y) PROVE \E i \in 1..2 : y = {e[i], h[After(i, 2)]}
    BY <1>1, <1>4, <2>3, Zenon
  <2> QED
    BY <1>2, <2>1, <2>2, <2>3, Zenon
<1> QED
  BY <1>5 DEF Links4, h, e

\* On a tour whose parts are joined by the added edges nothing is left to be done.
LEMMA AtEnd4 ==
    ASSUME NEW s, NEW w, NEW j,
           NEW x1, NEW x2, NEW x3, NEW x4, Over(w, j),
           Links4(s, x1, x2, x3, x4) = Added(s)
    PROVE  Works4(s, w, j, x1, x2, x3, x4)
<1> DEFINE h == Heads4(s, x1, x2, x3, x4)
           e == Tails4(s, x1, x2, x3, x4)
<1>1. Between(h, e, 2) = Links4(s, x1, x2, x3, x4)
  BY Between4
<1> HIDE DEF h, e
<1>2. ASSUME NEW r, Lay(r, Kept(s), h, e, 2) PROVE Leads(r, s, w, j)
  BY <1>1, <1>2, BlockEdges, LeadsAtEnd DEF Over
<1> QED
  BY <1>2 DEF Works4, h, e

\* The tour at the call, if the parts are joined by the edges to be removed.
LEMMA Begin4 ==
    ASSUME NEW s, NEW w,
           NEW x1, NEW x2, NEW x3, NEW x4,
           s[x1] \in Node, s[x2] \in Node, s[x3] \in Node, s[x4] \in Node,
           Line4(s, x1, x2, x3, x4), Links4(s, x1, x2, x3, x4) = Removed(s),
           Works4(s, w, 1, x1, x2, x3, x4)
    PROVE  Leads(Start, s, w, 1)
<1> DEFINE h == Heads4(s, x1, x2, x3, x4)
           e == Tails4(s, x1, x2, x3, x4)
<1>1. Cut(h, e, 2)
  BY NodesAre DEF Cut, Line4, Heads4, Tails4, Node
<1>2. Between(h, e, 2) = Links4(s, x1, x2, x3, x4)
  BY Between4
<1> HIDE DEF h, e
<1>3. Lay(Start, Orig \ Between(h, e, 2), h, e, 2)
  BY <1>1, StartBlocks
<1>4. Lay(Start, Kept(s), h, e, 2)
  BY <1>2, <1>3 DEF Kept
<1> QED
  BY <1>4 DEF Works4, h, e

\* A swap that turns the parts up to the one before t_x3.
LEMMA Turn4_2 ==
    ASSUME NEW s, NEW w, NEW j, NEW i,
           NEW x1, NEW x2, NEW x3, NEW x4,
           Swap(w, j, i, x4, x1, x3),
           Works4(s, w, i, x2, x1, x3, x4)
    PROVE  Works4(s, w, j, x1, x2, x3, x4)
<1> DEFINE h == Heads4(s, x1, x2, x3, x4)
           e == Tails4(s, x1, x2, x3, x4)
           h2 == Heads4(s, x2, x1, x3, x4)
           e2 == Tails4(s, x2, x1, x3, x4)
<1>1. FirstTurned(h, e, h2, e2, 2, 2)
  BY DEF FirstTurned, Heads4, Tails4
<1>2. h[1] = s[x1] /\ h[2] = s[x3] /\ e[2] = s[x4]
  BY DEF Heads4, Tails4
<1>3. 2 \in Nat /\ 2 \in 2..2
  OBVIOUS
<1> HIDE DEF h, e, h2, e2
<1>4. ASSUME NEW r, Lay(r, Kept(s), h, e, 2) PROVE Leads(r, s, w, j)
  <2>1. /\ Adjacent(r, e[2], h[1]) /\ h[2] # h[1]
        /\ Lay(Flip(r, e[2], h[1], h[2]), Kept(s), h2, e2, 2)
    BY <1>1, <1>3, <1>4, FlipBlocks
  <2>2. Fits(r, s, x4, x1, x3) /\ Lay(Turn(r, s, x4, x1, x3), Kept(s), h2, e2, 2)
    BY <1>2, <2>1 DEF Fits, Turn
  <2>3. Leads(Turn(r, s, x4, x1, x3), s, w, i)
    BY <2>2 DEF Works4, h2, e2
  <2> QED
    BY <2>2, <2>3, LeadsBefore DEF Swap
<1> QED
  BY <1>4 DEF Works4, h, e

\* The edges that four nodes stand for.
Out4(s) == {{s[1], s[2]}, {s[3], s[4]}}
In4(s) == {{s[2], s[3]}, {s[4], s[1]}}

\* Four nodes.
LEMMA Exchange4 ==
    ASSUME NEW s, Chosen(s, 4)
    PROVE  /\ s[1] \in Node /\ s[2] \in Node /\ s[3] \in Node /\ s[4] \in Node
           /\ Removed(s) = Out4(s) /\ Added(s) = In4(s)
<1>1. Len(s) = 4 /\ Len(s) \div 2 = 2
  BY DEF Chosen
<1>2. 1..2 = {1, 2} /\ 1..(2 - 1) = {1}
  OBVIOUS
<1>3. Removed(s) = {{s[2*i - 1], s[2*i]} : i \in {1, 2}}
  BY <1>1, <1>2 DEF Removed
<1>4. Added(s) = {{s[2*i], s[2*i + 1]} : i \in {1}} \cup {{s[4], s[1]}}
  BY <1>1, <1>2 DEF Added, Last
<1>5. \A i \in 1..4 : s[i] \in Node
  BY DEF Chosen
<1> QED
  BY <1>3, <1>4, <1>5 DEF Out4, In4

-----------------------------------------------------------------------------
(* Tours of three parts: from t_x1 to t_x2, from t_x3 to t_x4, ....      *)

Heads6(s, x1, x2, x3, x4, x5, x6) == <<s[x1], s[x3], s[x5]>>
Tails6(s, x1, x2, x3, x4, x5, x6) == <<s[x2], s[x4], s[x6]>>

\* The tour at the call, from t2 to t1, is made of these parts.
Line6(s, x1, x2, x3, x4, x5, x6) ==
    /\ s[x1] = 1 /\ s[x6] = N
    /\ s[x1] <= s[x2] /\ s[x3] <= s[x4] /\ s[x5] <= s[x6]
    /\ s[x3] = s[x2] + 1 /\ s[x5] = s[x4] + 1

\* The edges between the parts.
Links6(s, x1, x2, x3, x4, x5, x6) ==
    {{s[x2], s[x3]}, {s[x4], s[x5]}, {s[x6], s[x1]}}

\* The swaps of w from the j-th number on lead to the exchange from every tour that
\* visits the parts in this order.
Works6(s, w, j, x1, x2, x3, x4, x5, x6) ==
    \A r : Lay(r, Kept(s), Heads6(s, x1, x2, x3, x4, x5, x6),
                Tails6(s, x1, x2, x3, x4, x5, x6), 3) => Leads(r, s, w, j)

\* It does not matter with which part one begins to read: here it is the second.
LEMMA Rotate6_1 ==
    ASSUME NEW s, NEW w, NEW j,
           NEW x1, NEW x2, NEW x3, NEW x4, NEW x5,
           NEW x6,
           Works6(s, w, j, x3, x4, x5, x6, x1, x2)
    PROVE  Works6(s, w, j, x1, x2, x3, x4, x5, x6)
BY RotateBlocks DEF Works6, Heads6, Tails6

\* It does not matter with which part one begins to read: here it is the third.
LEMMA Rotate6_2 ==
    ASSUME NEW s, NEW w, NEW j,
           NEW x1, NEW x2, NEW x3, NEW x4, NEW x5,
           NEW x6,
           Works6(s, w, j, x5, x6, x1, x2, x3, x4)
    PROVE  Works6(s, w, j, x1, x2, x3, x4, x5, x6)
BY Rotate6_1, Rotate6_1

\* Nor does it matter in which direction.
LEMMA Reverse6_0 ==
    ASSUME NEW s, NEW w, NEW j,
           NEW x1, NEW x2, NEW x3, NEW x4, NEW x5,
           NEW x6,
           Works6(s, w, j, x6, x5, x4, x3, x2, x1)
    PROVE  Works6(s, w, j, x1, x2, x3, x4, x5, x6)
BY ReverseBlocks DEF Works6, Heads6, Tails6

\* Backwards, with the first 2 parts at the end.
LEMMA Reverse6_2 ==
    ASSUME NEW s, NEW w, NEW j,
           NEW x1, NEW x2, NEW x3, NEW x4, NEW x5,
           NEW x6,
           Works6(s, w, j, x2, x1, x6, x5, x4, x3)
    PROVE  Works6(s, w, j, x1, x2, x3, x4, x5, x6)
BY Reverse6_0, Rotate6_2

\* The edges between the parts are the links.
LEMMA Between6 ==
    ASSUME NEW s,
           NEW x1, NEW x2, NEW x3, NEW x4, NEW x5,
           NEW x6
    PROVE  Between(Heads6(s, x1, x2, x3, x4, x5, x6),
                   Tails6(s, x1, x2, x3, x4, x5, x6), 3)
           = Links6(s, x1, x2, x3, x4, x5, x6)
<1> DEFINE h == Heads6(s, x1, x2, x3, x4, x5, x6)
           e == Tails6(s, x1, x2, x3, x4, x5, x6)
<1>1. /\ /\ {e[1], h[After(1, 3)]} = {s[x2], s[x3]}
      /\ {e[2], h[After(2, 3)]} = {s[x4], s[x5]}
      /\ {e[3], h[After(3, 3)]} = {s[x6], s[x1]}
  BY DEF After, Heads6, Tails6
<1> HIDE DEF h, e
<1>2. \A y : y \in Between(h, e, 3) <=> \E i \in 1..3 : y = {e[i], h[After(i, 3)]}
  BY DEF Between
<1>3. \A i \in 1..3 : i = 1 \/ i = 2 \/ i = 3
  OBVIOUS
<1>4. 1 \in 1..3 /\ 2 \in 1..3 /\ 3 \in 1..3
  OBVIOUS
<1> DEFINE Link(y) == y = {s[x2], s[x3]} \/ y = {s[x4], s[x5]} \/ y = {s[x6], s[x1]}
<1>5. ASSUME NEW y PROVE y \in Between(h, e, 3) <=> Link(y)
  <2>1. ASSUME NEW i \in 1..3, y = {e[i], h[After(i, 3)]} PROVE Link(y)
    BY <1>1, <1>3, <2>1, Zenon
  <2>2. ASSUME NEW i \in 1..3, y = {e[i], h[After(i, 3)]} PROVE y \in Between(h, e, 3)
    BY <1>2, <2>2, Zenon
  <2>3. ASSUME Link(y) PROVE \E i \in 1..3 : y = {e[i], h[After(i, 3)]}
    BY <1>1, <1>4, <2>3, Zenon
  <2> QED
    BY <1>2, <2>1, <2>2, <2>3, Zenon
<1> QED
  BY <1>5 DEF Links6, h, e

\* On a tour whose parts are joined by the added edges nothing is left to be done.
LEMMA AtEnd6 ==
    ASSUME NEW s, NEW w, NEW j,
           NEW x1, NEW x2, NEW x3, NEW x4, NEW x5,
           NEW x6, Over(w, j),
           Links6(s, x1, x2, x3, x4, x5, x6) = Added(s)
    PROVE  Works6(s, w, j, x1, x2, x3, x4, x5, x6)
<1> DEFINE h == Heads6(s, x1, x2, x3, x4, x5, x6)
           e == Tails6(s, x1, x2, x3, x4, x5, x6)
<1>1. Between(h, e, 3) = Links6(s, x1, x2, x3, x4, x5, x6)
  BY Between6
<1> HIDE DEF h, e
<1>2. ASSUME NEW r, Lay(r, Kept(s), h, e, 3) PROVE Leads(r, s, w, j)
  BY <1>1, <1>2, BlockEdges, LeadsAtEnd DEF Over
<1> QED
  BY <1>2 DEF Works6, h, e

\* The tour at the call, if the parts are joined by the edges to be removed.
LEMMA Begin6 ==
    ASSUME NEW s, NEW w,
           NEW x1, NEW x2, NEW x3, NEW x4, NEW x5,
           NEW x6,
           s[x1] \in Node, s[x2] \in Node, s[x3] \in Node, s[x4] \in Node, s[x5] \in Node,
           s[x6] \in Node,
           Line6(s, x1, x2, x3, x4, x5, x6),
           Links6(s, x1, x2, x3, x4, x5, x6) = Removed(s),
           Works6(s, w, 1, x1, x2, x3, x4, x5, x6)
    PROVE  Leads(Start, s, w, 1)
<1> DEFINE h == Heads6(s, x1, x2, x3, x4, x5, x6)
           e == Tails6(s, x1, x2, x3, x4, x5, x6)
<1>1. Cut(h, e, 3)
  BY NodesAre DEF Cut, Line6, Heads6, Tails6, Node
<1>2. Between(h, e, 3) = Links6(s, x1, x2, x3, x4, x5, x6)
  BY Between6
<1> HIDE DEF h, e
<1>3. Lay(Start, Orig \ Between(h, e, 3), h, e, 3)
  BY <1>1, StartBlocks
<1>4. Lay(Start, Kept(s), h, e, 3)
  BY <1>2, <1>3 DEF Kept
<1> QED
  BY <1>4 DEF Works6, h, e

\* A swap that turns the parts up to the one before t_x3.
LEMMA Turn6_2 ==
    ASSUME NEW s, NEW w, NEW j, NEW i,
           NEW x1, NEW x2, NEW x3, NEW x4, NEW x5,
           NEW x6,
           Swap(w, j, i, x6, x1, x3),
           Works6(s, w, i, x2, x1, x3, x4, x5, x6)
    PROVE  Works6(s, w, j, x1, x2, x3, x4, x5, x6)
<1> DEFINE h == Heads6(s, x1, x2, x3, x4, x5, x6)
           e == Tails6(s, x1, x2, x3, x4, x5, x6)
           h2 == Heads6(s, x2, x1, x3, x4, x5, x6)
           e2 == Tails6(s, x2, x1, x3, x4, x5, x6)
<1>1. FirstTurned(h, e, h2, e2, 3, 2)
  BY DEF FirstTurned, Heads6, Tails6
<1>2. h[1] = s[x1] /\ h[2] = s[x3] /\ e[3] = s[x6]
  BY DEF Heads6, Tails6
<1>3. 3 \in Nat /\ 2 \in 2..3
  OBVIOUS
<1> HIDE DEF h, e, h2, e2
<1>4. ASSUME NEW r, Lay(r, Kept(s), h, e, 3) PROVE Leads(r, s, w, j)
  <2>1. /\ Adjacent(r, e[3], h[1]) /\ h[2] # h[1]
        /\ Lay(Flip(r, e[3], h[1], h[2]), Kept(s), h2, e2, 3)
    BY <1>1, <1>3, <1>4, FlipBlocks
  <2>2. Fits(r, s, x6, x1, x3) /\ Lay(Turn(r, s, x6, x1, x3), Kept(s), h2, e2, 3)
    BY <1>2, <2>1 DEF Fits, Turn
  <2>3. Leads(Turn(r, s, x6, x1, x3), s, w, i)
    BY <2>2 DEF Works6, h2, e2
  <2> QED
    BY <2>2, <2>3, LeadsBefore DEF Swap
<1> QED
  BY <1>4 DEF Works6, h, e

\* A swap that turns the parts up to the one before t_x5.
LEMMA Turn6_3 ==
    ASSUME NEW s, NEW w, NEW j, NEW i,
           NEW x1, NEW x2, NEW x3, NEW x4, NEW x5,
           NEW x6,
           Swap(w, j, i, x6, x1, x5),
           Works6(s, w, i, x4, x3, x2, x1, x5, x6)
    PROVE  Works6(s, w, j, x1, x2, x3, x4, x5, x6)
<1> DEFINE h == Heads6(s, x1, x2, x3, x4, x5, x6)
           e == Tails6(s, x1, x2, x3, x4, x5, x6)
           h2 == Heads6(s, x4, x3, x2, x1, x5, x6)
           e2 == Tails6(s, x4, x3, x2, x1, x5, x6)
<1>1. FirstTurned(h, e, h2, e2, 3, 3)
  BY DEF FirstTurned, Heads6, Tails6
<1>2. h[1] = s[x1] /\ h[3] = s[x5] /\ e[3] = s[x6]
  BY DEF Heads6, Tails6
<1>3. 3 \in Nat /\ 3 \in 2..3
  OBVIOUS
<1> HIDE DEF h, e, h2, e2
<1>4. ASSUME NEW r, Lay(r, Kept(s), h, e, 3) PROVE Leads(r, s, w, j)
  <2>1. /\ Adjacent(r, e[3], h[1]) /\ h[3] # h[1]
        /\ Lay(Flip(r, e[3], h[1], h[3]), Kept(s), h2, e2, 3)
    BY <1>1, <1>3, <1>4, FlipBlocks
  <2>2. Fits(r, s, x6, x1, x5) /\ Lay(Turn(r, s, x6, x1, x5), Kept(s), h2, e2, 3)
    BY <1>2, <2>1 DEF Fits, Turn
  <2>3. Leads(Turn(r, s, x6, x1, x5), s, w, i)
    BY <2>2 DEF Works6, h2, e2
  <2> QED
    BY <2>2, <2>3, LeadsBefore DEF Swap
<1> QED
  BY <1>4 DEF Works6, h, e

\* The edges that six nodes stand for.
Out6(s) == {{s[1], s[2]}, {s[3], s[4]}, {s[5], s[6]}}
In6(s) == {{s[2], s[3]}, {s[4], s[5]}, {s[6], s[1]}}

\* Six nodes.
LEMMA Exchange6 ==
    ASSUME NEW s, Chosen(s, 6)
    PROVE  /\ s[1] \in Node /\ s[2] \in Node
           /\ s[3] \in Node /\ s[4] \in Node /\ s[5] \in Node
           /\ s[6] \in Node
           /\ Removed(s) = Out6(s) /\ Added(s) = In6(s)
<1>1. Len(s) = 6 /\ Len(s) \div 2 = 3
  BY DEF Chosen
<1>2. 1..3 = {1, 2, 3} /\ 1..(3 - 1) = {1, 2}
  OBVIOUS
<1>3. Removed(s) = {{s[2*i - 1], s[2*i]} : i \in {1, 2, 3}}
  BY <1>1, <1>2 DEF Removed
<1>4. Added(s) = {{s[2*i], s[2*i + 1]} : i \in {1, 2}} \cup {{s[6], s[1]}}
  BY <1>1, <1>2 DEF Added, Last
<1>5. \A i \in 1..6 : s[i] \in Node
  BY DEF Chosen
<1> QED
  BY <1>3, <1>4, <1>5 DEF Out6, In6

-----------------------------------------------------------------------------
(* Tours of four parts: from t_x1 to t_x2, from t_x3 to t_x4, ....       *)

Heads8(s, x1, x2, x3, x4, x5, x6, x7, x8) == <<s[x1], s[x3], s[x5], s[x7]>>
Tails8(s, x1, x2, x3, x4, x5, x6, x7, x8) == <<s[x2], s[x4], s[x6], s[x8]>>

\* The tour at the call, from t2 to t1, is made of these parts.
Line8(s, x1, x2, x3, x4, x5, x6, x7, x8) ==
    /\ s[x1] = 1 /\ s[x8] = N
    /\ s[x1] <= s[x2] /\ s[x3] <= s[x4] /\ s[x5] <= s[x6] /\ s[x7] <= s[x8]
    /\ s[x3] = s[x2] + 1 /\ s[x5] = s[x4] + 1 /\ s[x7] = s[x6] + 1

\* The edges between the parts.
Links8(s, x1, x2, x3, x4, x5, x6, x7, x8) ==
    {{s[x2], s[x3]}, {s[x4], s[x5]}, {s[x6], s[x7]}, {s[x8], s[x1]}}

\* The swaps of w from the j-th number on lead to the exchange from every tour that
\* visits the parts in this order.
Works8(s, w, j, x1, x2, x3, x4, x5, x6, x7, x8) ==
    \A r : Lay(r, Kept(s), Heads8(s, x1, x2, x3, x4, x5, x6, x7, x8),
                Tails8(s, x1, x2, x3, x4, x5, x6, x7, x8), 4) => Leads(r, s, w, j)

\* It does not matter with which part one begins to read: here it is the second.
LEMMA Rotate8_1 ==
    ASSUME NEW s, NEW w, NEW j,
           NEW x1, NEW x2, NEW x3, NEW x4, NEW x5,
           NEW x6, NEW x7, NEW x8,
           Works8(s, w, j, x3, x4, x5, x6, x7, x8, x1, x2)
    PROVE  Works8(s, w, j, x1, x2, x3, x4, x5, x6, x7, x8)
BY RotateBlocks DEF Works8, Heads8, Tails8

\* It does not matter with which part one begins to read: here it is the third.
LEMMA Rotate8_2 ==
    ASSUME NEW s, NEW w, NEW j,
           NEW x1, NEW x2, NEW x3, NEW x4, NEW x5,
           NEW x6, NEW x7, NEW x8,
           Works8(s, w, j, x5, x6, x7, x8, x1, x2, x3, x4)
    PROVE  Works8(s, w, j, x1, x2, x3, x4, x5, x6, x7, x8)
BY Rotate8_1, Rotate8_1

\* It does not matter with which part one begins to read: here it is the fourth.
LEMMA Rotate8_3 ==
    ASSUME NEW s, NEW w, NEW j,
           NEW x1, NEW x2, NEW x3, NEW x4, NEW x5,
           NEW x6, NEW x7, NEW x8,
           Works8(s, w, j, x7, x8, x1, x2, x3, x4, x5, x6)
    PROVE  Works8(s, w, j, x1, x2, x3, x4, x5, x6, x7, x8)
BY Rotate8_1, Rotate8_2

\* Nor does it matter in which direction.
LEMMA Reverse8_0 ==
    ASSUME NEW s, NEW w, NEW j,
           NEW x1, NEW x2, NEW x3, NEW x4, NEW x5,
           NEW x6, NEW x7, NEW x8,
           Works8(s, w, j, x8, x7, x6, x5, x4, x3, x2, x1)
    PROVE  Works8(s, w, j, x1, x2, x3, x4, x5, x6, x7, x8)
BY ReverseBlocks DEF Works8, Heads8, Tails8

\* Backwards, with the first part at the end.
LEMMA Reverse8_1 ==
    ASSUME NEW s, NEW w, NEW j,
           NEW x1, NEW x2, NEW x3, NEW x4, NEW x5,
           NEW x6, NEW x7, NEW x8,
           Works8(s, w, j, x6, x5, x4, x3, x2, x1, x8, x7)
    PROVE  Works8(s, w, j, x1, x2, x3, x4, x5, x6, x7, x8)
BY Reverse8_0, Rotate8_1

\* Backwards, with the first 2 parts at the end.
LEMMA Reverse8_2 ==
    ASSUME NEW s, NEW w, NEW j,
           NEW x1, NEW x2, NEW x3, NEW x4, NEW x5,
           NEW x6, NEW x7, NEW x8,
           Works8(s, w, j, x4, x3, x2, x1, x8, x7, x6, x5)
    PROVE  Works8(s, w, j, x1, x2, x3, x4, x5, x6, x7, x8)
BY Reverse8_0, Rotate8_2

\* Backwards, with the first 3 parts at the end.
LEMMA Reverse8_3 ==
    ASSUME NEW s, NEW w, NEW j,
           NEW x1, NEW x2, NEW x3, NEW x4, NEW x5,
           NEW x6, NEW x7, NEW x8,
           Works8(s, w, j, x2, x1, x8, x7, x6, x5, x4, x3)
    PROVE  Works8(s, w, j, x1, x2, x3, x4, x5, x6, x7, x8)
BY Reverse8_0, Rotate8_3

\* The edges between the parts are the links.
LEMMA Between8 ==
    ASSUME NEW s,
           NEW x1, NEW x2, NEW x3, NEW x4, NEW x5,
           NEW x6, NEW x7, NEW x8
    PROVE  Between(Heads8(s, x1, x2, x3, x4, x5, x6, x7, x8),
                   Tails8(s, x1, x2, x3, x4, x5, x6, x7, x8), 4)
           = Links8(s, x1, x2, x3, x4, x5, x6, x7, x8)
<1> DEFINE h == Heads8(s, x1, x2, x3, x4, x5, x6, x7, x8)
           e == Tails8(s, x1, x2, x3, x4, x5, x6, x7, x8)
<1>1. /\ /\ {e[1], h[After(1, 4)]} = {s[x2], s[x3]}
      /\ {e[2], h[After(2, 4)]} = {s[x4], s[x5]}
      /\ {e[3], h[After(3, 4)]} = {s[x6], s[x7]}
      /\ {e[4], h[After(4, 4)]} = {s[x8], s[x1]}
  BY DEF After, Heads8, Tails8
<1> HIDE DEF h, e
<1>2. \A y : y \in Between(h, e, 4) <=> \E i \in 1..4 : y = {e[i], h[After(i, 4)]}
  BY DEF Between
<1>3. \A i \in 1..4 : i = 1 \/ i = 2 \/ i = 3 \/ i = 4
  OBVIOUS
<1>4. 1 \in 1..4 /\ 2 \in 1..4 /\ 3 \in 1..4 /\ 4 \in 1..4
  OBVIOUS
<1> DEFINE Link(y) == \/ y = {s[x2], s[x3]} \/ y = {s[x4], s[x5]}
                      \/ y = {s[x6], s[x7]} \/ y = {s[x8], s[x1]}
<1>5. ASSUME NEW y PROVE y \in Between(h, e, 4) <=> Link(y)
  <2>1. ASSUME NEW i \in 1..4, y = {e[i], h[After(i, 4)]} PROVE Link(y)
    BY <1>1, <1>3, <2>1, Zenon
  <2>2. ASSUME NEW i \in 1..4, y = {e[i], h[After(i, 4)]} PROVE y \in Between(h, e, 4)
    BY <1>2, <2>2, Zenon
  <2>3. ASSUME Link(y) PROVE \E i \in 1..4 : y = {e[i], h[After(i, 4)]}
    BY <1>1, <1>4, <2>3, Zenon
  <2> QED
    BY <1>2, <2>1, <2>2, <2>3, Zenon
<1> QED
  BY <1>5 DEF Links8, h, e

\* On a tour whose parts are joined by the added edges nothing is left to be done.
LEMMA AtEnd8 ==
    ASSUME NEW s, NEW w, NEW j,
           NEW x1, NEW x2, NEW x3, NEW x4, NEW x5,
           NEW x6, NEW x7, NEW x8, Over(w, j),
           Links8(s, x1, x2, x3, x4, x5, x6, x7, x8) = Added(s)
    PROVE  Works8(s, w, j, x1, x2, x3, x4, x5, x6, x7, x8)
<1> DEFINE h == Heads8(s, x1, x2, x3, x4, x5, x6, x7, x8)
           e == Tails8(s, x1, x2, x3, x4, x5, x6, x7, x8)
<1>1. Between(h, e, 4) = Links8(s, x1, x2, x3, x4, x5, x6, x7, x8)
  BY Between8
<1> HIDE DEF h, e
<1>2. ASSUME NEW r, Lay(r, Kept(s), h, e, 4) PROVE Leads(r, s, w, j)
  BY <1>1, <1>2, BlockEdges, LeadsAtEnd DEF Over
<1> QED
  BY <1>2 DEF Works8, h, e

\* The tour at the call, if the parts are joined by the edges to be removed.
LEMMA Begin8 ==
    ASSUME NEW s, NEW w,
           NEW x1, NEW x2, NEW x3, NEW x4, NEW x5,
           NEW x6, NEW x7, NEW x8,
           s[x1] \in Node, s[x2] \in Node, s[x3] \in Node, s[x4] \in Node, s[x5] \in Node,
           s[x6] \in Node, s[x7] \in Node, s[x8] \in Node,
           Line8(s, x1, x2, x3, x4, x5, x6, x7, x8),
           Links8(s, x1, x2, x3, x4, x5, x6, x7, x8) = Removed(s),
           Works8(s, w, 1, x1, x2, x3, x4, x5, x6, x7, x8)
    PROVE  Leads(Start, s, w, 1)
<1> DEFINE h == Heads8(s, x1, x2, x3, x4, x5, x6, x7, x8)
           e == Tails8(s, x1, x2, x3, x4, x5, x6, x7, x8)
<1>1. Cut(h, e, 4)
  BY NodesAre DEF Cut, Line8, Heads8, Tails8, Node
<1>2. Between(h, e, 4) = Links8(s, x1, x2, x3, x4, x5, x6, x7, x8)
  BY Between8
<1> HIDE DEF h, e
<1>3. Lay(Start, Orig \ Between(h, e, 4), h, e, 4)
  BY <1>1, StartBlocks
<1>4. Lay(Start, Kept(s), h, e, 4)
  BY <1>2, <1>3 DEF Kept
<1> QED
  BY <1>4 DEF Works8, h, e

\* A swap that turns the parts up to the one before t_x3.
LEMMA Turn8_2 ==
    ASSUME NEW s, NEW w, NEW j, NEW i,
           NEW x1, NEW x2, NEW x3, NEW x4, NEW x5,
           NEW x6, NEW x7, NEW x8,
           Swap(w, j, i, x8, x1, x3),
           Works8(s, w, i, x2, x1, x3, x4, x5, x6, x7, x8)
    PROVE  Works8(s, w, j, x1, x2, x3, x4, x5, x6, x7, x8)
<1> DEFINE h == Heads8(s, x1, x2, x3, x4, x5, x6, x7, x8)
           e == Tails8(s, x1, x2, x3, x4, x5, x6, x7, x8)
           h2 == Heads8(s, x2, x1, x3, x4, x5, x6, x7, x8)
           e2 == Tails8(s, x2, x1, x3, x4, x5, x6, x7, x8)
<1>1. FirstTurned(h, e, h2, e2, 4, 2)
  BY DEF FirstTurned, Heads8, Tails8
<1>2. h[1] = s[x1] /\ h[2] = s[x3] /\ e[4] = s[x8]
  BY DEF Heads8, Tails8
<1>3. 4 \in Nat /\ 2 \in 2..4
  OBVIOUS
<1> HIDE DEF h, e, h2, e2
<1>4. ASSUME NEW r, Lay(r, Kept(s), h, e, 4) PROVE Leads(r, s, w, j)
  <2>1. /\ Adjacent(r, e[4], h[1]) /\ h[2] # h[1]
        /\ Lay(Flip(r, e[4], h[1], h[2]), Kept(s), h2, e2, 4)
    BY <1>1, <1>3, <1>4, FlipBlocks
  <2>2. Fits(r, s, x8, x1, x3) /\ Lay(Turn(r, s, x8, x1, x3), Kept(s), h2, e2, 4)
    BY <1>2, <2>1 DEF Fits, Turn
  <2>3. Leads(Turn(r, s, x8, x1, x3), s, w, i)
    BY <2>2 DEF Works8, h2, e2
  <2> QED
    BY <2>2, <2>3, LeadsBefore DEF Swap
<1> QED
  BY <1>4 DEF Works8, h, e

\* A swap that turns the parts up to the one before t_x5.
LEMMA Turn8_3 ==
    ASSUME NEW s, NEW w, NEW j, NEW i,
           NEW x1, NEW x2, NEW x3, NEW x4, NEW x5,
           NEW x6, NEW x7, NEW x8,
           Swap(w, j, i, x8, x1, x5),
           Works8(s, w, i, x4, x3, x2, x1, x5, x6, x7, x8)
    PROVE  Works8(s, w, j, x1, x2, x3, x4, x5, x6, x7, x8)
<1> DEFINE h == Heads8(s, x1, x2, x3, x4, x5, x6, x7, x8)
           e == Tails8(s, x1, x2, x3, x4, x5, x6, x7, x8)
           h2 == Heads8(s, x4, x3, x2, x1, x5, x6, x7, x8)
           e2 == Tails8(s, x4, x3, x2, x1, x5, x6, x7, x8)
<1>1. FirstTurned(h, e, h2, e2, 4, 3)
  BY DEF FirstTurned, Heads8, Tails8
<1>2. h[1] = s[x1] /\ h[3] = s[x5] /\ e[4] = s[x8]
  BY DEF Heads8, Tails8
<1>3. 4 \in Nat /\ 3 \in 2..4
  OBVIOUS
<1> HIDE DEF h, e, h2, e2
<1>4. ASSUME NEW r, Lay(r, Kept(s), h, e, 4) PROVE Leads(r, s, w, j)
  <2>1. /\ Adjacent(r, e[4], h[1]) /\ h[3] # h[1]
        /\ Lay(Flip(r, e[4], h[1], h[3]), Kept(s), h2, e2, 4)
    BY <1>1, <1>3, <1>4, FlipBlocks
  <2>2. Fits(r, s, x8, x1, x5) /\ Lay(Turn(r, s, x8, x1, x5), Kept(s), h2, e2, 4)
    BY <1>2, <2>1 DEF Fits, Turn
  <2>3. Leads(Turn(r, s, x8, x1, x5), s, w, i)
    BY <2>2 DEF Works8, h2, e2
  <2> QED
    BY <2>2, <2>3, LeadsBefore DEF Swap
<1> QED
  BY <1>4 DEF Works8, h, e

\* A swap that turns the parts up to the one before t_x7.
LEMMA Turn8_4 ==
    ASSUME NEW s, NEW w, NEW j, NEW i,
           NEW x1, NEW x2, NEW x3, NEW x4, NEW x5,
           NEW x6, NEW x7, NEW x8,
           Swap(w, j, i, x8, x1, x7),
           Works8(s, w, i, x6, x5, x4, x3, x2, x1, x7, x8)
    PROVE  Works8(s, w, j, x1, x2, x3, x4, x5, x6, x7, x8)
<1> DEFINE h == Heads8(s, x1, x2, x3, x4, x5, x6, x7, x8)
           e == Tails8(s, x1, x2, x3, x4, x5, x6, x7, x8)
           h2 == Heads8(s, x6, x5, x4, x3, x2, x1, x7, x8)
           e2 == Tails8(s, x6, x5, x4, x3, x2, x1, x7, x8)
<1>1. FirstTurned(h, e, h2, e2, 4, 4)
  BY DEF FirstTurned, Heads8, Tails8
<1>2. h[1] = s[x1] /\ h[4] = s[x7] /\ e[4] = s[x8]
  BY DEF Heads8, Tails8
<1>3. 4 \in Nat /\ 4 \in 2..4
  OBVIOUS
<1> HIDE DEF h, e, h2, e2
<1>4. ASSUME NEW r, Lay(r, Kept(s), h, e, 4) PROVE Leads(r, s, w, j)
  <2>1. /\ Adjacent(r, e[4], h[1]) /\ h[4] # h[1]
        /\ Lay(Flip(r, e[4], h[1], h[4]), Kept(s), h2, e2, 4)
    BY <1>1, <1>3, <1>4, FlipBlocks
  <2>2. Fits(r, s, x8, x1, x7) /\ Lay(Turn(r, s, x8, x1, x7), Kept(s), h2, e2, 4)
    BY <1>2, <2>1 DEF Fits, Turn
  <2>3. Leads(Turn(r, s, x8, x1, x7), s, w, i)
    BY <2>2 DEF Works8, h2, e2
  <2> QED
    BY <2>2, <2>3, LeadsBefore DEF Swap
<1> QED
  BY <1>4 DEF Works8, h, e

\* The edges that eight nodes stand for.
Out8(s) == {{s[1], s[2]}, {s[3], s[4]}, {s[5], s[6]}, {s[7], s[8]}}
In8(s) == {{s[2], s[3]}, {s[4], s[5]}, {s[6], s[7]}, {s[8], s[1]}}

\* Eight nodes.
LEMMA Exchange8 ==
    ASSUME NEW s, Chosen(s, 8)
    PROVE  /\ s[1] \in Node /\ s[2] \in Node
           /\ s[3] \in Node /\ s[4] \in Node /\ s[5] \in Node
           /\ s[6] \in Node /\ s[7] \in Node /\ s[8] \in Node
           /\ Removed(s) = Out8(s) /\ Added(s) = In8(s)
<1>1. Len(s) = 8 /\ Len(s) \div 2 = 4
  BY DEF Chosen
<1>2. 1..4 = {1, 2, 3, 4} /\ 1..(4 - 1) = {1, 2, 3}
  OBVIOUS
<1>3. Removed(s) = {{s[2*i - 1], s[2*i]} : i \in {1, 2, 3, 4}}
  BY <1>1, <1>2 DEF Removed
<1>4. Added(s) = {{s[2*i], s[2*i + 1]} : i \in {1, 2, 3}} \cup {{s[8], s[1]}}
  BY <1>1, <1>2 DEF Added, Last
<1>5. \A i \in 1..8 : s[i] \in Node
  BY DEF Chosen
<1> QED
  BY <1>3, <1>4, <1>5 DEF Out8, In8

-----------------------------------------------------------------------------
(* Tours of five parts: from t_x1 to t_x2, from t_x3 to t_x4, ....       *)

Heads10(s, x1, x2, x3, x4, x5, x6, x7, x8, x9, x10) == <<s[x1], s[x3], s[x5], s[x7], s[x9]>>
Tails10(s, x1, x2, x3, x4, x5, x6, x7, x8, x9, x10) == <<s[x2], s[x4], s[x6], s[x8], s[x10]>>

\* The tour at the call, from t2 to t1, is made of these parts.
Line10(s, x1, x2, x3, x4, x5, x6, x7, x8, x9, x10) ==
    /\ s[x1] = 1 /\ s[x10] = N
    /\ s[x1] <= s[x2] /\ s[x3] <= s[x4]
    /\ s[x5] <= s[x6] /\ s[x7] <= s[x8] /\ s[x9] <= s[x10]
    /\ s[x3] = s[x2] + 1 /\ s[x5] = s[x4] + 1 /\ s[x7] = s[x6] + 1 /\ s[x9] = s[x8] + 1

\* The edges between the parts.
Links10(s, x1, x2, x3, x4, x5, x6, x7, x8, x9, x10) ==
    {{s[x2], s[x3]}, {s[x4], s[x5]}, {s[x6], s[x7]}, {s[x8], s[x9]}, {s[x10], s[x1]}}

\* The swaps of w from the j-th number on lead to the exchange from every tour that
\* visits the parts in this order.
Works10(s, w, j, x1, x2, x3, x4, x5, x6, x7, x8, x9, x10) ==
    \A r : Lay(r, Kept(s), Heads10(s, x1, x2, x3, x4, x5, x6, x7, x8, x9, x10),
                Tails10(s, x1, x2, x3, x4, x5, x6, x7, x8, x9, x10), 5) => Leads(r, s, w, j)

\* It does not matter with which part one begins to read: here it is the second.
LEMMA Rotate10_1 ==
    ASSUME NEW s, NEW w, NEW j,
           NEW x1, NEW x2, NEW x3, NEW x4, NEW x5,
           NEW x6, NEW x7, NEW x8, NEW x9, NEW x10,
           Works10(s, w, j, x3, x4, x5, x6, x7, x8, x9, x10, x1, x2)
    PROVE  Works10(s, w, j, x1, x2, x3, x4, x5, x6, x7, x8, x9, x10)
BY RotateBlocks DEF Works10, Heads10, Tails10

\* It does not matter with which part one begins to read: here it is the third.
LEMMA Rotate10_2 ==
    ASSUME NEW s, NEW w, NEW j,
           NEW x1, NEW x2, NEW x3, NEW x4, NEW x5,
           NEW x6, NEW x7, NEW x8, NEW x9, NEW x10,
           Works10(s, w, j, x5, x6, x7, x8, x9, x10, x1, x2, x3, x4)
    PROVE  Works10(s, w, j, x1, x2, x3, x4, x5, x6, x7, x8, x9, x10)
BY Rotate10_1, Rotate10_1

\* It does not matter with which part one begins to read: here it is the fourth.
LEMMA Rotate10_3 ==
    ASSUME NEW s, NEW w, NEW j,
           NEW x1, NEW x2, NEW x3, NEW x4, NEW x5,
           NEW x6, NEW x7, NEW x8, NEW x9, NEW x10,
           Works10(s, w, j, x7, x8, x9, x10, x1, x2, x3, x4, x5, x6)
    PROVE  Works10(s, w, j, x1, x2, x3, x4, x5, x6, x7, x8, x9, x10)
BY Rotate10_1, Rotate10_2

\* It does not matter with which part one begins to read: here it is the fifth.
LEMMA Rotate10_4 ==
    ASSUME NEW s, NEW w, NEW j,
           NEW x1, NEW x2, NEW x3, NEW x4, NEW x5,
           NEW x6, NEW x7, NEW x8, NEW x9, NEW x10,
           Works10(s, w, j, x9, x10, x1, x2, x3, x4, x5, x6, x7, x8)
    PROVE  Works10(s, w, j, x1, x2, x3, x4, x5, x6, x7, x8, x9, x10)
BY Rotate10_1, Rotate10_3

\* Nor does it matter in which direction.
LEMMA Reverse10_0 ==
    ASSUME NEW s, NEW w, NEW j,
           NEW x1, NEW x2, NEW x3, NEW x4, NEW x5,
           NEW x6, NEW x7, NEW x8, NEW x9, NEW x10,
           Works10(s, w, j, x10, x9, x8, x7, x6, x5, x4, x3, x2, x1)
    PROVE  Works10(s, w, j, x1, x2, x3, x4, x5, x6, x7, x8, x9, x10)
BY ReverseBlocks DEF Works10, Heads10, Tails10

\* Backwards, with the first part at the end.
LEMMA Reverse10_1 ==
    ASSUME NEW s, NEW w, NEW j,
           NEW x1, NEW x2, NEW x3, NEW x4, NEW x5,
           NEW x6, NEW x7, NEW x8, NEW x9, NEW x10,
           Works10(s, w, j, x8, x7, x6, x5, x4, x3, x2, x1, x10, x9)
    PROVE  Works10(s, w, j, x1, x2, x3, x4, x5, x6, x7, x8, x9, x10)
BY Reverse10_0, Rotate10_1

\* Backwards, with the first 2 parts at the end.
LEMMA Reverse10_2 ==
    ASSUME NEW s, NEW w, NEW j,
           NEW x1, NEW x2, NEW x3, NEW x4, NEW x5,
           NEW x6, NEW x7, NEW x8, NEW x9, NEW x10,
           Works10(s, w, j, x6, x5, x4, x3, x2, x1, x10, x9, x8, x7)
    PROVE  Works10(s, w, j, x1, x2, x3, x4, x5, x6, x7, x8, x9, x10)
BY Reverse10_0, Rotate10_2

\* Backwards, with the first 3 parts at the end.
LEMMA Reverse10_3 ==
    ASSUME NEW s, NEW w, NEW j,
           NEW x1, NEW x2, NEW x3, NEW x4, NEW x5,
           NEW x6, NEW x7, NEW x8, NEW x9, NEW x10,
           Works10(s, w, j, x4, x3, x2, x1, x10, x9, x8, x7, x6, x5)
    PROVE  Works10(s, w, j, x1, x2, x3, x4, x5, x6, x7, x8, x9, x10)
BY Reverse10_0, Rotate10_3

\* Backwards, with the first 4 parts at the end.
LEMMA Reverse10_4 ==
    ASSUME NEW s, NEW w, NEW j,
           NEW x1, NEW x2, NEW x3, NEW x4, NEW x5,
           NEW x6, NEW x7, NEW x8, NEW x9, NEW x10,
           Works10(s, w, j, x2, x1, x10, x9, x8, x7, x6, x5, x4, x3)
    PROVE  Works10(s, w, j, x1, x2, x3, x4, x5, x6, x7, x8, x9, x10)
BY Reverse10_0, Rotate10_4

\* The edges between the parts are the links.
LEMMA Between10 ==
    ASSUME NEW s,
           NEW x1, NEW x2, NEW x3, NEW x4, NEW x5,
           NEW x6, NEW x7, NEW x8, NEW x9, NEW x10
    PROVE  Between(Heads10(s, x1, x2, x3, x4, x5, x6, x7, x8, x9, x10),
                   Tails10(s, x1, x2, x3, x4, x5, x6, x7, x8, x9, x10), 5)
           = Links10(s, x1, x2, x3, x4, x5, x6, x7, x8, x9, x10)
<1> DEFINE h == Heads10(s, x1, x2, x3, x4, x5, x6, x7, x8, x9, x10)
           e == Tails10(s, x1, x2, x3, x4, x5, x6, x7, x8, x9, x10)
<1>1. /\ /\ {e[1], h[After(1, 5)]} = {s[x2], s[x3]}
      /\ {e[2], h[After(2, 5)]} = {s[x4], s[x5]}
      /\ {e[3], h[After(3, 5)]} = {s[x6], s[x7]}
      /\ {e[4], h[After(4, 5)]} = {s[x8], s[x9]}
      /\ {e[5], h[After(5, 5)]} = {s[x10], s[x1]}
  BY DEF After, Heads10, Tails10
<1> HIDE DEF h, e
<1>2. \A y : y \in Between(h, e, 5) <=> \E i \in 1..5 : y = {e[i], h[After(i, 5)]}
  BY DEF Between
<1>3. \A i \in 1..5 : i = 1 \/ i = 2 \/ i = 3 \/ i = 4 \/ i = 5
  OBVIOUS
<1>4. 1 \in 1..5 /\ 2 \in 1..5 /\ 3 \in 1..5 /\ 4 \in 1..5 /\ 5 \in 1..5
  OBVIOUS
<1> DEFINE Link(y) == \/ y = {s[x2], s[x3]} \/ y = {s[x4], s[x5]} \/ y = {s[x6], s[x7]}
                      \/ y = {s[x8], s[x9]} \/ y = {s[x10], s[x1]}
<1>5. ASSUME NEW y PROVE y \in Between(h, e, 5) <=> Link(y)
  <2>1. ASSUME NEW i \in 1..5, y = {e[i], h[After(i, 5)]} PROVE Link(y)
    BY <1>1, <1>3, <2>1, Zenon
  <2>2. ASSUME NEW i \in 1..5, y = {e[i], h[After(i, 5)]} PROVE y \in Between(h, e, 5)
    BY <1>2, <2>2, Zenon
  <2>3. ASSUME Link(y) PROVE \E i \in 1..5 : y = {e[i], h[After(i, 5)]}
    BY <1>1, <1>4, <2>3, Zenon
  <2> QED
    BY <1>2, <2>1, <2>2, <2>3, Zenon
<1> QED
  BY <1>5 DEF Links10, h, e

\* On a tour whose parts are joined by the added edges nothing is left to be done.
LEMMA AtEnd10 ==
    ASSUME NEW s, NEW w, NEW j,
           NEW x1, NEW x2, NEW x3, NEW x4, NEW x5,
           NEW x6, NEW x7, NEW x8, NEW x9, NEW x10, Over(w, j),
           Links10(s, x1, x2, x3, x4, x5, x6, x7, x8, x9, x10) = Added(s)
    PROVE  Works10(s, w, j, x1, x2, x3, x4, x5, x6, x7, x8, x9, x10)
<1> DEFINE h == Heads10(s, x1, x2, x3, x4, x5, x6, x7, x8, x9, x10)
           e == Tails10(s, x1, x2, x3, x4, x5, x6, x7, x8, x9, x10)
<1>1. Between(h, e, 5) = Links10(s, x1, x2, x3, x4, x5, x6, x7, x8, x9, x10)
  BY Between10
<1> HIDE DEF h, e
<1>2. ASSUME NEW r, Lay(r, Kept(s), h, e, 5) PROVE Leads(r, s, w, j)
  BY <1>1, <1>2, BlockEdges, LeadsAtEnd DEF Over
<1> QED
  BY <1>2 DEF Works10, h, e

\* The tour at the call, if the parts are joined by the edges to be removed.
LEMMA Begin10 ==
    ASSUME NEW s, NEW w,
           NEW x1, NEW x2, NEW x3, NEW x4, NEW x5,
           NEW x6, NEW x7, NEW x8, NEW x9, NEW x10,
           s[x1] \in Node, s[x2] \in Node, s[x3] \in Node, s[x4] \in Node, s[x5] \in Node,
           s[x6] \in Node, s[x7] \in Node, s[x8] \in Node, s[x9] \in Node, s[x10] \in Node,
           Line10(s, x1, x2, x3, x4, x5, x6, x7, x8, x9, x10),
           Links10(s, x1, x2, x3, x4, x5, x6, x7, x8, x9, x10) = Removed(s),
           Works10(s, w, 1, x1, x2, x3, x4, x5, x6, x7, x8, x9, x10)
    PROVE  Leads(Start, s, w, 1)
<1> DEFINE h == Heads10(s, x1, x2, x3, x4, x5, x6, x7, x8, x9, x10)
           e == Tails10(s, x1, x2, x3, x4, x5, x6, x7, x8, x9, x10)
<1>1. Cut(h, e, 5)
  BY NodesAre DEF Cut, Line10, Heads10, Tails10, Node
<1>2. Between(h, e, 5) = Links10(s, x1, x2, x3, x4, x5, x6, x7, x8, x9, x10)
  BY Between10
<1> HIDE DEF h, e
<1>3. Lay(Start, Orig \ Between(h, e, 5), h, e, 5)
  BY <1>1, StartBlocks
<1>4. Lay(Start, Kept(s), h, e, 5)
  BY <1>2, <1>3 DEF Kept
<1> QED
  BY <1>4 DEF Works10, h, e

\* A swap that turns the parts up to the one before t_x3.
LEMMA Turn10_2 ==
    ASSUME NEW s, NEW w, NEW j, NEW i,
           NEW x1, NEW x2, NEW x3, NEW x4, NEW x5,
           NEW x6, NEW x7, NEW x8, NEW x9, NEW x10,
           Swap(w, j, i, x10, x1, x3),
           Works10(s, w, i, x2, x1, x3, x4, x5, x6, x7, x8, x9, x10)
    PROVE  Works10(s, w, j, x1, x2, x3, x4, x5, x6, x7, x8, x9, x10)
<1> DEFINE h == Heads10(s, x1, x2, x3, x4, x5, x6, x7, x8, x9, x10)
           e == Tails10(s, x1, x2, x3, x4, x5, x6, x7, x8, x9, x10)
           h2 == Heads10(s, x2, x1, x3, x4, x5, x6, x7, x8, x9, x10)
           e2 == Tails10(s, x2, x1, x3, x4, x5, x6, x7, x8, x9, x10)
<1>1. FirstTurned(h, e, h2, e2, 5, 2)
  BY DEF FirstTurned, Heads10, Tails10
<1>2. h[1] = s[x1] /\ h[2] = s[x3] /\ e[5] = s[x10]
  BY DEF Heads10, Tails10
<1>3. 5 \in Nat /\ 2 \in 2..5
  OBVIOUS
<1> HIDE DEF h, e, h2, e2
<1>4. ASSUME NEW r, Lay(r, Kept(s), h, e, 5) PROVE Leads(r, s, w, j)
  <2>1. /\ Adjacent(r, e[5], h[1]) /\ h[2] # h[1]
        /\ Lay(Flip(r, e[5], h[1], h[2]), Kept(s), h2, e2, 5)
    BY <1>1, <1>3, <1>4, FlipBlocks
  <2>2. Fits(r, s, x10, x1, x3) /\ Lay(Turn(r, s, x10, x1, x3), Kept(s), h2, e2, 5)
    BY <1>2, <2>1 DEF Fits, Turn
  <2>3. Leads(Turn(r, s, x10, x1, x3), s, w, i)
    BY <2>2 DEF Works10, h2, e2
  <2> QED
    BY <2>2, <2>3, LeadsBefore DEF Swap
<1> QED
  BY <1>4 DEF Works10, h, e

\* A swap that turns the parts up to the one before t_x5.
LEMMA Turn10_3 ==
    ASSUME NEW s, NEW w, NEW j, NEW i,
           NEW x1, NEW x2, NEW x3, NEW x4, NEW x5,
           NEW x6, NEW x7, NEW x8, NEW x9, NEW x10,
           Swap(w, j, i, x10, x1, x5),
           Works10(s, w, i, x4, x3, x2, x1, x5, x6, x7, x8, x9, x10)
    PROVE  Works10(s, w, j, x1, x2, x3, x4, x5, x6, x7, x8, x9, x10)
<1> DEFINE h == Heads10(s, x1, x2, x3, x4, x5, x6, x7, x8, x9, x10)
           e == Tails10(s, x1, x2, x3, x4, x5, x6, x7, x8, x9, x10)
           h2 == Heads10(s, x4, x3, x2, x1, x5, x6, x7, x8, x9, x10)
           e2 == Tails10(s, x4, x3, x2, x1, x5, x6, x7, x8, x9, x10)
<1>1. FirstTurned(h, e, h2, e2, 5, 3)
  BY DEF FirstTurned, Heads10, Tails10
<1>2. h[1] = s[x1] /\ h[3] = s[x5] /\ e[5] = s[x10]
  BY DEF Heads10, Tails10
<1>3. 5 \in Nat /\ 3 \in 2..5
  OBVIOUS
<1> HIDE DEF h, e, h2, e2
<1>4. ASSUME NEW r, Lay(r, Kept(s), h, e, 5) PROVE Leads(r, s, w, j)
  <2>1. /\ Adjacent(r, e[5], h[1]) /\ h[3] # h[1]
        /\ Lay(Flip(r, e[5], h[1], h[3]), Kept(s), h2, e2, 5)
    BY <1>1, <1>3, <1>4, FlipBlocks
  <2>2. Fits(r, s, x10, x1, x5) /\ Lay(Turn(r, s, x10, x1, x5), Kept(s), h2, e2, 5)
    BY <1>2, <2>1 DEF Fits, Turn
  <2>3. Leads(Turn(r, s, x10, x1, x5), s, w, i)
    BY <2>2 DEF Works10, h2, e2
  <2> QED
    BY <2>2, <2>3, LeadsBefore DEF Swap
<1> QED
  BY <1>4 DEF Works10, h, e

\* A swap that turns the parts up to the one before t_x7.
LEMMA Turn10_4 ==
    ASSUME NEW s, NEW w, NEW j, NEW i,
           NEW x1, NEW x2, NEW x3, NEW x4, NEW x5,
           NEW x6, NEW x7, NEW x8, NEW x9, NEW x10,
           Swap(w, j, i, x10, x1, x7),
           Works10(s, w, i, x6, x5, x4, x3, x2, x1, x7, x8, x9, x10)
    PROVE  Works10(s, w, j, x1, x2, x3, x4, x5, x6, x7, x8, x9, x10)
<1> DEFINE h == Heads10(s, x1, x2, x3, x4, x5, x6, x7, x8, x9, x10)
           e == Tails10(s, x1, x2, x3, x4, x5, x6, x7, x8, x9, x10)
           h2 == Heads10(s, x6, x5, x4, x3, x2, x1, x7, x8, x9, x10)
           e2 == Tails10(s, x6, x5, x4, x3, x2, x1, x7, x8, x9, x10)
<1>1. FirstTurned(h, e, h2, e2, 5, 4)
  BY DEF FirstTurned, Heads10, Tails10
<1>2. h[1] = s[x1] /\ h[4] = s[x7] /\ e[5] = s[x10]
  BY DEF Heads10, Tails10
<1>3. 5 \in Nat /\ 4 \in 2..5
  OBVIOUS
<1> HIDE DEF h, e, h2, e2
<1>4. ASSUME NEW r, Lay(r, Kept(s), h, e, 5) PROVE Leads(r, s, w, j)
  <2>1. /\ Adjacent(r, e[5], h[1]) /\ h[4] # h[1]
        /\ Lay(Flip(r, e[5], h[1], h[4]), Kept(s), h2, e2, 5)
    BY <1>1, <1>3, <1>4, FlipBlocks
  <2>2. Fits(r, s, x10, x1, x7) /\ Lay(Turn(r, s, x10, x1, x7), Kept(s), h2, e2, 5)
    BY <1>2, <2>1 DEF Fits, Turn
  <2>3. Leads(Turn(r, s, x10, x1, x7), s, w, i)
    BY <2>2 DEF Works10, h2, e2
  <2> QED
    BY <2>2, <2>3, LeadsBefore DEF Swap
<1> QED
  BY <1>4 DEF Works10, h, e

\* A swap that turns the parts up to the one before t_x9.
LEMMA Turn10_5 ==
    ASSUME NEW s, NEW w, NEW j, NEW i,
           NEW x1, NEW x2, NEW x3, NEW x4, NEW x5,
           NEW x6, NEW x7, NEW x8, NEW x9, NEW x10,
           Swap(w, j, i, x10, x1, x9),
           Works10(s, w, i, x8, x7, x6, x5, x4, x3, x2, x1, x9, x10)
    PROVE  Works10(s, w, j, x1, x2, x3, x4, x5, x6, x7, x8, x9, x10)
<1> DEFINE h == Heads10(s, x1, x2, x3, x4, x5, x6, x7, x8, x9, x10)
           e == Tails10(s, x1, x2, x3, x4, x5, x6, x7, x8, x9, x10)
           h2 == Heads10(s, x8, x7, x6, x5, x4, x3, x2, x1, x9, x10)
           e2 == Tails10(s, x8, x7, x6, x5, x4, x3, x2, x1, x9, x10)
<1>1. FirstTurned(h, e, h2, e2, 5, 5)
  BY DEF FirstTurned, Heads10, Tails10
<1>2. h[1] = s[x1] /\ h[5] = s[x9] /\ e[5] = s[x10]
  BY DEF Heads10, Tails10
<1>3. 5 \in Nat /\ 5 \in 2..5
  OBVIOUS
<1> HIDE DEF h, e, h2, e2
<1>4. ASSUME NEW r, Lay(r, Kept(s), h, e, 5) PROVE Leads(r, s, w, j)
  <2>1. /\ Adjacent(r, e[5], h[1]) /\ h[5] # h[1]
        /\ Lay(Flip(r, e[5], h[1], h[5]), Kept(s), h2, e2, 5)
    BY <1>1, <1>3, <1>4, FlipBlocks
  <2>2. Fits(r, s, x10, x1, x9) /\ Lay(Turn(r, s, x10, x1, x9), Kept(s), h2, e2, 5)
    BY <1>2, <2>1 DEF Fits, Turn
  <2>3. Leads(Turn(r, s, x10, x1, x9), s, w, i)
    BY <2>2 DEF Works10, h2, e2
  <2> QED
    BY <2>2, <2>3, LeadsBefore DEF Swap
<1> QED
  BY <1>4 DEF Works10, h, e

\* The edges that ten nodes stand for.
Out10(s) == {{s[1], s[2]}, {s[3], s[4]}, {s[5], s[6]}, {s[7], s[8]}, {s[9], s[10]}}
In10(s) == {{s[2], s[3]}, {s[4], s[5]}, {s[6], s[7]}, {s[8], s[9]}, {s[10], s[1]}}

\* Ten nodes.
LEMMA Exchange10 ==
    ASSUME NEW s, Chosen(s, 10)
    PROVE  /\ s[1] \in Node /\ s[2] \in Node
           /\ s[3] \in Node /\ s[4] \in Node /\ s[5] \in Node
           /\ s[6] \in Node /\ s[7] \in Node
           /\ s[8] \in Node /\ s[9] \in Node /\ s[10] \in Node
           /\ Removed(s) = Out10(s) /\ Added(s) = In10(s)
<1>1. Len(s) = 10 /\ Len(s) \div 2 = 5
  BY DEF Chosen
<1>2. 1..5 = {1, 2, 3, 4, 5} /\ 1..(5 - 1) = {1, 2, 3, 4}
  OBVIOUS
<1>3. Removed(s) = {{s[2*i - 1], s[2*i]} : i \in {1, 2, 3, 4, 5}}
  BY <1>1, <1>2 DEF Removed
<1>4. Added(s) = {{s[2*i], s[2*i + 1]} : i \in {1, 2, 3, 4}} \cup {{s[10], s[1]}}
  BY <1>1, <1>2 DEF Added, Last
<1>5. \A i \in 1..10 : s[i] \in Node
  BY DEF Chosen
<1> QED
  BY <1>3, <1>4, <1>5 DEF Out10, In10

-----------------------------------------------------------------------------
(* The orders in which t1, ..., t2k may lie on the tour, by the cases.   *)

\* The swaps w make the exchange.
Right(s, w) == w \in Seq(Nat) /\ Len(w) \in {3, 6, 9, 12, 15} /\ Leads(Start, s, w, 1)

Orders4(s, c) ==
    \/ c = 1 /\ Line4(s, 2,4, 3,1)
    \/ c = 2 /\ Line4(s, 2,3, 4,1)

Orders6(s, c) ==
    \/ c = 1 /\ Line6(s, 2,5, 6,4, 3,1)
    \/ c = 2 /\ Line6(s, 2,4, 3,6, 5,1)
    \/ c = 3 /\ Line6(s, 2,6, 5,4, 3,1)
    \/ c = 4 /\ Line6(s, 2,4, 3,5, 6,1)
    \/ c = 5 /\ Line6(s, 2,5, 6,3, 4,1)
    \/ c = 6 /\ Line6(s, 2,6, 5,3, 4,1)
    \/ c = 7 /\ Line6(s, 2,3, 4,6, 5,1)
    \/ c = 8 /\ Line6(s, 2,3, 4,5, 6,1)

Orders8(s, c) ==
    \/ c = 1 /\ \/ Line8(s, 2,5, 6,4, 3,8, 7,1)
                \/ Line8(s, 2,5, 6,8, 7,4, 3,1)
                \/ Line8(s, 2,7, 8,5, 6,4, 3,1)
    \/ c = 2 /\ \/ Line8(s, 2,4, 3,6, 5,8, 7,1)
                \/ Line8(s, 2,4, 3,7, 8,6, 5,1)
                \/ Line8(s, 2,8, 7,4, 3,6, 5,1)
    \/ c = 3 /\ \/ Line8(s, 2,6, 5,7, 8,4, 3,1)
                \/ Line8(s, 2,7, 8,6, 5,4, 3,1)
    \/ c = 4 /\ \/ Line8(s, 2,4, 3,5, 6,8, 7,1)
                \/ Line8(s, 2,4, 3,8, 7,5, 6,1)
                \/ Line8(s, 2,7, 8,4, 3,5, 6,1)
    \/ c = 5 /\ \/ Line8(s, 2,5, 6,3, 4,8, 7,1)
                \/ Line8(s, 2,5, 6,8, 7,3, 4,1)
                \/ Line8(s, 2,8, 7,5, 6,3, 4,1)
    \/ c = 6 /\ \/ Line8(s, 2,6, 5,3, 4,8, 7,1)
                \/ Line8(s, 2,6, 5,7, 8,3, 4,1)
                \/ Line8(s, 2,7, 8,6, 5,3, 4,1)
    \/ c = 7 /\ \/ Line8(s, 2,3, 4,7, 8,6, 5,1)
                \/ Line8(s, 2,7, 8,3, 4,6, 5,1)
    \/ c = 8 /\ \/ Line8(s, 2,3, 4,7, 8,5, 6,1)
                \/ Line8(s, 2,7, 8,3, 4,5, 6,1)
    \/ c = 9 /\ \/ Line8(s, 2,5, 6,4, 3,7, 8,1)
                \/ Line8(s, 2,5, 6,7, 8,4, 3,1)
                \/ Line8(s, 2,8, 7,5, 6,4, 3,1)
    \/ c = 10 /\ \/ Line8(s, 2,4, 3,6, 5,7, 8,1)
                 \/ Line8(s, 2,4, 3,8, 7,6, 5,1)
                 \/ Line8(s, 2,7, 8,4, 3,6, 5,1)
    \/ c = 11 /\ \/ Line8(s, 2,6, 5,4, 3,8, 7,1)
                 \/ Line8(s, 2,6, 5,8, 7,4, 3,1)
    \/ c = 12 /\ \/ Line8(s, 2,4, 3,7, 8,5, 6,1)
                 \/ Line8(s, 2,8, 7,4, 3,5, 6,1)
    \/ c = 13 /\ \/ Line8(s, 2,5, 6,3, 4,7, 8,1)
                 \/ Line8(s, 2,5, 6,7, 8,3, 4,1)
                 \/ Line8(s, 2,7, 8,5, 6,3, 4,1)
    \/ c = 14 /\ \/ Line8(s, 2,6, 5,3, 4,7, 8,1)
                 \/ Line8(s, 2,6, 5,8, 7,3, 4,1)
                 \/ Line8(s, 2,8, 7,6, 5,3, 4,1)
    \/ c = 15 /\ \/ Line8(s, 2,3, 4,6, 5,8, 7,1)
                 \/ Line8(s, 2,8, 7,3, 4,6, 5,1)
    \/ c = 16 /\ \/ Line8(s, 2,3, 4,8, 7,5, 6,1)
                 \/ Line8(s, 2,8, 7,3, 4,5, 6,1)

Orders10_1(s) == Line10(s, 2,7, 8,6, 5,9, 10,4, 3,1)
Orders10_2(s) ==
    \/ Line10(s, 2,4, 3,9, 10,5, 6,8, 7,1)
    \/ Line10(s, 2,9, 10,4, 3,5, 6,8, 7,1)
Orders10_3(s) == Line10(s, 2,9, 10,3, 4,7, 8,6, 5,1)
Orders10_4(s) == Line10(s, 2,7, 8,3, 4,9, 10,5, 6,1)
Orders10_5(s) == Line10(s, 2,9, 10,3, 4,7, 8,5, 6,1)
Orders10_6(s) ==
    \/ Line10(s, 2,8, 7,5, 6,9, 10,4, 3,1)
    \/ Line10(s, 2,8, 7,9, 10,5, 6,4, 3,1)
Orders10_7(s) ==
    \/ Line10(s, 2,5, 6,4, 3,9, 10,7, 8,1)
    \/ Line10(s, 2,5, 6,9, 10,4, 3,7, 8,1)
    \/ Line10(s, 2,9, 10,5, 6,4, 3,7, 8,1)
Orders10_8(s) == Line10(s, 2,5, 6,9, 10,7, 8,4, 3,1)
Orders10_9(s) == Line10(s, 2,4, 3,8, 7,9, 10,6, 5,1)
Orders10_10(s) ==
    \/ Line10(s, 2,4, 3,6, 5,9, 10,7, 8,1)
    \/ Line10(s, 2,4, 3,9, 10,6, 5,7, 8,1)
    \/ Line10(s, 2,9, 10,4, 3,6, 5,7, 8,1)
Orders10_11(s) ==
    \/ Line10(s, 2,7, 8,4, 3,9, 10,6, 5,1)
    \/ Line10(s, 2,9, 10,7, 8,4, 3,6, 5,1)
Orders10_12(s) == Line10(s, 2,6, 5,9, 10,4, 3,8, 7,1)
Orders10_13(s) ==
    \/ Line10(s, 2,5, 6,3, 4,9, 10,7, 8,1)
    \/ Line10(s, 2,5, 6,9, 10,3, 4,7, 8,1)
    \/ Line10(s, 2,9, 10,5, 6,3, 4,7, 8,1)
Orders10_14(s) == Line10(s, 2,5, 6,9, 10,7, 8,3, 4,1)
Orders10_15(s) ==
    \/ Line10(s, 2,7, 8,5, 6,9, 10,3, 4,1)
    \/ Line10(s, 2,9, 10,7, 8,5, 6,3, 4,1)
Orders10_16(s) ==
    \/ Line10(s, 2,6, 5,3, 4,9, 10,7, 8,1)
    \/ Line10(s, 2,6, 5,9, 10,3, 4,7, 8,1)
    \/ Line10(s, 2,9, 10,6, 5,3, 4,7, 8,1)
Orders10_17(s) ==
    \/ Line10(s, 2,6, 5,8, 7,9, 10,3, 4,1)
    \/ Line10(s, 2,9, 10,6, 5,8, 7,3, 4,1)
Orders10_18(s) == Line10(s, 2,8, 7,9, 10,6, 5,3, 4,1)
Orders10_19(s) == Line10(s, 2,9, 10,3, 4,6, 5,8, 7,1)
Orders10_20(s) == Line10(s, 2,8, 7,3, 4,9, 10,5, 6,1)
Orders10_21(s) == Line10(s, 2,9, 10,3, 4,8, 7,5, 6,1)
Orders10_22(s) ==
    \/ Line10(s, 2,5, 6,4, 3,8, 7,10, 9,1)
    \/ Line10(s, 2,5, 6,4, 3,9, 10,8, 7,1)
    \/ Line10(s, 2,5, 6,8, 7,4, 3,10, 9,1)
    \/ Line10(s, 2,5, 6,8, 7,10, 9,4, 3,1)
    \/ Line10(s, 2,5, 6,9, 10,4, 3,8, 7,1)
    \/ Line10(s, 2,5, 6,9, 10,8, 7,4, 3,1)
    \/ Line10(s, 2,7, 8,5, 6,4, 3,10, 9,1)
    \/ Line10(s, 2,7, 8,5, 6,9, 10,4, 3,1)
    \/ Line10(s, 2,7, 8,10, 9,5, 6,4, 3,1)
    \/ Line10(s, 2,9, 10,5, 6,8, 7,4, 3,1)
    \/ Line10(s, 2,9, 10,7, 8,5, 6,4, 3,1)
    \/ Line10(s, 2,10, 9,5, 6,4, 3,8, 7,1)
Orders10_23(s) ==
    \/ Line10(s, 2,4, 3,6, 5,8, 7,10, 9,1)
    \/ Line10(s, 2,4, 3,6, 5,9, 10,8, 7,1)
    \/ Line10(s, 2,4, 3,7, 8,6, 5,10, 9,1)
    \/ Line10(s, 2,4, 3,7, 8,10, 9,6, 5,1)
    \/ Line10(s, 2,4, 3,9, 10,7, 8,6, 5,1)
    \/ Line10(s, 2,4, 3,10, 9,6, 5,8, 7,1)
    \/ Line10(s, 2,8, 7,4, 3,6, 5,10, 9,1)
    \/ Line10(s, 2,8, 7,4, 3,10, 9,6, 5,1)
    \/ Line10(s, 2,8, 7,10, 9,4, 3,6, 5,1)
    \/ Line10(s, 2,9, 10,4, 3,6, 5,8, 7,1)
    \/ Line10(s, 2,9, 10,8, 7,4, 3,6, 5,1)
    \/ Line10(s, 2,10, 9,4, 3,7, 8,6, 5,1)
Orders10_24(s) ==
    \/ Line10(s, 2,6, 5,7, 8,4, 3,10, 9,1)
    \/ Line10(s, 2,6, 5,7, 8,10, 9,4, 3,1)
    \/ Line10(s, 2,6, 5,10, 9,7, 8,4, 3,1)
    \/ Line10(s, 2,9, 10,6, 5,7, 8,4, 3,1)
Orders10_25(s) ==
    \/ Line10(s, 2,4, 3,8, 7,5, 6,10, 9,1)
    \/ Line10(s, 2,4, 3,8, 7,9, 10,5, 6,1)
    \/ Line10(s, 2,4, 3,9, 10,8, 7,5, 6,1)
    \/ Line10(s, 2,7, 8,4, 3,5, 6,10, 9,1)
    \/ Line10(s, 2,7, 8,4, 3,9, 10,5, 6,1)
    \/ Line10(s, 2,7, 8,10, 9,4, 3,5, 6,1)
    \/ Line10(s, 2,10, 9,4, 3,8, 7,5, 6,1)
    \/ Line10(s, 2,10, 9,7, 8,4, 3,5, 6,1)
Orders10_26(s) ==
    \/ Line10(s, 2,5, 6,3, 4,8, 7,10, 9,1)
    \/ Line10(s, 2,5, 6,3, 4,9, 10,8, 7,1)
    \/ Line10(s, 2,5, 6,8, 7,3, 4,10, 9,1)
    \/ Line10(s, 2,5, 6,8, 7,10, 9,3, 4,1)
    \/ Line10(s, 2,5, 6,9, 10,3, 4,8, 7,1)
    \/ Line10(s, 2,5, 6,9, 10,8, 7,3, 4,1)
    \/ Line10(s, 2,8, 7,5, 6,3, 4,10, 9,1)
    \/ Line10(s, 2,8, 7,5, 6,9, 10,3, 4,1)
    \/ Line10(s, 2,8, 7,10, 9,5, 6,3, 4,1)
    \/ Line10(s, 2,9, 10,5, 6,3, 4,8, 7,1)
    \/ Line10(s, 2,9, 10,8, 7,5, 6,3, 4,1)
    \/ Line10(s, 2,10, 9,5, 6,8, 7,3, 4,1)
Orders10_27(s) ==
    \/ Line10(s, 2,6, 5,3, 4,8, 7,10, 9,1)
    \/ Line10(s, 2,6, 5,3, 4,9, 10,8, 7,1)
    \/ Line10(s, 2,6, 5,7, 8,3, 4,10, 9,1)
    \/ Line10(s, 2,6, 5,7, 8,10, 9,3, 4,1)
    \/ Line10(s, 2,6, 5,9, 10,7, 8,3, 4,1)
    \/ Line10(s, 2,6, 5,10, 9,3, 4,8, 7,1)
    \/ Line10(s, 2,7, 8,6, 5,3, 4,10, 9,1)
    \/ Line10(s, 2,7, 8,6, 5,9, 10,3, 4,1)
    \/ Line10(s, 2,7, 8,10, 9,6, 5,3, 4,1)
    \/ Line10(s, 2,9, 10,7, 8,6, 5,3, 4,1)
    \/ Line10(s, 2,10, 9,6, 5,3, 4,8, 7,1)
    \/ Line10(s, 2,10, 9,6, 5,7, 8,3, 4,1)
Orders10_28(s) ==
    \/ Line10(s, 2,7, 8,3, 4,6, 5,10, 9,1)
    \/ Line10(s, 2,7, 8,3, 4,9, 10,6, 5,1)
    \/ Line10(s, 2,7, 8,10, 9,3, 4,6, 5,1)
    \/ Line10(s, 2,10, 9,7, 8,3, 4,6, 5,1)
Orders10_29(s) ==
    \/ Line10(s, 2,6, 5,8, 7,4, 3,10, 9,1)
    \/ Line10(s, 2,6, 5,8, 7,9, 10,4, 3,1)
    \/ Line10(s, 2,6, 5,9, 10,8, 7,4, 3,1)
    \/ Line10(s, 2,9, 10,6, 5,8, 7,4, 3,1)
Orders10_30(s) ==
    \/ Line10(s, 2,4, 3,7, 8,5, 6,10, 9,1)
    \/ Line10(s, 2,4, 3,7, 8,10, 9,5, 6,1)
    \/ Line10(s, 2,4, 3,10, 9,7, 8,5, 6,1)
    \/ Line10(s, 2,8, 7,4, 3,5, 6,10, 9,1)
    \/ Line10(s, 2,8, 7,4, 3,10, 9,5, 6,1)
    \/ Line10(s, 2,8, 7,9, 10,4, 3,5, 6,1)
    \/ Line10(s, 2,9, 10,4, 3,7, 8,5, 6,1)
    \/ Line10(s, 2,9, 10,8, 7,4, 3,5, 6,1)
Orders10_31(s) ==
    \/ Line10(s, 2,8, 7,3, 4,6, 5,10, 9,1)
    \/ Line10(s, 2,8, 7,3, 4,9, 10,6, 5,1)
    \/ Line10(s, 2,8, 7,9, 10,3, 4,6, 5,1)
    \/ Line10(s, 2,9, 10,8, 7,3, 4,6, 5,1)
Orders10_32(s) == Line10(s, 2,7, 8,6, 5,10, 9,4, 3,1)
Orders10_33(s) ==
    \/ Line10(s, 2,4, 3,10, 9,5, 6,8, 7,1)
    \/ Line10(s, 2,10, 9,4, 3,5, 6,8, 7,1)
Orders10_34(s) == Line10(s, 2,10, 9,3, 4,7, 8,6, 5,1)
Orders10_35(s) == Line10(s, 2,7, 8,3, 4,10, 9,5, 6,1)
Orders10_36(s) == Line10(s, 2,10, 9,3, 4,7, 8,5, 6,1)
Orders10_37(s) ==
    \/ Line10(s, 2,8, 7,5, 6,10, 9,4, 3,1)
    \/ Line10(s, 2,8, 7,10, 9,5, 6,4, 3,1)
Orders10_38(s) ==
    \/ Line10(s, 2,5, 6,4, 3,10, 9,7, 8,1)
    \/ Line10(s, 2,5, 6,10, 9,4, 3,7, 8,1)
    \/ Line10(s, 2,10, 9,5, 6,4, 3,7, 8,1)
Orders10_39(s) == Line10(s, 2,5, 6,10, 9,7, 8,4, 3,1)
Orders10_40(s) == Line10(s, 2,4, 3,8, 7,10, 9,6, 5,1)
Orders10_41(s) ==
    \/ Line10(s, 2,4, 3,6, 5,10, 9,7, 8,1)
    \/ Line10(s, 2,4, 3,10, 9,6, 5,7, 8,1)
    \/ Line10(s, 2,10, 9,4, 3,6, 5,7, 8,1)
Orders10_42(s) ==
    \/ Line10(s, 2,7, 8,4, 3,10, 9,6, 5,1)
    \/ Line10(s, 2,10, 9,7, 8,4, 3,6, 5,1)
Orders10_43(s) == Line10(s, 2,6, 5,10, 9,4, 3,8, 7,1)
Orders10_44(s) ==
    \/ Line10(s, 2,5, 6,3, 4,10, 9,7, 8,1)
    \/ Line10(s, 2,5, 6,10, 9,3, 4,7, 8,1)
    \/ Line10(s, 2,10, 9,5, 6,3, 4,7, 8,1)
Orders10_45(s) == Line10(s, 2,5, 6,10, 9,7, 8,3, 4,1)
Orders10_46(s) ==
    \/ Line10(s, 2,7, 8,5, 6,10, 9,3, 4,1)
    \/ Line10(s, 2,10, 9,7, 8,5, 6,3, 4,1)
Orders10_47(s) ==
    \/ Line10(s, 2,6, 5,3, 4,10, 9,7, 8,1)
    \/ Line10(s, 2,6, 5,10, 9,3, 4,7, 8,1)
    \/ Line10(s, 2,10, 9,6, 5,3, 4,7, 8,1)
Orders10_48(s) ==
    \/ Line10(s, 2,6, 5,8, 7,10, 9,3, 4,1)
    \/ Line10(s, 2,10, 9,6, 5,8, 7,3, 4,1)
Orders10_49(s) == Line10(s, 2,8, 7,10, 9,6, 5,3, 4,1)
Orders10_50(s) == Line10(s, 2,10, 9,3, 4,6, 5,8, 7,1)
Orders10_51(s) == Line10(s, 2,8, 7,3, 4,10, 9,5, 6,1)
Orders10_52(s) == Line10(s, 2,10, 9,3, 4,8, 7,5, 6,1)

Orders10(s, c) ==
    \/ (c = 1 /\ Orders10_1(s)) \/ (c = 2 /\ Orders10_2(s)) \/ (c = 3 /\ Orders10_3(s))
    \/ (c = 4 /\ Orders10_4(s)) \/ (c = 5 /\ Orders10_5(s)) \/ (c = 6 /\ Orders10_6(s))
    \/ (c = 7 /\ Orders10_7(s)) \/ (c = 8 /\ Orders10_8(s)) \/ (c = 9 /\ Orders10_9(s))
    \/ (c = 10 /\ Orders10_10(s)) \/ (c = 11 /\ Orders10_11(s)) \/ (c = 12 /\ Orders10_12(s))
    \/ (c = 13 /\ Orders10_13(s)) \/ (c = 14 /\ Orders10_14(s)) \/ (c = 15 /\ Orders10_15(s))
    \/ (c = 16 /\ Orders10_16(s)) \/ (c = 17 /\ Orders10_17(s)) \/ (c = 18 /\ Orders10_18(s))
    \/ (c = 19 /\ Orders10_19(s)) \/ (c = 20 /\ Orders10_20(s)) \/ (c = 21 /\ Orders10_21(s))
    \/ (c = 22 /\ Orders10_22(s)) \/ (c = 23 /\ Orders10_23(s)) \/ (c = 24 /\ Orders10_24(s))
    \/ (c = 25 /\ Orders10_25(s)) \/ (c = 26 /\ Orders10_26(s)) \/ (c = 27 /\ Orders10_27(s))
    \/ (c = 28 /\ Orders10_28(s)) \/ (c = 29 /\ Orders10_29(s)) \/ (c = 30 /\ Orders10_30(s))
    \/ (c = 31 /\ Orders10_31(s)) \/ (c = 32 /\ Orders10_32(s)) \/ (c = 33 /\ Orders10_33(s))
    \/ (c = 34 /\ Orders10_34(s)) \/ (c = 35 /\ Orders10_35(s)) \/ (c = 36 /\ Orders10_36(s))
    \/ (c = 37 /\ Orders10_37(s)) \/ (c = 38 /\ Orders10_38(s)) \/ (c = 39 /\ Orders10_39(s))
    \/ (c = 40 /\ Orders10_40(s)) \/ (c = 41 /\ Orders10_41(s)) \/ (c = 42 /\ Orders10_42(s))
    \/ (c = 43 /\ Orders10_43(s)) \/ (c = 44 /\ Orders10_44(s)) \/ (c = 45 /\ Orders10_45(s))
    \/ (c = 46 /\ Orders10_46(s)) \/ (c = 47 /\ Orders10_47(s)) \/ (c = 48 /\ Orders10_48(s))
    \/ (c = 49 /\ Orders10_49(s)) \/ (c = 50 /\ Orders10_50(s)) \/ (c = 51 /\ Orders10_51(s))
    \/ (c = 52 /\ Orders10_52(s))

\* Those of eight nodes after which the tour may be closed.
Closed8(s, c) ==
    \/ c = 1 /\ \/ Line8(s, 2,5, 6,4, 3,8, 7,1)
                \/ Line8(s, 2,5, 6,8, 7,4, 3,1)
                \/ Line8(s, 2,7, 8,5, 6,4, 3,1)
    \/ c = 2 /\ \/ Line8(s, 2,4, 3,6, 5,8, 7,1)
                \/ Line8(s, 2,4, 3,7, 8,6, 5,1)
                \/ Line8(s, 2,8, 7,4, 3,6, 5,1)
    \/ c = 3 /\ Line8(s, 2,6, 5,7, 8,4, 3,1)
    \/ c = 4 /\ \/ Line8(s, 2,4, 3,8, 7,5, 6,1)
                \/ Line8(s, 2,7, 8,4, 3,5, 6,1)
    \/ c = 5 /\ \/ Line8(s, 2,5, 6,3, 4,8, 7,1)
                \/ Line8(s, 2,5, 6,8, 7,3, 4,1)
                \/ Line8(s, 2,8, 7,5, 6,3, 4,1)
    \/ c = 6 /\ \/ Line8(s, 2,6, 5,3, 4,8, 7,1)
                \/ Line8(s, 2,6, 5,7, 8,3, 4,1)
                \/ Line8(s, 2,7, 8,6, 5,3, 4,1)
    \/ c = 7 /\ Line8(s, 2,7, 8,3, 4,6, 5,1)
    \/ c = 11 /\ Line8(s, 2,6, 5,8, 7,4, 3,1)
    \/ c = 12 /\ \/ Line8(s, 2,4, 3,7, 8,5, 6,1)
                 \/ Line8(s, 2,8, 7,4, 3,5, 6,1)
    \/ c = 15 /\ Line8(s, 2,8, 7,3, 4,6, 5,1)

\* Make2OptMove.
LEMMA Move4_1 ==
    ASSUME NEW s, Chosen(s, 4), Orders4(s, 1)
    PROVE  Right(s, Make2OptMove)
<1> DEFINE w == Make2OptMove
<1>1. /\ w \in Seq(Nat) /\ Len(w) = 3 /\ Over(w, 4)
      /\ Swap(w, 1, 4, 1, 2, 3)
  BY DEF Swap, Over, Make2OptMove
<1> HIDE DEF w
<1>2. Links4(s, 2,4, 3,1) = Out4(s)
  BY DEF Links4, Out4
<1>3. Links4(s, 4,2, 3,1) = In4(s)
  BY DEF Links4, In4
<1>4. Works4(s, w, 4, 4,2, 3,1)
  BY <1>1, <1>3, Exchange4, AtEnd4
<1>5. Works4(s, w, 1, 2,4, 3,1)
  BY <1>1, <1>4, Turn4_2
<1>6. Line4(s, 2,4, 3,1)
  BY DEF Orders4
<1> QED
  BY <1>1, <1>6, <1>2, <1>5, Exchange4, Begin4 DEF Right, w

\* Make3OptMove, by cases.
LEMMA Move6_1 ==
    ASSUME NEW s, Chosen(s, 6), Orders6(s, 1)
    PROVE  Right(s, Make3OptMove(1))
<1> DEFINE w == Make3OptMove(1)
<1>1. /\ w \in Seq(Nat) /\ Len(w) = 6 /\ Over(w, 7)
      /\ Swap(w, 1, 4, 1, 2, 3) /\ Swap(w, 4, 7, 6, 5, 4)
  BY DEF Swap, Over, Make3OptMove
<1> HIDE DEF w
<1>2. Links6(s, 2,5, 6,4, 3,1) = Out6(s)
  BY DEF Links6, Out6
<1>3. Links6(s, 1,3, 2,5, 4,6) = In6(s)
  BY DEF Links6, In6
<1>4. Works6(s, w, 7, 1,3, 2,5, 4,6)
  BY <1>1, <1>3, Exchange6, AtEnd6
<1>5. Works6(s, w, 4, 5,2, 3,1, 4,6)
  BY <1>1, <1>4, Turn6_3
<1>6. Works6(s, w, 1, 2,5, 6,4, 3,1)
  BY <1>1, <1>5, Rotate6_1, Turn6_3
<1>7. Line6(s, 2,5, 6,4, 3,1)
  BY DEF Orders6
<1> QED
  BY <1>1, <1>7, <1>2, <1>6, Exchange6, Begin6 DEF Right, w

\* Make3OptMove, case 2.
LEMMA Move6_2 ==
    ASSUME NEW s, Chosen(s, 6), Orders6(s, 2)
    PROVE  Right(s, Make3OptMove(2))
<1> DEFINE w == Make3OptMove(2)
<1>1. /\ w \in Seq(Nat) /\ Len(w) = 6 /\ Over(w, 7)
      /\ Swap(w, 1, 4, 1, 2, 3) /\ Swap(w, 4, 7, 6, 5, 4)
  BY DEF Swap, Over, Make3OptMove
<1> HIDE DEF w
<1>2. Links6(s, 2,4, 3,6, 5,1) = Out6(s)
  BY DEF Links6, Out6
<1>3. Links6(s, 1,5, 4,2, 3,6) = In6(s)
  BY DEF Links6, In6
<1>4. Works6(s, w, 7, 1,5, 4,2, 3,6)
  BY <1>1, <1>3, Exchange6, AtEnd6
<1>5. Works6(s, w, 4, 5,1, 4,2, 3,6)
  BY <1>1, <1>4, Turn6_2
<1>6. Works6(s, w, 1, 2,4, 3,6, 5,1)
  BY <1>1, <1>5, Rotate6_2, Turn6_2
<1>7. Line6(s, 2,4, 3,6, 5,1)
  BY DEF Orders6
<1> QED
  BY <1>1, <1>7, <1>2, <1>6, Exchange6, Begin6 DEF Right, w

\* Make3OptMove, case 5.
LEMMA Move6_5 ==
    ASSUME NEW s, Chosen(s, 6), Orders6(s, 5)
    PROVE  Right(s, Make3OptMove(5))
<1> DEFINE w == Make3OptMove(5)
<1>1. /\ w \in Seq(Nat) /\ Len(w) = 9 /\ Over(w, 10)
      /\ Swap(w, 1, 4, 1, 2, 4) /\ Swap(w, 4, 7, 6, 5, 4)
      /\ Swap(w, 7, 10, 6, 2, 3)
  BY DEF Swap, Over, Make3OptMove
<1> HIDE DEF w
<1>2. Links6(s, 2,5, 6,3, 4,1) = Out6(s)
  BY DEF Links6, Out6
<1>3. Links6(s, 1,4, 5,2, 3,6) = In6(s)
  BY DEF Links6, In6
<1>4. Works6(s, w, 10, 1,4, 5,2, 3,6)
  BY <1>1, <1>3, Exchange6, AtEnd6
<1>5. Works6(s, w, 7, 2,5, 4,1, 3,6)
  BY <1>1, <1>4, Turn6_3
<1>6. Works6(s, w, 4, 5,2, 4,1, 3,6)
  BY <1>1, <1>5, Turn6_2
<1>7. Works6(s, w, 1, 2,5, 6,3, 4,1)
  BY <1>1, <1>6, Rotate6_1, Turn6_3
<1>8. Line6(s, 2,5, 6,3, 4,1)
  BY DEF Orders6
<1> QED
  BY <1>1, <1>8, <1>2, <1>7, Exchange6, Begin6 DEF Right, w

\* Make3OptMove, case 6.
LEMMA Move6_6 ==
    ASSUME NEW s, Chosen(s, 6), Orders6(s, 6)
    PROVE  Right(s, Make3OptMove(6))
<1> DEFINE w == Make3OptMove(6)
<1>1. /\ w \in Seq(Nat) /\ Len(w) = 6 /\ Over(w, 7)
      /\ Swap(w, 1, 4, 3, 4, 5) /\ Swap(w, 4, 7, 1, 2, 3)
  BY DEF Swap, Over, Make3OptMove
<1> HIDE DEF w
<1>2. Links6(s, 2,6, 5,3, 4,1) = Out6(s)
  BY DEF Links6, Out6
<1>3. Links6(s, 6,2, 3,5, 4,1) = In6(s)
  BY DEF Links6, In6
<1>4. Works6(s, w, 7, 6,2, 3,5, 4,1)
  BY <1>1, <1>3, Exchange6, AtEnd6
<1>5. Works6(s, w, 4, 2,6, 3,5, 4,1)
  BY <1>1, <1>4, Turn6_2
<1>6. Works6(s, w, 1, 4,1, 2,6, 5,3)
  BY <1>1, <1>5, Reverse6_2, Turn6_3
<1>7. Line6(s, 2,6, 5,3, 4,1)
  BY DEF Orders6
<1> QED
  BY <1>1, <1>7, <1>2, <1>6, Rotate6_2, Exchange6, Begin6 DEF Right, w

\* Make4OptMove, by cases.  The steps go from the last swap to the first.
LEMMA Move8_1 ==
    ASSUME NEW s, Chosen(s, 8), Closed8(s, 1)
    PROVE  Right(s, Make4OptMove(s, 1))
<1> DEFINE w == Make4OptMove(s, 1)
<1>1. /\ w \in Seq(Nat) /\ Len(w) = 9 /\ Over(w, 10)
      /\ Swap(w, 1, 4, 1, 2, 3) /\ Swap(w, 4, 7, 6, 5, 4)
      /\ Swap(w, 7, 10, 7, 8, 1)
  BY DEF Swap, Over, Make4OptMove
<1> HIDE DEF w
<1>2. CASE Line8(s, 2,5, 6,4, 3,8, 7,1)
  <2>1. Links8(s, 2,5, 6,4, 3,8, 7,1) = Out8(s)
    BY DEF Links8, Out8
  <2>2. Links8(s, 6,4, 5,2, 3,8, 1,7) = In8(s)
    BY DEF Links8, In8
  <2>3. Works8(s, w, 10, 6,4, 5,2, 3,8, 1,7)
    BY <1>1, <2>2, Exchange8, AtEnd8
  <2>4. Works8(s, w, 7, 8,3, 2,5, 4,6, 1,7)
    BY <1>1, <2>3, Turn8_4
  <2>5. Works8(s, w, 4, 5,2, 3,8, 7,1, 4,6)
    BY <1>1, <2>4, Rotate8_1, Turn8_4
  <2>6. Works8(s, w, 1, 2,5, 6,4, 3,8, 7,1)
    BY <1>1, <2>5, Rotate8_1, Turn8_3
  <2> QED
    BY <1>1, <1>2, <2>1, <2>6, Exchange8, Begin8 DEF Right, w
<1>3. CASE Line8(s, 2,5, 6,8, 7,4, 3,1)
  <2>1. Links8(s, 2,5, 6,8, 7,4, 3,1) = Out8(s)
    BY DEF Links8, Out8
  <2>2. Links8(s, 6,8, 1,3, 2,5, 4,7) = In8(s)
    BY DEF Links8, In8
  <2>3. Works8(s, w, 10, 6,8, 1,3, 2,5, 4,7)
    BY <1>1, <2>2, Exchange8, AtEnd8
  <2>4. Works8(s, w, 7, 8,6, 1,3, 2,5, 4,7)
    BY <1>1, <2>3, Turn8_2
  <2>5. Works8(s, w, 4, 5,2, 3,1, 4,7, 8,6)
    BY <1>1, <2>4, Rotate8_3, Turn8_3
  <2>6. Works8(s, w, 1, 2,5, 6,8, 7,4, 3,1)
    BY <1>1, <2>5, Rotate8_2, Turn8_4
  <2> QED
    BY <1>1, <1>3, <2>1, <2>6, Exchange8, Begin8 DEF Right, w
<1>4. CASE Line8(s, 2,7, 8,5, 6,4, 3,1)
  <2>1. Links8(s, 2,7, 8,5, 6,4, 3,1) = Out8(s)
    BY DEF Links8, Out8
  <2>2. Links8(s, 6,4, 5,8, 1,3, 2,7) = In8(s)
    BY DEF Links8, In8
  <2>3. Works8(s, w, 10, 6,4, 5,8, 1,3, 2,7)
    BY <1>1, <2>2, Exchange8, AtEnd8
  <2>4. Works8(s, w, 7, 8,5, 4,6, 1,3, 2,7)
    BY <1>1, <2>3, Turn8_3
  <2>5. Works8(s, w, 4, 5,8, 7,2, 3,1, 4,6)
    BY <1>1, <2>4, Rotate8_2, Turn8_4
  <2>6. Works8(s, w, 1, 2,7, 8,5, 6,4, 3,1)
    BY <1>1, <2>5, Rotate8_1, Turn8_4
  <2> QED
    BY <1>1, <1>4, <2>1, <2>6, Exchange8, Begin8 DEF Right, w
<1> QED
  BY <1>2, <1>3, <1>4 DEF Closed8

\* Make4OptMove, case 2.
LEMMA Move8_2 ==
    ASSUME NEW s, Chosen(s, 8), Closed8(s, 2)
    PROVE  Right(s, Make4OptMove(s, 2))
<1> DEFINE w == Make4OptMove(s, 2)
<1>1. /\ w \in Seq(Nat) /\ Len(w) = 9 /\ Over(w, 10)
      /\ Swap(w, 1, 4, 1, 2, 3) /\ Swap(w, 4, 7, 6, 5, 4)
      /\ Swap(w, 7, 10, 7, 8, 1)
  BY DEF Swap, Over, Make4OptMove
<1> HIDE DEF w
<1>2. CASE Line8(s, 2,4, 3,6, 5,8, 7,1)
  <2>1. Links8(s, 2,4, 3,6, 5,8, 7,1) = Out8(s)
    BY DEF Links8, Out8
  <2>2. Links8(s, 6,3, 2,4, 5,8, 1,7) = In8(s)
    BY DEF Links8, In8
  <2>3. Works8(s, w, 10, 6,3, 2,4, 5,8, 1,7)
    BY <1>1, <2>2, Exchange8, AtEnd8
  <2>4. Works8(s, w, 7, 8,5, 4,2, 3,6, 1,7)
    BY <1>1, <2>3, Turn8_4
  <2>5. Works8(s, w, 4, 5,8, 7,1, 4,2, 3,6)
    BY <1>1, <2>4, Rotate8_1, Turn8_3
  <2>6. Works8(s, w, 1, 2,4, 3,6, 5,8, 7,1)
    BY <1>1, <2>5, Rotate8_2, Turn8_2
  <2> QED
    BY <1>1, <1>2, <2>1, <2>6, Exchange8, Begin8 DEF Right, w
<1>3. CASE Line8(s, 2,4, 3,7, 8,6, 5,1)
  <2>1. Links8(s, 2,4, 3,7, 8,6, 5,1) = Out8(s)
    BY DEF Links8, Out8
  <2>2. Links8(s, 6,8, 1,5, 4,2, 3,7) = In8(s)
    BY DEF Links8, In8
  <2>3. Works8(s, w, 10, 6,8, 1,5, 4,2, 3,7)
    BY <1>1, <2>2, Exchange8, AtEnd8
  <2>4. Works8(s, w, 7, 8,6, 1,5, 4,2, 3,7)
    BY <1>1, <2>3, Turn8_2
  <2>5. Works8(s, w, 4, 5,1, 4,2, 3,7, 8,6)
    BY <1>1, <2>4, Rotate8_3, Turn8_2
  <2>6. Works8(s, w, 1, 2,4, 3,7, 8,6, 5,1)
    BY <1>1, <2>5, Rotate8_3, Turn8_2
  <2> QED
    BY <1>1, <1>3, <2>1, <2>6, Exchange8, Begin8 DEF Right, w
<1>4. CASE Line8(s, 2,8, 7,4, 3,6, 5,1)
  <2>1. Links8(s, 2,8, 7,4, 3,6, 5,1) = Out8(s)
    BY DEF Links8, Out8
  <2>2. Links8(s, 6,3, 2,8, 1,5, 4,7) = In8(s)
    BY DEF Links8, In8
  <2>3. Works8(s, w, 10, 6,3, 2,8, 1,5, 4,7)
    BY <1>1, <2>2, Exchange8, AtEnd8
  <2>4. Works8(s, w, 7, 8,2, 3,6, 1,5, 4,7)
    BY <1>1, <2>3, Turn8_3
  <2>5. Works8(s, w, 4, 5,1, 4,7, 8,2, 3,6)
    BY <1>1, <2>4, Rotate8_2, Turn8_2
  <2>6. Works8(s, w, 1, 2,8, 7,4, 3,6, 5,1)
    BY <1>1, <2>5, Rotate8_3, Turn8_3
  <2> QED
    BY <1>1, <1>4, <2>1, <2>6, Exchange8, Begin8 DEF Right, w
<1> QED
  BY <1>2, <1>3, <1>4 DEF Closed8

\* Make4OptMove, case 3.
LEMMA Move8_3 ==
    ASSUME NEW s, Chosen(s, 8), Closed8(s, 3)
    PROVE  Right(s, Make4OptMove(s, 3))
<1> DEFINE w == Make4OptMove(s, 3)
<1>1. /\ w \in Seq(Nat) /\ Len(w) = 9 /\ Over(w, 10)
      /\ Swap(w, 1, 4, 1, 2, 3) /\ Swap(w, 4, 7, 8, 7, 6)
      /\ Swap(w, 7, 10, 5, 8, 1)
  BY DEF Swap, Over, Make4OptMove
<1> HIDE DEF w
<1>2. Links8(s, 2,6, 5,7, 8,4, 3,1) = Out8(s)
  BY DEF Links8, Out8
<1>3. Links8(s, 4,8, 1,3, 2,6, 7,5) = In8(s)
  BY DEF Links8, In8
<1>4. Works8(s, w, 10, 4,8, 1,3, 2,6, 7,5)
  BY <1>1, <1>3, Exchange8, AtEnd8
<1>5. Works8(s, w, 7, 8,4, 1,3, 2,6, 7,5)
  BY <1>1, <1>4, Turn8_2
<1>6. Works8(s, w, 4, 7,5, 6,2, 3,1, 4,8)
  BY <1>1, <1>5, Reverse8_0, Turn8_2
<1>7. Works8(s, w, 1, 2,6, 5,7, 8,4, 3,1)
  BY <1>1, <1>6, Rotate8_1, Turn8_4
<1>8. Line8(s, 2,6, 5,7, 8,4, 3,1)
  BY DEF Closed8
<1> QED
  BY <1>1, <1>8, <1>2, <1>7, Exchange8, Begin8 DEF Right, w

\* Make4OptMove, case 4.
LEMMA Move8_4 ==
    ASSUME NEW s, Chosen(s, 8), Closed8(s, 4)
    PROVE  Right(s, Make4OptMove(s, 4))
<1> DEFINE w == Make4OptMove(s, 4)
<1>1. /\ w \in Seq(Nat) /\ Len(w) = 9 /\ Over(w, 10)
      /\ Swap(w, 1, 4, 1, 2, 3) /\ Swap(w, 4, 7, 8, 7, 6)
      /\ Swap(w, 7, 10, 5, 8, 1)
  BY DEF Swap, Over, Make4OptMove
<1> HIDE DEF w
<1>2. CASE Line8(s, 2,4, 3,8, 7,5, 6,1)
  <2>1. Links8(s, 2,4, 3,8, 7,5, 6,1) = Out8(s)
    BY DEF Links8, Out8
  <2>2. Links8(s, 4,2, 3,8, 1,6, 7,5) = In8(s)
    BY DEF Links8, In8
  <2>3. Works8(s, w, 10, 4,2, 3,8, 1,6, 7,5)
    BY <1>1, <2>2, Exchange8, AtEnd8
  <2>4. Works8(s, w, 7, 8,3, 2,4, 1,6, 7,5)
    BY <1>1, <2>3, Turn8_3
  <2>5. Works8(s, w, 4, 7,5, 6,1, 4,2, 3,8)
    BY <1>1, <2>4, Reverse8_0, Turn8_2
  <2>6. Works8(s, w, 1, 2,4, 3,8, 7,5, 6,1)
    BY <1>1, <2>5, Rotate8_2, Turn8_2
  <2> QED
    BY <1>1, <1>2, <2>1, <2>6, Exchange8, Begin8 DEF Right, w
<1>3. CASE Line8(s, 2,7, 8,4, 3,5, 6,1)
  <2>1. Links8(s, 2,7, 8,4, 3,5, 6,1) = Out8(s)
    BY DEF Links8, Out8
  <2>2. Links8(s, 4,8, 1,6, 7,2, 3,5) = In8(s)
    BY DEF Links8, In8
  <2>3. Works8(s, w, 10, 4,8, 1,6, 7,2, 3,5)
    BY <1>1, <2>2, Exchange8, AtEnd8
  <2>4. Works8(s, w, 7, 8,4, 1,6, 7,2, 3,5)
    BY <1>1, <2>3, Turn8_2
  <2>5. Works8(s, w, 4, 7,2, 3,5, 6,1, 4,8)
    BY <1>1, <2>4, Reverse8_0, Turn8_3
  <2>6. Works8(s, w, 1, 2,7, 8,4, 3,5, 6,1)
    BY <1>1, <2>5, Rotate8_1, Turn8_3
  <2> QED
    BY <1>1, <1>3, <2>1, <2>6, Exchange8, Begin8 DEF Right, w
<1> QED
  BY <1>2, <1>3 DEF Closed8

\* Make4OptMove, case 5.
LEMMA Move8_5 ==
    ASSUME NEW s, Chosen(s, 8), Closed8(s, 5)
    PROVE  Right(s, Make4OptMove(s, 5))
<1> DEFINE w == Make4OptMove(s, 5)
<1>1. CASE Line8(s, 2,5, 6,3, 4,8, 7,1)
  <2>1. ~BETWEEN(s[2], s[7], s[3])
    BY <1>1, NodesAre DEF Line8, BETWEEN, Chosen, Node
  <2>2. w = <<5, 6, 7, 2, 1, 4, 1, 4, 5>>
    BY <2>1 DEF Make4OptMove
  <2> HIDE DEF w
  <2>3. /\ w \in Seq(Nat) /\ Len(w) = 9 /\ Over(w, 10)
        /\ Swap(w, 1, 4, 5, 6, 7) /\ Swap(w, 4, 7, 2, 1, 4)
        /\ Swap(w, 7, 10, 1, 4, 5)
    BY <2>2 DEF Swap, Over
  <2>4. Links8(s, 2,5, 6,3, 4,8, 7,1) = Out8(s)
    BY DEF Links8, Out8
  <2>5. Links8(s, 8,4, 5,2, 3,6, 7,1) = In8(s)
    BY DEF Links8, In8
  <2>6. Works8(s, w, 10, 8,4, 5,2, 3,6, 7,1)
    BY <2>3, <2>5, Exchange8, AtEnd8
  <2>7. Works8(s, w, 7, 4,8, 5,2, 3,6, 7,1)
    BY <2>3, <2>6, Turn8_2
  <2>8. Works8(s, w, 4, 1,7, 6,3, 4,8, 5,2)
    BY <2>3, <2>7, Rotate8_2, Turn8_3
  <2>9. Works8(s, w, 1, 6,3, 4,8, 7,1, 2,5)
    BY <2>3, <2>8, Reverse8_1, Turn8_3
  <2> QED
    BY <2>3, <1>1, <2>4, <2>9, Rotate8_1, Exchange8, Begin8 DEF Right, w
<1>2. CASE Line8(s, 2,5, 6,8, 7,3, 4,1)
  <2>1. BETWEEN(s[2], s[7], s[3]) /\ ~BETWEEN(s[2], s[7], s[6])
    BY <1>2, NodesAre DEF Line8, BETWEEN, Chosen, Node
  <2>2. w = <<1, 2, 7, 7, 2, 3, 4, 7, 6>>
    BY <2>1 DEF Make4OptMove
  <2> HIDE DEF w
  <2>3. /\ w \in Seq(Nat) /\ Len(w) = 9 /\ Over(w, 10)
        /\ Swap(w, 1, 4, 1, 2, 7) /\ Swap(w, 4, 7, 7, 2, 3)
        /\ Swap(w, 7, 10, 4, 7, 6)
    BY <2>2 DEF Swap, Over
  <2>4. Links8(s, 2,5, 6,8, 7,3, 4,1) = Out8(s)
    BY DEF Links8, Out8
  <2>5. Links8(s, 5,2, 3,7, 6,8, 1,4) = In8(s)
    BY DEF Links8, In8
  <2>6. Works8(s, w, 10, 5,2, 3,7, 6,8, 1,4)
    BY <2>3, <2>5, Exchange8, AtEnd8
  <2>7. Works8(s, w, 7, 7,3, 2,5, 6,8, 1,4)
    BY <2>3, <2>6, Turn8_3
  <2>8. Works8(s, w, 4, 2,5, 6,8, 1,4, 3,7)
    BY <2>3, <2>7, Reverse8_0, Turn8_4
  <2>9. Works8(s, w, 1, 2,5, 6,8, 7,3, 4,1)
    BY <2>3, <2>8, Reverse8_2, Turn8_3
  <2> QED
    BY <2>3, <1>2, <2>4, <2>9, Exchange8, Begin8 DEF Right, w
<1>3. CASE Line8(s, 2,8, 7,5, 6,3, 4,1)
  <2>1. BETWEEN(s[2], s[7], s[3]) /\ BETWEEN(s[2], s[7], s[6])
    BY <1>3, NodesAre DEF Line8, BETWEEN, Chosen, Node
  <2>2. w = <<5, 6, 7, 5, 8, 3, 3, 8, 1>>
    BY <2>1 DEF Make4OptMove
  <2> HIDE DEF w
  <2>3. /\ w \in Seq(Nat) /\ Len(w) = 9 /\ Over(w, 10)
        /\ Swap(w, 1, 4, 5, 6, 7) /\ Swap(w, 4, 7, 5, 8, 3)
        /\ Swap(w, 7, 10, 3, 8, 1)
    BY <2>2 DEF Swap, Over
  <2>4. Links8(s, 2,8, 7,5, 6,3, 4,1) = Out8(s)
    BY DEF Links8, Out8
  <2>5. Links8(s, 2,8, 1,4, 5,7, 6,3) = In8(s)
    BY DEF Links8, In8
  <2>6. Works8(s, w, 10, 2,8, 1,4, 5,7, 6,3)
    BY <2>3, <2>5, Exchange8, AtEnd8
  <2>7. Works8(s, w, 7, 8,2, 1,4, 5,7, 6,3)
    BY <2>3, <2>6, Turn8_2
  <2>8. Works8(s, w, 4, 8,2, 1,4, 3,6, 7,5)
    BY <2>3, <2>7, Reverse8_2, Turn8_3
  <2>9. Works8(s, w, 1, 6,3, 4,1, 2,8, 7,5)
    BY <2>3, <2>8, Turn8_4
  <2> QED
    BY <2>3, <1>3, <2>4, <2>9, Rotate8_2, Exchange8, Begin8 DEF Right, w
<1> QED
  BY <1>1, <1>2, <1>3 DEF Closed8

\* Make4OptMove, case 6.
LEMMA Move8_6 ==
    ASSUME NEW s, Chosen(s, 8), Closed8(s, 6)
    PROVE  Right(s, Make4OptMove(s, 6))
<1> DEFINE w == Make4OptMove(s, 6)
<1>1. /\ w \in Seq(Nat) /\ Len(w) = 9 /\ Over(w, 10)
      /\ Swap(w, 1, 4, 3, 4, 5) /\ Swap(w, 4, 7, 6, 3, 2)
      /\ Swap(w, 7, 10, 1, 6, 7)
  BY DEF Swap, Over, Make4OptMove
<1> HIDE DEF w
<1>2. CASE Line8(s, 2,6, 5,3, 4,8, 7,1)
  <2>1. Links8(s, 2,6, 5,3, 4,8, 7,1) = Out8(s)
    BY DEF Links8, Out8
  <2>2. Links8(s, 8,4, 5,3, 2,6, 7,1) = In8(s)
    BY DEF Links8, In8
  <2>3. Works8(s, w, 10, 8,4, 5,3, 2,6, 7,1)
    BY <1>1, <2>2, Exchange8, AtEnd8
  <2>4. Works8(s, w, 7, 6,2, 3,5, 4,8, 7,1)
    BY <1>1, <2>3, Turn8_4
  <2>5. Works8(s, w, 4, 3,5, 4,8, 7,1, 2,6)
    BY <1>1, <2>4, Reverse8_0, Turn8_4
  <2>6. Works8(s, w, 1, 4,8, 7,1, 2,6, 5,3)
    BY <1>1, <2>5, Reverse8_0, Turn8_4
  <2> QED
    BY <1>1, <1>2, <2>1, <2>6, Rotate8_2, Exchange8, Begin8 DEF Right, w
<1>3. CASE Line8(s, 2,6, 5,7, 8,3, 4,1)
  <2>1. Links8(s, 2,6, 5,7, 8,3, 4,1) = Out8(s)
    BY DEF Links8, Out8
  <2>2. Links8(s, 8,3, 2,6, 7,5, 4,1) = In8(s)
    BY DEF Links8, In8
  <2>3. Works8(s, w, 10, 8,3, 2,6, 7,5, 4,1)
    BY <1>1, <2>2, Exchange8, AtEnd8
  <2>4. Works8(s, w, 7, 6,2, 3,8, 7,5, 4,1)
    BY <1>1, <2>3, Turn8_3
  <2>5. Works8(s, w, 4, 3,8, 7,5, 4,1, 2,6)
    BY <1>1, <2>4, Reverse8_0, Turn8_4
  <2>6. Works8(s, w, 1, 4,1, 2,6, 5,7, 8,3)
    BY <1>1, <2>5, Reverse8_0, Turn8_3
  <2> QED
    BY <1>1, <1>3, <2>1, <2>6, Rotate8_3, Exchange8, Begin8 DEF Right, w
<1>4. CASE Line8(s, 2,7, 8,6, 5,3, 4,1)
  <2>1. Links8(s, 2,7, 8,6, 5,3, 4,1) = Out8(s)
    BY DEF Links8, Out8
  <2>2. Links8(s, 8,6, 7,2, 3,5, 4,1) = In8(s)
    BY DEF Links8, In8
  <2>3. Works8(s, w, 10, 8,6, 7,2, 3,5, 4,1)
    BY <1>1, <2>2, Exchange8, AtEnd8
  <2>4. Works8(s, w, 7, 6,8, 7,2, 3,5, 4,1)
    BY <1>1, <2>3, Turn8_2
  <2>5. Works8(s, w, 4, 3,5, 4,1, 2,7, 8,6)
    BY <1>1, <2>4, Reverse8_0, Turn8_3
  <2>6. Works8(s, w, 1, 4,1, 2,7, 8,6, 5,3)
    BY <1>1, <2>5, Reverse8_0, Turn8_4
  <2> QED
    BY <1>1, <1>4, <2>1, <2>6, Rotate8_3, Exchange8, Begin8 DEF Right, w
<1> QED
  BY <1>2, <1>3, <1>4 DEF Closed8

\* Make4OptMove, case 7.
LEMMA Move8_7 ==
    ASSUME NEW s, Chosen(s, 8), Closed8(s, 7)
    PROVE  Right(s, Make4OptMove(s, 7))
<1> DEFINE w == Make4OptMove(s, 7)
<1>1. /\ w \in Seq(Nat) /\ Len(w) = 9 /\ Over(w, 10)
      /\ Swap(w, 1, 4, 6, 5, 8) /\ Swap(w, 4, 7, 2, 1, 4)
      /\ Swap(w, 7, 10, 8, 5, 4)
  BY DEF Swap, Over, Make4OptMove
<1> HIDE DEF w
<1>2. Links8(s, 2,7, 8,3, 4,6, 5,1) = Out8(s)
  BY DEF Links8, Out8
<1>3. Links8(s, 1,5, 4,6, 7,2, 3,8) = In8(s)
  BY DEF Links8, In8
<1>4. Works8(s, w, 10, 1,5, 4,6, 7,2, 3,8)
  BY <1>1, <1>3, Exchange8, AtEnd8
<1>5. Works8(s, w, 7, 5,1, 4,6, 7,2, 3,8)
  BY <1>1, <1>4, Turn8_2
<1>6. Works8(s, w, 4, 1,5, 8,3, 4,6, 7,2)
  BY <1>1, <1>5, Rotate8_1, Turn8_3
<1>7. Works8(s, w, 1, 5,1, 2,7, 8,3, 4,6)
  BY <1>1, <1>6, Rotate8_1, Turn8_3
<1>8. Line8(s, 2,7, 8,3, 4,6, 5,1)
  BY DEF Closed8
<1> QED
  BY <1>1, <1>8, <1>2, <1>7, Rotate8_3, Exchange8, Begin8 DEF Right, w

\* Make4OptMove, case 11.
LEMMA Move8_11 ==
    ASSUME NEW s, Chosen(s, 8), Closed8(s, 11)
    PROVE  Right(s, Make4OptMove(s, 11))
<1> DEFINE w == Make4OptMove(s, 11)
<1>1. /\ w \in Seq(Nat) /\ Len(w) = 9 /\ Over(w, 10)
      /\ Swap(w, 1, 4, 1, 2, 7) /\ Swap(w, 4, 7, 3, 4, 5)
      /\ Swap(w, 7, 10, 3, 6, 7)
  BY DEF Swap, Over, Make4OptMove
<1> HIDE DEF w
<1>2. Links8(s, 2,6, 5,8, 7,4, 3,1) = Out8(s)
  BY DEF Links8, Out8
<1>3. Links8(s, 2,6, 7,4, 5,8, 1,3) = In8(s)
  BY DEF Links8, In8
<1>4. Works8(s, w, 10, 2,6, 7,4, 5,8, 1,3)
  BY <1>1, <1>3, Exchange8, AtEnd8
<1>5. Works8(s, w, 7, 6,2, 7,4, 5,8, 1,3)
  BY <1>1, <1>4, Turn8_2
<1>6. Works8(s, w, 4, 4,7, 2,6, 5,8, 1,3)
  BY <1>1, <1>5, Turn8_3
<1>7. Works8(s, w, 1, 2,6, 5,8, 7,4, 3,1)
  BY <1>1, <1>6, Reverse8_1, Turn8_3
<1>8. Line8(s, 2,6, 5,8, 7,4, 3,1)
  BY DEF Closed8
<1> QED
  BY <1>1, <1>8, <1>2, <1>7, Exchange8, Begin8 DEF Right, w

\* Make4OptMove, case 12.
LEMMA Move8_12 ==
    ASSUME NEW s, Chosen(s, 8), Closed8(s, 12)
    PROVE  Right(s, Make4OptMove(s, 12))
<1> DEFINE w == Make4OptMove(s, 12)
<1>1. /\ w \in Seq(Nat) /\ Len(w) = 9 /\ Over(w, 10)
      /\ Swap(w, 1, 4, 3, 4, 5) /\ Swap(w, 4, 7, 7, 8, 1)
      /\ Swap(w, 7, 10, 3, 6, 7)
  BY DEF Swap, Over, Make4OptMove
<1> HIDE DEF w
<1>2. CASE Line8(s, 2,4, 3,7, 8,5, 6,1)
  <2>1. Links8(s, 2,4, 3,7, 8,5, 6,1) = Out8(s)
    BY DEF Links8, Out8
  <2>2. Links8(s, 2,4, 5,8, 1,6, 7,3) = In8(s)
    BY DEF Links8, In8
  <2>3. Works8(s, w, 10, 2,4, 5,8, 1,6, 7,3)
    BY <1>1, <2>2, Exchange8, AtEnd8
  <2>4. Works8(s, w, 7, 6,1, 8,5, 4,2, 7,3)
    BY <1>1, <2>3, Turn8_4
  <2>5. Works8(s, w, 4, 8,5, 4,2, 1,6, 3,7)
    BY <1>1, <2>4, Reverse8_1, Turn8_3
  <2>6. Works8(s, w, 1, 4,2, 1,6, 5,8, 7,3)
    BY <1>1, <2>5, Reverse8_1, Turn8_3
  <2> QED
    BY <1>1, <1>2, <2>1, <2>6, Reverse8_3, Exchange8, Begin8 DEF Right, w
<1>3. CASE Line8(s, 2,8, 7,4, 3,5, 6,1)
  <2>1. Links8(s, 2,8, 7,4, 3,5, 6,1) = Out8(s)
    BY DEF Links8, Out8
  <2>2. Links8(s, 2,8, 1,6, 7,4, 5,3) = In8(s)
    BY DEF Links8, In8
  <2>3. Works8(s, w, 10, 2,8, 1,6, 7,4, 5,3)
    BY <1>1, <2>2, Exchange8, AtEnd8
  <2>4. Works8(s, w, 7, 6,1, 8,2, 7,4, 5,3)
    BY <1>1, <2>3, Turn8_3
  <2>5. Works8(s, w, 4, 8,2, 1,6, 3,5, 4,7)
    BY <1>1, <2>4, Reverse8_2, Turn8_2
  <2>6. Works8(s, w, 1, 4,7, 8,2, 1,6, 5,3)
    BY <1>1, <2>5, Reverse8_2, Turn8_4
  <2> QED
    BY <1>1, <1>3, <2>1, <2>6, Reverse8_2, Exchange8, Begin8 DEF Right, w
<1> QED
  BY <1>2, <1>3 DEF Closed8

\* Make4OptMove, case 15.
LEMMA Move8_15 ==
    ASSUME NEW s, Chosen(s, 8), Closed8(s, 15)
    PROVE  Right(s, Make4OptMove(s, 15))
<1> DEFINE w == Make4OptMove(s, 15)
<1>1. /\ w \in Seq(Nat) /\ Len(w) = 9 /\ Over(w, 10)
      /\ Swap(w, 1, 4, 3, 4, 5) /\ Swap(w, 4, 7, 3, 6, 7)
      /\ Swap(w, 7, 10, 8, 3, 2)
  BY DEF Swap, Over, Make4OptMove
<1> HIDE DEF w
<1>2. Links8(s, 2,8, 7,3, 4,6, 5,1) = Out8(s)
  BY DEF Links8, Out8
<1>3. Links8(s, 1,5, 4,6, 7,3, 2,8) = In8(s)
  BY DEF Links8, In8
<1>4. Works8(s, w, 10, 1,5, 4,6, 7,3, 2,8)
  BY <1>1, <1>3, Exchange8, AtEnd8
<1>5. Works8(s, w, 7, 3,7, 6,4, 5,1, 2,8)
  BY <1>1, <1>4, Turn8_4
<1>6. Works8(s, w, 4, 6,4, 5,1, 2,8, 7,3)
  BY <1>1, <1>5, Reverse8_0, Turn8_4
<1>7. Works8(s, w, 1, 4,6, 5,1, 2,8, 7,3)
  BY <1>1, <1>6, Turn8_2
<1>8. Line8(s, 2,8, 7,3, 4,6, 5,1)
  BY DEF Closed8
<1> QED
  BY <1>1, <1>8, <1>2, <1>7, Rotate8_2, Exchange8, Begin8 DEF Right, w

\* Make5OptMove, by cases.
LEMMA Move10_1 ==
    ASSUME NEW s, Chosen(s, 10), Orders10(s, 1)
    PROVE  Right(s, Make5OptMove(s, 1))
<1> DEFINE w == Make5OptMove(s, 1)
<1>1. /\ w \in Seq(Nat) /\ Len(w) = 12 /\ Over(w, 13)
      /\ Swap(w, 1, 4, 1, 2, 3) /\ Swap(w, 4, 7, 8, 7, 6)
      /\ Swap(w, 7, 10, 10, 9, 8) /\ Swap(w, 10, 13, 10, 5, 4)
  BY DEF Swap, Over, Make5OptMove
<1> HIDE DEF w
<1>2. Links10(s, 2,7, 8,6, 5,9, 10,4, 3,1) = Out10(s)
  BY DEF Links10, Out10
<1>3. Links10(s, 1,3, 2,7, 6,8, 9,5, 4,10) = In10(s)
  BY DEF Links10, In10
<1>4. Works10(s, w, 13, 1,3, 2,7, 6,8, 9,5, 4,10)
  BY <1>1, <1>3, Exchange10, AtEnd10
<1>5. Works10(s, w, 10, 5,9, 8,6, 7,2, 3,1, 4,10)
  BY <1>1, <1>4, Turn10_5
<1>6. Works10(s, w, 7, 9,5, 8,6, 7,2, 3,1, 4,10)
  BY <1>1, <1>5, Turn10_2
<1>7. Works10(s, w, 4, 7,2, 3,1, 4,10, 9,5, 6,8)
  BY <1>1, <1>6, Reverse10_4, Turn10_5
<1>8. Works10(s, w, 1, 2,7, 8,6, 5,9, 10,4, 3,1)
  BY <1>1, <1>7, Rotate10_3, Turn10_5
<1>9. Line10(s, 2,7, 8,6, 5,9, 10,4, 3,1)
  BY DEF Orders10, Orders10_1
<1> QED
  BY <1>1, <1>9, <1>2, <1>8, Exchange10, Begin10 DEF Right, w

\* Make5OptMove, case 2.
LEMMA Move10_2 ==
    ASSUME NEW s, Chosen(s, 10), Orders10(s, 2)
    PROVE  Right(s, Make5OptMove(s, 2))
<1> DEFINE w == Make5OptMove(s, 2)
<1>1. CASE Line10(s, 2,4, 3,9, 10,5, 6,8, 7,1)
  <2>1. ~BETWEEN(s[2], s[9], s[4])
    BY <1>1, NodesAre DEF Line10, BETWEEN, Chosen, Node
  <2>2. w = <<1, 2, 3, 7, 8, 9, 6, 5, 4, 7, 10, 1>>
    BY <2>1 DEF Make5OptMove
  <2> HIDE DEF w
  <2>3. /\ w \in Seq(Nat) /\ Len(w) = 12 /\ Over(w, 13)
        /\ Swap(w, 1, 4, 1, 2, 3) /\ Swap(w, 4, 7, 7, 8, 9)
        /\ Swap(w, 7, 10, 6, 5, 4) /\ Swap(w, 10, 13, 7, 10, 1)
    BY <2>2 DEF Swap, Over
  <2>4. Links10(s, 2,4, 3,9, 10,5, 6,8, 7,1) = Out10(s)
    BY DEF Links10, Out10
  <2>5. Links10(s, 6,8, 9,3, 2,4, 5,10, 1,7) = In10(s)
    BY DEF Links10, In10
  <2>6. Works10(s, w, 13, 6,8, 9,3, 2,4, 5,10, 1,7)
    BY <2>3, <2>5, Exchange10, AtEnd10
  <2>7. Works10(s, w, 10, 10,5, 4,2, 3,9, 8,6, 1,7)
    BY <2>3, <2>6, Turn10_5
  <2>8. Works10(s, w, 7, 5,10, 7,1, 4,2, 3,9, 8,6)
    BY <2>3, <2>7, Rotate10_1, Turn10_3
  <2>9. Works10(s, w, 4, 8,6, 5,10, 9,3, 2,4, 1,7)
    BY <2>3, <2>8, Reverse10_4, Turn10_3
  <2>10. Works10(s, w, 1, 2,4, 3,9, 10,5, 6,8, 7,1)
    BY <2>3, <2>9, Reverse10_1, Turn10_2
  <2> QED
    BY <2>3, <1>1, <2>4, <2>10, Exchange10, Begin10 DEF Right, w
<1>2. CASE Line10(s, 2,9, 10,4, 3,5, 6,8, 7,1)
  <2>1. BETWEEN(s[2], s[9], s[4])
    BY <1>2, NodesAre DEF Line10, BETWEEN, Chosen, Node
  <2>2. w = <<1, 2, 3, 5, 6, 7, 10, 9, 8, 5, 10, 1>>
    BY <2>1 DEF Make5OptMove
  <2> HIDE DEF w
  <2>3. /\ w \in Seq(Nat) /\ Len(w) = 12 /\ Over(w, 13)
        /\ Swap(w, 1, 4, 1, 2, 3) /\ Swap(w, 4, 7, 5, 6, 7)
        /\ Swap(w, 7, 10, 10, 9, 8) /\ Swap(w, 10, 13, 5, 10, 1)
    BY <2>2 DEF Swap, Over
  <2>4. Links10(s, 2,9, 10,4, 3,5, 6,8, 7,1) = Out10(s)
    BY DEF Links10, Out10
  <2>5. Links10(s, 4,10, 1,7, 6,8, 9,2, 3,5) = In10(s)
    BY DEF Links10, In10
  <2>6. Works10(s, w, 13, 4,10, 1,7, 6,8, 9,2, 3,5)
    BY <2>3, <2>5, Exchange10, AtEnd10
  <2>7. Works10(s, w, 10, 10,4, 1,7, 6,8, 9,2, 3,5)
    BY <2>3, <2>6, Turn10_2
  <2>8. Works10(s, w, 7, 9,2, 3,5, 8,6, 7,1, 4,10)
    BY <2>3, <2>7, Reverse10_0, Turn10_3
  <2>9. Works10(s, w, 4, 6,8, 7,1, 4,10, 9,2, 3,5)
    BY <2>3, <2>8, Rotate10_3, Turn10_2
  <2>10. Works10(s, w, 1, 2,9, 10,4, 3,5, 6,8, 7,1)
    BY <2>3, <2>9, Rotate10_3, Turn10_3
  <2> QED
    BY <2>3, <1>2, <2>4, <2>10, Exchange10, Begin10 DEF Right, w
<1> QED
  BY <1>1, <1>2 DEF Orders10, Orders10_2

\* Make5OptMove, case 3.
LEMMA Move10_3 ==
    ASSUME NEW s, Chosen(s, 10), Orders10(s, 3)
    PROVE  Right(s, Make5OptMove(s, 3))
<1> DEFINE w == Make5OptMove(s, 3)
<1>1. /\ w \in Seq(Nat) /\ Len(w) = 12 /\ Over(w, 13)
      /\ Swap(w, 1, 4, 3, 4, 5) /\ Swap(w, 4, 7, 7, 8, 9)
      /\ Swap(w, 7, 10, 1, 2, 3) /\ Swap(w, 10, 13, 7, 10, 1)
  BY DEF Swap, Over, Make5OptMove
<1> HIDE DEF w
<1>2. Links10(s, 2,9, 10,3, 4,7, 8,6, 5,1) = Out10(s)
  BY DEF Links10, Out10
<1>3. Links10(s, 6,8, 9,2, 3,10, 1,5, 4,7) = In10(s)
  BY DEF Links10, In10
<1>4. Works10(s, w, 13, 6,8, 9,2, 3,10, 1,5, 4,7)
  BY <1>1, <1>3, Exchange10, AtEnd10
<1>5. Works10(s, w, 10, 10,3, 2,9, 8,6, 1,5, 4,7)
  BY <1>1, <1>4, Turn10_4
<1>6. Works10(s, w, 7, 2,9, 8,6, 3,10, 7,4, 5,1)
  BY <1>1, <1>5, Reverse10_2, Turn10_3
<1>7. Works10(s, w, 4, 8,6, 3,10, 9,2, 1,5, 4,7)
  BY <1>1, <1>6, Reverse10_2, Turn10_3
<1>8. Works10(s, w, 1, 4,7, 8,6, 5,1, 2,9, 10,3)
  BY <1>1, <1>7, Reverse10_4, Turn10_3
<1>9. Line10(s, 2,9, 10,3, 4,7, 8,6, 5,1)
  BY DEF Orders10, Orders10_3
<1> QED
  BY <1>1, <1>9, <1>2, <1>8, Rotate10_2, Exchange10, Begin10 DEF Right, w

\* Make5OptMove, case 4.
LEMMA Move10_4 ==
    ASSUME NEW s, Chosen(s, 10), Orders10(s, 4)
    PROVE  Right(s, Make5OptMove(s, 4))
<1> DEFINE w == Make5OptMove(s, 4)
<1>1. /\ w \in Seq(Nat) /\ Len(w) = 15 /\ Over(w, 16)
      /\ Swap(w, 1, 4, 5, 6, 8) /\ Swap(w, 4, 7, 1, 2, 3)
      /\ Swap(w, 7, 10, 10, 9, 8) /\ Swap(w, 10, 13, 1, 4, 5)
      /\ Swap(w, 13, 16, 6, 10, 1)
  BY DEF Swap, Over, Make5OptMove
<1> HIDE DEF w
<1>2. Links10(s, 2,7, 8,3, 4,9, 10,5, 6,1) = Out10(s)
  BY DEF Links10, Out10
<1>3. Links10(s, 7,2, 3,8, 9,4, 5,10, 1,6) = In10(s)
  BY DEF Links10, In10
<1>4. Works10(s, w, 16, 7,2, 3,8, 9,4, 5,10, 1,6)
  BY <1>1, <1>3, Exchange10, AtEnd10
<1>5. Works10(s, w, 13, 10,5, 4,9, 8,3, 2,7, 1,6)
  BY <1>1, <1>4, Turn10_5
<1>6. Works10(s, w, 10, 4,9, 8,3, 2,7, 5,10, 6,1)
  BY <1>1, <1>5, Reverse10_1, Turn10_4
<1>7. Works10(s, w, 7, 9,4, 1,6, 8,3, 2,7, 5,10)
  BY <1>1, <1>6, Rotate10_1, Turn10_3
<1>8. Works10(s, w, 4, 2,7, 5,10, 9,4, 3,8, 6,1)
  BY <1>1, <1>7, Reverse10_4, Turn10_4
<1>9. Works10(s, w, 1, 6,1, 2,7, 8,3, 4,9, 10,5)
  BY <1>1, <1>8, Reverse10_4, Turn10_3
<1>10. Line10(s, 2,7, 8,3, 4,9, 10,5, 6,1)
  BY DEF Orders10, Orders10_4
<1> QED
  BY <1>1, <1>10, <1>2, <1>9, Rotate10_4, Exchange10, Begin10 DEF Right, w

\* Make5OptMove, case 5.
LEMMA Move10_5 ==
    ASSUME NEW s, Chosen(s, 10), Orders10(s, 5)
    PROVE  Right(s, Make5OptMove(s, 5))
<1> DEFINE w == Make5OptMove(s, 5)
<1>1. /\ w \in Seq(Nat) /\ Len(w) = 15 /\ Over(w, 16)
      /\ Swap(w, 1, 4, 5, 6, 10) /\ Swap(w, 4, 7, 1, 2, 3)
      /\ Swap(w, 7, 10, 6, 10, 1) /\ Swap(w, 10, 13, 8, 7, 6)
      /\ Swap(w, 13, 16, 8, 4, 5)
  BY DEF Swap, Over, Make5OptMove
<1> HIDE DEF w
<1>2. Links10(s, 2,9, 10,3, 4,7, 8,5, 6,1) = Out10(s)
  BY DEF Links10, Out10
<1>3. Links10(s, 9,2, 3,10, 1,6, 7,4, 5,8) = In10(s)
  BY DEF Links10, In10
<1>4. Works10(s, w, 16, 9,2, 3,10, 1,6, 7,4, 5,8)
  BY <1>1, <1>3, Exchange10, AtEnd10
<1>5. Works10(s, w, 13, 4,7, 6,1, 10,3, 2,9, 5,8)
  BY <1>1, <1>4, Turn10_5
<1>6. Works10(s, w, 10, 7,4, 6,1, 10,3, 2,9, 5,8)
  BY <1>1, <1>5, Turn10_2
<1>7. Works10(s, w, 7, 10,3, 2,9, 5,8, 7,4, 1,6)
  BY <1>1, <1>6, Reverse10_4, Turn10_5
<1>8. Works10(s, w, 4, 2,9, 5,8, 7,4, 3,10, 6,1)
  BY <1>1, <1>7, Reverse10_1, Turn10_4
<1>9. Works10(s, w, 1, 6,1, 2,9, 10,3, 4,7, 8,5)
  BY <1>1, <1>8, Reverse10_4, Turn10_3
<1>10. Line10(s, 2,9, 10,3, 4,7, 8,5, 6,1)
  BY DEF Orders10, Orders10_5
<1> QED
  BY <1>1, <1>10, <1>2, <1>9, Rotate10_4, Exchange10, Begin10 DEF Right, w

\* Make5OptMove, case 6.
LEMMA Move10_6 ==
    ASSUME NEW s, Chosen(s, 10), Orders10(s, 6)
    PROVE  Right(s, Make5OptMove(s, 6))
<1> DEFINE w == Make5OptMove(s, 6)
<1>1. /\ w \in Seq(Nat) /\ Len(w) = 12 /\ Over(w, 13)
      /\ Swap(w, 1, 4, 1, 2, 3) /\ Swap(w, 4, 7, 9, 10, 1)
      /\ Swap(w, 7, 10, 7, 8, 9) /\ Swap(w, 10, 13, 6, 5, 4)
  BY DEF Swap, Over, Make5OptMove
<1> HIDE DEF w
<1>2. CASE Line10(s, 2,8, 7,5, 6,9, 10,4, 3,1)
  <2>1. Links10(s, 2,8, 7,5, 6,9, 10,4, 3,1) = Out10(s)
    BY DEF Links10, Out10
  <2>2. Links10(s, 7,5, 4,10, 1,3, 2,8, 9,6) = In10(s)
    BY DEF Links10, In10
  <2>3. Works10(s, w, 13, 7,5, 4,10, 1,3, 2,8, 9,6)
    BY <1>1, <2>2, Exchange10, AtEnd10
  <2>4. Works10(s, w, 10, 5,7, 4,10, 1,3, 2,8, 9,6)
    BY <1>1, <2>3, Turn10_2
  <2>5. Works10(s, w, 7, 8,2, 3,1, 10,4, 9,6, 5,7)
    BY <1>1, <2>4, Rotate10_4, Turn10_4
  <2>6. Works10(s, w, 4, 10,4, 1,3, 2,8, 7,5, 6,9)
    BY <1>1, <2>5, Reverse10_2, Turn10_2
  <2>7. Works10(s, w, 1, 2,8, 7,5, 6,9, 10,4, 3,1)
    BY <1>1, <2>6, Reverse10_4, Turn10_5
  <2> QED
    BY <1>1, <1>2, <2>1, <2>7, Exchange10, Begin10 DEF Right, w
<1>3. CASE Line10(s, 2,8, 7,9, 10,5, 6,4, 3,1)
  <2>1. Links10(s, 2,8, 7,9, 10,5, 6,4, 3,1) = Out10(s)
    BY DEF Links10, Out10
  <2>2. Links10(s, 7,9, 8,2, 3,1, 10,5, 4,6) = In10(s)
    BY DEF Links10, In10
  <2>3. Works10(s, w, 13, 7,9, 8,2, 3,1, 10,5, 4,6)
    BY <1>1, <2>2, Exchange10, AtEnd10
  <2>4. Works10(s, w, 10, 5,10, 1,3, 2,8, 9,7, 4,6)
    BY <1>1, <2>3, Turn10_5
  <2>5. Works10(s, w, 7, 8,2, 3,1, 10,5, 6,4, 9,7)
    BY <1>1, <2>4, Rotate10_1, Turn10_5
  <2>6. Works10(s, w, 4, 10,5, 6,4, 1,3, 2,8, 7,9)
    BY <1>1, <2>5, Reverse10_1, Turn10_3
  <2>7. Works10(s, w, 1, 2,8, 7,9, 10,5, 6,4, 3,1)
    BY <1>1, <2>6, Reverse10_3, Turn10_5
  <2> QED
    BY <1>1, <1>3, <2>1, <2>7, Exchange10, Begin10 DEF Right, w
<1> QED
  BY <1>2, <1>3 DEF Orders10, Orders10_6

\* Make5OptMove, case 7.
LEMMA Move10_7 ==
    ASSUME NEW s, Chosen(s, 10), Orders10(s, 7)
    PROVE  Right(s, Make5OptMove(s, 7))
<1> DEFINE w == Make5OptMove(s, 7)
<1>1. CASE Line10(s, 2,5, 6,4, 3,9, 10,7, 8,1)
  <2>1. BETWEEN(s[3], s[9], s[7])
    BY <1>1, NodesAre DEF Line10, BETWEEN, Chosen, Node
  <2>2. w = <<3, 4, 5, 8, 7, 6, 10, 9, 8, 1, 2, 3>>
    BY <2>1 DEF Make5OptMove
  <2> HIDE DEF w
  <2>3. /\ w \in Seq(Nat) /\ Len(w) = 12 /\ Over(w, 13)
        /\ Swap(w, 1, 4, 3, 4, 5) /\ Swap(w, 4, 7, 8, 7, 6)
        /\ Swap(w, 7, 10, 10, 9, 8) /\ Swap(w, 10, 13, 1, 2, 3)
    BY <2>2 DEF Swap, Over
  <2>4. Links10(s, 2,5, 6,4, 3,9, 10,7, 8,1) = Out10(s)
    BY DEF Links10, Out10
  <2>5. Links10(s, 10,7, 6,4, 5,2, 3,9, 8,1) = In10(s)
    BY DEF Links10, In10
  <2>6. Works10(s, w, 13, 10,7, 6,4, 5,2, 3,9, 8,1)
    BY <2>3, <2>5, Exchange10, AtEnd10
  <2>7. Works10(s, w, 10, 2,5, 4,6, 7,10, 3,9, 8,1)
    BY <2>3, <2>6, Turn10_4
  <2>8. Works10(s, w, 7, 9,3, 8,1, 2,5, 4,6, 7,10)
    BY <2>3, <2>7, Rotate10_2, Turn10_2
  <2>9. Works10(s, w, 4, 7,10, 9,3, 6,4, 5,2, 1,8)
    BY <2>3, <2>8, Reverse10_4, Turn10_3
  <2>10. Works10(s, w, 1, 4,6, 5,2, 1,8, 7,10, 9,3)
    BY <2>3, <2>9, Rotate10_3, Turn10_2
  <2> QED
    BY <2>3, <1>1, <2>4, <2>10, Reverse10_3, Exchange10, Begin10 DEF Right, w
<1>2. CASE Line10(s, 2,5, 6,9, 10,4, 3,7, 8,1)
  <2>1. ~BETWEEN(s[3], s[9], s[7]) /\ BETWEEN(s[6], s[9], s[4])
    BY <1>2, NodesAre DEF Line10, BETWEEN, Chosen, Node
  <2>2. w = <<3, 4, 5, 8, 7, 6, 9, 10, 1, 9, 2, 3>>
    BY <2>1 DEF Make5OptMove
  <2> HIDE DEF w
  <2>3. /\ w \in Seq(Nat) /\ Len(w) = 12 /\ Over(w, 13)
        /\ Swap(w, 1, 4, 3, 4, 5) /\ Swap(w, 4, 7, 8, 7, 6)
        /\ Swap(w, 7, 10, 9, 10, 1) /\ Swap(w, 10, 13, 9, 2, 3)
    BY <2>2 DEF Swap, Over
  <2>4. Links10(s, 2,5, 6,9, 10,4, 3,7, 8,1) = Out10(s)
    BY DEF Links10, Out10
  <2>5. Links10(s, 8,1, 10,4, 5,2, 3,7, 6,9) = In10(s)
    BY DEF Links10, In10
  <2>6. Works10(s, w, 13, 8,1, 10,4, 5,2, 3,7, 6,9)
    BY <2>3, <2>5, Exchange10, AtEnd10
  <2>7. Works10(s, w, 10, 2,5, 4,10, 1,8, 3,7, 6,9)
    BY <2>3, <2>6, Turn10_4
  <2>8. Works10(s, w, 7, 10,4, 5,2, 1,8, 3,7, 6,9)
    BY <2>3, <2>7, Turn10_3
  <2>9. Works10(s, w, 4, 7,3, 6,9, 10,4, 5,2, 1,8)
    BY <2>3, <2>8, Rotate10_2, Turn10_2
  <2>10. Works10(s, w, 1, 4,10, 9,6, 5,2, 1,8, 7,3)
    BY <2>3, <2>9, Rotate10_4, Turn10_3
  <2> QED
    BY <2>3, <1>2, <2>4, <2>10, Reverse10_2, Exchange10, Begin10 DEF Right, w
<1>3. CASE Line10(s, 2,9, 10,5, 6,4, 3,7, 8,1)
  <2>1. ~BETWEEN(s[3], s[9], s[7]) /\ ~BETWEEN(s[6], s[9], s[4])
    BY <1>3, NodesAre DEF Line10, BETWEEN, Chosen, Node
  <2>2. w = <<1, 2, 3, 6, 5, 4, 7, 8, 9, 7, 10, 1>>
    BY <2>1 DEF Make5OptMove
  <2> HIDE DEF w
  <2>3. /\ w \in Seq(Nat) /\ Len(w) = 12 /\ Over(w, 13)
        /\ Swap(w, 1, 4, 1, 2, 3) /\ Swap(w, 4, 7, 6, 5, 4)
        /\ Swap(w, 7, 10, 7, 8, 9) /\ Swap(w, 10, 13, 7, 10, 1)
    BY <2>2 DEF Swap, Over
  <2>4. Links10(s, 2,9, 10,5, 6,4, 3,7, 8,1) = Out10(s)
    BY DEF Links10, Out10
  <2>5. Links10(s, 6,4, 5,10, 1,8, 9,2, 3,7) = In10(s)
    BY DEF Links10, In10
  <2>6. Works10(s, w, 13, 6,4, 5,10, 1,8, 9,2, 3,7)
    BY <2>3, <2>5, Exchange10, AtEnd10
  <2>7. Works10(s, w, 10, 10,5, 4,6, 1,8, 9,2, 3,7)
    BY <2>3, <2>6, Turn10_3
  <2>8. Works10(s, w, 7, 8,1, 6,4, 5,10, 9,2, 3,7)
    BY <2>3, <2>7, Turn10_4
  <2>9. Works10(s, w, 4, 5,10, 9,2, 3,7, 8,1, 4,6)
    BY <2>3, <2>8, Reverse10_4, Turn10_5
  <2>10. Works10(s, w, 1, 2,9, 10,5, 6,4, 3,7, 8,1)
    BY <2>3, <2>9, Rotate10_1, Turn10_4
  <2> QED
    BY <2>3, <1>3, <2>4, <2>10, Exchange10, Begin10 DEF Right, w
<1> QED
  BY <1>1, <1>2, <1>3 DEF Orders10, Orders10_7

\* Make5OptMove, case 8.
LEMMA Move10_8 ==
    ASSUME NEW s, Chosen(s, 10), Orders10(s, 8)
    PROVE  Right(s, Make5OptMove(s, 8))
<1> DEFINE w == Make5OptMove(s, 8)
<1>1. /\ w \in Seq(Nat) /\ Len(w) = 12 /\ Over(w, 13)
      /\ Swap(w, 1, 4, 3, 4, 5) /\ Swap(w, 4, 7, 9, 10, 1)
      /\ Swap(w, 7, 10, 8, 7, 6) /\ Swap(w, 10, 13, 8, 3, 2)
  BY DEF Swap, Over, Make5OptMove
<1> HIDE DEF w
<1>2. Links10(s, 2,5, 6,9, 10,7, 8,4, 3,1) = Out10(s)
  BY DEF Links10, Out10
<1>3. Links10(s, 9,6, 7,10, 1,3, 2,5, 4,8) = In10(s)
  BY DEF Links10, In10
<1>4. Works10(s, w, 13, 9,6, 7,10, 1,3, 2,5, 4,8)
  BY <1>1, <1>3, Exchange10, AtEnd10
<1>5. Works10(s, w, 10, 3,1, 10,7, 6,9, 2,5, 4,8)
  BY <1>1, <1>4, Turn10_4
<1>6. Works10(s, w, 7, 7,10, 1,3, 6,9, 2,5, 4,8)
  BY <1>1, <1>5, Turn10_3
<1>7. Works10(s, w, 4, 10,7, 8,4, 5,2, 1,3, 6,9)
  BY <1>1, <1>6, Rotate10_2, Turn10_4
<1>8. Works10(s, w, 1, 4,8, 7,10, 9,6, 5,2, 1,3)
  BY <1>1, <1>7, Rotate10_1, Turn10_4
<1>9. Line10(s, 2,5, 6,9, 10,7, 8,4, 3,1)
  BY DEF Orders10, Orders10_8
<1> QED
  BY <1>1, <1>9, <1>2, <1>8, Reverse10_1, Exchange10, Begin10 DEF Right, w

\* Make5OptMove, case 9.
LEMMA Move10_9 ==
    ASSUME NEW s, Chosen(s, 10), Orders10(s, 9)
    PROVE  Right(s, Make5OptMove(s, 9))
<1> DEFINE w == Make5OptMove(s, 9)
<1>1. /\ w \in Seq(Nat) /\ Len(w) = 12 /\ Over(w, 13)
      /\ Swap(w, 1, 4, 10, 9, 8) /\ Swap(w, 4, 7, 5, 6, 7)
      /\ Swap(w, 7, 10, 1, 2, 3) /\ Swap(w, 10, 13, 1, 4, 5)
  BY DEF Swap, Over, Make5OptMove
<1> HIDE DEF w
<1>2. Links10(s, 2,4, 3,8, 7,9, 10,6, 5,1) = Out10(s)
  BY DEF Links10, Out10
<1>3. Links10(s, 10,6, 7,9, 8,3, 2,4, 5,1) = In10(s)
  BY DEF Links10, In10
<1>4. Works10(s, w, 13, 10,6, 7,9, 8,3, 2,4, 5,1)
  BY <1>1, <1>3, Exchange10, AtEnd10
<1>5. Works10(s, w, 10, 4,2, 3,8, 9,7, 6,10, 5,1)
  BY <1>1, <1>4, Turn10_5
<1>6. Works10(s, w, 7, 2,4, 3,8, 9,7, 6,10, 5,1)
  BY <1>1, <1>5, Turn10_2
<1>7. Works10(s, w, 4, 6,10, 7,9, 8,3, 4,2, 1,5)
  BY <1>1, <1>6, Reverse10_1, Turn10_2
<1>8. Works10(s, w, 1, 9,7, 8,3, 4,2, 1,5, 6,10)
  BY <1>1, <1>7, Rotate10_4, Turn10_2
<1>9. Line10(s, 2,4, 3,8, 7,9, 10,6, 5,1)
  BY DEF Orders10, Orders10_9
<1> QED
  BY <1>1, <1>9, <1>2, <1>8, Reverse10_2, Exchange10, Begin10 DEF Right, w

\* Make5OptMove, case 10.
LEMMA Move10_10 ==
    ASSUME NEW s, Chosen(s, 10), Orders10(s, 10)
    PROVE  Right(s, Make5OptMove(s, 10))
<1> DEFINE w == Make5OptMove(s, 10)
<1>1. CASE Line10(s, 2,4, 3,6, 5,9, 10,7, 8,1)
  <2>1. BETWEEN(s[5], s[9], s[7])
    BY <1>1, NodesAre DEF Line10, BETWEEN, Chosen, Node
  <2>2. w = <<5, 6, 7, 9, 10, 1, 4, 3, 2, 4, 9, 8>>
    BY <2>1 DEF Make5OptMove
  <2> HIDE DEF w
  <2>3. /\ w \in Seq(Nat) /\ Len(w) = 12 /\ Over(w, 13)
        /\ Swap(w, 1, 4, 5, 6, 7) /\ Swap(w, 4, 7, 9, 10, 1)
        /\ Swap(w, 7, 10, 4, 3, 2) /\ Swap(w, 10, 13, 4, 9, 8)
    BY <2>2 DEF Swap, Over
  <2>4. Links10(s, 2,4, 3,6, 5,9, 10,7, 8,1) = Out10(s)
    BY DEF Links10, Out10
  <2>5. Links10(s, 5,9, 8,1, 10,7, 6,3, 2,4) = In10(s)
    BY DEF Links10, In10
  <2>6. Works10(s, w, 13, 5,9, 8,1, 10,7, 6,3, 2,4)
    BY <2>3, <2>5, Exchange10, AtEnd10
  <2>7. Works10(s, w, 10, 9,5, 8,1, 10,7, 6,3, 2,4)
    BY <2>3, <2>6, Turn10_2
  <2>8. Works10(s, w, 7, 3,6, 7,10, 1,8, 5,9, 2,4)
    BY <2>3, <2>7, Turn10_5
  <2>9. Works10(s, w, 4, 10,7, 6,3, 4,2, 1,8, 5,9)
    BY <2>3, <2>8, Rotate10_1, Turn10_4
  <2>10. Works10(s, w, 1, 6,3, 4,2, 1,8, 7,10, 9,5)
    BY <2>3, <2>9, Reverse10_1, Turn10_4
  <2> QED
    BY <2>3, <1>1, <2>4, <2>10, Reverse10_3, Exchange10, Begin10 DEF Right, w
<1>2. CASE Line10(s, 2,4, 3,9, 10,6, 5,7, 8,1)
  <2>1. ~BETWEEN(s[5], s[9], s[7]) /\ BETWEEN(s[3], s[9], s[6])
    BY <1>2, NodesAre DEF Line10, BETWEEN, Chosen, Node
  <2>2. w = <<1, 2, 3, 6, 5, 4, 7, 8, 9, 7, 10, 1>>
    BY <2>1 DEF Make5OptMove
  <2> HIDE DEF w
  <2>3. /\ w \in Seq(Nat) /\ Len(w) = 12 /\ Over(w, 13)
        /\ Swap(w, 1, 4, 1, 2, 3) /\ Swap(w, 4, 7, 6, 5, 4)
        /\ Swap(w, 7, 10, 7, 8, 9) /\ Swap(w, 10, 13, 7, 10, 1)
    BY <2>2 DEF Swap, Over
  <2>4. Links10(s, 2,4, 3,9, 10,6, 5,7, 8,1) = Out10(s)
    BY DEF Links10, Out10
  <2>5. Links10(s, 6,10, 1,8, 9,3, 2,4, 5,7) = In10(s)
    BY DEF Links10, In10
  <2>6. Works10(s, w, 13, 6,10, 1,8, 9,3, 2,4, 5,7)
    BY <2>3, <2>5, Exchange10, AtEnd10
  <2>7. Works10(s, w, 10, 10,6, 1,8, 9,3, 2,4, 5,7)
    BY <2>3, <2>6, Turn10_2
  <2>8. Works10(s, w, 7, 8,1, 6,10, 9,3, 2,4, 5,7)
    BY <2>3, <2>7, Turn10_3
  <2>9. Works10(s, w, 4, 5,7, 8,1, 4,2, 3,9, 10,6)
    BY <2>3, <2>8, Reverse10_4, Turn10_3
  <2>10. Works10(s, w, 1, 2,4, 3,9, 10,6, 5,7, 8,1)
    BY <2>3, <2>9, Rotate10_3, Turn10_2
  <2> QED
    BY <2>3, <1>2, <2>4, <2>10, Exchange10, Begin10 DEF Right, w
<1>3. CASE Line10(s, 2,9, 10,4, 3,6, 5,7, 8,1)
  <2>1. ~BETWEEN(s[5], s[9], s[7]) /\ ~BETWEEN(s[3], s[9], s[6])
    BY <1>3, NodesAre DEF Line10, BETWEEN, Chosen, Node
  <2>2. w = <<1, 2, 3, 9, 10, 1, 5, 6, 7, 5, 8, 9>>
    BY <2>1 DEF Make5OptMove
  <2> HIDE DEF w
  <2>3. /\ w \in Seq(Nat) /\ Len(w) = 12 /\ Over(w, 13)
        /\ Swap(w, 1, 4, 1, 2, 3) /\ Swap(w, 4, 7, 9, 10, 1)
        /\ Swap(w, 7, 10, 5, 6, 7) /\ Swap(w, 10, 13, 5, 8, 9)
    BY <2>2 DEF Swap, Over
  <2>4. Links10(s, 2,9, 10,4, 3,6, 5,7, 8,1) = Out10(s)
    BY DEF Links10, Out10
  <2>5. Links10(s, 4,10, 1,8, 9,2, 3,6, 7,5) = In10(s)
    BY DEF Links10, In10
  <2>6. Works10(s, w, 13, 4,10, 1,8, 9,2, 3,6, 7,5)
    BY <2>3, <2>5, Exchange10, AtEnd10
  <2>7. Works10(s, w, 10, 8,1, 10,4, 9,2, 3,6, 7,5)
    BY <2>3, <2>6, Turn10_3
  <2>8. Works10(s, w, 7, 6,3, 2,9, 4,10, 1,8, 7,5)
    BY <2>3, <2>7, Turn10_5
  <2>9. Works10(s, w, 4, 10,4, 1,8, 7,5, 6,3, 2,9)
    BY <2>3, <2>8, Rotate10_3, Turn10_2
  <2>10. Works10(s, w, 1, 2,9, 10,4, 3,6, 5,7, 8,1)
    BY <2>3, <2>9, Reverse10_4, Turn10_3
  <2> QED
    BY <2>3, <1>3, <2>4, <2>10, Exchange10, Begin10 DEF Right, w
<1> QED
  BY <1>1, <1>2, <1>3 DEF Orders10, Orders10_10

\* Make5OptMove, case 11.
LEMMA Move10_11 ==
    ASSUME NEW s, Chosen(s, 10), Orders10(s, 11)
    PROVE  Right(s, Make5OptMove(s, 11))
<1> DEFINE w == Make5OptMove(s, 11)
<1>1. CASE Line10(s, 2,7, 8,4, 3,9, 10,6, 5,1)
  <2>1. BETWEEN(s[3], s[9], s[6])
    BY <1>1, NodesAre DEF Line10, BETWEEN, Chosen, Node
  <2>2. w = <<1, 2, 3, 6, 5, 4, 9, 10, 1, 7, 8, 9>>
    BY <2>1 DEF Make5OptMove
  <2> HIDE DEF w
  <2>3. /\ w \in Seq(Nat) /\ Len(w) = 12 /\ Over(w, 13)
        /\ Swap(w, 1, 4, 1, 2, 3) /\ Swap(w, 4, 7, 6, 5, 4)
        /\ Swap(w, 7, 10, 9, 10, 1) /\ Swap(w, 10, 13, 7, 8, 9)
    BY <2>2 DEF Swap, Over
  <2>4. Links10(s, 2,7, 8,4, 3,9, 10,6, 5,1) = Out10(s)
    BY DEF Links10, Out10
  <2>5. Links10(s, 6,10, 1,5, 4,8, 9,3, 2,7) = In10(s)
    BY DEF Links10, In10
  <2>6. Works10(s, w, 13, 6,10, 1,5, 4,8, 9,3, 2,7)
    BY <2>3, <2>5, Exchange10, AtEnd10
  <2>7. Works10(s, w, 10, 8,4, 5,1, 10,6, 9,3, 2,7)
    BY <2>3, <2>6, Turn10_4
  <2>8. Works10(s, w, 7, 10,6, 1,5, 4,8, 7,2, 3,9)
    BY <2>3, <2>7, Reverse10_2, Turn10_2
  <2>9. Works10(s, w, 4, 5,1, 4,8, 7,2, 3,9, 10,6)
    BY <2>3, <2>8, Rotate10_4, Turn10_2
  <2>10. Works10(s, w, 1, 2,7, 8,4, 3,9, 10,6, 5,1)
    BY <2>3, <2>9, Rotate10_4, Turn10_3
  <2> QED
    BY <2>3, <1>1, <2>4, <2>10, Exchange10, Begin10 DEF Right, w
<1>2. CASE Line10(s, 2,9, 10,7, 8,4, 3,6, 5,1)
  <2>1. ~BETWEEN(s[3], s[9], s[6])
    BY <1>2, NodesAre DEF Line10, BETWEEN, Chosen, Node
  <2>2. w = <<5, 6, 7, 10, 9, 8, 2, 1, 10, 4, 3, 2>>
    BY <2>1 DEF Make5OptMove
  <2> HIDE DEF w
  <2>3. /\ w \in Seq(Nat) /\ Len(w) = 12 /\ Over(w, 13)
        /\ Swap(w, 1, 4, 5, 6, 7) /\ Swap(w, 4, 7, 10, 9, 8)
        /\ Swap(w, 7, 10, 2, 1, 10) /\ Swap(w, 10, 13, 4, 3, 2)
    BY <2>2 DEF Swap, Over
  <2>4. Links10(s, 2,9, 10,7, 8,4, 3,6, 5,1) = Out10(s)
    BY DEF Links10, Out10
  <2>5. Links10(s, 5,1, 10,7, 6,3, 2,9, 8,4) = In10(s)
    BY DEF Links10, In10
  <2>6. Works10(s, w, 13, 5,1, 10,7, 6,3, 2,9, 8,4)
    BY <2>3, <2>5, Exchange10, AtEnd10
  <2>7. Works10(s, w, 10, 3,6, 7,10, 1,5, 2,9, 8,4)
    BY <2>3, <2>6, Turn10_4
  <2>8. Works10(s, w, 7, 1,5, 10,7, 6,3, 4,8, 9,2)
    BY <2>3, <2>7, Reverse10_2, Turn10_2
  <2>9. Works10(s, w, 4, 9,2, 1,5, 8,4, 3,6, 7,10)
    BY <2>3, <2>8, Reverse10_4, Turn10_3
  <2>10. Works10(s, w, 1, 6,3, 4,8, 7,10, 9,2, 1,5)
    BY <2>3, <2>9, Rotate10_3, Turn10_3
  <2> QED
    BY <2>3, <1>2, <2>4, <2>10, Reverse10_1, Exchange10, Begin10 DEF Right, w
<1> QED
  BY <1>1, <1>2 DEF Orders10, Orders10_11

\* Make5OptMove, case 12.
LEMMA Move10_12 ==
    ASSUME NEW s, Chosen(s, 10), Orders10(s, 12)
    PROVE  Right(s, Make5OptMove(s, 12))
<1> DEFINE w == Make5OptMove(s, 12)
<1>1. /\ w \in Seq(Nat) /\ Len(w) = 12 /\ Over(w, 13)
      /\ Swap(w, 1, 4, 1, 2, 3) /\ Swap(w, 4, 7, 8, 7, 6)
      /\ Swap(w, 7, 10, 10, 9, 8) /\ Swap(w, 10, 13, 5, 10, 1)
  BY DEF Swap, Over, Make5OptMove
<1> HIDE DEF w
<1>2. Links10(s, 2,6, 5,9, 10,4, 3,8, 7,1) = Out10(s)
  BY DEF Links10, Out10
<1>3. Links10(s, 4,10, 1,7, 6,2, 3,8, 9,5) = In10(s)
  BY DEF Links10, In10
<1>4. Works10(s, w, 13, 4,10, 1,7, 6,2, 3,8, 9,5)
  BY <1>1, <1>3, Exchange10, AtEnd10
<1>5. Works10(s, w, 10, 10,4, 1,7, 6,2, 3,8, 9,5)
  BY <1>1, <1>4, Turn10_2
<1>6. Works10(s, w, 7, 9,5, 8,3, 2,6, 7,1, 4,10)
  BY <1>1, <1>5, Reverse10_0, Turn10_2
<1>7. Works10(s, w, 4, 7,1, 4,10, 9,5, 6,2, 3,8)
  BY <1>1, <1>6, Reverse10_4, Turn10_4
<1>8. Works10(s, w, 1, 2,6, 5,9, 10,4, 3,8, 7,1)
  BY <1>1, <1>7, Rotate10_4, Turn10_4
<1>9. Line10(s, 2,6, 5,9, 10,4, 3,8, 7,1)
  BY DEF Orders10, Orders10_12
<1> QED
  BY <1>1, <1>9, <1>2, <1>8, Exchange10, Begin10 DEF Right, w

\* Make5OptMove, case 13.
LEMMA Move10_13 ==
    ASSUME NEW s, Chosen(s, 10), Orders10(s, 13)
    PROVE  Right(s, Make5OptMove(s, 13))
<1> DEFINE w == Make5OptMove(s, 13)
<1>1. CASE Line10(s, 2,5, 6,3, 4,9, 10,7, 8,1)
  <2>1. BETWEEN(s[4], s[9], s[7])
    BY <1>1, NodesAre DEF Line10, BETWEEN, Chosen, Node
  <2>2. w = <<7, 8, 10, 5, 6, 7, 1, 2, 3, 5, 9, 1, 9, 1, 10>>
    BY <2>1 DEF Make5OptMove
  <2> HIDE DEF w
  <2>3. /\ w \in Seq(Nat) /\ Len(w) = 15 /\ Over(w, 16)
        /\ Swap(w, 1, 4, 7, 8, 10) /\ Swap(w, 4, 7, 5, 6, 7)
        /\ Swap(w, 7, 10, 1, 2, 3) /\ Swap(w, 10, 13, 5, 9, 1)
        /\ Swap(w, 13, 16, 9, 1, 10)
    BY <2>2 DEF Swap, Over
  <2>4. Links10(s, 2,5, 6,3, 4,9, 10,7, 8,1) = Out10(s)
    BY DEF Links10, Out10
  <2>5. Links10(s, 8,1, 10,7, 6,3, 2,5, 4,9) = In10(s)
    BY DEF Links10, In10
  <2>6. Works10(s, w, 16, 8,1, 10,7, 6,3, 2,5, 4,9)
    BY <2>3, <2>5, Exchange10, AtEnd10
  <2>7. Works10(s, w, 13, 1,8, 10,7, 6,3, 2,5, 4,9)
    BY <2>3, <2>6, Turn10_2
  <2>8. Works10(s, w, 10, 9,4, 1,8, 10,7, 6,3, 2,5)
    BY <2>3, <2>7, Rotate10_1, Turn10_2
  <2>9. Works10(s, w, 7, 2,5, 9,4, 3,6, 7,10, 8,1)
    BY <2>3, <2>8, Reverse10_4, Turn10_3
  <2>10. Works10(s, w, 4, 6,3, 4,9, 7,10, 8,1, 2,5)
    BY <2>3, <2>9, Rotate10_4, Turn10_3
  <2>11. Works10(s, w, 1, 8,1, 2,5, 6,3, 4,9, 10,7)
    BY <2>3, <2>10, Reverse10_3, Turn10_5
  <2> QED
    BY <2>3, <1>1, <2>4, <2>11, Rotate10_4, Exchange10, Begin10 DEF Right, w
<1>2. CASE Line10(s, 2,5, 6,9, 10,3, 4,7, 8,1)
  <2>1. ~BETWEEN(s[4], s[9], s[7]) /\ BETWEEN(s[6], s[9], s[3])
    BY <1>2, NodesAre DEF Line10, BETWEEN, Chosen, Node
  <2>2. w = <<10, 9, 1, 7, 8, 9, 3, 4, 5, 3, 6, 7, 3, 1, 10>>
    BY <2>1 DEF Make5OptMove
  <2> HIDE DEF w
  <2>3. /\ w \in Seq(Nat) /\ Len(w) = 15 /\ Over(w, 16)
        /\ Swap(w, 1, 4, 10, 9, 1) /\ Swap(w, 4, 7, 7, 8, 9)
        /\ Swap(w, 7, 10, 3, 4, 5) /\ Swap(w, 10, 13, 3, 6, 7)
        /\ Swap(w, 13, 16, 3, 1, 10)
    BY <2>2 DEF Swap, Over
  <2>4. Links10(s, 2,5, 6,9, 10,3, 4,7, 8,1) = Out10(s)
    BY DEF Links10, Out10
  <2>5. Links10(s, 2,5, 4,7, 6,9, 8,1, 10,3) = In10(s)
    BY DEF Links10, In10
  <2>6. Works10(s, w, 16, 2,5, 4,7, 6,9, 8,1, 10,3)
    BY <2>3, <2>5, Exchange10, AtEnd10
  <2>7. Works10(s, w, 13, 1,8, 9,6, 7,4, 5,2, 10,3)
    BY <2>3, <2>6, Turn10_5
  <2>8. Works10(s, w, 10, 6,9, 8,1, 7,4, 5,2, 10,3)
    BY <2>3, <2>7, Turn10_3
  <2>9. Works10(s, w, 7, 4,7, 1,8, 9,6, 5,2, 10,3)
    BY <2>3, <2>8, Turn10_4
  <2>10. Works10(s, w, 4, 8,1, 9,6, 5,2, 10,3, 4,7)
    BY <2>3, <2>9, Rotate10_4, Turn10_2
  <2>11. Works10(s, w, 1, 9,6, 5,2, 1,8, 7,4, 3,10)
    BY <2>3, <2>10, Reverse10_2, Turn10_3
  <2> QED
    BY <2>3, <1>2, <2>4, <2>11, Reverse10_3, Exchange10, Begin10 DEF Right, w
<1>3. CASE Line10(s, 2,9, 10,5, 6,3, 4,7, 8,1)
  <2>1. ~BETWEEN(s[4], s[9], s[7]) /\ ~BETWEEN(s[6], s[9], s[3])
    BY <1>3, NodesAre DEF Line10, BETWEEN, Chosen, Node
  <2>2. w = <<10, 9, 1, 4, 3, 2, 5, 6, 7, 5, 8, 10, 9, 1, 10>>
    BY <2>1 DEF Make5OptMove
  <2> HIDE DEF w
  <2>3. /\ w \in Seq(Nat) /\ Len(w) = 15 /\ Over(w, 16)
        /\ Swap(w, 1, 4, 10, 9, 1) /\ Swap(w, 4, 7, 4, 3, 2)
        /\ Swap(w, 7, 10, 5, 6, 7) /\ Swap(w, 10, 13, 5, 8, 10)
        /\ Swap(w, 13, 16, 9, 1, 10)
    BY <2>2 DEF Swap, Over
  <2>4. Links10(s, 2,9, 10,5, 6,3, 4,7, 8,1) = Out10(s)
    BY DEF Links10, Out10
  <2>5. Links10(s, 8,1, 10,5, 4,7, 6,3, 2,9) = In10(s)
    BY DEF Links10, In10
  <2>6. Works10(s, w, 16, 8,1, 10,5, 4,7, 6,3, 2,9)
    BY <2>3, <2>5, Exchange10, AtEnd10
  <2>7. Works10(s, w, 13, 1,8, 10,5, 4,7, 6,3, 2,9)
    BY <2>3, <2>6, Turn10_2
  <2>8. Works10(s, w, 10, 8,1, 9,2, 3,6, 7,4, 10,5)
    BY <2>3, <2>7, Rotate10_3, Turn10_5
  <2>9. Works10(s, w, 7, 6,3, 2,9, 1,8, 7,4, 10,5)
    BY <2>3, <2>8, Turn10_4
  <2>10. Works10(s, w, 4, 3,6, 5,10, 2,9, 1,8, 7,4)
    BY <2>3, <2>9, Rotate10_1, Turn10_3
  <2>11. Works10(s, w, 1, 9,2, 1,8, 7,4, 3,6, 5,10)
    BY <2>3, <2>10, Rotate10_3, Turn10_2
  <2> QED
    BY <2>3, <1>3, <2>4, <2>11, Reverse10_4, Exchange10, Begin10 DEF Right, w
<1> QED
  BY <1>1, <1>2, <1>3 DEF Orders10, Orders10_13

\* Make5OptMove, case 14.
LEMMA Move10_14 ==
    ASSUME NEW s, Chosen(s, 10), Orders10(s, 14)
    PROVE  Right(s, Make5OptMove(s, 14))
<1> DEFINE w == Make5OptMove(s, 14)
<1>1. /\ w \in Seq(Nat) /\ Len(w) = 15 /\ Over(w, 16)
      /\ Swap(w, 1, 4, 10, 9, 1) /\ Swap(w, 4, 7, 5, 6, 7)
      /\ Swap(w, 7, 10, 5, 8, 9) /\ Swap(w, 10, 13, 3, 4, 5)
      /\ Swap(w, 13, 16, 3, 1, 10)
  BY DEF Swap, Over, Make5OptMove
<1> HIDE DEF w
<1>2. Links10(s, 2,5, 6,9, 10,7, 8,3, 4,1) = Out10(s)
  BY DEF Links10, Out10
<1>3. Links10(s, 2,5, 4,1, 10,7, 6,9, 8,3) = In10(s)
  BY DEF Links10, In10
<1>4. Works10(s, w, 16, 2,5, 4,1, 10,7, 6,9, 8,3)
  BY <1>1, <1>3, Exchange10, AtEnd10
<1>5. Works10(s, w, 13, 1,4, 5,2, 10,7, 6,9, 8,3)
  BY <1>1, <1>4, Turn10_3
<1>6. Works10(s, w, 10, 4,1, 5,2, 10,7, 6,9, 8,3)
  BY <1>1, <1>5, Turn10_2
<1>7. Works10(s, w, 7, 8,3, 4,1, 9,6, 7,10, 2,5)
  BY <1>1, <1>6, Reverse10_4, Turn10_3
<1>8. Works10(s, w, 4, 6,9, 1,4, 3,8, 7,10, 2,5)
  BY <1>1, <1>7, Turn10_4
<1>9. Works10(s, w, 1, 9,6, 5,2, 1,4, 3,8, 7,10)
  BY <1>1, <1>8, Rotate10_1, Turn10_3
<1>10. Line10(s, 2,5, 6,9, 10,7, 8,3, 4,1)
  BY DEF Orders10, Orders10_14
<1> QED
  BY <1>1, <1>10, <1>2, <1>9, Reverse10_3, Exchange10, Begin10 DEF Right, w

\* Make5OptMove, case 15.
LEMMA Move10_15 ==
    ASSUME NEW s, Chosen(s, 10), Orders10(s, 15)
    PROVE  Right(s, Make5OptMove(s, 15))
<1> DEFINE w == Make5OptMove(s, 15)
<1>1. CASE Line10(s, 2,7, 8,5, 6,9, 10,3, 4,1)
  <2>1. BETWEEN(s[6], s[9], s[3])
    BY <1>1, NodesAre DEF Line10, BETWEEN, Chosen, Node
  <2>2. w = <<10, 9, 1, 3, 4, 5, 6, 3, 2, 8, 7, 6, 9, 1, 10>>
    BY <2>1 DEF Make5OptMove
  <2> HIDE DEF w
  <2>3. /\ w \in Seq(Nat) /\ Len(w) = 15 /\ Over(w, 16)
        /\ Swap(w, 1, 4, 10, 9, 1) /\ Swap(w, 4, 7, 3, 4, 5)
        /\ Swap(w, 7, 10, 6, 3, 2) /\ Swap(w, 10, 13, 8, 7, 6)
        /\ Swap(w, 13, 16, 9, 1, 10)
    BY <2>2 DEF Swap, Over
  <2>4. Links10(s, 2,7, 8,5, 6,9, 10,3, 4,1) = Out10(s)
    BY DEF Links10, Out10
  <2>5. Links10(s, 8,5, 4,1, 10,3, 2,7, 6,9) = In10(s)
    BY DEF Links10, In10
  <2>6. Works10(s, w, 16, 8,5, 4,1, 10,3, 2,7, 6,9)
    BY <2>3, <2>5, Exchange10, AtEnd10
  <2>7. Works10(s, w, 13, 1,4, 5,8, 10,3, 2,7, 6,9)
    BY <2>3, <2>6, Turn10_3
  <2>8. Works10(s, w, 10, 7,2, 3,10, 6,9, 1,4, 5,8)
    BY <2>3, <2>7, Rotate10_3, Turn10_3
  <2>9. Works10(s, w, 7, 3,10, 2,7, 8,5, 4,1, 9,6)
    BY <2>3, <2>8, Reverse10_3, Turn10_2
  <2>10. Works10(s, w, 4, 4,1, 9,6, 5,8, 7,2, 10,3)
    BY <2>3, <2>9, Reverse10_0, Turn10_3
  <2>11. Works10(s, w, 1, 9,6, 5,8, 7,2, 1,4, 3,10)
    BY <2>3, <2>10, Reverse10_1, Turn10_4
  <2> QED
    BY <2>3, <1>1, <2>4, <2>11, Reverse10_2, Exchange10, Begin10 DEF Right, w
<1>2. CASE Line10(s, 2,9, 10,7, 8,5, 6,3, 4,1)
  <2>1. ~BETWEEN(s[6], s[9], s[3])
    BY <1>2, NodesAre DEF Line10, BETWEEN, Chosen, Node
  <2>2. w = <<1, 2, 6, 3, 4, 5, 8, 7, 6, 10, 9, 8, 2, 10, 1>>
    BY <2>1 DEF Make5OptMove
  <2> HIDE DEF w
  <2>3. /\ w \in Seq(Nat) /\ Len(w) = 15 /\ Over(w, 16)
        /\ Swap(w, 1, 4, 1, 2, 6) /\ Swap(w, 4, 7, 3, 4, 5)
        /\ Swap(w, 7, 10, 8, 7, 6) /\ Swap(w, 10, 13, 10, 9, 8)
        /\ Swap(w, 13, 16, 2, 10, 1)
    BY <2>2 DEF Swap, Over
  <2>4. Links10(s, 2,9, 10,7, 8,5, 6,3, 4,1) = Out10(s)
    BY DEF Links10, Out10
  <2>5. Links10(s, 3,6, 7,10, 1,4, 5,8, 9,2) = In10(s)
    BY DEF Links10, In10
  <2>6. Works10(s, w, 16, 3,6, 7,10, 1,4, 5,8, 9,2)
    BY <2>3, <2>5, Exchange10, AtEnd10
  <2>7. Works10(s, w, 13, 10,7, 6,3, 1,4, 5,8, 9,2)
    BY <2>3, <2>6, Turn10_3
  <2>8. Works10(s, w, 10, 9,2, 8,5, 4,1, 3,6, 7,10)
    BY <2>3, <2>7, Reverse10_0, Turn10_2
  <2>9. Works10(s, w, 7, 7,10, 9,2, 6,3, 1,4, 5,8)
    BY <2>3, <2>8, Reverse10_4, Turn10_3
  <2>10. Works10(s, w, 4, 4,1, 5,8, 7,10, 9,2, 6,3)
    BY <2>3, <2>9, Rotate10_2, Turn10_2
  <2>11. Works10(s, w, 1, 2,9, 10,7, 8,5, 6,3, 4,1)
    BY <2>3, <2>10, Rotate10_4, Turn10_4
  <2> QED
    BY <2>3, <1>2, <2>4, <2>11, Exchange10, Begin10 DEF Right, w
<1> QED
  BY <1>1, <1>2 DEF Orders10, Orders10_15

\* Make5OptMove, case 16.
LEMMA Move10_16 ==
    ASSUME NEW s, Chosen(s, 10), Orders10(s, 16)
    PROVE  Right(s, Make5OptMove(s, 16))
<1> DEFINE w == Make5OptMove(s, 16)
<1>1. CASE Line10(s, 2,6, 5,3, 4,9, 10,7, 8,1)
  <2>1. BETWEEN(s[4], s[9], s[7])
    BY <1>1, NodesAre DEF Line10, BETWEEN, Chosen, Node
  <2>2. w = <<3, 4, 5, 8, 7, 6, 9, 10, 1, 8, 3, 2>>
    BY <2>1 DEF Make5OptMove
  <2> HIDE DEF w
  <2>3. /\ w \in Seq(Nat) /\ Len(w) = 12 /\ Over(w, 13)
        /\ Swap(w, 1, 4, 3, 4, 5) /\ Swap(w, 4, 7, 8, 7, 6)
        /\ Swap(w, 7, 10, 9, 10, 1) /\ Swap(w, 10, 13, 8, 3, 2)
    BY <2>2 DEF Swap, Over
  <2>4. Links10(s, 2,6, 5,3, 4,9, 10,7, 8,1) = Out10(s)
    BY DEF Links10, Out10
  <2>5. Links10(s, 9,4, 5,3, 2,6, 7,10, 1,8) = In10(s)
    BY DEF Links10, In10
  <2>6. Works10(s, w, 13, 9,4, 5,3, 2,6, 7,10, 1,8)
    BY <2>3, <2>5, Exchange10, AtEnd10
  <2>7. Works10(s, w, 10, 3,5, 4,9, 2,6, 7,10, 1,8)
    BY <2>3, <2>6, Turn10_3
  <2>8. Works10(s, w, 7, 10,7, 6,2, 1,8, 3,5, 4,9)
    BY <2>3, <2>7, Rotate10_3, Turn10_3
  <2>9. Works10(s, w, 4, 7,10, 9,4, 5,3, 6,2, 1,8)
    BY <2>3, <2>8, Rotate10_2, Turn10_4
  <2>10. Works10(s, w, 1, 4,9, 10,7, 8,1, 2,6, 5,3)
    BY <2>3, <2>9, Rotate10_2, Turn10_5
  <2> QED
    BY <2>3, <1>1, <2>4, <2>10, Rotate10_2, Exchange10, Begin10 DEF Right, w
<1>2. CASE Line10(s, 2,6, 5,9, 10,3, 4,7, 8,1)
  <2>1. ~BETWEEN(s[4], s[9], s[7]) /\ BETWEEN(s[5], s[9], s[3])
    BY <1>2, NodesAre DEF Line10, BETWEEN, Chosen, Node
  <2>2. w = <<3, 4, 5, 9, 10, 1, 6, 3, 2, 7, 8, 9>>
    BY <2>1 DEF Make5OptMove
  <2> HIDE DEF w
  <2>3. /\ w \in Seq(Nat) /\ Len(w) = 12 /\ Over(w, 13)
        /\ Swap(w, 1, 4, 3, 4, 5) /\ Swap(w, 4, 7, 9, 10, 1)
        /\ Swap(w, 7, 10, 6, 3, 2) /\ Swap(w, 10, 13, 7, 8, 9)
    BY <2>2 DEF Swap, Over
  <2>4. Links10(s, 2,6, 5,9, 10,3, 4,7, 8,1) = Out10(s)
    BY DEF Links10, Out10
  <2>5. Links10(s, 6,2, 3,10, 1,8, 9,5, 4,7) = In10(s)
    BY DEF Links10, In10
  <2>6. Works10(s, w, 13, 6,2, 3,10, 1,8, 9,5, 4,7)
    BY <2>3, <2>5, Exchange10, AtEnd10
  <2>7. Works10(s, w, 10, 8,1, 10,3, 2,6, 9,5, 4,7)
    BY <2>3, <2>6, Turn10_4
  <2>8. Works10(s, w, 7, 3,10, 1,8, 7,4, 5,9, 2,6)
    BY <2>3, <2>7, Rotate10_2, Turn10_5
  <2>9. Works10(s, w, 4, 10,3, 6,2, 1,8, 7,4, 5,9)
    BY <2>3, <2>8, Rotate10_1, Turn10_3
  <2>10. Works10(s, w, 1, 4,7, 8,1, 2,6, 5,9, 10,3)
    BY <2>3, <2>9, Rotate10_4, Turn10_4
  <2> QED
    BY <2>3, <1>2, <2>4, <2>10, Rotate10_3, Exchange10, Begin10 DEF Right, w
<1>3. CASE Line10(s, 2,9, 10,6, 5,3, 4,7, 8,1)
  <2>1. ~BETWEEN(s[4], s[9], s[7]) /\ ~BETWEEN(s[5], s[9], s[3])
    BY <1>3, NodesAre DEF Line10, BETWEEN, Chosen, Node
  <2>2. w = <<3, 4, 5, 1, 2, 3, 7, 8, 9, 7, 10, 1>>
    BY <2>1 DEF Make5OptMove
  <2> HIDE DEF w
  <2>3. /\ w \in Seq(Nat) /\ Len(w) = 12 /\ Over(w, 13)
        /\ Swap(w, 1, 4, 3, 4, 5) /\ Swap(w, 4, 7, 1, 2, 3)
        /\ Swap(w, 7, 10, 7, 8, 9) /\ Swap(w, 10, 13, 7, 10, 1)
    BY <2>2 DEF Swap, Over
  <2>4. Links10(s, 2,9, 10,6, 5,3, 4,7, 8,1) = Out10(s)
    BY DEF Links10, Out10
  <2>5. Links10(s, 6,10, 1,8, 9,2, 3,5, 4,7) = In10(s)
    BY DEF Links10, In10
  <2>6. Works10(s, w, 13, 6,10, 1,8, 9,2, 3,5, 4,7)
    BY <2>3, <2>5, Exchange10, AtEnd10
  <2>7. Works10(s, w, 10, 10,6, 1,8, 9,2, 3,5, 4,7)
    BY <2>3, <2>6, Turn10_2
  <2>8. Works10(s, w, 7, 8,1, 6,10, 9,2, 3,5, 4,7)
    BY <2>3, <2>7, Turn10_3
  <2>9. Works10(s, w, 4, 2,9, 10,6, 3,5, 4,7, 8,1)
    BY <2>3, <2>8, Rotate10_4, Turn10_3
  <2>10. Works10(s, w, 1, 4,7, 8,1, 2,9, 10,6, 5,3)
    BY <2>3, <2>9, Reverse10_3, Turn10_5
  <2> QED
    BY <2>3, <1>3, <2>4, <2>10, Rotate10_3, Exchange10, Begin10 DEF Right, w
<1> QED
  BY <1>1, <1>2, <1>3 DEF Orders10, Orders10_16

\* Make5OptMove, case 17.
LEMMA Move10_17 ==
    ASSUME NEW s, Chosen(s, 10), Orders10(s, 17)
    PROVE  Right(s, Make5OptMove(s, 17))
<1> DEFINE w == Make5OptMove(s, 17)
<1>1. CASE Line10(s, 2,6, 5,8, 7,9, 10,3, 4,1)
  <2>1. BETWEEN(s[7], s[9], s[3])
    BY <1>1, NodesAre DEF Line10, BETWEEN, Chosen, Node
  <2>2. w = <<3, 4, 5, 7, 8, 9, 2, 1, 10, 3, 6, 7>>
    BY <2>1 DEF Make5OptMove
  <2> HIDE DEF w
  <2>3. /\ w \in Seq(Nat) /\ Len(w) = 12 /\ Over(w, 13)
        /\ Swap(w, 1, 4, 3, 4, 5) /\ Swap(w, 4, 7, 7, 8, 9)
        /\ Swap(w, 7, 10, 2, 1, 10) /\ Swap(w, 10, 13, 3, 6, 7)
    BY <2>2 DEF Swap, Over
  <2>4. Links10(s, 2,6, 5,8, 7,9, 10,3, 4,1) = Out10(s)
    BY DEF Links10, Out10
  <2>5. Links10(s, 2,6, 7,9, 8,5, 4,1, 10,3) = In10(s)
    BY DEF Links10, In10
  <2>6. Works10(s, w, 13, 2,6, 7,9, 8,5, 4,1, 10,3)
    BY <2>3, <2>5, Exchange10, AtEnd10
  <2>7. Works10(s, w, 10, 6,2, 7,9, 8,5, 4,1, 10,3)
    BY <2>3, <2>6, Turn10_2
  <2>8. Works10(s, w, 7, 1,4, 5,8, 9,7, 10,3, 6,2)
    BY <2>3, <2>7, Rotate10_4, Turn10_4
  <2>9. Works10(s, w, 4, 8,5, 4,1, 2,6, 3,10, 9,7)
    BY <2>3, <2>8, Rotate10_2, Turn10_5
  <2>10. Works10(s, w, 1, 4,1, 2,6, 5,8, 7,9, 10,3)
    BY <2>3, <2>9, Reverse10_2, Turn10_3
  <2> QED
    BY <2>3, <1>1, <2>4, <2>10, Rotate10_4, Exchange10, Begin10 DEF Right, w
<1>2. CASE Line10(s, 2,9, 10,6, 5,8, 7,3, 4,1)
  <2>1. ~BETWEEN(s[7], s[9], s[3])
    BY <1>2, NodesAre DEF Line10, BETWEEN, Chosen, Node
  <2>2. w = <<7, 8, 9, 2, 1, 10, 3, 4, 5, 3, 6, 7>>
    BY <2>1 DEF Make5OptMove
  <2> HIDE DEF w
  <2>3. /\ w \in Seq(Nat) /\ Len(w) = 12 /\ Over(w, 13)
        /\ Swap(w, 1, 4, 7, 8, 9) /\ Swap(w, 4, 7, 2, 1, 10)
        /\ Swap(w, 7, 10, 3, 4, 5) /\ Swap(w, 10, 13, 3, 6, 7)
    BY <2>2 DEF Swap, Over
  <2>4. Links10(s, 2,9, 10,6, 5,8, 7,3, 4,1) = Out10(s)
    BY DEF Links10, Out10
  <2>5. Links10(s, 2,9, 8,5, 4,1, 10,6, 7,3) = In10(s)
    BY DEF Links10, In10
  <2>6. Works10(s, w, 13, 2,9, 8,5, 4,1, 10,6, 7,3)
    BY <2>3, <2>5, Exchange10, AtEnd10
  <2>7. Works10(s, w, 10, 6,10, 1,4, 5,8, 9,2, 7,3)
    BY <2>3, <2>6, Turn10_5
  <2>8. Works10(s, w, 7, 4,1, 10,6, 5,8, 9,2, 7,3)
    BY <2>3, <2>7, Turn10_3
  <2>9. Works10(s, w, 4, 1,4, 3,7, 10,6, 5,8, 9,2)
    BY <2>3, <2>8, Rotate10_1, Turn10_3
  <2>10. Works10(s, w, 1, 8,5, 6,10, 9,2, 1,4, 3,7)
    BY <2>3, <2>9, Rotate10_3, Turn10_3
  <2> QED
    BY <2>3, <1>2, <2>4, <2>10, Reverse10_2, Exchange10, Begin10 DEF Right, w
<1> QED
  BY <1>1, <1>2 DEF Orders10, Orders10_17

\* Make5OptMove, case 18.
LEMMA Move10_18 ==
    ASSUME NEW s, Chosen(s, 10), Orders10(s, 18)
    PROVE  Right(s, Make5OptMove(s, 18))
<1> DEFINE w == Make5OptMove(s, 18)
<1>1. /\ w \in Seq(Nat) /\ Len(w) = 12 /\ Over(w, 13)
      /\ Swap(w, 1, 4, 3, 4, 5) /\ Swap(w, 4, 7, 7, 8, 9)
      /\ Swap(w, 7, 10, 3, 6, 7) /\ Swap(w, 10, 13, 1, 2, 3)
  BY DEF Swap, Over, Make5OptMove
<1> HIDE DEF w
<1>2. Links10(s, 2,8, 7,9, 10,6, 5,3, 4,1) = Out10(s)
  BY DEF Links10, Out10
<1>3. Links10(s, 10,6, 7,9, 8,2, 3,5, 4,1) = In10(s)
  BY DEF Links10, In10
<1>4. Works10(s, w, 13, 10,6, 7,9, 8,2, 3,5, 4,1)
  BY <1>1, <1>3, Exchange10, AtEnd10
<1>5. Works10(s, w, 10, 2,8, 9,7, 6,10, 3,5, 4,1)
  BY <1>1, <1>4, Turn10_4
<1>6. Works10(s, w, 7, 6,10, 7,9, 8,2, 1,4, 5,3)
  BY <1>1, <1>5, Reverse10_2, Turn10_2
<1>7. Works10(s, w, 4, 8,2, 1,4, 5,3, 6,10, 9,7)
  BY <1>1, <1>6, Reverse10_4, Turn10_5
<1>8. Works10(s, w, 1, 4,1, 2,8, 7,9, 10,6, 5,3)
  BY <1>1, <1>7, Rotate10_2, Turn10_5
<1>9. Line10(s, 2,8, 7,9, 10,6, 5,3, 4,1)
  BY DEF Orders10, Orders10_18
<1> QED
  BY <1>1, <1>9, <1>2, <1>8, Rotate10_4, Exchange10, Begin10 DEF Right, w

\* Make5OptMove, case 19.
LEMMA Move10_19 ==
    ASSUME NEW s, Chosen(s, 10), Orders10(s, 19)
    PROVE  Right(s, Make5OptMove(s, 19))
<1> DEFINE w == Make5OptMove(s, 19)
<1>1. /\ w \in Seq(Nat) /\ Len(w) = 12 /\ Over(w, 13)
      /\ Swap(w, 1, 4, 7, 8, 9) /\ Swap(w, 4, 7, 1, 2, 3)
      /\ Swap(w, 7, 10, 6, 5, 4) /\ Swap(w, 10, 13, 7, 10, 1)
  BY DEF Swap, Over, Make5OptMove
<1> HIDE DEF w
<1>2. Links10(s, 2,9, 10,3, 4,6, 5,8, 7,1) = Out10(s)
  BY DEF Links10, Out10
<1>3. Links10(s, 6,4, 5,8, 9,2, 3,10, 1,7) = In10(s)
  BY DEF Links10, In10
<1>4. Works10(s, w, 13, 6,4, 5,8, 9,2, 3,10, 1,7)
  BY <1>1, <1>3, Exchange10, AtEnd10
<1>5. Works10(s, w, 10, 10,3, 2,9, 8,5, 4,6, 1,7)
  BY <1>1, <1>4, Turn10_5
<1>6. Works10(s, w, 7, 5,8, 9,2, 3,10, 7,1, 4,6)
  BY <1>1, <1>5, Rotate10_1, Turn10_5
<1>7. Works10(s, w, 4, 2,9, 8,5, 6,4, 3,10, 7,1)
  BY <1>1, <1>6, Rotate10_1, Turn10_4
<1>8. Works10(s, w, 1, 8,5, 6,4, 3,10, 9,2, 1,7)
  BY <1>1, <1>7, Reverse10_1, Turn10_4
<1>9. Line10(s, 2,9, 10,3, 4,6, 5,8, 7,1)
  BY DEF Orders10, Orders10_19
<1> QED
  BY <1>1, <1>9, <1>2, <1>8, Reverse10_1, Exchange10, Begin10 DEF Right, w

\* Make5OptMove, case 20.
LEMMA Move10_20 ==
    ASSUME NEW s, Chosen(s, 10), Orders10(s, 20)
    PROVE  Right(s, Make5OptMove(s, 20))
<1> DEFINE w == Make5OptMove(s, 20)
<1>1. /\ w \in Seq(Nat) /\ Len(w) = 12 /\ Over(w, 13)
      /\ Swap(w, 1, 4, 7, 8, 9) /\ Swap(w, 4, 7, 3, 4, 5)
      /\ Swap(w, 7, 10, 10, 7, 6) /\ Swap(w, 10, 13, 3, 10, 1)
  BY DEF Swap, Over, Make5OptMove
<1> HIDE DEF w
<1>2. Links10(s, 2,8, 7,3, 4,9, 10,5, 6,1) = Out10(s)
  BY DEF Links10, Out10
<1>3. Links10(s, 2,8, 9,4, 5,10, 1,6, 7,3) = In10(s)
  BY DEF Links10, In10
<1>4. Works10(s, w, 13, 2,8, 9,4, 5,10, 1,6, 7,3)
  BY <1>1, <1>3, Exchange10, AtEnd10
<1>5. Works10(s, w, 10, 10,5, 4,9, 8,2, 1,6, 7,3)
  BY <1>1, <1>4, Turn10_4
<1>6. Works10(s, w, 7, 7,3, 6,1, 2,8, 9,4, 5,10)
  BY <1>1, <1>5, Reverse10_0, Turn10_2
<1>7. Works10(s, w, 4, 4,9, 8,2, 1,6, 5,10, 7,3)
  BY <1>1, <1>6, Rotate10_4, Turn10_4
<1>8. Works10(s, w, 1, 8,2, 1,6, 5,10, 9,4, 3,7)
  BY <1>1, <1>7, Reverse10_1, Turn10_4
<1>9. Line10(s, 2,8, 7,3, 4,9, 10,5, 6,1)
  BY DEF Orders10, Orders10_20
<1> QED
  BY <1>1, <1>9, <1>2, <1>8, Reverse10_4, Exchange10, Begin10 DEF Right, w

\* Make5OptMove, case 21.
LEMMA Move10_21 ==
    ASSUME NEW s, Chosen(s, 10), Orders10(s, 21)
    PROVE  Right(s, Make5OptMove(s, 21))
<1> DEFINE w == Make5OptMove(s, 21)
<1>1. /\ w \in Seq(Nat) /\ Len(w) = 12 /\ Over(w, 13)
      /\ Swap(w, 1, 4, 5, 6, 7) /\ Swap(w, 4, 7, 5, 8, 9)
      /\ Swap(w, 7, 10, 1, 2, 3) /\ Swap(w, 10, 13, 4, 1, 10)
  BY DEF Swap, Over, Make5OptMove
<1> HIDE DEF w
<1>2. Links10(s, 2,9, 10,3, 4,8, 7,5, 6,1) = Out10(s)
  BY DEF Links10, Out10
<1>3. Links10(s, 5,7, 6,1, 10,3, 2,9, 8,4) = In10(s)
  BY DEF Links10, In10
<1>4. Works10(s, w, 13, 5,7, 6,1, 10,3, 2,9, 8,4)
  BY <1>1, <1>3, Exchange10, AtEnd10
<1>5. Works10(s, w, 10, 1,6, 7,5, 10,3, 2,9, 8,4)
  BY <1>1, <1>4, Turn10_3
<1>6. Works10(s, w, 7, 2,9, 8,4, 3,10, 5,7, 6,1)
  BY <1>1, <1>5, Reverse10_0, Turn10_3
<1>7. Works10(s, w, 4, 8,4, 3,10, 9,2, 1,6, 7,5)
  BY <1>1, <1>6, Reverse10_2, Turn10_3
<1>8. Works10(s, w, 1, 6,1, 2,9, 10,3, 4,8, 7,5)
  BY <1>1, <1>7, Turn10_5
<1>9. Line10(s, 2,9, 10,3, 4,8, 7,5, 6,1)
  BY DEF Orders10, Orders10_21
<1> QED
  BY <1>1, <1>9, <1>2, <1>8, Rotate10_4, Exchange10, Begin10 DEF Right, w

\* Make5OptMove, case 22.
LEMMA Move10_22 ==
    ASSUME NEW s, Chosen(s, 10), Orders10(s, 22)
    PROVE  Right(s, Make5OptMove(s, 22))
<1> DEFINE w == Make5OptMove(s, 22)
<1>1. /\ w \in Seq(Nat) /\ Len(w) = 12 /\ Over(w, 13)
      /\ Swap(w, 1, 4, 1, 2, 3) /\ Swap(w, 4, 7, 6, 5, 4)
      /\ Swap(w, 7, 10, 7, 8, 1) /\ Swap(w, 10, 13, 9, 10, 1)
  BY DEF Swap, Over, Make5OptMove
<1> HIDE DEF w
<1>2. CASE Line10(s, 2,5, 6,4, 3,8, 7,10, 9,1)
  <2>1. Links10(s, 2,5, 6,4, 3,8, 7,10, 9,1) = Out10(s)
    BY DEF Links10, Out10
  <2>2. Links10(s, 8,3, 2,5, 4,6, 7,10, 1,9) = In10(s)
    BY DEF Links10, In10
  <2>3. Works10(s, w, 13, 8,3, 2,5, 4,6, 7,10, 1,9)
    BY <1>1, <2>2, Exchange10, AtEnd10
  <2>4. Works10(s, w, 10, 10,7, 6,4, 5,2, 3,8, 1,9)
    BY <1>1, <2>3, Turn10_5
  <2>5. Works10(s, w, 7, 8,3, 2,5, 4,6, 1,9, 10,7)
    BY <1>1, <2>4, Rotate10_4, Turn10_4
  <2>6. Works10(s, w, 4, 5,2, 3,8, 7,10, 9,1, 4,6)
    BY <1>1, <2>5, Rotate10_2, Turn10_5
  <2>7. Works10(s, w, 1, 2,5, 6,4, 3,8, 7,10, 9,1)
    BY <1>1, <2>6, Rotate10_1, Turn10_3
  <2> QED
    BY <1>1, <1>2, <2>1, <2>7, Exchange10, Begin10 DEF Right, w
<1>3. CASE Line10(s, 2,5, 6,4, 3,9, 10,8, 7,1)
  <2>1. Links10(s, 2,5, 6,4, 3,9, 10,8, 7,1) = Out10(s)
    BY DEF Links10, Out10
  <2>2. Links10(s, 8,10, 1,7, 6,4, 5,2, 3,9) = In10(s)
    BY DEF Links10, In10
  <2>3. Works10(s, w, 13, 8,10, 1,7, 6,4, 5,2, 3,9)
    BY <1>1, <2>2, Exchange10, AtEnd10
  <2>4. Works10(s, w, 10, 10,8, 1,7, 6,4, 5,2, 3,9)
    BY <1>1, <2>3, Turn10_2
  <2>5. Works10(s, w, 7, 8,10, 9,3, 2,5, 4,6, 1,7)
    BY <1>1, <2>4, Rotate10_3, Turn10_5
  <2>6. Works10(s, w, 4, 5,2, 3,9, 10,8, 7,1, 4,6)
    BY <1>1, <2>5, Rotate10_1, Turn10_5
  <2>7. Works10(s, w, 1, 2,5, 6,4, 3,9, 10,8, 7,1)
    BY <1>1, <2>6, Rotate10_1, Turn10_3
  <2> QED
    BY <1>1, <1>3, <2>1, <2>7, Exchange10, Begin10 DEF Right, w
<1>4. CASE Line10(s, 2,5, 6,8, 7,4, 3,10, 9,1)
  <2>1. Links10(s, 2,5, 6,8, 7,4, 3,10, 9,1) = Out10(s)
    BY DEF Links10, Out10
  <2>2. Links10(s, 8,6, 7,4, 5,2, 3,10, 1,9) = In10(s)
    BY DEF Links10, In10
  <2>3. Works10(s, w, 13, 8,6, 7,4, 5,2, 3,10, 1,9)
    BY <1>1, <2>2, Exchange10, AtEnd10
  <2>4. Works10(s, w, 10, 10,3, 2,5, 4,7, 6,8, 1,9)
    BY <1>1, <2>3, Turn10_5
  <2>5. Works10(s, w, 7, 8,6, 1,9, 10,3, 2,5, 4,7)
    BY <1>1, <2>4, Rotate10_2, Turn10_2
  <2>6. Works10(s, w, 4, 5,2, 3,10, 9,1, 4,7, 8,6)
    BY <1>1, <2>5, Rotate10_4, Turn10_4
  <2>7. Works10(s, w, 1, 2,5, 6,8, 7,4, 3,10, 9,1)
    BY <1>1, <2>6, Rotate10_2, Turn10_4
  <2> QED
    BY <1>1, <1>4, <2>1, <2>7, Exchange10, Begin10 DEF Right, w
<1>5. CASE Line10(s, 2,5, 6,8, 7,10, 9,4, 3,1)
  <2>1. Links10(s, 2,5, 6,8, 7,10, 9,4, 3,1) = Out10(s)
    BY DEF Links10, Out10
  <2>2. Links10(s, 8,6, 7,10, 1,3, 2,5, 4,9) = In10(s)
    BY DEF Links10, In10
  <2>3. Works10(s, w, 13, 8,6, 7,10, 1,3, 2,5, 4,9)
    BY <1>1, <2>2, Exchange10, AtEnd10
  <2>4. Works10(s, w, 10, 10,7, 6,8, 1,3, 2,5, 4,9)
    BY <1>1, <2>3, Turn10_3
  <2>5. Works10(s, w, 7, 8,6, 1,3, 2,5, 4,9, 10,7)
    BY <1>1, <2>4, Rotate10_4, Turn10_2
  <2>6. Works10(s, w, 4, 5,2, 3,1, 4,9, 10,7, 8,6)
    BY <1>1, <2>5, Rotate10_4, Turn10_3
  <2>7. Works10(s, w, 1, 2,5, 6,8, 7,10, 9,4, 3,1)
    BY <1>1, <2>6, Rotate10_3, Turn10_5
  <2> QED
    BY <1>1, <1>5, <2>1, <2>7, Exchange10, Begin10 DEF Right, w
<1>6. CASE Line10(s, 2,5, 6,9, 10,4, 3,8, 7,1)
  <2>1. Links10(s, 2,5, 6,9, 10,4, 3,8, 7,1) = Out10(s)
    BY DEF Links10, Out10
  <2>2. Links10(s, 8,3, 2,5, 4,10, 1,7, 6,9) = In10(s)
    BY DEF Links10, In10
  <2>3. Works10(s, w, 13, 8,3, 2,5, 4,10, 1,7, 6,9)
    BY <1>1, <2>2, Exchange10, AtEnd10
  <2>4. Works10(s, w, 10, 10,4, 5,2, 3,8, 1,7, 6,9)
    BY <1>1, <2>3, Turn10_4
  <2>5. Works10(s, w, 7, 8,3, 2,5, 4,10, 9,6, 1,7)
    BY <1>1, <2>4, Rotate10_1, Turn10_5
  <2>6. Works10(s, w, 4, 5,2, 3,8, 7,1, 4,10, 9,6)
    BY <1>1, <2>5, Rotate10_1, Turn10_4
  <2>7. Works10(s, w, 1, 2,5, 6,9, 10,4, 3,8, 7,1)
    BY <1>1, <2>6, Rotate10_2, Turn10_4
  <2> QED
    BY <1>1, <1>6, <2>1, <2>7, Exchange10, Begin10 DEF Right, w
<1>7. CASE Line10(s, 2,5, 6,9, 10,8, 7,4, 3,1)
  <2>1. Links10(s, 2,5, 6,9, 10,8, 7,4, 3,1) = Out10(s)
    BY DEF Links10, Out10
  <2>2. Links10(s, 8,10, 1,3, 2,5, 4,7, 6,9) = In10(s)
    BY DEF Links10, In10
  <2>3. Works10(s, w, 13, 8,10, 1,3, 2,5, 4,7, 6,9)
    BY <1>1, <2>2, Exchange10, AtEnd10
  <2>4. Works10(s, w, 10, 10,8, 1,3, 2,5, 4,7, 6,9)
    BY <1>1, <2>3, Turn10_2
  <2>5. Works10(s, w, 7, 8,10, 9,6, 1,3, 2,5, 4,7)
    BY <1>1, <2>4, Rotate10_1, Turn10_3
  <2>6. Works10(s, w, 4, 5,2, 3,1, 4,7, 8,10, 9,6)
    BY <1>1, <2>5, Rotate10_3, Turn10_3
  <2>7. Works10(s, w, 1, 2,5, 6,9, 10,8, 7,4, 3,1)
    BY <1>1, <2>6, Rotate10_3, Turn10_5
  <2> QED
    BY <1>1, <1>7, <2>1, <2>7, Exchange10, Begin10 DEF Right, w
<1>8. CASE Line10(s, 2,7, 8,5, 6,4, 3,10, 9,1)
  <2>1. Links10(s, 2,7, 8,5, 6,4, 3,10, 9,1) = Out10(s)
    BY DEF Links10, Out10
  <2>2. Links10(s, 8,5, 4,6, 7,2, 3,10, 1,9) = In10(s)
    BY DEF Links10, In10
  <2>3. Works10(s, w, 13, 8,5, 4,6, 7,2, 3,10, 1,9)
    BY <1>1, <2>2, Exchange10, AtEnd10
  <2>4. Works10(s, w, 10, 10,3, 2,7, 6,4, 5,8, 1,9)
    BY <1>1, <2>3, Turn10_5
  <2>5. Works10(s, w, 7, 8,5, 4,6, 1,9, 10,3, 2,7)
    BY <1>1, <2>4, Rotate10_3, Turn10_3
  <2>6. Works10(s, w, 4, 5,8, 7,2, 3,10, 9,1, 4,6)
    BY <1>1, <2>5, Rotate10_3, Turn10_5
  <2>7. Works10(s, w, 1, 2,7, 8,5, 6,4, 3,10, 9,1)
    BY <1>1, <2>6, Rotate10_1, Turn10_4
  <2> QED
    BY <1>1, <1>8, <2>1, <2>7, Exchange10, Begin10 DEF Right, w
<1>9. CASE Line10(s, 2,7, 8,5, 6,9, 10,4, 3,1)
  <2>1. Links10(s, 2,7, 8,5, 6,9, 10,4, 3,1) = Out10(s)
    BY DEF Links10, Out10
  <2>2. Links10(s, 8,5, 4,10, 1,3, 2,7, 6,9) = In10(s)
    BY DEF Links10, In10
  <2>3. Works10(s, w, 13, 8,5, 4,10, 1,3, 2,7, 6,9)
    BY <1>1, <2>2, Exchange10, AtEnd10
  <2>4. Works10(s, w, 10, 10,4, 5,8, 1,3, 2,7, 6,9)
    BY <1>1, <2>3, Turn10_3
  <2>5. Works10(s, w, 7, 8,5, 4,10, 9,6, 1,3, 2,7)
    BY <1>1, <2>4, Rotate10_1, Turn10_4
  <2>6. Works10(s, w, 4, 5,8, 7,2, 3,1, 4,10, 9,6)
    BY <1>1, <2>5, Rotate10_2, Turn10_4
  <2>7. Works10(s, w, 1, 2,7, 8,5, 6,9, 10,4, 3,1)
    BY <1>1, <2>6, Rotate10_2, Turn10_5
  <2> QED
    BY <1>1, <1>9, <2>1, <2>7, Exchange10, Begin10 DEF Right, w
<1>10. CASE Line10(s, 2,7, 8,10, 9,5, 6,4, 3,1)
  <2>1. Links10(s, 2,7, 8,10, 9,5, 6,4, 3,1) = Out10(s)
    BY DEF Links10, Out10
  <2>2. Links10(s, 8,10, 1,3, 2,7, 6,4, 5,9) = In10(s)
    BY DEF Links10, In10
  <2>3. Works10(s, w, 13, 8,10, 1,3, 2,7, 6,4, 5,9)
    BY <1>1, <2>2, Exchange10, AtEnd10
  <2>4. Works10(s, w, 10, 10,8, 1,3, 2,7, 6,4, 5,9)
    BY <1>1, <2>3, Turn10_2
  <2>5. Works10(s, w, 7, 8,10, 9,5, 4,6, 1,3, 2,7)
    BY <1>1, <2>4, Rotate10_2, Turn10_4
  <2>6. Works10(s, w, 4, 5,9, 10,8, 7,2, 3,1, 4,6)
    BY <1>1, <2>5, Rotate10_2, Turn10_5
  <2>7. Works10(s, w, 1, 2,7, 8,10, 9,5, 6,4, 3,1)
    BY <1>1, <2>6, Rotate10_1, Turn10_5
  <2> QED
    BY <1>1, <1>10, <2>1, <2>7, Exchange10, Begin10 DEF Right, w
<1>11. CASE Line10(s, 2,9, 10,5, 6,8, 7,4, 3,1)
  <2>1. Links10(s, 2,9, 10,5, 6,8, 7,4, 3,1) = Out10(s)
    BY DEF Links10, Out10
  <2>2. Links10(s, 8,6, 7,4, 5,10, 1,3, 2,9) = In10(s)
    BY DEF Links10, In10
  <2>3. Works10(s, w, 13, 8,6, 7,4, 5,10, 1,3, 2,9)
    BY <1>1, <2>2, Exchange10, AtEnd10
  <2>4. Works10(s, w, 10, 10,5, 4,7, 6,8, 1,3, 2,9)
    BY <1>1, <2>3, Turn10_4
  <2>5. Works10(s, w, 7, 8,6, 1,3, 2,9, 10,5, 4,7)
    BY <1>1, <2>4, Rotate10_3, Turn10_2
  <2>6. Works10(s, w, 4, 5,10, 9,2, 3,1, 4,7, 8,6)
    BY <1>1, <2>5, Rotate10_4, Turn10_4
  <2>7. Works10(s, w, 1, 2,9, 10,5, 6,8, 7,4, 3,1)
    BY <1>1, <2>6, Rotate10_2, Turn10_5
  <2> QED
    BY <1>1, <1>11, <2>1, <2>7, Exchange10, Begin10 DEF Right, w
<1>12. CASE Line10(s, 2,9, 10,7, 8,5, 6,4, 3,1)
  <2>1. Links10(s, 2,9, 10,7, 8,5, 6,4, 3,1) = Out10(s)
    BY DEF Links10, Out10
  <2>2. Links10(s, 8,5, 4,6, 7,10, 1,3, 2,9) = In10(s)
    BY DEF Links10, In10
  <2>3. Works10(s, w, 13, 8,5, 4,6, 7,10, 1,3, 2,9)
    BY <1>1, <2>2, Exchange10, AtEnd10
  <2>4. Works10(s, w, 10, 10,7, 6,4, 5,8, 1,3, 2,9)
    BY <1>1, <2>3, Turn10_4
  <2>5. Works10(s, w, 7, 8,5, 4,6, 1,3, 2,9, 10,7)
    BY <1>1, <2>4, Rotate10_4, Turn10_3
  <2>6. Works10(s, w, 4, 5,8, 7,10, 9,2, 3,1, 4,6)
    BY <1>1, <2>5, Rotate10_3, Turn10_5
  <2>7. Works10(s, w, 1, 2,9, 10,7, 8,5, 6,4, 3,1)
    BY <1>1, <2>6, Rotate10_1, Turn10_5
  <2> QED
    BY <1>1, <1>12, <2>1, <2>7, Exchange10, Begin10 DEF Right, w
<1>13. CASE Line10(s, 2,10, 9,5, 6,4, 3,8, 7,1)
  <2>1. Links10(s, 2,10, 9,5, 6,4, 3,8, 7,1) = Out10(s)
    BY DEF Links10, Out10
  <2>2. Links10(s, 8,3, 2,10, 1,7, 6,4, 5,9) = In10(s)
    BY DEF Links10, In10
  <2>3. Works10(s, w, 13, 8,3, 2,10, 1,7, 6,4, 5,9)
    BY <1>1, <2>2, Exchange10, AtEnd10
  <2>4. Works10(s, w, 10, 10,2, 3,8, 1,7, 6,4, 5,9)
    BY <1>1, <2>3, Turn10_3
  <2>5. Works10(s, w, 7, 8,3, 2,10, 9,5, 4,6, 1,7)
    BY <1>1, <2>4, Rotate10_2, Turn10_5
  <2>6. Works10(s, w, 4, 5,9, 10,2, 3,8, 7,1, 4,6)
    BY <1>1, <2>5, Rotate10_1, Turn10_5
  <2>7. Works10(s, w, 1, 2,10, 9,5, 6,4, 3,8, 7,1)
    BY <1>1, <2>6, Rotate10_1, Turn10_4
  <2> QED
    BY <1>1, <1>13, <2>1, <2>7, Exchange10, Begin10 DEF Right, w
<1> QED
  BY <1>2, <1>3, <1>4, <1>5, <1>6, <1>7, <1>8, <1>9, <1>10, <1>11, <1>12, <1>13
     DEF Orders10, Orders10_22

\* Make5OptMove, case 23.
LEMMA Move10_23 ==
    ASSUME NEW s, Chosen(s, 10), Orders10(s, 23)
    PROVE  Right(s, Make5OptMove(s, 23))
<1> DEFINE w == Make5OptMove(s, 23)
<1>1. /\ w \in Seq(Nat) /\ Len(w) = 12 /\ Over(w, 13)
      /\ Swap(w, 1, 4, 1, 2, 3) /\ Swap(w, 4, 7, 6, 5, 4)
      /\ Swap(w, 7, 10, 7, 8, 1) /\ Swap(w, 10, 13, 9, 10, 1)
  BY DEF Swap, Over, Make5OptMove
<1> HIDE DEF w
<1>2. CASE Line10(s, 2,4, 3,6, 5,8, 7,10, 9,1)
  <2>1. Links10(s, 2,4, 3,6, 5,8, 7,10, 9,1) = Out10(s)
    BY DEF Links10, Out10
  <2>2. Links10(s, 8,5, 4,2, 3,6, 7,10, 1,9) = In10(s)
    BY DEF Links10, In10
  <2>3. Works10(s, w, 13, 8,5, 4,2, 3,6, 7,10, 1,9)
    BY <1>1, <2>2, Exchange10, AtEnd10
  <2>4. Works10(s, w, 10, 10,7, 6,3, 2,4, 5,8, 1,9)
    BY <1>1, <2>3, Turn10_5
  <2>5. Works10(s, w, 7, 8,5, 4,2, 3,6, 1,9, 10,7)
    BY <1>1, <2>4, Rotate10_4, Turn10_4
  <2>6. Works10(s, w, 4, 5,8, 7,10, 9,1, 4,2, 3,6)
    BY <1>1, <2>5, Rotate10_2, Turn10_4
  <2>7. Works10(s, w, 1, 2,4, 3,6, 5,8, 7,10, 9,1)
    BY <1>1, <2>6, Rotate10_2, Turn10_2
  <2> QED
    BY <1>1, <1>2, <2>1, <2>7, Exchange10, Begin10 DEF Right, w
<1>3. CASE Line10(s, 2,4, 3,6, 5,9, 10,8, 7,1)
  <2>1. Links10(s, 2,4, 3,6, 5,9, 10,8, 7,1) = Out10(s)
    BY DEF Links10, Out10
  <2>2. Links10(s, 8,10, 1,7, 6,3, 2,4, 5,9) = In10(s)
    BY DEF Links10, In10
  <2>3. Works10(s, w, 13, 8,10, 1,7, 6,3, 2,4, 5,9)
    BY <1>1, <2>2, Exchange10, AtEnd10
  <2>4. Works10(s, w, 10, 10,8, 1,7, 6,3, 2,4, 5,9)
    BY <1>1, <2>3, Turn10_2
  <2>5. Works10(s, w, 7, 8,10, 9,5, 4,2, 3,6, 1,7)
    BY <1>1, <2>4, Rotate10_3, Turn10_5
  <2>6. Works10(s, w, 4, 5,9, 10,8, 7,1, 4,2, 3,6)
    BY <1>1, <2>5, Rotate10_1, Turn10_4
  <2>7. Works10(s, w, 1, 2,4, 3,6, 5,9, 10,8, 7,1)
    BY <1>1, <2>6, Rotate10_2, Turn10_2
  <2> QED
    BY <1>1, <1>3, <2>1, <2>7, Exchange10, Begin10 DEF Right, w
<1>4. CASE Line10(s, 2,4, 3,7, 8,6, 5,10, 9,1)
  <2>1. Links10(s, 2,4, 3,7, 8,6, 5,10, 9,1) = Out10(s)
    BY DEF Links10, Out10
  <2>2. Links10(s, 8,6, 7,3, 2,4, 5,10, 1,9) = In10(s)
    BY DEF Links10, In10
  <2>3. Works10(s, w, 13, 8,6, 7,3, 2,4, 5,10, 1,9)
    BY <1>1, <2>2, Exchange10, AtEnd10
  <2>4. Works10(s, w, 10, 10,5, 4,2, 3,7, 6,8, 1,9)
    BY <1>1, <2>3, Turn10_5
  <2>5. Works10(s, w, 7, 8,6, 1,9, 10,5, 4,2, 3,7)
    BY <1>1, <2>4, Rotate10_2, Turn10_2
  <2>6. Works10(s, w, 4, 5,10, 9,1, 4,2, 3,7, 8,6)
    BY <1>1, <2>5, Rotate10_4, Turn10_3
  <2>7. Works10(s, w, 1, 2,4, 3,7, 8,6, 5,10, 9,1)
    BY <1>1, <2>6, Rotate10_3, Turn10_2
  <2> QED
    BY <1>1, <1>4, <2>1, <2>7, Exchange10, Begin10 DEF Right, w
<1>5. CASE Line10(s, 2,4, 3,7, 8,10, 9,6, 5,1)
  <2>1. Links10(s, 2,4, 3,7, 8,10, 9,6, 5,1) = Out10(s)
    BY DEF Links10, Out10
  <2>2. Links10(s, 8,10, 1,5, 4,2, 3,7, 6,9) = In10(s)
    BY DEF Links10, In10
  <2>3. Works10(s, w, 13, 8,10, 1,5, 4,2, 3,7, 6,9)
    BY <1>1, <2>2, Exchange10, AtEnd10
  <2>4. Works10(s, w, 10, 10,8, 1,5, 4,2, 3,7, 6,9)
    BY <1>1, <2>3, Turn10_2
  <2>5. Works10(s, w, 7, 8,10, 9,6, 1,5, 4,2, 3,7)
    BY <1>1, <2>4, Rotate10_1, Turn10_3
  <2>6. Works10(s, w, 4, 5,1, 4,2, 3,7, 8,10, 9,6)
    BY <1>1, <2>5, Rotate10_3, Turn10_2
  <2>7. Works10(s, w, 1, 2,4, 3,7, 8,10, 9,6, 5,1)
    BY <1>1, <2>6, Rotate10_4, Turn10_2
  <2> QED
    BY <1>1, <1>5, <2>1, <2>7, Exchange10, Begin10 DEF Right, w
<1>6. CASE Line10(s, 2,4, 3,9, 10,7, 8,6, 5,1)
  <2>1. Links10(s, 2,4, 3,9, 10,7, 8,6, 5,1) = Out10(s)
    BY DEF Links10, Out10
  <2>2. Links10(s, 8,6, 7,10, 1,5, 4,2, 3,9) = In10(s)
    BY DEF Links10, In10
  <2>3. Works10(s, w, 13, 8,6, 7,10, 1,5, 4,2, 3,9)
    BY <1>1, <2>2, Exchange10, AtEnd10
  <2>4. Works10(s, w, 10, 10,7, 6,8, 1,5, 4,2, 3,9)
    BY <1>1, <2>3, Turn10_3
  <2>5. Works10(s, w, 7, 8,6, 1,5, 4,2, 3,9, 10,7)
    BY <1>1, <2>4, Rotate10_4, Turn10_2
  <2>6. Works10(s, w, 4, 5,1, 4,2, 3,9, 10,7, 8,6)
    BY <1>1, <2>5, Rotate10_4, Turn10_2
  <2>7. Works10(s, w, 1, 2,4, 3,9, 10,7, 8,6, 5,1)
    BY <1>1, <2>6, Rotate10_4, Turn10_2
  <2> QED
    BY <1>1, <1>6, <2>1, <2>7, Exchange10, Begin10 DEF Right, w
<1>7. CASE Line10(s, 2,4, 3,10, 9,6, 5,8, 7,1)
  <2>1. Links10(s, 2,4, 3,10, 9,6, 5,8, 7,1) = Out10(s)
    BY DEF Links10, Out10
  <2>2. Links10(s, 8,5, 4,2, 3,10, 1,7, 6,9) = In10(s)
    BY DEF Links10, In10
  <2>3. Works10(s, w, 13, 8,5, 4,2, 3,10, 1,7, 6,9)
    BY <1>1, <2>2, Exchange10, AtEnd10
  <2>4. Works10(s, w, 10, 10,3, 2,4, 5,8, 1,7, 6,9)
    BY <1>1, <2>3, Turn10_4
  <2>5. Works10(s, w, 7, 8,5, 4,2, 3,10, 9,6, 1,7)
    BY <1>1, <2>4, Rotate10_1, Turn10_5
  <2>6. Works10(s, w, 4, 5,8, 7,1, 4,2, 3,10, 9,6)
    BY <1>1, <2>5, Rotate10_1, Turn10_3
  <2>7. Works10(s, w, 1, 2,4, 3,10, 9,6, 5,8, 7,1)
    BY <1>1, <2>6, Rotate10_3, Turn10_2
  <2> QED
    BY <1>1, <1>7, <2>1, <2>7, Exchange10, Begin10 DEF Right, w
<1>8. CASE Line10(s, 2,8, 7,4, 3,6, 5,10, 9,1)
  <2>1. Links10(s, 2,8, 7,4, 3,6, 5,10, 9,1) = Out10(s)
    BY DEF Links10, Out10
  <2>2. Links10(s, 8,2, 3,6, 7,4, 5,10, 1,9) = In10(s)
    BY DEF Links10, In10
  <2>3. Works10(s, w, 13, 8,2, 3,6, 7,4, 5,10, 1,9)
    BY <1>1, <2>2, Exchange10, AtEnd10
  <2>4. Works10(s, w, 10, 10,5, 4,7, 6,3, 2,8, 1,9)
    BY <1>1, <2>3, Turn10_5
  <2>5. Works10(s, w, 7, 8,2, 3,6, 1,9, 10,5, 4,7)
    BY <1>1, <2>4, Rotate10_3, Turn10_3
  <2>6. Works10(s, w, 4, 5,10, 9,1, 4,7, 8,2, 3,6)
    BY <1>1, <2>5, Rotate10_3, Turn10_3
  <2>7. Works10(s, w, 1, 2,8, 7,4, 3,6, 5,10, 9,1)
    BY <1>1, <2>6, Rotate10_3, Turn10_3
  <2> QED
    BY <1>1, <1>8, <2>1, <2>7, Exchange10, Begin10 DEF Right, w
<1>9. CASE Line10(s, 2,8, 7,4, 3,10, 9,6, 5,1)
  <2>1. Links10(s, 2,8, 7,4, 3,10, 9,6, 5,1) = Out10(s)
    BY DEF Links10, Out10
  <2>2. Links10(s, 8,2, 3,10, 1,5, 4,7, 6,9) = In10(s)
    BY DEF Links10, In10
  <2>3. Works10(s, w, 13, 8,2, 3,10, 1,5, 4,7, 6,9)
    BY <1>1, <2>2, Exchange10, AtEnd10
  <2>4. Works10(s, w, 10, 10,3, 2,8, 1,5, 4,7, 6,9)
    BY <1>1, <2>3, Turn10_3
  <2>5. Works10(s, w, 7, 8,2, 3,10, 9,6, 1,5, 4,7)
    BY <1>1, <2>4, Rotate10_1, Turn10_4
  <2>6. Works10(s, w, 4, 5,1, 4,7, 8,2, 3,10, 9,6)
    BY <1>1, <2>5, Rotate10_2, Turn10_2
  <2>7. Works10(s, w, 1, 2,8, 7,4, 3,10, 9,6, 5,1)
    BY <1>1, <2>6, Rotate10_4, Turn10_3
  <2> QED
    BY <1>1, <1>9, <2>1, <2>7, Exchange10, Begin10 DEF Right, w
<1>10. CASE Line10(s, 2,8, 7,10, 9,4, 3,6, 5,1)
  <2>1. Links10(s, 2,8, 7,10, 9,4, 3,6, 5,1) = Out10(s)
    BY DEF Links10, Out10
  <2>2. Links10(s, 8,2, 3,6, 7,10, 1,5, 4,9) = In10(s)
    BY DEF Links10, In10
  <2>3. Works10(s, w, 13, 8,2, 3,6, 7,10, 1,5, 4,9)
    BY <1>1, <2>2, Exchange10, AtEnd10
  <2>4. Works10(s, w, 10, 10,7, 6,3, 2,8, 1,5, 4,9)
    BY <1>1, <2>3, Turn10_4
  <2>5. Works10(s, w, 7, 8,2, 3,6, 1,5, 4,9, 10,7)
    BY <1>1, <2>4, Rotate10_4, Turn10_3
  <2>6. Works10(s, w, 4, 5,1, 4,9, 10,7, 8,2, 3,6)
    BY <1>1, <2>5, Rotate10_3, Turn10_2
  <2>7. Works10(s, w, 1, 2,8, 7,10, 9,4, 3,6, 5,1)
    BY <1>1, <2>6, Rotate10_4, Turn10_4
  <2> QED
    BY <1>1, <1>10, <2>1, <2>7, Exchange10, Begin10 DEF Right, w
<1>11. CASE Line10(s, 2,9, 10,4, 3,6, 5,8, 7,1)
  <2>1. Links10(s, 2,9, 10,4, 3,6, 5,8, 7,1) = Out10(s)
    BY DEF Links10, Out10
  <2>2. Links10(s, 8,5, 4,10, 1,7, 6,3, 2,9) = In10(s)
    BY DEF Links10, In10
  <2>3. Works10(s, w, 13, 8,5, 4,10, 1,7, 6,3, 2,9)
    BY <1>1, <2>2, Exchange10, AtEnd10
  <2>4. Works10(s, w, 10, 10,4, 5,8, 1,7, 6,3, 2,9)
    BY <1>1, <2>3, Turn10_3
  <2>5. Works10(s, w, 7, 8,5, 4,10, 9,2, 3,6, 1,7)
    BY <1>1, <2>4, Rotate10_2, Turn10_5
  <2>6. Works10(s, w, 4, 5,8, 7,1, 4,10, 9,2, 3,6)
    BY <1>1, <2>5, Rotate10_1, Turn10_3
  <2>7. Works10(s, w, 1, 2,9, 10,4, 3,6, 5,8, 7,1)
    BY <1>1, <2>6, Rotate10_3, Turn10_3
  <2> QED
    BY <1>1, <1>11, <2>1, <2>7, Exchange10, Begin10 DEF Right, w
<1>12. CASE Line10(s, 2,9, 10,8, 7,4, 3,6, 5,1)
  <2>1. Links10(s, 2,9, 10,8, 7,4, 3,6, 5,1) = Out10(s)
    BY DEF Links10, Out10
  <2>2. Links10(s, 8,10, 1,5, 4,7, 6,3, 2,9) = In10(s)
    BY DEF Links10, In10
  <2>3. Works10(s, w, 13, 8,10, 1,5, 4,7, 6,3, 2,9)
    BY <1>1, <2>2, Exchange10, AtEnd10
  <2>4. Works10(s, w, 10, 10,8, 1,5, 4,7, 6,3, 2,9)
    BY <1>1, <2>3, Turn10_2
  <2>5. Works10(s, w, 7, 8,10, 9,2, 3,6, 1,5, 4,7)
    BY <1>1, <2>4, Rotate10_2, Turn10_4
  <2>6. Works10(s, w, 4, 5,1, 4,7, 8,10, 9,2, 3,6)
    BY <1>1, <2>5, Rotate10_2, Turn10_2
  <2>7. Works10(s, w, 1, 2,9, 10,8, 7,4, 3,6, 5,1)
    BY <1>1, <2>6, Rotate10_4, Turn10_4
  <2> QED
    BY <1>1, <1>12, <2>1, <2>7, Exchange10, Begin10 DEF Right, w
<1>13. CASE Line10(s, 2,10, 9,4, 3,7, 8,6, 5,1)
  <2>1. Links10(s, 2,10, 9,4, 3,7, 8,6, 5,1) = Out10(s)
    BY DEF Links10, Out10
  <2>2. Links10(s, 8,6, 7,3, 2,10, 1,5, 4,9) = In10(s)
    BY DEF Links10, In10
  <2>3. Works10(s, w, 13, 8,6, 7,3, 2,10, 1,5, 4,9)
    BY <1>1, <2>2, Exchange10, AtEnd10
  <2>4. Works10(s, w, 10, 10,2, 3,7, 6,8, 1,5, 4,9)
    BY <1>1, <2>3, Turn10_4
  <2>5. Works10(s, w, 7, 8,6, 1,5, 4,9, 10,2, 3,7)
    BY <1>1, <2>4, Rotate10_3, Turn10_2
  <2>6. Works10(s, w, 4, 5,1, 4,9, 10,2, 3,7, 8,6)
    BY <1>1, <2>5, Rotate10_4, Turn10_2
  <2>7. Works10(s, w, 1, 2,10, 9,4, 3,7, 8,6, 5,1)
    BY <1>1, <2>6, Rotate10_4, Turn10_3
  <2> QED
    BY <1>1, <1>13, <2>1, <2>7, Exchange10, Begin10 DEF Right, w
<1> QED
  BY <1>2, <1>3, <1>4, <1>5, <1>6, <1>7, <1>8, <1>9, <1>10, <1>11, <1>12, <1>13
     DEF Orders10, Orders10_23

\* Make5OptMove, case 24.
LEMMA Move10_24 ==
    ASSUME NEW s, Chosen(s, 10), Orders10(s, 24)
    PROVE  Right(s, Make5OptMove(s, 24))
<1> DEFINE w == Make5OptMove(s, 24)
<1>1. /\ w \in Seq(Nat) /\ Len(w) = 12 /\ Over(w, 13)
      /\ Swap(w, 1, 4, 1, 2, 3) /\ Swap(w, 4, 7, 8, 7, 6)
      /\ Swap(w, 7, 10, 5, 8, 1) /\ Swap(w, 10, 13, 9, 10, 1)
  BY DEF Swap, Over, Make5OptMove
<1> HIDE DEF w
<1>2. CASE Line10(s, 2,6, 5,7, 8,4, 3,10, 9,1)
  <2>1. Links10(s, 2,6, 5,7, 8,4, 3,10, 9,1) = Out10(s)
    BY DEF Links10, Out10
  <2>2. Links10(s, 8,4, 5,7, 6,2, 3,10, 1,9) = In10(s)
    BY DEF Links10, In10
  <2>3. Works10(s, w, 13, 8,4, 5,7, 6,2, 3,10, 1,9)
    BY <1>1, <2>2, Exchange10, AtEnd10
  <2>4. Works10(s, w, 10, 10,3, 2,6, 7,5, 4,8, 1,9)
    BY <1>1, <2>3, Turn10_5
  <2>5. Works10(s, w, 7, 8,4, 1,9, 10,3, 2,6, 7,5)
    BY <1>1, <2>4, Rotate10_2, Turn10_2
  <2>6. Works10(s, w, 4, 7,5, 6,2, 3,10, 9,1, 4,8)
    BY <1>1, <2>5, Reverse10_0, Turn10_2
  <2>7. Works10(s, w, 1, 2,6, 5,7, 8,4, 3,10, 9,1)
    BY <1>1, <2>6, Rotate10_1, Turn10_4
  <2> QED
    BY <1>1, <1>2, <2>1, <2>7, Exchange10, Begin10 DEF Right, w
<1>3. CASE Line10(s, 2,6, 5,7, 8,10, 9,4, 3,1)
  <2>1. Links10(s, 2,6, 5,7, 8,10, 9,4, 3,1) = Out10(s)
    BY DEF Links10, Out10
  <2>2. Links10(s, 8,10, 1,3, 2,6, 7,5, 4,9) = In10(s)
    BY DEF Links10, In10
  <2>3. Works10(s, w, 13, 8,10, 1,3, 2,6, 7,5, 4,9)
    BY <1>1, <2>2, Exchange10, AtEnd10
  <2>4. Works10(s, w, 10, 10,8, 1,3, 2,6, 7,5, 4,9)
    BY <1>1, <2>3, Turn10_2
  <2>5. Works10(s, w, 7, 8,10, 9,4, 1,3, 2,6, 7,5)
    BY <1>1, <2>4, Rotate10_1, Turn10_3
  <2>6. Works10(s, w, 4, 7,5, 6,2, 3,1, 4,9, 10,8)
    BY <1>1, <2>5, Reverse10_0, Turn10_2
  <2>7. Works10(s, w, 1, 2,6, 5,7, 8,10, 9,4, 3,1)
    BY <1>1, <2>6, Rotate10_2, Turn10_5
  <2> QED
    BY <1>1, <1>3, <2>1, <2>7, Exchange10, Begin10 DEF Right, w
<1>4. CASE Line10(s, 2,6, 5,10, 9,7, 8,4, 3,1)
  <2>1. Links10(s, 2,6, 5,10, 9,7, 8,4, 3,1) = Out10(s)
    BY DEF Links10, Out10
  <2>2. Links10(s, 8,4, 5,10, 1,3, 2,6, 7,9) = In10(s)
    BY DEF Links10, In10
  <2>3. Works10(s, w, 13, 8,4, 5,10, 1,3, 2,6, 7,9)
    BY <1>1, <2>2, Exchange10, AtEnd10
  <2>4. Works10(s, w, 10, 10,5, 4,8, 1,3, 2,6, 7,9)
    BY <1>1, <2>3, Turn10_3
  <2>5. Works10(s, w, 7, 8,4, 1,3, 2,6, 7,9, 10,5)
    BY <1>1, <2>4, Rotate10_4, Turn10_2
  <2>6. Works10(s, w, 4, 7,9, 10,5, 6,2, 3,1, 4,8)
    BY <1>1, <2>5, Reverse10_0, Turn10_3
  <2>7. Works10(s, w, 1, 2,6, 5,10, 9,7, 8,4, 3,1)
    BY <1>1, <2>6, Rotate10_1, Turn10_5
  <2> QED
    BY <1>1, <1>4, <2>1, <2>7, Exchange10, Begin10 DEF Right, w
<1>5. CASE Line10(s, 2,9, 10,6, 5,7, 8,4, 3,1)
  <2>1. Links10(s, 2,9, 10,6, 5,7, 8,4, 3,1) = Out10(s)
    BY DEF Links10, Out10
  <2>2. Links10(s, 8,4, 5,7, 6,10, 1,3, 2,9) = In10(s)
    BY DEF Links10, In10
  <2>3. Works10(s, w, 13, 8,4, 5,7, 6,10, 1,3, 2,9)
    BY <1>1, <2>2, Exchange10, AtEnd10
  <2>4. Works10(s, w, 10, 10,6, 7,5, 4,8, 1,3, 2,9)
    BY <1>1, <2>3, Turn10_4
  <2>5. Works10(s, w, 7, 8,4, 1,3, 2,9, 10,6, 7,5)
    BY <1>1, <2>4, Rotate10_3, Turn10_2
  <2>6. Works10(s, w, 4, 7,5, 6,10, 9,2, 3,1, 4,8)
    BY <1>1, <2>5, Reverse10_0, Turn10_2
  <2>7. Works10(s, w, 1, 2,9, 10,6, 5,7, 8,4, 3,1)
    BY <1>1, <2>6, Rotate10_1, Turn10_5
  <2> QED
    BY <1>1, <1>5, <2>1, <2>7, Exchange10, Begin10 DEF Right, w
<1> QED
  BY <1>2, <1>3, <1>4, <1>5 DEF Orders10, Orders10_24

\* Make5OptMove, case 25.
LEMMA Move10_25 ==
    ASSUME NEW s, Chosen(s, 10), Orders10(s, 25)
    PROVE  Right(s, Make5OptMove(s, 25))
<1> DEFINE w == Make5OptMove(s, 25)
<1>1. /\ w \in Seq(Nat) /\ Len(w) = 12 /\ Over(w, 13)
      /\ Swap(w, 1, 4, 1, 2, 3) /\ Swap(w, 4, 7, 8, 7, 6)
      /\ Swap(w, 7, 10, 5, 8, 1) /\ Swap(w, 10, 13, 9, 10, 1)
  BY DEF Swap, Over, Make5OptMove
<1> HIDE DEF w
<1>2. CASE Line10(s, 2,4, 3,8, 7,5, 6,10, 9,1)
  <2>1. Links10(s, 2,4, 3,8, 7,5, 6,10, 9,1) = Out10(s)
    BY DEF Links10, Out10
  <2>2. Links10(s, 8,3, 2,4, 5,7, 6,10, 1,9) = In10(s)
    BY DEF Links10, In10
  <2>3. Works10(s, w, 13, 8,3, 2,4, 5,7, 6,10, 1,9)
    BY <1>1, <2>2, Exchange10, AtEnd10
  <2>4. Works10(s, w, 10, 10,6, 7,5, 4,2, 3,8, 1,9)
    BY <1>1, <2>3, Turn10_5
  <2>5. Works10(s, w, 7, 8,3, 2,4, 1,9, 10,6, 7,5)
    BY <1>1, <2>4, Rotate10_3, Turn10_3
  <2>6. Works10(s, w, 4, 7,5, 6,10, 9,1, 4,2, 3,8)
    BY <1>1, <2>5, Reverse10_0, Turn10_2
  <2>7. Works10(s, w, 1, 2,4, 3,8, 7,5, 6,10, 9,1)
    BY <1>1, <2>6, Rotate10_2, Turn10_2
  <2> QED
    BY <1>1, <1>2, <2>1, <2>7, Exchange10, Begin10 DEF Right, w
<1>3. CASE Line10(s, 2,4, 3,8, 7,9, 10,5, 6,1)
  <2>1. Links10(s, 2,4, 3,8, 7,9, 10,5, 6,1) = Out10(s)
    BY DEF Links10, Out10
  <2>2. Links10(s, 8,3, 2,4, 5,10, 1,6, 7,9) = In10(s)
    BY DEF Links10, In10
  <2>3. Works10(s, w, 13, 8,3, 2,4, 5,10, 1,6, 7,9)
    BY <1>1, <2>2, Exchange10, AtEnd10
  <2>4. Works10(s, w, 10, 10,5, 4,2, 3,8, 1,6, 7,9)
    BY <1>1, <2>3, Turn10_4
  <2>5. Works10(s, w, 7, 8,3, 2,4, 1,6, 7,9, 10,5)
    BY <1>1, <2>4, Rotate10_4, Turn10_3
  <2>6. Works10(s, w, 4, 7,9, 10,5, 6,1, 4,2, 3,8)
    BY <1>1, <2>5, Reverse10_0, Turn10_3
  <2>7. Works10(s, w, 1, 2,4, 3,8, 7,9, 10,5, 6,1)
    BY <1>1, <2>6, Rotate10_2, Turn10_2
  <2> QED
    BY <1>1, <1>3, <2>1, <2>7, Exchange10, Begin10 DEF Right, w
<1>4. CASE Line10(s, 2,4, 3,9, 10,8, 7,5, 6,1)
  <2>1. Links10(s, 2,4, 3,9, 10,8, 7,5, 6,1) = Out10(s)
    BY DEF Links10, Out10
  <2>2. Links10(s, 8,10, 1,6, 7,5, 4,2, 3,9) = In10(s)
    BY DEF Links10, In10
  <2>3. Works10(s, w, 13, 8,10, 1,6, 7,5, 4,2, 3,9)
    BY <1>1, <2>2, Exchange10, AtEnd10
  <2>4. Works10(s, w, 10, 10,8, 1,6, 7,5, 4,2, 3,9)
    BY <1>1, <2>3, Turn10_2
  <2>5. Works10(s, w, 7, 8,10, 9,3, 2,4, 1,6, 7,5)
    BY <1>1, <2>4, Rotate10_2, Turn10_4
  <2>6. Works10(s, w, 4, 7,5, 6,1, 4,2, 3,9, 10,8)
    BY <1>1, <2>5, Reverse10_0, Turn10_2
  <2>7. Works10(s, w, 1, 2,4, 3,9, 10,8, 7,5, 6,1)
    BY <1>1, <2>6, Rotate10_3, Turn10_2
  <2> QED
    BY <1>1, <1>4, <2>1, <2>7, Exchange10, Begin10 DEF Right, w
<1>5. CASE Line10(s, 2,7, 8,4, 3,5, 6,10, 9,1)
  <2>1. Links10(s, 2,7, 8,4, 3,5, 6,10, 9,1) = Out10(s)
    BY DEF Links10, Out10
  <2>2. Links10(s, 8,4, 5,3, 2,7, 6,10, 1,9) = In10(s)
    BY DEF Links10, In10
  <2>3. Works10(s, w, 13, 8,4, 5,3, 2,7, 6,10, 1,9)
    BY <1>1, <2>2, Exchange10, AtEnd10
  <2>4. Works10(s, w, 10, 10,6, 7,2, 3,5, 4,8, 1,9)
    BY <1>1, <2>3, Turn10_5
  <2>5. Works10(s, w, 7, 8,4, 1,9, 10,6, 7,2, 3,5)
    BY <1>1, <2>4, Rotate10_2, Turn10_2
  <2>6. Works10(s, w, 4, 7,2, 3,5, 6,10, 9,1, 4,8)
    BY <1>1, <2>5, Reverse10_0, Turn10_3
  <2>7. Works10(s, w, 1, 2,7, 8,4, 3,5, 6,10, 9,1)
    BY <1>1, <2>6, Rotate10_1, Turn10_3
  <2> QED
    BY <1>1, <1>5, <2>1, <2>7, Exchange10, Begin10 DEF Right, w
<1>6. CASE Line10(s, 2,7, 8,4, 3,9, 10,5, 6,1)
  <2>1. Links10(s, 2,7, 8,4, 3,9, 10,5, 6,1) = Out10(s)
    BY DEF Links10, Out10
  <2>2. Links10(s, 8,4, 5,10, 1,6, 7,2, 3,9) = In10(s)
    BY DEF Links10, In10
  <2>3. Works10(s, w, 13, 8,4, 5,10, 1,6, 7,2, 3,9)
    BY <1>1, <2>2, Exchange10, AtEnd10
  <2>4. Works10(s, w, 10, 10,5, 4,8, 1,6, 7,2, 3,9)
    BY <1>1, <2>3, Turn10_3
  <2>5. Works10(s, w, 7, 8,4, 1,6, 7,2, 3,9, 10,5)
    BY <1>1, <2>4, Rotate10_4, Turn10_2
  <2>6. Works10(s, w, 4, 7,2, 3,9, 10,5, 6,1, 4,8)
    BY <1>1, <2>5, Reverse10_0, Turn10_4
  <2>7. Works10(s, w, 1, 2,7, 8,4, 3,9, 10,5, 6,1)
    BY <1>1, <2>6, Rotate10_1, Turn10_3
  <2> QED
    BY <1>1, <1>6, <2>1, <2>7, Exchange10, Begin10 DEF Right, w
<1>7. CASE Line10(s, 2,7, 8,10, 9,4, 3,5, 6,1)
  <2>1. Links10(s, 2,7, 8,10, 9,4, 3,5, 6,1) = Out10(s)
    BY DEF Links10, Out10
  <2>2. Links10(s, 8,10, 1,6, 7,2, 3,5, 4,9) = In10(s)
    BY DEF Links10, In10
  <2>3. Works10(s, w, 13, 8,10, 1,6, 7,2, 3,5, 4,9)
    BY <1>1, <2>2, Exchange10, AtEnd10
  <2>4. Works10(s, w, 10, 10,8, 1,6, 7,2, 3,5, 4,9)
    BY <1>1, <2>3, Turn10_2
  <2>5. Works10(s, w, 7, 8,10, 9,4, 1,6, 7,2, 3,5)
    BY <1>1, <2>4, Rotate10_1, Turn10_3
  <2>6. Works10(s, w, 4, 7,2, 3,5, 6,1, 4,9, 10,8)
    BY <1>1, <2>5, Reverse10_0, Turn10_3
  <2>7. Works10(s, w, 1, 2,7, 8,10, 9,4, 3,5, 6,1)
    BY <1>1, <2>6, Rotate10_2, Turn10_4
  <2> QED
    BY <1>1, <1>7, <2>1, <2>7, Exchange10, Begin10 DEF Right, w
<1>8. CASE Line10(s, 2,10, 9,4, 3,8, 7,5, 6,1)
  <2>1. Links10(s, 2,10, 9,4, 3,8, 7,5, 6,1) = Out10(s)
    BY DEF Links10, Out10
  <2>2. Links10(s, 8,3, 2,10, 1,6, 7,5, 4,9) = In10(s)
    BY DEF Links10, In10
  <2>3. Works10(s, w, 13, 8,3, 2,10, 1,6, 7,5, 4,9)
    BY <1>1, <2>2, Exchange10, AtEnd10
  <2>4. Works10(s, w, 10, 10,2, 3,8, 1,6, 7,5, 4,9)
    BY <1>1, <2>3, Turn10_3
  <2>5. Works10(s, w, 7, 8,3, 2,10, 9,4, 1,6, 7,5)
    BY <1>1, <2>4, Rotate10_1, Turn10_4
  <2>6. Works10(s, w, 4, 7,5, 6,1, 4,9, 10,2, 3,8)
    BY <1>1, <2>5, Reverse10_0, Turn10_2
  <2>7. Works10(s, w, 1, 2,10, 9,4, 3,8, 7,5, 6,1)
    BY <1>1, <2>6, Rotate10_3, Turn10_3
  <2> QED
    BY <1>1, <1>8, <2>1, <2>7, Exchange10, Begin10 DEF Right, w
<1>9. CASE Line10(s, 2,10, 9,7, 8,4, 3,5, 6,1)
  <2>1. Links10(s, 2,10, 9,7, 8,4, 3,5, 6,1) = Out10(s)
    BY DEF Links10, Out10
  <2>2. Links10(s, 8,4, 5,3, 2,10, 1,6, 7,9) = In10(s)
    BY DEF Links10, In10
  <2>3. Works10(s, w, 13, 8,4, 5,3, 2,10, 1,6, 7,9)
    BY <1>1, <2>2, Exchange10, AtEnd10
  <2>4. Works10(s, w, 10, 10,2, 3,5, 4,8, 1,6, 7,9)
    BY <1>1, <2>3, Turn10_4
  <2>5. Works10(s, w, 7, 8,4, 1,6, 7,9, 10,2, 3,5)
    BY <1>1, <2>4, Rotate10_3, Turn10_2
  <2>6. Works10(s, w, 4, 7,9, 10,2, 3,5, 6,1, 4,8)
    BY <1>1, <2>5, Reverse10_0, Turn10_4
  <2>7. Works10(s, w, 1, 2,10, 9,7, 8,4, 3,5, 6,1)
    BY <1>1, <2>6, Rotate10_1, Turn10_4
  <2> QED
    BY <1>1, <1>9, <2>1, <2>7, Exchange10, Begin10 DEF Right, w
<1> QED
  BY <1>2, <1>3, <1>4, <1>5, <1>6, <1>7, <1>8, <1>9 DEF Orders10, Orders10_25

\* Make5OptMove, case 26.
LEMMA Move10_26 ==
    ASSUME NEW s, Chosen(s, 10), Orders10(s, 26)
    PROVE  Right(s, Make5OptMove(s, 26))
<1> DEFINE w == Make5OptMove(s, 26)
<1>1. CASE Line10(s, 2,5, 6,3, 4,8, 7,10, 9,1)
  <2>1. ~BETWEEN(s[2], s[7], s[3])
    BY <1>1, NodesAre DEF Line10, BETWEEN, Chosen, Node
  <2>2. w = <<5, 6, 7, 2, 1, 4, 1, 4, 5, 9, 10, 1>>
    BY <2>1 DEF Make5OptMove
  <2> HIDE DEF w
  <2>3. /\ w \in Seq(Nat) /\ Len(w) = 12 /\ Over(w, 13)
        /\ Swap(w, 1, 4, 5, 6, 7) /\ Swap(w, 4, 7, 2, 1, 4)
        /\ Swap(w, 7, 10, 1, 4, 5) /\ Swap(w, 10, 13, 9, 10, 1)
    BY <2>2 DEF Swap, Over
  <2>4. Links10(s, 2,5, 6,3, 4,8, 7,10, 9,1) = Out10(s)
    BY DEF Links10, Out10
  <2>5. Links10(s, 8,4, 5,2, 3,6, 7,10, 1,9) = In10(s)
    BY DEF Links10, In10
  <2>6. Works10(s, w, 13, 8,4, 5,2, 3,6, 7,10, 1,9)
    BY <2>3, <2>5, Exchange10, AtEnd10
  <2>7. Works10(s, w, 10, 10,7, 6,3, 2,5, 4,8, 1,9)
    BY <2>3, <2>6, Turn10_5
  <2>8. Works10(s, w, 7, 4,8, 5,2, 3,6, 7,10, 9,1)
    BY <2>3, <2>7, Reverse10_1, Turn10_2
  <2>9. Works10(s, w, 4, 1,9, 10,7, 6,3, 4,8, 5,2)
    BY <2>3, <2>8, Rotate10_3, Turn10_4
  <2>10. Works10(s, w, 1, 6,3, 4,8, 7,10, 9,1, 2,5)
    BY <2>3, <2>9, Reverse10_1, Turn10_3
  <2> QED
    BY <2>3, <1>1, <2>4, <2>10, Rotate10_1, Exchange10, Begin10 DEF Right, w
<1>2. CASE Line10(s, 2,5, 6,3, 4,9, 10,8, 7,1)
  <2>1. ~BETWEEN(s[2], s[7], s[3])
    BY <1>2, NodesAre DEF Line10, BETWEEN, Chosen, Node
  <2>2. w = <<5, 6, 7, 2, 1, 4, 1, 4, 5, 9, 10, 1>>
    BY <2>1 DEF Make5OptMove
  <2> HIDE DEF w
  <2>3. /\ w \in Seq(Nat) /\ Len(w) = 12 /\ Over(w, 13)
        /\ Swap(w, 1, 4, 5, 6, 7) /\ Swap(w, 4, 7, 2, 1, 4)
        /\ Swap(w, 7, 10, 1, 4, 5) /\ Swap(w, 10, 13, 9, 10, 1)
    BY <2>2 DEF Swap, Over
  <2>4. Links10(s, 2,5, 6,3, 4,9, 10,8, 7,1) = Out10(s)
    BY DEF Links10, Out10
  <2>5. Links10(s, 8,10, 1,7, 6,3, 2,5, 4,9) = In10(s)
    BY DEF Links10, In10
  <2>6. Works10(s, w, 13, 8,10, 1,7, 6,3, 2,5, 4,9)
    BY <2>3, <2>5, Exchange10, AtEnd10
  <2>7. Works10(s, w, 10, 10,8, 1,7, 6,3, 2,5, 4,9)
    BY <2>3, <2>6, Turn10_2
  <2>8. Works10(s, w, 7, 4,9, 10,8, 5,2, 3,6, 7,1)
    BY <2>3, <2>7, Reverse10_4, Turn10_3
  <2>9. Works10(s, w, 4, 1,7, 6,3, 4,9, 10,8, 5,2)
    BY <2>3, <2>8, Rotate10_2, Turn10_3
  <2>10. Works10(s, w, 1, 6,3, 4,9, 10,8, 7,1, 2,5)
    BY <2>3, <2>9, Reverse10_1, Turn10_4
  <2> QED
    BY <2>3, <1>2, <2>4, <2>10, Rotate10_1, Exchange10, Begin10 DEF Right, w
<1>3. CASE Line10(s, 2,5, 6,9, 10,3, 4,8, 7,1)
  <2>1. ~BETWEEN(s[2], s[7], s[3])
    BY <1>3, NodesAre DEF Line10, BETWEEN, Chosen, Node
  <2>2. w = <<5, 6, 7, 2, 1, 4, 1, 4, 5, 9, 10, 1>>
    BY <2>1 DEF Make5OptMove
  <2> HIDE DEF w
  <2>3. /\ w \in Seq(Nat) /\ Len(w) = 12 /\ Over(w, 13)
        /\ Swap(w, 1, 4, 5, 6, 7) /\ Swap(w, 4, 7, 2, 1, 4)
        /\ Swap(w, 7, 10, 1, 4, 5) /\ Swap(w, 10, 13, 9, 10, 1)
    BY <2>2 DEF Swap, Over
  <2>4. Links10(s, 2,5, 6,9, 10,3, 4,8, 7,1) = Out10(s)
    BY DEF Links10, Out10
  <2>5. Links10(s, 8,4, 5,2, 3,10, 1,7, 6,9) = In10(s)
    BY DEF Links10, In10
  <2>6. Works10(s, w, 13, 8,4, 5,2, 3,10, 1,7, 6,9)
    BY <2>3, <2>5, Exchange10, AtEnd10
  <2>7. Works10(s, w, 10, 10,3, 2,5, 4,8, 1,7, 6,9)
    BY <2>3, <2>6, Turn10_4
  <2>8. Works10(s, w, 7, 4,8, 5,2, 3,10, 9,6, 7,1)
    BY <2>3, <2>7, Reverse10_2, Turn10_2
  <2>9. Works10(s, w, 4, 1,7, 6,9, 10,3, 4,8, 5,2)
    BY <2>3, <2>8, Rotate10_3, Turn10_4
  <2>10. Works10(s, w, 1, 6,9, 10,3, 4,8, 7,1, 2,5)
    BY <2>3, <2>9, Reverse10_1, Turn10_4
  <2> QED
    BY <2>3, <1>3, <2>4, <2>10, Rotate10_1, Exchange10, Begin10 DEF Right, w
<1>4. CASE Line10(s, 2,9, 10,5, 6,3, 4,8, 7,1)
  <2>1. ~BETWEEN(s[2], s[7], s[3])
    BY <1>4, NodesAre DEF Line10, BETWEEN, Chosen, Node
  <2>2. w = <<5, 6, 7, 2, 1, 4, 1, 4, 5, 9, 10, 1>>
    BY <2>1 DEF Make5OptMove
  <2> HIDE DEF w
  <2>3. /\ w \in Seq(Nat) /\ Len(w) = 12 /\ Over(w, 13)
        /\ Swap(w, 1, 4, 5, 6, 7) /\ Swap(w, 4, 7, 2, 1, 4)
        /\ Swap(w, 7, 10, 1, 4, 5) /\ Swap(w, 10, 13, 9, 10, 1)
    BY <2>2 DEF Swap, Over
  <2>4. Links10(s, 2,9, 10,5, 6,3, 4,8, 7,1) = Out10(s)
    BY DEF Links10, Out10
  <2>5. Links10(s, 8,4, 5,10, 1,7, 6,3, 2,9) = In10(s)
    BY DEF Links10, In10
  <2>6. Works10(s, w, 13, 8,4, 5,10, 1,7, 6,3, 2,9)
    BY <2>3, <2>5, Exchange10, AtEnd10
  <2>7. Works10(s, w, 10, 10,5, 4,8, 1,7, 6,3, 2,9)
    BY <2>3, <2>6, Turn10_3
  <2>8. Works10(s, w, 7, 4,8, 5,10, 9,2, 3,6, 7,1)
    BY <2>3, <2>7, Reverse10_3, Turn10_2
  <2>9. Works10(s, w, 4, 1,7, 6,3, 4,8, 5,10, 9,2)
    BY <2>3, <2>8, Rotate10_2, Turn10_3
  <2>10. Works10(s, w, 1, 6,3, 4,8, 7,1, 2,9, 10,5)
    BY <2>3, <2>9, Reverse10_2, Turn10_3
  <2> QED
    BY <2>3, <1>4, <2>4, <2>10, Rotate10_2, Exchange10, Begin10 DEF Right, w
<1>5. CASE Line10(s, 2,5, 6,8, 7,3, 4,10, 9,1)
  <2>1. BETWEEN(s[2], s[7], s[3]) /\ ~BETWEEN(s[2], s[7], s[6])
    BY <1>5, NodesAre DEF Line10, BETWEEN, Chosen, Node
  <2>2. w = <<1, 2, 7, 7, 2, 3, 4, 7, 6, 9, 10, 1>>
    BY <2>1 DEF Make5OptMove
  <2> HIDE DEF w
  <2>3. /\ w \in Seq(Nat) /\ Len(w) = 12 /\ Over(w, 13)
        /\ Swap(w, 1, 4, 1, 2, 7) /\ Swap(w, 4, 7, 7, 2, 3)
        /\ Swap(w, 7, 10, 4, 7, 6) /\ Swap(w, 10, 13, 9, 10, 1)
    BY <2>2 DEF Swap, Over
  <2>4. Links10(s, 2,5, 6,8, 7,3, 4,10, 9,1) = Out10(s)
    BY DEF Links10, Out10
  <2>5. Links10(s, 8,6, 7,3, 2,5, 4,10, 1,9) = In10(s)
    BY DEF Links10, In10
  <2>6. Works10(s, w, 13, 8,6, 7,3, 2,5, 4,10, 1,9)
    BY <2>3, <2>5, Exchange10, AtEnd10
  <2>7. Works10(s, w, 10, 10,4, 5,2, 3,7, 6,8, 1,9)
    BY <2>3, <2>6, Turn10_5
  <2>8. Works10(s, w, 7, 7,3, 2,5, 6,8, 1,9, 10,4)
    BY <2>3, <2>7, Rotate10_4, Turn10_3
  <2>9. Works10(s, w, 4, 2,5, 6,8, 1,9, 10,4, 3,7)
    BY <2>3, <2>8, Reverse10_0, Turn10_5
  <2>10. Works10(s, w, 1, 2,5, 6,8, 7,3, 4,10, 9,1)
    BY <2>3, <2>9, Reverse10_3, Turn10_3
  <2> QED
    BY <2>3, <1>5, <2>4, <2>10, Exchange10, Begin10 DEF Right, w
<1>6. CASE Line10(s, 2,5, 6,8, 7,10, 9,3, 4,1)
  <2>1. BETWEEN(s[2], s[7], s[3]) /\ ~BETWEEN(s[2], s[7], s[6])
    BY <1>6, NodesAre DEF Line10, BETWEEN, Chosen, Node
  <2>2. w = <<1, 2, 7, 7, 2, 3, 4, 7, 6, 9, 10, 1>>
    BY <2>1 DEF Make5OptMove
  <2> HIDE DEF w
  <2>3. /\ w \in Seq(Nat) /\ Len(w) = 12 /\ Over(w, 13)
        /\ Swap(w, 1, 4, 1, 2, 7) /\ Swap(w, 4, 7, 7, 2, 3)
        /\ Swap(w, 7, 10, 4, 7, 6) /\ Swap(w, 10, 13, 9, 10, 1)
    BY <2>2 DEF Swap, Over
  <2>4. Links10(s, 2,5, 6,8, 7,10, 9,3, 4,1) = Out10(s)
    BY DEF Links10, Out10
  <2>5. Links10(s, 8,6, 7,10, 1,4, 5,2, 3,9) = In10(s)
    BY DEF Links10, In10
  <2>6. Works10(s, w, 13, 8,6, 7,10, 1,4, 5,2, 3,9)
    BY <2>3, <2>5, Exchange10, AtEnd10
  <2>7. Works10(s, w, 10, 10,7, 6,8, 1,4, 5,2, 3,9)
    BY <2>3, <2>6, Turn10_3
  <2>8. Works10(s, w, 7, 7,10, 9,3, 2,5, 6,8, 1,4)
    BY <2>3, <2>7, Rotate10_2, Turn10_4
  <2>9. Works10(s, w, 4, 2,5, 6,8, 1,4, 3,9, 10,7)
    BY <2>3, <2>8, Reverse10_0, Turn10_4
  <2>10. Works10(s, w, 1, 2,5, 6,8, 7,10, 9,3, 4,1)
    BY <2>3, <2>9, Reverse10_3, Turn10_3
  <2> QED
    BY <2>3, <1>6, <2>4, <2>10, Exchange10, Begin10 DEF Right, w
<1>7. CASE Line10(s, 2,5, 6,9, 10,8, 7,3, 4,1)
  <2>1. BETWEEN(s[2], s[7], s[3]) /\ ~BETWEEN(s[2], s[7], s[6])
    BY <1>7, NodesAre DEF Line10, BETWEEN, Chosen, Node
  <2>2. w = <<1, 2, 7, 7, 2, 3, 4, 7, 6, 9, 10, 1>>
    BY <2>1 DEF Make5OptMove
  <2> HIDE DEF w
  <2>3. /\ w \in Seq(Nat) /\ Len(w) = 12 /\ Over(w, 13)
        /\ Swap(w, 1, 4, 1, 2, 7) /\ Swap(w, 4, 7, 7, 2, 3)
        /\ Swap(w, 7, 10, 4, 7, 6) /\ Swap(w, 10, 13, 9, 10, 1)
    BY <2>2 DEF Swap, Over
  <2>4. Links10(s, 2,5, 6,9, 10,8, 7,3, 4,1) = Out10(s)
    BY DEF Links10, Out10
  <2>5. Links10(s, 8,10, 1,4, 5,2, 3,7, 6,9) = In10(s)
    BY DEF Links10, In10
  <2>6. Works10(s, w, 13, 8,10, 1,4, 5,2, 3,7, 6,9)
    BY <2>3, <2>5, Exchange10, AtEnd10
  <2>7. Works10(s, w, 10, 10,8, 1,4, 5,2, 3,7, 6,9)
    BY <2>3, <2>6, Turn10_2
  <2>8. Works10(s, w, 7, 7,3, 2,5, 6,9, 10,8, 1,4)
    BY <2>3, <2>7, Rotate10_3, Turn10_3
  <2>9. Works10(s, w, 4, 2,5, 6,9, 10,8, 1,4, 3,7)
    BY <2>3, <2>8, Reverse10_0, Turn10_5
  <2>10. Works10(s, w, 1, 2,5, 6,9, 10,8, 7,3, 4,1)
    BY <2>3, <2>9, Reverse10_2, Turn10_4
  <2> QED
    BY <2>3, <1>7, <2>4, <2>10, Exchange10, Begin10 DEF Right, w
<1>8. CASE Line10(s, 2,10, 9,5, 6,8, 7,3, 4,1)
  <2>1. BETWEEN(s[2], s[7], s[3]) /\ ~BETWEEN(s[2], s[7], s[6])
    BY <1>8, NodesAre DEF Line10, BETWEEN, Chosen, Node
  <2>2. w = <<1, 2, 7, 7, 2, 3, 4, 7, 6, 9, 10, 1>>
    BY <2>1 DEF Make5OptMove
  <2> HIDE DEF w
  <2>3. /\ w \in Seq(Nat) /\ Len(w) = 12 /\ Over(w, 13)
        /\ Swap(w, 1, 4, 1, 2, 7) /\ Swap(w, 4, 7, 7, 2, 3)
        /\ Swap(w, 7, 10, 4, 7, 6) /\ Swap(w, 10, 13, 9, 10, 1)
    BY <2>2 DEF Swap, Over
  <2>4. Links10(s, 2,10, 9,5, 6,8, 7,3, 4,1) = Out10(s)
    BY DEF Links10, Out10
  <2>5. Links10(s, 8,6, 7,3, 2,10, 1,4, 5,9) = In10(s)
    BY DEF Links10, In10
  <2>6. Works10(s, w, 13, 8,6, 7,3, 2,10, 1,4, 5,9)
    BY <2>3, <2>5, Exchange10, AtEnd10
  <2>7. Works10(s, w, 10, 10,2, 3,7, 6,8, 1,4, 5,9)
    BY <2>3, <2>6, Turn10_4
  <2>8. Works10(s, w, 7, 7,3, 2,10, 9,5, 6,8, 1,4)
    BY <2>3, <2>7, Rotate10_1, Turn10_4
  <2>9. Works10(s, w, 4, 2,10, 9,5, 6,8, 1,4, 3,7)
    BY <2>3, <2>8, Reverse10_0, Turn10_5
  <2>10. Works10(s, w, 1, 2,10, 9,5, 6,8, 7,3, 4,1)
    BY <2>3, <2>9, Reverse10_2, Turn10_4
  <2> QED
    BY <2>3, <1>8, <2>4, <2>10, Exchange10, Begin10 DEF Right, w
<1>9. CASE Line10(s, 2,8, 7,5, 6,3, 4,10, 9,1)
  <2>1. BETWEEN(s[2], s[7], s[3]) /\ BETWEEN(s[2], s[7], s[6])
    BY <1>9, NodesAre DEF Line10, BETWEEN, Chosen, Node
  <2>2. w = <<5, 6, 7, 5, 8, 3, 3, 8, 1, 9, 10, 1>>
    BY <2>1 DEF Make5OptMove
  <2> HIDE DEF w
  <2>3. /\ w \in Seq(Nat) /\ Len(w) = 12 /\ Over(w, 13)
        /\ Swap(w, 1, 4, 5, 6, 7) /\ Swap(w, 4, 7, 5, 8, 3)
        /\ Swap(w, 7, 10, 3, 8, 1) /\ Swap(w, 10, 13, 9, 10, 1)
    BY <2>2 DEF Swap, Over
  <2>4. Links10(s, 2,8, 7,5, 6,3, 4,10, 9,1) = Out10(s)
    BY DEF Links10, Out10
  <2>5. Links10(s, 8,2, 3,6, 7,5, 4,10, 1,9) = In10(s)
    BY DEF Links10, In10
  <2>6. Works10(s, w, 13, 8,2, 3,6, 7,5, 4,10, 1,9)
    BY <2>3, <2>5, Exchange10, AtEnd10
  <2>7. Works10(s, w, 10, 10,4, 5,7, 6,3, 2,8, 1,9)
    BY <2>3, <2>6, Turn10_5
  <2>8. Works10(s, w, 7, 8,2, 1,9, 10,4, 5,7, 6,3)
    BY <2>3, <2>7, Rotate10_2, Turn10_2
  <2>9. Works10(s, w, 4, 8,2, 1,9, 10,4, 3,6, 7,5)
    BY <2>3, <2>8, Reverse10_2, Turn10_4
  <2>10. Works10(s, w, 1, 6,3, 4,10, 9,1, 2,8, 7,5)
    BY <2>3, <2>9, Turn10_5
  <2> QED
    BY <2>3, <1>9, <2>4, <2>10, Rotate10_2, Exchange10, Begin10 DEF Right, w
<1>10. CASE Line10(s, 2,8, 7,5, 6,9, 10,3, 4,1)
  <2>1. BETWEEN(s[2], s[7], s[3]) /\ BETWEEN(s[2], s[7], s[6])
    BY <1>10, NodesAre DEF Line10, BETWEEN, Chosen, Node
  <2>2. w = <<5, 6, 7, 5, 8, 3, 3, 8, 1, 9, 10, 1>>
    BY <2>1 DEF Make5OptMove
  <2> HIDE DEF w
  <2>3. /\ w \in Seq(Nat) /\ Len(w) = 12 /\ Over(w, 13)
        /\ Swap(w, 1, 4, 5, 6, 7) /\ Swap(w, 4, 7, 5, 8, 3)
        /\ Swap(w, 7, 10, 3, 8, 1) /\ Swap(w, 10, 13, 9, 10, 1)
    BY <2>2 DEF Swap, Over
  <2>4. Links10(s, 2,8, 7,5, 6,9, 10,3, 4,1) = Out10(s)
    BY DEF Links10, Out10
  <2>5. Links10(s, 8,2, 3,10, 1,4, 5,7, 6,9) = In10(s)
    BY DEF Links10, In10
  <2>6. Works10(s, w, 13, 8,2, 3,10, 1,4, 5,7, 6,9)
    BY <2>3, <2>5, Exchange10, AtEnd10
  <2>7. Works10(s, w, 10, 10,3, 2,8, 1,4, 5,7, 6,9)
    BY <2>3, <2>6, Turn10_3
  <2>8. Works10(s, w, 7, 8,2, 1,4, 5,7, 6,9, 10,3)
    BY <2>3, <2>7, Rotate10_4, Turn10_2
  <2>9. Works10(s, w, 4, 8,2, 1,4, 3,10, 9,6, 7,5)
    BY <2>3, <2>8, Reverse10_3, Turn10_3
  <2>10. Works10(s, w, 1, 6,9, 10,3, 4,1, 2,8, 7,5)
    BY <2>3, <2>9, Turn10_5
  <2> QED
    BY <2>3, <1>10, <2>4, <2>10, Rotate10_2, Exchange10, Begin10 DEF Right, w
<1>11. CASE Line10(s, 2,8, 7,10, 9,5, 6,3, 4,1)
  <2>1. BETWEEN(s[2], s[7], s[3]) /\ BETWEEN(s[2], s[7], s[6])
    BY <1>11, NodesAre DEF Line10, BETWEEN, Chosen, Node
  <2>2. w = <<5, 6, 7, 5, 8, 3, 3, 8, 1, 9, 10, 1>>
    BY <2>1 DEF Make5OptMove
  <2> HIDE DEF w
  <2>3. /\ w \in Seq(Nat) /\ Len(w) = 12 /\ Over(w, 13)
        /\ Swap(w, 1, 4, 5, 6, 7) /\ Swap(w, 4, 7, 5, 8, 3)
        /\ Swap(w, 7, 10, 3, 8, 1) /\ Swap(w, 10, 13, 9, 10, 1)
    BY <2>2 DEF Swap, Over
  <2>4. Links10(s, 2,8, 7,10, 9,5, 6,3, 4,1) = Out10(s)
    BY DEF Links10, Out10
  <2>5. Links10(s, 8,2, 3,6, 7,10, 1,4, 5,9) = In10(s)
    BY DEF Links10, In10
  <2>6. Works10(s, w, 13, 8,2, 3,6, 7,10, 1,4, 5,9)
    BY <2>3, <2>5, Exchange10, AtEnd10
  <2>7. Works10(s, w, 10, 10,7, 6,3, 2,8, 1,4, 5,9)
    BY <2>3, <2>6, Turn10_4
  <2>8. Works10(s, w, 7, 8,2, 1,4, 5,9, 10,7, 6,3)
    BY <2>3, <2>7, Rotate10_3, Turn10_2
  <2>9. Works10(s, w, 4, 8,2, 1,4, 3,6, 7,10, 9,5)
    BY <2>3, <2>8, Reverse10_3, Turn10_3
  <2>10. Works10(s, w, 1, 6,3, 4,1, 2,8, 7,10, 9,5)
    BY <2>3, <2>9, Turn10_4
  <2> QED
    BY <2>3, <1>11, <2>4, <2>10, Rotate10_3, Exchange10, Begin10 DEF Right, w
<1>12. CASE Line10(s, 2,9, 10,8, 7,5, 6,3, 4,1)
  <2>1. BETWEEN(s[2], s[7], s[3]) /\ BETWEEN(s[2], s[7], s[6])
    BY <1>12, NodesAre DEF Line10, BETWEEN, Chosen, Node
  <2>2. w = <<5, 6, 7, 5, 8, 3, 3, 8, 1, 9, 10, 1>>
    BY <2>1 DEF Make5OptMove
  <2> HIDE DEF w
  <2>3. /\ w \in Seq(Nat) /\ Len(w) = 12 /\ Over(w, 13)
        /\ Swap(w, 1, 4, 5, 6, 7) /\ Swap(w, 4, 7, 5, 8, 3)
        /\ Swap(w, 7, 10, 3, 8, 1) /\ Swap(w, 10, 13, 9, 10, 1)
    BY <2>2 DEF Swap, Over
  <2>4. Links10(s, 2,9, 10,8, 7,5, 6,3, 4,1) = Out10(s)
    BY DEF Links10, Out10
  <2>5. Links10(s, 8,10, 1,4, 5,7, 6,3, 2,9) = In10(s)
    BY DEF Links10, In10
  <2>6. Works10(s, w, 13, 8,10, 1,4, 5,7, 6,3, 2,9)
    BY <2>3, <2>5, Exchange10, AtEnd10
  <2>7. Works10(s, w, 10, 10,8, 1,4, 5,7, 6,3, 2,9)
    BY <2>3, <2>6, Turn10_2
  <2>8. Works10(s, w, 7, 8,10, 9,2, 1,4, 5,7, 6,3)
    BY <2>3, <2>7, Rotate10_1, Turn10_3
  <2>9. Works10(s, w, 4, 8,10, 9,2, 1,4, 3,6, 7,5)
    BY <2>3, <2>8, Reverse10_2, Turn10_4
  <2>10. Works10(s, w, 1, 6,3, 4,1, 2,9, 10,8, 7,5)
    BY <2>3, <2>9, Turn10_5
  <2> QED
    BY <2>3, <1>12, <2>4, <2>10, Rotate10_3, Exchange10, Begin10 DEF Right, w
<1> QED
  BY <1>1, <1>2, <1>3, <1>4, <1>5, <1>6, <1>7, <1>8, <1>9, <1>10, <1>11, <1>12
     DEF Orders10, Orders10_26

\* Make5OptMove, case 27.
LEMMA Move10_27 ==
    ASSUME NEW s, Chosen(s, 10), Orders10(s, 27)
    PROVE  Right(s, Make5OptMove(s, 27))
<1> DEFINE w == Make5OptMove(s, 27)
<1>1. /\ w \in Seq(Nat) /\ Len(w) = 12 /\ Over(w, 13)
      /\ Swap(w, 1, 4, 3, 4, 5) /\ Swap(w, 4, 7, 6, 3, 2)
      /\ Swap(w, 7, 10, 1, 6, 7) /\ Swap(w, 10, 13, 9, 10, 1)
  BY DEF Swap, Over, Make5OptMove
<1> HIDE DEF w
<1>2. CASE Line10(s, 2,6, 5,3, 4,8, 7,10, 9,1)
  <2>1. Links10(s, 2,6, 5,3, 4,8, 7,10, 9,1) = Out10(s)
    BY DEF Links10, Out10
  <2>2. Links10(s, 8,4, 5,3, 2,6, 7,10, 1,9) = In10(s)
    BY DEF Links10, In10
  <2>3. Works10(s, w, 13, 8,4, 5,3, 2,6, 7,10, 1,9)
    BY <1>1, <2>2, Exchange10, AtEnd10
  <2>4. Works10(s, w, 10, 10,7, 6,2, 3,5, 4,8, 1,9)
    BY <1>1, <2>3, Turn10_5
  <2>5. Works10(s, w, 7, 6,2, 3,5, 4,8, 7,10, 9,1)
    BY <1>1, <2>4, Reverse10_1, Turn10_4
  <2>6. Works10(s, w, 4, 3,5, 4,8, 7,10, 9,1, 2,6)
    BY <1>1, <2>5, Reverse10_0, Turn10_5
  <2>7. Works10(s, w, 1, 4,8, 7,10, 9,1, 2,6, 5,3)
    BY <1>1, <2>6, Reverse10_0, Turn10_5
  <2> QED
    BY <1>1, <1>2, <2>1, <2>7, Rotate10_2, Exchange10, Begin10 DEF Right, w
<1>3. CASE Line10(s, 2,6, 5,3, 4,9, 10,8, 7,1)
  <2>1. Links10(s, 2,6, 5,3, 4,9, 10,8, 7,1) = Out10(s)
    BY DEF Links10, Out10
  <2>2. Links10(s, 8,10, 1,7, 6,2, 3,5, 4,9) = In10(s)
    BY DEF Links10, In10
  <2>3. Works10(s, w, 13, 8,10, 1,7, 6,2, 3,5, 4,9)
    BY <1>1, <2>2, Exchange10, AtEnd10
  <2>4. Works10(s, w, 10, 10,8, 1,7, 6,2, 3,5, 4,9)
    BY <1>1, <2>3, Turn10_2
  <2>5. Works10(s, w, 7, 6,2, 3,5, 4,9, 10,8, 7,1)
    BY <1>1, <2>4, Reverse10_4, Turn10_5
  <2>6. Works10(s, w, 4, 3,5, 4,9, 10,8, 7,1, 2,6)
    BY <1>1, <2>5, Reverse10_0, Turn10_5
  <2>7. Works10(s, w, 1, 4,9, 10,8, 7,1, 2,6, 5,3)
    BY <1>1, <2>6, Reverse10_0, Turn10_5
  <2> QED
    BY <1>1, <1>3, <2>1, <2>7, Rotate10_2, Exchange10, Begin10 DEF Right, w
<1>4. CASE Line10(s, 2,6, 5,7, 8,3, 4,10, 9,1)
  <2>1. Links10(s, 2,6, 5,7, 8,3, 4,10, 9,1) = Out10(s)
    BY DEF Links10, Out10
  <2>2. Links10(s, 8,3, 2,6, 7,5, 4,10, 1,9) = In10(s)
    BY DEF Links10, In10
  <2>3. Works10(s, w, 13, 8,3, 2,6, 7,5, 4,10, 1,9)
    BY <1>1, <2>2, Exchange10, AtEnd10
  <2>4. Works10(s, w, 10, 10,4, 5,7, 6,2, 3,8, 1,9)
    BY <1>1, <2>3, Turn10_5
  <2>5. Works10(s, w, 7, 6,2, 3,8, 7,5, 4,10, 9,1)
    BY <1>1, <2>4, Reverse10_1, Turn10_3
  <2>6. Works10(s, w, 4, 3,8, 7,5, 4,10, 9,1, 2,6)
    BY <1>1, <2>5, Reverse10_0, Turn10_5
  <2>7. Works10(s, w, 1, 4,10, 9,1, 2,6, 5,7, 8,3)
    BY <1>1, <2>6, Reverse10_0, Turn10_4
  <2> QED
    BY <1>1, <1>4, <2>1, <2>7, Rotate10_3, Exchange10, Begin10 DEF Right, w
<1>5. CASE Line10(s, 2,6, 5,7, 8,10, 9,3, 4,1)
  <2>1. Links10(s, 2,6, 5,7, 8,10, 9,3, 4,1) = Out10(s)
    BY DEF Links10, Out10
  <2>2. Links10(s, 8,10, 1,4, 5,7, 6,2, 3,9) = In10(s)
    BY DEF Links10, In10
  <2>3. Works10(s, w, 13, 8,10, 1,4, 5,7, 6,2, 3,9)
    BY <1>1, <2>2, Exchange10, AtEnd10
  <2>4. Works10(s, w, 10, 10,8, 1,4, 5,7, 6,2, 3,9)
    BY <1>1, <2>3, Turn10_2
  <2>5. Works10(s, w, 7, 6,2, 3,9, 10,8, 7,5, 4,1)
    BY <1>1, <2>4, Reverse10_4, Turn10_4
  <2>6. Works10(s, w, 4, 3,9, 10,8, 7,5, 4,1, 2,6)
    BY <1>1, <2>5, Reverse10_0, Turn10_5
  <2>7. Works10(s, w, 1, 4,1, 2,6, 5,7, 8,10, 9,3)
    BY <1>1, <2>6, Reverse10_0, Turn10_3
  <2> QED
    BY <1>1, <1>5, <2>1, <2>7, Rotate10_4, Exchange10, Begin10 DEF Right, w
<1>6. CASE Line10(s, 2,6, 5,9, 10,7, 8,3, 4,1)
  <2>1. Links10(s, 2,6, 5,9, 10,7, 8,3, 4,1) = Out10(s)
    BY DEF Links10, Out10
  <2>2. Links10(s, 8,3, 2,6, 7,10, 1,4, 5,9) = In10(s)
    BY DEF Links10, In10
  <2>3. Works10(s, w, 13, 8,3, 2,6, 7,10, 1,4, 5,9)
    BY <1>1, <2>2, Exchange10, AtEnd10
  <2>4. Works10(s, w, 10, 10,7, 6,2, 3,8, 1,4, 5,9)
    BY <1>1, <2>3, Turn10_4
  <2>5. Works10(s, w, 7, 6,2, 3,8, 7,10, 9,5, 4,1)
    BY <1>1, <2>4, Reverse10_2, Turn10_3
  <2>6. Works10(s, w, 4, 3,8, 7,10, 9,5, 4,1, 2,6)
    BY <1>1, <2>5, Reverse10_0, Turn10_5
  <2>7. Works10(s, w, 1, 4,1, 2,6, 5,9, 10,7, 8,3)
    BY <1>1, <2>6, Reverse10_0, Turn10_3
  <2> QED
    BY <1>1, <1>6, <2>1, <2>7, Rotate10_4, Exchange10, Begin10 DEF Right, w
<1>7. CASE Line10(s, 2,6, 5,10, 9,3, 4,8, 7,1)
  <2>1. Links10(s, 2,6, 5,10, 9,3, 4,8, 7,1) = Out10(s)
    BY DEF Links10, Out10
  <2>2. Links10(s, 8,4, 5,10, 1,7, 6,2, 3,9) = In10(s)
    BY DEF Links10, In10
  <2>3. Works10(s, w, 13, 8,4, 5,10, 1,7, 6,2, 3,9)
    BY <1>1, <2>2, Exchange10, AtEnd10
  <2>4. Works10(s, w, 10, 10,5, 4,8, 1,7, 6,2, 3,9)
    BY <1>1, <2>3, Turn10_3
  <2>5. Works10(s, w, 7, 6,2, 3,9, 10,5, 4,8, 7,1)
    BY <1>1, <2>4, Reverse10_3, Turn10_5
  <2>6. Works10(s, w, 4, 3,9, 10,5, 4,8, 7,1, 2,6)
    BY <1>1, <2>5, Reverse10_0, Turn10_5
  <2>7. Works10(s, w, 1, 4,8, 7,1, 2,6, 5,10, 9,3)
    BY <1>1, <2>6, Reverse10_0, Turn10_4
  <2> QED
    BY <1>1, <1>7, <2>1, <2>7, Rotate10_3, Exchange10, Begin10 DEF Right, w
<1>8. CASE Line10(s, 2,7, 8,6, 5,3, 4,10, 9,1)
  <2>1. Links10(s, 2,7, 8,6, 5,3, 4,10, 9,1) = Out10(s)
    BY DEF Links10, Out10
  <2>2. Links10(s, 8,6, 7,2, 3,5, 4,10, 1,9) = In10(s)
    BY DEF Links10, In10
  <2>3. Works10(s, w, 13, 8,6, 7,2, 3,5, 4,10, 1,9)
    BY <1>1, <2>2, Exchange10, AtEnd10
  <2>4. Works10(s, w, 10, 10,4, 5,3, 2,7, 6,8, 1,9)
    BY <1>1, <2>3, Turn10_5
  <2>5. Works10(s, w, 7, 6,8, 7,2, 3,5, 4,10, 9,1)
    BY <1>1, <2>4, Reverse10_1, Turn10_2
  <2>6. Works10(s, w, 4, 3,5, 4,10, 9,1, 2,7, 8,6)
    BY <1>1, <2>5, Reverse10_0, Turn10_4
  <2>7. Works10(s, w, 1, 4,10, 9,1, 2,7, 8,6, 5,3)
    BY <1>1, <2>6, Reverse10_0, Turn10_5
  <2> QED
    BY <1>1, <1>8, <2>1, <2>7, Rotate10_3, Exchange10, Begin10 DEF Right, w
<1>9. CASE Line10(s, 2,7, 8,6, 5,9, 10,3, 4,1)
  <2>1. Links10(s, 2,7, 8,6, 5,9, 10,3, 4,1) = Out10(s)
    BY DEF Links10, Out10
  <2>2. Links10(s, 8,6, 7,2, 3,10, 1,4, 5,9) = In10(s)
    BY DEF Links10, In10
  <2>3. Works10(s, w, 13, 8,6, 7,2, 3,10, 1,4, 5,9)
    BY <1>1, <2>2, Exchange10, AtEnd10
  <2>4. Works10(s, w, 10, 10,3, 2,7, 6,8, 1,4, 5,9)
    BY <1>1, <2>3, Turn10_4
  <2>5. Works10(s, w, 7, 6,8, 7,2, 3,10, 9,5, 4,1)
    BY <1>1, <2>4, Reverse10_2, Turn10_2
  <2>6. Works10(s, w, 4, 3,10, 9,5, 4,1, 2,7, 8,6)
    BY <1>1, <2>5, Reverse10_0, Turn10_4
  <2>7. Works10(s, w, 1, 4,1, 2,7, 8,6, 5,9, 10,3)
    BY <1>1, <2>6, Reverse10_0, Turn10_4
  <2> QED
    BY <1>1, <1>9, <2>1, <2>7, Rotate10_4, Exchange10, Begin10 DEF Right, w
<1>10. CASE Line10(s, 2,7, 8,10, 9,6, 5,3, 4,1)
  <2>1. Links10(s, 2,7, 8,10, 9,6, 5,3, 4,1) = Out10(s)
    BY DEF Links10, Out10
  <2>2. Links10(s, 8,10, 1,4, 5,3, 2,7, 6,9) = In10(s)
    BY DEF Links10, In10
  <2>3. Works10(s, w, 13, 8,10, 1,4, 5,3, 2,7, 6,9)
    BY <1>1, <2>2, Exchange10, AtEnd10
  <2>4. Works10(s, w, 10, 10,8, 1,4, 5,3, 2,7, 6,9)
    BY <1>1, <2>3, Turn10_2
  <2>5. Works10(s, w, 7, 6,9, 10,8, 7,2, 3,5, 4,1)
    BY <1>1, <2>4, Reverse10_4, Turn10_3
  <2>6. Works10(s, w, 4, 3,5, 4,1, 2,7, 8,10, 9,6)
    BY <1>1, <2>5, Reverse10_0, Turn10_3
  <2>7. Works10(s, w, 1, 4,1, 2,7, 8,10, 9,6, 5,3)
    BY <1>1, <2>6, Reverse10_0, Turn10_5
  <2> QED
    BY <1>1, <1>10, <2>1, <2>7, Rotate10_4, Exchange10, Begin10 DEF Right, w
<1>11. CASE Line10(s, 2,9, 10,7, 8,6, 5,3, 4,1)
  <2>1. Links10(s, 2,9, 10,7, 8,6, 5,3, 4,1) = Out10(s)
    BY DEF Links10, Out10
  <2>2. Links10(s, 8,6, 7,10, 1,4, 5,3, 2,9) = In10(s)
    BY DEF Links10, In10
  <2>3. Works10(s, w, 13, 8,6, 7,10, 1,4, 5,3, 2,9)
    BY <1>1, <2>2, Exchange10, AtEnd10
  <2>4. Works10(s, w, 10, 10,7, 6,8, 1,4, 5,3, 2,9)
    BY <1>1, <2>3, Turn10_3
  <2>5. Works10(s, w, 7, 6,8, 7,10, 9,2, 3,5, 4,1)
    BY <1>1, <2>4, Reverse10_3, Turn10_2
  <2>6. Works10(s, w, 4, 3,5, 4,1, 2,9, 10,7, 8,6)
    BY <1>1, <2>5, Reverse10_0, Turn10_3
  <2>7. Works10(s, w, 1, 4,1, 2,9, 10,7, 8,6, 5,3)
    BY <1>1, <2>6, Reverse10_0, Turn10_5
  <2> QED
    BY <1>1, <1>11, <2>1, <2>7, Rotate10_4, Exchange10, Begin10 DEF Right, w
<1>12. CASE Line10(s, 2,10, 9,6, 5,3, 4,8, 7,1)
  <2>1. Links10(s, 2,10, 9,6, 5,3, 4,8, 7,1) = Out10(s)
    BY DEF Links10, Out10
  <2>2. Links10(s, 8,4, 5,3, 2,10, 1,7, 6,9) = In10(s)
    BY DEF Links10, In10
  <2>3. Works10(s, w, 13, 8,4, 5,3, 2,10, 1,7, 6,9)
    BY <1>1, <2>2, Exchange10, AtEnd10
  <2>4. Works10(s, w, 10, 10,2, 3,5, 4,8, 1,7, 6,9)
    BY <1>1, <2>3, Turn10_4
  <2>5. Works10(s, w, 7, 6,9, 10,2, 3,5, 4,8, 7,1)
    BY <1>1, <2>4, Reverse10_2, Turn10_5
  <2>6. Works10(s, w, 4, 3,5, 4,8, 7,1, 2,10, 9,6)
    BY <1>1, <2>5, Reverse10_0, Turn10_4
  <2>7. Works10(s, w, 1, 4,8, 7,1, 2,10, 9,6, 5,3)
    BY <1>1, <2>6, Reverse10_0, Turn10_5
  <2> QED
    BY <1>1, <1>12, <2>1, <2>7, Rotate10_3, Exchange10, Begin10 DEF Right, w
<1>13. CASE Line10(s, 2,10, 9,6, 5,7, 8,3, 4,1)
  <2>1. Links10(s, 2,10, 9,6, 5,7, 8,3, 4,1) = Out10(s)
    BY DEF Links10, Out10
  <2>2. Links10(s, 8,3, 2,10, 1,4, 5,7, 6,9) = In10(s)
    BY DEF Links10, In10
  <2>3. Works10(s, w, 13, 8,3, 2,10, 1,4, 5,7, 6,9)
    BY <1>1, <2>2, Exchange10, AtEnd10
  <2>4. Works10(s, w, 10, 10,2, 3,8, 1,4, 5,7, 6,9)
    BY <1>1, <2>3, Turn10_3
  <2>5. Works10(s, w, 7, 6,9, 10,2, 3,8, 7,5, 4,1)
    BY <1>1, <2>4, Reverse10_3, Turn10_4
  <2>6. Works10(s, w, 4, 3,8, 7,5, 4,1, 2,10, 9,6)
    BY <1>1, <2>5, Reverse10_0, Turn10_4
  <2>7. Works10(s, w, 1, 4,1, 2,10, 9,6, 5,7, 8,3)
    BY <1>1, <2>6, Reverse10_0, Turn10_4
  <2> QED
    BY <1>1, <1>13, <2>1, <2>7, Rotate10_4, Exchange10, Begin10 DEF Right, w
<1> QED
  BY <1>2, <1>3, <1>4, <1>5, <1>6, <1>7, <1>8, <1>9, <1>10, <1>11, <1>12, <1>13
     DEF Orders10, Orders10_27

\* Make5OptMove, case 28.
LEMMA Move10_28 ==
    ASSUME NEW s, Chosen(s, 10), Orders10(s, 28)
    PROVE  Right(s, Make5OptMove(s, 28))
<1> DEFINE w == Make5OptMove(s, 28)
<1>1. /\ w \in Seq(Nat) /\ Len(w) = 12 /\ Over(w, 13)
      /\ Swap(w, 1, 4, 6, 5, 8) /\ Swap(w, 4, 7, 2, 1, 4)
      /\ Swap(w, 7, 10, 8, 5, 4) /\ Swap(w, 10, 13, 9, 10, 1)
  BY DEF Swap, Over, Make5OptMove
<1> HIDE DEF w
<1>2. CASE Line10(s, 2,7, 8,3, 4,6, 5,10, 9,1)
  <2>1. Links10(s, 2,7, 8,3, 4,6, 5,10, 9,1) = Out10(s)
    BY DEF Links10, Out10
  <2>2. Links10(s, 8,3, 2,7, 6,4, 5,10, 1,9) = In10(s)
    BY DEF Links10, In10
  <2>3. Works10(s, w, 13, 8,3, 2,7, 6,4, 5,10, 1,9)
    BY <1>1, <2>2, Exchange10, AtEnd10
  <2>4. Works10(s, w, 10, 10,5, 4,6, 7,2, 3,8, 1,9)
    BY <1>1, <2>3, Turn10_5
  <2>5. Works10(s, w, 7, 5,10, 9,1, 4,6, 7,2, 3,8)
    BY <1>1, <2>4, Rotate10_1, Turn10_3
  <2>6. Works10(s, w, 4, 1,9, 10,5, 8,3, 4,6, 7,2)
    BY <1>1, <2>5, Rotate10_1, Turn10_4
  <2>7. Works10(s, w, 1, 5,10, 9,1, 2,7, 8,3, 4,6)
    BY <1>1, <2>6, Rotate10_1, Turn10_4
  <2> QED
    BY <1>1, <1>2, <2>1, <2>7, Rotate10_3, Exchange10, Begin10 DEF Right, w
<1>3. CASE Line10(s, 2,7, 8,3, 4,9, 10,6, 5,1)
  <2>1. Links10(s, 2,7, 8,3, 4,9, 10,6, 5,1) = Out10(s)
    BY DEF Links10, Out10
  <2>2. Links10(s, 8,3, 2,7, 6,10, 1,5, 4,9) = In10(s)
    BY DEF Links10, In10
  <2>3. Works10(s, w, 13, 8,3, 2,7, 6,10, 1,5, 4,9)
    BY <1>1, <2>2, Exchange10, AtEnd10
  <2>4. Works10(s, w, 10, 10,6, 7,2, 3,8, 1,5, 4,9)
    BY <1>1, <2>3, Turn10_4
  <2>5. Works10(s, w, 7, 5,1, 4,9, 10,6, 7,2, 3,8)
    BY <1>1, <2>4, Rotate10_2, Turn10_2
  <2>6. Works10(s, w, 4, 1,5, 8,3, 4,9, 10,6, 7,2)
    BY <1>1, <2>5, Rotate10_1, Turn10_3
  <2>7. Works10(s, w, 1, 5,1, 2,7, 8,3, 4,9, 10,6)
    BY <1>1, <2>6, Rotate10_1, Turn10_3
  <2> QED
    BY <1>1, <1>3, <2>1, <2>7, Rotate10_4, Exchange10, Begin10 DEF Right, w
<1>4. CASE Line10(s, 2,7, 8,10, 9,3, 4,6, 5,1)
  <2>1. Links10(s, 2,7, 8,10, 9,3, 4,6, 5,1) = Out10(s)
    BY DEF Links10, Out10
  <2>2. Links10(s, 8,10, 1,5, 4,6, 7,2, 3,9) = In10(s)
    BY DEF Links10, In10
  <2>3. Works10(s, w, 13, 8,10, 1,5, 4,6, 7,2, 3,9)
    BY <1>1, <2>2, Exchange10, AtEnd10
  <2>4. Works10(s, w, 10, 10,8, 1,5, 4,6, 7,2, 3,9)
    BY <1>1, <2>3, Turn10_2
  <2>5. Works10(s, w, 7, 5,1, 4,6, 7,2, 3,9, 10,8)
    BY <1>1, <2>4, Rotate10_4, Turn10_2
  <2>6. Works10(s, w, 4, 1,5, 8,10, 9,3, 4,6, 7,2)
    BY <1>1, <2>5, Rotate10_2, Turn10_4
  <2>7. Works10(s, w, 1, 5,1, 2,7, 8,10, 9,3, 4,6)
    BY <1>1, <2>6, Rotate10_1, Turn10_3
  <2> QED
    BY <1>1, <1>4, <2>1, <2>7, Rotate10_4, Exchange10, Begin10 DEF Right, w
<1>5. CASE Line10(s, 2,10, 9,7, 8,3, 4,6, 5,1)
  <2>1. Links10(s, 2,10, 9,7, 8,3, 4,6, 5,1) = Out10(s)
    BY DEF Links10, Out10
  <2>2. Links10(s, 8,3, 2,10, 1,5, 4,6, 7,9) = In10(s)
    BY DEF Links10, In10
  <2>3. Works10(s, w, 13, 8,3, 2,10, 1,5, 4,6, 7,9)
    BY <1>1, <2>2, Exchange10, AtEnd10
  <2>4. Works10(s, w, 10, 10,2, 3,8, 1,5, 4,6, 7,9)
    BY <1>1, <2>3, Turn10_3
  <2>5. Works10(s, w, 7, 5,1, 4,6, 7,9, 10,2, 3,8)
    BY <1>1, <2>4, Rotate10_3, Turn10_2
  <2>6. Works10(s, w, 4, 1,5, 8,3, 4,6, 7,9, 10,2)
    BY <1>1, <2>5, Rotate10_1, Turn10_3
  <2>7. Works10(s, w, 1, 5,1, 2,10, 9,7, 8,3, 4,6)
    BY <1>1, <2>6, Rotate10_2, Turn10_4
  <2> QED
    BY <1>1, <1>5, <2>1, <2>7, Rotate10_4, Exchange10, Begin10 DEF Right, w
<1> QED
  BY <1>2, <1>3, <1>4, <1>5 DEF Orders10, Orders10_28

\* Make5OptMove, case 29.
LEMMA Move10_29 ==
    ASSUME NEW s, Chosen(s, 10), Orders10(s, 29)
    PROVE  Right(s, Make5OptMove(s, 29))
<1> DEFINE w == Make5OptMove(s, 29)
<1>1. /\ w \in Seq(Nat) /\ Len(w) = 12 /\ Over(w, 13)
      /\ Swap(w, 1, 4, 1, 2, 7) /\ Swap(w, 4, 7, 3, 4, 5)
      /\ Swap(w, 7, 10, 3, 6, 7) /\ Swap(w, 10, 13, 9, 10, 1)
  BY DEF Swap, Over, Make5OptMove
<1> HIDE DEF w
<1>2. CASE Line10(s, 2,6, 5,8, 7,4, 3,10, 9,1)
  <2>1. Links10(s, 2,6, 5,8, 7,4, 3,10, 9,1) = Out10(s)
    BY DEF Links10, Out10
  <2>2. Links10(s, 8,5, 4,7, 6,2, 3,10, 1,9) = In10(s)
    BY DEF Links10, In10
  <2>3. Works10(s, w, 13, 8,5, 4,7, 6,2, 3,10, 1,9)
    BY <1>1, <2>2, Exchange10, AtEnd10
  <2>4. Works10(s, w, 10, 10,3, 2,6, 7,4, 5,8, 1,9)
    BY <1>1, <2>3, Turn10_5
  <2>5. Works10(s, w, 7, 6,2, 7,4, 5,8, 1,9, 10,3)
    BY <1>1, <2>4, Rotate10_4, Turn10_2
  <2>6. Works10(s, w, 4, 4,7, 2,6, 5,8, 1,9, 10,3)
    BY <1>1, <2>5, Turn10_3
  <2>7. Works10(s, w, 1, 2,6, 5,8, 7,4, 3,10, 9,1)
    BY <1>1, <2>6, Reverse10_2, Turn10_3
  <2> QED
    BY <1>1, <1>2, <2>1, <2>7, Exchange10, Begin10 DEF Right, w
<1>3. CASE Line10(s, 2,6, 5,8, 7,9, 10,4, 3,1)
  <2>1. Links10(s, 2,6, 5,8, 7,9, 10,4, 3,1) = Out10(s)
    BY DEF Links10, Out10
  <2>2. Links10(s, 8,5, 4,10, 1,3, 2,6, 7,9) = In10(s)
    BY DEF Links10, In10
  <2>3. Works10(s, w, 13, 8,5, 4,10, 1,3, 2,6, 7,9)
    BY <1>1, <2>2, Exchange10, AtEnd10
  <2>4. Works10(s, w, 10, 10,4, 5,8, 1,3, 2,6, 7,9)
    BY <1>1, <2>3, Turn10_3
  <2>5. Works10(s, w, 7, 6,2, 7,9, 10,4, 5,8, 1,3)
    BY <1>1, <2>4, Rotate10_2, Turn10_2
  <2>6. Works10(s, w, 4, 4,10, 9,7, 2,6, 5,8, 1,3)
    BY <1>1, <2>5, Turn10_4
  <2>7. Works10(s, w, 1, 2,6, 5,8, 7,9, 10,4, 3,1)
    BY <1>1, <2>6, Reverse10_1, Turn10_3
  <2> QED
    BY <1>1, <1>3, <2>1, <2>7, Exchange10, Begin10 DEF Right, w
<1>4. CASE Line10(s, 2,6, 5,9, 10,8, 7,4, 3,1)
  <2>1. Links10(s, 2,6, 5,9, 10,8, 7,4, 3,1) = Out10(s)
    BY DEF Links10, Out10
  <2>2. Links10(s, 8,10, 1,3, 2,6, 7,4, 5,9) = In10(s)
    BY DEF Links10, In10
  <2>3. Works10(s, w, 13, 8,10, 1,3, 2,6, 7,4, 5,9)
    BY <1>1, <2>2, Exchange10, AtEnd10
  <2>4. Works10(s, w, 10, 10,8, 1,3, 2,6, 7,4, 5,9)
    BY <1>1, <2>3, Turn10_2
  <2>5. Works10(s, w, 7, 6,2, 7,4, 5,9, 10,8, 1,3)
    BY <1>1, <2>4, Rotate10_3, Turn10_2
  <2>6. Works10(s, w, 4, 4,7, 2,6, 5,9, 10,8, 1,3)
    BY <1>1, <2>5, Turn10_3
  <2>7. Works10(s, w, 1, 2,6, 5,9, 10,8, 7,4, 3,1)
    BY <1>1, <2>6, Reverse10_1, Turn10_4
  <2> QED
    BY <1>1, <1>4, <2>1, <2>7, Exchange10, Begin10 DEF Right, w
<1>5. CASE Line10(s, 2,9, 10,6, 5,8, 7,4, 3,1)
  <2>1. Links10(s, 2,9, 10,6, 5,8, 7,4, 3,1) = Out10(s)
    BY DEF Links10, Out10
  <2>2. Links10(s, 8,5, 4,7, 6,10, 1,3, 2,9) = In10(s)
    BY DEF Links10, In10
  <2>3. Works10(s, w, 13, 8,5, 4,7, 6,10, 1,3, 2,9)
    BY <1>1, <2>2, Exchange10, AtEnd10
  <2>4. Works10(s, w, 10, 10,6, 7,4, 5,8, 1,3, 2,9)
    BY <1>1, <2>3, Turn10_4
  <2>5. Works10(s, w, 7, 6,10, 9,2, 7,4, 5,8, 1,3)
    BY <1>1, <2>4, Rotate10_1, Turn10_3
  <2>6. Works10(s, w, 4, 4,7, 2,9, 10,6, 5,8, 1,3)
    BY <1>1, <2>5, Turn10_4
  <2>7. Works10(s, w, 1, 2,9, 10,6, 5,8, 7,4, 3,1)
    BY <1>1, <2>6, Reverse10_1, Turn10_4
  <2> QED
    BY <1>1, <1>5, <2>1, <2>7, Exchange10, Begin10 DEF Right, w
<1> QED
  BY <1>2, <1>3, <1>4, <1>5 DEF Orders10, Orders10_29

\* Make5OptMove, case 30.
LEMMA Move10_30 ==
    ASSUME NEW s, Chosen(s, 10), Orders10(s, 30)
    PROVE  Right(s, Make5OptMove(s, 30))
<1> DEFINE w == Make5OptMove(s, 30)
<1>1. CASE Line10(s, 2,4, 3,7, 8,5, 6,10, 9,1)
  <2>1. BETWEEN(s[3], s[7], s[5])
    BY <1>1, NodesAre DEF Line10, BETWEEN, Chosen, Node
  <2>2. w = <<3, 4, 5, 7, 8, 1, 7, 2, 3, 9, 10, 1>>
    BY <2>1 DEF Make5OptMove
  <2> HIDE DEF w
  <2>3. /\ w \in Seq(Nat) /\ Len(w) = 12 /\ Over(w, 13)
        /\ Swap(w, 1, 4, 3, 4, 5) /\ Swap(w, 4, 7, 7, 8, 1)
        /\ Swap(w, 7, 10, 7, 2, 3) /\ Swap(w, 10, 13, 9, 10, 1)
    BY <2>2 DEF Swap, Over
  <2>4. Links10(s, 2,4, 3,7, 8,5, 6,10, 9,1) = Out10(s)
    BY DEF Links10, Out10
  <2>5. Links10(s, 8,5, 4,2, 3,7, 6,10, 1,9) = In10(s)
    BY DEF Links10, In10
  <2>6. Works10(s, w, 13, 8,5, 4,2, 3,7, 6,10, 1,9)
    BY <2>3, <2>5, Exchange10, AtEnd10
  <2>7. Works10(s, w, 10, 10,6, 7,3, 2,4, 5,8, 1,9)
    BY <2>3, <2>6, Turn10_5
  <2>8. Works10(s, w, 7, 2,4, 5,8, 1,9, 10,6, 3,7)
    BY <2>3, <2>7, Reverse10_4, Turn10_5
  <2>9. Works10(s, w, 4, 8,5, 4,2, 1,9, 10,6, 3,7)
    BY <2>3, <2>8, Turn10_3
  <2>10. Works10(s, w, 1, 4,2, 1,9, 10,6, 5,8, 7,3)
    BY <2>3, <2>9, Reverse10_1, Turn10_4
  <2> QED
    BY <2>3, <1>1, <2>4, <2>10, Reverse10_4, Exchange10, Begin10 DEF Right, w
<1>2. CASE Line10(s, 2,4, 3,7, 8,10, 9,5, 6,1)
  <2>1. BETWEEN(s[3], s[7], s[5])
    BY <1>2, NodesAre DEF Line10, BETWEEN, Chosen, Node
  <2>2. w = <<3, 4, 5, 7, 8, 1, 7, 2, 3, 9, 10, 1>>
    BY <2>1 DEF Make5OptMove
  <2> HIDE DEF w
  <2>3. /\ w \in Seq(Nat) /\ Len(w) = 12 /\ Over(w, 13)
        /\ Swap(w, 1, 4, 3, 4, 5) /\ Swap(w, 4, 7, 7, 8, 1)
        /\ Swap(w, 7, 10, 7, 2, 3) /\ Swap(w, 10, 13, 9, 10, 1)
    BY <2>2 DEF Swap, Over
  <2>4. Links10(s, 2,4, 3,7, 8,10, 9,5, 6,1) = Out10(s)
    BY DEF Links10, Out10
  <2>5. Links10(s, 8,10, 1,6, 7,3, 2,4, 5,9) = In10(s)
    BY DEF Links10, In10
  <2>6. Works10(s, w, 13, 8,10, 1,6, 7,3, 2,4, 5,9)
    BY <2>3, <2>5, Exchange10, AtEnd10
  <2>7. Works10(s, w, 10, 10,8, 1,6, 7,3, 2,4, 5,9)
    BY <2>3, <2>6, Turn10_2
  <2>8. Works10(s, w, 7, 2,4, 5,9, 10,8, 1,6, 3,7)
    BY <2>3, <2>7, Reverse10_3, Turn10_5
  <2>9. Works10(s, w, 4, 8,10, 9,5, 4,2, 1,6, 3,7)
    BY <2>3, <2>8, Turn10_4
  <2>10. Works10(s, w, 1, 4,2, 1,6, 5,9, 10,8, 7,3)
    BY <2>3, <2>9, Reverse10_1, Turn10_3
  <2> QED
    BY <2>3, <1>2, <2>4, <2>10, Reverse10_4, Exchange10, Begin10 DEF Right, w
<1>3. CASE Line10(s, 2,4, 3,10, 9,7, 8,5, 6,1)
  <2>1. BETWEEN(s[3], s[7], s[5])
    BY <1>3, NodesAre DEF Line10, BETWEEN, Chosen, Node
  <2>2. w = <<3, 4, 5, 7, 8, 1, 7, 2, 3, 9, 10, 1>>
    BY <2>1 DEF Make5OptMove
  <2> HIDE DEF w
  <2>3. /\ w \in Seq(Nat) /\ Len(w) = 12 /\ Over(w, 13)
        /\ Swap(w, 1, 4, 3, 4, 5) /\ Swap(w, 4, 7, 7, 8, 1)
        /\ Swap(w, 7, 10, 7, 2, 3) /\ Swap(w, 10, 13, 9, 10, 1)
    BY <2>2 DEF Swap, Over
  <2>4. Links10(s, 2,4, 3,10, 9,7, 8,5, 6,1) = Out10(s)
    BY DEF Links10, Out10
  <2>5. Links10(s, 8,5, 4,2, 3,10, 1,6, 7,9) = In10(s)
    BY DEF Links10, In10
  <2>6. Works10(s, w, 13, 8,5, 4,2, 3,10, 1,6, 7,9)
    BY <2>3, <2>5, Exchange10, AtEnd10
  <2>7. Works10(s, w, 10, 10,3, 2,4, 5,8, 1,6, 7,9)
    BY <2>3, <2>6, Turn10_4
  <2>8. Works10(s, w, 7, 2,4, 5,8, 1,6, 3,10, 9,7)
    BY <2>3, <2>7, Reverse10_1, Turn10_4
  <2>9. Works10(s, w, 4, 8,5, 4,2, 1,6, 3,10, 9,7)
    BY <2>3, <2>8, Turn10_3
  <2>10. Works10(s, w, 1, 4,2, 1,6, 5,8, 7,9, 10,3)
    BY <2>3, <2>9, Reverse10_2, Turn10_3
  <2> QED
    BY <2>3, <1>3, <2>4, <2>10, Reverse10_4, Exchange10, Begin10 DEF Right, w
<1>4. CASE Line10(s, 2,9, 10,4, 3,7, 8,5, 6,1)
  <2>1. BETWEEN(s[3], s[7], s[5])
    BY <1>4, NodesAre DEF Line10, BETWEEN, Chosen, Node
  <2>2. w = <<3, 4, 5, 7, 8, 1, 7, 2, 3, 9, 10, 1>>
    BY <2>1 DEF Make5OptMove
  <2> HIDE DEF w
  <2>3. /\ w \in Seq(Nat) /\ Len(w) = 12 /\ Over(w, 13)
        /\ Swap(w, 1, 4, 3, 4, 5) /\ Swap(w, 4, 7, 7, 8, 1)
        /\ Swap(w, 7, 10, 7, 2, 3) /\ Swap(w, 10, 13, 9, 10, 1)
    BY <2>2 DEF Swap, Over
  <2>4. Links10(s, 2,9, 10,4, 3,7, 8,5, 6,1) = Out10(s)
    BY DEF Links10, Out10
  <2>5. Links10(s, 8,5, 4,10, 1,6, 7,3, 2,9) = In10(s)
    BY DEF Links10, In10
  <2>6. Works10(s, w, 13, 8,5, 4,10, 1,6, 7,3, 2,9)
    BY <2>3, <2>5, Exchange10, AtEnd10
  <2>7. Works10(s, w, 10, 10,4, 5,8, 1,6, 7,3, 2,9)
    BY <2>3, <2>6, Turn10_3
  <2>8. Works10(s, w, 7, 2,9, 10,4, 5,8, 1,6, 3,7)
    BY <2>3, <2>7, Reverse10_2, Turn10_5
  <2>9. Works10(s, w, 4, 8,5, 4,10, 9,2, 1,6, 3,7)
    BY <2>3, <2>8, Turn10_4
  <2>10. Works10(s, w, 1, 4,10, 9,2, 1,6, 5,8, 7,3)
    BY <2>3, <2>9, Reverse10_1, Turn10_4
  <2> QED
    BY <2>3, <1>4, <2>4, <2>10, Reverse10_3, Exchange10, Begin10 DEF Right, w
<1>5. CASE Line10(s, 2,8, 7,4, 3,5, 6,10, 9,1)
  <2>1. ~BETWEEN(s[3], s[7], s[5])
    BY <1>5, NodesAre DEF Line10, BETWEEN, Chosen, Node
  <2>2. w = <<3, 4, 5, 3, 6, 7, 1, 2, 3, 9, 10, 1>>
    BY <2>1 DEF Make5OptMove
  <2> HIDE DEF w
  <2>3. /\ w \in Seq(Nat) /\ Len(w) = 12 /\ Over(w, 13)
        /\ Swap(w, 1, 4, 3, 4, 5) /\ Swap(w, 4, 7, 3, 6, 7)
        /\ Swap(w, 7, 10, 1, 2, 3) /\ Swap(w, 10, 13, 9, 10, 1)
    BY <2>2 DEF Swap, Over
  <2>4. Links10(s, 2,8, 7,4, 3,5, 6,10, 9,1) = Out10(s)
    BY DEF Links10, Out10
  <2>5. Links10(s, 8,2, 3,5, 4,7, 6,10, 1,9) = In10(s)
    BY DEF Links10, In10
  <2>6. Works10(s, w, 13, 8,2, 3,5, 4,7, 6,10, 1,9)
    BY <2>3, <2>5, Exchange10, AtEnd10
  <2>7. Works10(s, w, 10, 10,6, 7,4, 5,3, 2,8, 1,9)
    BY <2>3, <2>6, Turn10_5
  <2>8. Works10(s, w, 7, 2,8, 3,5, 4,7, 6,10, 9,1)
    BY <2>3, <2>7, Reverse10_1, Turn10_2
  <2>9. Works10(s, w, 4, 6,10, 9,1, 2,8, 7,4, 5,3)
    BY <2>3, <2>8, Reverse10_4, Turn10_4
  <2>10. Works10(s, w, 1, 4,7, 8,2, 1,9, 10,6, 5,3)
    BY <2>3, <2>9, Turn10_5
  <2> QED
    BY <2>3, <1>5, <2>4, <2>10, Reverse10_3, Exchange10, Begin10 DEF Right, w
<1>6. CASE Line10(s, 2,8, 7,4, 3,10, 9,5, 6,1)
  <2>1. ~BETWEEN(s[3], s[7], s[5])
    BY <1>6, NodesAre DEF Line10, BETWEEN, Chosen, Node
  <2>2. w = <<3, 4, 5, 3, 6, 7, 1, 2, 3, 9, 10, 1>>
    BY <2>1 DEF Make5OptMove
  <2> HIDE DEF w
  <2>3. /\ w \in Seq(Nat) /\ Len(w) = 12 /\ Over(w, 13)
        /\ Swap(w, 1, 4, 3, 4, 5) /\ Swap(w, 4, 7, 3, 6, 7)
        /\ Swap(w, 7, 10, 1, 2, 3) /\ Swap(w, 10, 13, 9, 10, 1)
    BY <2>2 DEF Swap, Over
  <2>4. Links10(s, 2,8, 7,4, 3,10, 9,5, 6,1) = Out10(s)
    BY DEF Links10, Out10
  <2>5. Links10(s, 8,2, 3,10, 1,6, 7,4, 5,9) = In10(s)
    BY DEF Links10, In10
  <2>6. Works10(s, w, 13, 8,2, 3,10, 1,6, 7,4, 5,9)
    BY <2>3, <2>5, Exchange10, AtEnd10
  <2>7. Works10(s, w, 10, 10,3, 2,8, 1,6, 7,4, 5,9)
    BY <2>3, <2>6, Turn10_3
  <2>8. Works10(s, w, 7, 2,8, 3,10, 9,5, 4,7, 6,1)
    BY <2>3, <2>7, Reverse10_3, Turn10_2
  <2>9. Works10(s, w, 4, 6,1, 2,8, 7,4, 5,9, 10,3)
    BY <2>3, <2>8, Reverse10_4, Turn10_3
  <2>10. Works10(s, w, 1, 4,7, 8,2, 1,6, 5,9, 10,3)
    BY <2>3, <2>9, Turn10_4
  <2> QED
    BY <2>3, <1>6, <2>4, <2>10, Reverse10_3, Exchange10, Begin10 DEF Right, w
<1>7. CASE Line10(s, 2,8, 7,9, 10,4, 3,5, 6,1)
  <2>1. ~BETWEEN(s[3], s[7], s[5])
    BY <1>7, NodesAre DEF Line10, BETWEEN, Chosen, Node
  <2>2. w = <<3, 4, 5, 3, 6, 7, 1, 2, 3, 9, 10, 1>>
    BY <2>1 DEF Make5OptMove
  <2> HIDE DEF w
  <2>3. /\ w \in Seq(Nat) /\ Len(w) = 12 /\ Over(w, 13)
        /\ Swap(w, 1, 4, 3, 4, 5) /\ Swap(w, 4, 7, 3, 6, 7)
        /\ Swap(w, 7, 10, 1, 2, 3) /\ Swap(w, 10, 13, 9, 10, 1)
    BY <2>2 DEF Swap, Over
  <2>4. Links10(s, 2,8, 7,9, 10,4, 3,5, 6,1) = Out10(s)
    BY DEF Links10, Out10
  <2>5. Links10(s, 8,2, 3,5, 4,10, 1,6, 7,9) = In10(s)
    BY DEF Links10, In10
  <2>6. Works10(s, w, 13, 8,2, 3,5, 4,10, 1,6, 7,9)
    BY <2>3, <2>5, Exchange10, AtEnd10
  <2>7. Works10(s, w, 10, 10,4, 5,3, 2,8, 1,6, 7,9)
    BY <2>3, <2>6, Turn10_4
  <2>8. Works10(s, w, 7, 2,8, 3,5, 4,10, 9,7, 6,1)
    BY <2>3, <2>7, Reverse10_2, Turn10_2
  <2>9. Works10(s, w, 4, 6,1, 2,8, 7,9, 10,4, 5,3)
    BY <2>3, <2>8, Reverse10_4, Turn10_3
  <2>10. Works10(s, w, 1, 4,10, 9,7, 8,2, 1,6, 5,3)
    BY <2>3, <2>9, Turn10_5
  <2> QED
    BY <2>3, <1>7, <2>4, <2>10, Reverse10_2, Exchange10, Begin10 DEF Right, w
<1>8. CASE Line10(s, 2,9, 10,8, 7,4, 3,5, 6,1)
  <2>1. ~BETWEEN(s[3], s[7], s[5])
    BY <1>8, NodesAre DEF Line10, BETWEEN, Chosen, Node
  <2>2. w = <<3, 4, 5, 3, 6, 7, 1, 2, 3, 9, 10, 1>>
    BY <2>1 DEF Make5OptMove
  <2> HIDE DEF w
  <2>3. /\ w \in Seq(Nat) /\ Len(w) = 12 /\ Over(w, 13)
        /\ Swap(w, 1, 4, 3, 4, 5) /\ Swap(w, 4, 7, 3, 6, 7)
        /\ Swap(w, 7, 10, 1, 2, 3) /\ Swap(w, 10, 13, 9, 10, 1)
    BY <2>2 DEF Swap, Over
  <2>4. Links10(s, 2,9, 10,8, 7,4, 3,5, 6,1) = Out10(s)
    BY DEF Links10, Out10
  <2>5. Links10(s, 8,10, 1,6, 7,4, 5,3, 2,9) = In10(s)
    BY DEF Links10, In10
  <2>6. Works10(s, w, 13, 8,10, 1,6, 7,4, 5,3, 2,9)
    BY <2>3, <2>5, Exchange10, AtEnd10
  <2>7. Works10(s, w, 10, 10,8, 1,6, 7,4, 5,3, 2,9)
    BY <2>3, <2>6, Turn10_2
  <2>8. Works10(s, w, 7, 2,9, 10,8, 3,5, 4,7, 6,1)
    BY <2>3, <2>7, Reverse10_4, Turn10_3
  <2>9. Works10(s, w, 4, 6,1, 2,9, 10,8, 7,4, 5,3)
    BY <2>3, <2>8, Reverse10_3, Turn10_4
  <2>10. Works10(s, w, 1, 4,7, 8,10, 9,2, 1,6, 5,3)
    BY <2>3, <2>9, Turn10_5
  <2> QED
    BY <2>3, <1>8, <2>4, <2>10, Reverse10_2, Exchange10, Begin10 DEF Right, w
<1> QED
  BY <1>1, <1>2, <1>3, <1>4, <1>5, <1>6, <1>7, <1>8 DEF Orders10, Orders10_30

\* Make5OptMove, case 31.
LEMMA Move10_31 ==
    ASSUME NEW s, Chosen(s, 10), Orders10(s, 31)
    PROVE  Right(s, Make5OptMove(s, 31))
<1> DEFINE w == Make5OptMove(s, 31)
<1>1. /\ w \in Seq(Nat) /\ Len(w) = 12 /\ Over(w, 13)
      /\ Swap(w, 1, 4, 3, 4, 5) /\ Swap(w, 4, 7, 3, 6, 7)
      /\ Swap(w, 7, 10, 8, 3, 2) /\ Swap(w, 10, 13, 9, 10, 1)
  BY DEF Swap, Over, Make5OptMove
<1> HIDE DEF w
<1>2. CASE Line10(s, 2,8, 7,3, 4,6, 5,10, 9,1)
  <2>1. Links10(s, 2,8, 7,3, 4,6, 5,10, 9,1) = Out10(s)
    BY DEF Links10, Out10
  <2>2. Links10(s, 8,2, 3,7, 6,4, 5,10, 1,9) = In10(s)
    BY DEF Links10, In10
  <2>3. Works10(s, w, 13, 8,2, 3,7, 6,4, 5,10, 1,9)
    BY <1>1, <2>2, Exchange10, AtEnd10
  <2>4. Works10(s, w, 10, 10,5, 4,6, 7,3, 2,8, 1,9)
    BY <1>1, <2>3, Turn10_5
  <2>5. Works10(s, w, 7, 3,7, 6,4, 5,10, 9,1, 2,8)
    BY <1>1, <2>4, Rotate10_1, Turn10_5
  <2>6. Works10(s, w, 4, 6,4, 5,10, 9,1, 2,8, 7,3)
    BY <1>1, <2>5, Reverse10_0, Turn10_5
  <2>7. Works10(s, w, 1, 4,6, 5,10, 9,1, 2,8, 7,3)
    BY <1>1, <2>6, Turn10_2
  <2> QED
    BY <1>1, <1>2, <2>1, <2>7, Rotate10_2, Exchange10, Begin10 DEF Right, w
<1>3. CASE Line10(s, 2,8, 7,3, 4,9, 10,6, 5,1)
  <2>1. Links10(s, 2,8, 7,3, 4,9, 10,6, 5,1) = Out10(s)
    BY DEF Links10, Out10
  <2>2. Links10(s, 8,2, 3,7, 6,10, 1,5, 4,9) = In10(s)
    BY DEF Links10, In10
  <2>3. Works10(s, w, 13, 8,2, 3,7, 6,10, 1,5, 4,9)
    BY <1>1, <2>2, Exchange10, AtEnd10
  <2>4. Works10(s, w, 10, 10,6, 7,3, 2,8, 1,5, 4,9)
    BY <1>1, <2>3, Turn10_4
  <2>5. Works10(s, w, 7, 3,7, 6,10, 9,4, 5,1, 2,8)
    BY <1>1, <2>4, Rotate10_2, Turn10_5
  <2>6. Works10(s, w, 4, 6,10, 9,4, 5,1, 2,8, 7,3)
    BY <1>1, <2>5, Reverse10_0, Turn10_5
  <2>7. Works10(s, w, 1, 4,9, 10,6, 5,1, 2,8, 7,3)
    BY <1>1, <2>6, Turn10_3
  <2> QED
    BY <1>1, <1>3, <2>1, <2>7, Rotate10_2, Exchange10, Begin10 DEF Right, w
<1>4. CASE Line10(s, 2,8, 7,9, 10,3, 4,6, 5,1)
  <2>1. Links10(s, 2,8, 7,9, 10,3, 4,6, 5,1) = Out10(s)
    BY DEF Links10, Out10
  <2>2. Links10(s, 8,2, 3,10, 1,5, 4,6, 7,9) = In10(s)
    BY DEF Links10, In10
  <2>3. Works10(s, w, 13, 8,2, 3,10, 1,5, 4,6, 7,9)
    BY <1>1, <2>2, Exchange10, AtEnd10
  <2>4. Works10(s, w, 10, 10,3, 2,8, 1,5, 4,6, 7,9)
    BY <1>1, <2>3, Turn10_3
  <2>5. Works10(s, w, 7, 3,10, 9,7, 6,4, 5,1, 2,8)
    BY <1>1, <2>4, Rotate10_3, Turn10_5
  <2>6. Works10(s, w, 4, 6,4, 5,1, 2,8, 7,9, 10,3)
    BY <1>1, <2>5, Reverse10_0, Turn10_4
  <2>7. Works10(s, w, 1, 4,6, 5,1, 2,8, 7,9, 10,3)
    BY <1>1, <2>6, Turn10_2
  <2> QED
    BY <1>1, <1>4, <2>1, <2>7, Rotate10_3, Exchange10, Begin10 DEF Right, w
<1>5. CASE Line10(s, 2,9, 10,8, 7,3, 4,6, 5,1)
  <2>1. Links10(s, 2,9, 10,8, 7,3, 4,6, 5,1) = Out10(s)
    BY DEF Links10, Out10
  <2>2. Links10(s, 8,10, 1,5, 4,6, 7,3, 2,9) = In10(s)
    BY DEF Links10, In10
  <2>3. Works10(s, w, 13, 8,10, 1,5, 4,6, 7,3, 2,9)
    BY <1>1, <2>2, Exchange10, AtEnd10
  <2>4. Works10(s, w, 10, 10,8, 1,5, 4,6, 7,3, 2,9)
    BY <1>1, <2>3, Turn10_2
  <2>5. Works10(s, w, 7, 3,7, 6,4, 5,1, 2,9, 10,8)
    BY <1>1, <2>4, Rotate10_4, Turn10_4
  <2>6. Works10(s, w, 4, 6,4, 5,1, 2,9, 10,8, 7,3)
    BY <1>1, <2>5, Reverse10_0, Turn10_5
  <2>7. Works10(s, w, 1, 4,6, 5,1, 2,9, 10,8, 7,3)
    BY <1>1, <2>6, Turn10_2
  <2> QED
    BY <1>1, <1>5, <2>1, <2>7, Rotate10_3, Exchange10, Begin10 DEF Right, w
<1> QED
  BY <1>2, <1>3, <1>4, <1>5 DEF Orders10, Orders10_31

\* Make5OptMove, case 32.
LEMMA Move10_32 ==
    ASSUME NEW s, Chosen(s, 10), Orders10(s, 32)
    PROVE  Right(s, Make5OptMove(s, 32))
<1> DEFINE w == Make5OptMove(s, 32)
<1>1. /\ w \in Seq(Nat) /\ Len(w) = 12 /\ Over(w, 13)
      /\ Swap(w, 1, 4, 1, 2, 3) /\ Swap(w, 4, 7, 7, 8, 9)
      /\ Swap(w, 7, 10, 6, 5, 4) /\ Swap(w, 10, 13, 7, 10, 1)
  BY DEF Swap, Over, Make5OptMove
<1> HIDE DEF w
<1>2. Links10(s, 2,7, 8,6, 5,10, 9,4, 3,1) = Out10(s)
  BY DEF Links10, Out10
<1>3. Links10(s, 6,8, 9,4, 5,10, 1,3, 2,7) = In10(s)
  BY DEF Links10, In10
<1>4. Works10(s, w, 13, 6,8, 9,4, 5,10, 1,3, 2,7)
  BY <1>1, <1>3, Exchange10, AtEnd10
<1>5. Works10(s, w, 10, 10,5, 4,9, 8,6, 1,3, 2,7)
  BY <1>1, <1>4, Turn10_4
<1>6. Works10(s, w, 7, 5,10, 7,2, 3,1, 4,9, 8,6)
  BY <1>1, <1>5, Rotate10_2, Turn10_4
<1>7. Works10(s, w, 4, 8,6, 5,10, 9,4, 1,3, 2,7)
  BY <1>1, <1>6, Reverse10_4, Turn10_3
<1>8. Works10(s, w, 1, 2,7, 8,6, 5,10, 9,4, 3,1)
  BY <1>1, <1>7, Reverse10_2, Turn10_5
<1>9. Line10(s, 2,7, 8,6, 5,10, 9,4, 3,1)
  BY DEF Orders10, Orders10_32
<1> QED
  BY <1>1, <1>9, <1>2, <1>8, Exchange10, Begin10 DEF Right, w

\* Make5OptMove, case 33.
LEMMA Move10_33 ==
    ASSUME NEW s, Chosen(s, 10), Orders10(s, 33)
    PROVE  Right(s, Make5OptMove(s, 33))
<1> DEFINE w == Make5OptMove(s, 33)
<1>1. CASE Line10(s, 2,4, 3,10, 9,5, 6,8, 7,1)
  <2>1. BETWEEN(s[3], s[9], s[5])
    BY <1>1, NodesAre DEF Line10, BETWEEN, Chosen, Node
  <2>2. w = <<1, 2, 3, 5, 6, 7, 10, 9, 8, 5, 10, 1>>
    BY <2>1 DEF Make5OptMove
  <2> HIDE DEF w
  <2>3. /\ w \in Seq(Nat) /\ Len(w) = 12 /\ Over(w, 13)
        /\ Swap(w, 1, 4, 1, 2, 3) /\ Swap(w, 4, 7, 5, 6, 7)
        /\ Swap(w, 7, 10, 10, 9, 8) /\ Swap(w, 10, 13, 5, 10, 1)
    BY <2>2 DEF Swap, Over
  <2>4. Links10(s, 2,4, 3,10, 9,5, 6,8, 7,1) = Out10(s)
    BY DEF Links10, Out10
  <2>5. Links10(s, 4,2, 3,10, 1,7, 6,8, 9,5) = In10(s)
    BY DEF Links10, In10
  <2>6. Works10(s, w, 13, 4,2, 3,10, 1,7, 6,8, 9,5)
    BY <2>3, <2>5, Exchange10, AtEnd10
  <2>7. Works10(s, w, 10, 10,3, 2,4, 1,7, 6,8, 9,5)
    BY <2>3, <2>6, Turn10_3
  <2>8. Works10(s, w, 7, 9,5, 8,6, 7,1, 4,2, 3,10)
    BY <2>3, <2>7, Reverse10_0, Turn10_2
  <2>9. Works10(s, w, 4, 6,8, 7,1, 4,2, 3,10, 9,5)
    BY <2>3, <2>8, Rotate10_4, Turn10_2
  <2>10. Works10(s, w, 1, 2,4, 3,10, 9,5, 6,8, 7,1)
    BY <2>3, <2>9, Rotate10_3, Turn10_2
  <2> QED
    BY <2>3, <1>1, <2>4, <2>10, Exchange10, Begin10 DEF Right, w
<1>2. CASE Line10(s, 2,10, 9,4, 3,5, 6,8, 7,1)
  <2>1. ~BETWEEN(s[3], s[9], s[5])
    BY <1>2, NodesAre DEF Line10, BETWEEN, Chosen, Node
  <2>2. w = <<1, 2, 3, 7, 8, 9, 7, 10, 1, 5, 6, 7>>
    BY <2>1 DEF Make5OptMove
  <2> HIDE DEF w
  <2>3. /\ w \in Seq(Nat) /\ Len(w) = 12 /\ Over(w, 13)
        /\ Swap(w, 1, 4, 1, 2, 3) /\ Swap(w, 4, 7, 7, 8, 9)
        /\ Swap(w, 7, 10, 7, 10, 1) /\ Swap(w, 10, 13, 5, 6, 7)
    BY <2>2 DEF Swap, Over
  <2>4. Links10(s, 2,10, 9,4, 3,5, 6,8, 7,1) = Out10(s)
    BY DEF Links10, Out10
  <2>5. Links10(s, 4,9, 8,6, 7,1, 10,2, 3,5) = In10(s)
    BY DEF Links10, In10
  <2>6. Works10(s, w, 13, 4,9, 8,6, 7,1, 10,2, 3,5)
    BY <2>3, <2>5, Exchange10, AtEnd10
  <2>7. Works10(s, w, 10, 6,8, 9,4, 7,1, 10,2, 3,5)
    BY <2>3, <2>6, Turn10_3
  <2>8. Works10(s, w, 7, 10,2, 3,5, 6,8, 9,4, 1,7)
    BY <2>3, <2>7, Reverse10_3, Turn10_5
  <2>9. Works10(s, w, 4, 8,6, 5,3, 2,10, 9,4, 1,7)
    BY <2>3, <2>8, Turn10_4
  <2>10. Works10(s, w, 1, 2,10, 9,4, 3,5, 6,8, 7,1)
    BY <2>3, <2>9, Reverse10_1, Turn10_3
  <2> QED
    BY <2>3, <1>2, <2>4, <2>10, Exchange10, Begin10 DEF Right, w
<1> QED
  BY <1>1, <1>2 DEF Orders10, Orders10_33

\* Make5OptMove, case 34.
LEMMA Move10_34 ==
    ASSUME NEW s, Chosen(s, 10), Orders10(s, 34)
    PROVE  Right(s, Make5OptMove(s, 34))
<1> DEFINE w == Make5OptMove(s, 34)
<1>1. /\ w \in Seq(Nat) /\ Len(w) = 12 /\ Over(w, 13)
      /\ Swap(w, 1, 4, 7, 8, 9) /\ Swap(w, 4, 7, 1, 2, 3)
      /\ Swap(w, 7, 10, 1, 4, 5) /\ Swap(w, 10, 13, 7, 10, 1)
  BY DEF Swap, Over, Make5OptMove
<1> HIDE DEF w
<1>2. Links10(s, 2,10, 9,3, 4,7, 8,6, 5,1) = Out10(s)
  BY DEF Links10, Out10
<1>3. Links10(s, 6,8, 9,3, 2,10, 1,5, 4,7) = In10(s)
  BY DEF Links10, In10
<1>4. Works10(s, w, 13, 6,8, 9,3, 2,10, 1,5, 4,7)
  BY <1>1, <1>3, Exchange10, AtEnd10
<1>5. Works10(s, w, 10, 10,2, 3,9, 8,6, 1,5, 4,7)
  BY <1>1, <1>4, Turn10_4
<1>6. Works10(s, w, 7, 4,7, 10,2, 3,9, 8,6, 5,1)
  BY <1>1, <1>5, Reverse10_2, Turn10_5
<1>7. Works10(s, w, 4, 2,10, 7,4, 3,9, 8,6, 5,1)
  BY <1>1, <1>6, Turn10_3
<1>8. Works10(s, w, 1, 8,6, 5,1, 2,10, 9,3, 4,7)
  BY <1>1, <1>7, Reverse10_4, Turn10_4
<1>9. Line10(s, 2,10, 9,3, 4,7, 8,6, 5,1)
  BY DEF Orders10, Orders10_34
<1> QED
  BY <1>1, <1>9, <1>2, <1>8, Rotate10_3, Exchange10, Begin10 DEF Right, w

\* Make5OptMove, case 35.
LEMMA Move10_35 ==
    ASSUME NEW s, Chosen(s, 10), Orders10(s, 35)
    PROVE  Right(s, Make5OptMove(s, 35))
<1> DEFINE w == Make5OptMove(s, 35)
<1>1. /\ w \in Seq(Nat) /\ Len(w) = 12 /\ Over(w, 13)
      /\ Swap(w, 1, 4, 9, 10, 1) /\ Swap(w, 4, 7, 5, 6, 7)
      /\ Swap(w, 7, 10, 4, 3, 2) /\ Swap(w, 10, 13, 9, 4, 5)
  BY DEF Swap, Over, Make5OptMove
<1> HIDE DEF w
<1>2. Links10(s, 2,7, 8,3, 4,10, 9,5, 6,1) = Out10(s)
  BY DEF Links10, Out10
<1>3. Links10(s, 8,3, 2,7, 6,1, 10,4, 5,9) = In10(s)
  BY DEF Links10, In10
<1>4. Works10(s, w, 13, 8,3, 2,7, 6,1, 10,4, 5,9)
  BY <1>1, <1>3, Exchange10, AtEnd10
<1>5. Works10(s, w, 10, 4,10, 1,6, 7,2, 3,8, 5,9)
  BY <1>1, <1>4, Turn10_5
<1>6. Works10(s, w, 7, 3,8, 5,9, 2,7, 6,1, 10,4)
  BY <1>1, <1>5, Reverse10_0, Turn10_3
<1>7. Works10(s, w, 4, 6,1, 10,4, 3,8, 7,2, 9,5)
  BY <1>1, <1>6, Reverse10_4, Turn10_4
<1>8. Works10(s, w, 1, 10,4, 3,8, 7,2, 1,6, 5,9)
  BY <1>1, <1>7, Reverse10_1, Turn10_4
<1>9. Line10(s, 2,7, 8,3, 4,10, 9,5, 6,1)
  BY DEF Orders10, Orders10_35
<1> QED
  BY <1>1, <1>9, <1>2, <1>8, Reverse10_2, Exchange10, Begin10 DEF Right, w

\* Make5OptMove, case 36.
LEMMA Move10_36 ==
    ASSUME NEW s, Chosen(s, 10), Orders10(s, 36)
    PROVE  Right(s, Make5OptMove(s, 36))
<1> DEFINE w == Make5OptMove(s, 36)
<1>1. /\ w \in Seq(Nat) /\ Len(w) = 12 /\ Over(w, 13)
      /\ Swap(w, 1, 4, 9, 10, 1) /\ Swap(w, 4, 7, 7, 8, 9)
      /\ Swap(w, 7, 10, 3, 4, 5) /\ Swap(w, 10, 13, 6, 3, 2)
  BY DEF Swap, Over, Make5OptMove
<1> HIDE DEF w
<1>2. Links10(s, 2,10, 9,3, 4,7, 8,5, 6,1) = Out10(s)
  BY DEF Links10, Out10
<1>3. Links10(s, 7,4, 5,8, 9,3, 2,10, 1,6) = In10(s)
  BY DEF Links10, In10
<1>4. Works10(s, w, 13, 7,4, 5,8, 9,3, 2,10, 1,6)
  BY <1>1, <1>3, Exchange10, AtEnd10
<1>5. Works10(s, w, 10, 3,9, 8,5, 4,7, 2,10, 1,6)
  BY <1>1, <1>4, Turn10_4
<1>6. Works10(s, w, 7, 4,7, 2,10, 1,6, 5,8, 9,3)
  BY <1>1, <1>5, Reverse10_0, Turn10_4
<1>7. Works10(s, w, 4, 8,5, 6,1, 10,2, 9,3, 4,7)
  BY <1>1, <1>6, Rotate10_4, Turn10_4
<1>8. Works10(s, w, 1, 10,2, 1,6, 5,8, 7,4, 3,9)
  BY <1>1, <1>7, Reverse10_2, Turn10_2
<1>9. Line10(s, 2,10, 9,3, 4,7, 8,5, 6,1)
  BY DEF Orders10, Orders10_36
<1> QED
  BY <1>1, <1>9, <1>2, <1>8, Reverse10_4, Exchange10, Begin10 DEF Right, w

\* Make5OptMove, case 37.
LEMMA Move10_37 ==
    ASSUME NEW s, Chosen(s, 10), Orders10(s, 37)
    PROVE  Right(s, Make5OptMove(s, 37))
<1> DEFINE w == Make5OptMove(s, 37)
<1>1. CASE Line10(s, 2,8, 7,5, 6,10, 9,4, 3,1)
  <2>1. BETWEEN(s[6], s[9], s[4])
    BY <1>1, NodesAre DEF Line10, BETWEEN, Chosen, Node
  <2>2. w = <<1, 2, 3, 6, 5, 4, 9, 10, 1, 8, 7, 6>>
    BY <2>1 DEF Make5OptMove
  <2> HIDE DEF w
  <2>3. /\ w \in Seq(Nat) /\ Len(w) = 12 /\ Over(w, 13)
        /\ Swap(w, 1, 4, 1, 2, 3) /\ Swap(w, 4, 7, 6, 5, 4)
        /\ Swap(w, 7, 10, 9, 10, 1) /\ Swap(w, 10, 13, 8, 7, 6)
    BY <2>2 DEF Swap, Over
  <2>4. Links10(s, 2,8, 7,5, 6,10, 9,4, 3,1) = Out10(s)
    BY DEF Links10, Out10
  <2>5. Links10(s, 9,4, 5,7, 6,10, 1,3, 2,8) = In10(s)
    BY DEF Links10, In10
  <2>6. Works10(s, w, 13, 9,4, 5,7, 6,10, 1,3, 2,8)
    BY <2>3, <2>5, Exchange10, AtEnd10
  <2>7. Works10(s, w, 10, 7,5, 4,9, 6,10, 1,3, 2,8)
    BY <2>3, <2>6, Turn10_3
  <2>8. Works10(s, w, 7, 10,6, 1,3, 2,8, 7,5, 4,9)
    BY <2>3, <2>7, Rotate10_3, Turn10_2
  <2>9. Works10(s, w, 4, 5,7, 8,2, 3,1, 4,9, 10,6)
    BY <2>3, <2>8, Rotate10_4, Turn10_4
  <2>10. Works10(s, w, 1, 2,8, 7,5, 6,10, 9,4, 3,1)
    BY <2>3, <2>9, Rotate10_2, Turn10_5
  <2> QED
    BY <2>3, <1>1, <2>4, <2>10, Exchange10, Begin10 DEF Right, w
<1>2. CASE Line10(s, 2,8, 7,10, 9,5, 6,4, 3,1)
  <2>1. ~BETWEEN(s[6], s[9], s[4])
    BY <1>2, NodesAre DEF Line10, BETWEEN, Chosen, Node
  <2>2. w = <<9, 10, 1, 3, 4, 5, 3, 6, 7, 3, 8, 9>>
    BY <2>1 DEF Make5OptMove
  <2> HIDE DEF w
  <2>3. /\ w \in Seq(Nat) /\ Len(w) = 12 /\ Over(w, 13)
        /\ Swap(w, 1, 4, 9, 10, 1) /\ Swap(w, 4, 7, 3, 4, 5)
        /\ Swap(w, 7, 10, 3, 6, 7) /\ Swap(w, 10, 13, 3, 8, 9)
    BY <2>2 DEF Swap, Over
  <2>4. Links10(s, 2,8, 7,10, 9,5, 6,4, 3,1) = Out10(s)
    BY DEF Links10, Out10
  <2>5. Links10(s, 2,8, 9,5, 4,6, 7,10, 1,3) = In10(s)
    BY DEF Links10, In10
  <2>6. Works10(s, w, 13, 2,8, 9,5, 4,6, 7,10, 1,3)
    BY <2>3, <2>5, Exchange10, AtEnd10
  <2>7. Works10(s, w, 10, 8,2, 9,5, 4,6, 7,10, 1,3)
    BY <2>3, <2>6, Turn10_2
  <2>8. Works10(s, w, 7, 6,4, 5,9, 2,8, 7,10, 1,3)
    BY <2>3, <2>7, Turn10_4
  <2>9. Works10(s, w, 4, 4,6, 5,9, 2,8, 7,10, 1,3)
    BY <2>3, <2>8, Turn10_2
  <2>10. Works10(s, w, 1, 10,7, 8,2, 1,3, 4,6, 5,9)
    BY <2>3, <2>9, Rotate10_3, Turn10_3
  <2> QED
    BY <2>3, <1>2, <2>4, <2>10, Reverse10_3, Exchange10, Begin10 DEF Right, w
<1> QED
  BY <1>1, <1>2 DEF Orders10, Orders10_37

\* Make5OptMove, case 38.
LEMMA Move10_38 ==
    ASSUME NEW s, Chosen(s, 10), Orders10(s, 38)
    PROVE  Right(s, Make5OptMove(s, 38))
<1> DEFINE w == Make5OptMove(s, 38)
<1>1. CASE Line10(s, 2,5, 6,4, 3,10, 9,7, 8,1)
  <2>1. BETWEEN(s[3], s[9], s[7])
    BY <1>1, NodesAre DEF Line10, BETWEEN, Chosen, Node
  <2>2. w = <<1, 2, 3, 7, 8, 9, 6, 5, 4, 6, 1, 10>>
    BY <2>1 DEF Make5OptMove
  <2> HIDE DEF w
  <2>3. /\ w \in Seq(Nat) /\ Len(w) = 12 /\ Over(w, 13)
        /\ Swap(w, 1, 4, 1, 2, 3) /\ Swap(w, 4, 7, 7, 8, 9)
        /\ Swap(w, 7, 10, 6, 5, 4) /\ Swap(w, 10, 13, 6, 1, 10)
    BY <2>2 DEF Swap, Over
  <2>4. Links10(s, 2,5, 6,4, 3,10, 9,7, 8,1) = Out10(s)
    BY DEF Links10, Out10
  <2>5. Links10(s, 7,9, 8,1, 10,3, 2,5, 4,6) = In10(s)
    BY DEF Links10, In10
  <2>6. Works10(s, w, 13, 7,9, 8,1, 10,3, 2,5, 4,6)
    BY <2>3, <2>5, Exchange10, AtEnd10
  <2>7. Works10(s, w, 10, 1,8, 9,7, 10,3, 2,5, 4,6)
    BY <2>3, <2>6, Turn10_3
  <2>8. Works10(s, w, 7, 5,2, 3,10, 7,9, 8,1, 4,6)
    BY <2>3, <2>7, Turn10_5
  <2>9. Works10(s, w, 4, 8,1, 4,6, 5,2, 3,10, 9,7)
    BY <2>3, <2>8, Reverse10_3, Turn10_5
  <2>10. Works10(s, w, 1, 2,5, 6,4, 3,10, 9,7, 8,1)
    BY <2>3, <2>9, Rotate10_4, Turn10_3
  <2> QED
    BY <2>3, <1>1, <2>4, <2>10, Exchange10, Begin10 DEF Right, w
<1>2. CASE Line10(s, 2,5, 6,10, 9,4, 3,7, 8,1)
  <2>1. ~BETWEEN(s[3], s[9], s[7]) /\ BETWEEN(s[6], s[9], s[4])
    BY <1>2, NodesAre DEF Line10, BETWEEN, Chosen, Node
  <2>2. w = <<1, 2, 3, 6, 5, 4, 7, 8, 9, 7, 10, 1>>
    BY <2>1 DEF Make5OptMove
  <2> HIDE DEF w
  <2>3. /\ w \in Seq(Nat) /\ Len(w) = 12 /\ Over(w, 13)
        /\ Swap(w, 1, 4, 1, 2, 3) /\ Swap(w, 4, 7, 6, 5, 4)
        /\ Swap(w, 7, 10, 7, 8, 9) /\ Swap(w, 10, 13, 7, 10, 1)
    BY <2>2 DEF Swap, Over
  <2>4. Links10(s, 2,5, 6,10, 9,4, 3,7, 8,1) = Out10(s)
    BY DEF Links10, Out10
  <2>5. Links10(s, 6,10, 1,8, 9,4, 5,2, 3,7) = In10(s)
    BY DEF Links10, In10
  <2>6. Works10(s, w, 13, 6,10, 1,8, 9,4, 5,2, 3,7)
    BY <2>3, <2>5, Exchange10, AtEnd10
  <2>7. Works10(s, w, 10, 10,6, 1,8, 9,4, 5,2, 3,7)
    BY <2>3, <2>6, Turn10_2
  <2>8. Works10(s, w, 7, 8,1, 6,10, 9,4, 5,2, 3,7)
    BY <2>3, <2>7, Turn10_3
  <2>9. Works10(s, w, 4, 5,2, 3,7, 8,1, 4,9, 10,6)
    BY <2>3, <2>8, Reverse10_4, Turn10_4
  <2>10. Works10(s, w, 1, 2,5, 6,10, 9,4, 3,7, 8,1)
    BY <2>3, <2>9, Rotate10_2, Turn10_4
  <2> QED
    BY <2>3, <1>2, <2>4, <2>10, Exchange10, Begin10 DEF Right, w
<1>3. CASE Line10(s, 2,10, 9,5, 6,4, 3,7, 8,1)
  <2>1. ~BETWEEN(s[3], s[9], s[7]) /\ ~BETWEEN(s[6], s[9], s[4])
    BY <1>3, NodesAre DEF Line10, BETWEEN, Chosen, Node
  <2>2. w = <<3, 4, 5, 9, 10, 1, 8, 7, 6, 3, 8, 9>>
    BY <2>1 DEF Make5OptMove
  <2> HIDE DEF w
  <2>3. /\ w \in Seq(Nat) /\ Len(w) = 12 /\ Over(w, 13)
        /\ Swap(w, 1, 4, 3, 4, 5) /\ Swap(w, 4, 7, 9, 10, 1)
        /\ Swap(w, 7, 10, 8, 7, 6) /\ Swap(w, 10, 13, 3, 8, 9)
    BY <2>2 DEF Swap, Over
  <2>4. Links10(s, 2,10, 9,5, 6,4, 3,7, 8,1) = Out10(s)
    BY DEF Links10, Out10
  <2>5. Links10(s, 2,10, 1,8, 9,5, 4,6, 7,3) = In10(s)
    BY DEF Links10, In10
  <2>6. Works10(s, w, 13, 2,10, 1,8, 9,5, 4,6, 7,3)
    BY <2>3, <2>5, Exchange10, AtEnd10
  <2>7. Works10(s, w, 10, 8,1, 10,2, 9,5, 4,6, 7,3)
    BY <2>3, <2>6, Turn10_3
  <2>8. Works10(s, w, 7, 7,3, 6,4, 5,9, 2,10, 1,8)
    BY <2>3, <2>7, Reverse10_0, Turn10_2
  <2>9. Works10(s, w, 4, 10,2, 1,8, 7,3, 6,4, 5,9)
    BY <2>3, <2>8, Rotate10_2, Turn10_2
  <2>10. Works10(s, w, 1, 4,6, 5,9, 10,2, 1,8, 7,3)
    BY <2>3, <2>9, Rotate10_2, Turn10_2
  <2> QED
    BY <2>3, <1>3, <2>4, <2>10, Reverse10_2, Exchange10, Begin10 DEF Right, w
<1> QED
  BY <1>1, <1>2, <1>3 DEF Orders10, Orders10_38

\* Make5OptMove, case 39.
LEMMA Move10_39 ==
    ASSUME NEW s, Chosen(s, 10), Orders10(s, 39)
    PROVE  Right(s, Make5OptMove(s, 39))
<1> DEFINE w == Make5OptMove(s, 39)
<1>1. /\ w \in Seq(Nat) /\ Len(w) = 12 /\ Over(w, 13)
      /\ Swap(w, 1, 4, 1, 2, 3) /\ Swap(w, 4, 7, 7, 8, 9)
      /\ Swap(w, 7, 10, 5, 6, 7) /\ Swap(w, 10, 13, 1, 4, 5)
  BY DEF Swap, Over, Make5OptMove
<1> HIDE DEF w
<1>2. Links10(s, 2,5, 6,10, 9,7, 8,4, 3,1) = Out10(s)
  BY DEF Links10, Out10
<1>3. Links10(s, 10,6, 7,9, 8,4, 5,2, 3,1) = In10(s)
  BY DEF Links10, In10
<1>4. Works10(s, w, 13, 10,6, 7,9, 8,4, 5,2, 3,1)
  BY <1>1, <1>3, Exchange10, AtEnd10
<1>5. Works10(s, w, 10, 4,8, 9,7, 6,10, 5,2, 3,1)
  BY <1>1, <1>4, Turn10_4
<1>6. Works10(s, w, 7, 6,10, 7,9, 8,4, 1,3, 2,5)
  BY <1>1, <1>5, Reverse10_2, Turn10_2
<1>7. Works10(s, w, 4, 8,4, 1,3, 2,5, 6,10, 9,7)
  BY <1>1, <1>6, Reverse10_4, Turn10_5
<1>8. Works10(s, w, 1, 2,5, 6,10, 9,7, 8,4, 3,1)
  BY <1>1, <1>7, Reverse10_4, Turn10_5
<1>9. Line10(s, 2,5, 6,10, 9,7, 8,4, 3,1)
  BY DEF Orders10, Orders10_39
<1> QED
  BY <1>1, <1>9, <1>2, <1>8, Exchange10, Begin10 DEF Right, w

\* Make5OptMove, case 40.
LEMMA Move10_40 ==
    ASSUME NEW s, Chosen(s, 10), Orders10(s, 40)
    PROVE  Right(s, Make5OptMove(s, 40))
<1> DEFINE w == Make5OptMove(s, 40)
<1>1. /\ w \in Seq(Nat) /\ Len(w) = 12 /\ Over(w, 13)
      /\ Swap(w, 1, 4, 9, 10, 1) /\ Swap(w, 4, 7, 4, 3, 2)
      /\ Swap(w, 7, 10, 5, 6, 7) /\ Swap(w, 10, 13, 5, 8, 9)
  BY DEF Swap, Over, Make5OptMove
<1> HIDE DEF w
<1>2. Links10(s, 2,4, 3,8, 7,10, 9,6, 5,1) = Out10(s)
  BY DEF Links10, Out10
<1>3. Links10(s, 4,2, 3,8, 9,6, 7,10, 1,5) = In10(s)
  BY DEF Links10, In10
<1>4. Works10(s, w, 13, 4,2, 3,8, 9,6, 7,10, 1,5)
  BY <1>1, <1>3, Exchange10, AtEnd10
<1>5. Works10(s, w, 10, 8,3, 2,4, 9,6, 7,10, 1,5)
  BY <1>1, <1>4, Turn10_3
<1>6. Works10(s, w, 7, 6,9, 4,2, 3,8, 7,10, 1,5)
  BY <1>1, <1>5, Turn10_4
<1>7. Works10(s, w, 4, 3,8, 7,10, 1,5, 6,9, 2,4)
  BY <1>1, <1>6, Reverse10_4, Turn10_5
<1>8. Works10(s, w, 1, 10,7, 8,3, 4,2, 1,5, 6,9)
  BY <1>1, <1>7, Rotate10_1, Turn10_4
<1>9. Line10(s, 2,4, 3,8, 7,10, 9,6, 5,1)
  BY DEF Orders10, Orders10_40
<1> QED
  BY <1>1, <1>9, <1>2, <1>8, Reverse10_2, Exchange10, Begin10 DEF Right, w

\* Make5OptMove, case 41.
LEMMA Move10_41 ==
    ASSUME NEW s, Chosen(s, 10), Orders10(s, 41)
    PROVE  Right(s, Make5OptMove(s, 41))
<1> DEFINE w == Make5OptMove(s, 41)
<1>1. CASE Line10(s, 2,4, 3,6, 5,10, 9,7, 8,1)
  <2>1. BETWEEN(s[5], s[9], s[7])
    BY <1>1, NodesAre DEF Line10, BETWEEN, Chosen, Node
  <2>2. w = <<7, 8, 9, 1, 2, 3, 6, 5, 4, 7, 10, 1>>
    BY <2>1 DEF Make5OptMove
  <2> HIDE DEF w
  <2>3. /\ w \in Seq(Nat) /\ Len(w) = 12 /\ Over(w, 13)
        /\ Swap(w, 1, 4, 7, 8, 9) /\ Swap(w, 4, 7, 1, 2, 3)
        /\ Swap(w, 7, 10, 6, 5, 4) /\ Swap(w, 10, 13, 7, 10, 1)
    BY <2>2 DEF Swap, Over
  <2>4. Links10(s, 2,4, 3,6, 5,10, 9,7, 8,1) = Out10(s)
    BY DEF Links10, Out10
  <2>5. Links10(s, 6,3, 2,4, 5,10, 1,8, 9,7) = In10(s)
    BY DEF Links10, In10
  <2>6. Works10(s, w, 13, 6,3, 2,4, 5,10, 1,8, 9,7)
    BY <2>3, <2>5, Exchange10, AtEnd10
  <2>7. Works10(s, w, 10, 10,5, 4,2, 3,6, 1,8, 9,7)
    BY <2>3, <2>6, Turn10_4
  <2>8. Works10(s, w, 7, 5,10, 7,9, 8,1, 4,2, 3,6)
    BY <2>3, <2>7, Rotate10_2, Turn10_4
  <2>9. Works10(s, w, 4, 2,4, 3,6, 5,10, 7,9, 8,1)
    BY <2>3, <2>8, Rotate10_2, Turn10_2
  <2>10. Works10(s, w, 1, 8,1, 2,4, 3,6, 5,10, 9,7)
    BY <2>3, <2>9, Reverse10_2, Turn10_5
  <2> QED
    BY <2>3, <1>1, <2>4, <2>10, Rotate10_4, Exchange10, Begin10 DEF Right, w
<1>2. CASE Line10(s, 2,4, 3,10, 9,6, 5,7, 8,1)
  <2>1. ~BETWEEN(s[5], s[9], s[7]) /\ BETWEEN(s[3], s[9], s[6])
    BY <1>2, NodesAre DEF Line10, BETWEEN, Chosen, Node
  <2>2. w = <<1, 2, 3, 5, 6, 7, 9, 10, 1, 5, 8, 9>>
    BY <2>1 DEF Make5OptMove
  <2> HIDE DEF w
  <2>3. /\ w \in Seq(Nat) /\ Len(w) = 12 /\ Over(w, 13)
        /\ Swap(w, 1, 4, 1, 2, 3) /\ Swap(w, 4, 7, 5, 6, 7)
        /\ Swap(w, 7, 10, 9, 10, 1) /\ Swap(w, 10, 13, 5, 8, 9)
    BY <2>2 DEF Swap, Over
  <2>4. Links10(s, 2,4, 3,10, 9,6, 5,7, 8,1) = Out10(s)
    BY DEF Links10, Out10
  <2>5. Links10(s, 4,2, 3,10, 1,8, 9,6, 7,5) = In10(s)
    BY DEF Links10, In10
  <2>6. Works10(s, w, 13, 4,2, 3,10, 1,8, 9,6, 7,5)
    BY <2>3, <2>5, Exchange10, AtEnd10
  <2>7. Works10(s, w, 10, 8,1, 10,3, 2,4, 9,6, 7,5)
    BY <2>3, <2>6, Turn10_4
  <2>8. Works10(s, w, 7, 10,3, 2,4, 1,8, 5,7, 6,9)
    BY <2>3, <2>7, Reverse10_2, Turn10_3
  <2>9. Works10(s, w, 4, 6,9, 10,3, 2,4, 1,8, 7,5)
    BY <2>3, <2>8, Reverse10_2, Turn10_5
  <2>10. Works10(s, w, 1, 2,4, 3,10, 9,6, 5,7, 8,1)
    BY <2>3, <2>9, Reverse10_2, Turn10_2
  <2> QED
    BY <2>3, <1>2, <2>4, <2>10, Exchange10, Begin10 DEF Right, w
<1>3. CASE Line10(s, 2,10, 9,4, 3,6, 5,7, 8,1)
  <2>1. ~BETWEEN(s[5], s[9], s[7]) /\ ~BETWEEN(s[3], s[9], s[6])
    BY <1>3, NodesAre DEF Line10, BETWEEN, Chosen, Node
  <2>2. w = <<5, 6, 7, 9, 10, 1, 2, 9, 8, 3, 4, 5>>
    BY <2>1 DEF Make5OptMove
  <2> HIDE DEF w
  <2>3. /\ w \in Seq(Nat) /\ Len(w) = 12 /\ Over(w, 13)
        /\ Swap(w, 1, 4, 5, 6, 7) /\ Swap(w, 4, 7, 9, 10, 1)
        /\ Swap(w, 7, 10, 2, 9, 8) /\ Swap(w, 10, 13, 3, 4, 5)
    BY <2>2 DEF Swap, Over
  <2>4. Links10(s, 2,10, 9,4, 3,6, 5,7, 8,1) = Out10(s)
    BY DEF Links10, Out10
  <2>5. Links10(s, 2,10, 1,8, 9,4, 5,7, 6,3) = In10(s)
    BY DEF Links10, In10
  <2>6. Works10(s, w, 13, 2,10, 1,8, 9,4, 5,7, 6,3)
    BY <2>3, <2>5, Exchange10, AtEnd10
  <2>7. Works10(s, w, 10, 4,9, 8,1, 10,2, 5,7, 6,3)
    BY <2>3, <2>6, Turn10_4
  <2>8. Works10(s, w, 7, 9,4, 3,6, 7,5, 8,1, 10,2)
    BY <2>3, <2>7, Rotate10_2, Turn10_4
  <2>9. Works10(s, w, 4, 10,2, 1,8, 5,7, 6,3, 4,9)
    BY <2>3, <2>8, Reverse10_0, Turn10_2
  <2>10. Works10(s, w, 1, 6,3, 4,9, 10,2, 1,8, 7,5)
    BY <2>3, <2>9, Reverse10_3, Turn10_5
  <2> QED
    BY <2>3, <1>3, <2>4, <2>10, Reverse10_2, Exchange10, Begin10 DEF Right, w
<1> QED
  BY <1>1, <1>2, <1>3 DEF Orders10, Orders10_41

\* Make5OptMove, case 42.
LEMMA Move10_42 ==
    ASSUME NEW s, Chosen(s, 10), Orders10(s, 42)
    PROVE  Right(s, Make5OptMove(s, 42))
<1> DEFINE w == Make5OptMove(s, 42)
<1>1. CASE Line10(s, 2,7, 8,4, 3,10, 9,6, 5,1)
  <2>1. BETWEEN(s[3], s[9], s[6])
    BY <1>1, NodesAre DEF Line10, BETWEEN, Chosen, Node
  <2>2. w = <<7, 8, 9, 5, 6, 7, 1, 2, 3, 1, 4, 5>>
    BY <2>1 DEF Make5OptMove
  <2> HIDE DEF w
  <2>3. /\ w \in Seq(Nat) /\ Len(w) = 12 /\ Over(w, 13)
        /\ Swap(w, 1, 4, 7, 8, 9) /\ Swap(w, 4, 7, 5, 6, 7)
        /\ Swap(w, 7, 10, 1, 2, 3) /\ Swap(w, 10, 13, 1, 4, 5)
    BY <2>2 DEF Swap, Over
  <2>4. Links10(s, 2,7, 8,4, 3,10, 9,6, 5,1) = Out10(s)
    BY DEF Links10, Out10
  <2>5. Links10(s, 10,3, 2,7, 6,9, 8,4, 5,1) = In10(s)
    BY DEF Links10, In10
  <2>6. Works10(s, w, 13, 10,3, 2,7, 6,9, 8,4, 5,1)
    BY <2>3, <2>5, Exchange10, AtEnd10
  <2>7. Works10(s, w, 10, 4,8, 9,6, 7,2, 3,10, 5,1)
    BY <2>3, <2>6, Turn10_5
  <2>8. Works10(s, w, 7, 2,7, 6,9, 8,4, 3,10, 5,1)
    BY <2>3, <2>7, Turn10_4
  <2>9. Works10(s, w, 4, 6,9, 8,4, 3,10, 7,2, 1,5)
    BY <2>3, <2>8, Reverse10_1, Turn10_4
  <2>10. Works10(s, w, 1, 8,4, 3,10, 9,6, 5,1, 2,7)
    BY <2>3, <2>9, Reverse10_2, Turn10_3
  <2> QED
    BY <2>3, <1>1, <2>4, <2>10, Rotate10_1, Exchange10, Begin10 DEF Right, w
<1>2. CASE Line10(s, 2,10, 9,7, 8,4, 3,6, 5,1)
  <2>1. ~BETWEEN(s[3], s[9], s[6])
    BY <1>2, NodesAre DEF Line10, BETWEEN, Chosen, Node
  <2>2. w = <<9, 10, 1, 5, 6, 7, 3, 4, 5, 3, 8, 9>>
    BY <2>1 DEF Make5OptMove
  <2> HIDE DEF w
  <2>3. /\ w \in Seq(Nat) /\ Len(w) = 12 /\ Over(w, 13)
        /\ Swap(w, 1, 4, 9, 10, 1) /\ Swap(w, 4, 7, 5, 6, 7)
        /\ Swap(w, 7, 10, 3, 4, 5) /\ Swap(w, 10, 13, 3, 8, 9)
    BY <2>2 DEF Swap, Over
  <2>4. Links10(s, 2,10, 9,7, 8,4, 3,6, 5,1) = Out10(s)
    BY DEF Links10, Out10
  <2>5. Links10(s, 2,10, 1,5, 4,8, 9,7, 6,3) = In10(s)
    BY DEF Links10, In10
  <2>6. Works10(s, w, 13, 2,10, 1,5, 4,8, 9,7, 6,3)
    BY <2>3, <2>5, Exchange10, AtEnd10
  <2>7. Works10(s, w, 10, 8,4, 5,1, 10,2, 9,7, 6,3)
    BY <2>3, <2>6, Turn10_4
  <2>8. Works10(s, w, 7, 4,8, 5,1, 10,2, 9,7, 6,3)
    BY <2>3, <2>7, Turn10_2
  <2>9. Works10(s, w, 4, 6,3, 4,8, 7,9, 2,10, 1,5)
    BY <2>3, <2>8, Reverse10_4, Turn10_3
  <2>10. Works10(s, w, 1, 10,2, 1,5, 6,3, 4,8, 7,9)
    BY <2>3, <2>9, Rotate10_2, Turn10_2
  <2> QED
    BY <2>3, <1>2, <2>4, <2>10, Reverse10_4, Exchange10, Begin10 DEF Right, w
<1> QED
  BY <1>1, <1>2 DEF Orders10, Orders10_42

\* Make5OptMove, case 43.
LEMMA Move10_43 ==
    ASSUME NEW s, Chosen(s, 10), Orders10(s, 43)
    PROVE  Right(s, Make5OptMove(s, 43))
<1> DEFINE w == Make5OptMove(s, 43)
<1>1. /\ w \in Seq(Nat) /\ Len(w) = 12 /\ Over(w, 13)
      /\ Swap(w, 1, 4, 1, 2, 3) /\ Swap(w, 4, 7, 7, 8, 9)
      /\ Swap(w, 7, 10, 6, 5, 4) /\ Swap(w, 10, 13, 7, 10, 1)
  BY DEF Swap, Over, Make5OptMove
<1> HIDE DEF w
<1>2. Links10(s, 2,6, 5,10, 9,4, 3,8, 7,1) = Out10(s)
  BY DEF Links10, Out10
<1>3. Links10(s, 6,2, 3,8, 9,4, 5,10, 1,7) = In10(s)
  BY DEF Links10, In10
<1>4. Works10(s, w, 13, 6,2, 3,8, 9,4, 5,10, 1,7)
  BY <1>1, <1>3, Exchange10, AtEnd10
<1>5. Works10(s, w, 10, 10,5, 4,9, 8,3, 2,6, 1,7)
  BY <1>1, <1>4, Turn10_5
<1>6. Works10(s, w, 7, 5,10, 7,1, 4,9, 8,3, 2,6)
  BY <1>1, <1>5, Rotate10_1, Turn10_3
<1>7. Works10(s, w, 4, 8,3, 2,6, 5,10, 9,4, 1,7)
  BY <1>1, <1>6, Reverse10_4, Turn10_4
<1>8. Works10(s, w, 1, 2,6, 5,10, 9,4, 3,8, 7,1)
  BY <1>1, <1>7, Reverse10_1, Turn10_4
<1>9. Line10(s, 2,6, 5,10, 9,4, 3,8, 7,1)
  BY DEF Orders10, Orders10_43
<1> QED
  BY <1>1, <1>9, <1>2, <1>8, Exchange10, Begin10 DEF Right, w

\* Make5OptMove, case 44.
LEMMA Move10_44 ==
    ASSUME NEW s, Chosen(s, 10), Orders10(s, 44)
    PROVE  Right(s, Make5OptMove(s, 44))
<1> DEFINE w == Make5OptMove(s, 44)
<1>1. CASE Line10(s, 2,5, 6,3, 4,10, 9,7, 8,1)
  <2>1. BETWEEN(s[4], s[9], s[7])
    BY <1>1, NodesAre DEF Line10, BETWEEN, Chosen, Node
  <2>2. w = <<7, 8, 9, 5, 6, 7, 1, 2, 3, 5, 10, 1>>
    BY <2>1 DEF Make5OptMove
  <2> HIDE DEF w
  <2>3. /\ w \in Seq(Nat) /\ Len(w) = 12 /\ Over(w, 13)
        /\ Swap(w, 1, 4, 7, 8, 9) /\ Swap(w, 4, 7, 5, 6, 7)
        /\ Swap(w, 7, 10, 1, 2, 3) /\ Swap(w, 10, 13, 5, 10, 1)
    BY <2>2 DEF Swap, Over
  <2>4. Links10(s, 2,5, 6,3, 4,10, 9,7, 8,1) = Out10(s)
    BY DEF Links10, Out10
  <2>5. Links10(s, 4,10, 1,8, 9,7, 6,3, 2,5) = In10(s)
    BY DEF Links10, In10
  <2>6. Works10(s, w, 13, 4,10, 1,8, 9,7, 6,3, 2,5)
    BY <2>3, <2>5, Exchange10, AtEnd10
  <2>7. Works10(s, w, 10, 10,4, 1,8, 9,7, 6,3, 2,5)
    BY <2>3, <2>6, Turn10_2
  <2>8. Works10(s, w, 7, 2,5, 10,4, 3,6, 7,9, 8,1)
    BY <2>3, <2>7, Reverse10_4, Turn10_3
  <2>9. Works10(s, w, 4, 6,3, 4,10, 7,9, 8,1, 2,5)
    BY <2>3, <2>8, Rotate10_4, Turn10_3
  <2>10. Works10(s, w, 1, 8,1, 2,5, 6,3, 4,10, 9,7)
    BY <2>3, <2>9, Reverse10_3, Turn10_5
  <2> QED
    BY <2>3, <1>1, <2>4, <2>10, Rotate10_4, Exchange10, Begin10 DEF Right, w
<1>2. CASE Line10(s, 2,5, 6,10, 9,3, 4,7, 8,1)
  <2>1. ~BETWEEN(s[4], s[9], s[7]) /\ BETWEEN(s[6], s[9], s[3])
    BY <1>2, NodesAre DEF Line10, BETWEEN, Chosen, Node
  <2>2. w = <<9, 10, 1, 5, 6, 7, 3, 4, 5, 3, 8, 9>>
    BY <2>1 DEF Make5OptMove
  <2> HIDE DEF w
  <2>3. /\ w \in Seq(Nat) /\ Len(w) = 12 /\ Over(w, 13)
        /\ Swap(w, 1, 4, 9, 10, 1) /\ Swap(w, 4, 7, 5, 6, 7)
        /\ Swap(w, 7, 10, 3, 4, 5) /\ Swap(w, 10, 13, 3, 8, 9)
    BY <2>2 DEF Swap, Over
  <2>4. Links10(s, 2,5, 6,10, 9,3, 4,7, 8,1) = Out10(s)
    BY DEF Links10, Out10
  <2>5. Links10(s, 2,5, 4,7, 6,10, 1,8, 9,3) = In10(s)
    BY DEF Links10, In10
  <2>6. Works10(s, w, 13, 2,5, 4,7, 6,10, 1,8, 9,3)
    BY <2>3, <2>5, Exchange10, AtEnd10
  <2>7. Works10(s, w, 10, 8,1, 10,6, 7,4, 5,2, 9,3)
    BY <2>3, <2>6, Turn10_5
  <2>8. Works10(s, w, 7, 4,7, 6,10, 1,8, 5,2, 9,3)
    BY <2>3, <2>7, Turn10_4
  <2>9. Works10(s, w, 4, 6,10, 1,8, 7,4, 3,9, 2,5)
    BY <2>3, <2>8, Reverse10_2, Turn10_3
  <2>10. Works10(s, w, 1, 10,6, 5,2, 1,8, 7,4, 3,9)
    BY <2>3, <2>9, Rotate10_1, Turn10_3
  <2> QED
    BY <2>3, <1>2, <2>4, <2>10, Reverse10_3, Exchange10, Begin10 DEF Right, w
<1>3. CASE Line10(s, 2,10, 9,5, 6,3, 4,7, 8,1)
  <2>1. ~BETWEEN(s[4], s[9], s[7]) /\ ~BETWEEN(s[6], s[9], s[3])
    BY <1>3, NodesAre DEF Line10, BETWEEN, Chosen, Node
  <2>2. w = <<7, 8, 9, 1, 2, 3, 6, 5, 4, 7, 10, 1>>
    BY <2>1 DEF Make5OptMove
  <2> HIDE DEF w
  <2>3. /\ w \in Seq(Nat) /\ Len(w) = 12 /\ Over(w, 13)
        /\ Swap(w, 1, 4, 7, 8, 9) /\ Swap(w, 4, 7, 1, 2, 3)
        /\ Swap(w, 7, 10, 6, 5, 4) /\ Swap(w, 10, 13, 7, 10, 1)
    BY <2>2 DEF Swap, Over
  <2>4. Links10(s, 2,10, 9,5, 6,3, 4,7, 8,1) = Out10(s)
    BY DEF Links10, Out10
  <2>5. Links10(s, 6,3, 2,10, 1,8, 9,5, 4,7) = In10(s)
    BY DEF Links10, In10
  <2>6. Works10(s, w, 13, 6,3, 2,10, 1,8, 9,5, 4,7)
    BY <2>3, <2>5, Exchange10, AtEnd10
  <2>7. Works10(s, w, 10, 10,2, 3,6, 1,8, 9,5, 4,7)
    BY <2>3, <2>6, Turn10_3
  <2>8. Works10(s, w, 7, 5,9, 8,1, 4,7, 10,2, 3,6)
    BY <2>3, <2>7, Rotate10_3, Turn10_3
  <2>9. Works10(s, w, 4, 2,10, 7,4, 3,6, 5,9, 8,1)
    BY <2>3, <2>8, Rotate10_3, Turn10_3
  <2>10. Works10(s, w, 1, 8,1, 2,10, 9,5, 6,3, 4,7)
    BY <2>3, <2>9, Reverse10_4, Turn10_3
  <2> QED
    BY <2>3, <1>3, <2>4, <2>10, Rotate10_4, Exchange10, Begin10 DEF Right, w
<1> QED
  BY <1>1, <1>2, <1>3 DEF Orders10, Orders10_44

\* Make5OptMove, case 45.
LEMMA Move10_45 ==
    ASSUME NEW s, Chosen(s, 10), Orders10(s, 45)
    PROVE  Right(s, Make5OptMove(s, 45))
<1> DEFINE w == Make5OptMove(s, 45)
<1>1. /\ w \in Seq(Nat) /\ Len(w) = 12 /\ Over(w, 13)
      /\ Swap(w, 1, 4, 9, 10, 1) /\ Swap(w, 4, 7, 3, 4, 5)
      /\ Swap(w, 7, 10, 7, 8, 9) /\ Swap(w, 10, 13, 3, 6, 7)
  BY DEF Swap, Over, Make5OptMove
<1> HIDE DEF w
<1>2. Links10(s, 2,5, 6,10, 9,7, 8,3, 4,1) = Out10(s)
  BY DEF Links10, Out10
<1>3. Links10(s, 2,5, 4,1, 10,6, 7,9, 8,3) = In10(s)
  BY DEF Links10, In10
<1>4. Works10(s, w, 13, 2,5, 4,1, 10,6, 7,9, 8,3)
  BY <1>1, <1>3, Exchange10, AtEnd10
<1>5. Works10(s, w, 10, 6,10, 1,4, 5,2, 7,9, 8,3)
  BY <1>1, <1>4, Turn10_4
<1>6. Works10(s, w, 7, 8,3, 6,10, 1,4, 5,2, 9,7)
  BY <1>1, <1>5, Reverse10_2, Turn10_5
<1>7. Works10(s, w, 4, 4,1, 10,6, 5,2, 9,7, 8,3)
  BY <1>1, <1>6, Rotate10_4, Turn10_3
<1>8. Works10(s, w, 1, 10,6, 5,2, 1,4, 3,8, 7,9)
  BY <1>1, <1>7, Reverse10_2, Turn10_3
<1>9. Line10(s, 2,5, 6,10, 9,7, 8,3, 4,1)
  BY DEF Orders10, Orders10_45
<1> QED
  BY <1>1, <1>9, <1>2, <1>8, Reverse10_3, Exchange10, Begin10 DEF Right, w

\* Make5OptMove, case 46.
LEMMA Move10_46 ==
    ASSUME NEW s, Chosen(s, 10), Orders10(s, 46)
    PROVE  Right(s, Make5OptMove(s, 46))
<1> DEFINE w == Make5OptMove(s, 46)
<1>1. /\ w \in Seq(Nat) /\ Len(w) = 12 /\ Over(w, 13)
      /\ Swap(w, 1, 4, 7, 8, 9) /\ Swap(w, 4, 7, 5, 6, 7)
      /\ Swap(w, 7, 10, 3, 4, 5) /\ Swap(w, 10, 13, 1, 2, 3)
  BY DEF Swap, Over, Make5OptMove
<1> HIDE DEF w
<1>2. CASE Line10(s, 2,7, 8,5, 6,10, 9,3, 4,1)
  <2>1. Links10(s, 2,7, 8,5, 6,10, 9,3, 4,1) = Out10(s)
    BY DEF Links10, Out10
  <2>2. Links10(s, 10,6, 7,2, 3,9, 8,5, 4,1) = In10(s)
    BY DEF Links10, In10
  <2>3. Works10(s, w, 13, 10,6, 7,2, 3,9, 8,5, 4,1)
    BY <1>1, <2>2, Exchange10, AtEnd10
  <2>4. Works10(s, w, 10, 2,7, 6,10, 3,9, 8,5, 4,1)
    BY <1>1, <2>3, Turn10_3
  <2>5. Works10(s, w, 7, 4,1, 2,7, 6,10, 5,8, 9,3)
    BY <1>1, <2>4, Reverse10_3, Turn10_4
  <2>6. Works10(s, w, 4, 6,10, 7,2, 1,4, 3,9, 8,5)
    BY <1>1, <2>5, Reverse10_2, Turn10_2
  <2>7. Works10(s, w, 1, 8,5, 6,10, 9,3, 4,1, 2,7)
    BY <1>1, <2>6, Reverse10_4, Turn10_3
  <2> QED
    BY <1>1, <1>2, <2>1, <2>7, Rotate10_1, Exchange10, Begin10 DEF Right, w
<1>3. CASE Line10(s, 2,10, 9,7, 8,5, 6,3, 4,1)
  <2>1. Links10(s, 2,10, 9,7, 8,5, 6,3, 4,1) = Out10(s)
    BY DEF Links10, Out10
  <2>2. Links10(s, 10,2, 3,6, 7,9, 8,5, 4,1) = In10(s)
    BY DEF Links10, In10
  <2>3. Works10(s, w, 13, 10,2, 3,6, 7,9, 8,5, 4,1)
    BY <1>1, <2>2, Exchange10, AtEnd10
  <2>4. Works10(s, w, 10, 2,10, 3,6, 7,9, 8,5, 4,1)
    BY <1>1, <2>3, Turn10_2
  <2>5. Works10(s, w, 7, 4,1, 2,10, 5,8, 9,7, 6,3)
    BY <1>1, <2>4, Reverse10_4, Turn10_3
  <2>6. Works10(s, w, 4, 6,3, 4,1, 2,10, 7,9, 8,5)
    BY <1>1, <2>5, Reverse10_3, Turn10_4
  <2>7. Works10(s, w, 1, 8,5, 6,3, 4,1, 2,10, 9,7)
    BY <1>1, <2>6, Reverse10_2, Turn10_5
  <2> QED
    BY <1>1, <1>3, <2>1, <2>7, Rotate10_2, Exchange10, Begin10 DEF Right, w
<1> QED
  BY <1>2, <1>3 DEF Orders10, Orders10_46

\* Make5OptMove, case 47.
LEMMA Move10_47 ==
    ASSUME NEW s, Chosen(s, 10), Orders10(s, 47)
    PROVE  Right(s, Make5OptMove(s, 47))
<1> DEFINE w == Make5OptMove(s, 47)
<1>1. CASE Line10(s, 2,6, 5,3, 4,10, 9,7, 8,1)
  <2>1. BETWEEN(s[4], s[9], s[7])
    BY <1>1, NodesAre DEF Line10, BETWEEN, Chosen, Node
  <2>2. w = <<5, 6, 7, 1, 2, 3, 9, 10, 1, 5, 8, 9>>
    BY <2>1 DEF Make5OptMove
  <2> HIDE DEF w
  <2>3. /\ w \in Seq(Nat) /\ Len(w) = 12 /\ Over(w, 13)
        /\ Swap(w, 1, 4, 5, 6, 7) /\ Swap(w, 4, 7, 1, 2, 3)
        /\ Swap(w, 7, 10, 9, 10, 1) /\ Swap(w, 10, 13, 5, 8, 9)
    BY <2>2 DEF Swap, Over
  <2>4. Links10(s, 2,6, 5,3, 4,10, 9,7, 8,1) = Out10(s)
    BY DEF Links10, Out10
  <2>5. Links10(s, 4,10, 1,8, 9,7, 6,2, 3,5) = In10(s)
    BY DEF Links10, In10
  <2>6. Works10(s, w, 13, 4,10, 1,8, 9,7, 6,2, 3,5)
    BY <2>3, <2>5, Exchange10, AtEnd10
  <2>7. Works10(s, w, 10, 8,1, 10,4, 9,7, 6,2, 3,5)
    BY <2>3, <2>6, Turn10_3
  <2>8. Works10(s, w, 7, 10,4, 1,8, 5,3, 2,6, 7,9)
    BY <2>3, <2>7, Reverse10_3, Turn10_2
  <2>9. Works10(s, w, 4, 2,6, 7,9, 10,4, 3,5, 8,1)
    BY <2>3, <2>8, Reverse10_4, Turn10_4
  <2>10. Works10(s, w, 1, 6,2, 1,8, 7,9, 10,4, 3,5)
    BY <2>3, <2>9, Rotate10_1, Turn10_3
  <2> QED
    BY <2>3, <1>1, <2>4, <2>10, Reverse10_4, Exchange10, Begin10 DEF Right, w
<1>2. CASE Line10(s, 2,6, 5,10, 9,3, 4,7, 8,1)
  <2>1. ~BETWEEN(s[4], s[9], s[7]) /\ BETWEEN(s[5], s[9], s[3])
    BY <1>2, NodesAre DEF Line10, BETWEEN, Chosen, Node
  <2>2. w = <<9, 10, 1, 7, 8, 9, 5, 6, 7, 3, 4, 5>>
    BY <2>1 DEF Make5OptMove
  <2> HIDE DEF w
  <2>3. /\ w \in Seq(Nat) /\ Len(w) = 12 /\ Over(w, 13)
        /\ Swap(w, 1, 4, 9, 10, 1) /\ Swap(w, 4, 7, 7, 8, 9)
        /\ Swap(w, 7, 10, 5, 6, 7) /\ Swap(w, 10, 13, 3, 4, 5)
    BY <2>2 DEF Swap, Over
  <2>4. Links10(s, 2,6, 5,10, 9,3, 4,7, 8,1) = Out10(s)
    BY DEF Links10, Out10
  <2>5. Links10(s, 2,6, 7,4, 5,10, 1,8, 9,3) = In10(s)
    BY DEF Links10, In10
  <2>6. Works10(s, w, 13, 2,6, 7,4, 5,10, 1,8, 9,3)
    BY <2>3, <2>5, Exchange10, AtEnd10
  <2>7. Works10(s, w, 10, 4,7, 6,2, 5,10, 1,8, 9,3)
    BY <2>3, <2>6, Turn10_3
  <2>8. Works10(s, w, 7, 6,2, 7,4, 3,9, 8,1, 10,5)
    BY <2>3, <2>7, Reverse10_3, Turn10_2
  <2>9. Works10(s, w, 4, 8,1, 10,5, 6,2, 9,3, 4,7)
    BY <2>3, <2>8, Reverse10_4, Turn10_4
  <2>10. Works10(s, w, 1, 10,5, 6,2, 1,8, 7,4, 3,9)
    BY <2>3, <2>9, Reverse10_2, Turn10_3
  <2> QED
    BY <2>3, <1>2, <2>4, <2>10, Reverse10_3, Exchange10, Begin10 DEF Right, w
<1>3. CASE Line10(s, 2,10, 9,6, 5,3, 4,7, 8,1)
  <2>1. ~BETWEEN(s[4], s[9], s[7]) /\ ~BETWEEN(s[5], s[9], s[3])
    BY <1>3, NodesAre DEF Line10, BETWEEN, Chosen, Node
  <2>2. w = <<7, 8, 9, 3, 4, 5, 3, 6, 7, 2, 1, 10>>
    BY <2>1 DEF Make5OptMove
  <2> HIDE DEF w
  <2>3. /\ w \in Seq(Nat) /\ Len(w) = 12 /\ Over(w, 13)
        /\ Swap(w, 1, 4, 7, 8, 9) /\ Swap(w, 4, 7, 3, 4, 5)
        /\ Swap(w, 7, 10, 3, 6, 7) /\ Swap(w, 10, 13, 2, 1, 10)
    BY <2>2 DEF Swap, Over
  <2>4. Links10(s, 2,10, 9,6, 5,3, 4,7, 8,1) = Out10(s)
    BY DEF Links10, Out10
  <2>5. Links10(s, 3,5, 4,7, 6,9, 8,1, 10,2) = In10(s)
    BY DEF Links10, In10
  <2>6. Works10(s, w, 13, 3,5, 4,7, 6,9, 8,1, 10,2)
    BY <2>3, <2>5, Exchange10, AtEnd10
  <2>7. Works10(s, w, 10, 1,8, 9,6, 7,4, 5,3, 10,2)
    BY <2>3, <2>6, Turn10_5
  <2>8. Works10(s, w, 7, 6,9, 8,1, 2,10, 7,4, 5,3)
    BY <2>3, <2>7, Rotate10_1, Turn10_4
  <2>9. Works10(s, w, 4, 4,7, 10,2, 1,8, 9,6, 5,3)
    BY <2>3, <2>8, Turn10_5
  <2>10. Works10(s, w, 1, 8,1, 2,10, 9,6, 5,3, 4,7)
    BY <2>3, <2>9, Rotate10_4, Turn10_3
  <2> QED
    BY <2>3, <1>3, <2>4, <2>10, Rotate10_4, Exchange10, Begin10 DEF Right, w
<1> QED
  BY <1>1, <1>2, <1>3 DEF Orders10, Orders10_47

\* Make5OptMove, case 48.
LEMMA Move10_48 ==
    ASSUME NEW s, Chosen(s, 10), Orders10(s, 48)
    PROVE  Right(s, Make5OptMove(s, 48))
<1> DEFINE w == Make5OptMove(s, 48)
<1>1. CASE Line10(s, 2,6, 5,8, 7,10, 9,3, 4,1)
  <2>1. BETWEEN(s[7], s[9], s[3])
    BY <1>1, NodesAre DEF Line10, BETWEEN, Chosen, Node
  <2>2. w = <<3, 4, 5, 8, 7, 6, 2, 1, 10, 8, 3, 2>>
    BY <2>1 DEF Make5OptMove
  <2> HIDE DEF w
  <2>3. /\ w \in Seq(Nat) /\ Len(w) = 12 /\ Over(w, 13)
        /\ Swap(w, 1, 4, 3, 4, 5) /\ Swap(w, 4, 7, 8, 7, 6)
        /\ Swap(w, 7, 10, 2, 1, 10) /\ Swap(w, 10, 13, 8, 3, 2)
    BY <2>2 DEF Swap, Over
  <2>4. Links10(s, 2,6, 5,8, 7,10, 9,3, 4,1) = Out10(s)
    BY DEF Links10, Out10
  <2>5. Links10(s, 9,3, 2,6, 7,10, 1,4, 5,8) = In10(s)
    BY DEF Links10, In10
  <2>6. Works10(s, w, 13, 9,3, 2,6, 7,10, 1,4, 5,8)
    BY <2>3, <2>5, Exchange10, AtEnd10
  <2>7. Works10(s, w, 10, 3,9, 2,6, 7,10, 1,4, 5,8)
    BY <2>3, <2>6, Turn10_2
  <2>8. Works10(s, w, 7, 1,4, 5,8, 3,9, 10,7, 6,2)
    BY <2>3, <2>7, Reverse10_4, Turn10_4
  <2>9. Works10(s, w, 4, 7,10, 9,3, 6,2, 1,4, 5,8)
    BY <2>3, <2>8, Rotate10_3, Turn10_3
  <2>10. Works10(s, w, 1, 4,1, 2,6, 5,8, 7,10, 9,3)
    BY <2>3, <2>9, Rotate10_3, Turn10_3
  <2> QED
    BY <2>3, <1>1, <2>4, <2>10, Rotate10_4, Exchange10, Begin10 DEF Right, w
<1>2. CASE Line10(s, 2,10, 9,6, 5,8, 7,3, 4,1)
  <2>1. ~BETWEEN(s[7], s[9], s[3])
    BY <1>2, NodesAre DEF Line10, BETWEEN, Chosen, Node
  <2>2. w = <<3, 4, 5, 7, 8, 9, 3, 6, 7, 1, 2, 3>>
    BY <2>1 DEF Make5OptMove
  <2> HIDE DEF w
  <2>3. /\ w \in Seq(Nat) /\ Len(w) = 12 /\ Over(w, 13)
        /\ Swap(w, 1, 4, 3, 4, 5) /\ Swap(w, 4, 7, 7, 8, 9)
        /\ Swap(w, 7, 10, 3, 6, 7) /\ Swap(w, 10, 13, 1, 2, 3)
    BY <2>2 DEF Swap, Over
  <2>4. Links10(s, 2,10, 9,6, 5,8, 7,3, 4,1) = Out10(s)
    BY DEF Links10, Out10
  <2>5. Links10(s, 10,2, 3,7, 6,9, 8,5, 4,1) = In10(s)
    BY DEF Links10, In10
  <2>6. Works10(s, w, 13, 10,2, 3,7, 6,9, 8,5, 4,1)
    BY <2>3, <2>5, Exchange10, AtEnd10
  <2>7. Works10(s, w, 10, 2,10, 3,7, 6,9, 8,5, 4,1)
    BY <2>3, <2>6, Turn10_2
  <2>8. Works10(s, w, 7, 6,9, 8,5, 4,1, 2,10, 7,3)
    BY <2>3, <2>7, Reverse10_4, Turn10_5
  <2>9. Works10(s, w, 4, 8,5, 4,1, 2,10, 9,6, 3,7)
    BY <2>3, <2>8, Reverse10_1, Turn10_4
  <2>10. Works10(s, w, 1, 4,1, 2,10, 9,6, 5,8, 7,3)
    BY <2>3, <2>9, Reverse10_1, Turn10_4
  <2> QED
    BY <2>3, <1>2, <2>4, <2>10, Rotate10_4, Exchange10, Begin10 DEF Right, w
<1> QED
  BY <1>1, <1>2 DEF Orders10, Orders10_48

\* Make5OptMove, case 49.
LEMMA Move10_49 ==
    ASSUME NEW s, Chosen(s, 10), Orders10(s, 49)
    PROVE  Right(s, Make5OptMove(s, 49))
<1> DEFINE w == Make5OptMove(s, 49)
<1>1. /\ w \in Seq(Nat) /\ Len(w) = 12 /\ Over(w, 13)
      /\ Swap(w, 1, 4, 9, 10, 1) /\ Swap(w, 4, 7, 5, 6, 7)
      /\ Swap(w, 7, 10, 3, 4, 5) /\ Swap(w, 10, 13, 3, 8, 9)
  BY DEF Swap, Over, Make5OptMove
<1> HIDE DEF w
<1>2. Links10(s, 2,8, 7,10, 9,6, 5,3, 4,1) = Out10(s)
  BY DEF Links10, Out10
<1>3. Links10(s, 2,8, 9,6, 7,10, 1,4, 5,3) = In10(s)
  BY DEF Links10, In10
<1>4. Works10(s, w, 13, 2,8, 9,6, 7,10, 1,4, 5,3)
  BY <1>1, <1>3, Exchange10, AtEnd10
<1>5. Works10(s, w, 10, 8,2, 9,6, 7,10, 1,4, 5,3)
  BY <1>1, <1>4, Turn10_2
<1>6. Works10(s, w, 7, 4,1, 10,7, 6,9, 2,8, 5,3)
  BY <1>1, <1>5, Turn10_5
<1>7. Works10(s, w, 4, 6,9, 2,8, 7,10, 1,4, 3,5)
  BY <1>1, <1>6, Reverse10_1, Turn10_3
<1>8. Works10(s, w, 1, 10,7, 8,2, 1,4, 3,5, 6,9)
  BY <1>1, <1>7, Rotate10_4, Turn10_3
<1>9. Line10(s, 2,8, 7,10, 9,6, 5,3, 4,1)
  BY DEF Orders10, Orders10_49
<1> QED
  BY <1>1, <1>9, <1>2, <1>8, Reverse10_3, Exchange10, Begin10 DEF Right, w

\* Make5OptMove, case 50.
LEMMA Move10_50 ==
    ASSUME NEW s, Chosen(s, 10), Orders10(s, 50)
    PROVE  Right(s, Make5OptMove(s, 50))
<1> DEFINE w == Make5OptMove(s, 50)
<1>1. /\ w \in Seq(Nat) /\ Len(w) = 12 /\ Over(w, 13)
      /\ Swap(w, 1, 4, 3, 4, 5) /\ Swap(w, 4, 7, 3, 6, 7)
      /\ Swap(w, 7, 10, 9, 10, 1) /\ Swap(w, 10, 13, 8, 3, 2)
  BY DEF Swap, Over, Make5OptMove
<1> HIDE DEF w
<1>2. Links10(s, 2,10, 9,3, 4,6, 5,8, 7,1) = Out10(s)
  BY DEF Links10, Out10
<1>3. Links10(s, 9,3, 2,10, 1,7, 6,4, 5,8) = In10(s)
  BY DEF Links10, In10
<1>4. Works10(s, w, 13, 9,3, 2,10, 1,7, 6,4, 5,8)
  BY <1>1, <1>3, Exchange10, AtEnd10
<1>5. Works10(s, w, 10, 3,9, 2,10, 1,7, 6,4, 5,8)
  BY <1>1, <1>4, Turn10_2
<1>6. Works10(s, w, 7, 10,2, 1,7, 6,4, 5,8, 3,9)
  BY <1>1, <1>5, Rotate10_4, Turn10_2
<1>7. Works10(s, w, 4, 6,4, 5,8, 7,1, 2,10, 9,3)
  BY <1>1, <1>6, Reverse10_1, Turn10_3
<1>8. Works10(s, w, 1, 4,6, 5,8, 7,1, 2,10, 9,3)
  BY <1>1, <1>7, Turn10_2
<1>9. Line10(s, 2,10, 9,3, 4,6, 5,8, 7,1)
  BY DEF Orders10, Orders10_50
<1> QED
  BY <1>1, <1>9, <1>2, <1>8, Rotate10_2, Exchange10, Begin10 DEF Right, w

\* Make5OptMove, case 51.
LEMMA Move10_51 ==
    ASSUME NEW s, Chosen(s, 10), Orders10(s, 51)
    PROVE  Right(s, Make5OptMove(s, 51))
<1> DEFINE w == Make5OptMove(s, 51)
<1>1. /\ w \in Seq(Nat) /\ Len(w) = 12 /\ Over(w, 13)
      /\ Swap(w, 1, 4, 5, 6, 7) /\ Swap(w, 4, 7, 1, 2, 3)
      /\ Swap(w, 7, 10, 9, 10, 1) /\ Swap(w, 10, 13, 4, 9, 8)
  BY DEF Swap, Over, Make5OptMove
<1> HIDE DEF w
<1>2. Links10(s, 2,8, 7,3, 4,10, 9,5, 6,1) = Out10(s)
  BY DEF Links10, Out10
<1>3. Links10(s, 5,9, 8,2, 3,7, 6,1, 10,4) = In10(s)
  BY DEF Links10, In10
<1>4. Works10(s, w, 13, 5,9, 8,2, 3,7, 6,1, 10,4)
  BY <1>1, <1>3, Exchange10, AtEnd10
<1>5. Works10(s, w, 10, 9,5, 8,2, 3,7, 6,1, 10,4)
  BY <1>1, <1>4, Turn10_2
<1>6. Works10(s, w, 7, 10,4, 1,6, 7,3, 2,8, 5,9)
  BY <1>1, <1>5, Reverse10_0, Turn10_2
<1>7. Works10(s, w, 4, 2,8, 5,9, 10,4, 3,7, 6,1)
  BY <1>1, <1>6, Reverse10_4, Turn10_4
<1>8. Works10(s, w, 1, 6,1, 2,8, 7,3, 4,10, 9,5)
  BY <1>1, <1>7, Reverse10_4, Turn10_3
<1>9. Line10(s, 2,8, 7,3, 4,10, 9,5, 6,1)
  BY DEF Orders10, Orders10_51
<1> QED
  BY <1>1, <1>9, <1>2, <1>8, Rotate10_4, Exchange10, Begin10 DEF Right, w

\* Make5OptMove, case 52.
LEMMA Move10_52 ==
    ASSUME NEW s, Chosen(s, 10), Orders10(s, 52)
    PROVE  Right(s, Make5OptMove(s, 52))
<1> DEFINE w == Make5OptMove(s, 52)
<1>1. /\ w \in Seq(Nat) /\ Len(w) = 12 /\ Over(w, 13)
      /\ Swap(w, 1, 4, 5, 6, 7) /\ Swap(w, 4, 7, 3, 4, 5)
      /\ Swap(w, 7, 10, 9, 10, 1) /\ Swap(w, 10, 13, 3, 8, 9)
  BY DEF Swap, Over, Make5OptMove
<1> HIDE DEF w
<1>2. Links10(s, 2,10, 9,3, 4,8, 7,5, 6,1) = Out10(s)
  BY DEF Links10, Out10
<1>3. Links10(s, 2,10, 1,6, 7,5, 4,8, 9,3) = In10(s)
  BY DEF Links10, In10
<1>4. Works10(s, w, 13, 2,10, 1,6, 7,5, 4,8, 9,3)
  BY <1>1, <1>3, Exchange10, AtEnd10
<1>5. Works10(s, w, 10, 8,4, 5,7, 6,1, 10,2, 9,3)
  BY <1>1, <1>4, Turn10_5
<1>6. Works10(s, w, 7, 10,2, 1,6, 7,5, 4,8, 3,9)
  BY <1>1, <1>5, Reverse10_1, Turn10_2
<1>7. Works10(s, w, 4, 4,8, 5,7, 6,1, 2,10, 9,3)
  BY <1>1, <1>6, Reverse10_1, Turn10_2
<1>8. Works10(s, w, 1, 6,1, 2,10, 9,3, 4,8, 7,5)
  BY <1>1, <1>7, Reverse10_4, Turn10_5
<1>9. Line10(s, 2,10, 9,3, 4,8, 7,5, 6,1)
  BY DEF Orders10, Orders10_52
<1> QED
  BY <1>1, <1>9, <1>2, <1>8, Rotate10_4, Exchange10, Begin10 DEF Right, w

-----------------------------------------------------------------------------
(* How the choices of a Best function lead to these orders.              *)

\* y follows x on the tour at the call.
Succ(x, y) == y = IF x = N THEN 1 ELSE x + 1

\* {a, b} = {c, d}
Same(a, b, c, d) == (a = c /\ b = d) \/ (a = d /\ b = c)

\* SUC and PRD are the two directions of this.
LEMMA Neighbours ==
    ASSUME NEW x \in Node
    PROVE  /\ SUC(x) \in Node /\ PRD(x) \in Node
           /\ \A y : y = SUC(x) <=> Succ(x, y)
           /\ \A y \in Node : y = PRD(x) <=> Succ(y, x)
<1>1. N \in Nat /\ N >= 5 /\ x \in 1..N
  BY NAssumption DEF Node
<1>2. SUC(x) = IF x = N THEN 1 ELSE x + 1
  BY Following DEF SUC
<1>3. PRD(x) = IF x = 1 THEN N ELSE x - 1
  <2>1. (x + N - 2) % N = IF x = 1 THEN N - 1 ELSE x - 2
    <3>1. CASE x = 1
      BY <1>1, <3>1
    <3>2. CASE x # 1
      <4>1. x + N - 2 = 1 * N + (x - 2) /\ x - 2 \in 0..(N - 1)
        BY <1>1, <3>2
      <4> QED
        BY <1>1, <3>2, <4>1
    <3> QED
      BY <3>1, <3>2
  <2> QED
    BY <1>1, <2>1 DEF PRD
<1> QED
  BY <1>1, <1>2, <1>3 DEF Succ, Node

\* The nodes chosen so far, one by one.
Picked4(s) ==
    /\ s[1] = N /\ s[2] = 1
    /\ s[3] \in Node /\ s[4] \in Node

Picked6(s) ==
    /\ s[1] = N /\ s[2] = 1
    /\ s[3] \in Node /\ s[4] \in Node /\ s[5] \in Node /\ s[6] \in Node

Picked8(s) ==
    /\ s[1] = N /\ s[2] = 1
    /\ s[3] \in Node /\ s[4] \in Node /\ s[5] \in Node /\ s[6] \in Node
    /\ s[7] \in Node /\ s[8] \in Node

Picked10(s) ==
    /\ s[1] = N /\ s[2] = 1
    /\ s[3] \in Node /\ s[4] \in Node /\ s[5] \in Node /\ s[6] \in Node
    /\ s[7] \in Node /\ s[8] \in Node /\ s[9] \in Node /\ s[10] \in Node

\* What is chosen is picked.
LEMMA PickedAre ==
    ASSUME NEW s, NEW n \in {4, 6, 8, 10}, Chosen(s, n)
    PROVE  /\ n = 4 => Picked4(s)
           /\ n = 6 => Picked6(s)
           /\ n = 8 => Picked8(s)
           /\ n = 10 => Picked10(s)
<1>1. CASE n = 4
  BY <1>1, Exchange4 DEF Chosen, Picked4
<1>2. CASE n = 6
  BY <1>2, Exchange6 DEF Chosen, Picked6
<1>3. CASE n = 8
  BY <1>3, Exchange8 DEF Chosen, Picked8
<1>4. CASE n = 10
  BY <1>4, Exchange10 DEF Chosen, Picked10
<1> QED
  BY <1>1, <1>2, <1>3, <1>4

\* What Candidates and Fresh ask of the node that is chosen next.
Free2(s) ==
    /\ s[3] # s[2] /\ ~Succ(s[2], s[3]) /\ ~Succ(s[3], s[2])

Free4(s) ==
    /\ s[5] # s[4] /\ ~Succ(s[4], s[5]) /\ ~Succ(s[5], s[4])

Free6(s) ==
    /\ s[7] # s[6] /\ ~Succ(s[6], s[7]) /\ ~Succ(s[7], s[6])
    /\ ~Same(s[6], s[7], s[2], s[3])

Free8(s) ==
    /\ s[9] # s[8] /\ ~Succ(s[8], s[9]) /\ ~Succ(s[9], s[8])
    /\ ~Same(s[8], s[9], s[2], s[3])
    /\ ~Same(s[8], s[9], s[4], s[5])
    /\ s[9] # s[1]

\* t3 and t4.
LEMMA Step4_1 ==
    ASSUME NEW s, Picked4(s), Free2(s),
           Succ(s[4], s[3])
    PROVE  Orders4(s, 1)
<1>1. Line4(s, 2,4, 3,1)
  BY NodesAre, SMTT(60)
     DEF Picked4, Line4, Free2, Node, BETWEEN, Succ, Same
<1> QED
  BY <1>1 DEF Orders4

\* t3 and t4 in case 2.
LEMMA Step4_2 ==
    ASSUME NEW s, Picked4(s), Free2(s),
           Succ(s[3], s[4])
    PROVE  Orders4(s, 2)
<1>1. Line4(s, 2,3, 4,1)
  BY NodesAre, SMTT(60)
     DEF Picked4, Line4, Free2, Node, BETWEEN, Succ, Same
<1> QED
  BY <1>1 DEF Orders4

\* t5 and t6 in case 1, and in the other cases below.
LEMMA Step6_1 ==
    ASSUME NEW s, Picked6(s), Free4(s),
           Orders4(s, 1),
           BETWEEN(s[2], s[5], s[4]),
           Succ(s[5], s[6])
    PROVE  Orders6(s, 1)
<1>1. Line4(s, 2,4, 3,1)
  BY DEF Orders4
<1>2. Line6(s, 2,5, 6,4, 3,1)
  BY NodesAre, <1>1, SMTT(60)
     DEF Picked6, Line4, Line6, Free4, Node, BETWEEN, Succ, Same
<1> QED
  BY <1>2 DEF Orders6

\* t5 and t6 in case 2.
LEMMA Step6_2 ==
    ASSUME NEW s, Picked6(s), Free4(s),
           Orders4(s, 1),
           ~BETWEEN(s[2], s[5], s[4]),
           Succ(s[6], s[5])
    PROVE  Orders6(s, 2)
<1>1. Line4(s, 2,4, 3,1)
  BY DEF Orders4
<1>2. Line6(s, 2,4, 3,6, 5,1)
  BY NodesAre, <1>1, SMTT(60)
     DEF Picked6, Line4, Line6, Free4, Node, BETWEEN, Succ, Same
<1> QED
  BY <1>2 DEF Orders6

\* t5 and t6 in case 3.
LEMMA Step6_3 ==
    ASSUME NEW s, Picked6(s), Free4(s),
           Orders4(s, 1),
           BETWEEN(s[2], s[5], s[4]),
           Succ(s[6], s[5]),
           ~Same(s[5], s[6], s[1], s[2])
    PROVE  Orders6(s, 3)
<1>1. Line4(s, 2,4, 3,1)
  BY DEF Orders4
<1>2. Line6(s, 2,6, 5,4, 3,1)
  BY NodesAre, <1>1, SMTT(60)
     DEF Picked6, Line4, Line6, Free4, Node, BETWEEN, Succ, Same
<1> QED
  BY <1>2 DEF Orders6

\* t5 and t6 in case 4.
LEMMA Step6_4 ==
    ASSUME NEW s, Picked6(s), Free4(s),
           Orders4(s, 1),
           ~BETWEEN(s[2], s[5], s[4]),
           Succ(s[5], s[6]),
           ~Same(s[5], s[6], s[1], s[2])
    PROVE  Orders6(s, 4)
<1>1. Line4(s, 2,4, 3,1)
  BY DEF Orders4
<1>2. Line6(s, 2,4, 3,5, 6,1)
  BY NodesAre, <1>1, SMTT(60)
     DEF Picked6, Line4, Line6, Free4, Node, BETWEEN, Succ, Same
<1> QED
  BY <1>2 DEF Orders6

\* t5 and t6 in case 5.
LEMMA Step6_5 ==
    ASSUME NEW s, Picked6(s), Free4(s),
           Orders4(s, 2),
           BETWEEN(s[2], s[5], s[3]),
           Succ(s[5], s[6]),
           s[6] # s[1]
    PROVE  Orders6(s, 5)
<1>1. Line4(s, 2,3, 4,1)
  BY DEF Orders4
<1>2. Line6(s, 2,5, 6,3, 4,1)
  BY NodesAre, <1>1, SMTT(60)
     DEF Picked6, Line4, Line6, Free4, Node, BETWEEN, Succ, Same
<1> QED
  BY <1>2 DEF Orders6

\* t5 and t6 in case 6.
LEMMA Step6_6 ==
    ASSUME NEW s, Picked6(s), Free4(s),
           Orders4(s, 2),
           BETWEEN(s[2], s[5], s[3]),
           Succ(s[6], s[5]),
           s[6] # s[1]
    PROVE  Orders6(s, 6)
<1>1. Line4(s, 2,3, 4,1)
  BY DEF Orders4
<1>2. Line6(s, 2,6, 5,3, 4,1)
  BY NodesAre, <1>1, SMTT(60)
     DEF Picked6, Line4, Line6, Free4, Node, BETWEEN, Succ, Same
<1> QED
  BY <1>2 DEF Orders6

\* t5 and t6 in case 7.
LEMMA Step6_7 ==
    ASSUME NEW s, Picked6(s), Free4(s),
           Orders4(s, 2),
           ~BETWEEN(s[2], s[5], s[3]),
           Succ(s[6], s[5]),
           s[6] # s[2]
    PROVE  Orders6(s, 7)
<1>1. Line4(s, 2,3, 4,1)
  BY DEF Orders4
<1>2. Line6(s, 2,3, 4,6, 5,1)
  BY NodesAre, <1>1, SMTT(60)
     DEF Picked6, Line4, Line6, Free4, Node, BETWEEN, Succ, Same
<1> QED
  BY <1>2 DEF Orders6

\* t5 and t6 in case 8.
LEMMA Step6_8 ==
    ASSUME NEW s, Picked6(s), Free4(s),
           Orders4(s, 2),
           ~BETWEEN(s[2], s[5], s[3]),
           Succ(s[5], s[6]),
           s[6] # s[2]
    PROVE  Orders6(s, 8)
<1>1. Line4(s, 2,3, 4,1)
  BY DEF Orders4
<1>2. Line6(s, 2,3, 4,5, 6,1)
  BY NodesAre, <1>1, SMTT(60)
     DEF Picked6, Line4, Line6, Free4, Node, BETWEEN, Succ, Same
<1> QED
  BY <1>2 DEF Orders6

\* t7 and t8 as Best5OptMove takes them, by cases.
LEMMA Step8_1 ==
    ASSUME NEW s, Picked8(s), Free6(s),
           Orders6(s, 1),
           s[8] = End8(s, 1, 1),
           Tried8Of5(s, 1, 1)
    PROVE  Orders8(s, 1)
<1>1. Line6(s, 2,5, 6,4, 3,1)
  BY DEF Orders6
<1>2. IF Forward8(s, 1) THEN Succ(s[7], s[8]) ELSE Succ(s[8], s[7])
  BY Neighbours DEF Picked8, End8, Side
<1>3. ~Same(s[7], s[8], s[3], s[4]) /\ ~Same(s[7], s[8], s[1], s[2])
  BY DEF Tried8Of5, Same
<1>4. \/ Line8(s, 2,5, 6,4, 3,8, 7,1)
      \/ Line8(s, 2,5, 6,8, 7,4, 3,1)
      \/ Line8(s, 2,7, 8,5, 6,4, 3,1)
  BY NodesAre, <1>1, <1>2, <1>3, SMTT(60)
     DEF Picked8, Line6, Line8, Free6, Forward8, Node, BETWEEN, Succ, Same
<1> QED
  BY <1>4 DEF Orders8

\* t7 and t8 in case 2.
LEMMA Step8_2 ==
    ASSUME NEW s, Picked8(s), Free6(s),
           Orders6(s, 2),
           s[8] = End8(s, 2, 1),
           Tried8Of5(s, 2, 1)
    PROVE  Orders8(s, 2)
<1>1. Line6(s, 2,4, 3,6, 5,1)
  BY DEF Orders6
<1>2. IF Forward8(s, 2) THEN Succ(s[7], s[8]) ELSE Succ(s[8], s[7])
  BY Neighbours DEF Picked8, End8, Side
<1>3. ~Same(s[7], s[8], s[3], s[4]) /\ ~Same(s[7], s[8], s[1], s[2])
  BY DEF Tried8Of5, Same
<1>4. \/ Line8(s, 2,4, 3,6, 5,8, 7,1)
      \/ Line8(s, 2,4, 3,7, 8,6, 5,1)
      \/ Line8(s, 2,8, 7,4, 3,6, 5,1)
  BY NodesAre, <1>1, <1>2, <1>3, SMTT(60)
     DEF Picked8, Line6, Line8, Free6, Forward8, Node, BETWEEN, Succ, Same
<1> QED
  BY <1>4 DEF Orders8

\* t7 and t8 in case 3.
LEMMA Step8_3 ==
    ASSUME NEW s, Picked8(s), Free6(s),
           Orders6(s, 3),
           s[8] = End8(s, 3, 1),
           Tried8Of5(s, 3, 1)
    PROVE  Orders8(s, 3)
<1>1. Line6(s, 2,6, 5,4, 3,1)
  BY DEF Orders6
<1>2. IF Forward8(s, 3) THEN Succ(s[7], s[8]) ELSE Succ(s[8], s[7])
  BY Neighbours DEF Picked8, End8, Side
<1>3. ~Same(s[7], s[8], s[3], s[4]) /\ ~Same(s[7], s[8], s[1], s[2])
  BY DEF Tried8Of5, Same
<1>4. ~BETWEEN(s[5], s[7], s[4]) => ~BETWEEN(s[3], s[7], s[1])
  BY DEF Tried8Of5, BETWEEN
<1>5. \/ Line8(s, 2,6, 5,7, 8,4, 3,1)
      \/ Line8(s, 2,7, 8,6, 5,4, 3,1)
  BY NodesAre, <1>1, <1>2, <1>3, <1>4, SMTT(60)
     DEF Picked8, Line6, Line8, Free6, Forward8, Node, BETWEEN, Succ, Same
<1> QED
  BY <1>5 DEF Orders8

\* t7 and t8 in case 4.
LEMMA Step8_4 ==
    ASSUME NEW s, Picked8(s), Free6(s),
           Orders6(s, 4),
           s[8] = End8(s, 4, 1),
           Tried8Of5(s, 4, 1)
    PROVE  Orders8(s, 4)
<1>1. Line6(s, 2,4, 3,5, 6,1)
  BY DEF Orders6
<1>2. IF Forward8(s, 4) THEN Succ(s[7], s[8]) ELSE Succ(s[8], s[7])
  BY Neighbours DEF Picked8, End8, Side
<1>3. ~Same(s[7], s[8], s[3], s[4]) /\ ~Same(s[7], s[8], s[1], s[2])
  BY DEF Tried8Of5, Same
<1>4. \/ Line8(s, 2,4, 3,5, 6,8, 7,1)
      \/ Line8(s, 2,4, 3,8, 7,5, 6,1)
      \/ Line8(s, 2,7, 8,4, 3,5, 6,1)
  BY NodesAre, <1>1, <1>2, <1>3, SMTT(60)
     DEF Picked8, Line6, Line8, Free6, Forward8, Node, BETWEEN, Succ, Same
<1> QED
  BY <1>4 DEF Orders8

\* t7 and t8 in case 5.
LEMMA Step8_5 ==
    ASSUME NEW s, Picked8(s), Free6(s),
           Orders6(s, 5),
           s[8] = End8(s, 5, 1),
           Tried8Of5(s, 5, 1)
    PROVE  Orders8(s, 5)
<1>1. Line6(s, 2,5, 6,3, 4,1)
  BY DEF Orders6
<1>2. IF Forward8(s, 5) THEN Succ(s[7], s[8]) ELSE Succ(s[8], s[7])
  BY Neighbours DEF Picked8, End8, Side
<1>3. ~Same(s[7], s[8], s[3], s[4]) /\ ~Same(s[7], s[8], s[1], s[2])
  BY DEF Tried8Of5, Same
<1>4. \/ Line8(s, 2,5, 6,3, 4,8, 7,1)
      \/ Line8(s, 2,5, 6,8, 7,3, 4,1)
      \/ Line8(s, 2,8, 7,5, 6,3, 4,1)
  BY NodesAre, <1>1, <1>2, <1>3, SMTT(60)
     DEF Picked8, Line6, Line8, Free6, Forward8, Node, BETWEEN, Succ, Same
<1> QED
  BY <1>4 DEF Orders8

\* t7 and t8 in case 6.
LEMMA Step8_6 ==
    ASSUME NEW s, Picked8(s), Free6(s),
           Orders6(s, 6),
           s[8] = End8(s, 6, 1),
           Tried8Of5(s, 6, 1)
    PROVE  Orders8(s, 6)
<1>1. Line6(s, 2,6, 5,3, 4,1)
  BY DEF Orders6
<1>2. IF Forward8(s, 6) THEN Succ(s[7], s[8]) ELSE Succ(s[8], s[7])
  BY Neighbours DEF Picked8, End8, Side
<1>3. ~Same(s[7], s[8], s[3], s[4]) /\ ~Same(s[7], s[8], s[1], s[2])
  BY DEF Tried8Of5, Same
<1>4. \/ Line8(s, 2,6, 5,3, 4,8, 7,1)
      \/ Line8(s, 2,6, 5,7, 8,3, 4,1)
      \/ Line8(s, 2,7, 8,6, 5,3, 4,1)
  BY NodesAre, <1>1, <1>2, <1>3, SMTT(60)
     DEF Picked8, Line6, Line8, Free6, Forward8, Node, BETWEEN, Succ, Same
<1> QED
  BY <1>4 DEF Orders8

\* t7 and t8 in case 7.
LEMMA Step8_7 ==
    ASSUME NEW s, Picked8(s), Free6(s),
           Orders6(s, 7),
           s[8] = End8(s, 7, 1),
           Tried8Of5(s, 7, 1)
    PROVE  Orders8(s, 7)
<1>1. Line6(s, 2,3, 4,6, 5,1)
  BY DEF Orders6
<1>2. IF Forward8(s, 7) THEN Succ(s[7], s[8]) ELSE Succ(s[8], s[7])
  BY Neighbours DEF Picked8, End8, Side
<1>3. ~Same(s[7], s[8], s[3], s[4]) /\ ~Same(s[7], s[8], s[1], s[2])
  BY DEF Tried8Of5, Same
<1>4. ~BETWEEN(s[2], s[7], s[3]) => ~BETWEEN(s[5], s[7], s[1])
  BY DEF Tried8Of5, BETWEEN
<1>5. \/ Line8(s, 2,3, 4,7, 8,6, 5,1)
      \/ Line8(s, 2,7, 8,3, 4,6, 5,1)
  BY NodesAre, <1>1, <1>2, <1>3, <1>4, SMTT(60)
     DEF Picked8, Line6, Line8, Free6, Forward8, Node, BETWEEN, Succ, Same
<1> QED
  BY <1>5 DEF Orders8

\* t7 and t8 in case 8.
LEMMA Step8_8 ==
    ASSUME NEW s, Picked8(s), Free6(s),
           Orders6(s, 8),
           s[8] = End8(s, 8, 1),
           Tried8Of5(s, 8, 1)
    PROVE  Orders8(s, 8)
<1>1. Line6(s, 2,3, 4,5, 6,1)
  BY DEF Orders6
<1>2. IF Forward8(s, 8) THEN Succ(s[7], s[8]) ELSE Succ(s[8], s[7])
  BY Neighbours DEF Picked8, End8, Side
<1>3. ~Same(s[7], s[8], s[3], s[4]) /\ ~Same(s[7], s[8], s[1], s[2])
  BY DEF Tried8Of5, Same
<1>4. ~BETWEEN(s[2], s[7], s[3]) => BETWEEN(s[4], s[7], s[5])
  BY DEF Tried8Of5, BETWEEN
<1>5. \/ Line8(s, 2,3, 4,7, 8,5, 6,1)
      \/ Line8(s, 2,7, 8,3, 4,5, 6,1)
  BY NodesAre, <1>1, <1>2, <1>3, <1>4, SMTT(60)
     DEF Picked8, Line6, Line8, Free6, Forward8, Node, BETWEEN, Succ, Same
<1> QED
  BY <1>5 DEF Orders8

\* t7 and t8 in case 9.
LEMMA Step8_9 ==
    ASSUME NEW s, Picked8(s), Free6(s),
           Orders6(s, 1),
           s[8] = End8(s, 1, 2),
           Tried8Of5(s, 1, 2)
    PROVE  Orders8(s, 9)
<1>1. Line6(s, 2,5, 6,4, 3,1)
  BY DEF Orders6
<1>2. IF Forward8(s, 1) THEN Succ(s[8], s[7]) ELSE Succ(s[7], s[8])
  BY Neighbours DEF Picked8, End8, Side
<1>3. ~Same(s[7], s[8], s[3], s[4]) /\ ~Same(s[7], s[8], s[1], s[2])
  BY DEF Tried8Of5, Same
<1>4. \/ Line8(s, 2,5, 6,4, 3,7, 8,1)
      \/ Line8(s, 2,5, 6,7, 8,4, 3,1)
      \/ Line8(s, 2,8, 7,5, 6,4, 3,1)
  BY NodesAre, <1>1, <1>2, <1>3, SMTT(60)
     DEF Picked8, Line6, Line8, Free6, Forward8, Node, BETWEEN, Succ, Same
<1> QED
  BY <1>4 DEF Orders8

\* t7 and t8 in case 10.
LEMMA Step8_10 ==
    ASSUME NEW s, Picked8(s), Free6(s),
           Orders6(s, 2),
           s[8] = End8(s, 2, 2),
           Tried8Of5(s, 2, 2)
    PROVE  Orders8(s, 10)
<1>1. Line6(s, 2,4, 3,6, 5,1)
  BY DEF Orders6
<1>2. IF Forward8(s, 2) THEN Succ(s[8], s[7]) ELSE Succ(s[7], s[8])
  BY Neighbours DEF Picked8, End8, Side
<1>3. ~Same(s[7], s[8], s[3], s[4]) /\ ~Same(s[7], s[8], s[1], s[2])
  BY DEF Tried8Of5, Same
<1>4. \/ Line8(s, 2,4, 3,6, 5,7, 8,1)
      \/ Line8(s, 2,4, 3,8, 7,6, 5,1)
      \/ Line8(s, 2,7, 8,4, 3,6, 5,1)
  BY NodesAre, <1>1, <1>2, <1>3, SMTT(60)
     DEF Picked8, Line6, Line8, Free6, Forward8, Node, BETWEEN, Succ, Same
<1> QED
  BY <1>4 DEF Orders8

\* t7 and t8 in case 11.
LEMMA Step8_11 ==
    ASSUME NEW s, Picked8(s), Free6(s),
           Orders6(s, 3),
           s[8] = End8(s, 3, 2),
           Tried8Of5(s, 3, 2)
    PROVE  Orders8(s, 11)
<1>1. Line6(s, 2,6, 5,4, 3,1)
  BY DEF Orders6
<1>2. IF Forward8(s, 3) THEN Succ(s[8], s[7]) ELSE Succ(s[7], s[8])
  BY Neighbours DEF Picked8, End8, Side
<1>3. ~Same(s[7], s[8], s[3], s[4]) /\ ~Same(s[7], s[8], s[1], s[2])
  BY DEF Tried8Of5, Same
<1>4. ~BETWEEN(s[5], s[7], s[4]) => BETWEEN(s[3], s[7], s[1])
  BY DEF Tried8Of5, BETWEEN
<1>5. \/ Line8(s, 2,6, 5,4, 3,8, 7,1)
      \/ Line8(s, 2,6, 5,8, 7,4, 3,1)
  BY NodesAre, <1>1, <1>2, <1>3, <1>4, SMTT(60)
     DEF Picked8, Line6, Line8, Free6, Forward8, Node, BETWEEN, Succ, Same
<1> QED
  BY <1>5 DEF Orders8

\* t7 and t8 in case 12.
LEMMA Step8_12 ==
    ASSUME NEW s, Picked8(s), Free6(s),
           Orders6(s, 4),
           s[8] = End8(s, 4, 2),
           Tried8Of5(s, 4, 2)
    PROVE  Orders8(s, 12)
<1>1. Line6(s, 2,4, 3,5, 6,1)
  BY DEF Orders6
<1>2. IF Forward8(s, 4) THEN Succ(s[8], s[7]) ELSE Succ(s[7], s[8])
  BY Neighbours DEF Picked8, End8, Side
<1>3. ~Same(s[7], s[8], s[3], s[4]) /\ ~Same(s[7], s[8], s[1], s[2])
  BY DEF Tried8Of5, Same
<1>4. ~BETWEEN(s[6], s[7], s[1])
  BY DEF Tried8Of5, BETWEEN
<1>5. \/ Line8(s, 2,4, 3,7, 8,5, 6,1)
      \/ Line8(s, 2,8, 7,4, 3,5, 6,1)
  BY NodesAre, <1>1, <1>2, <1>3, <1>4, SMTT(60)
     DEF Picked8, Line6, Line8, Free6, Forward8, Node, BETWEEN, Succ, Same
<1> QED
  BY <1>5 DEF Orders8

\* t7 and t8 in case 13.
LEMMA Step8_13 ==
    ASSUME NEW s, Picked8(s), Free6(s),
           Orders6(s, 5),
           s[8] = End8(s, 5, 2),
           Tried8Of5(s, 5, 2)
    PROVE  Orders8(s, 13)
<1>1. Line6(s, 2,5, 6,3, 4,1)
  BY DEF Orders6
<1>2. IF Forward8(s, 5) THEN Succ(s[8], s[7]) ELSE Succ(s[7], s[8])
  BY Neighbours DEF Picked8, End8, Side
<1>3. ~Same(s[7], s[8], s[3], s[4]) /\ ~Same(s[7], s[8], s[1], s[2])
  BY DEF Tried8Of5, Same
<1>4. \/ Line8(s, 2,5, 6,3, 4,7, 8,1)
      \/ Line8(s, 2,5, 6,7, 8,3, 4,1)
      \/ Line8(s, 2,7, 8,5, 6,3, 4,1)
  BY NodesAre, <1>1, <1>2, <1>3, SMTT(60)
     DEF Picked8, Line6, Line8, Free6, Forward8, Node, BETWEEN, Succ, Same
<1> QED
  BY <1>4 DEF Orders8

\* t7 and t8 in case 14.
LEMMA Step8_14 ==
    ASSUME NEW s, Picked8(s), Free6(s),
           Orders6(s, 6),
           s[8] = End8(s, 6, 2),
           Tried8Of5(s, 6, 2)
    PROVE  Orders8(s, 14)
<1>1. Line6(s, 2,6, 5,3, 4,1)
  BY DEF Orders6
<1>2. IF Forward8(s, 6) THEN Succ(s[8], s[7]) ELSE Succ(s[7], s[8])
  BY Neighbours DEF Picked8, End8, Side
<1>3. ~Same(s[7], s[8], s[3], s[4]) /\ ~Same(s[7], s[8], s[1], s[2])
  BY DEF Tried8Of5, Same
<1>4. \/ Line8(s, 2,6, 5,3, 4,7, 8,1)
      \/ Line8(s, 2,6, 5,8, 7,3, 4,1)
      \/ Line8(s, 2,8, 7,6, 5,3, 4,1)
  BY NodesAre, <1>1, <1>2, <1>3, SMTT(60)
     DEF Picked8, Line6, Line8, Free6, Forward8, Node, BETWEEN, Succ, Same
<1> QED
  BY <1>4 DEF Orders8

\* t7 and t8 in case 15.
LEMMA Step8_15 ==
    ASSUME NEW s, Picked8(s), Free6(s),
           Orders6(s, 7),
           s[8] = End8(s, 7, 2),
           Tried8Of5(s, 7, 2)
    PROVE  Orders8(s, 15)
<1>1. Line6(s, 2,3, 4,6, 5,1)
  BY DEF Orders6
<1>2. IF Forward8(s, 7) THEN Succ(s[8], s[7]) ELSE Succ(s[7], s[8])
  BY Neighbours DEF Picked8, End8, Side
<1>3. ~Same(s[7], s[8], s[3], s[4]) /\ ~Same(s[7], s[8], s[1], s[2])
  BY DEF Tried8Of5, Same
<1>4. ~BETWEEN(s[2], s[7], s[3]) => BETWEEN(s[5], s[7], s[1])
  BY DEF Tried8Of5, BETWEEN
<1>5. \/ Line8(s, 2,3, 4,6, 5,8, 7,1)
      \/ Line8(s, 2,8, 7,3, 4,6, 5,1)
  BY NodesAre, <1>1, <1>2, <1>3, <1>4, SMTT(60)
     DEF Picked8, Line6, Line8, Free6, Forward8, Node, BETWEEN, Succ, Same
<1> QED
  BY <1>5 DEF Orders8

\* t7 and t8 in case 16.
LEMMA Step8_16 ==
    ASSUME NEW s, Picked8(s), Free6(s),
           Orders6(s, 8),
           s[8] = End8(s, 8, 2),
           Tried8Of5(s, 8, 2)
    PROVE  Orders8(s, 16)
<1>1. Line6(s, 2,3, 4,5, 6,1)
  BY DEF Orders6
<1>2. IF Forward8(s, 8) THEN Succ(s[8], s[7]) ELSE Succ(s[7], s[8])
  BY Neighbours DEF Picked8, End8, Side
<1>3. ~Same(s[7], s[8], s[3], s[4]) /\ ~Same(s[7], s[8], s[1], s[2])
  BY DEF Tried8Of5, Same
<1>4. ~BETWEEN(s[2], s[7], s[3]) => BETWEEN(s[4], s[7], s[5])
  BY DEF Tried8Of5, BETWEEN
<1>5. \/ Line8(s, 2,3, 4,8, 7,5, 6,1)
      \/ Line8(s, 2,8, 7,3, 4,5, 6,1)
  BY NodesAre, <1>1, <1>2, <1>3, <1>4, SMTT(60)
     DEF Picked8, Line6, Line8, Free6, Forward8, Node, BETWEEN, Succ, Same
<1> QED
  BY <1>5 DEF Orders8

\* t7 and t8 as Best4OptMove takes them, by cases.
LEMMA Step8Of4_1 ==
    ASSUME NEW s, Picked8(s), Free6(s),
           Orders6(s, 1),
           s[8] = End8(s, 1, 1),
           Tried8Of4(s, 1, 1)
    PROVE  Closed8(s, 1)
<1>1. Line6(s, 2,5, 6,4, 3,1)
  BY DEF Orders6
<1>2. IF Forward8(s, 1) THEN Succ(s[7], s[8]) ELSE Succ(s[8], s[7])
  BY Neighbours DEF Picked8, End8, Side
<1>3. ~Same(s[7], s[8], s[3], s[4]) /\ s[8] # s[1]
  BY DEF Tried8Of4, Same
<1>4. \/ Line8(s, 2,5, 6,4, 3,8, 7,1)
      \/ Line8(s, 2,5, 6,8, 7,4, 3,1)
      \/ Line8(s, 2,7, 8,5, 6,4, 3,1)
  BY NodesAre, <1>1, <1>2, <1>3, SMTT(60)
     DEF Picked8, Line6, Line8, Free6, Forward8, Node, BETWEEN, Succ, Same
<1> QED
  BY <1>4 DEF Closed8

\* The same in case 2.
LEMMA Step8Of4_2 ==
    ASSUME NEW s, Picked8(s), Free6(s),
           Orders6(s, 2),
           s[8] = End8(s, 2, 1),
           Tried8Of4(s, 2, 1)
    PROVE  Closed8(s, 2)
<1>1. Line6(s, 2,4, 3,6, 5,1)
  BY DEF Orders6
<1>2. IF Forward8(s, 2) THEN Succ(s[7], s[8]) ELSE Succ(s[8], s[7])
  BY Neighbours DEF Picked8, End8, Side
<1>3. ~Same(s[7], s[8], s[3], s[4]) /\ s[8] # s[1]
  BY DEF Tried8Of4, Same
<1>4. \/ Line8(s, 2,4, 3,6, 5,8, 7,1)
      \/ Line8(s, 2,4, 3,7, 8,6, 5,1)
      \/ Line8(s, 2,8, 7,4, 3,6, 5,1)
  BY NodesAre, <1>1, <1>2, <1>3, SMTT(60)
     DEF Picked8, Line6, Line8, Free6, Forward8, Node, BETWEEN, Succ, Same
<1> QED
  BY <1>4 DEF Closed8

\* The same in case 3.
LEMMA Step8Of4_3 ==
    ASSUME NEW s, Picked8(s), Free6(s),
           Orders6(s, 3),
           s[8] = End8(s, 3, 1),
           Tried8Of4(s, 3, 1)
    PROVE  Closed8(s, 3)
<1>1. Line6(s, 2,6, 5,4, 3,1)
  BY DEF Orders6
<1>2. IF Forward8(s, 3) THEN Succ(s[7], s[8]) ELSE Succ(s[8], s[7])
  BY Neighbours DEF Picked8, End8, Side
<1>3. ~Same(s[7], s[8], s[3], s[4]) /\ s[8] # s[1]
  BY DEF Tried8Of4, Same
<1>4. BETWEEN(s[5], s[7], s[4])
  BY DEF Tried8Of4, BETWEEN
<1>5. Line8(s, 2,6, 5,7, 8,4, 3,1)
  BY NodesAre, <1>1, <1>2, <1>3, <1>4, SMTT(60)
     DEF Picked8, Line6, Line8, Free6, Forward8, Node, BETWEEN, Succ, Same
<1> QED
  BY <1>5 DEF Closed8

\* The same in case 4.
LEMMA Step8Of4_4 ==
    ASSUME NEW s, Picked8(s), Free6(s),
           Orders6(s, 4),
           s[8] = End8(s, 4, 1),
           Tried8Of4(s, 4, 1)
    PROVE  Closed8(s, 4)
<1>1. Line6(s, 2,4, 3,5, 6,1)
  BY DEF Orders6
<1>2. IF Forward8(s, 4) THEN Succ(s[7], s[8]) ELSE Succ(s[8], s[7])
  BY Neighbours DEF Picked8, End8, Side
<1>3. ~Same(s[7], s[8], s[3], s[4]) /\ s[8] # s[1]
  BY DEF Tried8Of4, Same
<1>4. BETWEEN(s[2], s[7], s[5])
  BY DEF Tried8Of4, BETWEEN
<1>5. \/ Line8(s, 2,4, 3,8, 7,5, 6,1)
      \/ Line8(s, 2,7, 8,4, 3,5, 6,1)
  BY NodesAre, <1>1, <1>2, <1>3, <1>4, SMTT(60)
     DEF Picked8, Line6, Line8, Free6, Forward8, Node, BETWEEN, Succ, Same
<1> QED
  BY <1>5 DEF Closed8

\* The same in case 5.
LEMMA Step8Of4_5 ==
    ASSUME NEW s, Picked8(s), Free6(s),
           Orders6(s, 5),
           s[8] = End8(s, 5, 1),
           Tried8Of4(s, 5, 1)
    PROVE  Closed8(s, 5)
<1>1. Line6(s, 2,5, 6,3, 4,1)
  BY DEF Orders6
<1>2. IF Forward8(s, 5) THEN Succ(s[7], s[8]) ELSE Succ(s[8], s[7])
  BY Neighbours DEF Picked8, End8, Side
<1>3. ~Same(s[7], s[8], s[3], s[4]) /\ s[8] # s[1]
  BY DEF Tried8Of4, Same
<1>4. \/ Line8(s, 2,5, 6,3, 4,8, 7,1)
      \/ Line8(s, 2,5, 6,8, 7,3, 4,1)
      \/ Line8(s, 2,8, 7,5, 6,3, 4,1)
  BY NodesAre, <1>1, <1>2, <1>3, SMTT(60)
     DEF Picked8, Line6, Line8, Free6, Forward8, Node, BETWEEN, Succ, Same
<1> QED
  BY <1>4 DEF Closed8

\* The same in case 6.
LEMMA Step8Of4_6 ==
    ASSUME NEW s, Picked8(s), Free6(s),
           Orders6(s, 6),
           s[8] = End8(s, 6, 1),
           Tried8Of4(s, 6, 1)
    PROVE  Closed8(s, 6)
<1>1. Line6(s, 2,6, 5,3, 4,1)
  BY DEF Orders6
<1>2. IF Forward8(s, 6) THEN Succ(s[7], s[8]) ELSE Succ(s[8], s[7])
  BY Neighbours DEF Picked8, End8, Side
<1>3. ~Same(s[7], s[8], s[3], s[4]) /\ s[8] # s[1]
  BY DEF Tried8Of4, Same
<1>4. \/ Line8(s, 2,6, 5,3, 4,8, 7,1)
      \/ Line8(s, 2,6, 5,7, 8,3, 4,1)
      \/ Line8(s, 2,7, 8,6, 5,3, 4,1)
  BY NodesAre, <1>1, <1>2, <1>3, SMTT(60)
     DEF Picked8, Line6, Line8, Free6, Forward8, Node, BETWEEN, Succ, Same
<1> QED
  BY <1>4 DEF Closed8

\* The same in case 7.
LEMMA Step8Of4_7 ==
    ASSUME NEW s, Picked8(s), Free6(s),
           Orders6(s, 7),
           s[8] = End8(s, 7, 1),
           Tried8Of4(s, 7, 1)
    PROVE  Closed8(s, 7)
<1>1. Line6(s, 2,3, 4,6, 5,1)
  BY DEF Orders6
<1>2. IF Forward8(s, 7) THEN Succ(s[7], s[8]) ELSE Succ(s[8], s[7])
  BY Neighbours DEF Picked8, End8, Side
<1>3. ~Same(s[7], s[8], s[3], s[4]) /\ s[8] # s[1]
  BY DEF Tried8Of4, Same
<1>4. BETWEEN(s[2], s[7], s[3])
  BY DEF Tried8Of4, BETWEEN
<1>5. Line8(s, 2,7, 8,3, 4,6, 5,1)
  BY NodesAre, <1>1, <1>2, <1>3, <1>4, SMTT(60)
     DEF Picked8, Line6, Line8, Free6, Forward8, Node, BETWEEN, Succ, Same
<1> QED
  BY <1>5 DEF Closed8

\* The same in case 11.
LEMMA Step8Of4_11 ==
    ASSUME NEW s, Picked8(s), Free6(s),
           Orders6(s, 3),
           s[8] = End8(s, 3, 2),
           Tried8Of4(s, 3, 2)
    PROVE  Closed8(s, 11)
<1>1. Line6(s, 2,6, 5,4, 3,1)
  BY DEF Orders6
<1>2. IF Forward8(s, 3) THEN Succ(s[8], s[7]) ELSE Succ(s[7], s[8])
  BY Neighbours DEF Picked8, End8, Side
<1>3. ~Same(s[7], s[8], s[3], s[4]) /\ s[8] # s[1]
  BY DEF Tried8Of4, Same
<1>4. BETWEEN(s[5], s[7], s[4])
  BY DEF Tried8Of4, BETWEEN
<1>5. Line8(s, 2,6, 5,8, 7,4, 3,1)
  BY NodesAre, <1>1, <1>2, <1>3, <1>4, SMTT(60)
     DEF Picked8, Line6, Line8, Free6, Forward8, Node, BETWEEN, Succ, Same
<1> QED
  BY <1>5 DEF Closed8

\* The same in case 12.
LEMMA Step8Of4_12 ==
    ASSUME NEW s, Picked8(s), Free6(s),
           Orders6(s, 4),
           s[8] = End8(s, 4, 2),
           Tried8Of4(s, 4, 2)
    PROVE  Closed8(s, 12)
<1>1. Line6(s, 2,4, 3,5, 6,1)
  BY DEF Orders6
<1>2. IF Forward8(s, 4) THEN Succ(s[8], s[7]) ELSE Succ(s[7], s[8])
  BY Neighbours DEF Picked8, End8, Side
<1>3. ~Same(s[7], s[8], s[3], s[4]) /\ s[8] # s[1]
  BY DEF Tried8Of4, Same
<1>4. BETWEEN(s[2], s[7], s[5])
  BY DEF Tried8Of4, BETWEEN
<1>5. \/ Line8(s, 2,4, 3,7, 8,5, 6,1)
      \/ Line8(s, 2,8, 7,4, 3,5, 6,1)
  BY NodesAre, <1>1, <1>2, <1>3, <1>4, SMTT(60)
     DEF Picked8, Line6, Line8, Free6, Forward8, Node, BETWEEN, Succ, Same
<1> QED
  BY <1>5 DEF Closed8

\* The same in case 15.
LEMMA Step8Of4_15 ==
    ASSUME NEW s, Picked8(s), Free6(s),
           Orders6(s, 7),
           s[8] = End8(s, 7, 2),
           Tried8Of4(s, 7, 2)
    PROVE  Closed8(s, 15)
<1>1. Line6(s, 2,3, 4,6, 5,1)
  BY DEF Orders6
<1>2. IF Forward8(s, 7) THEN Succ(s[8], s[7]) ELSE Succ(s[7], s[8])
  BY Neighbours DEF Picked8, End8, Side
<1>3. ~Same(s[7], s[8], s[3], s[4]) /\ s[8] # s[1]
  BY DEF Tried8Of4, Same
<1>4. BETWEEN(s[2], s[7], s[3])
  BY DEF Tried8Of4, BETWEEN
<1>5. Line8(s, 2,8, 7,3, 4,6, 5,1)
  BY NodesAre, <1>1, <1>2, <1>3, <1>4, SMTT(60)
     DEF Picked8, Line6, Line8, Free6, Forward8, Node, BETWEEN, Succ, Same
<1> QED
  BY <1>5 DEF Closed8

\* t9 and t10 in case c, the first or the second t10, after t7 and t8 in case c8.
Took10(s, c8, c, X) ==
    /\ Orders8(s, c8) /\ c \in Cases10(s, c8)
    /\ X = 1 => IF Backward10(s, c) THEN Succ(s[10], s[9]) ELSE Succ(s[9], s[10])
    /\ X = 2 => IF Backward10(s, c) THEN Succ(s[9], s[10]) ELSE Succ(s[10], s[9])
    /\ s[10] # s[1] /\ ~Same(s[9], s[10], s[3], s[4]) /\ ~Same(s[9], s[10], s[5], s[6])

\* t9 and t10 in case 22.
LEMMA Step10_22 ==
    ASSUME NEW s, Picked10(s), Free8(s),
           Took10(s, 1, 22, 1)
    PROVE  Orders10(s, 22)
<1>1. \/ Line8(s, 2,5, 6,4, 3,8, 7,1)
      \/ Line8(s, 2,5, 6,8, 7,4, 3,1)
      \/ Line8(s, 2,7, 8,5, 6,4, 3,1)
  BY DEF Took10, Orders8
<1>2. IF Backward10(s, 22) THEN Succ(s[10], s[9]) ELSE Succ(s[9], s[10])
  BY DEF Took10
<1>3. /\ s[10] # s[1] /\ ~Same(s[9], s[10], s[3], s[4])
      /\ ~Same(s[9], s[10], s[5], s[6])
  BY DEF Took10
<1>4. \/ Line10(s, 2,5, 6,4, 3,8, 7,10, 9,1)
      \/ Line10(s, 2,5, 6,4, 3,9, 10,8, 7,1)
      \/ Line10(s, 2,5, 6,8, 7,4, 3,10, 9,1)
      \/ Line10(s, 2,5, 6,8, 7,10, 9,4, 3,1)
      \/ Line10(s, 2,5, 6,9, 10,4, 3,8, 7,1)
      \/ Line10(s, 2,5, 6,9, 10,8, 7,4, 3,1)
      \/ Line10(s, 2,7, 8,5, 6,4, 3,10, 9,1)
      \/ Line10(s, 2,7, 8,5, 6,9, 10,4, 3,1)
      \/ Line10(s, 2,7, 8,10, 9,5, 6,4, 3,1)
      \/ Line10(s, 2,9, 10,5, 6,8, 7,4, 3,1)
      \/ Line10(s, 2,9, 10,7, 8,5, 6,4, 3,1)
      \/ Line10(s, 2,10, 9,5, 6,4, 3,8, 7,1)
  BY NodesAre, <1>1, <1>2, <1>3, SMTT(60)
     DEF Picked10, Line8, Line10, Free8, Backward10, Node, BETWEEN, Succ, Same
<1> QED
  BY <1>4 DEF Orders10, Orders10_22

\* t9 and t10 in case 23.
LEMMA Step10_23 ==
    ASSUME NEW s, Picked10(s), Free8(s),
           Took10(s, 2, 23, 1)
    PROVE  Orders10(s, 23)
<1>1. \/ Line8(s, 2,4, 3,6, 5,8, 7,1)
      \/ Line8(s, 2,4, 3,7, 8,6, 5,1)
      \/ Line8(s, 2,8, 7,4, 3,6, 5,1)
  BY DEF Took10, Orders8
<1>2. IF Backward10(s, 23) THEN Succ(s[10], s[9]) ELSE Succ(s[9], s[10])
  BY DEF Took10
<1>3. /\ s[10] # s[1] /\ ~Same(s[9], s[10], s[3], s[4])
      /\ ~Same(s[9], s[10], s[5], s[6])
  BY DEF Took10
<1>4. \/ Line10(s, 2,4, 3,6, 5,8, 7,10, 9,1)
      \/ Line10(s, 2,4, 3,6, 5,9, 10,8, 7,1)
      \/ Line10(s, 2,4, 3,7, 8,6, 5,10, 9,1)
      \/ Line10(s, 2,4, 3,7, 8,10, 9,6, 5,1)
      \/ Line10(s, 2,4, 3,9, 10,7, 8,6, 5,1)
      \/ Line10(s, 2,4, 3,10, 9,6, 5,8, 7,1)
      \/ Line10(s, 2,8, 7,4, 3,6, 5,10, 9,1)
      \/ Line10(s, 2,8, 7,4, 3,10, 9,6, 5,1)
      \/ Line10(s, 2,8, 7,10, 9,4, 3,6, 5,1)
      \/ Line10(s, 2,9, 10,4, 3,6, 5,8, 7,1)
      \/ Line10(s, 2,9, 10,8, 7,4, 3,6, 5,1)
      \/ Line10(s, 2,10, 9,4, 3,7, 8,6, 5,1)
  BY NodesAre, <1>1, <1>2, <1>3, SMTT(60)
     DEF Picked10, Line8, Line10, Free8, Backward10, Node, BETWEEN, Succ, Same
<1> QED
  BY <1>4 DEF Orders10, Orders10_23

\* t9 and t10 in case 24.
LEMMA Step10_24 ==
    ASSUME NEW s, Picked10(s), Free8(s),
           Took10(s, 3, 24, 1)
    PROVE  Orders10(s, 24)
<1>1. \/ Line8(s, 2,6, 5,7, 8,4, 3,1)
      \/ Line8(s, 2,7, 8,6, 5,4, 3,1)
  BY DEF Took10, Orders8
<1>2. IF Backward10(s, 24) THEN Succ(s[10], s[9]) ELSE Succ(s[9], s[10])
  BY DEF Took10
<1>3. /\ s[10] # s[1] /\ ~Same(s[9], s[10], s[3], s[4])
      /\ ~Same(s[9], s[10], s[5], s[6])
  BY DEF Took10
<1>4. BETWEEN(s[5], s[7], s[4])
  BY DEF Took10, Cases10
<1>5. \/ Line10(s, 2,6, 5,7, 8,4, 3,10, 9,1)
      \/ Line10(s, 2,6, 5,7, 8,10, 9,4, 3,1)
      \/ Line10(s, 2,6, 5,10, 9,7, 8,4, 3,1)
      \/ Line10(s, 2,9, 10,6, 5,7, 8,4, 3,1)
  BY NodesAre, <1>1, <1>2, <1>3, <1>4, SMTT(60)
     DEF Picked10, Line8, Line10, Free8, Backward10, Node, BETWEEN, Succ, Same
<1> QED
  BY <1>5 DEF Orders10, Orders10_24

\* t9 and t10, by cases.
LEMMA Step10_1 ==
    ASSUME NEW s, Picked10(s), Free8(s),
           Took10(s, 3, 1, 1)
    PROVE  Orders10(s, 1)
<1>1. \/ Line8(s, 2,6, 5,7, 8,4, 3,1)
      \/ Line8(s, 2,7, 8,6, 5,4, 3,1)
  BY DEF Took10, Orders8
<1>2. ~Backward10(s, 1)
  BY DEF Backward10
<1>3. Succ(s[9], s[10])
  BY <1>2 DEF Took10
<1>4. /\ s[10] # s[1] /\ ~Same(s[9], s[10], s[3], s[4])
      /\ ~Same(s[9], s[10], s[5], s[6])
  BY DEF Took10
<1>5. ~BETWEEN(s[5], s[7], s[4]) /\ BETWEEN(s[5], s[9], s[4])
  BY DEF Took10, Cases10
<1>6. Line10(s, 2,7, 8,6, 5,9, 10,4, 3,1)
  BY NodesAre, <1>1, <1>2, <1>3, <1>4, <1>5, SMTT(60)
     DEF Picked10, Line8, Line10, Free8, Node, BETWEEN, Succ, Same
<1> QED
  BY <1>6 DEF Orders10, Orders10_1

\* t9 and t10 in case 2.
LEMMA Step10_2 ==
    ASSUME NEW s, Picked10(s), Free8(s),
           Took10(s, 4, 2, 1)
    PROVE  Orders10(s, 2)
<1>1. \/ Line8(s, 2,4, 3,5, 6,8, 7,1)
      \/ Line8(s, 2,4, 3,8, 7,5, 6,1)
      \/ Line8(s, 2,7, 8,4, 3,5, 6,1)
  BY DEF Took10, Orders8
<1>2. ~Backward10(s, 2)
  BY DEF Backward10
<1>3. Succ(s[9], s[10])
  BY <1>2 DEF Took10
<1>4. /\ s[10] # s[1] /\ ~Same(s[9], s[10], s[3], s[4])
      /\ ~Same(s[9], s[10], s[5], s[6])
  BY DEF Took10
<1>5. BETWEEN(s[6], s[7], s[1]) /\ BETWEEN(s[2], s[9], s[5])
  BY DEF Took10, Cases10
<1>6. \/ Line10(s, 2,4, 3,9, 10,5, 6,8, 7,1)
      \/ Line10(s, 2,9, 10,4, 3,5, 6,8, 7,1)
  BY NodesAre, <1>1, <1>2, <1>3, <1>4, <1>5, SMTT(60)
     DEF Picked10, Line8, Line10, Free8, Node, BETWEEN, Succ, Same
<1> QED
  BY <1>6 DEF Orders10, Orders10_2

\* t9 and t10 in case 25.
LEMMA Step10_25 ==
    ASSUME NEW s, Picked10(s), Free8(s),
           Took10(s, 4, 25, 1)
    PROVE  Orders10(s, 25)
<1>1. \/ Line8(s, 2,4, 3,5, 6,8, 7,1)
      \/ Line8(s, 2,4, 3,8, 7,5, 6,1)
      \/ Line8(s, 2,7, 8,4, 3,5, 6,1)
  BY DEF Took10, Orders8
<1>2. IF Backward10(s, 25) THEN Succ(s[10], s[9]) ELSE Succ(s[9], s[10])
  BY DEF Took10
<1>3. /\ s[10] # s[1] /\ ~Same(s[9], s[10], s[3], s[4])
      /\ ~Same(s[9], s[10], s[5], s[6])
  BY DEF Took10
<1>4. ~BETWEEN(s[6], s[7], s[1])
  BY DEF Took10, Cases10
<1>5. \/ Line10(s, 2,4, 3,8, 7,5, 6,10, 9,1)
      \/ Line10(s, 2,4, 3,8, 7,9, 10,5, 6,1)
      \/ Line10(s, 2,4, 3,9, 10,8, 7,5, 6,1)
      \/ Line10(s, 2,7, 8,4, 3,5, 6,10, 9,1)
      \/ Line10(s, 2,7, 8,4, 3,9, 10,5, 6,1)
      \/ Line10(s, 2,7, 8,10, 9,4, 3,5, 6,1)
      \/ Line10(s, 2,10, 9,4, 3,8, 7,5, 6,1)
      \/ Line10(s, 2,10, 9,7, 8,4, 3,5, 6,1)
  BY NodesAre, <1>1, <1>2, <1>3, <1>4, SMTT(60)
     DEF Picked10, Line8, Line10, Free8, Backward10, Node, BETWEEN, Succ, Same
<1> QED
  BY <1>5 DEF Orders10, Orders10_25

\* t9 and t10 in case 26.
LEMMA Step10_26 ==
    ASSUME NEW s, Picked10(s), Free8(s),
           Took10(s, 5, 26, 1)
    PROVE  Orders10(s, 26)
<1>1. \/ Line8(s, 2,5, 6,3, 4,8, 7,1)
      \/ Line8(s, 2,5, 6,8, 7,3, 4,1)
      \/ Line8(s, 2,8, 7,5, 6,3, 4,1)
  BY DEF Took10, Orders8
<1>2. IF Backward10(s, 26) THEN Succ(s[10], s[9]) ELSE Succ(s[9], s[10])
  BY DEF Took10
<1>3. /\ s[10] # s[1] /\ ~Same(s[9], s[10], s[3], s[4])
      /\ ~Same(s[9], s[10], s[5], s[6])
  BY DEF Took10
<1>4. \/ Line10(s, 2,5, 6,3, 4,8, 7,10, 9,1)
      \/ Line10(s, 2,5, 6,3, 4,9, 10,8, 7,1)
      \/ Line10(s, 2,5, 6,8, 7,3, 4,10, 9,1)
      \/ Line10(s, 2,5, 6,8, 7,10, 9,3, 4,1)
      \/ Line10(s, 2,5, 6,9, 10,3, 4,8, 7,1)
      \/ Line10(s, 2,5, 6,9, 10,8, 7,3, 4,1)
      \/ Line10(s, 2,8, 7,5, 6,3, 4,10, 9,1)
      \/ Line10(s, 2,8, 7,5, 6,9, 10,3, 4,1)
      \/ Line10(s, 2,8, 7,10, 9,5, 6,3, 4,1)
      \/ Line10(s, 2,9, 10,5, 6,3, 4,8, 7,1)
      \/ Line10(s, 2,9, 10,8, 7,5, 6,3, 4,1)
      \/ Line10(s, 2,10, 9,5, 6,8, 7,3, 4,1)
  BY NodesAre, <1>1, <1>2, <1>3, SMTT(60)
     DEF Picked10, Line8, Line10, Free8, Backward10, Node, BETWEEN, Succ, Same
<1> QED
  BY <1>4 DEF Orders10, Orders10_26

\* t9 and t10 in case 27.
LEMMA Step10_27 ==
    ASSUME NEW s, Picked10(s), Free8(s),
           Took10(s, 6, 27, 1)
    PROVE  Orders10(s, 27)
<1>1. \/ Line8(s, 2,6, 5,3, 4,8, 7,1)
      \/ Line8(s, 2,6, 5,7, 8,3, 4,1)
      \/ Line8(s, 2,7, 8,6, 5,3, 4,1)
  BY DEF Took10, Orders8
<1>2. IF Backward10(s, 27) THEN Succ(s[10], s[9]) ELSE Succ(s[9], s[10])
  BY DEF Took10
<1>3. /\ s[10] # s[1] /\ ~Same(s[9], s[10], s[3], s[4])
      /\ ~Same(s[9], s[10], s[5], s[6])
  BY DEF Took10
<1>4. \/ Line10(s, 2,6, 5,3, 4,8, 7,10, 9,1)
      \/ Line10(s, 2,6, 5,3, 4,9, 10,8, 7,1)
      \/ Line10(s, 2,6, 5,7, 8,3, 4,10, 9,1)
      \/ Line10(s, 2,6, 5,7, 8,10, 9,3, 4,1)
      \/ Line10(s, 2,6, 5,9, 10,7, 8,3, 4,1)
      \/ Line10(s, 2,6, 5,10, 9,3, 4,8, 7,1)
      \/ Line10(s, 2,7, 8,6, 5,3, 4,10, 9,1)
      \/ Line10(s, 2,7, 8,6, 5,9, 10,3, 4,1)
      \/ Line10(s, 2,7, 8,10, 9,6, 5,3, 4,1)
      \/ Line10(s, 2,9, 10,7, 8,6, 5,3, 4,1)
      \/ Line10(s, 2,10, 9,6, 5,3, 4,8, 7,1)
      \/ Line10(s, 2,10, 9,6, 5,7, 8,3, 4,1)
  BY NodesAre, <1>1, <1>2, <1>3, SMTT(60)
     DEF Picked10, Line8, Line10, Free8, Backward10, Node, BETWEEN, Succ, Same
<1> QED
  BY <1>4 DEF Orders10, Orders10_27

\* t9 and t10 in case 28.
LEMMA Step10_28 ==
    ASSUME NEW s, Picked10(s), Free8(s),
           Took10(s, 7, 28, 1)
    PROVE  Orders10(s, 28)
<1>1. \/ Line8(s, 2,3, 4,7, 8,6, 5,1)
      \/ Line8(s, 2,7, 8,3, 4,6, 5,1)
  BY DEF Took10, Orders8
<1>2. IF Backward10(s, 28) THEN Succ(s[10], s[9]) ELSE Succ(s[9], s[10])
  BY DEF Took10
<1>3. /\ s[10] # s[1] /\ ~Same(s[9], s[10], s[3], s[4])
      /\ ~Same(s[9], s[10], s[5], s[6])
  BY DEF Took10
<1>4. BETWEEN(s[2], s[7], s[3])
  BY DEF Took10, Cases10
<1>5. \/ Line10(s, 2,7, 8,3, 4,6, 5,10, 9,1)
      \/ Line10(s, 2,7, 8,3, 4,9, 10,6, 5,1)
      \/ Line10(s, 2,7, 8,10, 9,3, 4,6, 5,1)
      \/ Line10(s, 2,10, 9,7, 8,3, 4,6, 5,1)
  BY NodesAre, <1>1, <1>2, <1>3, <1>4, SMTT(60)
     DEF Picked10, Line8, Line10, Free8, Backward10, Node, BETWEEN, Succ, Same
<1> QED
  BY <1>5 DEF Orders10, Orders10_28

\* t9 and t10 in case 3.
LEMMA Step10_3 ==
    ASSUME NEW s, Picked10(s), Free8(s),
           Took10(s, 7, 3, 1)
    PROVE  Orders10(s, 3)
<1>1. \/ Line8(s, 2,3, 4,7, 8,6, 5,1)
      \/ Line8(s, 2,7, 8,3, 4,6, 5,1)
  BY DEF Took10, Orders8
<1>2. ~Backward10(s, 3)
  BY DEF Backward10
<1>3. Succ(s[9], s[10])
  BY <1>2 DEF Took10
<1>4. /\ s[10] # s[1] /\ ~Same(s[9], s[10], s[3], s[4])
      /\ ~Same(s[9], s[10], s[5], s[6])
  BY DEF Took10
<1>5. ~BETWEEN(s[2], s[7], s[3]) /\ BETWEEN(s[2], s[9], s[3])
  BY DEF Took10, Cases10
<1>6. Line10(s, 2,9, 10,3, 4,7, 8,6, 5,1)
  BY NodesAre, <1>1, <1>2, <1>3, <1>4, <1>5, SMTT(60)
     DEF Picked10, Line8, Line10, Free8, Node, BETWEEN, Succ, Same
<1> QED
  BY <1>6 DEF Orders10, Orders10_3

\* t9 and t10 in case 4.
LEMMA Step10_4 ==
    ASSUME NEW s, Picked10(s), Free8(s),
           Took10(s, 8, 4, 1)
    PROVE  Orders10(s, 4)
<1>1. \/ Line8(s, 2,3, 4,7, 8,5, 6,1)
      \/ Line8(s, 2,7, 8,3, 4,5, 6,1)
  BY DEF Took10, Orders8
<1>2. ~Backward10(s, 4)
  BY DEF Backward10
<1>3. Succ(s[9], s[10])
  BY <1>2 DEF Took10
<1>4. /\ s[10] # s[1] /\ ~Same(s[9], s[10], s[3], s[4])
      /\ ~Same(s[9], s[10], s[5], s[6])
  BY DEF Took10
<1>5. BETWEEN(s[2], s[7], s[3]) /\ BETWEEN(s[4], s[9], s[5])
  BY DEF Took10, Cases10
<1>6. Line10(s, 2,7, 8,3, 4,9, 10,5, 6,1)
  BY NodesAre, <1>1, <1>2, <1>3, <1>4, <1>5, SMTT(60)
     DEF Picked10, Line8, Line10, Free8, Node, BETWEEN, Succ, Same
<1> QED
  BY <1>6 DEF Orders10, Orders10_4

\* t9 and t10 in case 5.
LEMMA Step10_5 ==
    ASSUME NEW s, Picked10(s), Free8(s),
           Took10(s, 8, 5, 1)
    PROVE  Orders10(s, 5)
<1>1. \/ Line8(s, 2,3, 4,7, 8,5, 6,1)
      \/ Line8(s, 2,7, 8,3, 4,5, 6,1)
  BY DEF Took10, Orders8
<1>2. ~Backward10(s, 5)
  BY DEF Backward10
<1>3. Succ(s[9], s[10])
  BY <1>2 DEF Took10
<1>4. /\ s[10] # s[1] /\ ~Same(s[9], s[10], s[3], s[4])
      /\ ~Same(s[9], s[10], s[5], s[6])
  BY DEF Took10
<1>5. ~BETWEEN(s[2], s[7], s[3]) /\ BETWEEN(s[2], s[9], s[3])
  BY DEF Took10, Cases10
<1>6. Line10(s, 2,9, 10,3, 4,7, 8,5, 6,1)
  BY NodesAre, <1>1, <1>2, <1>3, <1>4, <1>5, SMTT(60)
     DEF Picked10, Line8, Line10, Free8, Node, BETWEEN, Succ, Same
<1> QED
  BY <1>6 DEF Orders10, Orders10_5

\* t9 and t10 in case 6.
LEMMA Step10_6 ==
    ASSUME NEW s, Picked10(s), Free8(s),
           Took10(s, 9, 6, 1)
    PROVE  Orders10(s, 6)
<1>1. \/ Line8(s, 2,5, 6,4, 3,7, 8,1)
      \/ Line8(s, 2,5, 6,7, 8,4, 3,1)
      \/ Line8(s, 2,8, 7,5, 6,4, 3,1)
  BY DEF Took10, Orders8
<1>2. ~Backward10(s, 6)
  BY DEF Backward10
<1>3. Succ(s[9], s[10])
  BY <1>2 DEF Took10
<1>4. /\ s[10] # s[1] /\ ~Same(s[9], s[10], s[3], s[4])
      /\ ~Same(s[9], s[10], s[5], s[6])
  BY DEF Took10
<1>5. BETWEEN(s[2], s[7], s[5]) /\ BETWEEN(s[7], s[9], s[4])
  BY DEF Took10, Cases10
<1>6. \/ Line10(s, 2,8, 7,5, 6,9, 10,4, 3,1)
      \/ Line10(s, 2,8, 7,9, 10,5, 6,4, 3,1)
  BY NodesAre, <1>1, <1>2, <1>3, <1>4, <1>5, SMTT(60)
     DEF Picked10, Line8, Line10, Free8, Node, BETWEEN, Succ, Same
<1> QED
  BY <1>6 DEF Orders10, Orders10_6

\* t9 and t10 in case 7.
LEMMA Step10_7 ==
    ASSUME NEW s, Picked10(s), Free8(s),
           Took10(s, 9, 7, 1)
    PROVE  Orders10(s, 7)
<1>1. \/ Line8(s, 2,5, 6,4, 3,7, 8,1)
      \/ Line8(s, 2,5, 6,7, 8,4, 3,1)
      \/ Line8(s, 2,8, 7,5, 6,4, 3,1)
  BY DEF Took10, Orders8
<1>2. ~Backward10(s, 7)
  BY DEF Backward10
<1>3. Succ(s[9], s[10])
  BY <1>2 DEF Took10
<1>4. /\ s[10] # s[1] /\ ~Same(s[9], s[10], s[3], s[4])
      /\ ~Same(s[9], s[10], s[5], s[6])
  BY DEF Took10
<1>5. /\ ~BETWEEN(s[2], s[7], s[5]) /\ ~BETWEEN(s[6], s[7], s[4])
      /\ BETWEEN(s[2], s[9], s[7])
  BY DEF Took10, Cases10
<1>6. \/ Line10(s, 2,5, 6,4, 3,9, 10,7, 8,1)
      \/ Line10(s, 2,5, 6,9, 10,4, 3,7, 8,1)
      \/ Line10(s, 2,9, 10,5, 6,4, 3,7, 8,1)
  BY NodesAre, <1>1, <1>2, <1>3, <1>4, <1>5, SMTT(60)
     DEF Picked10, Line8, Line10, Free8, Node, BETWEEN, Succ, Same
<1> QED
  BY <1>6 DEF Orders10, Orders10_7

\* t9 and t10 in case 8.
LEMMA Step10_8 ==
    ASSUME NEW s, Picked10(s), Free8(s),
           Took10(s, 9, 8, 1)
    PROVE  Orders10(s, 8)
<1>1. \/ Line8(s, 2,5, 6,4, 3,7, 8,1)
      \/ Line8(s, 2,5, 6,7, 8,4, 3,1)
      \/ Line8(s, 2,8, 7,5, 6,4, 3,1)
  BY DEF Took10, Orders8
<1>2. ~Backward10(s, 8)
  BY DEF Backward10
<1>3. Succ(s[9], s[10])
  BY <1>2 DEF Took10
<1>4. /\ s[10] # s[1] /\ ~Same(s[9], s[10], s[3], s[4])
      /\ ~Same(s[9], s[10], s[5], s[6])
  BY DEF Took10
<1>5. ~BETWEEN(s[2], s[7], s[5]) /\ BETWEEN(s[6], s[7], s[4]) /\ BETWEEN(s[6], s[9], s[7])
  BY DEF Took10, Cases10
<1>6. Line10(s, 2,5, 6,9, 10,7, 8,4, 3,1)
  BY NodesAre, <1>1, <1>2, <1>3, <1>4, <1>5, SMTT(60)
     DEF Picked10, Line8, Line10, Free8, Node, BETWEEN, Succ, Same
<1> QED
  BY <1>6 DEF Orders10, Orders10_8

\* t9 and t10 in case 9.
LEMMA Step10_9 ==
    ASSUME NEW s, Picked10(s), Free8(s),
           Took10(s, 10, 9, 1)
    PROVE  Orders10(s, 9)
<1>1. \/ Line8(s, 2,4, 3,6, 5,7, 8,1)
      \/ Line8(s, 2,4, 3,8, 7,6, 5,1)
      \/ Line8(s, 2,7, 8,4, 3,6, 5,1)
  BY DEF Took10, Orders8
<1>2. ~Backward10(s, 9)
  BY DEF Backward10
<1>3. Succ(s[9], s[10])
  BY <1>2 DEF Took10
<1>4. /\ s[10] # s[1] /\ ~Same(s[9], s[10], s[3], s[4])
      /\ ~Same(s[9], s[10], s[5], s[6])
  BY DEF Took10
<1>5. BETWEEN(s[3], s[7], s[6]) /\ BETWEEN(s[7], s[9], s[6])
  BY DEF Took10, Cases10
<1>6. Line10(s, 2,4, 3,8, 7,9, 10,6, 5,1)
  BY NodesAre, <1>1, <1>2, <1>3, <1>4, <1>5, SMTT(60)
     DEF Picked10, Line8, Line10, Free8, Node, BETWEEN, Succ, Same
<1> QED
  BY <1>6 DEF Orders10, Orders10_9

\* t9 and t10 in case 10.
LEMMA Step10_10 ==
    ASSUME NEW s, Picked10(s), Free8(s),
           Took10(s, 10, 10, 1)
    PROVE  Orders10(s, 10)
<1>1. \/ Line8(s, 2,4, 3,6, 5,7, 8,1)
      \/ Line8(s, 2,4, 3,8, 7,6, 5,1)
      \/ Line8(s, 2,7, 8,4, 3,6, 5,1)
  BY DEF Took10, Orders8
<1>2. ~Backward10(s, 10)
  BY DEF Backward10
<1>3. Succ(s[9], s[10])
  BY <1>2 DEF Took10
<1>4. /\ s[10] # s[1] /\ ~Same(s[9], s[10], s[3], s[4])
      /\ ~Same(s[9], s[10], s[5], s[6])
  BY DEF Took10
<1>5. ~BETWEEN(s[3], s[7], s[6]) /\ BETWEEN(s[5], s[7], s[1]) /\ BETWEEN(s[2], s[9], s[7])
  BY DEF Took10, Cases10
<1>6. \/ Line10(s, 2,4, 3,6, 5,9, 10,7, 8,1)
      \/ Line10(s, 2,4, 3,9, 10,6, 5,7, 8,1)
      \/ Line10(s, 2,9, 10,4, 3,6, 5,7, 8,1)
  BY NodesAre, <1>1, <1>2, <1>3, <1>4, <1>5, SMTT(60)
     DEF Picked10, Line8, Line10, Free8, Node, BETWEEN, Succ, Same
<1> QED
  BY <1>6 DEF Orders10, Orders10_10

\* t9 and t10 in case 11.
LEMMA Step10_11 ==
    ASSUME NEW s, Picked10(s), Free8(s),
           Took10(s, 10, 11, 1)
    PROVE  Orders10(s, 11)
<1>1. \/ Line8(s, 2,4, 3,6, 5,7, 8,1)
      \/ Line8(s, 2,4, 3,8, 7,6, 5,1)
      \/ Line8(s, 2,7, 8,4, 3,6, 5,1)
  BY DEF Took10, Orders8
<1>2. ~Backward10(s, 11)
  BY DEF Backward10
<1>3. Succ(s[9], s[10])
  BY <1>2 DEF Took10
<1>4. /\ s[10] # s[1] /\ ~Same(s[9], s[10], s[3], s[4])
      /\ ~Same(s[9], s[10], s[5], s[6])
  BY DEF Took10
<1>5. /\ ~BETWEEN(s[3], s[7], s[6]) /\ ~BETWEEN(s[5], s[7], s[1])
      /\ (BETWEEN(s[3], s[9], s[6]) \/ BETWEEN(s[2], s[9], s[7]))
  BY DEF Took10, Cases10
<1>6. \/ Line10(s, 2,7, 8,4, 3,9, 10,6, 5,1)
      \/ Line10(s, 2,9, 10,7, 8,4, 3,6, 5,1)
  BY NodesAre, <1>1, <1>2, <1>3, <1>4, <1>5, SMTT(60)
     DEF Picked10, Line8, Line10, Free8, Node, BETWEEN, Succ, Same
<1> QED
  BY <1>6 DEF Orders10, Orders10_11

\* t9 and t10 in case 29.
LEMMA Step10_29 ==
    ASSUME NEW s, Picked10(s), Free8(s),
           Took10(s, 11, 29, 1)
    PROVE  Orders10(s, 29)
<1>1. \/ Line8(s, 2,6, 5,4, 3,8, 7,1)
      \/ Line8(s, 2,6, 5,8, 7,4, 3,1)
  BY DEF Took10, Orders8
<1>2. IF Backward10(s, 29) THEN Succ(s[10], s[9]) ELSE Succ(s[9], s[10])
  BY DEF Took10
<1>3. /\ s[10] # s[1] /\ ~Same(s[9], s[10], s[3], s[4])
      /\ ~Same(s[9], s[10], s[5], s[6])
  BY DEF Took10
<1>4. BETWEEN(s[5], s[7], s[4])
  BY DEF Took10, Cases10
<1>5. \/ Line10(s, 2,6, 5,8, 7,4, 3,10, 9,1)
      \/ Line10(s, 2,6, 5,8, 7,9, 10,4, 3,1)
      \/ Line10(s, 2,6, 5,9, 10,8, 7,4, 3,1)
      \/ Line10(s, 2,9, 10,6, 5,8, 7,4, 3,1)
  BY NodesAre, <1>1, <1>2, <1>3, <1>4, SMTT(60)
     DEF Picked10, Line8, Line10, Free8, Backward10, Node, BETWEEN, Succ, Same
<1> QED
  BY <1>5 DEF Orders10, Orders10_29

\* t9 and t10 in case 12.
LEMMA Step10_12 ==
    ASSUME NEW s, Picked10(s), Free8(s),
           Took10(s, 11, 12, 1)
    PROVE  Orders10(s, 12)
<1>1. \/ Line8(s, 2,6, 5,4, 3,8, 7,1)
      \/ Line8(s, 2,6, 5,8, 7,4, 3,1)
  BY DEF Took10, Orders8
<1>2. ~Backward10(s, 12)
  BY DEF Backward10
<1>3. Succ(s[9], s[10])
  BY <1>2 DEF Took10
<1>4. /\ s[10] # s[1] /\ ~Same(s[9], s[10], s[3], s[4])
      /\ ~Same(s[9], s[10], s[5], s[6])
  BY DEF Took10
<1>5. ~BETWEEN(s[5], s[7], s[4]) /\ BETWEEN(s[5], s[9], s[4])
  BY DEF Took10, Cases10
<1>6. Line10(s, 2,6, 5,9, 10,4, 3,8, 7,1)
  BY NodesAre, <1>1, <1>2, <1>3, <1>4, <1>5, SMTT(60)
     DEF Picked10, Line8, Line10, Free8, Node, BETWEEN, Succ, Same
<1> QED
  BY <1>6 DEF Orders10, Orders10_12

\* t9 and t10 in case 30.
LEMMA Step10_30 ==
    ASSUME NEW s, Picked10(s), Free8(s),
           Took10(s, 12, 30, 1)
    PROVE  Orders10(s, 30)
<1>1. \/ Line8(s, 2,4, 3,7, 8,5, 6,1)
      \/ Line8(s, 2,8, 7,4, 3,5, 6,1)
  BY DEF Took10, Orders8
<1>2. IF Backward10(s, 30) THEN Succ(s[10], s[9]) ELSE Succ(s[9], s[10])
  BY DEF Took10
<1>3. /\ s[10] # s[1] /\ ~Same(s[9], s[10], s[3], s[4])
      /\ ~Same(s[9], s[10], s[5], s[6])
  BY DEF Took10
<1>4. \/ Line10(s, 2,4, 3,7, 8,5, 6,10, 9,1)
      \/ Line10(s, 2,4, 3,7, 8,10, 9,5, 6,1)
      \/ Line10(s, 2,4, 3,10, 9,7, 8,5, 6,1)
      \/ Line10(s, 2,8, 7,4, 3,5, 6,10, 9,1)
      \/ Line10(s, 2,8, 7,4, 3,10, 9,5, 6,1)
      \/ Line10(s, 2,8, 7,9, 10,4, 3,5, 6,1)
      \/ Line10(s, 2,9, 10,4, 3,7, 8,5, 6,1)
      \/ Line10(s, 2,9, 10,8, 7,4, 3,5, 6,1)
  BY NodesAre, <1>1, <1>2, <1>3, SMTT(60)
     DEF Picked10, Line8, Line10, Free8, Backward10, Node, BETWEEN, Succ, Same
<1> QED
  BY <1>4 DEF Orders10, Orders10_30

\* t9 and t10 in case 13.
LEMMA Step10_13 ==
    ASSUME NEW s, Picked10(s), Free8(s),
           Took10(s, 13, 13, 1)
    PROVE  Orders10(s, 13)
<1>1. \/ Line8(s, 2,5, 6,3, 4,7, 8,1)
      \/ Line8(s, 2,5, 6,7, 8,3, 4,1)
      \/ Line8(s, 2,7, 8,5, 6,3, 4,1)
  BY DEF Took10, Orders8
<1>2. ~Backward10(s, 13)
  BY DEF Backward10
<1>3. Succ(s[9], s[10])
  BY <1>2 DEF Took10
<1>4. /\ s[10] # s[1] /\ ~Same(s[9], s[10], s[3], s[4])
      /\ ~Same(s[9], s[10], s[5], s[6])
  BY DEF Took10
<1>5. BETWEEN(s[4], s[7], s[1]) /\ BETWEEN(s[2], s[9], s[7])
  BY DEF Took10, Cases10
<1>6. \/ Line10(s, 2,5, 6,3, 4,9, 10,7, 8,1)
      \/ Line10(s, 2,5, 6,9, 10,3, 4,7, 8,1)
      \/ Line10(s, 2,9, 10,5, 6,3, 4,7, 8,1)
  BY NodesAre, <1>1, <1>2, <1>3, <1>4, <1>5, SMTT(60)
     DEF Picked10, Line8, Line10, Free8, Node, BETWEEN, Succ, Same
<1> QED
  BY <1>6 DEF Orders10, Orders10_13

\* t9 and t10 in case 14.
LEMMA Step10_14 ==
    ASSUME NEW s, Picked10(s), Free8(s),
           Took10(s, 13, 14, 1)
    PROVE  Orders10(s, 14)
<1>1. \/ Line8(s, 2,5, 6,3, 4,7, 8,1)
      \/ Line8(s, 2,5, 6,7, 8,3, 4,1)
      \/ Line8(s, 2,7, 8,5, 6,3, 4,1)
  BY DEF Took10, Orders8
<1>2. ~Backward10(s, 14)
  BY DEF Backward10
<1>3. Succ(s[9], s[10])
  BY <1>2 DEF Took10
<1>4. /\ s[10] # s[1] /\ ~Same(s[9], s[10], s[3], s[4])
      /\ ~Same(s[9], s[10], s[5], s[6])
  BY DEF Took10
<1>5. ~BETWEEN(s[4], s[7], s[1]) /\ BETWEEN(s[6], s[7], s[3]) /\ BETWEEN(s[6], s[9], s[7])
  BY DEF Took10, Cases10
<1>6. Line10(s, 2,5, 6,9, 10,7, 8,3, 4,1)
  BY NodesAre, <1>1, <1>2, <1>3, <1>4, <1>5, SMTT(60)
     DEF Picked10, Line8, Line10, Free8, Node, BETWEEN, Succ, Same
<1> QED
  BY <1>6 DEF Orders10, Orders10_14

\* t9 and t10 in case 15.
LEMMA Step10_15 ==
    ASSUME NEW s, Picked10(s), Free8(s),
           Took10(s, 13, 15, 1)
    PROVE  Orders10(s, 15)
<1>1. \/ Line8(s, 2,5, 6,3, 4,7, 8,1)
      \/ Line8(s, 2,5, 6,7, 8,3, 4,1)
      \/ Line8(s, 2,7, 8,5, 6,3, 4,1)
  BY DEF Took10, Orders8
<1>2. ~Backward10(s, 15)
  BY DEF Backward10
<1>3. Succ(s[9], s[10])
  BY <1>2 DEF Took10
<1>4. /\ s[10] # s[1] /\ ~Same(s[9], s[10], s[3], s[4])
      /\ ~Same(s[9], s[10], s[5], s[6])
  BY DEF Took10
<1>5. /\ ~BETWEEN(s[4], s[7], s[1]) /\ ~BETWEEN(s[6], s[7], s[3])
      /\ (BETWEEN(s[6], s[9], s[3]) \/ BETWEEN(s[2], s[9], s[7]))
  BY DEF Took10, Cases10
<1>6. \/ Line10(s, 2,7, 8,5, 6,9, 10,3, 4,1)
      \/ Line10(s, 2,9, 10,7, 8,5, 6,3, 4,1)
  BY NodesAre, <1>1, <1>2, <1>3, <1>4, <1>5, SMTT(60)
     DEF Picked10, Line8, Line10, Free8, Node, BETWEEN, Succ, Same
<1> QED
  BY <1>6 DEF Orders10, Orders10_15

\* t9 and t10 in case 16.
LEMMA Step10_16 ==
    ASSUME NEW s, Picked10(s), Free8(s),
           Took10(s, 14, 16, 1)
    PROVE  Orders10(s, 16)
<1>1. \/ Line8(s, 2,6, 5,3, 4,7, 8,1)
      \/ Line8(s, 2,6, 5,8, 7,3, 4,1)
      \/ Line8(s, 2,8, 7,6, 5,3, 4,1)
  BY DEF Took10, Orders8
<1>2. ~Backward10(s, 16)
  BY DEF Backward10
<1>3. Succ(s[9], s[10])
  BY <1>2 DEF Took10
<1>4. /\ s[10] # s[1] /\ ~Same(s[9], s[10], s[3], s[4])
      /\ ~Same(s[9], s[10], s[5], s[6])
  BY DEF Took10
<1>5. BETWEEN(s[4], s[7], s[1]) /\ BETWEEN(s[2], s[9], s[7])
  BY DEF Took10, Cases10
<1>6. \/ Line10(s, 2,6, 5,3, 4,9, 10,7, 8,1)
      \/ Line10(s, 2,6, 5,9, 10,3, 4,7, 8,1)
      \/ Line10(s, 2,9, 10,6, 5,3, 4,7, 8,1)
  BY NodesAre, <1>1, <1>2, <1>3, <1>4, <1>5, SMTT(60)
     DEF Picked10, Line8, Line10, Free8, Node, BETWEEN, Succ, Same
<1> QED
  BY <1>6 DEF Orders10, Orders10_16

\* t9 and t10 in case 17.
LEMMA Step10_17 ==
    ASSUME NEW s, Picked10(s), Free8(s),
           Took10(s, 14, 17, 1)
    PROVE  Orders10(s, 17)
<1>1. \/ Line8(s, 2,6, 5,3, 4,7, 8,1)
      \/ Line8(s, 2,6, 5,8, 7,3, 4,1)
      \/ Line8(s, 2,8, 7,6, 5,3, 4,1)
  BY DEF Took10, Orders8
<1>2. ~Backward10(s, 17)
  BY DEF Backward10
<1>3. Succ(s[9], s[10])
  BY <1>2 DEF Took10
<1>4. /\ s[10] # s[1] /\ ~Same(s[9], s[10], s[3], s[4])
      /\ ~Same(s[9], s[10], s[5], s[6])
  BY DEF Took10
<1>5. /\ ~BETWEEN(s[4], s[7], s[1]) /\ BETWEEN(s[5], s[7], s[3])
      /\ (BETWEEN(s[7], s[9], s[3]) \/ BETWEEN(s[2], s[9], s[6]))
  BY DEF Took10, Cases10
<1>6. \/ Line10(s, 2,6, 5,8, 7,9, 10,3, 4,1)
      \/ Line10(s, 2,9, 10,6, 5,8, 7,3, 4,1)
  BY NodesAre, <1>1, <1>2, <1>3, <1>4, <1>5, SMTT(60)
     DEF Picked10, Line8, Line10, Free8, Node, BETWEEN, Succ, Same
<1> QED
  BY <1>6 DEF Orders10, Orders10_17

\* t9 and t10 in case 18.
LEMMA Step10_18 ==
    ASSUME NEW s, Picked10(s), Free8(s),
           Took10(s, 14, 18, 1)
    PROVE  Orders10(s, 18)
<1>1. \/ Line8(s, 2,6, 5,3, 4,7, 8,1)
      \/ Line8(s, 2,6, 5,8, 7,3, 4,1)
      \/ Line8(s, 2,8, 7,6, 5,3, 4,1)
  BY DEF Took10, Orders8
<1>2. ~Backward10(s, 18)
  BY DEF Backward10
<1>3. Succ(s[9], s[10])
  BY <1>2 DEF Took10
<1>4. /\ s[10] # s[1] /\ ~Same(s[9], s[10], s[3], s[4])
      /\ ~Same(s[9], s[10], s[5], s[6])
  BY DEF Took10
<1>5. /\ ~BETWEEN(s[4], s[7], s[1]) /\ ~BETWEEN(s[5], s[7], s[3])
      /\ BETWEEN(s[7], s[9], s[6])
  BY DEF Took10, Cases10
<1>6. Line10(s, 2,8, 7,9, 10,6, 5,3, 4,1)
  BY NodesAre, <1>1, <1>2, <1>3, <1>4, <1>5, SMTT(60)
     DEF Picked10, Line8, Line10, Free8, Node, BETWEEN, Succ, Same
<1> QED
  BY <1>6 DEF Orders10, Orders10_18

\* t9 and t10 in case 31.
LEMMA Step10_31 ==
    ASSUME NEW s, Picked10(s), Free8(s),
           Took10(s, 15, 31, 1)
    PROVE  Orders10(s, 31)
<1>1. \/ Line8(s, 2,3, 4,6, 5,8, 7,1)
      \/ Line8(s, 2,8, 7,3, 4,6, 5,1)
  BY DEF Took10, Orders8
<1>2. IF Backward10(s, 31) THEN Succ(s[10], s[9]) ELSE Succ(s[9], s[10])
  BY DEF Took10
<1>3. /\ s[10] # s[1] /\ ~Same(s[9], s[10], s[3], s[4])
      /\ ~Same(s[9], s[10], s[5], s[6])
  BY DEF Took10
<1>4. BETWEEN(s[2], s[7], s[3])
  BY DEF Took10, Cases10
<1>5. \/ Line10(s, 2,8, 7,3, 4,6, 5,10, 9,1)
      \/ Line10(s, 2,8, 7,3, 4,9, 10,6, 5,1)
      \/ Line10(s, 2,8, 7,9, 10,3, 4,6, 5,1)
      \/ Line10(s, 2,9, 10,8, 7,3, 4,6, 5,1)
  BY NodesAre, <1>1, <1>2, <1>3, <1>4, SMTT(60)
     DEF Picked10, Line8, Line10, Free8, Backward10, Node, BETWEEN, Succ, Same
<1> QED
  BY <1>5 DEF Orders10, Orders10_31

\* t9 and t10 in case 19.
LEMMA Step10_19 ==
    ASSUME NEW s, Picked10(s), Free8(s),
           Took10(s, 15, 19, 1)
    PROVE  Orders10(s, 19)
<1>1. \/ Line8(s, 2,3, 4,6, 5,8, 7,1)
      \/ Line8(s, 2,8, 7,3, 4,6, 5,1)
  BY DEF Took10, Orders8
<1>2. ~Backward10(s, 19)
  BY DEF Backward10
<1>3. Succ(s[9], s[10])
  BY <1>2 DEF Took10
<1>4. /\ s[10] # s[1] /\ ~Same(s[9], s[10], s[3], s[4])
      /\ ~Same(s[9], s[10], s[5], s[6])
  BY DEF Took10
<1>5. ~BETWEEN(s[2], s[7], s[3]) /\ BETWEEN(s[2], s[9], s[3])
  BY DEF Took10, Cases10
<1>6. Line10(s, 2,9, 10,3, 4,6, 5,8, 7,1)
  BY NodesAre, <1>1, <1>2, <1>3, <1>4, <1>5, SMTT(60)
     DEF Picked10, Line8, Line10, Free8, Node, BETWEEN, Succ, Same
<1> QED
  BY <1>6 DEF Orders10, Orders10_19

\* t9 and t10 in case 20.
LEMMA Step10_20 ==
    ASSUME NEW s, Picked10(s), Free8(s),
           Took10(s, 16, 20, 1)
    PROVE  Orders10(s, 20)
<1>1. \/ Line8(s, 2,3, 4,8, 7,5, 6,1)
      \/ Line8(s, 2,8, 7,3, 4,5, 6,1)
  BY DEF Took10, Orders8
<1>2. ~Backward10(s, 20)
  BY DEF Backward10
<1>3. Succ(s[9], s[10])
  BY <1>2 DEF Took10
<1>4. /\ s[10] # s[1] /\ ~Same(s[9], s[10], s[3], s[4])
      /\ ~Same(s[9], s[10], s[5], s[6])
  BY DEF Took10
<1>5. BETWEEN(s[2], s[7], s[3]) /\ BETWEEN(s[4], s[9], s[5])
  BY DEF Took10, Cases10
<1>6. Line10(s, 2,8, 7,3, 4,9, 10,5, 6,1)
  BY NodesAre, <1>1, <1>2, <1>3, <1>4, <1>5, SMTT(60)
     DEF Picked10, Line8, Line10, Free8, Node, BETWEEN, Succ, Same
<1> QED
  BY <1>6 DEF Orders10, Orders10_20

\* t9 and t10 in case 21.
LEMMA Step10_21 ==
    ASSUME NEW s, Picked10(s), Free8(s),
           Took10(s, 16, 21, 1)
    PROVE  Orders10(s, 21)
<1>1. \/ Line8(s, 2,3, 4,8, 7,5, 6,1)
      \/ Line8(s, 2,8, 7,3, 4,5, 6,1)
  BY DEF Took10, Orders8
<1>2. ~Backward10(s, 21)
  BY DEF Backward10
<1>3. Succ(s[9], s[10])
  BY <1>2 DEF Took10
<1>4. /\ s[10] # s[1] /\ ~Same(s[9], s[10], s[3], s[4])
      /\ ~Same(s[9], s[10], s[5], s[6])
  BY DEF Took10
<1>5. ~BETWEEN(s[2], s[7], s[3]) /\ BETWEEN(s[2], s[9], s[3])
  BY DEF Took10, Cases10
<1>6. Line10(s, 2,9, 10,3, 4,8, 7,5, 6,1)
  BY NodesAre, <1>1, <1>2, <1>3, <1>4, <1>5, SMTT(60)
     DEF Picked10, Line8, Line10, Free8, Node, BETWEEN, Succ, Same
<1> QED
  BY <1>6 DEF Orders10, Orders10_21

\* t9 and t10 in case 32.
LEMMA Step10_32 ==
    ASSUME NEW s, Picked10(s), Free8(s),
           Took10(s, 3, 1, 2)
    PROVE  Orders10(s, 32)
<1>1. \/ Line8(s, 2,6, 5,7, 8,4, 3,1)
      \/ Line8(s, 2,7, 8,6, 5,4, 3,1)
  BY DEF Took10, Orders8
<1>2. ~Backward10(s, 1)
  BY DEF Backward10
<1>3. Succ(s[10], s[9])
  BY <1>2 DEF Took10
<1>4. /\ s[10] # s[1] /\ ~Same(s[9], s[10], s[3], s[4])
      /\ ~Same(s[9], s[10], s[5], s[6])
  BY DEF Took10
<1>5. ~BETWEEN(s[5], s[7], s[4]) /\ BETWEEN(s[5], s[9], s[4])
  BY DEF Took10, Cases10
<1>6. Line10(s, 2,7, 8,6, 5,10, 9,4, 3,1)
  BY NodesAre, <1>1, <1>2, <1>3, <1>4, <1>5, SMTT(60)
     DEF Picked10, Line8, Line10, Free8, Node, BETWEEN, Succ, Same
<1> QED
  BY <1>6 DEF Orders10, Orders10_32

\* t9 and t10 in case 33.
LEMMA Step10_33 ==
    ASSUME NEW s, Picked10(s), Free8(s),
           Took10(s, 4, 2, 2)
    PROVE  Orders10(s, 33)
<1>1. \/ Line8(s, 2,4, 3,5, 6,8, 7,1)
      \/ Line8(s, 2,4, 3,8, 7,5, 6,1)
      \/ Line8(s, 2,7, 8,4, 3,5, 6,1)
  BY DEF Took10, Orders8
<1>2. ~Backward10(s, 2)
  BY DEF Backward10
<1>3. Succ(s[10], s[9])
  BY <1>2 DEF Took10
<1>4. /\ s[10] # s[1] /\ ~Same(s[9], s[10], s[3], s[4])
      /\ ~Same(s[9], s[10], s[5], s[6])
  BY DEF Took10
<1>5. BETWEEN(s[6], s[7], s[1]) /\ BETWEEN(s[2], s[9], s[5])
  BY DEF Took10, Cases10
<1>6. \/ Line10(s, 2,4, 3,10, 9,5, 6,8, 7,1)
      \/ Line10(s, 2,10, 9,4, 3,5, 6,8, 7,1)
  BY NodesAre, <1>1, <1>2, <1>3, <1>4, <1>5, SMTT(60)
     DEF Picked10, Line8, Line10, Free8, Node, BETWEEN, Succ, Same
<1> QED
  BY <1>6 DEF Orders10, Orders10_33

\* t9 and t10 in case 34.
LEMMA Step10_34 ==
    ASSUME NEW s, Picked10(s), Free8(s),
           Took10(s, 7, 3, 2)
    PROVE  Orders10(s, 34)
<1>1. \/ Line8(s, 2,3, 4,7, 8,6, 5,1)
      \/ Line8(s, 2,7, 8,3, 4,6, 5,1)
  BY DEF Took10, Orders8
<1>2. ~Backward10(s, 3)
  BY DEF Backward10
<1>3. Succ(s[10], s[9])
  BY <1>2 DEF Took10
<1>4. /\ s[10] # s[1] /\ ~Same(s[9], s[10], s[3], s[4])
      /\ ~Same(s[9], s[10], s[5], s[6])
  BY DEF Took10
<1>5. ~BETWEEN(s[2], s[7], s[3]) /\ BETWEEN(s[2], s[9], s[3])
  BY DEF Took10, Cases10
<1>6. Line10(s, 2,10, 9,3, 4,7, 8,6, 5,1)
  BY NodesAre, <1>1, <1>2, <1>3, <1>4, <1>5, SMTT(60)
     DEF Picked10, Line8, Line10, Free8, Node, BETWEEN, Succ, Same
<1> QED
  BY <1>6 DEF Orders10, Orders10_34

\* t9 and t10 in case 35.
LEMMA Step10_35 ==
    ASSUME NEW s, Picked10(s), Free8(s),
           Took10(s, 8, 4, 2)
    PROVE  Orders10(s, 35)
<1>1. \/ Line8(s, 2,3, 4,7, 8,5, 6,1)
      \/ Line8(s, 2,7, 8,3, 4,5, 6,1)
  BY DEF Took10, Orders8
<1>2. ~Backward10(s, 4)
  BY DEF Backward10
<1>3. Succ(s[10], s[9])
  BY <1>2 DEF Took10
<1>4. /\ s[10] # s[1] /\ ~Same(s[9], s[10], s[3], s[4])
      /\ ~Same(s[9], s[10], s[5], s[6])
  BY DEF Took10
<1>5. BETWEEN(s[2], s[7], s[3]) /\ BETWEEN(s[4], s[9], s[5])
  BY DEF Took10, Cases10
<1>6. Line10(s, 2,7, 8,3, 4,10, 9,5, 6,1)
  BY NodesAre, <1>1, <1>2, <1>3, <1>4, <1>5, SMTT(60)
     DEF Picked10, Line8, Line10, Free8, Node, BETWEEN, Succ, Same
<1> QED
  BY <1>6 DEF Orders10, Orders10_35

\* t9 and t10 in case 36.
LEMMA Step10_36 ==
    ASSUME NEW s, Picked10(s), Free8(s),
           Took10(s, 8, 5, 2)
    PROVE  Orders10(s, 36)
<1>1. \/ Line8(s, 2,3, 4,7, 8,5, 6,1)
      \/ Line8(s, 2,7, 8,3, 4,5, 6,1)
  BY DEF Took10, Orders8
<1>2. ~Backward10(s, 5)
  BY DEF Backward10
<1>3. Succ(s[10], s[9])
  BY <1>2 DEF Took10
<1>4. /\ s[10] # s[1] /\ ~Same(s[9], s[10], s[3], s[4])
      /\ ~Same(s[9], s[10], s[5], s[6])
  BY DEF Took10
<1>5. ~BETWEEN(s[2], s[7], s[3]) /\ BETWEEN(s[2], s[9], s[3])
  BY DEF Took10, Cases10
<1>6. Line10(s, 2,10, 9,3, 4,7, 8,5, 6,1)
  BY NodesAre, <1>1, <1>2, <1>3, <1>4, <1>5, SMTT(60)
     DEF Picked10, Line8, Line10, Free8, Node, BETWEEN, Succ, Same
<1> QED
  BY <1>6 DEF Orders10, Orders10_36

\* t9 and t10 in case 37.
LEMMA Step10_37 ==
    ASSUME NEW s, Picked10(s), Free8(s),
           Took10(s, 9, 6, 2)
    PROVE  Orders10(s, 37)
<1>1. \/ Line8(s, 2,5, 6,4, 3,7, 8,1)
      \/ Line8(s, 2,5, 6,7, 8,4, 3,1)
      \/ Line8(s, 2,8, 7,5, 6,4, 3,1)
  BY DEF Took10, Orders8
<1>2. ~Backward10(s, 6)
  BY DEF Backward10
<1>3. Succ(s[10], s[9])
  BY <1>2 DEF Took10
<1>4. /\ s[10] # s[1] /\ ~Same(s[9], s[10], s[3], s[4])
      /\ ~Same(s[9], s[10], s[5], s[6])
  BY DEF Took10
<1>5. BETWEEN(s[2], s[7], s[5]) /\ BETWEEN(s[7], s[9], s[4])
  BY DEF Took10, Cases10
<1>6. \/ Line10(s, 2,8, 7,5, 6,10, 9,4, 3,1)
      \/ Line10(s, 2,8, 7,10, 9,5, 6,4, 3,1)
  BY NodesAre, <1>1, <1>2, <1>3, <1>4, <1>5, SMTT(60)
     DEF Picked10, Line8, Line10, Free8, Node, BETWEEN, Succ, Same
<1> QED
  BY <1>6 DEF Orders10, Orders10_37

\* t9 and t10 in case 38.
LEMMA Step10_38 ==
    ASSUME NEW s, Picked10(s), Free8(s),
           Took10(s, 9, 7, 2)
    PROVE  Orders10(s, 38)
<1>1. \/ Line8(s, 2,5, 6,4, 3,7, 8,1)
      \/ Line8(s, 2,5, 6,7, 8,4, 3,1)
      \/ Line8(s, 2,8, 7,5, 6,4, 3,1)
  BY DEF Took10, Orders8
<1>2. ~Backward10(s, 7)
  BY DEF Backward10
<1>3. Succ(s[10], s[9])
  BY <1>2 DEF Took10
<1>4. /\ s[10] # s[1] /\ ~Same(s[9], s[10], s[3], s[4])
      /\ ~Same(s[9], s[10], s[5], s[6])
  BY DEF Took10
<1>5. /\ ~BETWEEN(s[2], s[7], s[5]) /\ ~BETWEEN(s[6], s[7], s[4])
      /\ BETWEEN(s[2], s[9], s[7])
  BY DEF Took10, Cases10
<1>6. \/ Line10(s, 2,5, 6,4, 3,10, 9,7, 8,1)
      \/ Line10(s, 2,5, 6,10, 9,4, 3,7, 8,1)
      \/ Line10(s, 2,10, 9,5, 6,4, 3,7, 8,1)
  BY NodesAre, <1>1, <1>2, <1>3, <1>4, <1>5, SMTT(60)
     DEF Picked10, Line8, Line10, Free8, Node, BETWEEN, Succ, Same
<1> QED
  BY <1>6 DEF Orders10, Orders10_38

\* t9 and t10 in case 39.
LEMMA Step10_39 ==
    ASSUME NEW s, Picked10(s), Free8(s),
           Took10(s, 9, 8, 2)
    PROVE  Orders10(s, 39)
<1>1. \/ Line8(s, 2,5, 6,4, 3,7, 8,1)
      \/ Line8(s, 2,5, 6,7, 8,4, 3,1)
      \/ Line8(s, 2,8, 7,5, 6,4, 3,1)
  BY DEF Took10, Orders8
<1>2. ~Backward10(s, 8)
  BY DEF Backward10
<1>3. Succ(s[10], s[9])
  BY <1>2 DEF Took10
<1>4. /\ s[10] # s[1] /\ ~Same(s[9], s[10], s[3], s[4])
      /\ ~Same(s[9], s[10], s[5], s[6])
  BY DEF Took10
<1>5. ~BETWEEN(s[2], s[7], s[5]) /\ BETWEEN(s[6], s[7], s[4]) /\ BETWEEN(s[6], s[9], s[7])
  BY DEF Took10, Cases10
<1>6. Line10(s, 2,5, 6,10, 9,7, 8,4, 3,1)
  BY NodesAre, <1>1, <1>2, <1>3, <1>4, <1>5, SMTT(60)
     DEF Picked10, Line8, Line10, Free8, Node, BETWEEN, Succ, Same
<1> QED
  BY <1>6 DEF Orders10, Orders10_39

\* t9 and t10 in case 40.
LEMMA Step10_40 ==
    ASSUME NEW s, Picked10(s), Free8(s),
           Took10(s, 10, 9, 2)
    PROVE  Orders10(s, 40)
<1>1. \/ Line8(s, 2,4, 3,6, 5,7, 8,1)
      \/ Line8(s, 2,4, 3,8, 7,6, 5,1)
      \/ Line8(s, 2,7, 8,4, 3,6, 5,1)
  BY DEF Took10, Orders8
<1>2. ~Backward10(s, 9)
  BY DEF Backward10
<1>3. Succ(s[10], s[9])
  BY <1>2 DEF Took10
<1>4. /\ s[10] # s[1] /\ ~Same(s[9], s[10], s[3], s[4])
      /\ ~Same(s[9], s[10], s[5], s[6])
  BY DEF Took10
<1>5. BETWEEN(s[3], s[7], s[6]) /\ BETWEEN(s[7], s[9], s[6])
  BY DEF Took10, Cases10
<1>6. Line10(s, 2,4, 3,8, 7,10, 9,6, 5,1)
  BY NodesAre, <1>1, <1>2, <1>3, <1>4, <1>5, SMTT(60)
     DEF Picked10, Line8, Line10, Free8, Node, BETWEEN, Succ, Same
<1> QED
  BY <1>6 DEF Orders10, Orders10_40

\* t9 and t10 in case 41.
LEMMA Step10_41 ==
    ASSUME NEW s, Picked10(s), Free8(s),
           Took10(s, 10, 10, 2)
    PROVE  Orders10(s, 41)
<1>1. \/ Line8(s, 2,4, 3,6, 5,7, 8,1)
      \/ Line8(s, 2,4, 3,8, 7,6, 5,1)
      \/ Line8(s, 2,7, 8,4, 3,6, 5,1)
  BY DEF Took10, Orders8
<1>2. ~Backward10(s, 10)
  BY DEF Backward10
<1>3. Succ(s[10], s[9])
  BY <1>2 DEF Took10
<1>4. /\ s[10] # s[1] /\ ~Same(s[9], s[10], s[3], s[4])
      /\ ~Same(s[9], s[10], s[5], s[6])
  BY DEF Took10
<1>5. ~BETWEEN(s[3], s[7], s[6]) /\ BETWEEN(s[5], s[7], s[1]) /\ BETWEEN(s[2], s[9], s[7])
  BY DEF Took10, Cases10
<1>6. \/ Line10(s, 2,4, 3,6, 5,10, 9,7, 8,1)
      \/ Line10(s, 2,4, 3,10, 9,6, 5,7, 8,1)
      \/ Line10(s, 2,10, 9,4, 3,6, 5,7, 8,1)
  BY NodesAre, <1>1, <1>2, <1>3, <1>4, <1>5, SMTT(60)
     DEF Picked10, Line8, Line10, Free8, Node, BETWEEN, Succ, Same
<1> QED
  BY <1>6 DEF Orders10, Orders10_41

\* t9 and t10 in case 42.
LEMMA Step10_42 ==
    ASSUME NEW s, Picked10(s), Free8(s),
           Took10(s, 10, 11, 2)
    PROVE  Orders10(s, 42)
<1>1. \/ Line8(s, 2,4, 3,6, 5,7, 8,1)
      \/ Line8(s, 2,4, 3,8, 7,6, 5,1)
      \/ Line8(s, 2,7, 8,4, 3,6, 5,1)
  BY DEF Took10, Orders8
<1>2. ~Backward10(s, 11)
  BY DEF Backward10
<1>3. Succ(s[10], s[9])
  BY <1>2 DEF Took10
<1>4. /\ s[10] # s[1] /\ ~Same(s[9], s[10], s[3], s[4])
      /\ ~Same(s[9], s[10], s[5], s[6])
  BY DEF Took10
<1>5. /\ ~BETWEEN(s[3], s[7], s[6]) /\ ~BETWEEN(s[5], s[7], s[1])
      /\ (BETWEEN(s[3], s[9], s[6]) \/ BETWEEN(s[2], s[9], s[7]))
  BY DEF Took10, Cases10
<1>6. \/ Line10(s, 2,7, 8,4, 3,10, 9,6, 5,1)
      \/ Line10(s, 2,10, 9,7, 8,4, 3,6, 5,1)
  BY NodesAre, <1>1, <1>2, <1>3, <1>4, <1>5, SMTT(60)
     DEF Picked10, Line8, Line10, Free8, Node, BETWEEN, Succ, Same
<1> QED
  BY <1>6 DEF Orders10, Orders10_42

\* t9 and t10 in case 43.
LEMMA Step10_43 ==
    ASSUME NEW s, Picked10(s), Free8(s),
           Took10(s, 11, 12, 2)
    PROVE  Orders10(s, 43)
<1>1. \/ Line8(s, 2,6, 5,4, 3,8, 7,1)
      \/ Line8(s, 2,6, 5,8, 7,4, 3,1)
  BY DEF Took10, Orders8
<1>2. ~Backward10(s, 12)
  BY DEF Backward10
<1>3. Succ(s[10], s[9])
  BY <1>2 DEF Took10
<1>4. /\ s[10] # s[1] /\ ~Same(s[9], s[10], s[3], s[4])
      /\ ~Same(s[9], s[10], s[5], s[6])
  BY DEF Took10
<1>5. ~BETWEEN(s[5], s[7], s[4]) /\ BETWEEN(s[5], s[9], s[4])
  BY DEF Took10, Cases10
<1>6. Line10(s, 2,6, 5,10, 9,4, 3,8, 7,1)
  BY NodesAre, <1>1, <1>2, <1>3, <1>4, <1>5, SMTT(60)
     DEF Picked10, Line8, Line10, Free8, Node, BETWEEN, Succ, Same
<1> QED
  BY <1>6 DEF Orders10, Orders10_43

\* t9 and t10 in case 44.
LEMMA Step10_44 ==
    ASSUME NEW s, Picked10(s), Free8(s),
           Took10(s, 13, 13, 2)
    PROVE  Orders10(s, 44)
<1>1. \/ Line8(s, 2,5, 6,3, 4,7, 8,1)
      \/ Line8(s, 2,5, 6,7, 8,3, 4,1)
      \/ Line8(s, 2,7, 8,5, 6,3, 4,1)
  BY DEF Took10, Orders8
<1>2. ~Backward10(s, 13)
  BY DEF Backward10
<1>3. Succ(s[10], s[9])
  BY <1>2 DEF Took10
<1>4. /\ s[10] # s[1] /\ ~Same(s[9], s[10], s[3], s[4])
      /\ ~Same(s[9], s[10], s[5], s[6])
  BY DEF Took10
<1>5. BETWEEN(s[4], s[7], s[1]) /\ BETWEEN(s[2], s[9], s[7])
  BY DEF Took10, Cases10
<1>6. \/ Line10(s, 2,5, 6,3, 4,10, 9,7, 8,1)
      \/ Line10(s, 2,5, 6,10, 9,3, 4,7, 8,1)
      \/ Line10(s, 2,10, 9,5, 6,3, 4,7, 8,1)
  BY NodesAre, <1>1, <1>2, <1>3, <1>4, <1>5, SMTT(60)
     DEF Picked10, Line8, Line10, Free8, Node, BETWEEN, Succ, Same
<1> QED
  BY <1>6 DEF Orders10, Orders10_44

\* t9 and t10 in case 45.
LEMMA Step10_45 ==
    ASSUME NEW s, Picked10(s), Free8(s),
           Took10(s, 13, 14, 2)
    PROVE  Orders10(s, 45)
<1>1. \/ Line8(s, 2,5, 6,3, 4,7, 8,1)
      \/ Line8(s, 2,5, 6,7, 8,3, 4,1)
      \/ Line8(s, 2,7, 8,5, 6,3, 4,1)
  BY DEF Took10, Orders8
<1>2. ~Backward10(s, 14)
  BY DEF Backward10
<1>3. Succ(s[10], s[9])
  BY <1>2 DEF Took10
<1>4. /\ s[10] # s[1] /\ ~Same(s[9], s[10], s[3], s[4])
      /\ ~Same(s[9], s[10], s[5], s[6])
  BY DEF Took10
<1>5. ~BETWEEN(s[4], s[7], s[1]) /\ BETWEEN(s[6], s[7], s[3]) /\ BETWEEN(s[6], s[9], s[7])
  BY DEF Took10, Cases10
<1>6. Line10(s, 2,5, 6,10, 9,7, 8,3, 4,1)
  BY NodesAre, <1>1, <1>2, <1>3, <1>4, <1>5, SMTT(60)
     DEF Picked10, Line8, Line10, Free8, Node, BETWEEN, Succ, Same
<1> QED
  BY <1>6 DEF Orders10, Orders10_45

\* t9 and t10 in case 46.
LEMMA Step10_46 ==
    ASSUME NEW s, Picked10(s), Free8(s),
           Took10(s, 13, 15, 2)
    PROVE  Orders10(s, 46)
<1>1. \/ Line8(s, 2,5, 6,3, 4,7, 8,1)
      \/ Line8(s, 2,5, 6,7, 8,3, 4,1)
      \/ Line8(s, 2,7, 8,5, 6,3, 4,1)
  BY DEF Took10, Orders8
<1>2. ~Backward10(s, 15)
  BY DEF Backward10
<1>3. Succ(s[10], s[9])
  BY <1>2 DEF Took10
<1>4. /\ s[10] # s[1] /\ ~Same(s[9], s[10], s[3], s[4])
      /\ ~Same(s[9], s[10], s[5], s[6])
  BY DEF Took10
<1>5. /\ ~BETWEEN(s[4], s[7], s[1]) /\ ~BETWEEN(s[6], s[7], s[3])
      /\ (BETWEEN(s[6], s[9], s[3]) \/ BETWEEN(s[2], s[9], s[7]))
  BY DEF Took10, Cases10
<1>6. \/ Line10(s, 2,7, 8,5, 6,10, 9,3, 4,1)
      \/ Line10(s, 2,10, 9,7, 8,5, 6,3, 4,1)
  BY NodesAre, <1>1, <1>2, <1>3, <1>4, <1>5, SMTT(60)
     DEF Picked10, Line8, Line10, Free8, Node, BETWEEN, Succ, Same
<1> QED
  BY <1>6 DEF Orders10, Orders10_46

\* t9 and t10 in case 47.
LEMMA Step10_47 ==
    ASSUME NEW s, Picked10(s), Free8(s),
           Took10(s, 14, 16, 2)
    PROVE  Orders10(s, 47)
<1>1. \/ Line8(s, 2,6, 5,3, 4,7, 8,1)
      \/ Line8(s, 2,6, 5,8, 7,3, 4,1)
      \/ Line8(s, 2,8, 7,6, 5,3, 4,1)
  BY DEF Took10, Orders8
<1>2. ~Backward10(s, 16)
  BY DEF Backward10
<1>3. Succ(s[10], s[9])
  BY <1>2 DEF Took10
<1>4. /\ s[10] # s[1] /\ ~Same(s[9], s[10], s[3], s[4])
      /\ ~Same(s[9], s[10], s[5], s[6])
  BY DEF Took10
<1>5. BETWEEN(s[4], s[7], s[1]) /\ BETWEEN(s[2], s[9], s[7])
  BY DEF Took10, Cases10
<1>6. \/ Line10(s, 2,6, 5,3, 4,10, 9,7, 8,1)
      \/ Line10(s, 2,6, 5,10, 9,3, 4,7, 8,1)
      \/ Line10(s, 2,10, 9,6, 5,3, 4,7, 8,1)
  BY NodesAre, <1>1, <1>2, <1>3, <1>4, <1>5, SMTT(60)
     DEF Picked10, Line8, Line10, Free8, Node, BETWEEN, Succ, Same
<1> QED
  BY <1>6 DEF Orders10, Orders10_47

\* t9 and t10 in case 48.
LEMMA Step10_48 ==
    ASSUME NEW s, Picked10(s), Free8(s),
           Took10(s, 14, 17, 2)
    PROVE  Orders10(s, 48)
<1>1. \/ Line8(s, 2,6, 5,3, 4,7, 8,1)
      \/ Line8(s, 2,6, 5,8, 7,3, 4,1)
      \/ Line8(s, 2,8, 7,6, 5,3, 4,1)
  BY DEF Took10, Orders8
<1>2. ~Backward10(s, 17)
  BY DEF Backward10
<1>3. Succ(s[10], s[9])
  BY <1>2 DEF Took10
<1>4. /\ s[10] # s[1] /\ ~Same(s[9], s[10], s[3], s[4])
      /\ ~Same(s[9], s[10], s[5], s[6])
  BY DEF Took10
<1>5. /\ ~BETWEEN(s[4], s[7], s[1]) /\ BETWEEN(s[5], s[7], s[3])
      /\ (BETWEEN(s[7], s[9], s[3]) \/ BETWEEN(s[2], s[9], s[6]))
  BY DEF Took10, Cases10
<1>6. \/ Line10(s, 2,6, 5,8, 7,10, 9,3, 4,1)
      \/ Line10(s, 2,10, 9,6, 5,8, 7,3, 4,1)
  BY NodesAre, <1>1, <1>2, <1>3, <1>4, <1>5, SMTT(60)
     DEF Picked10, Line8, Line10, Free8, Node, BETWEEN, Succ, Same
<1> QED
  BY <1>6 DEF Orders10, Orders10_48

\* t9 and t10 in case 49.
LEMMA Step10_49 ==
    ASSUME NEW s, Picked10(s), Free8(s),
           Took10(s, 14, 18, 2)
    PROVE  Orders10(s, 49)
<1>1. \/ Line8(s, 2,6, 5,3, 4,7, 8,1)
      \/ Line8(s, 2,6, 5,8, 7,3, 4,1)
      \/ Line8(s, 2,8, 7,6, 5,3, 4,1)
  BY DEF Took10, Orders8
<1>2. ~Backward10(s, 18)
  BY DEF Backward10
<1>3. Succ(s[10], s[9])
  BY <1>2 DEF Took10
<1>4. /\ s[10] # s[1] /\ ~Same(s[9], s[10], s[3], s[4])
      /\ ~Same(s[9], s[10], s[5], s[6])
  BY DEF Took10
<1>5. /\ ~BETWEEN(s[4], s[7], s[1]) /\ ~BETWEEN(s[5], s[7], s[3])
      /\ BETWEEN(s[7], s[9], s[6])
  BY DEF Took10, Cases10
<1>6. Line10(s, 2,8, 7,10, 9,6, 5,3, 4,1)
  BY NodesAre, <1>1, <1>2, <1>3, <1>4, <1>5, SMTT(60)
     DEF Picked10, Line8, Line10, Free8, Node, BETWEEN, Succ, Same
<1> QED
  BY <1>6 DEF Orders10, Orders10_49

\* t9 and t10 in case 50.
LEMMA Step10_50 ==
    ASSUME NEW s, Picked10(s), Free8(s),
           Took10(s, 15, 19, 2)
    PROVE  Orders10(s, 50)
<1>1. \/ Line8(s, 2,3, 4,6, 5,8, 7,1)
      \/ Line8(s, 2,8, 7,3, 4,6, 5,1)
  BY DEF Took10, Orders8
<1>2. ~Backward10(s, 19)
  BY DEF Backward10
<1>3. Succ(s[10], s[9])
  BY <1>2 DEF Took10
<1>4. /\ s[10] # s[1] /\ ~Same(s[9], s[10], s[3], s[4])
      /\ ~Same(s[9], s[10], s[5], s[6])
  BY DEF Took10
<1>5. ~BETWEEN(s[2], s[7], s[3]) /\ BETWEEN(s[2], s[9], s[3])
  BY DEF Took10, Cases10
<1>6. Line10(s, 2,10, 9,3, 4,6, 5,8, 7,1)
  BY NodesAre, <1>1, <1>2, <1>3, <1>4, <1>5, SMTT(60)
     DEF Picked10, Line8, Line10, Free8, Node, BETWEEN, Succ, Same
<1> QED
  BY <1>6 DEF Orders10, Orders10_50

\* t9 and t10 in case 51.
LEMMA Step10_51 ==
    ASSUME NEW s, Picked10(s), Free8(s),
           Took10(s, 16, 20, 2)
    PROVE  Orders10(s, 51)
<1>1. \/ Line8(s, 2,3, 4,8, 7,5, 6,1)
      \/ Line8(s, 2,8, 7,3, 4,5, 6,1)
  BY DEF Took10, Orders8
<1>2. ~Backward10(s, 20)
  BY DEF Backward10
<1>3. Succ(s[10], s[9])
  BY <1>2 DEF Took10
<1>4. /\ s[10] # s[1] /\ ~Same(s[9], s[10], s[3], s[4])
      /\ ~Same(s[9], s[10], s[5], s[6])
  BY DEF Took10
<1>5. BETWEEN(s[2], s[7], s[3]) /\ BETWEEN(s[4], s[9], s[5])
  BY DEF Took10, Cases10
<1>6. Line10(s, 2,8, 7,3, 4,10, 9,5, 6,1)
  BY NodesAre, <1>1, <1>2, <1>3, <1>4, <1>5, SMTT(60)
     DEF Picked10, Line8, Line10, Free8, Node, BETWEEN, Succ, Same
<1> QED
  BY <1>6 DEF Orders10, Orders10_51

\* t9 and t10 in case 52.
LEMMA Step10_52 ==
    ASSUME NEW s, Picked10(s), Free8(s),
           Took10(s, 16, 21, 2)
    PROVE  Orders10(s, 52)
<1>1. \/ Line8(s, 2,3, 4,8, 7,5, 6,1)
      \/ Line8(s, 2,8, 7,3, 4,5, 6,1)
  BY DEF Took10, Orders8
<1>2. ~Backward10(s, 21)
  BY DEF Backward10
<1>3. Succ(s[10], s[9])
  BY <1>2 DEF Took10
<1>4. /\ s[10] # s[1] /\ ~Same(s[9], s[10], s[3], s[4])
      /\ ~Same(s[9], s[10], s[5], s[6])
  BY DEF Took10
<1>5. ~BETWEEN(s[2], s[7], s[3]) /\ BETWEEN(s[2], s[9], s[3])
  BY DEF Took10, Cases10
<1>6. Line10(s, 2,10, 9,3, 4,8, 7,5, 6,1)
  BY NodesAre, <1>1, <1>2, <1>3, <1>4, <1>5, SMTT(60)
     DEF Picked10, Line8, Line10, Free8, Node, BETWEEN, Succ, Same
<1> QED
  BY <1>6 DEF Orders10, Orders10_52

-----------------------------------------------------------------------------
(* One step of a Best function.                                          *)

\* The nodes chosen so far, and two more.
LEMMA TwoMore ==
    ASSUME NEW s \in Seq(Node), NEW x \in Node, NEW y \in Node,
           NEW n \in {2, 4, 6, 8}, Chosen(s, n)
    PROVE  LET u == Append(s, x)
               v == Append(u, y)
           IN  /\ v \in Seq(Node) /\ Chosen(v, n + 2)
               /\ \A i \in 1..n : u[i] = s[i] /\ v[i] = s[i]
               /\ u[n + 1] = x /\ v[n + 1] = x /\ v[n + 2] = y
               /\ Len(u) = n + 1
<1> DEFINE u == Append(s, x)
           v == Append(u, y)
<1>1. Len(s) = n
  BY DEF Chosen
<1>2. u \in Seq(Node) /\ Len(u) = n + 1 /\ u[n + 1] = x /\ \A i \in 1..n : u[i] = s[i]
  BY <1>1
<1> HIDE DEF u
<1>3. /\ v \in Seq(Node) /\ Len(v) = n + 2 /\ v[n + 2] = y
      /\ \A i \in 1..(n + 1) : v[i] = u[i]
  BY <1>2
<1> HIDE DEF v
<1>4. v[1] = N /\ v[2] = 1
  <2>1. s[1] = N /\ s[2] = 1 /\ \A i \in 1..n : s[i] \in Node
    BY DEF Chosen
  <2> QED
    BY <1>2, <1>3, <2>1
<1>5. \A i \in 1..(n + 2) : v[i] \in Node
  BY <1>3
<1> QED
  BY <1>2, <1>3, <1>4, <1>5 DEF Chosen, u, v

\* The candidates of the last node are free.
LEMMA CandidatesAre ==
    ASSUME NEW s, NEW x \in Candidates(s), NEW n \in {2, 4, 6, 8}, Chosen(s, n)
    PROVE  /\ x \in Node /\ x # s[n] /\ ~Succ(s[n], x) /\ ~Succ(x, s[n])
           /\ \A i \in 1..(n \div 2 - 2) : ~Same(s[n], x, s[2*i], s[2*i + 1])
           /\ n = 8 => x # s[1]
<1>1. Len(s) = n /\ s[n] \in Node /\ Last(s) = s[n]
  BY DEF Chosen, Last
<1>2. x \in Node /\ x # s[n] /\ x # SUC(s[n]) /\ x # PRD(s[n])
  BY <1>1 DEF Candidates, Fresh
<1>3. \A i \in 1..(n \div 2 - 2) : {s[n], x} # {s[2*i], s[2*i + 1]}
  BY <1>1 DEF Candidates, Fresh
<1>4. n = 8 => x # s[1]
  BY <1>1 DEF Candidates
<1> QED
  BY <1>1, <1>2, <1>3, <1>4, Neighbours DEF Same

\* The same of the sequence with that node.
LEMMA FreeAre ==
    ASSUME NEW s, NEW n \in {2, 4, 6, 8}, NEW x \in Candidates(s), Chosen(s, n),
           NEW v, \A i \in 1..n : v[i] = s[i], v[n + 1] = x
    PROVE  /\ n = 2 => Free2(v)
           /\ n = 4 => Free4(v)
           /\ n = 6 => Free6(v)
           /\ n = 8 => Free8(v)
<1>1. /\ x # v[n] /\ ~Succ(v[n], x) /\ ~Succ(x, v[n])
      /\ n = 8 => x # v[1]
  BY CandidatesAre
<1>2. \A i \in 1..(n \div 2 - 2) : ~Same(v[n], x, v[2*i], v[2*i + 1])
  <2>1. \A i \in 1..(n \div 2 - 2) : 2 * i \in 1..n /\ 2 * i + 1 \in 1..n
    OBVIOUS
  <2> QED
    BY <2>1, CandidatesAre
<1>3. n \in {6, 8} => ~Same(v[n], x, v[2], v[3])
  BY <1>2
<1>4. n = 8 => ~Same(v[n], x, v[4], v[5])
  BY <1>2
<1> QED
  BY <1>1, <1>3, <1>4 DEF Free2, Free4, Free6, Free8

\* t3 and t4.
LEMMA Choose4 ==
    ASSUME NEW s \in Seq(Node), Chosen(s, 2), NEW x \in Candidates(s),
           NEW e \in Ends4(Append(s, x))
    PROVE  LET v == Append(Append(s, x), e[1])
           IN  v \in Seq(Node) /\ Chosen(v, 4) /\ Orders4(v, e[2])
<1> DEFINE u == Append(s, x)
           v == Append(u, e[1])
<1> DEFINE Is(X) == e = <<Side(u[3], X = 2), X>>
<1>1. PICK X \in 1..2 : Is(X)
  <2>1. \A X : X \in (IF opt = 2 THEN {1} ELSE 1..2) => X \in 1..2
    OBVIOUS
  <2> QED
    BY <2>1, Zenon DEF Ends4
<1>2. x \in Node /\ u[3] = x
  BY CandidatesAre DEF Chosen
<1>3. e[1] = Side(x, X = 2) /\ e[2] = X
  BY <1>1, <1>2
<1>4. e[1] \in Node /\ IF X = 2 THEN Succ(x, e[1]) ELSE Succ(e[1], x)
  BY <1>2, <1>3, Neighbours DEF Side
<1>5. /\ v \in Seq(Node) /\ Chosen(v, 4)
      /\ \A i \in 1..2 : v[i] = s[i]
      /\ v[3] = x /\ v[4] = e[1]
  BY <1>2, <1>4, TwoMore
<1> HIDE DEF v, u, Is
<1>6. Free2(v) /\ Picked4(v)
  BY <1>5, FreeAre, PickedAre
<1>7. Orders4(v, X)
  <2>1. CASE X = 1
    BY <1>4, <1>5, <1>6, <2>1, Step4_1
  <2>2. CASE X = 2
    BY <1>4, <1>5, <1>6, <2>2, Step4_2
  <2> QED
    BY <2>1, <2>2
<1> QED
  BY <1>3, <1>5, <1>7 DEF u, v

\* t5 and t6.
LEMMA Choose6 ==
    ASSUME NEW s \in Seq(Node), Chosen(s, 4), NEW c, Orders4(s, c),
           NEW x \in Candidates(s), NEW e \in Ends6(Append(s, x))
    PROVE  LET v == Append(Append(s, x), e[1])
           IN  /\ v \in Seq(Node) /\ Chosen(v, 6) /\ Orders6(v, e[2])
               /\ opt = 4 => e[2] # 8
<1> DEFINE u == Append(s, x)
           v == Append(u, e[1])
           y == e[1]
           third == IF c = 1 THEN s[4] ELSE s[3]
           Is(X) == Tried6(u, X) /\ e = <<End6(u, X), Case6(u, X)>>
<1>1. PICK X \in 1..2 : Is(X)
  BY Zenon DEF Ends6
<1> HIDE DEF u
<1>2. x \in Node /\ u[5] = x /\ u[1] = s[1] /\ u[2] = s[2] /\ u[3] = s[3] /\ u[4] = s[4]
  <2>1. x \in Node
    BY CandidatesAre
  <2>2. u[5] = x /\ \A i \in 1..4 : u[i] = s[i]
    BY <2>1, TwoMore DEF u
  <2> QED
    BY <2>1, <2>2
<1>3. c \in {1, 2} /\ Case4(u) = c
  <2>1. c \in {1, 2}
    BY DEF Orders4
  <2>2. s[3] \in Node /\ s[4] \in Node
    BY Exchange4
  <2>3. u[4] = PRD(u[3]) <=> Succ(s[4], s[3])
    BY <1>2, <2>2, Neighbours
  <2>4. Succ(s[4], s[3]) <=> c = 1
    BY <2>2, NodesAre DEF Orders4, Line4, Succ, Node
  <2> QED
    BY <2>1, <2>3, <2>4 DEF Case4
<1>4. /\ y = Side(x, (X = 1) <=> BETWEEN(s[2], x, third))
      /\ e[2] = IF c = 1 THEN (IF BETWEEN(s[2], x, s[4]) THEN 1 ELSE 2) + 2 * (X - 1)
                ELSE IF BETWEEN(s[2], x, s[3]) THEN 4 + X ELSE 6 + X
  BY <1>1, <1>2, <1>3 DEF End6, Case6
<1>5. /\ opt = 4 => e[2] # 8
      /\ e[2] \in {3, 4} => {x, y} # {s[1], s[2]}
      /\ e[2] \in {5, 6} => y # s[1]
      /\ e[2] \in {7, 8} => y # s[2]
  BY <1>1, <1>2 DEF Tried6
<1>6. /\ y \in Node
      /\ IF BETWEEN(s[2], x, third) THEN IF X = 1 THEN Succ(x, y) ELSE Succ(y, x)
         ELSE IF X = 1 THEN Succ(y, x) ELSE Succ(x, y)
  BY <1>2, <1>4, Neighbours DEF Side
<1>7. /\ v \in Seq(Node) /\ Chosen(v, 6)
      /\ \A i \in 1..4 : v[i] = s[i]
      /\ v[5] = x /\ v[6] = y
  BY <1>2, <1>6, TwoMore DEF u
<1> HIDE DEF v, y
<1>8. Free4(v) /\ Picked6(v)
  BY <1>7, FreeAre, PickedAre
<1>9. v[1] = s[1] /\ v[2] = s[2] /\ v[3] = s[3] /\ v[4] = s[4]
  BY <1>7
<1>10. Orders4(v, c)
  BY <1>9 DEF Orders4, Line4
<1>11. Orders6(v, e[2])
  <2>1. CASE c = 1 /\ BETWEEN(s[2], x, s[4]) /\ X = 1
    BY <1>4, <1>6, <1>7, <1>8, <1>9, <1>10, <2>1, Step6_1
  <2>2. CASE c = 1 /\ ~BETWEEN(s[2], x, s[4]) /\ X = 1
    BY <1>4, <1>6, <1>7, <1>8, <1>9, <1>10, <2>2, Step6_2
  <2>3. CASE c = 1 /\ BETWEEN(s[2], x, s[4]) /\ X = 2
    <3>1. ~Same(x, y, s[1], s[2])
      BY <1>4, <1>5, <2>3 DEF Same
    <3> QED
      BY <1>4, <1>6, <1>7, <1>8, <1>9, <1>10, <2>3, <3>1, Step6_3
  <2>4. CASE c = 1 /\ ~BETWEEN(s[2], x, s[4]) /\ X = 2
    <3>1. ~Same(x, y, s[1], s[2])
      BY <1>4, <1>5, <2>4 DEF Same
    <3> QED
      BY <1>4, <1>6, <1>7, <1>8, <1>9, <1>10, <2>4, <3>1, Step6_4
  <2>5. CASE c = 2 /\ BETWEEN(s[2], x, s[3]) /\ X = 1
    BY <1>4, <1>5, <1>6, <1>7, <1>8, <1>9, <1>10, <2>5, Step6_5
  <2>6. CASE c = 2 /\ BETWEEN(s[2], x, s[3]) /\ X = 2
    BY <1>4, <1>5, <1>6, <1>7, <1>8, <1>9, <1>10, <2>6, Step6_6
  <2>7. CASE c = 2 /\ ~BETWEEN(s[2], x, s[3]) /\ X = 1
    BY <1>4, <1>5, <1>6, <1>7, <1>8, <1>9, <1>10, <2>7, Step6_7
  <2>8. CASE c = 2 /\ ~BETWEEN(s[2], x, s[3]) /\ X = 2
    BY <1>4, <1>5, <1>6, <1>7, <1>8, <1>9, <1>10, <2>8, Step6_8
  <2> QED
    BY <1>3, <2>1, <2>2, <2>3, <2>4, <2>5, <2>6, <2>7, <2>8
<1> QED
  BY <1>5, <1>7, <1>11 DEF u, v, y

\* t7 and t8, as Best5OptMove chooses them.
LEMMA Choose8Of5 ==
    ASSUME NEW s \in Seq(Node), Chosen(s, 6), NEW c, Orders6(s, c),
           NEW x \in Candidates(s), NEW e \in Ends8(Append(s, x), c),
           opt # 4
    PROVE  LET v == Append(Append(s, x), e[1])
           IN  v \in Seq(Node) /\ Chosen(v, 8) /\ Orders8(v, e[2])
<1> DEFINE u == Append(s, x)
           v == Append(u, e[1])
           y == e[1]
           Is(X) == Tried8Of5(u, c, X) /\ e = <<End8(u, c, X), c + 8 * (X - 1)>>
<1>1. PICK X \in 1..2 : Is(X)
  BY Zenon DEF Ends8
<1> HIDE DEF u
<1>2. x \in Node /\ u[7] = x /\ \A i \in 1..6 : u[i] = s[i]
  <2>1. x \in Node
    BY CandidatesAre
  <2> QED
    BY <2>1, TwoMore DEF u
<1>3. y = End8(u, c, X) /\ e[2] = c + 8 * (X - 1) /\ Tried8Of5(u, c, X)
  BY <1>1
<1>4. y \in Node
  BY <1>2, <1>3, Neighbours DEF End8, Side
<1>5. /\ v \in Seq(Node) /\ Chosen(v, 8)
      /\ \A i \in 1..6 : v[i] = s[i]
      /\ v[7] = x /\ v[8] = y
  BY <1>2, <1>4, TwoMore DEF u
<1> HIDE DEF v, y, Is
<1>6. Free6(v) /\ Picked8(v)
  BY <1>5, FreeAre, PickedAre
<1>7. /\ v[1] = u[1] /\ v[2] = u[2] /\ v[3] = u[3] /\ v[4] = u[4]
      /\ v[5] = u[5] /\ v[6] = u[6] /\ v[7] = u[7]
  BY <1>2, <1>5
<1>8. Orders6(v, c) /\ End8(v, c, X) = y /\ Tried8Of5(v, c, X)
  <2>1. Orders6(v, c)
    <3>1. /\ v[1] = s[1] /\ v[2] = s[2] /\ v[3] = s[3] /\ v[4] = s[4]
          /\ v[5] = s[5] /\ v[6] = s[6]
      BY <1>5
    <3> QED
      BY <3>1 DEF Orders6, Line6
  <2>2. End8(v, c, X) = y
    BY <1>3, <1>7 DEF End8, Forward8
  <2>3. Tried8Of5(v, c, X)
    BY <1>3, <1>7, <2>2 DEF Tried8Of5
  <2> QED
    BY <2>1, <2>2, <2>3
<1>9. Orders8(v, e[2])
  <2>1. CASE c = 1 /\ X = 1
    BY <1>3, <1>5, <1>6, <1>7, <1>8, <2>1, Step8_1
  <2>2. CASE c = 2 /\ X = 1
    BY <1>3, <1>5, <1>6, <1>7, <1>8, <2>2, Step8_2
  <2>3. CASE c = 3 /\ X = 1
    BY <1>3, <1>5, <1>6, <1>7, <1>8, <2>3, Step8_3
  <2>4. CASE c = 4 /\ X = 1
    BY <1>3, <1>5, <1>6, <1>7, <1>8, <2>4, Step8_4
  <2>5. CASE c = 5 /\ X = 1
    BY <1>3, <1>5, <1>6, <1>7, <1>8, <2>5, Step8_5
  <2>6. CASE c = 6 /\ X = 1
    BY <1>3, <1>5, <1>6, <1>7, <1>8, <2>6, Step8_6
  <2>7. CASE c = 7 /\ X = 1
    BY <1>3, <1>5, <1>6, <1>7, <1>8, <2>7, Step8_7
  <2>8. CASE c = 8 /\ X = 1
    BY <1>3, <1>5, <1>6, <1>7, <1>8, <2>8, Step8_8
  <2>9. CASE c = 1 /\ X = 2
    BY <1>3, <1>5, <1>6, <1>7, <1>8, <2>9, Step8_9
  <2>10. CASE c = 2 /\ X = 2
    BY <1>3, <1>5, <1>6, <1>7, <1>8, <2>10, Step8_10
  <2>11. CASE c = 3 /\ X = 2
    BY <1>3, <1>5, <1>6, <1>7, <1>8, <2>11, Step8_11
  <2>12. CASE c = 4 /\ X = 2
    BY <1>3, <1>5, <1>6, <1>7, <1>8, <2>12, Step8_12
  <2>13. CASE c = 5 /\ X = 2
    BY <1>3, <1>5, <1>6, <1>7, <1>8, <2>13, Step8_13
  <2>14. CASE c = 6 /\ X = 2
    BY <1>3, <1>5, <1>6, <1>7, <1>8, <2>14, Step8_14
  <2>15. CASE c = 7 /\ X = 2
    BY <1>3, <1>5, <1>6, <1>7, <1>8, <2>15, Step8_15
  <2>16. CASE c = 8 /\ X = 2
    BY <1>3, <1>5, <1>6, <1>7, <1>8, <2>16, Step8_16
  <2>17. c \in 1..8
    BY DEF Orders6
  <2> QED
    BY <2>1, <2>2, <2>3, <2>4, <2>5, <2>6, <2>7, <2>8, <2>9,
       <2>10, <2>11, <2>12, <2>13, <2>14, <2>15, <2>16, <2>17
<1> QED
  BY <1>5, <1>9 DEF u, v, y

\* t7 and t8, as Best4OptMove chooses them.
LEMMA Choose8Of4 ==
    ASSUME NEW s \in Seq(Node), Chosen(s, 6), NEW c, Orders6(s, c),
           NEW x \in Candidates(s), NEW e \in Ends8(Append(s, x), c),
           opt = 4, c # 8
    PROVE  LET v == Append(Append(s, x), e[1])
           IN  v \in Seq(Node) /\ Chosen(v, 8) /\ Closed8(v, e[2])
<1> DEFINE u == Append(s, x)
           v == Append(u, e[1])
           y == e[1]
           Is(X) == Tried8Of4(u, c, X) /\ e = <<End8(u, c, X), c + 8 * (X - 1)>>
<1>1. PICK X \in 1..2 : Is(X)
  BY Zenon DEF Ends8
<1> HIDE DEF u
<1>2. x \in Node /\ u[7] = x /\ \A i \in 1..6 : u[i] = s[i]
  <2>1. x \in Node
    BY CandidatesAre
  <2> QED
    BY <2>1, TwoMore DEF u
<1>3. y = End8(u, c, X) /\ e[2] = c + 8 * (X - 1) /\ Tried8Of4(u, c, X)
  BY <1>1
<1>4. y \in Node
  BY <1>2, <1>3, Neighbours DEF End8, Side
<1>5. /\ v \in Seq(Node) /\ Chosen(v, 8)
      /\ \A i \in 1..6 : v[i] = s[i]
      /\ v[7] = x /\ v[8] = y
  BY <1>2, <1>4, TwoMore DEF u
<1> HIDE DEF v, y, Is
<1>6. Free6(v) /\ Picked8(v)
  BY <1>5, FreeAre, PickedAre
<1>7. /\ v[1] = u[1] /\ v[2] = u[2] /\ v[3] = u[3] /\ v[4] = u[4]
      /\ v[5] = u[5] /\ v[6] = u[6] /\ v[7] = u[7]
  BY <1>2, <1>5
<1>8. Orders6(v, c) /\ End8(v, c, X) = y /\ Tried8Of4(v, c, X)
  <2>1. Orders6(v, c)
    <3>1. /\ v[1] = s[1] /\ v[2] = s[2] /\ v[3] = s[3] /\ v[4] = s[4]
          /\ v[5] = s[5] /\ v[6] = s[6]
      BY <1>5
    <3> QED
      BY <3>1 DEF Orders6, Line6
  <2>2. End8(v, c, X) = y
    BY <1>3, <1>7 DEF End8, Forward8
  <2>3. Tried8Of4(v, c, X)
    BY <1>3, <1>7, <2>2 DEF Tried8Of4
  <2> QED
    BY <2>1, <2>2, <2>3
<1>9. Closed8(v, e[2])
  <2>1. c \in 1..7 /\ (X = 2 => c \in {3, 4, 7})
    <3>1. c \in 1..7
      BY DEF Orders6
    <3> QED
      BY <3>1, <1>8 DEF Tried8Of4
  <2>2. CASE c = 1 /\ X = 1
    BY <1>3, <1>5, <1>6, <1>7, <1>8, <2>2, Step8Of4_1
  <2>3. CASE c = 2 /\ X = 1
    BY <1>3, <1>5, <1>6, <1>7, <1>8, <2>3, Step8Of4_2
  <2>4. CASE c = 3 /\ X = 1
    BY <1>3, <1>5, <1>6, <1>7, <1>8, <2>4, Step8Of4_3
  <2>5. CASE c = 4 /\ X = 1
    BY <1>3, <1>5, <1>6, <1>7, <1>8, <2>5, Step8Of4_4
  <2>6. CASE c = 5 /\ X = 1
    BY <1>3, <1>5, <1>6, <1>7, <1>8, <2>6, Step8Of4_5
  <2>7. CASE c = 6 /\ X = 1
    BY <1>3, <1>5, <1>6, <1>7, <1>8, <2>7, Step8Of4_6
  <2>8. CASE c = 7 /\ X = 1
    BY <1>3, <1>5, <1>6, <1>7, <1>8, <2>8, Step8Of4_7
  <2>9. CASE c = 3 /\ X = 2
    BY <1>3, <1>5, <1>6, <1>7, <1>8, <2>9, Step8Of4_11
  <2>10. CASE c = 4 /\ X = 2
    BY <1>3, <1>5, <1>6, <1>7, <1>8, <2>10, Step8Of4_12
  <2>11. CASE c = 7 /\ X = 2
    BY <1>3, <1>5, <1>6, <1>7, <1>8, <2>11, Step8Of4_15
  <2> QED
    BY <2>1, <2>2, <2>3, <2>4, <2>5, <2>6, <2>7, <2>8, <2>9,
       <2>10, <2>11
<1> QED
  BY <1>5, <1>9 DEF u, v, y

\* Each case of t10 belongs to one of t8.
LEMMA CasesAre ==
    ASSUME NEW s, NEW c8, NEW c \in Cases10(s, c8)
    PROVE  /\ c \in 1..31
           /\ (c = 1 => c8 = 3) /\ (c = 2 => c8 = 4)
           /\ (c = 3 => c8 = 7) /\ (c = 4 => c8 = 8)
           /\ (c = 5 => c8 = 8) /\ (c = 6 => c8 = 9)
           /\ (c = 7 => c8 = 9) /\ (c = 8 => c8 = 9)
           /\ (c = 9 => c8 = 10) /\ (c = 10 => c8 = 10)
           /\ (c = 11 => c8 = 10) /\ (c = 12 => c8 = 11)
           /\ (c = 13 => c8 = 13) /\ (c = 14 => c8 = 13)
           /\ (c = 15 => c8 = 13) /\ (c = 16 => c8 = 14)
           /\ (c = 17 => c8 = 14) /\ (c = 18 => c8 = 14)
           /\ (c = 19 => c8 = 15) /\ (c = 20 => c8 = 16)
           /\ (c = 21 => c8 = 16) /\ (c = 22 => c8 = 1)
           /\ (c = 23 => c8 = 2) /\ (c = 24 => c8 = 3)
           /\ (c = 25 => c8 = 4) /\ (c = 26 => c8 = 5)
           /\ (c = 27 => c8 = 6) /\ (c = 28 => c8 = 7)
           /\ (c = 29 => c8 = 11) /\ (c = 30 => c8 = 12) /\ (c = 31 => c8 = 15)
BY DEF Cases10

\* t9 and t10.
LEMMA Choose10 ==
    ASSUME NEW s \in Seq(Node), Chosen(s, 8), NEW c8, Orders8(s, c8),
           NEW x \in Candidates(s), NEW e \in Ends10(Append(s, x), c8)
    PROVE  LET v == Append(Append(s, x), e[1])
           IN  v \in Seq(Node) /\ Chosen(v, 10) /\ Orders10(v, e[2])
<1> DEFINE u == Append(s, x)
           v == Append(u, e[1])
           y == e[1]
           Is(c, X) == e = <<Side(u[9], (X = 1) # Backward10(u, c)), c + 31 * (X - 1)>>
<1> DEFINE S(c) == {<<Side(u[9], (X = 1) # Backward10(u, c)), c + 31 * (X - 1)>> :
                       X \in IF c >= 22 THEN {1} ELSE 1..2}
<1>1. e \in {f \in UNION {S(c) : c \in Cases10(u, c8)} :
               f[1] # u[1] /\ {u[9], f[1]} \notin {{u[3], u[4]}, {u[5], u[6]}}}
  BY Zenon DEF Ends10
<1> HIDE DEF u, S
<1>2. PICK c \in Cases10(u, c8) : e \in S(c)
  BY <1>1
<1>3. PICK X \in IF c >= 22 THEN {1} ELSE 1..2 : Is(c, X)
  BY <1>2, Zenon DEF S
<1> HIDE DEF Is
<1>4. c \in 1..31 /\ X \in 1..2 /\ (X = 2 => c < 22)
  <2>1. c \in 1..31
    BY CasesAre
  <2>2. CASE c >= 22
    BY <1>3, <2>1, <2>2
  <2>3. CASE ~(c >= 22)
    BY <1>3, <2>1, <2>3
  <2> QED
    BY <2>2, <2>3
<1>5. x \in Node /\ u[9] = x /\ \A i \in 1..8 : u[i] = s[i]
  <2>1. x \in Node
    BY CandidatesAre
  <2> QED
    BY <2>1, TwoMore DEF u
<1>6. y = Side(x, (X = 1) # Backward10(u, c)) /\ e[2] = c + 31 * (X - 1)
  BY <1>3, <1>5 DEF Is
<1>7. /\ y \in Node
      /\ X = 1 => IF Backward10(u, c) THEN Succ(y, x) ELSE Succ(x, y)
      /\ X = 2 => IF Backward10(u, c) THEN Succ(x, y) ELSE Succ(y, x)
  <2>1. Backward10(u, c) \in BOOLEAN
    BY DEF Backward10
  <2>2. CASE X = 1
    BY <1>5, <1>6, <2>1, <2>2, Neighbours DEF Side
  <2>3. CASE X = 2
    BY <1>5, <1>6, <2>1, <2>3, Neighbours DEF Side
  <2> QED
    BY <1>4, <2>2, <2>3
<1>8. /\ v \in Seq(Node) /\ Chosen(v, 10)
      /\ \A i \in 1..8 : v[i] = s[i]
      /\ v[9] = x /\ v[10] = y
  BY <1>5, <1>7, TwoMore DEF u
<1> HIDE DEF v, y
<1>9. Free8(v) /\ Picked10(v)
  BY <1>8, FreeAre, PickedAre
<1>10. /\ v[1] = u[1] /\ v[2] = u[2] /\ v[3] = u[3] /\ v[4] = u[4] /\ v[5] = u[5]
       /\ v[6] = u[6] /\ v[7] = u[7] /\ v[8] = u[8] /\ v[9] = u[9]
  BY <1>5, <1>8
<1>11. Orders8(v, c8)
  <2>1. /\ v[1] = s[1] /\ v[2] = s[2] /\ v[3] = s[3] /\ v[4] = s[4]
        /\ v[5] = s[5] /\ v[6] = s[6] /\ v[7] = s[7] /\ v[8] = s[8]
    BY <1>8
  <2> QED
    BY <2>1 DEF Orders8, Line8
<1>12. /\ v[10] # v[1] /\ ~Same(v[9], v[10], v[3], v[4])
       /\ ~Same(v[9], v[10], v[5], v[6])
       /\ c \in Cases10(v, c8) /\ (Backward10(v, c) <=> Backward10(u, c))
  <2>1. /\ v[10] # v[1] /\ ~Same(v[9], v[10], v[3], v[4])
        /\ ~Same(v[9], v[10], v[5], v[6])
    <3>1. y # u[1] /\ {u[9], y} \notin {{u[3], u[4]}, {u[5], u[6]}}
      BY <1>1 DEF y
    <3> QED
      BY <1>8, <1>10, <3>1 DEF Same
  <2>2. c \in Cases10(v, c8)
    BY <1>10 DEF Cases10
  <2>3. Backward10(v, c) <=> Backward10(u, c)
    BY <1>10 DEF Backward10
  <2> QED
    BY <2>1, <2>2, <2>3
<1>13. /\ X = 1 => IF Backward10(v, c) THEN Succ(v[10], v[9]) ELSE Succ(v[9], v[10])
       /\ X = 2 => IF Backward10(v, c) THEN Succ(v[9], v[10]) ELSE Succ(v[10], v[9])
  BY <1>7, <1>8, <1>12
<1>14. Took10(v, c8, c, X)
  BY <1>11, <1>12, <1>13 DEF Took10
<1>15. Orders10(v, e[2])
  <2>1. CASE c = 1 /\ X = 1
    <3>1. c8 = 3
      BY <2>1, CasesAre
    <3> QED
      BY <1>6, <1>8, <1>9, <1>14, <2>1, <3>1, Step10_1
  <2>2. CASE c = 2 /\ X = 1
    <3>1. c8 = 4
      BY <2>2, CasesAre
    <3> QED
      BY <1>6, <1>8, <1>9, <1>14, <2>2, <3>1, Step10_2
  <2>3. CASE c = 3 /\ X = 1
    <3>1. c8 = 7
      BY <2>3, CasesAre
    <3> QED
      BY <1>6, <1>8, <1>9, <1>14, <2>3, <3>1, Step10_3
  <2>4. CASE c = 4 /\ X = 1
    <3>1. c8 = 8
      BY <2>4, CasesAre
    <3> QED
      BY <1>6, <1>8, <1>9, <1>14, <2>4, <3>1, Step10_4
  <2>5. CASE c = 5 /\ X = 1
    <3>1. c8 = 8
      BY <2>5, CasesAre
    <3> QED
      BY <1>6, <1>8, <1>9, <1>14, <2>5, <3>1, Step10_5
  <2>6. CASE c = 6 /\ X = 1
    <3>1. c8 = 9
      BY <2>6, CasesAre
    <3> QED
      BY <1>6, <1>8, <1>9, <1>14, <2>6, <3>1, Step10_6
  <2>7. CASE c = 7 /\ X = 1
    <3>1. c8 = 9
      BY <2>7, CasesAre
    <3> QED
      BY <1>6, <1>8, <1>9, <1>14, <2>7, <3>1, Step10_7
  <2>8. CASE c = 8 /\ X = 1
    <3>1. c8 = 9
      BY <2>8, CasesAre
    <3> QED
      BY <1>6, <1>8, <1>9, <1>14, <2>8, <3>1, Step10_8
  <2>9. CASE c = 9 /\ X = 1
    <3>1. c8 = 10
      BY <2>9, CasesAre
    <3> QED
      BY <1>6, <1>8, <1>9, <1>14, <2>9, <3>1, Step10_9
  <2>10. CASE c = 10 /\ X = 1
    <3>1. c8 = 10
      BY <2>10, CasesAre
    <3> QED
      BY <1>6, <1>8, <1>9, <1>14, <2>10, <3>1, Step10_10
  <2>11. CASE c = 11 /\ X = 1
    <3>1. c8 = 10
      BY <2>11, CasesAre
    <3> QED
      BY <1>6, <1>8, <1>9, <1>14, <2>11, <3>1, Step10_11
  <2>12. CASE c = 12 /\ X = 1
    <3>1. c8 = 11
      BY <2>12, CasesAre
    <3> QED
      BY <1>6, <1>8, <1>9, <1>14, <2>12, <3>1, Step10_12
  <2>13. CASE c = 13 /\ X = 1
    <3>1. c8 = 13
      BY <2>13, CasesAre
    <3> QED
      BY <1>6, <1>8, <1>9, <1>14, <2>13, <3>1, Step10_13
  <2>14. CASE c = 14 /\ X = 1
    <3>1. c8 = 13
      BY <2>14, CasesAre
    <3> QED
      BY <1>6, <1>8, <1>9, <1>14, <2>14, <3>1, Step10_14
  <2>15. CASE c = 15 /\ X = 1
    <3>1. c8 = 13
      BY <2>15, CasesAre
    <3> QED
      BY <1>6, <1>8, <1>9, <1>14, <2>15, <3>1, Step10_15
  <2>16. CASE c = 16 /\ X = 1
    <3>1. c8 = 14
      BY <2>16, CasesAre
    <3> QED
      BY <1>6, <1>8, <1>9, <1>14, <2>16, <3>1, Step10_16
  <2>17. CASE c = 17 /\ X = 1
    <3>1. c8 = 14
      BY <2>17, CasesAre
    <3> QED
      BY <1>6, <1>8, <1>9, <1>14, <2>17, <3>1, Step10_17
  <2>18. CASE c = 18 /\ X = 1
    <3>1. c8 = 14
      BY <2>18, CasesAre
    <3> QED
      BY <1>6, <1>8, <1>9, <1>14, <2>18, <3>1, Step10_18
  <2>19. CASE c = 19 /\ X = 1
    <3>1. c8 = 15
      BY <2>19, CasesAre
    <3> QED
      BY <1>6, <1>8, <1>9, <1>14, <2>19, <3>1, Step10_19
  <2>20. CASE c = 20 /\ X = 1
    <3>1. c8 = 16
      BY <2>20, CasesAre
    <3> QED
      BY <1>6, <1>8, <1>9, <1>14, <2>20, <3>1, Step10_20
  <2>21. CASE c = 21 /\ X = 1
    <3>1. c8 = 16
      BY <2>21, CasesAre
    <3> QED
      BY <1>6, <1>8, <1>9, <1>14, <2>21, <3>1, Step10_21
  <2>22. CASE c = 22 /\ X = 1
    <3>1. c8 = 1
      BY <2>22, CasesAre
    <3> QED
      BY <1>6, <1>8, <1>9, <1>14, <2>22, <3>1, Step10_22
  <2>23. CASE c = 23 /\ X = 1
    <3>1. c8 = 2
      BY <2>23, CasesAre
    <3> QED
      BY <1>6, <1>8, <1>9, <1>14, <2>23, <3>1, Step10_23
  <2>24. CASE c = 24 /\ X = 1
    <3>1. c8 = 3
      BY <2>24, CasesAre
    <3> QED
      BY <1>6, <1>8, <1>9, <1>14, <2>24, <3>1, Step10_24
  <2>25. CASE c = 25 /\ X = 1
    <3>1. c8 = 4
      BY <2>25, CasesAre
    <3> QED
      BY <1>6, <1>8, <1>9, <1>14, <2>25, <3>1, Step10_25
  <2>26. CASE c = 26 /\ X = 1
    <3>1. c8 = 5
      BY <2>26, CasesAre
    <3> QED
      BY <1>6, <1>8, <1>9, <1>14, <2>26, <3>1, Step10_26
  <2>27. CASE c = 27 /\ X = 1
    <3>1. c8 = 6
      BY <2>27, CasesAre
    <3> QED
      BY <1>6, <1>8, <1>9, <1>14, <2>27, <3>1, Step10_27
  <2>28. CASE c = 28 /\ X = 1
    <3>1. c8 = 7
      BY <2>28, CasesAre
    <3> QED
      BY <1>6, <1>8, <1>9, <1>14, <2>28, <3>1, Step10_28
  <2>29. CASE c = 29 /\ X = 1
    <3>1. c8 = 11
      BY <2>29, CasesAre
    <3> QED
      BY <1>6, <1>8, <1>9, <1>14, <2>29, <3>1, Step10_29
  <2>30. CASE c = 30 /\ X = 1
    <3>1. c8 = 12
      BY <2>30, CasesAre
    <3> QED
      BY <1>6, <1>8, <1>9, <1>14, <2>30, <3>1, Step10_30
  <2>31. CASE c = 31 /\ X = 1
    <3>1. c8 = 15
      BY <2>31, CasesAre
    <3> QED
      BY <1>6, <1>8, <1>9, <1>14, <2>31, <3>1, Step10_31
  <2>32. CASE c = 1 /\ X = 2
    <3>1. c8 = 3
      BY <2>32, CasesAre
    <3> QED
      BY <1>6, <1>8, <1>9, <1>14, <2>32, <3>1, Step10_32
  <2>33. CASE c = 2 /\ X = 2
    <3>1. c8 = 4
      BY <2>33, CasesAre
    <3> QED
      BY <1>6, <1>8, <1>9, <1>14, <2>33, <3>1, Step10_33
  <2>34. CASE c = 3 /\ X = 2
    <3>1. c8 = 7
      BY <2>34, CasesAre
    <3> QED
      BY <1>6, <1>8, <1>9, <1>14, <2>34, <3>1, Step10_34
  <2>35. CASE c = 4 /\ X = 2
    <3>1. c8 = 8
      BY <2>35, CasesAre
    <3> QED
      BY <1>6, <1>8, <1>9, <1>14, <2>35, <3>1, Step10_35
  <2>36. CASE c = 5 /\ X = 2
    <3>1. c8 = 8
      BY <2>36, CasesAre
    <3> QED
      BY <1>6, <1>8, <1>9, <1>14, <2>36, <3>1, Step10_36
  <2>37. CASE c = 6 /\ X = 2
    <3>1. c8 = 9
      BY <2>37, CasesAre
    <3> QED
      BY <1>6, <1>8, <1>9, <1>14, <2>37, <3>1, Step10_37
  <2>38. CASE c = 7 /\ X = 2
    <3>1. c8 = 9
      BY <2>38, CasesAre
    <3> QED
      BY <1>6, <1>8, <1>9, <1>14, <2>38, <3>1, Step10_38
  <2>39. CASE c = 8 /\ X = 2
    <3>1. c8 = 9
      BY <2>39, CasesAre
    <3> QED
      BY <1>6, <1>8, <1>9, <1>14, <2>39, <3>1, Step10_39
  <2>40. CASE c = 9 /\ X = 2
    <3>1. c8 = 10
      BY <2>40, CasesAre
    <3> QED
      BY <1>6, <1>8, <1>9, <1>14, <2>40, <3>1, Step10_40
  <2>41. CASE c = 10 /\ X = 2
    <3>1. c8 = 10
      BY <2>41, CasesAre
    <3> QED
      BY <1>6, <1>8, <1>9, <1>14, <2>41, <3>1, Step10_41
  <2>42. CASE c = 11 /\ X = 2
    <3>1. c8 = 10
      BY <2>42, CasesAre
    <3> QED
      BY <1>6, <1>8, <1>9, <1>14, <2>42, <3>1, Step10_42
  <2>43. CASE c = 12 /\ X = 2
    <3>1. c8 = 11
      BY <2>43, CasesAre
    <3> QED
      BY <1>6, <1>8, <1>9, <1>14, <2>43, <3>1, Step10_43
  <2>44. CASE c = 13 /\ X = 2
    <3>1. c8 = 13
      BY <2>44, CasesAre
    <3> QED
      BY <1>6, <1>8, <1>9, <1>14, <2>44, <3>1, Step10_44
  <2>45. CASE c = 14 /\ X = 2
    <3>1. c8 = 13
      BY <2>45, CasesAre
    <3> QED
      BY <1>6, <1>8, <1>9, <1>14, <2>45, <3>1, Step10_45
  <2>46. CASE c = 15 /\ X = 2
    <3>1. c8 = 13
      BY <2>46, CasesAre
    <3> QED
      BY <1>6, <1>8, <1>9, <1>14, <2>46, <3>1, Step10_46
  <2>47. CASE c = 16 /\ X = 2
    <3>1. c8 = 14
      BY <2>47, CasesAre
    <3> QED
      BY <1>6, <1>8, <1>9, <1>14, <2>47, <3>1, Step10_47
  <2>48. CASE c = 17 /\ X = 2
    <3>1. c8 = 14
      BY <2>48, CasesAre
    <3> QED
      BY <1>6, <1>8, <1>9, <1>14, <2>48, <3>1, Step10_48
  <2>49. CASE c = 18 /\ X = 2
    <3>1. c8 = 14
      BY <2>49, CasesAre
    <3> QED
      BY <1>6, <1>8, <1>9, <1>14, <2>49, <3>1, Step10_49
  <2>50. CASE c = 19 /\ X = 2
    <3>1. c8 = 15
      BY <2>50, CasesAre
    <3> QED
      BY <1>6, <1>8, <1>9, <1>14, <2>50, <3>1, Step10_50
  <2>51. CASE c = 20 /\ X = 2
    <3>1. c8 = 16
      BY <2>51, CasesAre
    <3> QED
      BY <1>6, <1>8, <1>9, <1>14, <2>51, <3>1, Step10_51
  <2>52. CASE c = 21 /\ X = 2
    <3>1. c8 = 16
      BY <2>52, CasesAre
    <3> QED
      BY <1>6, <1>8, <1>9, <1>14, <2>52, <3>1, Step10_52
  <2> QED
    BY <1>4,
       <2>1, <2>2, <2>3, <2>4, <2>5, <2>6, <2>7, <2>8, <2>9,
       <2>10, <2>11, <2>12, <2>13, <2>14, <2>15, <2>16, <2>17, <2>18,
       <2>19, <2>20, <2>21, <2>22, <2>23, <2>24, <2>25, <2>26, <2>27,
       <2>28, <2>29, <2>30, <2>31, <2>32, <2>33, <2>34, <2>35, <2>36,
       <2>37, <2>38, <2>39, <2>40, <2>41, <2>42, <2>43, <2>44, <2>45,
       <2>46, <2>47, <2>48, <2>49, <2>50, <2>51, <2>52
<1> QED
  BY <1>8, <1>15 DEF u, v, y

-----------------------------------------------------------------------------
(* What the Make functions are called for.                               *)

\* Make3OptMove.
LEMMA Right6 ==
    ASSUME NEW s, Chosen(s, 6), NEW c, Orders6(s, c), c \in {1, 2, 5, 6}
    PROVE  Right(s, Make3OptMove(c))
<1>1. CASE c = 1
  BY <1>1, Move6_1
<1>2. CASE c = 2
  BY <1>2, Move6_2
<1>3. CASE c = 5
  BY <1>3, Move6_5
<1>4. CASE c = 6
  BY <1>4, Move6_6
<1> QED
  BY <1>1, <1>2, <1>3, <1>4
     DEF Orders6

\* Make4OptMove.
LEMMA Right8 ==
    ASSUME NEW s, Chosen(s, 8), NEW c, Closed8(s, c)
    PROVE  Right(s, Make4OptMove(s, c))
<1>1. CASE c = 1
  BY <1>1, Move8_1
<1>2. CASE c = 2
  BY <1>2, Move8_2
<1>3. CASE c = 3
  BY <1>3, Move8_3
<1>4. CASE c = 4
  BY <1>4, Move8_4
<1>5. CASE c = 5
  BY <1>5, Move8_5
<1>6. CASE c = 6
  BY <1>6, Move8_6
<1>7. CASE c = 7
  BY <1>7, Move8_7
<1>8. CASE c = 11
  BY <1>8, Move8_11
<1>9. CASE c = 12
  BY <1>9, Move8_12
<1>10. CASE c = 15
  BY <1>10, Move8_15
<1> QED
  BY <1>1, <1>2, <1>3, <1>4, <1>5, <1>6, <1>7, <1>8, <1>9,
     <1>10
     DEF Closed8

\* Make5OptMove.
LEMMA Right10 ==
    ASSUME NEW s, Chosen(s, 10), NEW c, Orders10(s, c)
    PROVE  Right(s, Make5OptMove(s, c))
<1>1. CASE c = 1
  BY <1>1, Move10_1
<1>2. CASE c = 2
  BY <1>2, Move10_2
<1>3. CASE c = 3
  BY <1>3, Move10_3
<1>4. CASE c = 4
  BY <1>4, Move10_4
<1>5. CASE c = 5
  BY <1>5, Move10_5
<1>6. CASE c = 6
  BY <1>6, Move10_6
<1>7. CASE c = 7
  BY <1>7, Move10_7
<1>8. CASE c = 8
  BY <1>8, Move10_8
<1>9. CASE c = 9
  BY <1>9, Move10_9
<1>10. CASE c = 10
  BY <1>10, Move10_10
<1>11. CASE c = 11
  BY <1>11, Move10_11
<1>12. CASE c = 12
  BY <1>12, Move10_12
<1>13. CASE c = 13
  BY <1>13, Move10_13
<1>14. CASE c = 14
  BY <1>14, Move10_14
<1>15. CASE c = 15
  BY <1>15, Move10_15
<1>16. CASE c = 16
  BY <1>16, Move10_16
<1>17. CASE c = 17
  BY <1>17, Move10_17
<1>18. CASE c = 18
  BY <1>18, Move10_18
<1>19. CASE c = 19
  BY <1>19, Move10_19
<1>20. CASE c = 20
  BY <1>20, Move10_20
<1>21. CASE c = 21
  BY <1>21, Move10_21
<1>22. CASE c = 22
  BY <1>22, Move10_22
<1>23. CASE c = 23
  BY <1>23, Move10_23
<1>24. CASE c = 24
  BY <1>24, Move10_24
<1>25. CASE c = 25
  BY <1>25, Move10_25
<1>26. CASE c = 26
  BY <1>26, Move10_26
<1>27. CASE c = 27
  BY <1>27, Move10_27
<1>28. CASE c = 28
  BY <1>28, Move10_28
<1>29. CASE c = 29
  BY <1>29, Move10_29
<1>30. CASE c = 30
  BY <1>30, Move10_30
<1>31. CASE c = 31
  BY <1>31, Move10_31
<1>32. CASE c = 32
  BY <1>32, Move10_32
<1>33. CASE c = 33
  BY <1>33, Move10_33
<1>34. CASE c = 34
  BY <1>34, Move10_34
<1>35. CASE c = 35
  BY <1>35, Move10_35
<1>36. CASE c = 36
  BY <1>36, Move10_36
<1>37. CASE c = 37
  BY <1>37, Move10_37
<1>38. CASE c = 38
  BY <1>38, Move10_38
<1>39. CASE c = 39
  BY <1>39, Move10_39
<1>40. CASE c = 40
  BY <1>40, Move10_40
<1>41. CASE c = 41
  BY <1>41, Move10_41
<1>42. CASE c = 42
  BY <1>42, Move10_42
<1>43. CASE c = 43
  BY <1>43, Move10_43
<1>44. CASE c = 44
  BY <1>44, Move10_44
<1>45. CASE c = 45
  BY <1>45, Move10_45
<1>46. CASE c = 46
  BY <1>46, Move10_46
<1>47. CASE c = 47
  BY <1>47, Move10_47
<1>48. CASE c = 48
  BY <1>48, Move10_48
<1>49. CASE c = 49
  BY <1>49, Move10_49
<1>50. CASE c = 50
  BY <1>50, Move10_50
<1>51. CASE c = 51
  BY <1>51, Move10_51
<1>52. CASE c = 52
  BY <1>52, Move10_52
<1> QED
  BY <1>1, <1>2, <1>3, <1>4, <1>5, <1>6, <1>7, <1>8, <1>9,
     <1>10, <1>11, <1>12, <1>13, <1>14, <1>15, <1>16, <1>17, <1>18,
     <1>19, <1>20, <1>21, <1>22, <1>23, <1>24, <1>25, <1>26, <1>27,
     <1>28, <1>29, <1>30, <1>31, <1>32, <1>33, <1>34, <1>35, <1>36,
     <1>37, <1>38, <1>39, <1>40, <1>41, <1>42, <1>43, <1>44, <1>45,
     <1>46, <1>47, <1>48, <1>49, <1>50, <1>51, <1>52
     DEF Orders10

\* Best5OptMove closes a tour after t8 only in the orders that are closed.
LEMMA Closable8 ==
    ASSUME Chosen(t, 8), Orders8(t, case), opt = 5, Closable
    PROVE  Closed8(t, case)
<1>1. Len(t) = 8
  BY DEF Chosen
<1>2. /\ case \in {1, 2, 5, 6} \/ case \in {3, 4, 7} \/ case \in {11, 12, 15}
      /\ case \in {3, 11} => BETWEEN(t[5], t[7], t[4])
      /\ case \in {4, 12} => ~BETWEEN(t[6], t[7], t[1])
      /\ case \in {7, 15} => BETWEEN(t[2], t[7], t[3])
  <2>1. case \in 1..16
    BY DEF Orders8
  <2> DEFINE case6 == IF case > 8 THEN case - 8 ELSE case
  <2>2. (CASE case6 = 3 -> BETWEEN(t[5], t[7], t[4])
           [] case6 = 4 -> ~BETWEEN(t[6], t[7], t[1])
           [] case6 = 7 -> BETWEEN(t[2], t[7], t[3])
           [] OTHER -> case \in 1..7)
    BY <1>1 DEF Closable
  <2>3. /\ case6 = 3 => BETWEEN(t[5], t[7], t[4])
        /\ case6 = 4 => ~BETWEEN(t[6], t[7], t[1])
        /\ case6 = 7 => BETWEEN(t[2], t[7], t[3])
        /\ case6 \notin {3, 4, 7} => case \in 1..7
    BY <2>2
  <2>4. case \in {3, 11} <=> case6 = 3
    BY <2>1
  <2>5. case \in {4, 12} <=> case6 = 4
    BY <2>1
  <2>6. case \in {7, 15} <=> case6 = 7
    BY <2>1
  <2>7. case6 \notin {3, 4, 7} /\ case \in 1..7 => case \in {1, 2, 5, 6}
    BY <2>1
  <2> QED
    BY <2>3, <2>4, <2>5, <2>6, <2>7
<1>3. /\ t[1] = N /\ t[2] = 1 /\ t[3] \in Node /\ t[4] \in Node /\ t[5] \in Node
      /\ t[6] \in Node /\ t[7] \in Node /\ t[8] \in Node
  BY Exchange8 DEF Chosen
<1>4. CASE case = 1
  BY <1>4 DEF Orders8, Closed8
<1>5. CASE case = 2
  BY <1>5 DEF Orders8, Closed8
<1>6. CASE case = 5
  BY <1>6 DEF Orders8, Closed8
<1>7. CASE case = 6
  BY <1>7 DEF Orders8, Closed8
<1>8. CASE case = 3
  <2>1. \/ Line8(t, 2,6, 5,7, 8,4, 3,1)
        \/ Line8(t, 2,7, 8,6, 5,4, 3,1)
    BY <1>8 DEF Orders8
  <2>2. Line8(t, 2,6, 5,7, 8,4, 3,1)
    BY <1>2, <1>3, <1>8, <2>1, NodesAre DEF Line8, BETWEEN, Node
  <2> QED
    BY <1>8, <2>2 DEF Closed8
<1>9. CASE case = 4
  <2>1. \/ Line8(t, 2,4, 3,5, 6,8, 7,1)
        \/ Line8(t, 2,4, 3,8, 7,5, 6,1)
        \/ Line8(t, 2,7, 8,4, 3,5, 6,1)
    BY <1>9 DEF Orders8
  <2>2. \/ Line8(t, 2,4, 3,8, 7,5, 6,1)
        \/ Line8(t, 2,7, 8,4, 3,5, 6,1)
    BY <1>2, <1>3, <1>9, <2>1, NodesAre DEF Line8, BETWEEN, Node
  <2> QED
    BY <1>9, <2>2 DEF Closed8
<1>10. CASE case = 7
  <2>1. \/ Line8(t, 2,3, 4,7, 8,6, 5,1)
        \/ Line8(t, 2,7, 8,3, 4,6, 5,1)
    BY <1>10 DEF Orders8
  <2>2. Line8(t, 2,7, 8,3, 4,6, 5,1)
    BY <1>2, <1>3, <1>10, <2>1, NodesAre DEF Line8, BETWEEN, Node
  <2> QED
    BY <1>10, <2>2 DEF Closed8
<1>11. CASE case = 11
  <2>1. \/ Line8(t, 2,6, 5,4, 3,8, 7,1)
        \/ Line8(t, 2,6, 5,8, 7,4, 3,1)
    BY <1>11 DEF Orders8
  <2>2. Line8(t, 2,6, 5,8, 7,4, 3,1)
    BY <1>2, <1>3, <1>11, <2>1, NodesAre DEF Line8, BETWEEN, Node
  <2> QED
    BY <1>11, <2>2 DEF Closed8
<1>12. CASE case = 12
  BY <1>12 DEF Orders8, Closed8
<1>13. CASE case = 15
  <2>1. \/ Line8(t, 2,3, 4,6, 5,8, 7,1)
        \/ Line8(t, 2,8, 7,3, 4,6, 5,1)
    BY <1>13 DEF Orders8
  <2>2. Line8(t, 2,8, 7,3, 4,6, 5,1)
    BY <1>2, <1>3, <1>13, <2>1, NodesAre DEF Line8, BETWEEN, Node
  <2> QED
    BY <1>13, <2>2 DEF Closed8
<1> QED
  BY <1>2, <1>4, <1>5, <1>6, <1>7, <1>8, <1>9, <1>10, <1>11, <1>12, <1>13

-----------------------------------------------------------------------------
(* The inductive invariant.                                              *)

\* t1, ..., t2k lie on the tour as the case says.
Placed ==
    /\ Len(t) = 4 => Orders4(t, case)
    /\ Len(t) = 6 => Orders6(t, case) /\ (opt = 4 => case # 8)
    /\ Len(t) = 8 => IF opt = 4 THEN Closed8(t, case) ELSE Orders8(t, case)
    /\ Len(t) = 10 => Orders10(t, case)

\* What is left of the arguments is an end of a sequence that leads to the exchange.
OnTheWay ==
    \E w \in Seq(Nat), K \in 1..5, J \in 0..4 :
        /\ Len(w) = 3 * K /\ J < K
        /\ swaps = SubSeq(w, 3 * J + 1, 3 * K)
        /\ Leads(tour, t, w, 3 * J + 1)

IInv ==
    /\ opt \in 2..5 /\ t \in Seq(Node)
    /\ Len(t) \in {2, 4, 6, 8, 10} /\ Chosen(t, Len(t))
    /\ Placed
    /\ pc \in {"choose", "swap", "made"}
    /\ pc = "choose" => tour = Start
    /\ pc = "swap" => OnTheWay
    /\ pc = "made" => TourEdges(tour) = Exchanged(Removed(t), Added(t))

\* It holds when a Best function is called.
LEMMA InitIInv == Init => IInv
<1> SUFFICES ASSUME Init PROVE IInv
  OBVIOUS
<1>1. opt \in 2..5
  BY MoveTypesAssumption DEF Init
<1>2. t \in Seq(Node) /\ Len(t) = 2 /\ t[1] = N /\ t[2] = 1
  BY NodesAre DEF Init
<1>3. Chosen(t, 2)
  BY <1>2 DEF Chosen
<1>4. tour = Start /\ pc = "choose"
  BY DEF Init, Start
<1> QED
  BY <1>1, <1>2, <1>3, <1>4 DEF IInv, Placed

\* The choice of two more nodes keeps it: this is where the cases come from.
LEMMA ChooseKeepsIInv == IInv /\ ChooseNext => IInv'
<1> SUFFICES ASSUME IInv, ChooseNext PROVE IInv'
  OBVIOUS
<1>1. /\ opt \in 2..5 /\ t \in Seq(Node) /\ Len(t) \in {2, 4, 6, 8, 10}
      /\ Chosen(t, Len(t)) /\ Placed /\ tour = Start
  BY DEF IInv, ChooseNext
<1>2. Len(t) < 2 * opt /\ pc = "choose" /\ opt' = opt /\ pc' = pc /\ tour' = tour
  BY DEF ChooseNext
<1>3. PICK x \in Candidates(t) :
          \E e \in Ends(Append(t, x)) : t' = Append(Append(t, x), e[1]) /\ case' = e[2]
  BY DEF ChooseNext
<1>4. PICK e \in Ends(Append(t, x)) : t' = Append(Append(t, x), e[1]) /\ case' = e[2]
  BY <1>3
<1>5. Len(Append(t, x)) = Len(t) + 1
  BY <1>1, CandidatesAre
<1> DEFINE n == Len(t)
<1>6. /\ t' \in Seq(Node) /\ n \in {2, 4, 6, 8} /\ Chosen(t', n + 2)
      /\ n = 2 => Orders4(t', case')
      /\ n = 4 => Orders6(t', case') /\ (opt = 4 => case' # 8)
      /\ n = 6 => IF opt = 4 THEN Closed8(t', case') ELSE Orders8(t', case')
      /\ n = 8 => Orders10(t', case')
  <2>1. CASE n = 2
    <3>1. e \in Ends4(Append(t, x))
      BY <1>5, <2>1 DEF Ends
    <3> QED
      BY <1>1, <1>4, <2>1, <3>1, Choose4
  <2>2. CASE n = 4
    <3>1. e \in Ends6(Append(t, x))
      BY <1>5, <2>2 DEF Ends
    <3>2. Orders4(t, case)
      BY <1>1, <2>2 DEF Placed
    <3> QED
      BY <1>1, <1>4, <2>2, <3>1, <3>2, Choose6
  <2>3. CASE n = 6
    <3>1. e \in Ends8(Append(t, x), case)
      BY <1>5, <2>3 DEF Ends
    <3>2. Orders6(t, case) /\ (opt = 4 => case # 8)
      BY <1>1, <2>3 DEF Placed
    <3>3. CASE opt = 4
      BY <1>1, <1>4, <2>3, <3>1, <3>2, <3>3, Choose8Of4
    <3>4. CASE opt # 4
      BY <1>1, <1>4, <2>3, <3>1, <3>2, <3>4, Choose8Of5
    <3> QED
      BY <3>3, <3>4
  <2>4. CASE n = 8
    <3>1. e \in Ends10(Append(t, x), case)
      BY <1>5, <2>4 DEF Ends
    <3>2. Orders8(t, case)
      BY <1>1, <1>2, <2>4 DEF Placed
    <3> QED
      BY <1>1, <1>4, <2>4, <3>1, <3>2, Choose10
  <2>5. n \in {2, 4, 6, 8}
    <3>1. \A k \in {2, 4, 6, 8, 10}, l \in 2..5 : k < 2 * l => k \in {2, 4, 6, 8}
      OBVIOUS
    <3> QED
      BY <1>1, <1>2, <3>1, Zenon
  <2> HIDE DEF n
  <2> QED
    BY <2>1, <2>2, <2>3, <2>4, <2>5
<1>7. Len(t') = n + 2
  BY <1>6 DEF Chosen
<1> HIDE DEF n
<1>8. Placed'
  BY <1>2, <1>6, <1>7 DEF Placed
<1> QED
  BY <1>1, <1>2, <1>6, <1>7, <1>8 DEF IInv

\* The arguments that a Make function hands to Swap2, ... are right.
LEMMA MakeIsRight ==
    ASSUME IInv, Len(t) > 2, Closable
    PROVE  Right(t, Make)
<1>1. /\ opt \in 2..5 /\ Len(t) \in {4, 6, 8, 10} /\ Chosen(t, Len(t)) /\ Placed
  <2>1. opt \in 2..5 /\ Len(t) \in {2, 4, 6, 8, 10} /\ Chosen(t, Len(t)) /\ Placed
    BY DEF IInv
  <2>2. \A k \in {2, 4, 6, 8, 10} : k > 2 => k \in {4, 6, 8, 10}
    OBVIOUS
  <2> QED
    BY <2>1, <2>2, Zenon
<1>2. CASE Len(t) = 4
  <2>1. case = 1
    BY <1>2 DEF Closable
  <2>2. Orders4(t, 1) /\ Make = Make2OptMove
    BY <1>1, <1>2, <2>1 DEF Placed, Make
  <2> QED
    BY <1>1, <1>2, <2>2, Move4_1
<1>3. CASE Len(t) = 6
  <2>1. case \in {1, 2, 5, 6}
    BY <1>3 DEF Closable
  <2>2. Orders6(t, case) /\ Make = Make3OptMove(case)
    BY <1>1, <1>3 DEF Placed, Make
  <2> QED
    BY <1>1, <1>3, <2>1, <2>2, Right6
<1>4. CASE Len(t) = 8
  <2>1. opt \in {4, 5}
    BY <1>1, <1>4 DEF Closable
  <2>2. Closed8(t, case)
    BY <1>1, <1>4, <2>1, Closable8 DEF Placed
  <2>3. Make = Make4OptMove(t, case)
    BY <1>4 DEF Make
  <2> QED
    BY <1>1, <1>4, <2>2, <2>3, Right8
<1>5. CASE Len(t) = 10
  <2>1. Orders10(t, case) /\ Make = Make5OptMove(t, case)
    BY <1>1, <1>5 DEF Placed, Make
  <2> QED
    BY <1>1, <1>5, <2>1, Right10
<1> QED
  BY <1>1, <1>2, <1>3, <1>4, <1>5

\* The call of a Make function keeps it.
LEMMA MakeKeepsIInv == IInv /\ MakeMove => IInv'
<1> SUFFICES ASSUME IInv, MakeMove PROVE IInv'
  OBVIOUS
<1>1. /\ Len(t) > 2 /\ Closable /\ pc = "choose"
      /\ swaps' = Make /\ pc' = IF Make = <<>> THEN "error" ELSE "swap"
      /\ opt' = opt /\ t' = t /\ case' = case /\ tour' = tour /\ tour = Start
  BY DEF MakeMove, IInv
<1> DEFINE w == Make
<1>2. w \in Seq(Nat) /\ Len(w) \in {3, 6, 9, 12, 15} /\ Leads(Start, t, w, 1)
  BY <1>1, MakeIsRight DEF Right
<1> HIDE DEF w
<1>3. PICK K \in 1..5 : Len(w) = 3 * K
  <2>1. CASE Len(w) = 3
    BY <2>1
  <2>2. CASE Len(w) = 6
    BY <2>2
  <2>3. CASE Len(w) = 9
    BY <2>3
  <2>4. CASE Len(w) = 12
    BY <2>4
  <2>5. CASE Len(w) = 15
    BY <2>5
  <2> QED
    BY <1>2, <2>1, <2>2, <2>3, <2>4, <2>5
<1>4. SubSeq(w, 1, 3 * K) = w
  BY <1>2, <1>3
<1>5. w # <<>>
  <2>1. Len(<<>>) = 0 /\ 0 \notin {3, 6, 9, 12, 15}
    BY EmptySeq
  <2> QED
    BY <1>2, <2>1, Zenon
<1>6. swaps' = w /\ pc' = "swap"
  BY <1>1, <1>5 DEF w
<1>7. OnTheWay'
  <2>1. /\ Len(w) = 3 * K /\ 0 < K
        /\ swaps' = SubSeq(w, 3 * 0 + 1, 3 * K)
        /\ Leads(tour', t', w, 3 * 0 + 1)
    BY <1>1, <1>2, <1>3, <1>4, <1>6
  <2>2. 0 \in 0..4
    OBVIOUS
  <2> QED
    BY <1>2, <2>1, <2>2 DEF OnTheWay
<1> QED
  BY <1>1, <1>6, <1>7 DEF IInv, Placed

\* The first three of the arguments, and the rest.
LEMMA NextSwap ==
    ASSUME NEW w \in Seq(Nat), NEW K \in 1..5, NEW J \in 0..4,
           Len(w) = 3 * K, J < K
    PROVE  LET q == SubSeq(w, 3 * J + 1, 3 * K)
           IN  /\ q[1] = w[3 * J + 1] /\ q[2] = w[3 * J + 2] /\ q[3] = w[3 * J + 3]
               /\ SubSeq(q, 4, Len(q)) = SubSeq(w, 3 * (J + 1) + 1, 3 * K)
               /\ SubSeq(q, 4, Len(q)) = <<>> <=> J + 1 = K
<1> DEFINE m == 3 * J + 1
           q == SubSeq(w, m, 3 * K)
           p == SubSeq(q, 4, Len(q))
           r == SubSeq(w, 3 * (J + 1) + 1, 3 * K)
<1>1. m \in Int /\ 3 * K \in Int /\ \A i \in m..(3 * K) : w[i] \in Nat
  OBVIOUS
<1>2. /\ q \in Seq(Nat) /\ Len(q) = 3 * K - m + 1
      /\ \A i \in 1..(3 * K - m + 1) : q[i] = w[m + i - 1]
  <2>1. m <= 3 * K
    OBVIOUS
  <2> HIDE DEF m
  <2> QED
    BY <1>1, <2>1, SubSeqProperties
<1>3. q[1] = w[m] /\ q[2] = w[m + 1] /\ q[3] = w[m + 2] /\ Len(q) = 3 * (K - J)
  BY <1>2
<1> HIDE DEF q
<1>4. \A i \in 4..Len(q) : q[i] \in Nat
  <2>1. q \in Seq(Nat)
    BY <1>2
  <2> QED
    BY <2>1, ElementOfSeq
<1>5. Len(q) \in Int /\ 4 \in Int
  BY <1>2
<1>6. /\ p \in Seq(Nat) /\ Len(p) = IF 4 <= Len(q) THEN Len(q) - 4 + 1 ELSE 0
      /\ \A i \in 1..(Len(q) - 4 + 1) : p[i] = q[4 + i - 1]
  BY <1>4, <1>5, SubSeqProperties
<1>7. 3 * (J + 1) + 1 \in Int /\ \A i \in (3 * (J + 1) + 1)..(3 * K) : w[i] \in Nat
  OBVIOUS
<1> DEFINE l == 3 * (J + 1) + 1
<1>8. /\ r \in Seq(Nat) /\ Len(r) = IF l <= 3 * K THEN 3 * K - l + 1 ELSE 0
      /\ \A i \in 1..(3 * K - l + 1) : r[i] = w[l + i - 1]
  <2> HIDE DEF l
  <2> QED
    BY <1>1, <1>7, SubSeqProperties DEF l
<1> HIDE DEF p, r
<1>9. Len(p) = Len(r) /\ Len(p) = 3 * (K - J - 1)
  BY <1>3, <1>6, <1>8
<1>10. \A i \in 1..Len(p) : p[i] = r[i]
  <2> SUFFICES ASSUME NEW i \in 1..Len(p) PROVE p[i] = r[i]
    OBVIOUS
  <2>1. i \in 1..(Len(q) - 3) /\ i + 3 \in 1..Len(q) /\ Len(q) = 3 * K - m + 1
    BY <1>2, <1>3, <1>9
  <2>2. p[i] = q[i + 3]
    BY <1>6, <2>1
  <2>3. q[i + 3] = w[m + i + 2]
    BY <1>2, <2>1
  <2>4. r[i] = w[l + i - 1] /\ l + i - 1 = m + i + 2
    BY <1>8, <1>9
  <2> QED
    BY <2>2, <2>3, <2>4
<1>11. p = r
  BY <1>6, <1>8, <1>9, <1>10, SeqEqual
<1>12. p = <<>> <=> J + 1 = K
  BY <1>6, <1>9, EmptySeq
<1>13. q[1] = w[3 * J + 1] /\ q[2] = w[3 * J + 2] /\ q[3] = w[3 * J + 3]
  <2>1. m + 1 = 3 * J + 2 /\ m + 2 = 3 * J + 3
    OBVIOUS
  <2> QED
    BY <1>3, <2>1
<1> QED
  BY <1>11, <1>12, <1>13 DEF p, q, r

\* A 2-opt move keeps it; after the last one the exchange is made.
LEMMA SwapKeepsIInv == IInv /\ Swap1 => IInv'
<1> SUFFICES ASSUME IInv, Swap1 PROVE IInv'
  OBVIOUS
<1>1. /\ pc = "swap" /\ swaps' = SubSeq(swaps, 4, Len(swaps))
      /\ tour' = Flip(tour, t[swaps[1]], t[swaps[2]], t[swaps[3]])
      /\ pc' = IF swaps' = <<>> THEN "made" ELSE "swap"
      /\ opt' = opt /\ t' = t /\ case' = case
  BY DEF Swap1
<1>2. PICK w \in Seq(Nat), K \in 1..5, J \in 0..4 :
          /\ Len(w) = 3 * K /\ J < K
          /\ swaps = SubSeq(w, 3 * J + 1, 3 * K)
          /\ Leads(tour, t, w, 3 * J + 1)
  BY <1>1 DEF IInv, OnTheWay
<1>3. /\ swaps[1] = w[3 * J + 1] /\ swaps[2] = w[3 * J + 1 + 1]
      /\ swaps[3] = w[3 * J + 1 + 2]
      /\ swaps' = SubSeq(w, 3 * (J + 1) + 1, 3 * K)
      /\ swaps' = <<>> <=> J + 1 = K
  <2>1. 3 * J + 1 + 1 = 3 * J + 2 /\ 3 * J + 1 + 2 = 3 * J + 3
    OBVIOUS
  <2>2. /\ swaps[1] = w[3 * J + 1] /\ swaps[2] = w[3 * J + 2] /\ swaps[3] = w[3 * J + 3]
        /\ SubSeq(swaps, 4, Len(swaps)) = SubSeq(w, 3 * (J + 1) + 1, 3 * K)
        /\ SubSeq(swaps, 4, Len(swaps)) = <<>> <=> J + 1 = K
    BY <1>2, NextSwap
  <2> QED
    BY <1>1, <2>1, <2>2
<1>4. Leads(tour', t, w, 3 * (J + 1) + 1)
  <2>1. ~(3 * J + 1 > Len(w)) /\ 3 * J + 1 + 3 = 3 * (J + 1) + 1
    BY <1>2
  <2> QED
    BY <1>1, <1>2, <1>3, <2>1, LeadsOn DEF Turn
<1>5. CASE J + 1 = K
  <2>1. 3 * (J + 1) + 1 > Len(w)
    BY <1>2, <1>5
  <2>2. TourEdges(tour') = Exchanged(Removed(t), Added(t))
    BY <1>4, <2>1, LeadsToExchange DEF Kept, Orig, Exchanged
  <2>3. pc' = "made"
    BY <1>1, <1>3, <1>5
  <2> QED
    BY <1>1, <2>2, <2>3 DEF IInv, Placed
<1>6. CASE J + 1 # K
  <2>1. J + 1 \in 0..4 /\ J + 1 < K
    BY <1>2, <1>6
  <2>2. OnTheWay'
    BY <1>1, <1>2, <1>3, <1>4, <2>1 DEF OnTheWay
  <2>3. pc' = "swap"
    BY <1>1, <1>3, <1>6
  <2> QED
    BY <1>1, <2>2, <2>3 DEF IInv, Placed
<1> QED
  BY <1>5, <1>6

\* So does a step that changes nothing.
LEMMA StutterKeepsIInv == IInv /\ UNCHANGED vars => IInv'
BY DEF IInv, Placed, OnTheWay, vars

\* The invariant says what is wanted.
LEMMA IInvImpliesMove == IInv => MoveIsTheExchange
<1> SUFFICES ASSUME IInv PROVE MoveIsTheExchange
  OBVIOUS
<1>1. ASSUME pc = "swap"
      PROVE  /\ Adjacent(tour, t[swaps[1]], t[swaps[2]])
             /\ swaps[3] # swaps[2] /\ t[swaps[3]] # t[swaps[2]]
  <2>1. PICK w \in Seq(Nat), K \in 1..5, J \in 0..4 :
            /\ Len(w) = 3 * K /\ J < K
            /\ swaps = SubSeq(w, 3 * J + 1, 3 * K)
            /\ Leads(tour, t, w, 3 * J + 1)
    BY <1>1 DEF IInv, OnTheWay
  <2>2. ~(3 * J + 1 > Len(w)) /\ 3 * J + 1 + 1 = 3 * J + 2 /\ 3 * J + 1 + 2 = 3 * J + 3
    BY <2>1
  <2>3. Fits(tour, t, w[3 * J + 1], w[3 * J + 2], w[3 * J + 3])
    BY <2>1, <2>2, LeadsOn
  <2>4. swaps[1] = w[3 * J + 1] /\ swaps[2] = w[3 * J + 2] /\ swaps[3] = w[3 * J + 3]
    BY <2>1, NextSwap
  <2> QED
    BY <2>3, <2>4 DEF Fits
<1> QED
  BY <1>1 DEF IInv, MoveIsTheExchange

\* Whatever nodes Best2OptMove, ..., Best5OptMove choose, and in whatever case they
\* end, Make2OptMove, ..., Make5OptMove know the case, each of the 2-opt moves they make
\* finds its nodes as Flip wants them, and after the last one the tour has lost the edges
\* (t1,t2), (t3,t4), ... and got (t2,t3), ..., (t2k,t1): the edges of the gain.
THEOREM MakesTheExchange == Spec => []MoveIsTheExchange
<1>1. Init => IInv
  BY InitIInv
<1>2. IInv /\ [Next]_vars => IInv'
  BY ChooseKeepsIInv, MakeKeepsIInv, SwapKeepsIInv, StutterKeepsIInv DEF Next
<1>3. IInv => MoveIsTheExchange
  BY IInvImpliesMove
<1> QED
  BY <1>1, <1>2, <1>3, PTL DEF Spec
====
