---------------------------- MODULE TreeTheorems ----------------------------
(***************************************************************************)
(* What the steps of TreeTour do to the pointer structure, for every       *)
(* number of items: walks along a list; lists cut into stretches, nodes    *)
(* held by segments; stretches turned over and runs of the ring turned     *)
(* around; and the updates in place of FlipNodes, SplitSegment and         *)
(* Flip_SL as functions of the structure before.                           *)
(***************************************************************************)
EXTENDS TreeTour, FiniteSetTheorems, TLAPS

\* s walks n items along f, the last of which it meets only at its end.
IsWalk(f, s, n) ==
    /\ s = [i \in 1..n |-> s[i]]
    /\ \A i \in 1..(n-1) : s[i+1] = f[s[i]] /\ s[i] # s[n]

\* Induction over the numbers, for a set: what holds at 0 and goes up by one holds
\* of all.  (Else the map i |-> i + 1 would be one-to-one on a finite set, and miss 0.)
LEMMA UpFromZero ==
    ASSUME NEW S, 0 \in S, \A n \in Nat : n \in S => n + 1 \in S
    PROVE  \A n \in Nat : n \in S
<1> SUFFICES ASSUME NEW m \in Nat, m \notin S PROVE FALSE
  OBVIOUS
<1> DEFINE A == {i \in 0..m : i \in S}
           f == [i \in A |-> i + 1]
<1>1. IsFiniteSet(A)
  <2>1. IsFiniteSet(0..m)
    BY FS_Interval
  <2> QED
    BY <2>1, FS_Subset
<1>2. \A i \in A : i \in Nat /\ i + 1 \in A
  OBVIOUS
<1>3. f \in [A -> A] /\ \A i, j \in A : f[i] = f[j] => i = j
  BY <1>2
<1>4. f \in Injection(A, A)
  BY <1>3 DEF Injection, IsInjective
<1>5. f \in Surjection(A, A)
  BY <1>1, <1>4, FS_Injection
<1>6. 0 \in A
  OBVIOUS
<1>7. \E i \in A : f[i] = 0
  BY <1>5, <1>6 DEF Surjection
<1> QED
  BY <1>2, <1>7

\* The recursive walk of TreeTour is the walk that IsWalk describes.
LEMMA PathIs ==
    ASSUME N \in Nat, NEW f, NEW n \in 1..N, NEW s, IsWalk(f, s, n)
    PROVE  Path(f, s[1], s[n]) = s
<1> DEFINE a == s[1]
           z == s[n]
           Rec(w) == [k \in 1..N |->
                        IF k = 1 THEN <<a>>
                        ELSE LET p == w[k-1] IN IF Last(p) = z THEN p ELSE Append(p, f[Last(p)])]
           upto(k) == IF k < n THEN k ELSE n
           W == [k \in 1..N |-> [i \in 1..upto(k) |-> s[i]]]
<1> HIDE DEF a, z, W
<1>0. n \in Nat /\ n >= 1 /\ 1 \in 1..N
  OBVIOUS
<1>1. ASSUME NEW k \in 1..N, k # 1
      PROVE  W[k] = IF Last(W[k-1]) = z THEN W[k-1] ELSE Append(W[k-1], f[Last(W[k-1])])
  <2>1. k - 1 \in 1..N /\ k \in Nat /\ upto(k-1) \in Nat /\ upto(k-1) >= 1
    BY <1>0, <1>1
  <2>2. W[k-1] = [i \in 1..upto(k-1) |-> s[i]]
    BY <2>1 DEF W
  <2>3. Len(W[k-1]) = upto(k-1) /\ Last(W[k-1]) = s[upto(k-1)]
    BY <2>1, <2>2 DEF Last
  <2>4. CASE k - 1 >= n
    <3>1. upto(k-1) = n /\ upto(k) = n
      BY <2>4, <2>1, <1>0
    <3> QED
      BY <3>1, <2>2, <2>3 DEF W, z
  <2>5. CASE k - 1 < n
    <3>1. upto(k-1) = k - 1 /\ upto(k) = k /\ k - 1 \in 1..(n-1)
      BY <2>5, <2>1, <1>0
    <3>2. s[k-1] # z /\ f[s[k-1]] = s[k]
      <4>1. (k - 1) + 1 = k
        BY <2>1
      <4>2. s[(k-1) + 1] = f[s[k-1]] /\ s[k-1] # s[n]
        BY <3>1 DEF IsWalk
      <4> QED
        BY <4>1, <4>2 DEF z
    <3>3. Append(W[k-1], s[k]) = [i \in 1..k |-> s[i]]
      BY <2>1, <2>2, <2>3, <3>1
    <3>4. W[k] = [i \in 1..k |-> s[i]]
      BY <3>1 DEF W
    <3>5. Last(W[k-1]) = s[k-1]
      BY <2>3, <3>1
    <3> QED
      BY <3>2, <3>3, <3>4, <3>5
  <2> QED
    BY <2>4, <2>5, <2>1, <1>0
<1>2. W[1] = <<a>>
  BY <1>0 DEF W, a
<1>3. W = Rec(W)
  <2>1. \A k \in 1..N : W[k] = Rec(W)[k]
    BY <1>1, <1>2
  <2>2. W = [k \in 1..N |-> W[k]]
    BY DEF W
  <2> HIDE DEF Rec
  <2>3. Rec(W) = [k \in 1..N |-> Rec(W)[k]]
    BY DEF Rec
  <2> QED
    BY <2>1, <2>2, <2>3
<1>4. Path(f, s[1], s[n]) = (CHOOSE w : w = Rec(w))[N]
  BY DEF Path, a, z
<1> DEFINE w == CHOOSE w : w = Rec(w)
<1>5. w = Rec(w)
  <2> HIDE DEF Rec
  <2>1. \E v : v = Rec(v)
    BY <1>3
  <2> QED
    BY <2>1
<1> HIDE DEF w
<1> DEFINE Eq == {k \in Nat : k + 1 \in 1..N => w[k+1] = W[k+1]}
<1>6. 0 \in Eq
  <2>1. w[1] = <<a>>
    BY <1>0, <1>5
  <2> QED
    BY <1>2, <2>1
<1>7. ASSUME NEW k \in Nat, k \in Eq PROVE k + 1 \in Eq
  <2> SUFFICES ASSUME k + 2 \in 1..N PROVE w[k+2] = W[k+2]
    OBVIOUS
  <2>1. w[k+1] = W[k+1] /\ k + 1 \in 1..N
    BY <1>7
  <2>2. k + 2 # 1 /\ (k + 2) - 1 = k + 1
    OBVIOUS
  <2>3. w[k+2] = IF Last(w[k+1]) = z THEN w[k+1] ELSE Append(w[k+1], f[Last(w[k+1])])
    BY <1>5, <2>2
  <2>4. W[k+2] = IF Last(W[k+1]) = z THEN W[k+1] ELSE Append(W[k+1], f[Last(W[k+1])])
    BY <1>1, <2>2
  <2> QED
    BY <2>1, <2>3, <2>4
<1>8. \A k \in Nat : k \in Eq
  <2> HIDE DEF Eq
  <2> QED
    BY <1>6, <1>7, UpFromZero
<1>9. w[N] = W[N]
  <2>1. N - 1 \in Eq
    BY <1>8, <1>0
  <2> QED
    BY <2>1, <1>0
<1>10. W[N] = s
  <2>1. W[N] = [i \in 1..n |-> s[i]]
    BY <1>0 DEF W
  <2> QED
    BY <2>1 DEF IsWalk
<1> QED
  BY <1>4, <1>9, <1>10 DEF w
-----------------------------------------------------------------------------
(* Lists in stretches. *)

\* The items I of T are held by the owners O, each a stretch of the list from its
\* first to its last item, with consecutive ranks.
Typed(T, I, O) ==
    \A x \in I : /\ T.suc[x] \in I /\ T.prd[x] \in I
                 /\ T.rank[x] \in Int /\ T.parent[x] \in O

\* An owner holds its first and its last item.
EndsHeld(T, I, O) ==
    \A P \in O : /\ T.first[P] \in I /\ T.parent[T.first[P]] = P
                 /\ T.last[P] \in I /\ T.parent[T.last[P]] = P

\* Size counts the ranks from First to Last.
Sized(T, O) ==
    \A P \in O : T.size[P] = T.rank[T.last[P]] - T.rank[T.first[P]] + 1

\* No item of an owner is ranked before First or after Last.
RankedFromFirst(T, I) ==
    \A x \in I : /\ T.rank[T.first[T.parent[x]]] <= T.rank[x]
                 /\ T.rank[x] <= T.rank[T.last[T.parent[x]]]

\* Two items of one owner have different ranks.
RankedOnce(T, I) ==
    \A x, y \in I : T.parent[x] = T.parent[y] /\ T.rank[x] = T.rank[y] => x = y

\* Before Last, the successor has the next rank and the same owner.
UpToLast(T, I) ==
    \A x \in I : x # T.last[T.parent[x]] =>
                     T.parent[T.suc[x]] = T.parent[x] /\ T.rank[T.suc[x]] = T.rank[x] + 1

\* After First, the predecessor has the rank before and the same owner.
DownToFirst(T, I) ==
    \A x \in I : x # T.first[T.parent[x]] =>
                     T.parent[T.prd[x]] = T.parent[x] /\ T.rank[T.prd[x]] = T.rank[x] - 1

Stretches(T, I, O) ==
    /\ Typed(T, I, O) /\ EndsHeld(T, I, O) /\ Sized(T, O)
    /\ RankedFromFirst(T, I) /\ RankedOnce(T, I) /\ UpToLast(T, I) /\ DownToFirst(T, I)

\* The stretches in B are read backwards.
Forth(T, B, x) == IF T.parent[x] \in B THEN T.prd[x] ELSE T.suc[x]
Back(T, B, x) == IF T.parent[x] \in B THEN T.suc[x] ELSE T.prd[x]

\* The items at which an owner's stretch is entered and left.
Entry(T, B, P) == IF P \in B THEN T.last[P] ELSE T.first[P]
Exit(T, B, P) == IF P \in B THEN T.first[P] ELSE T.last[P]

\* Read so, each stretch is followed by that of the next owner: nx and pv are the
\* ring of owners and its inverse.
Linked(O, nx, pv) ==
    \A P \in O : nx[P] \in O /\ pv[P] \in O /\ nx[P] # P /\ pv[nx[P]] = P /\ nx[pv[P]] = P

\* From an exit the list leads to the entry of the owner that is next in the ring.
Joined(T, O, B, nx, pv) ==
    \A P \in O : /\ Forth(T, B, Exit(T, B, P)) = Entry(T, B, nx[P])
                 /\ Back(T, B, Entry(T, B, P)) = Exit(T, B, pv[P])

\* One level of the tree, read with B: stretches in a ring.
Level(T, I, O, B, nx, pv) == Stretches(T, I, O) /\ Linked(O, nx, pv) /\ Joined(T, O, B, nx, pv)

\* Both trees are read as the same list.
SameReading(T, B, U, C, I) ==
    \A x \in I : Forth(U, C, x) = Forth(T, B, x) /\ Back(U, C, x) = Back(T, B, x)

-----------------------------------------------------------------------------
(* A stretch may be written down in the other direction. *)

\* The bits of S are toggled.
Toggled(B, S) == (B \ S) \cup (S \ B)

\* The stretches of S are written the other way: links, ends and ranks.
TurnedOver(T, U, I, O, S, c) ==
    /\ \A x \in I :
          /\ U.suc[x] = IF T.parent[x] \in S THEN T.prd[x] ELSE T.suc[x]
          /\ U.prd[x] = IF T.parent[x] \in S THEN T.suc[x] ELSE T.prd[x]
          /\ U.rank[x] = IF T.parent[x] \in S THEN c - T.rank[x] ELSE T.rank[x]
          /\ U.parent[x] = T.parent[x]
    /\ \A P \in O :
          /\ U.first[P] = IF P \in S THEN T.last[P] ELSE T.first[P]
          /\ U.last[P] = IF P \in S THEN T.first[P] ELSE T.last[P]
          /\ U.size[P] = T.size[P]

\* They are stretches still.
LEMMA TurnOverStretches ==
    ASSUME NEW T, NEW U, NEW I, NEW O, NEW S, NEW c \in Int, Stretches(T, I, O), TurnedOver(T, U, I, O, S, c)
    PROVE  Stretches(U, I, O)
<1>1. /\ \A x \in I : T.suc[x] \in I /\ T.prd[x] \in I /\ T.rank[x] \in Int /\ T.parent[x] \in O
      /\ \A P \in O : /\ T.first[P] \in I /\ T.parent[T.first[P]] = P
                      /\ T.last[P] \in I /\ T.parent[T.last[P]] = P
  BY DEF Stretches, Typed, EndsHeld
<1>2. Typed(U, I, O)
  BY <1>1 DEF Typed, TurnedOver
<1>3. EndsHeld(U, I, O)
  BY <1>1 DEF EndsHeld, TurnedOver
<1>4. Sized(U, O)
  <2> SUFFICES ASSUME NEW P \in O PROVE U.size[P] = U.rank[U.last[P]] - U.rank[U.first[P]] + 1
    BY DEF Sized
  <2>1. T.size[P] = T.rank[T.last[P]] - T.rank[T.first[P]] + 1
    BY DEF Stretches, Sized
  <2>2. T.first[P] \in I /\ T.last[P] \in I /\ T.rank[T.first[P]] \in Int /\ T.rank[T.last[P]] \in Int
        /\ T.parent[T.first[P]] = P /\ T.parent[T.last[P]] = P
    BY <1>1
  <2>3. CASE P \in S
    BY <2>1, <2>2, <2>3 DEF TurnedOver
  <2>4. CASE P \notin S
    BY <2>1, <2>2, <2>4 DEF TurnedOver
  <2> QED
    BY <2>3, <2>4
<1>5. RankedFromFirst(U, I)
  <2> SUFFICES ASSUME NEW x \in I
               PROVE  /\ U.rank[U.first[U.parent[x]]] <= U.rank[x]
                      /\ U.rank[x] <= U.rank[U.last[U.parent[x]]]
    BY DEF RankedFromFirst
  <2> DEFINE P == T.parent[x]
  <2>1. P \in O /\ T.rank[T.first[P]] <= T.rank[x] /\ T.rank[x] <= T.rank[T.last[P]]
    BY <1>1 DEF Stretches, RankedFromFirst
  <2>2. /\ T.first[P] \in I /\ T.parent[T.first[P]] = P /\ T.rank[T.first[P]] \in Int
        /\ T.last[P] \in I /\ T.parent[T.last[P]] = P /\ T.rank[T.last[P]] \in Int
        /\ T.rank[x] \in Int
    BY <1>1, <2>1
  <2>3. U.parent[x] = P
    BY DEF TurnedOver
  <2>4. CASE P \in S
    BY <2>1, <2>2, <2>3, <2>4 DEF TurnedOver
  <2>5. CASE P \notin S
    BY <2>1, <2>2, <2>3, <2>5 DEF TurnedOver
  <2> QED
    BY <2>4, <2>5
<1>6. RankedOnce(U, I)
  <2> SUFFICES ASSUME NEW x \in I, NEW y \in I, U.parent[x] = U.parent[y], U.rank[x] = U.rank[y]
               PROVE  x = y
    BY DEF RankedOnce
  <2> DEFINE P == T.parent[x]
  <2>1. T.parent[y] = P /\ T.rank[x] \in Int /\ T.rank[y] \in Int
    BY <1>1 DEF TurnedOver
  <2>2. U.rank[x] = (IF P \in S THEN c - T.rank[x] ELSE T.rank[x])
        /\ U.rank[y] = (IF P \in S THEN c - T.rank[y] ELSE T.rank[y])
    BY <2>1 DEF TurnedOver
  <2>3. T.rank[x] = T.rank[y]
    <3> HIDE DEF P
    <3>1. CASE P \in S
      <4>1. c - T.rank[x] = c - T.rank[y]
        BY <2>2, <3>1
      <4> QED
        BY <2>1, <4>1
    <3>2. CASE P \notin S
      BY <2>2, <3>2
    <3> QED
      BY <3>1, <3>2
  <2> QED
    BY <2>1, <2>3 DEF Stretches, RankedOnce
<1>7. /\ \A x \in I : /\ U.parent[x] = T.parent[x]
                      /\ U.suc[x] = IF T.parent[x] \in S THEN T.prd[x] ELSE T.suc[x]
                      /\ U.prd[x] = IF T.parent[x] \in S THEN T.suc[x] ELSE T.prd[x]
                      /\ U.rank[x] = IF T.parent[x] \in S THEN c - T.rank[x] ELSE T.rank[x]
      /\ \A P \in O : /\ U.first[P] = IF P \in S THEN T.last[P] ELSE T.first[P]
                      /\ U.last[P] = IF P \in S THEN T.first[P] ELSE T.last[P]
  BY DEF TurnedOver
<1>8. \A x \in I : x # T.last[T.parent[x]] =>
                     T.parent[T.suc[x]] = T.parent[x] /\ T.rank[T.suc[x]] = T.rank[x] + 1
  BY DEF Stretches, UpToLast
<1>9. \A x \in I : x # T.first[T.parent[x]] =>
                     T.parent[T.prd[x]] = T.parent[x] /\ T.rank[T.prd[x]] = T.rank[x] - 1
  BY DEF Stretches, DownToFirst
<1>10. UpToLast(U, I)
  <2> SUFFICES ASSUME NEW x \in I, x # U.last[T.parent[x]]
               PROVE  T.parent[U.suc[x]] = T.parent[x] /\ U.rank[U.suc[x]] = U.rank[x] + 1
    BY <1>1, <1>7 DEF UpToLast
  <2>1. CASE T.parent[x] \in S
    <3>1. T.parent[T.prd[x]] = T.parent[x] /\ T.rank[T.prd[x]] = T.rank[x] - 1 /\ U.suc[x] = T.prd[x]
      BY <1>1, <1>7, <1>9, <2>1
    <3>2. U.rank[T.prd[x]] = c - (T.rank[x] - 1) /\ U.rank[x] = c - T.rank[x]
      BY <1>1, <1>7, <2>1, <3>1
    <3> QED
      BY <1>1, <3>1, <3>2
  <2>2. CASE T.parent[x] \notin S
    BY <1>1, <1>7, <1>8, <2>2
  <2> QED
    BY <2>1, <2>2
<1>11. DownToFirst(U, I)
  <2> SUFFICES ASSUME NEW x \in I, x # U.first[T.parent[x]]
               PROVE  T.parent[U.prd[x]] = T.parent[x] /\ U.rank[U.prd[x]] = U.rank[x] - 1
    BY <1>1, <1>7 DEF DownToFirst
  <2>1. CASE T.parent[x] \in S
    <3>1. T.parent[T.suc[x]] = T.parent[x] /\ T.rank[T.suc[x]] = T.rank[x] + 1 /\ U.prd[x] = T.suc[x]
      BY <1>1, <1>7, <1>8, <2>1
    <3>2. U.rank[T.suc[x]] = c - (T.rank[x] + 1) /\ U.rank[x] = c - T.rank[x]
      BY <1>1, <1>7, <2>1, <3>1
    <3> QED
      BY <1>1, <3>1, <3>2
  <2>2. CASE T.parent[x] \notin S
    BY <1>1, <1>7, <1>9, <2>2
  <2> QED
    BY <2>1, <2>2
<1> QED
  BY <1>2, <1>3, <1>4, <1>5, <1>6, <1>10, <1>11 DEF Stretches

\* Turning over is undone by turning over.
LEMMA TurnedOverTwice ==
    ASSUME NEW T, NEW U, NEW I, NEW O, NEW S, NEW c \in Int, \A x \in I : T.rank[x] \in Int,
           TurnedOver(T, U, I, O, S, c)
    PROVE  TurnedOver(U, T, I, O, S, c)
BY DEF TurnedOver

\* With their bits toggled, they are read as before.
LEMMA TurnOverLevel ==
    ASSUME NEW T, NEW U, NEW I, NEW O, NEW S \in SUBSET O, NEW c \in Int, NEW B, NEW nx, NEW pv,
           Level(T, I, O, B, nx, pv), TurnedOver(T, U, I, O, S, c)
    PROVE  Level(U, I, O, Toggled(B, S), nx, pv) /\ SameReading(T, B, U, Toggled(B, S), I)
<1> DEFINE C == Toggled(B, S)
<1>1. \A P \in O : P \in C <=> (P \in S <=> P \notin B)
  BY DEF Toggled
<1> HIDE DEF C
<1>2. Stretches(U, I, O)
  BY TurnOverStretches DEF Level
<1>3. /\ \A x \in I : T.suc[x] \in I /\ T.prd[x] \in I /\ T.parent[x] \in O
      /\ \A P \in O : T.first[P] \in I /\ T.last[P] \in I
  BY DEF Level, Stretches, Typed, EndsHeld
<1>4. SameReading(T, B, U, C, I)
  BY <1>1, <1>3 DEF TurnedOver, SameReading, Forth, Back
<1>5. \A P \in O : Entry(U, C, P) = Entry(T, B, P) /\ Exit(U, C, P) = Exit(T, B, P)
  BY <1>1 DEF TurnedOver, Entry, Exit
<1>6. \A P \in O : Entry(T, B, P) \in I /\ Exit(T, B, P) \in I
  BY <1>3 DEF Entry, Exit
<1>7. Joined(U, O, C, nx, pv)
  BY <1>4, <1>5, <1>6 DEF Level, Linked, Joined, SameReading
<1> QED
  BY <1>2, <1>4, <1>7 DEF Level, C

-----------------------------------------------------------------------------
(* Part of a stretch joins the stretch next to it. *)

\* What GiveAway does to the left part M of P, up to stop: it joins Q, whose end t
\* is the neighbour of P's first item, and which is read as P is if `aligned'.
LeftGiven(T, U, I, O, P, Q, M, stop, aligned, swapped) ==
    LET t == T.prd[T.first[P]]
        k(x) == T.rank[x] - T.rank[T.first[P]] + 1
    IN  /\ \A x \in I :
              /\ U.suc[x] = IF x \in swapped THEN T.prd[x] ELSE T.suc[x]
              /\ U.prd[x] = IF x \in swapped THEN T.suc[x] ELSE T.prd[x]
              /\ U.rank[x] = IF x \in M THEN IF aligned THEN T.rank[t] + k(x) ELSE T.rank[t] - k(x)
                             ELSE T.rank[x]
              /\ U.parent[x] = IF x \in M THEN Q ELSE T.parent[x]
        /\ \A R \in O :
              /\ U.first[R] = IF R = P THEN T.suc[stop]
                              ELSE IF R = Q /\ ~aligned THEN stop ELSE T.first[R]
              /\ U.last[R] = IF R = Q /\ aligned THEN stop ELSE T.last[R]
              /\ U.size[R] = IF R = P THEN T.size[R] - k(stop)
                             ELSE IF R = Q THEN T.size[R] + k(stop) ELSE T.size[R]

\* The items of P from its first to stop.
LeftPart(T, I, P, stop) == {x \in I : T.parent[x] = P /\ T.rank[x] <= T.rank[stop]}

\* The stretch next to the first item of P.
Before1(P, B, nx, pv) == IF P \in B THEN nx[P] ELSE pv[P]

\* The end of Q that is P's neighbour.
LEMMA Neighbours ==
    ASSUME NEW T, NEW I, NEW O, NEW B, NEW nx, NEW pv, Level(T, I, O, B, nx, pv),
           NEW P \in O, NEW Q \in O, Q # P, Q = Before1(P, B, nx, pv),
           T.first[P] # T.last[P],
           NEW t, t = T.prd[T.first[P]]
    PROVE  /\ t \in I /\ T.parent[t] = Q
           /\ (Q \in B <=> P \in B) => t = T.last[Q] /\ T.suc[t] = T.first[P]
           /\ (Q \in B <=> P \notin B) =>
                 t = T.first[Q] /\ T.prd[t] = T.first[P] /\ (t = T.last[Q] => T.suc[t] # T.first[P])
<1>1. /\ T.first[P] \in I /\ T.parent[T.first[P]] = P
      /\ T.first[Q] \in I /\ T.parent[T.first[Q]] = Q
      /\ T.last[Q] \in I /\ T.parent[T.last[Q]] = Q /\ T.parent[T.last[P]] = P
  BY DEF Level, Stretches, EndsHeld
<1> USE DEF Level
<1>2. CASE P \notin B
  <2>1. Q = pv[P] /\ nx[Q] = P
    BY <1>2 DEF Linked, Before1
  <2>2. t = Exit(T, B, Q)
    BY <1>1, <1>2, <2>1 DEF Joined, Entry, Back
  <2>3. Forth(T, B, t) = T.first[P]
    BY <1>2, <2>1, <2>2 DEF Joined, Entry
  <2>4. CASE Q \notin B
    BY <1>1, <1>2, <2>2, <2>3, <2>4 DEF Exit, Forth
  <2>5. CASE Q \in B
    <3>1. t = T.first[Q] /\ T.prd[t] = T.first[P]
      BY <1>1, <2>2, <2>3, <2>5 DEF Exit, Forth
    <3>2. t = T.last[Q] => T.suc[t] # T.first[P]
      <4> SUFFICES ASSUME t = T.last[Q] PROVE T.suc[t] # T.first[P]
        OBVIOUS
      <4>1. T.suc[t] = Exit(T, B, pv[Q])
        BY <1>1, <2>5 DEF Joined, Entry, Back
      <4>2. pv[Q] \in O /\ T.parent[Exit(T, B, pv[Q])] = pv[Q]
        BY DEF Linked, Stretches, EndsHeld, Exit
      <4>3. pv[Q] = P => T.suc[t] = T.last[P]
        BY <4>1, <1>2 DEF Exit
      <4> QED
        BY <4>1, <4>2, <4>3, <1>1
    <3> QED
      BY <1>1, <1>2, <2>5, <3>1, <3>2
  <2> QED
    BY <1>1, <2>4, <2>5
<1>3. CASE P \in B
  <2>1. Q = nx[P] /\ pv[Q] = P
    BY <1>3 DEF Linked, Before1
  <2>2. t = Entry(T, B, Q)
    BY <1>1, <1>3, <2>1 DEF Joined, Exit, Forth
  <2>3. Back(T, B, t) = T.first[P]
    BY <1>3, <2>1, <2>2 DEF Joined, Exit
  <2>4. CASE Q \in B
    BY <1>1, <1>3, <2>2, <2>3, <2>4 DEF Entry, Back
  <2>5. CASE Q \notin B
    <3>1. t = T.first[Q] /\ T.prd[t] = T.first[P]
      BY <1>1, <2>2, <2>3, <2>5 DEF Entry, Back
    <3>2. t = T.last[Q] => T.suc[t] # T.first[P]
      <4> SUFFICES ASSUME t = T.last[Q] PROVE T.suc[t] # T.first[P]
        OBVIOUS
      <4>1. T.suc[t] = Entry(T, B, nx[Q])
        BY <1>1, <2>5 DEF Joined, Exit, Forth
      <4>2. nx[Q] \in O /\ T.parent[Entry(T, B, nx[Q])] = nx[Q]
        BY DEF Linked, Stretches, EndsHeld, Entry
      <4>3. nx[Q] = P => T.suc[t] = T.last[P]
        BY <4>1, <1>3 DEF Entry
      <4> QED
        BY <4>1, <4>2, <4>3, <1>1
    <3> QED
      BY <1>1, <1>3, <2>5, <3>1, <3>2
  <2> QED
    BY <1>1, <2>4, <2>5
<1> QED
  BY <1>1, <1>2, <1>3

\* What both parts of the split stretch P have in common.
LEMMA SplitParts ==
    ASSUME NEW T, NEW I, NEW O, Stretches(T, I, O), NEW P \in O,
           NEW stop \in I, T.parent[stop] = P, stop # T.last[P],
           NEW M, M = LeftPart(T, I, P, stop)
    PROVE  /\ M \subseteq I /\ \A x \in M : T.parent[x] = P /\ T.rank[x] <= T.rank[stop]
           /\ stop \in M /\ T.first[P] \in M /\ T.last[P] \notin M
           /\ T.suc[stop] \in I \ M /\ T.parent[T.suc[stop]] = P
           /\ T.rank[T.suc[stop]] = T.rank[stop] + 1
           /\ \A x \in I \ M : T.parent[x] = P => T.rank[x] > T.rank[stop]
           /\ \A x \in M : x # stop => T.suc[x] \in M
           /\ \A x \in M : x # T.first[P] => T.prd[x] \in M
           /\ \A x \in I \ M : T.parent[x] = P /\ x # T.last[P] => T.suc[x] \in I \ M
           /\ \A x \in I \ M : T.parent[x] = P /\ x # T.suc[stop] => T.prd[x] \in I \ M
           /\ T.prd[T.suc[stop]] = stop
           /\ T.first[P] # T.last[P]
<1> USE DEF Stretches, LeftPart
<1>1. /\ T.first[P] \in I /\ T.last[P] \in I /\ T.parent[T.first[P]] = P
      /\ T.parent[T.last[P]] = P
  BY DEF EndsHeld
<1>2. \A x \in I : T.rank[x] \in Int /\ T.suc[x] \in I /\ T.prd[x] \in I
  BY DEF Typed
<1>3. stop \in M /\ T.first[P] \in M
  <2>1. T.rank[T.first[P]] <= T.rank[stop]
    BY DEF RankedFromFirst
  <2> QED
    BY <1>1, <1>2, <2>1
<1>4. T.last[P] \notin M
  <2>1. T.rank[stop] <= T.rank[T.last[P]] /\ T.rank[stop] # T.rank[T.last[P]]
    BY <1>1 DEF RankedFromFirst, RankedOnce
  <2> QED
    BY <2>1, <1>1, <1>2
<1>5. T.suc[stop] \in I /\ T.parent[T.suc[stop]] = P /\ T.rank[T.suc[stop]] = T.rank[stop] + 1
  BY <1>2 DEF UpToLast
<1>6. T.suc[stop] \notin M
  BY <1>2, <1>5
<1>7. \A x \in I \ M : T.parent[x] = P => T.rank[x] > T.rank[stop]
  BY <1>2
<1>8. ASSUME NEW x \in M, x # stop PROVE T.suc[x] \in M
  <2>1. x \in I /\ T.parent[x] = P /\ T.rank[x] <= T.rank[stop] /\ x # T.last[P]
    BY <1>4, <1>8
  <2>2. T.rank[x] # T.rank[stop]
    BY <1>8, <2>1 DEF RankedOnce
  <2>3. T.parent[T.suc[x]] = P /\ T.rank[T.suc[x]] = T.rank[x] + 1 /\ T.suc[x] \in I
    BY <1>2, <2>1 DEF UpToLast
  <2> QED
    BY <1>2, <2>1, <2>2, <2>3
<1>9. ASSUME NEW x \in M, x # T.first[P] PROVE T.prd[x] \in M
  <2>1. x \in I /\ T.parent[x] = P /\ T.rank[x] <= T.rank[stop]
    OBVIOUS
  <2>2. T.parent[T.prd[x]] = P /\ T.rank[T.prd[x]] = T.rank[x] - 1 /\ T.prd[x] \in I
    BY <1>2, <1>9, <2>1 DEF DownToFirst
  <2> QED
    BY <1>2, <2>1, <2>2
<1>10. ASSUME NEW x \in I \ M, T.parent[x] = P, x # T.last[P] PROVE T.suc[x] \in I \ M
  <2>1. T.parent[T.suc[x]] = P /\ T.rank[T.suc[x]] = T.rank[x] + 1 /\ T.suc[x] \in I
    BY <1>2, <1>10 DEF UpToLast
  <2> QED
    BY <1>2, <1>7, <1>10, <2>1
<1>11. T.prd[T.suc[stop]] = stop
  <2>1. T.suc[stop] # T.first[P]
    BY <1>3, <1>6
  <2>2. /\ T.parent[T.prd[T.suc[stop]]] = P
        /\ T.rank[T.prd[T.suc[stop]]] = T.rank[T.suc[stop]] - 1
        /\ T.prd[T.suc[stop]] \in I
    BY <1>2, <1>5, <2>1 DEF DownToFirst
  <2>3. T.rank[T.prd[T.suc[stop]]] = T.rank[stop]
    BY <1>2, <1>5, <2>2
  <2> QED
    BY <2>2, <2>3 DEF RankedOnce
<1>12. ASSUME NEW x \in I \ M, T.parent[x] = P, x # T.suc[stop] PROVE T.prd[x] \in I \ M
  <2>1. T.rank[x] > T.rank[stop] /\ x # T.first[P]
    BY <1>3, <1>7, <1>12
  <2>2. T.parent[T.prd[x]] = P /\ T.rank[T.prd[x]] = T.rank[x] - 1 /\ T.prd[x] \in I
    BY <1>2, <1>12, <2>1 DEF DownToFirst
  <2>3. T.rank[x] # T.rank[stop] + 1
    BY <1>5, <1>12 DEF RankedOnce
  <2> QED
    BY <1>2, <2>1, <2>2, <2>3
<1> QED
  BY <1>3, <1>4, <1>5, <1>6, <1>7, <1>8, <1>9, <1>10, <1>11, <1>12

\* The left part of P joins a stretch that is read as P is.
LEMMA LeftPartAligned ==
    ASSUME NEW T, NEW U, NEW I, NEW O, Stretches(T, I, O), NEW P \in O, NEW Q \in O, Q # P,
           NEW stop \in I, T.parent[stop] = P, stop # T.last[P],
           NEW M, M = LeftPart(T, I, P, stop),
           T.prd[T.first[P]] = T.last[Q], T.suc[T.last[Q]] = T.first[P],
           LeftGiven(T, U, I, O, P, Q, M, stop, TRUE, {})
    PROVE  Stretches(U, I, O)
<1> DEFINE t == T.last[Q]
           rest == T.suc[stop]
<1>1. /\ \A x \in I : U.suc[x] = T.suc[x] /\ U.prd[x] = T.prd[x]
      /\ \A x \in I : U.rank[x] = IF x \in M THEN T.rank[t] + (T.rank[x] - T.rank[T.first[P]] + 1)
                                             ELSE T.rank[x]
      /\ \A x \in I : U.parent[x] = IF x \in M THEN Q ELSE T.parent[x]
      /\ \A R \in O : U.first[R] = IF R = P THEN rest ELSE T.first[R]
      /\ \A R \in O : U.last[R] = IF R = Q THEN stop ELSE T.last[R]
  BY DEF LeftGiven
<1>2. /\ \A x \in M : x \in I /\ T.parent[x] = P
      /\ stop \in M /\ T.first[P] \in M /\ T.last[P] \notin M
      /\ rest \in I \ M /\ T.parent[rest] = P
      /\ T.rank[rest] = T.rank[stop] + 1
      /\ \A x \in I \ M : T.parent[x] = P => T.rank[x] > T.rank[stop]
      /\ \A x \in M : x # stop => T.suc[x] \in M
      /\ \A x \in M : x # T.first[P] => T.prd[x] \in M
      /\ \A x \in I \ M : T.parent[x] = P /\ x # T.last[P] => T.suc[x] \in I \ M
      /\ \A x \in I \ M : T.parent[x] = P /\ x # rest => T.prd[x] \in I \ M
      /\ T.prd[rest] = stop
  BY SplitParts
<1>3. /\ \A x \in I : T.rank[x] \in Int /\ T.parent[x] \in O
      /\ t \in I /\ T.parent[t] = Q /\ t \notin M
  BY <1>2 DEF Stretches, Typed, EndsHeld
<1> HIDE DEF rest, t
<1>4. \A x \in M : T.rank[T.first[P]] <= T.rank[x] /\ T.rank[x] <= T.rank[stop] /\ T.rank[x] \in Int
  <2>1. \A x \in M : x \in I /\ T.parent[x] = P /\ T.rank[x] <= T.rank[stop]
    BY SplitParts
  <2> QED
    BY <2>1, <1>3 DEF Stretches, RankedFromFirst
<1>5. \A x \in M : U.rank[x] \in Int /\ U.rank[x] > T.rank[t] /\ U.rank[x] <= U.rank[stop]
  BY <1>1, <1>2, <1>3, <1>4
<1>6. \A x \in I : T.parent[x] = Q => T.rank[x] <= T.rank[t] /\ T.rank[T.first[Q]] <= T.rank[x]
  BY DEF Stretches, RankedFromFirst, t
<1>7. Typed(U, I, O)
  BY <1>1, <1>3, <1>5 DEF Typed, Stretches
<1>8. EndsHeld(U, I, O)
  <2> SUFFICES ASSUME NEW R \in O
               PROVE  /\ U.first[R] \in I /\ U.parent[U.first[R]] = R
                      /\ U.last[R] \in I /\ U.parent[U.last[R]] = R
    BY DEF EndsHeld
  <2>1. /\ T.first[R] \in I /\ T.parent[T.first[R]] = R
        /\ T.last[R] \in I /\ T.parent[T.last[R]] = R
    BY DEF Stretches, EndsHeld
  <2> QED
    BY <1>1, <1>2, <2>1
<1>9. RankedFromFirst(U, I)
  <2> SUFFICES ASSUME NEW x \in I
               PROVE  /\ U.rank[U.first[U.parent[x]]] <= U.rank[x]
                      /\ U.rank[x] <= U.rank[U.last[U.parent[x]]]
    BY DEF RankedFromFirst
  <2>1. /\ T.rank[T.first[T.parent[x]]] <= T.rank[x]
        /\ T.rank[x] <= T.rank[T.last[T.parent[x]]]
        /\ T.parent[x] \in O /\ T.rank[x] \in Int
    BY <1>3 DEF Stretches, RankedFromFirst
  <2>2. T.first[Q] \in I /\ T.parent[T.first[Q]] = Q /\ T.first[Q] \notin M
    BY <1>2 DEF Stretches, EndsHeld
  <2>3. CASE x \in M
    <3>1. U.parent[x] = Q /\ U.first[Q] = T.first[Q] /\ U.last[Q] = stop
      BY <1>1, <2>3
    <3>2. U.rank[T.first[Q]] = T.rank[T.first[Q]] /\ T.rank[T.first[Q]] <= T.rank[t]
      BY <1>1, <1>3, <1>6, <2>2
    <3> QED
      BY <1>3, <1>5, <2>2, <2>3, <3>1, <3>2
  <2>4. CASE x \notin M /\ T.parent[x] = Q
    <3>1. U.parent[x] = Q /\ U.first[Q] = T.first[Q] /\ U.last[Q] = stop /\ U.rank[x] = T.rank[x]
      BY <1>1, <2>4
    <3>2. U.rank[T.first[Q]] = T.rank[T.first[Q]]
      BY <1>1, <2>2
    <3>3. U.rank[stop] > T.rank[t] /\ U.rank[stop] \in Int /\ T.rank[x] <= T.rank[t]
      BY <1>2, <1>5, <1>6, <2>4
    <3> QED
      BY <1>3, <2>1, <2>4, <3>1, <3>2, <3>3
  <2>5. CASE x \notin M /\ T.parent[x] = P
    <3>1. U.parent[x] = P /\ U.first[P] = rest /\ U.last[P] = T.last[P] /\ U.rank[x] = T.rank[x]
      BY <1>1, <2>5
    <3>2. U.rank[rest] = T.rank[rest] /\ U.rank[T.last[P]] = T.rank[T.last[P]]
      BY <1>1, <1>2 DEF Stretches, EndsHeld
    <3>3. T.rank[x] > T.rank[stop] /\ T.rank[stop] \in Int
      BY <1>2, <1>3, <2>5
    <3> QED
      BY <1>2, <2>1, <2>5, <3>1, <3>2, <3>3
  <2>6. CASE T.parent[x] \notin {P, Q}
    <3> DEFINE R == T.parent[x]
    <3>1. U.parent[x] = R /\ U.first[R] = T.first[R] /\ U.last[R] = T.last[R] /\ U.rank[x] = T.rank[x]
      BY <1>1, <1>2, <2>1, <2>6
    <3>2. U.rank[T.first[R]] = T.rank[T.first[R]] /\ U.rank[T.last[R]] = T.rank[T.last[R]]
      BY <1>1, <1>2, <2>1, <2>6 DEF Stretches, EndsHeld
    <3> QED
      BY <2>1, <3>1, <3>2
  <2> QED
    BY <1>2, <2>3, <2>4, <2>5, <2>6
<1>10. RankedOnce(U, I)
  <2> SUFFICES ASSUME NEW x \in I, NEW y \in I, U.parent[x] = U.parent[y], U.rank[x] = U.rank[y]
               PROVE  x = y
    BY DEF RankedOnce
  <2>1. T.parent[x] = T.parent[y] /\ T.rank[x] = T.rank[y] => x = y
    BY DEF Stretches, RankedOnce
  <2>2. CASE x \in M /\ y \in M
    BY <1>1, <1>2, <1>3, <2>1, <2>2
  <2>3. CASE x \in M /\ y \notin M
    BY <1>1, <1>3, <1>5, <1>6, <2>3
  <2>4. CASE x \notin M /\ y \in M
    BY <1>1, <1>3, <1>5, <1>6, <2>4
  <2>5. CASE x \notin M /\ y \notin M
    BY <1>1, <2>1, <2>5
  <2> QED
    BY <2>2, <2>3, <2>4, <2>5
<1>11. UpToLast(U, I)
  <2> SUFFICES ASSUME NEW x \in I, x # U.last[U.parent[x]]
               PROVE  U.parent[U.suc[x]] = U.parent[x] /\ U.rank[U.suc[x]] = U.rank[x] + 1
    BY DEF UpToLast
  <2>1. /\ x # T.last[T.parent[x]] =>
              T.parent[T.suc[x]] = T.parent[x] /\ T.rank[T.suc[x]] = T.rank[x] + 1
        /\ U.suc[x] = T.suc[x] /\ T.suc[x] \in I /\ T.parent[x] \in O
    BY <1>1 DEF Stretches, UpToLast, Typed
  <2>2. CASE x \in M
    <3>1. x # stop /\ T.suc[x] \in M
      BY <1>1, <1>2, <2>2
    <3>2. T.rank[T.suc[x]] = T.rank[x] + 1
      BY <1>2, <2>1, <2>2
    <3> QED
      BY <1>1, <1>3, <1>4, <1>2, <2>1, <2>2, <3>1, <3>2
  <2>3. CASE x = t
    <3>1. T.suc[x] = T.first[P] /\ T.first[P] \in M
      BY <1>2, <2>3 DEF t
    <3> QED
      BY <1>1, <1>2, <1>3, <2>1, <2>3, <3>1
  <2>4. CASE x \notin M /\ x # t
    <3>1. x # T.last[T.parent[x]]
      BY <1>1, <1>2, <2>1, <2>4 DEF t
    <3>2. T.suc[x] \notin M
      BY <1>2, <2>1, <2>4, <3>1
    <3> QED
      BY <1>1, <2>1, <2>4, <3>1, <3>2
  <2> QED
    BY <2>2, <2>3, <2>4
<1>12. DownToFirst(U, I)
  <2> SUFFICES ASSUME NEW x \in I, x # U.first[U.parent[x]]
               PROVE  U.parent[U.prd[x]] = U.parent[x] /\ U.rank[U.prd[x]] = U.rank[x] - 1
    BY DEF DownToFirst
  <2>1. /\ x # T.first[T.parent[x]] =>
              T.parent[T.prd[x]] = T.parent[x] /\ T.rank[T.prd[x]] = T.rank[x] - 1
        /\ U.prd[x] = T.prd[x] /\ T.prd[x] \in I /\ T.parent[x] \in O
    BY <1>1 DEF Stretches, DownToFirst, Typed
  <2>2. CASE x = T.first[P]
    <3>1. T.prd[x] = t
      BY <2>2 DEF t
    <3> QED
      BY <1>1, <1>2, <1>3, <2>1, <2>2, <3>1
  <2>3. CASE x \in M /\ x # T.first[P]
    <3>1. T.prd[x] \in M
      BY <1>2, <2>3
    <3>2. T.rank[T.prd[x]] = T.rank[x] - 1
      BY <1>2, <2>1, <2>3
    <3> QED
      BY SMTT(20), <1>1, <1>2, <1>3, <1>4, <2>1, <2>3, <3>1, <3>2
  <2>4. CASE x \notin M
    <3>1. x # T.first[T.parent[x]] /\ x # rest
      BY <1>1, <1>2, <2>1, <2>4
    <3>2. T.prd[x] \notin M
      BY <1>2, <2>1, <2>4, <3>1
    <3> QED
      BY <1>1, <2>1, <2>4, <3>1, <3>2
  <2> QED
    BY <2>2, <2>3, <2>4
<1>13. Sized(U, O)
  <2> SUFFICES ASSUME NEW R \in O PROVE U.size[R] = U.rank[U.last[R]] - U.rank[U.first[R]] + 1
    BY DEF Sized
  <2>1. T.size[R] = T.rank[T.last[R]] - T.rank[T.first[R]] + 1
        /\ T.first[R] \in I /\ T.last[R] \in I /\ T.parent[T.first[R]] = R /\ T.parent[T.last[R]] = R
    BY DEF Stretches, Sized, EndsHeld
  <2> DEFINE count == T.rank[stop] - T.rank[T.first[P]] + 1
  <2>2. U.size[R] = IF R = P THEN T.size[R] - count ELSE IF R = Q THEN T.size[R] + count ELSE T.size[R]
    BY DEF LeftGiven
  <2>3. T.first[P] \in I /\ T.rank[T.first[P]] \in Int /\ T.rank[stop] \in Int
    BY <1>2, <1>3
  <2>4. T.rank[T.first[R]] \in Int /\ T.rank[T.last[R]] \in Int
    BY <1>3, <2>1
  <2>5. CASE R = P
    <3>1. U.first[R] = rest /\ U.last[R] = T.last[P]
      BY <1>1, <2>5
    <3>2. U.rank[rest] = T.rank[stop] + 1 /\ U.rank[T.last[P]] = T.rank[T.last[P]]
      BY <1>1, <1>2, <2>1, <2>5
    <3>3. U.size[R] = T.size[R] - count
      BY <2>2, <2>5
    <3> QED
      BY <2>1, <2>3, <2>4, <2>5, <3>1, <3>2, <3>3
  <2>6. CASE R = Q
    <3>1. U.first[R] = T.first[Q] /\ U.last[R] = stop
      BY <1>1, <2>6
    <3>2. U.rank[stop] = T.rank[t] + count /\ U.rank[T.first[Q]] = T.rank[T.first[Q]]
      BY <1>1, <1>2, <2>1, <2>6
    <3>3. U.size[R] = T.size[R] + count /\ T.last[R] = t
      BY <2>2, <2>6 DEF t
    <3> QED
      BY <2>1, <2>3, <2>4, <2>6, <3>1, <3>2, <3>3
  <2>7. CASE R \notin {P, Q}
    BY <1>1, <1>2, <2>1, <2>2, <2>7
  <2> QED
    BY <2>5, <2>6, <2>7
<1> QED
  BY <1>7, <1>8, <1>9, <1>10, <1>11, <1>12, <1>13 DEF Stretches

\* A left part given to a neighbour that is written in the same direction leaves the
\* level whole and is read as before.
LEMMA LeftAlignedLevel ==
    ASSUME NEW T, NEW U, NEW I, NEW O, NEW B, NEW nx, NEW pv, Level(T, I, O, B, nx, pv),
           NEW P \in O, NEW Q \in O, Q # P, Q = Before1(P, B, nx, pv), Q \in B <=> P \in B,
           NEW stop \in I, T.parent[stop] = P, stop # T.last[P],
           NEW M, M = LeftPart(T, I, P, stop),
           LeftGiven(T, U, I, O, P, Q, M, stop, TRUE, {})
    PROVE  Level(U, I, O, B, nx, pv) /\ SameReading(T, B, U, B, I)
<1> DEFINE rest == T.suc[stop]
<1>1. Stretches(T, I, O) /\ Linked(O, nx, pv) /\ Joined(T, O, B, nx, pv)
  BY DEF Level
<1>2. /\ T.first[P] # T.last[P] /\ rest \in I /\ T.parent[rest] = P /\ T.prd[rest] = stop
      /\ rest \notin M /\ \A x \in M : T.parent[x] = P
  BY <1>1, SplitParts
<1>3. T.prd[T.first[P]] = T.last[Q] /\ T.suc[T.last[Q]] = T.first[P]
  BY <1>2, Neighbours
<1>4. Stretches(U, I, O)
  BY <1>1, <1>3, LeftPartAligned
<1>5. /\ \A x \in I : U.suc[x] = T.suc[x] /\ U.prd[x] = T.prd[x]
      /\ \A x \in I : U.parent[x] = IF x \in M THEN Q ELSE T.parent[x]
      /\ \A R \in O : U.first[R] = IF R = P THEN rest ELSE T.first[R]
      /\ \A R \in O : U.last[R] = IF R = Q THEN stop ELSE T.last[R]
  BY DEF LeftGiven
<1> HIDE DEF rest
<1>6. SameReading(T, B, U, B, I)
  BY <1>2, <1>5 DEF SameReading, Forth, Back
<1>7. \A R \in O : Entry(T, B, R) \in I /\ Exit(T, B, R) \in I
  BY <1>1 DEF Stretches, EndsHeld, Entry, Exit
<1>8. Joined(U, O, B, nx, pv)
  <2> SUFFICES ASSUME NEW R \in O
               PROVE  /\ Forth(U, B, Exit(U, B, R)) = Entry(U, B, nx[R])
                      /\ Back(U, B, Entry(U, B, R)) = Exit(U, B, pv[R])
    BY DEF Joined
  <2>1. nx[R] \in O /\ pv[R] \in O /\ pv[nx[R]] = R /\ nx[pv[R]] = R
    BY <1>1 DEF Linked
  <2>2. Forth(T, B, Exit(T, B, R)) = Entry(T, B, nx[R]) /\ Back(T, B, Entry(T, B, R)) = Exit(T, B, pv[R])
    BY <1>1 DEF Joined
  <2>3. CASE P \notin B
    <3>1. Q = pv[P] /\ nx[Q] = P
      BY <1>1, <2>3 DEF Linked, Before1
    <3>2. \A W \in O : /\ Exit(U, B, W) = IF W = Q THEN stop ELSE Exit(T, B, W)
                       /\ Entry(U, B, W) = IF W = P THEN rest ELSE Entry(T, B, W)
      BY <1>5, <2>3 DEF Entry, Exit
    <3>3. Forth(T, B, stop) = rest /\ Back(T, B, rest) = stop
      BY <1>2, <2>3 DEF Forth, Back, rest
    <3>4. Forth(U, B, Exit(U, B, R)) = Entry(U, B, nx[R])
      BY <1>6, <1>7, <2>1, <2>2, <3>1, <3>2, <3>3 DEF SameReading
    <3> QED
      BY <1>2, <1>6, <1>7, <2>1, <2>2, <3>1, <3>2, <3>3, <3>4 DEF SameReading
  <2>4. CASE P \in B
    <3>1. Q = nx[P] /\ pv[Q] = P
      BY <1>1, <2>4 DEF Linked, Before1
    <3>2. \A W \in O : /\ Exit(U, B, W) = IF W = P THEN rest ELSE Exit(T, B, W)
                       /\ Entry(U, B, W) = IF W = Q THEN stop ELSE Entry(T, B, W)
      BY <1>5, <2>4 DEF Entry, Exit
    <3>3. Forth(T, B, rest) = stop /\ Back(T, B, stop) = rest
      BY <1>2, <2>4 DEF Forth, Back, rest
    <3>4. Forth(U, B, Exit(U, B, R)) = Entry(U, B, nx[R])
      BY <1>2, <1>6, <1>7, <2>1, <2>2, <3>1, <3>2, <3>3 DEF SameReading
    <3> QED
      BY <1>6, <1>7, <2>1, <2>2, <3>1, <3>2, <3>3, <3>4 DEF SameReading
  <2> QED
    BY <2>3, <2>4
<1> QED
  BY <1>1, <1>4, <1>6, <1>8 DEF Level

\* Any stretches may be written the other way.
LEMMA TurnedOverExists ==
    ASSUME NEW T, NEW I, NEW O, NEW S, NEW c
    PROVE  \E U : TurnedOver(T, U, I, O, S, c)
<1> DEFINE U == [suc |-> [x \in I |-> IF T.parent[x] \in S THEN T.prd[x] ELSE T.suc[x]],
                 prd |-> [x \in I |-> IF T.parent[x] \in S THEN T.suc[x] ELSE T.prd[x]],
                 rank |-> [x \in I |-> IF T.parent[x] \in S THEN c - T.rank[x] ELSE T.rank[x]],
                 parent |-> [x \in I |-> T.parent[x]],
                 first |-> [P \in O |-> IF P \in S THEN T.last[P] ELSE T.first[P]],
                 last |-> [P \in O |-> IF P \in S THEN T.first[P] ELSE T.last[P]],
                 size |-> [P \in O |-> T.size[P]]]
<1> TurnedOver(T, U, I, O, S, c)
  BY DEF TurnedOver
<1> QED
  OBVIOUS

\* And any part given to an aligned neighbour.
LEMMA AlignedExists ==
    ASSUME NEW T, NEW I, NEW O, NEW P, NEW Q, NEW M, NEW stop
    PROVE  \E U : LeftGiven(T, U, I, O, P, Q, M, stop, TRUE, {})
<1> DEFINE t == T.prd[T.first[P]]
           k(x) == T.rank[x] - T.rank[T.first[P]] + 1
           U == [suc |-> [x \in I |-> T.suc[x]],
                 prd |-> [x \in I |-> T.prd[x]],
                 rank |-> [x \in I |-> IF x \in M THEN T.rank[t] + k(x) ELSE T.rank[x]],
                 parent |-> [x \in I |-> IF x \in M THEN Q ELSE T.parent[x]],
                 first |-> [R \in O |-> IF R = P THEN T.suc[stop] ELSE T.first[R]],
                 last |-> [R \in O |-> IF R = Q THEN stop ELSE T.last[R]],
                 size |-> [R \in O |-> IF R = P THEN T.size[R] - k(stop)
                                       ELSE IF R = Q THEN T.size[R] + k(stop) ELSE T.size[R]]]
<1> LeftGiven(T, U, I, O, P, Q, M, stop, TRUE, {})
  BY DEF LeftGiven
<1> QED
  OBVIOUS

\* Each item is read in the direction it was read in, where the pointers of the
\* swapped ones have changed places.
KeptDirection(T, B, U, C, I, swapped) ==
    \A x \in I : U.parent[x] \in C <=> (T.parent[x] \in B <=> x \notin swapped)

\* A single item Q next to P may be turned over to be read as P is.
LEMMA LeftPartTurnsQ ==
    ASSUME NEW T, NEW U, NEW I, NEW O, NEW B, NEW nx, NEW pv, Level(T, I, O, B, nx, pv),
           NEW P \in O, NEW Q \in O, Q # P, Q = Before1(P, B, nx, pv), Q \in B <=> P \notin B,
           NEW stop \in I, T.parent[stop] = P, stop # T.last[P],
           NEW M, M = LeftPart(T, I, P, stop),
           T.prd[T.first[P]] = T.last[Q],
           LeftGiven(T, U, I, O, P, Q, M, stop, TRUE, {T.last[Q]})
    PROVE  Level(U, I, O, Toggled(B, {Q}), nx, pv)
<1> DEFINE t == T.prd[T.first[P]]
           c == 2 * T.rank[t]
           C == Toggled(B, {Q})
<1>1. Stretches(T, I, O)
  BY DEF Level
<1>2. T.first[P] # T.last[P] /\ M \subseteq I /\ \A x \in M : T.parent[x] = P
  BY <1>1, SplitParts
<1>3. t \in I /\ T.parent[t] = Q /\ t = T.first[Q] /\ T.prd[t] = T.first[P]
  BY <1>2, Neighbours
<1>13. t = T.last[Q]
  OBVIOUS
<1>4. \A x \in I : T.parent[x] = Q => x = t
  <2> SUFFICES ASSUME NEW x \in I, T.parent[x] = Q PROVE x = t
    OBVIOUS
  <2> HIDE DEF t
  <2>1. T.rank[t] <= T.rank[x] /\ T.rank[x] <= T.rank[t]
    BY <1>1, <1>3, <1>13 DEF Stretches, RankedFromFirst
  <2>2. T.rank[x] \in Int /\ T.rank[t] \in Int
    BY <1>1, <1>3 DEF Stretches, Typed
  <2>3. T.rank[x] = T.rank[t]
    BY <2>1, <2>2
  <2> QED
    BY <1>1, <1>3, <2>3 DEF Stretches, RankedOnce
<1>5. T.rank[t] \in Int /\ c \in Int /\ c - T.rank[t] = T.rank[t]
  BY <1>1, <1>3 DEF Stretches, Typed
<1>6. T.first[P] \in I /\ T.parent[T.first[P]] = P
  BY <1>1 DEF Stretches, EndsHeld
<1>14. LeftGiven(T, U, I, O, P, Q, M, stop, TRUE, {t})
  BY <1>13
<1>15. T.prd[T.first[P]] = t
  OBVIOUS
<1> HIDE DEF c, t
<1> PICK V : TurnedOver(T, V, I, O, {Q}, c)
  BY TurnedOverExists
<1>7. Level(V, I, O, C, nx, pv)
  BY <1>5, TurnOverLevel
<1>8. \A x \in I : /\ V.suc[x] = IF x = t THEN T.prd[x] ELSE T.suc[x]
                   /\ V.prd[x] = IF x = t THEN T.suc[x] ELSE T.prd[x]
                   /\ V.parent[x] = T.parent[x]
  BY <1>3, <1>4 DEF TurnedOver
<1>16. \A x \in I : V.rank[x] = T.rank[x]
  <2> SUFFICES ASSUME NEW x \in I PROVE V.rank[x] = T.rank[x]
    OBVIOUS
  <2>1. CASE T.parent[x] = Q
    <3>1. x = t
      BY <1>4, <2>1
    <3>2. V.rank[t] = c - T.rank[t]
      BY <1>3 DEF TurnedOver
    <3> QED
      BY <1>5, <3>1, <3>2
  <2>2. CASE T.parent[x] # Q
    BY <2>2 DEF TurnedOver
  <2> QED
    BY <2>1, <2>2
<1>17. \A R \in O : V.first[R] = T.first[R] /\ V.last[R] = T.last[R] /\ V.size[R] = T.size[R]
  <2> SUFFICES ASSUME NEW R \in O
               PROVE  V.first[R] = T.first[R] /\ V.last[R] = T.last[R] /\ V.size[R] = T.size[R]
    OBVIOUS
  <2>1. /\ V.first[R] = IF R \in {Q} THEN T.last[R] ELSE T.first[R]
        /\ V.last[R] = IF R \in {Q} THEN T.first[R] ELSE T.last[R]
        /\ V.size[R] = T.size[R]
    BY DEF TurnedOver
  <2>2. T.first[Q] = T.last[Q]
    BY <1>3, <1>13
  <2> QED
    BY <2>1, <2>2
<1>9. V.prd[V.first[P]] = t /\ T.first[P] # t /\ stop # t
  BY <1>3, <1>6, <1>8, <1>17, <1>15
<1>10. LeftGiven(V, U, I, O, P, Q, M, stop, TRUE, {})
  <2>1. \A x \in I : /\ U.suc[x] = V.suc[x] /\ U.prd[x] = V.prd[x]
                     /\ U.parent[x] = IF x \in M THEN Q ELSE V.parent[x]
    BY <1>14, <1>8 DEF LeftGiven
  <2>2. \A x \in I : U.rank[x] = IF x \in M THEN V.rank[t] + (V.rank[x] - V.rank[V.first[P]] + 1)
                                            ELSE V.rank[x]
    BY <1>14, <1>15, <1>16, <1>17, <1>3, <1>6 DEF LeftGiven
  <2>3. \A R \in O :
           /\ U.first[R] = IF R = P THEN V.suc[stop] ELSE V.first[R]
           /\ U.last[R] = IF R = Q THEN stop ELSE V.last[R]
           /\ U.size[R] = IF R = P THEN V.size[R] - (V.rank[stop] - V.rank[V.first[P]] + 1)
                          ELSE IF R = Q THEN V.size[R] + (V.rank[stop] - V.rank[V.first[P]] + 1)
                          ELSE V.size[R]
    BY <1>14, <1>8, <1>16, <1>17, <1>6, <1>9 DEF LeftGiven
  <2> QED
    BY <1>9, <2>1, <2>2, <2>3 DEF LeftGiven
<1>11. Q = Before1(P, C, nx, pv) /\ (Q \in C <=> P \in C)
  BY DEF Before1, Toggled
<1>12. M = LeftPart(V, I, P, stop) /\ V.parent[stop] = P /\ stop # V.last[P]
  BY <1>8, <1>16, <1>17 DEF LeftPart
<1> QED
  BY <1>7, <1>10, <1>11, <1>12, LeftAlignedLevel

\* The left part is turned over to be read as Q is.
LEMMA LeftPartTurned ==
    ASSUME NEW T, NEW U, NEW I, NEW O, NEW B, NEW nx, NEW pv, Level(T, I, O, B, nx, pv),
           NEW P \in O, NEW Q \in O, Q # P, Q = Before1(P, B, nx, pv), Q \in B <=> P \notin B,
           NEW stop \in I, T.parent[stop] = P, stop # T.last[P],
           NEW M, M = LeftPart(T, I, P, stop),
           LeftGiven(T, U, I, O, P, Q, M, stop, FALSE, M)
    PROVE  Level(U, I, O, B, nx, pv)
<1> DEFINE t == T.prd[T.first[P]]
           C == Toggled(B, {Q})
<1>1. Stretches(T, I, O)
  BY DEF Level
<1>2. T.first[P] # T.last[P] /\ M \subseteq I /\ \A x \in M : T.parent[x] = P
  BY <1>1, SplitParts
<1>3. t \in I /\ T.parent[t] = Q /\ t = T.first[Q] /\ T.prd[t] = T.first[P]
  BY <1>2, Neighbours
<1>4. T.first[P] \in I /\ T.parent[T.first[P]] = P /\ T.rank[T.first[P]] \in Int
      /\ \A x \in I : T.rank[x] \in Int
  BY <1>1 DEF Stretches, EndsHeld, Typed
<1> HIDE DEF t
<1> PICK V : TurnedOver(T, V, I, O, {Q}, 0)
  BY TurnedOverExists
<1>5. Level(V, I, O, C, nx, pv)
  BY TurnOverLevel
<1> PICK W : LeftGiven(V, W, I, O, P, Q, M, stop, TRUE, {})
  BY AlignedExists
<1>6. Q = Before1(P, C, nx, pv) /\ (Q \in C <=> P \in C)
  BY DEF Before1, Toggled
<1>7. M = LeftPart(V, I, P, stop) /\ V.parent[stop] = P /\ stop # V.last[P]
  BY DEF LeftPart, TurnedOver
<1>8. Level(W, I, O, C, nx, pv)
  BY <1>5, <1>6, <1>7, LeftAlignedLevel
<1>9. V.first[P] = T.first[P] /\ V.prd[T.first[P]] = t /\ V.rank[t] = 0 - T.rank[t]
      /\ V.rank[T.first[P]] = T.rank[T.first[P]] /\ V.suc[stop] = T.suc[stop]
  BY <1>3, <1>4 DEF TurnedOver, t
<1>10. TurnedOver(W, U, I, O, {Q}, 0)
  <2>1. ASSUME NEW x \in I
        PROVE  /\ U.suc[x] = IF W.parent[x] \in {Q} THEN W.prd[x] ELSE W.suc[x]
               /\ U.prd[x] = IF W.parent[x] \in {Q} THEN W.suc[x] ELSE W.prd[x]
               /\ U.parent[x] = W.parent[x]
    BY <1>2 DEF TurnedOver, LeftGiven
  <2>2. ASSUME NEW x \in I
        PROVE  U.rank[x] = IF W.parent[x] \in {Q} THEN 0 - W.rank[x] ELSE W.rank[x]
    <3>1. CASE x \in M
      <4>1. W.parent[x] = Q /\ V.rank[x] = T.rank[x]
        BY <1>2, <3>1 DEF TurnedOver, LeftGiven
      <4>2. W.rank[x] = (0 - T.rank[t]) + (T.rank[x] - T.rank[T.first[P]] + 1)
        BY <1>9, <3>1, <4>1 DEF LeftGiven
      <4>3. U.rank[x] = T.rank[t] - (T.rank[x] - T.rank[T.first[P]] + 1)
        BY <3>1 DEF LeftGiven, t
      <4> QED
        BY <1>3, <1>4, <4>1, <4>2, <4>3
    <3>2. CASE x \notin M
      BY <1>4, <3>2 DEF TurnedOver, LeftGiven
    <3> QED
      BY <3>1, <3>2
  <2>3. ASSUME NEW R \in O
        PROVE  /\ U.first[R] = IF R \in {Q} THEN W.last[R] ELSE W.first[R]
               /\ U.last[R] = IF R \in {Q} THEN W.first[R] ELSE W.last[R]
    BY <1>9 DEF TurnedOver, LeftGiven
  <2>4. ASSUME NEW R \in O PROVE U.size[R] = W.size[R]
    <3>1. V.rank[stop] = T.rank[stop] /\ V.size[R] = T.size[R]
      BY DEF TurnedOver
    <3> QED
      BY <1>9, <3>1 DEF LeftGiven
  <2> QED
    BY <2>1, <2>2, <2>3, <2>4 DEF TurnedOver
<1>11. Level(U, I, O, Toggled(C, {Q}), nx, pv)
  BY <1>8, <1>10, TurnOverLevel
<1>12. Toggled(C, {Q}) = B
  BY DEF Toggled
<1> QED
  BY <1>11, <1>12

-----------------------------------------------------------------------------
(* What GiveAway does on the left of P, and on the right as its mirror image. *)

\* P's first item follows on Q's last.
AlignedLeft(T, P, Q) == T.prd[T.first[P]] = T.last[Q]

\* Q is a single item whose links and bit disagree with P: the code turns it.
TurnsLeft(T, P, Q) ==
    LET t == T.prd[T.first[P]]
    IN  t = T.last[Q] /\ t = T.first[Q] /\ T.suc[t] # T.first[P]

\* The items whose links are exchanged: Q's only one, or all that are given.
SwappedLeft(T, P, Q, M) ==
    IF TurnsLeft(T, P, Q) THEN {T.last[Q]} ELSE IF AlignedLeft(T, P, Q) THEN {} ELSE M

\* P gives its items from the first to stop.
GivesLeft(T, U, I, O, P, Q, stop) ==
    LET M == LeftPart(T, I, P, stop)
    IN  LeftGiven(T, U, I, O, P, Q, M, stop, AlignedLeft(T, P, Q), SwappedLeft(T, P, Q, M))

\* Links exchanged exactly where the bit over the item changes are not noticed.
LEMMA KeptReading ==
    ASSUME NEW T, NEW U, NEW I, NEW B, NEW C, NEW S, KeptDirection(T, B, U, C, I, S),
           \A x \in I : /\ U.suc[x] = IF x \in S THEN T.prd[x] ELSE T.suc[x]
                        /\ U.prd[x] = IF x \in S THEN T.suc[x] ELSE T.prd[x]
    PROVE  SameReading(T, B, U, C, I)
<1> SUFFICES ASSUME NEW x \in I
             PROVE  Forth(U, C, x) = Forth(T, B, x) /\ Back(U, C, x) = Back(T, B, x)
  BY DEF SameReading
<1>1. /\ U.suc[x] = IF x \in S THEN T.prd[x] ELSE T.suc[x]
      /\ U.prd[x] = IF x \in S THEN T.suc[x] ELSE T.prd[x]
      /\ U.parent[x] \in C <=> (T.parent[x] \in B <=> x \notin S)
  BY DEF KeptDirection
<1>2. CASE x \in S
  BY <1>1, <1>2 DEF Forth, Back
<1>3. CASE x \notin S
  BY <1>1, <1>3 DEF Forth, Back
<1> QED
  BY <1>2, <1>3

\* A left part given away leaves the level whole and is read as before.
LEMMA LeftPartLevel ==
    ASSUME NEW T, NEW U, NEW I, NEW O, NEW B, NEW nx, NEW pv, Level(T, I, O, B, nx, pv),
           NEW P \in O, NEW Q \in O, Q # P, Q = Before1(P, B, nx, pv),
           NEW stop \in I, T.parent[stop] = P, stop # T.last[P],
           GivesLeft(T, U, I, O, P, Q, stop),
           NEW C, C = IF TurnsLeft(T, P, Q) THEN Toggled(B, {Q}) ELSE B
    PROVE  /\ Level(U, I, O, C, nx, pv) /\ SameReading(T, B, U, C, I)
           /\ KeptDirection(T, B, U, C, I, SwappedLeft(T, P, Q, LeftPart(T, I, P, stop)))
<1> DEFINE M == LeftPart(T, I, P, stop)
           t == T.prd[T.first[P]]
           S == SwappedLeft(T, P, Q, M)
<1>1. Stretches(T, I, O)
  BY DEF Level
<1>2. T.first[P] # T.last[P] /\ M \subseteq I /\ \A x \in M : T.parent[x] = P
  BY <1>1, SplitParts
<1>3. /\ t \in I /\ T.parent[t] = Q
      /\ (Q \in B <=> P \in B) => t = T.last[Q] /\ T.suc[t] = T.first[P]
      /\ (Q \in B <=> P \notin B) => t = T.first[Q] /\ (t = T.last[Q] => T.suc[t] # T.first[P])
  BY <1>2, Neighbours
<1>4. LeftGiven(T, U, I, O, P, Q, M, stop, AlignedLeft(T, P, Q), S)
  BY DEF GivesLeft
<1>5. \A x \in I : /\ U.suc[x] = IF x \in S THEN T.prd[x] ELSE T.suc[x]
                   /\ U.prd[x] = IF x \in S THEN T.suc[x] ELSE T.prd[x]
                   /\ U.parent[x] = IF x \in M THEN Q ELSE T.parent[x]
  BY <1>4 DEF LeftGiven
<1>6. KeptDirection(T, B, U, C, I, S) /\ Level(U, I, O, C, nx, pv)
  <2>1. CASE Q \in B <=> P \in B
    <3>1. AlignedLeft(T, P, Q) = TRUE /\ ~TurnsLeft(T, P, Q)
      BY <1>3, <2>1 DEF AlignedLeft, TurnsLeft
    <3>2. S = {} /\ C = B
      BY <3>1 DEF SwappedLeft
    <3>3. LeftGiven(T, U, I, O, P, Q, M, stop, TRUE, {})
      BY <1>4, <3>1, <3>2
    <3>4. Level(U, I, O, C, nx, pv)
      BY <2>1, <3>2, <3>3, LeftAlignedLevel
    <3>5. KeptDirection(T, B, U, C, I, S)
      BY <1>2, <1>5, <2>1, <3>2 DEF KeptDirection
    <3> QED
      BY <3>4, <3>5
  <2>2. CASE (Q \in B <=> P \notin B) /\ t = T.last[Q]
    <3>1. AlignedLeft(T, P, Q) = TRUE /\ TurnsLeft(T, P, Q)
      BY <1>3, <2>2 DEF AlignedLeft, TurnsLeft
    <3>2. S = {T.last[Q]} /\ C = Toggled(B, {Q})
      BY <3>1 DEF SwappedLeft
    <3>3. LeftGiven(T, U, I, O, P, Q, M, stop, TRUE, {T.last[Q]})
      BY <1>4, <3>1, <3>2
    <3>4. Level(U, I, O, C, nx, pv)
      <4>1. T.prd[T.first[P]] = T.last[Q] /\ (Q \in B <=> P \notin B)
        BY <2>2
      <4>2. Level(U, I, O, Toggled(B, {Q}), nx, pv)
        BY <3>3, <4>1, LeftPartTurnsQ
      <4> QED
        BY <3>2, <4>2
    <3>5. \A x \in I : T.parent[x] = Q => x = T.last[Q]
      <4> SUFFICES ASSUME NEW x \in I, T.parent[x] = Q PROVE x = T.last[Q]
        OBVIOUS
      <4> DEFINE z == T.last[Q]
      <4>1. z \in I /\ T.parent[z] = Q /\ T.first[Q] = z
        BY <1>3, <2>2
      <4> HIDE DEF z
      <4>2. T.rank[z] <= T.rank[x] /\ T.rank[x] <= T.rank[z]
        BY <1>1, <4>1 DEF Stretches, RankedFromFirst, z
      <4>3. T.rank[x] \in Int /\ T.rank[z] \in Int
        BY <1>1, <4>1 DEF Stretches, Typed
      <4>4. T.rank[x] = T.rank[z]
        BY <4>2, <4>3
      <4>5. x = z
        BY <1>1, <4>1, <4>4 DEF Stretches, RankedOnce
      <4> QED
        BY <4>5 DEF z
    <3>6. T.last[Q] \notin M
      BY <1>2, <1>3, <2>2
    <3>7. KeptDirection(T, B, U, C, I, S)
      <4> SUFFICES ASSUME NEW x \in I PROVE U.parent[x] \in C <=> (T.parent[x] \in B <=> x \notin S)
        BY DEF KeptDirection
      <4>1. \A R : R \in C <=> (R \in B <=> R # Q)
        BY <3>2 DEF Toggled
      <4>2. CASE x \in M
        <5>1. U.parent[x] = Q /\ T.parent[x] = P /\ x \notin S
          BY <1>2, <1>5, <3>2, <3>6, <4>2
        <5> QED
          BY <2>2, <4>1, <5>1
      <4>3. CASE x \notin M
        <5>1. U.parent[x] = T.parent[x]
          BY <1>5, <4>3
        <5>2. x \in S <=> T.parent[x] = Q
          BY <1>3, <2>2, <3>2, <3>5
        <5> QED
          BY <4>1, <5>1, <5>2
      <4> QED
        BY <4>2, <4>3
    <3> QED
      BY <3>4, <3>7
  <2>3. CASE (Q \in B <=> P \notin B) /\ t # T.last[Q]
    <3>1. AlignedLeft(T, P, Q) = FALSE /\ ~TurnsLeft(T, P, Q)
      BY <2>3 DEF AlignedLeft, TurnsLeft
    <3>2. S = M /\ C = B
      BY <3>1 DEF SwappedLeft
    <3>3. LeftGiven(T, U, I, O, P, Q, M, stop, FALSE, M)
      BY <1>4, <3>1, <3>2
    <3>4. Level(U, I, O, C, nx, pv)
      BY <2>3, <3>2, <3>3, LeftPartTurned
    <3>5. KeptDirection(T, B, U, C, I, S)
      BY <1>2, <1>5, <2>3, <3>2 DEF KeptDirection
    <3> QED
      BY <3>4, <3>5
  <2> QED
    BY <2>1, <2>2, <2>3
<1>7. SameReading(T, B, U, C, I)
  BY <1>5, <1>6, KeptReading
<1> QED
  BY <1>6, <1>7

\* The items of P from stop to its last.
RightPart(T, I, P, stop) == {x \in I : T.parent[x] = P /\ T.rank[x] >= T.rank[stop]}

\* The stretch next to the last item of P.
After1(P, B, nx, pv) == IF P \in B THEN pv[P] ELSE nx[P]

\* Q's first item follows on P's last.
AlignedRight(T, P, Q) == T.suc[T.last[P]] = T.first[Q]

\* As TurnsLeft, on the other side.
TurnsRight(T, P, Q) ==
    LET t == T.suc[T.last[P]]
    IN  t = T.first[Q] /\ t = T.last[Q] /\ T.prd[t] # T.last[P]

\* As SwappedLeft, on the other side.
SwappedRight(T, P, Q, M) ==
    IF TurnsRight(T, P, Q) THEN {T.first[Q]} ELSE IF AlignedRight(T, P, Q) THEN {} ELSE M

\* As LeftGiven, on the other side.
RightGiven(T, U, I, O, P, Q, M, stop, aligned, swapped) ==
    LET t == T.suc[T.last[P]]
        k(x) == T.rank[T.last[P]] - T.rank[x] + 1
    IN  /\ \A x \in I :
              /\ U.suc[x] = IF x \in swapped THEN T.prd[x] ELSE T.suc[x]
              /\ U.prd[x] = IF x \in swapped THEN T.suc[x] ELSE T.prd[x]
              /\ U.rank[x] = IF x \in M THEN IF aligned THEN T.rank[t] - k(x) ELSE T.rank[t] + k(x)
                             ELSE T.rank[x]
              /\ U.parent[x] = IF x \in M THEN Q ELSE T.parent[x]
        /\ \A R \in O :
              /\ U.first[R] = IF R = Q /\ aligned THEN stop ELSE T.first[R]
              /\ U.last[R] = IF R = P THEN T.prd[stop]
                             ELSE IF R = Q /\ ~aligned THEN stop ELSE T.last[R]
              /\ U.size[R] = IF R = P THEN T.size[R] - k(stop)
                             ELSE IF R = Q THEN T.size[R] + k(stop) ELSE T.size[R]

\* P gives its items from stop to the last.
GivesRight(T, U, I, O, P, Q, stop) ==
    LET M == RightPart(T, I, P, stop)
    IN  RightGiven(T, U, I, O, P, Q, M, stop, AlignedRight(T, P, Q), SwappedRight(T, P, Q, M))

\* In the mirror, a right part is a left part.
LEMMA RightPartMirrored ==
    ASSUME NEW T, NEW U, NEW V, NEW W, NEW I, NEW O, Stretches(T, I, O),
           NEW P \in O, NEW Q \in O, Q # P,
           NEW stop \in I, T.parent[stop] = P, stop # T.first[P],
           T.suc[T.last[P]] \in I, T.parent[T.suc[T.last[P]]] = Q,
           GivesRight(T, U, I, O, P, Q, stop),
           TurnedOver(T, V, I, O, O, 0), TurnedOver(U, W, I, O, O, 0)
    PROVE  /\ GivesLeft(V, W, I, O, P, Q, stop)
           /\ V.parent[stop] = P /\ stop # V.last[P]
           /\ (TurnsLeft(V, P, Q) <=> TurnsRight(T, P, Q))
           /\ SwappedLeft(V, P, Q, LeftPart(V, I, P, stop)) = SwappedRight(T, P, Q, RightPart(T, I, P, stop))
<1> DEFINE M == RightPart(T, I, P, stop)
           t == T.suc[T.last[P]]
           S == SwappedRight(T, P, Q, M)
           al == AlignedRight(T, P, Q)
           k(x) == T.rank[T.last[P]] - T.rank[x] + 1
<1>1. /\ \A x \in I : T.suc[x] \in I /\ T.prd[x] \in I /\ T.rank[x] \in Int /\ T.parent[x] \in O
      /\ \A R \in O : T.first[R] \in I /\ T.last[R] \in I
  BY DEF Stretches, Typed, EndsHeld
<1>2. \A x \in I : /\ V.suc[x] = T.prd[x] /\ V.prd[x] = T.suc[x]
                   /\ V.rank[x] = 0 - T.rank[x] /\ V.parent[x] = T.parent[x]
  BY <1>1 DEF TurnedOver
<1>3. \A R \in O : V.first[R] = T.last[R] /\ V.last[R] = T.first[R] /\ V.size[R] = T.size[R]
  BY DEF TurnedOver
<1>4. M = LeftPart(V, I, P, stop)
  <2>1. \A x \in I : 0 - T.rank[x] <= 0 - T.rank[stop] <=> T.rank[x] >= T.rank[stop]
    BY <1>1
  <2> QED
    BY <1>2, <2>1 DEF LeftPart, RightPart
<1>5. V.prd[V.first[P]] = t /\ t \in I
  BY <1>1, <1>2, <1>3
<1>6. (AlignedLeft(V, P, Q) <=> AlignedRight(T, P, Q)) /\ (TurnsLeft(V, P, Q) <=> TurnsRight(T, P, Q))
  BY <1>1, <1>2, <1>3, <1>5 DEF AlignedLeft, AlignedRight, TurnsLeft, TurnsRight
<1>7. SwappedLeft(V, P, Q, M) = S
  BY <1>3, <1>6 DEF SwappedLeft, SwappedRight
<1>8. RightGiven(T, U, I, O, P, Q, M, stop, al, S)
  BY DEF GivesRight
<1>9. \A x \in I : U.parent[x] \in O
  BY <1>1, <1>8 DEF RightGiven
<1>10. \A x \in I : /\ W.suc[x] = U.prd[x] /\ W.prd[x] = U.suc[x]
                    /\ W.rank[x] = 0 - U.rank[x] /\ W.parent[x] = U.parent[x]
  BY <1>9 DEF TurnedOver
<1>11. \A R \in O : W.first[R] = U.last[R] /\ W.last[R] = U.first[R] /\ W.size[R] = U.size[R]
  BY DEF TurnedOver
<1>12. \A x \in M : x \in I
  BY DEF RightPart
<1> HIDE DEF M, t, S, al
<1>13. \A x \in I : /\ W.suc[x] = IF x \in S THEN V.prd[x] ELSE V.suc[x]
                    /\ W.prd[x] = IF x \in S THEN V.suc[x] ELSE V.prd[x]
                    /\ W.parent[x] = IF x \in M THEN Q ELSE V.parent[x]
  BY <1>2, <1>8, <1>10 DEF RightGiven
<1>14. \A x \in I : W.rank[x] = IF x \in M THEN IF al THEN V.rank[t] + (V.rank[x] - V.rank[V.first[P]] + 1)
                                                ELSE V.rank[t] - (V.rank[x] - V.rank[V.first[P]] + 1)
                                ELSE V.rank[x]
  <2> SUFFICES ASSUME NEW x \in I
               PROVE  W.rank[x] = IF x \in M THEN IF al THEN V.rank[t] + (V.rank[x] - V.rank[V.first[P]] + 1)
                                                ELSE V.rank[t] - (V.rank[x] - V.rank[V.first[P]] + 1)
                                ELSE V.rank[x]
    OBVIOUS
  <2>1. /\ V.rank[x] = 0 - T.rank[x] /\ V.rank[t] = 0 - T.rank[t]
        /\ V.rank[V.first[P]] = 0 - T.rank[T.last[P]] /\ W.rank[x] = 0 - U.rank[x]
    BY <1>1, <1>2, <1>3, <1>5, <1>10
  <2>2. U.rank[x] = IF x \in M THEN IF al THEN T.rank[t] - k(x) ELSE T.rank[t] + k(x) ELSE T.rank[x]
    BY <1>8 DEF RightGiven, t
  <2>3. T.rank[x] \in Int /\ T.rank[t] \in Int /\ T.rank[T.last[P]] \in Int
    BY <1>1, <1>5
  <2>4. CASE x \notin M
    BY <2>1, <2>2, <2>4
  <2>5. CASE x \in M /\ al
    BY <2>1, <2>2, <2>3, <2>5
  <2>6. CASE x \in M /\ ~al
    BY <2>1, <2>2, <2>3, <2>6
  <2> QED
    BY <2>4, <2>5, <2>6
<1>15. \A R \in O :
              /\ W.first[R] = IF R = P THEN V.suc[stop]
                              ELSE IF R = Q /\ ~al THEN stop ELSE V.first[R]
              /\ W.last[R] = IF R = Q /\ al THEN stop ELSE V.last[R]
  BY <1>2, <1>3, <1>8, <1>11 DEF RightGiven
<1>16. V.rank[stop] - V.rank[V.first[P]] + 1 = k(stop)
  BY <1>1, <1>2, <1>3
<1>17. \A R \in O :
          W.size[R] = IF R = P THEN V.size[R] - (V.rank[stop] - V.rank[V.first[P]] + 1)
                      ELSE IF R = Q THEN V.size[R] + (V.rank[stop] - V.rank[V.first[P]] + 1) ELSE V.size[R]
  <2> HIDE DEF k
  <2> SUFFICES ASSUME NEW R \in O
               PROVE  W.size[R] = IF R = P THEN V.size[R] - k(stop)
                                  ELSE IF R = Q THEN V.size[R] + k(stop) ELSE V.size[R]
    BY <1>16
  <2> QED
    BY <1>3, <1>8, <1>11 DEF RightGiven, k
<1>18. LeftGiven(V, W, I, O, P, Q, M, stop, al, S)
  BY <1>5, <1>13, <1>14, <1>15, <1>17 DEF LeftGiven
<1>19. AlignedLeft(V, P, Q) = al
  BY <1>6 DEF al, AlignedLeft, AlignedRight
<1>20. GivesLeft(V, W, I, O, P, Q, stop)
  BY <1>4, <1>7, <1>18, <1>19 DEF GivesLeft
<1> QED
  BY <1>2, <1>3, <1>4, <1>6, <1>7, <1>20 DEF S, M

\* A right part given away leaves the level whole and is read as before: what was
\* shown of a left part, in the mirror.
LEMMA RightPartLevel ==
    ASSUME NEW T, NEW U, NEW I, NEW O, NEW B, NEW nx, NEW pv, Level(T, I, O, B, nx, pv),
           NEW P \in O, NEW Q \in O, Q # P, Q = After1(P, B, nx, pv),
           NEW stop \in I, T.parent[stop] = P, stop # T.first[P],
           GivesRight(T, U, I, O, P, Q, stop),
           NEW C, C = IF TurnsRight(T, P, Q) THEN Toggled(B, {Q}) ELSE B
    PROVE  /\ Level(U, I, O, C, nx, pv) /\ SameReading(T, B, U, C, I)
           /\ KeptDirection(T, B, U, C, I, SwappedRight(T, P, Q, RightPart(T, I, P, stop)))
<1> DEFINE BV == Toggled(B, O)
           CW == Toggled(C, O)
           S == SwappedRight(T, P, Q, RightPart(T, I, P, stop))
<1>1. Stretches(T, I, O)
  BY DEF Level
<1>2. PICK V : TurnedOver(T, V, I, O, O, 0)
  BY TurnedOverExists
<1>3. PICK W : TurnedOver(U, W, I, O, O, 0)
  BY TurnedOverExists
<1>4. Level(V, I, O, BV, nx, pv) /\ SameReading(T, B, V, BV, I)
  BY <1>2, TurnOverLevel
<1>5. /\ \A x \in I : T.suc[x] \in I /\ T.parent[x] \in O /\ T.rank[x] \in Int
      /\ T.last[P] \in I
  BY <1>1 DEF Stretches, Typed, EndsHeld
<1>6. Q = Before1(P, BV, nx, pv)
  BY DEF Before1, After1, Toggled
<1>7. T.suc[T.last[P]] \in I /\ T.parent[T.suc[T.last[P]]] = Q
  <2>1. V.first[P] = T.last[P] /\ V.last[P] = T.first[P] /\ V.prd[T.last[P]] = T.suc[T.last[P]]
        /\ \A x \in I : V.parent[x] = T.parent[x]
    BY <1>2, <1>5 DEF TurnedOver
  <2>2. T.first[P] # T.last[P]
    <3>1. T.rank[T.first[P]] <= T.rank[stop] /\ T.rank[stop] <= T.rank[T.last[P]]
      BY <1>1 DEF Stretches, RankedFromFirst
    <3>2. T.rank[T.first[P]] # T.rank[stop]
      BY <1>1 DEF Stretches, RankedOnce, EndsHeld
    <3> QED
      BY <1>1, <1>5, <3>1, <3>2 DEF Stretches, EndsHeld
  <2> DEFINE t == V.prd[V.first[P]]
  <2>3. t \in I /\ V.parent[t] = Q
    BY <1>4, <1>6, <2>1, <2>2, Neighbours
  <2> QED
    BY <2>1, <2>3
<1>8. /\ GivesLeft(V, W, I, O, P, Q, stop) /\ V.parent[stop] = P /\ stop # V.last[P]
      /\ TurnsLeft(V, P, Q) <=> TurnsRight(T, P, Q)
      /\ SwappedLeft(V, P, Q, LeftPart(V, I, P, stop)) = S
  BY <1>1, <1>2, <1>3, <1>7, RightPartMirrored
<1>9. CW = IF TurnsLeft(V, P, Q) THEN Toggled(BV, {Q}) ELSE BV
  <2>1. Toggled(Toggled(B, {Q}), O) = Toggled(Toggled(B, O), {Q})
    BY DEF Toggled
  <2> QED
    BY <1>8, <2>1
<1> HIDE DEF BV, CW, S
<1>10. /\ Level(W, I, O, CW, nx, pv) /\ SameReading(V, BV, W, CW, I)
       /\ KeptDirection(V, BV, W, CW, I, S)
  BY <1>4, <1>6, <1>8, <1>9, LeftPartLevel
<1>11. \A x \in I : U.rank[x] \in Int /\ U.parent[x] \in O
  BY <1>5, <1>7 DEF GivesRight, RightGiven
<1>12. TurnedOver(W, U, I, O, O, 0)
  BY <1>3, <1>11, TurnedOverTwice
<1>13. Level(U, I, O, Toggled(CW, O), nx, pv) /\ SameReading(W, CW, U, Toggled(CW, O), I)
  BY <1>10, <1>12, TurnOverLevel
<1>14. Toggled(CW, O) = C
  BY DEF Toggled, CW
<1>15. SameReading(T, B, U, C, I)
  BY <1>4, <1>10, <1>13, <1>14 DEF SameReading
<1>16. KeptDirection(T, B, U, C, I, S)
  <2> SUFFICES ASSUME NEW x \in I
               PROVE  U.parent[x] \in C <=> (T.parent[x] \in B <=> x \notin S)
    BY DEF KeptDirection
  <2>1. W.parent[x] \in CW <=> (V.parent[x] \in BV <=> x \notin S)
    BY <1>10 DEF KeptDirection
  <2>2. W.parent[x] = U.parent[x] /\ V.parent[x] = T.parent[x]
    BY <1>2, <1>3 DEF TurnedOver
  <2>3. T.parent[x] \in BV <=> T.parent[x] \notin B
    BY <1>5 DEF BV, Toggled
  <2>4. U.parent[x] \in CW <=> U.parent[x] \notin C
    BY <1>11 DEF CW, Toggled
  <2> QED
    BY <2>1, <2>2, <2>3, <2>4
<1> QED
  BY <1>13, <1>14, <1>15, <1>16 DEF S

-----------------------------------------------------------------------------
(* The list as it is read. *)

\* Inside a stretch suc and prd undo each other.
LEMMA Within ==
    ASSUME NEW T, NEW I, NEW O, Stretches(T, I, O), NEW x \in I
    PROVE  LET P == T.parent[x] IN
           /\ P \in O
           /\ x # T.last[P] => /\ T.suc[x] \in I /\ T.parent[T.suc[x]] = P /\ T.prd[T.suc[x]] = x
                               /\ T.suc[x] # T.first[P] /\ T.rank[T.suc[x]] = T.rank[x] + 1
           /\ x # T.first[P] => /\ T.prd[x] \in I /\ T.parent[T.prd[x]] = P /\ T.suc[T.prd[x]] = x
                                /\ T.prd[x] # T.last[P] /\ T.rank[T.prd[x]] = T.rank[x] - 1
<1> DEFINE P == T.parent[x]
<1>1. \A y \in I : T.suc[y] \in I /\ T.prd[y] \in I /\ T.rank[y] \in Int /\ T.parent[y] \in O
  BY DEF Stretches, Typed
<1>2. \A y \in I : T.parent[y] = P => T.rank[T.first[P]] <= T.rank[y] /\ T.rank[y] <= T.rank[T.last[P]]
  BY DEF Stretches, RankedFromFirst
<1>3. T.first[P] \in I /\ T.last[P] \in I /\ T.parent[T.first[P]] = P /\ T.parent[T.last[P]] = P
  BY <1>1 DEF Stretches, EndsHeld
<1> DEFINE y == T.suc[x]
           z == T.prd[x]
<1>4. ASSUME x # T.last[P]
      PROVE  y \in I /\ T.parent[y] = P /\ T.prd[y] = x /\ y # T.first[P] /\ T.rank[y] = T.rank[x] + 1
  <2>1. y \in I /\ T.parent[y] = P /\ T.rank[y] = T.rank[x] + 1
    BY <1>1, <1>4 DEF Stretches, UpToLast
  <2> HIDE DEF y, P
  <2>2. T.rank[y] # T.rank[T.first[P]]
    BY <1>1, <1>2, <1>3, <2>1 DEF P
  <2>3. T.prd[y] \in I /\ T.parent[T.prd[y]] = P /\ T.rank[T.prd[y]] = T.rank[y] - 1
    BY <1>1, <2>1, <2>2 DEF Stretches, DownToFirst
  <2>4. T.rank[T.prd[y]] = T.rank[x]
    BY <1>1, <2>1, <2>3
  <2>5. T.prd[y] = x
    BY <2>3, <2>4 DEF Stretches, RankedOnce, P
  <2> QED
    BY <2>1, <2>2, <2>5
<1>5. ASSUME x # T.first[P]
      PROVE  z \in I /\ T.parent[z] = P /\ T.suc[z] = x /\ z # T.last[P] /\ T.rank[z] = T.rank[x] - 1
  <2>1. z \in I /\ T.parent[z] = P /\ T.rank[z] = T.rank[x] - 1
    BY <1>1, <1>5 DEF Stretches, DownToFirst
  <2> HIDE DEF z, P
  <2>2. T.rank[z] # T.rank[T.last[P]]
    BY <1>1, <1>2, <1>3, <2>1 DEF P
  <2>3. T.suc[z] \in I /\ T.parent[T.suc[z]] = P /\ T.rank[T.suc[z]] = T.rank[z] + 1
    BY <1>1, <2>1, <2>2 DEF Stretches, UpToLast
  <2>4. T.rank[T.suc[z]] = T.rank[x]
    BY <1>1, <2>1, <2>3
  <2>5. T.suc[z] = x
    BY <2>3, <2>4 DEF Stretches, RankedOnce, P
  <2> QED
    BY <2>1, <2>2, <2>5
<1> QED
  BY <1>1, <1>4, <1>5

\* Forth and Back undo each other on the whole list.
LEMMA LevelInverse ==
    ASSUME NEW T, NEW I, NEW O, NEW B, NEW nx, NEW pv, Level(T, I, O, B, nx, pv), NEW x \in I
    PROVE  /\ Forth(T, B, x) \in I /\ Back(T, B, Forth(T, B, x)) = x
           /\ Back(T, B, x) \in I /\ Forth(T, B, Back(T, B, x)) = x
<1> DEFINE P == T.parent[x]
<1> USE DEF Level
<1>1. P \in O /\ nx[P] \in O /\ pv[P] \in O /\ pv[nx[P]] = P /\ nx[pv[P]] = P
  BY DEF Stretches, Typed, Linked
<1>2. \A R \in O : /\ Forth(T, B, Exit(T, B, R)) = Entry(T, B, nx[R]) /\ Entry(T, B, R) \in I
                   /\ Back(T, B, Entry(T, B, R)) = Exit(T, B, pv[R]) /\ Exit(T, B, R) \in I
  BY DEF Joined, Stretches, EndsHeld, Entry, Exit
<1>3. Forth(T, B, x) \in I /\ Back(T, B, Forth(T, B, x)) = x
  <2>1. CASE x = Exit(T, B, P)
    BY <1>1, <1>2, <2>1
  <2>2. CASE x # Exit(T, B, P)
    BY <2>2, Within DEF Exit, Forth, Back
  <2> QED
    BY <2>1, <2>2
<1>4. Back(T, B, x) \in I /\ Forth(T, B, Back(T, B, x)) = x
  <2>1. CASE x = Entry(T, B, P)
    BY <1>1, <1>2, <2>1
  <2>2. CASE x # Entry(T, B, P)
    BY <2>2, Within DEF Entry, Forth, Back
  <2> QED
    BY <2>1, <2>2
<1> QED
  BY <1>3, <1>4

-----------------------------------------------------------------------------
(* A path is turned around. *)

\* D is the path from s to e, as the list is read.
Arc(T, B, I, D, s, e) ==
    /\ D \subseteq I /\ s \in D /\ e \in D
    /\ Back(T, B, s) \notin D /\ Forth(T, B, e) \notin D
    /\ \A x \in D : x # e => Forth(T, B, x) \in D
    /\ \A x \in D : x # s => Back(T, B, x) \in D

\* U is read as T is, but for the path from s to e, which is read the other way.
Flipped(T, B, U, C, I, D, s, e) ==
    LET b == Back(T, B, s)
        f == Forth(T, B, e)
    IN  \A x \in I :
          /\ Forth(U, C, x) = IF x = s THEN f ELSE IF x = b THEN e
                              ELSE IF x \in D THEN Back(T, B, x) ELSE Forth(T, B, x)
          /\ Back(U, C, x) = IF x = f THEN s ELSE IF x = e THEN b
                             ELSE IF x \in D THEN Forth(T, B, x) ELSE Back(T, B, x)

\* The items from a to z of one stretch.
Inner(T, I, a, z) ==
    {x \in I : T.parent[x] = T.parent[a] /\ T.rank[a] <= T.rank[x] /\ T.rank[x] <= T.rank[z]}

\* What FlipNodes(p, a, n, z) does.
FlippedInside(T, U, I, O, p, a, n, z) ==
    LET M == Inner(T, I, a, z)
        P == T.parent[a]
    IN  /\ \A x \in I :
              /\ U.suc[x] = IF x = a THEN n ELSE IF x \in M THEN T.prd[x]
                            ELSE IF x = p /\ T.suc[p] = a THEN z
                            ELSE IF x = n /\ T.prd[n] # z THEN a ELSE T.suc[x]
              /\ U.prd[x] = IF x = z THEN p ELSE IF x \in M THEN T.suc[x]
                            ELSE IF x = n /\ T.prd[n] = z THEN a
                            ELSE IF x = p /\ T.suc[p] # a THEN z ELSE T.prd[x]
              /\ U.rank[x] = IF x \in M THEN T.rank[a] + T.rank[z] - T.rank[x] ELSE T.rank[x]
              /\ U.parent[x] = T.parent[x]
        /\ \A R \in O :
              /\ U.first[R] = IF R = P /\ T.first[P] = a THEN z ELSE T.first[R]
              /\ U.last[R] = IF R = P /\ T.last[P] = z THEN a ELSE T.last[R]
              /\ U.size[R] = T.size[R]

\* The ends of a stretch have neighbours in other stretches.
LEMMA EndsLeave ==
    ASSUME NEW T, NEW I, NEW O, NEW B, NEW nx, NEW pv, Level(T, I, O, B, nx, pv), NEW P \in O
    PROVE  T.parent[T.prd[T.first[P]]] # P /\ T.parent[T.suc[T.last[P]]] # P
<1>1. \A R \in O : /\ T.parent[T.first[R]] = R /\ T.parent[T.last[R]] = R
                   /\ T.parent[Entry(T, B, R)] = R /\ T.parent[Exit(T, B, R)] = R
  BY DEF Level, Stretches, EndsHeld, Entry, Exit
<1>2. /\ nx[P] \in O /\ nx[P] # P /\ pv[P] \in O /\ pv[P] # P
      /\ Forth(T, B, Exit(T, B, P)) = Entry(T, B, nx[P])
      /\ Back(T, B, Entry(T, B, P)) = Exit(T, B, pv[P])
  BY DEF Level, Linked, Joined
<1>3. T.parent[Forth(T, B, Exit(T, B, P))] # P /\ T.parent[Back(T, B, Entry(T, B, P))] # P
  BY <1>1, <1>2
<1>4. CASE P \in B
  <2>1. Forth(T, B, Exit(T, B, P)) = T.prd[T.first[P]] /\ Back(T, B, Entry(T, B, P)) = T.suc[T.last[P]]
    BY <1>1, <1>4 DEF Forth, Back, Entry, Exit
  <2> QED
    BY <1>3, <2>1
<1>5. CASE P \notin B
  <2>1. Forth(T, B, Exit(T, B, P)) = T.suc[T.last[P]] /\ Back(T, B, Entry(T, B, P)) = T.prd[T.first[P]]
    BY <1>1, <1>5 DEF Forth, Back, Entry, Exit
  <2> QED
    BY <1>3, <2>1
<1> QED
  BY <1>4, <1>5

\* The neighbours p and n of the path from a to z.
LEMMA InnerFacts ==
    ASSUME NEW T, NEW I, NEW O, NEW B, NEW nx, NEW pv, Level(T, I, O, B, nx, pv),
           NEW a \in I, NEW z \in I, T.parent[z] = T.parent[a], T.rank[a] < T.rank[z],
           NEW M, M = Inner(T, I, a, z),
           NEW p, p = T.prd[a], NEW n, n = T.suc[z], NEW P, P = T.parent[a]
    PROVE  /\ P \in O /\ a # z /\ a \in M /\ z \in M /\ a # T.last[P] /\ z # T.first[P]
           /\ M \subseteq I /\ \A x \in M : T.parent[x] = P
           /\ \A x \in M : x # a => T.prd[x] \in M /\ T.suc[T.prd[x]] = x
           /\ \A x \in M : x # z => T.suc[x] \in M /\ T.prd[T.suc[x]] = x
           /\ p \in I \ M /\ n \in I \ M
           /\ T.suc[p] = a \/ T.prd[p] = a
           /\ T.suc[n] = z \/ T.prd[n] = z
           /\ T.parent[p] = P => T.suc[p] = a /\ a # T.first[P] /\ T.rank[p] = T.rank[a] - 1 /\ p # T.last[P]
           /\ T.parent[p] # P => a = T.first[P]
           /\ T.parent[n] = P => T.prd[n] = z /\ z # T.last[P] /\ T.rank[n] = T.rank[z] + 1 /\ n # T.first[P]
           /\ T.parent[n] # P => z = T.last[P]
           /\ P \notin B => /\ Forth(T, B, p) = a /\ Back(T, B, p) # a
                            /\ Back(T, B, n) = z /\ Forth(T, B, n) # z
           /\ P \in B => /\ Back(T, B, p) = a /\ Forth(T, B, p) # a
                         /\ Forth(T, B, n) = z /\ Back(T, B, n) # z
<1>1. Stretches(T, I, O) /\ Linked(O, nx, pv) /\ Joined(T, O, B, nx, pv)
  BY DEF Level
<1>2. /\ \A x \in I : T.suc[x] \in I /\ T.prd[x] \in I /\ T.rank[x] \in Int /\ T.parent[x] \in O
      /\ T.first[P] \in I /\ T.last[P] \in I /\ T.parent[T.first[P]] = P /\ T.parent[T.last[P]] = P
  BY <1>1 DEF Stretches, Typed, EndsHeld
<1>3. P \in O /\ a # z /\ M \subseteq I /\ p \in I /\ n \in I /\ (\A x \in M : T.parent[x] = P)
  BY <1>2 DEF Inner
<1>4. a \in M /\ z \in M
  <2>1. T.rank[a] <= T.rank[z] /\ T.rank[a] <= T.rank[a] /\ T.rank[z] <= T.rank[z]
    BY <1>2
  <2> QED
    BY <2>1 DEF Inner
<1>5. a # T.last[P] /\ z # T.first[P]
  <2>1. T.rank[z] <= T.rank[T.last[P]] /\ T.rank[T.first[P]] <= T.rank[a]
    BY <1>1 DEF Stretches, RankedFromFirst
  <2> QED
    BY <1>2, <2>1
<1>6. ASSUME NEW x \in M, x # a PROVE T.prd[x] \in M /\ T.suc[T.prd[x]] = x
  <2>1. T.parent[x] = P /\ T.rank[a] <= T.rank[x] /\ T.rank[x] <= T.rank[z] /\ x \in I
    BY DEF Inner
  <2>2. T.rank[a] # T.rank[x]
    BY <1>1, <1>6, <2>1 DEF Stretches, RankedOnce
  <2>3. T.rank[T.first[P]] <= T.rank[a]
    BY <1>1 DEF Stretches, RankedFromFirst
  <2>4. x # T.first[P]
    BY <1>2, <2>1, <2>2, <2>3
  <2>5. /\ T.prd[x] \in I /\ T.parent[T.prd[x]] = P /\ T.suc[T.prd[x]] = x
        /\ T.rank[T.prd[x]] = T.rank[x] - 1
    BY <1>1, <2>1, <2>4, Within
  <2>6. T.rank[a] <= T.rank[x] - 1 /\ T.rank[x] - 1 <= T.rank[z]
    BY <1>2, <2>1, <2>2
  <2> QED
    BY <2>5, <2>6 DEF Inner
<1>7. ASSUME NEW x \in M, x # z PROVE T.suc[x] \in M /\ T.prd[T.suc[x]] = x
  <2>1. T.parent[x] = P /\ T.rank[a] <= T.rank[x] /\ T.rank[x] <= T.rank[z] /\ x \in I
    BY DEF Inner
  <2>2. T.rank[z] # T.rank[x]
    BY <1>1, <1>7, <2>1 DEF Stretches, RankedOnce
  <2>3. T.rank[z] <= T.rank[T.last[P]]
    BY <1>1 DEF Stretches, RankedFromFirst
  <2>4. x # T.last[P]
    BY <1>2, <2>1, <2>2, <2>3
  <2>5. /\ T.suc[x] \in I /\ T.parent[T.suc[x]] = P /\ T.prd[T.suc[x]] = x
        /\ T.rank[T.suc[x]] = T.rank[x] + 1
    BY <1>1, <2>1, <2>4, Within
  <2>6. T.rank[a] <= T.rank[x] + 1 /\ T.rank[x] + 1 <= T.rank[z]
    BY <1>2, <2>1, <2>2
  <2> QED
    BY <2>5, <2>6 DEF Inner
\* Outside the stretch only if at its end.
<1>8. T.parent[p] = P => T.suc[p] = a /\ a # T.first[P] /\ T.rank[p] = T.rank[a] - 1 /\ p # T.last[P]
  BY <1>1, <1>3, EndsLeave, Within
<1>9. T.parent[p] # P => a = T.first[P]
  BY <1>1, Within
<1>10. T.parent[n] = P => T.prd[n] = z /\ z # T.last[P] /\ T.rank[n] = T.rank[z] + 1 /\ n # T.first[P]
  BY <1>1, <1>3, EndsLeave, Within
<1>11. T.parent[n] # P => z = T.last[P]
  BY <1>1, Within
<1>12. p \notin M /\ n \notin M
  <2>1. T.parent[p] = P => ~(T.rank[a] <= T.rank[p])
    BY <1>2, <1>8
  <2>2. T.parent[n] = P => ~(T.rank[n] <= T.rank[z])
    BY <1>2, <1>10
  <2> QED
    BY <2>1, <2>2 DEF Inner
<1>13. T.suc[a] \in M /\ T.prd[z] \in M
  BY <1>3, <1>4, <1>6, <1>7
<1>14. \A x \in I : /\ Back(T, B, Forth(T, B, x)) = x /\ Forth(T, B, Back(T, B, x)) = x
  BY LevelInverse
<1>15. CASE P \notin B
  <2>1. p = Back(T, B, a) /\ n = Forth(T, B, z) /\ Forth(T, B, a) = T.suc[a] /\ Back(T, B, z) = T.prd[z]
    BY <1>15 DEF Forth, Back
  <2>2. Forth(T, B, p) = a /\ Back(T, B, n) = z
    BY <1>14, <2>1
  <2>3. Back(T, B, p) # a /\ Forth(T, B, n) # z
    BY <1>3, <1>12, <1>13, <1>14, <2>1
  <2>4. (T.suc[p] = a \/ T.prd[p] = a) /\ (T.suc[n] = z \/ T.prd[n] = z)
    BY <2>2 DEF Forth, Back
  <2> QED
    BY <1>3, <1>4, <1>5, <1>6, <1>7, <1>8, <1>9, <1>10, <1>11, <1>12, <1>15, <2>2, <2>3, <2>4
<1>16. CASE P \in B
  <2>1. p = Forth(T, B, a) /\ n = Back(T, B, z) /\ Back(T, B, a) = T.suc[a] /\ Forth(T, B, z) = T.prd[z]
    BY <1>16 DEF Forth, Back
  <2>2. Back(T, B, p) = a /\ Forth(T, B, n) = z
    BY <1>14, <2>1
  <2>3. Forth(T, B, p) # a /\ Back(T, B, n) # z
    BY <1>3, <1>12, <1>13, <1>14, <2>1
  <2>4. (T.suc[p] = a \/ T.prd[p] = a) /\ (T.suc[n] = z \/ T.prd[n] = z)
    BY <2>2 DEF Forth, Back
  <2> QED
    BY <1>3, <1>4, <1>5, <1>6, <1>7, <1>8, <1>9, <1>10, <1>11, <1>12, <1>16, <2>2, <2>3, <2>4
<1> QED
  BY <1>15, <1>16

\* The stretch stays one.
LEMMA InsideStretches ==
    ASSUME NEW T, NEW U, NEW I, NEW O, NEW B, NEW nx, NEW pv, Level(T, I, O, B, nx, pv),
           NEW a \in I, NEW z \in I, T.parent[z] = T.parent[a], T.rank[a] < T.rank[z],
           NEW p, p = T.prd[a], NEW n, n = T.suc[z], p # n,
           FlippedInside(T, U, I, O, p, a, n, z)
    PROVE  Stretches(U, I, O)
<1> DEFINE M == Inner(T, I, a, z)
           P == T.parent[a]
           k == T.rank[a] + T.rank[z]
<1>1. Stretches(T, I, O)
  BY DEF Level
<1>2. /\ P \in O /\ a # z /\ a \in M /\ z \in M /\ a # T.last[P] /\ z # T.first[P]
      /\ M \subseteq I /\ \A x \in M : T.parent[x] = P
      /\ \A x \in M : x # a => T.prd[x] \in M /\ T.suc[T.prd[x]] = x
      /\ \A x \in M : x # z => T.suc[x] \in M /\ T.prd[T.suc[x]] = x
      /\ p \in I \ M /\ n \in I \ M
      /\ T.suc[p] = a \/ T.prd[p] = a
      /\ T.suc[n] = z \/ T.prd[n] = z
      /\ T.parent[p] = P => T.suc[p] = a /\ a # T.first[P] /\ T.rank[p] = T.rank[a] - 1 /\ p # T.last[P]
      /\ T.parent[p] # P => a = T.first[P]
      /\ T.parent[n] = P => T.prd[n] = z /\ z # T.last[P] /\ T.rank[n] = T.rank[z] + 1 /\ n # T.first[P]
      /\ T.parent[n] # P => z = T.last[P]
  BY InnerFacts
<1>3. /\ \A x \in I : T.suc[x] \in I /\ T.prd[x] \in I /\ T.rank[x] \in Int /\ T.parent[x] \in O
      /\ \A R \in O : /\ T.first[R] \in I /\ T.last[R] \in I
                      /\ T.parent[T.first[R]] = R /\ T.parent[T.last[R]] = R
  BY <1>1 DEF Stretches, Typed, EndsHeld
<1>4. /\ \A x \in I :
            /\ U.suc[x] = IF x = a THEN n ELSE IF x \in M THEN T.prd[x]
                          ELSE IF x = p /\ T.suc[p] = a THEN z
                          ELSE IF x = n /\ T.prd[n] # z THEN a ELSE T.suc[x]
            /\ U.prd[x] = IF x = z THEN p ELSE IF x \in M THEN T.suc[x]
                          ELSE IF x = n /\ T.prd[n] = z THEN a
                          ELSE IF x = p /\ T.suc[p] # a THEN z ELSE T.prd[x]
            /\ U.rank[x] = IF x \in M THEN T.rank[a] + T.rank[z] - T.rank[x] ELSE T.rank[x]
            /\ U.parent[x] = T.parent[x]
      /\ \A R \in O :
            /\ U.first[R] = IF R = P /\ T.first[P] = a THEN z ELSE T.first[R]
            /\ U.last[R] = IF R = P /\ T.last[P] = z THEN a ELSE T.last[R]
            /\ U.size[R] = T.size[R]
  BY DEF FlippedInside
<1>5. \A x \in M : T.rank[a] <= T.rank[x] /\ T.rank[x] <= T.rank[z]
  BY DEF Inner
<1>6. \A x \in I : T.parent[x] = P /\ x \notin M => T.rank[x] < T.rank[a] \/ T.rank[x] > T.rank[z]
  BY <1>3 DEF Inner
<1> HIDE DEF M, P
<1>7. \A x \in M : U.rank[x] \in Int /\ T.rank[a] <= U.rank[x] /\ U.rank[x] <= T.rank[z]
  BY <1>2, <1>3, <1>4, <1>5
<1>17. k \in Int /\ \A x \in M : U.rank[x] = k - T.rank[x]
  BY <1>2, <1>3, <1>4
<1> HIDE DEF k
<1>8. U.rank[a] = T.rank[z] /\ U.rank[z] = T.rank[a]
  BY <1>2, <1>3, <1>4
<1>9. Typed(U, I, O)
  BY SMTT(20), <1>2, <1>3, <1>4 DEF Typed
<1>10. EndsHeld(U, I, O)
  BY <1>2, <1>3, <1>4 DEF EndsHeld
\* The ranks of the ends stay, whatever their places hold.
<1>11. \A R \in O : U.rank[U.first[R]] = T.rank[T.first[R]] /\ U.rank[U.last[R]] = T.rank[T.last[R]]
  <2> SUFFICES ASSUME NEW R \in O
               PROVE  U.rank[U.first[R]] = T.rank[T.first[R]] /\ U.rank[U.last[R]] = T.rank[T.last[R]]
    OBVIOUS
  <2>1. T.first[R] \in M => R = P /\ T.first[P] = a
    <3>1. T.rank[T.first[P]] <= T.rank[a]
      BY <1>1 DEF Stretches, RankedFromFirst, P
    <3>2. T.first[P] \in M => T.rank[T.first[P]] = T.rank[a]
      BY <1>2, <1>3, <1>5, <3>1
    <3>3. T.first[P] \in M => T.first[P] = a
      BY <1>1, <1>2, <3>2 DEF Stretches, RankedOnce, P
    <3> QED
      BY <1>2, <1>3, <3>3
  <2>2. T.last[R] \in M => R = P /\ T.last[P] = z
    <3>1. T.rank[z] <= T.rank[T.last[P]]
      BY <1>1 DEF Stretches, RankedFromFirst, P
    <3>2. T.last[P] \in M => T.rank[T.last[P]] = T.rank[z]
      BY <1>2, <1>3, <1>5, <3>1
    <3>3. T.last[P] \in M => T.last[P] = z
      BY <1>1, <1>2, <3>2 DEF Stretches, RankedOnce, P
    <3> QED
      BY <1>2, <1>3, <3>3
  <2>3. U.rank[U.first[R]] = T.rank[T.first[R]]
    BY <1>3, <1>4, <1>8, <2>1
  <2>4. U.rank[U.last[R]] = T.rank[T.last[R]]
    BY <1>3, <1>4, <1>8, <2>2
  <2> QED
    BY <2>3, <2>4
<1>12. Sized(U, O)
  BY <1>1, <1>4, <1>11 DEF Stretches, Sized
<1>13. RankedFromFirst(U, I)
  <2>4. \A x \in I : U.parent[x] = T.parent[x] /\ T.parent[x] \in O
    BY <1>3, <1>4
  <2>5. \A x \in I : /\ U.rank[U.first[U.parent[x]]] = T.rank[T.first[T.parent[x]]]
                      /\ U.rank[U.last[U.parent[x]]] = T.rank[T.last[T.parent[x]]]
    BY <1>11, <2>4
  <2> SUFFICES ASSUME NEW x \in I
               PROVE  /\ T.rank[T.first[T.parent[x]]] <= U.rank[x]
                      /\ U.rank[x] <= T.rank[T.last[T.parent[x]]]
    BY <2>5 DEF RankedFromFirst
  <2>1. \A y \in I : T.rank[T.first[T.parent[y]]] <= T.rank[y] /\ T.rank[y] <= T.rank[T.last[T.parent[y]]]
    BY <1>1 DEF Stretches, RankedFromFirst
  <2>2. CASE x \in M
    <3>1. T.parent[x] = P /\ T.rank[T.first[P]] <= T.rank[a] /\ T.rank[z] <= T.rank[T.last[P]]
      BY <1>2, <2>1, <2>2 DEF P
    <3> QED
      BY <1>2, <1>3, <1>7, <2>2, <3>1
  <2>3. CASE x \notin M
    BY <1>4, <2>1, <2>3
  <2> QED
    BY <2>2, <2>3
<1>14. RankedOnce(U, I)
  <2> SUFFICES ASSUME NEW x \in I, NEW y \in I, T.parent[x] = T.parent[y], U.rank[x] = U.rank[y]
               PROVE  T.rank[x] = T.rank[y]
    BY <1>1, <1>4 DEF Stretches, RankedOnce
  <2>1. CASE x \in M /\ y \in M
    <3>1. T.rank[x] \in Int /\ T.rank[y] \in Int
      BY <1>3
    <3>2. k - T.rank[x] = k - T.rank[y]
      BY <1>17, <2>1
    <3> QED
      BY <1>17, <3>1, <3>2
  <2>2. CASE x \in M /\ y \notin M
    BY <1>2, <1>3, <1>4, <1>6, <1>7, <2>2
  <2>3. CASE x \notin M /\ y \in M
    BY <1>2, <1>3, <1>4, <1>6, <1>7, <2>3
  <2>4. CASE x \notin M /\ y \notin M
    BY <1>4, <2>4
  <2> QED
    BY <2>1, <2>2, <2>3, <2>4
<1>15. UpToLast(U, I)
  <2> SUFFICES ASSUME NEW x \in I, x # U.last[T.parent[x]]
               PROVE  T.parent[U.suc[x]] = T.parent[x] /\ U.rank[U.suc[x]] = U.rank[x] + 1
    BY <1>2, <1>3, <1>4 DEF UpToLast
  <2>1. LET R == T.parent[x] IN
        /\ x # T.last[R] => /\ T.suc[x] \in I /\ T.parent[T.suc[x]] = R /\ T.prd[T.suc[x]] = x
                            /\ T.suc[x] # T.first[R] /\ T.rank[T.suc[x]] = T.rank[x] + 1
        /\ x # T.first[R] => /\ T.prd[x] \in I /\ T.parent[T.prd[x]] = R /\ T.suc[T.prd[x]] = x
                             /\ T.prd[x] # T.last[R] /\ T.rank[T.prd[x]] = T.rank[x] - 1
    BY <1>1, Within
  <2>2. CASE x = a
    <3>1. U.suc[x] = n /\ T.parent[n] = P
      BY <1>2, <1>4, <2>2 DEF P
    <3> QED
      BY <1>2, <1>3, <1>4, <1>8, <2>2, <3>1 DEF P
  <2>3. CASE x \in M /\ x # a
    <3>1. U.suc[x] = T.prd[x] /\ T.prd[x] \in M /\ x # T.first[P] /\ T.parent[x] = P
      <4>1. x # T.first[P]
        <5>1. T.rank[T.first[P]] <= T.rank[a]
          BY <1>1 DEF Stretches, RankedFromFirst, P
        <5>2. T.rank[x] # T.rank[a]
          BY <1>1, <1>2, <2>3 DEF Stretches, RankedOnce
        <5> QED
          BY <1>2, <1>3, <1>5, <2>3, <5>1, <5>2
      <4> QED
        BY <1>2, <1>4, <2>3, <4>1
    <3>2. T.rank[T.prd[x]] = T.rank[x] - 1
      BY <2>1, <3>1
    <3>3. U.rank[T.prd[x]] = k - (T.rank[x] - 1) /\ U.rank[x] = k - T.rank[x]
      BY <1>17, <2>3, <3>1, <3>2
    <3>4. U.rank[T.prd[x]] = U.rank[x] + 1
      BY <1>3, <1>17, <3>3
    <3> QED
      BY <1>2, <3>1, <3>4
  <2>4. CASE x = p /\ T.suc[p] = a
    <3>1. U.suc[x] = z /\ T.parent[x] = P
      BY <1>2, <1>3, <1>4, <2>1, <2>4 DEF P
    <3>2. U.rank[z] = T.rank[a] /\ U.rank[p] = T.rank[a] - 1
      BY <1>2, <1>4, <1>8, <2>4, <3>1
    <3> QED
      BY <1>2, <1>3, <2>4, <3>1, <3>2
  <2>5. CASE x = n /\ T.prd[n] # z
    BY SMTT(20), <1>2, <1>3, <1>4, <2>1, <2>5
  <2>6. CASE x \notin M /\ (x = p => T.suc[p] # a) /\ (x = n => T.prd[n] = z)
    <3>1. U.suc[x] = T.suc[x] /\ U.rank[x] = T.rank[x]
      BY <1>2, <1>4, <2>6
    <3>2. x # T.last[T.parent[x]]
      BY <1>2, <1>3, <1>4, <2>6
    <3>3. T.suc[x] \notin M
      <4> SUFFICES ASSUME T.suc[x] \in M PROVE FALSE
        OBVIOUS
      <4>1. T.prd[T.suc[x]] = x
        BY <2>1, <3>2
      <4>2. T.suc[x] = a
        BY <1>2, <2>6, <4>1
      <4> QED
        BY <2>6, <4>1, <4>2
    <3> QED
      BY <1>4, <2>1, <3>1, <3>2, <3>3
  <2> QED
    BY <1>2, <2>2, <2>3, <2>4, <2>5, <2>6
<1>16. DownToFirst(U, I)
  <2> SUFFICES ASSUME NEW x \in I, x # U.first[T.parent[x]]
               PROVE  T.parent[U.prd[x]] = T.parent[x] /\ U.rank[U.prd[x]] = U.rank[x] - 1
    BY <1>2, <1>3, <1>4 DEF DownToFirst
  <2>1. LET R == T.parent[x] IN
        /\ x # T.last[R] => /\ T.suc[x] \in I /\ T.parent[T.suc[x]] = R /\ T.prd[T.suc[x]] = x
                            /\ T.suc[x] # T.first[R] /\ T.rank[T.suc[x]] = T.rank[x] + 1
        /\ x # T.first[R] => /\ T.prd[x] \in I /\ T.parent[T.prd[x]] = R /\ T.suc[T.prd[x]] = x
                             /\ T.prd[x] # T.last[R] /\ T.rank[T.prd[x]] = T.rank[x] - 1
    BY <1>1, Within
  <2>2. CASE x = z
    <3>1. U.prd[x] = p /\ T.parent[p] = P
      BY <1>2, <1>4, <2>2 DEF P
    <3> QED
      BY <1>2, <1>3, <1>4, <1>8, <2>2, <3>1 DEF P
  <2>3. CASE x \in M /\ x # z
    <3>1. U.prd[x] = T.suc[x] /\ T.suc[x] \in M /\ x # T.last[P] /\ T.parent[x] = P
      <4>1. x # T.last[P]
        <5>1. T.rank[z] <= T.rank[T.last[P]]
          BY <1>1 DEF Stretches, RankedFromFirst, P
        <5>2. T.rank[x] # T.rank[z]
          BY <1>1, <1>2, <2>3 DEF Stretches, RankedOnce
        <5> QED
          BY <1>2, <1>3, <1>5, <2>3, <5>1, <5>2
      <4> QED
        BY <1>2, <1>4, <2>3, <4>1
    <3>2. T.rank[T.suc[x]] = T.rank[x] + 1
      BY <2>1, <3>1
    <3>3. U.rank[T.suc[x]] = k - (T.rank[x] + 1) /\ U.rank[x] = k - T.rank[x]
      BY <1>17, <2>3, <3>1, <3>2
    <3>4. U.rank[T.suc[x]] = U.rank[x] - 1
      BY <1>3, <1>17, <3>3
    <3> QED
      BY <1>2, <3>1, <3>4
  <2>4. CASE x = n /\ T.prd[n] = z
    <3>1. T.parent[x] = P
      <4> SUFFICES ASSUME T.parent[x] # P PROVE FALSE
        OBVIOUS
      <4>1. T.parent[x] \in O /\ U.first[T.parent[x]] = T.first[T.parent[x]]
        BY <1>3, <1>4
      <4>2. T.parent[T.prd[x]] = T.parent[x]
        BY <2>1, <4>1
      <4> QED
        BY <1>2, <2>4, <4>2
    <3>3. n # z /\ n \notin M
      BY <1>2, <1>4
    <3>4. U.prd[x] = a
      BY <1>4, <2>4, <3>3
    <3>2. U.rank[a] = T.rank[z] /\ U.rank[n] = T.rank[z] + 1
      BY <1>2, <1>4, <1>8, <2>4, <3>1
    <3> QED
      BY <1>2, <1>3, <2>4, <3>1, <3>2, <3>4
  <2>5. CASE x = p /\ T.suc[p] # a
    BY <1>2, <1>3, <1>4, <2>1, <2>5
  <2>6. CASE x \notin M /\ (x = p => T.suc[p] = a) /\ (x = n => T.prd[n] # z)
    <3>1. U.prd[x] = T.prd[x] /\ U.rank[x] = T.rank[x]
      BY <1>2, <1>4, <2>6
    <3>2. x # T.first[T.parent[x]]
      BY <1>2, <1>3, <1>4, <2>6
    <3>3. T.prd[x] \notin M
      <4> SUFFICES ASSUME T.prd[x] \in M PROVE FALSE
        OBVIOUS
      <4>1. T.suc[T.prd[x]] = x
        BY <2>1, <3>2
      <4>2. T.prd[x] = z
        BY <1>2, <2>6, <4>1
      <4> QED
        BY <2>6, <4>1, <4>2
    <3> QED
      BY <1>4, <2>1, <3>1, <3>2, <3>3
  <2> QED
    BY <1>2, <2>2, <2>3, <2>4, <2>5, <2>6
<1> QED
  BY <1>9, <1>10, <1>12, <1>13, <1>14, <1>15, <1>16 DEF Stretches

\* FlipNodes turns a path of the tour around.
LEMMA InsideFlipped ==
    ASSUME NEW T, NEW U, NEW I, NEW O, NEW B, NEW nx, NEW pv, Level(T, I, O, B, nx, pv),
           NEW a \in I, NEW z \in I, T.parent[z] = T.parent[a], T.rank[a] < T.rank[z],
           NEW p, p = T.prd[a], NEW n, n = T.suc[z], p # n,
           FlippedInside(T, U, I, O, p, a, n, z),
           NEW s, s = IF T.parent[a] \in B THEN z ELSE a,
           NEW e, e = IF T.parent[a] \in B THEN a ELSE z
    PROVE  Arc(T, B, I, Inner(T, I, a, z), s, e) /\ Flipped(T, B, U, B, I, Inner(T, I, a, z), s, e)
<1> DEFINE M == Inner(T, I, a, z)
           P == T.parent[a]
<1>1. /\ a # z /\ a \in M /\ z \in M
      /\ M \subseteq I /\ \A x \in M : T.parent[x] = P
      /\ \A x \in M : x # a => T.prd[x] \in M
      /\ \A x \in M : x # z => T.suc[x] \in M
      /\ p \in I \ M /\ n \in I \ M
      /\ P \notin B => /\ Forth(T, B, p) = a /\ Back(T, B, p) # a
                       /\ Back(T, B, n) = z /\ Forth(T, B, n) # z
      /\ P \in B => /\ Back(T, B, p) = a /\ Forth(T, B, p) # a
                    /\ Forth(T, B, n) = z /\ Back(T, B, n) # z
  BY InnerFacts
<1>2. \A x \in I :
         /\ U.suc[x] = IF x = a THEN n ELSE IF x \in M THEN T.prd[x]
                       ELSE IF x = p /\ T.suc[p] = a THEN z
                       ELSE IF x = n /\ T.prd[n] # z THEN a ELSE T.suc[x]
         /\ U.prd[x] = IF x = z THEN p ELSE IF x \in M THEN T.suc[x]
                       ELSE IF x = n /\ T.prd[n] = z THEN a
                       ELSE IF x = p /\ T.suc[p] # a THEN z ELSE T.prd[x]
         /\ U.parent[x] = T.parent[x]
  BY DEF FlippedInside
<1> HIDE DEF M, P
<1>3. CASE P \notin B
  <2>1. s = a /\ e = z /\ Back(T, B, s) = p /\ Forth(T, B, e) = n
    BY <1>1, <1>3 DEF P, Forth, Back
  <2>2. Arc(T, B, I, M, s, e)
    BY <1>1, <1>3, <2>1 DEF Arc, Forth, Back
  <2>3. ASSUME NEW x \in I
        PROVE  /\ Forth(U, B, x) = IF x = a THEN n ELSE IF x = p THEN z
                                   ELSE IF x \in M THEN Back(T, B, x) ELSE Forth(T, B, x)
               /\ Back(U, B, x) = IF x = n THEN a ELSE IF x = z THEN p
                                  ELSE IF x \in M THEN Forth(T, B, x) ELSE Back(T, B, x)
    <3>1. CASE x \in M
      <4>1. T.parent[x] \notin B
        BY <1>1, <1>3, <3>1
      <4> QED
        BY <1>1, <1>2, <3>1, <4>1 DEF Forth, Back
    <3>2. CASE x = p
      BY <1>1, <1>2, <1>3, <3>2 DEF Forth, Back
    <3>3. CASE x = n
      BY <1>1, <1>2, <1>3, <3>3 DEF Forth, Back
    <3>4. CASE x \notin M /\ x # p /\ x # n
      BY <1>1, <1>2, <3>4 DEF Forth, Back
    <3> QED
      BY <3>1, <3>2, <3>3, <3>4
  <2> QED
    BY <2>1, <2>2, <2>3 DEF Flipped, M
<1>4. CASE P \in B
  <2>1. s = z /\ e = a /\ Back(T, B, s) = n /\ Forth(T, B, e) = p
    BY <1>1, <1>4 DEF P, Forth, Back
  <2>2. Arc(T, B, I, M, s, e)
    BY <1>1, <1>4, <2>1 DEF Arc, Forth, Back
  <2>3. ASSUME NEW x \in I
        PROVE  /\ Forth(U, B, x) = IF x = z THEN p ELSE IF x = n THEN a
                                   ELSE IF x \in M THEN Back(T, B, x) ELSE Forth(T, B, x)
               /\ Back(U, B, x) = IF x = p THEN z ELSE IF x = a THEN n
                                  ELSE IF x \in M THEN Forth(T, B, x) ELSE Back(T, B, x)
    <3>1. CASE x \in M
      <4>1. T.parent[x] \in B
        BY <1>1, <1>4, <3>1
      <4> QED
        BY <1>1, <1>2, <3>1, <4>1 DEF Forth, Back
    <3>2. CASE x = p
      BY <1>1, <1>2, <1>4, <3>2 DEF Forth, Back
    <3>3. CASE x = n
      BY <1>1, <1>2, <1>4, <3>3 DEF Forth, Back
    <3>4. CASE x \notin M /\ x # p /\ x # n
      BY <1>1, <1>2, <3>4 DEF Forth, Back
    <3> QED
      BY <3>1, <3>2, <3>3, <3>4
  <2> QED
    BY <2>1, <2>2, <2>3 DEF Flipped, M
<1> QED
  BY <1>3, <1>4

\* A path turned around within one stretch leaves the level whole.
LEMMA InsideLevel ==
    ASSUME NEW T, NEW U, NEW I, NEW O, NEW B, NEW nx, NEW pv, Level(T, I, O, B, nx, pv),
           NEW a \in I, NEW z \in I, T.parent[z] = T.parent[a], T.rank[a] < T.rank[z],
           NEW p, p = T.prd[a], NEW n, n = T.suc[z], p # n,
           FlippedInside(T, U, I, O, p, a, n, z)
    PROVE  Level(U, I, O, B, nx, pv)
<1> DEFINE M == Inner(T, I, a, z)
           P == T.parent[a]
           s == IF P \in B THEN z ELSE a
           e == IF P \in B THEN a ELSE z
           b == Back(T, B, s)
           f == Forth(T, B, e)
<1>1. Stretches(U, I, O)
  BY InsideStretches
<1>2. /\ P \in O /\ a # T.last[P] /\ z # T.first[P] /\ a \in M /\ z \in M
      /\ M \subseteq I /\ \A x \in M : T.parent[x] = P
  BY InnerFacts
<1>3. Arc(T, B, I, M, s, e) /\ Flipped(T, B, U, B, I, M, s, e)
  BY InsideFlipped
<1>4. /\ \A R \in O : /\ U.first[R] = IF R = P /\ T.first[P] = a THEN z ELSE T.first[R]
                      /\ U.last[R] = IF R = P /\ T.last[P] = z THEN a ELSE T.last[R]
  BY DEF FlippedInside
<1>5. /\ \A R \in O : nx[R] \in O /\ pv[R] \in O /\ nx[R] # R /\ pv[nx[R]] = R /\ nx[pv[R]] = R
      /\ \A R \in O : /\ Forth(T, B, Exit(T, B, R)) = Entry(T, B, nx[R])
                      /\ Back(T, B, Entry(T, B, R)) = Exit(T, B, pv[R])
      /\ \A R \in O : /\ Entry(T, B, R) \in I /\ T.parent[Entry(T, B, R)] = R
                      /\ Exit(T, B, R) \in I /\ T.parent[Exit(T, B, R)] = R
  BY DEF Level, Linked, Joined, Stretches, EndsHeld, Entry, Exit
<1>6. \A R \in O : /\ Entry(U, B, R) = IF Entry(T, B, R) = s THEN e ELSE Entry(T, B, R)
                   /\ Exit(U, B, R) = IF Exit(T, B, R) = e THEN s ELSE Exit(T, B, R)
  <2> SUFFICES ASSUME NEW R \in O
               PROVE  /\ Entry(U, B, R) = IF Entry(T, B, R) = s THEN e ELSE Entry(T, B, R)
                      /\ Exit(U, B, R) = IF Exit(T, B, R) = e THEN s ELSE Exit(T, B, R)
    OBVIOUS
  <2>1. CASE R = P
    BY <1>2, <1>4, <2>1 DEF Entry, Exit
  <2>2. CASE R # P
    <3>1. U.first[R] = T.first[R] /\ U.last[R] = T.last[R]
      BY <1>4, <2>2
    <3>2. Entry(T, B, R) # s /\ Exit(T, B, R) # e
      BY <1>2, <1>5, <2>2
    <3> QED
      BY <3>1, <3>2 DEF Entry, Exit
  <2> QED
    BY <2>1, <2>2
\* The new path ends where the old one began.
<1>7. \A x \in I : /\ Back(T, B, Forth(T, B, x)) = x /\ Forth(T, B, Back(T, B, x)) = x
                   /\ Forth(T, B, x) \in I /\ Back(T, B, x) \in I
  BY LevelInverse
<1>8. s \in M /\ e \in M /\ Entry(T, B, P) # e /\ Exit(T, B, P) # s
  BY <1>2 DEF Entry, Exit
<1>9. /\ \A x \in I : Forth(U, B, x) = IF x = s THEN f ELSE IF x = b THEN e
                                       ELSE IF x \in M THEN Back(T, B, x) ELSE Forth(T, B, x)
      /\ \A x \in I : Back(U, B, x) = IF x = f THEN s ELSE IF x = e THEN b
                                      ELSE IF x \in M THEN Forth(T, B, x) ELSE Back(T, B, x)
      /\ b \notin M /\ f \notin M
      /\ \A x \in M : x # e => Forth(T, B, x) \in M
      /\ \A x \in M : x # s => Back(T, B, x) \in M
  BY <1>3 DEF Arc, Flipped
<1> HIDE DEF M, P, s, e, b, f
<1>10. ASSUME NEW R \in O
       PROVE  Forth(U, B, Exit(U, B, R)) = Entry(U, B, nx[R])
  <2> DEFINE x == Exit(T, B, R)
             y == Entry(T, B, nx[R])
  <2>1. /\ x \in I /\ y \in I /\ T.parent[x] = R /\ T.parent[y] = nx[R] /\ nx[R] # R
        /\ Forth(T, B, x) = y /\ Back(T, B, y) = x
    BY <1>5, <1>7
  <2>2. Exit(U, B, R) = (IF x = e THEN s ELSE x) /\ Entry(U, B, nx[R]) = IF y = s THEN e ELSE y
    BY <1>5, <1>6
  <2> HIDE DEF x, y
  <2>3. CASE x = e
    <3>1. Forth(U, B, s) = f /\ f = y
      BY <1>2, <1>8, <1>9, <2>1, <2>3 DEF f
    <3>2. y # s
      BY <1>8, <1>9, <3>1
    <3> QED
      BY <2>2, <2>3, <3>1, <3>2
  <2>4. CASE x # e /\ y = s
    <3>1. x = b
      BY <2>1, <2>4 DEF b
    <3> QED
      BY <1>8, <1>9, <2>1, <2>2, <2>4, <3>1
  <2>5. CASE x # e /\ y # s
    <3>1. x # b
      BY <1>2, <1>7, <1>8, <2>1, <2>5 DEF b
    <3>2. x \notin M
      <4> SUFFICES ASSUME x \in M PROVE FALSE
        OBVIOUS
      <4>1. y \in M
        BY <1>9, <2>1, <2>5
      <4> QED
        BY <1>2, <2>1, <4>1
    <3>3. x # s
      BY <1>8, <3>2
    <3> QED
      BY <1>9, <2>1, <2>2, <2>5, <3>1, <3>2, <3>3
  <2> QED
    BY <2>3, <2>4, <2>5
<1>11. ASSUME NEW R \in O
       PROVE  Back(U, B, Entry(U, B, R)) = Exit(U, B, pv[R])
  <2> DEFINE x == Entry(T, B, R)
             y == Exit(T, B, pv[R])
  <2>1. /\ x \in I /\ y \in I /\ T.parent[x] = R /\ T.parent[y] = pv[R] /\ pv[R] # R
        /\ Back(T, B, x) = y /\ Forth(T, B, y) = x
    BY <1>5, <1>7
  <2>2. Entry(U, B, R) = (IF x = s THEN e ELSE x) /\ Exit(U, B, pv[R]) = IF y = e THEN s ELSE y
    BY <1>5, <1>6
  <2> HIDE DEF x, y
  <2>3. CASE x = s
    <3>1. Back(U, B, e) = b /\ b = y
      BY <1>2, <1>8, <1>9, <2>1, <2>3 DEF b
    <3>2. y # e
      BY <1>8, <1>9, <3>1
    <3> QED
      BY <2>2, <2>3, <3>1, <3>2
  <2>4. CASE x # s /\ y = e
    <3>1. x = f
      BY <2>1, <2>4 DEF f
    <3> QED
      BY <1>8, <1>9, <2>1, <2>2, <2>4, <3>1
  <2>5. CASE x # s /\ y # e
    <3>1. x # f
      BY <1>2, <1>7, <1>8, <2>1, <2>5 DEF f
    <3>2. x \notin M
      <4> SUFFICES ASSUME x \in M PROVE FALSE
        OBVIOUS
      <4>1. y \in M
        BY <1>9, <2>1, <2>5
      <4> QED
        BY <1>2, <2>1, <4>1
    <3>3. x # e
      BY <1>8, <3>2
    <3> QED
      BY <1>9, <2>1, <2>2, <2>5, <3>1, <3>2, <3>3
  <2> QED
    BY <2>3, <2>4, <2>5
<1>12. Joined(U, O, B, nx, pv)
  BY <1>10, <1>11 DEF Joined
<1> QED
  BY <1>1, <1>12 DEF Level

-----------------------------------------------------------------------------
(* Whole stretches are turned around: those of the owners D, from S to E, are *)
(* read the other way, and the items at their ends are linked anew.           *)

\* D is the run of owners from S to E along the ring, and leaves out two or more.
OwnersArc(O, nx, pv, D, S, E) ==
    /\ D \subseteq O /\ S \in D /\ E \in D /\ S # E
    /\ pv[S] \notin D /\ nx[E] \notin D /\ pv[S] # nx[E]
    /\ \A P \in D : P # E => nx[P] \in D
    /\ \A P \in D : P # S => pv[P] \in D

\* The ring nx2 is nx with this run turned around.
OwnersFlipped(O, nx, pv, nx2, pv2, D, S, E) ==
    \A P \in O :
       /\ nx2[P] = IF P = S THEN nx[E] ELSE IF P = pv[S] THEN E
                   ELSE IF P \in D THEN pv[P] ELSE nx[P]
       /\ pv2[P] = IF P = nx[E] THEN S ELSE IF P = E THEN pv[S]
                   ELSE IF P \in D THEN nx[P] ELSE pv[P]

\* What Relink does with t1, t2, t3, t4.
Relinked(T, U, I, O, t1, t2, t3, t4) ==
    /\ \A x \in I :
          /\ U.suc[x] = IF x = t3 /\ T.suc[t3] = t4 THEN t2
                        ELSE IF x = t2 /\ T.suc[t2] = t1 THEN t3
                        ELSE IF x = t1 /\ T.prd[t1] # t2 THEN t4
                        ELSE IF x = t4 /\ T.prd[t4] # t3 THEN t1 ELSE T.suc[x]
          /\ U.prd[x] = IF x = t3 /\ T.suc[t3] # t4 THEN t2
                        ELSE IF x = t2 /\ T.suc[t2] # t1 THEN t3
                        ELSE IF x = t1 /\ T.prd[t1] = t2 THEN t4
                        ELSE IF x = t4 /\ T.prd[t4] = t3 THEN t1 ELSE T.prd[x]
          /\ U.rank[x] = T.rank[x] /\ U.parent[x] = T.parent[x]
    /\ \A R \in O : U.first[R] = T.first[R] /\ U.last[R] = T.last[R] /\ U.size[R] = T.size[R]

\* The items of those stretches.
HeldBy(T, I, D) == {x \in I : T.parent[x] \in D}

\* The four items at the ends, and that each has one link to the next.
LEMMA EndFacts ==
    ASSUME NEW T, NEW I, NEW O, NEW B, NEW nx, NEW pv, Level(T, I, O, B, nx, pv),
           NEW D, NEW S, NEW E, OwnersArc(O, nx, pv, D, S, E),
           NEW t1, t1 = Exit(T, B, E), NEW t2, t2 = Entry(T, B, nx[E]),
           NEW t3, t3 = Entry(T, B, S), NEW t4, t4 = Exit(T, B, pv[S])
    PROVE  /\ t1 \in I /\ t2 \in I /\ t3 \in I /\ t4 \in I
           /\ T.parent[t1] = E /\ T.parent[t2] = nx[E] /\ T.parent[t3] = S /\ T.parent[t4] = pv[S]
           /\ t1 # t2 /\ t1 # t3 /\ t1 # t4 /\ t2 # t3 /\ t2 # t4 /\ t3 # t4
           /\ Forth(T, B, t1) = t2 /\ Back(T, B, t1) # t2
           /\ Back(T, B, t2) = t1 /\ Forth(T, B, t2) # t1
           /\ Back(T, B, t3) = t4 /\ Forth(T, B, t3) # t4
           /\ Forth(T, B, t4) = t3 /\ Back(T, B, t4) # t3
<1>1. /\ \A R \in O : nx[R] \in O /\ pv[R] \in O /\ nx[R] # R /\ pv[nx[R]] = R /\ nx[pv[R]] = R
      /\ \A R \in O : /\ Forth(T, B, Exit(T, B, R)) = Entry(T, B, nx[R])
                      /\ Back(T, B, Entry(T, B, R)) = Exit(T, B, pv[R])
      /\ \A R \in O : /\ Entry(T, B, R) \in I /\ T.parent[Entry(T, B, R)] = R
                      /\ Exit(T, B, R) \in I /\ T.parent[Exit(T, B, R)] = R
  BY DEF Level, Linked, Joined, Stretches, EndsHeld, Entry, Exit
<1>2. ASSUME NEW x \in I
      PROVE  /\ T.parent[Forth(T, B, x)] \in {T.parent[x], nx[T.parent[x]]}
             /\ T.parent[Back(T, B, x)] \in {T.parent[x], pv[T.parent[x]]}
  <2> DEFINE R == T.parent[x]
  <2>1. Stretches(T, I, O) /\ R \in O
    BY DEF Level, Stretches, Typed
  <2>2. T.parent[Forth(T, B, x)] \in {R, nx[R]}
    <3>1. CASE x = Exit(T, B, R)
      BY <1>1, <2>1, <3>1
    <3>2. CASE x # Exit(T, B, R)
      BY <2>1, <3>2, Within DEF Exit, Forth
    <3> QED
      BY <3>1, <3>2
  <2>3. T.parent[Back(T, B, x)] \in {R, pv[R]}
    <3>1. CASE x = Entry(T, B, R)
      BY <1>1, <2>1, <3>1
    <3>2. CASE x # Entry(T, B, R)
      BY <2>1, <3>2, Within DEF Entry, Back
    <3> QED
      BY <3>1, <3>2
  <2> QED
    BY <2>2, <2>3
<1>3. /\ S \in O /\ E \in O /\ S # E /\ pv[S] \notin D /\ nx[E] \notin D /\ pv[S] # nx[E]
      /\ S \in D /\ E \in D /\ nx[S] \in D /\ pv[E] \in D
  BY DEF OwnersArc
<1>4. /\ t1 \in I /\ t2 \in I /\ t3 \in I /\ t4 \in I
      /\ T.parent[t1] = E /\ T.parent[t2] = nx[E] /\ T.parent[t3] = S /\ T.parent[t4] = pv[S]
      /\ Forth(T, B, t1) = t2 /\ Back(T, B, t3) = t4 /\ Back(T, B, t2) = t1 /\ Forth(T, B, t4) = t3
  BY <1>1, <1>3
<1>5. t1 # t2 /\ t1 # t3 /\ t1 # t4 /\ t2 # t3 /\ t2 # t4 /\ t3 # t4
  BY <1>3, <1>4
<1>6. Back(T, B, t1) # t2 /\ Forth(T, B, t3) # t4
  BY <1>2, <1>3, <1>4
<1>7. Forth(T, B, t2) # t1 /\ Back(T, B, t4) # t3
  <2>1. nx[nx[E]] # E /\ pv[pv[S]] # S
    <3>1. nx[nx[E]] = E => pv[E] = nx[E]
      BY <1>1, <1>3
    <3>2. pv[pv[S]] = S => nx[S] = pv[S]
      BY <1>1, <1>3
    <3> QED
      BY <1>3, <3>1, <3>2
  <2> QED
    BY <1>1, <1>2, <1>3, <1>4, <2>1
<1> QED
  BY <1>4, <1>5, <1>6, <1>7

\* Bits toggled on a run of owners and its ends linked anew: what the run holds is
\* read as a path turned around.
LEMMA RelinkedFlipped ==
    ASSUME NEW T, NEW U, NEW I, NEW O, NEW B, NEW nx, NEW pv, Level(T, I, O, B, nx, pv),
           NEW D, NEW S, NEW E, OwnersArc(O, nx, pv, D, S, E),
           NEW t1, t1 = Exit(T, B, E), NEW t2, t2 = Entry(T, B, nx[E]),
           NEW t3, t3 = Entry(T, B, S), NEW t4, t4 = Exit(T, B, pv[S]),
           Relinked(T, U, I, O, t1, t2, t3, t4)
    PROVE  /\ Arc(T, B, I, HeldBy(T, I, D), t3, t1)
           /\ Flipped(T, B, U, Toggled(B, D), I, HeldBy(T, I, D), t3, t1)
<1> DEFINE C == Toggled(B, D)
           H == HeldBy(T, I, D)
<1>1. /\ t1 \in I /\ t2 \in I /\ t3 \in I /\ t4 \in I
      /\ T.parent[t1] = E /\ T.parent[t2] = nx[E] /\ T.parent[t3] = S /\ T.parent[t4] = pv[S]
      /\ t1 # t2 /\ t1 # t3 /\ t1 # t4 /\ t2 # t3 /\ t2 # t4 /\ t3 # t4
      /\ Forth(T, B, t1) = t2 /\ Back(T, B, t1) # t2
      /\ Back(T, B, t2) = t1 /\ Forth(T, B, t2) # t1
      /\ Back(T, B, t3) = t4 /\ Forth(T, B, t3) # t4
      /\ Forth(T, B, t4) = t3 /\ Back(T, B, t4) # t3
  BY EndFacts
<1>2. /\ D \subseteq O /\ S \in D /\ E \in D /\ pv[S] \notin D /\ nx[E] \notin D
      /\ \A P \in D : P # E => nx[P] \in D
      /\ \A P \in D : P # S => pv[P] \in D
  BY DEF OwnersArc
<1>3. \A P \in O : P \in C <=> (P \in B <=> P \notin D)
  BY DEF Toggled
<1>4. \A x \in I :
          /\ U.suc[x] = IF x = t3 /\ T.suc[t3] = t4 THEN t2
                        ELSE IF x = t2 /\ T.suc[t2] = t1 THEN t3
                        ELSE IF x = t1 /\ T.prd[t1] # t2 THEN t4
                        ELSE IF x = t4 /\ T.prd[t4] # t3 THEN t1 ELSE T.suc[x]
          /\ U.prd[x] = IF x = t3 /\ T.suc[t3] # t4 THEN t2
                        ELSE IF x = t2 /\ T.suc[t2] # t1 THEN t3
                        ELSE IF x = t1 /\ T.prd[t1] = t2 THEN t4
                        ELSE IF x = t4 /\ T.prd[t4] = t3 THEN t1 ELSE T.prd[x]
          /\ U.parent[x] = T.parent[x]
  BY DEF Relinked
<1>5. \A x \in I : T.parent[x] \in O
  BY DEF Level, Stretches, Typed
<1>6. Arc(T, B, I, H, t3, t1)
  <2>1. H \subseteq I /\ t3 \in H /\ t1 \in H /\ t4 \notin H /\ t2 \notin H
    BY <1>1, <1>2 DEF HeldBy
  <2>2. ASSUME NEW x \in H, x # t1 PROVE Forth(T, B, x) \in H
    <3>1. x \in I /\ T.parent[x] \in D
      BY DEF HeldBy
    <3>2. CASE x = Exit(T, B, T.parent[x])
      <4>1. T.parent[x] # E
        BY <2>2, <3>2
      <4>2. Forth(T, B, x) = Entry(T, B, nx[T.parent[x]]) /\ nx[T.parent[x]] \in D
        BY <1>2, <1>5, <3>1, <3>2, <4>1 DEF Level, Joined
      <4>3. \A R \in O : Entry(T, B, R) \in I /\ T.parent[Entry(T, B, R)] = R
        BY DEF Level, Stretches, EndsHeld, Entry
      <4> QED
        BY <1>2, <4>2, <4>3 DEF HeldBy
    <3>3. CASE x # Exit(T, B, T.parent[x])
      <4>1. Stretches(T, I, O)
        BY DEF Level
      <4> QED
        BY <3>1, <3>3, <4>1, Within DEF Exit, Forth, HeldBy
    <3> QED
      BY <3>2, <3>3
  <2>3. ASSUME NEW x \in H, x # t3 PROVE Back(T, B, x) \in H
    <3>1. x \in I /\ T.parent[x] \in D
      BY DEF HeldBy
    <3>2. CASE x = Entry(T, B, T.parent[x])
      <4>1. T.parent[x] # S
        BY <2>3, <3>2
      <4>2. Back(T, B, x) = Exit(T, B, pv[T.parent[x]]) /\ pv[T.parent[x]] \in D
        BY <1>2, <1>5, <3>1, <3>2, <4>1 DEF Level, Joined
      <4>3. \A R \in O : Exit(T, B, R) \in I /\ T.parent[Exit(T, B, R)] = R
        BY DEF Level, Stretches, EndsHeld, Exit
      <4> QED
        BY <1>2, <4>2, <4>3 DEF HeldBy
    <3>3. CASE x # Entry(T, B, T.parent[x])
      <4>1. Stretches(T, I, O)
        BY DEF Level
      <4> QED
        BY <3>1, <3>3, <4>1, Within DEF Entry, Back, HeldBy
    <3> QED
      BY <3>2, <3>3
  <2> QED
    BY <1>1, <2>1, <2>2, <2>3 DEF Arc
<1> HIDE DEF C, H
<1>7. ASSUME NEW x \in I
      PROVE  /\ Forth(U, C, x) = IF x = t3 THEN t2 ELSE IF x = t4 THEN t1
                                 ELSE IF x \in H THEN Back(T, B, x) ELSE Forth(T, B, x)
             /\ Back(U, C, x) = IF x = t2 THEN t3 ELSE IF x = t1 THEN t4
                                ELSE IF x \in H THEN Forth(T, B, x) ELSE Back(T, B, x)
  <2>1. x \in H <=> T.parent[x] \in D
    BY DEF H, HeldBy
  <2>2. U.parent[x] \in C <=> (T.parent[x] \in B <=> x \notin H)
    BY <1>3, <1>4, <1>5, <2>1
  <2>3. CASE x = t1
    BY <1>1, <1>2, <1>4, <2>1, <2>2, <2>3 DEF Forth, Back
  <2>4. CASE x = t2
    BY <1>1, <1>2, <1>4, <2>1, <2>2, <2>4 DEF Forth, Back
  <2>5. CASE x = t3
    BY <1>1, <1>2, <1>4, <2>1, <2>2, <2>5 DEF Forth, Back
  <2>6. CASE x = t4
    BY <1>1, <1>2, <1>4, <2>1, <2>2, <2>6 DEF Forth, Back
  <2>7. CASE x \notin {t1, t2, t3, t4}
    <3>1. U.suc[x] = T.suc[x] /\ U.prd[x] = T.prd[x]
      BY <1>4, <2>7
    <3> QED
      BY <2>2, <2>7, <3>1 DEF Forth, Back
  <2> QED
    BY <2>3, <2>4, <2>5, <2>6, <2>7
<1>8. Flipped(T, B, U, C, I, H, t3, t1)
  BY <1>1, <1>7 DEF Flipped
<1> QED
  BY <1>6, <1>8 DEF C, H

\* All owners hold stretches still.
LEMMA RelinkedStretches ==
    ASSUME NEW T, NEW U, NEW I, NEW O, NEW B, NEW nx, NEW pv, Level(T, I, O, B, nx, pv),
           NEW D, NEW S, NEW E, OwnersArc(O, nx, pv, D, S, E),
           NEW t1, t1 = Exit(T, B, E), NEW t2, t2 = Entry(T, B, nx[E]),
           NEW t3, t3 = Entry(T, B, S), NEW t4, t4 = Exit(T, B, pv[S]),
           Relinked(T, U, I, O, t1, t2, t3, t4)
    PROVE  Stretches(U, I, O)
<1>1. /\ t1 \in I /\ t2 \in I /\ t3 \in I /\ t4 \in I
      /\ T.parent[t1] = E /\ T.parent[t2] = nx[E] /\ T.parent[t3] = S /\ T.parent[t4] = pv[S]
      /\ t1 # t2 /\ t1 # t3 /\ t1 # t4 /\ t2 # t3 /\ t2 # t4 /\ t3 # t4
      /\ Forth(T, B, t1) = t2 /\ Back(T, B, t1) # t2
      /\ Back(T, B, t2) = t1 /\ Forth(T, B, t2) # t1
      /\ Back(T, B, t3) = t4 /\ Forth(T, B, t3) # t4
      /\ Forth(T, B, t4) = t3 /\ Back(T, B, t4) # t3
  BY EndFacts
<1>2. Stretches(T, I, O)
  BY DEF Level
<1>3. /\ \A x \in I :
            /\ U.suc[x] = IF x = t3 /\ T.suc[t3] = t4 THEN t2
                          ELSE IF x = t2 /\ T.suc[t2] = t1 THEN t3
                          ELSE IF x = t1 /\ T.prd[t1] # t2 THEN t4
                          ELSE IF x = t4 /\ T.prd[t4] # t3 THEN t1 ELSE T.suc[x]
            /\ U.prd[x] = IF x = t3 /\ T.suc[t3] # t4 THEN t2
                          ELSE IF x = t2 /\ T.suc[t2] # t1 THEN t3
                          ELSE IF x = t1 /\ T.prd[t1] = t2 THEN t4
                          ELSE IF x = t4 /\ T.prd[t4] = t3 THEN t1 ELSE T.prd[x]
            /\ U.rank[x] = T.rank[x] /\ U.parent[x] = T.parent[x]
      /\ \A R \in O : U.first[R] = T.first[R] /\ U.last[R] = T.last[R] /\ U.size[R] = T.size[R]
  BY DEF Relinked
<1>4. /\ \A x \in I : T.suc[x] \in I /\ T.prd[x] \in I /\ T.rank[x] \in Int /\ T.parent[x] \in O
      /\ \A R \in O : /\ T.first[R] \in I /\ T.last[R] \in I
                      /\ T.parent[T.first[R]] = R /\ T.parent[T.last[R]] = R
  BY <1>2 DEF Stretches, Typed, EndsHeld
\* Only links that leave a stretch change.
<1>5. \A x \in I : x # T.last[T.parent[x]] => U.suc[x] = T.suc[x]
  <2>1. /\ T.suc[t3] = t4 => t3 = T.last[S]
        /\ T.suc[t2] = t1 => t2 = T.last[nx[E]]
        /\ T.prd[t1] # t2 => t1 = T.last[E]
        /\ T.prd[t4] # t3 => t4 = T.last[pv[S]]
    BY <1>1 DEF Forth, Back, Entry, Exit
  <2> QED
    BY <1>1, <1>3, <2>1
<1>6. \A x \in I : x # T.first[T.parent[x]] => U.prd[x] = T.prd[x]
  <2>1. /\ T.suc[t3] # t4 => t3 = T.first[S]
        /\ T.suc[t2] # t1 => t2 = T.first[nx[E]]
        /\ T.prd[t1] = t2 => t1 = T.first[E]
        /\ T.prd[t4] = t3 => t4 = T.first[pv[S]]
    BY <1>1 DEF Forth, Back, Entry, Exit
  <2> QED
    BY <1>1, <1>3, <2>1
<1>7. Typed(U, I, O)
  BY <1>1, <1>3, <1>4 DEF Typed
<1>11. EndsHeld(U, I, O) /\ RankedFromFirst(U, I) /\ RankedOnce(U, I)
  <2>1. /\ \A x \in I : U.rank[x] = T.rank[x] /\ U.parent[x] = T.parent[x]
        /\ \A R \in O : U.first[R] = T.first[R] /\ U.last[R] = T.last[R]
    BY <1>3
  <2>2. EndsHeld(U, I, O)
    BY <1>4, <2>1 DEF EndsHeld
  <2>3. RankedFromFirst(U, I)
    <3> SUFFICES ASSUME NEW x \in I
                 PROVE  /\ U.rank[U.first[U.parent[x]]] <= U.rank[x]
                        /\ U.rank[x] <= U.rank[U.last[U.parent[x]]]
      BY DEF RankedFromFirst
    <3> DEFINE R == T.parent[x]
    <3>1. T.rank[T.first[R]] <= T.rank[x] /\ T.rank[x] <= T.rank[T.last[R]]
      BY <1>2 DEF Stretches, RankedFromFirst
    <3>2. /\ U.parent[x] = R /\ U.first[R] = T.first[R] /\ U.last[R] = T.last[R]
          /\ U.rank[T.first[R]] = T.rank[T.first[R]] /\ U.rank[T.last[R]] = T.rank[T.last[R]]
          /\ U.rank[x] = T.rank[x]
      BY <1>4, <2>1
    <3> QED
      BY <3>1, <3>2
  <2>4. RankedOnce(U, I)
    BY <1>2, <2>1 DEF Stretches, RankedOnce
  <2> QED
    BY <2>2, <2>3, <2>4
<1>8. Sized(U, O)
  BY <1>2, <1>3, <1>4 DEF Stretches, Sized
<1>9. UpToLast(U, I)
  BY <1>2, <1>3, <1>4, <1>5 DEF Stretches, UpToLast
<1>10. DownToFirst(U, I)
  BY <1>2, <1>3, <1>4, <1>6 DEF Stretches, DownToFirst
<1> QED
  BY <1>7, <1>8, <1>9, <1>10, <1>11 DEF Stretches

\* And these are joined along the ring with the run turned around.
LEMMA RelinkedLevel ==
    ASSUME NEW T, NEW U, NEW I, NEW O, NEW B, NEW nx, NEW pv, Level(T, I, O, B, nx, pv),
           NEW D, NEW S, NEW E, OwnersArc(O, nx, pv, D, S, E),
           NEW nx2, NEW pv2, OwnersFlipped(O, nx, pv, nx2, pv2, D, S, E),
           NEW t1, t1 = Exit(T, B, E), NEW t2, t2 = Entry(T, B, nx[E]),
           NEW t3, t3 = Entry(T, B, S), NEW t4, t4 = Exit(T, B, pv[S]),
           Relinked(T, U, I, O, t1, t2, t3, t4)
    PROVE  Level(U, I, O, Toggled(B, D), nx2, pv2)
<1> DEFINE C == Toggled(B, D)
           H == HeldBy(T, I, D)
<1>1. Stretches(U, I, O)
  BY RelinkedStretches
<1>2. /\ t1 \in I /\ t2 \in I /\ t3 \in I /\ t4 \in I
      /\ T.parent[t1] = E /\ T.parent[t2] = nx[E] /\ T.parent[t3] = S /\ T.parent[t4] = pv[S]
      /\ Forth(T, B, t1) = t2 /\ Back(T, B, t3) = t4
  BY EndFacts
<1>3. Flipped(T, B, U, C, I, H, t3, t1)
  BY RelinkedFlipped
<1>4. /\ \A R \in O : nx[R] \in O /\ pv[R] \in O /\ nx[R] # R /\ pv[nx[R]] = R /\ nx[pv[R]] = R
      /\ \A R \in O : /\ Forth(T, B, Exit(T, B, R)) = Entry(T, B, nx[R])
                      /\ Back(T, B, Entry(T, B, R)) = Exit(T, B, pv[R])
      /\ \A R \in O : /\ Entry(T, B, R) \in I /\ T.parent[Entry(T, B, R)] = R
                      /\ Exit(T, B, R) \in I /\ T.parent[Exit(T, B, R)] = R
  BY DEF Level, Linked, Joined, Stretches, EndsHeld, Entry, Exit
<1>5. /\ D \subseteq O /\ S \in D /\ E \in D /\ pv[S] \notin D /\ nx[E] \notin D
      /\ \A P \in D : P # E => nx[P] \in D
      /\ \A P \in D : P # S => pv[P] \in D
      /\ S # E /\ pv[S] # nx[E]
  BY DEF OwnersArc
<1>6. \A P \in O :
         /\ nx2[P] = IF P = S THEN nx[E] ELSE IF P = pv[S] THEN E
                     ELSE IF P \in D THEN pv[P] ELSE nx[P]
         /\ pv2[P] = IF P = nx[E] THEN S ELSE IF P = E THEN pv[S]
                     ELSE IF P \in D THEN nx[P] ELSE pv[P]
  BY DEF OwnersFlipped
<1>7. \A P \in O : /\ Entry(U, C, P) = IF P \in D THEN Exit(T, B, P) ELSE Entry(T, B, P)
                   /\ Exit(U, C, P) = IF P \in D THEN Entry(T, B, P) ELSE Exit(T, B, P)
  BY DEF Relinked, Toggled, Entry, Exit
<1>8. \A x \in I :
          /\ Forth(U, C, x) = IF x = t3 THEN t2 ELSE IF x = t4 THEN t1
                              ELSE IF T.parent[x] \in D THEN Back(T, B, x) ELSE Forth(T, B, x)
          /\ Back(U, C, x) = IF x = t2 THEN t3 ELSE IF x = t1 THEN t4
                             ELSE IF T.parent[x] \in D THEN Forth(T, B, x) ELSE Back(T, B, x)
  BY <1>2, <1>3 DEF Flipped, HeldBy
<1>9. Linked(O, nx2, pv2)
  <2> SUFFICES ASSUME NEW P \in O
               PROVE  /\ nx2[P] \in O /\ pv2[P] \in O /\ nx2[P] # P
                      /\ pv2[nx2[P]] = P /\ nx2[pv2[P]] = P
    BY DEF Linked
  <2>1. nx2[P] \in O /\ pv2[P] \in O /\ nx2[P] # P
    BY <1>4, <1>5, <1>6
  <2>2. pv2[nx2[P]] = P
    <3>1. CASE P = S \/ P = pv[S]
      BY <1>4, <1>5, <1>6, <3>1
    <3>2. CASE P \in D /\ P # S
      BY <1>4, <1>5, <1>6, <3>2
    <3>3. CASE P \notin D /\ P # pv[S]
      <4>1. nx[P] # S /\ nx[P] \notin D /\ nx[P] # nx[E] /\ nx[P] \in O
        BY <1>4, <1>5, <3>3
      <4> QED
        BY <1>4, <1>5, <1>6, <3>3, <4>1
    <3> QED
      BY <3>1, <3>2, <3>3
  <2>3. nx2[pv2[P]] = P
    <3>1. CASE P = E \/ P = nx[E]
      BY <1>4, <1>5, <1>6, <3>1
    <3>2. CASE P \in D /\ P # E
      BY <1>4, <1>5, <1>6, <3>2
    <3>3. CASE P \notin D /\ P # nx[E]
      <4>1. pv[P] # E /\ pv[P] \notin D /\ pv[P] # pv[S] /\ pv[P] \in O
        BY <1>4, <1>5, <3>3
      <4> QED
        BY <1>4, <1>5, <1>6, <3>3, <4>1
    <3> QED
      BY <3>1, <3>2, <3>3
  <2> QED
    BY <2>1, <2>2, <2>3
<1> HIDE DEF C, H
<1>10. ASSUME NEW P \in O
       PROVE  Forth(U, C, Exit(U, C, P)) = Entry(U, C, nx2[P])
  <2>1. CASE P = S
    BY <1>4, <1>5, <1>6, <1>7, <1>8, <2>1
  <2>2. CASE P = pv[S]
    BY <1>2, <1>4, <1>5, <1>6, <1>7, <1>8, <2>2
  <2>3. CASE P \in D /\ P # S
    <3>1. nx2[P] = pv[P] /\ pv[P] \in D
      BY <1>4, <1>5, <1>6, <2>3
    <3>2. Exit(U, C, P) = Entry(T, B, P) /\ Entry(T, B, P) \notin {t3, t4}
      BY <1>2, <1>4, <1>5, <1>7, <2>3
    <3> QED
      BY <1>4, <1>5, <1>7, <1>8, <2>3, <3>1, <3>2
  <2>4. CASE P \notin D /\ P # pv[S]
    <3>1. nx2[P] = nx[P] /\ nx[P] \notin D
      BY <1>4, <1>5, <1>6, <2>4
    <3>2. Exit(U, C, P) = Exit(T, B, P) /\ Exit(T, B, P) \notin {t3, t4}
      BY <1>2, <1>4, <1>5, <1>7, <2>4
    <3> QED
      BY <1>4, <1>5, <1>7, <1>8, <2>4, <3>1, <3>2
  <2> QED
    BY <2>1, <2>2, <2>3, <2>4
<1>11. ASSUME NEW P \in O
       PROVE  Back(U, C, Entry(U, C, P)) = Exit(U, C, pv2[P])
  <2>1. CASE P = E
    BY <1>4, <1>5, <1>6, <1>7, <1>8, <2>1
  <2>2. CASE P = nx[E]
    BY <1>2, <1>4, <1>5, <1>6, <1>7, <1>8, <2>2
  <2>3. CASE P \in D /\ P # E
    <3>1. pv2[P] = nx[P] /\ nx[P] \in D
      BY <1>4, <1>5, <1>6, <2>3
    <3>2. Entry(U, C, P) = Exit(T, B, P) /\ Exit(T, B, P) \notin {t1, t2}
      BY <1>2, <1>4, <1>5, <1>7, <2>3
    <3> QED
      BY <1>4, <1>5, <1>7, <1>8, <2>3, <3>1, <3>2
  <2>4. CASE P \notin D /\ P # nx[E]
    <3>1. pv2[P] = pv[P] /\ pv[P] \notin D
      BY <1>4, <1>5, <1>6, <2>4
    <3>2. Entry(U, C, P) = Entry(T, B, P) /\ Entry(T, B, P) \notin {t1, t2}
      BY <1>2, <1>4, <1>5, <1>7, <2>4
    <3> QED
      BY <1>4, <1>5, <1>7, <1>8, <2>4, <3>1, <3>2
  <2> QED
    BY <2>1, <2>2, <2>3, <2>4
<1>12. Joined(U, O, C, nx2, pv2)
  BY <1>10, <1>11 DEF Joined
<1> QED
  BY <1>1, <1>9, <1>12 DEF Level, C

-----------------------------------------------------------------------------
(* What a walk visits. *)

\* The items of D, from a to z, are numbered as f leads through them.
Numbered(f, D, n, num, a, z) ==
    /\ num[a] = 1 /\ num[z] = n
    /\ \A x \in D : num[x] \in 1..n
    /\ \A x, y \in D : num[x] = num[y] => x = y
    /\ \A x \in D : x # z => f[x] \in D /\ num[f[x]] = num[x] + 1

\* w goes through D in the order of the numbers, and ends with z.
Visits(w, D, n, num, z) ==
    /\ DOMAIN w = 1..n /\ Len(w) = n
    /\ \A i \in 1..n : w[i] \in D /\ num[w[i]] = i
    /\ Last(w) = z
    /\ ToSet(w) = D
    /\ \A x \in D : IndexIn(w, x) = num[x]

\* If the items of D are numbered and f leads from each to the one with the next
\* number, a walk along f from the first to the last visits them in that order.
LEMMA WalkByNumber ==
    ASSUME N \in Nat, NEW f, NEW D, NEW n \in 1..N, NEW num, NEW a \in D, NEW z \in D,
           Numbered(f, D, n, num, a, z)
    PROVE  Visits(Path(f, a, z), D, n, num, z)
<1> DEFINE s == [i \in 1..n |-> CHOOSE x \in D : num[x] = i]
           Met == {k \in Nat : k + 1 <= n => \E x \in D : num[x] = k + 1}
<1> USE DEF Numbered
<1>0. n \in Nat /\ n >= 1 /\ n \in 1..n /\ 1 \in 1..n
  OBVIOUS
<1>1. \A k \in Nat : k \in Met
  <2>1. 0 \in Met
    OBVIOUS
  <2>2. ASSUME NEW k \in Nat, k \in Met PROVE k + 1 \in Met
    <3> SUFFICES ASSUME k + 2 <= n PROVE \E x \in D : num[x] = k + 2
      OBVIOUS
    <3>1. PICK x \in D : num[x] = k + 1
      BY <2>2, <1>0
    <3>2. x # z
      BY <3>1, <1>0
    <3>3. f[x] \in D /\ num[f[x]] = k + 2
      BY <3>1, <3>2
    <3> QED
      BY <3>3
  <2> HIDE DEF Met
  <2> QED
    BY <2>1, <2>2, UpFromZero
<1>2. \A i \in 1..n : s[i] \in D /\ num[s[i]] = i
  <2> SUFFICES ASSUME NEW i \in 1..n PROVE s[i] \in D /\ num[s[i]] = i
    OBVIOUS
  <2>1. i - 1 \in Met /\ (i - 1) + 1 = i
    BY <1>0, <1>1
  <2>2. \E x \in D : num[x] = i
    BY <2>1, <1>0
  <2> QED
    BY <2>2
<1>3. \A x \in D : s[num[x]] = x
  BY <1>2
<1>4. s[1] = a /\ s[n] = z
  BY <1>3
<1>5. DOMAIN s = 1..n /\ s = [i \in 1..n |-> s[i]]
  OBVIOUS
<1> HIDE DEF s
<1>6. IsWalk(f, s, n)
  <2>1. ASSUME NEW i \in 1..(n-1) PROVE s[i+1] = f[s[i]] /\ s[i] # s[n]
    <3>1. i \in 1..n /\ i + 1 \in 1..n /\ i # n
      BY <1>0
    <3>2. s[i] \in D /\ num[s[i]] = i /\ num[s[i+1]] = i + 1 /\ s[i+1] \in D
      BY <3>1, <1>2
    <3>3. s[i] # z
      BY <3>1, <3>2
    <3>4. f[s[i]] \in D /\ num[f[s[i]]] = i + 1
      BY <3>2, <3>3
    <3> QED
      BY <3>2, <3>3, <3>4, <1>4
  <2> QED
    BY <2>1, <1>5 DEF IsWalk
<1>7. Path(f, a, z) = s
  BY <1>4, <1>6, PathIs
<1>8. Len(s) = n
  BY <1>0, <1>5
<1>9. Last(s) = z
  BY <1>8, <1>4 DEF Last
<1>10. ToSet(s) = D
  <2>1. ToSet(s) = {s[i] : i \in 1..n}
    BY <1>5 DEF ToSet
  <2> QED
    BY <2>1, <1>2, <1>3
<1>11. ASSUME NEW x \in D PROVE IndexIn(s, x) = num[x]
  <2>1. \A i \in 1..n : s[i] = x => i = num[x]
    BY <1>2
  <2>2. num[x] \in 1..n /\ s[num[x]] = x
    BY <1>3
  <2> QED
    BY <2>1, <2>2, <1>5 DEF IndexIn
<1> QED
  BY <1>2, <1>5, <1>7, <1>8, <1>9, <1>10, <1>11 DEF Visits

\* Then there are as many items as numbers.
LEMMA NumberedSize ==
    ASSUME NEW f, NEW D, NEW n \in Nat \ {0}, NEW num, NEW a \in D, NEW z \in D,
           Numbered(f, D, n, num, a, z)
    PROVE  IsFiniteSet(D) /\ Cardinality(D) = n /\ \A i \in 1..n : \E x \in D : num[x] = i
<1> DEFINE g == [x \in D |-> num[x]]
           Met == {k \in Nat : k + 1 <= n => \E x \in D : num[x] = k + 1}
<1> USE DEF Numbered
<1>1. \A k \in Nat : k \in Met
  <2>1. 0 \in Met
    OBVIOUS
  <2>2. ASSUME NEW k \in Nat, k \in Met PROVE k + 1 \in Met
    <3> SUFFICES ASSUME k + 2 <= n PROVE \E x \in D : num[x] = k + 2
      OBVIOUS
    <3>1. PICK x \in D : num[x] = k + 1
      BY <2>2
    <3>2. x # z
      BY <3>1
    <3>3. f[x] \in D /\ num[f[x]] = k + 2
      BY <3>1, <3>2
    <3> QED
      BY <3>3
  <2> HIDE DEF Met
  <2> QED
    BY <2>1, <2>2, UpFromZero
<1>2. ASSUME NEW i \in 1..n PROVE \E x \in D : num[x] = i
  <2>1. i - 1 \in Nat /\ (i - 1) + 1 = i
    OBVIOUS
  <2>2. i - 1 \in Met
    BY <1>1, <2>1
  <2> QED
    BY <2>1, <2>2
<1>3. g \in Injection(D, 1..n) /\ g \in Surjection(D, 1..n)
  BY <1>2 DEF Injection, IsInjective, Surjection
<1>4. IsFiniteSet(1..n) /\ Cardinality(1..n) = n
  BY FS_Interval
<1>5. IsFiniteSet(D) /\ Cardinality(D) = n
  BY <1>3, <1>4, FS_Injection
<1> QED
  BY <1>2, <1>5

\* A loop from item a to item z of a stretch visits the items between them in the
\* order of their ranks, and so does one in the other direction.
LEMMA StretchWalk ==
    ASSUME N \in Nat, NEW T, NEW I, NEW O, Stretches(T, I, O), IsFiniteSet(I), Cardinality(I) <= N,
           NEW a \in I, NEW z \in I, T.parent[z] = T.parent[a], T.rank[a] <= T.rank[z]
    PROVE  LET D == Inner(T, I, a, z)
               n == T.rank[z] - T.rank[a] + 1
               w == Path(T.suc, a, z)
           IN  /\ n \in 1..N /\ a \in D /\ z \in D
               /\ DOMAIN w = 1..n /\ Len(w) = n
               /\ \A i \in 1..n : w[i] \in D /\ T.rank[w[i]] = T.rank[a] + i - 1
               /\ Last(w) = z
               /\ ToSet(w) = D
               /\ \A x \in D : IndexIn(w, x) = T.rank[x] - T.rank[a] + 1
               /\ ToSet(Path(T.prd, z, a)) = D
               /\ \A x \in D : IndexIn(Path(T.prd, z, a), x) = T.rank[z] - T.rank[x] + 1
<1> DEFINE P == T.parent[a]
           D == Inner(T, I, a, z)
           n == T.rank[z] - T.rank[a] + 1
           up == [x \in D |-> T.rank[x] - T.rank[a] + 1]
           down == [x \in D |-> T.rank[z] - T.rank[x] + 1]
<1>1. /\ \A x \in I : T.rank[x] \in Int /\ T.parent[x] \in O
      /\ \A x \in I : x # T.last[T.parent[x]] =>
            T.suc[x] \in I /\ T.parent[T.suc[x]] = T.parent[x] /\ T.rank[T.suc[x]] = T.rank[x] + 1
      /\ \A x \in I : x # T.first[T.parent[x]] =>
            T.prd[x] \in I /\ T.parent[T.prd[x]] = T.parent[x] /\ T.rank[T.prd[x]] = T.rank[x] - 1
      /\ \A x, y \in I : T.parent[x] = T.parent[y] /\ T.rank[x] = T.rank[y] => x = y
      /\ \A x \in I : T.rank[T.first[T.parent[x]]] <= T.rank[x] /\ T.rank[x] <= T.rank[T.last[T.parent[x]]]
  BY Within DEF Stretches, Typed, RankedFromFirst, RankedOnce
<1>2. /\ D \subseteq I /\ a \in D /\ z \in D
      /\ \A x \in D : /\ T.parent[x] = P /\ T.rank[x] \in Int
                      /\ T.rank[a] <= T.rank[x] /\ T.rank[x] <= T.rank[z]
      /\ \A x \in I : T.parent[x] = P /\ T.rank[a] <= T.rank[x] /\ T.rank[x] <= T.rank[z] => x \in D
      /\ \A x, y \in D : T.rank[x] = T.rank[y] => x = y
      /\ n \in Nat \ {0} /\ T.rank[a] \in Int /\ T.rank[z] \in Int
  BY <1>1 DEF Inner
<1>3. ASSUME NEW x \in D, x # z PROVE T.suc[x] \in D /\ T.rank[T.suc[x]] = T.rank[x] + 1
  <2>1. x # T.last[P]
    <3>1. T.rank[z] <= T.rank[T.last[P]]
      BY <1>1
    <3>2. x = T.last[P] => T.rank[x] = T.rank[z]
      BY <1>2, <3>1
    <3> QED
      BY <1>2, <1>3, <3>2
  <2>2. T.rank[x] < T.rank[z]
    BY <1>2, <1>3
  <2> QED
    BY <1>1, <1>2, <2>1, <2>2
<1>4. ASSUME NEW x \in D, x # a PROVE T.prd[x] \in D /\ T.rank[T.prd[x]] = T.rank[x] - 1
  <2>1. x # T.first[P]
    <3>1. T.rank[T.first[P]] <= T.rank[a]
      BY <1>1
    <3>2. x = T.first[P] => T.rank[x] = T.rank[a]
      BY <1>2, <3>1
    <3> QED
      BY <1>2, <1>4, <3>2
  <2>2. T.rank[x] > T.rank[a]
    BY <1>2, <1>4
  <2> QED
    BY <1>1, <1>2, <2>1, <2>2
<1> HIDE DEF P
<1>5. Numbered(T.suc, D, n, up, a, z)
  BY <1>2, <1>3 DEF Numbered
<1>6. Numbered(T.prd, D, n, down, z, a)
  BY <1>2, <1>4 DEF Numbered
<1>7. \A x \in D : up[x] = T.rank[x] - T.rank[a] + 1 /\ down[x] = T.rank[z] - T.rank[x] + 1
  OBVIOUS
<1> HIDE DEF up, down, D, n
<1>a. D \subseteq I /\ a \in D /\ z \in D /\ n \in Nat \ {0}
  BY <1>2
<1>8. IsFiniteSet(D) /\ Cardinality(D) = n
  BY <1>a, <1>5, NumberedSize
<1>9. n \in 1..N
  <2>1. Cardinality(D) <= Cardinality(I) /\ Cardinality(I) \in Nat
    BY <1>a, FS_Subset, FS_CardinalityType
  <2> QED
    BY <1>a, <1>8, <2>1
<1> DEFINE w == Path(T.suc, a, z)
<1>10. Visits(w, D, n, up, z)
  BY <1>a, <1>5, <1>9, WalkByNumber
<1>11. Visits(Path(T.prd, z, a), D, n, down, a)
  BY <1>a, <1>6, <1>9, WalkByNumber
<1> HIDE DEF w
<1>12. ASSUME NEW i \in 1..n PROVE w[i] \in D /\ T.rank[w[i]] = T.rank[a] + i - 1
  <2>1. w[i] \in D /\ T.rank[w[i]] \in Int /\ T.rank[a] \in Int /\ i \in Int
    BY <1>2, <1>10 DEF Visits
  <2>2. i = T.rank[w[i]] - T.rank[a] + 1
    BY <1>7, <1>10, <2>1 DEF Visits
  <2> QED
    BY <2>1, <2>2
<1> QED
  BY <1>a, <1>7, <1>9, <1>10, <1>11, <1>12 DEF w, D, n, Visits

-----------------------------------------------------------------------------
(* The ring of owners, and what is turned around of it. *)

\* The owners on the ring nx have consecutive ranks, from b on.
RingRanked(rank, O, nx, b) ==
    /\ \A P \in O : rank[P] \in b..(b + Cardinality(O) - 1)
    /\ \A P, Q \in O : rank[P] = rank[Q] => P = Q
    /\ \A P \in O : \/ rank[nx[P]] = rank[P] + 1
                    \/ rank[P] = b + Cardinality(O) - 1 /\ rank[nx[P]] = b

\* The place of P on the ring, counted from S.
PlaceFrom(rank, K, S, P) ==
    IF rank[P] >= rank[S] THEN rank[P] - rank[S] + 1 ELSE rank[P] - rank[S] + K + 1

\* The owners from S to E.
RunFrom(rank, O, S, E) ==
    {P \in O : PlaceFrom(rank, Cardinality(O), S, P) <= PlaceFrom(rank, Cardinality(O), S, E)}

\* One step along the ring is one place.
LEMMA RingPlaces ==
    ASSUME NEW rank, NEW O, IsFiniteSet(O), NEW nx, NEW b \in Int, RingRanked(rank, O, nx, b),
           \A P \in O : nx[P] \in O, NEW S \in O
    PROVE  LET K == Cardinality(O)
               place(P) == PlaceFrom(rank, K, S, P)
           IN  /\ K \in Nat /\ place(S) = 1
               /\ \A P \in O : place(P) \in 1..K
               /\ \A P, Q \in O : place(P) = place(Q) => P = Q
               /\ \A P \in O : place(nx[P]) = IF place(P) = K THEN 1 ELSE place(P) + 1
<1> DEFINE K == Cardinality(O)
           place(P) == PlaceFrom(rank, K, S, P)
<1>1. K \in Nat
  BY FS_CardinalityType
<1> HIDE DEF K
<1>2. \A P \in O : rank[P] \in Int /\ b <= rank[P] /\ rank[P] <= b + K - 1
  BY <1>1 DEF RingRanked, K
<1>3. \A P \in O : /\ rank[P] >= rank[S] => place(P) = rank[P] - rank[S] + 1
                   /\ ~(rank[P] >= rank[S]) => place(P) = rank[P] - rank[S] + K + 1
  BY DEF PlaceFrom
<1> HIDE DEF place
<1>4. place(S) = 1
  BY <1>2, <1>3
<1>5. ASSUME NEW P \in O PROVE place(P) \in 1..K
  <2>1. /\ rank[P] \in Int /\ rank[S] \in Int /\ b <= rank[P] /\ rank[P] <= b + K - 1
        /\ b <= rank[S] /\ rank[S] <= b + K - 1
    BY <1>2
  <2> QED
    BY <2>1, <1>1, <1>3
<1>6. ASSUME NEW P \in O, NEW Q \in O, place(P) = place(Q) PROVE P = Q
  <2>1. /\ rank[P] \in Int /\ rank[S] \in Int /\ b <= rank[P] /\ rank[P] <= b + K - 1
        /\ rank[Q] \in Int /\ b <= rank[Q] /\ rank[Q] <= b + K - 1
        /\ b <= rank[S] /\ rank[S] <= b + K - 1
    BY <1>2
  <2>2. rank[P] = rank[Q]
    BY <2>1, <1>1, <1>3, <1>6
  <2> QED
    BY <2>2 DEF RingRanked
<1>7. ASSUME NEW P \in O PROVE place(nx[P]) = IF place(P) = K THEN 1 ELSE place(P) + 1
  <2> DEFINE Q == nx[P]
  <2>0. Q \in O
    OBVIOUS
  <2>1. /\ rank[P] \in Int /\ rank[S] \in Int /\ b <= rank[P] /\ rank[P] <= b + K - 1
        /\ rank[Q] \in Int /\ b <= rank[Q] /\ rank[Q] <= b + K - 1
        /\ b <= rank[S] /\ rank[S] <= b + K - 1
    BY <1>2, <2>0
  <2>2. rank[Q] = rank[P] + 1 \/ (rank[P] = b + K - 1 /\ rank[Q] = b)
    BY DEF RingRanked, K
  <2>3. /\ rank[Q] >= rank[S] => place(Q) = rank[Q] - rank[S] + 1
        /\ ~(rank[Q] >= rank[S]) => place(Q) = rank[Q] - rank[S] + K + 1
        /\ rank[P] >= rank[S] => place(P) = rank[P] - rank[S] + 1
        /\ ~(rank[P] >= rank[S]) => place(P) = rank[P] - rank[S] + K + 1
    BY <1>3, <2>0
  <2> HIDE DEF Q
  <2>4. place(Q) = IF place(P) = K THEN 1 ELSE place(P) + 1
    <3>1. CASE rank[Q] = rank[P] + 1
      BY <1>1, <2>1, <2>3, <3>1
    <3>2. CASE rank[P] = b + K - 1 /\ rank[Q] = b
      BY <1>1, <2>1, <2>3, <3>2
    <3> QED
      BY <2>2, <3>1, <3>2
  <2> QED
    BY <2>4 DEF Q
<1> QED
  BY <1>1, <1>4, <1>5, <1>6, <1>7 DEF K, place

\* A loop over the ring from S to E.
LEMMA RingNumbered ==
    ASSUME NEW rank, NEW O, IsFiniteSet(O), NEW nx, NEW b \in Int, RingRanked(rank, O, nx, b),
           \A P \in O : nx[P] \in O, NEW S \in O, NEW E \in O
    PROVE  LET K == Cardinality(O)
               place == [P \in O |-> PlaceFrom(rank, K, S, P)]
           IN  place[E] \in 1..K /\ Numbered(nx, RunFrom(rank, O, S, E), place[E], place, S, E)
<1> DEFINE K == Cardinality(O)
           place == [P \in O |-> PlaceFrom(rank, K, S, P)]
           D == RunFrom(rank, O, S, E)
<1>1. /\ K \in Nat /\ place[S] = 1
      /\ \A P \in O : place[P] \in 1..K
      /\ \A P, Q \in O : place[P] = place[Q] => P = Q
      /\ \A P \in O : place[nx[P]] = IF place[P] = K THEN 1 ELSE place[P] + 1
  BY RingPlaces
<1>2. D = {P \in O : place[P] <= place[E]}
  BY DEF RunFrom
<1> HIDE DEF K, place, D
<1>3. \A P \in D : P \in O /\ place[P] <= place[E]
  BY <1>2
<1>4. ASSUME NEW P \in D, P # E PROVE nx[P] \in D /\ place[nx[P]] = place[P] + 1
  <2>1. place[P] < place[E] /\ place[P] \in Int /\ place[E] \in 1..K
    BY <1>1, <1>3, <1>4
  <2>2. place[nx[P]] = place[P] + 1
    BY <1>1, <1>3, <2>1
  <2> QED
    BY <1>2, <1>3, <2>1, <2>2
<1>5. \A P \in D : place[P] \in 1..place[E]
  BY <1>1, <1>3
<1>6. Numbered(nx, D, place[E], place, S, E)
  BY <1>1, <1>3, <1>4, <1>5 DEF Numbered
<1> QED
  BY <1>1, <1>6 DEF K, place, D

\* The owners ranked from S to E along a ring are such a run.
LEMMA RunIsArc ==
    ASSUME NEW rank, NEW O, IsFiniteSet(O), NEW nx, NEW pv, NEW b \in Int, RingRanked(rank, O, nx, b),
           Linked(O, nx, pv), NEW S \in O, NEW E \in O, S # E, nx[E] # S, nx[E] # pv[S]
    PROVE  OwnersArc(O, nx, pv, RunFrom(rank, O, S, E), S, E)
<1> DEFINE K == Cardinality(O)
           place(P) == PlaceFrom(rank, K, S, P)
           D == RunFrom(rank, O, S, E)
<1>0. \A P \in O : nx[P] \in O /\ pv[P] \in O /\ nx[pv[P]] = P /\ pv[nx[P]] = P
  BY DEF Linked
<1>1. /\ K \in Nat /\ place(S) = 1
      /\ \A P \in O : place(P) \in 1..K
      /\ \A P, Q \in O : place(P) = place(Q) => P = Q
      /\ \A P \in O : place(nx[P]) = IF place(P) = K THEN 1 ELSE place(P) + 1
  BY <1>0, RingPlaces
<1>2. D = {P \in O : place(P) <= place(E)}
  BY DEF RunFrom
<1> HIDE DEF K, place, D
<1>3. place(E) < K /\ place(nx[E]) = place(E) + 1
  <2>1. place(nx[E]) # 1
    BY <1>0, <1>1
  <2> QED
    BY <1>1, <2>1
<1>4. nx[E] \notin D
  BY <1>1, <1>2, <1>3
<1>5. place(pv[S]) = K
  BY <1>0, <1>1
<1>6. pv[S] \notin D
  BY <1>1, <1>2, <1>3, <1>5
<1>7. ASSUME NEW P \in D, P # E PROVE nx[P] \in D
  <2>1. P \in O /\ place(P) \in 1..K /\ place(E) \in 1..K /\ place(P) <= place(E) /\ place(P) # place(E)
    BY <1>1, <1>2, <1>7
  <2>2. place(nx[P]) = place(P) + 1 /\ nx[P] \in O
    BY <1>0, <1>1, <2>1
  <2> QED
    BY <1>2, <2>1, <2>2
<1>8. ASSUME NEW P \in D, P # S PROVE pv[P] \in D
  <2>1. P \in O /\ pv[P] \in O /\ place(P) \in 1..K /\ place(pv[P]) \in 1..K /\ place(P) <= place(E)
        /\ place(P) # 1 /\ place(E) \in 1..K
    BY <1>0, <1>1, <1>2, <1>8
  <2>2. place(P) = place(pv[P]) + 1
    BY <1>0, <1>1, <2>1
  <2> QED
    BY <1>2, <2>1, <2>2
<1>9. D \subseteq O /\ S \in D /\ E \in D
  BY <1>1, <1>2
<1> QED
  BY <1>4, <1>6, <1>7, <1>8, <1>9 DEF OwnersArc, D

\* A run that has been turned around and linked to what is around it: still a ring.
LEMMA OwnersFlippedLinked ==
    ASSUME NEW O, NEW nx, NEW pv, Linked(O, nx, pv), NEW D, NEW S, NEW E,
           OwnersArc(O, nx, pv, D, S, E), NEW nx2, NEW pv2, OwnersFlipped(O, nx, pv, nx2, pv2, D, S, E)
    PROVE  Linked(O, nx2, pv2)
<1>0. \A P \in O : nx[P] \in O /\ pv[P] \in O /\ nx[P] # P /\ nx[pv[P]] = P /\ pv[nx[P]] = P
  BY DEF Linked
<1>1. /\ D \subseteq O /\ S \in D /\ E \in D /\ S # E
      /\ pv[S] \notin D /\ nx[E] \notin D /\ pv[S] # nx[E]
      /\ \A P \in D : P # E => nx[P] \in D
      /\ \A P \in D : P # S => pv[P] \in D
  BY DEF OwnersArc
<1> DEFINE A == pv[S]
           Z == nx[E]
<1>2. A \in O \ D /\ Z \in O \ D /\ A # Z /\ nx[A] = S /\ pv[Z] = E
  BY <1>0, <1>1
<1>3. \A P \in O :
        /\ nx2[P] = IF P = S THEN Z ELSE IF P = A THEN E ELSE IF P \in D THEN pv[P] ELSE nx[P]
        /\ pv2[P] = IF P = Z THEN S ELSE IF P = E THEN A ELSE IF P \in D THEN nx[P] ELSE pv[P]
  BY DEF OwnersFlipped
<1> HIDE DEF A, Z
<1>o. \A P \in O \ D : (P # A => nx[P] \in O \ D) /\ (P # Z => pv[P] \in O \ D)
  <2>1. ASSUME NEW P \in O \ D, P # A PROVE nx[P] \notin D
    <3>1. nx[P] # S
      BY <1>0, <2>1 DEF A
    <3> QED
      BY <1>0, <1>1, <2>1, <3>1
  <2>2. ASSUME NEW P \in O \ D, P # Z PROVE pv[P] \notin D
    <3>1. pv[P] # E
      BY <1>0, <2>2 DEF Z
    <3> QED
      BY <1>0, <1>1, <2>2, <3>1
  <2> QED
    BY <1>0, <2>1, <2>2
<1>4. ASSUME NEW P \in O
      PROVE  nx2[P] \in O /\ nx2[P] # P /\ pv2[nx2[P]] = P
  <2>1. CASE P = S
    BY <1>0, <1>1, <1>2, <1>3, <2>1
  <2>2. CASE P = A
    BY <1>0, <1>1, <1>2, <1>3, <2>2
  <2>3. CASE P \in D /\ P # S
    <3>1. nx2[P] = pv[P] /\ pv[P] \in D /\ pv[P] # E /\ pv[P] # Z
      BY <1>0, <1>1, <1>2, <1>3, <2>3 DEF Z
    <3> QED
      BY <1>0, <1>1, <1>3, <2>3, <3>1
  <2>4. CASE P \notin D /\ P # A
    <3>1. nx2[P] = nx[P] /\ nx[P] \in O \ D /\ nx[P] # Z /\ nx[P] # E
      BY <1>0, <1>1, <1>2, <1>3, <1>o, <2>4 DEF Z
    <3> QED
      BY <1>0, <1>3, <2>4, <3>1
  <2> QED
    BY <2>1, <2>2, <2>3, <2>4
<1>5. ASSUME NEW P \in O
      PROVE  pv2[P] \in O /\ nx2[pv2[P]] = P
  <2>1. CASE P = Z
    BY <1>0, <1>1, <1>2, <1>3, <2>1
  <2>2. CASE P = E
    BY <1>0, <1>1, <1>2, <1>3, <2>2
  <2>3. CASE P \in D /\ P # E
    <3>1. pv2[P] = nx[P] /\ nx[P] \in D /\ nx[P] # S /\ nx[P] # A
      BY <1>0, <1>1, <1>2, <1>3, <2>3 DEF A
    <3> QED
      BY <1>0, <1>1, <1>3, <2>3, <3>1
  <2>4. CASE P \notin D /\ P # Z
    <3>1. pv2[P] = pv[P] /\ pv[P] \in O \ D /\ pv[P] # A /\ pv[P] # S
      BY <1>0, <1>1, <1>2, <1>3, <1>o, <2>4 DEF A
    <3> QED
      BY <1>0, <1>3, <2>4, <3>1
  <2> QED
    BY <2>1, <2>2, <2>3, <2>4
<1> QED
  BY <1>4, <1>5 DEF Linked

\* Ranked from E's old rank down, the owners have consecutive ranks again.
LEMMA RunTurnedRanked ==
    ASSUME NEW rank, NEW O, IsFiniteSet(O), NEW nx, NEW pv, NEW b \in Int, RingRanked(rank, O, nx, b),
           Linked(O, nx, pv), NEW S \in O, NEW E \in O, NEW D, D = RunFrom(rank, O, S, E),
           OwnersArc(O, nx, pv, D, S, E), NEW nx2, NEW pv2, OwnersFlipped(O, nx, pv, nx2, pv2, D, S, E),
           NEW new, \A P \in O : new[P] = IF P \in D
                                         THEN rank[E] + 1 - PlaceFrom(rank, Cardinality(O), S, P)
                                         ELSE rank[P]
    PROVE  \E c \in Int : RingRanked(new, O, nx2, c)
<1> DEFINE K == Cardinality(O)
           place(P) == PlaceFrom(rank, K, S, P)
           c == IF rank[S] <= rank[E] THEN b ELSE rank[S] - K
<1>0. \A P \in O : nx[P] \in O /\ pv[P] \in O /\ nx[P] # P /\ nx[pv[P]] = P /\ pv[nx[P]] = P
  BY DEF Linked
<1>1. /\ K \in Nat /\ place(S) = 1
      /\ \A P \in O : place(P) \in 1..K
      /\ \A P, Q \in O : place(P) = place(Q) => P = Q
      /\ \A P \in O : place(nx[P]) = IF place(P) = K THEN 1 ELSE place(P) + 1
  BY <1>0, RingPlaces
<1>2. \A P \in O : P \in D <=> place(P) <= place(E)
  BY DEF RunFrom
<1>3. \A P \in O : /\ rank[P] >= rank[S] => place(P) = rank[P] - rank[S] + 1
                   /\ ~(rank[P] >= rank[S]) => place(P) = rank[P] - rank[S] + K + 1
  BY DEF PlaceFrom
<1>4. \A P \in O : rank[P] \in Int /\ b <= rank[P] /\ rank[P] <= b + K - 1
  BY <1>1 DEF RingRanked
<1>5. \A P \in O : new[P] = IF P \in D THEN rank[E] + 1 - place(P) ELSE rank[P]
  OBVIOUS
<1>6. /\ D \subseteq O /\ S \in D /\ E \in D /\ S # E
      /\ pv[S] \notin D /\ nx[E] \notin D /\ pv[S] # nx[E]
      /\ \A P \in D : P # E => nx[P] \in D
      /\ \A P \in D : P # S => pv[P] \in D
  BY DEF OwnersArc
<1>7. \A P \in O : rank[nx[P]] = rank[P] + 1 \/ (rank[P] = b + K - 1 /\ rank[nx[P]] = b)
  BY DEF RingRanked
<1>8. \A P, Q \in O : rank[P] = rank[Q] => P = Q
  BY DEF RingRanked
<1> HIDE DEF K, place
<1>9. c \in Int
  BY <1>1, <1>4
\* The run does not wrap around, or it does.
<1>10. ASSUME NEW P \in O
       PROVE  /\ rank[S] <= rank[E] => (P \in D <=> rank[S] <= rank[P] /\ rank[P] <= rank[E])
              /\ ~(rank[S] <= rank[E]) => (P \in D <=> rank[S] <= rank[P] \/ rank[P] <= rank[E])
  <2>1. /\ rank[P] \in Int /\ rank[S] \in Int /\ rank[E] \in Int
        /\ b <= rank[P] /\ rank[P] <= b + K - 1
        /\ b <= rank[S] /\ rank[S] <= b + K - 1
        /\ b <= rank[E] /\ rank[E] <= b + K - 1
    BY <1>4
  <2>2. P \in D <=> place(P) <= place(E)
    BY <1>2
  <2>3. /\ rank[P] >= rank[S] => place(P) = rank[P] - rank[S] + 1
        /\ ~(rank[P] >= rank[S]) => place(P) = rank[P] - rank[S] + K + 1
        /\ rank[E] >= rank[S] => place(E) = rank[E] - rank[S] + 1
        /\ ~(rank[E] >= rank[S]) => place(E) = rank[E] - rank[S] + K + 1
    BY <1>3
  <2> QED
    BY <1>1, <2>1, <2>2, <2>3
\* The new ranks.
<1>11. ASSUME NEW P \in O
       PROVE  /\ rank[S] <= rank[E] /\ P \in D => new[P] = rank[S] + rank[E] - rank[P]
              /\ ~(rank[S] <= rank[E]) /\ P \in D /\ rank[P] >= rank[S] => new[P] = rank[S] + rank[E] - rank[P]
              /\ ~(rank[S] <= rank[E]) /\ P \in D /\ ~(rank[P] >= rank[S])
                    => new[P] = rank[S] + rank[E] - rank[P] - K
              /\ P \notin D => new[P] = rank[P]
  <2>1. rank[P] \in Int /\ rank[S] \in Int /\ rank[E] \in Int /\ K \in Int
    BY <1>1, <1>4
  <2> QED
    BY <1>3, <1>5, <1>10, <2>1
<1>12. ASSUME NEW P \in O PROVE new[P] \in Int /\ c <= new[P] /\ new[P] <= c + K - 1
  <2>1. /\ rank[P] \in Int /\ rank[S] \in Int /\ rank[E] \in Int /\ K \in Nat
        /\ b <= rank[P] /\ rank[P] <= b + K - 1
        /\ b <= rank[S] /\ rank[S] <= b + K - 1
        /\ b <= rank[E] /\ rank[E] <= b + K - 1
    BY <1>1, <1>4
  <2>2. CASE rank[S] <= rank[E]
    BY <1>10, <1>11, <2>1, <2>2
  <2>3. CASE ~(rank[S] <= rank[E])
    BY <1>10, <1>11, <2>1, <2>3
  <2> QED
    BY <2>2, <2>3
<1>13. ASSUME NEW P \in O, NEW Q \in O, new[P] = new[Q] PROVE P = Q
  <2>1. /\ rank[P] \in Int /\ rank[Q] \in Int /\ rank[S] \in Int /\ rank[E] \in Int /\ K \in Nat
        /\ b <= rank[P] /\ rank[P] <= b + K - 1
        /\ b <= rank[Q] /\ rank[Q] <= b + K - 1
        /\ b <= rank[S] /\ rank[S] <= b + K - 1
        /\ b <= rank[E] /\ rank[E] <= b + K - 1
    BY <1>1, <1>4
  <2>2. rank[P] = rank[Q]
    <3>1. CASE rank[S] <= rank[E]
      BY <1>10, <1>11, <1>13, <2>1, <3>1
    <3>2. CASE ~(rank[S] <= rank[E])
      BY <1>10, <1>11, <1>13, <2>1, <3>2
    <3> QED
      BY <3>1, <3>2
  <2> QED
    BY <1>8, <2>2
<1> DEFINE A == pv[S]
           Z == nx[E]
<1>14. A \in O \ D /\ Z \in O \ D /\ nx[A] = S
  BY <1>0, <1>6
<1>15. \A P \in O : nx2[P] = IF P = S THEN Z ELSE IF P = A THEN E ELSE IF P \in D THEN pv[P] ELSE nx[P]
  BY DEF OwnersFlipped
<1>16. ASSUME NEW P \in O \ D, P # A PROVE nx[P] \in O \ D
  <2>1. nx[P] # S
    BY <1>0, <1>16
  <2> QED
    BY <1>0, <1>6, <1>16, <2>1
<1>17. rank[Z] = rank[E] + 1 \/ (rank[E] = b + K - 1 /\ rank[Z] = b)
  BY <1>0, <1>6, <1>7
<1>18. rank[S] = rank[A] + 1 \/ (rank[A] = b + K - 1 /\ rank[S] = b)
  BY <1>7, <1>14
<1> HIDE DEF A, Z, c
<1>c. c = IF rank[S] <= rank[E] THEN b ELSE rank[S] - K
  BY DEF c
<1>19. ASSUME NEW P \in O
       PROVE  new[nx2[P]] = new[P] + 1 \/ (new[P] = c + K - 1 /\ new[nx2[P]] = c)
  <2>0. /\ rank[S] \in Int /\ rank[E] \in Int /\ K \in Nat
        /\ b <= rank[S] /\ rank[S] <= b + K - 1
        /\ b <= rank[E] /\ rank[E] <= b + K - 1
    BY <1>1, <1>4, <1>6
  <2>1. CASE P = S
    <3>1. nx2[P] = Z /\ new[Z] = rank[Z] /\ rank[Z] \in Int /\ b <= rank[Z] /\ rank[Z] <= b + K - 1
      BY <1>4, <1>11, <1>14, <1>15, <2>1
    <3>2. new[S] = rank[E]
      BY <1>6, <1>11, <2>0
    <3>3. CASE rank[S] <= rank[E]
      BY <1>c, <1>17, <2>0, <2>1, <3>1, <3>2, <3>3
    <3>4. CASE ~(rank[S] <= rank[E])
      BY <1>c, <1>17, <2>0, <2>1, <3>1, <3>2, <3>4
    <3> QED
      BY <3>3, <3>4
  <2>2. CASE P = A
    <3>1. P # S /\ nx2[P] = E /\ new[P] = rank[A] /\ rank[A] \in Int /\ b <= rank[A] /\ rank[A] <= b + K - 1
      BY <1>4, <1>6, <1>11, <1>14, <1>15, <2>2
    <3>3. CASE rank[S] <= rank[E]
      <4>1. new[E] = rank[S]
        BY <1>6, <1>11, <2>0, <3>3
      <4> QED
        BY <1>c, <1>18, <2>0, <3>1, <3>3, <4>1
    <3>4. CASE ~(rank[S] <= rank[E])
      <4>1. new[E] = rank[S] - K
        BY <1>6, <1>11, <2>0, <3>4
      <4> QED
        BY <1>c, <1>18, <2>0, <3>1, <3>4, <4>1
    <3> QED
      BY <3>3, <3>4
  <2>3. CASE P \in D /\ P # S
    <3> DEFINE Q == pv[P]
    <3>1. nx2[P] = Q /\ Q \in D /\ Q \in O /\ nx[Q] = P
      BY <1>0, <1>6, <1>14, <1>15, <2>3
    <3>2. rank[P] = rank[Q] + 1 \/ (rank[Q] = b + K - 1 /\ rank[P] = b)
      BY <1>7, <3>1
    <3>3. /\ rank[P] \in Int /\ rank[Q] \in Int
          /\ b <= rank[P] /\ rank[P] <= b + K - 1
          /\ b <= rank[Q] /\ rank[Q] <= b + K - 1
      BY <1>4, <3>1
    <3>4. rank[P] # rank[S]
      BY <1>6, <1>8, <2>3
    <3> HIDE DEF Q
    <3>5. CASE rank[S] <= rank[E]
      BY <1>10, <1>11, <2>0, <2>3, <3>1, <3>2, <3>3, <3>4, <3>5
    <3>6. CASE ~(rank[S] <= rank[E])
      BY <1>10, <1>11, <2>0, <2>3, <3>1, <3>2, <3>3, <3>4, <3>6
    <3> QED
      BY <3>5, <3>6
  <2>4. CASE P \notin D /\ P # A
    <3> DEFINE Q == nx[P]
    <3>1. nx2[P] = Q /\ Q \in O /\ Q \notin D
      BY <1>6, <1>15, <1>16, <2>4
    <3>2. rank[Q] = rank[P] + 1 \/ (rank[P] = b + K - 1 /\ rank[Q] = b)
      BY <1>7
    <3>3. /\ rank[P] \in Int /\ rank[Q] \in Int
          /\ b <= rank[P] /\ rank[P] <= b + K - 1
          /\ b <= rank[Q] /\ rank[Q] <= b + K - 1
      BY <1>4, <3>1
    <3>4. new[P] = rank[P] /\ new[Q] = rank[Q]
      BY <1>11, <2>4, <3>1
    <3> HIDE DEF Q
    <3>5. CASE rank[S] <= rank[E]
      BY <1>c, <2>0, <3>1, <3>2, <3>3, <3>4, <3>5
    <3>6. CASE ~(rank[S] <= rank[E])
      BY <1>10, <2>0, <2>4, <3>1, <3>2, <3>3, <3>4, <3>6
    <3> QED
      BY <3>5, <3>6
  <2> QED
    BY <2>1, <2>2, <2>3, <2>4
<1>20. RingRanked(new, O, nx2, c)
  BY <1>1, <1>9, <1>12, <1>13, <1>19 DEF RingRanked, K
<1> QED
  BY <1>9, <1>20

-----------------------------------------------------------------------------
(* The code's updates in place, as functions of the structure before. *)

\* X are the tree nodes, W those that hold others.
Shape(T, X, W) ==
    T \in [type : {2, 3}, suc : [X -> X], prd : [X -> X], rank : [X -> Int], parent : [X -> X \cup {Null}],
           rev : [W -> BOOLEAN], first : [W -> X], last : [W -> X], size : [W -> Int]]

\* Only the links differ.
SameButLinks(T, U) ==
    /\ U.type = T.type /\ U.rank = T.rank /\ U.parent = T.parent /\ U.rev = T.rev
    /\ U.first = T.first /\ U.last = T.last /\ U.size = T.size

\* Where x's Suc is old, Redirect sets it, and otherwise x's Pred.
LEMMA RedirectSuc ==
    ASSUME NEW X, NEW W, NEW T, Shape(T, X, W), NEW x \in X, NEW old, NEW new \in X
    PROVE  LET U == Redirect(T, x, "suc", old, new) IN
           /\ Shape(U, X, W) /\ SameButLinks(T, U)
           /\ U.suc = IF T.suc[x] = old THEN [T.suc EXCEPT ![x] = new] ELSE T.suc
           /\ U.prd = IF T.suc[x] = old THEN T.prd ELSE [T.prd EXCEPT ![x] = new]
<1>1. CASE T.suc[x] = old
  <2>1. Redirect(T, x, "suc", old, new) = [T EXCEPT !.suc[x] = new]
    BY <1>1 DEF Redirect, Shape
  <2> QED
    BY <1>1, <2>1 DEF Shape, SameButLinks
<1>2. CASE T.suc[x] # old
  <2>1. Redirect(T, x, "suc", old, new) = [T EXCEPT !.prd[x] = new]
    BY <1>2 DEF Redirect, Shape, Opposite
  <2> QED
    BY <1>2, <2>1 DEF Shape, SameButLinks
<1> QED
  BY <1>1, <1>2

\* Where x's Pred is old, Redirect sets it, and otherwise x's Suc.
LEMMA RedirectPrd ==
    ASSUME NEW X, NEW W, NEW T, Shape(T, X, W), NEW x \in X, NEW old, NEW new \in X
    PROVE  LET U == Redirect(T, x, "prd", old, new) IN
           /\ Shape(U, X, W) /\ SameButLinks(T, U)
           /\ U.prd = IF T.prd[x] = old THEN [T.prd EXCEPT ![x] = new] ELSE T.prd
           /\ U.suc = IF T.prd[x] = old THEN T.suc ELSE [T.suc EXCEPT ![x] = new]
<1>1. CASE T.prd[x] = old
  <2>1. Redirect(T, x, "prd", old, new) = [T EXCEPT !.prd[x] = new]
    BY <1>1 DEF Redirect, Shape
  <2> QED
    BY <1>1, <2>1 DEF Shape, SameButLinks
<1>2. CASE T.prd[x] # old
  <2>1. Redirect(T, x, "prd", old, new) = [T EXCEPT !.suc[x] = new]
    BY <1>2 DEF Redirect, Shape, Opposite
  <2> QED
    BY <1>2, <2>1 DEF Shape, SameButLinks
<1> QED
  BY <1>1, <1>2

\* Relink exchanges the links of four different items.
LEMMA RelinkIs ==
    ASSUME NEW X, NEW W, NEW T, Shape(T, X, W), NEW r, NEW t1 \in X, NEW t2 \in X, NEW t3 \in X, NEW t4 \in X,
           r = <<t1, t2, t3, t4>>, t1 # t2, t1 # t3, t1 # t4, t2 # t3, t2 # t4, t3 # t4,
           NEW I \in SUBSET X, NEW O
    PROVE  LET U == Relink(T, r) IN
           /\ Shape(U, X, W) /\ SameButLinks(T, U) /\ Relinked(T, U, I, O, t1, t2, t3, t4)
           /\ \A x \in X \ {t1, t2, t3, t4} : U.suc[x] = T.suc[x] /\ U.prd[x] = T.prd[x]
<1> DEFINE A == Redirect(T, t3, "suc", t4, t2)
           B == Redirect(A, t2, "suc", t1, t3)
           C == Redirect(B, t1, "prd", t2, t4)
           U == Redirect(C, t4, "prd", t3, t1)
<1>1. /\ Shape(A, X, W) /\ SameButLinks(T, A)
      /\ A.suc = IF T.suc[t3] = t4 THEN [T.suc EXCEPT ![t3] = t2] ELSE T.suc
      /\ A.prd = IF T.suc[t3] = t4 THEN T.prd ELSE [T.prd EXCEPT ![t3] = t2]
  BY RedirectSuc
<1> HIDE DEF A
<1>2. /\ Shape(B, X, W) /\ SameButLinks(A, B)
      /\ B.suc = IF A.suc[t2] = t1 THEN [A.suc EXCEPT ![t2] = t3] ELSE A.suc
      /\ B.prd = IF A.suc[t2] = t1 THEN A.prd ELSE [A.prd EXCEPT ![t2] = t3]
  <2>1. Shape(A, X, W)
    BY <1>1
  <2> QED
    BY <2>1, RedirectSuc
<1> HIDE DEF B
<1>3. /\ Shape(C, X, W) /\ SameButLinks(B, C)
      /\ C.prd = IF B.prd[t1] = t2 THEN [B.prd EXCEPT ![t1] = t4] ELSE B.prd
      /\ C.suc = IF B.prd[t1] = t2 THEN B.suc ELSE [B.suc EXCEPT ![t1] = t4]
  <2>1. Shape(B, X, W)
    BY <1>2
  <2> QED
    BY <2>1, RedirectPrd
<1> HIDE DEF C
<1>4. /\ Shape(U, X, W) /\ SameButLinks(C, U)
      /\ U.prd = IF C.prd[t4] = t3 THEN [C.prd EXCEPT ![t4] = t1] ELSE C.prd
      /\ U.suc = IF C.prd[t4] = t3 THEN C.suc ELSE [C.suc EXCEPT ![t4] = t1]
  <2>1. Shape(C, X, W)
    BY <1>3
  <2> QED
    BY <2>1, RedirectPrd
<1>5. U = Relink(T, r)
  BY DEF Relink, A, B, C
<1> HIDE DEF U
<1>6. SameButLinks(T, U)
  BY <1>1, <1>2, <1>3, <1>4 DEF SameButLinks
<1>7. T.suc \in [X -> X] /\ T.prd \in [X -> X] /\ A.suc \in [X -> X] /\ A.prd \in [X -> X]
      /\ B.suc \in [X -> X] /\ B.prd \in [X -> X] /\ C.suc \in [X -> X] /\ C.prd \in [X -> X]
  BY <1>1, <1>2, <1>3 DEF Shape
<1>8. A.suc[t2] = T.suc[t2] /\ B.prd[t1] = T.prd[t1] /\ C.prd[t4] = T.prd[t4]
  BY <1>1, <1>2, <1>3, <1>7
<1>9. \A x \in X :
         /\ U.suc[x] = IF x = t3 /\ T.suc[t3] = t4 THEN t2
                       ELSE IF x = t2 /\ T.suc[t2] = t1 THEN t3
                       ELSE IF x = t1 /\ T.prd[t1] # t2 THEN t4
                       ELSE IF x = t4 /\ T.prd[t4] # t3 THEN t1 ELSE T.suc[x]
         /\ U.prd[x] = IF x = t3 /\ T.suc[t3] # t4 THEN t2
                       ELSE IF x = t2 /\ T.suc[t2] # t1 THEN t3
                       ELSE IF x = t1 /\ T.prd[t1] = t2 THEN t4
                       ELSE IF x = t4 /\ T.prd[t4] = t3 THEN t1 ELSE T.prd[x]
  <2> TAKE x \in X
  <2>1. /\ A.suc[x] = IF x = t3 /\ T.suc[t3] = t4 THEN t2 ELSE T.suc[x]
        /\ A.prd[x] = IF x = t3 /\ T.suc[t3] # t4 THEN t2 ELSE T.prd[x]
    BY <1>1, <1>7
  <2>2. /\ B.suc[x] = IF x = t2 /\ T.suc[t2] = t1 THEN t3 ELSE A.suc[x]
        /\ B.prd[x] = IF x = t2 /\ T.suc[t2] # t1 THEN t3 ELSE A.prd[x]
    BY <1>2, <1>7, <1>8
  <2>3. /\ C.suc[x] = IF x = t1 /\ T.prd[t1] # t2 THEN t4 ELSE B.suc[x]
        /\ C.prd[x] = IF x = t1 /\ T.prd[t1] = t2 THEN t4 ELSE B.prd[x]
    BY <1>3, <1>7, <1>8
  <2>4. /\ U.suc[x] = IF x = t4 /\ T.prd[t4] # t3 THEN t1 ELSE C.suc[x]
        /\ U.prd[x] = IF x = t4 /\ T.prd[t4] = t3 THEN t1 ELSE C.prd[x]
    BY <1>4, <1>7, <1>8
  <2> QED
    BY <2>1, <2>2, <2>3, <2>4
<1>10. Relinked(T, U, I, O, t1, t2, t3, t4)
  BY <1>6, <1>9 DEF Relinked, SameButLinks
<1> QED
  BY <1>4, <1>5, <1>6, <1>9, <1>10

-----------------------------------------------------------------------------
(* Suc and Prd change places. *)

\* The items of D have their links swapped, and their Reversed bits toggled.
LinksSwapped(T, U, X, W, D) ==
    /\ U.suc = [x \in X |-> IF x \in D THEN T.prd[x] ELSE T.suc[x]]
    /\ U.prd = [x \in X |-> IF x \in D THEN T.suc[x] ELSE T.prd[x]]
    /\ U.rev = [x \in W |-> IF x \in D THEN ~T.rev[x] ELSE T.rev[x]]

\* What Swapped does to the fields.
LEMMA SwappedIs ==
    ASSUME NEW X, NEW W, NEW T, Shape(T, X, W), NEW D
    PROVE  LET U == Swapped(T, D) IN
           /\ Shape(U, X, W) /\ LinksSwapped(T, U, X, W, D)
           /\ U.type = T.type /\ U.rank = T.rank /\ U.parent = T.parent
           /\ U.first = T.first /\ U.last = T.last /\ U.size = T.size
<1> DEFINE U == Swapped(T, D)
           su == [x \in X |-> IF x \in D THEN T.prd[x] ELSE T.suc[x]]
           pr == [x \in X |-> IF x \in D THEN T.suc[x] ELSE T.prd[x]]
           re == [x \in W |-> IF x \in D THEN ~T.rev[x] ELSE T.rev[x]]
<1>0. T.rev \in [W -> BOOLEAN]
  BY DEF Shape
<1>1. U = [T EXCEPT !.suc = su, !.prd = pr, !.rev = re]
  <2>1. [x \in DOMAIN T.rev |-> (x \in D) # T.rev[x]] = re
    <3>1. DOMAIN T.rev = W
      BY <1>0
    <3>2. \A x \in W : ((x \in D) # T.rev[x]) = IF x \in D THEN ~T.rev[x] ELSE T.rev[x]
      <4> TAKE x \in W
      <4>1. T.rev[x] \in BOOLEAN
        BY <1>0
      <4> QED
        BY <4>1
    <3> QED
      BY <3>1, <3>2, Zenon
  <2> HIDE DEF re
  <2> QED
    BY <2>1 DEF Swapped, Shape
<1>2. su \in [X -> X] /\ pr \in [X -> X]
  BY DEF Shape
<1>3. re \in [W -> BOOLEAN]
  BY <1>0
<1> HIDE DEF su, pr, re
<1>4. Shape(U, X, W) /\ U.suc = su /\ U.prd = pr /\ U.rev = re
      /\ U.type = T.type /\ U.rank = T.rank /\ U.parent = T.parent
      /\ U.first = T.first /\ U.last = T.last /\ U.size = T.size
  <2> HIDE DEF U
  <2> QED
    BY <1>1, <1>2, <1>3 DEF Shape
<1> QED
  BY <1>4 DEF su, pr, re, LinksSwapped

\* A loop from a to z meets the items D in the order num.
Meets(T, a, z, D, num) ==
    /\ D = ToSet(Path(T.suc, a, z))
    /\ \A x \in D : num[x] \in Int /\ IndexIn(Path(T.suc, a, z), x) = num[x]

\* The list from a to z is turned around.
LEMMA TurnAroundIs ==
    ASSUME NEW X, NEW W, NEW T, Shape(T, X, W), NEW a \in X, NEW z \in X,
           NEW D, NEW num, Meets(T, a, z, D, num)
    PROVE  LET U == TurnAround(T, a, z) IN
           /\ Shape(U, X, W) /\ LinksSwapped(T, U, X, W, D)
           /\ U.rank = [x \in X |-> IF x \in D THEN T.rank[z] + 1 - num[x] ELSE T.rank[x]]
           /\ U.type = T.type /\ U.parent = T.parent
           /\ U.first = T.first /\ U.last = T.last /\ U.size = T.size
<1> DEFINE U == TurnAround(T, a, z)
           run == Path(T.suc, a, z)
           S == Swapped(T, D)
           ra == [x \in X |-> IF x \in D THEN T.rank[z] + 1 - num[x] ELSE T.rank[x]]
<1>0. D = ToSet(run) /\ \A x \in D : num[x] \in Int /\ IndexIn(run, x) = num[x]
  BY DEF Meets
<1>1. /\ Shape(S, X, W) /\ LinksSwapped(T, S, X, W, D)
      /\ S.type = T.type /\ S.rank = T.rank /\ S.parent = T.parent
      /\ S.first = T.first /\ S.last = T.last /\ S.size = T.size
  BY SwappedIs
<1>2. S.rank \in [X -> Int] /\ DOMAIN S.rank = X /\ T.rank \in [X -> Int]
  BY <1>1 DEF Shape
<1>3. [x \in X |-> IF x \in ToSet(run) THEN T.rank[z] + 1 - IndexIn(run, x) ELSE S.rank[x]] = ra
  BY <1>0, <1>1
<1>4. ra \in [X -> Int]
  BY <1>0, <1>2
<1>5. U = [S EXCEPT !.rank = [x \in DOMAIN @ |-> IF x \in ToSet(run)
                                  THEN T.rank[z] + 1 - IndexIn(run, x) ELSE @[x]]]
  BY <1>0 DEF TurnAround
<1>6. U = [S EXCEPT !.rank = ra]
  <2> HIDE DEF S, ra, run, U
  <2> QED
    BY <1>1, <1>2, <1>3, <1>5 DEF Shape
<1> HIDE DEF S, ra, run, U
<1>7. Shape(U, X, W) /\ U.rank = ra /\ U.suc = S.suc /\ U.prd = S.prd /\ U.rev = S.rev
      /\ U.type = S.type /\ U.parent = S.parent
      /\ U.first = S.first /\ U.last = S.last /\ U.size = S.size
  BY <1>1, <1>4, <1>6 DEF Shape
<1> QED
  BY <1>1, <1>7 DEF U, ra, LinksSwapped

-----------------------------------------------------------------------------
(* FlipNodes. *)

\* Nothing changes outside the items I.
ItemsElseKept(T, U, X, I) ==
    \A x \in X \ I : U.suc[x] = T.suc[x] /\ U.prd[x] = T.prd[x] /\ U.rank[x] = T.rank[x]

\* The path a --> z of one stretch, between p and n, is turned around.
LEMMA FlipNodesIs ==
    ASSUME N \in Nat, NEW X, NEW W, NEW T, Shape(T, X, W), NEW I \in SUBSET X, NEW O \in SUBSET W, Null \notin O,
           IsFiniteSet(I), Cardinality(I) <= N, NEW B, NEW nx, NEW pv, Level(T, I, O, B, nx, pv),
           NEW a \in I, NEW z \in I, T.parent[z] = T.parent[a], T.rank[a] < T.rank[z],
           NEW p, p = T.prd[a], NEW n, n = T.suc[z], p # n
    PROVE  LET U == FlipNodes(T, p, a, n, z) IN
           /\ Shape(U, X, W) /\ U.type = T.type /\ U.parent = T.parent
           /\ U.rev = [x \in W |-> IF x \in Inner(T, I, a, z) THEN ~T.rev[x] ELSE T.rev[x]]
           /\ FlippedInside(T, U, I, O, p, a, n, z) /\ ItemsElseKept(T, U, X, I)
<1> DEFINE M == Inner(T, I, a, z)
           P == T.parent[a]
           num == [x \in M |-> T.rank[x] - T.rank[a] + 1]
           R == TurnAround(T, a, z)
           R2 == [R EXCEPT !.suc[a] = n]
           A == Redirect(R2, n, "prd", z, a)
           A2 == [A EXCEPT !.prd[z] = p]
           L == Redirect(A2, p, "suc", a, z)
           F == MoveEnd(L, "first", a, z)
           U == MoveEnd(F, "last", a, z)
<1>1. Stretches(T, I, O) /\ a \in X /\ z \in X /\ T.rank[a] \in Int /\ T.rank[z] \in Int
  BY DEF Level, Shape
<1>2. ToSet(Path(T.suc, a, z)) = M /\ \A x \in M : IndexIn(Path(T.suc, a, z), x) = T.rank[x] - T.rank[a] + 1
  BY <1>1, StretchWalk
<1>3. /\ P \in O /\ a # z /\ a \in M /\ z \in M /\ a # T.last[P] /\ z # T.first[P] /\ M \subseteq I
      /\ p \in I \ M /\ n \in I \ M
  BY InnerFacts
<1>4. \A x \in M : num[x] \in Int /\ IndexIn(Path(T.suc, a, z), x) = num[x] /\ num[x] = T.rank[x] - T.rank[a] + 1
  BY <1>1, <1>2, <1>3 DEF Shape
<1> HIDE DEF M, num
<1>5. /\ Shape(R, X, W) /\ LinksSwapped(T, R, X, W, M)
      /\ R.rank = [x \in X |-> IF x \in M THEN T.rank[z] + 1 - num[x] ELSE T.rank[x]]
      /\ R.type = T.type /\ R.parent = T.parent
      /\ R.first = T.first /\ R.last = T.last /\ R.size = T.size
  <2>1. a \in X /\ z \in X /\ Meets(T, a, z, M, num)
    BY <1>1, <1>2, <1>4 DEF Meets
  <2> QED
    BY <2>1, TurnAroundIs
<1> HIDE DEF R
<1>6. Shape(R2, X, W) /\ SameButLinks(R, R2) /\ R2.suc = [R.suc EXCEPT ![a] = n] /\ R2.prd = R.prd
  BY <1>1, <1>3, <1>5 DEF Shape, SameButLinks
<1> HIDE DEF R2
<1>7. /\ Shape(A, X, W) /\ SameButLinks(R2, A)
      /\ A.prd = IF R2.prd[n] = z THEN [R2.prd EXCEPT ![n] = a] ELSE R2.prd
      /\ A.suc = IF R2.prd[n] = z THEN R2.suc ELSE [R2.suc EXCEPT ![n] = a]
  <2>1. Shape(R2, X, W) /\ n \in X
    BY <1>3, <1>6
  <2> QED
    BY <1>1, <2>1, RedirectPrd
<1> HIDE DEF A
<1>8. Shape(A2, X, W) /\ SameButLinks(A, A2) /\ A2.prd = [A.prd EXCEPT ![z] = p] /\ A2.suc = A.suc
  BY <1>1, <1>3, <1>7 DEF Shape, SameButLinks
<1> HIDE DEF A2
<1>9. /\ Shape(L, X, W) /\ SameButLinks(A2, L)
      /\ L.suc = IF A2.suc[p] = a THEN [A2.suc EXCEPT ![p] = z] ELSE A2.suc
      /\ L.prd = IF A2.suc[p] = a THEN A2.prd ELSE [A2.prd EXCEPT ![p] = z]
  <2>1. Shape(A2, X, W) /\ p \in X
    BY <1>3, <1>8
  <2> QED
    BY <1>1, <2>1, RedirectSuc
<1> HIDE DEF L
<1>10. /\ L.parent = T.parent /\ L.first = T.first /\ L.last = T.last /\ L.size = T.size /\ L.type = T.type
       /\ L.rev = R.rev /\ L.rank = R.rank
  BY <1>5, <1>6, <1>7, <1>8, <1>9 DEF SameButLinks
<1>11. P \in W /\ P # Null /\ T.first[P] \in X /\ T.last[P] \in X
  BY <1>3 DEF Shape
<1>12. F = IF T.first[P] = a THEN [L EXCEPT !.first[P] = z] ELSE L
  BY <1>3, <1>10 DEF MoveEnd
<1>13. /\ Shape(F, X, W) /\ F.first = [T.first EXCEPT ![P] = IF T.first[P] = a THEN z ELSE T.first[P]]
       /\ F.last = T.last /\ F.parent = T.parent /\ F.suc = L.suc /\ F.prd = L.prd
       /\ F.rank = L.rank /\ F.size = L.size /\ F.type = L.type /\ F.rev = L.rev
  <2> HIDE DEF F
  <2>1. T.first \in [W -> X] /\ z \in X /\ Shape(L, X, W)
    BY <1>1, <1>9 DEF Shape
  <2>2. CASE T.first[P] = a
    <3>1. F = [L EXCEPT !.first[P] = z]
      BY <1>12, <2>2
    <3> QED
      BY <1>10, <1>11, <2>1, <2>2, <3>1 DEF Shape
  <2>3. CASE T.first[P] # a
    <3>1. F = L
      BY <1>12, <2>3
    <3> QED
      BY <1>10, <1>11, <2>1, <2>3, <3>1
  <2> QED
    BY <2>2, <2>3
<1> HIDE DEF F
<1>14. U = IF T.last[P] = z THEN [F EXCEPT !.last[P] = a] ELSE F
  BY <1>3, <1>13 DEF MoveEnd
<1>15. /\ Shape(U, X, W) /\ U.last = [T.last EXCEPT ![P] = IF T.last[P] = z THEN a ELSE T.last[P]]
       /\ U.first = F.first /\ U.parent = T.parent /\ U.suc = L.suc /\ U.prd = L.prd
       /\ U.rank = L.rank /\ U.size = L.size /\ U.type = L.type /\ U.rev = L.rev
  <2> HIDE DEF U
  <2>1. T.last \in [W -> X] /\ a \in X /\ Shape(F, X, W) /\ F.last = T.last
    BY <1>1, <1>13 DEF Shape
  <2>2. CASE T.last[P] = z
    <3>1. U = [F EXCEPT !.last[P] = a]
      BY <1>14, <2>2
    <3> QED
      BY <1>11, <1>13, <2>1, <2>2, <3>1 DEF Shape
  <2>3. CASE T.last[P] # z
    <3>1. U = F
      BY <1>14, <2>3
    <3> QED
      BY <1>11, <1>13, <2>1, <2>3, <3>1
  <2> QED
    BY <2>2, <2>3
<1>16. U = FlipNodes(T, p, a, n, z)
  BY <1>11 DEF FlipNodes, R, R2, A, A2, L, F
<1> HIDE DEF U
<1>17. T.suc \in [X -> X] /\ T.prd \in [X -> X] /\ R.suc \in [X -> X] /\ R.prd \in [X -> X]
       /\ R2.suc \in [X -> X] /\ R2.prd \in [X -> X] /\ A.suc \in [X -> X] /\ A.prd \in [X -> X]
       /\ A2.suc \in [X -> X] /\ A2.prd \in [X -> X]
       /\ T.first \in [W -> X] /\ T.last \in [W -> X] /\ T.rank \in [X -> Int]
  BY <1>5, <1>6, <1>7, <1>8 DEF Shape
<1>18. R2.prd[n] = T.prd[n] /\ A2.suc[p] = T.suc[p]
  <2>1. n \in X /\ p \in X /\ n \notin M /\ p \notin M /\ p # a
    BY <1>3
  <2>2. R.prd[n] = T.prd[n] /\ R.suc[p] = T.suc[p]
    BY <1>5, <2>1 DEF LinksSwapped
  <2>3. R2.prd[n] = T.prd[n]
    BY <1>6, <2>2
  <2>4. R2.suc[p] = T.suc[p]
    BY <1>6, <1>17, <2>1, <2>2
  <2>5. A.suc[p] = R2.suc[p]
    BY <1>7, <1>17, <2>1
  <2> QED
    BY <1>8, <2>3, <2>4, <2>5
<1>19. \A x \in X :
          /\ U.suc[x] = IF x = a THEN n ELSE IF x \in M THEN T.prd[x]
                        ELSE IF x = p /\ T.suc[p] = a THEN z
                        ELSE IF x = n /\ T.prd[n] # z THEN a ELSE T.suc[x]
          /\ U.prd[x] = IF x = z THEN p ELSE IF x \in M THEN T.suc[x]
                        ELSE IF x = n /\ T.prd[n] = z THEN a
                        ELSE IF x = p /\ T.suc[p] # a THEN z ELSE T.prd[x]
  <2> TAKE x \in X
  <2>1. /\ R2.suc[x] = IF x = a THEN n ELSE IF x \in M THEN T.prd[x] ELSE T.suc[x]
        /\ R2.prd[x] = IF x \in M THEN T.suc[x] ELSE T.prd[x]
    BY <1>1, <1>5, <1>6, <1>17 DEF LinksSwapped
  <2>2. /\ A2.suc[x] = IF x = n /\ T.prd[n] # z THEN a ELSE R2.suc[x]
        /\ A2.prd[x] = IF x = z THEN p ELSE IF x = n /\ T.prd[n] = z THEN a ELSE R2.prd[x]
    BY <1>1, <1>7, <1>8, <1>17, <1>18
  <2>3. /\ U.suc[x] = IF x = p /\ T.suc[p] = a THEN z ELSE A2.suc[x]
        /\ U.prd[x] = IF x = p /\ T.suc[p] # a THEN z ELSE A2.prd[x]
    BY <1>9, <1>15, <1>17, <1>18
  <2> QED
    BY <1>3, <2>1, <2>2, <2>3
<1>20. \A x \in X : U.rank[x] = IF x \in M THEN T.rank[a] + T.rank[z] - T.rank[x] ELSE T.rank[x]
  <2> TAKE x \in X
  <2>1. U.rank[x] = IF x \in M THEN T.rank[z] + 1 - num[x] ELSE T.rank[x]
    BY <1>5, <1>10, <1>15
  <2>2. CASE x \in M
    BY <1>1, <1>4, <1>17, <2>1, <2>2
  <2>3. CASE x \notin M
    BY <2>1, <2>3
  <2> QED
    BY <2>2, <2>3
<1>21. \A Q \in O : /\ U.first[Q] = IF Q = P /\ T.first[P] = a THEN z ELSE T.first[Q]
                    /\ U.last[Q] = IF Q = P /\ T.last[P] = z THEN a ELSE T.last[Q]
                    /\ U.size[Q] = T.size[Q]
  BY <1>10, <1>11, <1>13, <1>15, <1>17
<1>22. FlippedInside(T, U, I, O, p, a, n, z)
  BY <1>15, <1>19, <1>20, <1>21 DEF FlippedInside, M
<1>23. ItemsElseKept(T, U, X, I)
  BY <1>3, <1>19, <1>20 DEF ItemsElseKept
<1>24. U.rev = [x \in W |-> IF x \in M THEN ~T.rev[x] ELSE T.rev[x]]
  BY <1>5, <1>10, <1>15 DEF LinksSwapped
<1>25. U.type = T.type
  BY <1>10, <1>15
<1> QED
  BY <1>15, <1>16, <1>22, <1>23, <1>24, <1>25 DEF M

-----------------------------------------------------------------------------
(* FlipSegments. *)

\* The ring of the owners O in T.
OwnerRing(T, O, b) == Linked(O, T.suc, T.prd) /\ RingRanked(T.rank, O, T.suc, b)

\* A loop over the ring from S to E.
LEMMA RingWalk ==
    ASSUME N \in Nat, NEW X, NEW W, NEW T, Shape(T, X, W), NEW O \in SUBSET X,
           IsFiniteSet(O), Cardinality(O) <= N, NEW b \in Int, OwnerRing(T, O, b), NEW S \in O, NEW E \in O
    PROVE  Meets(T, S, E, RunFrom(T.rank, O, S, E), [P \in O |-> PlaceFrom(T.rank, Cardinality(O), S, P)])
<1> DEFINE K == Cardinality(O)
           D == RunFrom(T.rank, O, S, E)
           place == [P \in O |-> PlaceFrom(T.rank, K, S, P)]
           w == Path(T.suc, S, E)
<1>1. K \in Nat /\ RingRanked(T.rank, O, T.suc, b) /\ \A P \in O : T.suc[P] \in O
  BY FS_CardinalityType DEF OwnerRing, Linked
<1>2. place[E] \in 1..K /\ Numbered(T.suc, D, place[E], place, S, E)
  BY <1>1, RingNumbered
<1>3. S \in D /\ E \in D /\ D \subseteq O /\ \A P \in D : place[P] \in Int
  <2>1. D \subseteq O
    BY DEF RunFrom
  <2>2. \A P \in O : place[P] = PlaceFrom(T.rank, K, S, P)
    OBVIOUS
  <2>3. \A P \in O : T.rank[P] \in Int
    BY DEF Shape
  <2>4. \A P \in O : PlaceFrom(T.rank, K, S, P) \in Int
    BY <1>1, <2>3 DEF PlaceFrom
  <2>5. E \in D
    BY <2>4 DEF RunFrom
  <2>6. PlaceFrom(T.rank, K, S, S) = 1
    BY <1>1, RingPlaces
  <2>7. S \in D
    BY <1>2, <2>2, <2>4, <2>6 DEF RunFrom
  <2> QED
    BY <2>1, <2>2, <2>4, <2>5, <2>7
<1> HIDE DEF place, D, K
<1>4. place[E] \in 1..N
  BY <1>1, <1>2 DEF K
<1>5. Visits(w, D, place[E], place, E)
  BY <1>2, <1>3, <1>4, WalkByNumber
<1> QED
  BY <1>3, <1>5 DEF Meets, Visits, D, place, K

\* What FlipSegments does, with the run D of segments from S to E.
SegmentsFlipped(T, U, X, W, I, O, t1, t2, t3, t4, S, E, D) ==
    /\ Shape(U, X, W) /\ U.type = T.type /\ U.parent = T.parent
    /\ U.rev = [x \in W |-> IF x \in D THEN ~T.rev[x] ELSE T.rev[x]]
    /\ Relinked(T, U, I, O, t1, t2, t3, t4)
    /\ OwnersFlipped(O, T.suc, T.prd, U.suc, U.prd, D, S, E)
    /\ \A P \in O : U.rank[P] = IF P \in D THEN T.rank[E] + 1 - PlaceFrom(T.rank, Cardinality(O), S, P)
                                ELSE T.rank[P]
    /\ \A x \in X \ (I \cup O) : U.suc[x] = T.suc[x] /\ U.prd[x] = T.prd[x] /\ U.rank[x] = T.rank[x]

\* The segments from that of t3 to that of t1 are turned around as wholes.
LEMMA FlipSegmentsIs ==
    ASSUME N \in Nat, NEW X, NEW W, NEW T, Shape(T, X, W), NEW I \in SUBSET X, NEW O \in SUBSET X, O \subseteq W,
           I \cap O = {}, IsFiniteSet(O), Cardinality(O) <= N, NEW b \in Int, OwnerRing(T, O, b),
           NEW t1 \in I, NEW t2 \in I, NEW t3 \in I, NEW t4 \in I,
           t1 # t2, t1 # t3, t1 # t4, t2 # t3, t2 # t4, t3 # t4,
           NEW S \in O, S = T.parent[t3], NEW E \in O, E = T.parent[t1],
           T.parent[t2] = T.suc[E], T.parent[t4] = T.prd[S],
           NEW D, D = RunFrom(T.rank, O, S, E), OwnersArc(O, T.suc, T.prd, D, S, E)
    PROVE  SegmentsFlipped(T, FlipSegments(T, <<t1, t2, t3, t4>>), X, W, I, O, t1, t2, t3, t4, S, E, D)
<1> DEFINE num == [P \in O |-> PlaceFrom(T.rank, Cardinality(O), S, P)]
           r == <<t1, t2, t3, t4>>
           P2 == T.suc[E]
           P4 == T.prd[S]
           A == TurnAround(T, S, E)
           L1 == [A EXCEPT !.suc[S] = P2]
           L2 == [L1 EXCEPT !.prd[P2] = S]
           L3 == [L2 EXCEPT !.suc[P4] = E]
           L == [L3 EXCEPT !.prd[E] = P4]
           U == Relink(L, r)
<1>1. S \in X /\ E \in X /\ Meets(T, S, E, D, num)
  BY RingWalk
<1>2. \A P \in O : num[P] = PlaceFrom(T.rank, Cardinality(O), S, P)
  OBVIOUS
<1>3. D \subseteq O /\ S \in D /\ E \in D /\ S # E /\ P2 \notin D /\ P4 \notin D /\ P2 # P4 /\ P2 \in O /\ P4 \in O
  BY DEF OwnersArc, OwnerRing, Linked
<1> HIDE DEF num
<1>4. /\ Shape(A, X, W) /\ LinksSwapped(T, A, X, W, D)
      /\ A.rank = [x \in X |-> IF x \in D THEN T.rank[E] + 1 - num[x] ELSE T.rank[x]]
      /\ A.type = T.type /\ A.parent = T.parent
      /\ A.first = T.first /\ A.last = T.last /\ A.size = T.size
  BY <1>1, TurnAroundIs
<1> HIDE DEF A
<1>5. /\ Shape(L, X, W) /\ SameButLinks(A, L)
      /\ L.suc = [A.suc EXCEPT ![S] = P2, ![P4] = E] /\ L.prd = [A.prd EXCEPT ![P2] = S, ![E] = P4]
  <2> HIDE DEF P2, P4, L1, L2, L3, L
  <2>0. P2 \in X /\ P4 \in X
    BY <1>3
  <2>1. Shape(L1, X, W) /\ SameButLinks(A, L1) /\ L1.suc = [A.suc EXCEPT ![S] = P2] /\ L1.prd = A.prd
    BY <1>1, <1>4, <2>0 DEF Shape, SameButLinks, L1
  <2>2. Shape(L2, X, W) /\ SameButLinks(L1, L2) /\ L2.suc = L1.suc /\ L2.prd = [L1.prd EXCEPT ![P2] = S]
    BY <1>1, <2>0, <2>1 DEF Shape, SameButLinks, L2
  <2>3. Shape(L3, X, W) /\ SameButLinks(L2, L3) /\ L3.suc = [L2.suc EXCEPT ![P4] = E] /\ L3.prd = L2.prd
    BY <1>1, <2>0, <2>2 DEF Shape, SameButLinks, L3
  <2>4. Shape(L, X, W) /\ SameButLinks(L3, L) /\ L.suc = L3.suc /\ L.prd = [L3.prd EXCEPT ![E] = P4]
    BY <1>1, <2>0, <2>3 DEF Shape, SameButLinks, L
  <2> QED
    BY <2>1, <2>2, <2>3, <2>4 DEF SameButLinks
<1>6. U = FlipSegments(T, r)
  <2>1. /\ Parents(T, r)[1] = E /\ Parents(T, r)[2] = P2
        /\ Parents(T, r)[3] = S /\ Parents(T, r)[4] = P4
    BY DEF Parents
  <2> QED
    BY <2>1 DEF FlipSegments, A
<1> HIDE DEF L
<1>7. /\ Shape(U, X, W) /\ SameButLinks(L, U) /\ Relinked(L, U, I, O, t1, t2, t3, t4)
      /\ \A x \in X \ {t1, t2, t3, t4} : U.suc[x] = L.suc[x] /\ U.prd[x] = L.prd[x]
  <2>1. Shape(L, X, W) /\ t1 \in X /\ t2 \in X /\ t3 \in X /\ t4 \in X
    BY <1>5
  <2> QED
    BY <2>1, RelinkIs
<1> HIDE DEF U, r
<1>8. A.suc \in [X -> X] /\ A.prd \in [X -> X]
  BY <1>4 DEF Shape
<1>9. \A x \in X : /\ L.suc[x] = IF x = S THEN P2 ELSE IF x = P4 THEN E ELSE IF x \in D THEN T.prd[x] ELSE T.suc[x]
                   /\ L.prd[x] = IF x = P2 THEN S ELSE IF x = E THEN P4 ELSE IF x \in D THEN T.suc[x] ELSE T.prd[x]
  <2> TAKE x \in X
  <2>1. /\ A.suc[x] = IF x \in D THEN T.prd[x] ELSE T.suc[x]
        /\ A.prd[x] = IF x \in D THEN T.suc[x] ELSE T.prd[x]
    BY <1>4 DEF LinksSwapped
  <2> QED
    BY <1>3, <1>5, <1>8, <2>1
<1>10. \A x \in X : L.rank[x] = IF x \in D THEN T.rank[E] + 1 - num[x] ELSE T.rank[x]
  BY <1>4, <1>5 DEF SameButLinks
<1>11. \A x \in I : /\ L.suc[x] = T.suc[x] /\ L.prd[x] = T.prd[x]
                    /\ L.rank[x] = T.rank[x] /\ L.parent[x] = T.parent[x]
  <2> TAKE x \in I
  <2>1. x \in X /\ x \notin D /\ x # S /\ x # E /\ x # P2 /\ x # P4
    BY <1>3
  <2>2. L.suc[x] = T.suc[x] /\ L.prd[x] = T.prd[x]
    BY <1>9, <2>1
  <2>3. L.rank[x] = T.rank[x]
    BY <1>10, <2>1
  <2>4. L.parent[x] = T.parent[x]
    BY <1>4, <1>5 DEF SameButLinks
  <2> QED
    BY <2>2, <2>3, <2>4
<1>12. Relinked(T, U, I, O, t1, t2, t3, t4)
  <2>1. L.first = T.first /\ L.last = T.last /\ L.size = T.size
    BY <1>4, <1>5 DEF SameButLinks
  <2>2. \A x \in I :
           /\ U.suc[x] = IF x = t3 /\ L.suc[t3] = t4 THEN t2
                         ELSE IF x = t2 /\ L.suc[t2] = t1 THEN t3
                         ELSE IF x = t1 /\ L.prd[t1] # t2 THEN t4
                         ELSE IF x = t4 /\ L.prd[t4] # t3 THEN t1 ELSE L.suc[x]
           /\ U.prd[x] = IF x = t3 /\ L.suc[t3] # t4 THEN t2
                         ELSE IF x = t2 /\ L.suc[t2] # t1 THEN t3
                         ELSE IF x = t1 /\ L.prd[t1] = t2 THEN t4
                         ELSE IF x = t4 /\ L.prd[t4] = t3 THEN t1 ELSE L.prd[x]
           /\ U.rank[x] = L.rank[x] /\ U.parent[x] = L.parent[x]
    BY <1>7 DEF Relinked
  <2>3. \A Q \in O : U.first[Q] = L.first[Q] /\ U.last[Q] = L.last[Q] /\ U.size[Q] = L.size[Q]
    BY <1>7 DEF Relinked
  <2>4. L.suc[t3] = T.suc[t3] /\ L.suc[t2] = T.suc[t2] /\ L.prd[t1] = T.prd[t1] /\ L.prd[t4] = T.prd[t4]
    BY <1>11
  <2> QED
    BY <1>11, <2>1, <2>2, <2>3, <2>4 DEF Relinked
<1>13. \A x \in X \ I : U.suc[x] = L.suc[x] /\ U.prd[x] = L.prd[x] /\ U.rank[x] = L.rank[x]
  BY <1>7 DEF SameButLinks
<1>14. OwnersFlipped(O, T.suc, T.prd, U.suc, U.prd, D, S, E)
  BY <1>9, <1>13 DEF OwnersFlipped
<1>15. \A P \in O : U.rank[P] = IF P \in D THEN T.rank[E] + 1 - PlaceFrom(T.rank, Cardinality(O), S, P)
                                ELSE T.rank[P]
  BY <1>2, <1>10, <1>13
<1>16. \A x \in X \ (I \cup O) : U.suc[x] = T.suc[x] /\ U.prd[x] = T.prd[x] /\ U.rank[x] = T.rank[x]
  BY <1>3, <1>9, <1>10, <1>13
<1>17. U.type = T.type /\ U.parent = T.parent /\ U.rev = [x \in W |-> IF x \in D THEN ~T.rev[x] ELSE T.rev[x]]
  BY <1>4, <1>5, <1>7 DEF SameButLinks, LinksSwapped
<1> QED
  BY <1>6, <1>7, <1>12, <1>14, <1>15, <1>16, <1>17 DEF r, SegmentsFlipped

-----------------------------------------------------------------------------
(* GiveAway. *)

\* Its updates, with what they depend on as parameters.
GiveRaw(S, P, Q, turnQ, run, base, sign, end, near, stop, rest, count) ==
    [S EXCEPT !.rev[Q] = IF turnQ THEN ~@ ELSE @,
              !.rank = [x \in DOMAIN @ |-> IF x \in ToSet(run) THEN base + sign * IndexIn(run, x) ELSE @[x]],
              !.parent = [x \in DOMAIN @ |-> IF x \in ToSet(run) THEN Q ELSE @[x]],
              ![end][Q] = stop,
              ![near][P] = rest,
              !.size[P] = @ - count,
              !.size[Q] = @ + count]

\* GiveAway is these updates, after the links are exchanged.
LEMMA GiveAwayRaw ==
    ASSUME NEW T, NEW P, NEW stop, NEW rest, NEW count, NEW left
    PROVE  LET near  == IF left THEN "first" ELSE "last"
               far   == IF left THEN "last" ELSE "first"
               ahead == IF left THEN "suc" ELSE "prd"
               Q     == Neighbour(T, P, left)
               run   == Path(T[ahead], T[near][P], stop)
               t     == T[Opposite(ahead)][T[near][P]]
               aligned == t = T[far][Q]
               turnQ == aligned /\ t = T[near][Q] /\ T[ahead][t] # T[near][P]
               turned == IF turnQ THEN {t} ELSE IF aligned THEN {} ELSE ToSet(run)
           IN  GiveAway(T, P, left, stop, rest, count) =
               GiveRaw(Swapped(T, turned), P, Q, turnQ, run, T.rank[t], RankStep(aligned, left),
                       IF aligned THEN far ELSE near, near, stop, rest, count)
BY DEF GiveAway, GiveRaw

\* The fields after it.
RawFields(S, U, X, W, P, Q, turnQ, run, base, sign, end, near, stop, rest, count) ==
    /\ U.type = S.type /\ U.suc = S.suc /\ U.prd = S.prd
    /\ U.rev = [x \in W |-> IF x = Q /\ turnQ THEN ~S.rev[x] ELSE S.rev[x]]
    /\ U.rank = [x \in X |-> IF x \in ToSet(run) THEN base + sign * IndexIn(run, x) ELSE S.rank[x]]
    /\ U.parent = [x \in X |-> IF x \in ToSet(run) THEN Q ELSE S.parent[x]]
    /\ U.first = [x \in W |-> IF near = "first" /\ x = P THEN rest
                              ELSE IF end = "first" /\ x = Q THEN stop ELSE S.first[x]]
    /\ U.last = [x \in W |-> IF near = "last" /\ x = P THEN rest
                             ELSE IF end = "last" /\ x = Q THEN stop ELSE S.last[x]]
    /\ U.size = [x \in W |-> IF x = P THEN S.size[x] - count
                             ELSE IF x = Q THEN S.size[x] + count ELSE S.size[x]]

\* The items of a run have their places in it.
IndexedRun(run) == \A x \in ToSet(run) : IndexIn(run, x) \in Int

\* The ends of segments may be written in either order.
LEMMA FieldsCommute ==
    ASSUME NEW R, NEW a, NEW b
    PROVE  [[R EXCEPT !.first = a] EXCEPT !.last = b] = [[R EXCEPT !.last = b] EXCEPT !.first = a]
<1> DEFINE c == [R EXCEPT !.first = a]  d == [R EXCEPT !.last = b]
           e == [c EXCEPT !.last = b]  f == [d EXCEPT !.first = a]
<1>1. /\ DOMAIN c = DOMAIN R /\ DOMAIN d = DOMAIN R
      /\ c = [i \in DOMAIN R |-> IF i = "first" THEN a ELSE R[i]]
      /\ d = [i \in DOMAIN R |-> IF i = "last" THEN b ELSE R[i]]
  OBVIOUS
<1> HIDE DEF c, d
<1>2. /\ e = [i \in DOMAIN R |-> IF i = "last" THEN b ELSE c[i]]
      /\ f = [i \in DOMAIN R |-> IF i = "first" THEN a ELSE d[i]]
  BY <1>1
<1>3. \A i \in DOMAIN R : (IF i = "last" THEN b ELSE c[i]) = IF i = "first" THEN a ELSE d[i]
  BY <1>1
<1> HIDE DEF e, f
<1>4. e = f
  BY <1>2, <1>3, Zenon
<1> QED
  BY <1>4 DEF c, d, e, f

\* The fields after the updates.
LEMMA GiveRawIs ==
    ASSUME NEW X, NEW W, NEW S, Shape(S, X, W), NEW P \in W, NEW Q \in W, Q # P, Q \in X, NEW turnQ \in BOOLEAN,
           NEW run, NEW base \in Int, NEW sign \in Int, NEW stop \in X, NEW rest \in X, NEW count \in Int,
           IndexedRun(run), NEW end \in {"first", "last"}, NEW near \in {"first", "last"}
    PROVE  LET U == GiveRaw(S, P, Q, turnQ, run, base, sign, end, near, stop, rest, count)
           IN  Shape(U, X, W) /\ RawFields(S, U, X, W, P, Q, turnQ, run, base, sign, end, near, stop, rest, count)
<1> DEFINE U == GiveRaw(S, P, Q, turnQ, run, base, sign, end, near, stop, rest, count)
           re == [x \in W |-> IF x = Q /\ turnQ THEN ~S.rev[x] ELSE S.rev[x]]
           ra == [x \in X |-> IF x \in ToSet(run) THEN base + sign * IndexIn(run, x) ELSE S.rank[x]]
           pa == [x \in X |-> IF x \in ToSet(run) THEN Q ELSE S.parent[x]]
           fi == [x \in W |-> IF near = "first" /\ x = P THEN rest
                              ELSE IF end = "first" /\ x = Q THEN stop ELSE S.first[x]]
           la == [x \in W |-> IF near = "last" /\ x = P THEN rest
                              ELSE IF end = "last" /\ x = Q THEN stop ELSE S.last[x]]
           si == [x \in W |-> IF x = P THEN S.size[x] - count
                              ELSE IF x = Q THEN S.size[x] + count ELSE S.size[x]]
           reE == [S.rev EXCEPT ![Q] = IF turnQ THEN ~@ ELSE @]
           siE == [S.size EXCEPT ![P] = @ - count, ![Q] = @ + count]
<1>1. /\ DOMAIN S.rank = X /\ DOMAIN S.parent = X /\ S.rev \in [W -> BOOLEAN] /\ S.size \in [W -> Int]
      /\ S.rank \in [X -> Int] /\ S.parent \in [X -> X \cup {Null}] /\ S.first \in [W -> X] /\ S.last \in [W -> X]
  BY DEF Shape
<1>2. reE = re
  <2>1. CASE turnQ
    BY <1>1, <2>1
  <2>2. CASE ~turnQ
    BY <1>1, <2>2
  <2> QED
    BY <2>1, <2>2
<1>3. siE = si
  BY <1>1
<1>4. U = [S EXCEPT !.rev = reE, !.rank = ra, !.parent = pa, !.last = la, !.first = fi, !.size = siE]
  <2>1. CASE end = "first" /\ near = "first"
    <3>1. la = S.last /\ fi = [S.first EXCEPT ![Q] = stop, ![P] = rest]
      BY <1>1, <2>1
    <3>2. U = GiveRaw(S, P, Q, turnQ, run, base, sign, "first", "first", stop, rest, count)
      BY <2>1
    <3> HIDE DEF U, la, fi
    <3> QED
      BY <1>1, <3>1, <3>2 DEF GiveRaw
  <2>2. CASE end = "first" /\ near = "last"
    <3>1. la = [S.last EXCEPT ![P] = rest] /\ fi = [S.first EXCEPT ![Q] = stop]
      BY <1>1, <2>2
    <3>2. U = GiveRaw(S, P, Q, turnQ, run, base, sign, "first", "last", stop, rest, count)
      BY <2>2
    <3> HIDE DEF U, la, fi
    <3>3. U = [S EXCEPT !.rev = reE, !.rank = ra, !.parent = pa, !.first = fi, !.last = la, !.size = siE]
      BY <1>1, <3>1, <3>2 DEF GiveRaw
    <3> DEFINE R == [S EXCEPT !.rev = reE, !.rank = ra, !.parent = pa]
    <3>4. U = [[[R EXCEPT !.first = fi] EXCEPT !.last = la] EXCEPT !.size = siE]
      BY <3>3, Zenon
    <3> HIDE DEF R
    <3>5. U = [[[R EXCEPT !.last = la] EXCEPT !.first = fi] EXCEPT !.size = siE]
      BY <3>4, FieldsCommute
    <3> QED
      BY <3>5, Zenon DEF R
  <2>3. CASE end = "last" /\ near = "first"
    <3>1. la = [S.last EXCEPT ![Q] = stop] /\ fi = [S.first EXCEPT ![P] = rest]
      BY <1>1, <2>3
    <3>2. U = GiveRaw(S, P, Q, turnQ, run, base, sign, "last", "first", stop, rest, count)
      BY <2>3
    <3> HIDE DEF U, la, fi
    <3> QED
      BY <1>1, <3>1, <3>2 DEF GiveRaw
  <2>4. CASE end = "last" /\ near = "last"
    <3>1. la = [S.last EXCEPT ![Q] = stop, ![P] = rest] /\ fi = S.first
      BY <1>1, <2>4
    <3>2. U = GiveRaw(S, P, Q, turnQ, run, base, sign, "last", "last", stop, rest, count)
      BY <2>4
    <3> HIDE DEF U, la, fi
    <3> QED
      BY <1>1, <3>1, <3>2 DEF GiveRaw
  <2> QED
    BY <2>1, <2>2, <2>3, <2>4
<1>5. re \in [W -> BOOLEAN]
  BY <1>1
<1>6. ra \in [X -> Int]
  BY <1>1 DEF IndexedRun
<1>7. pa \in [X -> X \cup {Null}] /\ fi \in [W -> X] /\ la \in [W -> X] /\ si \in [W -> Int]
  BY <1>1
<1> HIDE DEF U, re, ra, pa, fi, la, si, reE, siE
<1>8. U = [S EXCEPT !.rev = re, !.rank = ra, !.parent = pa, !.last = la, !.first = fi, !.size = si]
  BY <1>2, <1>3, <1>4
<1>9. /\ Shape(U, X, W) /\ U.type = S.type /\ U.suc = S.suc /\ U.prd = S.prd
      /\ U.rev = re /\ U.rank = ra /\ U.parent = pa /\ U.first = fi /\ U.last = la /\ U.size = si
  BY <1>5, <1>6, <1>7, <1>8 DEF Shape
<1> QED
  BY <1>9 DEF U, re, ra, pa, fi, la, si, RawFields

\* The left part of P, up to `stop', joins the stretch next to it.
GiftLeft(T, U, X, W, I, O, P, Q, stop) ==
    /\ Shape(U, X, W) /\ U.type = T.type /\ GivesLeft(T, U, I, O, P, Q, stop)
    /\ U.rev = [x \in W |-> IF x = Q /\ TurnsLeft(T, P, Q) THEN ~T.rev[x]
                            ELSE IF x \in SwappedLeft(T, P, Q, LeftPart(T, I, P, stop)) THEN ~T.rev[x] ELSE T.rev[x]]
    /\ ItemsElseKept(T, U, X, I) /\ \A x \in X \ I : U.parent[x] = T.parent[x]

\* GiveAway on the left of P gives the left part away, and nothing else changes.
LEMMA GiveLeftIs ==
    ASSUME N \in Nat, NEW X, NEW W, NEW T, Shape(T, X, W), NEW I \in SUBSET X, NEW O \in SUBSET X, O \subseteq W,
           I \cap O = {}, IsFiniteSet(I), Cardinality(I) <= N, Stretches(T, I, O),
           NEW P \in O, NEW Q \in O, Q # P, Q = Neighbour(T, P, TRUE),
           T.prd[T.first[P]] \in I,
           NEW stop \in I, T.parent[stop] = P, stop # T.last[P],
           NEW rest, rest = T.suc[stop], NEW count, count = T.rank[stop] - T.rank[T.first[P]] + 1
    PROVE  GiftLeft(T, GiveAway(T, P, TRUE, stop, rest, count), X, W, I, O, P, Q, stop)
<1> DEFINE M == LeftPart(T, I, P, stop)
           t == T.prd[T.first[P]]
           aligned == AlignedLeft(T, P, Q)
           turnQ == TurnsLeft(T, P, Q)
           turned == SwappedLeft(T, P, Q, M)
           run == Path(T.suc, T.first[P], stop)
           S == Swapped(T, turned)
           end == IF aligned THEN "last" ELSE "first"
           sign == RankStep(aligned, TRUE)
           U == GiveAway(T, P, TRUE, stop, rest, count)
<1>1. /\ P \in W /\ Q \in W /\ Q \in X /\ P \in X /\ stop \in X /\ t \in X
      /\ T.first[P] \in I /\ T.parent[T.first[P]] = P /\ T.rank[T.first[P]] \in Int /\ T.rank[T.last[P]] \in Int
      /\ T.rank[stop] \in Int /\ T.rank[T.first[P]] <= T.rank[stop] /\ T.rank[stop] <= T.rank[T.last[P]]
  BY DEF Stretches, EndsHeld, Typed, RankedFromFirst
<1>2. rest \in X /\ count \in Int /\ M \subseteq I /\ T.rank[t] \in Int
  BY <1>1 DEF Shape, LeftPart
<1>3. Inner(T, I, T.first[P], stop) = M
  BY <1>1 DEF Inner, LeftPart, Stretches, RankedFromFirst
<1>4. ToSet(run) = M /\ \A x \in M : IndexIn(run, x) = T.rank[x] - T.rank[T.first[P]] + 1
  <2>1. T.parent[T.first[P]] = T.parent[stop]
    BY <1>1
  <2>2. /\ ToSet(run) = Inner(T, I, T.first[P], stop)
        /\ \A x \in Inner(T, I, T.first[P], stop) : IndexIn(run, x) = T.rank[x] - T.rank[T.first[P]] + 1
    <3> HIDE DEF M, aligned, turnQ, turned, t, S, U, end, sign
    <3> QED
      BY <1>1, <2>1, StretchWalk
  <2> QED
    BY <1>3, <2>2
<1>5. IndexedRun(run)
  BY <1>1, <1>2, <1>4 DEF Shape, IndexedRun
<1>6. turned \subseteq I
  <2>1. T.first[Q] \in I /\ T.last[Q] \in I
    BY DEF Stretches, EndsHeld
  <2> QED
    BY <1>2, <2>1 DEF SwappedLeft
<1>7. /\ Shape(S, X, W) /\ LinksSwapped(T, S, X, W, turned)
      /\ S.type = T.type /\ S.rank = T.rank /\ S.parent = T.parent
      /\ S.first = T.first /\ S.last = T.last /\ S.size = T.size
  <2> HIDE DEF turned
  <2> QED
    BY SwappedIs
<1>8. aligned \in BOOLEAN /\ turnQ \in BOOLEAN /\ end \in {"first", "last"}
      /\ sign = IF aligned THEN 1 ELSE -1
  BY DEF AlignedLeft, TurnsLeft, RankStep
<1>9. U = GiveRaw(S, P, Q, turnQ, run, T.rank[t], sign, end, "first", stop, rest, count)
  <2> DEFINE al == t = T.last[Q]
             tu == al /\ t = T.first[Q] /\ T.suc[t] # T.first[P]
             td == IF tu THEN {t} ELSE IF al THEN {} ELSE ToSet(run)
  <2>1. U = GiveRaw(Swapped(T, td), P, Q, tu, run, T.rank[t], RankStep(al, TRUE),
                    IF al THEN "last" ELSE "first", "first", stop, rest, count)
    BY GiveAwayRaw DEF Opposite
  <2>2. al = aligned
    BY DEF AlignedLeft
  <2>3. tu = turnQ
    BY DEF TurnsLeft
  <2>4. td = turned
    <3>1. turnQ => t = T.last[Q]
      BY DEF TurnsLeft
    <3> QED
      BY <1>4, <2>2, <2>3, <3>1 DEF SwappedLeft
  <2> HIDE DEF al, tu, td, turned, aligned, turnQ, run, M, t, U
  <2> QED
    BY <2>1, <2>2, <2>3, <2>4
<1> HIDE DEF M, aligned, turnQ, turned, S, U, end, sign, run
<1>10. sign \in Int
  BY <1>8
<1>11. Shape(U, X, W) /\ RawFields(S, U, X, W, P, Q, turnQ, run, T.rank[t], sign, end, "first", stop, rest, count)
  <2> DEFINE base == T.rank[t]
             V == GiveRaw(S, P, Q, turnQ, run, base, sign, end, "first", stop, rest, count)
  <2>1. base \in Int /\ "first" \in {"first", "last"}
    BY <1>2
  <2>2. Shape(S, X, W)
    BY <1>7
  <2> HIDE DEF base
  <2>3. Shape(V, X, W) /\ RawFields(S, V, X, W, P, Q, turnQ, run, base, sign, end, "first", stop, rest, count)
    <3>1. /\ Shape(S, X, W) /\ P \in W /\ Q \in W /\ Q # P /\ Q \in X /\ turnQ \in BOOLEAN
          /\ base \in Int /\ sign \in Int /\ stop \in X /\ rest \in X /\ count \in Int
          /\ IndexedRun(run) /\ end \in {"first", "last"} /\ "first" \in {"first", "last"}
      BY <1>1, <1>2, <1>5, <1>8, <1>10, <2>1, <2>2
    <3> QED
      BY ONLY <3>1, GiveRawIs
  <2>4. U = V
    BY <1>9 DEF base
  <2> HIDE DEF V
  <2> QED
    BY <2>3, <2>4 DEF base
<1>12. \A x \in X :
          /\ U.suc[x] = IF x \in turned THEN T.prd[x] ELSE T.suc[x]
          /\ U.prd[x] = IF x \in turned THEN T.suc[x] ELSE T.prd[x]
          /\ U.rank[x] = IF x \in M THEN T.rank[t] + sign * IndexIn(run, x) ELSE T.rank[x]
          /\ U.parent[x] = IF x \in M THEN Q ELSE T.parent[x]
  <2> TAKE x \in X
  <2>1. U.suc = S.suc /\ U.prd = S.prd
    BY <1>11 DEF RawFields
  <2>2. U.rank[x] = IF x \in M THEN T.rank[t] + sign * IndexIn(run, x) ELSE T.rank[x]
    BY <1>4, <1>7, <1>11 DEF RawFields
  <2>3. U.parent[x] = IF x \in M THEN Q ELSE T.parent[x]
    BY <1>4, <1>7, <1>11 DEF RawFields
  <2> QED
    BY <1>7, <2>1, <2>2, <2>3 DEF LinksSwapped
<1>13. \A x \in I : U.rank[x] = IF x \in M
                               THEN IF aligned THEN T.rank[t] + (T.rank[x] - T.rank[T.first[P]] + 1)
                                    ELSE T.rank[t] - (T.rank[x] - T.rank[T.first[P]] + 1)
                                ELSE T.rank[x]
  <2> TAKE x \in I
  <2>1. x \in X /\ T.rank[x] \in Int
    BY DEF Shape
  <2>2. CASE x \notin M
    BY <1>12, <2>1, <2>2
  <2>3. CASE x \in M
    <3>1. IndexIn(run, x) = T.rank[x] - T.rank[T.first[P]] + 1
      BY <1>4, <2>3
    <3>2. IndexIn(run, x) \in Int
      BY <1>1, <2>1, <3>1
    <3>3. U.rank[x] = T.rank[t] + sign * IndexIn(run, x)
      BY <1>12, <2>1, <2>3
    <3>4. CASE aligned
      <4>1. U.rank[x] = T.rank[t] + IndexIn(run, x)
        BY <1>2, <1>8, <3>2, <3>3, <3>4
      <4> QED
        BY <2>3, <3>1, <3>4, <4>1
    <3>5. CASE ~aligned
      <4>1. U.rank[x] = T.rank[t] - IndexIn(run, x)
        BY <1>2, <1>8, <3>2, <3>3, <3>5
      <4> QED
        BY <2>3, <3>1, <3>5, <4>1
    <3> QED
      BY <3>4, <3>5
  <2> QED
    BY <2>2, <2>3
<1>14. \A R \in W :
          /\ U.first[R] = IF R = P THEN rest ELSE IF R = Q /\ ~aligned THEN stop ELSE T.first[R]
          /\ U.last[R] = IF R = Q /\ aligned THEN stop ELSE T.last[R]
          /\ U.size[R] = IF R = P THEN T.size[R] - count ELSE IF R = Q THEN T.size[R] + count ELSE T.size[R]
  <2> TAKE R \in W
  <2>1. S.first = T.first /\ S.last = T.last /\ S.size = T.size
    BY <1>7
  <2>2. /\ U.first[R] = IF R = P THEN rest ELSE IF end = "first" /\ R = Q THEN stop ELSE S.first[R]
        /\ U.last[R] = IF end = "last" /\ R = Q THEN stop ELSE S.last[R]
    BY <1>11 DEF RawFields
  <2>3. U.size[R] = IF R = P THEN S.size[R] - count ELSE IF R = Q THEN S.size[R] + count ELSE S.size[R]
    BY <1>11 DEF RawFields
  <2>4. end = IF aligned THEN "last" ELSE "first"
    BY DEF end
  <2> QED
    BY <2>1, <2>2, <2>3, <2>4
<1>15. GivesLeft(T, U, I, O, P, Q, stop)
  <2> SUFFICES LeftGiven(T, U, I, O, P, Q, M, stop, aligned, turned)
    BY DEF GivesLeft, M, turned, aligned
  <2> QED
    BY <1>12, <1>13, <1>14 DEF LeftGiven
<1>16. U.rev = [x \in W |-> IF x = Q /\ turnQ THEN ~T.rev[x] ELSE IF x \in turned THEN ~T.rev[x] ELSE T.rev[x]]
  <2>1. Q \notin turned
    BY <1>6
  <2>2. U.rev = [x \in W |-> IF x = Q /\ turnQ THEN ~S.rev[x] ELSE S.rev[x]]
    BY <1>11 DEF RawFields
  <2>3. S.rev = [x \in W |-> IF x \in turned THEN ~T.rev[x] ELSE T.rev[x]]
    BY <1>7 DEF LinksSwapped
  <2>4. S.rev[Q] = T.rev[Q]
    BY <1>1, <2>1, <2>3
  <2>5. \A x \in W : (IF x = Q /\ turnQ THEN ~S.rev[x] ELSE S.rev[x])
                     = (IF x = Q /\ turnQ THEN ~T.rev[x] ELSE IF x \in turned THEN ~T.rev[x] ELSE T.rev[x])
    BY <2>3, <2>4, Zenon
  <2> QED
    BY <2>2, <2>5, Zenon
<1>17. ItemsElseKept(T, U, X, I) /\ \A x \in X \ I : U.parent[x] = T.parent[x]
  BY <1>2, <1>6, <1>12 DEF ItemsElseKept
<1>18. U.type = T.type
  BY <1>7, <1>11 DEF RawFields
<1>19. U.rev = [x \in W |-> IF x = Q /\ TurnsLeft(T, P, Q) THEN ~T.rev[x]
                            ELSE IF x \in SwappedLeft(T, P, Q, LeftPart(T, I, P, stop)) THEN ~T.rev[x] ELSE T.rev[x]]
  BY <1>16, Zenon DEF turnQ, turned, M
<1> QED
  BY <1>11, <1>15, <1>17, <1>18, <1>19, Zenon DEF U, GiftLeft

\* The right part of P, from `stop' on, joins the stretch next to it.
GiftRight(T, U, X, W, I, O, P, Q, stop) ==
    /\ Shape(U, X, W) /\ U.type = T.type /\ GivesRight(T, U, I, O, P, Q, stop)
    /\ U.rev = [x \in W |-> IF x = Q /\ TurnsRight(T, P, Q) THEN ~T.rev[x]
                            ELSE IF x \in SwappedRight(T, P, Q, RightPart(T, I, P, stop)) THEN ~T.rev[x] ELSE T.rev[x]]
    /\ ItemsElseKept(T, U, X, I) /\ \A x \in X \ I : U.parent[x] = T.parent[x]

\* GiveAway on the right of P gives the right part away, and nothing else changes.
LEMMA GiveRightIs ==
    ASSUME N \in Nat, NEW X, NEW W, NEW T, Shape(T, X, W), NEW I \in SUBSET X, NEW O \in SUBSET X, O \subseteq W,
           I \cap O = {}, IsFiniteSet(I), Cardinality(I) <= N, Stretches(T, I, O),
           NEW P \in O, NEW Q \in O, Q # P, Q = Neighbour(T, P, FALSE),
           T.suc[T.last[P]] \in I,
           NEW stop \in I, T.parent[stop] = P, stop # T.first[P],
           NEW rest, rest = T.prd[stop], NEW count, count = T.rank[T.last[P]] - T.rank[stop] + 1
    PROVE  GiftRight(T, GiveAway(T, P, FALSE, stop, rest, count), X, W, I, O, P, Q, stop)
<1> DEFINE M == RightPart(T, I, P, stop)
           t == T.suc[T.last[P]]
           aligned == AlignedRight(T, P, Q)
           turnQ == TurnsRight(T, P, Q)
           turned == SwappedRight(T, P, Q, M)
           run == Path(T.prd, T.last[P], stop)
           S == Swapped(T, turned)
           end == IF aligned THEN "first" ELSE "last"
           sign == RankStep(aligned, FALSE)
           U == GiveAway(T, P, FALSE, stop, rest, count)
<1>1. /\ P \in W /\ Q \in W /\ Q \in X /\ P \in X /\ stop \in X /\ t \in X
      /\ T.last[P] \in I /\ T.parent[T.last[P]] = P /\ T.rank[T.first[P]] \in Int /\ T.rank[T.last[P]] \in Int
      /\ T.rank[stop] \in Int /\ T.rank[T.first[P]] <= T.rank[stop] /\ T.rank[stop] <= T.rank[T.last[P]]
  BY DEF Stretches, EndsHeld, Typed, RankedFromFirst
<1>2. rest \in X /\ count \in Int /\ M \subseteq I /\ T.rank[t] \in Int
  BY <1>1 DEF Shape, RightPart
<1>3. Inner(T, I, stop, T.last[P]) = M
  BY <1>1 DEF Inner, RightPart, Stretches, RankedFromFirst
<1>4. ToSet(run) = M /\ \A x \in M : IndexIn(run, x) = T.rank[T.last[P]] - T.rank[x] + 1
  <2>1. T.parent[T.last[P]] = T.parent[stop]
    BY <1>1
  <2>2. /\ ToSet(run) = Inner(T, I, stop, T.last[P])
        /\ \A x \in Inner(T, I, stop, T.last[P]) : IndexIn(run, x) = T.rank[T.last[P]] - T.rank[x] + 1
    <3> HIDE DEF M, aligned, turnQ, turned, t, S, U, end, sign
    <3> QED
      BY <1>1, <2>1, StretchWalk
  <2> QED
    BY <1>3, <2>2
<1>5. IndexedRun(run)
  BY <1>1, <1>2, <1>4 DEF Shape, IndexedRun
<1>6. turned \subseteq I
  <2>1. T.first[Q] \in I /\ T.last[Q] \in I
    BY DEF Stretches, EndsHeld
  <2> QED
    BY <1>2, <2>1 DEF SwappedRight
<1>7. /\ Shape(S, X, W) /\ LinksSwapped(T, S, X, W, turned)
      /\ S.type = T.type /\ S.rank = T.rank /\ S.parent = T.parent
      /\ S.first = T.first /\ S.last = T.last /\ S.size = T.size
  <2> HIDE DEF turned
  <2> QED
    BY SwappedIs
<1>8. aligned \in BOOLEAN /\ turnQ \in BOOLEAN /\ end \in {"first", "last"}
      /\ sign = IF aligned THEN -1 ELSE 1
  BY DEF AlignedRight, TurnsRight, RankStep
<1>9. U = GiveRaw(S, P, Q, turnQ, run, T.rank[t], sign, end, "last", stop, rest, count)
  <2> DEFINE al == t = T.first[Q]
             tu == al /\ t = T.last[Q] /\ T.prd[t] # T.last[P]
             td == IF tu THEN {t} ELSE IF al THEN {} ELSE ToSet(run)
  <2>1. U = GiveRaw(Swapped(T, td), P, Q, tu, run, T.rank[t], RankStep(al, FALSE),
                    IF al THEN "first" ELSE "last", "last", stop, rest, count)
    BY GiveAwayRaw DEF Opposite
  <2>2. al = aligned
    BY DEF AlignedRight
  <2>3. tu = turnQ
    BY DEF TurnsRight
  <2>4. td = turned
    <3>1. turnQ => t = T.first[Q]
      BY DEF TurnsRight
    <3> QED
      BY <1>4, <2>2, <2>3, <3>1 DEF SwappedRight
  <2> HIDE DEF al, tu, td, turned, aligned, turnQ, run, M, t, U
  <2> QED
    BY <2>1, <2>2, <2>3, <2>4
<1> HIDE DEF M, aligned, turnQ, turned, S, U, end, sign, run
<1>10. sign \in Int
  BY <1>8
<1>11. Shape(U, X, W) /\ RawFields(S, U, X, W, P, Q, turnQ, run, T.rank[t], sign, end, "last", stop, rest, count)
  <2> DEFINE base == T.rank[t]
             V == GiveRaw(S, P, Q, turnQ, run, base, sign, end, "last", stop, rest, count)
  <2>1. base \in Int /\ "last" \in {"first", "last"}
    BY <1>2
  <2>2. Shape(S, X, W)
    BY <1>7
  <2> HIDE DEF base
  <2>3. Shape(V, X, W) /\ RawFields(S, V, X, W, P, Q, turnQ, run, base, sign, end, "last", stop, rest, count)
    <3>1. /\ Shape(S, X, W) /\ P \in W /\ Q \in W /\ Q # P /\ Q \in X /\ turnQ \in BOOLEAN
          /\ base \in Int /\ sign \in Int /\ stop \in X /\ rest \in X /\ count \in Int
          /\ IndexedRun(run) /\ end \in {"first", "last"} /\ "last" \in {"first", "last"}
      BY <1>1, <1>2, <1>5, <1>8, <1>10, <2>1, <2>2
    <3> QED
      BY ONLY <3>1, GiveRawIs
  <2>4. U = V
    BY <1>9 DEF base
  <2> HIDE DEF V
  <2> QED
    BY <2>3, <2>4 DEF base
<1>12. \A x \in X :
          /\ U.suc[x] = IF x \in turned THEN T.prd[x] ELSE T.suc[x]
          /\ U.prd[x] = IF x \in turned THEN T.suc[x] ELSE T.prd[x]
          /\ U.rank[x] = IF x \in M THEN T.rank[t] + sign * IndexIn(run, x) ELSE T.rank[x]
          /\ U.parent[x] = IF x \in M THEN Q ELSE T.parent[x]
  <2> TAKE x \in X
  <2>1. U.suc = S.suc /\ U.prd = S.prd
    BY <1>11 DEF RawFields
  <2>2. U.rank[x] = IF x \in M THEN T.rank[t] + sign * IndexIn(run, x) ELSE T.rank[x]
    BY <1>4, <1>7, <1>11 DEF RawFields
  <2>3. U.parent[x] = IF x \in M THEN Q ELSE T.parent[x]
    BY <1>4, <1>7, <1>11 DEF RawFields
  <2> QED
    BY <1>7, <2>1, <2>2, <2>3 DEF LinksSwapped
<1>13. \A x \in I : U.rank[x] = IF x \in M
                               THEN IF aligned THEN T.rank[t] - (T.rank[T.last[P]] - T.rank[x] + 1)
                                    ELSE T.rank[t] + (T.rank[T.last[P]] - T.rank[x] + 1)
                                ELSE T.rank[x]
  <2> TAKE x \in I
  <2>1. x \in X /\ T.rank[x] \in Int
    BY DEF Shape
  <2>2. CASE x \notin M
    BY <1>12, <2>1, <2>2
  <2>3. CASE x \in M
    <3>1. IndexIn(run, x) = T.rank[T.last[P]] - T.rank[x] + 1
      BY <1>4, <2>3
    <3>2. IndexIn(run, x) \in Int
      BY <1>1, <2>1, <3>1
    <3>3. U.rank[x] = T.rank[t] + sign * IndexIn(run, x)
      BY <1>12, <2>1, <2>3
    <3>4. CASE aligned
      <4>1. U.rank[x] = T.rank[t] - IndexIn(run, x)
        BY <1>2, <1>8, <3>2, <3>3, <3>4
      <4> QED
        BY <2>3, <3>1, <3>4, <4>1
    <3>5. CASE ~aligned
      <4>1. U.rank[x] = T.rank[t] + IndexIn(run, x)
        BY <1>2, <1>8, <3>2, <3>3, <3>5
      <4> QED
        BY <2>3, <3>1, <3>5, <4>1
    <3> QED
      BY <3>4, <3>5
  <2> QED
    BY <2>2, <2>3
<1>14. \A R \in W :
          /\ U.last[R] = IF R = P THEN rest ELSE IF R = Q /\ ~aligned THEN stop ELSE T.last[R]
          /\ U.first[R] = IF R = Q /\ aligned THEN stop ELSE T.first[R]
          /\ U.size[R] = IF R = P THEN T.size[R] - count ELSE IF R = Q THEN T.size[R] + count ELSE T.size[R]
  <2> TAKE R \in W
  <2>1. S.first = T.first /\ S.last = T.last /\ S.size = T.size
    BY <1>7
  <2>2. /\ U.last[R] = IF R = P THEN rest ELSE IF end = "last" /\ R = Q THEN stop ELSE S.last[R]
        /\ U.first[R] = IF end = "first" /\ R = Q THEN stop ELSE S.first[R]
    BY <1>11 DEF RawFields
  <2>3. U.size[R] = IF R = P THEN S.size[R] - count ELSE IF R = Q THEN S.size[R] + count ELSE S.size[R]
    BY <1>11 DEF RawFields
  <2>4. end = IF aligned THEN "first" ELSE "last"
    BY DEF end
  <2> QED
    BY <2>1, <2>2, <2>3, <2>4
<1>15. GivesRight(T, U, I, O, P, Q, stop)
  <2> SUFFICES RightGiven(T, U, I, O, P, Q, M, stop, aligned, turned)
    BY DEF GivesRight, M, turned, aligned
  <2> QED
    BY <1>12, <1>13, <1>14 DEF RightGiven
<1>16. U.rev = [x \in W |-> IF x = Q /\ turnQ THEN ~T.rev[x] ELSE IF x \in turned THEN ~T.rev[x] ELSE T.rev[x]]
  <2>1. Q \notin turned
    BY <1>6
  <2>2. U.rev = [x \in W |-> IF x = Q /\ turnQ THEN ~S.rev[x] ELSE S.rev[x]]
    BY <1>11 DEF RawFields
  <2>3. S.rev = [x \in W |-> IF x \in turned THEN ~T.rev[x] ELSE T.rev[x]]
    BY <1>7 DEF LinksSwapped
  <2>4. S.rev[Q] = T.rev[Q]
    BY <1>1, <2>1, <2>3
  <2>5. \A x \in W : (IF x = Q /\ turnQ THEN ~S.rev[x] ELSE S.rev[x])
                     = (IF x = Q /\ turnQ THEN ~T.rev[x] ELSE IF x \in turned THEN ~T.rev[x] ELSE T.rev[x])
    BY <2>3, <2>4, Zenon
  <2> QED
    BY <2>2, <2>5, Zenon
<1>17. ItemsElseKept(T, U, X, I) /\ \A x \in X \ I : U.parent[x] = T.parent[x]
  BY <1>2, <1>6, <1>12 DEF ItemsElseKept
<1>18. U.type = T.type
  BY <1>7, <1>11 DEF RawFields
<1>19. U.rev = [x \in W |-> IF x = Q /\ TurnsRight(T, P, Q) THEN ~T.rev[x]
                            ELSE IF x \in SwappedRight(T, P, Q, RightPart(T, I, P, stop)) THEN ~T.rev[x] ELSE T.rev[x]]
  BY <1>16, Zenon DEF turnQ, turned, M
<1> QED
  BY <1>11, <1>15, <1>17, <1>18, <1>19, Zenon DEF U, GiftRight
=============================================================================
