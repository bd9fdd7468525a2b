---------------------------- MODULE ListTourProofs ----------------------------
(***************************************************************************)
(* ListTour for every set of nodes, every initial tour and every bound:    *)
(* the list is a tour after every move, its ranks follow it, and           *)
(* RestoreTour takes back what it should.                                  *)
(*                                                                         *)
(* The inductive invariant says what the reversal loop has done so far:    *)
(* the nodes it has passed (flip.done) are a piece of the old tour that    *)
(* starts at t3 and has not reached t2 or t4, their links are swapped and  *)
(* all others are as they were.  When the loop ends, that piece is the     *)
(* whole segment t3 --> t1, and CycleTheorems gives the tour that the two  *)
(* calls of Link make of it.                                               *)
(***************************************************************************)
EXTENDS ListTour, CycleTheorems, FiniteSetTheorems

IInv == TypeOK /\ ListInv

-----------------------------------------------------------------------------

\* The turned and shortened move is a proper move of the list.
LEMMA StartsProperMove ==
    ASSUME IsList(suc, prd), NEW a \in Node, NEW b \in Node, NEW c \in Node,
           Exchangeable(a, b, c)
    PROVE  ProperMove(suc, prd, Shorter(Forward(a, b, c)))
<1> DEFINE r == Forward(a, b, c)
<1>1. ProperMove(suc, prd, r)
  BY DEF IsList, IsTour, Injective, Inverses, Exchangeable, Forward, ProperMove, Move
<1>2. Shorter(r) = r \/ Shorter(r) = <<r[4], r[3], r[2], r[1]>>
  BY DEF Shorter
<1>3. ProperMove(suc, prd, <<r[4], r[3], r[2], r[1]>>)
  BY <1>1 DEF IsList, IsTour, Inverses, ProperMove, Move
<1> QED
  BY <1>1, <1>2, <1>3

\* Flip, up to its loop.
LEMMA StartFlipInv ==
    ASSUME TypeOK, IsList(suc, prd), ~flip.running,
           NEW a \in Node, NEW b \in Node, NEW c \in Node,
           Exchangeable(a, b, c), StartFlip(a, b, c)
    PROVE  /\ flip'.running /\ flip'.oldSuc = suc /\ flip'.oldPrd = prd
           /\ flip' \in [running : {TRUE}, t : Move, s1 : Node \cup {NIL},
                         newRank : Int, oldSuc : [Node -> Node],
                         oldPrd : [Node -> Node], done : SUBSET Node]
           /\ suc' \in [Node -> Node \cup {NIL}]
           /\ prd' = prd /\ rank' = rank
           /\ Reversing'
<1> DEFINE r == Shorter(Forward(a, b, c))
<1>1. ProperMove(suc, prd, r)
  BY StartsProperMove
<1>2. r \in Move /\ r[1] \in Node /\ r[3] \in Node
  BY <1>1 DEF ProperMove, Move
<1>3. /\ flip' = [running |-> TRUE, t |-> r, s1 |-> r[3],
                  newRank |-> rank[r[1]], oldSuc |-> suc, oldPrd |-> prd,
                  done |-> {}]
      /\ suc' = [suc EXCEPT ![r[1]] = NIL]
      /\ prd' = prd /\ rank' = rank
  BY DEF StartFlip
<1>4. suc \in [Node -> Node] /\ prd \in [Node -> Node] /\ rank[r[1]] \in Int
  BY <1>2 DEF IsList, IsTour, TypeOK
<1>5. suc' = [x \in Node |-> IF x = r[1] THEN NIL ELSE suc[x]]
  BY <1>2, <1>3, <1>4
<1>6. prd' = [x \in Node |-> prd[x]]
  BY <1>3, <1>4
<1>7. Reversing'
  BY <1>1, <1>2, <1>3, <1>5, <1>6, ListTourAssumption DEF Reversing
<1> QED
  BY <1>2, <1>3, <1>4, <1>5, <1>7

\* One iteration of the loop.
LEMMA ReverseNodeInv ==
    ASSUME IInv, ReverseNode
    PROVE  IInv'
<1> DEFINE f == flip.oldSuc
           g == flip.oldPrd
           D == flip.done
           t == flip.t
           s == flip.s1
           n == f[s]
<1>1. /\ Reversing /\ hash = Edges(f)
      /\ s # NIL /\ s \in Node /\ s \notin D
      /\ flip \in [running : {TRUE}, t : Move, s1 : Node \cup {NIL},
                   newRank : Int, oldSuc : [Node -> Node],
                   oldPrd : [Node -> Node], done : SUBSET Node]
  <2>1. flip.running /\ s # NIL
    BY DEF ReverseNode
  <2>2. Reversing /\ hash = Edges(f)
    BY <2>1 DEF IInv, ListInv
  <2>3. s \in Node /\ s \notin D
    BY <2>1, <2>2 DEF Reversing
  <2>4. flip # NoFlip
    BY <2>1 DEF NoFlip
  <2> QED
    BY <2>1, <2>2, <2>3, <2>4 DEF IInv, TypeOK
<1>2. /\ suc' = [suc EXCEPT ![s] = prd[s]]
      /\ prd' = [prd EXCEPT ![s] = suc[s]]
      /\ rank' = [rank EXCEPT ![s] = flip.newRank]
      /\ flip' = [flip EXCEPT !.s1 = suc[s], !.newRank = flip.newRank - 1,
                              !.done = D \cup {s}]
      /\ UNCHANGED <<reversed, stack, checkPoint, hash, undo, past>>
  BY DEF ReverseNode
<1>3. suc[s] \in Node \cup {NIL} /\ prd[s] \in Node
  BY <1>1 DEF Reversing, IsList
<1>4. TypeOK'
  <2>1. suc' \in [Node -> Node \cup {NIL}] /\ prd' \in [Node -> Node \cup {NIL}]
    BY <1>1, <1>2, <1>3 DEF IInv, TypeOK
  <2>2. rank' \in [Node -> Int]
    BY <1>1, <1>2 DEF IInv, TypeOK
  <2>3. flip' \in [running : {TRUE}, t : Move, s1 : Node \cup {NIL},
                   newRank : Int, oldSuc : [Node -> Node],
                   oldPrd : [Node -> Node], done : SUBSET Node]
    <3>1. flip' = [running |-> TRUE, t |-> t, s1 |-> suc[s],
                   newRank |-> flip.newRank - 1, oldSuc |-> f, oldPrd |-> g,
                   done |-> D \cup {s}]
      BY <1>1, <1>2
    <3> QED
      BY <1>1, <1>3, <3>1
  <2> QED
    BY <1>2, <2>1, <2>2, <2>3 DEF IInv, TypeOK, NoFlip, NoUndo, past
<1>5. /\ flip'.oldSuc = f /\ flip'.oldPrd = g /\ flip'.done = D \cup {s}
      /\ flip'.t = t /\ flip'.s1 = suc[s] /\ flip'.running
  BY <1>1, <1>2
<1>6. /\ f \in [Node -> Node] /\ g \in [Node -> Node] /\ Inverses(f, g)
      /\ SingleCycle(f) /\ ProperMove(f, g, t)
      /\ t[1] \in Node /\ t[2] \in Node /\ t[3] \in Node /\ t[4] \in Node
      /\ f[t[1]] = t[2] /\ f[t[4]] = t[3] /\ t[3] # t[2]
  BY <1>1 DEF Reversing, IsList, IsTour, ProperMove, Move
<1>7. /\ t[2] \notin D /\ t[4] \notin D /\ t[1] \notin D
      /\ \A x \in D : f[x] \in D \cup {s}
      /\ \A x \in D \ {t[3]} : g[x] \in D
      /\ IF t[3] \in D THEN g[s] \in D ELSE D = {} /\ s = t[3]
      /\ suc[s] = IF s = t[1] THEN NIL ELSE n
      /\ prd[s] = g[s]
  BY <1>1 DEF Reversing
<1>8. n \in Node /\ g[n] = s
  BY <1>1, <1>6 DEF Inverses
\* If f led from s back into what is done, the done nodes would be a cycle.
<1>9. s # t[4] /\ n # s
  <2> SUFFICES ASSUME s = t[4] \/ n = s PROVE FALSE
    OBVIOUS
  <2>1. n \in D \cup {s}
    BY <1>6, <1>7
  <2>2. \A x \in D \cup {s} : f[x] \in D \cup {s}
    BY <1>7, <2>1
  <2>3. D \cup {s} = Node
    <3>1. D \cup {s} \in SUBSET Node /\ D \cup {s} # {}
      BY <1>1
    <3> QED
      BY <1>6, <2>2, <3>1 DEF SingleCycle
  <2>4. s = t[1] /\ s = t[4] /\ s = t[2]
    BY <1>6, <1>7, <2>3
  <2> QED
    BY <1>6, <2>4
<1>10. n \notin D
  <2>1. g[t[3]] = t[4]
    BY <1>6 DEF Inverses
  <2> QED
    BY <1>1, <1>7, <1>8, <1>9, <2>1
<1>11. s # t[2]
  BY <1>6, <1>7 DEF Inverses
<1>12. suc' = [x \in Node |-> IF x \in D \cup {s} THEN g[x]
                              ELSE IF x = t[1] THEN NIL ELSE f[x]]
  <2>1. suc = [x \in Node |-> IF x \in D THEN g[x]
                              ELSE IF x = t[1] THEN NIL ELSE f[x]]
    BY <1>1 DEF Reversing
  <2> QED
    BY <1>1, <1>2, <1>7, <2>1
<1>13. prd' = [x \in Node |-> IF x \notin D \cup {s} THEN g[x]
                              ELSE IF x = t[1] THEN NIL ELSE f[x]]
  <2>1. prd = [x \in Node |-> IF x \notin D THEN g[x]
                              ELSE IF x = t[1] THEN NIL ELSE f[x]]
    BY <1>1 DEF Reversing
  <2> QED
    BY <1>1, <1>2, <1>7, <2>1
<1>14. Reversing'
  <2>1. /\ t[2] \notin D \cup {s} /\ t[4] \notin D \cup {s}
        /\ t[1] \in D \cup {s} <=> suc[s] = NIL
        /\ suc[s] # NIL => suc[s] \in Node \ (D \cup {s})
    BY <1>7, <1>8, <1>9, <1>10, <1>11, ListTourAssumption
  <2>2. \A x \in (D \cup {s}) \ {t[1]} : f[x] \in D \cup {s} \cup {suc[s]}
    BY <1>7
  <2>3. \A x \in (D \cup {s}) \ {t[3]} : g[x] \in D \cup {s}
    BY <1>7
  <2>4. t[3] \in D \cup {s} /\ (suc[s] # NIL => g[suc[s]] \in D \cup {s})
    BY <1>7, <1>8
  <2>5. IsList(f, g) /\ ProperMove(f, g, t)
    BY <1>1 DEF Reversing
  <2> QED
    BY <1>5, <1>12, <1>13, <2>1, <2>2, <2>3, <2>4, <2>5 DEF Reversing
<1> QED
  BY <1>1, <1>2, <1>4, <1>5, <1>14 DEF IInv, ListInv

\* A proper move's edges are exchanged in the hash value as in the tour.
LEMMA HashOfTwoOpt ==
    ASSUME NEW f, NEW g, NEW h, NEW r,
           IsList(f, g), ProperMove(f, g, r),
           TwoOptMove(f, h, r[1], r[2], r[3], r[4])
    PROVE  UpdateHash(Edges(f), r) = Edges(h)
<1> DEFINE e1 == {r[1], r[2]}  e2 == {r[3], r[4]}
           e3 == {r[2], r[3]}  e4 == {r[4], r[1]}
<1>1. /\ r[1] \in Node /\ r[2] \in Node /\ r[3] \in Node /\ r[4] \in Node
      /\ f[r[1]] = r[2] /\ f[r[4]] = r[3] /\ g[r[2]] = r[1] /\ g[r[3]] = r[4]
      /\ r[3] # r[2] /\ r[3] # f[r[2]] /\ r[3] # g[r[2]]
      /\ f \in [Node -> Node] /\ g \in [Node -> Node] /\ Inverses(f, g)
  BY DEF IsList, IsTour, ProperMove, Move, Inverses
<1>2. e3 \notin Edges(f)
  <2> SUFFICES ASSUME NEW x \in Node, e3 = {x, f[x]} PROVE FALSE
    BY DEF Edges
  <2>1. (x = r[2] /\ f[x] = r[3]) \/ (x = r[3] /\ f[x] = r[2])
    BY <1>1
  <2> QED
    BY <1>1, <2>1 DEF Inverses
<1>3. e4 \notin Edges(f)
  <2> SUFFICES ASSUME NEW x \in Node, e4 = {x, f[x]} PROVE FALSE
    BY DEF Edges
  <2>1. \/ x = r[4] /\ f[x] = r[1]
        \/ x = r[1] /\ f[x] = r[4]
    BY <1>1
  <2> QED
    BY <1>1, <2>1 DEF Inverses
<1>4. e1 # e2 /\ e3 # e4
  <2>1. e1 = e2 => \/ r[1] = r[3] /\ r[2] = r[4]
                   \/ r[1] = r[4] /\ r[2] = r[3]
    OBVIOUS
  <2>2. e3 = e4 => \/ r[2] = r[4] /\ r[3] = r[1]
                   \/ r[2] = r[1] /\ r[3] = r[4]
    OBVIOUS
  <2>3. r[1] # r[2]
    <3> SUFFICES ASSUME r[1] = r[2] PROVE FALSE
      OBVIOUS
    <3>1. {r[1]} = Node
      BY <1>1 DEF IsList, IsTour, SingleCycle
    <3> QED
      BY <1>1, <3>1
  <2> QED
    BY <1>1, <2>1, <2>2, <2>3
<1>5. e1 \in Edges(f) /\ e2 \in Edges(f)
      /\ Edges(h) = (Edges(f) \ {e1, e2}) \cup {e3, e4}
  BY DEF TwoOptMove
<1> QED
  BY <1>2, <1>3, <1>4, <1>5 DEF UpdateHash, Xor

\* The loop is over, and the two calls of Link.
LEMMA EndFlipMove ==
    ASSUME IInv, EndFlip
    PROVE  /\ IsList(flip.oldSuc, flip.oldPrd)
           /\ ProperMove(flip.oldSuc, flip.oldPrd, flip.t)
           /\ IsList(suc', prd')
           /\ TwoOptMove(flip.oldSuc, suc', flip.t[1], flip.t[2], flip.t[3], flip.t[4])
           /\ hash' = Edges(suc')
           /\ suc' = NewSuc(flip.oldSuc, flip.oldPrd, flip.done,
                            flip.t[1], flip.t[2], flip.t[3], flip.t[4])
<1> DEFINE f == flip.oldSuc
           g == flip.oldPrd
           D == flip.done
           t == flip.t
<1>1. Reversing /\ hash = Edges(f) /\ flip.s1 = NIL
  BY DEF IInv, ListInv, EndFlip
<1>2. D \subseteq Node
  <2>1. flip # NoFlip
    BY DEF EndFlip, NoFlip
  <2> QED
    BY <2>1 DEF IInv, TypeOK
<1>3. IsList(f, g) /\ ProperMove(f, g, t)
  BY <1>1 DEF Reversing
<1>4. t[1] \in D /\ t[3] \in D
  BY <1>1, <1>3, ListTourAssumption DEF Reversing, ProperMove, Move
<1>5. SideOf(f, g, D, t[1], t[2], t[3], t[4])
  <2>1. \A x \in D : f[x] # NIL
    BY <1>2, <1>3, ListTourAssumption DEF IsList, IsTour
  <2>2. \A x \in D \ {t[1]} : f[x] \in D
    BY <1>1, <2>1 DEF Reversing
  <2> QED
    BY <1>1, <1>2, <1>3, <1>4, <2>2
       DEF Reversing, SideOf, IsList, ProperMove, Move
<1>6. t[3] \notin {t[2], f[t[2]], g[t[2]]}
  BY <1>3 DEF ProperMove
<1>7. /\ suc' = NewSuc(f, g, D, t[1], t[2], t[3], t[4])
      /\ prd' = NewPrd(f, g, D, t[1], t[2], t[3], t[4])
  <2>1. /\ suc' = [suc EXCEPT ![t[3]] = t[2], ![t[4]] = t[1]]
        /\ prd' = [prd EXCEPT ![t[2]] = t[3], ![t[1]] = t[4]]
    BY DEF EndFlip
  <2>2. /\ suc = [x \in Node |-> IF x \in D THEN g[x]
                                 ELSE IF x = t[1] THEN NIL ELSE f[x]]
        /\ prd = [x \in Node |-> IF x \notin D THEN g[x]
                                 ELSE IF x = t[1] THEN NIL ELSE f[x]]
    BY <1>1 DEF Reversing
  <2>3. t[3] # t[4] /\ t[2] # t[1]
    BY <1>5, <1>4 DEF SideOf
  <2>4. t[1] \in Node /\ t[2] \in Node /\ t[3] \in Node /\ t[4] \in Node
    BY <1>5 DEF SideOf
  <2>5. suc' = NewSuc(f, g, D, t[1], t[2], t[3], t[4])
    BY <1>4, <2>1, <2>2, <2>3, <2>4 DEF NewSuc
  <2>6. prd' = NewPrd(f, g, D, t[1], t[2], t[3], t[4])
    BY <1>4, <2>1, <2>2, <2>3, <2>4 DEF NewPrd
  <2> QED
    BY <2>5, <2>6
<1>8. IsList(suc', prd') /\ TwoOptMove(f, suc', t[1], t[2], t[3], t[4])
  BY <1>5, <1>6, <1>7, ReversalIsTwoOpt DEF IsList
<1>9. hash' = Edges(suc')
  BY <1>1, <1>3, <1>8, HashOfTwoOpt DEF EndFlip
<1> QED
  BY <1>3, <1>7, <1>8, <1>9

\* The end of a flip, where the list is a tour again, keeps the invariant.
LEMMA EndFlipInv ==
    ASSUME IInv, EndFlip
    PROVE  IInv'
<1>1. ListInv'
  BY EndFlipMove DEF EndFlip, NoFlip, ListInv
<1>2. /\ suc' \in [Node -> Node] /\ prd' \in [Node -> Node]
      /\ flip.t \in Move /\ flip.t[1] \in Node
  BY EndFlipMove DEF IsList, IsTour, ProperMove, Move
<1>3. hash' \in SUBSET SUBSET Node
  BY <1>2, EndFlipMove DEF Edges
<1>4. stack' \in Seq(Move)
  BY <1>2 DEF EndFlip, IInv, TypeOK
<1>5. TypeOK'
  BY <1>2, <1>3, <1>4 DEF EndFlip, IInv, TypeOK, NoFlip, NoUndo, past
<1> QED
  BY <1>1, <1>5 DEF IInv

\* Every behaviour keeps the invariant.
LEMMA InitInv == Init => IInv
<1> SUFFICES ASSUME Init PROVE IInv
  OBVIOUS
<1>1. IsList(suc, prd) /\ suc \in [Node -> Node]
  BY ListTourAssumption DEF Init, IsList, Tours, IsTour
<1>2. rank \in [Node -> Int]
  BY DEF Init, Ordinals
<1>3. Edges(suc) \in SUBSET SUBSET Node
  BY <1>1 DEF Edges
<1>4. prd \in [Node -> Node]
  BY <1>1 DEF IsList
<1>5. stack \in Seq(Move)
  BY DEF Init
<1>6. TypeOK
  BY <1>1, <1>2, <1>3, <1>4, <1>5 DEF Init, TypeOK, NoFlip, NoUndo
<1> QED
  BY <1>1, <1>6 DEF Init, IInv, ListInv, NoFlip

\* SUC and PRD, seen between calls, are the list or its reverse.
LEMMA SeenList ==
    ASSUME IsList(suc, prd)
    PROVE  /\ IsList(SUC, PRD)
           /\ SUC = IF reversed THEN prd ELSE suc
           /\ PRD = IF reversed THEN suc ELSE prd
           /\ Edges(SUC) = Edges(suc)
<1>1. /\ SUC = IF reversed THEN prd ELSE suc
      /\ PRD = IF reversed THEN suc ELSE prd
  BY DEF SUC, PRD, IsList, IsTour
<1>2. IsTour(prd) /\ Inverses(prd, suc) /\ Edges(prd) = Edges(suc)
  BY InverseIsTour, InverseEdges DEF IsList, IsTour
<1> QED
  BY <1>1, <1>2 DEF IsList, IsTour

\* A stack of moves without its top, and its top.
LEMMA PoppedType ==
    ASSUME stack \in Seq(Move), stack # <<>>
    PROVE  Popped \in Seq(Move) /\ Top \in Move
  BY DEF Popped, Top

\* Above the check point there is something to pop.
LEMMA StackNotEmpty ==
    ASSUME IInv, Popping
    PROVE  ~flip.running /\ undo.running /\ stack # <<>>
  BY DEF Popping, IInv, TypeOK

\* Every step keeps the invariant: one case for each action.
LEMMA NextInv ==
    ASSUME IInv, [Next]_vars
    PROVE  IInv'
<1> USE DEF IInv
<1>1. CASE ReverseNode
  BY <1>1, ReverseNodeInv
<1>2. CASE EndFlip
  BY <1>2, EndFlipInv
<1>3. CASE UndoMove
  <2>1. ~flip.running /\ undo.running /\ stack # <<>>
        /\ stack' = Popped /\ undo' = [undo EXCEPT !.odd = FALSE]
        /\ UNCHANGED <<reversed, checkPoint, hash, past>>
    BY <1>3, StackNotEmpty DEF UndoMove
  <2>2. stack' \in Seq(Move) /\ Top \in Move
    BY <2>1, PoppedType DEF TypeOK
  <2>3. undo' \in {NoUndo} \cup
               [running : {TRUE}, odd : BOOLEAN, t1 : Node \cup {NIL}]
    BY <2>1 DEF TypeOK, NoUndo
  <2>4. IsList(suc, prd) /\ hash = Edges(suc)
    BY <2>1 DEF ListInv
  <2>5. CASE Exchangeable(Top[3], Top[2], Top[1])
    <3>1. Top[1] \in Node /\ Top[2] \in Node /\ Top[3] \in Node
      BY <2>2 DEF Move
    <3>2. StartFlip(Top[3], Top[2], Top[1])
      BY <1>3, <2>5 DEF UndoMove
    <3>3. /\ flip'.running /\ flip'.oldSuc = suc /\ flip'.oldPrd = prd
          /\ flip' \in [running : {TRUE}, t : Move, s1 : Node \cup {NIL},
                         newRank : Int, oldSuc : [Node -> Node],
                         oldPrd : [Node -> Node], done : SUBSET Node]
          /\ suc' \in [Node -> Node \cup {NIL}]
          /\ prd' = prd /\ rank' = rank
          /\ Reversing'
      BY <2>1, <2>4, <2>5, <3>1, <3>2, StartFlipInv
    <3>4. ListInv'
      BY <2>1, <2>4, <3>3 DEF ListInv
    <3>5. TypeOK'
      BY <2>1, <2>2, <2>3, <3>3 DEF past, TypeOK, NoFlip, NoUndo
    <3> QED
      BY <3>4, <3>5
  <2>6. CASE ~Exchangeable(Top[3], Top[2], Top[1])
    BY <1>3, <2>1, <2>2, <2>3, <2>4, <2>6
       DEF UndoMove, list, past, TypeOK, ListInv, NoFlip, NoUndo
  <2> QED
    BY <2>5, <2>6
<1>4. CASE DropInverse
  <2>1. stack' \in Seq(Move)
    BY <1>4, StackNotEmpty, PoppedType DEF DropInverse, TypeOK
  <2>2. undo' \in {NoUndo} \cup
               [running : {TRUE}, odd : BOOLEAN, t1 : Node \cup {NIL}]
    BY <1>4 DEF DropInverse, TypeOK, NoUndo
  <2>3. ~flip.running /\ UNCHANGED <<list, reversed, checkPoint, hash, flip, past>>
    BY <1>4 DEF DropInverse, Popping
  <2> QED
    BY <2>1, <2>2, <2>3 DEF list, past, TypeOK, ListInv, NoFlip, NoUndo
<1>5. CASE EndRestore
  <2>1. ~flip.running /\ UNCHANGED <<list, stack, checkPoint, hash, flip, kept>>
        /\ undo' = NoUndo /\ reversed' = TurnBack(undo.t1)
        /\ mark' = IF undo.t1 = NIL THEN SUC ELSE mark
    BY <1>5 DEF EndRestore
  <2>2. SUC \in [Node -> Node]
    BY <2>1, SeenList DEF ListInv, IsList, IsTour
  <2>3. mark' \in [Node -> Node] /\ reversed' \in BOOLEAN
    BY <2>1, <2>2 DEF TypeOK, TurnBack
  <2> QED
    BY <2>1, <2>3 DEF list, TypeOK, ListInv, NoFlip, NoUndo
<1>6. CASE Reenter
  <2>1. ~flip.running /\ IsList(suc, prd)
    BY <1>6 DEF Reenter, Idle, ListInv
  <2>2. IsList(suc', prd') /\ suc' = SUC /\ prd' = PRD
    BY <1>6, <2>1, SeenList DEF Reenter
  <2>3. suc' \in [Node -> Node] /\ prd' \in [Node -> Node]
    BY <2>2 DEF IsList, IsTour
  <2>4. rank' \in [Node -> Int] /\ hash' = Edges(suc') /\ reversed' = FALSE
        /\ checkPoint' = 0 /\ mark' = suc' /\ UNCHANGED <<stack, flip, undo, kept>>
    BY <1>6 DEF Reenter, Ordinals
  <2>5. hash' \in SUBSET SUBSET Node
    BY <2>3, <2>4 DEF Edges
  <2> QED
    BY <2>1, <2>2, <2>3, <2>4, <2>5 DEF TypeOK, ListInv, NoFlip, NoUndo
<1>7. CASE Turn
  <2>1. ~flip.running /\ IsList(suc, prd)
    BY <1>7 DEF Turn, Idle, ListInv
  <2>2. PRD \in [Node -> Node]
    BY <2>1, SeenList DEF IsList
  <2> QED
    BY <1>7, <2>1, <2>2 DEF Turn, list, TypeOK, ListInv, NoFlip, NoUndo
<1>8. ASSUME NEW t1 \in Node, NEW t2 \in Node, NEW t3 \in Node,
             Swap1(t1, t2, t3)
      PROVE  IInv'
  <2>1. /\ ~flip.running /\ Exchangeable(t1, t2, t3) /\ StartFlip(t1, t2, t3)
        /\ UNCHANGED <<reversed, stack, checkPoint, hash, undo, past>>
    BY <1>8 DEF Swap1, Idle
  <2>2. IsList(suc, prd) /\ hash = Edges(suc)
    BY <2>1 DEF ListInv
  <2>3. /\ flip'.running /\ flip'.oldSuc = suc /\ flip'.oldPrd = prd
        /\ flip' \in [running : {TRUE}, t : Move, s1 : Node \cup {NIL},
                       newRank : Int, oldSuc : [Node -> Node],
                       oldPrd : [Node -> Node], done : SUBSET Node]
        /\ suc' \in [Node -> Node \cup {NIL}]
        /\ prd' = prd /\ rank' = rank
        /\ Reversing'
    BY <2>1, <2>2, StartFlipInv
  <2>4. ListInv'
    BY <2>1, <2>2, <2>3 DEF ListInv
  <2>5. TypeOK'
    BY <2>1, <2>3 DEF past, TypeOK, NoFlip, NoUndo
  <2> QED
    BY <2>4, <2>5
<1>9. CASE StoreTour
  <2>1. ~flip.running /\ IsList(suc, prd)
    BY <1>9 DEF StoreTour, Idle, ListInv
  <2>2. SUC \in [Node -> Node] /\ Edges(SUC) \in SUBSET SUBSET Node
    BY <2>1, SeenList DEF IsList, IsTour, Edges
  <2>3. stack' \in Seq(Move)
    BY <1>9 DEF StoreTour
  <2> QED
    BY <1>9, <2>1, <2>2, <2>3
       DEF StoreTour, list, TypeOK, ListInv, NoFlip, NoUndo
<1>10. ASSUME NEW t1 \in Callers \cup {NIL}, RestoreTour(t1)
       PROVE  IInv'
  BY <1>10, ListTourAssumption
     DEF RestoreTour, list, past, Idle, TypeOK, ListInv, NoFlip, NoUndo
<1>11. ASSUME NEW t1 \in Callers, NEW t2 \in Node, BestMove(t1, t2)
       PROVE  IInv'
  <2>1. /\ ~flip.running /\ IsList(suc, prd) /\ checkPoint' = Len(stack)
        /\ reversed' \in BOOLEAN /\ mark' \in {SUC, PRD}
        /\ UNCHANGED <<list, stack, hash, flip, undo, kept>>
    BY <1>11 DEF BestMove, Idle, ListInv, TypeOK
  <2>2. SUC \in [Node -> Node] /\ PRD \in [Node -> Node]
    BY <2>1, SeenList DEF IsList, IsTour
  <2>3. Len(stack) \in Nat
    BY DEF TypeOK
  <2> QED
    BY <2>1, <2>2, <2>3 DEF list, TypeOK, ListInv, NoFlip, NoUndo
<1>12. CASE UNCHANGED vars
  BY <1>12 DEF vars, TypeOK, ListInv, Reversing, NoFlip, NoUndo
<1> QED
  BY <1>1, <1>2, <1>3, <1>4, <1>5, <1>6, <1>7, <1>8, <1>9, <1>10, <1>11, <1>12
     DEF Next, Loop

\* The inductive invariant holds in every state of every behaviour.
THEOREM Invariance == Spec => []IInv
<1>1. Init => IInv
  BY InitInv
<1>2. IInv /\ [Next]_vars => IInv'
  BY NextInv
<1> QED
  BY <1>1, <1>2, PTL DEF Spec

\* Pointers, ranks, the stack and the locals of the loops keep their types.
THEOREM TypeCorrect == Spec => []TypeOK
<1>1. IInv => TypeOK
  BY DEF IInv
<1> QED
  BY <1>1, Invariance, PTL

\* Whatever moves are made, undone or stored, and however the direction is
\* changed, the list is one Hamiltonian cycle whenever Flip is not running,
\* and the hash value is the one of that cycle.
THEOREM ListCorrect == Spec => []ListIsTour
<1>1. IInv => ListIsTour
  BY DEF IInv, ListInv, ListIsTour, IsList
<1> QED
  BY <1>1, Invariance, PTL

-----------------------------------------------------------------------------
(* The list implements the abstract tour. *)

\* CyclicTour's notions are those of Cycles.
LEMMA SameNotions ==
    /\ Tour!Tours = Tours
    /\ \A f, g : Tour!Inverses(f, g) <=> Inverses(f, g)
    /\ \A f, g, t1, t2, t3, t4 :
           Tour!TwoOptMove(f, g, t1, t2, t3, t4)
               <=> TwoOptMove(f, g, t1, t2, t3, t4)
<1>1. \A f : Tour!IsTour(f) <=> IsTour(f)
  BY DEF IsTour, Injective, SingleCycle,
         Tour!IsTour, Tour!Injective, Tour!SingleCycle
<1>2. \A f : Tour!Edges(f) = Edges(f)
  BY DEF Edges, Tour!Edges
<1>3. Tour!Tours = Tours
  BY <1>1 DEF Tours, Tour!Tours
<1>4. \A f, g : Tour!Inverses(f, g) <=> Inverses(f, g)
  BY DEF Inverses, Tour!Inverses
<1> QED
  BY <1>2, <1>3, <1>4 DEF TwoOptMove, Tour!TwoOptMove

\* A step that starts Flip is not seen.
LEMMA StartFlipUnseen ==
    ASSUME IInv, ~flip.running, flip'.running, reversed' = reversed,
           flip'.oldSuc = suc, flip'.oldPrd = prd
    PROVE  Seen' = Seen
<1>1. IsList(suc, prd)
  BY DEF IInv, ListInv
<1>2. SUC = IF reversed THEN prd ELSE suc
  BY <1>1, SeenList
<1> QED
  BY <1>2 DEF Seen

\* The edge {t1,t2} is not in the tour after the move.
LEMMA EdgeGone ==
    ASSUME NEW f, NEW g, NEW t1 \in Node, NEW t2 \in Node, NEW t3 \in Node, NEW t4 \in Node,
           TwoOptMove(f, g, t1, t2, t3, t4), t1 # t3, t2 # t4
    PROVE  g[t1] # t2 /\ g[t2] # t1
<1>1. {t1, t2} # {t2, t3} /\ {t1, t2} # {t4, t1}
  OBVIOUS
<1>2. {t1, t2} \notin Edges(g)
  BY <1>1 DEF TwoOptMove
<1>3. {t1, g[t1]} \in Edges(g) /\ {t2, g[t2]} \in Edges(g)
  BY DEF Edges
<1>4. {t2, t1} = {t1, t2}
  OBVIOUS
<1> QED
  BY <1>2, <1>3, <1>4

\* The end of Flip is the move.
LEMMA EndFlipSeen ==
    ASSUME IInv, EndFlip
    PROVE  Tour!Next
<1> DEFINE f == flip.oldSuc
           g == flip.oldPrd
           t == flip.t
<1>1. /\ IsList(f, g) /\ ProperMove(f, g, t) /\ IsList(suc', prd')
      /\ TwoOptMove(f, suc', t[1], t[2], t[3], t[4])
  BY EndFlipMove
<1>2. /\ t[1] \in Node /\ t[2] \in Node /\ t[3] \in Node /\ t[4] \in Node
      /\ f[t[1]] = t[2] /\ f[t[4]] = t[3]
      /\ g[t[2]] = t[1] /\ g[t[3]] = t[4]
      /\ t[3] # t[2] /\ t[3] # f[t[2]] /\ t[3] # g[t[2]]
      /\ t[2] # f[t[3]] /\ t[2] # g[t[3]]
      /\ t[4] # t[1] /\ t[4] # g[t[1]] /\ t[1] # g[t[4]]
  BY <1>1 DEF ProperMove, Move, IsList, IsTour, Inverses
<1>3. flip.running /\ ~flip'.running /\ reversed' = reversed
  BY DEF EndFlip, NoFlip
<1>4. Seen = IF reversed THEN g ELSE f
  BY <1>3 DEF Seen
<1>5. Seen' = IF reversed THEN prd' ELSE suc'
  <2>1. suc' \in [Node -> Node] /\ prd' \in [Node -> Node]
    BY <1>1 DEF IsList, IsTour
  <2> QED
    BY <1>3, <2>1 DEF Seen, SUC
<1>6. /\ IsTour(suc') /\ IsTour(prd') /\ Edges(prd') = Edges(suc')
      /\ Edges(g) = Edges(f)
  BY <1>1, InverseIsTour, InverseEdges DEF IsList, IsTour
<1>7. Seen' \in Tours
  BY <1>5, <1>6 DEF Tours, IsTour
<1>8. /\ TwoOptMove(Seen, Seen', t[1], t[2], t[3], t[4])
      /\ TwoOptMove(Seen, Seen', t[2], t[1], t[4], t[3])
  <2>1. TwoOptMove(Seen, Seen', t[1], t[2], t[3], t[4])
    BY <1>1, <1>4, <1>5, <1>6 DEF TwoOptMove
  <2>2. /\ {t[1], t[2]} = {t[2], t[1]} /\ {t[3], t[4]} = {t[4], t[3]}
        /\ {t[2], t[3]} = {t[3], t[2]} /\ {t[4], t[1]} = {t[1], t[4]}
    OBVIOUS
  <2>3. {{t[2], t[3]}, {t[4], t[1]}} = {{t[1], t[4]}, {t[3], t[2]}}
    BY <2>2
  <2> QED
    BY <2>1, <2>2, <2>3 DEF TwoOptMove
<1>9. t[1] # t[3] /\ t[2] # t[4]
  BY <1>2
<1>10. Seen'[t[1]] # t[2] /\ Seen'[t[2]] # t[1]
  BY <1>2, <1>8, <1>9, EdgeGone
<1>11. CASE ~reversed
  <2>1. Tour!Flip(t[1], t[4])
    BY <1>2, <1>4, <1>7, <1>8, <1>11, <1>10, SameNotions DEF Tour!Flip
  <2> QED
    BY <1>2, <2>1 DEF Tour!Next
<1>12. CASE reversed
  <2>1. Tour!Flip(t[2], t[3])
    BY <1>2, <1>4, <1>7, <1>8, <1>12, <1>10, SameNotions DEF Tour!Flip
  <2> QED
    BY <1>2, <2>1 DEF Tour!Next
<1> QED
  BY <1>11, <1>12

\* Between two flips, SUC changes at most its direction.
LEMMA DirectionSeen ==
    ASSUME IInv, IInv', ~flip.running, ~flip'.running,
           \/ suc' = suc /\ prd' = prd
           \/ suc' = SUC /\ prd' = PRD
    PROVE  [Tour!Next]_Seen
<1>1. IsList(suc, prd) /\ IsList(suc', prd')
  BY DEF IInv, ListInv
<1>2. /\ Seen = SUC /\ SUC = IF reversed THEN prd ELSE suc
      /\ PRD = IF reversed THEN suc ELSE prd
  BY <1>1, SeenList DEF Seen
<1>3. Seen' = IF reversed' THEN prd' ELSE suc'
  BY <1>1 DEF Seen, SUC, IsList, IsTour
<1>4. Seen' = SUC \/ Seen' = PRD
  BY <1>2, <1>3
<1>5. IsList(SUC, PRD)
  BY <1>1, SeenList
<1>6. Seen' = PRD => Tour!Turn
  BY <1>2, <1>5, SameNotions DEF Tour!Turn, IsList
<1> QED
  BY <1>2, <1>4, <1>6 DEF Tour!Next

LEMMA StepSeen ==
    ASSUME IInv, IInv', [Next]_vars
    PROVE  [Tour!Next]_Seen
<1>1. CASE ReverseNode
  <2>1. /\ flip.running /\ flip'.running /\ reversed' = reversed
        /\ flip'.oldSuc = flip.oldSuc /\ flip'.oldPrd = flip.oldPrd
    <3>1. flip \in [running : {TRUE}, t : Move, s1 : Node \cup {NIL},
                    newRank : Int, oldSuc : [Node -> Node],
                    oldPrd : [Node -> Node], done : SUBSET Node]
      <4>1. flip # NoFlip
        BY <1>1 DEF ReverseNode, NoFlip
      <4> QED
        BY <4>1 DEF IInv, TypeOK
    <3> QED
      BY <1>1, <3>1 DEF ReverseNode
  <2> QED
    BY <2>1 DEF Seen
<1>2. CASE EndFlip
  BY <1>2, EndFlipSeen
<1>3. CASE UndoMove
  <2>1. ~flip.running /\ reversed' = reversed
    BY <1>3 DEF UndoMove, Popping
  <2>2. CASE Exchangeable(Top[3], Top[2], Top[1])
    <3>1. flip'.running /\ flip'.oldSuc = suc /\ flip'.oldPrd = prd
      BY <1>3, <2>2 DEF UndoMove, StartFlip
    <3> QED
      BY <2>1, <3>1, StartFlipUnseen
  <2>3. CASE ~Exchangeable(Top[3], Top[2], Top[1])
    BY <1>3, <2>1, <2>3, DirectionSeen DEF UndoMove, list
  <2> QED
    BY <2>2, <2>3
<1>4. CASE DropInverse
  BY <1>4, DirectionSeen DEF DropInverse, Popping, list
<1>5. CASE EndRestore
  BY <1>5, DirectionSeen DEF EndRestore, list
<1>6. CASE Reenter
  BY <1>6, DirectionSeen DEF Reenter, Idle
<1>7. CASE Turn
  BY <1>7, DirectionSeen DEF Turn, Idle, list
<1>8. ASSUME NEW t1 \in Node, NEW t2 \in Node, NEW t3 \in Node,
             Swap1(t1, t2, t3)
      PROVE  [Tour!Next]_Seen
  <2>1. /\ ~flip.running /\ reversed' = reversed
        /\ flip'.running /\ flip'.oldSuc = suc /\ flip'.oldPrd = prd
    BY <1>8 DEF Swap1, Idle, StartFlip
  <2> QED
    BY <2>1, StartFlipUnseen
<1>9. CASE StoreTour
  BY <1>9, DirectionSeen DEF StoreTour, Idle, list
<1>10. ASSUME NEW t1 \in Callers \cup {NIL}, RestoreTour(t1)
       PROVE  [Tour!Next]_Seen
  BY <1>10, DirectionSeen DEF RestoreTour, Idle, list
<1>11. ASSUME NEW t1 \in Callers, NEW t2 \in Node, BestMove(t1, t2)
       PROVE  [Tour!Next]_Seen
  BY <1>11, DirectionSeen DEF BestMove, Idle, list
<1>12. CASE UNCHANGED vars
  BY <1>12 DEF vars, Seen, SUC
<1> QED
  BY <1>1, <1>2, <1>3, <1>4, <1>5, <1>6, <1>7, <1>8, <1>9, <1>10, <1>11, <1>12
     DEF Next, Loop

\* Through SUC, the doubly linked list is the abstract tour: a caller sees
\* 2-opt moves and changes of direction, and nothing else.
THEOREM Implements == Spec => ImplementsTour
<1>1. Init => Tour!Init
  <2> SUFFICES ASSUME Init PROVE Tour!Init
    OBVIOUS
  <2>1. suc \in Tours /\ ~flip.running /\ ~reversed
    BY ListTourAssumption DEF Init, NoFlip
  <2>2. Seen = suc
    BY <2>1 DEF Seen, SUC, Tours
  <2> QED
    BY <2>1, <2>2, SameNotions DEF Tour!Init
<1>2. IInv /\ IInv' /\ [Next]_vars => [Tour!Next]_Seen
  BY StepSeen
<1> QED
  BY <1>1, <1>2, Invariance, PTL DEF Spec, ImplementsTour, Tour!Spec

-----------------------------------------------------------------------------
(***************************************************************************)
(* The ranks of ListTour for every set of nodes, every initial tour and    *)
(* every number of moves: BETWEEN and SegmentSize, which look at ranks     *)
(* only, answer as the tour does.                                          *)
(*                                                                         *)
(* Ranks are consecutive: a step along the tour adds one, or takes N - 1   *)
(* away, and no two ranks are equal or further apart than N - 1.  Flip     *)
(* keeps this although it never looks at the range it counts down into:    *)
(* when the segment it turns holds the place where ranks wrap around, they *)
(* drift below all others by as many as were above.                        *)
(***************************************************************************)

\* Ranks r follow the tour f.
Consecutive(f, r) ==
    /\ r \in [Node -> Int]
    /\ \A x \in Node : r[f[x]] = r[x] + 1 \/ r[f[x]] = r[x] + 1 - N
    /\ \A x, y \in Node : r[x] = r[y] => x = y
    /\ \A x, y \in Node : r[x] - r[y] < N

\* How many steps it is from a to x, by ranks.
Ahead(r, a, x) == IF r[x] < r[a] THEN r[x] - r[a] + N ELSE r[x] - r[a]

\* It counts: 0 at a, no number twice, and a step of f adds one unless it is back at a.
CountsSteps(f, r, a) ==
    /\ \A x \in Node : Ahead(r, a, x) \in 0..(N-1)
    /\ Ahead(r, a, a) = 0
    /\ \A x, y \in Node : Ahead(r, a, x) = Ahead(r, a, y) => x = y
    /\ \A x \in Node : f[x] = a \/ Ahead(r, a, f[x]) = Ahead(r, a, x) + 1

\* In the loop of Flip: r are the ranks at the call.  The nodes done are the ones
\* up to s1, and are ranked from rank t1 downwards.
RanksTurning(r) ==
    LET t == flip.t
        s == flip.s1
    IN  /\ Consecutive(flip.oldSuc, r)
        /\ flip.done = {x \in Node : IF s = NIL
                                     THEN Ahead(r, t[3], x) <= Ahead(r, t[3], t[1])
                                     ELSE Ahead(r, t[3], x) < Ahead(r, t[3], s)}
        /\ s # NIL => flip.newRank = r[t[1]] - Ahead(r, t[3], s)
        /\ rank = [x \in Node |-> IF x \in flip.done
                                  THEN r[t[1]] - Ahead(r, t[3], x) ELSE r[x]]

RankInv ==
    IF flip.running THEN \E r \in [Node -> Int] : RanksTurning(r)
                    ELSE Consecutive(suc, rank)

-----------------------------------------------------------------------------
(* Consecutive ranks. *)

LEMMA NType == N \in Nat
BY NodeAssumption, FS_CardinalityType DEF N

\* Consecutive ranks count the steps from any node.
LEMMA AheadSteps ==
    ASSUME NEW f, NEW r, NEW a \in Node, f \in [Node -> Node], Consecutive(f, r)
    PROVE  CountsSteps(f, r, a)
<1>1. N \in Nat /\ r \in [Node -> Int]
  BY NType DEF Consecutive
<1>2. \A x \in Node : Ahead(r, a, x) \in 0..(N-1)
  BY <1>1 DEF Ahead, Consecutive
<1>3. Ahead(r, a, a) = 0
  BY <1>1 DEF Ahead
<1>4. ASSUME NEW x \in Node, NEW y \in Node, Ahead(r, a, x) = Ahead(r, a, y)
      PROVE  x = y
  <2>1. r[x] \in Int /\ r[y] \in Int /\ r[a] \in Int /\ r[x] - r[y] < N /\ r[y] - r[x] < N
    BY <1>1 DEF Consecutive
  <2>2. r[x] = r[y]
    BY <1>1, <1>4, <2>1 DEF Ahead
  <2> QED
    BY <2>2 DEF Consecutive
<1>5. ASSUME NEW x \in Node, f[x] # a
      PROVE  Ahead(r, a, f[x]) = Ahead(r, a, x) + 1
  <2>1. /\ f[x] \in Node /\ r[x] \in Int /\ r[f[x]] \in Int /\ r[a] \in Int
        /\ r[f[x]] = r[x] + 1 \/ r[f[x]] = r[x] + 1 - N
        /\ r[f[x]] # r[a] /\ r[x] - r[a] < N /\ r[a] - r[x] < N
        /\ r[f[x]] - r[a] < N /\ r[a] - r[f[x]] < N
    BY <1>1, <1>5 DEF Consecutive
  <2> QED
    BY <1>1, <2>1 DEF Ahead
<1> QED
  BY <1>2, <1>3, <1>4, <1>5 DEF CountsSteps

\* If d counts the steps of the tour from a, the path from a to c are the nodes
\* that are not further from a than c.
LEMMA PathByDistance ==
    ASSUME NEW f, IsTour(f), NEW d, d \in [Node -> Nat],
           NEW a \in Node, NEW b \in Node, NEW c \in Node,
           d[a] = 0,
           \A x, y \in Node : d[x] = d[y] => x = y,
           \A x \in Node : f[x] = a \/ d[f[x]] = d[x] + 1
    PROVE  OnPath(f, a, b, c) <=> d[b] <= d[c]
<1>1. f \in [Node -> Node] /\ SingleCycle(f)
  BY DEF IsTour
<1>2. ASSUME OnPath(f, a, b, c) PROVE d[b] <= d[c]
  <2> DEFINE S == {x \in Node : d[x] <= d[c]}
  <2>1. a \in S
    OBVIOUS
  <2>2. ASSUME NEW x \in S \ {c} PROVE f[x] \in S
    <3>1. d[x] < d[c]
      BY <2>2
    <3>2. f[x] \in Node /\ (f[x] = a \/ d[f[x]] = d[x] + 1)
      BY <1>1, <2>2
    <3> QED
      BY <2>1, <3>1, <3>2
  <2>3. b \in S
    <3>1. S \in SUBSET Node
      OBVIOUS
    <3> HIDE DEF S
    <3> QED
      BY <1>2, <2>1, <2>2, <3>1 DEF OnPath
  <2> QED
    BY <2>3
\* A set that is closed except at c, and nodes further away than b, are closed.
<1>3. ASSUME d[b] <= d[c] PROVE OnPath(f, a, b, c)
  <2> SUFFICES ASSUME NEW S \in SUBSET Node, a \in S,
                      \A x \in S \ {c} : f[x] \in S, b \notin S
               PROVE  FALSE
    BY DEF OnPath
  <2> DEFINE T == S \cup {x \in Node : d[x] > d[b]}
  <2>1. ASSUME NEW x \in T PROVE f[x] \in T
    <3>1. x \in Node /\ f[x] \in Node /\ d[x] \in Nat /\ d[b] \in Nat /\ d[c] \in Nat
      BY <1>1
    <3>2. CASE d[x] > d[b]
      BY <3>1, <3>2
    <3>3. CASE ~(d[x] > d[b])
      <4>1. x \in S /\ x # b
        BY <2>1, <3>3
      <4>2. d[x] # d[b]
        BY <3>1, <4>1
      <4>3. x # c
        BY <1>3, <3>1, <3>3, <4>2
      <4> QED
        BY <4>1, <4>3
    <3> QED
      BY <3>2, <3>3
  <2>2. T \in SUBSET Node /\ T # {}
    OBVIOUS
  <2>3. b \notin T
    OBVIOUS
  <2> HIDE DEF T
  <2> QED
    BY <1>1, <2>1, <2>2, <2>3 DEF SingleCycle
<1> QED
  BY <1>2, <1>3

\* Ranks 1, 2, ... along a tour are consecutive.
LEMMA OrdinalsConsecutive ==
    ASSUME NEW f, NEW g, IsList(f, g), NEW r \in Ordinals(f)
    PROVE  Consecutive(f, r)
<1>1. /\ f \in [Node -> Node] /\ SingleCycle(f) /\ g \in [Node -> Node]
      /\ Inverses(f, g) /\ FirstNode \in Node
      /\ N \in Nat /\ r \in [Node -> 1..N] /\ r[FirstNode] = 1
      /\ \A x \in Node : f[x] # FirstNode => r[f[x]] = r[x] + 1
  BY ListTourAssumption, NType DEF IsList, IsTour, Ordinals
<1>2. \A x, y \in Node : r[x] = r[y] => x = y
  <2> DEFINE T == {x \in Node : \A y \in Node : r[y] = r[x] => y = x}
  <2>1. \A y \in Node : y # FirstNode => r[y] = r[g[y]] + 1 /\ g[y] \in Node
    BY <1>1 DEF Inverses
  <2>2. FirstNode \in T
    <3> SUFFICES ASSUME NEW y \in Node, r[y] = 1, y # FirstNode PROVE FALSE
      BY <1>1
    <3>1. r[y] = r[g[y]] + 1 /\ r[g[y]] \in 1..N
      BY <1>1, <2>1
    <3> QED
      BY <3>1
  <2>3. ASSUME NEW x \in T PROVE f[x] \in T
    <3> SUFFICES ASSUME f[x] # FirstNode, NEW y \in Node, r[y] = r[f[x]]
                 PROVE  y = f[x]
      BY <1>1, <2>2
    <3>1. r[y] = r[x] + 1 /\ r[x] \in 1..N
      BY <1>1
    <3>2. y # FirstNode
      BY <1>1, <3>1
    <3>3. r[g[y]] = r[x] /\ g[y] \in Node
      BY <1>1, <2>1, <3>1, <3>2
    <3> QED
      BY <1>1, <3>3 DEF Inverses
  <2>4. T = Node
    <3>1. T \in SUBSET Node /\ T # {}
      BY <2>2
    <3> HIDE DEF T
    <3> QED
      BY <1>1, <2>3, <3>1 DEF SingleCycle
  <2> QED
    BY <2>4
<1>3. \E y \in Node : r[y] = N
  <2>1. r \in Injection(Node, 1..N)
    BY <1>1, <1>2 DEF Injection, IsInjective
  <2>2. IsFiniteSet(1..N) /\ Cardinality(1..N) = N
    BY <1>1, FS_Interval
  <2>3. r \in Surjection(Node, 1..N)
    BY <2>1, <2>2, FS_Injection DEF N
  <2>4. N \in 1..N
    BY <1>1
  <2> QED
    BY <2>3, <2>4 DEF Surjection
<1>4. ASSUME NEW x \in Node, f[x] = FirstNode PROVE r[x] = N
  <2>1. PICK y \in Node : r[y] = N
    BY <1>3
  <2>2. f[y] = FirstNode
    <3> SUFFICES ASSUME f[y] # FirstNode PROVE FALSE
      OBVIOUS
    <3>1. r[f[y]] = N + 1 /\ r[f[y]] \in 1..N
      BY <1>1, <2>1
    <3> QED
      BY <1>1, <3>1
  <2> QED
    BY <1>1, <1>4, <2>1, <2>2 DEF Inverses
<1>5. \A x \in Node : r[f[x]] = r[x] + 1 \/ r[f[x]] = r[x] + 1 - N
  BY <1>1, <1>4
<1>6. \A x, y \in Node : r[x] \in 1..N /\ r[x] - r[y] < N
  BY <1>1
<1>7. r \in [Node -> Int]
  BY <1>1
<1> QED
  BY <1>2, <1>5, <1>6, <1>7 DEF Consecutive

\* Seen backwards, the ranks are consecutive with the other sign.
LEMMA BackwardsConsecutive ==
    ASSUME NEW f, NEW g, IsList(f, g), NEW r, Consecutive(f, r)
    PROVE  Consecutive(g, [x \in Node |-> -r[x]])
<1> DEFINE q == [x \in Node |-> -r[x]]
<1>1. N \in Nat /\ r \in [Node -> Int]
  BY NType DEF Consecutive
<1>2. q \in [Node -> Int]
  BY <1>1
<1>3. ASSUME NEW x \in Node PROVE q[g[x]] = q[x] + 1 \/ q[g[x]] = q[x] + 1 - N
  <2>1. g[x] \in Node /\ f[g[x]] = x
    BY DEF IsList, Inverses
  <2>2. r[x] = r[g[x]] + 1 \/ r[x] = r[g[x]] + 1 - N
    BY <2>1 DEF Consecutive
  <2> QED
    BY <1>1, <2>1, <2>2
<1>4. \A x, y \in Node : q[x] = q[y] => x = y
  BY <1>1 DEF Consecutive
<1>5. \A x, y \in Node : q[x] - q[y] < N
  BY <1>1 DEF Consecutive
<1> QED
  BY <1>2, <1>3, <1>4, <1>5 DEF Consecutive

-----------------------------------------------------------------------------
(* Flip keeps ranks consecutive. *)

\* The ranks that the loop leaves when it has turned the segment t3 --> t1, which
\* are the nodes not further ahead of t3 than t1 is.
LEMMA TurnedConsecutive ==
    ASSUME NEW f, NEW g, IsList(f, g), NEW t, ProperMove(f, g, t),
           NEW r, Consecutive(f, r), NEW D,
           D = {x \in Node : Ahead(r, t[3], x) <= Ahead(r, t[3], t[1])},
           NEW h, h = NewSuc(f, g, D, t[1], t[2], t[3], t[4]),
           NEW q, q = [x \in Node |-> IF x \in D THEN r[t[1]] - Ahead(r, t[3], x)
                                                 ELSE r[x]]
    PROVE  Consecutive(h, q)
<1> DEFINE k(x) == Ahead(r, t[3], x)
<1>1. /\ N \in Nat /\ r \in [Node -> Int]
      /\ f \in [Node -> Node] /\ g \in [Node -> Node] /\ Inverses(f, g)
      /\ t[1] \in Node /\ t[2] \in Node /\ t[3] \in Node /\ t[4] \in Node
      /\ f[t[1]] = t[2] /\ f[t[4]] = t[3] /\ t[2] # t[3]
  BY NType DEF Consecutive, IsList, IsTour, ProperMove, Move
<1>2. /\ \A x \in Node : k(x) \in 0..(N-1)
      /\ k(t[3]) = 0
      /\ \A x, y \in Node : k(x) = k(y) => x = y
      /\ \A x \in Node : f[x] = t[3] \/ k(f[x]) = k(x) + 1
  BY <1>1, AheadSteps DEF CountsSteps
<1>3. q \in [Node -> Int]
  BY <1>1, <1>2
<1>4. ASSUME NEW x \in Node, NEW y \in Node
      PROVE  (q[x] = q[y] => x = y) /\ q[x] - q[y] < N
  <2>1. /\ k(x) \in 0..(N-1) /\ k(y) \in 0..(N-1) /\ k(t[1]) \in 0..(N-1)
        /\ k(x) = k(y) => x = y
        /\ r[x] \in Int /\ r[y] \in Int /\ r[t[1]] \in Int /\ r[t[3]] \in Int
    BY <1>1, <1>2
  <2>2. /\ r[x] = r[y] => x = y
        /\ r[x] - r[y] < N
        /\ r[x] - r[t[1]] < N /\ r[t[1]] - r[x] < N
        /\ r[x] - r[t[3]] < N /\ r[t[3]] - r[x] < N
        /\ r[y] - r[t[1]] < N /\ r[t[1]] - r[y] < N
        /\ r[y] - r[t[3]] < N /\ r[t[3]] - r[y] < N
        /\ r[t[1]] - r[t[3]] < N /\ r[t[3]] - r[t[1]] < N
    BY <1>1 DEF Consecutive
  <2>3. /\ q[x] = IF k(x) <= k(t[1]) THEN r[t[1]] - k(x) ELSE r[x]
        /\ q[y] = IF k(y) <= k(t[1]) THEN r[t[1]] - k(y) ELSE r[y]
    OBVIOUS
  <2>4. /\ k(x) = IF r[x] < r[t[3]] THEN r[x] - r[t[3]] + N ELSE r[x] - r[t[3]]
        /\ k(y) = IF r[y] < r[t[3]] THEN r[y] - r[t[3]] + N ELSE r[y] - r[t[3]]
        /\ k(t[1]) = IF r[t[1]] < r[t[3]] THEN r[t[1]] - r[t[3]] + N
                                          ELSE r[t[1]] - r[t[3]]
    BY DEF Ahead
  <2> HIDE DEF k
  <2>5. CASE k(x) <= k(t[1]) /\ k(y) <= k(t[1])
    BY <1>1, <2>1, <2>3, <2>5
  <2>6. CASE k(x) <= k(t[1]) /\ k(y) > k(t[1])
    BY <1>1, <2>1, <2>2, <2>3, <2>4, <2>6
  <2>7. CASE k(x) > k(t[1]) /\ k(y) <= k(t[1])
    BY <1>1, <2>1, <2>2, <2>3, <2>4, <2>7
  <2>8. CASE k(x) > k(t[1]) /\ k(y) > k(t[1])
    BY <1>1, <2>1, <2>2, <2>3, <2>8
  <2> QED
    BY <1>1, <2>1, <2>5, <2>6, <2>7, <2>8
<1>5. ASSUME NEW x \in Node
      PROVE  q[h[x]] = q[x] + 1 \/ q[h[x]] = q[x] + 1 - N
  <2>1. h[x] = IF x = t[3] THEN t[2] ELSE IF x = t[4] THEN t[1]
               ELSE IF x \in D THEN g[x] ELSE f[x]
    BY DEF NewSuc
  <2>2. k(t[4]) = N - 1
    <3>1. /\ r[t[3]] = r[t[4]] + 1 \/ r[t[3]] = r[t[4]] + 1 - N
          /\ r[t[3]] \in Int /\ r[t[4]] \in Int /\ r[t[4]] - r[t[3]] < N
      BY <1>1 DEF Consecutive
    <3> QED
      BY <1>1, <3>1 DEF Ahead
  <2>3. t[3] \in D /\ t[1] \in D /\ t[2] \notin D /\ t[4] \notin D
    <3>1. k(t[2]) = k(t[1]) + 1
      BY <1>1, <1>2
    <3>2. k(t[1]) # k(t[4])
      BY <1>1, <1>2
    <3>3. k(t[1]) \in 0..(N-1) /\ k(t[3]) = 0
      BY <1>1, <1>2
    <3> QED
      BY <1>1, <2>2, <3>1, <3>2, <3>3
  <2>4. CASE x = t[3]
    <3>1. q[t[3]] = r[t[1]] /\ q[t[2]] = r[t[2]]
      BY <1>1, <1>2, <2>3
    <3>2. r[t[2]] = r[t[1]] + 1 \/ r[t[2]] = r[t[1]] + 1 - N
      BY <1>1 DEF Consecutive
    <3> QED
      BY <2>1, <2>4, <3>1, <3>2
  <2>5. CASE x = t[4] /\ x # t[3]
    <3>1. q[t[4]] = r[t[4]] /\ q[t[1]] = r[t[1]] - k(t[1])
      BY <1>1, <2>3
    <3>2. /\ r[t[3]] = r[t[4]] + 1 \/ r[t[3]] = r[t[4]] + 1 - N
          /\ r[t[1]] \in Int /\ r[t[3]] \in Int /\ r[t[4]] \in Int
          /\ r[t[4]] - r[t[1]] < N
      BY <1>1 DEF Consecutive
    <3>3. k(t[1]) = IF r[t[1]] < r[t[3]] THEN r[t[1]] - r[t[3]] + N
                                         ELSE r[t[1]] - r[t[3]]
      BY DEF Ahead
    <3> HIDE DEF k
    <3> QED
      BY <1>1, <2>1, <2>5, <3>1, <3>2, <3>3
  <2>6. CASE x \in D /\ x # t[3] /\ x # t[4]
    <3>1. h[x] = g[x] /\ g[x] \in Node /\ f[g[x]] = x
      BY <1>1, <2>1, <2>6 DEF Inverses
    <3>2. k(x) = k(g[x]) + 1
      BY <1>2, <2>6, <3>1
    <3>3. k(x) <= k(t[1]) /\ k(x) \in 0..(N-1) /\ k(g[x]) \in 0..(N-1)
          /\ k(t[1]) \in 0..(N-1) /\ r[t[1]] \in Int
      BY <1>1, <1>2, <2>6, <3>1
    <3>4. q[x] = r[t[1]] - k(x) /\ q[g[x]] = r[t[1]] - k(g[x])
      BY <2>6, <3>1, <3>2, <3>3
    <3> QED
      BY <3>1, <3>2, <3>3, <3>4
  <2>7. CASE x \notin D /\ x # t[3] /\ x # t[4]
    <3>1. h[x] = f[x] /\ f[x] \in Node /\ f[x] # t[3]
      BY <1>1, <2>1, <2>7 DEF Inverses
    <3>2. k(f[x]) = k(x) + 1
      BY <1>2, <3>1
    <3>3. ~(k(f[x]) <= k(t[1]))
      BY <1>1, <1>2, <2>7, <3>2
    <3>4. q[x] = r[x] /\ q[f[x]] = r[f[x]]
      BY <2>7, <3>1, <3>3
    <3>5. r[f[x]] = r[x] + 1 \/ r[f[x]] = r[x] + 1 - N
      BY DEF Consecutive
    <3> QED
      BY <3>1, <3>4, <3>5
  <2> QED
    BY <2>4, <2>5, <2>6, <2>7
<1> QED
  BY <1>3, <1>4, <1>5 DEF Consecutive

-----------------------------------------------------------------------------
(* The inductive invariant. *)

\* Flip, up to its loop: nothing is turned yet.
LEMMA StartFlipRanks ==
    ASSUME TypeOK, IsList(suc, prd), Consecutive(suc, rank),
           NEW a \in Node, NEW b \in Node, NEW c \in Node,
           Exchangeable(a, b, c), StartFlip(a, b, c)
    PROVE  RankInv'
<1> DEFINE t == Shorter(Forward(a, b, c))
<1>1. /\ flip' = [running |-> TRUE, t |-> t, s1 |-> t[3],
                  newRank |-> rank[t[1]], oldSuc |-> suc, oldPrd |-> prd,
                  done |-> {}]
      /\ rank' = rank
  BY DEF StartFlip
<1>2. t[1] \in Node /\ t[3] \in Node
  BY StartsProperMove DEF ProperMove, Move
<1>3. rank \in [Node -> Int] /\ suc \in [Node -> Node] /\ N \in Nat
  BY NType DEF TypeOK, IsList, IsTour
<1> PICK r \in [Node -> Int] : r = rank
  BY <1>3
<1>4. Ahead(r, t[3], t[3]) = 0 /\ \A x \in Node : ~(Ahead(r, t[3], x) < 0)
  <2>1. \A x \in Node : Ahead(r, t[3], x) \in 0..(N-1)
    BY <1>2, <1>3, AheadSteps DEF CountsSteps
  <2>2. Ahead(r, t[3], t[3]) = 0
    BY <1>2, <1>3, AheadSteps DEF CountsSteps
  <2> HIDE DEF t
  <2> QED
    BY <1>3, <2>1, <2>2
<1>5. t[3] # NIL
  BY <1>2, ListTourAssumption
<1> HIDE DEF t
<1>6. flip'.running /\ flip'.t = t /\ flip'.s1 = t[3] /\ flip'.newRank = rank[t[1]]
      /\ flip'.oldSuc = suc /\ flip'.done = {}
  BY <1>1
<1>7. {x \in Node : Ahead(r, t[3], x) < Ahead(r, t[3], t[3])} = {}
  BY <1>4
<1>8. rank[t[1]] = r[t[1]] - Ahead(r, t[3], t[3])
  BY <1>2, <1>4
<1>9. rank' = [x \in Node |-> r[x]]
  BY <1>1
<1>10. RanksTurning(r)'
  BY <1>1, <1>5, <1>6, <1>7, <1>8, <1>9 DEF RanksTurning
<1> QED
  BY <1>3, <1>6, <1>10 DEF RankInv

\* One iteration of the loop: s1 is the next node ahead of t3, and the next rank
\* down is for it.
LEMMA ReverseNodeRanks ==
    ASSUME IInv, IInv', RankInv, ReverseNode
    PROVE  RankInv'
<1> DEFINE f == flip.oldSuc
           D == flip.done
           t == flip.t
           s == flip.s1
<1>1. /\ flip.running /\ s # NIL /\ Reversing
      /\ flip \in [running : {TRUE}, t : Move, s1 : Node \cup {NIL},
                   newRank : Int, oldSuc : [Node -> Node],
                   oldPrd : [Node -> Node], done : SUBSET Node]
  <2>1. flip.running /\ s # NIL
    BY DEF ReverseNode
  <2>2. flip # NoFlip
    BY <2>1 DEF NoFlip
  <2> QED
    BY <2>1, <2>2 DEF IInv, ListInv, TypeOK
<1>2. PICK r \in [Node -> Int] : RanksTurning(r)
  BY <1>1 DEF RankInv
<1> DEFINE k(x) == Ahead(r, t[3], x)
<1>3. /\ s \in Node /\ s \notin D /\ t[1] \in Node /\ t[2] \in Node
      /\ t[3] \in Node /\ t[4] \in Node
      /\ f \in [Node -> Node] /\ D \subseteq Node /\ IsList(f, flip.oldPrd)
      /\ f[t[1]] = t[2] /\ f[t[4]] = t[3] /\ t[2] # t[3]
      /\ suc[s] = IF s = t[1] THEN NIL ELSE f[s]
  BY <1>1 DEF Reversing, ProperMove, Move, IsList, IsTour
<1>4. /\ rank' = [rank EXCEPT ![s] = flip.newRank]
      /\ flip'.running /\ flip'.s1 = suc[s] /\ flip'.newRank = flip.newRank - 1
      /\ flip'.done = D \cup {s} /\ flip'.t = t /\ flip'.oldSuc = f
  BY <1>1 DEF ReverseNode
<1>5. /\ Consecutive(f, r) /\ D = {x \in Node : k(x) < k(s)}
      /\ flip.newRank = r[t[1]] - k(s)
      /\ rank = [x \in Node |-> IF x \in D THEN r[t[1]] - k(x) ELSE r[x]]
  BY <1>1, <1>2 DEF RanksTurning
<1>6. /\ \A x \in Node : k(x) \in Int
      /\ \A x, y \in Node : k(x) = k(y) => x = y
      /\ \A x \in Node : f[x] = t[3] \/ k(f[x]) = k(x) + 1
      /\ r[t[1]] \in Int
  BY <1>3, <1>5, NType, AheadSteps DEF CountsSteps
\* The loop has not come round to t3: t4, which comes before it, is not reached.
<1>7. s # t[1] => k(f[s]) = k(s) + 1
  <2> SUFFICES ASSUME s # t[1], f[s] = t[3] PROVE FALSE
    BY <1>3, <1>6
  <2>1. Reversing'
    BY <1>4 DEF IInv, ListInv
  <2>2. t[4] \notin D \cup {s}
    BY <1>4, <2>1 DEF Reversing
  <2> QED
    BY <1>3, <2>2 DEF IsList, IsTour, Injective
<1>8. D \cup {s} = {x \in Node : k(x) <= k(s)}
  BY <1>3, <1>5, <1>6
<1>9. D \cup {s} = {x \in Node : IF suc[s] = NIL THEN k(x) <= k(t[1])
                                                ELSE k(x) < k(suc[s])}
  <2>1. CASE s = t[1]
    BY <1>3, <1>8, <2>1
  <2>2. CASE s # t[1]
    <3>1. suc[s] = f[s] /\ f[s] \in Node /\ suc[s] # NIL /\ k(f[s]) = k(s) + 1
      BY <1>3, <1>7, <2>2, ListTourAssumption
    <3>2. \A x \in Node : k(x) <= k(s) <=> k(x) < k(f[s])
      BY <1>3, <1>6, <3>1
    <3> QED
      BY <1>8, <3>1, <3>2
  <2> QED
    BY <2>1, <2>2
<1>10. suc[s] # NIL => flip.newRank - 1 = r[t[1]] - k(suc[s])
  BY <1>3, <1>5, <1>6, <1>7
<1>11. rank' = [x \in Node |-> IF x \in D \cup {s} THEN r[t[1]] - k(x) ELSE r[x]]
  BY <1>3, <1>4, <1>5
<1>12. RanksTurning(r)'
  BY <1>4, <1>5, <1>9, <1>10, <1>11 DEF RanksTurning
<1> QED
  BY <1>4, <1>12 DEF RankInv

\* The loop is over: the turned segment has consecutive ranks with the rest.
LEMMA EndFlipRanks ==
    ASSUME IInv, RankInv, EndFlip
    PROVE  RankInv'
<1> DEFINE f == flip.oldSuc
           g == flip.oldPrd
           D == flip.done
           t == flip.t
<1>1. PICK r \in [Node -> Int] : RanksTurning(r)
  BY DEF EndFlip, RankInv
<1>2. /\ flip.s1 = NIL /\ rank' = rank /\ ~flip'.running
  BY DEF EndFlip, NoFlip
<1>3. /\ Consecutive(f, r)
      /\ D = {x \in Node : Ahead(r, t[3], x) <= Ahead(r, t[3], t[1])}
      /\ rank = [x \in Node |-> IF x \in D THEN r[t[1]] - Ahead(r, t[3], x) ELSE r[x]]
  BY <1>1, <1>2 DEF RanksTurning
<1>4. /\ IsList(f, g) /\ ProperMove(f, g, t)
      /\ suc' = NewSuc(f, g, D, t[1], t[2], t[3], t[4])
  BY EndFlipMove
<1>5. Consecutive(suc', rank)
  BY <1>3, <1>4, TurnedConsecutive
<1> QED
  BY <1>2, <1>5 DEF RankInv

\* Every step keeps ranks consecutive.
LEMMA NextRanks ==
    ASSUME IInv, IInv', RankInv, [Next]_vars
    PROVE  RankInv'
<1>1. CASE ReverseNode
  BY <1>1, ReverseNodeRanks
<1>2. CASE EndFlip
  BY <1>2, EndFlipRanks
<1>3. CASE UNCHANGED <<list, flip>>
  BY <1>3 DEF list, RankInv, RanksTurning
<1>4. ASSUME NEW a \in Node, NEW b \in Node, NEW c \in Node, ~flip.running,
             Exchangeable(a, b, c), StartFlip(a, b, c)
      PROVE  RankInv'
  BY <1>4, StartFlipRanks DEF IInv, ListInv, RankInv
<1>5. CASE UndoMove
  <2>1. ~flip.running /\ undo.running /\ stack # <<>>
    BY <1>5, StackNotEmpty DEF UndoMove
  <2>2. Top[1] \in Node /\ Top[2] \in Node /\ Top[3] \in Node
    BY <2>1, PoppedType DEF IInv, TypeOK, Move
  <2> QED
    BY <1>3, <1>4, <1>5, <2>1, <2>2 DEF UndoMove
<1>6. CASE DropInverse \/ EndRestore \/ Turn \/ StoreTour
  BY <1>3, <1>6 DEF DropInverse, EndRestore, Turn, StoreTour, list
<1>7. CASE Reenter
  <2>1. ~flip.running /\ flip' = flip /\ rank' \in Ordinals(suc')
    BY <1>7 DEF Reenter, Idle
  <2>2. IsList(suc', prd')
    BY <2>1 DEF IInv, ListInv
  <2> QED
    BY <2>1, <2>2, OrdinalsConsecutive DEF RankInv
<1>8. ASSUME NEW t1 \in Node, NEW t2 \in Node, NEW t3 \in Node, Swap1(t1, t2, t3)
      PROVE  RankInv'
  BY <1>4, <1>8 DEF Swap1, Idle
<1>9. ASSUME NEW t1 \in Callers \cup {NIL}, RestoreTour(t1) PROVE RankInv'
  BY <1>3, <1>9 DEF RestoreTour
<1>10. ASSUME NEW t1 \in Callers, NEW t2 \in Node, BestMove(t1, t2) PROVE RankInv'
  BY <1>3, <1>10 DEF BestMove
<1>11. CASE UNCHANGED vars
  BY <1>3, <1>11 DEF vars, list
<1> QED
  BY <1>1, <1>2, <1>5, <1>6, <1>7, <1>8, <1>9, <1>10, <1>11 DEF Next, Loop

\* Ranks are consecutive whenever Flip is not running.
THEOREM RanksFollowTour == Spec => []RankInv
<1>1. Init => RankInv
  <2> SUFFICES ASSUME Init PROVE RankInv
    OBVIOUS
  <2>1. IsList(suc, prd) /\ ~flip.running /\ rank \in Ordinals(suc)
    BY InitInv DEF Init, IInv, ListInv, NoFlip
  <2> QED
    BY <2>1, OrdinalsConsecutive DEF RankInv
<1>2. IInv /\ IInv' /\ RankInv /\ [Next]_vars => RankInv'
  BY NextRanks
<1> QED
  BY <1>1, <1>2, Invariance, PTL DEF Spec

-----------------------------------------------------------------------------
(* What callers are told. *)

\* The nodes on the path from a to c are those that are not further ahead than c.
LEMMA PathByRanks ==
    ASSUME NEW f, IsTour(f), NEW r, Consecutive(f, r),
           NEW a \in Node, NEW b \in Node, NEW c \in Node
    PROVE  OnPath(f, a, b, c) <=> Ahead(r, a, b) <= Ahead(r, a, c)
<1>1. f \in [Node -> Node] /\ N \in Nat
  BY NType DEF IsTour
<1> CountsSteps(f, r, a)
  BY <1>1, AheadSteps
<1>2. /\ \A x \in Node : Ahead(r, a, x) \in 0..(N-1)
      /\ Ahead(r, a, a) = 0
      /\ \A x, y \in Node : Ahead(r, a, x) = Ahead(r, a, y) => x = y
      /\ \A x \in Node : f[x] = a \/ Ahead(r, a, f[x]) = Ahead(r, a, x) + 1
  BY DEF CountsSteps
<1> DEFINE d == [x \in Node |-> Ahead(r, a, x)]
<1>3. d \in [Node -> Nat]
  BY <1>1, <1>2
<1>4. \A x \in Node : d[x] = Ahead(r, a, x)
  OBVIOUS
<1>5. d[a] = 0 /\ \A x, y \in Node : d[x] = d[y] => x = y
  BY <1>2, <1>4
<1>6. \A x \in Node : f[x] = a \/ d[f[x]] = d[x] + 1
  BY <1>1, <1>2, <1>4
<1> HIDE DEF d
<1>7. OnPath(f, a, b, c) <=> d[b] <= d[c]
  BY <1>3, <1>5, <1>6, PathByDistance
<1> QED
  BY <1>4, <1>7

\* And there are as many of them as steps to c, and a.
LEMMA PathLength ==
    ASSUME NEW f, f \in [Node -> Node], NEW r, Consecutive(f, r),
           NEW a \in Node, NEW c \in Node
    PROVE  Cardinality({x \in Node : Ahead(r, a, x) <= Ahead(r, a, c)})
               = Ahead(r, a, c) + 1
<1> CountsSteps(f, r, a)
  BY AheadSteps
<1>1. /\ N \in Nat /\ IsFiniteSet(Node)
      /\ \A x \in Node : Ahead(r, a, x) \in 0..(N-1)
      /\ \A x, y \in Node : Ahead(r, a, x) = Ahead(r, a, y) => x = y
  BY NodeAssumption, NType DEF CountsSteps
<1> DEFINE d == [x \in Node |-> Ahead(r, a, x)]
           k == Ahead(r, a, c)
           S == {x \in Node : Ahead(r, a, x) <= k}
           e == [x \in S |-> Ahead(r, a, x)]
<1>2. k \in 0..(N-1)
  BY <1>1
\* Every number of steps leads to some node.
<1>3. \A i \in 0..(N-1) : \E x \in Node : Ahead(r, a, x) = i
  <2>1. d \in Injection(Node, 0..(N-1))
    BY <1>1 DEF Injection, IsInjective
  <2>2. IsFiniteSet(0..(N-1)) /\ Cardinality(0..(N-1)) = N
    <3>1. N # 0
      BY <1>2
    <3> QED
      BY <1>1, <3>1, FS_Interval
  <2>3. d \in Surjection(Node, 0..(N-1))
    BY <2>1, <2>2, FS_Injection DEF N
  <2> QED
    BY <2>3 DEF Surjection
<1>4. e \in Bijection(S, 0..k)
  <2>1. e \in [S -> 0..k]
    BY <1>1, <1>2
  <2>2. e \in Injection(S, 0..k)
    BY <1>1, <2>1 DEF Injection, IsInjective
  <2>3. ASSUME NEW i \in 0..k PROVE \E x \in S : e[x] = i
    <3>1. i \in 0..(N-1) /\ i <= k
      BY <1>1, <1>2
    <3> QED
      BY <1>3, <3>1
  <2>4. e \in Surjection(S, 0..k)
    BY <2>1, <2>3 DEF Surjection
  <2> QED
    BY <2>2, <2>4 DEF Bijection
<1>5. IsFiniteSet(S)
  BY <1>1, FS_Subset
<1>6. Cardinality(S) = Cardinality(0..k)
  <2>1. ExistsBijection(S, 0..k)
    BY <1>4 DEF ExistsBijection
  <2> HIDE DEF S, k, e
  <2> QED
    BY <1>5, <2>1, FS_Bijection
<1>7. Cardinality(0..k) = k + 1
  BY <1>2, FS_Interval
<1> QED
  BY <1>6, <1>7

\* In either direction of the tour, Between and SegmentSize compare steps ahead.
LEMMA SeenRanks ==
    ASSUME IInv, RankInv, Idle
    PROVE  \E q : /\ Consecutive(SUC, q) /\ IsTour(SUC)
                  /\ \A a, b, c \in Node :
                        Between(a, b, c) <=> Ahead(q, a, b) <= Ahead(q, a, c)
                  /\ \A a, b \in Node : SegmentSize(a, b) = Ahead(q, a, b) + 1
<1>1. IsList(suc, prd) /\ Consecutive(suc, rank)
  BY DEF Idle, IInv, ListInv, RankInv
<1>2. IsList(SUC, PRD) /\ SUC = IF reversed THEN prd ELSE suc
  BY <1>1, SeenList
<1>3. /\ N \in Nat /\ rank \in [Node -> Int]
      /\ \A x, y \in Node : rank[x] - rank[y] < N
      /\ \A x, y \in Node : rank[x] = rank[y] => x = y
  BY <1>1, NType DEF Consecutive
<1> PICK p \in [Node -> Int] : p = rank
  BY <1>3
<1> DEFINE q == IF reversed THEN [x \in Node |-> -p[x]] ELSE p
<1>4. Consecutive(SUC, q)
  BY <1>1, <1>2, BackwardsConsecutive
<1>5. \A x \in Node : q[x] = IF reversed THEN -p[x] ELSE p[x]
  OBVIOUS
<1> HIDE DEF q
<1>6. ASSUME NEW a \in Node, NEW b \in Node, NEW c \in Node
      PROVE  Between(a, b, c) <=> Ahead(q, a, b) <= Ahead(q, a, c)
  <2>1. /\ p[a] \in Int /\ p[b] \in Int /\ p[c] \in Int
        /\ p[a] - p[b] < N /\ p[b] - p[a] < N /\ p[a] - p[c] < N
        /\ p[c] - p[a] < N /\ p[b] - p[c] < N /\ p[c] - p[b] < N
    BY <1>3
  <2>2. CASE reversed
    BY <1>3, <1>5, <2>1, <2>2 DEF Between, Ahead
  <2>3. CASE ~reversed
    BY <1>3, <1>5, <2>1, <2>3 DEF Between, Ahead
  <2> QED
    BY <2>2, <2>3
<1>7. ASSUME NEW a \in Node, NEW b \in Node
      PROVE  SegmentSize(a, b) = Ahead(q, a, b) + 1
  BY <1>3, <1>5 DEF SegmentSize, Ahead
<1> QED
  BY <1>2, <1>4, <1>6, <1>7 DEF IsList

\* BETWEEN, answered from ranks alone and in either direction, is what it is on
\* the tour, after any number of moves, undone moves and changes of direction.
THEOREM BetweenCorrect == Spec => []BetweenIsOnPath
<1>1. IInv /\ RankInv => BetweenIsOnPath
  BY SeenRanks, PathByRanks DEF BetweenIsOnPath
<1> QED
  BY <1>1, Invariance, RanksFollowTour, PTL

\* SegmentSize is the number of nodes on the path, for every two nodes.
THEOREM SegmentSizeCorrect == Spec => []SegmentSizeIsExact
<1>1. IInv /\ RankInv => SegmentSizeIsExact
  <2> SUFFICES ASSUME IInv, RankInv, Idle, NEW ta \in Node, NEW tb \in Node
               PROVE  SegmentSize(ta, tb)
                        = Cardinality({t \in Node : OnPath(SUC, ta, t, tb)})
    BY DEF SegmentSizeIsExact
  <2>1. PICK q : /\ Consecutive(SUC, q) /\ IsTour(SUC)
                 /\ SegmentSize(ta, tb) = Ahead(q, ta, tb) + 1
    BY SeenRanks
  <2>2. {t \in Node : OnPath(SUC, ta, t, tb)}
          = {x \in Node : Ahead(q, ta, x) <= Ahead(q, ta, tb)}
    BY <2>1, PathByRanks
  <2> QED
    BY <2>1, <2>2, PathLength DEF IsTour
<1> QED
  BY <1>1, Invariance, RanksFollowTour, PTL

-----------------------------------------------------------------------------
(***************************************************************************)
(* RestoreTour of ListTour for every set of nodes and every number of      *)
(* moves: the moves since the check point are undone, those before it are  *)
(* not, and the caller finds the tour in the direction it had.             *)
(*                                                                         *)
(* The stack holds moves, not tours.  The inductive invariant supplies the *)
(* tours: a history that begins with the tour last kept, each tour made    *)
(* from the one before by the record above it, and ends with the tour that *)
(* is there.  The record of a move says enough to undo it even when moves  *)
(* made and undone since have left the tour in the other direction.        *)
(***************************************************************************)

\* The edges E after the move r.
AfterMove(E, r) == (E \ {{r[1], r[2]}, {r[3], r[4]}}) \cup {{r[2], r[3]}, {r[4], r[1]}}

\* The move r has made the tour k of one with the edges E.
Moved(E, k, r) ==
    /\ r \in Move
    /\ r[1] # r[3] /\ r[2] # r[4] /\ r[1] # r[2] /\ r[3] # r[4]
    /\ {r[1], r[2]} \in E /\ {r[3], r[4]} \in E
    /\ {r[2], r[3]} \notin E /\ {r[4], r[1]} \notin E
    /\ Edges(k) = AfterMove(E, r)
    /\ k[r[3]] = r[2] /\ k[r[4]] = r[1]

\* The records that have made the present tour: between a move of RestoreTour and
\* the pop that drops its record, the top is not one of them.
Made == IF undo.running /\ ~undo.odd /\ ~flip.running THEN Popped ELSE stack

\* The edges there are; while Flip runs for RestoreTour, those there will be.
Now == IF ~flip.running THEN Edges(suc)
       ELSE IF undo.running THEN AfterMove(Edges(flip.oldSuc), flip.t)
       ELSE Edges(flip.oldSuc)

\* The whole chain is being given up: the check point means nothing any more.
GivenUp == undo.running /\ undo.t1 = NIL

\* h are the tours since the one last kept.
TourHistory(h) ==
    /\ h \in [0..Len(Made) -> Tours]
    /\ Edges(h[0]) = kept
    /\ \A i \in 1..Len(Made) : Moved(Edges(h[i-1]), h[i], Made[i])
    /\ Edges(h[Len(Made)]) = Now
    /\ IF GivenUp THEN checkPoint = 0 ELSE Edges(mark) = Edges(h[checkPoint])

RestoreInv ==
    /\ checkPoint <= Len(Made)
    /\ undo.running /\ ~undo.odd /\ ~flip.running => stack # <<>>
    /\ undo.running /\ flip.running => ~undo.odd
    /\ mark \in Tours
    /\ \E h \in [0..Len(Made) -> Tours] : TourHistory(h)

-----------------------------------------------------------------------------
(* Tours, moves and records. *)

\* A node is followed by itself only where there is no other.
LEMMA NoLoop ==
    ASSUME NEW f, IsTour(f), NEW x \in Node, f[x] = x, NEW y \in Node
    PROVE  y = x
<1>1. {x} \in SUBSET Node /\ {x} # {} /\ \A z \in {x} : f[z] \in {x}
  OBVIOUS
<1>2. {x} = Node
  BY <1>1 DEF IsTour, SingleCycle
<1> QED
  BY <1>2

\* The end of Flip has moved.
LEMMA FlipMoved ==
    ASSUME NEW f, NEW g, NEW k, NEW r, IsList(f, g), ProperMove(f, g, r),
           k = NewSuc(f, g, flip.done, r[1], r[2], r[3], r[4]), k \in [Node -> Node],
           TwoOptMove(f, k, r[1], r[2], r[3], r[4])
    PROVE  Moved(Edges(f), k, r)
<1>1. /\ r \in Move
      /\ r[1] \in Node /\ r[2] \in Node /\ r[3] \in Node /\ r[4] \in Node
      /\ f[r[1]] = r[2] /\ f[r[4]] = r[3] /\ g[r[2]] = r[1] /\ g[r[3]] = r[4]
      /\ r[3] # r[2] /\ r[3] # f[r[2]] /\ r[3] # g[r[2]]
      /\ f \in [Node -> Node] /\ g \in [Node -> Node] /\ Inverses(f, g)
  BY DEF IsList, IsTour, ProperMove, Move, Inverses
<1>2. r[1] # r[3] /\ r[2] # r[4] /\ r[1] # r[4] /\ r[1] # r[2] /\ r[3] # r[4]
  BY <1>1, NoLoop DEF IsList
<1>3. {r[2], r[3]} \notin Edges(f)
  <2> SUFFICES ASSUME NEW x \in Node, {r[2], r[3]} = {x, f[x]} PROVE FALSE
    BY DEF Edges
  <2>1. (x = r[2] /\ f[x] = r[3]) \/ (x = r[3] /\ f[x] = r[2])
    BY <1>1
  <2> QED
    BY <1>1, <2>1 DEF Inverses
<1>4. {r[4], r[1]} \notin Edges(f)
  <2> SUFFICES ASSUME NEW x \in Node, {r[4], r[1]} = {x, f[x]} PROVE FALSE
    BY DEF Edges
  <2>1. (x = r[4] /\ f[x] = r[1]) \/ (x = r[1] /\ f[x] = r[4])
    BY <1>2
  <2> QED
    BY <1>1, <2>1 DEF Inverses
<1>5. k[r[3]] = r[2] /\ k[r[4]] = r[1]
  <2> QED
    BY <1>1, <1>2 DEF NewSuc
<1> QED
  BY <1>1, <1>2, <1>3, <1>4, <1>5 DEF Moved, TwoOptMove, AfterMove

\* The move that RestoreTour makes for a record goes through, and takes the edges
\* back to what they were, whichever direction the tour has now.
LEMMA UndoesRecord ==
    ASSUME NEW E, NEW k \in Tours, NEW r, Moved(E, k, r),
           IsList(suc, prd), Edges(suc) = Edges(k)
    PROVE  /\ Exchangeable(r[3], r[2], r[1])
           /\ AfterMove(Edges(suc), Shorter(Forward(r[3], r[2], r[1]))) = E
<1>1. /\ r[1] \in Node /\ r[2] \in Node /\ r[3] \in Node /\ r[4] \in Node
      /\ k[r[3]] = r[2] /\ k[r[4]] = r[1]
      /\ r[1] # r[3] /\ r[2] # r[4] /\ r[1] # r[2]
      /\ suc \in [Node -> Node] /\ prd \in [Node -> Node] /\ Inverses(suc, prd)
  BY DEF Moved, Move, IsList, IsTour
<1>2. k = suc \/ k = prd
  BY SameEdges DEF Tours, IsList
<1>3. {r[1], r[2]} \notin Edges(suc)
  <2>1. {r[1], r[2]} # {r[2], r[3]} /\ {r[1], r[2]} # {r[4], r[1]}
    BY <1>1
  <2> QED
    BY <2>1 DEF Moved, AfterMove
<1>4. r[1] # suc[r[2]] /\ r[1] # prd[r[2]]
  <2>1. {r[2], suc[r[2]]} \in Edges(suc) /\ {prd[r[2]], suc[prd[r[2]]]} \in Edges(suc)
    BY <1>1 DEF Edges
  <2>2. suc[prd[r[2]]] = r[2]
    BY <1>1 DEF Inverses
  <2>3. {r[1], r[2]} = {r[2], r[1]}
    OBVIOUS
  <2> QED
    BY <1>3, <2>1, <2>2, <2>3
<1>5. Exchangeable(r[3], r[2], r[1])
  <2>1. suc[r[3]] = r[2] \/ prd[r[3]] = r[2]
    BY <1>1, <1>2
  <2> QED
    BY <1>1, <1>4, <2>1 DEF Exchangeable
\* Forward names the four nodes of the record, whichever way the tour goes.
<1>6. \/ Forward(r[3], r[2], r[1]) = <<r[3], r[2], r[1], r[4]>>
      \/ Forward(r[3], r[2], r[1]) = <<r[2], r[3], r[4], r[1]>>
  <2>1. CASE suc[r[3]] = r[2]
    <3>1. k = suc
      BY <1>1, <2>1, SameEdges DEF Tours, IsList
    <3>2. prd[r[1]] = r[4]
      BY <1>1, <3>1 DEF Inverses
    <3> QED
      BY <2>1, <3>2 DEF Forward
  <2>2. CASE suc[r[3]] # r[2]
    <3>1. k = prd
      BY <1>1, <1>2, <2>2
    <3>2. suc[r[1]] = r[4]
      BY <1>1, <3>1 DEF Inverses
    <3> QED
      BY <2>2, <3>2 DEF Forward
  <2> QED
    BY <2>1, <2>2
<1> DEFINE t == Shorter(Forward(r[3], r[2], r[1]))
<1>7. \/ t = <<r[3], r[2], r[1], r[4]>> \/ t = <<r[2], r[3], r[4], r[1]>>
      \/ t = <<r[4], r[1], r[2], r[3]>> \/ t = <<r[1], r[4], r[3], r[2]>>
  <2> DEFINE q == Forward(r[3], r[2], r[1])
  <2>1. t = q \/ t = <<q[4], q[3], q[2], q[1]>>
    BY Zenon DEF Shorter
  <2> HIDE DEF q, t
  <2>2. CASE q = <<r[3], r[2], r[1], r[4]>>
    BY <2>1, <2>2
  <2>3. CASE q = <<r[2], r[3], r[4], r[1]>>
    BY <2>1, <2>3
  <2> QED
    BY <1>6, <2>2, <2>3 DEF q
<1>8. AfterMove(Edges(suc), t)
        = (Edges(suc) \ {{r[2], r[3]}, {r[4], r[1]}}) \cup {{r[1], r[2]}, {r[3], r[4]}}
  BY <1>7 DEF AfterMove
<1>9. Edges(suc) = (E \ {{r[1], r[2]}, {r[3], r[4]}}) \cup {{r[2], r[3]}, {r[4], r[1]}}
  BY DEF Moved, AfterMove
<1>10. (Edges(suc) \ {{r[2], r[3]}, {r[4], r[1]}}) \cup {{r[1], r[2]}, {r[3], r[4]}} = E
  BY <1>9 DEF Moved
<1> QED
  BY <1>5, <1>8, <1>10

-----------------------------------------------------------------------------
(* The inductive invariant. *)

LEMMA MadeType ==
    ASSUME TypeOK, RestoreInv
    PROVE  Made \in Seq(Move) /\ Len(Made) \in Nat /\ checkPoint \in 0..Len(Made)
BY DEF TypeOK, RestoreInv, Made, Popped

LEMMA PoppedFacts ==
    ASSUME stack \in Seq(Move), stack # <<>>
    PROVE  /\ Len(stack) \in Nat \ {0} /\ Popped \in Seq(Move)
           /\ Len(Popped) = Len(stack) - 1
           /\ \A i \in 1..(Len(stack) - 1) : Popped[i] = stack[i]
<1>1. Len(stack) \in Nat /\ Len(stack) # 0
  OBVIOUS
<1>2. Popped = [i \in 1..(Len(stack) - 1) |-> stack[i]]
  BY <1>1 DEF Popped
<1>3. \A i \in 1..(Len(stack) - 1) : stack[i] \in Move
  BY <1>1
<1> QED
  BY <1>1, <1>2, <1>3

\* A step that makes and drops no move, and at most sets the check point here.
LEMMA SameHistory ==
    ASSUME TypeOK, RestoreInv, Made' = Made, Now' = Now, kept' = kept,
           undo'.running /\ ~undo'.odd /\ ~flip'.running => stack' # <<>>,
           undo'.running /\ flip'.running => ~undo'.odd,
           mark' \in Tours, checkPoint' \in 0..Len(Made),
           IF GivenUp' THEN checkPoint' = 0
           ELSE \/ ~GivenUp /\ Edges(mark') = Edges(mark) /\ checkPoint' = checkPoint
                \/ Edges(mark') = Now /\ checkPoint' = Len(Made)
    PROVE  RestoreInv'
<1>1. PICK h \in [0..Len(Made) -> Tours] : TourHistory(h)
  BY DEF RestoreInv
<1>2. /\ Edges(h[0]) = kept /\ Edges(h[Len(Made)]) = Now
      /\ \A i \in 1..Len(Made) : Moved(Edges(h[i-1]), h[i], Made[i])
      /\ ~GivenUp => Edges(mark) = Edges(h[checkPoint])
  BY <1>1 DEF TourHistory
<1>3. IF GivenUp' THEN checkPoint' = 0 ELSE Edges(mark') = Edges(h[checkPoint'])
  BY <1>2
<1>4. TourHistory(h)'
  BY <1>1, <1>2, <1>3 DEF TourHistory
<1>5. checkPoint' <= Len(Made)
  BY MadeType
<1> QED
  BY <1>4, <1>5 DEF RestoreInv

\* The end of a move of the search: its tour is added to the history.
LEMMA MoveAdds ==
    ASSUME IInv, IInv', RestoreInv, EndFlip, ~undo.running
    PROVE  RestoreInv'
<1> DEFINE n == Len(stack)
<1>1. PICK h \in [0..Len(Made) -> Tours] : TourHistory(h)
  BY DEF RestoreInv
<1>2. /\ Made = stack /\ Made' = Append(stack, flip.t) /\ stack \in Seq(Move) /\ n \in Nat
      /\ flip.t \in Move /\ ~GivenUp /\ ~GivenUp' /\ ~undo'.running
      /\ UNCHANGED <<checkPoint, kept, mark>>
  <2>1. flip.t \in Move
    BY EndFlipMove DEF ProperMove
  <2> QED
    BY <2>1 DEF EndFlip, Made, GivenUp, past, IInv, TypeOK
<1>3. Now = Edges(flip.oldSuc) /\ Now' = Edges(suc')
  BY <1>2 DEF Now, EndFlip, NoFlip
<1>4. /\ suc' \in Tours
      /\ Moved(Edges(flip.oldSuc), suc', flip.t)
  <2>1. suc' \in [Node -> Node] /\ IsTour(suc')
    BY EndFlipMove DEF IsList, IsTour
  <2> QED
    BY <2>1, EndFlipMove, FlipMoved DEF Tours
<1>5. /\ Edges(h[0]) = kept /\ Edges(h[n]) = Now
      /\ \A i \in 1..n : Moved(Edges(h[i-1]), h[i], stack[i])
      /\ Edges(mark) = Edges(h[checkPoint])
  BY <1>1, <1>2 DEF TourHistory
<1>6. checkPoint \in 0..n
  BY <1>2, MadeType DEF IInv
<1> PICK k \in [0..(n+1) -> Tours] : k = [i \in 0..(n+1) |-> IF i <= n THEN h[i] ELSE suc']
  <2>1. \A i \in 0..(n+1) : i <= n => h[i] \in Tours
    BY <1>2
  <2> QED
    BY <1>4, <2>1
<1>7. Len(Made') = n + 1 /\ Made'[n+1] = flip.t /\ \A i \in 1..n : Made'[i] = stack[i]
  BY <1>2
<1>8. k[n+1] = suc' /\ \A i \in 0..n : k[i] = h[i]
  BY <1>2
<1>9. ASSUME NEW i \in 1..(n+1) PROVE Moved(Edges(k[i-1]), k[i], Made'[i])
  <2>1. CASE i \in 1..n
    <3>1. i-1 \in 0..n /\ i \in 0..n
      BY <1>2, <2>1
    <3> QED
      BY <1>5, <1>7, <1>8, <2>1, <3>1
  <2>2. CASE i = n+1
    <3>1. i-1 = n /\ n \in 0..n
      BY <1>2, <2>2
    <3> QED
      BY <1>3, <1>4, <1>5, <1>7, <1>8, <2>2, <3>1
  <2> QED
    BY <1>2, <2>1, <2>2
<1>10. /\ Edges(k[0]) = kept' /\ Edges(k[n+1]) = Now'
       /\ Edges(mark') = Edges(k[checkPoint'])
  BY <1>2, <1>3, <1>5, <1>6, <1>8
<1>11. TourHistory(k)'
  BY <1>2, <1>7, <1>9, <1>10 DEF TourHistory
<1>12. checkPoint' <= n + 1 /\ mark' \in Tours
  BY <1>2, <1>6 DEF RestoreInv
<1> QED
  BY <1>2, <1>7, <1>11, <1>12 DEF RestoreInv

\* An odd pop: the flip it starts will lead back to the tour before.
LEMMA UndoTakesBack ==
    ASSUME IInv, IInv', RestoreInv, UndoMove
    PROVE  RestoreInv'
<1> DEFINE n == Len(stack)
<1>1. PICK h \in [0..Len(Made) -> Tours] : TourHistory(h)
  BY DEF RestoreInv
<1>2. /\ undo.running /\ undo.odd /\ ~flip.running /\ n > checkPoint
      /\ stack' = Popped /\ stack \in Seq(Move) /\ stack # <<>> /\ Top \in Move
      /\ checkPoint \in Nat
      /\ undo' = [undo EXCEPT !.odd = FALSE] /\ UNCHANGED <<checkPoint, kept, mark>>
  BY StackNotEmpty, PoppedType DEF UndoMove, Popping, past, IInv, TypeOK
<1>3. undo'.running /\ ~undo'.odd /\ undo'.t1 = undo.t1
  BY <1>2 DEF IInv, TypeOK, NoUndo
<1>4. /\ Made = stack /\ n \in Nat \ {0} /\ Len(Popped) = n - 1 /\ Popped \in Seq(Move)
      /\ \A i \in 1..(n-1) : Popped[i] = stack[i]
  <2>1. Made = stack
    BY <1>2 DEF Made
  <2> QED
    BY <1>2, <2>1, PoppedFacts
<1>5. /\ Edges(h[0]) = kept /\ Edges(h[n]) = Edges(suc)
      /\ \A i \in 1..n : Moved(Edges(h[i-1]), h[i], stack[i])
      /\ ~GivenUp => Edges(mark) = Edges(h[checkPoint])
      /\ GivenUp => checkPoint = 0
  BY <1>1, <1>2, <1>4 DEF TourHistory, Now
<1>6. IsList(suc, prd)
  BY <1>2 DEF IInv, ListInv
<1>7. /\ Exchangeable(Top[3], Top[2], Top[1])
      /\ AfterMove(Edges(suc), Shorter(Forward(Top[3], Top[2], Top[1]))) = Edges(h[n-1])
  <2>1. Moved(Edges(h[n-1]), h[n], Top) /\ h[n] \in Tours
    BY <1>4, <1>5 DEF Top
  <2> QED
    BY <1>5, <1>6, <2>1, UndoesRecord
<1>8. StartFlip(Top[3], Top[2], Top[1])
  BY <1>7 DEF UndoMove
<1>9. /\ flip'.running /\ flip'.oldSuc = suc
      /\ flip'.t = Shorter(Forward(Top[3], Top[2], Top[1]))
  BY <1>8 DEF StartFlip
<1>10. Made' = Popped /\ Now' = Edges(h[n-1]) /\ (GivenUp' <=> GivenUp)
  BY <1>2, <1>3, <1>7, <1>9 DEF Made, Now, GivenUp
<1> PICK k \in [0..(n-1) -> Tours] : k = [i \in 0..(n-1) |-> h[i]]
  BY <1>4
<1>11. \A i \in 0..(n-1) : k[i] = h[i]
  OBVIOUS
<1>12. ASSUME NEW i \in 1..(n-1) PROVE Moved(Edges(k[i-1]), k[i], Popped[i])
  <2>1. i-1 \in 0..(n-1) /\ i \in 0..(n-1) /\ i \in 1..n
    BY <1>4
  <2> QED
    BY <1>4, <1>5, <1>11, <2>1
<1>13. checkPoint \in 0..(n-1) /\ 0 \in 0..(n-1) /\ n-1 \in 0..(n-1)
  BY <1>2, <1>4
<1>14. TourHistory(k)'
  BY <1>2, <1>4, <1>5, <1>10, <1>11, <1>12, <1>13 DEF TourHistory
<1>15. checkPoint' <= n - 1 /\ mark' \in Tours
  BY <1>2, <1>13 DEF RestoreInv
<1> QED
  BY <1>3, <1>4, <1>9, <1>10, <1>14, <1>15 DEF RestoreInv

\* The end of a move of RestoreTour: the record pushed is not one of those made.
LEMMA UndoPushes ==
    ASSUME IInv, RestoreInv, EndFlip, undo.running
    PROVE  RestoreInv'
<1>1. /\ flip.running /\ ~flip'.running /\ ~undo.odd /\ stack \in Seq(Move)
      /\ flip.t \in Move /\ stack' = Append(stack, flip.t) /\ undo' = undo
      /\ UNCHANGED <<checkPoint, kept, mark>>
  <2>1. flip.t \in Move
    BY EndFlipMove DEF ProperMove
  <2> QED
    BY <2>1 DEF EndFlip, NoFlip, past, IInv, TypeOK, RestoreInv
<1>2. Made = stack /\ Made' = stack
  <2>1. SubSeq(stack', 1, Len(stack') - 1) = stack
    BY <1>1
  <2> QED
    BY <1>1, <2>1 DEF Made, Popped
<1>3. Now' = Now
  <2>1. Edges(suc') = AfterMove(Edges(flip.oldSuc), flip.t)
    BY EndFlipMove DEF TwoOptMove, AfterMove
  <2> QED
    BY <1>1, <2>1 DEF Now
<1>4. stack' # <<>>
  BY <1>1
<1>5. mark' \in Tours /\ checkPoint' \in 0..Len(Made)
  BY <1>1, MadeType DEF RestoreInv, IInv
<1>6. IF GivenUp' THEN checkPoint' = 0
      ELSE ~GivenUp /\ Edges(mark') = Edges(mark) /\ checkPoint' = checkPoint
  BY <1>1 DEF GivenUp, RestoreInv, TourHistory
<1> QED
  BY <1>1, <1>2, <1>3, <1>4, <1>5, <1>6, SameHistory DEF IInv

\* While the list stays and no move is made, Now stays.
LEMMA SameNow ==
    ASSUME IInv, ~flip.running, ~flip'.running, suc' = suc \/ suc' = SUC
    PROVE  Now' = Now
<1>1. Edges(SUC) = Edges(suc)
  BY SeenList DEF IInv, ListInv
<1> QED
  BY <1>1 DEF Now

\* The check point or the mark of the present tour.
LEMMA SeenTours ==
    ASSUME IInv, ~flip.running
    PROVE  /\ SUC \in Tours /\ PRD \in Tours
           /\ Edges(SUC) = Edges(suc) /\ Edges(PRD) = Edges(suc)
<1>1. IsList(suc, prd) /\ IsList(SUC, PRD) /\ Edges(SUC) = Edges(suc)
  BY SeenList DEF IInv, ListInv
<1>2. IsTour(PRD) /\ Edges(PRD) = Edges(SUC)
  BY <1>1, InverseIsTour, InverseEdges DEF IsList, IsTour
<1> QED
  BY <1>1, <1>2 DEF IsList, IsTour, Tours

\* Every step keeps the invariant.
LEMMA NextRestore ==
    ASSUME IInv, IInv', RestoreInv, [Next]_vars
    PROVE  RestoreInv'
<1>1. /\ Made \in Seq(Move) /\ checkPoint \in 0..Len(Made) /\ Len(Made) \in Nat
      /\ mark \in Tours
  BY MadeType DEF IInv, RestoreInv
<1>2. CASE ReverseNode
  <2>1. /\ flip.running /\ flip'.running
        /\ flip'.oldSuc = flip.oldSuc /\ flip'.t = flip.t
    <3>1. flip \in [running : {TRUE}, t : Move, s1 : Node \cup {NIL},
                    newRank : Int, oldSuc : [Node -> Node],
                    oldPrd : [Node -> Node], done : SUBSET Node]
      <4>1. flip # NoFlip
        BY <1>2 DEF ReverseNode, NoFlip
      <4> QED
        BY <4>1 DEF IInv, TypeOK
    <3> QED
      BY <1>2, <3>1 DEF ReverseNode
  <2>2. UNCHANGED <<stack, undo, checkPoint, kept, mark>>
    BY <1>2 DEF ReverseNode, past
  <2>3. Made' = Made /\ Now' = Now /\ (GivenUp' <=> GivenUp)
    BY <2>1, <2>2 DEF Made, Now, GivenUp
  <2>4. GivenUp => checkPoint = 0
    BY DEF RestoreInv, TourHistory
  <2> QED
    BY <1>1, <2>1, <2>2, <2>3, <2>4, SameHistory DEF IInv, RestoreInv
<1>3. CASE EndFlip
  BY <1>3, MoveAdds, UndoPushes
<1>4. CASE UndoMove
  BY <1>4, UndoTakesBack
<1>5. CASE DropInverse
  <2>1. /\ undo.running /\ ~undo.odd /\ ~flip.running /\ ~flip'.running
        /\ stack' = Popped /\ suc' = suc
        /\ UNCHANGED <<checkPoint, kept, mark>>
    BY <1>5 DEF DropInverse, Popping, list, past
  <2>2. undo'.running /\ undo'.odd /\ undo'.t1 = undo.t1
    BY <1>5, <2>1 DEF DropInverse, IInv, TypeOK, NoUndo
  <2>3. Made' = Made /\ Now' = Now /\ (GivenUp' <=> GivenUp)
    BY <2>1, <2>2, SameNow DEF Made, GivenUp
  <2>4. GivenUp => checkPoint = 0
    BY DEF RestoreInv, TourHistory
  <2> QED
    BY <1>1, <2>1, <2>2, <2>3, <2>4, SameHistory DEF IInv
<1>6. CASE EndRestore
  <2>1. /\ undo.running /\ ~flip.running /\ ~flip'.running /\ ~undo'.running
        /\ Len(stack) <= checkPoint /\ suc' = suc
        /\ mark' = IF undo.t1 = NIL THEN SUC ELSE mark
        /\ UNCHANGED <<stack, checkPoint, kept>>
    BY <1>6 DEF EndRestore, list, NoUndo
  <2>2. Made = stack
    <3> SUFFICES ASSUME ~undo.odd PROVE FALSE
      BY DEF Made
    <3>1. stack # <<>> /\ stack \in Seq(Move) /\ Made = Popped
      BY <2>1 DEF RestoreInv, Made, IInv, TypeOK
    <3>2. Len(Made) = Len(stack) - 1 /\ Len(stack) \in Nat
      BY <3>1, PoppedFacts
    <3> QED
      BY <1>1, <2>1, <3>2
  <2>3. Made' = Made /\ Now' = Now /\ Now = Edges(suc)
    BY <2>1, <2>2, SameNow DEF Made, Now
  <2>4. CASE undo.t1 = NIL
    <3>1. checkPoint = Len(Made)
      BY <1>1, <2>1, <2>2
    <3>2. mark' \in Tours /\ Edges(mark') = Now
      BY <2>1, <2>3, <2>4, SeenTours
    <3> QED
      BY <1>1, <2>1, <2>3, <3>1, <3>2, SameHistory DEF IInv, GivenUp
  <2>5. CASE undo.t1 # NIL
    BY <1>1, <2>1, <2>3, <2>5, SameHistory DEF IInv, GivenUp
  <2> QED
    BY <2>4, <2>5
\* The remaining actions are taken between calls, where no record is undone.
<1>7. ASSUME ~flip.running, ~flip'.running, ~undo.running, ~undo'.running,
             stack' = stack, kept' = kept, suc' = suc \/ suc' = SUC,
             \/ checkPoint' = checkPoint /\ mark' = mark
             \/ checkPoint' = Len(stack) /\ mark' \in {SUC, PRD}
      PROVE  RestoreInv'
  <2>1. Made = stack /\ Made' = stack /\ Now' = Now /\ Now = Edges(suc)
        /\ ~GivenUp /\ ~GivenUp'
    BY <1>7, SameNow DEF Made, Now, GivenUp
  <2>2. CASE checkPoint' = checkPoint /\ mark' = mark
    BY <1>1, <1>7, <2>1, <2>2, SameHistory DEF IInv
  <2>3. CASE checkPoint' = Len(stack) /\ mark' \in {SUC, PRD}
    <3>1. mark' \in Tours /\ Edges(mark') = Now
      BY <1>7, <2>1, <2>3, SeenTours
    <3>2. checkPoint' \in 0..Len(Made)
      BY <1>1, <2>1, <2>3
    <3> QED
      BY <1>7, <2>1, <2>3, <3>1, <3>2, SameHistory DEF IInv
  <2> QED
    BY <1>7, <2>2, <2>3
<1>8. CASE Reenter
  BY <1>7, <1>8 DEF Reenter, Idle
<1>9. CASE Turn
  BY <1>7, <1>9 DEF Turn, Idle, list
<1>10. ASSUME NEW t1 \in Callers, NEW t2 \in Node, BestMove(t1, t2)
       PROVE  RestoreInv'
  BY <1>7, <1>10 DEF BestMove, Idle, list
<1>11. ASSUME NEW t1 \in Node, NEW t2 \in Node, NEW t3 \in Node, Swap1(t1, t2, t3)
       PROVE  RestoreInv'
  <2>1. /\ ~flip.running /\ ~undo.running /\ flip'.running /\ flip'.oldSuc = suc
        /\ UNCHANGED <<stack, undo, checkPoint, kept, mark>>
    BY <1>11 DEF Swap1, Idle, StartFlip, past
  <2>2. Made' = Made /\ Now' = Now /\ ~GivenUp /\ ~GivenUp'
    BY <2>1 DEF Made, Now, GivenUp
  <2> QED
    BY <1>1, <2>1, <2>2, SameHistory DEF IInv
<1>12. CASE StoreTour
  <2>1. /\ ~flip'.running /\ ~undo'.running /\ stack' = <<>> /\ checkPoint' = 0
        /\ kept' = Edges(SUC) /\ mark' = SUC /\ suc' = suc
        /\ SUC \in Tours /\ Edges(SUC) = Edges(suc)
    BY <1>12, SeenTours DEF StoreTour, Idle, list
  <2>2. Made' = <<>> /\ Now' = Edges(suc) /\ ~GivenUp'
    BY <2>1 DEF Made, Now, GivenUp
  <2> PICK h \in [0..0 -> Tours] : h = [i \in 0..0 |-> SUC]
    BY <2>1
  <2>3. h[0] = SUC
    OBVIOUS
  <2>4. Len(Made') = 0
    BY <2>2
  <2>5. TourHistory(h)'
    BY <2>1, <2>2, <2>3, <2>4 DEF TourHistory
  <2> QED
    BY <2>1, <2>4, <2>5 DEF RestoreInv
<1>13. ASSUME NEW t1 \in Callers \cup {NIL}, RestoreTour(t1)
       PROVE  RestoreInv'
  <2>1. /\ ~flip.running /\ ~undo.running /\ ~flip'.running /\ suc' = suc
        /\ undo'.running /\ undo'.odd /\ undo'.t1 = t1
        /\ checkPoint' = IF t1 = NIL THEN 0 ELSE checkPoint
        /\ UNCHANGED <<stack, kept, mark>>
    BY <1>13 DEF RestoreTour, Idle, list, past
  <2>2. Made' = Made /\ Now' = Now /\ ~GivenUp /\ (GivenUp' <=> t1 = NIL)
    BY <2>1, SameNow DEF Made, GivenUp
  <2> QED
    BY <1>1, <2>1, <2>2, SameHistory DEF IInv
<1>14. CASE UNCHANGED vars
  BY <1>14 DEF vars, RestoreInv, TourHistory, Made, Popped, Now, GivenUp
<1> QED
  BY <1>2, <1>3, <1>4, <1>5, <1>6, <1>8, <1>9, <1>10, <1>11, <1>12, <1>13, <1>14
     DEF Next, Loop

\* The search begins with the tour that is kept, and no moves.
LEMMA InitRestore == Init => RestoreInv
<1> SUFFICES ASSUME Init PROVE RestoreInv
  OBVIOUS
<1>1. /\ suc \in Tours /\ stack = <<>> /\ checkPoint = 0
      /\ ~flip.running /\ ~undo.running /\ kept = Edges(suc) /\ mark = suc
  BY ListTourAssumption DEF Init, NoFlip, NoUndo
<1>2. Made = <<>> /\ Now = Edges(suc) /\ ~GivenUp /\ Len(Made) = 0
  BY <1>1 DEF Made, Now, GivenUp
<1> PICK h \in [0..0 -> Tours] : h = [i \in 0..0 |-> suc]
  BY <1>1
<1>3. h[0] = suc
  OBVIOUS
<1>4. TourHistory(h)
  BY <1>1, <1>2, <1>3 DEF TourHistory
<1> QED
  BY <1>1, <1>2, <1>4 DEF RestoreInv

\* The records on the stack lead from the tour last kept to the present one.
THEOREM StackIsHistory == Spec => []RestoreInv
<1>1. IInv /\ IInv' /\ RestoreInv /\ [Next]_vars => RestoreInv'
  BY NextRestore
<1> QED
  BY <1>1, InitRestore, Invariance, PTL DEF Spec

\* Only EndRestore ends RestoreTour.
LEMMA EndsRestore ==
    ASSUME IInv, Next, undo.running, ~undo'.running
    PROVE  EndRestore
<1>1. undo \in [running : {TRUE}, odd : BOOLEAN, t1 : Node \cup {NIL}]
  <2>1. undo # NoUndo
    BY DEF NoUndo
  <2> QED
    BY <2>1 DEF IInv, TypeOK
<1>2. ~UndoMove /\ ~DropInverse
  BY <1>1 DEF UndoMove, DropInverse
<1>3. ~ReverseNode /\ ~EndFlip
  BY DEF ReverseNode, EndFlip
<1> QED
  BY <1>2, <1>3 DEF Next, Loop, Reenter, Turn, BestMove, Swap1, StoreTour, RestoreTour, Idle

\* A chain given up leaves the tour last kept, whatever check points it has set; a
\* move rejected leaves the tour and the direction of the check point, with the
\* moves before it still to be undone.
THEOREM Restores == Spec => RestoredTour
<1>1. ASSUME IInv, RestoreInv, Next, undo.running, ~undo'.running
      PROVE  IF undo.t1 = NIL THEN stack' = <<>> /\ Edges(suc') = kept
                              ELSE Len(stack') = checkPoint /\ SUC' = mark
  <2>1. EndRestore
    BY <1>1, EndsRestore
  <2>2. /\ ~flip.running /\ Len(stack) <= checkPoint
        /\ suc' = suc /\ prd' = prd /\ stack' = stack /\ reversed' = TurnBack(undo.t1)
        /\ IsList(suc, prd) /\ stack \in Seq(Move) /\ checkPoint \in Nat
        /\ undo.t1 \in Node \cup {NIL} /\ reversed \in BOOLEAN
    BY <1>1, <2>1 DEF EndRestore, list, IInv, ListInv, TypeOK, NoUndo
  <2>3. Made = stack
    <3> SUFFICES ASSUME ~undo.odd PROVE FALSE
      BY DEF Made
    <3>1. stack # <<>> /\ Made = Popped
      BY <1>1, <2>2 DEF RestoreInv, Made
    <3>2. Len(Made) = Len(stack) - 1 /\ Len(stack) \in Nat
      BY <2>2, <3>1, PoppedFacts
    <3> QED
      BY <1>1, <2>2, <3>2 DEF RestoreInv
  <2>4. Len(stack) = checkPoint /\ Now = Edges(suc)
    BY <1>1, <2>2, <2>3 DEF RestoreInv, Now
  <2>5. CASE undo.t1 = NIL
    <3>1. checkPoint = 0 /\ Edges(suc) = kept
      BY <1>1, <2>3, <2>4, <2>5 DEF RestoreInv, TourHistory, GivenUp
    <3> QED
      BY <2>2, <2>4, <2>5, <3>1
  <2>6. CASE undo.t1 # NIL
    <3>1. Edges(mark) = Edges(suc) /\ mark \in Tours
      BY <1>1, <2>3, <2>4, <2>6 DEF RestoreInv, TourHistory, GivenUp
    <3>2. /\ IsList(SUC, PRD) /\ Edges(SUC) = Edges(suc)
          /\ SUC = IF reversed THEN prd ELSE suc
          /\ PRD = IF reversed THEN suc ELSE prd
      BY <2>2, SeenList
    <3>3. /\ mark = SUC \/ mark = PRD
          /\ SUC[undo.t1] = mark[undo.t1] => mark = SUC
      BY <2>2, <2>6, <3>1, <3>2, SameEdges DEF Tours, IsList
    <3>4. SUC' = IF reversed' THEN prd ELSE suc
      BY <2>2 DEF SUC, IsList, IsTour
    <3> QED
      BY <2>2, <2>4, <2>6, <3>2, <3>3, <3>4 DEF TurnBack
  <2> QED
    BY <2>5, <2>6
<1>2. IInv /\ RestoreInv /\ [Next]_vars =>
        [undo.running /\ ~undo'.running =>
          IF undo.t1 = NIL THEN stack' = <<>> /\ Edges(suc') = kept
                           ELSE Len(stack') = checkPoint /\ SUC' = mark]_vars
  BY <1>1
<1> QED
  BY <1>2, Invariance, StackIsHistory, PTL DEF Spec, RestoredTour

=============================================================================
