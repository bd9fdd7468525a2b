----------------------------- MODULE MCCandidates -----------------------------
(* Candidates on five nodes: problems in which many costs are equal, and, for  *)
(* POPMUSIC, one tour or two.                                                  *)
EXTENDS Candidates, TLC

CONSTANTS Types     \* the types of candidate sets

\* The upper triangles of cost matrices, row by row.
Rows == {<<1, 1, 1, 1, 2, 2, 2, 2, 2, 2>>, <<0, 0, 0, 0, 2, 0, 3, 0, 5, 0>>,
         <<0, 1, 0, 3, 2, 0, 1, 2, 2, 0>>, <<3, 1, 4, 1, 5, 9, 2, 6, 5, 3>>}

CostsOf(row) ==
    [e \in Edges |-> LET i == CHOOSE i \in e : \A j \in e : i <= j
                         j == CHOOSE j \in e : j # i
                     IN  row[((i - 1) * (10 - i)) \div 2 + j - i]]

Problem(row, type, ascentCandidates, flag, list, tours) ==
    [cost |-> CostsOf(row), type |-> type, ascent_candidates |-> ascentCandidates,
     symmetric |-> flag, known |-> flag, stop_at_optimum |-> flag, list |-> list, tours |-> tours]

AlphaProblems ==
    {Problem(row, "ALPHA", 2, flag, <<1, 2, 3, 4, 5>>, {}) : row \in Rows, flag \in BOOLEAN}

PopmusicProblems ==
    {Problem(row, "POPMUSIC", 4, flag, <<3, 1, 5, 4, 2>>,
             {<<<<1, 2, 3, 4, 5>>>>, <<<<1, 2, 3, 4, 5>>, <<1, 3, 2, 5, 4>>>>,
              <<<<1, 3, 5, 2, 4>>, <<1, 4, 3, 5, 2>>>>}) : row \in Rows, flag \in BOOLEAN}

MCProblems == {q \in AlphaProblems \cup PopmusicProblems : q.type \in Types}

=============================================================================
