------------------------------ MODULE MCPopmusic ------------------------------
(* Popmusic with six cities.  With samples of two the tour is cut up in up to     *)
(* three levels, and the scans take parts of four that overlap.  With samples of  *)
(* three all searches are of seven nodes, the fewest with which the parts that    *)
(* flip may turn differ in size.                                                  *)
EXTENDS Popmusic

MCCities == 1..6

\* Cities on a line at the places x, on a ring, or with distances that are not metric.
OnLine(x) == [c \in MCCities |-> [d \in MCCities |-> Max({x[c] - x[d], x[d] - x[c]})]]
OnRing == [c \in MCCities |-> [d \in MCCities |-> Min({(c - d) % 6, (d - c) % 6})]]
Odd(k) == [c \in MCCities |-> [d \in MCCities |->
              IF c = d THEN 0 ELSE ((k * Min({c, d}) + c * d) % 6) + 1]]

MCProblems ==
    [length : {OnLine(<<0, 0, 0, 0, 0, 0>>), OnLine(<<0, 0, 0, 1, 1, 5>>),
               OnLine(<<0, 1, 2, 4, 5, 9>>), OnRing},
     order : {o \in SetToSeqs(MCCities) : o[1] = 3 /\ o[2] = 6},
     sample_size : {2}]
    \cup [length : {Odd(1), Odd(3), Odd(5), OnRing}, order : {<<1, 2, 3, 4, 5, 6>>},
           sample_size : {3}]
=============================================================================
