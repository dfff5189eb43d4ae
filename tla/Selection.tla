-------------------------------- MODULE Selection --------------------------------
(* How lists are cut and sorted: the model's proposals, the findings of the     *)
(* rules, the index experiments of a report.                                    *)
EXTENDS Integers, Sequences, FiniteSets

\* propose: empty texts are dropped, and the loop ends when it has max of them;
\* it looks after each append, so one is taken even if max is zero.
Taken(answer, empty, max) ==
    LET texts == SelectSeq(answer, LAMBDA c : c # empty)
        most == IF max < 1 THEN 1 ELSE max IN
    SubSeq(texts, 1, IF Len(texts) < most THEN Len(texts) ELSE most)

\* The place of i in the order R of D.
Rank(R, D, i) == 1 + Cardinality({j \in D : <<j, i>> \in R})

\* sort.SliceStable: R orders the places of s, those of equal elements as they are.
Sorted(s, R) ==
    [n \in DOMAIN s |-> s[CHOOSE i \in DOMAIN s : Rank(R, DOMAIN s, i) = n]]

LargestFirst(s) ==
    {p \in (DOMAIN s) \X (DOMAIN s) :
        s[p[1]].gain > s[p[2]].gain \/ (s[p[1]].gain = s[p[2]].gain /\ p[1] < p[2])}

\* runIndexExperiments: by improvement, the largest first.
Ranked(s) == Sorted(s, LargestFirst(s))
================================================================================
