-------------------------- MODULE MCSemanticSearcher --------------------------
(***************************************************************************)
(* Instances of SemanticSearcher for TLC: up to 4 paths, and sub-engines   *)
(* whose lists overlap.                                                    *)
(***************************************************************************)
EXTENDS SemanticSearcher

CONSTANTS p1, p2, p3, p4   \* files

\* No sub-engine (the file name index is not ready), or all three index engines.
AnyPlans == {<<>>, <<"FileName", "Content", "Ocr">>}

\* Two engines at most.
SmallPlans == {<<"FileName", "Content">>, <<"Recent">>}

OverlappingLists == {<<p1>>, <<p2, p1>>}

\* Equal or disjoint lists, one with an excluded path; together one path too many.
PairLists == {<<p1, p2>>, <<p3, p4>>}

OneExcluded == {{p1}}
=============================================================================
