----------------------------- MODULE MCRefCase -----------------------------
(***************************************************************************)
(* RefCase for TLC: the five cases of the builder with how many entries    *)
(* are written in each.                                                    *)
(***************************************************************************)
EXTENDS RefCase, RefCharts

AllCases == DOMAIN CaseBooks
OneBookCases == {"shop", "partnership", "trust"}
Entries == [c \in AllCases |-> IF c \in OneBookCases THEN 3 ELSE 2]
FewEntries == [c \in AllCases |-> 1]
Misprints == [c \in AllCases |-> IF c \in OneBookCases THEN 1 ELSE 0]
Never == [c \in AllCases |-> -1]
=============================================================================
