--------------------------------- MODULE Totals ---------------------------------
(***************************************************************************)
(* The sum of a function over a finite set, as the number of its units.    *)
(* NumberLemmas derives what a sum does when one value changes from the    *)
(* theorems on the cardinality of finite sets.                             *)
(***************************************************************************)
EXTENDS Naturals, FiniteSets

\* The units of f on S: the pairs <<k, 1>>, ..., <<k, f[k]>> for each k in S.
Units(f, S) == UNION {{k} \X (1..f[k]) : k \in S}

Total(f, S) == Cardinality(Units(f, S))
=============================================================================
