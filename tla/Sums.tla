-------------------------------- MODULE Sums --------------------------------
(* Sums of amounts, as PostgreSQL's sum() gives them: every unit of every   *)
(* amount is counted once.                                                  *)
EXTENDS Naturals, FiniteSets

(* Units(f, S) has f[x] members for each x of S.                            *)
Units(f, S) == UNION {{x} \X (1..f[x]) : x \in S}

SumOf(f, S) == Cardinality(Units(f, S))
=============================================================================
