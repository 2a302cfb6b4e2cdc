----------------------------- MODULE MC_TpcPool -----------------------------
(* Instantiates TpcPool for TLC: requests and labels are model values.     *)
EXTENDS TpcPool

CONSTANTS l1, l2, r1, r2, r3

\* Two requests share label l1, one has label l2.
MCReqLabelTwo == [r \in {r1, r2, r3} |-> IF r = r3 THEN l2 ELSE l1]

\* All three requests share label l1.
MCReqLabelOne == [r \in {r1, r2, r3} |-> l1]

=============================================================================
