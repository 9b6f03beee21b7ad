------------------------------ MODULE MCGrammar ------------------------------
(* Values of the constants of Grammar for TLC. *)
EXTENDS Grammar

CONSTANTS odd       \* a cron expression that matches the odd instants

MCOccurrence(expr, after) == IF after % 2 = 0 THEN after + 1 ELSE after + 2

\* With 12 bits: zero and small numbers; 34h is the last below 2^11, 68h the
\* last below 2^12 and 3d the first above; the edges of i64 and of u64.
MCDigits == 0..6 \cup {33, 34, 35, 68, 69, 1999, 2000, 2047, 2048, 4094, 4095, 4096}

=============================================================================
