--------------------------- MODULE MCReceiptWait ---------------------------
(* Small instances of ReceiptWait: clock values are single digits, and one  *)
(* timer holds at most 4 of them, so a wait of 7 has to re-arm its timer.   *)
EXTENDS ReceiptWait

MCTimeouts == {0, 1, 3, 7}
MCPolls == {0, 3}

\* Both longer than a timer can hold.
LongTimeouts == {7}
LongPolls == {6}

=============================================================================
