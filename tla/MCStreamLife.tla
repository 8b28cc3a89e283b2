---------------------------- MODULE MCStreamLife ----------------------------
EXTENDS StreamLife

Case(last, busy, data, by, n) ==
  [last |-> last, busy |-> busy, data |-> data, by |-> by, aborts |-> n]

(* The first one can lose the credit of a stream that is not the last; the *)
(* last one needs the credit of an earlier stream.                         *)
Cases ==
  {Case(2, 1, {"c"}, {"c"}, 1), Case(1, 1, {"c"}, {"s"}, 1), Case(1, 1, {"s"}, End, 1),
   Case(2, 1, {}, {"s"}, 1), Case(3, 1, {}, {}, 0)}
=============================================================================
