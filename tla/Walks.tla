-------------------------------- MODULE Walks --------------------------------
(***************************************************************************)
(* A loop whose turns are counted beforehand: visit[i] maps the state of   *)
(* the loop before its turn i to the state after it.  Walk is what is left *)
(* after n turns.                                                          *)
(***************************************************************************)
EXTENDS Integers

Walk(visit, start, n) ==
  LET after[i \in 0 .. n] == IF i = 0 THEN start ELSE visit[i][after[i - 1]]
  IN  after[n]
=============================================================================
