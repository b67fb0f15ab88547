----------------------------- MODULE MCTableize -----------------------------
(* Tableize with arguments that are their own keys, and (MCStringKey) with  *)
(* two first arguments whose String() is the same.                          *)
EXTENDS Tableize, TLC

Symmetry == Permutations(Procs)

MCOwnKey(x) == x
MCStringKey(x) == IF x \in First THEN CHOOSE y \in First : TRUE ELSE x

MCSetup(one, max, n) == [oneGoroutine |-> one, maxSize |-> max, calls |-> n]

(* Two goroutines that rotate a table of one entry.                         *)
MCRacing == {MCSetup(FALSE, 1, 4)}

(* The same for longer, until the counter has passed maxSize.               *)
MCRacingOn == {MCSetup(FALSE, 1, 6)}

(* One goroutine whose calls may nest.                                      *)
MCNested == {MCSetup(TRUE, 2, 6)}

MCSetups == MCRacing \cup MCNested
=============================================================================
