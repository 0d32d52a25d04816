-------------------------- MODULE MCTeltonikaServer --------------------------
(***************************************************************************)
(* Instances of TeltonikaServer for TLC.                                   *)
(***************************************************************************)
EXTENDS TeltonikaServer, TLC

OnePoint == {[form |-> "codec8e", n |-> 1]}

(* A packet whose 256 points are counted as none: its handler panics.      *)
GoodOrPanics == OnePoint \cup {[form |-> "wrapped", n |-> 256]}

ConnSymmetry == Permutations(Conns)
=============================================================================
