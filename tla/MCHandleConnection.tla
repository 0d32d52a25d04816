------------------------- MODULE MCHandleConnection -------------------------
(***************************************************************************)
(* Instances of HandleConnection for TLC.                                  *)
(***************************************************************************)
EXTENDS LedgerRefinement, TLC

Good(n) == [form |-> "codec8e", n |-> n]

(* Two points make a batch that a failing Append can leave half filled.    *)
TwoPoints == {Good(2)}

(* One packet of each form, for the paths on which parsing ends.           *)
AllForms == {Good(2), [form |-> "otherCodec", n |-> 1],
             [form |-> "miscounted", n |-> 1], [form |-> "oversize", n |-> 60],
             [form |-> "wrapped", n |-> 256]}

ConnSymmetry == Permutations(Conns)
=============================================================================
