------------------------------- MODULE Nesting -------------------------------
(***************************************************************************)
(* What things lie in: Thing::getParent of src/src/thing.h, followed       *)
(* upwards as Item::getTopParent does.  B are the things that hold others, *)
(* and up says what each thing lies in, directly.                          *)
(***************************************************************************)

(* The bags among what thing i lies in are the least set with the parent   *)
(* of i and the parent of each; what i lies in are those and the place of  *)
(* the outermost.                                                          *)
HasParents(B, up, i, S) ==
    (up[i] \in B => up[i] \in S) /\ \A b \in S : up[b] \in B => up[b] \in S
BagsOver(B, up, i) == {b \in B : \A S \in SUBSET B : HasParents(B, up, i, S) => b \in S}
Over(B, up, i) == {up[i]} \cup {up[b] : b \in BagsOver(B, up, i)}
=============================================================================
