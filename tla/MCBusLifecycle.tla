--------------------------- MODULE MCBusLifecycle ---------------------------
(***************************************************************************)
(* Instances of BusLifecycle for TLC: two buses of different systems in    *)
(* one process, each with a reader of the same name, and a writer on the   *)
(* first one.                                                              *)
(***************************************************************************)
EXTENDS BusLifecycle, TLC

CONSTANTS b1, b2, r1, r2, w1, sample, blackbird, whitebird

MCBusOf == (r1 :> b1) @@ (r2 :> b2) @@ (w1 :> b1)

MCNameOf == [h \in {r1, r2, w1} |-> sample]

MCSystemOf == (b1 :> blackbird) @@ (b2 :> whitebird)
=============================================================================
