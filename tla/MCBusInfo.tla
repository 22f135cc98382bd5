------------------------------ MODULE MCBusInfo ------------------------------
(* Constants for model checking BusInfo: two threads of the application    *)
(* pop, two participants announce themselves, one of them twice.           *)
EXTENDS BusInfo

CONSTANTS p1, p2, alice, bob

=============================================================================
