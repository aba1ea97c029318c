-------------------------- MODULE MCVoucherGateway --------------------------
(***************************************************************************)
(* TLC instances of VoucherGateway.                                        *)
(***************************************************************************)
EXTENDS VoucherGateway, TLC

\* Requests and nonces are interchangeable, and so are users.
GatewaySymmetry ==
    Permutations(Requests) \cup Permutations(Nonces) \cup Permutations(Users)
=============================================================================
