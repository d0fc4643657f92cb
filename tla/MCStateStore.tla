---------------------------- MODULE MCStateStore ----------------------------
(* Instances of the state store for TLC. *)
EXTENDS StateStore, TLC

CONSTANTS
  alpha, beta,  \* perspectives
  a1, z         \* worker ids: alpha-1, and one no perspective would choose

\* Every automatic id stays in its perspective.
OwnIds == alpha :> <<a1>> @@ beta :> << >>

SharedExplicit == {<<alpha, z>>, <<beta, z>>}

\* beta is also given the id alpha would choose.
BorrowedExplicit == {<<beta, a1>>}
=============================================================================
