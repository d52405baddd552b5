-------------------------- MODULE MCRequestHandler --------------------------
(***************************************************************************)
(* A small instance of RequestHandler.                                     *)
(***************************************************************************)
EXTENDS RequestHandler

\* Scripts that load, for the pool's address, for another, and of HTTP steps; and
\* two that do not, before and after the address is known.
Scripts == {[loads |-> TRUE,  address |-> "pool",  steps |-> {"TCP"}],
            [loads |-> TRUE,  address |-> "other", steps |-> {"TCP"}],
            [loads |-> TRUE,  address |-> "",      steps |-> {"HTTP"}],
            [loads |-> FALSE, address |-> "pool",  steps |-> {"TCP"}],
            [loads |-> FALSE, address |-> "",      steps |-> {}]}
=============================================================================
