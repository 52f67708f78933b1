------------------------------- MODULE MCHttp -------------------------------
(* An instance of Http for TLC.                                            *)
EXTENDS Http, TLC

CONSTANTS c1, c2

Plain == [v \in Variables |-> Unset]

\* A burst of two at one and at two a second, no burst at all, values that do
\* not parse, one that parses to NaN, and one the server does not start with.
Settings ==
  {[Plain EXCEPT !["RATE_LIMIT_RPS"] = 1, !["RATE_LIMIT_BURST"] = 2],
   [Plain EXCEPT !["RATE_LIMIT_RPS"] = 2, !["RATE_LIMIT_BURST"] = 1],
   [Plain EXCEPT !["RATE_LIMIT_RPS"] = 1, !["RATE_LIMIT_BURST"] = 0],
   [Plain EXCEPT !["RATE_LIMIT_RPS"] = NaN, !["RATE_LIMIT_BURST"] = Bad],
   [Plain EXCEPT !["RATE_LIMIT_RPS"] = 0]}

Requests == {[method |-> "GET", route |-> "/events"],
             [method |-> "POST", route |-> "/events"],
             [method |-> "POST", route |-> "/broker/replay"],
             [method |-> "OPTIONS", route |-> "/events"]}
\* No definition tells the connections apart.
Symmetry == Permutations(Connections)

=============================================================================
