----------------------------- MODULE MCWsTransport -----------------------------
(* WsTransport for TLC: the Close frames at the edges of the code ranges.     *)
EXTENDS WsTransport

Plain(c) == [kind |-> "plain", code |-> c, advice |-> 0, reconnect |-> FALSE]
Advice(c, a, r) == [kind |-> "advice", code |-> c, advice |-> a, reconnect |-> r]

MCCloseReasons ==
  {Bare}
    \union {Plain(c) : c \in {1000, 1006, 1009, 2999, 3000, 3499, 3500, 3999,
                              4000, 4499, 4500, 4999, 5000}}
    \union {Advice(1000, 3001, TRUE), Advice(3000, 0, FALSE), Advice(3500, 3500, TRUE)}
===============================================================================
