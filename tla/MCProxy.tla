------------------------------- MODULE MCProxy -------------------------------
(* Instances of Proxy for TLC. *)
EXTENDS ProxyProps, FiniteSetsExt

Lowest(F) == Min(F)

Line(kind, val) == [kind |-> kind, val |-> val]
Headers(n) == <<Line("line", 0)>> \o (IF n > 0 THEN <<Line("length", n)>> ELSE <<>>) \o <<Line("end", 0)>>
Message(announced, bytes) == Headers(announced) \o [k \in 1 .. bytes |-> Byte(k)]

SomeRequests == {<<Line("bad", 0)>>, Message(2, 2)}
SomeResponses == {Message(2, 2)}
=============================================================================
