------------------------------ MODULE MCProxy ------------------------------
(* Small instances of ForwardProxy for TLC.                                   *)
EXTENDS ProxyProperties

Either(first, second) == [f \in Forward |-> IF f = 0 THEN first ELSE second]

(* Two observed exchanges that compete for the budget and for the decoder,    *)
(* and one of them after or before each other kind.                           *)
Encounters ==
    {Either("zstd", "silent"), Either("plain", "plain"), Either("compact", "unread"),
     Either("chat", "misrouted")}

Lengths == [k \in Kind |-> IF k = "plain" THEN {2, 3} ELSE {2}]
=============================================================================
