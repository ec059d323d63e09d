------------------------------ MODULE MCP2pRoom ------------------------------
(* P2pRoom for TLC: three connections, a pair and one that comes before,     *)
(* between or after. Which of them are of one user is chosen up to renaming. *)
EXTENDS P2pRoom, TLC

CONSTANTS c1, c2, c3, u1, u2, u3

MCConns == {c1, c2, c3}
MCUsers == {u1, u2, u3}

Of(a, b, c) == (c1 :> a) @@ (c2 :> b) @@ (c3 :> c)
MCLogins == {Of(u1, u2, u3), Of(u1, u1, u2), Of(u1, u1, u1), Of(u1, u2, NoUser)}
=============================================================================
