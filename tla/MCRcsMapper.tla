----------------------------- MODULE MCRcsMapper -----------------------------
(* Two cache servers and one hash that both have; one of them may lose its *)
(* connection and connect again.                                           *)
EXTENDS RcsMapper

CONSTANTS r1, r2, h

MCRcs == {r1, r2}
MCHas == [r \in MCRcs |-> {h}]
MCMaxConn == [r \in MCRcs |-> IF r = r1 THEN 2 ELSE 1]
=============================================================================
