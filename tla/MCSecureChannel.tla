--------------------------- MODULE MCSecureChannel ---------------------------
(* SecureChannel with a frame of four units: two small frames fit in one read. *)
EXTENDS SecureChannel

CONSTANTS get, put, long

MCEndpoint == {get, put, long}
MCUnits == [e \in MCEndpoint |-> CASE e = get -> 1 [] e = put -> 2 [] e = long -> 5]
MCAnswers == [e \in MCEndpoint |-> IF e = get THEN 2 ELSE 1]
=============================================================================
