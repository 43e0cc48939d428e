--------------------------- MODULE MCDirectionEkf ---------------------------
(* The instance TLC checks: four bearings, and longer histories where no   *)
(* first arrivals are heard.                                               *)
EXTENDS DirectionEkf

MCMaxHistory == [m \in Modes |-> CASE m = "off" -> 3 [] m = "shadow" -> 1 [] OTHER -> 2]
=============================================================================
