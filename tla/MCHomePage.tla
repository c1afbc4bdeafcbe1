------------------------------ MODULE MCHomePage ------------------------------
(* A sensor, a tariff and an inverter with a string and a battery; a       *)
(* board on the second circuit, and a load on the board from the canvas.   *)
EXTENDS HomePage

MCKinds == <<{"sensor"}, {"sensor"}, {"tariff"}, {"solar"}, {"sensor"}>>
MCParts == <<{}, {}, {}, {2, 5}, {}>>

Board == <<"node", 11>>
Other == <<"node", 12>>
Fresh == [nodes |-> Cu :> Node("cu", 0), edges |-> {}]
Wired == [nodes |-> (Cu :> Node("cu", 0)) @@ (Board :> Node("board", 0)) @@ (Other :> Node("load", 1)),
          edges |-> {Wire(Cu, "2", Board, "power-in"), Wire(Board, "circuit_1", Other, "power-in")}]
MCSaved == {Fresh, Wired}
=============================================================================
