--------------------------- MODULE MCTopologyEditor ---------------------------
(* The graph TopologyEditor starts with: an inverter with a string and a   *)
(* battery, a board with a load on a circuit of it, as the Home page and   *)
(* earlier visits leave them.                                              *)
EXTENDS TopologyEditor

Inverter == 3
String == 4
Battery == 5

Of(type) == Node("spot", [Blank EXCEPT !.type = type])
Wire(a, out, b, into) == [from |-> a, out |-> out, to |-> b, into |-> into]

MCSaved ==
    [nodes |-> (Cu :> Node("origin", Fixed("cu"))) @@ (Inverter :> Of("inverter"))
                @@ (String :> Of("pv")) @@ (Battery :> Of("battery"))
                @@ (7 :> Node("spot", Board(1, "board"))) @@ (8 :> Node("spot", Load("e1"))),
     edges |-> {Wire(Inverter, "power-out", Cu, "solar_input"), Wire(String, "power-out", Inverter, "dc_in"),
                Wire(Inverter, "battery", Battery, "power-in"), Wire(Cu, "circuit", 7, "power-in"),
                Wire(7, "circuit", 8, "power-in")}]
=============================================================================
