----------------------------- MODULE MCPowerFlows -----------------------------
(* A grid meter, a board that it feeds directly or through the consumer    *)
(* unit, an oven on the board and an appliance beside it.                  *)
EXTENDS PowerFlows

MCTypes == [n \in {"cu", "unallocated", "board", "sub", "meter", "oven"} |->
                CASE n \in {"board", "sub"} -> "board"
                  [] n \in {"meter", "oven"} -> "device"
                  [] OTHER -> n]
Wire(a, out, b, into) == [from |-> a, out |-> out, to |-> b, into |-> into]
Grid == Wire("meter", "power-out", "cu", "grid")
GridReversed == Wire("cu", "grid", "meter", "power-out")
Splice == Wire("meter", "power-out", "board", "power-in")
Circuit(a, n, b) == Wire(a, <<"circuit_1", "circuit_2">>[n], b, "power-in")

MCGraphs == {<<Grid, Splice, Circuit("board", 1, "sub"), Circuit("sub", 1, "oven")>>,
             <<Circuit("sub", 1, "oven"), Grid, Circuit("cu", 1, "sub")>>,
             <<GridReversed, Circuit("cu", 1, "oven")>>}
MCDrawable == {Circuit("cu", 2, "board"), Circuit("sub", 2, "board"), Circuit("board", 2, "oven")}
MCStandby == ("oven" :> 6)
MCReadings == {-8, 6, 400}

(* A board and an appliance wired to one circuit of the consumer unit. *)
SharedGraphs == {<<Grid, Circuit("cu", 1, "board"), Circuit("board", 1, "heater"), Circuit("cu", 1, "oven")>>}
SharedTypes == MCTypes @@ ("heater" :> "device")
=============================================================================
