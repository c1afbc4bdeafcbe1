------------------------------ MODULE MCWebApp ------------------------------
(* WebApp with a grid meter, an inverter and an oven wired twice, two days *)
(* of records with gaps, and two devices.                                  *)
EXTENDS WebApp, FiniteSets

MCWiring == << [from |-> "meter", to |-> "cu", handle |-> "grid"],
               [from |-> "cu", to |-> "oven", handle |-> "circuit"],
               [from |-> "tariff", to |-> "cu", handle |-> "tariff"],
               [from |-> "cu", to |-> "oven", handle |-> "circuit"] >>
MCRecorded(n, d) ==
    CASE n = "meter" /\ d = "yesterday" -> <<0, 2, 5, 9, 10>>
      [] n = "meter" /\ d = "today" -> <<4, 5>>
      [] n = "oven" /\ d = "yesterday" -> << >>
      [] OTHER -> <<1>>
MCDayEnd(d) == IF d = "today" THEN 6 ELSE 14
MCEnergy ==
    {[s \in {"meter", "sun", "oven"} |-> CASE s = "meter" -> g [] s = "sun" -> p [] OTHER -> o] :
        g \in {-3, 4}, p \in {-4, 0}, o \in {-1, 3}}
    \cup {[s \in {"meter"} |-> 5], [s \in {"oven"} |-> 3]}
MCPaired == [d \in {"lamp", "plug"} |-> "none"]

=============================================================================
