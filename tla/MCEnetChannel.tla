--------------------------- MODULE MCEnetChannel ---------------------------
EXTENDS EnetChannel
Mixed == [start |-> 0, max |-> 9, sends |-> 3,
          packets |-> {<<"reliable", 1>>, <<"reliable", 2>>, <<"unreliable", 1>>, <<"unsequenced", 1>>}]
Fragments == [start |-> 10, max |-> 9, sends |-> 4,
          packets |-> {<<"reliable", 1>>, <<"unreliable", 1>>, <<"unreliable_fragment", 2>>}]
Scarce == [start |-> 9, max |-> 1, sends |-> 4, packets |-> {<<"reliable", 1>>, <<"unsequenced", 1>>, <<"reliable", 2>>}]
Windowed == [start |-> 14, max |-> 9, sends |-> 6, packets |-> {<<"reliable", 1>>}]
AllScenarios == {Mixed, Fragments, Scarce, Windowed}
=============================================================================
