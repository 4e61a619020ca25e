---------------------------- MODULE MCImageBuild ----------------------------
(* Orders of no, one and two stages, with every kind of step in front of    *)
(* every other, and a stage with no steps.                                  *)
EXTENDS ImageBuild

MCStages == {<<>>} \cup {<<s>> : s \in Steps} \cup
            {p \in Steps \X (Steps \ Odd) : p[1] = "FROM" => p[2] # "FROM"}
MCOrders == {<<>>} \cup {<<s>> : s \in MCStages} \cup
            {<<s, t>> : s \in {<<a>> : a \in Steps} \cup {<<>>},
                        t \in {<<a>> : a \in Steps \ Odd}}
=============================================================================
