--------------------------- MODULE MCExternalRun ---------------------------
(* Instances of ExternalRun for TLC: the endpoint of g1 and that of the     *)
(* judge go, come back and come to serve another model; that of g2 stays    *)
(* up, on a port the layout gives to g1.                                    *)
EXTENDS ExternalRun, TLC

CONSTANTS g1, g2, judge, other

MCGenerators == <<g1, g2>>
MCUrlOf == (g1 :> "tunnel1") @@ (g2 :> "tunnel2") @@ (judge :> "tunnelj")
MCPortModel == ("tunnel1" :> g1) @@ ("tunnel2" :> g1) @@ ("tunnelj" :> judge)
MCServes == ("tunnel1" :> {Down, g1, other}) @@ ("tunnel2" :> {g2}) @@
            ("tunnelj" :> {Down, judge, other})
=============================================================================
