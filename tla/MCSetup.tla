------------------------------ MODULE MCSetup ------------------------------
(* Setup with a tilt, a lever arm, the side and one field read live. Some  *)
(* requests are turned away: a value that is no number, no provenance, not  *)
(* confirmed, and nothing in it.                                            *)
(*                                                                         *)
(* And the node that the geometry is for, against its sonar: the two have  *)
(* nothing to do with each other, so that a behaviour is one of the part   *)
(* that is looked at, and the variables of the other keep their first      *)
(* values.                                                                 *)
EXTENDS Setup, SonarBridge

VARIABLE part       \* "mounting" or "pings"

PlacedFields == {"tilt", "lever"}
LiveFields == {"lat"}
TwoNumbers == {"n1", "n2"}
Shipped == [f \in Geometry |-> IF f = Side THEN "starboard" ELSE "n1"]
Fallback == [f \in Geometry |-> IF f = Side THEN "starboard" ELSE "n2"]

Request(fields, value, by, yes) ==
    [edits |-> [f \in fields |-> value[f]], by |-> by, confirmed |-> yes]
All(v) == [f \in Fields |-> v]

Saves == {
    Request({"tilt"}, All("n2"), "measured", TRUE),
    Request({"tilt"}, All("n1"), "entered", TRUE),
    Request({"tilt", "lever"}, All("n2"), "measured", TRUE),
    Request({"lever", "side"}, [All("n2") EXCEPT ![Side] = "port"], "entered", TRUE),
    Request({"lat"}, All("n1"), "entered", TRUE),
    Request({"tilt", "lat"}, [All("n1") EXCEPT !["tilt"] = Junk], "entered", TRUE),
    Request({"tilt"}, All("n2"), "default", TRUE),
    Request({"tilt"}, All("n2"), "measured", FALSE),
    Request({}, All("n1"), "entered", TRUE)}

NodeInit ==
    /\ part \in {"mounting", "pings"}
    /\ Init /\ SonarInit
    /\ part = "mounting" => transport = "udp" /\ \A n \in FirstNumbers : number <= n

SetsUp == part = "mounting" /\ Next /\ UNCHANGED <<part, sonarVars>>
Pings  == part = "pings" /\ SonarNext /\ UNCHANGED <<part, vars>>

NodeNext == SetsUp \/ Pings

NodeSpec == NodeInit /\ [][NodeNext]_<<part, vars, sonarVars>>
=============================================================================
