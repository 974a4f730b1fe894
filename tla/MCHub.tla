------------------------------- MODULE MCHub -------------------------------
(* Hub with two clients and the sonar stream of the table: the minimal      *)
(* profile refuses it, the reduced one holds it to half a hertz.            *)
EXTENDS Hub

OneStream == {"sonar"}
Default == [s \in OneStream |-> STREAMS[s].default]
Carried == [s \in OneStream |-> PoliciesOf(s)]

\* The whole table is one the hub may be given, and what is critical survives
\* into every profile (streams.py 48-50).
ASSUME \A s \in DOMAIN STREAMS :
    /\ 0 \in DOMAIN PoliciesOf(s)
    /\ STREAMS[s].default <= PoliciesOf(s)[0]
    /\ \A p \in DOMAIN PoliciesOf(s) : PoliciesOf(s)[p] <= PoliciesOf(s)[0]
    /\ STREAMS[s].critical => DOMAIN PoliciesOf(s) = Profiles
=============================================================================
