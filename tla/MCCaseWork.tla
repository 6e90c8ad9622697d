------------------------------ MODULE MCCaseWork ------------------------------
(***************************************************************************)
(* Small instances of CaseWork for TLC; the cfg files give the bounds.     *)
(***************************************************************************)
EXTENDS CaseWorkProps

\* a hash whose artifact is an address, and a host
MCTypeOf == [hash1 |-> "hash", ip1 |-> "ip", host1 |-> "hostname"]
MCArtifacts == [hash1 |-> {"ip1"}, ip1 |-> {}, host1 |-> {}]

\* an alert of no mark, one of a red word next to a green one
MCAlerts == {[data |-> {"hash1", "host1"}, stamp |-> {}, words |-> {}],
             [data |-> {"ip1"}, stamp |-> {}, words |-> {1, 4}]}

\* a query with a bad window, and a report the model writes itself
MCCalls == {[tool |-> "siem_query", wellFormed |-> FALSE, kind |-> "none"],
            [tool |-> "add_timeline_entry", wellFormed |-> TRUE, kind |-> "investigation_report"]}

=============================================================================
