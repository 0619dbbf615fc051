------------------------------ MODULE MCScanLoop ------------------------------
(* Name tables of the model-checking runs: an address with no MAC is named  *)
(* by itself, and two addresses may share a MAC.                            *)
EXTENDS History

CONSTANTS a, b, m

MCIp == {a, b}
MCId == {a, b, m}

(* Unresolved, one resolved, both resolved to the same MAC.                 *)
MCNameTables ==
    { [ip \in MCIp |-> ip],
      [ip \in MCIp |-> IF ip = a THEN m ELSE ip],
      [ip \in MCIp |-> m] }

MCOneIp == {a}
MCOneId == {a, m}
MCOneNameTables == { [ip \in MCOneIp |-> m] }
MCChangingNameTables == { [ip \in MCOneIp |-> a], [ip \in MCOneIp |-> m] }
===============================================================================
