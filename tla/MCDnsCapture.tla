----------------------------- MODULE MCDnsCapture -----------------------------
(* Values for the DNS run: one address that may move between two MACs.      *)
EXTENDS DnsTop, TLC

CONSTANTS ip1, mac1, mac2, dom1, dom2

MCIp == {ip1}
MCMac == {mac1, mac2}
MCDomain == {dom1, dom2}

(* Clients are alike, and so are domains: no action or property names one.  *)
Alike == Permutations(MCMac) \cup Permutations(MCDomain)
===============================================================================
