--------------------------- MODULE MCDecoyIdentity ---------------------------
EXTENDS DecoyIdentity

Plain == [port |-> 6443, persistent |-> FALSE, system |-> TRUE, nodes |-> <<"n1", "n2">>,
          pods |-> <<>>, secrets |-> <<>>, crds |-> <<"issuers">>]

MCInitSpecs == {Plain}
MCSpecs == {Plain, [Plain EXCEPT !.port = 7443, !.persistent = TRUE, !.nodes = <<>>]}

MCCandidates == {[ns |-> "decoys", name |-> "bait"], [ns |-> "apps", name |-> "bait"]}
MCIPs == {"ip1", "ip2"}
MCAutoVolumes == {"kube-api-access-x", DecoyVolume}
MCUserIPs == {""}
MCHeadless == {"None"}
MCIds == 1 .. 9
==============================================================================
