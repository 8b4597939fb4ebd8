----------------------------- MODULE MCAdmission -----------------------------
EXTENDS Admission

MCAutoVolumes == {"kube-api-access-x", DecoyVolume}
MCVolumes == MCAutoVolumes \cup {"own"}
MCPaths == {SAPath, "data"}
Mount(c) == [in : {c}, vol : {"kube-api-access-x", "own"}, path : {SAPath, "data"}]
MCShapes ==
    {[ns |-> "apps", vols |-> {main[i].vol : i \in DOMAIN main} \cup {init[i].vol : i \in DOMAIN init},
      containers |-> <<"main", "init">>, mounts |-> main \o init, env |-> <<>>] :
        main \in UNION {[1 .. n -> Mount("main")] : n \in 0 .. 2},
        init \in UNION {[1 .. n -> Mount("init")] : n \in 0 .. 1}}

MCRealServices == {<<[name |-> "https", port |-> 443]>>, <<[name |-> "", port |-> 8443]>>}
==============================================================================
