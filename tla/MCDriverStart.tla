---- MODULE MCDriverStart ----
(* Deployments that are accepted and that are not, of both drivers. *)
EXTENDS DriverStart

Plain == [driver |-> "cds", mode |-> "all", auth |-> "gateway",
          topology |-> "auto", region |-> "own", endpoints |-> {},
          cluster |-> "none", name |-> "own"]

MCDeployments ==
    {[Plain EXCEPT !.mode = m, !.auth = a, !.topology = t, !.name = n] :
        m \in {"controller", "node", "all"}, a \in {"key", "gateway"},
        t \in {"meta", "k8s", "auto", "other"}, n \in {"none", "own"}}
    \cup
    {[Plain EXCEPT !.driver = "bos", !.auth = a, !.topology = t, !.mode = m] :
        a \in {"key", "gateway"}, t \in {"k8s", "auto"},
        m \in {"controller", "node"}}
    \cup
    {[Plain EXCEPT !.driver = d, !.region = "none", !.endpoints = e, !.cluster = "own",
                   !.auth = "key"] :
        d \in {"cds", "bos", "other"}, e \in SUBSET {"bcc", "cds", "bos"}}
    \cup {[Plain EXCEPT !.mode = "other"], [Plain EXCEPT !.auth = "other"]}
====
