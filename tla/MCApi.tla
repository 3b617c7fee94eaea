------------------------------- MODULE MCApi -------------------------------
(* Instances of Api for TLC. *)
EXTENDS Api, TLC

MCTexts ==
  {"", " ", "a", " a", "b", "A", "app", " app", "x", "ns", " ns", "http", "{{x",
   "/", "/api", "api", "*", "Runtime", "default", "current", "rollingupdate",
   " Recreate", "recreate", "builtin", "aifar-runtime", "opaque", "registry-auth",
   "node", "zone", "public", "admin", " Operator", "operator", "viewer",
   Projections, " registryProjections"}

Table(f) == [t \in MCTexts |-> IF t \in DOMAIN f THEN f[t] ELSE t]
Padded == [x \in {" ", " a", " app", " ns", " Recreate", " Operator", " registryProjections"} |->
  CASE x = " " -> "" [] x = " a" -> "a" [] x = " app" -> "app" [] x = " ns" -> "ns"
    [] x = " Recreate" -> "recreate" [] x = " Operator" -> "operator"
    [] x = " registryProjections" -> Projections]
MCTrim == Table(Padded)
MCFold == Table(("A" :> "a") @@ Padded)
MCRooted == Table("api" :> "/api")
MCSanitize == Table(("A" :> "a") @@ ("{{x" :> "x") @@ ("/api" :> "api") @@ Padded)
MCLabels == {"a", "b", "app", "x", "ns", "http", "default", "node", "zone", "public"}

-----------------------------------------------------------------------------
(* Files: variations of one document with a deployment, a service and an   *)
(* ingress, that leave fields out, pad them, or contradict one another.    *)

Deployment(selector, env) ==
  [name |-> "", serviceName |-> " a", image |-> "x", revision |-> " ",
   podRevision |-> "", replicas |-> << >>, strategy |-> "", rolling |-> << >>,
   pullSecrets |-> << >>, selector |-> selector, ports |-> <<[name |-> "http", number |-> 80]>>,
   env |-> env, sound |-> TRUE]

Recreated ==
  [Deployment(<< >>, << >>) EXCEPT
     !.name = "a", !.strategy = " Recreate", !.rolling = <<0, 0>>, !.replicas = <<0>>,
     !.pullSecrets = <<" a">>]

Service(selector, target, listen) ==
  [name |-> "a", selector |-> selector, port |-> 1, listenPort |-> listen,
   targetPort |-> target, protocol |-> " "]

Ingress(path, port, listen) ==
  [name |-> "public", provider |-> "", host |-> " ", listenPort |-> listen,
   routes |-> <<[path |-> path, service |-> " a", port |-> port]>>]

Document(namespace, deployment, service, ingress) ==
  [kind |-> "", name |-> " a", namespace |-> namespace, network |-> " ", nodeName |-> "",
   nodeSelector |-> << >>, secrets |-> << >>, deployments |-> <<deployment>>,
   services |-> <<service>>, ingress |-> <<ingress>>]

DeploymentSelectors ==
  {<< >>, " app" :> "x", ("app" :> " "), (" app" :> " "), ("app" :> "b") @@ (" app" :> "a")}
ServiceSelectors == {<< >>, " " :> "x", " app" :> "a", "app" :> "b"}
Targets == {FromInt(0), FromString("http"), FromString("b")}
Routes == {<<"", FromInt(0)>>, <<"api", FromString(" a")>>, <<"/api", FromInt(2)>>}

\* The plainest file, and with an escaped template token and the key registryProjections
\* in its environment, padded and not.
WithEnv(env) ==
  Body(Document("", Deployment(<< >>, env), Service(<< >>, FromInt(0), 0),
                Ingress("", FromInt(0), 2)), "source")
Plainest == WithEnv(<< >>)
Escaping == WithEnv(" a" :> "{{x")
PaddedKey == WithEnv(" registryProjections" :> "x")
Forbidding == WithEnv(Projections :> "x")

Sources ==
  {Body(d, "source") : d \in
     {Document("", Deployment(s, e), Service(t, FromInt(0), 0), Ingress("", FromInt(0), 2)) :
        s \in DeploymentSelectors, t \in ServiceSelectors, e \in {<< >>}} \cup
     {Document(n, Deployment(<< >>, << >>), Service(" " :> "x", t, l), Ingress(r[1], r[2], 2)) :
        n \in {"", " ns"}, t \in Targets, l \in {0, 2}, r \in Routes}}
WithSecret(type, data, label) ==
  [Document("", Recreated, Service(<< >>, FromInt(0), 0), Ingress("", FromInt(0), 2)) EXCEPT
     !.secrets = <<[name |-> " a", type |-> type, data |-> data, sound |-> TRUE]>>,
     !.nodeSelector = label :> " a"]
Secretive ==
  {Body(WithSecret(t, f, k), "source") :
     t \in {"", "registry-auth"}, f \in {" " :> "x", "b" :> "x"}, k \in {" app", "zone"}}

Legacy(id, services, web) ==
  [instanceId |-> id, network |-> "",
   deployments |-> <<[serviceName |-> "A", deploymentName |-> "b", image |-> "x",
                      podRevision |-> "", replicas |-> 0, ports |-> << >>, env |-> << >>,
                      sound |-> TRUE]>>,
   services |-> services,
   ingress |-> [gatewayService |-> "A", webService |-> web, webPort |-> 2]]
LegacyFiles ==
  {[Body(Legacy(id, <<[name |-> n, port |-> 1, listenPort |-> 0, targetPort |-> 0]>>, w), "source")
      EXCEPT !.legacy = TRUE] :
     id \in {" ", "A"}, n \in {"A", "b"}, w \in {"", "A"}}

AllFiles == Sources \cup {Escaping, PaddedKey, Forbidding} \cup Secretive \cup LegacyFiles

\* A document everybody accepts, for the same Runtime as most of the files.
MCOther ==
  NormalizeRuntime(Document("", Deployment(<< >>, << >>), Service(<< >>, FromInt(0), 3),
                            Ingress("/", FromInt(0), 4)))

MCPolicies ==
  <<[token |-> "t1", role |-> "admin"], [token |-> "t2", role |-> " Operator"],
    [token |-> "t3", role |-> "viewer"], [token |-> "t1", role |-> "viewer"]>>
MCNodeLabels == "app" :> "a"

Lines(E, M, T) == [endpoint : E, method : M, token : T]
AnyRequest ==
  Lines({"runtime"}, {"PUT", "DELETE"}, Credentials) \cup
  Lines({"reconcile"}, {"POST"}, Credentials) \cup
  Lines({"runtime", "runtime/status"}, {"GET", "POST"}, {"t1"}) \cup
  Lines({"validate", "instances", "audit"}, {"GET", "POST", "DELETE"}, {"t1", "t2"}) \cup
  Lines({"runtime/events", "healthz", "other"}, {"GET", "PUT"}, {"t3"})

\* One file meets every request and a second client that competes for its
\* Runtime; those whose spec files are refused, a client that reads; the others
\* are applied, in both ways there are.
MCTraffic ==
  [f \in AllFiles |->
     IF f = Plainest
     THEN [c1 |-> AnyRequest, c2 |-> Lines({"runtime"}, {"PUT", "DELETE"}, {"t1"})]
     ELSE IF f \in {Escaping, PaddedKey}
     THEN [c1 |-> Lines({"runtime"}, {"PUT", "DELETE"}, {"t1"}),
           c2 |-> Lines({"runtime"}, {"GET"}, {"t3"})]
     ELSE [c1 |-> Lines({"runtime"}, {"PUT"}, {"t1"}) \cup Lines({"reconcile"}, {"POST"}, {"t2"}),
           c2 |-> {}]]
=============================================================================
