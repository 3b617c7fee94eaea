----------------------------- MODULE Documents -----------------------------
(***************************************************************************)
(* What ParseRuntimeDocument makes of the text of a Runtime document: the  *)
(* refusal of template tokens, legacy conversion, normalisation and        *)
(* validation, and the forms in which the agent and its client write the   *)
(* document down again.                                                    *)
(*                                                                         *)
(* A string is a member of Texts; what the code does to strings (TrimSpace, *)
(* ToLower, the DNS label pattern, sanitizeLegacyName, having a leading    *)
(* "/") is a table over Texts.  Fields that normalisation leaves alone and *)
(* validation only looks at (resources, health check, volumes, environment *)
(* sources, base64) are one flag "sound"; the text of a document that may  *)
(* hold a template token is in "env".                                      *)
(***************************************************************************)
EXTENDS Integers, Sequences

CONSTANTS
  Texts,     \* the strings of documents, "" among them
  Trim,      \* strings.TrimSpace
  Fold,      \* strings.ToLower(strings.TrimSpace(_))
  Rooted,    \* Rooted[t]: "/" + t where t has no leading "/", else t
  Labels,    \* the strings dnsLabelRE accepts
  Sanitize,  \* sanitizeLegacyName
  Templated  \* strings a JSON encoder writes with a template token in them

Strings == [Texts -> Texts]

ASSUME TextsAssumption ==
  /\ {"", "app", "default", "current", "rollingupdate", "opaque", "public", "/", "*", "/api"}
       \subseteq Texts
  /\ {Trim, Fold, Rooted, Sanitize} \subseteq Strings
  /\ Labels \subseteq Texts /\ Templated \subseteq Texts
  /\ \A t \in Texts :
       /\ Trim[Trim[t]] = Trim[t] /\ Trim[Fold[t]] = Fold[t] /\ Fold[Fold[t]] = Fold[t]
       /\ Fold[t] = "" <=> Trim[t] = ""
       /\ Trim[t] # "" => LET u == Rooted[Trim[t]]
                          IN u # "" /\ Trim[u] = u /\ Rooted[u] = u
  /\ \A t \in Labels \cup {"", "app", "default", "current", "opaque", "/"} : Trim[t] = t
  /\ Fold["rollingupdate"] = "rollingupdate" /\ Rooted["/"] = "/"

Blank(t) == Trim[t] = ""

\* IntOrString
FromInt(n) == [int |-> n, str |-> ""]
FromString(t) == [int |-> 0, str |-> Trim[t]]
IsZero(v) == v.int = 0 /\ Blank(v.str)

\* The first string that is not blank.
FirstOf(s, t) == IF Blank(s) THEN Trim[t] ELSE Trim[s]
Default(s, t) == IF Blank(s) THEN t ELSE s
Put(m, k, v) == [x \in DOMAIN m \cup {k} |-> IF x = k THEN v ELSE m[x]]
Elements(s) == {s[i] : i \in DOMAIN s}
Map(s, Op(_)) == [i \in DOMAIN s |-> Op(s[i])]
DistinctNames(s) == \A i, j \in DOMAIN s : s[i].name = s[j].name => i = j

-----------------------------------------------------------------------------
(* The form of a document: its fields, and its strings where the code looks at *)
(* more than whether they are blank.                                           *)

IsMap(f) == DOMAIN f \subseteq Texts /\ \A k \in DOMAIN f : f[k] \in Texts

IsSecret(s) ==
  /\ DOMAIN s = {"name", "type", "data", "sound"}
  /\ {s.name, s.type} \subseteq Texts /\ IsMap(s.data)

IsDeployment(d) ==
  /\ DOMAIN d = {"name", "serviceName", "image", "revision", "podRevision", "replicas", "strategy",
                 "rolling", "pullSecrets", "selector", "ports", "env", "sound"}
  /\ {d.name, d.serviceName, d.image, d.revision, d.podRevision, d.strategy} \subseteq Texts
  /\ Elements(d.pullSecrets) \subseteq Texts /\ IsMap(d.selector) /\ IsMap(d.env)

IsService(s) ==
  /\ DOMAIN s = {"name", "selector", "port", "listenPort", "targetPort", "protocol"}
  /\ s.name \in Texts /\ IsMap(s.selector)

IsRoute(r) == DOMAIN r = {"path", "service", "port"} /\ {r.path, r.service} \subseteq Texts
IsIngress(g) ==
  /\ DOMAIN g = {"name", "provider", "host", "listenPort", "routes"}
  /\ g.name \in Texts /\ \A r \in Elements(g.routes) : IsRoute(r)

IsDocument(d) ==
  /\ DOMAIN d = {"kind", "name", "namespace", "network", "nodeName", "nodeSelector", "secrets",
                 "deployments", "services", "ingress"}
  /\ {d.name, d.namespace, d.nodeName} \subseteq Texts /\ IsMap(d.nodeSelector)
  /\ \A s \in Elements(d.secrets) : IsSecret(s)
  /\ \A p \in Elements(d.deployments) : IsDeployment(p)
  /\ \A s \in Elements(d.services) : IsService(s)
  /\ \A g \in Elements(d.ingress) : IsIngress(g)

IsLegacy(l) ==
  /\ l.instanceId \in Texts
  /\ \A d \in Elements(l.deployments) :
       {d.serviceName, d.deploymentName, d.image, d.podRevision} \subseteq Texts /\ IsMap(d.env)
  /\ \A s \in Elements(l.services) : s.name \in Texts
  /\ {l.ingress.gatewayService, l.ingress.webService} \subseteq Texts

-----------------------------------------------------------------------------
(* NormalizeRuntime *)

\* trimStringMap: blank keys go; the value of a padded key replaces that of the
\* key it is trimmed to (of two padded forms of one key Go's map order decides).
TrimStringMap(f) ==
  [k \in {Trim[x] : x \in DOMAIN f} \ {""} |->
     LET padded == {x \in DOMAIN f \ {k} : Trim[x] = k}
     IN Trim[f[IF padded = {} THEN k ELSE CHOOSE x \in padded : TRUE]]]

NormalizeSecret(s) ==
  [s EXCEPT !.name = Trim[@], !.type = Fold[Default(@, "opaque")],
            !.data = TrimStringMap(@)]

\* replicas is << >> or <<n>>, rolling << >> or <<maxUnavailable, maxSurge>>.
\* The selector is given its default before its keys are trimmed.
NormalizeDeployment(d) ==
  LET name == FirstOf(d.name, d.serviceName)
      type == Default(Fold[d.strategy], "rollingupdate")
      labelled == Blank(name) \/ ("app" \in DOMAIN d.selector /\ ~Blank(d.selector["app"]))
  IN [d EXCEPT
        !.name = name, !.serviceName = Trim[@], !.image = Trim[@],
        !.revision = Default(FirstOf(@, d.podRevision), "current"),
        !.replicas = IF @ = << >> THEN <<1>> ELSE @,
        !.strategy = type,
        !.rolling = IF @ = << >> /\ type = "rollingupdate" THEN <<0, 1>> ELSE @,
        !.pullSecrets = Map(@, LAMBDA t : Trim[t]),
        !.selector = TrimStringMap(IF labelled THEN @ ELSE Put(@, "app", name)),
        !.env = TrimStringMap(@)]

NormalizeService(s) ==
  LET name == Trim[s.name]
  IN [s EXCEPT
        !.name = name,
        !.selector = TrimStringMap(IF @ = << >> /\ ~Blank(name) THEN [app |-> name] ELSE @),
        !.listenPort = IF @ = 0 THEN s.port ELSE @,
        !.targetPort = IF IsZero(@) THEN FromInt(s.port) ELSE @,
        !.protocol = Default(@, "http")]

CleanIngressPath(t) == IF Blank(t) THEN "/" ELSE Rooted[Trim[t]]

ServicesNamed(services, t) == {s \in Elements(services) : s.name = Trim[t]}

NormalizeRoute(services, r) ==
  LET found == ServicesNamed(services, r.service)
  IN [r EXCEPT
        !.path = CleanIngressPath(@), !.service = Trim[@],
        !.port = IF IsZero(@) /\ found # {}
                 THEN FromInt((CHOOSE s \in found : TRUE).port) ELSE @]

NormalizeIngress(services, g) ==
  [g EXCEPT !.name = Trim[@], !.host = Default(@, "*"),
            !.provider = Default(@, "builtin"),
            !.routes = Map(@, LAMBDA r : NormalizeRoute(services, r))]

NormalizeRuntime(d) ==
  LET services == Map(d.services, NormalizeService)
  IN [d EXCEPT
        !.kind = Default(@, "Runtime"), !.name = Trim[@],
        !.namespace = Default(Trim[@], "default"),
        !.network = Default(@, "aifar-runtime"), !.nodeName = Trim[@],
        !.nodeSelector = TrimStringMap(@),
        !.secrets = Map(@, NormalizeSecret),
        !.deployments = Map(@, NormalizeDeployment),
        !.services = services,
        !.ingress = Map(@, LAMBDA g : NormalizeIngress(services, g))]

KeyForRuntime(d) == <<Default(Trim[d.namespace], "default"), Trim[d.name]>>

-----------------------------------------------------------------------------
(* ValidateRuntime, of a document it has normalised *)

ValidSecret(s) ==
  /\ s.name \in Labels /\ s.type \in {"opaque", "registry-auth", "dockerconfigjson"}
  /\ s.data # << >> /\ s.sound

\* A rolling update must be allowed to remove or to add something.
ValidStrategy(d) ==
  /\ d.strategy \in {"rollingupdate", "recreate"}
  /\ \A n \in Elements(d.rolling) : n >= 0
  /\ d.rolling = <<0, 0>> => d.strategy = "recreate"

ValidDeployment(d, secrets) ==
  /\ d.name \in Labels /\ d.image # "" /\ d.replicas[1] >= 0 /\ ValidStrategy(d)
  /\ \A t \in Elements(d.pullSecrets) :
       \E s \in Elements(secrets) : s.name = t /\ s.type # "opaque"
  /\ \A p \in Elements(d.ports) : p.number > 0 /\ (Blank(p.name) \/ p.name \in Labels)
  /\ d.sound

\* labelsMatch: a label that is missing reads as "".
LabelOf(d, k) == IF k \in DOMAIN d.selector THEN d.selector[k] ELSE ""
MatchingDeployments(doc, selector) ==
  {d \in Elements(doc.deployments) :
     selector # << >> /\ \A k \in DOMAIN selector : LabelOf(d, k) = selector[k]}

\* resolveServiceTargetPort finds a number.
ResolvesTargetPort(s, deployments) ==
  \/ s.targetPort.int > 0
  \/ /\ ~Blank(s.targetPort.str)
     /\ \E d \in deployments : \E p \in Elements(d.ports) :
          p.name = Trim[s.targetPort.str] /\ p.number > 0

ValidService(s, doc) ==
  /\ s.name \in Labels /\ s.selector # << >>
  /\ s.port > 0 /\ s.listenPort > 0 /\ ~IsZero(s.targetPort) /\ Fold[s.protocol] = "http"
  /\ MatchingDeployments(doc, s.selector) # {}
  /\ ResolvesTargetPort(s, MatchingDeployments(doc, s.selector))

ValidRoute(r, doc) ==
  \E s \in Elements(doc.services) :
    /\ s.name = r.service
    /\ \/ IsZero(r.port)
       \/ r.port = FromInt(s.port)
       \/ r.port.str = s.name

ValidIngress(g, doc) ==
  /\ g.name \in Labels /\ Fold[g.provider] = "builtin" /\ g.listenPort > 0
  /\ g.listenPort \notin {s.listenPort : s \in Elements(doc.services)}
  /\ g.routes # << >> /\ \A r \in Elements(g.routes) : ValidRoute(r, doc)

ValidateRuntime(d) ==
  /\ d.kind = "Runtime" /\ d.name \in Labels /\ d.namespace \in Labels
  /\ d.nodeName \in Labels \cup {""}
  /\ \A k \in DOMAIN d.nodeSelector : d.nodeSelector[k] # ""
  /\ d.deployments # << >> /\ d.services # << >>
  /\ DistinctNames(d.secrets) /\ \A s \in Elements(d.secrets) : ValidSecret(s)
  /\ DistinctNames(d.deployments)
  /\ \A p \in Elements(d.deployments) : ValidDeployment(p, d.secrets)
  /\ DistinctNames(d.services) /\ \A s \in Elements(d.services) : ValidService(s, d)
  /\ \A i, j \in DOMAIN d.services :
       d.services[i].listenPort = d.services[j].listenPort => i = j
  /\ \A g \in Elements(d.ingress) : ValidIngress(g, d)

-----------------------------------------------------------------------------
(* Legacy documents *)

LegacyService(s) ==
  [name |-> Sanitize[s.name], selector |-> [app |-> Sanitize[s.name]], port |-> s.port,
   listenPort |-> IF s.listenPort = 0 THEN s.port ELSE s.listenPort,
   targetPort |-> FromInt(IF s.targetPort = 0 THEN s.port ELSE s.targetPort),
   protocol |-> ""]

LegacyDeployment(d) ==
  LET name == IF Sanitize[d.serviceName] = "" THEN Sanitize[d.deploymentName]
              ELSE Sanitize[d.serviceName]
  IN [name |-> name, serviceName |-> "", image |-> d.image, revision |-> d.podRevision,
      podRevision |-> "", replicas |-> <<IF d.replicas = 0 THEN 1 ELSE d.replicas>>,
      strategy |-> "", rolling |-> << >>, pullSecrets |-> << >>,
      selector |-> [app |-> name], ports |-> d.ports, env |-> d.env, sound |-> d.sound]

\* One ingress, when there is a web service with a port: "/" and, in front of
\* it, "/api" for the gateway.
LegacyIngress(g) ==
  LET route(p, t) == [path |-> p, service |-> Sanitize[t], port |-> FromInt(0)]
      api == IF g.gatewayService = "" THEN << >> ELSE <<route("/api", g.gatewayService)>>
  IN IF g.webPort > 0 /\ g.webService # ""
     THEN <<[name |-> "public", provider |-> "builtin", host |-> "*",
             listenPort |-> g.webPort, routes |-> Append(api, route("/", g.webService))]>>
     ELSE << >>

ToRuntime(l) ==
  NormalizeRuntime(
    [kind |-> "Runtime", name |-> Sanitize[FirstOf(l.instanceId, "default")],
     namespace |-> "default", network |-> l.network, nodeName |-> "",
     nodeSelector |-> << >>, secrets |-> << >>,
     deployments |-> Map(l.deployments, LegacyDeployment),
     services |-> Map(l.services, LegacyService), ingress |-> LegacyIngress(l.ingress)])

-----------------------------------------------------------------------------
(* Bodies and files *)

(* A text that holds a document.  Layout "source" is what somebody wrote (YAML, *)
(* where a character can be escaped, so that only "tokens" tells whether the    *)
(* text has a template token); "indented" is MustJSONRuntime, "compact" is      *)
(* json.Marshal, whose text always ends with the two braces that close the spec *)
(* and the document.                                                            *)
Body(doc, layout) ==
  [doc |-> doc, legacy |-> FALSE, layout |-> layout, tokens |-> FALSE,
   forbidden |-> FALSE, huge |-> FALSE]

\* Mutant: the state store writes compact JSON.
CompactSpecFile(doc) == Body(doc, "compact")

\* What SaveRuntime writes, and what putRuntime sends.
SpecFile(doc) == Body(NormalizeRuntime(doc), "indented")
ClientBody(doc) == Body(doc, "compact")

TextsOf(d) == UNION {{p.env[k] : k \in DOMAIN p.env} : p \in Elements(d.deployments)}

\* The keys of the maps in a document, which its author chooses.
EnvKeys(d) == UNION {DOMAIN p.env : p \in Elements(d.deployments)}
MapKeys(d) ==
  EnvKeys(d) \cup DOMAIN d.nodeSelector
    \cup UNION {DOMAIN s.data : s \in Elements(d.secrets)}
    \cup UNION {DOMAIN p.selector : p \in Elements(d.deployments)}
    \cup UNION {DOMAIN s.selector : s \in Elements(d.services)}

\* rejectRenderedRuntimeHazards: "{{", "}}", "${" or "<%" anywhere in the text.
HasTemplateToken(b) ==
  CASE b.layout = "source" -> b.tokens
    [] b.layout = "compact" -> TRUE
    [] b.layout = "indented" -> TextsOf(b.doc) \cap Templated # {}

\* A status, or hasForbiddenField: a key of the text, at any depth, is the forbidden
\* one to the letter.  "forbidden" stands for the keys that are not those of a map.
Projections == "registryProjections"
HasForbiddenField(b) ==
  b.forbidden \/ Projections \in (IF b.legacy THEN EnvKeys(b.doc) ELSE MapKeys(b.doc))

\* The form ParseRuntimeDocument returns: ValidateRuntime normalises what it is
\* given again, and shares its slices and maps with the caller.
Parsed(b) ==
  IF b.legacy THEN NormalizeRuntime(ToRuntime(b.doc))
  ELSE NormalizeRuntime(NormalizeRuntime(b.doc))

\* ParseRuntimeDocument succeeds.
Accepts(b) == ~HasTemplateToken(b) /\ ~HasForbiddenField(b) /\ ValidateRuntime(Parsed(b))

\* Nothing in the indented text of a document makes ParseRuntimeDocument refuse it: no
\* token that was escaped, no forbidden key that was padded in the text it came from.
Readable(d) == TextsOf(d) \cap Templated = {} /\ Projections \notin MapKeys(d)
============================================================================
