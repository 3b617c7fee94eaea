----------------------------- MODULE ApiProofs -----------------------------
(***************************************************************************)
(* Theorems about module Api, for any texts, policies, files, traffic and  *)
(* number of clients: what roles may do, what the audit events say, that   *)
(* the documents the agent holds come back unchanged from their spec       *)
(* files, and what a GET answers with.                                     *)
(***************************************************************************)
EXTENDS Api, TLAPS

-----------------------------------------------------------------------------
(* Strings and maps *)

\* What the table of TrimSpace says of every string and of the constants of the code.
LEMMA TrimFacts ==
  /\ \A t \in Texts : Trim[t] \in Texts /\ Trim[Trim[t]] = Trim[t]
  /\ "app" \in Texts /\ "default" \in Texts /\ "current" \in Texts /\ Trim["app"] = "app"
  /\ Trim["default"] = "default" /\ Trim["current"] = "current" /\ Trim["opaque"] = "opaque"
  /\ Trim["/"] = "/"
<1>1. /\ Trim \in Strings /\ \A t \in Texts : Trim[Trim[t]] = Trim[t]
      /\ {"app", "default", "current"} \subseteq Texts
      /\ \A t \in {"app", "default", "current", "opaque", "/"} : Trim[t] = t
  BY TextsAssumption, Zenon
<1>2. \A t \in Texts : Trim[t] \in Texts
  BY <1>1 DEF Strings
<1>3. "app" \in Texts /\ "default" \in Texts /\ "current" \in Texts
  BY <1>1, Zenon
<1>4. /\ Trim["app"] = "app" /\ Trim["default"] = "default"
      /\ Trim["current"] = "current" /\ Trim["opaque"] = "opaque" /\ Trim["/"] = "/"
  BY <1>1, Zenon
<1> QED BY <1>1, <1>2, <1>3, <1>4

\* The empty string is a string, and blank.
LEMMA EmptyFacts == "" \in Texts /\ Trim[""] = "" /\ Blank("")
<1>1. "" \in Texts /\ Trim[""] = ""
  BY TextsAssumption, Zenon
<1> QED BY <1>1, Zenon DEF Blank

\* What the other tables say, and which constants of the code are not blank.
LEMMA FoldFacts ==
  /\ \A t \in Texts : /\ Fold[t] \in Texts /\ Trim[Fold[t]] = Fold[t] /\ Fold[Fold[t]] = Fold[t]
                      /\ Blank(Fold[t]) <=> Blank(t)
                      /\ Blank(Trim[t]) <=> Blank(t)
  /\ "opaque" \in Texts /\ "rollingupdate" \in Texts /\ "*" \in Texts /\ "/" \in Texts
  /\ Trim["rollingupdate"] = "rollingupdate" /\ Fold["rollingupdate"] = "rollingupdate"
  /\ ~Blank("app") /\ ~Blank("default") /\ ~Blank("current") /\ ~Blank("opaque") /\ ~Blank("/")
  /\ ~Blank("rollingupdate")
<1>1. /\ {"opaque", "rollingupdate", "*", "/"} \subseteq Texts /\ Fold \in Strings
      /\ \A t \in Texts : /\ Trim[Trim[t]] = Trim[t] /\ Trim[Fold[t]] = Fold[t]
                          /\ Fold[Fold[t]] = Fold[t] /\ (Fold[t] = "" <=> Trim[t] = "")
      /\ Fold["rollingupdate"] = "rollingupdate"
  BY TextsAssumption, Zenon
<1>2. "opaque" \in Texts /\ "rollingupdate" \in Texts /\ "*" \in Texts /\ "/" \in Texts
  BY <1>1, Zenon
<1>3. \A t \in Texts : Fold[t] \in Texts
  <2>1. Fold \in [Texts -> Texts]
    BY <1>1, Zenon DEF Strings
  <2> QED BY <2>1
<1>4. \A t \in Texts : (Blank(Fold[t]) <=> Blank(t)) /\ (Blank(Trim[t]) <=> Blank(t))
  <2> TAKE t \in Texts
  <2>1. Trim[Trim[t]] = Trim[t] /\ Trim[Fold[t]] = Fold[t] /\ (Fold[t] = "" <=> Trim[t] = "")
    BY <1>1, Zenon
  <2> QED BY <2>1, Zenon DEF Blank
<1>5. Trim["rollingupdate"] = "rollingupdate"
  BY <1>1, <1>2, Zenon
<1>6. /\ ~Blank("app") /\ ~Blank("default") /\ ~Blank("current") /\ ~Blank("opaque") /\ ~Blank("/")
      /\ ~Blank("rollingupdate")
  BY TrimFacts, <1>5, Zenon DEF Blank
<1>7. \A t \in Texts : Trim[Fold[t]] = Fold[t] /\ Fold[Fold[t]] = Fold[t]
  BY <1>1, Zenon
<1> QED BY <1>1, <1>2, <1>3, <1>4, <1>5, <1>6, <1>7, Zenon

\* A default is applied once; the first string that is not blank is found once.
LEMMA DefaultOnce ==
  /\ \A s, t : Default(Default(s, t), t) = Default(s, t)
  /\ \A s, t : Default(s, t) = s \/ Default(s, t) = t
  /\ \A s, t : ~Blank(s) => Default(s, t) = s
  /\ \A s, t : ~Blank(t) => ~Blank(Default(s, t))
BY DEF Default

\* What FirstOf returns is trimmed, and FirstOf returns it again.
LEMMA FirstOfFacts ==
  ASSUME NEW s \in Texts, NEW t \in Texts
  PROVE  /\ FirstOf(s, t) \in Texts /\ Trim[FirstOf(s, t)] = FirstOf(s, t)
         /\ Blank(FirstOf(s, t)) => Blank(s) /\ Blank(t)
         /\ FirstOf(FirstOf(s, t), Trim[t]) = FirstOf(s, t)
BY TrimFacts, FoldFacts DEF FirstOf

\* cleanIngressPath cleans once.
LEMMA PathFacts ==
  ASSUME NEW t \in Texts
  PROVE  /\ CleanIngressPath(t) \in Texts
         /\ CleanIngressPath(CleanIngressPath(t)) = CleanIngressPath(t)
<1>1. PICK u : u = CleanIngressPath(t)
  OBVIOUS
<1>2. Rooted \in Strings /\ Rooted["/"] = "/"
  BY TextsAssumption, Zenon
<1>3. CASE Blank(t)
  <2>1. u = "/"
    BY <1>1, <1>3 DEF CleanIngressPath
  <2>2. CleanIngressPath("/") = "/" /\ "/" \in Texts
    BY <1>2, TrimFacts, FoldFacts DEF CleanIngressPath
  <2> QED BY <1>1, <2>1, <2>2
<1>4. CASE ~Blank(t)
  <2>1. u = Rooted[Trim[t]] /\ Trim[t] \in Texts
    BY <1>1, <1>4, TrimFacts DEF CleanIngressPath
  <2>2. u \in Texts
    BY <1>2, <2>1 DEF Strings
  <2>3. u # "" /\ Trim[u] = u /\ Rooted[u] = u
    BY <1>4, <2>1, TextsAssumption, Zenon DEF Blank
  <2>4. ~Blank(u) /\ Trim[u] = u /\ Rooted[u] = u
    BY <2>3, Zenon DEF Blank
  <2> QED BY <1>1, <2>2, <2>4 DEF CleanIngressPath
<1> QED BY <1>3, <1>4

\* The keys of the map trimStringMap makes of f, and where it finds the value of k.
TrimmedKeys(f) == {Trim[x] : x \in DOMAIN f} \ {""}

PaddedForms(f, k) == {x \in DOMAIN f \ {k} : Trim[x] = k}
SourceOf(f, k) == IF PaddedForms(f, k) = {} THEN k ELSE CHOOSE x \in PaddedForms(f, k) : TRUE

\* The keys and the values of the map trimStringMap makes.
LEMMA TrimMapForm ==
  ASSUME NEW f, NEW K, K = TrimmedKeys(f)
  PROVE  /\ TrimStringMap(f) = [k \in K |-> Trim[f[SourceOf(f, k)]]]
         /\ \A k \in K : k \in DOMAIN f \/ SourceOf(f, k) # k
         /\ \A k \in K : SourceOf(f, k) = k \/ (SourceOf(f, k) \in DOMAIN f /\ Trim[SourceOf(f, k)] = k)
<1>1. TrimStringMap(f) = [k \in K |-> Trim[f[SourceOf(f, k)]]]
  BY Zenon DEF TrimStringMap, SourceOf, PaddedForms, TrimmedKeys
<1>2. \A k \in K : \E x \in DOMAIN f : Trim[x] = k
  BY Zenon DEF TrimmedKeys
<1>3. ASSUME NEW k \in K
      PROVE  /\ k \in DOMAIN f \/ SourceOf(f, k) # k
             /\ SourceOf(f, k) = k \/ (SourceOf(f, k) \in DOMAIN f /\ Trim[SourceOf(f, k)] = k)
  <2> DEFINE P == PaddedForms(f, k)
  <2>2. SourceOf(f, k) = IF P = {} THEN k ELSE CHOOSE x \in P : TRUE
    BY DEF SourceOf
  <2>3. PICK x \in DOMAIN f : Trim[x] = k
    BY <1>2
  <2>4. P = {} => k \in DOMAIN f
    <3>1. k \notin DOMAIN f => x \in P
      BY <2>3 DEF PaddedForms
    <3> QED BY <3>1
  <2>5. P # {} => (CHOOSE y \in P : TRUE) \in P
    OBVIOUS
  <2> HIDE DEF P
  <2>6. P # {} => SourceOf(f, k) \in P
    BY <2>2, <2>5
  <2>7. P # {} => /\ SourceOf(f, k) # k /\ SourceOf(f, k) \in DOMAIN f
                  /\ Trim[SourceOf(f, k)] = k
    BY <2>6 DEF P, PaddedForms
  <2>8. P = {} => SourceOf(f, k) = k
    BY <2>2
  <2> QED BY <2>4, <2>7, <2>8
<1> QED BY <1>1, <1>3

\* A map that trimStringMap has made.
IsTrimmed(f) ==
  /\ f = [k \in DOMAIN f |-> f[k]]
  /\ \A k \in DOMAIN f : Trim[k] = k /\ k # "" /\ Trim[f[k]] = f[k]

\* trimStringMap leaves no blank key and nothing padded ...
LEMMA TrimMapFacts ==
  ASSUME NEW f, IsMap(f)
  PROVE  IsMap(TrimStringMap(f)) /\ IsTrimmed(TrimStringMap(f))
<1>1. PICK g : g = TrimStringMap(f)
  OBVIOUS
<1>2. PICK K : K = TrimmedKeys(f)
  OBVIOUS
<1>3. \A t \in Texts : Trim[t] \in Texts /\ Trim[Trim[t]] = Trim[t]
  BY TrimFacts
<1>4. \A k \in K : k # "" /\ \E x \in DOMAIN f : k = Trim[x]
  BY <1>2, Zenon DEF TrimmedKeys
<1>5. \A k \in K : k \in Texts /\ Trim[k] = k
  BY <1>3, <1>4 DEF IsMap
<1>6. DOMAIN g = K /\ g = [k \in K |-> g[k]] /\ \A k \in K : g[k] = Trim[f[SourceOf(f, k)]]
  BY <1>1, <1>2, TrimMapForm
<1>7. ASSUME NEW k \in K
      PROVE  g[k] \in Texts /\ Trim[g[k]] = g[k]
  <2>1. SourceOf(f, k) \in DOMAIN f
    BY <1>2, TrimMapForm
  <2>2. f[SourceOf(f, k)] \in Texts
    BY <2>1 DEF IsMap
  <2> QED BY <1>3, <1>6, <2>2
<1>8. IsMap(g)
  BY <1>5, <1>6, <1>7 DEF IsMap
<1>9. IsTrimmed(g)
  BY <1>4, <1>5, <1>6, <1>7, Zenon DEF IsTrimmed
<1> QED BY <1>1, <1>8, <1>9

\* ... and changes nothing of a map of this form.
LEMMA TrimmedStays ==
  ASSUME NEW f, IsTrimmed(f)
  PROVE  TrimStringMap(f) = f
<1>1. PICK g : g = TrimStringMap(f)
  OBVIOUS
<1>2. PICK K : K = TrimmedKeys(f)
  OBVIOUS
<1>3. \A k \in DOMAIN f : Trim[k] = k /\ k # "" /\ Trim[f[k]] = f[k]
  BY Zenon DEF IsTrimmed
<1>4. \A k : k \in K <=> k \in DOMAIN f
  <2>1. \A k : k \in K <=> k # "" /\ \E x \in DOMAIN f : k = Trim[x]
    BY <1>2, Zenon DEF TrimmedKeys
  <2>2. ASSUME NEW k \in K PROVE k \in DOMAIN f
    <3>1. PICK x \in DOMAIN f : k = Trim[x]
      BY <2>1, Zenon
    <3>2. k = x
      BY <1>3, <3>1, Zenon
    <3> QED BY <3>2
  <2>3. ASSUME NEW k \in DOMAIN f PROVE k \in K
    <3>1. k # "" /\ k = Trim[k]
      BY <1>3, Zenon
    <3>2. \E x \in DOMAIN f : k = Trim[x]
      BY <3>1, Zenon
    <3> QED BY <2>1, <3>1, <3>2, Zenon
  <2> QED BY <2>2, <2>3
<1>5. K = DOMAIN f
  BY <1>4
<1>6. DOMAIN g = K /\ g = [k \in K |-> g[k]] /\ \A k \in K : g[k] = Trim[f[SourceOf(f, k)]]
  BY <1>1, <1>2, TrimMapForm
<1>7. ASSUME NEW k \in DOMAIN f
      PROVE  g[k] = f[k]
  <2>1. SourceOf(f, k) = k \/ (SourceOf(f, k) \in DOMAIN f /\ Trim[SourceOf(f, k)] = k)
    BY <1>2, <1>5, TrimMapForm
  <2>2. SourceOf(f, k) = k
    BY <1>3, <2>1
  <2> QED BY <1>3, <1>5, <1>6, <2>2
<1>8. f = [k \in DOMAIN f |-> f[k]]
  BY Zenon DEF IsTrimmed
<1>9. g = f
  BY <1>5, <1>6, <1>7, <1>8
<1> QED BY <1>1, <1>9

-----------------------------------------------------------------------------
(* Normal forms: a second or a third pass of NormalizeRuntime changes nothing *)

IsFunction(f) == f = [x \in DOMAIN f |-> f[x]]

\* Two documents, or two parts of one, are equal if all their fields are.
LEMMA Extensionality ==
  ASSUME NEW f, NEW g, IsFunction(f), IsFunction(g), DOMAIN f = DOMAIN g,
         \A x \in DOMAIN f : f[x] = g[x]
  PROVE  f = g
BY DEF IsFunction

\* The fields of a secret that is normalised.
LEMMA SecretForm ==
  ASSUME NEW s, IsSecret(s), NEW e, e = NormalizeSecret(s)
  PROVE  /\ IsFunction(e) /\ DOMAIN e = {"name", "type", "data", "sound"}
         /\ e.name = Trim[s.name] /\ e.type = Fold[Default(s.type, "opaque")]
         /\ e.data = TrimStringMap(s.data) /\ e.sound = s.sound
BY DEF IsSecret, NormalizeSecret, IsFunction

\* One pass leaves nothing to do for a second one.
LEMMA SecretOnce ==
  ASSUME NEW s, IsSecret(s)
  PROVE  IsSecret(NormalizeSecret(s)) /\ NormalizeSecret(NormalizeSecret(s)) = NormalizeSecret(s)
<1>1. PICK e, h : e = NormalizeSecret(s) /\ h = NormalizeSecret(e)
  OBVIOUS
<1>2. s.name \in Texts /\ s.type \in Texts /\ IsMap(s.data)
  BY DEF IsSecret
<1>3. PICK t : t = Default(s.type, "opaque")
  OBVIOUS
<1>4. t \in Texts /\ ~Blank(t)
  BY <1>2, <1>3, FoldFacts DEF Default
<1>5. e.type = Fold[t] /\ e.name = Trim[s.name] /\ e.data = TrimStringMap(s.data)
  BY <1>1, <1>3, SecretForm
<1>6. IsSecret(e)
  BY <1>1, <1>2, <1>4, <1>5, SecretForm, TrimFacts, FoldFacts, TrimMapFacts DEF IsSecret
<1>7. h.name = e.name /\ h.data = e.data
  BY <1>1, <1>2, <1>5, <1>6, SecretForm, TrimFacts, TrimMapFacts, TrimmedStays
<1>8. h.type = e.type
  <2>1. Default(e.type, "opaque") = e.type
    BY <1>4, <1>5, FoldFacts DEF Default
  <2> QED BY <1>1, <1>4, <1>5, <1>6, <2>1, SecretForm, FoldFacts
<1>9. /\ IsFunction(e) /\ IsFunction(h) /\ DOMAIN e = DOMAIN h /\ h.sound = e.sound
      /\ DOMAIN e = {"name", "type", "data", "sound"}
  BY <1>1, <1>6, SecretForm
<1>10. \A x \in DOMAIN h : h[x] = e[x]
  BY <1>7, <1>8, <1>9
<1> QED BY <1>1, <1>6, <1>9, <1>10, Extensionality

\* Whether the pods of a deployment are labelled with its name already.
Labelled(name, f) == Blank(name) \/ ("app" \in DOMAIN f /\ ~Blank(f["app"]))

\* The fields of a deployment that is normalised.
DeploymentFields(d, e) ==
  /\ IsFunction(e) /\ DOMAIN e = DOMAIN d
  /\ e.name = FirstOf(d.name, d.serviceName)
  /\ e.serviceName = Trim[d.serviceName] /\ e.image = Trim[d.image]
  /\ e.revision = Default(FirstOf(d.revision, d.podRevision), "current")
  /\ e.podRevision = d.podRevision
  /\ e.replicas = (IF d.replicas = << >> THEN <<1>> ELSE d.replicas)
  /\ e.strategy = Default(Fold[d.strategy], "rollingupdate")
  /\ e.rolling = (IF d.rolling = << >> /\ e.strategy = "rollingupdate"
                  THEN <<0, 1>> ELSE d.rolling)
  /\ e.pullSecrets = [i \in DOMAIN d.pullSecrets |-> Trim[d.pullSecrets[i]]]
  /\ e.selector = TrimStringMap(IF Labelled(e.name, d.selector) THEN d.selector
                                ELSE Put(d.selector, "app", e.name))
  /\ e.ports = d.ports /\ e.env = TrimStringMap(d.env) /\ e.sound = d.sound

LEMMA DeploymentForm ==
  ASSUME NEW d, IsDeployment(d), NEW e, e = NormalizeDeployment(d)
  PROVE  DeploymentFields(d, e)
BY ZenonT(40) DEF IsDeployment, NormalizeDeployment, IsFunction, Labelled, Map, DeploymentFields

\* A map of one label.
LEMMA AppFacts ==
  ASSUME NEW v
  PROVE  /\ IsFunction([app |-> v]) /\ DOMAIN [app |-> v] = {"app"} /\ [app |-> v]["app"] = v
         /\ [app |-> v] # << >>
BY DEF IsFunction

\* The map of labels that trimStringMap is given is trimmed if the map and the name are.
LEMMA LabelFacts ==
  ASSUME NEW f, IsTrimmed(f), NEW v, Trim[v] = v
  PROVE  IsTrimmed(Put(f, "app", v)) /\ IsTrimmed([app |-> v])
<1>1. "app" # "" /\ Trim["app"] = "app"
  BY TrimFacts, FoldFacts, Zenon DEF Blank
<1>2. PICK g : g = Put(f, "app", v)
  OBVIOUS
<1>3. IsFunction(g) /\ DOMAIN g = {"app"} \cup DOMAIN f /\ g["app"] = v
      /\ \A x \in DOMAIN f \ {"app"} : g[x] = f[x]
  BY <1>2 DEF Put, IsFunction
<1>4. ASSUME NEW k \in DOMAIN g PROVE Trim[k] = k /\ k # "" /\ Trim[g[k]] = g[k]
  <2>1. CASE k = "app"
    BY <1>1, <1>3, <2>1, Zenon
  <2>2. CASE k # "app"
    <3>1. k \in DOMAIN f /\ g[k] = f[k]
      BY <1>3, <2>2
    <3> QED BY <3>1, Zenon DEF IsTrimmed
  <2> QED BY <2>1, <2>2
<1>5. IsTrimmed(g)
  <2>1. g = [k \in DOMAIN g |-> g[k]]
    BY <1>3 DEF IsFunction
  <2> QED BY <1>4, <2>1, Zenon DEF IsTrimmed
<1>6. PICK a : a = [app |-> v]
  OBVIOUS
<1>7. IsFunction(a) /\ DOMAIN a = {"app"} /\ a["app"] = v
  BY <1>6, AppFacts
<1>8. ASSUME NEW k \in DOMAIN a PROVE Trim[k] = k /\ k # "" /\ Trim[a[k]] = a[k]
  <2>1. k = "app"
    BY <1>7
  <2> QED BY <1>1, <1>7, <2>1, Zenon
<1>9. IsTrimmed(a)
  BY <1>7, <1>8, Zenon DEF IsTrimmed, IsFunction
<1> QED BY <1>2, <1>5, <1>6, <1>9

\* Of a deployment, one pass leaves nothing to do but for the label of its pods.
LEMMA DeploymentPass ==
  ASSUME NEW d, IsDeployment(d), NEW e, e = NormalizeDeployment(d),
         NEW h, h = NormalizeDeployment(e)
  PROVE  /\ IsDeployment(e) /\ e.name \in Texts /\ Trim[e.name] = e.name /\ IsTrimmed(e.selector)
         /\ IsFunction(e) /\ DOMAIN h = DOMAIN e
         /\ \A x \in DOMAIN e \ {"selector"} : h[x] = e[x]
<1>1. DeploymentFields(d, e)
  BY DeploymentForm
<1>2. /\ d.name \in Texts /\ d.serviceName \in Texts /\ d.image \in Texts /\ d.revision \in Texts
      /\ d.podRevision \in Texts /\ d.strategy \in Texts /\ Elements(d.pullSecrets) \subseteq Texts
      /\ IsMap(d.selector) /\ IsMap(d.env)
  BY DEF IsDeployment
<1>3. /\ e.name \in Texts /\ Trim[e.name] = e.name
      /\ FirstOf(e.name, e.serviceName) = e.name
  BY <1>1, <1>2, FirstOfFacts DEF DeploymentFields
<1>4. /\ e.serviceName \in Texts /\ Trim[e.serviceName] = e.serviceName
      /\ e.image \in Texts /\ Trim[e.image] = e.image
  BY <1>1, <1>2, TrimFacts DEF DeploymentFields
<1>5. e.revision \in Texts /\ Trim[e.revision] = e.revision /\ ~Blank(e.revision)
  <2>1. PICK r : r = FirstOf(d.revision, d.podRevision)
    OBVIOUS
  <2>2. r \in Texts /\ Trim[r] = r
    BY <1>2, <2>1, FirstOfFacts
  <2>3. e.revision = Default(r, "current")
    BY <1>1, <2>1 DEF DeploymentFields
  <2> QED BY <2>2, <2>3, TrimFacts, FoldFacts DEF Default
<1>6. Default(FirstOf(e.revision, e.podRevision), "current") = e.revision
  BY <1>5 DEF FirstOf, Default
<1>7. e.strategy \in Texts /\ Default(Fold[e.strategy], "rollingupdate") = e.strategy
  <2>1. e.strategy = Default(Fold[d.strategy], "rollingupdate")
    BY <1>1 DEF DeploymentFields
  <2>2. Fold[d.strategy] \in Texts /\ Fold[Fold[d.strategy]] = Fold[d.strategy]
    BY <1>2, FoldFacts
  <2>3. Fold[e.strategy] = e.strategy /\ e.strategy \in Texts
    BY <2>1, <2>2, FoldFacts, DefaultOnce
  <2> QED BY <2>1, <2>3, DefaultOnce
<1>8. e.pullSecrets = [k \in DOMAIN d.pullSecrets |-> Trim[d.pullSecrets[k]]]
  BY <1>1 DEF DeploymentFields
<1>9. \A k \in DOMAIN d.pullSecrets : d.pullSecrets[k] \in Texts
  BY <1>2 DEF Elements
<1>10. /\ DOMAIN e.pullSecrets = DOMAIN d.pullSecrets
       /\ \A k \in DOMAIN e.pullSecrets : /\ e.pullSecrets[k] \in Texts
                                          /\ Trim[e.pullSecrets[k]] = e.pullSecrets[k]
  BY <1>8, <1>9, TrimFacts
<1>11. [k \in DOMAIN e.pullSecrets |-> Trim[e.pullSecrets[k]]] = e.pullSecrets
  BY <1>8, <1>10
<1>12. Elements(e.pullSecrets) \subseteq Texts
  BY <1>10 DEF Elements
<1>13. IsMap(e.env) /\ IsTrimmed(e.env)
  BY <1>1, <1>2, TrimMapFacts DEF DeploymentFields
<1>14. IsMap(e.selector) /\ IsTrimmed(e.selector)
  <2>1. PICK f : /\ f = IF Labelled(e.name, d.selector) THEN d.selector
                        ELSE Put(d.selector, "app", e.name)
                 /\ e.selector = TrimStringMap(f)
    BY <1>1 DEF DeploymentFields
  <2>2. IsMap(Put(d.selector, "app", e.name))
    BY <1>2, <1>3, TrimFacts DEF IsMap, Put
  <2>3. IsMap(f)
    BY <1>2, <2>1, <2>2
  <2> QED BY <2>1, <2>3, TrimMapFacts
<1>15. /\ DOMAIN d = {"name", "serviceName", "image", "revision", "podRevision", "replicas",
             "strategy", "rolling", "pullSecrets", "selector", "ports", "env", "sound"}
       /\ DOMAIN e = DOMAIN d /\ e.podRevision \in Texts /\ IsFunction(e)
  BY <1>1, <1>2 DEF IsDeployment, DeploymentFields
<1>16. IsDeployment(e)
  BY <1>3, <1>4, <1>5, <1>7, <1>12, <1>13, <1>14, <1>15 DEF IsDeployment
<1>17. DeploymentFields(e, h)
  BY <1>16, DeploymentForm
<1>18. /\ DOMAIN h = DOMAIN e /\ h.name = e.name /\ h.serviceName = e.serviceName
       /\ h.image = e.image /\ h.revision = e.revision /\ h.podRevision = e.podRevision
       /\ h.strategy = e.strategy /\ h.ports = e.ports /\ h.sound = e.sound
  BY <1>17, <1>3, <1>4, <1>6, <1>7, <1>16 DEF DeploymentFields
<1>19. h.pullSecrets = e.pullSecrets /\ h.env = e.env
  BY <1>17, <1>11, <1>13, <1>16, TrimmedStays DEF DeploymentFields
<1>20. h.replicas = e.replicas
  <2>1. e.replicas = (IF d.replicas = << >> THEN <<1>> ELSE d.replicas)
    BY <1>1 DEF DeploymentFields
  <2>2. h.replicas = (IF e.replicas = << >> THEN <<1>> ELSE e.replicas)
    BY <1>17 DEF DeploymentFields
  <2> QED BY <2>1, <2>2
<1>21. h.rolling = e.rolling
  <2>1. e.rolling = (IF d.rolling = << >> /\ e.strategy = "rollingupdate"
                     THEN <<0, 1>> ELSE d.rolling)
    BY <1>1 DEF DeploymentFields
  <2>2. h.rolling = (IF e.rolling = << >> /\ e.strategy = "rollingupdate"
                     THEN <<0, 1>> ELSE e.rolling)
    BY <1>17, <1>16, <1>18 DEF DeploymentFields
  <2> QED BY <2>1, <2>2
<1>22. \A x \in DOMAIN e \ {"selector"} : h[x] = e[x]
  BY <1>15, <1>18, <1>19, <1>20, <1>21
<1> QED BY <1>3, <1>14, <1>15, <1>16, <1>18, <1>22

\* The second pass can label the pods (when the first has trimmed "app" to blank); the
\* third has nothing left to do.
LEMMA DeploymentTwice ==
  ASSUME NEW d, IsDeployment(d), NEW e, e = NormalizeDeployment(d),
         NEW h, h = NormalizeDeployment(e)
  PROVE  IsDeployment(e) /\ IsDeployment(h) /\ NormalizeDeployment(h) = h
<1>1. PICK g : g = NormalizeDeployment(h)
  OBVIOUS
<1>2. /\ IsDeployment(e) /\ e.name \in Texts /\ Trim[e.name] = e.name /\ IsTrimmed(e.selector)
      /\ h.name = e.name
  <2>1. "name" \in DOMAIN e \ {"selector"}
    BY DeploymentPass DEF IsDeployment
  <2> QED BY <2>1, DeploymentPass
<1>3. /\ IsDeployment(h) /\ IsTrimmed(h.selector) /\ IsFunction(h) /\ DOMAIN g = DOMAIN h
      /\ \A x \in DOMAIN h \ {"selector"} : g[x] = h[x]
  BY <1>1, <1>2, DeploymentPass
<1>4. g.name = h.name
  BY <1>3 DEF IsDeployment
<1>5. h.selector = TrimStringMap(IF Labelled(h.name, e.selector) THEN e.selector
                                 ELSE Put(e.selector, "app", h.name))
  <2>1. DeploymentFields(e, h)
    BY <1>2, DeploymentForm
  <2> QED BY <2>1 DEF DeploymentFields
<1>6. g.selector = TrimStringMap(IF Labelled(h.name, h.selector) THEN h.selector
                                 ELSE Put(h.selector, "app", h.name))
  <2>1. DeploymentFields(h, g)
    BY <1>1, <1>3, DeploymentForm
  <2> QED BY <1>4, <2>1 DEF DeploymentFields
<1>7. Labelled(h.name, h.selector)
  <2>1. CASE Labelled(h.name, e.selector)
    BY <1>2, <1>5, <2>1, TrimmedStays
  <2>2. CASE ~Labelled(h.name, e.selector)
    <3>1. PICK f : f = Put(e.selector, "app", h.name)
      OBVIOUS
    <3>2. IsTrimmed(f)
      BY <1>2, <3>1, LabelFacts
    <3>3. h.selector = f
      BY <1>5, <2>2, <3>1, <3>2, TrimmedStays
    <3>4. "app" \in DOMAIN f /\ f["app"] = h.name
      BY <3>1 DEF Put
    <3> QED BY <2>2, <3>3, <3>4 DEF Labelled
  <2> QED BY <2>1, <2>2
<1>8. g.selector = h.selector
  BY <1>3, <1>6, <1>7, TrimmedStays
<1>9. IsFunction(g)
  BY <1>1, <1>3, DeploymentForm DEF DeploymentFields
<1>10. \A x \in DOMAIN g : g[x] = h[x]
  BY <1>3, <1>8
<1>11. g = h
  BY <1>3, <1>9, <1>10, Extensionality
<1> QED BY <1>1, <1>2, <1>3, <1>11

\* The fields of a service that is normalised.
ServiceFields(s, e) ==
  /\ IsFunction(e) /\ DOMAIN e = DOMAIN s /\ e.name = Trim[s.name] /\ e.port = s.port
  /\ e.selector = TrimStringMap(IF s.selector = << >> /\ ~Blank(e.name)
                                THEN [app |-> e.name] ELSE s.selector)
  /\ e.listenPort = (IF s.listenPort = 0 THEN s.port ELSE s.listenPort)
  /\ e.targetPort = (IF IsZero(s.targetPort) THEN FromInt(s.port) ELSE s.targetPort)
  /\ e.protocol = Default(s.protocol, "http")

LEMMA ServiceForm ==
  ASSUME NEW s, IsService(s), NEW e, e = NormalizeService(s)
  PROVE  ServiceFields(s, e)
BY DEF IsService, NormalizeService, IsFunction, ServiceFields

\* Of a service, one pass leaves nothing to do but for its selector.
LEMMA ServicePass ==
  ASSUME NEW s, IsService(s), NEW e, e = NormalizeService(s), NEW h, h = NormalizeService(e)
  PROVE  /\ IsService(e) /\ Trim[e.name] = e.name /\ IsTrimmed(e.selector)
         /\ IsFunction(e) /\ DOMAIN h = DOMAIN e
         /\ \A x \in DOMAIN e \ {"selector"} : h[x] = e[x]
<1>1. ServiceFields(s, e)
  BY ServiceForm
<1>2. /\ s.name \in Texts /\ IsMap(s.selector)
      /\ DOMAIN s = {"name", "selector", "port", "listenPort", "targetPort", "protocol"}
  BY DEF IsService
<1>3. e.name \in Texts /\ Trim[e.name] = e.name
  BY <1>1, <1>2, TrimFacts DEF ServiceFields
<1>4. IsMap(e.selector) /\ IsTrimmed(e.selector)
  <2>1. PICK f : /\ f = IF s.selector = << >> /\ ~Blank(e.name) THEN [app |-> e.name] ELSE s.selector
                 /\ e.selector = TrimStringMap(f)
    BY <1>1 DEF ServiceFields
  <2>2. IsMap([app |-> e.name])
    BY <1>3, TrimFacts DEF IsMap
  <2>3. IsMap(f)
    BY <1>2, <2>1, <2>2
  <2> QED BY <2>1, <2>3, TrimMapFacts
<1>5. IsFunction(e) /\ DOMAIN e = DOMAIN s
  BY <1>1 DEF ServiceFields
<1>6. IsService(e)
  BY <1>2, <1>3, <1>4, <1>5 DEF IsService
<1>7. ServiceFields(e, h)
  BY <1>6, ServiceForm
<1>8. DOMAIN h = DOMAIN e /\ h.name = e.name /\ h.port = e.port
  BY <1>3, <1>7 DEF ServiceFields
<1>9. h.listenPort = e.listenPort /\ h.targetPort = e.targetPort
  BY <1>1, <1>7 DEF ServiceFields
<1>10. h.protocol = e.protocol
  BY <1>1, <1>7, DefaultOnce DEF ServiceFields
<1>11. \A x \in DOMAIN e \ {"selector"} : h[x] = e[x]
  BY <1>2, <1>5, <1>8, <1>9, <1>10
<1> QED BY <1>3, <1>4, <1>5, <1>6, <1>8, <1>11

\* The second pass can give a service its selector (when the keys of the one it had were
\* blank); the third has nothing left to do.
LEMMA ServiceTwice ==
  ASSUME NEW s, IsService(s), NEW e, e = NormalizeService(s), NEW h, h = NormalizeService(e)
  PROVE  IsService(e) /\ IsService(h) /\ NormalizeService(h) = h
<1>1. PICK g : g = NormalizeService(h)
  OBVIOUS
<1>2. IsService(e) /\ Trim[e.name] = e.name /\ IsTrimmed(e.selector) /\ h.name = e.name
  <2>1. "name" \in DOMAIN e \ {"selector"}
    BY ServicePass DEF IsService
  <2> QED BY <2>1, ServicePass
<1>3. /\ IsService(h) /\ IsTrimmed(h.selector) /\ IsFunction(h) /\ DOMAIN g = DOMAIN h
      /\ \A x \in DOMAIN h \ {"selector"} : g[x] = h[x]
  BY <1>1, <1>2, ServicePass
<1>4. g.name = h.name
  BY <1>3 DEF IsService
<1>5. ServiceFields(e, h) /\ ServiceFields(h, g)
  BY <1>1, <1>2, <1>3, ServiceForm
<1>6. h.selector = TrimStringMap(IF e.selector = << >> /\ ~Blank(h.name)
                                 THEN [app |-> h.name] ELSE e.selector)
  BY <1>5 DEF ServiceFields
<1>7. g.selector = TrimStringMap(IF h.selector = << >> /\ ~Blank(h.name)
                                 THEN [app |-> h.name] ELSE h.selector)
  BY <1>4, <1>5 DEF ServiceFields
<1>8. ~(h.selector = << >> /\ ~Blank(h.name))
  <2>1. CASE ~(e.selector = << >> /\ ~Blank(h.name))
    BY <1>2, <1>6, <2>1, TrimmedStays
  <2>2. CASE e.selector = << >> /\ ~Blank(h.name)
    <3>1. PICK f : f = [app |-> h.name]
      OBVIOUS
    <3>2. IsTrimmed(f)
      BY <1>2, <3>1, LabelFacts
    <3>3. h.selector = f
      BY <1>6, <2>2, <3>1, <3>2, TrimmedStays
    <3> QED BY <3>1, <3>3, AppFacts
  <2> QED BY <2>1, <2>2
<1>9. g.selector = h.selector
  BY <1>3, <1>7, <1>8, TrimmedStays
<1>10. IsFunction(g)
  BY <1>5 DEF ServiceFields
<1>11. \A x \in DOMAIN g : g[x] = h[x]
  BY <1>3, <1>9
<1>12. g = h
  BY <1>3, <1>10, <1>11, Extensionality
<1> QED BY <1>1, <1>2, <1>3, <1>12

\* The fields of a route that is normalised, and a second pass over the same services.
RouteFields(services, r, e) ==
  /\ IsFunction(e) /\ DOMAIN e = DOMAIN r
  /\ e.path = CleanIngressPath(r.path) /\ e.service = Trim[r.service]
  /\ e.port = (IF IsZero(r.port) /\ ServicesNamed(services, r.service) # {}
               THEN FromInt((CHOOSE s \in ServicesNamed(services, r.service) : TRUE).port)
               ELSE r.port)

LEMMA RouteForm ==
  ASSUME NEW services, NEW r, IsRoute(r), NEW e, e = NormalizeRoute(services, r)
  PROVE  RouteFields(services, r, e)
BY DEF IsRoute, NormalizeRoute, IsFunction, RouteFields

LEMMA RouteOnce ==
  ASSUME NEW services, NEW r, IsRoute(r), NEW e, e = NormalizeRoute(services, r)
  PROVE  IsRoute(e) /\ NormalizeRoute(services, e) = e
<1>1. PICK h : h = NormalizeRoute(services, e)
  OBVIOUS
<1>2. RouteFields(services, r, e)
  BY RouteForm
<1>3. r.path \in Texts /\ r.service \in Texts /\ DOMAIN r = {"path", "service", "port"}
  BY DEF IsRoute
<1>4. /\ e.path \in Texts /\ CleanIngressPath(e.path) = e.path
      /\ e.service \in Texts /\ Trim[e.service] = e.service
      /\ IsFunction(e) /\ DOMAIN e = DOMAIN r /\ e.service = Trim[r.service]
  BY <1>2, <1>3, PathFacts, TrimFacts DEF RouteFields
<1>5. IsRoute(e)
  BY <1>3, <1>4 DEF IsRoute
<1>6. RouteFields(services, e, h)
  BY <1>1, <1>5, RouteForm
<1>7. ServicesNamed(services, e.service) = ServicesNamed(services, r.service)
  BY <1>4 DEF ServicesNamed
<1>8. h.port = e.port
  BY <1>2, <1>6, <1>7 DEF RouteFields
<1>9. h.path = e.path /\ h.service = e.service /\ IsFunction(h) /\ DOMAIN h = DOMAIN e
  BY <1>4, <1>6 DEF RouteFields
<1>10. \A x \in DOMAIN h : h[x] = e[x]
  BY <1>3, <1>4, <1>8, <1>9
<1>11. h = e
  BY <1>4, <1>9, <1>10, Extensionality
<1> QED BY <1>1, <1>5, <1>11

\* The fields of an ingress that is normalised, and a second pass over the same services.
IngressFields(services, g, e) ==
  /\ IsFunction(e) /\ DOMAIN e = DOMAIN g /\ e.name = Trim[g.name] /\ e.listenPort = g.listenPort
  /\ e.host = Default(g.host, "*") /\ e.provider = Default(g.provider, "builtin")
  /\ e.routes = [i \in DOMAIN g.routes |-> NormalizeRoute(services, g.routes[i])]

LEMMA IngressForm ==
  ASSUME NEW services, NEW g, IsIngress(g), NEW e, e = NormalizeIngress(services, g)
  PROVE  IngressFields(services, g, e)
BY DEF IsIngress, NormalizeIngress, IsFunction, IngressFields, Map

LEMMA IngressOnce ==
  ASSUME NEW services, NEW g, IsIngress(g), NEW e, e = NormalizeIngress(services, g)
  PROVE  IsIngress(e) /\ NormalizeIngress(services, e) = e
<1>1. PICK h : h = NormalizeIngress(services, e)
  OBVIOUS
<1>2. IngressFields(services, g, e)
  BY IngressForm
<1>3. /\ DOMAIN g = {"name", "provider", "host", "listenPort", "routes"} /\ g.name \in Texts
      /\ \A i \in DOMAIN g.routes : IsRoute(g.routes[i])
  BY DEF IsIngress, Elements
<1>4. e.name \in Texts /\ Trim[e.name] = e.name /\ IsFunction(e) /\ DOMAIN e = DOMAIN g
  BY <1>2, <1>3, TrimFacts DEF IngressFields
<1>5. /\ DOMAIN e.routes = DOMAIN g.routes
      /\ \A i \in DOMAIN e.routes : e.routes[i] = NormalizeRoute(services, g.routes[i])
      /\ e.routes = [i \in DOMAIN e.routes |-> e.routes[i]]
  BY <1>2 DEF IngressFields
<1>6. \A i \in DOMAIN e.routes :
        IsRoute(e.routes[i]) /\ NormalizeRoute(services, e.routes[i]) = e.routes[i]
  BY <1>3, <1>5, RouteOnce
<1>7. IsIngress(e)
  BY <1>3, <1>4, <1>6 DEF IsIngress, Elements
<1>8. IngressFields(services, e, h)
  BY <1>1, <1>7, IngressForm
<1>9. h.routes = e.routes
  <2>1. h.routes = [i \in DOMAIN e.routes |-> NormalizeRoute(services, e.routes[i])]
    BY <1>8 DEF IngressFields
  <2> QED BY <1>5, <1>6, <2>1
<1>10. h.host = e.host /\ h.provider = e.provider
  BY <1>2, <1>8, DefaultOnce DEF IngressFields
<1>11. h.name = e.name /\ h.listenPort = e.listenPort /\ IsFunction(h) /\ DOMAIN h = DOMAIN e
  BY <1>4, <1>8 DEF IngressFields
<1>12. \A x \in DOMAIN h : h[x] = e[x]
  BY <1>3, <1>4, <1>9, <1>10, <1>11
<1>13. h = e
  BY <1>4, <1>11, <1>12, Extensionality
<1> QED BY <1>1, <1>7, <1>13

\* The fields of a document that is normalised.
DocumentFields(d, e) ==
  /\ IsFunction(e) /\ DOMAIN e = DOMAIN d
  /\ e.kind = Default(d.kind, "Runtime") /\ e.name = Trim[d.name]
  /\ e.namespace = Default(Trim[d.namespace], "default")
  /\ e.network = Default(d.network, "aifar-runtime") /\ e.nodeName = Trim[d.nodeName]
  /\ e.nodeSelector = TrimStringMap(d.nodeSelector)
  /\ e.secrets = [i \in DOMAIN d.secrets |-> NormalizeSecret(d.secrets[i])]
  /\ e.deployments = [i \in DOMAIN d.deployments |-> NormalizeDeployment(d.deployments[i])]
  /\ e.services = [i \in DOMAIN d.services |-> NormalizeService(d.services[i])]
  /\ e.ingress = [i \in DOMAIN d.ingress |-> NormalizeIngress(e.services, d.ingress[i])]

LEMMA DocumentForm ==
  ASSUME NEW d, IsDocument(d), NEW e, e = NormalizeRuntime(d)
  PROVE  DocumentFields(d, e)
BY DEF IsDocument, NormalizeRuntime, IsFunction, DocumentFields, Map

\* The parts of a document, as positions.
LEMMA PartsFacts ==
  ASSUME NEW d
  PROVE  IsDocument(d) <=>
           /\ DOMAIN d = {"kind", "name", "namespace", "network", "nodeName", "nodeSelector",
                          "secrets", "deployments", "services", "ingress"}
           /\ d.name \in Texts /\ d.namespace \in Texts /\ d.nodeName \in Texts
           /\ IsMap(d.nodeSelector)
           /\ \A i \in DOMAIN d.secrets : IsSecret(d.secrets[i])
           /\ \A i \in DOMAIN d.deployments : IsDeployment(d.deployments[i])
           /\ \A i \in DOMAIN d.services : IsService(d.services[i])
           /\ \A i \in DOMAIN d.ingress : IsIngress(d.ingress[i])
BY DEF IsDocument, Elements

\* One pass keeps the form of a document and is the last one for its own strings.
LEMMA DocumentPass ==
  ASSUME NEW d, IsDocument(d), NEW e, e = NormalizeRuntime(d)
  PROVE  /\ IsDocument(e) /\ IsFunction(e) /\ IsTrimmed(e.nodeSelector)
         /\ Trim[e.name] = e.name /\ Trim[e.nodeName] = e.nodeName
         /\ Default(Trim[e.namespace], "default") = e.namespace
<1>1. DocumentFields(d, e)
  BY DocumentForm
<1>2. /\ DOMAIN d = {"kind", "name", "namespace", "network", "nodeName", "nodeSelector",
                     "secrets", "deployments", "services", "ingress"}
      /\ d.name \in Texts /\ d.namespace \in Texts /\ d.nodeName \in Texts
      /\ IsMap(d.nodeSelector)
      /\ \A i \in DOMAIN d.secrets : IsSecret(d.secrets[i])
      /\ \A i \in DOMAIN d.deployments : IsDeployment(d.deployments[i])
      /\ \A i \in DOMAIN d.services : IsService(d.services[i])
      /\ \A i \in DOMAIN d.ingress : IsIngress(d.ingress[i])
  BY PartsFacts
<1>3. e.name \in Texts /\ Trim[e.name] = e.name /\ e.nodeName \in Texts /\ Trim[e.nodeName] = e.nodeName
  BY <1>1, <1>2, TrimFacts DEF DocumentFields
<1>4. e.namespace \in Texts /\ Default(Trim[e.namespace], "default") = e.namespace
  <2>1. e.namespace = Default(Trim[d.namespace], "default") /\ Trim[d.namespace] \in Texts
        /\ Trim[Trim[d.namespace]] = Trim[d.namespace]
    BY <1>1, <1>2, TrimFacts DEF DocumentFields
  <2> QED BY <2>1, TrimFacts, FoldFacts DEF Default
<1>5. IsMap(e.nodeSelector) /\ IsTrimmed(e.nodeSelector)
  BY <1>1, <1>2, TrimMapFacts DEF DocumentFields
<1>6. \A i \in DOMAIN e.secrets : IsSecret(e.secrets[i])
  <2>1. e.secrets = [i \in DOMAIN d.secrets |-> NormalizeSecret(d.secrets[i])]
    BY <1>1 DEF DocumentFields
  <2> QED BY <1>2, <2>1, SecretOnce
<1>7. \A i \in DOMAIN e.deployments : IsDeployment(e.deployments[i])
  <2>1. e.deployments = [i \in DOMAIN d.deployments |-> NormalizeDeployment(d.deployments[i])]
    BY <1>1 DEF DocumentFields
  <2> QED BY <1>2, <2>1, DeploymentTwice
<1>8. \A i \in DOMAIN e.services : IsService(e.services[i])
  <2>1. e.services = [i \in DOMAIN d.services |-> NormalizeService(d.services[i])]
    BY <1>1 DEF DocumentFields
  <2> QED BY <1>2, <2>1, ServiceTwice
<1>9. \A i \in DOMAIN e.ingress : IsIngress(e.ingress[i])
  <2>1. e.ingress = [i \in DOMAIN d.ingress |-> NormalizeIngress(e.services, d.ingress[i])]
    BY <1>1 DEF DocumentFields
  <2> QED BY <1>2, <2>1, IngressOnce
<1>10. IsFunction(e) /\ DOMAIN e = DOMAIN d
  BY <1>1 DEF DocumentFields
<1>11. IsDocument(e)
  BY <1>2, <1>3, <1>4, <1>5, <1>6, <1>7, <1>8, <1>9, <1>10, PartsFacts
<1> QED BY <1>3, <1>4, <1>5, <1>10, <1>11

\* What two passes of NormalizeRuntime return, a third one leaves alone.
LEMMA DocumentTwice ==
  ASSUME NEW d, IsDocument(d), NEW e, e = NormalizeRuntime(d), NEW h, h = NormalizeRuntime(e)
  PROVE  IsDocument(h) /\ NormalizeRuntime(h) = h
<1>1. PICK g : g = NormalizeRuntime(h)
  OBVIOUS
<1>2. IsDocument(e) /\ IsDocument(h) /\ IsDocument(g) /\ IsFunction(g) /\ IsFunction(h)
  BY <1>1, DocumentPass
<1>3. DocumentFields(d, e) /\ DocumentFields(e, h) /\ DocumentFields(h, g)
  BY <1>1, <1>2, DocumentForm, SMTT(30)
<1>4. g.name = h.name /\ g.nodeName = h.nodeName /\ g.namespace = h.namespace
  <2>1. /\ Trim[h.name] = h.name /\ Trim[h.nodeName] = h.nodeName
        /\ Default(Trim[h.namespace], "default") = h.namespace
    BY <1>2, DocumentPass
  <2> QED BY <1>3, <2>1 DEF DocumentFields
<1>5. g.kind = h.kind /\ g.network = h.network
  BY <1>3, DefaultOnce DEF DocumentFields
<1>6. g.nodeSelector = h.nodeSelector
  <2>1. IsTrimmed(h.nodeSelector) /\ g.nodeSelector = TrimStringMap(h.nodeSelector)
    BY <1>2, <1>3, DocumentPass DEF DocumentFields
  <2> QED BY <2>1, TrimmedStays, SMTT(30)
<1>7. /\ \A i \in DOMAIN d.secrets : IsSecret(d.secrets[i])
      /\ \A i \in DOMAIN d.deployments : IsDeployment(d.deployments[i])
      /\ \A i \in DOMAIN d.services : IsService(d.services[i])
  BY PartsFacts
<1>8. g.secrets = h.secrets
  <2>1. /\ e.secrets = [i \in DOMAIN d.secrets |-> NormalizeSecret(d.secrets[i])]
        /\ h.secrets = [i \in DOMAIN e.secrets |-> NormalizeSecret(e.secrets[i])]
        /\ g.secrets = [i \in DOMAIN h.secrets |-> NormalizeSecret(h.secrets[i])]
    BY <1>3 DEF DocumentFields
  <2>2. \A i \in DOMAIN d.secrets : NormalizeSecret(e.secrets[i]) = e.secrets[i]
    BY <1>7, <2>1, SecretOnce
  <2>3. \A i \in DOMAIN d.secrets : h.secrets[i] = e.secrets[i] /\ g.secrets[i] = h.secrets[i]
    BY <2>1, <2>2
  <2> QED BY <2>1, <2>3, ZenonT(40)
<1>9. g.deployments = h.deployments
  <2>1. /\ e.deployments = [i \in DOMAIN d.deployments |-> NormalizeDeployment(d.deployments[i])]
        /\ h.deployments = [i \in DOMAIN e.deployments |-> NormalizeDeployment(e.deployments[i])]
        /\ g.deployments = [i \in DOMAIN h.deployments |-> NormalizeDeployment(h.deployments[i])]
    BY <1>3 DEF DocumentFields
  <2>2. \A i \in DOMAIN d.deployments : NormalizeDeployment(h.deployments[i]) = h.deployments[i]
    BY <1>7, <2>1, DeploymentTwice
  <2> QED BY <2>1, <2>2
<1>10. g.services = h.services
  <2>1. /\ e.services = [i \in DOMAIN d.services |-> NormalizeService(d.services[i])]
        /\ h.services = [i \in DOMAIN e.services |-> NormalizeService(e.services[i])]
        /\ g.services = [i \in DOMAIN h.services |-> NormalizeService(h.services[i])]
    BY <1>3 DEF DocumentFields
  <2>2. \A i \in DOMAIN d.services : NormalizeService(h.services[i]) = h.services[i]
    BY <1>7, <2>1, ServiceTwice
  <2> QED BY <2>1, <2>2
<1>11. g.ingress = h.ingress
  <2>1. /\ h.ingress = [i \in DOMAIN e.ingress |-> NormalizeIngress(h.services, e.ingress[i])]
        /\ g.ingress = [i \in DOMAIN h.ingress |-> NormalizeIngress(h.services, h.ingress[i])]
    BY <1>3, <1>10, ZenonT(40) DEF DocumentFields
  <2>2. \A i \in DOMAIN e.ingress : IsIngress(e.ingress[i])
    BY <1>2, PartsFacts
  <2>3. \A i \in DOMAIN e.ingress : NormalizeIngress(h.services, h.ingress[i]) = h.ingress[i]
    BY <2>1, <2>2, IngressOnce
  <2> QED BY <2>1, <2>3, SMTT(30)
<1>12. \A x \in DOMAIN g : g[x] = h[x]
  <2>1. DOMAIN g = {"kind", "name", "namespace", "network", "nodeName", "nodeSelector",
                    "secrets", "deployments", "services", "ingress"}
    BY <1>2, PartsFacts
  <2> QED BY <1>4, <1>5, <1>6, <1>8, <1>9, <1>10, <1>11, <2>1
<1>13. DOMAIN g = DOMAIN h
  BY <1>2 DEF IsDocument
<1>14. g = h
  BY <1>2, <1>12, <1>13, Extensionality
<1> QED BY <1>1, <1>2, <1>14

-----------------------------------------------------------------------------
(* Keys *)

\* The namespace and the name of a key stay what they are when a key is made of them.
LEMMA DefaultFacts ==
  ASSUME NEW t \in Texts
  PROVE  /\ Trim[t] \in Texts /\ Trim[Trim[t]] = Trim[t]
         /\ Default(Trim[t], "default") \in Texts
         /\ Default(Trim[Default(Trim[t], "default")], "default") = Default(Trim[t], "default")
BY TrimFacts, FoldFacts DEF Default

\* A Runtime's key, taken for a path, is the key of that path.
LEMMA KeyFacts ==
  ASSUME NEW d, IsDocument(d)
  PROVE  RuntimeKey(KeyForRuntime(d)) = KeyForRuntime(d)
<1>1. d.name \in Texts /\ d.namespace \in Texts
  BY PartsFacts
<1> QED BY <1>1, DefaultFacts DEF RuntimeKey, KeyForRuntime

-----------------------------------------------------------------------------
(* What is parsed *)

\* What LegacyRuntime makes of a deployment, a service and an ingress.
LEMMA LegacyPartFacts ==
  /\ \A d : {d.serviceName, d.deploymentName, d.image, d.podRevision} \subseteq Texts /\ IsMap(d.env)
              => IsDeployment(LegacyDeployment(d))
  /\ \A s : s.name \in Texts => IsService(LegacyService(s))
<1>1. PICK blank : blank = ""
  OBVIOUS
<1>2. blank \in Texts
  BY <1>1, EmptyFacts, Zenon
<1>3. \A t \in Texts : Sanitize[t] \in Texts
  <2>1. Sanitize \in [Texts -> Texts]
    BY TextsAssumption, Zenon DEF Strings
  <2> QED BY <2>1
<1>4. \A t \in Texts : IsMap([app |-> t])
  <2>1. ASSUME NEW t \in Texts, NEW f, f = [app |-> t] PROVE IsMap(f)
    <3>1. DOMAIN f = {"app"} /\ f["app"] = t
      BY <2>1
    <3> QED BY <2>1, <3>1, TrimFacts DEF IsMap
  <2> QED BY <2>1
<1>5. ASSUME NEW d, {d.serviceName, d.deploymentName, d.image, d.podRevision} \subseteq Texts,
             IsMap(d.env)
      PROVE  IsDeployment(LegacyDeployment(d))
  <2>1. PICK name : name = IF Sanitize[d.serviceName] = blank THEN Sanitize[d.deploymentName]
                           ELSE Sanitize[d.serviceName]
    OBVIOUS
  <2>2. PICK n : n = IF d.replicas = 0 THEN 1 ELSE d.replicas
    OBVIOUS
  <2>3. PICK q : q = [name |-> name, serviceName |-> blank, image |-> d.image,
                      revision |-> d.podRevision, podRevision |-> blank, replicas |-> <<n>>,
                      strategy |-> blank, rolling |-> << >>, pullSecrets |-> << >>,
                      selector |-> [app |-> name], ports |-> d.ports, env |-> d.env, sound |-> d.sound]
    OBVIOUS
  <2>4. LegacyDeployment(d) = q
    BY <1>1, <2>1, <2>2, <2>3, Zenon DEF LegacyDeployment
  <2>5. name \in Texts /\ d.image \in Texts /\ d.podRevision \in Texts
    BY <1>3, <1>5, <2>1
  <2>6. /\ DOMAIN q = {"name", "serviceName", "image", "revision", "podRevision", "replicas",
             "strategy", "rolling", "pullSecrets", "selector", "ports", "env", "sound"}
        /\ q.name = name /\ q.serviceName = blank /\ q.image = d.image /\ q.revision = d.podRevision
        /\ q.podRevision = blank /\ q.strategy = blank /\ q.pullSecrets = << >>
        /\ q.selector = [app |-> name] /\ q.env = d.env
    BY <2>3
  <2>7. Elements(q.pullSecrets) = {}
    BY <2>6 DEF Elements
  <2>8. IsDeployment(q)
    BY <1>2, <1>4, <1>5, <2>5, <2>6, <2>7 DEF IsDeployment
  <2> QED BY <2>4, <2>8
<1>6. ASSUME NEW s, s.name \in Texts
      PROVE  IsService(LegacyService(s))
  <2>1. PICK name, listen, target :
          /\ name = Sanitize[s.name]
          /\ listen = IF s.listenPort = 0 THEN s.port ELSE s.listenPort
          /\ target = FromInt(IF s.targetPort = 0 THEN s.port ELSE s.targetPort)
    OBVIOUS
  <2>2. PICK q : q = [name |-> name, selector |-> [app |-> name], port |-> s.port,
                      listenPort |-> listen, targetPort |-> target, protocol |-> blank]
    OBVIOUS
  <2>3. LegacyService(s) = q
    BY <1>1, <2>1, <2>2, Zenon DEF LegacyService
  <2>4. name \in Texts
    BY <1>3, <1>6, <2>1
  <2>5. IsService(q)
    BY <1>4, <2>2, <2>4 DEF IsService
  <2> QED BY <2>3, <2>5
<1> QED BY <1>5, <1>6

LEMMA LegacyIngressFacts ==
  ASSUME NEW g, {g.gatewayService, g.webService} \subseteq Texts
  PROVE  \A i \in DOMAIN LegacyIngress(g) : IsIngress(LegacyIngress(g)[i])
<1>1. PICK empty : empty = (g.gatewayService = "")
  OBVIOUS
<1>2. PICK public : public = (g.webPort > 0 /\ g.webService # "")
  OBVIOUS
<1>3. PICK zero : zero = FromInt(0)
  OBVIOUS
<1>4. PICK p, t : /\ p = [path |-> "/api", service |-> Sanitize[g.gatewayService], port |-> zero]
                  /\ t = [path |-> "/", service |-> Sanitize[g.webService], port |-> zero]
  OBVIOUS
<1>5. PICK routes : routes = Append(IF empty THEN << >> ELSE <<p>>, t)
  OBVIOUS
<1>6. PICK q : q = [name |-> "public", provider |-> "builtin", host |-> "*",
                    listenPort |-> g.webPort, routes |-> routes]
  OBVIOUS
<1>7. LegacyIngress(g) = IF public THEN <<q>> ELSE << >>
  BY <1>1, <1>2, <1>3, <1>4, <1>5, <1>6, Zenon DEF LegacyIngress
<1>8. "/api" \in Texts /\ "/" \in Texts /\ "public" \in Texts
  BY TextsAssumption, Zenon
<1>9. Sanitize[g.gatewayService] \in Texts /\ Sanitize[g.webService] \in Texts
  <2>1. Sanitize \in [Texts -> Texts]
    BY TextsAssumption, Zenon DEF Strings
  <2> QED BY <2>1
<1>10. IsRoute(p) /\ IsRoute(t)
  BY <1>4, <1>8, <1>9 DEF IsRoute
<1>11. routes \in Seq({p, t})
  <2>1. PICK api : api = IF empty THEN << >> ELSE <<p>>
    OBVIOUS
  <2>2. api \in Seq({p, t})
    <3>1. << >> \in Seq({p, t}) /\ <<p>> \in Seq({p, t})
      OBVIOUS
    <3> QED BY <2>1, <3>1
  <2>3. routes = Append(api, t)
    BY <1>5, <2>1
  <2> QED BY <2>2, <2>3
<1>12. \A i \in DOMAIN routes : IsRoute(routes[i])
  <2>1. \A i \in DOMAIN routes : routes[i] \in {p, t}
    BY <1>11
  <2> QED BY <1>10, <2>1
<1>13. IsIngress(q)
  BY <1>6, <1>8, <1>12 DEF IsIngress, Elements
<1> QED BY <1>7, <1>13

\* A legacy document is converted to one that is normalised once.
LEMMA LegacyFacts ==
  ASSUME NEW l, IsLegacy(l)
  PROVE  \E d : IsDocument(d) /\ ToRuntime(l) = NormalizeRuntime(d)
<1>1. /\ l.instanceId \in Texts
      /\ \A i \in DOMAIN l.deployments :
           /\ {l.deployments[i].serviceName, l.deployments[i].deploymentName,
               l.deployments[i].image, l.deployments[i].podRevision} \subseteq Texts
           /\ IsMap(l.deployments[i].env)
      /\ \A i \in DOMAIN l.services : l.services[i].name \in Texts
      /\ {l.ingress.gatewayService, l.ingress.webService} \subseteq Texts
  BY DEF IsLegacy, Elements
<1>2. PICK blank : blank = ""
  OBVIOUS
<1>3. blank \in Texts
  BY <1>2, EmptyFacts, Zenon
<1>4. PICK name : name = Sanitize[FirstOf(l.instanceId, "default")]
  OBVIOUS
<1>5. name \in Texts /\ "default" \in Texts
  <2>1. Sanitize \in [Texts -> Texts]
    BY TextsAssumption, Zenon DEF Strings
  <2>2. FirstOf(l.instanceId, "default") \in Texts /\ "default" \in Texts
    BY <1>1, TrimFacts, FirstOfFacts
  <2> QED BY <1>4, <2>1, <2>2
<1>6. PICK deployments, services, ingress :
        /\ deployments = Map(l.deployments, LegacyDeployment)
        /\ services = Map(l.services, LegacyService)
        /\ ingress = LegacyIngress(l.ingress)
  OBVIOUS
<1>7. /\ \A i \in DOMAIN deployments : IsDeployment(deployments[i])
      /\ \A i \in DOMAIN services : IsService(services[i])
  BY <1>1, <1>6, LegacyPartFacts DEF Map
<1>8. \A i \in DOMAIN ingress : IsIngress(ingress[i])
  BY <1>1, <1>6, LegacyIngressFacts
<1>9. PICK d : d = [kind |-> "Runtime", name |-> name, namespace |-> "default",
                    network |-> l.network, nodeName |-> blank, nodeSelector |-> << >>,
                    secrets |-> << >>, deployments |-> deployments, services |-> services,
                    ingress |-> ingress]
  OBVIOUS
<1>10. ToRuntime(l) = NormalizeRuntime(d)
  BY <1>2, <1>4, <1>6, <1>9, Zenon DEF ToRuntime
<1>11. IsMap(<< >>)
  BY DEF IsMap
<1>12. /\ DOMAIN d = {"kind", "name", "namespace", "network", "nodeName", "nodeSelector", "secrets",
             "deployments", "services", "ingress"}
       /\ d.name = name /\ d.namespace = "default" /\ d.nodeName = blank /\ d.nodeSelector = << >>
       /\ d.secrets = << >> /\ d.deployments = deployments /\ d.services = services
       /\ d.ingress = ingress
  BY <1>9
<1>13. \A i \in DOMAIN d.secrets : IsSecret(d.secrets[i])
  BY <1>12
<1>14. IsDocument(d)
  BY <1>3, <1>5, <1>7, <1>8, <1>11, <1>12, <1>13, PartsFacts
<1> QED BY <1>10, <1>14

\* What somebody may send holds a document, or one in the legacy form.
Sound(b) == IF b.legacy THEN IsLegacy(b.doc) ELSE IsDocument(b.doc)

\* The document that is parsed, whether it was converted or not, has been normalised twice.
LEMMA ParsedFacts ==
  ASSUME NEW b, Sound(b)
  PROVE  IsDocument(Parsed(b)) /\ NormalizeRuntime(Parsed(b)) = Parsed(b)
<1>1. PICK d : IsDocument(d) /\ Parsed(b) = NormalizeRuntime(NormalizeRuntime(d))
  <2>1. CASE ~b.legacy
    BY <2>1 DEF Sound, Parsed
  <2>2. CASE b.legacy
    <3>1. PICK d : IsDocument(d) /\ ToRuntime(b.doc) = NormalizeRuntime(d)
      BY <2>2, LegacyFacts DEF Sound
    <3> QED BY <2>2, <3>1 DEF Parsed
  <2> QED BY <2>1, <2>2
<1> QED BY <1>1, DocumentTwice

-----------------------------------------------------------------------------
(* Requests *)

\* What Honest says depends on neither the answer nor what a GET has seen.
LEMMA SeenFacts ==
  ASSUME NEW r, Honest(r), NEW S
  PROVE  Honest([r EXCEPT !.seen = S]) /\ Honest([r EXCEPT !.answer = S])
<1>1. ASSUME NEW q, q = [r EXCEPT !.seen = S] \/ q = [r EXCEPT !.answer = S] PROVE Honest(q)
  <2>1. DOMAIN r = DOMAIN Quiet /\ DOMAIN Quiet = {"stage", "role", "operation", "audit", "target",
          "key", "doc", "status", "answer", "event", "changed", "seen", "cli"}
    BY DEF Quiet, Honest
  <2>2. /\ DOMAIN q = DOMAIN Quiet /\ q.stage = r.stage /\ q.role = r.role
        /\ q.operation = r.operation /\ q.audit = r.audit /\ q.target = r.target /\ q.key = r.key
        /\ q.doc = r.doc /\ q.status = r.status /\ q.event = r.event /\ q.changed = r.changed
    BY <1>1, <2>1
  <2>3. (ForApply(q) <=> ForApply(r)) /\ (ForRemove(q) <=> ForRemove(r))
        /\ (Reads(q) <=> Reads(r)) /\ (Ended(q) <=> Ended(r))
    BY <2>2 DEF ForApply, ForRemove, Reads, Ended
  <2>4. Permitted(q) /\ Names(q) /\ Changes(q)
    BY <2>2, <2>3 DEF Honest, Permitted, Names, Changes
  <2>5. Results(q)
    BY <2>2, <2>3 DEF Honest, Results
  <2> QED BY <2>2, <2>4, <2>5 DEF Honest
<1> QED BY <1>1

\* A request that is answered keeps what it had changed, and is answered once.
LEMMA AnswerFacts ==
  ASSUME NEW r, DOMAIN r = DOMAIN Quiet, NEW s \in Statuses, Permitted(r), Names(r),
         s \in {401, 403} => r.changed = {},
         s < 400 /\ r.operation \in {"apply", "legacy-reconcile"} => r.changed # {}
  PROVE  Honest(Answer(r, s))
<1>1. PICK q : q = Answer(r, s)
  OBVIOUS
<1>2. DOMAIN Quiet = {"stage", "role", "operation", "audit", "target", "key",
        "doc", "status", "answer", "event", "changed", "seen", "cli"}
  BY DEF Quiet
<1>3. /\ DOMAIN q = DOMAIN Quiet /\ q.stage = "answered" /\ q.status = <<s>> /\ q.role = r.role
      /\ q.operation = r.operation /\ q.audit = r.audit /\ q.target = r.target
      /\ q.doc = r.doc /\ q.changed = r.changed
  BY <1>1, <1>2 DEF Answer
<1>4. ~ForApply(q) /\ ~ForRemove(q) /\ ~Reads(q) /\ Ended(q)
  BY <1>3 DEF ForApply, ForRemove, Reads, Ended
<1>5. Permitted(q) /\ Names(q) /\ Changes(q)
  BY <1>3, <1>4 DEF Permitted, Names, Changes
<1>6. Results(q)
  BY <1>3, <1>4 DEF Results
<1> QED BY <1>1, <1>3, <1>5, <1>6 DEF Honest

\* A request as it comes in: nothing has been changed for it.
Fresh(r, q, path) ==
  /\ DOMAIN r = DOMAIN Quiet /\ r.stage = "idle" /\ r.changed = {}
  /\ r.operation = Operation(q) /\ r.target = AuditTarget(q, path) /\ r.audit = ShouldAudit(q)

\* What the handler makes of a request that policyAllowsRequest has let through.
LEMMA HandleCases ==
  ASSUME NEW r, NEW q, NEW path, NEW b, NEW h, h = Handle(r, q, path, b)
  PROVE  \/ /\ q.endpoint = "runtime" /\ q.method = "PUT" /\ DecodesFor(b, path)
            /\ h = ToApply(r, b)
         \/ q.endpoint = "reconcile" /\ q.method = "POST" /\ h = ToApply(r, b)
         \/ q.endpoint = "runtime" /\ q.method = "DELETE" /\ h = ToRemove(r, RuntimeKey(path))
         \/ q.endpoint = "instances" /\ q.method = "DELETE" /\ h = ToRemove(r, InstanceKey(path))
         \/ q.endpoint \in {"runtime", "runtime/status"} /\ q.method = "GET"
            /\ h = ToGet(r, RuntimeKey(path))
         \/ /\ q.endpoint = "validate" \/ (q.method = "GET" /\ q.endpoint # "reconcile")
            /\ h = Answer(r, 200)
         \/ h = Answer(r, 400) \/ h = Answer(r, 404) \/ h = Answer(r, 405)
<1>1. CASE q.endpoint = "runtime"
  <2>1. q.method = "PUT" => h = IF DecodesFor(b, path) THEN ToApply(r, b) ELSE Answer(r, 400)
    BY <1>1 DEF Handle, Public, Plain
  <2>2. q.method = "DELETE" => h = ToRemove(r, RuntimeKey(path))
    BY <1>1 DEF Handle, Public, Plain
  <2>3. q.method = "GET" => h = ToGet(r, RuntimeKey(path))
    BY <1>1 DEF Handle, Public, Plain
  <2>4. q.method \notin {"PUT", "DELETE", "GET"} => h = Answer(r, 405)
    BY <1>1 DEF Handle, Public, Plain
  <2> QED BY <1>1, <2>1, <2>2, <2>3, <2>4
<1>2. CASE q.endpoint = "validate"
  BY <1>2 DEF Handle, Public, Plain
<1>3. CASE q.endpoint = "reconcile"
  <2>1. q.method = "POST" => h = IF Decodes(b) THEN ToApply(r, b) ELSE Answer(r, 400)
    BY <1>3 DEF Handle, Public, Plain
  <2>2. q.method # "POST" => h = Answer(r, 405)
    BY <1>3 DEF Handle, Public, Plain
  <2> QED BY <1>3, <2>1, <2>2
<1>4. CASE q.endpoint = "instances"
  <2>1. q.method = "DELETE" =>
          h = IF Nameless(path) THEN Answer(r, 400) ELSE ToRemove(r, InstanceKey(path))
    BY <1>4 DEF Handle, Public, Plain
  <2>2. q.method # "DELETE" => h = Answer(r, 405)
    BY <1>4 DEF Handle, Public, Plain
  <2> QED BY <1>4, <2>1, <2>2
<1>5. CASE q.endpoint = "runtime/status"
  <2>1. q.method = "GET" => h = ToGet(r, RuntimeKey(path))
    BY <1>5 DEF Handle, Public, Plain
  <2>2. q.method # "GET" => h = Answer(r, 405)
    BY <1>5 DEF Handle, Public, Plain
  <2> QED BY <1>5, <2>1, <2>2
<1>6. CASE q.endpoint \notin {"runtime", "validate", "reconcile", "instances", "runtime/status"}
  <2>1. q.method = "GET" => h \in {Answer(r, 200), Answer(r, 404), Answer(r, 405)}
    BY <1>6 DEF Handle, Public, Plain
  <2>2. q.method # "GET" => h \in {Answer(r, 404), Answer(r, 405)}
    BY <1>6 DEF Handle, Public, Plain
  <2> QED BY <1>6, <2>1, <2>2
<1> QED BY <1>1, <1>2, <1>3, <1>4, <1>5, <1>6

\* What the audit event of a request will say of it.
LEMMA OperationFacts ==
  ASSUME NEW q, NEW path
  PROVE  /\ q.endpoint = "runtime" => AuditTarget(q, path) = path
         /\ q.endpoint = "instances" => AuditTarget(q, path) = <<"default", path[2]>>
         /\ q.endpoint = "reconcile" => Operation(q) = "legacy-reconcile"
         /\ q.method = "DELETE" /\ q.endpoint \in {"runtime", "instances"} =>
              Operation(q) \notin {"apply", "legacy-reconcile"}
         /\ q.endpoint = "validate" \/ (q.method = "GET" /\ q.endpoint # "reconcile") =>
              Operation(q) \notin {"apply", "legacy-reconcile"}
         /\ q.endpoint \in {"runtime", "reconcile", "instances"} /\ q.method # "GET" =>
              ShouldAudit(q) /\ q.endpoint \notin Public
<1>1. /\ q.endpoint = "runtime" => AuditTarget(q, path) = path
      /\ q.endpoint = "instances" => AuditTarget(q, path) = <<"default", path[2]>>
  BY DEF AuditTarget, Resource
<1>2. q.endpoint = "reconcile" => Operation(q) = "legacy-reconcile"
  BY DEF Operation, Resource
<1>3. q.method = "DELETE" /\ q.endpoint = "runtime" => Operation(q) = "delete"
  BY DEF Operation, Resource
<1>4. q.method = "DELETE" /\ q.endpoint = "instances" => Operation(q) = "legacy-delete"
  BY DEF Operation, Resource
<1>5. q.endpoint = "validate" => Operation(q) = "validate"
  BY DEF Operation, Resource
<1>6. q.method = "GET" /\ q.endpoint \notin {"reconcile", "validate"} =>
        Operation(q) \notin {"apply", "legacy-reconcile"}
  BY DEF Operation, Resource
<1>7. q.endpoint \in {"runtime", "reconcile", "instances"} /\ q.method # "GET" =>
        ShouldAudit(q) /\ q.endpoint \notin Public
  BY DEF ShouldAudit, Public
<1> QED BY <1>1, <1>2, <1>3, <1>4, <1>5, <1>6, <1>7

\* A legacy instance is the Runtime of its name in the default namespace.
LEMMA InstanceFacts == \A path : InstanceKey(path) = RuntimeKey(<<"default", path[2]>>)
<1>1. PICK blank, d : blank = "" /\ d = "default"
  OBVIOUS
<1>2. Trim[blank] = blank /\ Blank(blank)
  BY <1>1, EmptyFacts, Zenon
<1>3. Trim[d] = d /\ Default(blank, d) = d /\ Default(d, d) = d
  BY <1>1, <1>2, TrimFacts DEF Default
<1>4. ASSUME NEW path PROVE InstanceKey(path) = RuntimeKey(<<d, path[2]>>)
  <2>1. InstanceKey(path) = RuntimeKey(<<blank, path[2]>>)
    BY <1>1 DEF InstanceKey
  <2>2. RuntimeKey(<<blank, path[2]>>) = <<Default(Trim[blank], d), Trim[path[2]]>>
    BY <1>1 DEF RuntimeKey
  <2>3. RuntimeKey(<<d, path[2]>>) = <<Default(Trim[d], d), Trim[path[2]]>>
    BY <1>1 DEF RuntimeKey
  <2> QED BY <1>2, <1>3, <2>1, <2>2, <2>3
<1> QED BY <1>1, <1>4

\* A call of the Manager is one that the role may make, of the Runtime it will be audited for.
LEMMA HandleHonest ==
  ASSUME NEW r, NEW q, NEW path, NEW b, Fresh(r, q, path), Sound(b),
         q.endpoint \in Public \/ Allowed(r.role, q)
  PROVE  Honest(Handle(r, q, path, b))
<1>1. PICK h : h = Handle(r, q, path, b)
  OBVIOUS
<1>2. DOMAIN r = DOMAIN Quiet /\ DOMAIN Quiet = {"stage", "role", "operation", "audit", "target", "key",
        "doc", "status", "answer", "event", "changed", "seen", "cli"}
  BY DEF Quiet, Fresh
<1>3. /\ r.stage = "idle" /\ r.changed = {}
      /\ r.operation = Operation(q) /\ r.target = AuditTarget(q, path) /\ r.audit = ShouldAudit(q)
  BY DEF Fresh
<1>4. Permitted(r) /\ Names(r)
  BY <1>3 DEF Permitted, Names, ForApply, ForRemove
<1>5. ASSUME NEW s \in {200, 400, 404, 405}, h = Answer(r, s),
             s = 200 => r.operation \notin {"apply", "legacy-reconcile"}
      PROVE  Honest(h)
  BY <1>2, <1>3, <1>4, <1>5, AnswerFacts DEF Statuses
<1>6. ASSUME q.endpoint \in {"runtime", "reconcile"}, q.method \in {"PUT", "POST"},
             h = ToApply(r, b), q.endpoint = "runtime" => DecodesFor(b, path)
      PROVE  Honest(h)
  <2>1. /\ DOMAIN h = DOMAIN Quiet /\ h.stage = "apply" /\ h.role = r.role /\ h.operation = r.operation
        /\ h.audit = r.audit /\ h.target = r.target /\ h.key = KeyForRuntime(Parsed(b))
        /\ h.doc # << >> /\ h.changed = {}
    BY <1>2, <1>3, <1>6 DEF ToApply
  <2>2. r.audit /\ r.role \in {"admin", "operator"}
    BY <1>3, <1>6, OperationFacts DEF Allowed
  <2>3. ASSUME r.operation # "legacy-reconcile" PROVE h.key = RuntimeKey(h.target)
    <3>1. q.endpoint = "runtime" /\ r.target = path /\ DecodesFor(b, path)
      BY <1>3, <1>6, <2>3, OperationFacts
    <3>2. KeyForRuntime(Parsed(b)) = path
      BY <3>1 DEF DecodesFor
    <3> QED BY <2>1, <3>1, <3>2, ParsedFacts, KeyFacts
  <2>4. ForApply(h) /\ ~ForRemove(h) /\ ~Reads(h) /\ ~Ended(h)
    BY <2>1 DEF ForApply, ForRemove, Reads, Ended
  <2> QED BY <2>1, <2>2, <2>3, <2>4 DEF Honest, Permitted, Names, Changes, Results
<1>7. ASSUME NEW k, h = ToRemove(r, k), q.method = "DELETE", q.endpoint \in {"runtime", "instances"},
             k = RuntimeKey(r.target)
      PROVE  Honest(h)
  <2>1. /\ DOMAIN h = DOMAIN Quiet /\ h.stage = "remove" /\ h.role = r.role /\ h.operation = r.operation
        /\ h.audit = r.audit /\ h.target = r.target /\ h.key = k /\ h.changed = {}
    BY <1>2, <1>3, <1>7 DEF ToRemove
  <2>2. r.audit /\ r.role = "admin" /\ r.operation \notin {"apply", "legacy-reconcile"}
    BY <1>3, <1>7, OperationFacts DEF Allowed
  <2>3. ForRemove(h) /\ ~ForApply(h) /\ ~Reads(h) /\ ~Ended(h)
    BY <2>1 DEF ForApply, ForRemove, Reads, Ended
  <2> QED BY <1>7, <2>1, <2>2, <2>3 DEF Honest, Permitted, Names, Changes, Results
<1>8. ASSUME NEW k, h = ToGet(r, k), q.method = "GET", q.endpoint \in {"runtime", "runtime/status"}
      PROVE  Honest(h)
  <2>1. /\ DOMAIN h = DOMAIN Quiet /\ h.stage = "get" /\ h.role = r.role /\ h.operation = r.operation
        /\ h.changed = {}
    BY <1>2, <1>3, <1>8 DEF ToGet
  <2>2. r.operation \notin {"apply", "legacy-reconcile"}
    BY <1>3, <1>8, OperationFacts
  <2>3. Reads(h) /\ ~ForApply(h) /\ ~ForRemove(h) /\ ~Ended(h)
    BY <2>1 DEF ForApply, ForRemove, Reads, Ended
  <2> QED BY <2>1, <2>2, <2>3 DEF Honest, Permitted, Names, Changes, Results
<1>9. h = Answer(r, 200) /\ (q.endpoint = "validate" \/ (q.method = "GET" /\ q.endpoint # "reconcile"))
      => Honest(h)
  BY <1>3, <1>5, OperationFacts
<1>10. h = Answer(r, 400) \/ h = Answer(r, 404) \/ h = Answer(r, 405) => Honest(h)
  BY <1>5
<1>11. q.endpoint \in {"runtime", "instances"} /\ q.method = "DELETE" =>
         /\ q.endpoint = "runtime" => RuntimeKey(path) = RuntimeKey(r.target)
         /\ q.endpoint = "instances" => InstanceKey(path) = RuntimeKey(r.target)
  BY <1>3, OperationFacts, InstanceFacts
<1> QED BY <1>1, <1>6, <1>7, <1>8, <1>9, <1>10, <1>11, HandleCases

\* Nothing has been done for a connection nobody has used.
LEMMA QuietHonest == Honest(Quiet)
<1>1. /\ Quiet.stage = "idle" /\ Quiet.changed = {}
      /\ ~ForApply(Quiet) /\ ~ForRemove(Quiet) /\ ~Reads(Quiet) /\ ~Ended(Quiet)
  BY DEF Quiet, ForApply, ForRemove, Reads, Ended
<1> QED BY <1>1 DEF Honest, Permitted, Names, Changes, Results

\* What the next state owes to the requests it has.
LEMMA NextAllHonest ==
  ASSUME \A b \in Clients : Honest(req'[b])
  PROVE  AllHonest'
BY DEF AllHonest, Honest, Permitted, Names, Changes, Results, ForApply, ForRemove, Reads, Ended

\* Only one request becomes something else; of the others, a GET may see more.
LEMMA BecomesFacts ==
  ASSUME NEW c, NEW r, AllHonest, Honest(r), Becomes(c, r)
  PROVE  AllHonest'
<1>1. ASSUME NEW b \in Clients PROVE Honest(req'[b])
  <2>1. PICK q : q = IF b = c THEN r ELSE req[b]
    OBVIOUS
  <2>2. Honest(q)
    BY <2>1 DEF AllHonest
  <2>3. PICK S : S = q.seen \cup {Current(q.key)}
    OBVIOUS
  <2>4. req'[b] = [q EXCEPT !.seen = S] \/ req'[b] = q
    BY <2>1, <2>3 DEF Becomes
  <2>5. Honest([q EXCEPT !.seen = S])
    BY <2>2, SeenFacts, Zenon
  <2> QED BY <2>2, <2>4, <2>5, Zenon
<1> QED BY <1>1, NextAllHonest

\* Whatever is sent as a document has a namespace and a name.
LEMMA BodiesSound ==
  ASSUME file \in Files
  PROVE  /\ \A q : \A b \in BodiesOf(q) : Sound(b)
         /\ Sound(ClientBody(Parsed(file)))
<1>1. /\ {"doc", "legacy"} \subseteq DOMAIN file /\ Sound(file) /\ IsDocument(Other)
  BY ApiAssumption DEF Sound
<1>2. \A x : /\ Sound([file EXCEPT !.huge = x]) /\ Sound([file EXCEPT !.forbidden = x])
             /\ Sound([file EXCEPT !.tokens = x])
  BY <1>1 DEF Sound
<1>3. \A d, l : IsDocument(d) => Sound(Body(d, l))
  BY DEF Sound, Body
<1>4. \A q : \A b \in BodiesOf(q) : Sound(b)
  BY <1>1, <1>2, <1>3, ZenonT(40) DEF BodiesOf
<1>5. Sound(ClientBody(Parsed(file)))
  BY <1>1, <1>3, ParsedFacts DEF ClientBody
<1> QED BY <1>4, <1>5

-----------------------------------------------------------------------------
(* Steps *)

\* A request that comes in.
LEMMA ReceiveHonest ==
  ASSUME AllHonest, NEW c, NEW q, NEW path, NEW b, NEW cli, Sound(b), Receive(c, q, path, b, cli)
  PROVE  AllHonest'
<1>1. PICK r : r = [Quiet EXCEPT !.role = RoleOf(q.token), !.operation = Operation(q),
                                 !.target = AuditTarget(q, path), !.audit = ShouldAudit(q), !.cli = cli]
  OBVIOUS
<1>2. Becomes(c, IF q.endpoint \in Public \/ Allowed(RoleOf(q.token), q)
                 THEN Handle(r, q, path, b) ELSE Refusal(r))
  BY <1>1 DEF Receive
<1>3. Fresh(r, q, path) /\ r.role = RoleOf(q.token)
  BY <1>1 DEF Fresh, Quiet
<1>4. Honest(Refusal(r))
  <2>1. Permitted(r) /\ Names(r)
    BY <1>3 DEF Fresh, Permitted, Names, ForApply, ForRemove
  <2>2. ASSUME NEW s \in {401, 403} PROVE Honest(Answer(r, s))
    BY <1>3, <2>1, <2>2, AnswerFacts DEF Fresh, Statuses
  <2> QED BY <2>2 DEF Refusal
<1>5. ASSUME q.endpoint \in Public \/ Allowed(RoleOf(q.token), q)
      PROVE  Honest(Handle(r, q, path, b))
  BY <1>3, <1>5, HandleHonest
<1>6. CASE q.endpoint \in Public \/ Allowed(RoleOf(q.token), q)
  BY <1>2, <1>5, <1>6, BecomesFacts
<1>7. CASE ~(q.endpoint \in Public \/ Allowed(RoleOf(q.token), q))
  BY <1>2, <1>4, <1>7, BecomesFacts
<1> QED BY <1>6, <1>7

\* What Honest says of a request at each stage its next step starts from.
LEMMA StageFacts ==
  ASSUME NEW r, Honest(r)
  PROVE  /\ DOMAIN r = DOMAIN Quiet /\ Permitted(r) /\ Names(r)
         /\ DOMAIN Quiet = {"stage", "role", "operation", "audit", "target", "key", "doc",
              "status", "answer", "event", "changed", "seen", "cli"}
         /\ r.stage = "applying" => r.changed # {}
         /\ ForApply(r) => r.role \in {"admin", "operator"} /\ r.doc # << >>
         /\ ForRemove(r) => r.role = "admin"
         /\ ForApply(r) \/ ForRemove(r) =>
              r.audit /\ (r.operation # "legacy-reconcile" => r.key = RuntimeKey(r.target))
         /\ ForRemove(r) \/ Reads(r) => r.operation \notin {"apply", "legacy-reconcile"}
         /\ Reads(r) => r.changed = {}
BY DEF Honest, Permitted, Names, Changes, Quiet

\* The Manager may refuse or fail at any time.
LEMMA FailsHonest ==
  ASSUME NEW r, Honest(r)
  PROVE  Honest(Answer(r, 500))
BY StageFacts, AnswerFacts DEF Statuses

\* An Apply that is admitted changes the Runtime it will be audited for.
LEMMA BeginApplyHonest ==
  ASSUME AllHonest, NEW c \in Clients, BeginApply(c)
  PROVE  AllHonest'
<1>1. PICK r, doc : r = req[c] /\ doc = AssignRuntime(r.doc[1])
  OBVIOUS
<1>2. PICK h : h = [r EXCEPT !.stage = "applying", !.doc = <<doc>>, !.changed = {r.key}]
  OBVIOUS
<1>3. r.stage = "apply" /\ (Becomes(c, h) \/ Becomes(c, Answer(r, 500)))
  BY <1>1, <1>2 DEF BeginApply
<1>4. Honest(r)
  BY <1>1 DEF AllHonest
<1>5. /\ DOMAIN h = DOMAIN Quiet /\ h.stage = "applying" /\ h.doc = <<doc>> /\ h.changed = {r.key}
      /\ h.role = r.role /\ h.audit = r.audit /\ h.operation = r.operation /\ h.target = r.target
      /\ h.key = r.key
  BY <1>2, <1>4, StageFacts
<1>6. ForApply(h) /\ ~ForRemove(h) /\ ~Reads(h) /\ ~Ended(h) /\ ForApply(r)
  BY <1>3, <1>5 DEF ForApply, ForRemove, Reads, Ended
<1>7. /\ r.role \in {"admin", "operator"} /\ r.audit
      /\ r.operation # "legacy-reconcile" => r.key = RuntimeKey(r.target)
  BY <1>4, <1>6, StageFacts
<1>8. Permitted(h) /\ Names(h)
  BY <1>5, <1>6, <1>7 DEF Permitted, Names
<1>9. Changes(h) /\ Results(h)
  BY <1>5, <1>6 DEF Changes, Results
<1>10. Honest(h)
  BY <1>5, <1>8, <1>9 DEF Honest
<1> QED BY <1>3, <1>4, <1>10, FailsHonest, BecomesFacts

\* An Apply that has ended, well or not, had changed something.
LEMMA EndApplyHonest ==
  ASSUME AllHonest, NEW c \in Clients, EndApply(c)
  PROVE  AllHonest'
<1>1. PICK r : r = req[c]
  OBVIOUS
<1>2. r.stage = "applying" /\ (Becomes(c, Answer(r, 200)) \/ Becomes(c, Answer(r, 500)))
  BY <1>1 DEF EndApply
<1>3. Honest(r)
  BY <1>1 DEF AllHonest
<1>4. Honest(Answer(r, 200))
  BY <1>2, <1>3, StageFacts, AnswerFacts, SMTT(30) DEF Statuses
<1> QED BY <1>2, <1>3, <1>4, FailsHonest, BecomesFacts

\* A Remove changes the Runtime if there is one.
LEMMA BeginRemoveHonest ==
  ASSUME AllHonest, NEW c \in Clients, BeginRemove(c)
  PROVE  AllHonest'
<1>1. PICK r, S : r = req[c] /\ S = {r.key} \cap (DOMAIN specs \cup DOMAIN saved)
  OBVIOUS
<1>2. PICK h : h = [r EXCEPT !.stage = "removing", !.changed = S]
  OBVIOUS
<1>3. r.stage = "remove" /\ (Becomes(c, h) \/ Becomes(c, Answer(r, 500)))
  BY <1>1, <1>2, Zenon DEF BeginRemove
<1>4. Honest(r)
  BY <1>1 DEF AllHonest
<1>5. /\ DOMAIN h = DOMAIN Quiet /\ h.stage = "removing" /\ h.changed = S
      /\ h.role = r.role /\ h.audit = r.audit /\ h.operation = r.operation /\ h.target = r.target
      /\ h.key = r.key
  BY <1>2, <1>4, StageFacts
<1>6. ForRemove(h) /\ ~ForApply(h) /\ ~Reads(h) /\ ~Ended(h) /\ ForRemove(r)
  BY <1>3, <1>5 DEF ForApply, ForRemove, Reads, Ended
<1>7. /\ r.role = "admin" /\ r.audit /\ r.operation \notin {"apply", "legacy-reconcile"}
      /\ r.key = RuntimeKey(r.target)
  BY <1>4, <1>6, StageFacts
<1>8. Permitted(h)
  BY <1>5, <1>6, <1>7 DEF Permitted
<1>9. Names(h)
  BY <1>1, <1>5, <1>6, <1>7 DEF Names
<1>10. Changes(h) /\ Results(h)
  BY <1>5, <1>6, <1>7 DEF Changes, Results
<1>11. Honest(h)
  BY <1>5, <1>8, <1>9, <1>10 DEF Honest
<1> QED BY <1>3, <1>4, <1>11, FailsHonest, BecomesFacts

\* The end of a Remove changes nothing that was not counted when it began.
LEMMA EndRemoveHonest ==
  ASSUME AllHonest, NEW c \in Clients, EndRemove(c)
  PROVE  AllHonest'
<1>1. PICK r : r = req[c]
  OBVIOUS
<1>2. r.stage = "removing" /\ (Becomes(c, Answer(r, 200)) \/ Becomes(c, Answer(r, 500)))
  BY <1>1 DEF EndRemove
<1>3. Honest(r)
  BY <1>1 DEF AllHonest
<1>4. r.operation \notin {"apply", "legacy-reconcile"}
  BY <1>2, <1>3, StageFacts DEF ForRemove
<1>5. Honest(Answer(r, 200))
  BY <1>3, <1>4, StageFacts, AnswerFacts DEF Statuses
<1> QED BY <1>2, <1>3, <1>5, FailsHonest, BecomesFacts

\* A GET changes nothing.
LEMMA GetHonest ==
  ASSUME AllHonest, NEW c \in Clients, GetRuntime(c) \/ ReadRuntime(c)
  PROVE  AllHonest'
<1>1. PICK r, h : r = req[c] /\ h = [r EXCEPT !.stage = "getSaved"]
  OBVIOUS
<1>2. /\ Reads(r)
      /\ \/ Becomes(c, h)
         \/ \E s, x, w : s \in {200, 404} /\ w = [Answer(r, s) EXCEPT !.answer = x] /\ Becomes(c, w)
  <2>1. CASE GetRuntime(c)
    BY <1>1, <2>1 DEF GetRuntime, Reads
  <2>2. CASE ReadRuntime(c)
    <3>1. PICK s, x, w : /\ s = (IF Stored(r.key) = << >> THEN 404 ELSE 200) /\ x = Stored(r.key)
                         /\ w = [Answer(r, s) EXCEPT !.answer = x]
      OBVIOUS
    <3>2. s \in {200, 404}
      BY <3>1
    <3>3. r.stage = "getSaved" /\ Becomes(c, w)
      <4>1. ReadRuntime(c) /\ r = req[c]
        BY <1>1, <2>2
      <4>2. /\ r.stage = "getSaved"
            /\ Becomes(c, [Answer(r, IF Stored(r.key) = << >> THEN 404 ELSE 200)
                            EXCEPT !.answer = Stored(r.key)])
        BY <4>1, Zenon DEF ReadRuntime
      <4> QED BY <3>1, <4>2, Zenon
    <3>4. Reads(r)
      BY <3>3 DEF Reads
    <3>5. \E t, y, v : t \in {200, 404} /\ v = [Answer(r, t) EXCEPT !.answer = y] /\ Becomes(c, v)
      <4> WITNESS s, x, w
      <4> QED BY <3>1, <3>2, <3>3, Zenon
    <3> QED BY <3>4, <3>5, Zenon
  <2> QED BY <2>1, <2>2
<1>3. Honest(r)
  BY <1>1 DEF AllHonest
<1>4. Honest(h)
  <2>1. /\ DOMAIN h = DOMAIN Quiet /\ h.stage = "getSaved" /\ h.changed = r.changed
        /\ h.operation = r.operation
    BY <1>1, <1>3, StageFacts
  <2>2. Reads(h) /\ ~ForApply(h) /\ ~ForRemove(h) /\ ~Ended(h)
    BY <2>1 DEF ForApply, ForRemove, Reads, Ended
  <2>3. h.changed = {} /\ h.operation \notin {"apply", "legacy-reconcile"}
    BY <1>2, <1>3, <2>1, StageFacts
  <2> QED BY <2>1, <2>2, <2>3 DEF Honest, Permitted, Names, Changes, Results
<1>5. ASSUME NEW s \in {200, 404} PROVE Honest(Answer(r, s))
  BY <1>2, <1>3, <1>5, StageFacts, AnswerFacts DEF Statuses
<1>6. ASSUME NEW s \in {200, 404}, NEW x, NEW w, w = [Answer(r, s) EXCEPT !.answer = x]
      PROVE  Honest(w)
  BY <1>5, <1>6, SeenFacts, ZenonT(40)
<1>7. CASE Becomes(c, h)
  BY <1>4, <1>7, BecomesFacts
<1>8. ASSUME NEW s \in {200, 404}, NEW x, NEW w, w = [Answer(r, s) EXCEPT !.answer = x], Becomes(c, w)
      PROVE  AllHonest'
  <2>1. Honest(w)
    BY <1>6, <1>8
  <2> QED BY <1>8, <2>1, BecomesFacts
<1> QED BY <1>2, <1>7, <1>8

\* The event holds what the request was, and the status it was answered with.
LEMMA AuditHonest ==
  ASSUME AllHonest, NEW c \in Clients, Audit(c)
  PROVE  AllHonest'
<1>1. PICK r, e : r = req[c] /\ e = [role |-> r.role, operation |-> r.operation, target |-> r.target,
                                     result |-> AuditResult(r.status[1])]
  OBVIOUS
<1>2. PICK x : x = IF r.audit THEN <<e>> ELSE << >>
  OBVIOUS
<1>3. PICK h : h = [r EXCEPT !.stage = "audited", !.event = x]
  OBVIOUS
<1>4. r.stage = "answered" /\ Becomes(c, h)
  BY <1>1, <1>2, <1>3 DEF Audit
<1>5. Honest(r)
  BY <1>1 DEF AllHonest
<1>6. /\ DOMAIN h = DOMAIN Quiet /\ h.stage = "audited" /\ h.event = x /\ h.changed = r.changed
      /\ h.role = r.role /\ h.audit = r.audit /\ h.operation = r.operation /\ h.target = r.target
      /\ h.key = r.key /\ h.doc = r.doc /\ h.status = r.status
  BY <1>3, <1>5, StageFacts
<1>7. Ended(h) /\ Ended(r) /\ ~ForRemove(h) /\ ~ForApply(h) /\ ~Reads(h)
  BY <1>4, <1>6 DEF ForApply, ForRemove, Reads, Ended
<1>8. PICK s \in Statuses :
        /\ r.status = <<s>>
        /\ s \in {401, 403} => r.changed = {}
        /\ s < 400 /\ r.operation \in {"apply", "legacy-reconcile"} => r.changed # {}
  BY <1>5, <1>7 DEF Honest, Results
<1>9. x = IF r.audit THEN <<[role |-> h.role, operation |-> h.operation, target |-> h.target,
                             result |-> AuditResult(s)]>> ELSE << >>
  BY <1>1, <1>2, <1>6, <1>8
<1>10. Results(h)
  BY <1>6, <1>8, <1>9 DEF Results
<1>11. Permitted(h) /\ Names(h) /\ Changes(h)
  BY <1>5, <1>6, <1>7 DEF Honest, Permitted, Names, Changes
<1> QED BY <1>4, <1>6, <1>10, <1>11, BecomesFacts DEF Honest

-----------------------------------------------------------------------------
(* The documents the agent holds *)

\* What SaveRuntime writes of a document of the agent, ParseRuntimeDocument gives back;
\* it refuses it only for a template token in its text or a forbidden key in a map.
LEMMA SettledFacts ==
  ASSUME NEW d, Settled(d)
  PROVE  /\ Parsed(SpecFile(d)) = d /\ AssignRuntime(d) = d
         /\ Accepts(SpecFile(d)) <=> Readable(d)
<1>1. NormalizeRuntime(d) = d /\ ValidateRuntime(d) /\ d.nodeName = Node
  BY DEF Settled
<1>2. PICK b : b = SpecFile(d)
  OBVIOUS
<1>3. b.doc = d /\ ~b.legacy /\ b.layout = "indented" /\ ~b.forbidden
  BY <1>1, <1>2 DEF SpecFile, Body
<1>4. Parsed(b) = d
  BY <1>1, <1>3 DEF Parsed
<1>5. HasTemplateToken(b) \/ HasForbiddenField(b) <=> ~Readable(d)
  BY <1>3 DEF HasTemplateToken, HasForbiddenField, Readable
<1>6. Accepts(b) <=> Readable(d)
  BY <1>1, <1>3, <1>4, <1>5 DEF Accepts
<1>7. AssignRuntime(d) = d
  <2>1. IsFunction(d)
    <3>1. d = [d EXCEPT !.kind = NormalizeRuntime(d).kind]
      BY <1>1 DEF NormalizeRuntime
    <3> QED BY <3>1 DEF IsFunction
  <2>2. AssignRuntime(d) = [d EXCEPT !.nodeName = Default(@, Node)]
    BY <1>1 DEF AssignRuntime
  <2>3. Default(d.nodeName, Node) = d.nodeName
    BY <1>1 DEF Default
  <2> QED BY <2>1, <2>2, <2>3 DEF IsFunction
<1> QED BY <1>2, <1>4, <1>6, <1>7

\* A document that has been parsed is settled once its node is known and it is admitted.
LEMMA AssignedFacts ==
  ASSUME NEW p, IsDocument(p), NormalizeRuntime(p) = p, NEW d, d = AssignRuntime(p),
         ValidateRuntime(d), NodeAdmits(d)
  PROVE  Settled(d)
<1>1. d = [p EXCEPT !.nodeName = Default(@, Node)] /\ d.nodeName = Node
  BY DEF AssignRuntime, NodeAdmits
<1>2. Trim[Node] = Node /\ Node \in Texts
  <2>1. Node \in Labels \cup {""}
    BY <1>1, Zenon DEF ValidateRuntime
  <2>2. Labels \subseteq Texts /\ "" \in Texts
    BY TextsAssumption, Zenon
  <2>3. \A t \in Labels \cup {"", "app", "default", "current", "opaque", "/"} : Trim[t] = t
    BY TextsAssumption, Zenon
  <2>4. Node \in Labels \cup {"", "app", "default", "current", "opaque", "/"}
    BY <2>1, Zenon
  <2> QED BY <2>1, <2>2, <2>3, <2>4, Zenon
<1>3. DocumentFields(p, p)
  BY DocumentForm
<1>4. IsFunction(d) /\ DOMAIN d = DOMAIN p /\ \A x \in DOMAIN p \ {"nodeName"} : d[x] = p[x]
  BY <1>1 DEF IsFunction
<1>5. DOMAIN p = {"kind", "name", "namespace", "network", "nodeName", "nodeSelector", "secrets",
                  "deployments", "services", "ingress"}
  BY DEF IsDocument
<1>6. /\ d.kind = p.kind /\ d.name = p.name /\ d.namespace = p.namespace /\ d.network = p.network
      /\ d.nodeSelector = p.nodeSelector /\ d.secrets = p.secrets /\ d.deployments = p.deployments
      /\ d.services = p.services /\ d.ingress = p.ingress
  BY <1>4, <1>5
<1>7. IsDocument(d)
  BY <1>1, <1>2, <1>4, <1>6, PartsFacts
<1>8. PICK e : e = NormalizeRuntime(d)
  OBVIOUS
<1>9. DocumentFields(d, e)
  BY <1>7, <1>8, DocumentForm
<1>10. /\ e.kind = d.kind /\ e.name = d.name /\ e.namespace = d.namespace /\ e.network = d.network
       /\ e.nodeSelector = d.nodeSelector
  BY <1>3, <1>6, <1>9 DEF DocumentFields
<1>11. e.secrets = d.secrets /\ e.deployments = d.deployments /\ e.services = d.services
  BY <1>3, <1>6, <1>9 DEF DocumentFields
<1>12. e.ingress = d.ingress
  BY <1>3, <1>6, <1>9, <1>11 DEF DocumentFields
<1>13. e.nodeName = d.nodeName /\ IsFunction(e) /\ DOMAIN e = DOMAIN d
  BY <1>1, <1>2, <1>9 DEF DocumentFields
<1>14. \A x \in DOMAIN e : e[x] = d[x]
  BY <1>4, <1>5, <1>10, <1>11, <1>12, <1>13
<1>15. e = d
  BY <1>4, <1>13, <1>14, Extensionality
<1> QED BY <1>1, <1>8, <1>15 DEF Settled

\* What GetRuntime and previousRuntimeState find is settled.
LEMMA CurrentFacts ==
  ASSUME AllSettled, NEW k
  PROVE  /\ Stored(k) = << >> \/ (k \in DOMAIN saved /\ Stored(k) = <<saved[k]>>)
         /\ k \in DOMAIN specs => Current(k) = <<specs[k]>>
         /\ k \notin DOMAIN specs => Current(k) = Stored(k)
         /\ Current(k) = << >> \/ \E d : Settled(d) /\ Current(k) = <<d>>
         /\ k \in DOMAIN saved =>
              Stored(k) = IF Readable(saved[k]) THEN <<saved[k]>> ELSE << >>
         /\ k \notin DOMAIN saved => Stored(k) = << >>
<1>1. ASSUME k \in DOMAIN saved
      PROVE  Stored(k) = IF Readable(saved[k]) THEN <<saved[k]>> ELSE << >>
  <2>1. Settled(saved[k])
    BY <1>1 DEF AllSettled, Elements
  <2> QED BY <1>1, <2>1, SettledFacts DEF Stored
<1>2. k \notin DOMAIN saved => Stored(k) = << >>
  BY DEF Stored
<1>3. Stored(k) = << >> \/ (k \in DOMAIN saved /\ Stored(k) = <<saved[k]>>)
  BY <1>1, <1>2
<1>4. /\ k \in DOMAIN specs => Current(k) = <<specs[k]>>
      /\ k \notin DOMAIN specs => Current(k) = Stored(k)
  BY DEF Current
<1>5. /\ k \in DOMAIN specs => Settled(specs[k])
      /\ k \in DOMAIN saved => Settled(saved[k])
  BY DEF AllSettled, Elements
<1> QED BY <1>1, <1>2, <1>3, <1>4, <1>5

\* Of the requests, Becomes changes one, and what the others have seen.
LEMMA BecomesForm ==
  ASSUME AllHonest, NEW c, NEW r, DOMAIN r = DOMAIN Quiet, Becomes(c, r), NEW b \in Clients,
         NEW q, q = IF b = c THEN r ELSE req[b]
  PROVE  /\ req'[b].stage = q.stage /\ req'[b].key = q.key /\ req'[b].doc = q.doc
         /\ req'[b].answer = q.answer
         /\ req[b].stage \in {"get", "getSaved"} => req'[b].seen = q.seen \cup {Current(q.key)}
         /\ req[b].stage \notin {"get", "getSaved"} => req'[b].seen = q.seen
<1>1. DOMAIN q = DOMAIN Quiet
  BY DEF AllHonest, Honest
<1>2. DOMAIN Quiet = {"stage", "role", "operation", "audit", "target", "key",
        "doc", "status", "answer", "event", "changed", "seen", "cli"}
  BY DEF Quiet
<1>3. req'[b] = IF req[b].stage \in {"get", "getSaved"}
                THEN [q EXCEPT !.seen = @ \cup {Current(q.key)}] ELSE q
  BY DEF Becomes
<1> QED BY <1>1, <1>2, <1>3

\* Steps that put nothing but settled documents where documents are keep all of them settled.
LEMMA NextSettled ==
  ASSUME AllHonest, AllSettled, NEW c, NEW r, DOMAIN r = DOMAIN Quiet, Becomes(c, r),
         r.stage = "apply" => IsDocument(r.doc[1]) /\ NormalizeRuntime(r.doc[1]) = r.doc[1],
         r.stage = "applying" => Settled(r.doc[1]),
         \A d \in Elements(specs)' \cup Elements(saved)' \cup Elements(prev)' : Settled(d),
         (prev = << >> \/ prev = <<prev[1]>>)'
  PROVE  AllSettled'
<1>1. ASSUME NEW b \in Clients
      PROVE  /\ req'[b].stage = "apply" =>
                  IsDocument(req'[b].doc[1]) /\ NormalizeRuntime(req'[b].doc[1]) = req'[b].doc[1]
             /\ req'[b].stage = "applying" => Settled(req'[b].doc[1])
  <2>1. PICK q : q = IF b = c THEN r ELSE req[b]
    OBVIOUS
  <2>2. req'[b].stage = q.stage /\ req'[b].doc = q.doc
    BY <2>1, BecomesForm
  <2>3. /\ q.stage = "apply" => IsDocument(q.doc[1]) /\ NormalizeRuntime(q.doc[1]) = q.doc[1]
        /\ q.stage = "applying" => Settled(q.doc[1])
    BY <2>1 DEF AllSettled
  <2> QED BY <2>2, <2>3
<1> QED BY <1>1 DEF AllSettled

\* A request that has come in is refused, answered, or about to call the Manager; nothing
\* else has changed.
LEMMA RequestForm ==
  ASSUME file \in Files, NEW c, Request(c) \/ ClientApply(c)
  PROVE  /\ \E r : /\ DOMAIN r = DOMAIN Quiet /\ Becomes(c, r) /\ r.seen = {}
                   /\ r.stage \in {"apply", "remove", "get", "answered"}
                   /\ r.stage = "apply" =>
                        IsDocument(r.doc[1]) /\ NormalizeRuntime(r.doc[1]) = r.doc[1]
         /\ Free(c) /\ UNCHANGED <<agent, specs, saved, lock, prev>>
<1>1. PICK q, path, b, cli : Sound(b) /\ Receive(c, q, path, b, cli)
  <2>1. CASE Request(c)
    <3>1. PICK q, path : \E b \in BodiesOf(q) : Receive(c, q, path, b, FALSE)
      BY <2>1 DEF Request
    <3>2. PICK b : Sound(b) /\ Receive(c, q, path, b, FALSE)
      BY <3>1, BodiesSound
    <3> QED BY <3>2
  <2>2. CASE ClientApply(c)
    BY <2>2, BodiesSound DEF ClientApply
  <2> QED BY <2>1, <2>2
<1>2. PICK r : r = [Quiet EXCEPT !.role = RoleOf(q.token), !.operation = Operation(q),
                                 !.target = AuditTarget(q, path), !.audit = ShouldAudit(q), !.cli = cli]
  OBVIOUS
<1>3. DOMAIN r = DOMAIN Quiet /\ r.seen = {} /\ DOMAIN Quiet = {"stage", "role", "operation", "audit",
        "target", "key", "doc", "status", "answer", "event", "changed", "seen", "cli"}
  BY <1>2 DEF Quiet
<1>4. PICK h : h = IF q.endpoint \in Public \/ Allowed(RoleOf(q.token), q)
                   THEN Handle(r, q, path, b) ELSE Refusal(r)
  OBVIOUS
<1>5. Becomes(c, h) /\ UNCHANGED <<agent, specs, saved, lock, prev>>
  BY <1>1, <1>2, <1>4 DEF Receive
<1>6. ASSUME NEW s, h = Answer(r, s) PROVE DOMAIN h = DOMAIN Quiet /\ h.seen = {} /\ h.stage = "answered"
  BY <1>3, <1>6 DEF Answer
<1>7. ASSUME NEW k, h = ToRemove(r, k) \/ h = ToGet(r, k)
      PROVE  DOMAIN h = DOMAIN Quiet /\ h.seen = {} /\ h.stage \in {"remove", "get"}
  BY <1>3, <1>7 DEF ToRemove, ToGet
<1>8. ASSUME h = ToApply(r, b)
      PROVE  /\ DOMAIN h = DOMAIN Quiet /\ h.seen = {} /\ h.stage = "apply"
             /\ IsDocument(h.doc[1]) /\ NormalizeRuntime(h.doc[1]) = h.doc[1]
  <2>1. DOMAIN h = DOMAIN Quiet /\ h.seen = {} /\ h.stage = "apply" /\ h.doc = <<Parsed(b)>>
    BY <1>3, <1>8 DEF ToApply
  <2> QED BY <1>1, <2>1, ParsedFacts
<1>9. \/ \E s : h = Answer(r, s)
      \/ \E k : h = ToRemove(r, k) \/ h = ToGet(r, k)
      \/ h = ToApply(r, b)
  <2>1. CASE h = Handle(r, q, path, b)
    BY <2>1, HandleCases
  <2>2. CASE h = Refusal(r)
    BY <2>2 DEF Refusal
  <2> QED BY <1>4, <2>1, <2>2
<1>10. /\ DOMAIN h = DOMAIN Quiet /\ h.seen = {} /\ h.stage \in {"apply", "remove", "get", "answered"}
       /\ h.stage = "apply" => IsDocument(h.doc[1]) /\ NormalizeRuntime(h.doc[1]) = h.doc[1]
  BY <1>6, <1>7, <1>8, <1>9
<1>11. Free(c)
  BY DEF Request, ClientApply
<1> QED BY <1>5, <1>10, <1>11

\* The domains of what requests become.
LEMMA AnswerForm ==
  ASSUME NEW r, DOMAIN r = DOMAIN Quiet, NEW s
  PROVE  /\ DOMAIN Answer(r, s) = DOMAIN Quiet /\ Answer(r, s).stage = "answered"
         /\ Answer(r, s).seen = r.seen
BY DEF Answer, Quiet

\* What an entry put into a map, or dropped from it, leaves in it.
LEMMA ElementsFacts ==
  ASSUME NEW m, NEW k
  PROVE  /\ \A d : Elements(Put(m, k, d)) \subseteq Elements(m) \cup {d}
         /\ Elements(Drop(m, k)) \subseteq Elements(m)
BY DEF Elements, Put, Drop

\* Requests that come in, and reads, put no document anywhere.
LEMMA RequestSettled ==
  ASSUME file \in Files, AllHonest, AllSettled, NEW c, Request(c) \/ ClientApply(c)
  PROVE  AllSettled'
<1>1. PICK r : /\ DOMAIN r = DOMAIN Quiet /\ Becomes(c, r)
               /\ r.stage \in {"apply", "remove", "get", "answered"}
               /\ r.stage = "apply" =>
                    IsDocument(r.doc[1]) /\ NormalizeRuntime(r.doc[1]) = r.doc[1]
  BY RequestForm
<1>2. specs' = specs /\ saved' = saved /\ prev' = prev
  BY RequestForm
<1>3. /\ \A d \in Elements(specs)' \cup Elements(saved)' \cup Elements(prev)' : Settled(d)
      /\ (prev = << >> \/ prev = <<prev[1]>>)'
  BY <1>2 DEF AllSettled, Elements
<1> QED BY <1>1, <1>3, NextSettled

\* Apply admits no document that is not settled.
LEMMA BeginApplyForm ==
  ASSUME AllHonest, AllSettled, NEW c \in Clients, BeginApply(c)
  PROVE  /\ req[c].stage = "apply" /\ lock = None /\ UNCHANGED <<agent, saved>>
         /\ \/ \E h : /\ DOMAIN h = DOMAIN Quiet /\ Becomes(c, h) /\ h.stage = "applying"
                      /\ h.key = req[c].key /\ h.seen = req[c].seen /\ Settled(h.doc[1])
                      /\ lock' = c /\ prev' = Current(h.key) /\ specs' = Put(specs, h.key, h.doc[1])
            \/ /\ Becomes(c, Answer(req[c], 500)) /\ UNCHANGED <<lock, prev, specs>>
<1>1. PICK r, doc : r = req[c] /\ doc = AssignRuntime(r.doc[1])
  OBVIOUS
<1>2. PICK h : h = [r EXCEPT !.stage = "applying", !.doc = <<doc>>, !.changed = {r.key}]
  OBVIOUS
<1>3. DOMAIN r = DOMAIN Quiet /\ DOMAIN Quiet = {"stage", "role", "operation", "audit",
        "target", "key", "doc", "status", "answer", "event", "changed", "seen", "cli"}
  BY <1>1 DEF AllHonest, Honest, Quiet
<1>4. /\ DOMAIN h = DOMAIN Quiet /\ h.stage = "applying" /\ h.key = r.key /\ h.doc[1] = doc
      /\ h.seen = r.seen
  BY <1>2, <1>3
<1>5. r.stage = "apply" /\ lock = None /\ UNCHANGED <<agent, saved>>
  BY <1>1 DEF BeginApply
<1>6. \/ /\ ValidateRuntime(doc) /\ NodeAdmits(doc)
         /\ lock' = c /\ prev' = Current(r.key) /\ specs' = Put(specs, r.key, doc) /\ Becomes(c, h)
      \/ Becomes(c, Answer(r, 500)) /\ UNCHANGED <<lock, prev, specs>>
  BY <1>1, <1>2, Zenon DEF BeginApply
<1>7. IsDocument(r.doc[1]) /\ NormalizeRuntime(r.doc[1]) = r.doc[1]
  BY <1>1, <1>5 DEF AllSettled
<1>8. ValidateRuntime(doc) /\ NodeAdmits(doc) => Settled(doc)
  BY <1>1, <1>7, AssignedFacts
<1>9. CASE /\ ValidateRuntime(doc) /\ NodeAdmits(doc)
           /\ lock' = c /\ prev' = Current(r.key) /\ specs' = Put(specs, r.key, doc) /\ Becomes(c, h)
  <2>1. /\ DOMAIN h = DOMAIN Quiet /\ Becomes(c, h) /\ h.stage = "applying"
        /\ h.key = req[c].key /\ h.seen = req[c].seen /\ Settled(h.doc[1])
        /\ lock' = c /\ prev' = Current(h.key) /\ specs' = Put(specs, h.key, h.doc[1])
    BY <1>1, <1>4, <1>8, <1>9
  <2> QED BY <1>1, <1>5, <2>1
<1> QED BY <1>1, <1>5, <1>6, <1>9

LEMMA BeginApplySettled ==
  ASSUME AllHonest, AllSettled, NEW c \in Clients, BeginApply(c)
  PROVE  AllSettled'
<1>1. DOMAIN req[c] = DOMAIN Quiet
  BY DEF AllHonest, Honest
<1>2. ASSUME NEW h, DOMAIN h = DOMAIN Quiet, Becomes(c, h), h.stage = "applying", Settled(h.doc[1]),
             prev' = Current(h.key), specs' = Put(specs, h.key, h.doc[1]), saved' = saved
      PROVE  AllSettled'
  <2>1. \A d \in Elements(specs)' : Settled(d)
    <3>1. PICK d, k : d = h.doc[1] /\ k = h.key
      OBVIOUS
    <3>2. specs' = Put(specs, k, d) /\ Settled(d)
      BY <1>2, <3>1
    <3>3. Elements(specs') \subseteq Elements(specs) \cup {d}
      BY <3>2, ElementsFacts
    <3>4. Elements(specs)' = Elements(specs')
      BY DEF Elements
    <3> QED BY <3>2, <3>3, <3>4 DEF AllSettled
  <2>2. /\ \A d \in Elements(prev)' : Settled(d)
        /\ (prev = << >> \/ prev = <<prev[1]>>)'
    <3>1. prev' = << >> \/ \E d : Settled(d) /\ prev' = <<d>>
      BY <1>2, CurrentFacts
    <3> QED BY <3>1 DEF Elements
  <2>3. \A d \in Elements(saved)' : Settled(d)
    BY <1>2 DEF AllSettled, Elements
  <2> QED BY <1>2, <2>1, <2>2, <2>3, NextSettled
<1>3. ASSUME Becomes(c, Answer(req[c], 500)), UNCHANGED <<saved, prev, specs>>
      PROVE  AllSettled'
  <2>1. PICK r : r = Answer(req[c], 500)
    OBVIOUS
  <2>2. DOMAIN r = DOMAIN Quiet /\ r.stage = "answered"
    BY <1>1, <2>1, AnswerForm
  <2>3. /\ \A d \in Elements(specs)' \cup Elements(saved)' \cup Elements(prev)' : Settled(d)
        /\ (prev = << >> \/ prev = <<prev[1]>>)'
    BY <1>3 DEF AllSettled, Elements
  <2> QED BY <1>3, <2>1, <2>2, <2>3, NextSettled
<1> QED BY <1>2, <1>3, BeginApplyForm

\* The end of Apply saves the document that was admitted, or one that was there before.
LEMMA EndApplySettled ==
  ASSUME AllHonest, AllSettled, NEW c \in Clients, EndApply(c)
  PROVE  AllSettled'
<1>1. PICK r : r = req[c]
  OBVIOUS
<1>2. DOMAIN r = DOMAIN Quiet
  BY <1>1 DEF AllHonest, Honest
<1>3. PICK s : Becomes(c, Answer(r, s))
  BY <1>1 DEF EndApply
<1>4. r.stage = "applying" /\ prev' = << >>
  BY <1>1 DEF EndApply
<1>5. Settled(r.doc[1]) /\ (prev # << >> => Settled(prev[1]))
  BY <1>1, <1>4 DEF AllSettled, Elements
<1>6. \E d : /\ Settled(d) /\ (specs' = specs \/ specs' = Put(specs, r.key, d))
             /\ saved' = saved \/ saved' = Put(saved, r.key, d)
  <2>1. \/ saved' = Put(saved, r.key, r.doc[1]) /\ specs' = specs
        \/ prev # << >> /\ specs' = Put(specs, r.key, prev[1]) /\ saved' = Put(saved, r.key, prev[1])
        \/ specs' = specs /\ saved' = saved
    BY <1>1 DEF EndApply
  <2> QED BY <1>5, <2>1
<1>7. PICK d : /\ Settled(d) /\ (specs' = specs \/ specs' = Put(specs, r.key, d))
               /\ saved' = saved \/ saved' = Put(saved, r.key, d)
  BY <1>6
<1>8. /\ Elements(specs') \subseteq Elements(specs) \cup {d}
      /\ Elements(saved') \subseteq Elements(saved) \cup {d}
  BY <1>7, ElementsFacts
<1>9. \A x \in Elements(specs)' \cup Elements(saved)' \cup Elements(prev)' : Settled(x)
  <2>1. Elements(prev)' = {}
    BY <1>4 DEF Elements
  <2>2. Elements(specs)' = Elements(specs') /\ Elements(saved)' = Elements(saved')
    BY DEF Elements
  <2> QED BY <1>7, <1>8, <2>1, <2>2 DEF AllSettled
<1>10. PICK h : h = Answer(r, s)
  OBVIOUS
<1>11. DOMAIN h = DOMAIN Quiet /\ h.stage = "answered"
  BY <1>2, <1>10, AnswerForm
<1> QED BY <1>3, <1>4, <1>9, <1>10, <1>11, NextSettled

\* What the steps of Remove do: they take documents away.
LEMMA BeginRemoveForm ==
  ASSUME AllHonest, NEW c \in Clients, BeginRemove(c)
  PROVE  /\ req[c].stage = "remove" /\ lock = None /\ UNCHANGED <<agent, saved, prev>>
         /\ \/ \E h : /\ DOMAIN h = DOMAIN Quiet /\ Becomes(c, h) /\ h.stage = "removing"
                      /\ h.key = req[c].key /\ h.seen = req[c].seen
                      /\ lock' = c /\ specs' = Drop(specs, h.key)
            \/ Becomes(c, Answer(req[c], 500)) /\ UNCHANGED <<lock, specs>>
<1>1. PICK r, S : r = req[c] /\ S = {r.key} \cap (DOMAIN specs \cup DOMAIN saved)
  OBVIOUS
<1>2. PICK h : h = [r EXCEPT !.stage = "removing", !.changed = S]
  OBVIOUS
<1>3. /\ r.stage = "remove" /\ lock = None /\ UNCHANGED <<agent, saved, prev>>
      /\ \/ Becomes(c, Answer(r, 500)) /\ UNCHANGED <<specs, lock>>
         \/ specs' = Drop(specs, r.key) /\ lock' = c /\ Becomes(c, h)
  BY <1>1, <1>2, Zenon DEF BeginRemove
<1>4. DOMAIN r = DOMAIN Quiet /\ DOMAIN Quiet = {"stage", "role", "operation", "audit",
        "target", "key", "doc", "status", "answer", "event", "changed", "seen", "cli"}
  BY <1>1 DEF AllHonest, Honest, Quiet
<1>5. DOMAIN h = DOMAIN Quiet /\ h.stage = "removing" /\ h.key = r.key /\ h.seen = r.seen
  BY <1>2, <1>4
<1> QED BY <1>1, <1>3, <1>5

LEMMA EndRemoveForm ==
  ASSUME AllHonest, NEW c \in Clients, EndRemove(c)
  PROVE  /\ req[c].stage = "removing" /\ lock' = None /\ UNCHANGED <<agent, specs, prev>>
         /\ saved' = saved \/ saved' = Drop(saved, req[c].key)
         /\ \E h : /\ DOMAIN h = DOMAIN Quiet /\ Becomes(c, h) /\ h.stage = "answered"
                   /\ h.seen = req[c].seen
<1>1. PICK s : Becomes(c, Answer(req[c], s))
  BY DEF EndRemove
<1>2. DOMAIN req[c] = DOMAIN Quiet
  BY DEF AllHonest, Honest
<1>3. PICK h : h = Answer(req[c], s)
  OBVIOUS
<1>4. DOMAIN h = DOMAIN Quiet /\ h.stage = "answered" /\ h.seen = req[c].seen
  BY <1>2, <1>3, AnswerForm
<1>5. /\ req[c].stage = "removing" /\ lock' = None /\ UNCHANGED <<agent, specs, prev>>
      /\ saved' = saved \/ saved' = Drop(saved, req[c].key)
  BY DEF EndRemove
<1> QED BY <1>1, <1>3, <1>4, <1>5

\* What the steps of a GET, the audit and the end of a request do: they change nothing else.
LEMMA GetForm ==
  ASSUME AllHonest, NEW c \in Clients, GetRuntime(c) \/ ReadRuntime(c)
  PROVE  /\ UNCHANGED <<agent, specs, saved, lock, prev>>
         /\ \E h : /\ DOMAIN h = DOMAIN Quiet /\ Becomes(c, h) /\ h.seen = req[c].seen
                   /\ h.key = req[c].key
                   /\ \/ /\ req[c].stage = "get" /\ h.stage = "getSaved"
                         /\ req[c].key \notin DOMAIN specs
                      \/ /\ req[c].stage = "get" /\ h.stage = "answered"
                         /\ h.key \in DOMAIN specs /\ h.answer = <<specs[h.key]>>
                      \/ /\ req[c].stage = "getSaved" /\ h.stage = "answered"
                         /\ h.answer = Stored(h.key)
<1>1. DOMAIN req[c] = DOMAIN Quiet /\ DOMAIN Quiet = {"stage", "role", "operation", "audit",
        "target", "key", "doc", "status", "answer", "event", "changed", "seen", "cli"}
  BY DEF AllHonest, Honest, Quiet
<1>2. UNCHANGED <<agent, specs, saved, lock, prev>>
  BY DEF GetRuntime, ReadRuntime
<1>3. CASE GetRuntime(c) /\ req[c].key \notin DOMAIN specs
  <2>1. PICK h : h = [req[c] EXCEPT !.stage = "getSaved"]
    OBVIOUS
  <2>2. req[c].stage = "get" /\ Becomes(c, h)
    BY <1>3, <2>1 DEF GetRuntime
  <2>3. DOMAIN h = DOMAIN Quiet /\ h.stage = "getSaved" /\ h.seen = req[c].seen /\ h.key = req[c].key
    BY <1>1, <2>1
  <2> QED BY <1>2, <1>3, <2>2, <2>3
<1>4. CASE GetRuntime(c) /\ req[c].key \in DOMAIN specs
  <2>1. PICK h, x : x = <<specs[req[c].key]>> /\ h = [Answer(req[c], 200) EXCEPT !.answer = x]
    OBVIOUS
  <2>2. req[c].stage = "get" /\ Becomes(c, h)
    BY <1>4, <2>1 DEF GetRuntime
  <2>3. /\ DOMAIN h = DOMAIN Quiet /\ h.stage = "answered" /\ h.seen = req[c].seen /\ h.answer = x
        /\ h.key = req[c].key
    BY <1>1, <2>1 DEF Answer
  <2>4. h.key \in DOMAIN specs /\ h.answer = <<specs[h.key]>>
    BY <1>4, <2>1, <2>3
  <2> QED BY <1>2, <2>2, <2>3, <2>4
<1>5. CASE ReadRuntime(c)
  <2>1. PICK x : x = Stored(req[c].key)
    OBVIOUS
  <2>2. PICK h, s : /\ s = (IF x = << >> THEN 404 ELSE 200)
                    /\ h = [Answer(req[c], s) EXCEPT !.answer = x]
    OBVIOUS
  <2>3. req[c].stage = "getSaved" /\ Becomes(c, h)
    <3>1. /\ req[c].stage = "getSaved"
          /\ Becomes(c, [Answer(req[c], IF Stored(req[c].key) = << >> THEN 404 ELSE 200)
                          EXCEPT !.answer = Stored(req[c].key)])
      BY <1>5, Zenon DEF ReadRuntime
    <3> QED BY <2>1, <2>2, <3>1, Zenon
  <2>4. /\ DOMAIN h = DOMAIN Quiet /\ h.stage = "answered" /\ h.seen = req[c].seen /\ h.answer = x
        /\ h.key = req[c].key
    BY <1>1, <2>2 DEF Answer
  <2> QED BY <1>2, <2>1, <2>3, <2>4
<1> QED BY <1>3, <1>4, <1>5

LEMMA EndForm ==
  ASSUME AllHonest, NEW c \in Clients, Audit(c) \/ Close(c)
  PROVE  /\ UNCHANGED <<agent, specs, saved, lock, prev>> /\ Ended(req[c])
         /\ \E h : /\ DOMAIN h = DOMAIN Quiet /\ Becomes(c, h)
                   /\ \/ h.stage = "audited" /\ h.seen = req[c].seen
                      \/ h.stage = "idle" /\ h.seen = {}
<1>1. DOMAIN req[c] = DOMAIN Quiet /\ DOMAIN Quiet = {"stage", "role", "operation", "audit",
        "target", "key", "doc", "status", "answer", "event", "changed", "seen", "cli"}
  BY DEF AllHonest, Honest, Quiet
<1>2. UNCHANGED <<agent, specs, saved, lock, prev>> /\ Ended(req[c])
  <2>1. Audit(c) => UNCHANGED <<agent, specs, saved, lock, prev>> /\ Ended(req[c])
    BY DEF Audit, Ended
  <2>2. Close(c) => UNCHANGED <<agent, specs, saved, lock, prev>> /\ Ended(req[c])
    BY DEF Close, Ended
  <2> QED BY <2>1, <2>2
<1>3. CASE Audit(c)
  <2>1. PICK x : Becomes(c, [req[c] EXCEPT !.stage = "audited", !.event = x])
    BY <1>3 DEF Audit
  <2>2. PICK h : h = [req[c] EXCEPT !.stage = "audited", !.event = x]
    OBVIOUS
  <2>3. DOMAIN h = DOMAIN Quiet /\ h.stage = "audited" /\ h.seen = req[c].seen
    BY <1>1, <2>2
  <2> QED BY <1>2, <2>1, <2>2, <2>3
<1>4. CASE Close(c)
  <2>1. Becomes(c, Quiet) /\ Quiet.stage = "idle" /\ Quiet.seen = {}
    BY <1>4 DEF Close, Quiet
  <2> QED BY <1>2, <2>1
<1> QED BY <1>3, <1>4

\* The other steps of requests take documents away, or leave all of them where they are.
LEMMA RestSettled ==
  ASSUME AllHonest, AllSettled, NEW c \in Clients,
         \/ BeginRemove(c) \/ EndRemove(c) \/ GetRuntime(c) \/ ReadRuntime(c) \/ Audit(c) \/ Close(c)
  PROVE  AllSettled'
<1>1. ASSUME NEW h, DOMAIN h = DOMAIN Quiet, Becomes(c, h), h.stage \notin {"apply", "applying"},
             NEW k, specs' = specs \/ specs' = Drop(specs, k),
             saved' = saved \/ saved' = Drop(saved, k), prev' = prev
      PROVE  AllSettled'
  <2>1. Elements(specs') \subseteq Elements(specs) /\ Elements(saved') \subseteq Elements(saved)
    BY <1>1, ElementsFacts
  <2>2. \A x \in Elements(specs)' \cup Elements(saved)' \cup Elements(prev)' : Settled(x)
    <3>1. /\ Elements(specs)' = Elements(specs') /\ Elements(saved)' = Elements(saved')
          /\ Elements(prev)' = Elements(prev)
      BY <1>1 DEF Elements
    <3> QED BY <2>1, <3>1 DEF AllSettled
  <2>3. (prev = << >> \/ prev = <<prev[1]>>)'
    BY <1>1 DEF AllSettled
  <2> QED BY <1>1, <2>2, <2>3, NextSettled
<1>2. PICK h, k : /\ DOMAIN h = DOMAIN Quiet /\ Becomes(c, h) /\ h.stage \notin {"apply", "applying"}
                  /\ specs' = specs \/ specs' = Drop(specs, k)
                  /\ saved' = saved \/ saved' = Drop(saved, k)
                  /\ prev' = prev
  <2>1. CASE BeginRemove(c)
    <3>1. DOMAIN req[c] = DOMAIN Quiet
      BY DEF AllHonest, Honest
    <3>2. PICK f : f = Answer(req[c], 500)
      OBVIOUS
    <3>3. DOMAIN f = DOMAIN Quiet /\ f.stage = "answered"
      BY <3>1, <3>2, AnswerForm
    <3>4. saved' = saved /\ prev' = prev
      BY <2>1, BeginRemoveForm
    <3>5. \/ \E h : /\ DOMAIN h = DOMAIN Quiet /\ Becomes(c, h) /\ h.stage = "removing"
                    /\ specs' = Drop(specs, h.key)
          \/ Becomes(c, f) /\ specs' = specs
      BY <2>1, <3>2, BeginRemoveForm
    <3> QED BY <3>3, <3>4, <3>5
  <2>2. CASE EndRemove(c)
    BY <2>2, EndRemoveForm
  <2>3. CASE GetRuntime(c) \/ ReadRuntime(c)
    <3>1. specs' = specs /\ saved' = saved /\ prev' = prev
      BY <2>3, GetForm
    <3>2. PICK h : DOMAIN h = DOMAIN Quiet /\ Becomes(c, h) /\ h.stage \in {"getSaved", "answered"}
      BY <2>3, GetForm
    <3> QED BY <3>1, <3>2
  <2>4. CASE Audit(c) \/ Close(c)
    <3>1. specs' = specs /\ saved' = saved /\ prev' = prev
      BY <2>4, EndForm
    <3>2. PICK h : DOMAIN h = DOMAIN Quiet /\ Becomes(c, h) /\ h.stage \in {"audited", "idle"}
      BY <2>4, EndForm
    <3> QED BY <3>1, <3>2
  <2> QED BY <2>1, <2>2, <2>3, <2>4
<1> QED BY <1>1, <1>2

\* What the agent saves of its own accord, and what it loads.
LEMMA AgentSettled ==
  ASSUME AllHonest, AllSettled, (\E k : ResyncFails(k)) \/ Crash \/ Restart \/ UNCHANGED vars
  PROVE  AllSettled'
<1>1. ASSUME NEW k, ResyncFails(k) PROVE AllSettled'
  <2>1. /\ Becomes(None, Quiet) /\ Quiet.stage = "idle" /\ k \in DOMAIN specs
        /\ saved' = Put(saved, k, specs[k]) /\ specs' = specs /\ prev' = prev
    BY <1>1 DEF ResyncFails, Quiet
  <2>2. PICK d : d = specs[k]
    OBVIOUS
  <2>3. Settled(d) /\ saved' = Put(saved, k, d)
    BY <2>1, <2>2 DEF AllSettled, Elements
  <2>4. Elements(saved') \subseteq Elements(saved) \cup {d}
    BY <2>3, ElementsFacts
  <2>5. \A x \in Elements(specs)' \cup Elements(saved)' \cup Elements(prev)' : Settled(x)
    <3>1. /\ Elements(specs)' = Elements(specs) /\ Elements(saved)' = Elements(saved')
          /\ Elements(prev)' = Elements(prev)
      BY <2>1 DEF Elements
    <3> QED BY <2>3, <2>4, <3>1 DEF AllSettled
  <2>6. (prev = << >> \/ prev = <<prev[1]>>)'
    BY <2>1 DEF AllSettled
  <2> QED BY <2>1, <2>5, <2>6, NextSettled
<1>2. CASE Crash
  <2>1. \A c \in Clients : req'[c].stage = "idle"
    BY <1>2 DEF Crash, Quiet
  <2>2. specs' = << >> /\ prev' = << >> /\ saved' = saved
    BY <1>2 DEF Crash
  <2> QED BY <2>1, <2>2 DEF AllSettled, Elements
<1>3. CASE Restart
  <2>1. req' = req /\ prev' = prev /\ saved' = specs'
        /\ specs' = [k \in DOMAIN saved |-> AssignRuntime(Parsed(SpecFile(saved[k])))]
    BY <1>3 DEF Restart
  <2>2. \A k \in DOMAIN saved : Settled(saved[k])
    BY DEF AllSettled, Elements
  <2>3. \A k \in DOMAIN saved : AssignRuntime(Parsed(SpecFile(saved[k]))) = saved[k]
    BY <2>2, SettledFacts
  <2>4. DOMAIN specs' = DOMAIN saved /\ \A k \in DOMAIN saved : specs'[k] = saved[k]
    BY <2>1, <2>3
  <2>5. \A x \in Elements(specs)' \cup Elements(saved)' : Settled(x)
    BY <2>1, <2>2, <2>4 DEF Elements
  <2> QED BY <2>1, <2>5 DEF AllSettled, Elements
<1>4. CASE UNCHANGED vars
  BY <1>4 DEF AllSettled, Elements, vars
<1> QED BY <1>1, <1>2, <1>3, <1>4

\* What the proofs of the properties use: the file is one of Files, and every
\* request is honest.
IInv == file \in Files /\ AllHonest

LEMMA InitHonest == Init => IInv
<1>1. ASSUME Init PROVE file \in Files /\ \A c \in Clients : req[c] = Quiet
  BY <1>1 DEF Init
<1> QED BY <1>1, QuietHonest DEF IInv, AllHonest

LEMMA NextHonest == IInv /\ [Next]_vars => IInv'
<1> SUFFICES ASSUME IInv, [Next]_vars PROVE IInv'
  OBVIOUS
<1>1. AllHonest /\ file \in Files
  BY DEF IInv
<1>2. file' = file
  <2>1. ASSUME NEW c, Request(c) \/ ClientApply(c) PROVE file' = file
    BY <2>1 DEF Request, ClientApply, Receive
  <2>2. ASSUME NEW c, BeginApply(c) \/ EndApply(c) PROVE file' = file
    BY <2>2 DEF BeginApply, EndApply
  <2>3. ASSUME NEW c, BeginRemove(c) \/ EndRemove(c) \/ GetRuntime(c) \/ ReadRuntime(c)
        PROVE  file' = file
    BY <2>3 DEF BeginRemove, EndRemove, GetRuntime, ReadRuntime
  <2>4. ASSUME NEW c, Audit(c) \/ Close(c) \/ ResyncFails(c) PROVE file' = file
    BY <2>4 DEF Audit, Close, ResyncFails
  <2>5. Crash \/ Restart \/ UNCHANGED vars => file' = file
    BY DEF Crash, Restart, vars
  <2> QED BY <2>1, <2>2, <2>3, <2>4, <2>5 DEF Next
<1>3. ASSUME NEW c \in Clients, Request(c) PROVE AllHonest'
  <2>1. PICK q, path : \E b \in BodiesOf(q) : Receive(c, q, path, b, FALSE)
    BY <1>3 DEF Request
  <2>2. PICK b : Sound(b) /\ Receive(c, q, path, b, FALSE)
    BY <1>1, <2>1, BodiesSound
  <2> QED BY <1>1, <2>2, ReceiveHonest
<1>4. ASSUME NEW c \in Clients, ClientApply(c) PROVE AllHonest'
  <2>1. PICK q, path, b : Sound(b) /\ Receive(c, q, path, b, TRUE)
    BY <1>1, <1>4, BodiesSound DEF ClientApply
  <2> QED BY <1>1, <2>1, ReceiveHonest
<1>5. ASSUME NEW c \in Clients,
             \/ BeginApply(c) \/ EndApply(c) \/ BeginRemove(c) \/ EndRemove(c)
             \/ GetRuntime(c) \/ ReadRuntime(c) \/ Audit(c)
      PROVE  AllHonest'
  BY <1>1, <1>5, BeginApplyHonest, EndApplyHonest, BeginRemoveHonest, EndRemoveHonest, GetHonest,
     AuditHonest
<1>6. ASSUME NEW c \in Clients, Close(c) PROVE AllHonest'
  BY <1>1, <1>6, QuietHonest, BecomesFacts DEF Close
<1>7. ASSUME NEW k, ResyncFails(k) PROVE AllHonest'
  BY <1>1, <1>7, QuietHonest, BecomesFacts DEF ResyncFails
<1>8. ASSUME Crash PROVE AllHonest'
  <2>1. \A c \in Clients : req'[c] = Quiet
    BY <1>8 DEF Crash
  <2>2. \A c \in Clients : Honest(req'[c])
    BY <2>1, QuietHonest
  <2> QED BY <2>2, NextAllHonest
<1>9. ASSUME Restart \/ UNCHANGED vars PROVE AllHonest'
  <2>1. \A b \in Clients : Honest(req'[b])
    BY <1>1, <1>9 DEF Restart, vars, AllHonest
  <2> QED BY <2>1, NextAllHonest
<1>10. AllHonest'
  BY <1>3, <1>4, <1>5, <1>6, <1>7, <1>8, <1>9 DEF Next
<1> QED BY <1>1, <1>2, <1>10 DEF IInv

\* Every document the agent holds stays settled.
LEMMA InitSettled == Init => AllSettled
<1>1. ASSUME Init
      PROVE  specs = << >> /\ saved = << >> /\ prev = << >> /\ \A c \in Clients : req[c].stage = "idle"
  BY <1>1 DEF Init, Quiet
<1> QED BY <1>1 DEF AllSettled, Elements

LEMMA NextAllSettled == IInv /\ AllSettled /\ [Next]_vars => AllSettled'
<1> SUFFICES ASSUME IInv, AllSettled, [Next]_vars PROVE AllSettled'
  OBVIOUS
<1>1. file \in Files /\ AllHonest
  BY DEF IInv
<1>2. ASSUME NEW c \in Clients, Request(c) \/ ClientApply(c) PROVE AllSettled'
  BY <1>1, <1>2, RequestSettled
<1>3. ASSUME NEW c \in Clients, BeginApply(c) \/ EndApply(c) PROVE AllSettled'
  BY <1>1, <1>3, BeginApplySettled, EndApplySettled
<1>4. ASSUME NEW c \in Clients, \/ BeginRemove(c) \/ EndRemove(c) \/ GetRuntime(c) \/ ReadRuntime(c)
                                \/ Audit(c) \/ Close(c)
      PROVE  AllSettled'
  BY <1>1, <1>4, RestSettled
<1>5. ASSUME (\E k : ResyncFails(k)) \/ Crash \/ Restart \/ UNCHANGED vars PROVE AllSettled'
  BY <1>1, <1>5, AgentSettled
<1> QED BY <1>2, <1>3, <1>4, <1>5 DEF Next

-----------------------------------------------------------------------------
(* What a GET has seen *)

\* What is stored under a key, for any spec files.
StoredIn(m, k) ==
  IF k \in DOMAIN m /\ Accepts(SpecFile(m[k])) THEN <<Parsed(SpecFile(m[k]))>> ELSE << >>

\* A document that is put there is found, if its file is not refused; those under
\* the other keys are found as they were.
LEMMA StoredPut ==
  ASSUME NEW m, NEW k, NEW d, Settled(d), NEW n, n = Put(m, k, d), NEW j
  PROVE  /\ StoredIn(n, k) = <<d>> \/ ~Readable(d)
         /\ j # k => StoredIn(n, j) = StoredIn(m, j)
<1>1. DOMAIN n = DOMAIN m \cup {k} /\ n[k] = d /\ \A x \in DOMAIN m \ {k} : n[x] = m[x]
  BY DEF Put
<1>2. Readable(d) => StoredIn(n, k) = <<d>>
  BY <1>1, SettledFacts DEF StoredIn
<1>3. j # k => StoredIn(n, j) = StoredIn(m, j)
  BY <1>1 DEF StoredIn
<1> QED BY <1>2, <1>3

LEMMA StoredDrop ==
  ASSUME NEW m, NEW k, NEW n, n = Drop(m, k), NEW j, j # k
  PROVE  StoredIn(n, j) = StoredIn(m, j)
<1>1. DOMAIN n = DOMAIN m \ {k} /\ \A x \in DOMAIN m \ {k} : n[x] = m[x]
  BY DEF Drop
<1> QED BY <1>1 DEF StoredIn

\* What a GET that has not found Runtime k in memory, and has seen S, relies on.
Owes(k, S) ==
  /\ k \in DOMAIN specs => Stored(k) \in S \/ Unreadable(S)
  /\ \A b \in Clients : req[b].stage = "applying" /\ req[b].key = k => prev \in S

\* What a step makes of a request: one that is no GET has seen nothing; a GET is answered with
\* what it finds; the others keep what they have seen.
Continues(r, h) ==
  \/ h.seen = {} /\ ~Reads(r) /\ h.stage # "getSaved"
  \/ /\ r.stage = "get" /\ h.seen = r.seen /\ h.key = r.key
     /\ \/ h.stage = "getSaved" /\ h.key \notin DOMAIN specs
        \/ h.stage = "answered" /\ h.answer = Current(h.key)
  \/ /\ r.stage = "getSaved" /\ h.seen = r.seen /\ h.key = r.key
     /\ h.stage = "answered" /\ h.answer = Stored(h.key)
  \/ Ended(r) /\ h.stage = "audited" /\ h.seen = r.seen

LEMMA UnreadableGrows ==
  ASSUME NEW S, NEW x
  PROVE  Unreadable(S) => Unreadable(S \cup {x})
BY DEF Unreadable

\* What a GET relies on before the step it still has after it; so does one that has just
\* looked into memory.
LEMMA OwedFacts ==
  ASSUME AllHonest, InCharge, SeesStored, NEW c, NEW h, DOMAIN h = DOMAIN Quiet, Becomes(c, h),
         c \in Clients => Continues(req[c], h), NEW b \in Clients, req'[b].stage = "getSaved"
  PROVE  Current(req'[b].key) \in req'[b].seen /\ Owes(req'[b].key, req'[b].seen)
<1>1. PICK q : q = IF b = c THEN h ELSE req[b]
  OBVIOUS
<1>2. /\ req'[b].stage = q.stage /\ req'[b].key = q.key
      /\ req[b].stage \in {"get", "getSaved"} => req'[b].seen = q.seen \cup {Current(q.key)}
  BY <1>1, BecomesForm
<1>3. CASE b # c
  <2>1. q = req[b] /\ q.stage = "getSaved" /\ req'[b].seen = q.seen \cup {Current(q.key)}
    BY <1>1, <1>2, <1>3
  <2>2. /\ q.key \in DOMAIN specs => Stored(q.key) \in q.seen \/ Unreadable(q.seen)
        /\ \A a \in Clients : req[a].stage = "applying" /\ req[a].key = q.key => prev \in q.seen
    BY <2>1 DEF SeesStored
  <2>3. Unreadable(q.seen) => Unreadable(req'[b].seen)
    <3>1. PICK x : req'[b].seen = q.seen \cup {x}
      BY <2>1
    <3>2. Unreadable(q.seen) => Unreadable(q.seen \cup {x})
      BY UnreadableGrows
    <3> QED BY <3>1, <3>2
  <2> QED BY <1>2, <2>1, <2>2, <2>3 DEF Owes
<1>4. CASE b = c
  <2>1. /\ req[b].stage = "get" /\ q.key \notin DOMAIN specs
        /\ req'[b].seen = q.seen \cup {Current(q.key)}
    BY <1>1, <1>2, <1>4 DEF Continues
  <2>2. \A a \in Clients : ~(req[a].stage = "applying" /\ req[a].key = q.key)
    BY <2>1 DEF InCharge
  <2> QED BY <1>2, <2>1, <2>2 DEF Owes
<1> QED BY <1>3, <1>4

\* A GET is answered with what it has seen, if what it relies on survives the step.
LEMMA NextSees ==
  ASSUME AllHonest, AllSettled, InCharge, SeesStored, GetIsCurrent, NEW c, NEW h,
         DOMAIN h = DOMAIN Quiet, Becomes(c, h), c \in Clients => Continues(req[c], h),
         \A k, S : Current(k) \in S /\ Owes(k, S) => Owes(k, S)'
  PROVE  SeesStored' /\ GetIsCurrent'
<1>1. ASSUME NEW b \in Clients, NEW q, q = IF b = c THEN h ELSE req[b]
      PROVE  /\ req'[b].stage = q.stage /\ req'[b].key = q.key /\ req'[b].answer = q.answer
             /\ Reads(req[b]) => req'[b].seen = q.seen \cup {Current(q.key)}
             /\ ~Reads(req[b]) => req'[b].seen = q.seen
             /\ b = c => Continues(req[b], q)
             /\ b # c => q = req[b]
  BY <1>1, BecomesForm DEF Reads
<1>2. ASSUME NEW b \in Clients, req'[b].seen # {} PROVE Reads(req'[b]) \/ Ended(req'[b])
  <2>1. PICK q : q = IF b = c THEN h ELSE req[b]
    OBVIOUS
  <2>2. CASE b # c
    <3>1. req[b].seen # {} => Reads(req[b]) \/ Ended(req[b])
      BY DEF SeesStored
    <3>2. req'[b].stage = req[b].stage /\ (~Reads(req[b]) => req'[b].seen = req[b].seen)
      BY <1>1, <2>1, <2>2
    <3> QED BY <1>2, <3>1, <3>2 DEF Reads, Ended
  <2>3. CASE b = c
    <3>1. Continues(req[b], q) /\ (~Reads(req[b]) => req'[b].seen = q.seen) /\ req'[b].stage = q.stage
      BY <1>1, <2>1, <2>3
    <3> QED BY <1>2, <3>1 DEF Continues, Reads, Ended
  <2> QED BY <2>2, <2>3
<1>3. ASSUME NEW b \in Clients, req'[b].stage = "getSaved"
      PROVE  \E k, S : k = req'[b].key /\ S = req'[b].seen /\ Owes(k, S)'
  <2>1. PICK k, S : k = req'[b].key /\ S = req'[b].seen
    OBVIOUS
  <2>2. Current(k) \in S /\ Owes(k, S)
    BY <1>3, <2>1, OwedFacts
  <2>3. Owes(k, S)'
    BY <2>2
  <2> QED BY <2>1, <2>3
<1>4. SeesStored'
  BY <1>2, <1>3 DEF SeesStored, Owes, Reads, Ended
<1>5. ASSUME NEW b \in Clients, req'[b].stage = "answered", req'[b].seen # {}, ~Unreadable(req'[b].seen)
      PROVE  req'[b].answer \in req'[b].seen
  <2>1. PICK q : q = IF b = c THEN h ELSE req[b]
    OBVIOUS
  <2>2. CASE b # c
    <3>1. /\ req[b].stage = "answered" /\ req'[b].seen = req[b].seen
          /\ req'[b].answer = req[b].answer
      BY <1>1, <1>5, <2>1, <2>2 DEF Reads
    <3> QED BY <1>5, <3>1 DEF GetIsCurrent
  <2>3. CASE b = c
    <3>1. Continues(req[b], q) /\ req'[b].answer = q.answer /\ q.stage = "answered"
      BY <1>1, <1>5, <2>1, <2>3
    <3>2. /\ Reads(req[b]) => req'[b].seen = q.seen \cup {Current(q.key)}
          /\ ~Reads(req[b]) => req'[b].seen = q.seen
      BY <1>1, <2>1
    <3>3. Reads(req[b]) /\ (q.answer = Current(q.key) \/ (/\ req[b].stage = "getSaved"
            /\ q.seen = req[b].seen /\ q.key = req[b].key /\ q.answer = Stored(q.key)))
      BY <1>5, <3>1, <3>2 DEF Continues, Reads
    <3>4. ASSUME req[b].stage = "getSaved", q.seen = req[b].seen, q.key = req[b].key
          PROVE  Stored(q.key) \in q.seen \cup {Current(q.key)}
      <4>1. ~Unreadable(q.seen)
        BY <1>5, <3>2, <3>3, UnreadableGrows
      <4>2. q.key \in DOMAIN specs => Stored(q.key) \in q.seen
        BY <3>4, <4>1 DEF SeesStored
      <4>3. q.key \notin DOMAIN specs => Stored(q.key) = Current(q.key)
        BY DEF Current
      <4> QED BY <4>2, <4>3
    <3> QED BY <3>1, <3>2, <3>3, <3>4
  <2> QED BY <2>2, <2>3
<1>6. GetIsCurrent'
  BY <1>5 DEF GetIsCurrent, Unreadable
<1> QED BY <1>4, <1>6

\* What a GET relies on, said of what is in memory and in the store after the step.
LEMMA OwesNext ==
  ASSUME NEW k, NEW S, k \in DOMAIN specs' => StoredIn(saved', k) \in S \/ Unreadable(S),
         \A b \in Clients : req'[b].stage = "applying" /\ req'[b].key = k => prev' \in S
  PROVE  Owes(k, S)'
BY DEF Owes, Stored, StoredIn, Unreadable

LEMMA OwesStored ==
  ASSUME NEW k
  PROVE  Stored(k) = StoredIn(saved, k)
BY DEF Stored, StoredIn

\* It survives every step that leaves the documents alone.
LEMMA KeepsOwed ==
  ASSUME AllHonest, NEW c, NEW h, DOMAIN h = DOMAIN Quiet, Becomes(c, h), h.stage # "applying",
         UNCHANGED <<specs, saved, prev>>
  PROVE  \A k, S : Current(k) \in S /\ Owes(k, S) => Owes(k, S)'
<1> SUFFICES ASSUME NEW k, NEW S, Owes(k, S) PROVE Owes(k, S)'
  OBVIOUS
<1>1. ASSUME NEW b \in Clients, req'[b].stage = "applying", req'[b].key = k PROVE prev' \in S
  <2>1. req[b].stage = "applying" /\ req[b].key = k
    BY <1>1, BecomesForm
  <2> QED BY <2>1 DEF Owes
<1>2. k \in DOMAIN specs' => StoredIn(saved', k) \in S \/ Unreadable(S)
  BY OwesStored DEF Owes
<1> QED BY <1>1, <1>2, OwesNext

\* The operation that holds reconcileMu is the one that is in charge.
LEMMA NextInCharge ==
  ASSUME AllHonest, InCharge, NEW c, NEW h, DOMAIN h = DOMAIN Quiet, Becomes(c, h),
         agent' = agent, c \in Clients => agent # "down",
         h.stage \in {"applying", "removing"} => lock' = c,
         h.stage = "applying" => h.key \in DOMAIN specs' /\ specs'[h.key] = h.doc[1],
         h.stage = "removing" => h.key \notin DOMAIN specs',
         \A b \in Clients \ {c} : req[b].stage \in {"applying", "removing"} =>
                                    lock' = lock /\ specs' = specs
  PROVE  InCharge'
<1>1. ASSUME NEW b \in Clients
      PROVE  /\ agent' = "down" => req'[b].stage = "idle"
             /\ req'[b].stage \in {"applying", "removing"} => lock' = b
             /\ req'[b].stage = "applying" =>
                  req'[b].key \in DOMAIN specs' /\ specs'[req'[b].key] = req'[b].doc[1]
             /\ req'[b].stage = "removing" => req'[b].key \notin DOMAIN specs'
  <2>1. PICK q : q = IF b = c THEN h ELSE req[b]
    OBVIOUS
  <2>2. req'[b].stage = q.stage /\ req'[b].key = q.key /\ req'[b].doc = q.doc
    BY <2>1, BecomesForm
  <2>3. CASE b = c
    BY <2>1, <2>2, <2>3
  <2>4. CASE b # c
    <3>1. /\ agent = "down" => req[b].stage = "idle"
          /\ req[b].stage \in {"applying", "removing"} => lock = b
          /\ req[b].stage = "applying" => req[b].key \in DOMAIN specs /\ specs[req[b].key] = req[b].doc[1]
          /\ req[b].stage = "removing" => req[b].key \notin DOMAIN specs
      BY DEF InCharge
    <3> QED BY <2>1, <2>2, <2>4, <3>1
  <2> QED BY <2>3, <2>4
<1> QED BY <1>1 DEF InCharge

\* While nobody holds reconcileMu, nothing is being applied or removed; while c holds it,
\* nobody else does so.
LEMMA LockFacts ==
  ASSUME InCharge, NEW b \in Clients, req[b].stage \in {"applying", "removing"}
  PROVE  lock = b /\ lock # None
BY ApiAssumption DEF InCharge

\* A request that is not read has seen nothing.
LEMMA UnseenFacts ==
  ASSUME SeesStored, NEW c \in Clients, ~Reads(req[c]), ~Ended(req[c])
  PROVE  req[c].seen = {}
BY DEF SeesStored

\* The requests that leave the documents alone.
LEMMA QuietSees ==
  ASSUME file \in Files, AllHonest, AllSettled, InCharge, SeesStored, GetIsCurrent, NEW c \in Clients,
         \/ Request(c) \/ ClientApply(c) \/ GetRuntime(c) \/ ReadRuntime(c) \/ Audit(c) \/ Close(c)
  PROVE  InCharge' /\ SeesStored' /\ GetIsCurrent'
<1>1. ASSUME NEW h, DOMAIN h = DOMAIN Quiet, Becomes(c, h), Continues(req[c], h), agent # "down",
             h.stage \notin {"applying", "removing"}, UNCHANGED <<agent, specs, saved, lock, prev>>
      PROVE  InCharge' /\ SeesStored' /\ GetIsCurrent'
  <2>1. h.stage # "applying"
    BY <1>1
  <2>2. \A k, S : Current(k) \in S /\ Owes(k, S) => Owes(k, S)'
    BY <1>1, <2>1, KeepsOwed
  <2>3. SeesStored' /\ GetIsCurrent'
    BY <1>1, <2>2, NextSees
  <2>4. InCharge'
    BY <1>1, NextInCharge
  <2> QED BY <2>3, <2>4
<1>2. CASE Request(c) \/ ClientApply(c)
  <2>1. PICK h : /\ DOMAIN h = DOMAIN Quiet /\ Becomes(c, h) /\ h.seen = {}
                 /\ h.stage \in {"apply", "remove", "get", "answered"}
    BY <1>2, RequestForm
  <2>2. Free(c) /\ UNCHANGED <<agent, specs, saved, lock, prev>>
    BY <1>2, RequestForm
  <2>3. Continues(req[c], h) /\ agent # "down"
    BY <2>1, <2>2 DEF Continues, Free, Reads
  <2> QED BY <1>1, <2>1, <2>2, <2>3
<1>3. CASE GetRuntime(c) \/ ReadRuntime(c)
  <2>1. UNCHANGED <<agent, specs, saved, lock, prev>>
    BY <1>3, GetForm
  <2>2. PICK h : /\ DOMAIN h = DOMAIN Quiet /\ Becomes(c, h) /\ h.seen = req[c].seen
                 /\ h.key = req[c].key
                 /\ \/ /\ req[c].stage = "get" /\ h.stage = "getSaved"
                       /\ req[c].key \notin DOMAIN specs
                    \/ /\ req[c].stage = "get" /\ h.stage = "answered"
                       /\ h.key \in DOMAIN specs /\ h.answer = <<specs[h.key]>>
                    \/ /\ req[c].stage = "getSaved" /\ h.stage = "answered"
                       /\ h.answer = Stored(h.key)
    BY <1>3, GetForm
  <2>3. h.key \in DOMAIN specs => Current(h.key) = <<specs[h.key]>>
    BY DEF Current
  <2>4. Continues(req[c], h) /\ h.stage \notin {"applying", "removing"}
    BY <2>2, <2>3 DEF Continues
  <2>5. agent # "down"
    BY <2>2 DEF InCharge
  <2> QED BY <1>1, <2>1, <2>2, <2>4, <2>5
<1>4. CASE Audit(c) \/ Close(c)
  <2>1. UNCHANGED <<agent, specs, saved, lock, prev>> /\ Ended(req[c])
    BY <1>4, EndForm
  <2>2. PICK h : /\ DOMAIN h = DOMAIN Quiet /\ Becomes(c, h)
                 /\ \/ h.stage = "audited" /\ h.seen = req[c].seen
                    \/ h.stage = "idle" /\ h.seen = {}
    BY <1>4, EndForm
  <2>3. Continues(req[c], h) /\ h.stage \notin {"applying", "removing"}
    BY <2>1, <2>2 DEF Continues, Ended, Reads
  <2>4. agent # "down"
    BY <2>1 DEF InCharge, Ended
  <2> QED BY <1>1, <2>1, <2>2, <2>3, <2>4
<1> QED BY <1>2, <1>3, <1>4

\* An Apply that is admitted: what it might come back to is what every GET has just seen.
LEMMA BeginApplySees ==
  ASSUME AllHonest, AllSettled, InCharge, SeesStored, GetIsCurrent, NEW c \in Clients, BeginApply(c)
  PROVE  InCharge' /\ SeesStored' /\ GetIsCurrent'
<1>1. /\ req[c].stage = "apply" /\ lock = None /\ UNCHANGED <<agent, saved>>
      /\ \/ \E h : /\ DOMAIN h = DOMAIN Quiet /\ Becomes(c, h) /\ h.stage = "applying"
                   /\ h.key = req[c].key /\ h.seen = req[c].seen /\ Settled(h.doc[1])
                   /\ lock' = c /\ prev' = Current(h.key) /\ specs' = Put(specs, h.key, h.doc[1])
         \/ Becomes(c, Answer(req[c], 500)) /\ UNCHANGED <<lock, prev, specs>>
  BY BeginApplyForm
<1>2. req[c].seen = {} /\ ~Reads(req[c]) /\ agent # "down"
  <2>1. ~Reads(req[c]) /\ ~Ended(req[c])
    BY <1>1 DEF Reads, Ended
  <2> QED BY <1>1, <2>1, UnseenFacts DEF InCharge
<1>3. \A b \in Clients : req[b].stage \notin {"applying", "removing"}
  BY <1>1, LockFacts
<1>4. ASSUME NEW h, DOMAIN h = DOMAIN Quiet, Becomes(c, h), h.stage = "applying", h.seen = {},
             lock' = c, prev' = Current(h.key), specs' = Put(specs, h.key, h.doc[1])
      PROVE  InCharge' /\ SeesStored' /\ GetIsCurrent'
  <2>1. PICK j, d : j = h.key /\ d = h.doc[1]
    OBVIOUS
  <2>2. /\ DOMAIN specs' = DOMAIN specs \cup {j} /\ specs'[j] = d
        /\ \A x \in DOMAIN specs \ {j} : specs'[x] = specs[x]
    <3>1. specs' = Put(specs, j, d)
      BY <1>4, <2>1
    <3> QED BY <3>1 DEF Put
  <2>3. ASSUME NEW k, NEW S, Current(k) \in S, Owes(k, S) PROVE Owes(k, S)'
    <3>1. ASSUME k \in DOMAIN specs' PROVE StoredIn(saved', k) \in S \/ Unreadable(S)
      <4>1. k \notin DOMAIN specs => Stored(k) \in S
        BY <2>3 DEF Current
      <4>2. Stored(k) \in S \/ Unreadable(S)
        BY <2>3, <4>1 DEF Owes
      <4> QED BY <1>1, <4>2, OwesStored
    <3>2. ASSUME NEW b \in Clients, req'[b].stage = "applying", req'[b].key = k PROVE prev' \in S
      <4>1. b = c /\ k = j
        BY <1>3, <1>4, <2>1, <3>2, BecomesForm
      <4> QED BY <1>4, <2>1, <2>3, <4>1
    <3> QED BY <3>1, <3>2, OwesNext
  <2>4. Continues(req[c], h)
    BY <1>2, <1>4 DEF Continues
  <2>5. SeesStored' /\ GetIsCurrent'
    BY <1>4, <2>3, <2>4, NextSees
  <2>6. InCharge'
    BY <1>1, <1>2, <1>3, <1>4, <2>1, <2>2, NextInCharge
  <2> QED BY <2>5, <2>6
<1>5. ASSUME Becomes(c, Answer(req[c], 500)), UNCHANGED <<lock, prev, specs>>
      PROVE  InCharge' /\ SeesStored' /\ GetIsCurrent'
  <2>1. PICK h : h = Answer(req[c], 500)
    OBVIOUS
  <2>2. DOMAIN h = DOMAIN Quiet /\ h.stage = "answered" /\ h.seen = {}
    BY <1>2, <2>1, AnswerForm DEF AllHonest, Honest
  <2>3. Becomes(c, h) /\ Continues(req[c], h)
    BY <1>2, <1>5, <2>1, <2>2 DEF Continues
  <2>4. UNCHANGED <<specs, saved, prev>> /\ h.stage # "applying"
    BY <1>1, <1>5, <2>2
  <2>5. \A k, S : Current(k) \in S /\ Owes(k, S) => Owes(k, S)'
    BY <2>2, <2>3, <2>4, KeepsOwed
  <2>6. SeesStored' /\ GetIsCurrent'
    BY <2>2, <2>3, <2>5, NextSees
  <2>7. InCharge'
    BY <1>1, <1>2, <1>5, <2>2, <2>3, NextInCharge
  <2> QED BY <2>6, <2>7
<1> QED BY <1>1, <1>2, <1>4, <1>5

\* An Apply that ends: the document it leaves in the store is one every GET has seen.
LEMMA EndApplyForm ==
  ASSUME AllHonest, AllSettled, NEW c \in Clients, EndApply(c)
  PROVE  /\ req[c].stage = "applying" /\ agent' = agent /\ prev' = << >>
         /\ \E h : DOMAIN h = DOMAIN Quiet /\ Becomes(c, h) /\ h.stage = "answered" /\ h.seen = req[c].seen
         /\ \/ UNCHANGED <<specs, saved>>
            \/ \E d : /\ Settled(d) /\ saved' = Put(saved, req[c].key, d)
                      /\ \/ d = req[c].doc[1] /\ specs' = specs
                         \/ prev = <<d>> /\ specs' = Put(specs, req[c].key, d)
<1>1. PICK s : Becomes(c, Answer(req[c], s))
  BY DEF EndApply
<1>2. DOMAIN req[c] = DOMAIN Quiet
  BY DEF AllHonest, Honest
<1>3. PICK h : h = Answer(req[c], s)
  OBVIOUS
<1>4. DOMAIN h = DOMAIN Quiet /\ h.stage = "answered" /\ h.seen = req[c].seen /\ Becomes(c, h)
  BY <1>1, <1>2, <1>3, AnswerForm
<1>5. /\ req[c].stage = "applying" /\ agent' = agent /\ prev' = << >>
      /\ \/ saved' = Put(saved, req[c].key, req[c].doc[1]) /\ specs' = specs
         \/ /\ prev # << >>
            /\ specs' = Put(specs, req[c].key, prev[1]) /\ saved' = Put(saved, req[c].key, prev[1])
         \/ UNCHANGED <<specs, saved>>
  BY DEF EndApply
<1>6. Settled(req[c].doc[1])
  BY <1>5 DEF AllSettled
<1>7. prev # << >> => prev = <<prev[1]>> /\ Settled(prev[1])
  <2>1. prev # << >> => prev = <<prev[1]>>
    BY DEF AllSettled
  <2>2. prev # << >> => DOMAIN prev = {1}
    BY <2>1
  <2>3. prev # << >> => prev[1] \in Elements(prev)
    BY <2>2 DEF Elements
  <2> QED BY <2>1, <2>3 DEF AllSettled
<1>8. \/ UNCHANGED <<specs, saved>>
      \/ \E d : /\ Settled(d) /\ saved' = Put(saved, req[c].key, d)
                /\ \/ d = req[c].doc[1] /\ specs' = specs
                   \/ prev = <<d>> /\ specs' = Put(specs, req[c].key, d)
  BY <1>5, <1>6, <1>7
<1> QED BY <1>4, <1>5, <1>8

LEMMA EndApplySees ==
  ASSUME AllHonest, AllSettled, InCharge, SeesStored, GetIsCurrent, NEW c \in Clients, EndApply(c)
  PROVE  InCharge' /\ SeesStored' /\ GetIsCurrent'
<1>1. /\ req[c].stage = "applying" /\ agent' = agent /\ prev' = << >>
      /\ \/ UNCHANGED <<specs, saved>>
         \/ \E d : /\ Settled(d) /\ saved' = Put(saved, req[c].key, d)
                   /\ \/ d = req[c].doc[1] /\ specs' = specs
                      \/ prev = <<d>> /\ specs' = Put(specs, req[c].key, d)
  BY EndApplyForm
<1>2. PICK h : DOMAIN h = DOMAIN Quiet /\ Becomes(c, h) /\ h.stage = "answered" /\ h.seen = req[c].seen
  BY EndApplyForm
<1>3. PICK j : j = req[c].key
  OBVIOUS
<1>4. /\ h.seen = {} /\ ~Reads(req[c]) /\ agent # "down"
      /\ j \in DOMAIN specs /\ specs[j] = req[c].doc[1]
  <2>1. ~Reads(req[c]) /\ ~Ended(req[c])
    BY <1>1 DEF Reads, Ended
  <2> QED BY <1>1, <1>2, <1>3, <2>1, UnseenFacts DEF InCharge
<1>5. \A b \in Clients \ {c} : req[b].stage \notin {"applying", "removing"}
  BY <1>1, LockFacts
<1>6. \A b \in Clients : req'[b].stage # "applying"
  BY <1>2, <1>5, BecomesForm
<1>7. ASSUME NEW k, NEW S, Current(k) \in S, Owes(k, S) PROVE Owes(k, S)'
  <2>1. ASSUME NEW d, Settled(d), saved' = Put(saved, j, d), <<d>> \in S \/ k # j,
               specs' = specs \/ specs' = Put(specs, j, d), k \in DOMAIN specs'
        PROVE  StoredIn(saved', k) \in S \/ Unreadable(S)
    <3>1. /\ StoredIn(saved', j) = <<d>> \/ ~Readable(d)
          /\ k # j => StoredIn(saved', k) = StoredIn(saved, k)
      BY <2>1, StoredPut
    <3>2. <<d>> \in S /\ ~Readable(d) => Unreadable(S)
      <4>1. d \in Elements(<<d>>)
        BY DEF Elements
      <4> QED BY <4>1 DEF Unreadable
    <3>3. DOMAIN specs' = DOMAIN specs
      BY <1>4, <2>1 DEF Put
    <3>4. Stored(k) \in S \/ Unreadable(S)
      BY <1>7, <2>1, <3>3 DEF Owes
    <3> QED BY <2>1, <3>1, <3>2, <3>4, OwesStored
  <2>2. ASSUME NEW d, d = req[c].doc[1] \/ prev = <<d>> PROVE <<d>> \in S \/ k # j
    <3>1. CASE d = req[c].doc[1]
      BY <1>4, <1>7, <3>1 DEF Current
    <3>2. CASE prev = <<d>>
      BY <1>1, <1>3, <1>7, <3>2 DEF Owes
    <3> QED BY <2>2, <3>1, <3>2
  <2>3. k \in DOMAIN specs' => StoredIn(saved', k) \in S \/ Unreadable(S)
    <3>1. CASE UNCHANGED <<specs, saved>>
      BY <1>7, <3>1, OwesStored DEF Owes
    <3>2. ASSUME NEW d, Settled(d), saved' = Put(saved, j, d),
                 \/ d = req[c].doc[1] /\ specs' = specs
                 \/ prev = <<d>> /\ specs' = Put(specs, j, d)
          PROVE  k \in DOMAIN specs' => StoredIn(saved', k) \in S \/ Unreadable(S)
      BY <2>1, <2>2, <3>2
    <3> QED BY <1>1, <1>3, <3>1, <3>2
  <2> QED BY <1>6, <2>3, OwesNext
<1>8. Continues(req[c], h)
  BY <1>2, <1>4 DEF Continues
<1>9. SeesStored' /\ GetIsCurrent'
  BY <1>2, <1>7, <1>8, NextSees
<1>10. InCharge'
  BY <1>1, <1>2, <1>4, <1>5, NextInCharge
<1> QED BY <1>9, <1>10

\* Remove takes a document away, which ends what a GET of it relies on.
LEMMA BeginRemoveSees ==
  ASSUME AllHonest, AllSettled, InCharge, SeesStored, GetIsCurrent, NEW c \in Clients, BeginRemove(c)
  PROVE  InCharge' /\ SeesStored' /\ GetIsCurrent'
<1>1. /\ req[c].stage = "remove" /\ lock = None /\ UNCHANGED <<agent, saved, prev>>
      /\ \/ \E h : /\ DOMAIN h = DOMAIN Quiet /\ Becomes(c, h) /\ h.stage = "removing"
                   /\ h.key = req[c].key /\ h.seen = req[c].seen
                   /\ lock' = c /\ specs' = Drop(specs, h.key)
         \/ Becomes(c, Answer(req[c], 500)) /\ UNCHANGED <<lock, specs>>
  BY BeginRemoveForm
<1>2. req[c].seen = {} /\ ~Reads(req[c]) /\ agent # "down"
  <2>1. ~Reads(req[c]) /\ ~Ended(req[c])
    BY <1>1 DEF Reads, Ended
  <2> QED BY <1>1, <2>1, UnseenFacts DEF InCharge
<1>3. \A b \in Clients : req[b].stage \notin {"applying", "removing"}
  BY <1>1, LockFacts
<1>4. PICK h : /\ DOMAIN h = DOMAIN Quiet /\ Becomes(c, h) /\ h.seen = {}
               /\ \/ h.stage = "removing" /\ lock' = c /\ specs' = Drop(specs, h.key)
                  \/ h.stage = "answered" /\ UNCHANGED <<lock, specs>>
  <2>1. PICK f : f = Answer(req[c], 500)
    OBVIOUS
  <2>2. DOMAIN f = DOMAIN Quiet /\ f.stage = "answered" /\ f.seen = {}
    BY <1>2, <2>1, AnswerForm DEF AllHonest, Honest
  <2> QED BY <1>1, <1>2, <2>1, <2>2
<1>5. /\ DOMAIN specs' \subseteq DOMAIN specs
      /\ h.stage = "removing" => h.key \notin DOMAIN specs'
  BY <1>4 DEF Drop
<1>6. \A b \in Clients : req'[b].stage # "applying"
  BY <1>3, <1>4, BecomesForm
<1>7. ASSUME NEW k, NEW S, Owes(k, S) PROVE Owes(k, S)'
  <2>1. k \in DOMAIN specs' => StoredIn(saved', k) \in S \/ Unreadable(S)
    BY <1>1, <1>5, <1>7, OwesStored DEF Owes
  <2> QED BY <1>6, <2>1, OwesNext
<1>8. Continues(req[c], h)
  BY <1>2, <1>4 DEF Continues
<1>9. SeesStored' /\ GetIsCurrent'
  BY <1>4, <1>7, <1>8, NextSees
<1>10. InCharge'
  BY <1>1, <1>2, <1>3, <1>4, <1>5, NextInCharge
<1> QED BY <1>9, <1>10

LEMMA EndRemoveSees ==
  ASSUME AllHonest, AllSettled, InCharge, SeesStored, GetIsCurrent, NEW c \in Clients, EndRemove(c)
  PROVE  InCharge' /\ SeesStored' /\ GetIsCurrent'
<1>1. /\ req[c].stage = "removing" /\ lock' = None /\ UNCHANGED <<agent, specs, prev>>
      /\ saved' = saved \/ saved' = Drop(saved, req[c].key)
  BY EndRemoveForm
<1>2. PICK h : DOMAIN h = DOMAIN Quiet /\ Becomes(c, h) /\ h.stage = "answered" /\ h.seen = req[c].seen
  BY EndRemoveForm
<1>3. PICK j : j = req[c].key
  OBVIOUS
<1>4. h.seen = {} /\ ~Reads(req[c]) /\ agent # "down" /\ j \notin DOMAIN specs
  <2>1. ~Reads(req[c]) /\ ~Ended(req[c])
    BY <1>1 DEF Reads, Ended
  <2> QED BY <1>1, <1>2, <1>3, <2>1, UnseenFacts DEF InCharge
<1>5. \A b \in Clients \ {c} : req[b].stage \notin {"applying", "removing"}
  BY <1>1, LockFacts
<1>6. \A b \in Clients : req'[b].stage # "applying"
  BY <1>2, <1>5, BecomesForm
<1>7. ASSUME NEW k, NEW S, Owes(k, S) PROVE Owes(k, S)'
  <2>1. k # j => StoredIn(saved', k) = StoredIn(saved, k)
    BY <1>1, <1>3, StoredDrop
  <2>2. k \in DOMAIN specs' => StoredIn(saved', k) \in S \/ Unreadable(S)
    BY <1>1, <1>4, <1>7, <2>1, OwesStored DEF Owes
  <2> QED BY <1>6, <2>2, OwesNext
<1>8. Continues(req[c], h)
  BY <1>2, <1>4 DEF Continues
<1>9. SeesStored' /\ GetIsCurrent'
  BY <1>2, <1>7, <1>8, NextSees
<1>10. InCharge'
  BY <1>1, <1>2, <1>4, <1>5, NextInCharge
<1> QED BY <1>9, <1>10

\* A Resync that fails saves what every GET has seen in memory; no GET survives a crash.
LEMMA AgentSees ==
  ASSUME AllHonest, AllSettled, InCharge, SeesStored, GetIsCurrent,
         (\E k : ResyncFails(k)) \/ Crash \/ Restart \/ UNCHANGED vars
  PROVE  InCharge' /\ SeesStored' /\ GetIsCurrent'
<1>1. ASSUME NEW j, ResyncFails(j) PROVE InCharge' /\ SeesStored' /\ GetIsCurrent'
  <2>1. /\ agent = "up" /\ lock = None /\ j \in DOMAIN specs /\ UNCHANGED <<agent, specs, lock, prev>>
        /\ saved' = Put(saved, j, specs[j]) /\ Becomes(None, Quiet)
    BY <1>1 DEF ResyncFails
  <2>2. Quiet.stage = "idle" /\ None \notin Clients
    BY ApiAssumption DEF Quiet
  <2>3. PICK d : d = specs[j]
    OBVIOUS
  <2>4. Settled(d)
    BY <2>1, <2>3 DEF AllSettled, Elements
  <2>5. \A b \in Clients : req[b].stage \notin {"applying", "removing"}
    BY <2>1, LockFacts
  <2>6. \A b \in Clients : req'[b].stage # "applying"
    BY <2>1, <2>2, <2>5, BecomesForm
  <2>7. ASSUME NEW k, NEW S, Current(k) \in S, Owes(k, S) PROVE Owes(k, S)'
    <3>1. /\ StoredIn(saved', j) = <<d>> \/ ~Readable(d)
          /\ k # j => StoredIn(saved', k) = StoredIn(saved, k)
      BY <2>1, <2>3, <2>4, StoredPut
    <3>2. k = j => <<d>> \in S
      BY <2>1, <2>3, <2>7 DEF Current
    <3>3. <<d>> \in S /\ ~Readable(d) => Unreadable(S)
      <4>1. d \in Elements(<<d>>)
        BY DEF Elements
      <4> QED BY <4>1 DEF Unreadable
    <3>4. k \in DOMAIN specs => Stored(k) \in S \/ Unreadable(S)
      BY <2>7 DEF Owes
    <3>5. k \in DOMAIN specs' => StoredIn(saved', k) \in S \/ Unreadable(S)
      BY <2>1, <3>1, <3>2, <3>3, <3>4, OwesStored
    <3> QED BY <2>6, <3>5, OwesNext
  <2>8. SeesStored' /\ GetIsCurrent'
    BY <2>1, <2>2, <2>7, NextSees
  <2>9. InCharge'
    BY <2>1, <2>2, <2>5, NextInCharge
  <2> QED BY <2>8, <2>9
<1>2. ASSUME Crash \/ Restart PROVE InCharge' /\ SeesStored' /\ GetIsCurrent'
  <2>1. \A c \in Clients : req'[c].stage = "idle" /\ req'[c].seen = {}
    <3>1. Crash => \A c \in Clients : req'[c] = Quiet
      BY DEF Crash
    <3>2. Quiet.stage = "idle" /\ Quiet.seen = {}
      BY DEF Quiet
    <3>3. ASSUME Restart, NEW c \in Clients PROVE req'[c].stage = "idle" /\ req'[c].seen = {}
      <4>1. req'[c] = req[c] /\ req[c].stage = "idle"
        BY <3>3 DEF Restart, InCharge
      <4> QED BY <4>1, UnseenFacts DEF Reads, Ended
    <3> QED BY <1>2, <3>1, <3>2, <3>3
  <2> QED BY <2>1 DEF InCharge, SeesStored, GetIsCurrent
<1>3. CASE UNCHANGED vars
  BY <1>3 DEF vars, InCharge, SeesStored, GetIsCurrent, Unreadable, Stored, Reads, Ended
<1> QED BY <1>1, <1>2, <1>3

LEMMA InitSees == Init => InCharge /\ SeesStored /\ GetIsCurrent
<1>1. ASSUME Init
      PROVE  agent = "up" /\ \A c \in Clients : req[c].stage = "idle" /\ req[c].seen = {}
  BY <1>1 DEF Init, Quiet
<1> QED BY <1>1 DEF InCharge, SeesStored, GetIsCurrent

LEMMA NextAllSees ==
  IInv /\ AllSettled /\ InCharge /\ SeesStored /\ GetIsCurrent /\ [Next]_vars
    => InCharge' /\ SeesStored' /\ GetIsCurrent'
<1> SUFFICES ASSUME IInv, AllSettled, InCharge, SeesStored, GetIsCurrent, [Next]_vars
             PROVE  InCharge' /\ SeesStored' /\ GetIsCurrent'
  OBVIOUS
<1>1. file \in Files /\ AllHonest
  BY DEF IInv
<1>2. ASSUME NEW c \in Clients, \/ Request(c) \/ ClientApply(c) \/ GetRuntime(c) \/ ReadRuntime(c)
                                \/ Audit(c) \/ Close(c)
      PROVE  InCharge' /\ SeesStored' /\ GetIsCurrent'
  BY <1>1, <1>2, QuietSees
<1>3. ASSUME NEW c \in Clients, BeginApply(c) \/ EndApply(c) \/ BeginRemove(c) \/ EndRemove(c)
      PROVE  InCharge' /\ SeesStored' /\ GetIsCurrent'
  BY <1>1, <1>3, BeginApplySees, EndApplySees, BeginRemoveSees, EndRemoveSees
<1>4. ASSUME (\E k : ResyncFails(k)) \/ Crash \/ Restart \/ UNCHANGED vars
      PROVE  InCharge' /\ SeesStored' /\ GetIsCurrent'
  BY <1>1, <1>4, AgentSees
<1> QED BY <1>2, <1>3, <1>4 DEF Next

-----------------------------------------------------------------------------
(* Theorems *)

\* A document is changed by an administrator, or applied by an operator: never
\* by a viewer, by a client without a token, or for a request that was refused.
THEOREM OnlyOperatorsAlwaysChange == Spec => []OnlyOperatorsChange
<1>1. IInv => OnlyOperatorsChange
  BY DEF IInv, AllHonest, Honest, Permitted, OnlyOperatorsChange
<1> QED BY <1>1, InitHonest, NextHonest, PTL DEF Spec

\* What changed a Runtime is audited under its key, "denied" means that nothing
\* was changed, and a successful apply changed the Runtime it names.
THEOREM AuditAlwaysTellsTruth == Spec => []AuditTellsTruth
<1>1. ASSUME IInv, NEW c \in Clients, NEW r, r = req[c], r.stage = "audited"
      PROVE  /\ r.changed # {} => r.event # << >>
             /\ \A e \in Elements(r.event) :
                  /\ e.operation # "legacy-reconcile" => r.changed \subseteq {RuntimeKey(e.target)}
                  /\ e.result = "denied" => r.changed = {}
                  /\ e.result = "succeeded" /\ e.operation \in {"apply", "legacy-reconcile"}
                       => r.changed # {}
  <2>1. Honest(r)
    BY <1>1 DEF IInv, AllHonest
  <2>2. PICK s \in Statuses :
          /\ s \in {401, 403} => r.changed = {}
          /\ s < 400 /\ r.operation \in {"apply", "legacy-reconcile"} => r.changed # {}
          /\ r.event = IF r.audit THEN <<[role |-> r.role, operation |-> r.operation,
                                          target |-> r.target, result |-> AuditResult(s)]>>
                       ELSE << >>
    BY <1>1, <2>1 DEF Honest, Results, Ended
  <2>3. r.changed # {} =>
          r.audit /\ (r.operation # "legacy-reconcile" => r.changed \subseteq {RuntimeKey(r.target)})
    BY <2>1 DEF Honest, Names
  <2>4. AuditResult(s) = "denied" => r.changed = {}
    BY <2>2 DEF AuditResult
  <2>5. AuditResult(s) = "succeeded" => s < 400
    BY <2>2 DEF AuditResult, Statuses
  <2>6. CASE r.audit
    <3>1. PICK e : /\ e = [role |-> r.role, operation |-> r.operation, target |-> r.target,
                           result |-> AuditResult(s)]
                   /\ r.event = <<e>>
      BY <2>2, <2>6
    <3>2. Elements(r.event) = {e} /\ r.event # << >>
      BY <3>1 DEF Elements
    <3>3. e.operation = r.operation /\ e.target = r.target /\ e.result = AuditResult(s)
      BY <3>1
    <3> QED BY <2>2, <2>3, <2>4, <2>5, <3>2, <3>3
  <2>7. CASE ~r.audit
    <3>1. r.changed = {} /\ r.event = << >>
      BY <2>2, <2>3, <2>7
    <3> QED BY <3>1 DEF Elements
  <2> QED BY <2>6, <2>7
<1>2. IInv => AuditTellsTruth
  BY <1>1 DEF AuditTellsTruth
<1> QED BY <1>2, InitHonest, NextHonest, PTL DEF Spec

\* Every document the agent holds, written by SaveRuntime, is accepted by ParseRuntimeDocument
\* and comes back unchanged, whatever may be sent, padded, with defaults left out or in the legacy
\* form, and however often it was normalised on its way: unless there is a template token in a string
\* of it, or the forbidden key among those of its maps, where only a padded one can have become it.
THEOREM DocumentsReload == Spec => []ReloadsTheSame
<1>1. AllSettled => ReloadsTheSame
  <2> SUFFICES ASSUME AllSettled, NEW d \in Elements(specs) \cup Elements(saved),
                      Readable(d)
               PROVE  Accepts(SpecFile(d)) /\ AssignRuntime(Parsed(SpecFile(d))) = d
    BY DEF ReloadsTheSame
  <2>1. Settled(d)
    BY DEF AllSettled
  <2> QED BY <2>1, SettledFacts
<1> QED BY <1>1, InitHonest, NextHonest, InitSettled, NextAllSettled, PTL DEF Spec

\* A GET answers with what its Runtime was at some moment between request and answer, although it
\* looks into memory and into the store without reconcileMu, while applies, rollbacks, removals,
\* failing resyncs and crashes go on; unless a document whose file is refused was there to see.
THEOREM GetsAreCurrent == Spec => []GetIsCurrent
<1>1. Init => IInv /\ AllSettled /\ InCharge /\ SeesStored /\ GetIsCurrent
  BY InitHonest, InitSettled, InitSees
<1>2. IInv /\ AllSettled /\ InCharge /\ SeesStored /\ GetIsCurrent /\ [Next]_vars
        => IInv' /\ AllSettled' /\ InCharge' /\ SeesStored' /\ GetIsCurrent'
  BY NextHonest, NextAllSettled, NextAllSees
<1> QED BY <1>1, <1>2, PTL DEF Spec

=============================================================================
