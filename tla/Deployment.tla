------------------------------ MODULE Deployment ------------------------------
(***************************************************************************)
(* The lowering of a .deploy file (rex-driver deploy.rs): applications of   *)
(* components, profiles that choose a target, and deployments, whose        *)
(* effective settings must fit the target and satisfy the profile's         *)
(* policies.                                                               *)
(*                                                                         *)
(* A setting is [path, value]: the segments of its name and <<"int", n>>,   *)
(* <<"text", s>> or <<"word", w>>.  A policy's condition is the sequence of *)
(* its tokens, operands before their operator.  Evaluation looks at every   *)
(* operand, so what its typing would refuse it refuses too; typing is left  *)
(* out, and with it the range of 32-bit literals.                          *)
(***************************************************************************)
EXTENDS NameScope, Integers

CONSTANTS
  IntMax      \* the largest number of a condition (2^63 - 1)

Kinds == {"api", "worker", "database", "queue", "objectStore", "frontend"}
Targets == {"standalone", "dockerCompose", "kubernetes", "cloudflareWorkers"}

Cluster == {"longRunningProcess", "persistentFilesystem", "sqlDatabase", "backgroundWorker",
            "statefulProcess", "container", "horizontalScaling"}
Capabilities == Cluster \cup {"edgeExecution"}

TargetCapabilities(target) ==
  CASE target = "standalone" -> Cluster \ {"container", "horizontalScaling"}
    [] target = "cloudflareWorkers" -> {"sqlDatabase", "horizontalScaling", "edgeExecution"}
    [] OTHER -> Cluster

KindRequires(kind) ==
  CASE kind = "worker" -> {"longRunningProcess"}
    [] kind = "database" -> {"sqlDatabase"}
    [] OTHER -> {}

TargetEngines(target) ==
  CASE target = "standalone" -> {"sqlite"}
    [] target = "dockerCompose" -> {"sqlite", "postgres"}
    [] target = "kubernetes" -> {"postgres"}
    [] target = "cloudflareWorkers" -> {"d1"}

\* The settings of a kind, and what each may hold.
Vocabulary(kind) ==
  LET Words(w) == <<"word", w>>
      hosted == "runtime" :> Words({"embedded", "container", "external"})
      port == "port" :> <<"int">>
      stored == "storage" :> Words({"local", "volume", "external", "managed"})
      serving == "replicas" :> <<"int">> @@ "health" :> <<"text">> @@ port
  IN  CASE kind = "api" -> "runtime" :> Words({"embedded", "container", "worker", "external"})
              @@ "scaling" :> Words({"singleInstance", "replicated", "autoscaled"})
              @@ "cors" :> <<"text">> @@ serving
        [] kind = "worker" -> hosted @@ serving
        [] kind = "database" -> "engine" :> Words({"sqlite", "postgres", "d1"}) @@ stored @@ hosted @@ port
        [] kind = "queue" -> "replicas" :> <<"int">> @@ hosted @@ port
        [] kind = "objectStore" -> stored @@ port
        [] kind = "frontend" -> "runtime" :> Words({"static", "worker", "container"})
              @@ "entrypoint" :> <<"text">> @@ "cors" :> <<"text">> @@ port

Fitting(kind, name, value) ==
  /\ name \in DOMAIN Vocabulary(kind)
  /\ value[1] = Vocabulary(kind)[name][1]
  /\ value[1] = "word" => value[2] \in Vocabulary(kind)[name][2]

-----------------------------------------------------------------------------
(* The syntax tree.                                                        *)

DeploySetting(s) == IsList(s.path) /\ s.value = <<s.value[1], s.value[2]>> /\ s.value[1] \in {"int", "text", "word"}
DeploySettings(settings) == IsList(settings) /\ \A s \in Range(settings) : DeploySetting(s)

\* The path of a file, and of what it declares a module or everything.
DeployBinding(b) == HasFields(b, {"path", "joined", "dmn", "alias", "module"})

DeployComponent(c) ==
  /\ HasFields(c, {"name", "kind", "requires", "settings", "env", "designs", "flows"})
  /\ DeploySettings(c.settings) /\ IsList(c.env)
  /\ \A b \in c.designs \cup c.flows : DeployBinding(b)

DeployConnection(c) == c = <<c[1], c[2]>>

DeployApplication(a) ==
  /\ HasFields(a, {"name", "components", "connections"})
  /\ IsList(a.components) /\ \A c \in Range(a.components) : DeployComponent(c)
  /\ \A c \in a.connections : DeployConnection(c)

DeployPolicy(p) == HasFields(p, {"prohibit", "parses", "expr"}) /\ IsList(p.expr)

DeployProfile(p) ==
  /\ HasFields(p, {"name", "target", "defaults", "policies", "mappings"})
  /\ DeploySettings(p.defaults)
  /\ \A policy \in p.policies : DeployPolicy(policy)

DeployDeployment(d) == HasFields(d, {"name", "application", "profile", "configure"}) /\ DeploySettings(d.configure)

DeployFile(file) ==
  /\ IsList(file.applications) /\ \A a \in Range(file.applications) : DeployApplication(a)
  /\ IsList(file.profiles) /\ \A p \in Range(file.profiles) : DeployProfile(p)
  /\ IsList(file.deployments) /\ \A d \in Range(file.deployments) : DeployDeployment(d)

-----------------------------------------------------------------------------
OpenDeployment(file) ==
  LET Design(import) == \E i \in DOMAIN file.designs : ImportMatches(import, file.designs[i])
      Flow(import) == \E i \in DOMAIN file.flows : ImportMatches(import, file.flows[i])
  IN  [applications |-> <<>>, profiles |-> <<>>, deployments |-> <<>>,
       errors |-> When(file.parseErrors, "syntax")
         \cup When(\E m \in Range(file.imports) : ~Design(m) /\ ~Flow(m), "import not provided")
         \cup When(\E m \in Range(file.imports) : (Design(m) \/ Flow(m)) /\ m.kind \notin {"ddd", "ifml"},
                   "unsupported import")]

\* A level makes a setting once: the first of its path counts.  A component's
\* are told apart by the last segment.
Paths(settings) == [i \in DOMAIN settings |-> settings[i].path]
LastNames(settings) == [i \in DOMAIN settings |-> Last(settings[i].path)]

\* A binding names a provided file, imported or not, and a module of it.
BindingFits(binding, provided) ==
  LET file == FirstOf(provided, LAMBDA f : ImportMatches(binding, f), NoName)
  IN  file # NoName /\ (binding.module = NoName \/ binding.module \in file.modules)

ComponentErrors(file, component) ==
  When(~(component.requires \subseteq Capabilities), "unknown capability")
        \cup When(\E s \in Range(component.settings) : Len(s.path) # 1, "setting path")
        \cup When(Repeated(LastNames(component.settings)) # {}, "duplicate setting")
        \cup When(\E s \in Range(component.settings) : ~Fitting(component.kind, Last(s.path), s.value),
                  "bad setting")
        \cup When(NoName \in Range(component.env), "empty env")
        \cup When(Repeated(component.env) \ {NoName} # {}, "duplicate env")
        \cup When(\/ \E b \in component.designs : ~BindingFits(b, file.designs)
                  \/ \E b \in component.flows : ~BindingFits(b, file.flows), "bad binding")

\* A component declared twice, or of no kind, is dropped.
LowerApplication(st, file, application) ==
  LET Usable(i) ==
        LET c == application.components[i]
        IN  c.kind \in Kinds /\ \A j \in 1..(i - 1) : \/ application.components[j].name # c.name
                                                      \/ application.components[j].kind \notin Kinds
      kept == {application.components[i] : i \in {n \in DOMAIN application.components : Usable(n)}}
      ends == (UNION {{c[1], c[2]} : c \in application.connections}) \ {NoName}
  IN  [st EXCEPT
         !.applications = Append(@, [name |-> application.name, components |-> kept]),
         !.errors = @ \cup When(\E i \in DOMAIN st.applications : st.applications[i].name = application.name,
                                "duplicate application")
                      \cup When(Cardinality(kept) # Len(application.components), "bad component")
                      \cup (UNION {ComponentErrors(file, c) : c \in kept})
                      \cup When(~(ends \subseteq {c.name : c \in kept}), "unknown component")]

\* A profile without a known target is dropped.  Its defaults are checked
\* against an application only where it is deployed.
LowerProfile(st, profile) ==
  LET errors == When(\E i \in DOMAIN st.profiles : st.profiles[i].name = profile.name, "duplicate profile")
                  \cup When(profile.target \notin Targets, "unknown target")
      rest == When(\E s \in Range(profile.defaults) : Len(s.path) # 2, "setting path")
                \cup When(Repeated(Paths(profile.defaults)) # {}, "duplicate setting")
                \cup When(~(profile.mappings \subseteq Kinds), "unknown kind")
  IN  IF profile.target \notin Targets THEN [st EXCEPT !.errors = @ \cup errors]
      ELSE [st EXCEPT !.profiles = Append(@, [profile EXCEPT !.defaults = {@[i] : i \in Firsts(Paths(@))}]),
                      !.errors = @ \cup errors \cup rest]

-----------------------------------------------------------------------------
(* Settings of a deployment.                                               *)

ComponentOf(application, name) ==
  LET named == {c \in application.components : c.name = name}
  IN  IF named = {} THEN NoName ELSE CHOOSE c \in named : TRUE

SettingFits(application, setting) ==
  /\ Len(setting.path) = 2
  /\ ComponentOf(application, setting.path[1]) # NoName
  /\ Fitting(ComponentOf(application, setting.path[1]).kind, setting.path[2], setting.value)

Baseline(application) ==
  LET Own(c) ==
        LET made == {i \in Firsts(LastNames(c.settings)) :
                       Len(c.settings[i].path) = 1 /\ Fitting(c.kind, c.settings[i].path[1], c.settings[i].value)}
        IN  [n \in {c.settings[i].path[1] : i \in made} |->
               c.settings[CHOOSE i \in made : c.settings[i].path[1] = n].value]
  IN  [n \in {c.name : c \in application.components} |-> Own(ComponentOf(application, n))]

\* What a level makes of a component's settings; one that does not fit is
\* dropped.
Made(application, settings) ==
  {settings[i] : i \in {k \in Firsts(Paths(settings)) : SettingFits(application, settings[k])}}

LevelOf(application, settings, component) ==
  LET made == {s \in Made(application, settings) : s.path[1] = component}
  IN  [n \in {s.path[2] : s \in made} |-> (CHOOSE s \in made : s.path[2] = n).value]

\* A level overrides the levels below it.
Over(above, below) ==
  [n \in DOMAIN above \cup DOMAIN below |-> IF n \in DOMAIN above THEN above[n] ELSE below[n]]

\* Mutant: a level fills in what the level below it left open.
ApplySettingsUnder(effective, application, settings) ==
  [n \in DOMAIN effective |-> Over(effective[n], LevelOf(application, settings, n))]

ApplySettings(effective, application, settings) ==
  [n \in DOMAIN effective |-> Over(LevelOf(application, settings, n), effective[n])]

LevelErrors(application, settings) ==
  When(\E s \in Range(settings) : ~SettingFits(application, s), "bad setting")
    \cup When(Repeated(Paths(settings)) # {}, "duplicate setting")

\* The word or text a component is set to.
Word(settings, name) ==
  IF name \in DOMAIN settings /\ settings[name][1] # "int" THEN settings[name][2] ELSE NoName

Required(component, settings) ==
  KindRequires(component.kind) \cup (component.requires \cap Capabilities)
    \cup When(Word(settings, "engine") = "sqlite", "persistentFilesystem")
    \cup When(Word(settings, "runtime") = "container", "container")

CapabilityErrors(application, effective, target) ==
  When(\E c \in application.components :
         ~(Required(c, effective[c.name]) \subseteq TargetCapabilities(target)), "capability not provided")
    \cup When(\E c \in application.components :
                LET engine == Word(effective[c.name], "engine")
                IN  c.kind = "database" /\ engine # NoName /\ engine \notin TargetEngines(target),
              "engine not available")

-----------------------------------------------------------------------------
(* Policies.                                                               *)

EvalError == <<"error">>
Checked(n) == IF n \in (-IntMax - 1)..IntMax THEN <<"int", n>> ELSE EvalError

\* Division truncates towards zero.
Quotient(a, b) ==
  LET Abs(n) == IF n < 0 THEN -n ELSE n
      q == Abs(a) \div Abs(b)
  IN  IF (a < 0) = (b < 0) THEN q ELSE -q

EvaluateBinary(op, lhs, rhs) ==
  LET Both(kind) == lhs[1] = kind /\ rhs[1] = kind
  IN  CASE op = "and" /\ Both("bool") -> <<"bool", lhs[2] /\ rhs[2]>>
        [] op = "or" /\ Both("bool") -> <<"bool", lhs[2] \/ rhs[2]>>
        [] op = "==" /\ lhs[1] = rhs[1] /\ lhs # EvalError -> <<"bool", lhs[2] = rhs[2]>>
        [] op = "<" /\ Both("int") -> <<"bool", lhs[2] < rhs[2]>>
        [] op = "+" /\ Both("int") -> Checked(lhs[2] + rhs[2])
        [] op = "*" /\ Both("int") -> Checked(lhs[2] * rhs[2])
        [] op = "/" /\ Both("int") /\ rhs[2] # 0 -> Checked(Quotient(lhs[2], rhs[2]))
        [] OTHER -> EvalError

\* A setting nobody made is an error.
SettingValue(effective, component, name) ==
  IF component \in DOMAIN effective /\ name \in DOMAIN effective[component]
  THEN LET value == effective[component][name]
       IN  IF value[1] = "word" THEN <<"text", value[2]>> ELSE value
  ELSE EvalError

EvaluateUnary(op, operand) ==
  CASE op = "not" /\ operand[1] = "bool" -> <<"bool", ~operand[2]>>
    [] op = "neg" /\ operand[1] = "int" -> Checked(-operand[2])
    [] OTHER -> EvalError

\* No operand is skipped: each token puts a value on the stack, in place of
\* those of its operands.
Evaluate(expr, effective) ==
  LET Token(stack, t) ==
        LET top == Len(stack)
        IN  CASE t[1] \in {"int", "text", "bool"} -> Append(stack, t)
              [] t[1] = "path" -> Append(stack, SettingValue(effective, t[2], t[3]))
              [] t[1] \in {"not", "neg"} -> [stack EXCEPT ![top] = EvaluateUnary(t[1], @)]
              [] t[1] \in {"and", "or", "==", "<", "+", "*", "/"} ->
                   Append(SubSeq(stack, 1, top - 2), EvaluateBinary(t[1], stack[top - 1], stack[top]))
              [] OTHER -> Append(stack, EvalError)
  IN  Head(FoldLeft(Token, <<>>, expr))

PolicyErrors(policies, effective) ==
  When(\E p \in policies : ~p.parses \/ Evaluate(p.expr, effective) # <<"bool", ~p.prohibit>>,
       "policy violated")

LowerDeployment(st, file, deployment) ==
  LET application == FirstOf(st.applications, LAMBDA a : a.name = deployment.application, NoName)
      profile == FirstOf(st.profiles, LAMBDA p : p.name = deployment.profile, NoName)
      authored == FirstOf(file.profiles, LAMBDA p : p.name = deployment.profile, NoName)
      defaults == IF profile = NoName THEN <<>> ELSE authored.defaults
      effective == ApplySettings(ApplySettings(Baseline(application), application, defaults),
                                 application, deployment.configure)
      duplicate == When(\E i \in DOMAIN st.deployments : st.deployments[i].name = deployment.name,
                        "duplicate deployment")
  IN  IF application = NoName
      THEN [st EXCEPT !.errors = @ \cup duplicate \cup {"unknown application"}]
      ELSE LET levels == LevelErrors(application, defaults) \cup LevelErrors(application, deployment.configure)
           IN  IF profile = NoName
               THEN [st EXCEPT !.errors = @ \cup duplicate \cup levels \cup {"unknown profile"}]
               ELSE [st EXCEPT
                       !.deployments = Append(@, [deployment EXCEPT !.configure = Made(application, @)]),
                       !.errors = @ \cup duplicate \cup levels
                                    \cup CapabilityErrors(application, effective, profile.target)
                                    \cup PolicyErrors(profile.policies, effective)]

DeployArtifact(st) ==
  [applications |-> st.applications, profiles |-> st.profiles, deployments |-> st.deployments]
=============================================================================
