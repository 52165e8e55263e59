--------------------------- MODULE SurfaceGrammar ---------------------------
(***************************************************************************)
(* The grammars of the surfaces (rex-syntax parser): of .mox and .actor    *)
(* files (shared.rs, imports.rs, mox.rs, actor.rs), of .evt, .deploy and    *)
(* .ddd files (evt.rs, deploy.rs, ddd.rs) and of .uc, .cmmn and .dmn files  *)
(* (uc.rs, cmmn.rs, dmn.rs).  A definition is the production of its name.   *)
(***************************************************************************)
EXTENDS Grammar

Path == Seq_(<<Segment, Many(Seq_(<<Kw("."), Segment>>))>>)
QName == Node("qname", Path)
TRef == QName
Bound == Alt(<<Int_, Leaf({"*"})>>)
Multiplicity ==
  Seq_(<<Kw("["), Node("mult", Seq_(<<Opt(Int_), Opt(Seq_(<<Kw("."), Kw("."), Bound>>))>>)), Kw("]")>>)
DefaultValue == Alt(<<Str, Int_, Leaf({"true", "false"}), Name>>)
Opposite == Seq_(<<Kw("opposite"), Node("opposite", Name)>>)
Modifiers == Many(Leaf({"id", "readonly"}))
RawBody == Balanced("{", "}")
RawParens == Balanced("(", ")")
TargetBody == Node("target", Seq_(<<Name, RawBody>>))
OpBody == Opt(Alt(<<Seq_(<<Kw("{"), Some(TargetBody), Kw("}")>>), RawBody>>))
Params ==
  LET param == Node("param", Seq_(<<TRef, Name>>))
  IN  Seq_(<<Kw("("), Opt(List(param)), Kw(")")>>)
ConstraintEntry ==
  Alt(<<Seq_(<<Leaf({"pattern", "minLength", "maxLength", "minimum", "maximum"}), <<"in", Literals, FALSE>>>>),
        Seq_(<<Leaf({"unique"}), Opt(Bad(<<"in", Literals, FALSE>>))>>)>>)
ConstraintBlock ==
  Seq_(<<Kw("{"), Node("constraints", Distinct_(Many(ConstraintEntry))), Kw("}")>>)

-----------------------------------------------------------------------------
(* Imports.                                                                *)

ImportDecl == Node("import", Seq_(<<Kw("import"), Str>>))
ImportSchemaDecl ==
  Node("import schema",
       Seq_(<<Kw("import"), Kw("schema"), Must(Str),
              Alt(<<Seq_(<<Kw("as"), Must(Name)>>), Opt(Name)>>)>>))
\* An alias is read and dropped; only its `as` is reported.
ImportSigilDecl ==
  Node("import sigil", Seq_(<<Kw("import"), Kw("sigil"), Must(Str), Opt(Bad(Kw("as"))), Opt(Node("dropped", Name))>>))

-----------------------------------------------------------------------------
(* Features and declarations of a model.                                   *)

Attribute ==
  Node("attribute", Seq_(<<TRef, Opt(Multiplicity), Name, Opt(Seq_(<<Kw("="), DefaultValue>>)),
                           Opt(ConstraintBlock)>>))
Related(keyword) ==
  Node(keyword, Seq_(<<Kw(keyword), TRef, Opt(Multiplicity), Name, Opt(Opposite)>>))
Container == Node("container", Seq_(<<Kw("container"), TRef, Name, Opt(Opposite)>>))
OpDecl == Node("op", Seq_(<<Kw("op"), TRef, Name, Params, OpBody>>))
DerivedDecl == Node("derived", Seq_(<<Kw("derived"), TRef, Opt(Multiplicity), Name, OpBody>>))

\* The modifiers are a set.
FeatureKinds == <<"contains", "refers", "container", "op", "derived", "attribute">>
Feature ==
  Alt(<<Fold("feature",
             <<<<"id", "first">>, <<"readonly", "first">>>> \o [i \in DOMAIN FeatureKinds |-> <<FeatureKinds[i], "all">>],
             Seq_(<<Modifiers, Alt(<<Related("contains"), Related("refers"), Container, OpDecl, DerivedDecl, Attribute>>)>>)),
        JunkMember({"contains", "refers", "container", "op", "derived"})>>)

PackageDecl == Node("package", Seq_(<<Kw("package"), QName>>))
AnnotationDecl == Node("annotation", Seq_(<<Kw("annotation"), Str, Opt(Seq_(<<Kw("as"), Name>>))>>))
ClassDecl ==
  Node("class", Seq_(<<Kw("class"), Name, Opt(Seq_(<<Kw("extends"), Node("extends", List(TRef))>>)),
                       Kw("{"), Many(Feature), Kw("}")>>))
BindingEntry == Node("binding", Seq_(<<Name, Str>>))
InterfaceDecl == Node("interface", Seq_(<<Kw("interface"), Name, Kw("{"), Many(BindingEntry), Kw("}")>>))
EnumDecl ==
  LET literal == Node("literal", Seq_(<<Name, Opt(Seq_(<<Kw("as"), Str>>)), Opt(Seq_(<<Kw("="), Int_>>))>>))
  IN  Node("enum", Seq_(<<Kw("enum"), Name, Kw("{"), Some(literal), Kw("}")>>))

NamedTargetBlock(word) == Node(word, Seq_(<<Kw(word), Kw("{"), Many(TargetBody), Kw("}")>>))
FormatEntry == Node("format", Seq_(<<Kw("format"), Str>>))
DatatypeBlock ==
  LET reserved == Bad(Node("binding", Seq_(<<Leaf({"^format"}), Str>>)))
      entry == Alt(<<NamedTargetBlock("create"), NamedTargetBlock("convert"), FormatEntry, reserved, BindingEntry>>)
  IN  Fold("block", <<<<"binding", "all">>, <<"format", "once">>, <<"create", "once">>, <<"convert", "once">>>>,
           Seq_(<<Kw("{"), Many(entry), Kw("}")>>))
DatatypeDecl ==
  Node("datatype", Seq_(<<Kw("type"), Name, Kw("wraps"), Opt(Alt(<<Leaf({"opaque"}), QName>>)), Opt(DatatypeBlock)>>))

\* A later version or key replaces an earlier one.
VocabularyDecl ==
  LET item == Alt(<<Node("version", Seq_(<<Kw("version"), Str>>)), Node("key", Seq_(<<Kw("key"), Name>>)),
                    Node("facet", Seq_(<<Kw("facet"), TRef, Name>>))>>)
  IN  Fold("vocabulary", <<<<"name", "all">>, <<"version", "last">>, <<"key", "last">>, <<"facet", "all">>>>,
           Seq_(<<Kw("vocabulary"), Node("name", Name), Kw("from"), Node("name", Str), Kw("{"), Many(item), Kw("}")>>))

-----------------------------------------------------------------------------
(* Actors.                                                                 *)

Principal(keyword) == Node(keyword, Seq_(<<Kw(keyword), Name, Opt(Seq_(<<Kw("extends"), Name>>))>>))
CapabilityDecl == Node("capability", Seq_(<<Kw("capability"), Name, Kw("on"), TRef>>))
NeverBothDecl ==
  Node("never_both", Seq_(<<Kw("never_both"), Kw("{"), Name, Must(Some(Seq_(<<Kw(","), Name>>))), Kw("}")>>))
EffectEntry ==
  Node("effect", Seq_(<<Leaf({"permit", "forbid"}), Name, Opt(Seq_(<<Kw("when"), RawParens>>)),
                        Many(Seq_(<<Kw("obligation"), Name>>))>>))
CedarEntry == Node("cedar", Seq_(<<Kw("cedar"), RawBody>>))
GrantEntry == Alt(<<EffectEntry, CedarEntry>>)
GrantDecl == Node("grant", Seq_(<<Kw("grant"), Name, Kw("{"), Many(GrantEntry), Kw("}")>>))
DelegationDecl ==
  LET item == Alt(<<Node("from", Seq_(<<Kw("from"), Name>>)), Node("to", Seq_(<<Kw("to"), Name>>)),
                    Node("purpose", Seq_(<<Kw("purpose"), Name>>)), GrantEntry>>)
  IN  Delegation(Seq_(<<Kw("delegation"), Name, Kw("{"), Many(item), Kw("}")>>))
ActorsBlock ==
  LET item == Alt(<<Principal("actor"), Principal("agent"), CapabilityDecl,
                    Node("purpose", Seq_(<<Kw("purpose"), Name>>)),
                    Node("obligation", Seq_(<<Kw("obligation"), Name>>)),
                    GrantDecl, DelegationDecl, NeverBothDecl>>)
  IN  Node("actors", Seq_(<<Kw("actors"), Name, Kw("{"), Many(item), Kw("}")>>))

-----------------------------------------------------------------------------
(* Files.                                                                  *)

MoxItems == <<PackageDecl, AnnotationDecl, ClassDecl, InterfaceDecl, EnumDecl, DatatypeDecl, VocabularyDecl, ActorsBlock,
              ImportSchemaDecl, ImportSigilDecl>>
MoxFences == {"package", "annotation", "class", "interface", "enum", "type", "vocabulary", "actors", "import"}
ActorItems == <<ImportDecl, ActorsBlock>>
\* Mutant: only an import ends what is skipped.
ActorFencesImport == {"import"}
ActorFences == {"import", "actors"}

-----------------------------------------------------------------------------
(* Designs, contracts, deployments, use cases, cases and decision models.  *)

DddImport == Node("import", Seq_(<<Kw("import"), Str, Opt(Kw(";"))>>))
\* A clause is committed by its word: `, x` alone is read, and reported.
NamesClause(word, item) ==
  Node(word, Seq_(<<Kw(word), Must(item), Many(Seq_(<<Kw(","), item>>))>>))
DddCapabilities == NamesClause("capability", Name)
DddInvokes == NamesClause("invokes", QName)
DddEmits == NamesClause("emits", Name)
DddGuard == Node("guard", Seq_(<<Kw("when"), RawParens>>))
DddSignature ==
  LET param == Node("param", Seq_(<<TRef, Opt(Multiplicity), Name>>))
  IN  Seq_(<<TRef, Opt(Multiplicity), Name, Node("params", Seq_(<<Kw("("), Opt(List(param)), Kw(")")>>))>>)
DddDelegation == Sized("delegates", Nat \ {0, 1}, Path)

DddServiceOp ==
  LET clauses == Seq_(<<Opt(DddCapabilities), Opt(DddInvokes), Opt(DddEmits), Opt(DddGuard), Kw(";")>>)
  IN  Node("operation",
        Seq_(<<Opt(Leaf({"protected"})),
               Alt(<<Seq_(<<Name, Kw("=>"), DddDelegation, clauses>>), Seq_(<<DddSignature, clauses>>)>>)>>))
DddInject ==
  Seq_(<<Kw("inject"),
         Alt(<<Node("inject decision", Seq_(<<Kw("decision"), QName>>)), Node("inject", Name)>>), Kw(";")>>)
DddService ==
  Fold("service", <<<<"name", "all">>, <<"operation", "all">>, <<"inject", "all">>, <<"inject decision", "all">>>>,
       Seq_(<<Kw("service"), Node("name", Name), Braced(Members(Alt(<<DddServiceOp, DddInject>>)))>>))

DesignFlags == <<"scaffold", "auditable", "optimisticLocking", "nonPersistent", "cache">>
DddFlags == Many(Alt([i \in DOMAIN DesignFlags |-> Node(DesignFlags[i], Seq_(<<Opt(Leaf({"!"})), Kw(DesignFlags[i])>>))]))
\* A bare word and `;` is a generated operation; what is neither this nor a
\* declared one is skipped, with its `protected`.
DddRepositoryOp ==
  LET builtin == Seq_(<<Leaf({"findById", "findAll", "findByExample", "findByKeys", "save", "delete"}), Kw(";")>>)
      declared == Seq_(<<DddSignature, Opt(DddGuard), Kw(";")>>)
      protected == Opt(Leaf({"protected"}))
  IN  Alt(<<Node("operation", Seq_(<<protected, Alt(<<builtin, declared>>)>>)),
            Seq_(<<Opt(Kw("protected")), JunkMember({})>>)>>)
DddRepository == Node("repository", Seq_(<<Kw("repository"), Name, Braced(Many(DddRepositoryOp))>>))

DddTransition ==
  Node("transition",
       Seq_(<<Name, Kw("->"), Name, Opt(Node("via", Seq_(<<Kw("via"), Name>>))), Opt(DddGuard), Kw(";")>>))
\* A later `initial` replaces an earlier one.
DddMachine ==
  LET State(word) == Node(word, Seq_(<<Kw(word), Name, Kw(";")>>))
  IN  Fold("machine", <<<<"name", "all">>, <<"qname", "all">>, <<"initial", "last">>, <<"terminal", "all">>,
                        <<"transition", "all">>>>,
           Seq_(<<Kw("machine"), Node("name", Name), Kw(":"), TRef,
                  Braced(Members(Alt(<<State("initial"), State("terminal"), DddTransition>>)))>>))
\* Flags may come in any order and again, the first of a kind counts.
DddDesign ==
  Fold("design", <<<<"head", "all">>, <<"name", "all">>>> \o [i \in DOMAIN DesignFlags |-> <<DesignFlags[i], "first">>]
                 \o <<<<"repository", "all">>, <<"machine", "all">>>>,
       Seq_(<<Node("head", Seq_(<<Opt(Leaf({"abstract"})), Leaf({"entity", "value", "dto"})>>)), Node("name", Name),
              DddFlags, Opt(DddRepository), Opt(DddMachine)>>))

-----------------------------------------------------------------------------
(* Searches.                                                               *)

\* Tokens and balanced brackets up to `;`, of nesting two at most here.
DddRawExpr ==
  LET atom == Outside({"(", ")", "[", "]", "{", "}", ";"})
      Around(g) == Alt(<<atom, Seq_(<<Leaf({"("}), g, Leaf({")"})>>), Seq_(<<Leaf({"["}), g, Leaf({"]"})>>),
                         Seq_(<<Leaf({"{"}), g, Leaf({"}"})>>)>>)
  IN  Seq_(<<Node("expression", Some(Around(Some(Around(Some(atom)))))), Kw(";")>>)
DddDocumentEntry == Node("document", Seq_(<<Name, Kw("="), DddRawExpr>>))
DddSearchField ==
  Node("text", Seq_(<<QName, Opt(Node("boost", Seq_(<<Kw("boost"), Int_>>))),
                      Opt(Node("analyzer", Seq_(<<Kw("analyzer"), Str>>)))>>))
DddSearchNames(word) == Seq_(<<Kw(word), Braced(Members(Node(word, QName)))>>)
DddRanking ==
  Node("ranking", Seq_(<<Kw("ranking"), Alt(<<Leaf({"bm25", "tfIdf", "exact"}), Seq_(<<Kw("custom"), Str>>)>>)>>))
DddPagination ==
  LET Bound_(word) == Node(word, Seq_(<<Kw(word), Int_>>))
  IN  Fold("pagination", <<<<"limit", "first">>, <<"max", "first">>, <<"cursor", "first">>>>,
           Seq_(<<Kw("pagination"), Braced(Many(Alt(<<Bound_("limit"), Bound_("max"), Leaf({"cursor"})>>)))>>))
DddSearchMember ==
  LET Block(word, item) == Seq_(<<Kw(word), Braced(Members(item))>>)
  IN  Alt(<<Node("entity", Seq_(<<Kw("entity"), QName>>)), Block("text", DddSearchField), DddSearchNames("filters"),
            DddSearchNames("sort"), Block("document", DddDocumentEntry), DddRanking,
            Node("analyzer", Seq_(<<Kw("analyzer"), Str>>)), DddPagination,
            Node("capability", Seq_(<<Kw("capability"), Name>>))>>)
DddSearch ==
  Fold("search", <<<<"name", "all">>, <<"entity", "first">>, <<"text", "all">>, <<"filters", "all">>, <<"sort", "all">>,
                   <<"document", "all">>, <<"ranking", "first">>, <<"analyzer", "first">>, <<"pagination", "first">>,
                   <<"capability", "all">>>>,
       Seq_(<<Kw("search"), Node("name", Name), Braced(Members(DddSearchMember))>>))

-----------------------------------------------------------------------------
(* Modules and the application.                                            *)

DddModule ==
  Fold("module", <<<<"name", "all">>, <<"service", "all">>, <<"design", "all">>, <<"search", "all">>>>,
       Seq_(<<Kw("module"), Node("name", Name), Braced(Members(Alt(<<DddService, DddDesign, DddSearch>>)))>>))
DddBase == Node("base", Seq_(<<Kw("base"), QName>>))
\* One base, before the modules.
DddApplication ==
  Leading("application", "base", Seq_(<<Kw("application"), Node("name", Name), Braced(Members(Alt(<<DddBase, DddModule>>)))>>))
DddItems == <<DddImport, DddApplication>>
DddFences == {"import", "application"}

-----------------------------------------------------------------------------
(* Events.                                                                 *)

Semi == Must(Kw(";"))

EvtFieldName == Alt(<<Name, Leaf({"type"})>>)
EventField == Node("field", Seq_(<<EvtFieldName, Must(Kw(":")), Must(TRef), Semi>>))
EvtNameLine(word) == Node(word, Seq_(<<Kw(word), Must(Name), Semi>>))
EvtRetentionLine == Node("retention", Seq_(<<Kw("retention"), Must(Str), Semi>>))
EvtPiiLine ==
  Node("pii", Seq_(<<Kw("pii"), Must(Seq_(<<Kw("["), Many(Name), Must(Kw("]"))>>)), Semi>>))
EvtCeEntry(word) == Node(word, Seq_(<<Kw(word), Must(Str)>>))
CloudEventsDecl ==
  Node("cloudEvents",
       Seq_(<<Kw("cloudEvents"),
              Must(Seq_(<<Kw("{"), Must(EvtCeEntry("type")), Must(EvtCeEntry("source")),
                          Opt(EvtCeEntry("subject")), Must(Kw("}"))>>))>>))
EventBodyMember ==
  Alt(<<EvtNameLine("owner"), EvtNameLine("classification"), EvtRetentionLine, EvtPiiLine, CloudEventsDecl,
        EventField>>)

\* Repeated lines: the last wins.
EventDecl ==
  Fold("event",
       <<<<"name", "all">>, <<"version", "all">>, <<"field", "all">>, <<"owner", "last">>,
         <<"classification", "last">>, <<"retention", "last">>, <<"pii", "all">>, <<"cloudEvents", "last">>>>,
       Seq_(<<Kw("event"), Node("name", Name),
              Alt(<<Seq_(<<Kw("version"), Must(Node("version", Str))>>), Opt(Node("version", Str))>>),
              Kw("{"), Many(EventBodyMember), Kw("}")>>))

PublishesEntry == Node("publishes", Seq_(<<Kw("publishes"), Must(Name), Semi>>))
ChannelDecl ==
  Node("channel", Seq_(<<Kw("channel"), Name, Led(Kw("of"), Node("scope", Name)), Kw("{"),
                         Many(PublishesEntry), Kw("}")>>))

EvtDeliveryEntry(word, value) == Opt(Node(word, Seq_(<<Kw(word), Must(value), Semi>>)))
DeliveryDecl ==
  Node("delivery",
       Seq_(<<Kw("delivery"),
              Must(Seq_(<<Kw("{"), Must(Node("mode", Seq_(<<Kw("mode"), Must(Name), Semi>>))),
                          EvtDeliveryEntry("maxAttempts", Int_), EvtDeliveryEntry("backoffSeconds", Int_),
                          EvtDeliveryEntry("timeoutSeconds", Int_), EvtDeliveryEntry("deadLetter", Name),
                          Must(Kw("}"))>>))>>))
EvtWhenClause == Seq_(<<Kw("when"), Must(Node("when", RawParens))>>)

\* The words that lead the next clause end what is open; the closing brace
\* may be missing.
SubscriptionDecl ==
  LET eventList(closed) == Seq_(<<Kw("["), Node("events", Many(NameBut({"consumer"}))), closed>>)
  IN  Node("subscription",
        Seq_(<<Kw("subscription"), Name, Kw("{"),
               Alt(<<Seq_(<<Kw("events"), Must(eventList(Must(Kw("]"))))>>),
                     Seq_(<<Err, Opt(eventList(Opt(Kw("]"))))>>)>>),
               Alt(<<Seq_(<<Kw("consumer"), Must(Node("consumer", Name))>>),
                     Seq_(<<Err, Opt(Node("consumer", Name))>>)>>),
               Led(Kw("scope"), Node("scope", NameBut({"delivery"}))),
               Opt(EvtWhenClause), Opt(DeliveryDecl), Opt(Kw("}"))>>))

EvtItems == <<ImportDecl, EventDecl, ChannelDecl, SubscriptionDecl>>
EvtFences == {"import", "event", "channel", "subscription"}

-----------------------------------------------------------------------------
(* Deployments.                                                            *)

\* A setting's value may be any word, keywords too.
DeploySetting == Node("setting", Seq_(<<QName, Must(Kw(":")), Must(Alt(<<Str, Int_, Segment>>))>>))
DeployRequires == Seq_(<<Kw("requires"), Must(Node("requires", Name)), Many(Seq_(<<Kw(","), Node("requires", Name)>>))>>)
DeployBinding(word) == Node(word, Seq_(<<Kw(word), Must(Str)>>))
DeployEnvEntry == Node("env", Seq_(<<Segment, Kw("="), Must(Str)>>))
DeployEnvBlock == Seq_(<<Kw("env"), Kw("{"), Many(DeployEnvEntry), Must(Kw("}"))>>)
DeployComponentMember ==
  Alt(<<DeployRequires, DeployBinding("design"), DeployBinding("flow"), DeployEnvBlock, DeploySetting>>)
DeployComponent ==
  Fold("component", <<<<"name", "all">>, <<"kind", "all">>, <<"requires", "all">>, <<"setting", "all">>,
                      <<"design", "all">>, <<"flow", "all">>, <<"env", "all">>>>,
       Seq_(<<Kw("component"), Node("name", Name), Must(Kw(":")), Must(Node("kind", Name)),
              Opt(Braced(Many(DeployComponentMember)))>>))
DeployConnects == Node("connects", Seq_(<<Kw("connects"), Must(Name), Must(Kw("->")), Must(Name)>>))
DeployApplication ==
  Fold("application", <<<<"name", "all">>, <<"component", "all">>, <<"connects", "all">>>>,
       Seq_(<<Kw("application"), Node("name", Name), Braced(Many(Alt(<<DeployComponent, DeployConnects>>)))>>))

DeployTargetLine == Node("target", Seq_(<<Kw("target"), Must(Kw(":")), Must(Name)>>))
DeployPolicy == Node("policy", Seq_(<<Leaf({"require", "prohibit"}), Must(RawParens)>>))
DeployMapping == Node("mapping", Seq_(<<Name, Must(Kw("->")), Must(QName)>>))
\* A later target, defaults or mappings replaces an earlier one.
DeployProfile ==
  LET Block(word, item) == Node(word, Seq_(<<Kw(word), Braced(Many(item))>>))
  IN  Fold("profile", <<<<"name", "all">>, <<"target", "last">>, <<"defaults", "last">>, <<"policy", "all">>,
                        <<"mappings", "last">>>>,
           Seq_(<<Kw("profile"), Node("name", Name),
                  Braced(Members(Alt(<<DeployTargetLine, Block("defaults", DeploySetting),
                                       Block("mappings", DeployMapping), DeployPolicy>>)))>>))
DeployDeployment ==
  Node("deployment",
       Seq_(<<Kw("deployment"), Name, Must(Kw("for")), Must(Name),
              Braced(Seq_(<<Must(Node("use", Seq_(<<Kw("use"), Must(Name)>>))),
                            Opt(Node("configure", Seq_(<<Kw("configure"), Braced(Many(DeploySetting))>>)))>>))>>))
DeployItems == <<ImportDecl, DeployApplication, DeployProfile, DeployDeployment>>
DeployFences == {"import", "application", "profile", "deployment"}

-----------------------------------------------------------------------------
(* Use cases, cases and decision models.                                  *)

UcSemi == Must(Kw(";"))
\* An import may have an alias; `as` without one is reported.
AliasedImport == Node("import", Seq_(<<Kw("import"), Str, Opt(Seq_(<<Kw("as"), Must(Name)>>))>>))
OperationPath == Sized("operation", {3}, Path)
WhenClause == Opt(Seq_(<<Kw("when"), Must(Node("when", RawParens))>>))

UcOccurrence ==
  Node("occurrence", Seq_(<<Kw("occurrence"), Must(Name), Opt(Seq_(<<Kw("."), Must(Leaf({"source", "target"}))>>)), UcSemi>>))
UcReqName == NameBut({"occurrence", "perform"})
\* A colon without an operation is left to the junk behind the step.
UcPerform ==
  Node("perform",
       Seq_(<<Kw("perform"), Must(Name), Opt(Node("operation", Seq_(<<Kw(":"), Name>>))),
              Opt(Seq_(<<Kw("requires"), Must(Kw("[")), Node("requires", Many(UcReqName)), Must(Kw("]"))>>)),
              WhenClause, UcSemi>>))
UcEndpoint(word) ==
  Node(word, Seq_(<<Name, Alt(<<Seq_(<<Kw("."), Must(Name)>>), Seq_(<<Err, Opt(Name)>>)>>)>>))
UcMessage ==
  Node("message",
       Seq_(<<Kw("message"), Must(Name), Opt(Seq_(<<Kw("of"), Node("payload", TRef)>>)),
              Opt(Seq_(<<Kw("from"), UcEndpoint("source")>>)), Opt(Seq_(<<Kw("to"), UcEndpoint("target")>>)), UcSemi>>))
UcNodeRef ==
  Alt(<<Node("qualified", Seq_(<<Name, Kw("."), Name>>)), Node("marker", Leaf({"start", "done"})), Node("bare", Name)>>)
UcSuccession ==
  Node("first", Seq_(<<Kw("first"), UcNodeRef, Must(Seq_(<<Kw("then"), UcNodeRef>>)), UcSemi>>))
UcRealizes == Node("realizes", Seq_(<<Kw("realizes"), OperationPath, UcSemi>>))
JunkUcMember == JunkMember({"actor"})
UcBody ==
  Opt(Braced(Many(Alt(<<UcOccurrence, UcPerform, JunkUcMember>>))))
UcTyped == Node("type", Seq_(<<Kw(":"), TRef>>))
UcParticipant ==
  LET policy == <<<<"name", "all">>, <<"type", "all">>, <<"occurrence", "all">>, <<"perform", "all">>>>
  IN  Alt(<<Fold("subject", policy, Seq_(<<Kw("subject"), Node("name", Name), Must(UcTyped), UcBody>>)),
            Fold("actor", policy, Seq_(<<Kw("actor"), Node("name", Name), Opt(UcTyped), UcBody>>))>>)
UseCaseDecl ==
  Fold("usecase", <<<<"name", "all">>, <<"subject", "once">>, <<"actor", "all">>, <<"message", "all">>, <<"first", "all">>,
                    <<"realizes", "all">>>>,
       Seq_(<<Kw("usecase"), Node("name", Name),
              Braced(Many(Alt(<<UcParticipant, UcMessage, UcSuccession, UcRealizes, JunkUcMember>>)))>>))
UcItems == <<AliasedImport, UseCaseDecl>>
UcFences == {"import", "usecase"}

-----------------------------------------------------------------------------
(* Cases.                                                                  *)

RoleDecl == Node("role", Seq_(<<Kw("role"), Must(Name), Opt(Seq_(<<Kw("as"), Must(Node("actor", Name))>>)), UcSemi>>))
RolesBlock == Seq_(<<Kw("roles"), Braced(Members(RoleDecl))>>)
CaseFileItem == Node("item", Seq_(<<TRef, Opt(Multiplicity), Must(Name), UcSemi>>))
CaseFileBlock == Seq_(<<Kw("case_file"), Braced(Members(CaseFileItem))>>)

CmmnOnPart == Node("on", Seq_(<<Name, Opt(Seq_(<<Kw("."), Must(Name)>>))>>))
\* Without `on` the parts are still read.
CriterionDecl(word) ==
  Node(word, Seq_(<<Kw(word), Alt(<<Seq_(<<Kw("on"), Must(List(CmmnOnPart))>>), Seq_(<<Err, Opt(List(CmmnOnPart))>>)>>),
                    WhenClause, UcSemi>>))
PerformerClause == Node("performer", Seq_(<<Kw("performer"), Must(Seq_(<<Kw(":"), Must(Name)>>)), UcSemi>>))
ExecuteClause == Node("execute", Seq_(<<Kw("execute"), OperationPath, UcSemi>>))
FlagDecl(word) == Node(word, Seq_(<<Kw(word), UcSemi>>))
PlanItemBody(nested) ==
  Opt(Braced(Members(Alt(<<PerformerClause, ExecuteClause, CriterionDecl("entry"), CriterionDecl("exit"),
                           FlagDecl("required"), FlagDecl("repeats"), FlagDecl("auto")>> \o nested))))
PlanItem(word, nested) ==
  Fold(word, <<<<"name", "all">>, <<"performer", "once">>, <<"execute", "once">>, <<"entry", "all">>, <<"exit", "all">>,
               <<"required", "first">>, <<"auto", "first">>, <<"repeats", "first">>, <<"plan", "all">>>>,
       Seq_(<<Kw(word), Must(Node("name", Name)), PlanItemBody(nested)>>))
SimpleItem == Alt(<<PlanItem("task", <<>>), PlanItem("service", <<>>), PlanItem("milestone", <<>>)>>)
\* Stages nest; here three deep.
PlanItemDecl ==
  LET Item(nested) ==
        Node("plan", Alt(<<Seq_(<<Leaf({"discretionary"}), SimpleItem>>), SimpleItem, PlanItem("stage", nested)>>))
  IN  Item(<<Item(<<Item(<<>>)>>)>>)
CaseDecl ==
  Fold("case", <<<<"name", "all">>, <<"role", "all">>, <<"item", "all">>, <<"plan", "all">>>>,
       Seq_(<<Kw("case"), Must(Node("name", Name)),
              Braced(Members(Alt(<<RolesBlock, CaseFileBlock, PlanItemDecl>>)))>>))
CmmnItems == <<AliasedImport, CaseDecl>>
CmmnFences == {"import", "case"}

-----------------------------------------------------------------------------
(* Decisions.                                                              *)

DmnImport == Node("import", Seq_(<<Kw("import"), Str, Opt(Kw(";"))>>))
DmnSemi == Opt(Kw(";"))
JunkDmnMember == JunkMember({"import"})
DmnMembers(g) == Many(Alt(<<g, JunkDmnMember>>))
\* A missing or unclosed body is reported; only the word before it is read.
BracedItems(g) == Must(Braced(g))
KeywordBlock(word, g) == Seq_(<<Kw(word), BracedItems(g)>>)
Line(word, value) == Node(word, Seq_(<<Kw(word), Must(value), DmnSemi>>))

DmnMetadata == Node("meta", Alt(<<Line("id", Str), Line("version", Str), Line("effective", Str), Line("jurisdiction", Str)>>))
DmnTypedEntry(kind) == Node(kind, Seq_(<<Name, Must(Seq_(<<Kw(":"), TRef>>)), DmnSemi>>))
DmnBareName(stops) == NameBut(stops)
DmnNameList(word, stops) == KeywordBlock(word, Many(Node(word, DmnBareName(stops))))
ServiceNameStops == {"description", "inputs", "outputs", "encapsulates"}
ViewNameStops == {"description", "show", "direction"}

DmnOutputLine == Node("output", Seq_(<<Kw("output"), Must(TRef), DmnSemi>>))
DmnBinding == Node("binding", Seq_(<<Name, Must(Seq_(<<Kw(":"), Str>>)), DmnSemi>>))
DmnInvokeLogic == Node("invoke", Seq_(<<Kw("invoke"), Must(Name), BracedItems(Many(DmnBinding))>>))
DmnLogicClause ==
  LET Text(word) == Node(word, Seq_(<<Kw(word), Must(Str)>>))
  IN  Node("logic", Seq_(<<Kw("logic"), Must(Alt(<<Text("table"), Text("expression"), DmnInvokeLogic>>))>>))
\* The first display name and the first reference stay.
DmnSourceDecl ==
  Fold("source", <<<<"id", "all">>, <<"name", "first">>, <<"reference", "first">>>>,
       Seq_(<<Kw("source"), Must(Node("id", Name)),
              BracedItems(DmnMembers(Alt(<<Line("name", Str), Line("reference", Str)>>)))>>))
DmnBkmDecl ==
  Needing("logic",
    Fold("model", <<<<"id", "all">>, <<"parameter", "all">>, <<"output", "once">>, <<"logic", "once">>>>,
         Seq_(<<Kw("model"), Must(Node("id", Name)),
                BracedItems(DmnMembers(Alt(<<KeywordBlock("parameters", Many(DmnTypedEntry("parameter"))),
                                             DmnOutputLine, DmnLogicClause>>)))>>)))
DmnDecisionDecl ==
  Fold("decision", <<<<"id", "all">>, <<"output", "all">>, <<"logic", "once">>>>,
       Seq_(<<Kw("decision"), Must(Node("id", Name)),
              BracedItems(DmnMembers(Alt(<<DmnOutputLine, KeywordBlock("outputs", Many(DmnTypedEntry("output"))),
                                           DmnLogicClause>>)))>>))
\* The connective is not kept: a line belongs to its group whatever it says.
DmnRequirementLine(group) ==
  Node(group, Seq_(<<Name, Alt(<<Seq_(<<<<"in", {"requires", "invokes", "governed_by"}, FALSE>>, Must(Name)>>),
                                 Seq_(<<Err, Opt(Name)>>)>>), DmnSemi>>))
DmnRequirementGroup(group) == KeywordBlock(group, DmnMembers(DmnRequirementLine(group)))
DmnRequirements ==
  KeywordBlock("requirements", DmnMembers(Alt(<<DmnRequirementGroup("information"), DmnRequirementGroup("knowledge"),
                                                DmnRequirementGroup("authority")>>)))
DmnDescription == Line("description", Str)
DmnServiceDecl ==
  Fold("service", <<<<"id", "all">>, <<"description", "first">>, <<"inputs", "all">>, <<"outputs", "all">>,
                    <<"encapsulates", "all">>>>,
       Seq_(<<Kw("service"), Must(Node("id", Name)),
              BracedItems(DmnMembers(Alt(<<DmnDescription, DmnNameList("inputs", ServiceNameStops),
                                           DmnNameList("outputs", ServiceNameStops),
                                           DmnNameList("encapsulates", ServiceNameStops)>>)))>>))
DmnDirection == Line("direction", Name)
DmnViewDecl ==
  Fold("view", <<<<"id", "all">>, <<"description", "first">>, <<"show", "all">>, <<"direction", "once">>>>,
       Seq_(<<Kw("view"), Must(Node("id", Name)),
              BracedItems(DmnMembers(Alt(<<DmnDescription, DmnNameList("show", ViewNameStops), DmnDirection>>)))>>))
DmnModelMember ==
  Alt(<<Line("namespace", QName), DmnMetadata, KeywordBlock("inputs", Many(DmnTypedEntry("input"))),
        KeywordBlock("knowledge", DmnMembers(Alt(<<DmnSourceDecl, DmnBkmDecl>>))),
        KeywordBlock("decisions", Many(DmnDecisionDecl)), DmnRequirements,
        KeywordBlock("services", Many(DmnServiceDecl)), KeywordBlock("views", Many(DmnViewDecl))>>)
DecisionModelDecl ==
  Fold("decision_model",
       <<<<"id", "all">>, <<"namespace", "once">>, <<"meta", "all">>, <<"input", "all">>, <<"source", "all">>,
         <<"model", "all">>, <<"decision", "all">>, <<"information", "all">>, <<"knowledge", "all">>,
         <<"authority", "all">>, <<"service", "all">>, <<"view", "all">>>>,
       Seq_(<<Kw("decision_model"), Must(Node("id", Name)), BracedItems(DmnMembers(DmnModelMember))>>))
DmnItems == <<DmnImport, DecisionModelDecl>>
DmnFences == {"import", "decision_model"}
=============================================================================
