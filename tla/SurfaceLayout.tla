--------------------------- MODULE SurfaceLayout ----------------------------
(***************************************************************************)
(* The layout of files of all surfaces (rex-syntax/src/fmt): .mox and       *)
(* .actor (mox.rs, actor.rs), .evt, .deploy and .ddd (evt.rs, deploy.rs,    *)
(* ddd.rs), .uc, .cmmn and .dmn (uc.rs, cmmn.rs, dmn.rs); and of .ifml.     *)
(***************************************************************************)
EXTENDS TextLayout


ScanClassItem ==
  Seq_(<<InWordOrder(<<"id", "readonly">>), Cases(<<
    <<In({"contains", "refers"}), Seq_(<<Adv, ScanQname, ScanMultiplicity, TakeName, ScanOpposite>>)>>,
    <<In({"container"}), Seq_(<<Adv, ScanQname, TakeName, ScanOpposite>>)>>,
    <<In({"op"}), Seq_(<<Adv, ScanQname, TakeName, ScanParams, ScanOpBody>>)>>,
    <<In({"derived"}), Seq_(<<Adv, ScanQname, ScanMultiplicity, TakeName, ScanOpBody>>)>>,
    <<Ident, Seq_(<<ScanQname, ScanMultiplicity, TakeName, ScanDefault, ScanConstraintBlock>>)>> >>,
    Junk(IdentOr({"}", "contains", "refers", "container", "op", "derived"})))>>)

ScanEnumLiteral ==
  If(Ident, Seq_(<<TakeName, When(In({"as"}), TakeStr), When(In({"="}), Take(In({"INT"})))>>),
     Junk(IdentOr({"}"})))

ScanBinding ==
  Cases(<<
    <<Before(In({"create", "convert", "^create", "^convert"}), In({"{"})), Seq_(<<Adv, ScanTargetBodyList>>)>>,
    <<Ident, Seq_(<<TakeName, TakeStr>>)>> >>,
    Junk(IdentOr({"}"})))

ScanVocabularyItem ==
  Cases(<<
    <<In({"version"}), Seq_(<<Adv, TakeStr>>)>>,
    <<In({"key"}), Seq_(<<Adv, TakeName>>)>>,
    <<In({"facet"}), Seq_(<<Adv, ScanQname, TakeName>>)>> >>,
    Junk(In({"}", "version", "key", "facet"})))

-----------------------------------------------------------------------------
(* Actors.                                                                 *)

ScanGrantEntry ==
  Cases(<<
    <<In({"permit", "forbid"}),
      Seq_(<<Adv, TakeName, When(In({"when"}), ScanRawParens), While(In({"obligation"}), Seq_(<<Adv, TakeName>>))>>)>>,
    <<Before(In({"cedar"}), In({"{"})), ScanTargetBlock>> >>,
    Junk(In({"}", "permit", "forbid", "cedar"})))

ScanDelegationItem ==
  Cases(<<
    <<In({"from", "to", "purpose"}), Seq_(<<Adv, TakeName>>)>>,
    <<In({"permit", "forbid", "cedar"}), ScanGrantEntry>> >>,
    Junk(In({"}", "from", "purpose", "permit", "forbid", "cedar"})))

ScanNeverBoth ==
  LET names == Seq_(<<While(Apart(Ident, In({","})), Seq_(<<Adv, Take(In({","}))>>)), TakeName>>)
  IN  Seq_(<<Adv, When(In({"{"}), Seq_(<<names, Take(In({"}"}))>>))>>)

ScanActorsItem ==
  Cases(<<
    <<In({"actor", "agent"}), Seq_(<<Adv, TakeName, When(In({"extends"}), TakeName)>>)>>,
    <<In({"capability"}), Seq_(<<Adv, TakeName, When(In({"on"}), ScanQname)>>)>>,
    <<In({"purpose", "obligation"}), Seq_(<<Adv, TakeName>>)>>,
    <<In({"grant"}), Seq_(<<Adv, TakeName, Body(ScanGrantEntry)>>)>>,
    <<In({"delegation"}), Seq_(<<Adv, TakeName, Body(ScanDelegationItem)>>)>>,
    <<In({"never_both"}), ScanNeverBoth>> >>,
    Junk(In({"}", "actor", "agent", "capability", "purpose", "grant", "delegation", "never_both"})))

-----------------------------------------------------------------------------
(* Files.                                                                  *)

ScanImport == TakeStr
ScanActors == Seq_(<<TakeName, Body(ScanActorsItem)>>)
ActorTop == << <<{"import"}, ScanImport>>, <<{"actors"}, ScanActors>> >>

MoxTop == <<
  <<{"package"}, ScanQname>>,
  <<{"annotation"}, Seq_(<<TakeStr, When(In({"as"}), TakeName)>>)>>,
  <<{"class"}, Seq_(<<ScanQname, When(In({"extends"}), Seq_(<<ScanQname, While(In({","}), Seq_(<<Adv, ScanQname>>))>>)),
                      Body(ScanClassItem)>>)>>,
  <<{"interface"}, Seq_(<<ScanQname, Body(ScanBinding)>>)>>,
  <<{"enum"}, Seq_(<<ScanQname, Body(ScanEnumLiteral)>>)>>,
  <<{"type"}, Seq_(<<ScanQname, When(In({"wraps"}), If(In({"opaque"}), Adv, ScanQname)), Body(ScanBinding)>>)>>,
  <<{"vocabulary"}, Seq_(<<ScanQname, Take(In({"from"})), TakeStr, Body(ScanVocabularyItem)>>)>>,
  <<{"actors"}, ScanActors>>,
  <<{"import"}, Seq_(<<Take(In({"schema", "sigil"})), TakeStr, When(In({"as"}), TakeName)>>)>> >>

\* Declarations begin at their words, wherever no brace is open, and comments
\* end the one before; a package that comes first stays so, then imports.
DeclarationWords == UNION {r[1] : r \in Range(MoxTop)}
HoistImportSchemas(n) ==
  LET items == ItemsOf(n, 1, Len(n), FALSE, "none", In(DeclarationWords), <<>>)
      Words(i) == LET ts == SelectSeq(items[i].nodes, LAMBDA m : m.t \notin Comments) IN [k \in DOMAIN ts |-> ts[k].t]
      IsImport(i) ==
        LET w == Words(i) IN Len(w) >= 3 /\ w[1] = "import" /\ w[2] \in {"schema", "sigil"} /\ w[3] = "STR"
  IN  InOrder([i \in DOMAIN items |->
                [items[i] EXCEPT !.rank = IF i = 1 /\ n[1].t = "package" THEN 0 ELSE IF IsImport(i) THEN 1 ELSE 2]])

-----------------------------------------------------------------------------
(* Events, deployments and designs; use cases, cases and decision models.   *)


Semicolon == Take(In({";"}))
Listed(g) == Seq_(<<g, While(In({","}), Seq_(<<Adv, g>>))>>)
ScanDddCapabilities == When(In({"capability"}), Listed(TakeName))
ScanDddInvokes == When(In({"invokes"}), Listed(ScanQname))
ScanDddEmits == When(In({"emits"}), Listed(TakeName))
ScanDddParams ==
  LET param == Seq_(<<ScanQname, ScanMultiplicity, TakeName>>)
  IN  When(In({"("}), If(In({")"}), Adv, Seq_(<<Listed(param), Take(In({")"}))>>)))
ScanDddGuard == When(In({"when"}), ScanRawParens)

ScanDddServiceItem ==
  Cases(<<
    <<In({"inject"}), Seq_(<<Adv, If(In({"decision"}), Seq_(<<Adv, ScanQname>>), TakeName), Semicolon>>)>>,
    <<Ident,
      Seq_(<<Take(In({"protected"})), ScanQname,
             If(In({"=>"}), Seq_(<<Adv, ScanQname>>), Seq_(<<ScanMultiplicity, TakeName, ScanDddParams>>)),
             ScanDddCapabilities, ScanDddInvokes, ScanDddEmits, ScanDddGuard, Semicolon>>)>> >>,
    JunkToName)

DddBuiltins == {"findById", "findAll", "findByExample", "findByKeys", "save", "delete"}
ScanDddRepositoryItem ==
  Cases(<<
    <<Apart(In({"protected"}), In(DddBuiltins)), Seq_(<<Adv, Adv, Semicolon>>)>>,
    <<In(DddBuiltins), Seq_(<<Adv, Semicolon>>)>>,
    <<Ident, Seq_(<<Take(In({"protected"})), ScanQname, ScanMultiplicity, TakeName, ScanDddParams, ScanDddGuard, Semicolon>>)>> >>,
    JunkToName)

\* `initial` and `terminal` before an arrow are names of states.
ScanDddMachineItem ==
  LET transition ==
        Seq_(<<TakeName,
               When(In({"->"}), Seq_(<<TakeName, When(In({"via"}), TakeName), ScanDddGuard>>)), Semicolon>>)
  IN  Cases(<<
        <<Apart(In({"initial", "terminal"}), In({"->"})), transition>>,
        <<In({"initial", "terminal"}), Seq_(<<Adv, TakeName, Semicolon>>)>>,
        <<Ident, transition>> >>,
        JunkToName)

ScanDddDesign ==
  Seq_(<<Take(In({"abstract"})), Adv, TakeName,
         Flags(<<"scaffold", "auditable", "optimisticLocking", "nonPersistent", "cache">>),
         When(In({"repository"}), Seq_(<<TakeName, Body(ScanDddRepositoryItem)>>)),
         If(In({"machine"}), Seq_(<<Flush, Adv, TakeName, Canon(":"), ScanQname, Body(ScanDddMachineItem)>>), Empty)>>)

-----------------------------------------------------------------------------
(* Searches.                                                               *)

ScanDddSearchFieldItem ==
  If(Ident, Seq_(<<ScanQname, When(In({"boost"}), Take(In({"INT"}))), When(In({"analyzer"}), TakeStr)>>), JunkToName)
ScanDddSearchNameItem == If(Ident, ScanQname, JunkToName)
ScanDddSearchDocumentItem == If(Ident, Seq_(<<TakeName, Take(In({"="})), Expression>>), JunkToName)
ScanDddSearchPaginationItem ==
  Cases(<<
    <<In({"limit", "max"}), Seq_(<<Adv, Take(In({"INT"}))>>)>>,
    <<In({"cursor"}), Adv>> >>,
    JunkToName)

SearchMembers ==
  <<{"entity"}, {"text"}, {"filters"}, {"sort"}, {"document"}, {"ranking"}, {"analyzer"}, {"pagination"}, {"capability"}>>
ReorderDddSearchMembers == SortHere(In(UNION Range(SearchMembers)), SearchMembers)
ScanDddSearchItem ==
  Cases(<<
    <<In({"entity"}), Seq_(<<Adv, ScanQname>>)>>,
    <<In({"text"}), Seq_(<<Adv, Body(ScanDddSearchFieldItem)>>)>>,
    <<In({"filters", "sort"}), Seq_(<<Adv, Body(ScanDddSearchNameItem)>>)>>,
    <<In({"document"}), Seq_(<<Adv, Body(ScanDddSearchDocumentItem)>>)>>,
    <<In({"ranking"}), Seq_(<<Adv, Take(IdentOr({"STR"}))>>)>>,
    <<In({"analyzer"}), Seq_(<<Adv, TakeStr>>)>>,
    <<In({"pagination"}), Seq_(<<Adv, Body(ScanDddSearchPaginationItem)>>)>>,
    <<In({"capability"}), ScanDddCapabilities>> >>,
    JunkToName)
ScanDddSearch == Seq_(<<Adv, TakeName, ReorderDddSearchMembers, Body(ScanDddSearchItem)>>)

-----------------------------------------------------------------------------
(* Modules and the file.                                                   *)

ScanDddModuleItem ==
  Cases(<<
    <<In({"service"}), Seq_(<<Adv, TakeName, Body(ScanDddServiceItem)>>)>>,
    <<In({"search"}), ScanDddSearch>>,
    <<In({"abstract", "entity", "value", "dto"}), ScanDddDesign>> >>,
    JunkToName)
ScanDddApplicationItem ==
  Cases(<<
    <<In({"base"}), Seq_(<<Adv, ScanQname>>)>>,
    <<In({"module"}), Seq_(<<Adv, TakeName, Body(ScanDddModuleItem)>>)>> >>,
    JunkToName)
ScanDddImport == Seq_(<<TakeStr, Here(In({";"}), Bump, Empty), Put(";")>>)
DddTop == <<
  <<{"import"}, ScanDddImport>>,
  <<{"application"}, Seq_(<<TakeName, Body(ScanDddApplicationItem)>>)>> >>

\* Imports first, but for what a file begins with if that is a comment; later
\* comments stay with the declaration before them.
HoistDddImports(n) ==
  LET items == ItemsOf(n, 1, Len(n), FALSE, "none", In({"import", "application"}), <<>>)
  IN  InOrder([i \in DOMAIN items |->
                [items[i] EXCEPT !.rank = IF i = 1 /\ n[1].t \in Comments THEN 0
                                          ELSE IF items[i].nodes[1].t = "import" THEN 1 ELSE 2]])

-----------------------------------------------------------------------------
(* Events.                                                                 *)

PushEvtSemicolon == Canon(";")
ScanEvtNameList == Seq_(<<Canon("["), While(Ident, Adv), Canon("]")>>)

\* A block of entries, sorted.  What follows the open brace is not looked at
\* when the token behind it closes.
ScanEvtBlock(words, item) ==
  LET ranks == [i \in DOMAIN words |-> {words[i]}]
  IN  Seq_(<<Adv, Sort(FALSE, In(Range(words)), ranks),
             If(In({"{"}),
                Seq_(<<Adv, Here(Second({"}"}), Seq_(<<Skip, Put("}"), Flush>>), Seq_(<<Flush, Lines(item)>>))>>),
                Flush)>>)
ScanEvtCloudEvents ==
  ScanEvtBlock(<<"type", "source", "subject">>,
    If(In({"type", "source", "subject"}), Seq_(<<Adv, TakeStr, Flush>>), JunkLine))
ScanEvtDelivery ==
  ScanEvtBlock(<<"mode", "maxAttempts", "backoffSeconds", "timeoutSeconds", "deadLetter">>,
    Cases(<<
      <<In({"mode", "deadLetter"}), Seq_(<<Adv, TakeName, PushEvtSemicolon, Flush>>)>>,
      <<In({"maxAttempts", "backoffSeconds", "timeoutSeconds"}), Seq_(<<Adv, Take(In({"INT"})), PushEvtSemicolon, Flush>>)>> >>,
      JunkLine))

ScanEvtEventItem ==
  Cases(<<
    <<In({"owner", "classification"}), Seq_(<<Adv, TakeName, PushEvtSemicolon>>)>>,
    <<In({"retention"}), Seq_(<<Adv, TakeStr, PushEvtSemicolon>>)>>,
    <<In({"pii"}), Seq_(<<Adv, ScanEvtNameList, PushEvtSemicolon>>)>>,
    <<In({"cloudEvents"}), ScanEvtCloudEvents>>,
    <<IdentOr({"type"}), Seq_(<<Adv, Canon(":"), ScanQname, PushEvtSemicolon>>)>> >>,
    JunkToName)
\* Fields first, then the other members.
HoistEvtEventMembers ==
  Sort(TRUE, IdentOr({"type"}), <<{"owner"}, {"classification"}, {"retention"}, {"pii"}, {"cloudEvents"}>>)

ScanEvtChannelItem == If(In({"publishes"}), Seq_(<<Adv, TakeName, PushEvtSemicolon>>), JunkToName)

ScanEvtEventsClause ==
  Seq_(<<Adv, Canon("["), While(Free({"consumer"}), Adv), Canon("]")>>)
ScanEvtSubscriptionItem ==
  Cases(<<
    <<In({"events"}), ScanEvtEventsClause>>,
    <<In({"consumer"}), Seq_(<<Adv, TakeName, When(In({"scope"}), TakeName)>>)>>,
    <<In({"when"}), Seq_(<<Adv, ScanRawParens>>)>>,
    <<In({"delivery"}), ScanEvtDelivery>> >>,
    JunkToName)

EvtTop == <<
  <<{"import"}, ScanImport>>,
  <<{"event"}, Seq_(<<TakeName, When(In({"version"}), TakeStr), HoistEvtEventMembers, Body(ScanEvtEventItem)>>)>>,
  <<{"channel"}, Seq_(<<TakeName, When(In({"of"}), TakeName), Body(ScanEvtChannelItem)>>)>>,
  <<{"subscription"}, Seq_(<<TakeName, Body(ScanEvtSubscriptionItem)>>)>> >>

-----------------------------------------------------------------------------
(* Deployments.                                                            *)

ScanDeploySettingItem ==
  If(Ident, Seq_(<<ScanQname, Canon(":"), If(In({"STR", "INT"}), Adv, Take(RefName))>>), JunkToName)
ScanDeployEnvItem == If(RefName, Seq_(<<Adv, Canon("="), TakeStr>>), JunkToName)
ScanDeployComponentItem ==
  Cases(<<
    <<In({"requires"}), Seq_(<<Adv, TakeName, While(In({","}), Seq_(<<Adv, TakeName>>))>>)>>,
    <<In({"design", "flow"}), Seq_(<<Adv, TakeStr>>)>>,
    <<In({"env"}), Seq_(<<Adv, Body(ScanDeployEnvItem)>>)>> >>,
    ScanDeploySettingItem)
ScanDeployConnects == Seq_(<<Adv, TakeName, Canon("->"), TakeName>>)
ScanDeployApplicationItem ==
  Cases(<<
    <<In({"component"}), Seq_(<<Adv, TakeName, Canon(":"), TakeName, Body(ScanDeployComponentItem)>>)>>,
    <<In({"connects"}), ScanDeployConnects>> >>,
    JunkToName)

ScanDeployPolicy == Seq_(<<Adv, ScanTrimmedParens>>)
ScanDeployMappingItem == If(Ident, Seq_(<<TakeName, Canon("->"), ScanQname>>), JunkToName)
ScanDeployProfileItem ==
  Cases(<<
    <<In({"target"}), Seq_(<<Adv, Canon(":"), TakeName>>)>>,
    <<In({"defaults", "configure"}), Seq_(<<Adv, Body(ScanDeploySettingItem)>>)>>,
    <<In({"mappings"}), Seq_(<<Adv, Body(ScanDeployMappingItem)>>)>>,
    <<In({"require", "prohibit"}), ScanDeployPolicy>> >>,
    JunkToName)
ScanDeployDeploymentItem ==
  Cases(<<
    <<In({"use"}), Seq_(<<Adv, TakeName>>)>>,
    <<In({"configure"}), Seq_(<<Adv, Body(ScanDeploySettingItem)>>)>> >>,
    JunkToName)

DeployTop == <<
  <<{"import"}, ScanImport>>,
  <<{"application"}, Seq_(<<TakeName, Body(ScanDeployApplicationItem)>>)>>,
  <<{"profile"}, Seq_(<<TakeName, Body(ScanDeployProfileItem)>>)>>,
  <<{"deployment"}, Seq_(<<TakeName, When(In({"for"}), TakeName), Body(ScanDeployDeploymentItem)>>)>> >>

-----------------------------------------------------------------------------
(* Use cases, cases and decision models.                                  *)

ScanSemicolon == Canon(";")
ScanUcImport == Seq_(<<TakeStr, When(In({"as"}), TakeName)>>)
\* `: name`, the colon close to what is before it.
Typed(g) == If(In({":"}), Seq_(<<Bump, Put(":"), g>>), Empty)
ScanUcEndpoint == Seq_(<<TakeName, When(In({"."}), TakeName)>>)

ScanUcRequiresList == Seq_(<<Canon("["), While(Free({"occurrence", "perform"}), Adv), Canon("]")>>)
ScanUcParticipantItem ==
  Cases(<<
    <<In({"occurrence"}), Seq_(<<Adv, ScanUcEndpoint, ScanSemicolon>>)>>,
    <<In({"perform"}),
      Seq_(<<Adv, TakeName, Typed(TakeName), When(In({"requires"}), ScanUcRequiresList),
             When(In({"when"}), ScanTrimmedParens), ScanSemicolon>>)>> >>,
    JunkToName)
ScanUcParticipant == Seq_(<<Adv, TakeName, Typed(ScanQname), Body(ScanUcParticipantItem)>>)

ScanUcMessage ==
  LET Clause(word) == If(In({word}), Seq_(<<Wrap, Adv, ScanUcEndpoint>>), Empty)
  IN  Seq_(<<Adv, TakeName, When(In({"of"}), ScanQname), Clause("from"), Clause("to"), ScanSemicolon>>)
ScanUcNodeRef == Cases(<< <<In({"start", "done"}), Adv>>, <<Ident, ScanUcEndpoint>> >>, Empty)
ScanUcSuccession == Seq_(<<Adv, ScanUcNodeRef, When(In({"then"}), ScanUcNodeRef), ScanSemicolon>>)
ScanUcRealizes == Seq_(<<Adv, ScanQname, ScanSemicolon>>)
ScanUcItem ==
  Cases(<<
    <<In({"subject", "actor"}), ScanUcParticipant>>,
    <<In({"message"}), ScanUcMessage>>,
    <<In({"first"}), ScanUcSuccession>>,
    <<In({"realizes"}), ScanUcRealizes>> >>,
    JunkItem(IdentOr({"}", "actor"})))

\* The subject, the actors, the rest.
UcMemberExtents ==
  [w \in {"subject", "actor", "message", "first", "realizes"} |->
    IF w \in {"subject", "actor"} THEN "participant" ELSE "to semicolon"]
ReorderUcMembers == SortSegments(UcMemberExtents, <<{"subject"}, {"actor"}, {"message", "first", "realizes"}>>, FALSE)
UcTop == <<
  <<{"import"}, ScanUcImport>>,
  <<{"usecase"}, Seq_(<<TakeName, ReorderUcMembers, Body(ScanUcItem)>>)>> >>

-----------------------------------------------------------------------------
(* Cases.                                                                  *)

ScanCmmnRolesItem == Seq_(<<Adv, TakeName, When(In({"as"}), TakeName), ScanSemicolon>>)
ScanCmmnCaseFileItem == Seq_(<<ScanQname, ScanMultiplicity, TakeName, ScanSemicolon>>)

ScanCmmnOnParts == Seq_(<<ScanUcEndpoint, While(In({","}), Seq_(<<Adv, ScanUcEndpoint>>))>>)
ScanCmmnNested(body) ==
  <<
    <<In({"task", "service", "milestone", "stage"}), Seq_(<<Adv, TakeName, body>>)>>,
    <<In({"discretionary"}),
      Seq_(<<Adv, If(In({"task", "service", "milestone"}), Seq_(<<Adv, TakeName, body>>), JunkToName)>>)>> >>
ScanCmmnPlanItem ==
  Cases(ScanCmmnNested(Body(SameItem)) \o <<
    <<In({"performer"}), Seq_(<<Adv, Typed(TakeName), ScanSemicolon>>)>>,
    <<In({"execute"}), Seq_(<<Adv, ScanQname, ScanSemicolon>>)>>,
    <<In({"entry", "exit"}),
      Seq_(<<Adv, When(In({"on"}), ScanCmmnOnParts), When(In({"when"}), ScanRawParens), ScanSemicolon>>)>>,
    <<In({"required", "repeats", "auto"}), Seq_(<<Adv, ScanSemicolon>>)>> >>,
    JunkToName)
ScanCmmnCaseItem ==
  Cases(<<
    <<In({"roles"}), Seq_(<<Adv, Body(ScanCmmnRolesItem)>>)>>,
    <<In({"case_file"}), Seq_(<<Adv, Body(ScanCmmnCaseFileItem)>>)>> >>
    \o ScanCmmnNested(Body(ScanCmmnPlanItem)),
    JunkToName)
CmmnTop == <<
  <<{"import"}, ScanUcImport>>,
  <<{"case"}, Seq_(<<TakeName, Body(ScanCmmnCaseItem)>>)>> >>

-----------------------------------------------------------------------------
(* Decisions.                                                              *)

ScanDmnSemicolon == Canon(";")
ScanDmnImport == Seq_(<<TakeStr, ScanDmnSemicolon>>)
Entry(g) == Seq_(<<Adv, g, ScanDmnSemicolon>>)
Named(body) == Seq_(<<Adv, TakeName, Body(body)>>)
Colon(g) == If(In({":"}), Seq_(<<Bump, Put(":"), g>>), Empty)

ScanDmnTypedEntry == If(Ident, Seq_(<<TakeName, Colon(ScanQname), ScanDmnSemicolon>>), JunkToName)
ScanDmnInvokeBinding == If(Ident, Seq_(<<TakeName, Colon(TakeStr), ScanDmnSemicolon>>), JunkToName)
ScanDmnLogic ==
  Seq_(<<Adv, Cases(<<
           <<In({"table", "expression"}), Seq_(<<Adv, TakeStr>>)>>,
           <<In({"invoke"}), Named(ScanDmnInvokeBinding)>> >>, Empty)>>)

ScanDmnSourceProp == If(In({"name", "reference"}), Entry(TakeStr), JunkToName)
ScanDmnBkmItem ==
  Cases(<<
    <<In({"parameters"}), Seq_(<<Adv, Body(ScanDmnTypedEntry)>>)>>,
    <<In({"output"}), Entry(ScanQname)>>,
    <<In({"logic"}), ScanDmnLogic>> >>,
    JunkToName)
ScanDmnKnowledgeItem ==
  Cases(<< <<In({"source"}), Named(ScanDmnSourceProp)>>, <<In({"model"}), Named(ScanDmnBkmItem)>> >>, JunkToName)

ScanDmnDecisionItem ==
  Cases(<<
    <<In({"output"}), Entry(ScanQname)>>,
    <<In({"outputs"}), Seq_(<<Adv, Body(ScanDmnTypedEntry)>>)>>,
    <<In({"logic"}), ScanDmnLogic>> >>,
    JunkToName)
ScanDmnDecisionsItem == If(In({"decision"}), Named(ScanDmnDecisionItem), JunkToName)

ScanDmnRequirementLine ==
  If(Ident, Seq_(<<TakeName, When(In({"requires", "invokes", "governed_by"}), TakeName), ScanDmnSemicolon>>), JunkToName)
ScanDmnRequirementsItem ==
  If(In({"information", "knowledge", "authority"}), Seq_(<<Adv, Body(ScanDmnRequirementLine)>>), JunkToName)

ServiceStops == {"description", "inputs", "outputs", "encapsulates"}
ScanDmnServiceItem ==
  Cases(<<
    <<In({"description"}), Entry(TakeStr)>>,
    <<In({"inputs", "outputs", "encapsulates"}), Seq_(<<Adv, NameList(ServiceStops)>>)>> >>,
    JunkToName)
ScanDmnServicesItem == If(In({"service"}), Named(ScanDmnServiceItem), JunkToName)

ViewStops == {"description", "show", "direction"}
ScanDmnViewItem ==
  Cases(<<
    <<In({"description"}), Entry(TakeStr)>>,
    <<In({"show"}), Seq_(<<Adv, NameList(ViewStops)>>)>>,
    <<In({"direction"}), Entry(TakeName)>> >>,
    JunkToName)
ScanDmnViewsItem == If(In({"view"}), Named(ScanDmnViewItem), JunkToName)

-----------------------------------------------------------------------------
(* The model.                                                              *)

MetadataWords == <<"namespace", "id", "version", "effective", "jurisdiction">>
BlockWords == <<"inputs", "knowledge", "decisions", "requirements", "services", "views">>
Words(words, extent) == [w \in Range(words) |-> extent]
Ranks(words) == [i \in DOMAIN words |-> {words[i]}]
ReorderDmnModel ==
  LET words == MetadataWords \o BlockWords
  IN  SortSegments([w \in Range(words) |-> IF w \in Range(MetadataWords) THEN "statement" ELSE "block"], Ranks(words), TRUE)
ReorderDmnKnowledge == SortSegments(Words(<<"source", "model">>, "named"), Ranks(<<"source", "model">>), TRUE)
ReorderDmnRequirements ==
  LET words == <<"information", "knowledge", "authority">> IN SortSegments(Words(words, "block"), Ranks(words), TRUE)

ScanDmnModelItem ==
  Cases(<<
    <<In({"namespace"}), Entry(ScanQname)>>,
    <<In({"version", "id", "effective", "jurisdiction"}), Entry(TakeStr)>>,
    <<In({"inputs"}), Seq_(<<Adv, Body(ScanDmnTypedEntry)>>)>>,
    <<In({"knowledge"}), Seq_(<<Adv, ReorderDmnKnowledge, Body(ScanDmnKnowledgeItem)>>)>>,
    <<In({"decisions"}), Seq_(<<Adv, Body(ScanDmnDecisionsItem)>>)>>,
    <<In({"requirements"}), Seq_(<<Adv, ReorderDmnRequirements, Body(ScanDmnRequirementsItem)>>)>>,
    <<In({"services"}), Seq_(<<Adv, Body(ScanDmnServicesItem)>>)>>,
    <<In({"views"}), Seq_(<<Adv, Body(ScanDmnViewsItem)>>)>> >>,
    JunkToName)
DmnTop == <<
  <<{"import"}, ScanDmnImport>>,
  <<{"decision_model"}, Seq_(<<TakeName, ReorderDmnModel, Body(ScanDmnModelItem)>>)>> >>

-----------------------------------------------------------------------------
(* The formatter of .ifml files (rex-ifml/src/fmt.rs): statement by          *)
(* statement, braces on a line if they fit there.  Spaces are left out, the *)
(* padding of columns with them.                                           *)

Starters ==
  {"view", "domain", "actor", "action", "module", "container", "component", "field", "use", "on", "column", "import",
   "params", "input", "output", "chart", "command", "argument", "option", "prompt"}
Headers == {"view", "domain", "actor", "action", "module", "container", "component", "command"}
Structural == {"component", "container", "use", "field", "column", "command"}

Tokenize(source) == Lex(source)
Printer(nodes, broad) ==
  [n |-> nodes, p |-> 1, out |-> <<>>, start |-> TRUE, comma |-> FALSE, indent |-> 0, wide |-> broad, stuck |-> FALSE]
Peek(s) == IF s.p > Len(s.n) THEN [t |-> "end", nl |-> FALSE, blank |-> FALSE] ELSE s.n[s.p]
EmitToken(s) == [s EXCEPT !.out = Append(@, Peek(s).t), !.p = @ + 1, !.start = FALSE, !.comma = (Peek(s).t = ",")]
EmitNewline(s) == [s EXCEPT !.out = Append(@, "NL"), !.start = TRUE, !.comma = FALSE]
EmitIndent(s) == [s EXCEPT !.start = @ /\ s.indent = 0]
EmptyLine(c, s) == IF c THEN [s EXCEPT !.out = Append(@, "NL")] ELSE s
\* An own-line comment begins a line, the one that is only indented or a new one.
OwnLine(s) ==
  IF s.start \/ ~Peek(s).nl THEN s
  ELSE IF s.out = <<>> \/ Last(s.out) = "NL" THEN [s EXCEPT !.start = TRUE, !.comma = FALSE] ELSE EmitNewline(s)

\* Braces stay on the line without braces, comments and handlers in them.
ClosingBrace(s) == ListClose(s.n, s.p)
InlineBlock(s) ==
  LET c == ClosingBrace(s)
  IN  /\ ~s.comma /\ ~s.wide /\ c <= Len(s.n)
      /\ \A i \in (s.p + 1)..(c - 1) :
           /\ s.n[i].t \notin Comments \cup {"{"}
           /\ s.n[i].t = "on" => i > s.p + 1 /\ s.n[i - 1].t \notin {";", ","}
PushInline(s) ==
  LET c == ClosingBrace(s)
  IN  [s EXCEPT !.out = @ \o [i \in 1..(c + 1 - s.p) |-> s.n[s.p + i - 1].t], !.p = c + 1, !.start = FALSE, !.comma = FALSE]

\* Consecutive columns, each to its semicolon, whatever is before that; to look
\* for one that is not there is the end of the program.
SemicolonFrom(n, i) ==
  LET semis == {j \in i..Len(n) : n[j].t = ";"} IN IF semis = {} THEN Len(n) + 1 ELSE CHOOSE j \in semis : \A k \in semis : j <= k
RECURSIVE RunEnd(_, _)
RunEnd(n, i) ==
  LET next == SemicolonFrom(n, i) + 1
  IN  IF i > Len(n) \/ n[i].t # "column" THEN i
      ELSE IF next > Len(n) \/ n[next].blank THEN next ELSE RunEnd(n, next)
PrintColumnRun(s) ==
  LET end == RunEnd(s.n, s.p)
      line(i) == IF s.n[i].t = ";" THEN <<";", "NL">> ELSE <<s.n[i].t>>
  IN  IF end > Len(s.n) + 1 THEN [s EXCEPT !.stuck = TRUE, !.p = end]
      ELSE [s EXCEPT !.out = @ \o FlattenSeq([i \in 1..(end - s.p) |-> line(s.p + i - 1)]),
                     !.p = end, !.start = TRUE, !.comma = FALSE]

\* `);` behind a closing brace stays on its line.
RECURSIVE ClosingLine(_)
ClosingLine(s) ==
  CASE Peek(s).t = ")" -> ClosingLine(EmitToken(s))
    [] Peek(s).t = ";" -> EmitNewline(EmitToken(s))
    [] OTHER -> EmitNewline(s)

Fresh == [first |-> TRUE, emitted |-> FALSE, declaration |-> FALSE, depth |-> 0]
\* What a bracket does to the depth of brackets.
Deeper(depth, t) ==
  CASE t \in {"(", "["} -> depth + 1 [] t \in {")", "]"} /\ depth > 0 -> depth - 1 [] OTHER -> depth

RECURSIVE PrintStatement(_, _), PrintBlock(_, _), PrintDocument(_, _, _)
\* A statement up to its end, or to what closes the braces around it.
PrintStatement(before, l) ==
  LET m == Peek(before)
      t == m.t
      s == EmptyLine(l.emitted /\ before.start /\ (t \in Structural \/ m.blank), before)
      Go(next, how) == PrintStatement(next, [how EXCEPT !.first = FALSE, !.emitted = TRUE])
  IN  CASE t = "end" -> before
        [] l.emitted /\ ~before.start /\ m.nl /\ l.depth = 0 /\ t \in Starters -> EmitNewline(before)
        [] t \in Comments -> PrintStatement(EmitNewline(EmitToken(OwnLine(s))), [l EXCEPT !.emitted = TRUE])
        [] t = ";" ->
             LET e == EmitToken(s)
             IN  EmitNewline(IF Peek(e).t \in Comments /\ ~Peek(e).nl THEN EmitToken(e) ELSE e)
        [] t = "," /\ l.depth = 0 -> EmitNewline(EmitToken(s))
        [] t \in {"}", ")"} /\ l.depth = 0 -> s
        [] t = "{" /\ ~l.declaration /\ InlineBlock(s) -> Go(PushInline(s), l)
        [] t = "{" /\ (l.declaration \/ ~InlineBlock(s)) ->
             LET body == PrintBlock([EmitNewline(EmitToken(s)) EXCEPT !.indent = @ + 1], TRUE)
                 close == EmitIndent([body EXCEPT !.indent = @ - 1])
             IN  ClosingLine(IF Peek(close).t = "}" THEN EmitToken(close) ELSE close)
        [] l.first /\ t \in Headers -> Go(EmitToken(s), [l EXCEPT !.declaration = TRUE])
        [] l.first /\ t = "column" -> PrintColumnRun(s)
        [] OTHER -> Go(EmitToken(s), [l EXCEPT !.depth = Deeper(@, t)])

\* A statement that gets nowhere is printed for ever.
Printed(s) ==
  LET r == PrintStatement(EmitIndent(s), Fresh) IN IF r.p = s.p THEN [r EXCEPT !.stuck = TRUE, !.p = Len(r.n) + 1] ELSE r
PrintBlock(s, first) ==
  CASE Peek(s).t = "end" -> s
    [] Peek(s).t = "}" -> IF s.start THEN s ELSE EmitNewline(s)
    [] OTHER -> PrintBlock(Printed(EmptyLine(~first /\ (Peek(s).blank \/ Peek(s).t \in Structural), s)), FALSE)
\* Declarations with an empty line between them, imports without.
PrintDocument(s, first, imported) ==
  LET lead == TokenFrom(s.n, s.p)
      import == lead <= Len(s.n) /\ s.n[lead].t = "import"
  IN  IF s.p > Len(s.n) THEN s
      ELSE PrintDocument(Printed(EmptyLine(~(first \/ (import /\ imported)), s)), FALSE, import)

RECURSIVE Stripped(_)
Stripped(text) == IF text # <<>> /\ Last(text) = "NL" THEN Stripped(Front(text)) ELSE text
FormatIfml(source, broad) ==
  LET s == PrintDocument(Printer(Tokenize(source), broad), TRUE, FALSE)
  IN  [text |-> Append(Stripped(s.out), "NL"), stuck |-> s.stuck]
=============================================================================
