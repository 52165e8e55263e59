---------------------------- MODULE EventContract ----------------------------
(***************************************************************************)
(* The lowering of a .evt file (rex-driver events.rs): events, then         *)
(* channels that publish them, then subscriptions that filter them.  An     *)
(* operator is one turn of a loop; `st` is what the loops fill.             *)
(*                                                                         *)
(* A filter is whether it parses, whether it is boolean, and the fields     *)
(* with their types that it speaks of.  Governance labels ride through and  *)
(* are left out.                                                           *)
(***************************************************************************)
EXTENDS NameScope, Integers

CONSTANT
  DeliveryModes    \* the words of the `mode` entry

NamesOf(declared) == {d.name : d \in Range(declared)}

-----------------------------------------------------------------------------
(* The syntax tree.                                                        *)

EventDecl(event) ==
  /\ HasFields(event, {"name", "fields", "pii", "cloudEvents"})
  /\ IsList(event.fields)
  /\ \A f \in Range(event.fields) : HasFields(f, {"name", "type"}) /\ TypeReference(f.type)
  /\ event.cloudEvents \in {"absent", "full", "empty"}

ChannelDecl(channel) == HasFields(channel, {"name", "publishes"})

\* The numbers of a delivery block are 64 bits wide.
DeliveryDecl(delivery) ==
  delivery # NoName =>
    /\ HasFields(delivery, {"mode", "knobs", "deadLetter"})
    /\ \A k \in DOMAIN delivery.knobs : delivery.knobs[k] \in Int

SubscriptionDecl(subscription) ==
  LET filter == subscription.when
  IN  /\ HasFields(subscription, {"name", "events", "consumer", "when", "delivery"})
      /\ IsList(subscription.events)
      /\ filter # NoName => /\ HasFields(filter, {"parses", "boolean", "needs"})
                            /\ {filter.parses, filter.boolean} \subseteq BOOLEAN
      /\ DeliveryDecl(subscription.delivery)

EvtFile(file) ==
  LET declared == file.declared
  IN  /\ HasFields(declared, {"events", "channels", "subscriptions"})
      /\ IsList(declared.events) /\ IsList(declared.channels) /\ IsList(declared.subscriptions)
      /\ \A e \in Range(declared.events) : EventDecl(e)
      /\ \A c \in Range(declared.channels) : ChannelDecl(c)
      /\ \A s \in Range(declared.subscriptions) : SubscriptionDecl(s)

-----------------------------------------------------------------------------
\* Imports of contracts, use cases and cases match their paths as written.
OpenEvents(file) ==
  LET units == DomainUnits(file.imports, file.files)
      paths == {units[i].path : i \in DOMAIN units}
  IN  [packages |-> Lowered(units), events |-> <<>>, channels |-> <<>>, subscriptions |-> <<>>,
       errors |-> EngineErrors(file.parseErrors,
                               \E i \in DOMAIN file.imports : file.imports[i].path \notin paths,
                               units)]

-----------------------------------------------------------------------------
\* Each field with the type it resolves to.
FieldTypes(packages, event) ==
  {<<f.name, ResolveDomains(f.type, packages)>> : f \in Range(event.fields)}

LowerEvent(st, event) ==
  LET fields == FieldTypes(st.packages, event)
      names == {f[1] : f \in fields}
  IN  [st EXCEPT
         !.events = Append(@, [name |-> event.name, fields |-> fields,
                               pii |-> event.pii \cap names]),
         !.errors = @ \cup When(event.name \in NamesOf(st.events), "duplicate event")
                      \cup When(Repeated(NameList(event.fields)) # {}, "duplicate payload field")
                      \cup When(\E f \in fields : f[2] = Unresolved, "unknown type")
                      \cup When(~(event.pii \subseteq names), "unknown payload field")
                      \cup When(event.cloudEvents = "empty", "empty cloudEvents")]

LowerChannel(st, channel) ==
  LET published == channel.publishes \ {NoName}   \* a recovered entry is skipped
  IN  [st EXCEPT
         !.channels = Append(@, [channel EXCEPT !.publishes = published]),
         !.errors = @ \cup When(channel.name \in NamesOf(st.channels), "duplicate channel")
                      \cup When(~(published \subseteq NamesOf(st.events)), "unknown event")]

-----------------------------------------------------------------------------
\* A filter holds for an event when it is boolean over that event's fields.
Fits(filter, fields) == filter.boolean /\ filter.needs \subseteq fields

\* Mutant: the filter is typed against the first subscribed event only.
FilterErrorsFirst(st, subscription) ==
  LET filter == subscription.when
      first == SelectSeq(st.events, LAMBDA e : e.name = Head(subscription.events))
  IN  IF filter = NoName THEN {}
      ELSE When(\/ ~filter.parses
                \/ /\ subscription.events # <<>>
                   /\ first # <<>>
                   /\ ~Fits(filter, Head(first).fields), "invalid filter")

\* Against every subscribed event that is declared: the first of its name.
FilterErrors(st, subscription) ==
  LET filter == subscription.when
      Declared(name) == FirstOf(st.events, LAMBDA e : e.name = name, NoName)
  IN  IF filter = NoName THEN {}
      ELSE When(\/ ~filter.parses
                \/ \E n \in Range(subscription.events) \cap NamesOf(st.events) :
                     ~Fits(filter, Declared(n).fields), "invalid filter")

DeliveryErrors(st, delivery) ==
  IF delivery = NoName THEN {}
  ELSE When(delivery.mode # NoName /\ delivery.mode \notin DeliveryModes, "unknown delivery mode")
         \cup When(\E k \in DOMAIN delivery.knobs : delivery.knobs[k] <= 0, "knob not positive")
         \cup When(delivery.deadLetter # NoName /\ delivery.deadLetter \notin NamesOf(st.channels),
                   "unknown dead-letter channel")

\* The knobs are checked as 64-bit and kept as 32-bit numbers.
LowerDelivery(st, delivery) ==
  IF delivery = NoName THEN NoName
  ELSE [mode |-> IF delivery.mode \in DeliveryModes THEN delivery.mode ELSE "at_least_once",
        knobs |-> [k \in DOMAIN delivery.knobs |->
                     IF delivery.knobs[k] < 0 THEN 0 ELSE delivery.knobs[k] % U32],
        deadLetter |-> IF delivery.deadLetter \in NamesOf(st.channels) THEN delivery.deadLetter
                       ELSE NoName]

LowerSubscription(st, subscription) ==
  LET filter == subscription.when
  IN  [st EXCEPT
         !.subscriptions = Append(@,
            [name |-> subscription.name, events |-> subscription.events,
             when |-> IF filter = NoName \/ ~filter.parses THEN NoName ELSE filter,
             delivery |-> LowerDelivery(st, subscription.delivery)]),
         !.errors = @ \cup When(subscription.name \in NamesOf(st.subscriptions), "duplicate subscription")
                      \cup When(subscription.events = <<>>, "no events")
                      \cup When(subscription.consumer = NoName, "empty consumer")
                      \cup When(~(Range(subscription.events) \subseteq NamesOf(st.events)), "unknown event")
                      \cup FilterErrors(st, subscription)
                      \cup DeliveryErrors(st, subscription.delivery)]

EventArtifact(st) ==
  [events |-> st.events, channels |-> st.channels, subscriptions |-> st.subscriptions]
=============================================================================
