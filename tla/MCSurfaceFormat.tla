-------------------------- MODULE MCSurfaceFormat --------------------------
(***************************************************************************)
(* A file of every language: with each single wrong token; with a comment    *)
(* of each kind at each place; with its declarations and members in another *)
(* order.                                                                  *)
(***************************************************************************)
EXTENDS SurfaceFormat

ModelFiles ==
  [mox |-> <<
     <<"package", "p", ".", "class">>,
     <<"import", "schema", "STR", "as", "S">>,
     <<"class", "A", "extends", "B", ",", "p", ".", "C", "{", "id", "string", "name", "=", "STR", "{", "pattern", "STR",
       "unique", "}", "contains", "B", "[", "INT", ".", ".", "*", "]", "bs", "opposite", "a", "derived", "int", "n", "{", "rust", "{",
       "x", "}", "}", "}">>,
     <<"enum", "E", "{", "one", "as", "STR", "=", "INT", "two", "}">>,
     <<"type", "T", "wraps", "opaque", "{", "rust", "STR", "format", "STR", "create", "{", "rust", "{", "x", "}", "}", "}">>,
     <<"vocabulary", "V", "from", "STR", "{", "version", "STR", "key", "k", "facet", "string", "f", "}">>,
     <<"interface", "I", "{", "rust", "STR", "}">> >>,
   actor |-> <<
     <<"import", "STR">>,
     <<"actors", "A", "{", "actor", "Clerk", "extends", "Staff", "capability", "Pay", "on", "Order", "grant", "Clerk", "{",
       "permit", "Pay", "when", "(", "x", ")", "obligation", "audit", "cedar", "{", "x", "}", "}", "}">>,
     <<"actors", "B", "{", "agent", "Bot", "delegation", "d", "{", "from", "Clerk", "to", "Bot", "purpose", "p", "permit",
       "Pay", "}", "never_both", "{", "Pay", ",", "Post", "}", "}">>,
     <<"actors", "C", "{", "purpose", "p", "}">> >>,
   evt |-> <<
     <<"import", "STR">>,
     <<"event", "Placed", "version", "STR", "{", "order", ":", "p", ".", "Order", ";", "owner", "team", ";", "pii", "[", "a", "b", "]",
       ";", "cloudEvents", "{", "type", "STR", "source", "STR", "}", "}">>,
     <<"channel", "Orders", "of", "Order", "{", "publishes", "Placed", ";", "}">>,
     <<"subscription", "Bill", "{", "events", "[", "Placed", "]", "consumer", "c", "scope", "s", "when", "(", "x", ")", "delivery",
       "{", "mode", "m", ";", "maxAttempts", "INT", ";", "}", "}">>,
     <<"event", "Paid", "{", "}">> >>,
   ddd |-> <<
     <<"import", "STR", ";">>,
     <<"import", "STR">>,
     <<"application", "Shop", "{", "base", "a", ".", "b", "module", "M", "{", "service", "S", "{", "inject", "R", ";", "pay", "=>",
       "R", ".", "save", "capability", "Pay", "when", "(", "x", ")", ";", "}", "entity", "Order", "auditable", "!", "cache",
       "repository", "R", "{", "save", ";", "}", "machine", "L", ":", "Status", "{", "initial", "New", ";", "New", "->", "Done", "via", "pay", ";",
       "}", "search", "F", "{", "entity", "Order", "text", "{", "name", "boost", "INT", "}", "pagination", "{", "limit", "INT", "}", "}",
       "}", "}">> >>,
   deploy |-> <<
     <<"import", "STR">>,
     <<"application", "Shop", "{", "component", "Web", ":", "service", "{", "requires", "Db", "env", "{", "A", "=", "STR", "}", "scaling", ":",
       "INT", "}", "component", "Db", ":", "store", "connects", "Web", "->", "Db", "}">>,
     <<"profile", "Prod", "{", "target", ":", "kube", "defaults", "{", "a", ".", "b", ":", "INT", "}", "require", "(", "x", ")", "mappings", "{",
       "store", "->", "aws", ".", "rds", "}", "}">>,
     <<"deployment", "D", "for", "Shop", "{", "use", "Prod", "configure", "{", "a", ":", "INT", "}", "}">>,
     <<"profile", "Dev", "{", "target", ":", "docker", "}">> >>,
   uc |-> <<
     <<"import", "STR", "as", "o">>,
     <<"usecase", "Pay", "{", "subject", "shop", ":", "Shop", "{", "occurrence", "paid", ".", "target", ";", "perform", "check", ":", "verify",
       "requires", "[", "a", "]", "when", "(", "x", ")", ";", "}", "actor", "clerk", ":", "o", ".", "Clerk", "message", "m", "of", "Order", "from",
       "clerk", ".", "a", "to", "shop", ".", "paid", ";", "first", "start", "then", "paid", ";", "realizes", "M", ".", "S", ".", "op", ";", "}">>,
     <<"usecase", "Cancel", "{", "actor", "clerk", "}">>,
     <<"usecase", "Return", "{", "}">> >>,
   cmmn |-> <<
     <<"import", "STR", "as", "o">>,
     <<"case", "Claim", "{", "roles", "{", "role", "adjuster", "as", "Clerk", ";", "}", "case_file", "{", "Claim", "[", "]", "claim", ";", "}",
       "stage", "Review", "{", "discretionary", "task", "look", "{", "performer", ":", "adjuster", ";", "entry", "on", "claim", ".", "create", ",",
       "x", "when", "(", "x", ")", ";", "}", "}", "milestone", "done", "}">>,
     <<"case", "Appeal", "{", "service", "send", "{", "execute", "M", ".", "S", ".", "op", ";", "auto", ";", "}", "}">>,
     <<"case", "Empty", "{", "}">> >>,
   dmn |-> <<
     <<"import", "STR", ";">>,
     <<"import", "STR">>,
     <<"decision_model", "Credit", "{", "namespace", "a", ".", "b", ";", "version", "STR", "inputs", "{", "income", ":", "number", ";", "}",
       "knowledge", "{", "source", "law", "{", "name", "STR", ";", "}", "model", "rate", "{", "parameters", "{", "x", ":", "number", "}",
       "logic", "expression", "STR", "}", "}", "decisions", "{", "decision", "accept", "{", "output", "bool", ";", "logic", "table", "STR", "}", "}",
       "requirements", "{", "information", "{", "accept", "requires", "income", ";", "}", "}", "views", "{", "view", "v", "{", "show", "{", "accept", "}",
       "direction", "down", ";", "}", "}", "}">> >>]

Wrong(language) == {"{", "}", "(", ";", "x", "STR"} \cup Fences[language]

Indices(language) == DOMAIN ModelFiles[language]
File(language, at, decl) ==
  [language |-> language, at |-> at, tokens |-> FlattenSeq([ModelFiles[language] EXCEPT ![at] = decl]),
   intact |-> Indices(language) \ {at}, asked |-> language = "ddd" /\ Len(decl) < Len(ModelFiles[language][at])]
Spoilt(language, at) ==
  LET d == ModelFiles[language][at]
  IN  {File(language, at, RemoveAt(d, i)) : i \in DOMAIN d}
      \cup {File(language, at, ReplaceAt(d, i, t)) : i \in DOMAIN d, t \in Wrong(language)}
      \cup {File(language, at, InsertAt(d, i, t)) : i \in DOMAIN d, t \in {"{", "}", "(", ")"}}

-----------------------------------------------------------------------------
(* Texts to be formatted.                                                  *)

Asked(language, tokens) == [language |-> language, at |-> 0, tokens |-> tokens, intact |-> {}, asked |-> TRUE]
InLines(d) == FlattenSeq([i \in DOMAIN d |-> IF d[i] \in {"{", ";", "}"} THEN <<d[i], "NL">> ELSE <<d[i]>>])

\* A comment on a line of its own, behind what is on the line, between tokens.
Remarks == {<<"NL", "//", "NL">>, <<"//", "NL">>, <<"/*">>}

\* What a comment may not come between, or the formatter spoils the text.
Fragile ==
  [mox |-> {}, evt |-> {}, ddd |-> {}, actor |-> {<<"cedar", "{">>}, deploy |-> {<<"x", ")">>},
   uc |-> {<<"subject", "shop">>, <<"shop", ":">>, <<":", "Shop">>, <<"Shop", "{">>, <<"x", ")">>, <<"actor", "clerk">>,
           <<"clerk", ":">>, <<":", "o">>, <<"o", ".">>, <<".", "Clerk">>, <<";", "}">>, <<"clerk", "}">>, <<"{", "}">>},
   cmmn |-> {<<"{", "role">>, <<";", "}">>, <<"when", "(">>},
   dmn |-> {<<"namespace", "a">>, <<"a", ".">>, <<".", "b">>, <<"b", ";">>, <<"version", "STR">>, <<"STR", "inputs">>,
            <<"source", "law">>, <<"law", "{">>}
           \cup {<<w, "{">> : w \in {"inputs", "knowledge", "decisions", "requirements"}},
   ifml |-> {<<"column", "STR">>, <<"STR", "->">>, <<"->", "field">>, <<"field", "C">>, <<"C", ".">>, <<".", "n">>, <<"n", ";">>,
             <<"->", "expr">>, <<"expr", "a">>, <<"a", "*">>, <<"*", "b">>, <<"b", ";">>, <<"}", ")">>}]
Remarked(language, d) ==
  LET t == InLines(d)
      Before_(i) == {j \in 1..i : t[j] # "NL"}
      After_(i) == {j \in (i + 1)..Len(t) : t[j] # "NL"}
      Split(i) ==
        IF Before_(i) = {} \/ After_(i) = {} THEN <<>>
        ELSE <<t[CHOOSE j \in Before_(i) : \A k \in Before_(i) : k <= j],
               t[CHOOSE j \in After_(i) : \A k \in After_(i) : j <= k]>>
  IN  {Asked(language, (SubSeq(t, 1, i) \o c) \o SubSeq(t, i + 1, Len(t))) :
         i \in {i \in 0..Len(t) : Split(i) \notin Fragile[language]}, c \in Remarks}

\* Declarations, members and flags in an order that is not the formatter's.
Mixed ==
  [mox |-> <<"package", "p", "NL", "//", "NL", "class", "A", "{", "NL", "readonly", "id", "string", "name", "//", "NL", "}", "NL",
             "import", "schema", "STR", "as", "S", "//", "NL", "enum", "E", "{", "one", "}", "NL", "import", "sigil", "STR">>,
   evt |-> <<"import", "STR", "NL", "//", "NL", "subscription", "Bill", "{", "events", "[", "]", "consumer", "c", "}", "NL",
             "channel", "Orders", "of", "Order", "{", "}", "/*", "NL", "event", "Placed", "version", "STR", "{", "NL",
             "pii", "[", "a", "]", ";", "//", "NL", "retention", "STR", ";", "NL", "order", ":", "Order", ";", "owner", "t", ";",
             "cloudEvents", "{", "type", "STR", "NL", "//", "NL", "source", "STR", "}", "total", ":", "int", ";", "owner", "u", ";", "}">>,
   ddd |-> <<"import", "STR", ";", "//", "NL", "application", "Shop", "{", "module", "M", "{", "entity", "Order", "cache", "!",
             "scaffold", "auditable", "cache", "search", "F", "{", "NL", "pagination", "{", "max", "INT", "limit", "INT", "}", "//", "NL",
             "filters", "{", "a", "}", "NL", "text", "{", "name", "}", "NL", "//", "NL", "entity", "Order", "}", "}", "}">>,
   deploy |-> <<"import", "STR", "NL", "//", "NL", "deployment", "D", "for", "Shop", "{", "use", "P", "}", "NL", "profile", "P", "{", "target", ":",
                "kube", "}", "//", "NL", "application", "Shop", "{", "component", "W", ":", "service", "{", "}", "}">>,
   uc |-> <<"import", "STR", "as", "o", "NL", "usecase", "Pay", "{", "NL", "first", "start", "then", "b", ".", "o", ";", "//", "NL",
            "actor", "b", "{", "occurrence", "o", ";", "}", "NL", "/*", "NL", "message", "m", "from", "b", ".", "o", "to", "s", ".", "p", ";",
            "subject", "s", ":", "S", "{", "perform", "p", ";", "}", "}">>,
   cmmn |-> <<"case", "A", "{", "milestone", "m", "NL", "//", "NL", "roles", "{", "role", "r", ";", "}", "}", "NL", "//", "NL", "case", "B", "{", "}">>,
   dmn |-> <<"import", "STR", ";", "NL", "decision_model", "Credit", "{", "NL", "decisions", "{", "decision", "d", "{", "output", "b", ";",
             "logic", "table", "STR", "}", "}", "NL", "//", "NL", "inputs", "{", "i", ":", "n", ";", "}", "version", "STR", ";", "NL",
             "knowledge", "{", "model", "m", "{", "output", "b", ";", "logic", "expression", "STR", "}", "source", "s", "{", "name", "STR", ";", "}", "}",
             "namespace", "a", ";", "NL", "requirements", "{", "authority", "{", "d", "governed_by", "s", ";", "}",
             "information", "{", "d", "requires", "i", ";", "}", "}", "}">>]

\* An .ifml file's declarations, and texts that break them elsewhere: an empty
\* line at any place, one break at any place, comments.
IfmlFile == <<
  <<"import", "STR", ";">>,
  <<"import", "STR">>,
  <<"domain", "STR", "{", "schema", "STR", ";", "}">>,
  <<"view", "STR", "{", "params", "{", "x", ":", "Int", ",", "y", ":", "Int", "}", ";", "position", ":", "{", "x", ":", "INT", "}", ";",
    "container", "STR", "{", "component", "STR", "{", "type", ":", "table", ";", "column", "STR", "->", "field", "C", ".", "n", ";",
    "column", "STR", "->", "expr", "a", "*", "b", ";", "field", "t", "->", "input", "text", "{", "r", ":", "true", ";", "}",
    "on", "select", "(", "row", ")", "->", "navigate", "(", "STR", ",", "{", "id", ":", "x", ",", "s", ":", "STR", "}", ")", ";",
    "on", "save", "->", "action", "(", "STR", ",", "{", "body", ":", "v", ";", "on", "error", "->", "stay", ";", "}", ")", ";", "}", "}",
    "use", "STR", "as", "p", "{", "page", ":", "INT", ";", "}", ";", "if", "x", ";", "}">>,
  <<"module", "STR", "{", "input", "{", "p", ":", "Int", "}", "output", "{", "t", ":", "Int", "}", "}">>,
  <<"command", "STR", "{", "argument", "id", ":", "Uuid", ";", "command", "STR", "{", "}", "}">> >>
IfmlTexts ==
  LET t == FlattenSeq(IfmlFile)
      Broken(i, c) == Asked("ifml", (SubSeq(t, 1, i) \o c) \o SubSeq(t, i + 1, Len(t)))
  IN  {Broken(i, c) : i \in 0..Len(t), c \in {<<"NL">>, <<"NL", "NL">>}}
      \cup UNION {Remarked("ifml", IfmlFile[k]) : k \in DOMAIN IfmlFile}

ModelInputs ==
  (UNION {{Spoilt(l, at) : at \in Indices(l)} : l \in Languages})
  \cup (UNION {{Remarked(l, ModelFiles[l][k]) : k \in Indices(l)} : l \in Languages})
  \cup {{Asked(l, Mixed[l]) : l \in DOMAIN Mixed}}
  \cup {IfmlTexts}

\* A file of actors while it is being typed, and calls in .ifml with a comment
\* behind the braces of their arguments.
TypedInputs ==
  LET d == ModelFiles["actor"][2]
      call == <<"view", "STR", "{", "on", "save", "->", "navigate", "(", "STR", ",", "{", "id", ":", "x", "}">>
      Closed(remark) == Asked("ifml", (call \o remark) \o <<")", ";", "NL", "}">>)
  IN  {{Asked("actor", SubSeq(d, 1, i)) : i \in DOMAIN d}, {Closed(remark) : remark \in Remarks}}

\* The files are well-formed: every declaration is read whole, without complaint.
ASSUME
  \A l \in Languages : \A k \in DOMAIN ModelFiles[l] :
    LET r == RunAlt(Items[l], ModelFiles[l][k], 1) IN r.pos = Len(ModelFiles[l][k]) + 1 /\ ~r.bad
=============================================================================
