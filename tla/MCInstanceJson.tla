---------------------------- MODULE MCInstanceJson ----------------------------
(* Small models: each pairs two classes, or a class with itself, in one or    *)
(* two of the shapes that the generator tells apart.                          *)
EXTENDS InstanceJson, Expression

Feature(class, kind, target, many, opposite) ==
    [class |-> class, kind |-> kind, target |-> target, many |-> many,
     opposite |-> opposite]

Model(classes, most, order, feature, attribute) ==
    [classes |-> classes, most |-> most, order |-> order, feature |-> feature,
     attribute |-> attribute, universe |-> NoUniverse]

OneWay == NoOpposite

\* A shelf owns books, which are declared first; a book follows another one.
Shelves ==
    Model(<<"Book", "Shelf">>, "Book" :> 3 @@ "Shelf" :> 2,
          "Shelf" :> <<"books">> @@ "Book" :> <<"shelf", "next", "prev">>,
          "books" :> Feature("Shelf", "contains", "Book", TRUE, "shelf")
          @@ "shelf" :> Feature("Book", "container", "Shelf", FALSE, "books")
          @@ "next" :> Feature("Book", "refers", "Book", FALSE, "prev")
          @@ "prev" :> Feature("Book", "refers", "Book", FALSE, "next"),
          "Book" :> "none" @@ "Shelf" :> "none")

\* Writers and their books, many on both ends; a book has one best writer.
Writers ==
    Model(<<"Book", "Writer">>, "Book" :> 2 @@ "Writer" :> 2,
          "Book" :> <<"authors", "best">> @@ "Writer" :> <<"books", "bestOf">>,
          "authors" :> Feature("Book", "refers", "Writer", TRUE, "books")
          @@ "books" :> Feature("Writer", "refers", "Book", TRUE, "authors")
          @@ "best" :> Feature("Book", "refers", "Writer", FALSE, "bestOf")
          @@ "bestOf" :> Feature("Writer", "refers", "Book", TRUE, "best"),
          "Book" :> "none" @@ "Writer" :> "none")

\* A tree of nodes with one child list, and a main child.
Trees ==
    Model(<<"Node">>, "Node" :> 3,
          "Node" :> <<"children", "parent", "main", "mainOf">>,
          "children" :> Feature("Node", "contains", "Node", TRUE, "parent")
          @@ "parent" :> Feature("Node", "container", "Node", FALSE, "children")
          @@ "main" :> Feature("Node", "contains", "Node", FALSE, "mainOf")
          @@ "mainOf" :> Feature("Node", "container", "Node", FALSE, "main"),
          "Node" :> "none")

\* One-sided containment beside a pair of other classes, and attributes.
Notes ==
    Model(<<"Page", "Note">>, "Page" :> 2 @@ "Note" :> 2,
          "Page" :> <<"notes">> @@ "Note" :> <<>>,
          "notes" :> Feature("Page", "contains", "Note", TRUE, OneWay),
          "Page" :> "required" @@ "Note" :> "optional")

\* Pages that contain each other and refer to one another, with a list.
Lists ==
    Model(<<"Page">>, "Page" :> 2, "Page" :> <<"links", "see">>,
          "links" :> Feature("Page", "contains", "Page", TRUE, OneWay)
          @@ "see" :> Feature("Page", "refers", "Page", FALSE, OneWay),
          "Page" :> "many")

\* People and their desks, each with a value, and what bodies say of them.
Desks ==
    [Model(<<"Person", "Desk">>, "Person" :> 2 @@ "Desk" :> 2,
           "Person" :> <<"desks", "next">> @@ "Desk" :> <<"owner">>,
           "desks" :> Feature("Person", "contains", "Desk", TRUE, "owner")
           @@ "owner" :> Feature("Desk", "container", "Person", FALSE, "desks")
           @@ "next" :> Feature("Person", "refers", "Person", FALSE, OneWay),
           "Person" :> "required" @@ "Desk" :> "optional")
     EXCEPT !.universe = "office"]

SomeModels == {Shelves, Writers, Trees, Notes, Lists, Desks}

-----------------------------------------------------------------------------
(* Bodies. *)

Of(name, kind, type, many, optional) ==
    [name |-> name, kind |-> kind, type |-> type, many |-> many, optional |-> optional,
     derived |-> FALSE, body |-> NoBody]
Derived(name, type, optional, body) ==
    [Of(name, "attribute", type, FALSE, optional) EXCEPT !.derived = TRUE, !.body = body]
Param(name, type, inputs) ==
    [name |-> name, type |-> type, many |-> FALSE, optional |-> FALSE, inputs |-> inputs]

Lit(n) == Node("int", n, <<>>)
Str(s) == Node("string", s, <<>>)
N(name) == Node("name", name, <<>>)
Absent == Node("null", 0, <<>>)
Not(e) == Node("not", 0, <<e>>)
Minus(e) == Node("neg", 0, <<e>>)
Half == Node("float", 0, <<>>)
Op(l, op, r) == Node("bin", op, <<l, r>>)
Get(e, name) == Node("get", [name |-> name, safe |-> FALSE], <<e>>)
Try(e, name) == Node("get", [name |-> name, safe |-> TRUE], <<e>>)
Call(e, name, arg) == Node("call", [name |-> name, safe |-> FALSE], <<e, arg>>)
Fn(name, args) == Node("fn", name, args)
Alg(e, kind, param, body) == Node("alg", [kind |-> kind, param |-> param, safe |-> FALSE], <<e, body>>)
Plain(e, kind) == Node("alg", [kind |-> kind, param |-> NoParam, safe |-> FALSE], <<e>>)
Else(e, default) == Node("coalesce", 0, <<e, default>>)
Cond(c, a, b) == Node("if", 0, <<c, a, b>>)
Where(name, init, body) == Node("let", name, <<init, body>>)
Items(es) == Node("list", 0, es)
IsNull(e) == Op(e, "==", Absent)
D == N("d")

Body(class, params, declared, fate, body) ==
    [class |-> class, params |-> params, of |-> "operation", declared |-> declared,
     fate |-> fate, law |-> FALSE, body |-> body]
Law(class, params, body) == [Body(class, params, TBoolean, "runs", body) EXCEPT !.law = TRUE]
Refused(class, declared, body) == Body(class, <<>>, declared, "refused", body)
Gap(class, declared, body) == Body(class, <<>>, declared, "does not build", body)
Runs(class, declared, body) == Body(class, <<>>, declared, "runs", body)

AnInt == Param("n", TInt, {Value("i32", n) : n \in {-4, -1, 0, 3}})

\* R1-R4, R9 and A1-A6 as statements about any person or desk.
Laws ==
    <<Law("Person", <<>>, Not(Alg(N("desks"), "any", "d", IsNull(Get(D, "owner"))))),
      Law("Person", <<>>, Op(Plain(Alg(N("desks"), "filter", "d", IsNull(Try(Get(D, "owner"), "name"))), "size"),
                             "==", Lit(0))),
      Law("Person", <<>>, Op(IsNull(Alg(N("desks"), "first", "d", IsNull(Get(D, "level")))), "!=",
                             Alg(N("desks"), "any", "d", IsNull(Get(D, "level"))))),
      Law("Person", <<>>, Op(Else(Try(N("next"), "name"), N("name")), "==",
                             Cond(IsNull(N("next")), N("name"), Else(N("label"), N("name"))))),
      Law("Person", <<>>, Op(IsNull(Op(N("label"), "+", Str("!"))), "==", IsNull(N("next")))),
      Law("Person", <<>>, Op(N("busy"), "!=", IsNull(Plain(N("desks"), "first")))),
      Law("Person", <<>>, Op(Plain(Alg(N("desks"), "map", "d", Else(Try(Get(D, "owner"), "name"), Str("?"))), "size"),
                             "==", Plain(N("desks"), "size"))),
      Law("Person", <<>>, Not(Alg(Alg(N("desks"), "map", "d", Try(Get(D, "owner"), "name")), "any", "o",
                                  IsNull(N("o"))))),
      Law("Desk", <<>>, Op(IsNull(N("owner")), "||", Not(IsNull(Try(N("owner"), "name"))))),
      Law("Person", <<AnInt>>, Op(Op(N("n"), "==", Lit(0)), "||",
                                  Op(Op(Op(Lit(3), "/", N("n")), "*", N("n")), "<=", Lit(3))))>>

Others ==
    <<Runs("Person", TInt, Plain(Alg(N("desks"), "map", "d", Else(Get(D, "level"), Lit(0))), "sum")),
      Body("Person", <<AnInt>>, TInt, "runs", Op(Minus(N("n")), "/", Op(N("n"), "+", Lit(1)))),
      Runs("Person", TLong, Op(Fn("rate", <<Lit(1)>>), "+", Lit(5))),
      Runs("Person", TInt, Where("xs", Items(<<N("name"), Str("x")>>), Plain(N("xs"), "size"))),
      Runs("Person", TString, Op(N("label"), "+", N("name"))),
      Runs("Desk", TInt, N("level")),
      Runs("Desk", ClassTy("Person"), Try(N("owner"), "next")),
      Runs("Person", TDouble, Op(Fn("half", <<>>), "*", Half)),
      Gap("Person", TBoolean, Alg(Alg(N("desks"), "map", "d", Get(D, "owner")), "any", "o", IsNull(N("o")))),
      Gap("Person", TBoolean, Op(Plain(N("desks"), "size"), "<", Lit(2))),
      Gap("Desk", TInt, Else(N("level"), Str("none"))),
      Gap("Person", TLong, Op(Lit(3), "+", Fn("rate", <<Lit(1)>>))),
      Gap("Person", TLong, Op(Fn("rate", <<Lit(1)>>), "+", Minus(Lit(1)))),
      Gap("Person", TFloat, Op(Fn("ratio", <<>>), "*", Half)),
      Gap("Room", TString, Get(N("seat"), "name")),
      Gap("Desk", TString, Try(N("owner"), "label")),
      Gap("Room", TString, Call(N("seat"), "greet", Lit(1))),
      Gap("Desk", TInt, Fn("graded", <<N("level")>>)),
      Refused("Person", TString, Get(N("next"), "name")),
      Refused("Person", TInt, Op(Lit(1), "/", Op(Lit(1), "-", Lit(1)))),
      Refused("Person", TInt, Op(Lit(3), "+", Lit(1))),
      Refused("Person", TBoolean, Op(Fn("rate", <<Lit(1)>>), "==", Lit(3))),
      Refused("Person", TLong, Cond(N("busy"), Lit(1), Fn("rate", <<Lit(1)>>))),
      Refused("Person", TString, Op(N("name"), "+", Lit(1))),
      Refused("Person", TInt, Fn("twin", <<Lit(1)>>)),
      Refused("Person", TInt, Plain(N("desks"), "sum")),
      Refused("Person", ClassTy("Desk"), N("desks")),
      Refused("Person", TInt, N("name")),
      Refused("Person", TBoolean, Plain(Items(<<N("busy")>>), "any")),
      Refused("Person", TInt, Absent)>>

Function(name, params, returns, result) ==
    [name |-> name, params |-> params, returns |-> returns, result |-> result]
Level == Param("level", TInt, {})

Office ==
    [class |->
        "Person" :>
            [features |-> <<Of("name", "attribute", TString, FALSE, FALSE),
                            Of("desks", "contains", ClassTy("Desk"), TRUE, TRUE),
                            Of("next", "refers", ClassTy("Person"), FALSE, TRUE),
                            Derived("label", TString, TRUE, Try(N("next"), "name")),
                            Derived("busy", TBoolean, FALSE,
                                    Op(Plain(N("desks"), "size"), "!=", Lit(0)))>>,
             operations |-> <<[name |-> "greet", params |-> <<Level>>, returns |-> TString]>>]
        @@ "Desk" :>
            [features |-> <<Of("owner", "container", ClassTy("Person"), FALSE, TRUE),
                            Of("level", "attribute", TInt, FALSE, TRUE)>>,
             operations |-> <<>>]
        @@ "Room" :>   \* a required reference; no arena here holds a room
            [features |-> <<Of("seat", "refers", ClassTy("Person"), FALSE, FALSE)>>,
             operations |-> <<>>],
     functions |-> <<Function("rate", <<Level>>, TLong, Value("i64", 1)),
                     Function("half", <<>>, TDouble, Value("f64", 0)),
                     Function("ratio", <<>>, TFloat, Value("f32", 0)),
                     Function("graded", <<[Level EXCEPT !.optional = TRUE]>>, TInt, Value("i32", 0)),
                     Function("twin", <<Level>>, TInt, Value("i32", 0)),
                     Function("twin", <<Level>>, TInt, Value("i32", 0))>>,
     number |-> "zero" :> 0 @@ "one" :> 3,
     programs |-> Laws \o Others]

SomeUniverses == "office" :> Office
=============================================================================
