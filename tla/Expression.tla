------------------------------ MODULE Expression ------------------------------
(***************************************************************************)
(* The expression language of operation and derived-feature bodies: the    *)
(* type checker (rex-expr, checker.rs), the Rust that rex-backend-rust     *)
(* lowers a checked body to (expr_lower.rs, codegen/ops.rs), what the Rust *)
(* compiler makes of it, and what it computes over an arena.               *)
(*                                                                         *)
(* A source or code node is [k: its kind, x: its data, kids: its parts].   *)
(* Dates, enums, datatypes and the narrower numbers are left out: they are *)
(* scalars like the ones kept, and `>` and `>=` are `<` and `<=` with the  *)
(* sides exchanged.  Classes extend nothing: the generated structs hold    *)
(* their own features only.  A function has a body in Rust, given by the   *)
(* value it returns; a local name is one the emitted text does not use.    *)
(***************************************************************************)
EXTENDS InstanceArena, Integers

LOCAL INSTANCE SequencesExt

CONSTANTS
    Universes,   \* universe -> its classes, functions and bodies
    IntMax,      \* the greatest int
    LongMax      \* the greatest long

ASSUME WidthAssumption == IntMax \in Nat /\ LongMax \in Nat /\ IntMax <= LongMax

Node(k, x, kids) == [k |-> k, x |-> x, kids |-> kids]

NoUniverse == "none"   \* of a schema without bodies
NoParam == "_"   \* an algebra call without a lambda
NoBody == Node("hook", 0, <<>>)

\* The innermost binding of a name, as a sequence of at most one.
Bound(scope, n) == LET found == SelectSeq(scope, LAMBDA b : b.name = n)
                   IN  IF found = <<>> THEN <<>> ELSE <<found[Len(found)]>>
Named(members, n) == SelectSeq(members, LAMBDA m : m.name = n)

-----------------------------------------------------------------------------
(* Types. *)

TInt == <<"int">>
TLong == <<"long">>
TFloat == <<"float">>
TDouble == <<"double">>
TString == <<"string">>
TBoolean == <<"boolean">>
TNull == <<"null">>
ClassTy(c) == <<"class", c>>
ListTy(t) == <<"list", t>>
OptionTy(t) == <<"option", t>>
Bad == <<"bad">>        \* an error was reported
NoExpect == <<"any">>

Numeric == {TInt, TLong, TFloat, TDouble}
IsOption(t) == t[1] = "option"
StringOperand(t) == t \in {TString, OptionTy(TString)}

\* Mutant: a container is typed as always present.
FeatureTyPresent(f) ==
    IF f.many THEN ListTy(f.type)
    ELSE IF f.kind # "container" /\ f.optional THEN OptionTy(f.type) ELSE f.type

\* feature_result_ty.
FeatureTy(f) ==
    CASE f.kind = "container" -> OptionTy(f.type)
      [] f.kind # "container" /\ f.many -> ListTy(f.type)
      [] f.kind # "container" /\ ~f.many /\ f.optional -> OptionTy(f.type)
      [] OTHER -> f.type

\* param_result_ty, for free functions; an operation takes the bare type.
ParamTy(p) ==
    IF p.many THEN ListTy(p.type) ELSE IF p.optional THEN OptionTy(p.type) ELSE p.type

-----------------------------------------------------------------------------
(* The checker.  An error anywhere fails the whole body. *)

IsLiteral(e, k) == e.k = k \/ (e.k = "neg" /\ e.kids[1].k = k)

Magnitude(n) == IF n < 0 THEN -n ELSE n
Quotient(a, b) ==
    LET q == Magnitude(a) \div Magnitude(b) IN IF (a < 0) = (b < 0) THEN q ELSE -q
Fits(n, most) == -most - 1 <= n /\ n <= most

Arithmetic(op, a, b) ==
    CASE op = "+" -> a + b [] op = "-" -> a - b [] op = "*" -> a * b [] op = "/" -> Quotient(a, b)

\* const_of: the constant an expression folds to, as a sequence of at most one.
RECURSIVE ConstOf(_)
ConstOf(e) ==
    LET Sides == <<ConstOf(e.kids[1]), ConstOf(e.kids[2])>>
        Long(n) == IF Fits(n, LongMax) THEN <<n>> ELSE <<>>
    IN  CASE e.k = "int" -> <<e.x>>
          [] e.k = "neg" -> LET c == ConstOf(e.kids[1]) IN IF c = <<>> THEN <<>> ELSE Long(-c[1])
          [] e.k = "bin" /\ e.x \in {"+", "-", "*", "/"} ->
                IF <<>> \in {Sides[1], Sides[2]} \/ (e.x = "/" /\ Sides[2] = <<0>>) THEN <<>>
                ELSE Long(Arithmetic(e.x, Sides[1][1], Sides[2][1]))
          [] OTHER -> <<>>

\* R1 and R4, the constant halves.  The fold divides by at least one.
ConstantsFit(op, l, r, ty) ==
    LET a == ConstOf(l)
        b == ConstOf(r)
    IN  /\ ~(op = "/" /\ b = <<0>>)
        /\ a # <<>> /\ b # <<>> =>
              Fits(Arithmetic(op, a[1], IF op = "/" /\ b[1] < 1 THEN 1 ELSE b[1]),
                   IF ty = TInt THEN IntMax ELSE LongMax)

\* L2 with L1: one numeric type, to which a literal of the narrow one adapts.
ArithmeticTy(op, l, r, lt, rt) ==
    LET Adapt(wide, narrow, k) ==
            LET fits(t, e) == t = wide \/ (t = narrow /\ IsLiteral(e, k))
            IN  IF fits(lt, l) /\ fits(rt, r) THEN wide ELSE Bad
        common == CASE TLong \in {lt, rt} -> Adapt(TLong, TInt, "int")
                    [] TLong \notin {lt, rt} /\ TFloat \in {lt, rt} -> Adapt(TFloat, TDouble, "float")
                    [] OTHER -> IF lt = rt /\ lt \in Numeric THEN lt ELSE Bad
    IN  IF common # Bad /\ ConstantsFit(op, l, r, common) THEN common ELSE Bad

\* R9: an absent operand makes the result absent.
ConcatTy(lt, rt) ==
    IF ~StringOperand(lt) \/ ~StringOperand(rt) THEN Bad
    ELSE IF IsOption(lt) \/ IsOption(rt) THEN OptionTy(TString) ELSE TString

\* R2.  The guard for long literals asks the wrong side for its literal.
Comparable(l, r, lt, rt) ==
    \/ TNull \in {lt, rt}
    \/ lt = rt
    \/ lt = TLong /\ rt = TInt /\ IsLiteral(l, "int")
    \/ rt = TLong /\ lt = TInt /\ IsLiteral(r, "int")
    \/ lt = TFloat /\ rt = TDouble /\ IsLiteral(r, "float")
    \/ rt = TFloat /\ lt = TDouble /\ IsLiteral(l, "float")

BinaryTy(op, l, r, lt, rt) ==
    CASE Bad \in {lt, rt} -> Bad
      [] Bad \notin {lt, rt} /\ op = "+" /\ (StringOperand(lt) \/ StringOperand(rt)) -> ConcatTy(lt, rt)
      [] op \in {"==", "!="} -> IF Comparable(l, r, lt, rt) THEN TBoolean ELSE Bad
      [] op \in {"<", "<="} -> IF lt = rt /\ lt \in Numeric THEN TBoolean ELSE Bad
      [] op \in {"&&", "||"} -> IF lt = TBoolean /\ rt = TBoolean THEN TBoolean ELSE Bad
      [] OTHER -> ArithmeticTy(op, l, r, lt, rt)

\* The type the right operand is checked against.
RightExpect(op, lt) ==
    IF op \in {"+", "-", "*", "/", "<", "<="} /\ lt \in {TLong, TFloat} THEN lt ELSE NoExpect

\* receiver_target and wrap_optional (R3).
Unwrapped(t, safe) == IF IsOption(t) THEN (IF safe THEN t[2] ELSE Bad) ELSE t
Wrapped(t, safe) == IF t # Bad /\ safe /\ ~IsOption(t) THEN OptionTy(t) ELSE t

\* A1-A6: the type of an algebra call over elements of type t.
AlgebraTy(kind, lambda, t, body) ==
    CASE body = Bad -> Bad
      [] kind = "size" -> TInt
      [] kind = "sum" -> IF t \in Numeric THEN t ELSE Bad
      [] kind = "map" -> ListTy(body)
      [] kind = "first" -> IF lambda => body = TBoolean THEN OptionTy(t) ELSE Bad
      [] kind = "filter" -> IF body = TBoolean THEN ListTy(t) ELSE Bad
      [] kind = "any" -> IF body = TBoolean THEN TBoolean ELSE Bad

\* A name in scope: its checked type, the type of the Rust it becomes, and
\* what it is: a feature, a parameter, a let or what a closure is lent.
Binding(n, ty, rust, is) == [name |-> n, ty |-> ty, rust |-> rust, is |-> is]
Bind(scope, n, ty) == Append(scope, Binding(n, ty, ty, "let"))

\* unary, if_expr (U1), coalesce (R3) and list_literal: what a form makes of its
\* parts' types, or of its parts.
UnaryTy(op, t) ==
    IF (op = "not" /\ t = TBoolean) \/ (op = "neg" /\ t \in Numeric) THEN t ELSE Bad

ChoiceTy(cond, then, else) == IF cond = TBoolean /\ then = else THEN then ELSE Bad

\* TypeChecker::check, below: the type of e in a scope where expect is wanted.
RECURSIVE Check(_, _, _, _)

\* A default of any type will do.
CoalesceTy(u, scope, t, default) ==
    CASE IsOption(t) -> IF Check(u, scope, default, t[2]) = Bad THEN Bad ELSE t[2]
      [] t = TNull -> Check(u, scope, default, NoExpect)
      [] OTHER -> Bad

ListLiteralTy(u, scope, items) ==
    IF items = <<>> THEN Bad
    ELSE LET t == Check(u, scope, items[1], NoExpect)
             expect == IF t = TLong THEN TLong ELSE NoExpect
         IN  IF t # Bad /\ \A i \in DOMAIN items : i > 1 => Check(u, scope, items[i], expect) = t
             THEN ListTy(t) ELSE Bad

\* find_feature and find_operation, on the unwrapped type of a receiver.
Members(u, t, e) ==
    IF t[1] # "class" THEN <<>>
    ELSE Named(IF e.k = "get" THEN u.class[t[2]].features ELSE u.class[t[2]].operations, e.x.name)

\* One argument for each parameter, of the type it wants.
ArgsFit(u, scope, args, wanted) ==
    /\ Len(args) = Len(wanted)
    /\ \A i \in DOMAIN wanted : Check(u, scope, args[i], wanted[i]) = wanted[i]

FeatureAccessTy(found, safe) ==
    IF found = <<>> THEN Bad ELSE Wrapped(FeatureTy(found[1]), safe)

CallTy(u, scope, found, args, safe) ==
    IF found # <<>>
       /\ ArgsFit(u, scope, args, [i \in DOMAIN found[1].params |-> found[1].params[i].type])
    THEN Wrapped(found[1].returns, safe) ELSE Bad

\* A name that several packages declare is refused.
FunctionCallTy(u, scope, found, args) ==
    IF Len(found) = 1
       /\ ArgsFit(u, scope, args, [i \in DOMAIN found[1].params |-> ParamTy(found[1].params[i])])
    THEN found[1].returns ELSE Bad

Check(u, scope, e, expect) ==
    LET Part(i) == Check(u, scope, e.kids[i], NoExpect)
        Found == Members(u, Unwrapped(Part(1), e.x.safe), e)
    IN  CASE e.k = "int" -> IF expect = TLong THEN TLong ELSE IF Fits(e.x, IntMax) THEN TInt ELSE Bad
          [] e.k = "float" -> IF expect = TFloat THEN TFloat ELSE TDouble
          [] e.k = "string" -> TString
          [] e.k = "bool" -> TBoolean
          [] e.k = "null" -> TNull
          [] e.k = "name" -> LET b == Bound(scope, e.x) IN IF b = <<>> THEN Bad ELSE b[1].ty
          [] e.k \in {"not", "neg"} -> UnaryTy(e.k, Part(1))
          [] e.k = "bin" ->
                LET lt == Part(1)
                IN  BinaryTy(e.x, e.kids[1], e.kids[2], lt,
                             Check(u, scope, e.kids[2], RightExpect(e.x, lt)))
          [] e.k = "get" -> FeatureAccessTy(Found, e.x.safe)
          [] e.k = "call" -> CallTy(u, scope, Found, Tail(e.kids), e.x.safe)
          [] e.k = "fn" -> FunctionCallTy(u, scope, Named(u.functions, e.x), e.kids)
          [] e.k = "alg" ->
                LET t == Part(1)
                    lambda == e.x.param # NoParam
                IN  IF t[1] # "list" THEN Bad
                    ELSE Wrapped(AlgebraTy(e.x.kind, lambda, t[2],
                                    IF lambda THEN Check(u, Bind(scope, e.x.param, t[2]), e.kids[2], NoExpect)
                                    ELSE IF e.x.kind \in {"first", "size", "sum"} THEN t[2] ELSE Bad), e.x.safe)
          [] e.k = "coalesce" -> CoalesceTy(u, scope, Part(1), e.kids[2])
          [] e.k = "if" -> ChoiceTy(Part(1), Part(2), Part(3))
          [] e.k = "let" ->
                LET t == Part(1)
                IN  IF t = Bad THEN Bad ELSE Check(u, Bind(scope, e.x, t), e.kids[2], NoExpect)
          [] e.k = "list" -> ListLiteralTy(u, scope, e.kids)

-----------------------------------------------------------------------------
(* The Rust of a checked body: its text, as a tree; the type rustc gives it, *)
(* Bad when it is rejected; and whether the text is a whole operand, a       *)
(* dereference `*p` or a cast `x as i32`.                                    *)

Whole(ty, text) == [ty |-> ty, form |-> "whole", text |-> text]
Broken == Whole(Bad, NoBody)

\* rust_type, of the types of numbers.
RustName(t) ==
    CASE t = TInt -> "i32" [] t = TLong -> "i64" [] t = TFloat -> "f32" [] t = TDouble -> "f64"
      [] OTHER -> "other"

\* is_copy.
RECURSIVE Copyable(_)
Copyable(t) == IF IsOption(t) THEN Copyable(t[2]) ELSE t # TString /\ t[1] # "list"

\* The type of a field or of a derived accessor: references are stored as an
\* Option whatever the lower bound says.
StoredTy(f) ==
    IF f.many THEN ListTy(f.type)
    ELSE IF f.kind # "attribute" \/ f.optional THEN OptionTy(f.type) ELSE f.type

\* fn_param_type: an optional parameter is not an Option.
FnParamType(p) == IF p.many THEN ListTy(p.type) ELSE p.type

\* LowerCtx::new and TypeChecker::with_self: a parameter hides a feature.
RootScope(u, class, params) ==
    [i \in DOMAIN u.class[class].features |->
        LET f == u.class[class].features[i] IN Binding(f.name, FeatureTy(f), StoredTy(f), "feature")]
    \o [i \in DOMAIN params |-> Binding(params[i].name, params[i].type, params[i].type, "param")]

\* A method binds closer than `*` and than `as`.
On(code) == IF code.form = "whole" THEN code.ty ELSE Bad

Optional(ty) == IF ty = Bad THEN Bad ELSE OptionTy(ty)

\* The type of an operator between two operands of checked types lt and rt.
OperatorTy(op, l, r, lt, rt) ==
    CASE Bad \in {l.ty, r.ty} -> Bad
      [] Bad \notin {l.ty, r.ty} /\ op = "+" /\ (StringOperand(lt) \/ StringOperand(rt)) -> ConcatTy(l.ty, r.ty)
      [] op \in {"==", "!="} -> IF l.ty = r.ty THEN TBoolean ELSE Bad
      [] op = "<" /\ l.form = "cast" -> Bad    \* reads as the start of type arguments
      [] op \in {"<", "<="} -> IF l.ty = r.ty /\ l.ty \in Numeric THEN TBoolean ELSE Bad
      [] op \in {"&&", "||"} -> IF l.ty = TBoolean /\ r.ty = TBoolean THEN TBoolean ELSE Bad
      [] OTHER -> IF l.ty = r.ty /\ l.ty \in Numeric THEN l.ty ELSE Bad

\* equality with null: the constant answer when the value is no Option.
AgainstNull(op, value, t) ==
    LET isNone == IF IsOption(t) THEN Node("isNone", 0, <<value.text>>) ELSE Node("bool", FALSE, <<>>)
    IN  Whole(IF IsOption(t) /\ ~IsOption(On(value)) THEN Bad ELSE TBoolean,
              IF op = "==" THEN isNone ELSE Node("not", 0, <<isNone>>))

\* field_shape: whether reading f off an object is taken to yield an Option.
\* A derived feature is looked up among the names of the enclosing class.
ShapeIsOption(scope, f) ==
    IF f.derived
    THEN LET b == Bound(SelectSeq(scope, LAMBDA n : n.is \in {"feature", "param"}), f.name)
         IN  b # <<>> /\ IsOption(b[1].ty)
    ELSE ~f.many /\ (f.optional \/ f.kind = "container")

\* feature_access, on a receiver of checked type t.
Access(recv, t, safe, f, optional) ==
    LET read == Node("read", f.name, <<recv.text>>)
        plain == IF recv.ty = Unwrapped(t, TRUE) THEN StoredTy(f) ELSE Bad
        chained == IF ~optional THEN Optional(StoredTy(f))
                   ELSE IF IsOption(StoredTy(f)) THEN StoredTy(f) ELSE Bad
    IN  CASE safe /\ IsOption(t) ->
                Whole(IF On(recv) = t THEN chained ELSE Bad,
                      Node(IF optional THEN "andThen" ELSE "map", f.name, <<recv.text>>))
          [] safe /\ ~IsOption(t) /\ ~optional -> Whole(Optional(plain), Node("some", 0, <<read>>))
          [] OTHER -> Whole(plain, read)

\* Lowerer::lower, and rustc on its text.
RECURSIVE LowerNode(_, _, _, _, _)
Lower(u, scope, e, ty) ==
    LowerNode(u, scope, e, ty, [i \in DOMAIN e.kids |-> Check(u, scope, e.kids[i], NoExpect)])
LowerNode(u, scope, e, ty, typed) ==
    LET \* operand_ty: L1.
        Adapted(i, long) ==
            Lower(u, scope, e.kids[i], IF long /\ IsLiteral(e.kids[i], "int") THEN TLong ELSE typed[i])
        Code(i) == Adapted(i, FALSE)
        Same(kind, data, codes) == Node(kind, data, [i \in DOMAIN codes |-> codes[i].text])
    IN  CASE e.k = "int" ->
                IF ty = TLong THEN Whole(TLong, Node("i64", e.x, <<>>)) ELSE Whole(TInt, Node("i32", e.x, <<>>))
          [] e.k = "float" ->
                IF ty = TFloat THEN Whole(TFloat, Node("f32", 0, <<>>)) ELSE Whole(TDouble, Node("f64", 0, <<>>))
          [] e.k = "string" -> Whole(TString, e)
          [] e.k = "bool" -> Whole(TBoolean, e)
          [] e.k = "name" ->
                LET b == Bound(scope, e.x)[1]
                IN  [ty |-> b.rust, text |-> e,
                     form |-> IF b.is = "lent" /\ Copyable(b.ty) THEN "deref" ELSE "whole"]
          [] e.k \in {"not", "neg"} -> Whole(Code(1).ty, Same(e.k, 0, <<Code(1)>>))
          [] e.k = "bin" /\ e.x \in {"==", "!="} /\ "null" \in {e.kids[1].k, e.kids[2].k} ->
                LET value == IF e.kids[2].k = "null" THEN 1 ELSE 2
                IN  IF e.kids[value].k = "null" THEN Whole(TBoolean, Node("bool", e.x = "==", <<>>))
                    ELSE AgainstNull(e.x, Code(value), typed[value])
          [] e.k = "bin" /\ ~(e.x \in {"==", "!="} /\ "null" \in {e.kids[1].k, e.kids[2].k}) ->
                LET sides == <<Code(1), Adapted(2, typed[1] = TLong)>>
                IN  Whole(OperatorTy(e.x, sides[1], sides[2], typed[1], typed[2]), Same("bin", e.x, sides))
          [] e.k = "get" ->
                LET t == typed[1]
                    f == Named(u.class[Unwrapped(t, TRUE)[2]].features, e.x.name)[1]
                IN  Access(Code(1), t, e.x.safe, f, ShapeIsOption(scope, f))
          [] e.k = "fn" ->
                LET function == Named(u.functions, e.x)[1]
                    args == [i \in DOMAIN e.kids |-> Adapted(i, function.params[i].type = TLong)]
                    fit == \A i \in DOMAIN args : args[i].ty = FnParamType(function.params[i])
                IN  Whole(IF fit THEN function.returns ELSE Bad, Same("fn", e.x, args))
          [] e.k = "alg" ->
                LET list == Code(1)
                    item == typed[1][2]
                    bound == Append(scope, Binding(e.x.param, item, On(list)[2], "lent"))
                    body == Lower(u, bound, e.kids[2], Check(u, bound, e.kids[2], NoExpect))
                    lambda == e.x.param # NoParam /\ e.x.kind \notin {"size", "sum"}
                    result == AlgebraTy(e.x.kind, lambda, On(list)[2], IF lambda THEN body.ty ELSE item)
                    data == [kind |-> e.x.kind, param |-> e.x.param, item |-> RustName(On(list)[2])]
                    text == Same("alg", data, IF lambda THEN <<list, body>> ELSE <<list>>)
                IN  CASE On(list)[1] # "list" -> Broken
                      [] On(list)[1] = "list" /\ e.x.safe /\ e.x.kind # "first" ->
                            Whole(Optional(result), Node("some", 0, <<text>>))
                      [] OTHER -> [ty |-> result, text |-> text,
                                   form |-> IF e.x.kind = "size" THEN "cast" ELSE "whole"]
          [] e.k = "coalesce" ->
                LET default == Adapted(2, typed[1] = OptionTy(TLong))
                IN  IF typed[1] = TNull THEN Code(2)
                    ELSE Whole(IF On(Code(1)) = OptionTy(default.ty) THEN default.ty ELSE Bad,
                               Same("unwrapOr", 0, <<Code(1), default>>))
          [] e.k = "if" ->
                Whole(IF Code(1).ty = TBoolean /\ Code(2).ty = Code(3).ty THEN Code(2).ty ELSE Bad,
                      Same("if", 0, <<Code(1), Code(2), Code(3)>>))
          [] e.k = "let" ->
                LET init == Code(1)
                    body == Lower(u, Append(scope, Binding(e.x, typed[1], init.ty, "let")), e.kids[2], ty)
                IN  IF init.ty = Bad THEN Broken ELSE Whole(body.ty, Same("let", e.x, <<init, body>>))
          [] e.k = "list" ->
                LET items == [i \in DOMAIN e.kids |-> Adapted(i, i > 1 /\ typed[1] = TLong)]
                    fit == \A i \in DOMAIN items : items[i].ty = items[1].ty /\ items[i].ty # Bad
                IN  Whole(IF fit THEN ListTy(items[1].ty) ELSE Bad, Same("vec", 0, items))
          \* A null has no text; a method takes the arena, which no call passes.
          [] e.k \in {"null", "call"} -> Broken

\* lower_op_expr_body and lower_derived_expr_body, for a body of a class, its
\* parameters, what it is of and what that declares: refused, or compiled.
Verdict(p, ty, code) ==
    LET inner == p.of = "derived" /\ p.declared = OptionTy(ty)
        allowed == ty = p.declared \/ inner \/ (p.of = "operation" /\ ty = OptionTy(p.declared))
    IN  IF ty = Bad \/ ~allowed \/ ty[1] = "list" THEN [fate |-> "refused"]
        ELSE IF code.ty # ty THEN [fate |-> "does not build"]
        ELSE [fate |-> "runs", ty |-> IF inner THEN p.declared ELSE ty,
              text |-> IF inner THEN Node("some", 0, <<code.text>>) ELSE code.text]

Compile(u, p) ==
    LET scope == RootScope(u, p.class, p.params)
        ty == Check(u, scope, p.body, NoExpect)
    IN  Verdict(p, ty, Lower(u, scope, p.body, ty))

\* The accessors of the derived features of a class, and the operations.
Accessors(u, class) ==
    LET derived == SelectSeq(u.class[class].features, LAMBDA f : f.derived)
    IN  [name \in {derived[i].name : i \in DOMAIN derived} |->
            LET f == Named(derived, name)[1]
            IN  Compile(u, [class |-> class, params |-> <<>>, of |-> "derived",
                            declared |-> FeatureTy(f), body |-> f.body])]

\* A universe with what it is compiled to.
Built(u) ==
    [class |-> u.class, functions |-> u.functions, number |-> u.number, programs |-> u.programs,
     accessor |-> [class \in DOMAIN u.class |-> Accessors(u, class)],
     body |-> [i \in DOMAIN u.programs |-> Compile(u, u.programs[i])]]

\* Everything is compiled once, before anything runs.
Compiled == [name \in DOMAIN Universes |-> Built(Universes[name])]

-----------------------------------------------------------------------------
(* What compiled text computes over the arena.  A value carries the kind of  *)
(* Rust value it is; floats are not told apart.                              *)

Value(kind, of) == <<kind, of>>
None == Value("none", 0)
Some(v) == Value("some", v)
Truth(b) == Value("bool", b)
Yes == Truth(TRUE)
Panic(why) == Value("panic", why)
Panics(v) == v[1] = "panic"

\* Operands are evaluated from left to right, up to the first that panics.
Strict(values, result) ==
    LET bad == SelectSeq(values, Panics) IN IF bad = <<>> THEN result ELSE bad[1]

\* R1 and R4: a number out of its width, and a zero divisor, panic.
Sized(kind, n) ==
    IF Fits(n, IF kind = "i64" THEN LongMax ELSE IntMax) THEN Value(kind, n) ELSE Panic("overflow")

Text(v) == IF v[1] = "some" THEN v[2][2] ELSE v[2]

\* R9, with an absent operand: zip.
Concat(l, r) ==
    IF None \in {l, r} THEN None
    ELSE LET joined == Value("str", Text(l) \o Text(r))
         IN  IF "some" \in {l[1], r[1]} THEN Some(joined) ELSE joined

Operate(op, l, r) ==
    CASE op = "==" -> Truth(l = r)
      [] op = "!=" -> Truth(l # r)
      [] op = "<" -> Truth(l[2] < r[2])
      [] op = "<=" -> Truth(l[2] <= r[2])
      [] op \in {"+", "-", "*", "/"} /\ l[1] \in {"f32", "f64"} -> l
      [] op = "+" /\ l[1] \in {"str", "some", "none"} -> Concat(l, r)
      [] op = "/" /\ r[2] = 0 /\ l[1] \in {"i32", "i64"} -> Panic("division by zero")
      [] OTHER -> Sized(l[1], Arithmetic(op, l[2], r[2]))

\* The value of an attribute: a text is a sequence of parts.
Scalar(u, type, v) == IF type = TString THEN Value("str", <<v>>) ELSE Value(RustName(type), u.number[v])
Optionally(values) == IF values = <<>> THEN None ELSE Some(values[1])

\* What a field of a live object holds.
Field(u, id, f) ==
    LET values == IF f.kind = "attribute"
                  THEN [i \in DOMAIN attr[id] |-> Scalar(u, f.type, attr[id][i])]
                  ELSE [i \in DOMAIN field[f.name][id] |-> Value("id", field[f.name][id][i])]
    IN  CASE f.many -> Value("vec", values)
          [] ~f.many /\ IsOption(StoredTy(f)) -> Optionally(values)
          [] OTHER -> values[1]

Then(v, Rest(_)) == IF Panics(v) THEN v ELSE Rest(v)

\* The earliest item that the closure does not answer with no, at most one.
Stop(answers) ==
    LET stops == {i \in DOMAIN answers : answers[i] # Truth(FALSE)}
    IN  IF stops = {} THEN <<>> ELSE <<CHOOSE i \in stops : \A j \in stops : i <= j>>

\* A1-A6, of items and what the closure makes of each; a search stops at the
\* first item that holds, or panics.
Algebra(x, items, answers) ==
    LET found == Stop(answers)
        Search(none, some) ==
            IF found = <<>> THEN none ELSE Then(answers[found[1]], LAMBDA v : some)
    IN  CASE x.kind = "size" -> Value("i32", Len(items))
          [] x.kind = "sum" -> FoldLeft(LAMBDA s, v : Then(s, LAMBDA t : Operate("+", t, v)), Value(x.item, 0), items)
          [] x.kind = "map" -> Strict(answers, Value("vec", answers))
          [] x.kind = "filter" ->
                LET kept == SelectSeq([i \in DOMAIN items |-> i], LAMBDA i : answers[i] = Yes)
                IN  Strict(answers, Value("vec", [k \in 1..Len(kept) |-> items[kept[k]]]))
          [] x.kind = "any" -> Search(Truth(FALSE), Yes)
          [] x.kind = "first" /\ x.param = NoParam -> Optionally(items)
          [] x.kind = "first" /\ x.param # NoParam -> Search(None, Some(items[found[1]]))

\* names is a sequence of bindings of values; what is not among them is a
\* feature of self.
RECURSIVE Run(_, _, _, _)

\* The value of a feature of an object, or a panic when there is none.
Read(u, id, n) ==
    LET f == Named(u.class[id[1]].features, n)[1]
    IN  CASE ~Live(id) -> Panic("dangling")
          [] Live(id) /\ f.derived -> Run(u, id, <<>>, u.accessor[id[1]][n].text)
          [] OTHER -> Field(u, id, f)

\* What a node makes of the values of its parts, none of which panics.
Apply(u, e, parts) ==
    LET v == parts[1]
        present == v # None /\ Live(v[2][2])
    IN  CASE e.k = "not" -> Truth(~v[2])
          [] e.k = "neg" -> IF v[1] \in {"f32", "f64"} THEN v ELSE Sized(v[1], -v[2])
          [] e.k = "isNone" -> Truth(v = None)
          [] e.k = "some" -> Some(v)
          [] e.k = "bin" -> Operate(e.x, v, parts[2])
          [] e.k = "read" -> Read(u, v[2], e.x)
          [] e.k = "map" -> IF present THEN Then(Read(u, v[2][2], e.x), Some) ELSE None
          [] e.k = "andThen" -> IF present THEN Read(u, v[2][2], e.x) ELSE None
          [] e.k = "fn" -> Named(u.functions, e.x)[1].result
          [] e.k = "unwrapOr" -> IF v = None THEN parts[2] ELSE v[2]
          [] e.k = "vec" -> Value("vec", parts)

Run(u, self, names, e) ==
    LET Part(i, bound) == Run(u, self, names \o bound, e.kids[i])
        Bound1(v) == <<[name |-> IF e.k = "alg" THEN e.x.param ELSE e.x, value |-> v]>>
        parts == [i \in DOMAIN e.kids |-> Part(i, <<>>)]
    IN  CASE e.k \in {"i32", "i64", "f32", "f64", "bool"} -> Value(e.k, e.x)
          [] e.k = "string" -> Value("str", <<e.x>>)
          [] e.k = "name" ->
                LET b == Bound(names, e.x) IN IF b = <<>> THEN Read(u, self, e.x) ELSE b[1].value
          [] e.k = "let" -> Then(Part(1, <<>>), LAMBDA v : Part(2, Bound1(v)))
          [] e.k = "if" -> Then(Part(1, <<>>), LAMBDA v : Part(IF v = Yes THEN 2 ELSE 3, <<>>))
          [] e.k = "bin" /\ e.x \in {"&&", "||"} ->
                Then(Part(1, <<>>), LAMBDA v : IF v = Truth(e.x = "||") THEN v ELSE Part(2, <<>>))
          [] e.k = "alg" -> Then(Part(1, <<>>), LAMBDA v : Algebra(e.x, v[2],
                IF Len(e.kids) = 1 THEN <<>> ELSE [i \in DOMAIN v[2] |-> Part(2, Bound1(v[2][i]))]))
          [] OTHER -> Strict(parts, Apply(u, e, parts))

-----------------------------------------------------------------------------
(* Properties. *)

\* A value is one of its checked type, and an id is of a live object.
RECURSIVE HasType(_, _)
HasType(v, ty) ==
    CASE ty \in Numeric -> v[1] = RustName(ty)
      [] ty = TString -> v[1] = "str"
      [] ty = TBoolean -> v[1] = "bool"
      [] ty[1] = "class" -> v[1] = "id" /\ v[2][1] = ty[2] /\ Live(v[2])
      [] ty[1] = "option" -> v = None \/ (v[1] = "some" /\ HasType(v[2], ty[2]))
      [] ty[1] = "list" -> v[1] = "vec" /\ \A i \in DOMAIN v[2] : HasType(v[2][i], ty[2])

\* A program is [class, params, of, declared, body, fate: what becomes of it,
\* law: whether it states what is always true].
Calls(params) ==
    [1..Len(params) -> UNION {params[i].inputs : i \in DOMAIN params}]
Arguments(params) ==
    {[i \in DOMAIN args |-> [name |-> params[i].name, value |-> args[i]]] :
        args \in {c \in Calls(params) : \A i \in DOMAIN c : c[i] \in params[i].inputs}}

\* A body that the checker accepts and rustc compiles computes a value of the
\* type the checker gave it, or panics for overflow or a zero divisor and for
\* nothing else: no arena that the mutators build makes it meet a dangling id.
\* What holds by the rules of the language (a law) holds of every arena.
BodiesRun ==
    \A u \in {Compiled[n] : n \in {schema.universe} \ {NoUniverse}} : \A i \in DOMAIN u.programs :
        LET p == u.programs[i]
            code == u.body[i]
        IN  /\ code.fate = p.fate
            /\ code.fate = "runs" =>
                  \A id \in {x \in Ids(p.class) : Live(x)}, names \in Arguments(p.params) :
                      LET v == Run(u, id, names, code.text)
                      IN  \/ v \in {Panic("overflow"), Panic("division by zero")}
                          \/ HasType(v, code.ty) /\ (p.law => v = Yes)
=============================================================================
