----------------------------- MODULE MCCompile -----------------------------
(* Every graph of a few files, and an entry made of pieces of code over one *)
(* dependency of several shapes.                                            *)
EXTENDS Compile

CONSTANTS MaxImports, MaxPieces, Lib

x == Name("x")
y == Name("y")
f == Name("f")
g == Name("g")
h == Name("h")
k == Name("k")
v == Name("v")
N(n)   == Literal(Number(n))
Id(n)  == Identifier(n, "number")
Union(n) == Identifier(n, "unknown")
Add(a, b)  == Expression("+", "number", <<a, b>>)
Less(a, b) == Expression("<", "boolean", <<a, b>>)
Not(a)     == Expression("!", "boolean", <<a>>)
Or(a, b)   == Expression("||", "boolean", <<a, b>>)
And(a, b)  == Expression("&&", "boolean", <<a, b>>)
Comma(a, b) == Expression(",", b.t, <<a, b>>)
Cond(c, a, b)  == Expression("?:", a.t, <<c, a, b>>)
Default(a, b)  == Expression("??", b.t, <<a, b>>)
Update(op, place, e) == Expression(op, "number", <<place, e>>)
Postfix(n)     == Expression("x++", "number", <<Id(n)>>)
Prefix(n)      == Expression("++x", "number", <<Id(n)>>)
Call(n, as) == CallExpr(n, as, "number")
CallOf(e, t)   == Expression("call", t, <<e>>)
Lambda(a)      == FunctionExpr(<<>>, a)
If(c, a)       == Statement("if-statement", <<c>>, <<a>>)
IfElse(c, a, b) == Statement("if-statement", <<c>>, <<a, b>>)
While(c, a)    == Statement("while-statement", <<c>>, <<a>>)
DoWhile(a, c)  == Statement("do-while-statement", <<c>>, <<a>>)
Braces(a)       == Statement("block", <<>>, <<a>>)
Break          == Statement("break-statement", <<>>, <<>>)
Continue       == Statement("continue-statement", <<>>, <<>>)
Fn(n, p, a)    == FunctionDeclaration(n, <<Parameter(p, "number")>>, a)
Throw(e)       == Statement("throw-statement", <<e>>, <<>>)
Logs(es)       == ConsoleLog(es)
Log(e)         == Logs(<<e>>)
Expr(e)        == Statement("expression-statement", <<e>>, <<>>)
Incr(n)        == Expr(Postfix(n))

Siblings ==
  <<Declaration(k, Lambda(<<Return(N(0))>>)),
    Braces(<<Declaration(v, N(1)), Assignment(k, Lambda(<<Return(Id(v))>>))>>),
    Braces(<<Declaration(v, N(2)), Log(Id(v)), Log(CallOf(Lambda(<<Return(Id(v))>>), "number"))>>),
    Log(Call(k, <<>>))>>

(* What the dependency may be: its f takes a number and returns one. *)
Dependencies == <<
  <<Fn(f, x, <<Return(Add(Id(x), Id(x)))>>)>>,
  <<Declaration(x, N(1)), Fn(f, x, <<Return(Id(x))>>)>>,
  <<Declaration(x, N(1)), Fn(f, y, <<Return(Add(Id(x), Id(y)))>>)>>,
  <<Declaration(x, N(1)), Fn(f, y, <<Incr(x), Return(Id(x))>>)>>,
  <<Fn(f, y, <<Return(Call(g, <<Id(y)>>)), Fn(g, x, <<Return(Add(Id(x), Id(y)))>>)>>)>>,
  <<Fn(f, y, <<Return(Expression("call", "number", <<FunctionExpr(<<>>, <<Return(Id(y))>>)>>))>>)>>,
  <<Fn(f, y, <<Return(Expression("call", "number",
        <<FunctionExpr(<<Parameter(y, "number")>>, <<Return(Id(y))>>), N(7)>>))>>)>>,
  <<Fn(f, y, <<Declaration(k, Lambda(<<Incr(y), Return(Id(y))>>)),
               Return(Add(CallOf(Identifier(k, "fn"), "number"), CallOf(Identifier(k, "fn"), "number")))>>)>>,
  <<Fn(f, y, <<DoWhile(<<If(Less(Id(y), N(2)), <<Break>>), Return(N(5))>>, Less(N(2), N(1))), Return(Id(y))>>)>>,
  <<Fn(f, y, <<If(Less(Id(y), N(2)), <<Throw(Id(y))>>), Return(Add(Id(y), N(3)))>>)>> >>

(* The pieces an entry is put together from. *)
Pieces == <<
  <<Log(Call(f, <<N(1)>>))>>,
  <<Declaration(x, N(2))>>,
  <<Log(Id(x))>>,
  <<Log(Call(f, <<Id(x)>>))>>,
  <<Braces(<<Declaration(x, N(3)), Log(Call(f, <<Id(x)>>))>>), Braces(<<Declaration(x, N(4)), Log(Id(x))>>)>>,
  <<Fn(g, x, <<Return(Call(f, <<Id(x)>>)), Log(N(0))>>)>>,
  <<Fn(g, f, <<Return(Add(Id(f), N(1)))>>)>>,
  <<Log(Call(g, <<N(5)>>))>>,
  <<Log(Or(Less(N(1), N(2)), Less(Call(f, <<N(2)>>), N(0)))), Log(And(Less(N(1), N(2)), Less(Call(f, <<N(2)>>), N(0))))>>,
  <<IfElse(Less(N(1), N(2)), <<Declaration(y, N(6)), Log(Id(y))>>, <<Log(Call(f, <<N(1)>>))>>)>>,
  <<Declaration(y, N(0)), While(Less(Id(y), N(2)), <<Incr(y), DoWhile(<<Continue>>, Less(N(2), N(1))), Log(Id(y))>>)>>,
  <<While(Less(N(0), N(1)), <<DoWhile(<<Log(N(8))>>, Less(N(2), N(1))), Break, Log(Comma(N(1), Call(f, <<N(2)>>)))>>)>>,
  <<Fn(h, y, <<If(Not(Less(N(1), N(2))), <<Return(N(0))>>), Return(Call(h, <<Id(y)>>))>>)>>,
  \* a function that reads the name it initializes
  <<Declaration(k, FunctionExpr(<<Parameter(y, "number")>>,
                     <<If(Less(N(2), Id(y)), <<Return(Id(y))>>), Return(Call(k, <<Add(Id(y), N(1))>>))>>)),
    Log(Call(k, <<N(0)>>))>>,
  \* sibling blocks of one name, one kept by a function that outlives it
  Siblings, <<FunctionDeclaration(g, <<>>, Siblings), Expr(Call(g, <<>>))>>,
  \* two environments of one function
  <<Fn(h, y, <<Return(Lambda(<<Incr(y), Return(Id(y))>>))>>),
    Declaration(k, CallExpr(h, <<N(1)>>, "fn")), Declaration(v, CallExpr(h, <<N(5)>>, "fn")),
    Log(Call(k, <<>>)), Log(Call(v, <<>>)), Log(Call(k, <<>>))>>,
  \* reads across functions with and without an environment
  <<Fn(h, y, <<Fn(g, x, <<FunctionDeclaration(k, <<>>, <<Return(Add(Id(x), Id(y)))>>), Return(Call(k, <<>>))>>),
               Return(Call(g, <<N(2)>>))>>), Log(Call(h, <<N(3)>>))>>,
  <<Fn(h, y, <<Fn(g, x, <<FunctionDeclaration(k, <<>>, <<Return(Id(y))>>), Return(Call(k, <<>>))>>),
               Return(Call(g, <<N(2)>>))>>), Log(Call(h, <<N(3)>>))>>,
  \* an inner binding of an outer one's name, both kept
  <<Fn(h, y, <<Declaration(k, Lambda(<<Declaration(y, N(7)), Return(CallOf(Lambda(<<Incr(y), Return(Id(y))>>), "number"))>>)),
               Log(Call(k, <<>>)), Return(CallOf(Lambda(<<Return(Id(y))>>), "number"))>>), Log(Call(h, <<N(3)>>))>>,
  \* a variable read, written by a call or an update, and read again
  <<Declaration(y, N(1)), FunctionDeclaration(h, <<>>, <<Expr(Update("+=", Id(y), N(4))), Return(Id(y))>>),
    Log(Or(Less(Id(y), N(2)), Less(Call(h, <<>>), N(0)))), Logs(<<Id(y), Call(h, <<>>), Id(y)>>), Log(Add(Id(y), Add(Call(h, <<>>), Id(y)))),
    Logs(<<Postfix(y), Update("+=", Id(y), Call(f, <<Id(y)>>)), Id(y)>>)>>,
  <<FunctionDeclaration(h, <<Parameter(x, "number"), Parameter(y, "number"), Parameter(v, "number")>>,
      <<Incr(x), Return(Add(Id(x), Add(Id(y), Id(v))))>>),
    Declaration(y, N(2)), Log(Call(h, <<Postfix(y), Call(f, <<Id(y)>>), Prefix(y)>>)), Log(Comma(Postfix(y), Id(y)))>>,
  \* loops whose conditions call, left and continued
  <<Declaration(y, N(0)), FunctionDeclaration(h, <<>>, <<Incr(y), Return(Id(y))>>),
    While(Less(Update("+=", Id(y), Call(h, <<>>)), N(9)), <<If(Less(Id(y), N(2)), <<Continue>>), Log(Id(y))>>),
    DoWhile(<<If(Less(Id(y), N(12)), <<Continue>>), Log(Id(y))>>, Less(Call(h, <<>>), N(14)))>>,
  \* right operands and branches that are reached, or not
  <<Fn(h, y, <<Return(Cond(Less(Id(y), N(3)), Add(Id(y), Call(h, <<Add(Id(y), N(1))>>)), Call(f, <<Id(y)>>)))>>),
    Log(Call(h, <<N(1)>>)), [Declaration(y, Literal(Undefined)) EXCEPT !.t = "unknown"],
    Log(Default(Union(y), Call(f, <<N(4)>>))), Expr(Update("??=", Union(y), N(6))), Expr(Update("&&=", Union(y), Call(f, <<N(2)>>))),
    Logs(<<Union(y), Update("||=", Union(y), Call(f, <<N(0)>>)), Update("??=", Union(y), Call(f, <<N(0)>>))>>)>> >>

DistinctNames(ss) ==
  \A i, j \in DOMAIN ss : i # j /\ {ss[i].k, ss[j].k} \subseteq {"declaration", "function-declaration"} => ss[i].n # ss[j].n
Entries == {b \in {FlattenSeq([i \in DOMAIN p |-> Pieces[p[i]]]) : p \in SeqOf(DOMAIN Pieces, MaxPieces)} : DistinctNames(b)}

\* A dependency's f, and its x or not, imported under their own spelling when
\* the entry does not declare them.
ImportsOf(entry, lib) ==
  {[n \in names \ DeclaredIn(entry) |-> <<Lib, n>>] : names \in {{f}, {f} \cup ({x} \cap DeclaredIn(lib))}}

ProgramsOf(entry, lib) ==
  {[edges |-> [file \in File |-> IF file = Entry THEN <<Lib>> ELSE <<>>],
    body |-> [file \in File |-> IF file = Entry THEN entry ELSE lib],
    imports |-> [file \in File |-> IF file = Entry THEN imported ELSE NoNames]] : imported \in ImportsOf(entry, lib)}
TwoFiles == UNION {ProgramsOf(entry, Dependencies[i]) : entry \in Entries, i \in DOMAIN Dependencies}

MCImports == SeqOf(File, MaxImports)
Numbered == CHOOSE s \in [File -> 1 .. Cardinality(File)] : IsInjective(s)
Graphs ==
  {[edges |-> e,
    body |-> [file \in File |-> <<Declaration(x, N(Numbered[file])), Log(Id(x))>>],
    imports |-> [file \in File |-> NoNames]] : e \in [File -> MCImports]}

\* A function whose result names nothing, called at the top level and inside
\* another function.
Shared ==
  <<Declaration(y, N(5)), FunctionDeclaration(g, <<>>, <<Return(Cond(Literal(Boolean(TRUE)), N(1), N(2)))>>),
    FunctionDeclaration(h, <<>>, <<Return(Call(g, <<>>))>>),
    Log(Call(g, <<>>)), Log(Call(h, <<>>)), Log(Id(y))>>
MCShared == ProgramsOf(Shared, Dependencies[1])

MCPrograms == TwoFiles \cup Graphs
=============================================================================
