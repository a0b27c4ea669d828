------------------------------ MODULE CodeText ------------------------------
(***************************************************************************)
(* What a scan reads out of source text (_extract.py, a processor for each *)
(* language) and what the names it finds resolve to (_resolve.py).         *)
(*                                                                         *)
(* A text is the sequence of its declarations, calls and imports in source *)
(* order, each with the node it stands in.  Parsing is tree-sitter's:      *)
(* Inside says what its grammars nest, and Write lets one file grow node   *)
(* by node beside a second one.  Names are numbers, so that they can be    *)
(* sorted; "A.f" is <<A, f>>, and colons says that the parts of a word are *)
(* joined by something else than a dot.                                    *)
(***************************************************************************)
EXTENDS Naturals, Sequences, FiniteSets, SequencesExt

CONSTANTS
    Lang,                     \* the languages: py ts go rs java rb php c
    Name,                     \* names of declarations, in sorting order
    Src,                      \* the directory of the file
    Self, Opaque,             \* self or this; an expression without a name
    Dot, DotDot,              \* "./" and "../"; Dot also for Python's "."
    Index,                    \* __init__.py, index.ts, mod.rs
    Library,                  \* Library[l]: what the other file may be, [path, text]
    None, MaxNodes            \* bound of the model

VARIABLES lang, text, other

codeVars == <<lang, text, other>>

FileNo  == {1, 2}
Text(f) == IF f = 1 THEN text ELSE other.text
Path(f) == IF f = 1 THEN <<Src, 1>> ELSE other.path

-----------------------------------------------------------------------------
(* The trees *)

\* What a node of kind w may stand in: the nestings of the grammars.
Inside(w) ==
    IF lang = "py" THEN {"file", "class", "function"}
    ELSE IF lang = "rb" THEN {"file", "class", "method"}
    ELSE IF w = "import" THEN {"file"}
    ELSE IF lang = "ts" THEN (IF w = "method" THEN {"class"} ELSE {"file", "function", "method", "const"})
    ELSE IF lang = "go" /\ w = "struct" THEN {"file", "function"}
    ELSE IF lang = "rs" /\ w # "call" THEN {"file", "function"} \cup (IF w = "function" THEN {"impl"} ELSE {})
    ELSE IF w = "call" THEN (IF lang = "java" THEN {"class", "method"} ELSE {"function"})
                            \cup (IF lang \in {"go", "php"} THEN {"method"} ELSE {})
                            \cup (IF lang = "php" THEN {"file"} ELSE {})
    ELSE IF w = "method" /\ lang # "go" THEN {"class"}
    ELSE IF lang \in {"java", "c"} THEN {"file", "class"} ELSE {"file"}

\* What the query of the language captures as a symbol.
Captured ==
    CASE lang = "py"   -> {"class", "function"}
      [] lang = "ts"   -> {"class", "function", "method", "const"}
      [] lang = "go"   -> {"function", "method", "struct"}
      [] lang = "rs"   -> {"function", "struct"}
      [] lang = "php"  -> {"class", "method", "function"}
      [] lang = "c"    -> {"class", "function"}
      [] OTHER         -> {"class", "method"}

Line(t, i) == Cardinality({j \in 1..i : t[j].fresh})

\* The nodes of the kinds W around i, outermost first.
Around(t, i, W) ==
    LET path[j \in 0..Len(t)] ==
            IF j = 0 THEN <<>>
            ELSE IF t[j].what \in W THEN Append(path[t[j].up], j) ELSE path[t[j].up]
    IN  path[t[i].up]

\* _walk_symbol_chain: the symbols among them.
Chain(t, i) == Around(t, i, Captured)

-----------------------------------------------------------------------------
(* Symbols.  One is named by its node and, in a const that declares two    *)
(* names, by which of them it is.                                          *)

\* The symbol node_to_symbol has for a node: the last name's.
Of(t, j) == <<j, Len(t[j].names)>>

InClass(t, c) == c # <<>> /\ t[Last(c)].what = "class"

\* The names of the symbols c around it and its own; the innermost one is its parent.
Nested(t, i, k, c, kind) ==
    [qname  |-> [x \in DOMAIN c |-> Last(t[c[x]].names)] \o <<t[i].names[k]>>,
     parent |-> IF c = <<>> THEN None ELSE Of(t, Last(c)), kind |-> kind]

FunctionIn(t, i, c) == IF t[i].what = "class" THEN "class" ELSE IF InClass(t, c) THEN "method" ELSE "function"

PythonSymbol(t, i, k, c)     == Nested(t, i, k, c, FunctionIn(t, i, c))
TypeScriptSymbol(t, i, k, c) == Nested(t, i, k, c, IF t[i].what = "const" THEN FunctionIn(t, i, c) ELSE t[i].what)
JavaSymbol(t, i, k, c)       == Nested(t, i, k, c, t[i].what)
RubySymbol(t, i, k, c)       == Nested(t, i, k, c, FunctionIn(t, i, c))
PhpSymbol(t, i, k, c)        == Nested(t, i, k, c, t[i].what)
CSymbol(t, i, k, c)          == Nested(t, i, k, c, FunctionIn(t, i, c))

\* The type a method belongs to is not around it in Go, where it is the receiver's, and
\* no symbol in Rust, where it is that of the impl around a function (unless another
\* function comes between).
Type(t, i) ==
    LET around == Around(t, i, {"impl", "function"})
    IN  CASE lang = "go" -> t[i].word
          [] lang = "rs" /\ t[i].what = "function" /\ around # <<>> /\ t[Last(around)].what = "impl" ->
                t[Last(around)].names
          [] OTHER -> <<>>

\* The parent is then the last symbol so far that has the type for its qualified name.
OfType(t, i, kind) ==
    LET S == {j \in 1..i-1 : /\ t[j].what \in Captured /\ Type(t, i) # <<>>
                             /\ Type(t, j) \o t[j].names = Type(t, i)}
    IN  [qname  |-> Type(t, i) \o t[i].names,
         parent |-> IF S = {} THEN None ELSE Of(t, CHOOSE j \in S : \A h \in S : h <= j), kind |-> kind]

GoSymbol(t, i)   == OfType(t, i, t[i].what)
RustSymbol(t, i) == OfType(t, i, IF Type(t, i) # <<>> THEN "method" ELSE t[i].what)

\* The processor of the language, given the symbols around the node.
Build(t, i, k, c) ==
    CASE lang = "py"   -> PythonSymbol(t, i, k, c) [] lang = "ts"  -> TypeScriptSymbol(t, i, k, c)
      [] lang = "go"   -> GoSymbol(t, i)           [] lang = "rs"  -> RustSymbol(t, i)
      [] lang = "java" -> JavaSymbol(t, i, k, c)   [] lang = "rb"  -> RubySymbol(t, i, k, c)
      [] lang = "php"  -> PhpSymbol(t, i, k, c)    [] OTHER        -> CSymbol(t, i, k, c)

\* extract: the symbols of every captured node, a const's once for each name.
Symbols(f) ==
    LET t == Text(f)
        S == UNION {{<<i, k>> : k \in DOMAIN t[i].names} :
                       i \in {i \in DOMAIN t : t[i].what \in Captured}}
        row(s, y) == [file |-> f, node |-> s, line |-> Line(t, s[1]),
                      qname |-> y.qname, parent |-> y.parent, kind |-> y.kind]
    IN  {row(s, Build(t, s[1], s[2], Chain(t, s[1]))) : s \in S}

\* Of texts, a prefix comes first.
Less(p, q) ==
    \/ Len(p) < Len(q) /\ SubSeq(q, 1, Len(p)) = p
    \/ \E n \in DOMAIN p \cap DOMAIN q : SubSeq(p, 1, n-1) = SubSeq(q, 1, n-1) /\ p[n] < q[n]

\* As Sorted, but by line and bare name.
SortedByName(s, r) ==
    LET key(y) == <<y.line, Last(y.qname), y.node[1], y.node[2]>> IN Less(key(s), key(r))

\* The order symbols are inserted in: by line and qualified name, else as they came.
Sorted(s, r) ==
    \/ s.line < r.line
    \/ s.line = r.line /\ Less(s.qname, r.qname)
    \/ s.line = r.line /\ s.qname = r.qname /\ Less(s.node, r.node)

\* UNIQUE (file_memory_id, qualified_name, kind, line_start): two symbols that
\* agree on these make the whole file fail.
Clash(S) == \E s, r \in S : s # r /\ s.qname = r.qname /\ s.kind = r.kind /\ s.line = r.line

Insert(S) == IF Clash(S) THEN {} ELSE S

\* The rows of each file.
Stored == [f \in FileNo |-> Insert(Symbols(f))]

\* per_file_symbols: of equal qualified names the last row's.
Def(D, f, q) ==
    LET S == {s \in D[f] : s.qname = q}
    IN  IF S = {} THEN None ELSE CHOOSE s \in S : \A r \in S \ {s} : Sorted(r, s)

-----------------------------------------------------------------------------
(* Relations *)

\* The name a call is recorded with: what is written, None if a part of that has no
\* stable name, or only the last part.  In Python self is a name like any other.
Has(w, x)         == \E k \in DOMAIN w : w[k] = x
Nameless(w)       == Has(w, Opaque) \/ Has(w, Self)
PythonCall(w)     == IF Has(w, Opaque) THEN None ELSE w
TypeScriptCall(w) == IF Nameless(w) THEN None ELSE w
GoCall(w)         == IF Nameless(w) THEN None ELSE w
RustCall(w)       == IF Nameless(w) THEN None ELSE w
JavaCall(w)       == IF Nameless(w) THEN <<Last(w)>> ELSE w
RubyCall(w)       == IF Nameless(w) THEN <<Last(w)>> ELSE w
PhpCall(w)        == w
CCall(w)          == IF Nameless(w) THEN None ELSE w

Target(w) ==
    CASE lang = "py"   -> PythonCall(w) [] lang = "ts" -> TypeScriptCall(w)
      [] lang = "go"   -> GoCall(w)     [] lang = "rs" -> RustCall(w)
      [] lang = "java" -> JavaCall(w)   [] lang = "rb" -> RubyCall(w)
      [] lang = "php"  -> PhpCall(w)    [] OTHER       -> CCall(w)

\* The qualified name of the last of the symbols c around it.
SourceQname(t, c) ==
    IF c = <<>> THEN <<>> ELSE Build(t, Last(c), Len(t[Last(c)].names), Front(c)).qname

Directory(f) == Front(Path(f))
\* A path without its extension, and without the name that stands for a directory.
Module(f) == IF Last(Path(f)) = Index THEN Front(Path(f)) ELSE Path(f)

\* The definition of q in a file whose module is p: a file without rows has none.
InModule(D, p, q) ==
    LET F == {f \in FileNo : Module(f) = p}
    IN  IF F = {} THEN None ELSE Def(D, CHOOSE f \in F : TRUE, q)

\* Each resolver: the symbol of the stored ones, D, that a word in file 1 stands for,
\* or None.  source is the qualified name of the symbol it stands in.
ResolvePython(D, what, w, source) ==
    IF w[1] = Dot THEN None
    ELSE IF what = "import" THEN (IF Len(w) = 1 THEN None ELSE InModule(D, Front(w), <<Last(w)>>))
    ELSE IF w[1] = Self THEN (IF Len(source) < 2 THEN None ELSE Def(D, 1, Front(source) \o Tail(w)))
    ELSE Def(D, 1, w)

SameFile(D, w, colons) == IF colons THEN None ELSE Def(D, 1, w)

\* "./m.x" and "../m.x": the directory and the specifier are joined, and ".." stays in.
ResolveTypeScript(D, what, w) ==
    IF SameFile(D, w, FALSE) # None \/ what = "call" \/ Len(w) < 3 \/ w[1] \notin {Dot, DotDot}
    THEN SameFile(D, w, FALSE)
    ELSE InModule(D, Directory(1) \o (IF w[1] = Dot THEN <<w[2]>> ELSE <<DotDot, w[2]>>), <<Last(w)>>)

\* What the other files of the directory have.
Siblings(D, w) == {Def(D, f, w) : f \in {f \in FileNo \ {1} : Directory(f) = Directory(1)}} \ {None}

\* As ResolvePackage, the siblings first.
ResolvePackageFar(D, what, w) ==
    IF what = "call" /\ Siblings(D, w) # {} THEN CHOOSE s \in Siblings(D, w) : TRUE
    ELSE SameFile(D, w, FALSE)

\* Go and Java: calls also reach the other files of the directory.
ResolvePackage(D, what, w) ==
    IF SameFile(D, w, FALSE) # None \/ what = "import" \/ Siblings(D, w) = {}
    THEN SameFile(D, w, FALSE)
    ELSE CHOOSE s \in Siblings(D, w) : TRUE

\* Rust: with "::" read as "." in the same file, else the last part in the module
\* the others name.
ResolveRust(D, what, w, colons) ==
    IF Def(D, 1, w) # None \/ ~colons \/ what = "import" THEN Def(D, 1, w)
    ELSE InModule(D, Directory(1) \o Front(w), <<Last(w)>>)

\* What a node is recorded with, a call's name or an import's path.
Written(n) == IF n.what = "call" THEN Target(n.word) ELSE n.word

Resolve(D, n, w, source) ==
    CASE lang = "py" -> ResolvePython(D, n.what, w, source)
      [] lang = "ts" -> ResolveTypeScript(D, n.what, w)
      [] lang \in {"go", "java"} -> ResolvePackage(D, n.what, w)
      [] lang = "rs" -> ResolveRust(D, n.what, w, n.colons)
      [] OTHER -> SameFile(D, w, n.colons)

\* code_relations of file 1: a call needs a symbol around it and a stable name; an
\* import outside of any symbol has the <module> anchor, <<>>, for its source.
Recorded(n, w, source) ==
    IF n.what = "call" THEN source # <<>> /\ w # None ELSE n.what = "import"

RelationsOf(D, source) ==
    LET row(i, w, q) == [node |-> i, source |-> IF q = <<>> THEN None ELSE Def(D, 1, q),
                         target |-> Resolve(D, text[i], w, q)]
    IN  {row(i, Written(text[i]), source[i]) :
           i \in {i \in DOMAIN text : Recorded(text[i], Written(text[i]), source[i])}}

Relations ==
    IF Clash(Symbols(1)) THEN {}
    ELSE RelationsOf(Stored, [i \in DOMAIN text |-> SourceQname(text, Chain(text, i))])

-----------------------------------------------------------------------------
(* Texts *)

\* What a call may be written with.
Called == {<<n>> : n \in Name} \cup
          (Name \cup {Opaque} \cup (IF lang = "go" THEN {} ELSE {Self})) \X Name

\* What an import is recorded with: the module and the name taken from it (Python,
\* TypeScript), the whole path (Rust, Java, PHP), or one string (Go, Ruby, C).
PythonImports     == {<<Dot, 2>>, <<2>>, <<2, 1>>, <<Src, 2, 1>>}
TypeScriptImports == {<<2>>, <<2, 1>>, <<Dot, 2, 1>>, <<DotDot, 2, 1>>}
GoImports         == {<<n>> : n \in Name}
RustImports       == {<<2, n>> : n \in Name}
JavaImports       == {<<2, n>> : n \in Name}
RubyImports       == {<<n>> : n \in Name}
PhpImports        == {<<2, n>> : n \in Name}
CImports          == {<<n>> : n \in Name}

Imported ==
    CASE lang = "py"   -> PythonImports [] lang = "ts" -> TypeScriptImports
      [] lang = "go"   -> GoImports     [] lang = "rs" -> RustImports
      [] lang = "java" -> JavaImports   [] lang = "rb" -> RubyImports
      [] lang = "php"  -> PhpImports    [] OTHER       -> CImports

\* The words a node may have; a method's is its receiver.
Words(w) ==
    CASE w = "call"   -> Called
      [] w = "import" -> Imported
      [] w = "method" /\ lang = "go" -> {<<n>> : n \in Name}
      [] OTHER -> {<<>>}

\* Whether something else than a dot joins its parts: "::", or "\" in PHP's imports.
\* A variable of PHP is no name.
Joined(w, word) ==
    IF Len(word) < 2 \/ word[1] \notin Name THEN {FALSE}
    ELSE IF lang = "php" \/ (lang = "rs" /\ w = "import") THEN {TRUE}
    ELSE IF lang \in {"rs", "c"} THEN BOOLEAN ELSE {FALSE}

Kinds == Captured \cup {"call", "import"} \cup (IF lang = "rs" THEN {"impl"} ELSE {})

\* What a node declares.
Declares(w) == IF w \in {"call", "import"} THEN {<<>>}
               ELSE {<<n>> : n \in Name} \cup (IF w = "const" THEN {<<1, 2>>} ELSE {})

Init ==
    /\ lang \in Lang /\ text = <<>> /\ other \in Library[lang]

\* The next node of the text, inside the last one, beside it or further out.
Write(up, w, names, word, colons, fresh) ==
    /\ Len(text) < MaxNodes
    /\ (IF up = 0 THEN "file" ELSE text[up].what) \in Inside(w)
    /\ text' = Append(text, [up |-> up, what |-> w, names |-> names, word |-> word,
                              colons |-> colons, fresh |-> fresh])
    /\ UNCHANGED <<lang, other>>

\* Whether a declaration may start a line: in Python it always does.
NewLine(names) == IF names = <<>> \/ text = <<>> THEN {FALSE}
                  ELSE IF lang = "py" THEN {TRUE} ELSE BOOLEAN

\* The nodes that are not closed yet.
Open == IF text = <<>> THEN {0} ELSE {0, Len(text)} \cup ToSet(Around(text, Len(text), Kinds))

Next ==
    \E up \in Open, w \in Kinds : \E names \in Declares(w), word \in Words(w) :
       \E colons \in Joined(w, word), fresh \in NewLine(names) :
          Write(up, w, names, word, colons, fresh)

Spec == Init /\ [][Next]_codeVars
-----------------------------------------------------------------------------
(* Properties *)

\* _insert_symbols (__init__.py:250-253) relies on the order of extract(), for parent_id
\* is an immediate foreign key: the row of a symbol's parent is inserted before its own,
\* also when both start on one line, and the parent's qualified name is the symbol's
\* without its last part.
ParentsGoFirst ==
    \A f \in FileNo : \A s \in Stored[f] : s.parent # None =>
        \E r \in Stored[f] : r.node = s.parent /\ Sorted(r, s) /\ r.qname = Front(s.qname)

\* The resolvers: what a call or an import resolves to has the name that is written there.
\* If the file defines that name it is the file's own (for self, the caller's class's);
\* only otherwise is it that of another one: for a call in Go and Java one in the same
\* directory, for the rest the module the word names.
ResolvedAsWritten ==
    \A r \in Relations : r.target # None =>
        LET n == text[r.node]
            w == Written(n)
            f == r.target.file
            own == \E s \in Stored[1] : s.qname = w
        IN  /\ Last(r.target.qname) = Last(w)
            /\ \/ f = 1 /\ r.target.qname = w
               \/ w[1] = Self /\ f = 1 /\ Front(r.target.qname) = Front(r.source.qname)
               \/ /\ lang \in {"go", "java"} /\ n.what = "call" /\ ~own
                  /\ r.target.qname = w /\ Directory(f) = Directory(1)
               \/ lang = "py" /\ n.what = "import" /\ Module(f) = Front(w)
               \/ /\ lang \in {"rs", "ts"} /\ n.what = (IF lang = "rs" THEN "call" ELSE "import")
                  /\ ~own /\ Module(f) = Append(Directory(1), w[Len(w) - 1])

-----------------------------------------------------------------------------
(* What one would expect, and the code does not keep *)

\* Every text gives rows: not one with two functions of one name in one line, or a
\* getter and a setter there.
EveryTextIsStored == ~Clash(Symbols(1))

\* _extract.py:461-465: a call's source is the symbol it stands in: not when another has the
\* same qualified name, or the const declares two names.
CallersAreAround ==
    \A r \in Relations : r.source # None => r.source.node = <<Last(Chain(text, r.node)), 1>>

\* An import does not resolve to a symbol of the importing file itself.
ImportsLeaveTheFile ==
    \A r \in Relations : text[r.node].what = "import" /\ r.target # None => r.target.file # 1

\* _resolve.py:674-676 accepts "../": an import from there resolves like one from "./".
ParentImportsResolve ==
    \A r \in Relations :
        LET w == text[r.node].word IN
        (lang = "ts" /\ Len(w) = 3 /\ w[1] = DotDot /\ other.path = <<w[2]>> /\ Def(Stored, 2, <<w[3]>>) # None)
            => r.target # None
=============================================================================
