----------------------------- MODULE NameMatch -----------------------------
(***************************************************************************)
(* What a reference may be resolved to (codegraph/src/resolution:          *)
(* name-matcher.ts, import-resolver.ts and the strategies of index.ts).    *)
(* The lookups have no ORDER BY, and the first row with some quality wins: *)
(* an operator gives the SET of declarations the code may answer, the one  *)
(* it takes being up to the order of rows.  Every name is a value: the     *)
(* shapes the code finds with regular expressions are the form of a        *)
(* reference, the lexical kinship of names a constant operator.            *)
(***************************************************************************)
EXTENDS Integers, FiniteSets, FiniteSetsExt, SequencesExt

CONSTANTS Site, File, None,
          Decl,         \* [name, kind, owner, file, lang, exported, returns, line] of every node
          Ref,          \* [from, kind, form, recv, name, line] of a site; the form is plain
                        \* (f), member (recv.f), chain (recv().f) or this (this.f)
          Family,       \* the family of the languages that have one
          SharedDirs(_, _),      \* how many leading directories two paths share
          SharedWords(_, _),     \* how many words a receiver shares with a qualified name
          Lower(_), Capital(_)   \* a name in lower case; with a capital letter

Named(known, nm) == {n \in known : Decl[n].name = nm}
Callable == {"function", "method"}
ClassLike == {"class", "struct", "interface"}
SuperBearing == ClassLike \cup {"trait", "protocol", "enum"}
OwnerName(n) == IF Decl[n].owner = None THEN None ELSE Decl[Decl[n].owner].name
FileOf(s) == Decl[Ref[s].from].file
Lang(s) == Decl[Ref[s].from].lang
-----------------------------------------------------------------------------
(* The language gate.                                                      *)

sameLanguageFamily(a, b) ==
    a = b \/ (a \in DOMAIN Family /\ b \in DOMAIN Family /\ Family[a] = Family[b])
crossesKnownFamily(a, b) ==
    {a, b} \subseteq DOMAIN Family /\ ~sameLanguageFamily(a, b)

Gate(s, C) ==
    CASE Ref[s].kind \in {"references", "function_ref"} -> {n \in C : sameLanguageFamily(Decl[n].lang, Lang(s))}
      [] Ref[s].kind = "imports" -> {n \in C : ~crossesKnownFamily(Decl[n].lang, Lang(s))}
      [] OTHER -> C

SameLanguage(s, C) == {n \in C : Decl[n].lang = Lang(s)}
Preferred(s, C) == IF SameLanguage(s, C) # {} THEN SameLanguage(s, C) ELSE C
Unique(C) == IF Cardinality(C) = 1 THEN C ELSE {}
First(C) == {n \in C : \A m \in C : Decl[n].line <= Decl[m].line}
-----------------------------------------------------------------------------
(* Exact and fuzzy names.  Scores are ten times those of findBestMatch,    *)
(* whose last term is a tenth of a distance in lines.                      *)

Distance(s, n) == LET d == Ref[s].line - Decl[n].line IN IF d < 0 THEN -d ELSE d
Proximity(s, n) == Min({15 * SharedDirs(FileOf(s), Decl[n].file), 80})
KindBonus(s, n) ==
    CASE Ref[s].kind \in {"calls", "decorates"} /\ Decl[n].kind \in Callable -> 25
      [] Ref[s].kind = "instantiates" /\ Decl[n].kind \in ClassLike -> 25
      [] Ref[s].kind = "decorates" /\ Decl[n].kind \in {"class", "interface"} -> 15
      [] OTHER -> 0
Score(s, n) ==
    10 * (Proximity(s, n) + (IF Decl[n].lang = Lang(s) THEN 50 ELSE -80)
          + KindBonus(s, n) + (IF Decl[n].exported THEN 10 ELSE 0))
    + (IF Decl[n].file = FileOf(s) THEN 1000 + Max({0, 200 - Distance(s, n)}) ELSE 0)

findBestMatch(s, C) ==
    {n \in C : Score(s, n) > -10 /\ \A m \in C : Score(s, m) <= Score(s, n)}

matchByExactName(s, nm, known) ==
    LET C == Gate(s, Named(known, nm)) IN IF Cardinality(C) <= 1 THEN C ELSE findBestMatch(s, C)

matchFuzzy(s, nm, known) ==
    LET C == {n \in known : Decl[n].kind \in Callable \cup {"class"} /\ Lower(Decl[n].name) = Lower(nm)} IN
    Unique(Preferred(s, Gate(s, C)))

ExactOrFuzzy(s, nm, known) ==
    LET E == matchByExactName(s, nm, known) IN IF E # {} THEN E ELSE matchFuzzy(s, nm, known)
-----------------------------------------------------------------------------
(* recv.f: a class of that name, one the receiver is an instance of by its *)
(* name, the only method f, or the one whose class has most of the words.  *)

Receivers(s, nm, known) == {c \in SameLanguage(s, Named(known, nm)) : Decl[c].kind \in ClassLike}
MethodsIn(C, nm, known) ==
    {m \in Named(known, nm) : Decl[m].kind = "method" /\ \E c \in C : Decl[c].file = Decl[m].file /\ OwnerName(m) = Decl[c].name}

Overlap(s, m) == SharedWords(Ref[s].recv, m) + (IF Decl[m].lang = Lang(s) THEN 1 ELSE 0)
MethodByName(s, known) ==
    LET T == Preferred(s, {m \in Named(known, Ref[s].name) : Decl[m].kind = "method"}) IN
    IF Cardinality(T) = 1 THEN SameLanguage(s, T)
    ELSE {m \in T : Overlap(s, m) >= 2 /\ \A o \in T : Overlap(s, o) <= Overlap(s, m)}

matchMethodCall(s, known) ==
    LET direct == MethodsIn(Receivers(s, Ref[s].recv, known), Ref[s].name, known)
        byCapital == MethodsIn(Receivers(s, Capital(Ref[s].recv), known), Ref[s].name, known) IN
    IF direct # {} THEN direct ELSE IF byCapital # {} THEN byCapital ELSE MethodByName(s, known)
-----------------------------------------------------------------------------
(* A function as a value: exact, in the same file or unique.               *)

BareFnOnly == {"typescript", "tsx", "javascript", "jsx", "cpp", "python", "php"}

matchFunctionRef(s, known) ==
    LET C == {n \in Gate(s, Named(known, Ref[s].name)) :
                 /\ Decl[n].kind = "function" \/ (Decl[n].kind = "method" /\ Lang(s) \notin BareFnOnly)
                 /\ n # Ref[s].from}
        here == {n \in C : Decl[n].file = FileOf(s)} IN
    IF here # {} THEN First(here) ELSE Unique(C)
-----------------------------------------------------------------------------
(* A method of a type, or of a supertype at most four levels above: up is  *)
(* the set of <<name, name of a supertype>> the edges give.                *)

DirectMethods(s, type, known) ==
    {m \in SameLanguage(s, Named(known, Ref[s].name)) : Decl[m].kind = "method" /\ OwnerName(m) = type}

resolveMethodOnType(s, type, known, up) ==
    LET Upwards(t) == IF DirectMethods(s, t, known) = {} THEN {p[2] : p \in {q \in up : q[1] = t}} ELSE {}
        Types[d \in 0..4] == IF d = 0 THEN {type} ELSE UNION {{t} \cup Upwards(t) : t \in Types[d-1]} IN
    UNION {DirectMethods(s, t, known) : t \in Types[4]}

(* getSupertypes: of all types of that name in the language.               *)
Supertypes(known, above, lang) ==
    {<<Decl[p[1]].name, Decl[p[2]].name>> : p \in
        {q \in above : /\ Decl[q[1]].lang = lang /\ Decl[q[1]].kind \in SuperBearing
                       /\ Decl[q[1]].name # Decl[q[2]].name}}

(* recv().f, where recv is [cls, fn] of a factory cls.fn, or fn alone.     *)
lookupCalleeReturnType(s, recv, known) ==
    {Decl[n].returns : n \in {m \in SameLanguage(s, Named(known, recv.fn)) :
        /\ Decl[m].returns # None
        /\ IF recv.cls = None THEN Decl[m].kind = "function"
           ELSE Decl[m].kind \in Callable /\ OwnerName(m) = recv.cls}}

ConstructsViaBareCall == {"kotlin", "swift", "scala", "dart", "pascal"}
ReturnsItsClass == {"objc", "pascal"}

matchDottedCallChain(s, known, above) ==
    LET recv == Ref[s].recv
        returns == lookupCalleeReturnType(s, recv, known)
        On(type) == resolveMethodOnType(s, type, known, Supertypes(known, above, Lang(s))) IN
    CASE recv.cls = None /\ Lang(s) \in ConstructsViaBareCall /\ Capital(recv.fn) = recv.fn -> On(recv.fn)
      [] (recv.cls # None \/ Lang(s) = "go") /\ returns # {} -> UNION {On(type) : type \in returns}
      [] recv.cls = None /\ Lang(s) = "go" /\ returns = {} -> ExactOrFuzzy(s, Ref[s].name, known)
      [] recv.cls # None /\ returns = {} /\ Lang(s) \in ReturnsItsClass -> On(recv.cls)
      [] OTHER -> {}

matchReference(s, known, above) ==
    CASE Ref[s].form = "member" -> matchMethodCall(s, known)
      [] Ref[s].form = "chain" -> matchDottedCallChain(s, known, above)
      [] OTHER -> ExactOrFuzzy(s, Ref[s].name, known)
-----------------------------------------------------------------------------
(* this.f: a member of the class around the reference, in its file.        *)

ClassOf(s) == LET n == Ref[s].from IN IF Decl[n].kind \in SuperBearing THEN n ELSE Decl[n].owner

resolveThisMemberFnRef(s, known) ==
    IF ClassOf(s) = None THEN {}
    ELSE First({n \in Named(known, Ref[s].name) :
                   /\ Decl[n].kind \in Callable /\ Decl[n].file = FileOf(s) /\ n # Ref[s].from
                   /\ OwnerName(n) = Decl[ClassOf(s)].name})

(* Later: level by level up the edges from the nodes of that class.        *)
MembersNamed(s, T, known) ==
    {m \in Gate(s, Named(known, Ref[s].name)) : Decl[m].kind \in Callable /\ Decl[m].owner \in T}

Climb(s, own, known, above) ==
    LET climb[below \in SUBSET DOMAIN Decl, seen \in SUBSET DOMAIN Decl, depth \in 0..5] ==
          LET next == {p[2] : p \in {q \in above : q[1] \in below}} \ seen
              types == {n \in next : Decl[n].kind \in SuperBearing} IN
          IF below = {} \/ depth = 5 THEN {}
          ELSE IF MembersNamed(s, types, known) # {} THEN MembersNamed(s, types, known)
          ELSE climb[types, seen \cup next, depth + 1]
    IN climb[own, own, 0]

(* Mutant: every class of that name is a start.                            *)
BugClassNodes(s, known) == {n \in Named(known, Decl[ClassOf(s)].name) : Decl[n].kind \in SuperBearing}

ClassNodes(s, known) ==
    LET T == {n \in Named(known, Decl[ClassOf(s)].name) : Decl[n].kind \in SuperBearing}
        here == {n \in T : Decl[n].file = FileOf(s)} IN
    IF here # {} THEN here ELSE {n \in T : sameLanguageFamily(Decl[n].lang, Lang(s))}

resolveInheritedMember(s, known, above) ==
    IF ClassOf(s) = None THEN {}
    ELSE Climb(s, ClassNodes(s, known), known, above)
-----------------------------------------------------------------------------
(* Imports: text gives the import and re-export statements of every file,  *)
(* their paths resolved.  findExportedSymbol visits a file once in a       *)
(* search, and answers what it finds with the files it has seen.           *)

Statements(text, f) == IF f \in DOMAIN text THEN text[f] ELSE [imports |-> {}, reExports |-> <<>>]

DeclaredAs(f, want, known) ==
    LET E == {n \in known : Decl[n].file = f /\ Decl[n].exported} IN
    IF want.name = "default"
    THEN LET C == {n \in E : Decl[n].kind = "component"} IN
         IF C # {} THEN C ELSE {n \in E : Decl[n].kind \in {"function", "class"}}
    ELSE Named(E, IF want.member = None THEN want.name ELSE want.member)

REEXPORT_MAX_DEPTH == 8

(* Mutant: a renamed re-export is looked up under its new name.            *)
BugAsked(r, want) == want

Asked(r, want) == IF r.kind = "wildcard" THEN want ELSE [name |-> r.original, member |-> None]

(* Where to look on: named re-exports of the name, then the wildcards.     *)
Forwards(text, f, want) ==
    LET all == Statements(text, f).reExports IN
    SelectSeq(all, LAMBDA r : r.kind = "named" /\ r.exported = want.name)
    \o SelectSeq(all, LAMBDA r : r.kind = "wildcard")

(* What a search may ask for: the name it began with, or the original one  *)
(* of a renamed re-export.                                                 *)
Wanted(text, want) ==
    {want} \cup UNION {{[name |-> r.original, member |-> None] : r \in ToSet(text[f].reExports)} : f \in DOMAIN text}

findExportedSymbol(f, want, known, text) ==
    LET find[g \in File, w \in Wanted(text, want), seen \in SUBSET File, depth \in 0..(REEXPORT_MAX_DEPTH + 1)] ==
          IF depth > REEXPORT_MAX_DEPTH \/ g \in seen THEN [found |-> {}, seen |-> seen]
          ELSE IF DeclaredAs(g, w, known) # {} THEN [found |-> DeclaredAs(g, w, known), seen |-> seen \cup {g}]
          ELSE FoldLeft(LAMBDA t, r :
                           IF t.found # {} \/ r.source = None THEN t
                           ELSE find[r.source, Asked(r, w), t.seen, depth + 1],
                        [found |-> {}, seen |-> seen \cup {g}], Forwards(text, g, w))
    IN find[f, want, {}, 0].found

(* Foo.bar of an imported class is its member.                             *)
resolveStaticMember(s, c, known) ==
    LET M == {m \in Named(known, Ref[s].name) : Decl[m].owner # None /\ Decl[m].file = Decl[c].file
                                                /\ Decl[c].kind \in SuperBearing /\ OwnerName(m) = Decl[c].name}
        called == {m \in M : Decl[m].kind \in Callable} IN
    IF M = {} THEN {c} ELSE IF Ref[s].kind = "calls" /\ called # {} THEN called ELSE M

ImportHead(s) == IF Ref[s].form = "member" THEN Ref[s].recv ELSE Ref[s].name
Matching(s, text) == {i \in Statements(text, FileOf(s)).imports : Ref[s].form \in {"plain", "member"} /\ i.local = ImportHead(s)}

resolveViaImport(s, known, text) ==
    UNION {LET want == [name |-> i.exported, member |-> IF i.namespace THEN Ref[s].name ELSE None]
               found == IF i.source = None THEN {}
                        ELSE findExportedSymbol(i.source, want, known, text) IN
           IF Ref[s].form = "member" /\ ~i.namespace THEN UNION {resolveStaticMember(s, c, known) : c \in found} ELSE found
             : i \in Matching(s, text)}
-----------------------------------------------------------------------------
(* The prefilter: names is the set of all names, or None.                  *)
hasAnyPossibleMatch(s, names) ==
    \/ names = None
    \/ Ref[s].name \in names
    \/ Ref[s].form = "member" /\ {Ref[s].recv, Capital(Ref[s].recv)} \cap names # {}
    \/ Ref[s].form = "chain" /\ Ref[s].recv.cls \in names
Sieved(s, names, text) == ~hasAnyPossibleMatch(s, names) /\ Matching(s, text) = {}

resolveOne(s, known, above, text, names) ==
    LET imported == Gate(s, resolveViaImport(s, known, text))
        named == Gate(s, matchReference(s, known, above)) IN
    IF Sieved(s, names, text) THEN {}
    ELSE IF Ref[s].kind # "function_ref" THEN IF imported # {} THEN imported ELSE named
    ELSE IF Ref[s].form = "this" THEN Gate(s, resolveThisMemberFnRef(s, known))
    ELSE IF \E n \in imported : Decl[n].kind \in Callable THEN {n \in imported : Decl[n].kind \in Callable}
    ELSE Gate(s, matchFunctionRef(s, known))
=============================================================================
