---------------------------- MODULE MCResolver -----------------------------
(* Three small projects.  In Kotlin: a class Sub of sub that extends Base of *)
(* base and uses its method run; and another class Sub, of other, that     *)
(* extends Other.  In TypeScript: app imports f from index, which passes   *)
(* on f, or h under that name, of util, and its class Box; decoy has an f  *)
(* of its own.  In Go: calls on what a factory or a variable returns.      *)
EXTENDS Resolver

CONSTANTS Base, BaseRun, Sub, Make, Go, Sub2, Other, OtherRun, UtilF, UtilH, Box, Open, Main, DecoyF,
          Engine, Run, New, Use, GoMain,
          extends, chain, this, missing, extends2, f1, f2, value, static, instance, made, bare, fuzzy,
          base, sub, other, util, index, app, decoy, gin

D(kind, name, owner, file, lang, exported, returns, line) ==
    [kind |-> kind, name |-> name, owner |-> owner, file |-> file, lang |-> lang,
     exported |-> exported, returns |-> returns, line |-> line]
Declarations ==
       Base :> D("class", "Base", None, base, "kotlin", TRUE, None, 1)
    @@ BaseRun :> D("method", "run", Base, base, "kotlin", FALSE, None, 2)
    @@ Sub :> D("class", "Sub", None, sub, "kotlin", TRUE, None, 1)
    @@ Make :> D("method", "make", Sub, sub, "kotlin", FALSE, "Sub", 2)
    @@ Go :> D("method", "go", Sub, sub, "kotlin", FALSE, None, 3)
    @@ Sub2 :> D("class", "Sub", None, other, "kotlin", TRUE, None, 1)
    @@ Other :> D("class", "Other", None, other, "kotlin", TRUE, None, 2)
    @@ OtherRun :> D("method", "run", Other, other, "kotlin", FALSE, None, 3)
    @@ UtilF :> D("function", "f", None, util, "typescript", TRUE, None, 1)
    @@ UtilH :> D("function", "h", None, util, "typescript", TRUE, None, 2)
    @@ Box :> D("class", "Box", None, util, "typescript", TRUE, None, 3)
    @@ Open :> D("method", "open", Box, util, "typescript", FALSE, None, 4)
    @@ Main :> D("function", "main", None, app, "typescript", FALSE, None, 1)
    @@ DecoyF :> D("function", "f", None, decoy, "typescript", TRUE, None, 1)
    @@ Engine :> D("struct", "Engine", None, gin, "go", TRUE, None, 1)
    @@ Run :> D("method", "run", Engine, gin, "go", FALSE, None, 2)
    @@ New :> D("function", "New", None, gin, "go", TRUE, "Engine", 3)
    @@ Use :> D("function", "Use", None, gin, "go", TRUE, None, 4)
    @@ GoMain :> D("function", "main", None, gin, "go", FALSE, None, 5)

R(from, kind, form, recv, name, line) ==
    [from |-> from, kind |-> kind, form |-> form, recv |-> recv, name |-> name, line |-> line]
References ==
       extends :> R(Sub, "extends", "plain", None, "Base", 1)
    @@ chain :> R(Go, "calls", "chain", [cls |-> "Sub", fn |-> "make"], "run", 4)
    @@ this :> R(Go, "function_ref", "this", None, "run", 5)
    @@ missing :> R(Go, "calls", "plain", None, "println", 6)
    @@ extends2 :> R(Sub2, "extends", "plain", None, "Other", 1)
    @@ f1 :> R(Main, "calls", "plain", None, "f", 2)
    @@ f2 :> R(Main, "calls", "plain", None, "f", 3)
    @@ value :> R(Main, "function_ref", "plain", None, "f", 4)
    @@ static :> R(Main, "calls", "member", "Box", "open", 5)
    @@ instance :> R(Main, "calls", "member", "box", "open", 6)
    @@ made :> R(GoMain, "calls", "chain", [cls |-> None, fn |-> "New"], "run", 6)
    @@ bare :> R(GoMain, "calls", "chain", [cls |-> None, fn |-> "engine"], "Use", 7)
    @@ fuzzy :> R(GoMain, "calls", "plain", None, "use", 8)

V(nodes, refs, imports, reExports) ==
    [nodes |-> nodes, refs |-> refs, text |-> [imports |-> imports, reExports |-> reExports]]
Import(local, source, exported) ==
    [local |-> local, source |-> source, exported |-> exported, namespace |-> FALSE]
All(source) == [kind |-> "wildcard", source |-> source, exported |-> None, original |-> None]
As(source, original, exported) == [kind |-> "named", source |-> source, exported |-> exported, original |-> original]
Contents ==
       "base" :> V({Base, BaseRun}, <<>>, {}, <<>>)
    @@ "sub" :> V({Sub, Make, Go}, <<missing, this, chain, extends>>, {}, <<>>)
    @@ "sub2" :> V({Sub, Make, Go}, <<extends, chain, this>>, {}, <<>>)
    @@ "other" :> V({Sub2, Other, OtherRun}, <<extends2>>, {}, <<>>)
    @@ "f and h" :> V({UtilF, UtilH, Box, Open}, <<>>, {}, <<>>)
    @@ "h" :> V({UtilH}, <<>>, {}, <<>>)
    @@ "all" :> V({}, <<>>, {}, <<All(util)>>)
    @@ "h as f" :> V({}, <<>>, {}, <<As(util, "h", "f"), As(util, "Box", "Box"), All(decoy)>>)
    @@ "app" :> V({Main}, <<instance, f1, f2, value, static>>, {Import("f", index, "f"), Import("Box", index, "Box")}, <<>>)
    @@ "decoy" :> V({DecoyF}, <<>>, {}, <<>>)
    @@ "gin" :> V({Engine, Run, New, Use, GoMain}, <<made, bare, fuzzy>>, {}, <<>>)
Nowhere == [f \in File |-> None]
With(f, C, S) == {[d EXCEPT ![f] = c] : d \in S, c \in C}
Projects == With(base, {None, "base"}, With(sub, {"sub", "sub2"}, With(other, {None, "other"}, {Nowhere})))
      \cup With(util, {"f and h", "h"}, With(index, {"all", "h as f"}, With(app, {"app"}, With(decoy, {"decoy"}, {Nowhere}))))
      \cup With(gin, {"gin"}, {Nowhere})

Place(order) == [n \in ToSet(order) |-> CHOOSE i \in DOMAIN order : order[i] = n]
AnOrder == <<BaseRun, OtherRun, Base, Sub, Make, Go, Sub2, Other, UtilF, UtilH, Box, Open, Main, DecoyF, Engine, Run, New, Use, GoMain>>
RowOrders == {Place(AnOrder), Place(Reverse(AnOrder))}
Scans == {<<base, sub, other, util, index, app, decoy, gin>>, <<gin, app, other, sub, index, base, decoy, util>>}

(* Named twice, since TLC evaluates once a definition of a constant, but   *)
(* again at every use what a configuration puts for one.                   *)
MCDecl == Declarations
MCRef == References
MCContent == Contents
MCDisks == Projects
MCOrders == RowOrders
MCScanOrders == Scans

MCFamily == "kotlin" :> "jvm" @@ "typescript" :> "web"
Lowered(n) == IF n = "Use" THEN "use" ELSE n
Capitalised(n) == IF n = "box" THEN "Box" ELSE n
NoneShared(f, g) == 0
NoWords(r, n) == 0
=============================================================================
