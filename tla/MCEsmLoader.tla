---------------------------- MODULE MCEsmLoader ----------------------------
(* Instances of EsmLoader for TLC. *)
EXTENDS EsmLoader, TLC

CONSTANTS a, b, c, d

Kinds(K, r) == {k \in [Module -> Kind] : \A m \in Module :
                          /\ m \notin K => k[m] = "sync"
                          /\ k[m] = "commonjs" => r[m] = <<>>}

\* Every graph of a, b and c, up to their names: of two modules, the one that is
\* not asynchronous or not an ES module comes first.
Rank(k) == CASE k = "commonjs" -> 1 [] k = "sync" -> 2 [] k = "tla" -> 3
Small == {a, b, c}
Lists == {<<>>} \cup {<<x>> : x \in Small} \cup {s \in Small \X Small : s[1] # s[2]}
Graphs ==
  LET Requests == {r \in [Module -> Lists] : r[d] = <<>> /\ \A m \in Small :
                     \A i \in DOMAIN r[m] : r[m][i] # m}
  IN  UNION {{[requested |-> r, kind |-> k, entries |-> Small] :
                k \in {e \in Kinds(Small, r) :
                         Rank(e[a]) <= Rank(e[b]) /\ Rank(e[b]) <= Rank(e[c])}} : r \in Requests}

\* Four modules: a diamond, two importers of d of which one also imports what
\* may throw, a module behind two awaits, an importer of a cycle that awaits, a
\* cycle of two modules that each wait for one outside it.
Shape(ra, rb, rc, rd) == (a :> ra) @@ (b :> rb) @@ (c :> rc) @@ (d :> rd)
Shapes == {Shape(<<b, c>>, <<d>>, <<d>>, <<>>), Shape(<<d, c>>, <<d>>, <<>>, <<>>),
           Shape(<<b, c>>, <<a, d>>, <<>>, <<>>),
           Shape(<<b>>, <<c>>, <<d>>, <<>>), Shape(<<b>>, <<c>>, <<b, d>>, <<>>)}
MCPrograms ==
  Graphs \cup UNION {{[requested |-> r, kind |-> k, entries |-> {a, b}] : k \in Kinds(Module, r)}
                      : r \in Shapes}
=============================================================================
