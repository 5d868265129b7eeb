-------------------------- MODULE MCContractRelease --------------------------
(* Two releases that share a document and have one of their own each, one    *)
(* at a dirty checkout, and manifests that each program refuses.             *)
EXTENDS ContractRelease

MCApiPaths == {"a", "b", "c"}
MCPaths == MCApiPaths \cup {"readme"}

MCEntry(path, sha) == [path |-> path, sha |-> sha, role |-> "PUBLIC_CONTRACT"]
Manifest(known, src, entries) == [known |-> known, source |-> src, entries |-> entries]
Tree(a, b, c) == [p \in MCPaths |-> CASE p = "a" -> a [] p = "b" -> b [] p = "c" -> c [] OTHER -> 1]
Checkout(commit, m, tree) == [commit |-> commit, manifest |-> m, tree |-> tree]

First == Manifest(TRUE, TRUE, <<MCEntry("a", 1), MCEntry("readme", 1), MCEntry("b", 1)>>)
Second == Manifest(TRUE, TRUE, <<MCEntry("a", 1), MCEntry("c", 2)>>)
Unapproved == Manifest(TRUE, FALSE, <<MCEntry("a", 2), MCEntry("b", 1)>>)
Twice == Manifest(TRUE, TRUE, <<MCEntry("a", 2), MCEntry("a", 2)>>)
Short == Manifest(TRUE, TRUE, <<MCEntry("b", 2)>>)
Unknown == Manifest(FALSE, TRUE, <<MCEntry("a", 1), MCEntry("b", 1)>>)

MCCheckouts ==
  {Checkout("c1", First, Tree(1, 1, 1)),
   Checkout("c2", Second, Tree(1, 1, 2)),
   Checkout("c2", Second, Tree(1, 1, 1)),
   Checkout("c3", Unapproved, Tree(2, 1, 1)),
   Checkout("c3", Twice, Tree(2, 1, 1)),
   Checkout("c3", Short, Tree(1, 2, 1)),
   Checkout("c3", Unknown, Tree(1, 1, 1))}

\* models.py carries the release digest, client.py only its operations.
MCGenerated(m, o) == IF o = "models" THEN m ELSE m.entries[1].sha
=============================================================================
