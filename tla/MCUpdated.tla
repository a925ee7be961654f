----------------------------- MODULE MCUpdated -----------------------------
EXTENDS Updated, TLC

CONSTANTS m0, m1, f, g, f2, h, b1, b2, b3, i1

\* Everything leaves the branch at m0; m1 is f rewritten as it landed, and f2 is f
\* rebased onto g, which has not landed.
MCParents == [c \in Commits |-> IF c = m0 THEN {} ELSE IF c = f2 THEN {g} ELSE {m0}]
MCChangeIdOf == [c \in Commits |-> IF c \in {m1, f, f2} THEN i1 ELSE NoChangeId]
MCPublishedOn == "main" :> {m0, m1} @@ "topic" :> {f}
MCForwardOnly == "main" :> {m1} @@ "topic" :> {f2}
MCKernelOf == [r \in Revisions |-> IF r \in {m0, h, Dirty} THEN "k0" ELSE "k1"]
Symmetry == Permutations(BootIds)

\* TLC evaluates a definition once, but what replaces a constant each time it meets
\* the constant: the cfg names these, which only name a definition.
MCParentsOnce == MCParents
MCChangeIdOfOnce == MCChangeIdOf
MCPublishedOnOnce == MCPublishedOn
MCKernelOfOnce == MCKernelOf
MCForwardOnlyOnce == MCForwardOnly
=============================================================================
