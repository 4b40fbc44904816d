--------------------------- MODULE MCSharedGroup ---------------------------
(* Model checking of SharedGroup: two threads of a share group.             *)
EXTENDS SharedGroup, TLC

CONSTANTS t1, t2, s1, p1, p2

MCThreads == {t1, t2}
MCShaders == {s1}
MCPrograms == {p1, p2}
MCSamplers == {"tex"}

Uni(name, base, size, stride) ==
    [name |-> name, base |-> base, size |-> size, stride |-> stride]

\* A host that numbers uniforms consecutively, and one that places them 2^16
\* apart, not in the order of the active uniforms and with an array whose
\* elements are two apart.
Packed == <<Uni("tex", 1, 1, 1), Uni("a", 2, 1, 1)>>
Shifted == <<Uni("tex", 65536, 1, 1), Uni("a", 0, 2, 2)>>
MCLayouts == {Packed, Shifted}

Symmetry == Permutations(MCThreads) \cup Permutations(MCPrograms)
=============================================================================
