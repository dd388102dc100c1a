------------------------------- MODULE Lists -------------------------------
(***************************************************************************)
(* Lists as the detectors and the pipeline build them: appended in a loop, *)
(* an element at a time, or by a comprehension with a condition.           *)
(***************************************************************************)
EXTENDS Integers, Sequences, SequencesExt

\* One list after the other, f[1] to f[n].
Concat(f, n) == FlattenSeq([i \in 1..n |-> f[i]])

\* x, if it is appended at all.
Only(condition, x) == IF condition THEN << x >> ELSE << >>

\* The elements of s in the places K, in their order.
Kept(s, K) == FlattenSeq([i \in DOMAIN s |-> Only(i \in K, s[i])])
=============================================================================
