------------------------------- MODULE Lists -------------------------------
(***************************************************************************)
(* What several modules share: taking some elements of a list              *)
(* (the code's retain and filter), finding a place, and finding a name     *)
(* that is free.  A name is a sequence of words, so that "Proxy 2" is      *)
(* <<"Proxy", 2>>.                                                         *)
(***************************************************************************)
EXTENDS Integers, Sequences, FiniteSets, SequencesExt

\* The elements of s at these places, in their order.
Retained(s, places) ==
    LET f[n \in 0..Len(s)] ==
            IF n = 0 THEN <<>> ELSE IF n \in places THEN Append(f[n - 1], s[n]) ELSE f[n - 1]
    IN f[Len(s)]

\* The first of these places, or 0; and the first place of x.
FirstPlace(places) == IF places = {} THEN 0 ELSE Min(places)
PositionOf(x, s) == FirstPlace({i \in DOMAIN s : s[i] = x})

Numbered(base, n) == IF n = 1 THEN base ELSE Append(base, n)

\* The base itself, or the first numbered name that nobody has.
FirstFree(base, used) ==
    Numbered(base, Min({n \in 1..(Cardinality(used) + 1) : Numbered(base, n) \notin used}))
=============================================================================
