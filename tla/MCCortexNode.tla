---------------------------- MODULE MCCortexNode ----------------------------
(***************************************************************************)
(* CortexNode with two clients, two texts, and facts that are free,        *)
(* blocked, quarantined, of no known category, flagged and not salient.    *)
(***************************************************************************)
EXTENDS CortexNode, TLC

CONSTANTS c1, c2, m1, t1, t2, budget1, tea, pin, deed, noise, spam, dull

MCCategory == tea :> "preference" @@ pin :> "credentials" @@ deed :> "legal" @@ noise :> "unknown"
                @@ spam :> "preference" @@ dull :> "preference"

\* A memory of its own, a fact that may be saved, the budget, the first code and
\* the token issued for it, or invented.
MCChosenKeys == {m1, deed, budget1, CodeKey(1), TokenKey(2)}

MCSymmetry == Permutations(Clients) \cup Permutations(Texts)
=============================================================================
