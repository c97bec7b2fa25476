----------------------------- MODULE MCTransfer -----------------------------
(* Instances of Transfer for TLC. *)
EXTENDS Transfer, TLC

CONSTANTS a, b, c, i1, i2

OneItem == <<i1>>
TwoItems == <<i1, i2>>
ABC == {a, b, c}

(* a is alone, b and c share a group. *)
Pair == (a :> "g1") @@ (b :> "g2") @@ (c :> "g2")
Alone == (a :> "g1") @@ (b :> "g2") @@ (c :> "g3")
OnlyA == {a}
OnlyB == {b}
BC == {b, c}

(* What the checks found: each group has the article or not; only a has it, *)
(* and c, or b and c, miss it.                                             *)
FoundOrNot == [Groups -> {"223", "430"}]
OnlyOnA == {[g \in Groups |-> IF g = group[a] THEN "223" ELSE "430"]}
MissingOnC == OnlyOnA \cup {[g \in Groups |-> IF g = group[c] THEN "430" ELSE "223"]}
=============================================================================
