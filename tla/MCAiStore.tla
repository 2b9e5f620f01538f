----------------------------- MODULE MCAiStore -----------------------------
(* TLC instance of the persisted tables of the AI: four keys, one of them  *)
(* too long and cut to another, three facts, two skills of two names,      *)
(* one of these too long, files or NVS, one failing write and two resets.  *)
EXTENDS AiStore, TLC

CONSTANTS LongKey, ShortKey, LongName, ShortName

CutToFit ==
  [t \in Tables |->
     IF t = "ltm" THEN [k \in Keys |-> IF k = LongKey THEN ShortKey ELSE k]
                  ELSE [k \in Names |-> IF k = LongName THEN ShortName ELSE k]]

Symmetry ==
  Permutations(Keys \ {LongKey, ShortKey}) \cup Permutations(Values)
=============================================================================
