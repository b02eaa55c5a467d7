--------------------------- MODULE MCAttemptRecords ---------------------------
(* Small instances of AttemptRecords.  Workers are interchangeable, and so   *)
(* are learners.                                                             *)
EXTENDS AttemptRecords, TLC

MCToken == 1..MaxClaims
MCSignatureOf == [t \in Task |-> "keys"]

(* One error is enough to retire a tip here.                                 *)
MCRetireScore == <<1, 2>>

Symmetry == Permutations(Worker) \cup Permutations(Learner)

(* The loop of _normalize_distilled_tips, one proposal after the other:      *)
(* NormalizeDistilledTips says of a whole list what it keeps.                *)
NormalizingLoop(raw) ==
  LET Normal(p) == IF p.signature = Unknown THEN [p EXCEPT !.signature = Wildcard] ELSE p
      Counted(kept, k) == Cardinality({i \in DOMAIN kept : kept[i].signature = k.signature})
      Body(kept, p) == IF \/ Len(kept) >= TipCap
                          \/ Counted(kept, Normal(p)) >= SignatureCap
                          \/ Normal(p) \in Range(kept)
                       THEN kept ELSE Append(kept, Normal(p))
  IN FoldLeft(Body, <<>>, raw)

ASSUME NormalizedAsLoop ==
  \A raw \in BoundedSeq([signature : Signature \cup {Wildcard, Unknown}, text : {"x", "y"}], 4) :
    LET tip == NormalizeDistilledTips(raw)
        order == SetToSortSeq(DOMAIN tip, <)
    IN NormalizingLoop(raw) = [i \in DOMAIN order |-> tip[order[i]]]
==============================================================================
