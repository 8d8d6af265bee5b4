---------------------------- MODULE MCExperiments ----------------------------
(* Instance of Experiments for TLC.                                          *)
EXTENDS Experiments

(* Nothing asks for the version in production before the review, so others   *)
(* release only from then on.                                                *)
ReleasesAfterReview == doc.status \in Active \cup Ended => Current = Original

(* A publication does not depend on the round of its candidate: it is        *)
(* followed for the first.                                                   *)
FirstRoundPublished == doc.round > 1 => ~doc.approved /\ detail = "none"

=============================================================================
