----------------------------- MODULE MCJobQueue -----------------------------
(* Instances of JobQueue: jobs i1, i2 are claimed one at a time by loop     *)
(* "ingest"; jobs d1, d2 are claimed in batches by loop "deep".             *)
EXTENDS JobQueue

CONSTANTS i1, i2, d1, d2, ingest, deep

DeepLoop == {deep}
BothLoops == {ingest, deep}

MixedJobs  == {i1, d1, d2}

MCOwner == [j \in Job |-> IF j \in {i1, i2} THEN ingest ELSE deep]
=============================================================================
