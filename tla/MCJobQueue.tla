----------------------------- MODULE MCJobQueue -----------------------------
(***************************************************************************)
(* Instances of JobQueue for TLC.                                          *)
(***************************************************************************)
EXTENDS JobQueue, TLC

CONSTANTS t1, t2, i1, h1, h2

TwoTexts == {t1, t2}
OneImage == {i1}
NoJobs   == {}
TwoHandlers == {h1, h2}

AnyKind    == {{}}
AllFilters == {{}, {"text"}, {"image"}}

\* No definition names a handler, nor a job; jobs of one kind are interchangeable.
TextSymmetry == Permutations(TwoTexts) \cup Permutations(TwoHandlers)
=============================================================================
