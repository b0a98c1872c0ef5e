------------------------ MODULE MCAnnotationSession ------------------------
(* Instances of AnnotationSession for TLC.                                 *)
EXTENDS AnnotationSession
============================================================================
