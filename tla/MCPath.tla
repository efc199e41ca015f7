------------------------------- MODULE MCPath -------------------------------
(* Up to four points, of which a buffer of three pieces holds neither a    *)
(* whole number nor always the start.  Two lines in a row may be longer    *)
(* than that.                                                              *)
EXTENDS PathUtil
=============================================================================
