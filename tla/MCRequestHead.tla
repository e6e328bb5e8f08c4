--------------------------- MODULE MCRequestHead ---------------------------
(***************************************************************************)
(* RequestHead by itself, for the one property that it violates.           *)
(***************************************************************************)
EXTENDS RequestHead, HeadInputs

MCStreams == StreamsOf(CR, LF, X)
=============================================================================
