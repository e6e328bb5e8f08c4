------------------------------ MODULE MCFormats ------------------------------
(***************************************************************************)
(* Formats with the inputs of FormatInputs, in one run.                    *)
(***************************************************************************)
EXTENDS Formats, FormatInputs

MCHeadStreams == StreamsOf(CR, LF, X)

MCHellos == HellosOf(MaxSessionId)

MCHosts == HostsOf(NoPort)
=============================================================================
