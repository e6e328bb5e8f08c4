--------------------------- MODULE MCTlsTransport ---------------------------
(***************************************************************************)
(* Worlds for TlsTransport.                                                *)
(***************************************************************************)
EXTENDS TlsTransport

\* A client that sends three bytes over a bad network, and one that is sent
\* more records than there are sequence numbers over a slow one.
MCWorlds ==
    {[in |-> 3, out |-> 0, faults |-> 2, timeouts |-> TRUE,
      others |-> {"user_canceled", "fatal", "handshake", "plaintext"}],
     [in |-> 1, out |-> 4, faults |-> 0, timeouts |-> TRUE, others |-> {"fatal"}]}

\* An undisturbed connection.
MCUndisturbed ==
    {[in |-> 2, out |-> 2, faults |-> 0, timeouts |-> FALSE, others |-> {}]}
=============================================================================
