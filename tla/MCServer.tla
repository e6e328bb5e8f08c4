------------------------------ MODULE MCServer ------------------------------
(***************************************************************************)
(* Small instances of Server for TLC.                                      *)
(***************************************************************************)
EXTENDS Server

CONSTANTS a1, a2, id

\* HTTP only with room for one connection, and HTTPS with room for two: a
\* reload adds and removes the HTTPS listener, raises the limit and lowers it
\* below the number of workers, and may come to the file that is active.
MCFiles ==
    {[config |-> [max |-> 1, addr |-> a1], identities |-> NoIdentities],
     [config |-> [max |-> 2, addr |-> a2], identities |-> id]}
=============================================================================
