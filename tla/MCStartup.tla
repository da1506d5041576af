------------------------------ MODULE MCStartup ------------------------------
(***************************************************************************)
(* TLC instance of Startup: every configuration of one to three entries    *)
(* over two names, duplicates included.                                    *)
(***************************************************************************)
EXTENDS Startup

MaxEntries == 3
MCConfigurations == UNION {[1..n -> Names] : n \in 1..MaxEntries}

=============================================================================
