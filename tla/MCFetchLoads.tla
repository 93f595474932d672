---------------------------- MODULE MCFetchLoads ----------------------------
(***************************************************************************)
(* The instances of FetchLoads that one run explores side by side: each is *)
(* wide where the others are narrow.                                       *)
(***************************************************************************)
EXTENDS XmlHttpRequest

CONSTANT k

\* Two fetches whose preflights overlap.
PreflightLoad == [fetches |-> 2, loads |-> 0, time |-> 3, keys |-> {k}, opens |-> 0]
\* A fetch beside a background request that share a preflight key.
MixedLoad     == [fetches |-> 1, loads |-> 1, time |-> 2, keys |-> {k, None}, opens |-> 0]
\* Three background requests that fill the quota.
QuotaLoad     == [fetches |-> 0, loads |-> 3, time |-> 2, keys |-> {None}, opens |-> 0]

\* An XMLHttpRequest that is opened and sent twice.
XhrLoad == [fetches |-> 2, loads |-> 0, time |-> 1, keys |-> {None}, opens |-> 2]

AllLoads == {PreflightLoad, MixedLoad, QuotaLoad, XhrLoad}
=============================================================================
