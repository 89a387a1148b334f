----------------------------- MODULE MCIpHealth -----------------------------
(***************************************************************************)
(* Two local addresses for TLC, in the order of the host's bucket.         *)
(***************************************************************************)
EXTENDS IpHealth

MCOrder == <<"a", "b">>
=============================================================================
