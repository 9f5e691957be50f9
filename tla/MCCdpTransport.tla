----------------------------- MODULE MCCdpTransport -----------------------------
(* CdpTransport on a small instance.                                             *)
EXTENDS CdpTransport
=================================================================================
