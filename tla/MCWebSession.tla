---------------------------- MODULE MCWebSession ----------------------------
(***************************************************************************)
(* Instances of WebSession.  An access token lives one second and a        *)
(* refresh token one or two, so that within four seconds each can be       *)
(* valid, expired, or renewed within the second it was issued in.          *)
(***************************************************************************)
EXTENDS WebSession
=============================================================================
