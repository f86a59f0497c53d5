--------------------------- MODULE MCLoginServer ---------------------------
(***************************************************************************)
(* Instance of LoginServer for TLC.  Two char-servers, so that a request   *)
(* of one meets the entry of the other; two or three logins per run, so    *)
(* that an account is logged in again over an older node; one timer more   *)
(* than accounts, so that a timer id is reused while another is pending.   *)
(***************************************************************************)
EXTENDS LoginServer
CONSTANTS a1, a2, l1, l2, l3
=============================================================================
