---------------------------- MODULE MCRestClient -----------------------------
(* RestClient with two concurrent requests. *)
EXTENDS RestClient
=============================================================================
