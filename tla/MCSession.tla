------------------------------ MODULE MCSession ------------------------------
(* Session on an ordinary call and a logout, an auth.refresh() and an       *)
(* application that may hand back the token it signed in with.              *)
EXTENDS Session
=============================================================================
