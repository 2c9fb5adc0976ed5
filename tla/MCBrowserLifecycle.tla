------------------------- MODULE MCBrowserLifecycle -------------------------
(* Model checking of BrowserLifecycle with two workers, one of which is      *)
(* there in the rough environment.                                           *)
EXTENDS BrowserLifecycle
=============================================================================
