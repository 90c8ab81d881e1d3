---------------------------- MODULE MCAppSession ----------------------------
(* A small instance of a run of the app.                                   *)
EXTENDS AppSession

CONSTANTS ch1, ch2, ch3, t0, t1, t2
=============================================================================
