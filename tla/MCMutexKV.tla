----------------------------- MODULE MCMutexKV -----------------------------
(***************************************************************************)
(* TLC instance of MutexKV.  More mutexes than keys, so that a get that     *)
(* allocates twice for one key would show; the third goroutine makes a      *)
(* queue for one key while another key is in use.                           *)
(***************************************************************************)
EXTENDS MutexKV
=============================================================================
