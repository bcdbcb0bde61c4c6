---------------------------- MODULE MCAppShutdown ----------------------------
(* The application's teardown on a small instance. *)
EXTENDS AppShutdown

AppSteps == Elems(BootOrder)
RunAndDeferred == {RunClose, DeferredClose}
WithAnother == RunAndDeferred \cup {"other"}
=============================================================================
