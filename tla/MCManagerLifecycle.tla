-------------------------- MODULE MCManagerLifecycle --------------------------
(* Small instances of Container, with ManagerLifecycle, for TLC.           *)
EXTENDS Container

\* The names of the controllers in Components.
ComponentNames == <<"c1", "c2">>

==============================================================================
