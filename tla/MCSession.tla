------------------------------ MODULE MCSession ------------------------------
(* CspSession for TLC: a service of each sort and two sizes of files.           *)
EXTENDS CspSession

Asks(service) == [service |-> service, flaw |-> "none", total |-> 0]
File(total) == [service |-> "file", flaw |-> "none", total |-> total]

Sample == {Asks("memfree"), Asks("ident"), Asks("peek"), [Asks("peek") EXCEPT !.flaw = "long"],
           Asks("reboot"), File(3), File(5)}
==============================================================================
