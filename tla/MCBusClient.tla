---------------------------- MODULE MCBusClient ----------------------------
(* A small instance of BusClient: all four commands, with no bound and     *)
(* the bounds around zero.                                                 *)
EXTENDS BusClient

AllClients == {"capture", "watch", "send", "decode"}
FewMaxes   == {NoMax, 0, 1, 2}
None       == -1

=============================================================================
