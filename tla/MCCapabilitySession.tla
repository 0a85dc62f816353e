------------------------ MODULE MCCapabilitySession ------------------------
(* Small instances of CapabilitySession.                                   *)
EXTENDS CapabilitySession

TwoCaps   == <<"pump", "heater">>
ThreeCaps == <<"pump", "heater", "light">>
SkipNone  == {}
SkipFirst == {"pump"}

=============================================================================
