--------------------------- MODULE MCLicenseSystem ---------------------------
(***************************************************************************)
(* An instance of LicenseSystem for TLC: licenses that end, licenses for   *)
(* one device and for every device, two for one system, and a universal    *)
(* one for a single device.                                                *)
(***************************************************************************)
EXTENDS LicenseSystem

CONSTANTS status, meter, range, logger, s1, s2

Lic(system, serial, expires) ==
    [system |-> system, serial |-> serial, expires |-> expires, universal |-> FALSE]

MCLicense == {Lic(status, AnySerial, 1), Lic(meter, s1, 1), Lic(range, s1, 0),
              Lic(range, s2, Never), Lic(logger, s2, 2),
              [system |-> NoSystem, serial |-> s1, expires |-> Never, universal |-> TRUE]}
=============================================================================
