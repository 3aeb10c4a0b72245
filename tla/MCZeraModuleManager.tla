------------------------- MODULE MCZeraModuleManager -------------------------
(***************************************************************************)
(* Instances of ZeraModuleManager for TLC.                                 *)
(***************************************************************************)
EXTENDS ZeraModuleManager, TLC

CONSTANTS a, b, c, gone,                    \* sessions
          status, meter, range, ghost, bad, \* modules
          logger, customer,                 \* conditional systems
          s1, s2                            \* serial numbers

(* Three sessions: one whose first module has to wait for the serial       *)
(* number, one with a module nobody has a plugin for, and one that needs   *)
(* a license of its own.  `gone' is a name without a file.                 *)
MCSession == {a, b, c}
MCSessionName == {a, b, c, gone}
MCSessionFile == a :> <<meter, status, range>> @@ b :> <<ghost, status, bad, meter>>
                 @@ c :> <<range>>

MCModuleName == {status, meter, range, ghost, bad}
MCSystem == MCModuleName \cup {logger, customer}

Lic(system, serial, expires) ==
    [system |-> system, serial |-> serial, expires |-> expires, universal |-> FALSE]

MCLicense == {Lic(status, AnySerial, Never), Lic(meter, s1, Never), Lic(range, s1, 0),
              Lic(bad, AnySerial, Never), Lic(logger, s1, Never)}

(* Two licenses for one system, of which one waits for the serial number   *)
(* and one does not, and a license for every system of one device, which   *)
(* is judged before the serial number is known.                            *)
MCLicenseTwice ==
    {Lic(status, AnySerial, Never), Lic(meter, s1, Never), Lic(meter, AnySerial, Never),
     Lic(range, s2, Never), Lic(range, AnySerial, 0), Lic(bad, AnySerial, Never),
     Lic(logger, s1, Never),
     [system |-> NoSystem, serial |-> s1, expires |-> Never, universal |-> TRUE]}
=============================================================================
