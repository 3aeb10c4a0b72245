---------------------------- MODULE LicenseSystem ----------------------------
(***************************************************************************)
(* The LicenseSystem of the module manager (licensesystem.cpp): the table  *)
(* of verified licenses read at construction, the serial number of the     *)
(* device, which the status module publishes while the program runs, and   *)
(* the cache of the systems that have been found licensed.                 *)
(*                                                                         *)
(* A license is the record of the fields the code reads.  Signature        *)
(* checking, file access and JSON parsing are left out: License is the set *)
(* of documents that passed them.  A month is a number.                    *)
(***************************************************************************)
EXTENDS Integers, FiniteSets

CONSTANTS
    System,      \* the unique names a license can be issued for
    Serial,      \* the serial numbers the status module may publish
    NoSerial,    \* "SERIAL NUMBER NOT FOUND!", the value before that
    AnySerial,   \* "universalSerial", a license for every device
    NoSystem,    \* a universal license need not name a system
    Never,       \* "never", a license without an end
    MaxMonth,    \* bound: the clock stops here
    License      \* the verified documents: [system, serial, expires, universal]

LicenseType ==
    [system    : System \cup {NoSystem},
     serial    : Serial \cup {AnySerial},
     expires   : Nat \cup {Never},
     universal : BOOLEAN]

ASSUME LicenseAssumption ==
    /\ MaxMonth \in Nat
    /\ NoSerial \notin Serial
    /\ AnySerial \notin Serial
    /\ AnySerial # NoSerial
    /\ NoSystem \notin System
    /\ Never \notin Nat
    /\ License \subseteq LicenseType

VARIABLES
    month,                    \* QDateTime::currentDateTime(), external
    verifiedLicenseDataTable, \* at most one license for a system
    universalLicenseFound,
    licensedSystems,          \* the cache m_licensedSystems
    deviceSerial,
    serialNumberInitialized

licenseVars == <<month, verifiedLicenseDataTable, universalLicenseFound,
                 licensedSystems, deviceSerial, serialNumberInitialized>>

LicenseTypeOK ==
    /\ month \in 0..MaxMonth
    /\ verifiedLicenseDataTable \subseteq License
    /\ universalLicenseFound \in BOOLEAN
    /\ licensedSystems \subseteq System
    /\ deviceSerial \in Serial \cup {NoSerial}
    /\ serialNumberInitialized \in BOOLEAN

(***************************************************************************)
(* A license is valid to the end of its month; AnySerial fits every device.*)
(***************************************************************************)
(* Faulty variants: the comparison is turned round; no serial number fits  *)
(* every license.                                                          *)
isValidLicenseExpiryDate_Reversed(expires) == expires # Never => month >= expires

isValidLicenseDeviceSerial_Unset(serial) ==
    serial \in {AnySerial, deviceSerial} \/ ~serialNumberInitialized

isValidLicenseExpiryDate(expires) == expires # Never => month <= expires

isValidLicenseDeviceSerial(serial) == serial \in {AnySerial, deviceSerial}

ValidLicense(license) == /\ isValidLicenseExpiryDate(license.expires)
                         /\ isValidLicenseDeviceSerial(license.serial)

(***************************************************************************)
(* The answer of isSystemLicensed, and the one thing asking changes: a     *)
(* system found valid in the table is remembered, and from then on neither *)
(* its serial nor its date is looked at again.                             *)
(***************************************************************************)
IsSystemLicensed(system) ==
    \/ universalLicenseFound
    \/ system \in licensedSystems
    \/ \E license \in verifiedLicenseDataTable :
          license.system = system /\ ValidLicense(license)

Remember(systems) ==
    licensedSystems' = IF universalLicenseFound
                       THEN licensedSystems
                       ELSE licensedSystems \cup {s \in systems : IsSystemLicensed(s)}

(***************************************************************************)
(* The constructor.  The table is a hash filled in the order of another    *)
(* hash: of several licenses for one system any may be the last one        *)
(* written.  A universal license is judged here and never again.           *)
(***************************************************************************)
LastWritten(table) ==
    /\ \A license \in table : license.system # NoSystem
    /\ \A l1, l2 \in table : l1.system = l2.system => l1 = l2
    /\ \A license \in License : license.system # NoSystem =>
          \E kept \in table : kept.system = license.system

LicenseInit ==
    /\ month = 0
    /\ deviceSerial = NoSerial
    /\ serialNumberInitialized = FALSE
    /\ licensedSystems = {}
    /\ verifiedLicenseDataTable \in {table \in SUBSET License : LastWritten(table)}
    /\ universalLicenseFound =
          \E license \in License : license.universal /\ ValidLicense(license)

(***************************************************************************)
(* processEvent for PAR_SerialNr of the status module: a value that is     *)
(* new (NoSerial is not empty, so it counts as an old value) is stored and *)
(* announced with sigSerialNumberInitialized.                              *)
(***************************************************************************)
(* Faulty variant: the cache is emptied.                                   *)
SetDeviceSerial_Forget(serial) ==
    /\ serial # deviceSerial
    /\ deviceSerial' = serial
    /\ serialNumberInitialized' = TRUE
    /\ licensedSystems' = {}
    /\ UNCHANGED <<month, verifiedLicenseDataTable, universalLicenseFound>>

SetDeviceSerial(serial) ==
    /\ serial # deviceSerial
    /\ deviceSerial' = serial
    /\ serialNumberInitialized' = TRUE
    /\ UNCHANGED <<month, verifiedLicenseDataTable, universalLicenseFound,
                   licensedSystems>>

(* Any part of the program asks, main for several systems in one handler.  *)
AskLicense(systems) ==
    /\ Remember(systems)
    /\ UNCHANGED <<month, verifiedLicenseDataTable, universalLicenseFound,
                   deviceSerial, serialNumberInitialized>>

(* The clock of the device reaches the next month.                         *)
NextMonth ==
    /\ month < MaxMonth
    /\ month' = month + 1
    /\ UNCHANGED <<verifiedLicenseDataTable, universalLicenseFound,
                   licensedSystems, deviceSerial, serialNumberInitialized>>

LicenseNext ==
    \/ \E serial \in Serial : SetDeviceSerial(serial)
    \/ \E systems \in SUBSET System : AskLicense(systems)
    \/ NextMonth

LicenseSpec == LicenseInit /\ [][LicenseNext]_licenseVars

----------------------------------------------------------------------------
(* Before the serial number is known only licenses for every device count, *)
(* and what was remembered then is covered by one of them: what is started *)
(* early does not depend on the serial number.                             *)
EarlyNeedsAnySerial ==
    ~serialNumberInitialized =>
        \A system \in System : IsSystemLicensed(system) =>
            \E license \in License :
                /\ license.serial = AnySerial
                /\ license.system = system \/ license.universal

(* A refusal is final until the serial number changes: the module manager  *)
(* skips a refused module for the rest of the session.                     *)
RefusedUntilNewSerial ==
    [][\A system \in System :
          ~IsSystemLicensed(system) /\ IsSystemLicensed(system)'
              => deviceSerial' # deviceSerial]_licenseVars

(* What was once found licensed stays so, through the end of the license   *)
(* and a new serial number: a module that runs can run again in the next   *)
(* session.                                                                *)
LicensedStaysLicensed ==
    [][\A system \in licensedSystems : IsSystemLicensed(system)']_licenseVars
=============================================================================
