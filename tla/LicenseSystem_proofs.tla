------------------------- MODULE LicenseSystem_proofs -------------------------
(***************************************************************************)
(* Proofs about the license system, for any set of licenses, any serial    *)
(* numbers and any clock.                                                  *)
(***************************************************************************)
EXTENDS LicenseSystem, TLAPS

(* What is found in the constructor, or remembered before the serial       *)
(* number is known, is covered by a license for every device.              *)
ForEveryDevice(license) == license \in License /\ license.serial = AnySerial

LicenseInv ==
    /\ LicenseTypeOK
    /\ ~serialNumberInitialized => deviceSerial = NoSerial
    /\ universalLicenseFound =>
          \E license \in License : ForEveryDevice(license) /\ license.universal
    /\ ~serialNumberInitialized =>
          \A system \in licensedSystems :
             \E license \in License : ForEveryDevice(license) /\ license.system = system

(* No license names the placeholder.                                       *)
LEMMA PlaceholderFits ==
    ASSUME deviceSerial = NoSerial, NEW license \in License, ValidLicense(license)
    PROVE  ForEveryDevice(license)
BY LicenseAssumption
DEF LicenseType, ValidLicense, isValidLicenseDeviceSerial, ForEveryDevice

LEMMA LicenseInitInv ==
    ASSUME LicenseInit
    PROVE  LicenseInv
<1>1. LicenseTypeOK
  <2>1. universalLicenseFound \in BOOLEAN
    BY DEF LicenseInit
  <2>2. month \in 0 .. MaxMonth
    BY LicenseAssumption DEF LicenseInit
  <2> QED
    BY <2>1, <2>2 DEF LicenseInit, LicenseTypeOK
<1>2. universalLicenseFound =>
         \E license \in License : ForEveryDevice(license) /\ license.universal
  BY PlaceholderFits DEF LicenseInit
<1> QED
  BY <1>1, <1>2 DEF LicenseInit, LicenseInv

(* Asking remembers only what is licensed at that time.                    *)
LEMMA AskStep ==
    ASSUME LicenseInv, NEW systems \in SUBSET System, AskLicense(systems)
    PROVE  LicenseInv'
<1>1. licensedSystems' \subseteq licensedSystems \cup {s \in systems : IsSystemLicensed(s)}
  BY DEF AskLicense, Remember
<1>2. UNCHANGED <<month, verifiedLicenseDataTable, universalLicenseFound,
                  deviceSerial, serialNumberInitialized>>
  BY DEF AskLicense
<1>3. LicenseTypeOK'
  BY <1>1, <1>2 DEF LicenseInv, LicenseTypeOK
<1>4. ASSUME ~serialNumberInitialized, ~universalLicenseFound, NEW system \in systems,
             IsSystemLicensed(system), system \notin licensedSystems
      PROVE  \E license \in License : ForEveryDevice(license) /\ license.system = system
  <2>1. PICK license \in verifiedLicenseDataTable :
               license.system = system /\ ValidLicense(license)
    BY <1>4 DEF IsSystemLicensed
  <2>2. license \in License /\ deviceSerial = NoSerial
    BY <1>4 DEF LicenseInv, LicenseTypeOK
  <2> QED
    BY <2>1, <2>2, PlaceholderFits
<1>5. universalLicenseFound => licensedSystems' = licensedSystems
  BY DEF AskLicense, Remember
<1>6. ~serialNumberInitialized' =>
         \A system \in licensedSystems' :
            \E license \in License : ForEveryDevice(license) /\ license.system = system
  <2> SUFFICES ASSUME ~serialNumberInitialized, NEW system \in licensedSystems'
               PROVE  \E license \in License :
                         ForEveryDevice(license) /\ license.system = system
    BY <1>2
  <2> QED
    BY <1>1, <1>4, <1>5 DEF LicenseInv
<1> QED
  BY <1>2, <1>3, <1>6 DEF LicenseInv

LEMMA LicenseNextInv ==
    ASSUME LicenseInv, [LicenseNext]_licenseVars
    PROVE  LicenseInv'
<1>1. ASSUME NEW serial \in Serial, SetDeviceSerial(serial)
      PROVE  LicenseInv'
  BY <1>1 DEF LicenseInv, LicenseTypeOK, SetDeviceSerial
<1>2. CASE NextMonth
  <2>1. month' \in 0 .. MaxMonth
    BY <1>2, LicenseAssumption DEF LicenseInv, LicenseTypeOK, NextMonth
  <2> QED
    BY <1>2, <2>1 DEF LicenseInv, LicenseTypeOK, NextMonth
<1>3. CASE UNCHANGED licenseVars
  BY <1>3 DEF LicenseInv, LicenseTypeOK, licenseVars
<1> QED
  BY <1>1, <1>2, <1>3, AskStep DEF LicenseNext

LEMMA LicenseInvariance == LicenseSpec => []LicenseInv
<1>1. LicenseInit => LicenseInv
  BY LicenseInitInv
<1>2. LicenseInv /\ [LicenseNext]_licenseVars => LicenseInv'
  BY LicenseNextInv
<1> QED
  BY <1>1, <1>2, PTL DEF LicenseSpec

(* Before the serial number is known only licenses for every device count. *)
THEOREM EarlyCorrect == LicenseSpec => []EarlyNeedsAnySerial
<1>1. LicenseInv => EarlyNeedsAnySerial
  <2> SUFFICES ASSUME LicenseInv, ~serialNumberInitialized,
                      NEW system \in System, IsSystemLicensed(system)
               PROVE  \E license \in License :
                         /\ license.serial = AnySerial
                         /\ license.system = system \/ license.universal
    BY DEF EarlyNeedsAnySerial
  <2>1. CASE \E license \in verifiedLicenseDataTable :
                license.system = system /\ ValidLicense(license)
    BY <2>1, PlaceholderFits DEF LicenseInv, LicenseTypeOK, ForEveryDevice
  <2>2. CASE universalLicenseFound \/ system \in licensedSystems
    BY <2>2 DEF LicenseInv, ForEveryDevice
  <2> QED
    BY <2>1, <2>2 DEF IsSystemLicensed
<1> QED
  BY <1>1, LicenseInvariance, PTL

(* A license that is not good this month is not good later.                *)
LEMMA ExpiryIsFinal ==
    ASSUME LicenseInv, NextMonth, NEW license \in License,
           isValidLicenseExpiryDate(license.expires)'
    PROVE  isValidLicenseExpiryDate(license.expires)
<1>1. month \in Int /\ month' = month + 1
  BY LicenseAssumption DEF LicenseInv, LicenseTypeOK, NextMonth
<1>2. license.expires \in Nat \/ license.expires = Never
  BY LicenseAssumption DEF LicenseType
<1>3. license' = license
  OBVIOUS
<1> QED
  BY <1>1, <1>2 DEF isValidLicenseExpiryDate

(* Only a new serial number turns a refusal into a license.                *)
LEMMA RefusalIsFinal ==
    ASSUME LicenseInv, [LicenseNext]_licenseVars, NEW system \in System,
           deviceSerial' = deviceSerial, IsSystemLicensed(system)'
    PROVE  IsSystemLicensed(system)
<1>1. ASSUME NEW serial \in Serial, SetDeviceSerial(serial)
      PROVE  FALSE
  BY <1>1 DEF SetDeviceSerial
<1>2. ASSUME NEW asked \in SUBSET System, AskLicense(asked)
      PROVE  IsSystemLicensed(system)
  BY <1>2 DEF AskLicense, Remember, IsSystemLicensed, ValidLicense,
              isValidLicenseExpiryDate, isValidLicenseDeviceSerial
<1>3. ASSUME NextMonth
      PROVE  IsSystemLicensed(system)
  <2>1. UNCHANGED <<verifiedLicenseDataTable, universalLicenseFound, licensedSystems,
                    deviceSerial>>
    BY <1>3 DEF NextMonth
  <2>2. CASE \E license \in verifiedLicenseDataTable :
                license.system = system /\ ValidLicense(license)'
    <3>1. PICK license \in verifiedLicenseDataTable :
                 license.system = system /\ ValidLicense(license)'
      BY <2>2
    <3>2. license \in License
      BY DEF LicenseInv, LicenseTypeOK
    <3>3. ValidLicense(license)
      BY <1>3, <2>1, <3>1, <3>2, ExpiryIsFinal
      DEF ValidLicense, isValidLicenseDeviceSerial
    <3> QED
      BY <3>1, <3>3 DEF IsSystemLicensed
  <2> QED
    BY <2>1, <2>2 DEF IsSystemLicensed
<1>4. CASE UNCHANGED licenseVars
  BY <1>4 DEF licenseVars, IsSystemLicensed, ValidLicense, isValidLicenseExpiryDate,
              isValidLicenseDeviceSerial
<1> QED
  BY <1>1, <1>2, <1>3, <1>4 DEF LicenseNext

(* A refusal is final until the serial number changes.                     *)
THEOREM RefusalCorrect == LicenseSpec => RefusedUntilNewSerial
<1> DEFINE Refusal ==
      \A system \in System : ~IsSystemLicensed(system) /\ IsSystemLicensed(system)'
                                => deviceSerial' # deviceSerial
<1>1. LicenseInv /\ [LicenseNext]_licenseVars => [Refusal]_licenseVars
  BY RefusalIsFinal
<1> QED
  BY <1>1, LicenseInvariance, PTL DEF LicenseSpec, RefusedUntilNewSerial

(* What is remembered is never forgotten, and the constructor's judgement  *)
(* of the universal licenses stands.                                       *)
LEMMA NothingForgotten ==
    ASSUME [LicenseNext]_licenseVars
    PROVE  /\ licensedSystems \subseteq licensedSystems'
           /\ universalLicenseFound' = universalLicenseFound
           /\ serialNumberInitialized => serialNumberInitialized'
BY DEF LicenseNext, SetDeviceSerial, AskLicense, Remember, NextMonth, licenseVars

(* What was once found licensed stays so.                                  *)
THEOREM LicensedCorrect == LicenseSpec => LicensedStaysLicensed
<1> DEFINE Kept == \A system \in licensedSystems : IsSystemLicensed(system)'
<1>1. [LicenseNext]_licenseVars => [Kept]_licenseVars
  BY NothingForgotten DEF IsSystemLicensed
<1> QED
  BY <1>1, PTL DEF LicenseSpec, LicensedStaysLicensed
=============================================================================
