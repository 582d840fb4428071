------------------------------ MODULE FirstBoot ------------------------------
(***************************************************************************)
(* The first boot of a flashed card: what personalize-card.py and the      *)
(* owner leave on the boot partition, the first-boot service with          *)
(* import-envelope, import-settings and network-recover, the Wi-Fi         *)
(* profiles these make, and the setup wizard that is opened at the end.    *)
(*                                                                         *)
(* The service is a shell script that stops at the first error and may be  *)
(* killed between any two commands (TimeoutStartSec, a power cut); it      *)
(* starts over at every boot until it has disabled itself.  Each command   *)
(* that leaves something behind is a step.  The owner reads F11-SETUP.txt  *)
(* to join the setup network and to enter the setup code.                  *)
(***************************************************************************)
EXTENDS Naturals, FiniteSets

CONSTANTS Personal,  \* identities made by personalize-card.py
          Random,    \* identities made by first-boot
          Nothing,   \* an empty or missing file, no profile, no code, no card
          MaxFaults, \* bound: kills, power cuts and failures of the set-up network
          LateCard,  \* personalize-card.py may be run again after a first boot
          LosesData  \* a power cut takes identity files written since the boot

Value == Personal \cup Random

\* What an identity file holds is told apart by the identity it belongs to.
File == {"device-id", "setup-code", "ap-password"}

\* An envelope is valid when import-envelope accepts its device settings and the
\* commands it gives them to do: personalize-card.py looks at the host name, but
\* at neither the country nor the time zone.
Envelope == [id : Personal, wifi : BOOLEAN, valid : BOOLEAN]

\* f11-settings.toml: with a Wi-Fi section, without one, or not acceptable.
Settings == {"wifi", "plain", "bad"}

\* A NetworkManager profile is whole when "modify" has given it its key.
Home == [from : {"envelope", "settings"}, whole : BOOLEAN]
SetupAP == [name : Value, password : Value \cup {Nothing}]

ASSUME ValueAssumption == Personal \cap Random = {}
ASSUME NothingAssumption ==
  /\ Nothing \notin Value
  /\ Nothing \notin Envelope \cup Settings \cup Home \cup SetupAP
  /\ Nothing \notin [File -> Value]
ASSUME FaultAssumption ==
  MaxFaults \in Nat /\ LateCard \in BOOLEAN /\ LosesData \in BOOLEAN

PC == {"idle", "envelope", "identity", "device", "delete", "add", "modify",
       "up", "remove", "generate", "settings", "check", "ap_delete", "ap_add",
       "ap_modify", "ap_up", "wizard", "disable", "mark"}

VARIABLES
  envelope,   \* f11-personalize.json on the boot partition
  settings,   \* f11-settings.toml there
  card,       \* F11-SETUP.txt there: the three values it shows
  files,      \* the identity files in /var/lib/f11-setup
  todo,       \* identity files import-envelope has still to write
  home,       \* the profile f11-home
  ap,         \* the profile f11-setup-ap
  active,     \* the Wi-Fi profile that is activated
  pc,         \* the command first-boot runs next
  on,         \* the appliance has power
  unit,       \* the first-boot service is enabled
  marker,     \* first-boot-complete exists
  enabled,    \* the wizard is started at boot
  wizard,     \* the setup code of the running wizard (LoadCredential)
  booted,     \* history: the appliance was started once
  wanted,     \* history: what the owner last asked for
  faults      \* faults so far

boot == <<envelope, settings, card>>
net == <<home, ap, active>>
services == <<unit, marker, enabled, wizard>>
owner == <<booted, wanted>>
vars == <<boot, files, todo, net, pc, on, services, owner, faults>>

Init ==
  /\ envelope = Nothing /\ settings = Nothing /\ card = Nothing
  /\ files = [f \in File |-> Nothing] /\ todo = {}
  /\ home = Nothing /\ ap = Nothing /\ active = "none"
  /\ pc = "idle" /\ on = FALSE
  /\ unit = TRUE /\ marker = FALSE /\ enabled = FALSE /\ wizard = Nothing
  /\ booted = FALSE /\ wanted = [id |-> Nothing, wifi |-> {}]
  /\ faults = 0

----------------------------------------------------------------------------
(* The owner *)

\* What the service refuses to import, at every boot.
Refused == settings = "bad" \/ (envelope # Nothing /\ ~envelope.valid)

\* personalize-card.py: the envelope replaces an earlier one, then the card is
\* written, unless the script is stopped in between.  After a first boot the
\* owner makes an envelope anew when the one he made was refused.
Personalize(e) ==
  /\ ~on /\ (booted => LateCard \/ (envelope # Nothing /\ ~envelope.valid))
  /\ envelope' = e
  /\ card' \in {card, [f \in File |-> e.id]}
  /\ wanted' = [id |-> e.id, wifi |-> (wanted.wifi \ {"envelope"})
                                      \cup {w \in {"envelope"} : e.wifi}]
  /\ UNCHANGED <<settings, files, todo, net, pc, on, services, booted, faults>>

\* The owner copies a settings file to the card, or corrects a refused one.
CopySettings(s) ==
  /\ ~on /\ (booted => settings = "bad")
  /\ settings' = s
  /\ wanted' = [wanted EXCEPT !.wifi = (@ \ {"settings"})
                                       \cup {w \in {"settings"} : s = "wifi"}]
  /\ UNCHANGED <<envelope, card, files, todo, net, pc, on, services, booted, faults>>

\* Profiles NetworkManager can bring up by itself: whole ones.
Usable == {"none"} \cup {p \in {"home"} : home # Nothing /\ home.whole}
                   \cup {p \in {"ap"} : ap # Nothing /\ ap.password # Nothing}

\* A boot starts the services that are enabled; Wi-Fi comes up, or not yet.
PowerOn ==
  /\ ~on
  /\ on' = TRUE /\ booted' = TRUE
  /\ pc' = IF unit /\ ~marker THEN "envelope" ELSE "idle"
  /\ wizard' = IF enabled THEN files["setup-code"] ELSE Nothing
  /\ active' \in Usable
  /\ UNCHANGED <<boot, files, todo, home, ap, unit, marker, enabled, wanted, faults>>

\* What a file that is being written holds when the writer is stopped.
StoppedWriting(kept) ==
  \/ files' = kept
  \/ /\ pc = "identity"
     /\ \E f \in todo : files' = [kept EXCEPT ![f] = Nothing]

\* systemd stops the service (TimeoutStartSec), or a command fails this time and
\* ends the script; the appliance stays on.
Kill ==
  /\ pc # "idle" /\ faults < MaxFaults
  /\ StoppedWriting(files)
  /\ pc' = "idle" /\ todo' = {}
  /\ faults' = faults + 1
  /\ UNCHANGED <<boot, net, on, services, owner>>

\* The plug is pulled.  Nothing has synced the identity files.
PowerCut ==
  /\ on /\ faults < MaxFaults
  /\ \/ StoppedWriting(files)
     \/ /\ LosesData
        /\ \E lost \in SUBSET File :
             files' = [f \in File |-> IF f \in lost THEN Nothing ELSE files[f]]
  /\ on' = FALSE /\ pc' = "idle" /\ todo' = {}
  /\ active' = "none" /\ wizard' = Nothing
  /\ faults' = faults + 1
  /\ UNCHANGED <<boot, home, ap, unit, marker, enabled, owner>>

\* The owner turns off an appliance whose first boot stopped half way.
TurnOff ==
  /\ on /\ pc = "idle" /\ unit
  /\ on' = FALSE /\ active' = "none" /\ wizard' = Nothing
  /\ UNCHANGED <<boot, files, todo, home, ap, pc, unit, marker, enabled, owner, faults>>

\* The access point is found or lost, and NetworkManager follows.
NetworkChanges ==
  /\ on
  /\ active' \in Usable \ {active}
  /\ UNCHANGED <<boot, files, todo, home, ap, pc, on, services, owner, faults>>

----------------------------------------------------------------------------
(* import-envelope and import-settings *)

Goto(label) == pc' = label /\ UNCHANGED <<on, services, owner, faults>>

\* The script finds an envelope, or goes on without one.
FindEnvelope ==
  /\ pc = "envelope"
  /\ IF envelope = Nothing THEN Goto("generate") /\ UNCHANGED todo
                           ELSE Goto("identity") /\ todo' = File
  /\ UNCHANGED <<boot, files, net>>

WriteIdentity(f) ==
  /\ pc = "identity" /\ f \in todo
  /\ files' = [files EXCEPT ![f] = envelope.id]
  /\ todo' = todo \ {f}
  /\ IF todo' # {} THEN Goto("identity") ELSE Goto("device")
  /\ UNCHANGED <<boot, net>>

\* Host name, time zone, country and SSH key; a network, if there is one, is next.
ApplyDevice ==
  /\ pc = "device" /\ envelope.valid
  /\ IF envelope.wifi THEN Goto("delete") ELSE Goto("remove")
  /\ UNCHANGED <<boot, files, todo, net>>

\* import-envelope ends with an error, and the script with it: the identity is
\* written, the envelope stays for the next boot.
RefuseEnvelope ==
  /\ pc = "device" /\ ~envelope.valid
  /\ Goto("idle")
  /\ UNCHANGED <<boot, files, todo, net>>

\* Mutant of DeleteHome: a profile that exists is taken for the imported one.
MutantHomeExists ==
  /\ pc = "delete"
  /\ IF home # Nothing THEN Goto("up") ELSE Goto("add")
  /\ UNCHANGED <<boot, files, todo, net>>

\* f11-home is deleted, added without a key, given its key, and brought up.
DeleteHome ==
  /\ pc = "delete"
  /\ home' = Nothing
  /\ active' = IF active = "home" THEN "none" ELSE active
  /\ Goto("add")
  /\ UNCHANGED <<boot, files, todo, ap>>

AddHome ==
  /\ pc = "add"
  /\ home' = [from |-> IF envelope # Nothing THEN "envelope" ELSE "settings",
              whole |-> FALSE]
  /\ Goto("modify")
  /\ UNCHANGED <<boot, files, todo, ap, active>>

ModifyHome ==
  /\ pc = "modify"
  /\ home' = [from |-> home.from, whole |-> TRUE]
  /\ Goto("up")
  /\ UNCHANGED <<boot, files, todo, ap, active>>

\* Mutant of UpHome: a network that is out of reach ends the script.
MutantUpChecked ==
  /\ pc = "up"
  /\ active' \in {active, "home"}
  /\ IF active' = "home" THEN Goto("remove") ELSE Goto("idle")
  /\ UNCHANGED <<boot, files, todo, home, ap>>

\* A network that is out of reach is not an error.
UpHome ==
  /\ pc = "up"
  /\ active' \in {active, "home"}
  /\ Goto("remove")
  /\ UNCHANGED <<boot, files, todo, home, ap>>

RemoveImport ==
  /\ pc = "remove"
  /\ IF envelope # Nothing
       THEN envelope' = Nothing /\ Goto("generate") /\ UNCHANGED settings
       ELSE settings' = Nothing /\ Goto("check") /\ UNCHANGED envelope
  /\ UNCHANGED <<card, files, todo, net>>

ReadSettings ==
  /\ pc = "settings"
  /\ \/ settings = Nothing /\ Goto("check")
     \/ settings = "plain" /\ Goto("remove")
     \/ settings = "wifi" /\ Goto("delete")
  /\ UNCHANGED <<boot, files, todo, net>>

\* import-settings ends with an error, and the script with it.
RefuseSettings ==
  /\ pc = "settings" /\ settings = "bad"
  /\ Goto("idle")
  /\ UNCHANGED <<boot, files, todo, net>>

----------------------------------------------------------------------------
(* first-boot *)

Missing == {f \in File : files[f] = Nothing}

\* An identity file that is missing or empty is made from random characters.
Generate(f, v) ==
  /\ pc = "generate" /\ f \in Missing
  /\ files' = [files EXCEPT ![f] = v]
  /\ Goto("generate")
  /\ UNCHANGED <<boot, todo, net>>

\* Mutant of WriteCard: a card that is there already is kept.
MutantKeepCard ==
  /\ pc = "generate" /\ Missing = {}
  /\ card' = IF card = Nothing THEN files ELSE card
  /\ Goto("settings")
  /\ UNCHANGED <<envelope, settings, files, todo, net>>

\* F11-SETUP.txt is written beside the old one and moved over it.
WriteCard ==
  /\ pc = "generate" /\ Missing = {}
  /\ card' = files
  /\ Goto("settings")
  /\ UNCHANGED <<envelope, settings, files, todo, net>>

CheckWiFi ==
  /\ pc = "check"
  /\ Goto(IF active = "none" THEN "ap_delete" ELSE "wizard")
  /\ UNCHANGED <<boot, files, todo, net>>

\* Mutant of DeleteAP: a profile that exists is brought up as it is.
MutantAPExists ==
  /\ pc = "ap_delete"
  /\ IF ap # Nothing THEN Goto("ap_up") ELSE Goto("ap_add")
  /\ UNCHANGED <<boot, files, todo, net>>

\* network-recover makes the set-up network in the same four steps.
DeleteAP ==
  /\ pc = "ap_delete"
  /\ ap' = Nothing
  /\ active' = IF active = "ap" THEN "none" ELSE active
  /\ Goto("ap_add")
  /\ UNCHANGED <<boot, files, todo, home>>

AddAP ==
  /\ pc = "ap_add"
  /\ ap' = [name |-> files["device-id"], password |-> Nothing]
  /\ Goto("ap_modify")
  /\ UNCHANGED <<boot, files, todo, home, active>>

ModifyAP ==
  /\ pc = "ap_modify"
  /\ ap' = [ap EXCEPT !.password = files["ap-password"]]
  /\ Goto("ap_up")
  /\ UNCHANGED <<boot, files, todo, home, active>>

UpAP ==
  /\ pc = "ap_up"
  /\ active' = "ap"
  /\ Goto("wizard")
  /\ UNCHANGED <<boot, files, todo, home, ap>>

\* The set-up network does not come up, and the script ends.
UpAPFails ==
  /\ pc = "ap_up" /\ faults < MaxFaults
  /\ pc' = "idle" /\ faults' = faults + 1
  /\ UNCHANGED <<boot, files, todo, net, on, services, owner>>

\* "enable --now" leaves a wizard that runs already alone.
EnableWizard ==
  /\ pc = "wizard"
  /\ enabled' = TRUE
  /\ wizard' = IF wizard = Nothing THEN files["setup-code"] ELSE wizard
  /\ pc' = "disable"
  /\ UNCHANGED <<boot, files, todo, net, on, unit, marker, owner, faults>>

DisableUnit ==
  /\ pc = "disable"
  /\ unit' = FALSE
  /\ pc' = "mark"
  /\ UNCHANGED <<boot, files, todo, net, on, marker, enabled, wizard, owner, faults>>

WriteMarker ==
  /\ pc = "mark"
  /\ marker' = TRUE
  /\ pc' = "idle"
  /\ UNCHANGED <<boot, files, todo, net, on, unit, enabled, wizard, owner, faults>>

Script ==
  \/ FindEnvelope \/ \E f \in File : WriteIdentity(f)
  \/ ApplyDevice \/ RefuseEnvelope
  \/ DeleteHome \/ AddHome \/ ModifyHome \/ UpHome \/ RemoveImport
  \/ ReadSettings \/ RefuseSettings
  \/ \E f \in File, v \in Random : Generate(f, v)
  \/ WriteCard \/ CheckWiFi
  \/ DeleteAP \/ AddAP \/ ModifyAP \/ UpAP
  \/ EnableWizard \/ DisableUnit \/ WriteMarker

Next ==
  \/ \E e \in Envelope : Personalize(e)
  \/ \E s \in Settings : CopySettings(s)
  \/ PowerOn \/ TurnOff \/ NetworkChanges
  \/ Kill \/ PowerCut \/ UpAPFails
  \/ Script

Spec == Init /\ [][Next]_vars

\* Commands end, and an owner whose appliance did not open the wizard turns it
\* off and on again.
FairSpec == Spec /\ WF_vars(Script) /\ WF_vars(PowerOn) /\ WF_vars(TurnOff)

----------------------------------------------------------------------------
(* Properties *)

TypeOK ==
  /\ envelope \in Envelope \cup {Nothing}
  /\ settings \in Settings \cup {Nothing}
  /\ card \in [File -> Value] \cup {Nothing}
  /\ files \in [File -> Value \cup {Nothing}]
  /\ todo \in SUBSET File
  /\ home \in Home \cup {Nothing}
  /\ ap \in SetupAP \cup {Nothing}
  /\ active \in {"none", "home", "ap"}
  /\ pc \in PC
  /\ on \in BOOLEAN /\ unit \in BOOLEAN /\ marker \in BOOLEAN
  /\ enabled \in BOOLEAN /\ booted \in BOOLEAN
  /\ wizard \in Value \cup {Nothing}
  /\ wanted \in [id : Personal \cup {Nothing}, wifi : SUBSET {"envelope", "settings"}]
  /\ faults \in Nat

\* The service will not run again.
Finished == ~unit

\* image/README.md: "Read F11-SETUP.txt ... for its random password and setup
\* code".  Whatever was stopped and started over, the card opens the set-up
\* network that is there and the wizard that runs.
CardOpensDevice ==
  /\ wizard # Nothing => card # Nothing /\ wizard = card["setup-code"]
  /\ ap # Nothing /\ ap.password # Nothing =>
       /\ card # Nothing
       /\ ap.name = card["device-id"] /\ ap.password = card["ap-password"]

\* image/README.md: the envelope and the settings are "imported once and
\* deleted".  When the service is done nothing of them is left on the card,
\* and the device has the identity and the network they asked for.
ImportedAndDeleted ==
  Finished =>
    /\ envelope = Nothing /\ settings = Nothing
    /\ wanted.id # Nothing => files = [f \in File |-> wanted.id]
    /\ wanted.wifi # {} =>
         home = [from |-> IF "settings" \in wanted.wifi THEN "settings" ELSE "envelope",
                 whole |-> TRUE]

\* The service never leaves behind an appliance that nobody can reach: some
\* Wi-Fi profile has its key, although the network that was active when the
\* script looked may be gone.
WayIn ==
  Finished => \/ home # Nothing /\ home.whole
              \/ ap # Nothing /\ ap.password # Nothing

\* However often it is stopped and started over, first boot is finished in the
\* end, unless the owner leaves an envelope or a settings file that is refused.
Completes == <>[]~Refused => <>Finished

\* image/README.md: "The machine-readable envelope is imported once and
\* deleted."  The code breaks it: what personalize-card.py accepted, and gave a
\* set-up card for, is refused at every boot, and first boot is never finished.
EnvelopeGoes == <>[](settings # "bad") => <>(booted /\ envelope = Nothing)
=============================================================================
