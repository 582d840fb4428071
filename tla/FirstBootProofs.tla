--------------------------- MODULE FirstBootProofs ---------------------------
(***************************************************************************)
(* Proofs about the first boot, for any identities, any settings file and  *)
(* any number of kills and power cuts, provided that the card is           *)
(* personalised before the first boot and that the disk keeps what was     *)
(* written: the set-up card opens the device, what was imported is in      *)
(* place and gone from the card, and the device can be reached.            *)
(***************************************************************************)
EXTENDS FirstBoot, TLAPS

\* The use that the instructions describe.
NormalUse == ~LateCard /\ ~LosesData

HomeCommands == {"delete", "add", "modify", "up"}

\* Commands after the set-up card is written, and after the settings are done.
AfterCard == {"settings", "check", "ap_delete", "ap_add", "ap_modify", "ap_up",
              "wizard", "disable", "mark"}
AfterSettings == AfterCard \ {"settings"}

\* Where the service is.
PlaceInv ==
  /\ pc # "idle" => on
  /\ on => booted
  /\ pc = "mark" => ~unit
  /\ ~unit => pc \in {"idle", "mark"}
  /\ pc \in {"identity", "device"} => envelope # Nothing
  /\ pc = "modify" => home # Nothing
  /\ pc = "ap_modify" => ap # Nothing

\* The envelope is imported and the card shows the identity for good.
Ready == envelope = Nothing /\ card # Nothing /\ card = files

ReadyInv ==
  /\ pc \in AfterCard => Ready
  /\ pc = "generate" => envelope = Nothing
  /\ pc \in HomeCommands \cup {"remove"} /\ envelope = Nothing => Ready
  /\ ap # Nothing \/ enabled \/ wizard # Nothing \/ ~unit => Ready
  /\ ap # Nothing => /\ ap.name = files["device-id"]
                     /\ ap.password \in {Nothing, files["ap-password"]}
  /\ wizard # Nothing => wizard = files["setup-code"]
  /\ ~booted => unit /\ ap = Nothing /\ ~enabled /\ wizard = Nothing

\* The identity of the envelope reaches the files before it leaves the card.
WantedInv ==
  /\ wanted.id = Nothing => envelope = Nothing
  /\ ~booted /\ envelope = Nothing => wanted.id = Nothing
  /\ envelope # Nothing => envelope.id = wanted.id
  /\ wanted.id # Nothing /\ envelope = Nothing => files = [f \in File |-> wanted.id]
  /\ pc = "identity" => \A f \in File \ todo : files[f] = envelope.id
  /\ pc \in HomeCommands \cup {"device", "remove"} /\ envelope # Nothing =>
       files = [f \in File |-> wanted.id]

Source == IF envelope # Nothing THEN "envelope" ELSE "settings"

\* The network of the envelope, and then that of the settings, reaches f11-home
\* before it leaves the card.
HomeInv ==
  /\ envelope # Nothing => (envelope.wifi <=> "envelope" \in wanted.wifi)
  /\ settings # Nothing => (settings = "wifi" <=> "settings" \in wanted.wifi)
  /\ settings = Nothing /\ "settings" \in wanted.wifi =>
       /\ envelope = Nothing
       /\ home = [from |-> "settings", whole |-> TRUE]
  /\ envelope = Nothing /\ wanted.wifi = {"envelope"} =>
       home = [from |-> "envelope", whole |-> TRUE]
  /\ "envelope" \in wanted.wifi => wanted.id # Nothing
  /\ ~booted /\ settings = Nothing => "settings" \notin wanted.wifi
  /\ pc \in HomeCommands => IF envelope # Nothing THEN envelope.wifi ELSE settings = "wifi"
  /\ pc = "remove" /\ envelope = Nothing => settings \in {"wifi", "plain"}
  /\ pc = "modify" => home = [from |-> Source, whole |-> FALSE]
  /\ pc = "up" => home = [from |-> Source, whole |-> TRUE]
  /\ pc = "remove" /\ (IF envelope # Nothing THEN envelope.wifi ELSE settings = "wifi") =>
       home = [from |-> Source, whole |-> TRUE]
  /\ pc \in AfterSettings \/ ~unit => settings = Nothing

Reachable == \/ home # Nothing /\ home.whole
             \/ ap # Nothing /\ ap.password # Nothing

\* Only whole profiles are active, and one exists when the check is passed.
NetInv ==
  /\ active = "home" => home # Nothing /\ home.whole
  /\ active = "ap" => ap # Nothing /\ ap.password # Nothing
  /\ pc = "add" => home = Nothing
  /\ pc = "up" => home # Nothing /\ home.whole
  /\ pc = "ap_add" => ap = Nothing
  /\ pc = "ap_up" => ap # Nothing /\ ap.password # Nothing
  /\ pc \in {"wizard", "disable", "mark"} \/ ~unit => Reachable

IInv == TypeOK /\ PlaceInv /\ ReadyInv /\ WantedInv /\ HomeInv /\ NetInv

\* Records and functions that are what they should be, and not Nothing.
LEMMA HomeRecord ==
  ASSUME NEW x \in {"envelope", "settings"}, NEW w \in BOOLEAN
  PROVE  /\ [from |-> x, whole |-> w] \in Home
         /\ [from |-> x, whole |-> w] # Nothing
  <1>1. [from |-> x, whole |-> w] \in Home
    BY DEF Home
  <1> QED
    BY <1>1, NothingAssumption

\* The same for the set-up network.
LEMMA APRecord ==
  ASSUME NEW n \in Value, NEW p \in Value \cup {Nothing}
  PROVE  /\ [name |-> n, password |-> p] \in SetupAP
         /\ [name |-> n, password |-> p] # Nothing
  <1>1. [name |-> n, password |-> p] \in SetupAP
    BY DEF SetupAP
  <1> QED
    BY <1>1, NothingAssumption

\* "modify" changes one field.
LEMMA APExcept ==
  ASSUME NEW a \in SetupAP, NEW p
  PROVE  [a EXCEPT !.password = p] = [name |-> a.name, password |-> p]
  BY DEF SetupAP

\* The same for the envelope.
LEMMA EnvelopeRecord ==
  ASSUME NEW e \in Envelope
  PROVE  /\ e # Nothing
         /\ e.id \in Personal /\ e.id \in Value
         /\ e.wifi \in BOOLEAN /\ e.valid \in BOOLEAN
  <1>1. e # Nothing
    BY NothingAssumption
  <1>2. e.id \in Personal /\ e.wifi \in BOOLEAN /\ e.valid \in BOOLEAN
    BY DEF Envelope
  <1> QED
    BY <1>1, <1>2 DEF Value

\* When the owner may make an envelope: the device was not set up.
LEMMA PersonalizeStep ==
  ASSUME NormalUse, IInv, NEW e \in Envelope, Personalize(e)
  PROVE  /\ envelope' = e /\ ~on /\ pc = "idle"
         /\ ~booted \/ envelope # Nothing
         /\ ~(ap # Nothing \/ enabled \/ wizard # Nothing \/ ~unit)
         /\ settings # Nothing \/ "settings" \notin wanted.wifi
         /\ UNCHANGED <<settings, files, todo, net, pc, on, services, booted, faults>>
  <1>1. /\ envelope' = e /\ ~on
        /\ ~booted \/ envelope # Nothing
        /\ UNCHANGED <<settings, files, todo, net, pc, on, services, booted, faults>>
    BY DEF Personalize, NormalUse
  <1>2. pc = "idle"
    BY <1>1 DEF IInv, PlaceInv
  <1>3. ~(ap # Nothing \/ enabled \/ wizard # Nothing \/ ~unit)
    BY <1>1 DEF IInv, ReadyInv, Ready
  <1>4. settings # Nothing \/ "settings" \notin wanted.wifi
    BY <1>1 DEF IInv, HomeInv
  <1> QED
    BY <1>1, <1>2, <1>3, <1>4

\* The same for a card of one identity.
LEMMA CardFunction ==
  ASSUME NEW id \in Value
  PROVE  /\ [f \in File |-> id] \in [File -> Value]
         /\ [f \in File |-> id] # Nothing
  <1>1. [f \in File |-> id] \in [File -> Value]
    OBVIOUS
  <1> QED
    BY <1>1, NothingAssumption

\* Where the import goes when it has written an identity file.
LEMMA WriteStep ==
  ASSUME NEW f \in File, WriteIdentity(f)
  PROVE  /\ pc = "identity" /\ f \in todo
         /\ files' = [files EXCEPT ![f] = envelope.id] /\ todo' = todo \ {f}
         /\ (pc' = "identity") \/ (todo' = {} /\ pc' = "device")
         /\ UNCHANGED <<boot, net, on, services, owner, faults>>
  <1>0. /\ pc = "identity" /\ f \in todo
        /\ files' = [files EXCEPT ![f] = envelope.id] /\ todo' = todo \ {f}
        /\ IF todo' # {} THEN Goto("identity") ELSE Goto("device")
        /\ UNCHANGED <<boot, net>>
    BY Zenon DEF WriteIdentity
  <1>1. CASE todo' # {} /\ Goto("identity")
    BY <1>0, <1>1 DEF Goto
  <1>2. CASE todo' = {} /\ Goto("device")
    BY <1>0, <1>2 DEF Goto
  <1> QED
    BY <1>0, <1>1, <1>2

\* And where it goes from the device settings.
LEMMA DeviceStep ==
  ASSUME ApplyDevice \/ RefuseEnvelope
  PROVE  /\ pc = "device" /\ pc' \in {"idle", "delete", "remove"}
         /\ pc' = "delete" => envelope.wifi
         /\ pc' = "remove" => ~envelope.wifi
         /\ UNCHANGED <<boot, files, todo, net, on, services, owner, faults>>
  <1>1. CASE ApplyDevice
    <2>1. CASE envelope.wifi /\ Goto("delete")
      BY <1>1, <2>1 DEF ApplyDevice, Goto
    <2>2. CASE ~envelope.wifi /\ Goto("remove")
      BY <1>1, <2>2 DEF ApplyDevice, Goto
    <2> QED
      BY <1>1, <2>1, <2>2 DEF ApplyDevice
  <1>2. CASE RefuseEnvelope
    BY <1>2 DEF RefuseEnvelope, Goto
  <1> QED
    BY <1>1, <1>2

\* Every step keeps the types.
LEMMA TypeNext ==
  ASSUME NormalUse, IInv, [Next]_vars
  PROVE  TypeOK'
  <1>1. ASSUME NEW e \in Envelope, Personalize(e)
        PROVE  TypeOK'
    <2>1. envelope' \in Envelope
      BY <1>1 DEF Personalize
    <2>2. card' \in [File -> Value] \cup {Nothing}
      BY <1>1, CardFunction, EnvelopeRecord DEF Personalize, IInv, TypeOK
    <2>3. wanted' \in [id : Personal \cup {Nothing}, wifi : SUBSET {"envelope", "settings"}]
      BY <1>1, EnvelopeRecord DEF Personalize, IInv, TypeOK
    <2> QED
      BY <1>1, <2>1, <2>2, <2>3 DEF Personalize, IInv, TypeOK, boot, net, services,
           owner, Goto
  <1>2. ASSUME NEW s \in Settings, CopySettings(s)
        PROVE  TypeOK'
    BY <1>2, FaultAssumption DEF NormalUse, IInv, CopySettings, boot, net, services,
         owner, Goto, TypeOK, PC
  <1>3. ASSUME PowerOn
        PROVE  TypeOK'
    <2>1. pc' \in PC /\ active' \in {"none", "home", "ap"}
      BY <1>3 DEF PowerOn, Usable, PC
    <2>2. wizard' \in Value \cup {Nothing}
      BY <1>3 DEF PowerOn, IInv, TypeOK, File
    <2>3. on' \in BOOLEAN /\ booted' \in BOOLEAN
      BY <1>3 DEF PowerOn
    <2> QED
      BY <1>3, <2>1, <2>2, <2>3 DEF PowerOn, IInv, TypeOK, boot, net, services,
           owner, Goto
  <1>4. ASSUME TurnOff
        PROVE  TypeOK'
    BY <1>4, FaultAssumption DEF NormalUse, IInv, TurnOff, boot, net, services,
         owner, Goto, TypeOK, PC
  <1>5. ASSUME NetworkChanges
        PROVE  TypeOK'
    BY <1>5, FaultAssumption DEF NormalUse, IInv, NetworkChanges, Usable, boot, net,
         services, owner, Goto, TypeOK, PC
  <1>6. ASSUME Kill
        PROVE  TypeOK'
    BY <1>6, FaultAssumption DEF NormalUse, IInv, Kill, StoppedWriting, boot, net,
         services, owner, Goto, TypeOK, PC
  <1>7. ASSUME PowerCut
        PROVE  TypeOK'
    <2>1. files' \in [File -> Value \cup {Nothing}]
      BY <1>7 DEF PowerCut, StoppedWriting, IInv, TypeOK
    <2>2. on' \in BOOLEAN
      BY <1>7 DEF PowerCut
    <2>3. faults' \in Nat
      BY <1>7 DEF PowerCut, IInv, TypeOK
    <2> QED
      BY <1>7, <2>1, <2>2, <2>3 DEF PowerCut, IInv, TypeOK, PC, boot, net, services,
           owner, Goto
  <1>8. ASSUME UpAPFails
        PROVE  TypeOK'
    BY <1>8, FaultAssumption DEF NormalUse, IInv, UpAPFails, boot, net, services,
         owner, Goto, TypeOK, PC
  <1>9. ASSUME FindEnvelope
        PROVE  TypeOK'
    BY <1>9, FaultAssumption DEF NormalUse, IInv, FindEnvelope, boot, net, services,
         owner, Goto, TypeOK, PC
  <1>10. ASSUME NEW f \in File, WriteIdentity(f)
        PROVE  TypeOK'
    <2>1. envelope \in Envelope /\ envelope.id \in Value
      BY <1>10, WriteStep DEF IInv, PlaceInv, TypeOK, Envelope, Value
    <2>2. files' \in [File -> Value \cup {Nothing}] /\ todo' \in SUBSET File
      BY <1>10, <2>1, WriteStep DEF IInv, TypeOK
    <2> QED
      BY <1>10, <2>2, WriteStep DEF IInv, TypeOK, PC, boot, net, services, owner
  <1>11. ASSUME DeleteHome
        PROVE  TypeOK'
    BY <1>11, FaultAssumption DEF NormalUse, IInv, DeleteHome, boot, net, services,
         owner, Goto, TypeOK, PC
  <1>12. ASSUME AddHome
        PROVE  TypeOK'
    <2>1. home' \in Home
      BY <1>12, HomeRecord DEF AddHome
    <2> QED
      BY <1>12, <2>1 DEF AddHome, IInv, TypeOK, PC, boot, net, services, owner, Goto
  <1>13. ASSUME ModifyHome
        PROVE  TypeOK'
    <2>1. home.from \in {"envelope", "settings"}
      BY <1>13 DEF ModifyHome, IInv, PlaceInv, TypeOK, Home
    <2>2. home' \in Home
      BY <1>13, <2>1, HomeRecord DEF ModifyHome
    <2> QED
      BY <1>13, <2>2 DEF ModifyHome, IInv, TypeOK, PC, boot, net, services, owner,
           Goto
  <1>14. ASSUME UpHome
        PROVE  TypeOK'
    BY <1>14, FaultAssumption DEF NormalUse, IInv, UpHome, boot, net, services,
         owner, Goto, TypeOK, PC
  <1>15. ASSUME RemoveImport
        PROVE  TypeOK'
    BY <1>15, FaultAssumption DEF NormalUse, IInv, RemoveImport, boot, net,
         services, owner, Goto, TypeOK, PC
  <1>16. ASSUME ReadSettings
        PROVE  TypeOK'
    BY <1>16, FaultAssumption DEF NormalUse, IInv, ReadSettings, boot, net,
         services, owner, Goto, TypeOK, PC
  <1>17. ASSUME RefuseSettings
        PROVE  TypeOK'
    BY <1>17, FaultAssumption DEF NormalUse, IInv, RefuseSettings, boot, net,
         services, owner, Goto, TypeOK, PC
  <1>18. ASSUME NEW f \in File, NEW v \in Random, Generate(f, v)
        PROVE  TypeOK'
    <2>1. files' \in [File -> Value \cup {Nothing}]
      BY <1>18 DEF Generate, IInv, TypeOK, Value
    <2> QED
      BY <1>18, <2>1 DEF Generate, IInv, TypeOK, PC, boot, net, services, owner,
           Goto
  <1>19. ASSUME WriteCard
        PROVE  TypeOK'
    BY <1>19, FaultAssumption DEF NormalUse, IInv, WriteCard, Missing, boot, net,
         services, owner, Goto, TypeOK, PC
  <1>20. ASSUME CheckWiFi
        PROVE  TypeOK'
    BY <1>20, FaultAssumption DEF NormalUse, IInv, CheckWiFi, boot, net, services,
         owner, Goto, TypeOK, PC
  <1>21. ASSUME DeleteAP
        PROVE  TypeOK'
    BY <1>21, FaultAssumption DEF NormalUse, IInv, DeleteAP, boot, net, services,
         owner, Goto, TypeOK, PC
  <1>22. ASSUME AddAP
        PROVE  TypeOK'
    <2>1. files["device-id"] \in Value
      BY <1>22, NothingAssumption DEF IInv, TypeOK, File, ReadyInv, Ready,
           AfterCard, AddAP
    <2>2. ap' \in SetupAP
      BY <1>22, <2>1, APRecord DEF AddAP
    <2> QED
      BY <1>22, <2>2 DEF AddAP, IInv, TypeOK, PC, boot, net, services, owner, Goto
  <1>23. ASSUME ModifyAP
        PROVE  TypeOK'
    <2>1. ap \in SetupAP /\ ap.name \in Value /\ files["ap-password"] \in Value \cup {Nothing}
      BY <1>23 DEF ModifyAP, IInv, PlaceInv, TypeOK, SetupAP, File
    <2>2. ap' = [name |-> ap.name, password |-> files["ap-password"]]
      BY <1>23, <2>1, APExcept DEF ModifyAP
    <2>3. ap' \in SetupAP
      BY <2>1, <2>2, APRecord
    <2> QED
      BY <1>23, <2>3 DEF ModifyAP, IInv, TypeOK, PC, boot, net, services, owner,
           Goto
  <1>24. ASSUME UpAP
        PROVE  TypeOK'
    BY <1>24, FaultAssumption DEF NormalUse, IInv, UpAP, boot, net, services, owner,
         Goto, TypeOK, PC
  <1>25. ASSUME EnableWizard
        PROVE  TypeOK'
    <2>1. wizard' \in Value \cup {Nothing} /\ enabled' \in BOOLEAN
      BY <1>25 DEF EnableWizard, IInv, TypeOK, File
    <2> QED
      BY <1>25, <2>1 DEF EnableWizard, IInv, TypeOK, PC, boot, net, services, owner,
           Goto
  <1>26. ASSUME DisableUnit
        PROVE  TypeOK'
    <2>1. unit' \in BOOLEAN
      BY <1>26 DEF DisableUnit
    <2> QED
      BY <1>26, <2>1 DEF DisableUnit, IInv, TypeOK, PC, boot, net, services, owner,
           Goto
  <1>27. ASSUME WriteMarker
        PROVE  TypeOK'
    BY <1>27, FaultAssumption DEF NormalUse, IInv, WriteMarker, boot, net, services,
         owner, Goto, TypeOK, PC
  <1>28. ASSUME UNCHANGED vars
        PROVE  TypeOK'
    BY <1>28 DEF IInv, vars, boot, net, services, owner, Goto, TypeOK
  <1>29. ASSUME ApplyDevice \/ RefuseEnvelope
        PROVE  TypeOK'
    BY <1>29, DeviceStep DEF IInv, TypeOK, PC, boot, net, services, owner
  <1> QED
    BY <1>1, <1>2, <1>3, <1>4, <1>5, <1>6, <1>7, <1>8, <1>9, <1>10, <1>11, <1>12,
         <1>13, <1>14, <1>15, <1>16, <1>17, <1>18, <1>19, <1>20, <1>21, <1>22,
         <1>23, <1>24, <1>25, <1>26, <1>27, <1>28, <1>29 DEF Next, Script

\* Every step keeps track of the place.
LEMMA PlaceNext ==
  ASSUME NormalUse, IInv, [Next]_vars
  PROVE  PlaceInv'
  <1>1. ASSUME NEW e \in Envelope, Personalize(e)
        PROVE  PlaceInv'
    BY <1>1, PersonalizeStep DEF IInv, PlaceInv, net, services
  <1>2. ASSUME NEW s \in Settings, CopySettings(s)
        PROVE  PlaceInv'
    BY <1>2, NothingAssumption DEF NormalUse, IInv, CopySettings, boot, net,
         services, owner, Goto, TypeOK, PlaceInv
  <1>3. ASSUME PowerOn
        PROVE  PlaceInv'
    BY <1>3, NothingAssumption DEF NormalUse, IInv, PowerOn, Usable, boot, net,
         services, owner, Goto, TypeOK, PlaceInv
  <1>4. ASSUME TurnOff
        PROVE  PlaceInv'
    BY <1>4, NothingAssumption DEF NormalUse, IInv, TurnOff, boot, net, services,
         owner, Goto, TypeOK, PlaceInv
  <1>5. ASSUME NetworkChanges
        PROVE  PlaceInv'
    BY <1>5, NothingAssumption DEF NormalUse, IInv, NetworkChanges, Usable, boot,
         net, services, owner, Goto, TypeOK, PlaceInv
  <1>6. ASSUME Kill
        PROVE  PlaceInv'
    BY <1>6, NothingAssumption DEF NormalUse, IInv, Kill, StoppedWriting, boot, net,
         services, owner, Goto, TypeOK, PlaceInv
  <1>7. ASSUME PowerCut
        PROVE  PlaceInv'
    BY <1>7, NothingAssumption DEF NormalUse, IInv, PowerCut, StoppedWriting, boot,
         net, services, owner, Goto, TypeOK, PlaceInv
  <1>8. ASSUME UpAPFails
        PROVE  PlaceInv'
    BY <1>8, NothingAssumption DEF NormalUse, IInv, UpAPFails, boot, net, services,
         owner, Goto, TypeOK, PlaceInv
  <1>9. ASSUME FindEnvelope
        PROVE  PlaceInv'
    BY <1>9, NothingAssumption DEF NormalUse, IInv, FindEnvelope, boot, net,
         services, owner, Goto, TypeOK, PlaceInv
  <1>10. ASSUME NEW f \in File, WriteIdentity(f)
        PROVE  PlaceInv'
    BY <1>10, WriteStep DEF IInv, PlaceInv, boot, net, services, owner
  <1>11. ASSUME DeleteHome
        PROVE  PlaceInv'
    BY <1>11, NothingAssumption DEF NormalUse, IInv, DeleteHome, boot, net,
         services, owner, Goto, TypeOK, PlaceInv
  <1>12. ASSUME AddHome
        PROVE  PlaceInv'
    BY <1>12, NothingAssumption, HomeRecord DEF NormalUse, IInv, AddHome, boot, net,
         services, owner, Goto, TypeOK, PlaceInv
  <1>13. ASSUME ModifyHome
        PROVE  PlaceInv'
    BY <1>13, NothingAssumption, HomeRecord DEF NormalUse, IInv, ModifyHome, boot,
         net, services, owner, Goto, TypeOK, PlaceInv
  <1>14. ASSUME UpHome
        PROVE  PlaceInv'
    BY <1>14, NothingAssumption DEF NormalUse, IInv, UpHome, boot, net, services,
         owner, Goto, TypeOK, PlaceInv
  <1>15. ASSUME RemoveImport
        PROVE  PlaceInv'
    BY <1>15, NothingAssumption DEF NormalUse, IInv, RemoveImport, boot, net,
         services, owner, Goto, TypeOK, PlaceInv
  <1>16. ASSUME ReadSettings
        PROVE  PlaceInv'
    BY <1>16, NothingAssumption DEF NormalUse, IInv, ReadSettings, boot, net,
         services, owner, Goto, TypeOK, PlaceInv
  <1>17. ASSUME RefuseSettings
        PROVE  PlaceInv'
    BY <1>17, NothingAssumption DEF NormalUse, IInv, RefuseSettings, boot, net,
         services, owner, Goto, TypeOK, PlaceInv
  <1>18. ASSUME NEW f \in File, NEW v \in Random, Generate(f, v)
        PROVE  PlaceInv'
    BY <1>18, NothingAssumption DEF NormalUse, IInv, Generate, Missing, boot, net,
         services, owner, Goto, TypeOK, PlaceInv
  <1>19. ASSUME WriteCard
        PROVE  PlaceInv'
    BY <1>19, NothingAssumption DEF NormalUse, IInv, WriteCard, Missing, boot, net,
         services, owner, Goto, TypeOK, PlaceInv
  <1>20. ASSUME CheckWiFi
        PROVE  PlaceInv'
    BY <1>20, NothingAssumption DEF NormalUse, IInv, CheckWiFi, boot, net, services,
         owner, Goto, TypeOK, PlaceInv
  <1>21. ASSUME DeleteAP
        PROVE  PlaceInv'
    BY <1>21, NothingAssumption DEF NormalUse, IInv, DeleteAP, boot, net, services,
         owner, Goto, TypeOK, PlaceInv
  <1>22. ASSUME AddAP
        PROVE  PlaceInv'
    <2>1. files["device-id"] \in Value
      BY <1>22, NothingAssumption DEF IInv, TypeOK, File, ReadyInv, Ready,
           AfterCard, AddAP
    <2>2. ap' # Nothing
      BY <1>22, <2>1, APRecord DEF AddAP
    <2> QED
      BY <1>22, <2>2 DEF IInv, PlaceInv, AddAP, boot, net, services, owner, Goto
  <1>23. ASSUME ModifyAP
        PROVE  PlaceInv'
    BY <1>23, NothingAssumption, APRecord, APExcept DEF NormalUse, IInv, ModifyAP,
         boot, net, services, owner, Goto, TypeOK, PlaceInv
  <1>24. ASSUME UpAP
        PROVE  PlaceInv'
    BY <1>24, NothingAssumption DEF NormalUse, IInv, UpAP, boot, net, services,
         owner, Goto, TypeOK, PlaceInv
  <1>25. ASSUME EnableWizard
        PROVE  PlaceInv'
    BY <1>25, NothingAssumption DEF NormalUse, IInv, EnableWizard, boot, net,
         services, owner, Goto, TypeOK, PlaceInv
  <1>26. ASSUME DisableUnit
        PROVE  PlaceInv'
    BY <1>26, NothingAssumption DEF NormalUse, IInv, DisableUnit, boot, net,
         services, owner, Goto, TypeOK, PlaceInv
  <1>27. ASSUME WriteMarker
        PROVE  PlaceInv'
    BY <1>27, NothingAssumption DEF NormalUse, IInv, WriteMarker, boot, net,
         services, owner, Goto, TypeOK, PlaceInv
  <1>28. ASSUME UNCHANGED vars
        PROVE  PlaceInv'
    BY <1>28 DEF IInv, vars, boot, net, services, owner, Goto, TypeOK, PlaceInv
  <1>29. ASSUME ApplyDevice \/ RefuseEnvelope
        PROVE  PlaceInv'
    BY <1>29, DeviceStep DEF IInv, PlaceInv, boot, net, services, owner
  <1> QED
    BY <1>1, <1>2, <1>3, <1>4, <1>5, <1>6, <1>7, <1>8, <1>9, <1>10, <1>11, <1>12,
         <1>13, <1>14, <1>15, <1>16, <1>17, <1>18, <1>19, <1>20, <1>21, <1>22,
         <1>23, <1>24, <1>25, <1>26, <1>27, <1>28, <1>29 DEF Next, Script

\* Every step keeps what is ready ready.
LEMMA ReadyNext ==
  ASSUME NormalUse, IInv, [Next]_vars
  PROVE  ReadyInv'
  <1>1. ASSUME NEW e \in Envelope, Personalize(e)
        PROVE  ReadyInv'
    <2>1. /\ pc = "idle" /\ UNCHANGED <<pc, files, ap, enabled, wizard, unit, booted>>
          /\ ~(ap # Nothing \/ enabled \/ wizard # Nothing \/ ~unit)
      BY <1>1, PersonalizeStep DEF net, services
    <2> QED
      BY <2>1 DEF ReadyInv, AfterCard, HomeCommands
  <1>2. ASSUME NEW s \in Settings, CopySettings(s)
        PROVE  ReadyInv'
    BY <1>2, NothingAssumption DEF NormalUse, IInv, CopySettings, boot, net,
         services, owner, Goto, TypeOK, File, PlaceInv, ReadyInv, Ready, AfterCard,
         HomeCommands
  <1>3. ASSUME PowerOn
        PROVE  ReadyInv'
    BY <1>3, NothingAssumption DEF NormalUse, IInv, PowerOn, Usable, boot, net,
         services, owner, Goto, TypeOK, File, PlaceInv, ReadyInv, Ready, AfterCard,
         HomeCommands
  <1>4. ASSUME TurnOff
        PROVE  ReadyInv'
    BY <1>4, NothingAssumption DEF NormalUse, IInv, TurnOff, boot, net, services,
         owner, Goto, TypeOK, File, PlaceInv, ReadyInv, Ready, AfterCard,
         HomeCommands
  <1>5. ASSUME NetworkChanges
        PROVE  ReadyInv'
    BY <1>5, NothingAssumption DEF NormalUse, IInv, NetworkChanges, Usable, boot,
         net, services, owner, Goto, TypeOK, File, PlaceInv, ReadyInv, Ready,
         AfterCard, HomeCommands
  <1>6. ASSUME Kill
        PROVE  ReadyInv'
    BY <1>6, NothingAssumption DEF NormalUse, IInv, Kill, StoppedWriting, boot, net,
         services, owner, Goto, TypeOK, File, PlaceInv, ReadyInv, Ready, AfterCard,
         HomeCommands
  <1>7. ASSUME PowerCut
        PROVE  ReadyInv'
    BY <1>7, NothingAssumption DEF NormalUse, IInv, PowerCut, StoppedWriting, boot,
         net, services, owner, Goto, TypeOK, File, PlaceInv, ReadyInv, Ready,
         AfterCard, HomeCommands
  <1>8. ASSUME UpAPFails
        PROVE  ReadyInv'
    BY <1>8, NothingAssumption DEF NormalUse, IInv, UpAPFails, boot, net, services,
         owner, Goto, TypeOK, File, PlaceInv, ReadyInv, Ready, AfterCard,
         HomeCommands
  <1>9. ASSUME FindEnvelope
        PROVE  ReadyInv'
    BY <1>9, NothingAssumption DEF NormalUse, IInv, FindEnvelope, boot, net,
         services, owner, Goto, TypeOK, File, PlaceInv, ReadyInv, Ready, AfterCard,
         HomeCommands
  <1>10. ASSUME NEW f \in File, WriteIdentity(f)
        PROVE  ReadyInv'
    <2>1. envelope # Nothing
      BY <1>10, WriteStep DEF IInv, PlaceInv
    <2>2. ~(ap # Nothing \/ enabled \/ wizard # Nothing \/ ~unit)
      BY <2>1 DEF IInv, ReadyInv, Ready
    <2> QED
      BY <1>10, <2>1, <2>2, WriteStep DEF IInv, ReadyInv, AfterCard, HomeCommands,
           boot, net, services, owner
  <1>11. ASSUME DeleteHome
        PROVE  ReadyInv'
    BY <1>11, NothingAssumption DEF NormalUse, IInv, DeleteHome, boot, net,
         services, owner, Goto, TypeOK, File, PlaceInv, ReadyInv, Ready, AfterCard,
         HomeCommands
  <1>12. ASSUME AddHome
        PROVE  ReadyInv'
    BY <1>12, NothingAssumption, HomeRecord DEF NormalUse, IInv, AddHome, boot, net,
         services, owner, Goto, TypeOK, File, PlaceInv, ReadyInv, Ready, AfterCard,
         HomeCommands
  <1>13. ASSUME ModifyHome
        PROVE  ReadyInv'
    BY <1>13, NothingAssumption, HomeRecord DEF NormalUse, IInv, ModifyHome, boot,
         net, services, owner, Goto, TypeOK, File, PlaceInv, ReadyInv, Ready,
         AfterCard, HomeCommands
  <1>14. ASSUME UpHome
        PROVE  ReadyInv'
    BY <1>14, NothingAssumption DEF NormalUse, IInv, UpHome, boot, net, services,
         owner, Goto, TypeOK, File, PlaceInv, ReadyInv, Ready, AfterCard,
         HomeCommands
  <1>15. ASSUME RemoveImport
        PROVE  ReadyInv'
    BY <1>15, NothingAssumption DEF NormalUse, IInv, RemoveImport, boot, net,
         services, owner, Goto, TypeOK, File, PlaceInv, ReadyInv, Ready, AfterCard,
         HomeCommands
  <1>16. ASSUME ReadSettings
        PROVE  ReadyInv'
    BY <1>16, NothingAssumption DEF NormalUse, IInv, ReadSettings, boot, net,
         services, owner, Goto, TypeOK, File, PlaceInv, ReadyInv, Ready, AfterCard,
         HomeCommands
  <1>17. ASSUME RefuseSettings
        PROVE  ReadyInv'
    BY <1>17, NothingAssumption DEF NormalUse, IInv, RefuseSettings, boot, net,
         services, owner, Goto, TypeOK, File, PlaceInv, ReadyInv, Ready, AfterCard,
         HomeCommands
  <1>18. ASSUME NEW f \in File, NEW v \in Random, Generate(f, v)
        PROVE  ReadyInv'
    BY <1>18, NothingAssumption DEF NormalUse, IInv, Generate, Missing, boot, net,
         services, owner, Goto, TypeOK, File, PlaceInv, ReadyInv, Ready, AfterCard,
         HomeCommands
  <1>19. ASSUME WriteCard
        PROVE  ReadyInv'
    <2>1. files \in [File -> Value] /\ files # Nothing
      BY <1>19, NothingAssumption DEF IInv, TypeOK, WriteCard, Missing
    <2>2. envelope = Nothing
      BY <1>19 DEF IInv, ReadyInv, WriteCard
    <2>3. Ready'
      BY <1>19, <2>1, <2>2 DEF WriteCard, Ready, boot, net, services, owner, Goto
    <2> QED
      BY <1>19, <2>3 DEF IInv, ReadyInv, WriteCard, AfterCard, HomeCommands, boot,
           net, services, owner, Goto
  <1>20. ASSUME CheckWiFi
        PROVE  ReadyInv'
    BY <1>20, NothingAssumption DEF NormalUse, IInv, CheckWiFi, boot, net, services,
         owner, Goto, TypeOK, File, PlaceInv, ReadyInv, Ready, AfterCard,
         HomeCommands
  <1>21. ASSUME DeleteAP
        PROVE  ReadyInv'
    BY <1>21, NothingAssumption DEF NormalUse, IInv, DeleteAP, boot, net, services,
         owner, Goto, TypeOK, File, PlaceInv, ReadyInv, Ready, AfterCard,
         HomeCommands
  <1>22. ASSUME AddAP
        PROVE  ReadyInv'
    BY <1>22, NothingAssumption, APRecord DEF NormalUse, IInv, AddAP, boot, net,
         services, owner, Goto, TypeOK, File, PlaceInv, ReadyInv, Ready, AfterCard,
         HomeCommands
  <1>23. ASSUME ModifyAP
        PROVE  ReadyInv'
    BY <1>23, NothingAssumption, APRecord, APExcept DEF NormalUse, IInv, ModifyAP,
         boot, net, services, owner, Goto, TypeOK, File, PlaceInv, ReadyInv, Ready,
         AfterCard, HomeCommands
  <1>24. ASSUME UpAP
        PROVE  ReadyInv'
    BY <1>24, NothingAssumption DEF NormalUse, IInv, UpAP, boot, net, services,
         owner, Goto, TypeOK, File, PlaceInv, ReadyInv, Ready, AfterCard,
         HomeCommands
  <1>25. ASSUME EnableWizard
        PROVE  ReadyInv'
    BY <1>25, NothingAssumption DEF NormalUse, IInv, EnableWizard, boot, net,
         services, owner, Goto, TypeOK, File, PlaceInv, ReadyInv, Ready, AfterCard,
         HomeCommands
  <1>26. ASSUME DisableUnit
        PROVE  ReadyInv'
    BY <1>26, NothingAssumption DEF NormalUse, IInv, DisableUnit, boot, net,
         services, owner, Goto, TypeOK, File, PlaceInv, ReadyInv, Ready, AfterCard,
         HomeCommands
  <1>27. ASSUME WriteMarker
        PROVE  ReadyInv'
    BY <1>27, NothingAssumption DEF NormalUse, IInv, WriteMarker, boot, net,
         services, owner, Goto, TypeOK, File, PlaceInv, ReadyInv, Ready, AfterCard,
         HomeCommands
  <1>28. ASSUME UNCHANGED vars
        PROVE  ReadyInv'
    BY <1>28 DEF IInv, vars, boot, net, services, owner, Goto, TypeOK, File,
         PlaceInv, ReadyInv, Ready, AfterCard, HomeCommands
  <1>29. ASSUME ApplyDevice \/ RefuseEnvelope
        PROVE  ReadyInv'
    <2>1. envelope # Nothing
      BY <1>29, DeviceStep DEF IInv, PlaceInv
    <2>2. ~(ap # Nothing \/ enabled \/ wizard # Nothing \/ ~unit)
      BY <2>1 DEF IInv, ReadyInv, Ready
    <2> QED
      BY <1>29, <2>1, <2>2, DeviceStep DEF IInv, ReadyInv, AfterCard, HomeCommands,
           boot, net, services, owner
  <1> QED
    BY <1>1, <1>2, <1>3, <1>4, <1>5, <1>6, <1>7, <1>8, <1>9, <1>10, <1>11, <1>12,
         <1>13, <1>14, <1>15, <1>16, <1>17, <1>18, <1>19, <1>20, <1>21, <1>22,
         <1>23, <1>24, <1>25, <1>26, <1>27, <1>28, <1>29 DEF Next, Script

\* Every step keeps the identity that was asked for.
LEMMA WantedNext ==
  ASSUME NormalUse, IInv, [Next]_vars
  PROVE  WantedInv'
  <1>1. ASSUME NEW e \in Envelope, Personalize(e)
        PROVE  WantedInv'
    <2>1. /\ envelope' = e /\ envelope' # Nothing
          /\ pc = "idle" /\ UNCHANGED <<pc, files>>
      BY <1>1, EnvelopeRecord, PersonalizeStep
    <2>2. wanted'.id = e.id
      BY <1>1 DEF Personalize
    <2>3. e.id # Nothing
      BY <1>1, EnvelopeRecord, NothingAssumption
    <2> QED
      BY <2>1, <2>2, <2>3 DEF WantedInv, HomeCommands
  <1>2. ASSUME NEW s \in Settings, CopySettings(s)
        PROVE  WantedInv'
    BY <1>2, NothingAssumption DEF NormalUse, IInv, CopySettings, boot, net,
         services, owner, Goto, TypeOK, File, PlaceInv, ReadyInv, Ready, AfterCard,
         WantedInv, HomeCommands
  <1>3. ASSUME PowerOn
        PROVE  WantedInv'
    BY <1>3, NothingAssumption DEF NormalUse, IInv, PowerOn, Usable, boot, net,
         services, owner, Goto, TypeOK, File, PlaceInv, ReadyInv, Ready, AfterCard,
         WantedInv, HomeCommands
  <1>4. ASSUME TurnOff
        PROVE  WantedInv'
    BY <1>4, NothingAssumption DEF NormalUse, IInv, TurnOff, boot, net, services,
         owner, Goto, TypeOK, File, PlaceInv, ReadyInv, Ready, AfterCard, WantedInv,
         HomeCommands
  <1>5. ASSUME NetworkChanges
        PROVE  WantedInv'
    BY <1>5, NothingAssumption DEF NormalUse, IInv, NetworkChanges, Usable, boot,
         net, services, owner, Goto, TypeOK, File, PlaceInv, ReadyInv, Ready,
         AfterCard, WantedInv, HomeCommands
  <1>6. ASSUME Kill
        PROVE  WantedInv'
    BY <1>6, NothingAssumption DEF NormalUse, IInv, Kill, StoppedWriting, boot, net,
         services, owner, Goto, TypeOK, File, PlaceInv, ReadyInv, Ready, AfterCard,
         WantedInv, HomeCommands
  <1>7. ASSUME PowerCut
        PROVE  WantedInv'
    BY <1>7, NothingAssumption DEF NormalUse, IInv, PowerCut, StoppedWriting, boot,
         net, services, owner, Goto, TypeOK, File, PlaceInv, ReadyInv, Ready,
         AfterCard, WantedInv, HomeCommands
  <1>8. ASSUME UpAPFails
        PROVE  WantedInv'
    BY <1>8, NothingAssumption DEF NormalUse, IInv, UpAPFails, boot, net, services,
         owner, Goto, TypeOK, File, PlaceInv, ReadyInv, Ready, AfterCard, WantedInv,
         HomeCommands
  <1>9. ASSUME FindEnvelope
        PROVE  WantedInv'
    BY <1>9, NothingAssumption DEF NormalUse, IInv, FindEnvelope, boot, net,
         services, owner, Goto, TypeOK, File, PlaceInv, ReadyInv, Ready, AfterCard,
         WantedInv, HomeCommands
  <1>10. ASSUME NEW f \in File, WriteIdentity(f)
        PROVE  WantedInv'
    <2>0. envelope # Nothing /\ envelope.id = wanted.id /\ wanted.id # Nothing
      BY <1>10, WriteStep DEF IInv, PlaceInv, WantedInv
    <2>1. /\ UNCHANGED <<envelope, wanted, booted>> /\ pc = "identity"
          /\ files' = [files EXCEPT ![f] = envelope.id] /\ todo' = todo \ {f}
      BY <1>10, WriteStep DEF boot, owner
    <2>2. files \in [File -> Value \cup {Nothing}]
      BY DEF IInv, TypeOK
    <2>3. \A g \in File \ todo' : files'[g] = envelope.id
      BY <2>1, <2>2 DEF IInv, WantedInv
    <2>4. files' \in [File -> Value \cup {Nothing} \cup {envelope.id}]
      BY <2>1, <2>2
    <2>5. todo' = {} => files' = [g \in File |-> wanted.id]
      BY <2>0, <2>1, <2>3, <2>4
    <2>6. (pc' = "identity") \/ (todo' = {} /\ pc' = "device")
      BY <1>10, WriteStep
    <2> QED
      BY <2>0, <2>1, <2>3, <2>5, <2>6 DEF WantedInv, HomeCommands
  <1>11. ASSUME DeleteHome
        PROVE  WantedInv'
    BY <1>11, NothingAssumption DEF NormalUse, IInv, DeleteHome, boot, net,
         services, owner, Goto, TypeOK, File, PlaceInv, ReadyInv, Ready, AfterCard,
         WantedInv, HomeCommands
  <1>12. ASSUME AddHome
        PROVE  WantedInv'
    BY <1>12, NothingAssumption, HomeRecord DEF NormalUse, IInv, AddHome, boot, net,
         services, owner, Goto, TypeOK, File, PlaceInv, ReadyInv, Ready, AfterCard,
         WantedInv, HomeCommands
  <1>13. ASSUME ModifyHome
        PROVE  WantedInv'
    BY <1>13, NothingAssumption, HomeRecord DEF NormalUse, IInv, ModifyHome, boot,
         net, services, owner, Goto, TypeOK, File, PlaceInv, ReadyInv, Ready,
         AfterCard, WantedInv, HomeCommands
  <1>14. ASSUME UpHome
        PROVE  WantedInv'
    BY <1>14, NothingAssumption DEF NormalUse, IInv, UpHome, boot, net, services,
         owner, Goto, TypeOK, File, PlaceInv, ReadyInv, Ready, AfterCard, WantedInv,
         HomeCommands
  <1>15. ASSUME RemoveImport
        PROVE  WantedInv'
    BY <1>15, NothingAssumption DEF NormalUse, IInv, RemoveImport, boot, net,
         services, owner, Goto, TypeOK, File, PlaceInv, ReadyInv, Ready, AfterCard,
         WantedInv, HomeCommands
  <1>16. ASSUME ReadSettings
        PROVE  WantedInv'
    BY <1>16, NothingAssumption DEF NormalUse, IInv, ReadSettings, boot, net,
         services, owner, Goto, TypeOK, File, PlaceInv, ReadyInv, Ready, AfterCard,
         WantedInv, HomeCommands
  <1>17. ASSUME RefuseSettings
        PROVE  WantedInv'
    BY <1>17, NothingAssumption DEF NormalUse, IInv, RefuseSettings, boot, net,
         services, owner, Goto, TypeOK, File, PlaceInv, ReadyInv, Ready, AfterCard,
         WantedInv, HomeCommands
  <1>18. ASSUME NEW f \in File, NEW v \in Random, Generate(f, v)
        PROVE  WantedInv'
    BY <1>18, NothingAssumption DEF NormalUse, IInv, Generate, Missing, boot, net,
         services, owner, Goto, TypeOK, File, PlaceInv, ReadyInv, Ready, AfterCard,
         WantedInv, HomeCommands
  <1>19. ASSUME WriteCard
        PROVE  WantedInv'
    BY <1>19, NothingAssumption DEF NormalUse, IInv, WriteCard, Missing, boot, net,
         services, owner, Goto, TypeOK, File, PlaceInv, ReadyInv, Ready, AfterCard,
         WantedInv, HomeCommands
  <1>20. ASSUME CheckWiFi
        PROVE  WantedInv'
    BY <1>20, NothingAssumption DEF NormalUse, IInv, CheckWiFi, boot, net, services,
         owner, Goto, TypeOK, File, PlaceInv, ReadyInv, Ready, AfterCard, WantedInv,
         HomeCommands
  <1>21. ASSUME DeleteAP
        PROVE  WantedInv'
    BY <1>21, NothingAssumption DEF NormalUse, IInv, DeleteAP, boot, net, services,
         owner, Goto, TypeOK, File, PlaceInv, ReadyInv, Ready, AfterCard, WantedInv,
         HomeCommands
  <1>22. ASSUME AddAP
        PROVE  WantedInv'
    BY <1>22, NothingAssumption, APRecord DEF NormalUse, IInv, AddAP, boot, net,
         services, owner, Goto, TypeOK, File, PlaceInv, ReadyInv, Ready, AfterCard,
         WantedInv, HomeCommands
  <1>23. ASSUME ModifyAP
        PROVE  WantedInv'
    BY <1>23, NothingAssumption, APRecord, APExcept DEF NormalUse, IInv, ModifyAP,
         boot, net, services, owner, Goto, TypeOK, File, PlaceInv, ReadyInv, Ready,
         AfterCard, WantedInv, HomeCommands
  <1>24. ASSUME UpAP
        PROVE  WantedInv'
    BY <1>24, NothingAssumption DEF NormalUse, IInv, UpAP, boot, net, services,
         owner, Goto, TypeOK, File, PlaceInv, ReadyInv, Ready, AfterCard, WantedInv,
         HomeCommands
  <1>25. ASSUME EnableWizard
        PROVE  WantedInv'
    BY <1>25, NothingAssumption DEF NormalUse, IInv, EnableWizard, boot, net,
         services, owner, Goto, TypeOK, File, PlaceInv, ReadyInv, Ready, AfterCard,
         WantedInv, HomeCommands
  <1>26. ASSUME DisableUnit
        PROVE  WantedInv'
    BY <1>26, NothingAssumption DEF NormalUse, IInv, DisableUnit, boot, net,
         services, owner, Goto, TypeOK, File, PlaceInv, ReadyInv, Ready, AfterCard,
         WantedInv, HomeCommands
  <1>27. ASSUME WriteMarker
        PROVE  WantedInv'
    BY <1>27, NothingAssumption DEF NormalUse, IInv, WriteMarker, boot, net,
         services, owner, Goto, TypeOK, File, PlaceInv, ReadyInv, Ready, AfterCard,
         WantedInv, HomeCommands
  <1>28. ASSUME UNCHANGED vars
        PROVE  WantedInv'
    BY <1>28 DEF IInv, vars, boot, net, services, owner, Goto, TypeOK, File,
         PlaceInv, ReadyInv, Ready, AfterCard, WantedInv, HomeCommands
  <1>29. ASSUME ApplyDevice \/ RefuseEnvelope
        PROVE  WantedInv'
    BY <1>29, DeviceStep DEF IInv, WantedInv, HomeCommands, boot, net, services, owner
  <1> QED
    BY <1>1, <1>2, <1>3, <1>4, <1>5, <1>6, <1>7, <1>8, <1>9, <1>10, <1>11, <1>12,
         <1>13, <1>14, <1>15, <1>16, <1>17, <1>18, <1>19, <1>20, <1>21, <1>22,
         <1>23, <1>24, <1>25, <1>26, <1>27, <1>28, <1>29 DEF Next, Script

\* Every step keeps the network that was asked for.
LEMMA HomeNext ==
  ASSUME NormalUse, IInv, [Next]_vars
  PROVE  HomeInv'
  <1>1. ASSUME NEW e \in Envelope, Personalize(e)
        PROVE  HomeInv'
    <2>1. /\ envelope' = e /\ envelope' # Nothing
          /\ pc = "idle" /\ UNCHANGED <<pc, files>>
      BY <1>1, EnvelopeRecord, PersonalizeStep
    <2>2. /\ wanted'.id = e.id
          /\ "envelope" \in wanted'.wifi <=> e.wifi
          /\ "settings" \in wanted'.wifi <=> "settings" \in wanted.wifi
      BY <1>1, EnvelopeRecord DEF Personalize
    <2>3. e.id # Nothing
      BY <1>1, EnvelopeRecord, NothingAssumption
    <2>4. /\ UNCHANGED <<settings, unit, home, booted>> /\ unit
          /\ settings # Nothing \/ "settings" \notin wanted.wifi
      BY <1>1, PersonalizeStep DEF net, services
    <2> QED
      BY <2>1, <2>2, <2>3, <2>4 DEF IInv, HomeInv, HomeCommands, AfterSettings,
           AfterCard
  <1>2. ASSUME NEW s \in Settings, CopySettings(s)
        PROVE  HomeInv'
    <2>1. /\ settings' = s /\ s # Nothing
          /\ "settings" \in wanted'.wifi <=> s = "wifi"
          /\ wanted'.wifi = {"envelope"} => "envelope" \in wanted.wifi
          /\ "envelope" \in wanted'.wifi <=> "envelope" \in wanted.wifi
          /\ wanted'.id = wanted.id
      BY <1>2, NothingAssumption DEF IInv, TypeOK, CopySettings
    <2>2. /\ pc = "idle" /\ unit
          /\ UNCHANGED <<envelope, home, pc, unit, booted>>
          /\ booted => settings = "bad"
      BY <1>2, NothingAssumption DEF IInv, PlaceInv, ReadyInv, HomeInv,
           CopySettings, Settings, net, services
    <2>3. booted => "settings" \notin wanted.wifi
      BY <2>2, NothingAssumption DEF IInv, HomeInv, Settings
    <2>4. envelope = Nothing /\ wanted'.wifi = {"envelope"} =>
            home = [from |-> "envelope", whole |-> TRUE]
      <3>1. CASE booted
        <4>1. wanted'.wifi = {"envelope"} => wanted.wifi = {"envelope"}
          BY <2>1, <2>3, <3>1 DEF IInv, TypeOK
        <4> QED
          BY <4>1 DEF IInv, HomeInv
      <3>2. CASE ~booted
        BY <2>1, <3>2 DEF IInv, HomeInv, WantedInv
      <3> QED
        BY <3>1, <3>2
    <2> QED
      BY <2>1, <2>2, <2>4 DEF IInv, HomeInv, HomeCommands, AfterSettings, AfterCard,
           Source
  <1>3. ASSUME PowerOn
        PROVE  HomeInv'
    BY <1>3, NothingAssumption DEF NormalUse, IInv, PowerOn, Usable, boot, net,
         services, owner, Goto, TypeOK, PlaceInv, ReadyInv, Ready, AfterCard,
         HomeCommands, WantedInv, HomeInv, Source, AfterSettings
  <1>4. ASSUME TurnOff
        PROVE  HomeInv'
    BY <1>4, NothingAssumption DEF NormalUse, IInv, TurnOff, boot, net, services,
         owner, Goto, TypeOK, PlaceInv, ReadyInv, Ready, AfterCard, HomeCommands,
         WantedInv, HomeInv, Source, AfterSettings
  <1>5. ASSUME NetworkChanges
        PROVE  HomeInv'
    BY <1>5, NothingAssumption DEF NormalUse, IInv, NetworkChanges, Usable, boot,
         net, services, owner, Goto, TypeOK, PlaceInv, ReadyInv, Ready, AfterCard,
         HomeCommands, WantedInv, HomeInv, Source, AfterSettings
  <1>6. ASSUME Kill
        PROVE  HomeInv'
    BY <1>6, NothingAssumption DEF NormalUse, IInv, Kill, StoppedWriting, boot, net,
         services, owner, Goto, TypeOK, PlaceInv, ReadyInv, Ready, AfterCard,
         HomeCommands, WantedInv, HomeInv, Source, AfterSettings
  <1>7. ASSUME PowerCut
        PROVE  HomeInv'
    BY <1>7, NothingAssumption DEF NormalUse, IInv, PowerCut, StoppedWriting, boot,
         net, services, owner, Goto, TypeOK, PlaceInv, ReadyInv, Ready, AfterCard,
         HomeCommands, WantedInv, HomeInv, Source, AfterSettings
  <1>8. ASSUME UpAPFails
        PROVE  HomeInv'
    BY <1>8, NothingAssumption DEF NormalUse, IInv, UpAPFails, boot, net, services,
         owner, Goto, TypeOK, PlaceInv, ReadyInv, Ready, AfterCard, HomeCommands,
         WantedInv, HomeInv, Source, AfterSettings
  <1>9. ASSUME FindEnvelope
        PROVE  HomeInv'
    BY <1>9, NothingAssumption DEF NormalUse, IInv, FindEnvelope, boot, net,
         services, owner, Goto, TypeOK, PlaceInv, ReadyInv, Ready, AfterCard,
         HomeCommands, WantedInv, HomeInv, Source, AfterSettings
  <1>10. ASSUME NEW f \in File, WriteIdentity(f)
        PROVE  HomeInv'
    <2>1. /\ envelope # Nothing /\ pc = "identity"
          /\ UNCHANGED <<envelope, settings, wanted, home, unit, booted>> /\ unit
      BY <1>10, WriteStep DEF IInv, PlaceInv, boot, net, services, owner
    <2>2. pc' \in {"identity", "device"}
      BY <1>10, WriteStep
    <2> QED
      BY <2>1, <2>2 DEF IInv, HomeInv, Source, HomeCommands,
           AfterSettings, AfterCard
  <1>11. ASSUME DeleteHome
        PROVE  HomeInv'
    <2>1. envelope = Nothing => settings = "wifi" /\ "settings" \in wanted.wifi
      BY <1>11, NothingAssumption DEF IInv, HomeInv, HomeCommands, Settings,
           DeleteHome
    <2>2. envelope # Nothing => settings # Nothing \/ "settings" \notin wanted.wifi
      BY DEF IInv, HomeInv
    <2>3. /\ UNCHANGED <<envelope, settings, wanted, unit, booted>> /\ unit
          /\ pc = "delete" /\ pc' = "add"
      BY <1>11 DEF IInv, PlaceInv, DeleteHome, boot, net, services, owner, Goto
    <2> QED
      BY <2>1, <2>2, <2>3, NothingAssumption DEF IInv, Settings, HomeInv,
           HomeCommands, AfterSettings, AfterCard, Source
  <1>12. ASSUME AddHome
        PROVE  HomeInv'
    <2>1. envelope = Nothing => settings = "wifi" /\ "settings" \in wanted.wifi
      BY <1>12, NothingAssumption DEF IInv, HomeInv, HomeCommands, Settings, AddHome
    <2>2. envelope # Nothing => settings # Nothing \/ "settings" \notin wanted.wifi
      BY DEF IInv, HomeInv
    <2>3. /\ UNCHANGED <<envelope, settings, wanted, unit, booted>> /\ unit
          /\ pc = "add" /\ pc' = "modify"
      BY <1>12 DEF IInv, PlaceInv, AddHome, boot, net, services, owner, Goto
    <2>4. home' = [from |-> Source, whole |-> FALSE] /\ Source' = Source
      BY <1>12, <2>3 DEF AddHome, Source
    <2> QED
      BY <2>1, <2>2, <2>3, <2>4, NothingAssumption DEF IInv, Settings, HomeInv,
           HomeCommands, AfterSettings, AfterCard
  <1>13. ASSUME ModifyHome
        PROVE  HomeInv'
    <2>1. envelope = Nothing => settings = "wifi" /\ "settings" \in wanted.wifi
      BY <1>13, NothingAssumption DEF IInv, HomeInv, HomeCommands, Settings,
           ModifyHome
    <2>2. envelope # Nothing => settings # Nothing \/ "settings" \notin wanted.wifi
      BY DEF IInv, HomeInv
    <2>3. /\ UNCHANGED <<envelope, settings, wanted, unit, booted>> /\ unit
          /\ pc = "modify" /\ pc' = "up"
      BY <1>13 DEF IInv, PlaceInv, ModifyHome, boot, net, services, owner, Goto
    <2>4. home' = [from |-> Source, whole |-> TRUE] /\ Source' = Source
      <3>1. home.from = Source
        BY <2>3 DEF IInv, HomeInv
      <3> QED
        BY <1>13, <2>3, <3>1 DEF ModifyHome, Source
    <2> QED
      BY <2>1, <2>2, <2>3, <2>4, NothingAssumption DEF IInv, Settings, HomeInv,
           HomeCommands, AfterSettings, AfterCard
  <1>14. ASSUME UpHome
        PROVE  HomeInv'
    BY <1>14, NothingAssumption DEF NormalUse, IInv, UpHome, boot, net, services,
         owner, Goto, TypeOK, PlaceInv, ReadyInv, Ready, AfterCard, HomeCommands,
         WantedInv, HomeInv, Source, AfterSettings
  <1>15. ASSUME RemoveImport
        PROVE  HomeInv'
    BY <1>15, NothingAssumption DEF NormalUse, IInv, RemoveImport, boot, net,
         services, owner, Goto, TypeOK, PlaceInv, ReadyInv, Ready, AfterCard,
         HomeCommands, WantedInv, HomeInv, Source, AfterSettings
  <1>16. ASSUME ReadSettings
        PROVE  HomeInv'
    BY <1>16, NothingAssumption DEF NormalUse, IInv, ReadSettings, boot, net,
         services, owner, Goto, TypeOK, PlaceInv, ReadyInv, Ready, AfterCard,
         HomeCommands, WantedInv, HomeInv, Source, AfterSettings
  <1>17. ASSUME RefuseSettings
        PROVE  HomeInv'
    BY <1>17, NothingAssumption DEF NormalUse, IInv, RefuseSettings, boot, net,
         services, owner, Goto, TypeOK, PlaceInv, ReadyInv, Ready, AfterCard,
         HomeCommands, WantedInv, HomeInv, Source, AfterSettings
  <1>18. ASSUME NEW f \in File, NEW v \in Random, Generate(f, v)
        PROVE  HomeInv'
    BY <1>18, NothingAssumption DEF NormalUse, IInv, Generate, Missing, boot, net,
         services, owner, Goto, TypeOK, PlaceInv, ReadyInv, Ready, AfterCard,
         HomeCommands, WantedInv, HomeInv, Source, AfterSettings
  <1>19. ASSUME WriteCard
        PROVE  HomeInv'
    BY <1>19, NothingAssumption DEF NormalUse, IInv, WriteCard, Missing, boot, net,
         services, owner, Goto, TypeOK, PlaceInv, ReadyInv, Ready, AfterCard,
         HomeCommands, WantedInv, HomeInv, Source, AfterSettings
  <1>20. ASSUME CheckWiFi
        PROVE  HomeInv'
    BY <1>20, NothingAssumption DEF NormalUse, IInv, CheckWiFi, boot, net, services,
         owner, Goto, TypeOK, PlaceInv, ReadyInv, Ready, AfterCard, HomeCommands,
         WantedInv, HomeInv, Source, AfterSettings
  <1>21. ASSUME DeleteAP
        PROVE  HomeInv'
    BY <1>21, NothingAssumption DEF NormalUse, IInv, DeleteAP, boot, net, services,
         owner, Goto, TypeOK, PlaceInv, ReadyInv, Ready, AfterCard, HomeCommands,
         WantedInv, HomeInv, Source, AfterSettings
  <1>22. ASSUME AddAP
        PROVE  HomeInv'
    BY <1>22, NothingAssumption, APRecord DEF NormalUse, IInv, AddAP, boot, net,
         services, owner, Goto, TypeOK, PlaceInv, ReadyInv, Ready, AfterCard,
         HomeCommands, WantedInv, HomeInv, Source, AfterSettings
  <1>23. ASSUME ModifyAP
        PROVE  HomeInv'
    BY <1>23, NothingAssumption, APRecord, APExcept DEF NormalUse, IInv, ModifyAP,
         boot, net, services, owner, Goto, TypeOK, PlaceInv, ReadyInv, Ready,
         AfterCard, HomeCommands, WantedInv, HomeInv, Source, AfterSettings
  <1>24. ASSUME UpAP
        PROVE  HomeInv'
    BY <1>24, NothingAssumption DEF NormalUse, IInv, UpAP, boot, net, services,
         owner, Goto, TypeOK, PlaceInv, ReadyInv, Ready, AfterCard, HomeCommands,
         WantedInv, HomeInv, Source, AfterSettings
  <1>25. ASSUME EnableWizard
        PROVE  HomeInv'
    BY <1>25, NothingAssumption DEF NormalUse, IInv, EnableWizard, boot, net,
         services, owner, Goto, TypeOK, PlaceInv, ReadyInv, Ready, AfterCard,
         HomeCommands, WantedInv, HomeInv, Source, AfterSettings
  <1>26. ASSUME DisableUnit
        PROVE  HomeInv'
    BY <1>26, NothingAssumption DEF NormalUse, IInv, DisableUnit, boot, net,
         services, owner, Goto, TypeOK, PlaceInv, ReadyInv, Ready, AfterCard,
         HomeCommands, WantedInv, HomeInv, Source, AfterSettings
  <1>27. ASSUME WriteMarker
        PROVE  HomeInv'
    BY <1>27, NothingAssumption DEF NormalUse, IInv, WriteMarker, boot, net,
         services, owner, Goto, TypeOK, PlaceInv, ReadyInv, Ready, AfterCard,
         HomeCommands, WantedInv, HomeInv, Source, AfterSettings
  <1>28. ASSUME UNCHANGED vars
        PROVE  HomeInv'
    BY <1>28 DEF IInv, vars, boot, net, services, owner, Goto, TypeOK, PlaceInv,
         ReadyInv, Ready, AfterCard, HomeCommands, WantedInv, HomeInv, Source,
         AfterSettings
  <1>29. ASSUME ApplyDevice \/ RefuseEnvelope
        PROVE  HomeInv'
    <2>1. /\ envelope # Nothing /\ pc = "device"
          /\ UNCHANGED <<envelope, settings, wanted, home, unit, booted>> /\ unit
      BY <1>29, DeviceStep DEF IInv, PlaceInv, boot, net, services, owner
    <2>2. /\ pc' \in {"idle", "delete", "remove"}
          /\ pc' = "delete" => envelope.wifi
          /\ pc' = "remove" => ~envelope.wifi
      BY <1>29, DeviceStep
    <2> QED
      BY <2>1, <2>2 DEF IInv, HomeInv, Source, HomeCommands, AfterSettings,
           AfterCard
  <1> QED
    BY <1>1, <1>2, <1>3, <1>4, <1>5, <1>6, <1>7, <1>8, <1>9, <1>10, <1>11, <1>12,
         <1>13, <1>14, <1>15, <1>16, <1>17, <1>18, <1>19, <1>20, <1>21, <1>22,
         <1>23, <1>24, <1>25, <1>26, <1>27, <1>28, <1>29 DEF Next, Script

\* Every step keeps a way in.
LEMMA NetNext ==
  ASSUME NormalUse, IInv, [Next]_vars
  PROVE  NetInv'
  <1>1. ASSUME NEW e \in Envelope, Personalize(e)
        PROVE  NetInv'
    BY <1>1, PersonalizeStep DEF IInv, NetInv, Reachable, net, services
  <1>2. ASSUME NEW s \in Settings, CopySettings(s)
        PROVE  NetInv'
    BY <1>2, NothingAssumption DEF NormalUse, IInv, CopySettings, boot, net,
         services, owner, Goto, TypeOK, PlaceInv, ReadyInv, Ready, HomeInv, Source,
         AfterCard, AfterSettings, HomeCommands, NetInv, Reachable
  <1>3. ASSUME PowerOn
        PROVE  NetInv'
    BY <1>3, NothingAssumption DEF NormalUse, IInv, PowerOn, Usable, boot, net,
         services, owner, Goto, TypeOK, PlaceInv, ReadyInv, Ready, HomeInv, Source,
         AfterCard, AfterSettings, HomeCommands, NetInv, Reachable
  <1>4. ASSUME TurnOff
        PROVE  NetInv'
    BY <1>4, NothingAssumption DEF NormalUse, IInv, TurnOff, boot, net, services,
         owner, Goto, TypeOK, PlaceInv, ReadyInv, Ready, HomeInv, Source, AfterCard,
         AfterSettings, HomeCommands, NetInv, Reachable
  <1>5. ASSUME NetworkChanges
        PROVE  NetInv'
    BY <1>5, NothingAssumption DEF NormalUse, IInv, NetworkChanges, Usable, boot,
         net, services, owner, Goto, TypeOK, PlaceInv, ReadyInv, Ready, HomeInv,
         Source, AfterCard, AfterSettings, HomeCommands, NetInv, Reachable
  <1>6. ASSUME Kill
        PROVE  NetInv'
    BY <1>6, NothingAssumption DEF NormalUse, IInv, Kill, StoppedWriting, boot, net,
         services, owner, Goto, TypeOK, PlaceInv, ReadyInv, Ready, HomeInv, Source,
         AfterCard, AfterSettings, HomeCommands, NetInv, Reachable
  <1>7. ASSUME PowerCut
        PROVE  NetInv'
    BY <1>7, NothingAssumption DEF NormalUse, IInv, PowerCut, StoppedWriting, boot,
         net, services, owner, Goto, TypeOK, PlaceInv, ReadyInv, Ready, HomeInv,
         Source, AfterCard, AfterSettings, HomeCommands, NetInv, Reachable
  <1>8. ASSUME UpAPFails
        PROVE  NetInv'
    BY <1>8, NothingAssumption DEF NormalUse, IInv, UpAPFails, boot, net, services,
         owner, Goto, TypeOK, PlaceInv, ReadyInv, Ready, HomeInv, Source, AfterCard,
         AfterSettings, HomeCommands, NetInv, Reachable
  <1>9. ASSUME FindEnvelope
        PROVE  NetInv'
    BY <1>9, NothingAssumption DEF NormalUse, IInv, FindEnvelope, boot, net,
         services, owner, Goto, TypeOK, PlaceInv, ReadyInv, Ready, HomeInv, Source,
         AfterCard, AfterSettings, HomeCommands, NetInv, Reachable
  <1>10. ASSUME NEW f \in File, WriteIdentity(f)
        PROVE  NetInv'
    BY <1>10, WriteStep DEF IInv, PlaceInv, NetInv, Reachable, boot, net, services,
         owner
  <1>11. ASSUME DeleteHome
        PROVE  NetInv'
    BY <1>11, NothingAssumption DEF NormalUse, IInv, DeleteHome, boot, net,
         services, owner, Goto, TypeOK, PlaceInv, ReadyInv, Ready, HomeInv, Source,
         AfterCard, AfterSettings, HomeCommands, NetInv, Reachable
  <1>12. ASSUME AddHome
        PROVE  NetInv'
    <2>1. active # "home" /\ pc = "add" /\ unit /\ UNCHANGED <<ap, active, unit>> /\ pc' = "modify"
      BY <1>12 DEF IInv, PlaceInv, NetInv, AddHome, boot, net, services, owner, Goto
    <2> QED
      BY <2>1 DEF IInv, NetInv, Reachable
  <1>13. ASSUME ModifyHome
        PROVE  NetInv'
    <2>1. home \in Home /\ home' = [from |-> home.from, whole |-> TRUE]
      BY <1>13 DEF IInv, TypeOK, PlaceInv, ModifyHome
    <2>2. home' # Nothing /\ home'.whole
      BY <2>1, HomeRecord DEF Home
    <2> QED
      BY <1>13, <2>2 DEF IInv, PlaceInv, NetInv, Reachable, ModifyHome, boot, net,
           services, owner, Goto
  <1>14. ASSUME UpHome
        PROVE  NetInv'
    BY <1>14, NothingAssumption DEF NormalUse, IInv, UpHome, boot, net, services,
         owner, Goto, TypeOK, PlaceInv, ReadyInv, Ready, HomeInv, Source, AfterCard,
         AfterSettings, HomeCommands, NetInv, Reachable
  <1>15. ASSUME RemoveImport
        PROVE  NetInv'
    BY <1>15, NothingAssumption DEF NormalUse, IInv, RemoveImport, boot, net,
         services, owner, Goto, TypeOK, PlaceInv, ReadyInv, Ready, HomeInv, Source,
         AfterCard, AfterSettings, HomeCommands, NetInv, Reachable
  <1>16. ASSUME ReadSettings
        PROVE  NetInv'
    BY <1>16, NothingAssumption DEF NormalUse, IInv, ReadSettings, boot, net,
         services, owner, Goto, TypeOK, PlaceInv, ReadyInv, Ready, HomeInv, Source,
         AfterCard, AfterSettings, HomeCommands, NetInv, Reachable
  <1>17. ASSUME RefuseSettings
        PROVE  NetInv'
    BY <1>17, NothingAssumption DEF NormalUse, IInv, RefuseSettings, boot, net,
         services, owner, Goto, TypeOK, PlaceInv, ReadyInv, Ready, HomeInv, Source,
         AfterCard, AfterSettings, HomeCommands, NetInv, Reachable
  <1>18. ASSUME NEW f \in File, NEW v \in Random, Generate(f, v)
        PROVE  NetInv'
    BY <1>18, NothingAssumption DEF NormalUse, IInv, Generate, Missing, boot, net,
         services, owner, Goto, TypeOK, PlaceInv, ReadyInv, Ready, HomeInv, Source,
         AfterCard, AfterSettings, HomeCommands, NetInv, Reachable
  <1>19. ASSUME WriteCard
        PROVE  NetInv'
    BY <1>19, NothingAssumption DEF NormalUse, IInv, WriteCard, Missing, boot, net,
         services, owner, Goto, TypeOK, PlaceInv, ReadyInv, Ready, HomeInv, Source,
         AfterCard, AfterSettings, HomeCommands, NetInv, Reachable
  <1>20. ASSUME CheckWiFi
        PROVE  NetInv'
    BY <1>20, NothingAssumption DEF NormalUse, IInv, CheckWiFi, boot, net, services,
         owner, Goto, TypeOK, PlaceInv, ReadyInv, Ready, HomeInv, Source, AfterCard,
         AfterSettings, HomeCommands, NetInv, Reachable
  <1>21. ASSUME DeleteAP
        PROVE  NetInv'
    BY <1>21, NothingAssumption DEF NormalUse, IInv, DeleteAP, boot, net, services,
         owner, Goto, TypeOK, PlaceInv, ReadyInv, Ready, HomeInv, Source, AfterCard,
         AfterSettings, HomeCommands, NetInv, Reachable
  <1>22. ASSUME AddAP
        PROVE  NetInv'
    <2>1. active # "ap" /\ pc = "ap_add" /\ unit /\ UNCHANGED <<home, active, unit>> /\ pc' = "ap_modify"
      BY <1>22 DEF IInv, PlaceInv, NetInv, AddAP, boot, net, services, owner, Goto
    <2> QED
      BY <2>1 DEF IInv, NetInv, Reachable
  <1>23. ASSUME ModifyAP
        PROVE  NetInv'
    <2>1. /\ ap \in SetupAP /\ files["ap-password"] \in Value
          /\ ap' = [name |-> ap.name, password |-> files["ap-password"]]
      BY <1>23, APExcept, NothingAssumption
         DEF IInv, TypeOK, PlaceInv, ReadyInv, Ready, AfterCard, File, ModifyAP
    <2>2. ap' # Nothing /\ ap'.password # Nothing
      BY <2>1, APRecord, NothingAssumption DEF SetupAP
    <2> QED
      BY <1>23, <2>2 DEF IInv, PlaceInv, NetInv, Reachable, ModifyAP, boot, net,
           services, owner, Goto
  <1>24. ASSUME UpAP
        PROVE  NetInv'
    BY <1>24, NothingAssumption DEF NormalUse, IInv, UpAP, boot, net, services,
         owner, Goto, TypeOK, PlaceInv, ReadyInv, Ready, HomeInv, Source, AfterCard,
         AfterSettings, HomeCommands, NetInv, Reachable
  <1>25. ASSUME EnableWizard
        PROVE  NetInv'
    BY <1>25, NothingAssumption DEF NormalUse, IInv, EnableWizard, boot, net,
         services, owner, Goto, TypeOK, PlaceInv, ReadyInv, Ready, HomeInv, Source,
         AfterCard, AfterSettings, HomeCommands, NetInv, Reachable
  <1>26. ASSUME DisableUnit
        PROVE  NetInv'
    BY <1>26, NothingAssumption DEF NormalUse, IInv, DisableUnit, boot, net,
         services, owner, Goto, TypeOK, PlaceInv, ReadyInv, Ready, HomeInv, Source,
         AfterCard, AfterSettings, HomeCommands, NetInv, Reachable
  <1>27. ASSUME WriteMarker
        PROVE  NetInv'
    BY <1>27, NothingAssumption DEF NormalUse, IInv, WriteMarker, boot, net,
         services, owner, Goto, TypeOK, PlaceInv, ReadyInv, Ready, HomeInv, Source,
         AfterCard, AfterSettings, HomeCommands, NetInv, Reachable
  <1>28. ASSUME UNCHANGED vars
        PROVE  NetInv'
    BY <1>28 DEF IInv, vars, boot, net, services, owner, Goto, TypeOK, PlaceInv,
         ReadyInv, Ready, HomeInv, Source, AfterCard, AfterSettings, HomeCommands,
         NetInv, Reachable
  <1>29. ASSUME ApplyDevice \/ RefuseEnvelope
        PROVE  NetInv'
    BY <1>29, DeviceStep DEF IInv, PlaceInv, NetInv, Reachable, boot, net, services, owner
  <1> QED
    BY <1>1, <1>2, <1>3, <1>4, <1>5, <1>6, <1>7, <1>8, <1>9, <1>10, <1>11, <1>12,
         <1>13, <1>14, <1>15, <1>16, <1>17, <1>18, <1>19, <1>20, <1>21, <1>22,
         <1>23, <1>24, <1>25, <1>26, <1>27, <1>28, <1>29 DEF Next, Script

\* A card that was just flashed.
LEMMA InvInit == NormalUse /\ Init => IInv
  <1> SUFFICES ASSUME NormalUse, Init
               PROVE  IInv
    OBVIOUS
  <1>1. TypeOK
    BY FaultAssumption DEF Init, TypeOK, PC
  <1>2. PlaceInv /\ ReadyInv /\ WantedInv
    BY DEF Init, PlaceInv, ReadyInv, WantedInv, AfterCard, HomeCommands
  <1>3. HomeInv /\ NetInv
    BY DEF Init, HomeInv, NetInv, AfterSettings, AfterCard, HomeCommands
  <1> QED
    BY <1>1, <1>2, <1>3 DEF IInv

\* The strengthened invariant holds in every reachable state.
THEOREM Invariant ==
  ASSUME NormalUse
  PROVE  Spec => []IInv
  <1>1. Init => IInv
    BY InvInit
  <1>2. IInv /\ [Next]_vars => IInv'
    BY TypeNext, PlaceNext, ReadyNext, WantedNext, HomeNext, NetNext DEF IInv
  <1> QED
    BY <1>1, <1>2, PTL DEF Spec

\* The type invariant on its own.
THEOREM TypeCorrect ==
  ASSUME NormalUse
  PROVE  Spec => []TypeOK
  <1>1. IInv => TypeOK
    BY DEF IInv
  <1> QED
    BY Invariant, <1>1, PTL

\* However often first boot is stopped and started over, the card opens the
\* set-up network that exists and the wizard that runs.
THEOREM CardOpens ==
  ASSUME NormalUse
  PROVE  Spec => []CardOpensDevice
  <1>1. IInv => CardOpensDevice
    BY DEF IInv, ReadyInv, Ready, CardOpensDevice
  <1> QED
    BY Invariant, <1>1, PTL

\* When the service is done, what the owner asked for is in place and is no
\* longer on the card.
THEOREM Imported ==
  ASSUME NormalUse
  PROVE  Spec => []ImportedAndDeleted
  <1>1. IInv => ImportedAndDeleted
    <2> SUFFICES ASSUME IInv, ~unit
                 PROVE  /\ envelope = Nothing /\ settings = Nothing
                        /\ wanted.id # Nothing => files = [f \in File |-> wanted.id]
                        /\ wanted.wifi # {} =>
                             home = [from |-> IF "settings" \in wanted.wifi
                                                THEN "settings" ELSE "envelope",
                                     whole |-> TRUE]
      BY DEF ImportedAndDeleted, Finished
    <2>1. envelope = Nothing /\ settings = Nothing
      BY DEF IInv, ReadyInv, Ready, HomeInv
    <2>2. wanted.wifi \in SUBSET {"envelope", "settings"}
      BY DEF IInv, TypeOK
    <2> QED
      BY <2>1, <2>2 DEF IInv, WantedInv, HomeInv
  <1> QED
    BY Invariant, <1>1, PTL

\* The service never ends with an appliance that cannot be reached.
THEOREM Reached ==
  ASSUME NormalUse
  PROVE  Spec => []WayIn
  <1>1. IInv => WayIn
    BY DEF IInv, NetInv, Reachable, WayIn, Finished
  <1> QED
    BY Invariant, <1>1, PTL
=============================================================================
