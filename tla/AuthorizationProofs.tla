-------------------------- MODULE AuthorizationProofs --------------------------
(***************************************************************************)
(* The authorization keeps its promises for any number of accounts,        *)
(* sessions, handlers and codes.                                           *)
(*                                                                         *)
(* InstallInv says how far each installer has come with its files, and     *)
(* that one that met no other writer left what it wrote; DurableInv that   *)
(* what a power loss may bring back is no worse; IdentInv whom a handler   *)
(* asks the helper to install.  The first two are inductive together only: *)
(* a power loss makes the old of the files the current one.                *)
(***************************************************************************)
EXTENDS Authorization, TLAPS

\* A session that is written back is one the map may hold.
LEMMA WriteBackType == \A k : WriteBack(k) \in Entry
  BY DEF WriteBack, InMap, Entry

\* The types, of the authorization's files and of the rest.
FilesOK ==
  /\ token \in Account \cup {none, torn} /\ env \in Account \cup {none}
  /\ past \subseteq (Account \cup {none, torn}) \X BOOLEAN
  /\ envBefore \subseteq Account \cup {none}
  /\ loose \in BOOLEAN /\ marker \in BOOLEAN /\ crossed \in BOOLEAN /\ scrambled \in BOOLEAN

RestOK ==
  /\ entry \in [Key -> Entry] /\ flow \in [Key -> Code \cup {none}]
  /\ code \in [Code -> {"unissued", "pending", "dead"} \cup Account]
  /\ pc \in [Request -> PC]
  /\ key \in [Request -> Key \cup {none}]
  /\ polled \in [Request -> Code \cup {none}]
  /\ ident \in [Request -> Account \cup {none}]
  /\ inst \in [Request -> Inst]
  /\ dpc \in DaemonPC
  /\ dpin \in Account \cup {none} /\ dtok \in Account \cup {none}
  /\ cli \in Account \cup {none}

\* Together they are the type invariant.
LEMMA TypeParts == TypeOK <=> FilesOK /\ RestOK
  BY DEF TypeOK, FilesOK, RestOK

\* One step of any process keeps the types of everything but the files.
LEMMA RestStep == TypeOK /\ [Next]_vars => RestOK'
<1> SUFFICES ASSUME RestOK, token \in Account \cup {none, torn}, env \in Account \cup {none}, [Next]_vars
             PROVE  RestOK'
  BY TypeParts DEF FilesOK
<1> USE DEF RestOK, Entry, InMap, PC, Inst, DaemonPC, Writing
<1>1. ASSUME NEW k \in Key, Login(k) PROVE RestOK'
  BY <1>1 DEF Login, sessions, handlers, daemon
<1>2. ASSUME NEW k \in Key, SessionEnds(k) PROVE RestOK'
  BY <1>2 DEF SessionEnds, sessions, handlers, daemon
<1>3. ASSUME NEW k \in Key, RefuseRequest(k) PROVE RestOK'
  BY <1>3 DEF RefuseRequest, sessions, handlers, daemon, Drop
<1>4. ASSUME NEW c \in Code, NEW d \in Account \cup {"dead"}, Decide(c, d) PROVE RestOK'
  BY <1>4 DEF Decide, sessions, handlers, daemon
<1>5. ASSUME NEW r \in Request, NEW k \in Key, StartTwitch(r, k) PROVE RestOK'
  BY <1>5 DEF StartTwitch, sessions, handlers, daemon
<1>6. ASSUME NEW r \in Request, NEW k \in Key, PollTwitch(r, k) PROVE RestOK'
  BY <1>6 DEF PollTwitch, sessions, handlers, daemon
<1>7. ASSUME NEW r \in Request, NEW c \in Code, IssueCode(r, c) PROVE RestOK'
  <2>1. flow' \in [Key -> Code \cup {none}]
    BY <1>7 DEF IssueCode, sessions, handlers, daemon, Return
  <2>2. code' \in [Code -> {"unissued", "pending", "dead"} \cup Account]
    BY <1>7 DEF IssueCode, sessions, handlers, daemon, Return
  <2>3. entry' \in [Key -> Entry]
    BY <1>7 DEF IssueCode, sessions, handlers, daemon, Return
  <2>4. /\ pc' \in [Request -> PC]
        /\ key' \in [Request -> Key \cup {none}] /\ polled' \in [Request -> Code \cup {none}]
        /\ ident' \in [Request -> Account \cup {none}] /\ inst' \in [Request -> Inst]
        /\ dpc' \in DaemonPC
        /\ dpin' \in Account \cup {none} /\ dtok' \in Account \cup {none}
        /\ cli' \in Account \cup {none}
    BY <1>7 DEF IssueCode, sessions, handlers, daemon, Return
  <2>q. QED  BY <2>1, <2>2, <2>3, <2>4
<1>8. ASSUME NEW r \in Request, StartFails(r) PROVE RestOK'
  BY <1>8 DEF StartFails, sessions, handlers, daemon, Return
<1>9. ASSUME NEW r \in Request, PollAuthorized(r) PROVE RestOK'
  <2>1. code' \in [Code -> {"unissued", "pending", "dead"} \cup Account]
    BY <1>9 DEF PollAuthorized, sessions, handlers, daemon
  <2>2. ident' \in [Request -> Account \cup {none}]
    BY <1>9 DEF PollAuthorized, sessions, handlers, daemon
  <2>3. /\ entry' \in [Key -> Entry]
        /\ flow' \in [Key -> Code \cup {none}] /\ pc' \in [Request -> PC]
        /\ key' \in [Request -> Key \cup {none}] /\ polled' \in [Request -> Code \cup {none}]
        /\ inst' \in [Request -> Inst] /\ dpc' \in DaemonPC /\ dpin' \in Account \cup {none}
        /\ dtok' \in Account \cup {none} /\ cli' \in Account \cup {none}
    BY <1>9 DEF PollAuthorized, sessions, handlers, daemon
  <2>q. QED  BY <2>1, <2>2, <2>3
<1>10. ASSUME NEW r \in Request, PollWaits(r) PROVE RestOK'
  BY <1>10 DEF PollWaits, sessions, handlers, daemon, Slow, WriteBack, Return
<1>11. ASSUME NEW r \in Request, PollFails(r) PROVE RestOK'
  <2>1. entry' \in [Key -> Entry]
    BY <1>11, WriteBackType DEF PollFails, sessions, handlers, daemon, ClearFlow, Return
  <2>2. flow' \in [Key -> Code \cup {none}]
    BY <1>11 DEF PollFails, sessions, handlers, daemon, ClearFlow, WriteBack, Return
  <2>3. code' \in [Code -> {"unissued", "pending", "dead"} \cup Account]
    BY <1>11 DEF PollFails, sessions, handlers, daemon, ClearFlow, WriteBack, Return
  <2>4. /\ pc' \in [Request -> PC]
        /\ key' \in [Request -> Key \cup {none}] /\ polled' \in [Request -> Code \cup {none}]
    BY <1>11 DEF PollFails, sessions, handlers, daemon, ClearFlow, WriteBack, Return
  <2>5. /\ ident' \in [Request -> Account \cup {none}]
        /\ inst' \in [Request -> Inst] /\ dpc' \in DaemonPC /\ dpin' \in Account \cup {none}
        /\ dtok' \in Account \cup {none} /\ cli' \in Account \cup {none}
    BY <1>11 DEF PollFails, sessions, handlers, daemon, ClearFlow, WriteBack, Return
  <2>q. QED  BY <2>1, <2>2, <2>3, <2>4, <2>5
<1>12. ASSUME NEW r \in Request, AskHelper(r) PROVE RestOK'
  BY <1>12 DEF AskHelper, sessions, handlers, daemon, Return
<1>13. ASSUME NEW r \in Request, GiveUp(r) PROVE RestOK'
  BY <1>13 DEF GiveUp, sessions, handlers, daemon, Return
<1>14. ASSUME NEW r \in Request, Unlink(r) PROVE RestOK'
  BY <1>14 DEF Unlink, sessions, handlers, daemon, Advance
<1>15. ASSUME NEW r \in Request, WriteToken(r) PROVE RestOK'
  BY <1>15 DEF WriteToken, sessions, handlers, daemon, Advance
<1>16. ASSUME NEW r \in Request, WriteEnv(r) PROVE RestOK'
  BY <1>16 DEF WriteEnv, sessions, handlers, daemon, Advance
<1>17. ASSUME NEW r \in Request, WriteMarker(r) PROVE RestOK'
  BY <1>17 DEF WriteMarker, sessions, handlers, daemon, Advance
<1>18. ASSUME NEW r \in Request, Restart(r) PROVE RestOK'
  BY <1>18 DEF Restart, sessions, handlers, daemon, Advance
<1>19. ASSUME NEW r \in Request, Installed(r) PROVE RestOK'
  BY <1>19 DEF Installed, sessions, handlers, daemon, FreeInstaller, Advance, ClearFlow,
     WriteBack, Return
<1>20. ASSUME NEW r \in Request, InstallFails(r) PROVE RestOK'
  BY <1>20 DEF InstallFails, sessions, handlers, daemon, FreeInstaller, Advance, Return
<1>21. ASSUME StartDaemon PROVE RestOK'
  BY <1>21 DEF StartDaemon, sessions, handlers, daemon
<1>22. ASSUME DaemonExits PROVE RestOK'
  BY <1>22 DEF DaemonExits, sessions, handlers, daemon, StopDaemon
<1>23. ASSUME LoadToken PROVE RestOK'
  BY <1>23 DEF LoadToken, sessions, handlers, daemon
<1>24. ASSUME RefreshToken PROVE RestOK'
  BY <1>24 DEF RefreshToken, sessions, handlers, daemon
<1>25. ASSUME ValidateToken PROVE RestOK'
  BY <1>25 DEF ValidateToken, sessions, handlers, daemon
<1>26. ASSUME SaveToken PROVE RestOK'
  BY <1>26 DEF SaveToken, sessions, handlers, daemon
<1>27. ASSUME TryAgain PROVE RestOK'
  BY <1>27 DEF TryAgain, sessions, handlers, daemon
<1>28. ASSUME StartAuthorize PROVE RestOK'
  BY <1>28 DEF StartAuthorize, sessions, handlers, daemon
<1>29. ASSUME EndAuthorize PROVE RestOK'
  BY <1>29 DEF EndAuthorize, sessions, handlers, daemon
<1>30. ASSUME WizardCrash PROVE RestOK'
  BY <1>30 DEF WizardCrash, sessions, handlers, daemon, WizardExits, Drop
<1>31. ASSUME PowerLoss PROVE RestOK'
  BY <1>31 DEF PowerLoss, sessions, handlers, daemon, WizardExits, StopDaemon, Drop
<1>33. ASSUME NEW r \in Request, SyncToken(r) PROVE RestOK'
  BY <1>33 DEF SyncToken, sessions, handlers, daemon, Advance
<1>34. ASSUME NEW r \in Request, SyncEnv(r) PROVE RestOK'
  BY <1>34 DEF SyncEnv, sessions, handlers, daemon, Advance
<1>35. ASSUME NEW r \in Request, SyncMarker(r) PROVE RestOK'
  BY <1>35 DEF SyncMarker, sessions, handlers, daemon, Advance
<1>32. CASE UNCHANGED vars
  BY <1>32 DEF vars
<1>q. QED
  BY <1>1, <1>2, <1>3, <1>4, <1>5, <1>6, <1>7, <1>8, <1>9, <1>10, <1>11, <1>12, <1>13, <1>14,
     <1>15, <1>16, <1>17, <1>18, <1>19, <1>20, <1>21, <1>22, <1>23, <1>24, <1>25, <1>26, <1>27,
     <1>28, <1>29, <1>30, <1>31, <1>32, <1>33, <1>34, <1>35 DEF Next

\* What the directory may hold.
LEMMA NowIs ==
  /\ \A p \in Now : p[2] = marker /\ p[1] \in {token, torn}
  /\ \A p \in Now' : p[2] = marker' /\ p[1] \in {token', torn}
  BY DEF Now

\* It holds what the two files are.
LEMMA NowNotEmpty == <<token, marker>> \in Now
  BY DEF Now

\* And nothing but tokens and markers.
LEMMA NowType == FilesOK => Now \subseteq (Account \cup {none, torn}) \X BOOLEAN
  BY DEF FilesOK, Now

\* And those of the files.
LEMMA FilesStep == TypeOK /\ [Next]_vars => FilesOK'
<1> SUFFICES ASSUME TypeOK, FilesOK, RestOK, [Next]_vars PROVE FilesOK'
  BY TypeParts
<1>1. CASE UNCHANGED files
  BY <1>1 DEF FilesOK, files
<1> DEFINE Known == (Account \cup {none, torn}) \X BOOLEAN
<1>2. ASSUME past' = past \cup Now
      PROVE  past' \subseteq Known
  BY <1>2, NowType DEF FilesOK
<1>3. ASSUME NEW r \in Request, Unlink(r) PROVE FilesOK'
  <2>1. past' \subseteq Known
    BY <1>2, <1>3 DEF Unlink
  <2>q. QED  BY <1>3, <2>1 DEF FilesOK, Unlink
<1>4. ASSUME NEW r \in Request, WriteToken(r) PROVE FilesOK'
  <2>1. past' \subseteq Known
    BY <1>2, <1>4 DEF WriteToken
  <2>q. QED  BY <1>4, <2>1 DEF FilesOK, RestOK, WriteToken
<1>5. ASSUME NEW r \in Request, SyncToken(r) PROVE FilesOK'
  <2>1. crossed' \in BOOLEAN /\ scrambled' \in BOOLEAN
    BY <1>5 DEF SyncToken, Afresh, FilesOK
  <2>q. QED  BY <1>5, <2>1 DEF FilesOK, SyncToken
<1>6. ASSUME NEW r \in Request, WriteEnv(r) PROVE FilesOK'
  BY <1>6 DEF FilesOK, RestOK, WriteEnv
<1>7. ASSUME NEW r \in Request, SyncEnv(r) PROVE FilesOK'
  BY <1>7 DEF FilesOK, SyncEnv
<1>8. ASSUME NEW r \in Request, WriteMarker(r) PROVE FilesOK'
  <2>1. past' \subseteq Known
    BY <1>2, <1>8 DEF WriteMarker
  <2>q. QED  BY <1>8, <2>1 DEF FilesOK, WriteMarker
<1>9. ASSUME NEW r \in Request, SyncMarker(r) PROVE FilesOK'
  BY <1>9 DEF FilesOK, SyncMarker
<1>10. ASSUME NEW a \in Account \cup {none}, SaveAs(a) PROVE FilesOK'
  <2>1. past' \subseteq Known
    BY <1>2, <1>10 DEF SaveAs
  <2>2. crossed' \in BOOLEAN
    BY <1>10 DEF SaveAs
  <2>q. QED  BY <1>10, <2>1, <2>2 DEF FilesOK, SaveAs
<1>11. CASE SaveToken \/ EndAuthorize
  BY <1>1, <1>10, <1>11 DEF SaveToken, EndAuthorize, RestOK
<1>12. CASE PowerLoss
  <2>1. past \cup Now \subseteq Known
    BY NowType DEF FilesOK
  <2>2. /\ token' \in {p[1] : p \in past \cup Now} /\ marker' \in {p[2] : p \in past \cup Now}
        /\ scrambled' = (scrambled \/ <<token', marker'>> \notin past \cup Now)
        /\ env' \in envBefore \cup {env}
        /\ past' = {} /\ envBefore' = {} /\ loose' = FALSE /\ crossed' = crossed
    BY <1>12 DEF PowerLoss
  <2>3. token' \in Account \cup {none, torn} /\ marker' \in BOOLEAN
    BY <2>1, <2>2
  <2>4. scrambled' \in BOOLEAN
    BY <2>2
  <2>q. QED  BY <2>2, <2>3, <2>4 DEF FilesOK
<1>13. ASSUME Next,
             \A r \in Request : ~(Unlink(r) \/ WriteToken(r) \/ SyncToken(r) \/ WriteEnv(r)
                                  \/ SyncEnv(r) \/ WriteMarker(r) \/ SyncMarker(r)),
             ~(SaveToken \/ EndAuthorize \/ PowerLoss)
      PROVE  UNCHANGED files
  BY <1>13 DEF Next, files, Login, SessionEnds, RefuseRequest, Decide, StartTwitch, PollTwitch,
     IssueCode, StartFails, PollAuthorized, PollWaits, PollFails, AskHelper, GiveUp, Restart,
     Installed, InstallFails, StartDaemon, DaemonExits, LoadToken, RefreshToken, ValidateToken,
     TryAgain, StartAuthorize, WizardCrash
<1>14. CASE UNCHANGED vars
  BY <1>1, <1>14 DEF vars, files
<1>q. QED
  BY <1>1, <1>3, <1>4, <1>5, <1>6, <1>7, <1>8, <1>9, <1>11, <1>12, <1>13, <1>14

\* One step of any process keeps the types.
LEMMA TypeStep == TypeOK /\ [Next]_vars => TypeOK'
<1>1. TypeOK' <=> FilesOK' /\ RestOK'
  BY DEF TypeOK, FilesOK, RestOK
<1>q. QED  BY <1>1, FilesStep, RestStep

\* A handler asks the helper for the account its own poll returned.
LEMMA IdentStep == TypeOK /\ IdentInv /\ [Next]_vars => IdentInv'
<1> SUFFICES ASSUME TypeOK, IdentInv, [Next]_vars PROVE IdentInv'
  OBVIOUS
<1> USE DEF TypeOK, IdentInv
<1>1. ASSUME NEW k \in Key, Login(k) PROVE IdentInv'
  BY <1>1 DEF Login, handlers
<1>2. ASSUME NEW k \in Key, SessionEnds(k) PROVE IdentInv'
  BY <1>2 DEF SessionEnds, handlers
<1>3. ASSUME NEW k \in Key, RefuseRequest(k) PROVE IdentInv'
  BY <1>3 DEF RefuseRequest, handlers, Drop
<1>4. ASSUME NEW c \in Code, NEW d \in Account \cup {"dead"}, Decide(c, d) PROVE IdentInv'
  BY <1>4 DEF Decide, handlers
<1>5. ASSUME NEW r \in Request, NEW k \in Key, StartTwitch(r, k) PROVE IdentInv'
  BY <1>5 DEF StartTwitch, handlers
<1>6. ASSUME NEW r \in Request, NEW k \in Key, PollTwitch(r, k) PROVE IdentInv'
  BY <1>6 DEF PollTwitch, handlers
<1>7. ASSUME NEW r \in Request, NEW c \in Code, IssueCode(r, c) PROVE IdentInv'
  BY <1>7 DEF IssueCode, handlers, Return
<1>8. ASSUME NEW r \in Request, StartFails(r) PROVE IdentInv'
  BY <1>8 DEF StartFails, handlers, Return
<1>9. ASSUME NEW r \in Request, PollAuthorized(r) PROVE IdentInv'
  BY <1>9 DEF PollAuthorized, handlers
<1>10. ASSUME NEW r \in Request, PollWaits(r) PROVE IdentInv'
  BY <1>10 DEF PollWaits, handlers, Slow, WriteBack, Return
<1>11. ASSUME NEW r \in Request, PollFails(r) PROVE IdentInv'
  BY <1>11 DEF PollFails, handlers, ClearFlow, WriteBack, Return
<1>12. ASSUME NEW r \in Request, AskHelper(r) PROVE IdentInv'
  BY <1>12 DEF AskHelper, handlers, Return
<1>13. ASSUME NEW r \in Request, GiveUp(r) PROVE IdentInv'
  BY <1>13 DEF GiveUp, handlers, Return
<1>14. ASSUME NEW r \in Request, Unlink(r) PROVE IdentInv'
  BY <1>14 DEF Unlink, handlers, Advance
<1>15. ASSUME NEW r \in Request, WriteToken(r) PROVE IdentInv'
  BY <1>15 DEF WriteToken, handlers, Advance
<1>16. ASSUME NEW r \in Request, WriteEnv(r) PROVE IdentInv'
  BY <1>16 DEF WriteEnv, handlers, Advance
<1>17. ASSUME NEW r \in Request, WriteMarker(r) PROVE IdentInv'
  BY <1>17 DEF WriteMarker, handlers, Advance
<1>18. ASSUME NEW r \in Request, Restart(r) PROVE IdentInv'
  BY <1>18 DEF Restart, handlers, Advance
<1>19. ASSUME NEW r \in Request, Installed(r) PROVE IdentInv'
  BY <1>19 DEF Installed, handlers, FreeInstaller, Advance, ClearFlow, WriteBack, Return
<1>20. ASSUME NEW r \in Request, InstallFails(r) PROVE IdentInv'
  BY <1>20 DEF InstallFails, handlers, FreeInstaller, Advance, Return
<1>21. ASSUME StartDaemon PROVE IdentInv'
  BY <1>21 DEF StartDaemon, handlers
<1>22. ASSUME DaemonExits PROVE IdentInv'
  BY <1>22 DEF DaemonExits, handlers, StopDaemon
<1>23. ASSUME LoadToken PROVE IdentInv'
  BY <1>23 DEF LoadToken, handlers
<1>24. ASSUME RefreshToken PROVE IdentInv'
  BY <1>24 DEF RefreshToken, handlers
<1>25. ASSUME ValidateToken PROVE IdentInv'
  BY <1>25 DEF ValidateToken, handlers
<1>26. ASSUME SaveToken PROVE IdentInv'
  BY <1>26 DEF SaveToken, handlers, SaveAs
<1>27. ASSUME TryAgain PROVE IdentInv'
  BY <1>27 DEF TryAgain, handlers
<1>28. ASSUME StartAuthorize PROVE IdentInv'
  BY <1>28 DEF StartAuthorize, handlers
<1>29. ASSUME EndAuthorize PROVE IdentInv'
  BY <1>29 DEF EndAuthorize, handlers, SaveAs
<1>30. ASSUME WizardCrash PROVE IdentInv'
  BY <1>30 DEF WizardCrash, handlers, WizardExits, Drop
<1>31. ASSUME PowerLoss PROVE IdentInv'
  BY <1>31 DEF PowerLoss, handlers, WizardExits, StopDaemon, Drop
<1>33. ASSUME NEW r \in Request, SyncToken(r) PROVE IdentInv'
  BY <1>33 DEF SyncToken, handlers, Advance
<1>34. ASSUME NEW r \in Request, SyncEnv(r) PROVE IdentInv'
  BY <1>34 DEF SyncEnv, handlers, Advance
<1>35. ASSUME NEW r \in Request, SyncMarker(r) PROVE IdentInv'
  BY <1>35 DEF SyncMarker, handlers, Advance
<1>32. CASE UNCHANGED vars
  BY <1>32 DEF vars
<1>q. QED
  BY <1>1, <1>2, <1>3, <1>4, <1>5, <1>6, <1>7, <1>8, <1>9, <1>10, <1>11, <1>12, <1>13, <1>14,
     <1>15, <1>16, <1>17, <1>18, <1>19, <1>20, <1>21, <1>22, <1>23, <1>24, <1>25, <1>26, <1>27,
     <1>28, <1>29, <1>30, <1>31, <1>32, <1>33, <1>34, <1>35 DEF Next

\* Files change under the daemon, its loaded token and its pin do not.
LEMMA ServesStep == TypeOK /\ ServesPinnedAccount /\ [Next]_vars => ServesPinnedAccount'
<1> SUFFICES ASSUME TypeOK, ServesPinnedAccount, [Next]_vars PROVE ServesPinnedAccount'
  OBVIOUS
<1> USE DEF TypeOK, ServesPinnedAccount, DaemonPC
<1>1. CASE UNCHANGED daemon
  BY <1>1 DEF daemon
<1>2. ASSUME NEW r \in Request, Restart(r) PROVE ServesPinnedAccount'
  BY <1>2 DEF Restart
<1>3. CASE StartDaemon \/ DaemonExits \/ PowerLoss
  BY <1>3 DEF StartDaemon, DaemonExits, PowerLoss, StopDaemon
<1>4. CASE LoadToken \/ RefreshToken \/ TryAgain
  BY <1>4 DEF LoadToken, RefreshToken, TryAgain
<1>5. CASE ValidateToken \/ SaveToken
  BY <1>5 DEF ValidateToken, SaveToken
<1>6. ASSUME Next,
             \A r \in Request : ~Restart(r),
             ~(StartDaemon \/ DaemonExits \/ PowerLoss),
             ~(LoadToken \/ RefreshToken \/ TryAgain),
             ~(ValidateToken \/ SaveToken)
      PROVE  UNCHANGED daemon
  BY <1>6 DEF Next, daemon, Login, SessionEnds, RefuseRequest, Decide, StartTwitch, PollTwitch,
     IssueCode, StartFails, PollAuthorized, PollWaits, PollFails, AskHelper, GiveUp, Unlink,
     WriteToken, SyncToken, WriteEnv, SyncEnv, WriteMarker, SyncMarker, Installed, InstallFails,
     StartAuthorize, EndAuthorize, WizardCrash
<1>7. CASE UNCHANGED vars
  BY <1>7 DEF vars
<1>q. QED
  BY <1>1, <1>2, <1>3, <1>4, <1>5, <1>6, <1>7

(* The files.  A step that touches neither them nor the writers keeps both  *)
(* invariants; of the others each has its own step.                         *)

\* Steps that leave the files and their writers alone.
LEMMA Frame ==
  ASSUME InstallInv, DurableInv, UNCHANGED files,
         \A r \in Request : inst'[r] \in Writing => inst'[r] = inst[r] /\ ident'[r] = ident[r]
  PROVE  InstallInv' /\ DurableInv'
<1>1. InstallInv'
  BY DEF InstallInv, Alone, files, Writing
<1>2. Now' = Now /\ past' = past /\ env' = env /\ envBefore' = envBefore /\ (Alone' <=> Alone)
  BY DEF files, Now, Alone
<1>3. DurableInv'
  BY <1>2 DEF DurableInv
<1>q. QED  BY <1>1, <1>3

Quiet == /\ UNCHANGED files
         /\ \A r \in Request : inst'[r] \in Writing => inst'[r] = inst[r] /\ ident'[r] = ident[r]

\* The installer's steps, one lemma each: first the marker goes.
LEMMA UnlinkStep ==
  ASSUME TypeOK, IdentInv, InstallInv, DurableInv, NEW r \in Request, Unlink(r)
  PROVE  InstallInv' /\ DurableInv'
<1> USE DEF TypeOK, Writing
<1>1. ASSUME Alone' PROVE Alone /\ Others(r) = {}
  BY <1>1 DEF Unlink, Alone
<1>2. ASSUME NEW q \in Request, inst'[q] \in Writing, Alone' PROVE q = r
  BY <1>1, <1>2 DEF Unlink, Advance, Others
<1>3. inst'[r] = "token" /\ marker' = FALSE
  BY DEF Unlink, Advance
<1>4. InstallInv'
  BY <1>2, <1>3 DEF InstallInv
<1>5. env' = env /\ envBefore' = envBefore /\ past' = past \cup Now
  BY DEF Unlink
<1>6. \A p \in Now' : ~p[2]
  BY <1>3, NowIs
<1>7. DurableInv'
  BY <1>1, <1>5, <1>6 DEF DurableInv
<1>q. QED  BY <1>4, <1>7

\* The token, renamed.
LEMMA WriteTokenStep ==
  ASSUME TypeOK, IdentInv, InstallInv, DurableInv, NEW r \in Request, WriteToken(r)
  PROVE  InstallInv' /\ DurableInv'
<1> USE DEF TypeOK, Writing
<1>1. /\ inst[r] = "token" /\ inst' = [inst EXCEPT ![r] = "token_sync"]
      /\ token' = ident[r] /\ ident' = ident /\ marker' = marker /\ past' = past \cup Now
      /\ env' = env /\ envBefore' = envBefore /\ (Alone' <=> Alone)
  BY DEF WriteToken, Advance, Alone
<1>2. ASSUME NEW q \in Request, inst'[q] \in Writing, Alone PROVE q = r
  BY <1>1, <1>2 DEF InstallInv
<1>3. Alone => ~marker
  BY <1>1 DEF InstallInv
<1>4. InstallInv'
  BY <1>1, <1>2, <1>3 DEF InstallInv
<1>5. Alone => \A p \in Now' : ~p[2]
  BY <1>1, <1>3, NowIs
<1>6. DurableInv'
  BY <1>1, <1>5 DEF DurableInv
<1>q. QED  BY <1>4, <1>6

\* And synced with its directory: nothing that had a marker can come back.
LEMMA SyncTokenStep ==
  ASSUME TypeOK, IdentInv, InstallInv, DurableInv, NEW r \in Request, SyncToken(r)
  PROVE  InstallInv' /\ DurableInv'
<1> USE DEF TypeOK, Writing
<1>1. /\ inst[r] = "token_sync" /\ inst' = [inst EXCEPT ![r] = "env"]
      /\ UNCHANGED <<token, loose, marker, ident>> /\ past' = {}
  BY DEF SyncToken, Advance
<1>2. ASSUME Alone' PROVE Others(r) = {} /\ ~marker /\ token = ident[r]
  <2>1. CASE Alone
    BY <1>1, <2>1 DEF InstallInv, Others
  <2>2. CASE ~Alone
    BY <1>2, <2>2 DEF SyncToken, Afresh, Alone
  <2>q. QED  BY <2>1, <2>2
<1>3. ASSUME NEW q \in Request, inst'[q] \in Writing, Alone' PROVE q = r
  BY <1>1, <1>2, <1>3 DEF Others
<1>4. InstallInv'
  BY <1>1, <1>2, <1>3 DEF InstallInv
<1>5. Alone' => \A p \in Now' : ~p[2]
  BY <1>1, <1>2, NowIs
<1>6. DurableInv'
  BY <1>1, <1>5 DEF DurableInv
<1>q. QED  BY <1>4, <1>6

\* What an installer that works alone relies on once its token is synced.
LEMMA Unmarked ==
  ASSUME TypeOK, InstallInv, Alone, NEW r \in Request, inst[r] \in {"env", "env_sync", "marker"}
  PROVE  /\ ~marker /\ token = ident[r] /\ \A p \in past : ~p[2]
         /\ \A p \in past \cup Now : ~p[2]
         /\ \A q \in Request : inst[q] \in Writing => q = r
<1>1. /\ ~marker /\ token = ident[r] /\ \A p \in past : ~p[2]
      /\ \A q \in Request : inst[q] \in Writing => q = r
  BY DEF InstallInv, Writing
<1>2. \A p \in Now : ~p[2]
  BY <1>1, NowIs
<1>q. QED  BY <1>1, <1>2

\* The environment beside it.
LEMMA WriteEnvStep ==
  ASSUME TypeOK, IdentInv, InstallInv, DurableInv, NEW r \in Request, WriteEnv(r)
  PROVE  InstallInv' /\ DurableInv'
<1> USE DEF TypeOK
<1>1. /\ inst[r] = "env" /\ inst' = [inst EXCEPT ![r] = "env_sync"]
      /\ UNCHANGED <<token, loose, marker, past, ident>> /\ env' = ident[r]
      /\ Now' = Now /\ (Alone' <=> Alone)
  BY DEF WriteEnv, Advance, Alone, Now
<1>2. Alone => /\ ~marker /\ token = ident[r] /\ \A p \in past : ~p[2]
               /\ \A p \in past \cup Now : ~p[2]
               /\ \A q \in Request : inst[q] \in Writing => q = r
  BY <1>1, Unmarked
<1>3. InstallInv'
  BY <1>1, <1>2 DEF InstallInv, Writing
<1>4. DurableInv'
  BY <1>1, <1>2 DEF DurableInv
<1>q. QED  BY <1>3, <1>4

\* And synced.
LEMMA SyncEnvStep ==
  ASSUME TypeOK, IdentInv, InstallInv, DurableInv, NEW r \in Request, SyncEnv(r)
  PROVE  InstallInv' /\ DurableInv'
<1> USE DEF TypeOK
<1>1. /\ inst[r] = "env_sync" /\ inst' = [inst EXCEPT ![r] = "marker"]
      /\ UNCHANGED <<token, loose, marker, past, ident, env>> /\ envBefore' = {}
      /\ Now' = Now /\ (Alone' <=> Alone)
  BY DEF SyncEnv, Advance, Alone, Now
<1>2. Alone => /\ ~marker /\ token = ident[r] /\ \A p \in past : ~p[2]
               /\ \A p \in past \cup Now : ~p[2]
               /\ \A q \in Request : inst[q] \in Writing => q = r
  BY <1>1, Unmarked
<1>3. Alone => env = ident[r]
  BY <1>1 DEF InstallInv
<1>4. InstallInv'
  BY <1>1, <1>2, <1>3 DEF InstallInv, Writing
<1>5. DurableInv'
  BY <1>1, <1>2 DEF DurableInv
<1>q. QED  BY <1>4, <1>5

\* The marker, last.
LEMMA WriteMarkerStep ==
  ASSUME TypeOK, IdentInv, InstallInv, DurableInv, NEW r \in Request, WriteMarker(r)
  PROVE  InstallInv' /\ DurableInv'
<1> USE DEF TypeOK
<1>1. /\ inst[r] = "marker" /\ inst' = [inst EXCEPT ![r] = "marker_sync"]
      /\ UNCHANGED <<token, loose, ident, env, envBefore>> /\ past' = past \cup Now
      /\ (Alone' <=> Alone)
  BY DEF WriteMarker, Advance, Alone
<1>2. Alone => /\ token = ident[r] /\ \A p \in past \cup Now : ~p[2]
               /\ \A q \in Request : inst[q] \in Writing => q = r
  BY <1>1, Unmarked
<1>3. Alone => env = ident[r] /\ env # none /\ envBefore = {}
  BY <1>1, NoAccountAssumption DEF InstallInv, IdentInv
<1>4. InstallInv'
  BY <1>1, <1>2 DEF InstallInv, Writing
<1>5. Alone => \A p \in Now' : p[1] \in {env, torn}
  BY <1>1, <1>2, <1>3, NowIs
<1>6. DurableInv'
  BY <1>1, <1>2, <1>3, <1>5 DEF DurableInv
<1>q. QED  BY <1>4, <1>6

\* And its directory.
LEMMA SyncMarkerStep ==
  ASSUME TypeOK, IdentInv, InstallInv, DurableInv, NEW r \in Request, SyncMarker(r)
  PROVE  InstallInv' /\ DurableInv'
<1> USE DEF TypeOK
<1>1. /\ inst[r] = "marker_sync" /\ inst' = [inst EXCEPT ![r] = "restart"]
      /\ UNCHANGED <<token, loose, marker, ident, env, envBefore>> /\ past' = {}
      /\ Now' = Now /\ (Alone' <=> Alone)
  BY DEF SyncMarker, Advance, Alone, Now
<1>2. InstallInv'
  BY <1>1 DEF InstallInv, Writing
<1>3. DurableInv'
  BY <1>1 DEF DurableInv
<1>q. QED  BY <1>2, <1>3

\* The daemon or the command replaces the token alone.
LEMMA SaveStep ==
  ASSUME TypeOK, IdentInv, InstallInv, DurableInv, NEW a \in Account \cup {none}, SaveAs(a),
         UNCHANGED <<inst, ident>>
  PROVE  InstallInv' /\ DurableInv'
<1> USE DEF TypeOK
<1>1. /\ token' = a /\ UNCHANGED <<marker, env, envBefore, inst, ident>>
      /\ past' = past \cup Now
  BY DEF SaveAs
<1>2. ASSUME Alone'
      PROVE  Alone /\ a = env /\ \A q \in Request : inst[q] \notin Writing \ {"token"}
  BY <1>2 DEF SaveAs, Alone
<1>3. InstallInv'
  BY <1>1, <1>2 DEF InstallInv, Writing
<1>4. ASSUME Alone', marker PROVE env # none /\ envBefore = {}
  BY <1>2, <1>4, NowNotEmpty DEF DurableInv
<1>5. \A p \in Now' : p[2] = marker /\ p[1] \in {a, torn}
  BY <1>1, NowIs
<1>6. DurableInv'
  BY <1>1, <1>2, <1>4, <1>5 DEF DurableInv
<1>q. QED  BY <1>3, <1>6

\* What was not synced may come back or be cut off.
LEMMA PowerLossStep ==
  ASSUME TypeOK, IdentInv, InstallInv, DurableInv, PowerLoss
  PROVE  InstallInv' /\ DurableInv'
<1>1. /\ inst' = [r \in Request |-> "none"]
      /\ past' = {} /\ envBefore' = {} /\ loose' = FALSE
      /\ env' \in envBefore \cup {env}
  BY DEF PowerLoss
<1>2. Alone' => Alone /\ <<token', marker'>> \in past \cup Now
  BY DEF PowerLoss, Alone
<1>3. InstallInv'
  BY <1>1 DEF InstallInv, Writing
<1>4. past' \cup Now' = {<<token', marker'>>}
  BY <1>1 DEF Now
<1>5. ASSUME Alone', marker'
      PROVE  env # none /\ envBefore = {} /\ token' \in {env, torn}
  BY <1>2, <1>5 DEF DurableInv
<1>6. ASSUME Alone', marker'
      PROVE  env' # none /\ envBefore' = {} /\ token' \in {env', torn}
  BY <1>1, <1>5, <1>6
<1>7. DurableInv'
  BY <1>4, <1>6 DEF DurableInv
<1>q. QED  BY <1>3, <1>7

\* What holds of every state the power may bring back holds of the present one.
LEMMA VouchesNow == DurableInv => MarkerVouches
<1> SUFFICES ASSUME DurableInv, marker, Alone
             PROVE  env # none /\ token \in {env, torn}
  BY DEF MarkerVouches, Alone
<1> DEFINE p == <<token, marker>>
<1>1. p \in past \cup Now /\ p[1] = token /\ p[2] = marker
  BY NowNotEmpty
<1> HIDE DEF p
<1>q. QED  BY <1>1 DEF DurableInv

\* Every step keeps the two invariants of the files.
LEMMA InstallStep ==
  TypeOK /\ IdentInv /\ InstallInv /\ DurableInv /\ [Next]_vars => InstallInv' /\ DurableInv'
<1> SUFFICES ASSUME TypeOK, IdentInv, InstallInv, DurableInv, [Next]_vars
             PROVE  InstallInv' /\ DurableInv'
  OBVIOUS
<1>1. CASE Quiet
  BY <1>1, Frame DEF Quiet
<1>2. ASSUME NEW r \in Request,
             Unlink(r) \/ WriteToken(r) \/ SyncToken(r) \/ WriteEnv(r) \/ SyncEnv(r)
             \/ WriteMarker(r) \/ SyncMarker(r)
      PROVE  InstallInv' /\ DurableInv'
  BY <1>2, UnlinkStep, WriteTokenStep, SyncTokenStep, WriteEnvStep, SyncEnvStep, WriteMarkerStep,
     SyncMarkerStep
<1>3. CASE SaveToken
  <2>1. dtok \in Account \cup {none} /\ SaveAs(dtok) /\ UNCHANGED <<inst, ident>>
    BY <1>3 DEF SaveToken, TypeOK
  <2>q. QED  BY <2>1, SaveStep
<1>4. CASE EndAuthorize
  <2>1. cli \in Account \cup {none} /\ UNCHANGED <<inst, ident>> /\ (SaveAs(cli) \/ UNCHANGED files)
    BY <1>4 DEF EndAuthorize, TypeOK
  <2>2. CASE SaveAs(cli)
    BY <2>1, <2>2, SaveStep
  <2>3. CASE UNCHANGED files
    BY <2>1, <2>3, Frame
  <2>q. QED  BY <2>1, <2>2, <2>3
<1>5. CASE PowerLoss
  BY <1>5, PowerLossStep
<1>6. ASSUME NEW k \in Key, Login(k) PROVE Quiet
  BY <1>6 DEF Login, Quiet, files, TypeOK, Writing
<1>7. ASSUME NEW k \in Key, SessionEnds(k) PROVE Quiet
  BY <1>7 DEF SessionEnds, Quiet, files, TypeOK, Writing
<1>8. ASSUME NEW k \in Key, RefuseRequest(k) PROVE Quiet
  BY <1>8 DEF RefuseRequest, Quiet, files, TypeOK, Writing, Drop
<1>9. ASSUME NEW c \in Code, NEW d \in Account \cup {"dead"}, Decide(c, d) PROVE Quiet
  BY <1>9 DEF Decide, Quiet, files, TypeOK, Writing
<1>10. ASSUME NEW r \in Request, NEW k \in Key, StartTwitch(r, k) PROVE Quiet
  BY <1>10 DEF StartTwitch, Quiet, files, TypeOK, Writing
<1>11. ASSUME NEW r \in Request, NEW k \in Key, PollTwitch(r, k) PROVE Quiet
  BY <1>11 DEF PollTwitch, Quiet, files, TypeOK, Writing
<1>12. ASSUME NEW r \in Request, NEW c \in Code, IssueCode(r, c) PROVE Quiet
  BY <1>12 DEF IssueCode, Quiet, files, TypeOK, Writing, Return
<1>13. ASSUME NEW r \in Request, StartFails(r) PROVE Quiet
  BY <1>13 DEF StartFails, Quiet, files, TypeOK, Writing, Return
<1>14. ASSUME NEW r \in Request, PollAuthorized(r) PROVE Quiet
  BY <1>14 DEF PollAuthorized, Quiet, files, TypeOK, Writing, IdentInv
<1>15. ASSUME NEW r \in Request, PollWaits(r) PROVE Quiet
  BY <1>15 DEF PollWaits, Quiet, files, TypeOK, Writing, Slow, WriteBack, Return
<1>16. ASSUME NEW r \in Request, PollFails(r) PROVE Quiet
  BY <1>16 DEF PollFails, Quiet, files, TypeOK, Writing, ClearFlow, WriteBack, Return
<1>17. ASSUME NEW r \in Request, AskHelper(r) PROVE Quiet
  BY <1>17 DEF AskHelper, Quiet, files, TypeOK, Writing, IdentInv, Return
<1>18. ASSUME NEW r \in Request, GiveUp(r) PROVE Quiet
  BY <1>18 DEF GiveUp, Quiet, files, TypeOK, Writing, Return
<1>19. ASSUME NEW r \in Request, Restart(r) PROVE Quiet
  BY <1>19 DEF Restart, Quiet, files, TypeOK, Writing, Advance
<1>20. ASSUME NEW r \in Request, Installed(r) PROVE Quiet
  BY <1>20 DEF Installed, Quiet, files, TypeOK, Writing, FreeInstaller, Advance, ClearFlow,
     WriteBack, Return
<1>21. ASSUME NEW r \in Request, InstallFails(r) PROVE Quiet
  BY <1>21 DEF InstallFails, Quiet, files, TypeOK, Writing, FreeInstaller, Advance, Return
<1>22. ASSUME StartDaemon PROVE Quiet
  BY <1>22 DEF StartDaemon, Quiet, files, TypeOK, Writing
<1>23. ASSUME DaemonExits PROVE Quiet
  BY <1>23 DEF DaemonExits, Quiet, files, TypeOK, Writing, StopDaemon
<1>24. ASSUME LoadToken PROVE Quiet
  BY <1>24 DEF LoadToken, Quiet, files, TypeOK, Writing
<1>25. ASSUME RefreshToken PROVE Quiet
  BY <1>25 DEF RefreshToken, Quiet, files, TypeOK, Writing
<1>26. ASSUME ValidateToken PROVE Quiet
  BY <1>26 DEF ValidateToken, Quiet, files, TypeOK, Writing
<1>27. ASSUME TryAgain PROVE Quiet
  BY <1>27 DEF TryAgain, Quiet, files, TypeOK, Writing
<1>28. ASSUME StartAuthorize PROVE Quiet
  BY <1>28 DEF StartAuthorize, Quiet, files, TypeOK, Writing
<1>29. ASSUME WizardCrash PROVE Quiet
  BY <1>29 DEF WizardCrash, Quiet, files, TypeOK, Writing, WizardExits, Drop
<1>30. CASE UNCHANGED vars
  <2>1. Quiet
    BY <1>30 DEF vars, Quiet, files
  <2>q. QED  BY <2>1, <1>1
<1>q. QED
  BY <1>1, <1>2, <1>3, <1>4, <1>5, <1>6, <1>7, <1>8, <1>9, <1>10, <1>11, <1>12, <1>13, <1>14,
     <1>15, <1>16, <1>17, <1>18, <1>19, <1>20, <1>21, <1>22, <1>23, <1>24, <1>25, <1>26, <1>27,
     <1>28, <1>29, <1>30 DEF Next

(***************************************************************************)
(* The theorems.                                                           *)
(***************************************************************************)

\* The inductive invariant holds at first.
LEMMA InitIInv == Init => IInv
<1> SUFFICES ASSUME Init PROVE IInv
  OBVIOUS
<1>1. TypeOK
  BY DEF Init, TypeOK, Entry, PC, Inst, DaemonPC
<1>2. InstallInv /\ DurableInv /\ IdentInv /\ ServesPinnedAccount /\ MarkerVouches
  BY DEF Init, InstallInv, DurableInv, IdentInv, ServesPinnedAccount, MarkerVouches, Writing, Now, Alone
<1>q. QED  BY <1>1, <1>2 DEF IInv

\* Every step keeps it.
LEMMA NextIInv == IInv /\ [Next]_vars => IInv'
<1> SUFFICES ASSUME IInv, [Next]_vars PROVE IInv'
  OBVIOUS
<1>1. TypeOK' /\ IdentInv' /\ ServesPinnedAccount'
  BY TypeStep, IdentStep, ServesStep DEF IInv
<1>2. InstallInv' /\ DurableInv'
  BY InstallStep DEF IInv
<1>3. DurableInv' => MarkerVouches'
  BY VouchesNow, PTL
<1>q. QED  BY <1>1, <1>2, <1>3 DEF IInv

\* So it always holds.
LEMMA Inductive == Spec => []IInv
  BY InitIInv, NextIInv, PTL DEF Spec

\* The wizard, the installers, the files and the daemon keep their types for
\* any accounts, sessions, handlers and number of codes.
THEOREM TypeCorrect == Spec => []TypeOK
<1>1. IInv => TypeOK
  BY DEF IInv
<1>q. QED  BY <1>1, Inductive, PTL

\* However many installers and authorize commands replace the files under it,
\* the daemon connects with and saves only tokens of the account it is pinned
\* to.
THEOREM Pinned == Spec => []ServesPinnedAccount
<1>1. IInv => ServesPinnedAccount
  BY DEF IInv
<1>q. QED  BY <1>1, Inductive, PTL

\* While no two writers met and no power loss left the token's directory as it
\* never was, the marker stands only next to a whole authorization, for any number
\* of installations, kills at any step, and power losses between a rename and the
\* sync of its directory.
THEOREM Vouched == Spec => []MarkerVouches
<1>1. IInv => MarkerVouches
  BY DEF IInv
<1>q. QED  BY <1>1, Inductive, PTL

\* A write-back gives a session that has ended no second life.
LEMMA WriteBackKeeps ==
  ASSUME TypeOK, NEW j, entry' = entry \/ entry' = [entry EXCEPT ![j] = WriteBack(j)]
  PROVE  \A k \in Key : entry[k] \in {"ended", "husk", "swept"} => entry'[k] # "live"
<1>1. entry[j] \in {"ended", "husk", "swept"} => WriteBack(j) # "live"
  BY DEF WriteBack, InMap
<1>2. ASSUME NEW k \in Key, entry[k] \in {"ended", "husk", "swept"} PROVE entry'[k] # "live"
  <2>1. CASE entry' = entry
    BY <1>2, <2>1
  <2>2. CASE entry' = [entry EXCEPT ![j] = WriteBack(j)] /\ k = j
    BY <1>1, <1>2, <2>2 DEF TypeOK
  <2>3. CASE entry' = [entry EXCEPT ![j] = WriteBack(j)] /\ k # j
    BY <1>2, <2>3 DEF TypeOK
  <2>q. QED  BY <2>1, <2>2, <2>3
<1>q. QED  BY <1>2

\* No interleaving of handlers, logins and expiries revives a session.
THEOREM Ended == Spec => EndedStaysEnded
<1> DEFINE Keeps == \A k \in Key : entry[k] \in {"ended", "husk", "swept"} => entry'[k] # "live"
<1>1. ASSUME TypeOK, [Next]_vars PROVE Keeps
  <2> USE DEF TypeOK, InMap
  <2>1. ASSUME NEW k \in Key, Login(k) PROVE Keeps
    BY <2>1 DEF Login, sessions
  <2>2. ASSUME NEW k \in Key, SessionEnds(k) PROVE Keeps
    BY <2>2 DEF SessionEnds, sessions
  <2>3. ASSUME NEW k \in Key, RefuseRequest(k) PROVE Keeps
    BY <2>3 DEF RefuseRequest, sessions, Drop
  <2>4. ASSUME NEW c \in Code, NEW d \in Account \cup {"dead"}, Decide(c, d) PROVE Keeps
    BY <2>4 DEF Decide, sessions
  <2>5. ASSUME NEW r \in Request, NEW k \in Key, StartTwitch(r, k) PROVE Keeps
    BY <2>5 DEF StartTwitch, sessions
  <2>6. ASSUME NEW r \in Request, NEW k \in Key, PollTwitch(r, k) PROVE Keeps
    BY <2>6 DEF PollTwitch, sessions
  <2>7. ASSUME NEW r \in Request, NEW c \in Code, IssueCode(r, c) PROVE Keeps
    BY <2>7 DEF IssueCode, sessions, Return
  <2>8. ASSUME NEW r \in Request, StartFails(r) PROVE Keeps
    BY <2>8 DEF StartFails, sessions, Return
  <2>9. ASSUME NEW r \in Request, PollAuthorized(r) PROVE Keeps
    BY <2>9 DEF PollAuthorized, sessions
  <2>10. ASSUME NEW r \in Request, PollWaits(r) PROVE Keeps
    <3>1. entry' = entry \/ entry' = [entry EXCEPT ![key[r]] = WriteBack(key[r])]
      BY <2>10 DEF PollWaits, sessions, Slow, Return
    <3>q. QED  BY <3>1, <1>1, WriteBackKeeps
  <2>11. ASSUME NEW r \in Request, PollFails(r) PROVE Keeps
    <3>1. entry' = entry \/ entry' = [entry EXCEPT ![key[r]] = WriteBack(key[r])]
      BY <2>11 DEF PollFails, sessions, ClearFlow, Return
    <3>q. QED  BY <3>1, <1>1, WriteBackKeeps
  <2>12. ASSUME NEW r \in Request, AskHelper(r) PROVE Keeps
    BY <2>12 DEF AskHelper, sessions, Return
  <2>13. ASSUME NEW r \in Request, GiveUp(r) PROVE Keeps
    BY <2>13 DEF GiveUp, sessions, Return
  <2>14. ASSUME NEW r \in Request, Unlink(r) PROVE Keeps
    BY <2>14 DEF Unlink, sessions, Advance
  <2>15. ASSUME NEW r \in Request, WriteToken(r) PROVE Keeps
    BY <2>15 DEF WriteToken, sessions, Advance
  <2>16. ASSUME NEW r \in Request, WriteEnv(r) PROVE Keeps
    BY <2>16 DEF WriteEnv, sessions, Advance
  <2>17. ASSUME NEW r \in Request, WriteMarker(r) PROVE Keeps
    BY <2>17 DEF WriteMarker, sessions, Advance
  <2>18. ASSUME NEW r \in Request, Restart(r) PROVE Keeps
    BY <2>18 DEF Restart, sessions, Advance
  <2>19. ASSUME NEW r \in Request, Installed(r) PROVE Keeps
    <3>1. entry' = entry \/ entry' = [entry EXCEPT ![key[r]] = WriteBack(key[r])]
      BY <2>19 DEF Installed, sessions, FreeInstaller, Advance, ClearFlow, Return
    <3>q. QED  BY <3>1, <1>1, WriteBackKeeps
  <2>20. ASSUME NEW r \in Request, InstallFails(r) PROVE Keeps
    BY <2>20 DEF InstallFails, sessions, FreeInstaller, Advance, Return
  <2>21. ASSUME StartDaemon PROVE Keeps
    BY <2>21 DEF StartDaemon, sessions
  <2>22. ASSUME DaemonExits PROVE Keeps
    BY <2>22 DEF DaemonExits, sessions, StopDaemon
  <2>23. ASSUME LoadToken PROVE Keeps
    BY <2>23 DEF LoadToken, sessions
  <2>24. ASSUME RefreshToken PROVE Keeps
    BY <2>24 DEF RefreshToken, sessions
  <2>25. ASSUME ValidateToken PROVE Keeps
    BY <2>25 DEF ValidateToken, sessions
  <2>26. ASSUME SaveToken PROVE Keeps
    BY <2>26 DEF SaveToken, sessions, SaveAs
  <2>27. ASSUME TryAgain PROVE Keeps
    BY <2>27 DEF TryAgain, sessions
  <2>28. ASSUME StartAuthorize PROVE Keeps
    BY <2>28 DEF StartAuthorize, sessions
  <2>29. ASSUME EndAuthorize PROVE Keeps
    BY <2>29 DEF EndAuthorize, sessions, SaveAs
  <2>30. ASSUME WizardCrash PROVE Keeps
    BY <2>30 DEF WizardCrash, sessions, WizardExits, Drop
  <2>31. ASSUME PowerLoss PROVE Keeps
    BY <2>31 DEF PowerLoss, sessions, WizardExits, StopDaemon, Drop
  <2>33. ASSUME NEW r \in Request, SyncToken(r) PROVE Keeps
    BY <2>33 DEF SyncToken, sessions
  <2>34. ASSUME NEW r \in Request, SyncEnv(r) PROVE Keeps
    BY <2>34 DEF SyncEnv, sessions
  <2>35. ASSUME NEW r \in Request, SyncMarker(r) PROVE Keeps
    BY <2>35 DEF SyncMarker, sessions
  <2>32. CASE UNCHANGED vars
    BY <2>32 DEF vars
  <2>q. QED
    BY <1>1, <2>1, <2>2, <2>3, <2>4, <2>5, <2>6, <2>7, <2>8, <2>9, <2>10, <2>11, <2>12, <2>13,
       <2>14, <2>15, <2>16, <2>17, <2>18, <2>19, <2>20, <2>21, <2>22, <2>23, <2>24, <2>25, <2>26,
       <2>27, <2>28, <2>29, <2>30, <2>31, <2>32, <2>33, <2>34, <2>35 DEF Next
<1>2. ASSUME TypeOK, [Next]_vars PROVE [Keeps]_vars
  BY <1>1, <1>2
<1>q. QED
  BY <1>1, TypeCorrect, PTL DEF Spec, EndedStaysEnded
===============================================================================
