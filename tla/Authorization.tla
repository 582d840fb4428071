---------------------------- MODULE Authorization ----------------------------
(***************************************************************************)
(* Who the appliance is on Twitch: the wizard's sessions and device flows  *)
(* (cmd/f11-setup-wizard/main.go, internal/twitchdevice/client.go), the    *)
(* root installer the helper runs (install-twitch-authorization), and the  *)
(* daemon and its authorize command, which write the token file themselves *)
(* (cmd/twitch-banner/main.go).                                            *)
(*                                                                         *)
(* An authorization is three files that must agree: the token, the         *)
(* environment with the broadcaster it is pinned to, and a marker that     *)
(* says both are there.  Nothing locks them: every poll of a wizard        *)
(* session can start an installer, the helper kills one after ten seconds, *)
(* and a daemon that began to refresh its token saves it when Twitch has   *)
(* answered.  An account stands for a Client ID, a login and a user ID.    *)
(***************************************************************************)
EXTENDS Naturals

CONSTANTS
  Account,     \* Twitch identities the user may approve with
  Key,         \* session keys, each handed out by at most one login
  Request,     \* handlers of twitch/start and twitch/poll that may overlap
  MaxCode,     \* bound: device codes issued
  none, torn   \* no value; the content of a file whose write was cut off

ASSUME NoAccountAssumption == none \notin Account /\ torn \notin Account /\ none # torn

Code == 1..MaxCode

VARIABLES
  entry,      \* what sessionStore has under each key
  flow,       \* the device code of each session
  code,       \* what Twitch has for each device code
  pc,         \* where each handler is
  key,        \* the session of each handler
  polled,     \* the device code each handler has read from its session
  ident,      \* the identity each handler, or the installer it started, installs
  inst,       \* the installer the helper runs for each handler
  token,      \* the account of token.json
  loose,      \* the content of token.json was never synced
  marker,     \* authorization-complete exists, in the directory of token.json
  past,       \* what the two have been since that directory was last synced
  env,        \* the account of the environment file
  envBefore,  \* what it has been since its directory was last synced
  crossed,    \* history: two writers met in the authorization now on the card
  scrambled,  \* history: a power loss left token and marker as they never were
  dpc,        \* where the daemon is in freshToken
  dpin,       \* the account in the environment it was started with
  dtok,       \* the account of the token it holds
  cli         \* the account the authorize command is pinned to while it waits

sessions == <<entry, flow>>
handlers == <<pc, key, polled>>
files == <<token, loose, marker, past, env, envBefore, crossed, scrambled>>
daemon == <<dpc, dpin, dtok>>
vars == <<entry, flow, code, pc, key, polled, ident, inst, token, loose, marker,
          past, env, envBefore, crossed, scrambled, dpc, dpin, dtok, cli>>

\* A session is in the map while its login holds, after that until something
\* deletes it, and again as a husk when a late handler writes back a session
\* that was deleted meanwhile: all zero, with an expiry long past.
Entry == {"unused", "live", "ended", "husk", "swept"}
InMap == {"live", "ended", "husk"}
PC == {"free", "start", "poll", "save", "wait"}
Inst == {"none", "unlink", "token", "token_sync", "env", "env_sync", "marker",
         "marker_sync", "restart", "watch"}
Writing == {"token", "token_sync", "env", "env_sync", "marker"}
DaemonPC == {"off", "load", "refresh", "validate", "validate_new", "save", "serve"}

Init ==
  /\ entry = [k \in Key |-> "unused"] /\ flow = [k \in Key |-> none]
  /\ code = [c \in Code |-> "unissued"]
  /\ pc = [r \in Request |-> "free"]
  /\ key = [r \in Request |-> none]
  /\ polled = [r \in Request |-> none]
  /\ ident = [r \in Request |-> none]
  /\ inst = [r \in Request |-> "none"]
  /\ token = none /\ loose = FALSE /\ marker = FALSE /\ past = {}
  /\ env = none /\ envBefore = {}
  /\ crossed = FALSE /\ scrambled = FALSE
  /\ dpc = "off" /\ dpin = none /\ dtok = none
  /\ cli = none

----------------------------------------------------------------------------
(* Sessions *)

Drop(K) ==
  /\ entry' = [k \in Key |-> IF k \in K THEN "swept" ELSE entry[k]]
  /\ flow' = [k \in Key |-> IF k \in K THEN none ELSE flow[k]]

\* create: sweeps what has expired and adds the new session.
Login(k) ==
  /\ entry[k] = "unused"
  /\ LET old == {j \in Key : entry[j] \in {"ended", "husk"}} IN
     /\ entry' = [j \in Key |-> IF j = k THEN "live" ELSE IF j \in old THEN "swept" ELSE entry[j]]
     /\ flow' = [j \in Key |-> IF j \in old THEN none ELSE flow[j]]
  /\ UNCHANGED <<code, handlers, ident, inst, files, daemon, cli>>

\* Twelve hours have passed.
SessionEnds(k) ==
  /\ entry[k] = "live"
  /\ entry' = [entry EXCEPT ![k] = "ended"]
  /\ UNCHANGED <<flow, code, handlers, ident, inst, files, daemon, cli>>

\* get: any request with the cookie of a session that is over deletes it.
RefuseRequest(k) ==
  /\ entry[k] \in {"ended", "husk"}
  /\ Drop({k})
  /\ UNCHANGED <<code, handlers, ident, inst, files, daemon, cli>>

\* Mutant of WriteBack: the handler stores the session it was given at first.
MutantWriteOwnCopy(k) == "live"

\* What a write to the map by a handler leaves of a session: a deleted one
\* comes back with its zero value.
WriteBack(k) == IF entry[k] \in InMap THEN entry[k] ELSE "husk"

ClearFlow(k) ==
  /\ entry' = [entry EXCEPT ![k] = WriteBack(k)]
  /\ flow' = [flow EXCEPT ![k] = none]

\* slow: counts, which nothing enforces.
Slow(k) ==
  /\ entry' = [entry EXCEPT ![k] = WriteBack(k)]
  /\ UNCHANGED flow

Return(r) ==
  /\ pc' = [pc EXCEPT ![r] = "free"]
  /\ key' = [key EXCEPT ![r] = none]
  /\ polled' = [polled EXCEPT ![r] = none]

----------------------------------------------------------------------------
(* The device flow *)

\* POST twitch/start in a session that is not over: Twitch is asked for a code.
StartTwitch(r, k) ==
  /\ pc[r] = "free" /\ inst[r] = "none"
  /\ entry[k] = "live"
  /\ pc' = [pc EXCEPT ![r] = "start"]
  /\ key' = [key EXCEPT ![r] = k]
  /\ UNCHANGED <<sessions, code, polled, ident, inst, files, daemon, cli>>

\* Start and setFlow: the code becomes the session's if that is still there.
IssueCode(r, c) ==
  /\ pc[r] = "start"
  /\ code[c] = "unissued" /\ \A d \in Code : d < c => code[d] # "unissued"
  /\ code' = [code EXCEPT ![c] = "pending"]
  /\ flow' = IF entry[key[r]] \in InMap THEN [flow EXCEPT ![key[r]] = c] ELSE flow
  /\ Return(r)
  /\ UNCHANGED <<entry, ident, inst, files, daemon, cli>>

StartFails(r) ==
  /\ pc[r] = "start"
  /\ Return(r)
  /\ UNCHANGED <<sessions, code, ident, inst, files, daemon, cli>>

\* The user approves a code with one of their accounts, or it runs out.
Decide(c, d) ==
  /\ code[c] = "pending"
  /\ code' = [code EXCEPT ![c] = d]
  /\ UNCHANGED <<sessions, handlers, ident, inst, files, daemon, cli>>

\* POST twitch/poll: the handler copies the session's flow and asks Twitch.
PollTwitch(r, k) ==
  /\ pc[r] = "free" /\ inst[r] = "none"
  /\ entry[k] = "live" /\ flow[k] # none
  /\ pc' = [pc EXCEPT ![r] = "poll"]
  /\ key' = [key EXCEPT ![r] = k]
  /\ polled' = [polled EXCEPT ![r] = flow[k]]
  /\ UNCHANGED <<sessions, code, ident, inst, files, daemon, cli>>

\* Poll: the code is exchanged for a token whose client, scopes and shape are
\* right.
PollAuthorized(r) ==
  /\ pc[r] = "poll" /\ code[polled[r]] \in Account
  /\ code' = [code EXCEPT ![polled[r]] = "dead"]
  /\ ident' = [ident EXCEPT ![r] = code[polled[r]]]
  /\ pc' = [pc EXCEPT ![r] = "save"]
  /\ UNCHANGED <<sessions, key, polled, inst, files, daemon, cli>>

\* authorization_pending, or slow_down.
PollWaits(r) ==
  /\ pc[r] = "poll" /\ code[polled[r]] = "pending"
  /\ Slow(key[r]) \/ UNCHANGED sessions
  /\ Return(r)
  /\ UNCHANGED <<code, ident, inst, files, daemon, cli>>

\* Every error of Poll: the code is over, the request failed, or the answer
\* was not what it should be, which may come after the code was spent.
PollFails(r) ==
  /\ pc[r] = "poll"
  /\ \/ UNCHANGED code
     \/ code[polled[r]] \in Account /\ code' = [code EXCEPT ![polled[r]] = "dead"]
  /\ ClearFlow(key[r])
  /\ Return(r)
  /\ UNCHANGED <<ident, inst, files, daemon, cli>>

\* helperSaver: the helper validates the request again and starts the
\* installer, or refuses it or cannot be reached; then the flow stays.
AskHelper(r) ==
  /\ pc[r] = "save"
  /\ \/ /\ inst' = [inst EXCEPT ![r] = "unlink"]
        /\ pc' = [pc EXCEPT ![r] = "wait"]
        /\ UNCHANGED <<key, polled, ident>>
     \/ Return(r) /\ ident' = [ident EXCEPT ![r] = none] /\ UNCHANGED inst
  /\ UNCHANGED <<sessions, code, files, daemon, cli>>

\* Ten seconds without an answer; the installer goes on.
GiveUp(r) ==
  /\ pc[r] = "wait"
  /\ Return(r)
  /\ UNCHANGED <<sessions, code, ident, inst, files, daemon, cli>>

----------------------------------------------------------------------------
(* install-twitch-authorization *)

Others(r) == {q \in Request \ {r} : inst[q] \in Writing}

Advance(r, step) == inst' = [inst EXCEPT ![r] = step]

\* What the directory holds now; what was never synced may be cut off.
Now == (IF loose THEN {token, torn} ELSE {token}) \X {marker}

\* The marker goes first; no sync follows.
Unlink(r) ==
  /\ inst[r] = "unlink"
  /\ marker' = FALSE /\ past' = past \cup Now
  /\ crossed' = (crossed \/ Others(r) # {})
  /\ Advance(r, "token")
  /\ UNCHANGED <<sessions, code, handlers, ident, token, loose, env, envBefore, scrambled,
                 daemon, cli>>

\* atomic(token.json): a synced file is renamed over the old one.
WriteToken(r) ==
  /\ inst[r] = "token"
  /\ token' = ident[r] /\ loose' = FALSE /\ past' = past \cup Now
  /\ Advance(r, "token_sync")
  /\ UNCHANGED <<sessions, code, handlers, ident, marker, env, envBefore, crossed, scrambled,
                 daemon, cli>>

\* An installer whose token is in place alone, and over no marker, starts afresh.
Afresh(r) ==
  LET mixed == marker \/ token # ident[r] \/ Others(r) # {} IN
  /\ crossed' = (crossed /\ mixed)
  /\ scrambled' = (scrambled /\ mixed)

\* Mutant of SyncToken: the directory is not synced after the rename.
MutantNoDirSync(r) ==
  /\ inst[r] = "token_sync"
  /\ Afresh(r)
  /\ Advance(r, "env")
  /\ UNCHANGED <<sessions, code, handlers, ident, token, loose, marker, past, env, envBefore,
                 daemon, cli>>

\* Then the directory is synced, which also covers the removal of the marker.
SyncToken(r) ==
  /\ inst[r] = "token_sync"
  /\ past' = {}
  /\ Afresh(r)
  /\ Advance(r, "env")
  /\ UNCHANGED <<sessions, code, handlers, ident, token, loose, marker, env, envBefore,
                 daemon, cli>>

\* atomic(environment), in another directory.
WriteEnv(r) ==
  /\ inst[r] = "env"
  /\ env' = ident[r] /\ envBefore' = envBefore \cup {env}
  /\ Advance(r, "env_sync")
  /\ UNCHANGED <<sessions, code, handlers, ident, token, loose, marker, past, crossed, scrambled,
                 daemon, cli>>

SyncEnv(r) ==
  /\ inst[r] = "env_sync"
  /\ envBefore' = {}
  /\ Advance(r, "marker")
  /\ UNCHANGED <<sessions, code, handlers, ident, token, loose, marker, past, env, crossed,
                 scrambled, daemon, cli>>

\* atomic(marker)
WriteMarker(r) ==
  /\ inst[r] = "marker"
  /\ marker' = TRUE /\ past' = past \cup Now
  /\ Advance(r, "marker_sync")
  /\ UNCHANGED <<sessions, code, handlers, ident, token, loose, env, envBefore, crossed, scrambled,
                 daemon, cli>>

SyncMarker(r) ==
  /\ inst[r] = "marker_sync"
  /\ past' = {}
  /\ Advance(r, "restart")
  /\ UNCHANGED <<sessions, code, handlers, ident, token, loose, marker, env, envBefore, crossed,
                 scrambled, daemon, cli>>

\* systemctl restart: the daemon is stopped wherever it is, and started if the
\* unit's condition, the marker, holds.
Restart(r) ==
  /\ inst[r] = "restart"
  /\ dpc' = IF marker THEN "load" ELSE "off"
  /\ dpin' = IF marker THEN env ELSE none
  /\ dtok' = none
  /\ Advance(r, "watch")
  /\ UNCHANGED <<sessions, code, handlers, ident, files, cli>>

FreeInstaller(r) ==
  /\ Advance(r, "none")
  /\ ident' = [ident EXCEPT ![r] = none]

\* The service is active and the wizard still listens: the flow is over and
\* the stage is saved.
Installed(r) ==
  /\ inst[r] = "watch" /\ dpc # "off"
  /\ FreeInstaller(r)
  /\ IF pc[r] = "wait" THEN ClearFlow(key[r]) /\ Return(r) ELSE UNCHANGED <<sessions, handlers>>
  /\ UNCHANGED <<code, files, daemon, cli>>

\* The helper's ten seconds are over and it kills the installer, a step of the
\* installer fails, or the service does not become active.
InstallFails(r) ==
  /\ inst[r] # "none"
  /\ FreeInstaller(r)
  /\ IF pc[r] = "wait" THEN Return(r) ELSE UNCHANGED handlers
  /\ UNCHANGED <<sessions, code, files, daemon, cli>>

----------------------------------------------------------------------------
(* freshToken *)

StopDaemon == dpc' = "off" /\ dpin' = none /\ dtok' = none

\* systemd starts the unit, at boot or after a failure.
StartDaemon ==
  /\ dpc = "off" /\ marker /\ env # none
  /\ dpc' = "load" /\ dpin' = env /\ dtok' = none
  /\ UNCHANGED <<sessions, code, handlers, ident, inst, files, cli>>

DaemonExits ==
  /\ dpc # "off"
  /\ StopDaemon
  /\ UNCHANGED <<sessions, code, handlers, ident, inst, files, cli>>

\* loadToken, and NeedsRefresh.  A missing or torn file is tried again later.
LoadToken ==
  /\ dpc = "load" /\ token \in Account
  /\ dtok' = token
  /\ dpc' \in {"refresh", "validate"}
  /\ UNCHANGED <<sessions, code, handlers, ident, inst, files, dpin, cli>>

RefreshToken ==
  /\ dpc = "refresh"
  /\ dpc' = "validate_new"
  /\ UNCHANGED <<sessions, code, handlers, ident, inst, files, dpin, dtok, cli>>

\* Mutant of ValidateToken: the identity Twitch reports is not compared.
MutantAnyIdentity ==
  /\ dpc \in {"validate", "validate_new"}
  /\ dpc' = IF dpc = "validate" THEN "serve" ELSE "save"
  /\ UNCHANGED <<sessions, code, handlers, ident, inst, files, dpin, dtok, cli>>

\* ValidateToken and Validate: client, login and user ID are the pinned ones.
ValidateToken ==
  /\ dpc \in {"validate", "validate_new"} /\ dtok = dpin
  /\ dpc' = IF dpc = "validate" THEN "serve" ELSE "save"
  /\ UNCHANGED <<sessions, code, handlers, ident, inst, files, dpin, dtok, cli>>

\* saveToken replaces the file and syncs nothing.  It crosses an installation
\* that has written its token already, or one that was for another account.
SaveAs(a) ==
  /\ token' = a /\ loose' = TRUE /\ past' = past \cup Now
  /\ crossed' = (crossed \/ a # env \/ \E r \in Request : inst[r] \in Writing \ {"token"})
  /\ UNCHANGED <<marker, env, envBefore, scrambled>>

SaveToken ==
  /\ dpc = "save"
  /\ SaveAs(dtok)
  /\ dpc' = "serve"
  /\ UNCHANGED <<sessions, code, handlers, ident, inst, dpin, dtok, cli>>

\* Any of these steps fails, the identity is another one, or the connection
\* the token was for has ended: the daemon begins again.
TryAgain ==
  /\ dpc \in DaemonPC \ {"off", "load"}
  /\ dpc' = "load" /\ dtok' = none
  /\ UNCHANGED <<sessions, code, handlers, ident, inst, files, dpin, cli>>

\* twitch-banner authorize, run with the environment as it is.
StartAuthorize ==
  /\ cli = none /\ env # none
  /\ cli' = env
  /\ UNCHANGED <<sessions, code, handlers, ident, inst, files, daemon>>

\* The callback's code is exchanged for a token of the pinned identity, which
\* is saved; or something fails.
EndAuthorize ==
  /\ cli # none
  /\ cli' = none
  /\ SaveAs(cli) \/ UNCHANGED files
  /\ UNCHANGED <<sessions, code, handlers, ident, inst, daemon>>

----------------------------------------------------------------------------
(* Crashes *)

WizardExits ==
  /\ Drop({k \in Key : entry[k] \in InMap})
  /\ pc' = [r \in Request |-> "free"]
  /\ key' = [r \in Request |-> none]
  /\ polled' = [r \in Request |-> none]

WizardCrash ==
  /\ WizardExits
  /\ ident' = [r \in Request |-> IF inst[r] = "none" THEN none ELSE ident[r]]
  /\ UNCHANGED <<code, inst, files, daemon, cli>>

\* Of what was not synced since, each file may come back on its own, and a token
\* whose content was not synced may be cut off.
PowerLoss ==
  /\ WizardExits
  /\ ident' = [r \in Request |-> none]
  /\ inst' = [r \in Request |-> "none"]
  /\ StopDaemon
  /\ cli' = none
  /\ LET were == past \cup Now IN
     /\ token' \in {p[1] : p \in were} /\ marker' \in {p[2] : p \in were}
     /\ scrambled' = (scrambled \/ <<token', marker'>> \notin were)
  /\ env' \in envBefore \cup {env}
  /\ past' = {} /\ envBefore' = {} /\ loose' = FALSE
  /\ UNCHANGED <<code, crossed>>

----------------------------------------------------------------------------

Next ==
  \/ \E k \in Key : Login(k) \/ SessionEnds(k) \/ RefuseRequest(k)
  \/ \E c \in Code : \E d \in Account \cup {"dead"} : Decide(c, d)
  \/ \E r \in Request :
       \/ \E k \in Key : StartTwitch(r, k) \/ PollTwitch(r, k)
       \/ \E c \in Code : IssueCode(r, c)
       \/ StartFails(r)
       \/ PollAuthorized(r) \/ PollWaits(r) \/ PollFails(r)
       \/ AskHelper(r) \/ GiveUp(r)
       \/ Unlink(r) \/ WriteToken(r) \/ SyncToken(r) \/ WriteEnv(r) \/ SyncEnv(r)
       \/ WriteMarker(r) \/ SyncMarker(r) \/ Restart(r)
       \/ Installed(r) \/ InstallFails(r)
  \/ StartDaemon \/ DaemonExits
  \/ LoadToken \/ RefreshToken \/ ValidateToken \/ SaveToken \/ TryAgain
  \/ StartAuthorize \/ EndAuthorize
  \/ WizardCrash \/ PowerLoss

Spec == Init /\ [][Next]_vars

----------------------------------------------------------------------------
(* Properties *)

TypeOK ==
  /\ entry \in [Key -> Entry] /\ flow \in [Key -> Code \cup {none}]
  /\ code \in [Code -> {"unissued", "pending", "dead"} \cup Account]
  /\ pc \in [Request -> PC]
  /\ key \in [Request -> Key \cup {none}]
  /\ polled \in [Request -> Code \cup {none}]
  /\ ident \in [Request -> Account \cup {none}]
  /\ inst \in [Request -> Inst]
  /\ token \in Account \cup {none, torn} /\ env \in Account \cup {none}
  /\ past \subseteq (Account \cup {none, torn}) \X BOOLEAN
  /\ envBefore \subseteq Account \cup {none}
  /\ loose \in BOOLEAN /\ marker \in BOOLEAN /\ crossed \in BOOLEAN /\ scrambled \in BOOLEAN
  /\ dpc \in DaemonPC
  /\ dpin \in Account \cup {none} /\ dtok \in Account \cup {none}
  /\ cli \in Account \cup {none}

\* A session that is over never acts again: whatever handlers that were
\* waiting write back, and however logins sweep the map meanwhile.
EndedStaysEnded ==
  [][\A k \in Key : entry[k] \in {"ended", "husk", "swept"} => entry'[k] # "live"]_vars

\* TWITCH_BANNER.md, "Broadcaster authorization is pinned to an immutable
\* numeric Twitch ID": the daemon never connects with, nor saves, the token of
\* an account it is not pinned to, though every writer replaces the files
\* under it at any time.
ServesPinnedAccount == dpc \in {"save", "serve"} => dtok = dpin

\* The marker vouches for the files: unless two writers met, it stands only
\* next to a token and an environment of one account, through kills and failures
\* between any two steps, power losses that keep the renames and removals of a
\* directory in their order, and after a later installation has replaced a
\* mixture.  (A token cut off by a power loss is recognised when it is loaded.)
MarkerVouches == marker /\ ~crossed /\ ~scrambled => env # none /\ token \in {env, torn}

\* The same when a directory's changes need not come back in their order, which
\* nothing in the code asks for.  The code breaks it: between the rename of
\* token.json and the sync of its directory the removal of the marker is as
\* loose as the rename, and the marker may return beside the new token and the
\* environment of the old.
MarkerVouchesUnordered == marker /\ ~crossed => env # none /\ token \in {env, torn}

\* Plan 2026-07-21, "the authorized immutable Twitch user ID becomes the
\* broadcaster pin": when no installer is at work, an authorization that is
\* marked complete has the token of the account it pins.
PinIsAuthorizedAccount ==
  marker /\ token \in Account /\ (\A r \in Request : inst[r] = "none") => token = env

(* The inductive invariant: without a crossing or a scramble there is one     *)
(* writer at a time, what it has written so far is its own, and no marker     *)
(* stands, now or after a power loss, over what it has begun to replace.      *)

Alone == ~crossed /\ ~scrambled

InstallInv ==
  Alone =>
    /\ \A r, q \in Request : inst[r] \in Writing /\ inst[q] \in Writing => r = q
    /\ \A r \in Request :
         /\ inst[r] \in Writing => ~marker
         /\ inst[r] \in Writing \ {"token"} => token = ident[r]
         /\ inst[r] \in {"env", "env_sync", "marker"} => \A p \in past : ~p[2]
         /\ inst[r] \in {"env_sync", "marker"} => env = ident[r]
         /\ inst[r] = "marker" => envBefore = {}

DurableInv ==
  Alone => \A p \in past \cup Now : p[2] => /\ env # none /\ envBefore = {}
                                          /\ p[1] \in {env, torn}

IdentInv ==
  \A r \in Request :
    /\ inst[r] # "none" \/ pc[r] = "save" => ident[r] \in Account
    /\ pc[r] \in {"start", "poll", "save"} => inst[r] = "none"

IInv == /\ TypeOK /\ InstallInv /\ DurableInv /\ IdentInv /\ ServesPinnedAccount
        /\ MarkerVouches
=============================================================================
