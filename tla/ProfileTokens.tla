---------------------------- MODULE ProfileTokens ----------------------------
(***************************************************************************)
(* The OAuth tokens of the Claude profiles: UsageMonitor's checks of the   *)
(* active profile and its fetches for the others (usage-monitor.ts), the   *)
(* refresh of a token (token-refresh.ts), the swap to another profile, and *)
(* next to them the Claude CLI, the user's logins and the server.          *)
(*                                                                         *)
(* A refresh revokes the token it was asked with: of two refreshes of one  *)
(* token the second is refused, and an answer that is lost loses the new   *)
(* token.  A pair of access and refresh token is one number, of which the  *)
(* refresh token may be missing; API profiles, usage figures, their cache  *)
(* and the pause after a 429 are left out.                                 *)
(***************************************************************************)
EXTENDS Integers, FiniteSets

CONSTANTS
  Profiles,              \* OAuth profiles
  Calls,                 \* checks, fetches and CLI refreshes under way at once
  MAX_REFRESH_RETRIES,
  MaxEvents              \* bound: what comes from outside: expiries, logins, switches, CLI
                         \* refreshes, failed requests and reads, revocations, restarts

ASSUME TokensAssumption == MAX_REFRESH_RETRIES \in Nat /\ MaxEvents \in Nat

VARIABLES
  active,       \* activeProfileId
  accepted,     \* the tokens of a profile the server takes
  stored,       \* the token in the profile's credential store
  expiring,     \* profiles whose stored token is within 30 minutes of its expiry
  needsReauth,  \* needsReauthProfiles
  authFailed,   \* authFailedProfiles
  call,         \* the asynchronous calls
  issued,       \* tokens the server issued so far
  exchanged,    \* history: tokens that were refreshed
  norefresh,    \* profiles whose stored credentials have no refresh token
  unnoticed,    \* profiles logged in again, which the application did not see yet
  lost,         \* history: nobody has a token of the profile the server takes
  misled,       \* history: profiles marked for a token that was or is replaced, or for
                \* a read or a write of the credential store that failed
  events

world      == <<accepted, issued, exchanged, norefresh>>
marks      == <<needsReauth, authFailed, misled>>
tokensVars == <<active, accepted, stored, expiring, needsReauth, authFailed, call, issued,
                exchanged, norefresh, unnoticed, lost, misled, events>>

NoToken  == 0
Unasked  == -1     \* no answer yet
Refused  == -2     \* invalid_grant
Nobody   == "nobody"

NoCall == [kind |-> "none", at |-> "idle", checked |-> Nobody, profile |-> Nobody,
           token |-> NoToken, tries |-> 0, answer |-> Unasked, exclude |-> {}, moved |-> FALSE]

isChecking == \E c \in Calls : call[c].kind = "check"

Event == events < MaxEvents /\ events' = events + 1

Becomes(c, changed) == call' = [call EXCEPT ![c] = changed]
Asking(c)           == call[c].at \in {"refreshing", "reacting"}

\* Another profile becomes active during a check, not by a check.
Switched == [c \in Calls |-> [call[c] EXCEPT !.moved = @ \/ call[c].kind = "check"]]

------------------------------------------------------------------------------
(* The beginning of the calls.                                             *)

\* Fault: nobody looks whether a check is running.
StartCheckAnyway(c) ==
  /\ call[c] = NoCall
  /\ Becomes(c, [NoCall EXCEPT !.kind = "check", !.at = "credential", !.checked = active])
  /\ UNCHANGED <<active, world, stored, expiring, marks, unnoticed, lost, events>>

\* The timer, or checkNow.  determineActiveProfile.
StartCheck(c) ==
  /\ call[c] = NoCall /\ ~isChecking
  /\ Becomes(c, [NoCall EXCEPT !.kind = "check", !.at = "credential", !.checked = active])
  /\ UNCHANGED <<active, world, stored, expiring, marks, unnoticed, lost, events>>

\* ensureValidToken up to its await, for a profile with credentials.  What cannot
\* be refreshed is used as it is, and so is the token of a second read.
Using(cl, p) == [cl EXCEPT !.profile = p, !.token = stored[p], !.at = "usage"]

Ensuring(cl, p) ==
  [Using(cl, p) EXCEPT !.at = IF p \in expiring \ norefresh THEN "refreshing" ELSE "usage"]

\* Without credentials: missing_credentials, and nothing to ask the API with.
MarkMissing(c, p) ==
  /\ needsReauth' = needsReauth \cup {p}
  /\ Becomes(c, NoCall)
  /\ UNCHANGED <<authFailed, misled>>

\* getCredential, which asks again which profile is active.
GetCredential(c) ==
  /\ call[c].at = "credential"
  /\ IF stored[active] = NoToken THEN MarkMissing(c, active)
     ELSE Becomes(c, Ensuring(call[c], active)) /\ UNCHANGED marks
  /\ UNCHANGED <<active, world, stored, expiring, unnoticed, lost, events>>

\* getAllProfilesUsage, for one of the inactive profiles.
FetchInactive(c, p) ==
  /\ call[c] = NoCall /\ p # active
  /\ IF stored[p] = NoToken THEN MarkMissing(c, p)
     ELSE Becomes(c, Ensuring([NoCall EXCEPT !.kind = "fetch"], p)) /\ UNCHANGED marks
  /\ UNCHANGED <<active, world, stored, expiring, unnoticed, lost, events>>

\* The credential store cannot be read, at first or at all: the error has no code,
\* and without a token the profile counts as one without credentials.
MarkUnread(c, p) ==
  /\ needsReauth' = needsReauth \cup {p} /\ misled' = misled \cup {p}
  /\ Becomes(c, NoCall)
  /\ UNCHANGED authFailed

ReadFails(c, cl, p) ==
  /\ Event
  /\ \/ stored[p] # NoToken /\ Becomes(c, Using(cl, p)) /\ UNCHANGED marks
     \/ MarkUnread(c, p)
  /\ UNCHANGED <<active, world, stored, expiring, unnoticed, lost>>

CredentialUnread(c) == call[c].at = "credential" /\ ReadFails(c, call[c], active)

InactiveUnread(c, p) ==
  /\ call[c] = NoCall /\ p # active
  /\ ReadFails(c, [NoCall EXCEPT !.kind = "fetch"], p)

\* getAllProfilesUsage before any usage is known: a profile without a token that can
\* be read is marked.
ProfilesListed(unread) ==
  /\ unread # {} => Event
  /\ unread = {} => UNCHANGED events
  /\ needsReauth' = needsReauth \cup unread \cup {p \in Profiles : stored[p] = NoToken}
  /\ misled' = misled \cup unread
  /\ UNCHANGED <<active, world, stored, expiring, authFailed, call, unnoticed, lost>>

\* The Claude CLI refreshes by itself.
CliRefreshes(c, p) ==
  /\ call[c] = NoCall /\ p \in expiring \ norefresh /\ stored[p] # NoToken
  /\ Becomes(c, [NoCall EXCEPT !.kind = "cli", !.at = "refreshing", !.profile = p, !.token = stored[p]])
  /\ Event
  /\ UNCHANGED <<active, world, stored, expiring, marks, unnoticed, lost>>

------------------------------------------------------------------------------
(* refreshOAuthToken, and what its callers do with the result.             *)

\* The server's side of a request.
Serve(c) ==
  /\ Asking(c) /\ call[c].answer = Unasked
  /\ LET p == call[c].profile
         t == call[c].token
     IN IF t \in accepted[p]
        THEN /\ issued' = issued + 1
             /\ accepted' = [accepted EXCEPT ![p] = (@ \ {t}) \cup {issued'}]
             /\ exchanged' = exchanged \cup {t} /\ UNCHANGED norefresh
             /\ Becomes(c, [call[c] EXCEPT !.answer = issued'])
        ELSE Becomes(c, [call[c] EXCEPT !.answer = Refused]) /\ UNCHANGED world
  /\ UNCHANGED <<active, stored, expiring, marks, unnoticed, lost, events>>

\* The call goes on with a token: to the usage API, but for the CLI, and for the
\* refresh after a 401, which leaves it to the next check.
ContinuesWith(c, t) ==
  IF call[c].kind = "cli" \/ call[c].at = "reacting" THEN NoCall
  ELSE [call[c] EXCEPT !.at = "usage", !.token = t, !.tries = 0, !.answer = Unasked]

\* Fault: the refresh token that was asked with is stored again.
StoresRefreshed(c) ==
  LET p == call[c].profile
  IN /\ stored' = [stored EXCEPT ![p] = IF call[c].at = "reacting" THEN call[c].token ELSE call[c].answer]
     /\ expiring' = expiring \ {p}
     /\ lost' = IF call[c].answer \in accepted[p] THEN lost \ {p}
                ELSE IF call[c].answer \in exchanged THEN lost ELSE lost \cup {p}

\* updateKeychainCredentials.
Stores(c) ==
  LET p == call[c].profile
  IN /\ stored' = [stored EXCEPT ![p] = call[c].answer]
     /\ expiring' = expiring \ {p}
     /\ lost' = IF call[c].answer \in accepted[p] THEN lost \ {p}
                ELSE IF call[c].answer \in exchanged THEN lost ELSE lost \cup {p}

\* A refresh succeeded and its result is stored: the mark goes.
Refreshed(c) ==
  /\ Asking(c) /\ call[c].answer > NoToken
  /\ Stores(c)
  /\ IF call[c].kind = "cli" THEN UNCHANGED marks
     ELSE /\ needsReauth' = needsReauth \ {call[c].profile}
          /\ misled' = misled \ {call[c].profile}
          /\ UNCHANGED authFailed
  /\ Becomes(c, ContinuesWith(c, call[c].answer))
  /\ UNCHANGED <<active, world, unnoticed, events>>

\* persistenceFailed: the token serves this call only.
PersistenceFails(c) ==
  LET p == call[c].profile
  IN /\ Asking(c) /\ call[c].answer > NoToken /\ call[c].kind # "cli"
     /\ Event
     /\ needsReauth' = needsReauth \cup {p} /\ misled' = misled \cup {p}
     /\ lost' = IF stored[p] \in accepted[p] THEN lost ELSE lost \cup {p}
     /\ Becomes(c, ContinuesWith(c, call[c].answer))
     /\ UNCHANGED <<active, world, stored, expiring, authFailed, unnoticed>>

\* The CLI refreshes with a token the server takes, or has the answer to it.
CliWillStore(p) ==
  \E d \in Calls : /\ call[d].kind = "cli" /\ call[d].profile = p
                   /\ {call[d].token, call[d].answer} \cap accepted[p] # {}

\* The refused token was exchanged for another one, is no longer the stored one, or
\* will be replaced without the application.
MistakenRefusal(c) ==
  \/ call[c].token \in exchanged \/ call[c].token # stored[call[c].profile]
  \/ CliWillStore(call[c].profile)

\* Fault: the profile of the check is marked.
MarkChecked(c) ==
  /\ needsReauth' = needsReauth \cup {call[c].checked}
  /\ misled' = IF MistakenRefusal(c) THEN misled \cup {call[c].checked} ELSE misled

\* Fault: a refusal after a 401 is logged only.
MarkUnlessReacting(c) ==
  /\ needsReauth' = IF call[c].at = "reacting" THEN needsReauth
                    ELSE needsReauth \cup {call[c].profile}
  /\ misled' = IF MistakenRefusal(c) THEN (misled \cup {call[c].profile}) \cap needsReauth'
                ELSE misled

\* invalid_grant.
MarkInvalid(c) ==
  /\ needsReauth' = needsReauth \cup {call[c].profile}
  /\ misled' = IF MistakenRefusal(c) THEN misled \cup {call[c].profile} ELSE misled

\* The rest of handleAuthFailure: the profile counts as failed, older entries
\* may be dropped, and if swaps are enabled one to another profile follows.
AuthFails(c) ==
  \E kept \in SUBSET authFailed :
    /\ authFailed' = kept \cup {call[c].checked}
    /\ \E next \in {NoCall, [call[c] EXCEPT !.at = "swapping", !.exclude = authFailed', !.tries = 0,
                                            !.answer = Unasked]} : Becomes(c, next)

\* A check or a fetch goes on with what the store has now.
RefreshRefused(c) ==
  /\ Asking(c) /\ call[c].answer = Refused
  /\ IF call[c].kind = "cli" THEN Becomes(c, NoCall) /\ UNCHANGED marks
     ELSE /\ MarkInvalid(c)
          /\ IF call[c].at = "reacting" THEN AuthFails(c)
             ELSE Becomes(c, ContinuesWith(c, stored[call[c].profile])) /\ UNCHANGED authFailed
  /\ UNCHANGED <<active, world, stored, expiring, unnoticed, lost, events>>

\* invalid_client: not repeated either, but no profile is marked for it.
ClientRefused(c) ==
  /\ Asking(c) /\ call[c].answer = Unasked /\ Event
  /\ IF call[c].at = "reacting" THEN AuthFails(c) /\ UNCHANGED <<needsReauth, misled>>
     ELSE Becomes(c, ContinuesWith(c, stored[call[c].profile])) /\ UNCHANGED marks
  /\ UNCHANGED <<active, world, stored, expiring, unnoticed, lost>>

\* A request or its answer is lost: it is repeated with the same token, and
\* after the last time the call goes on with the old one.
RequestFails(c) ==
  LET p == call[c].profile
  IN /\ Asking(c) /\ Event
     /\ lost' = IF call[c].answer > NoToken /\ stored[p] \notin accepted[p] THEN lost \cup {p} ELSE lost
     /\ IF call[c].kind # "cli" /\ call[c].tries < MAX_REFRESH_RETRIES
        THEN Becomes(c, [call[c] EXCEPT !.tries = @ + 1, !.answer = Unasked]) /\ UNCHANGED marks
        ELSE IF call[c].at = "reacting"
        THEN AuthFails(c) /\ UNCHANGED <<needsReauth, misled>>
        ELSE Becomes(c, ContinuesWith(c, call[c].token)) /\ UNCHANGED marks
     /\ UNCHANGED <<active, world, stored, expiring, unnoticed>>

------------------------------------------------------------------------------
(* fetchUsageViaAPI, and the end of a check.                               *)

UsageKnown(c) ==
  /\ call[c].at = "usage" /\ call[c].token \in accepted[call[c].profile]
  /\ Becomes(c, IF call[c].kind = "check" THEN [call[c] EXCEPT !.at = "listing"] ELSE NoCall)
  /\ UNCHANGED <<active, world, stored, expiring, marks, unnoticed, lost, events>>

Unauthorized(c) ==
  /\ call[c].at = "usage"
  /\ call[c].token \notin accepted[call[c].profile] \/ call[c].profile \in expiring

\* 401, also for a token that expired: the profile that was active when the check
\* began is refreshed, if it has a refresh token.  A fetch gives up.
UsageUnauthorized(c) ==
  /\ Unauthorized(c)
  /\ LET p == call[c].checked
     IN IF call[c].kind = "fetch" THEN Becomes(c, NoCall) /\ UNCHANGED marks
        ELSE IF stored[p] = NoToken \/ p \in norefresh
        THEN AuthFails(c) /\ UNCHANGED <<needsReauth, misled>>
        ELSE /\ Becomes(c, [call[c] EXCEPT !.at = "reacting", !.profile = p, !.token = stored[p]])
             /\ UNCHANGED marks
  /\ UNCHANGED <<active, world, stored, expiring, unnoticed, lost, events>>

\* And if its credentials cannot be read, it counts as failed.
RefreshUnread(c) ==
  /\ Unauthorized(c) /\ call[c].kind = "check" /\ Event
  /\ AuthFails(c) /\ UNCHANGED <<needsReauth, misled>>
  /\ UNCHANGED <<active, world, stored, expiring, unnoticed, lost>>

\* Another error, a 429 among them.
UsageFails(c) ==
  /\ call[c].at = "usage" /\ Event
  /\ Becomes(c, NoCall)
  /\ UNCHANGED <<active, world, stored, expiring, marks, unnoticed, lost>>

\* The usage of all profiles is listed; then the thresholds decide.
Listed(c) ==
  /\ call[c].at = "listing"
  /\ \E next \in {NoCall, [call[c] EXCEPT !.at = "swapping", !.exclude = {}]} : Becomes(c, next)
  /\ UNCHANGED <<active, world, stored, expiring, marks, unnoticed, lost, events>>

\* performProactiveSwap.
Swap(c) ==
  /\ call[c].at = "swapping"
  /\ LET others == Profiles \ ({call[c].checked} \cup call[c].exclude)
     IN IF others = {} THEN Becomes(c, NoCall) /\ UNCHANGED active
        ELSE active' \in others /\ Becomes(c, NoCall)
  /\ UNCHANGED <<world, stored, expiring, marks, unnoticed, lost, events>>

------------------------------------------------------------------------------
(* The world around.                                                       *)

TokenExpires(p) ==
  /\ stored[p] # NoToken /\ p \notin expiring
  /\ Event
  /\ expiring' = expiring \cup {p}
  /\ UNCHANGED <<active, world, stored, marks, call, unnoticed, lost>>

\* The user logs in to a profile in a terminal.
Login(p) ==
  /\ Event
  /\ issued' = issued + 1
  /\ accepted' = [accepted EXCEPT ![p] = @ \cup {issued'}]
  /\ stored' = [stored EXCEPT ![p] = issued'] /\ expiring' = expiring \ {p}
  /\ lost' = lost \ {p} /\ unnoticed' = unnoticed \cup {p} /\ norefresh' = norefresh \ {p}
  /\ UNCHANGED <<active, exchanged, marks, call>>

\* Fault: only the usage cache is cleared.
LoginNoticedPartly(p) ==
  /\ p \in unnoticed /\ unnoticed' = unnoticed \ {p}
  /\ authFailed' = authFailed \ {p}
  /\ active' = p /\ call' = IF active = p THEN call ELSE Switched
  /\ UNCHANGED <<world, stored, expiring, needsReauth, misled, lost, events>>

\* handleOnboardingComplete, once the welcome screen is recognized.
LoginNoticed(p) ==
  /\ p \in unnoticed /\ unnoticed' = unnoticed \ {p}
  /\ needsReauth' = needsReauth \ {p} /\ authFailed' = authFailed \ {p} /\ misled' = misled \ {p}
  /\ active' = p /\ call' = IF active = p THEN call ELSE Switched
  /\ UNCHANGED <<world, stored, expiring, lost, events>>

\* The user, or the recovery of a failed task, switches the profile.
SwitchProfile(p) ==
  /\ p # active /\ Event
  /\ active' = p /\ call' = Switched
  /\ UNCHANGED <<world, stored, expiring, marks, unnoticed, lost>>

Revoke(p) ==
  /\ accepted[p] # {} /\ Event
  /\ accepted' = [accepted EXCEPT ![p] = {}] /\ lost' = lost \cup {p}
  /\ UNCHANGED <<active, stored, expiring, marks, call, issued, exchanged, norefresh, unnoticed>>

\* All calls but the CLI's end, the marks are in memory only.
MonitorRestarts ==
  /\ Event
  /\ call' = [c \in Calls |-> IF call[c].kind = "cli" THEN call[c] ELSE NoCall]
  /\ needsReauth' = {} /\ authFailed' = {} /\ misled' = {} /\ unnoticed' = {}
  /\ lost' = lost \cup {p \in Profiles : \E c \in Calls :
                          call[c].kind # "cli" /\ call[c].profile = p /\ Asking(c)
                          /\ call[c].answer > NoToken /\ stored[p] \notin accepted[p]}
  /\ UNCHANGED <<active, world, stored, expiring>>

------------------------------------------------------------------------------
TokensInit ==
  /\ active \in Profiles
  /\ \E with \in SUBSET Profiles :
       /\ stored = [p \in Profiles |-> IF p \in with THEN 1 ELSE NoToken]
       /\ accepted = [p \in Profiles |-> IF p \in with THEN {1} ELSE {}]
       /\ norefresh \in SUBSET with
  /\ expiring = {} /\ needsReauth = {} /\ authFailed = {}
  /\ call = [c \in Calls |-> NoCall]
  /\ issued = 1 /\ exchanged = {} /\ unnoticed = {} /\ lost = {} /\ misled = {}
  /\ events = 0

CallStep(c) ==
  \/ GetCredential(c) \/ Serve(c) \/ Refreshed(c) \/ RefreshRefused(c)
  \/ UsageKnown(c) \/ UsageUnauthorized(c) \/ Listed(c) \/ Swap(c)

TokensNext ==
  \/ \E c \in Calls :
       \/ StartCheck(c) \/ CallStep(c) \/ PersistenceFails(c) \/ RequestFails(c) \/ UsageFails(c)
       \/ CredentialUnread(c) \/ ClientRefused(c) \/ RefreshUnread(c)
       \/ \E p \in Profiles : FetchInactive(c, p) \/ InactiveUnread(c, p) \/ CliRefreshes(c, p)
  \/ \E p \in Profiles :
       TokenExpires(p) \/ Login(p) \/ LoginNoticed(p) \/ SwitchProfile(p) \/ Revoke(p)
  \/ \E unread \in SUBSET Profiles : ProfilesListed(unread)
  \/ MonitorRestarts

TokensSpec == TokensInit /\ [][TokensNext]_tokensVars

\* Requests are answered, and the timer starts a check again and again.
TokensFairSpec ==
  /\ TokensSpec
  /\ \A c \in Calls : WF_tokensVars(CallStep(c))
  /\ SF_tokensVars(\E c \in Calls : StartCheck(c))

------------------------------------------------------------------------------
TokensTypeOK ==
  /\ active \in Profiles /\ stored \in [Profiles -> 0..issued]
  /\ \A p \in Profiles : accepted[p] \subseteq 1..issued
  /\ expiring \cup norefresh \cup needsReauth \cup authFailed \subseteq Profiles
  /\ unnoticed \subseteq Profiles /\ lost \subseteq Profiles /\ misled \subseteq needsReauth
  /\ \A c \in Calls : call[c].tries \in 0..MAX_REFRESH_RETRIES /\ call[c].answer \in -2..issued

\* The stored token is one the server takes, however many refreshes and logins
\* overlap, unless a refresh is about to store one, or an answer, a write or the
\* grant was lost.
TokenKept ==
  \A p \in Profiles :
    stored[p] \in accepted[p] \cup {NoToken} \/ p \in lost
      \/ \E c \in Calls : call[c].profile = p /\ Asking(c) /\ call[c].answer \in accepted[p]

\* A profile that needs authentication really does: it has no token the server
\* takes.  Otherwise the refusal was of a token another refresh, or a lost one,
\* had exchanged or that the CLI was about to replace, its credentials could not be
\* read or its new token not be stored, or the user just logged in.
MarkIsTrue ==
  \A p \in needsReauth :
    stored[p] \notin accepted[p] \/ p \in misled \/ p \in unnoticed

\* A check swaps away from the profile that is active, except if somebody else
\* switched while it was waiting: no two checks act on one observation.
SwapLeavesActive ==
  [][\A c \in Calls : Swap(c) /\ ~call[c].moved => call[c].checked = active]_tokensVars

\* If the token of the active profile is no longer taken, the profile that is active
\* comes to be marked, or to be one with a good token, whatever the calls under way
\* had read before and however often it is swapped.  One that has no refresh token
\* only counts as failed, which the user is not told.
DeadIsReported ==
  stored[active] \notin accepted[active]
    ~> \/ stored[active] \in accepted[active]
       \/ active \in needsReauth \cup (norefresh \cap authFailed)

==============================================================================
