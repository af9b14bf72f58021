------------------------- MODULE ProfileTokens_proofs -------------------------
(***************************************************************************)
(* Proofs about ProfileTokens, for any profiles, any number of calls at    *)
(* once, of retries and of events.                                         *)
(*                                                                         *)
(* TokenKept is not inductive: a call that stores the answer it got keeps  *)
(* the token only because nobody exchanged that answer before, which       *)
(* AnswersUnused says.  Nor is MarkIsTrue: a refused token stays refused   *)
(* (RefusedIsDead), but the CLI may store another one at any time, which   *)
(* MarkLasts rules out for a profile that is marked.                       *)
(*                                                                         *)
(* The last part bounds the steps of a call by a number that each of its   *)
(* steps lowers.                                                           *)
(***************************************************************************)
EXTENDS ProfileTokens, TLAPS

Records ==
  [kind : {"none", "check", "fetch", "cli"},
   at : {"idle", "credential", "refreshing", "reacting", "usage", "listing", "swapping"},
   checked : Profiles \cup {Nobody}, profile : Profiles \cup {Nobody},
   token : 0..issued, tries : 0..MAX_REFRESH_RETRIES, answer : -2..issued,
   exclude : SUBSET Profiles, moved : BOOLEAN]

WorldTyped ==
  /\ issued \in Nat \ {0} /\ exchanged \subseteq 1..issued
  /\ accepted \in [Profiles -> SUBSET (1..issued)]
  /\ stored \in [Profiles -> 0..issued] /\ norefresh \subseteq Profiles

SetsTyped ==
  /\ active \in Profiles /\ expiring \subseteq Profiles
  /\ needsReauth \subseteq Profiles /\ authFailed \subseteq Profiles
  /\ unnoticed \subseteq Profiles /\ lost \subseteq Profiles /\ misled \subseteq needsReauth

\* Where a call of a kind can be, and what it has read there.
CallShape(r) ==
  /\ r.kind = "none" => r = NoCall
  /\ r.kind # "none" => r.at # "idle"
  /\ r.kind = "check" => r.checked \in Profiles
  /\ r.kind = "fetch" => r.at \in {"refreshing", "usage"}
  /\ r.kind = "cli" => r.at = "refreshing"
  /\ r.at \in {"refreshing", "reacting", "usage"} => r.profile \in Profiles
  /\ r.answer # Unasked => r.at \in {"refreshing", "reacting"}
  /\ r.answer # NoToken

CallsTyped == call \in [Calls -> Records] /\ \A c \in Calls : CallShape(call[c])

OneCheck == \A c, d \in Calls : call[c].kind = "check" /\ call[d].kind = "check" => c = d

Observed ==
  \A c \in Calls : call[c].kind = "check" /\ ~call[c].moved => call[c].checked = active

\* Until a call stores the answer it got, nobody else has that token.
AnswersUnused ==
  \A c \in Calls : call[c].answer > NoToken =>
    /\ call[c].answer \notin exchanged
    /\ \A p \in Profiles : stored[p] # call[c].answer
    /\ \A d \in Calls : /\ call[d].token # call[c].answer
                        /\ call[d].answer = call[c].answer => d = c

RefusedIsDead ==
  \A c \in Calls :
    call[c].answer = Refused => call[c].token \notin accepted[call[c].profile]

\* The server takes no token of a profile that never logged in.
NoLoginNoToken == \A p \in Profiles : stored[p] = NoToken => accepted[p] = {}

MarkLasts ==
  \A p \in needsReauth :
    p \in misled \/ p \in unnoticed \/ (stored[p] \notin accepted[p] /\ ~CliWillStore(p))

Typed == WorldTyped /\ SetsTyped /\ CallsTyped

History == AnswersUnused /\ RefusedIsDead /\ NoLoginNoToken

IInv == Typed /\ OneCheck /\ Observed /\ History /\ TokenKept /\ MarkLasts

------------------------------------------------------------------------------
(* A call that asks nothing: it replaces the one of c by r.                *)

LEMMA NoCallTyped == Typed => NoCall \in Records /\ CallShape(NoCall)
<1>1. ASSUME Typed PROVE NoCall \in Records
  BY <1>1, TokensAssumption DEF Typed, WorldTyped, NoCall, Records, NoToken, Unasked
<1>2. CallShape(NoCall)
  BY DEF CallShape, NoCall, NoToken, Unasked
<1> QED BY <1>1, <1>2

\* What a step of call c leaves of the others.
LEMMA CallAt ==
  ASSUME Typed, NEW c \in Calls, NEW r, Becomes(c, r)
  PROVE  /\ call'[c] = r
         /\ \A d \in Calls : d # c => call'[d] = call[d]
  BY DEF Becomes, Typed, CallsTyped

\* A call that has no answer and no unstored answer of another call for a token
\* keeps the world as typed, and what the history says.
LEMMA CallMoves ==
  ASSUME Typed, History, NEW c \in Calls, NEW r, r \in Records, CallShape(r),
         r.answer = Unasked,
         \A d \in Calls : d # c => call[d].answer # r.token \/ r.token = NoToken,
         Becomes(c, r), UNCHANGED <<world, stored>>
  PROVE  WorldTyped' /\ CallsTyped' /\ History'
<1>0. /\ call'[c] = r
      /\ \A d \in Calls : d # c => call'[d] = call[d]
  BY CallAt
<1>1. WorldTyped'
  BY DEF Typed, WorldTyped, world
<1>2. CallsTyped'
  <2>1. call' \in [Calls -> Records]
    BY DEF Becomes, Typed, CallsTyped
  <2>2. Records' = Records
    BY DEF Records, world
  <2>3. \A d \in Calls : CallShape(call'[d])
    BY <1>0 DEF Typed, CallsTyped
  <2> QED BY <2>1, <2>2, <2>3 DEF CallsTyped, CallShape, NoCall
<1>3. AnswersUnused'
  <2> SUFFICES ASSUME NEW d \in Calls, call'[d].answer > NoToken
               PROVE  /\ call'[d].answer \notin exchanged'
                      /\ \A p \in Profiles : stored'[p] # call'[d].answer
                      /\ \A e \in Calls : /\ call'[e].token # call'[d].answer
                                          /\ call'[e].answer = call'[d].answer => e = d
    BY DEF AnswersUnused
  <2>1. d # c /\ call'[d] = call[d]
    BY <1>0 DEF Unasked, NoToken
  <2>2. call'[d].answer # r.token
    BY <2>1 DEF NoToken
  <2>3. call'[d].answer # r.answer
    BY DEF Unasked, NoToken
  <2> QED BY <1>0, <2>1, <2>2, <2>3 DEF History, AnswersUnused, world
<1>4. RefusedIsDead'
  BY <1>0 DEF History, RefusedIsDead, world, Refused, Unasked
<1>5. NoLoginNoToken'
  BY DEF History, NoLoginNoToken, world
<1> QED BY <1>1, <1>2, <1>3, <1>4, <1>5 DEF History

\* A step of a call begins no check beside another one.
LEMMA ChecksMove ==
  ASSUME Typed, OneCheck, NEW c \in Calls, NEW r, Becomes(c, r),
         r.kind = "check" => call[c].kind = "check" \/ ~isChecking
  PROVE  OneCheck'
<1>1. /\ call'[c] = r
      /\ \A d \in Calls : d # c => call'[d] = call[d]
  BY CallAt
<1> QED BY <1>1 DEF OneCheck, isChecking

\* A check goes on with what it observed.
LEMMA ObservationMoves ==
  ASSUME Typed, Observed, NEW c \in Calls, NEW r, Becomes(c, r), UNCHANGED active,
         r.kind = "check" => \/ r.checked = active
                             \/ /\ call[c].kind = "check"
                                /\ r.checked = call[c].checked /\ r.moved = call[c].moved
  PROVE  Observed'
<1>1. /\ call'[c] = r
      /\ \A d \in Calls : d # c => call'[d] = call[d]
  BY CallAt
<1> QED BY <1>1 DEF Observed

\* Who gives up an answer the server takes leaves the profile with another such
\* token, or counts it as lost.
LEMMA TokenMoves ==
  ASSUME Typed, TokenKept, NEW c \in Calls, NEW r, Becomes(c, r),
         UNCHANGED <<accepted, stored>>, lost \subseteq lost',
         Asking(c) /\ call[c].answer > NoToken =>
           stored[call[c].profile] \in accepted[call[c].profile] \/ call[c].profile \in lost'
  PROVE  TokenKept'
<1>1. /\ call'[c] = r
      /\ \A d \in Calls : d # c => call'[d] = call[d]
  BY CallAt
<1> SUFFICES ASSUME NEW p \in Profiles, stored[p] \notin accepted[p] \cup {NoToken}, p \notin lost'
             PROVE  \E d \in Calls : call'[d].profile = p /\ Asking(d)' /\ call'[d].answer \in accepted[p]
  BY DEF TokenKept
<1>2. PICK d \in Calls : call[d].profile = p /\ Asking(d) /\ call[d].answer \in accepted[p]
  BY DEF TokenKept
<1>3. call[d].answer > NoToken
  BY <1>2 DEF Typed, WorldTyped, NoToken
<1>4. d # c
  BY <1>2, <1>3
<1> QED BY <1>1, <1>2, <1>4 DEF Asking

\* A mark stays true while the CLI asks for no other token.
LEMMA MarksMove ==
  ASSUME Typed, MarkLasts, NEW c \in Calls, NEW r, Becomes(c, r),
         UNCHANGED <<accepted, stored, unnoticed>>,
         r.kind = "cli" => r.answer = Unasked /\ r.token = stored[r.profile],
         needsReauth' \ needsReauth \subseteq misled'
           \cup {p \in Profiles : stored[p] \notin accepted[p] /\ ~CliWillStore(p)},
         misled \cap needsReauth' \subseteq misled'
  PROVE  MarkLasts'
<1>1. /\ call'[c] = r
      /\ \A d \in Calls : d # c => call'[d] = call[d]
  BY CallAt
<1>2. ASSUME NEW p \in Profiles, stored[p] \notin accepted[p], CliWillStore(p)'
      PROVE  CliWillStore(p)
  <2>1. PICK d \in Calls : /\ call'[d].kind = "cli" /\ call'[d].profile = p
                           /\ {call'[d].token, call'[d].answer} \cap accepted[p] # {}
    BY <1>2 DEF CliWillStore
  <2>2. d # c
    BY <1>1, <1>2, <2>1 DEF Typed, WorldTyped, Unasked
  <2> QED BY <1>1, <2>1, <2>2 DEF CliWillStore
<1>3. needsReauth \subseteq Profiles
  BY DEF Typed, SetsTyped
<1> SUFFICES ASSUME NEW p \in needsReauth', p \notin misled', p \notin unnoticed
             PROVE  stored[p] \notin accepted[p] /\ ~CliWillStore(p)'
  BY DEF MarkLasts
<1>4. p \in Profiles /\ stored[p] \notin accepted[p] /\ ~CliWillStore(p)
  BY <1>3 DEF MarkLasts
<1> QED BY <1>2, <1>4

\* All of it for a step that changes one call, the marks and the lost tokens.
LEMMA CallKeeps ==
  ASSUME IInv, NEW c \in Calls, NEW r, r \in Records, CallShape(r), r.answer = Unasked,
         \A d \in Calls : d # c => call[d].answer # r.token \/ r.token = NoToken,
         Becomes(c, r), UNCHANGED <<active, world, stored, unnoticed>>, SetsTyped',
         r.kind = "check" => \/ r.checked = active /\ ~isChecking
                             \/ /\ call[c].kind = "check"
                                /\ r.checked = call[c].checked /\ r.moved = call[c].moved,
         r.kind = "cli" => r.token = stored[r.profile],
         lost \subseteq lost',
         Asking(c) /\ call[c].answer > NoToken =>
           stored[call[c].profile] \in accepted[call[c].profile] \/ call[c].profile \in lost',
         needsReauth' \ needsReauth \subseteq misled'
           \cup {p \in Profiles : stored[p] \notin accepted[p] /\ ~CliWillStore(p)},
         misled \cap needsReauth' \subseteq misled'
  PROVE  IInv'
<1>1. WorldTyped' /\ CallsTyped' /\ History'
  BY CallMoves DEF IInv
<1>2. OneCheck'
  BY ChecksMove DEF IInv
<1>3. Observed'
  BY ObservationMoves DEF IInv
<1>4. accepted' = accepted
  BY DEF world
<1>5. TokenKept'
  BY <1>4, TokenMoves DEF IInv
<1>6. MarkLasts'
  BY <1>4, MarksMove DEF IInv
<1> QED BY <1>1, <1>2, <1>3, <1>5, <1>6 DEF IInv, Typed

\* A call that ends, or goes on with the token it has or with a stored one, and
\* changes no mark and loses no token.
LEMMA CallGoesOn ==
  ASSUME IInv, NEW c \in Calls, NEW r, r \in Records, CallShape(r), r.answer = Unasked,
         r.token \in {NoToken, call[c].token} \cup {stored[p] : p \in Profiles},
         Becomes(c, r), UNCHANGED <<active, world, stored, expiring, marks, unnoticed, lost>>,
         r.kind = "check" => \/ r.checked = active /\ ~isChecking
                             \/ /\ call[c].kind = "check"
                                /\ r.checked = call[c].checked /\ r.moved = call[c].moved,
         r.kind = "cli" => r.token = stored[r.profile],
         ~Asking(c) \/ call[c].answer <= NoToken
  PROVE  IInv'
<1>1. \A d \in Calls : d # c => call[d].answer # r.token \/ r.token = NoToken
  <2> SUFFICES ASSUME NEW d \in Calls, d # c, call[d].answer = r.token, r.token # NoToken
               PROVE  FALSE
    OBVIOUS
  <2>1. call[d].answer > NoToken
    BY DEF Records, NoToken, IInv, Typed, WorldTyped
  <2> QED BY <2>1 DEF IInv, History, AnswersUnused
<1>2. SetsTyped'
  BY DEF marks, IInv, Typed, SetsTyped
<1>3. ~(Asking(c) /\ call[c].answer > NoToken)
  BY DEF IInv, Typed, WorldTyped, CallsTyped, Records, NoToken
<1>4. UNCHANGED <<needsReauth, misled>>
  BY DEF marks
<1> QED BY <1>1, <1>2, <1>3, <1>4, CallKeeps

\* The fields of a call that is typed.
LEMMA CallFields ==
  ASSUME Typed, NEW c \in Calls
  PROVE  /\ call[c] \in Records /\ CallShape(call[c])
         /\ ~Asking(c) => call[c].answer = Unasked
         /\ stored \in [Profiles -> 0..issued] /\ issued \in Nat
  BY DEF Typed, CallsTyped, WorldTyped, CallShape, Asking

------------------------------------------------------------------------------
(* The steps.                                                              *)

LEMMA StartCheckKeeps == ASSUME IInv, NEW c \in Calls, StartCheck(c) PROVE IInv'
<1> DEFINE r == [NoCall EXCEPT !.kind = "check", !.at = "credential", !.checked = active]
<1>1. r \in Records /\ CallShape(r)
  BY NoCallTyped DEF IInv, Typed, SetsTyped, NoCall, Records, CallShape, NoToken, Unasked
<1>2. /\ r.answer = Unasked /\ r.token = NoToken /\ r.kind = "check" /\ r.checked = active
      /\ Becomes(c, r) /\ ~isChecking /\ ~Asking(c)
  BY DEF StartCheck, NoCall, Asking
<1> HIDE DEF r
<1> QED BY <1>1, <1>2, CallGoesOn DEF StartCheck

\* ensureValidToken begins, or the credentials are read a second time.
LEMMA EnsuringTyped ==
  ASSUME Typed, NEW cl \in Records, NEW p \in Profiles, cl.kind \in {"check", "fetch"},
         cl.kind = "check" => cl.checked \in Profiles, cl.answer = Unasked,
         NEW r \in {Ensuring(cl, p), Using(cl, p)}
  PROVE  /\ r \in Records /\ CallShape(r) /\ r.answer = Unasked /\ r.token = stored[p]
         /\ r.kind = cl.kind /\ r.checked = cl.checked /\ r.moved = cl.moved
         /\ r.at \in {"refreshing", "usage"}
<1>1. stored[p] \in 0..issued
  BY DEF Typed, WorldTyped
<1> DEFINE reads(place) == [cl EXCEPT !.profile = p, !.token = stored[p], !.at = place]
<1>2. PICK place \in {"refreshing", "usage"} : r = reads(place)
  <2>1. Using(cl, p) = reads("usage")
    BY DEF Using
  <2>2. Ensuring(cl, p) \in {reads("usage"), reads("refreshing")}
    BY DEF Ensuring, Using, Records
  <2> QED BY <2>1, <2>2
<1>3. r \in Records
  BY <1>1, <1>2 DEF Records
<1>4. /\ r.kind = cl.kind /\ r.at = place /\ r.profile = p /\ r.token = stored[p]
      /\ r.answer = cl.answer /\ r.checked = cl.checked /\ r.moved = cl.moved
  BY <1>2 DEF Records
<1>5. CallShape(r)
  BY <1>4 DEF CallShape, NoToken, Unasked
<1> QED BY <1>3, <1>4, <1>5

\* What is marked for missing credentials has none.
LEMMA MissingKeeps ==
  ASSUME IInv, NEW c \in Calls, NEW p \in Profiles, stored[p] = NoToken, MarkMissing(c, p),
         ~Asking(c), UNCHANGED <<active, world, stored, expiring, unnoticed, lost>>
  PROVE  IInv'
<1>1. NoCall \in Records /\ CallShape(NoCall)
  BY NoCallTyped DEF IInv
<1>2. SetsTyped'
  BY DEF IInv, Typed, SetsTyped, MarkMissing
<1>3. stored[p] \notin accepted[p] /\ accepted[p] = {}
  BY DEF IInv, History, NoLoginNoToken
<1>4. ~CliWillStore(p)
  BY <1>3 DEF CliWillStore
<1>5. NoCall.answer = Unasked /\ NoCall.token = NoToken /\ NoCall.kind = "none"
  BY DEF NoCall
<1>6. needsReauth' = needsReauth \cup {p} /\ misled' = misled /\ Becomes(c, NoCall)
  BY DEF MarkMissing
<1> QED BY <1>1, <1>2, <1>3, <1>4, <1>5, <1>6, CallKeeps

LEMMA GetCredentialKeeps == ASSUME IInv, NEW c \in Calls, GetCredential(c) PROVE IInv'
<1>1. call[c].at = "credential" /\ ~Asking(c) /\ active \in Profiles
  BY DEF GetCredential, Asking, IInv, Typed, SetsTyped
<1>2. CASE stored[active] = NoToken
  BY <1>1, <1>2, MissingKeeps DEF GetCredential
<1>3. CASE stored[active] # NoToken
  <2> DEFINE r == Ensuring(call[c], active)
  <2>1. /\ call[c] \in Records /\ call[c].kind \in {"check", "fetch"}
        /\ call[c].kind = "check" => call[c].checked \in Profiles
        /\ call[c].answer = Unasked
    <3>1. call[c] \in Records /\ CallShape(call[c]) /\ call[c].answer = Unasked
      BY <1>1, CallFields DEF IInv
    <3> QED BY <1>1, <3>1 DEF Records, CallShape, NoCall
  <2>2. /\ r \in Records /\ CallShape(r) /\ r.answer = Unasked /\ r.token = stored[active]
        /\ r.kind = call[c].kind /\ r.checked = call[c].checked /\ r.moved = call[c].moved
    BY <1>1, <2>1, EnsuringTyped DEF IInv
  <2>3. Becomes(c, r) /\ UNCHANGED marks
    BY <1>3 DEF GetCredential
  <2> HIDE DEF r
  <2> QED BY <1>1, <2>1, <2>2, <2>3, CallGoesOn DEF GetCredential
<1> QED BY <1>2, <1>3

LEMMA FetchInactiveKeeps ==
  ASSUME IInv, NEW c \in Calls, NEW p \in Profiles, FetchInactive(c, p) PROVE IInv'
<1>1. ~Asking(c)
  BY DEF FetchInactive, Asking, NoCall
<1>2. CASE stored[p] = NoToken
  BY <1>1, <1>2, MissingKeeps DEF FetchInactive
<1>3. CASE stored[p] # NoToken
  <2> DEFINE cl == [NoCall EXCEPT !.kind = "fetch"]
             r  == Ensuring(cl, p)
  <2>1. cl \in Records /\ cl.kind = "fetch" /\ cl.answer = Unasked
    BY NoCallTyped DEF IInv, Records, NoCall
  <2>2. Becomes(c, r) /\ UNCHANGED marks
    BY <1>3 DEF FetchInactive
  <2> HIDE DEF cl
  <2>3. /\ r \in Records /\ CallShape(r) /\ r.answer = Unasked /\ r.token = stored[p]
        /\ r.kind = "fetch"
    BY <2>1, EnsuringTyped DEF IInv
  <2> HIDE DEF r
  <2> QED BY <1>1, <2>2, <2>3, CallGoesOn DEF FetchInactive
<1> QED BY <1>2, <1>3

\* A read that fails is misleading, or is made good by the second one.
LEMMA ReadFailsKeeps ==
  ASSUME IInv, NEW c \in Calls, NEW p \in Profiles, NEW cl \in Records, ReadFails(c, cl, p),
         ~Asking(c), cl.answer = Unasked, cl.kind \in {"check", "fetch"},
         cl.kind = "check" => /\ cl.checked \in Profiles /\ call[c].kind = "check"
                              /\ cl.checked = call[c].checked /\ cl.moved = call[c].moved
  PROVE  IInv'
<1>1. UNCHANGED <<active, world, stored, expiring, unnoticed, lost>>
  BY DEF ReadFails
<1>2. CASE Becomes(c, Using(cl, p)) /\ UNCHANGED marks
  <2> DEFINE r == Using(cl, p)
  <2>1. /\ r \in Records /\ CallShape(r) /\ r.answer = Unasked /\ r.token = stored[p]
        /\ r.kind = cl.kind /\ r.checked = cl.checked /\ r.moved = cl.moved
    BY EnsuringTyped DEF IInv
  <2>2. Becomes(c, r) /\ UNCHANGED marks
    BY <1>2
  <2> HIDE DEF r
  <2> QED BY <1>1, <2>1, <2>2, CallGoesOn
<1>3. CASE MarkUnread(c, p)
  <2>1. NoCall \in Records /\ CallShape(NoCall)
    BY NoCallTyped DEF IInv
  <2>2. NoCall.answer = Unasked /\ NoCall.token = NoToken /\ NoCall.kind = "none"
    BY DEF NoCall
  <2>3. /\ needsReauth' = needsReauth \cup {p} /\ misled' = misled \cup {p} /\ Becomes(c, NoCall)
        /\ authFailed' = authFailed
    BY <1>3 DEF MarkUnread
  <2>4. SetsTyped'
    BY <1>1, <2>3 DEF IInv, Typed, SetsTyped
  <2> QED BY <1>1, <2>1, <2>2, <2>3, <2>4, CallKeeps
<1> QED BY <1>2, <1>3 DEF ReadFails

LEMMA CredentialUnreadKeeps == ASSUME IInv, NEW c \in Calls, CredentialUnread(c) PROVE IInv'
<1>1. call[c].at = "credential" /\ ~Asking(c) /\ active \in Profiles
  BY DEF CredentialUnread, Asking, IInv, Typed, SetsTyped
<1>2. call[c] \in Records /\ CallShape(call[c]) /\ call[c].answer = Unasked
  BY <1>1, CallFields DEF IInv
<1>3. call[c].kind \in {"check", "fetch"} /\ (call[c].kind = "check" => call[c].checked \in Profiles)
  BY <1>1, <1>2 DEF Records, CallShape, NoCall
<1>4. ReadFails(c, call[c], active)
  BY DEF CredentialUnread
<1> QED BY <1>1, <1>2, <1>3, <1>4, ReadFailsKeeps

LEMMA InactiveUnreadKeeps ==
  ASSUME IInv, NEW c \in Calls, NEW p \in Profiles, InactiveUnread(c, p) PROVE IInv'
<1> DEFINE cl == [NoCall EXCEPT !.kind = "fetch"]
<1>1. cl \in Records /\ cl.kind = "fetch" /\ cl.answer = Unasked
  BY NoCallTyped DEF IInv, Records, NoCall
<1>2. ReadFails(c, cl, p) /\ ~Asking(c)
  BY DEF InactiveUnread, Asking, NoCall
<1> HIDE DEF cl
<1> QED BY <1>1, <1>2, ReadFailsKeeps

LEMMA CliRefreshesKeeps ==
  ASSUME IInv, NEW c \in Calls, NEW p \in Profiles, CliRefreshes(c, p) PROVE IInv'
<1> DEFINE r == [NoCall EXCEPT !.kind = "cli", !.at = "refreshing", !.profile = p,
                               !.token = stored[p]]
<1>1. stored[p] \in 0..issued
  BY DEF IInv, Typed, WorldTyped
<1>2. r \in Records /\ CallShape(r)
  BY <1>1, NoCallTyped DEF IInv, NoCall, Records, CallShape, NoToken, Unasked
<1>3. /\ r.answer = Unasked /\ r.token = stored[p] /\ r.kind = "cli" /\ r.profile = p
      /\ Becomes(c, r) /\ ~Asking(c)
  BY DEF CliRefreshes, NoCall, Asking
<1> HIDE DEF r
<1> QED BY <1>2, <1>3, CallGoesOn DEF CliRefreshes

\* The call that goes on with a token.
LEMMA ContinuesTyped ==
  ASSUME Typed, NEW c \in Calls, NEW t \in 0..issued, Asking(c)
  PROVE  LET r == ContinuesWith(c, t)
         IN /\ r \in Records /\ CallShape(r) /\ r.answer = Unasked /\ r.token \in {NoToken, t}
            /\ r.kind # "cli"
            /\ r.kind = "check" => /\ call[c].kind = "check"
                                   /\ r.checked = call[c].checked /\ r.moved = call[c].moved
<1> DEFINE r == ContinuesWith(c, t)
<1>1. call[c] \in Records /\ CallShape(call[c])
  BY CallFields
<1>2. CASE call[c].kind = "cli" \/ call[c].at = "reacting"
  <2>1. r = NoCall
    BY <1>2 DEF ContinuesWith
  <2>2. NoCall.answer = Unasked /\ NoCall.token = NoToken /\ NoCall.kind = "none"
    BY DEF NoCall
  <2> QED BY <2>1, <2>2, NoCallTyped
<1>3. CASE ~(call[c].kind = "cli" \/ call[c].at = "reacting")
  <2>1. call[c].at = "refreshing" /\ call[c].kind # "cli"
    BY <1>3 DEF Asking
  <2>2. call[c].kind \in {"check", "fetch"} /\ call[c].profile \in Profiles
    BY <1>1, <2>1 DEF Records, CallShape, NoCall
  <2>3. r = [call[c] EXCEPT !.at = "usage", !.token = t, !.tries = 0, !.answer = Unasked]
    BY <1>3 DEF ContinuesWith
  <2>4. r \in Records
    <3>1. 0 \in 0..MAX_REFRESH_RETRIES /\ -1 \in -2..issued
      BY TokensAssumption DEF Typed, WorldTyped
    <3> HIDE DEF r
    <3> QED BY <1>1, <2>3, <3>1 DEF Records, Unasked
  <2>5. /\ r.kind = call[c].kind /\ r.at = "usage" /\ r.profile = call[c].profile /\ r.token = t
        /\ r.answer = Unasked /\ r.checked = call[c].checked /\ r.moved = call[c].moved
    BY <1>1, <2>3 DEF Records
  <2>6. CallShape(r)
    BY <1>1, <2>2, <2>5 DEF CallShape, Unasked, NoToken
  <2> QED BY <2>2, <2>4, <2>5, <2>6
<1> QED BY <1>2, <1>3

LEMMA UsageKnownKeeps == ASSUME IInv, NEW c \in Calls, UsageKnown(c) PROVE IInv'
<1>1. /\ call[c] \in Records /\ CallShape(call[c]) /\ ~Asking(c) /\ call[c].answer = Unasked
      /\ call[c].at = "usage"
  BY CallFields DEF IInv, UsageKnown, Asking
<1>2. CASE call[c].kind = "check"
  <2> DEFINE r == [call[c] EXCEPT !.at = "listing"]
  <2>1. /\ r \in Records /\ CallShape(r) /\ r.answer = Unasked /\ r.token = call[c].token
        /\ r.kind = "check" /\ r.checked = call[c].checked /\ r.moved = call[c].moved
    BY <1>1, <1>2 DEF Records, CallShape, NoToken, Unasked
  <2>2. Becomes(c, r)
    BY <1>2 DEF UsageKnown
  <2> HIDE DEF r
  <2> QED BY <1>1, <1>2, <2>1, <2>2, CallGoesOn DEF UsageKnown
<1>3. CASE call[c].kind # "check"
  <2>1. NoCall.answer = Unasked /\ NoCall.token = NoToken /\ NoCall.kind = "none"
    BY DEF NoCall
  <2>2. Becomes(c, NoCall) /\ NoCall \in Records /\ CallShape(NoCall)
    BY <1>3, NoCallTyped DEF UsageKnown, IInv
  <2> QED BY <1>1, <2>1, <2>2, CallGoesOn DEF UsageKnown
<1> QED BY <1>2, <1>3

\* A call that ends without having asked.
LEMMA EndsQuietly ==
  ASSUME IInv, NEW c \in Calls, ~Asking(c) \/ call[c].answer <= NoToken, Becomes(c, NoCall),
         UNCHANGED <<active, world, stored, expiring, marks, unnoticed, lost>>
  PROVE  IInv'
<1>1. NoCall.answer = Unasked /\ NoCall.token = NoToken /\ NoCall.kind = "none"
  BY DEF NoCall
<1>2. NoCall \in Records /\ CallShape(NoCall)
  BY NoCallTyped DEF IInv
<1> QED BY <1>1, <1>2, CallGoesOn

LEMMA UsageFailsKeeps == ASSUME IInv, NEW c \in Calls, UsageFails(c) PROVE IInv'
<1>1. ~Asking(c)
  BY DEF UsageFails, Asking
<1> QED BY <1>1, EndsQuietly DEF UsageFails

LEMMA ListedKeeps == ASSUME IInv, NEW c \in Calls, Listed(c) PROVE IInv'
<1>1. /\ call[c] \in Records /\ CallShape(call[c]) /\ ~Asking(c) /\ call[c].answer = Unasked
      /\ call[c].at = "listing"
  BY CallFields DEF IInv, Listed, Asking
<1>2. CASE Becomes(c, NoCall)
  BY <1>1, <1>2, EndsQuietly DEF Listed
<1>3. CASE Becomes(c, [call[c] EXCEPT !.at = "swapping", !.exclude = {}])
  <2> DEFINE r == [call[c] EXCEPT !.at = "swapping", !.exclude = {}]
  <2>1. call[c].kind = "check"
    BY <1>1 DEF Records, CallShape, NoCall
  <2>2. /\ r \in Records /\ CallShape(r) /\ r.answer = Unasked /\ r.token = call[c].token
        /\ r.kind = "check" /\ r.checked = call[c].checked /\ r.moved = call[c].moved
    BY <1>1, <2>1 DEF Records, CallShape, NoToken, Unasked
  <2>3. Becomes(c, r)
    BY <1>3
  <2> HIDE DEF r
  <2> QED BY <1>1, <2>1, <2>2, <2>3, CallGoesOn DEF Listed
<1> QED BY <1>2, <1>3 DEF Listed

\* A check whose profile counts as failed ends, or goes on to the swap.
LEMMA AuthFailsKeeps ==
  ASSUME IInv, NEW c \in Calls, AuthFails(c), call[c].kind = "check",
         UNCHANGED <<active, world, stored, expiring, unnoticed>>,
         needsReauth' \subseteq Profiles, misled' \subseteq needsReauth', lost' \subseteq Profiles,
         lost \subseteq lost',
         Asking(c) /\ call[c].answer > NoToken =>
           stored[call[c].profile] \in accepted[call[c].profile] \/ call[c].profile \in lost',
         needsReauth' \ needsReauth \subseteq misled'
           \cup {p \in Profiles : stored[p] \notin accepted[p] /\ ~CliWillStore(p)},
         misled \cap needsReauth' \subseteq misled'
  PROVE  IInv'
<1>1. /\ call[c] \in Records /\ CallShape(call[c]) /\ call[c].checked \in Profiles
      /\ -1 \in -2..issued /\ 0 \in 0..MAX_REFRESH_RETRIES
  BY CallFields, TokensAssumption DEF IInv, CallShape
<1>2. authFailed' \subseteq Profiles
  BY <1>1 DEF AuthFails, IInv, Typed, SetsTyped
<1>3. SetsTyped'
  BY <1>2 DEF IInv, Typed, SetsTyped
<1>4. CASE Becomes(c, NoCall)
  <2>1. NoCall.answer = Unasked /\ NoCall.token = NoToken /\ NoCall.kind = "none"
    BY DEF NoCall
  <2>2. NoCall \in Records /\ CallShape(NoCall)
    BY NoCallTyped DEF IInv
  <2> QED BY <1>3, <1>4, <2>1, <2>2, CallKeeps
<1>5. CASE Becomes(c, [call[c] EXCEPT !.at = "swapping", !.exclude = authFailed', !.tries = 0,
                                      !.answer = Unasked])
  <2> DEFINE r == [call[c] EXCEPT !.at = "swapping", !.exclude = authFailed', !.tries = 0,
                                  !.answer = Unasked]
  <2>1. r \in Records
    BY <1>1, <1>2 DEF Records, Unasked
  <2>2. /\ r.answer = Unasked /\ r.token = call[c].token /\ r.at = "swapping" /\ r.kind = "check"
        /\ r.checked = call[c].checked /\ r.moved = call[c].moved
    BY <1>1 DEF Records
  <2>3. Becomes(c, r)
    BY <1>5
  <2> HIDE DEF r
  <2>4. CallShape(r)
    BY <1>1, <2>2 DEF CallShape, Unasked, NoToken
  <2>5. \A d \in Calls : d # c => call[d].answer # r.token \/ r.token = NoToken
    <3> SUFFICES ASSUME NEW d \in Calls, call[d].answer = call[c].token, call[c].token # NoToken
                 PROVE  FALSE
      BY <2>2
    <3>1. call[d].answer > NoToken
      BY <1>1 DEF Records, NoToken, IInv, Typed, WorldTyped
    <3> QED BY <3>1 DEF IInv, History, AnswersUnused
  <2> QED BY <1>3, <2>1, <2>2, <2>3, <2>4, <2>5, CallKeeps
<1> QED BY <1>4, <1>5 DEF AuthFails

\* A refresh that is repeated, or given up with the token it was asked with.
LEMMA RequestFailsKeeps == ASSUME IInv, NEW c \in Calls, RequestFails(c) PROVE IInv'
<1> DEFINE p == call[c].profile
<1>1. /\ call[c] \in Records /\ CallShape(call[c]) /\ Asking(c) /\ p \in Profiles
      /\ call[c].token \in 0..issued
  BY CallFields DEF IInv, RequestFails, Asking, CallShape, Records
<1>2. lost \subseteq lost' /\ lost' \subseteq Profiles
  BY <1>1 DEF RequestFails, IInv, Typed, SetsTyped
<1>3. call[c].answer > NoToken => stored[p] \in accepted[p] \/ p \in lost'
  BY DEF RequestFails
<1>4. UNCHANGED <<active, world, stored, expiring, unnoticed>>
  BY DEF RequestFails
<1>5. ASSUME NEW r, r.token \in {NoToken, call[c].token}
      PROVE  \A d \in Calls : d # c => call[d].answer # r.token \/ r.token = NoToken
  <2> SUFFICES ASSUME NEW d \in Calls, d # c, call[d].answer = r.token, r.token # NoToken
               PROVE  FALSE
    BY <1>5
  <2>1. call[d].answer > NoToken
    BY <1>1, <1>5 DEF NoToken
  <2> QED BY <1>5, <2>1 DEF IInv, History, AnswersUnused
<1>6. CASE call[c].kind # "cli" /\ call[c].tries < MAX_REFRESH_RETRIES
  <2> DEFINE r == [call[c] EXCEPT !.tries = @ + 1, !.answer = Unasked]
  <2>1. Becomes(c, r) /\ UNCHANGED marks
    BY <1>6 DEF RequestFails
  <2>2. call[c].tries + 1 \in 0..MAX_REFRESH_RETRIES
    BY <1>1, <1>6, TokensAssumption DEF Records
  <2>3. -1 \in -2..issued
    BY CallFields DEF IInv
  <2>4. r \in Records
    BY <1>1, <2>2, <2>3 DEF Records, Unasked
  <2>5. /\ r.answer = Unasked /\ r.token = call[c].token /\ r.kind = call[c].kind
        /\ r.checked = call[c].checked /\ r.moved = call[c].moved /\ r.at = call[c].at
        /\ r.profile = call[c].profile
    BY <1>1 DEF Records
  <2>6. call[c].kind # "none"
    BY <1>1 DEF CallShape, NoCall, Asking
  <2>7. CallShape(r)
    BY <1>1, <2>5, <2>6 DEF CallShape, Unasked, NoToken
  <2>8. SetsTyped'
    BY <1>2, <1>4, <2>1 DEF IInv, Typed, SetsTyped, marks
  <2>9. needsReauth' = needsReauth /\ misled' = misled
    BY <2>1 DEF marks
  <2> HIDE DEF r
  <2>10. \A d \in Calls : d # c => call[d].answer # r.token \/ r.token = NoToken
    BY <1>5, <2>5
  <2> QED BY <1>2, <1>3, <1>4, <1>6, <2>1, <2>4, <2>5, <2>7, <2>8, <2>9, <2>10, CallKeeps
<1>7. CASE ~(call[c].kind # "cli" /\ call[c].tries < MAX_REFRESH_RETRIES) /\ call[c].at = "reacting"
  <2>1. AuthFails(c) /\ UNCHANGED <<needsReauth, misled>>
    BY <1>7 DEF RequestFails
  <2>2. call[c].kind = "check"
    BY <1>1, <1>7 DEF Records, CallShape, NoCall
  <2>3. needsReauth' \subseteq Profiles /\ misled' \subseteq needsReauth'
    BY <2>1 DEF IInv, Typed, SetsTyped
  <2> QED BY <1>2, <1>3, <1>4, <2>1, <2>2, <2>3, AuthFailsKeeps
<1>8. CASE /\ ~(call[c].kind # "cli" /\ call[c].tries < MAX_REFRESH_RETRIES)
           /\ call[c].at # "reacting"
  <2> DEFINE r == ContinuesWith(c, call[c].token)
  <2>1. Becomes(c, r) /\ UNCHANGED marks
    BY <1>8 DEF RequestFails
  <2>2. /\ r \in Records /\ CallShape(r) /\ r.answer = Unasked /\ r.token \in {NoToken, call[c].token}
        /\ r.kind # "cli"
        /\ r.kind = "check" => /\ call[c].kind = "check"
                               /\ r.checked = call[c].checked /\ r.moved = call[c].moved
    BY <1>1, ContinuesTyped DEF IInv
  <2>3. SetsTyped'
    BY <1>2, <1>4, <2>1 DEF IInv, Typed, SetsTyped, marks
  <2>4. needsReauth' = needsReauth /\ misled' = misled
    BY <2>1 DEF marks
  <2> HIDE DEF r
  <2>5. \A d \in Calls : d # c => call[d].answer # r.token \/ r.token = NoToken
    BY <1>5, <2>2
  <2> QED BY <1>2, <1>3, <1>4, <2>1, <2>2, <2>3, <2>4, <2>5, CallKeeps
<1> QED BY <1>6, <1>7, <1>8

LEMMA UsageUnauthorizedKeeps == ASSUME IInv, NEW c \in Calls, UsageUnauthorized(c) PROVE IInv'
<1> DEFINE p == call[c].checked
<1>1. /\ call[c] \in Records /\ CallShape(call[c]) /\ ~Asking(c) /\ call[c].answer = Unasked
      /\ call[c].at = "usage"
  BY CallFields DEF IInv, UsageUnauthorized, Unauthorized, Asking
<1>2. UNCHANGED <<active, world, stored, expiring, unnoticed, lost>>
  BY DEF UsageUnauthorized
<1>3. CASE call[c].kind = "fetch"
  BY <1>1, <1>2, <1>3, EndsQuietly DEF UsageUnauthorized
<1>4. CASE call[c].kind # "fetch"
  <2>1. call[c].kind = "check" /\ p \in Profiles
    BY <1>1, <1>4 DEF Records, CallShape, NoCall
  <2>2. CASE stored[p] = NoToken \/ p \in norefresh
    <3>1. AuthFails(c) /\ UNCHANGED <<needsReauth, misled>>
      BY <1>4, <2>2 DEF UsageUnauthorized
    <3>2. needsReauth' \subseteq Profiles /\ misled' \subseteq needsReauth' /\ lost' \subseteq Profiles
      BY <1>2, <3>1 DEF IInv, Typed, SetsTyped
    <3> QED BY <1>1, <1>2, <2>1, <3>1, <3>2, AuthFailsKeeps
  <2>3. CASE ~(stored[p] = NoToken \/ p \in norefresh)
    <3> DEFINE r == [call[c] EXCEPT !.at = "reacting", !.profile = p, !.token = stored[p]]
    <3>1. Becomes(c, r) /\ UNCHANGED marks
      BY <1>4, <2>3 DEF UsageUnauthorized
    <3>2. stored[p] \in 0..issued
      BY <2>1 DEF IInv, Typed, WorldTyped
    <3>3. r \in Records
      BY <1>1, <2>1, <3>2 DEF Records
    <3>4. /\ r.answer = Unasked /\ r.token = stored[p] /\ r.at = "reacting" /\ r.kind = "check"
          /\ r.checked = call[c].checked /\ r.moved = call[c].moved /\ r.profile = p
      BY <1>1, <2>1 DEF Records
    <3> HIDE DEF r
    <3>5. CallShape(r)
      BY <2>1, <3>4 DEF CallShape, Unasked, NoToken
    <3> QED BY <1>1, <1>2, <2>1, <3>1, <3>3, <3>4, <3>5, CallGoesOn DEF UsageUnauthorized
  <2> QED BY <2>2, <2>3
<1> QED BY <1>3, <1>4

LEMMA RefreshUnreadKeeps == ASSUME IInv, NEW c \in Calls, RefreshUnread(c) PROVE IInv'
<1>1. ~Asking(c) /\ call[c].kind = "check" /\ AuthFails(c)
  BY DEF RefreshUnread, Unauthorized, Asking
<1>2. UNCHANGED <<active, world, stored, expiring, unnoticed, lost, needsReauth, misled>>
  BY DEF RefreshUnread
<1>3. needsReauth' \subseteq Profiles /\ misled' \subseteq needsReauth' /\ lost' \subseteq Profiles
  BY <1>2 DEF IInv, Typed, SetsTyped
<1> QED BY <1>1, <1>2, <1>3, AuthFailsKeeps

\* A refusal of the client is no refusal of the token.
LEMMA ClientRefusedKeeps == ASSUME IInv, NEW c \in Calls, ClientRefused(c) PROVE IInv'
<1> DEFINE p == call[c].profile
<1>1. /\ call[c] \in Records /\ CallShape(call[c]) /\ Asking(c) /\ p \in Profiles
      /\ call[c].answer = Unasked
  BY CallFields DEF IInv, ClientRefused, Asking, CallShape
<1>2. UNCHANGED <<active, world, stored, expiring, unnoticed, lost>>
  BY DEF ClientRefused
<1>3. call[c].answer <= NoToken /\ ~(call[c].answer > NoToken)
  BY <1>1 DEF Unasked, NoToken
<1>4. CASE call[c].at = "reacting"
  <2>1. AuthFails(c) /\ UNCHANGED <<needsReauth, misled>>
    BY <1>4 DEF ClientRefused
  <2>2. call[c].kind = "check"
    BY <1>1, <1>4 DEF Records, CallShape, NoCall
  <2>3. needsReauth' \subseteq Profiles /\ misled' \subseteq needsReauth' /\ lost' \subseteq Profiles
    BY <1>2, <2>1 DEF IInv, Typed, SetsTyped
  <2> QED BY <1>2, <1>3, <2>1, <2>2, <2>3, AuthFailsKeeps
<1>5. CASE call[c].at # "reacting"
  <2> DEFINE r == ContinuesWith(c, stored[p])
  <2>1. Becomes(c, r) /\ UNCHANGED marks
    BY <1>5 DEF ClientRefused
  <2>2. stored[p] \in 0..issued
    BY <1>1 DEF IInv, Typed, WorldTyped
  <2>3. /\ r \in Records /\ CallShape(r) /\ r.answer = Unasked /\ r.token \in {NoToken, stored[p]}
        /\ r.kind # "cli"
        /\ r.kind = "check" => /\ call[c].kind = "check"
                               /\ r.checked = call[c].checked /\ r.moved = call[c].moved
    BY <1>1, <2>2, ContinuesTyped DEF IInv
  <2> HIDE DEF r
  <2> QED BY <1>1, <1>2, <1>3, <2>1, <2>3, CallGoesOn
<1> QED BY <1>4, <1>5

\* Who is refused marks the profile: its token is dead, or the refusal misleads.
LEMMA MarkInvalidIsTrue ==
  ASSUME IInv, NEW c \in Calls, MarkInvalid(c), call[c].answer = Refused,
         call[c].profile \in Profiles
  PROVE  /\ needsReauth' \subseteq Profiles /\ misled' \subseteq needsReauth'
         /\ needsReauth' \ needsReauth \subseteq misled'
              \cup {p \in Profiles : stored[p] \notin accepted[p] /\ ~CliWillStore(p)}
         /\ misled \cap needsReauth' \subseteq misled'
<1> DEFINE p == call[c].profile
<1>1. call[c].token \notin accepted[p]
  BY DEF IInv, History, RefusedIsDead
<1>2. MistakenRefusal(c) \/ (stored[p] \notin accepted[p] /\ ~CliWillStore(p))
  BY <1>1 DEF MistakenRefusal
<1>3. needsReauth \subseteq Profiles /\ misled \subseteq needsReauth
  BY DEF IInv, Typed, SetsTyped
<1>4. needsReauth' = needsReauth \cup {p}
  BY DEF MarkInvalid
<1>5. misled' = IF MistakenRefusal(c) THEN misled \cup {p} ELSE misled
  BY DEF MarkInvalid
<1> QED BY <1>2, <1>3, <1>4, <1>5

LEMMA RefreshRefusedKeeps == ASSUME IInv, NEW c \in Calls, RefreshRefused(c) PROVE IInv'
<1> DEFINE p == call[c].profile
<1>1. /\ call[c] \in Records /\ CallShape(call[c]) /\ Asking(c) /\ p \in Profiles
      /\ call[c].answer = Refused
  BY CallFields DEF IInv, RefreshRefused, Asking, CallShape
<1>2. UNCHANGED <<active, world, stored, expiring, unnoticed, lost>>
  BY DEF RefreshRefused
<1>3. call[c].answer <= NoToken /\ ~(call[c].answer > NoToken)
  BY <1>1 DEF Refused, NoToken
<1>4. CASE call[c].kind = "cli"
  BY <1>2, <1>3, <1>4, EndsQuietly DEF RefreshRefused
<1>5. CASE call[c].kind # "cli"
  <2>1. MarkInvalid(c)
    BY <1>5 DEF RefreshRefused
  <2>2. /\ needsReauth' \subseteq Profiles /\ misled' \subseteq needsReauth'
        /\ needsReauth' \ needsReauth \subseteq misled'
             \cup {q \in Profiles : stored[q] \notin accepted[q] /\ ~CliWillStore(q)}
        /\ misled \cap needsReauth' \subseteq misled'
    BY <1>1, <2>1, MarkInvalidIsTrue
  <2>3. CASE call[c].at = "reacting"
    <3>1. AuthFails(c)
      BY <1>5, <2>3 DEF RefreshRefused
    <3>2. call[c].kind = "check"
      BY <1>1, <2>3 DEF Records, CallShape, NoCall
    <3>3. lost' \subseteq Profiles /\ lost \subseteq lost'
      BY <1>2 DEF IInv, Typed, SetsTyped
    <3> QED BY <1>2, <1>3, <2>2, <3>1, <3>2, <3>3, AuthFailsKeeps
  <2>4. CASE call[c].at # "reacting"
    <3> DEFINE r == ContinuesWith(c, stored[p])
    <3>1. Becomes(c, r) /\ UNCHANGED authFailed
      BY <1>5, <2>4 DEF RefreshRefused
    <3>2. stored[p] \in 0..issued
      BY <1>1 DEF IInv, Typed, WorldTyped
    <3>3. /\ r \in Records /\ CallShape(r) /\ r.answer = Unasked /\ r.token \in {NoToken, stored[p]}
          /\ r.kind # "cli"
          /\ r.kind = "check" => /\ call[c].kind = "check"
                                 /\ r.checked = call[c].checked /\ r.moved = call[c].moved
      BY <1>1, <3>2, ContinuesTyped DEF IInv
    <3>4. SetsTyped'
      BY <1>2, <2>2, <3>1 DEF IInv, Typed, SetsTyped
    <3> HIDE DEF r
    <3>5. \A d \in Calls : d # c => call[d].answer # r.token \/ r.token = NoToken
      <4> SUFFICES ASSUME NEW d \in Calls, call[d].answer = stored[p], stored[p] # NoToken
                   PROVE  FALSE
        BY <3>3
      <4>1. call[d].answer > NoToken
        BY <3>2 DEF NoToken, IInv, Typed, WorldTyped
      <4> QED BY <1>1, <4>1 DEF IInv, History, AnswersUnused
    <3> QED BY <1>2, <1>3, <2>2, <3>1, <3>3, <3>4, <3>5, CallKeeps
  <2> QED BY <2>3, <2>4
<1> QED BY <1>4, <1>5

LEMMA PersistenceFailsKeeps == ASSUME IInv, NEW c \in Calls, PersistenceFails(c) PROVE IInv'
<1> DEFINE p == call[c].profile
           t == call[c].answer
           r == ContinuesWith(c, t)
<1>1. /\ call[c] \in Records /\ CallShape(call[c]) /\ Asking(c) /\ p \in Profiles
      /\ t > NoToken /\ t \in 0..issued
  BY CallFields DEF IInv, PersistenceFails, Asking, CallShape, Records, NoToken
<1>2. /\ UNCHANGED <<active, world, stored, expiring, authFailed, unnoticed>> /\ Becomes(c, r)
      /\ needsReauth' = needsReauth \cup {p} /\ misled' = misled \cup {p}
      /\ lost' = IF stored[p] \in accepted[p] THEN lost ELSE lost \cup {p}
  BY DEF PersistenceFails
<1>3. /\ r \in Records /\ CallShape(r) /\ r.answer = Unasked /\ r.token \in {NoToken, t}
      /\ r.kind # "cli"
      /\ r.kind = "check" => /\ call[c].kind = "check"
                             /\ r.checked = call[c].checked /\ r.moved = call[c].moved
  BY <1>1, ContinuesTyped DEF IInv
<1> HIDE DEF r
<1>4. SetsTyped'
  BY <1>1, <1>2 DEF IInv, Typed, SetsTyped
<1>5. \A d \in Calls : d # c => call[d].answer # r.token \/ r.token = NoToken
  BY <1>1, <1>3 DEF IInv, History, AnswersUnused
<1>6. lost \subseteq lost' /\ (stored[p] \in accepted[p] \/ p \in lost')
  BY <1>2
<1>7. /\ needsReauth' \ needsReauth \subseteq misled' /\ misled \subseteq misled'
  BY <1>2
<1> QED BY <1>2, <1>3, <1>4, <1>5, <1>6, <1>7, CallKeeps

------------------------------------------------------------------------------
(* The server's side, and what stores a token.                             *)

LEMMA RecordsGrow ==
  ASSUME issued \in Nat, issued' \in Nat, issued <= issued'
  PROVE  Records \subseteq Records'
<1>1. 0..issued \subseteq 0..issued' /\ -2..issued \subseteq -2..issued'
  OBVIOUS
<1> SUFFICES ASSUME NEW r \in Records PROVE r \in Records'
  OBVIOUS
<1>2. r.token \in 0..issued' /\ r.answer \in -2..issued'
  BY <1>1 DEF Records
<1> QED BY <1>2 DEF Records

\* A request that is answered with a new token.
LEMMA GrantKeeps ==
  ASSUME IInv, NEW c \in Calls, Serve(c), call[c].token \in accepted[call[c].profile]
  PROVE  IInv'
<1> DEFINE p == call[c].profile
           t == call[c].token
           r == [call[c] EXCEPT !.answer = issued']
<1>1. /\ call[c] \in Records /\ CallShape(call[c]) /\ Asking(c) /\ p \in Profiles
      /\ call[c].answer = Unasked /\ issued \in Nat /\ t \in 1..issued
  BY CallFields DEF IInv, Serve, Asking, CallShape, Typed, WorldTyped
<1>2. /\ issued' = issued + 1 /\ exchanged' = exchanged \cup {t}
      /\ accepted' = [accepted EXCEPT ![p] = (@ \ {t}) \cup {issued'}]
      /\ Becomes(c, r) /\ UNCHANGED <<active, stored, norefresh, expiring, marks, unnoticed, lost, events>>
  BY DEF Serve
<1>3. /\ call'[c] = r
      /\ \A d \in Calls : d # c => call'[d] = call[d]
  BY <1>2, CallAt DEF IInv
<1>4. Records \subseteq Records'
  BY <1>1, <1>2, RecordsGrow
<1>5. /\ r.answer = issued' /\ r.token = t /\ r.profile = p /\ r.kind = call[c].kind
      /\ r.at = call[c].at /\ r.checked = call[c].checked /\ r.moved = call[c].moved
  BY <1>1 DEF Records
<1>6. r \in Records'
  <2>1. issued' \in -2..issued'
    BY <1>1, <1>2
  <2>2. call[c] \in Records'
    BY <1>1, <1>4
  <2> QED BY <2>1, <2>2 DEF Records
<1>7. issued' \in Nat /\ issued' > NoToken
  BY <1>1, <1>2 DEF NoToken
<1> HIDE DEF r
<1>8. WorldTyped'
  <2>1. accepted' \in [Profiles -> SUBSET (1..issued')]
    BY <1>1, <1>2 DEF IInv, Typed, WorldTyped
  <2>2. stored' \in [Profiles -> 0..issued']
    BY <1>1, <1>2 DEF IInv, Typed, WorldTyped
  <2>3. exchanged' \subseteq 1..issued'
    <3>1. exchanged \subseteq 1..issued
      BY DEF IInv, Typed, WorldTyped
    <3>2. 1..issued \subseteq 1..issued' /\ t \in 1..issued'
      BY <1>1, <1>2
    <3> QED BY <1>2, <3>1, <3>2
  <2>4. norefresh' \subseteq Profiles
    BY <1>2 DEF IInv, Typed, WorldTyped
  <2> QED BY <1>1, <1>2, <2>1, <2>2, <2>3, <2>4 DEF WorldTyped
<1>9. CallsTyped'
  <2>1. call' \in [Calls -> Records']
    BY <1>2, <1>4, <1>6 DEF Becomes, IInv, Typed, CallsTyped
  <2>2. CallShape(r)
    <3>1. call[c].kind # "none" /\ call[c].at \in {"refreshing", "reacting"}
      BY <1>1 DEF CallShape, NoCall, Asking
    <3> QED BY <1>1, <1>5, <1>7, <3>1 DEF CallShape, NoToken
  <2>3. \A d \in Calls : CallShape(call'[d])
    BY <1>3, <2>2 DEF IInv, Typed, CallsTyped
  <2> QED BY <2>1, <2>3 DEF CallsTyped, CallShape, NoCall
<1>10. SetsTyped'
  BY <1>2 DEF IInv, Typed, SetsTyped, marks
<1>11. \A d \in Calls : call[d].answer \in -2..issued /\ call[d].token \in 0..issued
  BY DEF IInv, Typed, CallsTyped, Records
<1>12. AnswersUnused'
  <2>1. \A d \in Calls : call'[d].token = call[d].token
    BY <1>3, <1>5
  <2>2. ASSUME NEW d \in Calls, d # c, call[d].answer > NoToken
        PROVE  /\ call[d].answer \notin exchanged' /\ call[d].answer # issued'
               /\ \A q \in Profiles : stored[q] # call[d].answer
               /\ \A e \in Calls : /\ call[e].token # call[d].answer
                                   /\ call[e].answer = call[d].answer => e = d
    BY <1>1, <1>2, <1>11, <2>2 DEF IInv, History, AnswersUnused
  <2>3. /\ issued' \notin exchanged' /\ \A q \in Profiles : stored[q] # issued'
        /\ \A e \in Calls : call[e].token # issued' /\ call[e].answer # issued'
    BY <1>1, <1>2, <1>11 DEF IInv, Typed, WorldTyped
  <2> SUFFICES ASSUME NEW d \in Calls, call'[d].answer > NoToken
               PROVE  /\ call'[d].answer \notin exchanged'
                      /\ \A q \in Profiles : stored'[q] # call'[d].answer
                      /\ \A e \in Calls : /\ call'[e].token # call'[d].answer
                                          /\ call'[e].answer = call'[d].answer => e = d
    BY DEF AnswersUnused
  <2>4. CASE d = c
    BY <1>2, <1>3, <1>5, <2>1, <2>3, <2>4
  <2>5. CASE d # c
    BY <1>2, <1>3, <1>5, <2>1, <2>2, <2>5
  <2> QED BY <2>4, <2>5
<1>13. \A q \in Profiles : accepted'[q] \subseteq accepted[q] \cup {issued'}
  BY <1>1, <1>2 DEF IInv, Typed, WorldTyped
<1>14. RefusedIsDead'
  <2> SUFFICES ASSUME NEW d \in Calls, call'[d].answer = Refused
               PROVE  call'[d].token \notin accepted'[call'[d].profile]
    BY DEF RefusedIsDead
  <2>1. d # c
    BY <1>3, <1>5, <1>7 DEF Refused, NoToken
  <2>2. call[d].token \notin accepted[call[d].profile] /\ call[d].profile \in Profiles
    BY <1>3, <2>1, CallFields DEF IInv, History, RefusedIsDead, CallShape, Refused, Unasked
  <2> QED BY <1>1, <1>2, <1>3, <1>11, <1>13, <2>1, <2>2
<1>15. NoLoginNoToken'
  <2> SUFFICES ASSUME NEW q \in Profiles, stored[q] = NoToken
               PROVE  accepted'[q] = {}
    BY <1>2 DEF NoLoginNoToken
  <2>1. accepted[q] = {}
    BY DEF IInv, History, NoLoginNoToken
  <2>2. q # p
    BY <2>1
  <2> QED BY <1>2, <2>1, <2>2 DEF IInv, Typed, WorldTyped
<1>16. OneCheck'
  BY <1>3, <1>5 DEF IInv, OneCheck
<1>17. Observed'
  BY <1>2, <1>3, <1>5 DEF IInv, Observed
<1>18. TokenKept'
  <2>1. ASSUME NEW q \in Profiles, q # p
        PROVE  accepted'[q] = accepted[q]
    BY <1>2, <2>1 DEF IInv, Typed, WorldTyped
  <2>2. /\ call'[c].profile = p /\ Asking(c)' /\ call'[c].answer \in accepted'[p]
    BY <1>1, <1>2, <1>3, <1>5 DEF Asking, IInv, Typed, WorldTyped
  <2> SUFFICES ASSUME NEW q \in Profiles, q # p, q \notin lost,
                      stored[q] \notin accepted[q] \cup {NoToken}
               PROVE  \E d \in Calls : /\ call'[d].profile = q /\ Asking(d)'
                                       /\ call'[d].answer \in accepted'[q]
    BY <1>2, <2>1, <2>2 DEF TokenKept
  <2>3. PICK d \in Calls : call[d].profile = q /\ Asking(d) /\ call[d].answer \in accepted[q]
    BY DEF IInv, TokenKept
  <2>4. d # c
    BY <2>3
  <2> QED BY <1>3, <2>1, <2>3, <2>4 DEF Asking
<1>19. MarkLasts'
  <2> SUFFICES ASSUME NEW q \in needsReauth, q \notin misled, q \notin unnoticed
               PROVE  stored[q] \notin accepted'[q] /\ ~CliWillStore(q)'
    BY <1>2 DEF MarkLasts, marks
  <2>1. q \in Profiles /\ stored[q] \notin accepted[q] /\ ~CliWillStore(q)
    BY DEF IInv, MarkLasts, Typed, SetsTyped
  <2>2. stored[q] \in 0..issued
    BY <2>1 DEF IInv, Typed, WorldTyped
  <2>3. stored[q] \notin accepted'[q]
    BY <1>1, <1>2, <1>13, <2>1, <2>2
  <2>4. ASSUME CliWillStore(q)' PROVE FALSE
    <3>1. PICK d \in Calls : /\ call'[d].kind = "cli" /\ call'[d].profile = q
                             /\ {call'[d].token, call'[d].answer} \cap accepted'[q] # {}
      BY <2>4 DEF CliWillStore
    <3>2. d # c
      BY <1>3, <1>5, <2>1, <3>1 DEF CliWillStore
    <3>3. call[d].token \in accepted[q] \/ call[d].answer \in accepted[q]
      BY <1>1, <1>2, <1>3, <1>11, <1>13, <2>1, <3>1, <3>2
    <3> QED BY <1>3, <2>1, <3>1, <3>2, <3>3 DEF CliWillStore
  <2> QED BY <2>3, <2>4
<1> QED BY <1>8, <1>9, <1>10, <1>12, <1>14, <1>15, <1>16, <1>17, <1>18, <1>19
        DEF IInv, Typed, History

\* A request that is refused.
LEMMA RefusalKeeps ==
  ASSUME IInv, NEW c \in Calls, Serve(c), call[c].token \notin accepted[call[c].profile]
  PROVE  IInv'
<1> DEFINE r == [call[c] EXCEPT !.answer = Refused]
<1>1. /\ call[c] \in Records /\ CallShape(call[c]) /\ Asking(c)
      /\ call[c].answer = Unasked /\ issued \in Nat
  BY CallFields DEF IInv, Serve
<1>2. /\ Becomes(c, r)
      /\ UNCHANGED <<active, world, stored, expiring, marks, unnoticed, lost>>
  BY DEF Serve
<1>3. /\ call'[c] = r
      /\ \A d \in Calls : d # c => call'[d] = call[d]
  BY <1>2, CallAt DEF IInv
<1>4. /\ r.answer = Refused /\ r.token = call[c].token /\ r.profile = call[c].profile
      /\ r.kind = call[c].kind /\ r.at = call[c].at /\ r.checked = call[c].checked
      /\ r.moved = call[c].moved
  BY <1>1 DEF Records
<1>5. r \in Records
  BY <1>1 DEF Records, Refused
<1> HIDE DEF r
<1>6. WorldTyped' /\ SetsTyped' /\ Records' = Records
  BY <1>2 DEF IInv, Typed, WorldTyped, SetsTyped, world, marks, Records
<1>7. CallsTyped'
  <2>1. call' \in [Calls -> Records']
    BY <1>2, <1>5, <1>6 DEF Becomes, IInv, Typed, CallsTyped
  <2>2. CallShape(r)
    <3>1. call[c].kind # "none" /\ call[c].at \in {"refreshing", "reacting"}
      BY <1>1 DEF CallShape, NoCall, Asking
    <3> QED BY <1>1, <1>4, <3>1 DEF CallShape, NoToken, Refused
  <2>3. \A d \in Calls : CallShape(call'[d])
    BY <1>3, <2>2 DEF IInv, Typed, CallsTyped
  <2> QED BY <2>1, <2>3 DEF CallsTyped, CallShape, NoCall
<1>8. OneCheck' /\ Observed'
  BY <1>2, <1>3, <1>4 DEF IInv, OneCheck, Observed
<1>9. AnswersUnused'
  BY <1>2, <1>3, <1>4 DEF IInv, History, AnswersUnused, world, Refused, NoToken
<1>10. RefusedIsDead' /\ NoLoginNoToken'
  BY <1>2, <1>3, <1>4 DEF IInv, History, RefusedIsDead, NoLoginNoToken, world
<1>11. TokenKept'
  <2>1. accepted' = accepted
    BY <1>2 DEF world
  <2>2. ~(Asking(c) /\ call[c].answer > NoToken)
    BY <1>1 DEF Unasked, NoToken
  <2> QED BY <1>2, <2>1, <2>2, TokenMoves DEF IInv
<1>12. MarkLasts'
  <2>1. ASSUME NEW p \in Profiles, CliWillStore(p)'
        PROVE  CliWillStore(p)
    <3>1. PICK d \in Calls : /\ call'[d].kind = "cli" /\ call'[d].profile = p
                             /\ {call'[d].token, call'[d].answer} \cap accepted[p] # {}
      BY <1>2, <2>1 DEF CliWillStore, world
    <3>2. Refused \notin accepted[p]
      BY DEF IInv, Typed, WorldTyped, Refused
    <3>3. {call[d].token, call[d].answer} \cap accepted[p] # {}
      BY <1>3, <1>4, <3>1, <3>2
    <3> QED BY <1>3, <1>4, <3>1, <3>3 DEF CliWillStore
  <2> QED BY <1>2, <2>1 DEF IInv, MarkLasts, world, marks, Typed, SetsTyped
<1> QED BY <1>6, <1>7, <1>8, <1>9, <1>10, <1>11, <1>12 DEF IInv, Typed, History

LEMMA RefreshedKeeps == ASSUME IInv, NEW c \in Calls, Refreshed(c) PROVE IInv'
<1> DEFINE p == call[c].profile
           t == call[c].answer
           r == ContinuesWith(c, t)
<1>1. /\ call[c] \in Records /\ CallShape(call[c]) /\ Asking(c) /\ p \in Profiles
      /\ t > NoToken /\ t \in 0..issued
  BY CallFields DEF IInv, Refreshed, Asking, CallShape, Records, NoToken
<1>2. UNCHANGED <<active, world, unnoticed>> /\ Becomes(c, r)
  BY DEF Refreshed
<1>3. /\ stored' = [stored EXCEPT ![p] = t] /\ expiring' = expiring \ {p}
      /\ lost' = IF t \in accepted[p] THEN lost \ {p}
                 ELSE IF t \in exchanged THEN lost ELSE lost \cup {p}
  BY DEF Refreshed, Stores
<1>4. t \notin exchanged
  BY <1>1 DEF IInv, History, AnswersUnused
<1>5. /\ r \in Records /\ CallShape(r) /\ r.answer = Unasked /\ r.token \in {NoToken, t}
      /\ r.kind # "cli"
      /\ r.kind = "check" => /\ call[c].kind = "check"
                             /\ r.checked = call[c].checked /\ r.moved = call[c].moved
  BY <1>1, ContinuesTyped DEF IInv
<1> HIDE DEF r
<1>6. /\ call'[c] = r
      /\ \A d \in Calls : d # c => call'[d] = call[d]
  BY <1>2, CallAt DEF IInv
<1>7. IF call[c].kind = "cli" THEN UNCHANGED marks
      ELSE needsReauth' = needsReauth \ {p} /\ misled' = misled \ {p} /\ UNCHANGED authFailed
  BY DEF Refreshed
<1>8. SetsTyped'
  <2>1. lost' \subseteq Profiles
    BY <1>1, <1>3 DEF IInv, Typed, SetsTyped
  <2>2. needsReauth' \subseteq Profiles /\ authFailed' \subseteq Profiles /\ misled' \subseteq needsReauth'
    BY <1>7 DEF IInv, Typed, SetsTyped, marks
  <2> QED BY <1>2, <1>3, <2>1, <2>2 DEF IInv, Typed, SetsTyped
<1>9. WorldTyped' /\ accepted' = accepted /\ Records' = Records
  BY <1>1, <1>2, <1>3 DEF IInv, Typed, WorldTyped, world, Records
<1>10. CallsTyped'
  <2>1. call' \in [Calls -> Records']
    BY <1>2, <1>5, <1>9 DEF Becomes, IInv, Typed, CallsTyped
  <2>2. \A d \in Calls : CallShape(call'[d])
    BY <1>5, <1>6 DEF IInv, Typed, CallsTyped
  <2> QED BY <2>1, <2>2 DEF CallsTyped, CallShape, NoCall
<1>11. OneCheck' /\ Observed'
  BY <1>2, <1>5, <1>6 DEF IInv, OneCheck, Observed
<1>12. AnswersUnused'
  <2> SUFFICES ASSUME NEW d \in Calls, call'[d].answer > NoToken
               PROVE  /\ call'[d].answer \notin exchanged'
                      /\ \A q \in Profiles : stored'[q] # call'[d].answer
                      /\ \A e \in Calls : /\ call'[e].token # call'[d].answer
                                          /\ call'[e].answer = call'[d].answer => e = d
    BY DEF AnswersUnused
  <2>1. d # c /\ call'[d] = call[d]
    BY <1>5, <1>6 DEF Unasked, NoToken
  <2>2. /\ call[d].answer \notin exchanged
        /\ \A q \in Profiles : stored[q] # call[d].answer
        /\ \A e \in Calls : /\ call[e].token # call[d].answer
                            /\ call[e].answer = call[d].answer => e = d
    BY <2>1 DEF IInv, History, AnswersUnused
  <2>3. call[d].answer # t /\ call[d].answer \notin {NoToken, Unasked}
    BY <2>1, <2>2 DEF Unasked, NoToken
  <2>4. \A q \in Profiles : stored'[q] # call[d].answer
    BY <1>3, <2>2, <2>3 DEF IInv, Typed, WorldTyped
  <2>5. \A e \in Calls : /\ call'[e].token # call[d].answer
                         /\ call'[e].answer = call[d].answer => e = d
    BY <1>5, <1>6, <2>2, <2>3
  <2> QED BY <1>2, <2>1, <2>2, <2>4, <2>5 DEF world
<1>13. RefusedIsDead'
  BY <1>5, <1>6, <1>9 DEF IInv, History, RefusedIsDead, Unasked, Refused
<1>14. NoLoginNoToken'
  BY <1>1, <1>3, <1>9 DEF IInv, History, NoLoginNoToken, Typed, WorldTyped
<1>15. TokenKept'
  <2>1. t \in accepted[p] \/ p \in lost'
    BY <1>3, <1>4
  <2>2. stored'[p] = t /\ \A q \in Profiles : q # p => stored'[q] = stored[q]
    BY <1>1, <1>3 DEF IInv, Typed, WorldTyped
  <2>3. lost \ {p} \subseteq lost'
    BY <1>3
  <2> SUFFICES ASSUME NEW q \in Profiles, q # p, q \notin lost,
                      stored[q] \notin accepted[q] \cup {NoToken}
               PROVE  \E d \in Calls : /\ call'[d].profile = q /\ Asking(d)'
                                       /\ call'[d].answer \in accepted[q]
    BY <1>9, <2>1, <2>2, <2>3 DEF TokenKept
  <2>4. PICK d \in Calls : call[d].profile = q /\ Asking(d) /\ call[d].answer \in accepted[q]
    BY DEF IInv, TokenKept
  <2> QED BY <1>6, <2>4 DEF Asking
<1>16. MarkLasts'
  <2>1. ASSUME NEW q \in Profiles, CliWillStore(q)'
        PROVE  CliWillStore(q)
    BY <1>5, <1>6, <1>9, <2>1 DEF CliWillStore
  <2> SUFFICES ASSUME NEW q \in needsReauth', q \notin misled', q \notin unnoticed
               PROVE  stored'[q] \notin accepted[q] /\ ~CliWillStore(q)'
    BY <1>2, <1>9 DEF MarkLasts
  <2>2. q \in needsReauth /\ q \notin misled /\ q \in Profiles /\ (q = p => call[c].kind = "cli")
    BY <1>7 DEF marks, IInv, Typed, SetsTyped
  <2>3. stored[q] \notin accepted[q] /\ ~CliWillStore(q)
    BY <2>2 DEF IInv, MarkLasts
  <2>4. CASE q = p
    <3>1. t \notin accepted[p]
      BY <2>2, <2>3, <2>4 DEF CliWillStore
    <3> QED BY <1>1, <1>3, <2>1, <2>2, <2>3, <2>4, <3>1 DEF IInv, Typed, WorldTyped
  <2>5. CASE q # p
    BY <1>1, <1>3, <2>1, <2>2, <2>3, <2>5 DEF IInv, Typed, WorldTyped
  <2> QED BY <2>4, <2>5
<1> QED BY <1>8, <1>9, <1>10, <1>11, <1>12, <1>13, <1>14, <1>15, <1>16 DEF IInv, Typed, History

LEMMA ServeKeeps == ASSUME IInv, NEW c \in Calls, Serve(c) PROVE IInv'
BY GrantKeeps, RefusalKeeps

\* After a swap no check is left that observed another profile.
LEMMA SwapKeeps == ASSUME IInv, NEW c \in Calls, Swap(c) PROVE IInv'
<1>1. /\ Becomes(c, NoCall) /\ active' \in Profiles
      /\ UNCHANGED <<world, stored, expiring, marks, unnoticed, lost>>
  BY DEF Swap, IInv, Typed, SetsTyped
<1>2. NoCall \in Records /\ CallShape(NoCall)
  BY NoCallTyped DEF IInv
<1>3. NoCall.answer = Unasked /\ NoCall.token = NoToken /\ NoCall.kind = "none"
  BY DEF NoCall
<1>4. call[c].at = "swapping" /\ call[c] \in Records /\ CallShape(call[c]) /\ ~Asking(c)
  BY CallFields DEF IInv, Swap, Asking
<1>5. call[c].kind = "check"
  BY <1>4 DEF Records, CallShape, NoCall
<1>6. WorldTyped' /\ CallsTyped' /\ History'
  BY <1>1, <1>2, <1>3, CallMoves DEF IInv
<1>7. SetsTyped'
  BY <1>1 DEF IInv, Typed, SetsTyped, marks
<1>8. /\ call'[c] = NoCall
      /\ \A d \in Calls : d # c => call'[d] = call[d]
  BY <1>1, CallAt DEF IInv
<1>9. \A d \in Calls : call'[d].kind # "check"
  BY <1>3, <1>5, <1>8 DEF IInv, OneCheck
<1>10. OneCheck' /\ Observed'
  BY <1>9 DEF OneCheck, Observed
<1>11. accepted' = accepted /\ needsReauth' = needsReauth /\ misled' = misled
  BY <1>1 DEF world, marks
<1>12. TokenKept'
  BY <1>1, <1>4, <1>11, TokenMoves DEF IInv
<1>13. MarkLasts'
  BY <1>1, <1>3, <1>11, MarksMove DEF IInv
<1> QED BY <1>6, <1>7, <1>10, <1>12, <1>13 DEF IInv, Typed

------------------------------------------------------------------------------
(* The world around.                                                       *)

\* A check that was overtaken by a switch says so.
LEMMA SwitchedCalls ==
  ASSUME IInv, call' = Switched, UNCHANGED <<world, stored>>
  PROVE  /\ WorldTyped' /\ CallsTyped' /\ History' /\ OneCheck' /\ Observed'
         /\ lost' = lost => TokenKept'
         /\ \A p \in Profiles : CliWillStore(p)' => CliWillStore(p)
<1>1. WorldTyped' /\ Records' = Records /\ accepted' = accepted
  BY DEF IInv, Typed, WorldTyped, world, Records
<1>2. ASSUME NEW c \in Calls
      PROVE  /\ call'[c] \in Records /\ CallShape(call'[c])
             /\ call'[c].kind = call[c].kind /\ call'[c].at = call[c].at
             /\ call'[c].checked = call[c].checked /\ call'[c].profile = call[c].profile
             /\ call'[c].token = call[c].token /\ call'[c].answer = call[c].answer
             /\ call'[c].kind = "check" => call'[c].moved
  <2>1. call[c] \in Records /\ CallShape(call[c])
    BY CallFields DEF IInv
  <2>2. call'[c] = [call[c] EXCEPT !.moved = @ \/ call[c].kind = "check"]
    BY DEF Switched
  <2>3. CASE call[c].kind = "check"
    <3>1. call'[c] = [call[c] EXCEPT !.moved = TRUE]
      BY <2>2, <2>3
    <3>2. /\ call'[c] \in Records
          /\ call'[c].kind = call[c].kind /\ call'[c].at = call[c].at
          /\ call'[c].checked = call[c].checked /\ call'[c].profile = call[c].profile
          /\ call'[c].token = call[c].token /\ call'[c].answer = call[c].answer
          /\ call'[c].moved
      BY <2>1, <3>1 DEF Records
    <3>3. CallShape(call'[c])
      BY <2>1, <2>3, <3>2 DEF CallShape
    <3> QED BY <3>2, <3>3
  <2>4. CASE call[c].kind # "check"
    <3>1. call[c].moved \in BOOLEAN
      BY <2>1 DEF Records
    <3>2. call'[c] = [call[c] EXCEPT !.moved = call[c].moved]
      BY <2>2, <2>4, <3>1
    <3>3. call'[c] = call[c]
      BY <2>1, <3>2 DEF Records
    <3> QED BY <2>1, <2>4, <3>3
  <2> QED BY <2>3, <2>4
<1>3. CallsTyped'
  <2>1. call' \in [Calls -> Records']
    BY <1>1, <1>2 DEF Switched
  <2> QED BY <1>2, <2>1 DEF CallsTyped, CallShape, NoCall
<1>4. OneCheck' /\ Observed'
  BY <1>2 DEF IInv, OneCheck, Observed
<1>5. AnswersUnused'
  BY <1>2 DEF IInv, History, AnswersUnused, world
<1>6. RefusedIsDead' /\ NoLoginNoToken'
  BY <1>1, <1>2 DEF IInv, History, RefusedIsDead, NoLoginNoToken
<1>7. ASSUME lost' = lost PROVE TokenKept'
  <2> SUFFICES ASSUME NEW p \in Profiles, stored[p] \notin accepted[p] \cup {NoToken}, p \notin lost
               PROVE  \E d \in Calls : call'[d].profile = p /\ Asking(d)' /\ call'[d].answer \in accepted[p]
    BY <1>1, <1>7 DEF TokenKept
  <2>1. PICK d \in Calls : call[d].profile = p /\ Asking(d) /\ call[d].answer \in accepted[p]
    BY DEF IInv, TokenKept
  <2> QED BY <1>2, <2>1 DEF Asking
<1>8. ASSUME NEW p \in Profiles, CliWillStore(p)'
      PROVE  CliWillStore(p)
  BY <1>1, <1>2, <1>8 DEF CliWillStore
<1> QED BY <1>1, <1>3, <1>4, <1>5, <1>6, <1>7, <1>8 DEF History

LEMMA SwitchProfileKeeps == ASSUME IInv, NEW p \in Profiles, SwitchProfile(p) PROVE IInv'
<1>1. /\ call' = Switched /\ active' = p
      /\ UNCHANGED <<world, stored, expiring, marks, unnoticed, lost>>
  BY DEF SwitchProfile
<1>2. SetsTyped'
  BY <1>1 DEF IInv, Typed, SetsTyped, marks
<1>3. MarkLasts'
  BY <1>1, SwitchedCalls DEF IInv, MarkLasts, world, marks, Typed, SetsTyped
<1> QED BY <1>1, <1>2, <1>3, SwitchedCalls DEF IInv, Typed

\* What an unchanged store and unchanged calls keep.
LEMMA CallsStay ==
  ASSUME IInv, UNCHANGED <<call, world, stored>>
  PROVE  /\ WorldTyped' /\ CallsTyped' /\ History' /\ OneCheck'
         /\ active' = active => Observed'
         /\ lost' = lost => TokenKept'
         /\ \A p \in Profiles : CliWillStore(p)' => CliWillStore(p)
<1>1. WorldTyped' /\ Records' = Records /\ accepted' = accepted /\ exchanged' = exchanged
  BY DEF IInv, Typed, WorldTyped, world, Records
<1>2. CallsTyped'
  BY <1>1 DEF IInv, Typed, CallsTyped, CallShape, NoCall
<1>3. History'
  BY <1>1 DEF IInv, History, AnswersUnused, RefusedIsDead, NoLoginNoToken
<1>4. OneCheck' /\ (active' = active => Observed')
  BY DEF IInv, OneCheck, Observed
<1>5. lost' = lost => TokenKept'
  BY <1>1 DEF IInv, TokenKept, Asking
<1>6. \A p \in Profiles : CliWillStore(p)' => CliWillStore(p)
  BY <1>1 DEF CliWillStore
<1> QED BY <1>1, <1>2, <1>3, <1>4, <1>5, <1>6

LEMMA LoginNoticedKeeps == ASSUME IInv, NEW p \in Profiles, LoginNoticed(p) PROVE IInv'
<1>1. /\ unnoticed' = unnoticed \ {p} /\ active' = p
      /\ needsReauth' = needsReauth \ {p} /\ authFailed' = authFailed \ {p}
      /\ misled' = misled \ {p} /\ UNCHANGED <<world, stored, expiring, lost>>
      /\ call' = IF active = p THEN call ELSE Switched
  BY DEF LoginNoticed
<1>2. SetsTyped'
  BY <1>1 DEF IInv, Typed, SetsTyped
<1>3. /\ WorldTyped' /\ CallsTyped' /\ History' /\ OneCheck' /\ Observed' /\ TokenKept'
      /\ \A q \in Profiles : CliWillStore(q)' => CliWillStore(q)
  <2>1. CASE active = p
    BY <1>1, <2>1, CallsStay
  <2>2. CASE active # p
    BY <1>1, <2>2, SwitchedCalls
  <2> QED BY <2>1, <2>2
<1>4. MarkLasts'
  BY <1>1, <1>3 DEF IInv, MarkLasts, world, Typed, SetsTyped
<1> QED BY <1>2, <1>3, <1>4 DEF IInv, Typed

LEMMA TokenExpiresKeeps == ASSUME IInv, NEW p \in Profiles, TokenExpires(p) PROVE IInv'
<1>1. /\ expiring' = expiring \cup {p}
      /\ UNCHANGED <<active, world, stored, marks, call, unnoticed, lost>>
  BY DEF TokenExpires
<1>2. SetsTyped'
  BY <1>1 DEF IInv, Typed, SetsTyped, marks
<1>3. MarkLasts'
  BY <1>1, CallsStay DEF IInv, MarkLasts, world, marks, Typed, SetsTyped
<1> QED BY <1>1, <1>2, <1>3, CallsStay DEF IInv, Typed

LEMMA StutterKeeps == ASSUME IInv, UNCHANGED tokensVars PROVE IInv'
<1>1. UNCHANGED <<active, world, stored, expiring, marks, call, unnoticed, lost>>
  BY DEF tokensVars, world, marks
<1>2. SetsTyped'
  BY <1>1 DEF IInv, Typed, SetsTyped, marks
<1>3. MarkLasts'
  BY <1>1, CallsStay DEF IInv, MarkLasts, world, marks, Typed, SetsTyped
<1> QED BY <1>1, <1>2, <1>3, CallsStay DEF IInv, Typed

\* What has no token is marked truly; an unread store misleads.
LEMMA ProfilesListedKeeps ==
  ASSUME IInv, NEW unread \in SUBSET Profiles, ProfilesListed(unread) PROVE IInv'
<1> DEFINE empty == {p \in Profiles : stored[p] = NoToken}
<1>1. /\ needsReauth' = needsReauth \cup unread \cup empty /\ misled' = misled \cup unread
      /\ UNCHANGED <<active, world, stored, expiring, authFailed, call, unnoticed, lost>>
  BY DEF ProfilesListed
<1>2. SetsTyped'
  BY <1>1 DEF IInv, Typed, SetsTyped
<1>3. MarkLasts'
  <2> SUFFICES ASSUME NEW p \in needsReauth', p \notin misled', p \notin unnoticed
               PROVE  stored[p] \notin accepted'[p] /\ ~CliWillStore(p)'
    BY <1>1 DEF MarkLasts
  <2>1. p \in Profiles /\ accepted' = accepted /\ (CliWillStore(p)' => CliWillStore(p))
    BY <1>1, CallsStay DEF IInv, Typed, SetsTyped, world
  <2>2. CASE p \in needsReauth
    BY <1>1, <2>1, <2>2 DEF IInv, MarkLasts
  <2>3. CASE p \in empty
    <3>1. accepted[p] = {}
      BY <2>3 DEF IInv, History, NoLoginNoToken
    <3> QED BY <2>1, <3>1 DEF CliWillStore
  <2> QED BY <1>1, <2>2, <2>3
<1> QED BY <1>1, <1>2, <1>3, CallsStay DEF IInv, Typed

LEMMA LoginKeeps == ASSUME IInv, NEW p \in Profiles, Login(p) PROVE IInv'
<1>1. /\ issued' = issued + 1 /\ accepted' = [accepted EXCEPT ![p] = @ \cup {issued'}]
      /\ stored' = [stored EXCEPT ![p] = issued'] /\ expiring' = expiring \ {p}
      /\ lost' = lost \ {p} /\ unnoticed' = unnoticed \cup {p}
      /\ norefresh' = norefresh \ {p}
      /\ UNCHANGED <<active, exchanged, needsReauth, authFailed, misled, call>>
  BY DEF Login, marks
<1>2. issued \in Nat /\ issued' \in Nat /\ issued <= issued' /\ 1..issued \subseteq 1..issued'
  BY <1>1 DEF IInv, Typed, WorldTyped
<1>3. Records \subseteq Records'
  BY <1>2, RecordsGrow
<1>4. \A c \in Calls : call[c].answer \in -2..issued /\ call[c].token \in 0..issued
  BY DEF IInv, Typed, CallsTyped, Records
<1>5. /\ accepted'[p] = accepted[p] \cup {issued'} /\ stored'[p] = issued'
      /\ \A q \in Profiles : q # p => accepted'[q] = accepted[q] /\ stored'[q] = stored[q]
  BY <1>1 DEF IInv, Typed, WorldTyped
<1>6. WorldTyped'
  <2>1. accepted' \in [Profiles -> SUBSET (1..issued')]
    BY <1>1, <1>2 DEF IInv, Typed, WorldTyped
  <2>2. stored' \in [Profiles -> 0..issued']
    BY <1>1, <1>2 DEF IInv, Typed, WorldTyped
  <2>3. exchanged' \subseteq 1..issued'
    BY <1>1, <1>2 DEF IInv, Typed, WorldTyped
  <2>4. norefresh' \subseteq Profiles
    BY <1>1 DEF IInv, Typed, WorldTyped
  <2> QED BY <1>1, <1>2, <2>1, <2>2, <2>3, <2>4 DEF WorldTyped
<1>7. SetsTyped'
  BY <1>1 DEF IInv, Typed, SetsTyped
<1>8. CallsTyped'
  BY <1>1, <1>3 DEF IInv, Typed, CallsTyped, CallShape, NoCall
<1>9. OneCheck' /\ Observed'
  BY <1>1 DEF IInv, OneCheck, Observed
<1>10. AnswersUnused'
  <2> SUFFICES ASSUME NEW c \in Calls, call[c].answer > NoToken
               PROVE  /\ call[c].answer \notin exchanged
                      /\ \A q \in Profiles : stored'[q] # call[c].answer
                      /\ \A d \in Calls : /\ call[d].token # call[c].answer
                                          /\ call[d].answer = call[c].answer => d = c
    BY <1>1 DEF AnswersUnused
  <2>1. call[c].answer # issued'
    BY <1>1, <1>2, <1>4
  <2> QED BY <1>5, <2>1 DEF IInv, History, AnswersUnused
<1>11. RefusedIsDead'
  <2> SUFFICES ASSUME NEW c \in Calls, call[c].answer = Refused
               PROVE  call[c].token \notin accepted'[call[c].profile]
    BY <1>1 DEF RefusedIsDead
  <2>1. call[c].token \notin accepted[call[c].profile] /\ call[c].profile \in Profiles
    BY CallFields DEF IInv, History, RefusedIsDead, CallShape, Refused, Unasked
  <2>2. call[c].token # issued'
    BY <1>1, <1>2, <1>4
  <2> QED BY <1>5, <2>1, <2>2
<1>12. NoLoginNoToken'
  BY <1>1, <1>2, <1>5 DEF IInv, History, NoLoginNoToken, NoToken
<1>13. TokenKept'
  <2> SUFFICES ASSUME NEW q \in Profiles, q # p, q \notin lost,
                      stored[q] \notin accepted[q] \cup {NoToken}
               PROVE  \E d \in Calls : /\ call[d].profile = q /\ Asking(d)
                                       /\ call[d].answer \in accepted[q]
    BY <1>1, <1>5 DEF TokenKept, Asking
  <2> QED BY DEF IInv, TokenKept
<1>14. MarkLasts'
  <2> SUFFICES ASSUME NEW q \in needsReauth, q \notin misled, q \notin unnoticed, q # p
               PROVE  stored'[q] \notin accepted'[q] /\ ~CliWillStore(q)'
    BY <1>1 DEF MarkLasts
  <2>1. q \in Profiles /\ stored[q] \notin accepted[q] /\ ~CliWillStore(q)
    BY DEF IInv, MarkLasts, Typed, SetsTyped
  <2> QED BY <1>1, <1>5, <2>1 DEF CliWillStore
<1> QED BY <1>6, <1>7, <1>8, <1>9, <1>10, <1>11, <1>12, <1>13, <1>14 DEF IInv, Typed, History

LEMMA RevokeKeeps == ASSUME IInv, NEW p \in Profiles, Revoke(p) PROVE IInv'
<1>1. /\ accepted' = [accepted EXCEPT ![p] = {}] /\ lost' = lost \cup {p}
      /\ UNCHANGED <<active, stored, expiring, needsReauth, authFailed, misled, call, issued,
                     exchanged, norefresh, unnoticed>>
  BY DEF Revoke, marks
<1>2. \A q \in Profiles : accepted'[q] \subseteq accepted[q] /\ (q # p => accepted'[q] = accepted[q])
  BY <1>1 DEF IInv, Typed, WorldTyped
<1>3. WorldTyped' /\ SetsTyped' /\ Records' = Records
  BY <1>1 DEF IInv, Typed, WorldTyped, SetsTyped, Records
<1>4. CallsTyped'
  BY <1>1, <1>3 DEF IInv, Typed, CallsTyped, CallShape, NoCall
<1>5. OneCheck' /\ Observed' /\ AnswersUnused'
  BY <1>1 DEF IInv, OneCheck, Observed, History, AnswersUnused
<1>6. RefusedIsDead'
  <2> SUFFICES ASSUME NEW c \in Calls, call[c].answer = Refused
               PROVE  call[c].token \notin accepted'[call[c].profile]
    BY <1>1 DEF RefusedIsDead
  <2>1. call[c].token \notin accepted[call[c].profile] /\ call[c].profile \in Profiles
    BY CallFields DEF IInv, History, RefusedIsDead, CallShape, Refused, Unasked
  <2> QED BY <1>2, <2>1
<1>7. NoLoginNoToken'
  <2> SUFFICES ASSUME NEW q \in Profiles, stored[q] = NoToken
               PROVE  accepted'[q] = {}
    BY <1>1 DEF NoLoginNoToken
  <2>1. accepted[q] = {}
    BY DEF IInv, History, NoLoginNoToken
  <2> QED BY <1>2, <2>1
<1>8. TokenKept'
  BY <1>1, <1>2 DEF IInv, TokenKept, Asking
<1>9. MarkLasts'
  <2> SUFFICES ASSUME NEW q \in needsReauth, q \notin misled, q \notin unnoticed
               PROVE  stored[q] \notin accepted'[q] /\ ~CliWillStore(q)'
    BY <1>1 DEF MarkLasts
  <2>1. q \in Profiles /\ stored[q] \notin accepted[q] /\ ~CliWillStore(q)
    BY DEF IInv, MarkLasts, Typed, SetsTyped
  <2> QED BY <1>1, <1>2, <2>1 DEF CliWillStore
<1> QED BY <1>3, <1>4, <1>5, <1>6, <1>7, <1>8, <1>9 DEF IInv, Typed, History

LEMMA MonitorRestartsKeeps == ASSUME IInv, MonitorRestarts PROVE IInv'
<1>1. /\ call' = [c \in Calls |-> IF call[c].kind = "cli" THEN call[c] ELSE NoCall]
      /\ needsReauth' = {} /\ authFailed' = {} /\ misled' = {} /\ unnoticed' = {}
      /\ UNCHANGED <<active, world, stored, expiring>>
      /\ lost' = lost \cup {p \in Profiles : \E c \in Calls :
                          call[c].kind # "cli" /\ call[c].profile = p /\ Asking(c)
                          /\ call[c].answer > NoToken /\ stored[p] \notin accepted[p]}
  BY DEF MonitorRestarts
<1>2. /\ NoCall \in Records /\ CallShape(NoCall) /\ NoCall.answer = Unasked
      /\ NoCall.token = NoToken /\ NoCall.kind = "none"
  BY NoCallTyped DEF IInv, NoCall
<1>3. \A c \in Calls : \/ call'[c] = call[c] /\ call[c].kind = "cli"
                       \/ call'[c] = NoCall /\ call[c].kind # "cli"
  BY <1>1
<1>4. WorldTyped' /\ accepted' = accepted /\ exchanged' = exchanged /\ Records' = Records
  BY <1>1 DEF IInv, Typed, WorldTyped, world, Records
<1>5. lost \subseteq lost' /\ lost' \subseteq Profiles
  BY <1>1 DEF IInv, Typed, SetsTyped
<1>6. SetsTyped'
  BY <1>1, <1>5 DEF IInv, Typed, SetsTyped
<1>7. CallsTyped'
  <2>1. call' \in [Calls -> Records']
    BY <1>1, <1>2, <1>4 DEF IInv, Typed, CallsTyped
  <2>2. \A c \in Calls : CallShape(call'[c])
    BY <1>2, <1>3 DEF IInv, Typed, CallsTyped
  <2> QED BY <2>1, <2>2 DEF CallsTyped, CallShape, NoCall
<1>8. \A c \in Calls : call'[c].kind # "check"
  BY <1>2, <1>3
<1>9. OneCheck' /\ Observed'
  BY <1>8 DEF OneCheck, Observed
<1>10. AnswersUnused'
  <2> SUFFICES ASSUME NEW c \in Calls, call'[c].answer > NoToken
               PROVE  /\ call'[c].answer \notin exchanged
                      /\ \A p \in Profiles : stored[p] # call'[c].answer
                      /\ \A d \in Calls : /\ call'[d].token # call'[c].answer
                                          /\ call'[d].answer = call'[c].answer => d = c
    BY <1>1, <1>4 DEF AnswersUnused
  <2>1. call'[c] = call[c]
    BY <1>2, <1>3 DEF Unasked, NoToken
  <2> QED BY <1>2, <1>3, <2>1 DEF IInv, History, AnswersUnused, Unasked, NoToken
<1>11. RefusedIsDead' /\ NoLoginNoToken'
  BY <1>1, <1>2, <1>3, <1>4 DEF IInv, History, RefusedIsDead, NoLoginNoToken, Unasked, Refused
<1>12. TokenKept'
  <2> SUFFICES ASSUME NEW p \in Profiles, stored[p] \notin accepted[p] \cup {NoToken}, p \notin lost'
               PROVE  \E d \in Calls : call'[d].profile = p /\ Asking(d)' /\ call'[d].answer \in accepted[p]
    BY <1>1, <1>4 DEF TokenKept
  <2>1. PICK d \in Calls : call[d].profile = p /\ Asking(d) /\ call[d].answer \in accepted[p]
    BY <1>5 DEF IInv, TokenKept
  <2>2. call[d].answer > NoToken
    BY <2>1 DEF IInv, Typed, WorldTyped, NoToken
  <2>3. call[d].kind = "cli"
    BY <1>1, <2>1, <2>2
  <2> QED BY <1>3, <2>1, <2>3 DEF Asking
<1>13. MarkLasts'
  BY <1>1 DEF MarkLasts
<1> QED BY <1>4, <1>6, <1>7, <1>9, <1>10, <1>11, <1>12, <1>13 DEF IInv, Typed, History

------------------------------------------------------------------------------
(* The theorems.                                                           *)

LEMMA TokensInitHolds == TokensInit => IInv
<1> SUFFICES ASSUME TokensInit PROVE IInv
  OBVIOUS
<1>1. PICK with \in SUBSET Profiles :
        /\ stored = [p \in Profiles |-> IF p \in with THEN 1 ELSE NoToken]
        /\ accepted = [p \in Profiles |-> IF p \in with THEN {1} ELSE {}]
        /\ norefresh \subseteq with
  BY DEF TokensInit
<1>2. /\ issued = 1 /\ exchanged = {} /\ call = [c \in Calls |-> NoCall] /\ needsReauth = {}
  BY DEF TokensInit
<1>3. WorldTyped
  BY <1>1, <1>2 DEF WorldTyped, NoToken
<1>4. SetsTyped
  BY DEF TokensInit, SetsTyped
<1>5. NoCall \in Records
  BY <1>2, TokensAssumption DEF Records, NoCall, NoToken, Unasked
<1>6. CallShape(NoCall) /\ NoCall.kind = "none" /\ NoCall.answer = Unasked
  BY DEF CallShape, NoCall, NoToken, Unasked
<1>7. CallsTyped
  BY <1>2, <1>5, <1>6 DEF CallsTyped
<1>8. OneCheck /\ Observed
  BY <1>2, <1>6 DEF OneCheck, Observed
<1>9. AnswersUnused /\ RefusedIsDead
  BY <1>2, <1>6 DEF AnswersUnused, RefusedIsDead, Unasked, Refused, NoToken
<1>10. NoLoginNoToken /\ TokenKept
  BY <1>1 DEF NoLoginNoToken, TokenKept, NoToken
<1>11. MarkLasts
  BY <1>2 DEF MarkLasts
<1> QED BY <1>3, <1>4, <1>7, <1>8, <1>9, <1>10, <1>11 DEF IInv, Typed, History

LEMMA TokensStepKeeps == IInv /\ [TokensNext]_tokensVars => IInv'
<1> SUFFICES ASSUME IInv, [TokensNext]_tokensVars PROVE IInv'
  OBVIOUS
<1>1. ASSUME NEW c \in Calls, CallStep(c) PROVE IInv'
  BY <1>1, GetCredentialKeeps, ServeKeeps, RefreshedKeeps, RefreshRefusedKeeps, UsageKnownKeeps,
     UsageUnauthorizedKeeps, ListedKeeps, SwapKeeps DEF CallStep
<1>2. ASSUME NEW c \in Calls,
             \/ StartCheck(c) \/ PersistenceFails(c) \/ RequestFails(c) \/ UsageFails(c)
             \/ CredentialUnread(c) \/ ClientRefused(c) \/ RefreshUnread(c)
      PROVE  IInv'
  BY <1>2, StartCheckKeeps, PersistenceFailsKeeps, RequestFailsKeeps, UsageFailsKeeps,
     CredentialUnreadKeeps, ClientRefusedKeeps, RefreshUnreadKeeps
<1>3. ASSUME NEW c \in Calls, NEW p \in Profiles,
             FetchInactive(c, p) \/ InactiveUnread(c, p) \/ CliRefreshes(c, p)
      PROVE  IInv'
  BY <1>3, FetchInactiveKeeps, InactiveUnreadKeeps, CliRefreshesKeeps
<1>4. ASSUME NEW p \in Profiles,
             TokenExpires(p) \/ Login(p) \/ LoginNoticed(p) \/ SwitchProfile(p) \/ Revoke(p)
      PROVE  IInv'
  BY <1>4, TokenExpiresKeeps, LoginKeeps, LoginNoticedKeeps, SwitchProfileKeeps, RevokeKeeps
<1>5. CASE MonitorRestarts
  BY <1>5, MonitorRestartsKeeps
<1>6. CASE UNCHANGED tokensVars
  BY <1>6, StutterKeeps
<1>7. ASSUME NEW unread \in SUBSET Profiles, ProfilesListed(unread) PROVE IInv'
  BY <1>7, ProfilesListedKeeps
<1> QED BY <1>1, <1>2, <1>3, <1>4, <1>5, <1>6, <1>7 DEF TokensNext

LEMMA TokensInvariant == TokensSpec => []IInv
BY TokensInitHolds, TokensStepKeeps, PTL DEF TokensSpec

\* Tokens, marks and calls are of their types, and only a marked profile misleads.
THEOREM TokensTyped == TokensSpec => []TokensTypeOK
<1>1. IInv => TokensTypeOK
  BY DEF IInv, Typed, WorldTyped, SetsTyped, CallsTyped, Records, TokensTypeOK
<1> QED BY <1>1, TokensInvariant, PTL

\* However many refreshes of usage-monitor.ts, token-refresh.ts, the CLI and logins
\* overlap, the stored token is taken, about to be replaced by one that is, or lost.
THEOREM TokenIsKept == TokensSpec => []TokenKept
<1>1. IInv => TokenKept
  BY DEF IInv
<1> QED BY <1>1, TokensInvariant, PTL

\* A mark of getCredential, handleAuthFailure, getAllProfilesUsage or a fetch is true,
\* or misled by a concurrent refresh or by a credential store that failed.
THEOREM MarksAreTrue == TokensSpec => []MarkIsTrue
<1>1. IInv => MarkIsTrue
  BY DEF IInv, MarkLasts, MarkIsTrue
<1> QED BY <1>1, TokensInvariant, PTL

\* performProactiveSwap leaves the profile that is active, unless another switch
\* came between.
THEOREM SwapsLeaveActive == TokensSpec => SwapLeavesActive
<1>1. IInv /\ [TokensNext]_tokensVars =>
        [\A c \in Calls : Swap(c) /\ ~call[c].moved => call[c].checked = active]_tokensVars
  <2> SUFFICES ASSUME IInv, NEW c \in Calls, Swap(c), ~call[c].moved
               PROVE  call[c].checked = active
    OBVIOUS
  <2>1. call[c].at = "swapping" /\ call[c] \in Records /\ CallShape(call[c])
    BY CallFields DEF IInv, Swap
  <2>2. call[c].kind = "check"
    BY <2>1 DEF Records, CallShape, NoCall
  <2> QED BY <2>2 DEF IInv, Observed
<1> QED BY <1>1, TokensInvariant, PTL DEF TokensSpec, SwapLeavesActive

------------------------------------------------------------------------------
(* How long a call takes.                                                  *)

\* The requests a refresh still makes, and their answers.
Asks(r) == 2 * (MAX_REFRESH_RETRIES - r.tries) + (IF r.answer = Unasked THEN 1 ELSE 0)

\* A bound on the steps a call still takes.
StepsOf(r) ==
  CASE r.at = "idle"       -> 0
    [] r.at = "swapping"   -> 1
    [] r.at = "listing"    -> 2
    [] r.at = "reacting"   -> 2 + Asks(r)
    [] r.at = "usage"      -> 2 * MAX_REFRESH_RETRIES + 4
    [] r.at = "refreshing" -> 2 * MAX_REFRESH_RETRIES + 5 + Asks(r)
    [] r.at = "credential" -> 4 * MAX_REFRESH_RETRIES + 7

Acts(c) ==
  \/ CallStep(c) \/ PersistenceFails(c) \/ RequestFails(c) \/ UsageFails(c)
  \/ CredentialUnread(c) \/ ClientRefused(c) \/ RefreshUnread(c)

\* Each step of a call, the failing ones included, leaves it fewer steps than before,
\* whatever the other calls, the user, the server and the Claude CLI do in between.
CallsRunOut ==
  [][\A c \in Calls : call[c] # NoCall =>
       /\ StepsOf(call'[c]) <= StepsOf(call[c])
       /\ Acts(c) => StepsOf(call'[c]) < StepsOf(call[c])]_tokensVars

Places == {"idle", "credential", "refreshing", "reacting", "usage", "listing", "swapping"}

LEMMA StepsAreCounted ==
  ASSUME NEW r, r.tries \in 0..MAX_REFRESH_RETRIES, r.at \in Places
  PROVE  StepsOf(r) \in 0..(4 * MAX_REFRESH_RETRIES + 7)
<1>1. Asks(r) \in 0..(2 * MAX_REFRESH_RETRIES + 1)
  BY TokensAssumption DEF Asks
<1> QED BY <1>1, TokensAssumption DEF StepsOf, Places

LEMMA AsksIs ==
  ASSUME Typed, NEW r \in Records
  PROVE  /\ Asks(r) \in 0..(2 * MAX_REFRESH_RETRIES + 1)
         /\ r.answer = Unasked => Asks(r) = 2 * (MAX_REFRESH_RETRIES - r.tries) + 1
         /\ r.answer # Unasked => Asks(r) = 2 * (MAX_REFRESH_RETRIES - r.tries)
<1>1. r.tries \in 0..MAX_REFRESH_RETRIES
  BY DEF Records
<1> QED BY <1>1, TokensAssumption DEF Asks

LEMMA StepsOfIs ==
  ASSUME Typed, NEW r \in Records
  PROVE  /\ StepsOf(r) \in 0..(4 * MAX_REFRESH_RETRIES + 7)
         /\ r.at = "idle" => StepsOf(r) = 0
         /\ r.at = "swapping" => StepsOf(r) = 1
         /\ r.at = "listing" => StepsOf(r) = 2
         /\ r.at = "reacting" => StepsOf(r) = 2 + Asks(r)
         /\ r.at = "usage" => StepsOf(r) = 2 * MAX_REFRESH_RETRIES + 4
         /\ r.at = "refreshing" => StepsOf(r) = 2 * MAX_REFRESH_RETRIES + 5 + Asks(r)
         /\ r.at = "credential" => StepsOf(r) = 4 * MAX_REFRESH_RETRIES + 7
<1>1. r.at \in {"idle", "credential", "refreshing", "reacting", "usage", "listing", "swapping"}
  BY DEF Records
<1>2. Asks(r) \in 0..(2 * MAX_REFRESH_RETRIES + 1)
  BY AsksIs
<1> HIDE DEF Records
<1> QED BY <1>1, <1>2, TokensAssumption DEF StepsOf

\* A call that ended takes none.
LEMMA NothingToDo == StepsOf(NoCall) = 0
BY DEF StepsOf, NoCall

\* What a call that is under way still takes.
LEMMA StepsLeftOver ==
  ASSUME Typed, NEW c \in Calls
  PROVE  /\ StepsOf(call[c]) \in Nat /\ Asks(call[c]) \in Nat
         /\ call[c].kind # "none" => StepsOf(call[c]) > 0
<1>1. call[c] \in Records /\ CallShape(call[c])
  BY CallFields
<1>2. Asks(call[c]) \in 0..(2 * MAX_REFRESH_RETRIES + 1)
  BY <1>1, AsksIs
<1>3. ASSUME call[c].kind # "none" PROVE StepsOf(call[c]) > 0
  <2>1. call[c].at \in {"credential", "refreshing", "reacting", "usage", "listing", "swapping"}
    BY <1>1, <1>3 DEF CallShape, Records
  <2> HIDE DEF Records
  <2> QED BY <1>1, <1>2, <2>1, StepsOfIs, TokensAssumption
<1>4. StepsOf(call[c]) \in Nat
  BY <1>1, StepsOfIs, TokensAssumption
<1> QED BY <1>2, <1>3, <1>4, TokensAssumption

\* A call that acts is under way.
LEMMA ActsUnderWay ==
  ASSUME Typed, NEW c \in Calls, call[c].at # "idle"
  PROVE  StepsOf(call[c]) > 0
<1>1. call[c] \in Records /\ CallShape(call[c])
  BY CallFields
<1>2. call[c].kind # "none" /\ call[c] # NoCall
  BY <1>1 DEF CallShape, NoCall
<1> QED BY <1>2, StepsLeftOver

\* ensureValidToken takes fewer steps than the check that begins it.
LEMMA CredentialTakesOne ==
  ASSUME IInv, NEW c \in Calls, GetCredential(c)
  PROVE  StepsOf(call'[c]) < StepsOf(call[c])
<1>1. /\ call[c] \in Records /\ CallShape(call[c]) /\ call[c].at = "credential"
      /\ call[c].answer = Unasked /\ active \in Profiles
  BY CallFields DEF IInv, GetCredential, Asking, Typed, SetsTyped
<1>2. CASE stored[active] = NoToken
  <2>1. call'[c] = NoCall
    BY <1>2, CallAt DEF GetCredential, MarkMissing, IInv
  <2> QED BY <1>1, <2>1, NothingToDo, ActsUnderWay DEF IInv
<1>3. CASE stored[active] # NoToken
  <2> DEFINE r == Ensuring(call[c], active)
  <2>1. call[c].kind \in {"check", "fetch"} /\ (call[c].kind = "check" => call[c].checked \in Profiles)
    BY <1>1 DEF Records, CallShape, NoCall
  <2>2. r \in Records /\ r.at \in {"refreshing", "usage"}
    BY <1>1, <2>1, EnsuringTyped DEF IInv
  <2>3. call'[c] = r
    BY <1>3, CallAt DEF GetCredential, IInv
  <2> HIDE DEF r
  <2>4. Asks(r) \in 0..(2 * MAX_REFRESH_RETRIES + 1)
    BY <2>2, AsksIs DEF IInv
  <2>5. /\ StepsOf(call[c]) = 4 * MAX_REFRESH_RETRIES + 7
        /\ StepsOf(r) \in {2 * MAX_REFRESH_RETRIES + 4, 2 * MAX_REFRESH_RETRIES + 5 + Asks(r)}
    BY <1>1, <2>2, StepsOfIs DEF IInv
  <2> QED BY <2>3, <2>4, <2>5, TokensAssumption
<1> QED BY <1>2, <1>3

\* And so does a read that fails.
LEMMA UnreadTakesOne ==
  ASSUME IInv, NEW c \in Calls, CredentialUnread(c)
  PROVE  StepsOf(call'[c]) < StepsOf(call[c])
<1>1. /\ call[c] \in Records /\ CallShape(call[c]) /\ call[c].at = "credential"
      /\ call[c].answer = Unasked /\ active \in Profiles
  BY CallFields DEF IInv, CredentialUnread, Asking, Typed, SetsTyped
<1>2. CASE MarkUnread(c, active)
  <2>1. call'[c] = NoCall
    BY <1>2, CallAt DEF MarkUnread, IInv
  <2> QED BY <1>1, <2>1, NothingToDo, ActsUnderWay DEF IInv
<1>3. CASE Becomes(c, Using(call[c], active))
  <2> DEFINE r == Using(call[c], active)
  <2>1. call[c].kind \in {"check", "fetch"} /\ (call[c].kind = "check" => call[c].checked \in Profiles)
    BY <1>1 DEF Records, CallShape, NoCall
  <2>2. r \in Records /\ r.at = "usage"
    BY <1>1, <2>1, EnsuringTyped DEF IInv, Using, Records
  <2>3. call'[c] = r
    BY <1>3, CallAt DEF IInv
  <2> HIDE DEF r
  <2>4. StepsOf(call[c]) = 4 * MAX_REFRESH_RETRIES + 7 /\ StepsOf(r) = 2 * MAX_REFRESH_RETRIES + 4
    BY <1>1, <2>2, StepsOfIs DEF IInv
  <2> QED BY <2>3, <2>4, TokensAssumption
<1> QED BY <1>2, <1>3 DEF CredentialUnread, ReadFails

\* An answer takes one step.
LEMMA ServeTakesOne ==
  ASSUME IInv, NEW c \in Calls, Serve(c)
  PROVE  StepsOf(call'[c]) < StepsOf(call[c])
<1>1. /\ call[c] \in Records /\ call[c].answer = Unasked /\ call[c].at \in {"refreshing", "reacting"}
      /\ issued \in Nat \ {0}
  BY CallFields DEF IInv, Typed, WorldTyped, Serve, Asking
<1>2. PICK a : Becomes(c, [call[c] EXCEPT !.answer = a]) /\ a \in {issued + 1, Refused}
  BY DEF Serve
<1> DEFINE r == [call[c] EXCEPT !.answer = a]
<1>3. call'[c] = r
  BY <1>2, CallAt DEF IInv
<1>4. r.at = call[c].at /\ r.tries = call[c].tries /\ r.answer = a /\ a # Unasked
  BY <1>1, <1>2 DEF Records, Unasked, Refused
<1> HIDE DEF r
<1>5. Asks(call[c]) = 2 * (MAX_REFRESH_RETRIES - call[c].tries) + 1
  BY <1>1, AsksIs DEF IInv
<1>6. Asks(r) = 2 * (MAX_REFRESH_RETRIES - call[c].tries)
  <2>1. call[c].tries \in 0..MAX_REFRESH_RETRIES
    BY <1>1 DEF Records
  <2> QED BY <1>4, <2>1, TokensAssumption DEF Asks
<1>7. call[c].tries \in 0..MAX_REFRESH_RETRIES
  BY <1>1 DEF Records
<1>8. \/ StepsOf(call[c]) = 2 + Asks(call[c]) /\ StepsOf(r) = 2 + Asks(r)
      \/ /\ StepsOf(call[c]) = 2 * MAX_REFRESH_RETRIES + 5 + Asks(call[c])
         /\ StepsOf(r) = 2 * MAX_REFRESH_RETRIES + 5 + Asks(r)
  BY <1>1, <1>4 DEF StepsOf
<1> QED BY <1>3, <1>5, <1>6, <1>7, <1>8, TokensAssumption

\* Whoever goes on with a token asks no more.
LEMMA ContinuingTakesOne ==
  ASSUME IInv, NEW c \in Calls, NEW t \in 0..issued, Asking(c), Becomes(c, ContinuesWith(c, t))
  PROVE  StepsOf(call'[c]) < StepsOf(call[c])
<1> DEFINE r == ContinuesWith(c, t)
<1>1. call'[c] = r /\ call[c] \in Records /\ r \in Records
  BY CallAt, CallFields, ContinuesTyped DEF IInv
<1>2. CASE r = NoCall
  <2>1. call[c].at # "idle"
    BY DEF Asking
  <2> QED BY <1>1, <1>2, <2>1, NothingToDo, ActsUnderWay DEF IInv
<1>3. CASE r # NoCall
  <2>1. call[c].at = "refreshing" /\ r = [call[c] EXCEPT !.at = "usage", !.token = t, !.tries = 0,
                                                        !.answer = Unasked]
    BY <1>3 DEF ContinuesWith, Asking
  <2>2. r.at = "usage"
    BY <1>1, <2>1 DEF Records
  <2> HIDE DEF r
  <2>3. Asks(call[c]) \in 0..(2 * MAX_REFRESH_RETRIES + 1)
    BY <1>1, AsksIs DEF IInv
  <2>4. /\ StepsOf(call[c]) = 2 * MAX_REFRESH_RETRIES + 5 + Asks(call[c])
        /\ StepsOf(r) = 2 * MAX_REFRESH_RETRIES + 4
    BY <1>1, <2>1, <2>2, StepsOfIs DEF IInv
  <2> QED BY <1>1, <2>3, <2>4, TokensAssumption
<1> QED BY <1>2, <1>3

\* After a refresh that did not help, a check ends or has its swap left.
LEMMA FailingTakesOne ==
  ASSUME IInv, NEW c \in Calls, AuthFails(c), call[c].at \in {"reacting", "usage"}
  PROVE  StepsOf(call'[c]) < StepsOf(call[c])
<1>1. /\ call[c] \in Records /\ MAX_REFRESH_RETRIES \in Nat
      /\ Asks(call[c]) \in Nat /\ StepsOf(call[c]) \in Nat
  BY CallFields, StepsLeftOver, TokensAssumption DEF IInv
<1>2. StepsOf(call[c]) > 1
  <2>1. StepsOf(call[c]) \in {2 + Asks(call[c]), 2 * MAX_REFRESH_RETRIES + 4}
    BY <1>1, StepsOfIs DEF IInv
  <2> QED BY <1>1, <2>1
<1>3. CASE Becomes(c, NoCall)
  <2>1. call'[c] = NoCall
    BY <1>3, CallAt DEF IInv
  <2> QED BY <1>1, <1>2, <2>1, NothingToDo
<1>4. CASE Becomes(c, [call[c] EXCEPT !.at = "swapping", !.exclude = authFailed', !.tries = 0,
                                      !.answer = Unasked])
  <2>1. call'[c] = [call[c] EXCEPT !.at = "swapping", !.exclude = authFailed', !.tries = 0,
                                   !.answer = Unasked]
    BY <1>4, CallAt DEF IInv
  <2>2. call'[c].at = "swapping"
    BY <1>1, <2>1 DEF Records
  <2>3. StepsOf(call'[c]) = 1
    BY <2>2 DEF StepsOf
  <2> QED BY <1>2, <2>3
<1> QED BY <1>3, <1>4 DEF AuthFails

\* A request that failed is repeated with one try fewer.
LEMMA RequestTakesOne ==
  ASSUME IInv, NEW c \in Calls, RequestFails(c)
  PROVE  StepsOf(call'[c]) < StepsOf(call[c])
<1>1. /\ call[c] \in Records /\ Asking(c) /\ call[c].at \in {"refreshing", "reacting"}
      /\ call[c].token \in 0..issued /\ call[c].tries \in 0..MAX_REFRESH_RETRIES
  BY CallFields DEF IInv, RequestFails, Asking, Records
<1>2. CASE call[c].kind # "cli" /\ call[c].tries < MAX_REFRESH_RETRIES
  <2> DEFINE r == [call[c] EXCEPT !.tries = @ + 1, !.answer = Unasked]
  <2>1. call'[c] = r
    BY <1>2, CallAt DEF RequestFails, IInv
  <2>2. r.at = call[c].at /\ r.tries = call[c].tries + 1 /\ r.answer = Unasked
    BY <1>1 DEF Records
  <2> HIDE DEF r
  <2>3. Asks(r) = 2 * (MAX_REFRESH_RETRIES - (call[c].tries + 1)) + 1
    BY <1>1, <2>2, TokensAssumption DEF Asks
  <2>4. Asks(call[c]) \in {2 * (MAX_REFRESH_RETRIES - call[c].tries) + 1,
                           2 * (MAX_REFRESH_RETRIES - call[c].tries)}
    BY <1>1, AsksIs DEF IInv
  <2>5. \/ StepsOf(call[c]) = 2 + Asks(call[c]) /\ StepsOf(r) = 2 + Asks(r)
        \/ /\ StepsOf(call[c]) = 2 * MAX_REFRESH_RETRIES + 5 + Asks(call[c])
           /\ StepsOf(r) = 2 * MAX_REFRESH_RETRIES + 5 + Asks(r)
    BY <1>1, <2>2 DEF StepsOf
  <2> QED BY <1>1, <2>1, <2>3, <2>4, <2>5, TokensAssumption
<1>3. CASE ~(call[c].kind # "cli" /\ call[c].tries < MAX_REFRESH_RETRIES) /\ call[c].at = "reacting"
  BY <1>3, FailingTakesOne DEF RequestFails
<1>4. CASE ~(call[c].kind # "cli" /\ call[c].tries < MAX_REFRESH_RETRIES) /\ call[c].at # "reacting"
  BY <1>1, <1>4, ContinuingTakesOne DEF RequestFails
<1> QED BY <1>2, <1>3, <1>4

\* A result, or a refusal.
LEMMA AnswerTakesOne ==
  ASSUME IInv, NEW c \in Calls, Refreshed(c) \/ PersistenceFails(c) \/ RefreshRefused(c)
  PROVE  StepsOf(call'[c]) < StepsOf(call[c])
<1>1. call[c] \in Records /\ Asking(c) /\ call[c].at \in {"refreshing", "reacting"}
  BY CallFields DEF IInv, Refreshed, PersistenceFails, RefreshRefused, Asking
<1>2. CASE Refreshed(c) \/ PersistenceFails(c)
  <2>1. call[c].answer \in 0..issued /\ Becomes(c, ContinuesWith(c, call[c].answer))
    BY <1>1, <1>2 DEF Refreshed, PersistenceFails, Records, NoToken, IInv, Typed, WorldTyped
  <2> QED BY <1>1, <2>1, ContinuingTakesOne
<1>3. CASE RefreshRefused(c) /\ call[c].kind = "cli"
  <2>1. call'[c] = NoCall
    BY <1>3, CallAt DEF RefreshRefused, IInv
  <2> QED BY <1>1, <2>1, NothingToDo, ActsUnderWay DEF IInv
<1>4. CASE RefreshRefused(c) /\ call[c].kind # "cli" /\ call[c].at = "reacting"
  BY <1>4, FailingTakesOne DEF RefreshRefused
<1>5. CASE RefreshRefused(c) /\ call[c].kind # "cli" /\ call[c].at # "reacting"
  <2>1. call[c].profile \in Profiles
    BY <1>1, CallFields DEF CallShape, IInv
  <2>2. stored[call[c].profile] \in 0..issued
    BY <2>1 DEF IInv, Typed, WorldTyped
  <2> QED BY <1>1, <1>5, <2>2, ContinuingTakesOne DEF RefreshRefused
<1> QED BY <1>2, <1>3, <1>4, <1>5

\* A refusal of the client.
LEMMA ClientTakesOne ==
  ASSUME IInv, NEW c \in Calls, ClientRefused(c)
  PROVE  StepsOf(call'[c]) < StepsOf(call[c])
<1>1. call[c] \in Records /\ CallShape(call[c]) /\ Asking(c) /\ call[c].at \in {"refreshing", "reacting"}
  BY CallFields DEF IInv, ClientRefused, Asking
<1>2. CASE call[c].at = "reacting"
  BY <1>2, FailingTakesOne DEF ClientRefused
<1>3. CASE call[c].at # "reacting"
  <2>1. call[c].profile \in Profiles
    BY <1>1 DEF CallShape
  <2>2. stored[call[c].profile] \in 0..issued
    BY <2>1 DEF IInv, Typed, WorldTyped
  <2> QED BY <1>1, <1>3, <2>2, ContinuingTakesOne DEF ClientRefused
<1> QED BY <1>2, <1>3

\* The usage is known, refused with a 401, or not to be had.
LEMMA UsageTakesOne ==
  ASSUME IInv, NEW c \in Calls,
         UsageKnown(c) \/ UsageUnauthorized(c) \/ RefreshUnread(c) \/ UsageFails(c)
  PROVE  StepsOf(call'[c]) < StepsOf(call[c])
<1>1. call[c] \in Records /\ call[c].at = "usage" /\ MAX_REFRESH_RETRIES \in Nat
  BY CallFields, TokensAssumption
     DEF IInv, UsageKnown, UsageUnauthorized, RefreshUnread, Unauthorized, UsageFails
<1>2. StepsOf(call[c]) = 2 * MAX_REFRESH_RETRIES + 4
  BY <1>1 DEF StepsOf
<1>3. CASE Becomes(c, NoCall)
  <2>1. call'[c] = NoCall
    BY <1>3, CallAt DEF IInv
  <2> QED BY <1>1, <1>2, <2>1, NothingToDo
<1>4. CASE Becomes(c, [call[c] EXCEPT !.at = "listing"])
  <2>1. call'[c] = [call[c] EXCEPT !.at = "listing"]
    BY <1>4, CallAt DEF IInv
  <2>2. call'[c].at = "listing"
    BY <1>1, <2>1 DEF Records
  <2>3. StepsOf(call'[c]) = 2
    BY <2>2 DEF StepsOf
  <2> QED BY <1>1, <1>2, <2>3
<1>5. CASE AuthFails(c)
  BY <1>1, <1>5, FailingTakesOne
<1>6. CASE \E p, t : Becomes(c, [call[c] EXCEPT !.at = "reacting", !.profile = p, !.token = t])
  <2>1. PICK p, t : Becomes(c, [call[c] EXCEPT !.at = "reacting", !.profile = p, !.token = t])
    BY <1>6
  <2> DEFINE r == [call[c] EXCEPT !.at = "reacting", !.profile = p, !.token = t]
  <2>2. call'[c] = r
    BY <2>1, CallAt DEF IInv
  <2>3. r.at = "reacting" /\ r.tries = call[c].tries /\ r.answer = call[c].answer
    BY <1>1 DEF Records
  <2> HIDE DEF r
  <2>4. Asks(r) = Asks(call[c])
    BY <2>3 DEF Asks
  <2>5. StepsOf(r) = 2 + Asks(r)
    BY <2>3 DEF StepsOf
  <2>6. Asks(call[c]) \in 0..(2 * MAX_REFRESH_RETRIES + 1)
    BY <1>1, AsksIs DEF IInv
  <2> QED BY <1>1, <1>2, <2>2, <2>4, <2>5, <2>6
<1>7. CASE UsageKnown(c)
  BY <1>3, <1>4, <1>7 DEF UsageKnown
<1>8. CASE UsageUnauthorized(c)
  BY <1>3, <1>5, <1>6, <1>8 DEF UsageUnauthorized
<1>9. CASE UsageFails(c)
  BY <1>3, <1>9 DEF UsageFails
<1>10. CASE RefreshUnread(c)
  BY <1>5, <1>10 DEF RefreshUnread
<1> QED BY <1>7, <1>8, <1>9, <1>10

\* The end of a check.
LEMMA DecidingTakesOne ==
  ASSUME IInv, NEW c \in Calls, Listed(c) \/ Swap(c)
  PROVE  StepsOf(call'[c]) < StepsOf(call[c])
<1>1. call[c] \in Records /\ call[c].at \in {"listing", "swapping"}
  BY CallFields DEF IInv, Listed, Swap
<1>2. CASE Becomes(c, NoCall)
  <2>1. call'[c] = NoCall
    BY <1>2, CallAt DEF IInv
  <2> QED BY <1>1, <2>1, NothingToDo, ActsUnderWay DEF IInv
<1>3. CASE Listed(c) /\ Becomes(c, [call[c] EXCEPT !.at = "swapping", !.exclude = {}])
  <2>1. call'[c] = [call[c] EXCEPT !.at = "swapping", !.exclude = {}]
    BY <1>3, CallAt DEF IInv
  <2>2. call'[c].at = "swapping" /\ call[c].at = "listing"
    BY <1>1, <1>3, <2>1 DEF Records, Listed
  <2>3. StepsOf(call'[c]) = 1 /\ StepsOf(call[c]) = 2
    BY <2>2 DEF StepsOf
  <2> QED BY <2>3
<1> QED BY <1>2, <1>3 DEF Listed, Swap

LEMMA ActingTakesOne ==
  ASSUME IInv, NEW c \in Calls, Acts(c)
  PROVE  StepsOf(call'[c]) < StepsOf(call[c])
BY CredentialTakesOne, UnreadTakesOne, ServeTakesOne, AnswerTakesOne, ClientTakesOne,
   RequestTakesOne, UsageTakesOne, DecidingTakesOne DEF Acts, CallStep

\* A step of another call.
LEMMA OtherCallLeaves ==
  ASSUME IInv, NEW c \in Calls, NEW d \in Calls, d # c,
         \/ StartCheck(d) \/ Acts(d)
         \/ \E p \in Profiles : FetchInactive(d, p) \/ InactiveUnread(d, p) \/ CliRefreshes(d, p)
  PROVE  call'[c] = call[c]
<1>1. ASSUME NEW r, Becomes(d, r) PROVE call'[c] = call[c]
  BY <1>1, CallAt DEF IInv
<1>2. CASE StartCheck(d) \/ \E p \in Profiles : FetchInactive(d, p) \/ CliRefreshes(d, p)
  BY <1>1, <1>2 DEF StartCheck, FetchInactive, CliRefreshes, MarkMissing
<1>8. CASE CredentialUnread(d) \/ \E p \in Profiles : InactiveUnread(d, p)
  BY <1>1, <1>8 DEF CredentialUnread, InactiveUnread, ReadFails, MarkUnread
<1>3. CASE GetCredential(d) \/ Serve(d) \/ Refreshed(d) \/ PersistenceFails(d)
  BY <1>1, <1>3 DEF GetCredential, Serve, Refreshed, PersistenceFails, MarkMissing
<1>4. ASSUME AuthFails(d) PROVE call'[c] = call[c]
  BY <1>1, <1>4 DEF AuthFails
<1>5. CASE RefreshRefused(d) \/ ClientRefused(d) \/ RequestFails(d)
  BY <1>1, <1>4, <1>5 DEF RefreshRefused, ClientRefused, RequestFails
<1>6. CASE UsageKnown(d) \/ UsageUnauthorized(d) \/ RefreshUnread(d) \/ UsageFails(d)
  BY <1>1, <1>4, <1>6 DEF UsageKnown, UsageUnauthorized, RefreshUnread, UsageFails
<1>7. CASE Listed(d) \/ Swap(d)
  BY <1>1, <1>7 DEF Listed, Swap
<1> QED BY <1>2, <1>3, <1>5, <1>6, <1>7, <1>8 DEF Acts, CallStep

\* A switch of the profile changes nothing but what a check observed.
LEMMA SwitchTakesNone ==
  ASSUME IInv, NEW c \in Calls, call' = Switched
  PROVE  StepsOf(call'[c]) = StepsOf(call[c])
<1>1. call[c] \in Records
  BY CallFields DEF IInv
<1>2. call'[c] = [call[c] EXCEPT !.moved = @ \/ call[c].kind = "check"]
  BY DEF Switched
<1> DEFINE r == [call[c] EXCEPT !.moved = @ \/ call[c].kind = "check"]
<1>3. r.at = call[c].at /\ r.tries = call[c].tries /\ r.answer = call[c].answer
  BY <1>1 DEF Records
<1> HIDE DEF r
<1>4. StepsOf(r) = StepsOf(call[c])
  BY <1>3 DEF StepsOf, Asks
<1> QED BY <1>2, <1>4 DEF r

LEMMA OthersTakeNone ==
  ASSUME IInv, [TokensNext]_tokensVars, NEW c \in Calls, call[c] # NoCall, ~Acts(c)
  PROVE  StepsOf(call'[c]) <= StepsOf(call[c])
<1>0. StepsOf(call[c]) \in Nat
  BY StepsLeftOver DEF IInv
<1>1. ASSUME call'[c] = call[c] PROVE StepsOf(call'[c]) <= StepsOf(call[c])
  BY <1>0, <1>1
<1>2. ASSUME call' = Switched PROVE StepsOf(call'[c]) <= StepsOf(call[c])
  BY <1>0, <1>2, SwitchTakesNone
<1>3. ASSUME NEW d \in Calls,
             \/ StartCheck(d) \/ Acts(d)
             \/ \E p \in Profiles : FetchInactive(d, p) \/ InactiveUnread(d, p) \/ CliRefreshes(d, p)
      PROVE  StepsOf(call'[c]) <= StepsOf(call[c])
  <2>1. d # c
    BY <1>3 DEF StartCheck, FetchInactive, InactiveUnread, CliRefreshes
  <2> QED BY <1>1, <1>3, <2>1, OtherCallLeaves
<1>4. ASSUME NEW p \in Profiles,
             TokenExpires(p) \/ Login(p) \/ LoginNoticed(p) \/ SwitchProfile(p) \/ Revoke(p)
      PROVE  StepsOf(call'[c]) <= StepsOf(call[c])
  <2>1. call' = call \/ call' = Switched
    BY <1>4 DEF TokenExpires, Login, LoginNoticed, SwitchProfile, Revoke
  <2> QED BY <1>1, <1>2, <2>1
<1>5. CASE MonitorRestarts
  <2>1. call'[c] = call[c] \/ call'[c] = NoCall
    BY <1>5 DEF MonitorRestarts
  <2> QED BY <1>0, <1>1, <2>1, NothingToDo
<1>6. CASE UNCHANGED tokensVars
  BY <1>1, <1>6 DEF tokensVars
<1>7. ASSUME NEW unread \in SUBSET Profiles, ProfilesListed(unread)
      PROVE  StepsOf(call'[c]) <= StepsOf(call[c])
  BY <1>1, <1>7 DEF ProfilesListed
<1> QED BY <1>3, <1>4, <1>5, <1>6, <1>7 DEF TokensNext, Acts

\* A check, a fetch or a refresh of the Claude CLI takes at most 4 * MAX_REFRESH_RETRIES + 7
\* steps, however requests and writes fail: isChecking of usage-monitor.ts is given back.
THEOREM StepsOfACall ==
  TokensSpec => /\ [](\A c \in Calls : StepsOf(call[c]) \in 0..(4 * MAX_REFRESH_RETRIES + 7))
                /\ CallsRunOut
<1>1. IInv => \A c \in Calls : StepsOf(call[c]) \in 0..(4 * MAX_REFRESH_RETRIES + 7)
  BY CallFields, StepsOfIs DEF IInv
<1>2. IInv /\ [TokensNext]_tokensVars =>
        [\A c \in Calls : call[c] # NoCall =>
            /\ StepsOf(call'[c]) <= StepsOf(call[c])
            /\ Acts(c) => StepsOf(call'[c]) < StepsOf(call[c])]_tokensVars
  <2> SUFFICES ASSUME IInv, [TokensNext]_tokensVars, NEW c \in Calls, call[c] # NoCall
               PROVE  /\ StepsOf(call'[c]) <= StepsOf(call[c])
                      /\ Acts(c) => StepsOf(call'[c]) < StepsOf(call[c])
    OBVIOUS
  <2>1. CASE ~Acts(c)
    BY <2>1, OthersTakeNone
  <2>2. CASE Acts(c)
    <3>1. call[c].at # "idle"
      BY <2>2 DEF Acts, CallStep, GetCredential, Serve, Refreshed, RefreshRefused, UsageKnown,
                  UsageUnauthorized, Unauthorized, Listed, Swap, PersistenceFails, RequestFails,
                  UsageFails, CredentialUnread, ClientRefused, RefreshUnread, Asking
    <3>2. StepsOf(call'[c]) < StepsOf(call[c])
      BY <2>2, ActingTakesOne
    <3>3. StepsOf(call'[c]) \in Nat
      <4>1. Typed'
        BY TokensStepKeeps DEF IInv
      <4>2. /\ call'[c].tries \in 0..MAX_REFRESH_RETRIES
            /\ call'[c].at \in Places
        BY <4>1 DEF Typed, CallsTyped, Records, Places
      <4>3. StepsOf(call'[c]) \in 0..(4 * MAX_REFRESH_RETRIES + 7)
        BY <4>2, StepsAreCounted
      <4> QED BY <4>3, TokensAssumption
    <3>4. StepsOf(call[c]) \in Nat
      BY StepsLeftOver DEF IInv
    <3>5. StepsOf(call'[c]) <= StepsOf(call[c])
      BY <3>2, <3>3, <3>4
    <3> QED BY <3>2, <3>5
  <2> QED BY <2>1, <2>2
<1> QED BY <1>1, <1>2, TokensInvariant, PTL DEF TokensSpec, CallsRunOut

==============================================================================
