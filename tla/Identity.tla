------------------------------- MODULE Identity -------------------------------
(***************************************************************************)
(* The Identity context (backend/internal/modules/identity): logging in    *)
(* with a code sent to a phone or an email address, the user and workspace *)
(* a first login registers, the admin a private deployment provisions at   *)
(* each start, and the contact channels a user adds and verifies.          *)
(*                                                                         *)
(* The login handlers run no transaction: each statement commits by itself *)
(* and is a step here.  The channel handlers that check a code lock the    *)
(* channel's row in a transaction; what they write is visible when they    *)
(* commit.  A request may fail between any two of its statements, and a    *)
(* restart of the API ends them all.                                       *)
(*                                                                         *)
(* Requests are numbered as they start; NewID and NewCode are the number   *)
(* of the request that calls them, 0 being no code.  A user has at most    *)
(* one channel here: the code tells channels apart by kind and address and *)
(* treats them alike.                                                      *)
(***************************************************************************)
EXTENDS Integers, FiniteSets

CONSTANTS
    Phones, Emails,      \* the identifiers people log in with
    None,                \* an absent identifier
    Slots,               \* the requests in progress at one time
    MaxRequests,         \* bound on the requests started
    MaxStarts,           \* bound on the starts of the API
    MaxClock,            \* bound on the clock
    ChallengeTTL,        \* the life of a challenge, in ticks
    CountedFor,          \* the rolling hour of the request limit
    MaxChallenges,       \* MaxChallengesPerPhonePerHour
    MaxVerifyAttempts,
    CodeTTL,             \* the life of a channel's code
    Cooldown             \* ChannelResendCooldown

ASSUME IdentityAssumption ==
    /\ {MaxRequests, MaxStarts, MaxClock} \subseteq Nat
    /\ {ChallengeTTL, CountedFor, MaxChallenges, MaxVerifyAttempts, CodeTTL, Cooldown} \subseteq Nat \ {0}
    /\ Phones \cap Emails = {} /\ None \notin Phones \cup Emails
    /\ IsFiniteSet(Slots)

VARIABLES
    clock,
    api,          \* the API process and the identifiers its deployment lets in
    started,      \* how many requests have started
    requests,     \* the request in each slot
    challenges,   \* identity.login_challenges
    users,        \* identity.users
    sessions,     \* the active rows of identity.sessions
    channels,     \* identity.contact_channels
    kept          \* history: what the requests on a channel have been told is so

vars == <<clock, api, started, requests, challenges, users, sessions, channels, kept>>
logins == <<challenges, users, sessions>>
contacts == <<channels, kept>>

Identifiers == Phones \cup Emails
Numbers == 0 .. MaxRequests

Challenges == [id : Numbers, identifier : Identifiers \cup {None}, at : 0 .. MaxClock,
               consumed : BOOLEAN, attempts : 0 .. MaxVerifyAttempts]
NoChallenge == [id |-> 0, identifier |-> None, at |-> 0, consumed |-> FALSE, attempts |-> 0]

Users == [id : Int, phone : Phones \cup {None}, email : Emails \cup {None}]
NoUser == [id |-> 0, phone |-> None, email |-> None]

(* at is when the code was made; a channel that was imported has code 0.   *)
Channels == [id : Int, user : Int, verified : BOOLEAN, enabled : BOOLEAN, code : Numbers,
             at : 0 .. MaxClock]
NoChannel == [id |-> 0, user |-> 0, verified |-> FALSE, enabled |-> FALSE, code |-> 0, at |-> 0]

(* What a request carries from one statement to the next: its number, the  *)
(* time it read, and copies of the rows it read.                           *)
Requests ==
    [step : {"none", "save_challenge", "count_failure", "consume", "find_user", "save_user",
             "save_session", "save_channel", "update_verified", "update_code"},
     no : Numbers, at : 0 .. MaxClock, identifier : Identifiers \cup {None},
     challenge : Challenges, user : Users, channel : Channels]
NoRequest == [step |-> "none", no |-> 0, at |-> 0, identifier |-> None,
              challenge |-> NoChallenge, user |-> NoUser, channel |-> NoChannel]

Identified(u) == {u.phone, u.email} \ {None}
Owners(i) == {u \in users : i \in Identified(u)}

(* The database is new, or has a user with a session, without a channel or *)
(* with the one an import has left.                                        *)
Init ==
    /\ clock = 0 /\ started = 0
    /\ api = [up |-> FALSE, starts |-> 0, private |-> FALSE, admits |-> {}]
    /\ requests = [s \in Slots |-> NoRequest]
    /\ challenges = {}
    /\ \/ users = {} /\ sessions = {} /\ channels = {} /\ kept = {}
       \/ \E p \in Phones :
             /\ users = {[id |-> -1, phone |-> p, email |-> None]}
             /\ sessions = {[id |-> 0, user |-> -1, identifier |-> p]}
             /\ \/ channels = {} /\ kept = {}
                \/ /\ channels = {[NoChannel EXCEPT !.id = -1, !.user = -1, !.enabled = TRUE]}
                   /\ kept = {[channel |-> -1, verified |-> FALSE, enabled |-> TRUE, code |-> 0]}

-------------------------------------------------------------------------------
(* The API process.                                                        *)

Tick == /\ clock < MaxClock /\ clock' = clock + 1
        /\ UNCHANGED <<api, started, requests, logins, contacts>>

(* It stops, with whatever it was doing.                                   *)
Stop == /\ api.up
        /\ api' = [api EXCEPT !.up = FALSE]
        /\ requests' = [s \in Slots |-> NoRequest]
        /\ UNCHANGED <<clock, started, logins, contacts>>

Up(private, admits) ==
    api' = [up |-> TRUE, starts |-> api.starts + 1, private |-> private, admits |-> admits]

StartPublic ==
    /\ ~api.up /\ api.starts < MaxStarts
    /\ Up(FALSE, Identifiers)
    /\ UNCHANGED <<clock, started, requests, logins, contacts>>

(* findExisting: by the phone if there is one, then by the email.          *)
Existing(phone, email) == IF Owners(phone) # {} THEN Owners(phone) ELSE Owners(email)
Attached(u, phone, email) ==
    [u EXCEPT !.phone = IF @ = None THEN phone ELSE @, !.email = IF @ = None THEN email ELSE @]

(* ProvisionAdminHandler, before the API serves anything.  When another    *)
(* user has the identifier to attach, its unique key refuses the update    *)
(* and the API does not start.  A workspace saved for a user whose own row *)
(* then fails belongs to nobody, here and below.                           *)
(* Fault: the user is looked for by the phone only.                        *)
ProvisionByPhone(phone, email) ==
    /\ ~api.up /\ api.starts < MaxStarts /\ {phone, email} # {None}
    /\ users' = IF Owners(phone) # {} THEN users
                ELSE users \cup {[id |-> -2 - api.starts, phone |-> phone, email |-> email]}
    /\ Up(TRUE, {phone, email} \ {None})
    /\ UNCHANGED <<clock, started, requests, challenges, sessions, contacts>>
Provision(phone, email) ==
    LET found == Existing(phone, email)
        conflicts(u) == \E r \in users : r.id # u.id /\ Identified(r) \cap Identified(u) # {} IN
    /\ ~api.up /\ api.starts < MaxStarts /\ {phone, email} # {None}
    /\ \/ /\ found = {}
          /\ users' = users \cup {[id |-> -2 - api.starts, phone |-> phone, email |-> email]}
       \/ \E u \in found : /\ ~conflicts(Attached(u, phone, email))
                           /\ users' = (users \ {u}) \cup {Attached(u, phone, email)}
    /\ Up(TRUE, {phone, email} \ {None})
    /\ UNCHANGED <<clock, started, requests, challenges, sessions, contacts>>

-------------------------------------------------------------------------------
(* The life of a request.                                                  *)

Serving(s) == api.up /\ requests[s].step = "none" /\ started < MaxRequests
Accept(s, request) ==
    /\ requests' = [requests EXCEPT ![s] = [request EXCEPT !.no = started + 1, !.at = clock]]
    /\ started' = started + 1
Proceed(s, step) == requests' = [requests EXCEPT ![s].step = step]
Finish(s) == requests' = [requests EXCEPT ![s] = NoRequest]

(* A statement fails, or the caller has gone: a transaction rolls back.    *)
Fail(s) ==
    /\ requests[s].step # "none"
    /\ Finish(s)
    /\ UNCHANGED <<clock, api, started, logins, contacts>>

-------------------------------------------------------------------------------
(* Logging in.                                                             *)

Recent(i) == {c \in challenges : c.identifier = i /\ c.at + CountedFor > clock}

(* RequestLoginChallengeHandler: the count, then the row.  The message is  *)
(* sent last, and whether it arrives changes nothing.                      *)
(* Fault: nothing is counted.                                              *)
RequestUncounted(s, i) ==
    /\ Serving(s) /\ i \in api.admits
    /\ Accept(s, [NoRequest EXCEPT !.step = "save_challenge", !.identifier = i])
    /\ UNCHANGED <<clock, api, logins, contacts>>
RequestChallenge(s, i) ==
    /\ Serving(s) /\ i \in api.admits
    /\ Cardinality(Recent(i)) < MaxChallenges
    /\ Accept(s, [NoRequest EXCEPT !.step = "save_challenge", !.identifier = i])
    /\ UNCHANGED <<clock, api, logins, contacts>>

SaveChallenge(s) ==
    LET r == requests[s] IN
    /\ r.step = "save_challenge"
    /\ challenges' = challenges \cup {[id |-> r.no, identifier |-> r.identifier, at |-> r.at,
                                       consumed |-> FALSE, attempts |-> 0]}
    /\ Finish(s)
    /\ UNCHANGED <<clock, api, started, users, sessions, contacts>>

(* activeByIdentifier: unconsumed rows first, then the newest.             *)
Newest(S) == {c \in S : \A d \in S : d.at < c.at \/ (d.at = c.at /\ d.id <= c.id)}
(* Fault: the newest whatever it is, so that a consumed one is not passed. *)
ActiveChallengeAny(i) == Newest({c \in challenges : c.identifier = i})
ActiveChallenge(i) ==
    LET all == {c \in challenges : c.identifier = i}
        open == {c \in all : ~c.consumed} IN
    IF open # {} THEN Newest(open) ELSE Newest(all)

(* What VerifyLoginChallengeHandler refuses.                               *)
(* Fault: a consumed challenge is not refused.                             *)
UsableAgain(c) == clock < c.at + ChallengeTTL /\ c.attempts < MaxVerifyAttempts
Usable(c) == clock < c.at + ChallengeTTL /\ ~c.consumed /\ c.attempts < MaxVerifyAttempts

(* It decides on the row it has read, whose code the user has right or     *)
(* wrong, and writes the whole row back.                                   *)
VerifyLogin(s, i, right) ==
    /\ Serving(s) /\ i \in api.admits
    /\ \E c \in ActiveChallenge(i) :
          /\ Usable(c)
          /\ Accept(s, [NoRequest EXCEPT
                 !.step = IF right THEN "consume" ELSE "count_failure",
                 !.identifier = i,
                 !.challenge = IF right THEN [c EXCEPT !.consumed = TRUE]
                                              ELSE [c EXCEPT !.attempts = @ + 1]])
    /\ UNCHANGED <<clock, api, logins, contacts>>

UpdateChallenge(s) ==
    LET copy == requests[s].challenge IN
    /\ requests[s].step \in {"count_failure", "consume"}
    /\ challenges' = {c \in challenges : c.id # copy.id} \cup {copy}
    /\ IF requests[s].step = "consume" THEN Proceed(s, "find_user") ELSE Finish(s)
    /\ UNCHANGED <<clock, api, started, users, sessions, contacts>>

FindUser(s) ==
    LET found == Owners(requests[s].identifier) IN
    /\ requests[s].step = "find_user"
    /\ IF found = {} THEN Proceed(s, "save_user")
       ELSE requests' = [requests EXCEPT ![s].step = "save_session",
                                         ![s].user = CHOOSE u \in found : TRUE]
    /\ UNCHANGED <<clock, api, started, logins, contacts>>

NewUser(s) ==
    LET r == requests[s] IN
    [id |-> r.no,
     phone |-> IF r.identifier \in Phones THEN r.identifier ELSE None,
     email |-> IF r.identifier \in Emails THEN r.identifier ELSE None]

(* The unique keys refuse a second user with the identifier.               *)
(* Fault: the refusal passes for success.                                  *)
SaveUserIgnored(s) ==
    /\ requests[s].step = "save_user"
    /\ users' = IF Owners(requests[s].identifier) # {} THEN users ELSE users \cup {NewUser(s)}
    /\ requests' = [requests EXCEPT ![s].step = "save_session", ![s].user = NewUser(s)]
    /\ UNCHANGED <<clock, api, started, challenges, sessions, contacts>>
(* Fault: there is no such key.                                            *)
SaveUserTwice(s) ==
    /\ requests[s].step = "save_user"
    /\ users' = users \cup {NewUser(s)}
    /\ requests' = [requests EXCEPT ![s].step = "save_session", ![s].user = NewUser(s)]
    /\ UNCHANGED <<clock, api, started, challenges, sessions, contacts>>
SaveUser(s) ==
    /\ requests[s].step = "save_user"
    /\ IF Owners(requests[s].identifier) # {} THEN users' = users /\ Finish(s)
       ELSE /\ users' = users \cup {NewUser(s)}
            /\ requests' = [requests EXCEPT ![s].step = "save_session", ![s].user = NewUser(s)]
    /\ UNCHANGED <<clock, api, started, challenges, sessions, contacts>>

SaveSession(s) ==
    LET r == requests[s] IN
    /\ r.step = "save_session"
    /\ sessions' = sessions \cup {[id |-> r.no, user |-> r.user.id, identifier |-> r.identifier]}
    /\ Finish(s)
    /\ UNCHANGED <<clock, api, started, challenges, users, contacts>>

(* LogoutHandler, whose write only ever revokes; a session also ends when  *)
(* it expires.                                                             *)
Logout(x) ==
    /\ api.up /\ x \in sessions
    /\ sessions' = sessions \ {x}
    /\ UNCHANGED <<clock, api, started, requests, challenges, users, contacts>>

-------------------------------------------------------------------------------
(* Contact channels.  A user acts through an active session.               *)

Authenticated == {u \in users : \E x \in sessions : x.user = u.id}
ChannelOf(u) == {c \in channels : c.user = u.id}

(* The row lock of a transaction that has read the channel.                *)
Locked(id) == \E s \in Slots : /\ requests[s].step \in {"update_verified", "update_code"}
                               /\ requests[s].channel.id = id

(* The requests that succeed, each one's word on the channel.              *)
Told(id, f, value) == {IF k.channel = id THEN [k EXCEPT ![f] = value] ELSE k : k \in kept}

(* AddChannelHandler: the code is sent first, the row saved after it.      *)
AddChannel(s, u) ==
    /\ Serving(s) /\ u \in Authenticated /\ ChannelOf(u) = {}
    /\ Accept(s, [NoRequest EXCEPT !.step = "save_channel", !.user = u])
    /\ UNCHANGED <<clock, api, logins, contacts>>

SaveChannel(s) ==
    LET r == requests[s] IN
    /\ r.step = "save_channel"
    /\ IF ChannelOf(r.user) # {} THEN UNCHANGED contacts   \* ErrChannelExists
       ELSE /\ channels' = channels \cup {[id |-> r.no, user |-> r.user.id, verified |-> FALSE,
                                           enabled |-> TRUE, code |-> r.no, at |-> r.at]}
            /\ kept' = kept \cup {[channel |-> r.no, verified |-> FALSE, enabled |-> TRUE,
                                   code |-> r.no]}
    /\ Finish(s)
    /\ UNCHANGED <<clock, api, started, logins>>

(* ResendChannelHandler, from its lock to its commit.                      *)
(* Fault: the row is read without the lock.                                *)
ResendUnlocked(s, c) ==
    /\ Serving(s) /\ c \in channels /\ \E u \in Authenticated : c.user = u.id
    /\ ~c.verified
    /\ c.code # 0 => c.at + Cooldown <= clock
    /\ Accept(s, [NoRequest EXCEPT !.step = "update_code", !.channel = c])
    /\ UNCHANGED <<clock, api, logins, contacts>>
ResendChannel(s, c) ==
    /\ Serving(s) /\ c \in channels /\ \E u \in Authenticated : c.user = u.id
    /\ ~Locked(c.id)
    /\ ~c.verified
    /\ c.code # 0 => c.at + Cooldown <= clock
    /\ Accept(s, [NoRequest EXCEPT !.step = "update_code", !.channel = c])
    /\ UNCHANGED <<clock, api, logins, contacts>>

WriteBack(row) == channels' = {c \in channels : c.id # row.id} \cup {row}

UpdateCode(s) ==
    LET r == requests[s] IN
    /\ r.step = "update_code"
    /\ WriteBack([r.channel EXCEPT !.code = r.no, !.at = r.at])
    /\ kept' = Told(r.channel.id, "code", r.no)
    /\ Finish(s)
    /\ UNCHANGED <<clock, api, started, logins>>

(* VerifyChannelHandler: locked, checked against code and expiry, written  *)
(* back whole.                                                             *)
VerifyChannel(s, c) ==
    /\ Serving(s) /\ c \in channels /\ \E u \in Authenticated : c.user = u.id
    /\ ~Locked(c.id)
    /\ c.code # 0 /\ clock < c.at + CodeTTL
    /\ Accept(s, [NoRequest EXCEPT !.step = "update_verified", !.channel = [c EXCEPT !.verified = TRUE]])
    /\ UNCHANGED <<clock, api, logins, contacts>>

UpdateVerified(s) ==
    LET row == requests[s].channel IN
    /\ requests[s].step = "update_verified"
    /\ WriteBack(row)
    /\ kept' = Told(row.id, "verified", TRUE)
    /\ Finish(s)
    /\ UNCHANGED <<clock, api, started, logins>>

(* SetChannelEnabledHandler: one targeted update, which waits for the lock. *)
SetEnabled(c, enabled) ==
    /\ api.up /\ c \in channels /\ \E u \in Authenticated : c.user = u.id
    /\ ~Locked(c.id) /\ c.enabled # enabled
    /\ WriteBack([c EXCEPT !.enabled = enabled])
    /\ kept' = Told(c.id, "enabled", enabled)
    /\ UNCHANGED <<clock, api, started, requests, logins>>

-------------------------------------------------------------------------------
Next ==
    \/ Tick
    \/ Stop \/ StartPublic
    \/ \E phone \in Phones \cup {None}, email \in Emails \cup {None} : Provision(phone, email)
    \/ \E s \in Slots :
          \/ Fail(s)
          \/ \E i \in Identifiers :
                RequestChallenge(s, i) \/ \E right \in BOOLEAN : VerifyLogin(s, i, right)
          \/ SaveChallenge(s) \/ UpdateChallenge(s) \/ FindUser(s) \/ SaveUser(s) \/ SaveSession(s)
          \/ \E u \in users : AddChannel(s, u)
          \/ SaveChannel(s) \/ UpdateCode(s) \/ UpdateVerified(s)
          \/ \E c \in channels : ResendChannel(s, c) \/ VerifyChannel(s, c)
    \/ \E x \in sessions : Logout(x)
    \/ \E c \in channels, enabled \in BOOLEAN : SetEnabled(c, enabled)

Spec == Init /\ [][Next]_vars

-------------------------------------------------------------------------------
(* Properties.                                                             *)

(* Every variable has its type, and no row refers to one that is missing.  *)
TypeOK ==
    /\ clock \in 0 .. MaxClock /\ started \in Numbers
    /\ api.starts \in 0 .. MaxStarts /\ api.admits \subseteq Identifiers
    /\ requests \in [Slots -> Requests]
    /\ \A c \in challenges : c \in Challenges
    /\ \A u \in users : u \in Users
    /\ \A x \in sessions : \E u \in users : x.user = u.id
    /\ \A c \in channels : c \in Channels /\ \E u \in users : c.user = u.id

(* However requests overlap, fail, or are ended by a restart: an           *)
(* identifier has one user, and a session is that of the user who owns the *)
(* identifier it was opened with.                                          *)
SignInsRight ==
    /\ \A i \in Identifiers : Cardinality(Owners(i)) <= 1
    /\ \A x \in sessions : \E u \in Owners(x.identifier) : u.id = x.user

(* The limit of challenges counts and saves in two statements: requests    *)
(* that overlap may exceed it, each by itself, and no others.              *)
HourlyLimit ==
    \A i \in Identifiers, t \in 0 .. clock :
        Cardinality({c \in challenges : c.identifier = i /\ c.at \in t .. t + CountedFor - 1})
            < MaxChallenges + Cardinality(Slots)

(* A verification that has read a challenge may overlap with one that      *)
(* consumes it, and write back that it is open.  Once no verification      *)
(* holds such a copy, a consumed challenge stays so and opens no session.  *)
Held(c) == \E s \in Slots : /\ requests[s].challenge.id = c.id
                            /\ requests[s].step \in {"count_failure", "consume"}
ConsumedForGood ==
    [][\A c \in challenges :
          c.consumed /\ ~Held(c) =>
              /\ \E d \in challenges' : d.id = c.id /\ d.consumed
              /\ \A s \in Slots : requests'[s].challenge.id = c.id =>
                                    requests[s].challenge.id = c.id]_vars

(* The admin of a private deployment is one user, whichever of the         *)
(* configured identifiers logs in and whatever earlier deployments left:   *)
(* unless the provisioned user has another identifier of the same kind,    *)
(* which the provisioning does not replace.                                *)
AdminNeverForked ==
    api.up /\ api.private =>
        \A u \in UNION {Owners(i) : i \in api.admits}, i \in api.admits :
            \/ i \in Identified(u)
            \/ \E r \in UNION {Owners(k) : k \in api.admits} : ~(Identified(r) \subseteq api.admits)

(* A channel is what its acknowledged requests have made it: no request    *)
(* that overlaps with another loses the other's verification, its switch,  *)
(* or the code it has just sent, and one that fails leaves the channel     *)
(* and the code that was usable before.                                    *)
ChannelWritesKept ==
    /\ \A c \in channels :
          [channel |-> c.id, verified |-> c.verified, enabled |-> c.enabled, code |-> c.code] \in kept
    /\ Cardinality(channels) = Cardinality(kept)
    /\ \A c, d \in channels : c.user = d.user => c = d

===============================================================================
