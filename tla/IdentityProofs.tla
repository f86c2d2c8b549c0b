---------------------------- MODULE IdentityProofs ----------------------------
(***************************************************************************)
(* Theorems about Identity, for all sets of identifiers, any number of     *)
(* requests in progress and of starts of the API, and every limit.         *)
(*                                                                         *)
(* The invariants come in layers, each inductive given those before it:    *)
(* what the requests carry (Carried), the numbers that tell requests and   *)
(* users apart (RequestsApart, Registered), and, on top of these, the      *)
(* admin (AdminOne), channels (Contacts) and challenges (Challenged,       *)
(* Limited).                                                               *)
(***************************************************************************)
EXTENDS Identity, FiniteSetTheorems, TLAPS

(* The steps of a request that log somebody in, and those that hold a      *)
(* channel's row.                                                          *)
LoginSteps == {"save_challenge", "count_failure", "consume", "find_user", "save_user", "save_session"}
LockSteps == {"update_verified", "update_code"}

Known(id) == \E u \in users : u.id = id

(* What a request carries is still so: the API that accepted it is up, and *)
(* the rows it has read have not gone.                                     *)
Fine(r) ==
    r.step # "none" =>
        /\ api.up /\ r.no \in 1 .. started
        /\ r.step \in LoginSteps => r.identifier \in api.admits
        /\ r.step = "save_session" => \E u \in users : u.id = r.user.id /\ r.identifier \in Identified(u)
        /\ r.step = "save_channel" => Known(r.user.id)
        /\ r.step \in LockSteps => Known(r.channel.user)

Apis == [up : BOOLEAN, starts : 0 .. MaxStarts, private : BOOLEAN, admits : SUBSET Identifiers]

Carried ==
    /\ TypeOK
    /\ api \in Apis
    /\ \A s \in Slots : Fine(requests[s])

-------------------------------------------------------------------------------
(* Rows.                                                                   *)

(* The empty rows have their types.                                        *)
LEMMA EmptyRows ==
    /\ 0 \in Numbers /\ NoChallenge \in Challenges /\ NoUser \in Users /\ NoChannel \in Channels
    /\ NoRequest \in Requests /\ NoRequest.step = "none" /\ NoRequest.challenge.id = 0
<1>1. 0 \in Numbers /\ 0 \in 0 .. MaxClock /\ 0 \in 0 .. MaxVerifyAttempts
  BY IdentityAssumption DEF Numbers
<1>2. NoChallenge \in Challenges /\ NoChallenge.id = 0
  BY <1>1 DEF NoChallenge, Challenges
<1>3. NoUser \in Users /\ NoChannel \in Channels
  BY <1>1 DEF NoUser, Users, NoChannel, Channels
<1> QED BY <1>1, <1>2, <1>3 DEF NoRequest, Requests

(* Attaching keeps who a user is and what identifies it.                   *)
LEMMA AttachedIs ==
    ASSUME NEW u \in Users, NEW phone \in Phones \cup {None}, NEW email \in Emails \cup {None}
    PROVE  /\ Attached(u, phone, email) \in Users /\ Attached(u, phone, email).id = u.id
           /\ Identified(u) \subseteq Identified(Attached(u, phone, email))
           /\ Identified(Attached(u, phone, email)) \subseteq Identified(u) \cup ({phone, email} \ {None})
           /\ Attached(u, phone, email).phone = (IF u.phone = None THEN phone ELSE u.phone)
           /\ Attached(u, phone, email).email = (IF u.email = None THEN email ELSE u.email)
<1>1. /\ Attached(u, phone, email) \in Users /\ Attached(u, phone, email).id = u.id
      /\ Attached(u, phone, email).phone = (IF u.phone = None THEN phone ELSE u.phone)
      /\ Attached(u, phone, email).email = (IF u.email = None THEN email ELSE u.email)
  BY DEF Attached, Users
<1> QED BY <1>1 DEF Identified

-------------------------------------------------------------------------------
(* Steps.                                                                  *)

(* No step forgets a user, or one of a user's identifiers.                 *)
Grow == \A u \in users : \E v \in users' : v.id = u.id /\ Identified(u) \subseteq Identified(v)

(* What is fine of a request stays so while the users only grow.           *)
LEMMA FineStays ==
    ASSUME NEW r \in Requests, Fine(r), Grow, api' = api,
           started \in Nat, started' \in Nat, started <= started'
    PROVE  Fine(r)'
<1>1. r.no \in 1 .. started => r.no \in 1 .. started'
  OBVIOUS
<1>2. \A id : Known(id) => Known(id)'
  BY DEF Grow, Known
<1>3. ASSUME NEW i, NEW id, \E u \in users : u.id = id /\ i \in Identified(u)
      PROVE  \E u \in users' : u.id = id /\ i \in Identified(u)
  BY <1>3 DEF Grow
<1> QED BY <1>1, <1>2, <1>3, Zenon DEF Fine

(* A step of one request.                                                  *)
LEMMA SlotStep ==
    ASSUME Carried, NEW s \in Slots, NEW r \in Requests, requests' = [requests EXCEPT ![s] = r],
           Fine(r)', Grow, api' = api, started' \in Nat, started <= started'
    PROVE  requests' \in [Slots -> Requests] /\ \A v \in Slots : Fine(requests[v])'
<1>1. requests \in [Slots -> Requests] /\ started \in Nat /\ \A v \in Slots : Fine(requests[v])
  BY IdentityAssumption DEF Carried, TypeOK, Numbers
<1>2. requests' \in [Slots -> Requests]
  BY <1>1
<1>3. ASSUME NEW v \in Slots, v # s PROVE Fine(requests[v])'
  <2>1. requests'[v] = requests[v] /\ requests[v] \in Requests /\ Fine(requests[v])
    BY <1>1, <1>3
  <2>2. PICK row \in Requests : row = requests[v] /\ row = requests'[v]
    BY <2>1
  <2> QED BY <1>1, <2>1, <2>2, FineStays
<1>4. requests'[s] = r
  BY <1>1
<1> QED BY <1>2, <1>3, <1>4

(* Rows that are typed and belong to someone.                              *)
Recorded ==
    /\ \A c \in challenges : c \in Challenges
    /\ \A u \in users : u \in Users
    /\ \A x \in sessions : Known(x.user)
    /\ \A c \in channels : c \in Channels /\ Known(c.user)

(* Carried by its parts,                                                   *)
LEMMA Parts ==
    Carried <=> /\ clock \in 0 .. MaxClock /\ started \in Numbers /\ api \in Apis
                /\ requests \in [Slots -> Requests] /\ \A s \in Slots : Fine(requests[s])
                /\ Recorded
<1>1. api \in Apis => api.starts \in 0 .. MaxStarts /\ api.admits \subseteq Identifiers
  BY DEF Apis
<1> QED BY <1>1 DEF Carried, TypeOK, Recorded, Known

(* and the same of the next state.                                         *)
LEMMA CarriedNext ==
    ASSUME clock' \in 0 .. MaxClock, started' \in Numbers, api' \in Apis,
           requests' \in [Slots -> Requests], \A s \in Slots : Fine(requests[s])', Recorded'
    PROVE  Carried'
<1>1. api' \in Apis => api'.starts \in 0 .. MaxStarts /\ api'.admits \subseteq Identifiers
  BY DEF Apis
<1> QED BY <1>1 DEF Carried, TypeOK, Recorded, Known

(* Rows stay what they are when users are added or completed,              *)
LEMMA RecordedStays ==
    ASSUME Recorded, Grow, \A u \in users' : u \in Users,
           UNCHANGED <<challenges, sessions, channels>>
    PROVE  Recorded'
BY DEF Recorded, Known, Grow

(* or nothing is.                                                          *)
LEMMA RecordedSame ==
    ASSUME Recorded, UNCHANGED <<challenges, users, sessions, channels>>
    PROVE  Recorded'
BY DEF Recorded, Known

(* Users that stay have grown.                                             *)
LEMMA Same == ASSUME users' = users PROVE Grow
BY DEF Grow

(* A request is accepted.                                                  *)
LEMMA AcceptKeeps ==
    ASSUME Carried, NEW s \in Slots, NEW r \in Requests, Serving(s), Accept(s, r),
           \/ r.step \in LoginSteps \ {"save_session"} /\ r.identifier \in api.admits
           \/ r.step = "save_channel" /\ Known(r.user.id)
           \/ r.step \in LockSteps /\ Known(r.channel.user),
           UNCHANGED <<clock, api, logins, contacts>>
    PROVE  Carried'
<1>1. /\ clock \in 0 .. MaxClock /\ started \in Nat /\ started + 1 \in Numbers /\ started' = started + 1
      /\ api.up /\ clock' = clock /\ api' = api /\ users' = users
      /\ UNCHANGED <<challenges, sessions, channels>>
  BY IdentityAssumption DEF Carried, TypeOK, Numbers, Serving, Accept, logins, contacts
<1>2. PICK row : row = [r EXCEPT !.no = started + 1, !.at = clock]
  OBVIOUS
<1>3. /\ row \in Requests /\ row.step = r.step /\ row.identifier = r.identifier /\ row.user = r.user
      /\ row.channel = r.channel /\ row.no = started + 1
  BY <1>1, <1>2 DEF Requests
<1>4. requests' = [requests EXCEPT ![s] = row]
  BY <1>2 DEF Accept
<1>5. Fine(row)'
  <2>1. row.no \in 1 .. started' /\ api'.up
    BY <1>1, <1>3
  <2>2. (\A id : Known(id) => Known(id)') /\ row.step # "save_session"
    BY <1>1, <1>3 DEF Known, LoginSteps, LockSteps
  <2> QED BY <1>1, <1>3, <2>1, <2>2 DEF Fine, LoginSteps, LockSteps
<1>6. requests' \in [Slots -> Requests] /\ \A v \in Slots : Fine(requests[v])'
  <2>1. Grow /\ api' = api /\ started' \in Nat /\ started <= started'
    BY <1>1, Same
  <2> QED BY <1>3, <1>4, <1>5, <2>1, SlotStep
<1>7. Recorded'
  <2>1. Recorded
    BY Parts
  <2> QED BY <1>1, <2>1, RecordedSame
<1> QED BY <1>1, <1>6, <1>7, Parts, CarriedNext

(* A request goes on, writing nothing but perhaps a user, or ends.         *)
LEMMA ProceedKeeps ==
    ASSUME Carried, NEW s \in Slots, NEW r \in Requests, requests' = [requests EXCEPT ![s] = r],
           Fine(r)', Recorded', Grow, UNCHANGED <<clock, api, started>>
    PROVE  Carried'
<1>1. /\ clock' \in 0 .. MaxClock /\ started' \in Numbers /\ api' \in Apis /\ api' = api
      /\ started' \in Nat /\ started <= started'
  BY IdentityAssumption, Parts DEF Numbers
<1>2. requests' \in [Slots -> Requests] /\ \A v \in Slots : Fine(requests[v])'
  BY <1>1, SlotStep
<1> QED BY <1>1, <1>2, CarriedNext

(* The end of a request keeps everything else.                             *)
LEMMA FinishKeeps ==
    ASSUME Carried, NEW s \in Slots, Finish(s), Recorded', Grow, UNCHANGED <<clock, api, started>>
    PROVE  Carried'
<1>1. Fine(NoRequest)'
  BY EmptyRows DEF Fine
<1> QED BY <1>1, EmptyRows, ProceedKeeps DEF Finish

(* The requests stay as they are, while rows change.                       *)
LEMMA QuietKeeps ==
    ASSUME Carried, UNCHANGED <<requests, api, started>>, clock' \in 0 .. MaxClock, Recorded', Grow
    PROVE  Carried'
<1>1. started \in Numbers /\ api \in Apis /\ started \in Nat /\ requests \in [Slots -> Requests]
  BY IdentityAssumption, Parts DEF Numbers
<1>2. ASSUME NEW s \in Slots PROVE Fine(requests[s])'
  <2>1. PICK r \in Requests : r = requests[s]
    BY <1>1
  <2>2. Fine(r)
    BY <2>1, Parts
  <2> QED BY <1>1, <2>1, <2>2, FineStays
<1> QED BY <1>1, <1>2, CarriedNext

(* Each of the three databases is well formed.                             *)
LEMMA CarriedInit == Init => Carried
<1> SUFFICES ASSUME Init PROVE Carried
  OBVIOUS
<1>1. /\ clock \in 0 .. MaxClock /\ started \in Numbers
      /\ requests \in [Slots -> Requests] /\ \A s \in Slots : Fine(requests[s])
  BY IdentityAssumption, EmptyRows DEF Init, Numbers, Fine
<1>2. api \in Apis
  BY IdentityAssumption DEF Init, Apis
<1>3. Recorded
  <2>1. ASSUME NEW p \in Phones PROVE [id |-> -1, phone |-> p, email |-> None] \in Users
    BY DEF Users
  <2>2. PICK imported \in Channels :
           /\ imported = [NoChannel EXCEPT !.id = -1, !.user = -1, !.enabled = TRUE]
           /\ imported.user = -1
    <3>1. ASSUME NEW c \in Channels
          PROVE  /\ [c EXCEPT !.id = -1, !.user = -1, !.enabled = TRUE] \in Channels
                 /\ [c EXCEPT !.id = -1, !.user = -1, !.enabled = TRUE].user = -1
      <4>1. -1 \in Int /\ TRUE \in BOOLEAN
        OBVIOUS
      <4> QED BY <4>1 DEF Channels
    <3> QED BY <3>1, EmptyRows, Zenon
  <2>3. challenges = {}
    BY DEF Init
  <2>4. CASE users = {} /\ sessions = {} /\ channels = {}
    BY <2>3, <2>4 DEF Recorded
  <2>5. ASSUME NEW p \in Phones, users = {[id |-> -1, phone |-> p, email |-> None]},
               sessions = {[id |-> 0, user |-> -1, identifier |-> p]},
               channels \subseteq {imported}
        PROVE  Recorded
    <3>1. Known(-1)
      BY <2>5 DEF Known
    <3>2. \A u \in users : u \in Users
      BY <2>1, <2>5
    <3>3. \A x \in sessions : x.user = -1
      BY <2>5
    <3>4. \A c \in channels : c \in Channels /\ c.user = -1
      BY <2>2, <2>5
    <3> QED BY <2>3, <3>1, <3>2, <3>3, <3>4 DEF Recorded
  <2>6. \/ users = {} /\ sessions = {} /\ channels = {}
        \/ \E p \in Phones : /\ users = {[id |-> -1, phone |-> p, email |-> None]}
                             /\ sessions = {[id |-> 0, user |-> -1, identifier |-> p]}
                             /\ channels = {} \/ channels = {imported}
    BY <2>2, Zenon DEF Init
  <2> QED BY <2>4, <2>5, <2>6
<1> QED BY <1>1, <1>2, <1>3, Parts

(* The process starts with no request in progress, and ends those that are. *)
LEMMA RestartKeeps ==
    ASSUME Carried, NEW a \in Apis, api' = a, requests' \in [Slots -> Requests],
           \A s \in Slots : requests'[s].step = "none",
           Recorded', UNCHANGED <<clock, started>>
    PROVE  Carried'
<1>1. clock \in 0 .. MaxClock /\ started \in Numbers
  BY Parts
<1>2. \A s \in Slots : Fine(requests[s])'
  BY DEF Fine
<1> QED BY <1>1, <1>2, CarriedNext

(* So does the clock, a stop or start of the API, and a logout.            *)
LEMMA ProcessKeeps ==
    ASSUME Carried, \/ Tick \/ Stop \/ StartPublic \/ \E x \in sessions : Logout(x)
    PROVE  Carried'
<1>0. Recorded /\ api \in Apis /\ clock \in 0 .. MaxClock /\ requests \in [Slots -> Requests]
  BY Parts
<1>1. CASE Tick
  <2>1. clock' \in 0 .. MaxClock /\ UNCHANGED <<requests, api, started>>
        /\ UNCHANGED <<challenges, users, sessions, channels>>
    BY <1>0, <1>1, IdentityAssumption DEF Tick, logins, contacts
  <2> QED BY <1>0, <2>1, RecordedSame, Same, QuietKeeps
<1>2. CASE Stop
  <2>1. /\ UNCHANGED <<clock, started>> /\ UNCHANGED <<challenges, users, sessions, channels>>
        /\ requests' = [s \in Slots |-> NoRequest] /\ api' = [api EXCEPT !.up = FALSE]
    BY <1>2 DEF Stop, logins, contacts
  <2>2. [api EXCEPT !.up = FALSE] \in Apis
    BY <1>0 DEF Apis
  <2> QED BY <1>0, <2>1, <2>2, EmptyRows, RecordedSame, RestartKeeps
<1>3. CASE StartPublic
  <2>1. /\ UNCHANGED <<clock, started, requests>> /\ UNCHANGED <<challenges, users, sessions, channels>>
        /\ ~api.up /\ api' = [up |-> TRUE, starts |-> api.starts + 1, private |-> FALSE,
                              admits |-> Identifiers]
    BY <1>3 DEF StartPublic, Up, logins, contacts
  <2>2. api' \in Apis
    BY <1>0, <1>3, <2>1, IdentityAssumption DEF Apis, StartPublic
  <2>3. \A s \in Slots : requests[s].step = "none"
    BY <2>1, Parts DEF Fine
  <2> QED BY <1>0, <2>1, <2>2, <2>3, RecordedSame, RestartKeeps
<1>4. ASSUME NEW x \in sessions, Logout(x) PROVE Carried'
  <2>1. clock' = clock /\ UNCHANGED <<requests, api, started>> /\ UNCHANGED <<challenges, users, channels>>
        /\ sessions' \subseteq sessions
    BY <1>4 DEF Logout, contacts
  <2>2. Recorded'
    BY <1>0, <2>1 DEF Recorded, Known
  <2> QED BY <1>0, <2>1, <2>2, Same, QuietKeeps
<1> QED BY <1>1, <1>2, <1>3, <1>4

(* ProvisionAdminHandler: a new user, or one that exists with more         *)
(* identifiers.                                                            *)
LEMMA Provisioned ==
    ASSUME Recorded, api \in Apis,
           NEW phone \in Phones \cup {None}, NEW email \in Emails \cup {None}, Provision(phone, email)
    PROVE  \E u \in Users :
              \/ /\ Existing(phone, email) = {} /\ u.id = -2 - api.starts
                 /\ u.phone = phone /\ u.email = email /\ users' = users \cup {u}
              \/ \E v \in Existing(phone, email) :
                    /\ u = Attached(v, phone, email) /\ v \in users
                    /\ users' = (users \ {v}) \cup {u}
                    /\ \A r \in users : r.id # u.id => Identified(r) \cap Identified(u) = {}
<1>1. Existing(phone, email) \subseteq users /\ \A u \in users : u \in Users
  BY DEF Existing, Owners, Recorded
<1>2. CASE /\ Existing(phone, email) = {}
           /\ users' = users \cup {[id |-> -2 - api.starts, phone |-> phone, email |-> email]}
  <2>1. PICK u : u = [id |-> -2 - api.starts, phone |-> phone, email |-> email]
    OBVIOUS
  <2>2. -2 - api.starts \in Int
    BY IdentityAssumption DEF Apis
  <2>3. u \in Users /\ u.id = -2 - api.starts /\ u.phone = phone /\ u.email = email
    BY <2>1, <2>2 DEF Users
  <2> QED BY <1>2, <2>1, <2>3
<1>3. ASSUME NEW v \in Existing(phone, email),
             users' = (users \ {v}) \cup {Attached(v, phone, email)},
             ~ \E r \in users : /\ r.id # Attached(v, phone, email).id
                                /\ Identified(r) \cap Identified(Attached(v, phone, email)) # {}
      PROVE  \E u \in Users, w \in Existing(phone, email) :
                    /\ u = Attached(w, phone, email) /\ w \in users
                    /\ users' = (users \ {w}) \cup {u}
                    /\ \A r \in users : r.id # u.id => Identified(r) \cap Identified(u) = {}
  <2>1. PICK u : u = Attached(v, phone, email)
    OBVIOUS
  <2>2. u \in Users
    BY <1>1, <2>1, AttachedIs
  <2> QED BY <1>1, <1>3, <2>1, <2>2
<1> QED BY <1>2, <1>3 DEF Provision

(* The API's state once it has provisioned its admin.                      *)
LEMMA ProvisionUp ==
    ASSUME NEW phone \in Phones \cup {None}, NEW email \in Emails \cup {None},
           api \in Apis, Provision(phone, email)
    PROVE  /\ ~api.up /\ api' \in Apis /\ api'.up /\ api'.private /\ api'.starts = api.starts + 1
           /\ api'.admits = {phone, email} \ {None} /\ api'.admits # {}
           /\ UNCHANGED <<clock, started, requests, challenges, sessions, channels, kept>>
<1>1. api' = [up |-> TRUE, starts |-> api.starts + 1, private |-> TRUE, admits |-> {phone, email} \ {None}]
      /\ ~api.up /\ api.starts < MaxStarts /\ {phone, email} # {None}
  BY DEF Provision, Up
<1>2. {phone, email} \ {None} \subseteq Identifiers
  BY DEF Identifiers
<1>3. api' \in Apis
  BY <1>1, <1>2, IdentityAssumption DEF Apis
<1> QED BY <1>1, <1>3 DEF Provision, contacts

(* Provisioning the admin completes a user or adds one.                    *)
LEMMA ProvisionKeeps ==
    ASSUME Carried, NEW phone \in Phones \cup {None}, NEW email \in Emails \cup {None},
           Provision(phone, email)
    PROVE  Carried' /\ Grow
<1>1. Recorded /\ api \in Apis /\ requests \in [Slots -> Requests] /\ \A s \in Slots : Fine(requests[s])
  BY Parts
<1>2. Grow /\ \A u \in users' : u \in Users
  <2>1. \A v \in users : Identified(v) \subseteq Identified(Attached(v, phone, email))
                         /\ Attached(v, phone, email).id = v.id
    BY <1>1, AttachedIs DEF Recorded
  <2> QED BY <1>1, <2>1, Provisioned DEF Grow, Recorded
<1>3. Recorded'
  BY <1>1, <1>2, ProvisionUp, RecordedStays
<1>4. \A s \in Slots : requests'[s].step = "none"
  BY <1>1, ProvisionUp DEF Fine
<1>5. PICK a \in Apis : api' = a
  BY <1>1, ProvisionUp
<1> QED BY <1>1, <1>2, <1>3, <1>4, <1>5, ProvisionUp, RestartKeeps

(* The challenge a verification reads.                                     *)
LEMMA ActiveIs ==
    ASSUME NEW i \in Identifiers, NEW c \in ActiveChallenge(i)
    PROVE  c \in challenges /\ c.identifier = i
BY DEF ActiveChallenge, Newest

(* What is in the requests the handlers accept.                            *)
LEMMA AcceptedRows ==
    ASSUME Recorded, NEW s \in Slots
    PROVE  /\ \A i \in Identifiers : RequestChallenge(s, i) =>
                 \E r \in Requests : /\ Accept(s, r) /\ r.step = "save_challenge" /\ r.identifier = i
                                     /\ r.challenge.id = 0
           /\ \A i \in Identifiers, right \in BOOLEAN : VerifyLogin(s, i, right) =>
                 \E c \in challenges, r \in Requests :
                     /\ ~c.consumed /\ Accept(s, r) /\ r.step \in {"consume", "count_failure"}
                     /\ r.identifier = i
                     /\ r.challenge.id = c.id /\ r.challenge.identifier = c.identifier
                     /\ r.challenge.at = c.at
           /\ \A u \in users : AddChannel(s, u) =>
                 \E r \in Requests : /\ Accept(s, r) /\ r.step = "save_channel" /\ r.user = u
                                     /\ r.challenge.id = 0
           /\ \A c \in channels : ResendChannel(s, c) =>
                 \E r \in Requests : /\ Accept(s, r) /\ r.step = "update_code" /\ r.channel = c
                                     /\ r.challenge.id = 0
           /\ \A c \in channels : VerifyChannel(s, c) =>
                 \E r \in Requests : /\ Accept(s, r) /\ r.step = "update_verified"
                                     /\ r.channel = [c EXCEPT !.verified = TRUE] /\ r.challenge.id = 0
<1>0. Recorded /\ NoRequest \in Requests /\ NoRequest.challenge.id = 0
  BY EmptyRows
<1>1. ASSUME NEW i \in Identifiers, RequestChallenge(s, i)
      PROVE  \E r \in Requests : /\ Accept(s, r) /\ r.step = "save_challenge" /\ r.identifier = i
                                 /\ r.challenge.id = 0
  <2>1. PICK r : r = [NoRequest EXCEPT !.step = "save_challenge", !.identifier = i]
    OBVIOUS
  <2>2. r \in Requests /\ r.step = "save_challenge" /\ r.identifier = i /\ r.challenge.id = 0
    BY <1>0, <2>1 DEF Requests
  <2> QED BY <1>1, <2>1, <2>2 DEF RequestChallenge
<1>2. ASSUME NEW i \in Identifiers, NEW right \in BOOLEAN, VerifyLogin(s, i, right)
      PROVE  \E c \in challenges, r \in Requests :
                     /\ ~c.consumed /\ Accept(s, r) /\ r.step \in {"consume", "count_failure"}
                     /\ r.identifier = i
                     /\ r.challenge.id = c.id /\ r.challenge.identifier = c.identifier
                     /\ r.challenge.at = c.at
  <2>1. PICK c \in ActiveChallenge(i) :
           /\ Usable(c)
           /\ Accept(s, [NoRequest EXCEPT
                  !.step = IF right THEN "consume" ELSE "count_failure",
                  !.identifier = i,
                  !.challenge = IF right THEN [c EXCEPT !.consumed = TRUE]
                                               ELSE [c EXCEPT !.attempts = @ + 1]])
    BY <1>2 DEF VerifyLogin
  <2>2. PICK copy : copy = IF right THEN [c EXCEPT !.consumed = TRUE] ELSE [c EXCEPT !.attempts = @ + 1]
    OBVIOUS
  <2>3. /\ copy \in Challenges /\ copy.id = c.id /\ copy.identifier = c.identifier /\ copy.at = c.at
        /\ c \in challenges /\ ~c.consumed
    <3>1. c \in Challenges /\ c.attempts \in Nat /\ c.attempts < MaxVerifyAttempts /\ c \in challenges
          /\ ~c.consumed
      BY <1>0, <2>1, ActiveIs, IdentityAssumption DEF Recorded, Usable, Challenges
    <3>2. c.attempts + 1 \in 0 .. MaxVerifyAttempts
      BY <3>1, IdentityAssumption
    <3> QED BY <2>2, <3>1, <3>2 DEF Challenges
  <2>4. PICK step \in {"consume", "count_failure"} : step = IF right THEN "consume" ELSE "count_failure"
    OBVIOUS
  <2>5. PICK r : r = [NoRequest EXCEPT !.step = step, !.identifier = i, !.challenge = copy]
    OBVIOUS
  <2>6. r \in Requests /\ r.step = step /\ r.identifier = i /\ r.challenge = copy
    BY <1>0, <2>3, <2>5 DEF Requests
  <2>7. Accept(s, r)
    BY <2>1, <2>2, <2>4, <2>5
  <2> QED BY <2>3, <2>6, <2>7
<1>3. ASSUME NEW u \in users, AddChannel(s, u)
      PROVE  \E r \in Requests : /\ Accept(s, r) /\ r.step = "save_channel" /\ r.user = u
                                     /\ r.challenge.id = 0
  <2>1. PICK r : r = [NoRequest EXCEPT !.step = "save_channel", !.user = u]
    OBVIOUS
  <2>2. r \in Requests /\ r.step = "save_channel" /\ r.user = u /\ r.challenge.id = 0
    <3>1. u \in Users
      BY <1>0 DEF Recorded
    <3> QED BY <1>0, <2>1, <3>1 DEF Requests
  <2> QED BY <1>3, <2>1, <2>2 DEF AddChannel
<1>4. ASSUME NEW c \in channels, NEW row \in Channels, NEW step \in {"update_code", "update_verified"},
             Accept(s, [NoRequest EXCEPT !.step = step, !.channel = row])
      PROVE  \E r \in Requests : Accept(s, r) /\ r.step = step /\ r.channel = row /\ r.challenge.id = 0
  <2>1. PICK r : r = [NoRequest EXCEPT !.step = step, !.channel = row]
    OBVIOUS
  <2>2. r \in Requests /\ r.step = step /\ r.channel = row /\ r.challenge.id = 0
    BY <1>0, <2>1 DEF Requests
  <2> QED BY <1>4, <2>1, <2>2
<1>5. ASSUME NEW c \in channels, VerifyChannel(s, c)
      PROVE  \E r \in Requests : /\ Accept(s, r) /\ r.step = "update_verified"
                                 /\ r.channel = [c EXCEPT !.verified = TRUE] /\ r.challenge.id = 0
  <2>1. PICK row : row = [c EXCEPT !.verified = TRUE]
    OBVIOUS
  <2>2. row \in Channels
    BY <1>0, <2>1 DEF Recorded, Channels
  <2>3. Accept(s, [NoRequest EXCEPT !.step = "update_verified", !.channel = row])
    BY <1>5, <2>1 DEF VerifyChannel
  <2>4. \E r \in Requests : /\ Accept(s, r) /\ r.step = "update_verified" /\ r.channel = row
                            /\ r.challenge.id = 0
    BY <1>4, <2>2, <2>3
  <2> QED BY <2>1, <2>4
<1>6. ASSUME NEW c \in channels, ResendChannel(s, c)
      PROVE  \E r \in Requests : /\ Accept(s, r) /\ r.step = "update_code" /\ r.channel = c
                                 /\ r.challenge.id = 0
  BY <1>0, <1>4, <1>6 DEF ResendChannel, Recorded
<1> QED BY <1>1, <1>2, <1>3, <1>5, <1>6

(* RequestLoginChallengeHandler, VerifyLoginChallengeHandler and the       *)
(* channel handlers: a request is accepted.                                *)
LEMMA AcceptedKeeps ==
    ASSUME Carried, NEW s \in Slots,
           \/ \E i \in Identifiers : RequestChallenge(s, i) \/ \E right \in BOOLEAN : VerifyLogin(s, i, right)
           \/ \E u \in users : AddChannel(s, u)
           \/ \E c \in channels : ResendChannel(s, c) \/ VerifyChannel(s, c)
    PROVE  Carried'
<1>0. Recorded
  BY Parts
<1>1. ASSUME NEW i \in Identifiers, RequestChallenge(s, i) PROVE Carried'
  <2>1. PICK r \in Requests : Accept(s, r) /\ r.step = "save_challenge" /\ r.identifier = i
    BY <1>0, <1>1, AcceptedRows
  <2> QED BY <1>1, <2>1, AcceptKeeps DEF RequestChallenge, LoginSteps
<1>2. ASSUME NEW i \in Identifiers, NEW right \in BOOLEAN, VerifyLogin(s, i, right) PROVE Carried'
  <2>1. PICK r \in Requests : Accept(s, r) /\ r.step \in {"consume", "count_failure"} /\ r.identifier = i
    BY <1>0, <1>2, AcceptedRows
  <2> QED BY <1>2, <2>1, AcceptKeeps DEF VerifyLogin, LoginSteps
<1>3. ASSUME NEW u \in users, AddChannel(s, u) PROVE Carried'
  <2>1. PICK r \in Requests : Accept(s, r) /\ r.step = "save_channel" /\ r.user = u
    BY <1>0, <1>3, AcceptedRows
  <2>2. Known(u.id)
    BY DEF Known
  <2> QED BY <1>3, <2>1, <2>2, AcceptKeeps DEF AddChannel
<1>4. ASSUME NEW c \in channels, ResendChannel(s, c) PROVE Carried'
  <2>1. PICK r \in Requests : Accept(s, r) /\ r.step = "update_code" /\ r.channel = c
    BY <1>0, <1>4, AcceptedRows
  <2>2. Known(c.user)
    BY <1>0 DEF Recorded
  <2> QED BY <1>4, <2>1, <2>2, AcceptKeeps DEF ResendChannel, LockSteps
<1>5. ASSUME NEW c \in channels, VerifyChannel(s, c) PROVE Carried'
  <2>1. PICK r \in Requests : /\ Accept(s, r) /\ r.step = "update_verified"
                              /\ r.channel = [c EXCEPT !.verified = TRUE]
    BY <1>0, <1>5, AcceptedRows
  <2>2. Known(r.channel.user)
    BY <1>0, <2>1 DEF Recorded, Channels
  <2> QED BY <1>5, <2>1, <2>2, AcceptKeeps DEF VerifyChannel, LockSteps
<1> QED BY <1>1, <1>2, <1>3, <1>4, <1>5

(* The other steps of a login.                                             *)
LEMMA LoginKeeps ==
    ASSUME Carried, NEW s \in Slots,
           SaveChallenge(s) \/ UpdateChallenge(s) \/ FindUser(s) \/ SaveUser(s) \/ SaveSession(s)
    PROVE  Carried' /\ Grow
<1>0. /\ Recorded /\ requests \in [Slots -> Requests] /\ requests[s] \in Requests /\ Fine(requests[s])
      /\ started \in Nat /\ api \in Apis
  BY Parts, IdentityAssumption DEF Numbers
<1>1. CASE SaveChallenge(s)
  <2>1. /\ challenges' = challenges \cup
              {[id |-> requests[s].no, identifier |-> requests[s].identifier, at |-> requests[s].at,
                consumed |-> FALSE, attempts |-> 0]}
        /\ Finish(s) /\ UNCHANGED <<clock, api, started>> /\ UNCHANGED <<users, sessions, channels>>
    BY <1>1 DEF SaveChallenge, contacts
  <2>2. \A c \in challenges' : c \in Challenges
    <3>1. 0 \in 0 .. MaxVerifyAttempts
      BY IdentityAssumption
    <3>2. /\ requests[s].no \in Numbers /\ requests[s].identifier \in Identifiers \cup {None}
          /\ requests[s].at \in 0 .. MaxClock
      BY <1>0 DEF Requests
    <3>3. [id |-> requests[s].no, identifier |-> requests[s].identifier, at |-> requests[s].at,
           consumed |-> FALSE, attempts |-> 0] \in Challenges
      BY <3>1, <3>2 DEF Challenges
    <3> QED BY <1>0, <2>1, <3>3 DEF Recorded
  <2>3. Recorded'
    BY <1>0, <2>1, <2>2 DEF Recorded, Known
  <2> QED BY <2>1, <2>3, Same, FinishKeeps
<1>2. CASE UpdateChallenge(s)
  <2>1. /\ challenges' = {c \in challenges : c.id # requests[s].challenge.id} \cup {requests[s].challenge}
        /\ UNCHANGED <<clock, api, started>> /\ UNCHANGED <<users, sessions, channels>>
        /\ requests[s].step \in {"count_failure", "consume"}
        /\ IF requests[s].step = "consume" THEN Proceed(s, "find_user") ELSE Finish(s)
    BY <1>2 DEF UpdateChallenge, contacts
  <2>2. requests[s].challenge \in Challenges
    BY <1>0 DEF Requests
  <2>3. Recorded'
    BY <1>0, <2>1, <2>2 DEF Recorded, Known
  <2>4. CASE requests[s].step = "consume"
    <3>1. PICK r : r = [requests[s] EXCEPT !.step = "find_user"]
      OBVIOUS
    <3>2. /\ r \in Requests /\ r.step = "find_user" /\ r.no = requests[s].no
          /\ r.identifier = requests[s].identifier
      BY <1>0, <3>1 DEF Requests
    <3>3. Fine(r)'
      BY <1>0, <2>1, <2>4, <3>2 DEF Fine, LoginSteps, LockSteps
    <3>4. requests' = [requests EXCEPT ![s] = r]
      BY <1>0, <2>1, <2>4, <3>1 DEF Proceed
    <3> QED BY <2>1, <2>3, <3>2, <3>3, <3>4, Same, ProceedKeeps
  <2> QED BY <2>1, <2>3, <2>4, Same, FinishKeeps
<1>3. CASE FindUser(s)
  <2>1. /\ requests[s].step = "find_user"
        /\ UNCHANGED <<clock, api, started>> /\ UNCHANGED <<challenges, users, sessions, channels>>
    BY <1>3 DEF FindUser, logins, contacts
  <2>2. Recorded'
    BY <1>0, <2>1, RecordedSame
  <2>3. CASE Owners(requests[s].identifier) = {}
    <3>1. PICK r : r = [requests[s] EXCEPT !.step = "save_user"]
      OBVIOUS
    <3>2. /\ r \in Requests /\ r.step = "save_user" /\ r.no = requests[s].no
          /\ r.identifier = requests[s].identifier
      BY <1>0, <3>1 DEF Requests
    <3>3. Fine(r)'
      BY <1>0, <2>1, <3>2 DEF Fine, LoginSteps, LockSteps
    <3>4. requests' = [requests EXCEPT ![s] = r]
      BY <1>0, <1>3, <2>3, <3>1 DEF FindUser, Proceed
    <3> QED BY <2>1, <2>2, <3>2, <3>3, <3>4, Same, ProceedKeeps
  <2>4. CASE Owners(requests[s].identifier) # {}
    <3>1. PICK u \in users : /\ requests[s].identifier \in Identified(u)
                             /\ u = CHOOSE v \in Owners(requests[s].identifier) : TRUE
      BY <2>4 DEF Owners
    <3>2. PICK r : r = [requests[s] EXCEPT !.step = "save_session", !.user = u]
      OBVIOUS
    <3>3. /\ r \in Requests /\ r.step = "save_session" /\ r.no = requests[s].no /\ r.user = u
          /\ r.identifier = requests[s].identifier
      <4>1. u \in Users
        BY <1>0 DEF Recorded
      <4> QED BY <1>0, <3>2, <4>1 DEF Requests
    <3>4. Fine(r)'
      BY <1>0, <2>1, <3>1, <3>3 DEF Fine, LoginSteps, LockSteps
    <3>5. requests' = [requests EXCEPT ![s] = r]
      BY <1>0, <1>3, <2>4, <3>1, <3>2 DEF FindUser
    <3> QED BY <2>1, <2>2, <3>3, <3>4, <3>5, Same, ProceedKeeps
  <2> QED BY <2>1, <2>3, <2>4, Same
<1>4. CASE SaveUser(s)
  <2>1. /\ requests[s].step = "save_user"
        /\ UNCHANGED <<clock, api, started>> /\ UNCHANGED <<challenges, sessions, channels>>
    BY <1>4 DEF SaveUser, contacts
  <2>2. CASE Owners(requests[s].identifier) # {}
    <3>1. users' = users /\ Finish(s)
      BY <1>4, <2>2 DEF SaveUser
    <3>2. Recorded'
      BY <1>0, <2>1, <3>1, RecordedSame
    <3> QED BY <2>1, <3>1, <3>2, Same, FinishKeeps
  <2>3. CASE Owners(requests[s].identifier) = {}
    <3>1. PICK u : u = NewUser(s)
      OBVIOUS
    <3>2. u \in Users /\ u.id = requests[s].no /\ requests[s].identifier \in Identified(u)
      <4>1. requests[s].identifier \in Identifiers /\ requests[s].no \in Int
        BY <1>0, <2>1, IdentityAssumption DEF Fine, LoginSteps, Apis
      <4> QED BY <3>1, <4>1, IdentityAssumption DEF NewUser, Users, Identified, Identifiers
    <3>3. users' = users \cup {u} /\ requests' = [requests EXCEPT ![s].step = "save_session", ![s].user = u]
      BY <1>4, <2>3, <3>1 DEF SaveUser
    <3>4. PICK r : r = [requests[s] EXCEPT !.step = "save_session", !.user = u]
      OBVIOUS
    <3>5. /\ r \in Requests /\ r.step = "save_session" /\ r.no = requests[s].no /\ r.user = u
          /\ r.identifier = requests[s].identifier
      BY <1>0, <3>2, <3>4 DEF Requests
    <3>6. Fine(r)'
      BY <1>0, <2>1, <3>2, <3>3, <3>5 DEF Fine, LoginSteps, LockSteps
    <3>7. Grow
      BY <3>3 DEF Grow
    <3>8. Recorded'
      BY <1>0, <2>1, <3>2, <3>3, <3>7, RecordedStays DEF Recorded
    <3>9. requests' = [requests EXCEPT ![s] = r]
      BY <1>0, <3>3, <3>4
    <3> QED BY <2>1, <3>5, <3>6, <3>7, <3>8, <3>9, ProceedKeeps
  <2> QED BY <2>2, <2>3
<1>5. CASE SaveSession(s)
  <2>1. /\ sessions' = sessions \cup {[id |-> requests[s].no, user |-> requests[s].user.id,
                                       identifier |-> requests[s].identifier]}
        /\ Finish(s) /\ UNCHANGED <<clock, api, started>> /\ UNCHANGED <<challenges, users, channels>>
        /\ requests[s].step = "save_session"
    BY <1>5 DEF SaveSession, contacts
  <2>2. Known(requests[s].user.id)
    BY <1>0, <2>1 DEF Fine, Known
  <2>3. Recorded'
    BY <1>0, <2>1, <2>2 DEF Recorded, Known
  <2> QED BY <2>1, <2>3, Same, FinishKeeps
<1> QED BY <1>1, <1>2, <1>3, <1>4, <1>5, Same DEF SaveChallenge, UpdateChallenge, FindUser, SaveSession, logins

(* The other steps on channels, and any failure.                           *)
LEMMA ChannelStepsKeep ==
    ASSUME Carried, NEW s \in Slots,
           Fail(s) \/ SaveChannel(s) \/ UpdateCode(s) \/ UpdateVerified(s)
    PROVE  Carried'
<1>0. /\ Recorded /\ requests[s] \in Requests /\ Fine(requests[s])
      /\ requests[s].channel \in Channels /\ requests[s].no \in Numbers /\ requests[s].at \in 0 .. MaxClock
  <2>1. requests[s] \in Requests
    BY Parts
  <2> QED BY <2>1, Parts DEF Requests
<1>1. /\ Finish(s) /\ UNCHANGED <<clock, api, started>> /\ UNCHANGED <<challenges, users, sessions>>
  BY DEF Fail, SaveChannel, UpdateCode, UpdateVerified, logins
<1>2. CASE channels' = channels
  <2>1. Recorded'
    BY <1>0, <1>1, <1>2, RecordedSame
  <2> QED BY <1>1, <2>1, Same, FinishKeeps
<1>3. ASSUME NEW c \in Channels, Known(c.user), \A d \in channels' : d \in channels \/ d = c
      PROVE  Carried'
  <2>1. Recorded'
    BY <1>0, <1>1, <1>3 DEF Recorded, Known
  <2> QED BY <1>1, <2>1, Same, FinishKeeps
<1>4. CASE SaveChannel(s)
  <2>1. PICK c : c = [id |-> requests[s].no, user |-> requests[s].user.id, verified |-> FALSE,
                      enabled |-> TRUE, code |-> requests[s].no, at |-> requests[s].at]
    OBVIOUS
  <2>2. requests[s].no \in Int /\ requests[s].user.id \in Int
    BY <1>0, IdentityAssumption DEF Requests, Users, Numbers
  <2>3. c \in Channels /\ c.user = requests[s].user.id
    BY <1>0, <2>1, <2>2 DEF Channels
  <2>4. Known(c.user)
    BY <1>0, <1>4, <2>3 DEF Fine, SaveChannel
  <2>5. channels' = channels \/ channels' = channels \cup {c}
    BY <1>4, <2>1 DEF SaveChannel, contacts
  <2> QED BY <1>2, <1>3, <2>3, <2>4, <2>5
<1>5. CASE UpdateCode(s)
  <2>1. PICK c : c = [requests[s].channel EXCEPT !.code = requests[s].no, !.at = requests[s].at]
    OBVIOUS
  <2>2. c \in Channels /\ c.user = requests[s].channel.user
    BY <1>0, <2>1 DEF Channels
  <2>3. Known(c.user)
    BY <1>0, <1>5, <2>2 DEF Fine, UpdateCode, LockSteps
  <2>4. \A d \in channels' : d \in channels \/ d = c
    BY <1>5, <2>1 DEF UpdateCode, WriteBack
  <2> QED BY <1>3, <2>2, <2>3, <2>4
<1>6. CASE UpdateVerified(s)
  <2>1. Known(requests[s].channel.user)
    BY <1>0, <1>6 DEF Fine, UpdateVerified, LockSteps
  <2>2. \A d \in channels' : d \in channels \/ d = requests[s].channel
    BY <1>6 DEF UpdateVerified, WriteBack
  <2> QED BY <1>0, <1>3, <2>1, <2>2
<1>7. CASE Fail(s)
  BY <1>2, <1>7 DEF Fail, contacts
<1> QED BY <1>4, <1>5, <1>6, <1>7

(* Switching a channel on or off keeps the rows well formed.               *)
LEMMA SetEnabledKeeps ==
    ASSUME Carried, NEW c \in channels, NEW enabled \in BOOLEAN, SetEnabled(c, enabled)
    PROVE  Carried'
<1>0. Recorded /\ clock \in 0 .. MaxClock
  BY Parts
<1>1. PICK row : row = [c EXCEPT !.enabled = enabled]
  OBVIOUS
<1>2. row \in Channels /\ Known(row.user)
  BY <1>0, <1>1 DEF Recorded, Channels
<1>3. /\ UNCHANGED <<clock, requests, api, started>> /\ UNCHANGED <<challenges, users, sessions>>
      /\ \A d \in channels' : d \in channels \/ d = row
  BY <1>1 DEF SetEnabled, WriteBack, logins
<1>4. Recorded'
  BY <1>0, <1>2, <1>3 DEF Recorded, Known
<1> QED BY <1>0, <1>3, <1>4, Same, QuietKeeps

-------------------------------------------------------------------------------
(* Whatever fails or restarts, every row and request has its type, no row  *)
(* refers to one that is missing, and no user is forgotten.                *)
LEMMA NextCarries ==
    ASSUME Carried, [Next]_vars
    PROVE  Carried' /\ Grow
<1>1. ASSUME NEW phone \in Phones \cup {None}, NEW email \in Emails \cup {None}, Provision(phone, email)
      PROVE  Carried' /\ Grow
  BY <1>1, ProvisionKeeps
<1>2. ASSUME \/ Tick \/ Stop \/ StartPublic \/ \E x \in sessions : Logout(x) PROVE Carried' /\ Grow
  BY <1>2, ProcessKeeps, Same DEF Tick, Stop, StartPublic, Logout, logins
<1>3. ASSUME NEW s \in Slots,
             SaveChallenge(s) \/ UpdateChallenge(s) \/ FindUser(s) \/ SaveUser(s) \/ SaveSession(s)
      PROVE  Carried' /\ Grow
  BY <1>3, LoginKeeps
<1>4. ASSUME NEW s \in Slots,
             \/ \E i \in Identifiers : RequestChallenge(s, i) \/ \E right \in BOOLEAN : VerifyLogin(s, i, right)
             \/ \E u \in users : AddChannel(s, u)
             \/ \E c \in channels : ResendChannel(s, c) \/ VerifyChannel(s, c)
      PROVE  Carried' /\ Grow
  BY <1>4, AcceptedKeeps, Same DEF RequestChallenge, VerifyLogin, AddChannel, ResendChannel, VerifyChannel, logins
<1>5. ASSUME NEW s \in Slots, Fail(s) \/ SaveChannel(s) \/ UpdateCode(s) \/ UpdateVerified(s)
      PROVE  Carried' /\ Grow
  BY <1>5, ChannelStepsKeep, Same DEF Fail, SaveChannel, UpdateCode, UpdateVerified, logins
<1>6. ASSUME NEW c \in channels, NEW enabled \in BOOLEAN, SetEnabled(c, enabled) PROVE Carried' /\ Grow
  BY <1>6, SetEnabledKeeps, Same DEF SetEnabled, logins
<1>7. CASE UNCHANGED vars
  <2>1. /\ UNCHANGED <<clock, requests, api, started>> /\ UNCHANGED <<challenges, users, sessions, channels>>
        /\ clock \in 0 .. MaxClock /\ Recorded
    BY <1>7, Parts DEF vars
  <2> QED BY <2>1, Same, RecordedSame, QuietKeeps
<1> QED BY <1>1, <1>2, <1>3, <1>4, <1>5, <1>6, <1>7 DEF Next

-------------------------------------------------------------------------------
(* What one step makes of each request.                                    *)

(* The steps between a code that was right and the user it logs in.        *)
Registering == {"consume", "find_user", "save_user"}

RowStep(v) ==
    \/ requests'[v] = requests[v]
    \/ requests'[v] = NoRequest /\ requests'[v].step = "none"
    \/ /\ requests[v].step \in Registering
       /\ requests'[v].step \in {"find_user", "save_user", "save_session"}
       /\ requests'[v].no = requests[v].no /\ requests'[v].challenge = requests[v].challenge
    \/ /\ \/ /\ requests'[v].step = "save_challenge"
             /\ \E i \in Identifiers : RequestChallenge(v, i)
          \/ /\ requests'[v].step \in {"count_failure", "consume"}
             /\ \E i \in Identifiers, right \in BOOLEAN : VerifyLogin(v, i, right)
          \/ /\ requests'[v].step = "save_channel"
             /\ \E u \in users : AddChannel(v, u)
          \/ /\ requests'[v].step \in LockSteps
             /\ \E c \in channels : ResendChannel(v, c) \/ VerifyChannel(v, c)
       /\ requests'[v].no = started + 1 /\ requests'[v].at = clock
       /\ \A w \in Slots : w # v => requests'[w] = requests[w]

(* An accepted request has its own number.                                 *)
LEMMA AcceptRow ==
    ASSUME Carried, NEW s \in Slots, NEW r \in Requests, Accept(s, r)
    PROVE  /\ \A w \in Slots : w # s => requests'[w] = requests[w]
           /\ requests'[s].no = started + 1 /\ requests'[s].at = clock /\ started' = started + 1
           /\ requests'[s].step = r.step /\ requests'[s].identifier = r.identifier
           /\ requests'[s].challenge = r.challenge /\ requests'[s].channel = r.channel
<1>1. requests \in [Slots -> Requests] /\ clock \in 0 .. MaxClock
  BY Parts
<1>2. PICK row : row = [r EXCEPT !.no = started + 1, !.at = clock]
  OBVIOUS
<1>3. /\ row.no = started + 1 /\ row.at = clock /\ row.step = r.step /\ row.identifier = r.identifier
      /\ row.challenge = r.challenge /\ row.channel = r.channel
  BY <1>2 DEF Requests
<1>4. requests' = [requests EXCEPT ![s] = row] /\ started' = started + 1
  BY <1>2 DEF Accept
<1> QED BY <1>1, <1>3, <1>4

(* What one step may make of the request in a slot.                        *)
LEMMA RowSteps ==
    ASSUME Carried, [Next]_vars
    PROVE  \A v \in Slots : RowStep(v)
<1>0. Recorded /\ requests \in [Slots -> Requests] /\ NoRequest.step = "none"
  BY Parts, EmptyRows
<1>1. ASSUME requests' = requests PROVE \A v \in Slots : RowStep(v)
  BY <1>1 DEF RowStep
<1>2. ASSUME NEW s \in Slots, Finish(s) PROVE \A v \in Slots : RowStep(v)
  <2> TAKE v \in Slots
  <2>1. requests'[v] = requests[v] \/ requests'[v] = NoRequest
    BY <1>0, <1>2 DEF Finish
  <2> QED BY <1>0, <2>1, Zenon DEF RowStep
<1>3. ASSUME NEW s \in Slots, NEW r \in Requests, Accept(s, r),
             \/ r.step = "save_challenge" /\ \E i \in Identifiers : RequestChallenge(s, i)
             \/ /\ r.step \in {"count_failure", "consume"}
                /\ \E i \in Identifiers, right \in BOOLEAN : VerifyLogin(s, i, right)
             \/ r.step = "save_channel" /\ \E u \in users : AddChannel(s, u)
             \/ r.step \in LockSteps /\ \E c \in channels : ResendChannel(s, c) \/ VerifyChannel(s, c)
      PROVE  \A v \in Slots : RowStep(v)
  <2>1. RowStep(s)
    BY <1>3, AcceptRow, Zenon DEF RowStep
  <2>2. \A v \in Slots : v # s => requests'[v] = requests[v]
    BY <1>3, AcceptRow
  <2> QED BY <2>1, <2>2 DEF RowStep
<1>4. ASSUME NEW s \in Slots, NEW r \in Requests, requests' = [requests EXCEPT ![s] = r],
             requests[s].step \in Registering, r.step \in {"find_user", "save_user", "save_session"},
             r.no = requests[s].no, r.challenge = requests[s].challenge
      PROVE  \A v \in Slots : RowStep(v)
  <2> TAKE v \in Slots
  <2>1. requests'[v] = IF v = s THEN r ELSE requests[v]
    BY <1>0, <1>4
  <2> QED BY <1>4, <2>1 DEF RowStep
<1>5. ASSUME NEW s \in Slots, NEW step \in {"find_user", "save_user"}, Proceed(s, step),
             requests[s].step \in Registering
      PROVE  \A v \in Slots : RowStep(v)
  <2>1. PICK r : r = [requests[s] EXCEPT !.step = step]
    OBVIOUS
  <2>2. r \in Requests /\ r.step = step /\ r.no = requests[s].no /\ r.challenge = requests[s].challenge
    <3>1. requests[s] \in Requests
      BY <1>0
    <3> QED BY <2>1, <3>1 DEF Requests
  <2>3. requests' = [requests EXCEPT ![s] = r]
    BY <1>0, <1>5, <2>1 DEF Proceed
  <2> QED BY <1>4, <1>5, <2>2, <2>3
<1>6. ASSUME NEW s \in Slots, NEW u \in Users,
             requests' = [requests EXCEPT ![s].step = "save_session", ![s].user = u],
             requests[s].step \in Registering
      PROVE  \A v \in Slots : RowStep(v)
  <2>1. PICK r : r = [requests[s] EXCEPT !.step = "save_session", !.user = u]
    OBVIOUS
  <2>2. /\ r \in Requests /\ r.step = "save_session" /\ r.no = requests[s].no
        /\ r.challenge = requests[s].challenge
    <3>1. requests[s] \in Requests
      BY <1>0
    <3> QED BY <2>1, <3>1 DEF Requests
  <2>3. requests' = [requests EXCEPT ![s] = r]
    BY <1>0, <1>6, <2>1
  <2> QED BY <1>4, <1>6, <2>2, <2>3
<1>7. ASSUME NEW s \in Slots, FindUser(s) PROVE \A v \in Slots : RowStep(v)
  <2>1. CASE Owners(requests[s].identifier) = {}
    BY <1>5, <1>7, <2>1 DEF FindUser, Registering
  <2>2. CASE Owners(requests[s].identifier) # {}
    <3>1. PICK u \in Users : u = CHOOSE v \in Owners(requests[s].identifier) : TRUE
      BY <1>0, <2>2 DEF Owners, Recorded
    <3> QED BY <1>6, <1>7, <2>2, <3>1 DEF FindUser, Registering
  <2> QED BY <2>1, <2>2
<1>8. ASSUME NEW s \in Slots, SaveUser(s) PROVE \A v \in Slots : RowStep(v)
  <2>1. CASE Owners(requests[s].identifier) # {}
    BY <1>2, <1>8, <2>1 DEF SaveUser
  <2>2. CASE Owners(requests[s].identifier) = {}
    <3>1. NewUser(s) \in Users
      <4>1. requests[s].no \in Int /\ requests[s].identifier \in Identifiers
        BY <1>0, <1>8, Parts, IdentityAssumption DEF Fine, SaveUser, LoginSteps, Apis
      <4> QED BY <4>1 DEF NewUser, Users, Identifiers
    <3> QED BY <1>6, <1>8, <2>2, <3>1 DEF SaveUser, Registering
  <2> QED BY <2>1, <2>2
<1>9. ASSUME NEW s \in Slots,
             \/ \E i \in Identifiers : RequestChallenge(s, i) \/ \E right \in BOOLEAN : VerifyLogin(s, i, right)
             \/ \E u \in users : AddChannel(s, u)
             \/ \E c \in channels : ResendChannel(s, c) \/ VerifyChannel(s, c)
      PROVE  \A v \in Slots : RowStep(v)
  <2>1. ASSUME NEW i \in Identifiers, RequestChallenge(s, i) PROVE \A v \in Slots : RowStep(v)
    <3>1. PICK r \in Requests : Accept(s, r) /\ r.step = "save_challenge"
      BY <1>0, <2>1, AcceptedRows
    <3> QED BY <1>3, <2>1, <3>1
  <2>2. ASSUME NEW i \in Identifiers, NEW right \in BOOLEAN, VerifyLogin(s, i, right)
        PROVE  \A v \in Slots : RowStep(v)
    <3>1. PICK c \in challenges, r \in Requests : Accept(s, r) /\ r.step \in {"consume", "count_failure"}
      BY <1>0, <2>2, AcceptedRows
    <3> QED BY <1>3, <2>2, <3>1
  <2>3. ASSUME NEW u \in users, AddChannel(s, u) PROVE \A v \in Slots : RowStep(v)
    <3>1. PICK r \in Requests : Accept(s, r) /\ r.step = "save_channel"
      BY <1>0, <2>3, AcceptedRows
    <3> QED BY <1>3, <2>3, <3>1
  <2>4. ASSUME NEW c \in channels, ResendChannel(s, c) PROVE \A v \in Slots : RowStep(v)
    <3>1. PICK r \in Requests : Accept(s, r) /\ r.step = "update_code"
      BY <1>0, <2>4, AcceptedRows
    <3> QED BY <1>3, <2>4, <3>1 DEF LockSteps
  <2>5. ASSUME NEW c \in channels, VerifyChannel(s, c) PROVE \A v \in Slots : RowStep(v)
    <3>1. PICK r \in Requests : /\ Accept(s, r) /\ r.step = "update_verified"
                                /\ r.channel = [c EXCEPT !.verified = TRUE]
      BY <1>0, <2>5, AcceptedRows
    <3> QED BY <1>3, <2>5, <3>1 DEF LockSteps
  <2> QED BY <1>9, <2>1, <2>2, <2>3, <2>4, <2>5
<1>10. ASSUME NEW s \in Slots, UpdateChallenge(s) PROVE \A v \in Slots : RowStep(v)
  BY <1>2, <1>5, <1>10 DEF UpdateChallenge, Registering
<1>11. CASE Stop
  <2>1. \A v \in Slots : requests'[v] = NoRequest
    BY <1>11 DEF Stop
  <2> QED BY <1>0, <2>1, Zenon DEF RowStep
<1>12. CASE \/ Tick \/ StartPublic \/ \E x \in sessions : Logout(x)
            \/ \E phone \in Phones \cup {None}, email \in Emails \cup {None} : Provision(phone, email)
            \/ \E c \in channels, enabled \in BOOLEAN : SetEnabled(c, enabled)
            \/ UNCHANGED vars
  BY <1>1, <1>12 DEF Tick, StartPublic, Logout, Provision, SetEnabled, vars
<1>13. ASSUME NEW s \in Slots, Fail(s) \/ SaveChallenge(s) \/ SaveSession(s) \/ SaveChannel(s)
                               \/ UpdateCode(s) \/ UpdateVerified(s)
       PROVE  \A v \in Slots : RowStep(v)
  BY <1>2, <1>13 DEF Fail, SaveChallenge, SaveSession, SaveChannel, UpdateCode, UpdateVerified
<1> QED BY <1>7, <1>8, <1>9, <1>10, <1>11, <1>12, <1>13 DEF Next

(* Numbers are given out once.                                             *)
LEMMA StartedGrows ==
    ASSUME Carried, [Next]_vars
    PROVE  /\ started \in Nat /\ started' \in Nat /\ started <= started'
           /\ \A v \in Slots : requests'[v].step # "none" => requests'[v].no \in 1 .. started'
<1>1. Carried'
  BY NextCarries
<1>2. started \in Nat /\ started' \in Nat
  BY <1>1, IdentityAssumption DEF Carried, TypeOK, Numbers
<1>3. \A v \in Slots : requests'[v].step # "none" => requests'[v].no \in 1 .. started'
  BY <1>1 DEF Carried, Fine
<1>4. started' = started \/ started' = started + 1
  <2>1. ASSUME NEW s \in Slots,
               \/ Fail(s) \/ SaveChallenge(s) \/ UpdateChallenge(s) \/ FindUser(s) \/ SaveUser(s)
               \/ SaveSession(s) \/ SaveChannel(s) \/ UpdateCode(s) \/ UpdateVerified(s)
        PROVE  started' = started
    BY <2>1 DEF Fail, SaveChallenge, UpdateChallenge, FindUser, SaveUser, SaveSession, SaveChannel,
                UpdateCode, UpdateVerified
  <2>2. ASSUME NEW s \in Slots,
               \/ \E i \in Identifiers : RequestChallenge(s, i) \/ \E right \in BOOLEAN : VerifyLogin(s, i, right)
               \/ \E u \in users : AddChannel(s, u)
               \/ \E c \in channels : ResendChannel(s, c) \/ VerifyChannel(s, c)
        PROVE  started' = started + 1
    BY <2>2 DEF RequestChallenge, VerifyLogin, AddChannel, ResendChannel, VerifyChannel, Accept
  <2>3. ASSUME \/ Tick \/ Stop \/ StartPublic \/ \E x \in sessions : Logout(x)
               \/ \E phone \in Phones \cup {None}, email \in Emails \cup {None} : Provision(phone, email)
               \/ \E c \in channels, enabled \in BOOLEAN : SetEnabled(c, enabled)
               \/ UNCHANGED vars
        PROVE  started' = started
    BY <2>3 DEF Tick, Stop, StartPublic, Logout, Provision, SetEnabled, vars
  <2> QED BY <2>1, <2>2, <2>3, Zenon DEF Next
<1> QED BY <1>2, <1>3, <1>4

(* No two requests have one number, from which they take the ids of their  *)
(* rows.                                                                   *)
RequestsApart ==
    \A s, v \in Slots : requests[s].step # "none" /\ requests[v].step # "none"
                        /\ requests[s].no = requests[v].no => s = v

(* A number is given out once.                                             *)
LEMMA RequestsStayApart ==
    ASSUME Carried, RequestsApart, [Next]_vars
    PROVE  RequestsApart'
<1> SUFFICES ASSUME NEW s \in Slots, NEW v \in Slots, requests'[s].step # "none",
                    requests'[v].step # "none", requests'[s].no = requests'[v].no, s # v
             PROVE  FALSE
  BY DEF RequestsApart
<1>1. RowStep(s) /\ RowStep(v)
  BY RowSteps
<1>2. \A w \in Slots : requests[w].step # "none" => requests[w].no \in 1 .. started
  BY Parts DEF Fine
<1>3. started \in Nat
  BY StartedGrows
<1> QED BY <1>1, <1>2, <1>3 DEF RowStep, RequestsApart, Registering

-------------------------------------------------------------------------------
(* Sign-ins.  Users have their own ids, which no request that may yet      *)
(* register one can reuse, and their own identifiers.                      *)

(* No two users have an id or an identifier in common.                     *)
UsersApart == \A u, v \in users : u.id = v.id \/ Identified(u) \cap Identified(v) # {} => u = v

UserNumbered(u) ==
    /\ u.id <= started /\ u.id >= -1 - api.starts
    /\ \A s \in Slots : requests[s].step \in Registering => requests[s].no # u.id

SessionRight(x) == \E u \in users : u.id = x.user /\ x.identifier \in Identified(u)

Registered ==
    /\ UsersApart
    /\ \A u \in users : UserNumbered(u)
    /\ \A x \in sessions : SessionRight(x)

(* How the users change.                                                   *)
LEMMA UsersSteps ==
    ASSUME [Next]_vars
    PROVE  \/ users' = users
           \/ \E phone \in Phones \cup {None}, email \in Emails \cup {None} : Provision(phone, email)
           \/ \E s \in Slots : SaveUser(s) /\ Owners(requests[s].identifier) = {}
BY Zenon DEF Next, vars, Tick, Stop, StartPublic, Fail, RequestChallenge, VerifyLogin,
         SaveChallenge, UpdateChallenge, FindUser, SaveUser, SaveSession, Logout, AddChannel,
         SaveChannel, ResendChannel, UpdateCode, VerifyChannel, UpdateVerified, SetEnabled, logins

(* What a request registers.                                               *)
LEMMA NewUserIs ==
    ASSUME Carried, NEW s \in Slots, SaveUser(s), Owners(requests[s].identifier) = {}
    PROVE  /\ users' = users \cup {NewUser(s)} /\ NewUser(s) \in Users
           /\ NewUser(s).id = requests[s].no /\ Identified(NewUser(s)) = {requests[s].identifier}
           /\ requests[s].identifier \in api.admits /\ requests[s].no \in 1 .. started /\ api.up
           /\ UNCHANGED <<api, started, sessions>>
           /\ requests[s].step \in Registering /\ requests'[s].step \notin Registering
<1>0. Fine(requests[s]) /\ requests[s].step = "save_user" /\ api \in Apis /\ started \in Nat
      /\ requests \in [Slots -> Requests]
  BY Parts, IdentityAssumption DEF SaveUser, Numbers
<1>1. requests[s].identifier \in api.admits /\ requests[s].no \in 1 .. started /\ api.up
      /\ requests[s].identifier \in Identifiers /\ requests[s].no \in Int
  BY <1>0 DEF Fine, LoginSteps, Apis
<1>2. /\ NewUser(s).id = requests[s].no /\ NewUser(s) \in Users
      /\ NewUser(s).phone = (IF requests[s].identifier \in Phones THEN requests[s].identifier ELSE None)
      /\ NewUser(s).email = (IF requests[s].identifier \in Emails THEN requests[s].identifier ELSE None)
  BY <1>1 DEF NewUser, Users
<1>3. Identified(NewUser(s)) = {requests[s].identifier}
  BY <1>1, <1>2, IdentityAssumption DEF Identified, Identifiers
<1>4. requests' = [requests EXCEPT ![s].step = "save_session", ![s].user = NewUser(s)]
  BY DEF SaveUser
<1>5. requests'[s].step = "save_session"
  <2>1. PICK r : r = [requests[s] EXCEPT !.step = "save_session", !.user = NewUser(s)]
    OBVIOUS
  <2>2. r.step = "save_session"
    BY <1>0, <1>2, <2>1 DEF Requests
  <2> QED BY <1>0, <1>4, <2>1, <2>2
<1> QED BY <1>0, <1>1, <1>2, <1>3, <1>5 DEF SaveUser, Registering

(* A number once passed is passed for good.                                *)
LEMMA NumberedStays ==
    ASSUME Carried, [Next]_vars, NEW u \in Users, UserNumbered(u)
    PROVE  UserNumbered(u)'
<1>1. started \in Nat /\ started' \in Nat /\ started <= started' /\ u.id \in Int
  BY StartedGrows DEF Users
<1>2. api.starts \in Nat /\ (api'.starts = api.starts \/ api'.starts = api.starts + 1)
  <2>1. api.starts \in Nat
    BY IdentityAssumption DEF Carried, TypeOK
  <2>2. \/ UNCHANGED api
        \/ api' = [api EXCEPT !.up = FALSE]
        \/ \E private, admits : Up(private, admits)
    BY DEF Next, vars, Tick, Stop, StartPublic, Provision, Fail, RequestChallenge, VerifyLogin,
           SaveChallenge, UpdateChallenge, FindUser, SaveUser, SaveSession, Logout, AddChannel,
           SaveChannel, ResendChannel, UpdateCode, VerifyChannel, UpdateVerified, SetEnabled
  <2>3. ASSUME NEW private, NEW admits, Up(private, admits) PROVE api'.starts = api.starts + 1
    BY <2>3 DEF Up
  <2>4. CASE api' = [api EXCEPT !.up = FALSE]
    BY <2>4, Parts DEF Apis
  <2> QED BY <2>1, <2>2, <2>3, <2>4
<1>3. ASSUME NEW s \in Slots, requests'[s].step \in Registering PROVE requests'[s].no # u.id
  <2>1. RowStep(s)
    BY RowSteps
  <2> QED BY <1>1, <1>3, <2>1 DEF RowStep, UserNumbered, Registering
<1> QED BY <1>1, <1>2, <1>3 DEF UserNumbered

(* It holds of each database at the start.                                 *)
LEMMA RegisteredInit == Init => Registered
<1> SUFFICES ASSUME Init PROVE Registered
  OBVIOUS
<1>1. CASE users = {} /\ sessions = {}
  BY <1>1 DEF Registered, UsersApart
<1>2. ASSUME NEW p \in Phones, users = {[id |-> -1, phone |-> p, email |-> None]},
             sessions = {[id |-> 0, user |-> -1, identifier |-> p]}
      PROVE  Registered
  <2>1. PICK u : u = [id |-> -1, phone |-> p, email |-> None]
    OBVIOUS
  <2>2. u.id = -1 /\ p \in Identified(u) /\ users = {u}
    BY <1>2, <2>1, IdentityAssumption DEF Identified
  <2>3. UserNumbered(u)
    BY <2>2, EmptyRows DEF Init, UserNumbered, Registering
  <2>4. \A x \in sessions : SessionRight(x)
    BY <1>2, <2>2 DEF SessionRight
  <2> QED BY <2>2, <2>3, <2>4 DEF Registered, UsersApart
<1> QED BY <1>1, <1>2 DEF Init

(* The unique keys, and the look-up by both identifiers, keep users apart. *)
LEMMA UsersStayApart ==
    ASSUME Carried, RequestsApart, Registered, [Next]_vars
    PROVE  UsersApart' /\ \A u \in users' : UserNumbered(u)'
<1>0. Recorded /\ api \in Apis /\ started \in Nat /\ started' \in Nat
      /\ UsersApart /\ \A u \in users : u \in Users /\ UserNumbered(u) /\ UserNumbered(u)'
  <2>1. Recorded /\ api \in Apis
    BY Parts
  <2> QED BY <2>1, StartedGrows, NumberedStays DEF Registered, Recorded
<1>1. CASE users' = users
  BY <1>0, <1>1 DEF UsersApart
<1>2. ASSUME NEW phone \in Phones \cup {None}, NEW email \in Emails \cup {None}, Provision(phone, email)
      PROVE  UsersApart' /\ \A u \in users' : UserNumbered(u)'
  <2>0. /\ ~api.up /\ api'.starts = api.starts + 1 /\ UNCHANGED <<started, requests>>
        /\ \A s \in Slots : requests[s].step = "none"
    BY <1>0, <1>2, ProvisionUp, Parts DEF Fine
  <2>1. PICK u \in Users :
              \/ /\ Existing(phone, email) = {} /\ u.id = -2 - api.starts
                 /\ u.phone = phone /\ u.email = email /\ users' = users \cup {u}
              \/ \E v \in Existing(phone, email) :
                    /\ u = Attached(v, phone, email) /\ v \in users
                    /\ users' = (users \ {v}) \cup {u}
                    /\ \A r \in users : r.id # u.id => Identified(r) \cap Identified(u) = {}
    BY <1>0, <1>2, Provisioned
  <2>2. CASE /\ Existing(phone, email) = {} /\ u.id = -2 - api.starts
             /\ u.phone = phone /\ u.email = email /\ users' = users \cup {u}
    <3>1. Owners(phone) = {} /\ Owners(email) = {}
      BY <2>2 DEF Existing
    <3>2. \A r \in users : Identified(r) \cap Identified(u) = {}
      BY <2>2, <3>1 DEF Owners, Identified
    <3>3. api.starts \in Nat
      BY <1>0, IdentityAssumption DEF Apis
    <3>4. UserNumbered(u)'
      BY <1>0, <2>0, <2>2, <3>3 DEF UserNumbered, Registering
    <3>5. \A r \in users : r.id # u.id
      BY <1>0, <2>2, <3>3 DEF UserNumbered, Users
    <3> QED BY <1>0, <2>2, <3>2, <3>4, <3>5 DEF UsersApart
  <2>3. ASSUME NEW v \in users, u = Attached(v, phone, email), users' = (users \ {v}) \cup {u},
               \A r \in users : r.id # u.id => Identified(r) \cap Identified(u) = {}
        PROVE  UsersApart' /\ \A r \in users' : UserNumbered(r)'
    <3>1. u.id = v.id
      BY <1>0, <2>3, AttachedIs
    <3>2. UserNumbered(u)'
      BY <1>0, <3>1 DEF UserNumbered
    <3>3. \A r \in users \ {v} : r.id # u.id /\ Identified(r) \cap Identified(u) = {}
      BY <1>0, <2>3, <3>1 DEF UsersApart
    <3> QED BY <1>0, <2>3, <3>2, <3>3 DEF UsersApart
  <2> QED BY <2>1, <2>2, <2>3
<1>3. ASSUME NEW s \in Slots, SaveUser(s), Owners(requests[s].identifier) = {}
      PROVE  UsersApart' /\ \A u \in users' : UserNumbered(u)'
  <2>1. PICK u \in Users : u = NewUser(s) /\ u.id = requests[s].no
                           /\ Identified(u) = {requests[s].identifier} /\ users' = users \cup {u}
    BY <1>3, NewUserIs
  <2>2. \A r \in users : r.id # u.id /\ Identified(r) \cap Identified(u) = {}
    <3>1. requests[s].step \in Registering
      BY <1>3, NewUserIs
    <3> QED BY <1>0, <1>3, <2>1, <3>1 DEF UserNumbered, Owners
  <2>3. UserNumbered(u)'
    <3>1. /\ requests[s].no \in 1 .. started /\ started' = started /\ api' = api
          /\ requests[s].step \in Registering /\ requests'[s].step \notin Registering
      BY <1>3, NewUserIs
    <3>2. api.starts \in Nat
      BY <1>0, IdentityAssumption DEF Apis
    <3>3. ASSUME NEW v \in Slots, requests'[v].step \in Registering PROVE requests'[v].no # u.id
      <4>1. RowStep(v) /\ v # s
        BY <3>1, <3>3, RowSteps
      <4>2. requests[v].step # "none" => requests[v].no # requests[s].no
        BY <3>1, <4>1 DEF RequestsApart, Registering
      <4> QED BY <1>0, <2>1, <3>1, <3>3, <4>1, <4>2 DEF RowStep, Registering
    <3> QED BY <1>0, <2>1, <3>1, <3>2, <3>3 DEF UserNumbered
  <2> QED BY <1>0, <2>1, <2>2, <2>3 DEF UsersApart
<1> QED BY <1>1, <1>2, <1>3, UsersSteps

(* Sessions are opened for the user the identifier has led to.             *)
LEMMA SessionsStayRight ==
    ASSUME Carried, Registered, [Next]_vars
    PROVE  \A x \in sessions' : SessionRight(x)'
<1>1. Grow
  BY NextCarries
<1>2. \/ sessions' \subseteq sessions
      \/ \E s \in Slots :
            /\ requests[s].step = "save_session"
            /\ sessions' = sessions \cup {[id |-> requests[s].no, user |-> requests[s].user.id,
                                           identifier |-> requests[s].identifier]}
  BY Zenon DEF Next, vars, Tick, Stop, StartPublic, Provision, Fail, RequestChallenge, VerifyLogin,
           SaveChallenge, UpdateChallenge, FindUser, SaveUser, SaveSession, Logout, AddChannel,
           SaveChannel, ResendChannel, UpdateCode, VerifyChannel, UpdateVerified, SetEnabled, logins
<1>3. ASSUME NEW x, SessionRight(x) PROVE SessionRight(x)'
  BY <1>1, <1>3 DEF SessionRight, Grow
<1>4. ASSUME NEW s \in Slots, requests[s].step = "save_session"
      PROVE  SessionRight([id |-> requests[s].no, user |-> requests[s].user.id,
                           identifier |-> requests[s].identifier])
  <2>1. \E u \in users : u.id = requests[s].user.id /\ requests[s].identifier \in Identified(u)
    BY <1>4, Parts DEF Fine
  <2> QED BY <2>1 DEF SessionRight
<1> QED BY <1>2, <1>3, <1>4 DEF Registered

(* It says what SignInsRight says.                                         *)
LEMMA RegisteredIsRight == Registered => SignInsRight
<1> SUFFICES ASSUME Registered PROVE SignInsRight
  OBVIOUS
<1>1. ASSUME NEW i \in Identifiers PROVE Cardinality(Owners(i)) <= 1
  <2>1. CASE Owners(i) = {}
    BY <2>1, FS_EmptySet
  <2>2. CASE Owners(i) # {}
    <3>1. PICK u : u \in Owners(i)
      BY <2>2
    <3>2. Owners(i) = {u}
      BY <3>1 DEF Owners, Registered, UsersApart
    <3>3. Cardinality({u}) = 1
      BY FS_Singleton, Zenon
    <3>4. Cardinality(Owners(i)) = 1
      BY <3>2, <3>3
    <3> QED BY <3>4
  <2> QED BY <2>1, <2>2
<1>2. \A x \in sessions : \E u \in Owners(x.identifier) : u.id = x.user
  BY DEF Registered, SessionRight, Owners
<1> QED BY <1>1, <1>2 DEF SignInsRight

-------------------------------------------------------------------------------
(* The types, the references, and the numbers.                             *)
IdentityInv == Carried /\ RequestsApart /\ Registered

(* IdentityInv is an invariant.                                            *)
LEMMA IdentityInvariance == Spec => []IdentityInv
<1>1. Init => IdentityInv
  <2>1. Init => RequestsApart
    BY EmptyRows DEF Init, RequestsApart
  <2> QED BY <2>1, CarriedInit, RegisteredInit DEF IdentityInv
<1>2. IdentityInv /\ [Next]_vars => IdentityInv'
  BY NextCarries, RequestsStayApart, UsersStayApart, SessionsStayRight DEF IdentityInv, Registered
<1> QED BY <1>1, <1>2, PTL DEF Spec

(* Every variable keeps its type, whatever requests overlap, fail, or are  *)
(* ended by a restart, and no row refers to one that is missing.           *)
THEOREM IdentityTypes == Spec => []TypeOK
<1>1. IdentityInv => TypeOK
  BY DEF IdentityInv, Carried
<1> QED BY <1>1, IdentityInvariance, PTL

(* However logins overlap, fail or are ended by a restart: an identifier   *)
(* has one user, and a session is that of the user who owns the identifier *)
(* it was opened with.                                                     *)
THEOREM SignInsAreRight == Spec => []SignInsRight
<1>1. IdentityInv => SignInsRight
  BY RegisteredIsRight DEF IdentityInv
<1> QED BY <1>1, IdentityInvariance, PTL

-------------------------------------------------------------------------------
(* The admin of a private deployment: a user that has all the identifiers  *)
(* let in, or has one and another that provisioning did not replace.       *)

IsAdmin(u) ==
    /\ Identified(u) \cap api.admits # {}
    /\ api.admits \subseteq Identified(u) \/ ~(Identified(u) \subseteq api.admits)

AdminOne == api.up /\ api.private => \E u \in users : IsAdmin(u)

(* No step takes the admin away: identifiers are only added.               *)
LEMMA AdminOneStays ==
    ASSUME Carried, AdminOne, [Next]_vars
    PROVE  AdminOne'
<1>0. Recorded /\ api \in Apis /\ Grow
  BY Parts, NextCarries
<1>1. ASSUME NEW phone \in Phones \cup {None}, NEW email \in Emails \cup {None}, Provision(phone, email)
      PROVE  AdminOne'
  <2>0. api'.admits = {phone, email} \ {None} /\ api'.admits # {}
    BY <1>0, <1>1, ProvisionUp
  <2>1. PICK u \in Users :
              \/ u.phone = phone /\ u.email = email /\ users' = users \cup {u}
              \/ \E v \in Existing(phone, email) :
                    /\ u = Attached(v, phone, email) /\ v \in users /\ users' = (users \ {v}) \cup {u}
    BY <1>0, <1>1, Provisioned
  <2>2. CASE u.phone = phone /\ u.email = email
    BY <2>0, <2>1, <2>2 DEF AdminOne, IsAdmin, Identified
  <2>3. ASSUME NEW v \in Existing(phone, email), u = Attached(v, phone, email), v \in users,
               users' = (users \ {v}) \cup {u}
        PROVE  AdminOne'
    <3>1. v \in Users
      BY <1>0, <2>3 DEF Recorded
    <3>2. /\ Identified(v) \subseteq Identified(u)
          /\ u.phone = (IF v.phone = None THEN phone ELSE v.phone)
          /\ u.email = (IF v.email = None THEN email ELSE v.email)
      <4>1. Identified(v) \subseteq Identified(Attached(v, phone, email))
        BY <3>1, AttachedIs
      <4>2. Attached(v, phone, email).phone = (IF v.phone = None THEN phone ELSE v.phone)
        BY <3>1, AttachedIs
      <4>3. Attached(v, phone, email).email = (IF v.email = None THEN email ELSE v.email)
        BY <3>1, AttachedIs
      <4> QED BY <2>3, <4>1, <4>2, <4>3
    <3>3. Identified(v) \cap api'.admits # {}
      BY <2>0, <2>3 DEF Existing, Owners, Identified
    <3>4. CASE v.phone \notin {None, phone}
      <4>1. v.phone \in Identified(u) \ api'.admits
        BY <2>0, <3>1, <3>2, <3>4, IdentityAssumption DEF Users, Identified
      <4> QED BY <2>3, <3>2, <3>3, <4>1 DEF AdminOne, IsAdmin
    <3>5. CASE v.email \notin {None, email}
      <4>1. v.email \in Identified(u) \ api'.admits
        BY <2>0, <3>1, <3>2, <3>5, IdentityAssumption DEF Users, Identified
      <4> QED BY <2>3, <3>2, <3>3, <4>1 DEF AdminOne, IsAdmin
    <3>6. CASE v.phone \in {None, phone} /\ v.email \in {None, email}
      <4>1. api'.admits \subseteq Identified(u)
        BY <2>0, <3>2, <3>6 DEF Identified
      <4> QED BY <2>3, <3>2, <3>3, <4>1 DEF AdminOne, IsAdmin
    <3> QED BY <3>4, <3>5, <3>6
  <2> QED BY <2>1, <2>2, <2>3
<1>2. CASE api' = api
  BY <1>0, <1>2 DEF AdminOne, IsAdmin, Grow
<1>3. CASE ~api'.up \/ ~api'.private
  BY <1>3 DEF AdminOne
<1>4. \/ api' = api
      \/ ~api'.up \/ ~api'.private
      \/ \E phone \in Phones \cup {None}, email \in Emails \cup {None} : Provision(phone, email)
  <2>1. Stop => ~api'.up
    BY <1>0 DEF Stop, Apis
  <2>2. StartPublic => ~api'.private
    BY DEF StartPublic, Up
  <2> QED
    BY <2>1, <2>2, Zenon DEF Next, vars, Tick, Fail, RequestChallenge, VerifyLogin,
           SaveChallenge, UpdateChallenge, FindUser, SaveUser, SaveSession, Logout, AddChannel,
           SaveChannel, ResendChannel, UpdateCode, VerifyChannel, UpdateVerified, SetEnabled
<1> QED BY <1>1, <1>2, <1>3, <1>4

(* The admin of a private deployment is one user, whichever of the         *)
(* configured identifiers logs in and whatever earlier deployments left,   *)
(* unless it has another identifier that provisioning does not replace.    *)
THEOREM AdminIsNeverForked == Spec => []AdminNeverForked
<1>1. Init => AdminOne
  BY DEF Init, AdminOne
<1>2. IdentityInv /\ AdminOne /\ [Next]_vars => AdminOne'
  BY AdminOneStays DEF IdentityInv
<1>3. IdentityInv /\ AdminOne => AdminNeverForked
  <2> SUFFICES ASSUME UsersApart, NEW a \in users, IsAdmin(a),
                      NEW u \in UNION {Owners(i) : i \in api.admits}, NEW i \in api.admits,
                      i \notin Identified(u)
               PROVE  \E r \in UNION {Owners(k) : k \in api.admits} : ~(Identified(r) \subseteq api.admits)
    BY DEF IdentityInv, Registered, AdminOne, AdminNeverForked
  <2>1. PICK k \in api.admits : u \in users /\ k \in Identified(u)
    BY DEF Owners
  <2>2. ~(api.admits \subseteq Identified(a))
    BY <2>1 DEF UsersApart
  <2>3. ~(Identified(a) \subseteq api.admits) /\ \E j \in api.admits : a \in Owners(j)
    BY <2>2 DEF IsAdmin, Owners
  <2> QED BY <2>3
<1> QED BY <1>1, <1>2, <1>3, IdentityInvariance, PTL DEF Spec

-------------------------------------------------------------------------------
(* Channels.  What the acknowledged requests have made of the channels is  *)
(* what the table says, because a row that a request is to write back has  *)
(* changed for nobody else since the request locked and read it.           *)

KeptRow(c) == [channel |-> c.id, verified |-> c.verified, enabled |-> c.enabled, code |-> c.code]

ChannelsApart == \A c, d \in channels : c.id = d.id \/ c.user = d.user => c = d

(* A channel's id is none that a request will still use.                   *)
ChannelNumbered(c) ==
    /\ c.id <= started
    /\ \A s \in Slots : requests[s].step = "save_channel" => requests[s].no # c.id

(* The copy that r holds of the channel c.                                 *)
CopyOf(r, c) ==
    /\ r.channel.id = c.id /\ r.channel.user = c.user
    /\ r.channel.enabled = c.enabled /\ r.channel.code = c.code
    /\ r.step = "update_code" => r.channel.verified = c.verified
    /\ r.step = "update_verified" => r.channel.verified = TRUE

Holding(s) == requests[s].step \in LockSteps

LocksApart ==
    \A s, v \in Slots : Holding(s) /\ Holding(v) /\ requests[s].channel.id = requests[v].channel.id => s = v

Contacts ==
    /\ kept = {KeptRow(c) : c \in channels}
    /\ IsFiniteSet(channels) /\ ChannelsApart
    /\ \A c \in channels : ChannelNumbered(c)
    /\ \A s \in Slots : Holding(s) => \E c \in channels : CopyOf(requests[s], c)
    /\ LocksApart

(* How the channels change, and what locks are taken.                      *)
LEMMA ChannelsSteps ==
    ASSUME [Next]_vars
    PROVE  \/ UNCHANGED contacts
           \/ \E s \in Slots : SaveChannel(s) /\ ChannelOf(requests[s].user) = {}
           \/ \E s \in Slots : UpdateCode(s) \/ UpdateVerified(s)
           \/ \E c \in channels, enabled \in BOOLEAN : SetEnabled(c, enabled)
<1>1. ASSUME NEW s \in Slots,
             \/ Fail(s) \/ SaveChallenge(s) \/ UpdateChallenge(s) \/ FindUser(s) \/ SaveUser(s)
             \/ SaveSession(s)
             \/ \E i \in Identifiers : RequestChallenge(s, i) \/ \E right \in BOOLEAN : VerifyLogin(s, i, right)
             \/ \E u \in users : AddChannel(s, u)
             \/ \E c \in channels : ResendChannel(s, c) \/ VerifyChannel(s, c)
      PROVE  UNCHANGED contacts
  BY <1>1, Zenon DEF Fail, SaveChallenge, UpdateChallenge, FindUser, SaveUser, SaveSession,
                     RequestChallenge, VerifyLogin, AddChannel, ResendChannel, VerifyChannel
<1>2. ASSUME \/ Tick \/ Stop \/ StartPublic \/ \E x \in sessions : Logout(x)
             \/ \E phone \in Phones \cup {None}, email \in Emails \cup {None} : Provision(phone, email)
             \/ UNCHANGED vars
      PROVE  UNCHANGED contacts
  BY <1>2 DEF Tick, Stop, StartPublic, Logout, Provision, vars, contacts
<1>3. ASSUME NEW s \in Slots, SaveChannel(s)
      PROVE  UNCHANGED contacts \/ ChannelOf(requests[s].user) = {}
  BY <1>3, Zenon DEF SaveChannel
<1> QED BY <1>1, <1>2, <1>3, Zenon DEF Next

(* A request that has come to hold a row has found it unlocked, and holds  *)
(* a copy of it.                                                           *)
LEMMA LocksTaken ==
    ASSUME Carried, [Next]_vars, NEW v \in Slots, Holding(v)', requests'[v] # requests[v]
    PROVE  \E c \in channels : ~Locked(c.id) /\ CopyOf(requests'[v], c) /\ UNCHANGED contacts
<1>0. Recorded
  BY Parts
<1>1. ASSUME NEW c \in channels, ResendChannel(v, c)
      PROVE  ~Locked(c.id) /\ CopyOf(requests'[v], c) /\ UNCHANGED contacts
  <2>1. PICK r \in Requests : Accept(v, r) /\ r.step = "update_code" /\ r.channel = c
    BY <1>0, <1>1, AcceptedRows
  <2>2. requests'[v].step = "update_code" /\ requests'[v].channel = c
    BY <2>1, AcceptRow
  <2> QED BY <1>1, <2>2 DEF ResendChannel, CopyOf
<1>2. ASSUME NEW c \in channels, VerifyChannel(v, c)
      PROVE  ~Locked(c.id) /\ CopyOf(requests'[v], c) /\ UNCHANGED contacts
  <2>1. PICK r \in Requests : /\ Accept(v, r) /\ r.step = "update_verified"
                              /\ r.channel = [c EXCEPT !.verified = TRUE]
    BY <1>0, <1>2, AcceptedRows
  <2>2. requests'[v].step = "update_verified" /\ requests'[v].channel = [c EXCEPT !.verified = TRUE]
    BY <2>1, AcceptRow
  <2>3. c \in Channels
    BY <1>0 DEF Recorded
  <2> QED BY <1>2, <2>2, <2>3 DEF VerifyChannel, CopyOf, Channels
<1>3. \E c \in channels : ResendChannel(v, c) \/ VerifyChannel(v, c)
  <2>1. RowStep(v)
    BY RowSteps
  <2> QED BY <2>1 DEF RowStep, Holding, LockSteps
<1> QED BY <1>1, <1>2, <1>3

(* The channels at the start are as they were acknowledged.                *)
LEMMA ContactsInit == Init => Contacts
<1> SUFFICES ASSUME Init PROVE Contacts
  OBVIOUS
<1>1. \A s \in Slots : requests[s].step = "none"
  BY EmptyRows DEF Init
<1>2. (\A s \in Slots : ~Holding(s)) /\ LocksApart
  BY <1>1 DEF Holding, LockSteps, LocksApart
<1>3. CASE channels = {} /\ kept = {}
  BY <1>2, <1>3, FS_EmptySet DEF Contacts, ChannelsApart
<1>4. ASSUME NEW c, c = [NoChannel EXCEPT !.id = -1, !.user = -1, !.enabled = TRUE],
             channels = {c}, kept = {[channel |-> -1, verified |-> FALSE, enabled |-> TRUE, code |-> 0]}
      PROVE  Contacts
  <2>1. c.id = -1 /\ c.verified = FALSE /\ c.enabled = TRUE /\ c.code = 0
    <3>1. PICK n : n = NoChannel
      OBVIOUS
    <3>2. n.verified = FALSE /\ n.code = 0 /\ n \in Channels
      BY <3>1, EmptyRows DEF NoChannel
    <3> QED BY <1>4, <3>1, <3>2 DEF Channels
  <2>2. kept = {KeptRow(d) : d \in channels}
    BY <1>4, <2>1 DEF KeptRow
  <2>3. IsFiniteSet(channels)
    BY <1>4, FS_Singleton
  <2>4. ChannelNumbered(c)
    BY <1>1, <2>1 DEF Init, ChannelNumbered
  <2> QED BY <1>2, <1>4, <2>2, <2>3, <2>4 DEF Contacts, ChannelsApart
<1> QED BY <1>3, <1>4 DEF Init

(* While nothing is written, locks are taken of rows that no one holds.    *)
LEMMA ChannelNumberStays ==
    ASSUME Carried, [Next]_vars, NEW c \in Channels, ChannelNumbered(c)
    PROVE  ChannelNumbered(c)'
<1>1. started \in Nat /\ started' \in Nat /\ started <= started' /\ c.id \in Int
  BY StartedGrows DEF Channels
<1>2. ASSUME NEW s \in Slots, requests'[s].step = "save_channel" PROVE requests'[s].no # c.id
  <2>1. RowStep(s)
    BY RowSteps
  <2> QED BY <1>1, <1>2, <2>1 DEF RowStep, ChannelNumbered
<1> QED BY <1>1, <1>2 DEF ChannelNumbered

(* No two requests hold one row.                                           *)
LEMMA LocksStayApart ==
    ASSUME Carried, Contacts, [Next]_vars
    PROVE  LocksApart'
<1> SUFFICES ASSUME NEW s \in Slots, NEW v \in Slots, Holding(s)', Holding(v)',
                    requests'[s].channel.id = requests'[v].channel.id, s # v
             PROVE  FALSE
  BY DEF LocksApart, Holding
<1>1. ASSUME NEW w \in Slots, NEW x \in Slots, w # x, Holding(w)', requests'[w] # requests[w],
             requests'[x] = requests[x], Holding(x)',
             requests'[w].channel.id = requests'[x].channel.id
      PROVE  FALSE
  <2>1. PICK c \in channels : ~Locked(c.id) /\ CopyOf(requests'[w], c)
    BY <1>1, LocksTaken
  <2> QED BY <1>1, <2>1 DEF Locked, CopyOf, Holding, LockSteps
<1>2. requests'[s] = requests[s] \/ requests'[v] = requests[v]
  <2>1. RowStep(s)
    BY RowSteps
  <2> QED BY <2>1 DEF RowStep, Holding, LockSteps
<1>3. CASE requests'[s] = requests[s] /\ requests'[v] = requests[v]
  BY <1>3 DEF Contacts, LocksApart, Holding
<1> QED BY <1>1, <1>2, <1>3

(* Contacts stays true when no channel changes.                            *)
LEMMA QuietContacts ==
    ASSUME Carried, Contacts, [Next]_vars, UNCHANGED contacts
    PROVE  Contacts'
<1>1. channels' = channels /\ kept' = kept /\ \A c \in channels : c \in Channels
  BY Parts DEF contacts, Recorded
<1>2. \A c \in channels' : ChannelNumbered(c)'
  BY <1>1, ChannelNumberStays DEF Contacts
<1>3. ASSUME NEW s \in Slots, Holding(s)' PROVE \E c \in channels' : CopyOf(requests[s], c)'
  <2>1. CASE requests'[s] = requests[s]
    BY <1>1, <1>3, <2>1 DEF Contacts, Holding, CopyOf
  <2>2. CASE requests'[s] # requests[s]
    BY <1>1, <1>3, <2>2, LocksTaken DEF CopyOf
  <2> QED BY <2>1, <2>2
<1>4. kept' = {KeptRow(c) : c \in channels}' /\ IsFiniteSet(channels)' /\ ChannelsApart'
  BY <1>1 DEF Contacts, ChannelsApart
<1> QED BY <1>2, <1>3, <1>4, LocksStayApart DEF Contacts

(* A row is written back over the one it was read from.                    *)
LEMMA WriteContacts ==
    ASSUME Carried, Contacts, [Next]_vars, NEW c \in channels, NEW row \in Channels,
           row.id = c.id, row.user = c.user, WriteBack(row),
           kept' = {IF k.channel = c.id THEN KeptRow(row) ELSE k : k \in kept},
           \A s \in Slots : Holding(s)' => requests'[s] = requests[s] /\ requests[s].channel.id # c.id
    PROVE  Contacts'
<1>0. ChannelsApart /\ \A d \in channels : d \in Channels
  BY Parts DEF Recorded, Contacts
<1>1. channels' = (channels \ {c}) \cup {row}
  BY <1>0 DEF WriteBack, ChannelsApart
<1>2. kept' = {KeptRow(d) : d \in channels'}
  <2>1. kept = {KeptRow(d) : d \in channels}
    BY DEF Contacts
  <2>2. \A d \in channels : KeptRow(d).channel = d.id
    BY DEF KeptRow
  <2>3. kept' = {IF d.id = c.id THEN KeptRow(row) ELSE KeptRow(d) : d \in channels}
    BY <2>1, <2>2
  <2>4. \A d \in channels : d.id = c.id <=> d = c
    BY <1>0 DEF ChannelsApart
  <2> QED BY <1>1, <2>3, <2>4
<1>3. IsFiniteSet(channels') /\ ChannelsApart'
  <2>1. IsFiniteSet(channels \ {c})
    BY FS_RemoveElement DEF Contacts
  <2>2. IsFiniteSet(channels')
    BY <1>1, <2>1, FS_AddElement
  <2> QED BY <1>0, <1>1, <2>2 DEF ChannelsApart
<1>4. \A d \in channels' : ChannelNumbered(d)'
  <2>1. ChannelNumbered(row)
    BY DEF Contacts, ChannelNumbered
  <2> QED BY <1>0, <1>1, <2>1, ChannelNumberStays DEF Contacts
<1>5. ASSUME NEW s \in Slots, Holding(s)' PROVE \E d \in channels' : CopyOf(requests[s], d)'
  <2>1. PICK d \in channels : CopyOf(requests[s], d)
    BY <1>5 DEF Contacts, Holding
  <2>2. d \in channels'
    BY <1>1, <1>5, <2>1 DEF CopyOf
  <2> QED BY <1>5, <2>1, <2>2 DEF CopyOf
<1> QED BY <1>2, <1>3, <1>4, <1>5, LocksStayApart DEF Contacts

(* A channel has one row of the history.                                   *)
LEMMA KeptIs ==
    ASSUME Contacts, NEW c \in channels, NEW k \in kept, k.channel = c.id
    PROVE  k = KeptRow(c)
BY DEF Contacts, ChannelsApart, KeptRow

(* UpdateCode and UpdateVerified, at their commit.                         *)
LEMMA CommitContacts ==
    ASSUME Carried, Contacts, [Next]_vars, NEW s \in Slots, UpdateCode(s) \/ UpdateVerified(s)
    PROVE  Contacts'
<1>0. /\ Recorded /\ requests \in [Slots -> Requests] /\ requests[s] \in Requests
      /\ requests[s].channel \in Channels /\ requests[s].no \in Numbers /\ requests[s].at \in 0 .. MaxClock
  <2>1. requests[s] \in Requests
    BY Parts
  <2> QED BY <2>1, Parts DEF Requests
<1>1. Holding(s) /\ Finish(s)
  BY DEF UpdateCode, UpdateVerified, Holding, LockSteps
<1>2. PICK c \in channels : CopyOf(requests[s], c)
  BY <1>1 DEF Contacts
<1>3. ASSUME NEW v \in Slots, Holding(v)'
      PROVE  requests'[v] = requests[v] /\ requests[v].channel.id # c.id
  <2>1. requests' = [requests EXCEPT ![s] = NoRequest]
    BY <1>1 DEF Finish
  <2>2. requests'[s].step = "none"
    BY <1>0, <2>1, EmptyRows
  <2>3. v # s
    BY <1>3, <2>2 DEF Holding, LockSteps
  <2>4. requests'[v] = requests[v] /\ Holding(v)
    BY <1>0, <1>3, <2>1, <2>3 DEF Holding
  <2> QED BY <1>1, <1>2, <2>3, <2>4 DEF Contacts, LocksApart, CopyOf
<1>4. CASE UpdateCode(s)
  <2>1. PICK row : row = [requests[s].channel EXCEPT !.code = requests[s].no, !.at = requests[s].at]
    OBVIOUS
  <2>2. /\ row \in Channels /\ row.id = c.id /\ row.user = c.user /\ row.code = requests[s].no
        /\ row.enabled = c.enabled /\ row.verified = c.verified
    BY <1>0, <1>2, <1>4, <2>1 DEF Channels, CopyOf, UpdateCode
  <2>3. \A k \in kept : k.channel = c.id => [k EXCEPT !["code"] = requests[s].no] = KeptRow(row)
    BY <2>2, KeptIs DEF KeptRow
  <2>4. WriteBack(row)
    BY <1>2, <1>4, <2>1 DEF UpdateCode
  <2>5. kept' = {IF k.channel = c.id THEN [k EXCEPT !["code"] = requests[s].no] ELSE k : k \in kept}
    BY <1>2, <2>1, <2>2, <1>4 DEF UpdateCode, Told, CopyOf
  <2>6. kept' = {IF k.channel = c.id THEN KeptRow(row) ELSE k : k \in kept}
    BY <2>3, <2>5
  <2> QED BY <1>3, <2>2, <2>4, <2>6, WriteContacts
<1>5. CASE UpdateVerified(s)
  <2>1. PICK row \in Channels : row = requests[s].channel
    BY <1>0
  <2>2. /\ row.id = c.id /\ row.user = c.user /\ row.code = c.code /\ row.enabled = c.enabled
        /\ row.verified = TRUE
    BY <1>2, <1>5, <2>1 DEF CopyOf, UpdateVerified
  <2>3. \A k \in kept : k.channel = c.id => [k EXCEPT !["verified"] = row.verified] = KeptRow(row)
    BY <2>2, KeptIs DEF KeptRow
  <2>4. WriteBack(row)
    BY <1>5, <2>1 DEF UpdateVerified
  <2>5. kept' = {IF k.channel = c.id THEN [k EXCEPT !["verified"] = row.verified] ELSE k : k \in kept}
    <3>1. kept' = {IF k.channel = c.id THEN [k EXCEPT !["verified"] = TRUE] ELSE k : k \in kept}
      BY <1>2, <2>1, <2>2, <1>5 DEF UpdateVerified, Told, CopyOf
    <3> QED BY <2>2, <3>1, Zenon
  <2>6. kept' = {IF k.channel = c.id THEN KeptRow(row) ELSE k : k \in kept}
    BY <2>3, <2>5
  <2> QED BY <1>3, <2>1, <2>2, <2>4, <2>6, WriteContacts
<1> QED BY <1>4, <1>5

(* SetChannelEnabledHandler writes a row that no one has locked.           *)
LEMMA SwitchContacts ==
    ASSUME Carried, Contacts, [Next]_vars, NEW c \in channels, NEW enabled \in BOOLEAN,
           SetEnabled(c, enabled)
    PROVE  Contacts'
<1>1. c \in Channels
  BY Parts DEF Recorded
<1>2. PICK row : row = [c EXCEPT !.enabled = enabled]
  OBVIOUS
<1>3. /\ row \in Channels /\ row.id = c.id /\ row.user = c.user /\ row.code = c.code
      /\ row.enabled = enabled /\ row.verified = c.verified
  BY <1>1, <1>2 DEF Channels
<1>4. \A k \in kept : k.channel = c.id => [k EXCEPT !["enabled"] = enabled] = KeptRow(row)
  BY <1>3, KeptIs DEF KeptRow
<1>5. WriteBack(row) /\ kept' = {IF k.channel = c.id THEN [k EXCEPT !["enabled"] = enabled] ELSE k : k \in kept}
  BY <1>2 DEF SetEnabled, Told
<1>6. kept' = {IF k.channel = c.id THEN KeptRow(row) ELSE k : k \in kept}
  BY <1>4, <1>5
<1>7. \A s \in Slots : Holding(s)' => requests'[s] = requests[s] /\ requests[s].channel.id # c.id
  BY DEF SetEnabled, Locked, Holding, LockSteps
<1> QED BY <1>3, <1>5, <1>6, <1>7, WriteContacts

(* AddChannelHandler saves a row with a number and a user of its own.      *)
LEMMA AddContacts ==
    ASSUME Carried, RequestsApart, Contacts, [Next]_vars, NEW s \in Slots, SaveChannel(s),
           ChannelOf(requests[s].user) = {}
    PROVE  Contacts'
<1>0. /\ Recorded /\ requests \in [Slots -> Requests] /\ requests[s] \in Requests
      /\ requests[s].user.id \in Int /\ requests[s].no \in 1 .. started /\ started \in Nat
      /\ started' = started /\ requests[s].step = "save_channel" /\ Finish(s)
  <2>1. requests[s] \in Requests
    BY Parts
  <2> QED BY <2>1, Parts, StartedGrows DEF Requests, Users, SaveChannel, Fine
<1>1. PICK c : c = [id |-> requests[s].no, user |-> requests[s].user.id, verified |-> FALSE,
                    enabled |-> TRUE, code |-> requests[s].no, at |-> requests[s].at]
  OBVIOUS
<1>2. /\ c.id = requests[s].no /\ c.user = requests[s].user.id /\ c.verified = FALSE /\ c.enabled = TRUE
      /\ c.code = requests[s].no
  BY <1>1
<1>3. channels' = channels \cup {c} /\ kept' = kept \cup {KeptRow(c)}
  BY <1>1, <1>2 DEF SaveChannel, KeptRow
<1>4. kept' = {KeptRow(d) : d \in channels'}
  BY <1>3 DEF Contacts
<1>5. IsFiniteSet(channels')
  BY <1>3, FS_AddElement DEF Contacts
<1>6. \A d \in channels : d.id # c.id /\ d.user # c.user
  BY <1>0, <1>2 DEF Contacts, ChannelNumbered, ChannelOf
<1>7. ChannelsApart'
  <2>1. ChannelsApart
    BY DEF Contacts
  <2> QED BY <1>3, <1>6, <2>1 DEF ChannelsApart
<1>8. requests' = [requests EXCEPT ![s] = NoRequest] /\ NoRequest.step = "none"
  BY <1>0, EmptyRows DEF Finish
<1>9. \A d \in channels' : ChannelNumbered(d)'
  <2>1. ASSUME NEW v \in Slots, requests'[v].step = "save_channel"
        PROVE  requests[v].no # c.id /\ requests'[v] = requests[v]
    <3>1. v # s /\ requests'[v] = requests[v]
      BY <1>0, <1>8, <2>1
    <3> QED BY <1>0, <1>2, <2>1, <3>1 DEF RequestsApart
  <2>2. ChannelNumbered(c)'
    BY <1>0, <1>2, <2>1 DEF ChannelNumbered
  <2>3. \A d \in channels : ChannelNumbered(d)'
    BY <1>0, ChannelNumberStays DEF Contacts, Recorded
  <2> QED BY <1>3, <2>2, <2>3
<1>10. ASSUME NEW v \in Slots, Holding(v)' PROVE \E d \in channels' : CopyOf(requests[v], d)'
  <2>1. requests'[v] = requests[v] /\ Holding(v)
    BY <1>0, <1>8, <1>10 DEF Holding, LockSteps
  <2>2. PICK d \in channels : CopyOf(requests[v], d)
    BY <2>1 DEF Contacts
  <2> QED BY <1>3, <2>1, <2>2 DEF CopyOf
<1> QED BY <1>4, <1>5, <1>7, <1>9, <1>10, LocksStayApart DEF Contacts

(* Contacts stays true of every step.                                      *)
LEMMA ContactsStay ==
    ASSUME Carried, RequestsApart, Contacts, [Next]_vars
    PROVE  Contacts'
BY ChannelsSteps, QuietContacts, CommitContacts, SwitchContacts, AddContacts

(* A channel is what its acknowledged requests have made it: no request    *)
(* that overlaps with another loses the other's verification, its switch,  *)
(* or the code it has just sent, and one that fails or is ended by a       *)
(* restart leaves the channel as it was.                                   *)
THEOREM ChannelWritesAreKept == Spec => []ChannelWritesKept
<1>1. IdentityInv /\ Contacts /\ [Next]_vars => Contacts'
  BY ContactsStay DEF IdentityInv
<1>2. Contacts => ChannelWritesKept
  <2> SUFFICES ASSUME Contacts PROVE ChannelWritesKept
    OBVIOUS
  <2>1. kept = {KeptRow(c) : c \in channels} /\ ChannelsApart /\ IsFiniteSet(channels)
    BY DEF Contacts
  <2>2. Cardinality(channels) = Cardinality(kept)
    <3> DEFINE f == [c \in channels |-> KeptRow(c)]
    <3>1. f \in [channels -> kept]
      BY <2>1
    <3>2. \A c, d \in channels : f[c] = f[d] => c = d
      BY <2>1 DEF KeptRow, ChannelsApart
    <3>3. \A k \in kept : \E c \in channels : f[c] = k
      BY <2>1
    <3>4. f \in Bijection(channels, kept)
      BY <3>1, <3>2, <3>3 DEF Bijection, Injection, Surjection, IsInjective
    <3>5. ExistsBijection(channels, kept)
      BY <3>4 DEF ExistsBijection
    <3> QED BY <2>1, <3>5, FS_Bijection
  <2> QED BY <2>1, <2>2, Zenon DEF ChannelWritesKept, ChannelsApart, KeptRow
<1> QED BY <1>1, <1>2, ContactsInit, IdentityInvariance, PTL DEF Spec

-------------------------------------------------------------------------------
(* Challenges.  Each has its own number, and a verification holds a copy   *)
(* of a challenge that differs in what verifying changes.                  *)

Verifying == {"count_failure", "consume"}

ChallengeNumbered(c) ==
    /\ c.id \in 1 .. started
    /\ \A s \in Slots : requests[s].step = "save_challenge" => requests[s].no # c.id

CopyFrom(r, c) ==
    r.challenge.id = c.id /\ r.challenge.identifier = c.identifier /\ r.challenge.at = c.at

ChallengesApart == \A c, d \in challenges : c.id = d.id => c = d

Challenged ==
    /\ IsFiniteSet(challenges) /\ ChallengesApart
    /\ \A c \in challenges : ChallengeNumbered(c)
    /\ \A s \in Slots : requests[s].step \in Verifying => \E c \in challenges : CopyFrom(requests[s], c)

(* Challenges are changed by two kinds of step only.                       *)
LEMMA ChallengesSteps ==
    ASSUME [Next]_vars
    PROVE  challenges' = challenges \/ \E s \in Slots : SaveChallenge(s) \/ UpdateChallenge(s)
BY Zenon DEF Next, vars, Tick, Stop, StartPublic, Provision, Fail, RequestChallenge, VerifyLogin,
         FindUser, SaveUser, SaveSession, Logout, AddChannel,
         SaveChannel, ResendChannel, UpdateCode, VerifyChannel, UpdateVerified, SetEnabled, logins

(* A request that holds another challenge than before has read it now, and *)
(* not consumed; the others hold none.                                     *)
LEMMA ChallengeRead ==
    ASSUME Carried, [Next]_vars, NEW v \in Slots
    PROVE  \/ requests'[v] = requests[v]
           \/ requests'[v].challenge.id = 0 /\ requests'[v].step \notin Verifying
           \/ requests'[v].challenge = requests[v].challenge /\ requests'[v].step \notin Verifying
           \/ \E c \in challenges : ~c.consumed /\ CopyFrom(requests'[v], c) /\ challenges' = challenges
<1>0. RowStep(v) /\ Recorded
  BY RowSteps, Parts
<1>1. ASSUME NEW r \in Requests, Accept(v, r), r.challenge.id = 0, r.step \notin Verifying
      PROVE  requests'[v].challenge.id = 0 /\ requests'[v].step \notin Verifying
  BY <1>1, AcceptRow
<1>2. ASSUME NEW i \in Identifiers, RequestChallenge(v, i)
      PROVE  requests'[v].challenge.id = 0 /\ requests'[v].step \notin Verifying
  <2>1. PICK r \in Requests : Accept(v, r) /\ r.step = "save_challenge" /\ r.challenge.id = 0
    BY <1>0, <1>2, AcceptedRows
  <2> QED BY <1>1, <2>1 DEF Verifying
<1>3. ASSUME NEW u \in users, AddChannel(v, u)
      PROVE  requests'[v].challenge.id = 0 /\ requests'[v].step \notin Verifying
  <2>1. PICK r \in Requests : Accept(v, r) /\ r.step = "save_channel" /\ r.challenge.id = 0
    BY <1>0, <1>3, AcceptedRows
  <2> QED BY <1>1, <2>1 DEF Verifying
<1>4. ASSUME NEW c \in channels, ResendChannel(v, c)
      PROVE  requests'[v].challenge.id = 0 /\ requests'[v].step \notin Verifying
  <2>1. PICK r \in Requests : Accept(v, r) /\ r.step = "update_code" /\ r.challenge.id = 0
    BY <1>0, <1>4, AcceptedRows
  <2> QED BY <1>1, <2>1 DEF Verifying
<1>5. ASSUME NEW c \in channels, VerifyChannel(v, c)
      PROVE  requests'[v].challenge.id = 0 /\ requests'[v].step \notin Verifying
  <2>1. PICK r \in Requests : /\ Accept(v, r) /\ r.step = "update_verified" /\ r.challenge.id = 0
                              /\ r.channel = [c EXCEPT !.verified = TRUE]
    BY <1>0, <1>5, AcceptedRows
  <2> QED BY <1>1, <2>1 DEF Verifying
<1>6. ASSUME NEW i \in Identifiers, NEW right \in BOOLEAN, VerifyLogin(v, i, right)
      PROVE  \E c \in challenges : ~c.consumed /\ CopyFrom(requests'[v], c) /\ challenges' = challenges
  <2>1. PICK c \in challenges, r \in Requests :
           /\ ~c.consumed /\ Accept(v, r) /\ r.challenge.id = c.id
           /\ r.challenge.identifier = c.identifier /\ r.challenge.at = c.at
    BY <1>0, <1>6, AcceptedRows
  <2>2. requests'[v].challenge = r.challenge
    BY <2>1, AcceptRow
  <2>3. challenges' = challenges
    BY <1>6 DEF VerifyLogin, logins
  <2> QED BY <2>1, <2>2, <2>3 DEF CopyFrom
<1>7. CASE requests'[v] = NoRequest /\ requests'[v].step = "none"
  BY <1>7, EmptyRows DEF Verifying
<1> QED BY <1>0, <1>2, <1>3, <1>4, <1>5, <1>6, <1>7 DEF RowStep, Verifying

(* A challenge's id stays one that no request will use.                    *)
LEMMA ChallengeNumberStays ==
    ASSUME Carried, [Next]_vars, NEW c, ChallengeNumbered(c)
    PROVE  ChallengeNumbered(c)'
<1>1. started \in Nat /\ started' \in Nat /\ started <= started' /\ c.id \in 1 .. started
  BY StartedGrows DEF ChallengeNumbered
<1>2. ASSUME NEW s \in Slots, requests'[s].step = "save_challenge" PROVE requests'[s].no # c.id
  <2>1. RowStep(s)
    BY RowSteps
  <2> QED BY <1>1, <1>2, <2>1 DEF RowStep, ChallengeNumbered
<1> QED BY <1>1, <1>2 DEF ChallengeNumbered

(* What UpdateChallenge writes: over the row that was read.                *)
LEMMA Overwrites ==
    ASSUME Challenged, NEW s \in Slots, UpdateChallenge(s)
    PROVE  \E c \in challenges : /\ CopyFrom(requests[s], c)
                                 /\ challenges' = (challenges \ {c}) \cup {requests[s].challenge}
<1>1. PICK c \in challenges : CopyFrom(requests[s], c)
  BY DEF Challenged, UpdateChallenge, Verifying
<1>2. challenges' = (challenges \ {c}) \cup {requests[s].challenge}
  BY <1>1 DEF UpdateChallenge, Challenged, ChallengesApart, CopyFrom
<1> QED BY <1>1, <1>2

(* There is no challenge at the start.                                     *)
LEMMA ChallengedInit == Init => Challenged
<1> SUFFICES ASSUME Init PROVE Challenged
  OBVIOUS
<1>1. \A s \in Slots : requests[s].step = "none"
  BY EmptyRows DEF Init
<1> QED BY <1>1, FS_EmptySet DEF Init, Challenged, ChallengesApart, Verifying

(* Challenged stays true of every step.                                    *)
LEMMA ChallengedStays ==
    ASSUME Carried, RequestsApart, Challenged, [Next]_vars
    PROVE  Challenged'
<1>0. /\ IsFiniteSet(challenges) /\ ChallengesApart /\ \A c \in challenges : ChallengeNumbered(c)'
      /\ requests \in [Slots -> Requests]
  BY Parts, ChallengeNumberStays DEF Challenged
<1>1. ASSUME \A c \in challenges : \E d \in challenges' : d.id = c.id /\ d.identifier = c.identifier /\ d.at = c.at
      PROVE  \A s \in Slots : requests'[s].step \in Verifying => \E c \in challenges' : CopyFrom(requests'[s], c)
  <2> TAKE s \in Slots
  <2> HAVE requests'[s].step \in Verifying
  <2>1. CASE requests'[s] = requests[s]
    <3>1. PICK c \in challenges : CopyFrom(requests[s], c)
      BY <2>1 DEF Challenged
    <3> QED BY <1>1, <2>1, <3>1 DEF CopyFrom
  <2>2. CASE \E c \in challenges : ~c.consumed /\ CopyFrom(requests'[s], c) /\ challenges' = challenges
    BY <2>2
  <2> QED BY <2>1, <2>2, ChallengeRead
<1>2. CASE challenges' = challenges
  <2>1. \A s \in Slots : requests'[s].step \in Verifying => \E c \in challenges' : CopyFrom(requests'[s], c)
    BY <1>1, <1>2
  <2>2. IsFiniteSet(challenges') /\ ChallengesApart' /\ \A c \in challenges' : ChallengeNumbered(c)'
    BY <1>0, <1>2 DEF ChallengesApart
  <2> QED BY <2>1, <2>2 DEF Challenged, CopyFrom
<1>3. ASSUME NEW s \in Slots, SaveChallenge(s) PROVE Challenged'
  <2>1. PICK c : c = [id |-> requests[s].no, identifier |-> requests[s].identifier,
                      at |-> requests[s].at, consumed |-> FALSE, attempts |-> 0]
    OBVIOUS
  <2>2. c.id = requests[s].no /\ challenges' = challenges \cup {c}
    BY <1>3, <2>1 DEF SaveChallenge
  <2>3. IsFiniteSet(challenges')
    BY <1>0, <2>2, FS_AddElement
  <2>4. \A d \in challenges : d.id # c.id
    BY <1>3, <2>2 DEF Challenged, ChallengeNumbered, SaveChallenge
  <2>5. ChallengesApart'
    BY <1>0, <2>2, <2>4 DEF ChallengesApart
  <2>6. ChallengeNumbered(c)'
    <3>1. c.id \in 1 .. started'
      BY <1>3, <2>2, Parts DEF Fine, SaveChallenge
    <3>2. ASSUME NEW v \in Slots, requests'[v].step = "save_challenge" PROVE requests'[v].no # c.id
      <4>1. requests'[v] = IF v = s THEN NoRequest ELSE requests[v]
        BY <1>0, <1>3 DEF SaveChallenge, Finish
      <4>2. v # s /\ requests'[v] = requests[v]
        BY <3>2, <4>1, EmptyRows
      <4> QED BY <1>3, <2>2, <3>2, <4>2 DEF RequestsApart, SaveChallenge
    <3> QED BY <3>1, <3>2 DEF ChallengeNumbered
  <2>7. \A d \in challenges' : ChallengeNumbered(d)'
    BY <1>0, <2>2, <2>6
  <2>8. \A v \in Slots : requests'[v].step \in Verifying => \E d \in challenges' : CopyFrom(requests'[v], d)
    BY <1>1, <2>2
  <2> QED BY <2>3, <2>5, <2>7, <2>8 DEF Challenged, CopyFrom
<1>4. ASSUME NEW s \in Slots, UpdateChallenge(s) PROVE Challenged'
  <2>1. PICK c \in challenges : /\ CopyFrom(requests[s], c)
                                /\ challenges' = (challenges \ {c}) \cup {requests[s].challenge}
    BY <1>4, Overwrites
  <2>2. IsFiniteSet(challenges')
    BY <1>0, <2>1, FS_RemoveElement, FS_AddElement
  <2>3. ChallengesApart'
    BY <1>0, <2>1 DEF ChallengesApart, CopyFrom
  <2>4. PICK d : d = requests[s].challenge
    OBVIOUS
  <2>5. \A e \in challenges' : ChallengeNumbered(e)'
    <3>1. ChallengeNumbered(d)
      BY <2>1, <2>4 DEF Challenged, ChallengeNumbered, CopyFrom
    <3>2. ChallengeNumbered(d)'
      BY <3>1, ChallengeNumberStays
    <3> QED BY <1>0, <2>1, <2>4, <3>2
  <2>6. \A v \in Slots : requests'[v].step \in Verifying => \E e \in challenges' : CopyFrom(requests'[v], e)
    BY <1>1, <2>1 DEF CopyFrom
  <2> QED BY <2>2, <2>3, <2>5, <2>6 DEF Challenged, CopyFrom
<1> QED BY <1>2, <1>3, <1>4, ChallengesSteps

(* Once no verification holds a copy of a consumed challenge, it stays     *)
(* consumed, and no request that verifies it or registers its user after   *)
(* that can hold it: it opens no session, whatever overlaps or fails.      *)
THEOREM ConsumedStaysConsumed == Spec => ConsumedForGood
<1> DEFINE Stays(c) ==
        c.consumed /\ ~Held(c) =>
              /\ \E d \in challenges' : d.id = c.id /\ d.consumed
              /\ \A s \in Slots : requests'[s].challenge.id = c.id =>
                                    requests[s].challenge.id = c.id
<1>1. IdentityInv /\ Challenged /\ [Next]_vars => Challenged'
  BY ChallengedStays DEF IdentityInv
<1>2. IdentityInv /\ Challenged /\ [Next]_vars => \A c \in challenges : Stays(c)
  <2> SUFFICES ASSUME Carried, Challenged, [Next]_vars, NEW c \in challenges, c.consumed, ~Held(c)
               PROVE  /\ \E d \in challenges' : d.id = c.id /\ d.consumed
                      /\ \A s \in Slots : requests'[s].challenge.id = c.id =>
                                            requests[s].challenge.id = c.id
    BY DEF IdentityInv
  <2>1. ChallengesApart /\ c.id # 0
    BY Parts, IdentityAssumption DEF Challenged, ChallengeNumbered, Numbers
  <2>2. c \in challenges'
    <3>1. ASSUME NEW s \in Slots, UpdateChallenge(s) PROVE c \in challenges'
      <4>1. requests[s].challenge.id # c.id
        BY <3>1 DEF UpdateChallenge, Held
      <4> QED BY <3>1, <4>1 DEF UpdateChallenge
    <3>2. ASSUME NEW s \in Slots, SaveChallenge(s) PROVE c \in challenges'
      BY <3>2 DEF SaveChallenge
    <3> QED BY <3>1, <3>2, ChallengesSteps
  <2>3. ASSUME NEW s \in Slots, requests'[s].challenge.id = c.id PROVE requests[s].challenge.id = c.id
    <3>1. ASSUME NEW d \in challenges, ~d.consumed, CopyFrom(requests'[s], d) PROVE FALSE
      BY <2>1, <2>3, <3>1 DEF CopyFrom, ChallengesApart
    <3> QED BY <2>1, <2>3, <3>1, ChallengeRead
  <2> QED BY <2>2, <2>3
<1>3. IdentityInv /\ Challenged /\ [Next]_vars => [\A c \in challenges : Stays(c)]_vars
  BY <1>2
<1> QED BY <1>1, <1>3, ChallengedInit, IdentityInvariance, PTL DEF Spec, ConsumedForGood

-------------------------------------------------------------------------------
(* The hourly limit.  Counting what is saved and what is about to be in    *)
(* any window of the length the limit counts, every request of an          *)
(* overlapping set may go over the limit by itself, and no other.          *)

Window(t) == t .. t + CountedFor - 1
SavedIn(i, t) == {c \in challenges : c.identifier = i /\ c.at \in Window(t)}
PendingIn(i, t) == {s \in Slots : /\ requests[s].step = "save_challenge"
                                 /\ requests[s].identifier = i /\ requests[s].at \in Window(t)}
WithinLimit(i, t) ==
    Cardinality(SavedIn(i, t)) + Cardinality(PendingIn(i, t)) < MaxChallenges + Cardinality(Slots)
Limited == \A i \in Identifiers, t \in Nat : WithinLimit(i, t)

(* What is counted is finite, and no more requests are pending than there  *)
(* are slots.                                                              *)
LEMMA CountedSets ==
    ASSUME Challenged, NEW i, NEW t
    PROVE  /\ IsFiniteSet(SavedIn(i, t)) /\ Cardinality(SavedIn(i, t)) \in Nat
           /\ IsFiniteSet(PendingIn(i, t)) /\ Cardinality(PendingIn(i, t)) \in Nat
           /\ Cardinality(PendingIn(i, t)) <= Cardinality(Slots) /\ Cardinality(Slots) \in Nat
<1>1. SavedIn(i, t) \in SUBSET challenges /\ PendingIn(i, t) \in SUBSET Slots
  BY DEF SavedIn, PendingIn
<1>2. IsFiniteSet(challenges) /\ IsFiniteSet(Slots)
  BY IdentityAssumption DEF Challenged
<1>3. /\ IsFiniteSet(SavedIn(i, t)) /\ IsFiniteSet(PendingIn(i, t))
      /\ Cardinality(PendingIn(i, t)) <= Cardinality(Slots)
  BY <1>1, <1>2, FS_Subset
<1> QED BY <1>2, <1>3, FS_CardinalityType

(* Only counting makes another challenge pending.                          *)
LEMMA PendingSteps ==
    ASSUME Carried, [Next]_vars, NEW i \in Identifiers, NEW t \in Nat,
           ~(clock \in Window(t) /\ \E s \in Slots : RequestChallenge(s, i))
    PROVE  PendingIn(i, t)' \subseteq PendingIn(i, t)
<1> SUFFICES ASSUME NEW v \in Slots, requests'[v].step = "save_challenge",
                    requests'[v].identifier = i, requests'[v].at \in Window(t), requests'[v] # requests[v]
             PROVE  FALSE
  BY DEF PendingIn, Window
<1>1. PICK j \in Identifiers : RequestChallenge(v, j) /\ requests'[v].at = clock
  BY RowSteps DEF RowStep, LockSteps
<1>2. PICK r \in Requests : Accept(v, r) /\ r.identifier = j
  BY <1>1, Parts, AcceptedRows
<1>3. j = i
  BY <1>2, AcceptRow
<1> QED BY <1>1, <1>3

(* RequestLoginChallengeHandler counts all that the window has.            *)
LEMMA CountsKeep ==
    ASSUME Carried, Challenged, Challenged', NEW i \in Identifiers, NEW t \in Nat,
           NEW s \in Slots, RequestChallenge(s, i), clock \in Window(t)
    PROVE  WithinLimit(i, t)'
<1>1. SavedIn(i, t) \in SUBSET Recent(i)
  <2> SUFFICES ASSUME NEW c \in challenges, c.identifier = i, c.at \in Window(t)
               PROVE  c.at + CountedFor > clock
    BY DEF SavedIn, Recent
  <2>1. CountedFor \in Nat /\ clock \in Int
    BY IdentityAssumption, Parts
  <2> QED BY <2>1 DEF Window
<1>2. IsFiniteSet(Recent(i))
  <2>1. Recent(i) \in SUBSET challenges
    BY DEF Recent
  <2> QED BY <2>1, FS_Subset DEF Challenged
<1>3. Cardinality(Recent(i)) \in Nat /\ Cardinality(SavedIn(i, t)) <= Cardinality(Recent(i))
  BY <1>1, <1>2, FS_Subset, FS_CardinalityType
<1>4. SavedIn(i, t)' = SavedIn(i, t)
  BY DEF RequestChallenge, logins, SavedIn, Window
<1>5. Cardinality(PendingIn(i, t)') \in Nat /\ Cardinality(PendingIn(i, t)') <= Cardinality(Slots)
  <2>1. PendingIn(i, t)' \in SUBSET Slots
    BY DEF PendingIn
  <2> QED BY <2>1, IdentityAssumption, FS_Subset, FS_CardinalityType
<1>6. Cardinality(Recent(i)) < MaxChallenges /\ MaxChallenges \in Nat
  BY IdentityAssumption DEF RequestChallenge
<1>7. Cardinality(Slots) \in Nat /\ Cardinality(SavedIn(i, t)) \in Nat
  BY CountedSets
<1> QED BY <1>3, <1>4, <1>5, <1>6, <1>7 DEF WithinLimit

(* A request that was counted below the limit adds one to the pending; one *)
(* that saves its challenge takes it from there.                           *)
LEMMA LimitedStays ==
    ASSUME Carried, Challenged, Challenged', Limited, [Next]_vars,
           NEW i \in Identifiers, NEW t \in Nat
    PROVE  WithinLimit(i, t)'
<1>0. /\ IsFiniteSet(SavedIn(i, t)) /\ Cardinality(SavedIn(i, t)) \in Nat
      /\ IsFiniteSet(PendingIn(i, t)) /\ Cardinality(PendingIn(i, t)) \in Nat
      /\ Cardinality(Slots) \in Nat /\ MaxChallenges \in Nat /\ WithinLimit(i, t)
  BY CountedSets, IdentityAssumption DEF Limited
<1>1. CASE clock \in Window(t) /\ \E s \in Slots : RequestChallenge(s, i)
  BY <1>1, CountsKeep
<1>2. CASE ~(clock \in Window(t) /\ \E s \in Slots : RequestChallenge(s, i))
  <2>1. PendingIn(i, t)' \in SUBSET PendingIn(i, t)
    BY <1>2, PendingSteps
  <2>2. Cardinality(PendingIn(i, t)') \in Nat /\ Cardinality(PendingIn(i, t)') <= Cardinality(PendingIn(i, t))
    BY <1>0, <2>1, FS_Subset, FS_CardinalityType
  <2>3. ASSUME SavedIn(i, t)' = SavedIn(i, t) PROVE WithinLimit(i, t)'
    BY <1>0, <2>2, <2>3 DEF WithinLimit
  <2>4. CASE challenges' = challenges
    BY <2>3, <2>4 DEF SavedIn, Window
  <2>5. ASSUME NEW s \in Slots, UpdateChallenge(s) PROVE WithinLimit(i, t)'
    <3>1. PICK c \in challenges : /\ CopyFrom(requests[s], c)
                                  /\ challenges' = (challenges \ {c}) \cup {requests[s].challenge}
      BY <2>5, Overwrites
    <3>2. PICK d : d = requests[s].challenge
      OBVIOUS
    <3>3. d.identifier = c.identifier /\ d.at = c.at /\ d.id = c.id
      BY <3>1, <3>2 DEF CopyFrom
    <3>4. CASE c \notin SavedIn(i, t)
      <4>1. SavedIn(i, t)' = SavedIn(i, t)
        BY <3>1, <3>2, <3>3, <3>4 DEF SavedIn, Window
      <4> QED BY <2>3, <4>1
    <3>5. CASE c \in SavedIn(i, t)
      <4>1. SavedIn(i, t)' = (SavedIn(i, t) \ {c}) \cup {d}
        BY <3>1, <3>2, <3>3, <3>5 DEF SavedIn, Window
      <4>2. /\ IsFiniteSet(SavedIn(i, t) \ {c})
            /\ Cardinality(SavedIn(i, t) \ {c}) = Cardinality(SavedIn(i, t)) - 1
        BY <1>0, <3>5, FS_RemoveElement
      <4>3. Cardinality(SavedIn(i, t)') \in Nat /\ Cardinality(SavedIn(i, t)') <= Cardinality(SavedIn(i, t))
        <5>1. \/ Cardinality(SavedIn(i, t)') = Cardinality(SavedIn(i, t) \ {c})
              \/ Cardinality(SavedIn(i, t)') = Cardinality(SavedIn(i, t) \ {c}) + 1
          BY <4>1, <4>2, FS_AddElement
        <5>2. IsFiniteSet(SavedIn(i, t)')
          BY <4>1, <4>2, FS_AddElement
        <5> QED BY <1>0, <4>2, <5>1, <5>2, FS_CardinalityType
      <4> QED BY <1>0, <2>2, <4>3 DEF WithinLimit
    <3> QED BY <3>4, <3>5
  <2>6. ASSUME NEW s \in Slots, SaveChallenge(s) PROVE WithinLimit(i, t)'
    <3>1. PICK c : c = [id |-> requests[s].no, identifier |-> requests[s].identifier,
                        at |-> requests[s].at, consumed |-> FALSE, attempts |-> 0]
      OBVIOUS
    <3>2. /\ c.identifier = requests[s].identifier /\ c.at = requests[s].at
          /\ challenges' = challenges \cup {c} /\ requests[s].step = "save_challenge"
      BY <2>6, <3>1 DEF SaveChallenge
    <3>3. CASE s \notin PendingIn(i, t)
      <4>1. SavedIn(i, t)' = SavedIn(i, t)
        BY <3>2, <3>3 DEF SavedIn, PendingIn, Window
      <4> QED BY <2>3, <4>1
    <3>4. CASE s \in PendingIn(i, t)
      <4>1. SavedIn(i, t)' = SavedIn(i, t) \cup {c}
        BY <3>2, <3>4 DEF SavedIn, PendingIn, Window
      <4>2. /\ IsFiniteSet(SavedIn(i, t)')
            /\ Cardinality(SavedIn(i, t)') <= Cardinality(SavedIn(i, t)) + 1
        <5>1. PICK S : S = SavedIn(i, t) /\ IsFiniteSet(S) /\ Cardinality(S) \in Nat
          BY <1>0
        <5>2. /\ IsFiniteSet(S \cup {c})
              /\ Cardinality(S \cup {c}) = IF c \in S THEN Cardinality(S) ELSE Cardinality(S) + 1
          BY <5>1, FS_AddElement
        <5> QED BY <4>1, <5>1, <5>2
      <4>3. Cardinality(SavedIn(i, t)') \in Nat
        BY <4>2, FS_CardinalityType
      <4>4. PendingIn(i, t)' \in SUBSET (PendingIn(i, t) \ {s})
        <5>1. requests'[s].step = "none"
          BY <2>6, Parts, EmptyRows DEF SaveChallenge, Finish
        <5> QED BY <2>1, <5>1 DEF PendingIn
      <4>5. /\ IsFiniteSet(PendingIn(i, t) \ {s})
            /\ Cardinality(PendingIn(i, t) \ {s}) = Cardinality(PendingIn(i, t)) - 1
        BY <1>0, <3>4, FS_RemoveElement
      <4>6. /\ Cardinality(PendingIn(i, t)') <= Cardinality(PendingIn(i, t) \ {s})
            /\ Cardinality(PendingIn(i, t)') \in Nat
        BY <4>4, <4>5, FS_Subset, FS_CardinalityType
      <4> QED BY <1>0, <4>2, <4>3, <4>5, <4>6 DEF WithinLimit
    <3> QED BY <3>3, <3>4
  <2> QED BY <2>4, <2>5, <2>6, ChallengesSteps
<1> QED BY <1>1, <1>2

(* The limit of challenges counts and saves in two statements: in any hour *)
(* the requests that overlap may exceed it, each by itself, and no others. *)
THEOREM HourlyLimitHolds == Spec => []HourlyLimit
<1>1. Init => Limited
  <2> SUFFICES ASSUME Init, NEW i \in Identifiers, NEW t \in Nat PROVE WithinLimit(i, t)
    BY DEF Limited
  <2>1. SavedIn(i, t) = {} /\ PendingIn(i, t) = {}
    BY EmptyRows DEF Init, SavedIn, PendingIn
  <2>2. MaxChallenges \in Nat \ {0} /\ Cardinality(Slots) \in Nat
    BY IdentityAssumption, FS_CardinalityType
  <2> QED BY <2>1, <2>2, FS_EmptySet DEF WithinLimit
<1>2. IdentityInv /\ Challenged /\ [Next]_vars => Challenged'
  BY ChallengedStays DEF IdentityInv
<1>3. IdentityInv /\ Challenged /\ Challenged' /\ Limited /\ [Next]_vars => Limited'
  BY LimitedStays DEF IdentityInv, Limited
<1>4. IdentityInv /\ Challenged /\ Limited => HourlyLimit
  <2> SUFFICES ASSUME Carried, Challenged, Limited, NEW i \in Identifiers, NEW t \in 0 .. clock
               PROVE  Cardinality({c \in challenges : c.identifier = i /\ c.at \in t .. t + CountedFor - 1})
                        < MaxChallenges + Cardinality(Slots)
    BY DEF IdentityInv, HourlyLimit
  <2>1. t \in Nat
    BY Parts
  <2>2. WithinLimit(i, t) /\ MaxChallenges \in Nat
    BY <2>1, IdentityAssumption DEF Limited
  <2>3. Cardinality(SavedIn(i, t)) < MaxChallenges + Cardinality(Slots)
    BY <2>2, CountedSets DEF WithinLimit
  <2> QED BY <2>3 DEF SavedIn, Window
<1> QED BY <1>1, <1>2, <1>3, <1>4, ChallengedInit, IdentityInvariance, PTL DEF Spec

===============================================================================
