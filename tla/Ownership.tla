------------------------------ MODULE Ownership ------------------------------
(***************************************************************************)
(* Owners, their sessions and their accounts (src/ownership, the auth      *)
(* routes and the two ownership stores), with the removal of an account by *)
(* the background task of the delete route and the maintenance loop.       *)
(*                                                                         *)
(* A worker is the thread of one HTTP request. It works through its store  *)
(* calls one at a time, and what it has read may be stale at the next one; *)
(* a store call is one transaction, or one block under the lock of the     *)
(* in-memory state, and is atomic. A request may present any refresh token *)
(* ever handed out and any access token that has been issued. A password   *)
(* is compared as a value; hashing and the format of names and tokens are  *)
(* left out, and so is the attempt limiter, which only refuses requests.   *)
(*                                                                         *)
(* The refresh tokens of a session are numbered in the order they were     *)
(* made: new_refresh_token never repeats one. Time is counted in ticks.    *)
(***************************************************************************)
EXTENDS Integers, FiniteSets, TLC

CONSTANTS
    Workers,        \* threads of the HTTP server
    OwnerIds,       \* fresh ids for owners, each used once
    SessionIds,     \* fresh ids for sessions, each used once
    ConvIds,        \* places for conversations
    Names,          \* normalised user names
    Passwords,
    Nobody,         \* no owner, no session, no name, no password
    RefreshGrace,   \* REFRESH_GRACE, in ticks
    AccessTtl,      \* ACCESS_TTL
    GuestTtl,       \* GUEST_TTL
    AccountTtl,     \* ACCOUNT_SESSION_TTL
    GuestLimit,     \* conversations a guest may have (10; the rate limit is left out)
    MaxClock,       \* bound on the clock
    MaxTokens       \* bound on the refresh tokens of a session

ASSUME OwnershipAssumption ==
    /\ Nobody \notin OwnerIds \cup SessionIds \cup Names \cup Passwords
    /\ {RefreshGrace, AccessTtl, GuestTtl, AccountTtl, GuestLimit, MaxClock,
        MaxTokens} \subseteq Nat
    /\ MaxTokens > 0

VARIABLES
    mode,       \* the store in use: durable (PostgreSQL) or temporary (in memory)
    owners,     \* the rows of owners, with those of users
    sessions,   \* the rows of guest_sessions and auth_sessions
    access,     \* the latest expiry of the access tokens issued for a session
    convs,      \* the rows of conversations: owner and lifecycle_state
    requests,   \* what each worker is doing and the values it has read
    tasks,      \* owners whose finish_account_deletion is still to run
    clock

vars == <<mode, owners, sessions, access, convs, requests, tasks, clock>>

Idle == [step |-> "idle", session |-> Nobody, owner |-> Nobody, token |-> 0,
         password |-> Nobody]

NoOwner(used) == [kind |-> IF used THEN "gone" ELSE "none", state |-> "active",
                  epoch |-> 1, name |-> Nobody, password |-> Nobody]

NoSession(used) == [owner |-> Nobody, kind |-> IF used THEN "gone" ELSE "none",
                    current |-> 0, previous |-> 0, until |-> 0, expires |-> 0,
                    revoked |-> FALSE, proof |-> Nobody, late |-> FALSE]

Init ==
    /\ mode \in {"durable", "temporary"}
    /\ owners = [o \in OwnerIds |-> NoOwner(FALSE)]
    /\ sessions = [s \in SessionIds |-> NoSession(FALSE)]
    /\ access = [s \in SessionIds |-> 0]
    /\ convs = [c \in ConvIds |-> [owner |-> Nobody, state |-> "none"]]
    /\ requests = [w \in Workers |-> Idle]
    /\ tasks = {}
    /\ clock = 0

-----------------------------------------------------------------------------
(* The rows.                                                               *)

Live(o) == owners[o].kind \in {"guest", "user", "temporary_guest"}

Stored(s) == sessions[s].kind \in {"guest", "user", "temporary_guest"}

\* uuid4: an id that no row has had; which one it is makes no difference.
FreshOwners == LET unused == {o \in OwnerIds : owners[o].kind = "none"}
               IN  IF unused = {} THEN {} ELSE {CHOOSE o \in unused : TRUE}

FreshSessions == LET unused == {s \in SessionIds : sessions[s].kind = "none"}
                 IN  IF unused = {} THEN {} ELSE {CHOOSE s \in unused : TRUE}

SessionsOf(o) == {s \in SessionIds : Stored(s) /\ sessions[s].owner = o}

ConversationsOf(o) == {c \in ConvIds : convs[c].owner = o /\ convs[c].state # "none"}

guest_kind == IF mode = "durable" THEN "guest" ELSE "temporary_guest"

\* A new row, with the first refresh token of the session. proof is the password
\* that was verified for it; late says that the verified hash was already replaced
\* when the row was written.
session_row(o, kind, proof, late) ==
    [owner |-> o, kind |-> kind, current |-> 1, previous |-> 0, until |-> 0,
     expires |-> clock + (IF kind = "user" THEN AccountTtl ELSE GuestTtl),
     revoked |-> FALSE, proof |-> proof, late |-> late]

\* Faulty: the revocation goes to the table of the guests only.
RevokeGuests(rows, S) == [s \in SessionIds |->
    IF s \in S /\ rows[s].kind = "guest" THEN [rows[s] EXCEPT !.revoked = TRUE] ELSE rows[s]]

\* revoked_at=COALESCE(revoked_at, now)
revoke(rows, S) == [s \in SessionIds |->
    IF s \in S /\ Stored(s) THEN [rows[s] EXCEPT !.revoked = TRUE] ELSE rows[s]]

\* The next refresh token takes the place of the current one, which stays good for
\* the grace period.
rotated(row) == [row EXCEPT !.current = @ + 1, !.previous = row.current,
                            !.until = clock + RefreshGrace]

\* JwtAccessTokenCodec.issue: an access token for the session, until clock + ttl.
issue(s) == access' = [access EXCEPT ![s] = clock + AccessTtl]

\* decode: the signature holds for every token that was issued; what can fail is
\* the time.
decode(s) == access[s] > clock

Answer(w) == requests' = [requests EXCEPT ![w] = Idle]

Refuse(w) == /\ Answer(w)
             /\ UNCHANGED <<owners, sessions, access, convs, tasks>>

world == <<mode, clock>>

-----------------------------------------------------------------------------
(* The stores.                                                             *)

\* find_refresh of PostgresOwnershipStore: the session for which the token is the
\* current one, or the previous one within its grace.
find_refresh(s, token) ==
    /\ Stored(s)
    /\ \/ sessions[s].current = token
       \/ sessions[s].previous = token /\ sessions[s].until > clock

\* The same of InMemoryOwnershipStore; there are only temporary guests there.
find_refresh_in_memory(s, token) ==
    /\ Stored(s)
    /\ \/ sessions[s].current = token
       \/ sessions[s].previous = token /\ sessions[s].until > clock

find_token(s, token) == IF mode = "durable" THEN find_refresh(s, token)
                                            ELSE find_refresh_in_memory(s, token)

\* Faulty: the token that was read is not compared again.
RotateAnyToken(s, expected) == Stored(s) /\ ~sessions[s].revoked

\* rotate_refresh of PostgreSQL updates only a row that still has the expected
\* token and is not revoked.
rotate_refresh(s, expected) ==
    /\ Stored(s)
    /\ sessions[s].current = expected
    /\ ~sessions[s].revoked

\* In memory the row is looked up under the lock and only the token is compared.
rotate_refresh_in_memory(s, expected) ==
    /\ Stored(s)
    /\ sessions[s].current = expected

may_rotate(s, expected) == IF mode = "durable" THEN rotate_refresh(s, expected)
                                               ELSE rotate_refresh_in_memory(s, expected)

\* _assert_session_active
session_active(s) == ~sessions[s].revoked /\ sessions[s].expires > clock

\* get_owner, and the check of every caller.
owner_active(o) == Live(o) /\ owners[o].state = "active"

-----------------------------------------------------------------------------
(* Guests.                                                                 *)

\* create_guest: owner and session in one transaction.
create_guest(w) ==
    \E o \in FreshOwners, s \in FreshSessions :
        /\ owners' = [owners EXCEPT ![o] =
               [kind |-> guest_kind, state |-> "active", epoch |-> 1,
                name |-> Nobody, password |-> Nobody]]
        /\ sessions' = [sessions EXCEPT ![s] =
               session_row(o, guest_kind, Nobody, FALSE)]
        /\ issue(s)
        /\ Answer(w)
        /\ UNCHANGED <<convs, tasks>>

\* POST /api/auth/guest without a usable guest cookie, and the end of a logout. An
\* account cookie that is still good is refused before.
bootstrap_guest(w) ==
    /\ requests[w].step \in {"idle", "logged_out"}
    /\ create_guest(w)
    /\ UNCHANGED world

\* refresh, first read. The refresh route presents the account cookie first and
\* then the guest one: each is a refresh of its own.
refresh(w, s, token) ==
    /\ requests[w].step = "idle"
    /\ token \in 1..sessions[s].current
    /\ find_token(s, token)
    /\ session_active(s)
    /\ requests' = [requests EXCEPT ![w] =
           [Idle EXCEPT !.step = "found", !.session = s, !.token = token,
                        !.owner = sessions[s].owner,
                        \* matched_previous
                        !.password = IF sessions[s].previous = token THEN "previous"
                                                                     ELSE "current"]]
    /\ UNCHANGED <<owners, sessions, access, convs, tasks>>
    /\ UNCHANGED world

\* refresh, second read: the owner.
refresh_owner(w) ==
    /\ requests[w].step = "found"
    /\ \/ /\ owner_active(requests[w].owner)
          /\ requests' = [requests EXCEPT ![w].step = "rotating"]
          /\ UNCHANGED <<owners, sessions, access, convs, tasks>>
       \/ ~owner_active(requests[w].owner) /\ Refuse(w)
    /\ UNCHANGED world

\* refresh, last call: a previous token gets an access token and no new refresh
\* token; a current one is rotated, unless the row has changed meanwhile.
refresh_rotate(w) ==
    LET s == requests[w].session IN
    /\ requests[w].step = "rotating"
    /\ \/ /\ requests[w].password = "previous"
          /\ issue(s) /\ Answer(w)
          /\ UNCHANGED <<owners, sessions, convs, tasks>>
       \/ /\ requests[w].password = "current"
          /\ may_rotate(s, requests[w].token)
          /\ sessions[s].current < MaxTokens
          /\ sessions' = [sessions EXCEPT ![s] = rotated(@)]
          /\ issue(s) /\ Answer(w)
          /\ UNCHANGED <<owners, convs, tasks>>
       \/ /\ requests[w].password = "current"
          /\ ~may_rotate(s, requests[w].token)
          /\ Refuse(w)
    /\ UNCHANGED world

-----------------------------------------------------------------------------
(* Requests with an access token.                                          *)

\* resolve_access, first read: the token and its session.
resolve_access(w, s) ==
    /\ requests[w].step = "idle"
    /\ decode(s)
    /\ Stored(s) /\ session_active(s)
    /\ requests' = [requests EXCEPT ![w] =
           [Idle EXCEPT !.step = "resolving", !.session = s, !.owner = sessions[s].owner]]
    /\ UNCHANGED <<owners, sessions, access, convs, tasks>>
    /\ UNCHANGED world

\* resolve_access, second read: the owner. From here on the request has its actor.
resolve_owner(w) ==
    /\ requests[w].step = "resolving"
    /\ \/ /\ owner_active(requests[w].owner)
          /\ requests' = [requests EXCEPT ![w].step = "actor"]
          /\ UNCHANGED <<owners, sessions, access, convs, tasks>>
       \/ ~owner_active(requests[w].owner) /\ Refuse(w)
    /\ UNCHANGED world

kind_of(w) == sessions[requests[w].session].kind

\* GET /api/auth/me: renew_access reads the session again, not the owner.
renew_access(w) ==
    LET s == requests[w].session IN
    /\ requests[w].step = "actor"
    /\ \/ /\ Stored(s) /\ session_active(s)
          /\ issue(s) /\ Answer(w)
          /\ UNCHANGED <<owners, sessions, convs, tasks>>
       \/ ~(Stored(s) /\ session_active(s)) /\ Refuse(w)
    /\ UNCHANGED world

at_guest_limit(w) ==
    /\ kind_of(w) # "user"
    /\ Cardinality({c \in ConversationsOf(requests[w].owner) : convs[c].state = "active"})
           >= GuestLimit

\* create_conversation of PostgreSQL selects the owner's row for the insert and
\* finds none unless it is active.
insert_conversation(w) == owner_active(requests[w].owner) /\ ~at_guest_limit(w)

\* The in-memory store refuses an owner that it knows not to be active.
insert_conversation_in_memory(w) ==
    /\ Live(requests[w].owner) => owners[requests[w].owner].state = "active"
    /\ ~at_guest_limit(w)

create_conversation(w) ==
    LET accepted == IF mode = "durable" THEN insert_conversation(w)
                                        ELSE insert_conversation_in_memory(w)
    IN  /\ requests[w].step = "actor"
        /\ \/ /\ accepted
              /\ \E c \in {d \in ConvIds : convs[d].state = "none"} :
                     convs' = [convs EXCEPT ![c] =
                         [owner |-> requests[w].owner, state |-> "active"]]
              /\ Answer(w)
              /\ UNCHANGED <<owners, sessions, access, tasks>>
           \/ ~accepted /\ Refuse(w)
        /\ UNCHANGED world

\* DELETE /api/conversations/{id}: mark_conversation_deleting does not ask for the
\* state of the owner. What becomes of its runs is the subject of AgentRuns.
delete_conversation(w) ==
    /\ requests[w].step = "actor"
    /\ \E c \in ConversationsOf(requests[w].owner) :
           convs' = [convs EXCEPT ![c].state = "deleting"]
    /\ Answer(w)
    /\ UNCHANGED <<owners, sessions, access, tasks>>
    /\ UNCHANGED world

\* register, with or without a guest's actor: owner, user and session are inserted,
\* and the guest's session revoked, in one transaction; a taken name aborts it.
register_user(name, password, guest) ==
    \E o \in FreshOwners, s \in FreshSessions :
        /\ owners' = [owners EXCEPT ![o] =
               [kind |-> "user", state |-> "active", epoch |-> 1,
                name |-> name, password |-> password]]
        /\ sessions' = [revoke(sessions, guest) EXCEPT ![s] =
               session_row(o, "user", password, FALSE)]
        /\ issue(s)

register(w, name, password) ==
    LET guest == IF requests[w].step = "actor" THEN {requests[w].session} ELSE {} IN
    /\ mode = "durable"
    /\ \/ requests[w].step = "idle"
       \/ requests[w].step = "actor" /\ kind_of(w) # "user"
    /\ \/ /\ \A o \in OwnerIds : Live(o) => owners[o].name # name
          /\ register_user(name, password, guest)
          /\ Answer(w)
          /\ UNCHANGED <<convs, tasks>>
       \/ /\ \E o \in OwnerIds : Live(o) /\ owners[o].name = name
          /\ Refuse(w)
    /\ UNCHANGED world

\* login: the user is found by name and the password verified against the hash that
\* was read; the session is written by a later call.
login(w, o, password) ==
    /\ mode = "durable"
    /\ \/ requests[w].step = "idle"
       \/ requests[w].step = "actor" /\ kind_of(w) # "user"
    /\ Live(o) /\ owners[o].kind = "user"
    /\ \/ /\ owners[o].password = password
          /\ requests' = [requests EXCEPT ![w] =
                 [step |-> "logging_in", session |-> requests[w].session, owner |-> o,
                  token |-> 0, password |-> password]]
          /\ UNCHANGED <<owners, sessions, access, convs, tasks>>
       \/ owners[o].password # password /\ Refuse(w)
    /\ UNCHANGED world

\* Faulty: the insert only asks for the row of the owner.
takes_sessions_while_it_exists(o) == Live(o) /\ owners[o].kind = "user"

\* The owners that create_account_session selects for its insert.
takes_sessions(o) == owner_active(o) /\ owners[o].kind = "user"

\* create_account_session inserts for an active owner only, and revokes the guest
\* session of the caller with the insert.
create_account_session(w) ==
    LET o == requests[w].owner IN
    /\ requests[w].step = "logging_in"
    /\ \/ /\ takes_sessions(o)
          /\ \E s \in FreshSessions :
                 /\ sessions' = [revoke(sessions, {requests[w].session}) EXCEPT ![s] =
                        session_row(o, "user", requests[w].password,
                                    requests[w].password # owners[o].password)]
                 /\ issue(s)
          /\ Answer(w)
          /\ UNCHANGED <<owners, convs, tasks>>
       \/ ~takes_sessions(o) /\ Refuse(w)
    /\ UNCHANGED world

\* logout revokes the session; the answer is a new guest (bootstrap_guest).
logout(w) ==
    /\ requests[w].step = "actor"
    /\ kind_of(w) = "user"
    /\ sessions' = revoke(sessions, {requests[w].session})
    /\ requests' = [requests EXCEPT ![w].step = "logged_out"]
    /\ UNCHANGED <<owners, access, convs, tasks>>
    /\ UNCHANGED world

\* change_password, first part: get_user and the check of the current password.
change_password(w, given, new) ==
    LET o == requests[w].owner IN
    /\ requests[w].step = "actor"
    /\ kind_of(w) = "user"
    /\ \/ /\ Live(o) /\ owners[o].password = given
          /\ requests' = [requests EXCEPT ![w].step = "changing", ![w].password = new]
          /\ UNCHANGED <<owners, sessions, access, convs, tasks>>
       \/ ~(Live(o) /\ owners[o].password = given) /\ Refuse(w)
    /\ UNCHANGED world

\* The transaction of change_password: the hash, the revocation of all other
\* sessions, the rotation of this one. A session that is revoked meanwhile gets no
\* new token and the caller an error, but the transaction is committed.
store_password(w) ==
    LET o == requests[w].owner
        s == requests[w].session
        others == SessionsOf(o) \ {s}
        kept == Stored(s) /\ ~sessions[s].revoked
    IN  /\ requests[w].step = "changing"
        /\ owners' = [owners EXCEPT ![o].password =
               IF Live(o) THEN requests[w].password ELSE @]
        /\ kept => sessions[s].current < MaxTokens
        /\ sessions' = [revoke(sessions, others) EXCEPT ![s] =
               IF kept THEN [rotated(@) EXCEPT !.proof = requests[w].password] ELSE @]
        /\ IF kept THEN issue(s) ELSE UNCHANGED access
        /\ Answer(w)
        /\ UNCHANGED <<convs, tasks>>
        /\ UNCHANGED world

\* request_deletion, first part: confirmed, and the password checked.
request_deletion(w, given) ==
    LET o == requests[w].owner IN
    /\ requests[w].step = "actor"
    /\ kind_of(w) = "user"
    /\ \/ /\ Live(o) /\ owners[o].password = given
          /\ requests' = [requests EXCEPT ![w].step = "deleting"]
          /\ UNCHANGED <<owners, sessions, access, convs, tasks>>
       \/ ~(Live(o) /\ owners[o].password = given) /\ Refuse(w)
    /\ UNCHANGED world

\* mark_owner_deleting, and the background task that the delete route adds.
mark_owner_deleting(w) ==
    LET o == requests[w].owner IN
    /\ requests[w].step = "deleting"
    /\ \/ /\ Live(o)
          /\ owners' = [owners EXCEPT ![o].state = "deleting", ![o].epoch = @ + 1]
          /\ sessions' = revoke(sessions, SessionsOf(o))
          /\ tasks' = tasks \cup {o}
          /\ Answer(w)
          /\ UNCHANGED <<access, convs>>
       \/ ~Live(o) /\ Refuse(w)
    /\ UNCHANGED world

-----------------------------------------------------------------------------
(* Removal.                                                                *)

\* _finish_account_deletion marks the conversations of the owner one after another.
finish_account_deletion(o) ==
    /\ o \in tasks
    /\ \/ \E c \in ConversationsOf(o) :
              /\ convs[c].state = "active"
              /\ convs' = [convs EXCEPT ![c].state = "deleting"]
              /\ tasks' = tasks
       \/ /\ \A c \in ConversationsOf(o) : convs[c].state = "deleting"
          /\ tasks' = tasks \ {o}
          /\ convs' = convs
    /\ UNCHANGED <<owners, sessions, access, requests, mode, clock>>

\* The task is gone with its process, or ends at an exception, which it swallows.
LoseTask(o) ==
    /\ o \in tasks
    /\ tasks' = tasks \ {o}
    /\ UNCHANGED <<owners, sessions, access, convs, requests, mode, clock>>

\* A round of the maintenance loop for a deleting conversation whose runs have
\* ended (AgentRuns).
remove_conversation(c) ==
    /\ convs[c].state = "deleting"
    /\ convs' = [convs EXCEPT ![c] = [owner |-> Nobody, state |-> "none"]]
    /\ UNCHANGED <<owners, sessions, access, requests, tasks, mode, clock>>

\* The rows of an owner that is removed go with it, and its access tokens name a
\* session that is not found.
cascade(S) ==
    /\ owners' = [o \in OwnerIds |-> IF o \in S THEN NoOwner(TRUE) ELSE owners[o]]
    /\ sessions' = [s \in SessionIds |->
           IF Stored(s) /\ sessions[s].owner \in S THEN NoSession(TRUE) ELSE sessions[s]]
    /\ access' = [s \in SessionIds |->
           IF Stored(s) /\ sessions[s].owner \in S THEN 0 ELSE access[s]]

\* A round of the maintenance loop for a deleting owner without conversations whose
\* memory is cleared (MemoryGraph); delete_owner.
finish_deletion(o) ==
    /\ Live(o) /\ owners[o].state = "deleting"
    /\ ConversationsOf(o) = {}
    /\ cascade({o})
    /\ UNCHANGED <<convs, requests, tasks, mode, clock>>

\* delete_orphan_guests: guests without a conversation and without a session that
\* is neither revoked nor expired.
delete_orphan_guests ==
    LET orphans == {o \in OwnerIds :
            /\ owners[o].kind \in {"guest", "temporary_guest"}
            /\ ConversationsOf(o) = {}
            /\ \A s \in SessionsOf(o) : ~session_active(s)}
    IN  /\ orphans # {}
        /\ cascade(orphans)
        /\ UNCHANGED <<convs, requests, tasks, mode, clock>>

Tick == /\ clock < MaxClock
        /\ clock' = clock + 1
        /\ UNCHANGED <<mode, owners, sessions, access, convs, requests, tasks>>

-----------------------------------------------------------------------------
Request(w) ==
    \/ bootstrap_guest(w)
    \/ \E s \in SessionIds : resolve_access(w, s)
    \/ \E s \in SessionIds, token \in 1..MaxTokens : refresh(w, s, token)
    \/ \E name \in Names, password \in Passwords : register(w, name, password)
    \/ \E o \in OwnerIds, password \in Passwords : login(w, o, password)
    \/ \E given, new \in Passwords : change_password(w, given, new)
    \/ \E given \in Passwords : request_deletion(w, given)
    \/ renew_access(w)
    \/ create_conversation(w)
    \/ delete_conversation(w)
    \/ logout(w)

\* What a worker does once its request has got so far.
Continue(w) ==
    \/ refresh_owner(w)
    \/ refresh_rotate(w)
    \/ resolve_owner(w)
    \/ create_account_session(w)
    \/ store_password(w)
    \/ mark_owner_deleting(w)

Maintenance ==
    \/ \E c \in ConvIds : remove_conversation(c)
    \/ \E o \in OwnerIds : finish_deletion(o)
    \/ delete_orphan_guests

Next ==
    \/ \E w \in Workers : Request(w) \/ Continue(w)
    \/ \E o \in OwnerIds : finish_account_deletion(o) \/ LoseTask(o)
    \/ Maintenance
    \/ Tick

Spec == Init /\ [][Next]_vars

\* The server runs its background tasks, and the loop runs once a second for as
\* long as the process lives.
FairSpec ==
    /\ Spec
    /\ \A o \in OwnerIds : WF_vars(finish_account_deletion(o))
    /\ \A o \in OwnerIds : WF_vars(finish_deletion(o))
    /\ \A c \in ConvIds : WF_vars(remove_conversation(c))

-----------------------------------------------------------------------------
(* Properties.                                                             *)

\* The threads of the server are alike, and so are passwords.
Symmetry == Permutations(Workers) \cup Permutations(Passwords)

TypeOK ==
    /\ mode \in {"durable", "temporary"}
    /\ owners \in [OwnerIds -> [kind : {"none", "guest", "temporary_guest", "user", "gone"},
                                state : {"active", "deleting"}, epoch : Nat,
                                name : Names \cup {Nobody}, password : Passwords \cup {Nobody}]]
    /\ sessions \in [SessionIds -> [owner : OwnerIds \cup {Nobody},
                                    kind : {"none", "guest", "temporary_guest", "user", "gone"},
                                    current : 0..MaxTokens, previous : 0..MaxTokens,
                                    until : Nat, expires : Nat, revoked : BOOLEAN,
                                    proof : Passwords \cup {Nobody}, late : BOOLEAN]]
    /\ access \in [SessionIds -> Nat]
    /\ convs \in [ConvIds -> [owner : OwnerIds \cup {Nobody},
                              state : {"none", "active", "deleting"}]]
    /\ tasks \subseteq OwnerIds
    /\ clock \in 0..MaxClock

\* mark_owner_deleting and create_account_session: a session that works belongs to
\* an active owner. When the deletion of an account is accepted, all of its sessions
\* end with it, and no login that has checked its password before, no refresh and
\* no removal of guests leaves or makes another one.
SessionsEndWithTheirOwner ==
    \A s \in SessionIds :
        Stored(s) /\ ~sessions[s].revoked => owner_active(sessions[s].owner)

\* refresh and change_password: a client's current refresh token is only replaced
\* by a request that presented that very token, or by the holder of the session
\* changing the password, and never once a logout, a password change or a deletion
\* has revoked the session. Two refreshes at once never leave the answer of one of
\* them worthless.
TokenReplacedByItsHolder ==
    [][\A s \in SessionIds :
           Stored(s) /\ sessions'[s].current > sessions[s].current =>
               /\ ~sessions[s].revoked
               /\ \E w \in Workers :
                      /\ requests[w].session = s
                      /\ requests'[w] = Idle
                      /\ \/ requests[w].step = "changing"
                         \/ requests[w].token = sessions[s].current]_vars

\* change_password: after it, the sessions of the account that still work were
\* opened with the password it has now; the only exceptions are a login that had
\* verified the old one before the change and wrote its session after it.
PasswordChangeEvicts ==
    \A s \in SessionIds :
        LET o == sessions[s].owner IN
        Stored(s) /\ sessions[s].kind = "user" /\ ~sessions[s].revoked =>
            \/ sessions[s].proof = owners[o].password
            \/ sessions[s].late

\* An account whose deletion was accepted is removed, with its conversations
\* (the comment in _finish_account_deletion: the loop carries on what the task
\* leaves).
AccountDeletionConverges ==
    \A o \in OwnerIds : owners[o].state = "deleting" ~> owners[o].kind = "gone"

=============================================================================
