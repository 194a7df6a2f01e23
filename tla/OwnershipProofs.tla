--------------------------- MODULE OwnershipProofs ---------------------------
(***************************************************************************)
(* Proofs about Ownership, for every set of threads, owners, sessions and  *)
(* passwords and every length of the grace and expiry periods.             *)
(***************************************************************************)
EXTENDS Ownership, TLAPS

StoredKinds == {"guest", "user", "temporary_guest"}

SessionRow == [owner : OwnerIds \cup {Nobody},
               kind : {"none", "guest", "temporary_guest", "user", "gone"},
               current : 0..MaxTokens, previous : 0..MaxTokens,
               until : Nat, expires : Nat, revoked : BOOLEAN,
               proof : Passwords \cup {Nobody}, late : BOOLEAN]

OwnerRow == [kind : {"none", "guest", "temporary_guest", "user", "gone"},
             state : {"active", "deleting"}, epoch : Nat,
             name : Names \cup {Nobody}, password : Passwords \cup {Nobody}]

RequestRow == [step : {"idle", "logged_out", "found", "rotating", "resolving", "actor",
                       "logging_in", "changing", "deleting"},
               session : SessionIds \cup {Nobody}, owner : OwnerIds \cup {Nobody},
               token : Nat,
               password : Passwords \cup {Nobody, "current", "previous"}]

\* What a request may rely on at its next call, however much time has passed: the
\* session it has read keeps its owner for as long as it exists, and its id is never
\* used for another one. Only the durable store has passwords.
RequestOK(r, rows) ==
    /\ r.step \in {"logging_in", "changing", "deleting"} => mode = "durable"
    /\ r.step \in {"logging_in", "changing"} => r.password \in Passwords
    /\ r.step \notin {"idle", "logged_out"} => r.owner \in OwnerIds
    /\ r.step \in {"found", "rotating", "resolving", "actor", "changing", "deleting"} =>
           /\ r.session \in SessionIds
           /\ rows[r.session].kind # "none"
           /\ rows[r.session].kind \in StoredKinds => rows[r.session].owner = r.owner

\* The foreign key of the sessions: no row without its owner.
RowsOwned ==
    \A s \in SessionIds : Stored(s) =>
        sessions[s].owner \in OwnerIds /\ Live(sessions[s].owner)

\* The in-memory store has guests only, and nothing there revokes a session: its
\* rotate_refresh may do without the check of the durable one.
GuestsInMemory ==
    mode = "temporary" => \A s \in SessionIds :
        sessions[s].kind # "user" /\ ~sessions[s].revoked

Inv ==
    /\ TypeOK
    /\ requests \in [Workers -> RequestRow]
    /\ \A w \in Workers : RequestOK(requests[w], sessions)
    /\ RowsOwned
    /\ GuestsInMemory
    /\ SessionsEndWithTheirOwner
    /\ PasswordChangeEvicts

-----------------------------------------------------------------------------
(* What a step may do to a row.                                            *)

\* A session is left alone, revoked, or given its next token for the request that
\* presented the current one.
KeepsRow(s) ==
    /\ sessions'[s].owner = sessions[s].owner
    /\ sessions'[s].kind = sessions[s].kind
    /\ sessions'[s].late = sessions[s].late
    /\ sessions[s].revoked => sessions'[s].revoked
    /\ mode = "temporary" => sessions'[s].revoked = sessions[s].revoked

\* The next refresh token goes to a request of this session, unless it is revoked.
TokenMoves(s) ==
    \/ sessions'[s].current <= sessions[s].current
    \/ /\ ~sessions[s].revoked
       /\ \E w \in Workers :
              /\ requests[w].session = s
              /\ requests'[w] = Idle
              /\ \/ requests[w].step = "changing"
                 \/ requests[w].token = sessions[s].current

\* The row of a new session of an active owner.
OpensRow(s) ==
    /\ sessions[s].kind = "none"
    /\ sessions'[s].kind \in StoredKinds
    /\ sessions'[s].owner \in OwnerIds
    /\ owners'[sessions'[s].owner].kind \in StoredKinds
    /\ owners'[sessions'[s].owner].state = "active"
    /\ ~sessions'[s].revoked
    /\ mode = "temporary" => sessions'[s].kind # "user"
    /\ sessions'[s].kind = "user" =>
           \/ sessions'[s].proof = owners'[sessions'[s].owner].password
           \/ sessions'[s].late

\* A row that is kept follows the state and the password of its owner.
FollowsOwner(s) ==
    Stored(s) =>
        LET o == sessions[s].owner IN
        /\ owners'[o].kind \in StoredKinds
        /\ sessions'[s].revoked \/ owners'[o].state = owners[o].state
        /\ \/ sessions'[s].revoked
           \/ sessions'[s].kind # "user"
           \/ /\ owners'[o].password = owners[o].password
              /\ sessions'[s].proof = sessions[s].proof
           \/ sessions'[s].proof = owners'[o].password

RowMoves(s) ==
    \/ /\ sessions'[s].kind = "gone" /\ ~sessions'[s].revoked
       /\ sessions[s].kind # "none" /\ TokenMoves(s)
    \/ OpensRow(s)
    \/ KeepsRow(s) /\ TokenMoves(s) /\ FollowsOwner(s)

\* The request of one worker ends, or its next step may rely on the rows as they are.
RequestMoves ==
    \/ requests' = requests
    \/ \E w \in Workers, r \in RequestRow :
           /\ requests' = [requests EXCEPT ![w] = r]
           /\ RequestOK(r, sessions)

Effect ==
    /\ TypeOK'
    /\ mode' = mode
    /\ \A s \in SessionIds : RowMoves(s)
    /\ RequestMoves

-----------------------------------------------------------------------------
\* TypeOK in terms of the three row types.
LEMMA RowsTyped ==
    TypeOK <=> /\ mode \in {"durable", "temporary"}
               /\ owners \in [OwnerIds -> OwnerRow]
               /\ sessions \in [SessionIds -> SessionRow]
               /\ access \in [SessionIds -> Nat]
               /\ convs \in [ConvIds -> [owner : OwnerIds \cup {Nobody},
                                         state : {"none", "active", "deleting"}]]
               /\ tasks \subseteq OwnerIds
               /\ clock \in 0..MaxClock
  BY DEF TypeOK, OwnerRow, SessionRow

\* The initial states satisfy the invariant.
LEMMA Initially == Init => Inv
<1> SUFFICES ASSUME Init PROVE Inv
  OBVIOUS
<1> USE OwnershipAssumption
<1>1. TypeOK
  <2>1. owners \in [OwnerIds -> OwnerRow]
    BY DEF Init, NoOwner, OwnerRow
  <2>2. sessions \in [SessionIds -> SessionRow]
    BY DEF Init, NoSession, SessionRow
  <2>3. /\ mode \in {"durable", "temporary"}
        /\ access \in [SessionIds -> Nat]
        /\ tasks \subseteq OwnerIds
        /\ clock \in 0..MaxClock
    BY DEF Init
  <2>4. convs \in [ConvIds -> [owner : OwnerIds \cup {Nobody},
                              state : {"none", "active", "deleting"}]]
    BY DEF Init
  <2> QED
    BY <2>1, <2>2, <2>3, <2>4, RowsTyped
<1>2. requests \in [Workers -> RequestRow]
  BY DEF Init, Idle, RequestRow
<1>3. \A w \in Workers : RequestOK(requests[w], sessions)
  BY DEF Init, Idle, RequestOK
<1>4. \A s \in SessionIds : ~Stored(s)
  BY DEF Init, NoSession, Stored
<1>5. GuestsInMemory
  BY DEF Init, NoSession, GuestsInMemory
<1> QED
  BY <1>1, <1>2, <1>3, <1>4, <1>5
     DEF Inv, RowsOwned, SessionsEndWithTheirOwner, PasswordChangeEvicts

\* A step with these effects preserves the invariant.
LEMMA EffectKeepsInv == Inv /\ Effect => Inv'
<1> SUFFICES ASSUME Inv, Effect PROVE Inv'
  OBVIOUS
<1> USE DEF StoredKinds
<1>1. TypeOK'
  BY DEF Effect
<1>2. requests' \in [Workers -> RequestRow]
  BY DEF Effect, RequestMoves, Inv
<1>3. ASSUME NEW s \in SessionIds, Stored(s)'
      PROVE /\ sessions'[s].owner \in OwnerIds
            /\ owners'[sessions'[s].owner].kind \in StoredKinds
            /\ sessions[s].kind = "none" \/ (Stored(s) /\ sessions'[s].owner = sessions[s].owner)
  BY <1>3 DEF Effect, RowMoves, OpensRow, KeepsRow, FollowsOwner, Inv, RowsOwned, Stored, Live
<1>4. RowsOwned'
  BY <1>3 DEF RowsOwned, Live
<1>5. \A s \in SessionIds : sessions[s].kind # "none" => sessions'[s].kind # "none"
  BY DEF Effect, RowMoves, OpensRow, KeepsRow
<1>6. ASSUME NEW r \in RequestRow, RequestOK(r, sessions)
      PROVE RequestOK(r, sessions')
  BY <1>3, <1>5, <1>6 DEF RequestOK, Stored
<1>7. (\A w \in Workers : RequestOK(requests[w], sessions))'
  <2> SUFFICES ASSUME NEW w \in Workers PROVE RequestOK(requests'[w], sessions')
    BY DEF RequestOK, Effect
  <2>1. requests'[w] \in RequestRow /\ RequestOK(requests'[w], sessions)
    BY <1>2 DEF Effect, RequestMoves, Inv
  <2> QED
    BY <2>1, <1>6
<1>8. PasswordChangeEvicts'
  <2> SUFFICES ASSUME NEW s \in SessionIds, Stored(s)', sessions'[s].kind = "user",
                      ~sessions'[s].revoked
               PROVE \/ sessions'[s].proof = owners'[sessions'[s].owner].password
                     \/ sessions'[s].late
    BY DEF PasswordChangeEvicts
  <2>1. OpensRow(s) \/ (KeepsRow(s) /\ FollowsOwner(s))
    BY DEF Effect, RowMoves, Stored
  <2>2. CASE OpensRow(s)
    BY <2>2 DEF OpensRow
  <2>3. CASE KeepsRow(s) /\ FollowsOwner(s)
    BY <2>3 DEF KeepsRow, FollowsOwner, Inv, PasswordChangeEvicts, Stored
  <2> QED
    BY <2>1, <2>2, <2>3
<1>9. SessionsEndWithTheirOwner'
  <2> SUFFICES ASSUME NEW s \in SessionIds, Stored(s)', ~sessions'[s].revoked
               PROVE owners'[sessions'[s].owner].state = "active"
    BY <1>3 DEF SessionsEndWithTheirOwner, owner_active, Live
  <2>1. OpensRow(s) \/ (KeepsRow(s) /\ FollowsOwner(s))
    BY DEF Effect, RowMoves, Stored
  <2>2. CASE OpensRow(s)
    BY <2>2 DEF OpensRow
  <2>3. CASE KeepsRow(s) /\ FollowsOwner(s)
    BY <2>3 DEF KeepsRow, FollowsOwner, Inv, SessionsEndWithTheirOwner, owner_active, Stored
  <2> QED
    BY <2>1, <2>2, <2>3
<1>10. GuestsInMemory'
  BY DEF GuestsInMemory, Effect, RowMoves, OpensRow, KeepsRow, Inv
<1> QED
  BY <1>1, <1>2, <1>4, <1>7, <1>8, <1>9, <1>10 DEF Inv

-----------------------------------------------------------------------------
(* Actions that only read the rows, or write elsewhere.                    *)

\* Rows that nobody writes.
LEMMA RowsStay ==
    ASSUME Inv, owners' = owners, sessions' = sessions
    PROVE  \A s \in SessionIds : RowMoves(s)
<1> SUFFICES ASSUME NEW s \in SessionIds PROVE KeepsRow(s) /\ TokenMoves(s) /\ FollowsOwner(s)
  BY DEF RowMoves
<1>1. sessions[s] \in SessionRow
  BY RowsTyped DEF Inv
<1>2. sessions[s].current \in Int
  BY <1>1, OwnershipAssumption DEF SessionRow
<1> QED
  BY <1>2 DEF KeepsRow, TokenMoves, FollowsOwner, Inv, RowsOwned, Live, StoredKinds

\* A request that is answered leaves nothing to rely on.
LEMMA Answering ==
    ASSUME Inv, NEW w \in Workers, Answer(w)
    PROVE  RequestMoves /\ requests'[w] = Idle
<1>1. Idle \in RequestRow /\ RequestOK(Idle, sessions)
  BY DEF Idle, RequestRow, RequestOK
<1> QED
  BY <1>1 DEF Answer, RequestMoves, Inv

\* A request that only reads.
LEMMA Reading ==
    ASSUME Inv, NEW w \in Workers, NEW r \in RequestRow, RequestOK(r, sessions),
           requests' = [requests EXCEPT ![w] = r],
           UNCHANGED <<owners, sessions, access, convs, tasks>>, UNCHANGED world
    PROVE  Effect
<1>1. TypeOK'
  BY DEF Inv, TypeOK, world
<1> QED
  BY <1>1, RowsStay DEF Effect, RequestMoves, world, vars

\* A request that is refused.
LEMMA Refusing ==
    ASSUME Inv, NEW w \in Workers, Refuse(w), UNCHANGED world
    PROVE  Effect
<1>1. TypeOK'
  BY DEF Inv, TypeOK, world, Refuse
<1> QED
  BY <1>1, RowsStay, Answering DEF Effect, Refuse, world

\* A request that has read a row and will act on it later.
LEMMA ReadersMove ==
    ASSUME Inv, NEW w \in Workers,
           \/ \E s \in SessionIds : resolve_access(w, s)
           \/ \E s \in SessionIds, token \in 1..MaxTokens : refresh(w, s, token)
           \/ \E o \in OwnerIds, password \in Passwords : login(w, o, password)
           \/ \E given, new \in Passwords : change_password(w, given, new)
           \/ \E given \in Passwords : request_deletion(w, given)
           \/ refresh_owner(w)
           \/ resolve_owner(w)
    PROVE  Effect
<1>0. requests[w] \in RequestRow /\ RequestOK(requests[w], sessions)
  BY DEF Inv
<1>1. ASSUME NEW s \in SessionIds, resolve_access(w, s) PROVE Effect
  <2> DEFINE r == [Idle EXCEPT !.step = "resolving", !.session = s, !.owner = sessions[s].owner]
  <2>1. r \in RequestRow /\ RequestOK(r, sessions)
    <3>1. Stored(s) /\ sessions[s].owner \in OwnerIds
      BY <1>1 DEF resolve_access, Inv, RowsOwned
    <3> QED
      BY <3>1 DEF Idle, RequestRow, RequestOK, Stored, StoredKinds
  <2> QED
    BY <1>1, <2>1, Reading DEF resolve_access
<1>2. ASSUME NEW s \in SessionIds, NEW token \in 1..MaxTokens, refresh(w, s, token) PROVE Effect
  <2> DEFINE r == [Idle EXCEPT !.step = "found", !.session = s, !.token = token,
                        !.owner = sessions[s].owner,
                        !.password = IF sessions[s].previous = token THEN "previous"
                                                                     ELSE "current"]
  <2>1. r \in RequestRow /\ RequestOK(r, sessions)
    <3>1. Stored(s) /\ sessions[s].owner \in OwnerIds
      BY <1>2 DEF refresh, find_token, find_refresh, find_refresh_in_memory, Inv, RowsOwned
    <3>2. token \in Nat
      BY OwnershipAssumption
    <3> QED
      BY <3>1, <3>2 DEF Idle, RequestRow, RequestOK, Stored, StoredKinds
  <2> QED
    BY <1>2, <2>1, Reading DEF refresh
<1>3. ASSUME NEW o \in OwnerIds, NEW password \in Passwords, login(w, o, password) PROVE Effect
  <2> DEFINE r == [step |-> "logging_in", session |-> requests[w].session, owner |-> o,
                   token |-> 0, password |-> password]
  <2>1. r \in RequestRow /\ RequestOK(r, sessions)
    BY <1>0, <1>3 DEF login, RequestRow, RequestOK
  <2>2. CASE /\ requests' = [requests EXCEPT ![w] = r]
             /\ UNCHANGED <<owners, sessions, access, convs, tasks>>
    BY <1>3, <2>1, <2>2, Reading DEF login
  <2> QED
    BY <1>3, <2>2, Refusing DEF login
<1>4. ASSUME NEW given \in Passwords, NEW new \in Passwords, change_password(w, given, new)
      PROVE Effect
  <2> DEFINE r == [requests[w] EXCEPT !.step = "changing", !.password = new]
  <2>0. mode = "durable"
    BY <1>0, <1>4 DEF change_password, kind_of, RequestOK, Inv, TypeOK, GuestsInMemory
  <2>1. r \in RequestRow /\ RequestOK(r, sessions)
    BY <1>0, <1>4, <2>0 DEF change_password, RequestRow, RequestOK
  <2>2. CASE Refuse(w)
    BY <1>4, <2>2, Refusing DEF change_password
  <2>3. CASE ~Refuse(w)
    <3>1. requests' = [requests EXCEPT ![w] = r]
      BY <1>4, <2>3 DEF change_password, Inv
    <3> QED
      BY <1>4, <2>1, <2>3, <3>1, Reading DEF change_password
  <2> QED
    BY <2>2, <2>3
<1>5. ASSUME NEW given \in Passwords, request_deletion(w, given) PROVE Effect
  <2> DEFINE r == [requests[w] EXCEPT !.step = "deleting"]
  <2>0. mode = "durable"
    BY <1>0, <1>5 DEF request_deletion, kind_of, RequestOK, Inv, TypeOK, GuestsInMemory
  <2>1. r \in RequestRow /\ RequestOK(r, sessions)
    BY <1>0, <1>5, <2>0 DEF request_deletion, RequestRow, RequestOK
  <2>2. CASE Refuse(w)
    BY <1>5, <2>2, Refusing DEF request_deletion
  <2>3. CASE ~Refuse(w)
    <3>1. requests' = [requests EXCEPT ![w] = r]
      BY <1>5, <2>3 DEF request_deletion, Inv
    <3> QED
      BY <1>5, <2>1, <2>3, <3>1, Reading DEF request_deletion
  <2> QED
    BY <2>2, <2>3
<1>6. ASSUME refresh_owner(w) PROVE Effect
  <2> DEFINE r == [requests[w] EXCEPT !.step = "rotating"]
  <2>1. r \in RequestRow /\ RequestOK(r, sessions)
    BY <1>0, <1>6 DEF refresh_owner, RequestRow, RequestOK
  <2>2. CASE Refuse(w)
    BY <1>6, <2>2, Refusing DEF refresh_owner
  <2>3. CASE ~Refuse(w)
    <3>1. requests' = [requests EXCEPT ![w] = r]
      BY <1>6, <2>3 DEF refresh_owner, Inv
    <3> QED
      BY <1>6, <2>1, <2>3, <3>1, Reading DEF refresh_owner
  <2> QED
    BY <2>2, <2>3
<1>7. ASSUME resolve_owner(w) PROVE Effect
  <2> DEFINE r == [requests[w] EXCEPT !.step = "actor"]
  <2>1. r \in RequestRow /\ RequestOK(r, sessions)
    BY <1>0, <1>7 DEF resolve_owner, RequestRow, RequestOK
  <2>2. CASE Refuse(w)
    BY <1>7, <2>2, Refusing DEF resolve_owner
  <2>3. CASE ~Refuse(w)
    <3>1. requests' = [requests EXCEPT ![w] = r]
      BY <1>7, <2>3 DEF resolve_owner, Inv
    <3> QED
      BY <1>7, <2>1, <2>3, <3>1, Reading DEF resolve_owner
  <2> QED
    BY <2>2, <2>3
<1> QED
  BY <1>1, <1>2, <1>3, <1>4, <1>5, <1>6, <1>7

\* A request or a loop that writes conversations, tasks, tokens or the clock.
LEMMA OthersMove ==
    ASSUME Inv,
           \/ \E w \in Workers : renew_access(w) \/ create_conversation(w) \/ delete_conversation(w)
           \/ \E o \in OwnerIds : finish_account_deletion(o) \/ LoseTask(o)
           \/ \E c \in ConvIds : remove_conversation(c)
           \/ Tick
    PROVE  Effect
<1> USE OwnershipAssumption
<1>1. ASSUME NEW w \in Workers, renew_access(w) PROVE Effect
  <2>1. CASE Refuse(w)
    BY <1>1, <2>1, Refusing DEF renew_access
  <2>2. CASE ~Refuse(w)
    <3>1. TypeOK'
      BY <1>1, <2>2 DEF renew_access, issue, Inv, TypeOK, world
    <3> QED
      BY <1>1, <2>2, <3>1, RowsStay, Answering DEF renew_access, Effect, world
  <2> QED
    BY <2>1, <2>2
<1>2. ASSUME NEW w \in Workers, create_conversation(w) PROVE Effect
  <2>1. CASE Refuse(w)
    BY <1>2, <2>1, Refusing DEF create_conversation
  <2>2. CASE ~Refuse(w)
    <3>1. requests[w].owner \in OwnerIds
      BY <1>2 DEF create_conversation, Inv, RequestOK
    <3>2. TypeOK'
      BY <1>2, <2>2, <3>1 DEF create_conversation, Inv, TypeOK, world
    <3> QED
      BY <1>2, <2>2, <3>2, RowsStay, Answering DEF create_conversation, Effect, world
  <2> QED
    BY <2>1, <2>2
<1>3. ASSUME NEW w \in Workers, delete_conversation(w) PROVE Effect
  <2>1. TypeOK'
    BY <1>3 DEF delete_conversation, ConversationsOf, Inv, TypeOK, world
  <2> QED
    BY <1>3, <2>1, RowsStay, Answering DEF delete_conversation, Effect, world
<1>4. ASSUME NEW o \in OwnerIds, finish_account_deletion(o) \/ LoseTask(o) PROVE Effect
  <2>1. tasks' \subseteq OwnerIds
    BY <1>4 DEF finish_account_deletion, LoseTask, Inv, TypeOK
  <2>2. convs' \in [ConvIds -> [owner : OwnerIds \cup {Nobody},
                               state : {"none", "active", "deleting"}]]
    BY <1>4 DEF finish_account_deletion, LoseTask, ConversationsOf, Inv, TypeOK
  <2>3. TypeOK'
    BY <1>4, <2>1, <2>2 DEF finish_account_deletion, LoseTask, Inv, TypeOK
  <2> QED
    BY <1>4, <2>3, RowsStay DEF finish_account_deletion, LoseTask, Effect, RequestMoves
<1>5. ASSUME NEW c \in ConvIds, remove_conversation(c) PROVE Effect
  <2>1. TypeOK'
    BY <1>5 DEF remove_conversation, Inv, TypeOK
  <2> QED
    BY <1>5, <2>1, RowsStay DEF remove_conversation, Effect, RequestMoves
<1>6. ASSUME Tick PROVE Effect
  <2>1. TypeOK'
    BY <1>6 DEF Tick, Inv, TypeOK
  <2> QED
    BY <1>6, <2>1, RowsStay DEF Tick, Effect, RequestMoves
<1> QED
  BY <1>1, <1>2, <1>3, <1>4, <1>5, <1>6

-----------------------------------------------------------------------------
(* Actions that write the rows.                                            *)

\* revoke touches the mark of the chosen rows and nothing else.
LEMMA Revoking ==
    ASSUME Inv, NEW S
    PROVE  /\ revoke(sessions, S) \in [SessionIds -> SessionRow]
           /\ \A s \in SessionIds :
                  LET row == revoke(sessions, S)[s] IN
                  /\ row.owner = sessions[s].owner /\ row.kind = sessions[s].kind
                  /\ row.proof = sessions[s].proof /\ row.late = sessions[s].late
                  /\ row.current = sessions[s].current
                  /\ sessions[s].revoked => row.revoked
                  /\ s \in S /\ Stored(s) => row.revoked
<1>1. \A s \in SessionIds : sessions[s] \in SessionRow
  BY RowsTyped DEF Inv
<1> QED
  BY <1>1 DEF revoke, SessionRow

\* logout and mark_owner_deleting.
LEMMA RevokersMove ==
    ASSUME Inv, NEW w \in Workers, logout(w) \/ mark_owner_deleting(w)
    PROVE  Effect
<1>0. requests[w] \in RequestRow /\ RequestOK(requests[w], sessions)
  BY DEF Inv
<1>1. ASSUME NEW S, sessions' = revoke(sessions, S), mode = "durable",
             \A o \in OwnerIds : Live(o) =>
                 /\ owners'[o].kind = owners[o].kind
                 /\ owners'[o].password = owners[o].password
                 /\ SessionsOf(o) \subseteq S \/ owners'[o].state = owners[o].state
      PROVE  \A s \in SessionIds : RowMoves(s)
  <2> SUFFICES ASSUME NEW s \in SessionIds
               PROVE KeepsRow(s) /\ TokenMoves(s) /\ FollowsOwner(s)
    BY DEF RowMoves
  <2>1. sessions[s] \in SessionRow
    BY RowsTyped DEF Inv
  <2>2. KeepsRow(s)
    BY <1>1, Revoking DEF KeepsRow
  <2>3. TokenMoves(s)
    <3>1. sessions'[s].current = sessions[s].current
      BY <1>1, Revoking
    <3> QED
      BY <2>1, <3>1, OwnershipAssumption DEF SessionRow, TokenMoves
  <2>4. FollowsOwner(s)
    <3>1. /\ sessions'[s].proof = sessions[s].proof
          /\ s \in S /\ Stored(s) => sessions'[s].revoked
      BY <1>1, Revoking
    <3> QED
      BY <1>1, <3>1 DEF FollowsOwner, SessionsOf, Inv, RowsOwned, Live, StoredKinds
  <2> QED
    BY <2>2, <2>3, <2>4
<1>2. ASSUME logout(w) PROVE Effect
  <2>1. TypeOK'
    BY <1>2, RowsTyped, Revoking DEF logout, Inv, TypeOK, SessionRow, world
  <2>2. \A s \in SessionIds : RowMoves(s)
    <3>1. mode = "durable"
      BY <1>0, <1>2 DEF logout, kind_of, RequestOK, Inv, TypeOK, GuestsInMemory
    <3> QED
      BY <1>1, <1>2, <3>1 DEF logout
  <2>3. RequestMoves
    <3> DEFINE r == [requests[w] EXCEPT !.step = "logged_out"]
    <3>1. r \in RequestRow /\ RequestOK(r, sessions)
      BY <1>0 DEF RequestRow, RequestOK
    <3>2. requests' = [requests EXCEPT ![w] = r]
      BY <1>2 DEF logout, Inv
    <3> QED
      BY <3>1, <3>2 DEF RequestMoves
  <2> QED
    BY <1>2, <2>1, <2>2, <2>3 DEF logout, world, Effect
<1>3. ASSUME mark_owner_deleting(w) PROVE Effect
  <2> DEFINE o == requests[w].owner
  <2>1. CASE Refuse(w)
    BY <1>3, <2>1, Refusing DEF mark_owner_deleting
  <2>2. CASE ~Refuse(w)
    <3>0. o \in OwnerIds
      BY <1>0, <1>3 DEF mark_owner_deleting, RequestOK
    <3>1. /\ owners' = [owners EXCEPT ![o].state = "deleting", ![o].epoch = @ + 1]
          /\ sessions' = revoke(sessions, SessionsOf(o))
          /\ tasks' = tasks \cup {o}
          /\ Answer(w)
          /\ UNCHANGED <<access, convs>> /\ UNCHANGED world
      BY <1>3, <2>2 DEF mark_owner_deleting
    <3>2. owners' \in [OwnerIds -> OwnerRow]
      <4>1. owners \in [OwnerIds -> OwnerRow]
        BY RowsTyped DEF Inv
      <4>2. [owners[o] EXCEPT !.state = "deleting", !.epoch = owners[o].epoch + 1] \in OwnerRow
        <5>1. owners[o] \in OwnerRow /\ owners[o].epoch + 1 \in Nat
          BY <3>0, <4>1 DEF OwnerRow
        <5> HIDE DEF o
        <5> QED
          BY <5>1 DEF OwnerRow
      <4>3. owners' = [owners EXCEPT ![o] =
                          [owners[o] EXCEPT !.state = "deleting", !.epoch = owners[o].epoch + 1]]
        BY <3>0, <3>1, <4>1 DEF OwnerRow
      <4> QED
        BY <4>1, <4>2, <4>3
    <3>3. TypeOK'
      BY <3>0, <3>1, <3>2, RowsTyped, Revoking DEF Inv, TypeOK, OwnerRow, SessionRow, world
    <3>4. \A p \in OwnerIds : /\ owners'[p].kind = owners[p].kind
                              /\ owners'[p].password = owners[p].password
                              /\ p # o => owners'[p].state = owners[p].state
      BY <3>1, RowsTyped DEF Inv, OwnerRow
    <3>5. mode = "durable"
      BY <1>0, <1>3 DEF mark_owner_deleting, RequestOK
    <3>6. \A s \in SessionIds : RowMoves(s)
      BY <1>1, <3>1, <3>4, <3>5
    <3> QED
      BY <3>1, <3>3, <3>6, Answering DEF Effect, world
  <2> QED
    BY <2>1, <2>2
<1> QED
  BY <1>2, <1>3

\* Fresh ids belong to no row.
LEMMA FreshIds ==
    /\ \A s \in FreshSessions : s \in SessionIds /\ sessions[s].kind = "none"
    /\ \A o \in FreshOwners : o \in OwnerIds /\ owners[o].kind = "none"
  BY DEF FreshSessions, FreshOwners

\* Revoking nothing.
LEMMA RevokeNone == ASSUME Inv PROVE sessions = revoke(sessions, {})
<1>1. sessions \in [SessionIds -> SessionRow]
  BY RowsTyped DEF Inv
<1> QED
  BY <1>1 DEF revoke

\* A row is written under a fresh id, and others revoked with it.
LEMMA Opening ==
    ASSUME Inv, NEW S, NEW s \in SessionIds, NEW row \in SessionRow,
           sessions[s].kind = "none",
           sessions' = [revoke(sessions, S) EXCEPT ![s] = row],
           row.kind \in StoredKinds, row.owner \in OwnerIds,
           owners'[row.owner].kind \in StoredKinds,
           owners'[row.owner].state = "active", ~row.revoked,
           row.kind = "user" => row.proof = owners'[row.owner].password \/ row.late,
           mode = "temporary" => S = {} /\ row.kind # "user",
           \A o \in OwnerIds : Live(o) => /\ owners'[o].kind = owners[o].kind
                                          /\ owners'[o].state = owners[o].state
                                          /\ owners'[o].password = owners[o].password
    PROVE  sessions' \in [SessionIds -> SessionRow] /\ \A t \in SessionIds : RowMoves(t)
<1>1. sessions' \in [SessionIds -> SessionRow]
  BY Revoking
<1>2. RowMoves(s)
  BY Revoking DEF RowMoves, OpensRow
<1>3. ASSUME NEW t \in SessionIds, t # s PROVE RowMoves(t)
  <2>1. sessions[t] \in SessionRow /\ sessions'[t] = revoke(sessions, S)[t]
    BY <1>3, RowsTyped, Revoking DEF Inv
  <2>2. KeepsRow(t)
    <3>1. S = {} => sessions'[t] = sessions[t]
      BY <2>1, RevokeNone
    <3> QED
      BY <2>1, <3>1, Revoking DEF KeepsRow
  <2>3. TokenMoves(t)
    <3>1. sessions'[t].current = sessions[t].current
      BY <2>1, Revoking
    <3> QED
      BY <2>1, <3>1, OwnershipAssumption DEF SessionRow, TokenMoves
  <2>4. FollowsOwner(t)
    <3>1. sessions'[t].proof = sessions[t].proof
      BY <2>1, Revoking
    <3> QED
      BY <3>1 DEF FollowsOwner, Inv, RowsOwned, Live, StoredKinds
  <2> QED
    BY <2>2, <2>3, <2>4 DEF RowMoves
<1> QED
  BY <1>1, <1>2, <1>3

\* bootstrap_guest, register and create_account_session.
LEMMA OpenersMove ==
    ASSUME Inv, NEW w \in Workers,
           \/ bootstrap_guest(w)
           \/ \E name \in Names, password \in Passwords : register(w, name, password)
           \/ create_account_session(w)
    PROVE  Effect
<1> USE OwnershipAssumption DEF StoredKinds
<1>0. /\ owners \in [OwnerIds -> OwnerRow] /\ sessions \in [SessionIds -> SessionRow]
      /\ clock \in Nat /\ mode \in {"durable", "temporary"}
      /\ access \in [SessionIds -> Nat]
      /\ requests[w] \in RequestRow /\ RequestOK(requests[w], sessions)
  BY RowsTyped DEF Inv
<1>1. RefreshGrace \in Nat /\ AccessTtl \in Nat /\ GuestTtl \in Nat /\ AccountTtl \in Nat
  OBVIOUS
<1>2. ASSUME NEW s \in SessionIds, issue(s) PROVE access' \in [SessionIds -> Nat]
  <2>1. clock + AccessTtl \in Nat
    BY <1>0, <1>1
  <2> QED
    BY <1>0, <1>2, <2>1 DEF issue
<1>3. ASSUME bootstrap_guest(w) PROVE Effect
  <2>1. PICK o \in FreshOwners, s \in FreshSessions :
            /\ owners' = [owners EXCEPT ![o] =
                   [kind |-> guest_kind, state |-> "active", epoch |-> 1,
                    name |-> Nobody, password |-> Nobody]]
            /\ sessions' = [sessions EXCEPT ![s] = session_row(o, guest_kind, Nobody, FALSE)]
            /\ issue(s) /\ Answer(w)
            /\ UNCHANGED <<convs, tasks>>
    BY <1>3 DEF bootstrap_guest, create_guest
  <2>2. guest_kind \in {"guest", "temporary_guest"}
    BY DEF guest_kind
  <2>3. owners' \in [OwnerIds -> OwnerRow]
    BY <1>0, <2>1, <2>2, FreshIds DEF OwnerRow
  <2>4. sessions' \in [SessionIds -> SessionRow] /\ \A t \in SessionIds : RowMoves(t)
    <3> DEFINE row == session_row(o, guest_kind, Nobody, FALSE)
    <3>1. /\ row \in SessionRow /\ row.kind = guest_kind /\ row.owner = o
          /\ ~row.revoked
      BY <1>0, <1>1, <2>2, FreshIds DEF session_row, SessionRow
    <3>2. owners'[o].kind = guest_kind /\ owners'[o].state = "active"
      BY <1>0, <2>1, FreshIds
    <3>3. \A p \in OwnerIds : Live(p) => owners'[p] = owners[p]
      BY <1>0, <2>1, FreshIds DEF Live
    <3>4. sessions' = [revoke(sessions, {}) EXCEPT ![s] = row]
      BY <2>1, RevokeNone
    <3> HIDE DEF row
    <3> QED
      BY <2>2, <3>1, <3>2, <3>3, <3>4, FreshIds, Opening
  <2>5. TypeOK'
    BY <1>2, <1>3, <2>1, <2>3, <2>4, FreshIds, RowsTyped
       DEF bootstrap_guest, Inv, TypeOK, OwnerRow, SessionRow, world
  <2> QED
    BY <1>3, <2>1, <2>4, <2>5, Answering DEF bootstrap_guest, Effect, world
<1>4. ASSUME NEW name \in Names, NEW password \in Passwords, register(w, name, password)
      PROVE Effect
  <2>1. CASE Refuse(w)
    BY <1>4, <2>1, Refusing DEF register
  <2>2. CASE ~Refuse(w)
    <3>1. PICK guest : register_user(name, password, guest)
      BY <1>4, <2>2 DEF register
    <3>2. PICK o \in FreshOwners, s \in FreshSessions :
              /\ owners' = [owners EXCEPT ![o] =
                     [kind |-> "user", state |-> "active", epoch |-> 1,
                      name |-> name, password |-> password]]
              /\ sessions' = [revoke(sessions, guest) EXCEPT ![s] =
                     session_row(o, "user", password, FALSE)]
              /\ issue(s)
      BY <3>1 DEF register_user
    <3>3. owners' \in [OwnerIds -> OwnerRow]
      BY <1>0, <3>2, FreshIds DEF OwnerRow
    <3>4. sessions' \in [SessionIds -> SessionRow] /\ \A t \in SessionIds : RowMoves(t)
      <4> DEFINE row == session_row(o, "user", password, FALSE)
      <4>1. /\ row \in SessionRow /\ row.kind = "user" /\ row.owner = o
            /\ row.proof = password /\ ~row.revoked
        BY <1>0, <1>1, FreshIds DEF session_row, SessionRow
      <4>2. /\ owners'[o].kind = "user" /\ owners'[o].password = password
            /\ owners'[o].state = "active"
        BY <1>0, <3>2, FreshIds
      <4>3. \A p \in OwnerIds : Live(p) => owners'[p] = owners[p]
        BY <1>0, <3>2, FreshIds DEF Live
      <4>4. sessions' = [revoke(sessions, guest) EXCEPT ![s] = row]
        BY <3>2
      <4>5. mode = "durable"
        BY <1>4 DEF register
      <4> HIDE DEF row
      <4> QED
        BY <4>1, <4>2, <4>3, <4>4, <4>5, FreshIds, Opening
    <3>5. Answer(w) /\ UNCHANGED <<convs, tasks>> /\ UNCHANGED world
      BY <1>4, <2>2 DEF register
    <3>6. TypeOK'
      BY <1>2, <3>2, <3>3, <3>4, <3>5, FreshIds, RowsTyped
         DEF Inv, TypeOK, OwnerRow, SessionRow, world
    <3> QED
      BY <3>4, <3>5, <3>6, Answering DEF Effect, world
  <2> QED
    BY <2>1, <2>2
<1>5. ASSUME create_account_session(w) PROVE Effect
  <2> DEFINE o == requests[w].owner
  <2>0. o \in OwnerIds /\ requests[w].password \in Passwords /\ mode = "durable"
    BY <1>0, <1>5 DEF create_account_session, RequestOK
  <2>1. CASE Refuse(w)
    BY <1>5, <2>1, Refusing DEF create_account_session
  <2>2. CASE ~Refuse(w)
    <3> DEFINE row == session_row(o, "user", requests[w].password,
                                  requests[w].password # owners[o].password)
    <3>1. /\ takes_sessions(o) /\ owners' = owners
          /\ Answer(w) /\ UNCHANGED <<convs, tasks>> /\ UNCHANGED world
      BY <1>5, <2>2 DEF create_account_session
    <3>2. PICK s \in FreshSessions :
              /\ sessions' = [revoke(sessions, {requests[w].session}) EXCEPT ![s] = row]
              /\ issue(s)
      BY <1>5, <2>2 DEF create_account_session
    <3>3. /\ row \in SessionRow /\ row.kind = "user" /\ row.owner = o
          /\ row.proof = requests[w].password
          /\ row.late = (requests[w].password # owners[o].password)
          /\ ~row.revoked
      BY <1>0, <1>1, <2>0 DEF session_row, SessionRow
    <3>4. Live(o) /\ owners[o].state = "active"
      BY <3>1 DEF takes_sessions, owner_active
    <3>5. sessions' \in [SessionIds -> SessionRow] /\ \A t \in SessionIds : RowMoves(t)
      <4> HIDE DEF row
      <4> QED
        BY <2>0, <3>1, <3>2, <3>3, <3>4, FreshIds, Opening DEF Live
    <3>6. TypeOK'
      BY <1>2, <3>1, <3>2, <3>5, FreshIds, RowsTyped
         DEF Inv, TypeOK, SessionRow, world
    <3> QED
      BY <3>1, <3>5, <3>6, Answering DEF Effect, world
  <2> QED
    BY <2>1, <2>2
<1> QED
  BY <1>3, <1>4, <1>5

\* The next token of a row that has room for it.
LEMMA Rotating ==
    ASSUME Inv, NEW row \in SessionRow, row.current < MaxTokens
    PROVE  /\ rotated(row) \in SessionRow
           /\ rotated(row).owner = row.owner /\ rotated(row).kind = row.kind
           /\ rotated(row).proof = row.proof /\ rotated(row).late = row.late
           /\ rotated(row).revoked = row.revoked
<1>1. clock + RefreshGrace \in Nat /\ row.current + 1 \in 0..MaxTokens
  BY OwnershipAssumption DEF Inv, TypeOK, SessionRow
<1> QED
  BY <1>1 DEF rotated, SessionRow

\* refresh_rotate and store_password.
LEMMA RotatorsMove ==
    ASSUME Inv, NEW w \in Workers, refresh_rotate(w) \/ store_password(w)
    PROVE  Effect
<1> USE OwnershipAssumption
<1> DEFINE s == requests[w].session
           o == requests[w].owner
<1>0. /\ owners \in [OwnerIds -> OwnerRow] /\ sessions \in [SessionIds -> SessionRow]
      /\ clock \in Nat /\ access \in [SessionIds -> Nat]
      /\ requests[w] \in RequestRow /\ RequestOK(requests[w], sessions)
  BY RowsTyped DEF Inv
<1>1. s \in SessionIds /\ o \in OwnerIds /\ (Stored(s) => sessions[s].owner = o)
  BY <1>0 DEF refresh_rotate, store_password, RequestOK, Stored, StoredKinds
<1>2. ASSUME issue(s) PROVE access' \in [SessionIds -> Nat]
  <2>1. clock + AccessTtl \in Nat
    BY <1>0
  <2> QED
    BY <1>0, <1>1, <1>2, <2>1 DEF issue
<1>3. ASSUME refresh_rotate(w) PROVE Effect
  <2>1. CASE Refuse(w)
    BY <1>3, <2>1, Refusing DEF refresh_rotate
  <2>2. CASE issue(s) /\ Answer(w) /\ UNCHANGED <<owners, sessions, convs, tasks>>
    <3>1. TypeOK'
      BY <1>2, <1>3, <2>2 DEF refresh_rotate, Inv, TypeOK, world
    <3> QED
      BY <1>3, <2>2, <3>1, RowsStay, Answering DEF refresh_rotate, Effect, world
  <2>3. CASE /\ may_rotate(s, requests[w].token) /\ sessions[s].current < MaxTokens
             /\ sessions' = [sessions EXCEPT ![s] = rotated(@)]
             /\ issue(s) /\ Answer(w) /\ UNCHANGED <<owners, convs, tasks>>
    <3>1. sessions[s] \in SessionRow /\ sessions'[s] = rotated(sessions[s])
      BY <1>0, <1>1, <2>3
    <3>2. sessions' \in [SessionIds -> SessionRow]
      BY <1>0, <1>1, <2>3, <3>1, Rotating
    <3>3. TypeOK'
      BY <1>2, <1>3, <2>3, <3>2, RowsTyped DEF refresh_rotate, Inv, TypeOK, SessionRow, world
    <3>4. /\ Stored(s) /\ requests[w].token = sessions[s].current
          /\ ~sessions[s].revoked
      BY <1>0, <1>1, <2>3
         DEF may_rotate, rotate_refresh, rotate_refresh_in_memory, Inv, TypeOK, GuestsInMemory
    <3>5. RowMoves(s)
      <4>1. KeepsRow(s)
        BY <2>3, <3>1, Rotating DEF KeepsRow
      <4>2. TokenMoves(s)
        BY <2>3, <3>4, Answering DEF TokenMoves
      <4>3. FollowsOwner(s)
        BY <1>1, <2>3, <3>1, Rotating DEF FollowsOwner, Inv, RowsOwned, Live, StoredKinds
      <4> QED
        BY <4>1, <4>2, <4>3 DEF RowMoves
    <3>6. ASSUME NEW t \in SessionIds, t # s PROVE RowMoves(t)
      <4>1. sessions'[t] = sessions[t] /\ sessions[t].current \in Int
        BY <1>0, <2>3, <3>6 DEF SessionRow
      <4> QED
        BY <2>3, <4>1 DEF RowMoves, KeepsRow, TokenMoves, FollowsOwner, Inv, RowsOwned, Live,
                          StoredKinds
    <3> QED
      BY <1>3, <2>3, <3>3, <3>5, <3>6, Answering DEF refresh_rotate, Effect, world
  <2> QED
    BY <1>3, <2>1, <2>2, <2>3 DEF refresh_rotate
<1>4. ASSUME store_password(w) PROVE Effect
  <2> DEFINE R == revoke(sessions, SessionsOf(o) \ {s})
             kept == Stored(s) /\ ~sessions[s].revoked
             new == requests[w].password
  <2>1. /\ requests[w].step = "changing" /\ new \in Passwords
        /\ owners' = [owners EXCEPT ![o].password = IF Live(o) THEN new ELSE @]
        /\ kept => sessions[s].current < MaxTokens
        /\ sessions' = [R EXCEPT ![s] = IF kept THEN [rotated(@) EXCEPT !.proof = new] ELSE @]
        /\ kept => issue(s)
        /\ ~kept => access' = access
        /\ Answer(w) /\ UNCHANGED <<convs, tasks>> /\ UNCHANGED world
    BY <1>0, <1>4 DEF store_password, RequestOK
  <2>0. mode = "durable"
    BY <1>0, <2>1 DEF RequestOK
  <2>2. R \in [SessionIds -> SessionRow] /\ R[s] = sessions[s]
    BY <1>0, <1>1, Revoking DEF revoke
  <2>3. owners' \in [OwnerIds -> OwnerRow]
    BY <1>0, <1>1, <2>1 DEF OwnerRow
  <2>4. \A p \in OwnerIds : /\ owners'[p].kind = owners[p].kind
                            /\ owners'[p].state = owners[p].state
                            /\ p # o => owners'[p] = owners[p]
    BY <1>0, <1>1, <2>1 DEF OwnerRow
  <2>5. kept => owners'[o].password = new
    <3>1. kept => Live(o)
      BY <1>1 DEF Inv, RowsOwned
    <3> QED
      BY <1>0, <1>1, <2>1, <3>1 DEF OwnerRow
  <2>6. kept => /\ sessions'[s] = [rotated(sessions[s]) EXCEPT !.proof = new]
                /\ sessions'[s] \in SessionRow
                /\ sessions'[s].proof = new
                /\ sessions'[s].owner = o /\ sessions'[s].kind = sessions[s].kind
                /\ sessions'[s].late = sessions[s].late
                /\ sessions'[s].revoked = sessions[s].revoked
    <3> SUFFICES ASSUME kept PROVE /\ sessions'[s] = [rotated(sessions[s]) EXCEPT !.proof = new]
                                   /\ sessions'[s] \in SessionRow
                                   /\ sessions'[s].proof = new
                                   /\ sessions'[s].owner = o /\ sessions'[s].kind = sessions[s].kind
                                   /\ sessions'[s].late = sessions[s].late
                                   /\ sessions'[s].revoked = sessions[s].revoked
      OBVIOUS
    <3>1. sessions'[s] = [rotated(sessions[s]) EXCEPT !.proof = new]
      BY <1>1, <2>1, <2>2
    <3>2. /\ rotated(sessions[s]) \in SessionRow
          /\ rotated(sessions[s]).owner = sessions[s].owner
          /\ rotated(sessions[s]).kind = sessions[s].kind
          /\ rotated(sessions[s]).late = sessions[s].late
          /\ rotated(sessions[s]).revoked = sessions[s].revoked
      BY <1>0, <1>1, <2>1, Rotating
    <3>3. sessions[s].owner = o /\ new \in Passwords
      BY <1>1, <2>1
    <3> DEFINE row == rotated(sessions[s])
    <3>4. /\ row \in SessionRow /\ row.owner = o /\ row.kind = sessions[s].kind
          /\ row.late = sessions[s].late /\ row.revoked = sessions[s].revoked
      BY <3>2, <3>3
    <3>5. sessions'[s] = [row EXCEPT !.proof = new]
      BY <3>1
    <3> HIDE DEF row, new, kept
    <3>6. /\ sessions'[s] \in SessionRow /\ sessions'[s].proof = new
          /\ sessions'[s].owner = row.owner /\ sessions'[s].kind = row.kind
          /\ sessions'[s].late = row.late /\ sessions'[s].revoked = row.revoked
      BY <3>3, <3>4, <3>5 DEF SessionRow
    <3> QED
      BY <3>1, <3>4, <3>6
  <2>7. ~kept => sessions'[s] = sessions[s]
    BY <1>1, <2>1, <2>2
  <2>8. \A t \in SessionIds : t # s => sessions'[t] = R[t]
    BY <2>1, <2>2
  <2>9. sessions' \in [SessionIds -> SessionRow]
    <3>1. sessions'[s] \in SessionRow
      BY <1>0, <1>1, <2>6, <2>7
    <3>2. sessions' = [t \in SessionIds |-> sessions'[t]]
      BY <2>1, <2>2
    <3>3. \A t \in SessionIds : sessions'[t] \in SessionRow
      BY <2>2, <2>8, <3>1
    <3> QED
      BY <3>2, <3>3
  <2>10. TypeOK'
    <3>1. access' \in [SessionIds -> Nat]
      BY <1>0, <1>2, <2>1
    <3> QED
      BY <2>1, <2>3, <2>9, <3>1, RowsTyped DEF Inv, TypeOK, OwnerRow, SessionRow, world
  <2>11. RowMoves(s)
    <3>1. TokenMoves(s)
      <4>1. CASE kept
        BY <1>1, <2>1, <4>1, Answering DEF TokenMoves
      <4>2. CASE ~kept
        BY <1>0, <1>1, <2>7, <4>2 DEF TokenMoves, SessionRow
      <4> QED
        BY <4>1, <4>2
    <3>2. KeepsRow(s)
      BY <1>1, <2>0, <2>6, <2>7 DEF KeepsRow
    <3>3. FollowsOwner(s)
      BY <1>1, <2>4, <2>5, <2>6, <2>7 DEF FollowsOwner, Inv, RowsOwned, Live, StoredKinds
    <3> QED
      BY <3>1, <3>2, <3>3 DEF RowMoves
  <2>12. ASSUME NEW t \in SessionIds, t # s PROVE RowMoves(t)
    <3>1. /\ sessions'[t].owner = sessions[t].owner /\ sessions'[t].kind = sessions[t].kind
          /\ sessions'[t].proof = sessions[t].proof /\ sessions'[t].late = sessions[t].late
          /\ sessions'[t].current = sessions[t].current
          /\ sessions[t].revoked => sessions'[t].revoked
          /\ t \in SessionsOf(o) => sessions'[t].revoked
      <4>1. sessions'[t] = R[t]
        BY <2>8, <2>12
      <4>2. t \in SessionsOf(o) => t \in SessionsOf(o) \ {s} /\ Stored(t)
        BY <2>12 DEF SessionsOf
      <4> QED
        BY <4>1, <4>2, Revoking
    <3>2. KeepsRow(t)
      BY <2>0, <3>1 DEF KeepsRow
    <3>3. TokenMoves(t)
      BY <1>0, <3>1 DEF TokenMoves, SessionRow
    <3>4. FollowsOwner(t)
      BY <2>4, <3>1 DEF FollowsOwner, SessionsOf, Inv, RowsOwned, Live, StoredKinds
    <3> QED
      BY <3>2, <3>3, <3>4 DEF RowMoves
  <2> QED
    BY <2>1, <2>10, <2>11, <2>12, Answering DEF Effect, world
<1> QED
  BY <1>3, <1>4

\* finish_deletion and delete_orphan_guests: owners go with all their sessions.
LEMMA RemoversMove ==
    ASSUME Inv, (\E o \in OwnerIds : finish_deletion(o)) \/ delete_orphan_guests
    PROVE  Effect
<1> USE OwnershipAssumption
<1>0. /\ owners \in [OwnerIds -> OwnerRow] /\ sessions \in [SessionIds -> SessionRow]
      /\ access \in [SessionIds -> Nat]
  BY RowsTyped DEF Inv
<1>1. PICK S : cascade(S) /\ UNCHANGED <<convs, requests, tasks, mode, clock>>
  BY DEF finish_deletion, delete_orphan_guests
<1>2. owners' \in [OwnerIds -> OwnerRow]
  BY <1>0, <1>1 DEF cascade, NoOwner, OwnerRow
<1>3. sessions' \in [SessionIds -> SessionRow]
  <2>1. NoSession(TRUE) \in SessionRow
    BY DEF NoSession, SessionRow
  <2> QED
    BY <1>0, <1>1, <2>1 DEF cascade
<1>4. access' \in [SessionIds -> Nat]
  BY <1>0, <1>1 DEF cascade
<1>5. TypeOK'
  BY <1>1, <1>2, <1>3, <1>4, RowsTyped DEF Inv, TypeOK, OwnerRow, SessionRow
<1>6. ASSUME NEW s \in SessionIds PROVE RowMoves(s)
  <2>1. sessions[s].current \in 0..MaxTokens
    BY <1>0 DEF SessionRow
  <2>2. CASE Stored(s) /\ sessions[s].owner \in S
    <3>1. sessions'[s] = NoSession(TRUE)
      BY <1>1, <2>2 DEF cascade
    <3> QED
      BY <2>1, <2>2, <3>1 DEF RowMoves, TokenMoves, NoSession, Stored
  <2>3. CASE ~(Stored(s) /\ sessions[s].owner \in S)
    <3>1. sessions'[s] = sessions[s]
      BY <1>1, <2>3 DEF cascade
    <3>2. Stored(s) => owners'[sessions[s].owner] = owners[sessions[s].owner]
      BY <1>1, <2>3 DEF cascade, Inv, RowsOwned
    <3> QED
      BY <2>1, <3>1, <3>2 DEF RowMoves, KeepsRow, TokenMoves, FollowsOwner, Inv, RowsOwned,
                              Live, StoredKinds
  <2> QED
    BY <2>2, <2>3
<1> QED
  BY <1>1, <1>5, <1>6 DEF Effect, RequestMoves, world, vars

-----------------------------------------------------------------------------
(* The theorems.                                                           *)

\* Every action has one of the effects above.
LEMMA NextHasEffect == Inv /\ Next => Effect
  BY ReadersMove, OthersMove, RevokersMove, OpenersMove, RotatorsMove, RemoversMove
     DEF Next, Request, Continue, Maintenance

\* So has a stuttering step.
LEMMA StutterHasEffect == Inv /\ UNCHANGED vars => Effect
<1> SUFFICES ASSUME Inv, UNCHANGED vars PROVE Effect
  OBVIOUS
<1>1. TypeOK'
  BY DEF Inv, TypeOK, vars
<1> QED
  BY <1>1, RowsStay DEF vars, Effect, RequestMoves

\* Every reachable state satisfies the invariant, and every step has a known effect.
THEOREM Invariance == Spec => []Inv
<1>1. Inv /\ [Next]_vars => Inv'
  BY NextHasEffect, StutterHasEffect, EffectKeepsInv
<1> QED
  BY <1>1, Initially, PTL DEF Spec

\* The rows of owners, sessions, conversations and the clock keep their types.
THEOREM TypeCorrect == Spec => []TypeOK
<1>1. Inv => TypeOK
  BY DEF Inv
<1> QED
  BY <1>1, Invariance, PTL

\* change_password evicts: a session of an account that is not revoked was opened
\* with the present password, or by a login that was already past its check.
THEOREM PasswordEvicts == Spec => []PasswordChangeEvicts
<1>1. Inv => PasswordChangeEvicts
  BY DEF Inv
<1> QED
  BY <1>1, Invariance, PTL

\* An accepted deletion ends every session of the account: at no time later does a
\* session work that belongs to it, whatever logins, refreshes and removals were
\* under way with what they had read before.
THEOREM SessionsEnd == Spec => []SessionsEndWithTheirOwner
<1>1. Inv => SessionsEndWithTheirOwner
  BY DEF Inv
<1> QED
  BY <1>1, Invariance, PTL

\* A current refresh token is replaced only for the request that presented it or for
\* the holder of the session who changes the password, and not once it is revoked.
THEOREM TokensBelongToHolders == Spec => TokenReplacedByItsHolder
<1> DEFINE A == \A s \in SessionIds :
           Stored(s) /\ sessions'[s].current > sessions[s].current =>
               /\ ~sessions[s].revoked
               /\ \E w \in Workers :
                      /\ requests[w].session = s
                      /\ requests'[w] = Idle
                      /\ \/ requests[w].step = "changing"
                         \/ requests[w].token = sessions[s].current
<1>1. Inv /\ Next => A
  <2> SUFFICES ASSUME Inv, Next, NEW s \in SessionIds, Stored(s),
                      sessions'[s].current > sessions[s].current
               PROVE /\ ~sessions[s].revoked
                     /\ \E w \in Workers :
                            /\ requests[w].session = s
                            /\ requests'[w] = Idle
                            /\ \/ requests[w].step = "changing"
                               \/ requests[w].token = sessions[s].current
    OBVIOUS
  <2>1. sessions[s].current \in Int /\ sessions'[s].current \in Int
    BY NextHasEffect, RowsTyped, OwnershipAssumption DEF Inv, Effect, TypeOK
  <2>2. TokenMoves(s)
    BY NextHasEffect DEF Effect, RowMoves, OpensRow, Stored
  <2> QED
    BY <2>1, <2>2 DEF TokenMoves
<1> QED
  BY <1>1, Invariance, PTL DEF Spec, TokenReplacedByItsHolder

=============================================================================
