------------------------------ MODULE EsiLink ------------------------------
(***************************************************************************)
(* How a Discord user links EVE characters, and how their tokens are used. *)
(*                                                                         *)
(* /가입 (worker) creates a registration and a one-time nonce and answers   *)
(* with a link; the browser comes back from EVE to the callback server     *)
(* (orchestrator), which stores character and tokens in the registration   *)
(* and publishes esi-complete; the tenant worker, which runs one command   *)
(* at a time, moves them to the character.  Meanwhile any loop or command  *)
(* that needs a token refreshes an expired one: it reads the row, asks EVE *)
(* SSO, and writes the row.                                                *)
(***************************************************************************)
EXTENDS Naturals, FiniteSets, Sequences

CONSTANTS
    Users, Chars,
    Regs,          \* registrations, one per /가입
    Requests,      \* callback requests; a link may be opened several times
    Callers,       \* concurrent getAccessTokenForCharacter calls
    None,
    MaxRotations,  \* bound on the rotations of one grant
    MaxFaults      \* bound on errors of Redis, MySQL, SSO, and crashes

ASSUME LinkAssumption ==
    /\ None \notin Users \cup Chars \cup Regs
    /\ MaxRotations \in Nat
    /\ MaxFaults \in Nat

VARIABLES
    reg,        \* EsiRegistration rows
    nonces,     \* registrations whose nonce is in Redis
    request,    \* the callback requests
    queue,      \* esi-complete commands
    working,    \* the registration the worker has read
    owner, isMain, token, fresh,   \* EveCharacter rows; fresh: not expired
    caller,     \* the refreshes
    valid,      \* refresh tokens EVE accepts
    rotates,    \* EVE returns a new refresh token and revokes the old one
    told,       \* registrations whose browser was told that all is done
    dropped,    \* registrations that a failed step gave up
    linkers,    \* the users who confirmed a character
    faults

rows == <<owner, isMain, token, fresh>>
ghosts == <<told, dropped, linkers>>
vars == <<reg, nonces, request, queue, working, rows, caller, valid, rotates, ghosts, faults>>

\* The n-th refresh token of the grant a registration obtained.
Tokens == Regs \X (0..MaxRotations)
NoToken == <<>>

Row == [user: Users \cup {None}, status: {"none", "PENDING", "CONFIRMED"},
        char: Chars \cup {None}, main: BOOLEAN, token: Tokens \cup {NoToken}]
Request == [at: {"new", "exchange", "find", "write", "publish", "closed"},
            reg: Regs \cup {None}, char: Chars \cup {None}, main: BOOLEAN,
            token: Tokens \cup {NoToken}]
Caller == [at: {"idle", "sso", "write"}, char: Chars \cup {None},
           old: Tokens \cup {NoToken}, got: Tokens \cup {NoToken}]

TypeOK ==
    /\ reg \in [Regs -> Row]
    /\ nonces \subseteq Regs
    /\ request \in [Requests -> Request]
    /\ queue \in Seq(Regs)
    /\ working \in Regs \cup {None}
    /\ owner \in [Chars -> Users \cup {None}] /\ isMain \in [Chars -> BOOLEAN]
    /\ token \in [Chars -> Tokens \cup {NoToken}] /\ fresh \in [Chars -> BOOLEAN]
    /\ caller \in [Callers -> Caller]
    /\ valid \subseteq Tokens
    /\ rotates \in BOOLEAN
    /\ told \subseteq Regs /\ dropped \subseteq Regs
    /\ linkers \in [Chars -> SUBSET Users]
    /\ faults \in 0..MaxFaults

NewRow == [user |-> None, status |-> "none", char |-> None, main |-> FALSE, token |-> NoToken]
NewRequest == [at |-> "new", reg |-> None, char |-> None, main |-> FALSE, token |-> NoToken]
Idle == [at |-> "idle", char |-> None, old |-> NoToken, got |-> NoToken]

Init ==
    /\ reg = [r \in Regs |-> NewRow]
    /\ nonces = {}
    /\ request = [q \in Requests |-> NewRequest]
    /\ queue = <<>>
    /\ working = None
    /\ owner = [c \in Chars |-> None] /\ isMain = [c \in Chars |-> FALSE]
    /\ token = [c \in Chars |-> NoToken] /\ fresh = [c \in Chars |-> FALSE]
    /\ caller = [k \in Callers |-> Idle]
    /\ valid = {}
    /\ rotates \in BOOLEAN
    /\ told = {} /\ dropped = {}
    /\ linkers = [c \in Chars |-> {}]
    /\ faults = 0

Fault == faults < MaxFaults /\ faults' = faults + 1
-----------------------------------------------------------------------------
(***************************************************************************)
(* /가입: nonce, registration, link.                                        *)
(***************************************************************************)
Signup(r, u) ==
    /\ reg[r].status = "none"
    /\ reg' = [reg EXCEPT ![r] = [@ EXCEPT !.user = u, !.status = "PENDING"]]
    /\ nonces' = nonces \cup {r}
    /\ UNCHANGED <<request, queue, working, rows, caller, valid, rotates, ghosts, faults>>

\* The link expires; the nonce with it, a minute later.
LinkExpires(r) ==
    /\ r \in nonces
    /\ nonces' = nonces \ {r}
    /\ UNCHANGED <<reg, request, queue, working, rows, caller, valid, rotates, ghosts, faults>>
-----------------------------------------------------------------------------
(***************************************************************************)
(* The callback server.                                                    *)
(***************************************************************************)
Close(q) == request' = [request EXCEPT ![q].at = "closed"]

\* Seeded bug: GET without DEL.
GetNonce(q, r, c) ==
    /\ request[q].at = "new"
    /\ reg[r].status # "none"
    /\ IF r \in nonces
       THEN request' = [request EXCEPT ![q] =
                          [@ EXCEPT !.at = "exchange", !.reg = r, !.char = c]]
       ELSE Close(q)
    /\ UNCHANGED <<reg, nonces, queue, working, rows, caller, valid, rotates, ghosts, faults>>

\* The browser returns from the login as c: GETDEL decides who goes on.
ConsumeNonce(q, r, c) ==
    /\ request[q].at = "new"
    /\ reg[r].status # "none"
    /\ IF r \in nonces
       THEN request' = [request EXCEPT ![q] =
                          [@ EXCEPT !.at = "exchange", !.reg = r, !.char = c]]
       ELSE Close(q)
    /\ nonces' = nonces \ {r}
    /\ UNCHANGED <<reg, queue, working, rows, caller, valid, rotates, ghosts, faults>>

\* The code becomes a grant, with or without a refresh token; the character
\* is a main candidate if the user's nickname is its name.
ExchangeCode(q) ==
    /\ request[q].at = "exchange"
    /\ \E m, withToken \in BOOLEAN :
        LET t == IF withToken THEN <<request[q].reg, 0>> ELSE NoToken IN
        /\ request' = [request EXCEPT ![q] =
                         [@ EXCEPT !.at = "find", !.main = m, !.token = t]]
        /\ valid' = IF withToken THEN valid \cup {t} ELSE valid
    /\ UNCHANGED <<reg, nonces, queue, working, rows, caller, rotates, ghosts, faults>>

FindRegistration(q) ==
    /\ request[q].at = "find"
    /\ IF reg[request[q].reg].status = "PENDING"
       THEN request' = [request EXCEPT ![q].at = "write"]
       ELSE Close(q)
    /\ UNCHANGED <<reg, nonces, queue, working, rows, caller, valid, rotates, ghosts, faults>>

\* Seeded bug: a login without a refresh token is not worth a row.
WriteWithToken(q) ==
    /\ request[q].at = "write"
    /\ reg' = IF request[q].token = NoToken THEN reg
              ELSE [reg EXCEPT ![request[q].reg] =
                      [@ EXCEPT !.char = request[q].char, !.main = request[q].main,
                                !.token = request[q].token]]
    /\ request' = [request EXCEPT ![q].at = "publish"]
    /\ UNCHANGED <<nonces, queue, working, rows, caller, valid, rotates, ghosts, faults>>

WriteRegistration(q) ==
    /\ request[q].at = "write"
    /\ reg' = [reg EXCEPT ![request[q].reg] =
                 [@ EXCEPT !.char = request[q].char, !.main = request[q].main,
                           !.token = request[q].token]]
    /\ request' = [request EXCEPT ![q].at = "publish"]
    /\ UNCHANGED <<nonces, queue, working, rows, caller, valid, rotates, ghosts, faults>>

PublishComplete(q) ==
    /\ request[q].at = "publish"
    /\ queue' = Append(queue, request[q].reg)
    /\ told' = told \cup {request[q].reg}
    /\ Close(q)
    /\ UNCHANGED <<reg, nonces, working, rows, caller, valid, rotates,
                   dropped, linkers, faults>>

\* The rejected xAdd is caught, and the browser is told the same.
PublishRejected(q) ==
    /\ request[q].at = "publish"
    /\ Fault
    /\ told' = told \cup {request[q].reg}
    /\ dropped' = dropped \cup {request[q].reg}
    /\ Close(q)
    /\ UNCHANGED <<reg, nonces, queue, working, rows, caller, valid, rotates, linkers>>

\* SSO or MySQL fails, or the orchestrator dies: the nonce is spent.
RequestFails(q) ==
    /\ request[q].at \in {"exchange", "find", "write"}
    /\ Fault
    /\ dropped' = dropped \cup {request[q].reg}
    /\ Close(q)
    /\ UNCHANGED <<reg, nonces, queue, working, rows, caller, valid, rotates,
                   told, linkers>>
-----------------------------------------------------------------------------
(***************************************************************************)
(* esi-complete, in the tenant worker.                                     *)
(***************************************************************************)
\* findUnique and the checks on what it returned.
ReadRegistration ==
    /\ working = None
    /\ queue # <<>>
    /\ queue' = Tail(queue)
    /\ LET r == Head(queue) IN
       working' = IF reg[r].status = "PENDING" /\ reg[r].char # None THEN r ELSE None
    /\ UNCHANGED <<reg, nonces, request, rows, caller, valid, rotates, ghosts, faults>>

MainsOf(u) == {c \in Chars : owner[c] = u /\ isMain[c]}

\* The row is created for the user of the registration; a row that exists
\* keeps its owner.
Upsert(r, mains) ==
    LET row == reg[r] IN
    /\ owner' = [owner EXCEPT ![row.char] = IF @ = None THEN row.user ELSE @]
    /\ isMain' = [mains EXCEPT ![row.char] = IF row.main THEN TRUE ELSE @]
    /\ IF row.token = NoToken
       THEN UNCHANGED <<token, fresh>>
       ELSE /\ token' = [token EXCEPT ![row.char] = row.token]
            /\ fresh' = [fresh EXCEPT ![row.char] = TRUE]
    /\ linkers' = [linkers EXCEPT ![row.char] = @ \cup {row.user}]
    /\ reg' = [reg EXCEPT ![r] = [@ EXCEPT !.status = "CONFIRMED", !.token = NoToken]]
    /\ working' = None

\* Seeded bug: the former main stays one.
ConfirmKeeping ==
    /\ working # None
    /\ Upsert(working, isMain)
    /\ UNCHANGED <<nonces, request, queue, caller, valid, rotates, told, dropped, faults>>

\* The transaction: a main candidate displaces one main of the user.
Confirm ==
    /\ working # None
    /\ LET u == reg[working].user IN
       IF reg[working].main /\ MainsOf(u) # {}
       THEN \E m \in MainsOf(u) : Upsert(working, [isMain EXCEPT ![m] = FALSE])
       ELSE Upsert(working, isMain)
    /\ UNCHANGED <<nonces, request, queue, caller, valid, rotates, told, dropped, faults>>

\* The read or the transaction is rejected, or the worker dies: no retry.
CompleteFails ==
    /\ working # None
    /\ Fault
    /\ dropped' = dropped \cup {working}
    /\ working' = None
    /\ UNCHANGED <<reg, nonces, request, queue, rows, caller, valid, rotates,
                   told, linkers>>
-----------------------------------------------------------------------------
(***************************************************************************)
(* getAccessTokenForCharacter.                                             *)
(***************************************************************************)
AccessExpires(c) ==
    /\ fresh[c]
    /\ fresh' = [fresh EXCEPT ![c] = FALSE]
    /\ UNCHANGED <<reg, nonces, request, queue, working, owner, isMain, token, caller, valid,
                   rotates, ghosts, faults>>

ReadToken(k, c) ==
    /\ caller[k].at = "idle"
    /\ token[c] # NoToken /\ ~fresh[c]
    /\ caller' = [caller EXCEPT ![k] =
                    [at |-> "sso", char |-> c, old |-> token[c], got |-> NoToken]]
    /\ UNCHANGED <<reg, nonces, request, queue, working, rows, valid, rotates, ghosts, faults>>

\* EVE answers a valid token with an access token, and, if it rotates, with
\* the next refresh token; anything else returns null.
Refresh(k) ==
    /\ caller[k].at = "sso"
    /\ LET old == caller[k].old
           new == IF rotates THEN <<old[1], old[2] + 1>> ELSE old
       IN
       IF old \in valid
       THEN /\ new \in Tokens
            /\ valid' = (valid \ {old}) \cup {new}
            /\ caller' = [caller EXCEPT ![k] = [@ EXCEPT !.at = "write", !.got = new]]
       ELSE caller' = [caller EXCEPT ![k] = Idle] /\ UNCHANGED valid
    /\ UNCHANGED <<reg, nonces, request, queue, working, rows, rotates, ghosts, faults>>

\* Seeded bug: what EVE did not return is written as well.
WriteAnswer(k) ==
    /\ caller[k].at = "write"
    /\ token' = [token EXCEPT ![caller[k].char] = IF rotates THEN caller[k].got ELSE None]
    /\ fresh' = [fresh EXCEPT ![caller[k].char] = TRUE]
    /\ caller' = [caller EXCEPT ![k] = Idle]
    /\ UNCHANGED <<reg, nonces, request, queue, working, owner, isMain, valid, rotates,
                   ghosts, faults>>

\* Seeded bug: the refresh token of the row is written back.
WriteAccessOnly(k) ==
    /\ caller[k].at = "write"
    /\ token' = [token EXCEPT ![caller[k].char] = caller[k].old]
    /\ fresh' = [fresh EXCEPT ![caller[k].char] = TRUE]
    /\ caller' = [caller EXCEPT ![k] = Idle]
    /\ UNCHANGED <<reg, nonces, request, queue, working, owner, isMain, valid, rotates,
                   ghosts, faults>>

WriteToken(k) ==
    /\ caller[k].at = "write"
    /\ token' = [token EXCEPT ![caller[k].char] = caller[k].got]
    /\ fresh' = [fresh EXCEPT ![caller[k].char] = TRUE]
    /\ caller' = [caller EXCEPT ![k] = Idle]
    /\ UNCHANGED <<reg, nonces, request, queue, working, owner, isMain, valid, rotates,
                   ghosts, faults>>

\* EVE has answered with a refresh token for the character, which is not written yet.
Holds(k, c) == caller[k].at = "write" /\ caller[k].char = c

\* EVE does not answer, MySQL rejects, or the process dies: what EVE returned
\* is gone.
RefreshLost(k) ==
    /\ caller[k].at # "idle"
    /\ Fault
    /\ caller' = [caller EXCEPT ![k] = Idle]
    /\ UNCHANGED <<reg, nonces, request, queue, working, rows, valid, rotates,
                   told, dropped, linkers>>
-----------------------------------------------------------------------------
Serve(q) ==
    \/ \E r \in Regs, c \in Chars : ConsumeNonce(q, r, c)
    \/ ExchangeCode(q) \/ FindRegistration(q) \/ WriteRegistration(q) \/ PublishComplete(q)
Work == ReadRegistration \/ Confirm
Use(k) == (\E c \in Chars : ReadToken(k, c)) \/ Refresh(k) \/ WriteToken(k)

Next ==
    \/ \E r \in Regs : LinkExpires(r) \/ \E u \in Users : Signup(r, u)
    \/ \E q \in Requests : Serve(q) \/ PublishRejected(q) \/ RequestFails(q)
    \/ Work \/ CompleteFails
    \/ \E c \in Chars : AccessExpires(c)
    \/ \E k \in Callers : Use(k) \/ RefreshLost(k)

Spec == Init /\ [][Next]_vars

\* Awaits are answered; nobody has to sign up, return or expire.
Fairness ==
    /\ \A q \in Requests : WF_vars(/\ request[q].at # "new"
                                   /\ Serve(q))
    /\ WF_vars(Work)
FairSpec == Spec /\ Fairness
-----------------------------------------------------------------------------
\* redisNonce.js - however often a link is opened, and with whichever
\* characters, one login gets into the registration.
OneLoginPerLink ==
    [][\A r \in Regs : reg[r].char # None => reg'[r].char = reg[r].char]_vars

\* esiComplete.js - a user has at most one main, as long as no character was
\* confirmed by two users.
OneMainPerUser ==
    (\A c \in Chars : Cardinality(linkers[c]) <= 1)
        => \A u \in Users : Cardinality(MainsOf(u)) <= 1

\* Nothing is stored for the character, or EVE accepts what is stored or is about to be.
Usable(c) ==
    \/ token[c] \in valid \cup {NoToken}
    \/ \E k \in Callers : Holds(k, c) /\ caller[k].got \in valid

\* getAccessTokenForCharacter.js - neither refreshes that run at the same time nor a new link
\* of the same character next to them kill a refresh token.  The one step that does is a
\* failure between EVE's answer with a new token and the write of it.
TokenSurvives ==
    [][\A c \in Chars : Usable(c) /\ ~Usable(c)' =>
          rotates /\ \E k \in Callers : Holds(k, c) /\ RefreshLost(k)]_vars

\* esiCallbackServer.js, the page "연동이 완료되었습니다": whoever is told so is
\* confirmed in the end, unless a step failed.
ToldIsConfirmed ==
    \A r \in Regs : r \in told ~> r \in dropped \/ reg[r].status = "CONFIRMED"

\* esiComplete.js:8 - the owner is the user of the registration.
OwnerIsRegistrant ==
    [][\A r \in Regs : reg[r].status = "PENDING" /\ reg'[r].status = "CONFIRMED"
                            => owner'[reg[r].char] = reg[r].user]_vars
=============================================================================
