---------------------------- MODULE EsiLinkProofs ----------------------------
(***************************************************************************)
(* Links and tokens for every number of users, characters, links, requests *)
(* and refreshes: type correctness, one login per link, one main per user, *)
(* and the survival of refresh tokens.                                     *)
(***************************************************************************)
EXTENDS EsiLink, FiniteSetTheorems, TLAPS

(***************************************************************************)
(* Types.  TypeOK alone is not inductive: what a request, the worker or a  *)
(* refresh uses has a type only from a certain step on.                    *)
(***************************************************************************)
Underway == {"exchange", "find", "write"}

Signed == \A r \in Regs : reg[r].status # "none" => reg[r].user \in Users
Serving ==
    \A q \in Requests : request[q].at \in Underway \cup {"publish"} =>
        /\ request[q].reg \in Regs /\ request[q].char \in Chars
        /\ reg[request[q].reg].status # "none"
Completing == working # None => reg[working].status = "PENDING" /\ reg[working].char # None
Calling ==
    \A k \in Callers : caller[k].at # "idle" =>
        /\ caller[k].char \in Chars /\ caller[k].old \in Tokens
        /\ caller[k].at = "write" => caller[k].got \in Tokens

TypeInv == TypeOK /\ Signed /\ Serving /\ Completing /\ Calling

LEMMA InitTyped == Init => TypeInv
BY LinkAssumption DEF Init, TypeInv, TypeOK, Signed, Serving, Completing, Calling, Underway,
    Row, Request, Caller, NewRow, NewRequest, Idle

LEMMA NoTokenIsNone == NoToken \notin Tokens
BY DEF NoToken, Tokens

LEMMA TokenPair ==
    /\ \A r \in Regs : <<r, 0>> \in Tokens /\ <<r, 0>>[1] = r
    /\ \A t \in Tokens : t[1] \in Regs /\ t[2] \in Nat /\ t = <<t[1], t[2]>>
    /\ \A t \in Tokens, u \in Tokens : t[1] = u[1] /\ t[2] = u[2] => t = u
BY LinkAssumption DEF Tokens

\* The fields of a record, and what the updates of each kind give.
LEMMA RowFields ==
    \A x \in Row :
        /\ x.user \in Users \cup {None} /\ x.status \in {"none", "PENDING", "CONFIRMED"}
        /\ x.char \in Chars \cup {None} /\ x.main \in BOOLEAN /\ x.token \in Tokens \cup {NoToken}
BY DEF Row

LEMMA RequestFields ==
    \A x \in Request :
        /\ x.at \in {"new", "exchange", "find", "write", "publish", "closed"}
        /\ x.reg \in Regs \cup {None} /\ x.char \in Chars \cup {None} /\ x.main \in BOOLEAN
        /\ x.token \in Tokens \cup {NoToken}
BY DEF Request

-----------------------------------------------------------------------------
(***************************************************************************)
(* One login: the nonce, or the one request that has taken it, is all that *)
(* can still write a character into a registration.                        *)
(***************************************************************************)
Once ==
    /\ \A r \in nonces :
        /\ reg[r].char = None
        /\ \A q \in Requests : request[q].at \in Underway => request[q].reg # r
    /\ \A r \in Regs : reg[r].status = "none" => reg[r].char = None
    /\ \A q \in Requests : request[q].at \in Underway =>
        /\ reg[request[q].reg].char = None
        /\ \A p \in Requests :
            request[p].at \in Underway /\ request[p].reg = request[q].reg => p = q

(***************************************************************************)
(* One main: the owner of a row has confirmed it.                          *)
(***************************************************************************)
Alone == \A c \in Chars : \A u, v \in linkers[c] : u = v
Mains ==
    /\ \A c \in Chars :
        /\ IsFiniteSet(linkers[c])
        /\ owner[c] # None => owner[c] \in linkers[c]
        /\ isMain[c] => owner[c] # None
    /\ Alone => \A c, d \in Chars :
        isMain[c] /\ isMain[d] /\ owner[c] = owner[d] /\ owner[c] # None => c = d

(***************************************************************************)
(* Refresh tokens.  A token belongs to the grant of a registration and so  *)
(* to its character.  Until it is confirmed it is Unused; if EVE rotates,  *)
(* one token of a grant is valid, none is newer, and a new one is in the   *)
(* hands of one caller; otherwise every token that is stored stays valid.  *)
(***************************************************************************)
Unborn(r) ==
    \/ reg[r].status = "none" \/ r \in nonces
    \/ \E q \in Requests : request[q].at = "exchange" /\ request[q].reg = r
Busy(k) == caller[k].at # "idle"
Writing(k) == caller[k].at = "write"

Unused(t) ==
    /\ t \in valid
    /\ \A c \in Chars : token[c] # t
    /\ \A k \in Callers : (Busy(k) => caller[k].old # t) /\ (Writing(k) => caller[k].got # t)
Unborns ==
    \A r \in Regs : Unborn(r) =>
        /\ \A t \in valid : t[1] # r
        /\ \A c \in Chars : token[c] # NoToken => token[c][1] # r
        /\ \A k \in Callers : Busy(k) => caller[k].old[1] # r
Grants ==
    /\ \A q \in Requests : request[q].at \in {"find", "write"} /\ request[q].token # NoToken =>
        request[q].token = <<request[q].reg, 0>> /\ Unused(request[q].token)
    /\ \A r \in Regs : reg[r].token # NoToken => reg[r].token = <<r, 0>> /\ Unused(reg[r].token)
Owned ==
    /\ \A c \in Chars : token[c] # NoToken => reg[token[c][1]].char = c
    /\ \A k \in Callers : Busy(k) =>
        /\ reg[caller[k].old[1]].char = caller[k].char
        /\ Writing(k) => caller[k].got[1] = caller[k].old[1]
Exclusive ==
    \A k \in Callers : Writing(k) =>
        /\ caller[k].got \in valid
        /\ rotates =>
            /\ \A c \in Chars : token[c] # caller[k].got
            /\ \A j \in Callers : /\ Busy(j) => caller[j].old # caller[k].got
                                  /\ Writing(j) /\ caller[j].got = caller[k].got => j = k
Newest ==
    rotates => \A t \in valid :
        /\ \A u \in valid : u[1] = t[1] => u = t
        /\ \A c \in Chars : token[c] # NoToken /\ token[c][1] = t[1] => token[c][2] <= t[2]
        /\ \A k \in Callers : Busy(k) /\ caller[k].old[1] = t[1] =>
            caller[k].old[2] <= t[2] /\ (Writing(k) => caller[k].got[2] <= t[2])

Kept == ~rotates => \A c \in Chars : token[c] \in valid \cup {NoToken}

TokenInv == Unborns /\ Grants /\ Owned /\ Exclusive /\ Newest /\ Kept
LinkInv == TypeInv /\ Once /\ Mains /\ TokenInv

\* A stored or used token is a token of some registration.
LEMMA GrantOf ==
    ASSUME TypeInv
    PROVE  /\ \A c \in Chars : token[c] # NoToken => token[c] \in Tokens /\ token[c][1] \in Regs
           /\ \A k \in Callers : Busy(k) => caller[k].old \in Tokens /\ caller[k].old[1] \in Regs
           /\ \A k \in Callers : Writing(k) => /\ Busy(k)
                                             /\ caller[k].got \in Tokens /\ caller[k].got[1] \in Regs
BY TokenPair DEF TypeInv, TypeOK, Calling, Busy, Writing

-----------------------------------------------------------------------------
(***************************************************************************)
(* Every action keeps the invariant: first what it changes, then each part *)
(* of the invariant that reads what was changed.                           *)
(***************************************************************************)
LEMMA SignupInv ==
    ASSUME LinkInv, NEW r \in Regs, NEW u \in Users, Signup(r, u)
    PROVE  LinkInv'
<1> USE LinkAssumption DEF LinkInv, TokenInv
<1>1. /\ UNCHANGED <<request, queue, working, owner, isMain, token, fresh, caller, valid,
                 rotates, told, dropped, linkers, faults>>
      /\ reg[r].status = "none" /\ nonces' = nonces \cup {r}
  BY DEF Signup, rows, ghosts, Fault, Close, TypeInv, TypeOK
<1>2. /\ reg[r] \in Row
      /\ reg'[r] = [reg[r] EXCEPT !.user = u, !.status = "PENDING"]
  BY DEF TypeInv, TypeOK, Signup
<1>3. /\ reg'[r] \in Row
      /\ reg'[r].user = u
      /\ reg'[r].status = "PENDING"
      /\ reg'[r].char = reg[r].char
      /\ reg'[r].token = reg[r].token
  BY <1>2 DEF Row
<1>4. /\ reg' \in [Regs -> Row]
      /\ \A p \in Regs : p # r => reg'[p] = reg[p]
  BY <1>3 DEF TypeInv, TypeOK, Signup
<1>5. \A p \in Regs : reg'[p].char = reg[p].char
  BY <1>3, <1>4
<1>6. TypeInv'
  BY <1>1, <1>3, <1>4, <1>5 DEF TypeInv, TypeOK, Signed, Serving, Completing, Calling, Underway
<1>7. Once'
  <2>1. \A q \in Requests : request[q].at \in Underway => request[q].reg \in Regs \ {r}
    BY <1>1 DEF TypeInv, Serving
  <2>2. /\ reg[r].char = None
        /\ \A x \in nonces' : reg'[x].char = None
    BY <1>1, <1>5 DEF Once, TypeInv, TypeOK
  <2>3. \A x \in Regs : reg'[x].status = "none" => reg'[x].char = None
    BY <1>1, <1>3, <1>4, <1>5 DEF Once
  <2>4. QED
    BY <1>1, <1>5, <2>1, <2>2, <2>3 DEF Once
<1>8. Mains'
  BY <1>1 DEF Mains, Alone
<1>9. Unborns'
  BY <1>1, <1>3, <1>4, <1>5 DEF TypeInv, Unborns, Unborn, Busy, Serving, Underway
<1>10. Grants'
  BY <1>1, <1>3, <1>4, <1>5 DEF TypeInv, Grants, Unused, Busy, Writing, Serving, Underway
<1>11. Owned'
  BY <1>1, <1>3, <1>4, <1>5, GrantOf DEF TypeInv, Owned, Busy, Writing, Calling
<1>12. Exclusive'
  BY <1>1 DEF Exclusive, Busy, Writing
<1>13. Newest'
  BY <1>1 DEF Newest, Busy, Writing
<1>14. Kept'
  BY <1>1 DEF Kept
<1>15. QED
  BY <1>6, <1>7, <1>8, <1>9, <1>10, <1>11, <1>12, <1>13, <1>14

LEMMA ExpiryInv ==
    ASSUME LinkInv, NEW r \in Regs, LinkExpires(r)
    PROVE  LinkInv'
<1> USE LinkAssumption DEF LinkInv, TokenInv
<1>1. /\ UNCHANGED <<reg, request, queue, working, owner, isMain, token, fresh, caller,
                 valid, rotates, told, dropped, linkers, faults>>
      /\ r \in nonces /\ nonces' = nonces \ {r}
  BY DEF LinkExpires, rows, ghosts, Fault, Close, TypeInv, TypeOK
<1>2. TypeInv'
  BY <1>1 DEF TypeInv, TypeOK, Signed, Serving, Completing, Calling, Underway
<1>3. Once'
  BY <1>1 DEF TypeInv, Once, Underway, Serving, Signed
<1>4. Mains'
  BY <1>1 DEF Mains, Alone
<1>5. Unborns'
  BY <1>1 DEF TypeInv, Unborns, Unborn, Busy, Serving, Underway
<1>6. Grants'
  BY <1>1 DEF TypeInv, Grants, Unused, Busy, Writing, Serving, Underway
<1>7. Owned'
  BY <1>1 DEF TypeInv, Owned, Busy, Writing, Calling
<1>8. Exclusive'
  BY <1>1 DEF Exclusive, Busy, Writing
<1>9. Newest'
  BY <1>1 DEF Newest, Busy, Writing
<1>10. Kept'
  BY <1>1 DEF Kept
<1>11. QED
  BY <1>2, <1>3, <1>4, <1>5, <1>6, <1>7, <1>8, <1>9, <1>10

LEMMA RefusedInv ==
    ASSUME LinkInv, NEW q \in Requests, NEW r \in Regs, NEW c \in Chars, ConsumeNonce(q, r, c), r \notin nonces
    PROVE  LinkInv'
<1> USE LinkAssumption DEF LinkInv, TokenInv
<1>1. /\ UNCHANGED <<reg, nonces, queue, working, owner, isMain, token, fresh, caller, valid,
                 rotates, told, dropped, linkers, faults>>
  BY DEF ConsumeNonce, rows, ghosts, Fault, Close, TypeInv, TypeOK
<1>2. /\ request[q] \in Request
      /\ request'[q] = [request[q] EXCEPT !.at = "closed"]
  BY DEF TypeInv, TypeOK, ConsumeNonce, Close
<1>3. /\ request'[q] \in Request
      /\ request'[q].at = "closed"
  BY <1>2 DEF Request
<1>4. /\ request' \in [Requests -> Request]
      /\ \A p \in Requests : p # q => request'[p] = request[p]
  BY <1>3 DEF TypeInv, TypeOK, ConsumeNonce, Close
<1>5. TypeInv'
  BY <1>1, <1>3, <1>4 DEF TypeInv, TypeOK, Signed, Serving, Completing, Calling, Underway
<1>6. Once'
  BY <1>1, <1>3, <1>4 DEF TypeInv, Once, Underway, Serving, Signed
<1>7. Mains'
  BY <1>1 DEF Mains, Alone
<1>8. Unborns'
  BY <1>1, <1>3, <1>4 DEF TypeInv, Unborns, Unborn, Busy, Serving, Underway
<1>9. Grants'
  BY <1>1, <1>3, <1>4 DEF TypeInv, Grants, Unused, Busy, Writing, Serving, Underway
<1>10. Owned'
  BY <1>1 DEF TypeInv, Owned, Busy, Writing, Calling
<1>11. Exclusive'
  BY <1>1 DEF Exclusive, Busy, Writing
<1>12. Newest'
  BY <1>1 DEF Newest, Busy, Writing
<1>13. Kept'
  BY <1>1 DEF Kept
<1>14. QED
  BY <1>5, <1>6, <1>7, <1>8, <1>9, <1>10, <1>11, <1>12, <1>13

LEMMA AcceptedInv ==
    ASSUME LinkInv, NEW q \in Requests, NEW r \in Regs, NEW c \in Chars, ConsumeNonce(q, r, c), r \in nonces
    PROVE  LinkInv'
<1> USE LinkAssumption DEF LinkInv, TokenInv
<1>1. /\ UNCHANGED <<reg, queue, working, owner, isMain, token, fresh, caller, valid,
                 rotates, told, dropped, linkers, faults>>
      /\ request[q].at = "new" /\ reg[r].status # "none"
      /\ nonces' = nonces \ {r}
  BY DEF ConsumeNonce, rows, ghosts, Fault, Close, TypeInv, TypeOK
<1>2. /\ request[q] \in Request
      /\ request'[q] = [request[q] EXCEPT !.at = "exchange", !.reg = r, !.char = c]
  BY DEF TypeInv, TypeOK, ConsumeNonce
<1>3. /\ request'[q] \in Request
      /\ request'[q].at = "exchange"
      /\ request'[q].reg = r
      /\ request'[q].char = c
  BY <1>2 DEF Request
<1>4. /\ request' \in [Requests -> Request]
      /\ \A p \in Requests : p # q => request'[p] = request[p]
  BY <1>3 DEF TypeInv, TypeOK, ConsumeNonce
<1>5. TypeInv'
  BY <1>1, <1>3, <1>4 DEF TypeInv, TypeOK, Signed, Serving, Completing, Calling, Underway
<1>6. Once'
  BY <1>1, <1>3, <1>4 DEF TypeInv, Once, Underway, Serving, Signed
<1>7. Mains'
  BY <1>1 DEF Mains, Alone
<1>8. Unborns'
  BY <1>1, <1>3, <1>4 DEF TypeInv, Unborns, Unborn, Busy, Serving, Underway
<1>9. Grants'
  BY <1>1, <1>3, <1>4 DEF TypeInv, Grants, Unused, Busy, Writing, Serving, Underway
<1>10. Owned'
  BY <1>1 DEF TypeInv, Owned, Busy, Writing, Calling
<1>11. Exclusive'
  BY <1>1 DEF Exclusive, Busy, Writing
<1>12. Newest'
  BY <1>1 DEF Newest, Busy, Writing
<1>13. Kept'
  BY <1>1 DEF Kept
<1>14. QED
  BY <1>5, <1>6, <1>7, <1>8, <1>9, <1>10, <1>11, <1>12, <1>13

LEMMA FoundInv ==
    ASSUME LinkInv, NEW q \in Requests, FindRegistration(q), reg[request[q].reg].status = "PENDING"
    PROVE  LinkInv'
<1> USE LinkAssumption DEF LinkInv, TokenInv
<1>1. /\ UNCHANGED <<reg, nonces, queue, working, owner, isMain, token, fresh, caller, valid,
                 rotates, told, dropped, linkers, faults>>
      /\ request[q].at = "find"
  BY DEF FindRegistration, rows, ghosts, Fault, Close, TypeInv, TypeOK
<1>2. /\ request[q] \in Request
      /\ request'[q] = [request[q] EXCEPT !.at = "write"]
  BY DEF TypeInv, TypeOK, FindRegistration
<1>3. /\ request'[q] \in Request
      /\ request'[q].at = "write"
      /\ request'[q].reg = request[q].reg
      /\ request'[q].char = request[q].char
      /\ request'[q].token = request[q].token
  BY <1>2 DEF Request
<1>4. /\ request' \in [Requests -> Request]
      /\ \A p \in Requests : p # q => request'[p] = request[p]
  BY <1>3 DEF TypeInv, TypeOK, FindRegistration
<1>5. TypeInv'
  BY <1>1, <1>3, <1>4 DEF TypeInv, TypeOK, Signed, Serving, Completing, Calling, Underway
<1>6. Once'
  BY <1>1, <1>3, <1>4 DEF TypeInv, Once, Underway, Serving, Signed
<1>7. Mains'
  BY <1>1 DEF Mains, Alone
<1>8. Unborns'
  BY <1>1, <1>3, <1>4 DEF TypeInv, Unborns, Unborn, Busy, Serving, Underway
<1>9. Grants'
  BY <1>1, <1>3, <1>4 DEF TypeInv, Grants, Unused, Busy, Writing, Serving, Underway
<1>10. Owned'
  BY <1>1 DEF TypeInv, Owned, Busy, Writing, Calling
<1>11. Exclusive'
  BY <1>1 DEF Exclusive, Busy, Writing
<1>12. Newest'
  BY <1>1 DEF Newest, Busy, Writing
<1>13. Kept'
  BY <1>1 DEF Kept
<1>14. QED
  BY <1>5, <1>6, <1>7, <1>8, <1>9, <1>10, <1>11, <1>12, <1>13

LEMMA NotFoundInv ==
    ASSUME LinkInv, NEW q \in Requests, FindRegistration(q), reg[request[q].reg].status # "PENDING"
    PROVE  LinkInv'
<1> USE LinkAssumption DEF LinkInv, TokenInv
<1>1. /\ UNCHANGED <<reg, nonces, queue, working, owner, isMain, token, fresh, caller, valid,
                 rotates, told, dropped, linkers, faults>>
  BY DEF FindRegistration, rows, ghosts, Fault, Close, TypeInv, TypeOK
<1>2. /\ request[q] \in Request
      /\ request'[q] = [request[q] EXCEPT !.at = "closed"]
  BY DEF TypeInv, TypeOK, FindRegistration, Close
<1>3. /\ request'[q] \in Request
      /\ request'[q].at = "closed"
  BY <1>2 DEF Request
<1>4. /\ request' \in [Requests -> Request]
      /\ \A p \in Requests : p # q => request'[p] = request[p]
  BY <1>3 DEF TypeInv, TypeOK, FindRegistration, Close
<1>5. TypeInv'
  BY <1>1, <1>3, <1>4 DEF TypeInv, TypeOK, Signed, Serving, Completing, Calling, Underway
<1>6. Once'
  BY <1>1, <1>3, <1>4 DEF TypeInv, Once, Underway, Serving, Signed
<1>7. Mains'
  BY <1>1 DEF Mains, Alone
<1>8. Unborns'
  BY <1>1, <1>3, <1>4 DEF TypeInv, Unborns, Unborn, Busy, Serving, Underway
<1>9. Grants'
  BY <1>1, <1>3, <1>4 DEF TypeInv, Grants, Unused, Busy, Writing, Serving, Underway
<1>10. Owned'
  BY <1>1 DEF TypeInv, Owned, Busy, Writing, Calling
<1>11. Exclusive'
  BY <1>1 DEF Exclusive, Busy, Writing
<1>12. Newest'
  BY <1>1 DEF Newest, Busy, Writing
<1>13. Kept'
  BY <1>1 DEF Kept
<1>14. QED
  BY <1>5, <1>6, <1>7, <1>8, <1>9, <1>10, <1>11, <1>12, <1>13

LEMMA ExchangedInv ==
    ASSUME LinkInv, NEW q \in Requests, ExchangeCode(q)
    PROVE  LinkInv'
<1> USE LinkAssumption DEF LinkInv, TokenInv
<1>1. /\ UNCHANGED <<reg, nonces, queue, working, owner, isMain, token, fresh, caller,
                 rotates, told, dropped, linkers, faults>>
      /\ request[q].at = "exchange"
  BY DEF ExchangeCode, rows, ghosts, Fault, Close, TypeInv, TypeOK
<1>2. request[q].reg \in Regs /\ <<request[q].reg, 0>> \in Tokens /\ <<request[q].reg, 0>> # NoToken
  BY <1>1, TokenPair, NoTokenIsNone DEF TypeInv, Serving, Underway
<1>3. PICK m \in BOOLEAN, t \in {NoToken, <<request[q].reg, 0>>} :
      /\ request' = [request EXCEPT ![q] = [@ EXCEPT !.at = "find", !.main = m, !.token = t]]
      /\ valid' = IF t = NoToken THEN valid ELSE valid \cup {t}
  BY <1>2 DEF ExchangeCode
<1>4. valid' = (IF t = NoToken THEN valid ELSE valid \cup {t}) /\ t \in Tokens \cup {NoToken}
      /\ (t # NoToken => t = <<request[q].reg, 0>> /\ t[1] = request[q].reg)
  BY <1>2, <1>3, TokenPair
<1>5. /\ request[q] \in Request
      /\ request'[q] = [request[q] EXCEPT !.at = "find", !.main = m, !.token = t]
  BY <1>3 DEF TypeInv, TypeOK
<1>6. /\ request'[q] \in Request
      /\ request'[q].at = "find"
      /\ request'[q].token = t
      /\ request'[q].reg = request[q].reg
      /\ request'[q].char = request[q].char
  BY <1>5, <1>4 DEF Request
<1>7. /\ request' \in [Requests -> Request]
      /\ \A p \in Requests : p # q => request'[p] = request[p]
  BY <1>6, <1>3 DEF TypeInv, TypeOK
<1>8. t # NoToken =>
         /\ \A u \in valid : u \in Tokens /\ u[1] # t[1]
         /\ \A x \in Chars : token[x] # NoToken => token[x][1] # t[1]
         /\ \A k \in Callers : Busy(k) => caller[k].old[1] # t[1]
         /\ \A k \in Callers : Writing(k) => caller[k].got[1] # t[1]
  <2>1. Unborn(request[q].reg)
    BY <1>1 DEF Unborn
  <2>2. /\ \A u \in valid : u \in Tokens /\ u[1] # request[q].reg
        /\ \A x \in Chars : token[x] # NoToken => token[x][1] # request[q].reg
        /\ \A k \in Callers : Busy(k) => caller[k].old[1] # request[q].reg
    BY <1>2, <2>1 DEF Unborns, TypeInv, TypeOK
  <2>3. \A k \in Callers : Writing(k) => Busy(k) /\ caller[k].got[1] = caller[k].old[1]
    BY GrantOf DEF Owned
  <2>4. QED
    BY <1>4, <2>2, <2>3
<1>9. TypeInv'
  BY <1>1, <1>4, <1>6, <1>7, <1>8 DEF TypeInv, TypeOK, Signed, Serving, Completing, Calling,
      Underway
<1>10. Once'
  BY <1>1, <1>4, <1>6, <1>7, <1>8 DEF TypeInv, Once, Underway, Serving, Signed
<1>11. Mains'
  BY <1>1 DEF Mains, Alone
<1>12. Unborns'
  BY <1>1, <1>4, <1>6, <1>7, <1>8, TokenPair, GrantOf DEF TypeInv, Unborns, Unborn, Busy,
      Serving, Underway, Once
<1>13. Grants'
  <2>1. t # NoToken => Unused(t)'
    <3>1. SUFFICES ASSUME t # NoToken
                   PROVE  Unused(t)'
      OBVIOUS
    <3>2. /\ t \in valid'
          /\ \A x \in Chars : token[x] # t
          /\ \A k \in Callers : Busy(k) => caller[k].old # t
          /\ \A k \in Callers : Writing(k) => caller[k].got # t
      BY <1>4, <1>8, <3>1
    <3>3. QED
      BY <1>1, <3>2 DEF Unused, Busy, Writing
  <2>2. \A u : Unused(u) => Unused(u)'
    BY <1>1, <1>4 DEF Unused, Busy, Writing
  <2>3. QED
    BY <1>1, <1>4, <1>6, <1>7, <2>1, <2>2 DEF Grants
<1>14. Owned'
  BY <1>1 DEF TypeInv, Owned, Busy, Writing, Calling
<1>15. Exclusive'
  BY <1>1, <1>4, <1>6, <1>7, <1>8 DEF Exclusive, Busy, Writing
<1>16. Newest'
  <2>1. CASE t = NoToken
    BY <1>1, <1>4, <2>1 DEF Newest, Busy, Writing
  <2>2. CASE t # NoToken
    <3>1. valid' = valid \cup {t}
      BY <1>4, <2>2
    <3>2. SUFFICES ASSUME rotates, NEW v \in valid \cup {t}
                   PROVE  /\ \A u \in valid \cup {t} : u[1] = v[1] => u = v
                          /\ \A c \in Chars : token[c] # NoToken /\ token[c][1] = v[1] => token[c][2] <= v[2]
                          /\ \A k \in Callers : Busy(k) /\ caller[k].old[1] = v[1] =>
                              caller[k].old[2] <= v[2] /\ (Writing(k) => caller[k].got[2] <= v[2])
      BY <1>1, <3>1 DEF Newest, Busy, Writing
    <3>3. CASE v = t
      <4>1. \A k \in Callers : Writing(k) => Busy(k)
        BY DEF Writing, Busy
      <4>2. QED
        BY <1>8, <2>2, <3>3, <4>1
    <3>4. CASE v \in valid
      BY <1>8, <2>2, <3>2, <3>4 DEF Newest
    <3>5. QED
      BY <3>2, <3>3, <3>4
  <2>3. QED
    BY <2>1, <2>2
<1>17. Kept'
  BY <1>1, <1>4, <1>6, <1>7, <1>8 DEF Kept
<1>18. QED
  BY <1>9, <1>10, <1>11, <1>12, <1>13, <1>14, <1>15, <1>16, <1>17

LEMMA WrittenInv ==
    ASSUME LinkInv, NEW q \in Requests, WriteRegistration(q), NEW r \in Regs, r = request[q].reg
    PROVE  LinkInv'
<1> USE LinkAssumption DEF LinkInv, TokenInv
<1>1. /\ UNCHANGED <<nonces, queue, working, owner, isMain, token, fresh, caller, valid,
                 rotates, told, dropped, linkers, faults>>
      /\ request[q].at = "write"
      /\ request[q].char \in Chars /\ request[q].token \in Tokens \cup {NoToken}
  BY RequestFields DEF WriteRegistration, Serving, Underway, rows, ghosts, Fault, Close,
      TypeInv, TypeOK
<1>2. request[q].main \in BOOLEAN
  BY RequestFields DEF TypeInv, TypeOK
<1>3. /\ reg[r] \in Row
      /\ reg'[r] = [reg[r] EXCEPT !.char = request[q].char, !.main = request[q].main, !.token = request[q].token]
  BY DEF TypeInv, TypeOK, WriteRegistration
<1>4. /\ reg'[r] \in Row
      /\ reg'[r].char = request[q].char
      /\ reg'[r].token = request[q].token
      /\ reg'[r].user = reg[r].user
      /\ reg'[r].status = reg[r].status
  BY <1>3, <1>1, <1>2 DEF Row
<1>5. /\ reg' \in [Regs -> Row]
      /\ \A p \in Regs : p # r => reg'[p] = reg[p]
  BY <1>4 DEF TypeInv, TypeOK, WriteRegistration
<1>6. /\ request[q] \in Request
      /\ request'[q] = [request[q] EXCEPT !.at = "publish"]
  BY DEF TypeInv, TypeOK, WriteRegistration
<1>7. /\ request'[q] \in Request
      /\ request'[q].at = "publish"
      /\ request'[q].reg = request[q].reg
      /\ request'[q].char = request[q].char
      /\ request'[q].token = request[q].token
  BY <1>6 DEF Request
<1>8. /\ request' \in [Requests -> Request]
      /\ \A p \in Requests : p # q => request'[p] = request[p]
  BY <1>7 DEF TypeInv, TypeOK, WriteRegistration
<1>9. /\ reg[r].char = None /\ reg[r].status # "none" /\ r \notin nonces
      /\ \A p \in Regs : reg'[p].status = reg[p].status
      /\ \A p \in Regs \ {r} : reg'[p].char = reg[p].char
      /\ \A p \in Requests : request[p].at \in Underway /\ request[p].reg = r => p = q
  BY <1>1, <1>4, <1>5 DEF Once, Underway, TypeInv, Serving
<1>10. TypeInv'
  <2>1. TypeOK'
    BY <1>1, <1>4, <1>5, <1>7, <1>8, <1>9 DEF TypeInv, TypeOK
  <2>2. Signed'
    BY <1>1, <1>4, <1>5, <1>7, <1>8, <1>9 DEF TypeInv, Signed, TypeOK
  <2>3. Serving'
    BY <1>1, <1>4, <1>5, <1>7, <1>8, <1>9 DEF TypeInv, Serving, Underway, TypeOK
  <2>4. Completing'
    BY <1>1, <1>4, <1>5, <1>7, <1>8, <1>9 DEF TypeInv, Completing, TypeOK
  <2>5. Calling'
    BY <1>1, <1>4, <1>5, <1>7, <1>8, <1>9 DEF TypeInv, Calling, TypeOK
  <2>6. QED
    BY <2>1, <2>2, <2>3, <2>4, <2>5 DEF TypeInv
<1>11. Once'
  <2>1. \A p \in Requests : request'[p].at \in Underway =>
          /\ request[p].at \in Underway /\ request'[p].reg = request[p].reg
          /\ request[p].reg \in Regs \ {r}
    BY <1>1, <1>7, <1>8, <1>9 DEF Underway, TypeInv, Serving
  <2>2. \A x \in nonces : /\ x \in Regs \ {r} /\ reg'[x].char = None
                         /\ \A p \in Requests : request'[p].at \in Underway => request'[p].reg # x
    BY <1>9, <2>1 DEF Once, TypeInv, TypeOK
  <2>3. \A x \in Regs : reg'[x].status = "none" => reg'[x].char = None
    BY <1>9 DEF Once
  <2>4. \A p \in Requests : request'[p].at \in Underway => reg'[request'[p].reg].char = None
    BY <1>9, <2>1 DEF Once
  <2>5. QED
    BY <1>1, <2>1, <2>2, <2>3, <2>4 DEF Once
<1>12. Mains'
  BY <1>1 DEF Mains, Alone
<1>13. Unborns'
  BY <1>1, <1>4, <1>5, <1>7, <1>8, <1>9 DEF TypeInv, Unborns, Unborn, Busy, Serving, Underway
<1>14. Grants'
  BY <1>1, <1>4, <1>5, <1>7, <1>8, <1>9 DEF TypeInv, Grants, Unused, Busy, Writing, Serving,
      Underway
<1>15. Owned'
  BY <1>1, <1>4, <1>5, <1>7, <1>8, <1>9, GrantOf DEF TypeInv, Owned, Busy, Writing, Calling
<1>16. Exclusive'
  BY <1>1 DEF Exclusive, Busy, Writing
<1>17. Newest'
  BY <1>1 DEF Newest, Busy, Writing
<1>18. Kept'
  BY <1>1 DEF Kept
<1>19. QED
  BY <1>10, <1>11, <1>12, <1>13, <1>14, <1>15, <1>16, <1>17, <1>18

LEMMA PublishedInv ==
    ASSUME LinkInv, NEW q \in Requests, PublishComplete(q)
    PROVE  LinkInv'
<1> USE LinkAssumption DEF LinkInv, TokenInv
<1>1. /\ UNCHANGED <<reg, nonces, working, owner, isMain, token, fresh, caller, valid,
                 rotates, dropped, linkers, faults>>
      /\ request[q].at = "publish"
      /\ queue' \in Seq(Regs) /\ told' \subseteq Regs
  BY DEF PublishComplete, Serving, Underway, rows, ghosts, Fault, Close, TypeInv, TypeOK
<1>2. /\ request[q] \in Request
      /\ request'[q] = [request[q] EXCEPT !.at = "closed"]
  BY DEF TypeInv, TypeOK, PublishComplete, Close
<1>3. /\ request'[q] \in Request
      /\ request'[q].at = "closed"
  BY <1>2 DEF Request
<1>4. /\ request' \in [Requests -> Request]
      /\ \A p \in Requests : p # q => request'[p] = request[p]
  BY <1>3 DEF TypeInv, TypeOK, PublishComplete, Close
<1>5. TypeInv'
  BY <1>1, <1>3, <1>4 DEF TypeInv, TypeOK, Signed, Serving, Completing, Calling, Underway
<1>6. Once'
  BY <1>1, <1>3, <1>4 DEF TypeInv, Once, Underway, Serving, Signed
<1>7. Mains'
  BY <1>1 DEF Mains, Alone
<1>8. Unborns'
  BY <1>1, <1>3, <1>4 DEF TypeInv, Unborns, Unborn, Busy, Serving, Underway
<1>9. Grants'
  BY <1>1, <1>3, <1>4 DEF TypeInv, Grants, Unused, Busy, Writing, Serving, Underway
<1>10. Owned'
  BY <1>1 DEF TypeInv, Owned, Busy, Writing, Calling
<1>11. Exclusive'
  BY <1>1 DEF Exclusive, Busy, Writing
<1>12. Newest'
  BY <1>1 DEF Newest, Busy, Writing
<1>13. Kept'
  BY <1>1 DEF Kept
<1>14. QED
  BY <1>5, <1>6, <1>7, <1>8, <1>9, <1>10, <1>11, <1>12, <1>13

LEMMA RejectedInv ==
    ASSUME LinkInv, NEW q \in Requests, PublishRejected(q)
    PROVE  LinkInv'
<1> USE LinkAssumption DEF LinkInv, TokenInv
<1>1. /\ UNCHANGED <<reg, nonces, queue, working, owner, isMain, token, fresh, caller, valid,
                 rotates, linkers>>
      /\ told' \subseteq Regs /\ dropped' \subseteq Regs /\ faults' \in 0..MaxFaults
  BY DEF PublishRejected, Serving, Underway, rows, ghosts, Fault, Close, TypeInv, TypeOK
<1>2. /\ request[q] \in Request
      /\ request'[q] = [request[q] EXCEPT !.at = "closed"]
  BY DEF TypeInv, TypeOK, PublishRejected, Close
<1>3. /\ request'[q] \in Request
      /\ request'[q].at = "closed"
  BY <1>2 DEF Request
<1>4. /\ request' \in [Requests -> Request]
      /\ \A p \in Requests : p # q => request'[p] = request[p]
  BY <1>3 DEF TypeInv, TypeOK, PublishRejected, Close
<1>5. TypeInv'
  BY <1>1, <1>3, <1>4 DEF TypeInv, TypeOK, Signed, Serving, Completing, Calling, Underway
<1>6. Once'
  BY <1>1, <1>3, <1>4 DEF TypeInv, Once, Underway, Serving, Signed
<1>7. Mains'
  BY <1>1 DEF Mains, Alone
<1>8. Unborns'
  BY <1>1, <1>3, <1>4 DEF TypeInv, Unborns, Unborn, Busy, Serving, Underway
<1>9. Grants'
  BY <1>1, <1>3, <1>4 DEF TypeInv, Grants, Unused, Busy, Writing, Serving, Underway
<1>10. Owned'
  BY <1>1 DEF TypeInv, Owned, Busy, Writing, Calling
<1>11. Exclusive'
  BY <1>1 DEF Exclusive, Busy, Writing
<1>12. Newest'
  BY <1>1 DEF Newest, Busy, Writing
<1>13. Kept'
  BY <1>1 DEF Kept
<1>14. QED
  BY <1>5, <1>6, <1>7, <1>8, <1>9, <1>10, <1>11, <1>12, <1>13

LEMMA FailedInv ==
    ASSUME LinkInv, NEW q \in Requests, RequestFails(q)
    PROVE  LinkInv'
<1> USE LinkAssumption DEF LinkInv, TokenInv
<1>1. /\ UNCHANGED <<reg, nonces, queue, working, owner, isMain, token, fresh, caller, valid,
                 rotates, told, linkers>>
      /\ dropped' \subseteq Regs /\ faults' \in 0..MaxFaults
  BY DEF RequestFails, Serving, Underway, rows, ghosts, Fault, Close, TypeInv, TypeOK
<1>2. /\ request[q] \in Request
      /\ request'[q] = [request[q] EXCEPT !.at = "closed"]
  BY DEF TypeInv, TypeOK, RequestFails, Close
<1>3. /\ request'[q] \in Request
      /\ request'[q].at = "closed"
  BY <1>2 DEF Request
<1>4. /\ request' \in [Requests -> Request]
      /\ \A p \in Requests : p # q => request'[p] = request[p]
  BY <1>3 DEF TypeInv, TypeOK, RequestFails, Close
<1>5. TypeInv'
  BY <1>1, <1>3, <1>4 DEF TypeInv, TypeOK, Signed, Serving, Completing, Calling, Underway
<1>6. Once'
  BY <1>1, <1>3, <1>4 DEF TypeInv, Once, Underway, Serving, Signed
<1>7. Mains'
  BY <1>1 DEF Mains, Alone
<1>8. Unborns'
  BY <1>1, <1>3, <1>4 DEF TypeInv, Unborns, Unborn, Busy, Serving, Underway
<1>9. Grants'
  BY <1>1, <1>3, <1>4 DEF TypeInv, Grants, Unused, Busy, Writing, Serving, Underway
<1>10. Owned'
  BY <1>1 DEF TypeInv, Owned, Busy, Writing, Calling
<1>11. Exclusive'
  BY <1>1 DEF Exclusive, Busy, Writing
<1>12. Newest'
  BY <1>1 DEF Newest, Busy, Writing
<1>13. Kept'
  BY <1>1 DEF Kept
<1>14. QED
  BY <1>5, <1>6, <1>7, <1>8, <1>9, <1>10, <1>11, <1>12, <1>13

LEMMA ReadInv ==
    ASSUME LinkInv, ReadRegistration
    PROVE  LinkInv'
<1> USE LinkAssumption DEF LinkInv, TokenInv
<1>1. /\ UNCHANGED <<reg, nonces, request, owner, isMain, token, fresh, caller, valid,
                 rotates, told, dropped, linkers, faults>>
      /\ queue' \in Seq(Regs) /\ working' \in Regs \cup {None}
      /\ working' # None => reg[working'].status = "PENDING" /\ reg[working'].char # None
  BY DEF ReadRegistration, rows, ghosts, Fault, Close, TypeInv, TypeOK
<1>2. TypeInv'
  BY <1>1 DEF TypeInv, TypeOK, Signed, Serving, Completing, Calling, Underway
<1>3. Once'
  BY <1>1 DEF TypeInv, Once, Underway, Serving, Signed
<1>4. Mains'
  BY <1>1 DEF Mains, Alone
<1>5. Unborns'
  BY <1>1 DEF TypeInv, Unborns, Unborn, Busy, Serving, Underway
<1>6. Grants'
  BY <1>1 DEF TypeInv, Grants, Unused, Busy, Writing, Serving, Underway
<1>7. Owned'
  BY <1>1 DEF TypeInv, Owned, Busy, Writing, Calling
<1>8. Exclusive'
  BY <1>1 DEF Exclusive, Busy, Writing
<1>9. Newest'
  BY <1>1 DEF Newest, Busy, Writing
<1>10. Kept'
  BY <1>1 DEF Kept
<1>11. QED
  BY <1>2, <1>3, <1>4, <1>5, <1>6, <1>7, <1>8, <1>9, <1>10

LEMMA GivenUpInv ==
    ASSUME LinkInv, CompleteFails
    PROVE  LinkInv'
<1> USE LinkAssumption DEF LinkInv, TokenInv
<1>1. /\ UNCHANGED <<reg, nonces, request, queue, owner, isMain, token, fresh, caller, valid,
                 rotates, told, linkers>>
      /\ working' = None /\ dropped' \subseteq Regs /\ faults' \in 0..MaxFaults
  BY DEF CompleteFails, rows, ghosts, Fault, Close, TypeInv, TypeOK
<1>2. TypeInv'
  BY <1>1 DEF TypeInv, TypeOK, Signed, Serving, Completing, Calling, Underway
<1>3. Once'
  BY <1>1 DEF TypeInv, Once, Underway, Serving, Signed
<1>4. Mains'
  BY <1>1 DEF Mains, Alone
<1>5. Unborns'
  BY <1>1 DEF TypeInv, Unborns, Unborn, Busy, Serving, Underway
<1>6. Grants'
  BY <1>1 DEF TypeInv, Grants, Unused, Busy, Writing, Serving, Underway
<1>7. Owned'
  BY <1>1 DEF TypeInv, Owned, Busy, Writing, Calling
<1>8. Exclusive'
  BY <1>1 DEF Exclusive, Busy, Writing
<1>9. Newest'
  BY <1>1 DEF Newest, Busy, Writing
<1>10. Kept'
  BY <1>1 DEF Kept
<1>11. QED
  BY <1>2, <1>3, <1>4, <1>5, <1>6, <1>7, <1>8, <1>9, <1>10

LEMMA AgedInv ==
    ASSUME LinkInv, NEW c \in Chars, AccessExpires(c)
    PROVE  LinkInv'
<1> USE LinkAssumption DEF LinkInv, TokenInv
<1>1. /\ UNCHANGED <<reg, nonces, request, queue, working, owner, isMain, token, caller,
                 valid, rotates, told, dropped, linkers, faults>>
      /\ fresh' \in [Chars -> BOOLEAN]
  BY DEF AccessExpires, rows, ghosts, Fault, Close, TypeInv, TypeOK
<1>2. TypeInv'
  BY <1>1 DEF TypeInv, TypeOK, Signed, Serving, Completing, Calling, Underway
<1>3. Once'
  BY <1>1 DEF TypeInv, Once, Underway, Serving, Signed
<1>4. Mains'
  BY <1>1 DEF Mains, Alone
<1>5. Unborns'
  BY <1>1 DEF TypeInv, Unborns, Unborn, Busy, Serving, Underway
<1>6. Grants'
  BY <1>1 DEF TypeInv, Grants, Unused, Busy, Writing, Serving, Underway
<1>7. Owned'
  BY <1>1 DEF TypeInv, Owned, Busy, Writing, Calling
<1>8. Exclusive'
  BY <1>1 DEF Exclusive, Busy, Writing
<1>9. Newest'
  BY <1>1 DEF Newest, Busy, Writing
<1>10. Kept'
  BY <1>1 DEF Kept
<1>11. QED
  BY <1>2, <1>3, <1>4, <1>5, <1>6, <1>7, <1>8, <1>9, <1>10

LEMMA StutterInv ==
    ASSUME LinkInv, UNCHANGED vars
    PROVE  LinkInv'
<1> USE LinkAssumption DEF LinkInv, TokenInv
<1>1. /\ UNCHANGED <<reg, nonces, request, queue, working, owner, isMain, token, fresh,
                 caller, valid, rotates, told, dropped, linkers, faults>>
  BY DEF vars, rows, ghosts, Fault, Close, TypeInv, TypeOK
<1>2. TypeInv'
  BY <1>1 DEF TypeInv, TypeOK, Signed, Serving, Completing, Calling, Underway
<1>3. Once'
  BY <1>1 DEF TypeInv, Once, Underway, Serving, Signed
<1>4. Mains'
  BY <1>1 DEF Mains, Alone
<1>5. Unborns'
  BY <1>1 DEF TypeInv, Unborns, Unborn, Busy, Serving, Underway
<1>6. Grants'
  BY <1>1 DEF TypeInv, Grants, Unused, Busy, Writing, Serving, Underway
<1>7. Owned'
  BY <1>1 DEF TypeInv, Owned, Busy, Writing, Calling
<1>8. Exclusive'
  BY <1>1 DEF Exclusive, Busy, Writing
<1>9. Newest'
  BY <1>1 DEF Newest, Busy, Writing
<1>10. Kept'
  BY <1>1 DEF Kept
<1>11. QED
  BY <1>2, <1>3, <1>4, <1>5, <1>6, <1>7, <1>8, <1>9, <1>10

LEMMA TokenReadInv ==
    ASSUME LinkInv, NEW k \in Callers, NEW c \in Chars, ReadToken(k, c)
    PROVE  LinkInv'
<1> USE LinkAssumption DEF LinkInv, TokenInv
<1>1. /\ UNCHANGED <<reg, nonces, request, queue, working, owner, isMain, token, fresh,
                 valid, rotates, told, dropped, linkers, faults>>
      /\ caller[k].at = "idle"
      /\ token[c] \in Tokens
  BY DEF ReadToken, rows, ghosts, Fault, Close, TypeInv, TypeOK
<1>2. /\ caller[k] \in Caller
      /\ caller'[k] = [at |-> "sso", char |-> c, old |-> token[c], got |-> NoToken]
  BY DEF TypeInv, TypeOK, ReadToken
<1>3. /\ caller'[k] \in Caller
      /\ caller'[k].at = "sso"
      /\ caller'[k].char = c
      /\ caller'[k].old = token[c]
  BY <1>2, <1>1 DEF Caller
<1>4. /\ caller' \in [Callers -> Caller]
      /\ \A p \in Callers : p # k => caller'[p] = caller[p]
  BY <1>3 DEF TypeInv, TypeOK, ReadToken
<1>5. TypeInv'
  BY <1>1, <1>3, <1>4 DEF TypeInv, TypeOK, Signed, Serving, Completing, Calling, Underway
<1>6. Once'
  BY <1>1 DEF TypeInv, Once, Underway, Serving, Signed
<1>7. Mains'
  BY <1>1 DEF Mains, Alone
<1>8. Unborns'
  BY <1>1, <1>3, <1>4, NoTokenIsNone DEF TypeInv, Unborns, Unborn, Busy, Serving, Underway
<1>9. Grants'
  BY <1>1, <1>3, <1>4, NoTokenIsNone DEF TypeInv, Grants, Unused, Busy, Writing, Serving,
      Underway
<1>10. Owned'
  BY <1>1, <1>3, <1>4, NoTokenIsNone DEF TypeInv, Owned, Busy, Writing, Calling
<1>11. Exclusive'
  BY <1>1, <1>3, <1>4 DEF Exclusive, Busy, Writing
<1>12. Newest'
  BY <1>1, <1>3, <1>4, NoTokenIsNone DEF Newest, Busy, Writing
<1>13. Kept'
  BY <1>1, <1>3, <1>4 DEF Kept
<1>14. QED
  BY <1>5, <1>6, <1>7, <1>8, <1>9, <1>10, <1>11, <1>12, <1>13

LEMMA NotRefreshedInv ==
    ASSUME LinkInv, NEW k \in Callers, Refresh(k), caller[k].old \notin valid
    PROVE  LinkInv'
<1> USE LinkAssumption DEF LinkInv, TokenInv
<1>1. /\ UNCHANGED <<reg, nonces, request, queue, working, owner, isMain, token, fresh,
                 valid, rotates, told, dropped, linkers, faults>>
      /\ caller[k].at = "sso"
  BY DEF Refresh, rows, ghosts, Fault, Close, TypeInv, TypeOK
<1>2. /\ caller[k] \in Caller
      /\ caller'[k] = Idle
  BY DEF TypeInv, TypeOK, Refresh
<1>3. /\ caller'[k] \in Caller
      /\ caller'[k].at = "idle"
  BY <1>2 DEF Caller, Idle
<1>4. /\ caller' \in [Callers -> Caller]
      /\ \A p \in Callers : p # k => caller'[p] = caller[p]
  BY <1>3 DEF TypeInv, TypeOK, Refresh
<1>5. TypeInv'
  BY <1>1, <1>3, <1>4 DEF TypeInv, TypeOK, Signed, Serving, Completing, Calling, Underway
<1>6. Once'
  BY <1>1 DEF TypeInv, Once, Underway, Serving, Signed
<1>7. Mains'
  BY <1>1 DEF Mains, Alone
<1>8. Unborns'
  BY <1>1, <1>3, <1>4 DEF TypeInv, Unborns, Unborn, Busy, Serving, Underway
<1>9. Grants'
  BY <1>1, <1>3, <1>4 DEF TypeInv, Grants, Unused, Busy, Writing, Serving, Underway
<1>10. Owned'
  BY <1>1, <1>3, <1>4 DEF TypeInv, Owned, Busy, Writing, Calling
<1>11. Exclusive'
  BY <1>1, <1>3, <1>4 DEF Exclusive, Busy, Writing
<1>12. Newest'
  BY <1>1, <1>3, <1>4 DEF Newest, Busy, Writing
<1>13. Kept'
  BY <1>1, <1>3, <1>4 DEF Kept
<1>14. QED
  BY <1>5, <1>6, <1>7, <1>8, <1>9, <1>10, <1>11, <1>12, <1>13

LEMMA TokenWrittenInv ==
    ASSUME LinkInv, NEW k \in Callers, WriteToken(k)
    PROVE  LinkInv'
<1> USE LinkAssumption DEF LinkInv, TokenInv
<1>1. /\ UNCHANGED <<reg, nonces, request, queue, working, owner, isMain, valid, rotates,
                 told, dropped, linkers, faults>>
      /\ caller[k].at = "write" /\ caller[k].char \in Chars /\ caller[k].got \in Tokens
      /\ token' = [token EXCEPT ![caller[k].char] = caller[k].got]
      /\ fresh' \in [Chars -> BOOLEAN]
  BY DEF WriteToken, Calling, rows, ghosts, Fault, Close, TypeInv, TypeOK
<1>2. /\ caller[k] \in Caller
      /\ caller'[k] = Idle
  BY DEF TypeInv, TypeOK, WriteToken
<1>3. /\ caller'[k] \in Caller
      /\ caller'[k].at = "idle"
  BY <1>2 DEF Caller, Idle
<1>4. /\ caller' \in [Callers -> Caller]
      /\ \A p \in Callers : p # k => caller'[p] = caller[p]
  BY <1>3 DEF TypeInv, TypeOK, WriteToken
<1>5. /\ \A x \in Chars : token'[x] = IF x = caller[k].char THEN caller[k].got ELSE token[x]
      /\ Busy(k) /\ Writing(k) /\ caller[k].got \in valid /\ caller[k].got[1] = caller[k].old[1]
      /\ \A j \in Callers \ {k} : Busy(j)' = Busy(j) /\ Writing(j)' = Writing(j)
      /\ ~Busy(k)' /\ ~Writing(k)'
  BY <1>1, <1>3, <1>4 DEF TypeInv, TypeOK, Exclusive, Owned, Busy, Writing
<1>6. TypeInv'
  BY <1>1, <1>3, <1>4, <1>5 DEF TypeInv, TypeOK, Signed, Serving, Completing, Calling, Underway
<1>7. Once'
  BY <1>1 DEF TypeInv, Once, Underway, Serving, Signed
<1>8. Mains'
  BY <1>1 DEF Mains, Alone
<1>9. Unborns'
  BY <1>1, <1>3, <1>4, <1>5 DEF TypeInv, Unborns, Unborn, Busy, Serving, Underway
<1>10. Grants'
  BY <1>1, <1>3, <1>4, <1>5 DEF TypeInv, Grants, Unused, Busy, Writing, Serving, Underway
<1>11. Owned'
  BY <1>1, <1>3, <1>4, <1>5 DEF TypeInv, Owned, Busy, Writing, Calling
<1>12. Exclusive'
  BY <1>1, <1>3, <1>4, <1>5 DEF Exclusive, Busy, Writing
<1>13. Newest'
  BY <1>1, <1>3, <1>4, <1>5, GrantOf DEF Newest, Busy, Writing
<1>14. Kept'
  BY <1>1, <1>5 DEF Kept
<1>15. QED
  BY <1>6, <1>7, <1>8, <1>9, <1>10, <1>11, <1>12, <1>13, <1>14

LEMMA LostInv ==
    ASSUME LinkInv, NEW k \in Callers, RefreshLost(k)
    PROVE  LinkInv'
<1> USE LinkAssumption DEF LinkInv, TokenInv
<1>1. /\ UNCHANGED <<reg, nonces, request, queue, working, owner, isMain, token, fresh,
                 valid, rotates, told, dropped, linkers>>
      /\ faults' \in 0..MaxFaults /\ caller[k].at # "idle" /\ caller[k].char \in Chars
  BY DEF RefreshLost, Calling, rows, ghosts, Fault, Close, TypeInv, TypeOK
<1>2. /\ caller[k] \in Caller
      /\ caller'[k] = Idle
  BY DEF TypeInv, TypeOK, RefreshLost
<1>3. /\ caller'[k] \in Caller
      /\ caller'[k].at = "idle"
  BY <1>2 DEF Caller, Idle
<1>4. /\ caller' \in [Callers -> Caller]
      /\ \A p \in Callers : p # k => caller'[p] = caller[p]
  BY <1>3 DEF TypeInv, TypeOK, RefreshLost
<1>5. TypeInv'
  BY <1>1, <1>3, <1>4 DEF TypeInv, TypeOK, Signed, Serving, Completing, Calling, Underway
<1>6. Once'
  BY <1>1 DEF TypeInv, Once, Underway, Serving, Signed
<1>7. Mains'
  BY <1>1 DEF Mains, Alone
<1>8. Unborns'
  BY <1>1, <1>3, <1>4 DEF TypeInv, Unborns, Unborn, Busy, Serving, Underway
<1>9. Grants'
  BY <1>1, <1>3, <1>4 DEF TypeInv, Grants, Unused, Busy, Writing, Serving, Underway
<1>10. Owned'
  BY <1>1, <1>3, <1>4 DEF TypeInv, Owned, Busy, Writing, Calling
<1>11. Exclusive'
  BY <1>1, <1>3, <1>4 DEF Exclusive, Busy, Writing
<1>12. Newest'
  BY <1>1, <1>3, <1>4 DEF Newest, Busy, Writing
<1>13. Kept'
  BY <1>1, <1>3, <1>4 DEF Kept
<1>14. QED
  BY <1>5, <1>6, <1>7, <1>8, <1>9, <1>10, <1>11, <1>12, <1>13

LEMMA RefreshedInv ==
    ASSUME LinkInv, NEW k \in Callers, Refresh(k), NEW o, o = caller[k].old, o \in valid
    PROVE  LinkInv'
<1> USE LinkAssumption DEF LinkInv, TokenInv
<1>1. /\ UNCHANGED <<reg, nonces, request, queue, working, owner, isMain, token, fresh,
                 rotates, told, dropped, linkers, faults>>
      /\ caller[k].at = "sso" /\ Busy(k) /\ o \in Tokens /\ o[1] \in Regs /\ o[2] \in Nat
  BY GrantOf, TokenPair DEF Refresh, Calling, Busy, Writing, rows, ghosts, Fault, Close,
      TypeInv, TypeOK
<1>2. PICK n \in Tokens :
      /\ n = IF rotates THEN <<o[1], o[2] + 1>> ELSE o
      /\ valid' = (valid \ {o}) \cup {n}
      /\ caller' = [caller EXCEPT ![k] = [@ EXCEPT !.at = "write", !.got = n]]
  BY DEF Refresh
<1>3. /\ n[1] = o[1] /\ n[2] \in Nat
      /\ rotates => n[2] = o[2] + 1
      /\ ~rotates => n = o /\ valid' = valid
      /\ valid' = (valid \ {o}) \cup {n} /\ n \in Tokens /\ n \in valid'
  BY <1>1, <1>2, TokenPair
<1>4. /\ caller[k] \in Caller
      /\ caller'[k] = [caller[k] EXCEPT !.at = "write", !.got = n]
  BY <1>2 DEF TypeInv, TypeOK
<1>5. /\ caller'[k] \in Caller
      /\ caller'[k].at = "write"
      /\ caller'[k].got = n
      /\ caller'[k].char = caller[k].char
      /\ caller'[k].old = caller[k].old
  BY <1>4, <1>3 DEF Caller
<1>6. /\ caller' \in [Callers -> Caller]
      /\ \A p \in Callers : p # k => caller'[p] = caller[p]
  BY <1>5, <1>2 DEF TypeInv, TypeOK
<1>7. /\ \A j \in Callers \ {k} : Busy(j)' = Busy(j) /\ Writing(j)' = Writing(j)
      /\ Busy(k)' /\ Writing(k)' /\ ~Writing(k)
  BY <1>1, <1>5, <1>6 DEF Busy, Writing
<1>8. \A t \in Tokens : t[2] <= o[2] /\ rotates => t # n
  BY <1>1, <1>3, TokenPair
<1>9. rotates =>
         /\ n \notin valid /\ n # o
         /\ \A u \in valid : u[1] = o[1] => u = o
         /\ \A x \in Chars : token[x] # NoToken /\ token[x][1] = o[1] => token[x][2] <= o[2] /\ token[x] # n
         /\ \A j \in Callers : Busy(j) /\ caller[j].old[1] = o[1] => caller[j].old[2] <= o[2] /\ caller[j].old # n
         /\ \A j \in Callers : Writing(j) /\ caller[j].got[1] = o[1] => caller[j].got[2] <= o[2] /\ caller[j].got # n
         /\ \A j \in Callers : Writing(j) => caller[j].got # o
  BY <1>1, <1>3, <1>8, GrantOf, TokenPair DEF Newest, Exclusive, Owned
<1>10. TypeInv'
  BY <1>1, <1>3, <1>5, <1>6, <1>7, <1>9 DEF TypeInv, TypeOK, Signed, Serving, Completing,
      Calling, Underway
<1>11. Once'
  BY <1>1 DEF TypeInv, Once, Underway, Serving, Signed
<1>12. Mains'
  BY <1>1 DEF Mains, Alone
<1>13. Unborns'
  BY <1>1, <1>3, <1>5, <1>6, <1>7, <1>9, GrantOf DEF TypeInv, Unborns, Unborn, Busy, Serving,
      Underway
<1>14. Grants'
  BY <1>1, <1>3, <1>5, <1>6, <1>7, <1>9, GrantOf DEF TypeInv, Grants, Unused, Busy, Writing,
      Serving, Underway
<1>15. Owned'
  BY <1>1, <1>3, <1>5, <1>6, <1>7, <1>9, GrantOf DEF TypeInv, Owned, Busy, Writing, Calling
<1>16. Exclusive'
  BY <1>1, <1>3, <1>5, <1>6, <1>7, <1>9, GrantOf, NoTokenIsNone DEF Exclusive, Busy, Writing
<1>17. Newest'
  <2>1. SUFFICES ASSUME rotates, NEW v \in valid'
                 PROVE  /\ \A u \in valid' : u[1] = v[1] => u = v
                        /\ \A x \in Chars : token[x] # NoToken /\ token[x][1] = v[1] => token[x][2] <= v[2]
                        /\ \A j \in Callers : Busy(j)' /\ caller'[j].old[1] = v[1] =>
                            caller'[j].old[2] <= v[2] /\ (Writing(j)' => caller'[j].got[2] <= v[2])
    BY <1>1 DEF Newest
  <2>2. CASE v = n
    <3>1. \A x \in Chars : token[x] # NoToken /\ token[x][1] = v[1] => token[x][2] <= v[2]
      BY <1>1, <1>3, <1>9, <2>1, <2>2, GrantOf, TokenPair
    <3>2. ASSUME NEW j \in Callers, Busy(j)', caller'[j].old[1] = v[1]
          PROVE  caller'[j].old[2] <= v[2] /\ (Writing(j)' => caller'[j].got[2] <= v[2])
      <4>1. CASE j = k
        BY <1>1, <1>3, <1>5, <2>1, <2>2, <4>1
      <4>2. CASE j # k
        BY <1>1, <1>3, <1>6, <1>7, <1>9, <2>1, <2>2, <3>2, <4>2, GrantOf, TokenPair DEF Owned
      <4>3. QED
        BY <4>1, <4>2
    <3>3. QED
      BY <1>3, <1>9, <2>1, <2>2, <3>1, <3>2
  <2>3. CASE v # n
    <3>1. v \in valid /\ v[1] # o[1]
      BY <1>3, <1>9, <2>1, <2>3
    <3>2. QED
      BY <1>1, <1>3, <1>5, <1>6, <1>7, <2>1, <3>1 DEF Newest
  <2>4. QED
    BY <2>2, <2>3
<1>18. Kept'
  BY <1>1, <1>3 DEF Kept
<1>19. QED
  BY <1>10, <1>11, <1>12, <1>13, <1>14, <1>15, <1>16, <1>17, <1>18

LEMMA ConfirmedInv ==
    ASSUME LinkInv, NEW r \in Regs, Confirm, r = working, NEW c, c = reg[r].char, NEW u, u = reg[r].user, NEW t, t = reg[r].token
    PROVE  LinkInv'
<1> USE LinkAssumption DEF LinkInv, TokenInv
<1>1. /\ UNCHANGED <<nonces, request, queue, caller, valid, rotates, told, dropped, faults>>
  BY DEF Confirm, rows, ghosts, Fault, Close, TypeInv, TypeOK
<1>2. /\ c \in Chars /\ u \in Users /\ t \in Tokens \cup {NoToken}
      /\ reg[r].status = "PENDING" /\ reg[r].main \in BOOLEAN
  BY RowFields DEF TypeInv, TypeOK, Completing, Signed, Confirm
<1>3. PICK mains : /\ Upsert(r, mains)
                    /\ IF reg[r].main /\ MainsOf(u) # {}
                       THEN \E m \in MainsOf(u) : mains = [isMain EXCEPT ![m] = FALSE]
                       ELSE mains = isMain
  BY DEF Confirm
<1>4. /\ mains \in [Chars -> BOOLEAN]
      /\ \A x \in Chars : mains[x] => isMain[x]
      /\ Alone /\ reg[r].main => \A x \in Chars : owner[x] = u => ~mains[x]
  BY <1>2, <1>3 DEF MainsOf, Mains, TypeInv, TypeOK
<1>5. /\ owner' = [owner EXCEPT ![c] = IF @ = None THEN u ELSE @]
      /\ isMain' = [mains EXCEPT ![c] = IF reg[r].main THEN TRUE ELSE @]
      /\ linkers' = [linkers EXCEPT ![c] = @ \cup {u}]
      /\ IF t = NoToken THEN token' = token /\ fresh' = fresh
         ELSE /\ token' = [token EXCEPT ![c] = t] /\ fresh' = [fresh EXCEPT ![c] = TRUE]
      /\ reg' = [reg EXCEPT ![r] = [@ EXCEPT !.status = "CONFIRMED", !.token = NoToken]]
      /\ working' = None
  BY <1>3 DEF Upsert
<1>6. /\ \A x \in Chars : owner'[x] = IF x = c /\ owner[x] = None THEN u ELSE owner[x]
      /\ \A x \in Chars : isMain'[x] = IF x = c /\ reg[r].main THEN TRUE ELSE mains[x]
      /\ \A x \in Chars : linkers'[x] = IF x = c THEN linkers[x] \cup {u} ELSE linkers[x]
      /\ \A x \in Chars : token'[x] = IF x = c /\ t # NoToken THEN t ELSE token[x]
      /\ working' = None
  BY <1>2, <1>4, <1>5 DEF TypeInv, TypeOK
<1>7. /\ owner' \in [Chars -> Users \cup {None}] /\ isMain' \in [Chars -> BOOLEAN]
      /\ linkers' \in [Chars -> SUBSET Users]
      /\ token' \in [Chars -> Tokens \cup {NoToken}] /\ fresh' \in [Chars -> BOOLEAN]
  BY <1>2, <1>4, <1>5 DEF TypeInv, TypeOK
<1>8. /\ reg[r] \in Row
      /\ reg'[r] = [reg[r] EXCEPT !.status = "CONFIRMED", !.token = NoToken]
  BY <1>5 DEF TypeInv, TypeOK
<1>9. /\ reg'[r] \in Row
      /\ reg'[r].status = "CONFIRMED"
      /\ reg'[r].token = NoToken
      /\ reg'[r].user = reg[r].user
      /\ reg'[r].char = reg[r].char
  BY <1>8 DEF Row
<1>10. /\ reg' \in [Regs -> Row]
       /\ \A p \in Regs : p # r => reg'[p] = reg[p]
  BY <1>9, <1>5 DEF TypeInv, TypeOK
<1>11. \A p \in Regs : /\ reg'[p].char = reg[p].char /\ reg'[p].user = reg[p].user
                       /\ reg'[p].status = "none" <=> reg[p].status = "none"
  BY <1>2, <1>9, <1>10
<1>12. t # NoToken =>
          /\ t = <<r, 0>> /\ t[1] = r /\ t[2] = 0 /\ t \in valid /\ Unused(t)
          /\ ~Unborn(r)
  BY <1>2, TokenPair DEF Grants, Unborns, Unused
<1>13. TypeInv'
  <2>1. TypeOK'
    BY <1>1, <1>2, <1>6, <1>7, <1>10, <1>11 DEF TypeInv, TypeOK
  <2>2. Signed'
    BY <1>1, <1>2, <1>6, <1>7, <1>10, <1>11 DEF TypeInv, Signed, TypeOK
  <2>3. Serving'
    BY <1>1, <1>2, <1>6, <1>7, <1>10, <1>11 DEF TypeInv, Serving, Underway, TypeOK
  <2>4. Completing'
    BY <1>1, <1>2, <1>6, <1>7, <1>10, <1>11 DEF TypeInv, Completing, TypeOK
  <2>5. Calling'
    BY <1>1, <1>2, <1>6, <1>7, <1>10, <1>11 DEF TypeInv, Calling, TypeOK
  <2>6. QED
    BY <2>1, <2>2, <2>3, <2>4, <2>5 DEF TypeInv
<1>14. Once'
  BY <1>1, <1>11 DEF TypeInv, TypeOK, Once, Serving, Underway
<1>15. Mains'
  <2>1. ASSUME NEW x \in Chars
        PROVE  /\ IsFiniteSet(linkers'[x])
               /\ owner'[x] # None => owner'[x] \in linkers'[x]
               /\ isMain'[x] => owner'[x] # None
    <3>1. IsFiniteSet(linkers[x]) /\ IsFiniteSet(linkers[x] \cup {u})
      BY FS_AddElement DEF Mains
    <3>2. IsFiniteSet(linkers'[x]) /\ linkers[x] \subseteq linkers'[x]
      BY <1>6, <3>1
    <3>3. CASE x = c /\ owner[x] = None
      BY <1>2, <1>6, <3>2, <3>3
    <3>4. CASE ~(x = c /\ owner[x] = None)
      <4>1. owner'[x] = owner[x]
        BY <1>6, <3>4
      <4>2. isMain'[x] => isMain[x] \/ x = c
        BY <1>4, <1>6
      <4>3. QED
        BY <3>2, <3>4, <4>1, <4>2 DEF Mains
    <3>5. QED
      BY <3>3, <3>4
  <2>2. ASSUME Alone', NEW x \in Chars, NEW y \in Chars,
               isMain'[x], isMain'[y], owner'[x] = owner'[y], owner'[x] # None
        PROVE  x = y
    <3>1. Alone /\ owner'[c] = u
      <4>1. \A z \in Chars : linkers[z] \subseteq linkers'[z]
        BY <1>6
      <4>2. owner'[c] \in linkers'[c] /\ u \in linkers'[c]
        BY <1>2, <1>6, <2>1
      <4>3. \A z \in Chars : \A v, w \in linkers'[z] : v = w
        BY <2>2 DEF Alone
      <4>4. QED
        BY <1>2, <4>1, <4>2, <4>3 DEF Alone
    <3>2. \A z \in Chars \ {c} : /\ owner'[z] = owner[z] /\ isMain'[z] = mains[z]
                                /\ linkers'[z] = linkers[z]
      BY <1>2, <1>6
    <3>3. CASE x # c /\ y # c
      BY <1>4, <2>2, <3>1, <3>2, <3>3 DEF Mains
    <3>4. \A z \in Chars \ {c} : isMain'[z] /\ owner'[z] = u => ~isMain'[c]
      <4>1. CASE reg[r].main
        BY <1>4, <3>1, <3>2, <4>1
      <4>2. CASE ~reg[r].main
        BY <1>2, <1>4, <1>6, <3>1, <3>2, <4>2 DEF Mains
      <4>3. QED
        BY <4>1, <4>2
    <3>5. QED
      BY <1>2, <2>2, <3>1, <3>3, <3>4
  <2>3. QED
    BY <2>1, <2>2 DEF Mains
<1>16. Unborns'
  BY <1>1, <1>2, <1>4, <1>6, <1>7, <1>9, <1>10, <1>11, <1>12, GrantOf DEF TypeInv, Unborns,
      Unborn, Busy, Serving, Underway
<1>17. Grants'
  <2>1. \A v : v # t /\ Unused(v) => Unused(v)'
    BY <1>1, <1>6 DEF Unused, Busy, Writing
  <2>2. ASSUME NEW q \in Requests, NEW v, v = request[q].token,
               request[q].at \in {"find", "write"}, v # NoToken
        PROVE  v = <<request[q].reg, 0>> /\ Unused(v)'
    <3>1. request[q].reg # r /\ request[q].reg \in Regs
      BY <1>2, <2>2 DEF Once, Underway, TypeInv, Serving, Completing
    <3>2. v = <<request[q].reg, 0>> /\ Unused(v) /\ v[1] = request[q].reg
      BY <2>2, <3>1, TokenPair DEF Grants
    <3>3. v # t
      BY <1>12, <2>2, <3>1, <3>2
    <3>4. QED
      BY <2>1, <3>2, <3>3
  <2>3. ASSUME NEW p \in Regs, NEW v, v = reg'[p].token, v # NoToken
        PROVE  v = <<p, 0>> /\ Unused(v)'
    <3>1. p # r /\ reg'[p] = reg[p]
      BY <1>9, <1>10, <2>3
    <3>2. v = <<p, 0>> /\ Unused(v) /\ v[1] = p
      BY <2>3, <3>1, TokenPair DEF Grants
    <3>3. v # t
      BY <1>12, <2>3, <3>1, <3>2
    <3>4. QED
      BY <2>1, <3>2, <3>3
  <2>4. QED
    BY <1>1, <2>2, <2>3 DEF Grants, Unused
<1>18. Owned'
  BY <1>1, <1>2, <1>4, <1>6, <1>7, <1>9, <1>10, <1>11, <1>12, GrantOf DEF TypeInv, Owned,
      Busy, Writing, Calling
<1>19. Exclusive'
  BY <1>1, <1>2, <1>4, <1>6, <1>7, <1>9, <1>10, <1>11, <1>12, NoTokenIsNone DEF Exclusive,
      Busy, Writing, Unused
<1>20. Newest'
  BY <1>1, <1>2, <1>4, <1>6, <1>7, <1>9, <1>10, <1>11, <1>12, GrantOf, TokenPair DEF Newest,
      Busy, Writing, Unused
<1>21. Kept'
  BY <1>1, <1>6, <1>12 DEF Kept
<1>22. QED
  BY <1>13, <1>14, <1>15, <1>16, <1>17, <1>18, <1>19, <1>20, <1>21

-----------------------------------------------------------------------------
(***************************************************************************)
(* The invariant is inductive.                                             *)
(***************************************************************************)
LEMMA InitLinkInv == Init => LinkInv
<1> SUFFICES ASSUME Init
             PROVE  LinkInv
  OBVIOUS
<1>1. TypeInv
  BY InitTyped
<1>2. /\ \A r \in Regs : reg[r].status = "none" /\ reg[r].char = None /\ reg[r].token = NoToken
      /\ \A q \in Requests : request[q].at = "new"
      /\ \A k \in Callers : caller[k].at = "idle"
  BY DEF Init, NewRow, NewRequest, Idle
<1>3. Once
  BY <1>2 DEF Init, Once, Underway
<1>4. Mains
  BY FS_EmptySet DEF Init, Mains
<1>5. Unborns /\ Grants
  BY <1>2 DEF Init, Unborns, Grants, Busy
<1>6. Owned /\ Exclusive
  BY <1>2 DEF Init, Owned, Exclusive, Busy, Writing
<1>7. Newest /\ Kept
  BY DEF Init, Newest, Kept, NoToken
<1>8. QED
  BY <1>1, <1>3, <1>4, <1>5, <1>6, <1>7 DEF LinkInv, TokenInv

LEMMA NextLinkInv == LinkInv /\ [Next]_vars => LinkInv'
<1> SUFFICES ASSUME LinkInv, [Next]_vars
             PROVE  LinkInv'
  OBVIOUS
<1>1. ASSUME NEW r \in Regs, LinkExpires(r) \/ \E u \in Users : Signup(r, u)
      PROVE  LinkInv'
  BY <1>1, ExpiryInv, SignupInv
<1>2. ASSUME NEW q \in Requests, NEW r \in Regs, NEW c \in Chars, ConsumeNonce(q, r, c)
      PROVE  LinkInv'
  BY <1>2, RefusedInv, AcceptedInv
<1>3. ASSUME NEW q \in Requests, FindRegistration(q)
      PROVE  LinkInv'
  BY <1>3, FoundInv, NotFoundInv
<1>4. ASSUME NEW q \in Requests, WriteRegistration(q)
      PROVE  LinkInv'
  <2>1. request[q].reg \in Regs
    BY <1>4 DEF WriteRegistration, LinkInv, TypeInv, Serving, Underway
  <2>2. QED
    BY <1>4, <2>1, WrittenInv
<1>5. ASSUME NEW q \in Requests, Serve(q) \/ PublishRejected(q) \/ RequestFails(q)
      PROVE  LinkInv'
  BY <1>2, <1>3, <1>4, <1>5, ExchangedInv, PublishedInv, RejectedInv, FailedInv DEF Serve
<1>6. ASSUME Confirm
      PROVE  LinkInv'
  <2>1. working \in Regs
    BY <1>6 DEF Confirm, LinkInv, TypeInv, TypeOK
  <2>2. QED
    BY <1>6, <2>1, ConfirmedInv
<1>7. ASSUME Work \/ CompleteFails
      PROVE  LinkInv'
  BY <1>6, <1>7, ReadInv, GivenUpInv DEF Work
<1>8. ASSUME NEW k \in Callers, Refresh(k)
      PROVE  LinkInv'
  BY <1>8, RefreshedInv, NotRefreshedInv
<1>9. ASSUME NEW k \in Callers, Use(k) \/ RefreshLost(k)
      PROVE  LinkInv'
  BY <1>8, <1>9, TokenReadInv, TokenWrittenInv, LostInv DEF Use
<1>10. ASSUME NEW c \in Chars, AccessExpires(c)
       PROVE  LinkInv'
  BY <1>10, AgedInv
<1>11. ASSUME UNCHANGED vars
       PROVE  LinkInv'
  BY <1>11, StutterInv
<1>12. QED
  BY <1>1, <1>5, <1>7, <1>9, <1>10, <1>11 DEF Next

LEMMA LinkInvAlways == Spec => []LinkInv
BY InitLinkInv, NextLinkInv, PTL DEF Spec

\* Type correctness: what a request, the worker or a refresh uses is there when it is used.
THEOREM LinkTypeCorrect == Spec => []TypeOK
<1>1. LinkInv => TypeOK
  BY DEF LinkInv, TypeInv
<1>2. QED
  BY <1>1, LinkInvAlways, PTL

\* What reaches a row's character: only the write of the callback, and only while there is none.
LEMMA CharKept ==
    ASSUME LinkInv, [Next]_vars, NEW r \in Regs, reg[r].char # None
    PROVE  reg'[r].char = reg[r].char
<1> USE DEF LinkInv
<1>0. reg \in [Regs -> Row] /\ reg[r] \in Row
  BY DEF TypeInv, TypeOK
<1>1. CASE reg' = reg
  BY <1>1
<1>2. ASSUME NEW s \in Regs, NEW u \in Users, Signup(s, u)
      PROVE  reg'[r].char = reg[r].char
  <2>1. r # s
    BY <1>2 DEF Signup, Once
  <2>2. QED
    BY <1>0, <1>2, <2>1 DEF Signup
<1>3. ASSUME NEW q \in Requests, WriteRegistration(q)
      PROVE  reg'[r].char = reg[r].char
  <2>1. r # request[q].reg
    BY <1>3 DEF WriteRegistration, Once, Underway
  <2>2. QED
    BY <1>0, <1>3, <2>1 DEF WriteRegistration
<1>4. ASSUME Confirm
      PROVE  reg'[r].char = reg[r].char
  <2>1. PICK mains : Upsert(working, mains)
    BY <1>4 DEF Confirm
  <2>2. reg'[r] = reg[r] \/ reg'[r] = [reg[r] EXCEPT !.status = "CONFIRMED", !.token = NoToken]
    BY <1>0, <2>1 DEF Upsert
  <2>3. QED
    BY <1>0, <2>2 DEF Row
<1>5. QED
  BY <1>1, <1>2, <1>3, <1>4 DEF Next, Serve, Work, Use, vars, LinkExpires, ConsumeNonce,
      ExchangeCode,
      FindRegistration, PublishComplete, PublishRejected, RequestFails, ReadRegistration,
      CompleteFails, AccessExpires, ReadToken, Refresh, WriteToken, RefreshLost

\* However many browsers come back with one link, as whichever characters, its registration
\* receives one login (redisNonce.js, GETDEL; esiCallbackServer.js, PENDING checked before it
\* is written).
THEOREM LinkUsedOnce == Spec => OneLoginPerLink
<1>1. LinkInv /\ [Next]_vars => [\A r \in Regs : reg[r].char # None => reg'[r].char = reg[r].char]_vars
  BY CharKept
<1>2. QED
  BY <1>1, LinkInvAlways, PTL DEF Spec, OneLoginPerLink

\* A set of at most one element.
LEMMA AtMostOne ==
    ASSUME NEW S
    PROVE  /\ IsFiniteSet(S) /\ Cardinality(S) <= 1 => \A x, y \in S : x = y
           /\ (\A x, y \in S : x = y) => Cardinality(S) <= 1
<1>1. ASSUME IsFiniteSet(S), Cardinality(S) <= 1
      PROVE  \A x, y \in S : x = y
  <2>1. Cardinality(S) = 0 \/ Cardinality(S) = 1
    BY <1>1, FS_CardinalityType
  <2>2. S = {} \/ \E x : S = {x}
    BY <1>1, <2>1, FS_EmptySet, FS_Singleton
  <2>3. QED
    BY <2>2
<1>2. ASSUME \A x, y \in S : x = y
      PROVE  Cardinality(S) <= 1
  <2>1. CASE S = {}
    BY <2>1, FS_EmptySet
  <2>2. CASE S # {}
    <3>1. PICK x : S = {x}
      BY <1>2, <2>2
    <3>2. QED
      BY <3>1, FS_Singleton
  <2>3. QED
    BY <2>1, <2>2
<1>3. QED
  BY <1>1, <1>2

\* While no character was confirmed by two users, a user has one main character
\* (esiComplete.js, the transaction that displaces the former one).
THEOREM OneMain == Spec => []OneMainPerUser
<1>1. LinkInv => OneMainPerUser
  <2> SUFFICES ASSUME LinkInv, \A c \in Chars : Cardinality(linkers[c]) <= 1, NEW u \in Users
               PROVE  Cardinality(MainsOf(u)) <= 1
    BY DEF OneMainPerUser
  <2>1. Alone
    BY AtMostOne DEF LinkInv, Mains, Alone
  <2>2. \A c, d \in MainsOf(u) : c = d
    BY <2>1, LinkAssumption DEF LinkInv, Mains, MainsOf
  <2>3. QED
    BY <2>2, AtMostOne
<1>2. QED
  BY <1>1, LinkInvAlways, PTL

\* What is stored, or held by a caller, is not revoked by a step that leaves both alone.
LEMMA UsableStays ==
    ASSUME NEW c \in Chars, Usable(c), token'[c] = token[c], valid \subseteq valid',
           \A k \in Callers : Holds(k, c) => caller'[k] = caller[k]
    PROVE  Usable(c)'
BY DEF Usable, Holds

LEMMA UsableRefreshed ==
    ASSUME LinkInv, NEW c \in Chars, Usable(c), NEW k \in Callers, Refresh(k)
    PROVE  Usable(c)'
<1> USE DEF LinkInv, TokenInv
<1>1. /\ UNCHANGED <<reg, token, rotates>> /\ caller[k].at = "sso" /\ Busy(k)
      /\ \A j \in Callers \ {k} : caller'[j] = caller[j]
  BY DEF Refresh, rows, TypeInv, TypeOK, Busy
<1>2. CASE caller[k].old \notin valid
  BY <1>1, <1>2, UsableStays DEF Refresh, Holds
<1>3. ASSUME caller[k].old \in valid, NEW n, n = caller'[k].got
      PROVE  Usable(c)'
  <2>1. /\ valid' = (valid \ {caller[k].old}) \cup {n}
        /\ caller'[k].at = "write" /\ caller'[k].char = caller[k].char
        /\ ~rotates => n = caller[k].old
    <3>1. PICK m :
          /\ m = IF rotates THEN <<caller[k].old[1], caller[k].old[2] + 1>> ELSE caller[k].old
          /\ m \in Tokens /\ valid' = (valid \ {caller[k].old}) \cup {m}
          /\ caller' = [caller EXCEPT ![k] = [@ EXCEPT !.at = "write", !.got = m]]
      BY <1>3 DEF Refresh
    <3>2. caller[k] \in Caller /\ caller'[k] = [caller[k] EXCEPT !.at = "write", !.got = m]
      BY <3>1 DEF TypeInv, TypeOK
    <3>3. /\ caller'[k].at = "write" /\ caller'[k].got = m
          /\ caller'[k].char = caller[k].char
      BY <3>2 DEF Caller
    <3>4. QED
      BY <1>3, <3>1, <3>3
  <2>2. CASE ~rotates
    BY <1>1, <2>1, <2>2, UsableStays DEF Holds
  <2>3. CASE token[c] = caller[k].old /\ token[c] # NoToken
    <3>1. Holds(k, c)'
      BY <1>1, <2>1, <2>3 DEF Owned, Holds
    <3>2. QED
      BY <2>1, <3>1, <1>3 DEF Usable
  <2>4. CASE token[c] # caller[k].old /\ token[c] \in valid
    BY <1>1, <2>1, <2>4 DEF Usable
  <2>5. ASSUME rotates, NEW j \in Callers, Holds(j, c), caller[j].got \in valid
        PROVE  Usable(c)'
    <3>1. j # k /\ caller[j].got # caller[k].old
      BY <1>1, <2>5 DEF Holds, Exclusive, Writing
    <3>2. Holds(j, c)' /\ caller'[j].got \in valid'
      BY <1>1, <2>1, <2>5, <3>1 DEF Holds
    <3>3. QED
      BY <3>2 DEF Usable
  <2>6. CASE token[c] = NoToken
    BY <1>1, <2>6 DEF Usable
  <2>7. QED
    BY <2>2, <2>3, <2>4, <2>5, <2>6 DEF Usable
<1>4. QED
  BY <1>2, <1>3

LEMMA UsableWritten ==
    ASSUME LinkInv, NEW c \in Chars, Usable(c), NEW k \in Callers, WriteToken(k)
    PROVE  Usable(c)'
<1> USE DEF LinkInv, TokenInv
<1>1. /\ valid' = valid /\ Writing(k) /\ caller[k].got \in valid
      /\ \A j \in Callers \ {k} : caller'[j] = caller[j]
      /\ token'[c] = IF c = caller[k].char THEN caller[k].got ELSE token[c]
  BY DEF WriteToken, TypeInv, TypeOK, Exclusive, Writing
<1>2. CASE c = caller[k].char
  BY <1>1, <1>2 DEF Usable
<1>3. CASE c # caller[k].char
  BY <1>1, <1>3, UsableStays DEF Holds
<1>4. QED
  BY <1>2, <1>3

LEMMA UsableConfirmed ==
    ASSUME LinkInv, NEW c \in Chars, Usable(c), Confirm
    PROVE  Usable(c)'
<1> USE DEF LinkInv, TokenInv
<1>1. caller' = caller /\ valid' = valid /\ working \in Regs
  BY DEF Confirm, TypeInv, TypeOK
<1>2. token' = token \/ (/\ reg[working].token # NoToken
                         /\ token' = [token EXCEPT ![reg[working].char] = reg[working].token])
  BY DEF Confirm, Upsert
<1>3. token'[c] = token[c] \/ token'[c] \in valid
  BY <1>1, <1>2 DEF TypeInv, TypeOK, Grants, Unused
<1>4. QED
  BY <1>1, <1>3, UsableStays DEF Usable

LEMMA UsableLost ==
    ASSUME LinkInv, NEW c \in Chars, Usable(c), NEW k \in Callers, RefreshLost(k),
           ~(rotates /\ Holds(k, c))
    PROVE  Usable(c)'
<1> USE DEF LinkInv, TokenInv
<1>1. /\ UNCHANGED <<token, valid>>
      /\ \A j \in Callers \ {k} : caller'[j] = caller[j]
  BY DEF RefreshLost, rows, TypeInv, TypeOK
<1>2. CASE ~rotates
  BY <1>1, <1>2 DEF Kept, Usable
<1>3. CASE ~Holds(k, c)
  BY <1>1, <1>3, UsableStays
<1>4. QED
  BY <1>2, <1>3

LEMMA OnlyLossKills ==
    ASSUME LinkInv, [Next]_vars, NEW c \in Chars, Usable(c), ~Usable(c)'
    PROVE  rotates /\ \E k \in Callers : Holds(k, c) /\ RefreshLost(k)
<1>1. ~(UNCHANGED <<token, valid, caller>>)
  BY UsableStays
<1>2. \A q \in Requests : ~ExchangeCode(q)
  BY UsableStays DEF ExchangeCode, rows
<1>3. \A k \in Callers, d \in Chars : ~ReadToken(k, d)
  <2> SUFFICES ASSUME NEW k \in Callers, NEW d \in Chars, ReadToken(k, d)
               PROVE  FALSE
    OBVIOUS
  <2>1. UNCHANGED <<token, valid>> /\ caller[k].at = "idle"
        /\ \A j \in Callers \ {k} : caller'[j] = caller[j]
    BY DEF ReadToken, rows, LinkInv, TypeInv, TypeOK
  <2>2. QED
    BY <2>1, UsableStays DEF Holds
<1>4. \A k \in Callers : ~Refresh(k) /\ ~WriteToken(k)
  BY UsableRefreshed, UsableWritten
<1>5. ~Confirm
  BY UsableConfirmed
<1>6. \E k \in Callers : RefreshLost(k)
  BY <1>1, <1>2, <1>3, <1>4, <1>5
  DEF Next, Serve, Work, Use, vars, rows, Signup, LinkExpires, ConsumeNonce, FindRegistration,
      WriteRegistration, PublishComplete, PublishRejected, RequestFails, ReadRegistration,
      CompleteFails, AccessExpires
<1>7. QED
  BY <1>6, UsableLost

\* Neither any number of callers that refresh at once nor new links of the same character next
\* to them take a character's last usable refresh token: the only step that does is a failure
\* of a caller of that character between the answer of an EVE that rotates and the write of
\* what it answered (getAccessTokenForCharacter.js).
THEOREM RefreshTokenSurvives == Spec => TokenSurvives
<1>1. LinkInv /\ [Next]_vars =>
        [\A c \in Chars : Usable(c) /\ ~Usable(c)' =>
            rotates /\ \E k \in Callers : Holds(k, c) /\ RefreshLost(k)]_vars
  BY OnlyLossKills
<1>2. QED
  BY <1>1, LinkInvAlways, PTL DEF Spec, TokenSurvives
=============================================================================
