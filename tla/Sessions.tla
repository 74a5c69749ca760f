------------------------------ MODULE Sessions ------------------------------
(***************************************************************************)
(* The owner account and its sessions: first setup, login with lock-out,   *)
(* refresh tokens, logout and the change of the password.                  *)
(*                                                                         *)
(* auth/service.go, refresh.go, logout.go, change_password.go, token.go,   *)
(* current_user.go, auth/postgres/repository.go, auth/http/.               *)
(*                                                                         *)
(* A request reads the row of the user, decides, and writes it; requests   *)
(* of several browsers interleave between those.  A password and its hash  *)
(* are one value.  An access token carries no state that is looked up, so  *)
(* only refresh tokens are kept; signatures and encodings are left out.    *)
(***************************************************************************)
EXTENDS Integers, Sequences

CONSTANTS
    Browsers,     \* each has one cookie and one request at a time
    Passwords,
    HistoryDepth, \* passwordHistoryDepth
    LockAfter,    \* failed attempts that lock the account (5)
    LockTime,     \* how long it is locked (5 minutes; longer from 10 and from 20)
    Lifetime,     \* JWTRefreshExpiry
    MaxTokens, MaxBegun, MaxTime,   \* bounds
    NoUser, NoToken

\* The columns of a user that count here.
Row == [password : Passwords, version : Nat, failed : Nat, locked : BOOLEAN, until : Nat]

ASSUME SessionsAssumption ==
    /\ HistoryDepth \in Nat \ {0} /\ LockAfter \in Nat \ {0}
    /\ LockTime \in Nat \ {0} /\ Lifetime \in Nat \ {0}
    /\ MaxTokens \in Nat /\ MaxBegun \in Nat /\ MaxTime \in Nat
    /\ NoUser \notin Row

VARIABLES
    now,
    user,      \* the only row of users
    history,   \* the user's rows of password_history, newest first
    tokens,    \* refresh tokens given out
    revoked,   \* the table revoked_tokens: indexes of tokens
    cookie,    \* the refresh_token cookie of each browser
    request,   \* the request of each browser
    begun,      \* requests so far
    changes,   \* passwords changed so far
    granted    \* for each refresh that gave an access token, what held when it began

sessionVars == <<now, user, history, tokens, revoked, cookie, request, begun, changes, granted>>
table == <<user, history, revoked>>

NoRequest == [at |-> "none", row |-> NoUser, try |-> NoUser, new |-> NoUser,
              token |-> NoToken, out |-> FALSE, epoch |-> 0]

SessionsTypeOK ==
    /\ user = NoUser \/ user \in Row
    /\ history \in Seq(Passwords) /\ Len(history) < HistoryDepth
    /\ Len(tokens) <= MaxTokens /\ revoked \subseteq DOMAIN tokens
    /\ cookie \in [Browsers -> DOMAIN tokens \cup {NoToken}]

SessionsInit ==
    /\ now = 0 /\ user = NoUser /\ history = <<>>
    /\ tokens = <<>> /\ revoked = {}
    /\ cookie = [b \in Browsers |-> NoToken]
    /\ request = [b \in Browsers |-> NoRequest]
    /\ begun = 0 /\ changes = 0 /\ granted = {}

Tick == /\ now < MaxTime /\ now' = now + 1
        /\ UNCHANGED <<table, tokens, cookie, request, begun, changes, granted>>

Begins(b, r) ==
    /\ request[b].at = "none" /\ begun < MaxBegun
    /\ begun' = begun + 1
    /\ request' = [request EXCEPT ![b] = r]
    /\ UNCHANGED <<now, table, tokens, cookie, changes, granted>>
Ends(b) == request' = [request EXCEPT ![b] = NoRequest]
Goes(b, r) == request' = [request EXCEPT ![b] = r]

IsLocked(row) == row.locked /\ now < row.until
Newest(s, n) == SubSeq(s, 1, IF n < Len(s) THEN n ELSE Len(s))

----------------------------------------------------------------------------
(* Setup: the table is locked and counted in one transaction. *)

Setup(b, p) ==
    /\ request[b].at = "none" /\ begun < MaxBegun /\ begun' = begun + 1
    /\ user' = IF user = NoUser
               THEN [password |-> p, version |-> 0, failed |-> 0,
                     locked |-> FALSE, until |-> 0]
               ELSE user     \* AUTH008
    /\ UNCHANGED <<now, history, tokens, revoked, cookie, request, changes, granted>>

----------------------------------------------------------------------------
(* Login *)

\* FindByUsername; a locked account, or no account, is refused.
LoginRead(b, p) ==
    /\ user # NoUser /\ ~IsLocked(user)
    /\ Begins(b, [NoRequest EXCEPT !.at = "login", !.row = user, !.try = p, !.epoch = changes])

\* What a login makes of the row it read.
Judged(row, p) ==
    IF row.password = p
    THEN [row EXCEPT !.failed = 0, !.locked = FALSE, !.until = 0]
    ELSE IF row.failed + 1 >= LockAfter
         THEN [row EXCEPT !.failed = @ + 1, !.locked = TRUE, !.until = now + LockTime]
         ELSE [row EXCEPT !.failed = @ + 1]

\* Faulty variant: the version is one of the columns that a login writes.
UpdateAll(row) == user' = row

\* Update writes all columns it knows as the request read and changed them, the
\* password's hash among them, but not session_version.
Update(row) == user' = [row EXCEPT !.version = user.version]

\* generateRefreshToken: for the version of the row as it was read.
RefreshToken(row, epoch) ==
    [version |-> row.version, expires |-> now + Lifetime, epoch |-> epoch]

\* A wrong password ends here; a right one gives a token pair for the row as it was
\* read, and the cookie.
LoginWrite(b) ==
    LET row == request[b].row
        right == row.password = request[b].try
    IN  /\ request[b].at = "login" /\ Len(tokens) < MaxTokens
        /\ Update(Judged(row, request[b].try))
        /\ IF right
           THEN /\ tokens' = Append(tokens, RefreshToken(row, request[b].epoch))
                /\ cookie' = [cookie EXCEPT ![b] = Len(tokens')]
           ELSE UNCHANGED <<tokens, cookie>>
        /\ Ends(b)
        /\ UNCHANGED <<now, history, revoked, begun, changes, granted>>

----------------------------------------------------------------------------
(* Refresh *)

Parses(t) == t \in DOMAIN tokens /\ now < tokens[t].expires

\* ParseToken and IsTokenRevoked.
RefreshCheck(b) ==
    LET t == cookie[b]
    IN  /\ t # NoToken /\ Parses(t) /\ t \notin revoked     \* else AUTH005
        /\ Begins(b, [NoRequest EXCEPT !.at = "refresh", !.token = t, !.epoch = changes])

\* FindByID: the session must be of the user's version, and the user not locked.
RefreshFind(b) ==
    LET t == request[b].token
    IN  /\ request[b].at = "refresh"
        /\ granted' = IF tokens[t].version = user.version /\ ~IsLocked(user)
                      THEN granted \cup {[token |-> t, epoch |-> request[b].epoch]}
                      ELSE granted
        /\ Ends(b)
        /\ UNCHANGED <<now, table, tokens, cookie, begun, changes>>

----------------------------------------------------------------------------
(* Logout *)

\* A token that does not parse, or is revoked, ends the request and the cookie.
LogoutCheck(b) ==
    LET t == cookie[b]
    IN  /\ request[b].at = "none" /\ begun < MaxBegun /\ begun' = begun + 1
        /\ t # NoToken
        /\ IF Parses(t) /\ t \notin revoked
           THEN /\ Goes(b, [NoRequest EXCEPT !.at = "logout", !.token = t])
                /\ UNCHANGED cookie
           ELSE cookie' = [cookie EXCEPT ![b] = NoToken] /\ UNCHANGED request
        /\ UNCHANGED <<now, table, tokens, changes, granted>>

\* RevokeToken; the cookie is cleared once the row is there.
RevokeToken(b) ==
    /\ request[b].at = "logout"
    /\ revoked' = revoked \cup {request[b].token}
    /\ cookie' = [cookie EXCEPT ![b] = NoToken]
    /\ Ends(b)
    /\ UNCHANGED <<now, user, history, tokens, begun, changes, granted>>

----------------------------------------------------------------------------
(* ChangePassword *)

\* The row, the current password, and that the new one is an other.
ChangeRead(b, current, new) ==
    /\ user # NoUser /\ ~IsLocked(user)
    /\ user.password = current /\ new # current
    /\ Begins(b, [NoRequest EXCEPT !.at = "recent", !.row = user, !.new = new])

\* RecentPasswordHashes
ChangeRecent(b) ==
    LET recent == Newest(history, HistoryDepth - 1)
    IN  /\ request[b].at = "recent"
        /\ IF \E i \in DOMAIN recent : recent[i] = request[b].new
           THEN Ends(b)     \* AUTH007
           ELSE Goes(b, [request[b] EXCEPT !.at = "change"])
        /\ UNCHANGED <<now, table, tokens, cookie, begun, changes, granted>>

Changed(b) ==
    /\ history' = Newest(<<user.password>> \o history, HistoryDepth - 1)
    /\ changes' = changes + 1

\* One transaction on the locked row, which must still have the hash that was read.
ChangeRow(b) ==
    IF user.password = request[b].row.password
    THEN /\ user' = [password |-> request[b].new, version |-> user.version + 1,
                     failed |-> 0, locked |-> FALSE, until |-> 0]
         /\ Changed(b)
    ELSE UNCHANGED <<user, history, changes>>

\* The browser's cookie goes, whether the change was made or met an other.
ChangePassword(b) ==
    /\ request[b].at = "change"
    /\ ChangeRow(b)
    /\ cookie' = [cookie EXCEPT ![b] = NoToken]
    /\ Ends(b)
    /\ UNCHANGED <<now, tokens, revoked, begun, granted>>

----------------------------------------------------------------------------
SessionsNext ==
    \/ Tick
    \/ \E b \in Browsers :
          \/ \E p \in Passwords : Setup(b, p) \/ LoginRead(b, p)
          \/ LoginWrite(b)
          \/ RefreshCheck(b) \/ RefreshFind(b)
          \/ LogoutCheck(b) \/ RevokeToken(b)
          \/ \E p, q \in Passwords : ChangeRead(b, p, q)
          \/ ChangeRecent(b) \/ ChangePassword(b)

SessionsSpec == SessionsInit /\ [][SessionsNext]_sessionVars

----------------------------------------------------------------------------
(* Safety *)

\* A change of the password ends the sessions that were begun before it, a login
\* that was under way among them: no refresh that begins after the change gives an
\* access token for such a session.
SessionsEnd == \A g \in granted : g.epoch <= tokens[g.token].epoch

=============================================================================
