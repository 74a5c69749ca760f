---------------------------- MODULE ServiceProofs ----------------------------
(***************************************************************************)
(* Proofs about services whose requests, callbacks and connections         *)
(* interleave; each has a section of its own.                              *)
(***************************************************************************)
EXTENDS Sessions, MQTTTransport, Gateway, HTTPSnapshot, PublisherCredentials,
        MemoryValueStore, SequenceTheorems, FiniteSetTheorems, TLAPS

----------------------------------------------------------------------------
(* The sessions of the owner (Sessions).                                   *)
(*                                                                         *)
(* The row's version is the number of changes of the password, also when a *)
(* login writes back the row that it read before one; a token is of the    *)
(* version that the row had when its login began.                          *)

Tokens == [version : Nat, expires : Nat, epoch : Nat]
SessionPoints == {"none", "login", "refresh", "logout", "recent", "change"}

(* A request that reads the row holds it as it was, with its epoch.        *)
Begun(r) ==
  /\ r.at \in SessionPoints
  /\ "at" \in DOMAIN r /\ "new" \in DOMAIN r
  /\ r.at # "none" => user # NoUser
  /\ r.at = "login" => r.row \in Row /\ r.row.version = r.epoch
  /\ r.at \in {"recent", "change"} => r.new \in Passwords
  /\ r.at \in {"login", "refresh"} => r.epoch \in Nat /\ r.epoch <= changes
  /\ r.at = "refresh" => r.token \in DOMAIN tokens

SessionsInv ==
  /\ now \in Nat /\ changes \in Nat
  /\ user = NoUser => changes = 0
  /\ user # NoUser => user \in Row /\ user.version = changes
  /\ tokens \in Seq(Tokens) /\ (user = NoUser => tokens = <<>>)
  /\ \A t \in DOMAIN tokens : tokens[t].version = tokens[t].epoch
  /\ DOMAIN request = Browsers /\ \A b \in Browsers : Begun(request[b])
  /\ \A g \in granted : g.token \in DOMAIN tokens /\ g.epoch <= tokens[g.token].epoch

LEMMA SessionsStart == SessionsInit => SessionsInv
BY DEF SessionsInit, SessionsInv, Begun, SessionPoints, NoRequest

LEMMA SessionsStep ==
  ASSUME SessionsInv, [SessionsNext]_sessionVars
  PROVE  SessionsInv'
<1> USE DEF SessionsInv, SessionPoints
<1>0. NoUser \notin Row /\ LockTime \in Nat /\ Lifetime \in Nat
  BY SessionsAssumption
<1>1. CASE Tick
  BY <1>1 DEF Tick, table, Begun
<1>2. ASSUME NEW b \in Browsers, NEW p \in Passwords, Setup(b, p) PROVE SessionsInv'
  <2> DEFINE new == [password |-> p, version |-> 0, failed |-> 0, locked |-> FALSE, until |-> 0]
  <2>1. new \in Row /\ new.version = 0
    BY DEF Row
  <2>2. /\ user' = IF user = NoUser THEN new ELSE user
        /\ UNCHANGED <<now, tokens, request, changes, granted>>
    BY <1>2 DEF Setup
  <2> HIDE DEF new
  <2> QED BY <1>0, <2>1, <2>2 DEF Begun
<1>3. ASSUME NEW b \in Browsers, NEW p \in Passwords, LoginRead(b, p) PROVE SessionsInv'
  <2> DEFINE r == [NoRequest EXCEPT !.at = "login", !.row = user, !.try = p, !.epoch = changes]
  <2>1. /\ user # NoUser /\ request' = [request EXCEPT ![b] = r]
        /\ UNCHANGED <<now, user, tokens, changes, granted>>
    BY <1>3 DEF LoginRead, Begins, table
  <2>2. /\ "at" \in DOMAIN r /\ "new" \in DOMAIN r
        /\ r.at = "login" /\ r.row = user /\ r.epoch = changes
    BY DEF NoRequest
  <2> HIDE DEF r
  <2>3. \A c \in Browsers : Begun(request[c])'
    BY <2>1, <2>2 DEF Begun
  <2> QED BY <2>1, <2>3
<1>4. ASSUME NEW b \in Browsers, LoginWrite(b) PROVE SessionsInv'
  <2> DEFINE r == request[b]
             old == r.row
             judged == Judged(old, r.try)
             token == RefreshToken(old, r.epoch)
  <2>1. /\ r.at = "login" /\ old \in Row /\ old.version = r.epoch
        /\ r.epoch \in Nat /\ r.epoch <= changes /\ user # NoUser /\ now \in Nat
    BY <1>4 DEF LoginWrite, Begun
  <2>2. judged \in Row
    <3> DEFINE later == now + LockTime
    <3>0. later \in Nat
      BY <1>0, <2>1
    <3> HIDE DEF later
    <3> DEFINE good == [old EXCEPT !.failed = 0, !.locked = FALSE, !.until = 0]
               bad == [old EXCEPT !.failed = @ + 1]
               last == [old EXCEPT !.failed = @ + 1, !.locked = TRUE, !.until = later]
    <3>1. good \in Row
      BY <2>1 DEF Row
    <3>2. bad \in Row
      BY SMTT(30), <2>1 DEF Row
    <3>3. last \in Row
      <4> HIDE DEF bad
      <4>1. [bad EXCEPT !.until = later] \in Row
        BY <3>0, <3>2 DEF Row
      <4> DEFINE timed == [bad EXCEPT !.until = later]
      <4> HIDE DEF timed
      <4>2. [timed EXCEPT !.locked = TRUE] \in Row
        BY <4>1 DEF Row, timed
      <4>3. last = [timed EXCEPT !.locked = TRUE]
        BY <2>1 DEF Row, timed, bad
      <4> QED BY <4>2, <4>3
    <3>4. judged \in {good, bad, last}
      BY DEF Judged, later
    <3> QED BY <3>1, <3>2, <3>3, <3>4
  <2>3. [judged EXCEPT !.version = user.version] \in Row
    BY <2>2, <2>1 DEF Row
  <2>4. [judged EXCEPT !.version = user.version].version = user.version
    BY <2>2 DEF Row
  <2>5. token \in Tokens /\ token.version = token.epoch
    BY <1>0, <2>1 DEF RefreshToken, Tokens, Row
  <2>6. /\ user' = [judged EXCEPT !.version = user.version]
        /\ tokens' = Append(tokens, token) \/ tokens' = tokens
        /\ request' = [request EXCEPT ![b] = NoRequest]
        /\ UNCHANGED <<now, changes, granted>>
    BY <1>4 DEF LoginWrite, Update, Ends
  <2> HIDE DEF judged, token
  <2> DEFINE updated == [judged EXCEPT !.version = user.version]
  <2>7. updated \in Row /\ updated.version = user.version /\ user' = updated
    BY <2>3, <2>4, <2>6
  <2> HIDE DEF updated
  <2>8. user' # NoUser /\ user' \in Row /\ user'.version = changes'
    BY <1>0, <2>1, <2>6, <2>7
  <2>9. /\ tokens' \in Seq(Tokens)
        /\ DOMAIN tokens \subseteq DOMAIN tokens'
        /\ \A t \in DOMAIN tokens : tokens'[t] = tokens[t]
        /\ \A t \in DOMAIN tokens' : tokens'[t].version = tokens'[t].epoch
    <3>1. CASE tokens' = Append(tokens, token)
      BY <2>5, <3>1
    <3>2. CASE tokens' = tokens
      BY <3>2
    <3> QED BY <2>6, <3>1, <3>2
  <2>10. \A c \in Browsers : Begun(request[c])'
    BY <2>1, <2>6, <2>8, <2>9 DEF Begun, NoRequest
  <2> QED BY <2>6, <2>8, <2>9, <2>10
<1>5. ASSUME NEW b \in Browsers, RefreshCheck(b) PROVE SessionsInv'
  <2> DEFINE t == cookie[b]
             r == [NoRequest EXCEPT !.at = "refresh", !.token = t, !.epoch = changes]
  <2>1. /\ t \in DOMAIN tokens /\ request' = [request EXCEPT ![b] = r]
        /\ UNCHANGED <<now, user, tokens, changes, granted>>
    BY <1>5 DEF RefreshCheck, Parses, Begins, table
  <2>2. /\ "at" \in DOMAIN r /\ "new" \in DOMAIN r
        /\ r.at = "refresh" /\ r.token = t /\ r.epoch = changes
    BY DEF NoRequest
  <2>3. user # NoUser
    BY <2>1
  <2> HIDE DEF r, t
  <2>4. \A c \in Browsers : Begun(request[c])'
    BY <2>1, <2>2, <2>3 DEF Begun
  <2> QED BY <2>1, <2>4
<1>6. ASSUME NEW b \in Browsers, RefreshFind(b) PROVE SessionsInv'
  <2> DEFINE r == request[b]
             g == [token |-> r.token, epoch |-> r.epoch]
  <2>1. /\ r.at = "refresh" /\ user # NoUser /\ r.token \in DOMAIN tokens
        /\ r.epoch \in Nat /\ r.epoch <= changes
    BY <1>6 DEF RefreshFind, Begun
  <2>2. /\ \/ granted' = granted
           \/ tokens[r.token].version = user.version /\ granted' = granted \cup {g}
        /\ request' = [request EXCEPT ![b] = NoRequest]
        /\ UNCHANGED <<now, user, tokens, changes>>
    BY <1>6 DEF RefreshFind, Ends, table
  <2>3. \A c \in Browsers : Begun(request[c])'
    BY <2>1, <2>2 DEF Begun, NoRequest
  <2>4. \A h \in granted' : h.token \in DOMAIN tokens /\ h.epoch <= tokens[h.token].epoch
    BY <2>1, <2>2
  <2> QED BY <2>2, <2>3, <2>4
<1>7. ASSUME NEW b \in Browsers, LogoutCheck(b) PROVE SessionsInv'
  <2> DEFINE r == [NoRequest EXCEPT !.at = "logout", !.token = cookie[b]]
  <2>1. r.at = "logout" /\ "at" \in DOMAIN r /\ "new" \in DOMAIN r
    BY DEF NoRequest
  <2>2. /\ \/ cookie[b] \in DOMAIN tokens /\ request' = [request EXCEPT ![b] = r]
           \/ request' = request
        /\ UNCHANGED <<now, user, tokens, changes, granted>>
    BY <1>7 DEF LogoutCheck, Parses, Goes, table
  <2> HIDE DEF r
  <2> QED BY <2>1, <2>2 DEF Begun
<1>8. ASSUME NEW b \in Browsers, RevokeToken(b) PROVE SessionsInv'
  BY <1>8 DEF RevokeToken, Ends, NoRequest, Begun
<1>9. ASSUME NEW b \in Browsers, NEW p \in Passwords, NEW q \in Passwords,
             ChangeRead(b, p, q)
      PROVE  SessionsInv'
  <2> DEFINE r == [NoRequest EXCEPT !.at = "recent", !.row = user, !.new = q]
  <2>1. /\ user # NoUser /\ request' = [request EXCEPT ![b] = r]
        /\ UNCHANGED <<now, user, tokens, changes, granted>>
    BY <1>9 DEF ChangeRead, Begins, table
  <2>2. /\ "at" \in DOMAIN r /\ "new" \in DOMAIN r
        /\ r.at = "recent" /\ r.new \in Passwords
    BY DEF NoRequest
  <2> HIDE DEF r
  <2>3. \A c \in Browsers : Begun(request[c])'
    BY <2>1, <2>2 DEF Begun
  <2> QED BY <2>1, <2>3
<1>10. ASSUME NEW b \in Browsers, ChangeRecent(b) PROVE SessionsInv'
  <2> DEFINE r == [request[b] EXCEPT !.at = "change"]
  <2>1. request[b].at = "recent" /\ Begun(request[b])
    BY <1>10 DEF ChangeRecent
  <2>2. /\ \/ request' = [request EXCEPT ![b] = NoRequest]
           \/ request' = [request EXCEPT ![b] = r]
        /\ UNCHANGED <<now, user, tokens, changes, granted>>
    BY <1>10 DEF ChangeRecent, Ends, Goes, table
  <2>3. r.at = "change" /\ r.new = request[b].new
        /\ "at" \in DOMAIN r /\ "new" \in DOMAIN r
    BY <2>1 DEF Begun
  <2> HIDE DEF r
  <2>4. \A c \in Browsers : Begun(request[c])'
    BY <2>1, <2>2, <2>3 DEF Begun, NoRequest
  <2> QED BY <2>2, <2>4
<1>11. ASSUME NEW b \in Browsers, ChangePassword(b) PROVE SessionsInv'
  <2> DEFINE r == request[b]
             new == [password |-> r.new, version |-> user.version + 1, failed |-> 0,
                     locked |-> FALSE, until |-> 0]
  <2>1. r.at = "change" /\ r.new \in Passwords /\ user # NoUser
    BY <1>11 DEF ChangePassword, Begun
  <2>2. new \in Row /\ new.version = changes + 1
    BY <2>1 DEF Row
  <2>3. /\ \/ user' = new /\ changes' = changes + 1
           \/ user' = user /\ changes' = changes
        /\ request' = [request EXCEPT ![b] = NoRequest]
        /\ UNCHANGED <<now, tokens, granted>>
    BY <1>11 DEF ChangePassword, ChangeRow, Changed, Ends
  <2> HIDE DEF new
  <2>4. user' # NoUser /\ user' \in Row /\ user'.version = changes' /\ changes' \in Nat
        /\ changes <= changes'
    BY <1>0, <2>1, <2>2, <2>3
  <2>5. \A c \in Browsers : Begun(request[c])'
    BY <2>1, <2>3, <2>4 DEF Begun, NoRequest
  <2> QED BY <2>3, <2>4, <2>5
<1>12. CASE UNCHANGED sessionVars
  BY <1>12 DEF sessionVars, Begun
<1> QED
  BY <1>1, <1>2, <1>3, <1>4, <1>5, <1>6, <1>7, <1>8, <1>9, <1>10, <1>11, <1>12
  DEF SessionsNext

(* A change of the password ends the sessions begun before it, also that   *)
(* of a login which read the row before the change and writes it after     *)
(* (LoginWrite; auth/service.go): no refresh that begins after the change  *)
(* gives an access token for one of them.  For every number of browsers    *)
(* and passwords, and every limit.                                         *)
THEOREM ChangeEndsSessions == SessionsSpec => []SessionsEnd
<1>1. SessionsInv => SessionsEnd
  BY DEF SessionsInv, SessionsEnd
<1>2. SessionsInv /\ [SessionsNext]_sessionVars => SessionsInv'
  BY SessionsStep
<1> QED BY SessionsStart, <1>1, <1>2, PTL DEF SessionsSpec

(* A logout, too, is of a token that was given out.                         *)
Kept(r) == r.at = "logout" => r.token \in DOMAIN tokens
SessionsTyped == SessionsTypeOK /\ \A b \in Browsers : Kept(request[b])

(* What is left of the history after one more password.                     *)
LEMMA NewestKept ==
  ASSUME NEW p \in Passwords, history \in Seq(Passwords)
  PROVE  LET h == Newest(<<p>> \o history, HistoryDepth - 1)
         IN  h \in Seq(Passwords) /\ Len(h) < HistoryDepth
<1> DEFINE s == <<p>> \o history
           n == IF HistoryDepth - 1 < Len(s) THEN HistoryDepth - 1 ELSE Len(s)
<1>1. HistoryDepth \in Nat \ {0}
  BY SessionsAssumption
<1>2. <<p>> \in Seq(Passwords)
  OBVIOUS
<1>3. s \in Seq(Passwords)
  BY <1>2, ConcatProperties
<1> HIDE DEF s
<1>4. n \in 0..Len(s) /\ n < HistoryDepth /\ Len(s) \in Nat
  BY <1>1, <1>3
<1> HIDE DEF n
<1>5. SubSeq(s, 1, n) \in Seq(Passwords) /\ Len(SubSeq(s, 1, n)) = n
  BY <1>3, <1>4, SubSeqProperties
<1> QED BY <1>4, <1>5 DEF Newest, s, n

LEMMA SessionsTypedStep ==
  ASSUME SessionsInv, SessionsInv', SessionsTyped, [SessionsNext]_sessionVars
  PROVE  SessionsTyped'
<1> USE DEF SessionsTyped, SessionsTypeOK, Kept
<1>1. /\ DOMAIN request = Browsers /\ \A b \in Browsers : "at" \in DOMAIN request[b]
      /\ user' = NoUser \/ user' \in Row
      /\ NoRequest.at = "none" /\ DOMAIN NoRequest = {"at", "row", "try", "new", "token",
                                                     "out", "epoch"}
  BY DEF SessionsInv, Begun, NoRequest
<1>2. ASSUME NEW b \in Browsers, NEW r, request' = [request EXCEPT ![b] = r], r.at # "logout",
             UNCHANGED <<history, tokens, revoked>>,
             cookie' = cookie \/ cookie' = [cookie EXCEPT ![b] = NoToken]
      PROVE  SessionsTyped'
  BY <1>1, <1>2
<1>3. CASE Tick \/ UNCHANGED sessionVars
  BY <1>1, <1>3 DEF Tick, table, sessionVars
<1>4. ASSUME NEW b \in Browsers, NEW p \in Passwords, Setup(b, p) PROVE SessionsTyped'
  BY <1>1, <1>4 DEF Setup
<1>5. ASSUME NEW b \in Browsers, NEW p \in Passwords, LoginRead(b, p) PROVE SessionsTyped'
  <2> DEFINE r == [NoRequest EXCEPT !.at = "login", !.row = user, !.try = p, !.epoch = changes]
  <2>1. r.at = "login"
    BY <1>1
  <2> QED BY <1>2, <1>5, <2>1 DEF LoginRead, Begins, table
<1>6. ASSUME NEW b \in Browsers, LoginWrite(b) PROVE SessionsTyped'
  <2>1. /\ request' = [request EXCEPT ![b] = NoRequest] /\ UNCHANGED <<history, revoked>>
        /\ Len(tokens) < MaxTokens
        /\ \/ UNCHANGED <<tokens, cookie>>
           \/ \E t : tokens' = Append(tokens, t) /\ cookie' = [cookie EXCEPT ![b] = Len(tokens')]
    BY <1>6 DEF LoginWrite, Ends
  <2>2. CASE UNCHANGED <<tokens, cookie>>
    BY <1>1, <1>2, <2>1, <2>2
  <2>3. ASSUME NEW t, tokens' = Append(tokens, t), cookie' = [cookie EXCEPT ![b] = Len(tokens')]
        PROVE  SessionsTyped'
    <3>1. /\ tokens \in Seq(Tokens) /\ tokens' \in Seq(Tokens) /\ MaxTokens \in Nat
      BY SessionsAssumption DEF SessionsInv
    <3>2. Len(tokens') = Len(tokens) + 1 /\ DOMAIN tokens' = 1..Len(tokens')
          /\ DOMAIN tokens = 1..Len(tokens)
      BY <2>3, <3>1
    <3>3. DOMAIN tokens \subseteq DOMAIN tokens' /\ Len(tokens') \in DOMAIN tokens'
          /\ Len(tokens') <= MaxTokens
      BY <2>1, <3>1, <3>2
    <3> QED BY <1>1, <2>1, <2>3, <3>3
  <2> QED BY <2>1, <2>2, <2>3
<1>7. ASSUME NEW b \in Browsers, RefreshCheck(b) PROVE SessionsTyped'
  <2> DEFINE r == [NoRequest EXCEPT !.at = "refresh", !.token = cookie[b], !.epoch = changes]
  <2>1. r.at = "refresh"
    BY <1>1
  <2> QED BY <1>2, <1>7, <2>1 DEF RefreshCheck, Begins, table
<1>8. ASSUME NEW b \in Browsers, RefreshFind(b) PROVE SessionsTyped'
  BY <1>1, <1>2, <1>8 DEF RefreshFind, Ends, table
<1>9. ASSUME NEW b \in Browsers, LogoutCheck(b) PROVE SessionsTyped'
  <2> DEFINE r == [NoRequest EXCEPT !.at = "logout", !.token = cookie[b]]
  <2>1. r.at = "logout" /\ r.token = cookie[b]
    BY <1>1
  <2>2. /\ UNCHANGED <<history, tokens, revoked>> /\ cookie[b] # NoToken
        /\ \/ request' = [request EXCEPT ![b] = r] /\ UNCHANGED cookie
           \/ cookie' = [cookie EXCEPT ![b] = NoToken] /\ UNCHANGED request
    BY <1>9 DEF LogoutCheck, Goes, table
  <2> HIDE DEF r
  <2> QED BY <1>1, <2>1, <2>2
<1>10. ASSUME NEW b \in Browsers, RevokeToken(b) PROVE SessionsTyped'
  BY <1>1, <1>10 DEF RevokeToken, Ends
<1>11. ASSUME NEW b \in Browsers, NEW p \in Passwords, NEW q \in Passwords, ChangeRead(b, p, q)
       PROVE  SessionsTyped'
  <2> DEFINE r == [NoRequest EXCEPT !.at = "recent", !.row = user, !.new = q]
  <2>1. r.at = "recent"
    BY <1>1
  <2> QED BY <1>2, <1>11, <2>1 DEF ChangeRead, Begins, table
<1>12. ASSUME NEW b \in Browsers, ChangeRecent(b) PROVE SessionsTyped'
  <2> DEFINE r == [request[b] EXCEPT !.at = "change"]
  <2>1. r.at = "change"
    BY <1>1
  <2>2. /\ UNCHANGED <<history, tokens, revoked, cookie>>
        /\ \/ request' = [request EXCEPT ![b] = r]
           \/ request' = [request EXCEPT ![b] = NoRequest]
    BY <1>12 DEF ChangeRecent, Goes, Ends, table
  <2> HIDE DEF r
  <2> QED BY <1>1, <1>2, <2>1, <2>2
<1>13. ASSUME NEW b \in Browsers, ChangePassword(b) PROVE SessionsTyped'
  <2>1. /\ request' = [request EXCEPT ![b] = NoRequest] /\ UNCHANGED <<tokens, revoked>>
        /\ cookie' = [cookie EXCEPT ![b] = NoToken]
        /\ UNCHANGED history
           \/ history' = Newest(<<user.password>> \o history, HistoryDepth - 1)
    BY <1>13 DEF ChangePassword, ChangeRow, Changed, Ends
  <2>2. user.password \in Passwords
    BY <1>13 DEF ChangePassword, SessionsInv, Begun, Row
  <2>3. history' \in Seq(Passwords) /\ Len(history') < HistoryDepth
    BY <2>1, <2>2, NewestKept
  <2> QED BY <1>1, <2>1, <2>3
<1> QED BY <1>3, <1>4, <1>5, <1>6, <1>7, <1>8, <1>9, <1>10, <1>11, <1>12, <1>13 DEF SessionsNext

(* auth/service.go and auth/change_password.go: the history never holds more *)
(* passwords than are compared, only tokens that were given out are revoked, *)
(* and a cookie is one of them.                                              *)
THEOREM SessionsAreTyped == SessionsSpec => []SessionsTypeOK
<1>1. SessionsInit => SessionsTyped
  BY SessionsAssumption DEF SessionsInit, SessionsTyped, SessionsTypeOK, Kept, NoRequest
<1>2. SessionsSpec => [](SessionsInv /\ SessionsTyped)
  BY <1>1, SessionsStart, SessionsStep, SessionsTypedStep, PTL DEF SessionsSpec
<1> QED BY <1>2, PTL DEF SessionsTyped
----------------------------------------------------------------------------
(* The delivery of one MQTT publisher (MQTTTransport).                     *)
(*                                                                         *)
(* The acknowledged messages, the one in flight and those that are queued  *)
(* stay in the order of publication: the goroutine is the only one that    *)
(* takes a message, and it holds one only while it publishes it.           *)

Precedes(s, t) == \A i \in DOMAIN s, j \in DOMAIN t : s[i] < t[j]
AtMost(s, n) == \A i \in DOMAIN s : s[i] <= n

MQTTTypes ==
  /\ queue \in Seq(Nat) /\ flight \in Seq(Nat) /\ acked \in Seq(Nat)
  /\ pushed \in Nat /\ dropped \in Nat
  /\ Len(queue) <= QueueCapacity /\ Len(flight) <= 1
  /\ run = "publish" => Len(flight) = 1
  /\ run \notin {"publish", "done"} => flight = <<>>
MQTTOrder ==
  /\ Increasing(acked) /\ Increasing(flight) /\ Increasing(queue)
  /\ Precedes(acked, flight) /\ Precedes(acked, queue) /\ Precedes(flight, queue)
  /\ AtMost(acked, pushed) /\ AtMost(flight, pushed) /\ AtMost(queue, pushed)
MQTTCount == Len(acked) + Len(flight) + Len(queue) + dropped = pushed
MQTTInv == MQTTTypes /\ MQTTOrder /\ MQTTCount

(* Two ordered sequences of which one precedes the other are one.          *)
LEMMA JoinedInOrder ==
  ASSUME NEW s \in Seq(Nat), NEW t \in Seq(Nat),
         Increasing(s), Increasing(t), Precedes(s, t)
  PROVE  s \o t \in Seq(Nat) /\ Len(s \o t) = Len(s) + Len(t) /\ Increasing(s \o t)
<1> DEFINE u == s \o t
<1>1. /\ u \in Seq(Nat) /\ Len(u) = Len(s) + Len(t)
      /\ \A i \in 1..(Len(s) + Len(t)) :
            u[i] = IF i <= Len(s) THEN s[i] ELSE t[i - Len(s)]
  BY ConcatProperties
<1>4. DOMAIN s = 1..Len(s) /\ DOMAIN t = 1..Len(t) /\ Len(s) \in Nat /\ Len(t) \in Nat
  OBVIOUS
<1> HIDE DEF u
<1>2. DOMAIN u = 1..(Len(s) + Len(t))
  BY <1>1
<1>3. ASSUME NEW i \in 1..(Len(s) + Len(t)), i > Len(s)
      PROVE  u[i] = t[i - Len(s)] /\ i - Len(s) \in 1..Len(t)
  BY <1>1, <1>3, <1>4
<1>5. SUFFICES ASSUME NEW i \in 1..(Len(s) + Len(t)), NEW j \in 1..(Len(s) + Len(t)), i < j
               PROVE  u[i] < u[j]
  BY <1>1, <1>2 DEF Increasing, u
<1>6. CASE j <= Len(s)
  <2>1. u[i] = s[i] /\ u[j] = s[j] /\ i \in DOMAIN s /\ j \in DOMAIN s
    BY <1>1, <1>4, <1>5, <1>6
  <2> QED BY <1>5, <2>1 DEF Increasing
<1>7. CASE i <= Len(s) /\ j > Len(s)
  <2>1. u[i] = s[i] /\ i \in DOMAIN s
    BY <1>1, <1>4, <1>5, <1>7
  <2>2. u[j] = t[j - Len(s)] /\ j - Len(s) \in DOMAIN t
    BY <1>3, <1>4, <1>5, <1>7
  <2> QED BY <2>1, <2>2 DEF Precedes
<1>8. CASE i > Len(s)
  <2>1. /\ u[i] = t[i - Len(s)] /\ i - Len(s) \in 1..Len(t)
        /\ u[j] = t[j - Len(s)] /\ j - Len(s) \in 1..Len(t)
    BY <1>3, <1>4, <1>5, <1>8
  <2>2. i - Len(s) < j - Len(s)
    BY <1>4, <1>5
  <2> QED BY <1>4, <2>1, <2>2 DEF Increasing
<1> QED BY <1>4, <1>6, <1>7, <1>8

LEMMA MQTTAccounted == MQTTInv => DeliveryAccounted
<1> SUFFICES ASSUME MQTTInv PROVE DeliveryAccounted
  OBVIOUS
<1> USE DEF MQTTInv, MQTTTypes, MQTTOrder
<1> DEFINE front == acked \o flight
           both == front \o queue
<1>1. front \in Seq(Nat) /\ Len(front) = Len(acked) + Len(flight) /\ Increasing(front)
  BY JoinedInOrder
<1>2. \A i \in 1..(Len(acked) + Len(flight)) :
         front[i] = IF i <= Len(acked) THEN acked[i] ELSE flight[i - Len(acked)]
  BY ConcatProperties
<1> HIDE DEF front
<1>3. Precedes(front, queue)
  <2>1. SUFFICES ASSUME NEW i \in DOMAIN front, NEW j \in DOMAIN queue
                 PROVE  front[i] < queue[j]
    BY DEF Precedes
  <2>2. /\ i \in 1..(Len(acked) + Len(flight)) /\ Len(acked) \in Nat /\ Len(flight) \in Nat
        /\ DOMAIN acked = 1..Len(acked) /\ DOMAIN flight = 1..Len(flight)
    BY SMTT(30), <1>1, <2>1
  <2>3. CASE i <= Len(acked)
    BY <1>2, <2>2, <2>3 DEF Precedes
  <2>4. CASE i > Len(acked)
    <3>1. front[i] = flight[i - Len(acked)] /\ i - Len(acked) \in DOMAIN flight
      BY <1>2, <2>2, <2>4
    <3> QED BY <3>1 DEF Precedes
  <2> QED BY <2>2, <2>3, <2>4
<1>4. both \in Seq(Nat) /\ Len(both) = Len(front) + Len(queue) /\ Increasing(both)
  BY <1>1, <1>3, JoinedInOrder
<1>5. Len(both) + dropped = pushed
  BY <1>1, <1>4 DEF MQTTCount
<1> HIDE DEF both
<1>6. \A i \in 1..Len(both) - 1 : both[i] < both[i + 1]
  <2>1. ASSUME NEW i \in 1..Len(both) - 1
        PROVE  i \in DOMAIN both /\ i + 1 \in DOMAIN both /\ i < i + 1
    BY <1>4
  <2> QED BY <1>4, <2>1 DEF Increasing
<1>7. (acked \o flight) \o queue = both
  BY DEF both, front
<1> QED BY <1>5, <1>6, <1>7 DEF DeliveryAccounted

LEMMA MQTTStart == MQTTInit => MQTTInv
BY MQTTAssumption DEF MQTTInit, MQTTInv, MQTTTypes, MQTTOrder, MQTTCount,
       Increasing, Precedes, AtMost

(* A full queue without its oldest, or without its newest, message.        *)
LEMMA Shorter ==
  ASSUME NEW s \in Seq(Nat), s # <<>>
  PROVE  /\ Tail(s) \in Seq(Nat) /\ Len(Tail(s)) = Len(s) - 1
         /\ \A i \in DOMAIN Tail(s) : i + 1 \in DOMAIN s /\ Tail(s)[i] = s[i + 1]
         /\ SubSeq(s, 1, Len(s) - 1) \in Seq(Nat)
         /\ Len(SubSeq(s, 1, Len(s) - 1)) = Len(s) - 1
         /\ \A i \in DOMAIN SubSeq(s, 1, Len(s) - 1) :
               i \in DOMAIN s /\ SubSeq(s, 1, Len(s) - 1)[i] = s[i]
<1> DEFINE t == Tail(s)
           u == SubSeq(s, 1, Len(s) - 1)
<1>1. Len(s) \in Nat \ {0} /\ DOMAIN s = 1..Len(s)
  BY EmptySeq
<1>2. /\ t \in Seq(Nat) /\ Len(t) = Len(s) - 1
      /\ \A i \in 1..Len(t) : t[i] = s[i + 1]
  BY HeadTailProperties
<1>3. \A i \in 1..(Len(s) - 1) : s[i] \in Nat
  BY <1>1
<1>4. /\ u \in Seq(Nat) /\ Len(u) = Len(s) - 1
      /\ \A i \in 1..Len(u) : u[i] = s[i]
  BY <1>1, SubSeqProperties
<1>5. DOMAIN t = 1..Len(t) /\ DOMAIN u = 1..Len(u)
  BY <1>2, <1>4
<1> HIDE DEF t, u
<1>6. ASSUME NEW i \in DOMAIN t PROVE i + 1 \in DOMAIN s /\ t[i] = s[i + 1]
  BY SMTT(30), <1>1, <1>2, <1>5
<1>7. ASSUME NEW i \in DOMAIN u PROVE i \in DOMAIN s /\ u[i] = s[i]
  BY <1>1, <1>4, <1>5
<1> QED BY <1>2, <1>4, <1>6, <1>7 DEF t, u

LEMMA MQTTPublish ==
  ASSUME MQTTInv, PublishMQTT
  PROVE  MQTTInv'
<1> USE DEF MQTTInv, MQTTTypes
<1> DEFINE n == pushed + 1
           kept == IF Len(queue) = QueueCapacity THEN Tail(queue) ELSE queue
<1>1. QueueCapacity \in Nat \ {0}
  BY MQTTAssumption
<1>2. /\ pushed' = n /\ queue' = Append(kept, n)
      /\ dropped' = IF Len(queue) = QueueCapacity THEN dropped + 1 ELSE dropped
      /\ UNCHANGED <<flight, run, acked>>
  BY DEF PublishMQTT, Push, Full, Drop
<1>3. /\ kept \in Seq(Nat)
      /\ \E d \in {0, 1} : /\ Len(kept) = Len(queue) - d
                           /\ \A i \in DOMAIN kept : i + d \in DOMAIN queue /\ kept[i] = queue[i + d]
                           /\ dropped' = dropped + d
      /\ Len(kept) < QueueCapacity
  <2>1. CASE Len(queue) = QueueCapacity
    <3>1. queue # <<>>
      BY <1>1, <2>1
    <3>2. kept = Tail(queue)
      BY <2>1
    <3> HIDE DEF kept
    <3>3. Len(kept) = Len(queue) - 1 /\ kept \in Seq(Nat)
          /\ \A i \in DOMAIN kept : i + 1 \in DOMAIN queue /\ kept[i] = queue[i + 1]
      BY <3>1, <3>2, Shorter
    <3> QED BY <1>1, <1>2, <2>1, <3>3
  <2>2. CASE Len(queue) # QueueCapacity
    <3>1. kept = queue
      BY <2>2
    <3> HIDE DEF kept
    <3> QED BY <1>1, <1>2, <2>2, <3>1
  <2> QED BY <2>1, <2>2
<1> HIDE DEF kept
<1>4. PICK d \in {0, 1} : /\ Len(kept) = Len(queue) - d
                          /\ \A i \in DOMAIN kept : i + d \in DOMAIN queue /\ kept[i] = queue[i + d]
                          /\ dropped' = dropped + d
  BY <1>3
<1>5. /\ queue' \in Seq(Nat) /\ Len(queue') = Len(kept) + 1
      /\ DOMAIN queue' = 1..(Len(kept) + 1) /\ DOMAIN kept = 1..Len(kept) /\ Len(kept) \in Nat
      /\ \A i \in 1..Len(kept) : queue'[i] = kept[i]
      /\ queue'[Len(kept) + 1] = n
  BY <1>2, <1>3
<1>6. ASSUME NEW i \in DOMAIN kept PROVE kept[i] \in Nat /\ kept[i] <= pushed
  <2>1. \A j \in DOMAIN queue : queue[j] \in Nat /\ queue[j] <= pushed
    BY DEF MQTTOrder, AtMost
  <2> QED BY <1>4, <2>1
<1>7. Increasing(queue')
  <2>1. SUFFICES ASSUME NEW i \in DOMAIN queue', NEW j \in DOMAIN queue', i < j
                 PROVE  queue'[i] < queue'[j]
    BY DEF Increasing
  <2>2. i \in DOMAIN kept
    BY <1>5, <2>1
  <2>3. CASE j = Len(kept) + 1
    BY <1>5, <1>6, <2>2, <2>3
  <2>4. CASE j \in DOMAIN kept
    <3>1. i + d < j + d
      BY <1>5, <2>1, <2>2, <2>4
    <3> QED BY ZenonT(40), <1>4, <1>5, <2>2, <2>4, <3>1 DEF MQTTOrder, Increasing
  <2> QED BY <1>5, <2>3, <2>4
<1>8. ASSUME NEW s \in Seq(Nat), Precedes(s, queue), AtMost(s, pushed)
      PROVE  Precedes(s, queue') /\ AtMost(s, n)
  <2>1. \A i \in DOMAIN s : s[i] \in Nat /\ s[i] <= pushed
    BY <1>8 DEF AtMost
  <2>4. \A i \in DOMAIN s : s[i] < n /\ s[i] <= n
    BY <2>1
  <2>2. \A i \in DOMAIN s, j \in DOMAIN kept : s[i] < kept[j]
    BY <1>4, <1>8 DEF Precedes
  <2>3. \A j \in DOMAIN queue' : j \in DOMAIN kept \/ j = Len(kept) + 1
    BY <1>5
  <2>5. ASSUME NEW i \in DOMAIN s, NEW j \in DOMAIN queue' PROVE s[i] < queue'[j]
    <3>1. CASE j \in DOMAIN kept
      BY <1>5, <2>2, <3>1
    <3>2. CASE j = Len(kept) + 1
      BY <1>5, <2>4, <3>2
    <3> QED BY <2>3, <3>1, <3>2
  <2> QED BY <2>4, <2>5 DEF Precedes, AtMost
<1>9. AtMost(queue', n)
  <2>1. \A j \in DOMAIN queue' : j \in DOMAIN kept \/ j = Len(kept) + 1
    BY <1>5
  <2>2. \A j \in DOMAIN kept : queue'[j] <= n
    BY <1>5, <1>6
  <2>3. n <= n
    OBVIOUS
  <2> QED BY <1>5, <2>1, <2>2, <2>3 DEF AtMost
<1>10. MQTTOrder'
  BY <1>2, <1>7, <1>8, <1>9 DEF MQTTOrder
<1>11. MQTTCount'
  <2>1. /\ Len(acked) \in Nat /\ Len(flight) \in Nat /\ Len(queue) \in Nat
        /\ Len(queue') = Len(queue) - d + 1
    BY <1>4, <1>5
  <2>2. Len(acked') = Len(acked) /\ Len(flight') = Len(flight) /\ pushed' = pushed + 1
    BY <1>2
  <2> DEFINE a == Len(acked)
             f == Len(flight)
             q == Len(queue)
             x == Len(queue')
  <2>3. /\ a \in Nat /\ f \in Nat /\ q \in Nat /\ x = q - d + 1
        /\ a + f + q + dropped = pushed /\ dropped \in Nat /\ pushed \in Nat
    BY <2>1 DEF MQTTCount
  <2> HIDE DEF a, f, q, x
  <2>4. a + f + x + dropped' = pushed + 1
    BY <1>4, <2>3
  <2> QED BY <2>2, <2>4 DEF MQTTCount, a, f, x
<1>12. MQTTTypes'
  BY <1>1, <1>2, <1>3, <1>4, <1>5
<1> QED BY <1>10, <1>11, <1>12

LEMMA MQTTTakes ==
  ASSUME MQTTInv, Loop
  PROVE  MQTTInv'
<1>0. QueueCapacity \in Nat
  BY MQTTAssumption
<1> USE DEF MQTTInv
<1>1. /\ UNCHANGED <<acked, pushed, dropped>>
      /\ \/ queue' = queue /\ flight' = flight /\ run' \in {"wait_ready", "wait_work"}
         \/ queue # <<>> /\ run' = "publish" /\ flight' = <<Head(queue)>> /\ queue' = Tail(queue)
      /\ run = "loop"
  BY DEF Loop
<1>2. flight = <<>> /\ Len(flight) = 0
  BY <1>1 DEF MQTTTypes
<1>3. CASE queue' = queue /\ flight' = flight /\ run' \in {"wait_ready", "wait_work"}
  BY <1>1, <1>2, <1>3 DEF MQTTTypes, MQTTOrder, MQTTCount
<1>4. CASE queue # <<>> /\ run' = "publish" /\ flight' = <<Head(queue)>> /\ queue' = Tail(queue)
  <2> DEFINE m == Head(queue)
  <2>1. queue \in Seq(Nat) /\ DOMAIN queue = 1..Len(queue) /\ Len(queue) \in Nat \ {0}
        /\ 1 \in DOMAIN queue
    BY <1>4, EmptySeq DEF MQTTTypes
  <2>2. m = queue[1] /\ m \in Nat
    BY <1>4, <2>1
  <2>3. /\ queue' \in Seq(Nat) /\ Len(queue') = Len(queue) - 1
        /\ \A i \in DOMAIN queue' : i \in Nat \ {0} /\ i + 1 \in DOMAIN queue /\ queue'[i] = queue[i + 1]
    BY <1>4, <2>1, Shorter
  <2>4. flight' = <<m>>
    BY <1>4
  <2> HIDE DEF m
  <2>5. flight' \in Seq(Nat) /\ Len(flight') = 1 /\ DOMAIN flight' = {1} /\ flight'[1] = m
    BY <2>2, <2>4
  <2>6. MQTTTypes'
    BY <1>0, <1>1, <1>4, <2>1, <2>3, <2>5 DEF MQTTTypes
  <2>7. MQTTCount'
    <3>1. Len(acked) \in Nat /\ dropped \in Nat
      BY DEF MQTTTypes
    <3> QED BY <1>1, <1>2, <2>1, <2>3, <2>5, <3>1 DEF MQTTCount
  <2>8. Increasing(queue')
    <3>1. \A i, j \in DOMAIN queue' : i < j => i + 1 < j + 1
      BY <2>3
    <3> QED BY <2>3, <3>1 DEF MQTTOrder, Increasing
  <2>9. Precedes(flight', queue')
    <3>1. \A j \in DOMAIN queue' : 1 < j + 1
      BY <2>3
    <3> QED BY <2>1, <2>2, <2>3, <2>5, <3>1 DEF MQTTOrder, Increasing, Precedes
  <2>10. Precedes(acked, flight') /\ Precedes(acked, queue')
    BY <2>1, <2>2, <2>3, <2>5 DEF MQTTOrder, Precedes
  <2>11. Increasing(flight') /\ AtMost(flight', pushed) /\ AtMost(queue', pushed)
    BY <2>1, <2>2, <2>3, <2>5 DEF MQTTOrder, Increasing, AtMost
  <2>12. MQTTOrder'
    BY <1>1, <2>8, <2>9, <2>10, <2>11 DEF MQTTOrder
  <2> QED BY <2>6, <2>7, <2>12
<1> QED BY <1>1, <1>3, <1>4

LEMMA MQTTFails ==
  ASSUME MQTTInv, PublishFails
  PROVE  MQTTInv'
<1> USE DEF MQTTInv
<1> DEFINE m == flight[1]
           kept == IF Len(queue) = QueueCapacity THEN SubSeq(queue, 1, QueueCapacity - 1) ELSE queue
<1>1. QueueCapacity \in Nat \ {0} /\ queue \in Seq(Nat) /\ Len(queue) \in Nat
      /\ Len(queue) <= QueueCapacity /\ dropped \in Nat /\ pushed \in Nat
  BY MQTTAssumption DEF MQTTTypes
<1>2. /\ queue' = <<m>> \o kept /\ flight' = <<>> /\ run' = "failed"
      /\ dropped' = IF Len(queue) = QueueCapacity THEN dropped + 1 ELSE dropped
      /\ UNCHANGED <<acked, pushed>>
  BY DEF PublishFails, PushFront, Full, Drop
<1>3. Len(flight) = 1 /\ 1 \in DOMAIN flight /\ m \in Nat
  <2>1. flight \in Seq(Nat) /\ Len(flight) = 1
    BY DEF PublishFails, MQTTTypes
  <2>2. 1 \in 1 .. Len(flight) /\ DOMAIN flight = 1 .. Len(flight)
    BY <2>1
  <2>3. flight[1] \in Nat
    BY ONLY <2>1, <2>2, ElementOfSeq
  <2> QED BY <2>1, <2>2, <2>3
<1>4. /\ kept \in Seq(Nat) /\ Len(kept) < QueueCapacity
      /\ \A i \in DOMAIN kept : i \in DOMAIN queue /\ kept[i] = queue[i]
      /\ \E d \in {0, 1} : Len(kept) = Len(queue) - d /\ dropped' = dropped + d
  <2>1. CASE Len(queue) = QueueCapacity
    <3>1. queue # <<>>
      BY <1>1, <2>1
    <3>2. kept = SubSeq(queue, 1, Len(queue) - 1)
      BY <2>1
    <3> HIDE DEF kept
    <3>3. Len(kept) = Len(queue) - 1 /\ kept \in Seq(Nat)
          /\ \A i \in DOMAIN kept : i \in DOMAIN queue /\ kept[i] = queue[i]
      BY <1>1, <3>1, <3>2, Shorter
    <3> QED BY <1>1, <1>2, <2>1, <3>3
  <2>2. CASE Len(queue) # QueueCapacity
    <3>1. kept = queue
      BY <2>2
    <3> HIDE DEF kept
    <3> QED BY <1>1, <1>2, <2>2, <3>1
  <2> QED BY <2>1, <2>2
<1> HIDE DEF kept
<1>5. PICK d \in {0, 1} : Len(kept) = Len(queue) - d /\ dropped' = dropped + d
  BY <1>4
<1> HIDE DEF m
<1> DEFINE first == <<m>>
<1>6. first \in Seq(Nat) /\ DOMAIN first = {1} /\ first[1] = m /\ Len(first) = 1
  BY <1>3
<1>7. Increasing(first)
  BY <1>6 DEF Increasing
<1>8. Increasing(kept) /\ AtMost(kept, pushed) /\ Precedes(acked, kept)
  BY <1>4 DEF MQTTOrder, Increasing, AtMost, Precedes
<1>9. AtMost(first, pushed) /\ Precedes(acked, first) /\ Precedes(first, kept)
  BY <1>3, <1>4, <1>6 DEF MQTTOrder, AtMost, Precedes, m
<1> HIDE DEF first
<1>10. queue' = first \o kept
  BY <1>2 DEF first
<1>11. queue' \in Seq(Nat) /\ Len(queue') = 1 + Len(kept) /\ Increasing(queue')
  BY <1>4, <1>6, <1>7, <1>8, <1>9, <1>10, JoinedInOrder
<1>12. \A i \in DOMAIN queue' : \/ queue'[i] = first[1] /\ 1 \in DOMAIN first
                                \/ \E j \in DOMAIN kept : queue'[i] = kept[j]
  <2>1. \A i \in 1..(1 + Len(kept)) : queue'[i] = IF i <= 1 THEN first[i] ELSE kept[i - 1]
    <3>1. \A i \in 1..(Len(first) + Len(kept)) :
             (first \o kept)[i] = IF i <= Len(first) THEN first[i] ELSE kept[i - Len(first)]
      BY ZenonT(40), <1>4, <1>6, ConcatProperties
    <3> QED BY <1>6, <1>10, <3>1
  <2>2. DOMAIN queue' = 1..(1 + Len(kept)) /\ DOMAIN kept = 1..Len(kept) /\ Len(kept) \in Nat
    BY <1>4, <1>11
  <2>3. ASSUME NEW i \in DOMAIN queue', i # 1
        PROVE  queue'[i] = kept[i - 1] /\ i - 1 \in DOMAIN kept
    BY <2>1, <2>2, <2>3
  <2>4. \A i \in DOMAIN queue' : i = 1 => queue'[i] = first[1]
    BY <2>1, <2>2
  <2> QED BY <1>6, <2>3, <2>4
<1>13. AtMost(queue', pushed)
  BY <1>8, <1>9, <1>12 DEF AtMost
<1>14. Precedes(acked, queue')
  BY <1>8, <1>9, <1>12 DEF Precedes
<1>15. MQTTOrder'
  BY <1>2, <1>11, <1>13, <1>14 DEF MQTTOrder, Increasing, Precedes, AtMost
<1>16. MQTTCount'
  <2>1. Len(acked) \in Nat /\ Len(flight') = 0
    BY <1>2 DEF MQTTTypes
  <2> DEFINE a == Len(acked)
             q == Len(queue)
             x == Len(queue')
  <2>2. /\ a \in Nat /\ q \in Nat /\ x = 1 + (q - d)
        /\ a + 1 + q + dropped = pushed /\ dropped \in Nat /\ pushed \in Nat
    BY <1>1, <1>3, <1>5, <1>11, <2>1 DEF MQTTCount
  <2> HIDE DEF a, q, x
  <2>3. a + 0 + x + dropped' = pushed
    BY <1>5, <2>2
  <2> QED BY <1>2, <2>1, <2>3 DEF MQTTCount, a, x
<1>17. MQTTTypes'
  BY <1>1, <1>2, <1>4, <1>5, <1>11 DEF MQTTTypes
<1> QED BY <1>15, <1>16, <1>17

LEMMA MQTTAcked ==
  ASSUME MQTTInv, Acknowledged
  PROVE  MQTTInv'
<1> USE DEF MQTTInv
<1>1. /\ acked' = acked \o flight /\ flight' = <<>> /\ run' = "loop"
      /\ UNCHANGED <<queue, pushed, dropped>>
  BY DEF Acknowledged
<1>2. acked' \in Seq(Nat) /\ Len(acked') = Len(acked) + Len(flight) /\ Increasing(acked')
  BY <1>1, JoinedInOrder DEF MQTTTypes, MQTTOrder
<1>3. \A i \in DOMAIN acked' : \/ \E j \in DOMAIN acked : acked'[i] = acked[j]
                               \/ \E j \in DOMAIN flight : acked'[i] = flight[j]
  <2>1. \A i \in 1..(Len(acked) + Len(flight)) :
            acked'[i] = IF i <= Len(acked) THEN acked[i] ELSE flight[i - Len(acked)]
    BY <1>1, ConcatProperties DEF MQTTTypes
  <2>2. /\ DOMAIN acked' = 1..(Len(acked) + Len(flight))
        /\ DOMAIN acked = 1..Len(acked) /\ DOMAIN flight = 1..Len(flight)
        /\ Len(acked) \in Nat /\ Len(flight) \in Nat
    BY <1>2 DEF MQTTTypes
  <2>3. ASSUME NEW i \in DOMAIN acked', i > Len(acked)
        PROVE  acked'[i] = flight[i - Len(acked)] /\ i - Len(acked) \in DOMAIN flight
    BY <2>1, <2>2, <2>3
  <2>4. ASSUME NEW i \in DOMAIN acked', i <= Len(acked)
        PROVE  acked'[i] = acked[i] /\ i \in DOMAIN acked
    BY <2>1, <2>2, <2>4
  <2> QED BY <2>2, <2>3, <2>4
<1>4. Precedes(acked', queue) /\ AtMost(acked', pushed)
  BY <1>3 DEF MQTTOrder, Precedes, AtMost
<1>5. MQTTOrder'
  BY <1>1, <1>2, <1>4 DEF MQTTOrder, Increasing, Precedes, AtMost
<1>6. MQTTCount'
  BY <1>1, <1>2 DEF MQTTCount, MQTTTypes
<1>7. MQTTTypes'
  BY <1>1, <1>2 DEF MQTTTypes
<1> QED BY <1>5, <1>6, <1>7

LEMMA MQTTStep ==
  ASSUME MQTTInv, [MQTTNext]_mqttVars
  PROVE  MQTTInv'
<1> DEFINE Held == UNCHANGED <<queue, flight, acked, pushed, dropped>>
           Same == run' # "publish" /\ (flight = <<>> \/ run' = "done")
<1>1. CASE RunStep
  <2>1. CASE Loop
    BY <2>1, MQTTTakes
  <2>2. CASE Acknowledged
    BY <2>2, MQTTAcked
  <2>3. CASE PublishFails
    BY <2>3, MQTTFails
  <2>4. ASSUME \/ WakeReady \/ WakeNotify \/ LookAtConnection
               \/ MarkDown \/ BackoffEnds \/ Stops
        PROVE  MQTTInv'
    <3>1. Held /\ Same
      BY <2>4 DEF WakeReady, WakeNotify, LookAtConnection, MarkDown,
         BackoffEnds, Stops, MQTTInv, MQTTTypes
    <3> QED BY <3>1 DEF MQTTInv, MQTTTypes, MQTTOrder, MQTTCount
  <2> QED BY <1>1, <2>1, <2>2, <2>3, <2>4 DEF RunStep
<1>2. CASE PublishMQTT
  BY <1>2, MQTTPublish
<1>3. ASSUME Callback \/ onConnected \/ ConnectionDrops \/ CloseMQTT
             \/ UNCHANGED mqttVars
      PROVE  MQTTInv'
  <2>1. Held /\ UNCHANGED run
    BY <1>3 DEF Callback, subscribeDiagnostics, markReady, onConnectionLost,
       onConnected, ConnectionDrops, CloseMQTT, mqttVars
  <2> QED BY <2>1 DEF MQTTInv, MQTTTypes, MQTTOrder, MQTTCount
<1> QED BY <1>1, <1>2, <1>3 DEF MQTTNext

(* However often publications fail and connections change, what was        *)
(* acknowledged, is in flight and is queued is in the order of publication *)
(* and every other message was counted as dropped (boundedMessageQueue,    *)
(* run; publisher/mqtt_transport.go).  For every capacity.                 *)
THEOREM EveryMessageAccounted == MQTTSpec => []DeliveryAccounted
<1>1. MQTTInit => MQTTInv
  BY MQTTStart
<1>2. MQTTInv /\ [MQTTNext]_mqttVars => MQTTInv'
  BY MQTTStep
<1> QED BY <1>1, <1>2, MQTTAccounted, PTL DEF MQTTSpec

(* The type invariant, where nothing but the numbers of messages depends on *)
(* another part of the state.                                               *)
MQTTTyped == MQTTTypeOK /\ pushed <= MaxMessages

LEMMA MQTTQueueTyped ==
  ASSUME MQTTInv, MQTTTyped, PublishMQTT \/ Loop \/ PublishFails
  PROVE  queue' \in Seq(1..MaxMessages) /\ flight' \in Seq(1..MaxMessages)
<1> DEFINE M == 1..MaxMessages
<1> SUFFICES queue' \in Seq(M) /\ flight' \in Seq(M)
  OBVIOUS
<1>1. /\ queue \in Seq(M) /\ flight \in Seq(M) /\ pushed \in Nat /\ pushed <= MaxMessages
      /\ MaxMessages \in Nat /\ QueueCapacity \in Nat \ {0} /\ <<>> \in Seq(M)
  BY MQTTAssumption DEF MQTTTyped, MQTTTypeOK, MQTTInv, MQTTTypes
<1>2. CASE PublishMQTT
  <2>1. pushed' \in M /\ flight' = flight
    BY <1>1, <1>2 DEF PublishMQTT
  <2> HIDE DEF M
  <2>2. Full => Tail(queue) \in Seq(M)
    BY <1>1 DEF Full
  <2> QED BY <1>1, <1>2, <2>1, <2>2 DEF PublishMQTT, Push
<1> HIDE DEF M
<1>3. CASE Loop
  <2>1. queue # <<>> => Head(queue) \in M /\ Tail(queue) \in Seq(M)
    BY <1>1
  <2>2. queue # <<>> => <<Head(queue)>> \in Seq(M)
    BY <2>1
  <2> QED BY <1>1, <1>3, <2>1, <2>2 DEF Loop
<1>4. CASE PublishFails
  <2> DEFINE kept == IF Full THEN SubSeq(queue, 1, QueueCapacity - 1) ELSE queue
  <2>1. Len(flight) = 1
    BY <1>4 DEF PublishFails, MQTTInv, MQTTTypes
  <2>2. flight[1] \in M
    BY <1>1, <2>1
  <2>3. kept \in Seq(M)
    BY <1>1, SubSeqProperties DEF Full
  <2> HIDE DEF kept
  <2>4. <<flight[1]>> \in Seq(M)
    BY <2>2
  <2>5. <<flight[1]>> \o kept \in Seq(M)
    BY <2>3, <2>4, ConcatProperties
  <2> QED BY <1>1, <1>4, <2>5 DEF PublishFails, PushFront, kept
<1> QED BY <1>2, <1>3, <1>4

LEMMA MQTTTypedStep ==
  ASSUME MQTTInv, MQTTInv', MQTTTyped, [MQTTNext]_mqttVars
  PROVE  MQTTTyped'
<1> USE DEF MQTTTyped, MQTTTypeOK
<1>1. /\ pushed \in Nat /\ MaxMessages \in Nat /\ MaxConnects \in Nat
      /\ Len(queue') <= QueueCapacity /\ Len(flight') <= 1 /\ <<>> \in Seq(1..MaxMessages)
  BY MQTTAssumption DEF MQTTInv, MQTTTypes
<1>2. CASE UNCHANGED mqttVars
  BY <1>2 DEF mqttVars
<1>3. CASE PublishMQTT \/ Loop \/ PublishFails
  <2>1. queue' \in Seq(1..MaxMessages) /\ flight' \in Seq(1..MaxMessages)
    BY <1>3, MQTTQueueTyped
  <2>2. /\ pushed' <= MaxMessages /\ run' \in Points /\ notify' \in BOOLEAN
        /\ UNCHANGED <<wireVars, ready, connected>>
    <3>1. CASE PublishMQTT
      BY <1>1, <3>1 DEF PublishMQTT, Push
    <3>2. CASE Loop
      BY <3>2 DEF Loop, Points
    <3>3. CASE PublishFails
      BY <3>3 DEF PublishFails, PushFront, Points
    <3> QED BY <1>3, <3>1, <3>2, <3>3
  <2> QED BY <1>1, <2>1, <2>2 DEF wireVars
<1>4. CASE WakeReady \/ WakeNotify \/ LookAtConnection \/ MarkDown \/ BackoffEnds \/ Stops
  BY <1>4 DEF WakeReady, WakeNotify, LookAtConnection, MarkDown, BackoffEnds, Stops,
     wireVars, Points
<1>5. CASE Acknowledged
  BY <1>1, <1>5 DEF Acknowledged, wireVars, Points
<1>6. CASE onConnected
  BY <1>1, <1>6 DEF onConnected
<1>7. CASE ConnectionDrops \/ CloseMQTT \/ onConnectionLost
  BY <1>7 DEF ConnectionDrops, CloseMQTT, onConnectionLost
<1>8. ASSUME NEW g \in 1..MaxConnects, subscribeDiagnostics(g) \/ markReady(g)
      PROVE  MQTTTyped'
  BY <1>8 DEF subscribeDiagnostics, markReady
<1> QED BY <1>2, <1>3, <1>4, <1>5, <1>6, <1>7, <1>8 DEF MQTTNext, Callback, RunStep

(* publisher/mqtt_transport.go: the queue never holds more than its         *)
(* capacity, at most one message is under way, and only connections that    *)
(* were made wait for their subscriptions.                                  *)
THEOREM QueueIsBounded == MQTTSpec => []MQTTTypeOK
<1>1. MQTTInit => MQTTTyped
  <2>1. <<>> \in Seq(1..MaxMessages) /\ Len(<<>>) = 0
    OBVIOUS
  <2>2. MaxMessages \in Nat /\ MaxConnects \in Nat /\ QueueCapacity \in Nat
    BY MQTTAssumption
  <2>3. SUFFICES ASSUME MQTTInit PROVE MQTTTyped
    OBVIOUS
  <2>4. queue = <<>> /\ flight = <<>>
    BY <2>3 DEF MQTTInit
  <2>5. /\ queue \in Seq(1..MaxMessages) /\ Len(queue) <= QueueCapacity
        /\ flight \in Seq(1..MaxMessages) /\ Len(flight) <= 1
    BY <2>1, <2>2, <2>4
  <2>6. /\ pushed <= MaxMessages /\ generation \in 0..MaxConnects
        /\ waiting \cup checked \subseteq 1..MaxConnects
    BY <2>2, <2>3 DEF MQTTInit
  <2>7. /\ run \in Points /\ wire \in {"down", "up", "off"}
        /\ notify \in BOOLEAN /\ ready \in BOOLEAN /\ connected \in BOOLEAN
    BY <2>3 DEF MQTTInit, Points
  <2> QED BY <2>5, <2>6, <2>7 DEF MQTTTyped, MQTTTypeOK
<1>2. MQTTSpec => [](MQTTInv /\ MQTTTyped)
  BY <1>1, MQTTStart, MQTTStep, MQTTTypedStep, PTL DEF MQTTSpec
<1> QED BY <1>2, PTL DEF MQTTTyped
----------------------------------------------------------------------------
(* The runtimes of a gateway (Gateway).                                    *)
(*                                                                         *)
(* Between two steps a runtime is held by the request that is dialling for *)
(* it, or by the one that deletes the row, and by no other; what its       *)
(* status and its client then are is what that request left.               *)

Rows == [enabled : BOOLEAN, config : 1 .. MaxVersions]
Runtime == [client : Client \cup {NoClient}, status : Status,
            connectedAt : BOOLEAN, holder : SUBSET Callers]
Asked == [op : {"none", "connect", "disconnect", "update", "status", "test", "delete"},
            at : {"idle", "found", "lock", "dial", "saved", "delete"},
            seen : Rows \cup {NoRow}, input : Rows \cup {NoRow}, rt : Nat,
            reply : Status \cup Nat]

(* What StatusTruthful says of a runtime that no request holds.            *)
Truthful(t) ==
  /\ t.client # NoClient /\ t.client.up => t.status = "connected"
  /\ t.status = "connected" => t.client # NoClient /\ t.connectedAt
  /\ t.status \in {"disconnected", "stopped"} => t.client = NoClient
  /\ t.status # "connecting"

(* The request that holds a runtime, and what it leaves it in.             *)
HeldBy(t, r, c) ==
  /\ t.holder = {c} /\ requests[c].rt = r
  /\ \/ /\ requests[c].at = "dial" /\ t.status = "connecting"
        /\ t.client # NoClient /\ ~t.client.up
     \/ requests[c].at = "delete" /\ t.status = "disconnected" /\ t.client = NoClient

Sound(t, r) == /\ t.holder = {} => Truthful(t)
               /\ t.holder # {} => \E c \in Callers : HeldBy(t, r, c)

Holding(q) == q.at \in {"dial", "delete"} /\ q.rt # 0

Reading(q) == q.at \in {"found", "lock", "saved"} /\ q.op # "delete"

HeapOK == \E n \in Nat : n <= MaxRuntimes /\ runtimes \in [1 .. n -> Runtime]
RequestsOK ==
  /\ requests \in [Callers -> Asked]
  /\ \A c \in Callers :
        /\ Reading(requests[c]) => requests[c].seen \in Rows
        /\ requests[c].at = "lock" => requests[c].rt \in DOMAIN runtimes
        /\ requests[c].at = "dial" => requests[c].rt # 0
        /\ Holding(requests[c]) => /\ requests[c].rt \in DOMAIN runtimes
                                   /\ runtimes[requests[c].rt].holder = {c}

GatewayInv ==
  /\ row \in Rows \cup {NoRow} /\ HeapOK /\ RequestsOK
  /\ registry \in DOMAIN runtimes \cup {0}
  /\ \A r \in DOMAIN runtimes : Sound(runtimes[r], r)

LEMMA GatewayTruthful == GatewayInv => StatusTruthful
BY DEF GatewayInv, Sound, Truthful, StatusTruthful, Heap,
       Free

LEMMA HeapCount ==
  ASSUME HeapOK
  PROVE  /\ Cardinality(DOMAIN runtimes) \in Nat
         /\ DOMAIN runtimes = 1 .. Cardinality(DOMAIN runtimes)
         /\ 0 \notin DOMAIN runtimes
         /\ runtimes \in [DOMAIN runtimes -> Runtime]
<1>1. PICK n \in Nat : runtimes \in [1 .. n -> Runtime]
  BY DEF HeapOK
<1>2. DOMAIN runtimes = 1 .. n
  BY <1>1
<1>3. Cardinality(1 .. n) = n
  BY FS_Interval
<1> QED BY <1>1, <1>2, <1>3

(* A step that changes only a request that holds nothing.                  *)
LEMMA RequestMoves ==
  ASSUME GatewayInv, NEW c \in Callers, NEW q \in Asked,
         ~Holding(requests[c]), ~Holding(q), q.at # "dial",
         Reading(q) => q.seen \in Rows, q.at = "lock" => q.rt \in DOMAIN runtimes,
         requests' = [requests EXCEPT ![c] = q],
         row' \in Rows \cup {NoRow}, registry' \in DOMAIN runtimes \cup {0},
         runtimes' = runtimes
  PROVE  GatewayInv'
<1>1. \A d \in Callers : requests'[d] = IF d = c THEN q ELSE requests[d]
  BY DEF GatewayInv, RequestsOK
<1>2. RequestsOK'
  BY <1>1 DEF GatewayInv, RequestsOK, Holding, Reading
<1>3. ASSUME NEW r \in DOMAIN runtimes PROVE Sound(runtimes[r], r)'
  <2>1. Sound(runtimes[r], r) /\ r # 0
    BY HeapCount DEF GatewayInv
  <2>2. ASSUME NEW d \in Callers, HeldBy(runtimes[r], r, d) PROVE HeldBy(runtimes[r], r, d)'
    <3>1. d # c
      BY <2>1, <2>2 DEF HeldBy, Holding
    <3> QED BY <1>1, <2>2, <3>1 DEF HeldBy
  <2> QED BY <2>1, <2>2 DEF Sound
<1> QED BY <1>2, <1>3 DEF GatewayInv, HeapOK

(* A step under operationMu, after which nobody holds the runtime.         *)
LEMMA RuntimeMoves ==
  ASSUME GatewayInv, NEW c \in Callers, NEW q \in Asked, NEW r \in DOMAIN runtimes,
         NEW t \in Runtime, requests[c].rt = r, runtimes[r].holder \in {{}, {c}},
         Holding(requests[c]) <=> runtimes[r].holder = {c},
         q.at = "idle", t.holder = {}, Truthful(t),
         requests' = [requests EXCEPT ![c] = q],
         runtimes' = [runtimes EXCEPT ![r] = t],
         row' \in Rows \cup {NoRow}, registry' \in DOMAIN runtimes \cup {0}
  PROVE  GatewayInv'
<1>1. \A d \in Callers : requests'[d] = IF d = c THEN q ELSE requests[d]
  BY DEF GatewayInv, RequestsOK
<1>2. /\ DOMAIN runtimes' = DOMAIN runtimes
      /\ \A s \in DOMAIN runtimes : runtimes'[s] = IF s = r THEN t ELSE runtimes[s]
  OBVIOUS
<1>3. HeapOK'
  BY <1>2 DEF GatewayInv, HeapOK
<1>4. ASSUME NEW d \in Callers, d # c, Holding(requests[d]) PROVE requests[d].rt # r
  BY <1>4 DEF GatewayInv, RequestsOK
<1>5. RequestsOK'
  BY <1>1, <1>2, <1>4 DEF GatewayInv, RequestsOK, Holding, Reading
<1>6. ASSUME NEW s \in DOMAIN runtimes PROVE Sound(runtimes[s], s)'
  <2>1. CASE s = r
    BY <1>2, <2>1 DEF Sound, Truthful
  <2>2. CASE s # r
    <3>1. Sound(runtimes[s], s) /\ runtimes'[s] = runtimes[s] /\ s # 0
      BY <1>2, <2>2, HeapCount DEF GatewayInv
    <3>2. ASSUME NEW d \in Callers, HeldBy(runtimes[s], s, d) PROVE HeldBy(runtimes[s], s, d)'
      <4>1. d # c
        BY <2>2, <3>2 DEF HeldBy
      <4> QED BY <1>1, <3>1, <3>2, <4>1 DEF HeldBy
    <3> QED BY <3>1, <3>2 DEF Sound, Truthful
  <2> QED BY <2>1, <2>2
<1> QED BY <1>2, <1>3, <1>5, <1>6 DEF GatewayInv

(* A step under operationMu that then waits, and keeps the lock.           *)
LEMMA RuntimeTaken ==
  ASSUME GatewayInv, NEW c \in Callers, NEW q \in Asked, NEW r \in DOMAIN runtimes,
         NEW t \in Runtime, requests[c].at = "lock", requests[c].rt = r, runtimes[r].holder = {},
         q.rt = r, t.holder = {c},
         \/ /\ q.at = "dial" /\ t.status = "connecting"
            /\ t.client # NoClient /\ ~t.client.up
         \/ q.at = "delete" /\ t.status = "disconnected" /\ t.client = NoClient,
         requests' = [requests EXCEPT ![c] = q],
         runtimes' = [runtimes EXCEPT ![r] = t],
         UNCHANGED <<row, registry>>
  PROVE  GatewayInv'
<1>1. \A d \in Callers : requests'[d] = IF d = c THEN q ELSE requests[d]
  BY DEF GatewayInv, RequestsOK
<1>2. /\ DOMAIN runtimes' = DOMAIN runtimes
      /\ \A s \in DOMAIN runtimes : runtimes'[s] = IF s = r THEN t ELSE runtimes[s]
  OBVIOUS
<1>3. HeapOK' /\ r # 0
  BY <1>2, HeapCount DEF GatewayInv, HeapOK
<1>4. ASSUME NEW d \in Callers, Holding(requests[d]) PROVE requests[d].rt # r
  BY <1>4 DEF GatewayInv, RequestsOK
<1>5. RequestsOK'
  BY <1>1, <1>2, <1>3, <1>4 DEF GatewayInv, RequestsOK, Holding, Reading
<1>6. ASSUME NEW s \in DOMAIN runtimes PROVE Sound(runtimes[s], s)'
  <2>1. CASE s = r
    BY <1>1, <1>2, <2>1 DEF Sound, HeldBy
  <2>2. CASE s # r
    <3>1. Sound(runtimes[s], s) /\ runtimes'[s] = runtimes[s]
      BY <1>2, <2>2 DEF GatewayInv
    <3>2. ASSUME NEW d \in Callers, HeldBy(runtimes[s], s, d) PROVE HeldBy(runtimes[s], s, d)'
      <4>1. d # c
        BY <3>2 DEF HeldBy
      <4> QED BY <1>1, <3>1, <3>2, <4>1 DEF HeldBy
    <3> QED BY <3>1, <3>2 DEF Sound, Truthful
  <2> QED BY <2>1, <2>2
<1> QED BY <1>2, <1>3, <1>5, <1>6 DEF GatewayInv

LEMMA IdleRequest ==
  ASSUME NEW x \in Status \cup Nat
  PROVE  LET q == Idle(x)
         IN  /\ q \in Asked /\ q.at = "idle" /\ q.rt = 0
             /\ q.op = "none" /\ q.seen = NoRow /\ q.input = NoRow
BY DEF Asked, Idle

LEMMA ReplyIsNumber ==
  ASSUME NEW err
  PROVE  Answer(err) \in Nat
BY DEF Answer

(* Every request that ends leaves an idle one.                             *)
Ended(c) == \E q \in Asked : q.at = "idle" /\ requests' = [requests EXCEPT ![c] = q]

LEMMA EndsIdle ==
  ASSUME NEW c
  PROVE  /\ \A x \in Status \cup Nat : Finish(c, x) => Ended(c)
         /\ \A err : Fail(c, err) => Ended(c)
<1>1. ASSUME NEW x \in Status \cup Nat, Finish(c, x) PROVE Ended(c)
  BY <1>1, IdleRequest DEF Finish, Ended
<1>2. ASSUME NEW err, Fail(c, err) PROVE Ended(c)
  <2>1. Answer(err) \in Status \cup Nat
    BY ReplyIsNumber
  <2> QED BY <1>1, <1>2, <2>1 DEF Fail
<1> QED BY <1>1, <1>2

(* A request that ends without having held a runtime.                      *)
LEMMA RequestEnds ==
  ASSUME GatewayInv, NEW c \in Callers, ~Holding(requests[c]), Ended(c),
         row' \in Rows \cup {NoRow}, registry' \in DOMAIN runtimes \cup {0},
         runtimes' = runtimes
  PROVE  GatewayInv'
<1>1. PICK q \in Asked : q.at = "idle" /\ requests' = [requests EXCEPT ![c] = q]
  BY DEF Ended
<1>2. ~Holding(q) /\ q.at # "dial" /\ ~Reading(q) /\ q.at # "lock"
  BY <1>1 DEF Holding, Reading
<1> QED BY <1>1, <1>2, RequestMoves

(* What RuntimeFor registers when nothing is registered.                   *)
LEMMA RuntimeAllocated ==
  ASSUME GatewayInv, NEW r, registry = 0,
         RuntimeFor(r), row' = row,
         \/ requests' = requests
         \/ \E c \in Callers, q \in Asked :
               /\ requests' = [requests EXCEPT ![c] = q]
               /\ ~Holding(requests[c]) /\ q.at = "lock" /\ q.rt = r /\ q.seen \in Rows
  PROVE  GatewayInv'
<1> DEFINE n == Cardinality(DOMAIN runtimes)
           new == NewRuntime
<1>1. /\ n \in Nat /\ DOMAIN runtimes = 1 .. n /\ runtimes \in [1 .. n -> Runtime]
      /\ MaxRuntimes \in Nat
  BY GatewayAssumption, HeapCount DEF GatewayInv
<1>2. /\ n < MaxRuntimes /\ r = n + 1 /\ registry' = r
      /\ runtimes' = [h \in 1 .. r |-> IF h = r THEN new ELSE runtimes[h]]
  BY DEF RuntimeFor, Heap
<1>3. new \in Runtime /\ new.holder = {} /\ Truthful(new)
  BY DEF NewRuntime, Runtime, Truthful, Status
<1> HIDE DEF n, new
<1>4. /\ DOMAIN runtimes' = 1 .. r /\ r \in Nat /\ r <= MaxRuntimes /\ r \in 1 .. r
      /\ r \notin DOMAIN runtimes /\ DOMAIN runtimes' = DOMAIN runtimes \cup {r}
      /\ runtimes'[r] = new
      /\ \A s \in DOMAIN runtimes : runtimes'[s] = runtimes[s] /\ s # r
  BY <1>1, <1>2
<1>5. runtimes' \in [1 .. r -> Runtime]
  BY <1>1, <1>2, <1>3, <1>4
<1>6. HeapOK'
  BY <1>4, <1>5 DEF HeapOK
<1>7. /\ requests' \in [Callers -> Asked]
      /\ \A d \in Callers : \/ requests'[d] = requests[d]
                            \/ ~Holding(requests[d]) /\ requests'[d].at = "lock"
                               /\ requests'[d].rt = r /\ requests'[d].seen \in Rows
  BY DEF GatewayInv, RequestsOK
<1>8. RequestsOK'
  <2>1. ASSUME NEW d \in Callers, requests'[d] = requests[d]
        PROVE  /\ Reading(requests'[d]) => requests'[d].seen \in Rows
               /\ requests'[d].at = "lock" => requests'[d].rt \in DOMAIN runtimes'
               /\ requests'[d].at = "dial" => requests'[d].rt # 0
               /\ Holding(requests'[d]) => /\ requests'[d].rt \in DOMAIN runtimes'
                                           /\ runtimes'[requests'[d].rt].holder = {d}
    BY SMTT(30), <1>4, <2>1 DEF GatewayInv, RequestsOK
  <2>2. ASSUME NEW d \in Callers, requests'[d].at = "lock", requests'[d].rt = r
        PROVE  ~Holding(requests'[d]) /\ requests'[d].rt \in DOMAIN runtimes'
    BY <1>4, <2>2 DEF Holding
  <2> QED BY <1>7, <2>1, <2>2 DEF RequestsOK, Holding, Reading
<1>9. ASSUME NEW s \in DOMAIN runtimes PROVE Sound(runtimes[s], s)'
  <2>1. Sound(runtimes[s], s) /\ runtimes'[s] = runtimes[s] /\ s # 0
    BY <1>4, <1>9, HeapCount DEF GatewayInv
  <2>2. ASSUME NEW d \in Callers, HeldBy(runtimes[s], s, d) PROVE HeldBy(runtimes[s], s, d)'
    <3>1. Holding(requests[d])
      BY <2>1, <2>2 DEF HeldBy, Holding
    <3> QED BY <1>7, <2>1, <2>2, <3>1 DEF HeldBy
  <2> QED BY <2>1, <2>2 DEF Sound, Truthful
<1>10. Sound(runtimes[r], r)'
  BY <1>3, <1>4 DEF Sound, Truthful
<1> QED BY <1>2, <1>4, <1>6, <1>8, <1>9, <1>10 DEF GatewayInv

LEMMA GatewayStart ==
  GatewayInit => GatewayInv
<1> SUFFICES ASSUME GatewayInit
             PROVE  GatewayInv
  OBVIOUS
<1>1. row \in Rows \cup {NoRow} /\ runtimes = << >> /\ registry = 0
      /\ requests = [c \in Callers |-> Idle(0)]
  BY GatewayAssumption DEF GatewayInit, Rows
<1>2. DOMAIN runtimes = {} /\ runtimes \in [1 .. 0 -> Runtime]
  BY <1>1
<1>3. HeapOK
  BY GatewayAssumption, <1>2 DEF HeapOK
<1>4. \A c \in Callers : requests[c] \in Asked /\ requests[c].at = "idle"
  BY <1>1, IdleRequest
<1>5. RequestsOK
  BY <1>1, <1>4 DEF RequestsOK, Holding, Reading
<1> QED BY <1>1, <1>2, <1>3, <1>5 DEF GatewayInv

(* The steps that move only a request.                                     *)
LEMMA GatewayRequests ==
  ASSUME GatewayInv, NEW c \in Callers,
         \/ Refuse(c)
         \/ \E enabled \in BOOLEAN : Create(c, enabled)
         \/ \E op \in {"connect", "disconnect", "update", "status", "test"} :
               Find(c, op)
         \/ DisconnectFound(c)
         \/ UpdateFound(c) \/ ReconcileLookup(c)
         \/ Delete(c)
         \/ ReadStatus(c) \/ TestConnection(c)
  PROVE  GatewayInv'
<1>0. /\ requests \in [Callers -> Asked] /\ row \in Rows \cup {NoRow}
      /\ registry \in DOMAIN runtimes \cup {0}
  BY DEF GatewayInv, RequestsOK
<1>1. registry \in Nat
  BY <1>0, HeapCount DEF GatewayInv
<1>2. 0 \in Status \cup Nat /\ 200 \in Nat /\ 201 \in Nat /\ 400 \in Nat /\ 500 \in Nat
  OBVIOUS
<1> DEFINE Still == /\ runtimes' = runtimes
                    /\ registry' \in DOMAIN runtimes \cup {0}
                    /\ row' \in Rows \cup {NoRow}
           q == requests[c]
<1>3. ASSUME q.at \notin {"dial", "delete"}, Ended(c), Still PROVE GatewayInv'
  BY <1>3, RequestEnds DEF Holding
<1>4. CASE Refuse(c)
  <2>1. Ended(c)
    BY <1>2, <1>4, EndsIdle DEF Refuse
  <2> QED BY <1>0, <1>3, <1>4, <2>1 DEF Refuse, Begin
<1>5. ASSUME NEW enabled \in BOOLEAN, Create(c, enabled) PROVE GatewayInv'
  <2>1. Ended(c)
    BY <1>2, <1>5, EndsIdle DEF Create
  <2>2. [enabled |-> enabled, config |-> 1] \in Rows
    BY GatewayAssumption DEF Rows
  <2>3. Still
    BY <1>0, <1>5, <2>2 DEF Create
  <2> QED BY <1>3, <1>5, <2>1, <2>3 DEF Create, Begin
<1>6. ASSUME NEW op \in {"connect", "disconnect", "update", "status", "test"},
             Find(c, op)
      PROVE  GatewayInv'
  <2> DEFINE found == [Idle(0) EXCEPT !.op = op, !.at = "found", !.seen = row]
  <2>1. Still /\ q.at = "idle"
    BY <1>0, <1>6 DEF Find, Begin
  <2>2. CASE row = NoRow /\ Fail(c, "not found")
    BY <1>3, <2>1, <2>2, EndsIdle
  <2>3. CASE row # NoRow /\ requests' = [requests EXCEPT ![c] = found]
    <3>1. found \in Asked /\ found.at = "found" /\ found.seen = row
      <4> DEFINE idle == Idle(0)
      <4>1. idle \in Asked
        BY <1>2, IdleRequest
      <4> HIDE DEF idle
      <4>2. [idle EXCEPT !.op = op, !.at = "found", !.seen = row] \in Asked
        BY <1>0, <4>1 DEF Asked
      <4>3. [idle EXCEPT !.op = op, !.at = "found", !.seen = row].at = "found"
        BY <4>1 DEF Asked
      <4>4. [idle EXCEPT !.op = op, !.at = "found", !.seen = row].seen = row
        BY <4>1 DEF Asked
      <4> QED BY <4>2, <4>3, <4>4 DEF idle
    <3> HIDE DEF found
    <3> QED BY <1>0, <2>1, <2>3, <3>1, RequestMoves DEF Holding, Reading
  <2> QED BY <1>6, <2>2, <2>3 DEF Find
<1>7. ASSUME q.at \in {"found", "saved"}, Still, NEW r \in DOMAIN runtimes,
             Lookup(c, r, "lock")
      PROVE  GatewayInv'
  <2> DEFINE p == [q EXCEPT !.rt = r, !.at = "lock"]
  <2>1. r \in Nat
    BY HeapCount DEF GatewayInv
  <2>2. p \in Asked /\ p.at = "lock" /\ p.rt = r /\ (Reading(p) => p.seen \in Rows)
    <3>1. Reading(q) => q.seen \in Rows
      BY DEF GatewayInv, RequestsOK
    <3>2. p \in Asked
      BY ZenonT(40), <1>0, <2>1 DEF Asked
    <3>3. p.at = "lock" /\ p.rt = r /\ p.seen = q.seen /\ p.op = q.op
      BY <1>0 DEF Asked
    <3> QED BY <1>7, <3>1, <3>2, <3>3 DEF Reading
  <2>3. requests' = [requests EXCEPT ![c] = p]
    BY <1>0, <1>7 DEF Lookup, Asked
  <2> HIDE DEF p
  <2> QED BY <1>7, <2>2, <2>3, RequestMoves DEF Holding, Reading
<1>8. CASE DisconnectFound(c) \/ ReconcileLookup(c)
  <2>1. Still /\ q.at \in {"found", "saved"}
    BY <1>0, <1>8 DEF DisconnectFound, ReconcileLookup
  <2>2. \/ Finish(c, 200)
        \/ registry # 0 /\ Lookup(c, registry, "lock")
    BY <1>8 DEF DisconnectFound, ReconcileLookup
  <2> QED BY <1>0, <1>2, <1>3, <1>7, <2>1, <2>2, EndsIdle
<1>9. CASE UpdateFound(c)
  <2>1. q.at = "found" /\ UNCHANGED <<runtimes, registry>>
    BY <1>9 DEF UpdateFound
  <2>2. CASE Ended(c) /\ UNCHANGED row
    BY <1>0, <1>3, <2>1, <2>2
  <2>3. ASSUME NEW enabled \in BOOLEAN, NEW version \in 1 .. MaxVersions,
               row' = [enabled |-> enabled, config |-> version],
               \/ Finish(c, 200)
               \/ requests' = [requests EXCEPT ![c].input = row', ![c].at = "saved"]
        PROVE  GatewayInv'
    <3> DEFINE p == [q EXCEPT !.input = row', !.at = "saved"]
    <3>1. row' \in Rows /\ Still
      BY <1>0, <2>1, <2>3 DEF Rows
    <3>2. CASE Finish(c, 200)
      BY <1>2, <1>3, <2>1, <3>1, <3>2, EndsIdle
    <3>3. CASE requests' = [requests EXCEPT ![c].input = row', ![c].at = "saved"]
      <4>1. p \in Asked /\ p.at = "saved" /\ (Reading(p) => p.seen \in Rows)
        <5>1. Reading(q) => q.seen \in Rows
          BY DEF GatewayInv, RequestsOK
        <5>2. p \in Asked
          BY <1>0, <3>1 DEF Asked
        <5>3. p.at = "saved" /\ p.seen = q.seen /\ p.op = q.op
          BY <1>0 DEF Asked
        <5> QED BY <2>1, <5>1, <5>2, <5>3 DEF Reading
      <4>2. requests' = [requests EXCEPT ![c] = p]
        BY <1>0, <3>3 DEF Asked
      <4> HIDE DEF p
      <4> QED BY <2>1, <3>1, <4>1, <4>2, RequestMoves DEF Holding, Reading
    <3> QED BY <2>3, <3>2, <3>3
  <2>4. \/ Ended(c) /\ UNCHANGED row
        \/ \E enabled \in BOOLEAN, version \in 1 .. MaxVersions :
              /\ row' = [enabled |-> enabled, config |-> version]
              /\ \/ Finish(c, 200)
                 \/ requests' = [requests EXCEPT ![c].input = row', ![c].at = "saved"]
    BY <1>2, <1>9, EndsIdle DEF UpdateFound
  <2> QED BY <2>2, <2>3, <2>4
<1>10. CASE Delete(c)
  <2> DEFINE p == [Idle(0) EXCEPT !.op = "delete", !.rt = registry,
                      !.at = IF registry = 0 THEN "delete" ELSE "lock"]
  <2>1. Still /\ q.at = "idle" /\ requests' = [requests EXCEPT ![c] = p]
    BY <1>0, <1>10 DEF Delete, Begin
  <2>2. /\ p \in Asked /\ p.rt = registry /\ p.op = "delete"
        /\ p.at = IF registry = 0 THEN "delete" ELSE "lock"
    <3> DEFINE idle == Idle(0)
               at == IF registry = 0 THEN "delete" ELSE "lock"
    <3>1. idle \in Asked
      BY <1>2, IdleRequest
    <3>2. at \in {"delete", "lock"}
      OBVIOUS
    <3> HIDE DEF idle, at
    <3>3. [idle EXCEPT !.op = "delete", !.rt = registry, !.at = at] \in Asked
      BY <1>1, <3>1, <3>2 DEF Asked
    <3>4. /\ [idle EXCEPT !.op = "delete", !.rt = registry, !.at = at].rt = registry
          /\ [idle EXCEPT !.op = "delete", !.rt = registry, !.at = at].at = at
          /\ [idle EXCEPT !.op = "delete", !.rt = registry, !.at = at].op = "delete"
      BY <3>1 DEF Asked
    <3> QED BY <3>3, <3>4 DEF idle, at
  <2> HIDE DEF p
  <2> QED BY <1>0, <2>1, <2>2, RequestMoves DEF Holding, Reading
<1>11. CASE ReadStatus(c)
  <2>1. q.at = "found" /\ Still
    BY <1>0, <1>11 DEF ReadStatus
  <2>2. \A b : statusForGateway(b) \in Status
    BY <1>0, HeapCount DEF statusForGateway, GatewayInv, Runtime, Status
  <2> QED BY <1>3, <1>11, <2>1, <2>2, EndsIdle DEF ReadStatus
<1>12. CASE TestConnection(c)
  <2>1. q.at = "found" /\ Still /\ Ended(c)
    BY <1>0, <1>2, <1>12, EndsIdle DEF TestConnection
  <2> QED BY <1>3, <2>1
<1> QED BY <1>4, <1>5, <1>6, <1>8, <1>9, <1>10, <1>11, <1>12

(* Connect: the runtime, the client and the network.                       *)
LEMMA GatewayConnect ==
  ASSUME GatewayInv, NEW c \in Callers,
         \/ ConnectFound(c) \/ ConnectLocked(c)
         \/ Dialled(c)
  PROVE  GatewayInv'
<1>0. /\ requests \in [Callers -> Asked] /\ row \in Rows \cup {NoRow}
      /\ registry \in DOMAIN runtimes \cup {0}
      /\ runtimes \in [DOMAIN runtimes -> Runtime]
  BY HeapCount DEF GatewayInv, RequestsOK
<1>2. 200 \in Nat /\ NoClient \notin Client
  BY GatewayAssumption
<1> DEFINE q == requests[c]
           r == q.rt
           t == runtimes[r]
<1>3. CASE ConnectFound(c)
  <2>1. q.at = "found" /\ q.op = "connect" /\ row' = row
    BY <1>3 DEF ConnectFound
  <2>2. CASE Fail(c, "disabled") /\ UNCHANGED <<runtimes, registry>>
    BY <1>0, <2>1, <2>2, EndsIdle, RequestEnds DEF Holding
  <2>3. ASSUME NEW n \in 1 .. MaxRuntimes, RuntimeFor(n),
               Lookup(c, n, "lock")
        PROVE  GatewayInv'
    <3> DEFINE p == [q EXCEPT !.rt = n, !.at = "lock"]
    <3>1. n \in Nat
      BY GatewayAssumption
    <3>2. p \in Asked /\ p.at = "lock" /\ p.rt = n /\ p.seen \in Rows
      <4>1. q.seen \in Rows
        BY <2>1 DEF GatewayInv, RequestsOK, Reading
      <4>2. p \in Asked
        BY <1>0, <3>1 DEF Asked
      <4>3. p.at = "lock" /\ p.rt = n /\ p.seen = q.seen
        BY <1>0 DEF Asked
      <4> QED BY <4>1, <4>2, <4>3
    <3>3. requests' = [requests EXCEPT ![c] = p]
      BY <1>0, <2>3 DEF Lookup, Asked
    <3> HIDE DEF p
    <3>4. CASE registry = 0
      BY <2>1, <2>3, <3>2, <3>3, <3>4, RuntimeAllocated DEF Holding
    <3>5. CASE registry # 0
      <4>1. n = registry /\ UNCHANGED <<runtimes, registry>>
        BY <2>3, <3>5 DEF RuntimeFor
      <4> QED BY <1>0, <2>1, <3>2, <3>3, <3>5, <4>1, RequestMoves DEF Holding, Reading
    <3> QED BY <3>4, <3>5
  <2> QED BY <1>3, <2>2, <2>3 DEF ConnectFound
<1>4. CASE ConnectLocked(c)
  <2>1. q.at = "lock" /\ t.holder = {} /\ UNCHANGED <<row, registry>> /\ r \in DOMAIN runtimes
        /\ t \in Runtime /\ ~Holding(q) /\ Truthful(t)
    BY <1>0, <1>4 DEF ConnectLocked, Free, GatewayInv, RequestsOK,
       Holding, Sound
  <2>2. CASE /\ t.client # NoClient /\ t.client.up
             /\ runtimes' = [runtimes EXCEPT ![r].status = "connected", ![r].connectedAt = TRUE]
             /\ Finish(c, 200)
    <3> DEFINE u == [t EXCEPT !.status = "connected", !.connectedAt = TRUE]
    <3>1. u \in Runtime /\ u.holder = {} /\ u.status = "connected" /\ u.connectedAt
          /\ u.client # NoClient
      BY <2>1, <2>2 DEF Runtime, Status
    <3>2. runtimes' = [runtimes EXCEPT ![r] = u]
      BY <1>0, <2>1, <2>2 DEF Runtime
    <3> HIDE DEF u
    <3>3. Truthful(u)
      BY <3>1 DEF Truthful
    <3>4. PICK p \in Asked : p.at = "idle" /\ requests' = [requests EXCEPT ![c] = p]
      BY <1>2, <2>2, EndsIdle DEF Ended
    <3> QED BY <1>0, <2>1, <3>1, <3>2, <3>3, <3>4, RuntimeMoves
  <2>3. CASE /\ t.client # NoClient => ~t.client.up
             /\ runtimes' = [runtimes EXCEPT
                   ![r].status = "connecting", ![r].holder = {c},
                   ![r].client = IF t.client # NoClient THEN t.client
                                 ELSE [config |-> q.seen.config, up |-> FALSE]]
             /\ requests' = [requests EXCEPT ![c].at = "dial"]
    <3> DEFINE client == IF t.client # NoClient THEN t.client
                         ELSE [config |-> q.seen.config, up |-> FALSE]
               u == [t EXCEPT !.status = "connecting", !.holder = {c}, !.client = client]
               p == [q EXCEPT !.at = "dial"]
    <3>1. q.seen \in Rows /\ t.client \in Client \cup {NoClient}
      BY <1>0, <1>4, <2>1 DEF ConnectLocked, GatewayInv, RequestsOK, Reading, Runtime
    <3>2. client \in Client /\ ~client.up
      <4>1. [config |-> q.seen.config, up |-> FALSE] \in Client
        BY <3>1 DEF Rows, Client
      <4> QED BY <2>3, <3>1, <4>1
    <3>3. client # NoClient
      BY <1>2, <3>2
    <3>4. runtimes' = [runtimes EXCEPT ![r].status = "connecting", ![r].holder = {c},
                                       ![r].client = client]
      BY <2>3
    <3> HIDE DEF client
    <3>5. u \in Runtime
      BY <2>1, <3>2 DEF Runtime, Status
    <3>6. u.holder = {c} /\ u.status = "connecting" /\ u.client = client
      BY <2>1 DEF Runtime
    <3>7. runtimes' = [runtimes EXCEPT ![r] = u]
      BY <1>0, <2>1, <3>4 DEF Runtime
    <3>8. p \in Asked /\ p.at = "dial" /\ p.rt = r
      BY <1>0 DEF Asked
    <3>9. requests' = [requests EXCEPT ![c] = p]
      BY <1>0, <2>3 DEF Asked
    <3> HIDE DEF u, p
    <3> QED BY <2>1, <3>2, <3>3, <3>5, <3>6, <3>7, <3>8, <3>9, RuntimeTaken
  <2>4. CASE /\ t.client = NoClient /\ Fail(c, "client")
             /\ runtimes' = [runtimes EXCEPT ![r].status = "error", ![r].connectedAt = FALSE]
    <3> DEFINE u == [t EXCEPT !.status = "error", !.connectedAt = FALSE]
    <3>1. u \in Runtime /\ u.holder = {} /\ u.status = "error" /\ u.client = NoClient
      BY <2>1, <2>4 DEF Runtime, Status
    <3>2. runtimes' = [runtimes EXCEPT ![r] = u]
      BY <1>0, <2>1, <2>4 DEF Runtime
    <3> HIDE DEF u
    <3>3. Truthful(u)
      BY <3>1 DEF Truthful
    <3>4. PICK p \in Asked : p.at = "idle" /\ requests' = [requests EXCEPT ![c] = p]
      BY <2>4, EndsIdle DEF Ended
    <3> QED BY <1>0, <2>1, <3>1, <3>2, <3>3, <3>4, RuntimeMoves
  <2> QED BY <1>4, <2>2, <2>3, <2>4 DEF ConnectLocked
<1>5. CASE Dialled(c)
  <2>1. q.at = "dial" /\ UNCHANGED <<row, registry>> /\ r \in DOMAIN runtimes
        /\ t \in Runtime /\ Holding(q) /\ t.holder = {c}
    BY <1>0, <1>5 DEF Dialled, GatewayInv, RequestsOK, Holding
  <2>2. t.client # NoClient /\ t.client \in Client /\ ~t.client.up
    <3>1. PICK d \in Callers : HeldBy(t, r, d)
      BY <2>1 DEF GatewayInv, Sound
    <3>2. d = c
      BY <2>1, <3>1 DEF HeldBy
    <3> QED BY <2>1, <3>1, <3>2 DEF HeldBy, Runtime
  <2>3. CASE /\ runtimes' = [runtimes EXCEPT
                   ![r].status = "connected", ![r].connectedAt = TRUE, ![r].holder = {},
                   ![r].client = IF @ = NoClient THEN NoClient ELSE [@ EXCEPT !.up = TRUE]]
             /\ Finish(c, 200)
    <3> DEFINE client == [t.client EXCEPT !.up = TRUE]
               u == [t EXCEPT !.status = "connected", !.connectedAt = TRUE, !.holder = {},
                              !.client = client]
    <3>1. client \in Client
      BY <2>2 DEF Client
    <3>2. client # NoClient
      BY <1>2, <3>1
    <3>3. runtimes' = [runtimes EXCEPT
                   ![r].status = "connected", ![r].connectedAt = TRUE, ![r].holder = {},
                   ![r].client = client]
      BY <1>0, <2>1, <2>2, <2>3 DEF Runtime
    <3> HIDE DEF client
    <3>4. u \in Runtime
      BY <2>1, <3>1 DEF Runtime, Status
    <3>5. u.holder = {} /\ u.status = "connected" /\ u.connectedAt /\ u.client = client
      BY <2>1 DEF Runtime
    <3>6. runtimes' = [runtimes EXCEPT ![r] = u]
      BY <1>0, <2>1, <3>3 DEF Runtime
    <3> HIDE DEF u
    <3>7. Truthful(u)
      BY <3>2, <3>5 DEF Truthful
    <3>8. PICK p \in Asked : p.at = "idle" /\ requests' = [requests EXCEPT ![c] = p]
      BY <1>2, <2>3, EndsIdle DEF Ended
    <3> QED BY <1>0, <2>1, <3>4, <3>5, <3>6, <3>7, <3>8, RuntimeMoves
  <2>4. CASE /\ runtimes' = [runtimes EXCEPT
                   ![r].status = "error", ![r].connectedAt = FALSE, ![r].holder = {}]
             /\ Fail(c, "network")
    <3> DEFINE u == [t EXCEPT !.status = "error", !.connectedAt = FALSE, !.holder = {}]
    <3>1. u \in Runtime
      BY <2>1 DEF Runtime, Status
    <3>2. u.holder = {} /\ u.status = "error" /\ u.client = t.client
      BY <2>1 DEF Runtime
    <3>3. runtimes' = [runtimes EXCEPT ![r] = u]
      BY <1>0, <2>1, <2>4 DEF Runtime
    <3> HIDE DEF u
    <3>4. Truthful(u)
      BY <2>2, <3>2 DEF Truthful
    <3>5. PICK p \in Asked : p.at = "idle" /\ requests' = [requests EXCEPT ![c] = p]
      BY <2>4, EndsIdle DEF Ended
    <3> QED BY <1>0, <2>1, <3>1, <3>2, <3>3, <3>4, <3>5, RuntimeMoves
  <2> QED BY <1>5, <2>3, <2>4 DEF Dialled
<1> QED BY <1>3, <1>4, <1>5

(* Disconnect, Update and Delete, which close the client.                  *)
LEMMA GatewayCloses ==
  ASSUME GatewayInv, NEW c \in Callers,
         \/ DisconnectLocked(c)
         \/ reconcileRuntimeAfterUpdate(c)
         \/ DeleteLocked(c)
  PROVE  GatewayInv'
<1> DEFINE q == requests[c]
           r == q.rt
           t == runtimes[r]
           After(status) == [t EXCEPT !.client = NoClient, !.connectedAt = FALSE,
                                      !.status = status]
<1>1. /\ requests \in [Callers -> Asked] /\ row \in Rows \cup {NoRow}
      /\ registry \in DOMAIN runtimes \cup {0}
      /\ runtimes \in [DOMAIN runtimes -> Runtime]
  BY HeapCount DEF GatewayInv, RequestsOK
<1>2. q.at = "lock" /\ t.holder = {} /\ UNCHANGED <<row, registry>> /\ r \in DOMAIN runtimes
      /\ t \in Runtime /\ ~Holding(q)
  BY <1>1 DEF DisconnectLocked, reconcileRuntimeAfterUpdate,
     DeleteLocked, Free, GatewayInv, RequestsOK, Holding
<1>3. ASSUME NEW status \in {"disconnected", "stopped", "error"}
      PROVE  /\ After(status) \in Runtime /\ After(status).holder = {}
             /\ After(status).client = NoClient /\ After(status).status = status
             /\ Truthful(After(status))
  <2> DEFINE u == After(status)
  <2>1. u \in Runtime
    BY <1>2 DEF Runtime, Status
  <2>2. u.holder = {} /\ u.client = NoClient /\ u.status = status
    BY <1>2 DEF Runtime
  <2> HIDE DEF u
  <2>3. Truthful(u)
    BY <2>2 DEF Truthful
  <2> QED BY <2>1, <2>2, <2>3 DEF u
<1>4. ASSUME NEW status, NEW failed
      PROVE  Closed(r, status, failed)
                = [runtimes EXCEPT ![r] = After(IF failed THEN "error" ELSE status)]
  <2> DEFINE left == IF failed THEN "error" ELSE status
  <2>1. Closed(r, status, failed)
          = [runtimes EXCEPT ![r].client = NoClient, ![r].connectedAt = FALSE, ![r].status = left]
    BY DEF Closed
  <2> HIDE DEF left
  <2>2. [runtimes EXCEPT ![r].client = NoClient, ![r].connectedAt = FALSE, ![r].status = left]
          = [runtimes EXCEPT ![r] = After(left)]
    BY <1>1, <1>2 DEF Runtime
  <2> QED BY <2>1, <2>2 DEF left
<1>5. ASSUME NEW status \in {"disconnected", "stopped", "error"}, Ended(c),
             runtimes' = [runtimes EXCEPT ![r] = After(status)]
      PROVE  GatewayInv'
  <2> DEFINE u == After(status)
  <2>1. u \in Runtime /\ u.holder = {} /\ Truthful(u) /\ runtimes' = [runtimes EXCEPT ![r] = u]
    BY <1>3, <1>5
  <2> HIDE DEF u
  <2>2. PICK p \in Asked : p.at = "idle" /\ requests' = [requests EXCEPT ![c] = p]
    BY <1>5 DEF Ended
  <2> QED BY <1>1, <1>2, <2>1, <2>2, RuntimeMoves
<1> HIDE DEF After
<1>6. 200 \in Nat
  OBVIOUS
<1>7. CASE DisconnectLocked(c)
  <2>1. PICK failed \in BOOLEAN, status \in {"disconnected", "stopped"} :
           /\ runtimes' = Closed(r, status, failed)
           /\ Fail(c, "network") \/ Finish(c, 200)
    BY <1>7 DEF DisconnectLocked, CanFail
  <2> QED BY ZenonT(40), <1>4, <1>5, <1>6, <2>1, EndsIdle
<1>8. CASE reconcileRuntimeAfterUpdate(c)
  <2>1. PICK failed \in BOOLEAN, status \in {"disconnected", "stopped"} :
           /\ runtimes' = Closed(r, status, failed)
           /\ Finish(c, 200)
    BY <1>8 DEF reconcileRuntimeAfterUpdate, CanFail
  <2> QED BY ZenonT(40), <1>4, <1>5, <1>6, <2>1, EndsIdle
<1>9. CASE DeleteLocked(c)
  <2>1. \/ /\ runtimes' = Closed(r, "error", TRUE)
           /\ Fail(c, "network")
        \/ /\ runtimes' = [Closed(r, "disconnected", FALSE) EXCEPT ![r].holder = {c}]
           /\ requests' = [requests EXCEPT ![c].at = "delete"]
    BY <1>9 DEF DeleteLocked
  <2>2. CASE /\ runtimes' = Closed(r, "error", TRUE)
             /\ Fail(c, "network")
    BY <1>4, <1>5, <2>2, EndsIdle
  <2>3. CASE /\ runtimes' = [Closed(r, "disconnected", FALSE)
                               EXCEPT ![r].holder = {c}]
             /\ requests' = [requests EXCEPT ![c].at = "delete"]
    <3> DEFINE w == After("disconnected")
               u == [w EXCEPT !.holder = {c}]
               p == [q EXCEPT !.at = "delete"]
    <3>1. w \in Runtime /\ w.client = NoClient /\ w.status = "disconnected"
      BY <1>3
    <3>2. Closed(r, "disconnected", FALSE) = [runtimes EXCEPT ![r] = w]
      BY <1>4
    <3> HIDE DEF w
    <3>3. u \in Runtime
      BY <3>1 DEF Runtime
    <3>4. u.holder = {c} /\ u.status = "disconnected" /\ u.client = NoClient
      BY <3>1 DEF Runtime
    <3>5. runtimes' = [runtimes EXCEPT ![r] = u]
      BY <1>1, <1>2, <2>3, <3>1, <3>2 DEF Runtime
    <3>6. p \in Asked /\ p.at = "delete" /\ p.rt = r
      BY <1>1 DEF Asked
    <3>7. requests' = [requests EXCEPT ![c] = p]
      BY <1>1, <2>3 DEF Asked
    <3> HIDE DEF u, p
    <3> QED BY <1>2, <3>3, <3>4, <3>5, <3>6, <3>7, RuntimeTaken
  <2> QED BY <2>1, <2>2, <2>3
<1> QED BY <1>7, <1>8, <1>9

LEMMA GatewayDeletesRow ==
  ASSUME GatewayInv, NEW c \in Callers,
         DeleteRow(c)
  PROVE  GatewayInv'
<1> DEFINE q == requests[c]
           r == q.rt
           t == runtimes[r]
<1>1. /\ requests \in [Callers -> Asked] /\ row \in Rows \cup {NoRow}
      /\ registry \in DOMAIN runtimes \cup {0}
      /\ runtimes \in [DOMAIN runtimes -> Runtime]
  BY HeapCount DEF GatewayInv, RequestsOK
<1>2. /\ q.at = "delete" /\ row' \in Rows \cup {NoRow}
      /\ registry' \in DOMAIN runtimes \cup {0}
  BY <1>1 DEF DeleteRow
<1>3. Ended(c)
  <2>1. 204 \in Nat
    OBVIOUS
  <2> QED BY <2>1, EndsIdle DEF DeleteRow
<1>4. CASE r = 0
  <2>1. runtimes' = runtimes /\ ~Holding(q)
    BY <1>4 DEF DeleteRow, Holding
  <2> QED BY <1>2, <1>3, <2>1, RequestEnds
<1>5. CASE r # 0
  <2>1. Holding(q) /\ r \in DOMAIN runtimes /\ t \in Runtime /\ t.holder = {c}
    BY <1>1, <1>2, <1>5 DEF Holding, GatewayInv, RequestsOK
  <2>2. t.status = "disconnected" /\ t.client = NoClient
    <3>1. PICK d \in Callers : HeldBy(t, r, d)
      BY <2>1 DEF GatewayInv, Sound
    <3>2. d = c
      BY <2>1, <3>1 DEF HeldBy
    <3> QED BY <1>2, <3>1, <3>2 DEF HeldBy
  <2> DEFINE u == [t EXCEPT !.holder = {}]
  <2>3. u \in Runtime
    BY <2>1 DEF Runtime
  <2>4. u.holder = {} /\ u.status = "disconnected" /\ u.client = NoClient
    BY <2>1, <2>2 DEF Runtime
  <2>5. runtimes' = [runtimes EXCEPT ![r] = u]
    BY <1>1, <1>5, <2>1 DEF DeleteRow, Runtime
  <2> HIDE DEF u
  <2>6. Truthful(u)
    BY <2>4 DEF Truthful
  <2>7. PICK p \in Asked : p.at = "idle" /\ requests' = [requests EXCEPT ![c] = p]
    BY <1>3 DEF Ended
  <2> QED BY <1>2, <2>1, <2>3, <2>4, <2>5, <2>6, <2>7, RuntimeMoves
<1> QED BY <1>4, <1>5

LEMMA GatewayLoses ==
  ASSUME GatewayInv, ConnectionLost
  PROVE  GatewayInv'
<1>1. PICK r \in DOMAIN runtimes :
         /\ runtimes[r].client # NoClient /\ runtimes[r].client.up
         /\ runtimes' = [runtimes EXCEPT ![r].client.up = FALSE]
  BY DEF ConnectionLost, Heap
<1> DEFINE t == runtimes[r]
           client == [t.client EXCEPT !.up = FALSE]
           u == [t EXCEPT !.client = client]
<1>2. t \in Runtime /\ runtimes \in [DOMAIN runtimes -> Runtime] /\ Sound(t, r)
      /\ UNCHANGED <<row, registry, requests>>
  BY HeapCount DEF GatewayInv, ConnectionLost
<1>3. t.holder = {} /\ Truthful(t)
  BY <1>1, <1>2 DEF Sound, HeldBy
<1>4. client \in Client
  BY <1>1, <1>2 DEF Runtime, Client
<1>5. client # NoClient
  BY GatewayAssumption, <1>4
<1>6. ~client.up
  BY <1>1, <1>2 DEF Runtime, Client
<1>7. runtimes' = [runtimes EXCEPT ![r].client = client]
  BY <1>1, <1>2 DEF Runtime
<1> HIDE DEF client
<1>8. u \in Runtime
  BY <1>2, <1>4 DEF Runtime
<1>9. u.holder = {} /\ u.client = client /\ u.status = t.status /\ u.connectedAt = t.connectedAt
  BY <1>2, <1>3 DEF Runtime
<1>10. runtimes' = [runtimes EXCEPT ![r] = u]
  BY <1>2, <1>7 DEF Runtime
<1> HIDE DEF u
<1>11. Truthful(u)
  BY <1>1, <1>3, <1>5, <1>6, <1>9 DEF Truthful
<1>12. /\ DOMAIN runtimes' = DOMAIN runtimes
       /\ \A s \in DOMAIN runtimes : runtimes'[s] = IF s = r THEN u ELSE runtimes[s]
  BY <1>10
<1>13. HeapOK'
  BY <1>8, <1>10 DEF GatewayInv, HeapOK
<1>14. RequestsOK'
  BY <1>2, <1>3, <1>9, <1>12 DEF GatewayInv, RequestsOK
<1>15. ASSUME NEW s \in DOMAIN runtimes PROVE Sound(runtimes[s], s)'
  BY <1>2, <1>9, <1>11, <1>12, <1>15 DEF GatewayInv, Sound, Truthful, HeldBy
<1> QED BY <1>2, <1>12, <1>13, <1>14, <1>15 DEF GatewayInv

LEMMA GatewayStep ==
  ASSUME GatewayInv,
         [GatewayNext]_gatewayVars
  PROVE  GatewayInv'
<1>1. CASE RecordGatewayRequest
  <2>1. PICK r \in 1 .. MaxRuntimes : RuntimeFor(r)
    BY <1>1 DEF RecordGatewayRequest
  <2>2. registry = 0 /\ row' = row /\ requests' = requests
    BY <1>1 DEF RecordGatewayRequest
  <2> QED BY <2>1, <2>2, RuntimeAllocated
<1>2. CASE ConnectionLost
  BY <1>2, GatewayLoses
<1>3. CASE UNCHANGED gatewayVars
  BY <1>3 DEF gatewayVars, GatewayInv, HeapOK, RequestsOK, Sound, HeldBy
<1> QED BY <1>1, <1>2, <1>3, GatewayRequests, GatewayConnect, GatewayCloses, GatewayDeletesRow
        DEF GatewayNext

(* Outside an operation the status of a gateway's runtime says what its    *)
(* client does, whichever requests connect, disconnect, change and delete  *)
(* the gateway meanwhile (connection.go, crud.go and status.go of          *)
(* vgateway).  For every number of requests, runtimes and configurations.  *)
THEOREM StatusIsTruthful == GatewaySpec => []StatusTruthful
<1>1. GatewayInit => GatewayInv
  BY GatewayStart
<1>2. GatewayInv /\ [GatewayNext]_gatewayVars => GatewayInv'
  BY GatewayStep
<1> QED BY <1>1, <1>2, GatewayTruthful, PTL DEF GatewaySpec

MadeOK == made \in [Callers -> 0 .. MaxMade]

LEMMA GatewayCounts == MadeOK /\ [GatewayNext]_gatewayVars => MadeOK'
<1> SUFFICES ASSUME MadeOK, [GatewayNext]_gatewayVars PROVE MadeOK'
  OBVIOUS
<1>1. CASE UNCHANGED made
  BY <1>1 DEF MadeOK
<1>2. ASSUME NEW c \in Callers, Begin(c) PROVE MadeOK'
  BY <1>2, GatewayAssumption DEF MadeOK, Begin
<1>3. ASSUME NEW c \in Callers,
             \/ ConnectFound(c) \/ ConnectLocked(c) \/ Dialled(c) \/ DisconnectFound(c)
             \/ DisconnectLocked(c) \/ UpdateFound(c) \/ ReconcileLookup(c)
             \/ reconcileRuntimeAfterUpdate(c) \/ DeleteLocked(c) \/ DeleteRow(c)
             \/ ReadStatus(c) \/ TestConnection(c)
      PROVE  UNCHANGED made
  BY <1>3 DEF ConnectFound, ConnectLocked, Dialled, DisconnectFound, DisconnectLocked,
     UpdateFound, ReconcileLookup, reconcileRuntimeAfterUpdate, DeleteLocked, DeleteRow,
     ReadStatus, TestConnection
<1>4. ASSUME RecordGatewayRequest \/ ConnectionLost \/ UNCHANGED gatewayVars
      PROVE  UNCHANGED made
  BY <1>4 DEF RecordGatewayRequest, ConnectionLost, gatewayVars
<1>5. ASSUME NEW c \in Callers,
             \/ Refuse(c) \/ Delete(c) \/ \E enabled \in BOOLEAN : Create(c, enabled)
             \/ \E op \in {"connect", "disconnect", "update", "status", "test"} : Find(c, op)
      PROVE  MadeOK'
  BY <1>2, <1>5 DEF Refuse, Delete, Create, Find
<1> QED BY <1>1, <1>3, <1>4, <1>5 DEF GatewayNext

LEMMA GatewayTypes == GatewayInv /\ MadeOK => GatewayTypeOK
<1> SUFFICES ASSUME GatewayInv, MadeOK PROVE GatewayTypeOK
  OBVIOUS
<1>1. PICK n \in Nat : n <= MaxRuntimes /\ runtimes \in [1 .. n -> Runtime]
  BY DEF GatewayInv, HeapOK
<1>2. DOMAIN runtimes = 1 .. n
  BY <1>1
<1>3. Cardinality(1 .. n) = n
  BY FS_Interval
<1>4. ASSUME NEW r \in DOMAIN runtimes
      PROVE  /\ runtimes[r].client \in Client \cup {NoClient} /\ runtimes[r].status \in Status
             /\ Cardinality(runtimes[r].holder) <= 1
  <2>1. runtimes[r] \in Runtime /\ Sound(runtimes[r], r)
    BY <1>1, <1>2, <1>4 DEF GatewayInv
  <2>2. Cardinality({}) <= 1
    BY FS_EmptySet
  <2>3. \A c \in Callers : Cardinality({c}) = 1
    BY FS_Singleton
  <2> QED BY <2>1, <2>2, <2>3 DEF Sound, HeldBy, Runtime
<1> QED BY <1>1, <1>2, <1>3, <1>4 DEF GatewayInv, GatewayTypeOK, MadeOK, Rows, Heap

(* vgateway/runtime.go: operationMu of a runtime has one holder at  *)
(* most, and the runtime in the map is one that was made.                   *)
THEOREM RuntimesAreLocked == GatewaySpec => []GatewayTypeOK
<1>1. GatewayInit => MadeOK
  BY GatewayAssumption DEF GatewayInit, MadeOK
<1>2. GatewaySpec => [](GatewayInv /\ MadeOK)
  BY <1>1, GatewayStart, GatewayStep, GatewayCounts, PTL DEF GatewaySpec
<1> QED BY <1>2, GatewayTypes, PTL
----------------------------------------------------------------------------
(* The HTTP server of a publisher (HTTPSnapshot).                          *)
(*                                                                         *)
(* The places of the limit are the open connections and the gauge is the   *)
(* registered ones, step by step; a request that was admitted was right    *)
(* in everything, and what it reads is no older than it.                   *)

Stages == {"none", "backlog", "accepted", "idle", "request", "admitted", "answering", "ending"}
Shots == [n : Nat, has : QualitySets \cup {{}}]
Conn == [at : Stages, wrong : Requests \cup {{}}, floor : Nat, snap : Shots, open : BOOLEAN]

Registered(k) == k.at \notin {"none", "backlog", "accepted"}
Forgiven == IF mode = "anonymous" THEN {"credentials"} ELSE {}

ConnOK(k) ==
  /\ k.at \in {"none", "backlog", "ending"} => ~k.open
  /\ k.at \in {"request", "admitted", "answering"} => k.floor <= snapshot.n
  /\ k.at \in {"admitted", "answering"} => k.wrong \subseteq Forgiven
  /\ k.at = "answering" => k.snap.n >= k.floor /\ k.snap.n > 0 /\ k.snap.has # {}

ConnsOK == conn \in [Clients -> Conn] /\ \A c \in Clients : ConnOK(conn[c])
Counted == /\ permits = Cardinality({c \in Clients : conn[c].open})
           /\ active = Cardinality({c \in Clients : Registered(conn[c])})
HTTPInv ==
  /\ snapshot \in Shots /\ (snapshot.n > 0 => snapshot.has # {})
  /\ ConnsOK /\ Counted /\ PayloadIsDue


LEMMA HTTPServed == HTTPInv => SnapshotServed
BY DEF HTTPInv, Counted, Registered, SnapshotServed, PlacesMatchConnections

(* A number that gains or loses one as something begins or ends to hold.   *)
Counts(m, n, before, then) ==
  /\ then /\ ~before => n = m + 1
  /\ before /\ ~then => n = m - 1
  /\ (before <=> then) => n = m

LEMMA OneMore ==
  ASSUME NEW S, IsFiniteSet(S), NEW T, NEW x, T \ {x} = S \ {x}, NEW n,
         Counts(Cardinality(S), n, x \in S, x \in T)
  PROVE  n = Cardinality(T)
<1> DEFINE U == S \ {x}
<1>1. IsFiniteSet(U) /\ Cardinality(U) \in Nat /\ x \notin U
  BY FS_Subset, FS_CardinalityType
<1>2. Cardinality(U \cup {x}) = Cardinality(U) + 1
  BY <1>1, FS_AddElement
<1>3. /\ x \in S => S = U \cup {x}
      /\ x \notin S => S = U
      /\ x \in T => T = U \cup {x}
      /\ x \notin T => T = U
  OBVIOUS
<1> HIDE DEF U
<1>4. /\ x \in S => Cardinality(S) = Cardinality(U) + 1
      /\ x \notin S => Cardinality(S) = Cardinality(U)
      /\ x \in T => Cardinality(T) = Cardinality(U) + 1
      /\ x \notin T => Cardinality(T) = Cardinality(U)
  BY <1>2, <1>3
<1> QED BY <1>1, <1>4 DEF Counts

(* A step that moves one connection, with its place and its registration.  *)
LEMMA ConnMoves ==
  ASSUME HTTPInv, NEW c \in Clients, NEW k \in Conn, ConnOK(k),
         conn' = [conn EXCEPT ![c] = k],
         Counts(permits, permits', conn[c].open, k.open),
         Counts(active, active', Registered(conn[c]), Registered(k)),
         mode' = mode, snapshot' = snapshot
  PROVE  ConnsOK' /\ Counted'
<1>1. conn \in [Clients -> Conn] /\ IsFiniteSet(Clients)
  BY HTTPAssumption DEF HTTPInv, ConnsOK
<1>2. \A d \in Clients : conn'[d] = IF d = c THEN k ELSE conn[d]
  BY <1>1
<1>3. ConnsOK'
  BY <1>1, <1>2 DEF HTTPInv, ConnsOK, ConnOK, Forgiven
<1> DEFINE S == {d \in Clients : conn[d].open}
           T == {d \in Clients : conn'[d].open}
           U == {d \in Clients : Registered(conn[d])}
           V == {d \in Clients : Registered(conn'[d])}
<1>4. IsFiniteSet(S) /\ IsFiniteSet(U)
  BY <1>1, FS_Subset
<1>5. T \ {c} = S \ {c} /\ (c \in T <=> k.open) /\ (c \in S <=> conn[c].open)
  BY <1>2
<1>6. V \ {c} = U \ {c} /\ (c \in V <=> Registered(k)) /\ (c \in U <=> Registered(conn[c]))
  BY <1>2
<1>7. permits = Cardinality(S) /\ active = Cardinality(U)
  BY DEF HTTPInv, Counted
<1> HIDE DEF S, T, U, V
<1>8. permits' = Cardinality(T)
  BY <1>4, <1>5, <1>7, OneMore DEF Counts
<1>9. active' = Cardinality(V)
  BY <1>4, <1>6, <1>7, OneMore DEF Counts
<1>10. Counted'
  BY <1>8, <1>9 DEF Counted, T, V, Registered
<1> QED BY <1>3, <1>10

LEMMA HTTPStart == HTTPInit => HTTPInv
<1> SUFFICES ASSUME HTTPInit PROVE HTTPInv
  OBVIOUS
<1>1. conn = [c \in Clients |-> NoConn] /\ permits = 0 /\ active = 0
      /\ snapshot = [n |-> 0, has |-> {}] /\ answer = NoAnswer
  BY DEF HTTPInit
<1>2. NoConn \in Conn /\ ConnOK(NoConn) /\ ~Registered(NoConn) /\ ~NoConn.open
  BY DEF NoConn, Conn, Stages, Shots, ConnOK, Registered
<1>3. {c \in Clients : conn[c].open} = {} /\ {c \in Clients : Registered(conn[c])} = {}
  BY <1>1, <1>2
<1>4. Counted
  BY <1>1, <1>3, FS_EmptySet DEF Counted
<1>5. snapshot \in Shots /\ ~(snapshot.n > 0)
  BY <1>1 DEF Shots
<1>6. PayloadIsDue
  BY <1>1 DEF PayloadIsDue, NoAnswer
<1>7. ConnsOK
  BY <1>1, <1>2 DEF ConnsOK
<1> QED BY <1>4, <1>5, <1>6, <1>7 DEF HTTPInv

(* The connections, from the client's call to the server's last state.     *)
LEMMA HTTPConnections ==
  ASSUME HTTPInv, NEW c \in Clients,
         \/ Dial(c) \/ Accept(c) \/ Register(c) \/ HangUp(c)
         \/ Forget(c) \/ CloseIdle(c)
  PROVE  HTTPInv'
<1> DEFINE k == conn[c]
<1>1. /\ conn \in [Clients -> Conn] /\ k \in Conn /\ ConnOK(k)
      /\ UNCHANGED <<mode, policy, snapshot, answer>>
  BY DEF HTTPInv, ConnsOK, Dial, Accept, Register, HangUp, Forget,
     CloseIdle, config
<1>2. permits \in Int /\ active \in Int
  <2>1. IsFiniteSet(Clients)
    BY HTTPAssumption
  <2>2. \A T \in SUBSET Clients : Cardinality(T) \in Int
    BY <2>1, FS_Subset, FS_CardinalityType
  <2> QED BY <2>2 DEF HTTPInv, Counted
<1>3. ASSUME ConnsOK', Counted' PROVE HTTPInv'
  BY <1>1, <1>3 DEF HTTPInv, PayloadIsDue
<1>4. /\ NoConn \in Conn /\ NoConn.at = "none" /\ ~NoConn.open
  BY DEF NoConn, Conn, Stages, Shots
<1>5. CASE Dial(c)
  <2> DEFINE new == [NoConn EXCEPT !.at = "backlog"]
  <2>1. new \in Conn /\ new.at = "backlog" /\ ~new.open
    BY <1>4 DEF Conn, Stages
  <2>2. /\ k.at = "none" /\ conn' = [conn EXCEPT ![c] = new] /\ permits' = permits /\ active' = active
    BY <1>5 DEF Dial, metrics
  <2> HIDE DEF new
  <2>3. ConnOK(new) /\ ~k.open /\ ~Registered(k) /\ ~Registered(new)
    BY <1>1, <2>1, <2>2 DEF ConnOK, Registered
  <2> QED BY <1>1, <1>2, <1>3, <2>1, <2>2, <2>3, ConnMoves DEF Counts
<1>6. CASE Accept(c)
  <2>1. k.at = "backlog" /\ active' = active
    BY <1>6 DEF Accept
  <2>2. ~k.open /\ ~Registered(k)
    BY <1>1, <2>1 DEF ConnOK, Registered
  <2>3. CASE permits' = permits + 1
             /\ conn' = [conn EXCEPT ![c] = [NoConn EXCEPT !.at = "accepted", !.open = TRUE]]
    <3> DEFINE new == [NoConn EXCEPT !.at = "accepted", !.open = TRUE]
    <3>1. new \in Conn /\ new.at = "accepted" /\ new.open
      BY <1>4 DEF Conn, Stages
    <3>2. conn' = [conn EXCEPT ![c] = new]
      BY <2>3
    <3> HIDE DEF new
    <3>3. ConnOK(new) /\ ~Registered(new)
      BY <3>1 DEF ConnOK, Registered
    <3> QED BY <1>1, <1>2, <1>3, <2>1, <2>2, <2>3, <3>1, <3>2, <3>3, ConnMoves DEF Counts
  <2>4. CASE permits' = permits /\ conn' = [conn EXCEPT ![c] = NoConn]
    <3>1. ConnOK(NoConn) /\ ~Registered(NoConn)
      BY <1>4 DEF ConnOK, Registered
    <3> QED BY <1>1, <1>2, <1>3, <1>4, <2>1, <2>2, <2>4, <3>1, ConnMoves DEF Counts
  <2> QED BY <1>6, <2>3, <2>4 DEF Accept
<1>7. CASE Register(c)
  <2> DEFINE new == [k EXCEPT !.at = "idle"]
  <2>1. new \in Conn /\ new.at = "idle" /\ new.open = k.open
    BY <1>1 DEF Conn, Stages
  <2>2. /\ k.at = "accepted" /\ conn' = [conn EXCEPT ![c] = new]
        /\ permits' = permits /\ active' = active + 1
    BY <1>1, <1>7 DEF Register, Conn
  <2> HIDE DEF new
  <2>3. ConnOK(new) /\ ~Registered(k) /\ Registered(new)
    BY <2>1, <2>2 DEF ConnOK, Registered
  <2> QED BY <1>1, <1>2, <1>3, <2>1, <2>2, <2>3, ConnMoves DEF Counts
<1>8. CASE HangUp(c)
  <2> DEFINE new == [k EXCEPT !.at = "ending", !.open = FALSE]
  <2>1. new \in Conn /\ new.at = "ending" /\ ~new.open
    BY <1>1 DEF Conn, Stages
  <2>2. /\ k.at = "idle" /\ conn' = [conn EXCEPT ![c] = new]
        /\ permits' = (IF k.open THEN permits - 1 ELSE permits) /\ active' = active
    BY <1>1, <1>8 DEF HangUp, PermitsAfterClose, metrics, Conn
  <2> HIDE DEF new
  <2>3. ConnOK(new) /\ Registered(k) /\ Registered(new)
    BY <2>1, <2>2 DEF ConnOK, Registered
  <2> QED BY <1>1, <1>2, <1>3, <2>1, <2>2, <2>3, ConnMoves DEF Counts
<1>9. CASE Forget(c)
  <2>1. /\ k.at = "ending" /\ conn' = [conn EXCEPT ![c] = NoConn]
        /\ permits' = permits /\ active' = active - 1
    BY <1>9 DEF Forget
  <2>2. ~k.open /\ Registered(k) /\ ~Registered(NoConn) /\ ConnOK(NoConn)
    BY <1>1, <1>4, <2>1 DEF ConnOK, Registered
  <2> QED BY <1>1, <1>2, <1>3, <1>4, <2>1, <2>2, ConnMoves DEF Counts
<1>10. CASE CloseIdle(c)
  <2> DEFINE new == [k EXCEPT !.open = FALSE]
  <2>1. new \in Conn /\ new.at = k.at /\ ~new.open
    BY <1>1 DEF Conn
  <2>2. /\ k.at = "idle" /\ k.open /\ conn' = [conn EXCEPT ![c] = new]
        /\ permits' = permits - 1 /\ active' = active
    BY <1>1, <1>10 DEF CloseIdle, PermitsAfterClose, metrics, Conn
  <2> HIDE DEF new
  <2>3. ConnOK(new) /\ Registered(k) /\ Registered(new)
    BY <2>1, <2>2 DEF ConnOK, Registered
  <2> QED BY <1>1, <1>2, <1>3, <2>1, <2>2, <2>3, ConnMoves DEF Counts
<1> QED BY <1>5, <1>6, <1>7, <1>8, <1>9, <1>10

(* What follows from an answer, for the connection and for the history.    *)
LEMMA HTTPAnswered ==
  ASSUME HTTPInv, NEW c \in Clients, NEW status,
         Answered(c, status), Registered(conn[c]),
         UNCHANGED <<mode, policy, active, snapshot>>,
         status = 200 => /\ conn[c].at = "answering"
                         /\ policy = "strict" => conn[c].snap.has = {"good"}
  PROVE  HTTPInv'
<1> DEFINE k == conn[c]
<1>1. conn \in [Clients -> Conn] /\ k \in Conn /\ ConnOK(k)
  BY DEF HTTPInv, ConnsOK
<1>2. permits \in Int /\ active \in Int
  <2>1. IsFiniteSet(Clients)
    BY HTTPAssumption
  <2>2. \A T \in SUBSET Clients : Cardinality(T) \in Int
    BY <2>1, FS_Subset, FS_CardinalityType
  <2> QED BY <2>2 DEF HTTPInv, Counted
<1>3. ConnsOK' /\ Counted'
  <2>1. CASE /\ permits' = (IF k.open THEN permits - 1 ELSE permits)
             /\ conn' = [conn EXCEPT ![c].at = "ending", ![c].open = FALSE]
    <3> DEFINE new == [k EXCEPT !.at = "ending", !.open = FALSE]
    <3>1. new \in Conn /\ new.at = "ending" /\ ~new.open
      BY <1>1 DEF Conn, Stages
    <3>2. conn' = [conn EXCEPT ![c] = new]
      BY <1>1, <2>1 DEF Conn
    <3> HIDE DEF new
    <3>3. ConnOK(new) /\ Registered(new)
      BY <3>1 DEF ConnOK, Registered
    <3> QED BY <1>1, <1>2, <2>1, <3>1, <3>2, <3>3, ConnMoves DEF Counts
  <2>2. CASE /\ permits' = permits
             /\ conn' = [conn EXCEPT ![c] = [NoConn EXCEPT !.at = "idle", !.open = k.open]]
    <3> DEFINE new == [NoConn EXCEPT !.at = "idle", !.open = k.open]
    <3>1. new \in Conn /\ new.at = "idle" /\ new.open = k.open
      BY <1>1 DEF NoConn, Conn, Stages, Shots
    <3>2. conn' = [conn EXCEPT ![c] = new]
      BY <2>2
    <3> HIDE DEF new
    <3>3. ConnOK(new) /\ Registered(new)
      BY <3>1 DEF ConnOK, Registered
    <3> QED BY <1>1, <1>2, <2>2, <3>1, <3>2, <3>3, ConnMoves DEF Counts
  <2> QED BY <2>1, <2>2 DEF Answered, PermitsAfterClose
<1>4. PayloadIsDue'
  <2>1. /\ answer'.status = status /\ answer'.wrong = k.wrong /\ answer'.floor = k.floor
        /\ answer'.n = k.snap.n /\ answer'.has = k.snap.has
    BY DEF Answered
  <2>2. CASE status = 200
    BY <1>1, <2>1, <2>2 DEF ConnOK, Forgiven, PayloadIsDue
  <2>3. CASE status # 200
    BY <2>1, <2>3 DEF PayloadIsDue
  <2> QED BY <2>2, <2>3
<1> QED BY <1>3, <1>4 DEF HTTPInv

(* A request, from its first byte to its answer.                           *)
LEMMA HTTPRequests ==
  ASSUME HTTPInv, NEW c \in Clients,
         \/ \E wrong \in Requests : Request(c, wrong)
         \/ Check(c) \/ ReadSnapshot(c)
         \/ \E renders \in BOOLEAN : Respond(c, renders)
  PROVE  HTTPInv'
<1> DEFINE k == conn[c]
<1>1. conn \in [Clients -> Conn] /\ k \in Conn /\ ConnOK(k)
  BY DEF HTTPInv, ConnsOK
<1>2. ASSUME NEW new \in Conn, ConnOK(new), conn' = [conn EXCEPT ![c] = new],
             Registered(k), Registered(new), new.open <=> k.open,
             UNCHANGED <<mode, policy, permits, active, snapshot, answer>>
      PROVE  HTTPInv'
  <2>1. ConnsOK' /\ Counted'
    BY <1>2, ConnMoves DEF Counts
  <2> QED BY <1>2, <2>1 DEF HTTPInv, PayloadIsDue
<1>3. ASSUME NEW wrong \in Requests, Request(c, wrong) PROVE HTTPInv'
  <2> DEFINE new == [k EXCEPT !.at = "request", !.wrong = wrong, !.floor = snapshot.n]
  <2>1. snapshot.n \in Nat /\ snapshot.n <= snapshot.n
    BY DEF HTTPInv, Shots
  <2>2. new \in Conn
    BY <1>1, <2>1 DEF Conn, Stages
  <2>3. new.at = "request" /\ new.floor = snapshot.n /\ new.open = k.open
    BY <1>1 DEF Conn
  <2>4. conn' = [conn EXCEPT ![c] = new] /\ k.at = "idle"
        /\ UNCHANGED <<mode, policy, permits, active, snapshot, answer>>
    BY <1>1, <1>3 DEF Request, config, Conn
  <2> HIDE DEF new
  <2>5. ConnOK(new) /\ Registered(k) /\ Registered(new)
    BY <2>1, <2>3, <2>4 DEF ConnOK, Registered
  <2> QED BY <1>2, <2>2, <2>3, <2>4, <2>5
<1>4. CASE Check(c)
  <2>1. k.at = "request" /\ Registered(k) /\ UNCHANGED <<mode, policy, active, snapshot>>
    BY <1>4 DEF Check, config, Registered
  <2>2. \/ \E status \in {401, 404, 405, 413} : Answered(c, status)
        \/ /\ conn' = [conn EXCEPT ![c].at = "admitted"] /\ UNCHANGED <<permits, answer>>
           /\ "path" \notin k.wrong /\ "method" \notin k.wrong /\ "body" \notin k.wrong
           /\ authorized(c)
    BY <1>4 DEF Check
  <2>3. CASE \E status \in {401, 404, 405, 413} : Answered(c, status)
    BY <2>1, <2>3, HTTPAnswered
  <2>4. CASE /\ conn' = [conn EXCEPT ![c].at = "admitted"] /\ UNCHANGED <<permits, answer>>
             /\ "path" \notin k.wrong /\ "method" \notin k.wrong /\ "body" \notin k.wrong
             /\ authorized(c)
    <3> DEFINE new == [k EXCEPT !.at = "admitted"]
    <3>1. new \in Conn /\ new.at = "admitted" /\ new.open = k.open /\ new.wrong = k.wrong
          /\ new.floor = k.floor
      BY <1>1 DEF Conn, Stages
    <3>2. conn' = [conn EXCEPT ![c] = new]
      BY <1>1, <2>4 DEF Conn
    <3>3. k.wrong \subseteq {"path", "method", "body", "credentials"}
      BY HTTPAssumption, <1>1 DEF Conn
    <3>4. k.wrong \subseteq Forgiven
      BY <2>4, <3>3 DEF Forgiven, authorized
    <3> HIDE DEF new
    <3>5. ConnOK(new) /\ Registered(new)
      BY <1>1, <2>1, <3>1, <3>4 DEF ConnOK, Registered
    <3> QED BY <1>2, <2>1, <2>4, <3>1, <3>2, <3>5
  <2> QED BY <2>2, <2>3, <2>4
<1>5. CASE ReadSnapshot(c)
  <2>1. k.at = "admitted" /\ Registered(k) /\ UNCHANGED <<mode, policy, active, snapshot>>
        /\ snapshot \in Shots
    BY <1>5 DEF ReadSnapshot, config, Registered, HTTPInv
  <2>2. CASE Answered(c, 503)
    BY <2>1, <2>2, HTTPAnswered
  <2>3. CASE /\ conn' = [conn EXCEPT ![c].at = "answering", ![c].snap = snapshot]
             /\ snapshot.n # 0 /\ UNCHANGED <<permits, answer>>
    <3> DEFINE new == [k EXCEPT !.at = "answering", !.snap = snapshot]
    <3>1. new \in Conn
      BY <1>1, <2>1 DEF Conn, Stages
    <3>2. new.at = "answering" /\ new.open = k.open /\ new.wrong = k.wrong
          /\ new.floor = k.floor /\ new.snap = snapshot
      BY <1>1 DEF Conn
    <3>3. conn' = [conn EXCEPT ![c] = new]
      BY <1>1, <2>3 DEF Conn
    <3> HIDE DEF new
    <3>4. snapshot.n \in Nat /\ snapshot.n > 0 /\ snapshot.has # {} /\ k.floor \in Nat
      BY <1>1, <2>1, <2>3 DEF HTTPInv, Shots, Conn
    <3>5. ConnOK(new) /\ Registered(new)
      BY <1>1, <2>1, <3>2, <3>4 DEF ConnOK, Registered
    <3> QED BY <1>2, <2>1, <2>3, <3>1, <3>2, <3>3, <3>5
  <2> QED BY <1>5, <2>2, <2>3 DEF ReadSnapshot
<1>6. ASSUME NEW renders \in BOOLEAN, Respond(c, renders) PROVE HTTPInv'
  <2>1. k.at = "answering" /\ Registered(k) /\ UNCHANGED <<mode, policy, active, snapshot>>
    BY <1>6 DEF Respond, config, Registered
  <2>2. k.snap.has # {}
    BY <1>1, <2>1 DEF ConnOK
  <2>3. \/ Answered(c, 503)
        \/ /\ Answered(c, 200)
           /\ policy = "strict" => httpSnapshotQuality(k.snap.has) = "good"
    BY <1>6 DEF Respond
  <2>4. httpSnapshotQuality(k.snap.has) = "good" => k.snap.has = {"good"}
    BY <2>2 DEF httpSnapshotQuality
  <2> QED BY <2>1, <2>3, <2>4, HTTPAnswered
<1> QED BY <1>3, <1>4, <1>5, <1>6

(* What the server does of itself: a new snapshot, and its end.            *)
LEMMA HTTPServer ==
  ASSUME HTTPInv,
         \/ \E s \in QualitySets : Publish(s)
         \/ ServeExits \/ Close
         \/ \E expired \in BOOLEAN : ShutdownReturns(expired) \/ CloseReturns(expired)
         \/ UNCHANGED httpVars
  PROVE  HTTPInv'
<1>1. ASSUME NEW s \in QualitySets, Publish(s) PROVE HTTPInv'
  <2>1. /\ snapshot' = [n |-> snapshot.n + 1, has |-> s]
        /\ UNCHANGED <<mode, policy, permits, conn, active, answer>>
    BY <1>1 DEF Publish, config, metrics
  <2>2. snapshot.n \in Nat /\ s # {}
    BY HTTPAssumption DEF HTTPInv, Shots
  <2>3. snapshot' \in Shots /\ snapshot'.has # {} /\ snapshot'.n = snapshot.n + 1
    BY <2>1, <2>2 DEF Shots
  <2>4. \A c \in Clients : conn[c].floor \in Nat
    BY DEF HTTPInv, ConnsOK, Conn
  <2>5. ConnsOK'
    BY <2>1, <2>2, <2>3, <2>4 DEF HTTPInv, ConnsOK, ConnOK, Forgiven
  <2> QED BY <2>1, <2>3, <2>5 DEF HTTPInv, Counted, PayloadIsDue
<1>2. CASE ServeExits \/ Close
  <2>1. /\ conn' = [c \in Clients |-> IF conn[c].at = "backlog" THEN NoConn ELSE conn[c]]
        /\ UNCHANGED <<mode, policy, permits, active, snapshot, answer>>
    BY <1>2 DEF ServeExits, Close, config, metrics
  <2>2. NoConn \in Conn /\ NoConn.at = "none" /\ ~NoConn.open
    BY DEF NoConn, Conn, Stages, Shots
  <2>3. ConnsOK'
    BY <2>1, <2>2 DEF HTTPInv, ConnsOK, ConnOK, Forgiven
  <2>4. \A c \in Clients : /\ conn'[c].open <=> conn[c].open
                           /\ Registered(conn'[c]) <=> Registered(conn[c])
    BY <2>1, <2>2 DEF HTTPInv, ConnsOK, ConnOK, Registered
  <2>5. /\ {c \in Clients : conn'[c].open} = {c \in Clients : conn[c].open}
        /\ {c \in Clients : Registered(conn'[c])} = {c \in Clients : Registered(conn[c])}
    BY <2>4
  <2>6. Counted'
    BY <2>1, <2>5 DEF HTTPInv, Counted, Registered
  <2> QED BY <2>1, <2>3, <2>6 DEF HTTPInv, PayloadIsDue
<1>3. ASSUME \/ \E expired \in BOOLEAN :
                   ShutdownReturns(expired) \/ CloseReturns(expired)
             \/ UNCHANGED httpVars
      PROVE  HTTPInv'
  <2>1. UNCHANGED <<mode, policy, permits, conn, active, snapshot, answer>>
    BY <1>3 DEF ShutdownReturns, CloseReturns, httpVars, config, metrics
  <2> QED BY <2>1 DEF HTTPInv, ConnsOK, ConnOK, Forgiven, Counted, Registered, PayloadIsDue
<1> QED BY <1>1, <1>2, <1>3

LEMMA HTTPStep ==
  ASSUME HTTPInv, [HTTPNext]_httpVars
  PROVE  HTTPInv'
BY HTTPConnections, HTTPRequests, HTTPServer DEF HTTPNext

(* Every place of the connection limit belongs to an open connection,      *)
(* whoever closes it and however often, and a payload goes only to a       *)
(* request that is right in everything, with a snapshot no older than it,  *)
(* and under the strict policy a good one (publisher/http_transport.go).   *)
(* For every number of clients, limit and set of snapshots.                *)
THEOREM SnapshotIsServed == HTTPSpec => []SnapshotServed
<1>1. HTTPInit => HTTPInv
  BY HTTPStart
<1>2. HTTPInv /\ [HTTPNext]_httpVars => HTTPInv'
  BY HTTPStep
<1> QED BY <1>1, <1>2, HTTPServed, PTL DEF HTTPSpec

(* The server, and a place taken or given back.                             *)
HTTPServerTyped ==
  /\ access \in {"set", "cleared"} /\ listening \in BOOLEAN
  /\ serve \in {"accepting", "exited"} /\ failure \in BOOLEAN
  /\ closing \in {"no", "shutdown", "waiting", "closed"} /\ closeErr \in BOOLEAN
  /\ permits <= MaxConnections

LEMMA HTTPTypedStep ==
  ASSUME HTTPInv, HTTPServerTyped, [HTTPNext]_httpVars
  PROVE  HTTPServerTyped'
<1> USE DEF HTTPServerTyped, server
<1>1. permits \in Nat /\ MaxConnections \in Nat
  <2>1. \A T \in SUBSET Clients : Cardinality(T) \in Nat
    BY HTTPAssumption, FS_Subset, FS_CardinalityType
  <2> QED BY <2>1, HTTPAssumption DEF HTTPInv, Counted
<1>2. ASSUME UNCHANGED server,
             \/ permits' = permits \/ permits' = permits - 1
             \/ permits < MaxConnections /\ permits' = permits + 1
      PROVE  HTTPServerTyped'
  BY <1>1, <1>2
<1>3. ASSUME NEW c \in Clients,
             \/ Dial(c) \/ Accept(c) \/ Register(c) \/ HangUp(c) \/ Forget(c) \/ CloseIdle(c)
             \/ \E wrong \in Requests : Request(c, wrong)
      PROVE  HTTPServerTyped'
  BY <1>2, <1>3 DEF Dial, Accept, Register, HangUp, Forget, CloseIdle, Request,
     PermitsAfterClose
<1>4. ASSUME NEW c \in Clients, Check(c) \/ ReadSnapshot(c)
      PROVE  HTTPServerTyped'
  BY <1>2, <1>4 DEF Check, ReadSnapshot, Answered, PermitsAfterClose
<1>5. ASSUME NEW c \in Clients, NEW renders \in BOOLEAN, Respond(c, renders)
      PROVE  HTTPServerTyped'
  BY <1>2, <1>5 DEF Respond, Answered, PermitsAfterClose
<1>6. CASE ServeExits \/ Close
  BY <1>6 DEF ServeExits, Close
<1>7. ASSUME NEW expired \in BOOLEAN, ShutdownReturns(expired) \/ CloseReturns(expired)
      PROVE  HTTPServerTyped'
  BY <1>7 DEF ShutdownReturns, CloseReturns
<1>8. CASE UNCHANGED httpVars \/ \E s \in QualitySets : Publish(s)
  BY <1>8 DEF httpVars, Publish
<1> QED BY <1>3, <1>4, <1>5, <1>6, <1>7, <1>8 DEF HTTPNext

LEMMA HTTPTypes == HTTPInv /\ HTTPServerTyped => HTTPTypeOK
<1> SUFFICES ASSUME HTTPInv, HTTPServerTyped PROVE HTTPTypeOK
  OBVIOUS
<1>1. permits \in Nat /\ MaxConnections \in Nat
  <2>1. \A T \in SUBSET Clients : Cardinality(T) \in Nat
    BY HTTPAssumption, FS_Subset, FS_CardinalityType
  <2> QED BY <2>1, HTTPAssumption DEF HTTPInv, Counted
<1>2. \A c \in Clients : conn[c].at \in Stages
  BY DEF HTTPInv, ConnsOK, Conn
<1> QED BY <1>1, <1>2 DEF HTTPTypeOK, HTTPServerTyped, Stages

(* publisher/http_transport.go: never more connections than the limit of    *)
(* the configuration hold a place, although the server and Close both give  *)
(* places back, and the server is in a state that it knows.                 *)
THEOREM LimitIsKept == HTTPSpec => []HTTPTypeOK
<1>1. HTTPInit => HTTPServerTyped
  <2>1. HTTPInit => permits <= MaxConnections
    BY HTTPAssumption DEF HTTPInit
  <2> QED BY <2>1, Zenon DEF HTTPInit, HTTPServerTyped
<1>2. HTTPSpec => [](HTTPInv /\ HTTPServerTyped)
  BY <1>1, HTTPStart, HTTPStep, HTTPTypedStep, PTL DEF HTTPSpec
<1> QED BY <1>2, HTTPTypes, PTL

----------------------------------------------------------------------------
(* Secrets and the publishers that run with them (PublisherCredentials).   *)
(*                                                                         *)
(* A revision that has not changed means that nothing was rotated, unless  *)
(* the publisher was moved: so a job is either of an older revision, which *)
(* the next reconciliation replaces, or runs with what is stored.  The     *)
(* same holds of a publisher that was listed and of the secrets that have  *)
(* been read for it, one at a time, since then.                            *)

Wish == [credential : Profiles \cup {None}, enabled : BOOLEAN]

\* What an administrator has under way.
Query == [at : {"none", "put", "drop", "tell", "insert", "update"},
          f : Profiles \cup {None}, s : AllSlots \cup {None},
          p : Publishers \cup {None}, r : Wish \cup {None}, m : Nat]
QueryOK(q) ==
    /\ q.at = "put" => q.m \in 1..MaxMaterial
    /\ q.at \in {"put", "drop"} => q.f \in Profiles /\ q.s \in SecretSlots(ProfileType[q.f])
    /\ q.at \in {"insert", "update"} => q.p \in Publishers /\ q.r \in Wish

Passes == [at : {"none", "listed", "start", "resolve"},
           seen : [Publishers -> PublisherRow \cup {None}], todo : SUBSET Publishers,
           p : Publishers \cup {None}, got : Seq(1..MaxMaterial), moved : [Publishers -> Nat]]

CredentialTypes ==
    /\ CredentialsTypeOK
    /\ asked \in [Administrators -> Query] /\ \A c \in Administrators : QueryOK(asked[c])
    /\ pass \in Passes /\ moved \in [Publishers -> Nat] /\ settled \in BOOLEAN
    /\ pass.at # "none" => pass.todo \subseteq {p \in Publishers : pass.seen[p] # None}
    /\ pass.at = "resolve" => /\ pass.p \in Publishers /\ pass.seen[pass.p] # None
                              /\ Len(pass.got) <= Len(Needs(PublisherType[pass.p]))

\* What was seen of a publisher with this revision, when it had been moved m
\* times, has at most been rotated since, unless it was moved again.
Since(p, m, revision) ==
    /\ m <= moved[p]
    /\ m = moved[p] => publisher[p] # None /\ revision <= publisher[p].revision

\* Nor has it been rotated.
Same(p, m, revision) ==
    m = moved[p] /\ publisher[p] # None /\ revision = publisher[p].revision

\* A job was made of a row that is followed, and runs with what is stored unless
\* the row has changed.
Jobs ==
    \A p \in Publishers : opened[p] # None =>
        /\ Since(p, opened[p].moved, opened[p].revision)
        /\ Same(p, opened[p].moved, opened[p].revision) => opened[p].secrets = Stored(p)

\* So it is with a publisher that was listed, and the secrets read for it so far.
Listing ==
    pass.at # "none" =>
        \A p \in Publishers : pass.seen[p] # None =>
            Since(p, pass.moved[p], pass.seen[p].revision)
ReadSoFar ==
    pass.at = "resolve" /\ Same(pass.p, pass.moved[pass.p], pass.seen[pass.p].revision) =>
        \A n \in DOMAIN pass.got :
            pass.got[n] = Resolve(pass.p, Needs(PublisherType[pass.p])[n])

\* Nothing was written since the listing: it is what is stored, and a job that was
\* kept, or started, has the revision of its row.
Undisturbed ==
    settled =>
        /\ pass.at # "none" =>
              /\ pass.moved = moved
              /\ \A p \in Publishers : pass.seen[p] # None => pass.seen[p] = publisher[p]
        /\ pass.at # "listed" =>
              \A p \in Publishers : opened[p] # None =>
                  publisher[p] # None /\ opened[p].revision = publisher[p].revision

CredentialsInv == CredentialTypes /\ Jobs /\ Listing /\ ReadSoFar /\ Undisturbed

LEMMA CredentialsStart == CredentialsInit => CredentialsInv
<1> SUFFICES ASSUME CredentialsInit PROVE CredentialsInv
  OBVIOUS
<1> USE CredentialsAssumption DEF CredentialsInit
<1>1. NotAsked \in Query /\ QueryOK(NotAsked)
  BY DEF NotAsked, Query, QueryOK
<1>2. NoPass \in Passes
  BY DEF NoPass, Passes
<1>3. secret \in [Profiles -> [AllSlots -> Secret \cup {None}]]
  BY DEF Secret
<1>4. publisher \in [Publishers -> PublisherRow \cup {None}]
  BY DEF PublisherRow
<1>5. CredentialsTypeOK
  BY <1>3, <1>4 DEF CredentialsTypeOK
<1>6. CredentialTypes
  BY <1>1, <1>2, <1>5 DEF CredentialTypes, NoPass
<1> QED BY <1>6 DEF CredentialsInv, Jobs, Listing, ReadSoFar, Undisturbed, NoPass

----------------------------------------------------------------------------
(* Steps of administrators. *)

\* What is read for a publisher follows from its row, the secrets of its profile
\* and the key.
LEMMA SameSecrets ==
  ASSUME NEW p \in Publishers, key' = key,
         publisher[p] # None => /\ publisher'[p] # None
                                /\ publisher'[p].credential = publisher[p].credential
                                /\ \A s \in AllSlots :
                                     publisher[p].credential # None =>
                                       secret'[publisher[p].credential][s]
                                         = secret[publisher[p].credential][s],
         publisher[p] = None => publisher'[p] = None
  PROVE  /\ \A s \in AllSlots : Resolve(p, s)' = Resolve(p, s)
         /\ Stored(p)' = Stored(p)
<1> DEFINE needs == Needs(PublisherType[p])
<1>1. \A s \in AllSlots : Resolve(p, s)' = Resolve(p, s)
  BY DEF Resolve
<1>2. \A n \in DOMAIN needs : needs[n] \in AllSlots
  BY CredentialsAssumption
<1>3. [n \in DOMAIN needs |-> Resolve(p, needs[n])]' = [n \in DOMAIN needs |-> Resolve(p, needs[n])]
  BY <1>1, <1>2
<1>4. Stored(p)' = Stored(p)
  BY <1>3 DEF Stored
<1> QED BY <1>1, <1>4

\* A publisher after a step: it was moved, or it is as it was but for rotations,
\* and when it was not rotated its secrets are as they were.
Followed(p) ==
    \/ moved'[p] > moved[p]
    \/ /\ moved'[p] = moved[p]
       /\ publisher[p] # None => /\ publisher'[p] # None
                                 /\ publisher'[p].revision >= publisher[p].revision
       /\ publisher[p] # None /\ publisher'[p].revision = publisher[p].revision =>
            /\ publisher'[p].credential = publisher[p].credential
            /\ \A s \in AllSlots :
                 publisher[p].credential # None =>
                   secret'[publisher[p].credential][s] = secret[publisher[p].credential][s]

\* Whatever an administrator writes, it is enough that each publisher is followed.
LEMMA Written ==
  ASSUME CredentialsInv, CredentialTypes', UNCHANGED <<opened, pass, key>>,
         \A p \in Publishers : Followed(p),
         ~settled' \/ UNCHANGED <<publisher, moved, settled>>
  PROVE  CredentialsInv'
<1> USE DEF CredentialsInv
<1>1. /\ moved \in [Publishers -> Nat] /\ moved' \in [Publishers -> Nat]
      /\ publisher \in [Publishers -> PublisherRow \cup {None}]
      /\ publisher' \in [Publishers -> PublisherRow \cup {None}]
  BY DEF CredentialTypes, CredentialsTypeOK
<1>2. ASSUME NEW p \in Publishers, NEW m \in Nat, NEW r \in Nat, Since(p, m, r)
      PROVE  /\ Since(p, m, r)'
             /\ Same(p, m, r)' => /\ Same(p, m, r)
                                  /\ \A s \in AllSlots : Resolve(p, s)' = Resolve(p, s)
                                  /\ Stored(p)' = Stored(p)
  <2>1. Followed(p)
    OBVIOUS
  <2>2. /\ moved[p] \in Nat /\ moved'[p] \in Nat
        /\ publisher[p] # None => publisher[p].revision \in Nat
        /\ publisher'[p] # None => publisher'[p].revision \in Nat
    BY <1>1 DEF PublisherRow
  <2>3. Since(p, m, r)'
    BY <1>2, <2>1, <2>2 DEF Since, Followed
  <2>4. ASSUME Same(p, m, r)' PROVE Same(p, m, r) /\ publisher'[p].revision = publisher[p].revision
    BY <1>2, <2>1, <2>2, <2>4 DEF Since, Same, Followed
  <2>5. ASSUME Same(p, m, r)'
        PROVE  /\ \A s \in AllSlots : Resolve(p, s)' = Resolve(p, s)
               /\ Stored(p)' = Stored(p)
    <3>1. /\ publisher[p] # None /\ publisher'[p] # None
          /\ publisher'[p].credential = publisher[p].credential
          /\ \A s \in AllSlots : publisher[p].credential # None =>
               secret'[publisher[p].credential][s] = secret[publisher[p].credential][s]
      BY <2>1, <2>2, <2>4, <2>5 DEF Same, Followed
    <3> QED BY <3>1, SameSecrets
  <2> QED BY <2>3, <2>4, <2>5
<1>3. Jobs'
  <2>1. \A p \in Publishers : opened[p] # None => opened[p] \in Opened
    BY DEF CredentialTypes, CredentialsTypeOK
  <2>2. \A p \in Publishers : opened[p] # None => opened[p].moved \in Nat /\ opened[p].revision \in Nat
    BY <2>1 DEF Opened
  <2> QED BY <1>2, <2>2 DEF Jobs
<1>4. /\ \A p \in Publishers : pass.moved[p] \in Nat
      /\ \A p \in Publishers : pass.seen[p] # None => pass.seen[p].revision \in Nat
  BY DEF CredentialTypes, Passes, PublisherRow
<1>5. Listing'
  BY <1>2, <1>4 DEF Listing
<1>6. ReadSoFar'
  <2> SUFFICES ASSUME pass.at = "resolve",
                      Same(pass.p, pass.moved[pass.p], pass.seen[pass.p].revision)'
               PROVE  \A n \in DOMAIN pass.got :
                        pass.got[n] = Resolve(pass.p, Needs(PublisherType[pass.p])[n])'
    BY DEF ReadSoFar
  <2>1. /\ pass.p \in Publishers /\ pass.seen[pass.p] # None /\ pass.got \in Seq(1..MaxMaterial)
        /\ Len(pass.got) <= Len(Needs(PublisherType[pass.p]))
        /\ Needs(PublisherType[pass.p]) \in Seq(AllSlots)
    BY CredentialsAssumption DEF CredentialTypes, Passes
  <2>2. \A n \in DOMAIN pass.got : Needs(PublisherType[pass.p])[n] \in AllSlots
    BY <2>1
  <2>3. Since(pass.p, pass.moved[pass.p], pass.seen[pass.p].revision)
    BY <2>1 DEF Listing
  <2> QED BY <1>2, <1>4, <2>1, <2>2, <2>3 DEF ReadSoFar
<1>7. Undisturbed'
  BY DEF Undisturbed
<1> QED BY <1>3, <1>5, <1>6, <1>7

\* A step that writes nothing of these.
LEMMA Unwritten ==
  ASSUME CredentialsInv, CredentialTypes', UNCHANGED <<store, key, opened, pass, moved, settled>>
  PROVE  CredentialsInv'
<1>1. /\ publisher \in [Publishers -> PublisherRow \cup {None}] /\ moved \in [Publishers -> Nat]
  BY DEF CredentialsInv, CredentialTypes, CredentialsTypeOK
<1>2. \A p \in Publishers : Followed(p)
  BY <1>1 DEF Followed, store, PublisherRow
<1> QED BY <1>2, Written DEF store

\* The types, when only what administrators write may change.
LEMMA TypesKept ==
  ASSUME CredentialsInv,
         profile' \in [Profiles -> Nat \cup {None}],
         secret' \in [Profiles -> [AllSlots -> Secret \cup {None}]],
         \A f \in Profiles, s \in AllSlots :
           secret'[f][s] # None => profile'[f] # None /\ s \in SecretSlots(ProfileType[f]),
         publisher' \in [Publishers -> PublisherRow \cup {None}],
         asked' \in [Administrators -> Query], \A c \in Administrators : QueryOK(asked'[c]),
         moved' \in [Publishers -> Nat], settled' \in BOOLEAN,
         material' \in 1..MaxMaterial,
         events' \in 0..RotationBuffer \cup {None},
         UNCHANGED <<key, boots, pass, opened>>
  PROVE  CredentialTypes'
BY DEF CredentialsInv, CredentialTypes, CredentialsTypeOK

LEMMA NewQuery ==
  ASSUME CredentialsInv, NEW c \in Administrators, NEW q \in Query, QueryOK(q),
         asked' = [asked EXCEPT ![c] = q]
  PROVE  asked' \in [Administrators -> Query] /\ \A d \in Administrators : QueryOK(asked'[d])
BY DEF CredentialsInv, CredentialTypes

LEMMA QueryMoves ==
  ASSUME CredentialsInv, NEW c \in Administrators
  PROVE  /\ NotAsked \in Query /\ QueryOK(NotAsked)
         /\ [asked[c] EXCEPT !.at = "tell"] \in Query /\ QueryOK([asked[c] EXCEPT !.at = "tell"])
<1>1. asked[c] \in Query
  BY DEF CredentialsInv, CredentialTypes
<1> QED BY <1>1 DEF Query, QueryOK, NotAsked

LEMMA ProfileStep ==
  ASSUME CredentialsInv, NEW c \in Administrators, NEW f \in Profiles,
         CreateProfile(c, f) \/ DeleteProfile(c, f)
  PROVE  CredentialsInv'
<1> USE DEF CreateProfile, DeleteProfile, process
<1>1. /\ profile \in [Profiles -> Nat \cup {None}]
      /\ secret \in [Profiles -> [AllSlots -> Secret \cup {None}]]
      /\ \A g \in Profiles, s \in AllSlots :
           secret[g][s] # None => profile[g] # None /\ s \in SecretSlots(ProfileType[g])
      /\ publisher \in [Publishers -> PublisherRow \cup {None}] /\ moved \in [Publishers -> Nat]
      /\ asked \in [Administrators -> Query] /\ \A d \in Administrators : QueryOK(asked[d])
      /\ material \in 1..MaxMaterial /\ events \in 0..RotationBuffer \cup {None}
  BY DEF CredentialsInv, CredentialTypes, CredentialsTypeOK
<1>2. /\ secret' \in [Profiles -> [AllSlots -> Secret \cup {None}]]
      /\ \A g \in Profiles, s \in AllSlots :
           secret'[g][s] # None => profile'[g] # None /\ s \in SecretSlots(ProfileType[g])
      /\ \A g \in Profiles : secret'[g] = secret[g] \/
                             \A p \in Publishers : publisher[p] # None => publisher[p].credential # g
      /\ profile' \in [Profiles -> Nat \cup {None}]
  <2>1. CASE CreateProfile(c, f)
    <3>1. /\ profile' = [profile EXCEPT ![f] = 0] /\ profile[f] = None /\ secret' = secret
      BY <2>1
    <3> QED BY <1>1, <3>1, CredentialsAssumption
  <2>2. CASE DeleteProfile(c, f)
    <3>1. /\ profile' = [profile EXCEPT ![f] = None]
          /\ secret' = [secret EXCEPT ![f] = [s \in AllSlots |-> None]]
          /\ \A p \in Publishers : publisher[p] # None => publisher[p].credential # f
      BY <2>2
    <3>2. [s \in AllSlots |-> None] \in [AllSlots -> Secret \cup {None}]
      OBVIOUS
    <3>3. /\ secret' \in [Profiles -> [AllSlots -> Secret \cup {None}]]
          /\ secret'[f] = [s \in AllSlots |-> None]
          /\ \A g \in Profiles : g # f => secret'[g] = secret[g] /\ profile'[g] = profile[g]
      BY <1>1, <3>1, <3>2
    <3> QED BY <1>1, <3>1, <3>3
  <2> QED BY <2>1, <2>2
<1>4. CredentialTypes'
  BY <1>1, <1>2, TypesKept
<1>5. ASSUME NEW p \in Publishers PROVE Followed(p)
  <2>1. publisher[p] # None => publisher[p] \in PublisherRow
    BY <1>1
  <2> QED BY <1>1, <1>2, <2>1 DEF Followed, PublisherRow
<1> QED BY <1>4, <1>5, Written

LEMMA AskSecretStep ==
  ASSUME CredentialsInv, NEW c \in Administrators, NEW f \in Profiles, NEW s \in AllSlots,
         PutSecret(c, f, s) \/ DeleteSecret(c, f, s)
  PROVE  CredentialsInv'
<1> USE DEF PutSecret, DeleteSecret, process, store
<1>1. CredentialTypes /\ CredentialsTypeOK
  BY DEF CredentialsInv, CredentialTypes
<1>0. f \in Profiles /\ s \in SecretSlots(ProfileType[f]) /\ material \in 1..MaxMaterial /\ MaxMaterial \in Nat
  BY <1>1, CredentialsAssumption DEF CredentialsTypeOK
<1>3. material' \in 1..MaxMaterial
  BY <1>0
<1>2. PICK q \in Query : QueryOK(q) /\ asked' = [asked EXCEPT ![c] = q]
  <2> DEFINE put == [at |-> "put", f |-> f, s |-> s, p |-> None, r |-> None, m |-> material + 1]
             drop == [at |-> "drop", f |-> f, s |-> s, p |-> None, r |-> None, m |-> 0]
  <2>1. CASE PutSecret(c, f, s)
    <3>1. asked' = [asked EXCEPT ![c] = put]
      BY <2>1 DEF AsksFor, NotAsked
    <3>2. put \in Query /\ QueryOK(put)
      BY <1>0, <1>3, <2>1 DEF Query, QueryOK
    <3> QED BY <3>1, <3>2
  <2>2. CASE DeleteSecret(c, f, s)
    <3>1. asked' = [asked EXCEPT ![c] = drop]
      BY <2>2 DEF AsksFor, NotAsked
    <3>2. drop \in Query /\ QueryOK(drop)
      BY <1>0 DEF Query, QueryOK
    <3> QED BY <3>1, <3>2
  <2> QED BY <2>1, <2>2
<1>4. asked' \in [Administrators -> Query] /\ \A d \in Administrators : QueryOK(asked'[d])
  BY <1>2, NewQuery
<1>5. CredentialTypes'
  BY <1>1, <1>3, <1>4, TypesKept DEF CredentialTypes, CredentialsTypeOK
<1> QED BY <1>5, Unwritten

\* The secrets of one profile change, and every publisher that uses it is told.
LEMMA SecretWritten ==
  ASSUME CredentialsInv, NEW f \in Profiles, NEW c \in Administrators,
         profile[f] # None,
         ProfileChanged(f), NEW s \in SecretSlots(ProfileType[f]), s \in AllSlots,
         NEW new \in Secret \cup {None},
         secret' = [secret EXCEPT ![f][s] = new],
         asked' = [asked EXCEPT ![c].at = "tell"], ~settled',
         UNCHANGED <<asks, material, process, moved>>, settled' \in BOOLEAN
  PROVE  CredentialsInv'
<1> USE DEF ProfileChanged, process
<1>1. /\ profile \in [Profiles -> Nat \cup {None}]
      /\ secret \in [Profiles -> [AllSlots -> Secret \cup {None}]]
      /\ \A g \in Profiles, t \in AllSlots :
           secret[g][t] # None => profile[g] # None /\ t \in SecretSlots(ProfileType[g])
      /\ publisher \in [Publishers -> PublisherRow \cup {None}] /\ moved \in [Publishers -> Nat]
      /\ material \in 1..MaxMaterial /\ events \in 0..RotationBuffer \cup {None}
  BY DEF CredentialsInv, CredentialTypes, CredentialsTypeOK
<1>2. profile' \in [Profiles -> Nat \cup {None}] /\ \A g \in Profiles : profile[g] # None => profile'[g] # None
  BY <1>1, CredentialsAssumption
<1>3. /\ secret' \in [Profiles -> [AllSlots -> Secret \cup {None}]]
      /\ \A g \in Profiles, t \in AllSlots :
            secret'[g][t] = IF g = f /\ t = s THEN new ELSE secret[g][t]
  BY <1>1
<1>4. \A p \in Publishers : publisher[p] # None =>
        /\ publisher[p] \in PublisherRow
        /\ [publisher[p] EXCEPT !.revision = @ + 1] \in PublisherRow
        /\ [publisher[p] EXCEPT !.revision = @ + 1].revision = publisher[p].revision + 1
        /\ [publisher[p] EXCEPT !.revision = @ + 1].credential = publisher[p].credential
        /\ publisher[p].revision \in Nat
  BY <1>1 DEF PublisherRow
<1>5. publisher' \in [Publishers -> PublisherRow \cup {None}]
  BY <1>1, <1>4
<1>6. asked' \in [Administrators -> Query] /\ \A d \in Administrators : QueryOK(asked'[d])
  <2>1. asked' = [asked EXCEPT ![c] = [asked[c] EXCEPT !.at = "tell"]]
    BY DEF CredentialsInv, CredentialTypes
  <2> QED BY <2>1, QueryMoves, NewQuery
<1>7. CredentialTypes'
  <2>1. \A g \in Profiles, t \in AllSlots :
          secret'[g][t] # None => profile'[g] # None /\ t \in SecretSlots(ProfileType[g])
    BY <1>1, <1>2, <1>3
  <2>2. moved' \in [Publishers -> Nat] /\ material' \in 1..MaxMaterial
    BY <1>1
  <2>3. events' \in 0..RotationBuffer \cup {None}
    BY <1>1, CredentialsAssumption
  <2>4. UNCHANGED <<key, boots, pass, opened>>
    OBVIOUS
  <2> HIDE DEF ProfileChanged, process
  <2> QED BY <1>2, <1>3, <1>5, <1>6, <2>1, <2>2, <2>3, <2>4, TypesKept
<1>8. ASSUME NEW p \in Publishers PROVE Followed(p)
  <2>1. CASE publisher[p] # None /\ publisher[p].credential = f
    <3>0. publisher' = [q \in Publishers |->
             IF publisher[q] # None /\ publisher[q].credential = f
             THEN [publisher[q] EXCEPT !.revision = @ + 1] ELSE publisher[q]]
      OBVIOUS
    <3>3. publisher'[p] = [publisher[p] EXCEPT !.revision = @ + 1]
      BY <2>1, <3>0
    <3>1. publisher'[p].revision = publisher[p].revision + 1
      BY <2>1, <1>4, <3>3
    <3>4. publisher'[p] # None
      BY <3>3, <1>4, <2>1, CredentialsAssumption
    <3>2. moved'[p] = moved[p]
      OBVIOUS
    <3>5. publisher[p].revision \in Nat
      BY <1>4, <2>1
    <3> QED BY <3>1, <3>2, <3>4, <3>5 DEF Followed
  <2>2. CASE publisher[p] # None /\ publisher[p].credential # f
    <3>1. publisher'[p] = publisher[p]
      BY <2>2
    <3> QED BY <1>3, <1>4, <2>2, <3>1, <1>1 DEF Followed, PublisherRow
  <2>3. CASE publisher[p] = None
    BY <2>3 DEF Followed
  <2> QED BY <2>1, <2>2, <2>3
<1> QED BY <1>7, <1>8, Written

LEMMA UpsertStep ==
  ASSUME CredentialsInv, NEW c \in Administrators, Upsert(c) \/ DropSecret(c)
  PROVE  CredentialsInv'
<1> DEFINE f == asked[c].f
           s == asked[c].s
<1>1. /\ f \in Profiles /\ s \in SecretSlots(ProfileType[f]) /\ s \in AllSlots
      /\ asked[c].at = "put" => asked[c].m \in 1..MaxMaterial
  BY CredentialsAssumption DEF CredentialsInv, CredentialTypes, QueryOK, Upsert, DropSecret, AllSlots
<1>2. CredentialTypes /\ CredentialsTypeOK
  BY DEF CredentialsInv, CredentialTypes
<1>3. CASE /\ asked' = [asked EXCEPT ![c] = NotAsked]
           /\ UNCHANGED <<store, asks, material, process, moved, settled>>
  <2>1. asked' \in [Administrators -> Query] /\ \A d \in Administrators : QueryOK(asked'[d])
    BY <1>3, QueryMoves, NewQuery
  <2>2. CredentialTypes'
    BY <1>2, <1>3, <2>1, TypesKept DEF CredentialTypes, CredentialsTypeOK, store, process
  <2> QED BY <1>3, <2>2, Unwritten DEF process
<1>4. CASE /\ Upsert(c) /\ profile[f] # None
  <2> DEFINE revision == IF secret[f][s] = None THEN 1 ELSE secret[f][s].revision + 1
             new == [material |-> asked[c].m, key |-> key, revision |-> revision]
  <2>1. /\ secret' = [secret EXCEPT ![f][s] = new] /\ ProfileChanged(f)
        /\ asked' = [asked EXCEPT ![c].at = "tell"] /\ settled' = FALSE
        /\ UNCHANGED <<asks, material, process, moved>>
        /\ asked[c].at = "put"
    BY <1>4 DEF Upsert
  <2>2. secret[f][s] # None => secret[f][s] \in Secret
    BY <1>1, <1>2 DEF CredentialsTypeOK
  <2>3. revision \in Nat
    BY <2>2 DEF Secret
  <2> HIDE DEF revision
  <2>4. new \in Secret
    BY <1>1, <1>2, <2>1, <2>3 DEF Secret, CredentialsTypeOK
  <2> HIDE DEF new, f, s
  <2> QED BY <1>1, <1>4, <2>1, <2>4, SecretWritten
<1>5. CASE DropSecret(c) /\ secret[f][s] # None /\ profile[f] # None
  <2>1. /\ secret' = [secret EXCEPT ![f][s] = None] /\ ProfileChanged(f)
        /\ asked' = [asked EXCEPT ![c].at = "tell"] /\ settled' = FALSE
        /\ UNCHANGED <<asks, material, process, moved>>
    BY <1>5 DEF DropSecret
  <2> HIDE DEF f, s
  <2> QED BY <1>1, <1>5, <2>1, SecretWritten
<1>6. secret[f][s] # None => profile[f] # None
  BY <1>1, <1>2 DEF CredentialsTypeOK
<1> QED BY <1>3, <1>4, <1>5, <1>6 DEF Upsert, DropSecret, Replied

LEMMA TellStep ==
  ASSUME CredentialsInv, NEW c \in Administrators, PublishSecretRotation(c)
  PROVE  CredentialsInv'
<1> USE DEF PublishSecretRotation
<1>1. CredentialTypes /\ CredentialsTypeOK
  BY DEF CredentialsInv, CredentialTypes
<1>2. events' \in 0..RotationBuffer \cup {None}
  BY <1>1, CredentialsAssumption DEF CredentialsTypeOK
<1>3. asked' \in [Administrators -> Query] /\ \A d \in Administrators : QueryOK(asked'[d])
  BY QueryMoves, NewQuery DEF Replied
<1>4. CredentialTypes'
  BY <1>1, <1>2, <1>3, TypesKept DEF CredentialTypes, CredentialsTypeOK, store
<1> QED BY <1>4, Unwritten

LEMMA AskedPublisher ==
  ASSUME NEW a, NEW p, NEW r
  PROVE  [NotAsked EXCEPT !.at = a, !.p = p, !.r = r]
           = [at |-> a, f |-> None, s |-> None, p |-> p, r |-> r, m |-> 0]
<1> DEFINE q == [NotAsked EXCEPT !.at = a, !.p = p, !.r = r]
           w == [at |-> a, f |-> None, s |-> None, p |-> p, r |-> r, m |-> 0]
<1>1. DOMAIN q = DOMAIN w /\ DOMAIN w = {"at", "f", "s", "p", "r", "m"}
  BY DEF NotAsked
<1>2. q["at"] = w["at"] /\ q["f"] = w["f"] /\ q["s"] = w["s"] /\ q["p"] = w["p"] /\ q["r"] = w["r"]
      /\ q["m"] = w["m"]
  BY DEF NotAsked
<1>3. q = [x \in DOMAIN q |-> q[x]] /\ w = [x \in DOMAIN w |-> w[x]]
  BY DEF NotAsked
<1> HIDE DEF q, w
<1>4. \A x \in DOMAIN w : q[x] = w[x]
  BY <1>1, <1>2
<1>5. q = w
  BY <1>1, <1>3, <1>4
<1> QED BY <1>5 DEF q, w

LEMMA AskPublisherStep ==
  ASSUME CredentialsInv, NEW c \in Administrators, NEW p \in Publishers,
         NEW f \in Profiles \cup {None}, NEW e \in BOOLEAN,
         CreatePublisher(c, p, f, e) \/ UpdatePublisher(c, p, f, e)
  PROVE  CredentialsInv'
<1> USE DEF store, process
<1>1. CredentialTypes /\ CredentialsTypeOK
  BY DEF CredentialsInv, CredentialTypes
<1>2. PICK at \in {"insert", "update"}, enabled \in BOOLEAN :
        /\ asked' = [asked EXCEPT ![c] = [at |-> at, f |-> None, s |-> None, p |-> p,
                                         r |-> [credential |-> f, enabled |-> enabled], m |-> 0]]
        /\ UNCHANGED <<store, material, process, moved, settled>>
  <2> DEFINE Query1(a, b) == [at |-> a, f |-> None, s |-> None, p |-> p,
                              r |-> [credential |-> f, enabled |-> b], m |-> 0]
  <2>1. CASE Validated(c, p, f, e)
    <3> DEFINE a == IF publisher[p] = None THEN "insert" ELSE "update"
    <3>1. asked' = [asked EXCEPT ![c] = Query1(a, e)]
      <4>1. [NotAsked EXCEPT !.at = a, !.p = p, !.r = [credential |-> f, enabled |-> e]] = Query1(a, e)
        BY AskedPublisher
      <4>2. asked' = [asked EXCEPT ![c] =
                        [NotAsked EXCEPT !.at = a, !.p = p, !.r = [credential |-> f, enabled |-> e]]]
        BY <2>1 DEF Validated, AsksFor
      <4> HIDE DEF Query1, a
      <4> QED BY <4>1, <4>2
    <3>2. a \in {"insert", "update"}
      OBVIOUS
    <3> HIDE DEF a
    <3> QED BY <2>1, <3>1, <3>2 DEF Validated
  <2>2. CASE /\ AsksFor(c, [NotAsked EXCEPT !.at = "update", !.p = p,
                                         !.r = [credential |-> f, enabled |-> FALSE]])
             /\ UNCHANGED <<store, material, process, moved, settled>>
    <3>1. asked' = [asked EXCEPT ![c] = Query1("update", FALSE)]
      <4>1. [NotAsked EXCEPT !.at = "update", !.p = p, !.r = [credential |-> f, enabled |-> FALSE]]
              = Query1("update", FALSE)
        BY AskedPublisher
      <4>2. asked' = [asked EXCEPT ![c] =
                        [NotAsked EXCEPT !.at = "update", !.p = p, !.r = [credential |-> f, enabled |-> FALSE]]]
        BY <2>2 DEF AsksFor
      <4> HIDE DEF Query1
      <4> QED BY <4>1, <4>2
    <3> QED BY <2>2, <3>1
  <2> QED BY <2>1, <2>2 DEF CreatePublisher, UpdatePublisher
<1>3. [at |-> at, f |-> None, s |-> None, p |-> p,
       r |-> [credential |-> f, enabled |-> enabled], m |-> 0] \in Query
  BY DEF Query, Wish
<1>4. QueryOK([at |-> at, f |-> None, s |-> None, p |-> p,
               r |-> [credential |-> f, enabled |-> enabled], m |-> 0])
  BY DEF QueryOK, Wish
<1>5. asked' \in [Administrators -> Query] /\ \A d \in Administrators : QueryOK(asked'[d])
  BY <1>2, <1>3, <1>4, NewQuery
<1>6. CredentialTypes'
  BY <1>1, <1>2, <1>5, TypesKept DEF CredentialTypes, CredentialsTypeOK
<1> QED BY <1>2, <1>6, Unwritten

\* A row of a publisher is written, or taken away.
LEMMA PublisherWritten ==
  ASSUME CredentialsInv, NEW p \in Publishers, NEW written \in PublisherRow \cup {None},
         publisher' = [publisher EXCEPT ![p] = written],
         \/ moved' = [moved EXCEPT ![p] = @ + 1]
         \/ /\ moved' = moved /\ publisher[p] # None /\ written # None
            /\ written.credential = publisher[p].credential /\ written.revision = publisher[p].revision,
         asked' \in [Administrators -> Query], \A c \in Administrators : QueryOK(asked'[c]),
         ~settled', settled' \in BOOLEAN,
         UNCHANGED <<profile, secret, material, process>>
  PROVE  CredentialsInv'
<1> USE DEF process
<1>1. CredentialTypes /\ CredentialsTypeOK
  BY DEF CredentialsInv, CredentialTypes
<1>2. /\ publisher \in [Publishers -> PublisherRow \cup {None}] /\ moved \in [Publishers -> Nat]
      /\ \A q \in Publishers : publisher[q] # None => publisher[q].revision \in Nat
  BY <1>1 DEF CredentialTypes, CredentialsTypeOK, PublisherRow
<1>3. /\ publisher' \in [Publishers -> PublisherRow \cup {None}] /\ publisher'[p] = written
      /\ \A q \in Publishers : q # p => publisher'[q] = publisher[q] /\ moved'[q] = moved[q]
  BY <1>2
<1>4. moved' \in [Publishers -> Nat] /\ (moved'[p] = moved[p] + 1 \/ moved' = moved)
  BY <1>2
<1>5. CredentialTypes'
  BY <1>1, <1>3, <1>4, TypesKept DEF CredentialsTypeOK
<1>6. ASSUME NEW q \in Publishers PROVE Followed(q)
  <2>1. CASE q # p
    BY <1>2, <1>3, <2>1 DEF Followed
  <2>2. CASE q = p /\ moved'[p] = moved[p] + 1
    BY <1>2, <2>2 DEF Followed
  <2>3. CASE q = p /\ moved' = moved
    <3>1. moved[p] # moved[p] + 1
      BY <1>2
    <3>2. /\ publisher[p] # None /\ written # None
          /\ written.credential = publisher[p].credential /\ written.revision = publisher[p].revision
      BY <1>2, <2>3, <3>1
    <3> QED BY <1>2, <1>3, <2>3, <3>2 DEF Followed
  <2> QED BY <1>4, <2>1, <2>2, <2>3
<1> QED BY <1>5, <1>6, Written

LEMMA SavePublisherStep ==
  ASSUME CredentialsInv, NEW c \in Administrators, SavePublisher(c)
  PROVE  CredentialsInv'
<1> DEFINE p == asked[c].p
           f == asked[c].r.credential
           revision == IF publisher[p] = None THEN 0 ELSE publisher[p].revision
           written == [credential |-> f, enabled |-> asked[c].r.enabled, revision |-> revision]
<1>1. CredentialTypes /\ CredentialsTypeOK
  BY DEF CredentialsInv, CredentialTypes
<1>2. /\ p \in Publishers /\ asked[c].r \in Wish
      /\ publisher[p] # None => publisher[p] \in PublisherRow
  BY <1>1 DEF CredentialTypes, CredentialsTypeOK, QueryOK, SavePublisher
<1>3. revision \in Nat
  BY <1>2 DEF PublisherRow
<1>4. written \in PublisherRow
  BY <1>2, <1>3 DEF PublisherRow, Wish
<1>5. asked' \in [Administrators -> Query] /\ \A d \in Administrators : QueryOK(asked'[d])
  BY QueryMoves, NewQuery DEF SavePublisher, Replied
<1>6. CASE UNCHANGED <<publisher, moved, settled>>
  <2>1. CredentialTypes'
    BY <1>1, <1>5, <1>6, TypesKept DEF SavePublisher, CredentialTypes, CredentialsTypeOK, process
  <2> QED BY <1>6, <2>1, Unwritten DEF SavePublisher, process, store
<1>7. CASE /\ publisher' = [publisher EXCEPT ![p] = written]
           /\ moved' = IF publisher[p] = None \/ publisher[p].credential # f
                         THEN [moved EXCEPT ![p] = @ + 1] ELSE moved
           /\ settled' = FALSE
  <2>1. UNCHANGED <<profile, secret, material, process>>
    BY DEF SavePublisher
  <2>2. written # None
    BY <1>4, CredentialsAssumption
  <2>3. \/ moved' = [moved EXCEPT ![p] = @ + 1]
        \/ /\ moved' = moved /\ publisher[p] # None /\ written # None
           /\ written.credential = publisher[p].credential /\ written.revision = publisher[p].revision
    BY <1>7, <2>2
  <2> HIDE DEF p, written
  <2> QED BY <1>2, <1>4, <1>5, <1>7, <2>1, <2>3, PublisherWritten
<1> QED BY <1>6, <1>7 DEF SavePublisher

LEMMA DeletePublisherStep ==
  ASSUME CredentialsInv, NEW c \in Administrators, NEW p \in Publishers, DeletePublisher(c, p)
  PROVE  CredentialsInv'
<1>1. asked \in [Administrators -> Query] /\ \A d \in Administrators : QueryOK(asked[d])
  BY DEF CredentialsInv, CredentialTypes
<1> QED BY <1>1, PublisherWritten DEF DeletePublisher

----------------------------------------------------------------------------
(* Steps of the manager. *)

\* A publisher that is followed to where it is now.
LEMMA Now ==
  ASSUME CredentialsInv, NEW p \in Publishers, publisher[p] # None
  PROVE  Since(p, moved[p], publisher[p].revision)
BY DEF CredentialsInv, CredentialTypes, CredentialsTypeOK, PublisherRow, Since

LEMMA ReconcileStep ==
  ASSUME CredentialsInv, NEW rotation \in BOOLEAN, Reconcile(rotation)
  PROVE  CredentialsInv'
<1> DEFINE listed == [p \in Publishers |->
                        IF publisher[p] # None /\ publisher[p].enabled THEN publisher[p] ELSE None]
<1>1. CredentialTypes /\ CredentialsTypeOK
  BY DEF CredentialsInv, CredentialTypes
<1>2. /\ pass' = [at |-> "listed", seen |-> listed, todo |-> {}, p |-> None, got |-> <<>>, moved |-> moved]
      /\ settled' = TRUE
      /\ UNCHANGED <<profile, secret, publisher, asked, asks, material, key, boots, opened, moved>>
  BY DEF Reconcile, NoPass, store
<1>3. /\ listed \in [Publishers -> PublisherRow \cup {None}]
      /\ \A p \in Publishers : listed[p] # None => publisher[p] # None /\ listed[p] = publisher[p]
  BY <1>1 DEF CredentialsTypeOK
<1> HIDE DEF listed
<1>4. /\ pass'.at = "listed" /\ pass'.todo = {} /\ pass'.moved = moved /\ pass'.seen = listed
      /\ pass' \in Passes
  <2>1. moved \in [Publishers -> Nat] /\ <<>> \in Seq(1..MaxMaterial)
    BY <1>1 DEF CredentialTypes
  <2> QED BY <1>2, <1>3, <2>1 DEF Passes
<1>5. events' \in 0..RotationBuffer \cup {None}
  BY <1>1, CredentialsAssumption DEF Reconcile, CredentialsTypeOK
<1>6. CredentialTypes'
  BY <1>1, <1>2, <1>4, <1>5 DEF CredentialTypes, CredentialsTypeOK
<1>7. Jobs'
  <2>1. \A p \in Publishers : Stored(p)' = Stored(p)
    BY <1>2 DEF Stored, Resolve
  <2> QED BY <1>2, <2>1 DEF CredentialsInv, Jobs, Since, Same
<1>8. Listing'
  <2> SUFFICES ASSUME NEW p \in Publishers, pass'.seen[p] # None
               PROVE  Since(p, pass.moved[p], pass.seen[p].revision)'
    BY DEF Listing
  <2>1. publisher[p] # None /\ pass'.seen[p] = publisher[p] /\ pass'.moved[p] = moved[p]
    BY <1>3, <1>4
  <2> QED BY <1>2, <2>1, Now DEF Since
<1>9. ReadSoFar' /\ Undisturbed'
  BY <1>2, <1>3, <1>4 DEF ReadSoFar, Undisturbed
<1> QED BY <1>6, <1>7, <1>8, <1>9 DEF CredentialsInv

\* A step of the manager that neither lists nor writes keeps the jobs and the pass
\* in order when the new ones are.
LEMMA Managed ==
  ASSUME CredentialsInv, UNCHANGED <<store, asked, material, key, boots, events, moved, settled>>,
         opened' \in [Publishers -> Opened \cup {None}],
         pass' \in Passes, pass'.at # "none" => /\ pass.at # "none"
                                             /\ pass'.seen = pass.seen /\ pass'.moved = pass.moved
                                             /\ pass'.todo \subseteq {p \in Publishers : pass.seen[p] # None},
         pass.at = "listed" => pass'.at = "start",
         pass'.at # "listed",
         pass'.at = "resolve" => /\ pass'.p \in Publishers /\ pass.seen[pass'.p] # None
                                /\ Len(pass'.got) <= Len(Needs(PublisherType[pass'.p])),
         ReadSoFar',
         \A p \in Publishers : opened'[p] # None =>
           \/ /\ opened'[p] = opened[p]
              /\ pass.at = "listed" => pass.seen[p] # None /\ opened[p].revision = pass.seen[p].revision
           \/ /\ pass.at = "resolve" /\ p = pass.p
              /\ opened'[p].moved = pass.moved[p] /\ opened'[p].revision = pass.seen[p].revision
              /\ Same(p, opened'[p].moved, opened'[p].revision) => opened'[p].secrets = Stored(p)
  PROVE  CredentialsInv'
<1> USE DEF store
<1>1. CredentialTypes /\ CredentialsTypeOK
  BY DEF CredentialsInv, CredentialTypes
<1>2. CredentialTypes'
  BY <1>1 DEF CredentialTypes, CredentialsTypeOK
<1>3. /\ \A p \in Publishers, s \in AllSlots : Resolve(p, s)' = Resolve(p, s)
      /\ \A p \in Publishers : Stored(p)' = Stored(p)
  <2>1. secret' = secret /\ publisher' = publisher /\ key' = key
    OBVIOUS
  <2>2. ASSUME NEW p, NEW s PROVE Resolve(p, s)' = Resolve(p, s)
    BY ONLY <2>1 DEF Resolve
  <2>3. ASSUME NEW p PROVE Stored(p)' = Stored(p)
    BY ONLY <2>1, Zenon DEF Stored, Resolve
  <2> QED BY <2>2, <2>3
<1>4. pass.at = "resolve" => pass.p \in Publishers /\ pass.seen[pass.p] # None
  BY <1>1 DEF CredentialTypes
<1>5. Jobs'
  <2> SUFFICES ASSUME NEW p \in Publishers, opened'[p] # None
               PROVE  /\ Since(p, opened[p].moved, opened[p].revision)'
                      /\ Same(p, opened[p].moved, opened[p].revision)' =>
                            opened'[p].secrets = Stored(p)'
    BY DEF Jobs
  <2>1. CASE opened'[p] = opened[p]
    BY <1>3, <2>1 DEF CredentialsInv, Jobs, Since, Same
  <2>2. CASE /\ pass.at = "resolve" /\ p = pass.p
             /\ opened'[p].moved = pass.moved[p] /\ opened'[p].revision = pass.seen[p].revision
             /\ Same(p, opened'[p].moved, opened'[p].revision) => opened'[p].secrets = Stored(p)
    <3>1. Since(p, pass.moved[p], pass.seen[p].revision)
      BY <1>4, <2>2 DEF CredentialsInv, Listing
    <3> QED BY <1>3, <2>2, <3>1 DEF Since, Same
  <2> QED BY <2>1, <2>2
<1>6. Listing'
  BY DEF CredentialsInv, Listing, Since
<1>7. Undisturbed'
  <2> SUFFICES ASSUME settled
               PROVE  /\ pass'.at # "none" =>
                            /\ pass'.moved = moved
                            /\ \A p \in Publishers : pass'.seen[p] # None => pass'.seen[p] = publisher[p]
                      /\ \A p \in Publishers : opened'[p] # None =>
                            publisher[p] # None /\ opened'[p].revision = publisher[p].revision
    BY DEF Undisturbed
  <2>1. pass'.at # "none" =>
          /\ pass'.moved = moved
          /\ \A p \in Publishers : pass'.seen[p] # None => pass'.seen[p] = publisher[p]
    BY DEF CredentialsInv, Undisturbed
  <2>2. ASSUME NEW p \in Publishers, opened'[p] # None
        PROVE  publisher[p] # None /\ opened'[p].revision = publisher[p].revision
    BY <1>4, <2>2 DEF CredentialsInv, Undisturbed
  <2> QED BY <2>1, <2>2
<1> QED BY <1>2, <1>5, <1>6, <1>7 DEF CredentialsInv

LEMMA StopJobsStep ==
  ASSUME CredentialsInv, StopJobs
  PROVE  CredentialsInv'
<1> USE DEF StopJobs, store
<1> DEFINE keep == {p \in Publishers : /\ opened[p] # None /\ pass.seen[p] # None
                                       /\ publisherRuntimeFingerprint(opened[p])
                                            = publisherRuntimeFingerprint(pass.seen[p])}
<1>1. /\ pass \in Passes /\ opened \in [Publishers -> Opened \cup {None}]
  BY DEF CredentialsInv, CredentialTypes, CredentialsTypeOK
<1>2. /\ opened' = [p \in Publishers |-> IF p \in keep THEN opened[p] ELSE None]
      /\ pass' = [pass EXCEPT !.at = "start", !.todo = {p \in Publishers \ keep : pass.seen[p] # None}]
  OBVIOUS
<1>3. \A p \in keep : /\ pass.seen[p] # None
                      /\ opened[p].revision = pass.seen[p].revision
  BY DEF publisherRuntimeFingerprint
<1> HIDE DEF keep
<1>4. pass' \in Passes /\ pass'.at = "start"
  BY <1>1, <1>2 DEF Passes
<1>5. opened' \in [Publishers -> Opened \cup {None}]
  BY <1>1, <1>2
<1>6. /\ pass'.seen = pass.seen /\ pass'.moved = pass.moved
      /\ pass'.todo \subseteq {p \in Publishers : pass.seen[p] # None}
  BY <1>1, <1>2 DEF Passes
<1>7. ReadSoFar'
  BY <1>4 DEF ReadSoFar
<1>8. \A p \in Publishers : opened'[p] # None =>
        /\ opened'[p] = opened[p]
        /\ pass.seen[p] # None /\ opened[p].revision = pass.seen[p].revision
  BY <1>2, <1>3
<1> QED BY <1>4, <1>5, <1>6, <1>7, <1>8, Managed

LEMMA BeginPublisherStep ==
  ASSUME CredentialsInv, NEW p \in Publishers, BeginPublisher(p)
  PROVE  CredentialsInv'
<1> USE DEF BeginPublisher, store
<1>1. /\ pass \in Passes /\ opened \in [Publishers -> Opened \cup {None}]
      /\ pass.todo \subseteq {q \in Publishers : pass.seen[q] # None}
  BY DEF CredentialsInv, CredentialTypes, CredentialsTypeOK
<1>2. Len(Needs(PublisherType[p])) \in Nat
  BY CredentialsAssumption
<1>3. pass' \in Passes /\ pass'.at = "resolve" /\ pass'.p = p /\ pass'.got = <<>>
  <2>1. <<>> \in Seq(1..MaxMaterial)
    OBVIOUS
  <2>2. pass' = [at |-> "resolve", seen |-> pass.seen, todo |-> pass.todo \ {p}, p |-> p, got |-> <<>>,
                 moved |-> pass.moved]
    BY <1>1 DEF Passes
  <2> QED BY <1>1, <2>1, <2>2 DEF Passes
<1>4. /\ pass'.seen = pass.seen /\ pass'.moved = pass.moved
      /\ pass'.todo \subseteq {q \in Publishers : pass.seen[q] # None}
  BY <1>1 DEF Passes
<1>5. ReadSoFar'
  BY <1>3 DEF ReadSoFar
<1>6. pass.seen[p] # None
  BY <1>1
<1> QED BY <1>1, <1>2, <1>3, <1>4, <1>5, <1>6, Managed

\* The secrets that were read are those stored, or there are none.
LEMMA ResolveNextStep ==
  ASSUME CredentialsInv, ResolveNext
  PROVE  CredentialsInv'
<1> USE DEF store
<1> DEFINE p == pass.p
           needs == Needs(PublisherType[p])
           n == Len(pass.got) + 1
           m == Resolve(p, needs[n])
<1>1. /\ pass \in Passes /\ opened \in [Publishers -> Opened \cup {None}]
      /\ pass.at = "resolve" /\ p \in Publishers /\ pass.seen[p] # None
      /\ pass.got \in Seq(1..MaxMaterial) /\ Len(pass.got) <= Len(needs)
      /\ pass.seen[p] \in PublisherRow /\ pass.moved[p] \in Nat
      /\ pass.todo \subseteq {q \in Publishers : pass.seen[q] # None}
  BY DEF CredentialsInv, CredentialTypes, CredentialsTypeOK, Passes, ResolveNext
<1>2. needs \in Seq(AllSlots) /\ Len(pass.got) \in Nat /\ Len(needs) \in Nat
  BY <1>1, CredentialsAssumption
<1>3. UNCHANGED <<store, asked, material, key, boots, events, moved, settled>>
  BY DEF ResolveNext
<1>4. ASSUME NEW secrets \in Seq(1..MaxMaterial), Stores(secrets),
             Same(p, pass.moved[p], pass.seen[p].revision) => secrets = Stored(p)
      PROVE  CredentialsInv'
  <2> DEFINE job == [revision |-> pass.seen[p].revision, secrets |-> secrets, moved |-> pass.moved[p]]
  <2>1. opened' = [opened EXCEPT ![p] = job]
    BY <1>4 DEF Stores
  <2>2. job \in Opened
    BY <1>1 DEF Opened, PublisherRow
  <2>3. opened' \in [Publishers -> Opened \cup {None}] /\ opened'[p] = job
        /\ \A q \in Publishers : q # p => opened'[q] = opened[q]
    BY <1>1, <2>1, <2>2
  <2>4. /\ pass' = [at |-> "start", seen |-> pass.seen, todo |-> pass.todo, p |-> None, got |-> <<>>,
                    moved |-> pass.moved]
    <3>1. pass' = [pass EXCEPT !.at = "start", !.p = None, !.got = <<>>]
      BY <1>4 DEF Stores
    <3>2. pass \in Passes
      BY <1>1
    <3> QED BY <3>1, <3>2 DEF Passes
  <2>9. <<>> \in Seq(1..MaxMaterial)
    OBVIOUS
  <2>5. /\ pass' \in Passes /\ pass'.at = "start"
        /\ pass'.seen = pass.seen /\ pass'.moved = pass.moved /\ pass'.todo = pass.todo
    BY <1>1, <2>4, <2>9 DEF Passes
  <2>6. ReadSoFar'
    BY <2>5 DEF ReadSoFar
  <2>7. /\ opened'[p].moved = pass.moved[p] /\ opened'[p].revision = pass.seen[p].revision
        /\ Same(p, opened'[p].moved, opened'[p].revision) => opened'[p].secrets = Stored(p)
    BY <1>4, <2>3
  <2> HIDE DEF p, job
  <2>8. \A q \in Publishers : opened'[q] # None =>
          \/ opened'[q] = opened[q]
          \/ /\ pass.at = "resolve" /\ q = pass.p
             /\ opened'[q].moved = pass.moved[q] /\ opened'[q].revision = pass.seen[q].revision
             /\ Same(q, opened'[q].moved, opened'[q].revision) => opened'[q].secrets = Stored(q)
    BY <1>1, <2>3, <2>7 DEF p
  <2> QED BY <1>1, <1>3, <2>3, <2>5, <2>6, <2>8, Managed
<1>5. Same(p, pass.moved[p], pass.seen[p].revision) =>
        \A i \in DOMAIN pass.got : pass.got[i] = Resolve(p, needs[i])
  BY <1>1 DEF CredentialsInv, ReadSoFar
<1>6. CASE n > Len(needs)
  <2>1. Stores(pass.got)
    BY <1>6 DEF ResolveNext
  <2>2. DOMAIN pass.got = DOMAIN needs
    BY <1>1, <1>2, <1>6
  <2>3. ASSUME \A i \in DOMAIN pass.got : pass.got[i] = Resolve(p, needs[i])
        PROVE  pass.got = Stored(p)
    <3>1. pass.got = [i \in DOMAIN needs |-> Resolve(p, needs[i])]
      BY <1>1, <2>2, <2>3
    <3>2. \A i \in DOMAIN needs : pass.got[i] # 0
      <4>1. \A i \in DOMAIN pass.got : pass.got[i] \in 1..MaxMaterial
        <5>1. pass.got \in Seq(1..MaxMaterial) /\ DOMAIN pass.got = 1..Len(pass.got)
          BY <1>1
        <5> HIDE DEF p, needs
        <5> QED BY ONLY <5>1, ElementOfSeq
      <4> QED BY <2>2, <4>1, CredentialsAssumption
    <3> QED BY <3>1, <3>2 DEF Stored
  <2> HIDE DEF p, needs
  <2> QED BY <1>1, <1>4, <1>5, <2>1, <2>3
<1>7. CASE ~(n > Len(needs)) /\ m = 0
  <2>1. Stores(NoSecrets) /\ NoSecrets \in Seq(1..MaxMaterial)
    BY <1>7 DEF ResolveNext, NoSecrets
  <2>2. Stored(p) = NoSecrets
    <3>1. n \in DOMAIN needs
      BY <1>2, <1>7
    <3>2. [i \in DOMAIN needs |-> Resolve(p, needs[i])][n] = 0
      BY <1>7, <3>1
    <3> QED BY <3>1, <3>2 DEF Stored
  <2> HIDE DEF p
  <2> QED BY <1>4, <2>1, <2>2
<1>8. CASE ~(n > Len(needs)) /\ m # 0
  <2>1. pass' = [pass EXCEPT !.got = Append(@, m)] /\ UNCHANGED opened
    BY <1>8 DEF ResolveNext
  <2>2. n \in DOMAIN needs /\ needs[n] \in AllSlots
    BY <1>2, <1>8
  <2>3. m \in 1..MaxMaterial
    <3>1. /\ publisher[p] # None => publisher[p].credential \in Profiles \cup {None}
          /\ \A f \in Profiles, s \in AllSlots :
                secret[f][s] # None => secret[f][s].material \in 1..MaxMaterial
      BY <1>1 DEF CredentialsInv, CredentialTypes, CredentialsTypeOK, PublisherRow, Secret
    <3> HIDE DEF n, needs
    <3> QED BY <1>8, <2>2, <3>1 DEF Resolve
  <2> HIDE DEF m
  <2>4. /\ Append(pass.got, m) \in Seq(1..MaxMaterial) /\ Len(Append(pass.got, m)) = n
        /\ DOMAIN Append(pass.got, m) = 1..n /\ Append(pass.got, m)[n] = m
        /\ \A i \in 1..Len(pass.got) : Append(pass.got, m)[i] = pass.got[i]
    BY <1>1, <1>2, <2>3
  <2>5. /\ pass' \in Passes /\ pass'.at = "resolve" /\ pass'.p = p
        /\ pass'.seen = pass.seen /\ pass'.moved = pass.moved /\ pass'.todo = pass.todo
        /\ pass'.got = Append(pass.got, m)
    BY <1>1, <2>1, <2>4 DEF Passes
  <2>6. ReadSoFar'
    <3> SUFFICES ASSUME Same(p, pass.moved[p], pass.seen[p].revision)
                 PROVE  \A i \in DOMAIN pass'.got : pass'.got[i] = Resolve(p, needs[i])
      BY <1>3, <2>5 DEF ReadSoFar, Same, Resolve
    <3>1. \A i \in 1..Len(pass.got) : pass'.got[i] = Resolve(p, needs[i])
      BY <1>1, <1>5, <2>4, <2>5
    <3>2. pass'.got[n] = Resolve(p, needs[n])
      BY <2>4, <2>5 DEF m
    <3> QED BY <1>2, <2>4, <2>5, <3>1, <3>2
  <2>7. Len(pass'.got) <= Len(needs)
    BY <1>2, <1>8, <2>4, <2>5
  <2> QED BY <1>1, <1>3, <2>1, <2>5, <2>6, <2>7, Managed
<1> QED BY <1>6, <1>7, <1>8

LEMMA PassEndsStep ==
  ASSUME CredentialsInv, PassEnds
  PROVE  CredentialsInv'
<1>1. opened \in [Publishers -> Opened \cup {None}]
  BY DEF CredentialsInv, CredentialTypes, CredentialsTypeOK
<1>2. pass' \in Passes /\ pass'.at = "none"
  BY DEF PassEnds, NoPass, Passes
<1>3. ReadSoFar'
  BY <1>2 DEF ReadSoFar
<1> QED BY <1>1, <1>2, <1>3, Managed DEF PassEnds, store

LEMMA BootStep ==
  ASSUME CredentialsInv, NEW k \in Keys, Boot(k)
  PROVE  CredentialsInv'
<1> USE DEF Boot, store
<1>1. NotAsked \in Query /\ QueryOK(NotAsked)
  BY DEF NotAsked, Query, QueryOK
<1>2. NoPass \in Passes /\ NoPass.at = "none"
  BY DEF NoPass, Passes
<1>3. boots' \in 0..MaxBoots /\ events' \in 0..RotationBuffer
  BY CredentialsAssumption DEF CredentialsInv, CredentialTypes, CredentialsTypeOK
<1>4. CredentialTypes'
  BY <1>1, <1>2, <1>3 DEF CredentialsInv, CredentialTypes, CredentialsTypeOK
<1>5. \A p \in Publishers : opened'[p] = None
  BY DEF Boot
<1>6. pass'.at = "none" /\ ~settled'
  BY <1>2
<1>7. Jobs'
  BY <1>5 DEF Jobs
<1>8. Listing' /\ ReadSoFar' /\ Undisturbed'
  BY <1>6 DEF Listing, ReadSoFar, Undisturbed
<1> QED BY <1>4, <1>7, <1>8 DEF CredentialsInv

----------------------------------------------------------------------------
LEMMA CredentialsKept == CredentialsInv /\ [CredentialsNext]_credentialVars => CredentialsInv'
<1> SUFFICES ASSUME CredentialsInv, [CredentialsNext]_credentialVars PROVE CredentialsInv'
  OBVIOUS
<1>1. CASE UNCHANGED credentialVars
  <2>1. CredentialTypes'
    BY <1>1 DEF credentialVars, CredentialsInv, CredentialTypes, CredentialsTypeOK
  <2> QED BY <1>1, <2>1, Unwritten DEF credentialVars, store
<1>2. ASSUME NEW c \in Administrators, NEW f \in Profiles,
             \/ CreateProfile(c, f) \/ DeleteProfile(c, f)
             \/ \E s \in AllSlots : PutSecret(c, f, s) \/ DeleteSecret(c, f, s)
      PROVE  CredentialsInv'
  BY <1>2, ProfileStep, AskSecretStep
<1>3. ASSUME NEW c \in Administrators, NEW p \in Publishers,
             \/ \E f \in Profiles \cup {None}, e \in BOOLEAN :
                  CreatePublisher(c, p, f, e) \/ UpdatePublisher(c, p, f, e)
             \/ DeletePublisher(c, p)
      PROVE  CredentialsInv'
  BY <1>3, AskPublisherStep, DeletePublisherStep
<1>4. ASSUME NEW c \in Administrators,
             Upsert(c) \/ DropSecret(c) \/ PublishSecretRotation(c) \/ SavePublisher(c)
      PROVE  CredentialsInv'
  BY <1>4, UpsertStep, TellStep, SavePublisherStep
<1> QED BY <1>1, <1>2, <1>3, <1>4, ReconcileStep, StopJobsStep, BeginPublisherStep, ResolveNextStep,
           PassEndsStep, BootStep DEF CredentialsNext

(* When the rotations of a profile have been taken in, a running publisher  *)
(* job has the secrets that are stored, however rotations, lost events,     *)
(* edits, restarts of the process and the reads of a reconciliation overlap *)
(* (publisher/manager.go, publisher/secret_rotation.go and credential/).    *)
(* For every number of profiles, publishers, secrets and administrators.    *)
THEOREM RotationIsApplied == CredentialsSpec => []RotationApplied
<1>1. CredentialsInv => RotationApplied
  BY DEF CredentialsInv, Jobs, Undisturbed, RotationApplied, Same
<1> QED BY <1>1, CredentialsStart, CredentialsKept, PTL DEF CredentialsSpec

(* credential/service.go: rows, secrets and revisions keep their types, and *)
(* no secret is stored under a profile that has none of that name.          *)
THEOREM CredentialsAreTyped == CredentialsSpec => []CredentialsTypeOK
<1>1. CredentialsInv => CredentialsTypeOK
  BY DEF CredentialsInv, CredentialTypes
<1> QED BY <1>1, CredentialsStart, CredentialsKept, PTL DEF CredentialsSpec

----------------------------------------------------------------------------
(* The in-memory value store (MemoryValueStore).                           *)
(*                                                                         *)
(* Of each subscriber: what it has got and will still get of the values    *)
(* since it subscribed is all that are due to it, up to the first that     *)
(* found its channel full.                                                 *)

\* What the store keeps of one subscriber.
Live(s) == {n \in ToSet(Seen(s)) : n > since[s]}
Due(s) == {n \in since[s] + 1 .. sequence : MatchesTag(s, tagOf[n])}
Ordered(s) == s \in disconnectOnLag \/ Cardinality(filter[s]) = 1

Unseen(s) == Fresh(s) => s \notin disconnectOnLag /\ received[s] = <<>> /\ stream[s] = <<>>
Past(s) == since[s] <= sequence /\ \A n \in ToSet(Seen(s)) : n <= sequence
GapFree(s) ==
    s \in disconnectOnLag =>
       /\ Live(s) \subseteq Due(s)
       /\ \A n \in Due(s) \ Live(s) : s \notin registered /\ \A m \in Live(s) : m < n
InView(s) ==
    s \in registered /\ Ordered(s) => \A t \in Tags :
       MatchesTag(s, t) /\ latest[t] # 0 => latest[t] \in ToSet(Seen(s)) \/ latest[t] <= after[s]

SubscriberOK(s) ==
    /\ Unseen(s) /\ Past(s) /\ GapFree(s) /\ InView(s)
    /\ Ordered(s) => Increasing(Seen(s))

ValuesInv ==
    /\ MemoryTypeOK /\ \A t \in Tags : latest[t] <= sequence
    /\ \A s \in Subscribers : SubscriberOK(s)

(* Sequences of values *)

LEMMA JoinedValues ==
  ASSUME NEW r \in Seq(Nat), NEW q \in Seq(Nat)
  PROVE  /\ r \o q \in Seq(Nat) /\ ToSet(r \o q) = ToSet(r) \cup ToSet(q)
         /\ ToSet(r) \subseteq Nat /\ ToSet(q) \subseteq Nat
<1>1. r \o q \in Seq(Nat) /\ Len(r \o q) = Len(r) + Len(q)
  OBVIOUS
<1>2. \A i \in 1 .. Len(r) : (r \o q)[i] = r[i] /\ i \in 1 .. Len(r \o q)
  OBVIOUS
<1>3. \A i \in 1 .. Len(q) : (r \o q)[Len(r) + i] = q[i] /\ Len(r) + i \in 1 .. Len(r \o q)
  OBVIOUS
<1>4. \A i \in 1 .. Len(r \o q) : i \in 1 .. Len(r) \/ (\E j \in 1 .. Len(q) : i = Len(r) + j)
  <2> SUFFICES ASSUME NEW i \in 1 .. Len(r \o q), i \notin 1 .. Len(r)
               PROVE  \E j \in 1 .. Len(q) : i = Len(r) + j
    OBVIOUS
  <2>1. i - Len(r) \in 1 .. Len(q) /\ i = Len(r) + (i - Len(r))
    BY <1>1
  <2> QED BY <2>1
<1>5. /\ DOMAIN (r \o q) = 1 .. Len(r \o q) /\ DOMAIN r = 1 .. Len(r) /\ DOMAIN q = 1 .. Len(q)
      /\ \A i \in DOMAIN r : r[i] \in Nat /\ \A j \in DOMAIN q : q[j] \in Nat
  BY <1>1
<1>6. ToSet(r) \subseteq ToSet(r \o q) /\ ToSet(q) \subseteq ToSet(r \o q)
  BY <1>2, <1>3, <1>5 DEF ToSet
<1>7. ToSet(r \o q) \subseteq ToSet(r) \cup ToSet(q)
  <2> SUFFICES ASSUME NEW i \in DOMAIN (r \o q) PROVE (r \o q)[i] \in ToSet(r) \cup ToSet(q)
    BY DEF ToSet
  <2>1. CASE i \in 1 .. Len(r)
    BY <1>2, <1>5, <2>1 DEF ToSet
  <2>2. CASE \E j \in 1 .. Len(q) : i = Len(r) + j
    BY <1>3, <1>5, <2>2 DEF ToSet
  <2> QED BY <1>4, <1>5, <2>1, <2>2
<1>8. ToSet(r) \subseteq Nat /\ ToSet(q) \subseteq Nat
  BY <1>5 DEF ToSet
<1>9. ToSet(r \o q) = ToSet(r) \cup ToSet(q)
  BY <1>6, <1>7
<1> QED BY <1>1, <1>8, <1>9

LEMMA OneMoreValue ==
  ASSUME NEW r \in Seq(Nat), NEW q \in Seq(Nat), NEW n \in Nat
  PROVE  /\ Append(q, n) \in Seq(Nat) /\ Len(Append(q, n)) = Len(q) + 1
         /\ r \o Append(q, n) = Append(r \o q, n)
         /\ ToSet(Append(q, n)) = ToSet(q) \cup {n}
<1>1. Append(q, n) \in Seq(Nat) /\ Len(Append(q, n)) = Len(q) + 1
  OBVIOUS
<1>2. r \o Append(q, n) = Append(r \o q, n)
  OBVIOUS
<1>3. /\ DOMAIN Append(q, n) = DOMAIN q \cup {Len(q) + 1}
      /\ Append(q, n)[Len(q) + 1] = n /\ \A i \in DOMAIN q : Append(q, n)[i] = q[i]
  OBVIOUS
<1>4. ToSet(Append(q, n)) = ToSet(q) \cup {n}
  BY <1>3 DEF ToSet
<1> QED BY <1>1, <1>2, <1>4

LEMMA NewestIsLast ==
  ASSUME NEW q \in Seq(Nat), NEW n \in Nat, Increasing(q), \A m \in ToSet(q) : m < n
  PROVE  Increasing(Append(q, n))
<1>1. \A i \in 1 .. Len(q) : q[i] < n /\ Append(q, n)[i] = q[i] /\ q[i] \in Nat
  BY DEF ToSet
<1>2. Append(q, n)[Len(q) + 1] = n /\ DOMAIN Append(q, n) = 1 .. Len(q) + 1
  OBVIOUS
<1>3. ASSUME NEW i \in 1 .. Len(q) + 1, NEW j \in 1 .. Len(q) + 1, i < j
      PROVE  Append(q, n)[i] < Append(q, n)[j]
  <2>1. i \in 1 .. Len(q)
    BY <1>3
  <2>2. CASE j = Len(q) + 1
    BY <1>1, <1>2, <2>1, <2>2
  <2>3. CASE j \in 1 .. Len(q)
    BY <1>1, <1>3, <2>1, <2>3 DEF Increasing
  <2> QED BY <2>2, <2>3
<1> QED BY <1>2, <1>3 DEF Increasing

\* A value moves from the channel to the reader.
LEMMA HandedOver ==
  ASSUME NEW r \in Seq(Nat), NEW q \in Seq(Nat), q # <<>>
  PROVE  /\ Append(r, Head(q)) \in Seq(Nat) /\ Tail(q) \in Seq(Nat)
         /\ Len(Tail(q)) = Len(q) - 1 /\ Len(q) \in Nat \ {0}
         /\ Append(r, Head(q)) \o Tail(q) = r \o q
OBVIOUS

LEMMA Concatenated ==
  ASSUME NEW r \in Seq(Nat), NEW q \in Seq(Nat)
  PROVE  /\ r \o q \in Seq(Nat) /\ Len(r) \in Nat /\ Len(q) \in Nat
         /\ DOMAIN (r \o q) = 1 .. Len(r) + Len(q)
         /\ \A i \in 1 .. Len(r) : (r \o q)[i] = r[i]
         /\ \A i \in 1 .. Len(q) : (r \o q)[Len(r) + i] = q[i]
OBVIOUS

\* The reader takes k values of the channel, and the oldest of the others goes.
LEMMA OldestDropped ==
  ASSUME NEW r \in Seq(Nat), NEW q \in Seq(Nat), NEW k \in 0 .. Len(q)
  PROVE  LET a == r \o q
             got == r \o SubSeq(q, 1, k)
             left == SubSeq(q, k + 2, Len(q))
         IN /\ got \in Seq(Nat) /\ left \in Seq(Nat) /\ Len(left) \in Nat
            /\ q # <<>> => Len(left) < Len(q)
            /\ ToSet(got \o left) \subseteq ToSet(a)
            /\ Increasing(a) => Increasing(got \o left)
<1> DEFINE a == r \o q
           taken == SubSeq(q, 1, k)
           got == r \o taken
           left == SubSeq(q, k + 2, Len(q))
           b == got \o left
           R == Len(r)
           Q == Len(q)
           L == Len(left)
           up(i) == IF i <= R + k THEN i ELSE i + 1
<1>1. R \in Nat /\ Q \in Nat /\ k \in 0 .. Q
  OBVIOUS
<1>2. taken \in Seq(Nat) /\ Len(taken) = k /\ \A i \in 1 .. k : taken[i] = q[i]
  BY <1>1
<1>3. /\ left \in Seq(Nat) /\ L \in Nat /\ L + k <= Q /\ (q # <<>> => L < Q)
      /\ L # 0 => L + k + 1 = Q
      /\ \A i \in 1 .. L : left[i] = q[k + 1 + i]
  BY <1>1
<1> HIDE DEF taken, left, L
<1>4. /\ got \in Seq(Nat) /\ Len(got) = R + k
      /\ \A i \in 1 .. R : got[i] = r[i]
      /\ \A i \in 1 .. k : got[R + i] = q[i]
  <2>1. /\ got \in Seq(Nat) /\ DOMAIN got = 1 .. R + Len(taken)
        /\ \A i \in 1 .. R : got[i] = r[i]
        /\ \A i \in 1 .. Len(taken) : got[R + i] = taken[i]
    BY ONLY <1>2, r \in Seq(Nat), Concatenated
  <2> HIDE DEF got
  <2>2. Len(got) = R + Len(taken)
    BY <1>1, <1>2, <2>1
  <2> QED BY <1>2, <2>1, <2>2
<1>5. /\ DOMAIN a = 1 .. R + Q
      /\ \A i \in 1 .. R : a[i] = r[i]
      /\ \A i \in 1 .. Q : a[R + i] = q[i]
  BY Concatenated
<1> HIDE DEF a, got, R, Q
<1>6. /\ DOMAIN b = 1 .. R + k + L
      /\ \A i \in 1 .. R + k : b[i] = got[i]
      /\ \A i \in 1 .. L : b[R + k + i] = left[i]
  <2>1. /\ DOMAIN b = 1 .. Len(got) + Len(left)
        /\ \A i \in 1 .. Len(got) : b[i] = got[i]
        /\ \A i \in 1 .. Len(left) : b[Len(got) + i] = left[i]
    BY ONLY <1>3, <1>4, Concatenated
  <2> HIDE DEF b
  <2> QED BY <1>4, <2>1 DEF L
<1> HIDE DEF b
<1>7. \A i \in DOMAIN b : up(i) \in DOMAIN a /\ b[i] = a[up(i)]
  <2> SUFFICES ASSUME NEW i \in DOMAIN b PROVE up(i) \in DOMAIN a /\ b[i] = a[up(i)]
    OBVIOUS
  <2>0. i \in Nat /\ i \in 1 .. R + k + L
    BY <1>1, <1>3, <1>6
  <2>1. CASE i <= R
    <3>1. i \in 1 .. R /\ i \in 1 .. R + k /\ i \in 1 .. R + Q
      BY <1>1, <2>0, <2>1
    <3>2. b[i] = r[i] /\ a[i] = r[i]
      BY <1>4, <1>5, <1>6, <3>1
    <3>3. up(i) = i
      BY <1>1, <2>0, <2>1
    <3> QED BY <1>5, <3>1, <3>2, <3>3
  <2>2. CASE ~(i <= R) /\ i <= R + k
    <3> DEFINE j == i - R
    <3>1. j \in 1 .. k /\ i = R + j /\ j \in 1 .. Q /\ i \in 1 .. R + k /\ i \in 1 .. R + Q
      BY <1>1, <2>0, <2>2
    <3> HIDE DEF j
    <3>2. b[i] = q[j] /\ a[i] = q[j]
      BY <1>4, <1>5, <1>6, <3>1
    <3>3. up(i) = i
      BY <2>2
    <3> QED BY <1>5, <3>1, <3>2, <3>3
  <2>3. CASE ~(i <= R + k)
    <3> DEFINE j == i - R - k
               m == k + 1 + j
    <3>1. /\ j \in 1 .. L /\ i = R + k + j /\ i + 1 = R + m /\ m \in 1 .. Q
          /\ i + 1 \in 1 .. R + Q
      <4>1. j \in 1 .. L /\ i = R + k + j /\ i + 1 = R + m
        BY <1>1, <1>3, <2>0, <2>3
      <4>2. L # 0 /\ m <= Q /\ m \in Nat \ {0}
        <5> HIDE DEF j
        <5> QED BY <1>1, <1>3, <4>1
      <4> HIDE DEF j, m
      <4> QED BY <1>1, <4>1, <4>2
    <3>2. left[j] = q[m]
      BY <1>3, <3>1
    <3> HIDE DEF j, m
    <3>3. b[i] = left[j] /\ a[i + 1] = q[m]
      BY <1>5, <1>6, <3>1
    <3>4. up(i) = i + 1
      BY <2>3
    <3> QED BY <1>5, <3>1, <3>2, <3>3, <3>4
  <2> QED BY <2>1, <2>2, <2>3
<1>8. \A i, j \in DOMAIN b : i < j => up(i) < up(j)
  BY <1>1, <1>3, <1>6
<1> HIDE DEF up
<1>9. ToSet(b) \subseteq ToSet(a)
  BY <1>7 DEF ToSet
<1>10. Increasing(a) => Increasing(b)
  BY <1>7, <1>8 DEF Increasing
<1> QED BY <1>3, <1>4, <1>9, <1>10 DEF a, b, got, left, taken, L, Q

LEMMA NewestAreSome ==
  ASSUME NEW q \in Seq(Nat), NEW k \in Nat
  PROVE  /\ NewestOf(q, k) \in Seq(Nat) /\ Len(NewestOf(q, k)) <= k
         /\ ToSet(NewestOf(q, k)) \subseteq ToSet(q)
         /\ Len(q) <= k => NewestOf(q, k) = q
<1> DEFINE a == IF Len(q) > k THEN Len(q) - k + 1 ELSE 1
           b == SubSeq(q, a, Len(q))
<1>1. /\ Len(q) \in Nat /\ a \in Nat \ {0} /\ a <= Len(q) + 1
      /\ Len(q) - a + 1 \in 0 .. k
  OBVIOUS
<1> HIDE DEF a
<1>2. /\ b \in Seq(Nat) /\ Len(b) = Len(q) - a + 1
      /\ \A i \in 1 .. Len(b) : b[i] = q[a + i - 1] /\ a + i - 1 \in 1 .. Len(q)
  <2>1. \A i \in a .. Len(q) : q[i] \in Nat
    BY <1>1
  <2>2. Len(b) = Len(q) - a + 1 /\ \A i \in 1 .. Len(q) - a + 1 : b[i] = q[a + i - 1]
    BY <1>1
  <2>3. b \in Seq(Nat)
    BY <1>1, <2>1
  <2>4. \A i \in 1 .. Len(q) - a + 1 : a + i - 1 \in 1 .. Len(q)
    BY <1>1
  <2> QED BY <2>2, <2>3, <2>4
<1>3. NewestOf(q, k) = b
  BY DEF NewestOf, a
<1> HIDE DEF b
<1>4. ToSet(b) \subseteq ToSet(q)
  <2>1. DOMAIN b = 1 .. Len(b) /\ DOMAIN q = 1 .. Len(q)
    BY <1>2
  <2>2. \A i \in DOMAIN b : \E j \in DOMAIN q : b[i] = q[j]
    BY <1>2, <2>1
  <2> QED BY <2>2 DEF ToSet
<1>5. ASSUME Len(q) <= k PROVE b = q
  <2>1. a = 1
    BY <1>1, <1>5 DEF a
  <2>2. Len(b) = Len(q) /\ \A i \in 1 .. Len(q) : b[i] = q[i]
    BY <1>1, <1>2, <2>1
  <2> QED BY <1>2, <2>2, SeqEqual
<1> QED BY <1>1, <1>2, <1>3, <1>4, <1>5

\* The values of a map, in some order.
LEMMA OrderedValues ==
  ASSUME NEW S, S \subseteq Nat, IsFiniteSet(S), NEW order \in Orders(S)
  PROVE  /\ order \in Seq(Nat) /\ ToSet(order) = S /\ Len(order) = Cardinality(S)
<1>1. Cardinality(S) \in Nat
  BY FS_CardinalityType
<1>2. order \in [1 .. Cardinality(S) -> S] /\ ToSet(order) = S
  BY DEF Orders
<1>3. order \in [1 .. Cardinality(S) -> Nat]
  BY <1>2
<1>4. order \in Seq(Nat) /\ Len(order) = Cardinality(S)
  BY <1>1, <1>3
<1> QED BY <1>2, <1>4

(* The steps *)

LEMMA ValuesMean == ValuesInv => ValuesAreWhole
<1> SUFFICES ASSUME ValuesInv PROVE ValuesAreWhole
  OBVIOUS
<1>1. NoGap
  BY DEF ValuesInv, SubscriberOK, NoGap, GapFree, Live, Due, Ordered
<1>2. ViewCurrent
  BY DEF ValuesInv, MemoryTypeOK, SubscriberOK, ViewCurrent, InView, Ordered
<1> QED BY <1>1, <1>2 DEF ValuesInv, ValuesAreWhole

LEMMA ValuesStart == MemoryInit => ValuesInv
<1> SUFFICES ASSUME MemoryInit PROVE ValuesInv
  OBVIOUS
<1>1. /\ tagOf \in Seq(Tags) /\ sequence = 0
      /\ \A s \in Subscribers : /\ stream[s] = <<>> /\ received[s] = <<>> /\ since[s] = 0
                                /\ Seen(s) = <<>>
  BY DEF MemoryInit, Seen, sequence
<1>2. MemoryTypeOK
  BY <1>1, StoreBounds DEF MemoryInit, MemoryTypeOK, StoreBounds
<1>3. ASSUME NEW s \in Subscribers PROVE SubscriberOK(s)
  <2>1. ToSet(Seen(s)) = {} /\ DOMAIN Seen(s) = {}
    BY <1>1 DEF ToSet
  <2> QED BY <1>1, <2>1 DEF MemoryInit, SubscriberOK, Unseen, Past, GapFree, InView, Live,
                           Due, Increasing
<1> QED BY <1>1, <1>2, <1>3 DEF MemoryInit, ValuesInv

LEMMA SubscriberTyped ==
  ASSUME MemoryTypeOK, NEW s \in Subscribers
  PROVE  /\ received[s] \in Seq(Nat) /\ stream[s] \in Seq(Nat) /\ Seen(s) \in Seq(Nat)
         /\ ToSet(Seen(s)) \subseteq Nat /\ since[s] \in Nat /\ after[s] \in Nat
         /\ sequence \in Nat /\ filter[s] \subseteq Tags
         /\ ToSet(Seen(s)) = ToSet(received[s]) \cup ToSet(stream[s])
<1>1. /\ received[s] \in Seq(Nat) /\ stream[s] \in Seq(Nat) /\ since[s] \in Nat
      /\ after[s] \in Nat /\ sequence \in Nat /\ filter[s] \subseteq Tags
  BY DEF MemoryTypeOK, sequence
<1> QED BY <1>1, JoinedValues DEF Seen

\* A subscriber that nothing happens to.
LEMMA NothingHappens ==
  ASSUME NEW s \in Subscribers, SubscriberOK(s), UNCHANGED memoryStore,
         Seen(s)' = Seen(s), s \in registered' => s \in registered,
         Fresh(s)' => Fresh(s) /\ received'[s] = received[s] /\ stream'[s] = stream[s],
         filter'[s] = filter[s], since'[s] = since[s], after'[s] = after[s],
         s \in disconnectOnLag' <=> s \in disconnectOnLag
  PROVE  SubscriberOK(s)'
<1>1. /\ sequence' = sequence /\ tagOf' = tagOf /\ latest' = latest
      /\ \A t : MatchesTag(s, t)' <=> MatchesTag(s, t)
      /\ Ordered(s)' <=> Ordered(s)
  BY DEF memoryStore, sequence, MatchesTag, Ordered
<1>2. Live(s)' = Live(s) /\ Due(s)' = Due(s)
  BY <1>1 DEF Live, Due
<1>3. Unseen(s)'
  BY <1>1 DEF SubscriberOK, Unseen
<1>4. Past(s)' /\ GapFree(s)' /\ InView(s)' /\ (Ordered(s)' => Increasing(Seen(s)'))
  BY <1>1, <1>2 DEF SubscriberOK, Past, GapFree, InView
<1> QED BY <1>3, <1>4 DEF SubscriberOK

LEMMA SubscribeStep ==
  ASSUME ValuesInv, NEW s \in Subscribers, NEW ids \in SUBSET Tags, AddSubscriber(s, ids),
         UNCHANGED <<memoryStore, closes>>,
         NEW r \in Seq(Nat), received' = [received EXCEPT ![s] = r],
         NEW q \in Seq(Nat), stream' = [stream EXCEPT ![s] = q],
         r = <<>> \/ q = <<>>,
         NEW cursor \in Nat, after' = [after EXCEPT ![s] = cursor],
         \/ /\ disconnectOnLag' = disconnectOnLag \cup {s} /\ q = <<>>
            /\ Increasing(r) /\ ToSet(r) = Replay(ids, cursor)
         \/ /\ disconnectOnLag' = disconnectOnLag /\ r = <<>>
            /\ Len(q) <= HistoryLimit + 1 /\ ToSet(q) \subseteq {latest[t] : t \in ids} \ {0}
            /\ Cardinality(ids) = 1 => /\ Increasing(q)
                                       /\ ToSet(q) = {latest[t] : t \in ids} \ {0}
  PROVE  ValuesInv'
<1>0. /\ MemoryTypeOK /\ sequence' = sequence /\ sequence \in Nat /\ Fresh(s)
      /\ tagOf' = tagOf /\ latest' = latest /\ latest \in [Tags -> Nat]
      /\ s \notin disconnectOnLag /\ s \notin registered
      /\ registered' = registered \cup {s} /\ filter' = [filter EXCEPT ![s] = ids]
      /\ since' = [since EXCEPT ![s] = sequence]
      /\ \A t \in Tags : latest[t] \in Nat /\ latest[t] <= sequence
  BY DEF ValuesInv, SubscriberOK, Unseen, AddSubscriber, Fresh, memoryStore, sequence,
         MemoryTypeOK
<1>1. ASSUME NEW d \in Subscribers \ {s} PROVE SubscriberOK(d)'
  <2>1. /\ received'[d] = received[d] /\ stream'[d] = stream[d] /\ after'[d] = after[d]
        /\ filter'[d] = filter[d] /\ since'[d] = since[d]
        /\ d \in registered' <=> d \in registered
        /\ d \in disconnectOnLag' <=> d \in disconnectOnLag
        /\ closes' = closes
    BY <1>0 DEF MemoryTypeOK
  <2>2. Seen(d)' = Seen(d) /\ (Fresh(d)' <=> Fresh(d))
    BY <2>1 DEF Seen, Fresh
  <2>3. SubscriberOK(d)
    BY DEF ValuesInv
  <2> QED BY <2>1, <2>2, <2>3, NothingHappens
<1>2. /\ received'[s] = r /\ stream'[s] = q /\ filter'[s] = ids /\ since'[s] = sequence
      /\ after'[s] = cursor
  BY <1>0 DEF MemoryTypeOK
<1>3. /\ Seen(s)' = r \o q /\ r \o q \in Seq(Nat) /\ ToSet(r \o q) = ToSet(r) \cup ToSet(q)
      /\ ToSet(<<>>) = {} /\ \A t : MatchesTag(s, t)' <=> ids = {} \/ t \in ids
  <2>1. Seen(s)' = r \o q /\ \A t : MatchesTag(s, t)' <=> ids = {} \/ t \in ids
    BY <1>2 DEF Seen, MatchesTag
  <2>2. ToSet(<<>>) = {}
    BY DEF ToSet
  <2>3. r \o q \in Seq(Nat) /\ ToSet(r \o q) = ToSet(r) \cup ToSet(q)
    BY JoinedValues
  <2> QED BY <2>1, <2>2, <2>3
<1>4. \A n \in ToSet(r \o q) : n \in Nat /\ n <= sequence
  <2>1. ToSet(r) \subseteq {latest[t] : t \in Tags} /\ ToSet(q) \subseteq {latest[t] : t \in Tags}
    BY <1>3 DEF Replay
  <2> QED BY <1>0, <1>3, <2>1
<1>5. ~Fresh(s)' /\ s \in registered'
  BY <1>0 DEF Fresh
<1>6. Live(s)' = {} /\ Due(s)' = {}
  <2>1. \A n \in ToSet(r \o q) : ~(n > sequence)
    BY <1>0, <1>4
  <2>2. sequence + 1 .. sequence = {}
    BY <1>0
  <2>3. Due(s)' \subseteq sequence + 1 .. sequence
    BY <1>0, <1>2 DEF Due
  <2> QED BY <1>2, <1>3, <2>1, <2>2, <2>3 DEF Live
<1>7. Unseen(s)' /\ Past(s)' /\ GapFree(s)'
  BY <1>0, <1>2, <1>3, <1>4, <1>5, <1>6 DEF Unseen, Past, GapFree
<1>8. (q = <<>> => r \o q = r) /\ (r = <<>> => r \o q = q)
  OBVIOUS
<1>9. ASSUME disconnectOnLag' = disconnectOnLag \cup {s}, q = <<>>, Increasing(r),
             ToSet(r) = Replay(ids, cursor)
      PROVE  SubscriberOK(s)'
  <2>1. Increasing(Seen(s)')
    BY <1>3, <1>8, <1>9 DEF Increasing
  <2>2. InView(s)'
    <3> SUFFICES ASSUME NEW t \in Tags, ids = {} \/ t \in ids, latest[t] # 0
                 PROVE  latest[t] \in ToSet(r) \/ latest[t] <= cursor
      BY <1>0, <1>2, <1>3 DEF InView
    <3> QED BY <1>0, <1>9 DEF Replay
  <2> QED BY <1>7, <2>1, <2>2 DEF SubscriberOK
<1>10. ASSUME disconnectOnLag' = disconnectOnLag, r = <<>>,
              Cardinality(ids) = 1 => /\ Increasing(q)
                                      /\ ToSet(q) = {latest[t] : t \in ids} \ {0}
       PROVE  SubscriberOK(s)'
  <2>1. Ordered(s)' => Cardinality(ids) = 1
    BY <1>0, <1>2, <1>10 DEF Ordered
  <2>2. Cardinality(ids) = 1 => Increasing(Seen(s)')
    BY <1>3, <1>8, <1>10 DEF Increasing
  <2>3. Cardinality(ids) = 1 => ids # {}
    <3>1. ids = {} => Cardinality(ids) = 0
      BY FS_EmptySet
    <3> QED BY <3>1
  <2>4. InView(s)'
    <3> SUFFICES ASSUME Cardinality(ids) = 1, NEW t \in Tags, t \in ids, latest[t] # 0
                 PROVE  latest[t] \in ToSet(q)
      BY <1>0, <1>3, <2>1, <2>3 DEF InView
    <3> QED BY <1>10
  <2> QED BY <1>7, <2>1, <2>2, <2>4 DEF SubscriberOK
<1>11. SubscriberOK(s)'
  BY <1>9, <1>10
<1>12. MemoryTypeOK'
  <2>1. /\ received' \in [Subscribers -> Seq(Nat)] /\ stream' \in [Subscribers -> Seq(Nat)]
        /\ filter' \in [Subscribers -> SUBSET Tags] /\ since' \in [Subscribers -> Nat]
        /\ after' \in [Subscribers -> Nat] /\ registered' \subseteq Subscribers
        /\ disconnectOnLag' \subseteq Subscribers /\ closes' = closes /\ recent' = recent
    BY <1>0 DEF MemoryTypeOK, memoryStore
  <2>2. \A d \in registered' : closes[d] = 0
    BY <1>0 DEF MemoryTypeOK, Fresh
  <2>3. ASSUME NEW d \in Subscribers
        PROVE  Len(stream'[d]) <= IF d \in disconnectOnLag' THEN TagEventBuffer ELSE HistoryLimit + 1
    <3>1. CASE d = s
      BY <1>0, <1>2, <3>1, StoreBounds DEF StoreBounds
    <3>2. CASE d # s
      <4>1. stream'[d] = stream[d] /\ (d \in disconnectOnLag' <=> d \in disconnectOnLag)
        BY <1>0, <3>2 DEF MemoryTypeOK
      <4> QED BY <1>0, <4>1 DEF MemoryTypeOK
    <3> QED BY <3>1, <3>2
  <2> QED BY <1>0, <2>1, <2>2, <2>3 DEF MemoryTypeOK
<1> QED BY <1>0, <1>1, <1>11, <1>12 DEF ValuesInv

LEMMA SubscribeOneStep ==
  ASSUME ValuesInv, NEW s \in Subscribers, NEW ids \in (SUBSET Tags) \ {{}}, Subscribe(s, ids)
  PROVE  ValuesInv'
<1> DEFINE S == {latest[t] : t \in ids} \ {0}
<1>1. /\ AddSubscriber(s, ids) /\ UNCHANGED <<memoryStore, closes>>
      /\ UNCHANGED <<disconnectOnLag, received, after>>
  BY DEF Subscribe
<1>2. PICK order \in Orders(S) :
        stream' = [stream EXCEPT ![s] = NewestOf(order, HistoryLimit + 1)]
  BY DEF Subscribe
<1>3. S \subseteq Nat /\ IsFiniteSet(S)
  <2>1. S \subseteq 0 .. sequence /\ S \subseteq Nat /\ sequence \in Nat
    BY DEF ValuesInv, MemoryTypeOK, sequence
  <2>2. IsFiniteSet(0 .. sequence)
    BY <2>1, FS_Interval
  <2> HIDE DEF S
  <2> QED BY <2>1, <2>2, FS_Subset
<1>4. order \in Seq(Nat) /\ ToSet(order) = S /\ Len(order) = Cardinality(S)
  <2> HIDE DEF S
  <2> QED BY <1>2, <1>3, OrderedValues
<1> DEFINE q == NewestOf(order, HistoryLimit + 1)
<1>5. HistoryLimit + 1 \in Nat \ {0, 1}
  BY StoreBounds DEF StoreBounds
<1>6. /\ q \in Seq(Nat) /\ Len(q) <= HistoryLimit + 1 /\ ToSet(q) \subseteq S
      /\ Len(order) <= HistoryLimit + 1 => q = order
  <2> HIDE DEF S
  <2> QED BY <1>4, <1>5, NewestAreSome
<1>7. ASSUME Cardinality(ids) = 1 PROVE Increasing(q) /\ ToSet(q) = S
  <2>1. PICK t \in Tags : ids = {t}
    <3>1. IsFiniteSet(ids)
      BY FS_Subset, StoreBounds DEF StoreBounds
    <3> QED BY <1>7, <3>1, FS_Singleton
  <2>2. S \subseteq {latest[t]} /\ IsFiniteSet({latest[t]}) /\ Cardinality({latest[t]}) = 1
    BY <2>1, FS_Singleton
  <2> HIDE DEF S, q
  <2>3. Cardinality(S) \in Nat /\ Cardinality(S) <= 1
    BY <1>3, <2>2, FS_Subset, FS_CardinalityType
  <2>4. Len(order) <= 1 /\ q = order
    BY <1>4, <1>5, <1>6, <2>3
  <2>5. \A i, j \in DOMAIN order : i = j
    <3>1. DOMAIN order = 1 .. Len(order) /\ Len(order) \in Nat
      BY <1>4
    <3> QED BY <2>4, <3>1
  <2>6. \A i, j \in DOMAIN order : i \in Nat /\ j \in Nat
    BY <1>4
  <2>7. Increasing(order)
    BY <2>5, <2>6 DEF Increasing
  <2> QED BY <1>4, <2>4, <2>7
<1>8. /\ received' = [received EXCEPT ![s] = <<>>] /\ after' = [after EXCEPT ![s] = after[s]]
      /\ after[s] \in Nat /\ <<>> \in Seq(Nat) /\ stream' = [stream EXCEPT ![s] = q]
  BY <1>1, <1>2 DEF ValuesInv, MemoryTypeOK, SubscriberOK, Unseen, AddSubscriber
<1> HIDE DEF q
<1> QED BY <1>1, <1>6, <1>7, <1>8, SubscribeStep

LEMMA SubscribeValuesStep ==
  ASSUME ValuesInv, NEW s \in Subscribers, NEW ids \in SUBSET Tags, NEW cursor \in 0 .. sequence,
         SubscribeValues(s, ids, cursor)
  PROVE  ValuesInv'
<1>1. /\ AddSubscriber(s, ids) /\ UNCHANGED <<memoryStore, closes>>
      /\ stream' = stream /\ disconnectOnLag' = disconnectOnLag \cup {s}
      /\ after' = [after EXCEPT ![s] = cursor]
  BY DEF SubscribeValues
<1>2. PICK order \in Orders(Replay(ids, cursor)) :
        Increasing(order) /\ received' = [received EXCEPT ![s] = order]
  BY DEF SubscribeValues
<1>3. Replay(ids, cursor) \subseteq Nat /\ IsFiniteSet(Replay(ids, cursor))
  <2>1. /\ Replay(ids, cursor) \subseteq 0 .. sequence /\ Replay(ids, cursor) \subseteq Nat
        /\ sequence \in Nat
    BY DEF ValuesInv, MemoryTypeOK, Replay, sequence
  <2>2. IsFiniteSet(0 .. sequence)
    BY <2>1, FS_Interval
  <2> QED BY <2>1, <2>2, FS_Subset
<1>4. order \in Seq(Nat) /\ ToSet(order) = Replay(ids, cursor)
  BY <1>2, <1>3, OrderedValues
<1>5. /\ stream' = [stream EXCEPT ![s] = <<>>] /\ <<>> \in Seq(Nat) /\ cursor \in Nat
  BY <1>1 DEF ValuesInv, MemoryTypeOK, SubscriberOK, Unseen, AddSubscriber, sequence
<1> QED BY <1>1, <1>2, <1>4, <1>5, SubscribeStep

LEMMA ReceiveStep ==
  ASSUME ValuesInv, NEW s \in Subscribers, Receive(s) PROVE ValuesInv'
<1>1. /\ MemoryTypeOK /\ stream[s] # <<>> /\ received[s] \in Seq(Nat) /\ stream[s] \in Seq(Nat)
      /\ received' = [received EXCEPT ![s] = Append(received[s], Head(stream[s]))]
      /\ stream' = [stream EXCEPT ![s] = Tail(stream[s])]
      /\ UNCHANGED <<memoryStore, registered, filter, disconnectOnLag, closes, since, after>>
  BY DEF Receive, ValuesInv, MemoryTypeOK
<1>2. /\ Append(received[s], Head(stream[s])) \in Seq(Nat) /\ Tail(stream[s]) \in Seq(Nat)
      /\ Len(Tail(stream[s])) <= Len(stream[s])
      /\ Len(stream[s]) \in Nat /\ Len(Tail(stream[s])) \in Nat
      /\ Append(received[s], Head(stream[s])) \o Tail(stream[s]) = received[s] \o stream[s]
  <2> DEFINE r == received[s]
             q == stream[s]
  <2>1. r \in Seq(Nat) /\ q \in Seq(Nat) /\ q # <<>>
    BY <1>1
  <2> HIDE DEF r, q
  <2>2. /\ Append(r, Head(q)) \in Seq(Nat) /\ Tail(q) \in Seq(Nat)
        /\ Len(Tail(q)) = Len(q) - 1 /\ Len(q) \in Nat \ {0}
        /\ Append(r, Head(q)) \o Tail(q) = r \o q
    BY ONLY <2>1, HandedOver
  <2>3. Len(Tail(q)) <= Len(q) /\ Len(q) \in Nat /\ Len(Tail(q)) \in Nat
    BY <2>2
  <2> QED BY <2>2, <2>3 DEF r, q
<1>3. ASSUME NEW d \in Subscribers PROVE SubscriberOK(d)'
  <2>1. Seen(d)' = Seen(d)
    <3>1. CASE d = s
      BY <1>1, <1>2, <3>1 DEF MemoryTypeOK, Seen
    <3>2. CASE d # s
      BY <1>1, <3>2 DEF MemoryTypeOK, Seen
    <3> QED BY <3>1, <3>2
  <2>2. SubscriberOK(d) /\ SubscriberOK(s)
    BY DEF ValuesInv
  <2>3. Fresh(d)' => Fresh(d) /\ received'[d] = received[d] /\ stream'[d] = stream[d]
    <3>1. ~Fresh(s)
      BY <1>1, <2>2 DEF SubscriberOK, Unseen
    <3>2. Fresh(d)' <=> Fresh(d)
      BY <1>1 DEF Fresh
    <3>3. d # s => received'[d] = received[d] /\ stream'[d] = stream[d]
      BY <1>1 DEF MemoryTypeOK
    <3> QED BY <3>1, <3>2, <3>3
  <2> QED BY <1>1, <2>1, <2>2, <2>3, NothingHappens
<1>4. MemoryTypeOK'
  <2>1. received' \in [Subscribers -> Seq(Nat)] /\ stream' \in [Subscribers -> Seq(Nat)]
    BY <1>1, <1>2 DEF MemoryTypeOK
  <2>2. ASSUME NEW d \in Subscribers
        PROVE  Len(stream'[d]) <= IF d \in disconnectOnLag' THEN TagEventBuffer ELSE HistoryLimit + 1
    <3>1. Len(stream[d]) <= IF d \in disconnectOnLag THEN TagEventBuffer ELSE HistoryLimit + 1
      BY <1>1 DEF MemoryTypeOK
    <3>2. CASE d = s
      <4>1. stream'[d] = Tail(stream[s])
        BY <1>1, <3>2 DEF MemoryTypeOK
      <4> QED BY <1>1, <1>2, <3>1, <3>2, <4>1, StoreBounds DEF StoreBounds
    <3>3. CASE d # s
      BY <1>1, <3>1, <3>3 DEF MemoryTypeOK
    <3> QED BY <3>2, <3>3
  <2> QED BY <1>1, <2>1, <2>2 DEF MemoryTypeOK, memoryStore
<1> QED BY <1>1, <1>3, <1>4 DEF ValuesInv, memoryStore, sequence

LEMMA UnsubscribeStep ==
  ASSUME ValuesInv, NEW s \in Subscribers, Unsubscribe(s) PROVE ValuesInv'
<1>1. /\ MemoryTypeOK /\ s \in registered /\ registered' = registered \ {s}
      /\ closes' = [closes EXCEPT ![s] = closes[s] + 1] /\ closes[s] = 0
      /\ UNCHANGED <<memoryStore, filter, disconnectOnLag, stream, received, since, after>>
  BY DEF Unsubscribe, ValuesInv, MemoryTypeOK
<1>2. closes' = [closes EXCEPT ![s] = 1]
  BY <1>1
<1>3. ASSUME NEW d \in Subscribers PROVE SubscriberOK(d)'
  <2>1. Seen(d)' = Seen(d) /\ (d \in registered' => d \in registered)
    BY <1>1 DEF Seen
  <2>2. Fresh(d)' => Fresh(d)
    BY <1>1, <1>2 DEF Fresh, MemoryTypeOK
  <2> QED BY <1>1, <2>1, <2>2, NothingHappens DEF ValuesInv
<1>4. MemoryTypeOK'
  BY <1>1, <1>2 DEF MemoryTypeOK, memoryStore
<1> QED BY <1>1, <1>3, <1>4 DEF ValuesInv, memoryStore, sequence

\* What Put does to one subscriber that it hands the value to.
LEMMA OfferedStep ==
  ASSUME ValuesInv, NEW t \in Tags, Put(t), NEW s \in registered, MatchesTag(s, t), ~Lagging(s)
  PROVE  /\ SubscriberOK(s)'
         /\ received'[s] \in Seq(Nat) /\ stream'[s] \in Seq(Nat)
         /\ Len(stream'[s]) <= IF s \in disconnectOnLag THEN TagEventBuffer ELSE HistoryLimit + 1
<1> DEFINE n == sequence + 1
           q == stream[s]
           old == received[s] \o q
           targets == {u \in registered : MatchesTag(u, t)}
           lagging == {u \in targets : Lagging(u)}
<1>1. /\ MemoryTypeOK /\ s \in Subscribers /\ SubscriberOK(s) /\ sequence \in Nat
      /\ tagOf \in Seq(Tags) /\ tagOf' = Append(tagOf, t)
      /\ latest \in [Tags -> Nat] /\ latest' = [latest EXCEPT ![t] = n]
      /\ UNCHANGED <<filter, disconnectOnLag, since, after>>
      /\ s \in registered' /\ closes[s] = 0
  BY DEF Put, ValuesInv, MemoryTypeOK, sequence
<1>2. received[s] \in Seq(Nat) /\ q \in Seq(Nat) /\ Len(q) \in Nat
  BY <1>1 DEF MemoryTypeOK
<1>2a. PICK taken \in Races(targets) :
        /\ stream' = [u \in Subscribers |->
             IF u \in targets \ lagging THEN Offered(u, n, taken[u]) ELSE stream[u]]
        /\ received' = [u \in Subscribers |-> received[u] \o SubSeq(stream[u], 1, taken[u])]
  BY DEF Put
<1> DEFINE k == taken[s]
           r == received[s] \o SubSeq(q, 1, k)
           kept == IF NoRoom(s) THEN SubSeq(q, k + 2, Len(q)) ELSE q
<1>2b. received'[s] = r /\ stream'[s] = Append(kept, n)
  <2>1. received'[s] = r /\ stream'[s] = Offered(s, n, k)
    BY <1>1, <1>2a
  <2> QED BY <2>1 DEF Offered
<1>2c. k \in 0 .. Len(q) /\ (s \in disconnectOnLag \/ ~NoRoom(s) => k = 0)
  BY <1>1, <1>2, <1>2a DEF Races
<1>2d. s \in disconnectOnLag => ~NoRoom(s)
  BY DEF Lagging
<1> HIDE DEF k, n
<1>3. /\ r \in Seq(Nat) /\ kept \in Seq(Nat) /\ Len(kept) + 1 <= Room(s) /\ Len(kept) \in Nat
      /\ ToSet(r \o kept) \subseteq ToSet(old) /\ (Increasing(old) => Increasing(r \o kept))
      /\ s \in disconnectOnLag => r \o kept = old
  <2>1. Room(s) \in Nat \ {0} /\ Len(q) <= Room(s)
    BY <1>1, <1>2, StoreBounds DEF MemoryTypeOK, Room, StoreBounds
  <2>2. CASE NoRoom(s)
    <3>1. q # <<>>
      BY <2>1, <2>2 DEF NoRoom
    <3>2. /\ r \in Seq(Nat) /\ SubSeq(q, k + 2, Len(q)) \in Seq(Nat)
          /\ Len(SubSeq(q, k + 2, Len(q))) \in Nat /\ Len(SubSeq(q, k + 2, Len(q))) < Len(q)
          /\ ToSet(r \o SubSeq(q, k + 2, Len(q))) \subseteq ToSet(old)
          /\ Increasing(old) => Increasing(r \o SubSeq(q, k + 2, Len(q)))
      <4> DEFINE g == received[s]
      <4>1. g \in Seq(Nat)
        BY <1>2
      <4> HIDE DEF g, q
      <4> QED BY <1>2, <1>2c, <3>1, <4>1, OldestDropped DEF g
    <3>3. kept = SubSeq(q, k + 2, Len(q)) /\ s \notin disconnectOnLag
      BY <1>2d, <2>2
    <3> HIDE DEF r, q, old, kept
    <3>4. /\ r \in Seq(Nat) /\ kept \in Seq(Nat) /\ Len(kept) \in Nat /\ Len(kept) < Len(q)
          /\ ToSet(r \o kept) \subseteq ToSet(old) /\ (Increasing(old) => Increasing(r \o kept))
      BY <3>2, <3>3
    <3>5. Len(kept) + 1 <= Room(s)
      BY <1>2, <2>1, <3>4
    <3> QED BY <3>3, <3>4, <3>5
  <2>3. CASE ~NoRoom(s)
    <3>1. SubSeq(q, 1, k) = <<>> /\ received[s] \o <<>> = received[s]
      BY <1>2, <1>2c, <2>3
    <3>2. r \o kept = old /\ r \in Seq(Nat) /\ kept = q
      BY <1>2, <2>3, <3>1
    <3>3. Len(q) + 1 <= Room(s)
      BY <1>2, <2>1, <2>3 DEF NoRoom
    <3> HIDE DEF r, q, old, kept
    <3> QED BY <1>2, <3>2, <3>3
  <2> QED BY <2>2, <2>3
<1>5. /\ Seen(s) = old /\ Seen(s)' = r \o Append(kept, n) /\ n \in Nat
  BY <1>1, <1>2b DEF Seen, n
<1>6. sequence' = n /\ tagOf'[n] = t /\ \A m \in 1 .. sequence : tagOf'[m] = tagOf[m]
  BY <1>1 DEF sequence, n
<1>7. \A u \in Tags : latest'[u] = IF u = t THEN n ELSE latest[u]
  BY <1>1
<1>8. /\ MatchesTag(s, t) /\ \A u : MatchesTag(s, u)' <=> MatchesTag(s, u)
      /\ Ordered(s)' <=> Ordered(s)
  BY <1>1 DEF MatchesTag, Ordered
<1>9. /\ \A m \in ToSet(old) : m \in Nat /\ m <= sequence
      /\ Ordered(s) => Increasing(old)
      /\ since[s] \in Nat /\ since[s] <= sequence
  BY <1>1, <1>5, SubscriberTyped DEF SubscriberOK, Past
<1> HIDE DEF r, q, old, kept, targets, lagging
<1>10. /\ Append(kept, n) \in Seq(Nat) /\ Len(Append(kept, n)) = Len(kept) + 1
       /\ Seen(s)' = Append(r \o kept, n) /\ r \o kept \in Seq(Nat)
       /\ ToSet(Append(kept, n)) = ToSet(kept) \cup {n}
  BY <1>2, <1>3, <1>5, OneMoreValue, JoinedValues
<1>11. ToSet(Append(r \o kept, n)) = ToSet(r \o kept) \cup {n}
  <2>1. r \o kept \in Seq(Nat) /\ <<>> \in Seq(Nat)
    BY <1>10
  <2> QED BY <1>5, <2>1, OneMoreValue
<1>12. Ordered(s)' => Increasing(Append(r \o kept, n))
  <2>1. \A m \in ToSet(r \o kept) : m < n
    BY <1>1, <1>3, <1>9 DEF n
  <2> QED BY <1>3, <1>5, <1>8, <1>9, <1>10, <2>1, NewestIsLast
<1>13. Unseen(s)'
  BY <1>1 DEF Unseen, Fresh
<1>14. Past(s)'
  <2>1. n \in Nat /\ n = sequence + 1 /\ since'[s] = since[s]
    BY <1>1, <1>5 DEF n
  <2>2. \A m \in ToSet(Seen(s)') : m \in ToSet(old) \/ m = n
    BY <1>3, <1>10, <1>11
  <2>3. \A m \in ToSet(Seen(s)') : m <= n
    <3> SUFFICES ASSUME NEW m \in ToSet(Seen(s)') PROVE m <= n
      OBVIOUS
    <3>1. CASE m \in ToSet(old)
      <4>1. m \in Nat /\ m <= sequence
        BY <1>9, <3>1
      <4> QED BY <1>1, <2>1, <4>1
    <3>2. CASE m = n
      BY <2>1, <3>2
    <3> QED BY <2>2, <3>1, <3>2
  <2> QED BY <1>1, <1>6, <1>9, <2>1, <2>3 DEF Past
<1>15. GapFree(s)'
  <2> SUFFICES ASSUME s \in disconnectOnLag
               PROVE  /\ Live(s)' \subseteq Due(s)'
                      /\ \A m \in Due(s)' : m \in Live(s)'
    BY <1>1 DEF GapFree
  <2>1. ToSet(Seen(s)') = ToSet(old) \cup {n}
    BY <1>3, <1>10, <1>11
  <2>2. Live(s)' = Live(s) \cup {n}
    BY <1>1, <1>5, <1>9, <2>1 DEF Live, n
  <2>3. Due(s)' = Due(s) \cup {n}
    <3>1. since[s] + 1 .. n = (since[s] + 1 .. sequence) \cup {n}
      BY <1>1, <1>9 DEF n
    <3>2. since[s] + 1 .. sequence \subseteq 1 .. sequence
      BY <1>1, <1>9
    <3>3. Due(s)' = {m \in since[s] + 1 .. n : MatchesTag(s, tagOf'[m])}
      BY <1>1, <1>6, <1>8 DEF Due
    <3> QED BY <1>6, <1>8, <3>1, <3>2, <3>3 DEF Due
  <2>4. Live(s) \subseteq Due(s) /\ \A m \in Due(s) : m \in Live(s)
    BY <1>1 DEF SubscriberOK, GapFree
  <2> QED BY <2>2, <2>3, <2>4
<1>16. InView(s)'
  <2> SUFFICES ASSUME Ordered(s), NEW u \in Tags, MatchesTag(s, u), latest'[u] # 0
               PROVE  latest'[u] \in ToSet(Seen(s)') \/ latest'[u] <= after[s]
    BY <1>1, <1>8 DEF InView
  <2>1. CASE u = t
    BY <1>7, <1>10, <1>11, <2>1
  <2>2. CASE u # t
    <3>1. latest'[u] = latest[u] /\ (latest[u] \in ToSet(old) \/ latest[u] <= after[s])
      BY <1>1, <1>5, <1>7, <2>2 DEF SubscriberOK, InView
    <3>2. s \in disconnectOnLag
      <4>1. Cardinality(filter[s]) # 1
        <5>1. filter[s] \subseteq Tags /\ IsFiniteSet(filter[s])
          BY <1>1, FS_Subset, StoreBounds DEF MemoryTypeOK, StoreBounds
        <5> SUFFICES ASSUME Cardinality(filter[s]) = 1 PROVE FALSE
          OBVIOUS
        <5>2. PICK v : filter[s] = {v}
          BY <5>1, FS_Singleton
        <5> QED BY <1>8, <2>2, <5>2 DEF MatchesTag
      <4> QED BY <4>1 DEF Ordered
    <3>3. r \o kept = old
      BY <1>3, <3>2
    <3> QED BY <1>10, <1>11, <3>1, <3>3
  <2> QED BY <2>1, <2>2
<1> QED BY <1>3, <1>2b, <1>10, <1>12, <1>13, <1>14, <1>15, <1>16 DEF SubscriberOK, Room

\* What Put does to the others: it disconnects them or passes them by.
LEMMA NotOfferedStep ==
  ASSUME ValuesInv, NEW t \in Tags, Put(t), NEW s \in Subscribers,
         s \in registered => ~MatchesTag(s, t) \/ Lagging(s)
  PROVE  SubscriberOK(s)' /\ stream'[s] = stream[s] /\ received'[s] = received[s]
<1> DEFINE n == sequence + 1
           targets == {u \in registered : MatchesTag(u, t)}
           lagging == {u \in targets : Lagging(u)}
<1>0. stream'[s] = stream[s] /\ received'[s] = received[s]
  <2>1. PICK taken \in Races(targets) :
          /\ stream' = [u \in Subscribers |->
               IF u \in targets \ lagging THEN Offered(u, n, taken[u]) ELSE stream[u]]
          /\ received' = [u \in Subscribers |-> received[u] \o SubSeq(stream[u], 1, taken[u])]
    BY DEF Put
  <2>2. taken[s] = 0 /\ s \notin targets \ lagging
    BY DEF Races, Lagging
  <2>3. received[s] \in Seq(Nat) /\ stream[s] \in Seq(Nat)
    BY DEF ValuesInv, MemoryTypeOK
  <2>4. SubSeq(stream[s], 1, 0) = <<>> /\ received[s] \o <<>> = received[s]
    BY <2>3
  <2> HIDE DEF targets, lagging
  <2> QED BY <2>1, <2>2, <2>4
<1>1. /\ MemoryTypeOK /\ SubscriberOK(s) /\ sequence \in Nat
      /\ tagOf \in Seq(Tags) /\ tagOf' = Append(tagOf, t)
      /\ latest \in [Tags -> Nat] /\ latest' = [latest EXCEPT ![t] = n]
      /\ UNCHANGED <<filter, disconnectOnLag, since, after>>
      /\ s \in registered' <=> s \in registered /\ ~MatchesTag(s, t)
      /\ closes[s] \in {0, 1}
      /\ closes'[s] = IF s \in registered /\ MatchesTag(s, t) THEN closes[s] + 1 ELSE closes[s]
      /\ s \in registered => closes[s] = 0
  BY DEF Put, ValuesInv, MemoryTypeOK, sequence, Lagging
<1>2. /\ sequence' = n /\ tagOf'[n] = t /\ \A m \in 1 .. sequence : tagOf'[m] = tagOf[m]
      /\ n \in Nat
  BY <1>1 DEF sequence
<1>3. /\ Seen(s)' = Seen(s) /\ (Ordered(s)' <=> Ordered(s))
      /\ \A u : MatchesTag(s, u)' <=> MatchesTag(s, u)
  BY <1>0, <1>1 DEF Seen, Ordered, MatchesTag
<1>4. /\ \A m \in ToSet(Seen(s)) : m \in Nat /\ m <= sequence
      /\ since[s] \in Nat /\ since[s] <= sequence
  BY <1>1, SubscriberTyped DEF SubscriberOK, Past
<1>5. Unseen(s)'
  <2>1. Fresh(s)' => Fresh(s)
    BY <1>1 DEF Fresh
  <2> QED BY <1>0, <1>1, <2>1 DEF SubscriberOK, Unseen
<1>6. Past(s)'
  BY <1>1, <1>2, <1>3, <1>4 DEF Past
<1>7. GapFree(s)'
  <2> SUFFICES ASSUME s \in disconnectOnLag
               PROVE  /\ Live(s)' \subseteq Due(s)'
                      /\ \A m \in Due(s)' \ Live(s)' : s \notin registered' /\ \A k \in Live(s)' : k < m
    BY <1>1 DEF GapFree
  <2>1. Live(s)' = Live(s) /\ \A m \in Live(s) : m < n /\ m \in Nat
    BY <1>1, <1>3, <1>4 DEF Live
  <2>2. Due(s)' = Due(s) \cup {m \in {n} : MatchesTag(s, t)}
    <3>1. since[s] + 1 .. n = (since[s] + 1 .. sequence) \cup {n}
      BY <1>1, <1>4
    <3>2. since[s] + 1 .. sequence \subseteq 1 .. sequence
      BY <1>1, <1>4
    <3>3. Due(s)' = {m \in since[s] + 1 .. n : MatchesTag(s, tagOf'[m])}
      BY <1>1, <1>2, <1>3 DEF Due
    <3> HIDE DEF n
    <3> QED BY <1>2, <1>3, <3>1, <3>2, <3>3 DEF Due
  <2>3. /\ Live(s) \subseteq Due(s)
        /\ \A m \in Due(s) \ Live(s) : s \notin registered /\ \A k \in Live(s) : k < m
    BY <1>1 DEF SubscriberOK, GapFree
  <2> HIDE DEF n
  <2>4. Live(s)' \subseteq Due(s)'
    BY <2>1, <2>2, <2>3
  <2>5. ASSUME NEW m \in Due(s)' \ Live(s)'
        PROVE  s \notin registered' /\ \A k \in Live(s)' : k < m
    <3>1. CASE m \in Due(s)
      BY <1>1, <2>1, <2>3, <2>5, <3>1
    <3>2. CASE m = n /\ MatchesTag(s, t)
      BY <1>1, <2>1, <3>2
    <3> QED BY <2>2, <2>5, <3>1, <3>2
  <2> QED BY <2>4, <2>5
<1>8. InView(s)'
  <2> SUFFICES ASSUME s \in registered, ~MatchesTag(s, t), Ordered(s), NEW u \in Tags,
                      MatchesTag(s, u), latest'[u] # 0
               PROVE  latest'[u] \in ToSet(Seen(s)) \/ latest'[u] <= after[s]
    BY <1>1, <1>3 DEF InView
  <2>1. u # t /\ latest'[u] = latest[u]
    BY <1>1
  <2> QED BY <1>1, <2>1 DEF SubscriberOK, InView
<1>9. Ordered(s)' => Increasing(Seen(s)')
  BY <1>1, <1>3 DEF SubscriberOK
<1> QED BY <1>0, <1>1, <1>5, <1>6, <1>7, <1>8, <1>9 DEF SubscriberOK

LEMMA PutStep ==
  ASSUME ValuesInv, NEW t \in Tags, Put(t) PROVE ValuesInv'
<1> DEFINE n == sequence + 1
           targets == {s \in registered : MatchesTag(s, t)}
           lagging == {s \in targets : Lagging(s)}
<1>1. /\ MemoryTypeOK /\ sequence \in Nat /\ tagOf' = Append(tagOf, t)
      /\ latest' = [latest EXCEPT ![t] = n]
      /\ recent' = [recent EXCEPT ![t] = Limited(Append(recent[t], n))]
      /\ UNCHANGED <<filter, disconnectOnLag, since, after>>
      /\ registered' = registered \ lagging
      /\ closes' = [s \in Subscribers |-> IF s \in lagging THEN closes[s] + 1 ELSE closes[s]]
  BY DEF Put, ValuesInv, MemoryTypeOK, sequence
<1>2. ASSUME NEW s \in Subscribers
      PROVE  /\ SubscriberOK(s)' /\ stream'[s] \in Seq(Nat) /\ received'[s] \in Seq(Nat)
             /\ Len(stream'[s]) <= IF s \in disconnectOnLag THEN TagEventBuffer ELSE HistoryLimit + 1
  <2>1. CASE s \in registered /\ MatchesTag(s, t) /\ ~Lagging(s)
    BY <2>1, OfferedStep
  <2>2. CASE ~(s \in registered /\ MatchesTag(s, t) /\ ~Lagging(s))
    BY <1>1, <2>2, NotOfferedStep DEF MemoryTypeOK
  <2> QED BY <2>1, <2>2
<1>3. stream' \in [Subscribers -> Seq(Nat)] /\ received' \in [Subscribers -> Seq(Nat)]
  <2>1. /\ stream' = [s \in Subscribers |-> stream'[s]]
        /\ received' = [s \in Subscribers |-> received'[s]]
    <3>1. PICK taken \in Races(targets) :
            /\ stream' = [s \in Subscribers |->
                 IF s \in targets \ lagging THEN Offered(s, n, taken[s]) ELSE stream[s]]
            /\ received' = [s \in Subscribers |-> received[s] \o SubSeq(stream[s], 1, taken[s])]
      BY DEF Put
    <3> HIDE DEF targets, lagging, n
    <3> QED BY <3>1
  <2> QED BY <1>2, <2>1
<1>4. closes' \in [Subscribers -> {0, 1}] /\ \A s \in registered' : closes'[s] = 0
  BY <1>1 DEF MemoryTypeOK
<1>5. recent' \in [Tags -> Seq(Nat)] /\ \A u \in Tags : Len(recent'[u]) <= HistoryLimit
  <2> DEFINE h == Append(recent[t], n)
  <2>1. h \in Seq(Nat)
    BY <1>1 DEF MemoryTypeOK
  <2>2. Limited(h) \in Seq(Nat) /\ Len(Limited(h)) <= HistoryLimit
    <3> HIDE DEF h
    <3> QED BY <2>1, NewestAreSome, StoreBounds DEF Limited, StoreBounds
  <2> HIDE DEF h
  <2> QED BY <1>1, <2>2 DEF MemoryTypeOK, h
<1>6. tagOf' \in Seq(Tags) /\ sequence' = n /\ n \in Nat
  BY <1>1 DEF MemoryTypeOK, sequence
<1>7. latest' \in [Tags -> Nat] /\ \A u \in Tags : latest'[u] <= sequence'
  <2>1. \A u \in Tags : latest[u] \in Nat /\ latest[u] <= sequence
    BY DEF ValuesInv, MemoryTypeOK
  <2>2. \A u \in Tags : latest'[u] = IF u = t THEN n ELSE latest[u]
    BY <1>1 DEF MemoryTypeOK
  <2> QED BY <1>1, <1>6, <2>1, <2>2 DEF MemoryTypeOK
<1>8. MemoryTypeOK'
  BY <1>1, <1>2, <1>3, <1>4, <1>5, <1>6, <1>7 DEF MemoryTypeOK
<1> QED BY <1>2, <1>7, <1>8 DEF ValuesInv

LEMMA ValuesStep == ValuesInv /\ [MemoryNext]_memoryVars => ValuesInv'
<1> SUFFICES ASSUME ValuesInv, [MemoryNext]_memoryVars PROVE ValuesInv'
  OBVIOUS
<1>1. ASSUME NEW t \in Tags, Put(t) PROVE ValuesInv'
  BY <1>1, PutStep
<1>2. ASSUME NEW s \in Subscribers, NEW ids \in (SUBSET Tags) \ {{}}, Subscribe(s, ids)
      PROVE  ValuesInv'
  BY <1>2, SubscribeOneStep
<1>3. ASSUME NEW s \in Subscribers, NEW ids \in SUBSET Tags, NEW cursor \in 0 .. sequence,
             SubscribeValues(s, ids, cursor)
      PROVE  ValuesInv'
  BY <1>3, SubscribeValuesStep
<1>4. ASSUME NEW s \in Subscribers, Receive(s) PROVE ValuesInv'
  BY <1>4, ReceiveStep
<1>5. ASSUME NEW s \in Subscribers, Unsubscribe(s) PROVE ValuesInv'
  BY <1>5, UnsubscribeStep
<1>6. CASE UNCHANGED memoryVars
  <2>1. /\ UNCHANGED <<tagOf, latest, recent, registered, filter, disconnectOnLag>>
        /\ UNCHANGED <<stream, closes, received, since, after>>
    BY <1>6 DEF memoryVars, memoryStore, memorySubs
  <2>2. ASSUME NEW s \in Subscribers PROVE SubscriberOK(s)'
    <3>1. Seen(s)' = Seen(s) /\ (Fresh(s)' <=> Fresh(s)) /\ UNCHANGED memoryStore
      BY <2>1 DEF Seen, Fresh, memoryStore
    <3> QED BY <2>1, <3>1, NothingHappens DEF ValuesInv
  <2>3. MemoryTypeOK' /\ sequence' = sequence
    BY <2>1 DEF ValuesInv, MemoryTypeOK, sequence
  <2> QED BY <2>1, <2>2, <2>3 DEF ValuesInv
<1> QED BY <1>1, <1>2, <1>3, <1>4, <1>5, <1>6 DEF MemoryNext

\* A SubscribeValues reader of the in-memory value store gets its replay and then,
\* without gap or repetition, what Put gives it until it is disconnected, and the
\* view of a connected reader is current, for every buffer size and number of readers.
THEOREM ValuesAreKept == MemorySpec => []ValuesAreWhole
<1>1. MemorySpec => []ValuesInv
  BY ValuesStart, ValuesStep, PTL DEF MemorySpec
<1> QED BY <1>1, ValuesMean, PTL

=============================================================================
