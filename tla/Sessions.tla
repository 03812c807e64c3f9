------------------------------ MODULE Sessions ------------------------------
(***************************************************************************)
(* Web sessions: Login, Authenticate and Logout of                         *)
(* internal/modules/auth/service.go over the rows of web_sessions, called  *)
(* by the tabs of one browser, which share its cookie.  A call is two      *)
(* steps: the row is read, or the clock, and then used.                    *)
(***************************************************************************)
EXTENDS Naturals

CONSTANTS
  Tabs,          (* the requests a browser may have under way              *)
  Tokens,        (* the tokens that logins draw, each one once             *)
  NoToken,
  SessionTTL,
  MaxMinute      (* bound of the clock                                     *)

ASSUME SessionAssumption ==
  /\ NoToken \notin Tokens /\ SessionTTL \in Nat \ {0} /\ MaxMinute \in Nat

Unrevoked == MaxMinute + 1
SessionRow == [expires : Nat, revoked : 0 .. Unrevoked]
NoRow == [expires |-> 0, revoked |-> Unrevoked]

VARIABLES
  minute,      (* the clock                                                *)
  sessions,    (* web_sessions, by token                                   *)
  cookie,      (* the browser's session cookie                             *)
  tab,         (* the request of each tab                                  *)
  farewells    (* the tokens whose logout was answered: history            *)

sessionVars == <<minute, sessions, cookie, tab, farewells>>

(* lived and died are history: whether the session of the request was      *)
(* valid, and whether it was not, at some moment since the request began.  *)
Request == [step : {"idle", "login", "me", "bye"}, token : Tokens \cup {NoToken},
            read : BOOLEAN, row : SessionRow \cup {NoRow},
            answer : {"none", "user", "unauthenticated"},
            lived : BOOLEAN, died : BOOLEAN]

SessionTypeOK ==
  /\ minute \in 0 .. MaxMinute
  /\ sessions \in [Tokens -> SessionRow \cup {NoRow}]
  /\ cookie \in Tokens \cup {NoToken}
  /\ tab \in [Tabs -> Request]
  /\ farewells \subseteq Tokens

Exists(t) == t \in Tokens /\ sessions[t] # NoRow

ValidIn(rows, now, t) ==
  t \in Tokens /\ rows[t].revoked = Unrevoked /\ now < rows[t].expires

Valid(t) == ValidIn(sessions, minute, t)

Quiet == [step |-> "idle", token |-> NoToken, read |-> FALSE, row |-> NoRow,
          answer |-> "none", lived |-> FALSE, died |-> FALSE]

SessionInit ==
  /\ minute = 0
  /\ sessions = [t \in Tokens |-> NoRow]
  /\ cookie = NoToken /\ farewells = {}
  /\ tab = [c \in Tabs |-> Quiet]

(* The history of every request goes on as the clock and the rows change.  *)
Watched(rows, now) ==
  [c \in Tabs |-> LET valid == ValidIn(rows, now, tab[c].token) IN
                  [tab[c] EXCEPT !.lived = @ \/ valid, !.died = @ \/ ~valid]]

BeginCall(c, step) ==
  /\ tab[c].step = "idle"
  /\ tab' = [tab EXCEPT ![c] =
               [Quiet EXCEPT !.step = step, !.token = cookie,
                             !.lived = Valid(cookie), !.died = ~Valid(cookie)]]
  /\ UNCHANGED <<minute, sessions, cookie, farewells>>

(* Login, once the password is verified: the expiry is counted from the    *)
(* clock, the row is inserted, and the answer sets the cookie.             *)
DrawToken(c, t) ==
  /\ tab[c].step = "login" /\ ~tab[c].read
  /\ ~Exists(t) /\ \A d \in Tabs : tab[d].token # t
  /\ tab' = [tab EXCEPT ![c] =
               [@ EXCEPT !.read = TRUE, !.token = t,
                         !.row = [expires |-> minute + SessionTTL, revoked |-> Unrevoked]]]
  /\ UNCHANGED <<minute, sessions, cookie, farewells>>

CreateSession(c) ==
  /\ tab[c].step = "login" /\ tab[c].read
  /\ sessions' = [sessions EXCEPT ![tab[c].token] = tab[c].row]
  /\ cookie' \in {cookie, tab[c].token}     (* the answer may be lost *)
  /\ tab' = [tab EXCEPT ![c] = Quiet]
  /\ UNCHANGED <<minute, farewells>>

(* A wrong password, or a query that fails: the cookie stays as it is.     *)
CallFails(c) ==
  /\ tab[c].step # "idle" /\ tab[c].answer = "none"
  /\ tab' = [tab EXCEPT ![c] = Quiet]
  /\ UNCHANGED <<minute, sessions, cookie, farewells>>

(* SessionByTokenDigest.                                                   *)
FindSession(c) ==
  /\ tab[c].step \in {"me", "bye"} /\ tab[c].answer = "none" /\ ~tab[c].read
  /\ tab' = [tab EXCEPT ![c] =
               [@ EXCEPT !.read = TRUE,
                         !.row = IF Exists(tab[c].token) THEN sessions[tab[c].token]
                                                         ELSE NoRow]]
  /\ UNCHANGED <<minute, sessions, cookie, farewells>>

(* Variant: one of the two ways a session ends is forgotten.               *)
LiveUnlessRevoked(row) == row # NoRow /\ row.revoked = Unrevoked

Live(row) == row # NoRow /\ row.revoked = Unrevoked /\ minute < row.expires

Authenticate(c) ==
  /\ tab[c].step = "me" /\ tab[c].answer = "none" /\ tab[c].read
  /\ tab' = [tab EXCEPT ![c].answer =
               IF Live(tab[c].row) THEN "user" ELSE "unauthenticated"]
  /\ UNCHANGED <<minute, sessions, cookie, farewells>>

MeAnswered(c) ==
  /\ tab[c].step = "me" /\ tab[c].answer # "none"
  /\ tab' = [tab EXCEPT ![c] = Quiet]
  /\ UNCHANGED <<minute, sessions, cookie, farewells>>

(* Logout: a row not revoked yet is revoked, at the clock's time; the      *)
(* answer clears the cookie.                                               *)
NotYetRevoked(t) == sessions[t].revoked = Unrevoked

Logout(c) ==
  LET t == tab[c].token IN
  /\ tab[c].step = "bye" /\ tab[c].read /\ tab[c].answer = "none"
  /\ sessions' = IF tab[c].row # NoRow /\ NotYetRevoked(t)
                 THEN [sessions EXCEPT ![t].revoked = minute] ELSE sessions
  /\ tab' = [Watched(sessions', minute) EXCEPT ![c].answer = "unauthenticated"]
  /\ UNCHANGED <<minute, cookie, farewells>>

LogoutAnswered(c) ==
  /\ tab[c].step = "bye" /\ tab[c].answer # "none"
  /\ cookie' = NoToken
  /\ farewells' = farewells \cup ({tab[c].token} \cap Tokens)
  /\ tab' = [tab EXCEPT ![c] = Quiet]
  /\ UNCHANGED <<minute, sessions>>

Minute ==
  /\ minute < MaxMinute
  /\ minute' = minute + 1
  /\ tab' = Watched(sessions, minute')
  /\ UNCHANGED <<sessions, cookie, farewells>>

SessionNext ==
  \/ \E c \in Tabs :
       \/ \E s \in {"login", "me", "bye"} : BeginCall(c, s)
       \/ \E t \in Tokens : DrawToken(c, t)
       \/ CreateSession(c) \/ CallFails(c) \/ FindSession(c)
       \/ Authenticate(c) \/ MeAnswered(c) \/ Logout(c) \/ LogoutAnswered(c)
  \/ Minute

SessionSpec == SessionInit /\ [][SessionNext]_sessionVars

(* A request is answered with the user only if its session was valid at    *)
(* some moment since it began, and refused only if it was not; and a       *)
(* session whose logout was answered never comes back, whatever request    *)
(* had read its row before.                                                *)
AuthenticatedTruly ==
  /\ \A c \in Tabs : tab[c].step = "me" =>
       /\ tab[c].answer = "user" => tab[c].lived
       /\ tab[c].answer = "unauthenticated" => tab[c].died
  /\ \A t \in farewells : ~Valid(t)
=============================================================================
