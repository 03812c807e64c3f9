----------------------------- MODULE LoginLimit -----------------------------
(***************************************************************************)
(* Admission of password attempts: MemoryLoginLimiter                      *)
(* (internal/modules/auth/limiter.go) and the password slots of            *)
(* AuthenticatePasswordAttempt (service.go), which web logins and Registry *)
(* token requests share.  An attempt reads the clock before it has the     *)
(* limiter's mutex, so that it may decide with a time that has passed.     *)
(***************************************************************************)
EXTENDS Naturals, FiniteSets, Functions

CONSTANTS
  Attempts,           (* the requests under way at a time                  *)
  UserNames, Origins,  (* the two kinds of bucket: user names, client keys  *)
  LimitWindow, PerAccount, PerOrigin, MaxBuckets, PasswordSlots,
  MaxDelay,           (* seconds between the clock read and the mutex      *)
  MaxSecond           (* bound of the clock                                *)

ASSUME LimitAssumption ==
  /\ UserNames # {} /\ Origins # {} /\ UserNames \cap Origins = {}
  /\ {LimitWindow, PerAccount, PerOrigin, PasswordSlots} \subseteq Nat \ {0}
  /\ MaxBuckets \in Nat /\ MaxBuckets >= 2
  /\ MaxDelay \in Nat /\ 2 * MaxDelay <= LimitWindow
  /\ MaxSecond \in Nat

Buckets == UserNames \cup Origins
Limit(b) == IF b \in UserNames THEN PerAccount ELSE PerOrigin

VARIABLES
  second,      (* the clock                                                *)
  entries,     (* bucket -> when its window started, and its attempts      *)
  attempt,     (* the state of each attempt                                *)
  recent       (* by bucket and age: how many were admitted in this second *)
               (* and so many before it; an account's since its last       *)
               (* success.  History.                                       *)

limitVars == <<second, entries, attempt, recent>>

Ages == 0 .. LimitWindow - 1

LimitTypeOK ==
  /\ second \in 0 .. MaxSecond
  /\ DOMAIN entries \subseteq Buckets
  /\ \A b \in DOMAIN entries :
       entries[b] \in [started : 0 .. MaxSecond, attempts : 1 .. Limit(b)]
  /\ attempt \in [Attempts -> [step : {"idle", "clocked", "slot", "verify"},
                               account : UserNames, origin : Origins,
                               now : 0 .. MaxSecond]]
  /\ recent \in [Buckets -> [Ages -> Nat]]

Unstarted == [step |-> "idle", account |-> CHOOSE a \in UserNames : TRUE,
              origin |-> CHOOSE o \in Origins : TRUE, now |-> 0]

LimitInit ==
  /\ second = 0
  /\ entries = [b \in {} |-> 0]
  /\ attempt = [p \in Attempts |-> Unstarted]
  /\ recent = [b \in Buckets |-> [a \in Ages |-> 0]]

Arrive(p, a, o) ==
  /\ attempt[p].step = "idle"
  /\ attempt' = [attempt EXCEPT ![p] = [step |-> "clocked", account |-> a,
                                        origin |-> o, now |-> second]]
  /\ UNCHANGED <<second, entries, recent>>

Over(b, now) == now >= entries[b].started + LimitWindow
Without(bs) == Restrict(entries, DOMAIN entries \ bs)

(* Allow, under the mutex.  The loop stops at the first bucket that is at  *)
(* its limit, and has by then removed its own and earlier expired ones.    *)
Spent(b, now) == b \in DOMAIN entries /\ ~Over(b, now) /\ entries[b].attempts >= Limit(b)

Examined(p) ==
  LET r == attempt[p] IN
  IF Spent(r.account, r.now) THEN {} ELSE {r.account, r.origin}

AfterLoop(p) == Without({b \in Examined(p) \cap DOMAIN entries : Over(b, attempt[p].now)})

Overdue(now) == {b \in DOMAIN entries : Over(b, now)}

(* Variant: the sweep does not have to make room.                          *)
FitsOnce(p, table) == Cardinality(DOMAIN table) <= MaxBuckets

Fits(p, table) ==
  Cardinality(DOMAIN table \cup {attempt[p].account, attempt[p].origin}) <= MaxBuckets

Counted(p, table) ==
  LET r == attempt[p]
      keys == {r.account, r.origin} IN
  [b \in DOMAIN table \cup keys |->
     IF b \notin keys THEN table[b]
     ELSE IF b \in DOMAIN table THEN [table[b] EXCEPT !.attempts = @ + 1]
     ELSE [started |-> r.now, attempts |-> 1]]

Refuse(p, table) ==
  /\ entries' = table
  /\ attempt' = [attempt EXCEPT ![p] = Unstarted]
  /\ UNCHANGED <<second, recent>>

Allow(p) ==
  LET r == attempt[p]
      swept == Without(Overdue(r.now))
      table == IF Fits(p, AfterLoop(p)) THEN AfterLoop(p) ELSE swept IN
  /\ r.step = "clocked"
  /\ IF Spent(r.account, r.now) \/ Spent(r.origin, r.now)
     THEN Refuse(p, AfterLoop(p))
     ELSE IF ~Fits(p, table) THEN Refuse(p, swept)
     ELSE /\ entries' = Counted(p, table)
          /\ attempt' = [attempt EXCEPT ![p].step = "slot"]
          /\ recent' = [b \in Buckets |->
               IF b \in {r.account, r.origin} THEN [a \in Ages |-> recent[b][a] + 1]
                                              ELSE recent[b]]
          /\ UNCHANGED second

(* A slot is taken if one is free, and the attempt refused otherwise.      *)
Verifying == {p \in Attempts : attempt[p].step = "verify"}

TakeSlot(p) ==
  /\ attempt[p].step = "slot"
  /\ attempt' = IF Cardinality(Verifying) < PasswordSlots
                THEN [attempt EXCEPT ![p].step = "verify"]
                ELSE [attempt EXCEPT ![p] = Unstarted]
  /\ UNCHANGED <<second, entries, recent>>

WrongPassword(p) ==
  /\ attempt[p].step = "verify"
  /\ attempt' = [attempt EXCEPT ![p] = Unstarted]
  /\ UNCHANGED <<second, entries, recent>>

(* Variant: a success forgives the client too.                             *)
ClearedBoth(p) == {attempt[p].account, attempt[p].origin}

(* Succeeded: the account's bucket is cleared, the client's stays.         *)
Cleared(p) == {attempt[p].account}

RightPassword(p) ==
  /\ attempt[p].step = "verify"
  /\ entries' = Without(Cleared(p))
  /\ attempt' = [attempt EXCEPT ![p] = Unstarted]
  /\ recent' = [recent EXCEPT ![attempt[p].account] = [a \in Ages |-> 0]]
  /\ UNCHANGED second

Second ==
  /\ second < MaxSecond
  /\ \A p \in Attempts :
       attempt[p].step = "clocked" => second < attempt[p].now + MaxDelay
  /\ second' = second + 1
  /\ recent' = [b \in Buckets |-> [a \in Ages |-> IF a = 0 THEN 0 ELSE recent[b][a - 1]]]
  /\ UNCHANGED <<entries, attempt>>

LimitNext ==
  \/ \E p \in Attempts :
       \/ \E a \in UserNames, o \in Origins : Arrive(p, a, o)
       \/ Allow(p) \/ TakeSlot(p) \/ WrongPassword(p) \/ RightPassword(p)
  \/ Second

LimitSpec == LimitInit /\ [][LimitNext]_limitVars

(* The table never outgrows its limit, whatever names are tried.           *)
TableBounded == Cardinality(DOMAIN entries) <= MaxBuckets

(* Windows are fixed, not sliding; one may start with a time that has      *)
(* passed, after a sweep by a later attempt has removed its predecessor.   *)
(* Still no client gets three times its limit into any LimitWindow         *)
(* seconds, however often it succeeds, and no account since its last       *)
(* success.                                                                *)
AttemptsBounded ==
  \A b \in Buckets : recent[b][LimitWindow - 1] < 3 * Limit(b)

(* Both limits hold, the one on memory and the one on guesses. *)
LimitsHold == TableBounded /\ AttemptsBounded
=============================================================================
