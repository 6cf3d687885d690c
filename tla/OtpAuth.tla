------------------------------- MODULE OtpAuth ------------------------------
(***************************************************************************)
(* AuthService (modules/identity/auth.service.ts) for one phone number:    *)
(* requestOtp and verifyOtp, from the transactions on otp_challenges that  *)
(* a per-phone advisory lock serializes to the session that a right code   *)
(* opens.  Different numbers share nothing but a lock whose hashes         *)
(* collide, which only makes callers wait.                                 *)
(*                                                                         *)
(* The lock is asked for inside the transaction and given back at its end. *)
(* A challenge is dated by the database's now(), which is the time its     *)
(* transaction began: before the lock was waited for.                      *)
(*                                                                         *)
(* A request is a process that makes at most one challenge, whose fresh    *)
(* UUID it names.  A verifier is a process that tries codes one at a time. *)
(***************************************************************************)
EXTENDS Naturals, FiniteSets

CONSTANTS
  Requests,                 \* calls of requestOtp
  Verifiers,                \* callers of verifyOtp
  Codes,
  OTP_TTL, OTP_MAX_ATTEMPTS,
  OTP_REQUEST_WINDOW, OTP_MAX_REQUESTS,
  Patience,                 \* no request's transaction is open for longer
  MaxClock,                 \* bound: time stops here
  None

Callers == Requests \cup Verifiers

ASSUME CallersAssumption == Requests \cap Verifiers = {} /\ None \notin Callers \cup Codes
ASSUME RequestsAssumption == IsFiniteSet(Requests)
ASSUME LimitsAssumption ==
  /\ OTP_TTL \in Nat /\ OTP_MAX_ATTEMPTS \in Nat
  /\ OTP_REQUEST_WINDOW \in Nat /\ OTP_MAX_REQUESTS \in Nat
  /\ MaxClock \in Nat
ASSUME PatienceAssumption == Patience \in 0..OTP_REQUEST_WINDOW

VARIABLES
  clock,
  at,          \* where each caller is
  started,     \* when each request's open transaction began
  guess,       \* the code each verifier tries
  seen,        \* the challenge a verifier read, as it read it
  lock,        \* who holds the advisory lock
  challenge,   \* the otp_challenges table
  user,        \* whether the users row exists
  sessions,    \* history: the sessions opened with each challenge's code
  answers      \* history: how often callers were told right or wrong about it

vars == <<clock, at, started, guess, seen, lock, challenge, user, sessions, answers>>

Challenge == [code : Codes, created : Nat, expires : Nat, attempts : Nat, consumed : BOOLEAN]

ASSUME NoChallengeAssumption == None \notin Challenge \cup [id : Requests, attempts : Nat]

Stages == {"new", "idle", "waiting", "reading", "writing",
           "sending", "adding", "issuing", "done"}

InTransaction(w) == at[w] \in {"waiting", "reading", "writing"}

Locked(w) == at[w] \in {"reading", "writing"}

\* Columns and local variables have their types, and the advisory lock is held
\* by exactly the caller that is past waiting for it.
TypeOK ==
  /\ clock \in Nat
  /\ at \in [Callers -> Stages]
  /\ started \in [Requests -> Nat]
  /\ guess \in [Verifiers -> Codes \cup {None}]
  /\ seen \in [Verifiers -> [id : Requests, attempts : Nat] \cup {None}]
  /\ lock \in Callers \cup {None}
  /\ challenge \in [Requests -> Challenge \cup {None}]
  /\ user \in BOOLEAN
  /\ sessions \in [Requests -> Nat]
  /\ answers \in [Requests -> Nat]
  /\ \A w \in Callers : Locked(w) <=> lock = w

Init ==
  /\ clock = 0
  /\ at = [w \in Callers |-> IF w \in Requests THEN "new" ELSE "idle"]
  /\ started = [r \in Requests |-> 0]
  /\ guess = [v \in Verifiers |-> None]
  /\ seen = [v \in Verifiers |-> None]
  /\ lock = None
  /\ challenge = [r \in Requests |-> None]
  /\ user = FALSE
  /\ sessions = [r \in Requests |-> 0]
  /\ answers = [r \in Requests |-> 0]

-----------------------------------------------------------------------------
(* transactions *)

Go(w, stage) == at' = [at EXCEPT ![w] = stage]

\* w's transaction ends, and the lock with it.
End(w, stage) ==
  /\ Go(w, stage)
  /\ lock' = IF lock = w THEN None ELSE lock
  /\ started' = IF w \in Requests THEN [started EXCEPT ![w] = 0] ELSE started

\* A verifier is done, whatever it was told.
Rest(v) ==
  /\ guess' = [guess EXCEPT ![v] = None]
  /\ seen' = [seen EXCEPT ![v] = None]

\* Slip: the check is not serialized.
TakeLockAnyway(w) ==
  /\ at[w] = "waiting"
  /\ Go(w, "reading")
  /\ lock' = w
  /\ UNCHANGED <<clock, started, guess, seen, challenge, user, sessions, answers>>

\* pg_advisory_xact_lock
TakeLock(w) ==
  /\ at[w] = "waiting"
  /\ lock = None
  /\ Go(w, "reading")
  /\ lock' = w
  /\ UNCHANGED <<clock, started, guess, seen, challenge, user, sessions, answers>>

\* Slip: a session-level lock, which outlives the transaction.
AbandonKeepsLock(w) ==
  /\ InTransaction(w) \/ at[w] \in {"sending", "adding", "issuing"}
  /\ Go(w, IF w \in Requests THEN "done" ELSE "idle")
  /\ IF w \in Verifiers THEN Rest(w) ELSE UNCHANGED <<guess, seen>>
  /\ UNCHANGED <<clock, started, lock, challenge, user, sessions, answers>>

\* The connection or the process goes: nothing that is not committed remains.
Abandon(w) ==
  /\ InTransaction(w) \/ at[w] \in {"sending", "adding", "issuing"}
  /\ End(w, IF w \in Requests THEN "done" ELSE "idle")
  /\ IF w \in Verifiers THEN Rest(w) ELSE UNCHANGED <<guess, seen>>
  /\ UNCHANGED <<clock, challenge, user, sessions, answers>>

-----------------------------------------------------------------------------
(* requestOtp *)

requestOtp(r) ==
  /\ at[r] = "new"
  /\ Go(r, "waiting")
  /\ started' = [started EXCEPT ![r] = clock]
  /\ UNCHANGED <<clock, guess, seen, lock, challenge, user, sessions, answers>>

Made == {r \in Requests : challenge[r] # None}

Recent == {r \in Made : challenge[r].created + OTP_REQUEST_WINDOW >= clock}

\* Slip: one request too many.
CountRecentOff(r) ==
  /\ at[r] = "reading"
  /\ IF Cardinality(Recent) > OTP_MAX_REQUESTS
     THEN End(r, "done")
     ELSE Go(r, "writing") /\ UNCHANGED <<started, lock>>
  /\ UNCHANGED <<clock, guess, seen, challenge, user, sessions, answers>>

CountRecent(r) ==
  /\ at[r] = "reading"
  /\ IF Cardinality(Recent) >= OTP_MAX_REQUESTS
     THEN End(r, "done")
     ELSE Go(r, "writing") /\ UNCHANGED <<started, lock>>
  /\ UNCHANGED <<clock, guess, seen, challenge, user, sessions, answers>>

InsertChallenge(r) ==
  /\ at[r] = "writing"
  /\ \E k \in Codes :
       challenge' = [challenge EXCEPT ![r] =
         [code |-> k, created |-> started[r], expires |-> clock + OTP_TTL,
          attempts |-> 0, consumed |-> FALSE]]
  /\ End(r, "sending")
  /\ UNCHANGED <<clock, guess, seen, user, sessions, answers>>

\* After the commit; whether the message arrives changes nothing here.
SendCode(r) ==
  /\ at[r] = "sending"
  /\ Go(r, "done")
  /\ UNCHANGED <<clock, started, guess, seen, lock, challenge, user, sessions, answers>>

-----------------------------------------------------------------------------
(* verifyOtp *)

verifyOtp(v, code) ==
  /\ at[v] = "idle"
  /\ Go(v, "waiting")
  /\ guess' = [guess EXCEPT ![v] = code]
  /\ UNCHANGED <<clock, started, seen, lock, challenge, user, sessions, answers>>

\* Slip: consumed challenges are not filtered out.
ConsumedToo == Made

Unconsumed == {r \in Made : ~challenge[r].consumed}

\* The latest by creation time; any of those that were created at once.
Newest == {r \in Unconsumed :
             \A q \in Unconsumed : challenge[q].created <= challenge[r].created}

Expired(r) == challenge[r].expires <= clock

\* no_code and locked end the transaction here.
ReadChallenge(v) ==
  /\ at[v] = "reading"
  /\ \/ /\ \/ Newest = {}
           \/ \E r \in Newest : Expired(r) \/ challenge[r].attempts >= OTP_MAX_ATTEMPTS
        /\ End(v, "idle")
        /\ Rest(v)
     \/ /\ \E r \in Newest :
             /\ ~Expired(r) /\ challenge[r].attempts < OTP_MAX_ATTEMPTS
             /\ seen' = [seen EXCEPT ![v] = [id |-> r, attempts |-> challenge[r].attempts]]
        /\ Go(v, "writing")
        /\ UNCHANGED <<started, guess, lock>>
  /\ UNCHANGED <<clock, challenge, user, sessions, answers>>

\* The attempt is counted, and the challenge consumed if the code is right;
\* both commit before the caller is told.
CountAttempt(v) ==
  LET r == seen[v].id
      right == guess[v] = challenge[r].code IN
  /\ at[v] = "writing"
  /\ challenge' = [challenge EXCEPT ![r].attempts = seen[v].attempts + 1,
                                    ![r].consumed = @ \/ right]
  /\ answers' = [answers EXCEPT ![r] = @ + 1]
  /\ IF right
     THEN End(v, "adding") /\ UNCHANGED <<guess, seen>>
     ELSE End(v, "idle") /\ Rest(v)
  /\ UNCHANGED <<clock, user, sessions>>

\* INSERT ... ON CONFLICT DO UPDATE, a commit of its own.
AddUser(v) ==
  /\ at[v] = "adding"
  /\ Go(v, "issuing")
  /\ user' = TRUE
  /\ UNCHANGED <<clock, started, guess, seen, lock, challenge, sessions, answers>>

IssueSession(v) ==
  /\ at[v] = "issuing"
  /\ sessions' = [sessions EXCEPT ![seen[v].id] = @ + 1]
  /\ Go(v, "idle")
  /\ Rest(v)
  /\ UNCHANGED <<clock, started, lock, challenge, user, answers>>

-----------------------------------------------------------------------------
Tick ==
  /\ clock < MaxClock
  /\ \A r \in Requests : InTransaction(r) => clock < started[r] + Patience
  /\ clock' = clock + 1
  /\ UNCHANGED <<at, started, guess, seen, lock, challenge, user, sessions, answers>>

RequestNext(r) ==
  requestOtp(r) \/ CountRecent(r) \/ InsertChallenge(r) \/ SendCode(r)

VerifierNext(v) ==
  \/ \E code \in Codes : verifyOtp(v, code)
  \/ ReadChallenge(v)
  \/ CountAttempt(v)
  \/ AddUser(v)
  \/ IssueSession(v)

Next ==
  \/ \E r \in Requests : RequestNext(r)
  \/ \E v \in Verifiers : VerifierNext(v)
  \/ \E w \in Callers : TakeLock(w)
  \/ \E w \in Callers : Abandon(w)
  \/ Tick

Spec == Init /\ [][Next]_vars

\* The database answers, and hands the lock to its waiters in turn.  Nobody has
\* to call, and time need not pass.
Fairness ==
  /\ \A w \in Callers : SF_vars(TakeLock(w))
  /\ \A r \in Requests : WF_vars(CountRecent(r) \/ InsertChallenge(r) \/ SendCode(r))
  /\ \A v \in Verifiers :
       WF_vars(ReadChallenge(v) \/ CountAttempt(v) \/ AddUser(v) \/ IssueSession(v))

FairSpec == Spec /\ Fairness

-----------------------------------------------------------------------------
(* properties *)

\* "OTP codes are single-use", "a session is issued only after a verified OTP":
\* verifiers that race with one code open one session between them, and a code
\* that opened one is consumed (verifyOtp, whose session insert is outside the
\* locked transaction).
CodesOpenOneSession ==
  \A r \in Requests : sessions[r] > 0 =>
    sessions[r] = 1 /\ r \in Made /\ challenge[r].consumed

\* "OTP codes lock after too many attempts": whoever guesses at once, callers
\* learn no more than OTP_MAX_ATTEMPTS answers about one code, and every answer
\* has been counted in the row.
GuessesCapped ==
  \A r \in Made :
    answers[r] = challenge[r].attempts /\ answers[r] <= OTP_MAX_ATTEMPTS

\* "The window cap actually holds under concurrency": no window has more than
\* OTP_MAX_REQUESTS challenges.  A challenge is dated when its transaction began
\* and counted when it got the lock, so the window that is protected is shorter
\* by the time a transaction may last.
RequestsCapped ==
  \A first \in Made :
    Cardinality({r \in Made :
        /\ challenge[first].created <= challenge[r].created
        /\ challenge[r].created + Patience <= challenge[first].created + OTP_REQUEST_WINDOW})
      <= OTP_MAX_REQUESTS

\* Every call ends: the lock always comes back.  (That a busy caller ends is the
\* same as that it is again and again not busy.)
Busy(w) == InTransaction(w) \/ at[w] \in {"sending", "adding", "issuing"}

CallsEnd == \A w \in Callers : []<>~Busy(w)

=============================================================================
