---------------------------- MODULE OtpAuthProofs ---------------------------
(***************************************************************************)
(* Theorems about OtpAuth, for any numbers of requests, verifiers and      *)
(* codes and any limits.                                                   *)
(***************************************************************************)
EXTENDS OtpAuth, FiniteSetTheorems, TLAPS

Opening(v) == at[v] \in {"adding", "issuing"}

\* Where requests and verifiers may be; a challenge is there once its request
\* is past the insert.
StagesFit ==
  /\ \A r \in Requests : at[r] \in {"new", "waiting", "reading", "writing", "sending", "done"}
  /\ \A v \in Verifiers :
       at[v] \in {"idle", "waiting", "reading", "writing", "adding", "issuing"}
  /\ \A r \in Made : at[r] \in {"sending", "done"}

\* What a verifier is about to write rests on the row as it is.
ReadsAreCurrent ==
  \A v \in Verifiers : at[v] = "writing" =>
    /\ seen[v] # None
    /\ seen[v].id \in Made
    /\ ~challenge[seen[v].id].consumed
    /\ challenge[seen[v].id].attempts = seen[v].attempts
    /\ seen[v].attempts < OTP_MAX_ATTEMPTS

\* A verifier on its way to a session is the only one with that challenge,
\* which is consumed and has opened none.
OpeningsAreExclusive ==
  /\ \A v \in Verifiers : Opening(v) =>
       /\ seen[v] # None
       /\ seen[v].id \in Made
       /\ challenge[seen[v].id].consumed
       /\ sessions[seen[v].id] = 0
  /\ \A v, u \in Verifiers :
       Opening(v) /\ Opening(u) /\ v # u => seen[v].id # seen[u].id

SessionInv == TypeOK /\ StagesFit /\ ReadsAreCurrent /\ OpeningsAreExclusive
              /\ CodesOpenOneSession

-----------------------------------------------------------------------------
LEMMA CallersApart ==
  /\ \A r \in Requests : r \in Callers /\ r \notin Verifiers
  /\ \A v \in Verifiers : v \in Callers /\ v \notin Requests
  BY CallersAssumption DEF Callers

\* The lock and the stages of its callers fit each other.
LockFits ==
  /\ at \in [Callers -> Stages]
  /\ lock \in Callers \cup {None}
  /\ \A w \in Callers : Locked(w) <=> lock = w

LEMMA TypedLockFits == TypeOK => LockFits
  BY DEF TypeOK, LockFits

\* A caller moves without touching the lock.
LEMMA GoKeepsLock ==
  ASSUME LockFits, NEW w \in Callers, NEW stage \in Stages, Go(w, stage), lock' = lock,
         Locked(w) <=> stage \in {"reading", "writing"}
  PROVE  LockFits'
  BY DEF LockFits, Go, Locked

\* A transaction ends.
LEMMA EndKeepsLock ==
  ASSUME LockFits, NEW w \in Callers, NEW stage \in Stages \ {"reading", "writing"},
         End(w, stage)
  PROVE  LockFits'
  <1>1. Go(w, stage) /\ lock' = IF lock = w THEN None ELSE lock
    BY DEF End
  <1>2. at' \in [Callers -> Stages] /\ lock' \in Callers \cup {None}
    BY <1>1 DEF Go, LockFits
  <1>3. \A x \in Callers : Locked(x)' <=> lock' = x
    <2>. SUFFICES ASSUME NEW x \in Callers PROVE Locked(x)' <=> lock' = x
      OBVIOUS
    <2>1. CASE x = w
      BY <1>1, <2>1, CallersAssumption DEF Go, LockFits, Locked
    <2>2. CASE x # w
      BY <1>1, <2>2, CallersAssumption DEF Go, LockFits, Locked
    <2>. QED
      BY <2>1, <2>2
  <1>. QED
    BY <1>2, <1>3 DEF LockFits

\* Nothing is written, and every verifier stays or goes where it claims nothing.
LEMMA QuietSteps ==
  ASSUME ReadsAreCurrent, OpeningsAreExclusive, CodesOpenOneSession,
         UNCHANGED <<challenge, sessions>>,
         \A v \in Verifiers : \/ at'[v] = at[v] /\ seen'[v] = seen[v]
                              \/ at'[v] \in {"idle", "waiting", "reading"}
  PROVE  ReadsAreCurrent' /\ OpeningsAreExclusive' /\ CodesOpenOneSession'
  <1>1. Made' = Made
    BY DEF Made
  <1>2. ReadsAreCurrent'
    BY <1>1 DEF ReadsAreCurrent
  <1>3. OpeningsAreExclusive'
    BY <1>1 DEF OpeningsAreExclusive, Opening
  <1>. QED
    BY <1>1, <1>2, <1>3 DEF CodesOpenOneSession

LEMMA InitSessionInv == Init => SessionInv
  <1>. SUFFICES ASSUME Init PROVE SessionInv
    OBVIOUS
  <1>. USE DEF Init
  <1>1. TypeOK
    BY CallersAssumption DEF TypeOK, Stages, Locked, Callers
  <1>2. Made = {}
    BY DEF Made
  <1>3. StagesFit /\ ReadsAreCurrent /\ OpeningsAreExclusive /\ CodesOpenOneSession
    BY <1>2, CallersAssumption
    DEF StagesFit, ReadsAreCurrent, OpeningsAreExclusive, Opening, CodesOpenOneSession, Callers
  <1>. QED
    BY <1>1, <1>3 DEF SessionInv

\* A request in no way disturbs the verifiers: its challenge is a new one.
LEMMA RequestKeepsSessionInv ==
  ASSUME SessionInv, NEW r \in Requests, RequestNext(r)
  PROVE  SessionInv'
  <1>. USE CallersApart DEF SessionInv
  <1>1. CASE requestOtp(r)
    <2>1. LockFits'
      BY <1>1, TypedLockFits, GoKeepsLock DEF requestOtp, Stages, Locked
    <2>2. TypeOK' /\ StagesFit'
      BY <1>1, <2>1 DEF requestOtp, Go, TypeOK, LockFits, StagesFit, Made
    <2>3. \A v \in Verifiers : at'[v] = at[v] /\ seen'[v] = seen[v]
      BY <1>1 DEF requestOtp, Go, TypeOK
    <2>4. UNCHANGED <<challenge, sessions>>
      BY <1>1 DEF requestOtp
    <2>. QED
      BY <2>2, <2>3, <2>4, QuietSteps
  <1>2. CASE CountRecent(r)
    <2>1. LockFits'
      BY <1>2, TypedLockFits, GoKeepsLock, EndKeepsLock DEF CountRecent, Stages, Locked
    <2>2. TypeOK' /\ StagesFit'
      BY <1>2, <2>1 DEF CountRecent, Go, TypeOK, LockFits, StagesFit, Made, End
    <2>3. \A v \in Verifiers : at'[v] = at[v] /\ seen'[v] = seen[v]
      BY <1>2 DEF CountRecent, Go, TypeOK, End
    <2>4. UNCHANGED <<challenge, sessions>>
      BY <1>2 DEF CountRecent
    <2>. QED
      BY <2>2, <2>3, <2>4, QuietSteps
  <1>3. CASE InsertChallenge(r)
    <2>1. PICK k \in Codes :
            challenge' = [challenge EXCEPT ![r] =
              [code |-> k, created |-> started[r], expires |-> clock + OTP_TTL,
               attempts |-> 0, consumed |-> FALSE]]
      BY <1>3 DEF InsertChallenge
    <2>2. challenge'[r] \in Challenge /\ challenge'[r] # None
      <3>1. started[r] \in Nat /\ clock + OTP_TTL \in Nat
        BY LimitsAssumption DEF TypeOK
      <3>2. [code |-> k, created |-> started[r], expires |-> clock + OTP_TTL,
             attempts |-> 0, consumed |-> FALSE] \in Challenge
        BY <3>1 DEF Challenge
      <3>. QED
        BY <2>1, <3>2, NoChallengeAssumption DEF TypeOK
    <2>3. r \notin Made /\ Made' = Made \cup {r}
      BY <1>3, <2>1, <2>2 DEF InsertChallenge, StagesFit, Made, TypeOK
    <2>4. \A q \in Made : challenge'[q] = challenge[q]
      BY <2>1, <2>3 DEF TypeOK, Made
    <2>5. TypeOK'
      <3>1. challenge' \in [Requests -> Challenge \cup {None}]
        BY <2>1, <2>2 DEF TypeOK
      <3>2. started' \in [Requests -> Nat] /\ at' \in [Callers -> Stages]
        BY <1>3 DEF InsertChallenge, End, Go, TypeOK, Stages
      <3>3. \A w \in Callers : Locked(w)' <=> lock' = w
        BY <1>3, CallersAssumption DEF InsertChallenge, End, Go, TypeOK, Locked
      <3>4. lock' \in Callers \cup {None}
        BY <1>3 DEF InsertChallenge, End, TypeOK
      <3>. QED
        BY <1>3, <3>1, <3>2, <3>3, <3>4 DEF InsertChallenge, TypeOK
    <2>6. StagesFit'
      BY <1>3, <2>3 DEF InsertChallenge, End, Go, StagesFit, TypeOK
    <2>7. \A v \in Verifiers : at'[v] = at[v] /\ seen'[v] = seen[v]
      BY <1>3 DEF InsertChallenge, End, Go, TypeOK
    <2>8. ReadsAreCurrent'
      BY <2>3, <2>4, <2>7 DEF ReadsAreCurrent
    <2>9. sessions' = sessions
      BY <1>3 DEF InsertChallenge
    <2>10. OpeningsAreExclusive'
      BY <2>3, <2>4, <2>7, <2>9 DEF OpeningsAreExclusive, Opening
    <2>11. CodesOpenOneSession'
      BY <2>3, <2>4, <2>9 DEF CodesOpenOneSession
    <2>. QED
      BY <2>5, <2>6, <2>8, <2>10, <2>11
  <1>4. CASE SendCode(r)
    <2>1. LockFits'
      BY <1>4, TypedLockFits, GoKeepsLock DEF SendCode, Stages, Locked
    <2>2. TypeOK' /\ StagesFit'
      BY <1>4, <2>1 DEF SendCode, Go, TypeOK, LockFits, StagesFit, Made
    <2>3. \A v \in Verifiers : at'[v] = at[v] /\ seen'[v] = seen[v]
      BY <1>4 DEF SendCode, Go, TypeOK
    <2>4. UNCHANGED <<challenge, sessions>>
      BY <1>4 DEF SendCode
    <2>. QED
      BY <2>2, <2>3, <2>4, QuietSteps
  <1>. QED
    BY <1>1, <1>2, <1>3, <1>4 DEF RequestNext

-----------------------------------------------------------------------------
LEMMA VerifierKeepsSessionInv ==
  ASSUME SessionInv, NEW v \in Verifiers, VerifierNext(v)
  PROVE  SessionInv'
  <1>. USE CallersApart DEF SessionInv
  <1>1. ASSUME NEW code \in Codes, verifyOtp(v, code)
        PROVE  SessionInv'
    <2>1. LockFits'
      BY <1>1, TypedLockFits, GoKeepsLock DEF verifyOtp, Stages, Locked
    <2>2. TypeOK' /\ StagesFit'
      BY <1>1, <2>1 DEF verifyOtp, Go, TypeOK, LockFits, StagesFit, Made
    <2>3. \A u \in Verifiers : \/ at'[u] = at[u] /\ seen'[u] = seen[u]
                              \/ at'[u] \in {"idle", "waiting", "reading"}
      BY <1>1 DEF verifyOtp, Go, TypeOK
    <2>4. UNCHANGED <<challenge, sessions>>
      BY <1>1 DEF verifyOtp
    <2>. QED
      BY <2>2, <2>3, <2>4, QuietSteps
  <1>2. CASE ReadChallenge(v)
    <2>1. CASE End(v, "idle") /\ Rest(v)
      <3>1. LockFits'
        BY <2>1, TypedLockFits, EndKeepsLock DEF Stages
      <3>2. TypeOK' /\ StagesFit'
        BY <1>2, <2>1, <3>1 DEF ReadChallenge, End, Rest, Go, TypeOK, LockFits, StagesFit, Made
      <3>3. \A u \in Verifiers : \/ at'[u] = at[u] /\ seen'[u] = seen[u]
                                \/ at'[u] \in {"idle", "waiting", "reading"}
        BY <2>1 DEF End, Go, Rest, TypeOK
      <3>4. UNCHANGED <<challenge, sessions>>
        BY <1>2 DEF ReadChallenge
      <3>. QED
        BY <3>2, <3>3, <3>4, QuietSteps
    <2>2. ASSUME NEW r \in Newest, ~Expired(r), challenge[r].attempts < OTP_MAX_ATTEMPTS,
                 seen' = [seen EXCEPT ![v] = [id |-> r, attempts |-> challenge[r].attempts]],
                 Go(v, "writing"), UNCHANGED <<started, guess, lock>>
          PROVE  SessionInv'
      <3>1. r \in Made /\ ~challenge[r].consumed /\ challenge[r] \in Challenge
        BY <2>2 DEF Newest, Unconsumed, Made, TypeOK
      <3>2. [id |-> r, attempts |-> challenge[r].attempts] \in [id : Requests, attempts : Nat]
        BY <3>1 DEF Made, Challenge
      <3>3. UNCHANGED <<clock, started, guess, lock, challenge, user, sessions, answers>>
        BY <1>2, <2>2 DEF ReadChallenge
      <3>4. TypeOK'
        BY <1>2, <2>2, <3>2, <3>3 DEF ReadChallenge, Go, TypeOK, Stages, Locked
      <3>5. StagesFit' /\ CodesOpenOneSession'
        BY <2>2, <3>3 DEF Go, TypeOK, StagesFit, Made, CodesOpenOneSession
      <3>6. ReadsAreCurrent'
        BY <2>2, <3>1, <3>2, <3>3, NoChallengeAssumption DEF Go, TypeOK, ReadsAreCurrent, Made
      <3>7. OpeningsAreExclusive'
        BY <2>2, <3>3 DEF Go, TypeOK, OpeningsAreExclusive, Opening, Made
      <3>. QED
        BY <3>4, <3>5, <3>6, <3>7
    <2>. QED
      BY <1>2, <2>1, <2>2 DEF ReadChallenge
  <1>3. CASE CountAttempt(v)
    <2>. DEFINE r == seen[v].id
                right == guess[v] = challenge[r].code
    <2>1. /\ seen[v] # None /\ r \in Made /\ ~challenge[r].consumed
          /\ challenge[r].attempts = seen[v].attempts
          /\ seen[v].attempts < OTP_MAX_ATTEMPTS
      BY <1>3 DEF CountAttempt, ReadsAreCurrent
    <2>2. r \in Requests /\ challenge[r] \in Challenge /\ seen[v].attempts \in Nat
      BY <2>1 DEF Made, TypeOK
    <2>. HIDE DEF r
    <2>3. challenge' = [challenge EXCEPT ![r] =
                          [challenge[r] EXCEPT !.attempts = seen[v].attempts + 1,
                                               !.consumed = @ \/ right]]
      BY <1>3, <2>2 DEF CountAttempt, TypeOK, r
    <2>4. /\ challenge'[r] \in Challenge /\ challenge'[r] # None
          /\ challenge'[r].consumed <=> right
      <3>1. right \in BOOLEAN /\ seen[v].attempts + 1 \in Nat
        BY <2>2
      <3>. HIDE DEF right
      <3>2. challenge'[r] = [challenge[r] EXCEPT !.attempts = seen[v].attempts + 1,
                                                 !.consumed = challenge[r].consumed \/ right]
        BY <2>2, <2>3 DEF TypeOK
      <3>3. challenge[r].consumed \/ right <=> right
        BY <2>1
      <3>4. challenge'[r] \in Challenge
        BY <3>1, <3>2, <2>2 DEF Challenge
      <3>5. challenge'[r].consumed <=> right
        BY <3>2, <3>3, <2>2 DEF Challenge
      <3>. QED
        BY <3>4, <3>5, NoChallengeAssumption
    <2>5. Made' = Made /\ \A q \in Made \ {r} : challenge'[q] = challenge[q]
      BY <2>1, <2>2, <2>3, <2>4 DEF Made, TypeOK
    <2>6. /\ at' = [at EXCEPT ![v] = IF right THEN "adding" ELSE "idle"]
          /\ UNCHANGED <<clock, user, sessions>>
      BY <1>3 DEF CountAttempt, End, Go, r
    <2>7. /\ \A u \in Verifiers \ {v} : seen'[u] = seen[u] /\ guess'[u] = guess[u]
          /\ seen'[v] = IF right THEN seen[v] ELSE None
      BY <1>3 DEF CountAttempt, Rest, TypeOK, r
    <2>8. TypeOK'
      <3>1. challenge' \in [Requests -> Challenge \cup {None}]
        BY <2>2, <2>3, <2>4 DEF TypeOK
      <3>2. answers' \in [Requests -> Nat]
        BY <1>3, <2>2 DEF CountAttempt, TypeOK, r
      <3>3. seen' \in [Verifiers -> [id : Requests, attempts : Nat] \cup {None}]
            /\ guess' \in [Verifiers -> Codes \cup {None}]
        BY <1>3 DEF CountAttempt, Rest, TypeOK
      <3>4. LockFits'
        BY <1>3, TypedLockFits, EndKeepsLock DEF CountAttempt, Stages
      <3>5. started' = started
        BY <1>3, CallersApart DEF CountAttempt, End
      <3>. QED
        BY <2>6, <3>1, <3>2, <3>3, <3>4, <3>5 DEF TypeOK, LockFits
    <2>9. StagesFit'
      BY <2>5, <2>6 DEF StagesFit, TypeOK
    <2>10. ReadsAreCurrent'
      <3>1. \A u \in Verifiers \ {v} : at[u] # "writing"
        BY <1>3, CallersApart DEF CountAttempt, TypeOK, Locked
      <3>2. \A u \in Verifiers : at'[u] # "writing"
        BY <2>6, <3>1, CallersApart DEF TypeOK
      <3>. QED
        BY <3>2 DEF ReadsAreCurrent
    <2>11. sessions[r] = 0
      BY <2>1, <2>2 DEF CodesOpenOneSession, TypeOK
    <2>12. OpeningsAreExclusive'
      <3>1. \A u \in Verifiers : Opening(u) => seen[u].id # r
        BY <2>1 DEF OpeningsAreExclusive
      <3>2. \A u \in Verifiers \ {v} : Opening(u)' <=> Opening(u)
        BY <2>6 DEF Opening, TypeOK
      <3>3. Opening(v)' => right
        BY <2>6 DEF Opening, TypeOK
      <3>. QED
        BY <2>1, <2>4, <2>5, <2>6, <2>7, <2>11, <3>1, <3>2, <3>3
        DEF OpeningsAreExclusive, r
    <2>13. CodesOpenOneSession'
      BY <2>1, <2>2, <2>5, <2>6, <2>11 DEF CodesOpenOneSession, TypeOK
    <2>. QED
      BY <2>8, <2>9, <2>10, <2>12, <2>13
  <1>4. CASE AddUser(v)
    <2>1. LockFits'
      BY <1>4, TypedLockFits, GoKeepsLock DEF AddUser, Stages, Locked
    <2>2. TypeOK' /\ StagesFit'
      BY <1>4, <2>1 DEF AddUser, Go, TypeOK, LockFits, StagesFit, Made
    <2>. QED
      BY <1>4, <2>2 DEF AddUser, Go, TypeOK, Made, ReadsAreCurrent,
                  OpeningsAreExclusive, Opening, CodesOpenOneSession
  <1>5. CASE IssueSession(v)
    <2>. DEFINE r == seen[v].id
    <2>1. /\ seen[v] # None /\ r \in Made /\ challenge[r].consumed /\ sessions[r] = 0
          /\ \A u \in Verifiers \ {v} : Opening(u) => seen[u].id # r
      BY <1>5 DEF IssueSession, OpeningsAreExclusive, Opening
    <2>2. r \in Requests
      BY <2>1 DEF Made
    <2>. HIDE DEF r
    <2>3. /\ sessions' = [sessions EXCEPT ![r] = 1]
          /\ at' = [at EXCEPT ![v] = "idle"]
          /\ seen' = [seen EXCEPT ![v] = None]
          /\ guess' = [guess EXCEPT ![v] = None]
          /\ UNCHANGED <<clock, started, lock, challenge, user, answers>>
      BY <1>5, <2>1, <2>2 DEF IssueSession, Go, Rest, TypeOK, r
    <2>6. LockFits'
      BY <1>5, TypedLockFits, GoKeepsLock DEF IssueSession, Stages, Locked
    <2>7. TypeOK' /\ StagesFit'
      BY <2>2, <2>3, <2>6 DEF TypeOK, LockFits, StagesFit, Made
    <2>4. ReadsAreCurrent'
      BY <2>3 DEF TypeOK, ReadsAreCurrent, Made
    <2>5. OpeningsAreExclusive' /\ CodesOpenOneSession'
      BY <2>1, <2>2, <2>3 DEF TypeOK, OpeningsAreExclusive, Opening, CodesOpenOneSession, Made
    <2>. QED
      BY <2>4, <2>5, <2>7
  <1>. QED
    BY <1>1, <1>2, <1>3, <1>4, <1>5 DEF VerifierNext

-----------------------------------------------------------------------------
LEMMA NextKeepsSessionInv == SessionInv /\ [Next]_vars => SessionInv'
  <1>. SUFFICES ASSUME SessionInv, [Next]_vars PROVE SessionInv'
    OBVIOUS
  <1>1. CASE \E r \in Requests : RequestNext(r)
    BY <1>1, RequestKeepsSessionInv
  <1>2. CASE \E v \in Verifiers : VerifierNext(v)
    BY <1>2, VerifierKeepsSessionInv
  <1>. USE CallersApart DEF SessionInv
  <1>3. ASSUME NEW w \in Callers, TakeLock(w)
        PROVE  SessionInv'
    <2>1. LockFits'
      BY <1>3, CallersAssumption DEF TakeLock, Go, TypeOK, LockFits, Stages, Locked
    <2>2. TypeOK' /\ StagesFit'
      BY <1>3, <2>1 DEF TakeLock, Go, TypeOK, LockFits, StagesFit, Made
    <2>3. \A u \in Verifiers : \/ at'[u] = at[u] /\ seen'[u] = seen[u]
                              \/ at'[u] \in {"idle", "waiting", "reading"}
      BY <1>3 DEF TakeLock, Go, TypeOK
    <2>4. UNCHANGED <<challenge, sessions>>
      BY <1>3 DEF TakeLock
    <2>. QED
      BY <2>2, <2>3, <2>4, QuietSteps
  <1>4. ASSUME NEW w \in Callers, Abandon(w)
        PROVE  SessionInv'
    <2>1. LockFits'
      BY <1>4, TypedLockFits, EndKeepsLock DEF Abandon, Stages
    <2>2. TypeOK' /\ StagesFit'
      BY <1>4, <2>1 DEF Abandon, End, Go, Rest, TypeOK, LockFits, StagesFit, Made, InTransaction
    <2>3. \A u \in Verifiers : \/ at'[u] = at[u] /\ seen'[u] = seen[u]
                              \/ at'[u] \in {"idle", "waiting", "reading"}
      BY <1>4 DEF Abandon, End, Go, Rest, TypeOK
    <2>4. UNCHANGED <<challenge, sessions>>
      BY <1>4 DEF Abandon
    <2>. QED
      BY <2>2, <2>3, <2>4, QuietSteps
  <1>5. CASE Tick
    <2>1. TypeOK' /\ StagesFit'
      BY <1>5 DEF Tick, TypeOK, Locked, StagesFit, Made
    <2>. QED
      BY <1>5, <2>1, QuietSteps DEF Tick
  <1>6. CASE UNCHANGED vars
    <2>1. TypeOK' /\ StagesFit'
      BY <1>6 DEF vars, TypeOK, Locked, StagesFit, Made
    <2>. QED
      BY <1>6, <2>1, QuietSteps DEF vars
  <1>. QED
    BY <1>1, <1>2, <1>3, <1>4, <1>5, <1>6 DEF Next

\* Under the advisory lock every verifier writes what it read, and what it opens
\* it opens alone (verifyOtp).
THEOREM SessionInvariance == Spec => []SessionInv
  <1>1. Init => SessionInv
    BY InitSessionInv
  <1>2. SessionInv /\ [Next]_vars => SessionInv'
    BY NextKeepsSessionInv
  <1>. QED
    BY <1>1, <1>2, PTL DEF Spec

\* Columns, locals and the owner of the advisory lock have their types.
THEOREM OtpTypeCorrect == Spec => []TypeOK
  <1>1. SessionInv => TypeOK
    BY DEF SessionInv
  <1>. QED
    BY <1>1, SessionInvariance, PTL

\* A code opens at most one session, however many verifiers race with it
\* (verifyOtp's consumption under the lock).
THEOREM OneSessionPerCode == Spec => []CodesOpenOneSession
  <1>1. SessionInv => CodesOpenOneSession
    BY DEF SessionInv
  <1>. QED
    BY <1>1, SessionInvariance, PTL


-----------------------------------------------------------------------------
(* the caps *)

\* Every answer is in the row, and rows that are not there have none.
AnswersAreCounted ==
  GuessesCapped /\ \A r \in Requests \ Made : answers[r] = 0

\* No request's transaction is older than Patience.
TransactionsAreShort ==
  \A r \in Requests :
    InTransaction(r) => started[r] <= clock /\ clock <= started[r] + Patience

\* The challenges that lie in a protected window with one dated start.
Near(start) ==
  {r \in Made : start + Patience <= challenge[r].created + OTP_REQUEST_WINDOW}

\* A request that is about to insert found room, and still has it.
RoomIsKept ==
  \A r \in Requests : at[r] = "writing" => Cardinality(Near(started[r])) < OTP_MAX_REQUESTS

CapInv == /\ SessionInv /\ AnswersAreCounted
          /\ TransactionsAreShort /\ RoomIsKept /\ RequestsCapped

LEMMA MadeIsFinite == IsFiniteSet(Made) /\ \A S \in SUBSET Made : IsFiniteSet(S)
  BY RequestsAssumption, FS_Subset DEF Made

\* A subset of the challenges is no larger than its superset.
LEMMA FewerAreFewer ==
  ASSUME NEW T, IsFiniteSet(T), NEW S \in SUBSET T
  PROVE  Cardinality(S) \in Nat /\ Cardinality(T) \in Nat /\ Cardinality(S) <= Cardinality(T)
  BY FS_Subset, FS_CardinalityType

LEMMA InitCapInv == Init => CapInv
  <1>. SUFFICES ASSUME Init PROVE CapInv
    OBVIOUS
  <1>1. Made = {}
    BY DEF Init, Made
  <1>2. \A r \in Requests : at[r] = "new" /\ answers[r] = 0
    BY DEF Init, Callers
  <1>. QED
    BY <1>1, <1>2, InitSessionInv
    DEF CapInv, AnswersAreCounted, GuessesCapped, TransactionsAreShort, InTransaction,
        RoomIsKept, RequestsCapped

\* Challenges keep their dates, the clock stands still, and no request starts
\* or goes on.
LEMMA SameChallenges ==
  ASSUME CapInv, SessionInv',
         Made' = Made, \A r \in Made : challenge'[r].created = challenge[r].created,
         UNCHANGED clock,
         \A r \in Requests :
           \/ at'[r] = at[r] /\ started'[r] = started[r]
           \/ InTransaction(r) /\ started'[r] = started[r] /\ at'[r] # "writing"
           \/ ~InTransaction(r)'
  PROVE  TransactionsAreShort' /\ RoomIsKept' /\ RequestsCapped'
  <1>1. TransactionsAreShort'
    BY DEF CapInv, TransactionsAreShort, InTransaction
  <1>2. \A start : Near(start)' = Near(start)
    BY DEF Near
  <1>3. RoomIsKept'
    BY <1>2 DEF CapInv, RoomIsKept, InTransaction
  <1>4. ASSUME NEW first \in Made
        PROVE  {r \in Made :
                 /\ challenge'[first].created <= challenge'[r].created
                 /\ challenge'[r].created + Patience
                      <= challenge'[first].created + OTP_REQUEST_WINDOW}
               = {r \in Made :
                 /\ challenge[first].created <= challenge[r].created
                 /\ challenge[r].created + Patience
                      <= challenge[first].created + OTP_REQUEST_WINDOW}
    BY <1>4
  <1>5. RequestsCapped'
    BY <1>4 DEF CapInv, RequestsCapped
  <1>. QED
    BY <1>1, <1>3, <1>5

LEMMA SameAnswers ==
  ASSUME AnswersAreCounted, UNCHANGED <<challenge, answers>>
  PROVE  AnswersAreCounted'
  BY DEF AnswersAreCounted, GuessesCapped, Made

\* A challenge with its attempts raised and its consumed mark set is a challenge.
LEMMA CountedIsAChallenge ==
  ASSUME NEW c \in Challenge, NEW n \in Nat, NEW b \in BOOLEAN
  PROVE  [c EXCEPT !.attempts = n, !.consumed = b] \in Challenge
  BY DEF Challenge

LEMMA VerifierKeepsCapInv ==
  ASSUME CapInv, SessionInv', NEW v \in Verifiers, VerifierNext(v)
  PROVE  CapInv'
  <1>. USE CallersApart DEF CapInv
  <1>1. \A r \in Requests : at'[r] = at[r]
    BY DEF SessionInv, TypeOK, VerifierNext, verifyOtp, ReadChallenge, CountAttempt, AddUser,
           IssueSession, Go, End
  <1>2. UNCHANGED <<clock, started>>
    BY DEF VerifierNext, verifyOtp, ReadChallenge, CountAttempt, AddUser, IssueSession, End
  <1>3. CASE UNCHANGED <<challenge, answers>>
    BY <1>1, <1>2, <1>3, SameChallenges, SameAnswers DEF Made
  <1>4. CASE CountAttempt(v)
    <2>. DEFINE r == seen[v].id
    <2>1. /\ r \in Made /\ challenge[r].attempts = seen[v].attempts
          /\ seen[v].attempts < OTP_MAX_ATTEMPTS /\ challenge[r] \in Challenge
      BY <1>4 DEF CountAttempt, SessionInv, ReadsAreCurrent, Made, TypeOK
    <2>2. PICK b \in BOOLEAN :
            challenge' = [challenge EXCEPT ![r].attempts = seen[v].attempts + 1,
                                           ![r].consumed = b]
      <3>1. (challenge[r].consumed \/ guess[v] = challenge[r].code) \in BOOLEAN
        OBVIOUS
      <3>. QED
        BY <1>4, <3>1 DEF CountAttempt
    <2>3. answers' = [answers EXCEPT ![r] = answers[r] + 1]
      BY <1>4 DEF CountAttempt
    <2>4. r \in Requests /\ answers[r] \in Nat
      BY <2>1 DEF Made, SessionInv, TypeOK
    <2>. HIDE DEF r
    <2>5. /\ challenge'[r].attempts = challenge[r].attempts + 1
          /\ challenge'[r].created = challenge[r].created
          /\ \A q \in Requests \ {r} : challenge'[q] = challenge[q]
      BY <2>1, <2>2, <2>4 DEF Challenge, SessionInv, TypeOK
    <2>6. challenge'[r] # None
      <3>1. challenge'[r] = [challenge[r] EXCEPT !.attempts = seen[v].attempts + 1,
                                                 !.consumed = b]
        BY <2>2, <2>4 DEF SessionInv, TypeOK
      <3>2. seen[v].attempts + 1 \in Nat
        BY <2>1 DEF Challenge
      <3>3. challenge'[r] \in Challenge
        <4>1. [challenge[r] EXCEPT !.attempts = seen[v].attempts + 1, !.consumed = b]
                \in Challenge
          BY <2>1, <3>2, CountedIsAChallenge, Zenon
        <4>. QED
          BY <4>1, <3>1, Zenon
      <3>. QED
        BY <3>3, NoChallengeAssumption
    <2>7. Made' = Made
      BY <2>1, <2>4, <2>5, <2>6 DEF Made
    <2>8. AnswersAreCounted'
      BY <2>1, <2>3, <2>4, <2>5, <2>7, LimitsAssumption
      DEF AnswersAreCounted, GuessesCapped, SessionInv, TypeOK, Challenge, Made
    <2>9. \A q \in Made : challenge'[q].created = challenge[q].created
      BY <2>5 DEF Made
    <2>. QED
      BY <1>1, <1>2, <2>7, <2>8, <2>9, SameChallenges
  <1>. QED
    BY <1>3, <1>4 DEF VerifierNext, verifyOtp, ReadChallenge, AddUser, IssueSession

LEMMA InsertKeepsCapInv ==
  ASSUME CapInv, SessionInv', NEW r \in Requests, InsertChallenge(r)
  PROVE  CapInv'
  <1>. USE CallersApart DEF CapInv
  <1>1. PICK k \in Codes :
          challenge' = [challenge EXCEPT ![r] =
            [code |-> k, created |-> started[r], expires |-> clock + OTP_TTL,
             attempts |-> 0, consumed |-> FALSE]]
    BY DEF InsertChallenge
  <1>2. /\ at[r] = "writing" /\ at' = [at EXCEPT ![r] = "sending"]
        /\ started' = [started EXCEPT ![r] = 0]
        /\ UNCHANGED <<clock, answers>>
    BY DEF InsertChallenge, End, Go
  <1>3. r \notin Made
    BY <1>2 DEF SessionInv, StagesFit
  <1>4. /\ challenge'[r].created = started[r] /\ challenge'[r].attempts = 0
        /\ \A q \in Requests \ {r} : challenge'[q] = challenge[q]
    BY <1>1 DEF SessionInv, TypeOK
  <1>5. challenge'[r] # None
    <2>1. started[r] \in Nat /\ clock + OTP_TTL \in Nat
      BY LimitsAssumption DEF SessionInv, TypeOK
    <2>2. [code |-> k, created |-> started[r], expires |-> clock + OTP_TTL,
           attempts |-> 0, consumed |-> FALSE] \in Challenge
      BY <2>1 DEF Challenge
    <2>. QED
      BY <1>1, <2>2, NoChallengeAssumption DEF SessionInv, TypeOK
  <1>6. Made' = Made \cup {r}
    BY <1>3, <1>4, <1>5 DEF Made
  <1>7. \A q \in Requests : at[q] = "writing" => q = r
    BY <1>2 DEF SessionInv, TypeOK, Locked
  <1>8. AnswersAreCounted'
    BY <1>2, <1>3, <1>4, <1>6, LimitsAssumption DEF AnswersAreCounted, GuessesCapped, Made
  <1>9. TransactionsAreShort'
    BY <1>2 DEF TransactionsAreShort, InTransaction, SessionInv, TypeOK
  <1>10. RoomIsKept'
    BY <1>2, <1>7 DEF RoomIsKept, SessionInv, TypeOK
  <1>11. RequestsCapped'
    <2>. SUFFICES ASSUME NEW first \in Made'
                  PROVE  Cardinality({q \in Made' :
                           /\ challenge'[first].created <= challenge'[q].created
                           /\ challenge'[q].created + Patience
                                <= challenge'[first].created + OTP_REQUEST_WINDOW})
                         <= OTP_MAX_REQUESTS
      BY DEF RequestsCapped
    <2>. DEFINE InWindow == {q \in Made' :
                   /\ challenge'[first].created <= challenge'[q].created
                   /\ challenge'[q].created + Patience
                        <= challenge'[first].created + OTP_REQUEST_WINDOW}
    <2>1. \A q \in Made : challenge[q].created \in Nat /\ challenge'[q] = challenge[q]
      BY <1>3, <1>4 DEF Made, SessionInv, TypeOK, Challenge
    <2>2. started[r] \in Nat /\ Patience \in Nat /\ Patience <= OTP_REQUEST_WINDOW
          /\ OTP_REQUEST_WINDOW \in Nat /\ OTP_MAX_REQUESTS \in Nat
      BY PatienceAssumption, LimitsAssumption DEF SessionInv, TypeOK
    <2>3. CASE r \in InWindow
      <3>1. InWindow \ {r} \subseteq Near(started[r])
        BY <1>4, <1>6, <2>1, <2>2, <2>3 DEF Near
      <3>2. IsFiniteSet(Near(started[r])) /\ Cardinality(Near(started[r])) < OTP_MAX_REQUESTS
        BY <1>2, MadeIsFinite DEF RoomIsKept, Near
      <3>3. IsFiniteSet(InWindow)
        BY <1>6, MadeIsFinite, FS_AddElement, FS_Subset
      <3>. HIDE DEF InWindow
      <3>4. Cardinality(InWindow \ {r}) = Cardinality(InWindow) - 1
        BY <2>3, <3>3, FS_RemoveElement
      <3>5. Cardinality(InWindow) \in Nat
        BY <3>3, FS_CardinalityType
      <3>6. Cardinality(InWindow \ {r}) <= Cardinality(Near(started[r]))
            /\ Cardinality(Near(started[r])) \in Nat
        BY <3>1, <3>2, FewerAreFewer
      <3>7. Cardinality(InWindow) <= OTP_MAX_REQUESTS
        BY <3>2, <3>4, <3>5, <3>6, <2>2
      <3>. QED
        BY <3>7 DEF InWindow
    <2>4. CASE r \notin InWindow
      <3>1. first # r
        BY <1>4, <1>6, <2>2, <2>4
      <3>2. InWindow = {q \in Made :
                   /\ challenge[first].created <= challenge[q].created
                   /\ challenge[q].created + Patience
                        <= challenge[first].created + OTP_REQUEST_WINDOW}
        BY <1>6, <2>1, <2>4, <3>1
      <3>. QED
        BY <1>6, <3>1, <3>2 DEF RequestsCapped
    <2>. QED
      BY <2>3, <2>4
  <1>. QED
    BY <1>8, <1>9, <1>10, <1>11

LEMMA RequestKeepsCapInv ==
  ASSUME CapInv, SessionInv', NEW r \in Requests, RequestNext(r)
  PROVE  CapInv'
  <1>. USE CallersApart DEF CapInv
  <1>1. CASE requestOtp(r)
    <2>1. UNCHANGED <<clock, challenge, answers>>
      BY <1>1 DEF requestOtp
    <2>2. TransactionsAreShort'
      BY <1>1, PatienceAssumption, LimitsAssumption
      DEF requestOtp, Go, TransactionsAreShort, InTransaction, SessionInv, TypeOK
    <2>3. \A start : Near(start)' = Near(start)
      BY <2>1 DEF Near, Made
    <2>4. RoomIsKept'
      BY <1>1, <2>3 DEF requestOtp, Go, RoomIsKept, SessionInv, TypeOK
    <2>5. RequestsCapped'
      BY <2>1 DEF RequestsCapped, Made
    <2>. QED
      BY <2>1, <2>2, <2>4, <2>5, SameAnswers
  <1>2. CASE CountRecent(r)
    <2>1. UNCHANGED <<clock, challenge, answers>>
      BY <1>2 DEF CountRecent
    <2>2. CASE Cardinality(Recent) >= OTP_MAX_REQUESTS
      <3>1. \A q \in Requests : \/ at'[q] = at[q] /\ started'[q] = started[q]
                               \/ ~InTransaction(q)'
        BY <1>2, <2>2 DEF CountRecent, End, Go, InTransaction, SessionInv, TypeOK
      <3>. QED
        BY <2>1, <3>1, SameChallenges, SameAnswers DEF Made
    <2>3. CASE ~(Cardinality(Recent) >= OTP_MAX_REQUESTS)
      <3>1. at' = [at EXCEPT ![r] = "writing"] /\ UNCHANGED started /\ at[r] = "reading"
        BY <1>2, <2>3 DEF CountRecent, Go
      <3>2. TransactionsAreShort'
        BY <2>1, <3>1 DEF TransactionsAreShort, InTransaction, SessionInv, TypeOK
      <3>3. Near(started[r]) \subseteq Recent
        <4>1. clock <= started[r] + Patience /\ clock \in Nat /\ started[r] \in Nat
          BY <3>1 DEF TransactionsAreShort, InTransaction, SessionInv, TypeOK
        <4>2. \A q \in Made : challenge[q].created \in Nat
          BY DEF Made, SessionInv, TypeOK, Challenge
        <4>. QED
          BY <4>1, <4>2, PatienceAssumption, LimitsAssumption DEF Near, Recent
      <3>4. IsFiniteSet(Recent)
        BY MadeIsFinite DEF Recent
      <3>5. Cardinality(Near(started[r])) < OTP_MAX_REQUESTS
        BY <2>3, <3>3, <3>4, FewerAreFewer, LimitsAssumption
      <3>6. \A start : Near(start)' = Near(start)
        BY <2>1 DEF Near, Made
      <3>7. RoomIsKept'
        BY <3>1, <3>5, <3>6 DEF RoomIsKept, SessionInv, TypeOK
      <3>8. RequestsCapped'
        BY <2>1 DEF RequestsCapped, Made
      <3>. QED
        BY <2>1, <3>2, <3>7, <3>8, SameAnswers
    <2>. QED
      BY <2>2, <2>3
  <1>3. CASE InsertChallenge(r)
    BY <1>3, InsertKeepsCapInv
  <1>4. CASE SendCode(r)
    <2>1. \A q \in Requests : \/ at'[q] = at[q] /\ started'[q] = started[q]
                             \/ ~InTransaction(q)'
      BY <1>4 DEF SendCode, Go, InTransaction, SessionInv, TypeOK
    <2>. QED
      BY <1>4, <2>1, SameChallenges, SameAnswers DEF SendCode, Made
  <1>. QED
    BY <1>1, <1>2, <1>3, <1>4 DEF RequestNext

LEMMA NextKeepsCapInv == CapInv /\ [Next]_vars => CapInv'
  <1>. SUFFICES ASSUME CapInv, [Next]_vars PROVE CapInv'
    OBVIOUS
  <1>. USE CallersApart
  <1>0. SessionInv'
    BY NextKeepsSessionInv DEF CapInv
  <1>1. CASE \E r \in Requests : RequestNext(r)
    BY <1>0, <1>1, RequestKeepsCapInv
  <1>2. CASE \E v \in Verifiers : VerifierNext(v)
    BY <1>0, <1>2, VerifierKeepsCapInv
  <1>. USE DEF CapInv
  <1>3. ASSUME NEW w \in Callers, TakeLock(w)
        PROVE  CapInv'
    <2>1. \A q \in Requests :
            \/ at'[q] = at[q] /\ started'[q] = started[q]
            \/ InTransaction(q) /\ started'[q] = started[q] /\ at'[q] # "writing"
      BY <1>3 DEF TakeLock, Go, InTransaction, SessionInv, TypeOK
    <2>. QED
      BY <1>0, <1>3, <2>1, SameChallenges, SameAnswers DEF TakeLock, Made
  <1>4. ASSUME NEW w \in Callers, Abandon(w)
        PROVE  CapInv'
    <2>1. \A q \in Requests : \/ at'[q] = at[q] /\ started'[q] = started[q]
                             \/ ~InTransaction(q)'
      BY <1>4 DEF Abandon, End, Go, InTransaction, SessionInv, TypeOK
    <2>. QED
      BY <1>0, <1>4, <2>1, SameChallenges, SameAnswers DEF Abandon, Made
  <1>5. CASE Tick
    <2>1. UNCHANGED <<at, started, challenge, answers>>
      BY <1>5 DEF Tick
    <2>2. TransactionsAreShort'
      BY <1>5, PatienceAssumption, LimitsAssumption
      DEF Tick, TransactionsAreShort, InTransaction, SessionInv, TypeOK
    <2>3. RoomIsKept' /\ RequestsCapped'
      BY <2>1 DEF RoomIsKept, RequestsCapped, Near, Made
    <2>. QED
      BY <1>0, <2>1, <2>2, <2>3, SameAnswers
  <1>6. CASE UNCHANGED vars
    BY <1>0, <1>6, SameChallenges, SameAnswers DEF vars, Made
  <1>. QED
    BY <1>1, <1>2, <1>3, <1>4, <1>5, <1>6 DEF Next

\* The counts that requestOtp and verifyOtp compare with their limits are still
\* right when they write.
THEOREM CapInvariance == Spec => []CapInv
  <1>1. Init => CapInv
    BY InitCapInv
  <1>2. CapInv /\ [Next]_vars => CapInv'
    BY NextKeepsCapInv
  <1>. QED
    BY <1>1, <1>2, PTL DEF Spec

\* Callers learn at most OTP_MAX_ATTEMPTS answers about one code (verifyOtp).
THEOREM GuessesStayCapped == Spec => []GuessesCapped
  <1>1. CapInv => GuessesCapped
    BY DEF CapInv, AnswersAreCounted
  <1>. QED
    BY <1>1, CapInvariance, PTL

\* No window, shortened by the time a transaction may last, has more challenges
\* than OTP_MAX_REQUESTS (requestOtp's count under the advisory lock).
THEOREM RequestsStayCapped == Spec => []RequestsCapped
  <1>1. CapInv => RequestsCapped
    BY DEF CapInv
  <1>. QED
    BY <1>1, CapInvariance, PTL

=============================================================================
