---------------------------- MODULE ServiceProofs ----------------------------
(* Theorems about four small components, each with an inductive invariant of *)
(* its own: ToolDispatcher, Notifications, Access and Guardrails.            *)
EXTENDS ToolDispatcher, Notifications, Access, Guardrails, SumTheorems

(* A call that has not returned has committed nothing, and no row is ever    *)
(* seen pending.                                                             *)
UnreturnedIsUncommitted ==
  /\ \A c \in Calls : called[c] # "done" => answer[c] = none /\ invocation[c] = none
  /\ \A c \in Calls : invocation[c] \in {"completed", none}

DispatchInv == ToolTypeOK /\ UnreturnedIsUncommitted /\ NoDoubleRun

LEMMA InitDispatchInv == ToolInit => DispatchInv
  BY CallsAssumption
  DEF ToolInit, DispatchInv, ToolTypeOK, Places, UnreturnedIsUncommitted, NoDoubleRun

----------------------------------------------------------------------------
(* A call moves on, or returns without having written.                       *)
LEMMA MovesKeepInv ==
  ASSUME DispatchInv, NEW c \in Calls, called[c] # "done", UNCHANGED invocation,
         \/ /\ UNCHANGED answer
            /\ \E place \in Places \ {"done"} :
                 /\ called' = [called EXCEPT ![c] = place]
                 /\ place = "handle" => Writing(c) = {} /\ Written(c) = {}
                 /\ place = "complete" => called[c] = "handle"
         \/ \E r \in Calls \union {"error"} : Return(c, r)
  PROVE  DispatchInv'
  <1>. USE DEF DispatchInv, ToolTypeOK, UnreturnedIsUncommitted, Places
  <1>1. CASE UNCHANGED answer /\ \E place \in Places \ {"done"} :
                 /\ called' = [called EXCEPT ![c] = place]
                 /\ place = "handle" => Writing(c) = {} /\ Written(c) = {}
                 /\ place = "complete" => called[c] = "handle"
    <2>1. PICK place \in Places \ {"done"} :
                 /\ called' = [called EXCEPT ![c] = place]
                 /\ place = "handle" => Writing(c) = {} /\ Written(c) = {}
                 /\ place = "complete" => called[c] = "handle"
      BY <1>1
    <2>2. ToolTypeOK' /\ UnreturnedIsUncommitted'
      BY <1>1, <2>1
    <2>3. ASSUME place = "handle", NEW d \in Calls, SharesKey(c, d)
          PROVE  called[d] \notin {"handle", "complete"} /\ invocation[d] = none
      BY <2>1, <2>3 DEF Writing, Written
    <2>4. NoDoubleRun'
      BY <1>1, <2>1, <2>3 DEF NoDoubleRun, SharesKey
    <2>. QED
      BY <2>2, <2>4
  <1>2. CASE \E r \in Calls \union {"error"} : Return(c, r)
    <2>1. ToolTypeOK' /\ UnreturnedIsUncommitted'
      BY <1>2 DEF Return
    <2>2. NoDoubleRun'
      BY <1>2 DEF NoDoubleRun, Return
    <2>. QED
      BY <2>1, <2>2
  <1>. QED
    BY <1>1, <1>2

LEMMA CompleteKeepsInv ==
  ASSUME DispatchInv, NEW c \in Calls, Complete(c)
  PROVE  DispatchInv'
  <1>. USE DEF DispatchInv, ToolTypeOK, UnreturnedIsUncommitted, Places, InvocationStatus
  <1>1. PICK r \in {c, "error"} : Return(c, r)
    BY DEF Complete
  <1>2. /\ called[c] = "complete"
        /\ called' = [called EXCEPT ![c] = "done"]
        /\ answer' = [answer EXCEPT ![c] = r]
        /\ invocation' = [invocation EXCEPT ![c] = "completed"]
    BY <1>1 DEF Complete, Return
  <1>3. ToolTypeOK' /\ UnreturnedIsUncommitted'
    BY <1>2
  <1>4. NoDoubleRun'
    BY <1>2 DEF NoDoubleRun
  <1>. QED
    BY <1>3, <1>4

LEMMA RestartKeepsInv ==
  ASSUME DispatchInv, ToolRestart
  PROVE  DispatchInv'
  BY DEF DispatchInv, ToolTypeOK, UnreturnedIsUncommitted, NoDoubleRun, Places, ToolRestart

LEMMA NextKeepsInv == DispatchInv /\ [ToolNext]_toolVars => DispatchInv'
  <1>. SUFFICES ASSUME DispatchInv, [ToolNext]_toolVars PROVE DispatchInv'
    OBVIOUS
  <1>1. CASE ToolRestart
    BY <1>1, RestartKeepsInv
  <1>2. ASSUME NEW c \in Calls, dispatch(c) \/ Advance(c) \/ RollBack(c)
        PROVE  DispatchInv'
    <2>1. CASE dispatch(c)
      BY <2>1, MovesKeepInv DEF dispatch, Places
    <2>2. CASE Lookup(c)
      <3>1. ASSUME NEW d \in Written(c), Return(c, d) PROVE d \in Calls \union {"error"}
        BY DEF Written
      <3>. QED
        BY <2>2, <3>1, MovesKeepInv DEF Lookup, Places
    <2>3. CASE Insert(c)
      BY <2>3, MovesKeepInv DEF Insert, Places
    <2>4. CASE Handle(c)
      BY <2>4, MovesKeepInv DEF Handle, Places
    <2>5. CASE Complete(c)
      BY <2>5, CompleteKeepsInv
    <2>6. CASE RollBack(c)
      BY <2>6, MovesKeepInv DEF RollBack
    <2>. QED
      BY <1>2, <2>1, <2>2, <2>3, <2>4, <2>5, <2>6 DEF Advance
  <1>3. CASE UNCHANGED toolVars
    BY <1>3 DEF toolVars, DispatchInv, ToolTypeOK, UnreturnedIsUncommitted, NoDoubleRun
  <1>. QED
    BY <1>1, <1>2, <1>3 DEF ToolNext

LEMMA InvHolds == ToolSpec => []DispatchInv
  BY InitDispatchInv, NextKeepsInv, PTL DEF ToolSpec

(* No handler runs for a key while another call's handler does or after one  *)
(* has committed, for any number of dispatches of the key.                   *)
THEOREM NeverDoubleRun == ToolSpec => []NoDoubleRun
  <1>1. DispatchInv => NoDoubleRun
    BY DEF DispatchInv
  <1>. QED
    BY InvHolds, <1>1, PTL

----------------------------------------------------------------------------
(* What a step does to the contract's variables.                             *)
Made == {c \in Calls : invocation[c] = "completed"}

LEMMA MadeStays ==
  ASSUME UNCHANGED invocation
  PROVE  Made' = Made
  BY DEF Made

(* A call that fails, and leaves the rows alone, fails in the contract.      *)
LEMMA FailureIsFail ==
  ASSUME DispatchInv, NEW F \in SUBSET Calls, \A c \in F : called[c] # "done",
         UNCHANGED invocation,
         answer' = [c \in Calls |-> IF c \in F THEN "error" ELSE answer[c]]
  PROVE  Once!Fail
  <1>1. F \in SUBSET {c \in Calls : answer[c] = none}
    BY DEF DispatchInv, UnreturnedIsUncommitted
  <1>2. answer' = [c \in Calls |-> IF c \in F THEN "error" ELSE answer[c]]
    OBVIOUS
  <1>. QED
    BY <1>1, <1>2, MadeStays DEF Once!Fail, Made

LEMMA ErrorIsFail ==
  ASSUME DispatchInv, NEW c \in Calls, called[c] # "done", UNCHANGED invocation, Return(c, "error")
  PROVE  Once!Fail
  <1>1. {c} \in SUBSET Calls /\ \A d \in {c} : called[d] # "done"
    OBVIOUS
  <1>2. answer' = [d \in Calls |-> IF d \in {c} THEN "error" ELSE answer[d]]
    BY DEF Return, DispatchInv, ToolTypeOK
  <1>. QED
    BY ONLY DispatchInv, UNCHANGED invocation, <1>1, <1>2, FailureIsFail

(* A finished handler's commit makes the effect.                             *)
LEMMA CompleteIsMake ==
  ASSUME DispatchInv, NEW c \in Calls, Complete(c)
  PROVE  Once!Make(c)
  <1>. USE DEF DispatchInv, ToolTypeOK, UnreturnedIsUncommitted
  <1>1. called[c] = "complete" /\ answer[c] = none
    BY DEF Complete
  <1>2. Made' = Made \union {c}
    BY DEF Made, Complete
  <1>3. \A d \in Made : ~Once!Same(c, d)
    BY <1>1, CallsAssumption DEF Made, Once!Same, NoDoubleRun
  <1>. QED
    BY <1>1, <1>2, <1>3 DEF Once!Make, Made, Complete, Return

(* A known key is answered with what was made for it.                        *)
LEMMA FoundIsRepeat ==
  ASSUME DispatchInv, NEW c \in Calls, called[c] = "lookup", UNCHANGED invocation,
         NEW d \in Written(c), invocation[d] = "completed", Return(c, d)
  PROVE  Once!Repeat(c)
  BY MadeStays
  DEF Once!Repeat, Once!Same, Made, Written, SharesKey, Return, DispatchInv, UnreturnedIsUncommitted

LEMMA StepsImplement ==
  ASSUME DispatchInv, [ToolNext]_toolVars
  PROVE  [Once!ONext]_<<Made, answer>>
  <1>1. CASE ToolRestart
    <2>1. Once!Fail
      BY <1>1, FailureIsFail DEF ToolRestart
    <2>. QED
      BY <2>1 DEF Once!ONext
  <1>2. ASSUME NEW c \in Calls, dispatch(c) \/ Advance(c) \/ RollBack(c)
        PROVE  [Once!ONext]_<<Made, answer>>
    <2>1. CASE dispatch(c)
      BY <2>1, MadeStays, ErrorIsFail DEF dispatch, Once!ONext
    <2>2. CASE Lookup(c)
      BY <2>2, MadeStays, FoundIsRepeat DEF Lookup, Once!ONext
    <2>3. CASE Insert(c)
      BY <2>3, MadeStays, ErrorIsFail DEF Insert, Once!ONext
    <2>4. CASE Handle(c)
      BY <2>4, MadeStays DEF Handle
    <2>5. CASE Complete(c)
      BY <2>5, CompleteIsMake DEF Once!ONext
    <2>6. CASE RollBack(c)
      <3>1. called[c] # "done"
        BY <2>6 DEF RollBack
      <3>. QED
        BY <2>6, <3>1, ErrorIsFail DEF RollBack, Once!ONext
    <2>. QED
      BY <1>2, <2>1, <2>2, <2>3, <2>4, <2>5, <2>6 DEF Advance
  <1>3. CASE UNCHANGED toolVars
    BY <1>3, MadeStays DEF toolVars
  <1>. QED
    BY <1>1, <1>2, <1>3 DEF ToolNext

(* The dispatcher implements OnceOnly: calls with one key make its effect    *)
(* once, all at once, and are told of the same result.                       *)
THEOREM DispatcherIsOnceOnly == ToolSpec => ImplementsOnceOnly
  <1>1. ToolInit => Once!OInit
    BY CallsAssumption DEF ToolInit, Once!OInit
  <1>2. DispatchInv /\ [ToolNext]_toolVars
          => [Once!ONext]_<<{c \in Calls : invocation[c] = "completed"}, answer>>
    BY StepsImplement DEF Made
  <1>. QED
    BY <1>1, <1>2, InvHolds, PTL DEF ToolSpec, ImplementsOnceOnly, Once!OSpec

----------------------------------------------------------------------------
(* A call delivers between its lookups and its record, and what it answers   *)
(* is what it found or did.                                                  *)
CallsKeepOrder ==
  /\ \A m \in Messages : sending[m] \in {"idle", "optout", "dedupe", "deliver"} => m \notin delivered
  /\ \A m \in Messages : sending[m] = "record" => m \in delivered
  /\ \A m \in recorded : sending[m] = "done" /\ m \in delivered
  /\ \A m \in Messages : sending[m] # "done" => result[m] = unset

AnswersAreBacked ==
  /\ \A m \in Messages : result[m] = "sent" => m \in recorded
  /\ \A m \in Messages : result[m] = "deduped" =>
       m \notin recorded /\ \E n \in recorded : SameDedupeKey(m, n)

(* The unique index on the key.                                              *)
KeysAreUnique == \A m, n \in recorded : m # n => ~SameDedupeKey(m, n)

SilencedStayOut ==
  \A m \in silenced : To[m] \in optouts /\ sending[m] \in {"optout", "done"} /\ m \notin delivered

NotifyInv == NotifyTypeOK /\ CallsKeepOrder /\ AnswersAreBacked /\ KeysAreUnique /\ SilencedStayOut

LEMMA InitNotifyInv == NotifyInit => NotifyInv
  BY MessagesAssumption
  DEF NotifyInit, NotifyInv, NotifyTypeOK, NotifyResult, CallsKeepOrder, AnswersAreBacked, KeysAreUnique,
      SilencedStayOut

LEMMA SendingKeepsInv ==
  ASSUME NotifyInv, NEW m \in Messages, notify(m) \/ RespectOptout(m) \/ LookUp(m) \/ GiveUp(m)
  PROVE  NotifyInv'
  <1>. USE MessagesAssumption DEF NotifyInv, NotifyTypeOK, NotifyResult, notifyRows, Goto, Answer
  <1>1. CASE notify(m)
    BY <1>1 DEF notify, CallsKeepOrder, AnswersAreBacked, KeysAreUnique, SilencedStayOut, SameDedupeKey
  <1>2. CASE RespectOptout(m)
    BY <1>2 DEF RespectOptout, CallsKeepOrder, AnswersAreBacked, KeysAreUnique, SilencedStayOut, SameDedupeKey
  <1>3. CASE LookUp(m)
    BY <1>3 DEF LookUp, Recorded, CallsKeepOrder, AnswersAreBacked, KeysAreUnique, SilencedStayOut, SameDedupeKey
  <1>4. CASE GiveUp(m)
    BY <1>4 DEF GiveUp, CallsKeepOrder, AnswersAreBacked, KeysAreUnique, SilencedStayOut, SameDedupeKey
  <1>. QED
    BY <1>1, <1>2, <1>3, <1>4

LEMMA DeliveringKeepsInv ==
  ASSUME NotifyInv, NEW m \in Messages, Deliver(m) \/ Record(m)
  PROVE  NotifyInv'
  <1>. USE MessagesAssumption DEF NotifyInv, NotifyTypeOK, NotifyResult, notifyRows, Goto, Answer
  <1>1. CASE Deliver(m)
    BY <1>1 DEF Deliver, CallsKeepOrder, AnswersAreBacked, KeysAreUnique, SilencedStayOut, SameDedupeKey
  <1>2. CASE Record(m)
    <2>1. sending[m] = "record" /\ m \in delivered /\ m \notin recorded /\ m \notin silenced
      BY <1>2 DEF Record, CallsKeepOrder, SilencedStayOut
    <2>2. CASE Recorded(m)
      BY <1>2, <2>1, <2>2
      DEF Record, CallsKeepOrder, AnswersAreBacked, KeysAreUnique, SilencedStayOut, SameDedupeKey
    <2>3. CASE ~Recorded(m)
      <3>1. recorded' = recorded \union {m} /\ \E r \in {"sent", "error"} : Answer(m, r)
        BY <1>2, <2>3 DEF Record
      <3>2. KeysAreUnique'
        BY <2>3, <3>1 DEF KeysAreUnique, Recorded, SameDedupeKey
      <3>3. NotifyTypeOK' /\ CallsKeepOrder' /\ SilencedStayOut'
        BY <1>2, <2>1, <3>1 DEF Record, CallsKeepOrder, SilencedStayOut
      <3>4. AnswersAreBacked'
        BY <2>1, <3>1 DEF AnswersAreBacked, CallsKeepOrder, SameDedupeKey
      <3>. QED
        BY <3>2, <3>3, <3>4
    <2>. QED
      BY <2>2, <2>3
  <1>. QED
    BY <1>1, <1>2

LEMMA NotifyNextKeepsInv == NotifyInv /\ [NotifyNext]_notifyVars => NotifyInv'
  <1>. SUFFICES ASSUME NotifyInv, [NotifyNext]_notifyVars PROVE NotifyInv'
    OBVIOUS
  <1>1. ASSUME NEW m \in Messages, notify(m) \/ Progress(m) \/ GiveUp(m) PROVE NotifyInv'
    BY <1>1, SendingKeepsInv, DeliveringKeepsInv DEF Progress
  <1>2. ASSUME NEW a \in Addresses, optOut(a) PROVE NotifyInv'
    BY <1>2
    DEF optOut, NotifyInv, NotifyTypeOK, CallsKeepOrder, AnswersAreBacked, KeysAreUnique, SilencedStayOut
  <1>3. CASE UNCHANGED notifyVars
    BY <1>3
    DEF notifyVars, notifyRows, NotifyInv, NotifyTypeOK, CallsKeepOrder, AnswersAreBacked, KeysAreUnique,
        SilencedStayOut
  <1>. QED
    BY <1>1, <1>2, <1>3 DEF NotifyNext

(* Whoever had opted out when a call began is not reached by it; of the      *)
(* calls with one key one says it sent; and an answer is never given for a   *)
(* message that did not go out.                                              *)
THEOREM NotificationsKeepTheirWord ==
  NotifySpec => [](OptedOutAreLeftAlone /\ OneSentPerKey /\ DedupedWasDelivered)
  <1>1. NotifyInv => OptedOutAreLeftAlone /\ OneSentPerKey /\ DedupedWasDelivered
    BY DEF NotifyInv, NotifyTypeOK, CallsKeepOrder, AnswersAreBacked, KeysAreUnique, SilencedStayOut,
           OptedOutAreLeftAlone, OneSentPerKey, DedupedWasDelivered, SameDedupeKey
  <1>. QED
    BY <1>1, InitNotifyInv, NotifyNextKeepsInv, PTL DEF NotifySpec
----------------------------------------------------------------------------
EnteredOK == entered \in [Requests -> [lapsed : BOOLEAN, owned : SUBSET AdminRequests]]

(* What was found is still there, and includes what the user owned when the  *)
(* request began.                                                            *)
FoundIsThere ==
  \A r \in Requests :
    /\ found[r] \subseteq TenantsOf(User(r))
    /\ entered[r].owned \subseteq TenantsOf(User(r))
    /\ step[r] = "admin" => entered[r].owned \subseteq found[r]

(* A request whose session had lapsed does not get past its first read.      *)
LapsedStayOut ==
  \A r \in Requests : entered[r].lapsed =>
    /\ session[TokenOf[r]] # "live"
    /\ step[r] \in {"session", "done"} /\ reply[r] # "done" /\ r \notin tenants

(* What a request has done it was entitled to do.                            *)
EffectsAreEntitled ==
  /\ \A r \in Requests : step[r] # "done" => reply[r] = nobody
  /\ \A r \in Requests : step[r] \in {"tenant", "owner", "membership", "branch"} => r \in AdminRequests
  /\ \A r \in AdminRequests :
       step[r] \in {"tenant", "owner", "membership", "branch"} \/ reply[r] = "done" \/ r \in tenants =>
         User(r) \in admins
  /\ \A r \in StaffRequests : reply[r] = "done" => actsFor[r] \in found[r]
  /\ \A r \in StaffRequests : reply[r] = "refused" => session[TokenOf[r]] # "live" \/ entered[r].owned = {}

OwnersFirst ==
  /\ \A r \in Requests : step[r] \in {"idle", "session", "memberships", "admin", "tenant"} => r \notin tenants
  /\ \A r \in Requests : step[r] \in {"owner", "membership", "branch"} => r \in tenants
  /\ \A r \in Requests : step[r] = "membership" => OwnerOf[r] \in users
  /\ \A r \in Requests : step[r] = "branch" => <<OwnerOf[r], r>> \in memberships
  /\ \A t \in branches : <<OwnerOf[t], t>> \in memberships

AccessInv == AccessTypeOK /\ EnteredOK /\ FoundIsThere /\ LapsedStayOut /\ EffectsAreEntitled /\ OwnersFirst

LEMMA UsersAreUsers ==
  /\ \A r \in Requests : User(r) \in Users /\ TokenOf[r] \in Sessions
  /\ StaffRequests \subseteq Requests /\ AdminRequests \subseteq Requests
  BY RequestsAssumption DEF User, Requests

LEMMA InitAccessInv == AccessInit => AccessInv
  <1>. SUFFICES ASSUME AccessInit PROVE AccessInv
    OBVIOUS
  <1>. USE RequestsAssumption, UsersAreUsers DEF AccessInit
  <1>1. AccessTypeOK /\ EnteredOK
    BY DEF AccessTypeOK, EnteredOK, SessionStatus, Steps
  <1>2. FoundIsThere /\ LapsedStayOut /\ OwnersFirst
    BY DEF FoundIsThere, LapsedStayOut, OwnersFirst
  <1>3. EffectsAreEntitled
    BY DEF EffectsAreEntitled
  <1>. QED
    BY <1>1, <1>2, <1>3 DEF AccessInv

LEMMA ReadingKeepsInv ==
  ASSUME AccessInv, NEW r \in Requests,
         authenticate(r) \/ ReadSession(r) \/ ReadMemberships(r) \/ ReadAdmin(r) \/ Break(r)
  PROVE  AccessInv'
  <1>. USE RequestsAssumption, UsersAreUsers
       DEF AccessInv, AccessTypeOK, EnteredOK, At, GoTo, Reply, rowVars, TenantsOf
  <1>1. CASE authenticate(r)
    <2>. USE <1>1 DEF authenticate
    <2>1. AccessTypeOK' /\ EnteredOK'
      BY DEF Steps
    <2>2. /\ entered'[r].lapsed <=> session[TokenOf[r]] # "live"
          /\ entered'[r].owned = TenantsOf(User(r))
          /\ \A q \in Requests : q # r => entered'[q] = entered[q] /\ step'[q] = step[q]
          /\ step'[r] = "session" /\ reply[r] = nobody
      BY DEF EffectsAreEntitled
    <2>3. FoundIsThere'
      BY <2>2 DEF FoundIsThere, User
    <2>4. LapsedStayOut'
      BY <2>2 DEF LapsedStayOut, OwnersFirst
    <2>5. EffectsAreEntitled' /\ OwnersFirst'
      BY <2>2 DEF EffectsAreEntitled, OwnersFirst, User
    <2>. QED
      BY <2>1, <2>3, <2>4, <2>5
  <1>2. CASE ReadSession(r)
    <2>. USE <1>2 DEF ReadSession
    <2>1. AccessTypeOK' /\ EnteredOK'
      BY DEF Steps
    <2>2. FoundIsThere'
      BY DEF FoundIsThere, User
    <2>3. LapsedStayOut'
      BY DEF LapsedStayOut
    <2>4. EffectsAreEntitled'
      <3>1. CASE session[TokenOf[r]] = "live"
        BY <3>1 DEF EffectsAreEntitled, User
      <3>2. CASE session[TokenOf[r]] # "live"
        <4>1. /\ UNCHANGED <<session, tenants, admins, found, actsFor, entered>>
              /\ step[r] = "session" /\ step'[r] = "done" /\ reply'[r] = "refused"
              /\ \A q \in Requests : q # r => step'[q] = step[q] /\ reply'[q] = reply[q]
          BY <3>2
        <4>. QED
          BY <3>2, <4>1 DEF EffectsAreEntitled, User
      <3>. QED
        BY <3>1, <3>2
    <2>5. OwnersFirst'
      BY DEF OwnersFirst
    <2>. QED
      BY <2>1, <2>2, <2>3, <2>4, <2>5
  <1>3. CASE ReadMemberships(r)
    BY <1>3 DEF ReadMemberships, FoundIsThere, LapsedStayOut, EffectsAreEntitled, OwnersFirst, User, Steps
  <1>4. CASE ReadAdmin(r)
    <2>1. /\ UNCHANGED <<session, users, admins, tenants, memberships, branches, found, entered>>
          /\ step[r] = "admin"
      BY <1>4 DEF ReadAdmin
    <2>2. PICK s \in {"tenant", "done"}, x \in {"done", "refused", nobody}, a \in tenants \union {nobody} :
            /\ step' = [step EXCEPT ![r] = s]
            /\ reply' = [reply EXCEPT ![r] = x]
            /\ actsFor' = [actsFor EXCEPT ![r] = a]
            /\ s = "tenant" => x = nobody /\ r \in AdminRequests
            /\ r \in StaffRequests =>
                 (x = "done" /\ a \in found[r]) \/ (x = "refused" /\ found[r] = {})
            /\ r \in AdminRequests => (s = "tenant" /\ User(r) \in admins) \/ x = "refused"
      <3>1. CASE r \in StaffRequests /\ found[r] = {}
        BY <1>4, <3>1 DEF ReadAdmin, tenantOf
      <3>2. CASE r \in StaffRequests /\ found[r] # {}
        <4>1. tenantOf(r)
          BY <1>4, <3>2 DEF ReadAdmin
        <4>2. PICK t \in found[r] : /\ actsFor' = [actsFor EXCEPT ![r] = t]
                                    /\ Reply(r, "done")
          BY <3>2, <4>1 DEF tenantOf, authorizeTenant
        <4>3. /\ t \in tenants \union {nobody} /\ r \notin AdminRequests
              /\ step' = [step EXCEPT ![r] = "done"] /\ reply' = [reply EXCEPT ![r] = "done"]
          BY <3>2, <4>2
        <4>. WITNESS "done" \in {"tenant", "done"}, "done" \in {"done", "refused", nobody},
                     t \in tenants \union {nobody}
        <4>. QED
          BY <3>2, <4>2, <4>3
      <3>3. CASE r \in AdminRequests
        BY <1>4, <3>3 DEF ReadAdmin, EffectsAreEntitled
      <3>. QED
        BY <3>1, <3>2, <3>3 DEF Requests
    <2>. USE <2>1, <2>2
    <2>3. AccessTypeOK' /\ EnteredOK'
      BY DEF Steps
    <2>4. FoundIsThere'
      BY DEF FoundIsThere, User
    <2>5. LapsedStayOut'
      BY DEF LapsedStayOut
    <2>6. EffectsAreEntitled'
      BY DEF EffectsAreEntitled, FoundIsThere, User
    <2>7. OwnersFirst'
      BY DEF OwnersFirst
    <2>. QED
      BY <2>3, <2>4, <2>5, <2>6, <2>7
  <1>5. CASE Break(r)
    BY <1>5 DEF Break, FoundIsThere, LapsedStayOut, EffectsAreEntitled, OwnersFirst, User, Steps
  <1>. QED
    BY <1>1, <1>2, <1>3, <1>4, <1>5
LEMMA OnboardingKeepsInv ==
  ASSUME AccessInv, NEW r \in Requests, onboard(r)
  PROVE  AccessInv'
  <1>. USE RequestsAssumption, UsersAreUsers
       DEF AccessInv, AccessTypeOK, EnteredOK, At, GoTo, Reply, authVars, TenantsOf
  <1>0. r \in AdminRequests /\ User(r) \in admins /\ ~entered[r].lapsed
    BY DEF onboard, InsertTenant, UpsertOwner, InsertMembership, createBranch, EffectsAreEntitled, LapsedStayOut
  <1>1. CASE InsertTenant(r)
    <2>1. /\ UNCHANGED <<session, users, admins, memberships, branches, found, actsFor, entered>>
          /\ step[r] = "tenant"
      BY <1>1 DEF InsertTenant
    <2>2. CASE tenants' = tenants /\ Reply(r, "error")
      <3>. USE <1>0, <2>1, <2>2
      <3>1. AccessTypeOK' /\ EnteredOK'
        BY DEF Steps
      <3>2. FoundIsThere' /\ LapsedStayOut'
        BY DEF FoundIsThere, LapsedStayOut, User
      <3>3. EffectsAreEntitled' /\ OwnersFirst'
        BY DEF EffectsAreEntitled, OwnersFirst, User
      <3>. QED
        BY <3>1, <3>2, <3>3
    <2>3. CASE tenants' = tenants \union {r} /\ GoTo(r, "owner")
      <3>. USE <1>0, <2>1, <2>3
      <3>1. AccessTypeOK' /\ EnteredOK'
        BY DEF Steps
      <3>2. FoundIsThere' /\ LapsedStayOut'
        BY DEF FoundIsThere, LapsedStayOut, User
      <3>3. EffectsAreEntitled' /\ OwnersFirst'
        BY DEF EffectsAreEntitled, OwnersFirst, User
      <3>. QED
        BY <3>1, <3>2, <3>3
    <2>. QED
      BY <1>1, <2>2, <2>3 DEF InsertTenant
  <1>2. CASE UpsertOwner(r)
    <2>. USE <1>0, <1>2 DEF UpsertOwner
    <2>1. AccessTypeOK' /\ EnteredOK'
      BY DEF Steps
    <2>2. FoundIsThere' /\ LapsedStayOut'
      BY DEF FoundIsThere, LapsedStayOut, User
    <2>3. EffectsAreEntitled' /\ OwnersFirst'
      BY DEF EffectsAreEntitled, OwnersFirst, User
    <2>. QED
      BY <2>1, <2>2, <2>3
  <1>3. CASE InsertMembership(r)
    <2>. USE <1>0, <1>3 DEF InsertMembership
    <2>1. AccessTypeOK' /\ EnteredOK'
      BY DEF Steps, OwnersFirst
    <2>2. FoundIsThere' /\ LapsedStayOut'
      BY DEF FoundIsThere, LapsedStayOut, User
    <2>3. EffectsAreEntitled' /\ OwnersFirst'
      BY DEF EffectsAreEntitled, OwnersFirst, User
    <2>. QED
      BY <2>1, <2>2, <2>3
  <1>4. CASE createBranch(r)
    <2>. USE <1>0, <1>4 DEF createBranch
    <2>1. AccessTypeOK' /\ EnteredOK'
      BY DEF Steps, OwnersFirst
    <2>2. FoundIsThere' /\ LapsedStayOut'
      BY DEF FoundIsThere, LapsedStayOut, User
    <2>3. EffectsAreEntitled'
      BY DEF EffectsAreEntitled, User
    <2>4. OwnersFirst'
      BY DEF OwnersFirst
    <2>. QED
      BY <2>1, <2>2, <2>3, <2>4
  <1>. QED
    BY <1>1, <1>2, <1>3, <1>4 DEF onboard

LEMMA AccessNextKeepsInv == AccessInv /\ [AccessNext]_accessVars => AccessInv'
  <1>. SUFFICES ASSUME AccessInv, [AccessNext]_accessVars PROVE AccessInv'
    OBVIOUS
  <1>1. ASSUME NEW r \in Requests, authenticate(r) \/ Resume(r) \/ Break(r) PROVE AccessInv'
    BY <1>1, ReadingKeepsInv, OnboardingKeepsInv DEF Resume
  <1>2. ASSUME NEW s \in Sessions, Lapse(s) PROVE AccessInv'
    <2>. USE RequestsAssumption, UsersAreUsers, <1>2
         DEF Lapse, AccessInv, AccessTypeOK, EnteredOK, TenantsOf, SessionStatus
    <2>1. AccessTypeOK' /\ EnteredOK' /\ FoundIsThere'
      BY DEF FoundIsThere, User
    <2>2. LapsedStayOut' /\ EffectsAreEntitled' /\ OwnersFirst'
      BY DEF LapsedStayOut, EffectsAreEntitled, OwnersFirst, User
    <2>. QED
      BY <2>1, <2>2
  <1>3. ASSUME NEW u \in Users, grantPlatformAdmin(u) PROVE AccessInv'
    BY <1>3
    DEF grantPlatformAdmin, AccessInv, AccessTypeOK, EnteredOK, TenantsOf, FoundIsThere, LapsedStayOut,
        EffectsAreEntitled, OwnersFirst, User
  <1>4. CASE UNCHANGED accessVars
    BY <1>4
    DEF accessVars, AccessInv, AccessTypeOK, EnteredOK, TenantsOf, FoundIsThere, LapsedStayOut,
        EffectsAreEntitled, OwnersFirst, User
  <1>. QED
    BY <1>1, <1>2, <1>3, <1>4 DEF AccessNext

(* Whoever did something had a live session when the request began, and the  *)
(* rows that allow it; owners manage their tenants and are not turned away.  *)
THEOREM AccessIsEntitled == AccessSpec => [](AdmittedAreEntitled /\ OwnersGetIn)
  <1>1. AccessInv => AdmittedAreEntitled
    <2>. SUFFICES ASSUME AccessInv, NEW r \in Requests, reply[r] = "done" \/ r \in tenants
                  PROVE  /\ ~entered[r].lapsed
                         /\ r \in StaffRequests => <<User(r), actsFor[r]>> \in memberships
                         /\ r \notin StaffRequests => User(r) \in admins
      BY DEF AdmittedAreEntitled
    <2>1. ~entered[r].lapsed
      BY DEF AccessInv, LapsedStayOut
    <2>2. CASE r \in StaffRequests
      BY <2>1, <2>2, RequestsAssumption, UsersAreUsers
      DEF AccessInv, AccessTypeOK, EffectsAreEntitled, FoundIsThere, TenantsOf
    <2>3. CASE r \notin StaffRequests
      BY <2>1, <2>3 DEF AccessInv, EffectsAreEntitled, Requests
    <2>. QED
      BY <2>1, <2>2, <2>3
  <1>2. AccessInv => OwnersGetIn
    BY DEF AccessInv, EffectsAreEntitled, OwnersFirst, OwnersGetIn
  <1>. QED
    BY <1>1, <1>2, InitAccessInv, AccessNextKeepsInv, PTL DEF AccessSpec

----------------------------------------------------------------------------
(* A sum of recursive calls is a sum: the lines of a basket that can be       *)
(* priced come to an amount, which is their total.                            *)
LEMMA TimesNat == \A m, n \in Nat : m * n \in Nat
  OBVIOUS
LEMMA SubtotalIsTotal ==
  ASSUME NEW basket \in Baskets, priceable(basket)
  PROVE  /\ \A i \in DOMAIN basket : lineTotal(basket[i]) \in Nat
         /\ Subtotal(basket) = Total([i \in DOMAIN basket |-> lineTotal(basket[i])], DOMAIN basket)
         /\ Subtotal(basket) \in Nat
  <1>. DEFINE lines == DOMAIN basket
              f == [i \in lines |-> lineTotal(basket[i])]
              Recursion(g, s) == IF s = {} THEN 0
                             ELSE lineTotal(basket[CHOOSE x \in s : TRUE]) + g[s \ {CHOOSE x \in s : TRUE}]
  <1>1. \A i \in lines : lineTotal(basket[i]) \in Nat
    <2>. SUFFICES ASSUME NEW i \in lines PROVE lineTotal(basket[i]) \in Nat
      OBVIOUS
    <2>1. effectiveUnit(basket[i]) \in Nat /\ basket[i].quantity \in Nat
      BY BasketAssumption DEF priceable, effectiveUnit
    <2>. QED
      BY <2>1, TimesNat DEF lineTotal
  <1>2. PICK iter : /\ Subtotal(basket) = iter[lines]
                    /\ iter = CHOOSE g : g = [s \in SUBSET lines |-> Recursion(g, s)]
    BY DEF Subtotal, MapThenSumSet, MapThenFoldSet
  <1>3. \A g : Sums(f, lines, g) <=> g = [s \in SUBSET lines |-> Recursion(g, s)]
    <2>1. \A g : \A s \in SUBSET lines : Recursion(g, s) = Step(f, g, s)
      BY DEF Step
    <2>. HIDE DEF Recursion, f, lines
    <2>. QED
      BY <2>1 DEF Sums
  <1>4. IsFiniteSet(lines) /\ \A x \in lines : f[x] \in Nat
    BY <1>1, BasketAssumption
  <1>. HIDE DEF f, lines
  <1>5. \E g : Sums(f, lines, g)
    BY <1>4, SumsAreTotals
  <1>6. Sums(f, lines, iter)
    <2>. HIDE DEF Recursion
    <2>. QED
      BY <1>2, <1>3, <1>5
  <1>7. Subtotal(basket) = Total(f, lines) /\ Total(f, lines) \in Nat
    BY <1>2, <1>4, <1>6, SumsAreTotals, SumsAddUp
  <1>. QED
    BY <1>1, <1>7 DEF f, lines

(* Opening hours. Division, and what a remainder is.                         *)
LEMMA DivMod ==
  ASSUME NEW a \in Int, NEW n \in Nat \ {0}
  PROVE  /\ a \div n \in Int /\ a % n \in 0..(n - 1)
         /\ a = (a \div n) * n + (a % n)
  OBVIOUS

LEMMA RemaindersAreUnique ==
  ASSUME NEW n \in Nat \ {0}, NEW q \in Int, NEW p \in Int, NEW r \in 0..(n - 1), NEW s \in 0..(n - 1),
         q * n + r = p * n + s
  PROVE  q = p /\ r = s
  <1>1. ASSUME NEW k \in Int, k >= 1 PROVE k * n >= n
    BY <1>1
  <1>2. q - p >= 1 => (q - p) * n >= n
    BY <1>1
  <1>3. p - q >= 1 => (p - q) * n >= n
    BY <1>1
  <1>4. (q - p) * n = q * n - p * n /\ (p - q) * n = p * n - q * n
    OBVIOUS
  <1>5. q * n \in Int /\ p * n \in Int
    OBVIOUS
  <1>6. q = p
    BY <1>2, <1>3, <1>4, <1>5
  <1>. QED
    BY <1>5, <1>6

LEMMA ModIs ==
  ASSUME NEW a \in Int, NEW n \in Nat \ {0}, NEW q \in Int, NEW r \in 0..(n - 1), a = q * n + r
  PROVE  a % n = r
  <1>1. PICK p \in Int, s \in 0..(n - 1) : s = a % n /\ a = p * n + s
    BY DivMod
  <1>2. q * n + r = p * n + s
    BY <1>1
  <1>3. r = s
    BY <1>2, RemaindersAreUnique
  <1>. QED
    BY <1>1, <1>3

(* Local time: the weekday, the time of day, and the day before.             *)
LocalDay(at) == ((at + BRANCH_TZ_OFFSET) \div DAY) % 7
LocalTime(at) == (at + BRANCH_TZ_OFFSET) % DAY
DayBefore(day) == IF day = 0 THEN 6 ELSE day - 1

(* How long ago a window that opens at a time of weekday d last opened: so   *)
(* many whole days, and the difference of the times.                         *)
SinceOpen(at, d, open) == (at + BRANCH_TZ_OFFSET - (d * DAY + open)) % (7 * DAY)

LEMMA SinceOpenIs ==
  ASSUME NEW at \in Int, NEW d \in WEEKDAYS, NEW open \in 0..DAY
  PROVE  \E e \in 0..6 :
           /\ e = 0 <=> d = LocalDay(at)
           /\ e = 1 <=> d = DayBefore(LocalDay(at))
           /\ LET since == e * DAY + LocalTime(at) - open IN
              SinceOpen(at, d, open) = IF since >= 0 THEN since ELSE 7 * DAY + since
  <1>0. PICK L \in Int : L = at + BRANCH_TZ_OFFSET
    BY DayAssumption
  <1>1. DAY \in Nat \ {0} /\ d \in 0..6 /\ open \in Int
    BY DayAssumption DEF WEEKDAYS
  <1>2. PICK k \in Int, time \in 0..(DAY - 1) : time = LocalTime(at) /\ k = L \div DAY /\ L = k * DAY + time
    BY <1>0, <1>1, DivMod DEF LocalTime
  <1>3. PICK q \in Int, day \in 0..6 : day = LocalDay(at) /\ k = q * 7 + day
    <2>1. LocalDay(at) = k % 7
      BY <1>0, <1>2 DEF LocalDay
    <2>2. k \div 7 \in Int /\ k % 7 \in 0..6 /\ k = (k \div 7) * 7 + (k % 7)
      OBVIOUS
    <2>. QED
      BY <2>1, <2>2
  <1>4. PICK f \in Int, e \in 0..6 :
          /\ k - d = 7 * f + e
          /\ e = 0 <=> d = day
          /\ e = 1 <=> d = DayBefore(day)
    <2>1. CASE day >= d
      <3>1. k - d = 7 * q + (day - d) /\ day - d \in 0..6
        BY <1>1, <1>3, <2>1
      <3>2. day - d = 0 <=> d = day
        BY <1>1, <1>3
      <3>3. day - d = 1 <=> d = DayBefore(day)
        BY <1>1, <1>3, <2>1 DEF DayBefore
      <3>. QED
        BY <3>1, <3>2, <3>3
    <2>2. CASE day < d
      <3>1. k - d = 7 * (q - 1) + (day - d + 7) /\ day - d + 7 \in 0..6 /\ q - 1 \in Int
        BY <1>1, <1>3, <2>2
      <3>2. day - d + 7 = 0 <=> d = day
        BY <1>1, <1>3, <2>2
      <3>3. day - d + 7 = 1 <=> d = DayBefore(day)
        BY <1>1, <1>3, <2>2 DEF DayBefore
      <3>. QED
        BY <3>1, <3>2, <3>3
    <2>. QED
      BY <1>1, <1>3, <2>1, <2>2
  <1>5. PICK days \in 0..(6 * DAY) : days = e * DAY
    <2>1. e * DAY \in Int /\ 0 <= e * DAY /\ e * DAY <= 6 * DAY
      BY <1>1
    <2>. QED
      BY <2>1
  <1>6. PICK whole \in Int, weeks \in Int :
          whole = k * DAY - d * DAY /\ weeks = f * (7 * DAY) /\ whole = weeks + days
    <2>1. k * DAY - d * DAY = (k - d) * DAY
      BY <1>1
    <2>2. (7 * f + e) * DAY = f * (7 * DAY) + e * DAY
      BY <1>1
    <2>3. k * DAY - d * DAY \in Int /\ f * (7 * DAY) \in Int
      BY <1>1
    <2>. QED
      BY <1>4, <1>5, <2>1, <2>2, <2>3
  <1>7. PICK since \in Int : since = days + time - open /\ 0 - 7 * DAY <= since /\ since < 7 * DAY
    BY <1>1
  <1>8. PICK week \in Nat \ {0} : week = 7 * DAY
    BY <1>1
  <1>9. PICK a \in Int : a = L - (d * DAY + open)
    BY <1>1
  <1>10. a \in Int /\ a = f * week + since
    <2>. DEFINE then == d * DAY + open
    <2>1. then \in Int /\ L - then = whole + time - open
      <3>1. k * DAY \in Int /\ d * DAY \in Int
        BY <1>1
      <3>2. L - (d * DAY + open) = (k * DAY - d * DAY) + time - open
        BY <1>1, <1>2, <3>1
      <3>. QED
        BY <1>1, <1>6, <3>1, <3>2
    <2>2. L - then = weeks + since
      <3>. HIDE DEF then
      <3>. QED
        BY <1>1, <1>5, <1>6, <1>7, <2>1
    <2>3. weeks = f * week
      BY <1>6, <1>8
    <2>4. L - then \in Int /\ L - then = f * week + since
      <3>. HIDE DEF then
      <3>. QED
        BY <1>1, <2>1, <2>2, <2>3
    <2>. QED
      BY <1>9, <2>4
  <1>11. SinceOpen(at, d, open) = a % week
    <2>1. at + BRANCH_TZ_OFFSET - (d * DAY + open) = a
      <3>1. PICK then \in Int : then = d * DAY + open
        BY <1>1
      <3>2. at + BRANCH_TZ_OFFSET - then = a
        BY <1>0, <1>9, <3>1, DayAssumption
      <3>. QED
        BY <3>1, <3>2, Zenon
    <2>2. 7 * DAY = week
      BY <1>8
    <2>3. SinceOpen(at, d, open) = (at + BRANCH_TZ_OFFSET - (d * DAY + open)) % (7 * DAY)
      BY Zenon DEF SinceOpen
    <2>. QED
      BY <2>1, <2>2, <2>3, Zenon
  <1>12. a % week = IF since >= 0 THEN since ELSE week + since
    <2>1. CASE since >= 0
      <3>1. since \in 0..(week - 1)
        BY <1>7, <1>8, <2>1
      <3>. QED
        BY <1>10, <2>1, <3>1, ModIs
    <2>2. CASE ~(since >= 0)
      <3>1. week + since \in 0..(week - 1) /\ f - 1 \in Int
        BY <1>7, <1>8, <2>2
      <3>2. a = (f - 1) * week + (week + since)
        BY <1>10
      <3>. QED
        BY <1>10, <2>2, <3>1, <3>2, ModIs
    <2>. QED
      BY <2>1, <2>2
  <1>. QED
    BY <1>2, <1>3, <1>4, <1>5, <1>7, <1>8, <1>11, <1>12

InWindow(day, time, d, w) ==
  IF w[2] > w[1] THEN d = day /\ w[1] <= time /\ time < w[2]
                 ELSE (d = day /\ w[1] <= time) \/ (d = DayBefore(day) /\ time < w[2])

LEMMA WindowMeans ==
  ASSUME NEW at \in Int, NEW d \in WEEKDAYS, NEW w \in (0..DAY) \X (0..DAY)
  PROVE  SinceOpen(at, d, w[1]) < Length(w) <=> InWindow(LocalDay(at), LocalTime(at), d, w)
  <1>1. DAY \in Nat \ {0} /\ w[1] \in 0..DAY /\ w[2] \in 0..DAY
    BY DayAssumption
  <1>2. LocalTime(at) \in 0..(DAY - 1)
    <2>1. at + BRANCH_TZ_OFFSET \in Int
      BY DayAssumption
    <2>. QED
      BY <1>1, <2>1, DivMod DEF LocalTime
  <1>3. PICK e \in 0..6 :
           /\ e = 0 <=> d = LocalDay(at)
           /\ e = 1 <=> d = DayBefore(LocalDay(at))
           /\ LET since == e * DAY + LocalTime(at) - w[1] IN
              SinceOpen(at, d, w[1]) = IF since >= 0 THEN since ELSE 7 * DAY + since
    BY <1>1, SinceOpenIs
  <1>. SUFFICES ASSUME NEW days, days = e * DAY, NEW time, time = LocalTime(at), NEW y,
                       y = IF days + time - w[1] >= 0 THEN days + time - w[1]
                                                      ELSE 7 * DAY + (days + time - w[1])
                PROVE  y < Length(w) <=> InWindow(LocalDay(at), time, d, w)
    BY <1>3
  <1>4. CASE e = 0
    <2>1. days = 0 /\ LocalDay(at) = d /\ d # DayBefore(LocalDay(at))
      BY <1>1, <1>3, <1>4
    <2>2. y = IF time - w[1] >= 0 THEN time - w[1] ELSE 7 * DAY + (time - w[1])
      BY <1>1, <1>2, <2>1
    <2>3. CASE w[2] > w[1]
      BY <1>1, <1>2, <2>1, <2>2, <2>3 DEF Length, InWindow
    <2>4. CASE ~(w[2] > w[1])
      BY <1>1, <1>2, <2>1, <2>2, <2>4 DEF Length, InWindow
    <2>. QED
      BY <2>3, <2>4
  <1>5. CASE e = 1
    BY <1>1, <1>2, <1>3, <1>5 DEF Length, InWindow
  <1>6. CASE e \in 2..6
    <2>1. days \in Int /\ 2 * DAY <= days
      BY <1>1, <1>6
    <2>. QED
      BY <1>1, <1>2, <1>3, <1>6, <2>1 DEF Length, InWindow
  <1>. QED
    BY <1>4, <1>5, <1>6

(* Between the weekday's windows, which the code asks, and what the merchant *)
(* means: the same, when no window passes midnight or every day is alike.    *)
LEMMA HoursMean ==
  ASSUME NEW week \in Weeks, NEW at \in Int, NoWindowPassesMidnight(week) \/ EveryDayAlike(week)
  PROVE  isOpenAt(week, at) <=> MeansOpen(week, at)
  <1>. DEFINE day == LocalDay(at)
              time == LocalTime(at)
  <1>1. /\ DOMAIN week \subseteq WEEKDAYS
        /\ \A d \in DOMAIN week : \A w \in week[d] : w \in (0..DAY) \X (0..DAY)
    BY MerchantAssumption
  <1>2. isOpenAt(week, at) <=>
          day \in DOMAIN week /\ \E w \in week[day] :
            IF w[2] > w[1] THEN w[1] <= time /\ time < w[2] ELSE w[1] <= time \/ time < w[2]
    BY DEF isOpenAt, LocalDay, LocalTime
  <1>3. \A d \in DOMAIN week : \A w \in week[d] :
          SinceOpen(at, d, w[1]) < Length(w) <=> InWindow(day, time, d, w)
    BY <1>1, WindowMeans
  <1>4. MeansOpen(week, at) <=> \E d \in DOMAIN week : \E w \in week[d] : InWindow(day, time, d, w)
    <2>1. MeansOpen(week, at) <=> \E d \in DOMAIN week : \E w \in week[d] : SinceOpen(at, d, w[1]) < Length(w)
      BY Zenon DEF MeansOpen, SinceOpen
    <2>. HIDE DEF day, time
    <2>. QED
      BY <1>3, <2>1
  <1>5. day \in WEEKDAYS
    <2>1. PICK days \in Int : days = (at + BRANCH_TZ_OFFSET) \div DAY
      BY DayAssumption
    <2>2. day = days % 7
      BY <2>1 DEF LocalDay
    <2>. QED
      BY <2>2 DEF WEEKDAYS
  <1>. HIDE DEF day, time
  <1>6. CASE NoWindowPassesMidnight(week)
    BY <1>2, <1>4, <1>6 DEF NoWindowPassesMidnight, InWindow
  <1>7. CASE EveryDayAlike(week)
    <2>1. DayBefore(day) \in WEEKDAYS
      BY <1>5 DEF DayBefore, WEEKDAYS
    <2>2. /\ DOMAIN week = WEEKDAYS
          /\ \A d \in WEEKDAYS : week[d] = week[day]
      BY <1>5, <1>7 DEF EveryDayAlike
    <2>3. ASSUME NEW w \in week[day]
          PROVE  (\E d \in WEEKDAYS : InWindow(day, time, d, w)) <=>
                   IF w[2] > w[1] THEN w[1] <= time /\ time < w[2] ELSE w[1] <= time \/ time < w[2]
      BY <1>5, <2>1 DEF InWindow
    <2>. QED
      BY <1>2, <1>4, <1>5, <2>2, <2>3
  <1>. QED
    BY <1>6, <1>7

(* What was priced is the bill of a basket, a fee and a discount.            *)
PricedAsAsked ==
  priced # nothing /\ priced.refused = "no" =>
    \E basket \in Baskets, asked \in Int :
      /\ priceable(basket)
      /\ priced.fee \in Fees
      /\ priced.bill = computeTotals(basket, priced.fee, asked)

(* A branch with hours refused as "closed" what its weekday's windows do not *)
(* cover, and nothing that got past that guard.                              *)
AskedWhetherOpen ==
  priced # nothing /\ DOMAIN hours # {} =>
    /\ priced.at \in Int
    /\ priced.refused = "closed" => ~isOpenAt(hours, priced.at)
    /\ priced.refused \in {"no", "bad_promo"} => isOpenAt(hours, priced.at)

GuardInv ==
  /\ hours = <<>> \/ hours \in Weeks
  /\ promo = noPromo \/ promo \in Promos
  /\ PricedAsAsked
  /\ AskedWhetherOpen

LEMMA PercentIsInt == \A p, a \in Int : PercentOf(p, a) \in Int
  BY DEF PercentOf

LEMMA DiscountIsInt == \A p \in Promos, a \in Int : discountOf(p, a) \in Int
  BY MerchantAssumption, PercentIsInt DEF discountOf, Least

(* The nearest amount is within half a unit, and grows with the base.        *)
LEMMA VatIsNear ==
  \A a \in Nat : LET gap == 100 * PercentOf(VAT_RATE_PERCENT, a) - 15 * a IN -50 <= gap /\ gap <= 50
  BY DEF PercentOf, VAT_RATE_PERCENT

LEMMA VatIsMonotone ==
  \A a, b \in Nat : a <= b => PercentOf(VAT_RATE_PERCENT, a) <= PercentOf(VAT_RATE_PERCENT, b)
  BY DEF PercentOf, VAT_RATE_PERCENT

LEMMA PricingKeepsInv ==
  ASSUME GuardInv, NEW basket \in Baskets, NEW fee \in Fees, NEW withPromo \in BOOLEAN,
         NEW wanted \in Int, checkout(basket, fee, withPromo, wanted)
  PROVE  GuardInv'
  <1>. DEFINE discount == IF withPromo THEN discountOf(promo, Subtotal(basket)) ELSE 0
              refused == Refusal(basket, withPromo, wanted)
  <1>1. priced' = [at |-> wanted, fee |-> fee, refused |-> refused,
                   bill |-> IF refused = "no" THEN computeTotals(basket, fee, discount) ELSE nothing]
        /\ promo' = promo /\ hours' = hours
    BY DEF checkout, branchVars
  <1>2. refused = "no" => priceable(basket) /\ (withPromo => promo # noPromo)
    BY DEF Refusal
  <1>3. refused = "no" => discount \in Int
    <2>. SUFFICES ASSUME refused = "no", withPromo PROVE discountOf(promo, Subtotal(basket)) \in Int
      OBVIOUS
    <2>1. Subtotal(basket) \in Int
      <3>1. priceable(basket)
        BY <1>2
      <3>2. Subtotal(basket) \in Nat
        BY <3>1, SubtotalIsTotal, Zenon
      <3>. QED
        BY <3>2
    <2>2. promo \in Promos
      BY <1>2 DEF GuardInv
    <2>. QED
      BY <2>1, <2>2, DiscountIsInt
  <1>4. DOMAIN hours # {} =>
          /\ refused = "closed" => ~isOpenAt(hours, wanted)
          /\ refused \in {"no", "bad_promo"} => isOpenAt(hours, wanted)
    BY DEF Refusal
  <1>. HIDE DEF discount, refused
  <1>5. PricedAsAsked'
    BY <1>1, <1>2, <1>3 DEF PricedAsAsked
  <1>6. AskedWhetherOpen'
    <2>1. priced'.at = wanted /\ priced'.refused = refused
      BY <1>1
    <2>. QED
      BY <1>1, <1>4, <2>1 DEF AskedWhetherOpen
  <1>. QED
    BY <1>1, <1>5, <1>6 DEF GuardInv

LEMMA GuardNextKeepsInv == GuardInv /\ [GuardNext]_guardVars => GuardInv'
  <1>. SUFFICES ASSUME GuardInv, [GuardNext]_guardVars PROVE GuardInv'
    OBVIOUS
  <1>1. CASE updateBranch \/ Tick \/ \E p \in Promos : createPromo(p)
    BY <1>1 DEF updateBranch, Tick, createPromo, GuardInv, PricedAsAsked, AskedWhetherOpen, branchVars
  <1>2. ASSUME NEW basket \in Baskets, NEW fee \in Fees, NEW withPromo \in BOOLEAN,
               NEW wanted \in (now - Slack - 1)..(now + Horizon + 1),
               checkout(basket, fee, withPromo, wanted)
        PROVE  GuardInv'
    BY <1>2, PricingKeepsInv
  <1>3. CASE UNCHANGED guardVars
    BY <1>3 DEF guardVars, branchVars, GuardInv, PricedAsAsked, AskedWhetherOpen
  <1>. QED
    BY <1>1, <1>2, <1>3 DEF GuardNext

LEMMA InitGuardInv == GuardInit => GuardInv
  BY DEF GuardInit, GuardInv, PricedAsAsked, AskedWhetherOpen

(* Bills add up whatever promotion a merchant wrote, for every basket.       *)
THEOREM EveryBillAddsUp == GuardSpec => []BillsAddUp
  <1>1. GuardInv => BillsAddUp
    <2>. SUFFICES ASSUME NEW basket \in Baskets, NEW asked \in Int, priceable(basket), priced.fee \in Fees,
                         priced.bill = computeTotals(basket, priced.fee, asked)
                  PROVE  BillsAddUp
      BY DEF GuardInv, PricedAsAsked, BillsAddUp
    <2>. DEFINE subtotal == Subtotal(basket)
                discount == Greatest(0, Least(asked, subtotal))
                base == subtotal - discount
    <2>1. subtotal \in Nat /\ priced.fee \in Int
      BY SubtotalIsTotal, MerchantAssumption
    <2>2. discount \in 0..subtotal
      BY <2>1 DEF Greatest, Least
    <2>3. base \in Nat /\ base <= subtotal
      BY <2>1, <2>2
    <2>4. priced.bill = [subtotal |-> subtotal, discount |-> discount, vat |-> PercentOf(VAT_RATE_PERCENT, base),
                         total |-> base + PercentOf(VAT_RATE_PERCENT, base) + priced.fee]
      BY DEF computeTotals, Totals
    <2>5. Totals(subtotal, priced.fee, 0).total = subtotal + PercentOf(VAT_RATE_PERCENT, subtotal) + priced.fee
      BY <2>1 DEF Totals, Greatest, Least
    <2>6. PercentOf(VAT_RATE_PERCENT, base) \in Int /\ PercentOf(VAT_RATE_PERCENT, subtotal) \in Int
      <3>1. VAT_RATE_PERCENT \in Int
        BY DEF VAT_RATE_PERCENT
      <3>2. base \in Int /\ subtotal \in Int
        BY <2>1, <2>3
      <3>. HIDE DEF subtotal, base
      <3>. QED
        BY <3>1, <3>2, PercentIsInt
    <2>7. -50 <= 100 * PercentOf(VAT_RATE_PERCENT, base) - 15 * base
          /\ 100 * PercentOf(VAT_RATE_PERCENT, base) - 15 * base <= 50
      BY <2>3, VatIsNear
    <2>8. PercentOf(VAT_RATE_PERCENT, base) <= PercentOf(VAT_RATE_PERCENT, subtotal)
      BY <2>1, <2>3, VatIsMonotone
    <2>. HIDE DEF subtotal, discount
    <2>. QED
      BY <2>1, <2>2, <2>3, <2>4, <2>5, <2>6, <2>7, <2>8 DEF BillsAddUp
  <1>. QED
    BY <1>1, InitGuardInv, GuardNextKeepsInv, PTL DEF GuardSpec

(* The branch refuses as closed, and serves, when its merchant means it to.  *)
THEOREM OpenAsMeant == GuardSpec => []OpenWhenItMeansTo
  <1>1. GuardInv => OpenWhenItMeansTo
    <2>. SUFFICES ASSUME GuardInv, priced # nothing, DOMAIN hours # {},
                         NoWindowPassesMidnight(hours) \/ EveryDayAlike(hours)
                  PROVE  /\ priced.refused = "closed" => ~MeansOpen(hours, priced.at)
                         /\ priced.refused \in {"no", "bad_promo"} => MeansOpen(hours, priced.at)
      BY DEF OpenWhenItMeansTo
    <2>1. hours \in Weeks
      BY DEF GuardInv
    <2>2. priced.at \in Int
      BY DEF GuardInv, AskedWhetherOpen
    <2>3. isOpenAt(hours, priced.at) <=> MeansOpen(hours, priced.at)
      BY <2>1, <2>2, HoursMean
    <2>. QED
      BY <2>3 DEF GuardInv, AskedWhetherOpen
  <1>. QED
    BY <1>1, InitGuardInv, GuardNextKeepsInv, PTL DEF GuardSpec
=============================================================================
