--------------------------- MODULE ToolDispatcher ---------------------------
(* ToolDispatcher.dispatch for one tenant. A call is one dispatch; a caller  *)
(* that retries makes another call with the same key. The transaction of a   *)
(* call looks its key up, inserts the invocation as pending, runs the tool's *)
(* handler and marks the invocation completed; nobody sees it before the     *)
(* commit, but its entry in the unique index makes others wait.              *)
(* A handler is external code: it returns or throws, and what it writes it   *)
(* writes in the transaction of the call.                                    *)
EXTENDS Integers

CONSTANTS
  Calls,        \* dispatches
  Keys,         \* idempotency keys
  Tools,        \* the tools of the registry
  KeyOf,        \* the key a call brings, or none
  ToolOf,       \* the tool a call names, registered or not
  Permitted,    \* the calls whose caller has a role the tool asks for
  Confirmed,    \* the calls made with opts.confirmed
  NeedsConfirmation,   \* the tools marked requiresConfirmation
  none

ASSUME CallsAssumption ==
  /\ KeyOf \in [Calls -> Keys \union {none}]
  /\ none \notin Keys \union Calls
  /\ "error" \notin Calls /\ none \notin {"error", "pending", "completed"}
  /\ NeedsConfirmation \subseteq Tools

VARIABLES
  invocation,   \* tool_invocations as committed: the status of each call's row, or none
  called,       \* where each dispatch stands
  answer        \* what it returned: the call whose result it is, "error", or none

toolVars == <<invocation, called, answer>>

InvocationStatus == {"pending", "completed"}
Places == {"idle", "lookup", "insert", "handle", "complete", "done"}

ToolTypeOK ==
  /\ invocation \in [Calls -> InvocationStatus \union {none}]
  /\ called \in [Calls -> Places]
  /\ answer \in [Calls -> Calls \union {"error", none}]

ToolInit ==
  /\ invocation = [c \in Calls |-> none]
  /\ called = [c \in Calls |-> "idle"]
  /\ answer = [c \in Calls |-> none]

(* A plausible slip: the unique index has the tool among its columns.        *)
SharesKeyAndTool(c, d) == c # d /\ KeyOf[c] # none /\ KeyOf[c] = KeyOf[d] /\ ToolOf[c] = ToolOf[d]

SharesKey(c, d) == c # d /\ KeyOf[c] # none /\ KeyOf[c] = KeyOf[d]

(* A plausible slip: a claim of the key outside the transaction, which a     *)
(* handler that throws does not give back.                                   *)
WritingForEver(c) ==
  {d \in Calls : SharesKey(c, d) /\ (called[d] \in {"handle", "complete"} \/ answer[d] = "error")}

(* The calls whose transaction holds an uncommitted entry for the key of c.  *)
Writing(c) == {d \in Calls : SharesKey(c, d) /\ called[d] \in {"handle", "complete"}}
Written(c) == {d \in Calls : SharesKey(c, d) /\ invocation[d] # none}

Return(c, r) ==
  /\ called' = [called EXCEPT ![c] = "done"]
  /\ answer' = [answer EXCEPT ![c] = r]

authorize(c) == c \in Permitted

(* Unknown tools, callers without the role and missing confirmations are     *)
(* turned away before the transaction.                                       *)
dispatch(c) ==
  /\ called[c] = "idle"
  /\ IF ToolOf[c] \in Tools /\ authorize(c) /\ (ToolOf[c] \in NeedsConfirmation => c \in Confirmed)
       THEN called' = [called EXCEPT ![c] = IF KeyOf[c] = none THEN "insert" ELSE "lookup"]
            /\ UNCHANGED answer
       ELSE Return(c, "error")
  /\ UNCHANGED invocation

Lookup(c) ==
  /\ called[c] = "lookup"
  /\ \/ \E d \in Written(c) : invocation[d] = "completed" /\ Return(c, d)
     \/ /\ \A d \in Written(c) : invocation[d] # "completed"
        /\ called' = [called EXCEPT ![c] = "insert"]
        /\ UNCHANGED answer
  /\ UNCHANGED invocation

(* A plausible slip: the row is inserted with ON CONFLICT DO NOTHING.        *)
InsertAnyway(c) ==
  /\ called[c] = "insert"
  /\ called' = [called EXCEPT ![c] = "handle"]
  /\ UNCHANGED <<invocation, answer>>

(* The insert waits for a transaction that holds the key and fails if that   *)
(* transaction commits.                                                      *)
Insert(c) ==
  /\ called[c] = "insert"
  /\ Writing(c) = {}
  /\ IF Written(c) = {}
       THEN called' = [called EXCEPT ![c] = "handle"] /\ UNCHANGED answer
       ELSE Return(c, "error")
  /\ UNCHANGED invocation

Handle(c) ==
  /\ called[c] = "handle"
  /\ called' = [called EXCEPT ![c] = "complete"]
  /\ UNCHANGED <<invocation, answer>>

(* The UPDATE and the commit; the connection may drop before the caller      *)
(* learns of it.                                                             *)
Complete(c) ==
  /\ called[c] = "complete"
  /\ invocation' = [invocation EXCEPT ![c] = "completed"]
  /\ \E r \in {c, "error"} : Return(c, r)

(* A handler that throws and a lost connection roll the transaction back.    *)
RollBack(c) ==
  /\ called[c] \in {"lookup", "insert", "handle", "complete"}
  /\ Return(c, "error")
  /\ UNCHANGED invocation

(* The process stops: every transaction is rolled back.                      *)
ToolRestart ==
  LET Open == {c \in Calls : called[c] \notin {"idle", "done"}}
  IN /\ Open # {}
     /\ called' = [c \in Calls |-> IF c \in Open THEN "done" ELSE called[c]]
     /\ answer' = [c \in Calls |-> IF c \in Open THEN "error" ELSE answer[c]]
     /\ UNCHANGED invocation

Advance(c) == Lookup(c) \/ Insert(c) \/ Handle(c) \/ Complete(c)
ToolNext == ToolRestart \/ \E c \in Calls : dispatch(c) \/ Advance(c) \/ RollBack(c)
ToolSpec == ToolInit /\ [][ToolNext]_toolVars

(* A call that began goes on, and the index hands a key to its waiters.      *)
ToolFairness == \A c \in Calls : WF_toolVars(Lookup(c) \/ Handle(c) \/ Complete(c)) /\ SF_toolVars(Insert(c))

----------------------------------------------------------------------------
(* The comment on the constraint (drizzle/0004): a second dispatch with the  *)
(* key meets the constraint "instead of double-running". No handler runs for *)
(* a key while another call's handler does, or after one has committed.      *)
NoDoubleRun ==
  \A c, d \in Calls :
    c # d /\ KeyOf[c] # none /\ KeyOf[c] = KeyOf[d] /\ called[c] \in {"handle", "complete"} =>
      called[d] \notin {"handle", "complete"} /\ invocation[d] = none

Once == INSTANCE OnceOnly WITH made <- {c \in Calls : invocation[c] = "completed"}, told <- answer

(* Calls with one key make its effect once and are told of the same result,  *)
(* whatever handlers throw, connections drop and callers retry meanwhile.    *)
ImplementsOnceOnly == Once!OSpec

(* No dispatch is under way, or waits for a key.                             *)
ToolIsQuiet == \A c \in Calls : called[c] \in {"idle", "done"}
=============================================================================
