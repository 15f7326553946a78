--------------------------- MODULE PayoutRequests ---------------------------
(***************************************************************************)
(* What the services that pay money out share: the requests in progress,   *)
(* the ledger transactions and the payments table.  A worker serves a      *)
(* request in steps; a step is what happens between two awaits, one        *)
(* statement or one database transaction.  What a request has read stays   *)
(* in its task until it ends.                                              *)
(***************************************************************************)
EXTENDS Integers, FiniteSets

CONSTANTS
    Workers,        \* requests that can be served at the same time
    MaxRequests,    \* bound on the requests made
    MaxFaults       \* bound on the calls that throw and the processes that die

ASSUME RequestAssumption == IsFiniteSet(Workers)

VARIABLES
    posted,     \* the idempotency keys of the ledger transactions
    payments,   \* the idempotency keys of the payments table
    task,       \* the request each worker is serving
    requests,   \* requests made so far
    faults,     \* faults so far
    overlapped  \* two requests have been served at the same time

books == <<posted, payments>>
requestVars == <<task, requests, faults, overlapped>>

None == [op |-> "none", pc |-> "none"]

\* A free worker takes a request, with what the request reads first.
Begin(w, t) ==
    /\ task[w] = None
    /\ requests < MaxRequests
    /\ requests' = requests + 1
    /\ task' = [task EXCEPT ![w] = t]
    /\ overlapped' = (overlapped \/ \E v \in Workers : task[v] # None)
    /\ UNCHANGED faults

\* A worker stands at a step of an operation.
At(w, op, pc) == task[w].op = op /\ task[w].pc = pc

\* It goes on with what it has read.
Continue(w, t) ==
    /\ task' = [task EXCEPT ![w] = t]
    /\ UNCHANGED <<requests, faults, overlapped>>

Goto(w, pc) == Continue(w, [task[w] EXCEPT !.pc = pc])

\* It answers, or throws out of the request.
Finish(w) == Continue(w, None)

\* createTransaction: a key that is there already is left as it is.
Post(key) == posted' = posted \cup {key}

Fault == faults < MaxFaults /\ faults' = faults + 1

\* The process dies, or a statement throws where nothing catches.
Abort(w) ==
    /\ Fault
    /\ task[w] # None
    /\ task' = [task EXCEPT ![w] = None]
    /\ UNCHANGED <<requests, overlapped, books>>

RequestInit ==
    /\ posted = {}
    /\ payments = {}
    /\ task = [w \in Workers |-> None]
    /\ requests = 0
    /\ faults = 0
    /\ overlapped = FALSE
=============================================================================
